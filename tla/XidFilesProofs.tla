--------------------------- MODULE XidFilesProofs ---------------------------
(***************************************************************************)
(* What a call leaves on the disk, for any files, documents and calls.     *)
(*                                                                         *)
(* The writes of a call are settled when it begins, so what holds at its   *)
(* end has to be said of the disk together with the writes that are still  *)
(* planned.  FilesInv says which of them there are: every file opened is   *)
(* written by a later one, none touches a document if the call fails, and  *)
(* the one that completes the delta comes after the one that completes the *)
(* map.  HistoryInv says what they write: done one after the other, they   *)
(* lead from one disk in good order to the next, and in the end to where   *)
(* ApplyDelta has restored the second version.  A call may thus be cut     *)
(* short anywhere and leave a disk in good order.                          *)
(***************************************************************************)
EXTENDS XidFiles, NumberInduction, SequenceTheorems, TLAPS

(* Every write that opens a file is followed by one that fills it. *)
Fills(w, path) == w.path = path /\ w.file # Empty

Completes(writes) ==
  \A k \in DOMAIN writes : writes[k].file = Empty =>
    \E m \in DOMAIN writes : m > k /\ Fills(writes[m], writes[k].path)

MapsOnly(writes) == \A k \in DOMAIN writes : writes[k].path[1] = "xidmap"

(* When the k-th of the writes is done, path holds what file is. *)
HoldsAt(writes, k, path, file) ==
  \/ /\ disk[path] = file
     /\ \A h \in 1 .. (k - 1) : writes[h].path # path
  \/ \E m \in 1 .. (k - 1) :
       /\ writes[m].path = path /\ writes[m].file = file
       /\ \A h \in (m + 1) .. (k - 1) : writes[h].path # path

(* The delta is completed after the map of its second document, f1's. *)
DeltaLast(writes, f1) ==
  \A k \in DOMAIN writes :
    writes[k].path = Delta /\ writes[k].knows # None =>
      /\ f1 \in File
      /\ HoldsAt(writes, k, Map(f1), Holding(StringFromList(writes[k].knows.to)))

(* No version is told with a write. *)
TellsNoVersion(writes) == \A k \in DOMAIN writes : writes[k].path = Delta => writes[k].knows = None

IsSequence(s) == \E S : s \in Seq(S)

IsPlan(p) == DOMAIN p = {"writes", "ends", "source"} /\ IsSequence(p.writes)

NothingLeftOpen ==
  ~Resting /\ plan.ends # "rootless" =>
    /\ Completes(plan.writes)
    /\ \A p \in Paths : disk[p] = Empty =>
         before[p] = Empty \/ \E k \in DOMAIN plan.writes : Fills(plan.writes[k], p)

Fails == plan.ends \in {"exception", "undefined"}

FailureIsHarmless ==
  ~Resting /\ Fails /\ Head(agenda).op # "tag" =>
    /\ MapsOnly(plan.writes)
    /\ \A p \in Paths : p[1] # "xidmap" => disk[p] = before[p]

MapIsSavedFirst ==
  ~Resting => dontSaveXidmap \/ DeltaLast(plan.writes, Head(agenda).f1)

Settled ==
  /\ DOMAIN disk = Paths
  /\ IsPlan(plan)
  /\ IsSequence(agenda)
  /\ \A k \in 2 .. Len(agenda) : agenda[k].op = "tag"
  /\ Resting => plan = Nothing

FilesInv ==
  Settled /\ NothingLeftOpen /\ FailureIsHarmless /\ MapIsSavedFirst

-----------------------------------------------------------------------------
(* Two sequences one after the other. *)
LEMMA Joined ==
  ASSUME NEW s, NEW t, IsSequence(s), IsSequence(t)
  PROVE  /\ Len(s) \in Nat /\ DOMAIN s = 1 .. Len(s)
         /\ Len(t) \in Nat /\ DOMAIN t = 1 .. Len(t)
         /\ DOMAIN (s \o t) = 1 .. (Len(s) + Len(t))
         /\ Len(s \o t) = Len(s) + Len(t)
         /\ \A k \in 1 .. Len(s) : (s \o t)[k] = s[k]
         /\ \A k \in 1 .. Len(t) : (s \o t)[Len(s) + k] = t[k]
PROOF
  <1>1. PICK S : s \in Seq(S)
    BY DEF IsSequence
  <1>2. PICK T : t \in Seq(T)
    BY DEF IsSequence
  <1> DEFINE U == S \cup T
  <1>3. s \in Seq(U) /\ t \in Seq(U)
    BY <1>1, <1>2
  <1> HIDE DEF U
  <1> QED
    BY <1>3

(* It is a sequence again. *)
LEMMA JoinedIsSequence ==
  ASSUME NEW s, NEW t, IsSequence(s), IsSequence(t)
  PROVE  IsSequence(s \o t)
PROOF
  <1>1. PICK S : s \in Seq(S)
    BY DEF IsSequence
  <1>2. PICK T : t \in Seq(T)
    BY DEF IsSequence
  <1>3. s \in Seq(S \cup T) /\ t \in Seq(S \cup T)
    BY <1>1, <1>2
  <1>4. s \o t \in Seq(S \cup T)
    BY <1>3
  <1> QED
    BY <1>4 DEF IsSequence

(* A place in two sequences is a place in one of them. *)
LEMMA PlacesJoined ==
  ASSUME NEW s, NEW t, IsSequence(s), IsSequence(t), NEW k \in DOMAIN (s \o t)
  PROVE  \/ k \in DOMAIN s /\ (s \o t)[k] = s[k]
         \/ \E h \in DOMAIN t : k = Len(s) + h /\ (s \o t)[k] = t[h]
PROOF
  <1>1. CASE k <= Len(s)
    BY <1>1, Joined
  <1>2. CASE ~(k <= Len(s))
    <2>1. Len(s) \in Nat /\ Len(t) \in Nat /\ k \in 1 .. (Len(s) + Len(t))
      BY Joined
    <2>2. k - Len(s) \in 1 .. Len(t) /\ k = Len(s) + (k - Len(s))
      BY <1>2, <2>1
    <2> QED
      BY <2>2, Joined
  <1> QED
    BY <1>1, <1>2

(* What holds of the writes of two plans holds of one after the other. *)
LEMMA JoinedWrites ==
  ASSUME NEW s, NEW t, IsSequence(s), IsSequence(t)
  PROVE  /\ Completes(s) /\ Completes(t) => Completes(s \o t)
         /\ MapsOnly(s) /\ MapsOnly(t) => MapsOnly(s \o t)
         /\ TellsNoVersion(s) /\ TellsNoVersion(t) => TellsNoVersion(s \o t)
PROOF
  <1> DEFINE u == s \o t
  <1>1. ASSUME Completes(s), Completes(t), NEW k \in DOMAIN u, u[k].file = Empty
        PROVE  \E m \in DOMAIN u : m > k /\ Fills(u[m], u[k].path)
    <2>1. CASE k \in DOMAIN s /\ u[k] = s[k]
      <3>1. PICK m \in DOMAIN s : m > k /\ Fills(s[m], s[k].path)
        BY <1>1, <2>1 DEF Completes
      <3>2. m \in DOMAIN u /\ u[m] = s[m]
        BY Joined
      <3> QED
        BY <2>1, <3>1, <3>2
    <2>2. CASE \E h \in DOMAIN t : k = Len(s) + h /\ u[k] = t[h]
      <3>1. PICK h \in DOMAIN t : k = Len(s) + h /\ u[k] = t[h]
        BY <2>2
      <3>2. PICK m \in DOMAIN t : m > h /\ Fills(t[m], t[h].path)
        BY <1>1, <3>1 DEF Completes
      <3>3. Len(s) + m \in DOMAIN u /\ u[Len(s) + m] = t[m] /\ Len(s) + m > k
        <4>1. /\ Len(s) \in Nat /\ Len(t) \in Nat /\ h \in 1 .. Len(t) /\ m \in 1 .. Len(t)
              /\ DOMAIN u = 1 .. (Len(s) + Len(t)) /\ u[Len(s) + m] = t[m]
          BY Joined
        <4> HIDE DEF u
        <4> QED
          BY <3>1, <3>2, <4>1
      <3> QED
        BY <3>1, <3>2, <3>3
    <2> QED
      BY <2>1, <2>2, PlacesJoined
  <1>2. Completes(s) /\ Completes(t) => Completes(u)
    BY <1>1 DEF Completes
  <1>3. MapsOnly(s) /\ MapsOnly(t) => MapsOnly(u)
    BY PlacesJoined DEF MapsOnly
  <1>4. TellsNoVersion(s) /\ TellsNoVersion(t) => TellsNoVersion(u)
    BY PlacesJoined DEF TellsNoVersion
  <1> QED
    BY <1>2, <1>3, <1>4

(* No write, one write, and a file that is opened and filled. *)
LEMMA ShortPlans ==
  /\ IsSequence(<<>>) /\ Completes(<<>>) /\ MapsOnly(<<>>) /\ TellsNoVersion(<<>>)
  /\ \A a : /\ IsSequence(<<a>>)
            /\ a.file # Empty => Completes(<<a>>)
            /\ a.path[1] = "xidmap" => MapsOnly(<<a>>)
            /\ a.path # Delta => TellsNoVersion(<<a>>)
  /\ \A a, b : /\ IsSequence(<<a, b>>)
               /\ a.path = b.path /\ b.file # Empty => Completes(<<a, b>>)
               /\ a.path[1] = "xidmap" /\ b.path[1] = "xidmap" => MapsOnly(<<a, b>>)
               /\ a.path # Delta /\ b.path # Delta => TellsNoVersion(<<a, b>>)
PROOF
  <1>1. <<>> \in Seq({})
    OBVIOUS
  <1>2. ASSUME NEW a PROVE <<a>> \in Seq({a}) /\ DOMAIN <<a>> = {1} /\ <<a>>[1] = a
    OBVIOUS
  <1>3. ASSUME NEW a, NEW b
        PROVE  /\ <<a, b>> \in Seq({a, b}) /\ DOMAIN <<a, b>> = {1, 2}
               /\ <<a, b>>[1] = a /\ <<a, b>>[2] = b
    OBVIOUS
  <1>4. DOMAIN <<>> = {}
    OBVIOUS
  <1>5. IsSequence(<<>>) /\ Completes(<<>>) /\ MapsOnly(<<>>) /\ TellsNoVersion(<<>>)
    BY <1>1, <1>4 DEF IsSequence, Completes, MapsOnly, TellsNoVersion
  <1>6. ASSUME NEW a
        PROVE  /\ IsSequence(<<a>>)
               /\ a.file # Empty => Completes(<<a>>)
               /\ a.path[1] = "xidmap" => MapsOnly(<<a>>)
               /\ a.path # Delta => TellsNoVersion(<<a>>)
    BY <1>2 DEF IsSequence, Completes, MapsOnly, TellsNoVersion
  <1>7. ASSUME NEW a, NEW b
        PROVE  /\ IsSequence(<<a, b>>)
               /\ a.path = b.path /\ b.file # Empty => Completes(<<a, b>>)
               /\ a.path[1] = "xidmap" /\ b.path[1] = "xidmap" => MapsOnly(<<a, b>>)
               /\ a.path # Delta /\ b.path # Delta => TellsNoVersion(<<a, b>>)
    <2> DEFINE s == <<a, b>>
    <2>1. s \in Seq({a, b}) /\ DOMAIN s = {1, 2} /\ s[1] = a /\ s[2] = b
      BY <1>3
    <2> HIDE DEF s
    <2>2. /\ IsSequence(s)
          /\ a.path = b.path /\ b.file # Empty => Completes(s)
          /\ a.path[1] = "xidmap" /\ b.path[1] = "xidmap" => MapsOnly(s)
          /\ a.path # Delta /\ b.path # Delta => TellsNoVersion(s)
      BY <2>1 DEF IsSequence, Completes, MapsOnly, TellsNoVersion, Fills
    <2> QED
      BY <2>2 DEF s
  <1> QED
    BY <1>5, <1>6, <1>7

(* A document that is opened before its map is written, and filled after it. *)
LEMMA CompletesAround ==
  ASSUME NEW a, NEW s, NEW b, IsSequence(s), Completes(s), a.path = b.path, b.file # Empty
  PROVE  Completes(<<a>> \o s \o <<b>>)
PROOF
  <1> DEFINE one == <<a>>
             two == <<b>>
             t == one \o s
             u == t \o two
  <1>1. /\ IsSequence(one) /\ IsSequence(two)
        /\ Len(one) = 1 /\ one[1] = a /\ Len(two) = 1 /\ two[1] = b
    BY ShortPlans
  <1> HIDE DEF one, two
  <1>2. /\ IsSequence(t) /\ Len(s) \in Nat /\ DOMAIN t = 1 .. (1 + Len(s)) /\ t[1] = a
        /\ DOMAIN s = 1 .. Len(s) /\ \A k \in DOMAIN s : t[1 + k] = s[k]
    <2>1. /\ IsSequence(one \o s) /\ Len(s) \in Nat /\ DOMAIN s = 1 .. Len(s)
          /\ DOMAIN (one \o s) = 1 .. (Len(one) + Len(s))
          /\ \A k \in 1 .. Len(one) : (one \o s)[k] = one[k]
          /\ \A k \in 1 .. Len(s) : (one \o s)[Len(one) + k] = s[k]
      BY <1>1, Joined, JoinedIsSequence
    <2> HIDE DEF t
    <2>2. /\ IsSequence(t) /\ DOMAIN t = 1 .. (1 + Len(s))
          /\ \A k \in 1 .. 1 : t[k] = one[k]
          /\ \A k \in 1 .. Len(s) : t[1 + k] = s[k]
      BY <1>1, <2>1 DEF t
    <2> QED
      BY <1>1, <2>1, <2>2
  <1>3. \A k \in DOMAIN t : k = 1 \/ k - 1 \in DOMAIN s
    BY <1>2, Joined
  <1> HIDE DEF t
  <1>4. Len(t) = 1 + Len(s)
    BY <1>1, <1>2, Joined
  <1>5. /\ DOMAIN u = 1 .. (2 + Len(s)) /\ u[2 + Len(s)] = b
        /\ \A k \in DOMAIN t : u[k] = t[k]
    <2> HIDE DEF u
    <2>0. IsSequence(t) /\ IsSequence(two)
      BY <1>1, <1>2
    <2>1. /\ DOMAIN (t \o two) = 1 .. (Len(t) + Len(two))
          /\ \A k \in 1 .. Len(t) : (t \o two)[k] = t[k]
          /\ \A k \in 1 .. Len(two) : (t \o two)[Len(t) + k] = two[k]
      BY <2>0, Joined
    <2>2. /\ DOMAIN u = 1 .. ((1 + Len(s)) + 1)
          /\ \A k \in 1 .. (1 + Len(s)) : u[k] = t[k]
          /\ \A k \in 1 .. 1 : u[(1 + Len(s)) + k] = two[k]
      BY <1>1, <1>4, <2>1 DEF u
    <2>3. (1 + Len(s)) + 1 = 2 + Len(s) /\ u[(1 + Len(s)) + 1] = two[1]
      BY <1>2, <2>2
    <2> QED
      BY <1>1, <1>2, <2>2, <2>3
  <1> HIDE DEF u
  <1>6. ASSUME NEW k \in DOMAIN u, u[k].file = Empty
        PROVE  \E m \in DOMAIN u : m > k /\ Fills(u[m], u[k].path)
    <2>1. CASE k = 1
      <3>1. u[k] = a /\ 2 + Len(s) \in DOMAIN u /\ 2 + Len(s) > k
        BY <1>2, <1>5, <2>1
      <3> QED
        BY <1>5, <3>1 DEF Fills
    <2>2. CASE k \in DOMAIN t /\ k # 1
      <3>1. k - 1 \in DOMAIN s /\ u[k] = s[k - 1]
        BY <1>2, <1>3, <1>5, <2>2
      <3>2. PICK m \in DOMAIN s : m > k - 1 /\ Fills(s[m], s[k - 1].path)
        BY <1>6, <3>1 DEF Completes
      <3>3. 1 + m \in DOMAIN u /\ u[1 + m] = s[m] /\ 1 + m > k
        BY <1>2, <1>5, <2>2, <3>2
      <3> QED
        BY <3>1, <3>2, <3>3
    <2>3. CASE k = 2 + Len(s)
      BY <1>5, <1>6, <2>3
    <2> QED
      BY <1>2, <1>5, <2>1, <2>2, <2>3
  <1>7. Completes(u)
    BY <1>6 DEF Completes
  <1> QED
    BY <1>7 DEF u, t, one, two

-----------------------------------------------------------------------------
(* The map of a document is opened and filled. *)
LEMMA WriteMapFacts ==
  ASSUME NEW f, NEW d, NEW known
  PROVE  LET writes == WriteMap(f, d, known)
         IN /\ IsSequence(writes) /\ Completes(writes)
            /\ MapsOnly(writes) /\ TellsNoVersion(writes)
PROOF
  <1> DEFINE a == Write(Map(f), Empty, <<>>)
             b == Write(Map(f), Holding(StringFromList(d)), Learnt(known, d))
  <1>1. /\ a.path = Map(f) /\ b.path = Map(f) /\ Map(f)[1] = "xidmap" /\ Map(f) # Delta
        /\ b.file # Empty
    BY DEF Write, Map, Delta, Holding, Empty
  <1>2. WriteMap(f, d, known) = <<a, b>>
    BY DEF WriteMap
  <1> HIDE DEF a, b
  <1> QED
    BY <1>1, <1>2, ShortPlans

(* So is a document. *)
LEMMA WriteDocumentFacts ==
  ASSUME NEW f, NEW labels
  PROVE  LET writes == <<Write(Xml(f), Empty, <<>>), Write(Xml(f), Holding(labels), <<>>)>>
         IN IsSequence(writes) /\ Completes(writes) /\ TellsNoVersion(writes)
PROOF
  <1> DEFINE a == Write(Xml(f), Empty, <<>>)
             b == Write(Xml(f), Holding(labels), <<>>)
  <1>1. a.path = Xml(f) /\ b.path = Xml(f) /\ Xml(f) # Delta /\ b.file # Empty
    BY DEF Write, Xml, Delta, Holding, Empty
  <1> HIDE DEF a, b
  <1>2. IsSequence(<<a, b>>) /\ Completes(<<a, b>>) /\ TellsNoVersion(<<a, b>>)
    BY <1>1, ShortPlans
  <1> QED
    BY <1>2 DEF a, b

(* Loading a document fails, or writes its map, or nothing. *)
LEMMA LoadFacts ==
  ASSUME NEW f
  PROVE  /\ IsPlan(Load(f))
         /\ Completes(Load(f).writes) /\ MapsOnly(Load(f).writes)
         /\ TellsNoVersion(Load(f).writes)
         /\ Load(f).ends # "rootless"
PROOF
  <1>1. /\ IsPlan(Nothing) /\ Nothing.writes = <<>> /\ Nothing.ends = "ok"
    BY ShortPlans DEF Nothing, IsPlan
  <1>2. CASE ~Readable(Xml(f))
    <2>1. Load(f) = [Nothing EXCEPT !.ends = "undefined"]
      BY <1>2 DEF Load
    <2>2. IsPlan(Load(f)) /\ Load(f).writes = <<>> /\ Load(f).ends = "undefined"
      BY <1>1, <2>1 DEF IsPlan
    <2> QED
      BY <2>2, ShortPlans
  <1>3. CASE Readable(Xml(f)) /\ disk[Map(f)] = Absent
    <2> DEFINE d == DefaultXids(Labels(f))
               m == WriteMap(f, d, <<>>)
    <2>0. Empty # Absent
      BY DEF Empty, Absent
    <2>1. Load(f) = [Nothing EXCEPT !.source = d, !.writes = m]
      BY <1>3, <2>0 DEF Load
    <2>2. IsSequence(m) /\ Completes(m) /\ MapsOnly(m) /\ TellsNoVersion(m)
      BY WriteMapFacts
    <2> HIDE DEF d, m
    <2>3. IsPlan(Load(f)) /\ Load(f).writes = m /\ Load(f).ends = "ok"
      BY <1>1, <2>1, <2>2 DEF IsPlan
    <2> QED
      BY <2>2, <2>3
  <1>4. CASE Readable(Xml(f)) /\ disk[Map(f)] = Empty
    <2>1. Empty # Absent
      BY DEF Empty, Absent
    <2>2. Load(f) = [Nothing EXCEPT !.ends = "exception"]
      BY <1>4, <2>1 DEF Load
    <2>3. IsPlan(Load(f)) /\ Load(f).writes = <<>> /\ Load(f).ends = "exception"
      BY <1>1, <2>2 DEF IsPlan
    <2> QED
      BY <2>3, ShortPlans
  <1>5. CASE Readable(Xml(f)) /\ disk[Map(f)] # Absent /\ disk[Map(f)] # Empty
    <2> DEFINE e == Registering(MapString(f), Labels(f))
               r == Registered(MapString(f), Labels(f))
    <2>1. Load(f) = [Nothing EXCEPT !.ends = e, !.source = r]
      BY <1>5 DEF Load
    <2>2. e # "rootless"
      BY DEF Registering
    <2> HIDE DEF e, r
    <2>3. IsPlan(Load(f)) /\ Load(f).writes = <<>> /\ Load(f).ends = e
      BY <1>1, <2>1 DEF IsPlan
    <2> QED
      BY <2>2, <2>3, ShortPlans
  <1> QED
    BY <1>2, <1>3, <1>4, <1>5

(* A plan that tells no version tells none before its map is there. *)
LEMMA NoVersionNoHarm ==
  ASSUME NEW writes, TellsNoVersion(writes), NEW f
  PROVE  DeltaLast(writes, f)
PROOF
  BY DEF TellsNoVersion, DeltaLast

(* The map before the delta. *)
LEMMA MapThenDeltaFacts ==
  ASSUME NEW f \in File, NEW d, NEW e, NEW known,
         NEW s, IsSequence(s), TellsNoVersion(s), ~dontSaveXidmap
  PROVE  DeltaLast(s \o MapThenDelta(f, d, e, known), f)
PROOF
  <1> DEFINE m == <<Write(Map(f), Empty, <<>>),
                    Write(Map(f), Holding(StringFromList(e)), Learnt(known, e))>>
             x == <<Write(Delta, Empty, None),
                    Write(Delta, Holding(DeltaBetween(d, e)), [from |-> d, to |-> e])>>
             t == m \o x
             u == s \o t
             file == Holding(StringFromList(e))
  <1>1. MapThenDelta(f, d, e, known) = t
    BY DEF MapThenDelta, SaveResultingXidMap, WriteMap, WriteDelta
  <1>2. /\ IsSequence(m) /\ Len(m) = 2 /\ m[1].path = Map(f)
        /\ m[2].path = Map(f) /\ m[2].file = file
    BY ShortPlans DEF Write
  <1>3. /\ IsSequence(x) /\ Len(x) = 2 /\ x[1].path = Delta /\ x[1].knows = None
        /\ x[2].path = Delta /\ x[2].knows.to = e
    BY ShortPlans DEF Write
  <1> HIDE DEF m, x
  <1>4. /\ IsSequence(t) /\ Len(t) = 4 /\ DOMAIN t = 1 .. 4
        /\ t[1] = m[1] /\ t[2] = m[2] /\ t[3] = x[1] /\ t[4] = x[2]
    <2>1. IsSequence(m) /\ IsSequence(x) /\ IsSequence(m \o x)
      BY <1>2, <1>3, JoinedIsSequence
    <2> HIDE DEF t, u
    <2>2. /\ Len(m \o x) = Len(m) + Len(x)
          /\ DOMAIN (m \o x) = 1 .. (Len(m) + Len(x))
          /\ \A k \in 1 .. Len(m) : (m \o x)[k] = m[k]
          /\ \A k \in 1 .. Len(x) : (m \o x)[Len(m) + k] = x[k]
      BY <2>1, Joined
    <2>3. Len(t) = 2 + 2
      BY <1>2, <1>3, <2>2 DEF t
    <2>4. /\ IsSequence(t) /\ DOMAIN t = 1 .. (2 + 2)
          /\ \A k \in 1 .. 2 : t[k] = m[k]
          /\ \A k \in 1 .. 2 : t[2 + k] = x[k]
      BY <1>2, <1>3, <2>1, <2>2 DEF t
    <2>5. t[2 + 1] = x[1] /\ t[2 + 2] = x[2]
      BY <2>4
    <2> QED
      BY <2>3, <2>4, <2>5
  <1> HIDE DEF t
  <1>5. /\ Len(s) \in Nat /\ DOMAIN s = 1 .. Len(s) /\ DOMAIN u = 1 .. (Len(s) + 4)
        /\ \A k \in DOMAIN s : u[k] = s[k]
        /\ \A k \in 1 .. 4 : u[Len(s) + k] = t[k]
    <2> HIDE DEF u
    <2>0. IsSequence(t)
      BY <1>4
    <2>1. /\ Len(s) \in Nat /\ DOMAIN s = 1 .. Len(s)
          /\ DOMAIN (s \o t) = 1 .. (Len(s) + Len(t))
          /\ \A k \in 1 .. Len(s) : (s \o t)[k] = s[k]
          /\ \A k \in 1 .. Len(t) : (s \o t)[Len(s) + k] = t[k]
      BY <2>0, Joined
    <2> QED
      BY <1>4, <2>1 DEF u
  <1> HIDE DEF u
  <1>6. /\ u[Len(s) + 1].path = Map(f) /\ u[Len(s) + 2].path = Map(f)
        /\ u[Len(s) + 2].file = file
        /\ u[Len(s) + 3].path = Delta /\ u[Len(s) + 3].knows = None
        /\ u[Len(s) + 4].knows.to = e
    BY <1>2, <1>3, <1>4, <1>5
  <1>7. Map(f) # Delta
    BY DEF Map, Delta
  <1>8. ASSUME NEW k \in DOMAIN u, u[k].path = Delta, u[k].knows # None
        PROVE  HoldsAt(u, k, Map(f), Holding(StringFromList(u[k].knows.to)))
    <2>1. k \notin DOMAIN s
      BY <1>5, <1>8 DEF TellsNoVersion
    <2>2. k = Len(s) + 4
      BY <1>5, <1>6, <1>7, <1>8, <2>1
    <2>3. /\ Len(s) + 2 \in 1 .. (k - 1)
          /\ \A h \in (Len(s) + 2 + 1) .. (k - 1) : h = Len(s) + 3
      BY <1>5, <2>2
    <2>4. \E n \in 1 .. (k - 1) :
            /\ u[n].path = Map(f) /\ u[n].file = Holding(StringFromList(u[k].knows.to))
            /\ \A h \in (n + 1) .. (k - 1) : u[h].path # Map(f)
      BY <1>6, <1>7, <2>2, <2>3
    <2> QED
      BY <2>4 DEF HoldsAt
  <1> QED
    BY <1>1, <1>8 DEF u, DeltaLast

-----------------------------------------------------------------------------
(* What the plan of a call for f1, an op, does not do. *)
Harmless(p, op, f1) ==
  /\ IsPlan(p)
  /\ p.ends # "rootless" => Completes(p.writes)
  /\ p.ends \in {"exception", "undefined"} /\ op # "tag" => MapsOnly(p.writes)
  /\ dontSaveXidmap \/ DeltaLast(p.writes, f1)

(* A document that cannot be loaded. *)
LEMMA LoadIsHarmless ==
  ASSUME NEW f, NEW op, NEW f1
  PROVE  Harmless(Load(f), op, f1)
PROOF
  BY LoadFacts, NoVersionNoHarm DEF Harmless

(* The old map of the second document goes, if there is one. *)
LEMMA RemovesFacts ==
  ASSUME NEW f0, NEW f1
  PROVE  LET removes == Load(f0).writes \o RemoveOldMap(f1, f0 = f1)
         IN /\ IsSequence(removes) /\ Completes(removes)
            /\ MapsOnly(removes) /\ TellsNoVersion(removes)
PROOF
  <1> DEFINE r == RemoveOldMap(f1, f0 = f1)
             s == Load(f0).writes
  <1>1. IsSequence(s) /\ Completes(s) /\ MapsOnly(s) /\ TellsNoVersion(s)
    BY LoadFacts DEF IsPlan
  <1>2. IsSequence(r) /\ Completes(r) /\ MapsOnly(r) /\ TellsNoVersion(r)
    <2> DEFINE w == Write(Map(f1), Absent, <<>>)
    <2>1. w.file # Empty /\ w.path[1] = "xidmap" /\ w.path # Delta
      BY DEF Write, Absent, Empty, Map, Delta
    <2>2. r = <<>> \/ r = <<w>>
      BY DEF RemoveOldMap
    <2> HIDE DEF w, r
    <2> QED
      BY <2>1, <2>2, ShortPlans
  <1> HIDE DEF r, s
  <1>3. IsSequence(s \o r)
    BY <1>1, <1>2, JoinedIsSequence
  <1>4. Completes(s \o r) /\ MapsOnly(s \o r) /\ TellsNoVersion(s \o r)
    BY <1>1, <1>2, JoinedWrites
  <1> QED
    BY <1>3, <1>4 DEF r, s

(* The delta is opened and filled, and so is the map before it. *)
LEMMA DeltaIsCompleted ==
  ASSUME NEW f, NEW d, NEW e, NEW known
  PROVE  /\ IsSequence(MapThenDelta(f, d, e, known))
         /\ Completes(MapThenDelta(f, d, e, known))
PROOF
  <1> DEFINE m == SaveResultingXidMap(f, e, known)
             a == Write(Delta, Empty, None)
             b == Write(Delta, Holding(DeltaBetween(d, e)), [from |-> d, to |-> e])
             x == WriteDelta(d, e)
  <1>1. IsSequence(m) /\ Completes(m)
    <2>1. m = <<>> \/ m = WriteMap(f, e, known)
      BY DEF SaveResultingXidMap
    <2> HIDE DEF m
    <2> QED
      BY <2>1, ShortPlans, WriteMapFacts
  <1>2. IsSequence(x) /\ Completes(x)
    <2>1. a.path = b.path /\ b.file # Empty /\ x = <<a, b>>
      BY DEF Write, Holding, Empty, WriteDelta
    <2> HIDE DEF a, b, x
    <2> QED
      BY <2>1, ShortPlans
  <1> HIDE DEF m, x
  <1>3. IsSequence(m \o x) /\ Completes(m \o x)
    BY <1>1, <1>2, JoinedIsSequence, JoinedWrites
  <1> QED
    BY <1>3 DEF MapThenDelta, m, x

(* XyDiff *)
LEMMA DiffIsHarmless ==
  ASSUME NEW f0, NEW f1 \in File
  PROVE  Harmless(Diff(f0, f1), "diff", f1)
PROOF
  <1> DEFINE first == Load(f0)
             removes == first.writes \o RemoveOldMap(f1, f0 = f1)
             second == SecondVersion(first.source, Labels(f1))
             known == Learnt(Known(f0), first.source)
             last == MapThenDelta(f1, first.source, second, known)
  <1>1. /\ IsSequence(removes) /\ Completes(removes)
        /\ MapsOnly(removes) /\ TellsNoVersion(removes)
    BY RemovesFacts
  <1>2. IsSequence(last) /\ Completes(last)
    BY DeltaIsCompleted
  <1>3. dontSaveXidmap \/ DeltaLast(removes \o last, f1)
    BY <1>1, MapThenDeltaFacts
  <1>4. Diff(f0, f1) =
          IF first.ends # "ok" THEN first
          ELSE IF ~Readable(Xml(f1))
          THEN [first EXCEPT !.writes = removes, !.ends = "undefined"]
          ELSE [first EXCEPT !.writes = removes \o last]
    BY Zenon DEF Diff
  <1>5. DOMAIN first = {"writes", "ends", "source"} /\ Harmless(first, "diff", f1)
    BY LoadFacts, LoadIsHarmless DEF IsPlan
  <1> HIDE DEF first, removes, last
  <1>6. CASE first.ends # "ok"
    BY <1>4, <1>5, <1>6
  <1>7. CASE first.ends = "ok" /\ ~Readable(Xml(f1))
    <2>1. Diff(f0, f1) = [first EXCEPT !.writes = removes, !.ends = "undefined"]
      BY <1>4, <1>7
    <2>2. /\ DOMAIN Diff(f0, f1) = {"writes", "ends", "source"}
          /\ Diff(f0, f1).writes = removes /\ Diff(f0, f1).ends = "undefined"
      BY <1>5, <2>1
    <2>3. DeltaLast(removes, f1)
      BY <1>1, NoVersionNoHarm
    <2> QED
      BY <1>1, <2>2, <2>3 DEF Harmless, IsPlan
  <1>8. CASE first.ends = "ok" /\ Readable(Xml(f1))
    <2>1. Diff(f0, f1) = [first EXCEPT !.writes = removes \o last]
      BY <1>4, <1>8
    <2> DEFINE w == removes \o last
    <2>2. IsSequence(w) /\ Completes(w)
      BY <1>1, <1>2, JoinedIsSequence, JoinedWrites
    <2> HIDE DEF w
    <2>3. /\ DOMAIN Diff(f0, f1) = {"writes", "ends", "source"}
          /\ Diff(f0, f1).writes = w /\ Diff(f0, f1).ends = "ok"
      BY <1>5, <1>8, <2>1 DEF w
    <2>4. dontSaveXidmap \/ DeltaLast(w, f1)
      BY <1>3 DEF w
    <2> QED
      BY <2>2, <2>3, <2>4 DEF Harmless, IsPlan
  <1> QED
    BY <1>6, <1>7, <1>8

-----------------------------------------------------------------------------
(* A result without a root. *)
LEMMA SaveRootlessFacts ==
  ASSUME NEW f
  PROVE  IsSequence(SaveRootless(f)) /\ TellsNoVersion(SaveRootless(f))
PROOF
  <1> DEFINE a == Write(Xml(f), Empty, <<>>)
             b == Write(Map(f), Empty, <<>>)
  <1>1. a.path # Delta /\ b.path # Delta /\ SaveRootless(f) = <<a, b>>
    BY DEF Write, Xml, Map, Delta, SaveRootless
  <1> HIDE DEF a, b
  <1> QED
    BY <1>1, ShortPlans

(* SaveAs with the map: the document is opened first and filled last. *)
LEMMA SaveAsFacts ==
  ASSUME NEW f, NEW d, NEW known
  PROVE  LET writes == SaveAs(f, d, known)
         IN IsSequence(writes) /\ Completes(writes) /\ TellsNoVersion(writes)
PROOF
  <1> DEFINE a == Write(Xml(f), Empty, <<>>)
             b == Write(Xml(f), Holding(d.labels), <<>>)
             m == WriteMap(f, d, known)
             one == <<a>>
             two == <<b>>
  <1>1. a.path = b.path /\ a.path # Delta /\ b.path # Delta /\ b.file # Empty
    BY DEF Write, Xml, Delta, Holding, Empty
  <1>2. IsSequence(m) /\ Completes(m) /\ TellsNoVersion(m)
    BY WriteMapFacts
  <1>3. SaveAs(f, d, known) = <<a>> \o m \o <<b>>
    BY DEF SaveAs
  <1> HIDE DEF a, b, m
  <1>4. Completes(<<a>> \o m \o <<b>>)
    BY <1>1, <1>2, CompletesAround
  <1>5. IsSequence(one) /\ TellsNoVersion(one) /\ IsSequence(two) /\ TellsNoVersion(two)
    BY <1>1, ShortPlans
  <1> HIDE DEF one, two
  <1>6. IsSequence(one \o m) /\ TellsNoVersion(one \o m)
    BY <1>2, <1>5, JoinedIsSequence, JoinedWrites
  <1>7. IsSequence((one \o m) \o two) /\ TellsNoVersion((one \o m) \o two)
    BY <1>5, <1>6, JoinedIsSequence, JoinedWrites
  <1> QED
    BY <1>3, <1>4, <1>7 DEF one, two

(* Something is written after a document has been loaded. *)
LEMMA LoadThenWrite ==
  ASSUME NEW f, NEW op, NEW f1, NEW s, NEW p,
         IsSequence(s), TellsNoVersion(s), DOMAIN p = {"writes", "ends", "source"},
         p.writes = Load(f).writes \o s,
         Completes(s) \/ p.ends = "rootless", p.ends \notin {"exception", "undefined"}
  PROVE  Harmless(p, op, f1)
PROOF
  <1> DEFINE l == Load(f).writes
             w == l \o s
  <1>1. IsSequence(l) /\ Completes(l) /\ TellsNoVersion(l)
    BY LoadFacts DEF IsPlan
  <1> HIDE DEF l
  <1>2. IsSequence(w)
    BY <1>1, JoinedIsSequence
  <1>3. TellsNoVersion(w) /\ (Completes(s) => Completes(w))
    BY <1>1, JoinedWrites
  <1>4. p.writes = w
    BY DEF l
  <1> HIDE DEF w
  <1> QED
    BY <1>2, <1>3, <1>4, NoVersionNoHarm DEF Harmless, IsPlan

(* ApplyDelta *)
LEMMA ApplyIsHarmless ==
  ASSUME NEW f0, NEW f1
  PROVE  Harmless(Apply(f0, f1), "apply", f1)
PROOF
  <1> DEFINE first == Load(f0)
             delta == DeltaRead
             how == Applying(first.source, delta)
             d == Applied(first.source, delta)
             known == IF first.source = versions.from
                      THEN Learnt(Known(f0), first.source) ELSE <<>>
             save == SaveAs(f1, d, known)
             rootless == SaveRootless(f1)
             p == Apply(f0, f1)
  <1>1. Apply(f0, f1) =
          IF first.ends # "ok" THEN first
          ELSE IF ~Readable(Delta) THEN [first EXCEPT !.ends = "undefined"]
          ELSE IF delta = VersionFile THEN [first EXCEPT !.ends = "exception"]
          ELSE IF how = "ok" THEN [first EXCEPT !.writes = @ \o save]
          ELSE IF how = "rootless"
          THEN [first EXCEPT !.writes = @ \o rootless, !.ends = "rootless"]
          ELSE [first EXCEPT !.ends = how]
    BY Zenon DEF Apply, FailInMemory
  <1>2. /\ DOMAIN first = {"writes", "ends", "source"} /\ Harmless(first, "apply", f1)
        /\ IsSequence(first.writes) /\ Completes(first.writes) /\ MapsOnly(first.writes)
        /\ TellsNoVersion(first.writes)
    BY LoadFacts, LoadIsHarmless DEF IsPlan
  <1>3. IsSequence(save) /\ Completes(save) /\ TellsNoVersion(save)
    BY SaveAsFacts
  <1>4. IsSequence(rootless) /\ TellsNoVersion(rootless)
    BY SaveRootlessFacts
  <1>5. first.writes = Load(f0).writes
    OBVIOUS
  <1> HIDE DEF first, delta, how, save, rootless
  <1>6. ASSUME NEW e, p = [first EXCEPT !.ends = e]
        PROVE  Harmless(p, "apply", f1)
    <2>1. DOMAIN p = {"writes", "ends", "source"} /\ p.writes = first.writes
      BY <1>2, <1>6
    <2> HIDE DEF p
    <2> QED
      BY <1>2, <2>1, NoVersionNoHarm DEF Harmless, IsPlan
  <1>7. CASE first.ends = "ok" /\ Readable(Delta) /\ delta # VersionFile /\ how = "ok"
    <2>1. p = [first EXCEPT !.writes = @ \o save]
      BY <1>1, <1>7
    <2> HIDE DEF p
    <2>2. /\ DOMAIN p = {"writes", "ends", "source"}
          /\ p.writes = first.writes \o save /\ p.ends = "ok"
      BY <1>2, <1>7, <2>1
    <2> QED
      BY <1>3, <1>5, <2>2, LoadThenWrite DEF p
  <1>8. CASE first.ends = "ok" /\ Readable(Delta) /\ delta # VersionFile /\ how = "rootless"
    <2>1. p = [first EXCEPT !.writes = @ \o rootless, !.ends = "rootless"]
      BY <1>1, <1>8
    <2> HIDE DEF p
    <2>2. /\ DOMAIN p = {"writes", "ends", "source"}
          /\ p.writes = first.writes \o rootless /\ p.ends = "rootless"
      BY <1>2, <2>1
    <2> QED
      BY <1>4, <1>5, <2>2, LoadThenWrite DEF p
  <1>9. CASE first.ends # "ok"
    BY <1>1, <1>2, <1>9
  <1>10. CASE /\ first.ends = "ok"
              /\ ~Readable(Delta) \/ delta = VersionFile \/ how \notin {"ok", "rootless"}
    <2>1. \E e : p = [first EXCEPT !.ends = e]
      BY <1>1, <1>10
    <2> QED
      BY <1>6, <2>1
  <1> QED
    BY <1>7, <1>8, <1>9, <1>10

(* RunDiff's second half *)
LEMMA TagIsHarmless ==
  ASSUME NEW f0, NEW f1
  PROVE  Harmless(Tag(f0, f1), "tag", f1)
PROOF
  <1> DEFINE first == Load(f0)
             save == SaveWithoutMap(f1, first.source)
             p == Tag(f0, f1)
  <1>1. p = IF first.ends # "ok" THEN first ELSE [first EXCEPT !.writes = @ \o save]
    BY DEF Tag
  <1>2. DOMAIN first = {"writes", "ends", "source"} /\ Harmless(first, "tag", f1)
    BY LoadFacts, LoadIsHarmless DEF IsPlan
  <1>3. IsSequence(save) /\ Completes(save) /\ TellsNoVersion(save)
    BY WriteDocumentFacts DEF SaveWithoutMap
  <1>4. first.writes = Load(f0).writes
    OBVIOUS
  <1> HIDE DEF first, save
  <1>5. CASE first.ends = "ok"
    <2>1. p = [first EXCEPT !.writes = @ \o save]
      BY <1>1, <1>5
    <2> HIDE DEF p
    <2>2. /\ DOMAIN p = {"writes", "ends", "source"}
          /\ p.writes = first.writes \o save /\ p.ends = "ok"
      BY <1>2, <1>5, <2>1
    <2> QED
      BY <1>3, <1>4, <2>2, LoadThenWrite DEF p
  <1> QED
    BY <1>1, <1>2, <1>5

(* A call that writes nothing. *)
LEMMA NoWriteIsHarmless ==
  ASSUME NEW e, NEW op, NEW f1
  PROVE  Harmless([Nothing EXCEPT !.ends = e], op, f1)
PROOF
  <1> DEFINE p == [Nothing EXCEPT !.ends = e]
  <1>1. DOMAIN p = {"writes", "ends", "source"} /\ p.writes = <<>>
    BY DEF Nothing
  <1> HIDE DEF p
  <1>2. Harmless(p, op, f1)
    BY <1>1, ShortPlans, NoVersionNoHarm DEF Harmless, IsPlan
  <1> QED
    BY <1>2 DEF p

(* XyLoadAndDiff *)
LEMMA LoadAndDiffIsHarmless ==
  ASSUME NEW f1
  PROVE  Harmless(LoadAndDiff, "load", f1)
PROOF
  <1> DEFINE a == Write(Delta, Empty, None)
             b == Write(Delta, Holding(VersionFile), None)
             s == <<a, b>>
             p == LoadAndDiff
  <1>1. Empty # Absent
    BY DEF Empty, Absent
  <1>2. CASE disk[Delta] = Absent
    <2>1. /\ a.path = b.path /\ b.file # Empty /\ a.knows = None /\ b.knows = None
      BY DEF Write, Holding, Empty
    <2>2. p = [Nothing EXCEPT !.writes = s]
      BY <1>1, <1>2 DEF LoadAndDiff
    <2> HIDE DEF a, b, p
    <2>3. IsSequence(s) /\ Completes(s)
      BY <2>1, ShortPlans
    <2>4. DOMAIN s = {1, 2} /\ s[1] = a /\ s[2] = b
      OBVIOUS
    <2> HIDE DEF s
    <2>5. TellsNoVersion(s)
      BY <2>1, <2>4 DEF TellsNoVersion
    <2>6. /\ DOMAIN p = {"writes", "ends", "source"} /\ p.writes = s /\ p.ends = "ok"
      BY <2>2 DEF Nothing
    <2>7. Harmless(p, "load", f1)
      BY <2>3, <2>5, <2>6, NoVersionNoHarm DEF Harmless, IsPlan
    <2> QED
      BY <2>7 DEF p
  <1>3. CASE disk[Delta] = Empty
    <2>1. LoadAndDiff = [Nothing EXCEPT !.ends = "undefined"]
      BY <1>1, <1>3 DEF LoadAndDiff
    <2> QED
      BY <2>1, NoWriteIsHarmless
  <1>4. CASE disk[Delta] # Absent /\ disk[Delta] # Empty
    <2>1. LoadAndDiff = [Nothing EXCEPT !.ends = "exception"]
      BY <1>4 DEF LoadAndDiff
    <2> QED
      BY <2>1, NoWriteIsHarmless
  <1> QED
    BY <1>2, <1>3, <1>4

Operations == {"diff", "apply", "applyDefault", "load", "retrieve", "tag"}

(***************************************************************************)
(* Whatever is called: what is opened will be written, a failure touches   *)
(* maps only, and a version is told when its map is there.                 *)
(***************************************************************************)
LEMMA PlannedIsHarmless ==
  ASSUME NEW item, item.op \in Operations, item.op = "diff" => item.f1 \in File
  PROVE  Harmless(Planned(item), item.op, item.f1)
PROOF
  <1>1. CASE item.op = "diff"
    BY <1>1, DiffIsHarmless DEF Planned
  <1>2. CASE item.op = "apply"
    BY <1>2, ApplyIsHarmless DEF Planned
  <1>3. CASE item.op = "applyDefault"
    BY <1>3, NoWriteIsHarmless DEF Planned, ApplyDefault
  <1>4. CASE item.op = "load"
    BY <1>4, LoadAndDiffIsHarmless DEF Planned
  <1>5. CASE item.op = "retrieve"
    BY <1>5, NoWriteIsHarmless DEF Planned, Retrieve
  <1>6. CASE item.op = "tag"
    BY <1>6, TagIsHarmless DEF Planned
  <1> QED
    BY <1>1, <1>2, <1>3, <1>4, <1>5, <1>6 DEF Operations

-----------------------------------------------------------------------------
(* A sequence without its head. *)
LEMMA TailFacts ==
  ASSUME NEW s, IsSequence(s), s # <<>>
  PROVE  /\ IsSequence(Tail(s)) /\ Len(s) \in Nat /\ 1 \in DOMAIN s
         /\ DOMAIN s = 1 .. Len(s) /\ DOMAIN Tail(s) = 1 .. (Len(s) - 1)
         /\ Head(s) = s[1]
         /\ \A k \in DOMAIN Tail(s) : k + 1 \in DOMAIN s /\ Tail(s)[k] = s[k + 1]
PROOF
  <1>1. PICK S : s \in Seq(S)
    BY DEF IsSequence
  <1>2. Tail(s) \in Seq(S)
    BY <1>1
  <1>3. /\ Len(s) \in Nat /\ Len(s) >= 1 /\ DOMAIN s = 1 .. Len(s)
        /\ Len(Tail(s)) = Len(s) - 1 /\ DOMAIN Tail(s) = 1 .. (Len(s) - 1)
        /\ Head(s) = s[1]
        /\ \A k \in 1 .. (Len(s) - 1) : Tail(s)[k] = s[k + 1]
    BY <1>1
  <1> QED
    BY <1>2, <1>3 DEF IsSequence

(* A call or the next part of one begins. *)
LEMMA BeginKeeps ==
  ASSUME NEW items, Begin(items), UNCHANGED <<disk, dontSaveXidmap>>,
         DOMAIN disk = Paths, IsSequence(items), items # <<>>,
         \A k \in 2 .. Len(items) : items[k].op = "tag",
         Head(items).op \in Operations,
         Head(items).op = "diff" => Head(items).f1 \in File,
         \A p \in Paths : disk[p] = Empty => before'[p] = Empty,
         Head(items).op # "tag" => before' = disk
  PROVE  FilesInv'
PROOF
  <1> DEFINE item == Head(items)
  <1>1. agenda' = items /\ plan' = Planned(item)
    BY DEF Begin
  <1>2. Harmless(Planned(item), item.op, item.f1)
    BY PlannedIsHarmless
  <1>3. Harmless(plan', item.op, item.f1) /\ item = Head(agenda)'
    BY <1>1, <1>2
  <1> HIDE DEF item
  <1>4. /\ IsPlan(plan')
        /\ plan'.ends # "rootless" => Completes(plan'.writes)
        /\ plan'.ends \in {"exception", "undefined"} /\ item.op # "tag" => MapsOnly(plan'.writes)
        /\ dontSaveXidmap \/ DeltaLast(plan'.writes, item.f1)
    BY <1>3 DEF Harmless
  <1>5. Settled'
    BY <1>1, <1>4 DEF Settled, Resting, IsSequence, IsPlan
  <1>6. NothingLeftOpen'
    BY <1>4 DEF NothingLeftOpen, Completes, Fills
  <1>7. FailureIsHarmless'
    BY <1>1, <1>3, <1>4 DEF FailureIsHarmless, Fails, MapsOnly, item
  <1>8. MapIsSavedFirst'
    BY <1>3, <1>4 DEF MapIsSavedFirst, DeltaLast, HoldsAt
  <1> QED
    BY <1>5, <1>6, <1>7, <1>8 DEF FilesInv

(* Nothing runs any more. *)
LEMMA AtRestKeeps ==
  ASSUME AtRest, DOMAIN disk' = Paths
  PROVE  FilesInv'
PROOF
  <1>1. /\ agenda' = <<>> /\ plan' = Nothing /\ Nothing.writes = <<>>
        /\ DOMAIN Nothing = {"writes", "ends", "source"}
    BY DEF AtRest, Nothing
  <1>2. IsSequence(<<>>) /\ Len(<<>>) = 0
    BY ShortPlans
  <1>3. Settled'
    BY <1>1, <1>2 DEF Settled, IsSequence, IsPlan
  <1> QED
    BY <1>1, <1>3 DEF FilesInv, NothingLeftOpen, FailureIsHarmless, MapIsSavedFirst, Resting

(* A write keeps what was said of it and of those after it. *)
LEMMA WriteNextKeeps ==
  ASSUME FilesInv, WriteNext
  PROVE  FilesInv'
PROOF
  <1> DEFINE s == plan.writes
             w == Head(s)
             t == Tail(s)
             f1 == Head(agenda).f1
  <1>1. /\ IsSequence(s) /\ s # <<>> /\ DOMAIN disk = Paths /\ ~Resting
        /\ disk' = [disk EXCEPT ![w.path] = w.file]
        /\ plan' = [plan EXCEPT !.writes = t]
        /\ agenda' = agenda /\ before' = before /\ dontSaveXidmap' = dontSaveXidmap
    BY DEF FilesInv, Settled, IsPlan, WriteNext, Nothing
  <1>2. /\ IsSequence(t) /\ Len(s) \in Nat /\ 1 \in DOMAIN s
        /\ DOMAIN s = 1 .. Len(s) /\ DOMAIN t = 1 .. (Len(s) - 1)
        /\ w = s[1]
        /\ \A k \in DOMAIN t : k + 1 \in DOMAIN s /\ t[k] = s[k + 1]
    BY <1>1, TailFacts
  <1>3. plan'.writes = t /\ plan'.ends = plan.ends /\ DOMAIN plan' = DOMAIN plan
    BY <1>1 DEF FilesInv, Settled, IsPlan
  <1>4. \A p \in Paths : disk'[p] = IF p = w.path THEN w.file ELSE disk[p]
    BY <1>1
  <1>5. \A k \in DOMAIN s : k = 1 \/ (k - 1 \in DOMAIN t /\ t[k - 1] = s[k])
    BY <1>2
  <1> HIDE DEF s, w, t, f1
  <1>6. Settled'
    BY <1>1, <1>2, <1>3 DEF FilesInv, Settled, IsPlan, IsSequence, Resting
  <1>7. NothingLeftOpen'
    <2> SUFFICES ASSUME plan.ends # "rootless"
                 PROVE  /\ Completes(t)
                        /\ \A p \in Paths : disk'[p] = Empty =>
                             before[p] = Empty \/ \E k \in DOMAIN t : Fills(t[k], p)
      BY <1>1, <1>3 DEF NothingLeftOpen, Completes, Fills
    <2>1. /\ Completes(s)
          /\ \A p \in Paths : disk[p] = Empty =>
               before[p] = Empty \/ \E k \in DOMAIN s : Fills(s[k], p)
      BY <1>1 DEF FilesInv, NothingLeftOpen, s
    <2>2. ASSUME NEW k \in DOMAIN t, t[k].file = Empty
          PROVE  \E m \in DOMAIN t : m > k /\ Fills(t[m], t[k].path)
      <3>1. PICK m \in DOMAIN s : m > k + 1 /\ Fills(s[m], s[k + 1].path)
        BY <1>2, <2>1, <2>2 DEF Completes
      <3>2. m - 1 \in DOMAIN t /\ t[m - 1] = s[m] /\ m - 1 > k
        BY <1>2, <1>5, <3>1
      <3> QED
        BY <1>2, <3>1, <3>2
    <2>3. ASSUME NEW p \in Paths, disk'[p] = Empty, before[p] # Empty
          PROVE  \E k \in DOMAIN t : Fills(t[k], p)
      <3>1. \E k \in DOMAIN s : k # 1 /\ Fills(s[k], p)
        <4>1. CASE p = w.path
          <5>1. s[1].file = Empty
            BY <1>2, <1>4, <2>3, <4>1
          <5>2. PICK m \in DOMAIN s : m > 1 /\ Fills(s[m], s[1].path)
            BY <1>2, <2>1, <5>1 DEF Completes
          <5> QED
            BY <1>2, <4>1, <5>2
        <4>2. CASE p # w.path
          <5>1. PICK k \in DOMAIN s : Fills(s[k], p)
            BY <1>4, <2>1, <2>3, <4>2
          <5> QED
            BY <1>2, <4>2, <5>1 DEF Fills
        <4> QED
          BY <4>1, <4>2
      <3> QED
        BY <1>5, <3>1
    <2> QED
      BY <2>2, <2>3 DEF Completes
  <1>8. FailureIsHarmless'
    <2> SUFFICES ASSUME Fails, Head(agenda).op # "tag"
                 PROVE  /\ MapsOnly(t)
                        /\ \A p \in Paths : p[1] # "xidmap" => disk'[p] = before[p]
      BY <1>1, <1>3 DEF FailureIsHarmless, Fails, MapsOnly
    <2>1. /\ MapsOnly(s)
          /\ \A p \in Paths : p[1] # "xidmap" => disk[p] = before[p]
      BY <1>1 DEF FilesInv, FailureIsHarmless, s
    <2> QED
      BY <1>2, <1>4, <2>1 DEF MapsOnly
  <1>9. MapIsSavedFirst'
    <2> DEFINE path == Map(f1)
               file(k) == Holding(StringFromList(t[k].knows.to))
               before1(k) == \A h \in 1 .. (k - 1) : t[h].path # path
               within(k) == \E m \in 1 .. (k - 1) :
                              /\ t[m].path = path /\ t[m].file = file(k)
                              /\ \A h \in (m + 1) .. (k - 1) : t[h].path # path
    <2> SUFFICES ASSUME ~dontSaveXidmap, NEW k \in DOMAIN t,
                        t[k].path = Delta, t[k].knows # None
                 PROVE  f1 \in File /\ ((disk'[path] = file(k) /\ before1(k)) \/ within(k))
      BY <1>1, <1>3 DEF MapIsSavedFirst, DeltaLast, HoldsAt, f1
    <2>1. DeltaLast(s, f1)
      BY <1>1 DEF FilesInv, MapIsSavedFirst, s, f1
    <2>2. k + 1 \in DOMAIN s /\ s[k + 1] = t[k] /\ k \in Nat /\ k >= 1
      BY <1>2
    <2>3. f1 \in File /\ HoldsAt(s, k + 1, path, file(k))
      BY <2>1, <2>2 DEF DeltaLast
    <2>4. path \in Paths
      BY <2>3 DEF Paths, Map
    <2> HIDE DEF path, file
    <2>5. (k + 1) - 1 = k
      BY <2>2
    <2>6. CASE disk[path] = file(k) /\ \A h \in 1 .. k : s[h].path # path
      <3>1. s[1].path # path
        BY <2>2, <2>6
      <3>2. disk'[path] = file(k)
        BY <1>2, <1>4, <2>4, <2>6, <3>1
      <3>3. before1(k)
        BY <1>2, <2>2, <2>6
      <3> QED
        BY <2>3, <3>2, <3>3
    <2>7. CASE \E m \in 1 .. k : /\ s[m].path = path /\ s[m].file = file(k)
                                 /\ \A h \in (m + 1) .. k : s[h].path # path
      <3>1. PICK m \in 1 .. k : /\ s[m].path = path /\ s[m].file = file(k)
                                /\ \A h \in (m + 1) .. k : s[h].path # path
        BY <2>7
      <3>2. ASSUME NEW h \in m .. (k - 1), h >= 1
            PROVE  t[h].path # path
        <4>1. h + 1 \in (m + 1) .. k /\ h \in DOMAIN t
          BY <1>2, <2>2, <3>1, <3>2
        <4> QED
          BY <1>2, <3>1, <4>1
      <3>3. CASE m = 1
        <4>1. disk'[path] = file(k)
          BY <1>2, <1>4, <2>4, <3>1, <3>3
        <4>2. before1(k)
          BY <3>2, <3>3
        <4> QED
          BY <2>3, <4>1, <4>2
      <3>4. CASE m # 1
        <4>1. m - 1 \in 1 .. (k - 1) /\ m - 1 \in DOMAIN t /\ t[m - 1] = s[m]
          BY <1>2, <2>2, <3>1, <3>4
        <4>2. \A h \in ((m - 1) + 1) .. (k - 1) : t[h].path # path
          BY <2>2, <3>1, <3>2
        <4>3. within(k)
          BY <3>1, <4>1, <4>2
        <4> QED
          BY <2>3, <4>3
      <3> QED
        BY <3>3, <3>4
    <2> QED
      BY <2>3, <2>5, <2>6, <2>7 DEF HoldsAt
  <1> QED
    BY <1>6, <1>7, <1>8, <1>9 DEF FilesInv

-----------------------------------------------------------------------------
(* A call begins. *)
LEMMA CallKeeps ==
  ASSUME FilesInv, NEW op, NEW f0, NEW f1, NEW rest, NEW cost,
         IsSequence(rest), \A k \in DOMAIN rest : rest[k].op = "tag",
         Call(<<Item(op, f0, f1)>> \o rest, cost),
         op \in Operations, op = "diff" => f1 \in File
  PROVE  FilesInv'
PROOF
  <1> DEFINE one == <<Item(op, f0, f1)>>
             items == one \o rest
  <1>1. /\ IsSequence(one) /\ Len(one) = 1 /\ one[1] = Item(op, f0, f1)
    BY ShortPlans
  <1> HIDE DEF one
  <1>2. IsSequence(items)
    BY <1>1, JoinedIsSequence
  <1>3. /\ Len(rest) \in Nat /\ DOMAIN rest = 1 .. Len(rest)
        /\ Len(items) = 1 + Len(rest) /\ DOMAIN items = 1 .. (1 + Len(rest))
        /\ items[1] = Item(op, f0, f1)
        /\ \A k \in 1 .. Len(rest) : items[1 + k] = rest[k]
    <2>1. /\ Len(rest) \in Nat /\ DOMAIN rest = 1 .. Len(rest)
          /\ DOMAIN items = 1 .. (Len(one) + Len(rest))
          /\ Len(items) = Len(one) + Len(rest)
          /\ \A k \in 1 .. Len(one) : items[k] = one[k]
          /\ \A k \in 1 .. Len(rest) : items[Len(one) + k] = rest[k]
      BY <1>1, Joined
    <2> HIDE DEF items
    <2> QED
      BY <1>1, <2>1
  <1>4. Call(items, cost)
    BY DEF one
  <1> HIDE DEF items
  <1>5. /\ Begin(items) /\ before' = disk /\ UNCHANGED <<disk, dontSaveXidmap>>
        /\ DOMAIN disk = Paths
    BY <1>4 DEF Call, FilesInv, Settled
  <1>6. items # <<>> /\ Head(items) = Item(op, f0, f1)
    <2>1. items # <<>>
      BY <1>3
    <2> QED
      BY <1>2, <1>3, <2>1, TailFacts
  <1>7. \A k \in 2 .. Len(items) : items[k].op = "tag"
    <2>1. ASSUME NEW k \in 2 .. Len(items)
          PROVE  items[k].op = "tag"
      <3>1. k - 1 \in 1 .. Len(rest) /\ 1 + (k - 1) = k
        BY <1>3, <2>1
      <3> QED
        BY <1>3, <3>1
    <2> QED
      BY <2>1
  <1>8. Head(items).op = op /\ Head(items).f1 = f1
    BY <1>6 DEF Item
  <1> QED
    BY <1>2, <1>5, <1>6, <1>7, <1>8, BeginKeeps

(* The next part of RunDiff begins. *)
LEMMA ContinueKeeps ==
  ASSUME FilesInv, Continue
  PROVE  FilesInv'
PROOF
  <1> DEFINE items == Tail(agenda)
  <1>1. /\ agenda # <<>> /\ plan.writes = <<>> /\ plan.ends = "ok" /\ Len(agenda) > 1
        /\ Begin(items) /\ UNCHANGED <<disk, dontSaveXidmap, before>>
        /\ IsSequence(agenda) /\ \A k \in 2 .. Len(agenda) : agenda[k].op = "tag"
        /\ DOMAIN disk = Paths
    BY DEF Continue, Finished, Resting, FilesInv, Settled
  <1>2. /\ IsSequence(items) /\ Len(agenda) \in Nat
        /\ DOMAIN items = 1 .. (Len(agenda) - 1)
        /\ \A k \in DOMAIN items : items[k] = agenda[k + 1]
    BY <1>1, TailFacts
  <1> HIDE DEF items
  <1>3. 1 \in DOMAIN items
    BY <1>1, <1>2
  <1>4. items # <<>>
    BY <1>3
  <1>5. Head(items) = items[1] /\ Len(items) \in Nat /\ DOMAIN items = 1 .. Len(items)
    BY <1>2, <1>4, TailFacts
  <1>6. \A k \in DOMAIN items : items[k].op = "tag"
    <2>1. ASSUME NEW k \in DOMAIN items
          PROVE  k + 1 \in 2 .. Len(agenda)
      BY <1>2
    <2> QED
      BY <1>1, <1>2, <2>1
  <1>7. \A k \in 2 .. Len(items) : items[k].op = "tag"
    <2>1. \A k \in 2 .. Len(items) : k \in DOMAIN items
      BY <1>5
    <2> QED
      BY <1>6, <2>1
  <1>8. Head(items).op = "tag"
    BY <1>3, <1>5, <1>6
  <1>9. \A p \in Paths : disk[p] = Empty => before'[p] = Empty
    <2>1. DOMAIN plan.writes = {}
      BY <1>1
    <2>2. \A p \in Paths : disk[p] = Empty =>
            before[p] = Empty \/ \E k \in DOMAIN plan.writes : Fills(plan.writes[k], p)
      BY <1>1 DEF FilesInv, NothingLeftOpen, Resting
    <2> QED
      BY <1>1, <2>1, <2>2
  <1> QED
    BY <1>1, <1>2, <1>4, <1>7, <1>8, <1>9, BeginKeeps DEF Operations

(* Between two calls nothing is planned. *)
LEMMA RestingKeeps ==
  ASSUME FilesInv, Resting, UNCHANGED <<agenda, plan>>, DOMAIN disk' = Paths
  PROVE  FilesInv'
PROOF
  BY DEF FilesInv, Settled, NothingLeftOpen, FailureIsHarmless, MapIsSavedFirst, Resting,
         IsSequence, IsPlan

(* One in front of none. *)
LEMMA OneAndNone == \A a : <<a>> \o <<>> = <<a>>
PROOF
  <1> SUFFICES ASSUME NEW a PROVE <<a>> \o <<>> = <<a>>
    OBVIOUS
  <1>1. <<a>> \in Seq({a})
    OBVIOUS
  <1> QED
    BY <1>1, ConcatEmptySeq

(* One in front of two. *)
LEMMA OneAndTwo == \A a, b, c : <<a>> \o <<b, c>> = <<a, b, c>>
PROOF
  <1> SUFFICES ASSUME NEW a, NEW b, NEW c PROVE <<a>> \o <<b, c>> = <<a, b, c>>
    OBVIOUS
  <1> DEFINE S == {a, b, c}
             s == <<a>>
             t == <<b, c>>
             u == <<a, b, c>>
  <1>1. /\ s \in Seq(S) /\ Len(s) = 1 /\ s[1] = a
        /\ t \in Seq(S) /\ Len(t) = 2 /\ t[1] = b /\ t[2] = c
        /\ u \in Seq(S) /\ Len(u) = 3 /\ u[1] = a /\ u[2] = b /\ u[3] = c
    OBVIOUS
  <1> HIDE DEF S, s, t, u
  <1>2. /\ s \o t \in Seq(S) /\ Len(s \o t) = Len(s) + Len(t)
        /\ \A i \in 1 .. (Len(s) + Len(t)) : (s \o t)[i] =
             IF i <= Len(s) THEN s[i] ELSE t[i - Len(s)]
    BY <1>1, ConcatProperties
  <1>3. (s \o t)[1] = a /\ (s \o t)[2] = b /\ (s \o t)[3] = c /\ Len(s \o t) = 3
    BY <1>1, <1>2
  <1>4. \A i \in 1 .. Len(s \o t) : (s \o t)[i] = u[i]
    BY <1>1, <1>3
  <1>5. s \o t = u
    BY <1>1, <1>2, <1>3, <1>4, SeqEqual
  <1> QED
    BY <1>5 DEF s, t, u

(* Every step keeps the invariant. *)
LEMMA NextKeepsFiles ==
  ASSUME FilesInv, [Next]_vars
  PROVE  FilesInv'
PROOF
  <1>0. DOMAIN disk = Paths
    BY DEF FilesInv, Settled
  <1>1. ASSUME NEW op \in Operations, NEW f0, NEW f1, NEW cost,
               Call(<<Item(op, f0, f1)>>, cost), op = "diff" => f1 \in File
        PROVE  FilesInv'
    <2> DEFINE rest == <<>>
    <2>1. IsSequence(rest) /\ DOMAIN rest = {}
      BY ShortPlans
    <2>2. <<Item(op, f0, f1)>> \o rest = <<Item(op, f0, f1)>>
      BY OneAndNone
    <2>3. Call(<<Item(op, f0, f1)>> \o rest, cost)
      BY <1>1, <2>2
    <2>4. \A k \in DOMAIN rest : rest[k].op = "tag"
      BY <2>1
    <2> HIDE DEF rest
    <2>5. op \in Operations /\ (op = "diff" => f1 \in File)
      BY <1>1
    <2> QED
      BY <2>1, <2>3, <2>4, <2>5, CallKeeps
  <1>2. CASE CallXyDiff
    BY <1>1, <1>2 DEF CallXyDiff, Operations
  <1>3. CASE CallApplyDelta
    BY <1>1, <1>3 DEF CallApplyDelta, Operations
  <1>4. CASE CallApplyDefault
    BY <1>1, <1>4 DEF CallApplyDefault, Operations
  <1>5. CASE CallXyLoadAndDiff
    BY <1>1, <1>5 DEF CallXyLoadAndDiff, Operations
  <1>6. CASE CallRetrieve
    BY <1>1, <1>6 DEF CallRetrieve, Operations
  <1>7. CASE CallRunDiff
    <2>1. PICK f0 \in File, f1 \in File, s0 \in File, s1 \in File :
            Call(<<Item("diff", f0, f1), Item("tag", f0, s0), Item("tag", f1, s1)>>, 2)
      BY <1>7 DEF CallRunDiff
    <2> DEFINE a == Item("diff", f0, f1)
               b == Item("tag", f0, s0)
               c == Item("tag", f1, s1)
               rest == <<b, c>>
    <2>2. b.op = "tag" /\ c.op = "tag"
      BY DEF Item
    <2>3. <<a>> \o rest = <<a, b, c>>
      BY OneAndTwo
    <2>4. Call(<<a>> \o rest, 2)
      BY <2>1, <2>3
    <2> HIDE DEF b, c
    <2>5. IsSequence(rest) /\ \A k \in DOMAIN rest : rest[k].op = "tag"
      BY <2>2, ShortPlans
    <2> HIDE DEF rest
    <2> QED
      BY <2>4, <2>5, CallKeeps DEF Operations
  <1>8. CASE CreateDelta
    BY <1>0, <1>8, RestingKeeps DEF CreateDelta
  <1>9. CASE WriteNext
    BY <1>9, WriteNextKeeps
  <1>10. CASE Continue
    BY <1>10, ContinueKeeps
  <1>11. CASE Return
    BY <1>0, <1>11, AtRestKeeps DEF Return
  <1>12. CASE Crash
    BY <1>0, <1>12, AtRestKeeps DEF Crash
  <1>13. CASE Exit
    BY <1>0, <1>13, RestingKeeps DEF Exit
  <1>14. CASE Edit
    BY <1>0, <1>14, RestingKeeps DEF Edit
  <1>15. CASE UNCHANGED vars
    BY <1>15 DEF vars, FilesInv, Settled, NothingLeftOpen, FailureIsHarmless, MapIsSavedFirst,
         Resting, Fails, IsSequence, IsPlan, Completes, Fills, MapsOnly, DeltaLast, HoldsAt
  <1> QED
    BY <1>2, <1>3, <1>4, <1>5, <1>6, <1>7, <1>8, <1>9, <1>10, <1>11, <1>12, <1>13, <1>14,
       <1>15 DEF Next

(* The first call has not begun. *)
LEMMA InitFiles == Init => FilesInv
PROOF
  <1> SUFFICES ASSUME Init PROVE FilesInv
    OBVIOUS
  <1>1. DOMAIN disk = Paths /\ Resting /\ plan = Nothing
    BY DEF Init, Resting
  <1>2. IsSequence(<<>>) /\ Len(<<>>) = 0
    BY ShortPlans
  <1>3. Settled
    BY <1>1, <1>2 DEF Settled, IsPlan, Nothing, Resting
  <1> QED
    BY <1>1, <1>3 DEF FilesInv, NothingLeftOpen, FailureIsHarmless, MapIsSavedFirst

(***************************************************************************)
(* Whatever is called and cut short: between the writes of a call, every   *)
(* file it has opened has still to be filled by it, a call that fails has  *)
(* the documents and the delta as it found them and writes maps only, and  *)
(* the map of the second document is there when the delta is completed.    *)
(***************************************************************************)
THEOREM FilesInvariance == Spec => []FilesInv
PROOF
  <1>1. FilesInv /\ [Next]_vars => FilesInv'
    BY NextKeepsFiles
  <1> QED
    BY <1>1, InitFiles, PTL DEF Spec

(***************************************************************************)
(* For any files and calls: a call that runs to its end completes every    *)
(* file it opens, so half-written files come from crashes and from results *)
(* without a root alone.                                                   *)
(***************************************************************************)
THEOREM EveryOpenedFileIsWritten == Spec => OpenedFilesAreWritten
PROOF
  <1> DEFINE A == Finished /\ plan.ends # "rootless" =>
                    \A p \in Paths : disk[p] = Empty => before[p] = Empty
  <1>1. FilesInv => A
    <2> SUFFICES ASSUME FilesInv, Finished, plan.ends # "rootless", NEW p \in Paths,
                        disk[p] = Empty
                 PROVE  before[p] = Empty
      OBVIOUS
    <2>1. DOMAIN plan.writes = {}
      BY DEF Finished
    <2> QED
      BY <2>1 DEF FilesInv, NothingLeftOpen, Finished
  <1>2. FilesInv /\ [Next]_vars => [A]_vars
    BY <1>1
  <1> QED
    BY <1>2, FilesInvariance, PTL DEF Spec, OpenedFilesAreWritten

(***************************************************************************)
(* For any files and calls: a call that throws or ends the process leaves  *)
(* every document and the delta as they were, whatever it had done before. *)
(***************************************************************************)
THEOREM FailureTouchesMapsOnly == Spec => FailureLeavesDocuments
PROOF
  <1> DEFINE A == Finished /\ plan.ends \in {"exception", "undefined"} /\ Head(agenda).op # "tag"
                    => \A p \in Paths : p[1] # "xidmap" => disk[p] = before[p]
  <1>1. FilesInv => A
    BY DEF FilesInv, FailureIsHarmless, Fails, Finished
  <1>2. FilesInv /\ [Next]_vars => [A]_vars
    BY <1>1
  <1> QED
    BY <1>2, FilesInvariance, PTL DEF Spec, FailureLeavesDocuments

(***************************************************************************)
(* For any files and calls: when the delta is completed, the map of its    *)
(* second document is on the disk, unless the process does not save maps.  *)
(***************************************************************************)
THEOREM MapPrecedesDelta == Spec => DeltaAfterMap
PROOF
  <1> DEFINE A == plan.writes # <<>> /\ versions' # None /\ versions' # versions =>
                    \/ dontSaveXidmap
                    \/ disk[Map(Head(agenda).f1)] = Holding(StringFromList(versions'.to))
  <1>1. ASSUME FilesInv, Next, plan.writes # <<>>, versions' # None, versions' # versions,
               ~dontSaveXidmap
        PROVE  disk[Map(Head(agenda).f1)] = Holding(StringFromList(versions'.to))
    <2> DEFINE w == Head(plan.writes)
               f1 == Head(agenda).f1
    <2>1. WriteNext
      BY <1>1 DEF Next, CallXyDiff, CallApplyDelta, CallApplyDefault, CallXyLoadAndDiff,
           CallRetrieve, CallRunDiff, Call, CreateDelta, Continue, Return, Crash, Exit, Edit
    <2>2. w.path = Delta /\ versions' = w.knows
      BY <1>1, <2>1 DEF WriteNext
    <2>3. w = plan.writes[1] /\ 1 \in DOMAIN plan.writes
      BY <1>1, TailFacts DEF FilesInv, Settled, IsPlan
    <2>4. ~Resting
      BY <1>1 DEF FilesInv, Settled, Nothing
    <2>5. DeltaLast(plan.writes, f1)
      BY <1>1, <2>4 DEF FilesInv, MapIsSavedFirst
    <2>6. HoldsAt(plan.writes, 1, Map(f1), Holding(StringFromList(w.knows.to)))
      BY <1>1, <2>2, <2>3, <2>5 DEF DeltaLast
    <2>7. 1 .. (1 - 1) = {}
      OBVIOUS
    <2> QED
      BY <2>2, <2>6, <2>7 DEF HoldsAt
  <1>2. FilesInv /\ [Next]_vars => [A]_vars
    BY <1>1
  <1> QED
    BY <1>2, FilesInvariance, PTL DEF Spec, DeltaAfterMap

-----------------------------------------------------------------------------
(***************************************************************************)
(* The documents in memory and their maps: what is written of the XIDs is  *)
(* read back.                                                              *)
(***************************************************************************)

(* A finite set of numbers in order: the k-th has k numbers up to itself. *)
LEMMA OrderFacts ==
  ASSUME NEW S, IsFiniteSet(S), S \subseteq Int
  PROVE  /\ Cardinality(S) \in Nat
         /\ InOrder(S) \in Seq(S) /\ Len(InOrder(S)) = Cardinality(S)
         /\ DOMAIN InOrder(S) = 1 .. Cardinality(S)
         /\ \A k \in 1 .. Cardinality(S) :
              InOrder(S)[k] \in S /\ Cardinality({l \in S : l <= InOrder(S)[k]}) = k
         /\ \A k, l \in 1 .. Cardinality(S) : k < l => InOrder(S)[k] < InOrder(S)[l]
         /\ \A m \in S : \E k \in 1 .. Cardinality(S) : InOrder(S)[k] = m
PROOF
  <1> DEFINE r == [m \in S |-> m]
             n == Cardinality(S)
             u == [k \in 1 .. n |-> CHOOSE m \in S : Place(S, r, m) = k]
  <1>1. IsRanking(S, r)
    BY DEF IsRanking
  <1>2. \A m \in S : Place(S, r, m) = Cardinality({l \in S : l <= m})
    <2>1. \A m \in S : {l \in S : r[l] <= r[m]} = {l \in S : l <= m}
      OBVIOUS
    <2> QED
      BY <2>1 DEF Place
  <1>3. InOrder(S) = u
    <2> DEFINE C(k) == CHOOSE m \in S : Cardinality({l \in S : l <= m}) = k
    <2>1. ASSUME NEW k \in 1 .. n
          PROVE  u[k] = C(k)
      <3>1. u[k] = CHOOSE m \in S : Place(S, r, m) = k
        OBVIOUS
      <3>2. C(k) = CHOOSE m \in S : Cardinality({l \in S : l <= m}) = k
        OBVIOUS
      <3> HIDE DEF r, u, C
      <3> QED
        BY <1>2, <3>1, <3>2
    <2>2. u = [k \in 1 .. n |-> u[k]] /\ InOrder(S) = [k \in 1 .. n |-> C(k)]
      BY DEF InOrder
    <2> HIDE DEF u, C
    <2> QED
      BY <2>1, <2>2
  <1>4. Lists(u, S, r)
    <2> HIDE DEF r
    <2> QED
      BY <1>1, PlacesList
  <1>5. n \in Nat
    BY FS_CardinalityType
  <1> HIDE DEF u, r
  <1>6. /\ u \in Seq(S) /\ Len(u) \in Nat /\ DOMAIN u = 1 .. Len(u)
        /\ \A k \in 1 .. Len(u) : u[k] \in S
        /\ \A m \in S : \E k \in 1 .. Len(u) : u[k] = m
        /\ \A k, l \in 1 .. Len(u) : k < l => r[u[k]] < r[u[l]]
    BY <1>4, ListFacts
  <1>7. /\ Cardinality(S) = Len(u)
        /\ \A k \in 1 .. Len(u) : Cardinality({l \in S : r[l] <= r[u[k]]}) = k
    BY <1>4, ListedPlaces
  <1>8. \A k \in 1 .. Len(u) : {l \in S : r[l] <= r[u[k]]} = {l \in S : l <= u[k]}
    BY <1>6 DEF r
  <1>9. \A k, l \in 1 .. Len(u) : k < l => u[k] < u[l]
    BY <1>6 DEF r
  <1> QED
    BY <1>3, <1>5, <1>6, <1>7, <1>8, <1>9

(* A document in memory: as many XIDs as nodes, all different and used up. *)
IsDoc(d) ==
  /\ d = [labels |-> d.labels, xids |-> d.xids, first |-> d.first]
  /\ d.labels \in Children
  /\ d.xids \in Seq(Nat) /\ Len(d.xids) = Cardinality(d.labels) + 1
  /\ d.first \in Nat
  /\ \A k \in DOMAIN d.xids : 0 < d.xids[k] /\ d.xids[k] < d.first
  /\ \A k, l \in DOMAIN d.xids : d.xids[k] = d.xids[l] => k = l

(* The children of a document are finitely many numbers. *)
LEMMA ChildrenFacts ==
  ASSUME NEW labels \in Children
  PROVE  /\ IsFiniteSet(labels) /\ labels \subseteq Nat /\ labels \subseteq Label
         /\ Cardinality(labels) \in Nat
PROOF
  BY FilesAssumption, FS_CardinalityType DEF Children, FilesAssumption

(* Every child has a place of its own, and every place a child. *)
LEMMA ChildPlaces ==
  ASSUME NEW d, d.labels \in Children
  PROVE  /\ \A l \in d.labels : PlaceOf(d, l) \in 1 .. Cardinality(d.labels)
         /\ \A l, m \in d.labels : l < m => PlaceOf(d, l) < PlaceOf(d, m)
         /\ \A k \in 1 .. Cardinality(d.labels) :
              /\ InOrder(d.labels)[k] \in d.labels
              /\ PlaceOf(d, InOrder(d.labels)[k]) = k
         /\ \A l \in d.labels : InOrder(d.labels)[PlaceOf(d, l)] = l
PROOF
  <1> DEFINE S == d.labels
             u == InOrder(S)
             n == Cardinality(S)
  <1>1. IsFiniteSet(S) /\ S \subseteq Int
    BY ChildrenFacts
  <1> HIDE DEF S
  <1>2. /\ n \in Nat
        /\ \A k \in 1 .. n : u[k] \in S /\ Cardinality({l \in S : l <= u[k]}) = k
        /\ \A k, l \in 1 .. n : k < l => u[k] < u[l]
        /\ \A m \in S : \E k \in 1 .. n : u[k] = m
    BY <1>1, OrderFacts
  <1>3. \A l : PlaceOf(d, l) = Cardinality({m \in S : m <= l})
    BY DEF PlaceOf, S
  <1> HIDE DEF u, n
  <1>4. \A k \in 1 .. n : u[k] \in S /\ PlaceOf(d, u[k]) = k
    BY <1>2, <1>3
  <1>5. ASSUME NEW l \in S
        PROVE  PlaceOf(d, l) \in 1 .. n /\ u[PlaceOf(d, l)] = l
    <2>1. PICK k \in 1 .. n : u[k] = l
      BY <1>2
    <2> QED
      BY <1>4, <2>1
  <1>6. ASSUME NEW l \in S, NEW m \in S, l < m
        PROVE  PlaceOf(d, l) < PlaceOf(d, m)
    <2>1. /\ PlaceOf(d, l) \in 1 .. n /\ PlaceOf(d, m) \in 1 .. n
          /\ u[PlaceOf(d, l)] = l /\ u[PlaceOf(d, m)] = m
      BY <1>5
    <2>2. PlaceOf(d, l) # PlaceOf(d, m) /\ ~(PlaceOf(d, m) < PlaceOf(d, l))
      BY <1>1, <1>2, <1>6, <2>1
    <2> QED
      BY <1>2, <2>1, <2>2
  <1> QED
    BY <1>4, <1>5, <1>6 DEF S, u, n

(* The XIDs of a document are the root's and one for each child. *)
LEMMA DocFacts ==
  ASSUME NEW d, IsDoc(d)
  PROVE  /\ Cardinality(d.labels) \in Nat
         /\ DOMAIN d.xids = 1 .. (Cardinality(d.labels) + 1)
         /\ RootXid(d) = d.xids[Cardinality(d.labels) + 1] /\ RootXid(d) \in XidsIn(d)
         /\ \A l \in d.labels :
              /\ PlaceOf(d, l) \in 1 .. Cardinality(d.labels)
              /\ XidOf(d, l) \in XidsIn(d) /\ XidOf(d, l) # RootXid(d)
         /\ \A l, m \in d.labels : XidOf(d, l) = XidOf(d, m) => l = m
         /\ \A x \in XidsIn(d) :
              /\ x \in Nat /\ 0 < x /\ x < d.first
              /\ x = RootXid(d) \/ \E l \in d.labels : x = XidOf(d, l)
PROOF
  <1> DEFINE n == Cardinality(d.labels)
             xids == d.xids
  <1>1. /\ d.labels \in Children /\ xids \in Seq(Nat) /\ Len(xids) = n + 1
        /\ \A k \in DOMAIN xids : 0 < xids[k] /\ xids[k] < d.first
        /\ \A k, l \in DOMAIN xids : xids[k] = xids[l] => k = l
    BY DEF IsDoc
  <1>2. n \in Nat
    BY <1>1, ChildrenFacts
  <1>3. /\ \A l \in d.labels : PlaceOf(d, l) \in 1 .. n
        /\ \A l, m \in d.labels : l < m => PlaceOf(d, l) < PlaceOf(d, m)
        /\ \A k \in 1 .. n : \E l \in d.labels : PlaceOf(d, l) = k
    <2>1. /\ \A l \in d.labels : PlaceOf(d, l) \in 1 .. n
          /\ \A l, m \in d.labels : l < m => PlaceOf(d, l) < PlaceOf(d, m)
          /\ \A k \in 1 .. n : /\ InOrder(d.labels)[k] \in d.labels
                               /\ PlaceOf(d, InOrder(d.labels)[k]) = k
      BY <1>1, ChildPlaces
    <2> QED
      BY <2>1
  <1>4. /\ RootXid(d) = xids[n + 1] /\ \A l : XidOf(d, l) = xids[PlaceOf(d, l)]
        /\ XidsIn(d) = {xids[k] : k \in DOMAIN xids}
    BY <1>1 DEF RootXid, XidOf, XidsIn, Last, Range
  <1>5. d.labels \subseteq Nat
    BY <1>1, ChildrenFacts
  <1> HIDE DEF n, xids
  <1>6. DOMAIN xids = 1 .. (n + 1)
    BY <1>1, <1>2
  <1>7. RootXid(d) \in XidsIn(d)
    BY <1>2, <1>4, <1>6
  <1>8. ASSUME NEW l \in d.labels
        PROVE  XidOf(d, l) \in XidsIn(d) /\ XidOf(d, l) # RootXid(d)
    <2>1. PlaceOf(d, l) \in DOMAIN xids /\ PlaceOf(d, l) # n + 1 /\ n + 1 \in DOMAIN xids
      BY <1>2, <1>3, <1>6
    <2> QED
      BY <1>1, <1>4, <2>1
  <1>9. ASSUME NEW l \in d.labels, NEW m \in d.labels, XidOf(d, l) = XidOf(d, m)
        PROVE  l = m
    <2>1. PlaceOf(d, l) \in 1 .. n /\ PlaceOf(d, m) \in 1 .. n
      BY <1>3
    <2>2. PlaceOf(d, l) \in DOMAIN xids /\ PlaceOf(d, m) \in DOMAIN xids
      BY <1>2, <1>6, <2>1
    <2>3. PlaceOf(d, l) = PlaceOf(d, m)
      BY <1>1, <1>4, <1>9, <2>2
    <2>4. ~(l < m) /\ ~(m < l)
      BY <1>2, <1>3, <2>1, <2>3
    <2> QED
      BY <1>5, <2>4
  <1>10. ASSUME NEW x \in XidsIn(d)
         PROVE  /\ x \in Nat /\ 0 < x /\ x < d.first
                /\ x = RootXid(d) \/ \E l \in d.labels : x = XidOf(d, l)
    <2>1. PICK k \in DOMAIN xids : x = xids[k]
      BY <1>4
    <2>2. x \in Nat /\ 0 < x /\ x < d.first
      BY <1>1, <2>1
    <2>3. k = n + 1 \/ k \in 1 .. n
      BY <1>2, <1>6
    <2> QED
      BY <1>3, <1>4, <2>1, <2>2, <2>3
  <1> QED
    BY <1>2, <1>3, <1>4, <1>6, <1>7, <1>8, <1>9, <1>10 DEF n, xids

(* A value in V, and for each number up to N a step from V to V. *)
AreSteps(step, N, V, v) ==
  N \in Nat /\ v \in V /\ \A n \in 1 .. N : \A t \in V : step[n][t] \in V

(* They make a function, from step to step. *)
LEMMA StepByStep ==
  ASSUME NEW step, NEW N, NEW V, NEW v, AreSteps(step, N, V, v)
  PROVE  \E f \in [0 .. N -> V] :
           f[0] = v /\ \A n \in 1 .. N : f[n] = step[n][f[n - 1]]
PROOF
  <1>0. N \in Nat /\ v \in V /\ \A n \in 1 .. N : \A t \in V : step[n][t] \in V
    BY DEF AreSteps
  <1> DEFINE Goes(f, k) == f[0] = v /\ \A n \in 1 .. k : f[n] = step[n][f[n - 1]]
             S == {k \in Nat : k <= N => \E f \in [0 .. k -> V] : Goes(f, k)}
  <1>1. 0 \in S
    <2> DEFINE f == [n \in 0 .. 0 |-> v]
    <2>1. f \in [0 .. 0 -> V] /\ Goes(f, 0)
      BY <1>0
    <2> HIDE DEF f, Goes
    <2> QED
      BY <2>1
  <1>2. ASSUME NEW k \in Nat, k \in S
        PROVE  k + 1 \in S
    <2> SUFFICES ASSUME k + 1 <= N
                 PROVE  \E f \in [0 .. (k + 1) -> V] : Goes(f, k + 1)
      OBVIOUS
    <2>1. PICK f \in [0 .. k -> V] : Goes(f, k)
      <3>1. k <= N
        BY <1>0
      <3> HIDE DEF Goes
      <3> QED
        BY <1>2, <3>1
    <2> DEFINE g == [n \in 0 .. (k + 1) |-> IF n = k + 1 THEN step[k + 1][f[k]] ELSE f[n]]
    <2>2. step[k + 1][f[k]] \in V
      <3>1. k + 1 \in 1 .. N /\ f[k] \in V
        BY <1>0
      <3> QED
        BY <1>0, <3>1
    <2>3. g \in [0 .. (k + 1) -> V]
      BY <2>2
    <2>4. /\ g[0] = f[0] /\ g[k + 1] = step[k + 1][f[k]] /\ g[k] = f[k]
          /\ \A n \in 1 .. k : g[n] = f[n] /\ g[n - 1] = f[n - 1]
      OBVIOUS
    <2> HIDE DEF g
    <2>5. Goes(g, k + 1)
      <3>1. \A n \in 1 .. (k + 1) : n = k + 1 \/ n \in 1 .. k
        OBVIOUS
      <3>2. (k + 1) - 1 = k
        OBVIOUS
      <3> QED
        BY <2>1, <2>4, <3>1, <3>2
    <2> HIDE DEF Goes
    <2> QED
      BY <2>3, <2>5
  <1>3. \A k \in Nat : k \in S
    <2> HIDE DEF S
    <2> QED
      BY <1>1, <1>2, SetInduction
  <1> HIDE DEF Goes
  <1>4. \E f \in [0 .. N -> V] : Goes(f, N)
    BY <1>0, <1>3
  <1> QED
    BY <1>4 DEF Goes

(* What Naming says of the root and of the children. *)
LEMMA NamingFacts ==
  ASSUME NEW d, IsDoc(d)
  PROVE  /\ DOMAIN Naming(d) = XidsIn(d)
         /\ Naming(d)[RootXid(d)] = 0
         /\ \A l \in d.labels : Naming(d)[XidOf(d, l)] = l
PROOF
  <1>1. /\ RootXid(d) \in XidsIn(d)
        /\ \A l \in d.labels : XidOf(d, l) \in XidsIn(d) /\ XidOf(d, l) # RootXid(d)
        /\ \A l, m \in d.labels : XidOf(d, l) = XidOf(d, m) => l = m
    BY DocFacts
  <1>2. ASSUME NEW l \in d.labels
        PROVE  Naming(d)[XidOf(d, l)] = l
    <2>1. Naming(d)[XidOf(d, l)] = CHOOSE m \in d.labels : XidOf(d, m) = XidOf(d, l)
      BY <1>1 DEF Naming
    <2>2. \A m \in d.labels : XidOf(d, m) = XidOf(d, l) => m = l
      BY <1>1
    <2> QED
      BY <2>1, <2>2
  <1> QED
    BY <1>1, <1>2 DEF Naming

(* The document that no map speaks of. *)
LEMMA DefaultIsDoc ==
  ASSUME NEW labels \in Children
  PROVE  IsDoc(DefaultXids(labels)) /\ DefaultXids(labels).labels = labels
PROOF
  <1> DEFINE n == Cardinality(labels) + 1
             xids == [k \in 1 .. n |-> k]
             d == DefaultXids(labels)
  <1>1. n \in Nat
    BY ChildrenFacts
  <1>2. d = [labels |-> labels, xids |-> xids, first |-> n + 1]
    BY DEF DefaultXids
  <1> HIDE DEF d
  <1>3. d.labels = labels /\ d.xids = xids /\ d.first = n + 1
    BY <1>2
  <1>4. xids \in Seq(Nat) /\ Len(xids) = n /\ DOMAIN xids = 1 .. n
    BY <1>1
  <1>5. \A k \in 1 .. n : xids[k] = k
    OBVIOUS
  <1> HIDE DEF xids
  <1>6. /\ \A k \in DOMAIN xids : 0 < xids[k] /\ xids[k] < n + 1
        /\ \A k, l \in DOMAIN xids : xids[k] = xids[l] => k = l
    BY <1>1, <1>4, <1>5
  <1>7. Len(d.xids) = Cardinality(d.labels) + 1
    BY <1>3, <1>4
  <1> HIDE DEF n
  <1>8. d.first \in Nat
    BY <1>1, <1>3
  <1>9. d = [labels |-> d.labels, xids |-> d.xids, first |-> d.first]
    BY <1>2
  <1> QED
    BY <1>3, <1>4, <1>6, <1>7, <1>8, <1>9 DEF IsDoc, d

(* The n-th run goes from b[n] to e[n], and the runs follow each other. *)
AreRuns(s, runs, b, e) ==
  LET N == Len(runs) IN
  /\ N \in Nat /\ DOMAIN runs = 1 .. N
  /\ b \in [1 .. N -> 1 .. Len(s)] /\ e \in [0 .. N -> 0 .. Len(s)]
  /\ e[0] = 0 /\ e[N] = Len(s)
  /\ \A n \in 1 .. N :
       /\ b[n] = e[n - 1] + 1 /\ b[n] <= e[n]
       /\ runs[n] = <<s[b[n]], s[e[n]]>>
       /\ \A k \in b[n] .. e[n] : s[k] = s[b[n]] + (k - b[n])

(* The runs of a sequence of numbers. *)
LEMMA RunsFacts ==
  ASSUME NEW s \in Seq(Nat), Len(s) # 0
  PROVE  \E b, e : AreRuns(s, Runs(s), b, e)
PROOF
  <1> DEFINE L == Len(s)
             Starts == {k \in DOMAIN s : k = 1 \/ s[k] # s[k - 1] + 1}
             order == InOrder(Starts)
             N == Len(order)
             b == [n \in 1 .. N |-> order[n]]
             e == [n \in 0 .. N |-> IF n = N THEN L ELSE order[n + 1] - 1]
             runs == Runs(s)
  <1>1. L \in Nat /\ L # 0 /\ DOMAIN s = 1 .. L /\ \A k \in 1 .. L : s[k] \in Nat
    OBVIOUS
  <1>2. Starts \subseteq 1 .. L /\ 1 \in Starts
    BY <1>1
  <1>3. \A k \in 1 .. L : k \in Starts \/ s[k] = s[k - 1] + 1
    BY <1>1
  <1> HIDE DEF L, Starts
  <1>4. IsFiniteSet(Starts) /\ Starts \subseteq Int
    <2>1. IsFiniteSet(1 .. L)
      <3>1. 1 \in Int /\ L \in Int
        BY <1>1
      <3> QED
        BY <3>1, FS_Interval
    <2>2. IsFiniteSet(Starts)
      BY <1>2, <2>1, FS_Subset
    <2> QED
      BY <1>1, <1>2, <2>2
  <1>5. /\ N \in Nat /\ DOMAIN order = 1 .. N
        /\ \A k \in 1 .. N : order[k] \in Starts
        /\ \A k, l \in 1 .. N : k < l => order[k] < order[l]
        /\ \A m \in Starts : \E k \in 1 .. N : order[k] = m
    <2>1. /\ Cardinality(Starts) \in Nat /\ Len(order) = Cardinality(Starts)
          /\ DOMAIN order = 1 .. Cardinality(Starts)
          /\ \A k \in 1 .. Cardinality(Starts) : order[k] \in Starts
          /\ \A k, l \in 1 .. Cardinality(Starts) : k < l => order[k] < order[l]
          /\ \A m \in Starts : \E k \in 1 .. Cardinality(Starts) : order[k] = m
      BY <1>4, OrderFacts
    <2> HIDE DEF order
    <2> QED
      BY <2>1
  <1>6. runs = [n \in 1 .. N |-> <<s[order[n]], s[IF n = N THEN L ELSE order[n + 1] - 1]>>]
    BY <1>5 DEF Runs, L, Starts
  <1> HIDE DEF order, runs, N
  <1>8. /\ \A n \in 1 .. N : order[n] \in 1 .. L
        /\ \A n \in 1 .. N : order[n] \in Int /\ 1 <= order[n] /\ order[n] <= L
    <2>1. \A n \in 1 .. N : order[n] \in 1 .. L
      BY <1>2, <1>5
    <2> QED
      BY <1>1, <2>1
  <1>7. N >= 1 /\ order[1] = 1
    <2>1. PICK k \in 1 .. N : order[k] = 1
      BY <1>2, <1>5
    <2>2. N >= 1 /\ 1 \in 1 .. N /\ k \in Int /\ k >= 1
      BY <1>5
    <2>3. order[1] >= 1 /\ order[1] \in Int
      BY <1>8, <2>2
    <2>4. 1 < k => order[1] < order[k]
      BY <1>5, <2>2
    <2> QED
      BY <2>1, <2>2, <2>3, <2>4
  <1>9. ASSUME NEW n \in 1 .. N
        PROVE  /\ e[n] \in 0 .. L /\ b[n] = e[n - 1] + 1 /\ b[n] = order[n] /\ b[n] <= e[n]
               /\ runs[n] = <<s[b[n]], s[e[n]]>>
    <2>1. e[n - 1] = order[n] - 1
      <3>1. n - 1 \in 0 .. N /\ n - 1 # N /\ (n - 1) + 1 = n
        BY <1>5
      <3> QED
        BY <3>1
    <2>2. CASE n = N
      BY <1>1, <1>5, <1>6, <1>8, <2>1, <2>2
    <2>3. CASE n # N
      <3>1. n + 1 \in 1 .. N /\ order[n] < order[n + 1]
        BY <1>5, <2>3
      <3>2. e[n] = order[n + 1] - 1 /\ runs[n] = <<s[order[n]], s[order[n + 1] - 1]>>
        BY <1>6, <2>3
      <3>3. /\ order[n] \in Int /\ 1 <= order[n] /\ order[n] <= L
            /\ order[n + 1] \in Int /\ 1 <= order[n + 1] /\ order[n + 1] <= L
        BY <1>8, <3>1
      <3>4. b[n] = order[n]
        OBVIOUS
      <3> HIDE DEF b, e
      <3>5. e[n] \in 0 .. L /\ b[n] = e[n - 1] + 1 /\ b[n] <= e[n]
        BY <1>1, <2>1, <3>1, <3>2, <3>3, <3>4
      <3> QED
        BY <3>2, <3>4, <3>5
    <2> QED
      BY <2>2, <2>3
  <1>10. e[0] = 0 /\ e[N] = L
    BY <1>5, <1>7
  <1>11. b \in [1 .. N -> 1 .. L] /\ e \in [0 .. N -> 0 .. L]
    <2>1. ASSUME NEW n \in 0 .. N
          PROVE  e[n] \in 0 .. L
      <3>1. n = 0 \/ n \in 1 .. N
        BY <1>5
      <3>2. 0 \in 0 .. L
        BY <1>1
      <3> HIDE DEF b, e
      <3> QED
        BY <1>9, <1>10, <3>1, <3>2
    <2> HIDE DEF e
    <2>2. b \in [1 .. N -> 1 .. L]
      BY <1>8
    <2>3. e = [n \in 0 .. N |-> e[n]]
      BY DEF e
    <2> QED
      BY <2>1, <2>2, <2>3
  <1>12. \A n \in 1 .. N : n = N => e[n] = L
    BY <1>10
  <1>13. \A n \in 1 .. N : n # N => n + 1 \in 1 .. N /\ e[n] = order[n + 1] - 1
    BY <1>5
  <1> HIDE DEF b, e
  <1>14. ASSUME NEW n \in 1 .. N, NEW m \in Int, b[n] < m, m <= e[n]
         PROVE  m \in 1 .. L /\ s[m] = s[m - 1] + 1
    <2>1. m \in 1 .. L
      BY <1>1, <1>8, <1>9, <1>14
    <2>2. ASSUME m \in Starts
          PROVE  FALSE
      <3>1. PICK j \in 1 .. N : order[j] = m
        BY <1>5, <2>2
      <3>2. ~(j < n) /\ j # n
        <4>1. order[n] = b[n] /\ order[n] \in Int /\ order[j] \in Int
          BY <1>8, <1>9
        <4>2. j < n => order[j] < order[n]
          BY <1>5
        <4> QED
          BY <1>14, <3>1, <4>1, <4>2
      <3>3. n # N /\ n + 1 \in 1 .. N /\ j > n
        BY <1>5, <3>2
      <3>4. m < order[n + 1]
        BY <1>8, <1>13, <1>14, <3>3
      <3>5. ~(n + 1 < j) /\ n + 1 # j
        BY <1>5, <1>8, <3>1, <3>3, <3>4
      <3> QED
        BY <1>5, <3>3, <3>5
    <2> QED
      BY <1>3, <2>1, <2>2
  <1>15. ASSUME NEW n \in 1 .. N, NEW k \in b[n] .. e[n]
         PROVE  s[k] = s[b[n]] + (k - b[n])
    <2> DEFINE S == {j \in Nat : b[n] + j <= e[n] => s[b[n] + j] = s[b[n]] + j}
    <2>0. /\ b[n] \in 1 .. L /\ e[n] \in 0 .. L
          /\ b[n] \in Int /\ e[n] \in Int /\ k \in Int /\ k >= b[n] /\ k <= e[n]
      BY <1>1, <1>8, <1>9
    <2>1. 0 \in S
      <3>1. b[n] + 0 = b[n] /\ s[b[n]] \in Nat
        BY <1>1, <2>0
      <3> QED
        BY <3>1
    <2>2. ASSUME NEW j \in Nat, j \in S
          PROVE  j + 1 \in S
      <3> SUFFICES ASSUME b[n] + (j + 1) <= e[n]
                   PROVE  s[b[n] + (j + 1)] = s[b[n]] + (j + 1)
        OBVIOUS
      <3>1. s[b[n] + j] = s[b[n]] + j
        BY <2>0, <2>2
      <3>2. s[b[n] + (j + 1)] = s[(b[n] + (j + 1)) - 1] + 1
        <4>1. b[n] + (j + 1) \in Int /\ b[n] < b[n] + (j + 1)
          BY <2>0
        <4> QED
          BY <1>14, <4>1
      <3>3. (b[n] + (j + 1)) - 1 = b[n] + j
        BY <2>0
      <3>4. s[b[n] + (j + 1)] = (s[b[n]] + j) + 1
        BY <3>1, <3>2, <3>3
      <3>5. s[b[n]] \in Int
        <4>1. s[b[n]] \in Nat
          BY <1>1, <2>0
        <4> QED
          BY <4>1
      <3> QED
        BY <3>4, <3>5
    <2>3. \A j \in Nat : j \in S
      <3> HIDE DEF S
      <3> QED
        BY <2>1, <2>2, SetInduction
    <2>4. k - b[n] \in Nat /\ b[n] + (k - b[n]) = k /\ k <= e[n]
      BY <1>1, <2>0
    <2> QED
      BY <2>3, <2>4
  <1>16. Len(runs) = N /\ DOMAIN runs = 1 .. N
    BY <1>5, <1>6
  <1>17. AreRuns(s, runs, b, e)
    BY <1>5, <1>9, <1>10, <1>11, <1>15, <1>16 DEF AreRuns, L
  <1> QED
    BY <1>17 DEF runs

(* The numbers of one run. *)
RunOf(r) == [k \in 1 .. (r[2] - r[1] + 1) |-> r[1] + k - 1]

(* A function that is what its recursion asks for is what the recursion defines. *)
LEMMA ListOfRuns ==
  ASSUME NEW string, Len(string.ranges) \in Nat,
         \A n \in 1 .. Len(string.ranges) : RunOf(string.ranges[n]) \in Seq(Nat)
  PROVE  \E f \in [0 .. Len(string.ranges) -> Seq(Nat)] :
           /\ XidList(string) = f[Len(string.ranges)]
           /\ f[0] = <<>>
           /\ \A n \in 1 .. Len(string.ranges) : f[n] = f[n - 1] \o RunOf(string.ranges[n])
PROOF
  <1> DEFINE N == Len(string.ranges)
             V == Seq(Nat)
             step == [n \in 1 .. N |-> [t \in V |-> t \o RunOf(string.ranges[n])]]
             Body(g) == [n \in 0 .. N |->
                           IF n = 0 THEN <<>> ELSE g[n - 1] \o RunOf(string.ranges[n])]
             upTo == CHOOSE g : g = Body(g)
  <1>1. XidList(string) = upTo[N]
    BY DEF XidList, RunOf
  <1>2. \A n \in 1 .. N : \A t \in V : t \o RunOf(string.ranges[n]) \in V
    OBVIOUS
  <1>3. \A n \in 1 .. N : \A t \in V : step[n][t] = t \o RunOf(string.ranges[n])
    OBVIOUS
  <1>4. <<>> \in V /\ N \in Nat
    OBVIOUS
  <1> HIDE DEF step, V, N, upTo, Body
  <1>5. PICK f \in [0 .. N -> V] : f[0] = <<>> /\ \A n \in 1 .. N : f[n] = step[n][f[n - 1]]
    <2> DEFINE v == <<>>
    <2>1. v \in V
      BY <1>4
    <2> HIDE DEF v
    <2>2. \E f \in [0 .. N -> V] : f[0] = v /\ \A n \in 1 .. N : f[n] = step[n][f[n - 1]]
      <3>1. \A n \in 1 .. N : \A t \in V : step[n][t] \in V
        BY <1>2, <1>3
      <3>2. N \in Nat
        BY <1>4
      <3> QED
        <4>1. AreSteps(step, N, V, v)
          BY <2>1, <3>1, <3>2 DEF AreSteps
        <4> QED
          BY <4>1, StepByStep
    <2> QED
      BY <2>2 DEF v
  <1>6. \A n \in 1 .. N : f[n] = f[n - 1] \o RunOf(string.ranges[n])
    <2>1. \A n \in 1 .. N : n - 1 \in 0 .. N
      BY <1>4
    <2>2. \A n \in 1 .. N : f[n - 1] \in V
      BY <1>5, <2>1
    <2> QED
      BY <1>3, <1>5, <2>2
  <1>7. f = Body(f)
    <2>1. Body(f) = [n \in 0 .. N |->
                       IF n = 0 THEN <<>> ELSE f[n - 1] \o RunOf(string.ranges[n])]
      BY DEF Body
    <2>2. \A n \in 0 .. N : n = 0 \/ n \in 1 .. N
      BY <1>4
    <2>3. f = [n \in 0 .. N |-> f[n]]
      BY <1>5
    <2>4. \A n \in 0 .. N :
            f[n] = IF n = 0 THEN <<>> ELSE f[n - 1] \o RunOf(string.ranges[n])
      BY <1>5, <1>6, <2>2
    <2> QED
      BY <2>1, <2>3, <2>4
  <1>8. upTo = Body(upTo)
    BY <1>7 DEF upTo
  <1>9. /\ \A n \in 0 .. N : upTo[n] =
             IF n = 0 THEN <<>> ELSE upTo[n - 1] \o RunOf(string.ranges[n])
        /\ DOMAIN upTo = 0 .. N
    BY <1>8 DEF Body
  <1>10. \A n \in Nat : n <= N => upTo[n] = f[n]
    <2> DEFINE S == {n \in Nat : n <= N => upTo[n] = f[n]}
    <2>1. 0 \in S
      <3>1. 0 \in 0 .. N
        BY <1>4
      <3>2. upTo[0] = <<>>
        BY <1>9, <3>1
      <3> QED
        BY <1>5, <3>2
    <2>2. ASSUME NEW n \in Nat, n \in S
          PROVE  n + 1 \in S
      <3> SUFFICES ASSUME n + 1 <= N
                   PROVE  upTo[n + 1] = f[n + 1]
        OBVIOUS
      <3>1. n + 1 \in 0 .. N /\ n + 1 \in 1 .. N /\ n + 1 # 0 /\ (n + 1) - 1 = n
        BY <1>4
      <3>2. upTo[n] = f[n]
        BY <1>4, <2>2
      <3>3. upTo[n + 1] = upTo[n] \o RunOf(string.ranges[n + 1])
        BY <1>9, <3>1
      <3>4. f[n + 1] = f[n] \o RunOf(string.ranges[n + 1])
        BY <1>6, <3>1
      <3> QED
        BY <3>2, <3>3, <3>4
    <2>3. \A n \in Nat : n \in S
      <3> HIDE DEF S
      <3> QED
        BY <2>1, <2>2, SetInduction
    <2> QED
      BY <2>3
  <1>11. XidList(string) = f[N]
    BY <1>1, <1>4, <1>10
  <1> QED
    BY <1>5, <1>6, <1>11 DEF N, V

(* Reading what has been written gives the XIDs back. *)
LEMMA ReadsBack ==
  ASSUME NEW d, d.xids \in Seq(Nat), Len(d.xids) # 0
  PROVE  XidList(StringFromList(d)) = d.xids
PROOF
  <1> DEFINE s == d.xids
             L == Len(s)
             string == StringFromList(d)
             runs == string.ranges
             N == Len(runs)
  <1>1. s \in Seq(Nat) /\ L \in Nat /\ DOMAIN s = 1 .. L /\ \A k \in 1 .. L : s[k] \in Nat
    OBVIOUS
  <1>2. runs = Runs(s)
    BY DEF StringFromList
  <1> HIDE DEF runs, string
  <1>3. PICK b, e : AreRuns(s, runs, b, e)
    BY <1>2, RunsFacts
  <1> HIDE DEF s, L
  <1>4. /\ N \in Nat
        /\ b \in [1 .. N -> 1 .. L] /\ e \in [0 .. N -> 0 .. L]
        /\ e[0] = 0 /\ e[N] = L
        /\ \A n \in 1 .. N :
             /\ b[n] = e[n - 1] + 1 /\ b[n] <= e[n]
             /\ runs[n] = <<s[b[n]], s[e[n]]>>
             /\ \A k \in b[n] .. e[n] : s[k] = s[b[n]] + (k - b[n])
    BY <1>3 DEF AreRuns, L
  <1> HIDE DEF N
  <1>5. ASSUME NEW n \in 1 .. N
        PROVE  /\ e[n] \in Nat /\ e[n - 1] \in Nat /\ e[n - 1] < e[n] /\ e[n] <= L
               /\ RunOf(runs[n]) \in Seq(Nat) /\ Len(RunOf(runs[n])) = e[n] - e[n - 1]
               /\ \A k \in 1 .. (e[n] - e[n - 1]) : RunOf(runs[n])[k] = s[e[n - 1] + k]
    <2>1. b[n] \in 1 .. L /\ e[n] \in 0 .. L /\ e[n - 1] \in 0 .. L
      <3>1. n \in 0 .. N /\ n - 1 \in 0 .. N
        BY <1>4
      <3> QED
        BY <1>4, <3>1
    <2>2. b[n] = e[n - 1] + 1 /\ b[n] <= e[n]
      BY <1>4
    <2>3. /\ e[n] \in Nat /\ e[n - 1] \in Nat /\ e[n - 1] < e[n] /\ e[n] <= L
          /\ b[n] \in Nat /\ s[b[n]] \in Nat
      BY <1>1, <2>1, <2>2
    <2>4. s[e[n]] = s[b[n]] + (e[n] - b[n])
      <3>1. e[n] \in b[n] .. e[n]
        BY <2>2, <2>3
      <3> QED
        BY <1>4, <3>1
    <2> DEFINE m == e[n] - e[n - 1]
    <2>5. m \in Nat /\ s[e[n]] - s[b[n]] + 1 = m
      BY <2>2, <2>3, <2>4
    <2>6. RunOf(runs[n]) = [k \in 1 .. m |-> s[b[n]] + k - 1]
      <3>0. runs[n] = <<s[b[n]], s[e[n]]>>
        BY <1>4
      <3>1. runs[n][1] = s[b[n]] /\ runs[n][2] = s[e[n]]
        BY <3>0
      <3> HIDE DEF m
      <3> QED
        BY <2>5, <3>1 DEF RunOf
    <2>7. ASSUME NEW k \in 1 .. m
          PROVE  s[b[n]] + k - 1 \in Nat /\ s[b[n]] + k - 1 = s[e[n - 1] + k]
      <3>1. k \in Nat /\ k >= 1 /\ k <= m /\ e[n - 1] + k \in b[n] .. e[n]
        BY <2>2, <2>3
      <3>2. s[e[n - 1] + k] = s[b[n]] + ((e[n - 1] + k) - b[n])
        BY <1>4, <3>1
      <3>3. (e[n - 1] + k) - b[n] = k - 1
        BY <2>2, <2>3, <3>1
      <3> HIDE DEF m
      <3>4. s[e[n - 1] + k] = s[b[n]] + (k - 1)
        BY <3>2, <3>3
      <3> QED
        BY <2>3, <3>1, <3>4
    <2> HIDE DEF m
    <2>8. /\ RunOf(runs[n]) \in Seq(Nat) /\ Len(RunOf(runs[n])) = m
          /\ \A k \in 1 .. m : RunOf(runs[n])[k] = s[e[n - 1] + k]
      <3> DEFINE g == [k \in 1 .. m |-> s[b[n]] + k - 1]
      <3>1. \A k \in 1 .. m : g[k] = s[b[n]] + k - 1
        OBVIOUS
      <3>2. g \in [1 .. m -> Nat]
        BY <2>7
      <3> HIDE DEF g
      <3>3. g \in Seq(Nat) /\ Len(g) = m
        BY <2>5, <3>2
      <3>4. \A k \in 1 .. m : g[k] = s[e[n - 1] + k]
        BY <2>7, <3>1
      <3> QED
        BY <2>6, <3>3, <3>4 DEF g
    <2> QED
      BY <2>3, <2>8 DEF m
  <1>6. PICK f \in [0 .. N -> Seq(Nat)] :
          /\ XidList(string) = f[N]
          /\ f[0] = <<>>
          /\ \A n \in 1 .. N : f[n] = f[n - 1] \o RunOf(runs[n])
    <2>1. N = Len(string.ranges) /\ runs = string.ranges
      BY DEF N, runs
    <2> QED
      BY <1>4, <1>5, <2>1, ListOfRuns
  <1> DEFINE Good(n) == Len(f[n]) = e[n] /\ \A k \in 1 .. e[n] : f[n][k] = s[k]
             S == {n \in Nat : n <= N => Good(n)}
  <1>7. 0 \in S
    BY <1>4, <1>6
  <1>8. ASSUME NEW n \in Nat, n \in S
        PROVE  n + 1 \in S
    <2> SUFFICES ASSUME n + 1 <= N
                 PROVE  Good(n + 1)
      OBVIOUS
    <2>1. n + 1 \in 1 .. N /\ (n + 1) - 1 = n /\ n <= N /\ n \in 0 .. N /\ n + 1 \in 0 .. N
      BY <1>4
    <2>2. Len(f[n]) = e[n] /\ \A k \in 1 .. e[n] : f[n][k] = s[k]
      BY <1>8, <2>1
    <2> DEFINE t == RunOf(runs[n + 1])
    <2>3. /\ e[n + 1] \in Nat /\ e[n] \in Nat /\ e[n] < e[n + 1]
          /\ t \in Seq(Nat) /\ Len(t) = e[n + 1] - e[n]
          /\ \A k \in 1 .. (e[n + 1] - e[n]) : t[k] = s[e[n] + k]
      BY <1>5, <2>1
    <2>4. f[n + 1] = f[n] \o t /\ f[n] \in Seq(Nat)
      BY <1>6, <2>1
    <2> HIDE DEF t
    <2>5. /\ Len(f[n] \o t) = e[n + 1]
          /\ \A k \in 1 .. e[n + 1] : (f[n] \o t)[k] = IF k <= e[n] THEN f[n][k] ELSE t[k - e[n]]
      <3>1. /\ Len(f[n] \o t) = Len(f[n]) + Len(t)
            /\ \A k \in 1 .. (Len(f[n]) + Len(t)) :
                 (f[n] \o t)[k] = IF k <= Len(f[n]) THEN f[n][k] ELSE t[k - Len(f[n])]
        BY <2>3, <2>4, ConcatProperties
      <3>2. Len(f[n]) + Len(t) = e[n + 1]
        BY <2>2, <2>3
      <3> QED
        BY <2>2, <3>1, <3>2
    <2>6. ASSUME NEW k \in 1 .. e[n + 1]
          PROVE  (f[n] \o t)[k] = s[k]
      <3>1. CASE k <= e[n]
        <4>1. k \in 1 .. e[n]
          BY <2>3, <3>1
        <4> QED
          BY <2>2, <2>5, <3>1, <4>1
      <3>2. CASE ~(k <= e[n])
        <4>1. k - e[n] \in 1 .. (e[n + 1] - e[n]) /\ e[n] + (k - e[n]) = k
          BY <2>3, <3>2
        <4> QED
          BY <2>3, <2>5, <3>2, <4>1
      <3> QED
        BY <3>1, <3>2
    <2> QED
      BY <2>4, <2>5, <2>6
  <1>9. \A n \in Nat : n \in S
    <2> HIDE DEF S
    <2> QED
      BY <1>7, <1>8, SetInduction
  <1>10. Len(f[N]) = L /\ \A k \in 1 .. L : f[N][k] = s[k]
    BY <1>4, <1>9
  <1>11. f[N] \in Seq(Nat)
    BY <1>4, <1>6
  <1>12. f[N] = s
    BY <1>1, <1>10, <1>11, SeqEqual DEF L
  <1> QED
    BY <1>6, <1>12 DEF string, s

(* The greatest of finitely many numbers. *)
LEMMA MaxFacts ==
  ASSUME NEW S, IsFiniteSet(S), S \subseteq Int, S # {}
  PROVE  Max(S) \in S /\ \A y \in S : y <= Max(S)
PROOF
  <1> DEFINE n == Cardinality(S)
             u == InOrder(S)
  <1>1. /\ n \in Nat /\ \A k \in 1 .. n : u[k] \in S
        /\ \A k, l \in 1 .. n : k < l => u[k] < u[l]
        /\ \A m \in S : \E k \in 1 .. n : u[k] = m
    BY OrderFacts
  <1> HIDE DEF n, u
  <1>2. n \in 1 .. n
    <2>1. PICK m \in S : TRUE
      OBVIOUS
    <2>2. PICK k \in 1 .. n : u[k] = m
      BY <1>1, <2>1
    <2> QED
      BY <1>1, <2>2
  <1>3. ASSUME NEW y \in S
        PROVE  u[n] >= y
    <2>1. PICK k \in 1 .. n : u[k] = y
      BY <1>1
    <2>2. k = n \/ k < n
      BY <1>1
    <2>3. u[n] \in Int /\ y \in Int
      BY <1>1, <1>2
    <2> QED
      BY <1>1, <1>2, <2>1, <2>2, <2>3
  <1>4. \E x \in S : \A y \in S : x >= y
    BY <1>1, <1>2, <1>3
  <1>5. Max(S) \in S /\ \A y \in S : Max(S) >= y
    BY <1>4 DEF Max
  <1> QED
    BY <1>5

(* A map is registered if it has as many XIDs as the document has nodes. *)
LEMMA RegisteredFacts ==
  ASSUME NEW d, IsDoc(d), NEW labels \in Children
  PROVE  LET string == StringFromList(d)
             r == Registered(string, labels)
         IN /\ Registering(string, labels) = "ok" <=> Cardinality(labels) = Cardinality(d.labels)
            /\ Registering(string, labels) \in {"ok", "exception", "undefined"}
            /\ r = [labels |-> labels, xids |-> d.xids, first |-> d.first]
            /\ Cardinality(labels) = Cardinality(d.labels) => IsDoc(r)
            /\ labels = d.labels => r = d
PROOF
  <1> DEFINE string == StringFromList(d)
             r == Registered(string, labels)
             S == {string.first} \cup {x + 1 : x \in Range(XidList(string))}
  <1>1. /\ d = [labels |-> d.labels, xids |-> d.xids, first |-> d.first]
        /\ d.labels \in Children
        /\ d.xids \in Seq(Nat) /\ Len(d.xids) = Cardinality(d.labels) + 1
        /\ d.first \in Nat
        /\ \A k \in DOMAIN d.xids : 0 < d.xids[k] /\ d.xids[k] < d.first
        /\ \A k, l \in DOMAIN d.xids : d.xids[k] = d.xids[l] => k = l
    BY DEF IsDoc
  <1>2. Cardinality(labels) \in Nat /\ Cardinality(d.labels) \in Nat
    BY <1>1, ChildrenFacts
  <1>3. XidList(string) = d.xids
    BY <1>1, <1>2, ReadsBack
  <1>4. string.first = d.first
    BY DEF StringFromList
  <1>5. /\ Registering(string, labels) = "ok" <=> Cardinality(labels) = Cardinality(d.labels)
        /\ Registering(string, labels) \in {"ok", "exception", "undefined"}
    <2>1. Registering(string, labels) =
            IF Len(d.xids) < Cardinality(labels) + 1 THEN "undefined"
            ELSE IF Len(d.xids) > Cardinality(labels) + 1 THEN "exception"
            ELSE "ok"
      BY <1>3 DEF Registering
    <2> QED
      BY <1>1, <1>2, <2>1
  <1>6. r = [labels |-> labels, xids |-> d.xids, first |-> Max(S)]
    BY <1>3 DEF Registered
  <1>7. Max(S) = d.first
    <2>1. S = {d.first} \cup {x + 1 : x \in Range(d.xids)}
      BY <1>3, <1>4
    <2>2. \A x \in Range(d.xids) : x \in Nat /\ x < d.first
      BY <1>1 DEF Range
    <2>3. d.first \in S /\ \A y \in S : y \in Int /\ d.first >= y
      <3>1. \A x \in Range(d.xids) : x + 1 \in Int /\ d.first >= x + 1
        BY <1>1, <2>2
      <3>2. d.first \in Int /\ d.first >= d.first
        BY <1>1
      <3> HIDE DEF S
      <3> QED
        BY <2>1, <3>1, <3>2
    <2> HIDE DEF S
    <2>4. \A z \in S : (\A y \in S : z >= y) => z = d.first
      BY <2>3
    <2> QED
      BY <2>3, <2>4 DEF Max
  <1> HIDE DEF S
  <1>8. r = [labels |-> labels, xids |-> d.xids, first |-> d.first]
    BY <1>6, <1>7
  <1> HIDE DEF r, string
  <1>9. r.labels = labels /\ r.xids = d.xids /\ r.first = d.first
    BY <1>8
  <1>10. r = [labels |-> r.labels, xids |-> r.xids, first |-> r.first]
    BY <1>8
  <1>11. Cardinality(labels) = Cardinality(d.labels) => IsDoc(r)
    BY <1>1, <1>9, <1>10 DEF IsDoc
  <1>12. labels = d.labels => r = d
    BY <1>1, <1>8
  <1> QED
    BY <1>5, <1>8, <1>11, <1>12 DEF r, string

(* The second version: old children keep their XIDs, new ones have new XIDs. *)
LEMMA SecondFacts ==
  ASSUME NEW d, IsDoc(d), NEW labels \in Children
  PROVE  LET e == SecondVersion(d, labels)
         IN /\ IsDoc(e) /\ e.labels = labels /\ RootXid(e) = RootXid(d)
            /\ d.first <= e.first
            /\ \A l \in labels : l \in d.labels => XidOf(e, l) = XidOf(d, l)
            /\ \A l \in labels : l \notin d.labels => d.first <= XidOf(e, l)
            /\ \A l \in labels : l \notin d.labels =>
                 XidOf(e, l) = d.first + Cardinality({m \in labels \ d.labels : m < l})
            /\ e.first = d.first + Cardinality(labels \ d.labels)
PROOF
  <1> DEFINE new == labels \ d.labels
             Xid(l) == IF l \in d.labels THEN XidOf(d, l)
                       ELSE d.first + Cardinality({m \in new : m < l})
             order == InOrder(labels)
             n == Cardinality(labels)
             xids == [k \in 1 .. (n + 1) |-> IF k = n + 1 THEN RootXid(d) ELSE Xid(order[k])]
             e == SecondVersion(d, labels)
  <1>1. /\ IsFiniteSet(labels) /\ labels \subseteq Nat /\ n \in Nat
        /\ d.first \in Nat
    BY ChildrenFacts DEF IsDoc
  <1>2. /\ \A k \in 1 .. n : order[k] \in labels
        /\ order \in Seq(labels) /\ Len(order) = n /\ DOMAIN order = 1 .. n
        /\ \A k, l \in 1 .. n : k < l => order[k] < order[l]
    <2>1. labels \subseteq Int
      BY <1>1
    <2> QED
      BY <1>1, <2>1, OrderFacts
  <1>3. /\ RootXid(d) \in XidsIn(d)
        /\ \A l \in d.labels : XidOf(d, l) \in XidsIn(d) /\ XidOf(d, l) # RootXid(d)
        /\ \A l, m \in d.labels : XidOf(d, l) = XidOf(d, m) => l = m
        /\ \A x \in XidsIn(d) : x \in Nat /\ 0 < x /\ x < d.first
    BY DocFacts
  <1>4. /\ IsFiniteSet(new) /\ Cardinality(new) \in Nat
        /\ \A l \in new : /\ Cardinality({m \in new : m < l}) \in Nat
                          /\ Cardinality({m \in new : m < l}) < Cardinality(new)
        /\ \A l, m \in new : l # m => Cardinality({h \in new : h < l})
                                        # Cardinality({h \in new : h < m})
    <2> DEFINE p == [labels |-> new]
               c(l) == Cardinality({m \in new : m < l})
    <2>1. new \in Children /\ IsFiniteSet(new)
      BY <1>1, FS_Subset, ChildrenFacts DEF Children
    <2>2. /\ \A l \in new : PlaceOf(p, l) \in 1 .. Cardinality(new)
          /\ \A l, m \in new : l < m => PlaceOf(p, l) < PlaceOf(p, m)
      <3>1. p.labels = new
        OBVIOUS
      <3> HIDE DEF p
      <3>2. p.labels \in Children
        BY <2>1, <3>1
      <3> QED
        BY <3>1, <3>2, ChildPlaces
    <2>3. Cardinality(new) \in Nat
      BY <2>1, ChildrenFacts
    <2>4. ASSUME NEW l \in new
          PROVE  c(l) \in Nat /\ PlaceOf(p, l) = c(l) + 1
      <3> DEFINE T == {m \in new : m < l}
      <3>1. T \subseteq new /\ l \notin T
        BY <1>1
      <3>2. {m \in new : m <= l} = T \cup {l}
        <4>1. \A m \in new : m \in Nat
          BY <1>1
        <4> HIDE DEF new
        <4>2. \A m \in new : m <= l <=> m < l \/ m = l
          BY <4>1
        <4> QED
          BY <4>2
      <3>3. PlaceOf(p, l) = Cardinality(T \cup {l})
        BY <3>2 DEF PlaceOf
      <3> HIDE DEF T
      <3>4. IsFiniteSet(T)
        BY <2>1, <3>1, FS_Subset
      <3>5. Cardinality(T) \in Nat /\ Cardinality(T \cup {l}) = Cardinality(T) + 1
        BY <3>1, <3>4, FS_AddElement, FS_CardinalityType
      <3> QED
        BY <3>3, <3>5 DEF T
    <2>5. \A l, m \in new : l # m => l < m \/ m < l
      BY <1>1
    <2> HIDE DEF c, p, new
    <2>6. \A l, m \in new : l # m => c(l) # c(m)
      BY <2>2, <2>4, <2>5
    <2>7. \A l \in new : c(l) \in Nat /\ c(l) < Cardinality(new)
      BY <2>2, <2>3, <2>4
    <2> QED
      BY <2>1, <2>3, <2>6, <2>7 DEF c
  <1>5. /\ \A l \in labels : /\ Xid(l) \in Nat /\ 0 < Xid(l)
                             /\ Xid(l) < d.first + Cardinality(new) /\ Xid(l) # RootXid(d)
        /\ \A l \in labels : l \notin d.labels => d.first <= Xid(l)
    <2> HIDE DEF new
    <2>1. ASSUME NEW l \in labels, l \in d.labels
          PROVE  /\ Xid(l) \in Nat /\ 0 < Xid(l)
                 /\ Xid(l) < d.first + Cardinality(new) /\ Xid(l) # RootXid(d)
      BY <1>1, <1>3, <1>4, <2>1
    <2>2. ASSUME NEW l \in labels, l \notin d.labels
          PROVE  /\ Xid(l) \in Nat /\ 0 < Xid(l) /\ d.first <= Xid(l)
                 /\ Xid(l) < d.first + Cardinality(new) /\ Xid(l) # RootXid(d)
      <3> DEFINE c == Cardinality({m \in new : m < l})
      <3>1. l \in new
        BY <2>2 DEF new
      <3>2. c \in Nat /\ c < Cardinality(new)
        BY <1>4, <3>1
      <3>3. Xid(l) = d.first + c
        BY <2>2
      <3>4. RootXid(d) \in Nat /\ 0 < RootXid(d) /\ RootXid(d) < d.first
        BY <1>3
      <3> HIDE DEF c, Xid
      <3> QED
        BY <1>1, <1>4, <3>2, <3>3, <3>4
    <2> QED
      BY <2>1, <2>2
  <1>6. ASSUME NEW l \in labels, NEW m \in labels, Xid(l) = Xid(m)
        PROVE  l = m
    <2>1. CASE l \in d.labels /\ m \in d.labels
      BY <1>3, <1>6, <2>1
    <2>2. ASSUME NEW a \in labels, NEW b \in labels, a \in d.labels, b \notin d.labels
          PROVE  Xid(a) # Xid(b)
      <3>1. Xid(a) \in Nat /\ Xid(a) < d.first
        BY <1>3, <2>2
      <3>2. d.first <= Xid(b) /\ Xid(b) \in Nat
        BY <1>5, <2>2
      <3> HIDE DEF Xid
      <3> QED
        BY <1>1, <3>1, <3>2
    <2>3. CASE l \notin d.labels /\ m \notin d.labels
      <3> DEFINE c(h) == Cardinality({g \in new : g < h})
      <3>1. l \in new /\ m \in new
        BY <2>3
      <3>2. Xid(l) = d.first + c(l) /\ Xid(m) = d.first + c(m)
        BY <2>3
      <3>3. c(l) \in Nat /\ c(m) \in Nat /\ (l # m => c(l) # c(m))
        BY <1>4, <3>1
      <3> HIDE DEF c, Xid
      <3> QED
        <4>1. d.first + c(l) = d.first + c(m)
          BY <1>6, <3>2
        <4>2. c(l) = c(m)
          BY <1>1, <3>3, <4>1
        <4> QED
          BY <3>3, <4>2
    <2> HIDE DEF Xid
    <2> QED
      BY <1>6, <2>1, <2>2, <2>3
  <1>7. /\ Append([k \in DOMAIN order |-> Xid(order[k])], RootXid(d)) = xids
        /\ xids \in Seq(Nat) /\ Len(xids) = n + 1 /\ DOMAIN xids = 1 .. (n + 1)
    <2> DEFINE t == [k \in DOMAIN order |-> Xid(order[k])]
    <2>0. \A k \in 1 .. n : t[k] = Xid(order[k])
      BY <1>2
    <2>1. \A k \in 1 .. n : Xid(order[k]) \in Nat
      BY <1>2, <1>5
    <2>2. t \in Seq(Nat) /\ Len(t) = n
      <3>1. t \in [1 .. n -> Nat]
        BY <1>2, <2>1
      <3> HIDE DEF t
      <3> QED
        BY <1>1, <3>1
    <2>3. RootXid(d) \in Nat
      BY <1>3
    <2> HIDE DEF t, Xid, order
    <2>4. /\ Append(t, RootXid(d)) \in Seq(Nat) /\ Len(Append(t, RootXid(d))) = n + 1
          /\ \A k \in 1 .. n : Append(t, RootXid(d))[k] = t[k]
          /\ Append(t, RootXid(d))[n + 1] = RootXid(d)
      BY <2>2, <2>3, AppendProperties
    <2>5. Append(t, RootXid(d)) = xids
      <3> DEFINE a == Append(t, RootXid(d))
      <3>0. a \in Seq(Nat) /\ Len(a) = n + 1
        BY <2>4
      <3>1. a = [k \in 1 .. (n + 1) |-> a[k]]
        <4> HIDE DEF a
        <4> QED
          BY <1>1, <3>0
      <3>2. \A k \in 1 .. (n + 1) : k = n + 1 \/ k \in 1 .. n
        BY <1>1
      <3>3. \A k \in 1 .. (n + 1) : a[k] = IF k = n + 1 THEN RootXid(d) ELSE Xid(order[k])
        BY <2>0, <2>4, <3>2
      <3> HIDE DEF a
      <3> QED
        BY <3>1, <3>3 DEF a
    <2>6. DOMAIN xids = 1 .. (n + 1)
      OBVIOUS
    <2> HIDE DEF xids
    <2> QED
      BY <2>4, <2>5, <2>6 DEF t
  <1>8. e = [labels |-> labels, xids |-> xids, first |-> d.first + Cardinality(new)]
    BY <1>7 DEF SecondVersion
  <1>9. /\ \A k \in 1 .. n : xids[k] = Xid(order[k]) /\ k # n + 1
        /\ xids[n + 1] = RootXid(d)
    BY <1>1
  <1> HIDE DEF xids, order, e, Xid, new
  <1>10. /\ e.labels = labels /\ e.xids = xids /\ e.first = d.first + Cardinality(new)
         /\ e = [labels |-> e.labels, xids |-> e.xids, first |-> e.first]
    BY <1>8
  <1>11. \A k \in 1 .. (n + 1) : k = n + 1 \/ k \in 1 .. n
    BY <1>1
  <1>12. ASSUME NEW k \in 1 .. (n + 1)
         PROVE  0 < xids[k] /\ xids[k] < e.first
    <2>1. CASE k = n + 1
      <3>1. RootXid(d) \in Nat /\ 0 < RootXid(d) /\ RootXid(d) < d.first
        BY <1>3
      <3>2. xids[k] = RootXid(d)
        BY <1>9, <2>1
      <3> QED
        BY <1>1, <1>4, <1>10, <3>1, <3>2
    <2>2. CASE k \in 1 .. n
      BY <1>2, <1>5, <1>9, <1>10, <2>2
    <2> QED
      BY <1>11, <2>1, <2>2
  <1>13. ASSUME NEW k \in 1 .. (n + 1), NEW l \in 1 .. (n + 1), xids[k] = xids[l]
         PROVE  k = l
    <2>1. \A i \in 1 .. n : xids[i] # xids[n + 1]
      BY <1>2, <1>5, <1>9
    <2>2. CASE k \in 1 .. n /\ l \in 1 .. n
      <3>1. order[k] = order[l]
        <4>1. xids[k] = Xid(order[k]) /\ xids[l] = Xid(order[l])
          BY <1>9, <2>2
        <4>2. order[k] \in labels /\ order[l] \in labels
          BY <1>2, <2>2
        <4>3. Xid(order[k]) = Xid(order[l])
          BY <1>13, <4>1
        <4> QED
          BY <1>6, <4>2, <4>3
      <3>2. order[k] \in Int
        <4>1. order[k] \in labels
          BY <1>2, <2>2
        <4>2. order[k] \in Nat
          BY <1>1, <4>1
        <4> QED
          BY <4>2
      <3>3. ~(k < l) /\ ~(l < k)
        BY <1>2, <2>2, <3>1, <3>2
      <3> QED
        BY <3>3
    <2> QED
      BY <1>11, <1>13, <2>1, <2>2
  <1>14. IsDoc(e)
    <2>1. /\ e.xids \in Seq(Nat) /\ Len(e.xids) = Cardinality(e.labels) + 1
          /\ DOMAIN e.xids = 1 .. (n + 1)
      BY <1>7, <1>10 DEF n
    <2>2. e.first \in Nat
      BY <1>1, <1>4, <1>10
    <2> QED
      BY <1>10, <1>12, <1>13, <2>1, <2>2 DEF IsDoc
  <1>15. RootXid(e) = RootXid(d)
    BY <1>7, <1>9, <1>10 DEF RootXid, Last
  <1>16. ASSUME NEW l \in labels
         PROVE  XidOf(e, l) = Xid(l)
    <2>1. PlaceOf(e, l) \in 1 .. n /\ order[PlaceOf(e, l)] = l
      BY <1>10, ChildPlaces DEF order, n
    <2> QED
      BY <1>9, <1>10, <2>1 DEF XidOf
  <1>17. d.first <= e.first
    BY <1>1, <1>4, <1>10
  <1>18. \A l \in labels : l \in d.labels => XidOf(e, l) = XidOf(d, l)
    BY <1>16 DEF Xid
  <1>19. \A l \in labels : l \notin d.labels => d.first <= XidOf(e, l)
    BY <1>5, <1>16
  <1>20. \A l \in labels : l \notin d.labels =>
           XidOf(e, l) = d.first + Cardinality({m \in new : m < l})
    BY <1>16 DEF Xid
  <1> QED
    BY <1>10, <1>14, <1>15, <1>17, <1>18, <1>19, <1>20 DEF e, new

-----------------------------------------------------------------------------
(***************************************************************************)
(* Deltas: what is made of the children of the root by applying one.       *)
(***************************************************************************)

(* An element put in at a place moves the ones from there on by one. *)
LEMMA PutIn ==
  ASSUME NEW V, NEW s \in Seq(V), NEW x \in V, NEW p \in 1 .. (Len(s) + 1)
  PROVE  /\ InsertAt(s, p, x) \in Seq(V) /\ Len(InsertAt(s, p, x)) = Len(s) + 1
         /\ \A k \in 1 .. (Len(s) + 1) :
              InsertAt(s, p, x)[k] = IF k < p THEN s[k] ELSE IF k = p THEN x ELSE s[k - 1]
PROOF
  <1> DEFINE L == Len(s)
             a == SubSeq(s, 1, p - 1)
             b == SubSeq(s, p, L)
             m == <<x>>
             t == a \o m
             u == t \o b
  <1>0. L \in Nat /\ p \in Nat /\ 1 <= p /\ p <= L + 1 /\ \A i \in 1 .. L : s[i] \in V
    OBVIOUS
  <1>1. a \in Seq(V) /\ Len(a) = p - 1 /\ \A i \in 1 .. (p - 1) : a[i] = s[i]
    <2>1. 1 \in Int /\ p - 1 \in Int /\ \A i \in 1 .. (p - 1) : s[i] \in V
      BY <1>0
    <2>2. /\ a \in Seq(V) /\ Len(a) = IF 1 <= p - 1 THEN (p - 1) - 1 + 1 ELSE 0
          /\ \A i \in 1 .. ((p - 1) - 1 + 1) : a[i] = s[1 + i - 1]
      BY <2>1, SubSeqProperties
    <2> HIDE DEF a
    <2> QED
      BY <1>0, <2>2
  <1>2. b \in Seq(V) /\ Len(b) = L + 1 - p /\ \A i \in 1 .. (L + 1 - p) : b[i] = s[p + i - 1]
    <2>1. p \in Int /\ L \in Int /\ \A i \in p .. L : s[i] \in V
      BY <1>0
    <2> HIDE DEF L
    <2>2. /\ b \in Seq(V) /\ Len(b) = IF p <= L THEN L - p + 1 ELSE 0
          /\ \A i \in 1 .. (L - p + 1) : b[i] = s[p + i - 1]
      BY <2>1, SubSeqProperties
    <2> HIDE DEF b
    <2>3. L - p + 1 = L + 1 - p /\ (~(p <= L) => L + 1 - p = 0)
      BY <1>0
    <2> QED
      BY <1>0, <2>2, <2>3
  <1>3. m \in Seq(V) /\ Len(m) = 1 /\ m[1] = x
    OBVIOUS
  <1> HIDE DEF a, b, m, L
  <1>4. t \in Seq(V) /\ Len(t) = p /\ \A k \in 1 .. p : t[k] = IF k < p THEN s[k] ELSE x
    <2>1. /\ t \in Seq(V) /\ Len(t) = Len(a) + Len(m)
          /\ \A i \in 1 .. (Len(a) + Len(m)) :
               t[i] = IF i <= Len(a) THEN a[i] ELSE m[i - Len(a)]
      BY <1>1, <1>3, ConcatProperties
    <2> HIDE DEF t
    <2>2. Len(a) + Len(m) = p
      BY <1>0, <1>1, <1>3
    <2>3. ASSUME NEW k \in 1 .. p
          PROVE  t[k] = IF k < p THEN s[k] ELSE x
      <3>1. t[k] = IF k <= Len(a) THEN a[k] ELSE m[k - Len(a)]
        BY <2>1, <2>2
      <3>2. CASE k < p
        BY <1>0, <1>1, <3>1, <3>2
      <3>3. CASE ~(k < p)
        <4>1. k = p /\ ~(k <= Len(a)) /\ k - Len(a) = 1
          BY <1>0, <1>1, <3>3
        <4> QED
          BY <1>3, <3>1, <3>3, <4>1
      <3> QED
        BY <3>2, <3>3
    <2> QED
      BY <2>1, <2>2, <2>3
  <1> HIDE DEF t
  <1>5. /\ u \in Seq(V) /\ Len(u) = L + 1
        /\ \A k \in 1 .. (L + 1) : u[k] = IF k <= p THEN t[k] ELSE b[k - p]
    <2>1. /\ u \in Seq(V) /\ Len(u) = Len(t) + Len(b)
          /\ \A i \in 1 .. (Len(t) + Len(b)) :
               u[i] = IF i <= Len(t) THEN t[i] ELSE b[i - Len(t)]
      BY <1>2, <1>4, ConcatProperties
    <2>2. Len(t) + Len(b) = L + 1
      BY <1>0, <1>2, <1>4
    <2> QED
      BY <1>4, <2>1, <2>2
  <1>6. ASSUME NEW k \in 1 .. (L + 1)
        PROVE  u[k] = IF k < p THEN s[k] ELSE IF k = p THEN x ELSE s[k - 1]
    <2> HIDE DEF u
    <2>1. u[k] = IF k <= p THEN t[k] ELSE b[k - p]
      BY <1>5
    <2>2. CASE k <= p
      <3>1. k \in 1 .. p
        BY <1>0, <2>2
      <3> QED
        BY <1>0, <1>4, <2>1, <2>2, <3>1
    <2>3. CASE ~(k <= p)
      <3>1. k - p \in 1 .. (L + 1 - p) /\ p + (k - p) - 1 = k - 1 /\ ~(k < p) /\ k # p
        BY <1>0, <2>3
      <3>2. b[k - p] = s[p + (k - p) - 1]
        BY <1>2, <3>1
      <3> QED
        BY <2>1, <2>3, <3>1, <3>2
    <2> QED
      BY <2>2, <2>3
  <1>7. InsertAt(s, p, x) = u
    BY DEF InsertAt, u, t, a, b, m, L
  <1> HIDE DEF u
  <1> QED
    BY <1>5, <1>6, <1>7 DEF L

(* A delta one could find in a file: positive numbers, no XID twice. *)
Op == [xid : Nat \ {0}, label : Label, pos : Nat \ {0}]

(* A delta: what is gone, and the new children with XIDs and places from 1 on. *)
IsDelta(delta) ==
  /\ delta = [par |-> delta.par, gone |-> delta.gone, new |-> delta.new]
  /\ delta.par \in Nat /\ delta.gone \subseteq Nat
  /\ delta.new \in Seq(Op)
  /\ \A k, l \in DOMAIN delta.new : delta.new[k].xid = delta.new[l].xid => k = l

(* What is between two documents: the new children with their XIDs. *)
Brings(delta, d, e) ==
  /\ Len(delta.new) = Cardinality(e.labels \ d.labels)
  /\ \A k \in DOMAIN delta.new :
       /\ delta.new[k].label \in e.labels \ d.labels
       /\ delta.new[k].xid = XidOf(e, delta.new[k].label)
       /\ delta.new[k].pos = PlaceOf(e, delta.new[k].label)
       /\ delta.new[k].label = InOrder(e.labels \ d.labels)[k]

(* The delta between two documents is one, and brings what the second has more. *)
LEMMA DeltaFacts ==
  ASSUME NEW d, IsDoc(d), NEW e, IsDoc(e)
  PROVE  IsDelta(DeltaBetween(d, e)) /\ Brings(DeltaBetween(d, e), d, e)
PROOF
  <1> DEFINE S == e.labels \ d.labels
             order == InOrder(S)
             n == Cardinality(S)
             new == [k \in 1 .. n |-> [xid |-> XidOf(e, order[k]), label |-> order[k],
                                       pos |-> PlaceOf(e, order[k])]]
             delta == DeltaBetween(d, e)
  <1>1. IsFiniteSet(S) /\ S \subseteq Nat /\ S \subseteq Label /\ S \subseteq e.labels
    <2>1. e.labels \in Children
      BY DEF IsDoc
    <2> QED
      BY <2>1, ChildrenFacts, FS_Subset
  <1> HIDE DEF S
  <1>2. /\ n \in Nat /\ DOMAIN order = 1 .. n
        /\ \A k \in 1 .. n : order[k] \in S
        /\ \A k, l \in 1 .. n : k < l => order[k] < order[l]
    <2>1. S \subseteq Int
      BY <1>1
    <2> QED
      BY <1>1, <2>1, OrderFacts
  <1>3. delta = [par |-> RootXid(d), gone |-> XidsIn(d) \ XidsIn(e), new |-> new]
    BY <1>2 DEF DeltaBetween, S
  <1> HIDE DEF order, n
  <1>4. \A k \in 1 .. n : /\ new[k].xid = XidOf(e, order[k]) /\ new[k].label = order[k]
                          /\ new[k].pos = PlaceOf(e, order[k])
    OBVIOUS
  <1>5. ASSUME NEW l \in S
        PROVE  XidOf(e, l) \in Nat \ {0} /\ PlaceOf(e, l) \in Nat \ {0}
    <2>1. l \in e.labels /\ Cardinality(e.labels) \in Nat
      BY <1>1, DocFacts
    <2>2. XidOf(e, l) \in XidsIn(e) /\ PlaceOf(e, l) \in 1 .. Cardinality(e.labels)
      BY <2>1, DocFacts
    <2>3. XidOf(e, l) \in Nat /\ 0 < XidOf(e, l)
      BY <2>2, DocFacts
    <2> QED
      BY <2>1, <2>2, <2>3
  <1>6. new \in Seq(Op) /\ Len(new) = n /\ DOMAIN new = 1 .. n
    <2>1. \A k \in 1 .. n : new[k] \in Op
      BY <1>1, <1>2, <1>5 DEF Op
    <2> HIDE DEF Op
    <2>2. DOMAIN new = 1 .. n /\ new = [k \in 1 .. n |-> new[k]]
      OBVIOUS
    <2> HIDE DEF new
    <2> QED
      BY <1>2, <2>1, <2>2
  <1> HIDE DEF new, delta
  <1>7. \A l, m \in S : XidOf(e, l) = XidOf(e, m) => l = m
    BY <1>1, DocFacts
  <1>8. ASSUME NEW k \in 1 .. n, NEW l \in 1 .. n, new[k].xid = new[l].xid
        PROVE  k = l
    <2>1. order[k] \in S /\ order[l] \in S /\ XidOf(e, order[k]) = XidOf(e, order[l])
      BY <1>2, <1>4, <1>8
    <2>2. order[k] = order[l] /\ order[k] \in Nat
      BY <1>1, <1>7, <2>1
    <2>3. ~(k < l) /\ ~(l < k)
      BY <1>2, <2>2
    <2> QED
      BY <1>2, <2>3
  <1>9. delta.new = new /\ delta.par = RootXid(d) /\ delta.gone = XidsIn(d) \ XidsIn(e)
        /\ delta = [par |-> delta.par, gone |-> delta.gone, new |-> delta.new]
    BY <1>3
  <1>10. RootXid(d) \in Nat /\ XidsIn(d) \subseteq Nat
    BY DocFacts
  <1>11. IsDelta(delta)
    BY <1>6, <1>8, <1>9, <1>10 DEF IsDelta
  <1>12. \A k \in DOMAIN new : /\ new[k].label \in S /\ new[k].xid = XidOf(e, new[k].label)
                               /\ new[k].pos = PlaceOf(e, new[k].label)
                               /\ new[k].label = order[k]
    BY <1>2, <1>4, <1>6
  <1>13. Len(delta.new) = Cardinality(S) /\ DOMAIN delta.new = DOMAIN new
    BY <1>6, <1>9 DEF n
  <1>14. Brings(delta, d, e)
    BY <1>9, <1>12, <1>13 DEF Brings, S, order
  <1> QED
    BY <1>11, <1>14 DEF delta

(* A child on its way from one version to the next. *)
Kid == [xid : Nat \ {0}, label : Label]

(* The labels of the children that a delta leaves. *)
KeptOf(d, delta) == {l \in d.labels : XidOf(d, l) \notin delta.gone}

(* The children that stay are children with their XIDs. *)
LEMMA SparedFacts ==
  ASSUME NEW d, IsDoc(d), NEW delta
  PROVE  LET spared == Spared(d, delta)
         IN /\ spared \in Seq(Kid) /\ Len(spared) = Cardinality(KeptOf(d, delta))
            /\ \A k \in DOMAIN spared :
                 /\ spared[k].label \in KeptOf(d, delta)
                 /\ spared[k].xid = XidOf(d, spared[k].label)
                 /\ spared[k].label = InOrder(KeptOf(d, delta))[k]
            /\ \A k, l \in DOMAIN spared : k < l => spared[k].label < spared[l].label
PROOF
  <1> DEFINE S == KeptOf(d, delta)
             order == InOrder(S)
             n == Cardinality(S)
             kid(l) == [xid |-> XidOf(d, l), label |-> l]
             spared == [k \in 1 .. n |-> kid(order[k])]
  <1>1. IsFiniteSet(S) /\ S \subseteq Nat /\ S \subseteq Label /\ S \subseteq d.labels
    <2>1. d.labels \in Children /\ S \subseteq d.labels
      BY DEF IsDoc, KeptOf
    <2> HIDE DEF S
    <2> QED
      BY <2>1, ChildrenFacts, FS_Subset
  <1>2. S = {l \in d.labels : XidOf(d, l) \notin delta.gone}
    BY DEF KeptOf
  <1> HIDE DEF S
  <1>3. /\ n \in Nat /\ DOMAIN order = 1 .. n
        /\ \A k \in 1 .. n : order[k] \in S
        /\ \A k, l \in 1 .. n : k < l => order[k] < order[l]
    <2>1. S \subseteq Int
      BY <1>1
    <2> QED
      BY <1>1, <2>1, OrderFacts
  <1>4. Spared(d, delta) = spared
    BY <1>2, <1>3 DEF Spared
  <1> HIDE DEF order, n
  <1>5. /\ DOMAIN spared = 1 .. n
        /\ \A k \in 1 .. n : spared[k].xid = XidOf(d, order[k]) /\ spared[k].label = order[k]
    OBVIOUS
  <1>6. \A l \in S : kid(l) \in Kid
    <2>1. ASSUME NEW l \in S
          PROVE  XidOf(d, l) \in Nat \ {0}
      <3>1. XidOf(d, l) \in XidsIn(d)
        BY <1>1, DocFacts
      <3>2. XidOf(d, l) \in Nat /\ 0 < XidOf(d, l)
        BY <3>1, DocFacts
      <3> QED
        BY <3>2
    <2> QED
      BY <1>1, <2>1 DEF Kid
  <1>7. spared \in Seq(Kid) /\ Len(spared) = n
    <2>1. \A k \in 1 .. n : spared[k] \in Kid
      BY <1>3, <1>6
    <2>2. spared = [k \in 1 .. n |-> spared[k]]
      OBVIOUS
    <2> HIDE DEF spared
    <2> QED
      BY <1>3, <2>1, <2>2
  <1> HIDE DEF spared
  <1> QED
    BY <1>3, <1>4, <1>5, <1>7 DEF S, n, order

(* The child that an insertion brings. *)
KidOf(op) == [xid |-> op.xid, label |-> op.label]

(* The children after each of the insertions. *)
InsertedBy(f, d, delta) ==
  /\ Inserted(d, delta) = f[Len(delta.new)]
  /\ f[0] = Spared(d, delta)
  /\ \A n \in 1 .. Len(delta.new) :
       delta.new[n].pos <= Len(f[n - 1]) + 1 =>
         f[n] = InsertAt(f[n - 1], delta.new[n].pos, KidOf(delta.new[n]))

(* The new nodes are put in one after the other. *)
LEMMA InsertedSteps ==
  ASSUME NEW d, IsDoc(d), NEW delta, IsDelta(delta)
  PROVE  \E f \in [0 .. Len(delta.new) -> Seq(Kid)] : InsertedBy(f, d, delta)
PROOF
  <1> DEFINE new == delta.new
             N == Len(new)
             V == Seq(Kid)
             v == Spared(d, delta)
             Put(t, n) == IF new[n].pos > Len(t) + 1 THEN <<>>
                          ELSE InsertAt(t, new[n].pos, KidOf(new[n]))
             step == [n \in 1 .. N |-> [t \in V |-> Put(t, n)]]
             Body(g) == [n \in 0 .. N |-> IF n = 0 THEN v ELSE Put(g[n - 1], n)]
             after == CHOOSE g : g = Body(g)
  <1>1. Inserted(d, delta) = after[N]
    BY DEF Inserted, KidOf
  <1>2. N \in Nat /\ v \in V /\ \A n \in 1 .. N : new[n] \in Op
    BY SparedFacts DEF IsDelta
  <1>3. ASSUME NEW n \in 1 .. N, NEW t \in V
        PROVE  Put(t, n) \in V
    <2> DEFINE x == KidOf(new[n])
               p == new[n].pos
    <2>1. x \in Kid /\ p \in Nat /\ p # 0
      BY <1>2 DEF Op, Kid, KidOf
    <2> HIDE DEF x, p
    <2>2. CASE p > Len(t) + 1
      BY <2>2 DEF p
    <2>3. CASE ~(p > Len(t) + 1)
      <3>1. p \in 1 .. (Len(t) + 1)
        BY <2>1, <2>3
      <3>2. InsertAt(t, p, x) \in Seq(Kid)
        BY <2>1, <3>1, PutIn
      <3> QED
        BY <2>3, <3>2 DEF x, p
    <2> QED
      BY <2>2, <2>3
  <1> HIDE DEF V, v, Put, after, Body
  <1>4. \A n \in 1 .. N : \A t \in V : step[n][t] = Put(t, n)
    OBVIOUS
  <1> HIDE DEF step, N
  <1>5. PICK f \in [0 .. N -> V] : f[0] = v /\ \A n \in 1 .. N : f[n] = step[n][f[n - 1]]
    <2>1. AreSteps(step, N, V, v)
      BY <1>2, <1>3, <1>4 DEF AreSteps
    <2> QED
      BY <2>1, StepByStep
  <1>6. \A n \in 1 .. N : f[n] = Put(f[n - 1], n)
    <2>1. \A n \in 1 .. N : n - 1 \in 0 .. N
      BY <1>2
    <2>2. \A n \in 1 .. N : f[n - 1] \in V
      BY <1>5, <2>1
    <2> QED
      BY <1>4, <1>5, <2>2
  <1>7. f = Body(f)
    <2>1. Body(f) = [n \in 0 .. N |-> IF n = 0 THEN v ELSE Put(f[n - 1], n)]
      BY DEF Body
    <2>2. \A n \in 0 .. N : n = 0 \/ n \in 1 .. N
      BY <1>2
    <2>3. f = [n \in 0 .. N |-> f[n]]
      BY <1>5
    <2>4. \A n \in 0 .. N : f[n] = IF n = 0 THEN v ELSE Put(f[n - 1], n)
      BY <1>5, <1>6, <2>2
    <2> QED
      BY <2>1, <2>3, <2>4
  <1>8. after = Body(after)
    BY <1>7 DEF after
  <1>9. \A n \in 0 .. N : after[n] = IF n = 0 THEN v ELSE Put(after[n - 1], n)
    BY <1>8 DEF Body
  <1>10. \A n \in Nat : n <= N => after[n] = f[n]
    <2> DEFINE S == {n \in Nat : n <= N => after[n] = f[n]}
    <2>1. 0 \in S
      <3>1. 0 \in 0 .. N
        BY <1>2
      <3>2. after[0] = v
        BY <1>9, <3>1
      <3> QED
        BY <1>5, <3>2
    <2>2. ASSUME NEW n \in Nat, n \in S
          PROVE  n + 1 \in S
      <3> SUFFICES ASSUME n + 1 <= N
                   PROVE  after[n + 1] = f[n + 1]
        OBVIOUS
      <3>1. n + 1 \in 0 .. N /\ n + 1 \in 1 .. N /\ n + 1 # 0 /\ (n + 1) - 1 = n
        BY <1>2
      <3>2. after[n] = f[n]
        BY <1>2, <2>2
      <3>3. after[n + 1] = Put(after[n], n + 1)
        BY <1>9, <3>1
      <3>4. f[n + 1] = Put(f[n], n + 1)
        BY <1>6, <3>1
      <3> QED
        BY <3>2, <3>3, <3>4
    <2>3. \A n \in Nat : n \in S
      <3> HIDE DEF S
      <3> QED
        BY <2>1, <2>2, SetInduction
    <2> QED
      BY <2>3
  <1>11. Inserted(d, delta) = f[N]
    BY <1>1, <1>2, <1>10
  <1>12. ASSUME NEW n \in 1 .. N, new[n].pos <= Len(f[n - 1]) + 1
         PROVE  f[n] = InsertAt(f[n - 1], new[n].pos, KidOf(new[n]))
    <2>1. f[n - 1] \in Seq(Kid)
      <3>1. n - 1 \in 0 .. N
        BY <1>2
      <3> QED
        BY <1>5, <3>1 DEF V
    <2>2. Len(f[n - 1]) \in Nat /\ new[n].pos \in Nat
      BY <1>2, <2>1 DEF Op
    <2>3. ~(new[n].pos > Len(f[n - 1]) + 1)
      BY <1>12, <2>2
    <2> QED
      BY <1>6, <2>3 DEF Put
  <1> QED
    BY <1>5, <1>11, <1>12 DEF N, V, v, InsertedBy

(* Where the n-th children of a document being patched come from. *)
ComeFrom(kids, spared, new, n) ==
  /\ kids \in Seq(Kid) /\ Len(kids) = Len(spared) + n
  /\ \A k \in DOMAIN kids :
       \/ \E j \in DOMAIN spared : kids[k] = spared[j]
       \/ \E m \in 1 .. n : kids[k] = KidOf(new[m])
  /\ \A k, l \in DOMAIN kids : kids[k].xid = kids[l].xid => k = l

(* One more node, with an XID of its own. *)
LEMMA OneMoreKid ==
  ASSUME NEW spared, NEW new \in Seq(Op), NEW n \in Nat, n + 1 <= Len(new),
         NEW kids, ComeFrom(kids, spared, new, n), Len(spared) \in Nat,
         new[n + 1].pos <= Len(spared) + (n + 1),
         \A j \in DOMAIN spared : spared[j].xid # new[n + 1].xid,
         \A m \in 1 .. n : new[m].xid # new[n + 1].xid
  PROVE  ComeFrom(InsertAt(kids, new[n + 1].pos, KidOf(new[n + 1])), spared, new, n + 1)
PROOF
  <1> DEFINE p == new[n + 1].pos
             x == KidOf(new[n + 1])
             L == Len(kids)
             u == InsertAt(kids, p, x)
  <1>1. /\ kids \in Seq(Kid) /\ L = Len(spared) + n
        /\ \A k \in 1 .. L : \/ \E j \in DOMAIN spared : kids[k] = spared[j]
                             \/ \E m \in 1 .. n : kids[k] = KidOf(new[m])
        /\ \A k, l \in 1 .. L : kids[k].xid = kids[l].xid => k = l
    <2>1. kids \in Seq(Kid) /\ L = Len(spared) + n
      BY DEF ComeFrom
    <2>2. DOMAIN kids = 1 .. L
      BY <2>1
    <2> HIDE DEF L
    <2> QED
      BY <2>1, <2>2 DEF ComeFrom
  <1>2. new[n + 1] \in Op
    <2>1. n + 1 \in 1 .. Len(new)
      OBVIOUS
    <2> QED
      BY <2>1
  <1>3. x \in Kid /\ x.xid = new[n + 1].xid /\ p \in 1 .. (L + 1) /\ L \in Nat
    BY <1>1, <1>2 DEF Op, Kid, KidOf
  <1>4. /\ u \in Seq(Kid) /\ Len(u) = L + 1
        /\ \A k \in 1 .. (L + 1) :
             u[k] = IF k < p THEN kids[k] ELSE IF k = p THEN x ELSE kids[k - 1]
    <2>1. kids \in Seq(Kid) /\ x \in Kid /\ p \in 1 .. (Len(kids) + 1)
      BY <1>1, <1>3
    <2> HIDE DEF x, p
    <2>2. /\ InsertAt(kids, p, x) \in Seq(Kid) /\ Len(InsertAt(kids, p, x)) = Len(kids) + 1
          /\ \A k \in 1 .. (Len(kids) + 1) :
               InsertAt(kids, p, x)[k] = IF k < p THEN kids[k]
                                         ELSE IF k = p THEN x ELSE kids[k - 1]
      <3> HIDE DEF Kid
      <3> QED
        BY <2>1, PutIn
    <2> QED
      BY <2>2
  <1> DEFINE old(k) == IF k < p THEN k ELSE k - 1
  <1>5. ASSUME NEW k \in 1 .. (L + 1)
        PROVE  \/ k = p /\ u[k] = x
               \/ k # p /\ old(k) \in 1 .. L /\ u[k] = kids[old(k)]
    <2> HIDE DEF x, p, u, L
    <2>1. CASE k < p
      BY <1>3, <1>4, <2>1
    <2>2. CASE k = p
      BY <1>3, <1>4, <2>2
    <2>3. CASE k > p
      <3>1. k - 1 \in 1 .. L /\ ~(k < p) /\ k # p
        BY <1>3, <2>3
      <3> QED
        BY <1>4, <3>1
    <2> QED
      BY <1>3, <2>1, <2>2, <2>3
  <1>6. \A k \in 1 .. L : kids[k].xid # x.xid
    <2>1. \A m \in 1 .. n : KidOf(new[m]).xid = new[m].xid
      BY DEF KidOf
    <2> HIDE DEF x, L
    <2> QED
      BY <1>1, <1>3, <2>1
  <1>7. \A k, l \in 1 .. (L + 1) : k # p /\ l # p /\ old(k) = old(l) => k = l
    <2>1. p \in Int /\ L \in Int
      BY <1>3
    <2> HIDE DEF p, L
    <2> QED
      BY <2>1
  <1> HIDE DEF u, old, x, p
  <1>8. ASSUME NEW k \in 1 .. (L + 1), NEW l \in 1 .. (L + 1), u[k].xid = u[l].xid
        PROVE  k = l
    <2> HIDE DEF L
    <2>1. CASE k = p /\ l = p
      BY <2>1
    <2>2. CASE k = p /\ l # p
      BY <1>5, <1>6, <1>8, <2>2
    <2>3. CASE k # p /\ l = p
      BY <1>5, <1>6, <1>8, <2>3
    <2>4. CASE k # p /\ l # p
      <3>1. /\ old(k) \in 1 .. L /\ u[k] = kids[old(k)]
            /\ old(l) \in 1 .. L /\ u[l] = kids[old(l)]
        BY <1>5, <2>4
      <3>2. old(k) = old(l)
        BY <1>1, <1>8, <3>1
      <3> QED
        BY <1>7, <2>4, <3>2
    <2> QED
      BY <2>1, <2>2, <2>3, <2>4
  <1>9. ASSUME NEW k \in 1 .. (L + 1)
        PROVE  \/ \E j \in DOMAIN spared : u[k] = spared[j]
               \/ \E m \in 1 .. (n + 1) : u[k] = KidOf(new[m])
    <2>1. CASE k = p
      <3>1. n + 1 \in 1 .. (n + 1) /\ u[k] = KidOf(new[n + 1])
        BY <1>5, <2>1 DEF x
      <3> QED
        BY <3>1
    <2>2. CASE k # p
      <3>1. old(k) \in 1 .. L /\ u[k] = kids[old(k)]
        BY <1>5, <2>2
      <3>2. \A m \in 1 .. n : m \in 1 .. (n + 1)
        OBVIOUS
      <3> HIDE DEF L
      <3> QED
        BY <1>1, <3>1, <3>2
    <2> QED
      BY <2>1, <2>2
  <1>10. Len(u) = Len(spared) + (n + 1) /\ DOMAIN u = 1 .. (L + 1)
    BY <1>1, <1>3, <1>4
  <1> HIDE DEF L
  <1>11. ComeFrom(u, spared, new, n + 1)
    BY <1>4, <1>8, <1>9, <1>10 DEF ComeFrom
  <1> QED
    BY <1>11 DEF u, p, x

(* If no operation fails, every new node is a child in the end. *)
LEMMA InsertedFacts ==
  ASSUME NEW d, IsDoc(d), NEW delta, IsDelta(delta), ~InsertFails(d, delta)
  PROVE  ComeFrom(Inserted(d, delta), Spared(d, delta), delta.new, Len(delta.new))
PROOF
  <1> DEFINE new == delta.new
             N == Len(new)
             spared == Spared(d, delta)
  <1>1. /\ new \in Seq(Op) /\ N \in Nat /\ DOMAIN new = 1 .. N
        /\ \A n \in 1 .. N : new[n] \in Op
        /\ \A k, l \in 1 .. N : new[k].xid = new[l].xid => k = l
    BY DEF IsDelta
  <1>2. /\ spared \in Seq(Kid) /\ Len(spared) \in Nat /\ DOMAIN spared = 1 .. Len(spared)
        /\ \A k \in DOMAIN spared : spared[k].label \in d.labels
                                    /\ spared[k].xid = XidOf(d, spared[k].label)
        /\ \A k, l \in DOMAIN spared : k < l => spared[k].label < spared[l].label
    <2>1. KeptOf(d, delta) \subseteq d.labels
      BY DEF KeptOf
    <2>2. /\ spared \in Seq(Kid)
          /\ \A k \in DOMAIN spared : spared[k].label \in KeptOf(d, delta)
                                      /\ spared[k].xid = XidOf(d, spared[k].label)
          /\ \A k, l \in DOMAIN spared : k < l => spared[k].label < spared[l].label
      BY SparedFacts
    <2> HIDE DEF spared
    <2> QED
      BY <2>1, <2>2
  <1>3. /\ \A n \in DOMAIN new : ~(new[n].pos > Len(spared) + n)
        /\ \A n \in DOMAIN new : \A j \in DOMAIN spared : spared[j].xid # new[n].xid
    BY DEF InsertFails
  <1>4. PICK f \in [0 .. N -> Seq(Kid)] :
          /\ Inserted(d, delta) = f[N]
          /\ f[0] = spared
          /\ \A n \in 1 .. N :
               new[n].pos <= Len(f[n - 1]) + 1 =>
                 f[n] = InsertAt(f[n - 1], new[n].pos, KidOf(new[n]))
    BY InsertedSteps DEF InsertedBy
  <1> HIDE DEF spared, new, N
  <1> DEFINE S == {n \in Nat : n <= N => ComeFrom(f[n], spared, new, n)}
  <1>5. 0 \in S
    <2>1. ASSUME NEW k \in DOMAIN spared, NEW l \in DOMAIN spared, spared[k].xid = spared[l].xid
          PROVE  k = l
      <3>1. spared[k].label = spared[l].label
        BY <1>2, <2>1, DocFacts
      <3>2. spared[k].label \in Nat
        <4>1. d.labels \in Children
          BY DEF IsDoc
        <4>2. spared[k].label \in d.labels
          BY <1>2
        <4> QED
          BY <4>1, <4>2, ChildrenFacts
      <3>3. ~(k < l) /\ ~(l < k)
        BY <1>2, <3>1, <3>2
      <3> QED
        BY <1>2, <3>3
    <2>2. Len(spared) = Len(spared) + 0
      BY <1>2
    <2>3. ComeFrom(spared, spared, new, 0)
      BY <1>2, <2>1, <2>2 DEF ComeFrom
    <2> HIDE DEF ComeFrom
    <2> QED
      BY <1>4, <2>3
  <1>6. ASSUME NEW n \in Nat, n \in S
        PROVE  n + 1 \in S
    <2> SUFFICES ASSUME n + 1 <= N
                 PROVE  ComeFrom(f[n + 1], spared, new, n + 1)
      OBVIOUS
    <2>1. n + 1 \in 1 .. N /\ (n + 1) - 1 = n /\ n <= N /\ \A m \in 1 .. n : m \in 1 .. N
      BY <1>1
    <2>2. ComeFrom(f[n], spared, new, n)
      BY <1>6, <2>1
    <2>3. new[n + 1] \in Op /\ new[n + 1].pos \in Nat
      BY <1>1, <2>1 DEF Op
    <2>4. new[n + 1].pos <= Len(spared) + (n + 1)
      <3>1. ~(new[n + 1].pos > Len(spared) + (n + 1))
        BY <1>1, <1>3, <2>1
      <3> QED
        BY <1>2, <2>3, <3>1
    <2>5. Len(f[n]) = Len(spared) + n
      BY <2>2 DEF ComeFrom
    <2>6. f[n + 1] = InsertAt(f[n], new[n + 1].pos, KidOf(new[n + 1]))
      <3>1. new[n + 1].pos <= Len(f[n]) + 1
        BY <1>2, <2>3, <2>4, <2>5
      <3> QED
        BY <1>4, <2>1, <3>1
    <2>7. \A m \in 1 .. n : new[m].xid # new[n + 1].xid
      <3>1. \A m \in 1 .. n : m # n + 1
        OBVIOUS
      <3> QED
        BY <1>1, <2>1, <3>1
    <2>8. \A j \in DOMAIN spared : spared[j].xid # new[n + 1].xid
      BY <1>1, <1>3, <2>1
    <2>9. n + 1 <= Len(new)
      BY DEF N
    <2>10. ComeFrom(InsertAt(f[n], new[n + 1].pos, KidOf(new[n + 1])), spared, new, n + 1)
      <3>1. new \in Seq(Op) /\ Len(spared) \in Nat
        BY <1>1, <1>2
      <3> QED
        BY <2>2, <2>4, <2>7, <2>8, <2>9, <3>1, OneMoreKid
    <2> QED
      BY <2>6, <2>10
  <1>7. \A n \in Nat : n \in S
    <2> HIDE DEF S
    <2> QED
      BY <1>5, <1>6, SetInduction
  <1>8. ComeFrom(f[N], spared, new, N)
    BY <1>1, <1>7
  <1> QED
    BY <1>4, <1>8 DEF spared, new, N

(* Children on their way from one version to the next: numbers in both fields. *)
LEMMA KidsFacts ==
  ASSUME NEW kids \in Seq(Kid)
  PROVE  /\ Len(kids) \in Nat /\ DOMAIN kids = 1 .. Len(kids)
         /\ \A k \in 1 .. Len(kids) :
              /\ kids[k].xid \in Nat /\ 0 < kids[k].xid
              /\ kids[k].label \in Label /\ kids[k].label \in Nat
PROOF
  <1>1. Len(kids) \in Nat /\ DOMAIN kids = 1 .. Len(kids)
    OBVIOUS
  <1>2. ASSUME NEW k \in 1 .. Len(kids)
        PROVE  /\ kids[k].xid \in Nat /\ 0 < kids[k].xid
               /\ kids[k].label \in Label /\ kids[k].label \in Nat
    <2>1. kids[k] \in Kid
      OBVIOUS
    <2>2. kids[k].xid \in Nat \ {0} /\ kids[k].label \in Label
      BY <2>1 DEF Kid
    <2>3. \A l \in Label : l \in Nat
      BY FilesAssumption DEF FilesAssumption
    <2> QED
      BY <2>2, <2>3
  <1> QED
    BY <1>1, <1>2

(* Labels that rise from each child to the next rise altogether. *)
LEMMA RisingLabels ==
  ASSUME NEW kids \in Seq(Kid),
         \A k \in 1 .. (Len(kids) - 1) : kids[k].label < kids[k + 1].label
  PROVE  \A k, l \in 1 .. Len(kids) : k < l => kids[k].label < kids[l].label
PROOF
  <1> DEFINE L == Len(kids)
             lab(k) == kids[k].label
  <1>1. L \in Nat /\ \A k \in 1 .. L : lab(k) \in Nat
    BY KidsFacts
  <1>2. \A k \in 1 .. (L - 1) : lab(k) < lab(k + 1)
    OBVIOUS
  <1> HIDE DEF L, lab
  <1> SUFFICES \A k, l \in 1 .. L : k < l => lab(k) < lab(l)
    BY DEF L, lab
  <1> TAKE k \in 1 .. L
  <1> DEFINE S == {j \in Nat : k + j + 1 <= L => lab(k) < lab(k + j + 1)}
  <1>3. 0 \in S
    <2> SUFFICES ASSUME k + 0 + 1 <= L PROVE lab(k) < lab(k + 0 + 1)
      OBVIOUS
    <2>1. k \in 1 .. (L - 1) /\ k + 0 + 1 = k + 1
      BY <1>1
    <2> QED
      BY <1>2, <2>1
  <1>4. ASSUME NEW j \in Nat, j \in S
        PROVE  j + 1 \in S
    <2> SUFFICES ASSUME k + (j + 1) + 1 <= L PROVE lab(k) < lab(k + (j + 1) + 1)
      OBVIOUS
    <2>1. k + j + 1 <= L
      BY <1>1
    <2>2. lab(k) < lab(k + j + 1)
      BY <1>4, <2>1
    <2>3. k + j + 1 \in 1 .. (L - 1) /\ (k + j + 1) + 1 = k + (j + 1) + 1
      BY <1>1
    <2>4. lab(k + j + 1) < lab(k + (j + 1) + 1)
      BY <1>2, <2>3
    <2>5. k + j + 1 \in 1 .. L /\ k + (j + 1) + 1 \in 1 .. L
      BY <1>1, <2>3
    <2>6. lab(k) \in Nat /\ lab(k + j + 1) \in Nat /\ lab(k + (j + 1) + 1) \in Nat
      BY <1>1, <2>5
    <2> QED
      BY <2>2, <2>4, <2>6
  <1>5. \A j \in Nat : j \in S
    <2> HIDE DEF S
    <2> QED
      BY <1>3, <1>4, SetInduction
  <1>6. ASSUME NEW l \in 1 .. L, k < l
        PROVE  lab(k) < lab(l)
    <2>1. l - k - 1 \in Nat /\ k + (l - k - 1) + 1 = l /\ l <= L
      BY <1>1, <1>6
    <2>2. l - k - 1 \in S
      BY <1>5, <2>1
    <2>3. k + (l - k - 1) + 1 <= L => lab(k) < lab(k + (l - k - 1) + 1)
      BY <2>2
    <2> QED
      BY <2>1, <2>3
  <1> QED
    BY <1>6

(* A document from its children, its root's XID and a number above all XIDs. *)
LEMMA FromKids ==
  ASSUME NEW kids \in Seq(Kid), NEW r \in Nat, 0 < r, NEW m \in Nat, r < m,
         \A k, l \in 1 .. Len(kids) : k < l => kids[k].label < kids[l].label,
         \A k, l \in 1 .. Len(kids) : kids[k].xid = kids[l].xid => k = l,
         \A k \in 1 .. Len(kids) : kids[k].xid < m /\ kids[k].xid # r
  PROVE  LET a == [labels |-> {kids[k].label : k \in DOMAIN kids},
                   xids   |-> Append([k \in DOMAIN kids |-> kids[k].xid], r),
                   first  |-> m]
         IN /\ IsDoc(a) /\ RootXid(a) = r /\ Cardinality(a.labels) = Len(kids)
            /\ \A k \in 1 .. Len(kids) : XidOf(a, kids[k].label) = kids[k].xid
PROOF
  <1> DEFINE n == Len(kids)
             labels == {kids[k].label : k \in DOMAIN kids}
             t == [k \in DOMAIN kids |-> kids[k].xid]
             xids == Append(t, r)
             a == [labels |-> labels, xids |-> xids, first |-> m]
             w == [k \in 1 .. n |-> kids[k].label]
             id == [l \in labels |-> l]
  <1>1. /\ n \in Nat /\ DOMAIN kids = 1 .. n
        /\ \A k \in 1 .. n : /\ kids[k].xid \in Nat /\ 0 < kids[k].xid
                             /\ kids[k].label \in Label /\ kids[k].label \in Nat
    BY KidsFacts
  <1>2. /\ t \in Seq(Nat) /\ Len(t) = n /\ \A k \in 1 .. n : t[k] = kids[k].xid
    <2>1. \A k \in 1 .. n : t[k] = kids[k].xid
      BY <1>1
    <2>2. t \in [1 .. n -> Nat]
      BY <1>1
    <2> HIDE DEF t, n
    <2> QED
      BY <1>1, <2>1, <2>2
  <1> HIDE DEF t
  <1>3. /\ xids \in Seq(Nat) /\ Len(xids) = n + 1 /\ DOMAIN xids = 1 .. (n + 1)
        /\ xids[n + 1] = r /\ \A k \in 1 .. n : xids[k] = kids[k].xid
    <2> HIDE DEF n
    <2>1. /\ xids \in Seq(Nat) /\ Len(xids) = Len(t) + 1
          /\ \A k \in 1 .. Len(t) : xids[k] = t[k]
          /\ xids[Len(t) + 1] = r
      BY <1>2, AppendProperties
    <2> HIDE DEF xids
    <2> QED
      BY <1>1, <1>2, <2>1
  <1>4. /\ labels \subseteq Label /\ Lists(w, labels, id)
    <2>1. \A k \in 1 .. n : w[k] = kids[k].label
      OBVIOUS
    <2>2. \A l \in labels : \E k \in 1 .. n : w[k] = l
      BY <1>1
    <2>3. \A k \in 1 .. n : w[k] \in labels /\ w[k] \in Nat
      BY <1>1
    <2>4. \A l \in labels : id[l] = l /\ l \in Nat
      BY <1>1
    <2>5. labels \subseteq Label
      BY <1>1
    <2>6. w = [k \in 1 .. n |-> w[k]]
      OBVIOUS
    <2>7. \A k, l \in 1 .. n : k < l => w[k] < w[l]
      OBVIOUS
    <2> HIDE DEF w, id, labels, n
    <2>8. w \in Seq(labels) /\ DOMAIN w = 1 .. n
      BY <1>1, <2>3, <2>6
    <2>9. \A l \in labels : id[l] \in Int /\ \E k \in DOMAIN w : w[k] = l
      <3> TAKE l \in labels
      <3>1. id[l] \in Int
        BY <2>4
      <3>2. PICK k \in 1 .. n : w[k] = l
        BY <2>2
      <3> QED
        BY <2>8, <3>1, <3>2
    <2>10. \A k, l \in DOMAIN w : k < l => id[w[k]] < id[w[l]]
      <3> TAKE k, l \in DOMAIN w
      <3>1. id[w[k]] = w[k] /\ id[w[l]] = w[l]
        BY <2>3, <2>4, <2>8
      <3> QED
        BY <2>7, <2>8, <3>1
    <2> QED
      BY <2>5, <2>8, <2>9, <2>10 DEF Lists
  <1>5. /\ IsFiniteSet(labels) /\ Cardinality(labels) = n
        /\ \A k \in 1 .. n : kids[k].label \in labels
                             /\ Cardinality({l \in labels : l <= kids[k].label}) = k
    <2>1. Len(w) = n
      BY <1>1
    <2>2. \A k \in 1 .. n : w[k] = kids[k].label
      OBVIOUS
    <2>3. \A l \in labels : id[l] = l
      OBVIOUS
    <2> HIDE DEF w, id, labels, n
    <2>4. /\ IsFiniteSet(labels) /\ Cardinality(labels) = Len(w)
          /\ \A k \in 1 .. Len(w) : /\ w[k] \in labels
                                    /\ Cardinality({l \in labels : id[l] <= id[w[k]]}) = k
      BY <1>4, ListedPlaces
    <2>5. \A k \in 1 .. n : {l \in labels : id[l] <= id[w[k]]} = {l \in labels : l <= w[k]}
      BY <2>1, <2>3, <2>4
    <2> QED
      BY <2>1, <2>2, <2>4, <2>5
  <1> HIDE DEF labels, xids
  <1>6. /\ a.labels = labels /\ a.xids = xids /\ a.first = m
        /\ a = [labels |-> a.labels, xids |-> a.xids, first |-> a.first]
    OBVIOUS
  <1> HIDE DEF a, n
  <1>7. ASSUME NEW k \in 1 .. (n + 1)
        PROVE  0 < xids[k] /\ xids[k] < m
    <2>1. k = n + 1 \/ k \in 1 .. n
      BY <1>1
    <2>2. \A i \in 1 .. n : kids[i].xid < m
      BY DEF n
    <2> QED
      BY <1>1, <1>3, <2>1, <2>2
  <1>8. ASSUME NEW k \in 1 .. (n + 1), NEW l \in 1 .. (n + 1), xids[k] = xids[l]
        PROVE  k = l
    <2>1. (k = n + 1 \/ k \in 1 .. n) /\ (l = n + 1 \/ l \in 1 .. n)
      <3>1. n \in Nat
        BY <1>1
      <3> QED
        BY <3>1
    <2>2. \A i \in 1 .. n : kids[i].xid # r
      BY DEF n
    <2>3. \A i, j \in 1 .. n : kids[i].xid = kids[j].xid => i = j
      BY DEF n
    <2> QED
      BY <1>3, <1>8, <2>1, <2>2, <2>3
  <1>9. labels \in Children
    BY <1>4, <1>5 DEF Children
  <1>10. IsDoc(a)
    BY <1>3, <1>5, <1>6, <1>7, <1>8, <1>9 DEF IsDoc
  <1>11. RootXid(a) = r
    BY <1>3, <1>6 DEF RootXid, Last
  <1>12. \A k \in 1 .. n : XidOf(a, kids[k].label) = kids[k].xid
    BY <1>3, <1>5, <1>6 DEF XidOf, PlaceOf
  <1> QED
    BY <1>5, <1>6, <1>10, <1>11, <1>12 DEF a, n, labels, xids, t

(* What a delta makes of any document it can be applied to. *)
LEMMA AppliedFacts ==
  ASSUME NEW d, IsDoc(d), NEW delta, IsDelta(delta), Applying(d, delta) = "ok"
  PROVE  LET a == Applied(d, delta)
         IN /\ IsDoc(a) /\ RootXid(a) = RootXid(d) /\ d.first <= a.first
            /\ \A l \in a.labels :
                 \/ l \in d.labels /\ XidOf(a, l) = XidOf(d, l)
                 \/ \E n \in DOMAIN delta.new : /\ l = delta.new[n].label
                                                /\ XidOf(a, l) = delta.new[n].xid
PROOF
  <1> DEFINE kids == Inserted(d, delta)
             spared == Spared(d, delta)
             new == delta.new
             xs == {kids[k].xid : k \in DOMAIN kids}
             S == {d.first} \cup {x + 1 : x \in xs}
             a == Applied(d, delta)
             n == Len(kids)
  <1>1. /\ ~InsertFails(d, delta)
        /\ \A k \in 1 .. (Len(kids) - 1) : kids[k].label < kids[k + 1].label
    BY DEF Applying
  <1>2. ComeFrom(kids, spared, new, Len(new))
    BY <1>1, InsertedFacts
  <1>3. /\ spared \in Seq(Kid)
        /\ \A k \in DOMAIN spared : spared[k].label \in d.labels
                                    /\ spared[k].xid = XidOf(d, spared[k].label)
    <2>1. KeptOf(d, delta) \subseteq d.labels
      BY DEF KeptOf
    <2>2. /\ spared \in Seq(Kid)
          /\ \A k \in DOMAIN spared : spared[k].label \in KeptOf(d, delta)
                                      /\ spared[k].xid = XidOf(d, spared[k].label)
      BY SparedFacts
    <2> HIDE DEF spared
    <2> QED
      BY <2>1, <2>2
  <1>4. \A k \in DOMAIN new : new[k].xid # RootXid(d)
    BY <1>1 DEF InsertFails
  <1>5. DOMAIN new = 1 .. Len(new) /\ d.first \in Nat
    BY DEF IsDelta, IsDoc
  <1> HIDE DEF kids, spared, new
  <1>6. /\ kids \in Seq(Kid) /\ n \in Nat /\ DOMAIN kids = 1 .. n
        /\ \A k \in 1 .. n : kids[k].xid \in Nat
        /\ \A k \in 1 .. n : \/ \E j \in DOMAIN spared : kids[k] = spared[j]
                             \/ \E m \in DOMAIN new : kids[k] = KidOf(new[m])
        /\ \A k, l \in 1 .. n : kids[k].xid = kids[l].xid => k = l
    <2>1. kids \in Seq(Kid)
      BY <1>2 DEF ComeFrom
    <2>2. n \in Nat /\ DOMAIN kids = 1 .. n /\ \A k \in 1 .. n : kids[k].xid \in Nat
      BY <2>1, KidsFacts DEF n
    <2> QED
      BY <1>2, <1>5, <2>1, <2>2 DEF ComeFrom
  <1>7. ASSUME NEW k \in 1 .. n
        PROVE  /\ kids[k].xid # RootXid(d)
               /\ \/ kids[k].label \in d.labels /\ kids[k].xid = XidOf(d, kids[k].label)
                  \/ \E m \in DOMAIN new : /\ kids[k].label = new[m].label
                                           /\ kids[k].xid = new[m].xid
    <2>1. CASE \E j \in DOMAIN spared : kids[k] = spared[j]
      BY <1>3, <2>1, DocFacts
    <2>2. CASE \E m \in DOMAIN new : kids[k] = KidOf(new[m])
      BY <1>4, <2>2 DEF KidOf
    <2> QED
      BY <1>6, <2>1, <2>2
  <1>8. a = [labels |-> {kids[k].label : k \in DOMAIN kids},
             xids   |-> Append([k \in DOMAIN kids |-> kids[k].xid], RootXid(d)),
             first  |-> Max(S)]
    BY DEF Applied, FirstPast, kids
  <1>9. IsFiniteSet(S) /\ S \subseteq Nat /\ d.first \in S
        /\ \A k \in 1 .. n : kids[k].xid + 1 \in S
    <2> DEFINE T == {x + 1 : x \in xs}
               g == [k \in 1 .. n |-> kids[k].xid + 1]
    <2>1. IsFiniteSet(1 .. n)
      <3>1. 1 \in Int /\ n \in Int
        BY <1>6
      <3> QED
        BY <3>1, FS_Interval
    <2>2. g \in Surjection(1 .. n, T)
      <3>1. \A k \in 1 .. n : g[k] = kids[k].xid + 1 /\ g[k] \in T
        BY <1>6
      <3>2. \A y \in T : \E k \in 1 .. n : g[k] = y
        BY <1>6
      <3>3. g \in [1 .. n -> T]
        BY <3>1
      <3> HIDE DEF g, T
      <3> QED
        BY <3>2, <3>3 DEF Surjection
    <2>3. T \subseteq Nat /\ \A k \in 1 .. n : kids[k].xid + 1 \in T
      <3>1. ASSUME NEW k \in 1 .. n
            PROVE  kids[k].xid + 1 \in T
        <4>1. kids[k].xid \in xs
          BY <1>6
        <4> QED
          BY <4>1
      <3>2. ASSUME NEW y \in T
            PROVE  y \in Nat
        <4>1. PICK x \in xs : y = x + 1
          OBVIOUS
        <4>2. PICK k \in 1 .. n : x = kids[k].xid
          BY <1>6
        <4>3. x \in Nat
          BY <1>6, <4>2
        <4> QED
          BY <4>1, <4>3
      <3> QED
        BY <3>1, <3>2
    <2> HIDE DEF T, g
    <2>4. IsFiniteSet(T)
      BY <2>1, <2>2, FS_Surjection
    <2>5. IsFiniteSet({d.first} \cup T)
      BY <2>4, FS_Singleton, FS_Union
    <2>6. S = {d.first} \cup T
      BY DEF T
    <2> HIDE DEF S
    <2> QED
      BY <1>5, <2>3, <2>5, <2>6
  <1> HIDE DEF S, a, n
  <1>10. /\ Max(S) \in Nat /\ d.first <= Max(S)
         /\ \A k \in 1 .. n : kids[k].xid < Max(S)
    <2>1. S \subseteq Int /\ S # {}
      BY <1>9
    <2>2. Max(S) \in S /\ \A y \in S : y <= Max(S)
      BY <1>9, <2>1, MaxFacts
    <2>3. Max(S) \in Nat
      BY <1>9, <2>2
    <2>4. \A k \in 1 .. n : kids[k].xid + 1 <= Max(S)
      BY <1>9, <2>2
    <2>5. \A k \in 1 .. n : kids[k].xid \in Nat
      BY <1>6
    <2>6. \A k \in 1 .. n : kids[k].xid < Max(S)
      BY <2>3, <2>4, <2>5
    <2> QED
      BY <1>9, <2>2, <2>3, <2>6
  <1>11. RootXid(d) \in Nat /\ 0 < RootXid(d) /\ RootXid(d) < Max(S)
    <2>1. RootXid(d) \in Nat /\ 0 < RootXid(d) /\ RootXid(d) < d.first
      BY DocFacts
    <2> QED
      BY <1>5, <1>10, <2>1
  <1>12. \A k, l \in 1 .. n : k < l => kids[k].label < kids[l].label
    BY <1>1, <1>6, RisingLabels DEF n
  <1>13. /\ IsDoc(a) /\ RootXid(a) = RootXid(d)
         /\ \A k \in 1 .. n : XidOf(a, kids[k].label) = kids[k].xid
    <2> DEFINE c == [labels |-> {kids[k].label : k \in DOMAIN kids},
                     xids   |-> Append([k \in DOMAIN kids |-> kids[k].xid], RootXid(d)),
                     first  |-> Max(S)]
    <2>1. /\ IsDoc(c) /\ RootXid(c) = RootXid(d)
          /\ \A k \in 1 .. Len(kids) : XidOf(c, kids[k].label) = kids[k].xid
      <3>1. \A k \in 1 .. n : kids[k].xid < Max(S) /\ kids[k].xid # RootXid(d)
        BY <1>7, <1>10
      <3>2. Max(S) \in Nat
        BY <1>10
      <3> QED
        BY <1>6, <1>11, <1>12, <3>1, <3>2, FromKids DEF n
    <2> QED
      BY <1>8, <2>1 DEF n
  <1>14. a.labels = {kids[k].label : k \in 1 .. n} /\ a.first = Max(S)
    BY <1>6, <1>8
  <1>15. ASSUME NEW l \in a.labels
         PROVE  \/ l \in d.labels /\ XidOf(a, l) = XidOf(d, l)
                \/ \E m \in DOMAIN new : l = new[m].label /\ XidOf(a, l) = new[m].xid
    <2>1. PICK k \in 1 .. n : l = kids[k].label
      BY <1>14
    <2> QED
      BY <1>7, <1>13, <2>1
  <1> QED
    BY <1>10, <1>13, <1>14, <1>15 DEF a, new

-----------------------------------------------------------------------------
(***************************************************************************)
(* The disk together with what is known of it, and what each operation     *)
(* makes of a disk in good order.                                          *)
(***************************************************************************)

(* What is known of the XIDs of a document and its predecessors. *)
Fits(known, d) ==
  /\ \A x \in DOMAIN known : x \in Nat /\ x < d.first
  /\ \A x \in XidsIn(d) : x \in DOMAIN known /\ known[x] = Naming(d)[x]

(* A document's own names fit it, and so do they with what fits already. *)
LEMMA OwnNamesFit ==
  ASSUME NEW d, IsDoc(d), NEW known, known = <<>> \/ Fits(known, d)
  PROVE  Fits(Learnt(known, d), d)
PROOF
  <1> DEFINE n == Naming(d)
             both == Learnt(known, d)
  <1>1. DOMAIN n = XidsIn(d)
    BY NamingFacts
  <1>2. \A x \in XidsIn(d) : x \in Nat /\ x < d.first
    BY DocFacts
  <1>3. /\ DOMAIN both = DOMAIN known \cup DOMAIN n
        /\ \A x \in DOMAIN known : both[x] = known[x]
        /\ \A x \in DOMAIN n : x \notin DOMAIN known => both[x] = n[x]
    BY <1>1 DEF Learnt
  <1>4. /\ \A x \in DOMAIN known : x \in Nat /\ x < d.first
        /\ \A x \in XidsIn(d) : x \in DOMAIN known => known[x] = n[x]
    <2>1. CASE known = <<>>
      <3>1. DOMAIN known = {}
        BY <2>1
      <3> QED
        BY <3>1
    <2>2. CASE Fits(known, d)
      BY <2>2 DEF Fits
    <2> QED
      BY <2>1, <2>2
  <1> HIDE DEF n, both
  <1>5. Fits(both, d)
    BY <1>1, <1>2, <1>3, <1>4 DEF Fits, n
  <1> QED
    BY <1>5 DEF both, n

(* One document follows another: it keeps its XIDs or takes new ones. *)
Follows(e, d) ==
  /\ RootXid(e) = RootXid(d) /\ d.first <= e.first
  /\ \A l \in e.labels : \/ l \in d.labels /\ XidOf(e, l) = XidOf(d, l)
                         \/ d.first <= XidOf(e, l)

(* What is known of a document fits the one that follows it. *)
LEMMA NamesFitOn ==
  ASSUME NEW d, IsDoc(d), NEW e, IsDoc(e), NEW known, Fits(known, d), Follows(e, d)
  PROVE  Fits(Learnt(known, e), e)
PROOF
  <1> DEFINE n == Naming(e)
             both == Learnt(known, e)
  <1>1. DOMAIN n = XidsIn(e)
    BY NamingFacts
  <1>2. \A x \in XidsIn(e) : x \in Nat /\ x < e.first
    BY DocFacts
  <1>3. /\ DOMAIN both = DOMAIN known \cup DOMAIN n
        /\ \A x \in DOMAIN known : both[x] = known[x]
        /\ \A x \in DOMAIN n : x \notin DOMAIN known => both[x] = n[x]
    BY <1>1 DEF Learnt
  <1>4. d.first \in Nat /\ e.first \in Nat
    BY DEF IsDoc
  <1>5. \A x \in DOMAIN known : x \in Nat /\ x < e.first
    BY <1>4 DEF Fits, Follows
  <1>6. ASSUME NEW x \in XidsIn(e), x \in DOMAIN known
        PROVE  known[x] = n[x]
    <2>1. CASE x = RootXid(e)
      <3>1. x \in XidsIn(d) /\ x = RootXid(d)
        BY <2>1, DocFacts DEF Follows
      <3>2. known[x] = Naming(d)[x]
        BY <3>1 DEF Fits
      <3>3. Naming(d)[RootXid(d)] = 0 /\ Naming(e)[RootXid(e)] = 0
        BY NamingFacts
      <3> QED
        BY <2>1, <3>1, <3>2, <3>3
    <2>2. ASSUME NEW l \in e.labels, x = XidOf(e, l)
          PROVE  known[x] = n[x]
      <3>1. x < d.first
        BY <1>6 DEF Fits
      <3>2. l \in d.labels /\ XidOf(e, l) = XidOf(d, l)
        <4>1. ~(d.first <= XidOf(e, l))
          BY <1>2, <1>4, <2>2, <3>1
        <4> QED
          BY <4>1 DEF Follows
      <3>3. x \in XidsIn(d)
        BY <2>2, <3>2, DocFacts
      <3>4. known[x] = Naming(d)[x]
        BY <3>3 DEF Fits
      <3>5. Naming(d)[XidOf(d, l)] = l
        BY <3>2, NamingFacts
      <3>6. Naming(e)[XidOf(e, l)] = l
        BY NamingFacts
      <3> QED
        BY <2>2, <3>2, <3>4, <3>5, <3>6
    <2>3. x = RootXid(e) \/ \E l \in e.labels : x = XidOf(e, l)
      BY DocFacts
    <2> QED
      BY <2>1, <2>2, <2>3
  <1> HIDE DEF n, both
  <1>7. Fits(both, e)
    BY <1>1, <1>2, <1>3, <1>5, <1>6 DEF Fits, n
  <1> QED
    BY <1>7 DEF both, n

(* What a document, its map and what is known of its XIDs have to do with each other. *)
GoodDocument(x, m, known, old) ==
  /\ x \in {Absent, Empty} \cup {Holding(labels) : labels \in Children}
  /\ \/ m = Absent \/ m = Empty
     \/ \E d : /\ IsDoc(d) /\ m = Holding(StringFromList(d)) /\ Fits(known, d)
               /\ x.state = "written" /\ ~old => x.content = d.labels

(* The delta file holds a delta of the versions that are known, or none is known. *)
GoodDelta(file, v) ==
  \/ v = None /\ file \in {Absent, Empty, Holding(VersionFile)}
  \/ \E d : \E labels \in Children :
       /\ IsDoc(d) /\ v = [from |-> d, to |-> SecondVersion(d, labels)]
       /\ file = Holding(DeltaBetween(d, SecondVersion(d, labels)))

(* The disk with what the history variables say of it. *)
World(disk0, names0, versions0, stale0) ==
  [disk |-> disk0, names |-> names0, versions |-> versions0, stale |-> stale0]

(* The world of the current state. *)
Now == World(disk, names, versions, stale)

(* A world in good order: each document with its map, and the delta. *)
Good(w) ==
  /\ w = World(w.disk, w.names, w.versions, w.stale)
  /\ w.disk = [p \in Paths |-> w.disk[p]] /\ w.names = [f \in File |-> w.names[f]]
  /\ w.stale \subseteq File
  /\ \A f \in File : GoodDocument(w.disk[Xml(f)], w.disk[Map(f)], w.names[f], f \in w.stale)
  /\ GoodDelta(w.disk[Delta], w.versions)

(* What WriteNext makes of the disk and of what is known. *)
After(w, wr, tag) ==
  World([w.disk EXCEPT ![wr.path] = wr.file],
        IF wr.path[1] = "xidmap" THEN [w.names EXCEPT ![wr.path[2]] = wr.knows] ELSE w.names,
        IF wr.path = Delta THEN wr.knows ELSE w.versions,
        CASE wr.path[1] = "xidmap" -> w.stale \ {wr.path[2]}
          [] wr.path[1] = "xml" /\ tag -> w.stale \cup {wr.path[2]}
          [] OTHER -> w.stale)

(* The paths are told apart. *)
LEMMA PathFacts ==
  /\ Delta \in Paths
  /\ \A f : Xml(f)[1] = "xml" /\ Map(f)[1] = "xidmap" /\ Delta[1] = "delta"
  /\ \A f : Xml(f)[2] = f /\ Map(f)[2] = f
  /\ \A f, g : Xml(f) # Map(g) /\ Xml(f) # Delta /\ Map(f) # Delta
  /\ \A f, g : (Xml(f) = Xml(g) <=> f = g) /\ (Map(f) = Map(g) <=> f = g)
  /\ \A f \in File : Xml(f) \in Paths /\ Map(f) \in Paths
PROOF
  BY DEF Paths, Xml, Map, Delta

(* A map may be written if it goes with the document. *)
LEMMA MapWritten ==
  ASSUME NEW w, Good(w), NEW f \in File, NEW file, NEW knows, NEW tag,
         GoodDocument(w.disk[Xml(f)], file, knows, f \in w.stale \ {f})
  PROVE  LET z == After(w, Write(Map(f), file, knows), tag)
         IN /\ Good(z) /\ z.versions = w.versions /\ z.stale = w.stale \ {f}
            /\ z.disk[Map(f)] = file /\ z.names[f] = knows
            /\ \A p \in Paths : p # Map(f) => z.disk[p] = w.disk[p]
            /\ \A g \in File : g # f => z.names[g] = w.names[g]
PROOF
  <1> DEFINE z == After(w, Write(Map(f), file, knows), tag)
  <1>1. /\ w.disk = [p \in Paths |-> w.disk[p]] /\ w.names = [g \in File |-> w.names[g]]
        /\ w.stale \subseteq File
        /\ \A g \in File : GoodDocument(w.disk[Xml(g)], w.disk[Map(g)], w.names[g], g \in w.stale)
        /\ GoodDelta(w.disk[Delta], w.versions)
    BY DEF Good
  <1>2. z = World([w.disk EXCEPT ![Map(f)] = file], [w.names EXCEPT ![f] = knows],
                  w.versions, w.stale \ {f})
    BY PathFacts DEF After, Write
  <1> HIDE DEF z
  <1>3. /\ z.disk = [w.disk EXCEPT ![Map(f)] = file]
        /\ z.names = [w.names EXCEPT ![f] = knows]
        /\ z.versions = w.versions /\ z.stale = w.stale \ {f}
        /\ z = World(z.disk, z.names, z.versions, z.stale)
    BY <1>2 DEF World
  <1>4. /\ z.disk = [p \in Paths |-> z.disk[p]]
        /\ z.disk[Map(f)] = file
        /\ \A p \in Paths : p # Map(f) => z.disk[p] = w.disk[p]
    BY <1>1, <1>3, PathFacts
  <1>5. /\ z.names = [g \in File |-> z.names[g]] /\ z.names[f] = knows
        /\ \A g \in File : g # f => z.names[g] = w.names[g]
    BY <1>1, <1>3
  <1>6. ASSUME NEW g \in File
        PROVE  GoodDocument(z.disk[Xml(g)], z.disk[Map(g)], z.names[g], g \in z.stale)
    <2>1. z.disk[Xml(g)] = w.disk[Xml(g)]
      BY <1>4, PathFacts
    <2>2. CASE g = f
      <3>1. (g \in z.stale) = (f \in w.stale \ {f})
        BY <1>3, <2>2
      <3> QED
        BY <1>4, <1>5, <2>1, <2>2, <3>1
    <2>3. CASE g # f
      <3>1. (g \in z.stale) = (g \in w.stale)
        BY <1>3, <2>3
      <3>2. z.disk[Map(g)] = w.disk[Map(g)] /\ z.names[g] = w.names[g]
        BY <1>4, <1>5, <2>3, PathFacts
      <3> QED
        BY <1>1, <2>1, <3>1, <3>2
    <2> QED
      BY <2>2, <2>3
  <1>7. z.disk[Delta] = w.disk[Delta]
    BY <1>4, PathFacts
  <1>8. Good(z)
    BY <1>1, <1>3, <1>4, <1>5, <1>6, <1>7 DEF Good
  <1> QED
    BY <1>3, <1>4, <1>5, <1>8 DEF z

(* A document may be written if its map goes with it, or without its map. *)
LEMMA DocumentWritten ==
  ASSUME NEW w, Good(w), NEW f \in File, NEW file, NEW tag \in BOOLEAN,
         GoodDocument(file, w.disk[Map(f)], w.names[f], tag \/ f \in w.stale)
  PROVE  LET z == After(w, Write(Xml(f), file, <<>>), tag)
         IN /\ Good(z) /\ z.versions = w.versions /\ z.names = w.names
            /\ z.disk[Xml(f)] = file
            /\ \A p \in Paths : p # Xml(f) => z.disk[p] = w.disk[p]
PROOF
  <1> DEFINE z == After(w, Write(Xml(f), file, <<>>), tag)
             old == IF tag THEN w.stale \cup {f} ELSE w.stale
  <1>1. /\ w.disk = [p \in Paths |-> w.disk[p]] /\ w.names = [g \in File |-> w.names[g]]
        /\ w.stale \subseteq File
        /\ \A g \in File : GoodDocument(w.disk[Xml(g)], w.disk[Map(g)], w.names[g], g \in w.stale)
        /\ GoodDelta(w.disk[Delta], w.versions)
    BY DEF Good
  <1>2. z = World([w.disk EXCEPT ![Xml(f)] = file], w.names, w.versions, old)
    BY PathFacts DEF After, Write
  <1> HIDE DEF z, old
  <1>3. /\ z.disk = [w.disk EXCEPT ![Xml(f)] = file]
        /\ z.names = w.names /\ z.versions = w.versions /\ z.stale = old
        /\ z = World(z.disk, z.names, z.versions, z.stale)
    BY <1>2 DEF World
  <1>4. /\ z.disk = [p \in Paths |-> z.disk[p]]
        /\ z.disk[Xml(f)] = file
        /\ \A p \in Paths : p # Xml(f) => z.disk[p] = w.disk[p]
    BY <1>1, <1>3, PathFacts
  <1>5. ASSUME NEW g \in File
        PROVE  GoodDocument(z.disk[Xml(g)], z.disk[Map(g)], z.names[g], g \in z.stale)
    <2>1. z.disk[Map(g)] = w.disk[Map(g)] /\ z.names[g] = w.names[g]
      BY <1>3, <1>4, PathFacts
    <2>2. CASE g = f
      <3>1. (g \in z.stale) = (tag \/ f \in w.stale)
        BY <1>3, <2>2 DEF old
      <3> QED
        BY <1>4, <2>1, <2>2, <3>1
    <2>3. CASE g # f
      <3>1. (g \in z.stale) = (g \in w.stale)
        BY <1>3, <2>3 DEF old
      <3>2. z.disk[Xml(g)] = w.disk[Xml(g)]
        BY <1>4, <2>3, PathFacts
      <3> QED
        BY <1>1, <2>1, <3>1, <3>2
    <2> QED
      BY <2>2, <2>3
  <1>6. z.disk[Delta] = w.disk[Delta]
    BY <1>4, PathFacts
  <1>7. z.stale \subseteq File
    BY <1>1, <1>3 DEF old
  <1>8. Good(z)
    BY <1>1, <1>3, <1>4, <1>5, <1>6, <1>7 DEF Good
  <1> QED
    BY <1>3, <1>4, <1>8 DEF z

(* A delta may be written with the versions it is of. *)
LEMMA DeltaWritten ==
  ASSUME NEW w, Good(w), NEW file, NEW knows, NEW tag, GoodDelta(file, knows)
  PROVE  LET z == After(w, Write(Delta, file, knows), tag)
         IN /\ Good(z) /\ z.versions = knows /\ z.names = w.names
            /\ z.disk[Delta] = file
            /\ \A p \in Paths : p # Delta => z.disk[p] = w.disk[p]
PROOF
  <1> DEFINE z == After(w, Write(Delta, file, knows), tag)
  <1>1. /\ w.disk = [p \in Paths |-> w.disk[p]] /\ w.names = [g \in File |-> w.names[g]]
        /\ w.stale \subseteq File
        /\ \A g \in File : GoodDocument(w.disk[Xml(g)], w.disk[Map(g)], w.names[g], g \in w.stale)
    BY DEF Good
  <1>2. z = World([w.disk EXCEPT ![Delta] = file], w.names, knows, w.stale)
    BY PathFacts DEF After, Write
  <1> HIDE DEF z
  <1>3. /\ z.disk = [w.disk EXCEPT ![Delta] = file]
        /\ z.names = w.names /\ z.versions = knows /\ z.stale = w.stale
        /\ z = World(z.disk, z.names, z.versions, z.stale)
    BY <1>2 DEF World
  <1>4. /\ z.disk = [p \in Paths |-> z.disk[p]]
        /\ z.disk[Delta] = file
        /\ \A p \in Paths : p # Delta => z.disk[p] = w.disk[p]
    BY <1>1, <1>3, PathFacts
  <1>5. ASSUME NEW g \in File
        PROVE  GoodDocument(z.disk[Xml(g)], z.disk[Map(g)], z.names[g], g \in z.stale)
    <2>1. z.disk[Map(g)] = w.disk[Map(g)] /\ z.disk[Xml(g)] = w.disk[Xml(g)]
      BY <1>4, PathFacts
    <2> QED
      BY <1>1, <1>3, <2>1
  <1>6. Good(z)
    BY <1>1, <1>3, <1>4, <1>5 DEF Good
  <1> QED
    BY <1>3, <1>4, <1>6 DEF z

(* The worlds that a sequence of writes goes through, all of them good. *)
GoesThrough(st, s, tag) ==
  /\ \A k \in 0 .. Len(s) : Good(st[k])
  /\ \A k \in 1 .. Len(s) : s[k].path \in Paths /\ st[k] = After(st[k - 1], s[k], tag)

(* A sequence of writes leads from one good world to another. *)
Leads(w, s, tag, z) ==
  /\ IsSequence(s)
  /\ \E st : GoesThrough(st, s, tag) /\ st[0] = w /\ st[Len(s)] = z

(* No write leads nowhere. *)
LEMMA NoWriteLeads ==
  ASSUME NEW w, Good(w), NEW tag
  PROVE  Leads(w, <<>>, tag, w)
PROOF
  <1> DEFINE st == [k \in {0} |-> w]
  <1>1. Len(<<>>) = 0
    OBVIOUS
  <1>2. st[0] = w /\ \A k \in 0 .. 0 : k = 0
    OBVIOUS
  <1> HIDE DEF st
  <1>3. \A k \in 0 .. 0 : Good(st[k])
    BY <1>2
  <1>4. GoesThrough(st, <<>>, tag)
    BY <1>1, <1>3 DEF GoesThrough
  <1> QED
    BY <1>1, <1>2, <1>4, ShortPlans DEF Leads

(* One write leads to what WriteNext makes of it. *)
LEMMA OneWriteLeads ==
  ASSUME NEW w, Good(w), NEW a, a.path \in Paths, NEW tag, Good(After(w, a, tag))
  PROVE  Leads(w, <<a>>, tag, After(w, a, tag))
PROOF
  <1> DEFINE z == After(w, a, tag)
             st == [k \in {0, 1} |-> IF k = 0 THEN w ELSE z]
  <1>1. Len(<<a>>) = 1 /\ <<a>>[1] = a
    OBVIOUS
  <1>2. st[0] = w /\ st[1] = z
    OBVIOUS
  <1>3. (\A k \in 0 .. 1 : k = 0 \/ k = 1) /\ (\A k \in 1 .. 1 : k = 1 /\ k - 1 = 0)
    OBVIOUS
  <1> HIDE DEF st
  <1>4. GoesThrough(st, <<a>>, tag)
    <2>1. \A k \in 0 .. 1 : Good(st[k])
      BY <1>2, <1>3
    <2>2. \A k \in 1 .. 1 : <<a>>[k].path \in Paths /\ st[k] = After(st[k - 1], <<a>>[k], tag)
      BY <1>1, <1>2, <1>3
    <2> QED
      BY <1>1, <2>1, <2>2 DEF GoesThrough
  <1> HIDE DEF z
  <1>5. IsSequence(<<a>>)
    BY ShortPlans
  <1>6. Leads(w, <<a>>, tag, z)
    BY <1>1, <1>2, <1>4, <1>5 DEF Leads
  <1> QED
    BY <1>6 DEF z

(* One sequence after the other. *)
LEMMA LeadsOn ==
  ASSUME NEW w, NEW y, NEW z, NEW s, NEW t, NEW tag,
         Leads(w, s, tag, y), Leads(y, t, tag, z)
  PROVE  Leads(w, s \o t, tag, z)
PROOF
  <1>1. IsSequence(s) /\ IsSequence(t)
    BY DEF Leads
  <1>2. PICK a : GoesThrough(a, s, tag) /\ a[0] = w /\ a[Len(s)] = y
    BY DEF Leads
  <1>3. PICK b : GoesThrough(b, t, tag) /\ b[0] = y /\ b[Len(t)] = z
    BY DEF Leads
  <1> DEFINE m == Len(s)
             n == Len(t)
             u == s \o t
             st == [k \in 0 .. (m + n) |-> IF k <= m THEN a[k] ELSE b[k - m]]
  <1>4. /\ m \in Nat /\ n \in Nat /\ Len(u) = m + n
        /\ \A k \in 1 .. m : u[k] = s[k]
        /\ \A k \in 1 .. n : u[m + k] = t[k]
    BY <1>1, Joined
  <1>5. /\ \A k \in 0 .. m : Good(a[k])
        /\ \A k \in 1 .. m : s[k].path \in Paths /\ a[k] = After(a[k - 1], s[k], tag)
    BY <1>2 DEF GoesThrough
  <1>6. /\ \A k \in 0 .. n : Good(b[k])
        /\ \A k \in 1 .. n : t[k].path \in Paths /\ b[k] = After(b[k - 1], t[k], tag)
    BY <1>3 DEF GoesThrough
  <1>7. \A k \in 0 .. (m + n) : st[k] = IF k <= m THEN a[k] ELSE b[k - m]
    OBVIOUS
  <1>8. a[0] = w /\ a[m] = y /\ b[0] = y /\ b[n] = z
    BY <1>2, <1>3
  <1> HIDE DEF m, n, u, st
  <1>9. IsSequence(u)
    BY <1>1, JoinedIsSequence DEF u
  <1>10. \A k \in 0 .. n : st[m + k] = b[k]
    <2> TAKE k \in 0 .. n
    <2>1. m + k \in 0 .. (m + n) /\ (m + k) - m = k /\ (m + k <= m => k = 0)
      BY <1>4
    <2>2. st[m + k] = IF m + k <= m THEN a[m + k] ELSE b[(m + k) - m]
      BY <1>7, <2>1
    <2>3. k = 0 => m + k = m
      BY <1>4
    <2> QED
      BY <1>8, <2>1, <2>2, <2>3
  <1>11. \A k \in 0 .. m : st[k] = a[k]
    BY <1>4, <1>7
  <1>12. ASSUME NEW k \in 0 .. (m + n)
         PROVE  Good(st[k])
    <2>1. CASE k <= m
      <3>1. k \in 0 .. m
        BY <1>4, <2>1
      <3> QED
        BY <1>5, <1>11, <3>1
    <2>2. CASE ~(k <= m)
      <3>1. k - m \in 0 .. n
        BY <1>4, <2>2
      <3> QED
        BY <1>6, <1>7, <2>2, <3>1
    <2> QED
      BY <2>1, <2>2
  <1>13. ASSUME NEW k \in 1 .. (m + n)
         PROVE  u[k].path \in Paths /\ st[k] = After(st[k - 1], u[k], tag)
    <2>1. CASE k <= m
      <3>1. k \in 1 .. m /\ k \in 0 .. m /\ k - 1 \in 0 .. m
        BY <1>4, <2>1
      <3> QED
        BY <1>4, <1>5, <1>11, <3>1
    <2>2. CASE ~(k <= m)
      <3> DEFINE j == k - m
      <3>1. j \in 1 .. n /\ j \in 0 .. n /\ j - 1 \in 0 .. n /\ m + j = k /\ m + (j - 1) = k - 1
        BY <1>4, <2>2
      <3> HIDE DEF j
      <3>2. u[k] = t[j]
        BY <1>4, <3>1
      <3>3. st[k] = b[j] /\ st[k - 1] = b[j - 1]
        BY <1>10, <3>1
      <3> QED
        BY <1>6, <3>1, <3>2, <3>3
    <2> QED
      BY <2>1, <2>2
  <1>14. GoesThrough(st, u, tag)
    BY <1>4, <1>12, <1>13 DEF GoesThrough
  <1>15. st[0] = w /\ st[m + n] = z
    <2>1. 0 \in 0 .. m /\ n \in 0 .. n
      BY <1>4
    <2> QED
      BY <1>8, <1>10, <1>11, <2>1
  <1> QED
    BY <1>4, <1>9, <1>14, <1>15 DEF Leads, u

(* When the first write has been done, the others lead from there. *)
LEMMA LeadsFrom ==
  ASSUME NEW w, NEW s, NEW tag, NEW z, Leads(w, s, tag, z), s # <<>>
  PROVE  /\ Good(w) /\ Head(s).path \in Paths
         /\ Leads(After(w, Head(s), tag), Tail(s), tag, z)
PROOF
  <1>1. IsSequence(s)
    BY DEF Leads
  <1>2. PICK a : GoesThrough(a, s, tag) /\ a[0] = w /\ a[Len(s)] = z
    BY DEF Leads
  <1> DEFINE m == Len(s)
             t == Tail(s)
             st == [k \in 0 .. (m - 1) |-> a[k + 1]]
  <1>3. /\ IsSequence(t) /\ m \in Nat /\ 1 \in DOMAIN s /\ DOMAIN s = 1 .. m
        /\ DOMAIN t = 1 .. (m - 1) /\ Head(s) = s[1]
        /\ \A k \in DOMAIN t : t[k] = s[k + 1]
    BY <1>1, TailFacts
  <1>4. Len(t) = m - 1
    <2>1. Len(t) \in Nat /\ DOMAIN t = 1 .. Len(t)
      BY <1>3 DEF IsSequence
    <2>2. m - 1 \in Nat
      BY <1>3
    <2> HIDE DEF t, m
    <2>3. \A i, j \in Nat : 1 .. i = 1 .. j => i = j
      <3> TAKE i, j \in Nat
      <3>1. CASE i < j
        <4>1. j \in 1 .. j /\ j \notin 1 .. i
          BY <3>1
        <4> QED
          BY <4>1
      <3>2. CASE j < i
        <4>1. i \in 1 .. i /\ i \notin 1 .. j
          BY <3>2
        <4> QED
          BY <4>1
      <3> QED
        BY <3>1, <3>2
    <2> QED
      BY <1>3, <2>1, <2>2, <2>3
  <1>5. /\ \A k \in 0 .. m : Good(a[k])
        /\ \A k \in 1 .. m : s[k].path \in Paths /\ a[k] = After(a[k - 1], s[k], tag)
    BY <1>2 DEF GoesThrough
  <1>6. a[0] = w /\ a[m] = z
    BY <1>2
  <1>7. \A k \in 0 .. (m - 1) : st[k] = a[k + 1]
    OBVIOUS
  <1> HIDE DEF m, t, st
  <1>8. 1 \in 1 .. m /\ 0 \in 0 .. m /\ 1 - 1 = 0 /\ 0 \in 0 .. (m - 1) /\ m - 1 \in 0 .. (m - 1)
        /\ (m - 1) + 1 = m /\ 0 + 1 = 1
    BY <1>3
  <1>9. a[1] = After(w, s[1], tag) /\ s[1].path \in Paths
    BY <1>5, <1>6, <1>8
  <1>10. st[0] = After(w, s[1], tag) /\ st[m - 1] = z
    BY <1>6, <1>7, <1>8, <1>9
  <1>11. ASSUME NEW k \in 0 .. (m - 1)
         PROVE  Good(st[k])
    <2>1. k + 1 \in 0 .. m
      BY <1>3
    <2> QED
      BY <1>5, <1>7, <2>1
  <1>12. ASSUME NEW k \in 1 .. (m - 1)
         PROVE  t[k].path \in Paths /\ st[k] = After(st[k - 1], t[k], tag)
    <2>1. k + 1 \in 1 .. m /\ (k + 1) - 1 = k /\ k - 1 \in 0 .. (m - 1) /\ (k - 1) + 1 = k
          /\ k \in 0 .. (m - 1)
      BY <1>3
    <2>2. st[k] = a[k + 1] /\ st[k - 1] = a[k] /\ t[k] = s[k + 1]
      BY <1>3, <1>7, <2>1
    <2> QED
      BY <1>5, <2>1, <2>2
  <1>13. GoesThrough(st, t, tag)
    BY <1>4, <1>11, <1>12 DEF GoesThrough
  <1>14. Leads(After(w, s[1], tag), t, tag, z)
    BY <1>3, <1>4, <1>10, <1>13 DEF Leads
  <1> QED
    BY <1>3, <1>5, <1>6, <1>8, <1>9, <1>14 DEF t

(* Both ends of it are good. *)
LEMMA LeadsFacts ==
  ASSUME NEW w, NEW s, NEW tag, NEW z, Leads(w, s, tag, z)
  PROVE  Good(w) /\ Good(z) /\ (s = <<>> => z = w)
PROOF
  <1>1. PICK a : GoesThrough(a, s, tag) /\ a[0] = w /\ a[Len(s)] = z
    BY DEF Leads
  <1>2. Len(s) \in Nat
    BY DEF Leads, IsSequence
  <1>3. 0 \in 0 .. Len(s) /\ Len(s) \in 0 .. Len(s)
    BY <1>2
  <1>4. s = <<>> => Len(s) = 0
    OBVIOUS
  <1> QED
    BY <1>1, <1>3, <1>4 DEF GoesThrough

(* One in front of one. *)
LEMMA OneAndOne == \A a, b : <<a>> \o <<b>> = <<a, b>>
PROOF
  <1> SUFFICES ASSUME NEW a, NEW b PROVE <<a>> \o <<b>> = <<a, b>>
    OBVIOUS
  <1> DEFINE S == {a, b}
             s == <<a>>
             t == <<b>>
             u == <<a, b>>
  <1>1. /\ s \in Seq(S) /\ Len(s) = 1 /\ s[1] = a
        /\ t \in Seq(S) /\ Len(t) = 1 /\ t[1] = b
        /\ u \in Seq(S) /\ Len(u) = 2 /\ u[1] = a /\ u[2] = b
    OBVIOUS
  <1> HIDE DEF S, s, t, u
  <1>2. /\ s \o t \in Seq(S) /\ Len(s \o t) = Len(s) + Len(t)
        /\ \A i \in 1 .. (Len(s) + Len(t)) : (s \o t)[i] =
             IF i <= Len(s) THEN s[i] ELSE t[i - Len(s)]
    BY <1>1, ConcatProperties
  <1>3. (s \o t)[1] = a /\ (s \o t)[2] = b /\ Len(s \o t) = 2
    BY <1>1, <1>2
  <1>4. \A i \in 1 .. Len(s \o t) : (s \o t)[i] = u[i]
    BY <1>1, <1>3
  <1>5. s \o t = u
    BY <1>1, <1>2, <1>3, <1>4, SeqEqual
  <1> QED
    BY <1>5 DEF s, t, u

(* Two writes, the way most files are written. *)
LEMMA TwoWritesLead ==
  ASSUME NEW w, Good(w), NEW a, NEW b, a.path \in Paths, b.path \in Paths, NEW tag,
         Good(After(w, a, tag)), Good(After(After(w, a, tag), b, tag))
  PROVE  Leads(w, <<a, b>>, tag, After(After(w, a, tag), b, tag))
PROOF
  <1> DEFINE y == After(w, a, tag)
             z == After(y, b, tag)
  <1>1. Leads(w, <<a>>, tag, y)
    BY OneWriteLeads
  <1>2. Leads(y, <<b>>, tag, z)
    <2> HIDE DEF y
    <2>1. Good(y) /\ Good(z)
      BY DEF y
    <2> QED
      BY <2>1, OneWriteLeads
  <1>3. <<a>> \o <<b>> = <<a, b>>
    BY OneAndOne
  <1> HIDE DEF y, z
  <1>4. Leads(w, <<a>> \o <<b>>, tag, z)
    BY <1>1, <1>2, LeadsOn
  <1> QED
    BY <1>3, <1>4 DEF y, z

(* The map that was written is there, and the rest is what it was. *)
MapIsWritten(w, z, f, d, known) ==
  /\ z.disk[Map(f)] = Holding(StringFromList(d))
  /\ z.names[f] = known /\ z.versions = w.versions
  /\ \A p \in Paths : p # Map(f) => z.disk[p] = w.disk[p]

(* A map is opened and written beside its document, or beside none. *)
LEMMA WriteMapLeads ==
  ASSUME NEW w, Good(w), NEW f \in File, NEW d, IsDoc(d), NEW known, Fits(Learnt(known, d), d),
         w.disk[Xml(f)].state = "written" => w.disk[Xml(f)].content = d.labels,
         NEW tag
  PROVE  \E z : /\ Leads(w, WriteMap(f, d, known), tag, z)
                /\ MapIsWritten(w, z, f, d, Learnt(known, d))
PROOF
  <1> DEFINE n == Learnt(known, d)
             file == Holding(StringFromList(d))
             a == Write(Map(f), Empty, <<>>)
             b == Write(Map(f), file, n)
             y == After(w, a, tag)
             z == After(y, b, tag)
  <1>1. w.disk[Xml(f)] \in {Absent, Empty} \cup {Holding(labels) : labels \in Children}
    BY DEF Good, GoodDocument
  <1>2. GoodDocument(w.disk[Xml(f)], Empty, <<>>, f \in w.stale \ {f})
    BY <1>1 DEF GoodDocument
  <1>3. /\ Good(y) /\ y.versions = w.versions /\ y.disk[Map(f)] = Empty
        /\ \A p \in Paths : p # Map(f) => y.disk[p] = w.disk[p]
    BY <1>2, MapWritten
  <1> HIDE DEF n, file, y
  <1>4. GoodDocument(w.disk[Xml(f)], file, n, f \in w.stale \ {f})
    BY <1>1 DEF GoodDocument, n, file
  <1>5. y.disk[Xml(f)] = w.disk[Xml(f)]
    BY <1>3, PathFacts
  <1>6. /\ Good(z) /\ z.versions = y.versions /\ z.disk[Map(f)] = file /\ z.names[f] = n
        /\ \A p \in Paths : p # Map(f) => z.disk[p] = y.disk[p]
    BY <1>3, <1>4, <1>5, MapWritten
  <1>7. a.path \in Paths /\ b.path \in Paths
    BY PathFacts DEF Write
  <1> HIDE DEF z
  <1>8. WriteMap(f, d, known) = <<a, b>>
    BY DEF WriteMap, n, file
  <1> HIDE DEF a, b
  <1>9. Leads(w, <<a, b>>, tag, z)
    BY <1>3, <1>6, <1>7, TwoWritesLead DEF y, z
  <1>10. MapIsWritten(w, z, f, d, n)
    BY <1>3, <1>6 DEF MapIsWritten, file
  <1> QED
    BY <1>8, <1>9, <1>10 DEF n

(* A map can always be removed. *)
LEMMA RemovalLeads ==
  ASSUME NEW w, Good(w), NEW f \in File, NEW tag
  PROVE  \E z : /\ Leads(w, <<Write(Map(f), Absent, <<>>)>>, tag, z)
                /\ z.versions = w.versions
                /\ \A p \in Paths : p # Map(f) => z.disk[p] = w.disk[p]
PROOF
  <1> DEFINE a == Write(Map(f), Absent, <<>>)
             z == After(w, a, tag)
  <1>1. w.disk[Xml(f)] \in {Absent, Empty} \cup {Holding(labels) : labels \in Children}
    BY DEF Good, GoodDocument
  <1>2. GoodDocument(w.disk[Xml(f)], Absent, <<>>, f \in w.stale \ {f})
    BY <1>1 DEF GoodDocument
  <1>3. /\ Good(z) /\ z.versions = w.versions
        /\ \A p \in Paths : p # Map(f) => z.disk[p] = w.disk[p]
    BY <1>2, MapWritten
  <1>4. a.path \in Paths
    BY PathFacts DEF Write
  <1> HIDE DEF a
  <1>5. Leads(w, <<a>>, tag, z)
    BY <1>3, <1>4, OneWriteLeads
  <1> QED
    BY <1>3, <1>5 DEF a

(* A document is opened, whatever its map is. *)
LEMMA OpeningLeads ==
  ASSUME NEW w, Good(w), NEW f \in File, NEW tag \in BOOLEAN
  PROVE  \E z : /\ Leads(w, <<Write(Xml(f), Empty, <<>>)>>, tag, z)
                /\ z.disk[Xml(f)] = Empty
                /\ z.versions = w.versions /\ z.names = w.names
                /\ \A p \in Paths : p # Xml(f) => z.disk[p] = w.disk[p]
PROOF
  <1> DEFINE a == Write(Xml(f), Empty, <<>>)
             z == After(w, a, tag)
             m == w.disk[Map(f)]
             old == tag \/ f \in w.stale
  <1>1. GoodDocument(Empty, m, w.names[f], old)
    <2>1. \/ m = Absent \/ m = Empty
          \/ \E d : IsDoc(d) /\ m = Holding(StringFromList(d)) /\ Fits(w.names[f], d)
      BY DEF Good, GoodDocument
    <2>2. Empty.state # "written"
      BY DEF Empty
    <2> HIDE DEF m, old
    <2> QED
      BY <2>1, <2>2 DEF GoodDocument
  <1>2. /\ Good(z) /\ z.versions = w.versions /\ z.names = w.names /\ z.disk[Xml(f)] = Empty
        /\ \A p \in Paths : p # Xml(f) => z.disk[p] = w.disk[p]
    BY <1>1, DocumentWritten
  <1>3. a.path \in Paths
    BY PathFacts DEF Write
  <1> HIDE DEF a
  <1>4. Leads(w, <<a>>, tag, z)
    BY <1>2, <1>3, OneWriteLeads
  <1> QED
    BY <1>2, <1>4 DEF a

(* A document that goes with its map, or is tagged, is written. *)
LEMMA WritingLeads ==
  ASSUME NEW w, Good(w), NEW f \in File, NEW labels \in Children, NEW tag \in BOOLEAN,
         \/ tag
         \/ \E d : /\ IsDoc(d) /\ w.disk[Map(f)] = Holding(StringFromList(d))
                   /\ Fits(w.names[f], d) /\ labels = d.labels
  PROVE  \E z : /\ Leads(w, <<Write(Xml(f), Holding(labels), <<>>)>>, tag, z)
                /\ z.disk[Xml(f)] = Holding(labels)
                /\ z.versions = w.versions
                /\ \A p \in Paths : p # Xml(f) => z.disk[p] = w.disk[p]
PROOF
  <1> DEFINE a == Write(Xml(f), Holding(labels), <<>>)
             z == After(w, a, tag)
             m == w.disk[Map(f)]
             old == tag \/ f \in w.stale
  <1>1. GoodDocument(Holding(labels), m, w.names[f], old)
    <2>1. \/ m = Absent \/ m = Empty
          \/ \E d : IsDoc(d) /\ m = Holding(StringFromList(d)) /\ Fits(w.names[f], d)
      BY DEF Good, GoodDocument
    <2>2. Holding(labels).content = labels
      BY DEF Holding
    <2>3. CASE tag
      <3>1. old = TRUE
        BY <2>3
      <3> HIDE DEF m, old
      <3> QED
        BY <2>1, <3>1 DEF GoodDocument
    <2>4. CASE \E d : /\ IsDoc(d) /\ m = Holding(StringFromList(d))
                      /\ Fits(w.names[f], d) /\ labels = d.labels
      <3> HIDE DEF m, old
      <3> QED
        BY <2>2, <2>4 DEF GoodDocument
    <2> QED
      BY <2>3, <2>4
  <1>2. /\ Good(z) /\ z.versions = w.versions /\ z.disk[Xml(f)] = Holding(labels)
        /\ \A p \in Paths : p # Xml(f) => z.disk[p] = w.disk[p]
    BY <1>1, DocumentWritten
  <1>3. a.path \in Paths
    BY PathFacts DEF Write
  <1> HIDE DEF a
  <1>4. Leads(w, <<a>>, tag, z)
    BY <1>2, <1>3, OneWriteLeads
  <1> QED
    BY <1>2, <1>4 DEF a

(* The delta is opened and written. *)
LEMMA WriteDeltaLeads ==
  ASSUME NEW w, Good(w), NEW d, IsDoc(d), NEW labels \in Children, NEW tag
  PROVE  \E z : /\ Leads(w, WriteDelta(d, SecondVersion(d, labels)), tag, z)
                /\ \A p \in Paths : p # Delta => z.disk[p] = w.disk[p]
PROOF
  <1> DEFINE e == SecondVersion(d, labels)
             v == [from |-> d, to |-> e]
             a == Write(Delta, Empty, None)
             b == Write(Delta, Holding(DeltaBetween(d, e)), v)
             y == After(w, a, tag)
             z == After(y, b, tag)
  <1>1. GoodDelta(Empty, None)
    BY DEF GoodDelta
  <1>2. /\ Good(y) /\ \A p \in Paths : p # Delta => y.disk[p] = w.disk[p]
    BY <1>1, DeltaWritten
  <1>3. GoodDelta(Holding(DeltaBetween(d, e)), v)
    BY DEF GoodDelta
  <1> HIDE DEF e, v, y
  <1>4. /\ Good(z) /\ \A p \in Paths : p # Delta => z.disk[p] = y.disk[p]
    BY <1>2, <1>3, DeltaWritten
  <1>5. a.path \in Paths /\ b.path \in Paths
    BY PathFacts DEF Write
  <1>6. WriteDelta(d, e) = <<a, b>>
    BY DEF WriteDelta, v
  <1> HIDE DEF a, b, z
  <1>7. Leads(w, <<a, b>>, tag, z)
    BY <1>2, <1>4, <1>5, TwoWritesLead DEF y, z
  <1> QED
    BY <1>2, <1>4, <1>6, <1>7 DEF e

(* SaveAs leaves a document and its map. *)
LEMMA SaveAsLeads ==
  ASSUME NEW w, Good(w), NEW f \in File, NEW d, IsDoc(d), NEW known, Fits(Learnt(known, d), d),
         NEW tag \in BOOLEAN
  PROVE  \E z : /\ Leads(w, SaveAs(f, d, known), tag, z)
                /\ z.disk[Xml(f)] = Holding(d.labels)
                /\ z.disk[Map(f)] = Holding(StringFromList(d))
                /\ z.versions = w.versions /\ z.disk[Delta] = w.disk[Delta]
PROOF
  <1> DEFINE a == <<Write(Xml(f), Empty, <<>>)>>
             b == WriteMap(f, d, known)
             c == <<Write(Xml(f), Holding(d.labels), <<>>)>>
  <1>1. PICK x : /\ Leads(w, a, tag, x) /\ x.disk[Xml(f)] = Empty /\ x.versions = w.versions
                 /\ \A p \in Paths : p # Xml(f) => x.disk[p] = w.disk[p]
    BY OpeningLeads
  <1>2. Good(x) /\ x.disk[Xml(f)].state # "written"
    BY <1>1, LeadsFacts DEF Empty
  <1> HIDE DEF a, b, c
  <1>3. PICK y : Leads(x, b, tag, y) /\ MapIsWritten(x, y, f, d, Learnt(known, d))
    BY <1>2, WriteMapLeads DEF b
  <1>4. Good(y) /\ d.labels \in Children
    BY <1>3, LeadsFacts DEF IsDoc
  <1>5. y.disk[Map(f)] = Holding(StringFromList(d)) /\ Fits(y.names[f], d)
    BY <1>3 DEF MapIsWritten
  <1>6. PICK z : /\ Leads(y, c, tag, z) /\ z.disk[Xml(f)] = Holding(d.labels)
                 /\ z.versions = y.versions
                 /\ \A p \in Paths : p # Xml(f) => z.disk[p] = y.disk[p]
    BY <1>4, <1>5, WritingLeads DEF c
  <1>7. Leads(w, a \o b, tag, y)
    BY <1>1, <1>3, LeadsOn
  <1>8. Leads(w, (a \o b) \o c, tag, z)
    BY <1>6, <1>7, LeadsOn
  <1>9. SaveAs(f, d, known) = (a \o b) \o c
    BY DEF SaveAs, a, b, c
  <1>10. z.disk[Map(f)] = Holding(StringFromList(d))
    BY <1>5, <1>6, PathFacts
  <1>11. z.versions = w.versions /\ z.disk[Delta] = w.disk[Delta]
    BY <1>1, <1>3, <1>6, PathFacts DEF MapIsWritten
  <1> QED
    BY <1>6, <1>8, <1>9, <1>10, <1>11

(* A document saved without its map is tagged. *)
LEMMA SaveWithoutMapLeads ==
  ASSUME NEW w, Good(w), NEW f \in File, NEW d, IsDoc(d)
  PROVE  \E z : Leads(w, SaveWithoutMap(f, d), TRUE, z)
PROOF
  <1> DEFINE a == Write(Xml(f), Empty, <<>>)
             b == Write(Xml(f), Holding(d.labels), <<>>)
  <1>0. PICK tag \in BOOLEAN : tag = TRUE
    OBVIOUS
  <1>1. PICK y : Leads(w, <<a>>, tag, y)
    BY OpeningLeads
  <1>2. Good(y) /\ d.labels \in Children
    BY <1>1, LeadsFacts DEF IsDoc
  <1>3. PICK z : Leads(y, <<b>>, tag, z)
    BY <1>0, <1>2, WritingLeads
  <1> HIDE DEF a, b
  <1>4. Leads(w, <<a>> \o <<b>>, tag, z)
    BY <1>1, <1>3, LeadsOn
  <1>5. <<a>> \o <<b>> = SaveWithoutMap(f, d)
    BY OneAndOne DEF SaveWithoutMap, a, b
  <1> QED
    BY <1>0, <1>4, <1>5

(* A result without a root leaves two empty files. *)
LEMMA SaveRootlessLeads ==
  ASSUME NEW w, Good(w), NEW f \in File, NEW tag \in BOOLEAN
  PROVE  \E z : /\ Leads(w, SaveRootless(f), tag, z)
                /\ z.versions = w.versions /\ z.disk[Delta] = w.disk[Delta]
PROOF
  <1> DEFINE a == Write(Xml(f), Empty, <<>>)
             b == Write(Map(f), Empty, <<>>)
  <1>1. PICK y : /\ Leads(w, <<a>>, tag, y) /\ y.versions = w.versions
                 /\ \A p \in Paths : p # Xml(f) => y.disk[p] = w.disk[p]
    BY OpeningLeads
  <1>2. Good(y)
    BY <1>1, LeadsFacts
  <1>3. y.disk[Xml(f)] \in {Absent, Empty} \cup {Holding(labels) : labels \in Children}
    BY <1>2 DEF Good, GoodDocument
  <1>4. GoodDocument(y.disk[Xml(f)], Empty, <<>>, f \in y.stale \ {f})
    BY <1>3 DEF GoodDocument
  <1>5. /\ Good(After(y, b, tag)) /\ After(y, b, tag).versions = y.versions
        /\ \A p \in Paths : p # Map(f) => After(y, b, tag).disk[p] = y.disk[p]
    BY <1>2, <1>4, MapWritten
  <1>6. b.path \in Paths
    BY PathFacts DEF Write
  <1> HIDE DEF a, b
  <1>7. Leads(y, <<b>>, tag, After(y, b, tag))
    BY <1>2, <1>5, <1>6, OneWriteLeads
  <1>8. Leads(w, <<a>> \o <<b>>, tag, After(y, b, tag))
    BY <1>1, <1>7, LeadsOn
  <1>9. <<a>> \o <<b>> = SaveRootless(f)
    BY OneAndOne DEF SaveRootless, a, b
  <1> DEFINE z == After(y, b, tag)
  <1> HIDE DEF z
  <1>10. z.versions = w.versions /\ z.disk[Delta] = w.disk[Delta]
    BY <1>1, <1>5, PathFacts DEF z
  <1> QED
    BY <1>8, <1>9, <1>10 DEF z

(* What is on the disk of a good world, for one document. *)
LEMMA DocumentFacts ==
  ASSUME Good(Now), NEW f \in File
  PROVE  /\ disk[Xml(f)] \in {Absent, Empty} \cup {Holding(labels) : labels \in Children}
         /\ Readable(Xml(f)) => Labels(f) \in Children
         /\ \/ disk[Map(f)] = Absent \/ disk[Map(f)] = Empty
            \/ \E d : /\ IsDoc(d) /\ disk[Map(f)] = Holding(StringFromList(d)) /\ Fits(names[f], d)
                      /\ Readable(Xml(f)) /\ f \notin stale => Labels(f) = d.labels
PROOF
  <1>1. GoodDocument(disk[Xml(f)], disk[Map(f)], names[f], f \in stale)
    BY DEF Good, Now, World
  <1>2. disk[Xml(f)] \in {Absent, Empty} \cup {Holding(labels) : labels \in Children}
    BY <1>1 DEF GoodDocument
  <1>3. Readable(Xml(f)) => Labels(f) \in Children
    BY <1>2 DEF Readable, Labels, Holding, Absent, Empty
  <1>4. \/ disk[Map(f)] = Absent \/ disk[Map(f)] = Empty
        \/ \E d : /\ IsDoc(d) /\ disk[Map(f)] = Holding(StringFromList(d)) /\ Fits(names[f], d)
                  /\ Readable(Xml(f)) /\ f \notin stale => Labels(f) = d.labels
    BY <1>1 DEF GoodDocument, Readable, Labels
  <1> QED
    BY <1>2, <1>3, <1>4

(* What is loaded is a document with XIDs, and its map is written if there was none. *)
LEMMA LoadLeads ==
  ASSUME Good(Now), NEW f \in File, NEW tag
  PROVE  LET first == Load(f)
             d     == first.source
         IN /\ first.ends \in {"ok", "exception", "undefined"}
            /\ first.ends # "ok" => first.writes = <<>>
            /\ first.ends = "ok" =>
                 /\ IsDoc(d) /\ d.labels = Labels(f) /\ Readable(Xml(f))
                 /\ Fits(Learnt(Known(f), d), d)
                 /\ \E z : /\ Leads(Now, first.writes, tag, z) /\ z.versions = versions
                           /\ \A p \in Paths : p # Map(f) => z.disk[p] = disk[p]
PROOF
  <1> DEFINE first == Load(f)
             d == first.source
             x == DefaultXids(Labels(f))
             r == Registered(MapString(f), Labels(f))
             how == Registering(MapString(f), Labels(f))
  <1>0. Now.disk = disk /\ (\A p : Now.disk[p] = disk[p]) /\ Now.versions = versions
    BY DEF Now, World
  <1>1. CASE ~Readable(Xml(f))
    <2>1. first = [Nothing EXCEPT !.ends = "undefined"]
      BY <1>1 DEF Load
    <2> QED
      BY <2>1 DEF Nothing
  <1>2. CASE Readable(Xml(f)) /\ disk[Map(f)] = Absent
    <2>0. disk[Map(f)] # Empty
      BY <1>2 DEF Absent, Empty
    <2>1. first = [Nothing EXCEPT !.source = x, !.writes = WriteMap(f, x, <<>>)]
      BY <1>2, <2>0 DEF Load
    <2>2. Labels(f) \in Children
      BY <1>2, DocumentFacts
    <2>3. IsDoc(x) /\ x.labels = Labels(f)
      BY <2>2, DefaultIsDoc
    <2> HIDE DEF x
    <2>4. first.ends = "ok" /\ first.source = x /\ first.writes = WriteMap(f, x, <<>>)
      BY <2>1 DEF Nothing
    <2>5. Fits(Learnt(<<>>, x), x)
      BY <2>3, OwnNamesFit
    <2>6. Known(f) = <<>>
      BY <1>2 DEF Known
    <2>7. Now.disk[Xml(f)].state = "written" => Now.disk[Xml(f)].content = x.labels
      BY <1>0, <2>3 DEF Labels
    <2>8. PICK z : /\ Leads(Now, WriteMap(f, x, <<>>), tag, z)
                   /\ MapIsWritten(Now, z, f, x, Learnt(<<>>, x))
      BY <2>3, <2>5, <2>7, WriteMapLeads
    <2>9. (\A p \in Paths : p # Map(f) => z.disk[p] = disk[p]) /\ z.versions = versions
      BY <1>0, <2>8 DEF MapIsWritten
    <2> HIDE DEF first
    <2> QED
      BY <1>2, <2>3, <2>4, <2>5, <2>6, <2>8, <2>9 DEF first
  <1>3. CASE Readable(Xml(f)) /\ disk[Map(f)] = Empty
    <2>1. disk[Map(f)] # Absent
      BY <1>3 DEF Absent, Empty
    <2>2. first = [Nothing EXCEPT !.ends = "exception"]
      BY <1>3, <2>1 DEF Load
    <2> QED
      BY <2>2 DEF Nothing
  <1>4. CASE Readable(Xml(f)) /\ disk[Map(f)] # Absent /\ disk[Map(f)] # Empty
    <2>1. first = [Nothing EXCEPT !.ends = how, !.source = r]
      BY <1>4 DEF Load
    <2> HIDE DEF r, how
    <2>2. first.ends = how /\ first.source = r /\ first.writes = <<>>
      BY <2>1 DEF Nothing
    <2>3. Labels(f) \in Children
      BY <1>4, DocumentFacts
    <2>4. PICK e : /\ IsDoc(e) /\ disk[Map(f)] = Holding(StringFromList(e)) /\ Fits(names[f], e)
                   /\ f \notin stale => Labels(f) = e.labels
      BY <1>4, DocumentFacts
    <2>5. MapString(f) = StringFromList(e)
      BY <2>4 DEF MapString, Holding
    <2>6. /\ how \in {"ok", "exception", "undefined"}
          /\ how = "ok" => IsDoc(r) /\ r.labels = Labels(f)
          /\ f \notin stale => r = e
      <3>1. /\ how = "ok" <=> Cardinality(Labels(f)) = Cardinality(e.labels)
            /\ how \in {"ok", "exception", "undefined"}
            /\ r = [labels |-> Labels(f), xids |-> e.xids, first |-> e.first]
            /\ Cardinality(Labels(f)) = Cardinality(e.labels) => IsDoc(r)
            /\ Labels(f) = e.labels => r = e
        BY <2>3, <2>4, <2>5, RegisteredFacts DEF how, r
      <3> QED
        BY <2>4, <3>1
    <2>7. Known(f) = <<>> \/ Fits(Known(f), r)
      BY <1>4, <2>4, <2>6 DEF Known
    <2>8. ASSUME how = "ok"
          PROVE  Fits(Learnt(Known(f), r), r)
      BY <2>6, <2>7, <2>8, OwnNamesFit
    <2>9. Leads(Now, <<>>, tag, Now)
      BY NoWriteLeads
    <2>10. \E z : /\ Leads(Now, <<>>, tag, z) /\ z.versions = versions
                  /\ \A p \in Paths : p # Map(f) => z.disk[p] = disk[p]
      BY <1>0, <2>9
    <2> HIDE DEF first
    <2> QED
      BY <1>4, <2>2, <2>6, <2>8, <2>10 DEF first
  <1> QED
    BY <1>1, <1>2, <1>3, <1>4

(* The second version of a document follows the first. *)
LEMMA SecondFollows ==
  ASSUME NEW d, IsDoc(d), NEW labels \in Children
  PROVE  LET e == SecondVersion(d, labels)
         IN IsDoc(e) /\ e.labels = labels /\ Follows(e, d)
PROOF
  <1> DEFINE e == SecondVersion(d, labels)
  <1>1. /\ IsDoc(e) /\ e.labels = labels /\ RootXid(e) = RootXid(d)
        /\ d.first <= e.first
        /\ \A l \in labels : l \in d.labels => XidOf(e, l) = XidOf(d, l)
        /\ \A l \in labels : l \notin d.labels => d.first <= XidOf(e, l)
    BY SecondFacts
  <1> HIDE DEF e
  <1>2. Follows(e, d)
    BY <1>1 DEF Follows
  <1> QED
    BY <1>1, <1>2 DEF e

(* XyDiff loads, removes the second map, writes it anew and the delta at the end. *)
LEMMA DiffLeads ==
  ASSUME Good(Now), NEW f0 \in File, NEW f1 \in File, NEW tag
  PROVE  /\ \E z : Leads(Now, Diff(f0, f1).writes, tag, z)
         /\ Diff(f0, f1).ends \in {"ok", "exception", "undefined"}
PROOF
  <1> DEFINE first == Load(f0)
             d == first.source
             a == first.writes
             b == RemoveOldMap(f1, f0 = f1)
             labels == Labels(f1)
             e == SecondVersion(d, labels)
             known == Learnt(Known(f0), d)
             c == SaveResultingXidMap(f1, e, known)
             g == WriteDelta(d, e)
  <1>1. /\ first.ends \in {"ok", "exception", "undefined"}
        /\ first.ends # "ok" => a = <<>>
        /\ first.ends = "ok" =>
             /\ IsDoc(d) /\ Fits(known, d)
             /\ \E z : /\ Leads(Now, a, tag, z)
                       /\ \A p \in Paths : p # Map(f0) => z.disk[p] = disk[p]
    BY LoadLeads
  <1>2. /\ first.ends # "ok" => Diff(f0, f1) = first
        /\ first.ends = "ok" /\ ~Readable(Xml(f1)) =>
             Diff(f0, f1) = [first EXCEPT !.writes = a \o b, !.ends = "undefined"]
        /\ first.ends = "ok" /\ Readable(Xml(f1)) =>
             Diff(f0, f1) = [first EXCEPT !.writes = (a \o b) \o (c \o g)]
    BY DEF Diff, MapThenDelta
  <1>3. DOMAIN first = {"writes", "ends", "source"}
    BY LoadFacts DEF IsPlan
  <1> HIDE DEF first
  <1>4. CASE first.ends # "ok"
    BY <1>1, <1>2, <1>4, NoWriteLeads
  <1>5. CASE first.ends = "ok"
    <2>1. PICK x : /\ Leads(Now, a, tag, x)
                   /\ \A p \in Paths : p # Map(f0) => x.disk[p] = disk[p]
      BY <1>1, <1>5
    <2>2. PICK y : /\ Leads(Now, a \o b, tag, y) /\ y.disk[Xml(f1)] = disk[Xml(f1)]
      <3>1. Good(x)
        BY <2>1, LeadsFacts
      <3>2. x.disk[Xml(f1)] = disk[Xml(f1)]
        BY <2>1, PathFacts
      <3>3. \E y : Leads(x, b, tag, y) /\ y.disk[Xml(f1)] = x.disk[Xml(f1)]
        <4>1. CASE b = <<>>
          BY <3>1, <4>1, NoWriteLeads
        <4>2. CASE b = <<Write(Map(f1), Absent, <<>>)>>
          <5>1. PICK y : /\ Leads(x, <<Write(Map(f1), Absent, <<>>)>>, tag, y)
                         /\ \A p \in Paths : p # Map(f1) => y.disk[p] = x.disk[p]
            BY <3>1, RemovalLeads
          <5>2. y.disk[Xml(f1)] = x.disk[Xml(f1)]
            BY <5>1, PathFacts
          <5> QED
            BY <4>2, <5>1, <5>2
        <4> QED
          BY <4>1, <4>2 DEF RemoveOldMap
      <3>4. PICK y : Leads(x, b, tag, y) /\ y.disk[Xml(f1)] = x.disk[Xml(f1)]
        BY <3>3
      <3> HIDE DEF a, b
      <3>5. Leads(Now, a \o b, tag, y)
        BY <2>1, <3>4, LeadsOn
      <3> QED
        BY <3>2, <3>4, <3>5
    <2>3. CASE ~Readable(Xml(f1))
      <3>1. Diff(f0, f1) = [first EXCEPT !.writes = a \o b, !.ends = "undefined"]
        BY <1>2, <1>5, <2>3
      <3>2. Diff(f0, f1).writes = a \o b /\ Diff(f0, f1).ends = "undefined"
        BY <1>3, <3>1
      <3> QED
        BY <2>2, <3>2
    <2>4. CASE Readable(Xml(f1))
      <3>1. Diff(f0, f1) = [first EXCEPT !.writes = (a \o b) \o (c \o g)]
        BY <1>2, <1>5, <2>4
      <3>2. Diff(f0, f1).writes = (a \o b) \o (c \o g) /\ Diff(f0, f1).ends = "ok"
        BY <1>3, <1>5, <3>1
      <3>3. IsDoc(d) /\ Fits(known, d) /\ labels \in Children
        BY <1>1, <1>5, <2>4, DocumentFacts
      <3>4. IsDoc(e) /\ e.labels = labels /\ Follows(e, d)
        BY <3>3, SecondFollows
      <3>5. Good(y)
        BY <2>2, LeadsFacts
      <3> HIDE DEF a, b, known, d, labels
      <3>6. \E z : Leads(y, c, tag, z)
        <4> HIDE DEF e
        <4>1. CASE c = <<>>
          BY <3>5, <4>1, NoWriteLeads
        <4>2. CASE c = WriteMap(f1, e, known)
          <5>1. Fits(Learnt(known, e), e)
            BY <3>3, <3>4, NamesFitOn
          <5>2. y.disk[Xml(f1)].state = "written" => y.disk[Xml(f1)].content = e.labels
            BY <2>2, <3>4 DEF Labels, labels
          <5>3. \E z : Leads(y, WriteMap(f1, e, known), tag, z)
            BY <3>4, <3>5, <5>1, <5>2, WriteMapLeads
          <5> QED
            BY <4>2, <5>3
        <4> QED
          BY <4>1, <4>2 DEF SaveResultingXidMap
      <3>7. PICK z : Leads(y, c, tag, z)
        BY <3>6
      <3>8. Good(z)
        BY <3>7, LeadsFacts
      <3>9. PICK v : Leads(z, g, tag, v)
        BY <3>3, <3>8, WriteDeltaLeads
      <3> HIDE DEF c, g
      <3>10. Leads(y, c \o g, tag, v)
        BY <3>7, <3>9, LeadsOn
      <3>11. Leads(Now, (a \o b) \o (c \o g), tag, v)
        BY <2>2, <3>10, LeadsOn
      <3> QED
        BY <3>2, <3>11
    <2> QED
      BY <2>3, <2>4
  <1> QED
    BY <1>4, <1>5

(* RunDiff saves a tagged document without its map, which is then stale. *)
LEMMA TagLeads ==
  ASSUME Good(Now), NEW f0 \in File, NEW f1 \in File
  PROVE  /\ \E z : Leads(Now, Tag(f0, f1).writes, TRUE, z)
         /\ Tag(f0, f1).ends \in {"ok", "exception", "undefined"}
PROOF
  <1> DEFINE first == Load(f0)
             d == first.source
             a == first.writes
             b == SaveWithoutMap(f1, d)
  <1>0. PICK tag : tag = TRUE
    OBVIOUS
  <1>1. /\ first.ends \in {"ok", "exception", "undefined"}
        /\ first.ends # "ok" => a = <<>>
        /\ first.ends = "ok" => IsDoc(d) /\ \E z : Leads(Now, a, tag, z)
    BY LoadLeads
  <1>2. /\ first.ends # "ok" => Tag(f0, f1) = first
        /\ first.ends = "ok" => Tag(f0, f1) = [first EXCEPT !.writes = a \o b]
    BY DEF Tag
  <1>3. DOMAIN first = {"writes", "ends", "source"}
    BY LoadFacts DEF IsPlan
  <1> HIDE DEF first
  <1>4. CASE first.ends # "ok"
    BY <1>1, <1>2, <1>4, NoWriteLeads
  <1>5. CASE first.ends = "ok"
    <2>1. PICK y : Leads(Now, a, tag, y)
      BY <1>1, <1>5
    <2>2. Good(y)
      BY <2>1, LeadsFacts
    <2>3. PICK z : Leads(y, b, tag, z)
      BY <1>0, <1>1, <1>5, <2>2, SaveWithoutMapLeads
    <2> HIDE DEF a, b
    <2>4. Leads(Now, a \o b, tag, z)
      BY <2>1, <2>3, LeadsOn
    <2>5. Tag(f0, f1).writes = a \o b /\ Tag(f0, f1).ends = "ok"
      BY <1>2, <1>3, <1>5
    <2> QED
      BY <1>0, <2>4, <2>5
  <1> QED
    BY <1>4, <1>5

(* A delta file that can be read is that of the versions that are known. *)
LEMMA DeltaOnDisk ==
  ASSUME Good(Now)
  PROVE  /\ disk[Delta] \in {Absent, Empty} \/ Readable(Delta)
         /\ Readable(Delta) /\ DeltaRead # VersionFile =>
              \E d : \E labels \in Children :
                /\ IsDoc(d) /\ versions = [from |-> d, to |-> SecondVersion(d, labels)]
                /\ DeltaRead = DeltaBetween(d, SecondVersion(d, labels))
         /\ Readable(Delta) /\ DeltaRead = VersionFile =>
              \/ versions = None
              \/ \E d : \E labels \in Children :
                   IsDoc(d) /\ VersionFile = DeltaBetween(d, SecondVersion(d, labels))
PROOF
  <1>1. GoodDelta(disk[Delta], versions)
    BY DEF Good, Now, World
  <1>2. CASE versions = None /\ disk[Delta] \in {Absent, Empty, Holding(VersionFile)}
    BY <1>2 DEF Readable, DeltaRead, Absent, Empty, Holding
  <1>3. ASSUME NEW d, NEW labels \in Children, IsDoc(d),
               versions = [from |-> d, to |-> SecondVersion(d, labels)],
               disk[Delta] = Holding(DeltaBetween(d, SecondVersion(d, labels)))
        PROVE  /\ Readable(Delta)
               /\ DeltaRead = DeltaBetween(d, SecondVersion(d, labels))
    BY <1>3 DEF Readable, DeltaRead, Holding
  <1> QED
    BY <1>1, <1>2, <1>3 DEF GoodDelta

(* What a delta makes of the version it was computed from has new XIDs only. *)
LEMMA AppliedFollows ==
  ASSUME NEW d, IsDoc(d), NEW labels \in Children, NEW delta,
         delta = DeltaBetween(d, SecondVersion(d, labels)), Applying(d, delta) = "ok"
  PROVE  Follows(Applied(d, delta), d)
PROOF
  <1> DEFINE e == SecondVersion(d, labels)
             a == Applied(d, delta)
             new == delta.new
  <1>1. IsDoc(e) /\ e.labels = labels
    BY SecondFacts
  <1>2. \A l \in labels : l \notin d.labels => d.first <= XidOf(e, l)
    BY SecondFacts
  <1>0. delta = DeltaBetween(d, e)
    OBVIOUS
  <1> HIDE DEF e
  <1>3. /\ IsDelta(delta)
        /\ \A k \in DOMAIN new : /\ new[k].label \in e.labels \ d.labels
                                 /\ new[k].xid = XidOf(e, new[k].label)
    <2>1. IsDelta(delta) /\ Brings(delta, d, e)
      BY <1>0, <1>1, DeltaFacts
    <2> QED
      BY <2>1 DEF Brings
  <1>4. /\ RootXid(a) = RootXid(d) /\ d.first <= a.first
        /\ \A l \in a.labels :
             \/ l \in d.labels /\ XidOf(a, l) = XidOf(d, l)
             \/ \E n \in DOMAIN new : l = new[n].label /\ XidOf(a, l) = new[n].xid
    BY <1>3, AppliedFacts
  <1> HIDE DEF new, a
  <1>5. \A n \in DOMAIN new : d.first <= new[n].xid
    BY <1>1, <1>2, <1>3
  <1>6. Follows(a, d)
    BY <1>4, <1>5 DEF Follows
  <1> QED
    BY <1>6 DEF a

-----------------------------------------------------------------------------
(***************************************************************************)
(* The delta between two versions, applied to the first, gives the second. *)
(***************************************************************************)

(* The children with these labels, in order and with their XIDs in a document. *)
Listing(kids, T, e) ==
  /\ kids \in Seq(Kid)
  /\ \A k \in 1 .. Len(kids) : kids[k].label \in T /\ kids[k].xid = XidOf(e, kids[k].label)
  /\ \A l \in T : \E k \in 1 .. Len(kids) : kids[k].label = l
  /\ \A k, l \in 1 .. Len(kids) : k < l => kids[k].label < kids[l].label

(* Each child of a listing is at the place that its label has among the labels. *)
LEMMA ListingPlaces ==
  ASSUME NEW kids, NEW T, NEW e, Listing(kids, T, e)
  PROVE  /\ IsFiniteSet(T) /\ T \subseteq Nat /\ Cardinality(T) = Len(kids)
         /\ \A k \in 1 .. Len(kids) : Cardinality({l \in T : l <= kids[k].label}) = k
PROOF
  <1> DEFINE n == Len(kids)
             w == [k \in 1 .. n |-> kids[k].label]
             id == [l \in T |-> l]
  <1>1. /\ n \in Nat /\ DOMAIN kids = 1 .. n
        /\ \A k \in 1 .. n : kids[k].label \in Nat
    BY KidsFacts DEF Listing
  <1>2. /\ \A k \in 1 .. n : kids[k].label \in T
        /\ \A l \in T : \E k \in 1 .. n : kids[k].label = l
        /\ \A k, l \in 1 .. n : k < l => kids[k].label < kids[l].label
    BY DEF Listing
  <1>3. T \subseteq Nat
    BY <1>1, <1>2
  <1>4. (\A k \in 1 .. n : w[k] = kids[k].label) /\ \A l \in T : id[l] = l
    OBVIOUS
  <1>5. w = [k \in 1 .. n |-> w[k]]
    OBVIOUS
  <1> HIDE DEF w, id, n
  <1>6. w \in Seq(T) /\ DOMAIN w = 1 .. n /\ Len(w) = n
    BY <1>1, <1>2, <1>4, <1>5
  <1>7. \A l \in T : id[l] \in Int /\ \E k \in DOMAIN w : w[k] = l
    BY <1>2, <1>3, <1>4, <1>6
  <1>8. \A k, l \in DOMAIN w : k < l => id[w[k]] < id[w[l]]
    BY <1>2, <1>4, <1>6
  <1>9. Lists(w, T, id)
    BY <1>6, <1>7, <1>8 DEF Lists
  <1>10. /\ IsFiniteSet(T) /\ Cardinality(T) = n
         /\ \A k \in 1 .. n : Cardinality({l \in T : id[l] <= id[w[k]]}) = k
    BY <1>6, <1>9, ListedPlaces
  <1>11. \A k \in 1 .. n : {l \in T : id[l] <= id[w[k]]} = {l \in T : l <= kids[k].label}
    BY <1>2, <1>4
  <1> QED
    BY <1>3, <1>10, <1>11 DEF n

(* u is s with an element put in at p. *)
HasPutIn(u, s, p, x) ==
  /\ Len(u) = Len(s) + 1
  /\ \A k \in 1 .. (Len(s) + 1) :
       u[k] = IF k < p THEN s[k] ELSE IF k = p THEN x ELSE s[k - 1]

(* PutIn for children. *)
LEMMA KidPutIn ==
  ASSUME NEW kids \in Seq(Kid), NEW x \in Kid, NEW p \in 1 .. (Len(kids) + 1)
  PROVE  InsertAt(kids, p, x) \in Seq(Kid) /\ HasPutIn(InsertAt(kids, p, x), kids, p, x)
PROOF
  BY PutIn DEF HasPutIn

(* A child put in where it belongs. *)
LEMMA ListingGrows ==
  ASSUME NEW kids, NEW T, NEW e, Listing(kids, T, e),
         NEW x \in Kid, x.label \notin T, x.xid = XidOf(e, x.label),
         NEW p, p = Cardinality({l \in T : l < x.label}) + 1
  PROVE  /\ p \in 1 .. (Len(kids) + 1)
         /\ Listing(InsertAt(kids, p, x), T \cup {x.label}, e)
PROOF
  <1> DEFINE n == Len(kids)
             u == InsertAt(kids, p, x)
             B == {l \in T : l < x.label}
             UpTo(k) == {l \in T : l <= kids[k].label}
  <1>1. /\ kids \in Seq(Kid) /\ n \in Nat
        /\ \A k \in 1 .. n : kids[k].label \in Nat
    BY KidsFacts DEF Listing
  <1>2. /\ \A k \in 1 .. n : kids[k].label \in T /\ kids[k].xid = XidOf(e, kids[k].label)
        /\ \A l \in T : \E k \in 1 .. n : kids[k].label = l
        /\ \A k, l \in 1 .. n : k < l => kids[k].label < kids[l].label
    BY DEF Listing
  <1>3. /\ IsFiniteSet(T) /\ T \subseteq Nat /\ Cardinality(T) = n
        /\ \A k \in 1 .. n : Cardinality(UpTo(k)) = k
    BY ListingPlaces
  <1>4. x.label \in Nat
    BY FilesAssumption DEF Kid, FilesAssumption
  <1>5. /\ IsFiniteSet(B) /\ Cardinality(B) \in Nat /\ Cardinality(B) <= n
        /\ B \subseteq T
    <2>1. B \subseteq T
      OBVIOUS
    <2> QED
      BY <1>3, <2>1, FS_Subset, FS_CardinalityType
  <1>6. p \in 1 .. (n + 1) /\ p \in Nat /\ Cardinality(B) = p - 1
    BY <1>1, <1>5
  <1>7. ASSUME NEW k \in 1 .. n
        PROVE  /\ k < p => kids[k].label < x.label
               /\ p <= k => x.label < kids[k].label
    <2> DEFINE U == UpTo(k)
    <2>0. kids[k].label \in Nat /\ kids[k].label \in T /\ kids[k].label # x.label
      BY <1>1, <1>2
    <2>1. IsFiniteSet(U) /\ Cardinality(U) = k
      <3>1. U \subseteq T
        OBVIOUS
      <3> QED
        BY <1>3, <3>1, FS_Subset
    <2>2. ASSUME kids[k].label < x.label
          PROVE  k < p
      <3>1. U \subseteq B
        <4>1. ASSUME NEW l \in U
              PROVE  l \in B
          <5>1. l \in T /\ l \in Nat /\ l <= kids[k].label
            BY <1>3
          <5>2. l < x.label
            BY <1>4, <2>0, <2>2, <5>1
          <5> QED
            BY <5>1, <5>2
        <4> QED
          BY <4>1
      <3> HIDE DEF U, B
      <3>2. k <= Cardinality(B)
        BY <1>5, <2>1, <3>1, FS_Subset
      <3> QED
        BY <1>6, <3>2
    <2>3. ASSUME x.label < kids[k].label
          PROVE  p <= k
      <3> DEFINE l == kids[k].label
      <3>1. B \cup {l} \subseteq U /\ l \notin B
        <4>1. ASSUME NEW m \in B
              PROVE  m \in U
          <5>1. m \in T /\ m \in Nat /\ m < x.label
            BY <1>3
          <5>2. m <= kids[k].label
            BY <1>4, <2>0, <2>3, <5>1
          <5> QED
            BY <5>1, <5>2
        <4>2. l \in U /\ ~(l < x.label)
          BY <1>4, <2>0, <2>3
        <4> QED
          BY <4>1, <4>2
      <3> HIDE DEF U, B, l
      <3>2. /\ IsFiniteSet(B \cup {l}) /\ Cardinality(B \cup {l}) = Cardinality(B) + 1
        BY <1>5, <3>1, FS_AddElement
      <3>3. Cardinality(B \cup {l}) <= k
        BY <2>1, <3>1, FS_Subset
      <3> QED
        BY <1>6, <3>2, <3>3
    <2>4. kids[k].label < x.label \/ x.label < kids[k].label
      BY <1>4, <2>0
    <2> HIDE DEF U
    <2> QED
      BY <1>1, <1>6, <2>2, <2>3, <2>4
  <1>8. /\ u \in Seq(Kid) /\ Len(u) = n + 1
        /\ \A k \in 1 .. (n + 1) :
             u[k] = IF k < p THEN kids[k] ELSE IF k = p THEN x ELSE kids[k - 1]
    <2>1. kids \in Seq(Kid) /\ x \in Kid /\ p \in 1 .. (Len(kids) + 1)
      BY <1>1, <1>6
    <2>2. u \in Seq(Kid) /\ HasPutIn(u, kids, p, x)
      BY <2>1, KidPutIn
    <2> HIDE DEF u
    <2> QED
      BY <2>2 DEF HasPutIn
  <1> HIDE DEF u, n, B, UpTo
  <1>9. \A k \in 1 .. (n + 1) : \/ k \in 1 .. n /\ k < p /\ u[k] = kids[k]
                                \/ k = p /\ u[k] = x
                                \/ k - 1 \in 1 .. n /\ p <= k - 1 /\ p < k /\ u[k] = kids[k - 1]
    BY <1>1, <1>6, <1>8
  <1>10. \A k \in 1 .. (n + 1) :
           u[k].label \in T \cup {x.label} /\ u[k].xid = XidOf(e, u[k].label)
    BY <1>2, <1>9
  <1>11. \A l \in T \cup {x.label} : \E k \in 1 .. (n + 1) : u[k].label = l
    <2>1. ASSUME NEW l \in T
          PROVE  \E k \in 1 .. (n + 1) : u[k].label = l
      <3>1. PICK k \in 1 .. n : kids[k].label = l
        BY <1>2
      <3>2. CASE k < p
        <4>1. k \in 1 .. (n + 1) /\ u[k] = kids[k]
          BY <1>1, <1>8, <3>2
        <4> QED
          BY <3>1, <4>1
      <3>3. CASE ~(k < p)
        <4>1. k + 1 \in 1 .. (n + 1) /\ ~(k + 1 < p) /\ k + 1 # p /\ (k + 1) - 1 = k
          BY <1>1, <1>6, <3>3
        <4>2. u[k + 1] = kids[k]
          BY <1>8, <4>1
        <4> QED
          BY <3>1, <4>1, <4>2
      <3> QED
        BY <3>2, <3>3
    <2>2. p \in 1 .. (n + 1) /\ u[p] = x
      <3>1. p \in 1 .. (n + 1) /\ ~(p < p)
        BY <1>6
      <3> QED
        BY <1>8, <3>1
    <2> QED
      BY <2>1, <2>2
  <1>12. ASSUME NEW k \in 1 .. (n + 1), NEW l \in 1 .. (n + 1), k < l
         PROVE  u[k].label < u[l].label
    <2>1. CASE k < p /\ l < p
      <3>1. k \in 1 .. n /\ l \in 1 .. n /\ u[k] = kids[k] /\ u[l] = kids[l]
        BY <1>1, <1>6, <1>8, <2>1
      <3> QED
        BY <1>2, <1>12, <3>1
    <2>2. CASE k < p /\ l = p
      <3>1. k \in 1 .. n /\ u[k] = kids[k] /\ u[l] = x
        BY <1>1, <1>6, <1>8, <2>2
      <3> QED
        BY <1>7, <2>2, <3>1
    <2>3. CASE k < p /\ p < l
      <3>1. k \in 1 .. n /\ l - 1 \in 1 .. n /\ p <= l - 1 /\ u[k] = kids[k] /\ u[l] = kids[l - 1]
        BY <1>1, <1>6, <1>8, <2>3
      <3>2. kids[k].label < x.label /\ x.label < kids[l - 1].label
        BY <1>7, <2>3, <3>1
      <3>3. kids[k].label \in Nat /\ kids[l - 1].label \in Nat
        BY <1>1, <3>1
      <3> QED
        BY <1>4, <3>1, <3>2, <3>3
    <2>4. CASE k = p /\ p < l
      <3>1. l - 1 \in 1 .. n /\ p <= l - 1 /\ u[k] = x /\ u[l] = kids[l - 1]
        BY <1>1, <1>6, <1>8, <2>4
      <3> QED
        BY <1>7, <3>1
    <2>5. CASE p < k /\ p < l
      <3>1. /\ k - 1 \in 1 .. n /\ l - 1 \in 1 .. n /\ k - 1 < l - 1
            /\ u[k] = kids[k - 1] /\ u[l] = kids[l - 1]
        BY <1>1, <1>6, <1>8, <1>12, <2>5
      <3> QED
        BY <1>2, <3>1
    <2> QED
      BY <1>1, <1>6, <1>12, <2>1, <2>2, <2>3, <2>4, <2>5
  <1>13. Listing(u, T \cup {x.label}, e)
    BY <1>8, <1>10, <1>11, <1>12 DEF Listing
  <1> QED
    BY <1>6, <1>13 DEF u, n

(* What the delta from a document to its second version leaves of the first. *)
LEMMA KeptLabels ==
  ASSUME NEW d, IsDoc(d), NEW labels \in Children, NEW e, e = SecondVersion(d, labels),
         NEW delta, delta = DeltaBetween(d, e)
  PROVE  KeptOf(d, delta) = d.labels \cap labels
PROOF
  <1>1. /\ IsDoc(e) /\ e.labels = labels /\ RootXid(e) = RootXid(d)
        /\ \A l \in labels : l \in d.labels => XidOf(e, l) = XidOf(d, l)
        /\ \A l \in labels : l \notin d.labels => d.first <= XidOf(e, l)
    BY SecondFacts
  <1>2. delta.gone = XidsIn(d) \ XidsIn(e)
    BY DEF DeltaBetween
  <1>3. d.first \in Nat
    BY DEF IsDoc
  <1>4. ASSUME NEW l \in d.labels, l \in labels
        PROVE  XidOf(d, l) \notin delta.gone
    <2>1. XidOf(e, l) \in XidsIn(e) /\ XidOf(e, l) = XidOf(d, l)
      BY <1>1, <1>4, DocFacts
    <2> QED
      BY <1>2, <2>1
  <1>5. ASSUME NEW l \in d.labels, XidOf(d, l) \notin delta.gone
        PROVE  l \in labels
    <2>1. XidOf(d, l) \in XidsIn(d) /\ XidOf(d, l) # RootXid(d)
      BY DocFacts
    <2>2. XidOf(d, l) \in Nat /\ XidOf(d, l) < d.first
      BY <2>1, DocFacts
    <2>3. XidOf(d, l) \in XidsIn(e)
      BY <1>2, <1>5, <2>1
    <2>4. PICK m \in e.labels : XidOf(d, l) = XidOf(e, m)
      BY <1>1, <2>1, <2>3, DocFacts
    <2>5. m \in d.labels
      BY <1>1, <1>3, <2>2, <2>4
    <2>6. XidOf(e, m) = XidOf(d, m)
      BY <1>1, <2>4, <2>5
    <2>7. l = m
      BY <2>4, <2>5, <2>6, DocFacts
    <2> QED
      BY <1>1, <2>4, <2>7
  <1> QED
    BY <1>4, <1>5 DEF KeptOf

(* The children that stay are those of the second version with these labels. *)
LEMMA SparedListing ==
  ASSUME NEW d, IsDoc(d), NEW labels \in Children, NEW e, e = SecondVersion(d, labels),
         NEW delta, delta = DeltaBetween(d, e)
  PROVE  Listing(Spared(d, delta), d.labels \cap labels, e)
PROOF
  <1> DEFINE K == d.labels \cap labels
             spared == Spared(d, delta)
  <1>1. /\ e.labels = labels
        /\ \A l \in labels : l \in d.labels => XidOf(e, l) = XidOf(d, l)
    BY SecondFacts
  <1>2. KeptOf(d, delta) = K
    BY KeptLabels
  <1>3. IsFiniteSet(K) /\ K \subseteq Int
    <2>1. d.labels \in Children
      BY DEF IsDoc
    <2>2. IsFiniteSet(d.labels) /\ d.labels \subseteq Nat
      BY <2>1, ChildrenFacts
    <2> QED
      BY <2>2, FS_Subset
  <1>4. /\ spared \in Seq(Kid) /\ Len(spared) = Cardinality(KeptOf(d, delta))
        /\ \A k \in DOMAIN spared :
             /\ spared[k].label \in KeptOf(d, delta)
             /\ spared[k].xid = XidOf(d, spared[k].label)
             /\ spared[k].label = InOrder(KeptOf(d, delta))[k]
        /\ \A k, l \in DOMAIN spared : k < l => spared[k].label < spared[l].label
    BY SparedFacts
  <1> HIDE DEF spared, K
  <1>5. DOMAIN spared = 1 .. Len(spared)
    BY <1>4
  <1>6. \A l \in K : \E k \in 1 .. Cardinality(K) : InOrder(K)[k] = l
    BY <1>3, OrderFacts
  <1>7. \A l \in K : \E k \in 1 .. Len(spared) : spared[k].label = l
    BY <1>2, <1>4, <1>5, <1>6
  <1>8. \A k \in 1 .. Len(spared) :
          spared[k].label \in K /\ spared[k].xid = XidOf(e, spared[k].label)
    BY <1>1, <1>2, <1>4, <1>5 DEF K
  <1>9. \A k, l \in 1 .. Len(spared) : k < l => spared[k].label < spared[l].label
    BY <1>4, <1>5
  <1>10. Listing(spared, K, e)
    BY <1>4, <1>7, <1>8, <1>9 DEF Listing
  <1> QED
    BY <1>10 DEF spared, K

(* With all the new children put in, the children are those of the second version. *)
LEMMA InsertedListing ==
  ASSUME NEW d, IsDoc(d), NEW labels \in Children, NEW e, e = SecondVersion(d, labels),
         NEW delta, delta = DeltaBetween(d, e)
  PROVE  /\ Listing(Inserted(d, delta), labels, e)
         /\ \A n \in DOMAIN delta.new : ~(delta.new[n].pos > Len(Spared(d, delta)) + n)
PROOF
  <1> DEFINE K == d.labels \cap labels
             New == labels \ d.labels
             order == InOrder(New)
             spared == Spared(d, delta)
             new == delta.new
             N == Len(new)
             T(n) == K \cup {order[i] : i \in 1 .. n}
  <1>1. IsDoc(e) /\ e.labels = labels
    BY SecondFacts
  <1>2. IsDelta(delta) /\ Brings(delta, d, e)
    BY <1>1, DeltaFacts
  <1>3. /\ new \in Seq(Op) /\ N \in Nat /\ DOMAIN new = 1 .. N
        /\ \A n \in 1 .. N : new[n] \in Op
    BY <1>2 DEF IsDelta
  <1>4. IsFiniteSet(New) /\ New \subseteq Int /\ labels \subseteq Nat /\ IsFiniteSet(labels)
    BY ChildrenFacts, FS_Subset
  <1>5. /\ N = Cardinality(New) /\ DOMAIN order = 1 .. N
        /\ \A k \in 1 .. N : order[k] \in New
        /\ \A k, l \in 1 .. N : k < l => order[k] < order[l]
        /\ \A m \in New : \E k \in 1 .. N : order[k] = m
    <2>1. N = Cardinality(New)
      BY <1>1, <1>2 DEF Brings
    <2> HIDE DEF New, N
    <2> QED
      BY <1>4, <2>1, OrderFacts
  <1>6. \A k \in 1 .. N : /\ new[k].label = order[k]
                          /\ new[k].xid = XidOf(e, order[k])
                          /\ new[k].pos = PlaceOf(e, order[k])
    <2>1. e.labels \ d.labels = New
      BY <1>1
    <2>2. \A k \in DOMAIN delta.new :
            /\ delta.new[k].xid = XidOf(e, delta.new[k].label)
            /\ delta.new[k].pos = PlaceOf(e, delta.new[k].label)
            /\ delta.new[k].label = order[k]
      BY <1>2, <2>1 DEF Brings
    <2> HIDE DEF New, order
    <2> QED
      BY <1>3, <2>2
  <1>7. Listing(spared, K, e)
    BY SparedListing
  <1>8. PICK f \in [0 .. N -> Seq(Kid)] :
          /\ Inserted(d, delta) = f[N]
          /\ f[0] = spared
          /\ \A n \in 1 .. N :
               new[n].pos <= Len(f[n - 1]) + 1 =>
                 f[n] = InsertAt(f[n - 1], new[n].pos, KidOf(new[n]))
    <2>1. PICK f \in [0 .. Len(delta.new) -> Seq(Kid)] : InsertedBy(f, d, delta)
      BY <1>2, InsertedSteps
    <2>2. N = Len(delta.new) /\ new = delta.new /\ spared = Spared(d, delta)
      OBVIOUS
    <2> HIDE DEF N, new, spared
    <2>3. /\ Inserted(d, delta) = f[N]
          /\ f[0] = spared
          /\ \A n \in 1 .. N :
               new[n].pos <= Len(f[n - 1]) + 1 =>
                 f[n] = InsertAt(f[n - 1], new[n].pos, KidOf(new[n]))
      BY <2>1, <2>2 DEF InsertedBy
    <2> QED
      BY <2>1, <2>2, <2>3
  <1> HIDE DEF order, spared, new, N
  <1>9. K \cup New = labels /\ K \cap New = {}
    OBVIOUS
  <1> HIDE DEF K, New
  <1>10. ASSUME NEW n \in Nat, n + 1 <= N, Listing(f[n], T(n), e)
         PROVE  /\ Listing(f[n + 1], T(n + 1), e)
                /\ new[n + 1].pos <= Len(f[n]) + 1
                /\ Len(f[n + 1]) = Len(f[n]) + 1
    <2> DEFINE x == KidOf(new[n + 1])
               l == order[n + 1]
               B == {m \in T(n) : m < l}
    <2>1. n + 1 \in 1 .. N /\ (n + 1) - 1 = n /\ \A i \in 1 .. n : i \in 1 .. N /\ i < n + 1
      BY <1>3, <1>10
    <2>2. /\ x \in Kid /\ x.label = l /\ x.xid = XidOf(e, l) /\ new[n + 1].pos = PlaceOf(e, l)
          /\ l \in New /\ l \in labels /\ l \in Nat
      <3>1. new[n + 1] \in Op
        BY <1>3, <2>1
      <3>2. x \in Kid /\ x.label = new[n + 1].label /\ x.xid = new[n + 1].xid
        BY <3>1 DEF Op, Kid, KidOf
      <3> HIDE DEF x
      <3> QED
        BY <1>4, <1>5, <1>6, <1>9, <2>1, <3>2
    <2>3. T(n) \subseteq labels /\ T(n + 1) = T(n) \cup {l} /\ l \notin T(n)
      <3>1. \A i \in 1 .. n : order[i] \in New /\ order[i] < l
        BY <1>5, <2>1
      <3>2. \A i \in 1 .. (n + 1) : i \in 1 .. n \/ i = n + 1
        OBVIOUS
      <3>3. T(n) \subseteq labels
        BY <1>9, <3>1
      <3>4. l \notin T(n)
        <4>1. \A i \in 1 .. n : order[i] # l
          BY <2>2, <3>1
        <4> QED
          BY <1>9, <2>2, <4>1
      <3>5. T(n + 1) = T(n) \cup {l}
        <4>1. \A i \in 1 .. n : i \in 1 .. (n + 1)
          OBVIOUS
        <4>2. n + 1 \in 1 .. (n + 1)
          OBVIOUS
        <4> HIDE DEF order
        <4> QED
          BY <3>2, <4>1, <4>2
      <3> QED
        BY <3>3, <3>4, <3>5
    <2>4. {m \in labels : m <= l} = B \cup {l} /\ l \notin B
      <3>1. ASSUME NEW m \in labels, m <= l
            PROVE  m \in B \/ m = l
        <4>1. m \in Nat /\ (m = l \/ m < l)
          BY <1>4, <2>2, <3>1
        <4>2. CASE m \in K
          BY <4>1, <4>2
        <4>3. CASE m \in New /\ m < l
          <5>1. PICK i \in 1 .. N : order[i] = m
            BY <1>5, <4>3
          <5>2. i \in 1 .. n
            <6>1. ~(n + 1 < i) /\ i # n + 1
              <7>1. order[i] \in Nat /\ l \in Nat /\ order[i] < l
                BY <2>2, <4>1, <4>3, <5>1
              <7>2. n + 1 < i => l < order[i]
                BY <1>5, <2>1
              <7> QED
                BY <7>1, <7>2
            <6> QED
              BY <1>3, <6>1
          <5> QED
            BY <4>3, <5>1, <5>2
        <4> QED
          BY <1>9, <4>1, <4>2, <4>3
      <3>2. ASSUME NEW m \in B
            PROVE  m \in labels /\ m <= l
        <4>1. m \in T(n) /\ m < l
          OBVIOUS
        <4>2. m \in labels /\ m \in Nat
          BY <1>4, <2>3, <4>1
        <4> QED
          BY <2>2, <4>1, <4>2
      <3>3. l \in labels /\ l <= l /\ ~(l < l)
        BY <2>2
      <3> HIDE DEF T, l
      <3> QED
        BY <3>1, <3>2, <3>3
    <2>5. PlaceOf(e, l) = Cardinality(B) + 1
      <3>1. IsFiniteSet(B)
        <4>1. B \subseteq labels
          BY <2>3
        <4> QED
          BY <1>4, <4>1, FS_Subset
      <3>2. PlaceOf(e, l) = Cardinality(B \cup {l})
        BY <1>1, <2>4 DEF PlaceOf
      <3> QED
        BY <2>4, <3>1, <3>2, FS_AddElement
    <2> HIDE DEF T, l, B, x
    <2>6. /\ PlaceOf(e, l) \in 1 .. (Len(f[n]) + 1)
          /\ Listing(InsertAt(f[n], PlaceOf(e, l), x), T(n) \cup {l}, e)
      <3>1. PlaceOf(e, l) = Cardinality({m \in T(n) : m < x.label}) + 1
        BY <2>2, <2>5 DEF B
      <3> QED
        BY <1>10, <2>2, <2>3, <3>1, ListingGrows
    <2>7. Len(f[n]) \in Nat /\ f[n] \in Seq(Kid)
      BY <1>10 DEF Listing
    <2>8. new[n + 1].pos <= Len(f[n]) + 1
      BY <2>2, <2>6, <2>7
    <2>9. f[n + 1] = InsertAt(f[n], PlaceOf(e, l), x)
      BY <1>8, <2>1, <2>2, <2>8 DEF x
    <2>10. Len(f[n + 1]) = Len(f[n]) + 1
      <3>1. Len(InsertAt(f[n], PlaceOf(e, l), x)) = Len(f[n]) + 1
        BY <2>2, <2>6, <2>7, KidPutIn DEF HasPutIn
      <3> QED
        BY <2>9, <3>1
    <2> QED
      BY <2>3, <2>6, <2>8, <2>9, <2>10
  <1> DEFINE S == {n \in Nat : n <= N => Listing(f[n], T(n), e) /\ Len(f[n]) = Len(spared) + n}
  <1>11. Len(spared) \in Nat
    BY <1>7 DEF Listing
  <1>12. 0 \in S
    <2>1. T(0) = K
      BY \A i \in 1 .. 0 : FALSE
    <2> HIDE DEF T
    <2> QED
      BY <1>7, <1>8, <1>11, <2>1
  <1>13. ASSUME NEW n \in Nat, n \in S
         PROVE  n + 1 \in S
    <2> HIDE DEF T
    <2> SUFFICES ASSUME n + 1 <= N
                 PROVE  Listing(f[n + 1], T(n + 1), e) /\ Len(f[n + 1]) = Len(spared) + (n + 1)
      OBVIOUS
    <2>1. n <= N
      BY <1>3
    <2>2. Listing(f[n], T(n), e) /\ Len(f[n]) = Len(spared) + n
      BY <1>13, <2>1
    <2>3. Listing(f[n + 1], T(n + 1), e) /\ Len(f[n + 1]) = Len(f[n]) + 1
      BY <1>10, <2>2
    <2> QED
      BY <1>11, <2>2, <2>3
  <1>14. \A n \in Nat : n \in S
    <2> HIDE DEF S
    <2> QED
      BY <1>12, <1>13, SetInduction
  <1>15. T(N) = labels
    <2>1. T(N) = K \cup New
      <3> HIDE DEF order
      <3> QED
        BY <1>5
    <2> QED
      BY <1>9, <2>1
  <1> HIDE DEF T
  <1>16. Listing(f[N], labels, e)
    BY <1>3, <1>14, <1>15
  <1>17. ASSUME NEW n \in 1 .. N
         PROVE  ~(new[n].pos > Len(spared) + n)
    <2>1. n - 1 \in Nat /\ (n - 1) + 1 = n /\ n - 1 <= N /\ n <= N
      BY <1>3
    <2>2. Listing(f[n - 1], T(n - 1), e) /\ Len(f[n - 1]) = Len(spared) + (n - 1)
      BY <1>14, <2>1
    <2>3. new[(n - 1) + 1].pos <= Len(f[n - 1]) + 1
      BY <1>10, <2>1, <2>2
    <2>4. new[n].pos \in Nat
      BY <1>3 DEF Op
    <2> QED
      BY <1>11, <2>1, <2>2, <2>3, <2>4
  <1> QED
    BY <1>3, <1>8, <1>16, <1>17 DEF spared, new

(* The first available XID that registering the new XIDs leads to. *)
LEMMA FirstAfterAll ==
  ASSUME NEW d, IsDoc(d), NEW labels \in Children, NEW e, e = SecondVersion(d, labels),
         NEW xs, \A x \in xs : x \in Nat /\ x < e.first, IsFiniteSet(xs),
         \A l \in labels : XidOf(e, l) \in xs
  PROVE  FirstPast(d, xs) = e.first
PROOF
  <1> DEFINE New == labels \ d.labels
             n == Cardinality(New)
             order == InOrder(New)
             above == {x + 1 : x \in xs}
             S == {d.first} \cup above
  <1>1. /\ e.first = d.first + n /\ d.first <= e.first /\ e.first \in Nat /\ d.first \in Nat
        /\ \A l \in New : XidOf(e, l) = d.first + Cardinality({m \in New : m < l})
    <2>1. IsDoc(e)
      BY SecondFacts
    <2>2. e.first \in Nat /\ d.first \in Nat
      BY <2>1 DEF IsDoc
    <2> QED
      BY <2>2, SecondFacts
  <1>2. /\ IsFiniteSet(New) /\ New \subseteq Int /\ New \subseteq Nat /\ n \in Nat
    BY ChildrenFacts, FS_Subset, FS_CardinalityType
  <1>3. /\ \A k \in 1 .. n : order[k] \in New /\ Cardinality({m \in New : m <= order[k]}) = k
    BY <1>2, OrderFacts
  <1> HIDE DEF New, order
  <1>4. IsFiniteSet(S) /\ S \subseteq Int /\ S # {}
    <2>1. IsFiniteSet(above) /\ above \subseteq Nat
      <3> DEFINE g == [x \in xs |-> x + 1]
      <3>1. g \in Surjection(xs, above)
        <4>1. \A x \in xs : g[x] = x + 1 /\ g[x] \in above
          OBVIOUS
        <4>2. \A y \in above : \E x \in xs : g[x] = y
          BY <4>1
        <4>3. g \in [xs -> above]
          BY <4>1
        <4> HIDE DEF g, above
        <4> QED
          BY <4>2, <4>3 DEF Surjection
      <3>2. above \subseteq Nat
        OBVIOUS
      <3> HIDE DEF g, above
      <3> QED
        BY <3>1, <3>2, FS_Surjection
    <2> HIDE DEF above
    <2>2. IsFiniteSet(S)
      BY <2>1, FS_Singleton, FS_Union
    <2>3. S \subseteq Int /\ S # {}
      <3>1. \A y \in S : y = d.first \/ y \in above
        OBVIOUS
      <3>2. \A y \in S : y \in Int
        <4>1. d.first \in Int
          BY <1>1
        <4>2. \A y \in above : y \in Int
          BY <2>1
        <4> HIDE DEF S
        <4> QED
          BY <3>1, <4>1, <4>2
      <3>3. d.first \in S
        OBVIOUS
      <3> QED
        BY <3>2, <3>3
    <2> QED
      BY <2>2, <2>3
  <1>5. \A y \in S : y <= e.first
    <2>1. ASSUME NEW x \in xs
          PROVE  x + 1 <= e.first
      BY <1>1
    <2> QED
      BY <1>1, <2>1
  <1>6. e.first \in S
    <2>1. CASE n = 0
      BY <1>1, <2>1
    <2>2. CASE n # 0
      <3> DEFINE l == order[n]
                 B == {m \in New : m < l}
      <3>1. n \in 1 .. n
        BY <1>2, <2>2
      <3>2. l \in New /\ l \in Nat /\ Cardinality({m \in New : m <= l}) = n
        BY <1>2, <1>3, <3>1
      <3> HIDE DEF l
      <3>3. {m \in New : m <= l} = B \cup {l} /\ l \notin B
        <4>1. \A m \in New : m \in Nat
          BY <1>2
        <4>2. \A m \in New : m <= l <=> m < l \/ m = l
          BY <3>2, <4>1
        <4>3. l \notin B /\ l \in New
          BY <3>2
        <4> QED
          BY <4>2, <4>3
      <3>4. IsFiniteSet(B)
        <4>1. B \subseteq New
          OBVIOUS
        <4> QED
          BY <1>2, <4>1, FS_Subset
      <3>5. Cardinality(B) \in Nat /\ Cardinality(B) + 1 = n
        <4> HIDE DEF B
        <4> QED
          BY <3>2, <3>3, <3>4, FS_AddElement, FS_CardinalityType
      <3>6. XidOf(e, l) = d.first + Cardinality(B)
        BY <1>1, <3>2
      <3> HIDE DEF B
      <3>7. XidOf(e, l) + 1 = e.first
        BY <1>1, <1>2, <3>5, <3>6
      <3>8. XidOf(e, l) \in xs
        BY <3>2 DEF New
      <3> QED
        BY <3>7, <3>8
    <2> QED
      BY <2>1, <2>2
  <1> HIDE DEF S
  <1>7. Max(S) \in S /\ \A y \in S : y <= Max(S)
    BY <1>4, MaxFacts
  <1>8. Max(S) = e.first
    <2>1. Max(S) \in Int /\ Max(S) <= e.first /\ e.first <= Max(S)
      BY <1>4, <1>5, <1>6, <1>7
    <2> QED
      BY <1>1, <2>1
  <1> QED
    BY <1>8 DEF FirstPast, S

(* A delta applied to the version it was computed from gives the other one. *)
LEMMA DeltaRestores ==
  ASSUME NEW d, IsDoc(d), NEW labels \in Children, NEW e, e = SecondVersion(d, labels),
         NEW delta, delta = DeltaBetween(d, e)
  PROVE  Applying(d, delta) = "ok" /\ Applied(d, delta) = e
PROOF
  <1> DEFINE kids == Inserted(d, delta)
             spared == Spared(d, delta)
             new == delta.new
             n == Len(kids)
             t == [k \in DOMAIN kids |-> kids[k].xid]
             xs == {kids[k].xid : k \in DOMAIN kids}
             r == RootXid(d)
  <1>1. /\ IsDoc(e) /\ e.labels = labels /\ RootXid(e) = r
        /\ \A l \in labels : l \notin d.labels => d.first <= XidOf(e, l)
    BY SecondFacts
  <1>2. /\ Listing(kids, labels, e)
        /\ \A k \in DOMAIN new : ~(new[k].pos > Len(spared) + k)
    BY InsertedListing
  <1>3. /\ delta.par = r /\ delta.gone = XidsIn(d) \ XidsIn(e)
    BY DEF DeltaBetween
  <1>4. /\ IsDelta(delta)
        /\ \A k \in DOMAIN new : new[k].label \in labels \ d.labels
                                 /\ new[k].xid = XidOf(e, new[k].label)
    <2>1. IsDelta(delta) /\ Brings(delta, d, e)
      BY <1>1, DeltaFacts
    <2> QED
      BY <1>1, <2>1 DEF Brings
  <1>5. /\ r \in XidsIn(d) /\ r \in XidsIn(e) /\ r \in Nat /\ r < d.first /\ d.first \in Nat
    <2>1. r \in XidsIn(d) /\ r \in XidsIn(e)
      BY <1>1, DocFacts
    <2> QED
      BY <2>1, DocFacts DEF IsDoc
  <1>6. ~InsertFails(d, delta)
    <2>1. ASSUME NEW k \in DOMAIN new
          PROVE  new[k].xid \in Nat /\ d.first <= new[k].xid
      <3>1. new[k].label \in labels /\ new[k].label \notin d.labels
        BY <1>4
      <3>2. XidOf(e, new[k].label) \in XidsIn(e)
        BY <1>1, <3>1, DocFacts
      <3>3. XidOf(e, new[k].label) \in Nat
        BY <1>1, <3>2, DocFacts
      <3> QED
        BY <1>1, <1>4, <3>1, <3>3
    <2>2. ASSUME NEW j \in DOMAIN spared
          PROVE  spared[j].xid \in Nat /\ spared[j].xid < d.first
      <3>1. spared[j].label \in d.labels /\ spared[j].xid = XidOf(d, spared[j].label)
        <4>1. /\ spared[j].label \in KeptOf(d, delta)
              /\ spared[j].xid = XidOf(d, spared[j].label)
          BY SparedFacts
        <4> QED
          BY <4>1 DEF KeptOf
      <3> HIDE DEF spared
      <3>2. XidOf(d, spared[j].label) \in XidsIn(d)
        BY <3>1, DocFacts
      <3> QED
        BY <3>1, <3>2, DocFacts
    <2> HIDE DEF spared, new
    <2>3. \A k \in DOMAIN new : new[k].xid \notin {spared[j].xid : j \in DOMAIN spared} \cup {r}
      <3> TAKE k \in DOMAIN new
      <3>1. new[k].xid # r
        BY <1>5, <2>1
      <3>2. ASSUME NEW j \in DOMAIN spared
            PROVE  new[k].xid # spared[j].xid
        BY <1>5, <2>1, <2>2
      <3> QED
        BY <3>1, <3>2
    <2> QED
      BY <1>2, <2>3 DEF InsertFails, spared, new
  <1>7. /\ kids \in Seq(Kid) /\ n \in Nat /\ DOMAIN kids = 1 .. n
        /\ \A k \in 1 .. n : /\ kids[k].xid \in Nat /\ kids[k].label \in Nat
                             /\ kids[k].label \in labels
                             /\ kids[k].xid = XidOf(e, kids[k].label)
        /\ \A l \in labels : \E k \in 1 .. n : kids[k].label = l
        /\ \A k, l \in 1 .. n : k < l => kids[k].label < kids[l].label
    BY <1>2, KidsFacts DEF Listing
  <1>8. Applying(d, delta) = "ok"
    <2>1. r \in XidsIn(d) \ delta.gone /\ ~RootLost(d, delta)
      BY <1>3, <1>5 DEF RootLost
    <2>2. \A k \in 1 .. (Len(kids) - 1) : kids[k].label < kids[k + 1].label
      <3> TAKE k \in 1 .. (Len(kids) - 1)
      <3>1. k \in 1 .. n /\ k + 1 \in 1 .. n /\ k < k + 1
        BY <1>7
      <3> QED
        BY <1>7, <3>1
    <2> HIDE DEF kids, r
    <2> QED
      BY <1>3, <1>6, <2>1, <2>2 DEF Applying, kids, r
  <1> HIDE DEF kids, new, spared
  <1>9. /\ n = Cardinality(labels)
        /\ \A k \in 1 .. n : Cardinality({l \in labels : l <= kids[k].label}) = k
    BY <1>2, ListingPlaces
  <1>10. {kids[k].label : k \in DOMAIN kids} = labels
    BY <1>7
  <1>11. /\ e.xids \in Seq(Nat) /\ Len(e.xids) = n + 1 /\ e.xids[n + 1] = r
         /\ \A k \in 1 .. n : e.xids[k] = kids[k].xid
    <2>1. e.xids \in Seq(Nat) /\ Len(e.xids) = n + 1
      BY <1>1, <1>9 DEF IsDoc
    <2>2. e.xids[n + 1] = r
      BY <1>1, <1>9, DocFacts
    <2>3. \A k \in 1 .. n : kids[k].xid = e.xids[k]
      BY <1>1, <1>7, <1>9 DEF XidOf, PlaceOf
    <2> QED
      BY <2>1, <2>2, <2>3
  <1>12. Append(t, r) = e.xids
    <2>1. t \in Seq(Nat) /\ Len(t) = n /\ \A k \in 1 .. n : t[k] = kids[k].xid
      <3>1. t \in [1 .. n -> Nat] /\ \A k \in 1 .. n : t[k] = kids[k].xid
        BY <1>7
      <3> HIDE DEF t, n
      <3> QED
        BY <1>7, <3>1
    <2> HIDE DEF t, n, r
    <2>2. /\ Append(t, r) \in Seq(Nat) /\ Len(Append(t, r)) = n + 1
          /\ \A k \in 1 .. n : Append(t, r)[k] = t[k]
          /\ Append(t, r)[n + 1] = r
      BY <1>5, <2>1, AppendProperties
    <2> DEFINE a == Append(t, r)
    <2>3. \A k \in 1 .. (n + 1) : k = n + 1 \/ k \in 1 .. n
      BY <1>7
    <2>4. \A k \in 1 .. Len(a) : a[k] = e.xids[k]
      <3>1. Len(a) = n + 1
        BY <2>2
      <3>2. \A k \in 1 .. n : a[k] = e.xids[k]
        BY <1>11, <2>1, <2>2
      <3>3. a[n + 1] = e.xids[n + 1]
        BY <1>11, <2>2
      <3> HIDE DEF a
      <3> QED
        BY <2>3, <3>1, <3>2, <3>3
    <2>5. a \in Seq(Nat) /\ e.xids \in Seq(Nat) /\ Len(a) = Len(e.xids)
      BY <1>11, <2>2
    <2> HIDE DEF a
    <2>6. a = e.xids
      BY <2>4, <2>5, SeqEqual
    <2> QED
      BY <2>6 DEF a
  <1>13. FirstPast(d, xs) = e.first
    <2>1. \A x \in xs : x \in Nat /\ x < e.first
      <3> TAKE x \in xs
      <3>1. PICK k \in 1 .. n : x = kids[k].xid
        BY <1>7
      <3>2. XidOf(e, kids[k].label) \in XidsIn(e)
        BY <1>1, <1>7, DocFacts
      <3> QED
        BY <1>1, <1>7, <3>1, <3>2, DocFacts
    <2>2. IsFiniteSet(xs)
      <3>1. IsFiniteSet(1 .. n)
        <4>1. 1 \in Int /\ n \in Int
          BY <1>7
        <4> QED
          BY <4>1, FS_Interval
      <3>2. t \in Surjection(1 .. n, xs)
        BY <1>7 DEF Surjection
      <3> HIDE DEF t, xs, n
      <3> QED
        BY <3>1, <3>2, FS_Surjection
    <2>3. \A l \in labels : XidOf(e, l) \in xs
      BY <1>7
    <2> HIDE DEF xs
    <2> QED
      BY <2>1, <2>2, <2>3, FirstAfterAll
  <1>14. e = [labels |-> e.labels, xids |-> e.xids, first |-> e.first]
    BY <1>1 DEF IsDoc
  <1>15. Applied(d, delta) = [labels |-> {kids[k].label : k \in DOMAIN kids},
                              xids |-> Append(t, r), first |-> FirstPast(d, xs)]
    BY DEF Applied, kids
  <1> QED
    BY <1>1, <1>8, <1>10, <1>12, <1>13, <1>14, <1>15

-----------------------------------------------------------------------------
(***************************************************************************)
(* Each call leads to a disk in good order, wherever it is cut short.      *)
(***************************************************************************)

(* A document and its map are in a world as they are saved. *)
Holds(z, f, d) ==
  z.disk[Xml(f)] = Holding(d.labels) /\ z.disk[Map(f)] = Holding(StringFromList(d))

(* ApplyDelta loads, and saves the result with its map. *)
LEMMA ApplyLeads ==
  ASSUME Good(Now), NEW f0 \in File, NEW f1 \in File, NEW tag \in BOOLEAN
  PROVE  LET p == Apply(f0, f1)
         IN /\ p.ends \in {"ok", "exception", "undefined", "rootless", "beyond"}
            /\ p.source = Load(f0).source
            /\ \E z : /\ Leads(Now, p.writes, tag, z)
                      /\ z.versions = versions /\ z.disk[Delta] = disk[Delta]
                      /\ p.ends = "ok" => Holds(z, f1, Applied(p.source, DeltaRead))
PROOF
  <1> DEFINE p == Apply(f0, f1)
             first == Load(f0)
             delta == DeltaRead
             d == first.source
             how == Applying(d, delta)
             e == Applied(d, delta)
             s == first.writes
             known == IF d = versions.from THEN Learnt(Known(f0), d) ELSE <<>>
  <1>1. /\ first.ends \in {"ok", "exception", "undefined"}
        /\ first.ends # "ok" => s = <<>>
        /\ first.ends = "ok" =>
             /\ IsDoc(d) /\ Fits(Learnt(Known(f0), d), d)
             /\ \E z : Leads(Now, s, tag, z) /\ z.versions = versions /\ z.disk[Delta] = disk[Delta]
    BY LoadLeads, PathFacts
  <1>2. DOMAIN first = {"writes", "ends", "source"}
    BY LoadFacts DEF IsPlan
  <1>3. how \in {"ok", "exception", "rootless", "beyond"}
    BY DEF Applying
  <1>4. /\ first.ends # "ok" => p = first
        /\ first.ends = "ok" /\ ~Readable(Delta) => p = [first EXCEPT !.ends = "undefined"]
        /\ first.ends = "ok" /\ Readable(Delta) /\ delta = VersionFile =>
             p = [first EXCEPT !.ends = "exception"]
        /\ first.ends = "ok" /\ Readable(Delta) /\ delta # VersionFile =>
             /\ how = "ok" => p = [first EXCEPT !.writes = s \o SaveAs(f1, e, known)]
             /\ how = "rootless" =>
                  p = [first EXCEPT !.writes = s \o SaveRootless(f1), !.ends = "rootless"]
             /\ how \notin {"ok", "rootless"} => p = [first EXCEPT !.ends = how]
    BY DEF Apply, FailInMemory
  <1> HIDE DEF p, first
  <1>5. CASE first.ends # "ok"
    <2>1. p.writes = <<>> /\ p.ends = first.ends /\ p.source = d
      BY <1>1, <1>4, <1>5
    <2>2. /\ Leads(Now, p.writes, tag, Now)
          /\ Now.versions = versions /\ Now.disk[Delta] = disk[Delta]
      BY <2>1, NoWriteLeads DEF Now, World
    <2> QED
      BY <1>1, <1>5, <2>1, <2>2 DEF p, first
  <1>6. ASSUME first.ends = "ok", NEW how1, p = [first EXCEPT !.ends = how1],
               how1 \in {"exception", "undefined", "beyond"}
        PROVE  /\ p.writes = s /\ p.source = d /\ p.ends = how1 /\ p.ends # "ok"
               /\ \E z : /\ Leads(Now, p.writes, tag, z)
                         /\ z.versions = versions /\ z.disk[Delta] = disk[Delta]
    BY <1>1, <1>2, <1>6
  <1>7. CASE first.ends = "ok" /\ (~Readable(Delta) \/ delta = VersionFile)
    BY <1>4, <1>6, <1>7 DEF p, first
  <1>8. CASE first.ends = "ok" /\ Readable(Delta) /\ delta # VersionFile
    <2>1. CASE how \notin {"ok", "rootless"}
      <3>1. how \in {"exception", "undefined", "beyond"} /\ p = [first EXCEPT !.ends = how]
        BY <1>3, <1>4, <1>8, <2>1
      <3> HIDE DEF how
      <3> QED
        BY <1>6, <1>8, <3>1 DEF p, first
    <2>2. PICK y : /\ Leads(Now, s, tag, y)
                   /\ y.versions = versions /\ y.disk[Delta] = disk[Delta]
      BY <1>1, <1>8
    <2>3. Good(y)
      BY <2>2, LeadsFacts
    <2>4. CASE how = "rootless"
      <3>1. PICK z : /\ Leads(y, SaveRootless(f1), tag, z)
                     /\ z.versions = y.versions /\ z.disk[Delta] = y.disk[Delta]
        BY <2>3, SaveRootlessLeads
      <3>2. Leads(Now, s \o SaveRootless(f1), tag, z)
        BY <2>2, <3>1, LeadsOn
      <3>3. p = [first EXCEPT !.writes = s \o SaveRootless(f1), !.ends = "rootless"]
        BY <1>4, <1>8, <2>4
      <3>4. p.writes = s \o SaveRootless(f1) /\ p.ends = "rootless" /\ p.source = d
        BY <1>2, <3>3
      <3> QED
        BY <2>2, <3>1, <3>2, <3>4 DEF p, first
    <2>5. CASE how = "ok"
      <3>1. p = [first EXCEPT !.writes = s \o SaveAs(f1, e, known)]
        BY <1>4, <1>8, <2>5
      <3> HIDE DEF known
      <3>2. p.writes = s \o SaveAs(f1, e, known) /\ p.ends = "ok" /\ p.source = d
        BY <1>2, <1>8, <3>1
      <3>3. IsDoc(d) /\ Fits(Learnt(Known(f0), d), d)
        BY <1>1, <1>8
      <3>4. PICK c : \E labels \in Children :
              /\ IsDoc(c) /\ versions = [from |-> c, to |-> SecondVersion(c, labels)]
              /\ delta = DeltaBetween(c, SecondVersion(c, labels))
        BY <1>8, DeltaOnDisk
      <3>5. PICK labels \in Children :
              /\ IsDoc(c) /\ versions = [from |-> c, to |-> SecondVersion(c, labels)]
              /\ delta = DeltaBetween(c, SecondVersion(c, labels))
        BY <3>4
      <3> HIDE DEF delta
      <3>6. IsDelta(delta)
        <4>1. IsDoc(SecondVersion(c, labels))
          BY <3>5, SecondFacts
        <4> QED
          BY <3>5, <4>1, DeltaFacts
      <3>7. IsDoc(e)
        BY <2>5, <3>3, <3>6, AppliedFacts
      <3>8. Fits(Learnt(known, e), e)
        <4>1. CASE d = versions.from
          <5>1. d = c
            BY <3>5, <4>1
          <5>2. Follows(e, d)
            BY <2>5, <3>3, <3>5, <5>1, AppliedFollows
          <5>3. known = Learnt(Known(f0), d)
            BY <4>1 DEF known
          <5> HIDE DEF e
          <5> QED
            BY <3>3, <3>7, <5>2, <5>3, NamesFitOn
        <4>2. CASE d # versions.from
          <5>1. known = <<>>
            BY <4>2 DEF known
          <5> QED
            BY <3>7, <5>1, OwnNamesFit
        <4> QED
          BY <4>1, <4>2
      <3> HIDE DEF e
      <3>9. PICK z : /\ Leads(y, SaveAs(f1, e, known), tag, z) /\ Holds(z, f1, e)
                     /\ z.versions = y.versions /\ z.disk[Delta] = y.disk[Delta]
        BY <2>3, <3>7, <3>8, SaveAsLeads DEF Holds
      <3>10. Leads(Now, s \o SaveAs(f1, e, known), tag, z)
        BY <2>2, <3>9, LeadsOn
      <3>11. e = Applied(p.source, DeltaRead)
        BY <3>2 DEF e, delta
      <3> QED
        BY <2>2, <3>2, <3>9, <3>10, <3>11 DEF p, first
    <2> QED
      BY <1>3, <2>1, <2>4, <2>5
  <1> QED
    BY <1>1, <1>5, <1>7, <1>8

(* A delta has the type of what a delta file holds. *)
LEMMA DeltaTyped ==
  ASSUME NEW delta, IsDelta(delta)
  PROVE  delta \in [par : Nat, gone : SUBSET Nat, new : Seq([xid : Nat, label : Label, pos : Nat])]
PROOF
  <1> DEFINE V == [xid : Nat, label : Label, pos : Nat]
  <1>1. delta.new \in Seq(Op)
    BY DEF IsDelta
  <1>2. Op \subseteq V
    BY DEF Op
  <1> HIDE DEF V
  <1>3. delta.new \in Seq(V)
    BY <1>1, <1>2
  <1>4. delta = [par |-> delta.par, gone |-> delta.gone, new |-> delta.new]
        /\ delta.par \in Nat /\ delta.gone \in SUBSET Nat
    BY DEF IsDelta
  <1> QED
    BY <1>3, <1>4 DEF V

(* What cannot be loaded is no document with XIDs. *)
LEMMA NotLoaded ==
  ASSUME Good(Now), NEW f \in File, Load(f).ends # "ok"
  PROVE  ~IsDoc(Load(f).source)
PROOF
  <1> DEFINE first == Load(f)
             r == Registered(MapString(f), Labels(f))
             how == Registering(MapString(f), Labels(f))
  <1>1. ~IsDoc(None)
    <2> SUFFICES ASSUME IsDoc(None) PROVE FALSE
      OBVIOUS
    <2>1. None.labels \subseteq Label
      <3>1. None.labels \in Children
        BY DEF IsDoc
      <3> QED
        BY <3>1, ChildrenFacts
    <2>2. None \in [labels : SUBSET Label, xids : Seq(Nat), first : Nat]
      <3>1. /\ None = [labels |-> None.labels, xids |-> None.xids, first |-> None.first]
            /\ None.xids \in Seq(Nat) /\ None.first \in Nat
        BY DEF IsDoc
      <3> QED
        BY <2>1, <3>1
    <2> QED
      BY <2>2, FilesAssumption DEF FilesAssumption
  <1>2. CASE ~Readable(Xml(f))
    <2>1. first = [Nothing EXCEPT !.ends = "undefined"]
      BY <1>2 DEF Load
    <2>2. first.source = None
      BY <2>1 DEF Nothing
    <2> QED
      BY <1>1, <2>2
  <1>3. CASE Readable(Xml(f)) /\ disk[Map(f)] = Absent
    <2>0. disk[Map(f)] # Empty
      BY <1>3 DEF Absent, Empty
    <2>1. first.ends = "ok"
      BY <1>3, <2>0 DEF Load, Nothing
    <2> QED
      BY <2>1
  <1>4. CASE Readable(Xml(f)) /\ disk[Map(f)] = Empty
    <2>1. disk[Map(f)] # Absent
      BY <1>4 DEF Absent, Empty
    <2>2. first = [Nothing EXCEPT !.ends = "exception"]
      BY <1>4, <2>1 DEF Load
    <2>3. first.source = None
      BY <2>2 DEF Nothing
    <2> QED
      BY <1>1, <2>3
  <1>5. CASE Readable(Xml(f)) /\ disk[Map(f)] # Absent /\ disk[Map(f)] # Empty
    <2>1. first = [Nothing EXCEPT !.ends = how, !.source = r]
      BY <1>5 DEF Load
    <2> HIDE DEF r, how
    <2>2. first.ends = how /\ first.source = r
      BY <2>1 DEF Nothing
    <2>3. Labels(f) \in Children
      BY <1>5, DocumentFacts
    <2>4. PICK e : IsDoc(e) /\ disk[Map(f)] = Holding(StringFromList(e))
      BY <1>5, DocumentFacts
    <2>5. MapString(f) = StringFromList(e)
      BY <2>4 DEF MapString, Holding
    <2>6. /\ how = "ok" <=> Cardinality(Labels(f)) = Cardinality(e.labels)
          /\ r = [labels |-> Labels(f), xids |-> e.xids, first |-> e.first]
      BY <2>3, <2>4, <2>5, RegisteredFacts DEF how, r
    <2>7. /\ Cardinality(Labels(f)) \in Nat /\ Cardinality(e.labels) \in Nat
          /\ Len(e.xids) = Cardinality(e.labels) + 1
      BY <2>3, <2>4, ChildrenFacts DEF IsDoc
    <2>8. Len(r.xids) # Cardinality(r.labels) + 1
      BY <2>2, <2>6, <2>7
    <2> QED
      BY <2>2, <2>8 DEF IsDoc
  <1> QED
    BY <1>2, <1>3, <1>4, <1>5

(* A delta that is there, applied to the version it was computed from. *)
LEMMA ApplyRestores ==
  ASSUME Good(Now), NEW f0 \in File, NEW f1, Readable(Delta), versions # None,
         Apply(f0, f1).source = versions.from, Apply(f0, f1).source = Load(f0).source
  PROVE  /\ Apply(f0, f1).ends = "ok"
         /\ Applied(Apply(f0, f1).source, DeltaRead) = versions.to
PROOF
  <1>1. DeltaRead # VersionFile
    <2> SUFFICES ASSUME DeltaRead = VersionFile PROVE FALSE
      OBVIOUS
    <2>1. PICK d : \E labels \in Children :
            IsDoc(d) /\ VersionFile = DeltaBetween(d, SecondVersion(d, labels))
      BY DeltaOnDisk
    <2>2. PICK labels \in Children :
            IsDoc(d) /\ VersionFile = DeltaBetween(d, SecondVersion(d, labels))
      BY <2>1
    <2>3. IsDelta(VersionFile)
      <3>1. IsDoc(SecondVersion(d, labels))
        BY <2>2, SecondFacts
      <3> QED
        BY <2>2, <3>1, DeltaFacts
    <2>4. VersionFile \in [par : Nat, gone : SUBSET Nat,
                           new : Seq([xid : Nat, label : Label, pos : Nat])]
      BY <2>3, DeltaTyped
    <2> QED
      BY <2>4, FilesAssumption DEF FilesAssumption
  <1>2. PICK d : \E labels \in Children :
          /\ IsDoc(d) /\ versions = [from |-> d, to |-> SecondVersion(d, labels)]
          /\ DeltaRead = DeltaBetween(d, SecondVersion(d, labels))
    BY <1>1, DeltaOnDisk
  <1>3. PICK labels \in Children :
          /\ IsDoc(d) /\ versions = [from |-> d, to |-> SecondVersion(d, labels)]
          /\ DeltaRead = DeltaBetween(d, SecondVersion(d, labels))
    BY <1>2
  <1> DEFINE e == SecondVersion(d, labels)
             first == Load(f0)
  <1>4. versions.from = d /\ versions.to = e /\ first.source = d
    BY <1>3
  <1>5. first.ends = "ok"
    BY <1>3, <1>4, NotLoaded
  <1>6. Applying(d, DeltaRead) = "ok" /\ Applied(d, DeltaRead) = e
    BY <1>3, DeltaRestores
  <1>7. DOMAIN first = {"writes", "ends", "source"}
    BY LoadFacts DEF IsPlan
  <1> HIDE DEF e, first
  <1>8. Apply(f0, f1).ends = "ok"
    <2>1. \E s : Apply(f0, f1) = [first EXCEPT !.writes = s]
      BY <1>1, <1>4, <1>5, <1>6 DEF Apply, first
    <2> QED
      BY <1>5, <1>7, <2>1
  <1> QED
    BY <1>4, <1>6, <1>8

(* XyLoadAndDiff writes a file of versions that is no delta. *)
LEMMA NewDeltaLeads ==
  ASSUME Good(Now), NEW tag
  PROVE  /\ \E z : Leads(Now, LoadAndDiff.writes, tag, z)
         /\ LoadAndDiff.ends \in {"ok", "exception", "undefined"}
PROOF
  <1> DEFINE a == Write(Delta, Empty, None)
             b == Write(Delta, Holding(VersionFile), None)
             y == After(Now, a, tag)
             z == After(y, b, tag)
  <1>1. CASE disk[Delta] = Absent
    <2>0. disk[Delta] # Empty
      BY <1>1 DEF Absent, Empty
    <2>1. LoadAndDiff.writes = <<a, b>> /\ LoadAndDiff.ends = "ok"
      BY <1>1, <2>0 DEF LoadAndDiff, Nothing
    <2>2. GoodDelta(Empty, None) /\ GoodDelta(Holding(VersionFile), None)
      BY DEF GoodDelta
    <2>3. Good(y)
      BY <2>2, DeltaWritten
    <2> HIDE DEF y
    <2>4. Good(z)
      BY <2>2, <2>3, DeltaWritten
    <2>5. a.path \in Paths /\ b.path \in Paths
      BY PathFacts DEF Write
    <2> HIDE DEF a, b, z
    <2>6. Leads(Now, <<a, b>>, tag, z)
      BY <2>3, <2>4, <2>5, TwoWritesLead DEF y, z
    <2> QED
      BY <2>1, <2>6
  <1>2. CASE disk[Delta] # Absent
    <2>1. LoadAndDiff.writes = <<>> /\ LoadAndDiff.ends \in {"exception", "undefined"}
      BY <1>2 DEF LoadAndDiff, Nothing
    <2> QED
      BY <2>1, NoWriteLeads
  <1> QED
    BY <1>1, <1>2

(* Where a call of ApplyDelta leads, the second version is. *)
Restores(z, p, f) ==
  z.disk[Delta].state = "written" /\ z.versions # None /\ p.source = z.versions.from =>
    p.ends = "ok" /\ Holds(z, f, z.versions.to)

(* Wherever the first version is loaded, ApplyDelta leads to the second. *)
LEMMA ApplyLeadsBack ==
  ASSUME Good(Now), NEW f0 \in File, NEW f1 \in File, NEW tag \in BOOLEAN
  PROVE  LET p == Apply(f0, f1)
         IN /\ p.ends \in {"ok", "exception", "undefined", "rootless", "beyond"}
            /\ \E z : Leads(Now, p.writes, tag, z) /\ Restores(z, p, f1)
PROOF
  <1> DEFINE p == Apply(f0, f1)
  <1>1. /\ p.ends \in {"ok", "exception", "undefined", "rootless", "beyond"}
        /\ p.source = Load(f0).source
    BY ApplyLeads
  <1>2. PICK z : /\ Leads(Now, p.writes, tag, z)
                 /\ z.versions = versions /\ z.disk[Delta] = disk[Delta]
                 /\ p.ends = "ok" => Holds(z, f1, Applied(p.source, DeltaRead))
    BY ApplyLeads
  <1>3. Restores(z, p, f1)
    <2> SUFFICES ASSUME Readable(Delta), versions # None, p.source = versions.from
                 PROVE  p.ends = "ok" /\ Holds(z, f1, versions.to)
      BY <1>2 DEF Restores, Readable
    <2>1. p.ends = "ok" /\ Applied(p.source, DeltaRead) = versions.to
      BY <1>1, ApplyRestores
    <2> QED
      BY <1>2, <2>1
  <1> QED
    BY <1>1, <1>2, <1>3

(* Every operation leads from a good world to a good one. *)
LEMMA PlannedLeads ==
  ASSUME Good(Now), NEW item, item.op \in Operations,
         item.op \in {"diff", "apply", "tag"} => item.f0 \in File /\ item.f1 \in File
  PROVE  LET p == Planned(item)
         IN /\ p.ends \in {"ok", "exception", "undefined", "rootless", "beyond"}
            /\ \E z : /\ Leads(Now, p.writes, item.op = "tag", z)
                      /\ item.op = "apply" => Restores(z, p, item.f1)
PROOF
  <1> DEFINE p == Planned(item)
             tag == item.op = "tag"
  <1>1. CASE item.op = "diff"
    <2>1. p = Diff(item.f0, item.f1)
      BY <1>1 DEF Planned
    <2> QED
      BY <1>1, <2>1, DiffLeads
  <1>2. CASE item.op = "apply"
    <2>1. p = Apply(item.f0, item.f1)
      BY <1>2 DEF Planned
    <2>2. tag \in BOOLEAN
      OBVIOUS
    <2> HIDE DEF tag, p
    <2>3. /\ p.ends \in {"ok", "exception", "undefined", "rootless", "beyond"}
          /\ \E z : Leads(Now, p.writes, tag, z) /\ Restores(z, p, item.f1)
      BY <1>2, <2>1, <2>2, ApplyLeadsBack
    <2> QED
      BY <1>2, <2>3 DEF tag, p
  <1>3. CASE item.op = "tag"
    <2>1. p = Tag(item.f0, item.f1)
      BY <1>3 DEF Planned
    <2>2. tag = TRUE
      BY <1>3
    <2> QED
      BY <1>3, <2>1, <2>2, TagLeads
  <1>4. CASE item.op = "load"
    <2>1. p = LoadAndDiff
      BY <1>4 DEF Planned
    <2> QED
      BY <1>4, <2>1, NewDeltaLeads
  <1>5. CASE item.op = "applyDefault" \/ item.op = "retrieve"
    <2>1. p = ApplyDefault \/ p = Retrieve
      BY <1>5 DEF Planned
    <2>2. p.writes = <<>> /\ p.ends \in {"exception", "undefined"}
      BY <2>1 DEF ApplyDefault, Retrieve, Nothing
    <2> QED
      BY <1>5, <2>2, NoWriteLeads
  <1> QED
    BY <1>1, <1>2, <1>3, <1>4, <1>5 DEF Operations

(* The writes that are still planned lead to a good world, whatever they are. *)
WritesLeadOn ==
  \E z : /\ Leads(Now, plan.writes, Head(agenda).op = "tag", z)
         /\ ~Resting /\ Head(agenda).op = "apply" => Restores(z, plan, Head(agenda).f1)

(* The agenda holds operations, on files where they need them. *)
OnFiles(item) ==
  /\ item.op \in Operations
  /\ item.op \in {"diff", "apply", "tag"} => item.f0 \in File /\ item.f1 \in File

(* How a call ends is known, and the bounds are kept. *)
Counted ==
  /\ plan.ends \in {"ok", "exception", "undefined", "rootless"}
  /\ calls <= MaxCalls
  /\ crashes \in Nat /\ crashes <= MaxCrashes
  /\ edits \in Nat /\ edits <= MaxEdits

(* The inductive invariant of the contents of the files, beside FilesInv. *)
HistoryInv ==
  WritesLeadOn /\ (\A k \in DOMAIN agenda : OnFiles(agenda[k])) /\ Counted

(* Between two calls the world is good, and that is all that matters. *)
LEMMA RestingIsGood ==
  ASSUME Resting, plan = Nothing
  PROVE  Good(Now) <=> WritesLeadOn
PROOF
  <1> DEFINE tag == Head(agenda).op = "tag"
  <1>1. plan.writes = <<>>
    BY DEF Nothing
  <1> HIDE DEF tag
  <1>2. ASSUME Good(Now)
        PROVE  Leads(Now, plan.writes, tag, Now)
    BY <1>1, <1>2, NoWriteLeads
  <1>3. ASSUME NEW z, Leads(Now, plan.writes, tag, z)
        PROVE  Good(Now)
    BY <1>3, LeadsFacts
  <1> QED
    BY <1>2, <1>3 DEF WritesLeadOn, tag

(* The same is so when the last write has been done. *)
LEMMA NowIsGood ==
  ASSUME WritesLeadOn
  PROVE  Good(Now)
PROOF
  <1> DEFINE tag == Head(agenda).op = "tag"
  <1>1. PICK z : Leads(Now, plan.writes, tag, z)
    BY DEF WritesLeadOn
  <1> HIDE DEF tag
  <1> QED
    BY <1>1, LeadsFacts

(* The head of an agenda is begun. *)
LEMMA BeginLeads ==
  ASSUME Good(Now), NEW items, items # <<>>, IsSequence(items),
         \A k \in DOMAIN items : OnFiles(items[k]),
         Begin(items), UNCHANGED <<disk, names, versions, stale>>
  PROVE  /\ WritesLeadOn' /\ \A k \in DOMAIN agenda' : OnFiles(agenda'[k])
         /\ plan'.ends \in {"ok", "exception", "undefined", "rootless"}
PROOF
  <1> DEFINE item == Head(items)
             p == Planned(item)
             tag == item.op = "tag"
  <1>1. item = items[1] /\ 1 \in DOMAIN items
    BY TailFacts
  <1>2. OnFiles(item)
    BY <1>1
  <1>3. agenda' = items /\ plan' = p /\ p.ends # "beyond"
    BY DEF Begin
  <1>4. /\ p.ends \in {"ok", "exception", "undefined", "rootless", "beyond"}
        /\ \E z : /\ Leads(Now, p.writes, tag, z)
                  /\ item.op = "apply" => Restores(z, p, item.f1)
    BY <1>2, PlannedLeads DEF OnFiles
  <1>5. Now' = Now
    BY DEF Now
  <1>6. Head(agenda') = item
    BY <1>3
  <1>7. PICK z : /\ Leads(Now, p.writes, tag, z)
                 /\ item.op = "apply" => Restores(z, p, item.f1)
    BY <1>4
  <1> HIDE DEF item, p, tag
  <1>8. (Head(agenda').op = "tag") = tag
    BY <1>6 DEF tag
  <1>9. Leads(Now', plan'.writes, Head(agenda').op = "tag", z)
    BY <1>3, <1>5, <1>7, <1>8
  <1>10. Head(agenda').op = "apply" => Restores(z, plan', Head(agenda').f1)
    BY <1>3, <1>6, <1>7
  <1>11. WritesLeadOn'
    BY <1>9, <1>10 DEF WritesLeadOn
  <1> QED
    BY <1>3, <1>4, <1>11

(* A write is done, and the others lead to the same world as before. *)
LEMMA WriteNextLeads ==
  ASSUME WritesLeadOn, WriteNext, IsPlan(plan)
  PROVE  WritesLeadOn'
PROOF
  <1> DEFINE tag == Head(agenda).op = "tag"
             w == Head(plan.writes)
  <1>1. PICK z : /\ Leads(Now, plan.writes, tag, z)
                 /\ ~Resting /\ Head(agenda).op = "apply" => Restores(z, plan, Head(agenda).f1)
    BY DEF WritesLeadOn
  <1>2. /\ plan.writes # <<>>
        /\ plan' = [plan EXCEPT !.writes = Tail(@)]
        /\ agenda' = agenda
    BY DEF WriteNext
  <1>3. plan'.writes = Tail(plan.writes) /\ plan'.source = plan.source /\ plan'.ends = plan.ends
    BY <1>2 DEF IsPlan
  <1>4. Now' = After(Now, w, tag)
    BY DEF WriteNext, Now, After, World
  <1>5. tag' = tag
    BY <1>2
  <1> HIDE DEF tag, w
  <1>6. Leads(After(Now, w, tag), Tail(plan.writes), tag, z)
    BY <1>1, <1>2, LeadsFrom DEF w
  <1>7. Leads(Now', plan'.writes, tag', z)
    BY <1>3, <1>4, <1>5, <1>6
  <1>8. ~Resting' /\ Head(agenda').op = "apply" => Restores(z, plan', Head(agenda').f1)
    <2>1. \A f : Restores(z, plan, f) => Restores(z, plan', f)
      BY <1>3 DEF Restores
    <2>2. Resting' = Resting
      BY <1>2 DEF Resting
    <2> QED
      BY <1>1, <1>2, <2>1, <2>2
  <1> QED
    BY <1>7, <1>8 DEF WritesLeadOn, tag

(* The user may write any document. *)
LEMMA EditLeads ==
  ASSUME Good(Now), Edit
  PROVE  Good(Now')
PROOF
  <1>1. PICK f \in File, labels \in Children :
          /\ disk' = [disk EXCEPT ![Xml(f)] = Holding(labels)]
          /\ stale' = stale \cup {f}
          /\ UNCHANGED <<names, versions>>
    BY DEF Edit
  <1> DEFINE a == Write(Xml(f), Holding(labels), <<>>)
             z == After(Now, a, TRUE)
  <1>2. z = Now'
    BY <1>1, PathFacts DEF After, Write, Now, World
  <1>3. GoodDocument(Now.disk[Xml(f)], Now.disk[Map(f)], Now.names[f], f \in Now.stale)
    BY DEF Good
  <1>4. Holding(labels).state = "written"
    BY DEF Holding
  <1>5. GoodDocument(Holding(labels), Now.disk[Map(f)], Now.names[f], TRUE \/ f \in Now.stale)
    BY <1>3, <1>4 DEF GoodDocument
  <1>6. Good(z)
    BY <1>5, DocumentWritten
  <1> QED
    BY <1>2, <1>6

(* The first call has not begun. *)
LEMMA InitHistory == Init => HistoryInv
PROOF
  <1> SUFFICES ASSUME Init PROVE HistoryInv
    OBVIOUS
  <1>1. Resting /\ plan = Nothing
    BY DEF Init, Resting
  <1>2. /\ disk = [p \in Paths |-> disk[p]] /\ names = [f \in File |-> names[f]]
        /\ stale \subseteq File
    BY DEF Init
  <1>3. ASSUME NEW f \in File
        PROVE  GoodDocument(disk[Xml(f)], disk[Map(f)], names[f], f \in stale)
    <2>1. disk[Map(f)] = Absent
      BY PathFacts DEF Init
    <2>2. disk[Xml(f)] \in {Absent, Empty} \cup {Holding(labels) : labels \in Children}
      BY PathFacts DEF Init
    <2> QED
      BY <2>1, <2>2 DEF GoodDocument
  <1>4. GoodDelta(disk[Delta], versions)
    <2>1. disk[Delta] = Absent
      BY PathFacts DEF Init
    <2> QED
      BY <2>1 DEF GoodDelta, Init
  <1>5. Good(Now)
    BY <1>2, <1>3, <1>4 DEF Good, Now, World
  <1>6. WritesLeadOn
    BY <1>1, <1>5, RestingIsGood
  <1>7. Counted
    BY <1>1, FilesAssumption DEF Counted, Init, Nothing, FilesAssumption
  <1>8. DOMAIN agenda = {}
    BY DEF Init
  <1> QED
    BY <1>6, <1>7, <1>8 DEF HistoryInv

(* A call is begun: its first operation, and the rest of it. *)
LEMMA CallLeads ==
  ASSUME HistoryInv, NEW items, NEW cost, Call(items, cost), plan = Nothing,
         items # <<>>, IsSequence(items), \A k \in DOMAIN items : OnFiles(items[k])
  PROVE  HistoryInv'
PROOF
  <1>1. /\ Begin(items) /\ UNCHANGED <<disk, names, versions, stale, crashes, edits>>
        /\ calls' = calls + cost /\ calls + cost <= MaxCalls
    BY DEF Call
  <1>2. Good(Now)
    BY NowIsGood DEF HistoryInv
  <1>3. /\ WritesLeadOn' /\ \A k \in DOMAIN agenda' : OnFiles(agenda'[k])
        /\ plan'.ends \in {"ok", "exception", "undefined", "rootless"}
    BY <1>1, <1>2, BeginLeads
  <1>4. Counted'
    BY <1>1, <1>3 DEF Counted, HistoryInv
  <1> QED
    BY <1>3, <1>4 DEF HistoryInv

(* Calls of one operation, and RunDiff. *)
LEMMA OneCallLeads ==
  ASSUME HistoryInv, plan = Nothing, NEW op, NEW f0, NEW f1, NEW cost,
         Call(<<Item(op, f0, f1)>>, cost), OnFiles(Item(op, f0, f1))
  PROVE  HistoryInv'
PROOF
  <1> DEFINE a == Item(op, f0, f1)
             items == <<a>>
  <1>1. items # <<>> /\ DOMAIN items = {1} /\ items[1] = a /\ IsSequence(items)
    BY ShortPlans
  <1>2. Call(items, cost) /\ OnFiles(a)
    OBVIOUS
  <1> HIDE DEF a, items
  <1>3. \A k \in DOMAIN items : OnFiles(items[k])
    BY <1>1, <1>2
  <1> QED
    BY <1>1, <1>2, <1>3, CallLeads

(* What stays as it is between two calls. *)
LEMMA RestingLeads ==
  ASSUME HistoryInv, Resting, plan = Nothing, UNCHANGED <<agenda, plan, calls, crashes>>,
         Good(Now'), edits' \in Nat, edits' <= MaxEdits
  PROVE  HistoryInv'
PROOF
  <1>1. plan'.writes = <<>>
    BY DEF Nothing
  <1> DEFINE tag == Head(agenda).op = "tag"
  <1>2. (Head(agenda').op = "tag") = tag
    OBVIOUS
  <1> HIDE DEF tag
  <1>3. Leads(Now', plan'.writes, tag, Now')
    BY <1>1, NoWriteLeads
  <1>4. Resting'
    BY DEF Resting
  <1>5. WritesLeadOn'
    BY <1>2, <1>3, <1>4 DEF WritesLeadOn
  <1>6. Counted'
    BY DEF Counted, HistoryInv
  <1>7. \A k \in DOMAIN agenda' : OnFiles(agenda'[k])
    BY DEF HistoryInv
  <1> QED
    BY <1>5, <1>6, <1>7 DEF HistoryInv

(* The end of a call, in good order or not. *)
LEMMA AtRestLeads ==
  ASSUME HistoryInv, AtRest, UNCHANGED <<disk, names, versions, stale, calls, edits>>,
         crashes' \in Nat, crashes' <= MaxCrashes
  PROVE  HistoryInv'
PROOF
  <1>1. Good(Now)
    BY NowIsGood DEF HistoryInv
  <1>2. Now' = Now
    BY DEF Now
  <1>3. agenda' = <<>> /\ plan' = Nothing /\ plan'.writes = <<>> /\ plan'.ends = "ok"
    BY DEF AtRest, Nothing
  <1> DEFINE tag == Head(agenda').op = "tag"
  <1> HIDE DEF tag
  <1>4. Leads(Now', plan'.writes, tag, Now')
    BY <1>1, <1>2, <1>3, NoWriteLeads
  <1>5. Resting'
    BY <1>3 DEF Resting
  <1>6. WritesLeadOn'
    BY <1>4, <1>5 DEF WritesLeadOn, tag
  <1>7. Counted'
    BY <1>3 DEF Counted, HistoryInv
  <1>8. \A k \in DOMAIN agenda' : OnFiles(agenda'[k])
    BY <1>3
  <1> QED
    BY <1>6, <1>7, <1>8 DEF HistoryInv

(* The next operation of RunDiff is begun. *)
LEMMA ContinueLeads ==
  ASSUME HistoryInv, FilesInv, Continue
  PROVE  HistoryInv'
PROOF
  <1> DEFINE items == Tail(agenda)
  <1>1. /\ agenda # <<>> /\ Len(agenda) > 1 /\ IsSequence(agenda)
        /\ Begin(items) /\ UNCHANGED <<disk, names, versions, stale, calls, crashes, edits>>
    BY DEF Continue, Finished, Resting, FilesInv, Settled
  <1>2. /\ IsSequence(items) /\ Len(agenda) \in Nat
        /\ DOMAIN agenda = 1 .. Len(agenda) /\ DOMAIN items = 1 .. (Len(agenda) - 1)
        /\ \A k \in DOMAIN items : items[k] = agenda[k + 1]
    BY <1>1, TailFacts
  <1> HIDE DEF items
  <1>3. 1 \in DOMAIN items
    BY <1>1, <1>2
  <1>4. items # <<>>
    BY <1>3
  <1>5. \A k \in DOMAIN items : OnFiles(items[k])
    <2> TAKE k \in DOMAIN items
    <2>1. k + 1 \in DOMAIN agenda
      BY <1>2
    <2> QED
      BY <1>2, <2>1 DEF HistoryInv
  <1>6. Good(Now)
    BY NowIsGood DEF HistoryInv
  <1>7. /\ WritesLeadOn' /\ \A k \in DOMAIN agenda' : OnFiles(agenda'[k])
        /\ plan'.ends \in {"ok", "exception", "undefined", "rootless"}
    BY <1>1, <1>2, <1>4, <1>5, <1>6, BeginLeads
  <1>8. Counted'
    BY <1>1, <1>7 DEF Counted, HistoryInv
  <1> QED
    BY <1>7, <1>8 DEF HistoryInv

(* Every step leads on. *)
LEMMA NextLeads ==
  ASSUME HistoryInv, FilesInv, [Next]_vars
  PROVE  HistoryInv'
PROOF
  <1>1. IsPlan(plan) /\ (Resting => plan = Nothing)
    BY DEF FilesInv, Settled
  <1>2. Good(Now)
    BY NowIsGood DEF HistoryInv
  <1>3. MaxEdits \in Nat /\ MaxCrashes \in Nat /\ crashes \in Nat /\ edits \in Nat
        /\ crashes <= MaxCrashes /\ edits <= MaxEdits
    BY FilesAssumption DEF FilesAssumption, HistoryInv, Counted
  <1>4. \A f0, f1 \in File : \A op \in {"diff", "apply", "tag"} : OnFiles(Item(op, f0, f1))
    BY DEF OnFiles, Item, Operations
  <1>5. \A op \in {"applyDefault", "load", "retrieve"} : OnFiles(Item(op, None, None))
    BY DEF OnFiles, Item, Operations
  <1>6. CASE CallXyDiff
    <2>1. PICK f0 \in File, f1 \in File : Call(<<Item("diff", f0, f1)>>, 1)
      BY <1>6 DEF CallXyDiff
    <2>2. plan = Nothing
      BY <1>1, <2>1 DEF Call
    <2> QED
      BY <1>4, <2>1, <2>2, OneCallLeads
  <1>7. CASE CallApplyDelta
    <2>1. PICK f0 \in File, f1 \in File : Call(<<Item("apply", f0, f1)>>, 1)
      BY <1>7 DEF CallApplyDelta
    <2>2. plan = Nothing
      BY <1>1, <2>1 DEF Call
    <2> QED
      BY <1>4, <2>1, <2>2, OneCallLeads
  <1>8. ASSUME NEW op \in {"applyDefault", "load", "retrieve"},
               Call(<<Item(op, None, None)>>, 1)
        PROVE  HistoryInv'
    <2>1. plan = Nothing
      BY <1>1, <1>8 DEF Call
    <2> QED
      BY <1>5, <1>8, <2>1, OneCallLeads
  <1>9. CASE CallApplyDefault \/ CallXyLoadAndDiff \/ CallRetrieve
    BY <1>8, <1>9 DEF CallApplyDefault, CallXyLoadAndDiff, CallRetrieve
  <1>10. CASE CallRunDiff
    <2>1. PICK f0 \in File, f1 \in File, s0 \in File, s1 \in File :
            Call(<<Item("diff", f0, f1), Item("tag", f0, s0), Item("tag", f1, s1)>>, 2)
      BY <1>10 DEF CallRunDiff
    <2> DEFINE a == Item("diff", f0, f1)
               b == Item("tag", f0, s0)
               c == Item("tag", f1, s1)
               items == <<a, b, c>>
    <2>2. OnFiles(a) /\ OnFiles(b) /\ OnFiles(c)
      BY <1>4
    <2>3. plan = Nothing /\ Call(items, 2)
      BY <1>1, <2>1 DEF Call
    <2> HIDE DEF a, b, c
    <2>4. items # <<>> /\ DOMAIN items = 1 .. 3 /\ items \in Seq({a, b, c})
          /\ items[1] = a /\ items[2] = b /\ items[3] = c
      OBVIOUS
    <2> HIDE DEF items
    <2>5. IsSequence(items)
      BY <2>4 DEF IsSequence
    <2>6. \A k \in DOMAIN items : OnFiles(items[k])
      <3>1. \A k \in 1 .. 3 : k = 1 \/ k = 2 \/ k = 3
        OBVIOUS
      <3> QED
        BY <2>2, <2>4, <3>1
    <2> QED
      BY <2>3, <2>4, <2>5, <2>6, CallLeads
  <1>11. CASE CreateDelta \/ Exit
    <2>1. /\ Resting /\ UNCHANGED <<disk, agenda, plan, names, versions, stale,
                                    calls, crashes, edits>>
      BY <1>11 DEF CreateDelta, Exit
    <2>2. Now' = Now
      BY <2>1 DEF Now
    <2> QED
      BY <1>1, <1>2, <1>3, <2>1, <2>2, RestingLeads
  <1>12. CASE WriteNext
    <2>1. WritesLeadOn'
      BY <1>1, <1>12, WriteNextLeads DEF HistoryInv
    <2>2. /\ plan' = [plan EXCEPT !.writes = Tail(@)]
          /\ UNCHANGED <<agenda, calls, crashes, edits>>
      BY <1>12 DEF WriteNext
    <2>3. plan'.ends = plan.ends
      BY <1>1, <2>2 DEF IsPlan
    <2>4. Counted'
      BY <2>2, <2>3 DEF Counted, HistoryInv
    <2>5. \A k \in DOMAIN agenda' : OnFiles(agenda'[k])
      BY <2>2 DEF HistoryInv
    <2> QED
      BY <2>1, <2>4, <2>5 DEF HistoryInv
  <1>13. CASE Continue
    BY <1>13, ContinueLeads
  <1>14. CASE Return
    <2>1. /\ AtRest /\ UNCHANGED <<disk, names, versions, stale, calls, crashes, edits>>
      BY <1>14 DEF Return
    <2> QED
      BY <1>3, <2>1, AtRestLeads
  <1>15. CASE Crash
    <2>1. /\ AtRest /\ UNCHANGED <<disk, names, versions, stale, calls, edits>>
          /\ crashes' = crashes + 1 /\ crashes < MaxCrashes
      BY <1>15 DEF Crash
    <2>2. crashes' \in Nat /\ crashes' <= MaxCrashes
      BY <1>3, <2>1
    <2> QED
      BY <2>1, <2>2, AtRestLeads
  <1>16. CASE Edit
    <2>1. Good(Now')
      BY <1>2, <1>16, EditLeads
    <2>2. /\ Resting /\ UNCHANGED <<agenda, plan, calls, crashes>>
          /\ edits' = edits + 1 /\ edits < MaxEdits
      BY <1>16 DEF Edit
    <2>3. edits' \in Nat /\ edits' <= MaxEdits
      BY <1>3, <2>2
    <2> QED
      BY <1>1, <2>1, <2>2, <2>3, RestingLeads
  <1>17. CASE UNCHANGED vars
    <2>1. UNCHANGED <<disk, agenda, plan, names, versions, stale, calls, crashes, edits>>
      BY <1>17 DEF vars
    <2>2. Now' = Now /\ Resting' = Resting
      BY <2>1 DEF Now, Resting
    <2>3. WritesLeadOn'
      <3> DEFINE tag == Head(agenda).op = "tag"
      <3>1. PICK z : /\ Leads(Now, plan.writes, tag, z)
                     /\ ~Resting /\ Head(agenda).op = "apply"
                          => Restores(z, plan, Head(agenda).f1)
        BY DEF WritesLeadOn, HistoryInv
      <3>2. (Head(agenda').op = "tag") = tag
        BY <2>1
      <3> HIDE DEF tag
      <3>3. Leads(Now', plan'.writes, Head(agenda').op = "tag", z)
        BY <2>1, <2>2, <3>1, <3>2
      <3>4. ~Resting' /\ Head(agenda').op = "apply" => Restores(z, plan', Head(agenda').f1)
        BY <2>1, <2>2, <3>1
      <3> QED
        BY <3>3, <3>4 DEF WritesLeadOn
    <2>4. Counted'
      BY <2>1 DEF Counted, HistoryInv
    <2>5. \A k \in DOMAIN agenda' : OnFiles(agenda'[k])
      BY <2>1 DEF HistoryInv
    <2> QED
      BY <2>3, <2>4, <2>5 DEF HistoryInv
  <1> QED
    BY <1>6, <1>7, <1>9, <1>10, <1>11, <1>12, <1>13, <1>14, <1>15, <1>16, <1>17 DEF Next

(***************************************************************************)
(* Whatever is called, edited and cut short: the writes a call still has   *)
(* to do lead, one good world after the other, to where ApplyDelta has     *)
(* restored the second version.  In a good world every map is that of its  *)
(* document, what it ever named is below its first available XID, and the  *)
(* delta is one of the versions that are known.                            *)
(***************************************************************************)
THEOREM HistoryInvariance == Spec => []HistoryInv
PROOF
  <1>1. FilesInv /\ HistoryInv /\ [Next]_vars => HistoryInv'
    BY NextLeads
  <1> QED
    BY <1>1, InitHistory, FilesInvariance, PTL DEF Spec

(* The map of a document is what the parser expects: runs from low to high, none of zero. *)
LEMMA MapTyped ==
  ASSUME NEW d, IsDoc(d)
  PROVE  StringFromList(d) \in
           [ranges : Seq({r \in Nat \X Nat : 0 < r[1] /\ r[1] <= r[2]}), first : Nat]
PROOF
  <1> DEFINE s == d.xids
             runs == Runs(s)
             R == {r \in Nat \X Nat : 0 < r[1] /\ r[1] <= r[2]}
  <1>1. /\ s \in Seq(Nat) /\ d.first \in Nat /\ Len(s) = Cardinality(d.labels) + 1
        /\ \A k \in DOMAIN s : 0 < s[k]
        /\ Cardinality(d.labels) \in Nat
    BY ChildrenFacts DEF IsDoc
  <1>2. Len(s) # 0 /\ DOMAIN s = 1 .. Len(s) /\ Len(s) \in Nat
    BY <1>1
  <1> HIDE DEF s
  <1>3. PICK b, e : AreRuns(s, runs, b, e)
    BY <1>1, <1>2, RunsFacts
  <1>4. runs = [n \in DOMAIN runs |-> runs[n]]
    BY DEF Runs
  <1> HIDE DEF runs
  <1> DEFINE N == Len(runs)
  <1>5. /\ N \in Nat /\ DOMAIN runs = 1 .. N
        /\ b \in [1 .. N -> 1 .. Len(s)] /\ e \in [0 .. N -> 0 .. Len(s)]
        /\ \A n \in 1 .. N :
             /\ b[n] <= e[n] /\ runs[n] = <<s[b[n]], s[e[n]]>>
             /\ \A k \in b[n] .. e[n] : s[k] = s[b[n]] + (k - b[n])
    BY <1>3 DEF AreRuns
  <1> HIDE DEF N
  <1>6. ASSUME NEW n \in 1 .. N
        PROVE  runs[n] \in R
    <2>1. b[n] \in 1 .. Len(s) /\ e[n] \in 0 .. Len(s) /\ b[n] <= e[n]
      BY <1>5
    <2>2. e[n] \in b[n] .. e[n] /\ e[n] \in 1 .. Len(s)
      BY <1>2, <2>1
    <2>3. s[b[n]] \in Nat /\ 0 < s[b[n]] /\ s[e[n]] \in Nat
      BY <1>1, <1>2, <2>1, <2>2
    <2>4. s[e[n]] = s[b[n]] + (e[n] - b[n])
      BY <1>5, <2>2
    <2>5. s[b[n]] <= s[e[n]]
      BY <1>2, <2>1, <2>2, <2>3, <2>4
    <2>6. \A x, y \in Nat : 0 < x /\ x <= y => <<x, y>> \in R
      OBVIOUS
    <2>7. runs[n] = <<s[b[n]], s[e[n]]>>
      BY <1>5
    <2> HIDE DEF R
    <2> QED
      BY <2>3, <2>5, <2>6, <2>7
  <1> HIDE DEF R
  <1>7. runs \in Seq(R)
    BY <1>4, <1>5, <1>6
  <1> QED
    BY <1>1, <1>7 DEF StringFromList, runs, R, s

(* Every file of a good world is of its type. *)
LEMMA FilesTyped ==
  ASSUME NEW w, Good(w), NEW p \in Paths
  PROVE  w.disk[p] \in Files(p)
PROOF
  <1>1. (\E f \in File : p = Xml(f) \/ p = Map(f)) \/ p = Delta
    BY DEF Paths, Xml, Map
  <1>2. ASSUME NEW f \in File, p = Xml(f)
        PROVE  w.disk[p] \in Files(p)
    <2>1. w.disk[p] \in {Absent, Empty} \cup {Holding(labels) : labels \in Children}
      BY <1>2 DEF Good, GoodDocument
    <2>2. Contents(p) = Children
      BY <1>2, PathFacts DEF Contents
    <2> QED
      BY <2>1, <2>2 DEF Files, Holding
  <1>3. ASSUME NEW f \in File, p = Map(f)
        PROVE  w.disk[p] \in Files(p)
    <2>1. \/ w.disk[p] = Absent \/ w.disk[p] = Empty
          \/ \E d : IsDoc(d) /\ w.disk[p] = Holding(StringFromList(d))
      BY <1>3 DEF Good, GoodDocument
    <2>2. Contents(p) =
            [ranges : Seq({r \in Nat \X Nat : 0 < r[1] /\ r[1] <= r[2]}), first : Nat]
      BY <1>3, PathFacts DEF Contents
    <2>3. \A d : IsDoc(d) => StringFromList(d) \in Contents(p)
      BY <2>2, MapTyped
    <2>4. \A c \in Contents(p) : Holding(c) \in Files(p)
      BY DEF Files, Holding
    <2> QED
      BY <2>1, <2>3, <2>4 DEF Files
  <1>4. ASSUME p = Delta
        PROVE  w.disk[p] \in Files(p)
    <2> DEFINE V == [par : Nat, gone : SUBSET Nat,
                     new : Seq([xid : Nat, label : Label, pos : Nat])]
    <2>1. Contents(p) = {VersionFile} \cup V
      BY <1>4, PathFacts DEF Contents
    <2> HIDE DEF V
    <2>2. \A c \in Contents(p) : Holding(c) \in Files(p)
      BY DEF Files, Holding
    <2>3. GoodDelta(w.disk[p], w.versions)
      BY <1>4 DEF Good
    <2>4. CASE w.disk[p] \in {Absent, Empty, Holding(VersionFile)}
      BY <2>1, <2>2, <2>4 DEF Files
    <2>5. ASSUME NEW d, NEW labels \in Children, IsDoc(d),
                 w.disk[p] = Holding(DeltaBetween(d, SecondVersion(d, labels)))
          PROVE  w.disk[p] \in Files(p)
      <3>1. IsDoc(SecondVersion(d, labels))
        BY <2>5, SecondFacts
      <3>2. IsDelta(DeltaBetween(d, SecondVersion(d, labels)))
        BY <2>5, <3>1, DeltaFacts
      <3>3. DeltaBetween(d, SecondVersion(d, labels)) \in V
        BY <3>2, DeltaTyped DEF V
      <3> QED
        BY <2>1, <2>2, <2>5, <3>3
    <2> QED
      BY <2>3, <2>4, <2>5 DEF GoodDelta
  <1> QED
    BY <1>1, <1>2, <1>3, <1>4

(* What is written is what the next world holds. *)
LEMMA WritesTyped ==
  ASSUME NEW w, NEW s, NEW tag, NEW z, Leads(w, s, tag, z), NEW k \in DOMAIN s
  PROVE  s[k].file \in Files(s[k].path)
PROOF
  <1>1. PICK st : GoesThrough(st, s, tag)
    BY DEF Leads
  <1>2. DOMAIN s = 1 .. Len(s) /\ Len(s) \in Nat
    BY DEF Leads, IsSequence
  <1>3. /\ Good(st[k - 1]) /\ Good(st[k]) /\ s[k].path \in Paths
        /\ st[k] = After(st[k - 1], s[k], tag)
    <2>1. k \in 1 .. Len(s) /\ k \in 0 .. Len(s) /\ k - 1 \in 0 .. Len(s)
      BY <1>2
    <2> QED
      BY <1>1, <2>1 DEF GoesThrough
  <1>4. st[k].disk = [st[k - 1].disk EXCEPT ![s[k].path] = s[k].file]
    BY <1>3 DEF After, World
  <1>5. s[k].path \in DOMAIN st[k - 1].disk
    BY <1>3 DEF Good
  <1>6. st[k].disk[s[k].path] = s[k].file
    BY <1>4, <1>5
  <1> QED
    BY <1>3, <1>6, FilesTyped

(***************************************************************************)
(* For any files, calls, edits and crashes: every file holds what its      *)
(* reader expects, and so does every write that is planned; no run of a    *)
(* map is empty and none holds the XID 0.                                  *)
(***************************************************************************)
THEOREM FilesAreTyped == Spec => []TypeOK
PROOF
  <1>1. FilesInv /\ HistoryInv => TypeOK
    <2> SUFFICES ASSUME FilesInv, HistoryInv PROVE TypeOK
      OBVIOUS
    <2>1. Good(Now)
      BY NowIsGood DEF HistoryInv
    <2>2. DOMAIN disk = Paths
      BY DEF FilesInv, Settled
    <2>3. \A p \in Paths : disk[p] \in Files(p)
      <3>1. \A p \in Paths : Now.disk[p] \in Files(p)
        BY <2>1, FilesTyped
      <3> QED
        BY <3>1 DEF Now, World
    <2>4. \A k \in DOMAIN plan.writes : plan.writes[k].file \in Files(plan.writes[k].path)
      <3> DEFINE tag == Head(agenda).op = "tag"
      <3>1. PICK z : Leads(Now, plan.writes, tag, z)
        BY DEF HistoryInv, WritesLeadOn
      <3> HIDE DEF tag
      <3> QED
        BY <3>1, WritesTyped
    <2>5. stale \subseteq File
      BY <2>1 DEF Good, Now, World
    <2> QED
      BY <2>2, <2>3, <2>4, <2>5 DEF TypeOK, HistoryInv, Counted
  <1> QED
    BY <1>1, FilesInvariance, HistoryInvariance, PTL

(***************************************************************************)
(* For any files, calls, edits and crashes: a document that can be read    *)
(* beside a map that can be read is the one the map was made for, and      *)
(* every XID is that of the node it has always named.                      *)
(***************************************************************************)
THEOREM EveryMapBelongs == Spec => []MapBelongsToDocument
PROOF
  <1>1. HistoryInv => MapBelongsToDocument
    <2> SUFFICES ASSUME HistoryInv, NEW f \in File,
                        Readable(Xml(f)), Readable(Map(f)), f \notin stale
                 PROVE  /\ Registering(MapString(f), Labels(f)) = "ok"
                        /\ LET d == Registered(MapString(f), Labels(f))
                           IN \A x \in XidsIn(d) : names[f][x] = Naming(d)[x]
      BY DEF MapBelongsToDocument
    <2>1. Good(Now)
      BY NowIsGood DEF HistoryInv
    <2>2. disk[Map(f)] # Absent /\ disk[Map(f)] # Empty
      BY DEF Readable, Absent, Empty
    <2>3. PICK d : /\ IsDoc(d) /\ disk[Map(f)] = Holding(StringFromList(d)) /\ Fits(names[f], d)
                   /\ Labels(f) = d.labels
      BY <2>1, <2>2, DocumentFacts
    <2>4. MapString(f) = StringFromList(d) /\ Labels(f) \in Children
      BY <2>1, <2>3, DocumentFacts DEF MapString, Holding
    <2>5. Registering(MapString(f), Labels(f)) = "ok" /\ Registered(MapString(f), Labels(f)) = d
      BY <2>3, <2>4, RegisteredFacts
    <2> QED
      BY <2>3, <2>5 DEF Fits
  <1> QED
    BY <1>1, HistoryInvariance, PTL

(***************************************************************************)
(* For any files, calls, edits and crashes: every XID that a map or one of *)
(* its predecessors has ever used is below its first available XID, so the *)
(* XID of a node that is gone is never given to another.                   *)
(***************************************************************************)
THEOREM NoXidComesBack == Spec => []DeadXidsStayDead
PROOF
  <1>1. HistoryInv => DeadXidsStayDead
    <2> SUFFICES ASSUME HistoryInv, NEW f \in File, Readable(Map(f)), NEW x \in DOMAIN names[f]
                 PROVE  x < MapString(f).first
      BY DEF DeadXidsStayDead
    <2>1. Good(Now)
      BY NowIsGood DEF HistoryInv
    <2>2. disk[Map(f)] # Absent /\ disk[Map(f)] # Empty
      BY DEF Readable, Absent, Empty
    <2>3. PICK d : IsDoc(d) /\ disk[Map(f)] = Holding(StringFromList(d)) /\ Fits(names[f], d)
      BY <2>1, <2>2, DocumentFacts
    <2>4. MapString(f).first = d.first
      BY <2>3 DEF MapString, Holding, StringFromList
    <2> QED
      BY <2>3, <2>4 DEF Fits
  <1> QED
    BY <1>1, HistoryInvariance, PTL

(***************************************************************************)
(* For any files, calls, edits and crashes: ApplyDelta on the version the  *)
(* delta was computed from succeeds, and leaves the second version beside  *)
(* the map that was saved for it.                                          *)
(***************************************************************************)
THEOREM ApplyDeltaRebuilds == Spec => ApplyRebuilds
PROOF
  <1> DEFINE A == Finished /\ Head(agenda).op = "apply" /\ Readable(Delta) /\ versions # None =>
                    LET f == Head(agenda).f1 IN
                    plan.source = versions.from =>
                      /\ plan.ends = "ok"
                      /\ disk[Xml(f)] = Holding(versions.to.labels)
                      /\ disk[Map(f)] = Holding(StringFromList(versions.to))
  <1>1. HistoryInv => A
    <2> SUFFICES ASSUME HistoryInv, Finished, Head(agenda).op = "apply", Readable(Delta),
                        versions # None, plan.source = versions.from
                 PROVE  /\ plan.ends = "ok"
                        /\ disk[Xml(Head(agenda).f1)] = Holding(versions.to.labels)
                        /\ disk[Map(Head(agenda).f1)] = Holding(StringFromList(versions.to))
      OBVIOUS
    <2> DEFINE tag == Head(agenda).op = "tag"
    <2>1. PICK z : /\ Leads(Now, plan.writes, tag, z)
                   /\ ~Resting /\ Head(agenda).op = "apply" => Restores(z, plan, Head(agenda).f1)
      BY DEF HistoryInv, WritesLeadOn
    <2> HIDE DEF tag
    <2>2. z = Now
      BY <2>1, LeadsFacts DEF Finished
    <2>3. Restores(Now, plan, Head(agenda).f1)
      BY <2>1, <2>2 DEF Finished
    <2>4. Now.disk = disk /\ Now.versions = versions
      BY DEF Now, World
    <2> QED
      BY <2>3, <2>4 DEF Restores, Holds, Readable
  <1>2. HistoryInv /\ [Next]_vars => [A]_vars
    BY <1>1
  <1> QED
    BY <1>2, HistoryInvariance, PTL DEF Spec, ApplyRebuilds
=============================================================================
