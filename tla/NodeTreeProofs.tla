--------------------------- MODULE NodeTreeProofs ---------------------------
(***************************************************************************)
(* Proofs about prefix lists (PathPolicy), the types of all that OKF       *)
(* maintenance keeps, and the tree of a corpus: its rows stay the tree     *)
(* their paths say (WellFormed of NodeTree), for any callers, names,       *)
(* corpora, jobs, calls and crashes, and for trees, lists and paths of any *)
(* size.  What lemmas on trees say they say of any rows; what a call under *)
(* way needs of the tree is CallFacts, and what holds at every step is     *)
(* Facts.                                                                  *)
(***************************************************************************)
EXTENDS OkfMaintenance, FiniteSetTheorems, SequenceTheorems, TLAPS

-----------------------------------------------------------------------------
(* The folding of prefix lists.                                            *)

Paths == Seq(Names)

\* Lists with holes.
IsList(l) == DOMAIN l \subseteq Nat /\ \A i \in DOMAIN l : l[i] \in Paths

\* What it is to be covered, name by name.
LEMMA CoversMeaning ==
    ASSUME NEW p \in Paths, NEW q \in Paths
    PROVE  Covers(p, q) <=> Len(p) <= Len(q) /\ \A i \in 1 .. Len(p) : p[i] = q[i]
<1>1. ASSUME Len(p) <= Len(q)
      PROVE  SubSeq(p, 1, Len(p)) = SubSeq(q, 1, Len(p)) <=> \A i \in 1 .. Len(p) : p[i] = q[i]
  <2>1. SubSeq(p, 1, Len(p)) = [i \in 1 .. Len(p) |-> p[i]]
    BY DEF Paths
  <2>2. SubSeq(q, 1, Len(p)) = [i \in 1 .. Len(p) |-> q[i]]
    BY <1>1 DEF Paths
  <2> QED
    BY <2>1, <2>2
<1> QED
  BY <1>1 DEF Covers, IsPrefix

LEMMA CoversTransitive ==
    ASSUME NEW p \in Paths, NEW q \in Paths, NEW r \in Paths, Covers(p, q), Covers(q, r)
    PROVE  Covers(p, r)
<1>1. Len(p) \in Nat /\ Len(q) \in Nat /\ Len(r) \in Nat
  BY DEF Paths
<1>2. Len(p) <= Len(q) /\ \A i \in 1 .. Len(p) : p[i] = q[i]
  BY CoversMeaning
<1>3. Len(q) <= Len(r) /\ \A i \in 1 .. Len(q) : q[i] = r[i]
  BY CoversMeaning
<1>4. Len(p) <= Len(r) /\ \A i \in 1 .. Len(p) : p[i] = r[i]
  BY <1>1, <1>2, <1>3
<1> QED
  BY <1>4, CoversMeaning

\* Two prefixes of one path meet.
LEMMA PrefixesMeet ==
    ASSUME NEW p \in Paths, NEW q \in Paths, NEW r \in Paths, Covers(p, r), Covers(q, r)
    PROVE  Meets(p, q)
<1>1. Len(p) \in Nat /\ Len(q) \in Nat
  BY DEF Paths
<1>2. \A i \in 1 .. Len(p) : p[i] = r[i]
  BY CoversMeaning
<1>3. \A i \in 1 .. Len(q) : q[i] = r[i]
  BY CoversMeaning
<1>4. CASE Len(p) <= Len(q)
  <2>1. \A i \in 1 .. Len(p) : p[i] = q[i]
    BY <1>1, <1>2, <1>3, <1>4
  <2> QED
    BY <2>1, <1>4, CoversMeaning DEF Meets
<1>5. CASE Len(q) <= Len(p)
  <2>1. \A i \in 1 .. Len(q) : q[i] = p[i]
    BY <1>1, <1>2, <1>3, <1>5
  <2> QED
    BY <2>1, <1>5, CoversMeaning DEF Meets
<1> QED
  BY <1>1, <1>4, <1>5

\* Deeper(p, q) is one of the two and covered by both.
LEMMA DeeperIsBelow ==
    ASSUME NEW p \in Paths, NEW q \in Paths, Meets(p, q)
    PROVE  /\ Deeper(p, q) \in Paths
           /\ Deeper(p, q) \in {p, q}
           /\ Covers(p, Deeper(p, q)) /\ Covers(q, Deeper(p, q))
<1>1. Covers(p, p) /\ Covers(q, q)
  BY CoversMeaning DEF Paths
<1> QED
  BY <1>1 DEF Meets, Deeper

-----------------------------------------------------------------------------
LEMMA IntersectIsList ==
    ASSUME NEW parent, NEW child, IsList(parent), IsList(child)
    PROVE  /\ IsList(Intersect(parent, child))
           /\ \A i \in DOMAIN Intersect(parent, child) :
                /\ i \in DOMAIN child
                /\ \E j \in Meeting(parent, child[i]) :
                     Intersect(parent, child)[i] = Deeper(parent[j], child[i])
<1>1. DOMAIN Intersect(parent, child) = {i \in DOMAIN child : First(parent, child[i]) # {}}
  BY DEF Intersect
<1>2. ASSUME NEW i \in DOMAIN Intersect(parent, child)
      PROVE  /\ i \in DOMAIN child
             /\ \E j \in Meeting(parent, child[i]) :
                  Intersect(parent, child)[i] = Deeper(parent[j], child[i])
  <2> DEFINE j == CHOOSE j \in First(parent, child[i]) : TRUE
  <2>1. i \in DOMAIN child /\ First(parent, child[i]) # {}
    BY <1>1, <1>2
  <2>2. j \in First(parent, child[i])
    BY <2>1
  <2>3. j \in Meeting(parent, child[i])
    BY <2>2 DEF First
  <2>4. Intersect(parent, child)[i] = Deeper(parent[j], child[i])
    BY <2>1 DEF Intersect
  <2> QED
    BY <2>1, <2>3, <2>4
<1>3. ASSUME NEW i \in DOMAIN Intersect(parent, child)
      PROVE  Intersect(parent, child)[i] \in Paths
  <2>1. PICK j \in Meeting(parent, child[i]) :
               Intersect(parent, child)[i] = Deeper(parent[j], child[i])
    BY <1>2
  <2>2. j \in DOMAIN parent /\ Meets(parent[j], child[i])
    BY <2>1 DEF Meeting
  <2>3. parent[j] \in Paths /\ child[i] \in Paths
    BY <1>2, <2>2 DEF IsList
  <2> QED
    BY <2>1, <2>2, <2>3, DeeperIsBelow
<1>4. DOMAIN Intersect(parent, child) \subseteq Nat
  BY <1>1 DEF IsList
<1> QED
  BY <1>2, <1>3, <1>4 DEF IsList

\* What an intersection permits, both lists permit.
LEMMA IntersectNarrows ==
    ASSUME NEW parent, NEW child, IsList(parent), IsList(child),
           NEW path \in Paths, Permits(Intersect(parent, child), path)
    PROVE  Permits(parent, path) /\ Permits(child, path)
<1>1. PICK i \in DOMAIN Intersect(parent, child) : Covers(Intersect(parent, child)[i], path)
  BY DEF Permits
<1>2. i \in DOMAIN child
  BY <1>1, IntersectIsList
<1>3. PICK j \in Meeting(parent, child[i]) :
             Intersect(parent, child)[i] = Deeper(parent[j], child[i])
  BY <1>1, IntersectIsList
<1>4. j \in DOMAIN parent /\ Meets(parent[j], child[i])
  BY <1>3 DEF Meeting
<1>5. parent[j] \in Paths /\ child[i] \in Paths
  BY <1>2, <1>4 DEF IsList
<1>6. /\ Deeper(parent[j], child[i]) \in Paths
      /\ Covers(parent[j], Deeper(parent[j], child[i]))
      /\ Covers(child[i], Deeper(parent[j], child[i]))
  BY <1>4, <1>5, DeeperIsBelow
<1>7. Covers(Deeper(parent[j], child[i]), path)
  BY <1>1, <1>3
<1>8. Covers(parent[j], path) /\ Covers(child[i], path)
  BY <1>5, <1>6, <1>7, CoversTransitive
<1> QED
  BY <1>2, <1>4, <1>8 DEF Permits

\* And what both permit it permits, when no prefix of the child meets two.
LEMMA IntersectKeeps ==
    ASSUME NEW parent, NEW child, IsList(parent), IsList(child),
           NEW path \in Paths, Unambiguous(parent, child),
           Permits(parent, path), Permits(child, path)
    PROVE  Permits(Intersect(parent, child), path)
<1>1. PICK i \in DOMAIN child : Covers(child[i], path)
  BY DEF Permits
<1>2. PICK j \in DOMAIN parent : Covers(parent[j], path)
  BY DEF Permits
<1>3. parent[j] \in Paths /\ child[i] \in Paths /\ j \in Nat
  BY <1>1, <1>2 DEF IsList
<1>4. Meets(parent[j], child[i])
  BY <1>1, <1>2, <1>3, PrefixesMeet
<1>5. j \in Meeting(parent, child[i])
  BY <1>2, <1>4 DEF Meeting
<1>6. Meeting(parent, child[i]) = {j}
  BY <1>1, <1>5 DEF Unambiguous
<1>7. First(parent, child[i]) = {j}
  BY <1>3, <1>6 DEF First
<1>8. i \in DOMAIN Intersect(parent, child)
  BY <1>1, <1>7 DEF Intersect
<1>9. PICK k \in Meeting(parent, child[i]) :
             Intersect(parent, child)[i] = Deeper(parent[k], child[i])
  BY <1>8, IntersectIsList
<1>10. Intersect(parent, child)[i] \in {parent[j], child[i]}
  BY <1>3, <1>4, <1>6, <1>9, DeeperIsBelow
<1>11. Covers(Intersect(parent, child)[i], path)
  BY <1>1, <1>2, <1>10
<1> QED
  BY <1>8, <1>11 DEF Permits

-----------------------------------------------------------------------------
LEMMA NarrowedIsList ==
    ASSUME NEW parent, NEW child, IsList(parent), IsList(child)
    PROVE  IsList(Narrowed(parent, child))
BY IntersectIsList DEF Narrowed

\* Narrowing once is granting by both.
LEMMA NarrowedGrants ==
    ASSUME NEW parent, NEW child, IsList(parent), IsList(child), NEW path \in Paths
    PROVE  /\ Permits(Narrowed(parent, child), path) =>
                Permits(parent, path) /\ Grants(child, path)
           /\ Unambiguous(parent, child) /\ Permits(parent, path) /\ Grants(child, path) =>
                Permits(Narrowed(parent, child), path)
<1>1. CASE child = <<>>
  BY <1>1 DEF Narrowed, Grants
<1>2. CASE child # <<>>
  BY <1>2, IntersectNarrows, IntersectKeeps DEF Narrowed, Grants
<1> QED
  BY <1>1, <1>2

\* For lists of any length: an agent's effective prefixes permit nothing that a
\* layer does not, and everything they permit together unless a prefix of one
\* list meets two of the list above it.
THEOREM LayersOnlyNarrow ==
    ASSUME NEW layers, NEW path \in Paths,
           IsList(layers.workspace), IsList(layers.corpus), IsList(layers.token)
    PROVE  NarrowsOnly(layers, path)
<1> DEFINE mid == Narrowed(layers.workspace, layers.corpus)
<1>1. IsList(mid)
  BY NarrowedIsList
<1>2. /\ Permits(mid, path) => Permits(layers.workspace, path) /\ Grants(layers.corpus, path)
      /\ (/\ Unambiguous(layers.workspace, layers.corpus)
          /\ Permits(layers.workspace, path) /\ Grants(layers.corpus, path)) => Permits(mid, path)
  BY NarrowedGrants
<1>3. /\ Permits(Narrowed(mid, layers.token), path) =>
           Permits(mid, path) /\ Grants(layers.token, path)
      /\ (/\ Unambiguous(mid, layers.token)
          /\ Permits(mid, path) /\ Grants(layers.token, path)) =>
           Permits(Narrowed(mid, layers.token), path)
  <2> HIDE DEF mid
  <2> QED
    BY <1>1, NarrowedGrants
<1>4. Resolve(layers) = Narrowed(mid, layers.token)
  BY DEF Resolve
<1> QED
  BY <1>2, <1>3, <1>4 DEF NarrowsOnly, Granted, Plain

-----------------------------------------------------------------------------
(* What agents may write to.                                               *)

\* A folder's path is a path.
LEMMA NamesOfFolders == Seq(FolderNames) \subseteq Seq(Names)
BY SeqMonotonic DEF Names

\* The lists of a corpus only narrow one another: where agents create
\* documents, the folded list permits what all of them permit and no more.
THEOREM LayersNarrowHolds == Spec => []LayersNarrow
<1>1. Init => corpus \in Corpora
    BY DEF Init
<1>2. corpus \in Corpora /\ [Next]_vars => (corpus \in Corpora)'
    <2> SUFFICES ASSUME [Next]_vars PROVE corpus' = corpus
        OBVIOUS
    <2> QED
        BY DEF Next, vars, Call, Step, StoreStep, WriteStep, DeleteStep, Send, Take, Index,
               Log, Made, SaveText, Finish, Tick, Expire, Crash, OkfStays, Rests
<1>3. corpus \in Corpora => LayersNarrow
    <2> SUFFICES ASSUME corpus \in Corpora, NEW p \in DocPaths, NEW m \in Concepts
                 PROVE  NarrowsOnly(corpus.layers, Append(p, m))
        BY DEF LayersNarrow
    <2>1. p \in Seq(FolderNames) /\ m \in Names
        BY OkfAssumption, TreeAssumption DEF Names
    <2>2. p \in Seq(Names)
        BY <2>1, NamesOfFolders
    <2>3. Append(p, m) \in Paths
        BY <2>1, <2>2 DEF Paths
    <2>4. ASSUME NEW l \in {corpus.layers.workspace, corpus.layers.corpus, corpus.layers.token}
          PROVE  IsList(l)
        <3>1. DOMAIN l \subseteq Nat /\ \A i \in DOMAIN l : l[i] \in Seq(Names)
            BY <2>4, OkfAssumption
        <3> QED
            BY <3>1 DEF IsList, Paths
    <2> QED
        BY <2>3, <2>4, LayersOnlyNarrow
<1> QED
    BY <1>1, <1>2, <1>3, PTL DEF Spec

-----------------------------------------------------------------------------
(* Types.                                                                  *)

Stages == {"idle", "chain", "exists", "parent", "insert", "store", "target", "free",
           "list", "shift", "tell", "remove", "done"}
Shifted == [id: Nat, path: Seq(FolderNames)]
Todos   == (SUBSET Nat) \cup (SUBSET Shifted)

CallOf == [kind: Kinds \cup {"none"}, at: Stages, id: Nat, path: Seq(FolderNames),
           name: Names, text: Text, parent: Nat, part: Nat, from: Seq(Names),
           folder: BOOLEAN, todo: Todos, tell: SUBSET Event,
           no: Nat]

\* A folder has a folder's name.
RowsOK(rs) ==
    /\ rs \in Seq(Row)
    /\ \A n \in DOMAIN rs : rs[n].folder => rs[n].name \in FolderNames

Creating == {"chain", "exists", "parent", "insert"}
Moving   == {"target", "free", "list", "shift"}

\* What a call r is doing to the rows rs.
Fits(r, rs) ==
    /\ r.id <= Len(rs) /\ r.parent <= Len(rs)
    /\ r.kind = "none" => r = Idle
    /\ r.at \in Creating => r.kind \in {"folder", "file", "document"} /\ r.part >= 1
    /\ r.kind = "folder" => r.name \in FolderNames
    /\ r.at = "store" => r.id \in DOMAIN rs
    /\ r.at \in Moving =>
          /\ r.kind \in {"rename", "move"} /\ r.id \in DOMAIN rs
          /\ \E p \in Seq(FolderNames), m \in Names : r.from = Append(p, m)
          /\ r.folder => r.name \in FolderNames
          /\ rs[r.id].there => rs[r.id].folder = r.folder
          /\ r.todo \subseteq Shifted /\ \A x \in r.todo : x.id \in DOMAIN rs
    /\ r.at = "list" => r.folder

\* Rows are added or deleted; none changes between folder and file.
Grows(rs, rt) ==
    /\ Len(rs) <= Len(rt)
    /\ \A n \in DOMAIN rs : rt[n].there => rs[n].there /\ rt[n].folder = rs[n].folder

Odds ==
    {"tangled", "died", "dropped", "clash", "uprooted", "index", "renamed", "razed", "given up"}

TreeInv ==
    /\ RowsOK(rows)
    /\ call \in [Callers -> CallOf]
    /\ \A c \in Callers : Fits(call[c], rows)
    /\ calls \in Nat
    /\ odd \subseteq Odds

TreeOn == TreeInv' /\ Grows(rows, rows')

\* There are names; nothing is written yet.
LEMMA Constants ==
    /\ "index.md" \in Names /\ "log.md" \in Names /\ Gone.name \in Names
    /\ Concepts \subseteq Names /\ FolderNames \subseteq Names
    /\ NoText \in Text /\ <<>> \in Seq(FolderNames)
    /\ Idle \in CallOf /\ Gone \in Row
<1>1. "index.md" \in Names /\ "log.md" \in Names
    BY TreeAssumption DEF Names
<1>2. (CHOOSE m \in Names : TRUE) \in Names
    BY <1>1
<1>3. NoText \in Text
    BY DEF NoText, Text
<1>4. Idle \in CallOf
    BY <1>2, <1>3 DEF Idle, CallOf, Todos, Stages, Null
<1>5. Gone \in Row
    BY <1>2, <1>3 DEF Gone, Row, Null
<1> QED
    BY <1>1, <1>2, <1>3, <1>4, <1>5, TreeAssumption DEF Names, Gone

LEMMA FitsGrows ==
    ASSUME NEW rs, NEW rt, RowsOK(rs), RowsOK(rt), Grows(rs, rt),
           NEW r \in CallOf, Fits(r, rs)
    PROVE  Fits(r, rt)
<1>1. /\ Len(rs) \in Nat /\ Len(rt) \in Nat /\ Len(rs) <= Len(rt)
      /\ DOMAIN rs = 1 .. Len(rs) /\ DOMAIN rt = 1 .. Len(rt)
    BY DEF RowsOK, Grows
<1>2. r.id \in Nat /\ r.parent \in Nat
    BY DEF CallOf
<1>3. r.at = "store" => r.id \in DOMAIN rt
    BY <1>1, <1>2 DEF Fits
<1>4. r.at \in Moving => r.id \in DOMAIN rt /\ (rt[r.id].there => rt[r.id].folder = r.folder)
    BY <1>1, <1>2 DEF Fits, Grows
<1>5. DOMAIN rs \subseteq DOMAIN rt
    BY <1>1
<1> QED
    BY <1>1, <1>2, <1>3, <1>4, <1>5 DEF Fits

\* Of calls, one has changed.
LEMMA OneCall ==
    ASSUME TreeInv, RowsOK(rows'), Grows(rows, rows'), NEW c \in Callers, NEW r \in CallOf,
           call' = [call EXCEPT ![c] = r], Fits(r, rows'),
           calls' \in Nat,
           odd' \subseteq Odds
    PROVE  TreeOn
<1>1. call' \in [Callers -> CallOf]
    BY DEF TreeInv
<1>2. ASSUME NEW d \in Callers PROVE Fits(call'[d], rows')
    <2>1. Fits(call[d], rows')
        BY FitsGrows DEF TreeInv
    <2>2. call'[d] = IF d = c THEN r ELSE call[d]
        BY DEF TreeInv
    <2> QED
        BY <2>1, <2>2
<1> QED
    BY <1>1, <1>2 DEF TreeInv, TreeOn

LEMMA GrowsSame == ASSUME NEW rs, RowsOK(rs) PROVE Grows(rs, rs)
BY DEF Grows, RowsOK

LEMMA CallTypes ==
    ASSUME TreeInv, NEW c \in Callers
    PROVE  /\ call[c] \in CallOf /\ Fits(call[c], rows) /\ RowsOK(rows) /\ Grows(rows, rows)
           /\ call[c].at # "idle" => call[c].kind # "none"
           /\ calls \in Nat /\ odd \subseteq Odds
<1>1. RowsOK(rows) /\ call[c] \in CallOf /\ Fits(call[c], rows)
    BY DEF TreeInv
<1>2. Idle.at = "idle"
    BY DEF Idle
<1>3. call[c].at # "idle" => call[c].kind # "none"
    BY <1>1, <1>2 DEF Fits
<1> QED
    BY <1>1, <1>3, GrowsSame DEF TreeInv, Odds

\* A call begins.
LEMMA BeginFits ==
    ASSUME TreeInv, NEW c \in Callers, NEW r \in CallOf, r.kind # "none", Fits(r, rows), Begin(c, r)
    PROVE  TreeOn
<1>1. PICK s : s = [r EXCEPT !.no = calls']
    OBVIOUS
<1>2. calls' \in Nat
    BY CallTypes DEF Begin
<1>3. s \in CallOf
    BY <1>1, <1>2 DEF CallOf
<1>4. Fits(s, rows)
    BY <1>1 DEF Fits, CallOf
<1>5. odd' \subseteq Odds
    BY CallTypes DEF Begin, Odds
<1>6. rows' = rows /\ call' = [call EXCEPT ![c] = s]
    BY <1>1 DEF Begin
<1> QED
    BY <1>2, <1>3, <1>4, <1>5, <1>6, CallTypes, OneCall DEF Odds

\* A call ends.
LEMMA EndFits ==
    ASSUME TreeInv, RowsOK(rows'), Grows(rows, rows'), NEW c \in Callers, Ends(c),
           calls' = calls, odd' \subseteq Odds
    PROVE  TreeOn
<1>1. Fits(Idle, rows')
    BY DEF Fits, Idle, RowsOK, Null, Creating, Moving
<1> QED
    BY <1>1, Constants, CallTypes, OneCall DEF Ends, Odds

\* A call goes on to another stage.
LEMMA GoFits ==
    ASSUME TreeInv, RowsOK(rows'), Grows(rows, rows'), NEW c \in Callers, NEW at \in Stages,
           call[c].at # "idle", Goes(c, at), calls' = calls, odd' \subseteq Odds,
           at \in Creating => call[c].at \in Creating,
           at \in Moving => call[c].at \in Moving,
           at # "store", at = "list" => call[c].folder
    PROVE  TreeOn
<1>1. PICK s : s = [call[c] EXCEPT !.at = at]
    OBVIOUS
<1>2. s \in CallOf
    BY <1>1, CallTypes DEF CallOf
<1>3. Fits(call[c], rows')
    BY FitsGrows, CallTypes
<1>4. Fits(s, rows')
    <2>1. /\ s.id = call[c].id /\ s.kind = call[c].kind /\ s.from = call[c].from
          /\ s.name = call[c].name /\ s.folder = call[c].folder /\ s.todo = call[c].todo
          /\ s.parent = call[c].parent /\ s.part = call[c].part /\ s.at = at
        BY <1>1, CallTypes DEF CallOf
    <2>2. s.kind # "none"
        BY <2>1, CallTypes
    <2> QED
        BY <1>3, <2>1, <2>2 DEF Fits
<1>5. call' = [call EXCEPT ![c] = s]
    BY <1>1 DEF Goes
<1> QED
    BY <1>2, <1>4, <1>5, CallTypes, OneCall DEF Odds

\* A call has its work on the row done.
LEMMA ToldFits ==
    ASSUME TreeInv, RowsOK(rows'), Grows(rows, rows'), NEW c \in Callers, NEW evs \in SUBSET Event,
           call[c].at # "idle", Told(c, evs), calls' = calls, odd' \subseteq Odds
    PROVE  TreeOn
<1>1. CASE Goes(c, "done")
    BY <1>1, GoFits DEF Stages, Creating, Moving
<1>2. CASE Ends(c)
    BY <1>2, EndFits
<1>3. CASE call' = [call EXCEPT ![c].at = "tell", ![c].tell = evs]
    <2>1. PICK s : s = [call[c] EXCEPT !.at = "tell", !.tell = evs]
        OBVIOUS
    <2>2. s \in CallOf
        <3>1. "tell" \in Stages
            BY DEF Stages
        <3>2. PICK q \in CallOf : q = [call[c] EXCEPT !.at = "tell"]
            BY <3>1, CallTypes DEF CallOf
        <3>3. s = [q EXCEPT !.tell = evs]
            BY <2>1, <3>2, CallTypes DEF CallOf
        <3> QED
            BY <3>3 DEF CallOf
    <2>3. Fits(call[c], rows')
        BY FitsGrows, CallTypes
    <2>4. Fits(s, rows')
        BY <2>1, <2>3, CallTypes DEF Fits, CallOf, Creating, Moving
    <2>5. call' = [call EXCEPT ![c] = s]
        BY <1>3, <2>1, CallTypes DEF TreeInv
    <2> QED
        BY <2>2, <2>4, <2>5, CallTypes, OneCall DEF Odds
<1> QED
    BY <1>1, <1>2, <1>3 DEF Told

\* What is looked for by path is a row or nothing.
LEMMA FoundTypes ==
    ASSUME TreeInv, NEW p, NEW m
    PROVE  /\ At(p, m) \subseteq DOMAIN rows
           /\ \A n \in Found(p, m) : n \in Nat /\ n <= Len(rows) /\ (n # Null => n \in At(p, m))
           /\ \A n \in FoundFolder(p) : n \in Nat /\ n <= Len(rows)
           /\ Len(rows) \in Nat /\ DOMAIN rows = 1 .. Len(rows)
<1>1. Len(rows) \in Nat /\ DOMAIN rows = 1 .. Len(rows)
    BY DEF TreeInv, RowsOK
<1>2. \A q, k : At(q, k) \subseteq DOMAIN rows
    BY DEF At, Nodes
<1>3. \A q, k : \A n \in Found(q, k) :
          n \in Nat /\ n <= Len(rows) /\ (n # Null => n \in At(q, k))
    BY <1>1, <1>2 DEF Found, Null
<1>4. \A n \in FoundFolder(p) : n \in Nat /\ n <= Len(rows)
    BY <1>1, <1>3 DEF FoundFolder, Null
<1> QED
    BY <1>1, <1>2, <1>3, <1>4

LEMMA PathFacts ==
    ASSUME NEW S, NEW p \in Seq(S), NEW m \in S
    PROVE  /\ Append(p, m) \in Seq(S) /\ Len(Append(p, m)) = Len(p) + 1
           /\ Front(Append(p, m)) = p /\ Last(Append(p, m)) = m
<1>1. /\ Append(p, m) \in Seq(S) /\ Len(Append(p, m)) = Len(p) + 1
      /\ Append(p, m)[Len(p) + 1] = m /\ Len(p) \in Nat
      /\ \A i \in 1 .. Len(p) : Append(p, m)[i] = p[i]
    BY AppendProperties, LenProperties
<1>2. Front(Append(p, m)) = SubSeq(Append(p, m), 1, Len(p))
    BY <1>1 DEF Front
<1>3. \A i \in 1 .. Len(p) : Append(p, m)[i] \in S
    BY <1>1
<1>4. /\ SubSeq(Append(p, m), 1, Len(p)) \in Seq(S)
      /\ Len(SubSeq(Append(p, m), 1, Len(p))) = Len(p)
      /\ \A i \in 1 .. Len(p) : SubSeq(Append(p, m), 1, Len(p))[i] = p[i]
    BY <1>1, <1>3, SubSeqProperties
<1>5. SubSeq(Append(p, m), 1, Len(p)) = p
    BY <1>4, SeqEqual
<1> QED
    BY <1>1, <1>2, <1>5 DEF Last

\* Where a node is.
LEMMA RowTypes ==
    ASSUME TreeInv, NEW n \in DOMAIN rows
    PROVE  /\ rows[n] \in Row /\ FullPath(n) \in Seq(Names) /\ Front(FullPath(n)) = rows[n].path
           /\ n \in Nat /\ n <= Len(rows)
           /\ rows[n].folder => rows[n].name \in FolderNames /\ FullPath(n) \in Seq(FolderNames)
<1>1. rows \in Seq(Row) /\ (rows[n].folder => rows[n].name \in FolderNames)
    BY DEF TreeInv, RowsOK
<1>2. rows[n] \in Row /\ n \in Nat /\ n <= Len(rows)
    BY <1>1
<1>3. rows[n].path \in Seq(FolderNames) /\ rows[n].path \in Seq(Names) /\ rows[n].name \in Names
    BY <1>2, NamesOfFolders DEF Row
<1> QED
    BY <1>1, <1>2, <1>3, PathFacts DEF FullPath

LEMMA StartCreateFits ==
    ASSUME TreeInv, NEW c \in Callers, NEW kind \in {"folder", "file", "document"},
           NEW p \in Seq(FolderNames), NEW m \in Names, NEW txt \in Text,
           kind = "folder" => m \in FolderNames, StartCreate(c, kind, p, m, txt)
    PROVE  TreeOn
<1>1. PICK r : r = [Idle EXCEPT !.kind = kind, !.path = p, !.name = m, !.text = txt, !.part = 1,
                          !.at = IF kind = "document" THEN "chain" ELSE "exists"]
    OBVIOUS
<1>2. r \in CallOf
    BY <1>1, Constants DEF Idle, CallOf, Todos, Stages, Kinds, Null
<1>3. Fits(r, rows)
    BY <1>1 DEF Fits, Idle, Null, Creating, Moving, TreeInv, RowsOK
<1>4. r.kind # "none" /\ Begin(c, r)
    BY <1>1 DEF StartCreate, Idle
<1> QED
    BY <1>2, <1>3, <1>4, BeginFits

LEMMA StartSaveFits ==
    ASSUME TreeInv, NEW c \in Callers, NEW n, NEW txt \in Text, StartSave(c, n, txt)
    PROVE  TreeOn
<1>1. n \in DOMAIN rows /\ n \in Nat /\ n <= Len(rows)
    BY RowTypes DEF StartSave, Nodes
<1>2. PICK r : r = [Idle EXCEPT !.kind = "save", !.id = n, !.text = txt, !.at = "store"]
    OBVIOUS
<1>3. r \in CallOf
    BY <1>1, <1>2, Constants DEF Idle, CallOf, Todos, Stages, Kinds, Null
<1>4. Fits(r, rows)
    BY <1>1, <1>2 DEF Fits, Idle, Null, Creating, Moving, TreeInv, RowsOK
<1>5. r.kind # "none" /\ Begin(c, r)
    BY <1>2 DEF StartSave, Idle
<1> QED
    BY <1>3, <1>4, <1>5, BeginFits

LEMMA StartRenameFits ==
    ASSUME TreeInv, NEW c \in Callers, NEW n, NEW m \in Names,
           rows[n].folder => m \in FolderNames, StartRename(c, n, m)
    PROVE  TreeOn
<1>1. n \in DOMAIN rows /\ n \in Nat /\ n <= Len(rows) /\ rows[n] \in Row
      /\ FullPath(n) \in Seq(Names)
    BY RowTypes DEF StartRename, Nodes
<1>2. PICK r : r = [Idle EXCEPT !.kind = "rename", !.id = n, !.path = rows[n].path, !.name = m,
                             !.from = FullPath(n), !.folder = rows[n].folder, !.at = "free"]
    OBVIOUS
<1>3. r \in CallOf
    BY <1>1, <1>2, Constants DEF Idle, CallOf, Todos, Stages, Kinds, Null, Row
<1>4. r.from = Append(rows[n].path, rows[n].name)
      /\ rows[n].path \in Seq(FolderNames) /\ rows[n].name \in Names
    BY <1>1, <1>2 DEF FullPath, Idle, Row
<1>5. Fits(r, rows)
    <2>1. /\ r.id = n /\ r.parent = 0 /\ r.kind = "rename" /\ r.at \in Moving /\ r.todo = {}
          /\ r.name = m /\ r.folder = rows[n].folder
        BY <1>2 DEF Idle, Moving, Null
    <2>2. r.at \notin Creating /\ r.at # "store"
        BY <2>1 DEF Moving, Creating
    <2>3. \E q \in Seq(FolderNames), k \in Names : r.from = Append(q, k)
        BY <1>4
    <2>4. r.at # "list"
        BY <1>2 DEF Idle
    <2> QED
        BY <1>1, <2>1, <2>2, <2>3, <2>4 DEF Fits
<1>6. r.kind # "none" /\ Begin(c, r)
    BY <1>2 DEF StartRename, Idle
<1> QED
    BY <1>3, <1>5, <1>6, BeginFits

LEMMA StartMoveFits ==
    ASSUME TreeInv, NEW c \in Callers, NEW n, NEW p \in Seq(FolderNames), StartMove(c, n, p)
    PROVE  TreeOn
<1>1. n \in DOMAIN rows /\ n \in Nat /\ n <= Len(rows) /\ rows[n] \in Row
      /\ FullPath(n) \in Seq(Names) /\ (rows[n].folder => rows[n].name \in FolderNames)
    BY RowTypes DEF StartMove, Nodes
<1>2. PICK r : r = [Idle EXCEPT !.kind = "move", !.id = n, !.path = p, !.name = rows[n].name,
                             !.from = FullPath(n), !.folder = rows[n].folder, !.at = "target"]
    OBVIOUS
<1>3. r \in CallOf
    <2>1. rows[n].folder \in BOOLEAN /\ rows[n].name \in Names
        BY <1>1 DEF Row
    <2> QED
        BY <1>1, <1>2, <2>1, Constants DEF Idle, CallOf, Todos, Stages, Kinds, Null
<1>4. r.from = Append(rows[n].path, rows[n].name)
      /\ rows[n].path \in Seq(FolderNames) /\ rows[n].name \in Names
    BY <1>1, <1>2 DEF FullPath, Idle, Row
<1>5. Fits(r, rows)
    <2>1. /\ r.id = n /\ r.parent = 0 /\ r.kind = "move" /\ r.at \in Moving /\ r.todo = {}
          /\ r.name = rows[n].name /\ r.folder = rows[n].folder
        BY <1>2 DEF Idle, Moving, Null
    <2>2. r.at \notin Creating /\ r.at # "store"
        BY <2>1 DEF Moving, Creating
    <2>3. \E q \in Seq(FolderNames), k \in Names : r.from = Append(q, k)
        BY <1>4
    <2>4. r.at # "list"
        BY <1>2 DEF Idle
    <2>5. /\ r.kind \in {"rename", "move"} /\ r.id \in DOMAIN rows
          /\ rows[r.id].there => rows[r.id].folder = r.folder
          /\ r.todo \subseteq Shifted /\ \A x \in r.todo : x.id \in DOMAIN rows
          /\ r.folder => r.name \in FolderNames
        BY <1>1, <2>1
    <2>6. r.id <= Len(rows) /\ r.parent <= Len(rows) /\ r.kind # "none" /\ r.kind # "folder"
        BY <1>1, <2>1 DEF TreeInv, RowsOK
    <2> QED
        BY <2>2, <2>3, <2>4, <2>5, <2>6 DEF Fits
<1>6. r.kind # "none" /\ Begin(c, r)
    BY <1>2 DEF StartMove, Idle
<1> QED
    BY <1>3, <1>5, <1>6, BeginFits

LEMMA StartDeleteFits ==
    ASSUME TreeInv, NEW c \in Callers, NEW n, StartDelete(c, n)
    PROVE  TreeOn
<1>1. n \in DOMAIN rows /\ n \in Nat /\ n <= Len(rows) /\ rows[n] \in Row
    BY RowTypes DEF StartDelete, Nodes
<1>2. Doomed(n) \subseteq DOMAIN rows /\ Doomed(n) \subseteq Nat
    BY <1>1, RowTypes DEF Doomed, Below, Nodes
<1>3. PICK evs : evs = {[kind |-> "delete", path |-> rows[k].path, name |-> rows[k].name,
                     from |-> rows[k].path, key |-> rows[k].path, no |-> calls + 1] :
                       k \in {k \in Doomed(n) : ~rows[k].folder /\ rows[k].name \in Concepts}}
    OBVIOUS
<1>4. evs \subseteq Event
    <2>1. ASSUME NEW k \in Doomed(n)
          PROVE  rows[k].path \in Seq(FolderNames) /\ rows[k].name \in Names
        BY <1>2, RowTypes DEF Row
    <2> QED
        BY <1>3, <2>1, CallTypes DEF Event
<1>5. PICK r : r = [Idle EXCEPT !.kind = "delete", !.id = n, !.folder = rows[n].folder,
          !.at = "tell", !.todo = Doomed(n), !.tell = evs]
    OBVIOUS
<1>6. r \in CallOf
    BY <1>1, <1>2, <1>4, <1>5, Constants DEF Idle, CallOf, Todos, Stages, Kinds, Null, Row
<1>7. Fits(r, rows)
    BY <1>1, <1>5 DEF Fits, Idle, Null, Creating, Moving, TreeInv, RowsOK
<1>8. r.kind # "none" /\ Begin(c, r)
    BY <1>3, <1>5 DEF StartDelete, Idle
<1> QED
    BY <1>6, <1>7, <1>8, BeginFits

\* One field of a call is set.
LEMMA SetField ==
    ASSUME NEW r \in CallOf
    PROVE  /\ \A at \in Stages : [r EXCEPT !.at = at] \in CallOf
           /\ \A n \in Nat : [r EXCEPT !.parent = n] \in CallOf
           /\ \A n \in Nat : [r EXCEPT !.part = n] \in CallOf
           /\ \A n \in Nat : [r EXCEPT !.id = n] \in CallOf
           /\ \A evs \in SUBSET Event : [r EXCEPT !.tell = evs] \in CallOf
           /\ \A s \in SUBSET Shifted : [r EXCEPT !.todo = s] \in CallOf
<1>1. ASSUME NEW at \in Stages PROVE [r EXCEPT !.at = at] \in CallOf
    BY DEF CallOf
<1>2. ASSUME NEW n \in Nat PROVE [r EXCEPT !.parent = n] \in CallOf
    BY DEF CallOf
<1>3. ASSUME NEW n \in Nat PROVE [r EXCEPT !.part = n] \in CallOf
    BY DEF CallOf
<1>4. ASSUME NEW n \in Nat PROVE [r EXCEPT !.id = n] \in CallOf
    BY DEF CallOf
<1>5. ASSUME NEW evs \in SUBSET Event PROVE [r EXCEPT !.tell = evs] \in CallOf
    BY DEF CallOf
<1>6. ASSUME NEW s \in SUBSET Shifted PROVE [r EXCEPT !.todo = s] \in CallOf
    <2>1. s \in Todos
        BY DEF Todos
    <2> QED
        BY <2>1 DEF CallOf
<1> QED
    BY <1>1, <1>2, <1>3, <1>4, <1>5, <1>6

\* The folder or file a creation is at.
LEMMA MakingTypes ==
    ASSUME TreeInv, NEW c \in Callers, call[c].at \in Creating
    PROVE  LET m == Making(call[c])
           IN  /\ m.path \in Seq(FolderNames) /\ m.name \in Names /\ m.folder \in BOOLEAN
               /\ m.folder => m.name \in FolderNames
<1>1. call[c] \in CallOf /\ Fits(call[c], rows)
    BY CallTypes
<1>2. call[c].path \in Seq(FolderNames) /\ call[c].part \in Nat /\ call[c].part >= 1
    BY <1>1 DEF CallOf, Fits
<1>3. CASE call[c].kind = "document" /\ call[c].part <= Len(call[c].path)
    <2>1. call[c].part \in 1 .. Len(call[c].path) /\ call[c].path[call[c].part] \in FolderNames
        BY <1>2, <1>3
    <2>2. SubSeq(call[c].path, 1, call[c].part - 1) \in Seq(FolderNames)
        BY <1>2, <2>1
    <2> QED
        BY <1>3, <2>1, <2>2, Constants DEF Making
<1>4. CASE ~(call[c].kind = "document" /\ call[c].part <= Len(call[c].path))
    BY <1>1, <1>4 DEF Making, CallOf, Fits
<1> QED
    BY <1>3, <1>4

LEMMA PartFits ==
    ASSUME TreeInv, RowsOK(rows'), Grows(rows, rows'), NEW c \in Callers,
           call[c].at \in Creating, calls' = calls, odd' \subseteq Odds,
           call' = [call EXCEPT ![c].at = "chain", ![c].part = @ + 1]
    PROVE  TreeOn
<1>1. PICK q : q = [call[c] EXCEPT !.at = "chain"]
    OBVIOUS
<1>2. q \in CallOf
    <2>1. "chain" \in Stages
        BY DEF Stages
    <2> QED
        BY <1>1, <2>1, CallTypes, SetField
<1>3. PICK s : s = [q EXCEPT !.part = call[c].part + 1]
    OBVIOUS
<1>4. s \in CallOf
    <2>1. call[c].part + 1 \in Nat
        BY CallTypes DEF CallOf
    <2> QED
        BY <1>2, <1>3, <2>1, SetField
<1>5. /\ s.id = call[c].id /\ s.kind = call[c].kind /\ s.name = call[c].name
      /\ s.parent = call[c].parent /\ s.at = "chain" /\ s.part = call[c].part + 1
      /\ call[c].part \in Nat
    BY <1>1, <1>2, <1>3, CallTypes DEF CallOf
<1>6. Fits(call[c], rows') /\ call[c].kind # "none"
    BY FitsGrows, CallTypes DEF Creating
<1>7. Fits(s, rows')
    BY <1>5, <1>6 DEF Fits, Creating, Moving
<1>8. call' = [call EXCEPT ![c] = s]
    BY <1>1, <1>2, <1>3, CallTypes DEF CallOf
<1> QED
    BY <1>4, <1>7, <1>8, CallTypes, OneCall DEF Odds

LEMMA ChainFits ==
    ASSUME TreeInv, NEW c \in Callers, Chain(c)
    PROVE  TreeOn
<1>1. RowsOK(rows') /\ Grows(rows, rows') /\ calls' = calls /\ odd' \subseteq Odds
      /\ call[c].at = "chain" /\ call[c].at \in Creating
    BY CallTypes DEF Chain, Creating
<1>2. CASE Goes(c, "exists")
    BY <1>1, <1>2, GoFits DEF Stages, Creating, Moving
<1>3. CASE Ends(c)
    BY <1>1, <1>3, EndFits
<1>4. CASE call' = [call EXCEPT ![c].part = @ + 1]
    <2>1. call' = [call EXCEPT ![c].at = "chain", ![c].part = @ + 1]
        BY <1>1, <1>4, CallTypes DEF CallOf, TreeInv
    <2> QED
        BY <1>1, <2>1, PartFits
<1> QED
    BY <1>2, <1>3, <1>4 DEF Chain

LEMMA ExistsFits ==
    ASSUME TreeInv, NEW c \in Callers, Exists(c)
    PROVE  TreeOn
<1>1. RowsOK(rows') /\ Grows(rows, rows') /\ calls' = calls /\ odd' \subseteq Odds
      /\ call[c].at = "exists"
    BY CallTypes DEF Exists
<1>2. CASE Goes(c, "parent")
    BY <1>1, <1>2, GoFits DEF Stages, Creating, Moving
<1>3. CASE Ends(c)
    BY <1>1, <1>3, EndFits
<1> QED
    BY <1>2, <1>3 DEF Exists

\* The folder a path names is remembered.
LEMMA ParentFits ==
    ASSUME TreeInv, NEW c \in Callers, NEW n \in Nat, n <= Len(rows), NEW at \in {"insert", "free"},
           call' = [call EXCEPT ![c].parent = n, ![c].at = at], UNCHANGED <<rows, calls, odd>>,
           \/ at \in Creating /\ call[c].at \in Creating
           \/ at \in Moving /\ call[c].at \in Moving
    PROVE  TreeOn
<1>1. PICK q : q = [call[c] EXCEPT !.parent = n]
    OBVIOUS
<1>2. q \in CallOf
    BY <1>1, CallTypes, SetField
<1>3. PICK s : s = [q EXCEPT !.at = at]
    OBVIOUS
<1>4. s \in CallOf
    <2>1. at \in Stages
        BY DEF Stages
    <2> QED
        BY <1>2, <1>3, <2>1, SetField
<1>5. /\ s.id = call[c].id /\ s.kind = call[c].kind /\ s.from = call[c].from
      /\ s.name = call[c].name /\ s.folder = call[c].folder /\ s.todo = call[c].todo
      /\ s.parent = n /\ s.part = call[c].part /\ s.at = at
    BY <1>1, <1>2, <1>3, CallTypes DEF CallOf
<1>6. Fits(s, rows)
    BY <1>5, CallTypes DEF Fits, Creating, Moving
<1>7. call' = [call EXCEPT ![c] = s]
    BY <1>1, <1>2, <1>3, CallTypes DEF CallOf, TreeInv
<1> QED
    BY <1>4, <1>6, <1>7, CallTypes, OneCall DEF Odds

LEMMA ParentStepFits ==
    ASSUME TreeInv, NEW c \in Callers, Parent(c) \/ Target(c)
    PROVE  TreeOn
<1>1. RowsOK(rows') /\ Grows(rows, rows') /\ calls' = calls /\ odd' \subseteq Odds
      /\ UNCHANGED <<rows, calls, odd>>
    BY CallTypes DEF Parent, Target
<1>2. CASE Ends(c)
    BY <1>1, <1>2, EndFits
<1>3. CASE Parent(c) /\ ~Ends(c)
    <2>1. PICK n \in FoundFolder(Making(call[c]).path) :
              call' = [call EXCEPT ![c].parent = n, ![c].at = "insert"]
        BY <1>3 DEF Parent
    <2> QED
        BY <1>1, <1>3, <2>1, FoundTypes, ParentFits DEF Parent, Stages, Creating
<1>4. CASE Target(c) /\ ~Ends(c)
    <2>1. PICK n \in FoundFolder(call[c].path) :
              call' = [call EXCEPT ![c].parent = n, ![c].at = "free"]
        BY <1>4 DEF Target
    <2> QED
        BY <1>1, <1>4, <2>1, FoundTypes, ParentFits DEF Target, Stages, Moving
<1> QED
    BY <1>2, <1>3, <1>4

LEMMA FreeFits ==
    ASSUME TreeInv, NEW c \in Callers, Free(c)
    PROVE  TreeOn
<1>1. RowsOK(rows') /\ Grows(rows, rows') /\ calls' = calls /\ odd' \subseteq Odds
      /\ call[c].at = "free"
    BY CallTypes DEF Free
<1>2. CASE \E at \in {"list", "shift"} : Goes(c, at) /\ (at = "list" => call[c].folder)
    BY <1>1, <1>2, GoFits DEF Stages, Creating, Moving
<1>3. CASE Ends(c)
    BY <1>1, <1>3, EndFits
<1> QED
    BY <1>2, <1>3 DEF Free

\* A row is written, and stays what it is: a file or a folder.
LEMMA RowSet ==
    ASSUME TreeInv, NEW n \in DOMAIN rows, NEW x \in Row, x.there => rows[n].there,
           x.there => x.folder = rows[n].folder, x.folder => x.name \in FolderNames,
           rows' = [rows EXCEPT ![n] = x]
    PROVE  RowsOK(rows') /\ Grows(rows, rows')
<1>1. rows \in Seq(Row) /\ \A k \in DOMAIN rows : rows[k].folder => rows[k].name \in FolderNames
    BY DEF TreeInv, RowsOK
<1>2. /\ rows' \in Seq(Row) /\ Len(rows') = Len(rows) /\ DOMAIN rows' = DOMAIN rows
      /\ \A k \in DOMAIN rows : rows'[k] = IF k = n THEN x ELSE rows[k]
    BY <1>1
<1> QED
    BY <1>1, <1>2 DEF RowsOK, Grows

LEMMA InsertFits ==
    ASSUME TreeInv, NEW c \in Callers, Insert(c)
    PROVE  TreeOn
<1>1. calls' = calls /\ odd' \subseteq Odds /\ call[c].at = "insert" /\ call[c].at \in Creating
    BY CallTypes DEF Insert, Creating
<1>2. CASE Ends(c) /\ UNCHANGED rows
    BY <1>1, <1>2, CallTypes, EndFits
<1>3. CASE ~(Ends(c) /\ UNCHANGED rows)
    <2>1. PICK m : m = Making(call[c])
        OBVIOUS
    <2>2. PICK x : x = [there |-> TRUE, parent |-> call[c].parent, path |-> m.path,
                          name |-> m.name, folder |-> m.folder, stored |-> FALSE,
                          text |-> NoText]
        OBVIOUS
    <2>3. rows' = Append(rows, x)
        BY <1>3, <2>1, <2>2 DEF Insert
    <2>4. x \in Row /\ (x.folder => x.name \in FolderNames)
        <3>1. m.path \in Seq(FolderNames) /\ m.name \in Names /\ m.folder \in BOOLEAN
              /\ (m.folder => m.name \in FolderNames)
            BY <1>1, <2>1, MakingTypes
        <3>2. call[c].parent \in Nat
            BY CallTypes DEF CallOf
        <3> QED
            BY <2>2, <3>1, <3>2, Constants DEF Row
    <2>5. /\ RowsOK(rows') /\ Grows(rows, rows')
          /\ Len(rows') = Len(rows) + 1 /\ Len(rows) \in Nat
        BY <2>3, <2>4 DEF TreeInv, RowsOK, Grows
    <2>6. CASE call' = [call EXCEPT ![c].at = "store", ![c].id = Len(rows) + 1]
        <3>1. PICK q : q = [call[c] EXCEPT !.at = "store"]
            OBVIOUS
        <3>2. q \in CallOf
            <4>1. "store" \in Stages
                BY DEF Stages
            <4> QED
                BY <3>1, <4>1, CallTypes, SetField
        <3>3. PICK s : s = [q EXCEPT !.id = Len(rows) + 1]
            OBVIOUS
        <3>4. s \in CallOf
            <4>1. Len(rows) + 1 \in Nat
                BY <2>5
            <4> QED
                BY <3>2, <3>3, <4>1, SetField
        <3>5. /\ s.id = Len(rows) + 1 /\ s.kind = call[c].kind /\ s.name = call[c].name
              /\ s.parent = call[c].parent /\ s.at = "store"
            BY <3>1, <3>2, <3>3, CallTypes DEF CallOf
        <3>6. Fits(call[c], rows') /\ call[c].kind # "none"
            BY <1>1, <2>5, FitsGrows, CallTypes
        <3>7. s.id \in DOMAIN rows'
            BY <2>5, <3>5 DEF RowsOK
        <3>8. Fits(s, rows')
            BY <2>5, <3>5, <3>6, <3>7 DEF Fits, Creating, Moving
        <3>9. call' = [call EXCEPT ![c] = s]
            BY <2>6, <3>1, <3>3, CallTypes DEF CallOf
        <3> QED
            BY <1>1, <2>5, <3>4, <3>8, <3>9, CallTypes, OneCall DEF Odds
    <2>7. CASE Ends(c)
        BY <1>1, <2>5, <2>7, EndFits
    <2>8. CASE call' = [call EXCEPT ![c].at = "chain", ![c].part = @ + 1]
        BY <1>1, <2>5, <2>8, PartFits
    <2> QED
        BY <1>3, <2>6, <2>7, <2>8 DEF Insert
<1> QED
    BY <1>2, <1>3

LEMMA TellsType ==
    ASSUME TreeInv, NEW c \in Callers, NEW kind \in {"create", "update", "move", "delete"},
           NEW p \in Seq(FolderNames), NEW m \in Names, NEW from \in Seq(FolderNames)
    PROVE  Tells(c, kind, p, m, from) \subseteq Event
<1>1. call[c].no \in Nat
    BY CallTypes DEF CallOf
<1> QED
    BY <1>1 DEF Tells, Event

LEMMA StoreFits ==
    ASSUME TreeInv, NEW c \in Callers, Store(c), odd' \subseteq Odds
    PROVE  TreeOn
<1>1. calls' = calls /\ call[c].at = "store"
    BY DEF Store
<1>2. PICK n : n = call[c].id
    OBVIOUS
<1>3. n \in DOMAIN rows /\ rows[n] \in Row
    BY <1>1, <1>2, CallTypes, RowTypes DEF Fits
<1>4. CASE Ends(c) /\ UNCHANGED rows
    BY <1>1, <1>4, CallTypes, EndFits
<1>5. CASE ~(Ends(c) /\ UNCHANGED rows)
    <2>1. PICK x : x = [rows[n] EXCEPT !.stored = TRUE, !.text = call[c].text]
        OBVIOUS
    <2>2. rows' = [rows EXCEPT ![n] = x]
        BY <1>2, <1>3, <1>5, <2>1 DEF Store
    <2>3. call[c].text \in Text /\ call[c].path \in Seq(FolderNames) /\ call[c].name \in Names
        BY CallTypes DEF CallOf
    <2>4. x \in Row /\ x.there = rows[n].there /\ x.folder = rows[n].folder /\ x.name = rows[n].name
        BY <1>3, <2>1, <2>3 DEF Row
    <2>5. RowsOK(rows') /\ Grows(rows, rows')
        BY <1>3, <2>2, <2>4, RowSet, RowTypes
    <2>6. rows[n].path \in Seq(FolderNames) /\ rows[n].name \in Names
        BY <1>3 DEF Row
    <2>7. PICK evs \in SUBSET Event : Told(c, evs)
        <3>1. /\ Tells(c, "update", rows[n].path, rows[n].name, rows[n].path) \subseteq Event
              /\ Tells(c, "create", call[c].path, call[c].name, call[c].path) \subseteq Event
            BY <2>3, <2>6, TellsType
        <3>2. \/ Told(c, {})
              \/ Told(c, Tells(c, "update", rows[n].path, rows[n].name, rows[n].path))
              \/ Told(c, Tells(c, "create", call[c].path, call[c].name, call[c].path))
            BY <1>2, <1>5 DEF Store
        <3> QED
            BY <3>1, <3>2
    <2> QED
        BY <1>1, <2>5, <2>7, ToldFits
<1> QED
    BY <1>4, <1>5

\* What is left to move, and where it goes.
LEMMA TodoFits ==
    ASSUME TreeInv, RowsOK(rows'), Grows(rows, rows'), NEW c \in Callers, NEW at \in {"shift"},
           NEW todo \in SUBSET Shifted, \A x \in todo : x.id \in DOMAIN rows,
           call[c].at \in Moving, UNCHANGED <<calls, odd>>,
           call' = [call EXCEPT ![c].at = at, ![c].todo = todo]
    PROVE  TreeOn
<1>1. PICK q : q = [call[c] EXCEPT !.at = at]
    OBVIOUS
<1>2. q \in CallOf
    <2>1. at \in Stages
        BY DEF Stages
    <2> QED
        BY <1>1, <2>1, CallTypes, SetField
<1>3. PICK s : s = [q EXCEPT !.todo = todo]
    OBVIOUS
<1>4. s \in CallOf
    BY <1>2, <1>3, SetField
<1>5. /\ s.id = call[c].id /\ s.kind = call[c].kind /\ s.from = call[c].from
      /\ s.name = call[c].name /\ s.folder = call[c].folder /\ s.todo = todo
      /\ s.parent = call[c].parent /\ s.part = call[c].part /\ s.at = at
    BY <1>1, <1>2, <1>3, CallTypes DEF CallOf
<1>6. Fits(call[c], rows')
    BY FitsGrows, CallTypes
<1>7. DOMAIN rows \subseteq DOMAIN rows'
    BY DEF TreeInv, RowsOK, Grows
<1>8. \A x \in s.todo : x.id \in DOMAIN rows'
    BY <1>5, <1>7
<1>9. Fits(s, rows')
    BY <1>5, <1>6, <1>8 DEF Fits, Creating, Moving
<1>10. call' = [call EXCEPT ![c] = s]
    BY <1>1, <1>2, <1>3, CallTypes DEF CallOf, TreeInv
<1> QED
    BY <1>4, <1>9, <1>10, CallTypes, OneCall DEF Odds

LEMMA ListFits ==
    ASSUME TreeInv, NEW c \in Callers, List(c)
    PROVE  TreeOn
<1>1. RowsOK(rows') /\ Grows(rows, rows') /\ UNCHANGED <<rows, calls, odd>>
      /\ call[c].at = "list" /\ call[c].at \in Moving
    BY CallTypes DEF List, Moving
<1>2. PICK new : new = Append(call[c].path, call[c].name)
    OBVIOUS
<1>3. new \in Seq(FolderNames)
    BY <1>1, <1>2, CallTypes DEF CallOf, Fits
<1>4. PICK old : old = call[c].from
    OBVIOUS
<1>5. Len(old) \in Nat
    BY <1>4, CallTypes DEF CallOf
<1>6. PICK todo : todo = {[id |-> n, path |-> new \o SubSeq(rows[n].path,
                                      Len(old) + 1, Len(rows[n].path))] : n \in Below(old)}
    OBVIOUS
<1>7. ASSUME NEW n \in Below(old)
      PROVE  /\ n \in DOMAIN rows /\ n \in Nat
             /\ new \o SubSeq(rows[n].path, Len(old) + 1, Len(rows[n].path)) \in Seq(FolderNames)
    <2>1. n \in DOMAIN rows /\ n \in Nat /\ rows[n].path \in Seq(FolderNames)
        BY RowTypes DEF Below, Nodes, Row
    <2>2. \A i \in (Len(old) + 1) .. Len(rows[n].path) : rows[n].path[i] \in FolderNames
        BY <1>5, <2>1
    <2>3. SubSeq(rows[n].path, Len(old) + 1, Len(rows[n].path)) \in Seq(FolderNames)
        BY <1>5, <2>1, <2>2
    <2> QED
        BY <1>3, <2>1, <2>3
<1>8. ASSUME NEW x \in todo PROVE x \in Shifted /\ x.id \in DOMAIN rows
    <2>1. PICK n \in Below(old) :
               x = [id |-> n, path |-> new \o SubSeq(rows[n].path,
                                      Len(old) + 1, Len(rows[n].path))]
        BY <1>6
    <2>2. x.id = n
        BY <2>1
    <2>3. PICK p : p = new \o SubSeq(rows[n].path, Len(old) + 1, Len(rows[n].path))
        OBVIOUS
    <2>4. n \in Nat /\ p \in Seq(FolderNames) /\ x = [id |-> n, path |-> p]
        BY <1>7, <2>1, <2>3
    <2>5. x \in Shifted
        BY <2>4 DEF Shifted
    <2> QED
        BY <1>7, <2>2, <2>5
<1>9. call' = [call EXCEPT ![c].at = "shift", ![c].todo = todo]
    BY <1>2, <1>4, <1>6 DEF List
<1> QED
    <2>1. todo \in SUBSET Shifted /\ \A x \in todo : x.id \in DOMAIN rows
        BY <1>8
    <2> QED
        BY <1>1, <1>9, <2>1, TodoFits

LEMMA ShiftFits ==
    ASSUME TreeInv, NEW c \in Callers, Shift(c)
    PROVE  TreeOn
<1>1. UNCHANGED <<calls, odd>> /\ call[c].at = "shift" /\ call[c].at \in Moving
    BY DEF Shift, Moving
<1>2. CASE Ends(c) /\ UNCHANGED rows
    BY <1>1, <1>2, CallTypes, EndFits
<1>3. CASE ~(Ends(c) /\ UNCHANGED rows)
    <2>1. PICK x \in call[c].todo :
               /\ call' = [call EXCEPT ![c].todo = @ \ {x}]
               /\ rows' = IF rows[x.id].there THEN [rows EXCEPT ![x.id].path = x.path] ELSE rows
        BY <1>3 DEF Shift
    <2>2. /\ x \in Shifted /\ x.id \in DOMAIN rows /\ call[c].todo \ {x} \in SUBSET Shifted
          /\ \A y \in call[c].todo \ {x} : y.id \in DOMAIN rows
        BY <1>1, <2>1, CallTypes DEF Fits
    <2>3. x.path \in Seq(FolderNames) /\ rows[x.id] \in Row
          /\ (rows[x.id].folder => rows[x.id].name \in FolderNames)
        BY <2>2, RowTypes DEF Shifted
    <2>4. RowsOK(rows') /\ Grows(rows, rows')
        <3>1. CASE rows[x.id].there
            <4>1. PICK y : y = [rows[x.id] EXCEPT !.path = x.path]
                OBVIOUS
            <4>2. y \in Row /\ y.there = rows[x.id].there /\ y.folder = rows[x.id].folder
                  /\ y.name = rows[x.id].name
                BY <2>3, <4>1 DEF Row
            <4>3. rows' = [rows EXCEPT ![x.id] = y]
                BY <2>1, <3>1, <4>1
            <4> QED
                BY <2>2, <2>3, <4>2, <4>3, RowSet
        <3>2. CASE ~rows[x.id].there
            BY <2>1, <3>2, CallTypes
        <3> QED
            BY <3>1, <3>2
    <2>5. call' = [call EXCEPT ![c].at = "shift", ![c].todo = call[c].todo \ {x}]
        <3>1. call[c] = [call[c] EXCEPT !.at = "shift"]
            BY <1>1, CallTypes DEF CallOf
        <3> QED
            BY <1>1, <2>1, <3>1, CallTypes DEF TreeInv
    <2> QED
        BY <1>1, <2>2, <2>4, <2>5, TodoFits
<1> QED
    BY <1>2, <1>3

LEMMA WriteFits ==
    ASSUME TreeInv, NEW c \in Callers, Write(c), odd' \subseteq Odds
    PROVE  TreeOn
<1>1. calls' = calls /\ call[c].at = "shift" /\ call[c].at \in Moving
    BY DEF Write, Moving
<1>2. PICK n : n = call[c].id
    OBVIOUS
<1>3. n \in DOMAIN rows /\ rows[n] \in Row /\ (rows[n].folder => rows[n].name \in FolderNames)
      /\ (rows[n].there /\ rows[n].folder => call[c].name \in FolderNames)
    BY <1>1, <1>2, CallTypes, RowTypes DEF Fits
<1>4. CASE Ends(c) /\ UNCHANGED rows
    BY <1>1, <1>4, CallTypes, EndFits
<1>5. CASE ~(Ends(c) /\ UNCHANGED rows)
    <2>1. PICK name : name = IF call[c].kind = "rename" THEN call[c].name ELSE rows[n].name
        OBVIOUS
    <2>2. PICK parent : parent = IF call[c].kind = "move" THEN call[c].parent ELSE rows[n].parent
        OBVIOUS
    <2>3. PICK x : x = [rows[n] EXCEPT !.path = call[c].path, !.name = name, !.parent = parent]
        OBVIOUS
    <2>4. rows[n].there
        BY <1>2, <1>5 DEF Write
    <2>5. rows' = [rows EXCEPT ![n] = x]
        <3>1. PICK y : y = [rows[call[c].id] EXCEPT !.path = call[c].path,
                    !.name = IF call[c].kind = "rename" THEN call[c].name ELSE rows[call[c].id].name,
                    !.parent = IF call[c].kind = "move" THEN call[c].parent
                               ELSE rows[call[c].id].parent]
            OBVIOUS
        <3>2. rows' = [rows EXCEPT ![call[c].id] = y]
            BY <1>5, <3>1 DEF Write
        <3>3. y = x
            BY <1>2, <1>3, <2>1, <2>2, <2>3, <3>1 DEF Row
        <3> QED
            BY <1>2, <3>2, <3>3
    <2>6. /\ call[c].path \in Seq(FolderNames) /\ call[c].name \in Names
          /\ call[c].parent \in Nat
        BY CallTypes DEF CallOf
    <2>7. name \in Names /\ parent \in Nat /\ (rows[n].folder => name \in FolderNames)
        BY <1>3, <2>1, <2>2, <2>4, <2>6 DEF Row
    <2>8. x \in Row /\ x.there = rows[n].there /\ x.folder = rows[n].folder /\ x.name = name
        BY <1>3, <2>3, <2>6, <2>7 DEF Row
    <2>9. RowsOK(rows') /\ Grows(rows, rows')
        BY <1>3, <2>5, <2>7, <2>8, RowSet
    <2>10. Front(call[c].from) \in Seq(FolderNames)
        <3>1. PICK p \in Seq(FolderNames), m \in Names : call[c].from = Append(p, m)
            BY <1>1, CallTypes DEF Fits
        <3>2. p \in Seq(Names)
            BY NamesOfFolders
        <3> QED
            BY <3>1, <3>2, PathFacts
    <2>11. PICK evs \in SUBSET Event : Told(c, evs)
        <3>1. Tells(c, "move", call[c].path, name, Front(call[c].from)) \subseteq Event
            BY <2>6, <2>7, <2>10, TellsType
        <3>2. \/ Told(c, {})
              \/ Told(c, Tells(c, "move", call[c].path, name, Front(call[c].from)))
            BY <1>2, <1>5, <2>1 DEF Write
        <3> QED
            BY <3>1, <3>2
    <2> QED
        BY <1>1, <2>9, <2>11, ToldFits
<1> QED
    BY <1>4, <1>5

\* A deleted row says nothing any more.
LEMMA DeleteFits ==
    ASSUME TreeInv, NEW c \in Callers, DeleteMany(c), odd' \subseteq Odds
    PROVE  TreeOn
<1>1. /\ calls' = calls /\ call[c].at = "remove" /\ Ends(c)
      /\ rows' = [n \in DOMAIN rows |-> IF n \in call[c].todo THEN Gone ELSE rows[n]]
    BY DEF DeleteMany
<1>2. ~Gone.there /\ ~Gone.folder
    BY DEF Gone
<1>3. rows' \in Seq(Row) /\ Len(rows') = Len(rows) /\ DOMAIN rows' = DOMAIN rows
    BY <1>1, Constants DEF TreeInv, RowsOK
<1>4. RowsOK(rows') /\ Grows(rows, rows')
    BY <1>1, <1>2, <1>3 DEF TreeInv, RowsOK, Grows
<1> QED
    BY <1>1, <1>4, EndFits

LEMMA TellFits ==
    ASSUME TreeInv, NEW c \in Callers, NEW e, Tell(c, e), odd' \subseteq Odds
    PROVE  TreeOn
<1>1. /\ UNCHANGED <<rows, calls>> /\ call[c].at = "tell" /\ RowsOK(rows') /\ Grows(rows, rows')
      /\ call[c].tell \ {e} \in SUBSET Event
    BY CallTypes DEF Tell, CallOf
<1>2. ASSUME NEW at \in {"tell", "remove"}, NEW evs \in SUBSET Event,
             call' = [call EXCEPT ![c].tell = evs, ![c].at = at]
      PROVE  TreeOn
    <2>1. PICK q : q = [call[c] EXCEPT !.tell = evs]
        OBVIOUS
    <2>2. q \in CallOf
        BY <2>1, CallTypes, SetField
    <2>3. PICK s : s = [q EXCEPT !.at = at]
        OBVIOUS
    <2>4. s \in CallOf
        <3>1. at \in Stages
            BY DEF Stages
        <3> QED
            BY <2>2, <2>3, <3>1, SetField
    <2>5. /\ s.id = call[c].id /\ s.kind = call[c].kind /\ s.parent = call[c].parent
          /\ s.at = at /\ s.name = call[c].name
        BY <2>1, <2>2, <2>3, CallTypes DEF CallOf
    <2>6. s.kind # "none" /\ at \notin Creating /\ at \notin Moving /\ at \notin {"store", "list"}
        BY <1>1, <2>5, CallTypes DEF Creating, Moving
    <2>7. Fits(s, rows')
        BY <1>1, <2>5, <2>6, CallTypes DEF Fits
    <2>8. call' = [call EXCEPT ![c] = s]
        BY <1>2, <2>1, <2>2, <2>3, CallTypes DEF CallOf, TreeInv
    <2> QED
        BY <1>1, <2>4, <2>7, <2>8, CallTypes, OneCall DEF Odds
<1>3. CASE Ends(c)
    BY <1>1, <1>3, EndFits
<1>4. CASE call' = [call EXCEPT ![c].tell = call[c].tell \ {e}]
    <2>1. call' = [call EXCEPT ![c].tell = call[c].tell \ {e}, ![c].at = "tell"]
        BY <1>1, <1>4, CallTypes DEF CallOf, TreeInv
    <2> QED
        BY <1>1, <1>2, <2>1
<1>5. CASE call' = [call EXCEPT ![c].tell = {}, ![c].at = "remove"]
    <2>1. PICK evs \in SUBSET Event : evs = {}
        OBVIOUS
    <2>2. call' = [call EXCEPT ![c].tell = evs, ![c].at = "remove"]
        BY <1>5, <2>1
    <2> QED
        BY <1>2, <2>2
<1> QED
    BY <1>3, <1>4, <1>5 DEF Tell

\* A step of a call that OKF maintenance adds nothing to.
LEMMA TreeStepFits ==
    ASSUME TreeInv, NEW c \in Callers, TreeStep(c)
    PROVE  TreeOn
<1>1. CASE NothingToTell(c)
    <2>1. RowsOK(rows') /\ Grows(rows, rows') /\ calls' = calls /\ odd' \subseteq Odds
          /\ call[c].at = "tell" /\ Goes(c, "remove")
        BY <1>1, CallTypes DEF NothingToTell
    <2> QED
        BY <2>1, GoFits DEF Stages, Creating, Moving
<1> QED
    BY <1>1, ChainFits, ExistsFits, ParentStepFits, InsertFits, FreeFits, ListFits, ShiftFits
       DEF TreeStep

-----------------------------------------------------------------------------
(* The queue and the worker.                                               *)

JobsOK(js, ss) ==
    /\ js \in Seq(Job)
    /\ ss \subseteq Seq(FolderNames) \X {"now", "next"}

Has(js, e) == \E i \in DOMAIN js : js[i].ev = e

Working == [at: {"idle", "index", "making", "merge", "log", "making log", "append", "finish"},
            job: SUBSET Job, refs: SUBSET [path: Seq(FolderNames), name: Concepts],
            dirs: Seq(Seq(FolderNames)), node: Nat, text: Text]

\* A worker that works has a job of the queue, and where it reads or writes a
\* file that file is a row, there or gone.
WorkerOK(w, rs, js) ==
    /\ w \in Working
    /\ w.node <= Len(rs)
    /\ w.at = "idle" => w.job = {}
    /\ w.at # "idle" => \E j \in Job : w.job = {j} /\ Has(js, j.ev)
    /\ w.at \in {"index", "making", "merge"} => w.dirs # <<>>
    /\ w.at \in {"merge", "append"} => w.node \in DOMAIN rs

OkfInv ==
    /\ TreeInv
    /\ corpus \in Corpora
    /\ JobsOK(jobs, slots)
    /\ WorkerOK(worker, rows, jobs)
    /\ crashes \in 0 .. corpus.maxCrashes

LEMMA RestingFits ==
    ASSUME NEW rs, rs \in Seq(Row), NEW js
    PROVE  WorkerOK(Resting, rs, js)
<1>1. Resting \in Working
    BY Constants DEF Resting, Working, Null
<1> QED
    BY <1>1 DEF WorkerOK, Resting, Null

\* Rows are never taken from the list.
LEMMA RowsStay ==
    ASSUME TreeInv, TreeOn
    PROVE  Len(rows) \in Nat /\ Len(rows') \in Nat /\ Len(rows) <= Len(rows')
           /\ DOMAIN rows = 1 .. Len(rows) /\ DOMAIN rows' = 1 .. Len(rows')
<1>1. rows \in Seq(Row) /\ rows' \in Seq(Row) /\ Len(rows) <= Len(rows')
    BY DEF TreeOn, TreeInv, RowsOK, Grows
<1> QED
    BY <1>1

\* The worker goes on with what it has.
LEMMA WorkerKeeps ==
    ASSUME OkfInv, TreeOn, UNCHANGED <<corpus, worker, crashes>>, JobsOK(jobs', slots'),
           \A e \in Event : Has(jobs, e) => Has(jobs', e)
    PROVE  OkfInv'
<1>1. Len(rows) \in Nat /\ Len(rows') \in Nat /\ Len(rows) <= Len(rows')
      /\ DOMAIN rows = 1 .. Len(rows) /\ DOMAIN rows' = 1 .. Len(rows')
    BY RowsStay DEF OkfInv
<1>2. worker.node \in Nat /\ worker.node <= Len(rows)
    BY DEF OkfInv, WorkerOK, Working
<1>3. worker.at # "idle" => \E j \in Job : worker.job = {j} /\ Has(jobs', j.ev)
    <2> SUFFICES ASSUME worker.at # "idle"
                 PROVE  \E j \in Job : worker.job = {j} /\ Has(jobs', j.ev)
        OBVIOUS
    <2>1. PICK j \in Job : worker.job = {j} /\ Has(jobs, j.ev)
        BY DEF OkfInv, WorkerOK
    <2>2. j.ev \in Event
        BY DEF Job
    <2> QED
        BY <2>1, <2>2
<1>4. WorkerOK(worker', rows', jobs')
    BY <1>1, <1>2, <1>3 DEF OkfInv, WorkerOK
<1> QED
    BY <1>4 DEF OkfInv, TreeOn

\* The job a worker is at.
LEMMA TheJobTypes ==
    ASSUME OkfInv, worker.at # "idle"
    PROVE  /\ TheJob \in Job /\ worker.job = {TheJob}
           /\ TheEvent \in Event /\ Has(jobs, TheEvent)
<1>1. PICK j \in Job : worker.job = {j} /\ Has(jobs, j.ev)
    BY DEF OkfInv, WorkerOK
<1>2. TheJob = j
    BY <1>1 DEF TheJob
<1>3. j.ev \in Event
    BY DEF Job
<1> QED
    BY <1>1, <1>2, <1>3 DEF TheEvent

\* A job leaves the queue, or has another attempt.
LEMMA RetriedTypes ==
    ASSUME jobs \in Seq(Job), NEW j \in Job, Has(jobs, j.ev)
    PROVE  /\ Others(j) \in Seq(Job)
           /\ Retried(j) \in Seq(Job)
<1>1. Place(j) \in DOMAIN jobs
    BY DEF Place, Has
<1>2. PICK k : k = Place(j)
    OBVIOUS
<1>3. k \in 1 .. Len(jobs) /\ Len(jobs) \in Nat
    BY <1>1, <1>2
<1>4. Others(j) \in Seq(Job)
    <2>1. SubSeq(jobs, 1, k - 1) \in Seq(Job)
        BY <1>3
    <2>2. SubSeq(jobs, k + 1, Len(jobs)) \in Seq(Job)
        BY <1>3
    <2> QED
        BY <1>2, <2>1, <2>2 DEF Others, RemoveAt
<1>5. ASSUME j.left # 0
      PROVE  [jobs EXCEPT ![Place(j)] = [j EXCEPT !.active = FALSE, !.left = @ - 1]] \in Seq(Job)
    <2>1. PICK x : x = [j EXCEPT !.active = FALSE, !.left = @ - 1]
        OBVIOUS
    <2>2. j.left \in 0 .. RetryLimit /\ RetryLimit \in Nat
        BY OkfAssumption DEF Job
    <2>3. j.left - 1 \in 0 .. RetryLimit
        BY <1>5, <2>2
    <2>4. x \in Job
        BY <2>1, <2>3 DEF Job
    <2>5. [jobs EXCEPT ![k] = x] \in Seq(Job)
        BY <1>3, <2>4
    <2> QED
        BY <1>2, <2>1, <2>5
<1> QED
    BY <1>4, <1>5 DEF Retried

LEMMA EnqueueFits ==
    ASSUME JobsOK(jobs, slots), NEW e \in Event, Enqueue(e), odd \subseteq Odds
    PROVE  /\ JobsOK(jobs', slots') /\ odd' \subseteq Odds
           /\ \A f \in Event : Has(jobs, f) => Has(jobs', f)
<1>1. ASSUME NEW slot \in {"now", "next"},
             jobs' = Append(jobs, NewJob(e, slot = "next")), slots' = slots \cup {<<e.key, slot>>}
      PROVE  /\ JobsOK(jobs', slots')
             /\ \A f \in Event : Has(jobs, f) => Has(jobs', f)
    <2>1. e.key \in Seq(FolderNames)
        BY DEF Event
    <2>2. NewJob(e, slot = "next") \in Job
        BY OkfAssumption DEF NewJob, Job
    <2>3. jobs \in Seq(Job)
        BY DEF JobsOK
    <2>4. jobs' \in Seq(Job) /\ DOMAIN jobs \subseteq DOMAIN jobs'
          /\ \A i \in DOMAIN jobs : jobs'[i] = jobs[i]
        BY <1>1, <2>2, <2>3
    <2>5. slots' \subseteq Seq(FolderNames) \X {"now", "next"}
        BY <1>1, <2>1 DEF JobsOK
    <2> QED
        BY <2>4, <2>5 DEF JobsOK, Has
<1>2. ASSUME UNCHANGED <<jobs, slots>>
      PROVE  JobsOK(jobs', slots') /\ \A f \in Event : Has(jobs, f) => Has(jobs', f)
    BY <1>2 DEF JobsOK, Has
<1>3. \/ UNCHANGED <<jobs, slots>>
      \/ \E slot \in {"now", "next"} :
            jobs' = Append(jobs, NewJob(e, slot = "next")) /\ slots' = slots \cup {<<e.key, slot>>}
    BY DEF Enqueue
<1>4. odd' \subseteq Odds
    BY DEF Enqueue, Odds
<1> QED
    BY <1>1, <1>2, <1>3, <1>4

\* Rows are written, and no call moves.
LEMMA RowsFit ==
    ASSUME TreeInv, RowsOK(rows'), Grows(rows, rows'), UNCHANGED <<call, calls>>, odd' \subseteq Odds
    PROVE  TreeOn
<1>1. ASSUME NEW c \in Callers PROVE Fits(call'[c], rows')
    BY FitsGrows DEF TreeInv
<1> QED
    BY <1>1 DEF TreeInv, TreeOn, Odds

\* Steps in which the tree stays.
LEMMA TreeStays ==
    ASSUME TreeInv, UNCHANGED treeVars
    PROVE  TreeOn
<1>1. UNCHANGED <<rows, call, calls, odd>>
    BY DEF treeVars
<1>2. TreeInv'
    BY <1>1 DEF TreeInv
<1>3. Grows(rows, rows')
    BY <1>1, GrowsSame DEF TreeInv
<1> QED
    BY <1>2, <1>3 DEF TreeOn

LEMMA WorkerMoves ==
    ASSUME OkfInv, TreeOn, UNCHANGED <<corpus, crashes>>, JobsOK(jobs', slots'),
           WorkerOK(worker', rows', jobs')
    PROVE  OkfInv'
BY DEF OkfInv, TreeOn

LEMMA RestFits ==
    ASSUME OkfInv, TreeOn, UNCHANGED <<corpus, crashes, slots>>, worker' = Resting,
           jobs' \in Seq(Job)
    PROVE  OkfInv'
<1>1. rows' \in Seq(Row)
    BY DEF TreeOn, TreeInv, RowsOK
<1>2. WorkerOK(Resting, rows', jobs')
    BY <1>1, RestingFits
<1>3. JobsOK(jobs', slots')
    BY DEF OkfInv, JobsOK
<1> QED
    BY <1>2, <1>3, WorkerMoves

LEMMA ThrowsFits ==
    ASSUME OkfInv, worker.at # "idle", Throws, UNCHANGED <<corpus, crashes, slots>>
    PROVE  OkfInv'
<1>1. TreeOn
    <2>1. RowsOK(rows') /\ Grows(rows, rows') /\ UNCHANGED <<call, calls>> /\ TreeInv
        BY GrowsSame DEF Throws, OkfInv, TreeInv
    <2>2. odd' \subseteq Odds
        BY DEF Throws, OkfInv, TreeInv, Odds
    <2> QED
        BY <2>1, <2>2, RowsFit
<1>2. jobs' \in Seq(Job)
    BY TheJobTypes, RetriedTypes DEF Throws, OkfInv, JobsOK, TheEvent
<1> QED
    BY <1>1, <1>2, RestFits DEF Throws

LEMMA TickFits ==
    ASSUME OkfInv, Tick
    PROVE  OkfInv'
<1>1. TreeOn /\ UNCHANGED <<corpus, worker, crashes>>
    BY TreeStays DEF Tick, OkfInv
<1>2. jobs \in Seq(Job) /\ jobs' = [i \in DOMAIN jobs |-> [jobs[i] EXCEPT !.wait = FALSE]]
    BY DEF Tick, OkfInv, JobsOK
<1>3. ASSUME NEW i \in DOMAIN jobs
      PROVE  [jobs[i] EXCEPT !.wait = FALSE] \in Job /\ jobs'[i].ev = jobs[i].ev
    <2>1. PICK x : x = [jobs[i] EXCEPT !.wait = FALSE]
        OBVIOUS
    <2>2. jobs[i] \in Job /\ jobs'[i] = x
        BY <1>2, <2>1
    <2>3. x \in Job /\ x.ev = jobs[i].ev
        BY <2>1, <2>2 DEF Job
    <2> QED
        BY <2>1, <2>2, <2>3
<1>4. jobs' \in Seq(Job) /\ DOMAIN jobs' = DOMAIN jobs
    BY <1>2, <1>3
<1>5. slots' \subseteq Seq(FolderNames) \X {"now", "next"}
    BY DEF Tick, OkfInv, JobsOK
<1> QED
    BY <1>1, <1>3, <1>4, <1>5, WorkerKeeps DEF JobsOK, Has

LEMMA ExpireFits ==
    ASSUME OkfInv, Expire
    PROVE  OkfInv'
<1>1. TreeOn /\ UNCHANGED <<corpus, worker, crashes, slots>>
    BY TreeStays DEF Expire, OkfInv
<1>2. PICK i \in DOMAIN jobs : worker.job = {} /\ jobs' = Retried(jobs[i])
    BY DEF Expire
<1>3. jobs[i] \in Job /\ Has(jobs, jobs[i].ev)
    BY DEF OkfInv, JobsOK, Has
<1>4. jobs' \in Seq(Job)
    BY <1>2, <1>3, RetriedTypes DEF OkfInv, JobsOK
<1>5. WorkerOK(worker', rows', jobs')
    <2>1. worker.at = "idle"
        BY <1>2 DEF OkfInv, WorkerOK
    <2>2. Len(rows) <= Len(rows') /\ Len(rows) \in Nat /\ Len(rows') \in Nat
          /\ worker.node <= Len(rows) /\ worker.node \in Nat
        BY <1>1, RowsStay DEF OkfInv, WorkerOK, Working
    <2> QED
        BY <1>1, <2>1, <2>2 DEF OkfInv, WorkerOK
<1> QED
    BY <1>1, <1>4, <1>5, WorkerMoves DEF OkfInv, JobsOK

LEMMA TakeFits ==
    ASSUME OkfInv, Take
    PROVE  OkfInv'
<1>1. TreeOn /\ UNCHANGED <<rows, corpus, crashes, slots>> /\ TreeInv
    BY TreeStays DEF Take, OkfInv, Rests, treeVars
<1>2. PICK i \in DOMAIN jobs :
         /\ jobs' = [jobs EXCEPT ![i].active = TRUE]
         /\ worker' = [at |-> IF jobs[i].ev.name \in Concepts THEN "index" ELSE "finish",
                       job |-> {jobs'[i]},
                       refs |-> {[path |-> rows[n].path, name |-> rows[n].name] :
                                   n \in {n \in Nodes : rows[n].stored
                                                        /\ rows[n].name \in Concepts}},
                       dirs |-> Dirs(jobs[i].ev), node |-> Null, text |-> NoText]
    BY DEF Take
<1>3. PICK j : j = [jobs[i] EXCEPT !.active = TRUE]
    OBVIOUS
<1>4. j \in Job /\ j.ev \in Event
    <2>1. jobs[i] \in Job
        BY DEF OkfInv, JobsOK
    <2>2. j \in Job
        BY <1>3, <2>1 DEF Job
    <2> QED
        BY <2>2 DEF Job
<1>5. j.ev = jobs[i].ev /\ jobs' \in Seq(Job) /\ jobs'[i] = j /\ DOMAIN jobs' = DOMAIN jobs
    <2>1. jobs \in Seq(Job) /\ jobs[i] \in Job /\ jobs' = [jobs EXCEPT ![i] = j]
        BY <1>2, <1>3 DEF OkfInv, JobsOK
    <2>2. jobs' \in Seq(Job) /\ jobs'[i] = j /\ DOMAIN jobs' = DOMAIN jobs
        BY <1>4, <2>1
    <2> QED
        BY <1>3, <2>1, <2>2 DEF Job
<1>6. PICK refs : refs = {[path |-> rows[n].path, name |-> rows[n].name] :
                                   n \in {n \in Nodes : rows[n].stored
                                                        /\ rows[n].name \in Concepts}}
    OBVIOUS
<1>7. refs \subseteq [path: Seq(FolderNames), name: Concepts]
    <2>1. ASSUME NEW n \in Nodes PROVE rows[n].path \in Seq(FolderNames)
        <3>1. n \in DOMAIN rows /\ rows[n] \in Row
            BY <1>1, RowTypes DEF Nodes
        <3> QED
            BY <3>1 DEF Row
    <2> QED
        BY <1>6, <2>1
<1>8. Dirs(j.ev) \in Seq(Seq(FolderNames)) /\ Dirs(j.ev) # <<>>
    <2>1. j.ev.path \in Seq(FolderNames) /\ j.ev.from \in Seq(FolderNames)
        BY <1>4 DEF Event
    <2> QED
        BY <2>1 DEF Dirs
<1>9. worker' \in Working
    <2>1. PICK dirs : dirs = Dirs(j.ev)
        OBVIOUS
    <2>2. dirs \in Seq(Seq(FolderNames))
        BY <1>8, <2>1
    <2>3. worker' = [at |-> IF j.ev.name \in Concepts THEN "index" ELSE "finish", job |-> {j},
                     refs |-> refs, dirs |-> dirs, node |-> 0, text |-> NoText]
        BY <1>2, <1>5, <1>6, <2>1 DEF Null
    <2> QED
        BY <1>4, <1>7, <2>2, <2>3, Constants DEF Working
<1>10. WorkerOK(worker', rows', jobs')
    <2>1. worker'.at \in {"index", "finish"} /\ worker'.job = {j} /\ worker'.node = 0
          /\ worker'.dirs = Dirs(j.ev)
        BY <1>2, <1>5 DEF Null
    <2>2. Has(jobs', j.ev)
        BY <1>5 DEF Has
    <2>3. 0 <= Len(rows')
        BY <1>1 DEF TreeInv, RowsOK
    <2> QED
        BY <1>4, <1>8, <1>9, <2>1, <2>2, <2>3 DEF WorkerOK
<1> QED
    BY <1>1, <1>5, <1>10, WorkerMoves DEF OkfInv, JobsOK

\* A folder's index has been seen to.
LEMMA OnToNextFits ==
    ASSUME OkfInv, TreeOn, UNCHANGED <<corpus, crashes, jobs, slots>>,
           worker.at \in {"index", "making", "merge"}, worker' = OnToNext
    PROVE  OkfInv'
<1>1. worker \in Working /\ worker.dirs # <<>>
    BY DEF OkfInv, WorkerOK
<1>2. PICK left : left = Tail(worker.dirs)
    OBVIOUS
<1>3. left \in Seq(Seq(FolderNames))
    <2>1. worker.dirs \in Seq(Seq(FolderNames))
        BY <1>1 DEF Working
    <2> QED
        BY <1>1, <1>2, <2>1, HeadTailProperties
<1>4. PICK at \in {"log", "index"} : at = IF left = <<>> THEN "log" ELSE "index"
    OBVIOUS
<1>5. worker' = [worker EXCEPT !.dirs = left, !.at = at, !.node = Null, !.text = NoText]
    BY <1>2, <1>4 DEF OnToNext
<1>6. worker' = [at |-> at, job |-> worker.job, refs |-> worker.refs, dirs |-> left,
                 node |-> 0, text |-> NoText]
    BY <1>1, <1>5 DEF Working, Null
<1>7. worker' \in Working
    <2>1. PICK w : w = [worker EXCEPT !.dirs = left]
        OBVIOUS
    <2>2. w \in Working
        BY <1>1, <1>3, <2>1 DEF Working
    <2>3. worker' = [at |-> at, job |-> w.job, refs |-> w.refs, dirs |-> w.dirs,
                     node |-> 0, text |-> NoText]
        BY <1>1, <1>6, <2>1 DEF Working
    <2>4. PICK txt \in Text : txt = NoText
        BY Constants
    <2>5. worker' = [at |-> at, job |-> w.job, refs |-> w.refs, dirs |-> w.dirs,
                     node |-> 0, text |-> txt]
        BY <2>3, <2>4
    <2>6. ASSUME NEW a \in {"log", "index"}, NEW n \in Nat
          PROVE  [at |-> a, job |-> w.job, refs |-> w.refs, dirs |-> w.dirs, node |-> n,
                  text |-> txt] \in Working
        BY <2>2 DEF Working
    <2> QED
        BY <1>4, <2>5, <2>6
<1>8. /\ worker'.at = at /\ worker'.job = worker.job /\ worker'.node = 0
      /\ worker'.at = "index" => worker'.dirs # <<>>
    BY <1>4, <1>6
<1>9. 0 <= Len(rows')
    BY RowsStay DEF OkfInv
<1>10. \E j \in Job : worker'.job = {j} /\ Has(jobs', j.ev)
    <2>1. PICK j \in Job : worker.job = {j} /\ Has(jobs, j.ev)
        BY DEF OkfInv, WorkerOK
    <2> QED
        BY <1>8, <2>1
<1>11. WorkerOK(worker', rows', jobs')
    BY <1>7, <1>8, <1>9, <1>10 DEF WorkerOK
<1> QED
    BY <1>11, WorkerMoves DEF OkfInv

\* The worker goes on to something else with the folders it has.
LEMMA WorkerGoes ==
    ASSUME OkfInv, TreeOn, UNCHANGED <<corpus, crashes, jobs, slots>>,
           worker.at # "idle", NEW at \in {"making", "merge", "making log", "append", "finish"},
           at \in {"making", "merge"} => worker.at \in {"index", "making", "merge"},
           at \in {"merge", "append"} => worker'.node \in DOMAIN rows',
           NEW n \in Nat, n <= Len(rows'), NEW txt \in Text,
           worker' = [worker EXCEPT !.at = at, !.node = n, !.text = txt]
    PROVE  OkfInv'
<1>1. worker \in Working
    BY DEF OkfInv, WorkerOK
<1>2. worker' = [at |-> at, job |-> worker.job, refs |-> worker.refs, dirs |-> worker.dirs,
                 node |-> n, text |-> txt]
    BY <1>1 DEF Working
<1>3. worker' \in Working
    BY <1>1, <1>2 DEF Working
<1>4. worker'.at = at /\ worker'.job = worker.job /\ worker'.dirs = worker.dirs /\ worker'.node = n
    BY <1>2
<1>5. PICK j \in Job : worker.job = {j} /\ Has(jobs, j.ev)
    BY DEF OkfInv, WorkerOK
<1>6. at \in {"making", "merge"} => worker.dirs # <<>>
    BY DEF OkfInv, WorkerOK
<1>7. WorkerOK(worker', rows', jobs')
    BY <1>3, <1>4, <1>5, <1>6 DEF WorkerOK
<1> QED
    BY <1>7, WorkerMoves DEF OkfInv

\* What a run lists are names.
LEMMA ListingTypes ==
    ASSUME OkfInv, NEW d \in Seq(FolderNames)
    PROVE  Listing(d) \in SUBSET Names
<1>1. worker.refs \subseteq [path: Seq(FolderNames), name: Concepts]
    BY DEF OkfInv, WorkerOK, Working
<1>2. ConceptsIn(d) \subseteq Names
    BY <1>1, Constants DEF ConceptsIn
<1>3. ASSUME NEW r \in worker.refs, Len(r.path) >= Len(d) + 2
      PROVE  r.path[Len(d) + 1] \in Names
    <2>1. r.path \in Seq(FolderNames) /\ Len(d) \in Nat
        BY <1>1
    <2>2. Len(d) + 1 \in 1 .. Len(r.path)
        BY <1>3, <2>1
    <2> QED
        BY <2>1, <2>2, Constants
<1>4. SubfoldersIn(d) \subseteq Names
    BY <1>3 DEF SubfoldersIn
<1> QED
    BY <1>2, <1>4 DEF Listing

\* The file that maintenance reads.
LEMMA ReadTypes ==
    ASSUME OkfInv, NEW p, NEW m, NEW n \in Files(p, m)
    PROVE  n \in DOMAIN rows /\ n \in Nat /\ n <= Len(rows) /\ rows[n].text \in Text
<1>1. n \in DOMAIN rows
    BY DEF Files, At, Nodes
<1>2. n \in Nat /\ n <= Len(rows) /\ rows[n] \in Row
    BY <1>1, RowTypes DEF OkfInv
<1> QED
    BY <1>1, <1>2 DEF Row

LEMMA IndexFits ==
    ASSUME OkfInv, Index
    PROVE  OkfInv'
<1>1. /\ worker.at = "index" /\ UNCHANGED <<corpus, jobs, slots, crashes>> /\ TreeInv
      /\ worker.node \in Nat /\ worker.node <= Len(rows) /\ worker.text \in Text
      /\ worker.dirs \in Seq(Seq(FolderNames)) /\ worker.dirs # <<>> /\ worker \in Working
    BY DEF Index, OkfInv, WorkerOK, Working
<1>2. PICK d : d = Head(worker.dirs)
    OBVIOUS
<1>3. d \in Seq(FolderNames)
    BY <1>1, <1>2, HeadTailProperties
<1>4. CASE worker' = OnToNext /\ UNCHANGED treeVars
    BY <1>1, <1>4, TreeStays, OnToNextFits
<1>5. CASE /\ StartCreate(Worker, "file", d, "index.md", [NoText EXCEPT !.listed = Listing(d)])
           /\ worker' = [worker EXCEPT !.at = "making"]
    <2>1. PICK txt : txt = [NoText EXCEPT !.listed = Listing(d)]
        OBVIOUS
    <2>2. txt \in Text
        <3>1. Listing(d) \in SUBSET Names
            BY <1>3, ListingTypes
        <3> QED
            BY <2>1, <3>1 DEF NoText, Text
    <2>3. StartCreate(Worker, "file", d, "index.md", txt)
        BY <1>5, <2>1
    <2>4. Worker \in Callers /\ "index.md" \in Names
        BY OkfAssumption, Constants
    <2>5. TreeOn
        BY <1>1, <1>3, <2>2, <2>3, <2>4, StartCreateFits
    <2>6. worker.node <= Len(rows')
        BY <1>1, <2>5, RowsStay
    <2>7. worker' = [worker EXCEPT !.at = "making", !.node = worker.node, !.text = worker.text]
        BY <1>1, <1>5 DEF Working
    <2> QED
        BY <1>1, <2>5, <2>6, <2>7, WorkerGoes
<1>6. CASE \E n \in Files(d, "index.md") :
              /\ worker' = [worker EXCEPT !.at = "merge", !.node = n, !.text = rows[n].text]
              /\ UNCHANGED treeVars
    <2>1. PICK n \in Files(d, "index.md") :
              /\ worker' = [worker EXCEPT !.at = "merge", !.node = n, !.text = rows[n].text]
              /\ UNCHANGED treeVars
        BY <1>6
    <2>2. TreeOn /\ rows' = rows
        BY <1>1, <2>1, TreeStays DEF treeVars
    <2>3. n \in DOMAIN rows /\ n \in Nat /\ n <= Len(rows) /\ rows[n].text \in Text
        BY ReadTypes
    <2>4. worker'.node = n
        BY <1>1, <2>1 DEF Working
    <2> QED
        BY <1>1, <2>1, <2>2, <2>3, <2>4, WorkerGoes
<1> QED
    BY <1>2, <1>4, <1>5, <1>6 DEF Index

LEMMA EntryTypes ==
    ASSUME OkfInv, worker.at # "idle"
    PROVE  Entry \in [ev: Event, left: Nat]
<1>1. TheJob \in Job /\ TheEvent \in Event
    BY TheJobTypes
<1>2. TheJob.left \in Nat
    BY <1>1, OkfAssumption DEF Job
<1> QED
    BY <1>1, <1>2 DEF Entry

LEMMA LogFits ==
    ASSUME OkfInv, Log
    PROVE  OkfInv'
<1>1. /\ worker.at = "log" /\ UNCHANGED <<corpus, jobs, slots, crashes>> /\ TreeInv
      /\ worker.node \in Nat /\ worker.node <= Len(rows) /\ worker.text \in Text
      /\ worker \in Working
    BY DEF Log, OkfInv, WorkerOK, Working
<1>2. PICK d : d = TheEvent.path
    OBVIOUS
<1>3. d \in Seq(FolderNames)
    BY <1>1, <1>2, TheJobTypes DEF Event
<1>4. CASE /\ StartCreate(Worker, "file", d, "log.md", [NoText EXCEPT !.entries = {Entry}])
           /\ worker' = [worker EXCEPT !.at = "making log"]
    <2>1. PICK txt : txt = [NoText EXCEPT !.entries = {Entry}]
        OBVIOUS
    <2>2. txt \in Text
        <3>1. Entry \in [ev: Event, left: Nat]
            BY <1>1, EntryTypes
        <3> QED
            BY <2>1, <3>1 DEF NoText, Text
    <2>3. StartCreate(Worker, "file", d, "log.md", txt)
        BY <1>4, <2>1
    <2>4. Worker \in Callers /\ "log.md" \in Names
        BY OkfAssumption, Constants
    <2>5. TreeOn
        BY <1>1, <1>3, <2>2, <2>3, <2>4, StartCreateFits
    <2>6. worker.node <= Len(rows')
        BY <1>1, <2>5, RowsStay
    <2>7. worker' = [worker EXCEPT !.at = "making log", !.node = worker.node, !.text = worker.text]
        BY <1>1, <1>4 DEF Working
    <2> QED
        BY <1>1, <2>5, <2>6, <2>7, WorkerGoes
<1>5. CASE \E n \in Files(d, "log.md") :
              /\ worker' = [worker EXCEPT !.at = "append", !.node = n, !.text = rows[n].text]
              /\ UNCHANGED treeVars
    <2>1. PICK n \in Files(d, "log.md") :
              /\ worker' = [worker EXCEPT !.at = "append", !.node = n, !.text = rows[n].text]
              /\ UNCHANGED treeVars
        BY <1>5
    <2>2. TreeOn /\ rows' = rows
        BY <1>1, <2>1, TreeStays DEF treeVars
    <2>3. n \in DOMAIN rows /\ n \in Nat /\ n <= Len(rows) /\ rows[n].text \in Text
        BY ReadTypes
    <2>4. worker'.node = n
        BY <1>1, <2>1 DEF Working
    <2> QED
        BY <1>1, <2>1, <2>2, <2>3, <2>4, WorkerGoes
<1> QED
    BY <1>2, <1>4, <1>5 DEF Log

\* The worker's last stage.
LEMMA FinishingFits ==
    ASSUME OkfInv, TreeOn, UNCHANGED <<corpus, crashes, jobs, slots>>, worker.at # "idle",
           worker' = [worker EXCEPT !.at = "finish"]
    PROVE  OkfInv'
<1>1. /\ worker.node \in Nat /\ worker.node <= Len(rows) /\ worker.text \in Text
      /\ worker \in Working /\ TreeInv
    BY DEF OkfInv, WorkerOK, Working
<1>2. worker.node <= Len(rows')
    BY <1>1, RowsStay
<1>3. worker' = [worker EXCEPT !.at = "finish", !.node = worker.node, !.text = worker.text]
    BY <1>1 DEF Working
<1> QED
    BY <1>1, <1>2, <1>3, WorkerGoes

LEMMA MadeFits ==
    ASSUME OkfInv, Made
    PROVE  OkfInv'
<1>1. /\ worker.at \in {"making", "making log"} /\ UNCHANGED <<corpus, slots, crashes>>
      /\ TreeInv /\ worker.at # "idle" /\ Worker \in Callers
    BY OkfAssumption DEF Made, OkfInv
<1>2. CASE /\ Ends(Worker) /\ UNCHANGED <<rows, calls, odd, jobs>>
           /\ worker' = IF worker.at = "making" THEN OnToNext ELSE [worker EXCEPT !.at = "finish"]
    <2>1. RowsOK(rows') /\ Grows(rows, rows') /\ calls' = calls /\ odd' \subseteq Odds
        BY <1>1, <1>2, CallTypes
    <2>2. TreeOn
        BY <1>1, <1>2, <2>1, EndFits
    <2>3. CASE worker.at = "making"
        BY <1>1, <1>2, <2>2, <2>3, OnToNextFits
    <2>4. CASE worker.at = "making log"
        BY <1>1, <1>2, <2>2, <2>4, FinishingFits
    <2> QED
        BY <1>1, <2>3, <2>4
<1>3. CASE Throws
    BY <1>1, <1>3, ThrowsFits
<1> QED
    BY <1>2, <1>3 DEF Made

LEMMA NewTextTypes ==
    ASSUME OkfInv, worker.at # "idle"
    PROVE  NewText \in Text
<1>1. worker.text \in Text /\ TheEvent \in Event /\ Entry \in [ev: Event, left: Nat]
    BY TheJobTypes, EntryTypes DEF OkfInv, WorkerOK, Working
<1>2. TheEvent.name \in Names
    BY <1>1 DEF Event
<1>3. Merged(TheEvent, worker.text.listed) \subseteq Names
    BY <1>1, <1>2 DEF Merged, Text
<1>4. [worker.text EXCEPT !.listed = Merged(TheEvent, worker.text.listed)] \in Text
    BY <1>1, <1>3 DEF Text
<1>5. [worker.text EXCEPT !.entries = worker.text.entries \cup {Entry}] \in Text
    BY <1>1 DEF Text
<1> QED
    BY <1>4, <1>5 DEF NewText

LEMMA SaveTextFits ==
    ASSUME OkfInv, SaveText
    PROVE  OkfInv'
<1>1. /\ worker.at \in {"merge", "append"} /\ worker.at # "idle" /\ TreeInv
      /\ UNCHANGED <<corpus, slots, crashes>>
      /\ worker.node \in DOMAIN rows
    BY DEF SaveText, OkfInv, WorkerOK
<1>2. CASE Throws
    BY <1>1, <1>2, ThrowsFits
<1>3. CASE ~Throws
    <2>1. /\ rows' = [rows EXCEPT ![worker.node].text = NewText]
          /\ worker' = IF worker.at = "merge" THEN OnToNext ELSE [worker EXCEPT !.at = "finish"]
          /\ UNCHANGED <<call, calls, jobs>>
          /\ odd' \subseteq odd \cup {"clash"}
        BY <1>3 DEF SaveText
    <2>2. PICK n : n = worker.node
        OBVIOUS
    <2>3. PICK txt \in Text : txt = NewText
        BY <1>1, NewTextTypes
    <2>4. PICK x : x = [rows[n] EXCEPT !.text = txt]
        OBVIOUS
    <2>5. rows' = [rows EXCEPT ![n] = x]
        BY <2>1, <2>2, <2>3, <2>4
    <2>6. n \in DOMAIN rows /\ rows[n] \in Row /\ (rows[n].folder => rows[n].name \in FolderNames)
        BY <1>1, <2>2, RowTypes
    <2>7. x \in Row /\ x.there = rows[n].there /\ x.folder = rows[n].folder /\ x.name = rows[n].name
        BY <2>4, <2>6 DEF Row
    <2>8. RowsOK(rows') /\ Grows(rows, rows')
        BY <1>1, <2>5, <2>6, <2>7, RowSet
    <2>9. odd' \subseteq Odds
        BY <1>1, <2>1 DEF TreeInv, Odds
    <2>10. TreeOn
        BY <1>1, <2>1, <2>8, <2>9, RowsFit
    <2>11. CASE worker.at = "merge"
        BY <1>1, <2>1, <2>10, <2>11, OnToNextFits
    <2>12. CASE worker.at = "append"
        BY <1>1, <2>1, <2>10, <2>12, FinishingFits
    <2> QED
        BY <1>1, <2>11, <2>12
<1> QED
    BY <1>2, <1>3

LEMMA FinishFits ==
    ASSUME OkfInv, Finish
    PROVE  OkfInv'
<1>1. TreeInv /\ RowsOK(rows') /\ Grows(rows, rows') /\ UNCHANGED <<call, calls>>
      /\ odd' \subseteq Odds
    BY GrowsSame DEF Finish, OkfInv, TreeInv, Odds
<1>2. TreeOn
    BY <1>1, RowsFit
<1>3. jobs' \in Seq(Job)
    BY TheJobTypes, RetriedTypes DEF Finish, OkfInv, JobsOK, TheEvent
<1> QED
    BY <1>2, <1>3, RestFits DEF Finish

LEMMA CrashFits ==
    ASSUME OkfInv, Crash
    PROVE  OkfInv'
<1>1. /\ call' = [c \in Callers |-> Idle] /\ worker' = Resting /\ crashes' = crashes + 1
      /\ odd' = odd \cup {"died"} /\ UNCHANGED <<rows, calls, corpus, jobs, slots>>
      /\ crashes < corpus.maxCrashes
    BY DEF Crash
<1>2. Fits(Idle, rows) /\ rows \in Seq(Row)
    BY DEF Fits, Idle, RowsOK, Null, Creating, Moving, OkfInv, TreeInv
<1>3. TreeInv'
    BY <1>1, <1>2, Constants DEF OkfInv, TreeInv, Odds
<1>4. crashes' \in 0 .. corpus'.maxCrashes
    BY <1>1, OkfAssumption DEF OkfInv
<1>5. WorkerOK(worker', rows', jobs')
    BY <1>1, <1>2, RestingFits
<1> QED
    BY <1>1, <1>3, <1>4, <1>5 DEF OkfInv, JobsOK

\* Only calls and rows change.
LEMMA CallKeeps ==
    ASSUME OkfInv, TreeOn, OkfStays
    PROVE  OkfInv'
<1>1. UNCHANGED <<corpus, jobs, slots, worker, crashes>>
    BY DEF OkfStays
<1>2. JobsOK(jobs', slots') /\ \A e \in Event : Has(jobs, e) => Has(jobs', e)
    BY <1>1 DEF OkfInv, JobsOK, Has
<1> QED
    BY <1>1, <1>2, WorkerKeeps

LEMMA CallFits ==
    ASSUME OkfInv, NEW c \in Users, Call(c)
    PROVE  OkfInv'
<1>1. TreeInv /\ c \in Callers /\ Calls(c) /\ OkfStays /\ calls \in Nat
    BY DEF OkfInv, Users, Call, TreeInv
<1>2. ASSUME NEW p \in Folders PROVE p \in Seq(FolderNames)
    <2>1. CASE p = <<>>
        BY <2>1, Constants
    <2>2. CASE \E n \in Nodes : rows[n].folder /\ p = FullPath(n)
        BY <1>1, <2>2, RowTypes DEF Nodes
    <2> QED
        BY <2>1, <2>2 DEF Folders
<1>3. Concepts \subseteq Names /\ FolderNames \subseteq Names /\ NoText \in Text
    BY Constants
<1>4. ASSUME NEW p \in Folders, NEW m \in FolderNames, StartCreate(c, "folder", p, m, NoText)
      PROVE  TreeOn
    BY <1>1, <1>2, <1>3, <1>4, StartCreateFits
<1>5. ASSUME NEW p \in Folders, NEW m \in Concepts, StartCreate(c, "file", p, m, NoText)
      PROVE  TreeOn
    BY <1>1, <1>2, <1>3, <1>5, StartCreateFits
<1>6. ASSUME NEW p \in Folders, NEW n \in Nodes, StartMove(c, n, p)
      PROVE  TreeOn
    BY <1>1, <1>2, <1>6, StartMoveFits
<1>7. ASSUME NEW p \in DocPaths, NEW m \in Concepts, StartCreate(c, "document", p, m, NoText)
      PROVE  TreeOn
    <2>1. p \in Seq(FolderNames)
        BY OkfAssumption
    <2> QED
        BY <1>1, <1>3, <1>7, <2>1, StartCreateFits
<1>8. ASSUME NEW n \in Nodes, NEW m \in (IF rows[n].folder THEN FolderNames ELSE Concepts),
             StartRename(c, n, m)
      PROVE  TreeOn
    BY <1>1, <1>3, <1>8, StartRenameFits
<1>9. ASSUME NEW n \in Nodes, StartDelete(c, n) PROVE TreeOn
    BY <1>1, <1>9, StartDeleteFits
<1>10. ASSUME NEW n \in Nodes,
              StartSave(c, n, IF rows[n].name \in Concepts THEN NoText
                              ELSE [rows[n].text EXCEPT !.note = calls + 1])
       PROVE  TreeOn
    <2>1. PICK txt : txt = IF rows[n].name \in Concepts THEN NoText
                           ELSE [rows[n].text EXCEPT !.note = calls + 1]
        OBVIOUS
    <2>2. rows[n].text \in Text
        BY <1>1, RowTypes DEF Nodes, Row
    <2>3. [rows[n].text EXCEPT !.note = calls + 1] \in Text
        BY <1>1, <2>2 DEF Text
    <2>4. txt \in Text /\ StartSave(c, n, txt)
        BY <1>3, <1>10, <2>1, <2>3
    <2> QED
        BY <1>1, <2>4, StartSaveFits
<1>11. TreeOn
    BY <1>1, <1>4, <1>5, <1>6, <1>7, <1>8, <1>9, <1>10 DEF Calls
<1> QED
    BY <1>1, <1>11, CallKeeps

LEMMA CallerFits ==
    ASSUME OkfInv, NEW c \in Callers,
           \/ Step(c) \/ StoreStep(c) \/ WriteStep(c) \/ DeleteStep(c)
           \/ \E e \in call[c].tell : Send(c, e)
    PROVE  OkfInv'
<1>1. TreeInv /\ odd \subseteq Odds
    BY DEF OkfInv, TreeInv, Odds
<1>2. CASE Step(c)
    BY <1>1, <1>2, TreeStepFits, CallKeeps DEF Step
<1>3. CASE StoreStep(c)
    <2>1. odd' \subseteq Odds /\ Store(c) /\ OkfStays
        BY <1>1, <1>3 DEF StoreStep, Odd, Odds
    <2> QED
        BY <1>1, <2>1, StoreFits, CallKeeps
<1>4. CASE WriteStep(c)
    <2>1. odd' \subseteq Odds /\ Write(c) /\ OkfStays
        BY <1>1, <1>4 DEF WriteStep, Odd, Odds
    <2> QED
        BY <1>1, <2>1, WriteFits, CallKeeps
<1>5. CASE DeleteStep(c)
    <2>1. odd' \subseteq Odds /\ DeleteMany(c) /\ OkfStays
        BY <1>1, <1>5 DEF DeleteStep, Odd, Odds
    <2> QED
        BY <1>1, <2>1, DeleteFits, CallKeeps
<1>6. CASE \E e \in call[c].tell : Send(c, e)
    <2>1. PICK e \in call[c].tell : Tell(c, e) /\ Enqueue(e) /\ UNCHANGED <<corpus, worker, crashes>>
        BY <1>6 DEF Send
    <2>2. e \in Event
        BY <1>1, <2>1, CallTypes DEF CallOf
    <2>3. /\ JobsOK(jobs', slots') /\ odd' \subseteq Odds
          /\ \A f \in Event : Has(jobs, f) => Has(jobs', f)
        BY <1>1, <2>1, <2>2, EnqueueFits DEF OkfInv
    <2>4. TreeOn
        BY <1>1, <2>1, <2>3, TellFits
    <2> QED
        BY <2>1, <2>3, <2>4, WorkerKeeps
<1> QED
    BY <1>2, <1>3, <1>4, <1>5, <1>6

LEMMA SetToSeqTypes ==
    ASSUME NEW S, IsFiniteSet(S)
    PROVE  SetToSeq(S) \in Seq(S)
<1>1. Cardinality(S) \in Nat /\ ExistsBijection(1 .. Cardinality(S), S)
    BY FS_CardinalityType
<1>2. \E f \in [1 .. Cardinality(S) -> S] : IsInjective(f)
    BY <1>1 DEF ExistsBijection, Bijection, Injection
<1>3. SetToSeq(S) \in [1 .. Cardinality(S) -> S]
    BY <1>2 DEF SetToSeq
<1> QED
    BY <1>1, <1>3

LEMMA InitFits ==
    ASSUME Init
    PROVE  OkfInv
<1>1. /\ corpus \in Corpora /\ rows = corpus.rows
      /\ call = [c \in Callers |-> Idle] /\ calls = 0 /\ odd = {}
      /\ jobs = SetToSeq({NewJob(e, FALSE) : e \in corpus.saved})
      /\ slots = {<<e.key, "now">> : e \in corpus.saved}
      /\ worker = Resting /\ crashes = 0
    BY DEF Init
<1>2. /\ corpus.rows \in Seq(Row)
      /\ \A n \in DOMAIN corpus.rows : corpus.rows[n].folder => corpus.rows[n].name \in FolderNames
      /\ corpus.saved \subseteq Event /\ IsFiniteSet(corpus.saved)
      /\ corpus.maxCrashes \in Nat
    BY <1>1, OkfAssumption
<1>3. RowsOK(rows)
    BY <1>1, <1>2 DEF RowsOK
<1>4. Fits(Idle, rows)
    BY <1>3 DEF Fits, Idle, RowsOK, Null, Creating, Moving
<1>5. TreeInv
    BY <1>1, <1>3, <1>4, Constants DEF TreeInv
<1>6. PICK S : S = {NewJob(e, FALSE) : e \in corpus.saved}
    OBVIOUS
<1>7. IsFiniteSet(S)
    <2>1. PICK f : f = [e \in corpus.saved |-> NewJob(e, FALSE)]
        OBVIOUS
    <2>2. f \in [corpus.saved -> S]
        BY <1>6, <2>1
    <2>3. \A j \in S : \E e \in corpus.saved : f[e] = j
        BY <1>6, <2>1
    <2>4. f \in Surjection(corpus.saved, S)
        BY <2>2, <2>3 DEF Surjection
    <2> QED
        BY <1>2, <2>4, FS_Surjection
<1>8. S \subseteq Job
    <2>1. ASSUME NEW e \in corpus.saved PROVE NewJob(e, FALSE) \in Job
        BY <1>2, OkfAssumption DEF NewJob, Job
    <2> QED
        BY <1>6, <2>1
<1>9. jobs \in Seq(Job)
    <2>1. jobs \in Seq(S)
        BY <1>1, <1>6, <1>7, SetToSeqTypes
    <2> QED
        BY <1>8, <2>1, SeqMonotonic
<1>10. slots \subseteq Seq(FolderNames) \X {"now", "next"}
    <2>1. ASSUME NEW e \in corpus.saved PROVE e.key \in Seq(FolderNames)
        BY <1>2 DEF Event
    <2> QED
        BY <1>1, <2>1
<1>11. WorkerOK(worker, rows, jobs)
    BY <1>1, <1>3, RestingFits DEF RowsOK
<1> QED
    BY <1>1, <1>2, <1>5, <1>9, <1>10, <1>11 DEF OkfInv, JobsOK

LEMMA NextFits ==
    ASSUME OkfInv, [Next]_vars
    PROVE  OkfInv'
<1>1. CASE \E c \in Users : Call(c)
    BY <1>1, CallFits
<1>2. CASE \E c \in Callers : \/ Step(c) \/ StoreStep(c) \/ WriteStep(c) \/ DeleteStep(c)
                               \/ \E e \in call[c].tell : Send(c, e)
    BY <1>2, CallerFits
<1>3. CASE UNCHANGED vars
    <2>1. UNCHANGED <<rows, call, calls, odd, corpus, jobs, slots, worker, crashes>>
        BY <1>3 DEF vars, treeVars
    <2>2. TreeInv'
        BY <2>1 DEF OkfInv, TreeInv
    <2> QED
        BY <2>1, <2>2 DEF OkfInv, JobsOK, WorkerOK, Has
<1> QED
    BY <1>1, <1>2, <1>3, TakeFits, IndexFits, LogFits, MadeFits, SaveTextFits, FinishFits,
       TickFits, ExpireFits, CrashFits DEF Next

\* OkfInv says that the types are as they should be.
LEMMA InvTypes ==
    ASSUME OkfInv
    PROVE  TypeOK
<1>1. TreeTypeOK
    <2>1. rows \in Seq(Row) /\ \A n \in DOMAIN rows : rows[n].folder => rows[n].name \in FolderNames
        BY DEF OkfInv, TreeInv, RowsOK
    <2>2. Len(rows) \in Nat
        BY <2>1
    <2>3. ASSUME NEW c \in Callers
          PROVE  /\ call[c].kind \in Kinds \cup {"none"} /\ call[c].at \in Stages
                 /\ call[c].id \in 0 .. Len(rows) /\ call[c].parent \in 0 .. Len(rows)
                 /\ call[c].path \in Seq(FolderNames) /\ call[c].name \in Names
                 /\ call[c].text \in Text /\ call[c].tell \subseteq Event
                 /\ call[c] = Idle <=> call[c].kind = "none"
        <3>1. call[c] \in CallOf /\ Fits(call[c], rows)
            BY DEF OkfInv, TreeInv
        <3>2. call[c] = Idle <=> call[c].kind = "none"
            BY <3>1 DEF Fits, Idle
        <3> QED
            BY <2>2, <3>1, <3>2 DEF CallOf, Fits
    <2>4. calls \in Nat /\ odd \subseteq Odds
        BY DEF OkfInv, TreeInv, Odds
    <2> QED
        BY <2>1, <2>3, <2>4 DEF TreeTypeOK, Stages, Odds
<1>2. /\ worker \in Working /\ worker.node <= Len(rows) /\ rows \in Seq(Row)
      /\ worker.at = "idle" => worker.job = {}
      /\ worker.at # "idle" => \E j \in Job : worker.job = {j}
    BY DEF OkfInv, WorkerOK, TreeInv, RowsOK
<1>3. Cardinality(worker.job) = IF worker.at = "idle" THEN 0 ELSE 1
    <2>1. \A j : Cardinality({j}) = 1
        BY FS_Singleton
    <2>2. Cardinality({}) = 0
        BY FS_EmptySet
    <2> QED
        BY <1>2, <2>1, <2>2
<1>4. worker.node \in 0 .. Len(rows)
    <2>1. worker.node \in Nat
        BY <1>2 DEF Working
    <2>2. Len(rows) \in Nat
        BY <1>2
    <2> QED
        BY <1>2, <2>1, <2>2
<1>5. /\ worker.at \in {"idle", "index", "making", "merge", "log", "making log",
                      "append", "finish"}
      /\ worker.job \subseteq Job
      /\ worker.refs \subseteq [path: Seq(FolderNames), name: Concepts]
      /\ worker.dirs \in Seq(Seq(FolderNames)) /\ worker.text \in Text
    BY <1>2 DEF Working
<1>6. /\ jobs \in Seq(Job) /\ slots \subseteq Seq(FolderNames) \X {"now", "next"}
      /\ crashes \in 0 .. corpus.maxCrashes
    BY DEF OkfInv, JobsOK
<1> QED
    BY <1>1, <1>3, <1>4, <1>5, <1>6 DEF TypeOK

LEMMA AlwaysFits == Spec => []OkfInv
<1>1. OkfInv /\ [Next]_vars => OkfInv'
    BY NextFits
<1> QED
    BY <1>1, InitFits, PTL DEF Spec

\* The state is of its types, whatever users call, in what order the steps of
\* their calls interleave, and wherever the process dies: a call or a run that
\* writes a row has a row to write, a job under way is in the queue.
THEOREM TypeCorrect == Spec => []TypeOK
<1> QED
    BY AlwaysFits, InvTypes, PTL

-----------------------------------------------------------------------------
(* The tree, whatever its rows.                                            *)

\* Folder k has the full path p, a node with this parent is in folder p, node k
\* is called m and is in folder p.
FolderAt(rs, k, p) ==
    /\ k \in DOMAIN rs /\ rs[k].there /\ rs[k].folder
    /\ Append(rs[k].path, rs[k].name) = p
ParentAt(rs, k, p) == IF k = Null THEN p = <<>> ELSE FolderAt(rs, k, p)
AtPlace(rs, k, p, m) == k \in DOMAIN rs /\ rs[k].there /\ rs[k].path = p /\ rs[k].name = m

NoFolder(rs, p) == \A k \in DOMAIN rs : ~FolderAt(rs, k, p)
NoNode(rs, p, m) == \A k \in DOMAIN rs : ~AtPlace(rs, k, p, m)
Chained(rs, p) == \A i \in 1 .. Len(p) : \E k \in DOMAIN rs : FolderAt(rs, k, SubSeq(p, 1, i))

Placed(rs, n) ==
    /\ ParentAt(rs, rs[n].parent, rs[n].path)
    /\ Chained(rs, rs[n].path)
    /\ \A k \in DOMAIN rs : AtPlace(rs, k, rs[n].path, rs[n].name) => k = n

LEMMA TreeMeaning ==
    ASSUME NEW rs
    PROVE  IsTree(rs) <=> \A n \in DOMAIN rs : rs[n].there => Placed(rs, n)
BY DEF IsTree, Placed, ParentAt, Chained, AtPlace, FolderAt

LEMMA PrefixMeaning ==
    ASSUME NEW p \in Paths, NEW q \in Paths
    PROVE  IsPrefix(p, q) <=> Len(p) <= Len(q) /\ \A i \in 1 .. Len(p) : p[i] = q[i]
BY CoversMeaning DEF Covers

LEMMA SubMeaning ==
    ASSUME NEW p \in Paths, NEW i \in 0 .. Len(p)
    PROVE  /\ SubSeq(p, 1, i) \in Paths /\ Len(SubSeq(p, 1, i)) = i
           /\ \A j \in 1 .. i : SubSeq(p, 1, i)[j] = p[j]
BY DEF Paths

LEMMA PathsEqual ==
    ASSUME NEW p \in Paths, NEW q \in Paths, Len(p) = Len(q), \A i \in 1 .. Len(p) : p[i] = q[i]
    PROVE  p = q
BY SeqEqual DEF Paths

LEMMA AppendMeaning ==
    ASSUME NEW p \in Paths, NEW m \in Names
    PROVE  /\ Append(p, m) \in Paths /\ Len(Append(p, m)) = Len(p) + 1 /\ Len(p) \in Nat
           /\ Append(p, m)[Len(p) + 1] = m
           /\ \A i \in 1 .. Len(p) : Append(p, m)[i] = p[i]
           /\ IsPrefix(p, Append(p, m))
           /\ Append(p, m) # <<>>
<1>1. /\ Append(p, m) \in Paths /\ Len(Append(p, m)) = Len(p) + 1 /\ Len(p) \in Nat
      /\ Append(p, m)[Len(p) + 1] = m
      /\ \A i \in 1 .. Len(p) : Append(p, m)[i] = p[i]
    BY AppendProperties, LenProperties DEF Paths
<1>2. IsPrefix(p, Append(p, m))
    <2>1. PICK q \in Paths : q = Append(p, m)
        BY <1>1
    <2>2. Len(p) <= Len(q) /\ \A i \in 1 .. Len(p) : p[i] = q[i]
        BY <1>1, <2>1
    <2> QED
        BY <2>1, <2>2, PrefixMeaning
<1>3. Append(p, m) # <<>>
    BY <1>1
<1> QED
    BY <1>1, <1>2, <1>3

LEMMA AppendsDiffer ==
    ASSUME NEW p \in Paths, NEW q \in Paths, NEW m \in Names, NEW k \in Names,
           Append(p, m) = Append(q, k)
    PROVE  p = q /\ m = k
<1>1. PICK r : r = Append(p, m)
    OBVIOUS
<1>2. Len(r) = Len(p) + 1 /\ r[Len(p) + 1] = m /\ Len(p) \in Nat
      /\ \A i \in 1 .. Len(p) : r[i] = p[i]
    BY <1>1, AppendMeaning
<1>3. Len(r) = Len(q) + 1 /\ r[Len(q) + 1] = k /\ Len(q) \in Nat
      /\ \A i \in 1 .. Len(q) : r[i] = q[i]
    BY <1>1, AppendMeaning
<1>4. Len(p) = Len(q) /\ m = k /\ \A i \in 1 .. Len(p) : p[i] = q[i]
    BY <1>2, <1>3
<1> QED
    BY <1>4, PathsEqual

LEMMA PrefixTransitive ==
    ASSUME NEW p \in Paths, NEW q \in Paths, NEW r \in Paths, IsPrefix(p, q), IsPrefix(q, r)
    PROVE  IsPrefix(p, r)
BY CoversTransitive DEF Covers

LEMMA PrefixesCompare ==
    ASSUME NEW p \in Paths, NEW q \in Paths, NEW r \in Paths, IsPrefix(p, r), IsPrefix(q, r)
    PROVE  IsPrefix(p, q) \/ IsPrefix(q, p)
BY PrefixesMeet DEF Covers, Meets

\* A prefix of a path is a prefix of the folder it is in, or it is the path.
LEMMA PrefixOfAppend ==
    ASSUME NEW p \in Paths, NEW q \in Paths, NEW m \in Names, IsPrefix(p, Append(q, m))
    PROVE  p = Append(q, m) \/ IsPrefix(p, q)
<1>1. /\ Append(q, m) \in Paths /\ Len(Append(q, m)) = Len(q) + 1 /\ Len(q) \in Nat /\ Len(p) \in Nat
      /\ \A i \in 1 .. Len(q) : Append(q, m)[i] = q[i]
    BY AppendMeaning DEF Paths
<1>2. Len(p) <= Len(q) + 1 /\ \A i \in 1 .. Len(p) : p[i] = Append(q, m)[i]
    BY <1>1, PrefixMeaning
<1>3. CASE Len(p) = Len(q) + 1
    BY <1>1, <1>2, <1>3, PathsEqual
<1>4. CASE Len(p) # Len(q) + 1
    <2>1. Len(p) <= Len(q)
        BY <1>1, <1>2, <1>4
    <2>2. \A i \in 1 .. Len(p) : p[i] = q[i]
        BY <1>1, <1>2, <2>1
    <2> QED
        BY <2>1, <2>2, PrefixMeaning
<1> QED
    BY <1>3, <1>4

\* The rows that lemmas on trees are about.
LEMMA RowMeaning ==
    ASSUME NEW rs, RowsOK(rs), NEW n \in DOMAIN rs
    PROVE  /\ rs[n] \in Row /\ n \in Nat /\ n # Null /\ n <= Len(rs) /\ Len(rs) \in Nat
           /\ DOMAIN rs = 1 .. Len(rs)
           /\ rs[n].path \in Paths /\ rs[n].name \in Names
           /\ rs[n].folder \in BOOLEAN /\ rs[n].there \in BOOLEAN /\ rs[n].parent \in Nat
           /\ Append(rs[n].path, rs[n].name) \in Paths
<1>1. rs \in Seq(Row)
    BY DEF RowsOK
<1>2. rs[n] \in Row /\ n \in Nat /\ n # 0 /\ n <= Len(rs) /\ Len(rs) \in Nat /\ DOMAIN rs = 1 .. Len(rs)
    BY <1>1
<1>3. rs[n].path \in Paths /\ rs[n].name \in Names
    BY <1>2, NamesOfFolders DEF Row, Paths
<1> QED
    BY <1>2, <1>3, AppendMeaning DEF Row, Null

LEMMA NoNodeNoFolder ==
    ASSUME NEW rs, RowsOK(rs), NEW p \in Paths, NEW m \in Names, NoNode(rs, p, m)
    PROVE  NoFolder(rs, Append(p, m))
<1> SUFFICES ASSUME NEW k \in DOMAIN rs, FolderAt(rs, k, Append(p, m)) PROVE FALSE
    BY DEF NoFolder
<1>1. rs[k].path = p /\ rs[k].name = m
    BY RowMeaning, AppendsDiffer DEF FolderAt
<1> QED
    BY <1>1 DEF NoNode, AtPlace, FolderAt

\* Below what is not a folder there is nothing.
LEMMA NothingBelow ==
    ASSUME NEW rs, RowsOK(rs), IsTree(rs), NEW q \in Paths, q # <<>>, NoFolder(rs, q),
           NEW n \in DOMAIN rs, rs[n].there
    PROVE  ~IsPrefix(q, rs[n].path)
<1> SUFFICES ASSUME IsPrefix(q, rs[n].path) PROVE FALSE
    OBVIOUS
<1>1. rs[n].path \in Paths /\ Len(q) \in Nat /\ Len(rs[n].path) \in Nat
    BY RowMeaning DEF Paths
<1>2. Len(q) \in 1 .. Len(rs[n].path)
    <2>1. Len(q) # 0
        BY DEF Paths
    <2> QED
        BY <1>1, <2>1, PrefixMeaning
<1>3. SubSeq(rs[n].path, 1, Len(q)) = q
    <2>1. \A i \in 1 .. Len(q) : q[i] = rs[n].path[i]
        BY <1>1, PrefixMeaning
    <2>2. /\ SubSeq(rs[n].path, 1, Len(q)) \in Paths /\ Len(SubSeq(rs[n].path, 1, Len(q))) = Len(q)
          /\ \A j \in 1 .. Len(q) : SubSeq(rs[n].path, 1, Len(q))[j] = rs[n].path[j]
        BY <1>1, <1>2, SubMeaning
    <2> QED
        BY <2>1, <2>2, PathsEqual
<1>4. \E k \in DOMAIN rs : FolderAt(rs, k, SubSeq(rs[n].path, 1, Len(q)))
    BY <1>2, TreeMeaning DEF Placed, Chained
<1> QED
    BY <1>3, <1>4 DEF NoFolder

\* Where there is a folder, there are those above it.
LEMMA ParentChains ==
    ASSUME NEW rs, RowsOK(rs), IsTree(rs), NEW k, NEW p \in Paths, ParentAt(rs, k, p)
    PROVE  Chained(rs, p)
<1>1. CASE k = Null
    BY <1>1 DEF ParentAt, Chained
<1>2. CASE k # Null
    <2>1. FolderAt(rs, k, p)
        BY <1>2 DEF ParentAt
    <2>2. /\ k \in DOMAIN rs /\ rs[k].there /\ rs[k].path \in Paths /\ rs[k].name \in Names
          /\ p = Append(rs[k].path, rs[k].name)
        BY <2>1, RowMeaning DEF FolderAt
    <2>3. Len(p) = Len(rs[k].path) + 1 /\ Len(rs[k].path) \in Nat
          /\ \A j \in 1 .. Len(rs[k].path) : p[j] = rs[k].path[j]
        BY <2>2, AppendMeaning
    <2>4. ASSUME NEW i \in 1 .. Len(p) PROVE \E j \in DOMAIN rs : FolderAt(rs, j, SubSeq(p, 1, i))
        <3>1. CASE i = Len(p)
            <4>1. SubSeq(p, 1, i) = p
                <5>1. i \in 0 .. Len(p)
                    BY <2>3, <3>1
                <5>2. /\ SubSeq(p, 1, i) \in Paths /\ Len(SubSeq(p, 1, i)) = i
                      /\ \A j \in 1 .. i : SubSeq(p, 1, i)[j] = p[j]
                    BY <5>1, SubMeaning
                <5> QED
                    BY <3>1, <5>2, PathsEqual
            <4> QED
                BY <2>1, <2>2, <4>1
        <3>2. CASE i # Len(p)
            <4>1. i \in 1 .. Len(rs[k].path) /\ i \in 0 .. Len(p) /\ i \in 0 .. Len(rs[k].path)
                BY <2>3, <3>2
            <4>2. SubSeq(p, 1, i) = SubSeq(rs[k].path, 1, i)
                <5>1. /\ SubSeq(p, 1, i) \in Paths /\ Len(SubSeq(p, 1, i)) = i
                      /\ \A j \in 1 .. i : SubSeq(p, 1, i)[j] = p[j]
                    BY <4>1, SubMeaning
                <5>2. /\ SubSeq(rs[k].path, 1, i) \in Paths /\ Len(SubSeq(rs[k].path, 1, i)) = i
                      /\ \A j \in 1 .. i : SubSeq(rs[k].path, 1, i)[j] = rs[k].path[j]
                    BY <2>2, <4>1, SubMeaning
                <5>3. \A j \in 1 .. i : p[j] = rs[k].path[j]
                    BY <2>3, <4>1
                <5> QED
                    BY <5>1, <5>2, <5>3, PathsEqual
            <4>3. Chained(rs, rs[k].path)
                BY <2>2, TreeMeaning DEF Placed
            <4> QED
                BY <4>1, <4>2, <4>3 DEF Chained
        <3> QED
            BY <3>1, <3>2
    <2> QED
        BY <2>4 DEF Chained
<1> QED
    BY <1>1, <1>2

\* Two rows are the same but for what is written in them.
SameRow(x, y) ==
    /\ x.there = y.there /\ x.parent = y.parent /\ x.path = y.path
    /\ x.name = y.name /\ x.folder = y.folder

SameShape(rs, rt) == DOMAIN rt = DOMAIN rs /\ \A n \in DOMAIN rs : SameRow(rs[n], rt[n])

\* Row i, which was not a folder, is written or inserted, and no other.
PutAt(rs, rt, i) ==
    /\ DOMAIN rs \subseteq DOMAIN rt
    /\ \A n \in DOMAIN rs : n # i => SameRow(rs[n], rt[n])
    /\ \A n \in DOMAIN rt : n \in DOMAIN rs \/ n = i
    /\ i \in DOMAIN rs => ~(rs[i].there /\ rs[i].folder)

LEMMA PutKeepsFolders ==
    ASSUME NEW rs, NEW rt, NEW i, PutAt(rs, rt, i)
    PROVE  /\ \A k, p : FolderAt(rs, k, p) => FolderAt(rt, k, p)
           /\ \A k, p : ParentAt(rs, k, p) => ParentAt(rt, k, p)
           /\ \A p : Chained(rs, p) => Chained(rt, p)
<1>1. ASSUME NEW k, NEW p, FolderAt(rs, k, p) PROVE FolderAt(rt, k, p)
    <2>1. k # i /\ k \in DOMAIN rs
        BY <1>1 DEF FolderAt, PutAt
    <2> QED
        BY <1>1, <2>1 DEF FolderAt, PutAt, SameRow
<1>2. DOMAIN rs \subseteq DOMAIN rt
    BY DEF PutAt
<1> QED
    BY <1>1, <1>2 DEF ParentAt, Chained

\* A row at a free place of a folder leaves a tree, and so does one that is gone.
LEMMA PutNode ==
    ASSUME NEW rs, NEW rt, NEW i, RowsOK(rs), RowsOK(rt), IsTree(rs), PutAt(rs, rt, i),
           i \in DOMAIN rt /\ rt[i].there =>
               /\ ParentAt(rs, rt[i].parent, rt[i].path)
               /\ \A k \in DOMAIN rs : AtPlace(rs, k, rt[i].path, rt[i].name) => k = i
    PROVE  IsTree(rt)
<1> SUFFICES ASSUME NEW n \in DOMAIN rt, rt[n].there PROVE Placed(rt, n)
    BY TreeMeaning
<1>1. CASE n = i
    <2>1. ParentAt(rs, rt[n].parent, rt[n].path) /\ rt[n].path \in Paths
        BY <1>1, RowMeaning
    <2>2. Chained(rs, rt[n].path)
        BY <2>1, ParentChains
    <2>3. ASSUME NEW k \in DOMAIN rt, AtPlace(rt, k, rt[n].path, rt[n].name), k # n
          PROVE  FALSE
        <3>1. k \in DOMAIN rs /\ SameRow(rs[k], rt[k])
            BY <1>1, <2>3 DEF PutAt
        <3>2. AtPlace(rs, k, rt[n].path, rt[n].name)
            BY <2>3, <3>1 DEF AtPlace, SameRow
        <3> QED
            BY <1>1, <2>3, <3>1, <3>2
    <2> QED
        BY <2>1, <2>2, <2>3, PutKeepsFolders DEF Placed
<1>2. CASE n # i
    <2>1. n \in DOMAIN rs /\ SameRow(rs[n], rt[n])
        BY <1>2 DEF PutAt
    <2>2. /\ rs[n].there /\ rt[n].parent = rs[n].parent /\ rt[n].path = rs[n].path
          /\ rt[n].name = rs[n].name
        BY <2>1 DEF SameRow
    <2>3. Placed(rs, n)
        BY <2>1, <2>2, TreeMeaning
    <2>4. ParentAt(rt, rt[n].parent, rt[n].path) /\ Chained(rt, rt[n].path)
        BY <2>2, <2>3, PutKeepsFolders DEF Placed
    <2>5. ASSUME NEW k \in DOMAIN rt, AtPlace(rt, k, rt[n].path, rt[n].name), k # n
          PROVE  FALSE
        <3>1. CASE k = i
            <4>1. AtPlace(rs, n, rt[i].path, rt[i].name)
                BY <2>1, <2>2, <2>5, <3>1 DEF AtPlace
            <4>2. rt[i].there
                BY <2>5, <3>1 DEF AtPlace
            <4> QED
                BY <1>2, <2>1, <3>1, <4>1, <4>2
        <3>2. CASE k # i
            <4>1. k \in DOMAIN rs /\ SameRow(rs[k], rt[k])
                BY <2>5, <3>2 DEF PutAt
            <4>2. AtPlace(rs, k, rs[n].path, rs[n].name)
                BY <2>2, <2>5, <4>1 DEF AtPlace, SameRow
            <4> QED
                BY <2>3, <2>5, <4>1, <4>2 DEF Placed
        <3> QED
            BY <3>1, <3>2
    <2> QED
        BY <2>4, <2>5 DEF Placed
<1> QED
    BY <1>1, <1>2

\* What is written in a row does not move it.
LEMMA ShapeFolders ==
    ASSUME NEW rs, NEW rt, SameShape(rs, rt)
    PROVE  /\ \A k, p : FolderAt(rs, k, p) <=> FolderAt(rt, k, p)
           /\ \A k, p : ParentAt(rs, k, p) <=> ParentAt(rt, k, p)
           /\ \A k, p, m : AtPlace(rs, k, p, m) <=> AtPlace(rt, k, p, m)
           /\ \A p : Chained(rs, p) <=> Chained(rt, p)
           /\ \A p : NoFolder(rs, p) <=> NoFolder(rt, p)
           /\ \A p, m : NoNode(rs, p, m) <=> NoNode(rt, p, m)
<1>1. \A k, p : FolderAt(rs, k, p) <=> FolderAt(rt, k, p)
    BY DEF SameShape, SameRow, FolderAt
<1>2. \A k, p, m : AtPlace(rs, k, p, m) <=> AtPlace(rt, k, p, m)
    BY DEF SameShape, SameRow, AtPlace
<1>3. DOMAIN rs = DOMAIN rt
    BY DEF SameShape
<1> QED
    BY <1>1, <1>2, <1>3 DEF ParentAt, Chained, NoFolder, NoNode

LEMMA ShapeTree ==
    ASSUME NEW rs, NEW rt, SameShape(rs, rt), IsTree(rs)
    PROVE  IsTree(rt)
<1> SUFFICES ASSUME NEW n \in DOMAIN rt, rt[n].there PROVE Placed(rt, n)
    BY TreeMeaning
<1>1. /\ n \in DOMAIN rs /\ rs[n].there /\ rt[n].parent = rs[n].parent /\ rt[n].path = rs[n].path
      /\ rt[n].name = rs[n].name /\ DOMAIN rs = DOMAIN rt
    BY DEF SameShape, SameRow
<1>2. Placed(rs, n)
    BY <1>1, TreeMeaning
<1> QED
    BY <1>1, <1>2, ShapeFolders DEF Placed

Full(rs, n) == Append(rs[n].path, rs[n].name)
Under(rs, n) == {k \in DOMAIN rs : rs[k].there /\ IsPrefix(Full(rs, n), rs[k].path)}

\* A node goes with everything below it.
LEMMA RemoveNodes ==
    ASSUME NEW rs, NEW rt, NEW i \in DOMAIN rs, RowsOK(rs), IsTree(rs), rs[i].there,
           DOMAIN rt = DOMAIN rs,
           \A n \in {i} \cup Under(rs, i) : ~rt[n].there,
           \A n \in DOMAIN rs \ ({i} \cup Under(rs, i)) : SameRow(rs[n], rt[n])
    PROVE  IsTree(rt)
<1>1. Full(rs, i) \in Paths /\ Full(rs, i) # <<>>
    BY RowMeaning, AppendMeaning DEF Full
\* Folders stay that are not removed, as those above what stays.
<1>2. ASSUME NEW k, NEW p \in Paths, FolderAt(rs, k, p), ~IsPrefix(Full(rs, i), p)
      PROVE  FolderAt(rt, k, p)
    <2>1. /\ k \in DOMAIN rs /\ rs[k].there /\ p = Append(rs[k].path, rs[k].name)
          /\ rs[k].path \in Paths /\ rs[k].name \in Names
        BY <1>2, RowMeaning DEF FolderAt
    <2>2. IsPrefix(rs[k].path, p)
        BY <2>1, AppendMeaning
    <2>3. k \notin Under(rs, i)
        BY <1>1, <1>2, <2>1, <2>2, PrefixTransitive DEF Under
    <2>4. k # i
        <3>1. IsPrefix(p, p)
            BY PrefixMeaning DEF Paths
        <3> QED
            BY <1>2, <2>1, <3>1 DEF Full
    <2>5. SameRow(rs[k], rt[k])
        BY <2>1, <2>3, <2>4
    <2> QED
        BY <1>2, <2>5 DEF FolderAt, SameRow
<1> SUFFICES ASSUME NEW n \in DOMAIN rt, rt[n].there PROVE Placed(rt, n)
    BY TreeMeaning
<1>3. n \in DOMAIN rs /\ n # i /\ n \notin Under(rs, i)
    OBVIOUS
<1>4. SameRow(rs[n], rt[n])
    BY <1>3
<1>5. /\ rs[n].there /\ rt[n].parent = rs[n].parent /\ rt[n].path = rs[n].path
      /\ rt[n].name = rs[n].name
    BY <1>4 DEF SameRow
<1>6. Placed(rs, n) /\ rs[n].path \in Paths
    BY <1>3, <1>5, TreeMeaning, RowMeaning
<1>7. ~IsPrefix(Full(rs, i), rs[n].path)
    BY <1>3, <1>5 DEF Under
<1>8. ParentAt(rt, rt[n].parent, rt[n].path)
    BY <1>2, <1>5, <1>6, <1>7 DEF ParentAt, Placed
<1>9. ASSUME NEW j \in 1 .. Len(rs[n].path)
      PROVE  \E k \in DOMAIN rt : FolderAt(rt, k, SubSeq(rs[n].path, 1, j))
    <2>1. PICK q : q = SubSeq(rs[n].path, 1, j)
        OBVIOUS
    <2>2. j \in 0 .. Len(rs[n].path) /\ Len(rs[n].path) \in Nat
        BY <1>6 DEF Paths
    <2>3. q \in Paths /\ Len(q) = j /\ \A l \in 1 .. j : q[l] = rs[n].path[l]
        BY <1>6, <2>1, <2>2, SubMeaning
    <2>4. IsPrefix(q, rs[n].path)
        BY <1>6, <2>2, <2>3, PrefixMeaning
    <2>5. ~IsPrefix(Full(rs, i), q)
        BY <1>1, <1>6, <1>7, <2>3, <2>4, PrefixTransitive
    <2>6. PICK k \in DOMAIN rs : FolderAt(rs, k, q)
        BY <1>6, <2>1 DEF Placed, Chained
    <2> QED
        BY <1>2, <2>1, <2>3, <2>5, <2>6
<1>10. ASSUME NEW k \in DOMAIN rt, AtPlace(rt, k, rt[n].path, rt[n].name)
       PROVE  k = n
    <2>1. k \in DOMAIN rs /\ rt[k].there
        BY <1>10 DEF AtPlace
    <2>2. k # i /\ k \notin Under(rs, i)
        BY <2>1
    <2>3. SameRow(rs[k], rt[k])
        BY <2>1, <2>2
    <2>4. AtPlace(rs, k, rs[n].path, rs[n].name)
        BY <1>5, <1>10, <2>1, <2>3 DEF AtPlace, SameRow
    <2> QED
        BY <1>6, <2>1, <2>4 DEF Placed
<1> QED
    BY <1>5, <1>8, <1>9, <1>10 DEF Placed, Chained

\* Where path p is when what was below from is below new.
Moved(from, new, p) ==
    IF IsPrefix(from, p) THEN new \o SubSeq(p, Len(from) + 1, Len(p)) ELSE p

LEMMA MovedMeaning ==
    ASSUME NEW from \in Paths, NEW new \in Paths, NEW p \in Paths, IsPrefix(from, p)
    PROVE  /\ Moved(from, new, p) \in Paths
           /\ Len(Moved(from, new, p)) = Len(new) + (Len(p) - Len(from)) /\ Len(from) <= Len(p)
           /\ Len(p) \in Nat /\ Len(from) \in Nat /\ Len(new) \in Nat
           /\ Len(Moved(from, new, p)) \in Nat
           /\ \A j \in (Len(new) + 1) .. Len(Moved(from, new, p)) :
                Moved(from, new, p)[j] = p[(j - Len(new)) + Len(from)]
           /\ IsPrefix(new, Moved(from, new, p))
<1>0. PICK q : q = Moved(from, new, p)
    OBVIOUS
<1>1. Len(p) \in Nat /\ Len(from) \in Nat /\ Len(new) \in Nat /\ Len(from) <= Len(p)
    BY PrefixMeaning DEF Paths
<1>2. PICK s : s = SubSeq(p, Len(from) + 1, Len(p))
    OBVIOUS
<1>3. /\ s \in Paths /\ Len(s) = Len(p) - Len(from)
      /\ \A j \in 1 .. Len(s) : s[j] = p[j + Len(from)]
    BY <1>1, <1>2 DEF Paths
<1>4. q = new \o s
    BY <1>0, <1>2 DEF Moved
<1>5. /\ q \in Paths /\ Len(q) = Len(new) + Len(s)
      /\ \A j \in 1 .. Len(q) : q[j] = IF j <= Len(new) THEN new[j] ELSE s[j - Len(new)]
    <2>1. new \in Seq(Names) /\ s \in Seq(Names)
        BY <1>3 DEF Paths
    <2>2. /\ new \o s \in Seq(Names) /\ Len(new \o s) = Len(new) + Len(s)
          /\ \A j \in 1 .. Len(new) + Len(s) :
               (new \o s)[j] = IF j <= Len(new) THEN new[j] ELSE s[j - Len(new)]
        BY <2>1, ConcatProperties
    <2> QED
        BY <1>4, <2>2 DEF Paths
<1>6. \A j \in 1 .. Len(new) : q[j] = new[j]
    BY <1>1, <1>3, <1>5
<1>7. ASSUME NEW j \in (Len(new) + 1) .. Len(q) PROVE q[j] = p[(j - Len(new)) + Len(from)]
    <2>1. j \in 1 .. Len(q) /\ ~(j <= Len(new)) /\ (j - Len(new)) \in 1 .. Len(s)
        BY <1>1, <1>3, <1>5
    <2> QED
        BY <1>3, <1>5, <2>1
<1>8. IsPrefix(new, q)
    <2>1. Len(new) <= Len(q)
        BY <1>1, <1>3, <1>5
    <2> QED
        BY <1>5, <1>6, <2>1, PrefixMeaning
<1>9. Len(q) \in Nat /\ Len(q) = Len(new) + (Len(p) - Len(from))
    BY <1>1, <1>3, <1>5
<1> QED
    BY <1>0, <1>1, <1>5, <1>6, <1>7, <1>8, <1>9

\* A node in a folder that moves, or of a place that does not, keeps its name.
LEMMA MovedAppend ==
    ASSUME NEW from \in Paths, NEW new \in Paths, NEW p \in Paths, NEW m \in Names,
           Append(p, m) # from
    PROVE  Moved(from, new, Append(p, m)) = Append(Moved(from, new, p), m)
<1>1. PICK r \in Paths : r = Append(p, m)
    BY AppendMeaning
<1>2. /\ Len(r) = Len(p) + 1 /\ Len(p) \in Nat /\ r[Len(p) + 1] = m
      /\ (\A j \in 1 .. Len(p) : r[j] = p[j]) /\ IsPrefix(p, r)
    BY <1>1, AppendMeaning
<1>3. CASE ~IsPrefix(from, p)
    <2>1. ~IsPrefix(from, r)
        BY <1>1, <1>3, PrefixOfAppend
    <2> QED
        BY <1>1, <1>3, <2>1 DEF Moved
<1>4. CASE IsPrefix(from, p)
    <2>1. IsPrefix(from, r)
        BY <1>2, <1>4, PrefixTransitive
    <2>2. PICK q : q = Moved(from, new, p)
        OBVIOUS
    <2>3. /\ q \in Paths /\ Len(q) = Len(new) + (Len(p) - Len(from)) /\ Len(from) <= Len(p)
          /\ Len(from) \in Nat /\ Len(new) \in Nat /\ Len(q) \in Nat
          /\ \A j \in 1 .. Len(new) : q[j] = new[j]
          /\ \A j \in (Len(new) + 1) .. Len(q) : q[j] = p[(j - Len(new)) + Len(from)]
        <3>1. q \in Paths /\ Len(q) = Len(new) + (Len(p) - Len(from)) /\ Len(from) <= Len(p)
            BY <1>4, <2>2, MovedMeaning
        <3>2. Len(from) \in Nat /\ Len(new) \in Nat /\ Len(q) \in Nat
            BY <1>4, <2>2, MovedMeaning
        <3>3. \A j \in 1 .. Len(new) : q[j] = new[j]
            <4>1. IsPrefix(new, q)
                BY <1>4, <2>2, MovedMeaning
            <4> QED
                BY <3>1, <4>1, PrefixMeaning
        <3>4. \A j \in (Len(new) + 1) .. Len(q) : q[j] = p[(j - Len(new)) + Len(from)]
            BY <1>4, <2>2, MovedMeaning
        <3> QED
            BY <3>1, <3>2, <3>3, <3>4
    <2>4. PICK t : t = Moved(from, new, r)
        OBVIOUS
    <2>5. /\ t \in Paths /\ Len(t) = Len(new) + (Len(r) - Len(from)) /\ Len(t) \in Nat
          /\ \A j \in 1 .. Len(new) : t[j] = new[j]
          /\ \A j \in (Len(new) + 1) .. Len(t) : t[j] = r[(j - Len(new)) + Len(from)]
        <3>1. t \in Paths /\ Len(t) = Len(new) + (Len(r) - Len(from)) /\ Len(t) \in Nat
            BY <2>1, <2>4, MovedMeaning
        <3>2. \A j \in 1 .. Len(new) : t[j] = new[j]
            <4>1. IsPrefix(new, t)
                BY <2>1, <2>4, MovedMeaning
            <4> QED
                BY <3>1, <4>1, PrefixMeaning
        <3>3. \A j \in (Len(new) + 1) .. Len(t) : t[j] = r[(j - Len(new)) + Len(from)]
            BY <2>1, <2>4, MovedMeaning
        <3> QED
            BY <3>1, <3>2, <3>3
    <2>6. PICK u \in Paths : u = Append(q, m)
        BY <2>3, AppendMeaning
    <2>7. Len(u) = Len(q) + 1 /\ u[Len(q) + 1] = m /\ \A j \in 1 .. Len(q) : u[j] = q[j]
        BY <2>3, <2>6, AppendMeaning
    <2>8. Len(t) = Len(u)
        BY <1>2, <2>3, <2>5, <2>7
    <2>9. ASSUME NEW j \in 1 .. Len(t) PROVE t[j] = u[j]
        <3>1. CASE j \in 1 .. Len(new)
            BY <2>3, <2>5, <2>7, <3>1
        <3>2. CASE j \in (Len(new) + 1) .. Len(q)
            <4>1. (j - Len(new)) + Len(from) \in 1 .. Len(p)
                BY <1>2, <2>3, <3>2
            <4>2. j \in (Len(new) + 1) .. Len(t) /\ j \in 1 .. Len(q)
                BY <1>2, <2>3, <2>5, <3>2
            <4> QED
                BY <1>2, <2>3, <2>5, <2>7, <3>2, <4>1, <4>2
        <3>3. CASE j = Len(q) + 1
            <4>1. (j - Len(new)) + Len(from) = Len(p) + 1 /\ j \in (Len(new) + 1) .. Len(t)
                BY <1>2, <2>3, <2>5, <3>3
            <4>2. t[j] = r[(j - Len(new)) + Len(from)]
                BY <2>5, <4>1
            <4>3. t[j] = m
                BY <1>2, <4>1, <4>2
            <4> QED
                BY <2>7, <3>3, <4>3
        <3> QED
            BY <2>3, <2>7, <2>8, <2>9, <3>1, <3>2, <3>3
    <2>10. t = u
        BY <2>5, <2>6, <2>8, <2>9, PathsEqual
    <2> QED
        BY <1>1, <2>2, <2>4, <2>6, <2>10
<1> QED
    BY <1>3, <1>4

\* Places that are not at or below the new one stay apart.
LEMMA MovedApart ==
    ASSUME NEW from \in Paths, NEW new \in Paths, NEW p \in Paths, NEW q \in Paths,
           ~IsPrefix(new, p), ~IsPrefix(new, q), Moved(from, new, p) = Moved(from, new, q)
    PROVE  p = q
<1>1. CASE ~IsPrefix(from, p) /\ ~IsPrefix(from, q)
    BY <1>1 DEF Moved
<1>2. CASE ~IsPrefix(from, p) /\ IsPrefix(from, q)
    <2>1. Moved(from, new, p) = p
        BY <1>2 DEF Moved
    <2>2. IsPrefix(new, Moved(from, new, q))
        BY <1>2, MovedMeaning
    <2> QED
        BY <2>1, <2>2
<1>3. CASE IsPrefix(from, p) /\ ~IsPrefix(from, q)
    <2>1. Moved(from, new, q) = q
        BY <1>3 DEF Moved
    <2>2. IsPrefix(new, q)
        BY <1>3, <2>1, MovedMeaning
    <2> QED
        BY <2>2
<1>4. CASE IsPrefix(from, p) /\ IsPrefix(from, q)
    <2>1. PICK t : t = Moved(from, new, p)
        OBVIOUS
    <2>2. /\ Len(t) = Len(new) + (Len(p) - Len(from)) /\ Len(from) <= Len(p)
          /\ Len(p) \in Nat /\ Len(from) \in Nat /\ Len(new) \in Nat
          /\ \A j \in (Len(new) + 1) .. Len(t) : t[j] = p[(j - Len(new)) + Len(from)]
        BY <1>4, <2>1, MovedMeaning
    <2>3. /\ Len(t) = Len(new) + (Len(q) - Len(from)) /\ Len(from) <= Len(q) /\ Len(q) \in Nat
          /\ \A j \in (Len(new) + 1) .. Len(t) : t[j] = q[(j - Len(new)) + Len(from)]
        <3>1. t = Moved(from, new, q)
            BY <2>1
        <3>2. IsPrefix(from, q)
            BY <1>4
        <3> HIDE <2>1
        <3> QED
            BY <3>1, <3>2, MovedMeaning
    <2>4. Len(p) = Len(q)
        BY <2>2, <2>3
    <2>5. ASSUME NEW j \in 1 .. Len(p) PROVE p[j] = q[j]
        <3>1. CASE j <= Len(from)
            <4>1. p[j] = from[j] /\ q[j] = from[j]
                BY <1>4, <2>2, <2>5, <3>1, PrefixMeaning
            <4> QED
                BY <4>1
        <3>2. CASE ~(j <= Len(from))
            <4>1. PICK k : k = (j - Len(from)) + Len(new)
                OBVIOUS
            <4>2. k \in (Len(new) + 1) .. Len(t) /\ (k - Len(new)) + Len(from) = j
                BY <2>2, <2>5, <3>2, <4>1
            <4> QED
                BY <2>2, <2>3, <4>2
        <3> QED
            BY <3>1, <3>2
    <2> QED
        BY <2>4, <2>5, PathsEqual
<1> QED
    BY <1>1, <1>2, <1>3, <1>4

\* A prefix of what is not below a folder is not below it, nor is it moved.
LEMMA MovedPrefix ==
    ASSUME NEW from \in Paths, NEW new \in Paths, NEW p \in Paths, ~IsPrefix(from, p),
           NEW q \in Paths, IsPrefix(q, p)
    PROVE  Moved(from, new, q) = q
<1>1. ~IsPrefix(from, q)
    BY PrefixTransitive
<1> QED
    BY <1>1 DEF Moved

\* A prefix of a path that moves moves with it, if it is not above the folder.
LEMMA MovedSub ==
    ASSUME NEW from \in Paths, NEW new \in Paths, NEW p \in Paths, IsPrefix(from, p),
           NEW j \in Nat, Len(new) <= j, j <= Len(Moved(from, new, p)),
           NEW k \in Int, k = (j - Len(new)) + Len(from)
    PROVE  /\ k \in 0 .. Len(p)
           /\ SubSeq(Moved(from, new, p), 1, j) = Moved(from, new, SubSeq(p, 1, k))
<1>1. PICK q : q = Moved(from, new, p)
    OBVIOUS
<1>2. /\ q \in Paths /\ Len(q) = Len(new) + (Len(p) - Len(from)) /\ Len(from) <= Len(p)
      /\ Len(p) \in Nat /\ Len(from) \in Nat /\ Len(new) \in Nat /\ Len(q) \in Nat
      /\ \A i \in (Len(new) + 1) .. Len(q) : q[i] = p[(i - Len(new)) + Len(from)]
      /\ IsPrefix(new, q)
    BY <1>1, MovedMeaning
<1>3. k \in 0 .. Len(p) /\ k \in Nat /\ j \in 0 .. Len(q) /\ Len(from) <= k
    BY <1>1, <1>2
<1>4. PICK r : r = SubSeq(p, 1, k)
    OBVIOUS
<1>5. r \in Paths /\ Len(r) = k /\ \A i \in 1 .. k : r[i] = p[i]
    BY <1>3, <1>4, SubMeaning
<1>6. PICK s : s = SubSeq(q, 1, j)
    OBVIOUS
<1>7. s \in Paths /\ Len(s) = j /\ \A i \in 1 .. j : s[i] = q[i]
    BY <1>2, <1>3, <1>6, SubMeaning
<1>8. IsPrefix(from, r)
    <2>1. \A i \in 1 .. Len(from) : from[i] = p[i]
        BY PrefixMeaning
    <2>2. \A i \in 1 .. Len(from) : from[i] = r[i]
        BY <1>2, <1>3, <1>5, <2>1
    <2> QED
        BY <1>3, <1>5, <2>2, PrefixMeaning
<1>9. PICK t : t = Moved(from, new, r)
    OBVIOUS
<1>10. /\ t \in Paths /\ Len(t) = Len(new) + (Len(r) - Len(from)) /\ Len(t) \in Nat
       /\ \A i \in (Len(new) + 1) .. Len(t) : t[i] = r[(i - Len(new)) + Len(from)]
       /\ IsPrefix(new, t)
    BY <1>5, <1>8, <1>9, MovedMeaning
<1>11. Len(t) = j
    BY <1>2, <1>3, <1>5, <1>10
<1>12. ASSUME NEW i \in 1 .. Len(s) PROVE s[i] = t[i]
    <2>1. CASE i \in 1 .. Len(new)
        <3>1. q[i] = new[i] /\ t[i] = new[i]
            BY <1>2, <1>10, <2>1, PrefixMeaning
        <3> QED
            BY <1>7, <1>12, <3>1
    <2>2. CASE i \in (Len(new) + 1) .. j
        <3>1. PICK l : l = (i - Len(new)) + Len(from)
            OBVIOUS
        <3>2. l \in 1 .. k /\ i \in (Len(new) + 1) .. Len(q) /\ i \in (Len(new) + 1) .. Len(t)
            BY <1>1, <1>2, <1>3, <1>11, <2>2, <3>1
        <3>3. q[i] = p[l] /\ t[i] = r[l]
            BY <1>2, <1>10, <3>1, <3>2
        <3> QED
            BY <1>5, <1>7, <1>12, <3>2, <3>3
    <2> QED
        BY <1>2, <1>7, <1>12, <2>1, <2>2
<1>13. s = t
    BY <1>7, <1>10, <1>11, <1>12, PathsEqual
<1> QED
    BY <1>1, <1>3, <1>4, <1>6, <1>9, <1>13

\* A full path says where a node is.
LEMMA FullMeaning ==
    ASSUME NEW rs, RowsOK(rs), NEW n \in DOMAIN rs
    PROVE  /\ rs[n].path \in Paths /\ rs[n].name \in Names /\ Full(rs, n) \in Paths
           /\ Full(rs, n) # <<>> /\ IsPrefix(rs[n].path, Full(rs, n))
           /\ Len(Full(rs, n)) = Len(rs[n].path) + 1 /\ Len(rs[n].path) \in Nat
           /\ \A q \in Paths, k \in Names :
                Full(rs, n) = Append(q, k) => rs[n].path = q /\ rs[n].name = k
           /\ \A q \in Paths : IsPrefix(q, Full(rs, n)) => q = Full(rs, n) \/ IsPrefix(q, rs[n].path)
           /\ \A from, new \in Paths : Full(rs, n) # from =>
                Moved(from, new, Full(rs, n)) = Append(Moved(from, new, rs[n].path), rs[n].name)
<1>1. rs[n].path \in Paths /\ rs[n].name \in Names
    BY RowMeaning
<1>2. PICK p \in Paths, m \in Names : p = rs[n].path /\ m = rs[n].name
    BY <1>1
<1>3. Full(rs, n) = Append(p, m)
    BY <1>2 DEF Full
<1>4. \A q \in Paths, k \in Names : Full(rs, n) = Append(q, k) => p = q /\ m = k
    BY <1>3, AppendsDiffer
<1>5. \A q \in Paths : IsPrefix(q, Full(rs, n)) => q = Full(rs, n) \/ IsPrefix(q, p)
    BY <1>3, PrefixOfAppend
<1>6. \A from, new \in Paths : Full(rs, n) # from =>
         Moved(from, new, Full(rs, n)) = Append(Moved(from, new, p), m)
    BY <1>3, MovedAppend
<1>7. /\ Full(rs, n) \in Paths /\ Len(Full(rs, n)) = Len(p) + 1 /\ Len(p) \in Nat
      /\ IsPrefix(p, Full(rs, n)) /\ Full(rs, n) # <<>>
    BY <1>3, AppendMeaning
<1>8. /\ IsPrefix(rs[n].path, Full(rs, n))
      /\ Len(Full(rs, n)) = Len(rs[n].path) + 1 /\ Len(rs[n].path) \in Nat
    BY <1>2, <1>7
<1>9. \A q \in Paths, k \in Names :
         Full(rs, n) = Append(q, k) => rs[n].path = q /\ rs[n].name = k
    BY <1>2, <1>4
<1>10. \A q \in Paths : IsPrefix(q, Full(rs, n)) => q = Full(rs, n) \/ IsPrefix(q, rs[n].path)
    BY <1>2, <1>5
<1>11. \A from, new \in Paths : Full(rs, n) # from =>
         Moved(from, new, Full(rs, n)) = Append(Moved(from, new, rs[n].path), rs[n].name)
    BY <1>2, <1>6
<1> QED
    BY <1>1, <1>7, <1>8, <1>9, <1>10, <1>11

LEMMA FullsDiffer ==
    ASSUME NEW rs, RowsOK(rs), NEW n \in DOMAIN rs, NEW rt, RowsOK(rt), NEW k \in DOMAIN rt,
           Full(rs, n) = Full(rt, k)
    PROVE  rs[n].path = rt[k].path /\ rs[n].name = rt[k].name
<1>1. PICK p \in Paths, m \in Names : p = rt[k].path /\ m = rt[k].name
    BY RowMeaning
<1>2. PICK q \in Paths, l \in Names : q = rs[n].path /\ l = rs[n].name
    BY RowMeaning
<1>3. Append(q, l) = Append(p, m)
    BY <1>1, <1>2 DEF Full
<1>4. q = p /\ l = m
    BY <1>3, AppendsDiffer
<1> QED
    BY <1>1, <1>2, <1>4

\* A folder that moves to a free place outside itself takes along what is below.
LEMMA MoveFolder ==
    ASSUME NEW rs, NEW rt, NEW i \in DOMAIN rs, RowsOK(rs), RowsOK(rt), IsTree(rs),
           rs[i].there, rs[i].folder, rt[i].there, rt[i].folder,
           NEW from \in Paths, from = Full(rs, i), NEW new \in Paths, new = Full(rt, i),
           DOMAIN rt = DOMAIN rs,
           ParentAt(rs, rt[i].parent, rt[i].path),
           ~IsPrefix(from, new), ~IsPrefix(new, from),
           NoNode(rs, rt[i].path, rt[i].name),
           \A n \in DOMAIN rs : n # i =>
             /\ rt[n].there = rs[n].there /\ rt[n].parent = rs[n].parent
             /\ rt[n].name = rs[n].name /\ rt[n].folder = rs[n].folder
             /\ rs[n].there => rt[n].path = Moved(from, new, rs[n].path)
    PROVE  IsTree(rt)
<1> DEFINE Mv(p) == Moved(from, new, p)
<1>1. /\ from # <<>> /\ new # <<>> /\ IsPrefix(from, from)
      /\ rt[i].path \in Paths /\ rt[i].name \in Names /\ IsPrefix(rt[i].path, new)
      /\ rs[i].path \in Paths /\ rs[i].name \in Names
    <2>1. /\ rt[i].path \in Paths /\ rt[i].name \in Names
          /\ rs[i].path \in Paths /\ rs[i].name \in Names
        BY RowMeaning
    <2>2. from # <<>> /\ new # <<>> /\ IsPrefix(rt[i].path, new)
        BY FullMeaning
    <2>3. IsPrefix(from, from)
        BY PrefixMeaning DEF Paths
    <2> QED
        BY <2>1, <2>2, <2>3
\* Nothing was at the new place or below it.
<1>2. ASSUME NEW n \in DOMAIN rs, rs[n].there
      PROVE  /\ rs[n].path \in Paths /\ rs[n].name \in Names /\ Full(rs, n) \in Paths
             /\ ~IsPrefix(new, rs[n].path) /\ ~IsPrefix(new, Full(rs, n))
    <2>1. rs[n].path \in Paths /\ rs[n].name \in Names /\ Full(rs, n) \in Paths
        BY RowMeaning DEF Full
    <2>2. NoFolder(rs, new)
        BY <1>1, NoNodeNoFolder DEF Full
    <2>3. ~IsPrefix(new, rs[n].path)
        BY <1>1, <1>2, <2>2, NothingBelow
    <2>4. Full(rs, n) # new
        <3> SUFFICES ASSUME Full(rs, n) = new PROVE FALSE
            OBVIOUS
        <3>1. rs[n].path = rt[i].path /\ rs[n].name = rt[i].name
            BY FullsDiffer
        <3> QED
            BY <1>2, <3>1 DEF NoNode, AtPlace
    <2> QED
        BY <2>1, <2>3, <2>4, FullMeaning
\* Every node is where its old place has gone.
<1>3. ASSUME NEW n \in DOMAIN rs, rs[n].there
      PROVE  Full(rt, n) = Mv(Full(rs, n)) /\ (Full(rs, n) = from => n = i)
    <2>1. Full(rs, n) = from => n = i
        <3> SUFFICES ASSUME Full(rs, n) = from PROVE n = i
            OBVIOUS
        <3>1. rs[n].path = rs[i].path /\ rs[n].name = rs[i].name
            BY FullsDiffer
        <3>2. Placed(rs, i)
            BY TreeMeaning
        <3> QED
            BY <1>3, <3>1, <3>2 DEF Placed, AtPlace
    <2>2. CASE n = i
        <3>1. PICK q : q = Mv(from)
            OBVIOUS
        <3>2. /\ q \in Paths /\ Len(q) = Len(new) + (Len(from) - Len(from)) /\ Len(q) \in Nat
              /\ Len(from) \in Nat /\ Len(new) \in Nat
            BY <1>1, <3>1, MovedMeaning
        <3>3. IsPrefix(new, q)
            BY <1>1, <3>1, MovedMeaning
        <3>4. Len(q) = Len(new)
            BY <3>2
        <3>5. \A j \in 1 .. Len(new) : q[j] = new[j]
            BY <3>2, <3>3, PrefixMeaning
        <3>6. q = new
            BY <3>2, <3>4, <3>5, PathsEqual
        <3> QED
            BY <2>1, <2>2, <3>1, <3>6
    <2>3. CASE n # i
        <3>1. Full(rs, n) # from
            BY <2>1, <2>3
        <3>2. rt[n].path = Mv(rs[n].path) /\ rt[n].name = rs[n].name
            BY <1>3, <2>3
        <3>3. Mv(Full(rs, n)) = Append(Mv(rs[n].path), rs[n].name)
            <4>1. \A f, g \in Paths : Full(rs, n) # f =>
                    Moved(f, g, Full(rs, n)) = Append(Moved(f, g, rs[n].path), rs[n].name)
                BY FullMeaning
            <4> QED
                BY <3>1, <4>1
        <3> QED
            BY <2>1, <3>2, <3>3 DEF Full
    <2> QED
        BY <2>2, <2>3
<1>4. ASSUME NEW k, NEW p, FolderAt(rs, k, p) PROVE FolderAt(rt, k, Mv(p))
    <2>1. k \in DOMAIN rs /\ rs[k].there /\ rs[k].folder /\ p = Full(rs, k)
        BY <1>4 DEF FolderAt, Full
    <2>2. Full(rt, k) = Mv(p)
        BY <1>3, <2>1
    <2>3. rt[k].there /\ rt[k].folder
        BY <2>1
    <2> QED
        BY <2>1, <2>2, <2>3 DEF FolderAt, Full
\* The folders of a path that is not below the old place are where they were.
<1>5. ASSUME NEW p \in Paths, ~IsPrefix(from, p), Chained(rs, p) PROVE Chained(rt, p)
    <2> SUFFICES ASSUME NEW j \in 1 .. Len(p)
                 PROVE  \E k \in DOMAIN rt : FolderAt(rt, k, SubSeq(p, 1, j))
        BY DEF Chained
    <2>1. PICK q : q = SubSeq(p, 1, j)
        OBVIOUS
    <2>2. j \in 0 .. Len(p) /\ Len(p) \in Nat
        BY DEF Paths
    <2>3. q \in Paths /\ Len(q) = j /\ \A l \in 1 .. j : q[l] = p[l]
        BY <2>1, <2>2, SubMeaning
    <2>4. IsPrefix(q, p)
        BY <2>2, <2>3, PrefixMeaning
    <2>5. Mv(q) = q
        BY <1>5, <2>3, <2>4, MovedPrefix
    <2>6. PICK k \in DOMAIN rs : FolderAt(rs, k, q)
        BY <1>5, <2>1 DEF Chained
    <2> QED
        BY <1>4, <2>1, <2>5, <2>6
<1>6. ~IsPrefix(from, rt[i].path)
    BY <1>1, PrefixTransitive
<1>7. Chained(rs, rt[i].path) /\ Chained(rt, rt[i].path)
    BY <1>1, <1>5, <1>6, ParentChains
<1>8. ASSUME NEW k, NEW p \in Paths, ParentAt(rs, k, p) PROVE ParentAt(rt, k, Mv(p))
    <2>1. CASE k = Null
        <3>1. p = <<>>
            BY <1>8, <2>1 DEF ParentAt
        <3>2. ~IsPrefix(from, p)
            <4>1. Len(p) = 0 /\ Len(from) # 0 /\ Len(from) \in Nat
                BY <1>1, <3>1 DEF Paths
            <4> QED
                BY <4>1, PrefixMeaning
        <3> QED
            BY <1>8, <2>1, <3>1, <3>2 DEF ParentAt, Moved
    <2>2. CASE k # Null
        BY <1>4, <1>8, <2>2 DEF ParentAt
    <2> QED
        BY <2>1, <2>2
<1> SUFFICES ASSUME NEW n \in DOMAIN rt, rt[n].there PROVE Placed(rt, n)
    BY TreeMeaning
<1>9. n \in DOMAIN rs /\ rs[n].there
    OBVIOUS
<1>10. ASSUME NEW k \in DOMAIN rt, AtPlace(rt, k, rt[n].path, rt[n].name) PROVE k = n
    <2>1. k \in DOMAIN rs /\ rs[k].there /\ rt[k].there
        BY <1>10 DEF AtPlace
    <2>2. Full(rt, k) = Full(rt, n)
        BY <1>10 DEF AtPlace, Full
    <2>3. Mv(Full(rs, k)) = Mv(Full(rs, n))
        BY <1>3, <1>9, <2>1, <2>2
    <2>4. Full(rs, k) = Full(rs, n)
        BY <1>2, <1>9, <2>1, <2>3, MovedApart
    <2>5. rs[k].path = rs[n].path /\ rs[k].name = rs[n].name
        BY <1>9, <2>1, <2>4, FullsDiffer
    <2>6. Placed(rs, n)
        BY <1>9, TreeMeaning
    <2> QED
        BY <2>1, <2>5, <2>6 DEF Placed, AtPlace
<1>11. CASE n = i
    <2>1. PICK p \in Paths : p = rt[i].path
        BY <1>1
    <2>2. Mv(p) = p
        BY <1>6, <2>1 DEF Moved
    <2>3. ParentAt(rt, rt[i].parent, p)
        BY <1>8, <2>1, <2>2
    <2> QED
        BY <1>7, <1>10, <1>11, <2>1, <2>3 DEF Placed
<1>12. CASE n # i
    <2>1. PICK p : p = rs[n].path
        OBVIOUS
    <2>2. /\ p \in Paths /\ rt[n].path = Mv(p) /\ rt[n].parent = rs[n].parent
          /\ ParentAt(rs, rs[n].parent, p) /\ Chained(rs, p)
        BY <1>2, <1>9, <1>12, <2>1, TreeMeaning DEF Placed
    <2>3. ParentAt(rt, rt[n].parent, rt[n].path)
        BY <1>8, <2>2
    <2>4. Chained(rt, rt[n].path)
        <3>1. CASE ~IsPrefix(from, p)
            BY <1>5, <2>2, <3>1 DEF Moved
        <3>2. CASE IsPrefix(from, p)
            <4> SUFFICES ASSUME NEW j \in 1 .. Len(Mv(p))
                         PROVE  \E k \in DOMAIN rt : FolderAt(rt, k, SubSeq(Mv(p), 1, j))
                BY <2>2 DEF Chained
            <4>1. /\ Mv(p) \in Paths /\ Len(Mv(p)) \in Nat /\ IsPrefix(new, Mv(p))
                  /\ Len(new) \in Nat /\ Len(from) \in Nat /\ j \in Nat /\ Len(p) \in Nat
                BY <2>2, <3>2, MovedMeaning
            <4>2. CASE Len(new) <= j
                <5>1. PICK l : l = (j - Len(new)) + Len(from)
                    OBVIOUS
                <5>2. l \in 0 .. Len(p) /\ SubSeq(Mv(p), 1, j) = Mv(SubSeq(p, 1, l))
                    <6>1. Len(new) <= j /\ j <= Len(Moved(from, new, p))
                        BY <4>1, <4>2
                    <6>2. l \in Int
                        BY <4>1, <5>1
                    <6> QED
                        BY <2>2, <3>2, <4>1, <5>1, <6>1, <6>2, MovedSub
                <5>3. l # 0
                    <6>1. Len(from) # 0
                        BY <1>1 DEF Paths
                    <6> QED
                        BY <4>1, <4>2, <5>1, <6>1
                <5>4. l \in 1 .. Len(p)
                    BY <4>1, <5>2, <5>3
                <5>5. PICK k \in DOMAIN rs : FolderAt(rs, k, SubSeq(p, 1, l))
                    BY <2>2, <5>4 DEF Chained
                <5> QED
                    BY <1>4, <5>2, <5>5
            <4>3. CASE ~(Len(new) <= j)
                <5>1. Len(new) = Len(rt[i].path) + 1 /\ Len(rt[i].path) \in Nat
                    BY <1>1, AppendMeaning DEF Full
                <5>2. j \in 1 .. Len(rt[i].path)
                    BY <4>1, <4>3, <5>1
                <5>3. SubSeq(Mv(p), 1, j) = SubSeq(rt[i].path, 1, j)
                    <6>1. IsPrefix(rt[i].path, Mv(p))
                        BY <1>1, <4>1, PrefixTransitive
                    <6>2. /\ Len(rt[i].path) <= Len(Mv(p))
                          /\ \A l \in 1 .. Len(rt[i].path) : rt[i].path[l] = Mv(p)[l]
                        BY <1>1, <4>1, <6>1, PrefixMeaning
                    <6>3. j \in 0 .. Len(Mv(p)) /\ j \in 0 .. Len(rt[i].path)
                        BY <4>1, <5>1, <5>2, <6>2
                    <6>4. PICK s : s = SubSeq(Mv(p), 1, j)
                        OBVIOUS
                    <6>5. s \in Paths /\ Len(s) = j /\ \A l \in 1 .. j : s[l] = Mv(p)[l]
                        BY <4>1, <6>3, <6>4, SubMeaning
                    <6>6. PICK t : t = SubSeq(rt[i].path, 1, j)
                        OBVIOUS
                    <6>7. t \in Paths /\ Len(t) = j /\ \A l \in 1 .. j : t[l] = rt[i].path[l]
                        BY <1>1, <6>3, <6>6, SubMeaning
                    <6>8. ASSUME NEW l \in 1 .. j PROVE s[l] = t[l]
                        <7>1. l \in 1 .. Len(rt[i].path)
                            BY <5>1, <5>2
                        <7> QED
                            BY <6>2, <6>5, <6>7, <7>1
                    <6> QED
                        BY <6>4, <6>5, <6>6, <6>7, <6>8, PathsEqual
                <5> QED
                    BY <1>7, <5>2, <5>3 DEF Chained
            <4> QED
                BY <4>2, <4>3
        <3> QED
            BY <3>1, <3>2
    <2> QED
        BY <1>10, <2>3, <2>4 DEF Placed
<1> QED
    BY <1>11, <1>12

-----------------------------------------------------------------------------
(* What the calls under way need of the tree.                              *)

\* The full path a call gives its node.
Aim(r) == Append(r.path, r.name)

\* Rows rt are what rs will be when call r has moved what is left to move.
Between(r, rs, rt) ==
    /\ DOMAIN rt = DOMAIN rs
    /\ \A n \in DOMAIN rs :
         /\ rt[n].there = rs[n].there /\ rt[n].folder = rs[n].folder
         /\ n = r.id => /\ rt[n].path = r.path
                        /\ rt[n].name = IF r.kind = "rename" THEN r.name ELSE rs[n].name
                        /\ rt[n].parent = IF r.kind = "move" THEN r.parent ELSE rs[n].parent
         /\ n # r.id => /\ rt[n].parent = rs[n].parent /\ rt[n].name = rs[n].name
                        /\ (\A x \in r.todo : x.id # n) => rt[n].path = rs[n].path
    /\ \A x \in r.todo : rt[x.id].path = x.path

\* A folder is on its way: the tree is the one it will be.
HalfMoved(r, rs) ==
    /\ r.id \in DOMAIN rs /\ rs[r.id].there
    /\ ~IsPrefix(r.from, Aim(r)) /\ ~IsPrefix(Aim(r), r.from)
    /\ \A x \in r.todo : /\ x.id \in DOMAIN rs /\ rs[x.id].there /\ x.id # r.id
                         /\ IsPrefix(r.from, rs[x.id].path) /\ IsPrefix(Aim(r), x.path)
    /\ \E rt : IsTree(rt) /\ Between(r, rs, rt)

\* A folder is about to move, and has what it takes to.
Movable(r, rs) ==
    /\ r.id \in DOMAIN rs /\ rs[r.id].there
    /\ r.from = Full(rs, r.id) /\ Aim(r) # r.from
    /\ r.kind = "rename" => rs[r.id].path = r.path
    /\ r.kind = "move" => rs[r.id].name = r.name
    /\ r.kind = "move" /\ r.at # "target" =>
         ParentAt(rs, r.parent, r.path) /\ ~IsPrefix(r.from, r.path)
    /\ r.at = "list" => NoNode(rs, r.path, r.name)

FolderFacts(r, rs) ==
    /\ r.kind \in {"folder", "document"} /\ r.at \in {"parent", "insert"} =>
         NoNode(rs, Making(r).path, Making(r).name)
    /\ r.kind \in {"folder", "document"} /\ r.at = "insert" =>
         ParentAt(rs, r.parent, Making(r).path)
    /\ r.at \in {"target", "free", "list"} => Movable(r, rs)
    /\ r.at = "shift" => HalfMoved(r, rs)
    /\ r.kind = "delete" =>
         r.id \in DOMAIN rs /\ rs[r.id].there /\ r.todo = {r.id} \cup Under(rs, r.id)

FileFacts(r, rs) ==
    /\ r.kind = "file" /\ r.at \in {"parent", "insert"} => NoFolder(rs, Aim(r))
    /\ r.kind = "file" /\ r.at = "insert" => ParentAt(rs, r.parent, r.path)
    /\ r.at \in Moving =>
         /\ r.id \in DOMAIN rs /\ r.todo = {}
         /\ rs[r.id].there /\ r.kind = "rename" => rs[r.id].path = r.path
         /\ rs[r.id].there /\ r.kind = "move" => rs[r.id].name = r.name
    /\ r.kind = "move" /\ r.at \in {"free", "shift"} => ParentAt(rs, r.parent, r.path)
    /\ r.at = "shift" => NoFolder(rs, Aim(r))
    /\ r.kind = "delete" =>
         r.id \in DOMAIN rs /\ r.todo = {r.id} /\ (rs[r.id].there => ~rs[r.id].folder)

StageFacts(r) ==
    /\ r.at = "remove" => r.kind = "delete"
    /\ r.at = "tell" => r.kind = "delete" \/ r.tell # {}
    /\ r.kind = "delete" => r.at \in {"tell", "remove"}
    /\ r.kind = "file" => ~r.folder

CallFacts(r, rs) ==
    /\ StageFacts(r)
    /\ IF OnFolder(r) THEN FolderFacts(r, rs) ELSE FileFacts(r, rs)

Sane == odd \cap {"tangled", "died"} = {}

Alone ==
    \A c, d \in Busy : c # d =>
        ~OnFolder(call[c]) /\ (call[c].id = Null \/ call[c].id # call[d].id)

Shifting(r) == r.folder /\ r.at = "shift"

Facts ==
    /\ Alone
    /\ \A c \in Busy : CallFacts(call[c], rows)
    /\ (\A c \in Callers : ~Shifting(call[c])) => IsTree(rows)

\* What is written in rows is none of a call's needs.
LEMMA ShapeFacts ==
    ASSUME NEW rs, NEW rt, SameShape(rs, rt), NEW r, CallFacts(r, rs)
    PROVE  CallFacts(r, rt)
<1>1. DOMAIN rt = DOMAIN rs
    BY DEF SameShape
<1>2. ASSUME NEW n \in DOMAIN rs
      PROVE  /\ rt[n].there = rs[n].there /\ rt[n].parent = rs[n].parent
             /\ rt[n].path = rs[n].path /\ rt[n].name = rs[n].name
             /\ rt[n].folder = rs[n].folder
             /\ Full(rt, n) = Full(rs, n) /\ Under(rt, n) = Under(rs, n)
    <2>1. \A k \in DOMAIN rs : /\ rt[k].there = rs[k].there /\ rt[k].path = rs[k].path
                               /\ rt[k].name = rs[k].name /\ rt[k].parent = rs[k].parent
                               /\ rt[k].folder = rs[k].folder
        BY DEF SameShape, SameRow
    <2>2. Full(rt, n) = Full(rs, n)
        BY <2>1 DEF Full
    <2>3. Under(rt, n) = Under(rs, n)
        BY <1>1, <2>1, <2>2 DEF Under
    <2> QED
        BY <2>1, <2>2, <2>3
<1>3. ASSUME Movable(r, rs) PROVE Movable(r, rt)
    BY <1>1, <1>2, <1>3, ShapeFolders DEF Movable
<1>4. ASSUME HalfMoved(r, rs) PROVE HalfMoved(r, rt)
    <2>1. PICK ru : IsTree(ru) /\ Between(r, rs, ru)
        BY <1>4 DEF HalfMoved
    <2>2. Between(r, rt, ru)
        BY <1>1, <1>2, <2>1 DEF Between
    <2>3. \A x \in r.todo : /\ x.id \in DOMAIN rt /\ rt[x.id].there /\ x.id # r.id
                            /\ IsPrefix(r.from, rt[x.id].path) /\ IsPrefix(Aim(r), x.path)
        BY <1>1, <1>2, <1>4 DEF HalfMoved
    <2> QED
        BY <1>1, <1>2, <1>4, <2>1, <2>2, <2>3 DEF HalfMoved
<1>5. ASSUME FolderFacts(r, rs) PROVE FolderFacts(r, rt)
    BY <1>1, <1>2, <1>3, <1>4, <1>5, ShapeFolders DEF FolderFacts
<1>6. ASSUME FileFacts(r, rs) PROVE FileFacts(r, rt)
    BY <1>1, <1>2, <1>6, ShapeFolders DEF FileFacts
<1> QED
    BY <1>5, <1>6 DEF CallFacts

\* A file that is put somewhere leaves calls on other files what they need.
LEMMA PutFacts ==
    ASSUME NEW rs, NEW rt, NEW i, PutAt(rs, rt, i), ~(rt[i].there /\ rt[i].folder),
           NEW r, ~OnFolder(r), r.id # i, CallFacts(r, rs)
    PROVE  CallFacts(r, rt)
<1>1. \A p : NoFolder(rs, p) => NoFolder(rt, p)
    <2> SUFFICES ASSUME NEW p, NoFolder(rs, p), NEW k \in DOMAIN rt, FolderAt(rt, k, p)
                 PROVE  FALSE
        BY DEF NoFolder
    <2>1. k # i
        BY DEF FolderAt
    <2>2. k \in DOMAIN rs /\ SameRow(rs[k], rt[k])
        BY <2>1 DEF PutAt
    <2>3. FolderAt(rs, k, p)
        BY <2>2 DEF FolderAt, SameRow
    <2> QED
        BY <2>2, <2>3 DEF NoFolder
<1>2. \A k, p : ParentAt(rs, k, p) => ParentAt(rt, k, p)
    BY PutKeepsFolders
<1>3. ASSUME r.id \in DOMAIN rs
      PROVE  /\ r.id \in DOMAIN rt /\ rt[r.id].there = rs[r.id].there
             /\ rt[r.id].path = rs[r.id].path /\ rt[r.id].name = rs[r.id].name
             /\ rt[r.id].folder = rs[r.id].folder
    <2>1. SameRow(rs[r.id], rt[r.id]) /\ r.id \in DOMAIN rt
        BY <1>3 DEF PutAt
    <2> QED
        BY <2>1 DEF SameRow
<1>4. FileFacts(r, rs) /\ StageFacts(r)
    BY DEF CallFacts
<1>5. FileFacts(r, rt)
    BY <1>1, <1>2, <1>3, <1>4 DEF FileFacts
<1> QED
    BY <1>4, <1>5 DEF CallFacts

LEMMA IdleFacts == ~Shifting(Idle) /\ ~OnFolder(Idle) /\ Idle.at = "idle" /\ Idle.kind = "none"
BY DEF Idle, Shifting, OnFolder

\* A call that acts has what it needs.
LEMMA Acting ==
    ASSUME TreeInv, Facts, NEW c \in Callers, call[c].at # "idle"
    PROVE  /\ c \in Busy /\ call[c] \in CallOf /\ CallFacts(call[c], rows) /\ Fits(call[c], rows)
           /\ ~Shifting(call[c]) => IsTree(rows)
           /\ OnFolder(call[c]) => Busy = {c}
           /\ ~OnFolder(call[c]) => IsTree(rows)
<1>1. c \in Busy
    BY IdleFacts DEF Busy
<1>2. call[c] \in CallOf /\ Fits(call[c], rows)
    BY CallTypes
<1>3. CallFacts(call[c], rows)
    BY <1>1 DEF Facts
<1>4. OnFolder(call[c]) => Busy = {c}
    BY <1>1 DEF Facts, Alone
<1>5. ASSUME NEW d \in Callers, d # c PROVE ~Shifting(call[d])
    <2>1. CASE d \in Busy
        BY <1>1, <1>5, <2>1 DEF Facts, Alone, Shifting, OnFolder
    <2>2. CASE d \notin Busy
        BY <2>2, IdleFacts DEF Busy
    <2> QED
        BY <2>1, <2>2
<1>6. ~Shifting(call[c]) => IsTree(rows)
    BY <1>5 DEF Facts
<1>7. ~OnFolder(call[c]) => ~Shifting(call[c])
    BY DEF OnFolder, Shifting
<1> QED
    BY <1>1, <1>2, <1>3, <1>4, <1>6, <1>7

\* A call has made a step.
LEMMA StepOf ==
    ASSUME TreeInv, TreeOn, Facts, NEW c \in Callers, call[c].at # "idle", NEW r \in CallOf,
           call' = [call EXCEPT ![c] = r],
           r # Idle => /\ OnFolder(r) => OnFolder(call[c])
                       /\ r.id \in {call[c].id, Len(rows) + 1}
                       /\ CallFacts(r, rows'),
           ~Shifting(r) => IsTree(rows'),
           \/ OnFolder(call[c])
           \/ SameShape(rows, rows')
           \/ \E i \in {call[c].id, Len(rows) + 1} :
                i # Null /\ PutAt(rows, rows', i) /\ ~(rows'[i].there /\ rows'[i].folder)
    PROVE  Facts'
<1>1. c \in Busy /\ (OnFolder(call[c]) => Busy = {c})
    BY Acting
<1>2. \A d \in Callers : call'[d] = IF d = c THEN r ELSE call[d]
    BY DEF TreeInv
<1>3. Busy' \subseteq Busy /\ (c \in Busy' => r # Idle)
    BY <1>1, <1>2 DEF Busy
<1>4. ASSUME NEW d \in Busy, d # c
      PROVE  /\ ~OnFolder(call[d]) /\ ~OnFolder(call[c])
             /\ call[d].id = Null \/ call[d].id # call[c].id
             /\ call[c].id = Null \/ call[d].id # call[c].id
             /\ call[d].id # Len(rows) + 1 /\ CallFacts(call[d], rows)
    <2>1. call[d].id <= Len(rows) /\ call[d].id \in Nat /\ Len(rows) \in Nat
        <3>1. call[d] \in CallOf /\ Fits(call[d], rows) /\ RowsOK(rows)
            BY <1>4, CallTypes DEF Busy
        <3> QED
            BY <3>1 DEF Fits, CallOf, RowsOK
    <2> QED
        BY <1>1, <1>4, <2>1 DEF Facts, Alone
<1>5. Alone'
    <2> SUFFICES ASSUME NEW d \in Busy', NEW e \in Busy', d # e
                 PROVE  ~OnFolder(call'[d]) /\ (call'[d].id = Null \/ call'[d].id # call'[e].id)
        BY DEF Alone
    <2>0. d \in Busy /\ e \in Busy /\ d \in Callers /\ e \in Callers
        BY <1>3 DEF Busy
    <2>1. CASE d = c
        <3>1. call'[d] = r /\ call'[e] = call[e] /\ r # Idle
            BY <1>2, <1>3, <2>0, <2>1
        <3>2. ~OnFolder(r)
            BY <1>4, <2>0, <2>1, <3>1
        <3>3. r.id = Null \/ r.id # call[e].id
            BY <1>4, <2>0, <2>1, <3>1
        <3> QED
            BY <3>1, <3>2, <3>3
    <2>2. CASE e = c
        <3>1. call'[e] = r /\ call'[d] = call[d] /\ r # Idle
            BY <1>2, <1>3, <2>0, <2>2
        <3>2. ~OnFolder(call[d])
            BY <1>4, <2>0, <2>2
        <3>3. call[d].id = Null \/ r.id # call[d].id
            BY <1>4, <2>0, <2>2, <3>1
        <3> QED
            BY <3>1, <3>2, <3>3
    <2>3. CASE d # c /\ e # c
        BY <1>2, <2>0, <2>3 DEF Facts, Alone
    <2> QED
        BY <2>1, <2>2, <2>3
<1>6. ASSUME NEW d \in Busy' PROVE CallFacts(call'[d], rows')
    <2>1. CASE d = c
        BY <1>1, <1>2, <1>3, <1>6, <2>1 DEF Busy
    <2>2. CASE d # c
        <3>1. d \in Busy /\ call'[d] = call[d]
            BY <1>2, <1>3, <1>6, <2>2 DEF Busy
        <3>2. CASE SameShape(rows, rows')
            BY <1>4, <2>2, <3>1, <3>2, ShapeFacts
        <3>3. ASSUME NEW i \in {call[c].id, Len(rows) + 1}, i # Null, PutAt(rows, rows', i),
                     ~(rows'[i].there /\ rows'[i].folder)
              PROVE  CallFacts(call[d], rows')
            <4>1. call[d].id # i
                BY <1>4, <2>2, <3>1, <3>3
            <4> QED
                BY <1>4, <2>2, <3>1, <3>3, <4>1, PutFacts
        <3> QED
            BY <1>4, <2>2, <3>1, <3>2, <3>3
    <2> QED
        BY <2>1, <2>2
<1>7. (\A d \in Callers : ~Shifting(call'[d])) => IsTree(rows')
    BY <1>2
<1> QED
    BY <1>5, <1>6, <1>7 DEF Facts

\* A call ends.
LEMMA EndFacts ==
    ASSUME TreeInv, TreeOn, Facts, NEW c \in Callers, call[c].at # "idle", Ends(c),
           IsTree(rows'),
           \/ OnFolder(call[c])
           \/ SameShape(rows, rows')
           \/ \E i \in {call[c].id, Len(rows) + 1} :
                i # Null /\ PutAt(rows, rows', i) /\ ~(rows'[i].there /\ rows'[i].folder)
    PROVE  Facts'
BY StepOf, IdleFacts, Constants DEF Ends

LEMMA SameIsSame == ASSUME NEW rs PROVE SameShape(rs, rs)
BY DEF SameShape, SameRow

\* A call ends and leaves the rows as they are.
LEMMA EndsThere ==
    ASSUME TreeInv, TreeOn, Facts, NEW c \in Callers, call[c].at # "idle", Ends(c),
           ~Shifting(call[c]), rows' = rows
    PROVE  Facts'
<1>1. IsTree(rows') /\ SameShape(rows, rows')
    BY Acting, SameIsSame
<1> QED
    BY <1>1, EndFacts

\* A call goes on and leaves the rows as they are.
LEMMA GoesThere ==
    ASSUME TreeInv, TreeOn, Facts, NEW c \in Callers, call[c].at # "idle", ~Shifting(call[c]),
           rows' = rows, NEW r \in CallOf, call' = [call EXCEPT ![c] = r],
           r # Idle => /\ OnFolder(r) => OnFolder(call[c])
                       /\ r.id = call[c].id
                       /\ CallFacts(r, rows)
    PROVE  Facts'
<1>1. IsTree(rows') /\ SameShape(rows, rows')
    BY Acting, SameIsSame
<1> QED
    BY <1>1, StepOf

\* A call begins.
LEMMA BeginFacts ==
    ASSUME TreeInv, Facts, NEW c \in Callers, NEW r \in CallOf, Begin(c, r), Sane',
           NEW s, s = [r EXCEPT !.no = calls'], ~Shifting(s),
           IsTree(rows) => CallFacts(s, rows)
    PROVE  Facts'
<1>1. call[c] = Idle /\ call' = [call EXCEPT ![c] = s] /\ rows' = rows
    BY DEF Begin
<1>2. \A d \in Callers : call'[d] = IF d = c THEN s ELSE call[d]
    BY <1>1 DEF TreeInv
<1>3. s.id = r.id /\ (OnFolder(s) <=> OnFolder(r))
    BY DEF CallOf, OnFolder
<1>4. ~Tangled(c, r)
    BY DEF Begin, Sane
<1>5. ASSUME NEW d \in Busy, d # c
      PROVE  ~OnFolder(s) /\ ~OnFolder(call[d]) /\ (s.id = Null \/ s.id # call[d].id)
    BY <1>3, <1>4, <1>5 DEF Tangled
<1>6. \A d \in Callers : d # c => (d \in Busy' <=> d \in Busy)
    BY <1>2 DEF Busy
<1>7. IsTree(rows)
    <2>1. ASSUME NEW d \in Callers PROVE ~Shifting(call[d])
        <3>1. CASE d \in Busy /\ d # c
            BY <1>5, <3>1 DEF OnFolder, Shifting
        <3>2. CASE d \notin Busy \/ d = c
            BY <1>1, <3>2, IdleFacts DEF Busy
        <3> QED
            BY <3>1, <3>2
    <2> QED
        BY <2>1 DEF Facts
<1>8. Alone'
    <2> SUFFICES ASSUME NEW d \in Busy', NEW e \in Busy', d # e
                 PROVE  ~OnFolder(call'[d]) /\ (call'[d].id = Null \/ call'[d].id # call'[e].id)
        BY DEF Alone
    <2>0. d \in Callers /\ e \in Callers
        BY DEF Busy
    <2>1. CASE d = c
        BY <1>2, <1>5, <1>6, <2>0, <2>1
    <2>2. CASE e = c
        BY <1>2, <1>5, <1>6, <2>0, <2>2
    <2>3. CASE d # c /\ e # c
        <3>1. d \in Busy /\ e \in Busy /\ call'[d] = call[d] /\ call'[e] = call[e]
            BY <1>2, <1>6, <2>0, <2>3
        <3> QED
            BY <3>1 DEF Facts, Alone
    <2> QED
        BY <2>1, <2>2, <2>3
<1>9. ASSUME NEW d \in Busy' PROVE CallFacts(call'[d], rows')
    <2>0. d \in Callers
        BY DEF Busy
    <2>1. CASE d = c
        BY <1>1, <1>2, <1>7, <2>0, <2>1
    <2>2. CASE d # c
        BY <1>1, <1>2, <1>6, <2>0, <2>2 DEF Facts
    <2> QED
        BY <2>1, <2>2
<1> QED
    BY <1>1, <1>7, <1>8, <1>9 DEF Facts

\* The rows are the same but for what is written in them, and so are the calls.
LEMMA QuietFacts ==
    ASSUME Facts, UNCHANGED call, SameShape(rows, rows')
    PROVE  Facts'
<1>1. Busy' = Busy
    BY DEF Busy
<1>2. Alone'
    BY <1>1 DEF Facts, Alone
<1>3. \A c \in Busy' : CallFacts(call'[c], rows')
    BY <1>1, ShapeFacts DEF Facts
<1>4. (\A c \in Callers : ~Shifting(call'[c])) => IsTree(rows')
    BY ShapeTree DEF Facts
<1> QED
    BY <1>2, <1>3, <1>4 DEF Facts

-----------------------------------------------------------------------------
(* Calls begin.                                                            *)

LEMMA CreateBegins ==
    ASSUME TreeInv, Facts, NEW c \in Callers, NEW kind \in {"folder", "file", "document"},
           NEW p \in Seq(FolderNames), NEW m \in Names, NEW txt \in Text,
           StartCreate(c, kind, p, m, txt), Sane'
    PROVE  Facts'
<1>1. PICK r : r = [Idle EXCEPT !.kind = kind, !.path = p, !.name = m, !.text = txt, !.part = 1,
                          !.at = IF kind = "document" THEN "chain" ELSE "exists"]
    OBVIOUS
<1>2. r \in CallOf
    BY <1>1, Constants DEF Idle, CallOf, Todos, Stages, Kinds, Null
<1>3. PICK s : s = [r EXCEPT !.no = calls']
    OBVIOUS
<1>4. s.kind = kind /\ s.at \in {"chain", "exists"} /\ s.folder = FALSE
    BY <1>1, <1>3 DEF Idle
<1>5. CallFacts(s, rows)
    BY <1>4 DEF CallFacts, StageFacts, FolderFacts, FileFacts, Moving
<1>6. ~Shifting(s) /\ Begin(c, r)
    BY <1>1, <1>4 DEF Shifting, StartCreate
<1> QED
    BY <1>2, <1>3, <1>5, <1>6, BeginFacts

LEMMA SaveBegins ==
    ASSUME TreeInv, Facts, NEW c \in Callers, NEW n, NEW txt \in Text, StartSave(c, n, txt), Sane'
    PROVE  Facts'
<1>1. n \in DOMAIN rows /\ n \in Nat
    BY RowTypes DEF StartSave, Nodes
<1>2. PICK r : r = [Idle EXCEPT !.kind = "save", !.id = n, !.text = txt, !.at = "store"]
    OBVIOUS
<1>3. r \in CallOf
    BY <1>1, <1>2, Constants DEF Idle, CallOf, Todos, Stages, Kinds, Null
<1>4. PICK s : s = [r EXCEPT !.no = calls']
    OBVIOUS
<1>5. s.kind = "save" /\ s.at = "store" /\ s.folder = FALSE
    BY <1>2, <1>4 DEF Idle
<1>6. CallFacts(s, rows)
    BY <1>5 DEF CallFacts, StageFacts, FolderFacts, FileFacts, Moving
<1>7. ~Shifting(s) /\ Begin(c, r)
    BY <1>2, <1>5 DEF Shifting, StartSave
<1> QED
    BY <1>3, <1>4, <1>6, <1>7, BeginFacts

LEMMA RenameBegins ==
    ASSUME TreeInv, Facts, NEW c \in Callers, NEW n, NEW m \in Names,
           rows[n].folder => m \in FolderNames, m # rows[n].name, StartRename(c, n, m), Sane'
    PROVE  Facts'
<1>1. n \in DOMAIN rows /\ n \in Nat /\ rows[n] \in Row /\ FullPath(n) \in Seq(Names)
      /\ rows[n].there
    BY RowTypes DEF StartRename, Nodes
<1>2. PICK r : r = [Idle EXCEPT !.kind = "rename", !.id = n, !.path = rows[n].path, !.name = m,
                             !.from = FullPath(n), !.folder = rows[n].folder, !.at = "free"]
    OBVIOUS
<1>3. r \in CallOf
    BY <1>1, <1>2, Constants DEF Idle, CallOf, Todos, Stages, Kinds, Null, Row
<1>4. PICK s : s = [r EXCEPT !.no = calls']
    OBVIOUS
<1>5. /\ s.kind = "rename" /\ s.at = "free" /\ s.folder = rows[n].folder /\ s.id = n
      /\ s.path = rows[n].path /\ s.name = m /\ s.from = Full(rows, n) /\ s.todo = {}
    BY <1>2, <1>4 DEF Idle, FullPath, Full
<1>6. Aim(s) # s.from
    <2>1. rows[n].path \in Paths /\ rows[n].name \in Names /\ RowsOK(rows)
        BY <1>1, RowMeaning DEF TreeInv
    <2>2. Append(rows[n].path, m) # Append(rows[n].path, rows[n].name)
        BY <2>1, AppendsDiffer
    <2> QED
        BY <1>5, <2>2 DEF Aim, Full
<1>7. Movable(s, rows)
    BY <1>1, <1>5, <1>6 DEF Movable
<1>8. StageFacts(s) /\ FolderFacts(s, rows) /\ FileFacts(s, rows)
    BY <1>1, <1>5, <1>7 DEF StageFacts, FolderFacts, FileFacts
<1>9. ~Shifting(s) /\ Begin(c, r) /\ CallFacts(s, rows)
    BY <1>2, <1>5, <1>8 DEF Shifting, StartRename, CallFacts
<1> QED
    BY <1>3, <1>4, <1>9, BeginFacts

LEMMA MoveBegins ==
    ASSUME TreeInv, Facts, NEW c \in Callers, NEW n, NEW p \in Seq(FolderNames),
           rows[n].path # p, StartMove(c, n, p), Sane'
    PROVE  Facts'
<1>1. n \in DOMAIN rows /\ n \in Nat /\ rows[n] \in Row /\ FullPath(n) \in Seq(Names)
      /\ rows[n].there
    BY RowTypes DEF StartMove, Nodes
<1>2. PICK r : r = [Idle EXCEPT !.kind = "move", !.id = n, !.path = p, !.name = rows[n].name,
                             !.from = FullPath(n), !.folder = rows[n].folder, !.at = "target"]
    OBVIOUS
<1>3. r \in CallOf
    <2>1. rows[n].folder \in BOOLEAN /\ rows[n].name \in Names
        BY <1>1 DEF Row
    <2> QED
        BY <1>1, <1>2, <2>1, Constants DEF Idle, CallOf, Todos, Stages, Kinds, Null
<1>4. PICK s : s = [r EXCEPT !.no = calls']
    OBVIOUS
<1>5. /\ s.kind = "move" /\ s.at = "target" /\ s.folder = rows[n].folder /\ s.id = n
      /\ s.path = p /\ s.name = rows[n].name /\ s.from = Full(rows, n) /\ s.todo = {}
    BY <1>2, <1>4 DEF Idle, FullPath, Full
<1>6. Aim(s) # s.from
    <2>1. rows[n].path \in Paths /\ rows[n].name \in Names /\ p \in Paths
        BY <1>1, RowMeaning, NamesOfFolders DEF TreeInv, Paths
    <2>2. Append(p, rows[n].name) # Append(rows[n].path, rows[n].name)
        BY <2>1, AppendsDiffer
    <2> QED
        BY <1>5, <2>2 DEF Aim, Full
<1>7. Movable(s, rows)
    BY <1>1, <1>5, <1>6 DEF Movable
<1>8. StageFacts(s) /\ FolderFacts(s, rows) /\ FileFacts(s, rows)
    BY <1>1, <1>5, <1>7 DEF StageFacts, FolderFacts, FileFacts
<1>9. ~Shifting(s) /\ Begin(c, r) /\ CallFacts(s, rows)
    BY <1>2, <1>5, <1>8 DEF Shifting, StartMove, CallFacts
<1> QED
    BY <1>3, <1>4, <1>9, BeginFacts

\* Of two nodes at one place there is one.
LEMMA OnePlace ==
    ASSUME NEW rs, RowsOK(rs), IsTree(rs), NEW n \in DOMAIN rs, rs[n].there, ~rs[n].folder
    PROVE  NoFolder(rs, Full(rs, n)) /\ Under(rs, n) = {}
<1>1. NoFolder(rs, Full(rs, n))
    <2> SUFFICES ASSUME NEW k \in DOMAIN rs, FolderAt(rs, k, Full(rs, n)) PROVE FALSE
        BY DEF NoFolder
    <2>1. Full(rs, k) = Full(rs, n)
        BY DEF FolderAt, Full
    <2>2. rs[k].path = rs[n].path /\ rs[k].name = rs[n].name
        BY <2>1, FullsDiffer
    <2>3. k = n
        BY <2>2, TreeMeaning DEF Placed, AtPlace, FolderAt
    <2> QED
        BY <2>3 DEF FolderAt
<1>2. Full(rs, n) \in Paths /\ Full(rs, n) # <<>>
    BY FullMeaning
<1> QED
    BY <1>1, <1>2, NothingBelow DEF Under

LEMMA DeleteBegins ==
    ASSUME TreeInv, Facts, NEW c \in Callers, NEW n, StartDelete(c, n), Sane'
    PROVE  Facts'
<1>1. n \in DOMAIN rows /\ n \in Nat /\ rows[n] \in Row /\ rows[n].there /\ rows[n].folder \in BOOLEAN
      /\ RowsOK(rows)
    BY RowTypes DEF StartDelete, Nodes, Row, TreeInv
<1>2. Doomed(n) \subseteq DOMAIN rows /\ Doomed(n) \subseteq Nat
    BY <1>1, RowTypes DEF Doomed, Below, Nodes
<1>3. PICK evs : evs = {[kind |-> "delete", path |-> rows[k].path, name |-> rows[k].name,
                     from |-> rows[k].path, key |-> rows[k].path, no |-> calls + 1] :
                       k \in {k \in Doomed(n) : ~rows[k].folder /\ rows[k].name \in Concepts}}
    OBVIOUS
<1>4. evs \subseteq Event
    <2>1. ASSUME NEW k \in Doomed(n)
          PROVE  rows[k].path \in Seq(FolderNames) /\ rows[k].name \in Names
        BY <1>2, RowTypes DEF Row
    <2> QED
        BY <1>3, <2>1, CallTypes DEF Event
<1>5. PICK r : r = [Idle EXCEPT !.kind = "delete", !.id = n, !.folder = rows[n].folder,
          !.at = "tell", !.todo = Doomed(n), !.tell = evs]
    OBVIOUS
<1>6. r \in CallOf
    BY <1>1, <1>2, <1>4, <1>5, Constants DEF Idle, CallOf, Todos, Stages, Kinds, Null, Row
<1>7. PICK s : s = [r EXCEPT !.no = calls']
    OBVIOUS
<1>8. s.kind = "delete" /\ s.at = "tell" /\ s.folder = rows[n].folder /\ s.id = n
      /\ s.todo = Doomed(n)
    BY <1>5, <1>7 DEF Idle
<1>9. Doomed(n) = {n} \cup Under(rows, n)
    BY DEF Doomed, Below, Under, Nodes, FullPath, Full
<1>10. ASSUME IsTree(rows) PROVE CallFacts(s, rows)
    <2>1. ~rows[n].folder => Under(rows, n) = {}
        BY <1>1, <1>10, OnePlace
    <2>2. StageFacts(s)
        BY <1>8 DEF StageFacts
    <2>3. CASE rows[n].folder
        <3>1. OnFolder(s) /\ FolderFacts(s, rows)
            BY <1>1, <1>8, <1>9, <2>3 DEF OnFolder, FolderFacts
        <3> QED
            BY <2>2, <3>1 DEF CallFacts
    <2>4. CASE ~rows[n].folder
        <3>1. s.todo = {n}
            BY <1>8, <1>9, <2>1, <2>4
        <3>2. ~OnFolder(s) /\ FileFacts(s, rows)
            BY <1>1, <1>8, <2>4, <3>1 DEF OnFolder, FileFacts, Moving
        <3> QED
            BY <2>2, <3>2 DEF CallFacts
    <2> QED
        BY <2>3, <2>4
<1>11. ~Shifting(s) /\ Begin(c, r)
    BY <1>3, <1>5, <1>8 DEF StartDelete, Shifting
<1> QED
    BY <1>6, <1>7, <1>10, <1>11, BeginFacts

-----------------------------------------------------------------------------
(* Calls that create something.                                            *)

\* The one call that changed.
LEMMA OnlyCall ==
    ASSUME TreeInv, TreeOn, NEW c \in Callers, \A d \in Callers : d # c => call'[d] = call[d]
    PROVE  call'[c] \in CallOf /\ call' = [call EXCEPT ![c] = call'[c]]
BY DEF TreeInv, TreeOn

LEMMA NoneFound ==
    ASSUME NEW p, NEW m, At(p, m) = {}
    PROVE  NoNode(rows, p, m)
BY DEF At, Nodes, NoNode, AtPlace

LEMMA FrontAndLast ==
    ASSUME NEW p \in Paths, p # <<>>
    PROVE  Front(p) \in Paths /\ Last(p) \in Names /\ Append(Front(p), Last(p)) = p
<1>1. Len(p) \in Nat /\ Len(p) # 0
    BY DEF Paths
<1>2. PICK q : q = Front(p)
    OBVIOUS
<1>3. q \in Paths /\ Len(q) = Len(p) - 1 /\ \A i \in 1 .. Len(q) : q[i] = p[i]
    <2>1. Len(p) - 1 \in 0 .. Len(p)
        BY <1>1
    <2> QED
        BY <1>2, <2>1, SubMeaning DEF Front
<1>4. Last(p) \in Names /\ Last(p) = p[Len(p)]
    BY <1>1 DEF Last, Paths
<1>5. PICK r \in Paths : r = Append(q, Last(p))
    BY <1>3, <1>4, AppendMeaning
<1>6. /\ Len(r) = Len(q) + 1 /\ r[Len(q) + 1] = Last(p)
      /\ \A i \in 1 .. Len(q) : r[i] = q[i]
    BY <1>3, <1>4, <1>5, AppendMeaning
<1>7. Len(r) = Len(p)
    BY <1>1, <1>3, <1>6
<1>8. ASSUME NEW i \in 1 .. Len(p) PROVE r[i] = p[i]
    <2>1. i \in 1 .. Len(q) \/ i = Len(q) + 1
        BY <1>1, <1>3
    <2> QED
        BY <1>1, <1>3, <1>4, <1>6, <2>1
<1> QED
    BY <1>2, <1>3, <1>4, <1>5, <1>7, <1>8, PathsEqual

\* The folder that a path names.
LEMMA FolderFound ==
    ASSUME TreeInv, NEW p \in Seq(FolderNames), NEW n \in FoundFolder(p),
           p # <<>> => IsFolder(n)
    PROVE  ParentAt(rows, n, p)
<1>1. CASE p = <<>>
    BY <1>1 DEF FoundFolder, ParentAt
<1>2. CASE p # <<>>
    <2>1. n \in Found(Front(p), Last(p)) /\ n # Null /\ rows[n].folder
        BY <1>2 DEF FoundFolder, IsFolder
    <2>2. n \in At(Front(p), Last(p))
        BY <2>1, FoundTypes
    <2>3. Append(Front(p), Last(p)) = p
        BY <1>2, FrontAndLast, NamesOfFolders DEF Paths
    <2> QED
        BY <2>1, <2>2, <2>3 DEF ParentAt, FolderAt, At, Nodes
<1> QED
    BY <1>1, <1>2

LEMMA ChainKeeps ==
    ASSUME TreeInv, TreeOn, Facts, NEW c \in Callers, Chain(c)
    PROVE  Facts'
<1>1. /\ call[c].at = "chain" /\ rows' = rows /\ call[c] \in CallOf /\ Fits(call[c], rows)
      /\ ~Shifting(call[c]) /\ call[c].at # "idle"
    BY CallTypes DEF Chain, Shifting
<1>2. CASE Ends(c)
    BY <1>1, <1>2, EndsThere
<1>3. CASE Goes(c, "exists") \/ call' = [call EXCEPT ![c].part = @ + 1]
    <2>1. \A d \in Callers : d # c => call'[d] = call[d]
        BY <1>3 DEF Goes, TreeInv
    <2>2. PICK r \in CallOf : r = call'[c] /\ call' = [call EXCEPT ![c] = r]
        BY <2>1, OnlyCall
    <2>3. /\ r.kind = call[c].kind /\ r.id = call[c].id /\ r.folder = call[c].folder
          /\ r.at \in {"chain", "exists"}
        <3>1. CASE Goes(c, "exists")
            BY <1>1, <2>2, <3>1 DEF Goes, TreeInv, CallOf
        <3>2. CASE call' = [call EXCEPT ![c].part = @ + 1]
            BY <1>1, <2>2, <3>2 DEF TreeInv, CallOf
        <3> QED
            BY <1>3, <3>1, <3>2
    <2>4. r.kind \in {"folder", "file", "document"}
        BY <1>1, <2>3 DEF Fits, Creating
    <2>5. CallFacts(call[c], rows)
        BY <1>1, Acting
    <2>6. CallFacts(r, rows)
        BY <2>3, <2>4, <2>5 DEF CallFacts, StageFacts, FolderFacts, FileFacts, Moving
    <2>7. OnFolder(r) => OnFolder(call[c])
        BY <2>3 DEF OnFolder
    <2> QED
        BY <1>1, <2>2, <2>3, <2>6, <2>7, GoesThere
<1> QED
    BY <1>2, <1>3 DEF Chain

\* What a creation is at does not change with its stage.
LEMMA SameMaking ==
    ASSUME NEW r, NEW s, s.kind = r.kind, s.part = r.part, s.path = r.path, s.name = r.name
    PROVE  Making(s) = Making(r) /\ Aim(s) = Aim(r)
BY DEF Making, Aim

\* A file is made at the call's own path and name.
LEMMA FileMaking ==
    ASSUME NEW r, r.kind = "file"
    PROVE  Making(r).path = r.path /\ Making(r).name = r.name /\ Making(r).folder = FALSE
BY DEF Making

LEMMA ExistsKeeps ==
    ASSUME TreeInv, TreeOn, Facts, NEW c \in Callers, Exists(c)
    PROVE  Facts'
<1>1. /\ call[c].at = "exists" /\ rows' = rows /\ call[c] \in CallOf /\ Fits(call[c], rows)
      /\ ~Shifting(call[c]) /\ call[c].at # "idle" /\ call[c].at \in Creating /\ RowsOK(rows)
    BY CallTypes DEF Exists, Shifting, Creating
<1>2. CASE Ends(c)
    BY <1>1, <1>2, EndsThere
<1>3. CASE ~Ends(c)
    <2>0. Goes(c, "parent") /\ At(Making(call[c]).path, Making(call[c]).name) = {}
        BY <1>3 DEF Exists
    <2>1. \A d \in Callers : d # c => call'[d] = call[d]
        BY <2>0 DEF Goes, TreeInv
    <2>2. PICK r \in CallOf : r = call'[c] /\ call' = [call EXCEPT ![c] = r]
        BY <2>1, OnlyCall
    <2>3. /\ r.kind = call[c].kind /\ r.id = call[c].id /\ r.folder = call[c].folder
          /\ r.part = call[c].part /\ r.path = call[c].path /\ r.name = call[c].name
          /\ r.at = "parent"
        BY <1>1, <2>0, <2>2 DEF Goes, TreeInv, CallOf
    <2>4. r.kind \in {"folder", "file", "document"}
        BY <1>1, <2>3 DEF Fits, Creating
    <2>5. CallFacts(call[c], rows)
        BY <1>1, Acting
    <2>6. NoNode(rows, Making(r).path, Making(r).name)
        BY <2>0, <2>3, SameMaking, NoneFound
    <2>7. r.kind = "file" => NoFolder(rows, Aim(r))
        <3> SUFFICES ASSUME r.kind = "file" PROVE NoFolder(rows, Aim(r))
            OBVIOUS
        <3>1. r.path \in Paths /\ r.name \in Names
            BY NamesOfFolders DEF CallOf, Paths
        <3>2. NoNode(rows, r.path, r.name)
            BY <2>6, FileMaking
        <3> QED
            BY <1>1, <3>1, <3>2, NoNodeNoFolder DEF Aim
    <2>8. CallFacts(r, rows)
        BY <2>3, <2>4, <2>5, <2>6, <2>7 DEF CallFacts, StageFacts, FolderFacts, FileFacts, Moving
    <2>9. OnFolder(r) => OnFolder(call[c])
        BY <2>3 DEF OnFolder
    <2> QED
        BY <1>1, <2>2, <2>3, <2>8, <2>9, GoesThere
<1> QED
    BY <1>2, <1>3

LEMMA ParentKeeps ==
    ASSUME TreeInv, TreeOn, Facts, NEW c \in Callers, Parent(c)
    PROVE  Facts'
<1>1. /\ call[c].at = "parent" /\ rows' = rows /\ call[c] \in CallOf /\ Fits(call[c], rows)
      /\ ~Shifting(call[c]) /\ call[c].at # "idle" /\ call[c].at \in Creating /\ RowsOK(rows)
    BY CallTypes DEF Parent, Shifting, Creating
<1>2. CASE Ends(c)
    BY <1>1, <1>2, EndsThere
<1>3. CASE ~Ends(c)
    <2>0. PICK n \in FoundFolder(Making(call[c]).path) :
              /\ Making(call[c]).path # <<>> => IsFolder(n)
              /\ call' = [call EXCEPT ![c].parent = n, ![c].at = "insert"]
        BY <1>3 DEF Parent
    <2>1. \A d \in Callers : d # c => call'[d] = call[d]
        BY <2>0 DEF TreeInv
    <2>2. PICK r \in CallOf : r = call'[c] /\ call' = [call EXCEPT ![c] = r]
        BY <2>1, OnlyCall
    <2>3. /\ r.kind = call[c].kind /\ r.id = call[c].id /\ r.folder = call[c].folder
          /\ r.part = call[c].part /\ r.path = call[c].path /\ r.name = call[c].name
          /\ r.at = "insert" /\ r.parent = n
        BY <1>1, <2>0, <2>2 DEF TreeInv, CallOf
    <2>4. r.kind \in {"folder", "file", "document"}
        BY <1>1, <2>3 DEF Fits, Creating
    <2>5. CallFacts(call[c], rows)
        BY <1>1, Acting
    <2>6. Making(r) = Making(call[c]) /\ Aim(r) = Aim(call[c])
        BY <2>3, SameMaking
    <2>7. ParentAt(rows, r.parent, Making(r).path)
        BY <1>1, <2>0, <2>3, <2>6, MakingTypes, FolderFound
    <2>8. CallFacts(r, rows)
        BY <1>1, <2>3, <2>4, <2>5, <2>6, <2>7, FileMaking
           DEF CallFacts, StageFacts, FolderFacts, FileFacts, Moving, OnFolder
    <2>9. OnFolder(r) => OnFolder(call[c])
        BY <2>3 DEF OnFolder
    <2> QED
        BY <1>1, <2>2, <2>3, <2>8, <2>9, GoesThere
<1> QED
    BY <1>2, <1>3

\* A row is added.
LEMMA RowAdded ==
    ASSUME NEW rs, RowsOK(rs), NEW x \in Row, NEW rt, rt = Append(rs, x)
    PROVE  /\ Len(rs) \in Nat /\ Len(rs) + 1 # Null /\ rt[Len(rs) + 1] = x
           /\ DOMAIN rt = 1 .. (Len(rs) + 1) /\ Len(rs) + 1 \notin DOMAIN rs
           /\ PutAt(rs, rt, Len(rs) + 1)
<1>1. rs \in Seq(Row) /\ Len(rs) \in Nat /\ DOMAIN rs = 1 .. Len(rs)
    BY DEF RowsOK
<1>2. /\ DOMAIN rt = 1 .. (Len(rs) + 1) /\ rt[Len(rs) + 1] = x
      /\ \A n \in 1 .. Len(rs) : rt[n] = rs[n]
    BY <1>1
<1>3. DOMAIN rs \subseteq DOMAIN rt /\ Len(rs) + 1 \notin DOMAIN rs /\ Len(rs) + 1 # Null
    BY <1>1, <1>2 DEF Null
<1>4. \A n \in DOMAIN rt : n \in DOMAIN rs \/ n = Len(rs) + 1
    BY <1>1, <1>2
<1>5. \A n \in DOMAIN rs : SameRow(rs[n], rt[n])
    BY <1>1, <1>2 DEF SameRow
<1> QED
    BY <1>1, <1>2, <1>3, <1>4, <1>5 DEF PutAt

LEMMA InsertKeeps ==
    ASSUME TreeInv, TreeOn, Facts, NEW c \in Callers, Insert(c)
    PROVE  Facts'
<1>1. /\ call[c].at = "insert" /\ call[c] \in CallOf /\ Fits(call[c], rows)
      /\ ~Shifting(call[c]) /\ call[c].at # "idle" /\ call[c].at \in Creating /\ RowsOK(rows)
      /\ call[c].kind \in {"folder", "file", "document"}
    BY CallTypes DEF Insert, Shifting, Creating, Fits
<1>2. CallFacts(call[c], rows) /\ IsTree(rows)
    BY <1>1, Acting
<1>3. CASE Ends(c) /\ UNCHANGED rows
    BY <1>1, <1>3, EndsThere
<1>4. CASE ~(Ends(c) /\ UNCHANGED rows)
    <2>1. PICK m : m = Making(call[c])
        OBVIOUS
    <2>2. PICK x : x = [there |-> TRUE, parent |-> call[c].parent, path |-> m.path,
                          name |-> m.name, folder |-> m.folder, stored |-> FALSE,
                          text |-> NoText]
        OBVIOUS
    <2>3. /\ rows' = Append(rows, x)
          /\ m.folder \/ ~Taken(Null, m.path, m.name)
        BY <1>4, <2>1, <2>2 DEF Insert
    <2>4. m.path \in Seq(FolderNames) /\ m.name \in Names /\ m.folder \in BOOLEAN
        BY <1>1, <2>1, MakingTypes
    <2>5. x \in Row
        <3>1. call[c].parent \in Nat
            BY <1>1 DEF CallOf
        <3> QED
            BY <2>2, <2>4, <3>1, Constants DEF Row
    <2>6. PICK i : i = Len(rows) + 1
        OBVIOUS
    <2>7. i # Null /\ rows'[i] = x /\ i \notin DOMAIN rows /\ PutAt(rows, rows', i)
        BY <1>1, <2>3, <2>5, <2>6, RowAdded
    <2>8. ParentAt(rows, x.parent, x.path)
        BY <1>1, <1>2, <2>1, <2>2, FileMaking
           DEF CallFacts, FolderFacts, FileFacts, StageFacts, OnFolder
    <2>9. NoNode(rows, m.path, m.name)
        <3>1. CASE call[c].kind = "file"
            <4>1. m.path = call[c].path /\ m.name = call[c].name /\ m.folder = FALSE
                BY <2>1, <3>1, FileMaking
            <4>2. NoFolder(rows, Append(m.path, m.name))
                BY <1>1, <1>2, <3>1, <4>1 DEF CallFacts, FileFacts, StageFacts, OnFolder, Aim
            <4> SUFFICES ASSUME NEW k \in DOMAIN rows, AtPlace(rows, k, m.path, m.name) PROVE FALSE
                BY DEF NoNode
            <4>3. rows[k].folder
                <5>1. k \in At(m.path, m.name)
                    BY DEF At, Nodes, AtPlace
                <5>2. k # Null
                    BY <1>1, RowMeaning
                <5> QED
                    BY <2>3, <4>1, <5>1, <5>2 DEF Taken
            <4> QED
                BY <4>2, <4>3 DEF NoFolder, FolderAt, AtPlace
        <3>2. CASE call[c].kind # "file"
            BY <1>1, <1>2, <2>1, <3>2 DEF CallFacts, FolderFacts, OnFolder
        <3> QED
            BY <3>1, <3>2
    <2>10. IsTree(rows')
        <3>1. rows'[i].parent = x.parent /\ rows'[i].path = m.path /\ rows'[i].name = m.name
            BY <2>2, <2>7
        <3>2. \A k \in DOMAIN rows : AtPlace(rows, k, rows'[i].path, rows'[i].name) => k = i
            BY <2>9, <3>1 DEF NoNode
        <3>3. RowsOK(rows')
            BY DEF TreeOn, TreeInv
        <3> QED
            BY <1>1, <1>2, <2>2, <2>7, <2>8, <3>1, <3>2, <3>3, PutNode
    <2>11. \/ OnFolder(call[c])
           \/ \E n \in {call[c].id, Len(rows) + 1} :
                n # Null /\ PutAt(rows, rows', n) /\ ~(rows'[n].there /\ rows'[n].folder)
        <3>1. CASE call[c].kind = "file"
            <4>0. m.folder = FALSE /\ x.folder = m.folder
                BY <2>1, <2>2, <3>1, FileMaking
            <4>1. rows'[i].folder = FALSE
                BY <2>7, <4>0
            <4> QED
                BY <2>6, <2>7, <4>1
        <3>2. CASE call[c].kind # "file"
            BY <1>1, <3>2 DEF OnFolder
        <3> QED
            BY <3>1, <3>2
    <2>12. CASE Ends(c)
        BY <1>1, <2>10, <2>11, <2>12, EndFacts
    <2>13. CASE \/ call' = [call EXCEPT ![c].at = "store", ![c].id = Len(rows) + 1]
                \/ call' = [call EXCEPT ![c].at = "chain", ![c].part = @ + 1]
        <3>1. \A d \in Callers : d # c => call'[d] = call[d]
            BY <2>13 DEF TreeInv
        <3>2. PICK r \in CallOf : r = call'[c] /\ call' = [call EXCEPT ![c] = r]
            BY <3>1, OnlyCall
        <3>3. /\ r.kind = call[c].kind /\ r.id \in {call[c].id, Len(rows) + 1}
              /\ r.folder = call[c].folder /\ r.at \in {"chain", "store"}
            <4>1. CASE call' = [call EXCEPT ![c].at = "store", ![c].id = Len(rows) + 1]
                BY <1>1, <3>2, <4>1 DEF TreeInv, CallOf
            <4>2. CASE call' = [call EXCEPT ![c].at = "chain", ![c].part = @ + 1]
                BY <1>1, <3>2, <4>2 DEF TreeInv, CallOf
            <4> QED
                BY <2>13, <4>1, <4>2
        <3>4. CallFacts(r, rows')
            BY <1>1, <1>2, <3>3 DEF CallFacts, StageFacts, FolderFacts, FileFacts, Moving
        <3>5. OnFolder(r) => OnFolder(call[c])
            BY <3>3 DEF OnFolder
        <3> QED
            BY <1>1, <2>10, <2>11, <3>2, <3>3, <3>4, <3>5, StepOf
    <2> QED
        BY <1>4, <2>12, <2>13 DEF Insert
<1> QED
    BY <1>3, <1>4

-----------------------------------------------------------------------------
(* Calls that move something.                                              *)

\* A folder that is found, and not in the folder that moves, as the guard says.
LEMMA NotIntoItself ==
    ASSUME TreeInv, IsTree(rows), NEW r \in CallOf, r.folder, r.id \in DOMAIN rows, rows[r.id].there,
           r.from = Full(rows, r.id), NEW n, FolderAt(rows, n, r.path), ~IntoItself(r, n)
    PROVE  ~IsPrefix(r.from, r.path)
<1> SUFFICES ASSUME IsPrefix(r.from, r.path) PROVE FALSE
    OBVIOUS
<1>1. RowsOK(rows) /\ n \in DOMAIN rows /\ rows[n].there /\ r.path = Full(rows, n)
    BY DEF TreeInv, FolderAt, Full
<1>2. r.from \in Paths /\ r.path \in Paths /\ rows[n].path \in Paths
    BY <1>1, FullMeaning
<1>3. r.from = Full(rows, n) \/ IsPrefix(r.from, rows[n].path)
    BY <1>1, <1>2, FullMeaning
<1>4. CASE r.from = Full(rows, n)
    <2>0. PICK k \in DOMAIN rows : k = r.id
        OBVIOUS
    <2>1. rows[n].path = rows[k].path /\ rows[n].name = rows[k].name
        <3>1. Full(rows, n) = Full(rows, k)
            BY <1>4, <2>0
        <3> QED
            BY <1>1, <2>0, <3>1, FullsDiffer
    <2>2. n = r.id
        BY <1>1, <2>0, <2>1, TreeMeaning DEF Placed, AtPlace
    <2> QED
        BY <2>2 DEF IntoItself
<1>5. CASE IsPrefix(r.from, rows[n].path)
    <2>1. /\ Len(r.from) <= Len(rows[n].path)
          /\ \A i \in 1 .. Len(r.from) : r.from[i] = rows[n].path[i]
        BY <1>2, <1>5, PrefixMeaning
    <2>2. r.from # <<>> /\ Len(r.from) \in Nat /\ Len(r.from) # 0
        <3>1. r.from # <<>>
            BY <1>1, FullMeaning
        <3> QED
            BY <1>2, <3>1 DEF Paths
    <2>3. Last(r.from) = rows[n].path[Len(r.from)]
        BY <2>1, <2>2 DEF Last
    <2>4. IsPrefix(Front(r.from), rows[n].path)
        <3>1. Front(r.from) \in Paths /\ Last(r.from) \in Names
              /\ Append(Front(r.from), Last(r.from)) = r.from
            BY <1>2, <2>2, FrontAndLast
        <3>2. PICK q \in Paths : q = Front(r.from)
            BY <3>1
        <3>3. IsPrefix(q, r.from)
            BY <3>1, <3>2, AppendMeaning
        <3> QED
            BY <1>2, <1>5, <3>2, <3>3, PrefixTransitive
    <2> QED
        BY <2>1, <2>3, <2>4 DEF IntoItself, TextBegins
<1> QED
    BY <1>3, <1>4, <1>5

LEMMA TargetKeeps ==
    ASSUME TreeInv, TreeOn, Facts, NEW c \in Callers, Target(c)
    PROVE  Facts'
<1>1. /\ call[c].at = "target" /\ rows' = rows /\ call[c] \in CallOf /\ Fits(call[c], rows)
      /\ ~Shifting(call[c]) /\ call[c].at # "idle" /\ call[c].at \in Moving /\ RowsOK(rows)
    BY CallTypes DEF Target, Shifting, Moving
<1>2. CallFacts(call[c], rows) /\ IsTree(rows) /\ call[c].kind \in {"rename", "move"}
    BY <1>1, Acting DEF Fits
<1>3. CASE Ends(c)
    BY <1>1, <1>3, EndsThere
<1>4. CASE ~Ends(c)
    <2>0. PICK n \in FoundFolder(call[c].path) :
              /\ call[c].path # <<>> => IsFolder(n) /\ ~IntoItself(call[c], n)
              /\ call' = [call EXCEPT ![c].parent = n, ![c].at = "free"]
        BY <1>4 DEF Target
    <2>1. \A d \in Callers : d # c => call'[d] = call[d]
        BY <2>0 DEF TreeInv
    <2>2. PICK r \in CallOf : r = call'[c] /\ call' = [call EXCEPT ![c] = r]
        BY <2>1, OnlyCall
    <2>3. /\ r.kind = call[c].kind /\ r.id = call[c].id /\ r.folder = call[c].folder
          /\ r.from = call[c].from /\ r.path = call[c].path /\ r.name = call[c].name
          /\ r.todo = call[c].todo /\ r.at = "free" /\ r.parent = n
        BY <1>1, <2>0, <2>2 DEF TreeInv, CallOf
    <2>4. call[c].path \in Seq(FolderNames) /\ call[c].path \in Paths
        BY <1>1, NamesOfFolders DEF CallOf, Paths
    <2>5. ParentAt(rows, r.parent, r.path)
        BY <2>0, <2>3, <2>4, FolderFound
    <2>6. ASSUME r.folder PROVE FolderFacts(r, rows)
        <3>1. Movable(call[c], rows)
            BY <1>1, <1>2, <2>3, <2>6 DEF CallFacts, FolderFacts, OnFolder
        <3>2. ~IsPrefix(r.from, r.path)
            <4>1. CASE r.path = <<>>
                <5>1. r.from \in Paths /\ r.from # <<>>
                    BY <1>1, <2>3, <3>1, FullMeaning DEF Movable
                <5>2. Len(r.from) # 0 /\ Len(r.from) \in Nat /\ Len(r.path) = 0 /\ r.path \in Paths
                    BY <2>3, <2>4, <4>1, <5>1 DEF Paths
                <5> QED
                    BY <5>1, <5>2, PrefixMeaning
            <4>2. CASE r.path # <<>>
                <5>1. n # Null /\ ~IntoItself(call[c], n)
                    BY <2>0, <2>3, <4>2 DEF IsFolder
                <5>2. FolderAt(rows, n, call[c].path)
                    BY <2>3, <2>5, <5>1 DEF ParentAt
                <5> QED
                    BY <1>1, <1>2, <2>3, <2>6, <3>1, <5>1, <5>2, NotIntoItself DEF Movable
            <4> QED
                BY <4>1, <4>2
        <3>3. Movable(r, rows)
            BY <2>3, <2>5, <3>1, <3>2 DEF Movable, Aim
        <3> QED
            BY <1>2, <2>3, <3>3 DEF FolderFacts
    <2>7. ASSUME ~r.folder PROVE FileFacts(r, rows)
        <3>1. FileFacts(call[c], rows)
            BY <1>2, <2>3, <2>7 DEF CallFacts, OnFolder
        <3> QED
            BY <1>1, <1>2, <2>3, <2>5, <3>1 DEF FileFacts, Moving
    <2>8. CallFacts(r, rows)
        BY <1>2, <2>3, <2>6, <2>7 DEF CallFacts, StageFacts, OnFolder
    <2>9. OnFolder(r) => OnFolder(call[c])
        BY <2>3 DEF OnFolder
    <2> QED
        BY <1>1, <2>2, <2>3, <2>8, <2>9, GoesThere
<1> QED
    BY <1>3, <1>4

LEMMA FreeKeeps ==
    ASSUME TreeInv, TreeOn, Facts, NEW c \in Callers, Free(c)
    PROVE  Facts'
<1>1. /\ call[c].at = "free" /\ rows' = rows /\ call[c] \in CallOf /\ Fits(call[c], rows)
      /\ ~Shifting(call[c]) /\ call[c].at # "idle" /\ call[c].at \in Moving /\ RowsOK(rows)
    BY CallTypes DEF Free, Shifting, Moving
<1>2. CallFacts(call[c], rows) /\ IsTree(rows) /\ call[c].kind \in {"rename", "move"}
    BY <1>1, Acting DEF Fits
<1>3. CASE Ends(c)
    BY <1>1, <1>3, EndsThere
<1>4. CASE ~Ends(c)
    <2>0. PICK n \in Found(call[c].path, call[c].name) :
              /\ n \in {Null, call[c].id}
              /\ Goes(c, IF call[c].folder THEN "list" ELSE "shift")
        BY <1>4 DEF Free
    <2>1. \A d \in Callers : d # c => call'[d] = call[d]
        BY <2>0 DEF Goes, TreeInv
    <2>2. PICK r \in CallOf : r = call'[c] /\ call' = [call EXCEPT ![c] = r]
        BY <2>1, OnlyCall
    <2>3. /\ r.kind = call[c].kind /\ r.id = call[c].id /\ r.folder = call[c].folder
          /\ r.from = call[c].from /\ r.path = call[c].path /\ r.name = call[c].name
          /\ r.todo = call[c].todo /\ r.parent = call[c].parent
          /\ r.at = IF r.folder THEN "list" ELSE "shift"
        BY <1>1, <2>0, <2>2 DEF Goes, TreeInv, CallOf
    <2>4. r.path \in Paths /\ r.name \in Names
        BY NamesOfFolders DEF CallOf, Paths
    <2>5. CASE At(r.path, r.name) = {}
        <3>1. NoNode(rows, r.path, r.name)
            BY <2>5, NoneFound
        <3>2. NoFolder(rows, Aim(r))
            BY <1>1, <2>4, <3>1, NoNodeNoFolder DEF Aim
        <3>3. ASSUME r.folder PROVE FolderFacts(r, rows)
            <4>1. Movable(call[c], rows)
                BY <1>1, <1>2, <2>3, <3>3 DEF CallFacts, FolderFacts, OnFolder
            <4>2. Movable(r, rows)
                BY <1>1, <2>3, <3>1, <4>1 DEF Movable, Aim
            <4> QED
                BY <1>2, <2>3, <3>3, <4>2 DEF FolderFacts
        <3>4. ASSUME ~r.folder PROVE FileFacts(r, rows)
            <4>1. FileFacts(call[c], rows)
                BY <1>2, <2>3, <3>4 DEF CallFacts, OnFolder
            <4> QED
                BY <1>1, <1>2, <2>3, <3>2, <3>4, <4>1 DEF FileFacts, Moving
        <3>5. CallFacts(r, rows)
            BY <1>2, <2>3, <3>3, <3>4 DEF CallFacts, StageFacts, OnFolder
        <3>6. OnFolder(r) => OnFolder(call[c])
            BY <2>3 DEF OnFolder
        <3> QED
            BY <1>1, <2>2, <2>3, <3>5, <3>6, GoesThere
    <2>6. CASE At(r.path, r.name) # {}
        <3>1. n = r.id /\ n \in At(r.path, r.name)
            BY <2>0, <2>3, <2>6, FoundTypes DEF Found, Null
        <3>2. n \in DOMAIN rows /\ rows[n].there /\ Full(rows, n) = Aim(r)
            BY <3>1 DEF At, Nodes, Full, Aim
        <3>3. ~r.folder
            <4> SUFFICES ASSUME r.folder PROVE FALSE
                OBVIOUS
            <4>1. Movable(call[c], rows)
                BY <1>1, <1>2, <2>3 DEF CallFacts, FolderFacts, OnFolder
            <4> QED
                BY <2>3, <3>1, <3>2, <4>1 DEF Movable, Aim
        <3>4. ~rows[n].folder
            BY <1>1, <2>3, <3>1, <3>2, <3>3 DEF Fits, Moving
        <3>5. NoFolder(rows, Aim(r))
            BY <1>1, <1>2, <3>2, <3>4, OnePlace
        <3>6. FileFacts(call[c], rows)
            BY <1>2, <2>3, <3>3 DEF CallFacts, OnFolder
        <3>7. FileFacts(r, rows)
            BY <1>1, <1>2, <2>3, <3>3, <3>5, <3>6 DEF FileFacts, Moving
        <3>8. CallFacts(r, rows)
            BY <1>2, <2>3, <3>3, <3>7 DEF CallFacts, StageFacts, OnFolder
        <3>9. OnFolder(r) => OnFolder(call[c])
            BY <2>3 DEF OnFolder
        <3> QED
            BY <1>1, <2>2, <2>3, <3>8, <3>9, GoesThere
    <2> QED
        BY <2>5, <2>6
<1> QED
    BY <1>3, <1>4

LEMMA MovedFolders ==
    ASSUME NEW from \in Paths, NEW new \in Seq(FolderNames), NEW p \in Seq(FolderNames)
    PROVE  Moved(from, new, p) \in Seq(FolderNames)
<1>1. Len(from) \in Nat
    BY DEF Paths
<1>2. \A i \in (Len(from) + 1) .. Len(p) : p[i] \in FolderNames
    BY <1>1
<1>3. SubSeq(p, Len(from) + 1, Len(p)) \in Seq(FolderNames)
    BY <1>1, <1>2
<1> QED
    BY <1>3 DEF Moved

\* What is to move when everything below the folder is listed.
LEMMA ListedBelow ==
    ASSUME NEW rs, RowsOK(rs), IsTree(rs), NEW r, Movable(r, rs), r.at = "list",
           r.path \in Seq(FolderNames), r.name \in FolderNames, r.parent \in Nat,
           r.kind \in {"rename", "move"}, rs[r.id].folder,
           NEW s, s.kind = r.kind, s.id = r.id, s.path = r.path, s.name = r.name,
           s.parent = r.parent, s.from = r.from,
           s.todo = {[id |-> n, path |-> Moved(r.from, Aim(r), rs[n].path)] : n \in Under(rs, r.id)}
    PROVE  HalfMoved(s, rs)
<1>1. PICK i \in DOMAIN rs : i = r.id
    BY DEF Movable
<1>2. rs[i].there /\ rs[i].folder
    BY <1>1 DEF Movable
<1>3. PICK from \in Paths : from = r.from /\ from = Full(rs, i)
    BY <1>1, FullMeaning DEF Movable
<1>4. r.path \in Paths /\ r.name \in Names
    BY NamesOfFolders, Constants DEF Paths
<1>5. Aim(r) \in Seq(FolderNames)
    BY DEF Aim
<1>6. PICK new \in Paths : new = Aim(r) /\ new = Append(r.path, r.name)
    BY <1>5, NamesOfFolders DEF Paths, Aim
<1>7. /\ from # <<>> /\ new # <<>> /\ new # from
      /\ Len(from) = Len(rs[i].path) + 1 /\ Len(rs[i].path) \in Nat
      /\ Len(new) = Len(r.path) + 1 /\ Len(r.path) \in Nat
      /\ rs[i].path \in Paths
    <2>1. from # <<>> /\ Len(from) = Len(rs[i].path) + 1 /\ Len(rs[i].path) \in Nat
          /\ rs[i].path \in Paths
        BY <1>1, <1>3, FullMeaning
    <2>2. new # <<>> /\ Len(new) = Len(r.path) + 1 /\ Len(r.path) \in Nat
        BY <1>4, <1>6, AppendMeaning
    <2>3. new # from
        BY <1>3, <1>6 DEF Movable
    <2> QED
        BY <2>1, <2>2, <2>3
<1>8. ~IsPrefix(from, new)
    <2> SUFFICES ASSUME IsPrefix(from, new) PROVE FALSE
        OBVIOUS
    <2>1. CASE r.kind = "rename"
        <3>1. Len(from) = Len(new)
            BY <1>1, <1>7, <2>1 DEF Movable
        <3>2. \A j \in 1 .. Len(from) : from[j] = new[j]
            BY PrefixMeaning
        <3> QED
            BY <1>7, <3>1, <3>2, PathsEqual
    <2>2. CASE r.kind = "move"
        <3>1. ~IsPrefix(from, r.path)
            BY <1>3, <2>2 DEF Movable
        <3> QED
            BY <1>4, <1>6, <1>7, <3>1, PrefixOfAppend
    <2> QED
        BY <2>1, <2>2
<1>9. NoFolder(rs, new)
    BY <1>4, <1>6, NoNodeNoFolder DEF Movable
<1>10. ~IsPrefix(new, from)
    <2>1. ~IsPrefix(new, rs[i].path)
        BY <1>2, <1>7, <1>9, NothingBelow
    <2> QED
        BY <1>3, <1>7, <2>1, FullMeaning
<1>11. PICK parent \in Nat : parent = IF r.kind = "move" THEN r.parent ELSE rs[i].parent
    BY RowMeaning
<1>12. ParentAt(rs, parent, r.path)
    <2>1. CASE r.kind = "rename"
        BY <1>1, <1>2, <1>11, <2>1, TreeMeaning DEF Placed, Movable
    <2>2. CASE r.kind = "move"
        BY <1>11, <2>2 DEF Movable
    <2> QED
        BY <2>1, <2>2
<1>13. PICK rt : rt = [n \in DOMAIN rs |->
            [there |-> rs[n].there, parent |-> IF n = i THEN parent ELSE rs[n].parent,
             path |-> IF n = i THEN r.path
                      ELSE IF n \in Under(rs, i) THEN Moved(from, new, rs[n].path)
                      ELSE rs[n].path,
             name |-> IF n = i THEN r.name ELSE rs[n].name, folder |-> rs[n].folder,
             stored |-> rs[n].stored, text |-> rs[n].text]]
    OBVIOUS
<1>14. DOMAIN rt = DOMAIN rs
    BY <1>13
<1>15. ASSUME NEW n \in DOMAIN rs
       PROVE  /\ rt[n].there = rs[n].there /\ rt[n].folder = rs[n].folder
              /\ rt[n].parent = IF n = i THEN parent ELSE rs[n].parent
              /\ rt[n].name = IF n = i THEN r.name ELSE rs[n].name
              /\ rt[n].path = IF n = i THEN r.path
                      ELSE IF n \in Under(rs, i) THEN Moved(from, new, rs[n].path)
                      ELSE rs[n].path
              /\ rt[n].stored = rs[n].stored /\ rt[n].text = rs[n].text
    BY <1>13
<1>16. RowsOK(rt)
    <2>1. ASSUME NEW n \in DOMAIN rs PROVE rt[n] \in Row
        <3>1. /\ rs[n] \in Row /\ rs[n].path \in Seq(FolderNames)
              /\ rs[n].there \in BOOLEAN /\ rs[n].folder \in BOOLEAN /\ rs[n].parent \in Nat
              /\ rs[n].name \in Names /\ rs[n].stored \in BOOLEAN /\ rs[n].text \in Text
            BY RowMeaning DEF Row
        <3>2. Moved(from, new, rs[n].path) \in Seq(FolderNames)
            BY <1>5, <1>6, <3>1, MovedFolders
        <3>3. PICK p \in Seq(FolderNames) : p = rt[n].path
            BY <1>15, <3>1, <3>2
        <3>4. PICK m \in Names : m = rt[n].name
            BY <1>4, <1>15, <3>1
        <3>5. PICK q \in Nat : q = rt[n].parent
            BY <1>15, <3>1
        <3>6. rt[n] = [there |-> rs[n].there, parent |-> q, path |-> p, name |-> m,
                       folder |-> rs[n].folder, stored |-> rs[n].stored, text |-> rs[n].text]
            BY <1>13, <3>3, <3>4, <3>5
        <3> QED
            BY <3>1, <3>6 DEF Row
    <2>2. rt \in Seq(Row)
        <3>1. Len(rs) \in Nat /\ DOMAIN rs = 1 .. Len(rs)
            BY <1>1, RowMeaning
        <3>2. rt \in [1 .. Len(rs) -> Row]
            BY <1>13, <2>1, <3>1
        <3> QED
            BY <3>1, <3>2
    <2>3. \A n \in DOMAIN rt : rt[n].folder => rt[n].name \in FolderNames
        BY <1>14, <1>15 DEF RowsOK
    <2> QED
        BY <2>2, <2>3 DEF RowsOK
<1>17. Full(rt, i) = new
    BY <1>6, <1>15 DEF Full
<1>18. ASSUME NEW n \in DOMAIN rs, n # i, rs[n].there
       PROVE  rt[n].path = Moved(from, new, rs[n].path)
    <2>1. n \in Under(rs, i) <=> IsPrefix(from, rs[n].path)
        BY <1>3, <1>18 DEF Under
    <2> QED
        BY <1>15, <1>18, <2>1 DEF Moved
<1>19. IsTree(rt)
    <2>1. ParentAt(rs, rt[i].parent, rt[i].path) /\ NoNode(rs, rt[i].path, rt[i].name)
        BY <1>12, <1>15 DEF Movable
    <2>2. rt[i].there /\ rt[i].folder
        BY <1>2, <1>15
    <2> QED
        BY <1>2, <1>3, <1>8, <1>10, <1>14, <1>15, <1>16, <1>17, <1>18, <2>1, <2>2, MoveFolder
<1>20. i \notin Under(rs, i)
    <2>1. ~(Len(from) <= Len(rs[i].path))
        BY <1>7
    <2> QED
        BY <1>3, <1>7, <2>1, PrefixMeaning DEF Under
<1>21. ASSUME NEW x \in s.todo
       PROVE  /\ x.id \in Under(rs, i) /\ x.id \in DOMAIN rs /\ rs[x.id].there /\ x.id # i
              /\ IsPrefix(from, rs[x.id].path) /\ x.path = Moved(from, new, rs[x.id].path)
              /\ IsPrefix(new, x.path)
    <2>1. PICK n \in Under(rs, i) : x = [id |-> n, path |-> Moved(from, new, rs[n].path)]
        BY <1>1, <1>3, <1>6
    <2>2. n \in DOMAIN rs /\ rs[n].there /\ n # i /\ IsPrefix(from, rs[n].path)
        BY <1>3, <1>20, <2>1 DEF Under
    <2>3. rs[n].path \in Paths
        BY <2>2, RowMeaning
    <2>4. IsPrefix(new, Moved(from, new, rs[n].path))
        BY <2>2, <2>3, MovedMeaning
    <2> QED
        BY <2>1, <2>2, <2>4
<1>22. Between(s, rs, rt)
    <2>1. ASSUME NEW n \in DOMAIN rs, n # i, \A x \in s.todo : x.id # n
          PROVE  rt[n].path = rs[n].path
        <3>1. n \notin Under(rs, i)
            <4> SUFFICES ASSUME n \in Under(rs, i) PROVE FALSE
                OBVIOUS
            <4>1. PICK x : x = [id |-> n, path |-> Moved(r.from, Aim(r), rs[n].path)]
                OBVIOUS
            <4>2. x \in s.todo /\ x.id = n
                BY <1>1, <4>1
            <4> QED
                BY <2>1, <4>2
        <3> QED
            BY <1>15, <2>1, <3>1
    <2>2. rt[i].name = IF s.kind = "rename" THEN s.name ELSE rs[i].name
        BY <1>1, <1>15 DEF Movable
    <2>3. rt[i].path = s.path /\ rt[i].parent = IF s.kind = "move" THEN s.parent ELSE rs[i].parent
        BY <1>11, <1>15
    <2>4. \A x \in s.todo : rt[x.id].path = x.path
        BY <1>15, <1>21
    <2> QED
        BY <1>1, <1>14, <1>15, <2>1, <2>2, <2>3, <2>4 DEF Between
<1>23. Aim(s) = new
    BY <1>6 DEF Aim
<1> QED
    BY <1>1, <1>2, <1>3, <1>8, <1>10, <1>19, <1>21, <1>22, <1>23 DEF HalfMoved

LEMMA ListKeeps ==
    ASSUME TreeInv, TreeOn, Facts, NEW c \in Callers, List(c)
    PROVE  Facts'
<1>1. /\ call[c].at = "list" /\ rows' = rows /\ call[c] \in CallOf /\ Fits(call[c], rows)
      /\ ~Shifting(call[c]) /\ call[c].at # "idle" /\ call[c].at \in Moving /\ RowsOK(rows)
    BY CallTypes DEF List, Shifting, Moving
<1>2. /\ CallFacts(call[c], rows) /\ IsTree(rows) /\ call[c].kind \in {"rename", "move"}
      /\ call[c].folder /\ call[c].name \in FolderNames
    BY <1>1, Acting DEF Fits
<1>3. OnFolder(call[c]) /\ Movable(call[c], rows)
    BY <1>1, <1>2 DEF CallFacts, FolderFacts, OnFolder
<1>4. PICK new : new = Aim(call[c])
    OBVIOUS
<1>5. PICK todo : todo = {[id |-> n, path |-> new \o SubSeq(rows[n].path,
             Len(call[c].from) + 1, Len(rows[n].path))] : n \in Below(call[c].from)}
    OBVIOUS
<1>6. call' = [call EXCEPT ![c].at = "shift", ![c].todo = todo]
    BY <1>4, <1>5 DEF List, Aim
<1>7. \A d \in Callers : d # c => call'[d] = call[d]
    BY <1>6 DEF TreeInv
<1>8. PICK r \in CallOf : r = call'[c] /\ call' = [call EXCEPT ![c] = r]
    BY <1>7, OnlyCall
<1>9. /\ r.kind = call[c].kind /\ r.id = call[c].id /\ r.folder = call[c].folder
      /\ r.from = call[c].from /\ r.path = call[c].path /\ r.name = call[c].name
      /\ r.parent = call[c].parent /\ r.at = "shift" /\ r.todo = todo
    BY <1>1, <1>6, <1>8 DEF TreeInv, CallOf
<1>10. Below(call[c].from) = Under(rows, call[c].id)
    BY <1>3 DEF Movable, Below, Nodes, Under
<1>11. todo = {[id |-> n, path |-> Moved(call[c].from, new, rows[n].path)] :
                 n \in Under(rows, call[c].id)}
    <2>1. ASSUME NEW n \in Below(call[c].from)
          PROVE  new \o SubSeq(rows[n].path, Len(call[c].from) + 1, Len(rows[n].path))
                   = Moved(call[c].from, new, rows[n].path)
        BY <2>1 DEF Below, Moved
    <2> DEFINE X(n) == [id |-> n, path |-> new \o SubSeq(rows[n].path,
                          Len(call[c].from) + 1, Len(rows[n].path))]
    <2> DEFINE Y(n) == [id |-> n, path |-> Moved(call[c].from, new, rows[n].path)]
    <2>2. \A n \in Below(call[c].from) : X(n) = Y(n)
        BY <2>1
    <2>3. todo = {X(n) : n \in Below(call[c].from)}
        BY <1>5
    <2> HIDE DEF X, Y
    <2>4. todo = {Y(n) : n \in Below(call[c].from)}
        BY <2>2, <2>3
    <2> QED
        BY <1>10, <2>4 DEF Y
<1>12. HalfMoved(r, rows)
    <2>1. rows[call[c].id].folder
        BY <1>1, <1>2, <1>3 DEF Fits, Movable
    <2>2. call[c].path \in Seq(FolderNames) /\ call[c].parent \in Nat
        BY <1>1 DEF CallOf
    <2> QED
        BY <1>1, <1>2, <1>3, <1>4, <1>9, <1>11, <2>1, <2>2, ListedBelow
<1>13. CallFacts(r, rows)
    BY <1>2, <1>3, <1>9, <1>12 DEF CallFacts, StageFacts, FolderFacts, OnFolder
<1>14. ~Shifting(call[c]) /\ (OnFolder(r) => OnFolder(call[c]))
    BY <1>1, <1>3
<1> QED
    BY <1>1, <1>8, <1>9, <1>13, <1>14, GoesThere

\* No file is in the way of what moves along with its folder.
LEMMA NotTaken ==
    ASSUME TreeInv, NEW r \in CallOf, HalfMoved(r, rows), r.name \in FolderNames, r.from \in Paths,
           r.todo \subseteq Shifted, rows[r.id].folder, NEW x \in r.todo
    PROVE  ~Taken(x.id, x.path, rows[x.id].name)
<1> SUFFICES ASSUME NEW k \in At(x.path, rows[x.id].name) \ {x.id}, ~rows[k].folder PROVE FALSE
    BY DEF Taken
<1>1. /\ k \in DOMAIN rows /\ rows[k].there /\ rows[k].path = x.path
      /\ rows[k].name = rows[x.id].name /\ k # x.id /\ k # r.id
    BY DEF At, Nodes
<1>2. x.id \in DOMAIN rows /\ rows[x.id].there /\ x.id # r.id /\ IsPrefix(Aim(r), x.path)
    BY DEF HalfMoved
<1>3. PICK rt : IsTree(rt) /\ Between(r, rows, rt)
    BY DEF HalfMoved
<1>4. x.path \in Paths /\ Aim(r) \in Paths
    <2>1. x.path \in Seq(FolderNames) /\ r.path \in Seq(FolderNames)
        BY DEF Shifted, CallOf
    <2>2. r.path \in Paths /\ r.name \in Names /\ x.path \in Paths
        BY <2>1, NamesOfFolders, Constants DEF Paths
    <2> QED
        BY <2>2, AppendMeaning DEF Aim
<1>5. CASE \E y \in r.todo : y.id = k
    <2>1. IsPrefix(r.from, x.path)
        BY <1>1, <1>5 DEF HalfMoved
    <2>2. IsPrefix(r.from, Aim(r)) \/ IsPrefix(Aim(r), r.from)
        BY <1>2, <1>4, <2>1, PrefixesCompare
    <2> QED
        BY <2>2 DEF HalfMoved
<1>6. CASE \A y \in r.todo : y.id # k
    <2>1. rt[k].path = x.path /\ rt[k].name = rows[x.id].name /\ rt[k].there /\ k \in DOMAIN rt
        BY <1>1, <1>3, <1>6 DEF Between
    <2>2. /\ rt[x.id].path = x.path /\ rt[x.id].name = rows[x.id].name /\ rt[x.id].there
          /\ x.id \in DOMAIN rt
        BY <1>2, <1>3 DEF Between
    <2> QED
        BY <1>1, <1>3, <2>1, <2>2, TreeMeaning DEF Placed, AtPlace
<1> QED
    BY <1>5, <1>6

\* One row less to move; where the folder will be stays the same.
LEMMA OneMoved ==
    ASSUME NEW rs, RowsOK(rs), NEW r, HalfMoved(r, rs), r.todo \subseteq Shifted,
           NEW x \in r.todo, NEW rt, rt = [rs EXCEPT ![x.id].path = x.path],
           NEW s, s.kind = r.kind, s.id = r.id, s.path = r.path, s.name = r.name,
           s.parent = r.parent, s.from = r.from, s.todo = r.todo \ {x}
    PROVE  HalfMoved(s, rt)
<1>1. PICK ru : IsTree(ru) /\ Between(r, rs, ru)
    BY DEF HalfMoved
<1>2. x.id \in DOMAIN rs /\ x.id # r.id
    BY DEF HalfMoved
<1>3. DOMAIN rt = DOMAIN rs
    OBVIOUS
<1>4. ASSUME NEW n \in DOMAIN rs
      PROVE  /\ rt[n].there = rs[n].there /\ rt[n].folder = rs[n].folder
             /\ rt[n].parent = rs[n].parent /\ rt[n].name = rs[n].name
             /\ rt[n].path = IF n = x.id THEN x.path ELSE rs[n].path
    <2>1. rs[n] \in Row
        BY RowMeaning
    <2>2. CASE n = x.id
        <3>1. rt[n] = [rs[n] EXCEPT !.path = x.path]
            BY <1>2, <2>2
        <3> QED
            BY <2>1, <2>2, <3>1 DEF Row
    <2>3. CASE n # x.id
        BY <2>3
    <2> QED
        BY <2>2, <2>3
<1>5. ASSUME NEW y \in s.todo PROVE y.id # x.id /\ y \in r.todo
    <2> SUFFICES ASSUME y.id = x.id PROVE FALSE
        OBVIOUS
    <2>1. ru[y.id].path = y.path /\ ru[x.id].path = x.path
        BY <1>1 DEF Between
    <2>2. y \in Shifted /\ x \in Shifted
        OBVIOUS
    <2>3. y = x
        BY <2>1, <2>2 DEF Shifted
    <2> QED
        BY <2>3
<1>6. Aim(s) = Aim(r)
    BY DEF Aim
<1>7. Between(s, rt, ru)
    <2>1. ASSUME NEW n \in DOMAIN rt, n # s.id, \A y \in s.todo : y.id # n
          PROVE  ru[n].path = rt[n].path
        <3>1. CASE n = x.id
            <4>1. ru[x.id].path = x.path
                BY <1>1 DEF Between
            <4>2. rt[x.id].path = x.path
                BY <1>2, <1>4
            <4> QED
                BY <3>1, <4>1, <4>2
        <3>2. CASE n # x.id
            <4>1. \A y \in r.todo : y.id # n
                BY <2>1, <3>2
            <4> QED
                BY <1>1, <1>3, <1>4, <2>1, <3>2, <4>1 DEF Between
        <3> QED
            BY <3>1, <3>2
    <2>2. \A y \in s.todo : ru[y.id].path = y.path
        BY <1>1 DEF Between
    <2>3. DOMAIN ru = DOMAIN rt
        BY <1>1, <1>3 DEF Between
    <2>4. ASSUME NEW n \in DOMAIN rt
          PROVE  /\ ru[n].there = rt[n].there /\ ru[n].folder = rt[n].folder
                 /\ n = s.id => /\ ru[n].path = s.path
                                /\ ru[n].name = IF s.kind = "rename" THEN s.name ELSE rt[n].name
                                /\ ru[n].parent = IF s.kind = "move" THEN s.parent ELSE rt[n].parent
                 /\ n # s.id => ru[n].parent = rt[n].parent /\ ru[n].name = rt[n].name
        BY <1>1, <1>3, <1>4 DEF Between
    <2> QED
        BY <2>1, <2>2, <2>3, <2>4 DEF Between
<1>8. \A y \in s.todo : /\ y.id \in DOMAIN rt /\ rt[y.id].there /\ y.id # s.id
                        /\ IsPrefix(s.from, rt[y.id].path) /\ IsPrefix(Aim(s), y.path)
    BY <1>3, <1>4, <1>5, <1>6 DEF HalfMoved
<1>9. s.id \in DOMAIN rt /\ rt[s.id].there
    BY <1>3, <1>4 DEF HalfMoved
<1> QED
    BY <1>1, <1>6, <1>7, <1>8, <1>9 DEF HalfMoved

LEMMA ShiftKeeps ==
    ASSUME TreeInv, TreeOn, Facts, NEW c \in Callers, Shift(c)
    PROVE  Facts'
<1>1. /\ call[c].at = "shift" /\ call[c] \in CallOf /\ Fits(call[c], rows)
      /\ call[c].at # "idle" /\ call[c].at \in Moving /\ RowsOK(rows)
    BY CallTypes DEF Shift, Moving
<1>2. CallFacts(call[c], rows) /\ call[c].kind \in {"rename", "move"}
    BY <1>1, Acting DEF Fits
<1>3. PICK x \in call[c].todo :
         IF rows[x.id].there /\ ~rows[x.id].folder /\ Taken(x.id, x.path, rows[x.id].name)
           THEN Ends(c) /\ UNCHANGED rows
           ELSE /\ call' = [call EXCEPT ![c].todo = @ \ {x}]
                /\ rows' = IF rows[x.id].there THEN [rows EXCEPT ![x.id].path = x.path]
                           ELSE rows
    BY DEF Shift
<1>4. call[c].folder /\ OnFolder(call[c])
    BY <1>1, <1>2, <1>3 DEF CallFacts, OnFolder, FileFacts
<1>5. HalfMoved(call[c], rows)
    BY <1>1, <1>2, <1>4 DEF CallFacts, FolderFacts
<1>6. /\ call[c].name \in FolderNames /\ call[c].todo \subseteq Shifted /\ rows[call[c].id].folder
      /\ call[c].from \in Paths
    BY <1>1, <1>4, <1>5 DEF Fits, HalfMoved, CallOf, Paths
<1>7. ~Taken(x.id, x.path, rows[x.id].name)
    BY <1>1, <1>5, <1>6, NotTaken
<1>8. rows[x.id].there
    BY <1>5 DEF HalfMoved
<1>9. /\ call' = [call EXCEPT ![c].todo = @ \ {x}]
      /\ rows' = [rows EXCEPT ![x.id].path = x.path]
    BY <1>3, <1>7, <1>8
<1>10. \A d \in Callers : d # c => call'[d] = call[d]
    BY <1>9 DEF TreeInv
<1>11. PICK r \in CallOf : r = call'[c] /\ call' = [call EXCEPT ![c] = r]
    BY <1>10, OnlyCall
<1>12. /\ r.kind = call[c].kind /\ r.id = call[c].id /\ r.folder = call[c].folder
       /\ r.from = call[c].from /\ r.path = call[c].path /\ r.name = call[c].name
       /\ r.parent = call[c].parent /\ r.at = "shift" /\ r.todo = call[c].todo \ {x}
    BY <1>1, <1>9, <1>11 DEF TreeInv, CallOf
<1>13. HalfMoved(r, rows')
    BY <1>1, <1>5, <1>6, <1>9, <1>12, OneMoved
<1>14. CallFacts(r, rows')
    BY <1>2, <1>4, <1>12, <1>13 DEF CallFacts, StageFacts, FolderFacts, OnFolder
<1>15. Shifting(r)
    BY <1>4, <1>12 DEF Shifting
<1> QED
    BY <1>1, <1>4, <1>11, <1>12, <1>14, <1>15, StepOf

\* A call has its work on the rows done.
LEMMA ToldKeeps ==
    ASSUME TreeInv, TreeOn, Facts, NEW c \in Callers, call[c].at # "idle",
           call[c].kind # "delete", NEW evs, Told(c, evs), IsTree(rows'),
           \/ OnFolder(call[c])
           \/ SameShape(rows, rows')
           \/ \E i \in {call[c].id, Len(rows) + 1} :
                i # Null /\ PutAt(rows, rows', i) /\ ~(rows'[i].there /\ rows'[i].folder)
    PROVE  Facts'
<1>1. call[c] \in CallOf /\ CallFacts(call[c], rows)
    BY Acting
<1>2. CASE Ends(c)
    BY <1>2, EndFacts
<1>3. CASE ~Ends(c)
    <2>1. \/ Goes(c, "done")
          \/ evs # {} /\ call' = [call EXCEPT ![c].at = "tell", ![c].tell = evs]
        BY <1>3 DEF Told
    <2>2. \A d \in Callers : d # c => call'[d] = call[d]
        BY <2>1 DEF Goes, TreeInv
    <2>3. PICK r \in CallOf : r = call'[c] /\ call' = [call EXCEPT ![c] = r]
        BY <2>2, OnlyCall
    <2>4. /\ r.kind = call[c].kind /\ r.id = call[c].id /\ r.folder = call[c].folder
          /\ r.at \in {"done", "tell"} /\ (r.at = "tell" => r.tell # {})
        <3>1. CASE Goes(c, "done")
            BY <1>1, <2>3, <3>1 DEF Goes, TreeInv, CallOf
        <3>2. CASE evs # {} /\ call' = [call EXCEPT ![c].at = "tell", ![c].tell = evs]
            BY <1>1, <2>3, <3>2 DEF TreeInv, CallOf
        <3> QED
            BY <2>1, <3>1, <3>2
    <2>5. CallFacts(r, rows')
        BY <1>1, <2>4 DEF CallFacts, StageFacts, FolderFacts, FileFacts, Moving
    <2>6. OnFolder(r) => OnFolder(call[c])
        BY <2>4 DEF OnFolder
    <2>7. r # Idle => /\ OnFolder(r) => OnFolder(call[c])
                      /\ r.id \in {call[c].id, Len(rows) + 1}
                      /\ CallFacts(r, rows')
        BY <2>4, <2>5, <2>6
    <2> QED
        BY <2>3, <2>7, StepOf
<1> QED
    BY <1>2, <1>3

\* The last row of a move: of a folder, where the tree was to be.
LEMMA FolderWritten ==
    ASSUME TreeInv, NEW r \in CallOf, HalfMoved(r, rows), r.todo = {}, r.kind \in {"rename", "move"},
           NEW rt, rt = [rows EXCEPT ![r.id] =
                          [@ EXCEPT !.path = r.path,
                                    !.name = IF r.kind = "rename" THEN r.name ELSE rows[r.id].name,
                                    !.parent = IF r.kind = "move" THEN r.parent
                                               ELSE rows[r.id].parent]]
    PROVE  IsTree(rt)
<1>1. PICK ru : IsTree(ru) /\ Between(r, rows, ru)
    BY DEF HalfMoved
<1>2. r.id \in DOMAIN rows /\ rows[r.id] \in Row
    BY RowTypes DEF HalfMoved
<1>3. DOMAIN rt = DOMAIN rows /\ DOMAIN ru = DOMAIN rows
    BY <1>1 DEF Between
<1>4. SameRow(ru[r.id], rt[r.id])
    <2>1. PICK x : x = rt[r.id]
        OBVIOUS
    <2>2. x = [rows[r.id] EXCEPT !.path = r.path,
                                 !.name = IF r.kind = "rename" THEN r.name ELSE rows[r.id].name,
                                 !.parent = IF r.kind = "move" THEN r.parent
                                            ELSE rows[r.id].parent]
        BY <1>2, <2>1
    <2>3. /\ x.there = rows[r.id].there /\ x.folder = rows[r.id].folder /\ x.path = r.path
          /\ x.name = IF r.kind = "rename" THEN r.name ELSE rows[r.id].name
          /\ x.parent = IF r.kind = "move" THEN r.parent ELSE rows[r.id].parent
        BY <1>2, <2>2 DEF Row
    <2>4. /\ ru[r.id].there = rows[r.id].there /\ ru[r.id].folder = rows[r.id].folder
          /\ ru[r.id].path = r.path
          /\ ru[r.id].name = IF r.kind = "rename" THEN r.name ELSE rows[r.id].name
          /\ ru[r.id].parent = IF r.kind = "move" THEN r.parent ELSE rows[r.id].parent
        BY <1>1, <1>2 DEF Between
    <2> QED
        BY <2>1, <2>3, <2>4 DEF SameRow
<1>5. ASSUME NEW n \in DOMAIN rows, n # r.id PROVE SameRow(ru[n], rt[n])
    <2>1. rt[n] = rows[n]
        BY <1>5
    <2>2. /\ ru[n].there = rows[n].there /\ ru[n].folder = rows[n].folder
          /\ ru[n].parent = rows[n].parent /\ ru[n].name = rows[n].name
          /\ ru[n].path = rows[n].path
        BY <1>1, <1>5 DEF Between
    <2> QED
        BY <2>1, <2>2 DEF SameRow
<1>6. SameShape(ru, rt)
    BY <1>3, <1>4, <1>5 DEF SameShape
<1> QED
    BY <1>1, <1>6, ShapeTree

\* And of a file, at a free place of a folder.
LEMMA FileWritten ==
    ASSUME TreeInv, IsTree(rows), NEW r \in CallOf, ~r.folder, r.kind \in {"rename", "move"},
           r.at = "shift", Fits(r, rows), FileFacts(r, rows), rows[r.id].there,
           NEW name, name = IF r.kind = "rename" THEN r.name ELSE rows[r.id].name,
           ~Taken(r.id, r.path, name),
           NEW rt, RowsOK(rt), rt = [rows EXCEPT ![r.id] =
                          [@ EXCEPT !.path = r.path, !.name = name,
                                    !.parent = IF r.kind = "move" THEN r.parent
                                               ELSE rows[r.id].parent]]
    PROVE  IsTree(rt) /\ r.id # Null /\ PutAt(rows, rt, r.id) /\ ~(rt[r.id].there /\ rt[r.id].folder)
<1>1. PICK i \in DOMAIN rows : i = r.id
    BY DEF Fits, Moving
<1>2. RowsOK(rows) /\ rows[i] \in Row /\ i # Null /\ ~rows[i].folder /\ rows[i].there
    BY <1>1, RowMeaning DEF TreeInv, Fits, Moving
<1>3. name = r.name
    BY <1>1, <1>2 DEF FileFacts, Moving
<1>4. PICK parent : parent = IF r.kind = "move" THEN r.parent ELSE rows[i].parent
    OBVIOUS
<1>5. PICK x : x = rt[i]
    OBVIOUS
<1>6. x = [rows[i] EXCEPT !.path = r.path, !.name = name, !.parent = parent]
    BY <1>1, <1>4, <1>5
<1>7. /\ x.there = rows[i].there /\ x.folder = rows[i].folder /\ x.path = r.path
      /\ x.name = r.name /\ x.parent = parent
    BY <1>2, <1>3, <1>6 DEF Row
<1>8. PutAt(rows, rt, i)
    <2>1. DOMAIN rt = DOMAIN rows
        OBVIOUS
    <2>2. \A n \in DOMAIN rows : n # i => rt[n] = rows[n]
        BY <1>1
    <2> QED
        BY <1>2, <2>1, <2>2 DEF PutAt, SameRow
<1>9. ParentAt(rows, parent, r.path)
    <2>1. CASE r.kind = "rename"
        <3>1. rows[i].path = r.path
            BY <1>1, <1>2, <2>1 DEF FileFacts, Moving
        <3> QED
            BY <1>2, <1>4, <2>1, <3>1, TreeMeaning DEF Placed
    <2>2. CASE r.kind = "move"
        BY <1>4, <2>2 DEF FileFacts
    <2> QED
        BY <2>1, <2>2
<1>10. ASSUME NEW k \in DOMAIN rows, AtPlace(rows, k, r.path, r.name) PROVE k = i
    <2>1. ~rows[k].folder
        <3>1. NoFolder(rows, Aim(r))
            BY DEF FileFacts
        <3> QED
            BY <1>10, <3>1 DEF NoFolder, FolderAt, AtPlace, Aim
    <2>2. k \in At(r.path, name)
        BY <1>3, <1>10 DEF At, Nodes, AtPlace
    <2> QED
        BY <1>1, <2>1, <2>2 DEF Taken
<1>11. IsTree(rt)
    <2>1. ParentAt(rows, rt[i].parent, rt[i].path)
        BY <1>5, <1>7, <1>9
    <2>2. \A k \in DOMAIN rows : AtPlace(rows, k, rt[i].path, rt[i].name) => k = i
        BY <1>5, <1>7, <1>10
    <2> QED
        BY <1>2, <1>8, <2>1, <2>2, PutNode
<1> QED
    BY <1>1, <1>2, <1>5, <1>7, <1>8, <1>11

LEMMA WriteKeeps ==
    ASSUME TreeInv, TreeOn, Facts, NEW c \in Callers, Write(c)
    PROVE  Facts'
<1>1. /\ call[c].at = "shift" /\ call[c].todo = {} /\ call[c] \in CallOf /\ Fits(call[c], rows)
      /\ call[c].at # "idle" /\ call[c].at \in Moving /\ RowsOK(rows) /\ RowsOK(rows')
    BY CallTypes DEF Write, Moving, TreeOn, TreeInv
<1>2. CallFacts(call[c], rows) /\ call[c].kind \in {"rename", "move"}
    BY <1>1, Acting DEF Fits
<1>3. PICK name : name = IF call[c].kind = "rename" THEN call[c].name ELSE rows[call[c].id].name
    OBVIOUS
<1>4. PICK rt : rt = [rows EXCEPT ![call[c].id] =
                          [@ EXCEPT !.path = call[c].path, !.name = name,
                                    !.parent = IF call[c].kind = "move" THEN call[c].parent
                                               ELSE rows[call[c].id].parent]]
    OBVIOUS
<1>5. PICK evs : evs = IF name \notin Concepts THEN {}
                       ELSE Tells(c, "move", call[c].path, name, Front(call[c].from))
    OBVIOUS
<1>6. CASE call[c].folder
    <2>1. OnFolder(call[c]) /\ HalfMoved(call[c], rows)
        BY <1>1, <1>2, <1>6 DEF CallFacts, FolderFacts, OnFolder
    <2>2. rows[call[c].id].there /\ rows[call[c].id].folder
        BY <1>1, <1>6, <2>1 DEF HalfMoved, Fits
    <2>3. rows' = rt /\ Told(c, evs)
        BY <1>1, <1>3, <1>4, <1>5, <2>2 DEF Write
    <2>4. IsTree(rows')
        BY <1>1, <1>2, <1>3, <1>4, <2>1, <2>3, FolderWritten
    <2> QED
        BY <1>1, <1>2, <2>1, <2>3, <2>4, ToldKeeps
<1>7. CASE ~call[c].folder
    <2>1. ~Shifting(call[c]) /\ FileFacts(call[c], rows)
        BY <1>2, <1>7 DEF Shifting, CallFacts, OnFolder
    <2>2. IsTree(rows)
        BY <1>1, <2>1, Acting
    <2>3. CASE Ends(c) /\ UNCHANGED rows
        BY <1>1, <2>1, <2>3, EndsThere
    <2>4. CASE ~(Ends(c) /\ UNCHANGED rows)
        <3>1. rows[call[c].id].there
            BY <2>4 DEF Write
        <3>2. rows[call[c].id].folder = FALSE
            BY <1>1, <1>7, <3>1 DEF Fits, CallOf
        <3>3. ~Taken(call[c].id, call[c].path, name)
            BY <1>3, <2>4, <3>2 DEF Write
        <3>4. rows' = rt /\ Told(c, evs)
            BY <1>1, <1>3, <1>4, <1>5, <2>4 DEF Write
        <3>5. /\ IsTree(rows') /\ call[c].id # Null /\ PutAt(rows, rows', call[c].id)
              /\ ~(rows'[call[c].id].there /\ rows'[call[c].id].folder)
            BY <1>1, <1>2, <1>3, <1>4, <1>7, <2>1, <2>2, <3>1, <3>3, <3>4, FileWritten
        <3> QED
            BY <1>1, <1>2, <3>4, <3>5, ToldKeeps
    <2> QED
        BY <2>3, <2>4
<1> QED
    BY <1>6, <1>7

-----------------------------------------------------------------------------
(* Contents, deletes and events.                                           *)

LEMMA StoredKeeps ==
    ASSUME TreeInv, TreeOn, Facts, NEW c \in Callers, Store(c)
    PROVE  Facts'
<1>1. /\ call[c].at = "store" /\ call[c] \in CallOf /\ Fits(call[c], rows)
      /\ call[c].at # "idle" /\ ~Shifting(call[c]) /\ RowsOK(rows)
    BY CallTypes DEF Store, Shifting
<1>2. CallFacts(call[c], rows) /\ IsTree(rows)
    BY <1>1, Acting
<1>3. call[c].kind # "delete"
    BY <1>1, <1>2 DEF CallFacts, StageFacts
<1>4. CASE Ends(c) /\ UNCHANGED rows
    BY <1>1, <1>4, EndsThere
<1>5. CASE ~(Ends(c) /\ UNCHANGED rows)
    <2>1. PICK i \in DOMAIN rows : i = call[c].id
        BY <1>1 DEF Fits
    <2>2. rows' = [rows EXCEPT ![i] = [@ EXCEPT !.stored = TRUE, !.text = call[c].text]]
        BY <1>5, <2>1 DEF Store
    <2>3. \E evs : Told(c, evs)
        BY <1>5 DEF Store
    <2>4. SameShape(rows, rows')
        <3>1. ASSUME NEW n \in DOMAIN rows PROVE SameRow(rows[n], rows'[n])
            <4>1. rows[n] \in Row
                BY <1>1, RowMeaning
            <4>2. CASE n = i
                <5>1. rows'[n] = [rows[n] EXCEPT !.stored = TRUE, !.text = call[c].text]
                    BY <2>2, <4>2
                <5> QED
                    BY <4>1, <5>1 DEF Row, SameRow
            <4>3. CASE n # i
                <5>1. rows'[n] = rows[n]
                    BY <2>2, <4>3
                <5> QED
                    BY <5>1 DEF SameRow
            <4> QED
                BY <4>2, <4>3
        <3> QED
            BY <2>2, <3>1 DEF SameShape
    <2>5. IsTree(rows')
        BY <1>2, <2>4, ShapeTree
    <2> QED
        BY <1>1, <1>3, <2>3, <2>4, <2>5, ToldKeeps
<1> QED
    BY <1>4, <1>5

LEMMA SilenceKeeps ==
    ASSUME TreeInv, TreeOn, Facts, NEW c \in Callers, NothingToTell(c)
    PROVE  Facts'
<1>1. /\ call[c].at = "tell" /\ call[c] \in CallOf /\ rows' = rows /\ Goes(c, "remove")
      /\ call[c].at # "idle" /\ ~Shifting(call[c]) /\ call[c].tell = {}
    BY CallTypes DEF NothingToTell, Shifting
<1>2. CallFacts(call[c], rows) /\ call[c].kind = "delete"
    BY <1>1, Acting DEF CallFacts, StageFacts
<1>3. \A d \in Callers : d # c => call'[d] = call[d]
    BY <1>1 DEF Goes, TreeInv
<1>4. PICK r \in CallOf : r = call'[c] /\ call' = [call EXCEPT ![c] = r]
    BY <1>3, OnlyCall
<1>5. /\ r.kind = call[c].kind /\ r.id = call[c].id /\ r.folder = call[c].folder
      /\ r.todo = call[c].todo /\ r.at = "remove"
    BY <1>1, <1>4 DEF Goes, TreeInv, CallOf
<1>6. CallFacts(r, rows)
    BY <1>2, <1>5 DEF CallFacts, StageFacts, FolderFacts, FileFacts, Moving, OnFolder
<1>7. OnFolder(r) => OnFolder(call[c])
    BY <1>5 DEF OnFolder
<1> QED
    BY <1>1, <1>4, <1>5, <1>6, <1>7, GoesThere

LEMMA TellKeeps ==
    ASSUME TreeInv, TreeOn, Facts, NEW c \in Callers, NEW e, Tell(c, e)
    PROVE  Facts'
<1>1. /\ call[c].at = "tell" /\ call[c] \in CallOf /\ rows' = rows
      /\ call[c].at # "idle" /\ ~Shifting(call[c])
    BY CallTypes DEF Tell, Shifting
<1>2. CallFacts(call[c], rows)
    BY <1>1, Acting
<1>3. CASE Ends(c)
    BY <1>1, <1>3, EndsThere
<1>4. CASE ~Ends(c)
    <2>1. PICK left : left = call[c].tell \ {e}
        OBVIOUS
    <2>2. \/ left # {} /\ call' = [call EXCEPT ![c].tell = left]
          \/ /\ call[c].kind = "delete"
             /\ call' = [call EXCEPT ![c].tell = {}, ![c].at = "remove"]
        BY <1>4, <2>1 DEF Tell
    <2>3. \A d \in Callers : d # c => call'[d] = call[d]
        BY <2>2 DEF TreeInv
    <2>4. PICK r \in CallOf : r = call'[c] /\ call' = [call EXCEPT ![c] = r]
        BY <2>3, OnlyCall
    <2>5. /\ r.kind = call[c].kind /\ r.id = call[c].id /\ r.folder = call[c].folder
          /\ r.todo = call[c].todo
          /\ \/ r.at = "tell" /\ r.tell # {}
             \/ r.at = "remove" /\ call[c].kind = "delete"
        <3>1. CASE left # {} /\ call' = [call EXCEPT ![c].tell = left]
            BY <1>1, <2>4, <3>1 DEF TreeInv, CallOf
        <3>2. CASE /\ call[c].kind = "delete"
                   /\ call' = [call EXCEPT ![c].tell = {}, ![c].at = "remove"]
            BY <1>1, <2>4, <3>2 DEF TreeInv, CallOf
        <3> QED
            BY <2>2, <3>1, <3>2
    <2>6. CallFacts(r, rows)
        BY <1>2, <2>5 DEF CallFacts, StageFacts, FolderFacts, FileFacts, Moving, OnFolder
    <2>7. OnFolder(r) => OnFolder(call[c])
        BY <2>5 DEF OnFolder
    <2> QED
        BY <1>1, <2>4, <2>5, <2>6, <2>7, GoesThere
<1> QED
    BY <1>3, <1>4

LEMMA RemoveKeeps ==
    ASSUME TreeInv, TreeOn, Facts, NEW c \in Callers, DeleteMany(c)
    PROVE  Facts'
<1>1. /\ call[c].at = "remove" /\ call[c] \in CallOf /\ Ends(c) /\ RowsOK(rows) /\ RowsOK(rows')
      /\ call[c].at # "idle" /\ ~Shifting(call[c])
      /\ rows' = [n \in DOMAIN rows |-> IF n \in call[c].todo THEN Gone ELSE rows[n]]
    BY CallTypes DEF DeleteMany, Shifting, TreeOn, TreeInv
<1>2. CallFacts(call[c], rows) /\ IsTree(rows) /\ call[c].kind = "delete"
    BY <1>1, Acting DEF CallFacts, StageFacts
<1>3. Gone.there = FALSE
    BY DEF Gone
<1>4. DOMAIN rows' = DOMAIN rows
    BY <1>1
<1>5. CASE OnFolder(call[c])
    <2>1. PICK i \in DOMAIN rows : /\ i = call[c].id /\ rows[i].there
                                   /\ call[c].todo = {i} \cup Under(rows, i)
        BY <1>2, <1>5 DEF CallFacts, FolderFacts
    <2>2. \A n \in {i} \cup Under(rows, i) : ~rows'[n].there
        BY <1>1, <1>3, <2>1 DEF Under
    <2>3. \A n \in DOMAIN rows \ ({i} \cup Under(rows, i)) : SameRow(rows[n], rows'[n])
        BY <1>1, <2>1 DEF SameRow
    <2>4. IsTree(rows')
        BY <1>1, <1>2, <1>4, <2>1, <2>2, <2>3, RemoveNodes
    <2> QED
        BY <1>1, <1>5, <2>4, EndFacts
<1>6. CASE ~OnFolder(call[c])
    <2>1. PICK i \in DOMAIN rows : /\ i = call[c].id /\ call[c].todo = {i}
                                   /\ rows[i].there => ~rows[i].folder
        BY <1>2, <1>6 DEF CallFacts, FileFacts
    <2>2. i # Null /\ rows'[i] = Gone
        BY <1>1, <2>1, RowMeaning
    <2>3. PutAt(rows, rows', i)
        BY <1>1, <1>4, <2>1 DEF PutAt, SameRow
    <2>4. ~rows'[i].there
        BY <1>3, <2>2
    <2>5. IsTree(rows')
        BY <1>1, <1>2, <2>3, <2>4, PutNode
    <2> QED
        BY <1>1, <2>1, <2>2, <2>3, <2>4, <2>5, EndFacts
<1> QED
    BY <1>5, <1>6

-----------------------------------------------------------------------------
(* The tree at every step.                                                 *)

\* What properties make an exception for is not forgotten.
LEMMA OddGrows ==
    ASSUME Next
    PROVE  odd \subseteq odd'
<1>1. ASSUME NEW c \in Callers, TreeStep(c) PROVE odd' = odd
    BY <1>1 DEF TreeStep, Chain, Exists, Parent, Insert, Target, Free, List, Shift, NothingToTell
<1>2. ASSUME NEW c \in Callers, StoreStep(c) \/ WriteStep(c) \/ DeleteStep(c)
      PROVE  odd \subseteq odd'
    BY <1>2 DEF StoreStep, WriteStep, DeleteStep, Odd
<1>3. ASSUME NEW c \in Callers, NEW e \in call[c].tell, Send(c, e) PROVE odd \subseteq odd'
    BY <1>3 DEF Send, Enqueue
<1>4. ASSUME NEW c \in Users, Call(c) PROVE odd \subseteq odd'
    BY <1>4 DEF Call, Calls, StartCreate, StartMove, StartRename, StartDelete, StartSave, Begin
<1>5. ASSUME Take \/ Made \/ Tick \/ Expire PROVE odd \subseteq odd'
    BY <1>5 DEF Take, Rests, Made, Throws, Tick, Expire, treeVars
<1>6. ASSUME Index \/ Log PROVE odd \subseteq odd'
    BY <1>6 DEF Index, Log, StartCreate, Begin, treeVars
<1>7. ASSUME SaveText \/ Finish \/ Crash PROVE odd \subseteq odd'
    BY <1>7 DEF SaveText, Throws, Finish, Crash, treeVars
<1> QED
    BY <1>1, <1>2, <1>3, <1>4, <1>5, <1>6, <1>7 DEF Next, Step

LEMMA CallBegins ==
    ASSUME OkfInv, Facts, NEW c \in Users, Call(c), Sane'
    PROVE  Facts'
<1>1. TreeInv /\ c \in Callers /\ Calls(c) /\ calls \in Nat
    BY DEF OkfInv, Users, Call, TreeInv
<1>2. ASSUME NEW p \in Folders PROVE p \in Seq(FolderNames)
    <2>1. CASE p = <<>>
        BY <2>1, Constants
    <2>2. CASE \E n \in Nodes : rows[n].folder /\ p = FullPath(n)
        BY <1>1, <2>2, RowTypes DEF Nodes
    <2> QED
        BY <2>1, <2>2 DEF Folders
<1>3. Concepts \subseteq Names /\ FolderNames \subseteq Names /\ NoText \in Text
    BY Constants
<1>4. ASSUME NEW p \in Folders, NEW m \in FolderNames, StartCreate(c, "folder", p, m, NoText)
      PROVE  Facts'
    BY <1>1, <1>2, <1>3, <1>4, CreateBegins
<1>5. ASSUME NEW p \in Folders, NEW m \in Concepts, StartCreate(c, "file", p, m, NoText)
      PROVE  Facts'
    BY <1>1, <1>2, <1>3, <1>5, CreateBegins
<1>6. ASSUME NEW p \in Folders, NEW n \in Nodes, rows[n].path # p, StartMove(c, n, p)
      PROVE  Facts'
    BY <1>1, <1>2, <1>6, MoveBegins
<1>7. ASSUME NEW p \in DocPaths, NEW m \in Concepts, StartCreate(c, "document", p, m, NoText)
      PROVE  Facts'
    <2>1. p \in Seq(FolderNames)
        BY OkfAssumption
    <2> QED
        BY <1>1, <1>3, <1>7, <2>1, CreateBegins
<1>8. ASSUME NEW n \in Nodes,
             NEW m \in (IF rows[n].folder THEN FolderNames ELSE Concepts) \ {rows[n].name},
             StartRename(c, n, m)
      PROVE  Facts'
    BY <1>1, <1>3, <1>8, RenameBegins
<1>9. ASSUME NEW n \in Nodes, StartDelete(c, n) PROVE Facts'
    BY <1>1, <1>9, DeleteBegins
<1>10. ASSUME NEW n \in Nodes,
              StartSave(c, n, IF rows[n].name \in Concepts THEN NoText
                              ELSE [rows[n].text EXCEPT !.note = calls + 1])
       PROVE  Facts'
    <2>1. PICK txt : txt = IF rows[n].name \in Concepts THEN NoText
                           ELSE [rows[n].text EXCEPT !.note = calls + 1]
        OBVIOUS
    <2>2. rows[n].text \in Text
        BY <1>1, RowTypes DEF Nodes, Row
    <2>3. [rows[n].text EXCEPT !.note = calls + 1] \in Text
        BY <1>1, <2>2 DEF Text
    <2>4. txt \in Text /\ StartSave(c, n, txt)
        BY <1>3, <1>10, <2>1, <2>3
    <2> QED
        BY <1>1, <2>4, SaveBegins
<1> QED
    BY <1>1, <1>4, <1>5, <1>6, <1>7, <1>8, <1>9, <1>10 DEF Calls

LEMMA CallerKeepsFacts ==
    ASSUME OkfInv, Facts, NEW c \in Callers,
           \/ Step(c) \/ StoreStep(c) \/ WriteStep(c) \/ DeleteStep(c)
           \/ \E e \in call[c].tell : Send(c, e)
    PROVE  Facts'
<1>1. TreeInv /\ odd \subseteq Odds
    BY DEF OkfInv, TreeInv, Odds
<1>2. CASE Step(c)
    <2>1. TreeOn /\ TreeStep(c)
        BY <1>1, <1>2, TreeStepFits DEF Step
    <2> QED
        BY <1>1, <2>1, ChainKeeps, ExistsKeeps, ParentKeeps, InsertKeeps, TargetKeeps, FreeKeeps,
           ListKeeps, ShiftKeeps, SilenceKeeps DEF TreeStep
<1>3. CASE StoreStep(c)
    <2>1. odd' \subseteq Odds /\ Store(c)
        BY <1>1, <1>3 DEF StoreStep, Odd, Odds
    <2>2. TreeOn
        BY <1>1, <2>1, StoreFits
    <2> QED
        BY <1>1, <2>1, <2>2, StoredKeeps
<1>4. CASE WriteStep(c)
    <2>1. odd' \subseteq Odds /\ Write(c)
        BY <1>1, <1>4 DEF WriteStep, Odd, Odds
    <2>2. TreeOn
        BY <1>1, <2>1, WriteFits
    <2> QED
        BY <1>1, <2>1, <2>2, WriteKeeps
<1>5. CASE DeleteStep(c)
    <2>1. odd' \subseteq Odds /\ DeleteMany(c)
        BY <1>1, <1>5 DEF DeleteStep, Odd, Odds
    <2>2. TreeOn
        BY <1>1, <2>1, DeleteFits
    <2> QED
        BY <1>1, <2>1, <2>2, RemoveKeeps
<1>6. CASE \E e \in call[c].tell : Send(c, e)
    <2>1. PICK e \in call[c].tell : Tell(c, e) /\ Enqueue(e)
        BY <1>6 DEF Send
    <2>2. e \in Event
        BY <1>1, <2>1, CallTypes DEF CallOf
    <2>3. odd' \subseteq Odds
        BY <1>1, <2>1, <2>2, EnqueueFits DEF OkfInv
    <2>4. TreeOn
        BY <1>1, <2>1, <2>3, TellFits
    <2> QED
        BY <1>1, <2>1, <2>4, TellKeeps
<1> QED
    BY <1>2, <1>3, <1>4, <1>5, <1>6

\* The index.md or log.md that maintenance makes is made as a user's file is.
LEMMA MakingKeepsFacts ==
    ASSUME OkfInv, Facts, Index \/ Log \/ Made, Sane'
    PROVE  Facts'
<1>1. TreeInv /\ Worker \in Callers /\ "index.md" \in Names /\ "log.md" \in Names
      /\ worker \in Working
    BY OkfAssumption, Constants DEF OkfInv, WorkerOK
<1>2. CASE UNCHANGED <<rows, call>>
    BY <1>2, QuietFacts, SameIsSame
<1>3. CASE Index /\ ~UNCHANGED <<rows, call>>
    <2>1. PICK d : d = Head(worker.dirs)
        OBVIOUS
    <2>2. d \in Seq(FolderNames)
        <3>1. worker.dirs \in Seq(Seq(FolderNames)) /\ worker.dirs # <<>>
            BY <1>1, <1>3 DEF Working, OkfInv, WorkerOK, Index
        <3> QED
            BY <2>1, <3>1, HeadTailProperties
    <2>3. PICK txt : txt = [NoText EXCEPT !.listed = Listing(d)]
        OBVIOUS
    <2>4. txt \in Text
        <3>1. Listing(d) \in SUBSET Names
            BY <1>1, <2>2, ListingTypes
        <3> QED
            BY <2>3, <3>1 DEF NoText, Text
    <2>5. StartCreate(Worker, "file", d, "index.md", txt)
        BY <1>3, <2>1, <2>3 DEF Index, treeVars
    <2> QED
        BY <1>1, <2>2, <2>4, <2>5, CreateBegins
<1>4. CASE Log /\ ~UNCHANGED <<rows, call>>
    <2>1. PICK d : d = TheEvent.path
        OBVIOUS
    <2>2. worker.at # "idle"
        BY <1>4 DEF Log
    <2>3. d \in Seq(FolderNames)
        BY <2>1, <2>2, TheJobTypes DEF Event
    <2>4. PICK txt : txt = [NoText EXCEPT !.entries = {Entry}]
        OBVIOUS
    <2>5. txt \in Text
        <3>1. Entry \in [ev: Event, left: Nat]
            BY <2>2, EntryTypes
        <3> QED
            BY <2>4, <3>1 DEF NoText, Text
    <2>6. StartCreate(Worker, "file", d, "log.md", txt)
        BY <1>4, <2>1, <2>4 DEF Log, treeVars
    <2> QED
        BY <1>1, <2>3, <2>5, <2>6, CreateBegins
<1>5. CASE Made /\ ~UNCHANGED <<rows, call>>
    <2>1. /\ call[Worker].at = "done" /\ Ends(Worker) /\ UNCHANGED <<rows, calls, odd>>
        BY <1>5 DEF Made, Throws
    <2>2. call[Worker].at # "idle" /\ ~Shifting(call[Worker])
        BY <2>1 DEF Shifting
    <2>3. RowsOK(rows') /\ Grows(rows, rows') /\ calls' = calls /\ odd' \subseteq Odds
        BY <1>1, <2>1, CallTypes
    <2>4. TreeOn
        BY <1>1, <2>1, <2>3, EndFits
    <2> QED
        BY <1>1, <2>1, <2>2, <2>4, EndsThere
<1> QED
    BY <1>2, <1>3, <1>4, <1>5

LEMMA SaveTextKeepsFacts ==
    ASSUME OkfInv, Facts, SaveText
    PROVE  Facts'
<1>1. CASE UNCHANGED <<rows, call>>
    BY <1>1, QuietFacts, SameIsSame
<1>2. CASE ~UNCHANGED <<rows, call>>
    <2>1. PICK k : k = worker.node
        OBVIOUS
    <2>2. PICK txt : txt = NewText
        OBVIOUS
    <2>3. rows' = [rows EXCEPT ![k].text = txt] /\ UNCHANGED call
        BY <1>2, <2>1, <2>2 DEF SaveText, Throws
    <2>4. ASSUME NEW n \in DOMAIN rows PROVE SameRow(rows[n], rows'[n])
        <3>1. rows[n] \in Row
            BY RowTypes DEF OkfInv
        <3>2. CASE n = k
            <4>1. rows'[n] = [rows[n] EXCEPT !.text = txt]
                BY <2>3, <3>2
            <4> QED
                BY <3>1, <4>1 DEF Row, SameRow
        <3>3. CASE n # k
            <4>1. rows'[n] = rows[n]
                BY <2>3, <3>3
            <4> QED
                BY <4>1 DEF SameRow
        <3> QED
            BY <3>2, <3>3
    <2>5. SameShape(rows, rows')
        BY <2>3, <2>4 DEF SameShape
    <2> QED
        BY <2>3, <2>5, QuietFacts
<1> QED
    BY <1>1, <1>2

\* What the tree's form follows from, as long as no call overlapped with one on
\* a folder, no two with one another on a file, and none died.
TreeFacts == Sane => Facts

LEMMA NextKeepsFacts ==
    ASSUME OkfInv, TreeFacts, [Next]_vars
    PROVE  TreeFacts'
<1>1. CASE UNCHANGED vars
    <2>1. UNCHANGED <<rows, call, odd>>
        BY <1>1 DEF vars, treeVars
    <2> QED
        BY <2>1, QuietFacts, SameIsSame DEF TreeFacts, Sane
<1>2. CASE Next
    <2> SUFFICES ASSUME Sane' PROVE Facts'
        BY DEF TreeFacts
    <2>1. Facts
        <3>1. odd \subseteq odd'
            BY <1>2, OddGrows
        <3> QED
            BY <3>1 DEF TreeFacts, Sane
    <2>2. CASE \E c \in Users : Call(c)
        BY <2>1, <2>2, CallBegins
    <2>3. CASE \E c \in Callers : \/ Step(c) \/ StoreStep(c) \/ WriteStep(c) \/ DeleteStep(c)
                                  \/ \E e \in call[c].tell : Send(c, e)
        BY <2>1, <2>3, CallerKeepsFacts
    <2>4. CASE Index \/ Log \/ Made
        BY <2>1, <2>4, MakingKeepsFacts
    <2>5. CASE SaveText
        BY <2>1, <2>5, SaveTextKeepsFacts
    <2>6. CASE Take \/ Finish \/ Tick \/ Expire
        <3>1. UNCHANGED <<rows, call>>
            BY <2>6 DEF Take, Rests, Finish, Tick, Expire, treeVars
        <3> QED
            BY <2>1, <3>1, QuietFacts, SameIsSame
    <2>7. CASE Crash
        BY <2>7 DEF Crash, Sane
    <2> QED
        BY <1>2, <2>2, <2>3, <2>4, <2>5, <2>6, <2>7 DEF Next
<1> QED
    BY <1>1, <1>2

LEMMA InitFacts ==
    ASSUME Init
    PROVE  TreeFacts
<1>1. IsTree(rows)
    BY OkfAssumption DEF Init
<1>2. Busy = {}
    BY DEF Init, Busy
<1> QED
    BY <1>1, <1>2 DEF TreeFacts, Facts, Alone

LEMMA AlwaysTree == Spec => []TreeFacts
<1>1. OkfInv /\ TreeFacts /\ [Next]_vars => TreeFacts'
    BY NextKeepsFacts
<1> QED
    BY <1>1, InitFacts, AlwaysFits, PTL DEF Spec

LEMMA FactsForm ==
    ASSUME TreeFacts
    PROVE  WellFormed
BY DEF TreeFacts, Sane, Facts, WellFormed, Shifting, OnFolder

\* The rows are the tree their paths say, whatever is created, renamed, moved
\* and deleted, by users, agents and OKF maintenance: only calls that overlap on
\* a folder or on one file, or that die half way, can break it.
THEOREM TreeHolds == Spec => []WellFormed
<1> QED
    BY AlwaysTree, FactsForm, PTL
=============================================================================
