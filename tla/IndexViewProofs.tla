-------------------------- MODULE IndexViewProofs --------------------------
(***************************************************************************)
(* The composition of write path, index, links and browser only adds to    *)
(* the write path and the index: what IndexView does to the variables of   *)
(* DocIndex is what DocIndex does, so what is proved there holds here.     *)
(* The same goes for vectors and search (SearchIndex) above IndexView.     *)
(* Then what the additions promise: their types, that a document's link    *)
(* rows are those of its content (LinkInv), that links lead to the files   *)
(* at their paths (ExactInv), that the file list comes to show what is     *)
(* stored (ListInv), and that a search finds the rows of the documents     *)
(* nobody works on (PointInv, FoundInv).                                   *)
(***************************************************************************)
EXTENDS SearchIndex, DocIndexProofs, FiniteSetTheorems

USE DEF Procs, Jobs

\* A link step between the chunks and the commit is invisible to DocIndex.
LEMMA LinkSteps ==
    ASSUME NEW p \in Procs,
           ListFiles(p) \/ ClearLinks(p) \/ InsertLinks(p) \/ PatchIncoming(p)
    PROVE  UNCHANGED vars
BY DEF ListFiles, ClearLinks, InsertLinks, PatchIncoming

\* So is everything the browser does, and the hub.
LEMMA ViewSteps ==
    ASSUME Browser \/ (\E p \in Procs : Publish(p)) \/ RenameTells
    PROVE  UNCHANGED vars
BY DEF Browser, OpenStream, CloseStream, StartLoad, ShowEvent, FinishLoad, Publish,
       RenameTells, Renamed, Rename

\* The scene is one of those the model starts in, and never changes.
SceneInv == scene \in Scene

\* What clients ask for is what DocIndex lets requests begin.
LEMMA CallBegins ==
    ASSUME SceneInv, NEW r \in Requests, CallTells(r)
    PROVE  Begin(r) /\ scene' = scene
<1>1. scene.nodes \subseteq Nodes /\ scene.contents \subseteq Contents
    BY DEF SceneInv, Scene
<1>2. CASE \E n \in scene.nodes, c \in scene.contents, q \in scene.paths : CreateAt(r, n, c, q)
    BY <1>1, <1>2 DEF CreateAt, Begin
<1>3. CASE \E n \in scene.nodes, c \in scene.contents : StartSave(r, n, c) /\ LinksStay
    BY <1>1, <1>3 DEF Begin, LinksStay, linkVars
<1>4. CASE \E n \in scene.nodes : (StartDelete(r, n) \/ StartValidate(r, n)) /\ LinksStay
    BY <1>1, <1>4 DEF Begin, LinksStay, linkVars
<1>5. CASE (StartSweep(r, "sweep") /\ LinksStay) \/ ReindexAll(r)
    BY <1>5 DEF Begin, ReindexAll, LinksStay, linkVars
<1> QED
    BY <1>2, <1>3, <1>4, <1>5 DEF CallTells, Called

\* A step of indexNode is a step of DocIndex's indexNode, or one of its links.
LEMMA RunSteps ==
    ASSUME NEW p \in Procs, RunTells(p)
    PROVE  /\ Index(p) \/ IndexThrows(p) \/ IndexEscapes(p) \/ UNCHANGED vars
           /\ scene' = scene
<1>1. CASE RunStart(p)
    BY <1>1 DEF RunStart, Index
<1>2. CASE /\ \/ IndexMark(p) \/ IndexRead(p) \/ IndexInsert(p) \/ IndexDelete(p)
              \/ IndexStats(p) \/ IndexCommit(p)
           /\ LinksStay
    BY <1>2 DEF Index, LinksStay, linkVars
<1>3. CASE ListFiles(p) \/ ClearLinks(p) \/ InsertLinks(p) \/ PatchIncoming(p)
    BY <1>3, LinkSteps DEF ListFiles, ClearLinks, InsertLinks, PatchIncoming
<1>4. CASE RunFails(p) \/ RunEscapes(p)
    BY <1>4 DEF RunFails, RunEscapes, LinksStay, linkVars
<1> QED
    BY <1>1, <1>2, <1>3, <1>4 DEF RunTells

\* Every step is a step of DocIndex or leaves its variables alone.
LEMMA ViewStep ==
    ASSUME SceneInv, [ViewNext]_allVars
    PROVE  [Next]_vars /\ SceneInv' /\ scene' = scene
<1>1. ASSUME NEW r \in Requests, CallTells(r) PROVE Next /\ scene' = scene
    BY <1>1, CallBegins DEF Next
<1>2. ASSUME NEW r \in Requests, RequestTells(r) PROVE Next /\ scene' = scene
    <2>1. Continue(r) /\ scene' = scene
        BY <1>2 DEF RequestTells, RequestStep, RemoveRow, Continue, LinksStay, linkVars
    <2> QED
        BY <2>1 DEF Next
<1>3. ASSUME NEW p \in Procs, RunTells(p) PROVE [Next]_vars /\ scene' = scene
    BY <1>3, RunSteps DEF Next, Failure
<1>4. ASSUME NEW ok \in BOOLEAN, FinishTells(ok) PROVE Next /\ scene' = scene
    <2>1. FinishJob(ok) /\ scene' = scene
        BY <1>4 DEF FinishTells, Finished, LinksStay, linkVars
    <2> QED
        BY <2>1 DEF Next, Failure
<1>5. ASSUME NEW j \in Jobs, QueueTells(j) \/ SendTells(j) PROVE Next /\ scene' = scene
    <2>1. /\ \/ Fetch(j) \/ Expire(j) \/ RetryFailedJob(j) \/ DeleteFailedJob(j)
             \/ Send(j) \/ SendFails(j)
          /\ scene' = scene
        BY <1>5 DEF QueueTells, SendTells, Queue, Sent, LinksStay, linkVars
    <2> QED
        BY <2>1 DEF Next, Failure, Operator
<1>6. ASSUME RestartTells PROVE Next /\ scene' = scene
    BY <1>6 DEF RestartTells, Restart, Next, Failure, LinksStay, linkVars
<1>7. ASSUME Browser \/ (\E p \in Procs : Publish(p)) \/ RenameTells
      PROVE  UNCHANGED vars /\ scene' = scene
    <2>1. scene' = scene
        BY <1>7 DEF Browser, OpenStream, CloseStream, StartLoad, ShowEvent, FinishLoad,
                    Publish, RenameTells, Renamed, Rename, linkVars
    <2> QED
        BY <1>7, <2>1, ViewSteps
<1>8. ASSUME UNCHANGED allVars PROVE UNCHANGED vars /\ scene' = scene
    BY <1>8 DEF allVars, linkVars
<1>9. [Next]_vars /\ scene' = scene
    BY <1>1, <1>2, <1>3, <1>4, <1>5, <1>6, <1>7, <1>8 DEF ViewNext
<1> QED
    BY <1>9 DEF SceneInv

\* The composition implements the write path and the index: hub, links, file
\* list and browser never change what they do.
THEOREM ViewImplementsDocIndex == ViewSpec => Spec
<1>1. ViewInit => Init /\ SceneInv
    BY LinkAssumption DEF ViewInit, LinkInit, SceneInv
<1> QED
    BY <1>1, ViewStep, PTL DEF ViewSpec, Spec

\* Search never sees a mixture of two contents, whatever links and browsers do.
THEOREM ViewWhole == ViewSpec => []WholeVersion
BY ViewImplementsDocIndex, WholeVersionHolds, PTL

\* A step of the vector store or of a search is invisible to IndexView.
LEMMA SearchStepsView ==
    ASSUME \/ SearchSteps
           \/ \E p \in Procs : ListPrevious(p) \/ DropPoints(p) \/ UpsertPoints(p)
    PROVE  UNCHANGED allVars
<1>1. CASE SearchSteps
    BY <1>1 DEF SearchSteps, StartSearch, SearchKeyword, SearchVectors, MergeHits, RankHits,
                ReadResults
<1>2. CASE \E p \in Procs : ListPrevious(p) \/ DropPoints(p) \/ UpsertPoints(p)
    BY <1>2 DEF ListPrevious, DropPoints, UpsertPoints, OnlyRows
<1> QED
    BY <1>1, <1>2

\* Every step with vectors and searches is a step without them, or none.
LEMMA SearchStep ==
    ASSUME [SearchNext]_<<allVars, searchVars>>
    PROVE  [ViewNext]_allVars
<1>1. ASSUME NEW p \in Procs, Indexes(p) PROVE ViewNext
    BY <1>1 DEF Indexes, ViewNext
<1>2. ASSUME Dies PROVE ViewNext
    BY <1>2 DEF Dies, ViewNext
<1>3. ASSUME Otherwise PROVE ViewNext
    BY <1>3 DEF Otherwise, ViewNext
<1>4. CASE UNCHANGED <<allVars, searchVars>>
    BY <1>4
<1> QED
    BY <1>1, <1>2, <1>3, <1>4, SearchStepsView DEF SearchNext

\* Searches and the points of the vector store hold up nothing that the write
\* path, the index, the hub or the browser does, and change nothing of theirs:
\* the composition with search implements the one without.
THEOREM SearchImplementsView == SearchSpec => ViewSpec
BY SearchStep, PTL DEF SearchSpec, SearchInit, ViewSpec

\* The chunk rows a search reads are those of one content of each document.
THEOREM SearchWhole == SearchSpec => []WholeVersion
BY SearchImplementsView, ViewWhole, PTL

-----------------------------------------------------------------------------
(* Types of links, events and file lists.                                  *)

\* A run of indexNode works with the content it has read.
Reading == {"delete", "insert", "commit"}
HasRead == \A p \in Procs : pc[p] \in Reading => val[p] \in Contents

\* Processes keep content and place, or are at another step.
LEMMA HasReadStep ==
    ASSUME TypeInv, HasRead, [Next]_vars
    PROVE  HasRead'
<1>1. /\ pc \in [Procs -> Pc] /\ val \in [Procs -> Contents \cup {NoContent}]
      /\ blob \in [Nodes -> Contents \cup {NoContent}]
      /\ \A q \in Procs : pc[q] \in IndexPc => on[q] \in Nodes
      /\ Worker \in Procs
    BY DEF TypeInv, TypeOK, Placed
<1>2. ASSUME NEW q \in Procs, NEW to, Goto(q, to), to \notin Reading,
             \A p \in Procs \ {q} : val'[p] = val[p]
      PROVE  HasRead'
    BY <1>1, <1>2 DEF Goto, HasRead
<1>3. ASSUME UNCHANGED <<pc, val>>
      PROVE  HasRead'
    BY <1>3 DEF HasRead
<1>4. ASSUME NEW r \in Requests, Begin(r) PROVE HasRead'
    BY <1>1, <1>2, <1>4
    DEF Begin, StartSave, StartCreate, StartDelete, StartValidate, StartSweep, Reading
<1>5. ASSUME NEW r \in Requests, Continue(r) \/ MirrorFails(r) PROVE HasRead'
    BY <1>1, <1>2, <1>5 DEF Continue, Put, Update, Mirror, Meta, Unlink, DeleteBlob,
       DeleteRow, WriteValidation, SweepSend, MirrorFails, Reading
<1>6. ASSUME NEW p \in Procs, NEW ok, Return(p, ok) PROVE HasRead'
    BY <1>1, <1>2, <1>6 DEF Return, Reading
<1>7. ASSUME NEW p \in Procs, Index(p) \/ IndexThrows(p) \/ IndexEscapes(p) PROVE HasRead'
    <2>1. CASE \/ IndexStart(p) \/ IndexMark(p) \/ IndexThrows(p) \/ IndexEscapes(p)
             \/ IndexStats(p)
        BY <1>1, <1>2, <1>6, <2>1 DEF IndexStart, IndexMark, IndexThrows, IndexEscapes,
           IndexStats, Catch, Reading
    <2>2. CASE IndexRead(p)
        <3>1. CASE blob[on[p]] = NoContent
            BY <1>6, <2>2, <3>1 DEF IndexRead, Catch
        <3>2. CASE blob[on[p]] # NoContent
            <4>1. blob[on[p]] \in Contents
                BY <1>1, <2>2, <3>2 DEF IndexRead, IndexPc
            <4> QED
                BY <1>1, <2>2, <3>2, <4>1 DEF IndexRead, Goto, HasRead
        <3> QED
            BY <3>1, <3>2
    <2>3. CASE IndexDelete(p) \/ IndexCommit(p)
        BY <1>1, <2>3 DEF IndexDelete, IndexCommit, Goto, HasRead, Reading
    <2>4. CASE IndexInsert(p)
        BY <1>1, <1>6, <2>4 DEF IndexInsert, Catch, Goto, HasRead, Reading
    <2> QED
        BY <1>7, <2>1, <2>2, <2>3, <2>4 DEF Index
<1>8. ASSUME NEW ok, FinishJob(ok) PROVE HasRead'
    BY <1>1, <1>6, <1>8 DEF FinishJob
<1>9. ASSUME NEW j \in Jobs,
             \/ Send(j) \/ Expire(j) \/ SendFails(j) \/ Fetch(j)
             \/ RetryFailedJob(j) \/ DeleteFailedJob(j)
      PROVE  HasRead'
    BY <1>1, <1>2, <1>3, <1>9
    DEF Send, Expire, SendFails, Fetch, RetryFailedJob, DeleteFailedJob, procVars, Goto,
        HasRead, Reading
<1>10. CASE Crash
    BY <1>1, <1>10 DEF Crash, HasRead, Reading
<1>11. CASE UNCHANGED vars
    BY <1>3, <1>11 DEF vars, procVars
<1> QED
    BY <1>4, <1>5, <1>7, <1>8, <1>9, <1>10, <1>11 DEF Next, Failure, Operator

\* A run fills in the links of its content.
LinksFrom(p, c) == {[by |-> p, target |-> t, to |-> Resolved(t)] : t \in LinksOf[c]}

\* A link leads to a node, or to none.
LEMMA LinksFromType ==
    ASSUME NEW p \in Procs, NEW c \in Contents
    PROVE  LinksFrom(p, c) \subseteq Link /\ \A l \in LinksFrom(p, c) : l.by = p
<1>1. ASSUME NEW t PROVE Resolved(t) \in Nodes \cup {NoNode}
    BY DEF Resolved, At
<1>2. LinksOf[c] \subseteq DOMAIN Spelling
    BY LinkAssumption
<1> QED
    BY <1>1, <1>2 DEF LinksFrom, Link

\* Where every link, event and list is what it should be.
ViewTypeInv ==
    /\ TypeInv /\ HasRead /\ SceneInv
    /\ ViewTypeOK
    /\ stream \in Seq(Event)

\* The four parts of the view: what is due, on its way, shown, and begun.
DueOK    == due \in [Procs -> Event \cup {None}]
StreamOK == open \in BOOLEAN /\ stream \in Seq(Event) /\ Len(stream) <= MaxQueued
            /\ (stream # <<>> => open)
Answer   == [list: Lists, late: BOOLEAN]
ListOK   == list \in Lists /\ answer \subseteq Answer /\ missed \in BOOLEAN
BegunOK  == loads \in 0 .. scene.loads /\ streams \in 0 .. scene.streams

ViewParts == DueOK /\ StreamOK /\ ListOK /\ BegunOK

LEMMA PartsOfView ==
    LinkTypeOK /\ stream \in Seq(Event) => (ViewTypeOK <=> ViewParts)
<1> SUFFICES ASSUME LinkTypeOK, stream \in Seq(Event) PROVE ViewTypeOK <=> ViewParts
    OBVIOUS
<1>1. \A k \in DOMAIN stream : stream[k] \in Event
    OBVIOUS
<1> QED
    BY <1>1 DEF ViewTypeOK, ViewParts, DueOK, StreamOK, ListOK, BegunOK, Answer

LEMMA NothingOnItsWay ==
    ASSUME NEW s, s = <<>>
    PROVE  s \in Seq(Event) /\ Len(s) <= MaxQueued
BY ViewAssumption

\* Every load that is under way gets late, and stays a load.
LEMMA LateType == ListOK => Late \subseteq Answer
BY DEF ListOK, Late, Answer

\* What a scene starts with.
LEMMA ViewTypeInit ==
    ASSUME Nodes # {}, ViewInit
    PROVE  ViewTypeInv
<1>1. TypeInv /\ HasRead
    BY LostInit DEF ViewInit, LostInv, Init, HasRead, Reading
<1>2. SceneInv /\ scene.at \in [Nodes -> FilePaths] /\ scene.loads \in Nat /\ scene.streams \in Nat
    BY LinkAssumption DEF ViewInit, LinkInit, SceneInv, Scene
<1>3. ASSUME NEW n \in Nodes PROVE links[n] \subseteq Link
    <2>1. CASE n \in Existing
        <3>1. blob[n] \in Contents
            BY <1>1, <2>1 DEF ViewInit, Init
        <3>2. links[n] = LinksFrom(Worker, blob[n])
            BY <2>1 DEF ViewInit, LinkInit, LinksFrom
        <3> QED
            BY <3>1, <3>2, LinksFromType
    <2>2. CASE n \notin Existing
        BY <2>2 DEF ViewInit, LinkInit
    <2> QED
        BY <2>1, <2>2
<1>4. path[CHOOSE n \in Nodes : TRUE] \in FilePaths
    BY <1>2 DEF ViewInit, LinkInit
<1>5. LinkTypeOK
    BY <1>2, <1>3, <1>4 DEF ViewInit, LinkInit, LinkTypeOK, Started, Steps
<1>6. stream = <<>> /\ stream \in Seq(Event) /\ DOMAIN stream = {} /\ Len(stream) = 0
    BY DEF ViewInit
<1>7. ViewTypeOK
    <2>1. DueOK
        BY DEF ViewInit, DueOK, None
    <2>2. StreamOK
        BY <1>6, NothingOnItsWay DEF ViewInit, StreamOK
    <2>3. ListOK
        BY DEF ViewInit, ListOK, Lists
    <2>4. BegunOK
        BY <1>2 DEF ViewInit, BegunOK
    <2> QED
        BY <1>5, <1>6, <2>1, <2>2, <2>3, <2>4, PartsOfView DEF ViewParts
<1> QED
    BY <1>1, <1>2, <1>6, <1>7 DEF ViewTypeInv

\* Links, and what runs know of them.
LEMMA LinkTypeStep ==
    ASSUME ViewTypeInv, [ViewNext]_allVars
    PROVE  LinkTypeOK'
<1>1. LinkTypeOK /\ (\A q \in Procs : pc[q] \in IndexPc => on[q] \in Nodes)
    BY DEF ViewTypeInv, TypeInv, Placed, ViewTypeOK
<1>2. ASSUME LinksStay PROVE LinkTypeOK'
    BY <1>1, <1>2 DEF LinksStay, linkVars, LinkTypeOK
<1>3. ASSUME NEW r \in Requests, CallTells(r) PROVE LinkTypeOK'
    <2>1. CASE \E n \in scene.nodes, c \in scene.contents, q \in scene.paths : CreateAt(r, n, c, q)
        <3>1. scene.paths \subseteq FilePaths
            BY DEF ViewTypeInv, SceneInv, Scene
        <3> QED
            BY <1>1, <2>1, <3>1 DEF CreateAt, LinkTypeOK
    <2>2. CASE ReindexAll(r)
        BY <1>1, <2>2 DEF ReindexAll, LinkTypeOK
    <2> QED
        BY <1>2, <1>3, <2>1, <2>2 DEF CallTells, Called
<1>4. ASSUME NEW r \in Requests, RequestTells(r) PROVE LinkTypeOK'
    <2>1. CASE RemoveRow(r)
        <3>1. on[r] \in Nodes
            BY <2>1 DEF RemoveRow, DeleteRow, ViewTypeInv, TypeInv, Placed, DeletePc
        <3> QED
            BY <1>1, <2>1, <3>1 DEF RemoveRow, LinkTypeOK
    <2> QED
        BY <1>2, <1>4, <2>1 DEF RequestTells, RequestStep
<1>5. CASE RenameTells
    <2>1. scene.paths \subseteq FilePaths /\ scene.nodes \subseteq Nodes
        BY DEF ViewTypeInv, SceneInv, Scene
    <2> QED
        BY <1>1, <1>5, <2>1 DEF RenameTells, Renamed, Rename, LinkTypeOK
<1>6. ASSUME NEW p \in Procs, RunTells(p) PROVE LinkTypeOK'
    <2>1. CASE RunStart(p)
        <3>1. on[p] \in Nodes
            BY <1>1, <2>1 DEF RunStart, IndexStart, IndexPc
        <3>2. Started(path[on[p]]) \in [at: Steps, path: FilePaths, rows: SUBSET Link]
            BY <1>1, <3>1 DEF Started, Steps, LinkTypeOK
        <3>3. Started(path[on[p]]).rows = {}
            BY DEF Started
        <3> QED
            BY <1>1, <2>1, <3>2, <3>3 DEF RunStart, LinkTypeOK
    <2>2. CASE ListFiles(p)
        <3>1. val[p] \in Contents
            BY <2>2 DEF ListFiles, Doing, ViewTypeInv, HasRead, Reading
        <3>2. /\ LinksFrom(p, val[p]) \subseteq Link
              /\ \A l \in LinksFrom(p, val[p]) : l.by = p
            BY <3>1, LinksFromType
        <3>3. run' = [run EXCEPT ![p].at = "clear", ![p].rows = LinksFrom(p, val[p])]
            BY <2>2 DEF ListFiles, LinksFrom
        <3> HIDE DEF LinksFrom
        <3> QED
            BY <1>1, <2>2, <3>2, <3>3 DEF ListFiles, LinkTypeOK, Steps
    <2>3. CASE ClearLinks(p)
        BY <1>1, <2>3 DEF ClearLinks, Doing, LinkStep, LinkTypeOK, Steps
    <2>4. CASE InsertLinks(p)
        BY <1>1, <2>4 DEF InsertLinks, Doing, LinkStep, LinkTypeOK, Steps
    <2>5. CASE PatchIncoming(p)
        <3>1. on[p] \in Nodes
            BY <1>1, <2>5 DEF PatchIncoming, Doing, IndexPc
        <3>2. ASSUME NEW l \in Link, NEW q PROVE Incoming(l, on[p], q) \in Link
            BY <3>1, <3>2 DEF Incoming, Link
        <3>3. \A n \in Nodes : links'[n] \subseteq Link
            BY <1>1, <2>5, <3>2 DEF PatchIncoming, LinkTypeOK
        <3> QED
            BY <1>1, <2>5, <3>3 DEF PatchIncoming, LinkTypeOK, Steps
    <2> QED
        BY <1>2, <1>6, <2>1, <2>2, <2>3, <2>4, <2>5 DEF RunTells, RunFails, RunEscapes
<1>7. CASE (\E p \in Procs : Publish(p)) \/ Browser
    BY <1>2, <1>7 DEF Publish, Browser, OpenStream, CloseStream, StartLoad, ShowEvent,
                      FinishLoad, LinksStay
<1>8. ASSUME \/ \E ok \in BOOLEAN : FinishTells(ok)
             \/ \E j \in Jobs : QueueTells(j) \/ SendTells(j)
             \/ RestartTells
      PROVE  LinkTypeOK'
    BY <1>2, <1>8 DEF FinishTells, Finished, QueueTells, Queue, SendTells, Sent,
                      RestartTells, Restart
<1>9. CASE UNCHANGED allVars
    BY <1>2, <1>9 DEF allVars, LinksStay
<1> QED
    BY <1>3, <1>4, <1>5, <1>6, <1>7, <1>8, <1>9 DEF ViewNext

\* The browser, part by part.
LEMMA BrowserType ==
    ASSUME ViewParts, TypeOK, SceneInv, scene' = scene, Browser
    PROVE  ViewParts'
<1>1. scene.loads \in Nat /\ scene.streams \in Nat
    BY DEF SceneInv, Scene
<1>2. CASE OpenStream
    BY <1>1, <1>2 DEF OpenStream, ViewParts, DueOK, StreamOK, ListOK, BegunOK, listVars
<1>3. CASE CloseStream
    <2>1. StreamOK'
        BY <1>3, NothingOnItsWay DEF CloseStream, StreamOK
    <2>2. ListOK'
        BY <1>3, LateType DEF CloseStream, ListOK, ViewParts
    <2> QED
        BY <1>3, <2>1, <2>2 DEF CloseStream, ViewParts, DueOK, BegunOK
<1>4. CASE StartLoad
    <2>1. PICK l : l = [n \in Nodes |-> IF Live(n) THEN status[n] ELSE Unknown]
        OBVIOUS
    <2>2. l \in Lists
        BY <2>1 DEF TypeOK, Lists
    <2>3. answer' = answer \cup {[list |-> l, late |-> FALSE]}
        BY <1>4, <2>1 DEF StartLoad
    <2>4. [list |-> l, late |-> FALSE] \in Answer
        BY <2>2 DEF Answer
    <2>5. ListOK'
        BY <1>4, <2>3, <2>4 DEF StartLoad, ViewParts, ListOK
    <2>6. BegunOK'
        BY <1>1, <1>4 DEF StartLoad, ViewParts, BegunOK, streamVars
    <2> QED
        BY <1>4, <2>5, <2>6 DEF StartLoad, ViewParts, DueOK, StreamOK, streamVars
<1>5. ASSUME NEW a \in answer, FinishLoad(a) PROVE ViewParts'
    <2>1. a.list \in Lists /\ a.late \in BOOLEAN
        BY DEF ViewParts, ListOK, Answer
    <2> QED
        BY <1>5, <2>1
        DEF FinishLoad, ViewParts, DueOK, StreamOK, ListOK, BegunOK, streamVars
<1>6. CASE ShowEvent
    <2>1. stream \in Seq(Event) /\ stream # <<>>
        BY <1>6 DEF ShowEvent, ViewParts, StreamOK
    <2>2. /\ Head(stream) \in Event /\ Tail(stream) \in Seq(Event)
          /\ Len(Tail(stream)) = Len(stream) - 1 /\ Len(stream) \in Nat
        BY <2>1
    <2>3. Patched(list, Head(stream)) \in Lists
        BY <2>2 DEF Patched, Lists, Event, ViewParts, ListOK
    <2>4. StreamOK'
        BY <1>6, <2>2, ViewAssumption DEF ShowEvent, ViewParts, StreamOK
    <2>5. ListOK'
        BY <1>6, <2>3, LateType DEF ShowEvent, ViewParts, ListOK
    <2> QED
        BY <1>6, <2>4, <2>5 DEF ShowEvent, ViewParts, DueOK, BegunOK
<1> QED
    BY <1>2, <1>3, <1>4, <1>5, <1>6 DEF Browser

\* The server hands on what it writes.
LEMMA TellingType ==
    ASSUME ViewParts, scene' = scene, NEW p \in Procs,
           \/ Silently(p) \/ ViewStays
           \/ on[p] \in Nodes /\ Told(p) /\ \E s \in IndexStatus : WillTell(p, s)
    PROVE  ViewParts'
<1>1. CASE Silently(p) \/ ViewStays
    BY <1>1 DEF Silently, Told, ViewStays, viewVars, listVars, streamVars,
                ViewParts, DueOK, StreamOK, ListOK, BegunOK
<1>2. CASE on[p] \in Nodes /\ Told(p) /\ \E s \in IndexStatus : WillTell(p, s)
    <2>1. DueOK'
        BY <1>2 DEF WillTell, ViewParts, DueOK, Event
    <2> QED
        BY <1>2, <2>1 DEF Told, listVars, streamVars, ViewParts, StreamOK, ListOK, BegunOK
<1> QED
    BY <1>1, <1>2

LEMMA PublishType ==
    ASSUME ViewParts, scene' = scene, NEW p \in Procs, Publish(p)
    PROVE  ViewParts'
<1>1. due[p] \in Event /\ DueOK'
    BY DEF Publish, ViewParts, DueOK
<1>2. StreamOK'
    <2>1. CASE open
        <3>1. Append(stream, due[p]) \in Seq(Event) /\ Len(Append(stream, due[p])) = Len(stream) + 1
            BY <1>1 DEF ViewParts, StreamOK
        <3>2. Len(stream) \in Nat /\ Len(stream) < MaxQueued
            BY <2>1 DEF Publish, ViewParts, StreamOK
        <3> QED
            BY <2>1, <3>1, <3>2, ViewAssumption DEF Publish, StreamOK
    <2>2. CASE ~open
        BY <2>2 DEF Publish, ViewParts, StreamOK
    <2> QED
        BY <2>1, <2>2
<1>3. ListOK'
    BY LateType DEF Publish, ViewParts, ListOK
<1> QED
    BY <1>1, <1>2, <1>3 DEF Publish, ViewParts, BegunOK

\* What is due, on its way, shown and asked for.
LEMMA ViewTypeStep ==
    ASSUME ViewTypeInv, [ViewNext]_allVars
    PROVE  ViewTypeInv'
<1>1. /\ ViewParts /\ TypeOK /\ SceneInv
      /\ \A q \in Procs : pc[q] \in {"meta"} \cup IndexPc => on[q] \in Nodes
    BY PartsOfView DEF ViewTypeInv, ViewTypeOK, TypeInv, Placed, WritePc
<1>2. [Next]_vars /\ SceneInv' /\ scene' = scene
    BY ViewStep DEF ViewTypeInv
<1>3. TypeInv' /\ HasRead'
    BY <1>2, HasReadStep, TypeStep, PlacedStep DEF ViewTypeInv, TypeInv
<1>4. ASSUME ViewParts' PROVE ViewTypeInv'
    <2>1. (stream \in Seq(Event))'
        BY <1>4 DEF ViewParts, StreamOK
    <2>2. (LinkTypeOK /\ stream \in Seq(Event) => (ViewTypeOK <=> ViewParts))'
        BY PartsOfView, PTL
    <2>3. ViewTypeOK'
        BY <1>4, <2>1, <2>2, LinkTypeStep
    <2> QED
        BY <1>2, <1>3, <2>1, <2>3 DEF ViewTypeInv
<1>5. {"pending", "indexing", "indexed", "failed"} \subseteq IndexStatus
    BY DEF IndexStatus
<1>6. ASSUME NEW r \in Requests, RequestTells(r) PROVE ViewParts'
    BY <1>1, <1>2, <1>5, <1>6, TellingType DEF RequestTells
<1>7. ASSUME NEW p \in Procs, RunTells(p) PROVE ViewParts'
    <2>1. on[p] \in Nodes
        BY <1>1, <1>7 DEF RunTells, RunStart, IndexStart, IndexMark, IndexRead, IndexInsert,
           IndexDelete, IndexStats, IndexCommit, ListFiles, ClearLinks, InsertLinks,
           PatchIncoming, Doing, RunFails, RunEscapes, IndexThrows, IndexEscapes,
       IndexPc
    <2>2. \/ Silently(p)
          \/ Told(p) /\ \E s \in IndexStatus : WillTell(p, s)
        BY <1>5, <1>7 DEF RunTells
    <2> QED
        BY <1>1, <1>2, <2>1, <2>2, TellingType
<1>8. ASSUME RestartTells PROVE ViewParts'
    <2>1. DueOK'
        BY <1>8 DEF RestartTells, DueOK
    <2>2. StreamOK'
        BY <1>8, NothingOnItsWay DEF RestartTells, StreamOK
    <2>3. ListOK'
        BY <1>1, <1>8 DEF RestartTells, ViewParts, ListOK
    <2>4. BegunOK'
        BY <1>1, <1>2, <1>8 DEF RestartTells, ViewParts, BegunOK
    <2> QED
        BY <2>1, <2>2, <2>3, <2>4 DEF ViewParts
<1>9. ASSUME \/ \E r \in Requests : CallTells(r)
             \/ RenameTells
             \/ \E ok \in BOOLEAN : FinishTells(ok)
             \/ \E j \in Jobs : QueueTells(j) \/ SendTells(j)
             \/ UNCHANGED allVars
      PROVE  ViewParts'
    <2>1. Silently(Worker) \/ ViewStays
        BY <1>9 DEF CallTells, RenameTells, FinishTells, QueueTells, SendTells, ViewStays,
           allVars
    <2> QED
        BY <1>1, <1>2, <2>1, TellingType
<1> QED
    BY <1>1, <1>2, <1>4, <1>6, <1>7, <1>8, <1>9, BrowserType, PublishType DEF ViewNext

LEMMA ViewTypeInvariant ==
    ASSUME Nodes # {}
    PROVE  ViewSpec => []ViewTypeInv
BY ViewTypeInit, ViewTypeStep, PTL DEF ViewSpec

\* Documents, links, events and the file list of a browser are what they should
\* be, in every behaviour of the composition.
THEOREM ViewTypeCorrect ==
    ASSUME Nodes # {}
    PROVE  ViewSpec => []ViewTypeOK
BY ViewTypeInvariant, PTL DEF ViewTypeInv

-----------------------------------------------------------------------------
(* Types of vectors and searches.                                          *)

RunPlaces == {"list", "listed", "drop", "upsert", "done"}
Searches  == [at: {"none", "keyword", "vector", "chunks", "nodes", "final", "done"},
              ways: SUBSET {"keyword", "semantic"},
              hits: SUBSET Id, near: SUBSET Id, settled: SUBSET Nodes, crowded: BOOLEAN]

IndexedOK ==
    /\ ids \in [Nodes -> 0 .. MaxRows]
    /\ points \subseteq Id
    /\ known \in [Procs -> [at: RunPlaces, old: SUBSET Id, new: SUBSET Id]]
    /\ leaky \subseteq Nodes \X {"overlap", "cut"}

SearchTypeInv == IndexedOK /\ search \in Searches

\* Row ids name the node, the insertion and the place of the row.
LEMMA RowIdsType ==
    ASSUME TypeOK, IndexedOK
    PROVE  /\ \A n \in Nodes : RowIds(n) \subseteq Id
           /\ AllRows \subseteq Id
<1>1. ASSUME NEW n \in Nodes PROVE RowIds(n) \subseteq Id
    <2>1. ids[n] \in 0 .. MaxRows /\ \A x \in chunks[n] : x[1] \in Nat
        BY DEF TypeOK, IndexedOK
    <2> QED
        BY <2>1 DEF RowIds, Id
<1> QED
    BY <1>1 DEF AllRows

LEMMA SearchTypeInit ==
    ASSUME SearchInit, ViewTypeInv
    PROVE  SearchTypeInv
<1>1. TypeOK
    BY DEF ViewTypeInv, TypeInv
<1>2. ids \in [Nodes -> 0 .. MaxRows]
    BY SearchAssumption DEF SearchInit
<1>3. known \in [Procs -> [at: RunPlaces, old: SUBSET Id, new: SUBSET Id]]
    BY DEF SearchInit, Through, RunPlaces
<1>4. AllRows \subseteq Id
    <2>1. ASSUME NEW n \in Nodes PROVE RowIds(n) \subseteq Id
        <3>1. ids[n] \in 0 .. MaxRows /\ \A x \in chunks[n] : x[1] \in Nat
            BY <1>1, <1>2 DEF TypeOK
        <3> QED
            BY <3>1 DEF RowIds, Id
    <2> QED
        BY <2>1 DEF AllRows
<1>5. search \in Searches
    BY DEF SearchInit, NoSearch, Searches
<1> QED
    BY <1>2, <1>3, <1>4, <1>5 DEF SearchInit, SearchTypeInv, IndexedOK

\* The query takes rows and points as they are.
LEMMA BestOf == \A S : \A best \in Best(S) : best \subseteq S
BY DEF Best, kSubset

LEMMA SearchStepsType ==
    ASSUME TypeOK, SearchTypeInv, SearchSteps
    PROVE  SearchTypeInv'
<1>1. AllRows \subseteq Id /\ points \subseteq Id
    BY RowIdsType DEF SearchTypeInv, IndexedOK
<1>2. ASSUME UNCHANGED indexedVars, search' \in Searches PROVE SearchTypeInv'
    BY <1>2 DEF SearchTypeInv, IndexedOK, indexedVars
<1>3. search \in Searches
    BY DEF SearchTypeInv
<1>4. ASSUME NEW ways \in SUBSET {"keyword", "semantic"}, StartSearch(ways)
      PROVE  SearchTypeInv'
    <2>1. PICK s \in SUBSET Nodes : s = {n \in Nodes : Settled(n)}
        OBVIOUS
    <2>2. search' \in Searches
        BY <1>4, <2>1 DEF StartSearch, NoSearch, Searches
    <2> QED
        BY <1>2, <1>4, <2>2 DEF StartSearch
<1>5. CASE SearchKeyword
    <2>1. PICK best \in Best(AllRows) :
              search' = [search EXCEPT !.at = After("keyword"), !.hits = best,
                                       !.crowded = Crowds(AllRows)]
        BY <1>5 DEF SearchKeyword
    <2>2. After("keyword") \in {"vector", "nodes"} /\ Crowds(AllRows) \in BOOLEAN
        BY DEF After, Crowds
    <2>3. best \in SUBSET Id
        BY <1>1, <2>1, BestOf
    <2>4. search' \in Searches
        BY <1>3, <2>1, <2>2, <2>3 DEF Searches
    <2> QED
        BY <1>2, <1>5, <2>4 DEF SearchKeyword
<1>6. CASE SearchVectors
    <2>0. PICK pool \in {points, AllRows} : \E best \in Best(pool) :
              search' = [search EXCEPT !.at = "chunks", !.near = best,
                                       !.crowded = @ \/ Crowds(pool)]
        BY <1>6 DEF SearchVectors
    <2>1. PICK best \in Best(pool) :
              search' = [search EXCEPT !.at = "chunks", !.near = best,
                                       !.crowded = @ \/ Crowds(pool)]
        BY <2>0
    <2>2. best \in SUBSET Id
        BY <1>1, <2>1, BestOf
    <2>3. (search.crowded \/ Crowds(pool)) \in BOOLEAN
        OBVIOUS
    <2>4. search' \in Searches
        BY <1>3, <2>1, <2>2, <2>3 DEF Searches
    <2> QED
        BY <1>2, <1>6, <2>4 DEF SearchVectors
<1>7. CASE MergeHits
    <2>1. (search.hits \cup (search.near \cap AllRows)) \in SUBSET Id
        BY <1>1, <1>3 DEF Searches
    <2>2. search' \in Searches
        BY <1>3, <1>7, <2>1 DEF MergeHits, Searches
    <2> QED
        BY <1>2, <1>7, <2>2 DEF MergeHits
<1>8. CASE RankHits
    <2>0. PICK found \in SUBSET search.hits : \E best \in Best(found) :
              search' = [search EXCEPT !.at = "final", !.hits = best,
                                       !.crowded = @ \/ Cardinality(found) > Limit]
        BY <1>8 DEF RankHits
    <2>1. PICK best \in Best(found) :
              search' = [search EXCEPT !.at = "final", !.hits = best,
                                       !.crowded = @ \/ Cardinality(found) > Limit]
        BY <2>0
    <2>2. best \in SUBSET Id
        BY <1>3, <2>1, BestOf DEF Searches
    <2>3. (search.crowded \/ Cardinality(found) > Limit) \in BOOLEAN
        OBVIOUS
    <2>4. search' \in Searches
        BY <1>3, <2>1, <2>2, <2>3 DEF Searches
    <2> QED
        BY <1>2, <1>8, <2>4 DEF RankHits
<1>9. CASE ReadResults
    <2>1. (search.hits \cap AllRows) \in SUBSET Id
        BY <1>1
    <2>2. search' \in Searches
        BY <1>3, <1>9, <2>1 DEF ReadResults, Searches
    <2> QED
        BY <1>2, <1>9, <2>2 DEF ReadResults
<1> QED
    BY <1>4, <1>5, <1>6, <1>7, <1>8, <1>9 DEF SearchSteps

LEMMA WatchingType ==
    ASSUME search \in Searches, Watching
    PROVE  search' \in Searches
<1>1. PICK s \in SUBSET Nodes : search' = [search EXCEPT !.settled = s]
    <2>1. {n \in search.settled : Settled(n)'} \in SUBSET Nodes
        BY DEF Searches
    <2> QED
        BY <2>1 DEF Watching
<1> QED
    BY <1>1 DEF Searches

\* A run of indexNode, with ids and points.
LEMMA IndexesType ==
    ASSUME ViewTypeInv, SearchTypeInv, NEW p \in Procs, Indexes(p)
    PROVE  SearchTypeInv'
<1>1. /\ TypeOK /\ IndexedOK /\ search' \in Searches
      /\ pc[p] \in IndexPc => on[p] \in Nodes
    BY WatchingType DEF Indexes, ViewTypeInv, TypeInv, Placed, SearchTypeInv
<1>2. PICK n, new : n = on[p] /\ new = {<<n, ids[n] + 1, x[1]>> : x \in Rows(val[p])}
    OBVIOUS
<1>3. /\ Inserts(p) => pc[p] \in IndexPc
      /\ Leaks(p) # {} => pc[p] \in IndexPc
      /\ Leaks(p) \subseteq {"overlap", "cut"}
    BY DEF Inserts, Leaks, Begins, Throws, IndexPc
<1>4. ids' \in [Nodes -> 0 .. MaxRows]
    <2>1. CASE Searched /\ Inserts(p) /\ new # {}
        <3>1. ids[n] < MaxRows /\ ids' = [ids EXCEPT ![n] = @ + 1] /\ n \in Nodes
            BY <1>1, <1>2, <1>3, <2>1 DEF Indexes
        <3> QED
            BY <1>1, <3>1, SearchAssumption DEF IndexedOK
    <2>2. CASE ~(Searched /\ Inserts(p) /\ new # {})
        BY <1>1, <1>2, <2>2 DEF Indexes, IndexedOK
    <2> QED
        BY <2>1, <2>2
<1>5. leaky' \subseteq Nodes \X {"overlap", "cut"}
    BY <1>1, <1>3 DEF Indexes, IndexedOK
<1>6. known' \in [Procs -> [at: RunPlaces, old: SUBSET Id, new: SUBSET Id]]
    <2> DEFINE Knows == [at: RunPlaces, old: SUBSET Id, new: SUBSET Id]
    <2>1. known \in [Procs -> Knows]
        BY <1>1 DEF IndexedOK
    <2>2. Through \in Knows /\ [Through EXCEPT !.at = "list"] \in Knows
        BY DEF Through, RunPlaces
    <2>3. Searched /\ Inserts(p) => [known[p] EXCEPT !.at = "drop", !.new = new] \in Knows
        <3> SUFFICES ASSUME Searched, Inserts(p)
                     PROVE  [known[p] EXCEPT !.at = "drop", !.new = new] \in Knows
            OBVIOUS
        <3>1. n \in Nodes
            BY <1>1, <1>2, <1>3
        <3>2. \A x \in Rows(val[p]) : x[1] \in Nat
            BY <1>1, RowsType DEF TypeOK
        <3>3. new # {} => ids[n] \in 0 .. MaxRows /\ ids[n] < MaxRows
            BY <1>1, <1>2, <3>1 DEF Indexes, IndexedOK
        <3>4. new \in SUBSET Id
            BY <1>2, <3>1, <3>2, <3>3, SearchAssumption DEF Id
        <3>5. known[p] \in Knows
            BY <2>1
        <3> QED
            BY <3>4, <3>5 DEF RunPlaces
    <2>4. \/ known' = known
          \/ \E k \in {Through, [Through EXCEPT !.at = "list"], known[p]} :
                known' = [known EXCEPT ![p] = k]
          \/ Searched /\ Inserts(p)
             /\ known' = [known EXCEPT ![p] = [@ EXCEPT !.at = "drop", !.new = new]]
        <3> SUFFICES ASSUME Searched,
                            known' # [known EXCEPT ![p] = Through],
                            known' # [known EXCEPT ![p] = [Through EXCEPT !.at = "list"]]
                     PROVE  \/ known' = [known EXCEPT ![p] = known[p]]
                            \/ Inserts(p) /\ known' =
                                  [known EXCEPT ![p] = [@ EXCEPT !.at = "drop", !.new = new]]
            BY DEF Indexes
        <3>1. known' = [known EXCEPT ![p] =
                          CASE Begins(p) -> [Through EXCEPT !.at = "list"]
                            [] Inserts(p) -> IF Separate
                                               THEN [@ EXCEPT !.at = "drop", !.new = new]
                                               ELSE Through
                            [] Throws(p) -> Through
                            [] OTHER -> @]
            BY <1>2 DEF Indexes
        <3>2. /\ ~Begins(p) \/ ~Inserts(p)
              /\ ~Begins(p) \/ ~Throws(p)
              /\ ~Inserts(p) \/ ~Throws(p)
            BY DEF Begins, Inserts, Throws, IndexPc
        <3>3. ~Begins(p)
            BY <3>1, <3>2
        <3>4. CASE Inserts(p)
            BY <3>1, <3>2, <3>3, <3>4
        <3>5. CASE ~Inserts(p)
            BY <3>1, <3>3, <3>5
        <3> QED
            BY <3>4, <3>5
    <2> HIDE DEF Knows
    <2>5. known[p] \in Knows
        BY <2>1
    <2>6. known' \in [Procs -> Knows]
        BY <2>1, <2>2, <2>3, <2>4, <2>5
    <2> QED
        BY <2>6 DEF Knows
<1> QED
    BY <1>1, <1>4, <1>5, <1>6 DEF Indexes, SearchTypeInv, IndexedOK

\* Vectors, searches, and the death of the process.
LEMMA SearchTypeStep ==
    ASSUME ViewTypeInv, SearchTypeInv, [SearchNext]_<<allVars, searchVars>>
    PROVE  SearchTypeInv'
<1>1. TypeOK /\ IndexedOK /\ search \in Searches
    BY DEF ViewTypeInv, TypeInv, SearchTypeInv
<1>2. \A q \in Procs : pc[q] \in IndexPc => on[q] \in Nodes
    BY DEF ViewTypeInv, TypeInv, Placed
<1> DEFINE Knows == [at: RunPlaces, old: SUBSET Id, new: SUBSET Id]
<1>3. known \in [Procs -> Knows] /\ Through \in Knows
    BY <1>1 DEF IndexedOK, Through, RunPlaces
<1>4. ASSUME NEW p \in Procs, ListPrevious(p) PROVE SearchTypeInv'
    <2>1. RowIds(on[p]) \in SUBSET Id
        BY <1>1, <1>2, <1>4, RowIdsType DEF ListPrevious, IndexPc
    <2>2. known[p] \in Knows
        BY <1>3
    <2>3. [known[p] EXCEPT !.at = "listed", !.old = RowIds(on[p])] \in Knows
        BY <2>1, <2>2 DEF RunPlaces
    <2>4. known' \in [Procs -> Knows]
        BY <1>3, <1>4, <2>3 DEF ListPrevious
    <2> QED
        BY <1>1, <1>4, <2>4 DEF ListPrevious, OnlyRows, SearchTypeInv, IndexedOK
<1>5. ASSUME NEW p \in Procs, DropPoints(p) PROVE SearchTypeInv'
    <2>1. known[p] \in Knows
        BY <1>3
    <2>2. [known[p] EXCEPT !.at = "upsert", !.old = {}] \in Knows
        BY <2>1 DEF RunPlaces
    <2>3. known' \in [Procs -> Knows]
        BY <1>3, <1>5, <2>2 DEF DropPoints
    <2> QED
        BY <1>1, <1>5, <2>3 DEF DropPoints, OnlyRows, SearchTypeInv, IndexedOK
<1>6. ASSUME NEW p \in Procs, UpsertPoints(p) PROVE SearchTypeInv'
    <2>1. known[p].new \in SUBSET Id
        BY <1>3
    <2>2. known' \in [Procs -> Knows]
        BY <1>3, <1>6 DEF UpsertPoints
    <2> QED
        BY <1>1, <1>6, <2>1, <2>2 DEF UpsertPoints, OnlyRows, SearchTypeInv, IndexedOK
<1>7. CASE Dies
    <2>1. leaky' \subseteq Nodes \X {"overlap", "cut"}
        BY <1>1, <1>2, <1>7 DEF Dies, IndexedOK
    <2>2. known' \in [Procs -> Knows]
        BY <1>3, <1>7 DEF Dies
    <2>3. search' \in Searches
        BY <1>7 DEF Dies, NoSearch, Searches
    <2> QED
        BY <1>1, <1>7, <2>1, <2>2, <2>3 DEF Dies, SearchTypeInv, IndexedOK
<1>8. CASE Otherwise
    BY <1>1, <1>8, WatchingType DEF Otherwise, indexedVars, SearchTypeInv, IndexedOK
<1>9. CASE UNCHANGED <<allVars, searchVars>>
    BY <1>1, <1>9 DEF searchVars, indexedVars, SearchTypeInv, IndexedOK
<1> QED
    BY <1>1, <1>4, <1>5, <1>6, <1>7, <1>8, <1>9, IndexesType, SearchStepsType DEF SearchNext

\* With vectors and searches too.
LEMMA SearchTypeInvariant ==
    ASSUME Nodes # {}
    PROVE  SearchSpec => [](ViewTypeInv /\ SearchTypeInv)
<1>1. SearchSpec => []ViewTypeInv
    BY SearchImplementsView, ViewTypeInvariant, PTL
<1> QED
    BY <1>1, SearchTypeInit, SearchTypeStep, PTL DEF SearchSpec

\* Row ids, points and what a run or a search knows of them are what they
\* should be: a run names only rows of its own node, and never more of their
\* insertions than the bound allows.
THEOREM SearchTypeCorrect ==
    ASSUME Nodes # {}
    PROVE  SearchSpec => []SearchTypeOK
<1>1. ViewTypeInv /\ SearchTypeInv => SearchTypeOK
    BY DEF ViewTypeInv, SearchTypeInv, IndexedOK, RunPlaces, Searches, SearchTypeOK
<1> QED
    BY <1>1, SearchTypeInvariant, PTL

-----------------------------------------------------------------------------
(* How long a document is owed an index, and what the worker does in turn.   *)

\* r itself, or a job of r that the worker does not run, will index n.
Owes(r, n) ==
    \/ <<r, n>> # held /\ job[<<r, n>>] \in OwingJob
    \/ on[r] = n /\ pc[r] \in OwingPc

\* The worker turns to n.
Fetched(n) == pc[Worker] = "idle" /\ pc'[Worker] = "start" /\ on'[Worker] = n

\* What is owed to a document stays owed by the same request, as long as the
\* document exists, until the worker turns to it.
LEMMA OwedRemains ==
    ASSUME LostInv, NoBootstrap, [Next]_vars, NEW n \in Nodes, Owed(n), Live(n)'
    PROVE  Owed(n)' \/ Fetched(n)
<1>1. PICK r \in Requests : Owes(r, n)
    BY DEF Owed, Owes
<1> SUFFICES Owes(r, n)' \/ Fetched(n)
    BY DEF Owed, Owes
<1>2. /\ pc \in [Procs -> Pc] /\ on \in [Procs -> Nodes \cup {NoNode}]
      /\ job \in [Jobs -> JobState] /\ r # Worker /\ <<r, n>> \in Jobs
      /\ \A q \in Requests : q \notin Bootstraps \/ pc[q] = "idle"
      /\ NoJob \notin Jobs /\ <<r, n>> # NoJob
    BY ProcAssumption DEF LostInv, TypeInv, TypeOK, NoBootstrap
<1>3. held = NoJob \/ (held \in Jobs /\ job[held] = "active")
    BY DEF LostInv, Run
<1>4. /\ pc[r] \in {"idle"} \cup WritePc => job[<<r, n>>] = "none"
      /\ job[<<r, n>>] = "sending" => on[r] = n /\ pc[r] \in {"done", "aborted"}
    BY DEF LostInv, Sends
<1>5. ASSUME NEW q \in Requests, Begin(q) PROVE Owes(r, n)'
    <2>1. CASE q # r
        BY <1>1, <1>2, <1>5, <2>1 DEF Begin, StartSave, StartCreate, StartDelete,
           StartValidate, StartSweep, Goto, Owes, jobVars
    <2>2. CASE q = r
        <3>1. pc[r] = "idle"
            BY <1>5, <2>2 DEF Begin, StartSave, StartCreate, StartDelete, StartValidate,
               StartSweep
        <3> QED
            BY <1>1, <1>4, <3>1 DEF Owes, OwingJob, OwingPc, WritePc
    <2> QED
        BY <2>1, <2>2
<1>6. ASSUME NEW q \in Requests \ {r}, Continue(q) \/ MirrorFails(q) PROVE Owes(r, n)'
    BY <1>1, <1>2, <1>6 DEF Continue, Put, Update, Mirror, Meta, Unlink, DeleteBlob,
       DeleteRow, WriteValidation, SweepSend, MirrorFails, Goto, Owes, jobVars
<1>7. CASE Continue(r) \/ MirrorFails(r)
    <2>1. CASE Put(r) \/ Update(r) \/ Mirror(r) \/ MirrorFails(r)
        <3>1. pc[r] \in WritePc
            BY <2>1 DEF Put, Update, Mirror, MirrorFails, WritePc
        <3>2. on[r] = n /\ pc[r] # "put"
            BY <1>1, <1>4, <3>1 DEF Owes, OwingJob, OwingPc, WritePc
        <3> QED
            BY <1>2, <2>1, <3>2 DEF Put, Update, Mirror, MirrorFails, Goto, Owes, OwingPc,
               WritePc, jobVars
    <2>2. CASE Meta(r)
        <3>1. job[<<r, n>>] = "none" /\ on[r] = n
            BY <1>1, <1>4, <2>2 DEF Meta, Owes, OwingJob, OwingPc, WritePc
        <3> QED
            BY <1>2, <1>3, <2>2, <3>1 DEF Meta, Owes, OwingJob
    <2>3. CASE Unlink(r) \/ DeleteBlob(r) \/ WriteValidation(r)
        BY <1>1, <1>2, <2>3 DEF Unlink, DeleteBlob, WriteValidation, Goto, Owes, OwingPc,
           WritePc, jobVars
    <2>4. CASE DeleteRow(r)
        <3>1. on[r] # n
            BY <2>4 DEF DeleteRow, Live, LostInv, TypeInv, TypeOK
        <3> QED
            BY <1>1, <1>2, <2>4, <3>1 DEF DeleteRow, Goto, Owes, jobVars
    <2>5. ASSUME NEW m \in Nodes, SweepSend(r, m) PROVE Owes(r, n)'
        BY <1>1, <1>2, <2>5 DEF SweepSend, Enqueued, Goto, Owes, OwingJob, OwingPc, WritePc
    <2> QED
        BY <1>7, <2>1, <2>2, <2>3, <2>4, <2>5 DEF Continue
<1>8. ASSUME NEW p \in Procs, Return(p, TRUE) \/ Return(p, FALSE), p = Worker,
             pc[p] \in IndexPc
      PROVE  Owes(r, n)'
    <2>1. held \in Jobs /\ job[held] = "active"
        BY <1>8, WorkerRuns DEF LostInv
    <2> QED
        BY <1>1, <1>2, <1>8, <2>1 DEF Return, AttemptFailed, Goto, Owes
<1>9. ASSUME NEW p \in Procs, Index(p) \/ IndexThrows(p) \/ IndexEscapes(p) PROVE Owes(r, n)'
    <2>1. p = Worker
        BY <1>9, WorkerRuns DEF LostInv, Index, IndexStart, IndexMark, IndexRead, IndexDelete,
           IndexInsert, IndexCommit, IndexStats, IndexThrows, IndexEscapes, IndexPc
    <2>2. pc[p] \in IndexPc
        BY <1>9 DEF Index, IndexStart, IndexMark, IndexRead, IndexDelete, IndexInsert, IndexCommit,
           IndexStats, IndexThrows, IndexEscapes, IndexPc
    <2> QED
        BY <1>1, <1>2, <1>8, <1>9, <2>1, <2>2 DEF Index, IndexStart, IndexMark, IndexRead,
           IndexDelete,
           IndexInsert, IndexCommit, IndexStats, IndexThrows, IndexEscapes, Catch, Goto, Owes,
           jobVars
<1>10. ASSUME NEW ok \in BOOLEAN, FinishJob(ok) PROVE Owes(r, n)'
    BY <1>8, <1>10 DEF FinishJob, IndexPc
<1>11. ASSUME NEW j \in Jobs, Send(j) PROVE Owes(r, n)'
    <2>1. Live(n)
        BY <1>11 DEF Send, Live, nodeVars
    <2> QED
        BY <1>1, <1>2, <1>11, <2>1 DEF Send, Enqueued, Owes, OwingJob, procVars
<1>12. ASSUME NEW j \in Jobs, SendFails(j) PROVE Owes(r, n)'
    <2>1. CASE j = <<r, n>>
        <3>1. on[r] = n /\ pc[r] \in {"done", "aborted"}
            BY <1>4, <1>12, <2>1 DEF SendFails
        <3> QED
            BY <1>2, <1>12, <2>1, <3>1 DEF SendFails, Owes, OwingPc
    <2>2. CASE j # <<r, n>>
        BY <1>1, <1>2, <1>12, <2>2 DEF SendFails, Owes, OwingPc, WritePc
    <2> QED
        BY <2>1, <2>2
<1>13. ASSUME NEW j \in Jobs, Expire(j) \/ RetryFailedJob(j) \/ DeleteFailedJob(j)
       PROVE  Owes(r, n)'
    BY <1>1, <1>2, <1>13
    DEF Expire, AttemptFailed, RetryFailedJob, DeleteFailedJob, Owes, OwingJob, procVars
<1>14. ASSUME NEW j \in Jobs, Fetch(j) PROVE Owes(r, n)' \/ Fetched(n)
    <2>1. CASE j = <<r, n>>
        BY <1>2, <1>14, <2>1 DEF Fetch, Goto, Fetched
    <2>2. CASE j # <<r, n>>
        BY <1>1, <1>2, <1>14, <2>2 DEF Fetch, Goto, Owes
    <2> QED
        BY <2>1, <2>2
<1>15. CASE Crash
    <2>1. /\ on'[r] = on[r] /\ held' = NoJob
          /\ pc'[r] = IF \/ pc[r] \notin {"idle", "done"}
                         \/ \E m \in Nodes : job[<<r, m>>] = "sending"
                      THEN "aborted" ELSE pc[r]
          /\ job'[<<r, n>>] = IF job[<<r, n>>] = "sending" THEN "none" ELSE job[<<r, n>>]
        BY <1>2, <1>15 DEF Crash
    <2>2. CASE job[<<r, n>>] = "sending"
        BY <1>4, <2>1, <2>2 DEF Owes, OwingPc
    <2>3. CASE job[<<r, n>>] # "sending" /\ job[<<r, n>>] \in OwingJob
        BY <1>2, <1>3, <2>1, <2>3 DEF Owes
    <2>4. CASE on[r] = n /\ pc[r] \in OwingPc
        BY <2>1, <2>4 DEF Owes, OwingPc, WritePc
    <2> QED
        BY <1>1, <2>2, <2>3, <2>4 DEF Owes
<1>16. CASE UNCHANGED vars
    BY <1>1, <1>16 DEF vars, procVars, jobVars, Owes
<1> QED
    BY <1>5, <1>6, <1>7, <1>9, <1>10, <1>11, <1>12, <1>13, <1>14, <1>15, <1>16
    DEF Next, Failure, Operator

\* The worker's own steps come in order, for one node and one content.
WorkerInOrder ==
    /\ pc'[Worker] = "read" => pc[Worker] \in {"mark", "read"}
    /\ pc'[Worker] = "delete" => pc[Worker] \in {"read", "delete"}
    /\ pc'[Worker] = "insert" => pc[Worker] \in {"delete", "insert"}
    /\ pc'[Worker] = "commit" => pc[Worker] \in {"insert", "commit"}
    /\ pc'[Worker] \in {"insert", "commit"}
         => on'[Worker] = on[Worker] /\ val'[Worker] = val[Worker]
    /\ pc'[Worker] \in IndexPc /\ pc[Worker] \in IndexPc => on'[Worker] = on[Worker]

LEMMA WorkerMoves ==
    ASSUME TypeInv, [Next]_vars
    PROVE  WorkerInOrder
<1>1. /\ pc \in [Procs -> Pc] /\ on \in [Procs -> Nodes \cup {NoNode}]
      /\ val \in [Procs -> Contents \cup {NoContent}]
      /\ Worker \in Procs /\ Worker \notin Requests
    BY ProcAssumption DEF TypeInv, TypeOK
<1>2. ASSUME pc'[Worker] = pc[Worker], on'[Worker] = on[Worker], val'[Worker] = val[Worker]
      PROVE  WorkerInOrder
    BY <1>2 DEF WorkerInOrder
<1>3. ASSUME pc'[Worker] = "idle" PROVE WorkerInOrder
    BY <1>3 DEF WorkerInOrder, IndexPc
<1>4. ASSUME NEW r \in Requests, Begin(r) PROVE WorkerInOrder
    BY <1>1, <1>2, <1>4 DEF Begin, StartSave, StartCreate, StartDelete, StartValidate,
       StartSweep, Goto
<1>5. ASSUME NEW r \in Requests, Continue(r) \/ MirrorFails(r) PROVE WorkerInOrder
    BY <1>1, <1>2, <1>5 DEF Continue, Put, Update, Mirror, Meta, Unlink, DeleteBlob,
       DeleteRow, WriteValidation, SweepSend, MirrorFails, Goto
<1>6. ASSUME NEW p \in Procs, NEW ok, Return(p, ok) PROVE WorkerInOrder
    BY <1>1, <1>2, <1>3, <1>6 DEF Return, Goto
<1>7. ASSUME NEW p \in Procs \ {Worker}, Index(p) \/ IndexThrows(p) \/ IndexEscapes(p)
      PROVE  WorkerInOrder
    BY <1>1, <1>2, <1>6, <1>7 DEF Index, IndexStart, IndexMark, IndexRead, IndexDelete, IndexInsert,
       IndexCommit, IndexStats, IndexThrows, IndexEscapes, Catch, Goto
<1>8. CASE Index(Worker) \/ IndexThrows(Worker) \/ IndexEscapes(Worker)
    <2>1. CASE IndexStart(Worker) \/ IndexMark(Worker) \/ IndexDelete(Worker)
        BY <1>1, <1>6, <2>1 DEF IndexStart, IndexMark, IndexDelete, Goto, WorkerInOrder, IndexPc
    <2>2. CASE \/ IndexRead(Worker) \/ IndexInsert(Worker) \/ IndexThrows(Worker)
               \/ IndexEscapes(Worker)
        BY <1>1, <1>6, <2>2 DEF IndexRead, IndexInsert, IndexThrows, IndexEscapes, Catch, Goto,
           WorkerInOrder, IndexPc
    <2>3. CASE IndexCommit(Worker) \/ IndexStats(Worker)
        BY <1>1, <1>6, <2>3 DEF IndexCommit, IndexStats, Goto, WorkerInOrder, IndexPc
    <2> QED
        BY <1>8, <2>1, <2>2, <2>3 DEF Index
<1>9. ASSUME NEW ok, FinishJob(ok) PROVE WorkerInOrder
    BY <1>6, <1>9 DEF FinishJob
<1>10. ASSUME NEW j \in Jobs, Fetch(j) PROVE WorkerInOrder
    BY <1>1, <1>10 DEF Fetch, Goto, WorkerInOrder, IndexPc
<1>11. ASSUME NEW j \in Jobs,
              \/ Send(j) \/ Expire(j) \/ SendFails(j) \/ RetryFailedJob(j) \/ DeleteFailedJob(j)
       PROVE  WorkerInOrder
    BY <1>1, <1>2, <1>11 DEF Send, Expire, SendFails, RetryFailedJob, DeleteFailedJob, procVars
<1>12. CASE Crash
    BY <1>1, <1>3, <1>12 DEF Crash
<1>13. CASE UNCHANGED vars
    BY <1>2, <1>13 DEF vars, procVars
<1> QED
    BY <1>4, <1>5, <1>7, <1>8, <1>9, <1>10, <1>11, <1>12, <1>13 DEF Next, Failure, Operator

\* Nobody is to index n, and nobody is about to delete its row.
Deleting(n) == \E r \in Requests : on[r] = n /\ pc[r] = "rowdel"
Debt(n) == StatusOwed(n) \/ Deleting(n)

\* A stored content changes only when somebody comes to owe the index of it, a
\* row appears only with its creation under way, and a deletion is completed or
\* given up.
LEMMA ContentChanges ==
    ASSUME TypeInv, [Next]_vars, NEW n \in Nodes, Live(n)'
    PROVE  /\ Deleting(n) => Debt(n)'
           /\ blob'[n] # blob[n] => Owed(n)' /\ Debt(n)'
           /\ row[n] \in {"live", "absent"}
<1>1. /\ pc \in [Procs -> Pc] /\ on \in [Procs -> Nodes \cup {NoNode}]
      /\ blob \in [Nodes -> Contents \cup {NoContent}]
      /\ row \in [Nodes -> {"absent", "live", "gone"}]
      /\ Worker \notin Requests
      /\ \A q \in Requests : pc[q] \in WritePc \cup DeletePc => on[q] \in Nodes
    BY ProcAssumption DEF TypeInv, TypeOK, Placed
<1> DEFINE Done == /\ Deleting(n) => Debt(n)'
                   /\ blob'[n] # blob[n] => Owed(n)' /\ Debt(n)'
                   /\ row[n] \in {"live", "absent"}
<1>2. ASSUME UNCHANGED <<row, blob>>,
             \A r \in Requests : pc[r] = "rowdel" => on'[r] = on[r] /\ pc'[r] \in {"rowdel", "aborted"}
      PROVE  Done
    <2>1. Deleting(n) => Debt(n)'
        BY <1>2 DEF Deleting, Debt, StatusOwed, Unfinished
    <2> QED
        BY <1>1, <1>2, <2>1 DEF Live
<1>3. ASSUME NEW r \in Requests, Begin(r) PROVE Done
    <2>1. Deleting(n) => Deleting(n)'
        BY <1>1, <1>3 DEF Begin, StartSave, StartCreate, StartDelete, StartValidate,
           StartSweep, Goto, Deleting
    <2>2. blob' = blob /\ row[n] \in {"live", "absent"}
        BY <1>1, <1>3 DEF Begin, StartSave, StartCreate, StartDelete, StartValidate,
           StartSweep, nodeVars, Live
    <2> QED
        BY <2>1, <2>2 DEF Debt
<1>4. ASSUME NEW r \in Requests, Put(r) PROVE Done
    <2>1. Deleting(n) => Deleting(n)'
        BY <1>1, <1>4 DEF Put, Goto, Deleting
    <2>2. row[n] \in {"live", "absent"}
        BY <1>1, <1>4 DEF Put, nodeVars, Live
    <2>3. on[r] = n => Owed(n)' /\ StatusOwed(n)'
        BY <1>1, <1>4 DEF Put, Goto, Owed, OwingPc, WritePc, StatusOwed, Unfinished
    <2>4. on[r] # n => blob'[n] = blob[n]
        BY <1>1, <1>4 DEF Put
    <2> QED
        BY <2>1, <2>2, <2>3, <2>4 DEF Debt
<1>5. ASSUME NEW r \in Requests, DeleteBlob(r) PROVE Done
    <2>1. Deleting(n) => Deleting(n)'
        BY <1>1, <1>5 DEF DeleteBlob, Goto, Deleting
    <2>2. row[n] \in {"live", "absent"}
        BY <1>1, <1>5 DEF DeleteBlob, nodeVars, Live
    <2>3. on[r] = n => Owed(n)' /\ Deleting(n)'
        BY <1>1, <1>5 DEF DeleteBlob, Goto, Owed, OwingPc, WritePc, Deleting
    <2>4. on[r] # n => blob'[n] = blob[n]
        BY <1>1, <1>5 DEF DeleteBlob
    <2> QED
        BY <2>1, <2>2, <2>3, <2>4 DEF Debt
<1>6. ASSUME NEW r \in Requests, DeleteRow(r) PROVE Done
    <2>1. on[r] # n
        BY <1>1, <1>6 DEF DeleteRow, Live
    <2>2. Deleting(n) => Deleting(n)'
        BY <1>1, <1>6, <2>1 DEF DeleteRow, Goto, Deleting
    <2> QED
        BY <1>1, <1>6, <2>1, <2>2 DEF DeleteRow, Debt, Live
<1>7. ASSUME NEW r \in Requests,
             \/ Update(r) \/ Mirror(r) \/ Meta(r) \/ Unlink(r) \/ WriteValidation(r)
             \/ (\E m \in Nodes : SweepSend(r, m)) \/ MirrorFails(r)
      PROVE  Done
    <2>1. UNCHANGED <<row, blob>>
        BY <1>7 DEF Update, Mirror, Meta, Unlink, WriteValidation, SweepSend, MirrorFails,
           nodeVars
    <2>2. ASSUME NEW q \in Requests, pc[q] = "rowdel" PROVE on'[q] = on[q] /\ pc'[q] = "rowdel"
        BY <1>1, <1>7, <2>2 DEF Update, Mirror, Meta, Unlink, WriteValidation, SweepSend,
           MirrorFails, Goto
    <2> QED
        BY <1>2, <2>1, <2>2
<1>8. ASSUME NEW p \in Procs,
             Index(p) \/ IndexThrows(p) \/ IndexEscapes(p) \/ (\E ok \in BOOLEAN : FinishJob(ok))
      PROVE  Done
    <2>1. UNCHANGED <<row, blob>>
        BY <1>8 DEF Index, IndexStart, IndexMark, IndexRead, IndexDelete, IndexInsert, IndexCommit,
           IndexStats, IndexThrows, IndexEscapes, FinishJob, Catch, nodeVars
    <2>2. ASSUME NEW q \in Requests, pc[q] = "rowdel" PROVE on'[q] = on[q] /\ pc'[q] = "rowdel"
        <3>1. ASSUME NEW w \in Procs, w # q, NEW ok, Return(w, ok)
              PROVE  on'[q] = on[q] /\ pc'[q] = "rowdel"
            BY <1>1, <2>2, <3>1 DEF Return, Goto
        <3>2. CASE IndexThrows(p) \/ IndexEscapes(p) \/ (\E ok \in BOOLEAN : FinishJob(ok))
            BY <1>1, <2>2, <3>1, <3>2 DEF IndexThrows, IndexEscapes, FinishJob, Catch, IndexPc
        <3>3. CASE Index(p)
            BY <1>1, <2>2, <3>1, <3>3 DEF Index, IndexStart, IndexMark, IndexRead, IndexDelete,
               IndexInsert, IndexCommit, IndexStats, Catch, Goto
        <3> QED
            BY <1>8, <3>2, <3>3
    <2> QED
        BY <1>2, <2>1, <2>2
<1>9. ASSUME NEW j \in Jobs,
             \/ Send(j) \/ Fetch(j) \/ Expire(j) \/ SendFails(j)
             \/ RetryFailedJob(j) \/ DeleteFailedJob(j)
      PROVE  Done
    <2>1. UNCHANGED <<row, blob>>
        BY <1>9 DEF Send, Fetch, Expire, SendFails, RetryFailedJob, DeleteFailedJob, nodeVars
    <2>2. ASSUME NEW q \in Requests, pc[q] = "rowdel" PROVE on'[q] = on[q] /\ pc'[q] = "rowdel"
        BY <1>1, <1>9, <2>2 DEF Send, Fetch, Expire, SendFails, RetryFailedJob,
           DeleteFailedJob, procVars, Goto
    <2> QED
        BY <1>2, <2>1, <2>2
<1>10. CASE Crash
    <2>1. UNCHANGED <<row, blob>>
        BY <1>10 DEF Crash, nodeVars
    <2>2. ASSUME NEW q \in Requests, pc[q] = "rowdel" PROVE on'[q] = on[q] /\ pc'[q] = "aborted"
        BY <1>1, <1>10, <2>2 DEF Crash
    <2> QED
        BY <1>2, <2>1, <2>2
<1>11. CASE UNCHANGED vars
    BY <1>2, <1>11 DEF vars, procVars, nodeVars
<1> QED
    BY <1>3, <1>4, <1>5, <1>6, <1>7, <1>8, <1>9, <1>10, <1>11
    DEF Next, Failure, Operator, Continue

\* A document without debts had none, unless the worker has just paid the last.
LEMMA DebtLasts ==
    ASSUME LostInv, SettledInv, NoBootstrap, [Next]_vars, NEW n \in Nodes,
           Live(n)', ~Debt(n)'
    PROVE  blob'[n] = blob[n] /\ ((Live(n) /\ ~Debt(n)) \/ Marked(n))
<1>1. (Live(n) /\ ~StatusOwed(n)) \/ Marked(n)
    BY SettledStep DEF Debt, SettledNext, OwedLasts
<1>2. ~Deleting(n) /\ blob'[n] = blob[n]
    BY ContentChanges DEF LostInv
<1> QED
    BY <1>1, <1>2 DEF Debt

-----------------------------------------------------------------------------
(* The rows of the links.                                                  *)

\* S are rows of the links of content c, each once.
Right(S, c) ==
    /\ {l.target : l \in S} = LinksOf[c]
    /\ \A k, l \in S : k.target = l.target => k = l

\* The worker's run has replaced the links of its document by those of its
\* content, as far as it has come; when the content is no longer the stored one,
\* somebody else is owed to the document.
RunLinks ==
    /\ pc[Worker] \in {"mark", "read", "delete", "insert"} => run[Worker].at = "list"
    /\ Doing(Worker, "insert") => links[on[Worker]] = {}
    /\ Doing(Worker, "clear") \/ Doing(Worker, "insert") => Right(run[Worker].rows, val[Worker])
    /\ Doing(Worker, "incoming") \/ Doing(Worker, "ready")
          => Right(links[on[Worker]], val[Worker])
    /\ pc[Worker] = "commit" /\ Live(on[Worker])
          => val[Worker] = blob[on[Worker]] \/ Owed(on[Worker])

SettledLinks ==
    \A n \in Nodes : Live(n) /\ ~Debt(n) => blob[n] \in Contents /\ Right(links[n], blob[n])

LinkInv == RunLinks /\ SettledLinks

LEMMA LinksFromRight ==
    ASSUME NEW p, NEW c
    PROVE  Right(LinksFrom(p, c), c)
<1>1. {l.target : l \in LinksFrom(p, c)} = LinksOf[c]
    <2>1. ASSUME NEW t \in LinksOf[c]
          PROVE  \E l \in LinksFrom(p, c) : l.target = t
        <3>1. PICK l : l = [by |-> p, target |-> t, to |-> Resolved(t)]
            OBVIOUS
        <3>2. l \in LinksFrom(p, c) /\ l.target = t
            BY <3>1 DEF LinksFrom
        <3> QED
            BY <3>2
    <2>2. ASSUME NEW l \in LinksFrom(p, c)
          PROVE  l.target \in LinksOf[c]
        BY DEF LinksFrom
    <2> QED
        BY <2>1, <2>2
<1>2. \A l \in LinksFrom(p, c) : l = [by |-> p, target |-> l.target, to |-> Resolved(l.target)]
    BY DEF LinksFrom
<1>3. \A k, l \in LinksFrom(p, c) : k.target = l.target => k = l
    BY <1>2
<1> QED
    BY <1>1, <1>3 DEF Right

LEMMA LinkStart == ViewInit => LinkInv
<1> SUFFICES ASSUME ViewInit PROVE LinkInv
    OBVIOUS
<1>1. RunLinks
    BY ProcAssumption DEF ViewInit, Init, RunLinks, Doing
<1>2. ASSUME NEW n \in Nodes, Live(n) PROVE blob[n] \in Contents /\ Right(links[n], blob[n])
    <2>1. n \in Existing /\ blob[n] \in Contents
        BY <1>2 DEF ViewInit, Init, Live
    <2>2. links[n] = LinksFrom(Worker, blob[n])
        BY <2>1 DEF ViewInit, LinkInit, LinksFrom
    <2> QED
        BY <2>1, <2>2, LinksFromRight
<1> QED
    BY <1>1, <1>2 DEF LinkInv, SettledLinks

\* The worker's document owes something as long as the run has not closed.
LEMMA OwnDebt ==
    ASSUME LostInv, NoBootstrap, pc[Worker] \in IndexPc \ Closing
    PROVE  /\ on[Worker] \in Nodes /\ Debt(on[Worker])
           /\ row[on[Worker]] \in {"live", "gone"}
<1>1. /\ held \in Jobs /\ job[held] = "active" /\ held[1] \in Requests
      /\ held = <<held[1], on[Worker]>> /\ on[Worker] \in Nodes
    BY WorkerRuns, ProcAssumption DEF LostInv
<1>2. row[on[Worker]] \in {"live", "gone"}
    BY <1>1 DEF LostInv, Born, Known
<1>3. Debt(on[Worker])
    BY <1>1 DEF Debt, StatusOwed, OwingJob
<1> QED
    BY <1>1, <1>2, <1>3

LEMMA OwedIsDebt == \A n \in Nodes : Owed(n) => Debt(n)
BY DEF Owed, Debt, Deleting, StatusOwed, OwingPc, Unfinished

\* A step that leaves the links alone, and does not begin a run; it ends one
\* only with the links in place.
LEMMA LinksUntouched ==
    ASSUME LostInv, SettledInv, NoBootstrap, [Next]_vars, HasRead, LinkInv,
           UNCHANGED <<links, run>>,
           pc'[Worker] = "mark" => pc[Worker] = "mark",
           \A n \in Nodes : Marked(n) => Doing(Worker, "ready")
    PROVE  LinkInv'
<1>1. WorkerInOrder /\ Worker \in Procs
    BY WorkerMoves DEF LostInv
<1>0. (\A n \in Nodes : Owed(n) => Debt(n))'
    BY OwedIsDebt, PTL
<1>2. SettledLinks'
    <2> SUFFICES ASSUME NEW n \in Nodes, Live(n)', ~Debt(n)'
                 PROVE  blob'[n] \in Contents /\ Right(links[n], blob'[n])
        BY DEF SettledLinks, Right
    <2>1. blob'[n] = blob[n] /\ ((Live(n) /\ ~Debt(n)) \/ Marked(n))
        BY DebtLasts
    <2>2. CASE Live(n) /\ ~Debt(n)
        BY <2>1, <2>2 DEF LinkInv, SettledLinks
    <2>3. CASE Marked(n)
        <3>1. Doing(Worker, "ready") /\ on[Worker] = n /\ pc[Worker] = "commit"
            BY <2>3 DEF Marked
        <3>2. val[Worker] \in Contents /\ Right(links[n], val[Worker])
            BY <3>1, <1>1 DEF HasRead, Reading, LinkInv, RunLinks
        <3>3. row[n] # "absent"
            BY <3>1, OwnDebt DEF IndexPc, Closing
        <3>4. Live(n)
            BY <3>3, ContentChanges DEF LostInv, Live
        <3>5. ~Owed(n)
            BY <1>0, <3>1, OwedRemains DEF Fetched
        <3> QED
            BY <2>1, <3>1, <3>2, <3>4, <3>5 DEF LinkInv, RunLinks
    <2> QED
        BY <2>1, <2>2, <2>3
<1>3. ASSUME NEW n, pc'[Worker] = "commit", on[Worker] = n, Live(n)'
      PROVE  val[Worker] = blob'[n] \/ Owed(n)'
    <2>1. pc[Worker] \in {"insert", "commit"}
        BY <1>1, <1>3 DEF WorkerInOrder
    <2>2. n \in Nodes /\ row[n] \in {"live", "gone"}
        BY <1>3, <2>1, OwnDebt DEF IndexPc, Closing
    <2>3. Live(n)
        BY <1>3, <2>2, ContentChanges DEF LostInv, Live
    <2>4. val[Worker] = blob[n] \/ Owed(n)
        BY <1>3, <2>1, <2>3 DEF LostInv, Progress, LinkInv, RunLinks
    <2>5. Owed(n) => Owed(n)'
        BY <1>3, <2>1, <2>2, OwedRemains DEF Fetched
    <2>6. blob'[n] # blob[n] => Owed(n)'
        BY <1>3, <2>2, ContentChanges DEF LostInv
    <2> QED
        BY <2>4, <2>5, <2>6
<1>4. pc'[Worker] = "commit" /\ Live(on[Worker])'
        => (val[Worker] = blob[on[Worker]] \/ Owed(on[Worker]))'
    <2> SUFFICES ASSUME pc'[Worker] = "commit", Live(on[Worker])'
                 PROVE  (val[Worker] = blob[on[Worker]] \/ Owed(on[Worker]))'
        OBVIOUS
    <2>1. PICK n : n = on[Worker]
        OBVIOUS
    <2>2. on'[Worker] = n /\ val'[Worker] = val[Worker]
        BY <1>1, <2>1 DEF WorkerInOrder
    <2>3. val[Worker] = blob'[n] \/ Owed(n)'
        BY <1>3, <2>1, <2>2 DEF Live
    <2> QED
        BY <2>2, <2>3 DEF Owed
<1>5. RunLinks'
    BY <1>1, <1>4 DEF WorkerInOrder, RunLinks, LinkInv, Doing, Right
<1> QED
    BY <1>2, <1>5 DEF LinkInv

\* A step of the links themselves.
LEMMA LinksReplaced ==
    ASSUME LostInv, NoBootstrap, ViewTypeInv, LinkInv, UNCHANGED vars,
           \/ ListFiles(Worker) \/ ClearLinks(Worker)
           \/ InsertLinks(Worker) \/ PatchIncoming(Worker)
    PROVE  LinkInv'
<1>1. /\ pc[Worker] = "commit" /\ pc' = pc /\ on' = on /\ val' = val
      /\ blob' = blob /\ row' = row /\ job' = job /\ held' = held
    BY DEF ListFiles, ClearLinks, InsertLinks, PatchIncoming, Doing, vars, procVars,
           nodeVars, jobVars
<1>2. on[Worker] \in Nodes /\ Debt(on[Worker])
    BY <1>1, OwnDebt DEF IndexPc, Closing
<1>3. /\ \A n \in Nodes : Debt(n)' <=> Debt(n)
      /\ \A n \in Nodes : Owed(n)' <=> Owed(n)
      /\ \A n \in Nodes : Live(n)' <=> Live(n)
    BY <1>1 DEF Debt, StatusOwed, Deleting, Owed, Live
<1>4. /\ links \in [Nodes -> SUBSET Link] /\ Worker \in Procs
      /\ run \in [Procs -> [at: Steps, path: FilePaths, rows: SUBSET Link]]
    BY DEF ViewTypeInv, ViewTypeOK, LinkTypeOK
<1>5. Live(on[Worker]) => val[Worker] = blob[on[Worker]] \/ Owed(on[Worker])
    BY <1>1 DEF LinkInv, RunLinks
<1>6. ASSUME \A n \in Nodes \ {on[Worker]} : \A c : Right(links[n], c) => Right(links'[n], c)
      PROVE  SettledLinks'
    <2> SUFFICES ASSUME NEW n \in Nodes, Live(n)', ~Debt(n)'
                 PROVE  blob'[n] \in Contents /\ Right(links'[n], blob'[n])
        BY DEF SettledLinks, Right
    <2>1. Live(n) /\ ~Debt(n) /\ n # on[Worker]
        BY <1>2, <1>3
    <2> QED
        BY <1>1, <1>6, <2>1 DEF LinkInv, SettledLinks
<1>7. ASSUME Doing(Worker, "clear")' => Right(run'[Worker].rows, val[Worker]),
             Doing(Worker, "insert")' => /\ links'[on[Worker]] = {}
                                         /\ Right(run'[Worker].rows, val[Worker]),
             (Doing(Worker, "incoming") \/ Doing(Worker, "ready"))'
                => Right(links'[on[Worker]], val[Worker])
      PROVE  RunLinks'
    <2>1. (pc[Worker] = "commit" /\ Live(on[Worker])
              => val[Worker] = blob[on[Worker]] \/ Owed(on[Worker]))'
        BY <1>1, <1>5 DEF Live, Owed
    <2> QED
        BY <1>1, <1>7, <2>1 DEF RunLinks, Right, Doing
<1>8. CASE ListFiles(Worker)
    <2>1. /\ run' = [run EXCEPT ![Worker].at = "clear",
                                ![Worker].rows = LinksFrom(Worker, val[Worker])]
          /\ links' = links
        BY <1>8 DEF ListFiles, LinksFrom
    <2>2. run'[Worker].at = "clear" /\ run'[Worker].rows = LinksFrom(Worker, val[Worker])
        BY <1>4, <2>1
    <2>3. RunLinks'
        BY <1>7, <2>2, LinksFromRight DEF Doing
    <2>4. SettledLinks'
        BY <1>6, <2>1
    <2> QED
        BY <2>3, <2>4 DEF LinkInv
<1>9. CASE ClearLinks(Worker)
    <2>1. /\ run'[Worker].at = "insert" /\ run'[Worker].rows = run[Worker].rows
          /\ links'[on[Worker]] = {}
          /\ \A n \in Nodes \ {on[Worker]} : links'[n] = links[n]
        BY <1>2, <1>4, <1>9 DEF ClearLinks, LinkStep
    <2>2. Right(run[Worker].rows, val[Worker])
        BY <1>9 DEF ClearLinks, LinkInv, RunLinks
    <2>3. RunLinks'
        BY <1>7, <2>1, <2>2 DEF Doing
    <2>4. SettledLinks'
        BY <1>6, <2>1
    <2> QED
        BY <2>3, <2>4 DEF LinkInv
<1>10. CASE InsertLinks(Worker)
    <2>1. /\ run'[Worker].at = "incoming"
          /\ links'[on[Worker]] = links[on[Worker]] \cup run[Worker].rows
          /\ \A n \in Nodes \ {on[Worker]} : links'[n] = links[n]
        BY <1>2, <1>4, <1>10 DEF InsertLinks, LinkStep
    <2>2. links[on[Worker]] = {} /\ Right(run[Worker].rows, val[Worker])
        BY <1>10 DEF InsertLinks, LinkInv, RunLinks
    <2>3. links'[on[Worker]] = run[Worker].rows
        BY <2>1, <2>2
    <2>4. RunLinks'
        BY <1>7, <2>1, <2>2, <2>3 DEF Doing
    <2>5. SettledLinks'
        BY <1>6, <2>1
    <2> QED
        BY <2>4, <2>5 DEF LinkInv
<1>11. CASE PatchIncoming(Worker)
    <2>1. PICK q : links' = [n \in Nodes |-> {Incoming(l, on[Worker], q) : l \in links[n]}]
        BY <1>11 DEF PatchIncoming
    <2>2. run'[Worker].at = "ready"
        BY <1>4, <1>11 DEF PatchIncoming
    <2>3. ASSUME NEW n \in Nodes, NEW c, Right(links[n], c) PROVE Right(links'[n], c)
        <3>1. \A l \in links[n] : Incoming(l, on[Worker], q).target = l.target
            BY <1>4 DEF Incoming, Link
        <3>2. links'[n] = {Incoming(l, on[Worker], q) : l \in links[n]}
            BY <2>1
        <3>3. {l.target : l \in links'[n]} = {l.target : l \in links[n]}
            BY <3>1, <3>2
        <3>4. \A k, l \in links'[n] : k.target = l.target => k = l
            BY <2>3, <3>1, <3>2 DEF Right
        <3> QED
            BY <2>3, <3>3, <3>4 DEF Right
    <2>4. Right(links[on[Worker]], val[Worker])
        BY <1>11 DEF PatchIncoming, LinkInv, RunLinks
    <2>5. RunLinks'
        BY <1>2, <1>7, <2>2, <2>3, <2>4 DEF Doing
    <2>6. SettledLinks'
        BY <1>6, <2>3
    <2> QED
        BY <2>5, <2>6 DEF LinkInv
<1> QED
    BY <1>8, <1>9, <1>10, <1>11

\* A run begins with the links to be listed, or does not begin.
LEMMA LinksBegin ==
    ASSUME LostInv, SettledInv, NoBootstrap, [Next]_vars, ViewTypeInv, LinkInv,
           RunStart(Worker)
    PROVE  LinkInv'
<1>1. /\ pc[Worker] = "start" /\ pc'[Worker] \in {"mark", "idle"} /\ links' = links
      /\ run'[Worker].at = "list"
    <2>1. pc \in [Procs -> Pc] /\ Worker \in Procs /\ DOMAIN run = Procs
        BY DEF LostInv, TypeInv, TypeOK, ViewTypeInv, ViewTypeOK, LinkTypeOK
    <2> QED
        BY <2>1 DEF RunStart, IndexStart, Return, Goto, Started
<1>2. RunLinks'
    BY <1>1 DEF RunLinks, Doing
<1>3. ASSUME NEW n \in Nodes, Live(n)', ~Debt(n)'
      PROVE  blob'[n] \in Contents /\ Right(links'[n], blob'[n])
    <2>1. blob'[n] = blob[n] /\ Live(n) /\ ~Debt(n)
        BY <1>1, <1>3, DebtLasts DEF Marked
    <2> QED
        BY <1>1, <2>1 DEF LinkInv, SettledLinks
<1> QED
    BY <1>2, <1>3 DEF LinkInv, SettledLinks, Right

LEMMA LinkKept ==
    ASSUME LostInv, SettledInv, NoBootstrap, ViewTypeInv, LinkInv, [ViewNext]_allVars
    PROVE  LinkInv'
<1>1. [Next]_vars /\ HasRead
    BY ViewStep DEF ViewTypeInv
<1>2. /\ pc \in [Procs -> Pc] /\ Worker \in Procs /\ Worker \notin Requests
      /\ \A r \in Requests : pc[r] \notin IndexPc
    BY ProcAssumption DEF LostInv, TypeInv, TypeOK, Progress
<1>3. ASSUME UNCHANGED <<links, run>>, pc'[Worker] \in {pc[Worker], "idle", "start"}
      PROVE  LinkInv'
    BY <1>1, <1>3, LinksUntouched DEF Marked
<1>4. ASSUME NEW p \in Procs, RunTells(p) PROVE LinkInv'
    <2>1. p = Worker
        BY <1>2, <1>4 DEF RunTells, RunStart, IndexStart, IndexMark, IndexRead, IndexInsert,
           IndexDelete, IndexStats, IndexCommit, ListFiles, ClearLinks, InsertLinks,
           PatchIncoming, Doing, RunFails, RunEscapes, IndexThrows, IndexEscapes,
       IndexPc
    <2>2. CASE RunStart(Worker)
        BY <1>1, <2>2, LinksBegin
    <2>3. CASE ListFiles(Worker) \/ ClearLinks(Worker) \/ InsertLinks(Worker) \/ PatchIncoming(Worker)
        <3>1. UNCHANGED vars
            BY <2>3, LinkSteps
        <3> QED
            BY <2>3, <3>1, LinksReplaced
    <2>4. CASE /\ \/ IndexMark(Worker) \/ IndexRead(Worker) \/ IndexInsert(Worker)
                  \/ IndexDelete(Worker)
               /\ LinksStay
        <3>1. pc[Worker] # "commit" /\ pc'[Worker] # "mark"
            BY <1>2, <2>4 DEF IndexMark, IndexRead, IndexInsert, IndexDelete, Catch, Return, Goto
        <3> QED
            BY <1>1, <2>4, <3>1, LinksUntouched DEF LinksStay, linkVars, Marked
    <2>5. CASE IndexStats(Worker) /\ LinksStay
        <3>1. pc[Worker] = "stats" /\ pc'[Worker] = "schedule"
            BY <1>2, <2>5 DEF IndexStats, Goto
        <3> QED
            BY <1>1, <2>5, <3>1, LinksUntouched DEF LinksStay, linkVars, Marked
    <2>6. CASE Doing(Worker, "ready") /\ IndexCommit(Worker) /\ LinksStay
        <3>1. pc'[Worker] = "stats"
            BY <1>2, <2>6 DEF IndexCommit, Goto
        <3> QED
            BY <1>1, <2>6, <3>1, LinksUntouched DEF LinksStay, linkVars
    <2>7. CASE RunFails(Worker) \/ RunEscapes(Worker)
        <3>1. pc'[Worker] = "idle"
            BY <1>2, <2>7 DEF RunFails, RunEscapes, IndexThrows, IndexEscapes, Catch, Return, Goto
        <3> QED
            BY <1>3, <2>7, <3>1 DEF RunFails, RunEscapes, LinksStay, linkVars
    <2> QED
        BY <1>4, <2>1, <2>2, <2>3, <2>4, <2>5, <2>6, <2>7 DEF RunTells
<1>5. ASSUME NEW r \in Requests, CallTells(r) \/ RequestTells(r) PROVE LinkInv'
    <2>1. UNCHANGED <<links, run>>
        BY <1>5 DEF CallTells, Called, CreateAt, ReindexAll, RequestTells, RequestStep,
           RemoveRow, LinksStay, linkVars
    <2>2. Begin(r) \/ Continue(r)
        BY <1>5, CallBegins DEF ViewTypeInv, RequestTells, RequestStep, RemoveRow, Continue
    <2>3. pc'[Worker] = pc[Worker]
        BY <1>2, <2>2 DEF Begin, StartSave, StartCreate, StartDelete, StartValidate,
           StartSweep, Continue, Put, Update, Mirror, Meta, Unlink, DeleteBlob, DeleteRow,
           WriteValidation, SweepSend, Goto
    <2> QED
        BY <1>3, <2>1, <2>3
<1>6. ASSUME NEW j \in Jobs, QueueTells(j) \/ SendTells(j) PROVE LinkInv'
    <2>1. UNCHANGED <<links, run>>
        BY <1>6 DEF QueueTells, Queue, SendTells, Sent, LinksStay, linkVars
    <2>2. pc'[Worker] \in {pc[Worker], "start"}
        BY <1>2, <1>6 DEF QueueTells, Queue, SendTells, Sent, Fetch, Expire, RetryFailedJob,
           DeleteFailedJob, Send, SendFails, Goto, procVars
    <2> QED
        BY <1>3, <2>1, <2>2
<1>7. CASE RestartTells \/ \E ok \in BOOLEAN : FinishTells(ok)
    <2>1. UNCHANGED <<links, run>>
        BY <1>7 DEF RestartTells, Restart, FinishTells, Finished, LinksStay, linkVars
    <2>2. pc'[Worker] = "idle"
        BY <1>2, <1>7 DEF RestartTells, Restart, Crash, FinishTells, Finished, FinishJob,
           Return, Goto
    <2> QED
        BY <1>3, <2>1, <2>2
<1>8. CASE Browser \/ (\E p \in Procs : Publish(p)) \/ RenameTells \/ UNCHANGED allVars
    <2>1. UNCHANGED <<links, run>>
        BY <1>8 DEF Browser, OpenStream, CloseStream, StartLoad, ShowEvent, FinishLoad,
           Publish, RenameTells, Renamed, Rename, allVars, linkVars
    <2>2. UNCHANGED vars
        BY <1>8, ViewSteps DEF allVars
    <2> QED
        BY <1>3, <2>1, <2>2 DEF vars, procVars
<1> QED
    BY <1>4, <1>5, <1>6, <1>7, <1>8 DEF ViewNext

\* Types, what is owed, and links, until a bootstrap begins.
LEMMA LinkInvariant ==
    ASSUME Nodes # {}
    PROVE  ViewSpec => [](NoBootstrap => LinkInv)
<1>1. ViewSpec => [](ViewTypeInv /\ (NoBootstrap => LostInv /\ SettledInv))
    BY ViewImplementsDocIndex, SettledInvariant, ViewTypeInvariant, PTL
<1>2. ViewTypeInv /\ [ViewNext]_allVars /\ NoBootstrap' => NoBootstrap
    BY ViewStep, BootstrapBegun DEF ViewTypeInv, TypeInv
<1>3. ViewTypeInv /\ (NoBootstrap => LostInv /\ SettledInv) /\ (NoBootstrap => LinkInv)
        /\ [ViewNext]_allVars
      => (NoBootstrap => LinkInv)'
    BY <1>2, LinkKept
<1> QED
    BY <1>1, <1>3, LinkStart, PTL DEF ViewSpec

\* With nothing left to do, the rows of a document are the links of its stored
\* content, each once: runs that were cut off between the removal and the
\* insertion of the rows, or overtaken by a save, have been made good.
THEOREM LinksOnceHolds == ViewSpec => []LinksOnce
<1>1. LinkInv /\ NoBootstrap => LinksOnce
    <2> SUFFICES ASSUME LinkInv, Quiet, NEW n \in Nodes, Live(n) PROVE Right(links[n], blob[n])
        BY DEF LinksOnce, Right
    <2>1. /\ \A r \in Requests : pc[r] \in {"idle", "done"}
          /\ \A r \in Requests : job[<<r, n>>] \in {"none", "completed"}
        BY DEF Quiet
    <2>2. ~Debt(n)
        BY <2>1 DEF Debt, Deleting, StatusOwed, OwingJob, Unfinished, WritePc
    <2> QED
        BY <2>2 DEF LinkInv, SettledLinks
<1>2. ~NoBootstrap => LinksOnce
    BY DEF NoBootstrap, LinksOnce
<1>3. CASE Nodes = {}
    <2>1. LinksOnce
        BY <1>3 DEF LinksOnce
    <2> QED
        BY <2>1, PTL
<1>4. CASE Nodes # {}
    <2>1. ViewSpec => [](NoBootstrap => LinkInv)
        BY <1>4, LinkInvariant
    <2> QED
        BY <1>1, <1>2, <2>1, PTL
<1> QED
    BY <1>3, <1>4

-----------------------------------------------------------------------------
(* Where the links lead.                                                   *)

\* A request that was cut off is on record for good.
Spoilt == \E r \in Requests : pc[r] = "aborted"

\* r will have n indexed anew, by a run that has not begun.
Brings(r, n) ==
    \/ <<r, n>> # held /\ job[<<r, n>>] \in OwingJob
    \/ on[r] = n /\ pc[r] \in WritePc
    \/ pc[r] = "sweep" /\ n \in todo[r]

Coming(n) == \E r \in Requests : Brings(r, n)

LEMMA SpoiltStays ==
    ASSUME LostInv, NoBootstrap, [Next]_vars, Spoilt
    PROVE  Spoilt'
<1>1. PICK r \in Requests : pc[r] = "aborted"
    BY DEF Spoilt
<1> SUFFICES pc'[r] = "aborted"
    BY DEF Spoilt
<1>2. pc \in [Procs -> Pc] /\ r \in Procs /\ r # Worker
    BY ProcAssumption DEF LostInv, TypeInv, TypeOK
<1>3. ASSUME NEW q \in Requests, Begin(q) \/ Continue(q) \/ MirrorFails(q)
      PROVE  pc'[r] = "aborted"
    BY <1>1, <1>2, <1>3
    DEF Begin, StartSave, StartCreate, StartDelete, StartValidate, StartSweep, Continue, Put,
        Update, Mirror, Meta, Unlink, DeleteBlob, DeleteRow, WriteValidation, SweepSend,
        MirrorFails, Goto
<1>4. ASSUME NEW p \in Procs, Index(p) \/ IndexThrows(p) \/ IndexEscapes(p) PROVE pc'[r] = "aborted"
    <2>1. p # r
        BY <1>1, <1>4 DEF Index, IndexStart, IndexMark, IndexRead, IndexDelete, IndexInsert,
           IndexCommit, IndexStats, IndexThrows, IndexEscapes, IndexPc
    <2>2. ASSUME NEW ok, Return(p, ok) PROVE pc'[r] = "aborted"
        BY <1>1, <1>2, <2>1, <2>2 DEF Return, Goto
    <2>3. CASE IndexThrows(p) \/ IndexEscapes(p)
        BY <2>2, <2>3 DEF IndexThrows, IndexEscapes, Catch
    <2>4. CASE Index(p)
        BY <1>1, <1>2, <2>1, <2>2, <2>4 DEF Index, IndexStart, IndexMark, IndexRead, IndexDelete,
           IndexInsert, IndexCommit, IndexStats, Catch, Goto
    <2> QED
        BY <1>4, <2>3, <2>4
<1>5. ASSUME NEW ok, FinishJob(ok) PROVE pc'[r] = "aborted"
    BY <1>1, <1>2, <1>5 DEF FinishJob, Return, Goto
<1>6. ASSUME NEW j \in Jobs,
             \/ Send(j) \/ Fetch(j) \/ Expire(j) \/ SendFails(j)
             \/ RetryFailedJob(j) \/ DeleteFailedJob(j)
      PROVE  pc'[r] = "aborted"
    BY <1>1, <1>2, <1>6
    DEF Send, Fetch, Expire, SendFails, RetryFailedJob, DeleteFailedJob, procVars, Goto
<1>7. CASE Crash \/ UNCHANGED vars
    BY <1>1, <1>2, <1>7 DEF Crash, vars, procVars
<1> QED
    BY <1>3, <1>4, <1>5, <1>6, <1>7 DEF Next, Failure, Operator

\* A document that is to be indexed anew stays so until the worker turns to it,
\* or until a request is cut off.
LEMMA ComingLasts ==
    ASSUME LostInv, NoBootstrap, [Next]_vars, ~Spoilt', NEW n \in Nodes, Live(n)', Coming(n)
    PROVE  Coming(n)' \/ Fetched(n)
<1>1. PICK r \in Requests : Brings(r, n)
    BY DEF Coming
<1> DEFINE Goal == Brings(r, n)' \/ Fetched(n)
<1> SUFFICES Goal
    BY DEF Coming
<1>2. /\ pc \in [Procs -> Pc] /\ on \in [Procs -> Nodes \cup {NoNode}]
      /\ job \in [Jobs -> JobState] /\ todo \in [Requests -> SUBSET Nodes]
      /\ r \in Procs /\ r # Worker /\ <<r, n>> \in Jobs /\ Worker \in Procs
      /\ \A q \in Requests : q \notin Bootstraps \/ pc[q] = "idle"
    BY ProcAssumption DEF LostInv, TypeInv, TypeOK, NoBootstrap
<1>3. job[<<r, n>>] \in {"none", "sending"} => <<r, n>> # held
    BY <1>2, ProcAssumption DEF LostInv, Run
<1>4. /\ pc[r] \in {"idle"} \cup WritePc => job[<<r, n>>] = "none"
      /\ pc[r] = "sweep" /\ n \in todo[r] => job[<<r, n>>] = "none"
      /\ job[<<r, n>>] = "sending" => on[r] = n /\ pc[r] \in {"done", "aborted"}
    BY DEF LostInv, Sends
<1>5. pc'[r] # "aborted"
    BY DEF Spoilt
<1>6. CASE \E q \in Requests : Begin(q)
    <2>1. PICK q \in Requests : Begin(q)
        BY <1>6
    <2>2. UNCHANGED <<job, held>>
        BY <2>1 DEF Begin, StartSave, StartCreate, StartDelete, StartValidate, StartSweep, jobVars
    <2>3. CASE q # r
        <3>1. pc'[r] = pc[r] /\ on'[r] = on[r] /\ todo'[r] = todo[r]
            BY <1>2, <2>1, <2>3
            DEF Begin, StartSave, StartCreate, StartDelete, StartValidate, StartSweep, Goto
        <3> QED
            BY <1>1, <2>2, <3>1 DEF Brings
    <2>4. CASE q = r
        <3>1. pc[r] = "idle"
            BY <2>1, <2>4 DEF Begin, StartSave, StartCreate, StartDelete, StartValidate, StartSweep
        <3> QED
            BY <1>1, <2>2, <3>1 DEF Brings, WritePc
    <2> QED
        BY <2>3, <2>4
<1>7. ASSUME NEW q \in Requests \ {r}, Continue(q) \/ MirrorFails(q) PROVE Goal
    <2>1. pc'[r] = pc[r] /\ on'[r] = on[r] /\ todo'[r] = todo[r] /\ held' = held
        BY <1>2, <1>7 DEF Continue, Put, Update, Mirror, Meta, Unlink, DeleteBlob,
           DeleteRow, WriteValidation, SweepSend, MirrorFails, Goto, jobVars
    <2>2. job'[<<r, n>>] = job[<<r, n>>]
        BY <1>2, <1>7 DEF Continue, Put, Update, Mirror, Meta, Unlink, DeleteBlob,
           DeleteRow, WriteValidation, SweepSend, MirrorFails, jobVars
    <2> QED
        BY <1>1, <2>1, <2>2 DEF Brings
<1>8. CASE Continue(r) \/ MirrorFails(r)
    <2>1. CASE Put(r) \/ Update(r) \/ Mirror(r) \/ MirrorFails(r)
        <3>1. pc[r] \in WritePc
            BY <2>1 DEF Put, Update, Mirror, MirrorFails, WritePc
        <3>2. on[r] = n
            BY <1>1, <1>4, <3>1 DEF Brings, OwingJob, WritePc
        <3>3. on'[r] = n /\ pc'[r] \in WritePc
            BY <1>2, <1>5, <2>1, <3>2 DEF Put, Update, Mirror, MirrorFails, Goto, WritePc
        <3> QED
            BY <3>3 DEF Brings
    <2>2. CASE Meta(r)
        <3>1. job[<<r, n>>] = "none" /\ on[r] = n
            BY <1>1, <1>4, <2>2 DEF Meta, Brings, OwingJob, WritePc
        <3> QED
            BY <1>2, <1>3, <2>2, <3>1 DEF Meta, Brings, OwingJob
    <2>3. CASE Unlink(r) \/ DeleteBlob(r) \/ DeleteRow(r) \/ WriteValidation(r)
        <3>1. pc[r] \notin WritePc \cup {"sweep"} /\ UNCHANGED <<job, held>>
            BY <2>3 DEF Unlink, DeleteBlob, DeleteRow, WriteValidation, WritePc, jobVars
        <3> QED
            BY <1>1, <3>1 DEF Brings
    <2>4. ASSUME NEW m \in Nodes, SweepSend(r, m) PROVE Goal
        <3>1. CASE m = n
            BY <1>2, <1>3, <1>4, <2>4, <3>1 DEF SweepSend, Enqueued, Brings, OwingJob
        <3>2. CASE m # n
            <4>1. job'[<<r, n>>] = job[<<r, n>>] /\ held' = held /\ pc[r] = "sweep"
                BY <1>2, <2>4, <3>2 DEF SweepSend
            <4>2. n \in todo[r] => n \in todo'[r] /\ pc'[r] = "sweep"
                BY <1>2, <2>4, <3>2 DEF SweepSend, Goto
            <4> QED
                BY <1>1, <4>1, <4>2 DEF Brings, WritePc
        <3> QED
            BY <3>1, <3>2
    <2> QED
        BY <1>8, <2>1, <2>2, <2>3, <2>4 DEF Continue
<1>9. ASSUME UNCHANGED todo, pc'[r] = pc[r], on'[r] = on[r],
             <<r, n>> # held /\ job[<<r, n>>] \in OwingJob
               => <<r, n>> # held' /\ job'[<<r, n>>] \in OwingJob
      PROVE  Goal
    BY <1>1, <1>9 DEF Brings
<1>10. CASE \/ \E p \in Procs : Index(p) \/ IndexThrows(p) \/ IndexEscapes(p)
            \/ \E ok \in BOOLEAN : FinishJob(ok)
    <2>1. PICK p \in Procs : Index(p) \/ IndexThrows(p) \/ IndexEscapes(p) \/ \E ok \in BOOLEAN : p = Worker /\ FinishJob(ok)
        BY <1>2, <1>10
    <2>2. p = Worker /\ pc[Worker] \in IndexPc
        BY <2>1, WorkerRuns DEF LostInv, FinishJob, Index, IndexStart, IndexMark, IndexRead,
           IndexDelete,
           IndexInsert, IndexCommit, IndexStats, IndexThrows, IndexEscapes, IndexPc
    <2>3. held \in Jobs /\ NoJob \notin Jobs
        BY <2>2, WorkerRuns, ProcAssumption DEF LostInv
    <2>4. UNCHANGED todo /\ pc'[r] = pc[r] /\ on'[r] = on[r]
        BY <1>2, <2>1, <2>2 DEF Index, IndexStart, IndexMark, IndexRead, IndexDelete, IndexInsert,
           IndexCommit, IndexStats, IndexThrows, IndexEscapes, FinishJob, Catch, Return, Goto
    <2>5. UNCHANGED jobVars \/ Return(Worker, TRUE) \/ Return(Worker, FALSE)
        BY <2>1, <2>2 DEF Index, IndexStart, IndexMark, IndexRead, IndexDelete, IndexInsert,
           IndexCommit, IndexStats, IndexThrows, IndexEscapes, FinishJob, Catch
    <2>6. <<r, n>> # held => <<r, n>> # held' /\ job'[<<r, n>>] = job[<<r, n>>]
        BY <1>2, <2>3, <2>5 DEF Return, AttemptFailed, jobVars
    <2> QED
        BY <1>9, <2>4, <2>6
<1>11. ASSUME NEW j \in Jobs, Send(j) \/ SendFails(j) PROVE Goal
    <2>1. Live(n)
        BY <1>11 DEF Send, SendFails, Live, nodeVars
    <2>2. CASE j # <<r, n>>
        <3>1. job'[<<r, n>>] = job[<<r, n>>] /\ UNCHANGED <<on, todo, held>>
            BY <1>2, <1>11, <2>2 DEF Send, SendFails, procVars
        <3>2. pc'[r] = pc[r]
            BY <1>2, <1>5, <1>11 DEF Send, SendFails, procVars
        <3> QED
            BY <1>1, <3>1, <3>2 DEF Brings
    <2>3. CASE j = <<r, n>>
        <3>1. on[r] = n /\ pc[r] \in {"done", "aborted"}
            BY <1>4, <1>11, <2>3 DEF Send, SendFails
        <3>2. ~SendFails(j)
            BY <1>2, <1>5, <2>3, <3>1 DEF SendFails
        <3> QED
            BY <1>2, <1>3, <1>11, <2>1, <2>3, <3>2 DEF Send, Enqueued, Brings, OwingJob
    <2> QED
        BY <2>2, <2>3
<1>12. ASSUME NEW j \in Jobs, Expire(j) \/ RetryFailedJob(j) \/ DeleteFailedJob(j)
       PROVE  Goal
    <2>1. UNCHANGED <<pc, on, todo, held>>
        BY <1>12 DEF Expire, RetryFailedJob, DeleteFailedJob, procVars
    <2>2. job[<<r, n>>] \in OwingJob => job'[<<r, n>>] \in OwingJob
        BY <1>2, <1>12 DEF Expire, AttemptFailed, RetryFailedJob, DeleteFailedJob, OwingJob
    <2> QED
        BY <1>9, <2>1, <2>2
<1>13. ASSUME NEW j \in Jobs, Fetch(j) PROVE Goal
    <2>1. CASE j = <<r, n>>
        BY <1>2, <1>13, <2>1 DEF Fetch, Fetched, Goto
    <2>2. CASE j # <<r, n>>
        BY <1>2, <1>9, <1>13, <2>2 DEF Fetch, Goto
    <2> QED
        BY <2>1, <2>2
<1>14. CASE Crash
    <2>1. /\ on'[r] = on[r] /\ held' = NoJob /\ todo' = todo
          /\ pc'[r] = IF \/ pc[r] \notin {"idle", "done"}
                         \/ \E m \in Nodes : job[<<r, m>>] = "sending"
                      THEN "aborted" ELSE pc[r]
          /\ job'[<<r, n>>] = IF job[<<r, n>>] = "sending" THEN "none" ELSE job[<<r, n>>]
        BY <1>2, <1>14 DEF Crash
    <2>2. job[<<r, n>>] # "sending" /\ pc'[r] = pc[r]
        BY <1>5, <2>1
    <2>3. <<r, n>> # NoJob
        BY <1>2, ProcAssumption
    <2> QED
        BY <1>9, <2>1, <2>2, <2>3
<1>15. CASE UNCHANGED vars
    BY <1>1, <1>15 DEF vars, procVars, jobVars, Brings
<1> QED
    BY <1>6, <1>7, <1>8, <1>10, <1>11, <1>12, <1>13, <1>14, <1>15
    DEF Next, Failure, Operator

\* The run of the worker is not over before it has stored its links.
Ahead == {"mark", "read", "delete", "insert"}

\* n is to be indexed by a run that will point the links to its place at it.
Arriving(n) ==
    \/ Coming(n)
    \/ on[Worker] = n /\ pc[Worker] = "start"
    \/ /\ on[Worker] = n /\ run[Worker].path = path[n]
       /\ pc[Worker] \in Ahead \/ (pc[Worker] = "commit" /\ run[Worker].at # "ready")

\* The links of n are to be replaced by links that are still to be looked up.
Refreshing(n) ==
    \/ Coming(n)
    \/ /\ on[Worker] = n
       /\ pc[Worker] \in Ahead \cup {"start"} \/ Doing(Worker, "list") \/ Doing(Worker, "clear")

\* The files that are where l leads.
Hits(l) == {m \in Nodes : Live(m) /\ path[m] \in Candidates(l.target)}

\* What LinksExact asks of a link, or the run that will bring it about.
Sound(l) ==
    \/ Candidates(l.target) \cap touched # {}
    \/ l.to \in Hits(l)
    \/ l.to = NoNode /\ Hits(l) = {}
    \/ \E m \in Hits(l) : Arriving(m)

AllComing == \A n \in Nodes : Live(n) => Coming(n)

SoundLinks == \A n \in Nodes : Live(n) => Refreshing(n) \/ \A l \in links[n] : Sound(l)

\* The rows that the worker is about to insert.
SoundRows ==
    (Doing(Worker, "clear") \/ Doing(Worker, "insert")) /\ Live(on[Worker])
      => Coming(on[Worker]) \/ \A l \in run[Worker].rows : Sound(l)

\* A run whose document has left its place will point links to where no file is.
Astray ==
    /\ pc[Worker] \in Ahead \cup {"commit"}
    /\ ~Live(on[Worker]) \/ path[on[Worker]] # run[Worker].path
    => run[Worker].path \in touched \/ AllComing

ExactInv == SoundLinks /\ SoundRows /\ Astray

\* A link that has just been looked up is sound.
LEMMA FoundIsSound == \A l : l.to = Resolved(l.target) => Sound(l)
<1> SUFFICES ASSUME NEW l, l.to = Resolved(l.target) PROVE Sound(l)
    OBVIOUS
<1> DEFINE t == l.target
           hits == IF At(t) # {} THEN At(t) ELSE At(Spelling[t])
<1>1. Hits(l) = At(t) \cup At(Spelling[t])
    BY DEF Hits, At, Candidates
<1>2. CASE hits = {}
    BY <1>1, <1>2 DEF Resolved, Sound
<1>3. CASE hits # {}
    <2>1. l.to = CHOOSE n \in hits : TRUE
        BY <1>3 DEF Resolved
    <2>2. l.to \in hits
        BY <1>3, <2>1
    <2> QED
        BY <1>1, <2>2 DEF Sound
<1> QED
    BY <1>2, <1>3

LEMMA ExactStart == ViewInit => ExactInv
<1> SUFFICES ASSUME ViewInit PROVE ExactInv
    OBVIOUS
<1>1. pc[Worker] = "idle"
    BY DEF ViewInit, Init
<1>2. ASSUME NEW n \in Nodes, Live(n), NEW l \in links[n] PROVE Sound(l)
    <2>1. n \in Existing /\ links[n] = LinksFrom(Worker, blob[n])
        BY <1>2 DEF ViewInit, Init, LinkInit, Live, LinksFrom
    <2>2. l.to = Resolved(l.target)
        BY <2>1 DEF LinksFrom
    <2> QED
        BY <2>2, FoundIsSound
<1> QED
    BY <1>1, <1>2 DEF ExactInv, SoundLinks, SoundRows, Astray, Ahead, Doing

\* What the worker's run has still to do it does, or somebody else comes to owe it.
LEMMA WorkerYields ==
    ASSUME LostInv, NoBootstrap, [Next]_vars, pc[Worker] \in IndexPc \ Closing,
           NEW n, n = on[Worker]
    PROVE  /\ n \in Nodes
           /\ \/ on'[Worker] = n /\ pc'[Worker] = pc[Worker]
              \/ on'[Worker] = n /\ pc[Worker] = "start" /\ pc'[Worker] = "mark"
              \/ on'[Worker] = n /\ pc[Worker] = "mark" /\ pc'[Worker] = "read"
              \/ on'[Worker] = n /\ pc[Worker] = "read" /\ pc'[Worker] = "delete"
              \/ on'[Worker] = n /\ pc[Worker] = "delete" /\ pc'[Worker] = "insert"
              \/ on'[Worker] = n /\ pc[Worker] = "insert" /\ pc'[Worker] = "commit"
              \/ on'[Worker] = n /\ pc[Worker] = "commit" /\ pc'[Worker] = "stats"
              \/ pc'[Worker] = "idle" /\ Coming(n)' /\ Owed(n)'
<1> DEFINE Stays == on'[Worker] = n /\ pc'[Worker] = pc[Worker]
           Moves(a, b) == on'[Worker] = n /\ pc[Worker] = a /\ pc'[Worker] = b
           Goal == \/ Stays \/ Moves("start", "mark") \/ Moves("mark", "read")
                   \/ Moves("read", "delete") \/ Moves("delete", "insert") \/ Moves("insert", "commit")
                   \/ Moves("commit", "stats")
                   \/ pc'[Worker] = "idle" /\ Coming(n)' /\ Owed(n)'
<1>0. /\ held \in Jobs /\ job[held] = "active" /\ held[1] \in Requests
      /\ held = <<held[1], n>> /\ n \in Nodes /\ NoJob \notin Jobs
    BY WorkerRuns, ProcAssumption DEF LostInv
<1>1. PICK r \in Requests : /\ held = <<r, n>> /\ job[<<r, n>>] = "active"
                            /\ <<r, n>> \in Jobs /\ n \in Nodes /\ <<r, n>> # NoJob
    BY <1>0
<1> SUFFICES Goal
    BY <1>1
<1>2. /\ pc \in [Procs -> Pc] /\ on \in [Procs -> Nodes \cup {NoNode}]
      /\ job \in [Jobs -> JobState] /\ Worker \in Procs /\ Worker \notin Requests
    BY ProcAssumption DEF LostInv, TypeInv, TypeOK
<1>3. ASSUME held' = NoJob, job'[<<r, n>>] \in OwingJob PROVE Coming(n)' /\ Owed(n)'
    <2>1. Brings(r, n)'
        BY <1>1, <1>3 DEF Brings
    <2>2. Owed(n)'
        BY <1>1, <1>3 DEF Owed
    <2> QED
        BY <1>1, <2>1, <2>2 DEF Coming
<1>4. ASSUME Return(Worker, FALSE) PROVE Goal
    <2>1. held' = NoJob /\ job'[<<r, n>>] \in {"queued", "failed"} /\ pc'[Worker] = "idle"
        BY <1>1, <1>2, <1>4 DEF Return, AttemptFailed, Goto
    <2> QED
        BY <1>3, <2>1 DEF OwingJob
<1>5. ASSUME NEW p \in Requests, Begin(p) \/ Continue(p) \/ MirrorFails(p) PROVE Goal
    BY <1>2, <1>5
    DEF Begin, StartSave, StartCreate, StartDelete, StartValidate, StartSweep, Continue, Put,
        Update, Mirror, Meta, Unlink, DeleteBlob, DeleteRow, WriteValidation, SweepSend,
        MirrorFails, Goto
<1>6. ASSUME NEW p \in Procs, Index(p) \/ IndexThrows(p) \/ IndexEscapes(p) PROVE Goal
    <2>1. p = Worker
        BY <1>6, WorkerRuns DEF LostInv, Index, IndexStart, IndexMark, IndexRead, IndexDelete,
           IndexInsert, IndexCommit, IndexStats, IndexThrows, IndexEscapes, IndexPc
    <2>2. CASE IndexThrows(Worker) \/ IndexEscapes(Worker)
        BY <1>4, <2>2 DEF IndexThrows, IndexEscapes, Catch
    <2>3. CASE IndexStart(Worker) \/ IndexMark(Worker)
        BY <1>2, <1>4, <2>3 DEF IndexStart, IndexMark, Goto
    <2>4. CASE IndexRead(Worker)
        BY <1>2, <1>4, <2>4 DEF IndexRead, Catch, Goto
    <2>5. CASE IndexDelete(Worker) \/ IndexCommit(Worker)
        BY <1>2, <2>5 DEF IndexDelete, IndexCommit, Goto
    <2>6. CASE IndexInsert(Worker)
        BY <1>2, <1>4, <2>6 DEF IndexInsert, Catch, Goto
    <2>7. ~IndexStats(Worker)
        BY DEF IndexStats, Closing
    <2> QED
        BY <1>6, <2>1, <2>2, <2>3, <2>4, <2>5, <2>6, <2>7 DEF Index
<1>7. ASSUME NEW ok, FinishJob(ok) PROVE FALSE
    BY <1>7 DEF FinishJob, Closing
<1>8. ASSUME NEW j \in Jobs,
             \/ Send(j) \/ Expire(j) \/ SendFails(j)
             \/ RetryFailedJob(j) \/ DeleteFailedJob(j)
      PROVE  Goal
    BY <1>2, <1>8 DEF Send, Expire, SendFails, RetryFailedJob, DeleteFailedJob, procVars
<1>9. ASSUME NEW j \in Jobs, Fetch(j) PROVE FALSE
    BY <1>9 DEF Fetch, IndexPc
<1>10. CASE Crash
    <2>1. held' = NoJob /\ job'[<<r, n>>] = "active" /\ pc'[Worker] = "idle"
        BY <1>1, <1>2, <1>10 DEF Crash
    <2>2. job'[<<r, n>>] \in OwingJob
        BY <2>1 DEF OwingJob
    <2> QED
        BY <1>3, <2>1, <2>2
<1>11. CASE UNCHANGED vars
    <2>1. pc' = pc /\ on' = on
        BY <1>11 DEF vars, procVars
    <2> QED
        BY <2>1
<1> QED
    BY <1>5, <1>6, <1>7, <1>8, <1>9, <1>10, <1>11 DEF Next, Failure, Operator

\* A step that leaves links and runs alone, begins no run, and ends one only when
\* it has done its links.
LinksWait ==
    /\ UNCHANGED <<links, run>>
    /\ pc'[Worker] = "mark" => pc[Worker] = "mark"
    /\ pc[Worker] = "commit" /\ pc'[Worker] = "stats" => run[Worker].at = "ready"

\* What is to come stays to come.
LEMMA ArrivingLasts ==
    ASSUME LostInv, NoBootstrap, RunLinks, [Next]_vars, ~Spoilt', LinksWait,
           NEW n \in Nodes, Live(n)', path'[n] = path[n], Arriving(n)
    PROVE  Arriving(n)'
<1>1. CASE Coming(n)
    <2>1. Coming(n)' \/ Fetched(n)
        BY <1>1, ComingLasts
    <2> QED
        BY <2>1 DEF Fetched, Arriving
<1>2. CASE on[Worker] = n /\ pc[Worker] = "start"
    <2>1. \/ on'[Worker] = n /\ pc'[Worker] = "start"
          \/ pc'[Worker] = "idle" /\ Coming(n)'
        BY <1>2, WorkerYields DEF LinksWait, IndexPc, Closing
    <2> QED
        BY <2>1 DEF Arriving
<1>3. CASE /\ on[Worker] = n /\ run[Worker].path = path[n]
           /\ pc[Worker] \in Ahead \/ (pc[Worker] = "commit" /\ run[Worker].at # "ready")
    <2>1. run'[Worker] = run[Worker] /\ pc[Worker] \in IndexPc \ Closing
        BY <1>3 DEF LinksWait, Ahead, IndexPc, Closing
    <2>2. \/ on'[Worker] = n /\ pc'[Worker] \in Ahead
          \/ on'[Worker] = n /\ pc'[Worker] = "commit" /\ run[Worker].at # "ready"
          \/ pc'[Worker] = "idle" /\ Coming(n)'
        BY <1>3, <2>1, WorkerYields DEF LinksWait, RunLinks, Ahead
    <2> QED
        BY <1>3, <2>1, <2>2 DEF Arriving
<1> QED
    BY <1>1, <1>2, <1>3 DEF Arriving

LEMMA RefreshingLasts ==
    ASSUME LostInv, NoBootstrap, RunLinks, [Next]_vars, ~Spoilt', LinksWait,
           NEW n \in Nodes, Live(n)', Refreshing(n)
    PROVE  Refreshing(n)'
<1>1. CASE Coming(n)
    <2>1. Coming(n)' \/ Fetched(n)
        BY <1>1, ComingLasts
    <2> QED
        BY <2>1 DEF Fetched, Refreshing
<1>2. CASE /\ on[Worker] = n
           /\ pc[Worker] \in Ahead \cup {"start"} \/ Doing(Worker, "list") \/ Doing(Worker, "clear")
    <2>1. run'[Worker] = run[Worker] /\ pc[Worker] \in IndexPc \ Closing
        BY <1>2 DEF LinksWait, Doing, Ahead, IndexPc, Closing
    <2>2. pc[Worker] \in Ahead => run[Worker].at = "list"
        BY DEF RunLinks, Ahead
    <2>3. \/ on'[Worker] = n /\ pc'[Worker] \in Ahead \cup {"start"}
          \/ on'[Worker] = n /\ pc'[Worker] = "commit" /\ run[Worker].at \in {"list", "clear"}
          \/ pc'[Worker] = "idle" /\ Coming(n)'
        BY <1>2, <2>1, <2>2, WorkerYields DEF LinksWait, Doing, Ahead
    <2> QED
        BY <2>1, <2>3 DEF Refreshing, Doing
<1> QED
    BY <1>1, <1>2 DEF Refreshing

\* No place changes but on record, and what appears is to be indexed.
PlacesKept ==
    /\ touched \subseteq touched'
    /\ \A m \in Nodes :
         /\ Live(m)' /\ ~Live(m) => Coming(m)'
         /\ Live(m) /\ ~Live(m)' => path[m] \in touched'
         /\ Live(m) /\ path'[m] # path[m] => path[m] \in touched' /\ path'[m] \in touched'

\* A link stays sound wherever the documents go.
LEMMA SoundStays ==
    ASSUME LostInv, NoBootstrap, RunLinks, [Next]_vars, ~Spoilt', LinksWait, PlacesKept,
           NEW l, Sound(l)
    PROVE  Sound(l)'
<1> SUFFICES ASSUME Candidates(l.target) \cap touched' = {} PROVE Sound(l)'
    BY DEF Sound
<1>1. Candidates(l.target) \cap touched = {}
    BY DEF PlacesKept
<1>2. ASSUME NEW m \in Hits(l)
      PROVE  m \in Hits(l)' /\ path'[m] = path[m]
    <2>1. m \in Nodes /\ Live(m) /\ path[m] \in Candidates(l.target)
        BY <1>2 DEF Hits
    <2>2. path[m] \notin touched'
        BY <2>1
    <2>3. Live(m)' /\ path'[m] = path[m]
        BY <2>1, <2>2 DEF PlacesKept
    <2> QED
        BY <2>1, <2>3 DEF Hits, Candidates
<1>3. ASSUME NEW m \in Hits(l)', m \notin Hits(l)
      PROVE  Arriving(m)'
    <2>1. m \in Nodes /\ Live(m)' /\ path'[m] \in Candidates(l.target)
        BY <1>3 DEF Hits, Candidates
    <2>2. path'[m] \notin touched'
        BY <2>1
    <2>3. ~Live(m)
        BY <1>3, <2>1, <2>2 DEF PlacesKept, Hits
    <2> QED
        BY <2>1, <2>3 DEF PlacesKept, Arriving
<1>4. CASE l.to \in Hits(l)
    <2>1. l.to \in Hits(l)'
        BY <1>2, <1>4
    <2> QED
        BY <2>1 DEF Sound
<1>5. CASE l.to = NoNode /\ Hits(l) = {}
    <2>1. Hits(l)' = {} \/ \E m \in Hits(l)' : Arriving(m)'
        BY <1>3, <1>5
    <2> QED
        BY <1>5, <2>1 DEF Sound
<1>6. ASSUME NEW m \in Hits(l), Arriving(m)
      PROVE  Sound(l)'
    <2>1. m \in Nodes /\ m \in Hits(l)' /\ path'[m] = path[m]
        BY <1>2 DEF Hits
    <2>2. Live(m)'
        BY <2>1 DEF Hits
    <2>3. Arriving(m)'
        BY <1>6, <2>1, <2>2, ArrivingLasts
    <2> QED
        BY <2>1, <2>3 DEF Sound
<1> QED
    BY <1>1, <1>4, <1>5, <1>6 DEF Sound

\* Steps of requests, the queue and the worker that leave links and runs alone.
LEMMA ExactWaits ==
    ASSUME LostInv, NoBootstrap, RunLinks, [Next]_vars, ~Spoilt', LinksWait,
           PlacesKept \/ AllComing', ExactInv
    PROVE  ExactInv'
<1>0. /\ WorkerInOrder /\ run' = run /\ links' = links
      /\ \A m \in Nodes : Live(m)' /\ ~Live(m) => Coming(m)'
    BY WorkerMoves DEF LostInv, LinksWait, PlacesKept, AllComing
<1>1. ASSUME NEW l, Sound(l), ~AllComing' PROVE Sound(l)'
    BY <1>1, SoundStays
<1>2. SoundLinks'
    <2> SUFFICES ASSUME NEW n \in Nodes, Live(n)', ~Refreshing(n)'
                 PROVE  \A l \in links'[n] : Sound(l)'
        BY DEF SoundLinks
    <2>1. ~Coming(n)'
        BY DEF Refreshing
    <2>2. Live(n) /\ ~AllComing'
        BY <1>0, <2>1 DEF AllComing
    <2>3. ~Refreshing(n)
        BY RefreshingLasts
    <2>4. \A l \in links[n] : Sound(l)
        BY <2>2, <2>3 DEF ExactInv, SoundLinks
    <2> QED
        BY <1>0, <1>1, <2>2, <2>4
<1>3. ASSUME pc'[Worker] \in Ahead \cup {"commit"}
      PROVE  /\ pc[Worker] \in Ahead \cup {"commit"} /\ on'[Worker] = on[Worker]
             /\ on[Worker] \in Nodes
             /\ pc'[Worker] = "commit" /\ pc[Worker] # "commit" => run[Worker].at = "list"
    <2>1. pc[Worker] \in Ahead \cup {"commit"}
        BY <1>0, <1>3 DEF WorkerInOrder, LinksWait, Ahead
    <2>2. on'[Worker] = on[Worker] /\ on[Worker] \in Nodes
        BY <1>3, <2>1, WorkerYields DEF Ahead, IndexPc, Closing
    <2> QED
        BY <2>1, <2>2 DEF RunLinks, Ahead
<1>4. ASSUME NEW n \in Nodes, pc[Worker] \in Ahead \cup {"commit"}, Coming(n), Live(n)'
      PROVE  Coming(n)'
    <2>1. Coming(n)' \/ Fetched(n)
        BY <1>4, ComingLasts
    <2> QED
        BY <1>4, <2>1 DEF Fetched, Ahead
<1>5. SoundRows'
    <2> SUFFICES ASSUME (Doing(Worker, "clear") \/ Doing(Worker, "insert"))',
                        Live(on[Worker])', ~Coming(on[Worker])'
                 PROVE  \A l \in run'[Worker].rows : Sound(l)'
        BY DEF SoundRows
    <2>1. PICK n \in Nodes : /\ on[Worker] = n /\ on'[Worker] = n
                             /\ pc[Worker] = "commit"
                             /\ Doing(Worker, "clear") \/ Doing(Worker, "insert")
        BY <1>0, <1>3 DEF Doing
    <2>2. Live(n)' /\ ~Coming(n)'
        BY <2>1 DEF Live, Coming, Brings
    <2>3. Live(n) /\ ~Coming(n) /\ ~AllComing'
        BY <1>0, <1>4, <2>1, <2>2 DEF AllComing
    <2>4. \A l \in run[Worker].rows : Sound(l)
        BY <2>1, <2>3 DEF ExactInv, SoundRows
    <2> QED
        BY <1>0, <1>1, <2>3, <2>4
<1>6. Astray'
    <2> SUFFICES ASSUME pc'[Worker] \in Ahead \cup {"commit"}, ~AllComing',
                        (~Live(on[Worker]) \/ path[on[Worker]] # run[Worker].path)'
                 PROVE  run'[Worker].path \in touched'
        BY DEF Astray
    <2>1. PICK n \in Nodes : /\ on[Worker] = n /\ on'[Worker] = n
                             /\ pc[Worker] \in Ahead \cup {"commit"}
        BY <1>3
    <2>2. PlacesKept
        OBVIOUS
    <2>3. ~Live(n)' \/ path'[n] # run[Worker].path
        BY <1>0, <2>1 DEF Live
    <2>4. CASE Live(n) /\ path[n] = run[Worker].path
        BY <1>0, <2>2, <2>3, <2>4 DEF PlacesKept
    <2>5. CASE ~Live(n) \/ path[n] # run[Worker].path
        <3>1. run[Worker].path \in touched \/ AllComing
            BY <2>1, <2>5 DEF ExactInv, Astray
        <3>2. ~AllComing
            BY <1>0, <1>4, <2>1 DEF AllComing
        <3> QED
            BY <1>0, <2>2, <3>1, <3>2 DEF PlacesKept
    <2> QED
        BY <2>4, <2>5
<1> QED
    BY <1>2, <1>5, <1>6 DEF ExactInv

\* Nothing moves, and what was to come is still to come.
LEMMA SoundAsBefore ==
    ASSUME UNCHANGED <<row, path, touched>>, NEW l, Sound(l),
           \A m \in Hits(l) : Arriving(m) => Arriving(m)'
    PROVE  Sound(l)'
<1>1. Hits(l)' = Hits(l) /\ Candidates(l.target)' = Candidates(l.target)
    BY DEF Hits, Live, Candidates
<1> QED
    BY <1>1 DEF Sound

\* A run begins with the place its document has now, or it is put off.
LEMMA ExactBegins ==
    ASSUME LostInv, NoBootstrap, ViewTypeInv, [Next]_vars, ~Spoilt', RunStart(Worker), ExactInv
    PROVE  ExactInv'
<1>1. PICK n \in Nodes :
         /\ on[Worker] = n /\ pc[Worker] = "start"
         /\ \/ on'[Worker] = n /\ pc'[Worker] = "mark"
            \/ pc'[Worker] = "idle" /\ Coming(n)'
    <2>1. pc[Worker] = "start" /\ pc'[Worker] # "start"
        <3>1. pc \in [Procs -> Pc] /\ Worker \in Procs
            BY DEF LostInv, TypeInv, TypeOK
        <3> QED
            BY <3>1 DEF RunStart, IndexStart, Return, Goto
    <2> QED
        BY <2>1, WorkerYields DEF IndexPc, Closing
<1>2. /\ UNCHANGED <<row, path, touched, links>>
      /\ run'[Worker].path = path[n]
      /\ pc'[Worker] = "mark" => Live(n)
    <2>1. Worker \in Procs /\ DOMAIN run = Procs
        BY DEF ViewTypeInv, ViewTypeOK, LinkTypeOK
    <2>2. pc'[Worker] = "mark" => Live(n)
        <3>1. pc \in [Procs -> Pc]
            BY DEF LostInv, TypeInv, TypeOK
        <3> QED
            BY <1>1, <2>1, <3>1 DEF RunStart, IndexStart, Return, Goto
    <2>3. row' = row
        BY DEF RunStart, IndexStart, nodeVars
    <2>4. UNCHANGED <<path, touched, links>>
        BY DEF RunStart
    <2>5. run'[Worker].path = path[n]
        BY <1>1, <2>1 DEF RunStart, Started
    <2> QED
        BY <2>2, <2>3, <2>4, <2>5
<1>3. ASSUME NEW m \in Nodes, Live(m), Coming(m) PROVE Coming(m)'
    <2>1. Coming(m)' \/ Fetched(m)
        BY <1>2, <1>3, ComingLasts DEF Live
    <2> QED
        BY <1>1, <2>1 DEF Fetched
<1>4. ASSUME NEW m \in Nodes, Live(m), Arriving(m) PROVE Arriving(m)'
    <2>1. Coming(m) \/ m = n
        BY <1>1, <1>4 DEF Arriving
    <2>2. CASE m = n
        BY <1>1, <1>2, <2>2 DEF Arriving, Ahead
    <2> QED
        BY <1>3, <1>4, <2>1, <2>2 DEF Arriving
<1>5. ASSUME NEW m \in Nodes, Live(m), Refreshing(m) PROVE Refreshing(m)'
    <2>1. Coming(m) \/ m = n
        BY <1>1, <1>5 DEF Refreshing
    <2>2. CASE m = n
        BY <1>1, <2>2 DEF Refreshing, Ahead
    <2> QED
        BY <1>3, <1>5, <2>1, <2>2 DEF Refreshing
<1>6. ASSUME NEW l, Sound(l) PROVE Sound(l)'
    <2>1. \A m \in Hits(l) : m \in Nodes /\ Live(m)
        BY DEF Hits
    <2> QED
        BY <1>2, <1>4, <1>6, <2>1, SoundAsBefore
<1>7. SoundLinks'
    BY <1>2, <1>5, <1>6 DEF ExactInv, SoundLinks, Live
<1>8. SoundRows'
    BY <1>1 DEF SoundRows, Doing
<1>9. Astray'
    BY <1>1, <1>2 DEF Astray, Live, Ahead
<1> QED
    BY <1>7, <1>8, <1>9 DEF ExactInv

\* The links of a document are looked up and replaced.
LEMMA ExactReplaced ==
    ASSUME LostInv, NoBootstrap, ViewTypeInv, RunLinks, ExactInv,
           ListFiles(Worker) \/ ClearLinks(Worker) \/ InsertLinks(Worker)
    PROVE  ExactInv'
<1>1. PICK n \in Nodes : on[Worker] = n /\ pc[Worker] = "commit"
    BY WorkerRuns DEF LostInv, ListFiles, ClearLinks, InsertLinks, Doing, IndexPc
<1>2. /\ UNCHANGED <<vars, path, touched>>
      /\ UNCHANGED <<row, pc, on, val, job, held, todo>>
    BY DEF ListFiles, ClearLinks, InsertLinks, vars, procVars, nodeVars, jobVars
<1>3. /\ links \in [Nodes -> SUBSET Link] /\ Worker \in Procs
      /\ run \in [Procs -> [at: Steps, path: FilePaths, rows: SUBSET Link]]
    BY DEF ViewTypeInv, ViewTypeOK, LinkTypeOK
<1>4. run'[Worker].path = run[Worker].path /\ run'[Worker].at # "ready" /\ run[Worker].at # "ready"
    BY <1>3 DEF ListFiles, ClearLinks, InsertLinks, LinkStep, Doing
<1>5. /\ \A m \in Nodes : Live(m)' <=> Live(m)
      /\ \A m \in Nodes : Coming(m)' <=> Coming(m)
    BY <1>2 DEF Live, Coming, Brings
<1>6. \A m \in Nodes : Arriving(m) => Arriving(m)'
    BY <1>1, <1>2, <1>4, <1>5 DEF Arriving, Ahead
<1>7. ASSUME NEW l, Sound(l) PROVE Sound(l)'
    <2>1. \A m \in Hits(l) : m \in Nodes
        BY DEF Hits
    <2> QED
        BY <1>2, <1>6, <1>7, <2>1, SoundAsBefore
<1>8. Astray'
    BY <1>1, <1>2, <1>4, <1>5 DEF ExactInv, Astray, AllComing
<1>9. ASSUME NEW m \in Nodes \ {n}, Live(m)', ~Refreshing(m)', links'[m] = links[m]
      PROVE  \A l \in links'[m] : Sound(l)'
    <2>1. Live(m) /\ ~Refreshing(m)
        BY <1>1, <1>5, <1>9 DEF Refreshing, Doing
    <2> QED
        BY <1>7, <1>9, <2>1 DEF ExactInv, SoundLinks
<1>10. CASE ListFiles(Worker)
    <2>1. /\ links' = links /\ run'[Worker].at = "clear"
          /\ run'[Worker].rows = LinksFrom(Worker, val[Worker])
        BY <1>3, <1>10 DEF ListFiles, LinksFrom
    <2>2. Refreshing(n)'
        BY <1>1, <1>2, <2>1 DEF Refreshing, Doing
    <2>3. SoundLinks'
        BY <1>9, <2>1, <2>2 DEF SoundLinks
    <2>4. ASSUME NEW l \in LinksFrom(Worker, val[Worker]) PROVE Sound(l)'
        <3>1. l.to = Resolved(l.target)
            BY <2>4 DEF LinksFrom
        <3> QED
            BY <1>7, <3>1, FoundIsSound
    <2>5. SoundRows'
        BY <2>1, <2>4 DEF SoundRows
    <2> QED
        BY <1>8, <2>3, <2>5 DEF ExactInv
<1>11. CASE ClearLinks(Worker)
    <2>1. /\ links' = [links EXCEPT ![n] = {}]
          /\ run'[Worker].at = "insert" /\ run'[Worker].rows = run[Worker].rows
          /\ Doing(Worker, "clear")
        BY <1>1, <1>3, <1>11 DEF ClearLinks, LinkStep
    <2>2. /\ links'[n] = {} /\ \A m \in Nodes \ {n} : links'[m] = links[m]
        BY <1>3, <2>1
    <2>3. SoundLinks'
        <3> SUFFICES ASSUME NEW m \in Nodes, Live(m)', ~Refreshing(m)'
                     PROVE  \A l \in links'[m] : Sound(l)'
            BY DEF SoundLinks
        <3> QED
            BY <1>9, <2>2
    <2>4. SoundRows'
        <3> SUFFICES ASSUME Live(n), ~Coming(n) PROVE \A l \in run[Worker].rows : Sound(l)'
            BY <1>1, <1>2, <1>5, <2>1 DEF SoundRows
        <3>1. \A l \in run[Worker].rows : Sound(l)
            BY <1>1, <2>1 DEF ExactInv, SoundRows
        <3> QED
            BY <1>7, <3>1
    <2> QED
        BY <1>8, <2>3, <2>4 DEF ExactInv
<1>12. CASE InsertLinks(Worker)
    <2>1. /\ links' = [links EXCEPT ![n] = links[n] \cup run[Worker].rows]
          /\ run'[Worker].at = "incoming" /\ Doing(Worker, "insert")
        BY <1>1, <1>3, <1>12 DEF InsertLinks, LinkStep
    <2>2. links[n] = {}
        BY <1>1, <2>1 DEF RunLinks
    <2>3. /\ links'[n] = run[Worker].rows /\ \A m \in Nodes \ {n} : links'[m] = links[m]
        BY <1>3, <2>1, <2>2
    <2>4. SoundLinks'
        <3> SUFFICES ASSUME NEW m \in Nodes, Live(m)', ~Refreshing(m)'
                     PROVE  \A l \in links'[m] : Sound(l)'
            BY DEF SoundLinks
        <3>1. Live(m) /\ ~Coming(m)
            BY <1>5 DEF Refreshing
        <3>2. ASSUME m = n PROVE \A l \in run[Worker].rows : Sound(l)
            BY <1>1, <2>1, <3>1, <3>2 DEF ExactInv, SoundRows
        <3> QED
            BY <1>7, <1>9, <2>3, <3>2
    <2>5. SoundRows'
        BY <2>1 DEF SoundRows, Doing
    <2> QED
        BY <1>8, <2>4, <2>5 DEF ExactInv
<1> QED
    BY <1>10, <1>11, <1>12

\* The other spelling of the other spelling of a path is the path.
Mutual == \A p \in DOMAIN Spelling : Spelling[Spelling[p]] = p

\* The links to the place of a document are pointed at it.
LEMMA ExactPatched ==
    ASSUME Mutual, LostInv, NoBootstrap, ViewTypeInv, ExactInv, PatchIncoming(Worker)
    PROVE  ExactInv'
<1>1. PICK n \in Nodes : on[Worker] = n /\ pc[Worker] = "commit" /\ run[Worker].at = "incoming"
    BY WorkerRuns DEF LostInv, PatchIncoming, Doing, IndexPc
<1>2. PICK q \in FilePaths : q = run[Worker].path
    BY DEF ViewTypeInv, ViewTypeOK, LinkTypeOK
<1>3. /\ links \in [Nodes -> SUBSET Link] /\ Worker \in Procs
      /\ run \in [Procs -> [at: Steps, path: FilePaths, rows: SUBSET Link]]
      /\ path \in [Nodes -> FilePaths] /\ FilePaths \subseteq DOMAIN Spelling
    BY LinkAssumption DEF ViewTypeInv, ViewTypeOK, LinkTypeOK
<1>4. /\ UNCHANGED <<row, pc, on, job, held, todo, path, touched>>
      /\ links' = [m \in Nodes |-> {Incoming(l, n, q) : l \in links[m]}]
      /\ run'[Worker].path = q /\ run'[Worker].at = "ready"
    BY <1>1, <1>2, <1>3 DEF PatchIncoming, vars, procVars, nodeVars, jobVars
<1>5. /\ \A m \in Nodes : Live(m)' <=> Live(m)
      /\ \A m \in Nodes : Coming(m)' <=> Coming(m)
    BY <1>4 DEF Live, Coming, Brings
<1>6. Astray'
    BY <1>1, <1>2, <1>4, <1>5 DEF ExactInv, Astray, AllComing
<1>7. SoundRows'
    BY <1>4 DEF SoundRows, Doing
<1>8. ASSUME NEW m \in Nodes, Arriving(m), m # n \/ path[n] # q
      PROVE  Arriving(m)'
    <2>1. Coming(m)
        BY <1>1, <1>2, <1>8 DEF Arriving, Ahead
    <2> QED
        BY <1>5, <2>1 DEF Arriving
<1>9. ASSUME NEW l \in Link, l.target \in Candidates(q), Live(n), path[n] = q
      PROVE  Sound(Incoming(l, n, q))'
    <2>1. PICK k : k = Incoming(l, n, q)
        OBVIOUS
    <2>2. k.target = l.target /\ k.to = n
        BY <1>9, <2>1 DEF Incoming, Link
    <2>3. q \in Candidates(l.target)
        BY <1>3, <1>9 DEF Candidates, Mutual
    <2>4. k.to \in Hits(k)'
        BY <1>4, <1>5, <1>9, <2>2, <2>3 DEF Hits, Candidates
    <2> QED
        BY <2>1, <2>4 DEF Sound
<1>10. ASSUME NEW l \in Link, l.target \in Candidates(q), q \in touched
       PROVE  Sound(Incoming(l, n, q))'
    <2>1. PICK k : k = Incoming(l, n, q)
        OBVIOUS
    <2>2. k.target = l.target
        BY <1>10, <2>1 DEF Incoming, Link
    <2>3. q \in Candidates(k.target)'
        BY <1>3, <1>10, <2>2 DEF Candidates, Mutual
    <2>4. Candidates(k.target)' \cap touched' # {}
        BY <1>4, <1>10, <2>3
    <2> QED
        BY <2>1, <2>4 DEF Sound
<1>11. ASSUME NEW l \in Link, l.target \notin Candidates(q), Sound(l)
       PROVE  Sound(Incoming(l, n, q))'
    <2>1. Incoming(l, n, q) = l
        BY <1>11 DEF Incoming
    <2>2. ASSUME NEW m \in Hits(l), Arriving(m) PROVE Arriving(m)'
        <3>1. m \in Nodes /\ path[m] \in Candidates(l.target) /\ l.target \in DOMAIN Spelling
            BY DEF Hits, Link
        <3>2. l.target \in Candidates(path[m])
            BY <1>3, <3>1 DEF Candidates, Mutual
        <3> QED
            BY <1>8, <1>11, <2>2, <3>1, <3>2
    <2>3. Sound(l)'
        BY <1>4, <1>11, <2>2, SoundAsBefore
    <2> QED
        BY <2>1, <2>3
<1>12. SoundLinks'
    <2> SUFFICES ASSUME NEW m \in Nodes, Live(m)', ~Refreshing(m)', NEW k \in links'[m]
                 PROVE  Sound(k)'
        BY DEF SoundLinks
    <2>1. PICK l \in links[m] : k = Incoming(l, n, q)
        BY <1>4
    <2>2. l \in Link
        BY <1>3
    <2>3. Live(m) /\ ~Coming(m)
        BY <1>5 DEF Refreshing
    <2>4. Sound(l)
        <3>1. ~Refreshing(m)
            BY <1>1, <2>3 DEF Refreshing, Doing, Ahead
        <3> QED
            BY <2>3, <3>1 DEF ExactInv, SoundLinks
    <2>5. (Live(n) /\ path[n] = q) \/ q \in touched
        BY <1>1, <1>2, <2>3 DEF ExactInv, Astray, AllComing
    <2>6. Sound(Incoming(l, n, q))'
        BY <1>9, <1>10, <1>11, <2>2, <2>4, <2>5
    <2> QED
        BY <2>1, <2>6
<1> QED
    BY <1>6, <1>7, <1>12 DEF ExactInv

\* Where documents come, go and move.
LEMMA RequestPlaces ==
    ASSUME LostInv, ViewTypeInv, NEW r \in Requests, CallTells(r) \/ RequestTells(r)
    PROVE  PlacesKept \/ AllComing'
<1>1. /\ row \in [Nodes -> {"absent", "live", "gone"}]
      /\ pc \in [Procs -> Pc] /\ on \in [Procs -> Nodes \cup {NoNode}]
      /\ todo \in [Requests -> SUBSET Nodes]
      /\ path \in [Nodes -> FilePaths] /\ r \in Procs
    BY DEF LostInv, TypeInv, TypeOK, ViewTypeInv, ViewTypeOK, LinkTypeOK
<1>2. ASSUME UNCHANGED <<row, path, touched>> PROVE PlacesKept
    BY <1>2 DEF PlacesKept, Live
<1>3. ASSUME NEW n \in Nodes, NEW c, NEW p, CreateAt(r, n, c, p) PROVE PlacesKept
    <2>1. /\ row[n] = "absent" /\ touched' = touched
          /\ pc'[r] = "put" /\ on'[r] = n
          /\ \A m \in Nodes \ {n} : row'[m] = row[m] /\ path'[m] = path[m]
        BY <1>1, <1>3 DEF CreateAt, StartCreate, Goto
    <2>2. Coming(n)'
        <3>1. Brings(r, n)'
            BY <2>1 DEF Brings, WritePc
        <3> QED
            BY <3>1 DEF Coming
    <2> QED
        BY <2>1, <2>2 DEF PlacesKept, Live
<1>4. ASSUME ReindexAll(r) PROVE AllComing'
    <2>1. row' = row /\ todo'[r] = {n \in Nodes : Live(n)}
        BY <1>1, <1>4 DEF ReindexAll, StartSweep, nodeVars
    <2>2. ASSUME NEW n \in Nodes, Live(n)' PROVE Coming(n)'
        <3>1. n \in todo'[r]
            BY <2>1, <2>2 DEF Live
        <3>2. pc'[r] = "sweep"
            BY <1>1, <1>4, <2>1, <3>1 DEF ReindexAll, StartSweep, Goto
        <3>3. Brings(r, n)'
            BY <3>1, <3>2 DEF Brings
        <3> QED
            BY <3>3 DEF Coming
    <2> QED
        BY <2>2 DEF AllComing
<1>5. ASSUME RemoveRow(r) PROVE PlacesKept
    <2>1. /\ path' = path /\ touched' = touched \cup {path[on[r]]}
          /\ row' = [row EXCEPT ![on[r]] = "gone"]
        BY <1>5 DEF RemoveRow, DeleteRow
    <2>2. ASSUME NEW m \in Nodes
          PROVE  /\ Live(m)' => Live(m)
                 /\ Live(m) /\ ~Live(m)' => path[m] \in touched'
        BY <1>1, <2>1 DEF Live
    <2> QED
        BY <2>1, <2>2 DEF PlacesKept
<1>6. CASE CallTells(r)
    <2>1. scene.nodes \subseteq Nodes
        BY DEF ViewTypeInv, SceneInv, Scene
    <2>2. CASE \E n \in scene.nodes, c \in scene.contents, p \in scene.paths : CreateAt(r, n, c, p)
        BY <1>3, <2>1, <2>2
    <2>3. CASE ReindexAll(r)
        BY <1>4, <2>3
    <2>4. CASE UNCHANGED <<row, path, touched>>
        BY <1>2, <2>4
    <2>5. \/ \E n \in scene.nodes, c \in scene.contents, p \in scene.paths : CreateAt(r, n, c, p)
          \/ ReindexAll(r)
          \/ UNCHANGED <<row, path, touched>>
        BY <1>6 DEF CallTells, Called, LinksStay, linkVars, StartSave, StartDelete,
           StartValidate, StartSweep, nodeVars
    <2> QED
        BY <2>2, <2>3, <2>4, <2>5
<1>7. CASE RequestTells(r)
    <2>1. CASE RemoveRow(r)
        BY <1>5, <2>1
    <2>2. CASE Continue(r) /\ ~DeleteRow(r) /\ LinksStay
        <3>1. UNCHANGED <<row, path, touched>>
            BY <2>2 DEF Continue, Put, Update, Mirror, Meta, Unlink, DeleteBlob,
               WriteValidation, SweepSend, LinksStay, linkVars, nodeVars
        <3> QED
            BY <1>2, <3>1
    <2> QED
        BY <1>7, <2>1, <2>2 DEF RequestTells, RequestStep
<1> QED
    BY <1>6, <1>7

LEMMA ExactKept ==
    ASSUME Mutual, LostInv, NoBootstrap, ViewTypeInv, LinkInv, ExactInv, ~Spoilt',
           [ViewNext]_allVars
    PROVE  ExactInv'
<1>1. [Next]_vars /\ RunLinks
    BY ViewStep DEF ViewTypeInv, LinkInv
<1>2. /\ pc \in [Procs -> Pc] /\ Worker \in Procs /\ Worker \notin Requests
      /\ \A r \in Requests : pc[r] \notin IndexPc
    BY ProcAssumption DEF LostInv, TypeInv, TypeOK, Progress
<1>3. ASSUME LinksWait, PlacesKept \/ AllComing' PROVE ExactInv'
    BY <1>1, <1>3, ExactWaits
<1>4. ASSUME UNCHANGED <<row, path, touched>> PROVE PlacesKept
    BY <1>4 DEF PlacesKept, Live
<1>5. ASSUME NEW p \in Procs, RunTells(p) PROVE ExactInv'
    <2>1. p = Worker
        BY <1>2, <1>5 DEF RunTells, RunStart, IndexStart, IndexMark, IndexRead, IndexInsert,
           IndexDelete, IndexStats, IndexCommit, ListFiles, ClearLinks, InsertLinks,
           PatchIncoming, Doing, RunFails, RunEscapes, IndexThrows, IndexEscapes,
       IndexPc
    <2>2. CASE RunStart(Worker)
        BY <1>1, <2>2, ExactBegins
    <2>3. CASE ListFiles(Worker) \/ ClearLinks(Worker) \/ InsertLinks(Worker)
        BY <1>1, <2>3, ExactReplaced
    <2>4. CASE PatchIncoming(Worker)
        BY <2>4, ExactPatched
    <2>5. CASE \/ (IndexMark(Worker) \/ IndexRead(Worker) \/ IndexInsert(Worker)
                     \/ IndexDelete(Worker) \/ IndexStats(Worker)) /\ LinksStay
               \/ RunFails(Worker) \/ RunEscapes(Worker)
        <3>1. pc'[Worker] # "mark" /\ (pc[Worker] = "commit" => pc'[Worker] # "stats")
            BY <1>2, <2>5 DEF IndexMark, IndexRead, IndexInsert, IndexDelete, IndexStats, RunFails,
               RunEscapes, IndexThrows, IndexEscapes, Catch, Return, Goto
        <3>2. UNCHANGED <<links, run, row, path, touched>>
            BY <2>5 DEF IndexMark, IndexRead, IndexInsert, IndexDelete, IndexStats, RunFails,
               RunEscapes, IndexThrows, IndexEscapes, Catch, nodeVars, LinksStay, linkVars
        <3> QED
            BY <1>3, <1>4, <3>1, <3>2 DEF LinksWait
    <2>6. CASE Doing(Worker, "ready") /\ IndexCommit(Worker) /\ LinksStay
        <3>1. pc'[Worker] = "stats" /\ run[Worker].at = "ready"
            BY <1>2, <2>6 DEF IndexCommit, Goto, Doing
        <3>2. UNCHANGED <<links, run, row, path, touched>>
            BY <2>6 DEF IndexCommit, LinksStay, linkVars
        <3> QED
            BY <1>3, <1>4, <3>1, <3>2 DEF LinksWait
    <2> QED
        BY <1>5, <2>1, <2>2, <2>3, <2>4, <2>5, <2>6 DEF RunTells
<1>6. ASSUME NEW r \in Requests, CallTells(r) \/ RequestTells(r) PROVE ExactInv'
    <2>1. UNCHANGED <<links, run>>
        BY <1>6 DEF CallTells, Called, CreateAt, ReindexAll, RequestTells, RequestStep,
           RemoveRow, LinksStay, linkVars
    <2>2. Begin(r) \/ Continue(r)
        BY <1>6, CallBegins DEF ViewTypeInv, RequestTells, RequestStep, RemoveRow, Continue
    <2>3. pc'[Worker] = pc[Worker]
        BY <1>2, <2>2 DEF Begin, StartSave, StartCreate, StartDelete, StartValidate,
           StartSweep, Continue, Put, Update, Mirror, Meta, Unlink, DeleteBlob, DeleteRow,
           WriteValidation, SweepSend, Goto
    <2> QED
        BY <1>3, <1>6, <2>1, <2>3, RequestPlaces DEF LinksWait
<1>7. ASSUME \/ \E j \in Jobs : QueueTells(j) \/ SendTells(j)
             \/ RestartTells \/ \E ok \in BOOLEAN : FinishTells(ok)
      PROVE  ExactInv'
    <2>1. UNCHANGED <<links, run, row, path, touched>>
        BY <1>7 DEF QueueTells, Queue, SendTells, Sent, Fetch, Expire, RetryFailedJob,
           DeleteFailedJob, Send, SendFails, RestartTells, Restart, Crash, FinishTells,
           Finished, FinishJob, nodeVars, LinksStay, linkVars
    <2>2. pc'[Worker] \in {pc[Worker], "start", "idle"}
        BY <1>2, <1>7 DEF QueueTells, Queue, SendTells, Sent, Fetch, Expire, RetryFailedJob,
           DeleteFailedJob, Send, SendFails, RestartTells, Restart, Crash, FinishTells,
           Finished, FinishJob, Return, Goto, procVars
    <2> QED
        BY <1>3, <1>4, <2>1, <2>2 DEF LinksWait
<1>8. ASSUME RenameTells PROVE ExactInv'
    <2>1. scene.nodes \subseteq Nodes /\ path \in [Nodes -> FilePaths]
        BY DEF ViewTypeInv, SceneInv, Scene, ViewTypeOK, LinkTypeOK
    <2>2. PICK n \in Nodes, p \in scene.paths : Rename(n, p)
        BY <1>8, <2>1 DEF RenameTells, Renamed
    <2>3. UNCHANGED <<links, run, pc, row>>
        BY <2>2 DEF Rename, vars, procVars, nodeVars
    <2>4. PlacesKept
        BY <2>1, <2>2, <2>3 DEF Rename, PlacesKept, Live
    <2> QED
        BY <1>3, <2>3, <2>4 DEF LinksWait
<1>9. ASSUME Browser \/ (\E p \in Procs : Publish(p)) \/ UNCHANGED allVars PROVE ExactInv'
    <2>1. UNCHANGED <<vars, linkVars>>
        BY <1>9 DEF Browser, OpenStream, CloseStream, StartLoad, ShowEvent, FinishLoad,
           Publish, allVars
    <2> QED
        BY <1>3, <1>4, <2>1 DEF LinksWait, vars, procVars, nodeVars, linkVars
<1> QED
    BY <1>5, <1>6, <1>7, <1>8, <1>9 DEF ViewNext

LEMMA ExactInvariant ==
    ASSUME Mutual, Nodes # {}
    PROVE  ViewSpec => [](NoBootstrap /\ ~Spoilt => LinkInv /\ ExactInv)
<1>1. ViewSpec => [](ViewTypeInv /\ (NoBootstrap => LostInv /\ LinkInv))
    BY LinkInvariant, ViewImplementsDocIndex, SettledInvariant, ViewTypeInvariant, PTL
<1>2. ViewTypeInv /\ (NoBootstrap => LostInv /\ LinkInv) /\ [ViewNext]_allVars
        /\ NoBootstrap' /\ ~Spoilt'
      => NoBootstrap /\ ~Spoilt
    BY ViewStep, BootstrapBegun, SpoiltStays DEF ViewTypeInv, TypeInv
<1>3. ViewTypeInv /\ (NoBootstrap => LostInv /\ LinkInv) /\ [ViewNext]_allVars
        /\ (NoBootstrap /\ ~Spoilt => ExactInv)
      => (NoBootstrap /\ ~Spoilt => ExactInv)'
    BY <1>2, ExactKept
<1> QED
    BY <1>1, <1>3, ExactStart, PTL DEF ViewSpec

\* Links follow the documents: as long as no bootstrap has indexed beside the
\* worker and no file name ends in ".md.md", a link leads to the file at the path
\* it names once all requests and jobs have ended well, in whatever order
\* documents were created, saved, renamed, deleted and reindexed before - unless
\* the path was renamed or deleted and the corpus not reindexed since.
THEOREM LinksExactHolds ==
    ASSUME Mutual
    PROVE  ViewSpec => [](NoBootstrap => LinksExact)
<1>1. NoBootstrap /\ (NoBootstrap /\ ~Spoilt => LinkInv /\ ExactInv) => LinksExact
    <2> SUFFICES ASSUME NoBootstrap, NoBootstrap /\ ~Spoilt => LinkInv /\ ExactInv, Quiet,
                        NEW n \in Nodes, Live(n), NEW l \in links[n]
                 PROVE  \/ Candidates(l.target) \cap touched # {}
                        \/ l.to \in Hits(l)
                        \/ l.to = NoNode /\ Hits(l) = {}
        BY DEF LinksExact, Hits
    <2>1. /\ \A r \in Requests : pc[r] \in {"idle", "done"}
          /\ pc[Worker] \in {"idle", "done"}
          /\ \A r \in Requests, m \in Nodes : job[<<r, m>>] \in {"none", "completed"}
        BY DEF Quiet
    <2>2. \A m \in Nodes : ~Coming(m)
        BY <2>1 DEF Coming, Brings, OwingJob, WritePc
    <2>3. ExactInv
        BY <2>1 DEF Spoilt
    <2>4. ~Refreshing(n) /\ \A m \in Nodes : ~Arriving(m)
        BY <2>1, <2>2 DEF Refreshing, Arriving, Doing, Ahead
    <2>5. Sound(l)
        BY <2>3, <2>4 DEF ExactInv, SoundLinks
    <2>6. \A m \in Hits(l) : ~Arriving(m)
        BY <2>4 DEF Hits
    <2> QED
        BY <2>5, <2>6 DEF Sound
<1>2. CASE Nodes = {}
    <2>1. LinksExact
        BY <1>2 DEF LinksExact
    <2> QED
        BY <2>1, PTL
<1>3. CASE Nodes # {}
    <2>1. ViewSpec => [](NoBootstrap /\ ~Spoilt => LinkInv /\ ExactInv)
        BY <1>3, ExactInvariant
    <2> QED
        BY <1>1, <2>1, PTL
<1> QED
    BY <1>2, <1>3

-----------------------------------------------------------------------------
(* What the list is told.                                                  *)

\* The last event of s about n says indexed; if there is none, v does.
EndsWell(s, n, v) ==
    /\ (\A k \in 1 .. Len(s) : s[k][1] # n) => v = "indexed"
    /\ \A k \in 1 .. Len(s) :
          s[k][1] = n /\ (\A j \in (k + 1) .. Len(s) : s[j][1] # n) => s[k][2] = "indexed"

LEMMA EndsEmpty == \A n, v : EndsWell(<<>>, n, v) <=> v = "indexed"
BY DEF EndsWell

LEMMA EndsAppend ==
    ASSUME NEW s \in Seq(Event), NEW e \in Event, NEW n, NEW v,
           e[1] = n => e[2] = "indexed",
           e[1] # n => EndsWell(s, n, v)
    PROVE  EndsWell(Append(s, e), n, v)
<1> DEFINE t == Append(s, e)
<1>1. /\ Len(s) \in Nat /\ Len(t) = Len(s) + 1 /\ t[Len(s) + 1] = e
      /\ \A k \in 1 .. Len(s) : t[k] = s[k]
    OBVIOUS
<1>2. ASSUME e[1] = n PROVE EndsWell(t, n, v)
    <2>1. Len(t) \in 1 .. Len(t) /\ t[Len(t)][1] = n
        BY <1>1, <1>2
    <2>2. ASSUME NEW k \in 1 .. Len(t), \A j \in (k + 1) .. Len(t) : t[j][1] # n
          PROVE  t[k][2] = "indexed"
        <3>1. k = Len(t)
            BY <1>1, <2>1, <2>2
        <3> QED
            BY <1>1, <1>2, <3>1
    <2> QED
        BY <2>1, <2>2 DEF EndsWell
<1>3. ASSUME e[1] # n PROVE EndsWell(t, n, v)
    <2>1. (\A k \in 1 .. Len(t) : t[k][1] # n) => v = "indexed"
        <3>1. (\A k \in 1 .. Len(t) : t[k][1] # n) => \A k \in 1 .. Len(s) : s[k][1] # n
            BY <1>1
        <3> QED
            BY <1>3, <3>1 DEF EndsWell
    <2>2. ASSUME NEW k \in 1 .. Len(t), t[k][1] = n, \A j \in (k + 1) .. Len(t) : t[j][1] # n
          PROVE  t[k][2] = "indexed"
        <3>1. k \in 1 .. Len(s) /\ t[k] = s[k]
            BY <1>1, <1>3, <2>2
        <3>2. \A j \in (k + 1) .. Len(s) : s[j][1] # n
            BY <1>1, <2>2, <3>1
        <3> QED
            BY <1>3, <2>2, <3>1, <3>2 DEF EndsWell
    <2> QED
        BY <2>1, <2>2 DEF EndsWell
<1> QED
    BY <1>2, <1>3

LEMMA EndsTail ==
    ASSUME NEW s \in Seq(Event), s # <<>>, NEW n, NEW v, NEW w, EndsWell(s, n, v),
           w = IF Head(s)[1] = n THEN Head(s)[2] ELSE v
    PROVE  EndsWell(Tail(s), n, w)
<1> DEFINE t == Tail(s)
<1>1. /\ Len(s) \in Nat /\ Len(s) > 0 /\ Len(t) = Len(s) - 1 /\ Head(s) = s[1]
      /\ \A k \in 1 .. Len(t) : t[k] = s[k + 1]
    OBVIOUS
<1>2. ASSUME \A k \in 1 .. Len(t) : t[k][1] # n PROVE w = "indexed"
    <2>1. \A j \in 2 .. Len(s) : j - 1 \in 1 .. Len(t) /\ s[j] = t[j - 1]
        BY <1>1
    <2>2. \A j \in 2 .. Len(s) : s[j][1] # n
        BY <1>2, <2>1
    <2>3. CASE s[1][1] = n
        BY <1>1, <2>2, <2>3 DEF EndsWell
    <2>4. CASE s[1][1] # n
        <3>1. \A k \in 1 .. Len(s) : s[k][1] # n
            BY <1>1, <2>2, <2>4
        <3> QED
            BY <1>1, <2>4, <3>1 DEF EndsWell
    <2> QED
        BY <2>3, <2>4
<1>3. ASSUME NEW k \in 1 .. Len(t), t[k][1] = n, \A j \in (k + 1) .. Len(t) : t[j][1] # n
      PROVE  t[k][2] = "indexed"
    <2>1. k + 1 \in 1 .. Len(s) /\ s[k + 1] = t[k]
        BY <1>1
    <2>2. \A j \in (k + 2) .. Len(s) : j - 1 \in (k + 1) .. Len(t) /\ s[j] = t[j - 1]
        BY <1>1
    <2>3. \A j \in (k + 2) .. Len(s) : s[j][1] # n
        BY <1>3, <2>2
    <2>4. (k + 1) + 1 = k + 2
        OBVIOUS
    <2> QED
        BY <1>3, <2>1, <2>3, <2>4 DEF EndsWell
<1> QED
    BY <1>2, <1>3 DEF EndsWell

\* A process has written a status of n and is about to announce it.
Telling(n) == \E p \in Procs : due[p] # None /\ due[p][1] = n

\* Of a document shown with status v, a further announcement is still to come,
\* or those on their way end with indexed.
Informed(n, v) ==
    Live(n) /\ v # Unknown => StatusOwed(n) \/ Telling(n) \/ EndsWell(stream, n, v)

\* An announcement other than indexed is of a document still owed its status: a
\* request has its job to send, the worker its job to repeat or to go on with.
DueTrue ==
    /\ \A r \in Requests : due[r] # None => job[<<r, due[r][1]>>] = "sending"
    /\ due[Worker] # None /\ due[Worker][2] # "indexed" /\ Live(due[Worker][1])
         => StatusOwed(due[Worker][1])

\* In a scene without loads nobody is told anything.
Unwatched ==
    scene.loads = 0
      => stream = <<>> /\ answer = {} /\ NothingDue /\ \A n \in Nodes : list[n] = Unknown

ListInv ==
    /\ DueTrue /\ Unwatched
    /\ \A n \in Nodes : Informed(n, "indexed")
    /\ ~missed => \A n \in Nodes : Informed(n, list[n])
    /\ \A x \in answer : ~x.late => \A n \in Nodes : Informed(n, x.list[n])

LEMMA ListStart == ViewInit => ListInv
<1> SUFFICES ASSUME ViewInit PROVE ListInv
    OBVIOUS
<1>1. NothingDue /\ DueTrue /\ Unwatched
    BY DEF ViewInit, DueTrue, Unwatched, NothingDue
<1>2. \A n \in Nodes : Informed(n, "indexed")
    BY EndsEmpty DEF ViewInit, Informed
<1>3. \A n \in Nodes : Informed(n, list[n])
    BY DEF ViewInit, Informed
<1> QED
    BY <1>1, <1>2, <1>3 DEF ViewInit, ListInv

\* What a step of the server does to announcements: it makes at most one of its
\* own, takes back none, and a status that is paid is announced.
ServerStep ==
    /\ UNCHANGED <<listVars, streamVars, missed, scene>>
    /\ \A q \in Procs : due[q] # None => due'[q] = due[q]
    /\ \A n \in Nodes : Marked(n) => /\ due[Worker] = None
                                     /\ scene.loads = 0 \/ due'[Worker] = <<n, "indexed">>
    /\ scene.loads = 0 => \A q \in Procs : due'[q] = None
    /\ \A r \in Requests : due'[r] # None => job'[<<r, due'[r][1]>>] = "sending"
    /\ \A n \in Nodes, s \in IndexStatus \ {"indexed"} :
          due'[Worker] # due[Worker] /\ due'[Worker] = <<n, s>> => StatusOwed(n)'

LEMMA ServerKept ==
    ASSUME LostInv, SettledInv, NoBootstrap, ViewTypeInv, ViewTypeInv', ListInv,
           [Next]_vars, ServerStep
    PROVE  ListInv'
<1>1. OwedLasts /\ Worker \in Procs
    BY SettledStep DEF SettledNext
<1>2. None \notin Event
    BY DEF None, Event
<1>3. due \in [Procs -> Event \cup {None}] /\ due' \in [Procs -> Event \cup {None}]
    BY DEF ViewTypeInv, ViewTypeOK
<1>4. ASSUME NEW n \in Nodes, Telling(n) PROVE Telling(n)'
    BY <1>4 DEF ServerStep, Telling
<1>5. ASSUME NEW n \in Nodes, NEW v, Informed(n, v), scene.loads = 0 => v \in {"indexed", Unknown}
      PROVE  Live(n)' /\ v # Unknown => StatusOwed(n)' \/ Telling(n)' \/ EndsWell(stream, n, v)
    <2> SUFFICES ASSUME Live(n)', v # Unknown, ~StatusOwed(n)', ~Telling(n)'
                 PROVE  EndsWell(stream, n, v)
        OBVIOUS
    <2>1. CASE Live(n) /\ ~StatusOwed(n)
        BY <1>4, <1>5, <2>1 DEF Informed
    <2>2. CASE Marked(n)
        <3>1. due'[Worker] # <<n, "indexed">>
            BY <1>1 DEF Telling, None
        <3>2. scene.loads = 0 /\ v = "indexed"
            BY <1>5, <2>2, <3>1 DEF ServerStep
        <3> QED
            BY <3>2, EndsEmpty DEF ListInv, Unwatched
    <2> QED
        BY <1>1, <2>1, <2>2 DEF OwedLasts
<1>6. stream' = stream /\ list' = list /\ answer' = answer /\ missed' = missed /\ scene' = scene
    BY DEF ServerStep, listVars, streamVars
<1>7. ASSUME NEW n \in Nodes, NEW v, Informed(n, v), scene.loads = 0 => v \in {"indexed", Unknown}
      PROVE  Live(n)' /\ v # Unknown => StatusOwed(n)' \/ Telling(n)' \/ EndsWell(stream', n, v)
    BY <1>5, <1>6, <1>7
<1>8. DueTrue'
    <2>1. ASSUME NEW m, due'[Worker] # None, due'[Worker][2] # "indexed", due'[Worker][1] = m,
                 Live(m)'
          PROVE  StatusOwed(m)'
        <3>1. m \in Nodes
            BY <1>1, <1>3, <2>1 DEF Event
        <3>2. CASE due'[Worker] # due[Worker]
            <4>1. due'[Worker] = <<m, due'[Worker][2]>> /\ due'[Worker][2] \in IndexStatus
                BY <1>1, <1>3, <2>1 DEF Event
            <4> QED
                BY <2>1, <3>1, <3>2, <4>1 DEF ServerStep
        <3>3. CASE due'[Worker] = due[Worker]
            <4>1. Live(m) => StatusOwed(m)
                BY <2>1, <3>3 DEF ListInv, DueTrue
            <4>2. ~Marked(m)
                BY <2>1, <3>1, <3>3 DEF ServerStep
            <4> QED
                BY <1>1, <2>1, <3>1, <4>1, <4>2 DEF OwedLasts
        <3> QED
            BY <3>2, <3>3
    <2>2. PICK m : m = due'[Worker][1]
        OBVIOUS
    <2>3. due'[Worker] # None /\ due'[Worker][2] # "indexed" /\ Live(due[Worker][1])'
            => StatusOwed(due[Worker][1])'
        BY <2>1, <2>2 DEF Live, StatusOwed
    <2> QED
        BY <2>3 DEF DueTrue, ServerStep
<1>9. Unwatched'
    BY <1>6 DEF ServerStep, ListInv, Unwatched, NothingDue
<1>10. (\A n \in Nodes : Informed(n, "indexed"))'
    BY <1>6, <1>7 DEF ListInv, Informed
<1>11. (~missed => \A n \in Nodes : Informed(n, list[n]))'
    <2> SUFFICES ASSUME ~missed, NEW n \in Nodes
                 PROVE  Live(n)' /\ list[n] # Unknown
                          => StatusOwed(n)' \/ Telling(n)' \/ EndsWell(stream', n, list[n])
        BY <1>6 DEF Informed
    <2>1. Informed(n, list[n]) /\ (scene.loads = 0 => list[n] = Unknown)
        BY DEF ListInv, Unwatched
    <2> QED
        BY <1>7, <2>1
<1>12. (\A x \in answer : ~x.late => \A n \in Nodes : Informed(n, x.list[n]))'
    <2> SUFFICES ASSUME NEW x \in answer, ~x.late, NEW n \in Nodes
                 PROVE  Live(n)' /\ x.list[n] # Unknown
                          => StatusOwed(n)' \/ Telling(n)' \/ EndsWell(stream', n, x.list[n])
        BY <1>6 DEF Informed
    <2>1. Informed(n, x.list[n]) /\ scene.loads # 0
        BY DEF ListInv, Unwatched
    <2> QED
        BY <1>7, <2>1
<1> QED
    BY <1>8, <1>9, <1>10, <1>11, <1>12 DEF ListInv

\* Steps that announce nothing.  What a request has to announce holds its job back.
LEMMA SilentSteps ==
    ASSUME ListInv, UNCHANGED viewVars, scene' = scene,
           \A n \in Nodes : ~Marked(n),
           \A r \in Requests : due[r] # None => job'[<<r, due[r][1]>>] = "sending"
    PROVE  ServerStep
<1>1. UNCHANGED <<listVars, streamVars, missed>> /\ due' = due
    BY DEF viewVars
<1>2. scene.loads = 0 => \A q \in Procs : due[q] = None
    BY DEF ListInv, Unwatched, NothingDue
<1> QED
    BY <1>1, <1>2 DEF ServerStep

\* A step that announces status s of the document its process is on.
LEMMA TellingSteps ==
    ASSUME ListInv, NEW p \in Procs, NEW m, NEW s, on[p] = m, Told(p), WillTell(p, s),
           scene' = scene, scene.loads \in Nat,
           due \in [Procs -> Event \cup {None}],
           \A n \in Nodes : Marked(n) => p = Worker /\ n = m /\ s = "indexed",
           \A r \in Requests \ {p} : due[r] # None => job'[<<r, due[r][1]>>] = "sending",
           p # Worker => job'[<<p, m>>] = "sending",
           p = Worker /\ s # "indexed" => StatusOwed(m)'
    PROVE  ServerStep
<1>1. UNCHANGED <<listVars, streamVars, missed>> /\ due[p] = None
    BY DEF Told
<1>2. /\ due' = [due EXCEPT ![p] = IF scene.loads > 0 THEN <<m, s>> ELSE None]
      /\ scene.loads = 0 => ~(scene.loads > 0) /\ \A q \in Procs : due[q] = None
    BY DEF WillTell, ListInv, Unwatched, NothingDue
<1>3. /\ \A q \in Procs \ {p} : due'[q] = due[q]
      /\ due'[p] \in {<<m, s>>, None}
      /\ scene.loads > 0 => due'[p] = <<m, s>>
    BY <1>2
<1>4. ASSUME NEW r \in Requests, due'[r] # None
      PROVE  job'[<<r, due'[r][1]>>] = "sending"
    <2>1. CASE r = p
        <3>1. p # Worker /\ due'[r] = <<m, s>>
            BY <1>3, <1>4, <2>1, ProcAssumption
        <3> QED
            BY <2>1, <3>1
    <2>2. CASE r # p
        BY <1>3, <1>4, <2>2
    <2> QED
        BY <2>1, <2>2
<1>5. ASSUME NEW n \in Nodes, NEW t \in IndexStatus \ {"indexed"},
             due'[Worker] # due[Worker], due'[Worker] = <<n, t>>
      PROVE  StatusOwed(n)'
    <2>1. p = Worker /\ due'[p] # None
        BY <1>1, <1>3, <1>5
    <2>2. n = m /\ s # "indexed"
        BY <1>3, <1>5, <2>1
    <2> QED
        BY <2>1, <2>2
<1>6. \A n \in Nodes : Marked(n) => /\ due[Worker] = None
                                    /\ scene.loads = 0 \/ due'[Worker] = <<n, "indexed">>
    <2> SUFFICES ASSUME NEW n \in Nodes, Marked(n), scene.loads # 0
                 PROVE  due'[Worker] = <<n, "indexed">>
        BY <1>1
    <2> QED
        BY <1>3
<1> QED
    BY <1>1, <1>2, <1>3, <1>4, <1>5, <1>6 DEF ServerStep

\* The server, process by process.
LEMMA ServerSteps ==
    ASSUME LostInv, NoBootstrap, ViewTypeInv, ListInv, [ViewNext]_allVars,
           ~Browser, \A p \in Procs : ~Publish(p), ~RestartTells
    PROVE  ServerStep
<1>1. [Next]_vars /\ scene' = scene /\ scene.loads \in Nat
    BY ViewStep DEF ViewTypeInv, SceneInv, Scene
<1>2. /\ pc \in [Procs -> Pc] /\ on \in [Procs -> Nodes \cup {NoNode}]
      /\ job \in [Jobs -> JobState] /\ Worker \in Procs /\ Worker \notin Requests
      /\ \A r \in Requests : pc[r] \notin IndexPc
      /\ due \in [Procs -> Event \cup {None}]
    BY ProcAssumption DEF LostInv, TypeInv, TypeOK, Progress, ViewTypeInv, ViewTypeOK
<1>3. \A r \in Requests : due[r] # None => job[<<r, due[r][1]>>] = "sending" /\ <<r, due[r][1]>> \in Jobs
    BY <1>2 DEF ListInv, DueTrue, Event
<1>4. ASSUME UNCHANGED viewVars, pc'[Worker] \in {pc[Worker], "idle", "start"},
             \A r \in Requests : due[r] # None => job'[<<r, due[r][1]>>] = "sending"
      PROVE  ServerStep
    BY <1>1, <1>4, SilentSteps DEF Marked
<1>5. ASSUME NEW r \in Requests, CallTells(r) PROVE ServerStep
    <2>1. UNCHANGED viewVars /\ Begin(r)
        BY <1>5, CallBegins DEF CallTells, ViewStays, ViewTypeInv
    <2>2. pc'[Worker] = pc[Worker] /\ job' = job
        BY <1>2, <2>1 DEF Begin, StartSave, StartCreate, StartDelete, StartValidate,
           StartSweep, Goto, jobVars
    <2> QED
        BY <1>3, <1>4, <2>1, <2>2
<1>6. ASSUME NEW r \in Requests, RequestTells(r) PROVE ServerStep
    <2>1. Continue(r)
        BY <1>6 DEF RequestTells, RequestStep, RemoveRow, Continue
    <2>2. pc'[Worker] = pc[Worker] /\ \A q \in Requests \ {r}, n \in Nodes : job'[<<q, n>>] = job[<<q, n>>]
        BY <1>2, <2>1 DEF Continue, Put, Update, Mirror, Meta, Unlink, DeleteBlob, DeleteRow,
           WriteValidation, SweepSend, Goto, jobVars
    <2>3. due[r] = None
        BY <1>6 DEF RequestTells, Silently, Told
    <2>4. \A q \in Requests \ {r} : due[q] # None => job'[<<q, due[q][1]>>] = "sending"
        BY <1>2, <1>3, <2>2
    <2>5. CASE pc[r] = "meta" /\ Live(on[r])
        <3>1. Meta(r) /\ on[r] \in Nodes
            BY <2>1, <2>5 DEF Continue, Put, Update, Mirror, Meta, Unlink, DeleteBlob,
               DeleteRow, WriteValidation, SweepSend, LostInv, TypeInv, Placed, WritePc
        <3>2. job'[<<r, on[r]>>] = "sending"
            BY <1>2, <3>1 DEF Meta
        <3>3. \A n \in Nodes : ~Marked(n)
            BY <2>2 DEF Marked
        <3> QED
            BY <1>1, <1>2, <1>6, <2>4, <2>5, <3>2, <3>3, TellingSteps DEF RequestTells
    <2>6. CASE ~(pc[r] = "meta" /\ Live(on[r]))
        <3>1. UNCHANGED viewVars
            BY <1>6, <2>6 DEF RequestTells, Silently, Told, viewVars
        <3> QED
            BY <1>4, <2>2, <2>3, <2>4, <3>1
    <2> QED
        BY <2>5, <2>6
<1>7. ASSUME NEW p \in Procs, RunTells(p) PROVE ServerStep
    <2>1. p = Worker /\ pc[Worker] \in IndexPc
        BY <1>2, <1>7 DEF RunTells, RunStart, IndexStart, IndexMark, IndexRead, IndexInsert,
           IndexDelete, IndexStats, IndexCommit, ListFiles, ClearLinks, InsertLinks,
           PatchIncoming, Doing, RunFails, RunEscapes, IndexThrows, IndexEscapes,
       IndexPc
    <2>2. /\ held \in Jobs /\ job[held] = "active" /\ held = <<held[1], on[Worker]>>
          /\ held[1] \in Requests /\ on[Worker] \in Nodes
        BY <2>1, WorkerRuns DEF LostInv
    <2>3. PICK n \in Nodes : n = on[Worker]
        BY <2>2
    <2>4. ASSUME NEW ok, Return(Worker, ok)
          PROVE  /\ pc'[Worker] = "idle"
                 /\ \A j \in Jobs \ {held} : job'[j] = job[j]
                 /\ ok = FALSE => StatusOwed(n)'
        <3>1. pc'[Worker] = "idle"
            BY <1>2, <2>4 DEF Return, Goto
        <3>2. \A j \in Jobs \ {held} : job'[j] = job[j]
            BY <1>2, <2>4 DEF Return, AttemptFailed
        <3>3. ok = FALSE => job'[held] \in OwingJob /\ held' = NoJob
            BY <1>2, <2>2, <2>4 DEF Return, AttemptFailed, OwingJob
        <3>4. NoJob \notin Jobs
            BY ProcAssumption
        <3> QED
            BY <2>2, <2>3, <3>1, <3>2, <3>3, <3>4 DEF StatusOwed
    <2>5. ASSUME \A j \in Jobs \ {held} : job'[j] = job[j]
          PROVE  \A r \in Requests : due[r] # None => job'[<<r, due[r][1]>>] = "sending"
        BY <1>3, <2>2, <2>5
    <2>7. ASSUME Silently(Worker), pc[Worker] # "commit" \/ pc'[Worker] # "stats",
                 \A j \in Jobs \ {held} : job'[j] = job[j]
          PROVE  ServerStep
        <3>1. UNCHANGED viewVars
            BY <2>7 DEF Silently, Told, viewVars
        <3> QED
            BY <1>1, <2>5, <2>7, <3>1, SilentSteps DEF Marked
    <2>6. CASE RunStart(Worker) /\ Silently(Worker)
        <3>1. pc[Worker] = "start"
            BY <2>6 DEF RunStart, IndexStart
        <3>2. \A j \in Jobs \ {held} : job'[j] = job[j]
            BY <2>4, <2>6 DEF RunStart, IndexStart, jobVars
        <3> QED
            BY <2>6, <2>7, <3>1, <3>2
    <2>61. CASE IndexMark(Worker) /\ LinksStay /\ Told(Worker) /\ WillTell(Worker, "indexing")
        <3>1. pc'[Worker] = "read" /\ UNCHANGED jobVars
            BY <1>2, <2>61 DEF IndexMark, Goto
        <3>2. StatusOwed(n)'
            BY <2>2, <2>3, <3>1 DEF StatusOwed, OwingJob, Closing, jobVars
        <3>3. \A m \in Nodes : ~Marked(m)
            BY <3>1 DEF Marked
        <3>4. \A r \in Requests : due[r] # None => job'[<<r, due[r][1]>>] = "sending"
            BY <2>5, <3>1 DEF jobVars
        <3> QED
            BY <1>1, <1>2, <2>3, <2>61, <3>2, <3>3, <3>4, TellingSteps
    <2>8. ASSUME Return(Worker, FALSE), Told(Worker), WillTell(Worker, "failed")
          PROVE  ServerStep
        <3>1. StatusOwed(n)' /\ \A m \in Nodes : ~Marked(m)
            BY <2>4, <2>8 DEF Marked
        <3>2. \A r \in Requests : due[r] # None => job'[<<r, due[r][1]>>] = "sending"
            BY <2>4, <2>5, <2>8
        <3> QED
            BY <1>1, <1>2, <2>3, <2>8, <3>1, <3>2, TellingSteps
    <2>9. CASE /\ (IndexRead(Worker) \/ IndexInsert(Worker)) /\ LinksStay
               /\ IF pc'[Worker] \in IndexPc THEN Silently(Worker)
                    ELSE Told(Worker) /\ WillTell(Worker, "failed")
        <3>1. CASE pc'[Worker] \in IndexPc
            <4>1. job' = job /\ pc[Worker] # "commit"
                BY <1>2, <2>9, <3>1 DEF IndexRead, IndexInsert, Catch, Return, Goto, IndexPc,
                   jobVars
            <4> QED
                BY <2>7, <2>9, <3>1, <4>1
        <3>2. CASE pc'[Worker] \notin IndexPc
            <4>1. Return(Worker, FALSE)
                BY <1>2, <2>9, <3>2 DEF IndexRead, IndexInsert, Catch, Goto, IndexPc
            <4> QED
                BY <2>8, <2>9, <3>2, <4>1
        <3> QED
            BY <3>1, <3>2
    <2>10. CASE (IndexDelete(Worker) \/ IndexStats(Worker)) /\ LinksStay /\ Silently(Worker)
        <3>1. job' = job /\ pc[Worker] # "commit"
            BY <2>10 DEF IndexDelete, IndexStats, jobVars
        <3> QED
            BY <2>7, <2>10, <3>1
    <2>11. CASE /\ \/ ListFiles(Worker) \/ ClearLinks(Worker)
                   \/ InsertLinks(Worker) \/ PatchIncoming(Worker)
                /\ Silently(Worker)
        <3>1. UNCHANGED vars
            BY <2>11, LinkSteps
        <3>2. job' = job /\ pc' = pc
            BY <3>1 DEF vars, procVars, jobVars
        <3> QED
            BY <2>7, <2>11, <3>2
    <2>12. CASE /\ Doing(Worker, "ready") /\ IndexCommit(Worker) /\ LinksStay
                /\ Told(Worker) /\ WillTell(Worker, "indexed")
        <3>1. \A r \in Requests : due[r] # None => job'[<<r, due[r][1]>>] = "sending"
            BY <2>5, <2>12 DEF IndexCommit, jobVars
        <3>2. \A m \in Nodes : Marked(m) => m = n
            BY <2>3 DEF Marked
        <3> QED
            BY <1>1, <1>2, <2>3, <2>12, <3>1, <3>2, TellingSteps
    <2>13. CASE RunFails(Worker) /\ Told(Worker) /\ WillTell(Worker, "failed")
        BY <2>8, <2>13 DEF RunFails, IndexThrows, Catch
    <2>14. CASE RunEscapes(Worker) /\ Silently(Worker)
        <3>1. Return(Worker, FALSE)
            BY <2>14 DEF RunEscapes, IndexEscapes
        <3>2. pc'[Worker] = "idle" /\ \A j \in Jobs \ {held} : job'[j] = job[j]
            BY <2>4, <3>1
        <3> QED
            BY <2>7, <2>14, <3>2
    <2> QED
        BY <1>7, <2>1, <2>6, <2>61, <2>14, <2>9, <2>10, <2>11, <2>12, <2>13 DEF RunTells
<1>8. ASSUME NEW j \in Jobs, QueueTells(j) \/ SendTells(j) PROVE ServerStep
    <2>1. UNCHANGED viewVars
        BY <1>8 DEF QueueTells, SendTells, ViewStays
    <2>2. pc'[Worker] \in {pc[Worker], "start"}
        BY <1>2, <1>8 DEF QueueTells, Queue, SendTells, Sent, Fetch, Expire, RetryFailedJob,
           DeleteFailedJob, Send, SendFails, Goto, procVars
    <2>3. CASE QueueTells(j)
        <3>1. job[j] # "sending" /\ \A k \in Jobs \ {j} : job'[k] = job[k]
            BY <1>2, <2>3 DEF QueueTells, Queue, Fetch, Expire, AttemptFailed, RetryFailedJob,
               DeleteFailedJob
        <3> QED
            BY <1>3, <1>4, <2>1, <2>2, <3>1
    <2>4. CASE SendTells(j)
        <3>1. due[j[1]] = None /\ \A k \in Jobs \ {j} : job'[k] = job[k]
            BY <1>2, <2>4 DEF SendTells, Sent, Send, SendFails
        <3> QED
            BY <1>3, <1>4, <2>1, <2>2, <3>1
    <2> QED
        BY <1>8, <2>3, <2>4
<1>9. ASSUME NEW ok \in BOOLEAN, FinishTells(ok) PROVE ServerStep
    <2>1. UNCHANGED viewVars
        BY <1>9 DEF FinishTells, Silently, Told, viewVars
    <2>2. pc[Worker] \in IndexPc /\ Return(Worker, ok)
        BY <1>9 DEF FinishTells, Finished, FinishJob, IndexPc
    <2>3. held \in Jobs /\ job[held] = "active"
        BY <2>2, WorkerRuns DEF LostInv
    <2>4. pc'[Worker] = "idle" /\ \A j \in Jobs \ {held} : job'[j] = job[j]
        BY <1>2, <2>2, <2>3 DEF Return, AttemptFailed, Goto
    <2> QED
        BY <1>3, <1>4, <2>1, <2>3, <2>4
<1>10. CASE RenameTells \/ UNCHANGED allVars
    <2>1. UNCHANGED vars /\ UNCHANGED viewVars
        BY <1>10, ViewSteps DEF RenameTells, ViewStays, allVars
    <2> QED
        BY <1>3, <1>4, <2>1 DEF vars, procVars, jobVars
<1> QED
    BY <1>5, <1>6, <1>7, <1>8, <1>9, <1>10 DEF ViewNext

\* What the browser and the hub do is invisible to the documents.
LEMMA SameDocuments ==
    ASSUME UNCHANGED vars
    PROVE  /\ \A n \in Nodes : (Live(n)' <=> Live(n)) /\ (StatusOwed(n)' <=> StatusOwed(n))
           /\ job' = job
BY DEF vars, nodeVars, procVars, jobVars, Live, StatusOwed

\* The browser shows what it is told, and knows what it has missed.
LEMMA BrowserKept ==
    ASSUME TypeOK, SettledInv, "validate" \notin Ops, ViewTypeInv, ListInv, Browser
    PROVE  ListInv'
<1>1. /\ \A n \in Nodes : (Live(n)' <=> Live(n)) /\ (StatusOwed(n)' <=> StatusOwed(n))
      /\ job' = job /\ scene' = scene /\ due' = due
    <2>1. UNCHANGED vars
        BY ViewSteps
    <2>2. scene' = scene /\ due' = due
        BY DEF Browser, OpenStream, CloseStream, StartLoad, ShowEvent, FinishLoad, linkVars
    <2> QED
        BY <2>1, <2>2, SameDocuments
<1>2. \A n \in Nodes : Telling(n)' <=> Telling(n)
    BY <1>1 DEF Telling
<1>3. DueTrue'
    <2>1. due[Worker] # None => due[Worker][1] \in Nodes
        BY DEF ViewTypeInv, ViewTypeOK, Event
    <2>2. PICK m : m = due[Worker][1]
        OBVIOUS
    <2>3. due[Worker] # None /\ due[Worker][2] # "indexed" /\ Live(m)' => StatusOwed(m)'
        BY <1>1, <2>1, <2>2 DEF ListInv, DueTrue
    <2>4. (due[Worker] # None /\ due[Worker][2] # "indexed" /\ Live(due[Worker][1])
              => StatusOwed(due[Worker][1]))'
        BY <1>1, <2>2, <2>3 DEF Live, StatusOwed
    <2> QED
        BY <1>1, <2>4 DEF ListInv, DueTrue
<1> DEFINE Well(s, n, v) == Live(n) /\ v # Unknown => StatusOwed(n) \/ Telling(n) \/ EndsWell(s, n, v)
<1>4. /\ \A n \in Nodes : Well(stream, n, "indexed")
      /\ ~missed => \A n \in Nodes : Well(stream, n, list[n])
      /\ \A x \in answer : ~x.late => \A n \in Nodes : Well(stream, n, x.list[n])
    BY DEF ListInv, Informed
<1>5. ASSUME Unwatched',
             \A n \in Nodes : Well(stream', n, "indexed"),
             ~missed' => \A n \in Nodes : Well(stream', n, list'[n]),
             \A x \in answer' : ~x.late => \A n \in Nodes : Well(stream', n, x.list[n])
      PROVE  ListInv'
    <2>1. (\A n \in Nodes : Informed(n, "indexed"))'
        BY <1>1, <1>2, <1>5 DEF Informed
    <2>2. (~missed => \A n \in Nodes : Informed(n, list[n]))'
        BY <1>1, <1>2, <1>5 DEF Informed
    <2>3. (\A x \in answer : ~x.late => \A n \in Nodes : Informed(n, x.list[n]))'
        BY <1>1, <1>2, <1>5 DEF Informed
    <2> QED
        BY <1>3, <1>5, <2>1, <2>2, <2>3 DEF ListInv
<1>6. \A x \in Late : x.late = TRUE
    <2>1. answer \subseteq Answer
        BY DEF ViewTypeInv, ViewTypeOK, Answer
    <2> QED
        BY <2>1 DEF Late, Answer
<1>7. stream \in Seq(Event) /\ scene.loads \in Nat
    BY DEF ViewTypeInv, SceneInv, Scene
<1>8. Unwatched /\ NothingDue' = NothingDue
    BY <1>1 DEF ListInv, NothingDue
<1>9. \A n \in Nodes : Well(<<>>, n, "indexed")
    BY EndsEmpty
<1> HIDE DEF Well
<1>10. CASE OpenStream
    <2>1. stream' = stream /\ list' = list /\ answer' = answer /\ missed' = missed
        BY <1>10 DEF OpenStream, listVars
    <2>2. Unwatched'
        BY <1>1, <1>8, <2>1 DEF Unwatched
    <2> QED
        BY <1>4, <1>5, <2>1, <2>2
<1>11. CASE CloseStream
    <2>1. /\ stream' = <<>> /\ list' = list /\ missed' = (missed \/ stream # <<>>)
          /\ answer' = IF stream # <<>> THEN Late ELSE answer
        BY <1>11 DEF CloseStream
    <2>2. Unwatched'
        BY <1>1, <1>8, <2>1 DEF Unwatched
    <2>3. \A x \in answer' : ~x.late => x \in answer /\ stream = <<>>
        BY <1>6, <2>1
    <2> QED
        BY <1>4, <1>5, <1>9, <2>1, <2>2, <2>3
<1>12. CASE StartLoad
    <2>1. PICK l : l = [n \in Nodes |-> IF Live(n) THEN status[n] ELSE Unknown]
        OBVIOUS
    <2>2. /\ stream' = stream /\ list' = list /\ missed' = missed /\ scene.loads # 0
          /\ answer' = answer \cup {[list |-> l, late |-> FALSE]}
        BY <1>7, <1>12, <2>1 DEF StartLoad, streamVars, ViewTypeInv, ViewTypeOK
    <2>3. ASSUME NEW n \in Nodes PROVE Well(stream, n, l[n])
        <3>1. Live(n) => l[n] = status[n]
            BY <2>1
        <3>2. Live(n) => StatusOwed(n) \/ l[n] = "indexed"
            BY <3>1 DEF SettledInv
        <3>3. Well(stream, n, "indexed") /\ "indexed" # Unknown
            BY <1>4, ViewAssumption DEF IndexStatus
        <3> QED
            BY <3>2, <3>3 DEF Well
    <2>4. Unwatched'
        BY <1>1, <2>2 DEF Unwatched
    <2>5. \A x \in answer' : x \in answer \/ x.list = l
        BY <2>2
    <2> QED
        BY <1>4, <1>5, <2>2, <2>3, <2>4, <2>5
<1>13. ASSUME NEW a \in answer, FinishLoad(a) PROVE ListInv'
    <2>1. /\ stream' = stream /\ list' = a.list /\ missed' = a.late
          /\ answer' = answer \ {a}
        BY <1>13 DEF FinishLoad, streamVars
    <2>2. Unwatched'
        BY <1>1, <1>8, <2>1 DEF Unwatched
    <2> QED
        BY <1>4, <1>5, <2>1, <2>2
<1>14. CASE ShowEvent
    <2>1. /\ stream # <<>> /\ stream' = Tail(stream) /\ missed' = missed /\ answer' = Late
          /\ list' = Patched(list, Head(stream))
        BY <1>14 DEF ShowEvent
    <2>2. Unwatched'
        BY <1>1, <1>8, <2>1 DEF Unwatched
    <2>3. Head(stream) \in Event
        BY <1>7, <2>1
    <2>4. ASSUME NEW n \in Nodes, NEW v, NEW w, Well(stream, n, v), w # Unknown => v # Unknown,
                 w # Unknown => w = IF Head(stream)[1] = n THEN Head(stream)[2] ELSE v
          PROVE  Well(stream', n, w)
        BY <1>7, <2>1, <2>4, EndsTail DEF Well
    <2>5. ASSUME NEW n \in Nodes PROVE Well(stream', n, "indexed")
        <3>1. PICK w : w = IF Head(stream)[1] = n THEN Head(stream)[2] ELSE "indexed"
            OBVIOUS
        <3>2. EndsWell(stream, n, "indexed") => EndsWell(stream', n, w)
            BY <1>7, <2>1, <3>1, EndsTail
        <3>3. EndsWell(stream', n, w) => EndsWell(stream', n, "indexed")
            BY DEF EndsWell
        <3>4. Well(stream, n, "indexed") /\ "indexed" # Unknown
            BY <1>4, ViewAssumption DEF IndexStatus
        <3> QED
            BY <3>2, <3>3, <3>4 DEF Well
    <2>6. ASSUME ~missed', NEW n \in Nodes PROVE Well(stream', n, list'[n])
        <3>1. Well(stream, n, list[n])
            BY <1>4, <2>1, <2>6
        <3>2. list \in Lists
            BY DEF ViewTypeInv, ViewTypeOK
        <3>3. list'[n] = IF Head(stream)[1] = n /\ list[n] # Unknown THEN Head(stream)[2] ELSE list[n]
            BY <2>1, <2>3, <3>2 DEF Patched, Lists, Event
        <3> QED
            BY <2>4, <3>1, <3>3
    <2>7. \A x \in answer' : x.late = TRUE
        BY <1>6, <2>1
    <2> QED
        BY <1>5, <2>2, <2>5, <2>6, <2>7
<1> QED
    BY <1>10, <1>11, <1>12, <1>13, <1>14 DEF Browser

\* The hub hands an announcement on, or it is missed.
LEMMA PublishKept ==
    ASSUME LostInv, ViewTypeInv, ListInv, NEW p \in Procs, Publish(p)
    PROVE  ListInv'
<1>1. /\ \A n \in Nodes : (Live(n)' <=> Live(n)) /\ (StatusOwed(n)' <=> StatusOwed(n))
      /\ job' = job /\ scene' = scene /\ list' = list
    <2>1. UNCHANGED vars /\ scene' = scene /\ list' = list
        BY DEF Publish, linkVars
    <2> QED
        BY <2>1, SameDocuments
<1>2. PICK n0 \in Nodes, s0 \in IndexStatus : due[p] = <<n0, s0>>
    BY DEF Publish, ViewTypeInv, ViewTypeOK, Event
<1>3. /\ due \in [Procs -> Event \cup {None}]
      /\ due'[p] = None /\ (\A q \in Procs \ {p} : due'[q] = due[q])
      /\ due[p] \in Event /\ due[p][1] = n0 /\ due[p][2] = s0
    BY <1>2 DEF Publish, ViewTypeInv, ViewTypeOK, Event
<1>4. Live(n0) /\ s0 # "indexed" => StatusOwed(n0)
    <2>1. CASE p = Worker
        BY <1>2, <1>3, <2>1 DEF ListInv, DueTrue, Publish
    <2>2. CASE p # Worker
        <3>1. p \in Requests /\ job[<<p, n0>>] = "sending"
            BY <1>3, <2>2 DEF ListInv, DueTrue, Publish
        <3>2. <<p, n0>> \in Jobs /\ NoJob \notin Jobs
            BY <3>1, ProcAssumption DEF Jobs
        <3>3. held = <<p, n0>> => job[held] = "active"
            <4>1. held = NoJob \/ job[held] = "active"
                BY DEF LostInv, Run
            <4> QED
                BY <3>2, <4>1
        <3> QED
            BY <3>1, <3>3 DEF StatusOwed, OwingJob
    <2> QED
        BY <2>1, <2>2
<1>5. DueTrue'
    <2>1. \A r \in Requests : due'[r] # None => due'[r] = due[r]
        BY <1>3
    <2>2. due'[Worker] # None => due'[Worker] = due[Worker] /\ due[Worker][1] \in Nodes
        BY <1>3 DEF Event
    <2>3. PICK m : m = due'[Worker][1]
        OBVIOUS
    <2>4. due'[Worker] # None /\ due'[Worker][2] # "indexed" /\ Live(m)' => StatusOwed(m)'
        BY <1>1, <2>2, <2>3 DEF ListInv, DueTrue
    <2>5. (due[Worker] # None /\ due[Worker][2] # "indexed" /\ Live(due[Worker][1])
              => StatusOwed(due[Worker][1]))'
        BY <2>3, <2>4 DEF Live, StatusOwed
    <2> QED
        BY <1>1, <2>1, <2>5 DEF ListInv, DueTrue
<1>6. Unwatched'
    BY <1>1, <1>3 DEF ListInv, Unwatched, NothingDue, Publish
<1>7. ASSUME NEW n \in Nodes, NEW v, Informed(n, v)
      PROVE  open => (Live(n)' /\ v # Unknown
                        => StatusOwed(n)' \/ Telling(n)' \/ EndsWell(stream', n, v))
    <2> SUFFICES ASSUME open, Live(n), v # Unknown, ~StatusOwed(n), ~Telling(n)'
                 PROVE  EndsWell(stream', n, v)
        BY <1>1
    <2>1. stream' = Append(stream, due[p]) /\ stream \in Seq(Event)
        BY DEF Publish, ViewTypeInv
    <2>2. CASE n = n0
        <3>1. s0 = "indexed"
            BY <1>4, <2>2
        <3> QED
            BY <1>3, <2>1, <2>2, <3>1, EndsAppend
    <2>3. CASE n # n0
        <3>1. ~Telling(n)
            BY <1>3, <2>3 DEF Telling
        <3>2. EndsWell(stream, n, v)
            BY <1>7, <3>1 DEF Informed
        <3> QED
            BY <1>3, <2>1, <2>3, <3>2, EndsAppend
    <2> QED
        BY <2>2, <2>3
<1>8. CASE open
    <2>1. answer' = answer /\ missed' = missed
        BY <1>8 DEF Publish
    <2>2. (\A n \in Nodes : Informed(n, "indexed"))'
        BY <1>7, <1>8 DEF ListInv, Informed
    <2>3. (~missed => \A n \in Nodes : Informed(n, list[n]))'
        BY <1>1, <1>7, <1>8, <2>1 DEF ListInv, Informed
    <2>4. (\A x \in answer : ~x.late => \A n \in Nodes : Informed(n, x.list[n]))'
        BY <1>7, <1>8, <2>1 DEF ListInv, Informed
    <2> QED
        BY <1>5, <1>6, <2>2, <2>3, <2>4 DEF ListInv
<1>9. CASE ~open
    <2>1. /\ stream' = <<>> /\ missed' = TRUE /\ answer' = Late
          /\ \A x \in Late : x.late = TRUE
        <3>1. answer \subseteq Answer /\ stream = <<>>
            BY <1>9 DEF ViewTypeInv, ViewTypeOK, Answer
        <3>2. \A x \in Late : x.late = TRUE
            BY <3>1 DEF Late, Answer
        <3> QED
            BY <1>9, <3>1, <3>2 DEF Publish
    <2>2. (\A n \in Nodes : Informed(n, "indexed"))'
        BY <2>1, EndsEmpty DEF Informed
    <2> QED
        BY <1>5, <1>6, <2>1, <2>2 DEF ListInv
<1> QED
    BY <1>8, <1>9

\* What was on its way when the process died is missed.
LEMMA RestartKept ==
    ASSUME LostInv, SettledInv, NoBootstrap, "validate" \notin Ops, ViewTypeInv, ListInv,
           [Next]_vars, RestartTells
    PROVE  ListInv'
<1>1. /\ stream' = <<>> /\ answer' = {} /\ list' = list /\ scene' = scene
      /\ \A q \in Procs : due'[q] = None
      /\ missed' = (missed \/ ~NothingDue \/ stream # <<>>)
    BY DEF RestartTells, Restart, LinksStay, linkVars
<1>2. Worker \in Procs /\ DueTrue' /\ Unwatched'
    BY <1>1 DEF DueTrue, Unwatched, NothingDue, ListInv
<1>3. (\A n \in Nodes : Informed(n, "indexed"))'
    BY <1>1, EndsEmpty DEF Informed
<1>4. ASSUME ~missed', NEW n \in Nodes PROVE Informed(n, list[n])'
    <2> SUFFICES ASSUME Live(n)', list[n] # Unknown, ~StatusOwed(n)'
                 PROVE  list[n] = "indexed"
        BY <1>1, EndsEmpty DEF Informed
    <2>1. ~missed /\ NothingDue /\ stream = <<>>
        BY <1>1, <1>4
    <2>2. pc'[Worker] # "stats"
        BY DEF RestartTells, Restart, Crash
    <2>3. Live(n) /\ ~StatusOwed(n)
        BY <2>2, SettledStep DEF SettledNext, OwedLasts, Marked
    <2>4. ~Telling(n)
        BY <2>1 DEF NothingDue, Telling
    <2> QED
        BY <2>1, <2>3, <2>4, EndsEmpty DEF ListInv, Informed
<1>5. (~missed => \A n \in Nodes : Informed(n, list[n]))'
    BY <1>4
<1>6. (\A x \in answer : ~x.late => \A n \in Nodes : Informed(n, x.list[n]))'
    BY <1>1
<1> QED
    BY <1>2, <1>3, <1>5, <1>6 DEF ListInv

\* No step of the composition makes the list false.
LEMMA ListKept ==
    ASSUME LostInv, SettledInv, NoBootstrap, "validate" \notin Ops,
           ViewTypeInv, ViewTypeInv', ListInv, [ViewNext]_allVars
    PROVE  ListInv'
<1>1. [Next]_vars
    BY ViewStep DEF ViewTypeInv
<1>2. CASE Browser
    BY <1>2, BrowserKept DEF LostInv, TypeInv
<1>3. ASSUME NEW p \in Procs, Publish(p) PROVE ListInv'
    BY <1>3, PublishKept
<1>4. CASE RestartTells
    BY <1>1, <1>4, RestartKept
<1>5. CASE ~Browser /\ (\A p \in Procs : ~Publish(p)) /\ ~RestartTells
    BY <1>1, <1>5, ServerSteps, ServerKept
<1> QED
    BY <1>2, <1>3, <1>4, <1>5

LEMMA ListInvariant ==
    ASSUME "validate" \notin Ops, Nodes # {}
    PROVE  ViewSpec => [](NoBootstrap => SettledInv /\ ListInv)
<1>1. ViewSpec => [](ViewTypeInv /\ (NoBootstrap => LostInv /\ SettledInv))
    BY ViewImplementsDocIndex, SettledInvariant, ViewTypeInvariant, PTL
<1>2. ViewTypeInv /\ [ViewNext]_allVars /\ NoBootstrap' => NoBootstrap
    BY ViewStep, BootstrapBegun DEF ViewTypeInv, TypeInv
<1>3. ViewTypeInv /\ ViewTypeInv' /\ (NoBootstrap => LostInv /\ SettledInv)
        /\ (NoBootstrap => ListInv) /\ [ViewNext]_allVars
      => (NoBootstrap => ListInv)'
    BY <1>2, ListKept
<1> QED
    BY <1>1, <1>3, ListStart, PTL DEF ViewSpec

\* When every job and request has ended well and nothing is on its way to it,
\* the file list shows the stored status of each document it holds, unless it
\* has missed an event and was not loaded again: events, loads, saves, retries
\* and restarts of the process may have come in any order.  The worker must have
\* been the only one to index, and no citation validation may have written an
\* older status back, as in QuietIsSettledHolds.
THEOREM ListSettlesHolds ==
    ASSUME "validate" \notin Ops
    PROVE  ViewSpec => [](NoBootstrap => ListSettles)
<1>1. SettledInv /\ ListInv => ListSettles
    <2> SUFFICES ASSUME SettledInv, ListInv, Quiet, NothingDue, stream = <<>>, ~missed,
                        NEW n \in Nodes, Live(n), list[n] # Unknown
                 PROVE  list[n] = status[n]
        BY DEF ListSettles
    <2>1. /\ \A r \in Requests : pc[r] \in {"idle", "done"}
          /\ \A r \in Requests : job[<<r, n>>] \in {"none", "completed"}
        BY DEF Quiet
    <2>2. ~StatusOwed(n)
        BY <2>1 DEF StatusOwed, OwingJob, Unfinished, WritePc
    <2>3. ~Telling(n)
        BY DEF NothingDue, Telling
    <2>4. list[n] = "indexed"
        BY <2>2, <2>3, EndsEmpty DEF ListInv, Informed
    <2>5. status[n] = "indexed"
        BY <2>2 DEF SettledInv
    <2> QED
        BY <2>4, <2>5
<1>2. CASE Nodes = {}
    <2>1. ListSettles
        BY <1>2 DEF ListSettles
    <2> QED
        BY <2>1, PTL
<1>3. CASE Nodes # {}
    <2>1. ViewSpec => [](NoBootstrap => SettledInv /\ ListInv)
        BY <1>3, ListInvariant
    <2> QED
        BY <1>1, <2>1, PTL
<1> QED
    BY <1>2, <1>3

-----------------------------------------------------------------------------
(* What a search finds.                                                     *)

\* A run is replacing the rows of its document.
Replacing == {"read", "delete", "insert", "commit"}

\* What the worker knows of the rows it replaces, and how far it has come with
\* their points.
WorkerKnows ==
    /\ pc[Worker] \notin Replacing => known[Worker].at = "done"
    /\ pc[Worker] = "read" => known[Worker].at = "list"
    /\ pc[Worker] = "delete" => known[Worker].at \in {"list", "listed"}
    /\ pc[Worker] = "insert" => known[Worker].at = "listed"
    /\ pc[Worker] = "commit" => known[Worker].at \in {"drop", "upsert", "done"}
    /\ known[Worker].at \in {"list", "upsert", "done"} => known[Worker].old = {}
    /\ pc[Worker] = "delete" /\ known[Worker].at = "listed"
         => known[Worker].old = RowIds(on[Worker])
    /\ pc[Worker] = "commit" /\ known[Worker].at \in {"drop", "upsert"}
         => known[Worker].new = RowIds(on[Worker])
    /\ \A id \in known[Worker].old : id[1] = on[Worker]
    /\ pc[Worker] \in Replacing /\ known[Worker].at # "done" => run[Worker].at = "list"
    /\ pc[Worker] = "mark" => run[Worker].at = "list"

\* No point is left behind without a reason.
PointsKnown ==
    \A id \in points :
        \/ id \in AllRows \/ row[id[1]] = "gone"
        \/ \E l \in leaky : l[1] = id[1]
        \/ id \in known[Worker].old

\* The worker has still to store the points of n.
Behind(n) ==
    /\ on[Worker] = n
    /\ \/ pc[Worker] \in {"start", "mark", "read", "delete", "insert"}
       \/ pc[Worker] = "commit" /\ known[Worker].at # "done"

\* The points of the rows are there or will be.
PointsThere ==
    \A n \in Nodes : row[n] # "gone" => Owed(n) \/ Behind(n) \/ RowIds(n) \subseteq points

PointInv ==
    Separate => /\ WorkerKnows
                /\ \A r \in Requests : known[r] = Through
                /\ IsFiniteSet(points) /\ PointsKnown /\ PointsThere

\* Of the documents that stay settled the search has all rows so far.
FoundInv ==
    /\ IsFiniteSet(search.hits)
    /\ \A n \in search.settled :
         /\ Settled(n)
         /\ search.at = "chunks" => search.crowded \/ RowIds(n) \subseteq search.near
         /\ search.at \in {"nodes", "final", "done"}
              => search.crowded \/ RowIds(n) \subseteq search.hits

\* There are finitely many rows.
LEMMA RowsFinite ==
    ASSUME IsFiniteSet(Nodes), TypeOK, WholeVersion
    PROVE  /\ \A n \in Nodes : IsFiniteSet(RowIds(n))
           /\ IsFiniteSet(AllRows)
<1>1. ASSUME NEW n \in Nodes PROVE IsFiniteSet(RowIds(n))
    <2>1. CASE chunks[n] = {}
        <3>1. RowIds(n) = {}
            BY <2>1 DEF RowIds
        <3> QED
            BY <3>1, FS_EmptySet
    <2>2. ASSUME NEW c \in Contents, chunks[n] = Rows(c) PROVE IsFiniteSet(RowIds(n))
        <3> DEFINE S == 0 .. (ChunkCount[c] - 1)
                   f == [k \in S |-> <<n, ids[n], k>>]
        <3>0. ChunkCount[c] - 1 \in Int
            BY ContentAssumption
        <3>1. IsFiniteSet(S)
            BY <3>0, FS_Interval
        <3>2. f \in Surjection(S, RowIds(n))
            <4>1. ASSUME NEW id \in RowIds(n) PROVE \E k \in S : f[k] = id
                <5>1. PICK x \in Rows(c) : id = <<n, ids[n], x[1]>>
                    BY <2>2 DEF RowIds
                <5>2. PICK k \in S : x = <<k, c>>
                    BY <5>1 DEF Rows
                <5> QED
                    BY <5>1, <5>2
            <4>2. ASSUME NEW k \in S PROVE f[k] \in RowIds(n)
                <5>1. <<k, c>> \in chunks[n]
                    BY <2>2 DEF Rows
                <5>2. <<k, c>>[1] = k
                    OBVIOUS
                <5> QED
                    BY <5>1, <5>2 DEF RowIds
            <4> QED
                BY <4>1, <4>2 DEF Surjection
        <3> QED
            BY <3>1, <3>2, FS_Surjection
    <2> QED
        BY <2>1, <2>2 DEF WholeVersion
<1>2. IsFiniteSet(AllRows)
    <2> DEFINE T == {RowIds(n) : n \in Nodes}
               f == [n \in Nodes |-> RowIds(n)]
    <2>1. f \in Surjection(Nodes, T)
        BY DEF Surjection
    <2>2. IsFiniteSet(T)
        BY <2>1, FS_Surjection
    <2> HIDE DEF f
    <2>3. \A R \in T : IsFiniteSet(R)
        BY <1>1
    <2> HIDE DEF T
    <2>4. IsFiniteSet(UNION T)
        BY <2>2, <2>3, FS_UNION
    <2> QED
        BY <2>4 DEF AllRows, T
<1> QED
    BY <1>1, <1>2

\* If no more are asked for than there are, the best are all.
LEMMA BestIsAll ==
    ASSUME NEW S, IsFiniteSet(S), NEW best \in Best(S), Cardinality(S) <= Limit
    PROVE  best = S
<1>1. Cardinality(S) \in Nat
    BY FS_CardinalityType
<1>2. best \in SUBSET S /\ Cardinality(best) = Cardinality(S)
    BY <1>1, SearchAssumption DEF Best, kSubset
<1> QED
    BY <1>2, FS_Subset

\* A row that is gone stays gone.
LEMMA GoneStays ==
    ASSUME TypeInv, [Next]_vars, NEW n \in Nodes, row[n] = "gone"
    PROVE  row'[n] = "gone"
<1>1. row \in [Nodes -> {"absent", "live", "gone"}]
    BY DEF TypeInv, TypeOK
<1>2. ASSUME NEW r \in Requests, Begin(r) PROVE row'[n] = "gone"
    BY <1>1, <1>2 DEF Begin, StartSave, StartCreate, StartDelete, StartValidate, StartSweep,
       nodeVars
<1>3. ASSUME NEW r \in Requests, Continue(r) \/ MirrorFails(r) PROVE row'[n] = "gone"
    BY <1>1, <1>3 DEF Continue, Put, Update, Mirror, Meta, Unlink, DeleteBlob, DeleteRow,
       WriteValidation, SweepSend, MirrorFails, nodeVars
<1>4. ASSUME NEW p \in Procs, Index(p) \/ IndexThrows(p) \/ IndexEscapes(p) PROVE row'[n] = "gone"
    BY <1>4 DEF Index, IndexStart, IndexMark, IndexRead, IndexDelete, IndexInsert, IndexCommit,
       IndexStats, IndexThrows, IndexEscapes, Catch, nodeVars
<1>5. ASSUME NEW ok, FinishJob(ok) PROVE row'[n] = "gone"
    BY <1>5 DEF FinishJob, nodeVars
<1>6. ASSUME NEW j \in Jobs,
             \/ Send(j) \/ Fetch(j) \/ Expire(j) \/ SendFails(j)
             \/ RetryFailedJob(j) \/ DeleteFailedJob(j)
      PROVE  row'[n] = "gone"
    BY <1>6 DEF Send, Fetch, Expire, SendFails, RetryFailedJob, DeleteFailedJob, nodeVars
<1>7. CASE Crash
    BY <1>7 DEF Crash, nodeVars
<1>8. CASE UNCHANGED vars
    BY <1>8 DEF vars, nodeVars
<1> QED
    BY <1>2, <1>3, <1>4, <1>5, <1>6, <1>7, <1>8 DEF Next, Failure, Operator

\* The steps of a run of the worker on n, with the rows and what it knows of them.
Begun(n) ==
    /\ pc[Worker] = "mark" /\ pc'[Worker] = "read" /\ on'[Worker] = n
    /\ run'[Worker].at = "list"
    /\ known' = [known EXCEPT ![Worker] = [Through EXCEPT !.at = "list"]]
    /\ UNCHANGED <<chunks, ids>>

Emptied(n) ==
    /\ pc[Worker] = "delete" /\ pc'[Worker] = "insert" /\ on'[Worker] = n
    /\ known[Worker].at = "listed"
    /\ chunks' = [chunks EXCEPT ![n] = {}]
    /\ UNCHANGED <<run, known, ids>>

Filled(n) ==
    /\ pc[Worker] = "insert" /\ pc'[Worker] = "commit" /\ on'[Worker] = n
    /\ known' = [known EXCEPT ![Worker] = [@ EXCEPT !.at = "drop", !.new = RowIds(n)']]
    /\ \A m \in Nodes \ {n} : RowIds(m)' = RowIds(m)
    /\ UNCHANGED run

CutOff(n) ==
    /\ pc[Worker] \in Replacing /\ pc'[Worker] = "idle"
    /\ known' = [known EXCEPT ![Worker] = Through]
    /\ HalfWay(Worker) => <<n, "cut">> \in leaky'
    /\ UNCHANGED <<chunks, ids>>

Onwards(n) ==
    /\ \/ /\ pc[Worker] \notin Replacing /\ pc'[Worker] \notin Replacing
          /\ pc'[Worker] = "mark" => run'[Worker].at = "list"
       \/ pc[Worker] = "read" /\ pc'[Worker] = "delete" /\ on'[Worker] = n /\ run' = run
       \/ /\ pc[Worker] = "commit" /\ known[Worker].at = "done"
          /\ pc'[Worker] \in {"commit", "stats"}
    /\ UNCHANGED <<known, chunks, ids>>

\* The ids of the rows p inserts.
NewIds(p) == {<<on[p], ids[on[p]] + 1, x[1]>> : x \in Rows(val[p])}

\* What a run adds to its steps in IndexView, with a vector store of its own.
LEMMA IndexesKnown ==
    ASSUME SearchTypeInv, Separate, NEW p \in Procs, Indexes(p), NEW n, n = on[p]
    PROVE  /\ Begins(p) => known' = [known EXCEPT ![p] = [Through EXCEPT !.at = "list"]]
           /\ Inserts(p) => known' = [known EXCEPT ![p] = [@ EXCEPT !.at = "drop", !.new = NewIds(p)]]
           /\ Throws(p) => known' = [known EXCEPT ![p] = Through]
           /\ ~Begins(p) /\ ~Inserts(p) /\ ~Throws(p) => known' = known
           /\ Throws(p) /\ HalfWay(p) => <<n, "cut">> \in leaky'
           /\ Deletes(p) => known[p].at = "listed"
           /\ ListsFiles(p) => known[p].at = "done"
           /\ ~Inserts(p) => ids' = ids
           /\ Inserts(p) =>
                 IF Rows(val[p]) = {} THEN ids' = ids
                   ELSE ids' = [ids EXCEPT ![n] = @ + 1]
           /\ leaky \subseteq leaky' /\ points' = points
<1>1. Searched
    BY DEF Searched, Separate
<1>2. known \in [Procs -> [at: RunPlaces, old: SUBSET Id, new: SUBSET Id]]
    BY DEF SearchTypeInv, IndexedOK
<1>3. PICK new : new = {<<n, ids[n] + 1, x[1]>> : x \in Rows(val[p])} /\ new = NewIds(p)
    BY DEF NewIds
<1>4. known' = [known EXCEPT ![p] =
                  CASE Begins(p) -> [Through EXCEPT !.at = "list"]
                    [] Inserts(p) -> [@ EXCEPT !.at = "drop", !.new = new]
                    [] Throws(p) -> Through
                    [] OTHER -> @]
    BY <1>1, <1>3 DEF Indexes
<1>5. /\ ~Begins(p) \/ ~Inserts(p)
      /\ ~Begins(p) \/ ~Throws(p)
      /\ ~Inserts(p) \/ ~Throws(p)
    BY DEF Begins, Inserts, Throws, IndexPc
<1>6. Begins(p) => known' = [known EXCEPT ![p] = [Through EXCEPT !.at = "list"]]
    BY <1>4, <1>5
<1>7. Inserts(p) => known' = [known EXCEPT ![p] = [@ EXCEPT !.at = "drop", !.new = new]]
    BY <1>4, <1>5
<1>8. Throws(p) => known' = [known EXCEPT ![p] = Through]
    BY <1>4, <1>5
<1>9. ~Begins(p) /\ ~Inserts(p) /\ ~Throws(p) => known' = known
    <2>1. ~Begins(p) /\ ~Inserts(p) /\ ~Throws(p) => known' = [known EXCEPT ![p] = @]
        BY <1>4
    <2> QED
        BY <1>2, <2>1
<1>10. /\ leaky' = leaky \cup ({n} \X Leaks(p))
       /\ points' = points
       /\ Deletes(p) => known[p].at = "listed"
       /\ ListsFiles(p) => known[p].at = "done"
       /\ IF Inserts(p) /\ new # {} THEN ids' = [ids EXCEPT ![n] = @ + 1] ELSE ids' = ids
    BY <1>1, <1>3 DEF Indexes
<1>11. Throws(p) /\ HalfWay(p) => "cut" \in Leaks(p)
    BY DEF Leaks
<1>12. new = {} <=> Rows(val[p]) = {}
    BY <1>3
<1> QED
    BY <1>3, <1>6, <1>7, <1>8, <1>9, <1>10, <1>11, <1>12

\* A run of indexNode is one of the worker's, and takes one of these steps.
LEMMA IndexesShape ==
    ASSUME ViewTypeInv, SearchTypeInv, LostInv, Separate, WorkerKnows,
           NEW p \in Procs, Indexes(p), NEW n, n = on[Worker]
    PROVE  /\ p = Worker /\ n \in Nodes /\ leaky \subseteq leaky' /\ points' = points
           /\ UNCHANGED <<row>>
           /\ \A q \in Requests : known'[q] = known[q]
           /\ Begun(n) \/ Emptied(n) \/ Filled(n) \/ CutOff(n) \/ Onwards(n)
<1>1. RunTells(p)
    BY DEF Indexes
<1>2. pc[p] \in IndexPc
    BY <1>1 DEF RunTells, RunStart, IndexStart, IndexMark, IndexRead, IndexInsert, IndexDelete,
       IndexStats,
       ListFiles, ClearLinks, InsertLinks, PatchIncoming, Doing, RunFails, RunEscapes,
       IndexThrows, IndexEscapes,
       IndexPc
<1>3. p = Worker /\ n \in Nodes
    BY <1>2, WorkerRuns DEF LostInv
<1> USE <1>3
<1>4. /\ pc \in [Procs -> Pc] /\ on \in [Procs -> Nodes \cup {NoNode}]
      /\ val \in [Procs -> Contents \cup {NoContent}]
      /\ chunks \in [Nodes -> SUBSET (Nat \X Contents)]
      /\ run \in [Procs -> [at: Steps, path: FilePaths, rows: SUBSET Link]]
      /\ known \in [Procs -> [at: RunPlaces, old: SUBSET Id, new: SUBSET Id]]
      /\ ids \in [Nodes -> 0 .. MaxRows]
      /\ Worker \in Procs /\ Worker \notin Requests
    BY ProcAssumption DEF ViewTypeInv, ViewTypeOK, LinkTypeOK, TypeInv, TypeOK, SearchTypeInv,
       IndexedOK
<1>5. Indexes(Worker) /\ Worker \in Procs /\ n = on[Worker]
    OBVIOUS
<1>51. Begins(Worker) => known' = [known EXCEPT ![Worker] = [Through EXCEPT !.at = "list"]]
    BY <1>5, IndexesKnown
<1>52. Inserts(Worker) => known' = [known EXCEPT ![Worker] = [@ EXCEPT !.at = "drop", !.new = NewIds(Worker)]]
    BY <1>5, IndexesKnown
<1>53. /\ Throws(Worker) => known' = [known EXCEPT ![Worker] = Through]
       /\ Throws(Worker) /\ HalfWay(Worker) => <<n, "cut">> \in leaky'
    BY <1>5, IndexesKnown
<1>54. ~Begins(Worker) /\ ~Inserts(Worker) /\ ~Throws(Worker) => known' = known
    BY <1>5, IndexesKnown
<1>55. /\ Deletes(Worker) => known[Worker].at = "listed"
       /\ ListsFiles(Worker) => known[Worker].at = "done"
    BY <1>5, IndexesKnown
<1>56. /\ ~Inserts(Worker) => ids' = ids
       /\ Inserts(Worker) => IF Rows(val[Worker]) = {} THEN ids' = ids
                               ELSE ids' = [ids EXCEPT ![n] = @ + 1]
    BY <1>5, IndexesKnown
<1>57. leaky \subseteq leaky' /\ points' = points
    BY <1>5, IndexesKnown
<1>6. ASSUME NEW q \in Requests PROVE known'[q] = known[q]
    <2>1. \/ known' = known
          \/ \E k : known' = [known EXCEPT ![Worker] = k]
        BY <1>51, <1>52, <1>53, <1>54
    <2> QED
        BY <1>4, <2>1
<1>7. row' = row
    BY <1>1 DEF RunTells, RunStart, IndexStart, IndexMark, IndexRead, IndexInsert, IndexDelete,
       IndexStats,
       ListFiles, ClearLinks, InsertLinks, PatchIncoming, RunFails, RunEscapes, IndexThrows,
       IndexEscapes, IndexCommit,
       Catch, vars, nodeVars
<1> DEFINE Goal == Begun(n) \/ Emptied(n) \/ Filled(n) \/ CutOff(n) \/ Onwards(n)
<1> SUFFICES Goal
    BY <1>57, <1>6, <1>7
<1> HIDE DEF Goal
\* A run that ends badly.
<1>8. ASSUME pc[Worker] \in Replacing, Return(Worker, FALSE), chunks' = chunks PROVE Goal
    <2>1. pc'[Worker] = "idle"
        BY <1>4, <1>8 DEF Return, Goto
    <2>2. Throws(Worker) /\ ~Inserts(Worker)
        BY <1>8, <2>1 DEF Throws, Inserts, Replacing, IndexPc
    <2>3. CutOff(n)
        BY <1>53, <1>56, <1>8, <2>1, <2>2 DEF CutOff
    <2> QED
        BY <2>3 DEF Goal
<1>9. ASSUME pc[Worker] \notin Replacing, pc'[Worker] \notin Replacing, chunks' = chunks,
             pc'[Worker] = "mark" => run'[Worker].at = "list", ~Throws(Worker)
      PROVE  Goal
    <2>1. ~Begins(Worker) /\ ~Inserts(Worker)
        BY <1>9 DEF Begins, Inserts, Replacing
    <2>2. Onwards(n)
        BY <1>54, <1>56, <1>9, <2>1 DEF Onwards
    <2> QED
        BY <2>2 DEF Goal
<1>10. CASE RunStart(Worker)
    <2>1. chunks' = chunks /\ pc[Worker] = "start" /\ run'[Worker].at = "list"
        BY <1>4, <1>10 DEF RunStart, IndexStart, Started
    <2>2. pc'[Worker] \in {"mark", "idle"}
        BY <1>4, <1>10 DEF RunStart, IndexStart, Return, Goto
    <2>3. pc[Worker] \notin Replacing /\ pc'[Worker] \notin Replacing /\ ~Throws(Worker)
        BY <2>1, <2>2 DEF Replacing, Throws
    <2> QED
        BY <1>9, <2>1, <2>3
<1>101. CASE IndexMark(Worker) /\ LinksStay
    <2>1. /\ chunks' = chunks /\ run' = run /\ pc[Worker] = "mark" /\ pc'[Worker] = "read"
          /\ on'[Worker] = n
        BY <1>4, <1>101 DEF IndexMark, Goto, LinksStay, linkVars
    <2>2. run'[Worker].at = "list"
        BY <2>1 DEF WorkerKnows
    <2>3. Begins(Worker) /\ ~Inserts(Worker)
        BY <2>1 DEF Begins, Inserts
    <2>4. Begun(n)
        BY <1>51, <1>56, <2>1, <2>2, <2>3 DEF Begun
    <2> QED
        BY <2>4 DEF Goal
<1>11. CASE IndexRead(Worker) /\ LinksStay
    <2>1. pc[Worker] = "read" /\ chunks' = chunks /\ run' = run
        BY <1>11 DEF IndexRead, Catch, LinksStay, linkVars
    <2>2. CASE blob[on[Worker]] # NoContent
        <3>1. pc'[Worker] = "delete" /\ on'[Worker] = n
            BY <1>4, <1>11, <2>2 DEF IndexRead, Goto
        <3>2. ~Begins(Worker) /\ ~Inserts(Worker) /\ ~Throws(Worker)
            BY <2>1, <3>1 DEF Begins, Inserts, Throws, IndexPc
        <3>3. Onwards(n)
            BY <1>54, <1>56, <2>1, <3>1, <3>2 DEF Onwards, Replacing
        <3> QED
            BY <3>3 DEF Goal
    <2>3. CASE blob[on[Worker]] = NoContent
        <3>1. pc[Worker] \in Replacing
            BY <2>1 DEF Replacing
        <3>2. Return(Worker, FALSE)
            BY <1>11, <2>3 DEF IndexRead, Catch
        <3> QED
            BY <1>8, <2>1, <3>1, <3>2
    <2> QED
        BY <2>2, <2>3
<1>12. CASE IndexInsert(Worker) /\ LinksStay
    <2>1. pc[Worker] = "insert" /\ run' = run
        BY <1>12 DEF IndexInsert, LinksStay, linkVars
    <2>2. CASE Collides(on[Worker], val[Worker])
        <3>1. pc[Worker] \in Replacing
            BY <2>1 DEF Replacing
        <3>2. Return(Worker, FALSE) /\ chunks' = chunks
            BY <1>12, <2>2 DEF IndexInsert, Catch
        <3> QED
            BY <1>8, <3>1, <3>2
    <2>3. CASE ~Collides(on[Worker], val[Worker])
        <3>1. /\ pc'[Worker] = "commit" /\ on'[Worker] = n
              /\ chunks' = [chunks EXCEPT ![n] = @ \cup Rows(val[Worker])]
            BY <1>4, <1>12, <2>3 DEF IndexInsert, Goto
        <3>2. Inserts(Worker)
            BY <2>1, <3>1 DEF Inserts
        <3>3. chunks[n] = {}
            BY <2>1 DEF LostInv, Progress
        <3>4. chunks'[n] = Rows(val[Worker])
            BY <1>4, <3>1, <3>3
        <3>5. RowIds(n)' = NewIds(Worker)
            <4>1. RowIds(n)' = {<<n, ids'[n], x[1]>> : x \in Rows(val[Worker])}
                BY <3>4 DEF RowIds
            <4>2. CASE Rows(val[Worker]) = {}
                BY <4>1, <4>2 DEF NewIds
            <4>3. CASE Rows(val[Worker]) # {}
                <5>1. ids'[n] = ids[n] + 1
                    BY <1>4, <1>56, <3>2, <4>3
                <5> QED
                    BY <4>1, <5>1 DEF NewIds
            <4> QED
                BY <4>2, <4>3
        <3>6. ASSUME NEW m \in Nodes \ {n} PROVE RowIds(m)' = RowIds(m)
            <4>1. ids'[m] = ids[m] /\ chunks'[m] = chunks[m]
                BY <1>4, <1>56, <3>1, <3>2
            <4> QED
                BY <4>1 DEF RowIds
        <3>7. Filled(n)
            <4>1. known' = [known EXCEPT ![Worker] = [@ EXCEPT !.at = "drop", !.new = RowIds(n)']]
                BY <1>52, <3>2, <3>5
            <4> QED
                BY <2>1, <3>1, <3>6, <4>1 DEF Filled
        <3> QED
            BY <3>7 DEF Goal
    <2> QED
        BY <2>2, <2>3
<1>13. CASE IndexDelete(Worker) /\ LinksStay
    <2>1. /\ pc[Worker] = "delete" /\ pc'[Worker] = "insert" /\ on'[Worker] = n
          /\ chunks' = [chunks EXCEPT ![n] = {}] /\ run' = run
        BY <1>4, <1>13 DEF IndexDelete, Goto, LinksStay, linkVars
    <2>2. Deletes(Worker) /\ ~Begins(Worker) /\ ~Inserts(Worker) /\ ~Throws(Worker)
        BY <2>1 DEF Deletes, Begins, Inserts, Throws, IndexPc
    <2>3. Emptied(n)
        BY <1>54, <1>55, <1>56, <2>1, <2>2 DEF Emptied
    <2> QED
        BY <2>3 DEF Goal
<1>14. CASE IndexStats(Worker) /\ LinksStay
    <2>1. pc[Worker] = "stats" /\ pc'[Worker] = "schedule" /\ chunks' = chunks
        BY <1>4, <1>14 DEF IndexStats, Goto
    <2>2. pc[Worker] \notin Replacing /\ pc'[Worker] \notin Replacing /\ ~Throws(Worker)
        BY <2>1 DEF Replacing, Throws
    <2> QED
        BY <1>9, <2>1, <2>2
<1>15. CASE ListFiles(Worker) \/ ClearLinks(Worker) \/ InsertLinks(Worker) \/ PatchIncoming(Worker)
    <2>1. pc[Worker] = "commit" /\ pc'[Worker] = "commit" /\ chunks' = chunks
        BY <1>15 DEF ListFiles, ClearLinks, InsertLinks, PatchIncoming, Doing, vars, procVars
    <2>2. ~Begins(Worker) /\ ~Inserts(Worker) /\ ~Throws(Worker)
        BY <2>1 DEF Begins, Inserts, Throws, IndexPc
    <2>3. known[Worker].at = "done"
        <3>1. CASE ListFiles(Worker)
            <4>1. ListsFiles(Worker)
                BY <1>4, <3>1 DEF ListFiles, ListsFiles, Doing
            <4> QED
                BY <1>55, <4>1
        <3>2. CASE ~ListFiles(Worker)
            <4>1. run[Worker].at # "list"
                BY <1>15, <3>2 DEF ClearLinks, InsertLinks, PatchIncoming, Doing
            <4> QED
                BY <2>1, <4>1 DEF WorkerKnows, Replacing
        <3> QED
            BY <3>1, <3>2
    <2>4. Onwards(n)
        BY <1>54, <1>56, <2>1, <2>2, <2>3 DEF Onwards
    <2> QED
        BY <2>4 DEF Goal
<1>16. CASE Doing(Worker, "ready") /\ IndexCommit(Worker)
    <2>1. /\ pc[Worker] = "commit" /\ pc'[Worker] = "stats" /\ chunks' = chunks
          /\ run[Worker].at # "list"
        BY <1>4, <1>16 DEF Doing, IndexCommit, Goto
    <2>2. ~Begins(Worker) /\ ~Inserts(Worker) /\ ~Throws(Worker)
        BY <2>1 DEF Begins, Inserts, Throws, IndexPc
    <2>3. known[Worker].at = "done"
        BY <2>1 DEF WorkerKnows, Replacing
    <2>4. Onwards(n)
        BY <1>54, <1>56, <2>1, <2>2, <2>3 DEF Onwards
    <2> QED
        BY <2>4 DEF Goal
<1>17. CASE RunFails(Worker) \/ RunEscapes(Worker)
    <2>1. Return(Worker, FALSE) /\ chunks' = chunks
        BY <1>17 DEF RunFails, RunEscapes, IndexThrows, IndexEscapes, Catch
    <2>2. CASE pc[Worker] \in Replacing
        BY <1>8, <2>1, <2>2
    <2>3. CASE pc[Worker] \notin Replacing
        <3>1. pc[Worker] \in {"start", "mark", "stats"} /\ pc'[Worker] = "idle"
            BY <1>4, <1>17, <2>1, <2>3 DEF RunFails, RunEscapes, IndexThrows, IndexEscapes,
               IndexPc, Replacing, Return, Goto
        <3>2. /\ pc[Worker] \notin Replacing /\ pc'[Worker] \notin Replacing /\ ~Throws(Worker)
              /\ pc'[Worker] # "mark"
            BY <3>1 DEF Replacing, Throws
        <3> QED
            BY <1>9, <2>1, <3>2
    <2> QED
        BY <2>2, <2>3
<1> QED
    BY <1>1, <1>10, <1>101, <1>11, <1>12, <1>13, <1>14, <1>15, <1>16, <1>17 DEF RunTells

\* The steps of everybody else leave rows and points alone, and the run too.
OthersStep ==
    /\ UNCHANGED <<chunks, ids, known, points, leaky, run>>
    /\ \/ pc'[Worker] = pc[Worker] /\ on'[Worker] = on[Worker]
       \/ pc[Worker] \in {"idle", "schedule"} /\ pc'[Worker] \in {"idle", "start"}

\* Calls, requests, the queue, the hub and the browser take such steps.
LEMMA OtherwiseShape ==
    ASSUME ViewTypeInv, LostInv, Otherwise
    PROVE  OthersStep
<1> DEFINE Goal ==
        /\ UNCHANGED <<chunks, run>>
        /\ \/ pc'[Worker] = pc[Worker] /\ on'[Worker] = on[Worker]
           \/ pc[Worker] \in {"idle", "schedule"} /\ pc'[Worker] \in {"idle", "start"}
<1> SUFFICES Goal
    BY DEF Otherwise, indexedVars, OthersStep
<1>1. /\ pc \in [Procs -> Pc] /\ on \in [Procs -> Nodes \cup {NoNode}]
      /\ Worker \in Procs /\ Worker \notin Requests
    BY ProcAssumption DEF ViewTypeInv, TypeInv, TypeOK
<1>2. ASSUME NEW r \in Requests, CallTells(r) PROVE Goal
    <2>1. run' = run /\ Begin(r)
        BY <1>2, CallBegins DEF ViewTypeInv, CallTells, Called, CreateAt, ReindexAll, LinksStay,
           linkVars
    <2> QED
        BY <1>1, <2>1 DEF Begin, StartSave, StartCreate, StartDelete, StartValidate,
           StartSweep, Goto
<1>3. ASSUME NEW r \in Requests, RequestTells(r) PROVE Goal
    <2>1. run' = run /\ Continue(r)
        BY <1>3 DEF RequestTells, RequestStep, RemoveRow, Continue, LinksStay, linkVars
    <2> QED
        BY <1>1, <2>1 DEF Continue, Put, Update, Mirror, Meta, Unlink, DeleteBlob, DeleteRow,
           WriteValidation, SweepSend, Goto
<1>4. CASE Browser \/ (\E p \in Procs : Publish(p)) \/ RenameTells
    <2>1. UNCHANGED vars
        BY <1>4, ViewSteps
    <2>2. run' = run
        BY <1>4 DEF Browser, OpenStream, CloseStream, StartLoad, ShowEvent, FinishLoad,
           Publish, RenameTells, Renamed, Rename, linkVars
    <2> QED
        BY <2>1, <2>2 DEF vars, procVars
<1>5. ASSUME NEW ok \in BOOLEAN, FinishTells(ok) PROVE Goal
    <2>1. FinishJob(ok) /\ run' = run
        BY <1>5 DEF FinishTells, Finished, LinksStay, linkVars
    <2> QED
        BY <1>1, <2>1 DEF FinishJob, Return, Goto
<1>6. ASSUME NEW j \in Jobs, QueueTells(j) \/ SendTells(j) PROVE Goal
    <2>1. /\ \/ Fetch(j) \/ Expire(j) \/ RetryFailedJob(j) \/ DeleteFailedJob(j)
             \/ Send(j) \/ SendFails(j)
          /\ run' = run
        BY <1>6 DEF QueueTells, SendTells, Queue, Sent, LinksStay, linkVars
    <2>2. CASE Fetch(j)
        BY <1>1, <2>1, <2>2 DEF Fetch, Goto
    <2>3. CASE \/ Expire(j) \/ RetryFailedJob(j) \/ DeleteFailedJob(j)
               \/ Send(j) \/ SendFails(j)
        BY <1>1, <2>1, <2>3 DEF Expire, RetryFailedJob, DeleteFailedJob, Send, SendFails, procVars
    <2> QED
        BY <2>1, <2>2, <2>3
<1> QED
    BY <1>2, <1>3, <1>4, <1>5, <1>6 DEF Otherwise

\* Rows that are left alone keep their ids.
LEMMA SameRows ==
    ASSUME UNCHANGED <<chunks, ids>>
    PROVE  AllRows' = AllRows /\ \A n \in Nodes : RowIds(n)' = RowIds(n)
<1>1. \A n \in Nodes : RowIds(n)' = RowIds(n)
    BY DEF RowIds
<1> QED
    BY <1>1 DEF AllRows

\* What a step has to show to keep the points of all rows there.
LEMMA ThereStays ==
    ASSUME LostInv, LostInv', NoBootstrap, [Next]_vars, PointsThere,
           \A n \in Nodes : Live(n)' /\ RowIds(n) \subseteq points
              => Behind(n)' \/ RowIds(n)' \subseteq points',
           \A n \in Nodes : Live(n)' /\ Behind(n)
              => Owed(n)' \/ Behind(n)' \/ RowIds(n)' \subseteq points'
    PROVE  PointsThere'
<1> SUFFICES ASSUME NEW n \in Nodes, row'[n] # "gone"
             PROVE  (Owed(n) \/ Behind(n) \/ RowIds(n) \subseteq points)'
    BY DEF PointsThere
<1>1. CASE row'[n] = "absent"
    <2>1. chunks'[n] = {}
        BY <1>1 DEF LostInv, Born, Known
    <2>2. RowIds(n)' = {}
        BY <2>1 DEF RowIds
    <2> QED
        BY <2>2
<1>2. CASE row'[n] = "live"
    <2>1. Live(n)'
        BY <1>2 DEF Live
    <2>2. row[n] # "gone"
        BY <2>1, ContentChanges DEF LostInv
    <2>3. CASE Owed(n)
        <3>1. Owed(n)' \/ Fetched(n)
            BY <2>1, <2>3, OwedRemains
        <3> QED
            BY <3>1 DEF Fetched, Behind
    <2>4. CASE Behind(n)
        BY <2>1, <2>4
    <2>5. CASE RowIds(n) \subseteq points
        BY <2>1, <2>5
    <2> QED
        BY <2>2, <2>3, <2>4, <2>5 DEF PointsThere
<1>3. row' \in [Nodes -> {"absent", "live", "gone"}]
    BY DEF LostInv, TypeInv, TypeOK
<1> QED
    BY <1>1, <1>2, <1>3

\* What the worker knows stays true of every step of its run.
LEMMA KnowsRun ==
    ASSUME ViewTypeInv, SearchTypeInv, LostInv, Separate, WorkerKnows,
           NEW p \in Procs, Indexes(p)
    PROVE  WorkerKnows'
<1>1. PICK n : n = on[Worker]
    OBVIOUS
<1>2. /\ n \in Nodes
      /\ Begun(n) \/ Emptied(n) \/ Filled(n) \/ CutOff(n) \/ Onwards(n)
    BY <1>1, IndexesShape
<1>3. /\ known \in [Procs -> [at: RunPlaces, old: SUBSET Id, new: SUBSET Id]]
      /\ Worker \in Procs
    BY DEF SearchTypeInv, IndexedOK
<1>4. CASE Begun(n)
    <2>1. known'[Worker].at = "list" /\ known'[Worker].old = {}
        BY <1>3, <1>4 DEF Begun, Through
    <2> QED
        BY <1>4, <2>1 DEF Begun, WorkerKnows, Replacing
<1>5. CASE Emptied(n)
    BY <1>1, <1>5 DEF Emptied, WorkerKnows, Replacing
<1>6. CASE Filled(n)
    <2>1. /\ known'[Worker].at = "drop" /\ known'[Worker].old = known[Worker].old
          /\ known'[Worker].new = RowIds(n)'
        BY <1>3, <1>6 DEF Filled
    <2>2. RowIds(on[Worker])' = RowIds(n)'
        BY <1>6 DEF Filled, RowIds
    <2>3. run'[Worker].at = "list" /\ \A id \in known'[Worker].old : id[1] = on'[Worker]
        BY <1>1, <1>6, <2>1 DEF Filled, WorkerKnows, Replacing
    <2> QED
        BY <1>6, <2>1, <2>2, <2>3 DEF Filled, WorkerKnows, Replacing
<1>7. CASE CutOff(n)
    <2>1. known'[Worker].at = "done" /\ known'[Worker].old = {}
        BY <1>3, <1>7 DEF CutOff, Through
    <2> QED
        BY <1>7, <2>1 DEF CutOff, WorkerKnows, Replacing
<1>8. CASE Onwards(n)
    <2>1. CASE pc[Worker] \notin Replacing /\ pc'[Worker] \notin Replacing
        BY <1>8, <2>1 DEF Onwards, WorkerKnows, Replacing
    <2>2. CASE pc[Worker] = "read" /\ pc'[Worker] = "delete" /\ on'[Worker] = n /\ run' = run
        BY <1>8, <2>2 DEF Onwards, WorkerKnows, Replacing
    <2>3. CASE /\ pc[Worker] = "commit" /\ known[Worker].at = "done"
               /\ pc'[Worker] \in {"commit", "stats"}
        BY <1>8, <2>3 DEF Onwards, WorkerKnows, Replacing
    <2> QED
        BY <1>8, <2>1, <2>2, <2>3 DEF Onwards
<1> QED
    BY <1>2, <1>4, <1>5, <1>6, <1>7, <1>8

\* A row the worker is to delete the point of is there, or the run has left a mark
\* if it is cut off now.
LEMMA CutLeaks ==
    ASSUME WorkerKnows, NEW n \in Nodes, n = on[Worker], NEW id \in known[Worker].old
    PROVE  id[1] = n /\ (HalfWay(Worker) \/ id \in AllRows)
<1>1. id[1] = n
    BY DEF WorkerKnows
<1>2. known[Worker].at \notin {"list", "upsert", "done"}
    BY DEF WorkerKnows
<1>3. CASE pc[Worker] = "delete"
    <2>1. id \in RowIds(n)
        BY <1>2, <1>3 DEF WorkerKnows
    <2> QED
        BY <1>1, <2>1 DEF AllRows
<1>4. CASE pc[Worker] # "delete"
    BY <1>1, <1>2, <1>4 DEF WorkerKnows, Replacing, HalfWay
<1> QED
    BY <1>3, <1>4

\* A run loses track of no point.
LEMMA KnownRun ==
    ASSUME ViewTypeInv, SearchTypeInv, LostInv, [Next]_vars, Separate, WorkerKnows,
           PointsKnown, NEW p \in Procs, Indexes(p)
    PROVE  PointsKnown'
<1>1. PICK n : n = on[Worker]
    OBVIOUS
<1>2. /\ n \in Nodes /\ leaky \subseteq leaky' /\ points' = points /\ row' = row
      /\ Begun(n) \/ Emptied(n) \/ Filled(n) \/ CutOff(n) \/ Onwards(n)
    BY <1>1, IndexesShape
<1>3. /\ known \in [Procs -> [at: RunPlaces, old: SUBSET Id, new: SUBSET Id]]
      /\ Worker \in Procs
      /\ chunks \in [Nodes -> SUBSET (Nat \X Contents)]
    BY DEF SearchTypeInv, IndexedOK, ViewTypeInv, TypeInv, TypeOK
<1>4. ASSUME \A id \in AllRows \cup known[Worker].old :
                \/ id \in AllRows' \cup known'[Worker].old
                \/ id[1] = n /\ <<n, "cut">> \in leaky'
      PROVE  PointsKnown'
    <2> SUFFICES ASSUME NEW id \in points
                 PROVE  \/ id \in AllRows' \/ row'[id[1]] = "gone"
                        \/ \E l \in leaky' : l[1] = id[1]
                        \/ id \in known'[Worker].old
        BY <1>2 DEF PointsKnown
    <2>1. CASE row[id[1]] = "gone" \/ \E l \in leaky : l[1] = id[1]
        BY <1>2, <2>1
    <2>2. CASE id \in AllRows \cup known[Worker].old
        <3>1. id[1] = n /\ <<n, "cut">> \in leaky' => \E l \in leaky' : l[1] = id[1]
            OBVIOUS
        <3> QED
            BY <1>4, <2>2, <3>1
    <2> QED
        BY <2>1, <2>2 DEF PointsKnown
<1>5. CASE Begun(n)
    <2>1. known[Worker].old = {}
        BY <1>5 DEF Begun, WorkerKnows, Replacing
    <2>2. AllRows' = AllRows
        BY <1>5, SameRows DEF Begun
    <2> QED
        BY <1>4, <2>1, <2>2
<1>6. CASE Emptied(n)
    <2>1. known' = known /\ known[Worker].old = RowIds(n)
        BY <1>1, <1>6 DEF Emptied, WorkerKnows
    <2>2. ASSUME NEW m \in Nodes \ {n} PROVE RowIds(m)' = RowIds(m)
        BY <1>2, <1>3, <1>6 DEF Emptied, RowIds
    <2>3. ASSUME NEW id \in AllRows PROVE id \in AllRows' \/ id \in RowIds(n)
        <3>1. PICK m \in Nodes : id \in RowIds(m)
            BY DEF AllRows
        <3>2. CASE m # n
            BY <2>2, <3>1, <3>2 DEF AllRows
        <3> QED
            BY <3>1, <3>2
    <2> QED
        BY <1>4, <2>1, <2>3
<1>7. CASE Filled(n)
    <2>1. known'[Worker].old = known[Worker].old
        BY <1>3, <1>7 DEF Filled
    <2>2. chunks[n] = {}
        BY <1>1, <1>7 DEF Filled, LostInv, Progress
    <2>3. RowIds(n) = {}
        BY <2>2 DEF RowIds
    <2>4. ASSUME NEW id \in AllRows PROVE id \in AllRows'
        <3>1. PICK m \in Nodes : id \in RowIds(m)
            BY DEF AllRows
        <3>2. RowIds(m)' = RowIds(m)
            BY <1>7, <2>3, <3>1 DEF Filled
        <3> QED
            BY <3>1, <3>2 DEF AllRows
    <2> QED
        BY <1>4, <2>1, <2>4
<1>8. CASE CutOff(n)
    <2>1. AllRows' = AllRows
        BY <1>8, SameRows DEF CutOff
    <2>2. ASSUME NEW id \in known[Worker].old
          PROVE  id \in AllRows \/ (id[1] = n /\ <<n, "cut">> \in leaky')
        BY <1>1, <1>2, <1>8, CutLeaks DEF CutOff
    <2> QED
        BY <1>4, <2>1, <2>2
<1>9. CASE Onwards(n)
    <2>1. AllRows' = AllRows /\ known' = known
        BY <1>9, SameRows DEF Onwards
    <2> QED
        BY <1>4, <2>1
<1> QED
    BY <1>2, <1>5, <1>6, <1>7, <1>8, <1>9

\* A run that does not store its points is made good.
LEMMA ThereRun ==
    ASSUME ViewTypeInv, SearchTypeInv, LostInv, LostInv', NoBootstrap, [Next]_vars, Separate,
           WorkerKnows, PointsThere, NEW p \in Procs, Indexes(p)
    PROVE  PointsThere'
<1>1. PICK n : n = on[Worker]
    OBVIOUS
<1>2. /\ n \in Nodes /\ points' = points
      /\ Begun(n) \/ Emptied(n) \/ Filled(n) \/ CutOff(n) \/ Onwards(n)
    BY <1>1, IndexesShape
<1>3. /\ known \in [Procs -> [at: RunPlaces, old: SUBSET Id, new: SUBSET Id]]
      /\ Worker \in Procs
      /\ chunks \in [Nodes -> SUBSET (Nat \X Contents)]
    BY DEF SearchTypeInv, IndexedOK, ViewTypeInv, TypeInv, TypeOK
<1>4. ASSUME NEW m \in Nodes, RowIds(m) \subseteq points
      PROVE  Behind(m)' \/ RowIds(m)' \subseteq points'
    <2>1. CASE UNCHANGED <<chunks, ids>>
        BY <1>2, <1>4, <2>1, SameRows
    <2>2. CASE Emptied(n)
        <3>1. CASE m = n
            <4>1. chunks'[n] = {}
                BY <1>2, <1>3, <2>2 DEF Emptied
            <4>2. RowIds(m)' = {}
                BY <3>1, <4>1 DEF RowIds
            <4> QED
                BY <4>2
        <3>2. CASE m # n
            <4>1. RowIds(m)' = RowIds(m)
                BY <1>3, <2>2, <3>2 DEF Emptied, RowIds
            <4> QED
                BY <1>2, <1>4, <4>1
        <3> QED
            BY <3>1, <3>2
    <2>3. CASE Filled(n)
        <3>1. CASE m = n
            <4>1. known'[Worker].at = "drop"
                BY <1>3, <2>3 DEF Filled
            <4> QED
                BY <2>3, <3>1, <4>1 DEF Filled, Behind
        <3>2. CASE m # n
            BY <1>2, <1>4, <2>3, <3>2 DEF Filled
        <3> QED
            BY <3>1, <3>2
    <2> QED
        BY <1>2, <2>1, <2>2, <2>3 DEF Begun, CutOff, Onwards
<1>5. ASSUME NEW m \in Nodes, Behind(m)
      PROVE  Owed(m)' \/ Behind(m)'
    <2>1. m = n
        BY <1>1, <1>5 DEF Behind
    <2>2. CASE Begun(n) \/ Emptied(n)
        BY <2>1, <2>2 DEF Begun, Emptied, Behind
    <2>3. CASE Filled(n)
        <3>1. known'[Worker].at = "drop"
            BY <1>3, <2>3 DEF Filled
        <3> QED
            BY <2>1, <2>3, <3>1 DEF Filled, Behind
    <2>4. pc[Worker] \in IndexPc \ Closing
        BY <1>5 DEF Behind, IndexPc, Closing
    <2>5. CASE pc'[Worker] = "idle"
        <3>1. pc[Worker] # "idle"
            BY <2>4 DEF IndexPc
        <3>2. Owed(n)'
            BY <1>1, <2>4, <2>5, <3>1, WorkerYields
        <3> QED
            BY <2>1, <3>2
    <2>6. CASE Onwards(n) /\ pc'[Worker] # "idle"
        <3>1. CASE pc[Worker] \in {"start", "mark"} /\ pc'[Worker] \notin Replacing
            <4>1. on'[Worker] = n /\ pc'[Worker] \in {"start", "mark"}
                BY <1>1, <2>4, <2>6, <3>1, WorkerYields DEF Replacing
            <4> QED
                BY <2>1, <4>1 DEF Behind
        <3>2. CASE pc[Worker] = "read" /\ pc'[Worker] = "delete" /\ on'[Worker] = n
            BY <2>1, <3>2 DEF Behind
        <3> QED
            BY <1>5, <2>6, <3>1, <3>2 DEF Onwards, Behind, Replacing
    <2> QED
        BY <1>2, <2>2, <2>3, <2>5, <2>6 DEF CutOff
<1> QED
    BY <1>4, <1>5, ThereStays

\* What the worker keeps of the points, step by step.
LEMMA PointsMoved ==
    ASSUME IsFiniteSet(Nodes), WholeVersion, ViewTypeInv, SearchTypeInv, LostInv, LostInv',
           NoBootstrap, Separate, PointInv, UNCHANGED allVars,
           NEW p \in Procs, ListPrevious(p) \/ DropPoints(p) \/ UpsertPoints(p)
    PROVE  PointInv'
<1>1. PICK n : n = on[Worker]
    OBVIOUS
<1>2. /\ WorkerKnows /\ IsFiniteSet(points) /\ PointsKnown /\ PointsThere
      /\ \A r \in Requests : known[r] = Through
    BY DEF PointInv
<1>3. /\ known \in [Procs -> [at: RunPlaces, old: SUBSET Id, new: SUBSET Id]]
      /\ Worker \in Procs /\ Worker \notin Requests
      /\ \A r \in Requests : pc[r] \notin IndexPc
    BY ProcAssumption DEF SearchTypeInv, IndexedOK, LostInv, Progress
<1>4. p = Worker
    <2>1. \A r \in Requests : known[r].at = "done"
        BY <1>2 DEF Through
    <2> QED
        BY <1>3, <2>1 DEF ListPrevious, DropPoints, UpsertPoints, IndexPc
<1>5. pc[Worker] \in {"delete", "commit"} /\ n \in Nodes
    <2>1. pc[Worker] \in {"delete", "commit"}
        BY <1>2, <1>4 DEF ListPrevious, DropPoints, UpsertPoints, WorkerKnows, Replacing
    <2> QED
        BY <1>1, <1>3, <2>1, WorkerRuns DEF LostInv, IndexPc
<1>6. /\ UNCHANGED <<pc, on, run, row, chunks, scene, ids, leaky>> /\ [Next]_vars
      /\ \A m \in Nodes : Owed(m)' = Owed(m)
    <2>1. UNCHANGED <<pc, on, run, row, chunks, scene, job, held, vars>>
        BY DEF allVars, linkVars, vars, procVars, nodeVars, jobVars
    <2>2. UNCHANGED <<ids, leaky>>
        BY DEF ListPrevious, DropPoints, UpsertPoints, OnlyRows
    <2> QED
        BY <2>1, <2>2 DEF Owed
<1>7. AllRows' = AllRows /\ (\A m \in Nodes : RowIds(m)' = RowIds(m)) /\ Separate'
    BY <1>6, SameRows DEF Separate
<1>8. RowIds(on[Worker])' = RowIds(n) /\ RowIds(on[Worker]) = RowIds(n)
    BY <1>1, <1>6 DEF RowIds
<1>9. IsFiniteSet(RowIds(n))
    BY <1>5, RowsFinite DEF ViewTypeInv, TypeInv
<1>10. RowIds(n) \subseteq AllRows
    BY <1>5 DEF AllRows
<1>11. \A r \in Requests : known'[r] = Through
    BY <1>2, <1>3, <1>4 DEF ListPrevious, DropPoints, UpsertPoints
<1> HIDE DEF Separate
<1>12. CASE ListPrevious(Worker)
    <2>1. /\ known'[Worker].at = "listed" /\ known'[Worker].old = RowIds(n)
          /\ pc[Worker] = "delete" /\ known[Worker].at = "list" /\ points' = points
        BY <1>3, <1>8, <1>12 DEF ListPrevious
    <2>2. \A id \in RowIds(n) : id[1] = n
        BY DEF RowIds
    <2>3. WorkerKnows'
        BY <1>1, <1>2, <1>6, <1>8, <2>1, <2>2 DEF WorkerKnows, Replacing
    <2>4. known[Worker].old = {}
        BY <1>2, <2>1 DEF WorkerKnows
    <2>5. PointsKnown'
        BY <1>2, <1>6, <1>7, <2>1, <2>4 DEF PointsKnown
    <2>6. PointsThere'
        BY <1>2, <1>6, <1>7, <2>1 DEF PointsThere, Behind
    <2> QED
        BY <1>2, <1>11, <2>1, <2>3, <2>5, <2>6 DEF PointInv
<1>13. CASE DropPoints(Worker)
    <2>1. /\ known'[Worker].at = "upsert" /\ known'[Worker].old = {}
          /\ known'[Worker].new = known[Worker].new
          /\ known[Worker].at = "drop" /\ points' = points \ known[Worker].old
        BY <1>3, <1>13 DEF DropPoints
    <2>2. pc[Worker] = "commit"
        BY <1>2, <2>1 DEF WorkerKnows, Replacing
    <2>3. WorkerKnows'
        BY <1>1, <1>2, <1>6, <1>8, <2>1, <2>2 DEF WorkerKnows, Replacing
    <2>4. PointsKnown'
        BY <1>2, <1>6, <1>7, <2>1 DEF PointsKnown
    <2>5. ASSUME NEW m \in Nodes, row[m] # "gone"
          PROVE  Owed(m)' \/ Behind(m)' \/ RowIds(m)' \subseteq points'
        <3>1. CASE m = n
            BY <1>1, <1>6, <2>1, <2>2, <3>1 DEF Behind
        <3>2. CASE m # n
            <4>1. ~Behind(m)
                BY <1>1, <3>2 DEF Behind
            <4>2. \A id \in known[Worker].old : id[1] # m
                BY <1>1, <1>2, <3>2 DEF WorkerKnows
            <4>3. \A id \in RowIds(m) : id[1] = m
                BY DEF RowIds
            <4> QED
                BY <1>2, <1>6, <1>7, <2>1, <2>5, <4>1, <4>2, <4>3 DEF PointsThere
        <3> QED
            BY <3>1, <3>2
    <2>6. PointsThere'
        BY <1>6, <2>5 DEF PointsThere
    <2>7. IsFiniteSet(points')
        BY <1>2, <2>1, FS_Subset
    <2> QED
        BY <1>11, <2>3, <2>4, <2>6, <2>7 DEF PointInv
<1>14. CASE UpsertPoints(Worker)
    <2>1. /\ known'[Worker].at = "done" /\ known'[Worker].old = {}
          /\ known[Worker].at = "upsert" /\ points' = points \cup known[Worker].new
        BY <1>3, <1>14 DEF UpsertPoints, Through
    <2>2. pc[Worker] = "commit"
        BY <1>2, <2>1 DEF WorkerKnows, Replacing
    <2>3. known[Worker].new = RowIds(n) /\ known[Worker].old = {}
        BY <1>2, <1>8, <2>1, <2>2 DEF WorkerKnows
    <2>4. WorkerKnows'
        BY <1>6, <2>1, <2>2 DEF WorkerKnows, Replacing
    <2>5. PointsKnown'
        BY <1>2, <1>6, <1>7, <1>10, <2>1, <2>3 DEF PointsKnown
    <2>6. ASSUME NEW m \in Nodes, row[m] # "gone"
          PROVE  Owed(m)' \/ Behind(m)' \/ RowIds(m)' \subseteq points'
        <3>1. CASE m = n
            BY <1>7, <2>1, <2>3, <3>1
        <3>2. CASE m # n
            <4>1. ~Behind(m)
                BY <1>1, <3>2 DEF Behind
            <4> QED
                BY <1>2, <1>6, <1>7, <2>1, <2>6, <4>1 DEF PointsThere
        <3> QED
            BY <3>1, <3>2
    <2>7. PointsThere'
        BY <1>6, <2>6 DEF PointsThere
    <2>8. IsFiniteSet(points')
        BY <1>2, <1>9, <2>1, <2>3, FS_Union
    <2> QED
        BY <1>11, <2>4, <2>5, <2>7, <2>8 DEF PointInv
<1> QED
    BY <1>4, <1>12, <1>13, <1>14

\* The process dies: what the run has not done is owed.
LEMMA PointsDie ==
    ASSUME ViewTypeInv, SearchTypeInv, LostInv, LostInv', NoBootstrap, [Next]_vars, Separate,
           Separate', PointInv, Dies
    PROVE  PointInv'
<1>1. PICK n : n = on[Worker]
    OBVIOUS
<1>2. /\ WorkerKnows /\ IsFiniteSet(points) /\ PointsKnown /\ PointsThere
    BY DEF PointInv
<1>3. /\ known' = [p \in Procs |-> Through] /\ Worker \in Procs
      /\ UNCHANGED <<ids, points>> /\ leaky \subseteq leaky'
    BY DEF Dies
<1>4. /\ known'[Worker].at = "done" /\ known'[Worker].old = {}
      /\ \A r \in Requests : known'[r] = Through
    BY <1>3 DEF Through
<1>5. UNCHANGED <<row, chunks>> /\ pc'[Worker] = "idle"
    BY <1>3 DEF Dies, RestartTells, Restart, Crash, nodeVars
<1>6. AllRows' = AllRows /\ (\A m \in Nodes : RowIds(m)' = RowIds(m))
    BY <1>3, <1>5, SameRows
<1>7. WorkerKnows'
    BY <1>4, <1>5 DEF WorkerKnows, Replacing
<1>8. PointsKnown'
    <2> SUFFICES ASSUME NEW id \in points
                 PROVE  \/ id \in AllRows \/ row[id[1]] = "gone"
                        \/ \E l \in leaky' : l[1] = id[1]
        BY <1>3, <1>5, <1>6 DEF PointsKnown
    <2>1. CASE id \in known[Worker].old
        <3>1. known[Worker].at \notin {"list", "upsert", "done"}
            BY <1>2, <2>1 DEF WorkerKnows
        <3>2. pc[Worker] \in IndexPc
            BY <1>2, <3>1 DEF WorkerKnows, Replacing, IndexPc
        <3>3. n \in Nodes
            BY <1>1, <1>3, <3>2, WorkerRuns DEF LostInv
        <3>4. id[1] = n /\ (HalfWay(Worker) \/ id \in AllRows)
            BY <1>1, <1>2, <2>1, <3>3, CutLeaks
        <3>5. HalfWay(Worker) => <<n, "cut">> \in leaky'
            BY <1>1, <1>3, <3>2 DEF Dies
        <3> QED
            BY <3>4, <3>5
    <2>2. CASE id \notin known[Worker].old
        BY <1>2, <1>3, <2>2 DEF PointsKnown
    <2> QED
        BY <2>1, <2>2
<1>9. PointsThere'
    <2>1. ASSUME NEW m \in Nodes, Behind(m) PROVE Owed(m)'
        BY <1>1, <1>5, <2>1, WorkerYields DEF Behind, IndexPc, Closing
    <2> QED
        BY <1>2, <1>3, <1>6, <2>1, ThereStays
<1> QED
    BY <1>2, <1>3, <1>4, <1>7, <1>8, <1>9 DEF PointInv

\* Everybody else leaves the points alone.
LEMMA PointsRest ==
    ASSUME ViewTypeInv, SearchTypeInv, LostInv, LostInv', NoBootstrap, [Next]_vars, Separate,
           Separate', PointInv, OthersStep
    PROVE  PointInv'
<1>1. /\ WorkerKnows /\ IsFiniteSet(points) /\ PointsKnown /\ PointsThere
    BY DEF PointInv
<1>2. AllRows' = AllRows /\ (\A m \in Nodes : RowIds(m)' = RowIds(m))
    BY SameRows DEF OthersStep
<1>3. UNCHANGED <<known, points, leaky, run>>
    BY DEF OthersStep
<1>4. WorkerKnows'
    <2>1. CASE pc'[Worker] = pc[Worker] /\ on'[Worker] = on[Worker]
        <3>1. RowIds(on[Worker])' = RowIds(on[Worker])
            BY <2>1 DEF OthersStep, RowIds
        <3> QED
            BY <1>1, <1>3, <2>1, <3>1 DEF WorkerKnows
    <2>2. CASE pc[Worker] \in {"idle", "schedule"} /\ pc'[Worker] \in {"idle", "start"}
        BY <1>1, <1>3, <2>2 DEF WorkerKnows, Replacing
    <2> QED
        BY <2>1, <2>2 DEF OthersStep
<1>5. PointsKnown'
    <2>1. ASSUME NEW id \in points PROVE row[id[1]] = "gone" => row'[id[1]] = "gone"
        <3>1. id[1] \in Nodes
            BY DEF SearchTypeInv, IndexedOK, Id
        <3> QED
            BY <3>1, GoneStays DEF LostInv
    <2> QED
        BY <1>1, <1>2, <1>3, <2>1 DEF PointsKnown
<1>6. PointsThere'
    <2>1. ASSUME NEW m \in Nodes, Behind(m) PROVE Behind(m)'
        BY <1>3, <2>1 DEF Behind, OthersStep
    <2> QED
        BY <1>1, <1>2, <1>3, <2>1, ThereStays
<1> QED
    BY <1>1, <1>3, <1>4, <1>5, <1>6 DEF PointInv

\* Every step keeps the points accounted for.
LEMMA PointKept ==
    ASSUME IsFiniteSet(Nodes), WholeVersion, ViewTypeInv, SearchTypeInv, LostInv, LostInv',
           NoBootstrap, PointInv, [SearchNext]_<<allVars, searchVars>>
    PROVE  PointInv'
<1>1. [ViewNext]_allVars /\ [Next]_vars /\ scene' = scene
    BY SearchStep, ViewStep DEF ViewTypeInv
<1>2. Separate' = Separate
    BY <1>1 DEF Separate
<1> SUFFICES ASSUME Separate PROVE PointInv'
    BY <1>2 DEF PointInv
<1>3. ASSUME NEW p \in Procs, Indexes(p) PROVE PointInv'
    <2>1. WorkerKnows /\ PointsKnown /\ PointsThere /\ IsFiniteSet(points)
        BY DEF PointInv
    <2>2. WorkerKnows'
        BY <1>3, <2>1, KnowsRun
    <2>3. PointsKnown'
        BY <1>1, <1>3, <2>1, KnownRun
    <2>4. PointsThere'
        BY <1>1, <1>3, <2>1, ThereRun
    <2>5. points' = points /\ \A q \in Requests : known'[q] = known[q]
        BY <1>3, <2>1, IndexesShape
    <2> QED
        BY <2>1, <2>2, <2>3, <2>4, <2>5 DEF PointInv
<1>4. ASSUME NEW p \in Procs, ListPrevious(p) \/ DropPoints(p) \/ UpsertPoints(p)
      PROVE  PointInv'
    BY <1>4, PointsMoved, SearchStepsView
<1>5. CASE Dies
    BY <1>1, <1>2, <1>5, PointsDie
<1>6. CASE Otherwise
    BY <1>1, <1>2, <1>6, OtherwiseShape, PointsRest
<1>7. CASE SearchSteps \/ UNCHANGED <<allVars, searchVars>>
    <2>1. UNCHANGED <<chunks, ids, known, points, leaky, run, pc, on>>
        BY <1>7 DEF SearchSteps, StartSearch, SearchKeyword, SearchVectors, MergeHits, RankHits,
           ReadResults, searchVars, indexedVars, allVars, linkVars, vars, procVars
    <2> QED
        BY <1>1, <1>2, <2>1, PointsRest DEF OthersStep
<1> QED
    BY <1>3, <1>4, <1>5, <1>6, <1>7 DEF SearchNext

\* A settled document is indexed, and its points are there.
LEMMA SettledIsThere ==
    ASSUME LostInv, PointInv, NEW n \in Nodes, Settled(n)
    PROVE  Fresh(n) /\ (Separate => RowIds(n) \subseteq points)
<1>1. /\ Live(n) /\ ~Owed(n) /\ Worker \in Procs
      /\ on[Worker] = n => pc[Worker] \notin IndexPc
    BY DEF Settled
<1>2. ~WorkerOnIt(n) /\ ~Behind(n)
    BY <1>1 DEF WorkerOnIt, Behind, IndexPc
<1> QED
    BY <1>1, <1>2 DEF LostInv, NothingLost, PointInv, PointsThere, Live

\* All the points there are count for Accounted.
LEMMA PointsAccounted ==
    ASSUME PointInv, Separate
    PROVE  \A id \in points : Accounted(id)
<1>1. PointsKnown /\ Worker \in Procs
    BY DEF PointInv
<1> QED
    BY <1>1 DEF PointsKnown, Accounted, Live

\* While a document stays settled its rows stay.
LEMMA SettledRows ==
    ASSUME ViewTypeInv, SearchTypeInv, NEW n \in Nodes, Settled(n),
           [SearchNext]_<<allVars, searchVars>>
    PROVE  RowIds(n)' = RowIds(n)
<1>1. \A p \in Procs : on[p] = n => pc[p] \notin IndexPc
    BY DEF Settled
<1>2. chunks \in [Nodes -> SUBSET (Nat \X Contents)] /\ ids \in [Nodes -> 0 .. MaxRows]
    BY DEF ViewTypeInv, TypeInv, TypeOK, SearchTypeInv, IndexedOK
<1>3. [Next]_vars
    BY SearchStep, ViewStep DEF ViewTypeInv
<1>4. chunks'[n] = chunks[n]
    <2>1. CASE chunks' = chunks
        BY <2>1
    <2>2. ASSUME NEW p \in Procs, IndexDelete(p) PROVE chunks'[n] = chunks[n]
        BY <1>1, <1>2, <2>2 DEF IndexDelete, IndexPc
    <2>3. ASSUME NEW p \in Procs, IndexInsert(p), ~Collides(on[p], val[p])
          PROVE  chunks'[n] = chunks[n]
        BY <1>1, <1>2, <2>3 DEF IndexInsert, IndexPc
    <2> QED
        BY <1>3, <2>1, <2>2, <2>3, ChunkWriters DEF ViewTypeInv
<1>5. ids'[n] = ids[n]
    <2>1. ASSUME NEW p \in Procs, Indexes(p) PROVE ids'[n] = ids[n]
        <3>1. ids' = ids \/ (Inserts(p) /\ ids' = [ids EXCEPT ![on[p]] = @ + 1])
            BY <2>1 DEF Indexes
        <3>2. Inserts(p) => on[p] # n
            BY <1>1 DEF Inserts, IndexPc
        <3> QED
            BY <1>2, <3>1, <3>2
    <2>2. ASSUME ~\E p \in Procs : Indexes(p) PROVE ids' = ids
        BY <2>2 DEF SearchNext, ListPrevious, DropPoints, UpsertPoints, OnlyRows, Dies, Otherwise,
           SearchSteps, StartSearch, SearchKeyword, SearchVectors, MergeHits, RankHits,
           ReadResults, searchVars, indexedVars
    <2> QED
        BY <2>1, <2>2
<1> QED
    BY <1>4, <1>5 DEF RowIds

\* A search that is not crowded out takes all there is.
LEMMA SearchFinds ==
    ASSUME IsFiniteSet(Nodes), WholeVersion, ViewTypeInv, SearchTypeInv, LostInv,
           PointInv, FoundInv, SearchSteps
    PROVE  FoundInv'
<1>1. /\ search.settled \subseteq Nodes /\ IsFiniteSet(AllRows)
      /\ search \in Searches /\ TypeOK
    BY RowsFinite DEF SearchTypeInv, Searches, ViewTypeInv, TypeInv
<1>2. ASSUME NEW n \in Nodes PROVE RowIds(n) \subseteq AllRows
    BY DEF AllRows
<1>3. UNCHANGED <<allVars, indexedVars>>
    BY DEF SearchSteps, StartSearch, SearchKeyword, SearchVectors, MergeHits, RankHits,
       ReadResults
<1>4. ASSUME NEW n \in Nodes PROVE Settled(n)' = Settled(n) /\ RowIds(n)' = RowIds(n)
    <2>1. UNCHANGED <<row, status, pc, on, job, held, chunks, ids, leaky>>
        BY <1>3 DEF allVars, vars, nodeVars, procVars, jobVars, indexedVars
    <2> QED
        BY <2>1 DEF Settled, Owed, Live, RowIds
<1>5. ASSUME NEW best \in Best(AllRows), ~Crowds(AllRows) PROVE best = AllRows
    <2>1. {id \in AllRows : Accounted(id)} = AllRows
        BY DEF Accounted
    <2>2. Cardinality(AllRows) <= Limit
        <3>1. Cardinality(AllRows) \in Nat
            BY <1>1, FS_CardinalityType
        <3>2. ~(Cardinality({id \in AllRows : Accounted(id)}) > Limit)
            BY <1>5 DEF Crowds
        <3>3. ~(Cardinality(AllRows) > Limit)
            BY <2>1, <3>2
        <3> QED
            BY <3>1, <3>3, SearchAssumption
    <2> QED
        BY <1>1, <1>5, <2>2, BestIsAll
<1>6. ASSUME Separate, NEW best \in Best(points), ~Crowds(points) PROVE best = points
    <2>1. {id \in points : Accounted(id)} = points
        BY <1>6, PointsAccounted
    <2>2. IsFiniteSet(points)
        BY <1>6 DEF PointInv
    <2>3. Cardinality(points) <= Limit
        <3>1. Cardinality(points) \in Nat
            BY <2>2, FS_CardinalityType
        <3>2. ~(Cardinality({id \in points : Accounted(id)}) > Limit)
            BY <1>6 DEF Crowds
        <3>3. ~(Cardinality(points) > Limit)
            BY <2>1, <3>2
        <3> QED
            BY <3>1, <3>3, SearchAssumption
    <2> QED
        BY <1>6, <2>2, <2>3, BestIsAll
<1>7. ASSUME NEW ways, StartSearch(ways) PROVE FoundInv'
    <2>1. /\ search'.settled = {n \in Nodes : Settled(n)} /\ search'.hits = {}
          /\ search'.at \in {"keyword", "vector"}
        BY <1>7 DEF StartSearch, NoSearch
    <2>2. IsFiniteSet(search'.hits)
        BY <2>1, FS_EmptySet
    <2> QED
        BY <1>4, <2>1, <2>2 DEF FoundInv
<1>8. CASE SearchKeyword
    <2>1. PICK best \in Best(AllRows) :
              search' = [search EXCEPT !.at = After("keyword"), !.hits = best,
                                       !.crowded = Crowds(AllRows)]
        BY <1>8 DEF SearchKeyword
    <2>2. /\ search'.at = After("keyword") /\ search'.hits = best
          /\ search'.crowded = Crowds(AllRows) /\ search'.settled = search.settled
        BY <1>1, <2>1 DEF Searches
    <2>3. IsFiniteSet(search'.hits)
        BY <1>1, <2>2, BestOf, FS_Subset
    <2>4. After("keyword") \in {"vector", "nodes"}
        BY DEF After
    <2> QED
        BY <1>1, <1>2, <1>4, <1>5, <2>2, <2>3, <2>4 DEF FoundInv
<1>9. CASE SearchVectors
    <2>1. PICK pool : pool = IF Separate THEN points ELSE AllRows
        OBVIOUS
    <2>2. PICK best \in Best(pool) :
              search' = [search EXCEPT !.at = "chunks", !.near = best,
                                       !.crowded = @ \/ Crowds(pool)]
        BY <1>9, <2>1 DEF SearchVectors
    <2>3. /\ search'.at = "chunks" /\ search'.hits = search.hits /\ search'.near = best
          /\ search'.crowded = (search.crowded \/ Crowds(pool))
          /\ search'.settled = search.settled
        BY <1>1, <2>2 DEF Searches
    <2>4. Crowds(pool) \/ best = pool
        BY <1>5, <1>6, <2>1, <2>2
    <2>5. ASSUME NEW n \in search.settled PROVE RowIds(n) \subseteq pool
        BY <1>1, <1>2, <2>1, SettledIsThere DEF FoundInv
    <2> QED
        BY <1>1, <1>4, <2>3, <2>4, <2>5 DEF FoundInv
<1>10. CASE MergeHits
    <2>1. /\ search'.at = "nodes" /\ search.at = "chunks"
          /\ search'.hits = search.hits \cup (search.near \cap AllRows)
          /\ search'.crowded = search.crowded /\ search'.settled = search.settled
        BY <1>1, <1>10 DEF MergeHits, Searches
    <2>2. IsFiniteSet(search.near \cap AllRows)
        BY <1>1, FS_Subset
    <2>3. IsFiniteSet(search'.hits)
        <3>1. IsFiniteSet(search.hits)
            BY DEF FoundInv
        <3>2. IsFiniteSet(search.hits \cup (search.near \cap AllRows))
            BY <2>2, <3>1, FS_Union
        <3> QED
            BY <2>1, <3>2
    <2> QED
        BY <1>1, <1>2, <1>4, <2>1, <2>3 DEF FoundInv
<1>11. CASE RankHits
    <2>1. PICK found : found = {id \in search.hits : Live(id[1])}
        OBVIOUS
    <2>2. PICK best \in Best(found) :
              search' = [search EXCEPT !.at = "final", !.hits = best,
                                       !.crowded = @ \/ Cardinality(found) > Limit]
        BY <1>11, <2>1 DEF RankHits
    <2>3. /\ search'.at = "final" /\ search.at = "nodes" /\ search'.hits = best
          /\ search'.crowded = (search.crowded \/ Cardinality(found) > Limit)
          /\ search'.settled = search.settled
        BY <1>1, <1>11, <2>2 DEF RankHits, Searches
    <2>4. IsFiniteSet(found)
        BY <2>1, FS_Subset DEF FoundInv
    <2>5. IsFiniteSet(search'.hits)
        BY <2>3, <2>4, BestOf, FS_Subset
    <2>6. Cardinality(found) > Limit \/ best = found
        BY <2>4, BestIsAll, FS_CardinalityType, SearchAssumption
    <2>7. ASSUME NEW n \in search.settled PROVE search.crowded \/ RowIds(n) \subseteq found
        <3>1. Live(n) /\ (search.crowded \/ RowIds(n) \subseteq search.hits)
            BY <2>3 DEF FoundInv, Settled
        <3>2. \A id \in RowIds(n) : id[1] = n
            BY DEF RowIds
        <3> QED
            BY <2>1, <3>1, <3>2
    <2> QED
        BY <1>1, <1>4, <2>3, <2>5, <2>6, <2>7 DEF FoundInv
<1>12. CASE ReadResults
    <2>1. /\ search'.at = "done" /\ search.at = "final"
          /\ search'.hits = search.hits \cap AllRows
          /\ search'.crowded = search.crowded /\ search'.settled = search.settled
        BY <1>1, <1>12 DEF ReadResults, Searches
    <2>2. IsFiniteSet(search'.hits)
        BY <1>1, <2>1, FS_Subset
    <2> QED
        BY <1>1, <1>2, <1>4, <2>1, <2>2 DEF FoundInv
<1> QED
    BY <1>7, <1>8, <1>9, <1>10, <1>11, <1>12 DEF SearchSteps

\* Whatever else happens, the search keeps what it has.
LEMMA FoundKept ==
    ASSUME IsFiniteSet(Nodes), WholeVersion, ViewTypeInv, SearchTypeInv, LostInv,
           PointInv, FoundInv, [SearchNext]_<<allVars, searchVars>>
    PROVE  FoundInv'
<1>1. search \in Searches /\ search.settled \subseteq Nodes
    BY DEF SearchTypeInv, Searches
<1>2. ASSUME search'.at = search.at, search'.hits = search.hits, search'.near = search.near,
             search'.crowded = search.crowded,
             search'.settled \subseteq search.settled,
             \A n \in search'.settled : Settled(n)'
      PROVE  FoundInv'
    <2>1. \A n \in search'.settled : RowIds(n)' = RowIds(n)
        BY <1>1, <1>2, SettledRows DEF FoundInv
    <2> QED
        BY <1>2, <2>1 DEF FoundInv
<1>3. CASE Watching
    <2>1. /\ search'.at = search.at /\ search'.hits = search.hits /\ search'.near = search.near
          /\ search'.crowded = search.crowded
          /\ search'.settled = {n \in search.settled : Settled(n)'}
        BY <1>1, <1>3 DEF Watching, Searches
    <2> QED
        BY <1>2, <2>1
<1>4. CASE UNCHANGED <<allVars, search, leaky>>
    <2>1. UNCHANGED <<row, status, pc, on, job, held, leaky>>
        BY <1>4 DEF allVars, vars, nodeVars, procVars, jobVars
    <2>2. \A n \in search.settled : Settled(n)'
        BY <2>1 DEF FoundInv, Settled, Owed, Live
    <2> QED
        BY <1>2, <1>4, <2>2
<1>5. CASE Dies
    <2>1. search'.settled = {} /\ search'.hits = {}
        BY <1>5 DEF Dies, NoSearch
    <2> QED
        BY <2>1, FS_EmptySet DEF FoundInv
<1>6. CASE SearchSteps
    BY <1>6, SearchFinds
<1> QED
    BY <1>3, <1>4, <1>5, <1>6 DEF SearchNext, Indexes, Otherwise, ListPrevious, DropPoints,
       UpsertPoints, OnlyRows, searchVars, indexedVars

\* At the start the points are those of the rows, and nothing is searched.
LEMMA SearchStart ==
    ASSUME IsFiniteSet(Nodes), SearchInit, ViewTypeInv, WholeVersion
    PROVE  PointInv /\ FoundInv
<1>1. /\ pc = [p \in Procs |-> "idle"] /\ Worker \in Procs
      /\ known = [p \in Procs |-> Through] /\ search = NoSearch
      /\ points = IF Searched /\ Separate THEN AllRows ELSE {}
    BY DEF SearchInit, ViewInit, Init
<1>2. FoundInv
    BY <1>1, FS_EmptySet DEF FoundInv, NoSearch
<1>3. ASSUME Separate PROVE PointInv
    <2>1. points = AllRows
        BY <1>1, <1>3 DEF Searched, Separate
    <2>2. IsFiniteSet(points)
        BY <2>1, RowsFinite DEF ViewTypeInv, TypeInv
    <2>3. WorkerKnows
        BY <1>1 DEF WorkerKnows, Replacing, Through
    <2>4. PointsKnown /\ PointsThere
        BY <2>1 DEF PointsKnown, PointsThere, AllRows
    <2>5. \A r \in Requests : known[r] = Through
        BY <1>1
    <2> QED
        BY <2>2, <2>3, <2>4, <2>5 DEF PointInv
<1> QED
    BY <1>2, <1>3 DEF PointInv

\* So both hold for as long as no OKF bootstrap has run.
LEMMA FoundInvariant ==
    ASSUME IsFiniteSet(Nodes), Nodes # {}
    PROVE  SearchSpec => [](NoBootstrap => LostInv /\ PointInv /\ FoundInv)
<1>1. SearchSpec => [](ViewTypeInv /\ SearchTypeInv /\ WholeVersion /\ (NoBootstrap => LostInv))
    BY SearchImplementsView, ViewImplementsDocIndex, SearchTypeInvariant, SearchWhole,
       LostInvariant, PTL
<1> DEFINE Typed == ViewTypeInv /\ SearchTypeInv /\ WholeVersion /\ (NoBootstrap => LostInv)
           Good  == NoBootstrap => PointInv /\ FoundInv
<1>2. Typed /\ SearchInit => Good
    BY SearchStart
<1>3. Typed /\ Typed' /\ Good /\ [SearchNext]_<<allVars, searchVars>> => Good'
    <2> SUFFICES ASSUME Typed, Typed', Good, [SearchNext]_<<allVars, searchVars>>, NoBootstrap'
                 PROVE  PointInv' /\ FoundInv'
        OBVIOUS
    <2>1. NoBootstrap
        <3>1. [Next]_vars
            BY SearchStep, ViewStep DEF ViewTypeInv
        <3> QED
            BY <3>1, BootstrapBegun DEF ViewTypeInv, TypeInv
    <2> QED
        BY <2>1, PointKept, FoundKept
<1> QED
    BY <1>1, <1>2, <1>3, PTL DEF SearchSpec

\* A search that was not crowded out finds every chunk of the stored content of
\* each document that was settled all the time, though runs on other documents
\* move rows and points in several steps, fail half way or die with the process,
\* and are made good by later ones.
THEOREM SearchExactHolds ==
    ASSUME IsFiniteSet(Nodes), Nodes # {}
    PROVE  SearchSpec => [](NoBootstrap => SearchExact)
<1>1. SearchTypeInv /\ LostInv /\ PointInv /\ FoundInv => SearchExact
    <2> SUFFICES ASSUME SearchTypeInv, LostInv, PointInv, FoundInv,
                        search.at = "done", ~search.crowded,
                        NEW n \in search.settled, NEW x \in Rows(blob[n])
                 PROVE  <<n, ids[n], x[1]>> \in search.hits
        BY DEF SearchExact
    <2>1. n \in Nodes /\ Settled(n)
        BY DEF SearchTypeInv, Searches, FoundInv
    <2>2. chunks[n] = Rows(blob[n])
        BY <2>1, SettledIsThere DEF Fresh
    <2> QED
        BY <2>2 DEF FoundInv, RowIds
<1> QED
    BY <1>1, SearchTypeInvariant, FoundInvariant, PTL
=============================================================================
