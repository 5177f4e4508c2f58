----------------------------- MODULE IndexView ------------------------------
(***************************************************************************)
(* The index as a browser sees it.  Every status that saving or indexing   *)
(* writes is announced afterwards on the corpus's event hub, which hands   *)
(* it to the event streams open at that moment and keeps nothing.  The     *)
(* file list of the page is loaded from the server once, and again when    *)
(* the user does something that reloads it; in between the events of the   *)
(* stream patch it.  A stream that ends is opened anew two seconds later.  *)
(*                                                                         *)
(* This module puts the write path and the index (DocIndex), the links     *)
(* (LinkGraph) and one browser together.                                   *)
(***************************************************************************)
EXTENDS LinkGraph, Sequences

CONSTANTS
    MaxQueued,  \* bound on the events on their way
    Unknown     \* the list does not hold the node

ASSUME ViewAssumption == MaxQueued \in Nat \ {0} /\ Unknown \notin IndexStatus

VARIABLES
    due,      \* what a process has written and not announced yet
    open,     \* is there an event stream
    stream,   \* the events on their way
    list,     \* [node -> its status in the file list]
    answer,   \* the loads under way: the list the server read, and whether an
              \* event has been shown or missed since
    missed,   \* an event since the list was read is not in it
    loads,    \* loads and streams begun: a scene bounds both
    streams

listVars   == <<list, answer, loads>>
streamVars == <<open, stream, streams>>
viewVars   == <<due, listVars, streamVars, missed>>
allVars    == <<vars, linkVars, viewVars>>

Event == Nodes \X IndexStatus
None  == <<>>
Lists == [Nodes -> IndexStatus \cup {Unknown}]

ViewTypeOK ==
    /\ LinkTypeOK
    /\ due \in [Procs -> Event \cup {None}]
    /\ open \in BOOLEAN /\ missed \in BOOLEAN
    /\ \A k \in DOMAIN stream : stream[k] \in Event
    /\ Len(stream) <= MaxQueued
    /\ stream # <<>> => open
    /\ list \in Lists
    /\ answer \subseteq [list: Lists, late: BOOLEAN]
    /\ loads \in 0 .. scene.loads /\ streams \in 0 .. scene.streams

\* What an event that is shown or missed does to the loads under way.
Late == {[a EXCEPT !.late = TRUE] : a \in answer}

NothingDue == \A p \in Procs : due[p] = None
ViewStays == UNCHANGED viewVars

-----------------------------------------------------------------------------
(* The server.                                                             *)

MutantWillTell(p, s) ==
    due' = [due EXCEPT ![p] = IF scene.loads > 0 /\ s # "indexed" THEN <<on[p], s>> ELSE None]

\* p has written status s of the node it is on, and announces it next.  A scene
\* without loads has nobody to tell.
WillTell(p, s) ==
    due' = [due EXCEPT ![p] = IF scene.loads > 0 THEN <<on[p], s>> ELSE None]

Told(p) == UNCHANGED <<listVars, streamVars, missed>> /\ due[p] = None

Silently(p) == Told(p) /\ UNCHANGED due

\* The hub hands an event to the streams that are open and keeps none.
Publish(p) ==
    /\ due[p] # None
    /\ due' = [due EXCEPT ![p] = None]
    /\ IF open
         THEN /\ Len(stream) < MaxQueued
              /\ stream' = Append(stream, due[p])
              /\ UNCHANGED <<answer, missed>>
         ELSE /\ missed' = TRUE
              /\ answer' = Late
              /\ UNCHANGED stream
    /\ UNCHANGED <<vars, linkVars, list, loads, open, streams>>

\* applyMarkdownMetadata announces; the rest of a request is silent.
RequestTells(r) ==
    /\ RequestStep(r)
    /\ IF pc[r] = "meta" /\ Live(on[r])
         THEN Told(r) /\ WillTell(r, "pending") ELSE Silently(r)

RunTells(p) ==
    \/ RunStart(p) /\ Silently(p)
    \/ IndexMark(p) /\ LinksStay /\ Told(p) /\ WillTell(p, "indexing")
    \/ /\ (IndexRead(p) \/ IndexInsert(p)) /\ LinksStay
       /\ IF pc'[p] \in IndexPc THEN Silently(p) ELSE Told(p) /\ WillTell(p, "failed")
    \/ (IndexDelete(p) \/ IndexStats(p)) /\ LinksStay /\ Silently(p)
    \/ (ListFiles(p) \/ ClearLinks(p) \/ InsertLinks(p) \/ PatchIncoming(p)) /\ Silently(p)
    \/ /\ Doing(p, "ready") /\ IndexCommit(p) /\ LinksStay
       /\ Told(p) /\ WillTell(p, "indexed")
    \/ RunFails(p) /\ Told(p) /\ WillTell(p, "failed")
    \/ RunEscapes(p) /\ Silently(p)

\* The other steps of the server; nothing of a process goes on before it has
\* announced what it wrote.
QueueTells(j) == due[Worker] = None /\ Queue(j) /\ ViewStays
SendTells(j)  == due[j[1]] = None /\ Sent(j) /\ ViewStays
CallTells(r)  == Called(r) /\ ViewStays
RenameTells   == Renamed /\ ViewStays
FinishTells(ok) == Finished(ok) /\ Silently(Worker)

\* The process dies with its streams and the answers it owed.
RestartTells ==
    /\ Restart
    /\ due' = [p \in Procs |-> None]
    /\ missed' = (missed \/ ~NothingDue \/ stream # <<>>)
    /\ open' = FALSE
    /\ stream' = <<>>
    /\ answer' = {}
    /\ UNCHANGED <<list, loads, streams>>

-----------------------------------------------------------------------------
(* The browser.                                                            *)

\* connect, at once and two seconds after a stream has ended.
OpenStream ==
    /\ ~open
    /\ streams < scene.streams
    /\ streams' = streams + 1
    /\ open' = TRUE
    /\ UNCHANGED <<vars, linkVars, listVars, due, stream, missed>>

MutantCloseStream ==
    /\ open
    /\ open' = FALSE
    /\ missed' = (missed \/ stream # <<>>)
    /\ answer' = IF stream # <<>> THEN Late ELSE answer
    /\ UNCHANGED <<vars, linkVars, list, loads, due, stream, streams>>

\* The stream ends: what was on its way is gone.
CloseStream ==
    /\ open
    /\ open' = FALSE
    /\ stream' = <<>>
    /\ missed' = (missed \/ stream # <<>>)
    /\ answer' = IF stream # <<>> THEN Late ELSE answer
    /\ UNCHANGED <<vars, linkVars, list, loads, due, streams>>

\* listNodes: the server reads the rows.
StartLoad ==
    /\ loads < scene.loads
    /\ loads' = loads + 1
    /\ answer' = answer \cup {[list |-> [n \in Nodes |-> IF Live(n) THEN status[n] ELSE Unknown],
                               late |-> FALSE]}
    /\ UNCHANGED <<vars, linkVars, list, due, streamVars, missed>>

\* setNodes of a load, in whatever order the answers come.
FinishLoad(a) ==
    /\ list' = a.list
    /\ answer' = answer \ {a}
    /\ missed' = a.late
    /\ UNCHANGED <<vars, linkVars, loads, due, streamVars>>

\* patchNodeIndexStatus: a node that is not in the list is not added.
Patched(l, e) == [l EXCEPT ![e[1]] = IF @ = Unknown THEN @ ELSE e[2]]

ShowEvent ==
    /\ stream # <<>>
    /\ list' = Patched(list, Head(stream))
    /\ stream' = Tail(stream)
    /\ answer' = Late
    /\ UNCHANGED <<vars, linkVars, loads, due, open, streams, missed>>

Browser ==
    \/ OpenStream \/ CloseStream \/ StartLoad \/ ShowEvent
    \/ \E a \in answer : FinishLoad(a)

-----------------------------------------------------------------------------
ViewInit ==
    /\ Init /\ LinkInit
    /\ blob = scene.stored
    /\ due = [p \in Procs |-> None]
    /\ open = FALSE /\ stream = <<>> /\ streams = 0
    /\ list = [n \in Nodes |-> Unknown] /\ answer = {} /\ loads = 0
    /\ missed = FALSE

ViewNext ==
    \/ \E r \in Requests : CallTells(r) \/ RequestTells(r)
    \/ RenameTells
    \/ \E p \in Procs : RunTells(p) \/ Publish(p)
    \/ \E ok \in BOOLEAN : FinishTells(ok)
    \/ \E j \in Jobs : QueueTells(j) \/ SendTells(j)
    \/ RestartTells
    \/ Browser

ViewSpec == ViewInit /\ [][ViewNext]_allVars

-----------------------------------------------------------------------------
(* Properties.                                                             *)

\* The list is told how every indexing ended: when every request and job has
\* ended well and no event or load is under way, the list shows the stored
\* status of each document it holds, whatever order loads, events, saves and
\* retries came in - unless an event went by while no stream was open, got lost
\* with one, or was overwritten by an older answer, and nothing was loaded since.
ListSettles ==
    Quiet /\ NothingDue /\ stream = <<>> /\ answer = {} /\ ~missed
      => \A n \in Nodes : Live(n) /\ list[n] # Unknown => list[n] = status[n]
=============================================================================
