----------------------------- MODULE LinkGraph ------------------------------
(***************************************************************************)
(* The links between documents, a part of their index.  A run of indexNode *)
(* (module DocIndex) that has its chunks stored lists the files of the     *)
(* corpus, replaces the rows of the document's own links, each with the    *)
(* file it leads to, and then points every link to this document at it.    *)
(* Creation, save, renaming and deletion of documents go on meanwhile, and *)
(* nobody looks at the links again until a document is indexed once more.  *)
(*                                                                         *)
(* Only internal links are modelled; the documents are markdown files.     *)
(* Spelling gives the other way to write a path, with or without ".md".    *)
(***************************************************************************)
EXTENDS DocIndex

CONSTANTS
    FilePaths,  \* where files may be
    Spelling,   \* [path -> its other spelling]
    LinksOf,    \* [content -> the paths it links to]
    Scenes      \* the situations a behaviour may start in: what is stored, who
                \* calls what, what fails, and whether somebody watches (IndexView)
                \* or searches, with which backend (SearchIndex)

Scene == [stored: [Nodes -> Contents \cup {NoContent}], at: [Nodes -> FilePaths],
          requests: SUBSET Requests, nodes: SUBSET Nodes, contents: SUBSET Contents,
          paths: SUBSET FilePaths, ops: SUBSET (Ops \cup {"rename"}),
          faults: SUBSET Faults, maxCrashes: 0 .. MaxCrashes, loads: Nat, streams: Nat,
          backend: {"none", "pgvector", "qdrant"}]

ASSUME LinkAssumption ==
    /\ FilePaths \subseteq DOMAIN Spelling
    /\ \A p \in DOMAIN Spelling : Spelling[p] \in DOMAIN Spelling \ {p}
    /\ LinksOf \in [Contents -> SUBSET DOMAIN Spelling]
    /\ Scenes \subseteq Scene

VARIABLES
    scene,    \* one of Scenes, fixed
    path,     \* path and name of a node
    renamed,  \* the files that were renamed: each is at most once
    links,    \* [node -> its rows of knowledge_links]
    run,      \* what a run of indexNode knows: where it stands with the links,
              \* the path its document had at the start, the rows to insert
    touched   \* paths that came to a file or lost theirs by renaming or
              \* deletion since the corpus was last reindexed as a whole

linkVars == <<scene, path, renamed, links, run, touched>>

\* by tells apart the rows of overlapping runs; the table has an id for that.
Link == [by: Procs, target: DOMAIN Spelling, to: Nodes \cup {NoNode}]

Steps == {"list", "clear", "insert", "incoming", "ready"}

Started(p) == [at |-> "list", path |-> p, rows |-> {}]

LinkTypeOK ==
    /\ path \in [Nodes -> FilePaths]
    /\ renamed \subseteq Nodes
    /\ links \in [Nodes -> SUBSET Link]
    /\ run \in [Procs -> [at: Steps, path: FilePaths, rows: SUBSET Link]]
    /\ \A p \in Procs : \A l \in run[p].rows : l.by = p
    /\ touched \subseteq FilePaths

Candidates(p) == {p, Spelling[p]}

At(p) == {n \in Nodes : Live(n) /\ path[n] = p}

\* resolveInternalLinkTarget: the path as it is written comes first.
Resolved(t) ==
    LET hits == IF At(t) # {} THEN At(t) ELSE At(Spelling[t])
    IN  IF hits = {} THEN NoNode ELSE CHOOSE n \in hits : TRUE

\* The files start at different paths, indexed.
LinkInit ==
    /\ scene \in Scenes
    /\ path = scene.at
    /\ links = [n \in Nodes |->
                  IF n \in Existing
                    THEN {[by |-> Worker, target |-> t, to |-> Resolved(t)] :
                            t \in LinksOf[blob[n]]}
                    ELSE {}]
    /\ renamed = {}
    /\ run = [p \in Procs |-> Started(path[CHOOSE n \in Nodes : TRUE])]
    /\ touched = {}

Free(p) == At(p) = {}
LinksStay == UNCHANGED linkVars

-----------------------------------------------------------------------------
(* Requests.                                                               *)

\* One file of a name in a folder: the check, and the unique index after it.
CreateAt(r, n, c, p) ==
    /\ Free(p)
    /\ StartCreate(r, n, c)
    /\ path' = [path EXCEPT ![n] = p]
    /\ UNCHANGED <<scene, renamed, links, run, touched>>

\* renameNode and moveNode of a file: no index job is sent.
Rename(n, p) ==
    /\ Live(n) /\ Free(p)
    /\ n \notin renamed
    /\ path' = [path EXCEPT ![n] = p]
    /\ renamed' = renamed \cup {n}
    /\ touched' = touched \cup {path[n], p}
    /\ UNCHANGED <<vars, scene, links, run>>

\* runCorpusReindex reads the corpus and sends a job for every file.
ReindexAll(r) ==
    /\ StartSweep(r, "reindex")
    /\ touched' = {}
    /\ UNCHANGED <<scene, path, renamed, links, run>>

RemoveRow(r) ==
    /\ DeleteRow(r)
    /\ touched' = touched \cup {path[on[r]]}
    /\ UNCHANGED <<scene, path, renamed, links, run>>

\* What clients ask for in this scene.
Called(r) ==
    /\ r \in scene.requests
    /\ \/ \E n \in scene.nodes :
            \/ /\ "create" \in scene.ops
               /\ \E c \in scene.contents, p \in scene.paths : CreateAt(r, n, c, p)
            \/ /\ "save" \in scene.ops
               /\ \E c \in scene.contents : StartSave(r, n, c) /\ LinksStay
            \/ "delete" \in scene.ops /\ StartDelete(r, n) /\ LinksStay
            \/ "validate" \in scene.ops /\ StartValidate(r, n) /\ LinksStay
       \/ "sweep" \in scene.ops /\ StartSweep(r, "sweep") /\ LinksStay
       \/ "reindex" \in scene.ops /\ ReindexAll(r)

Renamed ==
    /\ "rename" \in scene.ops
    /\ \E n \in scene.nodes, p \in scene.paths : Rename(n, p)

RequestStep(r) == (Continue(r) /\ ~DeleteRow(r) /\ LinksStay) \/ RemoveRow(r)

-----------------------------------------------------------------------------
(* indexNode.                                                              *)

Doing(p, step) == pc[p] = "commit" /\ run[p].at = step
LinkStep(p, step) == run' = [run EXCEPT ![p].at = step]

RunStart(p) ==
    /\ IndexStart(p)
    /\ run' = [run EXCEPT ![p] = Started(path[on[p]])]
    /\ UNCHANGED <<scene, path, renamed, links, touched>>

\* The files of the corpus are listed before anything is replaced.
ListFiles(p) ==
    /\ Doing(p, "list")
    /\ run' = [run EXCEPT ![p].at = "clear",
                          ![p].rows = {[by |-> p, target |-> t, to |-> Resolved(t)] :
                                         t \in LinksOf[val[p]]}]
    /\ UNCHANGED <<vars, scene, path, renamed, links, touched>>

MutantClearLinks(p) ==
    /\ Doing(p, "clear")
    /\ LinkStep(p, "insert")
    /\ UNCHANGED <<vars, scene, path, renamed, links, touched>>

\* replaceForNode of the links, in two statements.
ClearLinks(p) ==
    /\ Doing(p, "clear")
    /\ links' = [links EXCEPT ![on[p]] = {}]
    /\ LinkStep(p, "insert")
    /\ UNCHANGED <<vars, scene, path, renamed, touched>>

InsertLinks(p) ==
    /\ Doing(p, "insert")
    /\ links' = [links EXCEPT ![on[p]] = @ \cup run[p].rows]
    /\ LinkStep(p, "incoming")
    /\ UNCHANGED <<vars, scene, path, renamed, touched>>

MutantIncoming(l, n, p) == IF l.target = p THEN [l EXCEPT !.to = n] ELSE l

\* A link to path p now leads to node n.
Incoming(l, n, p) == IF l.target \in Candidates(p) THEN [l EXCEPT !.to = n] ELSE l

\* resolveIncomingTargets, with the path the document had at the start.
PatchIncoming(p) ==
    /\ Doing(p, "incoming")
    /\ links' = [n \in Nodes |-> {Incoming(l, on[p], run[p].path) : l \in links[n]}]
    /\ run' = [run EXCEPT ![p].at = "ready", ![p].rows = {}]
    /\ UNCHANGED <<vars, scene, path, renamed, touched>>

RunStep(p) ==
    \/ RunStart(p)
    \/ (IndexMark(p) \/ IndexRead(p) \/ IndexDelete(p) \/ IndexInsert(p) \/ IndexStats(p))
       /\ LinksStay
    \/ ListFiles(p) \/ ClearLinks(p) \/ InsertLinks(p) \/ PatchIncoming(p)
    \/ Doing(p, "ready") /\ IndexCommit(p) /\ LinksStay

RunFails(p) == "index" \in scene.faults /\ IndexThrows(p) /\ LinksStay

RunEscapes(p) == "index" \in scene.faults /\ IndexEscapes(p) /\ LinksStay

Finished(ok) ==
    /\ ok \/ "index" \in scene.faults
    /\ FinishJob(ok) /\ LinksStay

Queue(j) == (Fetch(j) \/ Expire(j) \/ RetryFailedJob(j) \/ DeleteFailedJob(j)) /\ LinksStay

Sent(j) ==
    /\ Send(j) \/ ("send" \in scene.faults /\ SendFails(j))
    /\ LinksStay

Restart == crashes < scene.maxCrashes /\ Crash /\ LinksStay

-----------------------------------------------------------------------------
(* Properties.                                                             *)

\* DEV-LEARNINGS.md: "Resolve outgoing links when indexing a node and patch
\* incoming links when the target file path appears."  When every request and
\* job has ended well, a link of a document leads to a file at the path it
\* names, in one of its spellings, and to none only if there is none.  After a
\* file was renamed or deleted this waits for the whole corpus to be reindexed.
LinksExact ==
    Quiet => \A n \in Nodes : Live(n) => \A l \in links[n] :
                LET hits == {m \in Nodes : Live(m) /\ path[m] \in Candidates(l.target)}
                IN  \/ Candidates(l.target) \cap touched # {}
                    \/ l.to \in hits
                    \/ l.to = NoNode /\ hits = {}

\* The rows of a document are the links of its stored content, each once, if no
\* bootstrap has run beside the worker.
LinksOnce ==
    Quiet /\ (\A b \in Bootstraps : pc[b] = "idle")
      => \A n \in Nodes : Live(n) =>
            /\ {l.target : l \in links[n]} = LinksOf[blob[n]]
            /\ \A k, l \in links[n] : k.target = l.target => k = l
=============================================================================
