---------------------------- MODULE SearchIndex -----------------------------
(***************************************************************************)
(* Search beside indexing.  A chunk row gets a new id whenever its         *)
(* document is indexed.  With pgvector the embedding is in the row; with   *)
(* Qdrant it is a point of its own under the id of the row, and a run of   *)
(* indexNode moves the points after the rows: it lists the old ids,        *)
(* replaces the rows, deletes the points of the old ids and adds new ones. *)
(* Deleting a document removes neither its rows nor its points.            *)
(*                                                                         *)
(* A search reads candidates by words, by vectors or both, the rows of the *)
(* vector hits, the nodes of all, and at last the rows of the best ones,   *)
(* each with a call of its own while the index changes.  The query matches *)
(* every chunk; which of them rank best is left open.  An embedding        *)
(* provider is configured; paths and filters do not narrow the search.     *)
(***************************************************************************)
EXTENDS IndexView, FiniteSetsExt

CONSTANTS
    Limit,    \* how many results the search asks for
    MaxRows   \* bound on how often the rows of a document are inserted

ASSUME SearchAssumption == Limit \in Nat \ {0} /\ MaxRows \in Nat \ {0}

VARIABLES
    ids,      \* how often the rows of a node were inserted: tells row ids apart
    points,   \* the ids Qdrant has a point for
    known,    \* what a run of indexNode knows of the rows: where it stands, the
              \* ids before the replacement and those it has inserted
    search,   \* a search, and the documents settled since it began
    leaky     \* documents that had two runs overlap, or one cut off between the
              \* removal of the rows and that of their points

indexedVars == <<ids, points, known, leaky>>
searchVars  == <<indexedVars, search>>

Separate == scene.backend = "qdrant"
Searched == scene.backend # "none"

Id == Nodes \X (0 .. MaxRows) \X Nat

\* The ids of n's rows, and of all.
RowIds(n) == {<<n, ids[n], x[1]>> : x \in chunks[n]}
AllRows   == UNION {RowIds(n) : n \in Nodes}

Through == [at |-> "done", old |-> {}, new |-> {}]
NoSearch == [at |-> "none", ways |-> {}, hits |-> {}, near |-> {},
             settled |-> {}, crowded |-> FALSE]

SearchTypeOK ==
    /\ ViewTypeOK
    /\ ids \in [Nodes -> 0 .. MaxRows]
    /\ points \subseteq Id
    /\ \A p \in Procs : /\ known[p].at \in {"list", "listed", "drop", "upsert", "done"}
                        /\ known[p].old \cup known[p].new \subseteq Id
    /\ leaky \subseteq Nodes \X {"overlap", "cut"}
    /\ search.at \in {"none", "keyword", "vector", "chunks", "nodes", "final", "done"}
    /\ search.hits \cup search.near \subseteq Id

-----------------------------------------------------------------------------
(* indexNode.                                                              *)

\* Nobody is at work on n or has still to be, all that was begun ended well,
\* and no two runs were ever at work on n at a time.
Settled(n) ==
    /\ Live(n) /\ status[n] = "indexed"
    /\ <<n, "overlap">> \notin leaky
    /\ ~Owed(n)
    /\ \A p \in Procs : on[p] = n => pc[p] \notin IndexPc \cup DeletePc

\* The documents of the search that stay settled.
Watching == search' = [search EXCEPT !.settled = {n \in @ : Settled(n)'}]

OnlyRows == UNCHANGED <<allVars, ids, search>>

\* listIdsByNode, before the rows are replaced.
ListPrevious(p) ==
    /\ Searched
    /\ pc[p] = "delete" /\ known[p].at = "list"
    /\ known' = [known EXCEPT ![p].at = "listed", ![p].old = RowIds(on[p])]
    /\ UNCHANGED <<points, leaky>> /\ OnlyRows

MutantDropPoints(p) ==
    /\ known[p].at = "drop"
    /\ points' = points \ RowIds(on[p])
    /\ known' = [known EXCEPT ![p].at = "upsert", ![p].old = {}]
    /\ UNCHANGED leaky /\ OnlyRows

\* deleteChunks of the vector store.
DropPoints(p) ==
    /\ known[p].at = "drop"
    /\ points' = points \ known[p].old
    /\ known' = [known EXCEPT ![p].at = "upsert", ![p].old = {}]
    /\ UNCHANGED leaky /\ OnlyRows

\* upsertChunks of the rows the run has inserted, there or not.
UpsertPoints(p) ==
    /\ known[p].at = "upsert"
    /\ points' = points \cup known[p].new
    /\ known' = [known EXCEPT ![p] = Through]
    /\ UNCHANGED leaky /\ OnlyRows

Begins(p)  == pc[p] = "mark" /\ pc'[p] = "read"
Deletes(p) == pc[p] = "delete" /\ pc'[p] = "insert"
Inserts(p) == pc[p] = "insert" /\ pc'[p] = "commit"
ListsFiles(p)   == run[p].at = "list" /\ run'[p].at = "clear"
Throws(p)  == pc[p] \in IndexPc \ {"start", "mark", "stats"} /\ pc'[p] \notin IndexPc

\* The rows are gone and the points of them are not.
HalfWay(p) == pc[p] = "insert" \/ known[p].at = "drop"

Overlaps(p) ==
    \E q \in Procs \ {p} : on[q] = on[p] /\ pc[q] \in IndexPc \ {"start", "mark"}

\* Why p's step may leave points behind for good.
Leaks(p) == {why \in {"overlap", "cut"} :
               IF why = "overlap" THEN Begins(p) /\ Overlaps(p) ELSE Throws(p) /\ HalfWay(p)}

\* The other steps of indexNode (IndexView), with the ids of the rows.
Indexes(p) ==
    LET n == on[p]
        new == {<<n, ids[n] + 1, x[1]>> : x \in Rows(val[p])}
    IN
    /\ RunTells(p)
    /\ Searched /\ Deletes(p) => known[p].at = "listed"
    /\ Searched /\ ListsFiles(p) => known[p].at = "done"
    /\ IF Searched /\ Inserts(p) /\ new # {}
         THEN ids[n] < MaxRows /\ ids' = [ids EXCEPT ![n] = @ + 1]
         ELSE UNCHANGED ids
    /\ known' = IF Searched
                  THEN [known EXCEPT ![p] =
                          CASE Begins(p) -> [Through EXCEPT !.at = "list"]
                            [] Inserts(p) -> IF Separate
                                               THEN [@ EXCEPT !.at = "drop", !.new = new]
                                               ELSE Through
                            [] Throws(p) -> Through
                            [] OTHER -> @]
                  ELSE known
    /\ leaky' = leaky \cup IF Searched THEN {n} \X Leaks(p) ELSE {}
    /\ UNCHANGED points
    /\ Watching

\* The process dies, and the search with it.
Dies ==
    /\ RestartTells
    /\ known' = [p \in Procs |-> Through]
    /\ leaky' = leaky \cup {<<on[p], "cut">> : p \in {q \in Procs : pc[q] \in IndexPc /\ HalfWay(q)}}
    /\ search' = NoSearch
    /\ UNCHANGED <<ids, points>>

\* Everything else that happens.
Otherwise ==
    /\ \/ \E r \in Requests : CallTells(r) \/ RequestTells(r)
       \/ RenameTells
       \/ \E p \in Procs : Publish(p)
       \/ \E ok \in BOOLEAN : FinishTells(ok)
       \/ \E j \in Jobs : QueueTells(j) \/ SendTells(j)
       \/ Browser
    /\ UNCHANGED indexedVars
    /\ Watching

-----------------------------------------------------------------------------
(* SearchService.search.                                                   *)

\* The best of S, as many as the search asks for.
Best(S) == kSubset(IF Cardinality(S) < Limit THEN Cardinality(S) ELSE Limit, S)

\* A row, or a point whose row is gone: its document was deleted or is leaky, or a
\* run has it on its list of points to delete.
Accounted(id) ==
    \/ id \in AllRows \/ ~Live(id[1])
    \/ \E l \in leaky : l[1] = id[1]
    \/ \E p \in Procs : id \in known[p].old

Crowds(S) == Cardinality({id \in S : Accounted(id)}) > Limit

After(step) == IF step = "keyword" /\ "semantic" \in search.ways THEN "vector" ELSE "nodes"

StartSearch(ways) ==
    /\ Searched /\ search.at = "none"
    /\ search' = [NoSearch EXCEPT !.at = IF "keyword" \in ways THEN "keyword" ELSE "vector",
                                  !.ways = ways,
                                  !.settled = {n \in Nodes : Settled(n)}]
    /\ UNCHANGED <<allVars, indexedVars>>

\* searchKeyword: chunk rows only, those of deleted documents too.
SearchKeyword ==
    /\ search.at = "keyword"
    /\ \E best \in Best(AllRows) :
         search' = [search EXCEPT !.at = After("keyword"), !.hits = best,
                                  !.crowded = Crowds(AllRows)]
    /\ UNCHANGED <<allVars, indexedVars>>

\* The vector store's search: points, or rows with their embeddings.
SearchVectors ==
    /\ search.at = "vector"
    /\ LET pool == IF Separate THEN points ELSE AllRows
       IN  \E best \in Best(pool) :
             search' = [search EXCEPT !.at = "chunks", !.near = best,
                                      !.crowded = @ \/ Crowds(pool)]
    /\ UNCHANGED <<allVars, indexedVars>>

\* The rows of the vector hits, merged with the hits by words.
MergeHits ==
    /\ search.at = "chunks"
    /\ search' = [search EXCEPT !.at = "nodes", !.near = {},
                                !.hits = @ \cup (search.near \cap AllRows)]
    /\ UNCHANGED <<allVars, indexedVars>>

\* Hits whose node is gone are dropped; the rest is ranked and cut off.
RankHits ==
    /\ search.at = "nodes"
    /\ LET found == {id \in search.hits : Live(id[1])}
       IN  \E best \in Best(found) :
             search' = [search EXCEPT !.at = "final", !.hits = best,
                                      !.crowded = @ \/ Cardinality(found) > Limit]
    /\ UNCHANGED <<allVars, indexedVars>>

\* The rows of the results are read again; those replaced meanwhile are left out.
ReadResults ==
    /\ search.at = "final"
    /\ search' = [search EXCEPT !.at = "done", !.hits = @ \cap AllRows]
    /\ UNCHANGED <<allVars, indexedVars>>

SearchSteps ==
    \/ \E ways \in SUBSET {"keyword", "semantic"} : ways # {} /\ StartSearch(ways)
    \/ SearchKeyword \/ SearchVectors \/ MergeHits \/ RankHits \/ ReadResults

-----------------------------------------------------------------------------
SearchInit ==
    /\ ViewInit
    /\ ids = [n \in Nodes |-> 0]
    /\ points = IF Searched /\ Separate THEN AllRows ELSE {}
    /\ known = [p \in Procs |-> Through]
    /\ search = NoSearch
    /\ leaky = {}

SearchNext ==
    \/ \E p \in Procs : \/ Indexes(p) \/ ListPrevious(p)
                        \/ DropPoints(p) \/ UpsertPoints(p)
    \/ Dies
    \/ Otherwise
    \/ SearchSteps

SearchSpec == SearchInit /\ [][SearchNext]_<<allVars, searchVars>>

-----------------------------------------------------------------------------
(* Properties.                                                             *)

\* A search finds every chunk of the stored content of each document that
\* nobody was at work on since it began, by words and by vectors, whatever
\* happens to other documents at the same time - unless others took its place:
\* more rows than are asked for, those of deleted documents and those being
\* replaced among them, or points that deletions, overlapping runs or runs cut
\* off half way have left behind.
SearchExact ==
    search.at = "done" /\ ~search.crowded
      => \A n \in search.settled : \A x \in Rows(blob[n]) :
            <<n, ids[n], x[1]>> \in search.hits
=============================================================================
