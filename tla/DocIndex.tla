------------------------------ MODULE DocIndex ------------------------------
(***************************************************************************)
(* The write path of a corpus and the index derived from it:               *)
(*   - FileManagerService (create, save, delete) running once per HTTP or  *)
(*     MCP request, many requests interleaved at every await;              *)
(*   - the pg-boss queue evu-kb-index and the one worker that drains it;   *)
(*   - IndexService.indexNode, run by that worker and, for OKF bootstrap,  *)
(*     directly by a request;                                              *)
(*   - CitationValidateService.validateNode, whose result is written with  *)
(*     the index status it read before probing;                            *)
(*   - the reindex-needing sweep, reindexing of a whole corpus, failed-job *)
(*     retry and delete.                                                   *)
(*                                                                         *)
(* A step is what happens between two awaits that touch shared state: one  *)
(* SQL statement, one blob-store call, one pg-boss call.  Documents are    *)
(* markdown files of one corpus; links, vectors, node metadata, usage and  *)
(* audit records and corpus counters are not in this module's state.       *)
(***************************************************************************)
EXTENDS Naturals, FiniteSets

CONSTANTS
    Nodes,        \* node ids (uuids: an id is never used twice)
    Existing,     \* the nodes already stored and indexed when we start
    Contents,     \* document contents
    NoContent,    \* no hash in the row, no file in the blob store
    ChunkCount,   \* number of chunks the parser makes of a content
    Requests,     \* API calls, each served once
    Bootstraps,   \* the requests that are OKF bootstrap's synthesised index.md
    Worker,       \* the handler of queue evu-kb-index
    NoNode, NoJob,
    RetryLimit,   \* pg-boss retryLimit of a job
    Ops,          \* the operations requests may perform
    Faults,       \* the partial failures that may happen
    MaxCrashes    \* bound on process crashes

ASSUME ContentAssumption ==
    /\ NoContent \notin Contents
    /\ ChunkCount \in [Contents \cup {NoContent} -> Nat]
    /\ ChunkCount[NoContent] = 0

ASSUME ProcAssumption ==
    /\ Existing \subseteq Nodes
    /\ Bootstraps \subseteq Requests
    /\ Worker \notin Requests
    /\ NoNode \notin Nodes
    /\ NoJob \notin Requests \X Nodes

ASSUME BoundAssumption ==
    /\ RetryLimit \in Nat
    /\ MaxCrashes \in Nat
    /\ Ops \subseteq {"save", "create", "delete", "validate", "sweep", "reindex"}
    /\ Faults \subseteq {"index", "mirror", "send"}

Procs == Requests \cup {Worker}

\* A job is named by the request that sends it and the node it indexes.
Jobs == Requests \X Nodes

IndexStatus == {"pending", "indexing", "indexed", "stale", "failed"}
NeedingAttention == {"pending", "stale", "failed"}

\* Where a request stands in saveContent / createFile, in deleteNodes,
\* in validateNode and in enqueueNeedingAttention.
WritePc  == {"put", "update", "mirror", "meta"}
DeletePc == {"unlink", "blobdel", "rowdel"}
\* Where a run of indexNode stands; "schedule" is what follows it in onIndexNode.
IndexPc  == {"start", "mark", "read", "delete", "insert", "commit", "stats", "schedule"}
\* "aborted": ended by an error or a crash after it had begun to change state.
Pc == {"idle", "probe", "sweep", "done", "aborted"}
         \cup WritePc \cup DeletePc \cup IndexPc

JobState == {"none", "sending", "queued", "active", "completed", "failed", "deleted"}

VARIABLES
    row,        \* knowledge_nodes: does the row exist
    hash,       \* its content_hash; storage_rel_path is set with it
    status,     \* its index_status
    stamped,    \* its indexed_at is not null
    unmarked,   \* nodes whose last attempt threw where no catch writes 'failed', with
                \* no verdict of indexNode written since (kept for Settles only)
    blob,       \* the blob store, by node (managed/<nodeId>)
    mirror,     \* the mounted folder of an import_writeback corpus
    chunks,     \* knowledge_chunks of the node: {<<ordinal, content>>}
    pc, on, val,\* what each process is doing, on which node, with which content
    seen,       \* the index status validateNode read before probing
    todo,       \* the nodes a sweep has still to enqueue
    job, left,  \* pg-boss jobs and their remaining retries
    held,       \* the job the worker is running
    crashes

nodeVars == <<row, hash, status, stamped, unmarked>>
procVars == <<pc, on, val, seen, todo>>
jobVars  == <<job, left, held>>
vars == <<nodeVars, blob, mirror, chunks, procVars, jobVars, crashes>>

\* What replaceForNode inserts for a content.
Rows(c) == {<<k, c>> : k \in 0 .. (ChunkCount[c] - 1)}

Live(n)  == row[n] = "live"
Fresh(n) == chunks[n] = Rows(blob[n])

TypeOK ==
    /\ row \in [Nodes -> {"absent", "live", "gone"}]
    /\ hash \in [Nodes -> Contents \cup {NoContent}]
    /\ status \in [Nodes -> IndexStatus]
    /\ stamped \in [Nodes -> BOOLEAN]
    /\ unmarked \subseteq Nodes
    /\ blob \in [Nodes -> Contents \cup {NoContent}]
    /\ mirror \in [Nodes -> Contents \cup {NoContent}]
    /\ chunks \in [Nodes -> SUBSET (Nat \X Contents)]
    /\ pc \in [Procs -> Pc]
    /\ on \in [Procs -> Nodes \cup {NoNode}]
    /\ val \in [Procs -> Contents \cup {NoContent}]
    /\ seen \in [Requests -> IndexStatus]
    /\ todo \in [Requests -> SUBSET Nodes]
    /\ job \in [Jobs -> JobState]
    /\ left \in [Jobs -> 0 .. RetryLimit]
    /\ held \in Jobs \cup {NoJob}
    /\ crashes \in 0 .. MaxCrashes

Init ==
    /\ row = [n \in Nodes |-> IF n \in Existing THEN "live" ELSE "absent"]
    /\ blob \in {b \in [Nodes -> Contents \cup {NoContent}] :
                    \A n \in Nodes : b[n] = NoContent <=> n \notin Existing}
    /\ hash = blob
    /\ mirror = blob
    /\ chunks = [n \in Nodes |-> Rows(blob[n])]
    /\ status = [n \in Nodes |-> IF n \in Existing THEN "indexed" ELSE "pending"]
    /\ stamped = [n \in Nodes |-> n \in Existing]
    /\ unmarked = {}
    /\ pc = [p \in Procs |-> "idle"]
    /\ on = [p \in Procs |-> NoNode]
    /\ val = [p \in Procs |-> NoContent]
    /\ seen = [r \in Requests |-> "pending"]
    /\ todo = [r \in Requests |-> {}]
    /\ job = [j \in Jobs |-> "none"]
    /\ left = [j \in Jobs |-> RetryLimit]
    /\ held = NoJob
    /\ crashes = 0

-----------------------------------------------------------------------------
(* Node rows.  Every status write is one UPDATE by id: no version check,   *)
(* no effect on a row that is gone, indexed_at reset unless it is given.   *)

SetStatus(n, s, stamp) ==
    IF Live(n)
      THEN /\ status' = [status EXCEPT ![n] = s]
           /\ stamped' = [stamped EXCEPT ![n] = stamp]
      ELSE UNCHANGED <<status, stamped>>

Goto(p, to) == pc' = [pc EXCEPT ![p] = to]

-----------------------------------------------------------------------------
(* saveContent and createFile.                                             *)

\* The checks of saveContent and its read of the node row.
StartSave(r, n, c) ==
    /\ "save" \in Ops
    /\ pc[r] = "idle" /\ r \notin Bootstraps
    /\ Live(n)
    /\ Goto(r, "put")
    /\ on' = [on EXCEPT ![r] = n]
    /\ val' = [val EXCEPT ![r] = c]
    /\ UNCHANGED <<nodeVars, blob, mirror, chunks, seen, todo, jobVars, crashes>>

\* createFile inserts the row first: pending, no hash, no storage path.
StartCreate(r, n, c) ==
    /\ "create" \in Ops
    /\ pc[r] = "idle"
    /\ row[n] = "absent"
    /\ row' = [row EXCEPT ![n] = "live"]
    /\ status' = [status EXCEPT ![n] = "pending"]
    /\ stamped' = [stamped EXCEPT ![n] = FALSE]
    /\ Goto(r, "put")
    /\ on' = [on EXCEPT ![r] = n]
    /\ val' = [val EXCEPT ![r] = c]
    /\ UNCHANGED <<hash, unmarked, blob, mirror, chunks, seen, todo, jobVars, crashes>>

\* blobStore.put
Put(r) ==
    /\ pc[r] = "put"
    /\ blob' = [blob EXCEPT ![on[r]] = val[r]]
    /\ Goto(r, "update")
    /\ UNCHANGED <<nodeVars, mirror, chunks, on, val, seen, todo, jobVars, crashes>>

\* nodes.updateContent: hash and status; throws when the row is gone.
Update(r) ==
    /\ pc[r] = "update"
    /\ IF Live(on[r])
         THEN /\ hash' = [hash EXCEPT ![on[r]] = val[r]]
              /\ status' = [status EXCEPT ![on[r]] = "pending"]
              /\ Goto(r, "mirror")
         ELSE /\ Goto(r, "aborted")
              /\ UNCHANGED <<hash, status>>
    /\ UNCHANGED <<row, stamped, unmarked, blob, mirror, chunks, on, val, seen, todo,
                   jobVars, crashes>>

\* The writeback hook copies the content to the mounted folder.
Mirror(r) ==
    /\ pc[r] = "mirror"
    /\ mirror' = [mirror EXCEPT ![on[r]] = val[r]]
    /\ Goto(r, "meta")
    /\ UNCHANGED <<nodeVars, blob, chunks, on, val, seen, todo, jobVars, crashes>>

\* The writeback hook throws: the request fails with the content stored.
MirrorFails(r) ==
    /\ "mirror" \in Faults
    /\ pc[r] = "mirror"
    /\ Goto(r, "aborted")
    /\ UNCHANGED <<nodeVars, blob, mirror, chunks, on, val, seen, todo, jobVars, crashes>>

\* applyMarkdownMetadata marks the node pending once more; onContentChanged
\* then sends the index job in the background and the request returns.  OKF
\* bootstrap goes on to index the node itself.
Meta(r) ==
    /\ pc[r] = "meta"
    /\ SetStatus(on[r], "pending", FALSE)
    /\ job' = [job EXCEPT ![<<r, on[r]>>] = "sending"]
    /\ Goto(r, IF r \in Bootstraps THEN "start" ELSE "done")
    /\ val' = [val EXCEPT ![r] = NoContent]
    /\ UNCHANGED <<row, hash, unmarked, blob, mirror, chunks, on, seen, todo, left, held,
                   crashes>>

MutantEnqueuedOnce(j) ==
    IF \E k \in Jobs : k[2] = j[2] /\ job[k] \in {"queued", "active"}
      THEN "none" ELSE "queued"

\* enqueueIndex: every send makes a job, whatever jobs the node already has.
Enqueued(j) == "queued"

\* The background part of onContentChanged: look the node up, then enqueue.
Send(j) ==
    /\ job[j] = "sending"
    /\ job' = [job EXCEPT ![j] = IF Live(j[2]) THEN Enqueued(j) ELSE "none"]
    /\ UNCHANGED <<nodeVars, blob, mirror, chunks, procVars, left, held, crashes>>

\* It fails: the error is logged and nobody is told.
SendFails(j) ==
    /\ "send" \in Faults
    /\ job[j] = "sending"
    /\ job' = [job EXCEPT ![j] = "none"]
    /\ pc' = [pc EXCEPT ![j[1]] = IF @ = "done" THEN "aborted" ELSE @]
    /\ UNCHANGED <<nodeVars, blob, mirror, chunks, on, val, seen, todo, left, held, crashes>>

-----------------------------------------------------------------------------
(* deleteNodes of one file: the mirrored file, the blob, then the row.     *)
(* Chunk rows are left behind.                                             *)

\* The row is listed once; a node without a storage path keeps its blob.
StartDelete(r, n) ==
    /\ "delete" \in Ops
    /\ pc[r] = "idle" /\ r \notin Bootstraps
    /\ Live(n)
    /\ Goto(r, "unlink")
    /\ on' = [on EXCEPT ![r] = n]
    /\ val' = [val EXCEPT ![r] = hash[n]]
    /\ UNCHANGED <<nodeVars, blob, mirror, chunks, seen, todo, jobVars, crashes>>

Unlink(r) ==
    /\ pc[r] = "unlink"
    /\ mirror' = [mirror EXCEPT ![on[r]] = NoContent]
    /\ Goto(r, "blobdel")
    /\ UNCHANGED <<nodeVars, blob, chunks, on, val, seen, todo, jobVars, crashes>>

DeleteBlob(r) ==
    /\ pc[r] = "blobdel"
    /\ blob' = [blob EXCEPT ![on[r]] = IF val[r] = NoContent THEN @ ELSE NoContent]
    /\ Goto(r, "rowdel")
    /\ UNCHANGED <<nodeVars, mirror, chunks, on, val, seen, todo, jobVars, crashes>>

DeleteRow(r) ==
    /\ pc[r] = "rowdel"
    /\ row' = [row EXCEPT ![on[r]] = "gone"]
    /\ Goto(r, "done")
    /\ UNCHANGED <<hash, status, stamped, unmarked, blob, mirror, chunks, on, val, seen,
                   todo, jobVars, crashes>>

-----------------------------------------------------------------------------
(* validateNode: one citation job at a time reads the node, probes every   *)
(* URL, and writes back the status it read.                                *)

StartValidate(r, n) ==
    /\ "validate" \in Ops
    /\ pc[r] = "idle" /\ r \notin Bootstraps
    /\ \A q \in Requests : pc[q] # "probe"
    /\ Live(n) /\ hash[n] # NoContent /\ blob[n] # NoContent
    /\ Goto(r, "probe")
    /\ on' = [on EXCEPT ![r] = n]
    /\ seen' = [seen EXCEPT ![r] = status[n]]
    /\ UNCHANGED <<nodeVars, blob, mirror, chunks, val, todo, jobVars, crashes>>

WriteValidation(r) ==
    /\ pc[r] = "probe"
    /\ SetStatus(on[r], seen[r], FALSE)
    /\ Goto(r, "done")
    /\ UNCHANGED <<row, hash, unmarked, blob, mirror, chunks, on, val, seen, todo, jobVars, crashes>>

-----------------------------------------------------------------------------
(* enqueueNeedingAttention and runCorpusReindex: one read of the corpus,   *)
(* then one send per node.                                                 *)

StartSweep(r, op) ==
    /\ op \in Ops
    /\ pc[r] = "idle" /\ r \notin Bootstraps
    /\ LET files == {n \in Nodes : /\ Live(n)
                                   /\ op = "reindex" \/ status[n] \in NeedingAttention}
       IN  /\ todo' = [todo EXCEPT ![r] = files]
           /\ Goto(r, IF files = {} THEN "done" ELSE "sweep")
    /\ UNCHANGED <<nodeVars, blob, mirror, chunks, on, val, seen, jobVars, crashes>>

SweepSend(r, n) ==
    /\ pc[r] = "sweep"
    /\ n \in todo[r]
    /\ job' = [job EXCEPT ![<<r, n>>] = Enqueued(<<r, n>>)]
    /\ todo' = [todo EXCEPT ![r] = @ \ {n}]
    /\ Goto(r, IF todo[r] = {n} THEN "done" ELSE "sweep")
    /\ UNCHANGED <<nodeVars, blob, mirror, chunks, on, val, seen, left, held, crashes>>

-----------------------------------------------------------------------------
(* The queue.  pg-boss hands the one worker one job at a time; a handler   *)
(* that throws puts the job back until its retries are used up.            *)

Fetch(j) ==
    /\ pc[Worker] = "idle"
    /\ job[j] = "queued"
    /\ job' = [job EXCEPT ![j] = "active"]
    /\ held' = j
    /\ Goto(Worker, "start")
    /\ on' = [on EXCEPT ![Worker] = j[2]]
    /\ UNCHANGED <<nodeVars, blob, mirror, chunks, val, seen, todo, left, crashes>>

MutantAttemptSwallowed(j) ==
    /\ job' = [job EXCEPT ![j] = "completed"]
    /\ UNCHANGED left

MutantAttemptUncounted(j) ==
    /\ job' = [job EXCEPT ![j] = IF left[j] > 0 THEN "queued" ELSE "active"]
    /\ left' = [left EXCEPT ![j] = IF @ > 0 THEN @ - 1 ELSE 0]

MutantAttemptUnderflows(j) ==
    /\ job' = [job EXCEPT ![j] = IF left[j] > 0 THEN "queued" ELSE "failed"]
    /\ left' = [left EXCEPT ![j] = @ - 1]

\* The attempt at job j is over without success.
AttemptFailed(j) ==
    /\ job' = [job EXCEPT ![j] = IF left[j] > 0 THEN "queued" ELSE "failed"]
    /\ left' = [left EXCEPT ![j] = IF @ > 0 THEN @ - 1 ELSE 0]

\* A job whose process crashed expires.
Expire(j) ==
    /\ job[j] = "active" /\ held # j
    /\ AttemptFailed(j)
    /\ UNCHANGED <<nodeVars, blob, mirror, chunks, procVars, held, crashes>>

\* The operator retries a failed job (one more attempt) or deletes it.
RetryFailedJob(j) ==
    /\ job[j] = "failed"
    /\ job' = [job EXCEPT ![j] = "queued"]
    /\ UNCHANGED <<nodeVars, blob, mirror, chunks, procVars, left, held, crashes>>

DeleteFailedJob(j) ==
    /\ job[j] = "failed"
    /\ job' = [job EXCEPT ![j] = "deleted"]
    /\ UNCHANGED <<nodeVars, blob, mirror, chunks, procVars, left, held, crashes>>

-----------------------------------------------------------------------------
(* indexNode, run by p: the worker, or a bootstrap request.                *)

\* p's run is over: the worker reports to pg-boss, a request returns.
Return(p, ok) ==
    IF p = Worker
      THEN /\ IF ok THEN /\ job' = [job EXCEPT ![held] = "completed"]
                         /\ UNCHANGED left
                    ELSE AttemptFailed(held)
           /\ held' = NoJob
           /\ Goto(Worker, "idle")
           /\ on' = [on EXCEPT ![Worker] = NoNode]
           /\ val' = [val EXCEPT ![Worker] = NoContent]
      ELSE /\ Goto(p, "done")
           /\ val' = [val EXCEPT ![p] = NoContent]
           /\ UNCHANGED <<jobVars, on>>

MutantCatchSilent(p) ==
    /\ Return(p, FALSE)
    /\ UNCHANGED <<nodeVars, blob, mirror, chunks, seen, todo, crashes>>

\* The catch block: mark the node failed and rethrow.
Catch(p) ==
    /\ SetStatus(on[p], "failed", FALSE)
    /\ unmarked' = unmarked \ {on[p]}
    /\ Return(p, FALSE)
    /\ UNCHANGED <<row, hash, blob, mirror, chunks, seen, todo, crashes>>

MutantIndexStartSkips(p) ==
    /\ pc[p] = "start"
    /\ IF Live(on[p]) /\ hash[on[p]] # NoContent /\ status[on[p]] # "indexed"
         THEN Goto(p, "mark") /\ UNCHANGED <<on, val, jobVars>>
         ELSE Return(p, TRUE)
    /\ UNCHANGED <<nodeVars, blob, mirror, chunks, seen, todo, crashes>>

\* Read the node; without a row or a storage path throw.
IndexStart(p) ==
    /\ pc[p] = "start"
    /\ IF Live(on[p]) /\ hash[on[p]] # NoContent
         THEN Goto(p, "mark") /\ UNCHANGED <<on, val, jobVars>>
         ELSE Return(p, FALSE)
    /\ UNCHANGED <<nodeVars, blob, mirror, chunks, seen, todo, crashes>>

\* The workspace's settings are read next, still outside the try.
IndexMark(p) ==
    /\ pc[p] = "mark"
    /\ SetStatus(on[p], "indexing", FALSE)
    /\ Goto(p, "read")
    /\ UNCHANGED <<row, hash, unmarked, blob, mirror, chunks, on, val, seen, todo, jobVars,
                   crashes>>

\* blobStore.get: a missing file throws.  Parsing and embedding follow.
IndexRead(p) ==
    /\ pc[p] = "read"
    /\ IF blob[on[p]] # NoContent
         THEN /\ val' = [val EXCEPT ![p] = blob[on[p]]]
              /\ Goto(p, "delete")
              /\ UNCHANGED <<nodeVars, blob, mirror, chunks, on, seen, todo, jobVars, crashes>>
         ELSE Catch(p)

\* replaceForNode, first statement.
IndexDelete(p) ==
    /\ pc[p] = "delete"
    /\ chunks' = [chunks EXCEPT ![on[p]] = {}]
    /\ Goto(p, "insert")
    /\ UNCHANGED <<nodeVars, blob, mirror, on, val, seen, todo, jobVars, crashes>>

MutantNeverCollides(n, c) == FALSE

\* The unique index on (node_id, ordinal) refuses the INSERT.
Collides(n, c) ==
    \E old \in chunks[n], new \in Rows(c) : old[1] = new[1]

\* replaceForNode, second statement.
IndexInsert(p) ==
    /\ pc[p] = "insert"
    /\ IF Collides(on[p], val[p])
         THEN Catch(p)
         ELSE /\ chunks' = [chunks EXCEPT ![on[p]] = @ \cup Rows(val[p])]
              /\ Goto(p, "commit")
              /\ UNCHANGED <<nodeVars, blob, mirror, on, val, seen, todo, jobVars, crashes>>

MutantCommitUnstamped(p) ==
    /\ pc[p] = "commit"
    /\ SetStatus(on[p], "indexed", FALSE)
    /\ unmarked' = unmarked \ {on[p]}
    /\ Goto(p, "stats")
    /\ UNCHANGED <<row, hash, blob, mirror, chunks, on, val, seen, todo, jobVars, crashes>>

\* The node is marked indexed whatever its status has become meanwhile.
IndexCommit(p) ==
    /\ pc[p] = "commit"
    /\ SetStatus(on[p], "indexed", TRUE)
    /\ unmarked' = unmarked \ {on[p]}
    /\ Goto(p, "stats")
    /\ UNCHANGED <<row, hash, blob, mirror, chunks, on, val, seen, todo, jobVars, crashes>>

\* Corpus counters, still inside the try.
IndexStats(p) ==
    /\ pc[p] = "stats"
    /\ IF p = Worker
         THEN Goto(p, "schedule") /\ UNCHANGED <<jobVars, on, val>>
         ELSE Return(p, TRUE)
    /\ UNCHANGED <<nodeVars, blob, mirror, chunks, seen, todo, crashes>>

\* Anything inside the try may throw: embedding, a statement, the counters.
IndexThrows(p) ==
    /\ "index" \in Faults
    /\ pc[p] \in {"read", "delete", "insert", "commit", "stats"}
    /\ Catch(p)

\* pg-boss will not call the run's handler again for the same job.
LastAttempt(p) == p # Worker \/ left[held] = 0

\* A throw that no catch answers: of a read or of the status write before the
\* try, or of the catch block's own UPDATE.  The status stays what it is.
IndexEscapes(p) ==
    /\ "index" \in Faults
    /\ pc[p] \in IndexPc \ {"schedule"}
    /\ Return(p, FALSE)
    /\ unmarked' = IF LastAttempt(p) THEN unmarked \cup {on[p]} ELSE unmarked
    /\ UNCHANGED <<row, hash, status, stamped, blob, mirror, chunks, seen, todo, crashes>>

\* scheduleValidationIfNeeded ends the job's handler, or throws outside the try.
FinishJob(ok) ==
    /\ pc[Worker] = "schedule"
    /\ ok \/ "index" \in Faults
    /\ Return(Worker, ok)
    /\ UNCHANGED <<nodeVars, blob, mirror, chunks, seen, todo, crashes>>

-----------------------------------------------------------------------------
(* The process dies and restarts.  The database and the blob store keep    *)
(* what was written; requests, background sends and runs are forgotten,    *)
(* and the job that was running stays active until it expires.             *)

Crash ==
    /\ crashes < MaxCrashes
    /\ crashes' = crashes + 1
    /\ pc' = [p \in Procs |->
                IF p = Worker THEN "idle"
                ELSE IF \/ pc[p] \notin {"idle", "done"}
                        \/ \E n \in Nodes : job[<<p, n>>] = "sending"
                     THEN "aborted" ELSE pc[p]]
    /\ on' = [on EXCEPT ![Worker] = NoNode]
    /\ val' = [val EXCEPT ![Worker] = NoContent]
    /\ job' = [j \in Jobs |-> IF job[j] = "sending" THEN "none" ELSE job[j]]
    /\ held' = NoJob
    /\ UNCHANGED <<nodeVars, blob, mirror, chunks, seen, todo, left>>

-----------------------------------------------------------------------------
Begin(r) ==
    \/ \E n \in Nodes, c \in Contents : StartSave(r, n, c) \/ StartCreate(r, n, c)
    \/ \E n \in Nodes : StartDelete(r, n) \/ StartValidate(r, n)
    \/ StartSweep(r, "sweep") \/ StartSweep(r, "reindex")

Continue(r) ==
    \/ Put(r) \/ Update(r) \/ Mirror(r) \/ Meta(r)
    \/ Unlink(r) \/ DeleteBlob(r) \/ DeleteRow(r)
    \/ WriteValidation(r)
    \/ \E n \in Nodes : SweepSend(r, n)

Index(p) ==
    \/ IndexStart(p) \/ IndexMark(p) \/ IndexRead(p) \/ IndexDelete(p)
    \/ IndexInsert(p) \/ IndexCommit(p) \/ IndexStats(p)

Failure ==
    \/ \E r \in Requests : MirrorFails(r)
    \/ \E j \in Jobs : SendFails(j)
    \/ \E p \in Procs : IndexThrows(p) \/ IndexEscapes(p)
    \/ FinishJob(FALSE)
    \/ Crash

Operator == \E j \in Jobs : RetryFailedJob(j) \/ DeleteFailedJob(j)

Next ==
    \/ \E r \in Requests : Begin(r) \/ Continue(r)
    \/ \E p \in Procs : Index(p)
    \/ FinishJob(TRUE)
    \/ \E j \in Jobs : Send(j) \/ Fetch(j) \/ Expire(j)
    \/ Failure
    \/ Operator

Spec == Init /\ [][Next]_vars

(***************************************************************************)
(* Fairness.  Node's event loop resumes every handler whose await has      *)
(* settled; pg-boss polls, fetches oldest first and expires active jobs.   *)
(* Nothing makes a client call, an operator act, or a fault happen.        *)
(***************************************************************************)
Fairness ==
    /\ \A r \in Requests : WF_vars(Continue(r))
    /\ \A p \in Procs : WF_vars(Index(p))
    /\ WF_vars(FinishJob(TRUE))
    /\ \A j \in Jobs : WF_vars(Send(j)) /\ SF_vars(Fetch(j)) /\ WF_vars(Expire(j))

FairSpec == Spec /\ Fairness

-----------------------------------------------------------------------------
(* What must hold.                                                         *)

\* A job or a request other than the worker's current run that will bring
\* the index of n up to date, or that is on record as not having managed to.
OwingJob == {"sending", "queued", "active", "failed", "deleted"}
OwingPc  == (WritePc \ {"put"}) \cup {"rowdel", "aborted"}

Owed(n) ==
    \/ \E r \in Requests : <<r, n>> # held /\ job[<<r, n>>] \in OwingJob
    \/ \E r \in Requests : on[r] = n /\ pc[r] \in OwingPc

\* The worker is on n and has not read an older content than the stored one.
WorkerOnIt(n) ==
    /\ on[Worker] = n
    /\ \/ pc[Worker] \in {"start", "mark", "read"}
       \/ pc[Worker] \in IndexPc /\ val[Worker] = blob[n]

(***************************************************************************)
(* No content change is forgotten: while the chunks of a live node are not *)
(* those of its stored content, a job or a request will still index it, or *)
(* a failed job or an aborted request is on record for it.  Broken by a    *)
(* save that enqueues before it stores, by a retry that drops the job, or  *)
(* by two runs of indexNode on one node (see QuiescentFresh).              *)
(***************************************************************************)
NothingLost ==
    \A n \in Nodes : Live(n) /\ ~Fresh(n) => Owed(n) \/ WorkerOnIt(n)

(***************************************************************************)
(* Search never sees a mixture: the chunk rows of a node are those of one  *)
(* content, all of them or none, however many runs of indexNode overlap    *)
(* and wherever one is cut off.                                            *)
(***************************************************************************)
WholeVersion ==
    \A n \in Nodes :
        chunks[n] = {} \/ \E c \in Contents : chunks[n] = Rows(c)

(***************************************************************************)
(* A status other than indexed has someone working on it: when every job   *)
(* and request has ended well, every live node is shown as indexed.        *)
(***************************************************************************)
Quiet ==
    /\ \A p \in Procs : pc[p] \in {"idle", "done"}
    /\ \A j \in Jobs : job[j] \in {"none", "completed"}

QuietIsSettled ==
    Quiet => \A n \in Nodes : Live(n) => status[n] = "indexed"

(***************************************************************************)
(* Reindex when the file content changes: with nothing left to do, the     *)
(* index holds the stored content of every live node.                      *)
(***************************************************************************)
QuiescentFresh ==
    Quiet => \A n \in Nodes : Live(n) => Fresh(n)

(***************************************************************************)
(* Saving ends in an indexed document: once clients stop calling, every    *)
(* live node comes to have its current content indexed and is shown so,    *)
(* unless a job of it keeps failing or was deleted, or a crash cut it off. *)
(***************************************************************************)
GivenUp(n) ==
    \/ \E r \in Requests : job[<<r, n>>] \in {"failed", "deleted"}
    \/ crashes > 0

Converges ==
    \A n \in Nodes :
        \/ <>[](Live(n) => Fresh(n) /\ status[n] = "indexed" /\ stamped[n])
        \/ []<>GivenUp(n)

(***************************************************************************)
(* A node does not stay pending or indexing for ever, even if its indexing *)
(* keeps failing and is retried: unless the process has crashed, its       *)
(* status always comes back to indexed or failed.  This is what the catch  *)
(* of indexNode is for.  It does not reach a throw outside the try or one  *)
(* of its own UPDATE: if that ends the last attempt of a job, the status   *)
(* stays indexing (or pending) until somebody saves or reindexes the node, *)
(* and a sweep passes over a node that is indexing.  Such a node is in     *)
(* unmarked.                                                               *)
(***************************************************************************)
Settles ==
    \A n \in Nodes :
        []<>(Live(n) /\ crashes = 0 /\ n \notin unmarked
               => status[n] \in {"indexed", "failed"})

(***************************************************************************)
(* Every job sent is run to a verdict, across crashes of the process.      *)
(***************************************************************************)
JobsDrain ==
    \A j \in Jobs :
        job[j] \in {"queued", "active"}
          ~> job[j] \in {"completed", "failed", "deleted"}
=============================================================================
