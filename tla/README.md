# EvuKB: models, checks and proofs

EvuKB is a knowledge-base server: corpora of markdown documents, an index over
them, agents that write, and external folders or git repositories that are
synced in. One Node process serves HTTP and MCP; Postgres holds rows and the
pg-boss queues; a local blob store holds contents; Qdrant may hold the vectors.
Handlers interleave at every `await`, nothing takes a lock, no statement group
is a transaction, and most work that follows a change is a queue job. What can
go wrong is therefore the order of steps of several handlers, a step that fails
between two others, and a process that dies there. The modules here are about
that.

Paths below are under `src/packages/` unless they start with `docs/` or `SPEC`;
a file without a directory is in `kb-server/src/services/`.

## 1. Inventory

| Component | State | Operations | Talks to |
|---|---|---|---|
| File manager (`file-manager/crud.ts`) | `knowledge_nodes` rows, blobs | create, save, append, rename, move, delete | blob store, mount writeback, index, maintenance and git queues |
| Index service (`index-service.ts`, `chunk-repository.ts`) | `index_status`, `indexed_at`, chunk rows, links, vectors | `indexNode`, `replaceForNode` | blob store, link graph, vector store, event hub |
| Job queue (`jobs/job-queue-service.ts`) | pg-boss jobs, 12 queues, one worker each | send, fetch, retry, expire, operator retry and delete | every handler |
| Index jobs (`index-job-service.ts`) | none | reindex-needing sweep, reindexing of a corpus | job queue |
| Citation validation (`citation-validate-service.ts`) | node metadata, index status | `validateNode` after indexing, or on request | network, node rows |
| Link graph (`link-graph-service.ts`, `link-repository.ts`) | link rows | replace, resolve, backlinks, neighbourhood | node rows |
| Event hub (`corpus-index-event-hub.ts`) and the file list of the web page | subscribers by corpus, in memory; the list | publish, event stream, load | index service, file manager |
| Search and ask (`search-service.ts`, `ask-service.ts`) | none | search by words and vectors, answers | chunks, vector store, chat provider |
| Mutation approval (`mutation-approval-service.ts`) | approval records | gate, approve, reject | agent writes |
| Agent writes (`agent-write-service.ts`, `kb-core/src/agent-write/path-policy.ts`) | none of its own | append, create, update, delete after policy checks | file manager |
| Mount and git sync (`sync-import-service.ts`, `mount-sync-service.ts`, `git-sync-service.ts`) | `settings.syncStatus`, synced rows, git clone | `enqueueSync`, `runSync`, `importScannedFiles` | queue, blob store, index queue |
| Sync schedule (`sync-schedule-service.ts`) | none | the cron tick | sync |
| Mount writeback (`mount-writeback-service.ts`) | the mounted folder | mirror of saves and deletes | file manager |
| Git writeback (`git-writeback-service.ts`) | the same git clone, remote branch | commit and push, fail closed on divergence | sync settings, job queue |
| OKF maintenance (`okf-maintenance-service.ts`) | `index.md`, `log.md` of a folder | debounced upkeep | file manager |
| OKF conversion and bootstrap (`okf-service.ts`) | documents, corpus settings | convert, bootstrap, export | file manager, index service |
| Portable archives (`portable-service.ts`, `archive-import-service.ts`) | none of their own | export, portable import, import of any zip | node rows, blob store, links, index queue |

The hard behaviours, and for each component what makes it correct:

- **File manager and index.** `saveContent` writes the blob, then the row, then
  the mirror, then metadata, and sends its index job in the background.
  `indexNode` reads the blob, works for seconds, replaces chunks in two
  statements, and writes `indexed` whatever happened meanwhile. Nothing
  deduplicates jobs of a node, and that is what saves the scheme: a later save
  always has a later job. Correct when no change is forgotten, chunks are never
  a mixture of two contents, and quiet means fresh.
- **Links** are resolved against a listing read before they are written, and
  links of others are pointed at a document when it is indexed. Correct when a
  link leads to the file it names once everything is indexed.
- **Event hub and file list.** Events are kept nowhere, loads of the list and
  events overtake each other, streams end. Correct when the list comes to show
  the stored status.
- **Search** reads candidates, nodes and rows in up to five calls while the
  index changes under it. Correct when what nobody touches is found.
- **Approval.** `approve` reads the record, applies the mutation, then marks the
  record. Correct when a verdict holds, an applied record had its effect, and
  nothing gated runs unapproved; and when layers of path prefixes only narrow.
- **Sync.** The importer works file by file, survives a failing file, prunes
  what it has not kept, and sends index jobs last; a run may be retried after a
  partial one. Correct when it removes nothing that is in the tree, leaves
  managed documents alone, and converges to the source.
- **Git writeback** shares the clone with git sync and runs in another queue;
  divergence is judged by refs fetched earlier, and whoever else pushes is not
  asked. Correct when the remote never loses a commit, only edited files are
  committed, and what the rows say of the remote is true.
- **The tree.** A row says twice where it is, and a folder's move rewrites the
  rows below it one by one. Correct when both agree.
- **OKF maintenance** reads, extends and saves two files beside their editors;
  events within the debounce window share one job and the last is dropped.
  Correct when bullets follow the documents and nobody's text is lost.
- **Portable archives.** An import is hundreds of calls, any of which may fail,
  be overlapped by a client, or be repeated by a second import. Correct when the
  result holds what the archive held and nothing else was harmed.

`PROJECT.json` lists the hazards at their lines, also those no property covers
yet, with the reason.

## 2. Modules

```
RemoteHistory <- GitWriteback          ApprovalLedger <- MutationApproval
PathPolicy, NodeTree <- OkfMaintenance
DocIndex <- LinkGraph <- IndexView <- SearchIndex
SyncImport    PortableImport
```

An arrow `X <- Y` reads "`Y` extends or implements `X`". In all
modules a step is what happens between two awaits that touch shared state: one
SQL statement, one blob-store, file, git, Qdrant or pg-boss call. A content is a
model value or a small number; what a property does not tell apart is left out.

### DocIndex: documents and their index

State: the node row (`row`, `hash`, `status`, `stamped`), `blob`, `mirror` and
`chunks` by node; for every request and for the index worker where it stands
(`pc`, `on`, `val`, `seen`, `todo`); jobs with remaining retries; the job held.
`unmarked` is a history variable: the nodes a last attempt left `indexing`.

- `saveContent`/`createFile`: `StartSave` or `StartCreate`, `Put`, `Update`,
  `Mirror` (or `MirrorFails`), `Meta`; then `Send` (or `SendFails`) in the
  background.
- `deleteNodes`: `StartDelete`, `Unlink`, `DeleteBlob`, `DeleteRow`.
- `indexNode`: `IndexStart`, `IndexMark`, `IndexRead`, `IndexDelete`,
  `IndexInsert`, `IndexCommit`, `IndexStats`, with `IndexThrows` and `Catch`
  anywhere in the `try` and `IndexEscapes` for a throw before it or of the
  `catch` itself, then `FinishJob`. A request in `Bootstraps` runs it itself, as OKF
  bootstrap does for the index.md it synthesises.
- `validateNode`: `StartValidate`, `WriteValidation`. `enqueueNeedingAttention`
  and `runCorpusReindex`: `StartSweep`, `SweepSend`; the job that carries a
  corpus reindex is not modelled, its handler is a request that a crash loses.
- pg-boss: `Fetch`, `AttemptFailed`, `Expire`, and the operator's
  `RetryFailedJob` and `DeleteFailedJob`. `Crash` forgets what was in memory.

`ChunkCount` is all the index sees of a content, and 0 (an empty document) is
one of its values in every run.

### LinkGraph, IndexView, SearchIndex: what is built on the index

Each extends the one before and adds its steps to the same behaviours.

- `LinkGraph` gives nodes paths and puts the link steps of `indexNode` between
  `IndexInsert` and `IndexCommit`: `ListFiles` (the listing links are resolved
  against), `ClearLinks`, `InsertLinks`, `PatchIncoming`. `Rename` stands for
  `renameNode` and `moveNode` of a file. `scene` is chosen once and says what is
  stored, who calls what and what fails, so that one run checks several
  situations without their product.
- `IndexView` adds the event hub and one browser. `WillTell` and `Publish` are
  `#publishNodeStatus` after the status was written; `OpenStream`, `CloseStream`,
  `ShowEvent` the event stream; `StartLoad`, `FinishLoad` the file list's loads,
  whose answers may overtake each other and the events.
- `SearchIndex` adds row ids, the points of a separate vector store and one
  search. `ListPrevious`, `DropPoints`, `UpsertPoints` are the vector steps of
  `indexNode`; `SearchKeyword`, `SearchVectors`, `MergeHits`, `RankHits`,
  `ReadResults` the calls of `search`. Which candidates rank best is left open.

### MutationApproval and ApprovalLedger

A write request is executed once: `Execute` gates it or goes on. `Decide` is
the read at the start of `approve` and `reject`; `Resolve`, `Read`, `Insert`,
`Store`, `Remove` are `applyMutation` with its refusals and the throws of the
mirror and the audit, before or after the rows have changed; `Mark` is
`UPDATE ... WHERE status = 'pending'`. The file manager appears by outcome here;
its own steps are DocIndex's subject. `mode`, fixed at the start, says whether
calls race, with mirror faults and a crash, or are taken one after the other.
`ApprovalLedger` is what a queue of approvals promises: one step approves and
has the effect, at most once, and a verdict never changes. `Ledger` in
MutationApproval is the refinement mapping, for the orderly mode.

### SyncImport: external sync

State: the source (folder, or tree of the remote's tip), file rows by path, the
sync jobs, `syncStatus`, and `run`, the local state of `importScannedFiles`
(`keep` is its `keepSourceRefs`, `index` its `indexNodeIds`). `Call` and `Tick`
are `enqueueSync` from a client and from the schedule; `Send` follows the status
write. `Checkout`, `Scan`, `Read`, `Insert`, `Put`, `Upsert`, `Prune`, `Purge`,
`EnqueueIndex`, `Finish` are the run, `FileFails` the loop's `catch`, `RunFails`
everything outside the loop (it may leave the status as it was: the error may come
before the `try`, or the `catch`'s own update may fail). The index worker has two steps here, its first
read and its last write. `WriteManaged` and `DeleteManaged` are clients,
`Change` is whoever edits the folder or pushes.

### GitWriteback and RemoteHistory

State: commits (tree, parent, author), the remote's branches, the clone (its
branches, `FETCH_HEAD`, HEAD, index, working tree, what `--depth 1` cut off),
rows and contents of the imported files, the jobs of the writeback queue, and
where its worker and the sync worker stand. `Save` and `Delete` are clients with
the job they send; `Take`, `WbFetch`, `WbBranch`, `WbDiverged`, `WbApply`,
`WbStage`, `WbCommit`, `WbPush` are `runWriteback`; `SyncStart`, `SyncFetch`,
`SyncCheckout`, `SyncHead`, `SyncImport` are the git sync; `Foreign` is anyone who pushes,
`Reset` the operator removing the clone; `WbFails`, `SyncFails` and `Crash` cut
a run off, `TakeFails` is a throw before the run's try, which pg-boss answers with
a retry. A row that was pruned and imported again is another row (`born`), and a
job of the old one finds it gone (`RowGone`). `RemoteHistory` is the promise to the other users of the repository
(`docs/GIT-WRITEBACK.md`): a commit a branch contains stays in it, and one push
moves one branch; `RemoteKept` says that GitWriteback implements it.

git itself is external: its refusals (a checkout over local changes, a push that
is no fast-forward, a merge base behind the cut) are modelled from the commands
the services run. Left out: settings that change while jobs run, the fail-closed
checks of the environment except the missing clone, merges by others; saving, the
import's loop and the status write are one step each (SyncImport has the loop).

### PathPolicy, NodeTree and OkfMaintenance

`PathPolicy` is `intersectPrefixLayers` and `pathMatchesAnyPrefix` as operators;
`Granted`, "every layer allows it", is the reference definition.

`NodeTree` is the tree: `StartCreate` and `Insert` with the folder chain `Chain`
of agent writes, `StartSave`, `Store`, `StartRename`, `StartMove`, `List`,
`Shift` (one row of `updatePathsForPrefix`), `Write`, `StartDelete`,
`DeleteMany`. `OkfMaintenance` extends it with the queue: `Enqueue` is
`sendDebounced` (the first event of a folder takes the current slot of time, the
second the next, a third is dropped), `Take` reads the tree, `Merged` and
`NewText` make the new index.md and log.md, and the worker writes them like a
client, by the same calls. `Tick` ends a slot. `odd` records, by name, what has
happened that the properties make an exception for. `Listed` and `NothingStale`
are about a corpus that began `InOrder`, as a conversion that makes the missing
index.md files leaves it: what was unlisted before maintenance began it never
sees to.

### PortableImport

Rows (path, reference, hash, the place their content is stored at), blobs by
place, links, index jobs owed; per call its kind and position. `Export`,
`ReadDocument`, `Exported`; `Import`, then for each file `ByRef`, `ByPath` and
`Update`, `Adopt` or `Insert` (`upsertPortableFile`), `Store`, `Point`; `Relink`
and `Send` at the end, where a failure may also come between the two statements
that replace a document's links (`Relinked`); `Look` and `InsertManaged` for zips without a manifest;
`Create`, `Save`, `Rename`, `Delete` are clients; `Fails` and `Crash` happen
anywhere. All files are markdown in one folder. A client's job is sent with its
`updateContent`, and all link rows and all jobs of an import go in a step each,
of which a failure lets any part through.

### The MC modules

`MCDocIndex`, `MCIndexView`, `MCMutationApproval`, `MCSyncImport`,
`MCGitWriteback`, `MCOkfMaintenance` and `MCPortableImport` declare the model
values, the functions and the scenes a cfg cannot write down.

## 3. Runs

Symmetry is used only where no property is a liveness property, and over
requests, decisions or users, which are interchangeable. Deadlock checking is
off where clients may simply stop calling; SyncImport never stops, as the
schedule keeps ticking, so it stays on there.

| Run | Instance | Shows |
|---|---|---|
| DocIndexSafety | 1 document, 2 contents, 3 requests (saves, deletes, sweeps, validations), 1 retry, 1 crash, every fault | `NothingLost`, `QuiescentFresh` |
| DocIndexLive | 1 document to be created, 2 contents, 2 requests (also reindex-all), 2 retries, 1 crash, index faults | `QuietIsSettled`, `Converges`, `Settles`, `JobsDrain` |
| DocIndexBootstrap | 14 scenes of SearchIndex with 2 documents, up to 3 contents (one empty, one of two chunks): bootstrap beside the worker, a crash, two documents linking to each other, a page that is open, a validation, and a search for 3 chunks with pgvector or Qdrant beside creation, saves, deletes, a crash, failing or overlapping index runs | `WholeVersion`, `LinksExact`, `LinksOnce`, `ListSettles`, `SearchExact` |
| DocIndexCitation | a save and a validation, no failure | **violates** `QuietIsSettled` |
| ApprovalRace | 2 requests, 3 decisions, 2 paths of which 1 writable, corpus policy over workspace policy; racing with mirror faults and 1 crash, and in order | `VerdictHolds`, `AppliedHasEffect`, `GatedNeedsApproval`, the refinement `LedgerSpec` |
| ApprovalReject | 1 request, an approve and a reject in flight | **violates** `RejectLeavesContent` |
| SyncMount | 2 files, 2 contents, every setup, 1 edit, 1 failing call or crash, 1 retry | `TreeKept`, `ManagedKept`, `ImportedWhole`, `SyncConverges`, `SyncedSearchable` |
| SyncGit | 1 file, 1 push, nothing fails | **violates** `TreeKept` |
| GitWriteback | 2 files of which 1 is edited, target the synced branch or another, push on or off, 2 saves, 1 foreign push, 2 syncs, 1 removal of the clone, 1 failing command or job, or a crash | `OnlyEditedFiles`, `PushedIsThere`, `SourceRefTrue`, the refinement `RemoteKept` |
| GitEdits | 1 save, 2 syncs, nothing fails | **violates** `EditsNotDiscarded` |
| OkfMaintenance | folders `a` and `ab`, two documents, index.md and log.md: 2 calls that overlap, 1 call and a crash, or 3 calls one after the other on nested folders; all layers of at most 2 prefixes | `WellFormed`, `Listed`, `NothingStale`, `TextKept`, `LayersNarrow` |
| PortableImport | 7 scenes, 4 calls, 3 paths, 6 ids: a backup restored twice beside edits, an archive from elsewhere, from another workspace or of a renamed document, retries, a plain zip, two clients editing what was imported; 1 mishap | `Stored`, `Restored`, `ErrorsExplained`, `Untouched` |

Every passing run but DocIndexLive also checks the type invariant of its module.

Why these bounds. Documents do not interact in DocIndex except through the one
worker, so one document with several requests is where the races are; three
requests let a save overlap a save while a third party deletes or sweeps. Links
and searches take two documents: one that is at rest and one that is not, or two
that link to each other. One retry separates "retried" from "given up", and the
live run has two. One crash may fall between any two steps. In SyncImport two
files are needed for the loop (one done, one not, one kept, one pruned), and two
contents for "changed". In GitWriteback two files tell what was edited from what
was not, two saves give a job that follows another, two syncs one before and one
beside a writeback. In OkfMaintenance two callers and the worker are the three
parties of its races, and `a` beside `ab` is what comparing paths as texts gets
wrong. In PortableImport three paths and two imports make every chain of
references, paths and ids that leads to another row.

Bounds in guards: `MaxCrashes`, `MaxMishaps`, `MaxEdits`, `MaxCommits`,
`MaxSaves`, `MaxForeign`, `MaxSyncs`, `MaxResets`; `MaxQueued` events on their
way; `MaxRows` insertions of a document's rows; `loads`, `streams`, `maxCrashes`
and `mishaps` of a scene; a file is renamed at most once in LinkGraph; the calls
a corpus of MCOkfMaintenance allows; in PortableImport the ids there are
(`Spare`) and one archive made in a behaviour. The rest are the sizes of the constant sets.

### What the violations mean

- **Citation validation** writes back the index status it read before it probed
  URLs (`citation-validate-service.ts:293`), so a node indexed meanwhile is
  pending again with no job.
- **Reject during approve.** The mutation is applied before the record leaves
  `pending` (`mutation-approval-service.ts:120`): a concurrent reject wins the
  record and the document has changed.
- **Second commit of a git corpus.** The source reference contains the commit
  (`git-sync-service.ts:84`), so no file is found again; the placeholder insert
  hits the unique index on corpus, path and name, the file counts as an error,
  and pruning deletes the earlier document.
- **A sync before the writeback.** A saved edit of a git corpus waits in the
  writeback queue; a sync that runs first imports the working tree over it, and
  the job then finds nothing to commit (`sync-import-service.ts:193`).

### Exceptions the properties name, and what they stand for

Each was met as a counterexample, is a behaviour of the code, and is kept out of
a passing property by a named condition.

- *Sync.* A crash or failing send after a corpus was marked running leaves it
  running and the schedule never finds it due (`Abandoned`); a crash between the
  placeholder and its blob leaves a document every later sync takes for
  unchanged (`ImportedWhole` speaks of runs without a crash); index jobs not yet
  sent when a run dies are not sent by its retry (`SyncedSearchable` speaks of
  runs without failure).
- *Indexing.* `indexNode` writes `indexing` before its `try`
  (`index-service.ts:192`, the `try` is at 204) and marks the node failed in its
  `catch` by an UPDATE that may throw itself (361). If such a throw (`IndexEscapes`)
  ends the last attempt of a job, the node stays `indexing`, and the sweep does
  not take nodes that are `indexing` (`unmarked` in `Settles`, until somebody
  saves or reindexes it).
- *Approvals.* A record left pending by a crash or a failing mirror may be
  approved again, and its mutation applied twice; a delete of a node that is gone
  is applied without effect (`AppliedHasEffect` asks for one effect at least, or
  that the node is gone).
- *Bootstrap.* Its own run beside the worker's may leave the older content's
  chunks, or, when one of them fails between the two statements, none at all in
  a document shown as indexed (`NothingLost` is claimed without bootstraps), and
  link rows twice (`LinksOnce` likewise).
- *Links.* Renaming, moving and deleting re-resolve nothing, and links to a
  deleted document stay (`touched` in `LinksExact`, until the corpus is
  reindexed). The reconciliation of `link-graph-service.ts` would, but nothing
  in the product calls it, though `docs/DEV-LEARNINGS.md:184-185` says reindexing
  does.
- *File list.* What is published while no stream is open, or overwritten by an
  older answer, is not shown until the next load (`missed` in `ListSettles`).
- *Search.* Deleting a document removes neither its chunk rows nor its points,
  and a run cut off between the replacement of the rows and the removal of the
  old points leaves those for good, as its retry lists the new ids; both take
  places among a search's candidates (`crowded` in `SearchExact`).
- *Git.* When a sync and a writeback overlap in the clone, a push may report
  success for a commit that is not on the branch, and contents be imported under
  another commit (`mixed` in `PushedIsThere` and `SourceRefTrue`).
- *OKF.* A third event of a folder within a slot is dropped; a job dies with its
  process; a client's save between the worker's read and write, or between its
  insertion of index.md and its content, is lost; a deleted folder makes its
  maintenance fail; rename and move of one file at a time leave path and parent
  apart, as does any call beside the move of a folder, or a death in it; a
  renamed or moved document keeps its old bullet; when a folder is deleted and
  made again within a run that has yet to get to it, be it as the second folder
  of a move, the run, which has read the tree before, finds no index.md and makes
  one that lists what the old folder held (`odd`: dropped,
  given up, died, clash, uprooted, tangled, renamed, razed, index).
- *Portable import.* `update` points a row to `import/<id in the archive>` before
  its content is there: a failing put, or a save or delete in between, leaves it
  sharing the content of another document (`lent` in `Stored` and `Untouched`).
  Where a document was renamed to the path of another file of the archive, an
  undisturbed import loses a file without reporting it: the file is found by the
  reference its document still has and, the hash being the same, left as it is
  (`node-repository.ts:316-346`), then the other file is found by path and takes
  the row over (365-414) (`Overtaken` in `Restored`). Of a row that the import and
  another call both wrote, `Restored` says nothing (`touched`).

Also met: `intersectPrefixLayers` keeps the first match only, so a corpus prefix
`a` under a workspace's `a/b` and `a/c` yields `a/b` (`LayersNarrow` claims
equality for `Plain` layers). A portable import into another workspace of one
installation fails for every file whose id exists there, as ids are unique
across workspaces and looked for in one, though `docs/BACKUP.md:131-132` offers
it. A zip import that dies or fails between row and blob leaves a document later
imports skip. A writeback job retried
after a crash between commit and push finds nothing to commit and pushes nothing.
An unchanged imported document that was renamed stays where it is,
an edited one is renamed back. One document
without a blob fails a whole export. `ask` about one document filters after the
limit, so other documents' chunks may leave it nothing. The overview's counters
drift, as every save adds one (`docs/DEV-LEARNINGS.md:1026-1029`).

## 4. Fairness

- The event loop resumes every handler whose await has settled: weak fairness
  of `Continue`, `Index`, `FinishJob(TRUE)`, `Send`, `Import`, `IndexCommit`.
- pg-boss polls and fetches oldest first, and no job is passed over for ever
  though the worker is busy in between: strong fairness of `Fetch(j)` and of
  the sync's `IndexRead(f)`. It expires active jobs nobody runs: weak fairness
  of `Expire`.
- The cron tick comes again: weak fairness of `\E j : Tick(j)`. The interval is
  not modelled; a corpus is due whenever it is not running.
- Nothing makes a client call, an operator act, a mirror recover or a fault
  occur.

Fairness is stated in DocIndex and SyncImport. The other modules are checked
for safety only: what they promise "in the end" is stated of states in which
nothing is under way (`LinksExact`, `ListSettles`, `Listed`, `NothingStale`) or
in which a call has just ended (`SearchExact`, `Restored`).

## 5. Proofs

All for every value of the constants under the named assumptions of the
modules, with any number of requests, files, retries, failures and crashes.

| Module | Theorem | Says |
|---|---|---|
| DocIndexProofs | `TypeCorrect` | `TypeOK` |
| DocIndexProofs | `WholeVersionHolds` | `WholeVersion`, bootstraps included |
| DocIndexProofs | `NothingIsLost` | `NothingLost`, as long as no bootstrap has run |
| DocIndexProofs | `QuietIsFresh` | `QuiescentFresh`, likewise |
| DocIndexProofs | `QuietIsSettledHolds` | `QuietIsSettled`, likewise, without citation validation |
| IndexViewProofs | `ViewImplementsDocIndex` | IndexView implements DocIndex |
| IndexViewProofs | `SearchImplementsView` | SearchIndex implements IndexView |
| IndexViewProofs | `SearchWhole` | `WholeVersion` in the whole composition |
| IndexViewProofs | `SearchTypeCorrect` | `SearchTypeOK`, the types of LinkGraph and IndexView included |
| IndexViewProofs | `LinksOnceHolds` | `LinksOnce` |
| IndexViewProofs | `LinksExactHolds` | `LinksExact`, without bootstraps, if the other spelling of a path has that path for its own |
| IndexViewProofs | `ListSettlesHolds` | `ListSettles`, without bootstraps and citation validation |
| IndexViewProofs | `SearchExactHolds` | `SearchExact`, without bootstraps, for finitely many nodes |
| MutationApprovalProofs | `TypeCorrect` | `TypeOK` |
| MutationApprovalProofs | `VerdictIsFinal` | `VerdictHolds` |
| MutationApprovalProofs | `AppliedTookEffect` | `AppliedHasEffect` |
| MutationApprovalProofs | `GateHolds` | `GatedNeedsApproval` |
| MutationApprovalProofs | `QueueIsLedger` | `LedgerSpec`: MutationApproval implements ApprovalLedger |
| SyncImportProofs | `TypeCorrect` | `TypeOK` |
| SyncImportProofs | `ManagedIsKept` | `ManagedKept` |
| SyncImportProofs | `TreeIsKept` | `TreeKept`, for `MaxCommits = 0` |
| SyncImportProofs | `ImportsAreWhole` | `ImportedWhole` |
| GitWritebackProofs | `RemoteIsKept` | `RemoteKept`: GitWriteback implements RemoteHistory |
| GitWritebackProofs | `TypeCorrect` | `TypeOK` |
| GitWritebackProofs | `CommitsOnlyEdited` | `OnlyEditedFiles` |
| GitWritebackProofs | `PushesAreThere` | `PushedIsThere` |
| GitWritebackProofs | `SourceRefsTrue` | `SourceRefTrue` |
| NodeTreeProofs | `LayersOnlyNarrow` | `NarrowsOnly`, of lists of any length |
| NodeTreeProofs | `LayersNarrowHolds` | `LayersNarrow` |
| NodeTreeProofs | `TypeCorrect` | `TypeOK` |
| NodeTreeProofs | `TreeHolds` | `WellFormed` |
| OkfMaintenanceProofs | `TextIsKept` | `TextKept` |
| OkfMaintenanceProofs | `ListedHolds` | `Listed` |
| OkfMaintenanceProofs | `NothingStaleHolds` | `NothingStale` |
| PortableImportProofs | `TypeCorrect` | `TypeOK` |
| PortableImportProofs | `StoredHolds` | `Stored` |
| PortableImportProofs | `RestoredHolds` | `Restored` |
| PortableImportProofs | `ErrorsExplainedHolds` | `ErrorsExplained` |
| PortableImportProofs | `UntouchedHolds` | `Untouched` |

- *DocIndex types.* `TypeOK` alone is not inductive: a step of a process writes
  at `on[p]` and the end of a run at `held`, so `Placed` says a process that is
  under way is on a node, and a worker that runs holds a job.
- *WholeVersion* is inductive with the types: `Collides` refuses to insert
  beside rows with the same ordinal, and every content with rows has ordinal 0
  (`FirstOrdinal`), so an insert finds the table empty or adds nothing.
- *NothingIsLost* needs `LostInv`: besides `NothingLost`, nothing is stored,
  sent or done for a node that never had a row (`Born`); a request has no job
  before it has sent one (`Sends`); the worker is idle or runs the active job it
  holds (`Run`); and what it has done so far is in the chunk table, or somebody
  else is owed to the node (`Progress`). The invariant holds in every state in
  which no bootstrap has begun (`NoBootstrap`: a request that has begun never
  returns to its start, so such a state has only such states before it). Where
  one has run it is false: two runs of `indexNode` on a node may end in the
  wrong order. *QuietIsFresh* follows: in a quiet state nobody is owed.
- *QuietIsSettledHolds* is the same argument for the status (`StatusOwed`: a job,
  a request on its way to send one, or the worker before its commit): a status
  other than indexed is somebody's to change. A validation breaks it, as run
  DocIndexCitation shows, so the theorem assumes there are none.
- *The compositions.* Every step of IndexView is a step of DocIndex or leaves
  its variables alone, case by case; that the scene is one of `Scenes` and never
  changes (`SceneInv`) makes its calls calls of DocIndex. SearchIndex needs no
  invariant: it only adds conjuncts and steps of its own. What is proved of
  DocIndex so carries over.
- *SearchTypeCorrect* needs that a run past its read has a content (`HasRead`)
  and that the scene is one of `Scenes`; and a corpus with at least one node.
- *LinksOnceHolds.* `LinkInv` says how far the worker's replacement of a
  document's link rows has come (`RunLinks`), and that a document nobody is to
  index or to delete has the links of its content (`SettledLinks`). A bootstrap
  may end the debt of a document whose links it has doubled, so this too is
  shown of states before any. That a debt stays until a run of that very content
  ends is `OwedRemains`, shared with the list.
- *LinksExactHolds* needs `ExactInv`: every link row of a live document leads
  where its target is (`Sound`), or the document's own rows are about to be looked
  up again (`Refreshing`), or the file that appeared at the target is about to be
  indexed by a run that patches the incoming links (`Arriving`); the rows the
  worker is about to insert are as sound; and a run whose document left its place
  meanwhile patches links to a place that is on record as `touched` (`Astray`).
  Patching finds the links by the spellings of the *path*, looking up by those of
  the *target*: these agree if spelling is mutual (`Mutual`). In the code
  (`links/resolve.ts:41-49`) it is, but for names that end in `.md.md`: a link to
  `x.md.md` is resolved to a file `x.md`, and not patched when that file appears.
- *ListSettlesHolds.* `ListInv` says of every list there is or that is on its
  way (the one shown, each answer of a load that no event has overtaken, and
  one that says indexed everywhere) that a document it holds is still owed its
  status, or an announcement of it is due, or the last announcement on its way
  says indexed, or there is none and the list says so (`Informed`). An
  announcement of anything else is made only by who still owes the status
  (`DueTrue`). When all is quiet nothing is owed, due or on its way, so the list
  says indexed, and by `QuietIsSettledHolds` that is the stored status.
- *SearchExactHolds.* A document that stayed settled has the chunks of its
  content (`LostInv`), and nobody writes its rows (`SettledRows`). With Qdrant
  its points are to be there too: those of a document's rows are, or the worker
  is before or amid storing them (`Behind`), or the document is owed a run
  (`PointsThere`), as a run that is cut off leaves a debt. And of every point
  there must be a reason, since it may crowd out others: its row is there, its
  document is deleted or leaky, or the worker has it on its list of points to
  delete (`PointsKnown`, `WorkerKnows`). So a search with room for all that is
  accounted for takes all rows and all points there are, which are finitely many,
  and what it has of a settled document it keeps (`FoundInv`). The points on the
  worker's list were first missing from `crowded`; it was the proof that found
  them. That the worker runs alone is what `NoBootstrap` is needed for.
- *ManagedIsKept* needs `Owned`: between finding or inserting a row and bringing
  it up to date, the row at the current path is an imported one; and purging
  happens only in an authoritative mount.
- *TreeIsKept* needs `TreeInv`: there is one reference per file (no commit
  after the first), every file the loop is done with without a failing call is
  kept if it has an imported document, pruning waits for the whole loop, and
  insertion happens only where no imported row is. With commits it is false, as
  run SyncGit shows.
- *ImportsAreWhole.* `WholeInv` says that a row whose content is missing or is
  not what its hash says is being written (`Storing`), or is that of the file of
  the one call that failed, which this sync does not keep and will prune
  (`Mending`). A second failure or a crash before the pruning breaks it, which is
  why the property speaks of neither.
- *Approvals* share one invariant, `AppInv`: an executed request is not idle
  (`Begun`, so its record is never made pending again), whatever is being
  applied is ungated or an approval (`Gate`), a call about to delete holds the
  node that was asked for and which existed (`Removing`, so that finding nothing
  means it is gone), and an approval that has come to its mark has had its
  effect (`Marking`). The three properties are conjuncts of it.
- *QueueIsLedger* needs `Serial`, of operators who decide one after the other: a
  call under way is about a pending record, a record that is pending though its
  mutation is stored is about to be marked, and a write that is not gated has
  had no effect before it ends. Then marking and storing are one step of the
  ledger. While calls race it is false, as run ApprovalReject shows.
- *RemoteIsKept* needs histories to be closed (`HistoryInv`: the history of a
  commit contains those of its commits): a push is taken when HEAD's history has
  the branch's tip, which says nothing of the tip's own past. New commits keep
  that as they go on top of commits that exist (`NamesInv`: HEAD, `FETCH_HEAD`
  and every branch of clone and remote name a commit made, or none).
- *The types of GitWriteback* bound the number of commits, so the proof counts:
  commits made and runs of jobs still to come are together at most one, plus the
  foreign pushes, plus `RetryLimit + 1` for each save (`CountInv`), and a commit
  uses up a run. The workers' next steps find what they need (`Ready`).
- *CommitsOnlyEdited*: of a file nobody edits, the index has what HEAD has
  (`EditedInv`), through checkouts that carry changes along, resets, fetches and
  jobs that died.
- *PushesAreThere* and *SourceRefsTrue*: busy workers mark each other, and one
  that had the clone to itself finds HEAD where it put it (`Apart`); what the
  index and the working tree have beyond HEAD, a writeback has put there
  (`ShownInv`). Without `mixed` and `written` both are false.
- *LayersOnlyNarrow* folds two steps of intersection: a prefix that two lists
  yield lies below a prefix of each, so a path it covers is covered by both; and
  in plain layers the first prefix met is the only one.
- *The types of OkfMaintenance* need `OkfInv`. What a call is about to use must
  be there at its stage (`Fits`: a call that stores or moves has a row, a listing
  of what to move is of rows), and stays there, as rows are added or deleted and
  never change between folder and file (`Grows`). The worker's job is in the
  queue while it runs (`WorkerOK`), which is what makes finishing or retrying it
  find a place.
- *TextIsKept.* Of all steps only `Store` and `SaveText` write a text. The first
  is marked when the text it replaces is not the one the call was made from; the
  second when the row no longer has the text the worker read, and otherwise adds
  to that very text.
- *TreeHolds.* `WellFormed` speaks of states without a call on a folder, so what
  is inductive (`Facts`) says what there is meanwhile. As long as nothing is
  tangled or died, a call on a folder is alone, and no two calls are on one file
  (`Alone`). What a call has looked up holds until it uses it (`CallFacts`, stage
  by stage): a place found free has no folder, since another call may still put a
  file there, which the unique key refuses; a parent found is still a folder of
  that path. While a folder's rows are rewritten one by one, the rows are no
  tree, but those they will be are (`HalfMoved`); no row on its way meets the key,
  or the call would end half way (`NotTaken`). That the rows to be are a tree is
  `MoveFolder`: replacing a prefix of all paths below a folder by a free place
  outside it maps every chain of parents to a chain of parents. The code's guard,
  which compares texts and not paths (`TextBegins`), implies it (`NotIntoItself`).
- *ListedHolds.* `Listed` speaks of states in which nothing is under way, so what
  is inductive (`Upkept`) says of every concept at every moment who sees to its
  bullet (`Cared`): it has its bullet, and no job is there to take it away; it is
  still being created, or a delete is about to take it; a call has yet to send an
  event about it; or such an event is queued behind the deletes of an earlier
  file of that name, and if the worker is at it, it has yet to see to the folder
  and saw the concept there. That an event queued last is run last is a matter of
  the queue (`QueueKept`): a job that waits is its folder's last, the one that
  runs its folder's first, and no two jobs are of one event. Calls and the worker
  are what they say (`Creations`, `Deletions`, `Makings`, `Merges`): an index.md
  being made has the listing that was read, and what a delete announces it will
  delete. Without the tree (`Facts`) a file beside an index.md could be in
  another folder. A folder that moves takes bullets and concepts along, and finds
  the queue empty or is an exception.
- *NothingStaleHolds.* The inductive invariant (`Known`, over `Upkept`) says of
  every bullet what justifies it (`BulletsTrue`): a file beside its index.md that
  no delete under way will take without an event, or a queued delete of it, which
  the worker has not got beyond. A bullet is written for what an event names
  (`TellsTrue`, `JobsTrue`) or for what a run has read before it makes an index.md
  (`RefsTrue`); of each, the file is there, or its delete is behind it in the
  queue. The hard case is a delete that is announced while its folder has no
  index.md: it is without effect if it runs before the index.md is made. So a
  concept about to be deleted has an index.md beside it or a job that will make
  one (`CondemnedSeen`), and once its delete is queued, it is queued behind those
  jobs (`DropsSeen`). A user's new file starts without bullets (`Blank`). Here the
  excuse "razed" proved too narrow: it looked at the first folder of a run only.

- *StoredHolds.* What a call has stored, or has looked up and is about to use,
  stays as long as nobody else writes the row, and whoever does so marks it
  (`Marks`: a changed row, link or content leaves a mark in `touched` for all
  that know of the row). But a content has a place of its own, and rows may
  share one. So `Own` says that a content is at a place of its document, or at
  one an import has lent, and then only while that import is at work on it, or
  after something came in between; and `Seen` what the call at hand knows of its
  row, stage by stage, if nobody marked it or it ran alone (`Sure`). The steps
  of others are then done once and for all (`LocalEnough`), each operation has
  only its own call to answer for (`Local`).
- *UntouchedHolds* and *ErrorsExplainedHolds* follow from the same invariant, and
  from `Vacant`: what an import on its own found free stays free until it inserts.
  Both speak of a step. As properties of a state, which they were first, they are
  false beyond the scenes that are checked: after the error its reason may go (a
  rename back), and after a failed write the row is no longer anybody's.
- *RestoredHolds* is about the step in which an import ends. `Covered` says that
  each file of the archive is still to come, reported or put on a document, `Done`
  what is true of such a document at each stage if nobody else wrote its row; a
  step of an import begins it, goes on with its files, relinks or sends
  (`Continues`). For an import that ran on its own nobody else can have, so what
  is left is the import itself, and `Unmixed` says that a row it has put two files
  on has the path and the reference of one of them, which is `Overtaken`.

Assumed of a corpus that PortableImport begins with (`Orderly`): one document at
a path, and each content, which has a hash, at a place of its document; that is
what the unique index and the writers of `storage_path` maintain.

Model-checked only: the liveness properties and everything under fairness,
which the prover cannot reach. Every safety property of the runs that pass is a
theorem, some under the conditions the table names.

## 6. Not modelled

- OKF conversion and export. Converting a corpus rewrites documents one by one
  and the corpus settings as a whole from a copy read before, so it may undo a
  save or a settings change made meanwhile; so does a sync's status write, and
  of two overlapping appends (`file-manager/crud.ts:337`) one is lost. Of
  bootstrap, DocIndex has the direct indexing of what it creates.
- Search beyond the order of its calls: scores, boosts and reranking, filters
  and path prefixes, the search by metadata only, several corpora; the chat call
  of ask. The read-only queries of the link graph.
- Node metadata and corpus counters as state of `indexNode`; embeddings.
- A mirror that fails while a document is deleted, except where an approval
  deletes it (MutationApproval has it); titles and descriptions of
  index bullets; the folder chains, metadata and unpacking of archives.
- A live handler that outlasts its job's expiry, so that pg-boss starts a second
  run of it. The queues keep pg-boss's default expiry, minutes long.
- Partial blob writes. A write is a step.
- Ranking plugins, chunking, OKF and markdown text functions: data, not control.
- Authentication, settings, secrets, usage records, HTTP and MCP routes, SDK, UI
  package and the pages of the web app: stateless adapters, single-row reads and
  writes, or clients. They are most of the repository's lines, so the share of
  the lines the models map stays small; the services that keep state and act on
  it concurrently are modelled.

## 7. Plan

1. *Done:* DocIndex with links, event hub, file list and search; approvals;
   sync and git writeback; the tree, path prefixes and OKF maintenance; portable
   archives.
2. *Done:* proofs of every safety property of DocIndex, MutationApproval,
   SyncImport, GitWriteback and PortableImport, of both refinements, of the
   composition with links, file list and search, and of OkfMaintenance.
3. OKF conversion, beside clients and settings changes; the search by metadata
   and over several corpora.
