----------------------------- MODULE SyncImport -----------------------------
(***************************************************************************)
(* External sync of one corpus: a mounted folder, or a git repository      *)
(* checked out into a server-side cache, is imported into knowledge nodes. *)
(*   - MountSyncService / GitSyncService.enqueueSync, called by a client   *)
(*     or by the schedule: mark the corpus running, then send a job;       *)
(*   - runSync, in the one worker of the sync queue, and in it             *)
(*     SyncImportService.importScannedFiles: scan, import file by file,    *)
(*     prune what is gone, enqueue index jobs;                             *)
(*   - the index worker, in two steps (module DocIndex has them all);      *)
(*   - clients writing and deleting managed files of the corpus, which in  *)
(*     mode import_writeback are mirrored to the mount;                    *)
(*   - whoever edits the mounted folder, or pushes commits.                *)
(*                                                                         *)
(* Files are markdown.  A unique index allows one file row per path, so a  *)
(* row is kept by path; a row that is removed and inserted again is a new  *)
(* node, with no blob, no chunks and no jobs.  Imported rows are read-only *)
(* for clients (git writeback is not enabled).                             *)
(***************************************************************************)
EXTENDS Naturals, FiniteSets

CONSTANTS
    Files,        \* relative paths
    Contents,     \* file contents
    NoContent,    \* no such file
    NoFile,
    Corpora,      \* how the corpus may be set up: git, or one of the mount modes
    Jobs,         \* slots for sync jobs waiting or running at one time
    NoJob,
    RetryLimit,
    MaxCommits,   \* bound on commits pushed
    MaxEdits,     \* bound on writes by clients, changes of the folder, or commits
    MaxMishaps    \* bound on failing calls and process crashes together

ASSUME SyncAssumption ==
    /\ NoContent \notin Contents
    /\ NoFile \notin Files
    /\ NoJob \notin Jobs
    /\ Corpora \subseteq {"git", "import", "import_writeback", "mount_authoritative"}
    /\ RetryLimit \in Nat /\ MaxCommits \in Nat
    /\ MaxEdits \in Nat /\ MaxMishaps \in Nat

VARIABLES
    setup,          \* importKind and mountMode of the corpus; fixed
    source, tip,    \* the folder, or the tree and number of the remote's last commit
    row,            \* the file row at each path, with its blob and chunks
    owed, idx,      \* index jobs waiting; the run of the index worker
    syncStatus,     \* settings.syncStatus.lastSyncStatus
    job, left, held,\* sync jobs, their remaining retries, the one being run
    run,            \* the state of importScannedFiles
    edits, faults, crashes

jobVars    == <<job, left, held>>
bounds     == <<edits, faults, crashes>>
vars == <<setup, source, tip, row, owed, idx, syncStatus, jobVars, run, bounds>>

Bodies == Contents \cup {NoContent}

\* A row: its source type, the commit in its source_ref, content_hash,
\* whether storage_rel_path is set, its blob, index_status, its chunks.
Row == [kind: {"none", "managed", "synced"}, rev: Nat, hash: Bodies,
        stored: BOOLEAN, body: Bodies, state: {"pending", "indexed"}, chunks: Bodies]

NoRow == [kind |-> "none", rev |-> 0, hash |-> NoContent, stored |-> FALSE,
          body |-> NoContent, state |-> "pending", chunks |-> NoContent]

Stage == {"idle", "checkout", "scan", "file", "insert", "put", "upsert",
          "prune", "purge", "enqueue"}

\* file and body are the loop's current file, keep its keepSourceRefs, index
\* its indexNodeIds; err are the files with an error, hit those of them whose
\* error came from a failing call or a file that vanished.
Run == [at: Stage, rev: Nat, tree: [Files -> Bodies], scanned: SUBSET Files,
        todo: SUBSET Files, file: Files \cup {NoFile}, body: Bodies,
        keep: SUBSET Files, index: SUBSET Files, err: SUBSET Files, hit: SUBSET Files]

NoRun == [at |-> "idle", rev |-> 0, tree |-> [f \in Files |-> NoContent],
          scanned |-> {}, todo |-> {}, file |-> NoFile, body |-> NoContent,
          keep |-> {}, index |-> {}, err |-> {}, hit |-> {}]

NoIdx == [file |-> NoFile, body |-> NoContent]

TypeOK ==
    /\ setup \in Corpora
    /\ source \in [Files -> Bodies] /\ tip \in 0 .. MaxCommits
    /\ row \in [Files -> Row]
    /\ owed \subseteq Files
    /\ idx \in [file: Files \cup {NoFile}, body: Bodies]
    /\ syncStatus \in {"idle", "running", "success", "failed"}
    /\ job \in [Jobs -> {"none", "sending", "queued", "active"}]
    /\ left \in [Jobs -> 0 .. RetryLimit]
    /\ held \in Jobs \cup {NoJob}
    /\ run \in Run
    /\ edits \in 0 .. MaxEdits /\ faults \in 0 .. MaxMishaps /\ crashes \in 0 .. MaxMishaps

Init ==
    /\ setup \in Corpora
    /\ source \in [Files -> Bodies]
    /\ tip = 0
    /\ row = [f \in Files |-> NoRow]
    /\ owed = {} /\ idx = NoIdx
    /\ syncStatus = "idle"
    /\ job = [j \in Jobs |-> "none"]
    /\ left = [j \in Jobs |-> RetryLimit]
    /\ held = NoJob
    /\ run = NoRun
    /\ edits = 0 /\ faults = 0 /\ crashes = 0

-----------------------------------------------------------------------------
(* Asking for a sync.                                                      *)

\* enqueueSync from a client's request: the status is written first.
Call(j) ==
    /\ job[j] = "none"
    /\ syncStatus' = "running"
    /\ job' = [job EXCEPT ![j] = "sending"]
    /\ left' = [left EXCEPT ![j] = RetryLimit]
    /\ UNCHANGED <<setup, source, tip, row, owed, idx, held, run, bounds>>

\* runTick: a corpus is due when its interval has passed, unless it is running.
Tick(j) ==
    /\ syncStatus # "running"
    /\ Call(j)

Send(j) ==
    /\ job[j] = "sending"
    /\ job' = [job EXCEPT ![j] = "queued"]
    /\ UNCHANGED <<setup, source, tip, row, owed, idx, syncStatus, left, held, run, bounds>>

Fault ==
    /\ faults + crashes < MaxMishaps
    /\ faults' = faults + 1
    /\ UNCHANGED <<edits, crashes>>

\* The send throws: the call fails and the corpus stays marked running.
SendFails(j) ==
    /\ job[j] = "sending"
    /\ Fault
    /\ job' = [job EXCEPT ![j] = "none"]
    /\ UNCHANGED <<setup, source, tip, row, owed, idx, syncStatus, left, held, run>>

-----------------------------------------------------------------------------
(* runSync.                                                                *)

Fetch(j) ==
    /\ run.at = "idle"
    /\ job[j] = "queued"
    /\ job' = [job EXCEPT ![j] = "active"]
    /\ held' = j
    /\ run' = [NoRun EXCEPT !.at = IF setup = "git" THEN "checkout" ELSE "scan"]
    /\ UNCHANGED <<setup, source, tip, row, owed, idx, syncStatus, left, bounds>>

\* A failed or expired attempt: back to the queue, or given up for good.
AttemptFailed(j) ==
    /\ job' = [job EXCEPT ![j] = IF left[j] > 0 THEN "queued" ELSE "none"]
    /\ left' = [left EXCEPT ![j] = IF @ > 0 THEN @ - 1 ELSE 0]

Expire(j) ==
    /\ job[j] = "active" /\ held # j
    /\ AttemptFailed(j)
    /\ UNCHANGED <<setup, source, tip, row, owed, idx, syncStatus, held, run, bounds>>

\* #syncRepository: fetch and check out the branch's tip.
Checkout ==
    /\ run.at = "checkout"
    /\ run' = [run EXCEPT !.at = "scan", !.tree = source, !.rev = tip]
    /\ UNCHANGED <<setup, source, tip, row, owed, idx, syncStatus, jobVars, bounds>>

\* A mounted folder is read live, a checkout as it was checked out.
Content(f) == IF setup = "git" THEN run.tree[f] ELSE source[f]

Scan ==
    /\ run.at = "scan"
    /\ LET found == {f \in Files : Content(f) # NoContent}
       IN  run' = [run EXCEPT !.scanned = found, !.todo = found,
                              !.at = IF found = {} THEN "prune" ELSE "file"]
    /\ UNCHANGED <<setup, source, tip, row, owed, idx, syncStatus, jobVars, bounds>>

\* The loop goes on to the next file.
After(f) == IF run.todo \subseteq {f} THEN "prune" ELSE "file"
NextFile(f) == [run EXCEPT !.at = After(f), !.todo = @ \ {f}, !.file = NoFile, !.body = NoContent]

MutantFileError(f, transient) ==
    run' = [NextFile(f) EXCEPT !.err = @ \cup {f}, !.keep = @ \cup {f},
                               !.hit = IF transient THEN @ \cup {f} ELSE @]

FileError(f, transient) ==
    run' = [NextFile(f) EXCEPT !.err = @ \cup {f},
                               !.hit = IF transient THEN @ \cup {f} ELSE @]

MutantHasPath(f) == row[f].kind # "none"

\* The row of f under the source_ref of this sync: path, or path@commit.
HasRef(f) == row[f].kind = "synced" /\ row[f].rev = run.rev

MutantSame(f) == HasRef(f)

Unchanged(f) == HasRef(f) /\ row[f].hash = Content(f)

MutantKeep(r, f) == r

Keep(r, f) == [r EXCEPT !.keep = @ \cup {f}]

\* readFile and the look-up by source_ref.
Read(f) ==
    /\ run.at = "file" /\ f \in run.todo
    /\ IF Content(f) = NoContent
         THEN FileError(f, TRUE)
       ELSE IF Unchanged(f)
         THEN run' = Keep(NextFile(f), f)
         ELSE run' = [run EXCEPT !.at = IF HasRef(f) THEN "put" ELSE "insert",
                                 !.file = f, !.body = Content(f)]
    /\ UNCHANGED <<setup, source, tip, row, owed, idx, syncStatus, jobVars, bounds>>

\* The placeholder has the hash, but no storage path.  The unique index
\* refuses it while there is any row at the path.
Insert ==
    /\ run.at = "insert"
    /\ IF row[run.file].kind # "none"
         THEN FileError(run.file, FALSE) /\ UNCHANGED row
         ELSE /\ row' = [row EXCEPT ![run.file] =
                            [NoRow EXCEPT !.kind = "synced", !.rev = run.rev, !.hash = run.body]]
              /\ run' = [run EXCEPT !.at = "put"]
    /\ UNCHANGED <<setup, source, tip, owed, idx, syncStatus, jobVars, bounds>>

Put ==
    /\ run.at = "put"
    /\ row' = [row EXCEPT ![run.file].body = run.body]
    /\ run' = [run EXCEPT !.at = "upsert"]
    /\ UNCHANGED <<setup, source, tip, owed, idx, syncStatus, jobVars, bounds>>

\* upsertSyncedFile finds the row again: nobody else writes synced rows.
Upsert ==
    /\ run.at = "upsert"
    /\ row' = [row EXCEPT ![run.file] =
                [@ EXCEPT !.hash = run.body, !.stored = TRUE, !.state = "pending"]]
    /\ run' = [Keep(NextFile(run.file), run.file) EXCEPT !.index = @ \cup {run.file}]
    /\ UNCHANGED <<setup, source, tip, owed, idx, syncStatus, jobVars, bounds>>

\* A call on behalf of one file throws: the loop records it and goes on.
FileFails(f) ==
    /\ \/ run.at = "file" /\ f \in run.todo
       \/ run.at \in {"insert", "put", "upsert"} /\ f = run.file
    /\ Fault
    /\ FileError(f, TRUE)
    /\ UNCHANGED <<setup, source, tip, row, owed, idx, syncStatus, jobVars>>

\* deleteMany: the rows go, and with them their index jobs come to nothing.
Remove(gone) ==
    /\ row' = [f \in Files |-> IF f \in gone THEN NoRow ELSE row[f]]
    /\ owed' = owed \ gone
    /\ idx' = IF idx.file \in gone THEN NoIdx ELSE idx

\* deleteSyncedNodesNotInRefs: nobody else adds or removes synced rows between
\* its SELECT and its DELETE.
Prune ==
    /\ run.at = "prune"
    /\ Remove({f \in Files : row[f].kind = "synced" /\ ~(HasRef(f) /\ f \in run.keep)})
    /\ run' = [run EXCEPT !.at = IF setup = "mount_authoritative"
                                   THEN "purge" ELSE "enqueue"]
    /\ UNCHANGED <<setup, source, tip, syncStatus, jobVars, bounds>>

\* deleteManagedFilesNotInPaths
Purge ==
    /\ run.at = "purge"
    /\ Remove({f \in Files : row[f].kind = "managed" /\ f \notin run.scanned})
    /\ run' = [run EXCEPT !.at = "enqueue"]
    /\ UNCHANGED <<setup, source, tip, syncStatus, jobVars, bounds>>

MutantEnqueueIndex(f) ==
    /\ run.at = "enqueue" /\ f \in run.index
    /\ owed' = IF idx.file = f THEN owed ELSE owed \cup {f}
    /\ run' = [run EXCEPT !.index = @ \ {f}]
    /\ UNCHANGED <<setup, source, tip, row, idx, syncStatus, jobVars, bounds>>

\* enqueueIndexMany sends one job after the other.
EnqueueIndex(f) ==
    /\ run.at = "enqueue" /\ f \in run.index
    /\ owed' = owed \cup {f}
    /\ run' = [run EXCEPT !.index = @ \ {f}]
    /\ UNCHANGED <<setup, source, tip, row, idx, syncStatus, jobVars, bounds>>

MutantVerdict == IF run.err = {} THEN "completed" ELSE "failed"

Verdict == IF run.err = {} THEN "success" ELSE "failed"

Finish ==
    /\ run.at = "enqueue" /\ run.index = {}
    /\ syncStatus' = Verdict
    /\ job' = [job EXCEPT ![held] = "none"]
    /\ held' = NoJob
    /\ run' = NoRun
    /\ UNCHANGED <<setup, source, tip, row, owed, idx, left, bounds>>

\* Anything outside the loop throws, and pg-boss retries.  The status says failed,
\* but stays where the corpus could not be read, before the try, or the catch
\* could not write it.
RunFails ==
    /\ run.at \in {"checkout", "scan", "prune", "purge", "enqueue"}
    /\ Fault
    /\ syncStatus' \in {"failed", syncStatus}
    /\ AttemptFailed(held)
    /\ held' = NoJob
    /\ run' = NoRun
    /\ UNCHANGED <<setup, source, tip, row, owed, idx>>

-----------------------------------------------------------------------------
(* The index worker: what it reads first and what it writes last.  A node  *)
(* without a storage path is not indexed; its job fails.                   *)

IndexRead(f) ==
    /\ idx = NoIdx /\ f \in owed
    /\ owed' = owed \ {f}
    /\ idx' = IF row[f].stored THEN [file |-> f, body |-> row[f].body] ELSE NoIdx
    /\ UNCHANGED <<setup, source, tip, row, syncStatus, jobVars, run, bounds>>

IndexCommit ==
    /\ idx # NoIdx
    /\ row' = [row EXCEPT ![idx.file] =
                [@ EXCEPT !.chunks = idx.body, !.state = "indexed"]]
    /\ idx' = NoIdx
    /\ UNCHANGED <<setup, source, tip, owed, syncStatus, jobVars, run, bounds>>

-----------------------------------------------------------------------------
(* Clients and the outside world.                                          *)

Edit ==
    /\ edits < MaxEdits
    /\ edits' = edits + 1
    /\ UNCHANGED <<faults, crashes>>

Mirrored(f, c) ==
    source' = IF setup = "import_writeback"
                THEN [source EXCEPT ![f] = c] ELSE source

\* createFile or saveContent of a managed file, and its mirror.
WriteManaged(f, c) ==
    /\ row[f].kind # "synced"
    /\ Edit
    /\ row' = [row EXCEPT ![f] = [@ EXCEPT !.kind = "managed", !.hash = c, !.stored = TRUE,
                                           !.body = c, !.state = "pending"]]
    /\ owed' = owed \cup {f}
    /\ Mirrored(f, c)
    /\ UNCHANGED <<setup, tip, idx, syncStatus, jobVars, run>>

\* Each delete uses up a write, so it needs no bound of its own.
DeleteManaged(f) ==
    /\ row[f].kind = "managed"
    /\ Remove({f})
    /\ Mirrored(f, NoContent)
    /\ UNCHANGED <<setup, tip, syncStatus, jobVars, run, bounds>>

\* Someone edits the folder, or pushes a commit.
Change(f, c) ==
    /\ c # source[f]
    /\ Edit
    /\ source' = [source EXCEPT ![f] = c]
    /\ IF setup = "git" THEN tip < MaxCommits /\ tip' = tip + 1
                        ELSE UNCHANGED tip
    /\ UNCHANGED <<setup, row, owed, idx, syncStatus, jobVars, run>>

\* The process dies and restarts; an index job that was running is retried.
Crash ==
    /\ faults + crashes < MaxMishaps
    /\ crashes' = crashes + 1
    /\ job' = [j \in Jobs |-> IF job[j] = "sending" THEN "none" ELSE job[j]]
    /\ held' = NoJob
    /\ run' = NoRun
    /\ owed' = owed \cup ({idx.file} \ {NoFile})
    /\ idx' = NoIdx
    /\ UNCHANGED <<setup, source, tip, row, syncStatus, left, edits, faults>>

-----------------------------------------------------------------------------
Import ==
    \/ Checkout \/ Scan \/ Insert \/ Put \/ Upsert \/ Prune \/ Purge \/ Finish
    \/ \E f \in Files : Read(f) \/ EnqueueIndex(f)

Failure ==
    \/ RunFails
    \/ \E f \in Files : FileFails(f)
    \/ \E j \in Jobs : SendFails(j)
    \/ Crash

Outside ==
    \/ \E f \in Files, c \in Contents : WriteManaged(f, c)
    \/ \E f \in Files, c \in Bodies : Change(f, c)
    \/ \E f \in Files : DeleteManaged(f)

Next ==
    \/ \E j \in Jobs : Call(j) \/ Tick(j) \/ Send(j) \/ Fetch(j) \/ Expire(j)
    \/ Import
    \/ \E f \in Files : IndexRead(f)
    \/ IndexCommit
    \/ Failure
    \/ Outside

Spec == Init /\ [][Next]_vars

(***************************************************************************)
(* Fairness.  The cron tick comes again and again and finds a corpus due   *)
(* once its interval has passed; workers poll, and handlers resume.        *)
(***************************************************************************)
Fairness ==
    /\ WF_vars(\E j \in Jobs : Tick(j))
    /\ \A j \in Jobs : WF_vars(Send(j)) /\ SF_vars(Fetch(j)) /\ WF_vars(Expire(j))
    /\ WF_vars(Import)
    /\ \A f \in Files : SF_vars(IndexRead(f))
    /\ WF_vars(IndexCommit)

FairSpec == Spec /\ Fairness

-----------------------------------------------------------------------------
(* What must hold.                                                         *)

(***************************************************************************)
(* A sync imports the tree: it never removes the document of a file that   *)
(* is in the tree it is importing, unless a call for that file failed.     *)
(***************************************************************************)
TreeKept ==
    [][\A f \in run.scanned \ run.hit :
          row[f].kind = "synced" => row'[f].kind = "synced"]_vars

(***************************************************************************)
(* A sync never touches a managed document, whatever the tree has at its   *)
(* path, except that an authoritative mount removes those it does not have.*)
(***************************************************************************)
ManagedKept ==
    [][\A f \in Files :
          run' # run /\ row[f].kind = "managed" =>
            \/ row'[f] = row[f]
            \/ setup = "mount_authoritative" /\ f \notin run.scanned]_vars

(***************************************************************************)
(* Between two syncs every imported document can be opened: its blob is    *)
(* there and is what its hash says, even after one failing call.  A crash, *)
(* or a second failure before the pruning, can leave a placeholder whose   *)
(* hash makes every later sync take it for unchanged.                      *)
(***************************************************************************)
ImportedWhole ==
    run.at = "idle" /\ faults <= 1 /\ crashes = 0 =>
        \A f \in Files : row[f].kind = "synced" =>
            row[f].stored /\ row[f].body = row[f].hash

Matches(f) ==
    IF source[f] = NoContent THEN row[f].kind # "synced"
    ELSE \/ row[f].kind = "managed"
         \/ row[f].kind = "synced" /\ row[f].hash = source[f]

\* Left marked running, with no job that would change it.
Abandoned == syncStatus = "running" /\ \A j \in Jobs : job[j] = "none"

(***************************************************************************)
(* Once the source is left alone the corpus comes to match it, across      *)
(* failing calls and crashes, unless the corpus is left marked running     *)
(* with no job: then the schedule never picks it up again.                 *)
(***************************************************************************)
SyncConverges ==
    \/ <>[](\A f \in Files : Matches(f))
    \/ <>[]Abandoned

(***************************************************************************)
(* When nothing fails, imported documents come to be searchable with the   *)
(* content they were imported with, however syncs and index runs overlap.  *)
(***************************************************************************)
SyncedSearchable ==
    \/ <>[](\A f \in Files : row[f].kind = "synced" => row[f].chunks = row[f].hash)
    \/ <>(faults + crashes > 0)
=============================================================================
