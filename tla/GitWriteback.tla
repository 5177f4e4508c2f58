---------------------------- MODULE GitWriteback ----------------------------
(***************************************************************************)
(* A corpus imported from a git repository whose files are edited in the   *)
(* knowledge base and written back as commits:                             *)
(*   - GitWritebackService.runWriteback, in the one worker of its queue:   *)
(*     fetch, check the target branch out, refuse when histories diverged, *)
(*     copy the documents' contents into the working tree, stage, commit,  *)
(*     push;                                                               *)
(*   - GitSyncService.runSync, in the worker of another queue: clone or    *)
(*     fetch, check FETCH_HEAD out, import the working tree.  Both work in *)
(*     one clone on the server's disk and nothing keeps them apart;        *)
(*   - users saving and deleting imported files, whoever else pushes to    *)
(*     the repository, and the operator who removes the clone.             *)
(*                                                                         *)
(* git is modelled from the commands the services run: the clone is made   *)
(* with --depth 1 --branch, so it follows one branch only and its history  *)
(* is cut off at the commits that were fetched with --depth 1.  Commits    *)
(* are numbered in the order they are made; a content is a number, Absent  *)
(* for no file.                                                            *)
(***************************************************************************)
EXTENDS Naturals, FiniteSets

CONSTANTS
    Files,         \* paths in the repository
    Editable,      \* those that users edit in the knowledge base
    Targets,       \* where writeback may be configured to commit
    PushModes,     \* gitPushEnabled, either way
    RetryLimit,    \* of a job of the writeback queue
    MaxSaves,      \* bound on saves and deletes by users
    MaxForeign,    \* bound on commits pushed by others
    MaxSyncs,      \* bound on syncs started
    MaxResets,     \* bound on removals of the clone
    MaxMishaps     \* bound on failing commands and process crashes together

ASSUME GitAssumption ==
    /\ Editable \subseteq Files
    /\ Targets \subseteq {"main", "feature"}
    /\ PushModes \subseteq BOOLEAN
    /\ RetryLimit \in Nat /\ MaxSaves \in Nat /\ MaxForeign \in Nat
    /\ MaxSyncs \in Nat /\ MaxResets \in Nat /\ MaxMishaps \in Nat

VARIABLES
    target, push,  \* the branch to commit to, gitPushEnabled; fixed
    commits,       \* every commit made, by number
    remote,        \* the branches of the remote, NoCommit for none
    clone,         \* the clone on the server's disk
    doc,           \* the document of each file
    jobs,          \* writeback jobs waiting
    wb, sync,      \* what the two workers are doing
    status,        \* settings.syncStatus.lastSyncStatus
    pushed,        \* audit entries git_writeback_push without an error
    written,       \* contents writebacks put into the clone; only for the properties
    bounds

vars == <<target, push, commits, remote, clone, doc, jobs, wb, sync, status,
          pushed, written, bounds>>

Branches == {"main", "feature"}
NoCommit == 0
Detached == "detached"
Absent == 0

Commits == 1 .. (1 + MaxForeign + MaxSaves * (RetryLimit + 1))
Content == 0 .. (1 + MaxForeign + MaxSaves)
Tree == [Files -> Content]

\* past are the commits it contains, itself included.
Commit == [past: SUBSET Commits, parent: Commits \cup {NoCommit},
           files: Tree, by: {"others", "writeback"}]

\* local and track are the local and the remote-tracking branches, cut the
\* commits at which history is cut off, fetched is FETCH_HEAD, on the branch
\* that is checked out.
Clone == [here: BOOLEAN,
          local: [Branches -> Commits \cup {NoCommit}],
          track: [Branches -> Commits \cup {NoCommit}],
          cut: SUBSET Commits, fetched: Commits \cup {NoCommit},
          head: Commits \cup {NoCommit}, on: Branches \cup {Detached},
          index: Tree, work: Tree]

\* rev is the commit in source_ref; born the number of saves before the row was
\* made, so that the jobs of older rows are told from its own; mixed marks
\* contents imported while a writeback was at work, in for those no user changed
\* since the import.
Doc == [v: Content, rev: Commits \cup {NoCommit}, born: 0 .. MaxSaves,
        in: BOOLEAN, mixed: BOOLEAN]

Job == [file: Files, op: {"upsert", "delete"}, id: 1 .. MaxSaves, left: 0 .. RetryLimit]

NoDoc == [v |-> Absent, rev |-> NoCommit, born |-> 0, in |-> FALSE, mixed |-> FALSE]
NoClone == [here |-> FALSE, local |-> [b \in Branches |-> NoCommit],
            track |-> [b \in Branches |-> NoCommit], cut |-> {},
            fetched |-> NoCommit, head |-> NoCommit, on |-> Detached,
            index |-> [f \in Files |-> Absent], work |-> [f \in Files |-> Absent]]
NoJob == [file |-> CHOOSE f \in Files : TRUE, op |-> "upsert", id |-> 0, left |-> 0]
IdleWb == [at |-> "idle", job |-> NoJob, made |-> NoCommit, mixed |-> FALSE]
IdleSync == [at |-> "idle", rev |-> NoCommit, mixed |-> FALSE]

TypeOK ==
    /\ target \in Targets /\ push \in PushModes
    /\ DOMAIN commits \in {1 .. n : n \in Commits}
    /\ \A c \in DOMAIN commits : commits[c] \in Commit
    /\ remote \in [Branches -> Commits \cup {NoCommit}]
    /\ clone \in Clone
    /\ doc \in [Files -> Doc]
    /\ jobs \subseteq Job
    /\ wb.at \in {"idle", "fetch", "branch", "diverged", "apply", "stage", "commit", "push"}
    /\ wb.job \in Job \cup {NoJob} /\ wb.made \in Commits \cup {NoCommit}
    /\ sync.at \in {"idle", "fetch", "checkout", "head", "import"}
    /\ sync.rev \in Commits \cup {NoCommit}
    /\ wb.mixed \in BOOLEAN /\ sync.mixed \in BOOLEAN
    /\ status \in {"idle", "running", "success", "failed", "writeback_blocked"}
    /\ pushed \subseteq [commit: Commits, mixed: BOOLEAN]
    /\ written \subseteq Content
    /\ bounds.saves \in 0 .. MaxSaves /\ bounds.foreign \in 0 .. MaxForeign
    /\ bounds.syncs \in 0 .. MaxSyncs /\ bounds.resets \in 0 .. MaxResets
    /\ bounds.mishaps \in 0 .. MaxMishaps

\* The repository has one commit with every file; the corpus is empty.
Init ==
    /\ target \in Targets /\ push \in PushModes
    /\ commits = [c \in {1} |-> [past |-> {1}, parent |-> NoCommit,
                                 files |-> [f \in Files |-> 1], by |-> "others"]]
    /\ remote = [b \in Branches |-> IF b = "main" THEN 1 ELSE NoCommit]
    /\ clone = NoClone
    /\ doc = [f \in Files |-> NoDoc]
    /\ jobs = {} /\ wb = IdleWb /\ sync = IdleSync
    /\ status = "idle"
    /\ pushed = {} /\ written = {}
    /\ bounds = [saves |-> 0, foreign |-> 0, syncs |-> 0, resets |-> 0, mishaps |-> 0]

Past(c) == IF c = NoCommit THEN {} ELSE commits[c].past
NewCommit == Cardinality(DOMAIN commits) + 1
NewContent == 2 + bounds.saves + bounds.foreign
AddCommit(tree, parent, by) ==
    commits' = [c \in DOMAIN commits \cup {NewCommit} |->
                  IF c = NewCommit
                    THEN [past |-> Past(parent) \cup {c}, parent |-> parent,
                          files |-> tree, by |-> by]
                    ELSE commits[c]]

-----------------------------------------------------------------------------
(* git in the clone.                                                       *)

FilesAt(c) == commits[c].files

\* The commits of c's history that the clone has.
Known(c) == {d \in Past(c) : \A g \in clone.cut \cap Past(c) : d \in Past(g) => d = g}

\* git checkout carries uncommitted changes along and refuses to lose them.
CanCheckout(c) ==
    \A f \in Files :
        \/ FilesAt(clone.head)[f] = FilesAt(c)[f]
        \/ clone.index[f] = FilesAt(c)[f]
        \/ /\ clone.index[f] = FilesAt(clone.head)[f]
           /\ clone.work[f] \in {clone.index[f], Absent}

MutantCheckedOut(c, on) == [clone EXCEPT !.head = c, !.on = on]

\* A path is moved unless HEAD and c agree on it or the index is there already.
CheckedOut(c, on) ==
    LET moves == {f \in Files : /\ FilesAt(clone.head)[f] # FilesAt(c)[f]
                                /\ clone.index[f] # FilesAt(c)[f]}
        Moved(tree) == [f \in Files |-> IF f \in moves THEN FilesAt(c)[f] ELSE tree[f]]
    IN  [clone EXCEPT !.head = c, !.on = on,
                      !.index = Moved(@), !.work = Moved(@)]

\* git fetch origin <b>: a branch the clone does not follow only moves FETCH_HEAD.
Fetched(b) ==
    [clone EXCEPT !.fetched = remote[b],
                  !.track["main"] = IF b = "main" THEN remote[b] ELSE @]

\* Non-fast-forward pushes are refused: nothing ever passes --force.
MutantAccepted(b) == TRUE

Accepted(b) == remote[b] = NoCommit \/ remote[b] \in Known(clone.head)

-----------------------------------------------------------------------------
(* Users.  saveContent enqueues a job for its file after the row is        *)
(* written, deleteNodes before the row is deleted; the queue does not drop *)
(* a job for its singleton key.                                            *)

SavedJob(f, op) == [file |-> f, op |-> op, id |-> bounds.saves + 1, left |-> RetryLimit]

\* The call is cut short between the two when it is not whole.
Change(f, d, js, whole) ==
    /\ doc[f].v # Absent
    /\ bounds.saves < MaxSaves
    /\ whole \/ bounds.mishaps < MaxMishaps
    /\ doc' = [doc EXCEPT ![f] = d]
    /\ jobs' = jobs \cup js
    /\ bounds' = [bounds EXCEPT !.saves = @ + 1, !.mishaps = IF whole THEN @ ELSE @ + 1]
    /\ UNCHANGED <<target, push, commits, remote, clone, wb, sync, status, pushed, written>>

Save(f, whole) ==
    Change(f, [doc[f] EXCEPT !.v = NewContent, !.in = FALSE],
           IF whole THEN {SavedJob(f, "upsert")} ELSE {}, whole)

Delete(f, whole) ==
    Change(f, IF whole THEN NoDoc ELSE doc[f], {SavedJob(f, "delete")}, whole)

-----------------------------------------------------------------------------
(* runWriteback.                                                           *)

MutantBlocked == wb' = IdleWb /\ status' = "blocked"

\* #failClosed: the job ends and is not retried.
Blocked == wb' = IdleWb /\ status' = "writeback_blocked"

Take(j) ==
    /\ wb.at = "idle" /\ j \in jobs
    /\ jobs' = jobs \ {j}
    /\ IF clone.here
         THEN /\ wb' = [at |-> "fetch", job |-> j, made |-> NoCommit, mixed |-> sync.at # "idle"]
              /\ sync' = [sync EXCEPT !.mixed = @ \/ sync.at # "idle"]
              /\ UNCHANGED status
         ELSE Blocked /\ UNCHANGED sync
    /\ UNCHANGED <<target, push, commits, remote, clone, doc, pushed, written,
                   bounds>>

Mishap ==
    /\ bounds.mishaps < MaxMishaps
    /\ bounds' = [bounds EXCEPT !.mishaps = @ + 1]

Retried(j) == IF j.left > 0 THEN {[j EXCEPT !.left = @ - 1]} ELSE {}

\* The corpus or the credential cannot be read: pg-boss runs the job again.
TakeFails(j) ==
    /\ wb.at = "idle" /\ j \in jobs
    /\ Mishap
    /\ jobs' = (jobs \ {j}) \cup Retried(j)
    /\ UNCHANGED <<target, push, commits, remote, clone, doc, wb, sync, status, pushed,
                   written>>

WbStays == UNCHANGED <<target, push, remote, doc, jobs, sync, pushed, bounds>>

\* #prepareBranch: git fetch origin <branch>, or else git fetch origin.
WbFetch ==
    /\ wb.at = "fetch"
    /\ clone' = Fetched(IF remote[target] = NoCommit THEN "main" ELSE target)
    /\ wb' = [wb EXCEPT !.at = "branch"]
    /\ WbStays /\ UNCHANGED <<commits, status, written>>

\* The tip to check out: the local branch as it is, else the remote-tracking
\* branch, else the branch starts where HEAD is.
Tip == IF clone.local[target] # NoCommit THEN clone.local[target]
       ELSE IF clone.track[target] # NoCommit THEN clone.track[target]
       ELSE clone.head

MutantWbBranch ==
    /\ wb.at = "branch"
    /\ clone' = [MutantCheckedOut(Tip, target) EXCEPT !.local[target] = Tip]
    /\ wb' = [wb EXCEPT !.at = "diverged"]
    /\ WbStays /\ UNCHANGED <<commits, status, written>>

WbBranch ==
    /\ wb.at = "branch"
    /\ IF CanCheckout(Tip)
         THEN /\ clone' = [CheckedOut(Tip, target) EXCEPT !.local[target] = Tip]
              /\ wb' = [wb EXCEPT !.at = "diverged"]
              /\ UNCHANGED status
         ELSE Blocked /\ UNCHANGED clone
    /\ WbStays /\ UNCHANGED <<commits, written>>

\* #isDiverged; git merge-base fails where it finds no common commit.
Diverged ==
    /\ clone.track[target] # NoCommit
    /\ clone.head \notin Known(clone.track[target])
    /\ clone.track[target] \notin Known(clone.head)

WbDiverged ==
    /\ wb.at = "diverged"
    /\ IF Diverged THEN Blocked
       ELSE wb' = [wb EXCEPT !.at = "apply"] /\ UNCHANGED status
    /\ WbStays /\ UNCHANGED <<commits, clone, written>>

\* What the job puts into the working tree.
Applied == IF wb.job.op = "delete" THEN Absent ELSE doc[wb.job.file].v

\* A job of a save names the row it is about.
RowGone(j) == doc[j.file].v = Absent \/ j.id <= doc[j.file].born

\* #applyChanges: the document is read now, whatever it was when it was saved.
WbApply ==
    /\ wb.at = "apply"
    /\ LET f == wb.job.file
       IN  IF wb.job.op = "upsert" /\ RowGone(wb.job)
             THEN Blocked /\ UNCHANGED <<clone, written>>
             ELSE /\ clone' = [clone EXCEPT !.work[f] = Applied]
                  /\ written' = written \cup {Applied}
                  /\ wb' = [wb EXCEPT !.at = "stage"]
                  /\ UNCHANGED status
    /\ WbStays /\ UNCHANGED commits

\* git add -- <path>, or git rm --ignore-unmatch where the file is gone.
WbStage ==
    /\ wb.at = "stage"
    /\ clone' = [clone EXCEPT !.index[wb.job.file] = clone.work[wb.job.file]]
    /\ wb' = [wb EXCEPT !.at = "commit"]
    /\ WbStays /\ UNCHANGED <<commits, status, written>>

\* git status --porcelain, git commit: nothing to commit ends the job without
\* a word in the status; changes that nobody staged make git commit fail.
WbCommit ==
    /\ wb.at = "commit"
    /\ LET head == FilesAt(clone.head)
       IN  IF clone.index = head
             THEN /\ wb' = IdleWb
                  /\ status' = IF clone.work = head THEN status ELSE "writeback_blocked"
                  /\ UNCHANGED <<commits, clone>>
             ELSE /\ AddCommit(clone.index, clone.head, "writeback")
                  /\ clone' = [clone EXCEPT !.head = NewCommit,
                                 !.local = [b \in Branches |->
                                    IF b = clone.on THEN NewCommit ELSE @[b]]]
                  /\ wb' = IF push THEN [wb EXCEPT !.at = "push", !.made = NewCommit]
                                   ELSE IdleWb
                  /\ status' = IF push THEN status ELSE "success"
    /\ WbStays /\ UNCHANGED written

MutantWbPush ==
    /\ wb.at = "push"
    /\ remote' = IF Accepted(target) THEN [remote EXCEPT ![target] = clone.head] ELSE remote
    /\ pushed' = pushed \cup {[commit |-> wb.made, mixed |-> wb.mixed]}
    /\ wb' = IdleWb /\ status' = "success"
    /\ UNCHANGED <<target, push, commits, clone, doc, jobs, sync, written,
                   bounds>>

\* git push origin HEAD:<branch>
WbPush ==
    /\ wb.at = "push"
    /\ IF Accepted(target)
         THEN /\ remote' = [remote EXCEPT ![target] = clone.head]
              /\ clone' = [clone EXCEPT !.track["main"] =
                             IF target = "main" THEN clone.head ELSE @]
              /\ pushed' = pushed \cup {[commit |-> wb.made, mixed |-> wb.mixed]}
              /\ wb' = IdleWb
              /\ status' = "success"
         ELSE Blocked /\ UNCHANGED <<remote, clone, pushed>>
    /\ UNCHANGED <<target, push, commits, doc, jobs, sync, written,
                   bounds>>

\* A command fails: the job is reported as blocked and is not run again.  The
\* remote may have taken a push whose answer was lost.
WbFails ==
    /\ wb.at # "idle"
    /\ Mishap
    /\ Blocked
    /\ \/ UNCHANGED remote
       \/ /\ wb.at = "push" /\ Accepted(target)
          /\ remote' = [remote EXCEPT ![target] = clone.head]
    /\ UNCHANGED <<target, push, commits, clone, doc, jobs, sync, pushed, written>>

-----------------------------------------------------------------------------
(* runSync.                                                                *)

SyncStays == UNCHANGED <<target, push, commits, remote, jobs, pushed, written>>

\* enqueueSync and the start of the job; module SyncImport has its queue.
SyncStart ==
    /\ sync.at = "idle"
    /\ bounds.syncs < MaxSyncs
    /\ sync' = [at |-> "fetch", rev |-> NoCommit, mixed |-> wb.at # "idle"]
    /\ wb' = [wb EXCEPT !.mixed = @ \/ wb.at # "idle"]
    /\ status' = "running"
    /\ bounds' = [bounds EXCEPT !.syncs = @ + 1]
    /\ SyncStays /\ UNCHANGED <<clone, doc>>

\* git clone --depth 1 --branch <gitRef>, or git fetch --depth 1 origin <gitRef>
SyncFetch ==
    /\ sync.at = "fetch"
    /\ LET tip == remote["main"]
       IN  IF clone.here
             THEN /\ clone' = [Fetched("main") EXCEPT !.cut = @ \cup {tip}]
                  /\ sync' = [sync EXCEPT !.at = "checkout"]
             ELSE /\ clone' = [NoClone EXCEPT !.here = TRUE, !.cut = {tip},
                                 !.local["main"] = tip, !.track["main"] = tip,
                                 !.fetched = tip, !.head = tip, !.on = "main",
                                 !.index = FilesAt(tip), !.work = FilesAt(tip)]
                  /\ sync' = [sync EXCEPT !.at = "head"]
    /\ SyncStays /\ UNCHANGED <<doc, wb, status, bounds>>

\* git checkout FETCH_HEAD
SyncCheckout ==
    /\ sync.at = "checkout"
    /\ IF CanCheckout(clone.fetched)
         THEN /\ clone' = CheckedOut(clone.fetched, Detached)
              /\ sync' = [sync EXCEPT !.at = "head"]
              /\ UNCHANGED status
         ELSE sync' = IdleSync /\ status' = "failed" /\ UNCHANGED clone
    /\ SyncStays /\ UNCHANGED <<doc, wb, bounds>>

\* git rev-parse HEAD
SyncHead ==
    /\ sync.at = "head"
    /\ sync' = [sync EXCEPT !.at = "import", !.rev = clone.head]
    /\ SyncStays /\ UNCHANGED <<clone, doc, wb, status, bounds>>

\* importScannedFiles, as module SyncImport has it step by step: a row of this
\* commit takes the content of the working tree, a row of another commit is in
\* the way of its successor and is pruned, a missing row is created.
Imported(f) ==
    IF clone.work[f] = Absent \/ (doc[f].v # Absent /\ doc[f].rev # sync.rev)
      THEN NoDoc
      ELSE IF doc[f].v = clone.work[f] THEN doc[f]
      ELSE [v |-> clone.work[f], rev |-> sync.rev,
            born |-> IF doc[f].v = Absent THEN bounds.saves ELSE doc[f].born,
            in |-> TRUE, mixed |-> sync.mixed]

SyncImport ==
    /\ sync.at = "import"
    /\ doc' = [f \in Files |-> Imported(f)]
    /\ status' = IF \E f \in Files : doc[f].v # Absent /\ clone.work[f] # Absent
                                     /\ doc[f].rev # sync.rev
                   THEN "failed" ELSE "success"
    /\ sync' = IdleSync
    /\ SyncStays /\ UNCHANGED <<clone, wb, bounds>>

\* A command fails; the job is run again as another sync.
SyncFails ==
    /\ sync.at # "idle"
    /\ Mishap
    /\ sync' = IdleSync
    /\ status' = "failed"
    /\ SyncStays /\ UNCHANGED <<clone, doc, wb>>

-----------------------------------------------------------------------------
(* The rest of the world.                                                  *)

\* The process dies: a writeback that was running is retried.
Crash ==
    /\ wb.at # "idle" \/ sync.at # "idle"
    /\ Mishap
    /\ jobs' = IF wb.at = "idle" THEN jobs ELSE jobs \cup Retried(wb.job)
    /\ wb' = IdleWb /\ sync' = IdleSync
    /\ UNCHANGED <<target, push, commits, remote, clone, doc, status, pushed, written>>

\* Somebody pushes a commit that changes or removes one file.
Foreign(b, f, v) ==
    /\ bounds.foreign < MaxForeign
    /\ remote[b] # NoCommit /\ FilesAt(remote[b])[f] # v
    /\ AddCommit([FilesAt(remote[b]) EXCEPT ![f] = v], remote[b], "others")
    /\ remote' = [remote EXCEPT ![b] = NewCommit]
    /\ bounds' = [bounds EXCEPT !.foreign = @ + 1]
    /\ UNCHANGED <<target, push, clone, doc, jobs, wb, sync, status, pushed, written>>

\* The operator removes the clone while neither worker is busy.
Reset ==
    /\ clone.here /\ wb.at = "idle" /\ sync.at = "idle"
    /\ bounds.resets < MaxResets
    /\ clone' = NoClone
    /\ bounds' = [bounds EXCEPT !.resets = @ + 1]
    /\ UNCHANGED <<target, push, commits, remote, doc, jobs, wb, sync, status, pushed,
                   written>>

-----------------------------------------------------------------------------
Users ==
    \E f \in Editable, whole \in BOOLEAN : Save(f, whole) \/ Delete(f, whole)

Writeback ==
    \/ \E j \in jobs : Take(j) \/ TakeFails(j)
    \/ WbFetch \/ WbBranch \/ WbDiverged \/ WbApply \/ WbStage \/ WbCommit \/ WbPush
    \/ WbFails

Sync == SyncStart \/ SyncFetch \/ SyncCheckout \/ SyncHead \/ SyncImport \/ SyncFails

Outside ==
    \/ \E b \in Branches, f \in Files : \E v \in {Absent, NewContent} : Foreign(b, f, v)
    \/ Reset
    \/ Crash

Next == Users \/ Writeback \/ Sync \/ Outside

Spec == Init /\ [][Next]_vars

-----------------------------------------------------------------------------
(* Properties.                                                             *)

\* Whatever order syncs, writebacks, crashes and pushes by others take, no
\* commit ever leaves a branch of the remote.
Remote == INSTANCE RemoteHistory WITH
    Commits <- Nat, hist <- [b \in Branches |-> Past(remote[b])]
RemoteKept == Remote!Spec

\* A commit of the service differs from its parent only in files for which
\* the knowledge base had a change to write: neither a checkout that carries
\* changes along, nor what a job that died left in the clone, puts an old
\* version of somebody else's file into it.
OnlyEditedFiles ==
    \A c \in DOMAIN commits : commits[c].by = "writeback" =>
        \A f \in Files \ Editable :
            commits[c].files[f] = commits[commits[c].parent].files[f]

\* A push that the audit log records did put the commit it names on the
\* target branch, for good, unless a sync ran at the same time.
PushedIsThere ==
    \A p \in pushed : ~p.mixed => p.commit \in Past(remote[target])

\* A document as the import left it has the content its file has in the commit
\* its source_ref names, unless what is shown is what a writeback had put into
\* the clone and left there, or a writeback ran at the same time.
SourceRefTrue ==
    \A f \in Files :
        doc[f].in /\ ~doc[f].mixed /\ doc[f].v \notin written =>
            doc[f].v = commits[doc[f].rev].files[f]

\* docs/GIT-WRITEBACK.md: EvuKB does not silently discard KB edits.  Stated of
\* a sync: the text of a user's edit is replaced or removed only by a commit that
\* has it in its history.
EditsNotDiscarded ==
    [][\A f \in Files :
          SyncImport /\ doc[f].v # Absent /\ ~doc[f].in /\ doc'[f].v # doc[f].v =>
              \E c \in Past(sync.rev) : commits[c].files[f] = doc[f].v]_vars
=============================================================================
