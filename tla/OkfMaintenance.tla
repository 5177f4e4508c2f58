--------------------------- MODULE OkfMaintenance ---------------------------
(***************************************************************************)
(* A corpus whose tree (module NodeTree) is kept company by OKF            *)
(* maintenance: every creation, save, move and delete of a document sends  *)
(* an event to a queue debounced by folder, and one worker brings the      *)
(* folder's index.md and log.md up to date.  The worker reads the tree     *)
(* once, adds or removes the bullet of the one file the event names, and   *)
(* writes the two files like a client, while clients save them too.        *)
(*                                                                         *)
(* Time passes in slots of OKF_MAINTAIN_DEBOUNCE_SECONDS.  Titles and      *)
(* descriptions of bullets are left out.                                   *)
(***************************************************************************)
EXTENDS NodeTree, PathPolicy

CONSTANTS
    Worker,        \* the one caller that is internal
    RetryLimit,    \* of a job of the queue
    DocPaths,      \* folders in which agents want to create documents
    Corpora        \* [okf, rows, saved, layers, kinds, maxCalls, maxCrashes]: is it
                   \* an OKF corpus, the tree it starts with, the events of files
                   \* just saved, where agents may write, the kinds of calls users
                   \* make, and bounds on these calls and on deaths of the process

ASSUME OkfAssumption ==
    /\ Worker \in Callers /\ Internal = {Worker}
    /\ RetryLimit \in Nat
    /\ DocPaths \subseteq Seq(FolderNames)
    /\ \A c \in Corpora :
         /\ c.okf \in BOOLEAN
         /\ c.rows \in Seq(Row) /\ IsTree(c.rows)
         /\ \A n \in DOMAIN c.rows : c.rows[n].folder => c.rows[n].name \in FolderNames
         /\ c.saved \subseteq Event /\ IsFiniteSet(c.saved) /\ Cardinality(c.saved) <= 1
         /\ \A l \in {c.layers.workspace, c.layers.corpus, c.layers.token} :
              DOMAIN l \subseteq Nat /\ \A i \in DOMAIN l : l[i] \in Seq(Names)
         /\ c.kinds \subseteq Kinds /\ c.maxCalls \in Nat /\ c.maxCrashes \in Nat

VARIABLES
    corpus,   \* the corpus, fixed
    jobs,     \* the queue, oldest first
    slots,    \* <<folder, slot>> with a job, in this slot of time and the next
    worker,
    crashes

vars == <<treeVars, corpus, jobs, slots, worker, crashes>>

Users == Callers \ {Worker}

Job == [ev: Event, wait: BOOLEAN, active: BOOLEAN, left: 0 .. RetryLimit]

\* refs is what the run read of the tree at its start, dirs the folders whose
\* index it has not seen to, node and text the file it is about to save.
Resting == [at |-> "idle", job |-> {}, refs |-> {}, dirs |-> <<>>,
            node |-> Null, text |-> NoText]

NewJob(e, wait) == [ev |-> e, wait |-> wait, active |-> FALSE, left |-> RetryLimit]

TypeOK ==
    /\ TreeTypeOK
    /\ jobs \in Seq(Job)
    /\ slots \subseteq Seq(FolderNames) \X {"now", "next"}
    /\ worker.at \in {"idle", "index", "making", "merge", "log", "making log",
                      "append", "finish"}
    /\ worker.job \subseteq Job /\ Cardinality(worker.job) = IF worker.at = "idle" THEN 0 ELSE 1
    /\ worker.refs \subseteq [path: Seq(FolderNames), name: Concepts]
    /\ worker.dirs \in Seq(Seq(FolderNames))
    /\ worker.node \in 0 .. Len(rows) /\ worker.text \in Text
    /\ crashes \in 0 .. corpus.maxCrashes

Init ==
    /\ corpus \in Corpora /\ rows = corpus.rows
    /\ call = [c \in Callers |-> Idle]
    /\ calls = 0 /\ odd = {}
    /\ jobs = SetToSeq({NewJob(e, FALSE) : e \in corpus.saved})
    /\ slots = {<<e.key, "now">> : e \in corpus.saved}
    /\ worker = Resting
    /\ crashes = 0

-----------------------------------------------------------------------------
(* The queue.                                                              *)

\* sendDebounced: the first job of a folder takes this slot, the second waits
\* for the next one, and there is no third.  A corpus that is not OKF has its
\* jobs end without effect; they are left out.
Enqueue(e) ==
    LET Add(slot) == /\ jobs' = Append(jobs, NewJob(e, slot = "next"))
                     /\ slots' = slots \cup {<<e.key, slot>>}
                     /\ UNCHANGED odd
    IN  IF ~corpus.okf THEN UNCHANGED <<jobs, slots, odd>>
        ELSE IF <<e.key, "now">> \notin slots THEN Add("now")
        ELSE IF <<e.key, "next">> \notin slots THEN Add("next")
        ELSE odd' = odd \cup {"dropped"} /\ UNCHANGED <<jobs, slots>>

Send(c, e) ==
    /\ Tell(c, e)
    /\ Enqueue(e)
    /\ UNCHANGED <<corpus, worker, crashes>>

\* The next slot of time begins.
Tick ==
    /\ slots # {}
    /\ slots' = {<<s[1], "now">> : s \in {s \in slots : s[2] = "next"}}
    /\ jobs' = [i \in DOMAIN jobs |-> [jobs[i] EXCEPT !.wait = FALSE]]
    /\ UNCHANGED <<treeVars, corpus, worker, crashes>>

Ready(i) == ~jobs[i].active /\ ~jobs[i].wait

\* No two jobs are of one event.
Place(j) == CHOOSE i \in DOMAIN jobs : jobs[i].ev = j.ev
Others(j) == RemoveAt(jobs, Place(j))

MutantRetried(j) == [jobs EXCEPT ![Place(j)] = [j EXCEPT !.active = FALSE, !.left = @ - 1]]

\* An attempt failed: the job keeps its place among the others.
Retried(j) ==
    IF j.left = 0 THEN Others(j)
    ELSE [jobs EXCEPT ![Place(j)] = [j EXCEPT !.active = FALSE, !.left = @ - 1]]

\* A job whose process died stays active until pg-boss expires it.
Expire ==
    /\ \E i \in DOMAIN jobs :
         /\ jobs[i].active /\ worker.job = {}
         /\ jobs' = Retried(jobs[i])
    /\ UNCHANGED <<treeVars, corpus, slots, worker, crashes>>

-----------------------------------------------------------------------------
(* maintainForEvent.                                                       *)

TheJob == CHOOSE j \in worker.job : TRUE
TheEvent == TheJob.ev

\* folderPathsForMaintenanceEvent
Dirs(e) == IF e.from = e.path THEN <<e.path>> ELSE <<e.from, e.path>>

Rests == UNCHANGED <<treeVars, corpus, slots, crashes>>

Take ==
    /\ worker.at = "idle"
    /\ \E i \in DOMAIN jobs :
         /\ Ready(i) /\ \A k \in 1 .. (i - 1) : ~Ready(k)
         /\ jobs' = [jobs EXCEPT ![i].active = TRUE]
         /\ worker' = [at |-> IF jobs[i].ev.name \in Concepts THEN "index" ELSE "finish",
                       job |-> {jobs'[i]},
                       refs |-> {[path |-> rows[n].path, name |-> rows[n].name] :
                                   n \in {n \in Nodes : rows[n].stored
                                                        /\ rows[n].name \in Concepts}},
                       dirs |-> Dirs(jobs[i].ev), node |-> Null, text |-> NoText]
    /\ Rests

\* What goes wrong in a run is thrown to pg-boss, which gives the job up when it
\* has no attempt left.
Throws ==
    /\ jobs' = Retried(TheJob)
    /\ worker' = Resting
    /\ odd' = IF TheJob.left = 0 THEN odd \cup {"given up"} ELSE odd
    /\ UNCHANGED <<rows, call, calls>>

ConceptsIn(d) == {r.name : r \in {r \in worker.refs : r.path = d}}

\* childFolderNamesFromNodes takes folders from paths two levels further down.
SubfoldersIn(d) ==
    {r.path[Len(d) + 1] : r \in {r \in worker.refs : IsPrefix(d, r.path)
                                                     /\ Len(r.path) >= Len(d) + 2}}

Listing(d) == ConceptsIn(d) \cup SubfoldersIn(d)

OnToNext ==
    LET left == Tail(worker.dirs)
    IN  [worker EXCEPT !.dirs = left, !.at = IF left = <<>> THEN "log" ELSE "index",
                       !.node = Null, !.text = NoText]

\* mergeIndexIncremental
MutantMerged(e, listed) ==
    IF e.kind = "create" /\ listed # {} THEN listed
    ELSE IF e.kind = "delete" THEN listed \ {e.name} ELSE listed \cup {e.name}

MutantKeptMerged(e, listed) == listed \cup {e.name}

Merged(e, listed) ==
    IF e.kind = "delete" THEN listed \ {e.name} ELSE listed \cup {e.name}

Files(p, m) == {n \in At(p, m) : ~rows[n].folder}

\* #maintainFolderIndex: nothing to do, or an index to make, or one to extend.
Index ==
    /\ worker.at = "index"
    /\ LET d == Head(worker.dirs)
           delete == TheEvent.kind = "delete"
           found == Files(d, "index.md")
       IN  IF IF delete THEN found = {} ELSE Listing(d) = {}
             THEN worker' = OnToNext /\ UNCHANGED treeVars
           ELSE IF found = {}
             THEN /\ StartCreate(Worker, "file", d, "index.md",
                                 [NoText EXCEPT !.listed = Listing(d)])
                  /\ worker' = [worker EXCEPT !.at = "making"]
           ELSE \E n \in found :
                  /\ worker' = [worker EXCEPT !.at = "merge", !.node = n, !.text = rows[n].text]
                  /\ UNCHANGED treeVars
    /\ UNCHANGED <<corpus, jobs, slots, crashes>>

Entry == [ev |-> TheEvent, left |-> TheJob.left]

\* #maintainFolderLog
Log ==
    /\ worker.at = "log"
    /\ LET found == Files(TheEvent.path, "log.md")
       IN  IF found = {}
             THEN /\ StartCreate(Worker, "file", TheEvent.path, "log.md",
                                 [NoText EXCEPT !.entries = {Entry}])
                  /\ worker' = [worker EXCEPT !.at = "making log"]
             ELSE \E n \in found :
                    /\ worker' = [worker EXCEPT !.at = "append", !.node = n, !.text = rows[n].text]
                    /\ UNCHANGED treeVars
    /\ UNCHANGED <<corpus, jobs, slots, crashes>>

\* createFileInternal has returned, or thrown.
Made ==
    /\ worker.at \in {"making", "making log"}
    /\ \/ /\ call[Worker].at = "done"
          /\ Ends(Worker)
          /\ worker' = IF worker.at = "making" THEN OnToNext ELSE [worker EXCEPT !.at = "finish"]
          /\ UNCHANGED <<rows, calls, odd, jobs>>
       \/ call[Worker] = Idle /\ Throws
    /\ UNCHANGED <<corpus, slots, crashes>>

\* A user's text m was made from another one than n.
Outdated(m, n) == m.listed # n.listed \/ m.entries # n.entries \/ n.note > m.note

MutantNewText ==
    IF worker.at = "merge"
      THEN [NoText EXCEPT !.listed = Merged(TheEvent, worker.text.listed)]
      ELSE [worker.text EXCEPT !.entries = @ \cup {Entry}]

\* mergeIndexIncremental, appendLogEntryToContent
NewText ==
    IF worker.at = "merge"
      THEN [worker.text EXCEPT !.listed = Merged(TheEvent, @)]
      ELSE [worker.text EXCEPT !.entries = @ \cup {Entry}]

\* saveContentInternal: what was read, with the change, over whatever is there.
SaveText ==
    /\ worker.at \in {"merge", "append"}
    /\ IF ~rows[worker.node].there THEN Throws
       ELSE /\ rows' = [rows EXCEPT ![worker.node].text = NewText]
            /\ worker' = IF worker.at = "merge" THEN OnToNext ELSE [worker EXCEPT !.at = "finish"]
            /\ odd' = IF rows[worker.node].text # worker.text THEN odd \cup {"clash"} ELSE odd
            /\ UNCHANGED <<call, calls, jobs>>
    /\ UNCHANGED <<corpus, slots, crashes>>

Finish ==
    /\ worker.at = "finish"
    /\ jobs' = Others(TheJob)
    /\ worker' = Resting
    /\ odd' = IF \E c \in Busy : call[c].folder THEN odd \cup {"uprooted"} ELSE odd
    /\ UNCHANGED <<rows, call, calls, corpus, slots, crashes>>

-----------------------------------------------------------------------------
(* Users, and what properties make exceptions for.                         *)

OkfStays == UNCHANGED <<corpus, jobs, slots, worker, crashes>>
Odd(o, happens) == odd' = IF happens THEN odd \cup {o} ELSE odd

\* What clients ask for; not what is so already.
Calls(c) ==
    \/ \E p \in Folders :
         \/ \E m \in FolderNames : StartCreate(c, "folder", p, m, NoText)
         \/ \E m \in Concepts : StartCreate(c, "file", p, m, NoText)
         \/ \E n \in Nodes : rows[n].path # p /\ StartMove(c, n, p)
    \/ \E p \in DocPaths, m \in Concepts :
         /\ Permits(Resolve(corpus.layers), Append(p, m))
         /\ StartCreate(c, "document", p, m, NoText)
    \/ \E n \in Nodes :
         \E m \in (IF rows[n].folder THEN FolderNames ELSE Concepts) \ {rows[n].name} :
           StartRename(c, n, m)
    \/ \E n \in Nodes : StartDelete(c, n)
    \/ \E n \in Nodes : StartSave(c, n, IF rows[n].name \in Concepts THEN NoText
                                        ELSE [rows[n].text EXCEPT !.note = calls + 1])

Call(c) ==
    /\ calls < corpus.maxCalls
    /\ Calls(c) /\ call'[c].kind \in corpus.kinds
    /\ OkfStays

Step(c) == TreeStep(c) /\ OkfStays

\* The text a call writes was not made from the one it overwrites: a user saves
\* a file others have changed, or saved the new file before its first content.
StoreStep(c) ==
    /\ Store(c)
    /\ LET now == rows[call[c].id].text
       IN  Odd("clash", IF call[c].kind = "save" THEN Outdated(call[c].text, now)
                        ELSE now # NoText)
    /\ OkfStays

\* A folder that gets another path takes the ground from under the jobs of its
\* old one; a file that gets another name or place leaves its bullet behind.
WriteStep(c) ==
    /\ Write(c)
    /\ LET r == rows[call[c].id]
       IN  Odd(IF call[c].folder THEN "uprooted"
               ELSE IF r.name \in Concepts THEN "renamed" ELSE "index",
               ~call[c].folder \/ jobs # <<>>)
    /\ OkfStays

\* What a run has read may be of a folder that is gone when it gets to it, or to
\* the second of two.
DeleteStep(c) ==
    /\ DeleteMany(c)
    /\ IF call[c].folder THEN Odd("razed", worker.at = "index" \/ Len(worker.dirs) > 1)
       ELSE Odd("index", rows[call[c].id].name \notin Concepts)
    /\ OkfStays

\* The process dies; the job it was running is left active.
Crash ==
    /\ crashes < corpus.maxCrashes
    /\ Busy # {} \/ worker # Resting
    /\ call' = [c \in Callers |-> Idle]
    /\ worker' = Resting
    /\ crashes' = crashes + 1
    /\ odd' = odd \cup {"died"}
    /\ UNCHANGED <<rows, calls, corpus, jobs, slots>>

-----------------------------------------------------------------------------
Next ==
    \/ \E c \in Users : Call(c)
    \/ \E c \in Callers :
         \/ Step(c) \/ StoreStep(c) \/ WriteStep(c) \/ DeleteStep(c)
         \/ \E e \in call[c].tell : Send(c, e)
    \/ Take \/ Index \/ Log \/ Made \/ SaveText \/ Finish
    \/ Tick \/ Expire \/ Crash

Spec == Init /\ [][Next]_vars

-----------------------------------------------------------------------------
(* Properties.                                                             *)

Quiet == Busy = {} /\ jobs = <<>> /\ worker = Resting

\* The corpus began as a conversion that makes the missing indexes leaves it: an
\* index.md lists the concepts beside it, all of them but one that was just
\* saved, and no file that is not there.
InOrder(c) ==
    LET Beside(p) == {n \in DOMAIN c.rows : c.rows[n].there /\ ~c.rows[n].folder
                                             /\ c.rows[n].path = p}
        Lists(k, m) == c.rows[k].name = "index.md" /\ m \in c.rows[k].text.listed
    IN  /\ \A e \in c.saved :
             /\ e.kind = "update" /\ e.from = e.path /\ e.key = e.path /\ e.no = 0
             /\ \E n \in Beside(e.path) : c.rows[n].name = e.name
        /\ \A n \in DOMAIN c.rows :
             c.rows[n].there /\ ~c.rows[n].folder =>
               /\ c.rows[n].name \in Concepts =>
                    /\ c.rows[n].stored
                    /\ \/ \E k \in Beside(c.rows[n].path) : Lists(k, c.rows[n].name)
                       \/ \E e \in c.saved : e.path = c.rows[n].path /\ e.name = c.rows[n].name
               /\ \A m \in FileNames \ FolderNames :
                    Lists(n, m) => \E k \in Beside(c.rows[n].path) : c.rows[k].name = m

\* SPEC.md: "auto-refresh index".  When nothing is under way, every concept is
\* listed in the index.md beside it.  Excepted are the cases in which the code
\* gives an event up (a third one within a slot, a job without attempts left, a
\* death), in which a client took part in the upkeep (it moved or deleted an
\* index.md, saved one during a run, moved a folder that had jobs), and calls
\* that overlapped on one file, or on a folder.
Listed ==
    /\ corpus.okf /\ InOrder(corpus) /\ Quiet
    /\ odd \cap {"dropped", "given up", "died", "clash", "uprooted", "index", "tangled"} = {}
    => \A n \in Nodes : ~rows[n].folder /\ rows[n].name \in Concepts =>
          \E k \in Files(rows[n].path, "index.md") : rows[n].name \in rows[k].text.listed

\* The other way round: an index.md lists no file that is not beside it.  Two
\* more exceptions: a move or a rename of a file, which leaves its old bullet
\* behind; and the delete of a folder that a run has read and may yet get to,
\* which, if the folder is made again meanwhile, fills a new index.md with what it
\* has read of the old one.
NothingStale ==
    /\ corpus.okf /\ InOrder(corpus) /\ Quiet
    /\ odd \cap {"dropped", "given up", "died", "clash", "uprooted", "index", "tangled",
                  "renamed", "razed"} = {}
    => \A n \in Nodes : ~rows[n].folder /\ rows[n].name = "index.md" =>
          \A m \in rows[n].text.listed \cap (FileNames \ FolderNames) :
            Files(rows[n].path, m) # {}

\* What users write in an index.md or log.md, and the entries of a log.md, stay
\* when maintenance saves the file, unless a save came between its read of the
\* file and its write, or between the insert of a new file and its content.
Kept ==
    \A n \in DOMAIN rows :
      LET old == rows[n].text
          new == rows'[n].text
      IN  new.note < old.note \/ ~(old.entries \subseteq new.entries) =>
             "clash" \in odd' \/ ~rows'[n].there

TextKept == [][Kept]_vars

\* SPEC.md: "Token and corpus prefix lists cannot expand beyond the workspace
\* allowlist."  Nor do they shut out what all lists permit, in plain cases.  The
\* lists do not change: it is enough to look before the first call.
LayersNarrow ==
    calls = 0 =>
        \A p \in DocPaths, m \in Concepts : NarrowsOnly(corpus.layers, Append(p, m))
=============================================================================
