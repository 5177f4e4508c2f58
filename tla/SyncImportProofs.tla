-------------------------- MODULE SyncImportProofs --------------------------
(***************************************************************************)
(* Proofs about SyncImport, for every set of files, contents and sync      *)
(* jobs, every setup of the corpus, any number of edits, failing calls and *)
(* crashes: a sync leaves managed documents alone (Owned), keeps what is   *)
(* in its tree (TreeInv) and leaves nothing half written that it does not  *)
(* mend (WholeInv).                                                        *)
(***************************************************************************)
EXTENDS SyncImport, TLAPS

-----------------------------------------------------------------------------
(* The inductive invariants.                                               *)

\* The steps that work on the loop's current file.
OnFile == {"insert", "put", "upsert"}

\* The loop's current file is one it has still to do, and has a content.
Placed ==
    run.at \in OnFile => run.file \in run.todo /\ run.body \in Contents

TypeInv == TypeOK /\ Placed

\* A row is written only under the reference this sync has found it by.
Owned ==
    run.at \in {"put", "upsert"} => row[run.file].kind = "synced"

OwnedInv == TypeInv /\ Owned

-----------------------------------------------------------------------------
(* Types.                                                                  *)

\* The sync's next state after a file, and what is kept of it.
LEMMA NextFileType ==
    ASSUME TypeOK, NEW f \in Files
    PROVE  /\ NextFile(f) \in Run
           /\ NextFile(f).at \in {"prune", "file"}
           /\ NextFile(f).todo = run.todo \ {f}
           /\ NextFile(f).scanned = run.scanned
           /\ NextFile(f).keep = run.keep
           /\ NextFile(f).hit = run.hit
           /\ NextFile(f).rev = run.rev
           /\ NextFile(f).at = "prune" => run.todo \ {f} = {}
<1>1. After(f) \in {"prune", "file"}
    BY DEF After
<1>2. run \in Run
    BY DEF TypeOK
<1>3. NoFile \in Files \cup {NoFile} /\ NoContent \in Bodies
    BY DEF Bodies
<1>4. NextFile(f) \in Run
    BY <1>1, <1>2, <1>3 DEF NextFile, Run, Stage
<1> QED
    BY <1>1, <1>2, <1>4 DEF NextFile, Run, After

\* A file recorded as an error is done with, and never kept.
LEMMA FileErrorType ==
    ASSUME TypeOK, NEW f \in Files, NEW t \in BOOLEAN, FileError(f, t)
    PROVE  /\ run' \in Run
           /\ run'.at \in {"prune", "file"}
           /\ run'.todo = run.todo \ {f}
           /\ run'.scanned = run.scanned
           /\ run'.keep = run.keep
           /\ run'.rev = run.rev
           /\ run'.hit = IF t THEN run.hit \cup {f} ELSE run.hit
           /\ run'.at = "prune" => run.todo \ {f} = {}
<1> DEFINE n == NextFile(f)
<1>1. /\ n \in Run
      /\ n.at \in {"prune", "file"}
      /\ n.todo = run.todo \ {f}
      /\ n.scanned = run.scanned
      /\ n.keep = run.keep
      /\ n.hit = run.hit
      /\ n.rev = run.rev
      /\ n.at = "prune" => run.todo \ {f} = {}
    BY NextFileType
<1>2. run' = [n EXCEPT !.err = @ \cup {f}, !.hit = IF t THEN @ \cup {f} ELSE @]
    BY DEF FileError
<1> HIDE DEF n
<1> QED
    BY <1>1, <1>2 DEF Run

\* A kept file is done with.
LEMMA KeepType ==
    ASSUME TypeOK, NEW f \in Files, NEW r, r = Keep(NextFile(f), f)
    PROVE  /\ r \in Run
           /\ r.at \in {"prune", "file"}
           /\ r.todo = run.todo \ {f}
           /\ r.scanned = run.scanned
           /\ r.keep = run.keep \cup {f}
           /\ r.hit = run.hit
           /\ r.rev = run.rev
           /\ r.at = "prune" => run.todo \ {f} = {}
<1> DEFINE n == NextFile(f)
<1>1. /\ n \in Run
      /\ n.at \in {"prune", "file"}
      /\ n.todo = run.todo \ {f}
      /\ n.scanned = run.scanned
      /\ n.keep = run.keep
      /\ n.hit = run.hit
      /\ n.rev = run.rev
      /\ n.at = "prune" => run.todo \ {f} = {}
    BY NextFileType
<1>2. r = [n EXCEPT !.keep = @ \cup {f}]
    BY DEF Keep
<1> HIDE DEF n
<1> QED
    BY <1>1, <1>2 DEF Run

\* No row, no sync, no index run.
LEMMA NothingType ==
    /\ NoRow \in Row
    /\ NoRun \in Run
    /\ NoIdx \in [file: Files \cup {NoFile}, body: Bodies]
    /\ NoContent \in Bodies
BY DEF NoRow, Row, NoRun, Run, NoIdx, Bodies, Stage

\* A failed attempt keeps jobs and retries in their ranges.
LEMMA AttemptType ==
    ASSUME TypeOK, NEW j, AttemptFailed(j)
    PROVE  /\ job' \in [Jobs -> {"none", "sending", "queued", "active"}]
           /\ left' \in [Jobs -> 0 .. RetryLimit]
<1>1. job' \in [Jobs -> {"none", "sending", "queued", "active"}]
    BY DEF AttemptFailed, TypeOK
<1>2. \A k \in 0 .. RetryLimit : (IF k > 0 THEN k - 1 ELSE 0) \in 0 .. RetryLimit
    BY SyncAssumption
<1>3. left' \in [Jobs -> 0 .. RetryLimit]
    BY <1>2 DEF AttemptFailed, TypeOK
<1> QED
    BY <1>1, <1>3

\* Removing rows.
LEMMA RemoveType ==
    ASSUME TypeOK, NEW gone, Remove(gone)
    PROVE  /\ row' \in [Files -> Row]
           /\ owed' \subseteq Files
           /\ idx' \in [file: Files \cup {NoFile}, body: Bodies]
           /\ \A f \in Files : row'[f] = IF f \in gone THEN NoRow ELSE row[f]
BY NothingType DEF Remove, TypeOK

\* One more edit, or one more failing call.
LEMMA EditType ==
    ASSUME TypeOK, Edit
    PROVE  /\ edits' \in 0 .. MaxEdits
           /\ faults' = faults /\ crashes' = crashes
BY SyncAssumption DEF Edit, TypeOK

\* A failing call is counted within its bound.
LEMMA FaultType ==
    ASSUME TypeOK, Fault
    PROVE  /\ faults' \in 0 .. MaxMishaps
           /\ edits' = edits /\ crashes' = crashes
BY SyncAssumption DEF Fault, TypeOK

\* One row replaced.
LEMMA RowUpdate ==
    ASSUME TypeOK, NEW f \in Files, NEW r \in Row, row' = [row EXCEPT ![f] = r]
    PROVE  /\ row' \in [Files -> Row]
           /\ row'[f] = r
           /\ \A g \in Files : g # f => row'[g] = row[g]
BY DEF TypeOK

\* The rows the sync and the index worker write are rows.
LEMMA RowTypes ==
    ASSUME NEW r \in Row, NEW b \in Bodies, NEW k \in Nat
    PROVE  /\ [NoRow EXCEPT !.kind = "synced", !.rev = k, !.hash = b] \in Row
           /\ [r EXCEPT !.body = b] \in Row
           /\ [r EXCEPT !.hash = b, !.stored = TRUE, !.state = "pending"] \in Row
           /\ [r EXCEPT !.chunks = b, !.state = "indexed"] \in Row
           /\ [r EXCEPT !.kind = "managed", !.hash = b, !.stored = TRUE,
                        !.body = b, !.state = "pending"] \in Row
BY DEF Row, NoRow, Bodies

-----------------------------------------------------------------------------
(* Type correctness.                                                       *)

\* The initial states are typed.
LEMMA TypeInit == Init => TypeInv
<1> SUFFICES ASSUME Init PROVE TypeInv
    OBVIOUS
<1>1. row \in [Files -> Row]
    BY NothingType DEF Init
<1>2. left \in [Jobs -> 0 .. RetryLimit]
    BY SyncAssumption DEF Init
<1>3. TypeOK
    BY <1>1, <1>2, NothingType, SyncAssumption DEF Init, TypeOK
<1>4. Placed
    BY DEF Init, Placed, OnFile, NoRun
<1> QED
    BY <1>3, <1>4 DEF TypeInv

\* Steps that leave the sync run and the rows alone.
LEMMA QueueStep ==
    ASSUME TypeInv, NEW j \in Jobs,
           Call(j) \/ Tick(j) \/ Send(j) \/ SendFails(j) \/ Expire(j)
    PROVE  TypeInv' /\ run' = run /\ row' = row
<1> DEFINE States == {"none", "sending", "queued", "active"}
<1>1. TypeOK /\ Placed
    BY DEF TypeInv
<1>2. RetryLimit \in 0 .. RetryLimit
    BY SyncAssumption
<1>3. run' = run /\ row' = row
    BY DEF Call, Tick, Send, SendFails, Expire
<1>4. Placed'
    BY <1>1, <1>3 DEF Placed
<1>5. job' \in [Jobs -> States] /\ left' \in [Jobs -> 0 .. RetryLimit]
    <2>1. CASE Call(j) \/ Tick(j)
        BY <1>1, <1>2, <2>1 DEF Call, Tick, TypeOK
    <2>2. CASE Send(j) \/ SendFails(j)
        BY <1>1, <2>2 DEF Send, SendFails, TypeOK
    <2>3. CASE Expire(j)
        BY <1>1, <2>3, AttemptType DEF Expire
    <2> QED
        BY <2>1, <2>2, <2>3
<1>6. /\ edits' \in 0 .. MaxEdits
      /\ faults' \in 0 .. MaxMishaps
      /\ crashes' \in 0 .. MaxMishaps
    <2>1. CASE SendFails(j)
        BY <1>1, <2>1, FaultType DEF SendFails, TypeOK
    <2>2. CASE ~SendFails(j)
        BY <1>1, <2>2 DEF Call, Tick, Send, Expire, bounds, TypeOK
    <2> QED
        BY <2>1, <2>2
<1>7. syncStatus' \in {"idle", "running", "success", "failed"}
    BY <1>1 DEF Call, Tick, Send, SendFails, Expire, TypeOK
<1>8. UNCHANGED <<setup, source, tip, owed, idx, held>>
    BY DEF Call, Tick, Send, SendFails, Expire
<1>9. TypeOK'
    BY <1>1, <1>3, <1>5, <1>6, <1>7, <1>8 DEF TypeOK
<1> QED
    BY <1>3, <1>4, <1>9 DEF TypeInv

\* The run begins, or is over.
LEMMA BeginStep ==
    ASSUME TypeInv, NEW j \in Jobs, Fetch(j)
    PROVE  TypeInv' /\ run'.at \in {"checkout", "scan"}
<1>1. TypeOK
    BY DEF TypeInv
<1>2. run' \in Run /\ run'.at \in {"checkout", "scan"}
    BY NothingType DEF Fetch, NoRun, Run, Stage
<1>3. job' \in [Jobs -> {"none", "sending", "queued", "active"}]
    BY <1>1 DEF Fetch, TypeOK
<1>4. TypeOK'
    BY <1>1, <1>2, <1>3 DEF Fetch, TypeOK, bounds
<1> QED
    BY <1>2, <1>4 DEF TypeInv, Placed, OnFile

\* A run that ends, fails or dies changes no row.
LEMMA EndStep ==
    ASSUME TypeInv, Finish \/ RunFails \/ Crash
    PROVE  TypeInv' /\ run' = NoRun /\ row' = row
<1>1. TypeOK
    BY DEF TypeInv
<1>2. run' = NoRun /\ row' = row
    BY DEF Finish, RunFails, Crash
<1>3. /\ job' \in [Jobs -> {"none", "sending", "queued", "active"}]
      /\ left' \in [Jobs -> 0 .. RetryLimit]
    <2>1. CASE Finish \/ Crash
        BY <1>1, <2>1 DEF Finish, Crash, TypeOK
    <2>2. CASE RunFails
        BY <1>1, <2>2, AttemptType DEF RunFails
    <2> QED
        BY <2>1, <2>2
<1>4. /\ edits' \in 0 .. MaxEdits
      /\ faults' \in 0 .. MaxMishaps
      /\ crashes' \in 0 .. MaxMishaps
    <2>1. CASE Finish
        BY <1>1, <2>1 DEF Finish, bounds, TypeOK
    <2>2. CASE RunFails
        BY <1>1, <2>2, FaultType DEF RunFails, TypeOK
    <2>3. CASE Crash
        BY <1>1, <2>3, SyncAssumption DEF Crash, TypeOK
    <2> QED
        BY <2>1, <2>2, <2>3
<1>5. syncStatus' \in {"idle", "running", "success", "failed"}
    BY <1>1 DEF Finish, Verdict, RunFails, Crash, TypeOK
<1>6. owed' \subseteq Files /\ idx' \in [file: Files \cup {NoFile}, body: Bodies]
    BY <1>1, NothingType DEF Finish, RunFails, Crash, TypeOK
<1>7. held' = NoJob /\ UNCHANGED <<setup, source, tip>>
    BY DEF Finish, RunFails, Crash
<1>8. TypeOK'
    BY <1>1, <1>2, <1>3, <1>4, <1>5, <1>6, <1>7, NothingType DEF TypeOK
<1> QED
    BY <1>2, <1>8 DEF TypeInv, Placed, OnFile, NoRun

\* What every step of importScannedFiles leaves alone.
Outer == <<setup, source, tip, syncStatus, job, left, held, edits, faults, crashes>>

\* Typing where a step changes only the sync, the rows and the index queue.
LEMMA OuterType ==
    ASSUME TypeOK, UNCHANGED Outer, run' \in Run, row' \in [Files -> Row],
           owed' \subseteq Files, idx' \in [file: Files \cup {NoFile}, body: Bodies]
    PROVE  TypeOK'
BY DEF TypeOK, Outer

\* Where the current file is known, it is a file, with a content to write.
LEMMA CurrentFile ==
    ASSUME TypeInv, run.at \in OnFile
    PROVE  run.file \in Files /\ run.file \in run.todo /\ run.body \in Bodies
BY DEF TypeInv, TypeOK, Placed, Run, Bodies

\* What a file reads as.
LEMMA ContentType ==
    ASSUME TypeOK, NEW f \in Files
    PROVE  Content(f) \in Bodies
BY DEF Content, TypeOK, Run

\* Checking out and scanning.
LEMMA ScanStep ==
    ASSUME TypeInv, Checkout \/ Scan
    PROVE  /\ TypeInv'
           /\ row' = row
           /\ run'.at \in {"scan", "file", "prune"}
           /\ run'.at # "scan" => run'.todo = run'.scanned
           /\ run'.at = "scan" => run'.scanned = run.scanned /\ run'.todo = run.todo
           /\ run'.at = "scan" => run'.hit = run.hit /\ run'.keep = run.keep
           /\ run'.at = "prune" => run'.todo = {}
           /\ run'.rev = IF run.at = "checkout" THEN tip ELSE run.rev
<1>1. TypeOK /\ run \in Run
    BY DEF TypeInv, TypeOK
<1>2. CASE Checkout
    <2>1. run.at = "checkout" /\ run' = [run EXCEPT !.at = "scan", !.tree = source, !.rev = tip]
        BY <1>2 DEF Checkout
    <2>2. source \in [Files -> Bodies] /\ tip \in Nat
        BY <1>1 DEF TypeOK
    <2>3. run' \in Run
        BY <1>1, <2>1, <2>2 DEF Run, Stage
    <2>4. TypeOK'
        BY <1>1, <1>2, <2>3, OuterType DEF Checkout, Outer, jobVars, bounds, TypeOK
    <2>5. Placed'
        BY <1>1, <2>1 DEF Placed, OnFile, Run
    <2> QED
        BY <1>1, <1>2, <2>1, <2>4, <2>5 DEF TypeInv, Checkout, Run
<1>3. CASE Scan
    <2> DEFINE found == {f \in Files : Content(f) # NoContent}
    <2> DEFINE to == IF found = {} THEN "prune" ELSE "file"
    <2>1. run.at = "scan" /\ run' = [run EXCEPT !.scanned = found, !.todo = found, !.at = to]
        BY <1>3 DEF Scan
    <2>2. to \in {"file", "prune"} /\ found \subseteq Files
        OBVIOUS
    <2>3. to = "prune" => found = {}
        OBVIOUS
    <2> HIDE DEF found, to
    <2>4. run' \in Run
        BY <1>1, <2>1, <2>2 DEF Run, Stage
    <2>5. /\ run'.at = to
          /\ run'.todo = found
          /\ run'.scanned = found
          /\ run'.rev = run.rev
        BY <1>1, <2>1 DEF Run
    <2>6. TypeOK'
        BY <1>1, <1>3, <2>4, OuterType DEF Scan, Outer, jobVars, bounds, TypeOK
    <2>7. Placed'
        BY <2>2, <2>5 DEF Placed, OnFile
    <2> QED
        BY <1>3, <2>1, <2>2, <2>3, <2>5, <2>6, <2>7 DEF TypeInv, Scan
<1> QED
    BY <1>2, <1>3

\* Ending with a file: an error, or a file kept.
LEMMA FileStep ==
    ASSUME TypeInv,
           run' \in Run, run'.at \in {"prune", "file"}, row' \in [Files -> Row],
           UNCHANGED <<Outer, owed, idx>>
    PROVE  TypeInv'
<1>1. TypeOK'
    BY OuterType DEF TypeInv, TypeOK, Outer
<1>2. Placed'
    BY DEF Placed, OnFile
<1> QED
    BY <1>1, <1>2 DEF TypeInv

\* Reading a file ends with it, by an error or by keeping it, or makes it the
\* current file.
LEMMA ReadStep ==
    ASSUME TypeInv, NEW f \in Files, Read(f)
    PROVE  /\ TypeInv'
           /\ row' = row
           /\ run'.rev = run.rev
           /\ run'.scanned = run.scanned
           /\ run.at = "file" /\ run.todo \subseteq Files
           /\ \/ /\ run'.at \in {"prune", "file"}
                 /\ run'.todo = run.todo \ {f}
                 /\ run'.at = "prune" => run.todo \ {f} = {}
                 /\ \/ run'.hit = run.hit \cup {f} /\ run'.keep = run.keep
                    \/ run'.hit = run.hit /\ run'.keep = run.keep \cup {f}
              \/ /\ run'.at = IF HasRef(f) THEN "put" ELSE "insert"
                 /\ run'.file = f
                 /\ run'.todo = run.todo
                 /\ run'.hit = run.hit
                 /\ run'.keep = run.keep
<1>1. /\ TypeOK
      /\ run \in Run
      /\ run.at = "file" /\ f \in run.todo
      /\ run.todo \subseteq Files
    BY DEF TypeInv, TypeOK, Read, Run
<1>2. UNCHANGED <<Outer, owed, idx, row>>
    BY DEF Read, Outer, jobVars, bounds
<1>3. row' \in [Files -> Row]
    BY <1>1, <1>2 DEF TypeOK
<1>4. CASE Content(f) = NoContent
    <2>1. FileError(f, TRUE)
        BY <1>4 DEF Read
    <2>2. /\ run' \in Run
          /\ run'.at \in {"prune", "file"}
          /\ run'.todo = run.todo \ {f}
          /\ run'.scanned = run.scanned
          /\ run'.keep = run.keep
          /\ run'.rev = run.rev
          /\ run'.hit = run.hit \cup {f}
          /\ run'.at = "prune" => run.todo \ {f} = {}
        BY <1>1, <2>1, FileErrorType
    <2>3. TypeInv'
        BY <1>2, <1>3, <2>2, FileStep
    <2> QED
        BY <1>1, <1>2, <2>2, <2>3
<1>5. CASE Content(f) # NoContent /\ Unchanged(f)
    <2>1. run' = Keep(NextFile(f), f)
        BY <1>5 DEF Read
    <2>2. /\ run' \in Run
          /\ run'.at \in {"prune", "file"}
          /\ run'.todo = run.todo \ {f}
          /\ run'.scanned = run.scanned
          /\ run'.keep = run.keep \cup {f}
          /\ run'.hit = run.hit
          /\ run'.rev = run.rev
          /\ run'.at = "prune" => run.todo \ {f} = {}
        BY <1>1, <2>1, KeepType
    <2>3. TypeInv'
        BY <1>2, <1>3, <2>2, FileStep
    <2> QED
        BY <1>1, <1>2, <2>2, <2>3
<1>6. CASE Content(f) # NoContent /\ ~Unchanged(f)
    <2> DEFINE to == IF HasRef(f) THEN "put" ELSE "insert"
    <2> DEFINE c == Content(f)
    <2>1. run' = [run EXCEPT !.at = to, !.file = f, !.body = c]
        BY <1>6 DEF Read
    <2>2. to \in {"put", "insert"}
        OBVIOUS
    <2>3. c \in Contents /\ c \in Bodies
        BY <1>1, <1>6, ContentType DEF Bodies
    <2> HIDE DEF to, c
    <2>4. run' \in Run
        BY <1>1, <2>1, <2>2, <2>3 DEF Run, Stage
    <2>5. /\ run'.at = to
          /\ run'.file = f
          /\ run'.body = c
          /\ run'.todo = run.todo
          /\ run'.scanned = run.scanned
          /\ run'.hit = run.hit
          /\ run'.keep = run.keep
          /\ run'.rev = run.rev
        BY <1>1, <2>1 DEF Run
    <2>6. TypeOK'
        BY <1>1, <1>2, <1>3, <2>4, OuterType DEF TypeOK, Outer
    <2>7. Placed'
        BY <1>1, <2>3, <2>5 DEF Placed
    <2> QED
        BY <1>1, <1>2, <2>5, <2>6, <2>7 DEF TypeInv, to
<1> QED
    BY <1>4, <1>5, <1>6

\* The placeholder is inserted, or the unique index refuses it.
LEMMA InsertStep ==
    ASSUME TypeInv, Insert
    PROVE  /\ TypeInv'
           /\ run'.rev = run.rev
           /\ run'.scanned = run.scanned
           /\ run'.hit = run.hit
           /\ run'.keep = run.keep
           /\ run.at = "insert" /\ run.file \in Files /\ run.file \in run.todo
           /\ \/ /\ row[run.file].kind # "none"
                 /\ row' = row
                 /\ run'.at \in {"prune", "file"}
                 /\ run'.todo = run.todo \ {run.file}
                 /\ run'.at = "prune" => run.todo \ {run.file} = {}
              \/ /\ row[run.file].kind = "none"
                 /\ row'[run.file].kind = "synced" /\ row'[run.file].rev = run.rev
                 /\ \A g \in Files : g # run.file => row'[g] = row[g]
                 /\ run'.at = "put"
                 /\ run'.file = run.file
                 /\ run'.todo = run.todo
<1> DEFINE f == run.file
<1>1. /\ TypeOK
      /\ run \in Run
      /\ run.at = "insert"
      /\ f \in Files /\ f \in run.todo /\ run.body \in Bodies
      /\ Placed
    BY CurrentFile DEF TypeInv, TypeOK, Insert, OnFile
<1>2. UNCHANGED <<Outer, owed, idx>>
    BY DEF Insert, Outer, jobVars, bounds
<1>3. CASE row[f].kind # "none"
    <2>1. FileError(f, FALSE) /\ row' = row
        BY <1>3 DEF Insert
    <2>2. /\ run' \in Run
          /\ run'.at \in {"prune", "file"}
          /\ run'.todo = run.todo \ {f}
          /\ run'.scanned = run.scanned
          /\ run'.keep = run.keep
          /\ run'.rev = run.rev
          /\ run'.hit = run.hit
          /\ run'.at = "prune" => run.todo \ {f} = {}
        BY <1>1, <2>1, FileErrorType
    <2>3. row' \in [Files -> Row]
        BY <1>1, <2>1 DEF TypeOK
    <2>4. TypeInv'
        BY <1>1, <1>2, <2>2, <2>3, FileStep
    <2> QED
        BY <1>1, <1>3, <2>1, <2>2, <2>4
<1>4. CASE row[f].kind = "none"
    <2> DEFINE r == [NoRow EXCEPT !.kind = "synced", !.rev = run.rev, !.hash = run.body]
    <2>1. row' = [row EXCEPT ![f] = r] /\ run' = [run EXCEPT !.at = "put"]
        BY <1>4 DEF Insert
    <2>2. run.rev \in Nat
        BY <1>1 DEF Run
    <2>3. r \in Row
        BY <1>1, <2>2, NothingType, RowTypes
    <2>4. r.kind = "synced" /\ r.rev = run.rev
        BY DEF NoRow
    <2> HIDE DEF r
    <2>5. /\ row' \in [Files -> Row]
          /\ row'[f] = r
          /\ \A g \in Files : g # f => row'[g] = row[g]
        BY <1>1, <2>1, <2>3, RowUpdate
    <2>6. /\ run' \in Run
          /\ run'.at = "put"
          /\ run'.file = f
          /\ run'.body = run.body
          /\ run'.todo = run.todo
          /\ run'.scanned = run.scanned
          /\ run'.hit = run.hit
          /\ run'.keep = run.keep
          /\ run'.rev = run.rev
        BY <1>1, <2>1 DEF Run, Stage
    <2>7. TypeOK'
        BY <1>1, <1>2, <2>5, <2>6, OuterType DEF TypeOK, Outer
    <2>8. Placed'
        BY <1>1, <2>6 DEF Placed, OnFile
    <2> QED
        BY <1>1, <1>4, <2>4, <2>5, <2>6, <2>7, <2>8 DEF TypeInv
<1> QED
    BY <1>3, <1>4

\* The blob is written, then the row brought up to date.
LEMMA StoreStep ==
    ASSUME TypeInv, Put \/ Upsert
    PROVE  /\ TypeInv'
           /\ run'.rev = run.rev
           /\ run'.scanned = run.scanned
           /\ run'.hit = run.hit
           /\ run.at \in {"put", "upsert"} /\ run.file \in Files
           /\ run.todo \subseteq Files
           /\ \A g \in Files : g # run.file => row'[g] = row[g]
           /\ \A g \in Files : row'[g].kind = row[g].kind /\ row'[g].rev = row[g].rev
           /\ \/ /\ run'.at = "upsert"
                 /\ run'.file = run.file
                 /\ run'.todo = run.todo
                 /\ run'.keep = run.keep
              \/ /\ run'.at \in {"prune", "file"}
                 /\ run'.todo = run.todo \ {run.file}
                 /\ run'.keep = run.keep \cup {run.file}
                 /\ run'.at = "prune" => run.todo \ {run.file} = {}
<1> DEFINE f == run.file
<1>1. /\ TypeOK
      /\ run \in Run
      /\ run.at \in {"put", "upsert"}
      /\ f \in Files /\ f \in run.todo /\ run.body \in Bodies
      /\ Placed
    BY CurrentFile DEF TypeInv, TypeOK, Put, Upsert, OnFile
<1>2. UNCHANGED <<Outer, owed, idx>>
    BY DEF Put, Upsert, Outer, jobVars, bounds
<1>3. row[f] \in Row /\ run.todo \subseteq Files
    BY <1>1 DEF TypeOK, Run
<1>4. CASE Put
    <2> DEFINE r == [row[f] EXCEPT !.body = run.body]
    <2>1. row' = [row EXCEPT ![f] = r] /\ run' = [run EXCEPT !.at = "upsert"]
        BY <1>4 DEF Put
    <2>2. r \in Row
        BY <1>1, <1>3, RowTypes, SyncAssumption
    <2>3. r.kind = row[f].kind /\ r.rev = row[f].rev
        BY <1>3 DEF Row
    <2> HIDE DEF r
    <2>4. /\ row' \in [Files -> Row]
          /\ row'[f] = r
          /\ \A g \in Files : g # f => row'[g] = row[g]
        BY <1>1, <2>1, <2>2, RowUpdate
    <2>5. /\ run' \in Run
          /\ run'.at = "upsert"
          /\ run'.file = f
          /\ run'.body = run.body
          /\ run'.todo = run.todo
          /\ run'.scanned = run.scanned
          /\ run'.hit = run.hit
          /\ run'.keep = run.keep
          /\ run'.rev = run.rev
        BY <1>1, <2>1 DEF Run, Stage
    <2>6. TypeOK'
        BY <1>1, <1>2, <2>4, <2>5, OuterType DEF TypeOK, Outer
    <2>7. Placed'
        BY <1>1, <2>5 DEF Placed, OnFile
    <2> QED
        BY <1>1, <1>3, <2>3, <2>4, <2>5, <2>6, <2>7 DEF TypeInv
<1>5. CASE Upsert
    <2> DEFINE r == [row[f] EXCEPT !.hash = run.body, !.stored = TRUE, !.state = "pending"]
    <2> DEFINE k == Keep(NextFile(f), f)
    <2>1. row' = [row EXCEPT ![f] = r] /\ run' = [k EXCEPT !.index = @ \cup {f}]
        BY <1>5 DEF Upsert
    <2>2. r \in Row
        BY <1>1, <1>3, RowTypes, SyncAssumption
    <2>3. r.kind = row[f].kind /\ r.rev = row[f].rev
        BY <1>3 DEF Row
    <2>4. /\ k \in Run
          /\ k.at \in {"prune", "file"}
          /\ k.todo = run.todo \ {f}
          /\ k.scanned = run.scanned
          /\ k.keep = run.keep \cup {f}
          /\ k.hit = run.hit
          /\ k.rev = run.rev
          /\ k.at = "prune" => run.todo \ {f} = {}
        BY <1>1, KeepType
    <2> HIDE DEF r, k
    <2>5. /\ row' \in [Files -> Row]
          /\ row'[f] = r
          /\ \A g \in Files : g # f => row'[g] = row[g]
        BY <1>1, <2>1, <2>2, RowUpdate
    <2>6. /\ run' \in Run
          /\ run'.at = k.at
          /\ run'.todo = k.todo
          /\ run'.scanned = k.scanned
          /\ run'.hit = k.hit
          /\ run'.keep = k.keep
          /\ run'.rev = k.rev
        BY <1>1, <2>1, <2>4 DEF Run
    <2>7. TypeInv'
        BY <1>2, <2>4, <2>5, <2>6, FileStep
    <2> QED
        BY <1>1, <1>3, <2>3, <2>4, <2>5, <2>6, <2>7
<1> QED
    BY <1>4, <1>5

\* A call for a file fails.
LEMMA FailStep ==
    ASSUME TypeInv, NEW f \in Files, FileFails(f)
    PROVE  /\ TypeInv'
           /\ row' = row
           /\ run'.at \in {"prune", "file"}
           /\ run'.todo = run.todo \ {f}
           /\ run'.scanned = run.scanned
           /\ run'.keep = run.keep
           /\ run'.rev = run.rev
           /\ run'.hit = run.hit \cup {f}
           /\ run'.at = "prune" => run.todo \ {f} = {}
<1>1. TypeOK
    BY DEF TypeInv
<1>2. FileError(f, TRUE) /\ Fault
    BY DEF FileFails
<1>3. /\ run' \in Run
      /\ run'.at \in {"prune", "file"}
      /\ run'.todo = run.todo \ {f}
      /\ run'.scanned = run.scanned
      /\ run'.keep = run.keep
      /\ run'.rev = run.rev
      /\ run'.hit = run.hit \cup {f}
      /\ run'.at = "prune" => run.todo \ {f} = {}
    BY <1>1, <1>2, FileErrorType
<1>4. /\ faults' \in 0 .. MaxMishaps
      /\ edits' = edits /\ crashes' = crashes
    BY <1>1, <1>2, FaultType
<1>5. UNCHANGED <<setup, source, tip, row, owed, idx, syncStatus, job, left, held>>
    BY DEF FileFails, jobVars
<1>6. TypeOK'
    BY <1>1, <1>3, <1>4, <1>5 DEF TypeOK
<1>7. Placed'
    BY <1>3 DEF Placed, OnFile
<1> QED
    BY <1>3, <1>5, <1>6, <1>7 DEF TypeInv

\* Pruning and purging.
LEMMA PruneStep ==
    ASSUME TypeInv, Prune \/ Purge
    PROVE  /\ TypeInv'
           /\ run'.at \in {"purge", "enqueue"}
           /\ run'.scanned = run.scanned
           /\ run'.todo = run.todo
           /\ run'.hit = run.hit
           /\ run'.keep = run.keep
           /\ run'.rev = run.rev
           /\ \A f \in Files :
                 \/ row'[f] = row[f]
                 \/ /\ Prune /\ row'[f] = NoRow
                    /\ row[f].kind = "synced" /\ ~(HasRef(f) /\ f \in run.keep)
                 \/ /\ Purge /\ row'[f] = NoRow
                    /\ row[f].kind = "managed" /\ f \notin run.scanned
<1>1. TypeOK /\ run \in Run
    BY DEF TypeInv, TypeOK
<1>2. UNCHANGED Outer
    BY DEF Prune, Purge, Outer, jobVars, bounds
<1>3. PICK to \in {"purge", "enqueue"} : run' = [run EXCEPT !.at = to]
    <2>1. CASE Prune
        <3> DEFINE to == IF setup = "mount_authoritative" THEN "purge" ELSE "enqueue"
        <3>1. run' = [run EXCEPT !.at = to]
            BY <2>1 DEF Prune
        <3> QED
            BY <3>1
    <2>2. CASE Purge
        BY <2>2 DEF Purge
    <2> QED
        BY <2>1, <2>2
<1>4. /\ run' \in Run
      /\ run'.at = to
      /\ run'.scanned = run.scanned
      /\ run'.todo = run.todo
      /\ run'.hit = run.hit
      /\ run'.keep = run.keep
      /\ run'.rev = run.rev
    BY <1>1, <1>3 DEF Run, Stage
<1>5. /\ row' \in [Files -> Row]
      /\ owed' \subseteq Files
      /\ idx' \in [file: Files \cup {NoFile}, body: Bodies]
    BY <1>1, RemoveType DEF Prune, Purge
<1>6. ASSUME NEW f \in Files
      PROVE  \/ row'[f] = row[f]
             \/ /\ Prune /\ row'[f] = NoRow
                /\ row[f].kind = "synced" /\ ~(HasRef(f) /\ f \in run.keep)
             \/ /\ Purge /\ row'[f] = NoRow
                /\ row[f].kind = "managed" /\ f \notin run.scanned
    BY <1>1, RemoveType DEF Prune, Purge
<1>7. TypeOK'
    BY <1>1, <1>2, <1>4, <1>5, OuterType
<1>8. Placed'
    BY <1>4 DEF Placed, OnFile
<1> QED
    BY <1>4, <1>6, <1>7, <1>8 DEF TypeInv

\* Enqueueing index jobs.
LEMMA EnqueueStep ==
    ASSUME TypeInv, NEW f \in Files, EnqueueIndex(f)
    PROVE  /\ TypeInv'
           /\ row' = row
           /\ run'.at = "enqueue"
           /\ run'.scanned = run.scanned
           /\ run'.todo = run.todo
           /\ run'.hit = run.hit
           /\ run'.keep = run.keep
           /\ run'.rev = run.rev
<1>1. TypeOK /\ run \in Run
    BY DEF TypeInv, TypeOK
<1>2. run.at = "enqueue" /\ run' = [run EXCEPT !.index = @ \ {f}]
    BY DEF EnqueueIndex
<1>3. /\ run' \in Run
      /\ run'.at = "enqueue"
      /\ run'.scanned = run.scanned
      /\ run'.todo = run.todo
      /\ run'.hit = run.hit
      /\ run'.keep = run.keep
      /\ run'.rev = run.rev
    BY <1>1, <1>2 DEF Run
<1>4. UNCHANGED <<Outer, row, idx>> /\ owed' \subseteq Files
    BY <1>1 DEF EnqueueIndex, Outer, jobVars, bounds, TypeOK
<1>5. TypeOK'
    BY <1>1, <1>3, <1>4, OuterType DEF TypeOK
<1>6. Placed'
    BY <1>3 DEF Placed, OnFile
<1> QED
    BY <1>3, <1>4, <1>5, <1>6 DEF TypeInv

\* The index worker.
LEMMA IndexStep ==
    ASSUME TypeInv, IndexCommit \/ \E f \in Files : IndexRead(f)
    PROVE  /\ TypeInv'
           /\ run' = run
           /\ \A g \in Files : row'[g].kind = row[g].kind /\ row'[g].rev = row[g].rev
<1>1. TypeOK /\ run \in Run /\ Placed
    BY DEF TypeInv, TypeOK
<1>2. run' = run /\ UNCHANGED Outer
    BY DEF IndexCommit, IndexRead, Outer, jobVars, bounds
<1>3. /\ row' \in [Files -> Row]
      /\ owed' \subseteq Files
      /\ idx' \in [file: Files \cup {NoFile}, body: Bodies]
      /\ \A g \in Files : row'[g].kind = row[g].kind /\ row'[g].rev = row[g].rev
    <2>1. CASE IndexCommit
        <3> DEFINE r == [row[idx.file] EXCEPT !.chunks = idx.body, !.state = "indexed"]
        <3>1. row' = [row EXCEPT ![idx.file] = r]
            BY <2>1 DEF IndexCommit
        <3>2. idx' = NoIdx /\ owed' = owed
            BY <2>1 DEF IndexCommit
        <3>3. CASE idx.file \in Files
            <4>1. row[idx.file] \in Row /\ idx.body \in Bodies
                BY <1>1, <3>3 DEF TypeOK
            <4>2. r \in Row
                BY <4>1, RowTypes, SyncAssumption
            <4>3. r.kind = row[idx.file].kind /\ r.rev = row[idx.file].rev
                BY <4>1 DEF Row
            <4> HIDE DEF r
            <4>4. /\ row' \in [Files -> Row]
                  /\ row'[idx.file] = r
                  /\ \A g \in Files : g # idx.file => row'[g] = row[g]
                BY <1>1, <3>1, <3>3, <4>2, RowUpdate
            <4> QED
                BY <1>1, <3>2, <4>3, <4>4, NothingType DEF TypeOK
        <3>4. CASE idx.file \notin Files
            <4> HIDE DEF r
            <4>1. row' = row
                BY <1>1, <3>1, <3>4 DEF TypeOK
            <4> QED
                BY <1>1, <3>2, <4>1, NothingType DEF TypeOK
        <3> QED
            BY <3>3, <3>4
    <2>2. CASE \E f \in Files : IndexRead(f)
        <3>1. PICK f \in Files : IndexRead(f)
            BY <2>2
        <3>2. row' = row /\ owed' \subseteq Files
            BY <1>1, <3>1 DEF IndexRead, TypeOK
        <3>3. row[f].body \in Bodies
            BY <1>1 DEF TypeOK, Row
        <3>4. idx' \in [file: Files \cup {NoFile}, body: Bodies]
            BY <3>1, <3>3, NothingType DEF IndexRead
        <3> QED
            BY <1>1, <3>2, <3>4 DEF TypeOK
    <2> QED
        BY <2>1, <2>2
<1>4. run' \in Run
    BY <1>1, <1>2
<1>5. TypeOK'
    BY <1>1, <1>2, <1>3, <1>4, OuterType
<1>6. Placed'
    BY <1>1, <1>2 DEF Placed
<1> QED
    BY <1>2, <1>3, <1>5, <1>6 DEF TypeInv

\* Clients and the outside world.
LEMMA OutsideStep ==
    ASSUME TypeInv, Outside
    PROVE  /\ TypeInv'
           /\ run' = run
           /\ setup = "git" => tip' \in {tip, tip + 1} /\ tip' \in 0 .. MaxCommits
           /\ setup # "git" => tip' = tip
           /\ \A g \in Files :
                 \/ row'[g] = row[g]
                 \/ /\ row[g].kind # "synced" /\ row'[g].kind # "synced"
                    /\ row'[g].rev \in {row[g].rev, 0}
<1>1. TypeOK /\ run \in Run /\ Placed
    BY DEF TypeInv, TypeOK
<1>2. /\ run' = run /\ UNCHANGED <<setup, syncStatus, job, left, held>>
      /\ Edit \/ UNCHANGED bounds
    BY DEF Outside, WriteManaged, Change, DeleteManaged, jobVars
<1>3. /\ edits' \in 0 .. MaxEdits
      /\ faults' = faults /\ crashes' = crashes
    BY <1>1, <1>2, EditType DEF bounds, TypeOK
<1>4. source' \in [Files -> Bodies]
    <2>1. Contents \subseteq Bodies /\ NoContent \in Bodies
        BY DEF Bodies
    <2> QED
        BY <1>1, <2>1 DEF Outside, WriteManaged, Change, DeleteManaged, Mirrored, TypeOK
<1>5. /\ tip' \in 0 .. MaxCommits
      /\ setup = "git" => tip' \in {tip, tip + 1}
      /\ setup # "git" => tip' = tip
    <2>1. tip \in 0 .. MaxCommits /\ MaxCommits \in Nat
        BY <1>1, SyncAssumption DEF TypeOK
    <2>2. CASE tip' = tip
        BY <2>1, <2>2
    <2>3. CASE \E f \in Files, c \in Bodies : Change(f, c)
        <3>1. \/ tip' = tip
              \/ setup = "git" /\ tip < MaxCommits /\ tip' = tip + 1
            BY <2>3 DEF Change
        <3> QED
            BY <2>1, <3>1
    <2> QED
        BY <2>2, <2>3 DEF Outside, WriteManaged, DeleteManaged
<1>6. /\ row' \in [Files -> Row]
      /\ owed' \subseteq Files
      /\ idx' \in [file: Files \cup {NoFile}, body: Bodies]
      /\ \A g \in Files :
            \/ row'[g] = row[g]
            \/ /\ row[g].kind # "synced" /\ row'[g].kind # "synced"
               /\ row'[g].rev \in {row[g].rev, 0}
    <2>1. ASSUME NEW f \in Files, NEW c \in Contents, WriteManaged(f, c)
          PROVE  <1>6!1 /\ <1>6!2 /\ <1>6!3 /\ <1>6!4
        <3> DEFINE r == [row[f] EXCEPT !.kind = "managed", !.hash = c, !.stored = TRUE,
                                       !.body = c, !.state = "pending"]
        <3>1. row' = [row EXCEPT ![f] = r] /\ row[f].kind # "synced"
            BY <2>1 DEF WriteManaged
        <3>2. row[f] \in Row /\ c \in Bodies
            BY <1>1 DEF TypeOK, Bodies
        <3>3. r \in Row
            BY <3>2, RowTypes, SyncAssumption
        <3>4. r.kind = "managed" /\ r.rev = row[f].rev
            BY <3>2 DEF Row
        <3> HIDE DEF r
        <3>5. /\ row' \in [Files -> Row]
              /\ row'[f] = r
              /\ \A g \in Files : g # f => row'[g] = row[g]
            BY <1>1, <3>1, <3>3, RowUpdate
        <3>6. owed' \subseteq Files /\ idx' = idx
            BY <1>1, <2>1 DEF WriteManaged, TypeOK
        <3> QED
            BY <1>1, <3>1, <3>4, <3>5, <3>6 DEF TypeOK
    <2>2. ASSUME NEW f \in Files, DeleteManaged(f)
          PROVE  <1>6!1 /\ <1>6!2 /\ <1>6!3 /\ <1>6!4
        <3>1. Remove({f}) /\ row[f].kind = "managed"
            BY <2>2 DEF DeleteManaged
        <3>2. /\ row' \in [Files -> Row]
              /\ owed' \subseteq Files
              /\ idx' \in [file: Files \cup {NoFile}, body: Bodies]
              /\ \A g \in Files : row'[g] = IF g \in {f} THEN NoRow ELSE row[g]
            BY <1>1, <3>1, RemoveType
        <3>3. NoRow.kind = "none" /\ NoRow.rev = 0
            BY DEF NoRow
        <3> QED
            BY <3>1, <3>2, <3>3
    <2>3. ASSUME NEW f \in Files, NEW c \in Bodies, Change(f, c)
          PROVE  <1>6!1 /\ <1>6!2 /\ <1>6!3 /\ <1>6!4
        BY <1>1, <2>3 DEF Change, TypeOK
    <2> QED
        BY <2>1, <2>2, <2>3 DEF Outside
<1>7. TypeOK'
    BY <1>1, <1>2, <1>3, <1>4, <1>5, <1>6 DEF TypeOK
<1>8. Placed'
    BY <1>1, <1>2 DEF Placed
<1> QED
    BY <1>2, <1>5, <1>6, <1>7, <1>8 DEF TypeInv

\* Every step of the system keeps the types.
LEMMA TypeStep == TypeInv /\ [Next]_vars => TypeInv'
<1> SUFFICES ASSUME TypeInv, [Next]_vars PROVE TypeInv'
    OBVIOUS
<1>1. CASE \E j \in Jobs : Call(j) \/ Tick(j) \/ Send(j) \/ SendFails(j) \/ Expire(j)
    BY <1>1, QueueStep
<1>2. CASE \E j \in Jobs : Fetch(j)
    BY <1>2, BeginStep
<1>3. CASE Finish \/ RunFails \/ Crash
    BY <1>3, EndStep
<1>4. CASE Checkout \/ Scan
    BY <1>4, ScanStep
<1>5. CASE \E f \in Files : Read(f)
    BY <1>5, ReadStep
<1>6. CASE Insert
    BY <1>6, InsertStep
<1>7. CASE Put \/ Upsert
    BY <1>7, StoreStep
<1>8. CASE \E f \in Files : FileFails(f)
    BY <1>8, FailStep
<1>9. CASE Prune \/ Purge
    BY <1>9, PruneStep
<1>10. CASE \E f \in Files : EnqueueIndex(f)
    BY <1>10, EnqueueStep
<1>11. CASE IndexCommit \/ \E f \in Files : IndexRead(f)
    BY <1>11, IndexStep
<1>12. CASE Outside
    BY <1>12, OutsideStep
<1>13. CASE UNCHANGED vars
    BY <1>13 DEF TypeInv, TypeOK, Placed, vars, jobVars, bounds
<1> QED
    BY <1>1, <1>2, <1>3, <1>4, <1>5, <1>6, <1>7, <1>8, <1>9, <1>10, <1>11, <1>12,
       <1>13 DEF Next, Import, Failure

\* Every variable of the sync and of the corpus keeps its type (TypeOK).
THEOREM TypeCorrect == Spec => []TypeOK
<1>1. TypeInv => TypeOK
    BY DEF TypeInv
<1> QED
    BY <1>1, TypeInit, TypeStep, PTL DEF Spec

-----------------------------------------------------------------------------
(* A sync leaves managed documents alone.                                  *)

\* How the corpus is set up never changes.
LEMMA SetupFixed == [Next]_vars => setup' = setup
    BY DEF Next, Import, Failure, Outside, vars, jobVars, bounds, Call, Tick, Send,
           SendFails, Fetch, Expire, Checkout, Scan, Read, Insert, Put, Upsert,
           FileFails, Prune, Purge, EnqueueIndex, Finish, RunFails, IndexRead,
           IndexCommit, WriteManaged, DeleteManaged, Change, Crash

\* Managed rows are purged only when the corpus is an authoritative mount.
Purging == run.at = "purge" => setup = "mount_authoritative"

\* What a sync works on is its own, at every step.
LEMMA OwnedStep ==
    ASSUME OwnedInv, Purging, [Next]_vars
    PROVE  OwnedInv' /\ Purging'
<1>1. TypeInv /\ TypeOK /\ Owned
    BY DEF OwnedInv, TypeInv
<1>2. TypeInv' /\ setup' = setup
    BY <1>1, TypeStep, SetupFixed
<1> SUFFICES Owned' /\ Purging'
    BY <1>2 DEF OwnedInv
<1>3. CASE \E j \in Jobs : Call(j) \/ Tick(j) \/ Send(j) \/ SendFails(j) \/ Expire(j)
    BY <1>1, <1>2, <1>3, QueueStep DEF Owned, Purging
<1>4. CASE \E j \in Jobs : Fetch(j)
    BY <1>1, <1>4, BeginStep DEF Owned, Purging
<1>5. CASE Finish \/ RunFails \/ Crash
    BY <1>1, <1>5, EndStep DEF Owned, Purging, NoRun
<1>6. CASE Checkout \/ Scan
    BY <1>1, <1>6, ScanStep DEF Owned, Purging
<1>7. CASE \E f \in Files : Read(f)
    <2>1. PICK f \in Files : Read(f)
        BY <1>7
    <2>2. row' = row
        BY <1>1, <2>1, ReadStep
    <2>3. \/ run'.at \in {"prune", "file"}
          \/ run'.at = (IF HasRef(f) THEN "put" ELSE "insert") /\ run'.file = f
        BY <1>1, <2>1, ReadStep
    <2>4. HasRef(f) => row[f].kind = "synced"
        BY DEF HasRef
    <2> QED
        BY <2>2, <2>3, <2>4 DEF Owned, Purging
<1>8. CASE Insert
    BY <1>1, <1>8, InsertStep DEF Owned, Purging
<1>9. CASE Put \/ Upsert
    BY <1>1, <1>9, StoreStep DEF Owned, Purging
<1>10. CASE \E f \in Files : FileFails(f)
    BY <1>1, <1>10, FailStep DEF Owned, Purging
<1>11. CASE Prune \/ Purge
    <2>1. run'.at \in {"purge", "enqueue"}
        BY <1>1, <1>11, PruneStep
    <2>2. run'.at = "purge" => setup = "mount_authoritative"
        BY <1>1, <1>11 DEF Prune, Purge, TypeOK, Run
    <2> QED
        BY <1>2, <2>1, <2>2 DEF Owned, Purging
<1>12. CASE \E f \in Files : EnqueueIndex(f)
    BY <1>1, <1>12, EnqueueStep DEF Owned, Purging
<1>13. CASE IndexCommit \/ \E f \in Files : IndexRead(f)
    <2>1. /\ run' = run
          /\ \A g \in Files : row'[g].kind = row[g].kind
        BY <1>1, <1>13, IndexStep
    <2>2. run.at \in {"put", "upsert"} => run.file \in Files
        BY <1>1, CurrentFile DEF OnFile
    <2> QED
        BY <1>1, <1>2, <2>1, <2>2 DEF Owned, Purging
<1>14. CASE Outside
    <2>1. /\ run' = run
          /\ \A g \in Files : row[g].kind = "synced" => row'[g] = row[g]
        BY <1>1, <1>14, OutsideStep
    <2>2. run.at \in {"put", "upsert"} => run.file \in Files
        BY <1>1, CurrentFile DEF OnFile
    <2> QED
        BY <1>1, <1>2, <2>1, <2>2 DEF Owned, Purging
<1>15. CASE UNCHANGED vars
    BY <1>1, <1>15 DEF Owned, Purging, vars
<1> QED
    BY <1>3, <1>4, <1>5, <1>6, <1>7, <1>8, <1>9, <1>10, <1>11, <1>12, <1>13, <1>14,
       <1>15 DEF Next, Import, Failure

\* One conjunct of ManagedKept.
Untouched ==
    \A f \in Files :
        run' # run /\ row[f].kind = "managed" =>
            \/ row'[f] = row[f]
            \/ setup = "mount_authoritative" /\ f \notin run.scanned

\* No step of a sync touches a managed document it is not there to purge.
LEMMA ManagedStep ==
    ASSUME OwnedInv, Purging, [Next]_vars
    PROVE  Untouched
<1>1. TypeInv /\ TypeOK /\ Owned
    BY DEF OwnedInv, TypeInv
<1>2. CASE \/ \E j \in Jobs : Call(j) \/ Tick(j) \/ Send(j) \/ SendFails(j) \/ Expire(j)
           \/ IndexCommit
           \/ \E f \in Files : IndexRead(f)
           \/ Outside
           \/ UNCHANGED vars
    <2>1. run' = run
        BY <1>1, <1>2, QueueStep, IndexStep, OutsideStep DEF vars
    <2> QED
        BY <2>1 DEF Untouched
<1>3. CASE \E j \in Jobs : Fetch(j)
    BY <1>3 DEF Fetch, Untouched
<1>4. CASE Finish \/ RunFails \/ Crash
    BY <1>1, <1>4, EndStep DEF Untouched
<1>5. CASE Checkout \/ Scan
    BY <1>1, <1>5, ScanStep DEF Untouched
<1>6. CASE \E f \in Files : Read(f)
    BY <1>1, <1>6, ReadStep DEF Untouched
<1>7. CASE Insert
    <2>1. \/ row' = row
          \/ /\ row[run.file].kind = "none"
             /\ \A g \in Files : g # run.file => row'[g] = row[g]
        BY <1>1, <1>7, InsertStep
    <2> QED
        BY <2>1 DEF Untouched
<1>8. CASE Put \/ Upsert
    <2>1. /\ run.at \in {"put", "upsert"}
          /\ \A g \in Files : g # run.file => row'[g] = row[g]
        BY <1>1, <1>8, StoreStep
    <2>2. row[run.file].kind = "synced"
        BY <1>1, <2>1 DEF Owned
    <2> QED
        BY <2>1, <2>2 DEF Untouched
<1>9. CASE \E f \in Files : FileFails(f)
    BY <1>1, <1>9, FailStep DEF Untouched
<1>10. CASE Prune \/ Purge
    <2>1. \A f \in Files :
              \/ row'[f] = row[f]
              \/ row[f].kind = "synced"
              \/ Purge /\ f \notin run.scanned
        BY <1>1, <1>10, PruneStep
    <2>2. Purge => setup = "mount_authoritative"
        BY DEF Purge, Purging
    <2> QED
        BY <2>1, <2>2 DEF Untouched
<1>11. CASE \E f \in Files : EnqueueIndex(f)
    BY <1>1, <1>11, EnqueueStep DEF Untouched
<1> QED
    BY <1>2, <1>3, <1>4, <1>5, <1>6, <1>7, <1>8, <1>9, <1>10, <1>11
       DEF Next, Import, Failure

\* A sync never touches a managed document, whatever the tree has at its path,
\* except that an authoritative mount removes those it does not have.
THEOREM ManagedIsKept == Spec => ManagedKept
<1>1. Init => OwnedInv /\ Purging
    BY TypeInit DEF Init, OwnedInv, Owned, Purging, NoRun
<1>2. OwnedInv /\ Purging /\ [Next]_vars => (OwnedInv /\ Purging)'
    BY OwnedStep
<1>3. OwnedInv /\ Purging /\ [Next]_vars => [Untouched]_vars
    BY ManagedStep
<1>4. ManagedKept <=> [][Untouched]_vars
    BY DEF ManagedKept, Untouched
<1> QED
    BY <1>1, <1>2, <1>3, <1>4, PTL DEF Spec

-----------------------------------------------------------------------------
(* A sync keeps what is in the tree.                                       *)

\* There is one reference per file: a mount, or a repository at one commit.
OneRef == run.rev = 0 /\ \A f \in Files : row[f].rev = 0

\* A file the loop has done with, and not because of a failing call, is kept
\* if it has an imported document.
DoneKept ==
    \A f \in run.scanned \ (run.todo \cup run.hit) : row[f].kind = "synced" => f \in run.keep

\* Pruning waits for the whole loop; only a path without a document of this
\* sync is inserted at.
Waits ==
    /\ run.at = "prune" => run.todo = {}
    /\ run.at = "insert" => row[run.file].kind # "synced"

TreeInv == OneRef /\ DoneKept /\ Waits

\* A step that leaves the sync alone, and no row newly imported, is harmless.
LEMMA TreeStays ==
    ASSUME TypeInv, TreeInv, run' = run,
           \A f \in Files : row[f].kind # "synced" => row'[f].kind # "synced",
           \A f \in Files : row'[f].rev = 0
    PROVE  TreeInv'
<1>1. run.at = "insert" => run.file \in Files
    BY CurrentFile DEF OnFile
<1>2. run.scanned \subseteq Files
    BY DEF TypeInv, TypeOK, Run
<1> QED
    BY <1>1, <1>2 DEF TreeInv, OneRef, DoneKept, Waits

\* Only in one setup, git, does the reference have a commit, and there is one.
LEMMA OneCommit ==
    ASSUME TypeOK, MaxCommits = 0
    PROVE  tip = 0
BY DEF TypeOK

\* When every commit has been pushed, no step of the system breaks TreeInv.
LEMMA TreeStep ==
    ASSUME MaxCommits = 0, OwnedInv, TreeInv, [Next]_vars
    PROVE  TreeInv'
<1>1. TypeInv /\ TypeOK /\ Owned /\ TypeInv' /\ tip = 0
    BY TypeStep, OneCommit DEF OwnedInv, TypeInv
<1>2. /\ run.rev = 0 /\ \A f \in Files : row[f].rev = 0
      /\ run.scanned \subseteq Files
    BY <1>1 DEF TreeInv, OneRef, TypeOK, Run
<1>3. CASE \/ \E j \in Jobs : Call(j) \/ Tick(j) \/ Send(j) \/ SendFails(j) \/ Expire(j)
           \/ UNCHANGED vars
    <2>1. run' = run /\ row' = row
        BY <1>1, <1>3, QueueStep DEF vars
    <2> QED
        BY <1>1, <1>2, <2>1, TreeStays
<1>4. CASE IndexCommit \/ \E f \in Files : IndexRead(f)
    <2>1. /\ run' = run
          /\ \A g \in Files : row'[g].kind = row[g].kind /\ row'[g].rev = row[g].rev
        BY <1>1, <1>4, IndexStep
    <2> QED
        BY <1>1, <1>2, <2>1, TreeStays
<1>5. CASE Outside
    <2>1. /\ run' = run
          /\ \A g \in Files :
                \/ row'[g] = row[g]
                \/ row'[g].kind # "synced" /\ row'[g].rev \in {row[g].rev, 0}
        BY <1>1, <1>5, OutsideStep
    <2> QED
        BY <1>1, <1>2, <2>1, TreeStays
<1>6. CASE (\E j \in Jobs : Fetch(j)) \/ Finish \/ RunFails \/ Crash
    <2>1. row' = row
        BY <1>1, <1>6, EndStep DEF Fetch
    <2>2. /\ run'.rev = 0 /\ run'.scanned = {} /\ run'.todo = {}
          /\ run'.at \in {"idle", "checkout", "scan"}
        BY <1>1, <1>6, EndStep DEF Fetch, NoRun
    <2> QED
        BY <1>2, <2>1, <2>2 DEF TreeInv, OneRef, DoneKept, Waits
<1>7. CASE Checkout \/ Scan
    <2>1. /\ row' = row /\ run'.rev = 0
          /\ run'.at \in {"scan", "file", "prune"}
          /\ run'.at = "prune" => run'.todo = {}
        BY <1>1, <1>2, <1>7, ScanStep
    <2>2. DoneKept'
        <3>1. CASE run'.at = "scan"
            <4>1. /\ run'.scanned = run.scanned /\ run'.todo = run.todo
                  /\ run'.hit = run.hit /\ run'.keep = run.keep
                BY <1>1, <1>7, <3>1, ScanStep
            <4> QED
                BY <2>1, <4>1 DEF TreeInv, DoneKept
        <3>2. CASE run'.at # "scan"
            <4>1. run'.todo = run'.scanned
                BY <1>1, <1>7, <3>2, ScanStep
            <4> QED
                BY <4>1 DEF DoneKept
        <3> QED
            BY <3>1, <3>2
    <2> QED
        BY <1>2, <2>1, <2>2 DEF TreeInv, OneRef, Waits
<1>8. CASE \E f \in Files : Read(f)
    <2>1. PICK f \in Files : Read(f)
        BY <1>8
    <2>2. /\ row' = row /\ run'.rev = run.rev /\ run'.scanned = run.scanned
        BY <1>1, <2>1, ReadStep
    <2>3. CASE /\ run'.at \in {"prune", "file"}
               /\ run'.todo = run.todo \ {f}
               /\ run'.at = "prune" => run.todo \ {f} = {}
               /\ \/ run'.hit = run.hit \cup {f} /\ run'.keep = run.keep
                  \/ run'.hit = run.hit /\ run'.keep = run.keep \cup {f}
        BY <1>2, <2>2, <2>3 DEF TreeInv, OneRef, DoneKept, Waits
    <2>4. CASE /\ run'.at = IF HasRef(f) THEN "put" ELSE "insert"
               /\ run'.file = f
               /\ run'.todo = run.todo
               /\ run'.hit = run.hit
               /\ run'.keep = run.keep
        <3>1. HasRef(f) <=> row[f].kind = "synced"
            BY <1>2 DEF HasRef
        <3> QED
            BY <1>2, <2>2, <2>4, <3>1 DEF TreeInv, OneRef, DoneKept, Waits
    <2> QED
        BY <1>1, <2>1, <2>3, <2>4, ReadStep
<1>9. CASE Insert
    <2>1. /\ run'.rev = run.rev /\ run'.scanned = run.scanned
          /\ run'.hit = run.hit /\ run'.keep = run.keep
          /\ run.at = "insert" /\ run.file \in Files /\ run.file \in run.todo
        BY <1>1, <1>9, InsertStep
    <2>2. row[run.file].kind # "synced"
        BY <2>1 DEF TreeInv, Waits
    <2>3. CASE /\ row' = row
               /\ run'.at \in {"prune", "file"}
               /\ run'.todo = run.todo \ {run.file}
               /\ run'.at = "prune" => run.todo \ {run.file} = {}
        BY <1>2, <2>1, <2>2, <2>3 DEF TreeInv, OneRef, DoneKept, Waits
    <2>4. CASE /\ row'[run.file].kind = "synced" /\ row'[run.file].rev = run.rev
               /\ \A g \in Files : g # run.file => row'[g] = row[g]
               /\ run'.at = "put"
               /\ run'.todo = run.todo
        BY <1>2, <2>1, <2>4 DEF TreeInv, OneRef, DoneKept, Waits
    <2> QED
        BY <1>1, <1>9, <2>3, <2>4, InsertStep
<1>10. CASE Put \/ Upsert
    <2>1. /\ run'.rev = run.rev /\ run'.scanned = run.scanned
          /\ run'.hit = run.hit
          /\ \A g \in Files : row'[g].kind = row[g].kind /\ row'[g].rev = row[g].rev
        BY <1>1, <1>10, StoreStep
    <2>2. CASE /\ run'.at = "upsert"
               /\ run'.todo = run.todo
               /\ run'.keep = run.keep
        BY <1>2, <2>1, <2>2 DEF TreeInv, OneRef, DoneKept, Waits
    <2>3. CASE /\ run'.at \in {"prune", "file"}
               /\ run'.todo = run.todo \ {run.file}
               /\ run'.keep = run.keep \cup {run.file}
               /\ run'.at = "prune" => run.todo \ {run.file} = {}
        BY <1>2, <2>1, <2>3 DEF TreeInv, OneRef, DoneKept, Waits
    <2> QED
        BY <1>1, <1>10, <2>2, <2>3, StoreStep
<1>11. CASE \E f \in Files : FileFails(f)
    <2>1. PICK f \in Files : FileFails(f)
        BY <1>11
    <2>2. /\ row' = row
          /\ run'.at \in {"prune", "file"}
          /\ run'.todo = run.todo \ {f}
          /\ run'.scanned = run.scanned
          /\ run'.keep = run.keep
          /\ run'.rev = run.rev
          /\ run'.hit = run.hit \cup {f}
          /\ run'.at = "prune" => run.todo \ {f} = {}
        BY <1>1, <2>1, FailStep
    <2> QED
        BY <1>2, <2>2 DEF TreeInv, OneRef, DoneKept, Waits
<1>12. CASE Prune \/ Purge
    <2>1. /\ run'.at \in {"purge", "enqueue"}
          /\ run'.scanned = run.scanned
          /\ run'.todo = run.todo
          /\ run'.hit = run.hit
          /\ run'.keep = run.keep
          /\ run'.rev = run.rev
          /\ \A f \in Files : row'[f] = row[f] \/ row'[f] = NoRow
        BY <1>1, <1>12, PruneStep
    <2>2. NoRow.kind = "none" /\ NoRow.rev = 0
        BY DEF NoRow
    <2>3. OneRef'
        BY <1>2, <2>1, <2>2 DEF OneRef
    <2>4. DoneKept'
        <3> SUFFICES ASSUME NEW f \in run.scanned \ (run.todo \cup run.hit),
                            row'[f].kind = "synced"
                     PROVE  f \in run.keep
            BY <2>1 DEF DoneKept
        <3>1. row[f].kind = "synced"
            BY <1>2, <2>1, <2>2
        <3> QED
            BY <3>1 DEF TreeInv, DoneKept
    <2> QED
        BY <2>1, <2>3, <2>4 DEF TreeInv, Waits
<1>13. CASE \E f \in Files : EnqueueIndex(f)
    <2>1. /\ row' = row
          /\ run'.at = "enqueue"
          /\ run'.scanned = run.scanned
          /\ run'.todo = run.todo
          /\ run'.hit = run.hit
          /\ run'.keep = run.keep
          /\ run'.rev = run.rev
        BY <1>1, <1>13, EnqueueStep
    <2> QED
        BY <1>2, <2>1 DEF TreeInv, OneRef, DoneKept, Waits
<1> QED
    BY <1>3, <1>4, <1>5, <1>6, <1>7, <1>8, <1>9, <1>10, <1>11, <1>12, <1>13
       DEF Next, Import, Failure

\* One conjunct of TreeKept.
StillThere ==
    \A f \in run.scanned \ run.hit :
        row[f].kind = "synced" => row'[f].kind = "synced"

\* No step removes a document of the tree being imported.
LEMMA KeepStep ==
    ASSUME MaxCommits = 0, OwnedInv, TreeInv, [Next]_vars
    PROVE  StillThere
<1>1. TypeInv /\ TypeOK
    BY DEF OwnedInv, TypeInv
<1>2. run.scanned \subseteq Files
    BY <1>1 DEF TypeOK, Run
<1>3. CASE Prune \/ Purge
    <2>1. \A f \in Files :
              \/ row'[f] = row[f]
              \/ Prune /\ row[f].kind = "synced" /\ ~(HasRef(f) /\ f \in run.keep)
              \/ row[f].kind = "managed"
        BY <1>1, <1>3, PruneStep
    <2>2. ASSUME NEW f \in run.scanned \ run.hit, row[f].kind = "synced", Prune
          PROVE  HasRef(f) /\ f \in run.keep
        <3>1. run.todo = {}
            BY <2>2 DEF Prune, TreeInv, Waits
        <3>2. f \in run.keep
            BY <2>2, <3>1 DEF TreeInv, DoneKept
        <3>3. HasRef(f)
            BY <1>2, <2>2 DEF HasRef, TreeInv, OneRef
        <3> QED
            BY <3>2, <3>3
    <2> QED
        BY <1>2, <2>1, <2>2 DEF StillThere
<1>4. CASE Outside
    <2>1. \A g \in Files : row[g].kind = "synced" => row'[g] = row[g]
        BY <1>1, <1>4, OutsideStep
    <2> QED
        BY <1>2, <2>1 DEF StillThere
<1>5. CASE Insert
    <2>1. \/ row' = row
          \/ /\ row[run.file].kind = "none"
             /\ \A g \in Files : g # run.file => row'[g] = row[g]
        BY <1>1, <1>5, InsertStep
    <2> QED
        BY <1>2, <2>1 DEF StillThere
<1>6. CASE Put \/ Upsert \/ IndexCommit \/ \E f \in Files : IndexRead(f)
    <2>1. \A g \in Files : row'[g].kind = row[g].kind
        BY <1>1, <1>6, StoreStep, IndexStep
    <2> QED
        BY <1>2, <2>1 DEF StillThere
<1>7. CASE \/ \E j \in Jobs : \/ Call(j) \/ Tick(j) \/ Send(j) \/ SendFails(j)
                              \/ Expire(j) \/ Fetch(j)
           \/ Finish \/ RunFails \/ Crash \/ Checkout \/ Scan
           \/ \E f \in Files : Read(f) \/ FileFails(f) \/ EnqueueIndex(f)
           \/ UNCHANGED vars
    <2>1. row' = row
        BY <1>7 DEF Call, Tick, Send, SendFails, Expire, Fetch, Finish, RunFails, Crash,
                    Checkout, Scan, Read, FileFails, EnqueueIndex, vars
    <2> QED
        BY <2>1 DEF StillThere
<1> QED
    BY <1>3, <1>4, <1>5, <1>6, <1>7 DEF Next, Import, Failure

\* Of a mount, or of a repository no commit is pushed to, a sync never removes
\* the document of a file that is in the tree it is importing, unless a call
\* for that file failed.  Where commits are pushed, run SyncGit refutes it.
THEOREM TreeIsKept ==
    ASSUME MaxCommits = 0
    PROVE  Spec => TreeKept
<1>1. Init => OwnedInv /\ Purging /\ TreeInv
    <2>1. Init => OwnedInv /\ Purging
        BY TypeInit DEF Init, OwnedInv, Owned, Purging, NoRun
    <2>2. Init => TreeInv
        BY DEF Init, TreeInv, OneRef, DoneKept, Waits, NoRun, NoRow
    <2> QED
        BY <2>1, <2>2
<1>2. OwnedInv /\ Purging /\ TreeInv /\ [Next]_vars => (OwnedInv /\ Purging /\ TreeInv)'
    BY OwnedStep, TreeStep
<1>3. OwnedInv /\ Purging /\ TreeInv /\ [Next]_vars => [StillThere]_vars
    BY KeepStep
<1>4. TreeKept <=> [][StillThere]_vars
    BY DEF TreeKept, StillThere
<1> QED
    BY <1>1, <1>2, <1>3, <1>4, PTL DEF Spec

-----------------------------------------------------------------------------
(* Imported documents can be opened.                                       *)

\* A row of this kind can be opened: its blob is there, as its hash says.
Whole(f) ==
    row[f].kind = "synced" => row[f].stored /\ row[f].body = row[f].hash

Spared == faults <= 1 /\ crashes = 0

Storing == {"put", "upsert"}
Before  == {"idle", "checkout", "scan"}
Looping == {"file", "insert", "put", "upsert", "prune"}

\* A kept file is done with; what is kept is collected anew by each sync.
KeptOnce ==
    /\ run.keep \cap run.todo = {}
    /\ run.at \in Before => run.keep = {}

\* The blob is in place before the row says so.
BlobFirst == run.at = "upsert" => row[run.file].body = run.body

\* A row that cannot be opened is being written, or is that of the file whose
\* call failed, which this sync has not kept and is going to prune.
Mending(f) ==
    \/ run.at \in Storing /\ f = run.file
    \/ faults = 1 /\ run.at \in Looping /\ f \notin run.keep \cup run.todo

WholeInv ==
    /\ KeptOnce
    /\ BlobFirst
    /\ Spared => \A f \in Files : Whole(f) \/ Mending(f)

\* The steps in which no call fails and no process dies.
LEMMA CountsStay ==
    ASSUME [Next]_vars,
           ~RunFails, ~Crash, \A f \in Files : ~FileFails(f), \A j \in Jobs : ~SendFails(j)
    PROVE  faults' = faults /\ crashes' = crashes
BY DEF Next, Import, Failure, Outside, vars, bounds, Call, Tick, Send, Fetch, Expire,
       Checkout, Scan, Read, Insert, Put, Upsert, Prune, Purge, EnqueueIndex, Finish,
       IndexRead, IndexCommit, WriteManaged, DeleteManaged, Change, Edit

\* One failure more.
LEMMA CountsGrow ==
    ASSUME TypeOK, Fault
    PROVE  /\ faults' = faults + 1 /\ crashes' = crashes
           /\ Spared' => Spared /\ faults = 0 /\ faults' = 1
BY DEF Fault, TypeOK, Spared

\* What the sync and the index worker write into a row.
LEMMA StoredRow ==
    ASSUME TypeInv, Put \/ Upsert
    PROVE  /\ Put => /\ row'[run.file].body = run.body
                     /\ run'.body = run.body /\ run'.file = run.file
                     /\ run'.at = "upsert"
           /\ Upsert => /\ row'[run.file].body = row[run.file].body
                        /\ row'[run.file].hash = run.body
                        /\ row'[run.file].stored
                        /\ run'.at \in {"prune", "file"}
<1>1. TypeOK /\ run \in Run /\ run.file \in Files
    BY CurrentFile DEF TypeInv, TypeOK, Put, Upsert, OnFile
<1>2. row \in [Files -> Row] /\ row[run.file] \in Row
    BY <1>1 DEF TypeOK
<1>3. CASE Put
    <2>1. row'[run.file] = [row[run.file] EXCEPT !.body = run.body]
        BY <1>1, <1>2, <1>3 DEF Put
    <2>2. run' = [run EXCEPT !.at = "upsert"] /\ run.at = "put"
        BY <1>3 DEF Put
    <2>3. row'[run.file].body = run.body
        BY <1>2, <2>1 DEF Row
    <2>4. run'.body = run.body /\ run'.file = run.file /\ run'.at = "upsert"
        BY <1>1, <2>2 DEF Run
    <2>5. ~Upsert
        BY <2>2 DEF Upsert
    <2> QED
        BY <2>3, <2>4, <2>5
<1>4. CASE Upsert
    <2>1. row'[run.file] =
            [row[run.file] EXCEPT !.hash = run.body, !.stored = TRUE, !.state = "pending"]
        BY <1>1, <1>2, <1>4 DEF Upsert
    <2>2. row'[run.file].body = row[run.file].body /\ row'[run.file].hash = run.body
        BY <1>2, <2>1 DEF Row
    <2>3. row'[run.file].stored = TRUE
        BY <1>2, <2>1 DEF Row
    <2>4. run' = [Keep(NextFile(run.file), run.file) EXCEPT !.index = @ \cup {run.file}]
        BY <1>4 DEF Upsert
    <2>5. NextFile(run.file).at \in {"prune", "file"} /\ NextFile(run.file) \in Run
        BY <1>1, NextFileType
    <2>6. run'.at = NextFile(run.file).at
        BY <2>4, <2>5 DEF Keep, Run
    <2>7. ~Put
        BY <1>4 DEF Put, Upsert
    <2> QED
        BY <2>2, <2>3, <2>5, <2>6, <2>7
<1> QED
    BY <1>3, <1>4

\* The index worker touches neither blob nor hash.
LEMMA IndexKeeps ==
    ASSUME TypeInv, IndexCommit \/ \E f \in Files : IndexRead(f), NEW g \in Files
    PROVE  /\ row'[g].kind = row[g].kind /\ row'[g].stored = row[g].stored
           /\ row'[g].body = row[g].body /\ row'[g].hash = row[g].hash
<1>1. row \in [Files -> Row] /\ row[g] \in Row
    BY DEF TypeInv, TypeOK
<1>2. CASE IndexCommit
    <2>1. row' = [row EXCEPT ![idx.file] = [@ EXCEPT !.chunks = idx.body, !.state = "indexed"]]
        BY <1>2 DEF IndexCommit
    <2>2. row'[g] = row[g] \/ row'[g] = [row[g] EXCEPT !.chunks = idx.body, !.state = "indexed"]
        BY <1>1, <2>1
    <2>3. ASSUME row'[g] = [row[g] EXCEPT !.chunks = idx.body, !.state = "indexed"]
          PROVE  /\ row'[g].kind = row[g].kind
                 /\ row'[g].body = row[g].body /\ row'[g].hash = row[g].hash
        BY <1>1, <2>3 DEF Row
    <2>4. ASSUME row'[g] = [row[g] EXCEPT !.chunks = idx.body, !.state = "indexed"]
          PROVE  row'[g].stored = row[g].stored
        BY <1>1, <2>4 DEF Row
    <2> QED
        BY <2>2, <2>3, <2>4
<1>3. CASE \E f \in Files : IndexRead(f)
    BY <1>3 DEF IndexRead
<1> QED
    BY <1>2, <1>3

\* A step that leaves the sync and the imported rows alone, with no failure.
LEMMA WholeStays ==
    ASSUME TypeInv, WholeInv, run' = run, Spared' => Spared /\ faults' = faults,
           run.at \in Storing => row[run.file].kind = "synced",
           \A f \in Files : row[f].kind = "synced" \/ row'[f].kind # "synced",
           \A f \in Files : row[f].kind = "synced" =>
                /\ row'[f].kind = "synced" /\ row'[f].stored = row[f].stored
                /\ row'[f].body = row[f].body /\ row'[f].hash = row[f].hash
    PROVE  WholeInv'
<1>1. KeptOnce'
    BY DEF WholeInv, KeptOnce
<1>2. BlobFirst'
    <2>1. run.at = "upsert" => run.file \in Files
        BY CurrentFile DEF OnFile
    <2> QED
        BY <2>1 DEF WholeInv, BlobFirst, Storing
<1>3. ASSUME Spared', NEW f \in Files
      PROVE  Whole(f)' \/ Mending(f)'
    <2>1. Whole(f) \/ Mending(f)
        BY <1>3 DEF WholeInv
    <2>2. Whole(f) => Whole(f)'
        <3>1. CASE row[f].kind = "synced"
            <4>1. /\ row'[f].stored = row[f].stored
                  /\ row'[f].body = row[f].body /\ row'[f].hash = row[f].hash
                BY <3>1
            <4> QED
                BY <3>1, <4>1 DEF Whole
        <3>2. CASE row[f].kind # "synced"
            BY <3>2 DEF Whole
        <3> QED
            BY <3>1, <3>2
    <2>3. Mending(f) => Mending(f)'
        BY <1>3 DEF Mending
    <2> QED
        BY <2>1, <2>2, <2>3
<1> QED
    BY <1>1, <1>2, <1>3 DEF WholeInv

\* A run that is over, or begins, leaves no row behind that cannot be opened.
LEMMA WholeRun ==
    ASSUME TypeInv, WholeInv, \/ Finish \/ RunFails \/ Crash
                              \/ \E j \in Jobs : Fetch(j)
    PROVE  WholeInv'
<1>1. row' = row
    BY EndStep DEF Fetch
<1>2. run'.at \in Before /\ run'.keep = {} /\ run'.todo = {}
    BY EndStep DEF Fetch, NoRun, Before
<1>3. KeptOnce' /\ BlobFirst'
    BY <1>2 DEF KeptOnce, BlobFirst, Before
<1>4. ASSUME Spared', NEW f \in Files
      PROVE  Whole(f)
    <2>1. TypeOK
        BY DEF TypeInv
    <2>2. Whole(f) \/ Mending(f)
        <3>1. Spared
            BY <1>4, <2>1, CountsGrow DEF Finish, RunFails, Crash, Fetch, bounds, Spared, TypeOK
        <3> QED
            BY <3>1 DEF WholeInv
    <2>3. CASE Finish \/ \E j \in Jobs : Fetch(j)
        <3>1. run.at \in {"idle", "enqueue"}
            BY <2>3 DEF Finish, Fetch
        <3> QED
            BY <2>2, <3>1 DEF Mending, Storing, Looping
    <2>4. CASE RunFails
        <3>1. run.at \notin Storing /\ faults = 0
            BY <1>4, <2>1, <2>4, CountsGrow DEF RunFails, Storing
        <3> QED
            BY <2>2, <3>1 DEF Mending
    <2>5. CASE Crash
        BY <1>4, <2>1, <2>5 DEF Crash, Spared, TypeOK
    <2> QED
        BY <2>3, <2>4, <2>5
<1>5. \A f \in Files : Whole(f)' <=> Whole(f)
    BY <1>1 DEF Whole
<1> QED
    BY <1>3, <1>4, <1>5 DEF WholeInv

\* Scanning starts the loop with nothing kept.
LEMMA WholeScan ==
    ASSUME TypeInv, WholeInv, Checkout \/ Scan
    PROVE  WholeInv'
<1>1. run \in Run /\ run.at \in {"checkout", "scan"}
    BY DEF TypeInv, TypeOK, Checkout, Scan
<1>2. /\ row' = row /\ faults' = faults /\ crashes' = crashes
      /\ run'.keep = run.keep
    BY <1>1 DEF Checkout, Scan, bounds, Run
<1>3. run'.at \in {"scan", "file", "prune"}
    BY ScanStep
<1>4. run.keep = {}
    BY <1>1 DEF WholeInv, KeptOnce, Before
<1>5. KeptOnce' /\ BlobFirst'
    BY <1>2, <1>3, <1>4 DEF KeptOnce, BlobFirst
<1>6. ASSUME Spared', NEW f \in Files
      PROVE  Whole(f)'
    <2>1. Spared
        BY <1>2, <1>6 DEF Spared
    <2>2. Whole(f) \/ Mending(f)
        BY <2>1 DEF WholeInv
    <2>3. ~Mending(f)
        BY <1>1 DEF Mending, Storing, Looping
    <2> QED
        BY <1>2, <2>2, <2>3 DEF Whole
<1> QED
    BY <1>5, <1>6 DEF WholeInv

\* A file that is kept because its row has its content has been whole before.
LEMMA WholeRead ==
    ASSUME TypeInv, WholeInv, NEW f \in Files, Read(f)
    PROVE  WholeInv'
<1>1. run.at = "file" /\ f \in run.todo
    BY DEF Read
<1>2. /\ row' = row /\ faults' = faults /\ crashes' = crashes
      /\ run'.at \in {"prune", "file", "put", "insert"}
    BY ReadStep DEF Read, bounds
<1>3. \/ /\ run'.at \in {"prune", "file"}
         /\ run'.todo = run.todo \ {f}
         /\ run'.keep = run.keep \/ run'.keep = run.keep \cup {f}
      \/ /\ run'.at \in {"put", "insert"}
         /\ run'.todo = run.todo /\ run'.keep = run.keep
    BY ReadStep
<1>4. KeptOnce' /\ BlobFirst'
    BY <1>2, <1>3 DEF WholeInv, KeptOnce, BlobFirst, Before
<1>5. ASSUME Spared', NEW g \in Files
      PROVE  Whole(g)' \/ Mending(g)'
    <2>1. Spared
        BY <1>2, <1>5 DEF Spared
    <2>2. Whole(g) \/ Mending(g)
        BY <2>1 DEF WholeInv
    <2>3. CASE Whole(g)
        BY <1>2, <2>3 DEF Whole
    <2>4. CASE Mending(g)
        <3>1. faults = 1 /\ g \notin run.keep \cup run.todo
            BY <1>1, <2>4 DEF Mending, Storing
        <3>2. g \notin run'.keep \cup run'.todo
            BY <1>1, <1>3, <3>1
        <3> QED
            BY <1>2, <3>1, <3>2 DEF Mending, Looping
    <2> QED
        BY <2>2, <2>3, <2>4
<1> QED
    BY <1>4, <1>5 DEF WholeInv

\* A placeholder is the one row that is being written.
LEMMA WholeInsert ==
    ASSUME TypeInv, WholeInv, Insert
    PROVE  WholeInv'
<1> DEFINE f == run.file
<1>1. run.at = "insert" /\ f \in Files /\ f \in run.todo /\ run'.keep = run.keep
    BY InsertStep
<1>2. faults' = faults /\ crashes' = crashes
    BY DEF Insert, bounds
<1>3. \/ /\ row' = row
         /\ run'.at \in {"prune", "file"}
         /\ run'.todo = run.todo \ {f}
      \/ /\ \A g \in Files : g # f => row'[g] = row[g]
         /\ run'.at = "put" /\ run'.file = f /\ run'.todo = run.todo
    BY InsertStep
<1> HIDE DEF f
<1>4. KeptOnce' /\ BlobFirst'
    BY <1>1, <1>3 DEF WholeInv, KeptOnce, BlobFirst, Before
<1>5. ASSUME Spared', NEW g \in Files
      PROVE  Whole(g)' \/ Mending(g)'
    <2>1. Spared
        BY <1>2, <1>5 DEF Spared
    <2>2. Whole(g) \/ Mending(g)
        BY <2>1 DEF WholeInv
    <2>3. ASSUME Mending(g)
          PROVE  Mending(g)'
        <3>1. faults = 1 /\ g \notin run.keep \cup run.todo
            BY <1>1, <2>3 DEF Mending, Storing
        <3> QED
            BY <1>1, <1>2, <1>3, <3>1 DEF Mending, Looping
    <2>4. ASSUME Whole(g)
          PROVE  Whole(g)' \/ Mending(g)'
        <3>1. row'[g] = row[g] \/ (run'.at = "put" /\ g = run'.file)
            BY <1>3
        <3> QED
            BY <2>4, <3>1 DEF Whole, Mending, Storing
    <2> QED
        BY <2>2, <2>3, <2>4
<1> QED
    BY <1>4, <1>5 DEF WholeInv

\* Once the row has the hash of the blob that was put, it can be opened.
LEMMA WholeStore ==
    ASSUME TypeInv, WholeInv, Put \/ Upsert
    PROVE  WholeInv'
<1>0. PICK f \in Files : f = run.file
    BY StoreStep
<1>1. /\ run.at \in Storing /\ f \in run.todo
      /\ \A g \in Files : g # f => row'[g] = row[g]
    BY <1>0, StoreStep, CurrentFile DEF OnFile, Storing
<1>2. faults' = faults /\ crashes' = crashes
    BY DEF Put, Upsert, bounds
<1>3. \/ /\ Put
         /\ run'.at = "upsert" /\ run'.file = f
         /\ run'.todo = run.todo /\ run'.keep = run.keep
      \/ /\ Upsert
         /\ run'.at \in {"prune", "file"}
         /\ run'.todo = run.todo \ {f} /\ run'.keep = run.keep \cup {f}
    BY <1>0, StoreStep, StoredRow
<1>4. Put => row'[f].body = run'.body
    BY <1>0, StoredRow
<1>5. ASSUME Upsert
      PROVE  Whole(f)'
    <2>1. run.at = "upsert" /\ row[f].body = run.body
        BY <1>0, <1>5 DEF Upsert, WholeInv, BlobFirst
    <2> QED
        BY <1>0, <1>5, <2>1, StoredRow DEF Whole
<1>6. KeptOnce'
    BY <1>1, <1>3 DEF WholeInv, KeptOnce, Before
<1>7. BlobFirst'
    BY <1>3, <1>4 DEF BlobFirst
<1>8. ASSUME Spared', NEW g \in Files, g # f
      PROVE  Whole(g)' \/ Mending(g)'
    <2>1. Spared
        BY <1>2, <1>8 DEF Spared
    <2>2. Whole(g) \/ Mending(g)
        BY <2>1 DEF WholeInv
    <2>3. CASE Whole(g)
        BY <1>1, <1>8, <2>3 DEF Whole
    <2>4. CASE Mending(g)
        <3>1. faults = 1 /\ g \notin run.keep \cup run.todo
            BY <1>0, <1>8, <2>4 DEF Mending
        <3>2. g \notin run'.keep \cup run'.todo
            BY <1>3, <1>8, <3>1
        <3>3. run'.at \in Looping
            BY <1>3 DEF Looping
        <3> QED
            BY <1>2, <3>1, <3>2, <3>3 DEF Mending
    <2> QED
        BY <2>2, <2>3, <2>4
<1>9. Whole(f)' \/ Mending(f)'
    BY <1>3, <1>5 DEF Mending, Storing
<1> QED
    BY <1>6, <1>7, <1>8, <1>9 DEF WholeInv

\* The file whose call failed is done with, and has not been kept.
LEMMA WholeFail ==
    ASSUME TypeInv, WholeInv, NEW f \in Files, FileFails(f)
    PROVE  WholeInv'
<1>1. /\ row' = row
      /\ run'.at \in {"prune", "file"}
      /\ run'.todo = run.todo \ {f}
      /\ run'.keep = run.keep
    BY FailStep
<1>2. run.at \in {"file", "insert", "put", "upsert"} /\ f \in run.todo
    BY CurrentFile DEF FileFails, OnFile
<1>3. KeptOnce' /\ BlobFirst'
    BY <1>1, <1>2 DEF WholeInv, KeptOnce, BlobFirst, Before
<1>4. ASSUME Spared', NEW g \in Files
      PROVE  Whole(g)' \/ Mending(g)'
    <2>1. Spared /\ faults = 0 /\ faults' = 1
        BY <1>4, CountsGrow DEF FileFails, TypeInv
    <2>2. Whole(g) \/ Mending(g)
        BY <2>1 DEF WholeInv
    <2>3. CASE Whole(g)
        BY <1>1, <2>3 DEF Whole
    <2>4. CASE Mending(g)
        <3>1. run.at \in Storing /\ g = run.file
            BY <2>1, <2>4 DEF Mending
        <3>2. g = f
            BY <3>1 DEF FileFails, Storing
        <3>3. g \notin run'.keep \cup run'.todo
            BY <1>1, <1>2, <3>2 DEF WholeInv, KeptOnce
        <3> QED
            BY <1>1, <2>1, <3>3 DEF Mending, Looping
    <2> QED
        BY <2>2, <2>3, <2>4
<1> QED
    BY <1>3, <1>4 DEF WholeInv

\* Pruning removes every imported row that was not kept.
LEMMA WholePrune ==
    ASSUME TypeInv, WholeInv, Prune \/ Purge
    PROVE  WholeInv'
<1>1. /\ run'.at \in {"purge", "enqueue"}
      /\ run'.todo = run.todo /\ run'.keep = run.keep
      /\ \A f \in Files : row'[f] = row[f] \/ row'[f] = NoRow
    BY PruneStep
<1>2. faults' = faults /\ crashes' = crashes
    BY DEF Prune, Purge, bounds
<1>3. KeptOnce' /\ BlobFirst'
    BY <1>1 DEF WholeInv, KeptOnce, BlobFirst, Before
<1>4. ASSUME Spared', NEW f \in Files
      PROVE  Whole(f)'
    <2>1. Spared
        BY <1>2, <1>4 DEF Spared
    <2>2. Whole(f) \/ Mending(f)
        BY <2>1 DEF WholeInv
    <2>3. CASE row'[f] = NoRow
        BY <2>3 DEF Whole, NoRow
    <2>4. CASE row'[f] = row[f] /\ Whole(f)
        BY <2>4 DEF Whole
    <2>5. CASE row'[f] = row[f] /\ Mending(f)
        <3>1. Prune /\ f \notin run.keep
            BY <2>5 DEF Mending, Storing, Looping, Prune, Purge
        <3>2. row[f].kind # "synced"
            <4>1. SUFFICES ASSUME row[f].kind = "synced" PROVE row'[f] = NoRow
                BY <2>5, <4>1 DEF NoRow
            <4> QED
                BY <3>1, <4>1 DEF Prune, Remove
        <3> QED
            BY <2>5, <3>2 DEF Whole
    <2> QED
        BY <1>1, <2>2, <2>3, <2>4, <2>5
<1> QED
    BY <1>3, <1>4 DEF WholeInv

\* Index jobs are enqueued when nothing is being mended any more.
LEMMA WholeEnqueue ==
    ASSUME TypeInv, WholeInv, NEW f \in Files, EnqueueIndex(f)
    PROVE  WholeInv'
<1>1. /\ row' = row /\ faults' = faults /\ crashes' = crashes
      /\ run.at = "enqueue"
    BY DEF EnqueueIndex, bounds
<1>2. run'.at = "enqueue" /\ run'.todo = run.todo /\ run'.keep = run.keep
    BY EnqueueStep
<1>3. KeptOnce' /\ BlobFirst'
    BY <1>2 DEF WholeInv, KeptOnce, BlobFirst, Before
<1>4. ASSUME Spared', NEW g \in Files
      PROVE  Whole(g)'
    <2>1. Whole(g) \/ Mending(g)
        BY <1>1, <1>4 DEF WholeInv, Spared
    <2> QED
        BY <1>1, <2>1 DEF Whole, Mending, Storing, Looping
<1> QED
    BY <1>3, <1>4 DEF WholeInv

\* Every step of the system keeps WholeInv.
LEMMA WholeStep ==
    ASSUME OwnedInv, WholeInv, [Next]_vars
    PROVE  WholeInv'
<1>1. TypeInv /\ TypeOK /\ Owned
    BY DEF OwnedInv, TypeInv
<1>2. run.at \in Storing => row[run.file].kind = "synced"
    BY <1>1 DEF Owned, Storing
<1>3. CASE \/ \E j \in Jobs : Call(j) \/ Tick(j) \/ Send(j) \/ SendFails(j) \/ Expire(j)
           \/ UNCHANGED vars
    <2>1. run' = run /\ row' = row
        BY <1>1, <1>3, QueueStep DEF vars
    <2>2. (faults' = faults /\ crashes' = crashes) \/ Fault
        BY <1>3 DEF Call, Tick, Send, SendFails, Expire, vars, bounds
    <2>3. CASE faults' = faults /\ crashes' = crashes
        <3>1. Spared' => Spared /\ faults' = faults
            BY <2>3 DEF Spared
        <3> QED
            BY <1>1, <1>2, <2>1, <3>1, WholeStays
    <2>4. CASE Fault
        <3>1. KeptOnce' /\ BlobFirst'
            BY <2>1 DEF WholeInv, KeptOnce, BlobFirst
        <3>2. ASSUME Spared', NEW f \in Files
              PROVE  Whole(f)' \/ Mending(f)'
            <4>1. Spared /\ faults = 0
                BY <1>1, <2>4, <3>2, CountsGrow
            <4>2. Whole(f) \/ Mending(f)
                BY <4>1 DEF WholeInv
            <4> QED
                BY <2>1, <4>1, <4>2 DEF Whole, Mending
        <3> QED
            BY <3>1, <3>2 DEF WholeInv
    <2> QED
        BY <2>2, <2>3, <2>4
<1>4. CASE Finish \/ RunFails \/ Crash \/ \E j \in Jobs : Fetch(j)
    BY <1>1, <1>4, WholeRun
<1>5. CASE Checkout \/ Scan
    BY <1>1, <1>5, WholeScan
<1>6. CASE \E f \in Files : Read(f)
    BY <1>1, <1>6, WholeRead
<1>7. CASE Insert
    BY <1>1, <1>7, WholeInsert
<1>8. CASE Put \/ Upsert
    BY <1>1, <1>8, WholeStore
<1>9. CASE \E f \in Files : FileFails(f)
    BY <1>1, <1>9, WholeFail
<1>10. CASE Prune \/ Purge
    BY <1>1, <1>10, WholePrune
<1>11. CASE \E f \in Files : EnqueueIndex(f)
    BY <1>1, <1>11, WholeEnqueue
<1>12. CASE IndexCommit \/ \E f \in Files : IndexRead(f)
    <2>1. run' = run /\ faults' = faults /\ crashes' = crashes
        BY <1>12 DEF IndexCommit, IndexRead, bounds
    <2>2. Spared' => Spared /\ faults' = faults
        BY <2>1 DEF Spared
    <2>3. \A g \in Files :
            /\ row'[g].kind = row[g].kind /\ row'[g].stored = row[g].stored
            /\ row'[g].body = row[g].body /\ row'[g].hash = row[g].hash
        BY <1>1, <1>12, IndexKeeps
    <2> QED
        BY <1>1, <1>2, <2>1, <2>2, <2>3, WholeStays
<1>13. CASE Outside
    <2>1. faults' = faults /\ crashes' = crashes
        BY <1>13 DEF Outside, WriteManaged, DeleteManaged, Change, Edit, bounds
    <2>2. Spared' => Spared /\ faults' = faults
        BY <2>1 DEF Spared
    <2>3. /\ run' = run
          /\ \A g \in Files :
                \/ row'[g] = row[g]
                \/ row[g].kind # "synced" /\ row'[g].kind # "synced"
        BY <1>1, <1>13, OutsideStep
    <2> QED
        BY <1>1, <1>2, <2>2, <2>3, WholeStays
<1> QED
    BY <1>3, <1>4, <1>5, <1>6, <1>7, <1>8, <1>9, <1>10, <1>11, <1>12, <1>13
       DEF Next, Import, Failure

\* Between two syncs every imported document can be opened, its blob being
\* what its hash says, as long as no process has died and at most one call has
\* failed: the sync that met the failure prunes what it left half written.
THEOREM ImportsAreWhole == Spec => []ImportedWhole
<1>1. Init => OwnedInv /\ Purging /\ WholeInv
    <2>1. Init => OwnedInv /\ Purging
        BY TypeInit DEF Init, OwnedInv, Owned, Purging, NoRun
    <2>2. Init => WholeInv
        BY DEF Init, WholeInv, KeptOnce, BlobFirst, Whole, NoRun, NoRow
    <2> QED
        BY <2>1, <2>2
<1>2. OwnedInv /\ Purging /\ WholeInv /\ [Next]_vars => (OwnedInv /\ Purging /\ WholeInv)'
    BY OwnedStep, WholeStep
<1>3. WholeInv => ImportedWhole
    BY DEF WholeInv, Spared, Whole, Mending, Storing, Looping, ImportedWhole
<1> QED
    BY <1>1, <1>2, <1>3, PTL DEF Spec
=============================================================================
