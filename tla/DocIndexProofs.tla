--------------------------- MODULE DocIndexProofs ---------------------------
(***************************************************************************)
(* Proofs about DocIndex, for every set of nodes, contents and requests,   *)
(* every retry limit, every fault and any number of crashes.               *)
(*                                                                         *)
(* First the types, and that chunk rows are those of one content.  Then    *)
(* that no content change is forgotten, as long as no OKF bootstrap has    *)
(* begun to index on its own (NoBootstrap): DocIndex!NothingLost.  From    *)
(* it: QuiescentFresh; and, by the same argument for the status of a node, *)
(* QuietIsSettled where no citation validation writes an old one back.     *)
(***************************************************************************)
EXTENDS DocIndex, TLAPS

USE DEF Procs, Jobs

-----------------------------------------------------------------------------
(* The inductive invariants.                                               *)

\* A process that is writing, deleting, probing or indexing has a node.
Placed ==
    \A p \in Procs :
        pc[p] \in {"probe"} \cup WritePc \cup DeletePc \cup IndexPc => on[p] \in Nodes

TypeInv == TypeOK /\ Placed

-----------------------------------------------------------------------------
(* Chunk rows.                                                             *)

\* The rows of a content are chunk rows, numbered from zero.
LEMMA RowsType ==
    ASSUME NEW c \in Contents \cup {NoContent}
    PROVE  /\ Rows(c) \in SUBSET (Nat \X Contents)
           /\ c = NoContent => Rows(c) = {}
<1>1. ChunkCount[c] \in Nat
    BY ContentAssumption
<1>2. c = NoContent => Rows(c) = {}
    BY ContentAssumption DEF Rows
<1>3. ASSUME c \in Contents PROVE Rows(c) \in SUBSET (Nat \X Contents)
    BY <1>1, <1>3 DEF Rows
<1> QED
    BY <1>2, <1>3

-----------------------------------------------------------------------------
(* Type correctness.                                                       *)

\* The initial states are typed.
LEMMA TypeInit == Init => TypeOK
<1> SUFFICES ASSUME Init PROVE TypeOK
    OBVIOUS
<1>1. blob \in [Nodes -> Contents \cup {NoContent}]
    BY DEF Init
<1>2. chunks \in [Nodes -> SUBSET (Nat \X Contents)]
    BY <1>1, RowsType DEF Init
<1>3. row \in [Nodes -> {"absent", "live", "gone"}] /\ status \in [Nodes -> IndexStatus]
    BY DEF Init, IndexStatus
<1>4. stamped \in [Nodes -> BOOLEAN]
    BY DEF Init
<1> QED
    BY <1>1, <1>2, <1>3, <1>4, BoundAssumption
    DEF Init, TypeOK, Pc, IndexStatus, JobState

\* What a status write and the end of a run do to the types.
LEMMA SetStatusType ==
    ASSUME TypeOK, NEW n, NEW s \in IndexStatus, NEW b \in BOOLEAN, SetStatus(n, s, b)
    PROVE  status' \in [Nodes -> IndexStatus] /\ stamped' \in [Nodes -> BOOLEAN]
BY DEF SetStatus, TypeOK

\* A failed attempt keeps jobs and retries in their ranges.
LEMMA AttemptFailedType ==
    ASSUME TypeOK, NEW j, AttemptFailed(j)
    PROVE  job' \in [Jobs -> JobState] /\ left' \in [Jobs -> 0 .. RetryLimit]
<1>1. job' \in [Jobs -> JobState]
    BY DEF AttemptFailed, TypeOK, JobState
<1>2. \A k \in Nat : (IF k > 0 THEN k - 1 ELSE 0) \in Nat /\ (IF k > 0 THEN k - 1 ELSE 0) =< k
    OBVIOUS
<1>3. left' \in [Jobs -> 0 .. RetryLimit]
    <2>1. \A k \in 0 .. RetryLimit : (IF k > 0 THEN k - 1 ELSE 0) \in 0 .. RetryLimit
        BY <1>2, BoundAssumption
    <2> QED
        BY <2>1 DEF AttemptFailed, TypeOK
<1> QED
    BY <1>1, <1>3

\* A worker that returns frees itself and ends or requeues its job.
LEMMA ReturnType ==
    ASSUME TypeOK, NEW p \in Procs, NEW ok \in BOOLEAN, Return(p, ok)
    PROVE  /\ pc' \in [Procs -> Pc]
           /\ on' \in [Procs -> Nodes \cup {NoNode}]
           /\ val' \in [Procs -> Contents \cup {NoContent}]
           /\ job' \in [Jobs -> JobState]
           /\ left' \in [Jobs -> 0 .. RetryLimit]
           /\ held' \in Jobs \cup {NoJob}
<1>1. CASE p = Worker /\ ok
    BY <1>1 DEF Return, TypeOK, Goto, Pc, JobState
<1>2. CASE p = Worker /\ ~ok
    <2>1. AttemptFailed(held)
        BY <1>2 DEF Return
    <2> QED
        BY <1>2, <2>1, AttemptFailedType DEF Return, TypeOK, Goto, Pc
<1>3. CASE p # Worker
    BY <1>3 DEF Return, TypeOK, Goto, Pc, jobVars
<1> QED
    BY <1>1, <1>2, <1>3

\* What indexNode writes when it catches an error is typed.
LEMMA CatchType ==
    ASSUME TypeOK, NEW p \in Procs, Catch(p)
    PROVE  TypeOK'
<1>1. status' \in [Nodes -> IndexStatus] /\ stamped' \in [Nodes -> BOOLEAN]
    BY SetStatusType DEF Catch, IndexStatus
<1>2. Return(p, FALSE)
    BY DEF Catch
<1> QED
    BY <1>1, <1>2, ReturnType DEF Catch, TypeOK

\* Every step of the system keeps the types.
LEMMA TypeStep == TypeInv /\ [Next]_vars => TypeOK'
<1> SUFFICES ASSUME TypeOK, Placed, [Next]_vars PROVE TypeOK'
    BY DEF TypeInv
<1> USE DEF Goto, nodeVars, procVars, jobVars
<1>1. ASSUME NEW r \in Requests, NEW n \in Nodes, NEW c \in Contents, StartSave(r, n, c)
      PROVE  TypeOK'
    BY <1>1 DEF StartSave, TypeOK, Pc, WritePc
<1>2. ASSUME NEW r \in Requests, NEW n \in Nodes, NEW c \in Contents, StartCreate(r, n, c)
      PROVE  TypeOK'
    BY <1>2 DEF StartCreate, TypeOK, Pc, WritePc, IndexStatus
<1>3. ASSUME NEW r \in Requests, NEW n \in Nodes, StartDelete(r, n)
      PROVE  TypeOK'
    BY <1>3 DEF StartDelete, TypeOK, Pc, DeletePc
<1>4. ASSUME NEW r \in Requests, NEW n \in Nodes, StartValidate(r, n)
      PROVE  TypeOK'
    BY <1>4 DEF StartValidate, TypeOK, Pc
<1>5. ASSUME NEW r \in Requests, NEW op, StartSweep(r, op)
      PROVE  TypeOK'
    BY <1>5 DEF StartSweep, TypeOK, Pc
<1>6. ASSUME NEW r \in Requests, Put(r) PROVE TypeOK'
    BY <1>6 DEF Put, TypeOK, Pc, WritePc
<1>7. ASSUME NEW r \in Requests, Update(r) PROVE TypeOK'
    BY <1>7 DEF Update, TypeOK, Pc, WritePc, IndexStatus
<1>8. ASSUME NEW r \in Requests, Mirror(r) PROVE TypeOK'
    BY <1>8 DEF Mirror, TypeOK, Pc, WritePc
<1>9. ASSUME NEW r \in Requests, MirrorFails(r) PROVE TypeOK'
    BY <1>9 DEF MirrorFails, TypeOK, Pc
<1>10. ASSUME NEW r \in Requests, Meta(r) PROVE TypeOK'
    <2>1. status' \in [Nodes -> IndexStatus] /\ stamped' \in [Nodes -> BOOLEAN]
        BY <1>10, SetStatusType DEF Meta, IndexStatus
    <2> QED
        BY <1>10, <2>1 DEF Meta, TypeOK, Pc, IndexPc, JobState
<1>11. ASSUME NEW j \in Jobs, Send(j) PROVE TypeOK'
    BY <1>11 DEF Send, Enqueued, TypeOK, JobState
<1>12. ASSUME NEW j \in Jobs, SendFails(j) PROVE TypeOK'
    BY <1>12 DEF SendFails, TypeOK, JobState, Pc
<1>13. ASSUME NEW r \in Requests, Unlink(r) PROVE TypeOK'
    BY <1>13 DEF Unlink, TypeOK, Pc, DeletePc
<1>14. ASSUME NEW r \in Requests, DeleteBlob(r) PROVE TypeOK'
    BY <1>14 DEF DeleteBlob, TypeOK, Pc, DeletePc
<1>15. ASSUME NEW r \in Requests, DeleteRow(r) PROVE TypeOK'
    BY <1>15 DEF DeleteRow, TypeOK, Pc
<1>16. ASSUME NEW r \in Requests, WriteValidation(r) PROVE TypeOK'
    <2>1. seen[r] \in IndexStatus
        BY DEF TypeOK
    <2>2. status' \in [Nodes -> IndexStatus] /\ stamped' \in [Nodes -> BOOLEAN]
        BY <1>16, <2>1, SetStatusType DEF WriteValidation
    <2> QED
        BY <1>16, <2>2 DEF WriteValidation, TypeOK, Pc
<1>17. ASSUME NEW r \in Requests, NEW n \in Nodes, SweepSend(r, n) PROVE TypeOK'
    BY <1>17 DEF SweepSend, Enqueued, TypeOK, Pc, JobState
<1>18. ASSUME NEW j \in Jobs, Fetch(j) PROVE TypeOK'
    BY <1>18 DEF Fetch, TypeOK, Pc, IndexPc, JobState
<1>19. ASSUME NEW j \in Jobs, Expire(j) PROVE TypeOK'
    BY <1>19, AttemptFailedType DEF Expire, TypeOK
<1>20. ASSUME NEW j \in Jobs, RetryFailedJob(j) \/ DeleteFailedJob(j) PROVE TypeOK'
    BY <1>20 DEF RetryFailedJob, DeleteFailedJob, TypeOK, JobState
<1>20a. ASSUME NEW p \in Procs, IndexMark(p) PROVE TypeOK'
    <2>1. status' \in [Nodes -> IndexStatus] /\ stamped' \in [Nodes -> BOOLEAN]
        BY <1>20a, SetStatusType DEF IndexMark, IndexStatus
    <2> QED
        BY <1>20a, <2>1 DEF IndexMark, TypeOK, Pc, IndexPc
<1>21. ASSUME NEW p \in Procs, IndexStart(p) PROVE TypeOK'
    <2>1. CASE Live(on[p]) /\ hash[on[p]] # NoContent
        BY <1>21, <2>1 DEF IndexStart, TypeOK, Pc, IndexPc
    <2>2. CASE ~(Live(on[p]) /\ hash[on[p]] # NoContent)
        BY <1>21, <2>2, ReturnType DEF IndexStart, TypeOK
    <2> QED
        BY <2>1, <2>2
<1>22. ASSUME NEW p \in Procs, IndexRead(p) PROVE TypeOK'
    <2>1. CASE blob[on[p]] # NoContent
        <3>1. on[p] \in Nodes
            BY <1>22 DEF IndexRead, Placed, IndexPc
        <3> QED
            BY <1>22, <2>1, <3>1 DEF IndexRead, TypeOK, Pc, IndexPc
    <2>2. CASE blob[on[p]] = NoContent
        BY <1>22, <2>2, CatchType DEF IndexRead
    <2> QED
        BY <1>22, <2>1, <2>2 DEF IndexRead, TypeOK
<1>23. ASSUME NEW p \in Procs, IndexDelete(p) PROVE TypeOK'
    BY <1>23 DEF IndexDelete, TypeOK, Pc, IndexPc
<1>24. ASSUME NEW p \in Procs, IndexInsert(p) PROVE TypeOK'
    <2>1. CASE ~Collides(on[p], val[p])
        <3>1. Rows(val[p]) \in SUBSET (Nat \X Contents)
            BY RowsType DEF TypeOK
        <3>2. chunks' \in [Nodes -> SUBSET (Nat \X Contents)]
            BY <1>24, <2>1, <3>1 DEF IndexInsert, TypeOK
        <3>3. pc' \in [Procs -> Pc]
            BY <1>24, <2>1 DEF IndexInsert, TypeOK, Pc, IndexPc
        <3> QED
            BY <1>24, <2>1, <3>2, <3>3 DEF IndexInsert, TypeOK
    <2>2. CASE Collides(on[p], val[p])
        BY <1>24, <2>2, CatchType DEF IndexInsert
    <2> QED
        BY <2>1, <2>2
<1>25. ASSUME NEW p \in Procs, IndexCommit(p) PROVE TypeOK'
    <2>1. status' \in [Nodes -> IndexStatus] /\ stamped' \in [Nodes -> BOOLEAN]
        BY <1>25, SetStatusType DEF IndexCommit, IndexStatus
    <2> QED
        BY <1>25, <2>1 DEF IndexCommit, TypeOK, Pc, IndexPc
<1>26. ASSUME NEW p \in Procs, IndexStats(p) PROVE TypeOK'
    <2>1. CASE p = Worker
        BY <1>26, <2>1 DEF IndexStats, TypeOK, Pc, IndexPc
    <2>2. CASE p # Worker
        BY <1>26, <2>2, ReturnType DEF IndexStats, TypeOK
    <2> QED
        BY <2>1, <2>2
<1>27. ASSUME NEW p \in Procs, IndexThrows(p) PROVE TypeOK'
    BY <1>27, CatchType DEF IndexThrows, IndexEscapes
<1>27a. ASSUME NEW p \in Procs, IndexEscapes(p) PROVE TypeOK'
    <2>1. on[p] \in Nodes
        BY <1>27a DEF IndexEscapes, Placed
    <2>2. unmarked' \subseteq Nodes
        BY <1>27a, <2>1 DEF IndexEscapes, TypeOK
    <2>3. Return(p, FALSE)
        BY <1>27a DEF IndexEscapes
    <2> QED
        BY <1>27a, <2>2, <2>3, ReturnType DEF IndexEscapes, TypeOK
<1>28. ASSUME NEW ok \in BOOLEAN, FinishJob(ok) PROVE TypeOK'
    <2>1. Return(Worker, ok) /\ Worker \in Procs
        BY <1>28 DEF FinishJob
    <2>2. /\ pc' \in [Procs -> Pc]
          /\ on' \in [Procs -> Nodes \cup {NoNode}]
          /\ val' \in [Procs -> Contents \cup {NoContent}]
          /\ job' \in [Jobs -> JobState]
          /\ left' \in [Jobs -> 0 .. RetryLimit]
          /\ held' \in Jobs \cup {NoJob}
        BY <2>1, ReturnType
    <2> QED
        BY <1>28, <2>2 DEF FinishJob, TypeOK
<1>29. ASSUME Crash PROVE TypeOK'
    <2>1. crashes' \in 0 .. MaxCrashes
        BY <1>29, BoundAssumption DEF Crash, TypeOK
    <2>2. pc' \in [Procs -> Pc]
        BY <1>29 DEF Crash, TypeOK, Pc
    <2>3. job' \in [Jobs -> JobState]
        BY <1>29 DEF Crash, TypeOK, JobState
    <2>4. on' \in [Procs -> Nodes \cup {NoNode}] /\ val' \in [Procs -> Contents \cup {NoContent}]
        BY <1>29 DEF Crash, TypeOK
    <2> QED
        BY <1>29, <2>1, <2>2, <2>3, <2>4 DEF Crash, TypeOK
<1>30. CASE UNCHANGED vars
    BY <1>30 DEF vars, TypeOK
<1>31. ASSUME NEW r \in Requests, Begin(r) PROVE TypeOK'
    BY <1>1, <1>2, <1>3, <1>4, <1>5, <1>31 DEF Begin
<1>32. ASSUME NEW r \in Requests, Continue(r) PROVE TypeOK'
    BY <1>6, <1>7, <1>8, <1>10, <1>13, <1>14, <1>15, <1>16, <1>17, <1>32 DEF Continue
<1>33. ASSUME NEW p \in Procs, Index(p) PROVE TypeOK'
    BY <1>20a, <1>21, <1>22, <1>23, <1>24, <1>25, <1>26, <1>33 DEF Index
<1>34. ASSUME Failure PROVE TypeOK'
    BY <1>9, <1>12, <1>27, <1>27a, <1>28, <1>29, <1>34 DEF Failure
<1>35. ASSUME Operator PROVE TypeOK'
    BY <1>20, <1>35 DEF Operator
<1> QED
    BY <1>11, <1>18, <1>19, <1>28, <1>30, <1>31, <1>32, <1>33, <1>34, <1>35 DEF Next

\* How the end of a run moves the processes.
LEMMA ReturnMoves ==
    ASSUME TypeOK, NEW p \in Procs, NEW ok, Return(p, ok)
    PROVE  /\ pc'[p] \in {"idle", "done"}
           /\ \A q \in Procs \ {p} : pc'[q] = pc[q] /\ on'[q] = on[q]
BY DEF Return, Goto, jobVars, TypeOK

\* Every step keeps a run's node and job where its stage needs them.
LEMMA PlacedStep == TypeInv /\ [Next]_vars => Placed'
<1> SUFFICES ASSUME TypeOK, Placed, [Next]_vars PROVE Placed'
    BY DEF TypeInv
<1> USE DEF Goto, Placed, TypeOK, WritePc, DeletePc, IndexPc
<1>1. ASSUME NEW p \in Procs, NEW ok, Return(p, ok) PROVE Placed'
    BY <1>1, ReturnMoves
<1>2. ASSUME NEW r \in Requests, Begin(r) PROVE Placed'
    BY <1>2 DEF Begin, StartSave, StartCreate, StartDelete, StartValidate, StartSweep
<1>3. ASSUME NEW r \in Requests, Put(r) \/ Update(r) \/ Mirror(r) \/ Meta(r) \/ MirrorFails(r)
      PROVE  Placed'
    BY <1>3 DEF Put, Update, Mirror, Meta, MirrorFails
<1>4. ASSUME NEW r \in Requests,
             Unlink(r) \/ DeleteBlob(r) \/ DeleteRow(r) \/ WriteValidation(r)
      PROVE  Placed'
    BY <1>4 DEF Unlink, DeleteBlob, DeleteRow, WriteValidation
<1>5. ASSUME NEW r \in Requests, NEW n \in Nodes, SweepSend(r, n) PROVE Placed'
    BY <1>5 DEF SweepSend
<1>6. ASSUME NEW j \in Jobs, Send(j) \/ Expire(j) \/ RetryFailedJob(j) \/ DeleteFailedJob(j)
      PROVE  Placed'
    BY <1>6 DEF Send, Expire, RetryFailedJob, DeleteFailedJob, procVars
<1>7. ASSUME NEW j \in Jobs, Fetch(j) \/ SendFails(j) PROVE Placed'
    BY <1>7 DEF Fetch, SendFails
<1>8. ASSUME NEW p \in Procs, Index(p) PROVE Placed'
    <2>1. \/ \E ok \in BOOLEAN : Return(p, ok)
          \/ /\ pc[p] \in IndexPc /\ on' = on
             /\ \E to \in IndexPc : Goto(p, to)
        BY <1>8 DEF Index, IndexStart, IndexMark, IndexRead, IndexDelete, IndexInsert,
                    IndexCommit, IndexStats, Catch
    <2> QED
        BY <1>1, <2>1
<1>9. ASSUME NEW p \in Procs, IndexThrows(p) \/ IndexEscapes(p) PROVE Placed'
    BY <1>1, <1>9 DEF IndexThrows, IndexEscapes, Catch
<1>10. ASSUME NEW ok, FinishJob(ok) PROVE Placed'
    BY <1>1, <1>10 DEF FinishJob
<1>11. ASSUME Crash PROVE Placed'
    BY <1>11 DEF Crash
<1>12. CASE UNCHANGED vars
    BY <1>12 DEF vars, procVars
<1> QED
    BY <1>2, <1>3, <1>4, <1>5, <1>6, <1>7, <1>8, <1>9, <1>10, <1>11, <1>12
    DEF Next, Continue, Failure, Operator

\* Every variable keeps its type in every configuration.
THEOREM TypeCorrect == Spec => []TypeOK
<1>1. Init => TypeInv
    BY TypeInit DEF Init, TypeInv, Placed, WritePc, DeletePc, IndexPc
<1>2. TypeInv /\ [Next]_vars => TypeInv'
    BY TypeStep, PlacedStep DEF TypeInv
<1>3. TypeInv => TypeOK
    BY DEF TypeInv
<1> QED
    BY <1>1, <1>2, <1>3, PTL DEF Spec

-----------------------------------------------------------------------------
(* Chunk rows of one content.                                              *)

\* Two contents that both have chunks collide on ordinal 0.
LEMMA FirstOrdinal ==
    ASSUME NEW c \in Contents \cup {NoContent}
    PROVE  Rows(c) = {} \/ <<0, c>> \in Rows(c)
<1>1. ChunkCount[c] \in Nat
    BY ContentAssumption
<1>2. CASE ChunkCount[c] = 0
    BY <1>2 DEF Rows
<1>3. CASE ChunkCount[c] > 0
    <2>1. 0 \in 0 .. (ChunkCount[c] - 1)
        BY <1>1, <1>3
    <2> QED
        BY <2>1 DEF Rows
<1> QED
    BY <1>1, <1>2, <1>3

\* So an INSERT that the unique index lets through leaves one whole content.
LEMMA InsertWhole ==
    ASSUME NEW n \in Nodes, NEW c \in Contents \cup {NoContent},
           NEW d \in Contents \cup {NoContent},
           chunks[n] = Rows(c), ~Collides(n, d)
    PROVE  \E e \in {c, d} : chunks[n] \cup Rows(d) = Rows(e)
<1>1. CASE Rows(c) = {}
    BY <1>1
<1>2. CASE Rows(d) = {}
    BY <1>2
<1>3. CASE <<0, c>> \in Rows(c) /\ <<0, d>> \in Rows(d)
    <2>1. \E old \in chunks[n], new \in Rows(d) : old[1] = new[1]
        BY <1>3
    <2> QED
        BY <2>1 DEF Collides
<1> QED
    BY <1>1, <1>2, <1>3, FirstOrdinal

\* Only replaceForNode changes chunk rows.
LEMMA ChunkWriters ==
    ASSUME TypeInv, [Next]_vars
    PROVE  \/ chunks' = chunks
           \/ \E p \in Procs : IndexDelete(p)
           \/ \E p \in Procs : IndexInsert(p) /\ ~Collides(on[p], val[p])
<1> USE DEF Catch
<1>1. ASSUME NEW r \in Requests, Begin(r) PROVE chunks' = chunks
    BY <1>1 DEF Begin, StartSave, StartCreate, StartDelete, StartValidate, StartSweep
<1>2. ASSUME NEW r \in Requests, Continue(r) PROVE chunks' = chunks
    BY <1>2 DEF Continue, Put, Update, Mirror, Meta, Unlink, DeleteBlob, DeleteRow,
                WriteValidation, SweepSend
<1>3. ASSUME NEW p \in Procs, Index(p)
      PROVE  \/ chunks' = chunks
             \/ IndexDelete(p)
             \/ IndexInsert(p) /\ ~Collides(on[p], val[p])
    <2>1. CASE IndexStart(p) \/ IndexMark(p) \/ IndexCommit(p) \/ IndexStats(p)
        BY <2>1 DEF IndexStart, IndexMark, IndexCommit, IndexStats
    <2>2. CASE IndexRead(p)
        BY <2>2 DEF IndexRead
    <2>3. CASE IndexInsert(p)
        BY <2>3 DEF IndexInsert
    <2> QED
        BY <1>3, <2>1, <2>2, <2>3 DEF Index
<1>4. CASE Failure
    BY <1>4 DEF Failure, MirrorFails, SendFails, IndexThrows, IndexEscapes, FinishJob, Crash
<1>5. CASE Operator
    BY <1>5 DEF Operator, RetryFailedJob, DeleteFailedJob
<1>6. ASSUME NEW j \in Jobs, Send(j) \/ Fetch(j) \/ Expire(j) PROVE chunks' = chunks
    BY <1>6 DEF Send, Fetch, Expire
<1>7. CASE FinishJob(TRUE)
    BY <1>7 DEF FinishJob
<1>8. CASE UNCHANGED vars
    BY <1>8 DEF vars
<1> QED
    BY <1>1, <1>2, <1>3, <1>4, <1>5, <1>6, <1>7, <1>8 DEF Next

\* Every step keeps chunk rows of one content.
LEMMA WholeStep == TypeInv /\ WholeVersion /\ [Next]_vars => WholeVersion'
<1> SUFFICES ASSUME TypeInv, WholeVersion, [Next]_vars, NEW n \in Nodes
             PROVE  chunks'[n] = {} \/ \E c \in Contents : chunks'[n] = Rows(c)
    BY DEF WholeVersion
<1>1. CASE chunks' = chunks
    BY <1>1 DEF WholeVersion
<1>2. ASSUME NEW p \in Procs, IndexDelete(p)
      PROVE  chunks'[n] \in {{}, chunks[n]}
    BY <1>2 DEF IndexDelete, TypeInv, TypeOK
<1>3. ASSUME NEW p \in Procs, IndexInsert(p), ~Collides(on[p], val[p])
      PROVE  chunks'[n] = {} \/ \E c \in Contents : chunks'[n] = Rows(c)
    <2>1. CASE on[p] # n
        BY <1>3, <2>1 DEF IndexInsert, TypeInv, TypeOK, WholeVersion
    <2>2. CASE on[p] = n
        <3>1. val[p] \in Contents \cup {NoContent} /\ chunks'[n] = chunks[n] \cup Rows(val[p])
            BY <1>3, <2>2 DEF IndexInsert, TypeInv, TypeOK
        <3>2. PICK c \in Contents \cup {NoContent} : chunks[n] = Rows(c)
            BY RowsType DEF WholeVersion
        <3>3. \E e \in {c, val[p]} : chunks'[n] = Rows(e)
            BY <1>3, <2>2, <3>1, <3>2, InsertWhole
        <3> QED
            BY <3>1, <3>2, <3>3, RowsType
    <2> QED
        BY <2>1, <2>2
<1>4. chunks[n] = {} \/ \E c \in Contents : chunks[n] = Rows(c)
    BY DEF WholeVersion
<1> QED
    BY <1>1, <1>2, <1>3, <1>4, ChunkWriters

\* However many runs of indexNode overlap, and wherever each is cut off, the
\* chunk rows of a node are none or all of those of one content.
THEOREM WholeVersionHolds == Spec => []WholeVersion
<1>1. Init => TypeInv /\ WholeVersion
    <2>1. Init => TypeInv
        BY TypeInit DEF Init, TypeInv, Placed, WritePc, DeletePc, IndexPc
    <2>2. Init => WholeVersion
        BY TypeInit, RowsType DEF Init, WholeVersion, TypeOK
    <2> QED
        BY <2>1, <2>2
<1>2. TypeInv /\ WholeVersion /\ [Next]_vars => (TypeInv /\ WholeVersion)'
    BY TypeStep, PlacedStep, WholeStep DEF TypeInv
<1> QED
    BY <1>1, <1>2, PTL DEF Spec
-----------------------------------------------------------------------------
(* No content change is forgotten.                                         *)

\* OKF bootstrap has not run: no request indexes beside the worker.
NoBootstrap == \A b \in Bootstraps : pc[b] = "idle"

\* Nothing is stored, sent or being done for a node that has no row yet.
Known(n) == row[n] \in {"live", "gone"}

Born ==
    /\ \A n \in Nodes : ~Known(n) => blob[n] = NoContent /\ chunks[n] = {}
    /\ \A r \in Requests : pc[r] \in WritePc \cup DeletePc => Known(on[r])
    /\ \A r \in Requests, n \in Nodes : job[<<r, n>>] # "none" => Known(n)
    /\ \A r \in Requests : \A n \in todo[r] : Known(n)

\* A request has no job before it has sent one, and a background send that is
\* under way belongs to a request that is past its writes.
Sends ==
    \A r \in Requests, n \in Nodes :
        /\ pc[r] \in {"idle"} \cup WritePc => job[<<r, n>>] = "none"
        /\ pc[r] = "sweep" /\ n \in todo[r] => job[<<r, n>>] = "none"
        /\ job[<<r, n>>] = "sending" => on[r] = n /\ pc[r] \in {"done", "aborted"}

\* The worker is idle, or runs the one active job it holds.
Run ==
    \/ pc[Worker] = "idle" /\ held = NoJob
    \/ /\ pc[Worker] \in IndexPc
       /\ held \in Jobs
       /\ job[held] = "active"
       /\ on[Worker] = held[2]

\* What the worker has done so far is in the chunk table; if what it read is
\* no longer what is stored, somebody else is owed to the node.
Progress ==
    /\ \A r \in Requests : pc[r] \notin IndexPc
    /\ pc[Worker] = "insert" => chunks[on[Worker]] = {}
    /\ pc[Worker] \in {"commit", "stats", "schedule"}
          => chunks[on[Worker]] = Rows(val[Worker])
    /\ pc[Worker] \in {"delete", "insert"} /\ Live(on[Worker])
          => val[Worker] = blob[on[Worker]] \/ Owed(on[Worker])

\* The inductive invariant.
LostInv == TypeInv /\ Born /\ Sends /\ Run /\ Progress /\ NothingLost

-----------------------------------------------------------------------------
(* What the worker is doing.                                               *)

\* The invariant holds when nothing has been called.
LEMMA LostInit == Init => LostInv
<1> SUFFICES ASSUME Init PROVE LostInv
    OBVIOUS
<1>1. TypeInv
    BY TypeInit DEF Init, TypeInv, Placed, WritePc, DeletePc, IndexPc
<1>2. \A p \in Procs : pc[p] = "idle"
    BY DEF Init
<1>3. \A r \in Requests, n \in Nodes : job[<<r, n>>] = "none"
    BY DEF Init
<1>4. Born
    <2>1. Rows(NoContent) = {}
        BY RowsType
    <2>2. ASSUME NEW n \in Nodes, ~Known(n) PROVE blob[n] = NoContent /\ chunks[n] = {}
        BY <2>1, <2>2 DEF Init, Known
    <2>3. \A r \in Requests : todo[r] = {}
        BY DEF Init
    <2> QED
        BY <1>2, <1>3, <2>2, <2>3 DEF Born, WritePc, DeletePc
<1>5. Sends
    BY <1>2, <1>3 DEF Sends
<1>6. Run /\ Progress
    BY <1>2 DEF Init, Run, Progress, IndexPc
<1>7. NothingLost
    BY DEF Init, NothingLost, Fresh
<1> QED
    BY <1>1, <1>4, <1>5, <1>6, <1>7 DEF LostInv

\* Only the worker runs indexNode, for the active job it holds.
LEMMA WorkerRuns ==
    ASSUME TypeInv, Run, Progress, NEW p \in Procs, pc[p] \in IndexPc
    PROVE  /\ p = Worker
           /\ held \in Jobs /\ job[held] = "active"
           /\ on[Worker] = held[2] /\ on[Worker] \in Nodes
           /\ held[1] \in Requests /\ held = <<held[1], on[Worker]>>
<1>1. p = Worker
    BY DEF Progress
<1>2. held \in Jobs /\ job[held] = "active" /\ on[Worker] = held[2]
    BY <1>1 DEF Run, IndexPc
<1> QED
    BY <1>1, <1>2

\* How a run ends.
LEMMA RunEnds ==
    ASSUME TypeInv, Run, Progress, pc[Worker] \in IndexPc, NEW ok \in BOOLEAN,
           Return(Worker, ok)
    PROVE  /\ pc' = [pc EXCEPT ![Worker] = "idle"]
           /\ on' = [on EXCEPT ![Worker] = NoNode]
           /\ held' = NoJob
           /\ \A j \in Jobs \ {held} : job'[j] = job[j]
           /\ ~ok => job'[held] \in {"queued", "failed"}
           /\ ok => job'[held] = "completed"
<1>1. held \in Jobs
    BY WorkerRuns
<1>2. CASE ok
    BY <1>1, <1>2 DEF Return, Goto, TypeInv, TypeOK
<1>3. CASE ~ok
    BY <1>1, <1>3 DEF Return, AttemptFailed, Goto, TypeInv, TypeOK
<1> QED
    BY <1>2, <1>3

-----------------------------------------------------------------------------
(* Frames.                                                                 *)

\* What is owed to a node stays owed unless a job or a request stops owing it.
LEMMA OwedStays ==
    ASSUME NEW n \in Nodes, Owed(n),
           \A r \in Requests :
              <<r, n>> # held /\ job[<<r, n>>] \in OwingJob
                => <<r, n>> # held' /\ job'[<<r, n>>] \in OwingJob,
           \A r \in Requests :
              on[r] = n /\ pc[r] \in OwingPc => on'[r] = n /\ pc'[r] \in OwingPc
    PROVE  Owed(n)'
BY DEF Owed, OwingJob, OwingPc

\* A step that leaves contents, chunks and the worker alone and settles no debt.
LEMMA Calm ==
    ASSUME TypeInv, Run, Progress, NothingLost,
           UNCHANGED <<blob, chunks, held>>,
           pc'[Worker] = pc[Worker], on'[Worker] = on[Worker], val'[Worker] = val[Worker],
           \A r \in Requests : pc'[r] \notin IndexPc,
           \A n \in Nodes : Live(n)' => Live(n) \/ (Fresh(n) /\ (pc[Worker] \in IndexPc => on[Worker] # n)),
           \A n \in Nodes : Live(n)' /\ Owed(n) => Owed(n)'
    PROVE  Progress' /\ NothingLost'
<1>1. pc[Worker] \in IndexPc => on[Worker] \in Nodes
    BY DEF TypeInv, Placed
<1>2. ASSUME NEW n \in Nodes, Live(n)', ~Fresh(n)' PROVE Owed(n)' \/ WorkerOnIt(n)'
    <2>1. Live(n) /\ ~Fresh(n)
        BY <1>2 DEF Fresh
    <2>2. Owed(n) \/ WorkerOnIt(n)
        BY <2>1 DEF NothingLost
    <2>3. WorkerOnIt(n) => WorkerOnIt(n)'
        BY DEF WorkerOnIt
    <2> QED
        BY <1>2, <2>2, <2>3
<1>3. NothingLost'
    BY <1>2 DEF NothingLost
<1>4. ASSUME pc[Worker] \in {"delete", "insert"}, Live(on[Worker])'
      PROVE  (val[Worker] = blob[on[Worker]] \/ Owed(on[Worker]))'
    <2>1. on[Worker] \in Nodes
        BY <1>1, <1>4 DEF IndexPc
    <2>2. Live(on[Worker]) => (val[Worker] = blob[on[Worker]] \/ Owed(on[Worker]))
        BY <1>4 DEF Progress
    <2> QED
        BY <1>4, <2>1, <2>2 DEF IndexPc
<1>5. Progress'
    BY <1>4 DEF Progress
<1> QED
    BY <1>3, <1>5

\* A request on its own touches no job but its own and never the worker.
OnlyRequest(r) ==
    /\ \A q \in Procs \ {r} : pc'[q] = pc[q] /\ on'[q] = on[q] /\ val'[q] = val[q]
    /\ \A j \in Jobs : j[1] # r => job'[j] = job[j]
    /\ held' = held

\* Such a step keeps Run.
LEMMA RequestRun ==
    ASSUME TypeInv, TypeInv', Run, NEW r \in Requests, OnlyRequest(r),
           \A n \in Nodes : job[<<r, n>>] = "active" => job'[<<r, n>>] = "active"
    PROVE  Run'
<1>1. Worker # r
    BY ProcAssumption
<1>2. pc'[Worker] = pc[Worker] /\ on'[Worker] = on[Worker] /\ held' = held
    BY <1>1 DEF OnlyRequest
<1>3. ASSUME held \in Jobs, job[held] = "active" PROVE job'[held] = "active"
    BY <1>3 DEF OnlyRequest
<1> QED
    BY <1>2, <1>3 DEF Run

\* A step of a request that has no job and sends none.
LEMMA RequestSteps ==
    ASSUME LostInv, TypeInv', NEW r \in Requests, OnlyRequest(r), UNCHANGED job,
           pc'[r] \notin IndexPc,
           pc[r] \in OwingPc => pc'[r] \in OwingPc /\ on'[r] = on[r]
    PROVE  Run' /\ \A n \in Nodes : Owed(n) => Owed(n)'
<1>1. Run'
    BY RequestRun DEF LostInv
<1>2. ASSUME NEW n \in Nodes, Owed(n) PROVE Owed(n)'
    <2>1. ASSUME NEW q \in Requests, on[q] = n, pc[q] \in OwingPc
          PROVE  on'[q] = n /\ pc'[q] \in OwingPc
        BY <2>1 DEF OnlyRequest
    <2> QED
        BY <1>2, <2>1, OwedStays DEF OnlyRequest
<1> QED
    BY <1>1, <1>2

\* What a step of request r has to show to keep Sends ...
LEMMA SendsFrame ==
    ASSUME Sends, NEW r \in Requests, OnlyRequest(r),
           \A q \in Requests \ {r} : todo'[q] = todo[q],
           \A n \in Nodes :
              /\ pc'[r] \in {"idle"} \cup WritePc => job'[<<r, n>>] = "none"
              /\ pc'[r] = "sweep" /\ n \in todo'[r] => job'[<<r, n>>] = "none"
              /\ job'[<<r, n>>] = "sending" => on'[r] = n /\ pc'[r] \in {"done", "aborted"}
    PROVE  Sends'
<1> SUFFICES ASSUME NEW q \in Requests, NEW n \in Nodes
             PROVE  /\ pc'[q] \in {"idle"} \cup WritePc => job'[<<q, n>>] = "none"
                    /\ pc'[q] = "sweep" /\ n \in todo'[q] => job'[<<q, n>>] = "none"
                    /\ job'[<<q, n>>] = "sending"
                          => on'[q] = n /\ pc'[q] \in {"done", "aborted"}
    BY DEF Sends
<1>1. CASE q # r
    BY <1>1 DEF OnlyRequest, Sends
<1> QED
    BY <1>1

\* What every step has to keep, next to the types.
Kept == Born' /\ Sends' /\ Run' /\ Progress' /\ NothingLost'

\* A call that begins: save, delete or validation of a live node.
LEMMA BeginKept ==
    ASSUME LostInv, TypeInv', NEW r \in Requests, NEW n \in Nodes, Live(n),
           pc[r] = "idle", Goto(r, "put") \/ Goto(r, "unlink") \/ Goto(r, "probe"),
           on' = [on EXCEPT ![r] = n],
           \A q \in Procs \ {r} : val'[q] = val[q],
           UNCHANGED <<row, blob, chunks, todo, jobVars>>
    PROVE  Kept
<1> USE DEF jobVars, Goto
<1>1. /\ pc'[r] \in {"put", "unlink", "probe"} /\ on'[r] = n
      /\ \A q \in Procs \ {r} : pc'[q] = pc[q] /\ on'[q] = on[q] /\ val'[q] = val[q]
    BY DEF LostInv, TypeInv, TypeOK
<1>2. OnlyRequest(r)
    BY <1>1 DEF OnlyRequest
<1>3. pc'[r] \notin IndexPc /\ pc[r] \notin OwingPc
    BY <1>1 DEF IndexPc, OwingPc, WritePc
<1>4. Run' /\ \A m \in Nodes : Owed(m) => Owed(m)'
    BY <1>2, <1>3, RequestSteps
<1>5. Worker # r
    BY ProcAssumption
<1>6. Progress' /\ NothingLost'
    <2>1. \A q \in Requests : pc'[q] \notin IndexPc
        BY <1>1, <1>3 DEF LostInv, Progress
    <2> QED
        BY <1>1, <1>4, <1>5, <2>1, Calm DEF LostInv, Live
<1>7. Born'
    BY <1>1 DEF LostInv, Born, Known, Live
<1>8. Sends'
    <2>1. \A m \in Nodes : job[<<r, m>>] = "none"
        BY <1>1 DEF LostInv, Sends
    <2> QED
        BY <1>1, <1>2, <2>1, SendsFrame DEF LostInv
<1> QED
    BY <1>4, <1>6, <1>7, <1>8 DEF Kept

\* A created node has neither content nor chunks: nothing to be owed.
LEMMA CreateKept ==
    ASSUME LostInv, TypeInv', NEW r \in Requests, NEW n \in Nodes, NEW c \in Contents,
           StartCreate(r, n, c)
    PROVE  Kept
<1> USE DEF jobVars, Goto
<1>1. /\ pc[r] = "idle" /\ pc'[r] = "put" /\ on'[r] = n /\ ~Known(n)
      /\ \A q \in Procs \ {r} : pc'[q] = pc[q] /\ on'[q] = on[q] /\ val'[q] = val[q]
      /\ row' = [row EXCEPT ![n] = "live"]
      /\ UNCHANGED <<blob, chunks, todo, jobVars>>
    BY DEF StartCreate, LostInv, TypeInv, TypeOK, Known
<1>2. OnlyRequest(r)
    BY <1>1 DEF OnlyRequest
<1>3. pc'[r] \notin IndexPc /\ pc[r] \notin OwingPc
    BY <1>1 DEF IndexPc, OwingPc, WritePc
<1>4. Run' /\ \A m \in Nodes : Owed(m) => Owed(m)'
    BY <1>1, <1>2, <1>3, RequestSteps
<1>5. Worker # r
    BY ProcAssumption
<1>6. Fresh(n)
    <2>1. blob[n] = NoContent /\ chunks[n] = {}
        BY <1>1 DEF LostInv, Born
    <2> QED
        BY <2>1, RowsType DEF Fresh
<1>7. pc[Worker] \in IndexPc => on[Worker] # n
    <2>1. ASSUME pc[Worker] \in IndexPc PROVE Known(on[Worker])
        BY <2>1, WorkerRuns DEF LostInv, Born
    <2> QED
        BY <1>1, <2>1
<1>8. Progress' /\ NothingLost'
    <2>1. \A q \in Requests : pc'[q] \notin IndexPc
        BY <1>1, <1>3 DEF LostInv, Progress
    <2>2. \A m \in Nodes \ {n} : row'[m] = row[m]
        BY <1>1 DEF LostInv, TypeInv, TypeOK
    <2> QED
        BY <1>1, <1>4, <1>5, <1>6, <1>7, <2>1, <2>2, Calm DEF LostInv, Live
<1>9. Born'
    <2>1. \A m \in Nodes : Known(m) => Known(m)'
        BY <1>1 DEF LostInv, TypeInv, TypeOK, Known
    <2>2. Known(n)'
        BY <1>1 DEF LostInv, TypeInv, TypeOK, Known
    <2>3. \A q \in Requests : pc[q] \in WritePc \cup DeletePc => on[q] \in Nodes
        BY DEF LostInv, TypeInv, Placed
    <2>4. \A q \in Requests : todo[q] \subseteq Nodes
        BY DEF LostInv, TypeInv, TypeOK
    <2> QED
        BY <1>1, <2>1, <2>2, <2>3, <2>4 DEF LostInv, Born
<1>10. Sends'
    <2>1. \A m \in Nodes : job[<<r, m>>] = "none"
        BY <1>1 DEF LostInv, Sends
    <2> QED
        BY <1>1, <1>2, <2>1, SendsFrame DEF LostInv
<1> QED
    BY <1>4, <1>8, <1>9, <1>10 DEF Kept

\* ... and Born.
LEMMA BornFrame ==
    ASSUME TypeInv, Born, NEW r \in Requests, OnlyRequest(r),
           \A n \in Nodes : Known(n) => Known(n)',
           \A n \in Nodes : blob'[n] # blob[n] => Known(n),
           chunks' = chunks,
           \A q \in Requests \ {r} : todo'[q] = todo[q],
           pc'[r] \in WritePc \cup DeletePc => Known(on[r]) /\ on'[r] = on[r],
           \A n \in Nodes : job'[<<r, n>>] # "none" => Known(n),
           \A n \in Nodes : n \in todo'[r] => Known(n),
           TypeInv'
    PROVE  Born'
<1>1. ASSUME NEW n \in Nodes, ~Known(n)' PROVE blob'[n] = NoContent /\ chunks'[n] = {}
    BY <1>1 DEF Born
<1>2. ASSUME NEW q \in Requests, pc'[q] \in WritePc \cup DeletePc PROVE Known(on[q])'
    <2>1. on'[q] \in Nodes
        BY <1>2 DEF TypeInv, Placed
    <2>2. CASE q # r
        BY <1>2, <2>1, <2>2 DEF OnlyRequest, Born
    <2>3. CASE q = r
        BY <1>2, <2>1, <2>3
    <2> QED
        BY <2>2, <2>3
<1>3. ASSUME NEW q \in Requests, NEW n \in Nodes, job'[<<q, n>>] # "none" PROVE Known(n)'
    BY <1>3 DEF OnlyRequest, Born
<1>4. ASSUME NEW q \in Requests, NEW n \in todo'[q] PROVE Known(n)'
    <2>1. n \in Nodes
        BY DEF TypeInv, TypeOK
    <2> QED
        BY <1>4, <2>1 DEF Born
<1> QED
    BY <1>1, <1>2, <1>3, <1>4 DEF Born

\* A step inside a call that changes no content, row or job.
LEMMA ContinueKept ==
    ASSUME LostInv, TypeInv', NEW r \in Requests, NEW to, Goto(r, to),
           \/ pc[r] = "update" /\ to \in {"mirror", "aborted"}
           \/ pc[r] = "mirror" /\ to \in {"meta", "aborted"}
           \/ pc[r] = "unlink" /\ to = "blobdel"
           \/ pc[r] = "probe" /\ to = "done",
           UNCHANGED <<row, blob, chunks, on, val, todo, jobVars>>
    PROVE  Kept
<1> USE DEF jobVars, Goto
<1>1. pc'[r] = to /\ \A q \in Procs \ {r} : pc'[q] = pc[q]
    BY DEF LostInv, TypeInv, TypeOK
<1>2. OnlyRequest(r)
    BY <1>1 DEF OnlyRequest
<1>3. pc'[r] \notin IndexPc /\ (pc[r] \in OwingPc => pc'[r] \in OwingPc)
    BY <1>1 DEF IndexPc, OwingPc, WritePc
<1>4. Run' /\ \A m \in Nodes : Owed(m) => Owed(m)'
    BY <1>2, <1>3, RequestSteps
<1>5. Worker # r
    BY ProcAssumption
<1>6. Progress' /\ NothingLost'
    <2>1. \A q \in Requests : pc'[q] \notin IndexPc
        BY <1>1, <1>3 DEF LostInv, Progress
    <2> QED
        BY <1>1, <1>4, <1>5, <2>1, Calm DEF LostInv, Live
<1>7. Born'
    <2>1. pc'[r] \in WritePc \cup DeletePc => pc[r] \in WritePc \cup DeletePc
        BY <1>1 DEF WritePc, DeletePc
    <2> QED
        BY <1>2, <2>1, BornFrame DEF LostInv, Born, Known
<1>8. Sends'
    <2>1. \A n \in Nodes : job[<<r, n>>] # "sending"
        BY DEF LostInv, Sends
    <2>2. pc'[r] \in {"idle"} \cup WritePc => pc[r] \in {"idle"} \cup WritePc
        BY <1>1 DEF WritePc
    <2>3. pc'[r] # "sweep"
        BY <1>1
    <2>4. ASSUME pc'[r] \in {"idle"} \cup WritePc, NEW n \in Nodes
          PROVE  job'[<<r, n>>] = "none"
        BY <2>2, <2>4 DEF LostInv, Sends
    <2>5. \A n \in Nodes : job'[<<r, n>>] # "sending"
        BY <2>1
    <2>6. \A q \in Requests \ {r} : todo'[q] = todo[q]
        OBVIOUS
    <2> QED
        BY <1>2, <2>3, <2>4, <2>5, <2>6, SendsFrame DEF LostInv
<1> QED
    BY <1>4, <1>6, <1>7, <1>8 DEF Kept

\* Storing new content, or removing it, leaves the request in debt.
LEMMA StoreKept ==
    ASSUME LostInv, TypeInv', NEW r \in Requests,
           \/ pc[r] = "put" /\ Goto(r, "update")
           \/ pc[r] = "blobdel" /\ Goto(r, "rowdel"),
           \A n \in Nodes \ {on[r]} : blob'[n] = blob[n],
           UNCHANGED <<row, chunks, on, val, todo, jobVars>>
    PROVE  Kept
<1> USE DEF jobVars, Goto
<1>1. /\ pc'[r] \in OwingPc /\ on'[r] = on[r]
      /\ \/ pc[r] = "put" /\ pc'[r] = "update"
         \/ pc[r] = "blobdel" /\ pc'[r] = "rowdel"
      /\ \A q \in Procs \ {r} : pc'[q] = pc[q]
    BY DEF LostInv, TypeInv, TypeOK, OwingPc, WritePc
<1>2. OnlyRequest(r)
    BY <1>1 DEF OnlyRequest
<1>3. pc'[r] \notin IndexPc /\ (pc[r] \in OwingPc => pc'[r] \in OwingPc)
    BY <1>1 DEF IndexPc
<1>4. Run' /\ \A m \in Nodes : Owed(m) => Owed(m)'
    BY <1>1, <1>2, <1>3, RequestSteps
<1>5. Worker # r
    BY ProcAssumption
<1>6. Owed(on[r])'
    BY <1>1 DEF Owed, OwingJob, OwingPc
<1>7. pc'[Worker] = pc[Worker] /\ on'[Worker] = on[Worker] /\ val'[Worker] = val[Worker]
    BY <1>1, <1>5
<1>8. NothingLost'
    <2> SUFFICES ASSUME NEW n \in Nodes, Live(n)', ~Fresh(n)'
                 PROVE  Owed(n)' \/ WorkerOnIt(n)'
        BY DEF NothingLost
    <2>1. CASE n = on[r]
        BY <1>6, <2>1
    <2>2. CASE n # on[r]
        <3>1. Owed(n) \/ WorkerOnIt(n)
            BY <2>2 DEF LostInv, NothingLost, Live, Fresh
        <3>2. WorkerOnIt(n) => WorkerOnIt(n)'
            BY <1>7, <2>2 DEF WorkerOnIt
        <3> QED
            BY <1>4, <3>1, <3>2
    <2> QED
        BY <2>1, <2>2
<1>9. Progress'
    <2>1. \A q \in Requests : pc'[q] \notin IndexPc
        BY <1>1, <1>3 DEF LostInv, Progress
    <2>2. ASSUME pc[Worker] \in {"delete", "insert"}, Live(on[Worker])
          PROVE  (val[Worker] = blob[on[Worker]] \/ Owed(on[Worker]))'
        <3>1. on[Worker] \in Nodes
            BY <2>2 DEF LostInv, TypeInv, Placed, IndexPc
        <3>2. CASE on[Worker] = on[r]
            BY <1>6, <1>7, <3>2
        <3>3. CASE on[Worker] # on[r]
            <4>1. val[Worker] = blob[on[Worker]] \/ Owed(on[Worker])
                BY <2>2 DEF LostInv, Progress
            <4> QED
                BY <1>4, <1>7, <3>1, <3>3, <4>1
        <3> QED
            BY <3>2, <3>3
    <2> QED
        BY <1>7, <2>1, <2>2 DEF LostInv, Progress, Live
<1>10. Born'
    <2>1. pc[r] \in WritePc \cup DeletePc
        BY DEF WritePc, DeletePc
    <2> QED
        BY <1>1, <1>2, <2>1, BornFrame DEF LostInv, Born, Known
<1>11. Sends'
    <2>1. \A n \in Nodes : job[<<r, n>>] # "sending"
        <3>1. pc[r] \notin {"done", "aborted"}
            OBVIOUS
        <3> QED
            BY <3>1 DEF LostInv, Sends
    <2>2. pc'[r] \in {"idle"} \cup WritePc => pc[r] \in {"idle"} \cup WritePc
        BY <1>1 DEF WritePc
    <2>3. pc'[r] # "sweep"
        BY <1>1
    <2>4. ASSUME pc'[r] \in {"idle"} \cup WritePc, NEW n \in Nodes
          PROVE  job'[<<r, n>>] = "none"
        BY <2>2, <2>4 DEF LostInv, Sends
    <2>5. \A n \in Nodes : job'[<<r, n>>] # "sending"
        BY <2>1
    <2>6. \A q \in Requests \ {r} : todo'[q] = todo[q]
        OBVIOUS
    <2> QED
        BY <1>2, <2>3, <2>4, <2>5, <2>6, SendsFrame DEF LostInv
<1> QED
    BY <1>4, <1>8, <1>9, <1>10, <1>11 DEF Kept

\* The request's own debt passes to the job it sends.
LEMMA MetaKept ==
    ASSUME LostInv, TypeInv', NoBootstrap, NEW r \in Requests, Meta(r)
    PROVE  Kept
<1> USE DEF Goto
<1>1. /\ pc[r] = "meta" /\ pc'[r] = "done" /\ on' = on
      /\ \A q \in Procs \ {r} : pc'[q] = pc[q] /\ val'[q] = val[q]
      /\ \A j \in Jobs \ {<<r, on[r]>>} : job'[j] = job[j]
      /\ on[r] \in Nodes /\ job'[<<r, on[r]>>] = "sending"
      /\ UNCHANGED <<row, blob, chunks, todo, held>>
    <2>1. on[r] \in Nodes /\ r \notin Bootstraps
        BY DEF Meta, LostInv, TypeInv, Placed, WritePc, NoBootstrap
    <2> QED
        BY <2>1 DEF Meta, LostInv, TypeInv, TypeOK
<1>2. OnlyRequest(r)
    BY <1>1 DEF OnlyRequest
<1>3. Worker # r
    BY ProcAssumption
<1>4. \A n \in Nodes : job[<<r, n>>] = "none"
    BY <1>1 DEF LostInv, Sends, WritePc
<1>5. Run'
    BY <1>1, <1>2, <1>4, RequestRun DEF LostInv
<1>6. ASSUME NEW n \in Nodes, n = on[r] PROVE Owed(n)'
    <2>1. <<r, n>> # held
        BY <1>1, <1>4, ProcAssumption DEF LostInv, Run
    <2> QED
        BY <1>1, <1>6, <2>1 DEF Owed, OwingJob, OwingPc
<1>7. ASSUME NEW n \in Nodes, Owed(n) PROVE Owed(n)'
    <2>1. CASE n = on[r]
        BY <1>6, <2>1
    <2>2. CASE n # on[r]
        <3>1. \A q \in Requests : held' = held /\ job'[<<q, n>>] = job[<<q, n>>]
            BY <1>1, <2>2
        <3>2. \A q \in Requests : on[q] = n => on'[q] = n /\ pc'[q] = pc[q]
            BY <1>1, <2>2
        <3> QED
            BY <1>7, <3>1, <3>2, OwedStays
    <2> QED
        BY <2>1, <2>2
<1>8. Progress' /\ NothingLost'
    <2>1. \A q \in Requests : pc'[q] \notin IndexPc
        BY <1>1 DEF LostInv, Progress, IndexPc
    <2> QED
        BY <1>1, <1>3, <1>7, <2>1, Calm DEF LostInv, Live
<1>9. Born'
    <2>1. Known(on[r])
        BY <1>1 DEF LostInv, Born, WritePc
    <2>2. \A n \in Nodes : job'[<<r, n>>] # "none" => Known(n)
        BY <1>1, <1>4, <2>1
    <2>3. pc'[r] \notin WritePc \cup DeletePc
        BY <1>1 DEF WritePc, DeletePc
    <2> QED
        BY <1>1, <1>2, <2>2, <2>3, BornFrame DEF LostInv, Born, Known
<1>10. Sends'
    <2>1. pc'[r] \notin {"idle", "sweep"} \cup WritePc
        BY <1>1 DEF WritePc
    <2>2. \A n \in Nodes : job'[<<r, n>>] = "sending" => on'[r] = n /\ pc'[r] = "done"
        BY <1>1, <1>4
    <2> QED
        BY <1>1, <1>2, <2>1, <2>2, SendsFrame DEF LostInv
<1> QED
    BY <1>5, <1>8, <1>9, <1>10 DEF Kept

\* Nothing is owed to a node whose row is gone.
LEMMA DeleteRowKept ==
    ASSUME LostInv, TypeInv', NEW r \in Requests, DeleteRow(r)
    PROVE  Kept
<1> USE DEF Goto, jobVars
<1>1. /\ pc[r] = "rowdel" /\ pc'[r] = "done" /\ on' = on /\ val' = val
      /\ \A q \in Procs \ {r} : pc'[q] = pc[q]
      /\ on[r] \in Nodes /\ row' = [row EXCEPT ![on[r]] = "gone"]
      /\ UNCHANGED <<blob, chunks, todo, job, held>>
    <2>1. on[r] \in Nodes
        BY DEF DeleteRow, LostInv, TypeInv, Placed, DeletePc
    <2> QED
        BY <2>1 DEF DeleteRow, LostInv, TypeInv, TypeOK
<1>2. OnlyRequest(r)
    BY <1>1 DEF OnlyRequest
<1>3. Worker # r
    BY ProcAssumption
<1>4. Run'
    BY <1>1, <1>2, RequestRun DEF LostInv
<1>5. \A n \in Nodes : Live(n)' => Live(n) /\ n # on[r]
    BY <1>1 DEF Live, LostInv, TypeInv, TypeOK
<1>6. ASSUME NEW n \in Nodes, n # on[r], Owed(n) PROVE Owed(n)'
    BY <1>1, <1>6, OwedStays
<1>7. Progress' /\ NothingLost'
    <2>1. \A q \in Requests : pc'[q] \notin IndexPc
        BY <1>1 DEF LostInv, Progress, IndexPc
    <2> QED
        BY <1>1, <1>3, <1>5, <1>6, <2>1, Calm DEF LostInv
<1>8. Born'
    <2>1. \A n \in Nodes : Known(n) => Known(n)'
        BY <1>1 DEF LostInv, TypeInv, TypeOK, Known
    <2>2. pc'[r] \notin WritePc \cup DeletePc
        BY <1>1 DEF WritePc, DeletePc
    <2> QED
        BY <1>1, <1>2, <2>1, <2>2, BornFrame DEF LostInv, Born
<1>9. Sends'
    <2>1. pc'[r] \notin {"idle", "sweep"} \cup WritePc
        BY <1>1 DEF WritePc
    <2>2. \A n \in Nodes : job'[<<r, n>>] # "sending"
        BY <1>1 DEF LostInv, Sends
    <2> QED
        BY <1>1, <1>2, <2>1, <2>2, SendsFrame DEF LostInv
<1> QED
    BY <1>4, <1>7, <1>8, <1>9 DEF Kept

\* A sweep reads the nodes it will enqueue.
LEMMA StartSweepKept ==
    ASSUME LostInv, TypeInv', NEW r \in Requests, NEW op, StartSweep(r, op)
    PROVE  Kept
<1> USE DEF Goto, jobVars
<1>1. /\ pc[r] = "idle" /\ pc'[r] \in {"done", "sweep"} /\ on' = on /\ val' = val
      /\ \A q \in Procs \ {r} : pc'[q] = pc[q]
      /\ \A q \in Requests \ {r} : todo'[q] = todo[q]
      /\ \A n \in Nodes : n \in todo'[r] => Live(n)
      /\ UNCHANGED <<row, blob, chunks, job, held>>
    BY DEF StartSweep, LostInv, TypeInv, TypeOK, nodeVars
<1>2. OnlyRequest(r)
    BY <1>1 DEF OnlyRequest
<1>3. Worker # r
    BY ProcAssumption
<1>4. pc'[r] \notin IndexPc /\ pc[r] \notin OwingPc
    BY <1>1 DEF IndexPc, OwingPc, WritePc
<1>5. Run' /\ \A n \in Nodes : Owed(n) => Owed(n)'
    BY <1>1, <1>2, <1>4, RequestSteps
<1>6. Progress' /\ NothingLost'
    <2>1. \A q \in Requests : pc'[q] \notin IndexPc
        BY <1>1, <1>4 DEF LostInv, Progress
    <2> QED
        BY <1>1, <1>3, <1>5, <2>1, Calm DEF LostInv, Live
<1>7. Born'
    <2>1. pc'[r] \notin WritePc \cup DeletePc
        BY <1>1 DEF WritePc, DeletePc
    <2> QED
        BY <1>1, <1>2, <2>1, BornFrame DEF LostInv, Born, Known, Live
<1>8. Sends'
    <2>1. \A n \in Nodes : job'[<<r, n>>] = "none"
        BY <1>1 DEF LostInv, Sends
    <2> QED
        BY <1>1, <1>2, <2>1, SendsFrame DEF LostInv
<1> QED
    BY <1>5, <1>6, <1>7, <1>8 DEF Kept

\* It makes one job per node.
LEMMA SweepSendKept ==
    ASSUME LostInv, TypeInv', NEW r \in Requests, NEW n \in Nodes, SweepSend(r, n)
    PROVE  Kept
<1> USE DEF Goto
<1>1. /\ pc[r] = "sweep" /\ pc'[r] \in {"done", "sweep"} /\ on' = on /\ val' = val
      /\ \A q \in Procs \ {r} : pc'[q] = pc[q]
      /\ \A q \in Requests \ {r} : todo'[q] = todo[q]
      /\ n \in todo[r] /\ todo'[r] = todo[r] \ {n}
      /\ \A j \in Jobs \ {<<r, n>>} : job'[j] = job[j]
      /\ job'[<<r, n>>] = "queued"
      /\ UNCHANGED <<row, blob, chunks, held>>
    BY DEF SweepSend, Enqueued, LostInv, TypeInv, TypeOK, nodeVars
<1>2. OnlyRequest(r)
    BY <1>1 DEF OnlyRequest
<1>3. Worker # r
    BY ProcAssumption
<1>4. job[<<r, n>>] = "none"
    BY <1>1 DEF LostInv, Sends
<1>5. Run'
    <2>1. \A m \in Nodes : job[<<r, m>>] = "active" => job'[<<r, m>>] = "active"
        BY <1>1, <1>4
    <2> QED
        BY <1>2, <2>1, RequestRun DEF LostInv
<1>6. ASSUME NEW m \in Nodes, Owed(m) PROVE Owed(m)'
    <2>1. \A q \in Requests :
             <<q, m>> # held /\ job[<<q, m>>] \in OwingJob
               => <<q, m>> # held' /\ job'[<<q, m>>] \in OwingJob
        BY <1>1, <1>4 DEF OwingJob
    <2>2. pc[r] \notin OwingPc
        BY <1>1 DEF OwingPc, WritePc
    <2> QED
        BY <1>1, <1>6, <2>1, <2>2, OwedStays
<1>7. Progress' /\ NothingLost'
    <2>1. \A q \in Requests : pc'[q] \notin IndexPc
        BY <1>1 DEF LostInv, Progress, IndexPc
    <2> QED
        BY <1>1, <1>3, <1>6, <2>1, Calm DEF LostInv, Live
<1>8. Born'
    <2>1. pc'[r] \notin WritePc \cup DeletePc
        BY <1>1 DEF WritePc, DeletePc
    <2>2. Known(n)
        BY <1>1 DEF LostInv, Born
    <2>3. \A m \in Nodes : job'[<<r, m>>] # "none" => Known(m)
        BY <1>1, <2>2 DEF LostInv, Born
    <2> QED
        BY <1>1, <1>2, <2>1, <2>3, BornFrame DEF LostInv, Born, Known
<1>9. Sends'
    <2>1. \A m \in Nodes : m \in todo'[r] => job'[<<r, m>>] = "none"
        BY <1>1 DEF LostInv, Sends
    <2>2. \A m \in Nodes : job'[<<r, m>>] # "sending"
        BY <1>1 DEF LostInv, Sends
    <2>3. pc'[r] \notin {"idle"} \cup WritePc
        BY <1>1 DEF WritePc
    <2> QED
        BY <1>1, <1>2, <2>1, <2>2, <2>3, SendsFrame DEF LostInv
<1> QED
    BY <1>5, <1>7, <1>8, <1>9 DEF Kept

\* A background send: what it owes passes to the queued job, to the aborted
\* request, or to nobody because the row is gone.
LEMMA SendKept ==
    ASSUME LostInv, TypeInv', NEW j \in Jobs, Send(j) \/ SendFails(j)
    PROVE  Kept
<1> DEFINE r == j[1]
           n == j[2]
<1> USE DEF nodeVars, procVars
<1>1. r \in Requests /\ n \in Nodes /\ j = <<r, n>> /\ job[j] = "sending"
    BY DEF Send, SendFails
<1>2. on[r] = n /\ pc[r] \in {"done", "aborted"}
    BY <1>1 DEF LostInv, Sends
<1>3. /\ pc'[r] \in {"done", "aborted"} /\ (pc[r] = "aborted" => pc'[r] = "aborted")
      /\ \A q \in Procs \ {r} : pc'[q] = pc[q]
      /\ \A k \in Jobs \ {j} : job'[k] = job[k]
      /\ \/ job'[j] = "queued"
         \/ job'[j] = "none" /\ ~Live(n)
         \/ job'[j] = "none" /\ pc'[r] = "aborted"
      /\ UNCHANGED <<row, blob, chunks, on, val, todo, held>>
    BY <1>1, <1>2 DEF Send, SendFails, Enqueued, LostInv, TypeInv, TypeOK
<1> HIDE DEF r, n
<1>4. OnlyRequest(r)
    BY <1>1, <1>3 DEF OnlyRequest
<1>5. Worker # r
    BY <1>1, ProcAssumption
<1>6. Run'
    <2>1. \A m \in Nodes : job[<<r, m>>] = "active" => job'[<<r, m>>] = "active"
        BY <1>1, <1>3
    <2> QED
        BY <1>1, <1>4, <2>1, RequestRun DEF LostInv
<1>7. ASSUME NEW m \in Nodes, Live(m), Owed(m) PROVE Owed(m)'
    <2>1. CASE m # n \/ job'[j] = "queued"
        <3>1. \A q \in Requests :
                 <<q, m>> # held /\ job[<<q, m>>] \in OwingJob
                   => <<q, m>> # held' /\ job'[<<q, m>>] \in OwingJob
            BY <1>1, <1>3, <2>1 DEF OwingJob
        <3>2. \A q \in Requests :
                 on[q] = m /\ pc[q] \in OwingPc => on'[q] = m /\ pc'[q] \in OwingPc
            BY <1>2, <1>3 DEF OwingPc, WritePc
        <3> QED
            BY <1>7, <3>1, <3>2, OwedStays
    <2>2. CASE m = n /\ job'[j] = "none" /\ pc'[r] = "aborted"
        BY <1>1, <1>2, <1>3, <2>2 DEF Owed, OwingJob, OwingPc
    <2> QED
        BY <1>3, <1>7, <2>1, <2>2
<1>8. Progress' /\ NothingLost'
    <2>1. \A q \in Requests : pc'[q] \notin IndexPc
        BY <1>1, <1>3 DEF LostInv, Progress, IndexPc
    <2> QED
        BY <1>1, <1>3, <1>5, <1>7, <2>1, Calm DEF LostInv, Live
<1>9. Born'
    <2>1. pc'[r] \notin WritePc \cup DeletePc
        BY <1>3 DEF WritePc, DeletePc
    <2>2. \A m \in Nodes : job'[<<r, m>>] # "none" => job[<<r, m>>] # "none"
        BY <1>1, <1>3
    <2> QED
        BY <1>1, <1>3, <1>4, <2>1, <2>2, BornFrame DEF LostInv, Born, Known
<1>10. Sends'
    <2>1. \A m \in Nodes : job'[<<r, m>>] = "sending" => job[<<r, m>>] = "sending"
        BY <1>1, <1>3
    <2>2. \A m \in Nodes : job'[<<r, m>>] = "sending" => on'[r] = m
        BY <1>1, <1>3, <2>1 DEF LostInv, Sends
    <2>3. pc'[r] \notin {"idle", "sweep"} \cup WritePc
        BY <1>3 DEF WritePc
    <2> QED
        BY <1>1, <1>3, <1>4, <2>2, <2>3, SendsFrame DEF LostInv
<1> QED
    BY <1>6, <1>8, <1>9, <1>10 DEF Kept

\* Steps of the queue and of the worker: requests stand still.
QueueOnly ==
    /\ \A r \in Requests : pc'[r] = pc[r] /\ on'[r] = on[r]
    /\ \A j \in Jobs :
          /\ job'[j] = "none" <=> job[j] = "none"
          /\ job'[j] = "sending" <=> job[j] = "sending"
    /\ UNCHANGED <<row, blob, todo>>

\* Such steps keep what is said of requests.
LEMMA QueueFrame ==
    ASSUME LostInv, QueueOnly, \A n \in Nodes : chunks'[n] # chunks[n] => Known(n)
    PROVE  Born' /\ Sends'
<1>1. ASSUME NEW r \in Requests, NEW n \in Nodes
      PROVE  /\ pc'[r] = pc[r] /\ on'[r] = on[r] /\ todo'[r] = todo[r]
             /\ job'[<<r, n>>] = "none" <=> job[<<r, n>>] = "none"
             /\ job'[<<r, n>>] = "sending" <=> job[<<r, n>>] = "sending"
    <2>1. <<r, n>> \in Jobs
        OBVIOUS
    <2> QED
        BY <2>1 DEF QueueOnly
<1>2. ASSUME NEW n \in Nodes, ~Known(n)' PROVE blob'[n] = NoContent /\ chunks'[n] = {}
    <2>1. ~Known(n) /\ blob' = blob
        BY <1>2 DEF QueueOnly, Known
    <2> QED
        BY <2>1 DEF LostInv, Born
<1>3. \A r \in Requests : pc'[r] \in WritePc \cup DeletePc => Known(on[r])'
    BY DEF QueueOnly, LostInv, Born, Known
<1>4. \A r \in Requests, n \in Nodes : job'[<<r, n>>] # "none" => Known(n)'
    BY <1>1 DEF QueueOnly, LostInv, Born, Known
<1>5. \A r \in Requests : \A n \in todo'[r] : Known(n)'
    BY DEF QueueOnly, LostInv, Born, Known
<1>6. Sends'
    <2>1. ASSUME NEW r \in Requests, NEW n \in Nodes
          PROVE  /\ pc[r] \in {"idle"} \cup WritePc => job[<<r, n>>] = "none"
                 /\ pc[r] = "sweep" /\ n \in todo[r] => job[<<r, n>>] = "none"
                 /\ job[<<r, n>>] = "sending" => on[r] = n /\ pc[r] \in {"done", "aborted"}
        BY DEF LostInv, Sends
    <2> SUFFICES ASSUME NEW r \in Requests, NEW n \in Nodes
                 PROVE  /\ pc'[r] \in {"idle"} \cup WritePc => job'[<<r, n>>] = "none"
                        /\ pc'[r] = "sweep" /\ n \in todo'[r] => job'[<<r, n>>] = "none"
                        /\ job'[<<r, n>>] = "sending"
                              => on'[r] = n /\ pc'[r] \in {"done", "aborted"}
        BY DEF Sends
    <2> QED
        BY <1>1, <2>1
<1> QED
    BY <1>2, <1>3, <1>4, <1>5, <1>6 DEF Born

\* A queued job that is fetched is no longer owed: it is the worker's run.
LEMMA FetchKept ==
    ASSUME LostInv, TypeInv', NEW j \in Jobs, Fetch(j)
    PROVE  Kept
<1> USE DEF Goto
<1>1. /\ pc[Worker] = "idle" /\ pc'[Worker] = "start" /\ on'[Worker] = j[2]
      /\ held = NoJob /\ held' = j
      /\ job[j] = "queued" /\ job'[j] = "active"
      /\ \A k \in Jobs \ {j} : job'[k] = job[k]
      /\ \A r \in Requests : pc'[r] = pc[r] /\ on'[r] = on[r]
      /\ UNCHANGED <<row, blob, chunks, val, todo>>
    BY ProcAssumption DEF Fetch, LostInv, Run, TypeInv, TypeOK, IndexPc, nodeVars
<1>2. Born' /\ Sends'
    BY <1>1, QueueFrame DEF QueueOnly
<1>3. Run'
    BY <1>1 DEF Run, IndexPc
<1>4. Progress'
    BY <1>1 DEF LostInv, Progress
<1>5. NothingLost'
    <2> SUFFICES ASSUME NEW n \in Nodes, Live(n)', ~Fresh(n)'
                 PROVE  Owed(n)' \/ WorkerOnIt(n)'
        BY DEF NothingLost
    <2>1. CASE n = j[2]
        BY <1>1, <2>1 DEF WorkerOnIt
    <2>2. CASE n # j[2]
        <3>1. Owed(n)
            BY <1>1 DEF LostInv, NothingLost, Live, Fresh, WorkerOnIt, IndexPc
        <3>2. \A q \in Requests :
                 <<q, n>> # held' /\ job'[<<q, n>>] = job[<<q, n>>]
            BY <1>1, <2>2
        <3> QED
            BY <1>1, <3>1, <3>2, OwedStays
    <2> QED
        BY <2>1, <2>2
<1> QED
    BY <1>2, <1>3, <1>4, <1>5 DEF Kept

\* A job that is not running and changes state is still on record.
LEMMA JobKept ==
    ASSUME LostInv, TypeInv', NEW j \in Jobs, j # held,
           job[j] \in {"active", "failed"},
           job'[j] \in {"queued", "failed", "deleted"},
           \A k \in Jobs \ {j} : job'[k] = job[k],
           UNCHANGED <<row, blob, chunks, procVars, held>>
    PROVE  Kept
<1> USE DEF procVars
<1>1. Born' /\ Sends'
    BY QueueFrame DEF QueueOnly
<1>2. Run'
    BY DEF LostInv, Run
<1>3. ASSUME NEW n \in Nodes, Owed(n) PROVE Owed(n)'
    BY <1>3, OwedStays DEF OwingJob
<1>4. Progress' /\ NothingLost'
    BY <1>3, Calm DEF LostInv, Progress, Live
<1> QED
    BY <1>1, <1>2, <1>4 DEF Kept

\* An expired job is retried or failed; a failed one is retried or deleted.
LEMMA QueueKept ==
    ASSUME LostInv, TypeInv', NEW j \in Jobs,
           Expire(j) \/ RetryFailedJob(j) \/ DeleteFailedJob(j)
    PROVE  Kept
<1>1. /\ job[j] \in {"active", "failed"} /\ job'[j] \in {"queued", "failed", "deleted"}
      /\ \A k \in Jobs \ {j} : job'[k] = job[k]
      /\ UNCHANGED <<row, blob, chunks, procVars, held>>
    BY DEF Expire, RetryFailedJob, DeleteFailedJob, AttemptFailed, LostInv, TypeInv, TypeOK,
           nodeVars
<1>2. j # held
    BY ProcAssumption DEF Expire, RetryFailedJob, DeleteFailedJob, LostInv, Run
<1> QED
    BY <1>1, <1>2, JobKept

-----------------------------------------------------------------------------
(* The worker's run.                                                       *)

\* A run that ends without success leaves its job on record; one that ends well
\* has indexed what it read.
LEMMA EndKept ==
    ASSUME LostInv, TypeInv', pc[Worker] \in IndexPc, NEW ok \in BOOLEAN, Return(Worker, ok),
           ok => pc[Worker] = "schedule",
           UNCHANGED <<row, blob, chunks, todo>>
    PROVE  Kept
<1>1. /\ pc' = [pc EXCEPT ![Worker] = "idle"]
      /\ on' = [on EXCEPT ![Worker] = NoNode]
      /\ held' = NoJob
      /\ \A j \in Jobs \ {held} : job'[j] = job[j]
      /\ ~ok => job'[held] \in {"queued", "failed"}
      /\ ok => job'[held] = "completed"
    BY RunEnds DEF LostInv
<1>2. /\ held \in Jobs /\ job[held] = "active"
      /\ on[Worker] \in Nodes /\ held[1] \in Requests /\ held = <<held[1], on[Worker]>>
    BY WorkerRuns DEF LostInv
<1>3. /\ pc'[Worker] = "idle"
      /\ \A r \in Requests : pc'[r] = pc[r] /\ on'[r] = on[r]
    BY <1>1, ProcAssumption DEF LostInv, TypeInv, TypeOK
<1>4. Born' /\ Sends'
    BY <1>1, <1>2, <1>3, QueueFrame DEF QueueOnly
<1>5. Run'
    BY <1>1, <1>3 DEF Run
<1>6. Progress'
    BY <1>3 DEF LostInv, Progress
<1>7. ASSUME NEW n \in Nodes, Owed(n) PROVE Owed(n)'
    <2>1. \A r \in Requests :
             <<r, n>> # held /\ job[<<r, n>>] \in OwingJob
               => <<r, n>> # held' /\ job'[<<r, n>>] \in OwingJob
        BY <1>1, ProcAssumption
    <2> QED
        BY <1>3, <1>7, <2>1, OwedStays
<1>8. NothingLost'
    <2> SUFFICES ASSUME NEW n \in Nodes, Live(n)', ~Fresh(n)' PROVE Owed(n)'
        BY DEF NothingLost
    <2>1. Live(n) /\ ~Fresh(n)
        BY DEF Live, Fresh
    <2>2. CASE Owed(n)
        BY <1>7, <2>2
    <2>3. CASE WorkerOnIt(n) /\ ok
        BY <2>1, <2>3 DEF WorkerOnIt, LostInv, Progress, Fresh
    <2>4. CASE WorkerOnIt(n) /\ ~ok
        <3>1. on[Worker] = n
            BY <2>4 DEF WorkerOnIt
        <3>2. <<held[1], n>> \in Jobs /\ <<held[1], n>> # held'
              /\ job'[<<held[1], n>>] \in {"queued", "failed"}
            BY <1>1, <1>2, <2>4, <3>1, ProcAssumption
        <3> QED
            BY <1>2, <3>2 DEF Owed, OwingJob, OwingPc
    <2> QED
        BY <2>1, <2>2, <2>3, <2>4 DEF LostInv, NothingLost
<1> QED
    BY <1>4, <1>5, <1>6, <1>8 DEF Kept

\* So does one that throws.
LEMMA CatchKept ==
    ASSUME LostInv, TypeInv', NEW p \in Procs, pc[p] \in IndexPc, Catch(p)
    PROVE  Kept
<1>1. p = Worker
    BY WorkerRuns DEF LostInv
<1> QED
    BY <1>1, EndKept DEF Catch

\* A step inside a run: the worker moves on, its job stays active.
LEMMA WorkKept ==
    ASSUME LostInv, TypeInv', pc[Worker] \in IndexPc, NEW n \in Nodes, on[Worker] = n,
           NEW to \in IndexPc, Goto(Worker, to),
           \A m \in Nodes \ {n} : chunks'[m] = chunks[m],
           UNCHANGED <<row, blob, on, todo, jobVars>>,
           to = "insert" => chunks'[n] = {},
           to \in {"commit", "stats", "schedule"} => chunks'[n] = Rows(val'[Worker]),
           to \in {"delete", "insert"} /\ Live(n) => val'[Worker] = blob[n] \/ Owed(n),
           Live(n) /\ ~Fresh(n)' => Owed(n) \/ WorkerOnIt(n)'
    PROVE  Kept
<1> USE DEF jobVars, Goto
<1>1. /\ held \in Jobs /\ held = <<held[1], n>>
      /\ held[1] \in Requests /\ job[held] = "active" /\ n = held[2]
    BY WorkerRuns DEF LostInv
<1>2. pc'[Worker] = to /\ \A r \in Requests : pc'[r] = pc[r]
    BY ProcAssumption DEF LostInv, TypeInv, TypeOK
<1>3. Known(n)
    BY <1>1 DEF LostInv, Born
<1>4. Born' /\ Sends'
    <2>1. \A m \in Nodes : chunks'[m] # chunks[m] => Known(m)
        BY <1>3
    <2> QED
        BY <1>2, <2>1, QueueFrame DEF QueueOnly
<1>5. Run'
    BY <1>1, <1>2 DEF Run
<1>6. ASSUME NEW m \in Nodes, Owed(m) PROVE Owed(m)'
    BY <1>2, <1>6, OwedStays
<1>7. NothingLost'
    <2> SUFFICES ASSUME NEW m \in Nodes, Live(m)', ~Fresh(m)'
                 PROVE  Owed(m)' \/ WorkerOnIt(m)'
        BY DEF NothingLost
    <2>1. CASE m = n
        BY <1>6, <2>1 DEF Live
    <2>2. CASE m # n
        BY <1>6, <2>2 DEF LostInv, NothingLost, Live, Fresh, WorkerOnIt
    <2> QED
        BY <2>1, <2>2
<1>8. Progress'
    <2>1. \A r \in Requests : pc'[r] \notin IndexPc
        BY <1>2 DEF LostInv, Progress
    <2>2. on'[Worker] = n
        OBVIOUS
    <2>3. ASSUME to \in {"delete", "insert"}, Live(n)
          PROVE  (val[Worker] = blob[n] \/ Owed(n))'
        BY <1>6, <2>3
    <2> QED
        BY <1>2, <2>1, <2>2, <2>3 DEF Progress, Live
<1> QED
    BY <1>4, <1>5, <1>7, <1>8 DEF Kept

\* Every step of indexNode.
LEMMA IndexKept ==
    ASSUME LostInv, TypeInv', NEW p \in Procs, Index(p)
    PROVE  Kept
<1> USE DEF nodeVars, jobVars
<1>1. pc[p] \in IndexPc
    BY DEF Index, IndexStart, IndexMark, IndexRead, IndexDelete, IndexInsert, IndexCommit,
       IndexStats,
           IndexPc
<1>2. p = Worker /\ pc[Worker] \in IndexPc /\ on[Worker] \in Nodes
    BY <1>1, WorkerRuns DEF LostInv
<1>3. PICK n \in Nodes : on[Worker] = n
    BY <1>2
<1>4. \A to : Goto(Worker, to) => pc'[Worker] = to
    BY DEF Goto, LostInv, TypeInv, TypeOK
<1>5. CASE IndexStart(Worker)
    <2>1. CASE Live(n) /\ hash[n] # NoContent
        <3>1. Goto(Worker, "mark") /\ UNCHANGED <<row, blob, chunks, on, todo, jobVars>>
            BY <1>3, <1>5, <2>1 DEF IndexStart
        <3>2. WorkerOnIt(n)'
            BY <1>3, <1>4, <3>1 DEF WorkerOnIt
        <3> QED
            BY <1>2, <1>3, <3>1, <3>2, WorkKept DEF IndexPc
    <2>2. CASE ~(Live(n) /\ hash[n] # NoContent)
        BY <1>2, <1>3, <1>5, <2>2, EndKept DEF IndexStart
    <2> QED
        BY <2>1, <2>2
<1>5a. CASE IndexMark(Worker)
    <2>1. Goto(Worker, "read") /\ UNCHANGED <<row, blob, chunks, on, todo, jobVars>>
        BY <1>5a DEF IndexMark
    <2>2. WorkerOnIt(n)'
        BY <1>3, <1>4, <2>1 DEF WorkerOnIt
    <2> QED
        BY <1>2, <1>3, <2>1, <2>2, WorkKept DEF IndexPc
<1>6. CASE IndexRead(Worker)
    <2>1. CASE blob[n] # NoContent
        <3>1. /\ Goto(Worker, "delete") /\ val'[Worker] = blob[n]
              /\ UNCHANGED <<row, blob, chunks, on, todo, jobVars>>
            BY <1>3, <1>6, <2>1 DEF IndexRead, LostInv, TypeInv, TypeOK
        <3>2. WorkerOnIt(n)'
            BY <1>3, <1>4, <3>1 DEF WorkerOnIt, IndexPc
        <3> QED
            BY <1>2, <1>3, <3>1, <3>2, WorkKept DEF IndexPc
    <2>2. CASE blob[n] = NoContent
        BY <1>2, <1>3, <1>6, <2>2, CatchKept DEF IndexRead
    <2> QED
        BY <2>1, <2>2
<1>7. CASE IndexDelete(Worker)
    <2>1. /\ pc[Worker] = "delete" /\ Goto(Worker, "insert") /\ chunks'[n] = {}
          /\ \A m \in Nodes \ {n} : chunks'[m] = chunks[m]
          /\ UNCHANGED <<row, blob, on, val, todo, jobVars>>
        BY <1>3, <1>7 DEF IndexDelete, LostInv, TypeInv, TypeOK
    <2>2. Live(n) => val[Worker] = blob[n] \/ Owed(n)
        BY <1>3, <2>1 DEF LostInv, Progress
    <2>3. val[Worker] = blob[n] => WorkerOnIt(n)'
        BY <1>3, <1>4, <2>1 DEF WorkerOnIt, IndexPc
    <2> QED
        BY <1>2, <1>3, <2>1, <2>2, <2>3, WorkKept DEF IndexPc
<1>8. CASE IndexInsert(Worker)
    <2>1. CASE Collides(n, val[Worker])
        BY <1>2, <1>3, <1>8, <2>1, CatchKept DEF IndexInsert
    <2>2. CASE ~Collides(n, val[Worker])
        <3>1. /\ pc[Worker] = "insert" /\ Goto(Worker, "commit")
              /\ chunks'[n] = chunks[n] \cup Rows(val[Worker])
              /\ \A m \in Nodes \ {n} : chunks'[m] = chunks[m]
              /\ UNCHANGED <<row, blob, on, val, todo, jobVars>>
            BY <1>3, <1>8, <2>2 DEF IndexInsert, LostInv, TypeInv, TypeOK
        <3>2. chunks'[n] = Rows(val[Worker])
            BY <1>3, <3>1 DEF LostInv, Progress
        <3>3. Live(n) => val[Worker] = blob[n] \/ Owed(n)
            BY <1>3, <3>1 DEF LostInv, Progress
        <3>4. val[Worker] = blob[n] => Fresh(n)'
            BY <3>1, <3>2 DEF Fresh
        <3> QED
            BY <1>2, <1>3, <3>1, <3>2, <3>3, <3>4, WorkKept DEF IndexPc
    <2> QED
        BY <2>1, <2>2
<1>9. ASSUME IndexCommit(Worker) \/ IndexStats(Worker) PROVE Kept
    <2>1. /\ pc[Worker] \in {"commit", "stats"}
          /\ \E to \in {"stats", "schedule"} : Goto(Worker, to)
          /\ UNCHANGED <<row, blob, chunks, on, val, todo, jobVars>>
        BY <1>9 DEF IndexCommit, IndexStats
    <2>2. chunks[n] = Rows(val[Worker])
        BY <1>3, <2>1 DEF LostInv, Progress
    <2>3. Live(n) /\ ~Fresh(n) => Owed(n)
        BY <1>3, <2>1, <2>2 DEF LostInv, NothingLost, WorkerOnIt, Fresh
    <2>4. PICK to \in {"stats", "schedule"} : Goto(Worker, to)
        BY <2>1
    <2>5. Fresh(n)' <=> Fresh(n)
        BY <2>1 DEF Fresh
    <2> QED
        BY <1>2, <1>3, <2>1, <2>2, <2>3, <2>4, <2>5, WorkKept DEF IndexPc
<1> QED
    BY <1>2, <1>5, <1>5a, <1>6, <1>7, <1>8, <1>9 DEF Index

\* A throw that is not caught ends the run without success, too.
LEMMA EscapeKept ==
    ASSUME LostInv, TypeInv', NEW p \in Procs, IndexEscapes(p)
    PROVE  Kept
<1>1. p = Worker /\ pc[Worker] \in IndexPc
    BY WorkerRuns DEF LostInv, IndexEscapes
<1> QED
    BY <1>1, EndKept DEF IndexEscapes

\* A crash turns whatever was in flight into something on record.
LEMMA CrashKept ==
    ASSUME LostInv, TypeInv', Crash
    PROVE  Kept
<1> USE DEF nodeVars
<1>1. /\ pc'[Worker] = "idle" /\ held' = NoJob
      /\ \A r \in Requests :
            /\ pc'[r] \in {pc[r], "aborted"} /\ on'[r] = on[r]
            /\ pc[r] \notin {"idle", "done"} => pc'[r] = "aborted"
            /\ (\E n \in Nodes : job[<<r, n>>] = "sending") => pc'[r] = "aborted"
      /\ \A j \in Jobs : job'[j] = IF job[j] = "sending" THEN "none" ELSE job[j]
      /\ UNCHANGED <<row, blob, chunks, todo>>
    BY ProcAssumption DEF Crash, LostInv, TypeInv, TypeOK
<1>2. Run'
    BY <1>1 DEF Run
<1>3. \A r \in Requests : pc'[r] \in {"idle", "done", "aborted"}
                          /\ (pc'[r] = "idle" => pc[r] = "idle")
    BY <1>1
<1>4. Progress'
    BY <1>1, <1>3 DEF Progress, IndexPc
<1>5. ASSUME NEW r \in Requests, NEW n \in Nodes
      PROVE  /\ job'[<<r, n>>] # "sending"
             /\ job[<<r, n>>] = "none" => job'[<<r, n>>] = "none"
             /\ job[<<r, n>>] # "sending" => job'[<<r, n>>] = job[<<r, n>>]
    <2>1. <<r, n>> \in Jobs
        OBVIOUS
    <2> QED
        BY <1>1, <2>1
<1>6. Sends'
    BY <1>3, <1>5 DEF LostInv, Sends, WritePc
<1>7. Born'
    <2>1. \A n \in Nodes : Known(n)' <=> Known(n)
        BY <1>1 DEF Known
    <2>2. \A r \in Requests : pc'[r] \notin WritePc \cup DeletePc
        BY <1>3 DEF WritePc, DeletePc
    <2>3. \A r \in Requests : todo[r] \subseteq Nodes
        BY DEF LostInv, TypeInv, TypeOK
    <2> QED
        BY <1>1, <1>5, <2>1, <2>2, <2>3 DEF LostInv, Born
<1>8. NothingLost'
    <2> SUFFICES ASSUME NEW n \in Nodes, Live(n)', ~Fresh(n)' PROVE Owed(n)'
        BY DEF NothingLost
    <2>1. Owed(n) \/ WorkerOnIt(n)
        BY <1>1 DEF LostInv, NothingLost, Live, Fresh
    <2>2. ASSUME NEW r \in Requests, job[<<r, n>>] \in OwingJob PROVE Owed(n)'
        <3>1. CASE job[<<r, n>>] = "sending"
            <4>1. on[r] = n
                BY <3>1 DEF LostInv, Sends
            <4> QED
                BY <1>1, <3>1, <4>1 DEF Owed, OwingJob, OwingPc
        <3>2. CASE job[<<r, n>>] # "sending"
            <4>1. job'[<<r, n>>] \in OwingJob /\ <<r, n>> # held'
                BY <1>1, <1>5, <2>2, <3>2, ProcAssumption
            <4> QED
                BY <4>1 DEF Owed, OwingJob, OwingPc
        <3> QED
            BY <3>1, <3>2
    <2>3. ASSUME NEW r \in Requests, on[r] = n, pc[r] \in OwingPc PROVE Owed(n)'
        <3>1. pc'[r] = "aborted" /\ on'[r] = n
            BY <1>1, <2>3 DEF OwingPc, WritePc
        <3> QED
            BY <3>1 DEF Owed, OwingJob, OwingPc
    <2>4. ASSUME WorkerOnIt(n) PROVE Owed(n)'
        <3>1. on[Worker] = n /\ pc[Worker] \in IndexPc
            BY <2>4 DEF WorkerOnIt, IndexPc
        <3>2. held[1] \in Requests /\ job[<<held[1], n>>] \in OwingJob
            BY <3>1, WorkerRuns DEF LostInv, OwingJob
        <3> QED
            BY <2>2, <3>2
    <2> QED
        BY <2>1, <2>2, <2>3, <2>4 DEF Owed, OwingJob, OwingPc
<1> QED
    BY <1>2, <1>4, <1>6, <1>7, <1>8 DEF Kept

-----------------------------------------------------------------------------

\* Every step of the specification.
LEMMA LostStep == LostInv /\ TypeInv' /\ NoBootstrap /\ [Next]_vars => Kept
<1> SUFFICES ASSUME LostInv, TypeInv', NoBootstrap, [Next]_vars PROVE Kept
    OBVIOUS
<1> USE DEF nodeVars
<1>1. ASSUME NEW r \in Requests, Begin(r) PROVE Kept
    <2>1. ASSUME NEW n \in Nodes, NEW c \in Contents, StartSave(r, n, c) PROVE Kept
        <3>1. \A q \in Procs \ {r} : val'[q] = val[q]
            BY <2>1 DEF StartSave, LostInv, TypeInv, TypeOK
        <3> QED
            BY <2>1, <3>1, BeginKept DEF StartSave
    <2>2. ASSUME NEW n \in Nodes, StartDelete(r, n) \/ StartValidate(r, n) PROVE Kept
        <3>1. \A q \in Procs \ {r} : val'[q] = val[q]
            BY <2>2 DEF StartDelete, StartValidate, LostInv, TypeInv, TypeOK
        <3> QED
            BY <2>2, <3>1, BeginKept DEF StartDelete, StartValidate
    <2> QED
        BY <1>1, <2>1, <2>2, CreateKept, StartSweepKept DEF Begin
<1>2. ASSUME NEW r \in Requests, Update(r) \/ Mirror(r) \/ MirrorFails(r) PROVE Kept
    BY <1>2, ContinueKept DEF Update, Mirror, MirrorFails
<1>3. ASSUME NEW r \in Requests, Unlink(r) \/ WriteValidation(r) PROVE Kept
    BY <1>3, ContinueKept DEF Unlink, WriteValidation
<1>4. ASSUME NEW r \in Requests, Put(r) \/ DeleteBlob(r) PROVE Kept
    <2>1. \A n \in Nodes \ {on[r]} : blob'[n] = blob[n]
        BY <1>4 DEF Put, DeleteBlob, LostInv, TypeInv, TypeOK
    <2> QED
        BY <1>4, <2>1, StoreKept DEF Put, DeleteBlob
<1>5. ASSUME NEW r \in Requests, Continue(r) PROVE Kept
    BY <1>2, <1>3, <1>4, <1>5, MetaKept, DeleteRowKept, SweepSendKept DEF Continue
<1>6. ASSUME NEW p \in Procs, IndexThrows(p) PROVE Kept
    <2>1. pc[p] \in IndexPc
        BY <1>6 DEF IndexThrows, IndexPc
    <2> QED
        BY <1>6, <2>1, CatchKept DEF IndexThrows
<1>7. ASSUME NEW ok \in BOOLEAN, FinishJob(ok) PROVE Kept
    <2>1. pc[Worker] \in IndexPc
        BY <1>7 DEF FinishJob, IndexPc
    <2> QED
        BY <1>7, <2>1, EndKept DEF FinishJob
<1>8. CASE Failure
    BY <1>2, <1>6, <1>7, <1>8, EscapeKept, SendKept, CrashKept DEF Failure
<1>9. CASE Operator
    BY <1>9, QueueKept DEF Operator
<1>10. CASE UNCHANGED vars
    <2>1. Born' /\ Sends'
        BY <1>10, QueueFrame DEF QueueOnly, vars, procVars, jobVars
    <2>2. Run'
        BY <1>10 DEF LostInv, Run, vars, procVars, jobVars
    <2>3. ASSUME NEW n \in Nodes, Owed(n) PROVE Owed(n)'
        BY <1>10, <2>3, OwedStays DEF vars, procVars, jobVars
    <2>4. Progress' /\ NothingLost'
        BY <1>10, <2>3, Calm DEF LostInv, Progress, Live, vars, procVars, jobVars
    <2> QED
        BY <2>1, <2>2, <2>4 DEF Kept
<1> QED
    BY <1>1, <1>5, <1>7, <1>8, <1>9, <1>10, IndexKept, SendKept, FetchKept, QueueKept DEF Next

\* A bootstrap that has begun stays begun.
LEMMA BootstrapBegun ==
    ASSUME TypeOK, [Next]_vars, NoBootstrap'
    PROVE  NoBootstrap
<1> SUFFICES ASSUME NEW b \in Bootstraps, pc[b] # "idle" PROVE pc'[b] # "idle"
    BY DEF NoBootstrap
<1>1. b \in Requests /\ b # Worker /\ pc \in [Procs -> Pc]
    BY ProcAssumption DEF TypeOK
<1>2. ASSUME NEW p \in Procs, NEW to, Goto(p, to), p = Worker \/ to # "idle"
      PROVE  pc'[b] # "idle"
    BY <1>1, <1>2 DEF Goto
<1>3. ASSUME NEW p \in Procs, NEW ok, Return(p, ok)
      PROVE  pc'[b] # "idle"
    BY <1>2, <1>3 DEF Return
<1>4. ASSUME NEW r \in Requests, Begin(r) PROVE pc'[b] # "idle"
    BY <1>2, <1>4 DEF Begin, StartSave, StartCreate, StartDelete, StartValidate, StartSweep
<1>5. ASSUME NEW r \in Requests, Continue(r) \/ MirrorFails(r) PROVE pc'[b] # "idle"
    BY <1>2, <1>5 DEF Continue, Put, Update, Mirror, Meta, Unlink, DeleteBlob, DeleteRow,
                      WriteValidation, SweepSend, MirrorFails
<1>6. ASSUME NEW p \in Procs, Index(p) \/ IndexThrows(p) \/ IndexEscapes(p) PROVE pc'[b] # "idle"
    BY <1>2, <1>3, <1>6 DEF Index, IndexStart, IndexMark, IndexRead, IndexDelete, IndexInsert,
                            IndexCommit, IndexStats, IndexThrows, IndexEscapes, Catch
<1>7. ASSUME NEW ok, FinishJob(ok) PROVE pc'[b] # "idle"
    BY <1>3, <1>7 DEF FinishJob
<1>8. ASSUME NEW j \in Jobs,
             \/ Send(j) \/ Fetch(j) \/ Expire(j) \/ SendFails(j)
             \/ RetryFailedJob(j) \/ DeleteFailedJob(j)
      PROVE  pc'[b] # "idle"
    BY <1>1, <1>2, <1>8 DEF Send, Fetch, Expire, SendFails, RetryFailedJob, DeleteFailedJob,
                            procVars
<1>9. CASE Crash
    BY <1>1, <1>9 DEF Crash
<1>10. CASE UNCHANGED vars
    BY <1>1, <1>10 DEF vars, procVars
<1> QED
    BY <1>4, <1>5, <1>6, <1>7, <1>8, <1>9, <1>10 DEF Next, Failure, Operator

\* The invariant holds until a bootstrap begins.
LEMMA LostInvariant == Spec => [](TypeInv /\ (NoBootstrap => LostInv))
<1>1. Init => TypeInv /\ LostInv
    BY LostInit DEF LostInv
<1>2. TypeInv /\ [Next]_vars => TypeInv'
    BY TypeStep, PlacedStep DEF TypeInv
<1>3. TypeInv /\ (NoBootstrap => LostInv) /\ [Next]_vars => (NoBootstrap => LostInv)'
    BY <1>2, LostStep, BootstrapBegun DEF LostInv, TypeInv, Kept
<1> QED
    BY <1>1, <1>2, <1>3, PTL DEF Spec

\* No content change is forgotten, with any number of concurrent saves, deletes,
\* sweeps and validations, with failed attempts, sends and mirrors, and across
\* crashes, as long as the one worker is the only one to run indexNode.
THEOREM NothingIsLost == Spec => [](NoBootstrap => NothingLost)
<1>1. LostInv => NothingLost
    BY DEF LostInv
<1> QED
    BY <1>1, LostInvariant, PTL

-----------------------------------------------------------------------------
(* Nothing left to do.                                                     *)

\* With nothing left to do, the index holds the stored content of every live
\* node: what is not forgotten has then been done.
THEOREM QuietIsFresh == Spec => [](NoBootstrap => QuiescentFresh)
<1>1. NothingLost => QuiescentFresh
    <2> SUFFICES ASSUME NothingLost, Quiet, NEW n \in Nodes, Live(n), ~Fresh(n)
                 PROVE  FALSE
        BY DEF QuiescentFresh
    <2>1. /\ \A p \in Procs : pc[p] \in {"idle", "done"}
          /\ \A r \in Requests : job[<<r, n>>] \in {"none", "completed"}
        BY DEF Quiet
    <2>2. ~WorkerOnIt(n)
        BY <2>1 DEF WorkerOnIt, IndexPc
    <2>3. ~Owed(n)
        BY <2>1 DEF Owed, OwingJob, OwingPc, WritePc
    <2> QED
        BY <2>2, <2>3 DEF NothingLost
<1> QED
    BY <1>1, NothingIsLost, PTL

\* Who is to bring the status of n back to indexed, or has failed to: the
\* worker's own job counts until it has done so.
Closing == {"stats", "schedule"}
Unfinished == WritePc \cup {"aborted"}

StatusOwed(n) ==
    \/ \E r \in Requests : /\ job[<<r, n>>] \in OwingJob
                           /\ <<r, n>> = held => pc[Worker] \notin Closing
    \/ \E r \in Requests : on[r] = n /\ pc[r] \in Unfinished

NoProbe == \A r \in Requests : pc[r] # "probe"

SettledInv ==
    "validate" \notin Ops =>
        /\ NoProbe
        /\ \A n \in Nodes : Live(n) /\ status[n] # "indexed" => StatusOwed(n)

LEMMA SettledInit == Init => SettledInv
BY DEF Init, SettledInv, NoProbe, Live

LEMMA StatusOwedStays ==
    ASSUME NEW n \in Nodes, StatusOwed(n),
           \A r \in Requests :
              /\ job[<<r, n>>] \in OwingJob
              /\ <<r, n>> = held => pc[Worker] \notin Closing
              => /\ job'[<<r, n>>] \in OwingJob
                 /\ <<r, n>> = held' => pc'[Worker] \notin Closing,
           \A r \in Requests :
              on[r] = n /\ pc[r] \in Unfinished => on'[r] = n /\ pc'[r] \in Unfinished
    PROVE  StatusOwed(n)'
BY DEF StatusOwed, OwingJob, Unfinished

\* The worker has just written that n is indexed.
Marked(n) == on[Worker] = n /\ pc[Worker] = "commit" /\ pc'[Worker] = "stats"

\* A status stops being owed only by being written.
OwedLasts ==
    \A n \in Nodes : Live(n)' /\ ~StatusOwed(n)' => (Live(n) /\ ~StatusOwed(n)) \/ Marked(n)

SettledNext == SettledInv' /\ OwedLasts

\* What a step has to show to keep SettledInv.
LEMMA SettledFrame ==
    ASSUME SettledInv, "validate" \notin Ops => NoProbe',
           \A n \in Nodes : Live(n)' /\ ~StatusOwed(n)' =>
              \/ status'[n] = "indexed" /\ Marked(n)
              \/ Live(n) /\ status'[n] = status[n] /\ ~StatusOwed(n)
    PROVE  SettledNext
BY DEF SettledInv, SettledNext, OwedLasts

\* A request that sends nothing.
LEMMA RequestSettled ==
    ASSUME LostInv, SettledInv, NEW r \in Requests, OnlyRequest(r), UNCHANGED job,
           pc'[r] # "probe",
           pc[r] \in Unfinished => pc'[r] \in Unfinished /\ on'[r] = on[r],
           \A n \in Nodes :
              \/ on'[r] = n /\ pc'[r] \in Unfinished
              \/ status'[n] = status[n] /\ (Live(n)' => Live(n))
    PROVE  SettledNext
<1>1. "validate" \notin Ops => NoProbe'
    BY DEF OnlyRequest, SettledInv, NoProbe
<1>2. pc'[Worker] = pc[Worker] /\ held' = held
    BY ProcAssumption DEF OnlyRequest
<1>3. ASSUME NEW n \in Nodes, StatusOwed(n) PROVE StatusOwed(n)'
    <2>1. \A q \in Requests :
             on[q] = n /\ pc[q] \in Unfinished => on'[q] = n /\ pc'[q] \in Unfinished
        BY DEF OnlyRequest
    <2> QED
        BY <1>2, <1>3, <2>1, StatusOwedStays
<1>4. \A n \in Nodes : on'[r] = n /\ pc'[r] \in Unfinished => StatusOwed(n)'
    BY DEF StatusOwed, OwingJob, Unfinished
<1> QED
    BY <1>1, <1>3, <1>4, SettledFrame

\* A validation owes nothing, and where there are none the status is not its.
LEMMA ValidationSettled ==
    ASSUME LostInv, SettledInv, NEW r \in Requests,
           WriteValidation(r) \/ \E n \in Nodes : StartValidate(r, n)
    PROVE  SettledNext
<1>1. "validate" \in Ops
    BY DEF WriteValidation, StartValidate, SettledInv, NoProbe
<1>2. /\ pc \in [Procs -> Pc] /\ on \in [Procs -> Nodes \cup {NoNode}]
      /\ r # Worker
    BY ProcAssumption DEF LostInv, TypeInv, TypeOK
<1>3. /\ pc[r] \in {"idle", "probe"}
      /\ \A q \in Procs \ {r} : pc'[q] = pc[q] /\ on'[q] = on[q]
      /\ UNCHANGED <<row, job, held>>
    BY <1>2 DEF WriteValidation, StartValidate, Goto, nodeVars, jobVars
<1>4. ASSUME NEW n \in Nodes, StatusOwed(n) PROVE StatusOwed(n)'
    <2>1. \A q \in Requests :
             on[q] = n /\ pc[q] \in Unfinished => on'[q] = n /\ pc'[q] \in Unfinished
        BY <1>3 DEF Unfinished, WritePc
    <2> QED
        BY <1>2, <1>3, <1>4, <2>1, StatusOwedStays
<1> QED
    BY <1>1, <1>3, <1>4 DEF SettledNext, SettledInv, OwedLasts, Live

LEMMA CallSettled ==
    ASSUME LostInv, SettledInv, NEW r \in Requests,
           \/ Begin(r) \/ Put(r) \/ Update(r) \/ Mirror(r) \/ MirrorFails(r)
           \/ Unlink(r) \/ DeleteBlob(r) \/ DeleteRow(r)
    PROVE  SettledNext
<1> USE DEF Goto, nodeVars, jobVars
<1>1. /\ pc \in [Procs -> Pc] /\ on \in [Procs -> Nodes \cup {NoNode}]
      /\ val \in [Procs -> Contents \cup {NoContent}]
      /\ row \in [Nodes -> {"absent", "live", "gone"}]
      /\ status \in [Nodes -> IndexStatus]
      /\ pc[r] \in WritePc \cup DeletePc => on[r] \in Nodes
    BY DEF LostInv, TypeInv, TypeOK, Placed
<1>2. ASSUME NEW n \in Nodes, NEW c \in Contents, StartSave(r, n, c) PROVE SettledNext
    <2>1. /\ pc[r] = "idle" /\ pc'[r] = "put" /\ OnlyRequest(r)
          /\ UNCHANGED <<row, status, job>>
        BY <1>1, <1>2 DEF StartSave, OnlyRequest
    <2> QED
        BY <2>1, RequestSettled DEF Unfinished, WritePc, Live
<1>3. ASSUME NEW n \in Nodes, NEW c \in Contents, StartCreate(r, n, c) PROVE SettledNext
    <2>1. /\ pc[r] = "idle" /\ pc'[r] = "put" /\ on'[r] = n /\ OnlyRequest(r)
          /\ \A m \in Nodes \ {n} : row'[m] = row[m] /\ status'[m] = status[m]
          /\ UNCHANGED job
        BY <1>1, <1>3 DEF StartCreate, OnlyRequest
    <2> QED
        BY <2>1, RequestSettled DEF Unfinished, WritePc, Live
<1>4. ASSUME NEW n \in Nodes, StartDelete(r, n) PROVE SettledNext
    <2>1. /\ pc[r] = "idle" /\ pc'[r] = "unlink" /\ OnlyRequest(r)
          /\ UNCHANGED <<row, status, job>>
        BY <1>1, <1>4 DEF StartDelete, OnlyRequest
    <2> QED
        BY <2>1, RequestSettled DEF Unfinished, WritePc, Live
<1>5. ASSUME NEW op, StartSweep(r, op) PROVE SettledNext
    <2>1. /\ pc[r] = "idle" /\ pc'[r] \in {"done", "sweep"} /\ OnlyRequest(r)
          /\ UNCHANGED <<row, status, job>>
        BY <1>1, <1>5 DEF StartSweep, OnlyRequest
    <2> QED
        BY <2>1, RequestSettled DEF Unfinished, WritePc, Live
<1>6. CASE Put(r) \/ Mirror(r) \/ MirrorFails(r)
    <2>1. /\ pc'[r] \in Unfinished /\ pc'[r] # "probe" /\ OnlyRequest(r)
          /\ UNCHANGED <<row, status, on, job>>
        BY <1>1, <1>6 DEF Put, Mirror, MirrorFails, OnlyRequest, Unfinished, WritePc
    <2> QED
        BY <2>1, RequestSettled DEF Live
<1>7. CASE Update(r)
    <2>1. /\ pc'[r] \in Unfinished /\ pc'[r] # "probe" /\ OnlyRequest(r)
          /\ \A m \in Nodes \ {on[r]} : status'[m] = status[m]
          /\ UNCHANGED <<row, on, job>>
        BY <1>1, <1>7 DEF Update, OnlyRequest, Unfinished, WritePc
    <2> QED
        BY <2>1, RequestSettled DEF Live
<1>8. CASE Unlink(r) \/ DeleteBlob(r) \/ DeleteRow(r)
    <2>1. /\ pc[r] \in DeletePc /\ pc'[r] # "probe" /\ OnlyRequest(r)
          /\ UNCHANGED <<status, on, job>>
          /\ \A m \in Nodes : row'[m] = row[m] \/ row'[m] = "gone"
        BY <1>1, <1>8 DEF Unlink, DeleteBlob, DeleteRow, OnlyRequest, DeletePc
    <2> QED
        BY <2>1, RequestSettled DEF Unfinished, WritePc, DeletePc, Live
<1> QED
    BY <1>2, <1>3, <1>4, <1>5, <1>6, <1>7, <1>8, ValidationSettled DEF Begin

\* A status that a request owes passes to the job it sends ...
LEMMA SendSettled ==
    ASSUME LostInv, SettledInv, NoBootstrap, NEW r \in Requests, NEW n \in Nodes,
           (Meta(r) /\ n = on[r]) \/ SweepSend(r, n)
    PROVE  SettledNext
<1> USE DEF Goto, nodeVars, jobVars
<1>1. /\ job'[<<r, n>>] \in OwingJob
      /\ \A j \in Jobs \ {<<r, n>>} : job'[j] = job[j]
      /\ \A q \in Procs \ {r} : pc'[q] = pc[q]
      /\ pc'[r] \in {"done", "sweep"} /\ UNCHANGED <<row, on, held>>
      /\ \A m \in Nodes \ {n} : status'[m] = status[m]
      /\ pc[r] \in Unfinished => on[r] = n
    <2>1. CASE Meta(r) /\ n = on[r]
        <3>1. \A m \in Nodes \ {n} : status'[m] = status[m]
            BY <2>1 DEF Meta, SetStatus, LostInv, TypeInv, TypeOK
        <3>2. /\ job' = [job EXCEPT ![<<r, n>>] = "sending"]
              /\ pc' = [pc EXCEPT ![r] = "done"] /\ UNCHANGED <<row, on, held>>
            BY <2>1 DEF Meta, NoBootstrap
        <3> QED
            BY <2>1, <3>1, <3>2 DEF LostInv, TypeInv, TypeOK, OwingJob
    <2>2. CASE SweepSend(r, n)
        <3>1. /\ job' = [job EXCEPT ![<<r, n>>] = "queued"] /\ pc[r] = "sweep"
              /\ UNCHANGED <<row, status, on, held>>
            BY <2>2 DEF SweepSend, Enqueued
        <3> QED
            BY <2>2, <3>1
            DEF SweepSend, LostInv, TypeInv, TypeOK, OwingJob, Unfinished, WritePc
    <2> QED
        BY <2>1, <2>2
<1>2. <<r, n>> # held /\ r # Worker
    <2>1. job[<<r, n>>] = "none"
        BY DEF Meta, SweepSend, LostInv, Sends, WritePc
    <2> QED
        BY <2>1, ProcAssumption DEF LostInv, Run
<1>3. StatusOwed(n)'
    BY <1>1, <1>2 DEF StatusOwed, OwingJob, Unfinished
<1>4. ASSUME NEW m \in Nodes, m # n, StatusOwed(m) PROVE StatusOwed(m)'
    <2>1. \A q \in Requests : job'[<<q, m>>] = job[<<q, m>>]
        BY <1>1, <1>4
    <2> QED
        BY <1>1, <1>2, <1>4, <2>1, StatusOwedStays
<1> QED
    BY <1>1, <1>3, <1>4, SettledFrame DEF Live, SettledInv, NoProbe

\* ... and from there to the queued job, to the aborted request, or to nobody
\* because the row is gone.
LEMMA BackgroundSettled ==
    ASSUME LostInv, SettledInv, NEW j \in Jobs, Send(j) \/ SendFails(j)
    PROVE  SettledNext
<1> DEFINE r == j[1]
           n == j[2]
<1> USE DEF nodeVars, procVars
<1>1. r \in Requests /\ n \in Nodes /\ j = <<r, n>> /\ job[j] = "sending"
    BY DEF Send, SendFails
<1>2. on[r] = n /\ pc[r] \in {"done", "aborted"} /\ j # held /\ r # Worker
    BY <1>1, ProcAssumption DEF LostInv, Sends, Run
<1>3. /\ pc'[r] \in {"done", "aborted"} /\ (pc[r] = "aborted" => pc'[r] = "aborted")
      /\ \A q \in Procs \ {r} : pc'[q] = pc[q]
      /\ \A k \in Jobs \ {j} : job'[k] = job[k]
      /\ \/ job'[j] = "queued"
         \/ job'[j] = "none" /\ ~Live(n)
         \/ job'[j] = "none" /\ pc'[r] = "aborted"
      /\ UNCHANGED <<row, status, on, held>>
    BY <1>1, <1>2 DEF Send, SendFails, Enqueued, LostInv, TypeInv, TypeOK
<1> HIDE DEF r, n
<1>4. Live(n) => StatusOwed(n)'
    BY <1>1, <1>2, <1>3 DEF StatusOwed, OwingJob, Unfinished
<1>5. ASSUME NEW m \in Nodes, m # n, StatusOwed(m) PROVE StatusOwed(m)'
    <2>1. \A q \in Requests : job'[<<q, m>>] = job[<<q, m>>]
        BY <1>1, <1>3, <1>5
    <2>2. \A q \in Requests :
             on[q] = m /\ pc[q] \in Unfinished => on'[q] = m /\ pc'[q] \in Unfinished
        BY <1>2, <1>3, <1>5
    <2>3. pc'[Worker] = pc[Worker]
        BY <1>2, <1>3
    <2> QED
        BY <1>3, <1>5, <2>1, <2>2, <2>3, StatusOwedStays
<1>6. "validate" \notin Ops => NoProbe'
    BY <1>1, <1>3 DEF SettledInv, NoProbe
<1> QED
    BY <1>1, <1>3, <1>4, <1>5, <1>6, SettledFrame DEF Live

\* The queue, and a job that the worker takes from it.
LEMMA QueueSettled ==
    ASSUME LostInv, SettledInv, NEW j \in Jobs,
           Expire(j) \/ RetryFailedJob(j) \/ DeleteFailedJob(j) \/ Fetch(j)
    PROVE  SettledNext
<1> USE DEF nodeVars, procVars, Goto
<1>1. /\ job'[j] \in OwingJob /\ \A k \in Jobs \ {j} : job'[k] = job[k]
      /\ \A r \in Requests : pc'[r] = pc[r] /\ on'[r] = on[r]
      /\ UNCHANGED <<row, status>>
      /\ \/ pc'[Worker] = pc[Worker] /\ held' = held /\ j # held
         \/ pc'[Worker] = "start"
    <2>1. CASE Fetch(j)
        BY <2>1, ProcAssumption DEF Fetch, LostInv, TypeInv, TypeOK, OwingJob
    <2>2. CASE Expire(j) \/ RetryFailedJob(j) \/ DeleteFailedJob(j)
        BY <2>2, ProcAssumption
        DEF Expire, RetryFailedJob, DeleteFailedJob, AttemptFailed, LostInv, Run, TypeInv,
            TypeOK, OwingJob
    <2> QED
        BY <2>1, <2>2
<1>2. ASSUME NEW n \in Nodes, StatusOwed(n) PROVE StatusOwed(n)'
    BY <1>1, <1>2, StatusOwedStays DEF Closing
<1>3. "validate" \notin Ops => NoProbe'
    BY <1>1 DEF SettledInv, NoProbe
<1> QED
    BY <1>1, <1>2, <1>3, SettledFrame DEF Live

\* A run that ends: its job is retried or on record, or the status was its own.
LEMMA EndSettled ==
    ASSUME LostInv, SettledInv, pc[Worker] \in IndexPc, NEW ok \in BOOLEAN, Return(Worker, ok),
           ok => pc[Worker] = "schedule",
           \A n \in Nodes : (~ok /\ n = on[Worker]) \/ status'[n] = status[n],
           UNCHANGED row
    PROVE  SettledNext
<1>1. /\ pc' = [pc EXCEPT ![Worker] = "idle"]
      /\ on' = [on EXCEPT ![Worker] = NoNode]
      /\ held' = NoJob
      /\ \A j \in Jobs \ {held} : job'[j] = job[j]
      /\ ~ok => job'[held] \in {"queued", "failed"}
    BY RunEnds DEF LostInv
<1>2. /\ held \in Jobs /\ held[1] \in Requests /\ held = <<held[1], on[Worker]>>
      /\ on[Worker] \in Nodes
    BY WorkerRuns DEF LostInv
<1>3. /\ pc'[Worker] = "idle"
      /\ \A r \in Requests : pc'[r] = pc[r] /\ on'[r] = on[r]
    BY <1>1, ProcAssumption DEF LostInv, TypeInv, TypeOK
<1>4. ASSUME NEW n \in Nodes, StatusOwed(n) PROVE StatusOwed(n)'
    <2>1. ASSUME NEW r \in Requests, job[<<r, n>>] \in OwingJob,
                 <<r, n>> = held => pc[Worker] \notin Closing
          PROVE  job'[<<r, n>>] \in OwingJob
        <3>1. CASE <<r, n>> = held
            BY <1>1, <2>1, <3>1 DEF Closing, OwingJob
        <3>2. CASE <<r, n>> # held
            BY <1>1, <2>1, <3>2
        <3> QED
            BY <3>1, <3>2
    <2> QED
        BY <1>3, <1>4, <2>1, StatusOwedStays DEF Closing
<1>5. ~ok => \A n \in Nodes : n = on[Worker] => StatusOwed(n)'
    <2> SUFFICES ASSUME ~ok, NEW n \in Nodes, n = on[Worker] PROVE StatusOwed(n)'
        OBVIOUS
    <2>1. <<held[1], n>> = held /\ job'[<<held[1], n>>] \in OwingJob
        BY <1>1, <1>2 DEF OwingJob
    <2> QED
        BY <1>2, <1>3, <2>1 DEF StatusOwed, OwingJob, Closing
<1>6. "validate" \notin Ops => NoProbe'
    BY <1>3 DEF SettledInv, NoProbe
<1> QED
    BY <1>4, <1>5, <1>6, SettledFrame DEF Live

LEMMA CatchSettled ==
    ASSUME LostInv, SettledInv, NEW p \in Procs, pc[p] \in IndexPc, Catch(p)
    PROVE  SettledNext
<1>1. p = Worker /\ on[Worker] \in Nodes
    BY WorkerRuns DEF LostInv
<1>2. \A n \in Nodes : n = on[Worker] \/ status'[n] = status[n]
    BY <1>1 DEF Catch, SetStatus, LostInv, TypeInv, TypeOK
<1> QED
    BY <1>1, <1>2, EndSettled DEF Catch

\* Inside a run: the worker's job is owed until the status is indexed.
LEMMA WorkSettled ==
    ASSUME LostInv, SettledInv, pc[Worker] \in IndexPc, NEW to, Goto(Worker, to),
           \/ to \notin Closing
              /\ \A n \in Nodes \ {on[Worker]} : status'[n] = status[n]
           \/ pc[Worker] \in Closing /\ UNCHANGED status
           \/ /\ pc[Worker] = "commit" /\ to = "stats"
              /\ Live(on[Worker]) => status'[on[Worker]] = "indexed"
              /\ \A n \in Nodes \ {on[Worker]} : status'[n] = status[n],
           UNCHANGED <<row, on, jobVars>>
    PROVE  SettledNext
<1> USE DEF jobVars
<1>1. /\ held \in Jobs /\ held[1] \in Requests /\ held = <<held[1], on[Worker]>>
      /\ on[Worker] \in Nodes /\ job[held] = "active"
    BY WorkerRuns DEF LostInv
<1>2. /\ pc'[Worker] = to
      /\ \A r \in Requests : pc'[r] = pc[r] /\ on'[r] = on[r]
    BY ProcAssumption DEF Goto, LostInv, TypeInv, TypeOK
<1>3. ASSUME NEW n \in Nodes, StatusOwed(n),
             n # on[Worker] \/ to \notin Closing \/ pc[Worker] \in Closing
      PROVE  StatusOwed(n)'
    <2>1. \A r \in Requests : <<r, n>> = held => n = on[Worker]
        BY <1>1
    <2> QED
        BY <1>2, <1>3, <2>1, StatusOwedStays
<1>4. to \notin Closing => \A n \in Nodes : n = on[Worker] => StatusOwed(n)'
    <2> SUFFICES ASSUME to \notin Closing, NEW n \in Nodes, n = on[Worker] PROVE StatusOwed(n)'
        OBVIOUS
    <2> QED
        BY <1>1, <1>2 DEF StatusOwed, OwingJob, Closing
<1>5. "validate" \notin Ops => NoProbe'
    BY <1>2 DEF SettledInv, NoProbe
<1>6. ASSUME NEW n \in Nodes, Live(n)', ~StatusOwed(n)'
      PROVE  \/ status'[n] = "indexed" /\ Marked(n)
             \/ Live(n) /\ status'[n] = status[n] /\ ~StatusOwed(n)
    <2>1. Live(n)
        BY <1>6 DEF Live
    <2>2. CASE n # on[Worker]
        BY <1>3, <1>6, <2>1, <2>2
    <2>3. CASE n = on[Worker]
        BY <1>2, <1>3, <1>4, <1>6, <2>1, <2>3 DEF Marked
    <2> QED
        BY <2>2, <2>3
<1> QED
    BY <1>5, <1>6, SettledFrame

LEMMA IndexSettled ==
    ASSUME LostInv, SettledInv, NEW p \in Procs, Index(p)
    PROVE  SettledNext
<1> USE DEF nodeVars
<1>1. pc[p] \in IndexPc
    BY DEF Index, IndexStart, IndexMark, IndexRead, IndexDelete, IndexInsert, IndexCommit,
       IndexStats,
           IndexPc
<1>2. p = Worker /\ pc[Worker] \in IndexPc /\ on[Worker] \in Nodes
    BY <1>1, WorkerRuns DEF LostInv
<1>3. \A s, stamp : SetStatus(on[Worker], s, stamp) =>
          /\ \A n \in Nodes \ {on[Worker]} : status'[n] = status[n]
          /\ Live(on[Worker]) => status'[on[Worker]] = s
    BY <1>2 DEF SetStatus, LostInv, TypeInv, TypeOK
<1>4. CASE IndexStart(Worker)
    <2>1. CASE Live(on[Worker]) /\ hash[on[Worker]] # NoContent
        BY <1>2, <1>4, <2>1, WorkSettled DEF IndexStart, Closing
    <2>2. CASE ~(Live(on[Worker]) /\ hash[on[Worker]] # NoContent)
        BY <1>2, <1>4, <2>2, EndSettled DEF IndexStart
    <2> QED
        BY <2>1, <2>2
<1>4a. CASE IndexMark(Worker)
    BY <1>2, <1>3, <1>4a, WorkSettled DEF IndexMark, Closing
<1>5. CASE IndexRead(Worker)
    <2>1. CASE blob[on[Worker]] # NoContent
        BY <1>2, <1>5, <2>1, WorkSettled DEF IndexRead, Closing
    <2>2. CASE blob[on[Worker]] = NoContent
        BY <1>2, <1>5, <2>2, CatchSettled DEF IndexRead
    <2> QED
        BY <2>1, <2>2
<1>6. CASE IndexDelete(Worker)
    BY <1>2, <1>6, WorkSettled DEF IndexDelete, Closing
<1>7. CASE IndexInsert(Worker)
    <2>1. CASE Collides(on[Worker], val[Worker])
        BY <1>2, <1>7, <2>1, CatchSettled DEF IndexInsert
    <2>2. CASE ~Collides(on[Worker], val[Worker])
        BY <1>2, <1>7, <2>2, WorkSettled DEF IndexInsert, Closing
    <2> QED
        BY <2>1, <2>2
<1>8. CASE IndexCommit(Worker)
    BY <1>2, <1>3, <1>8, WorkSettled DEF IndexCommit
<1>9. CASE IndexStats(Worker)
    BY <1>2, <1>9, WorkSettled DEF IndexStats, Closing
<1> QED
    BY <1>2, <1>4, <1>4a, <1>5, <1>6, <1>7, <1>8, <1>9 DEF Index

LEMMA EscapeSettled ==
    ASSUME LostInv, SettledInv, NEW p \in Procs, IndexEscapes(p)
    PROVE  SettledNext
<1>1. p = Worker /\ pc[Worker] \in IndexPc /\ on[Worker] \in Nodes
    BY WorkerRuns DEF LostInv, IndexEscapes
<1> QED
    BY <1>1, EndSettled DEF IndexEscapes

LEMMA CrashSettled ==
    ASSUME LostInv, SettledInv, Crash
    PROVE  SettledNext
<1>1. /\ pc'[Worker] = "idle" /\ held' = NoJob
      /\ \A r \in Requests :
            /\ pc'[r] \in {pc[r], "aborted"} /\ on'[r] = on[r]
            /\ pc[r] \notin {"idle", "done"} => pc'[r] = "aborted"
            /\ (\E n \in Nodes : job[<<r, n>>] = "sending") => pc'[r] = "aborted"
      /\ \A j \in Jobs : job'[j] = IF job[j] = "sending" THEN "none" ELSE job[j]
      /\ UNCHANGED <<row, status>>
    BY ProcAssumption DEF Crash, LostInv, TypeInv, TypeOK, nodeVars
<1>2. ASSUME NEW n \in Nodes, StatusOwed(n) PROVE StatusOwed(n)'
    <2>1. CASE \E r \in Requests : on[r] = n /\ pc[r] \in Unfinished
        BY <1>1, <2>1 DEF StatusOwed, OwingJob, Unfinished, WritePc
    <2>2. ASSUME NEW r \in Requests, job[<<r, n>>] = "sending" PROVE StatusOwed(n)'
        <3>1. pc'[r] = "aborted" /\ on'[r] = n
            BY <1>1, <2>2 DEF LostInv, Sends
        <3> QED
            BY <3>1 DEF StatusOwed, OwingJob, Unfinished
    <2>3. ASSUME NEW r \in Requests, job[<<r, n>>] \in OwingJob \ {"sending"}
          PROVE  StatusOwed(n)'
        <3>1. job'[<<r, n>>] \in OwingJob
            BY <1>1, <2>3
        <3> QED
            BY <1>1, <3>1 DEF StatusOwed, OwingJob, Closing
    <2> QED
        BY <1>2, <2>1, <2>2, <2>3 DEF StatusOwed, OwingJob, Unfinished
<1>3. "validate" \notin Ops => NoProbe'
    BY <1>1 DEF SettledInv, NoProbe
<1> QED
    BY <1>1, <1>2, <1>3, SettledFrame DEF Live

LEMMA SettledStep ==
    ASSUME LostInv, SettledInv, NoBootstrap, [Next]_vars
    PROVE  SettledNext
<1>1. ASSUME NEW r \in Requests, Begin(r) \/ Continue(r) \/ MirrorFails(r)
      PROVE  SettledNext
    <2>1. on[r] \in Nodes \/ ~Meta(r)
        BY DEF Meta, LostInv, TypeInv, Placed, WritePc
    <2> QED
        BY <1>1, <2>1, CallSettled, ValidationSettled, SendSettled DEF Continue
<1>2. ASSUME NEW p \in Procs, IndexThrows(p) PROVE SettledNext
    <2>1. pc[p] \in IndexPc
        BY <1>2 DEF IndexThrows, IndexPc
    <2> QED
        BY <1>2, <2>1, CatchSettled DEF IndexThrows
<1>3. ASSUME NEW ok \in BOOLEAN, FinishJob(ok) PROVE SettledNext
    <2>1. pc[Worker] = "schedule" /\ pc[Worker] \in IndexPc
        BY <1>3 DEF FinishJob, IndexPc
    <2> QED
        BY <1>3, <2>1, EndSettled DEF FinishJob, nodeVars
<1>4. CASE UNCHANGED vars
    <2>1. \A n \in Nodes : StatusOwed(n) => StatusOwed(n)'
        BY <1>4, StatusOwedStays DEF vars, procVars, jobVars
    <2> QED
        BY <1>4, <2>1, SettledFrame
        DEF vars, procVars, nodeVars, Live, SettledInv, NoProbe
<1>5. CASE Failure
    BY <1>1, <1>2, <1>3, <1>5, EscapeSettled, BackgroundSettled, CrashSettled DEF Failure
<1> QED
    BY <1>1, <1>3, <1>4, <1>5, IndexSettled, BackgroundSettled, QueueSettled
    DEF Next, Operator

\* With both, a status is owed until it is written, or a bootstrap begins.
LEMMA SettledInvariant == Spec => [](TypeInv /\ (NoBootstrap => LostInv /\ SettledInv))
<1>1. Init => SettledInv
    BY SettledInit
<1>2. TypeInv /\ (NoBootstrap => LostInv /\ SettledInv) /\ [Next]_vars
         => (NoBootstrap => SettledInv)'
    BY SettledStep, BootstrapBegun DEF TypeInv, SettledNext
<1> QED
    BY <1>1, <1>2, LostInvariant, PTL DEF Spec

\* When every job and request has ended well, every live node is shown as
\* indexed: unless a bootstrap has indexed beside the worker, or a citation
\* validation has written an older status back, which the run of
\* DocIndexCitation shows.
THEOREM QuietIsSettledHolds ==
    ASSUME "validate" \notin Ops
    PROVE  Spec => [](NoBootstrap => QuietIsSettled)
<1>1. SettledInv => QuietIsSettled
    <2> SUFFICES ASSUME SettledInv, Quiet, NEW n \in Nodes, Live(n), status[n] # "indexed"
                 PROVE  FALSE
        BY DEF QuietIsSettled
    <2>1. /\ \A r \in Requests : pc[r] \in {"idle", "done"}
          /\ \A r \in Requests : job[<<r, n>>] \in {"none", "completed"}
        BY DEF Quiet
    <2> QED
        BY <2>1 DEF SettledInv, StatusOwed, OwingJob, Unfinished, WritePc
<1> QED
    BY <1>1, SettledInvariant, PTL
=============================================================================
