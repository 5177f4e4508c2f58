------------------------- MODULE GitWritebackProofs -------------------------
(***************************************************************************)
(* Every property the runs check of GitWriteback, for any files, branches  *)
(* and bounds:                                                             *)
(*   - RemoteIsKept: it implements RemoteHistory.  A push moves the branch *)
(*     to HEAD when HEAD's history has the branch's tip; that the whole    *)
(*     history of the tip is kept follows from histories being closed      *)
(*     (HistoryInv), which holds as new commits extend the past of an      *)
(*     existing one: every name of a commit in the clone and the remote    *)
(*     must then be that of a commit made (NamesInv);                      *)
(*   - TypeCorrect, for which the commits must be counted: a run of a job  *)
(*     makes at most one (CountInv);                                       *)
(*   - CommitsOnlyEdited, from what the index has of files nobody edits    *)
(*     (EditedInv); PushesAreThere and SourceRefsTrue, from what a worker  *)
(*     finds in the clone that had it to itself (Apart) and from where its *)
(*     contents come (ShownInv).                                           *)
(***************************************************************************)
EXTENDS GitWriteback, FiniteSetTheorems, TLAPS

Made == DOMAIN commits
Names == Made \cup {NoCommit}

\* Commits are numbered without gaps, and a history contains the histories of
\* its commits.
HistoryInv ==
    /\ \E n \in Nat : Made = 1 .. n
    /\ \A c \in Made : commits[c].past \subseteq Made
    /\ \A c \in Made : \A d \in commits[c].past : commits[d].past \subseteq commits[c].past

Fields == {"here", "local", "track", "cut", "fetched", "head", "on", "index", "work"}

CloneNames(cl, names) ==
    /\ DOMAIN cl = Fields
    /\ cl.local \in [Branches -> names] /\ cl.track \in [Branches -> names]
    /\ cl.fetched \in names /\ cl.head \in names

\* Every name in the clone and in the remote is that of a commit made.
NamesInv ==
    /\ target \in Branches
    /\ remote \in [Branches -> Names]
    /\ CloneNames(clone, Names)

Inv == HistoryInv /\ NamesInv

LEMMA FreshCommit ==
    ASSUME HistoryInv
    PROVE  /\ NewCommit \in Nat \ Names
           /\ \E n \in Nat : Made \cup {NewCommit} = 1 .. n
<1>1. PICK n \in Nat : Made = 1 .. n
    BY DEF HistoryInv
<1>2. Cardinality(1 .. n) = n
    BY FS_Interval, n - 1 + 1 = n
<1>3. NewCommit = n + 1
    BY <1>1, <1>2 DEF NewCommit, Made
<1>4. Made \cup {NewCommit} = 1 .. (n + 1)
    BY <1>1, <1>3
<1> QED
    BY <1>1, <1>3, <1>4 DEF Names, NoCommit

\* A commit on top of another, or of none, changes no history.
LEMMA CommitAdded ==
    ASSUME HistoryInv, NEW tree, NEW by, NEW parent \in Names, AddCommit(tree, parent, by)
    PROVE  /\ HistoryInv'
           /\ \A c \in Names : Past(c)' = Past(c)
           /\ \E new \in Nat : /\ new = NewCommit
                              /\ Names' = Names \cup {new}
                              /\ Past(new)' = Past(parent) \cup {new}
<1>1. NewCommit \in Nat \ Names /\ \E n \in Nat : Made \cup {NewCommit} = 1 .. n
    BY FreshCommit
<1>2. Made' = Made \cup {NewCommit}
    BY DEF AddCommit, Made
<1>3. \A c \in Made : commits'[c] = commits[c]
    BY <1>1 DEF AddCommit, Made, Names
<1>4. commits'[NewCommit].past = Past(parent) \cup {NewCommit}
    BY DEF AddCommit
<1>5. Past(parent) \subseteq Made
    BY DEF HistoryInv, Past, Names
<1>6. \A d \in Past(parent) : commits[d].past \subseteq Past(parent)
    BY DEF HistoryInv, Past, Names
<1>7. \A c \in Made' : commits'[c].past \subseteq Made'
    BY <1>2, <1>3, <1>4, <1>5 DEF HistoryInv
<1>8. ASSUME NEW c \in Made', NEW d \in commits'[c].past
      PROVE  commits'[d].past \subseteq commits'[c].past
    <2>1. CASE c \in Made
        BY <2>1, <1>3, <1>8 DEF HistoryInv
    <2>2. CASE c = NewCommit
        BY <2>2, <1>3, <1>4, <1>5, <1>6, <1>8
    <2> QED
        BY <1>2, <2>1, <2>2
<1>9. Names' = Names \cup {NewCommit}
    BY <1>2 DEF Names
<1>10. \A c \in Names : Past(c)' = Past(c)
    BY <1>3 DEF Past, Names
<1>11. ASSUME NEW new \in Nat, new = NewCommit
       PROVE  Past(new)' = Past(parent) \cup {new}
    <2>1. new # NoCommit
        BY <1>1, <1>11 DEF Names
    <2> QED
        BY <2>1, <1>4, <1>11 DEF Past
<1>12. HistoryInv'
    BY <1>1, <1>2, <1>7, <1>8 DEF HistoryInv
<1> QED
    BY <1>1, <1>9, <1>10, <1>11, <1>12

-----------------------------------------------------------------------------
(* Inv is inductive.                                                       *)

LEMMA InitInv == Init => Inv
<1> SUFFICES ASSUME Init PROVE Inv
    OBVIOUS
<1>1. Made = {1} /\ commits[1].past = {1}
    BY DEF Init, Made
<1>2. HistoryInv
    <2>1. Made = 1 .. 1
        BY <1>1
    <2> QED
        BY <1>1, <2>1 DEF HistoryInv
<1>3. NamesInv
    <2>1. target \in Branches
        BY GitAssumption DEF Init, Branches
    <2>2. remote \in [Branches -> Names]
        BY <1>1 DEF Init, Names, Branches
    <2>3. CloneNames(clone, Names)
        BY DEF Init, NoClone, CloneNames, Fields, Names
    <2> QED
        BY <2>1, <2>2, <2>3 DEF NamesInv
<1> QED
    BY <1>2, <1>3 DEF Inv

\* Fetching and checking out only give the clone names it or the remote has.
LEMMA CheckedOutNames ==
    ASSUME Inv, NEW c \in Names, NEW on
    PROVE  CloneNames(CheckedOut(c, on), Names)
BY DEF Inv, NamesInv, CloneNames, CheckedOut, Fields

LEMMA FetchedNames ==
    ASSUME Inv, NEW b \in Branches
    PROVE  CloneNames(Fetched(b), Names)
BY DEF Inv, NamesInv, CloneNames, Fetched, Fields, Branches

\* As long as no commit is made, Inv is about the names alone.
LEMMA NoNewCommit ==
    ASSUME Inv, UNCHANGED <<commits, target>>,
           remote' \in [Branches -> Names], CloneNames(clone', Names)
    PROVE  Inv'
<1>1. Names' = Names
    BY DEF Names, Made
<1>2. HistoryInv'
    BY DEF Inv, HistoryInv, Made
<1>3. NamesInv'
    BY <1>1 DEF Inv, NamesInv, CloneNames
<1> QED
    BY <1>2, <1>3 DEF Inv

LEMMA NothingMoved ==
    ASSUME Inv, UNCHANGED <<commits, target, remote, clone>>
    PROVE  Inv'
BY NoNewCommit DEF Inv, NamesInv, CloneNames

\* A push moves a branch of the remote to HEAD.
LEMMA PushNames ==
    ASSUME Inv, remote' = [remote EXCEPT ![target] = clone.head]
    PROVE  remote' \in [Branches -> Names]
BY DEF Inv, NamesInv, CloneNames

\* runWriteback up to its commit: nothing is made, the remote stays.
LEMMA BeforeCommit ==
    ASSUME Inv, WbFetch \/ WbBranch \/ WbDiverged \/ WbApply \/ WbStage
    PROVE  Inv' /\ UNCHANGED <<commits, remote>>
<1>1. UNCHANGED <<commits, target, remote>>
    BY DEF WbFetch, WbBranch, WbDiverged, WbApply, WbStage, WbStays
<1>2. remote' \in [Branches -> Names]
    BY <1>1 DEF Inv, NamesInv
<1>3. CASE WbFetch
    <2>1. PICK b \in Branches : clone' = Fetched(b)
        <3>1. target \in Branches /\ "main" \in Branches
            BY DEF Inv, NamesInv, Branches
        <3> QED
            BY <1>3, <3>1 DEF WbFetch
    <2>2. CloneNames(clone', Names)
        BY <2>1, FetchedNames
    <2> QED
        BY <1>1, <1>2, <2>2, NoNewCommit
<1>4. CASE WbBranch
    <2>1. Tip \in Names
        BY DEF Tip, Inv, NamesInv, CloneNames
    <2>2. CASE UNCHANGED clone
        BY <1>1, <2>2, NothingMoved
    <2>3. CASE clone' = [CheckedOut(Tip, target) EXCEPT !.local[target] = Tip]
        <3>1. CloneNames(CheckedOut(Tip, target), Names)
            BY <2>1, CheckedOutNames
        <3>2. CloneNames(clone', Names)
            BY <2>1, <2>3, <3>1 DEF CloneNames, Fields
        <3> QED
            BY <1>1, <1>2, <3>2, NoNewCommit
    <2> QED
        BY <1>4, <2>2, <2>3 DEF WbBranch
<1>5. CASE WbDiverged
    BY <1>1, <1>5, NothingMoved DEF WbDiverged
<1>6. CASE WbApply \/ WbStage
    <2>1. CloneNames(clone', Names)
        BY <1>6 DEF WbApply, WbStage, Inv, NamesInv, CloneNames, Fields
    <2> QED
        BY <1>1, <1>2, <2>1, NoNewCommit
<1> QED
    BY <1>1, <1>3, <1>4, <1>5, <1>6

\* runSync makes no commit and does not write to the remote.
LEMMA SyncSteps ==
    ASSUME Inv, Sync
    PROVE  Inv' /\ UNCHANGED <<commits, remote>>
<1>1. UNCHANGED <<commits, target, remote>>
    BY DEF Sync, SyncStart, SyncFetch, SyncCheckout, SyncHead, SyncImport, SyncFails, SyncStays,
       Mishap
<1>2. remote' \in [Branches -> Names]
    BY <1>1 DEF Inv, NamesInv
<1>3. CASE UNCHANGED clone
    BY <1>1, <1>3, NothingMoved
<1>4. CASE SyncFetch
    <2>1. remote["main"] \in Names /\ "main" \in Branches
        BY DEF Inv, NamesInv, Branches
    <2>2. CASE clone' = [Fetched("main") EXCEPT !.cut = @ \cup {remote["main"]}]
        <3>1. CloneNames(Fetched("main"), Names)
            BY <2>1, FetchedNames
        <3>2. CloneNames(clone', Names)
            BY <2>2, <3>1 DEF CloneNames, Fields
        <3> QED
            BY <1>1, <1>2, <3>2, NoNewCommit
    <2>3. CASE ~clone.here
        <3> DEFINE tip == remote["main"]
        <3>1. /\ DOMAIN NoClone = Fields
              /\ NoClone.local \in [Branches -> Names]
              /\ NoClone.track \in [Branches -> Names]
            BY DEF NoClone, Fields, Names
        <3>2. clone' = [NoClone EXCEPT !.here = TRUE, !.cut = {tip},
                          !.local = [@ EXCEPT !["main"] = tip],
                          !.track = [@ EXCEPT !["main"] = tip],
                          !.fetched = tip, !.head = tip, !.on = "main",
                          !.index = FilesAt(tip), !.work = FilesAt(tip)]
            BY <1>4, <2>3 DEF SyncFetch
        <3>3. /\ DOMAIN clone' = Fields
              /\ clone'.local = [NoClone.local EXCEPT !["main"] = tip]
              /\ clone'.track = [NoClone.track EXCEPT !["main"] = tip]
              /\ clone'.fetched = tip /\ clone'.head = tip
            BY <3>1, <3>2 DEF Fields
        <3>4. CloneNames(clone', Names)
            BY <2>1, <3>1, <3>3 DEF CloneNames
        <3> QED
            BY <1>1, <1>2, <3>4, NoNewCommit
    <2> QED
        BY <1>4, <2>2, <2>3 DEF SyncFetch
<1>5. CASE clone' = CheckedOut(clone.fetched, Detached)
    <2>1. CloneNames(clone', Names)
        BY <1>5, CheckedOutNames DEF Inv, NamesInv, CloneNames
    <2> QED
        BY <1>1, <1>2, <2>1, NoNewCommit
<1> QED
    BY <1>3, <1>4, <1>5 DEF Sync, SyncStart, SyncCheckout, SyncHead, SyncImport, SyncFails

\* Neither do users, a job taken from the queue, a crash or the operator.
LEMMA OtherSteps ==
    ASSUME Inv, Users \/ (\E j \in jobs : Take(j) \/ TakeFails(j)) \/ Crash \/ Reset
    PROVE  Inv' /\ UNCHANGED <<commits, remote>>
<1>1. UNCHANGED <<commits, target, remote>>
    BY DEF Users, Save, Delete, Change, Take, TakeFails, Mishap, Crash, Reset
<1>2. CASE UNCHANGED clone
    BY <1>1, <1>2, NothingMoved
<1>3. CASE clone' = NoClone
    <2>1. CloneNames(clone', Names)
        BY <1>3 DEF CloneNames, NoClone, Fields, Names
    <2>2. remote' \in [Branches -> Names]
        BY <1>1 DEF Inv, NamesInv
    <2> QED
        BY <1>1, <2>1, <2>2, NoNewCommit
<1> QED
    BY <1>1, <1>2, <1>3 DEF Users, Save, Delete, Change, Take, TakeFails, Mishap, Crash, Reset

\* A push, whether its answer arrives or not.
LEMMA PushSteps ==
    ASSUME Inv, WbPush \/ WbFails
    PROVE  /\ Inv' /\ UNCHANGED commits
           /\ \/ UNCHANGED remote
              \/ Accepted(target) /\ remote' = [remote EXCEPT ![target] = clone.head]
<1>1. UNCHANGED <<commits, target>>
    BY DEF WbPush, WbFails
<1>2. \/ UNCHANGED remote
      \/ Accepted(target) /\ remote' = [remote EXCEPT ![target] = clone.head]
    BY DEF WbPush, WbFails
<1>3. remote' \in [Branches -> Names]
    BY <1>2, PushNames DEF Inv, NamesInv
<1>4. CloneNames(clone', Names)
    BY DEF WbPush, WbFails, Inv, NamesInv, CloneNames, Fields
<1> QED
    BY <1>1, <1>2, <1>3, <1>4, NoNewCommit

\* A commit of the writeback stays in the clone.
LEMMA CommitStep ==
    ASSUME Inv, WbCommit
    PROVE  Inv' /\ UNCHANGED remote /\ \A c \in Names : Past(c)' = Past(c)
<1>1. UNCHANGED <<target, remote>>
    BY DEF WbCommit, WbStays
<1>2. CASE UNCHANGED <<commits, clone>>
    <2>1. \A c \in Names : Past(c)' = Past(c)
        BY <1>2 DEF Past
    <2> QED
        BY <1>1, <1>2, <2>1, NothingMoved
<1>3. CASE /\ AddCommit(clone.index, clone.head, "writeback")
           /\ clone' = [clone EXCEPT !.head = NewCommit,
                          !.local = [b \in Branches |->
                                       IF b = clone.on THEN NewCommit ELSE @[b]]]
    <2>1. clone.head \in Names /\ HistoryInv
        BY DEF Inv, NamesInv, CloneNames
    <2>2. HistoryInv' /\ \A c \in Names : Past(c)' = Past(c)
        BY <1>3, <2>1, CommitAdded
    <2>3. Names' = Names \cup {NewCommit}
        BY <1>3, <2>1, CommitAdded
    <2>4. CloneNames(clone', Names \cup {NewCommit})
        BY <1>3 DEF Inv, NamesInv, CloneNames, Fields
    <2>5. remote' \in [Branches -> Names \cup {NewCommit}]
        BY <1>1 DEF Inv, NamesInv
    <2>6. NamesInv'
        BY <1>1, <2>3, <2>4, <2>5 DEF Inv, NamesInv, CloneNames
    <2> QED
        BY <1>1, <2>2, <2>6 DEF Inv
<1> QED
    BY <1>2, <1>3 DEF WbCommit

\* Somebody else's commit goes on top of the branch it is pushed to.
LEMMA ForeignStep ==
    ASSUME Inv, NEW b \in Branches, NEW f \in Files, NEW v, Foreign(b, f, v)
    PROVE  /\ Inv'
           /\ \A c \in Names : Past(c)' = Past(c)
           /\ \E new \in Nat : /\ remote' = [remote EXCEPT ![b] = new]
                              /\ Past(remote[b]) \subseteq Past(new)'
<1> DEFINE tree == [FilesAt(remote[b]) EXCEPT ![f] = v]
<1>1. AddCommit(tree, remote[b], "others") /\ HistoryInv /\ remote[b] \in Names
    BY DEF Foreign, Inv, NamesInv
<1> HIDE DEF tree
<1>2. HistoryInv' /\ \A c \in Names : Past(c)' = Past(c)
    BY <1>1, CommitAdded
<1>3. PICK new \in Nat : /\ new = NewCommit
                         /\ Names' = Names \cup {new}
                         /\ Past(new)' = Past(remote[b]) \cup {new}
    BY <1>1, CommitAdded
<1>4. remote' = [remote EXCEPT ![b] = new] /\ UNCHANGED <<clone, target>>
    BY <1>3 DEF Foreign
<1>5. remote' \in [Branches -> Names \cup {new}]
    BY <1>4 DEF Inv, NamesInv
<1>6. CloneNames(clone', Names \cup {new})
    BY <1>4 DEF Inv, NamesInv, CloneNames
<1>7. NamesInv'
    BY <1>3, <1>4, <1>5, <1>6 DEF Inv, NamesInv, CloneNames
<1> QED
    BY <1>2, <1>3, <1>4, <1>7 DEF Inv

\* The two workers, the users and the others keep the invariant.
LEMMA NextInv == Inv /\ [Next]_vars => Inv'
<1> SUFFICES ASSUME Inv, [Next]_vars PROVE Inv'
    OBVIOUS
<1>1. CASE UNCHANGED vars
    BY <1>1, NothingMoved DEF vars
<1>2. CASE Users
    BY <1>2, OtherSteps
<1>3. CASE Writeback
    BY <1>3, OtherSteps, BeforeCommit, CommitStep, PushSteps DEF Writeback
<1>4. CASE Sync
    BY <1>4, SyncSteps
<1>5. CASE Outside
    BY <1>5, OtherSteps, ForeignStep DEF Outside
<1> QED
    BY <1>1, <1>2, <1>3, <1>4, <1>5 DEF Next

\* In every reachable state histories are closed and all names are of commits
\* made.
THEOREM HistoriesClosed == Spec => []Inv
<1> QED
    BY InitInv, NextInv, PTL DEF Spec

-----------------------------------------------------------------------------
(* The refinement.                                                         *)

hist == [b \in Branches |-> Past(remote[b])]

\* HEAD's history contains that of every commit the clone finds in it.
LEMMA AcceptedKeeps ==
    ASSUME Inv, Accepted(target)
    PROVE  Past(remote[target]) \subseteq Past(clone.head)
<1>1. CASE remote[target] = NoCommit
    BY <1>1 DEF Past
<1>2. CASE remote[target] \in Known(clone.head)
    <2>1. remote[target] \in Past(clone.head)
        BY <1>2 DEF Known
    <2>2. clone.head \in Made /\ Past(clone.head) = commits[clone.head].past
        BY <2>1 DEF Inv, NamesInv, CloneNames, Names, Past
    <2>3. commits[remote[target]].past \subseteq Past(clone.head)
        BY <2>1, <2>2 DEF Inv, HistoryInv
    <2> QED
        BY <2>3 DEF Past
<1> QED
    BY <1>1, <1>2 DEF Accepted

\* Histories are sets of numbers.
LEMMA HistTyped == Inv => hist \in [Branches -> SUBSET Nat]
BY DEF hist, Inv, HistoryInv, NamesInv, Past, Names

\* Where no branch moves, no history does.
LEMMA SameHist ==
    ASSUME Inv, UNCHANGED remote, \A c \in Names : Past(c)' = Past(c)
    PROVE  UNCHANGED hist
<1>1. \A b \in Branches : Past(remote[b])' = Past(remote[b])
    BY DEF Inv, NamesInv
<1> QED
    BY <1>1 DEF hist

\* A branch that moves to a commit whose history has its own is a push.
LEMMA MovedIsPush ==
    ASSUME Inv, Inv', NEW b \in Branches, NEW new,
           remote' = [remote EXCEPT ![b] = new],
           Past(remote[b]) \subseteq Past(new)',
           \A c \in Names : Past(c)' = Past(c)
    PROVE  Remote!Push(b)
<1>1. remote'[b] = new /\ \A a \in Branches \ {b} : remote'[a] = remote[a]
    BY DEF Inv, NamesInv
<1>2. hist'[b] = Past(new)' /\ hist[b] = Past(remote[b])
    BY <1>1 DEF hist, Past
<1>3. \A a \in Branches \ {b} : hist'[a] = hist[a]
    BY <1>1 DEF hist, Past, Inv, NamesInv
<1>4. hist' \in [Branches -> SUBSET Nat]
    BY DEF hist, Inv, HistoryInv, NamesInv, Past, Names
<1>5. hist' = [hist EXCEPT ![b] = hist'[b]]
    BY <1>3, <1>4, HistTyped
<1>6. hist'[b] \in SUBSET Nat /\ hist[b] \subseteq hist'[b]
    BY <1>2, <1>4
<1> QED
    BY <1>5, <1>6 DEF Remote!Push, hist

LEMMA StepRefines == Inv /\ Inv' /\ [Next]_vars => [Remote!Next]_hist
<1> SUFFICES ASSUME Inv, Inv', [Next]_vars PROVE [Remote!Next]_hist
    OBVIOUS
<1>1. ASSUME UNCHANGED <<commits, remote>> PROVE UNCHANGED hist
    BY <1>1 DEF hist, Past
<1>2. CASE \/ UNCHANGED vars \/ Users \/ Sync \/ Crash \/ Reset
           \/ \E j \in jobs : Take(j) \/ TakeFails(j)
    BY <1>1, <1>2, OtherSteps, SyncSteps DEF vars
<1>3. CASE WbFetch \/ WbBranch \/ WbDiverged \/ WbApply \/ WbStage
    BY <1>1, <1>3, BeforeCommit
<1>4. CASE WbCommit
    BY <1>4, CommitStep, SameHist
<1>5. CASE WbPush \/ WbFails
    <2>1. CASE UNCHANGED remote
        BY <1>1, <1>5, <2>1, PushSteps
    <2>2. CASE Accepted(target) /\ remote' = [remote EXCEPT ![target] = clone.head]
        <3>1. UNCHANGED commits
            BY <1>5, PushSteps
        <3>2. \A c : Past(c)' = Past(c)
            BY <3>1 DEF Past
        <3>3. PICK new : new = clone.head
            OBVIOUS
        <3>4. Past(remote[target]) \subseteq Past(new)'
            BY <2>2, <3>1, <3>3, AcceptedKeeps DEF Past
        <3>5. target \in Branches /\ remote' = [remote EXCEPT ![target] = new]
            BY <2>2, <3>3 DEF Inv, NamesInv
        <3>6. Remote!Push(target)
            BY <3>2, <3>4, <3>5, MovedIsPush
        <3> QED
            BY <3>5, <3>6 DEF Remote!Next
    <2> QED
        BY <1>5, <2>1, <2>2, PushSteps
<1>6. ASSUME NEW b \in Branches, NEW f \in Files, NEW v, Foreign(b, f, v)
      PROVE  Remote!Next
    BY <1>6, ForeignStep, MovedIsPush DEF Remote!Next
<1> QED
    BY <1>2, <1>3, <1>4, <1>5, <1>6 DEF Next, Writeback, Outside

\* Whatever order syncs, writebacks, failures, crashes and pushes by others
\* take, each branch of the remote only ever gains commits.
THEOREM RemoteIsKept == Spec => RemoteKept
<1>1. Init => Remote!Init
    BY InitInv, HistTyped DEF Remote!Init, hist
<1>2. Spec => []Inv
    BY HistoriesClosed
<1>3. Inv /\ Inv' /\ [Next]_vars => [Remote!Next]_hist
    BY StepRefines
<1> QED
    BY <1>1, <1>2, <1>3, PTL DEF Spec, RemoteKept, Remote!Spec, hist

-----------------------------------------------------------------------------
(* Types.  Commits are bounded in the next section; here a name is that of *)
(* a commit made, or none.                                                 *)

Op == {"upsert", "delete"}
WbAt == {"idle", "fetch", "branch", "diverged", "apply", "stage", "commit", "push"}
SyncAt == {"idle", "fetch", "checkout", "head", "import"}
Statuses == {"idle", "running", "success", "failed", "writeback_blocked"}

CommitOf(made) == [past: SUBSET made, parent: made \cup {NoCommit},
                   files: Tree, by: {"others", "writeback"}]
CloneOf(names) == [here: BOOLEAN, local: [Branches -> names], track: [Branches -> names],
                   cut: SUBSET (names \ {NoCommit}), fetched: names, head: names,
                   on: Branches \cup {Detached}, index: Tree, work: Tree]
DocOf(names) == [v: Content, rev: names, born: 0 .. MaxSaves, in: BOOLEAN, mixed: BOOLEAN]
WbOf(names) == [at: WbAt, job: Job \cup {NoJob}, made: names, mixed: BOOLEAN]
SyncOf(names) == [at: SyncAt, rev: names, mixed: BOOLEAN]
Bounds == [saves: 0 .. MaxSaves, foreign: 0 .. MaxForeign, syncs: 0 .. MaxSyncs,
           resets: 0 .. MaxResets, mishaps: 0 .. MaxMishaps]

\* A worker that is busy has a job, and has made a commit before it pushes it.
Busy ==
    /\ wb.at # "idle" => wb.job \in Job /\ wb.job.file \in Editable
    /\ wb.at = "push" => wb.made \in Made
    /\ \A j \in jobs : j.file \in Editable

TypeInv ==
    /\ target \in Targets /\ push \in PushModes
    /\ \A c \in Made : commits[c] \in CommitOf(Made)
    /\ clone \in CloneOf(Names)
    /\ doc \in [Files -> DocOf(Names)]
    /\ jobs \subseteq Job
    /\ wb \in WbOf(Names)
    /\ sync \in SyncOf(Names)
    /\ status \in Statuses
    /\ pushed \subseteq [commit: Made, mixed: BOOLEAN]
    /\ written \subseteq Content
    /\ bounds \in Bounds
    /\ Busy

LEMMA TypeInit == Init => TypeInv
<1> SUFFICES ASSUME Init PROVE TypeInv
    OBVIOUS
<1>1. Made = {1} /\ Names = {0, 1}
    BY DEF Init, Made, Names, NoCommit
<1>2. 0 \in Content /\ 1 \in Content
    BY GitAssumption DEF Content
<1>3. commits[1] \in CommitOf(Made)
    BY <1>1, <1>2 DEF Init, CommitOf, Tree, NoCommit
<1>4. clone \in CloneOf(Names)
    BY <1>1, <1>2 DEF Init, CloneOf, NoClone, Tree, NoCommit, Absent
<1>5. doc \in [Files -> DocOf(Names)]
    BY <1>1, <1>2, GitAssumption DEF Init, DocOf, NoDoc, NoCommit, Absent
<1>6. wb \in WbOf(Names) /\ sync \in SyncOf(Names)
    BY <1>1 DEF Init, WbOf, IdleWb, WbAt, SyncOf, IdleSync, SyncAt, NoCommit
<1>7. bounds \in Bounds
    BY GitAssumption DEF Init, Bounds
<1>8. Busy
    BY DEF Init, Busy, IdleWb
<1> QED
    BY <1>1, <1>3, <1>4, <1>5, <1>6, <1>7, <1>8 DEF Init, TypeInv, Statuses

\* Work in the clone is on a commit; main is never deleted.
Ready ==
    /\ remote["main"] # NoCommit
    /\ wb.at # "idle" \/ sync.at \in {"checkout", "head", "import"} => clone.here
    /\ clone.here => clone.head # NoCommit /\ clone.fetched # NoCommit
    /\ sync.at = "import" => sync.rev # NoCommit

LEMMA ReadyInit == Init => Ready
BY DEF Init, Ready, NoClone, IdleWb, IdleSync, NoCommit, Branches

\* Jobs that end leave the clone to whoever works in it.
LEMMA ReadyStep ==
    ASSUME Inv, TypeInv, Ready, [Next]_vars
    PROVE  Ready'
<1>1. /\ remote \in [Branches -> Names] /\ target \in Branches /\ "main" \in Branches
      /\ NewCommit # NoCommit
    BY FreshCommit DEF Inv, NamesInv, Branches, Names
<1>2. CASE Users
    BY <1>2 DEF Ready, Users, Save, Delete, Change
<1>3. CASE \E j \in jobs : Take(j)
    <2>1. UNCHANGED <<remote, clone>> /\ sync'.at = sync.at /\ sync'.rev = sync.rev
        BY <1>3 DEF Take, TypeInv, SyncOf
    <2>2. wb'.at # "idle" => clone.here
        BY <1>3 DEF Take, Blocked, IdleWb
    <2> QED
        BY <2>1, <2>2 DEF Ready
<1>4. CASE WbFetch
    BY <1>1, <1>4 DEF TypeInv, WbOf, CloneOf, Ready, WbFetch, WbStays, Fetched
<1>5. CASE WbBranch
    <2>1. Tip # NoCommit
        BY <1>5 DEF Ready, WbBranch, Tip
    <2> QED
        BY <1>1, <1>5, <2>1
        DEF TypeInv, WbOf, CloneOf, Ready, WbBranch, WbStays, CheckedOut, Blocked, IdleWb
<1>6. CASE WbDiverged \/ WbApply \/ WbStage
    BY <1>6 DEF TypeInv, WbOf, CloneOf, Ready, WbDiverged, WbApply, WbStage, WbStays, Blocked,
       IdleWb
<1>7. CASE WbCommit
    BY <1>1, <1>7 DEF TypeInv, WbOf, CloneOf, Ready, WbCommit, WbStays, IdleWb
<1>8. CASE WbPush \/ WbFails
    <2>1. clone.head # NoCommit
        BY <1>8 DEF Ready, WbPush, WbFails
    <2>2. remote'["main"] # NoCommit
        BY <1>1, <1>8, <2>1 DEF Ready, WbPush, WbFails
    <2> QED
        BY <1>8, <2>2 DEF TypeInv, WbOf, CloneOf, Ready, WbPush, WbFails, Blocked, IdleWb
<1>9. CASE SyncStart \/ SyncImport \/ SyncFails
    <2>1. UNCHANGED <<remote, clone>> /\ wb'.at = wb.at /\ sync'.at \in {"fetch", "idle"}
        BY <1>9 DEF TypeInv, WbOf, SyncStart, SyncImport, SyncFails, SyncStays, IdleSync
    <2> QED
        BY <2>1 DEF Ready
<1>10. CASE SyncCheckout
    <2>1. UNCHANGED <<remote, wb>> /\ clone.here
        BY <1>10 DEF SyncCheckout, SyncStays, Ready
    <2>2. CASE sync' = IdleSync /\ UNCHANGED clone
        BY <2>1, <2>2 DEF Ready, IdleSync
    <2>3. CASE /\ clone' = CheckedOut(clone.fetched, Detached)
               /\ sync' = [sync EXCEPT !.at = "head"]
        <3>1. /\ clone'.here /\ clone'.head = clone.fetched /\ clone'.fetched = clone.fetched
              /\ sync'.at = "head"
            BY <2>1, <2>3 DEF CheckedOut, TypeInv, CloneOf, SyncOf
        <3> QED
            BY <2>1, <3>1 DEF Ready
    <2> QED
        BY <1>10, <2>2, <2>3 DEF SyncCheckout
<1>11. CASE SyncFetch
    <2> DEFINE tip == remote["main"]
    <2>1. UNCHANGED <<remote, wb>> /\ tip # NoCommit
        BY <1>11 DEF SyncFetch, SyncStays, Ready
    <2>2. CASE clone.here
        <3>1. clone' = [Fetched("main") EXCEPT !.cut = @ \cup {tip}]
            BY <1>11, <2>2 DEF SyncFetch
        <3>2. /\ clone'.here /\ clone'.head = clone.head /\ clone'.fetched = tip
              /\ sync'.at = "checkout"
            BY <1>11, <2>2, <3>1 DEF SyncFetch, Fetched, TypeInv, CloneOf, SyncOf
        <3> QED
            BY <2>1, <2>2, <3>2 DEF Ready
    <2>3. CASE ~clone.here
        <3>1. /\ clone'.here /\ clone'.head = tip /\ clone'.fetched = tip
              /\ sync'.at = "head"
            BY <1>11, <2>3 DEF SyncFetch, NoClone, TypeInv, SyncOf
        <3> QED
            BY <2>1, <3>1 DEF Ready
    <2> QED
        BY <2>2, <2>3
<1>12. CASE \E b \in Branches, f \in Files : \E v \in {Absent, NewContent} : Foreign(b, f, v)
    BY <1>1, <1>12 DEF Ready, Foreign
<1>13. CASE Reset \/ Crash
    BY <1>13 DEF Ready, Reset, Crash, NoClone, IdleWb, IdleSync
<1>14. CASE SyncHead
    BY <1>14 DEF SyncHead, SyncStays, Ready, TypeInv, SyncOf
<1>15. CASE UNCHANGED vars \/ \E j \in jobs : TakeFails(j)
    BY <1>15 DEF Ready, vars, TakeFails
<1> QED
    BY <1>2, <1>3, <1>4, <1>5, <1>6, <1>7, <1>8, <1>9, <1>10, <1>11, <1>12, <1>13,
       <1>14, <1>15
    DEF Next, Writeback, Sync, Outside

\* A checkout and a fetch leave a clone.
LEMMA CheckedOutType ==
    ASSUME TypeInv, NEW c \in Made, NEW on \in Branches \cup {Detached}
    PROVE  CheckedOut(c, on) \in CloneOf(Names)
<1>1. FilesAt(c) \in Tree
    BY DEF TypeInv, FilesAt, Names, CommitOf
<1> DEFINE moves == {f \in Files : /\ FilesAt(clone.head)[f] # FilesAt(c)[f]
                                   /\ clone.index[f] # FilesAt(c)[f]}
           Moved(tree) == [f \in Files |-> IF f \in moves THEN FilesAt(c)[f] ELSE tree[f]]
<1>2. Moved(clone.index) \in Tree /\ Moved(clone.work) \in Tree
    BY <1>1 DEF TypeInv, CloneOf, Tree
<1>3. CheckedOut(c, on) = [clone EXCEPT !.head = c, !.on = on,
                             !.index = Moved(clone.index), !.work = Moved(clone.work)]
    BY DEF CheckedOut, TypeInv, CloneOf
<1> HIDE DEF moves, Moved
<1> QED
    BY <1>2, <1>3 DEF TypeInv, CloneOf, Names

LEMMA FetchedType ==
    ASSUME TypeInv, NamesInv, NEW b \in Branches
    PROVE  Fetched(b) \in CloneOf(Names)
BY DEF TypeInv, NamesInv, Fetched, CloneOf, Branches

\* Where no commit is made and the clone is left alone.
Still == <<target, push, commits, remote, clone, written>>

LEMMA ContentFits ==
    ASSUME TypeInv, bounds.saves < MaxSaves \/ bounds.foreign < MaxForeign
    PROVE  NewContent \in Content
BY GitAssumption DEF TypeInv, Bounds, NewContent, Content

\* What the worker's next step is, and the commit it made, leave it its job.
LEMMA SameJob ==
    ASSUME TypeInv, NEW at, NEW made
    PROVE  /\ [wb EXCEPT !.at = at].job = wb.job
           /\ [wb EXCEPT !.at = at, !.made = made].job = wb.job
           /\ [wb EXCEPT !.at = at, !.made = made].at = at
BY DEF TypeInv, WbOf

LEMMA IdleWbType == IdleWb \in WbOf(Names) /\ IdleWb.at = "idle"
BY DEF IdleWb, WbOf, WbAt, Names

LEMMA UsersType ==
    ASSUME TypeInv, Users
    PROVE  TypeInv'
<1>1. PICK f \in Editable, whole \in BOOLEAN : Save(f, whole) \/ Delete(f, whole)
    BY DEF Users
<1>2. f \in Files /\ 0 \in Content /\ 0 \in Names
    BY GitAssumption DEF Content, Names, NoCommit
<1>3. /\ bounds.saves < MaxSaves
      /\ \/ bounds' = [bounds EXCEPT !.saves = @ + 1, !.mishaps = @]
         \/ /\ bounds.mishaps < MaxMishaps
            /\ bounds' = [bounds EXCEPT !.saves = @ + 1, !.mishaps = @ + 1]
      /\ UNCHANGED <<Still, wb, sync, status, pushed>>
    BY <1>1 DEF Save, Delete, Change, Still
<1>4. bounds' \in Bounds
    <2>1. bounds.saves + 1 \in 0 .. MaxSaves
        BY <1>3, GitAssumption DEF TypeInv, Bounds
    <2>2. bounds.mishaps < MaxMishaps => bounds.mishaps + 1 \in 0 .. MaxMishaps
        BY GitAssumption DEF TypeInv, Bounds
    <2> QED
        BY <1>3, <2>1, <2>2 DEF TypeInv, Bounds
<1>5. NewContent \in Content
    BY <1>3, ContentFits
<1>6. doc' \in [Files -> DocOf(Names)]
    <2>1. doc[f] \in DocOf(Names)
        BY <1>2 DEF TypeInv
    <2>2. [doc[f] EXCEPT !.v = NewContent, !.in = FALSE] \in DocOf(Names)
        BY <1>5, <2>1 DEF DocOf
    <2>3. NoDoc \in DocOf(Names)
        BY <1>2, GitAssumption DEF DocOf, NoDoc, NoCommit, Absent
    <2>4. \E d \in DocOf(Names) : doc' = [doc EXCEPT ![f] = d]
        BY <1>1, <2>1, <2>2, <2>3 DEF Save, Delete, Change
    <2> QED
        BY <2>4 DEF TypeInv
<1>7. jobs' \subseteq Job /\ \A j \in jobs' : j.file \in Editable
    <2>1. \A op \in Op : SavedJob(f, op) \in Job /\ SavedJob(f, op).file = f
        BY <1>2, <1>3, GitAssumption DEF SavedJob, Job, Op, TypeInv, Bounds
    <2>2. \E js \in {{}, {SavedJob(f, "upsert")}, {SavedJob(f, "delete")}} : jobs' = jobs \cup js
        BY <1>1 DEF Save, Delete, Change
    <2> QED
        BY <2>1, <2>2 DEF TypeInv, Busy, Op
<1> QED
    BY <1>3, <1>4, <1>6, <1>7 DEF TypeInv, Busy, Still, Names, Made

\* The worker of the writeback queue before it commits.
LEMMA TakeType ==
    ASSUME TypeInv, NEW j \in jobs, Take(j)
    PROVE  TypeInv'
<1>1. UNCHANGED <<Still, doc, pushed, bounds>> /\ jobs' \subseteq jobs
    BY DEF Take, Still
<1>2. (sync.at # "idle") \in BOOLEAN /\ j \in Job /\ NoCommit \in Names
    BY DEF Names, TypeInv
<1>3. /\ wb' \in WbOf(Names)
      /\ wb'.at # "idle" => wb'.job = j
      /\ wb'.at # "push"
    <2>1. CASE wb' = IdleWb
        BY <2>1, IdleWbType
    <2>2. CASE wb' = [at |-> "fetch", job |-> j, made |-> NoCommit, mixed |-> sync.at # "idle"]
        BY <1>2, <2>2 DEF WbOf, WbAt
    <2> QED
        BY <2>1, <2>2 DEF Take, Blocked
<1>4. sync' \in SyncOf(Names) /\ status' \in Statuses
    BY DEF Take, Blocked, TypeInv, SyncOf, Statuses
<1> QED
    BY <1>1, <1>3, <1>4 DEF TypeInv, Busy, Still, Names, Made

\* A job that goes back to the queue.
LEMMA TakeFailsType ==
    ASSUME TypeInv, NEW j \in jobs, TakeFails(j)
    PROVE  TypeInv'
<1>1. UNCHANGED <<Still, doc, wb, sync, status, pushed>>
    BY DEF TakeFails, Still
<1>2. bounds' \in Bounds
    BY GitAssumption DEF TakeFails, Mishap, TypeInv, Bounds
<1>3. j \in Job /\ j.file \in Editable
    BY DEF TypeInv, Busy
<1>4. Retried(j) \subseteq Job /\ \A i \in Retried(j) : i.file \in Editable
    BY <1>3, GitAssumption DEF Retried, Job
<1>5. jobs' \subseteq Job /\ \A i \in jobs' : i.file \in Editable
    BY <1>4 DEF TakeFails, TypeInv, Busy
<1> QED
    BY <1>1, <1>2, <1>5 DEF TypeInv, Busy, Still, Names, Made

\* The steps of a run up to its commit.
LEMMA BeforeCommitType ==
    ASSUME Inv, TypeInv, Ready, WbFetch \/ WbBranch \/ WbDiverged \/ WbApply \/ WbStage
    PROVE  TypeInv'
<1>1. /\ UNCHANGED <<target, push, commits, remote, doc, jobs, sync, pushed, bounds>>
      /\ wb.at # "idle"
    BY DEF WbFetch, WbBranch, WbDiverged, WbApply, WbStage, WbStays
<1>2. clone.here /\ 0 \in Content
    BY <1>1, GitAssumption DEF Ready, Content
<1>3. /\ \/ wb' = IdleWb
         \/ \E at \in WbAt \ {"push"} : wb' = [wb EXCEPT !.at = at]
      /\ status' \in Statuses
    BY DEF WbFetch, WbBranch, WbDiverged, WbApply, WbStage, Blocked, WbAt, TypeInv, Statuses
<1>4. wb' \in WbOf(Names) /\ (wb'.at # "idle" => wb'.job = wb.job) /\ wb'.at # "push"
    BY <1>3, IdleWbType DEF TypeInv, WbOf
<1>5. Busy'
    BY <1>1, <1>4 DEF TypeInv, Busy
<1>6. wb.job.file \in Files
    BY <1>1, GitAssumption DEF TypeInv, Busy
<1>7. Applied \in Content
    BY <1>2, <1>6 DEF Applied, TypeInv, DocOf, Absent
<1>8. written' \subseteq Content
    BY <1>7 DEF WbFetch, WbBranch, WbDiverged, WbApply, WbStage, TypeInv
<1>9. clone' \in CloneOf(Names)
    <2>1. CASE WbFetch
        <3>1. PICK b \in Branches : clone' = Fetched(b)
            BY <2>1 DEF WbFetch, Inv, NamesInv, Branches
        <3> QED
            BY <3>1, FetchedType DEF Inv
    <2>2. CASE WbBranch
        <3>1. Tip \in Made /\ target \in Branches
            BY <1>2 DEF Tip, Ready, Inv, NamesInv, CloneNames, Names
        <3>2. CheckedOut(Tip, target) \in CloneOf(Names) /\ Tip \in Names
            BY <3>1, CheckedOutType DEF Names
        <3>3. clone' \in {clone, [CheckedOut(Tip, target) EXCEPT !.local[target] = Tip]}
            BY <2>2 DEF WbBranch
        <3> QED
            BY <3>1, <3>2, <3>3 DEF TypeInv, CloneOf
    <2>3. CASE WbDiverged
        BY <2>3 DEF WbDiverged, TypeInv
    <2>4. CASE WbApply
        <3>1. clone' \in {clone, [clone EXCEPT !.work[wb.job.file] = Applied]}
            BY <2>4 DEF WbApply
        <3> QED
            BY <1>6, <1>7, <3>1 DEF TypeInv, CloneOf, Tree
    <2>5. CASE WbStage
        <3>1. clone.work[wb.job.file] \in Content
            BY <1>6 DEF TypeInv, CloneOf, Tree
        <3> QED
            BY <1>6, <2>5, <3>1 DEF WbStage, TypeInv, CloneOf, Tree
    <2> QED
        BY <2>1, <2>2, <2>3, <2>4, <2>5
<1> QED
    BY <1>1, <1>3, <1>4, <1>5, <1>8, <1>9 DEF TypeInv, Names, Made

\* What is typed stays so as commits are added.
LEMMA TypesGrow ==
    ASSUME NEW made, NEW more, made \subseteq more
    PROVE  /\ CommitOf(made) \subseteq CommitOf(more)
           /\ CloneOf(made \cup {NoCommit}) \subseteq CloneOf(more \cup {NoCommit})
           /\ DocOf(made \cup {NoCommit}) \subseteq DocOf(more \cup {NoCommit})
           /\ WbOf(made \cup {NoCommit}) \subseteq WbOf(more \cup {NoCommit})
           /\ SyncOf(made \cup {NoCommit}) \subseteq SyncOf(more \cup {NoCommit})
<1>1. made \cup {NoCommit} \subseteq more \cup {NoCommit}
    OBVIOUS
<1>2. CommitOf(made) \subseteq CommitOf(more)
    BY DEF CommitOf
<1>3. CloneOf(made \cup {NoCommit}) \subseteq CloneOf(more \cup {NoCommit})
    BY DEF CloneOf
<1>4. DocOf(made \cup {NoCommit}) \subseteq DocOf(more \cup {NoCommit})
    BY DEF DocOf
<1>5. WbOf(made \cup {NoCommit}) \subseteq WbOf(more \cup {NoCommit})
    BY DEF WbOf
<1>6. SyncOf(made \cup {NoCommit}) \subseteq SyncOf(more \cup {NoCommit})
    BY DEF SyncOf
<1> QED
    BY <1>2, <1>3, <1>4, <1>5, <1>6

\* A new commit is typed, and so are the others.
LEMMA CommitType ==
    ASSUME HistoryInv, TypeInv, NEW tree \in Tree, NEW by \in {"others", "writeback"},
           NEW parent \in Names, AddCommit(tree, parent, by)
    PROVE  /\ Made' = Made \cup {NewCommit}
           /\ \A c \in Made' : commits'[c] \in CommitOf(Made')
<1>1. Made' = Made \cup {NewCommit} /\ NewCommit \notin Made
    BY FreshCommit DEF AddCommit, Made, Names
<1>2. \A c \in Made : commits'[c] = commits[c]
    BY <1>1 DEF AddCommit, Made
<1>3. commits'[NewCommit] = [past |-> Past(parent) \cup {NewCommit}, parent |-> parent,
                             files |-> tree, by |-> by]
    BY DEF AddCommit
<1>4. Past(parent) \subseteq Made
    BY DEF HistoryInv, Past, Names
<1>5. commits'[NewCommit] \in CommitOf(Made')
    BY <1>1, <1>3, <1>4 DEF CommitOf, Names
<1>6. \A c \in Made : commits'[c] \in CommitOf(Made')
    BY <1>1, <1>2, TypesGrow DEF TypeInv
<1> QED
    BY <1>1, <1>5, <1>6

\* What a step that adds a commit does not touch keeps its type.
LEMMA GrownTypes ==
    ASSUME TypeInv, Made' = Made \cup {NewCommit}
    PROVE  /\ clone \in CloneOf(Names') /\ doc \in [Files -> DocOf(Names')]
           /\ wb \in WbOf(Names') /\ sync \in SyncOf(Names')
           /\ pushed \subseteq [commit: Made', mixed: BOOLEAN]
           /\ Made' \subseteq Names' /\ Names' = Names \cup {NewCommit}
<1>1. Names = Made \cup {NoCommit} /\ Names' = Made' \cup {NoCommit} /\ Made \subseteq Made'
    BY DEF Names
<1> QED
    BY <1>1, TypesGrow DEF TypeInv

LEMMA CommitStepType ==
    ASSUME Inv, TypeInv, WbCommit
    PROVE  TypeInv'
<1>1. /\ UNCHANGED <<target, push, remote, doc, jobs, sync, pushed, bounds, written>>
      /\ wb.at = "commit" /\ status' \in Statuses
    BY DEF WbCommit, WbStays, TypeInv, Statuses
<1>2. CASE UNCHANGED <<commits, clone>> /\ wb' = IdleWb
    BY <1>1, <1>2, IdleWbType DEF TypeInv, Busy, Names, Made
<1>3. CASE /\ AddCommit(clone.index, clone.head, "writeback")
           /\ clone' = [clone EXCEPT !.head = NewCommit,
                          !.local = [b \in Branches |->
                                       IF b = clone.on THEN NewCommit ELSE @[b]]]
           /\ wb' \in {IdleWb, [wb EXCEPT !.at = "push", !.made = NewCommit]}
    <2>1. clone.index \in Tree /\ clone.head \in Names /\ HistoryInv
        BY DEF TypeInv, CloneOf, Inv
    <2>2. Made' = Made \cup {NewCommit} /\ \A c \in Made' : commits'[c] \in CommitOf(Made')
        BY <1>3, <2>1, CommitType
    <2>3. /\ clone \in CloneOf(Names') /\ doc \in [Files -> DocOf(Names')]
          /\ wb \in WbOf(Names') /\ sync \in SyncOf(Names')
          /\ pushed \subseteq [commit: Made', mixed: BOOLEAN]
          /\ NewCommit \in Names' /\ NewCommit \in Made'
        BY <2>2, GrownTypes
    <2>4. clone' \in CloneOf(Names')
        <3> DEFINE loc == [b \in Branches |-> IF b = clone.on THEN NewCommit ELSE clone.local[b]]
        <3>1. loc \in [Branches -> Names']
            BY <2>3 DEF CloneOf
        <3>2. clone' = [clone EXCEPT !.head = NewCommit, !.local = loc]
            BY <1>3
        <3> QED
            BY <2>3, <3>1, <3>2 DEF CloneOf
    <2>5. wb' \in WbOf(Names') /\ (wb'.at # "idle" => wb'.job = wb.job /\ wb'.made = NewCommit)
        <3>1. IdleWb \in WbOf(Names')
            BY DEF IdleWb, WbOf, WbAt, Names
        <3> QED
            BY <1>3, <2>3, <3>1, IdleWbType DEF WbOf, WbAt
    <2>6. Busy'
        BY <1>1, <2>3, <2>5 DEF TypeInv, Busy
    <2> QED
        BY <1>1, <2>2, <2>3, <2>4, <2>5, <2>6 DEF TypeInv
<1> QED
    BY <1>2, <1>3 DEF WbCommit

LEMMA PushType ==
    ASSUME Inv, TypeInv, WbPush \/ WbFails
    PROVE  TypeInv'
<1>1. UNCHANGED <<target, push, commits, doc, jobs, sync, written>> /\ wb' = IdleWb
    BY DEF WbPush, WbFails, Blocked
<1>2. status' \in Statuses
    BY DEF WbPush, WbFails, Blocked, Statuses
<1>3. pushed' \subseteq [commit: Made, mixed: BOOLEAN]
    BY DEF WbPush, WbFails, TypeInv, Busy, WbOf
<1>4. clone' \in CloneOf(Names)
    BY DEF WbPush, WbFails, TypeInv, CloneOf
<1>5. bounds' \in Bounds
    BY GitAssumption DEF WbPush, WbFails, Mishap, TypeInv, Bounds
<1> QED
    BY <1>1, <1>2, <1>3, <1>4, <1>5, IdleWbType DEF TypeInv, Busy, Names, Made

\* A sync.
LEMMA SyncType ==
    ASSUME Inv, TypeInv, Ready, Sync
    PROVE  TypeInv'
<1>1. /\ UNCHANGED <<target, push, commits, remote, jobs, pushed, written>>
      /\ status' \in Statuses
    BY DEF Sync, SyncStart, SyncFetch, SyncCheckout, SyncHead, SyncImport, SyncFails, SyncStays,
           TypeInv, Statuses
<1>2. remote["main"] \in Made /\ NoCommit \in Names
    BY DEF Inv, NamesInv, Names, Branches, Ready
<1>3. bounds' \in Bounds
    BY GitAssumption
    DEF Sync, SyncStart, SyncFetch, SyncCheckout, SyncHead, SyncImport, SyncFails, Mishap,
        TypeInv, Bounds
<1>4. wb' \in WbOf(Names) /\ wb'.at = wb.at /\ wb'.job = wb.job /\ wb'.made = wb.made
    <2>1. CASE wb' = [wb EXCEPT !.mixed = @ \/ wb.at # "idle"]
        BY <2>1 DEF TypeInv, WbOf
    <2>2. CASE UNCHANGED wb
        BY <2>2 DEF TypeInv
    <2> QED
        BY <2>1, <2>2
        DEF Sync, SyncStart, SyncFetch, SyncCheckout, SyncHead, SyncImport, SyncFails, SyncStays
<1>5. sync' \in SyncOf(Names)
    <2>1. (wb.at # "idle") \in BOOLEAN /\ clone.fetched \in Names
        BY DEF TypeInv, CloneOf
    <2>2. CASE SyncStart
        <3>1. PICK mixed \in BOOLEAN : mixed = (wb.at # "idle")
            BY <2>1
        <3>2. sync' = [at |-> "fetch", rev |-> NoCommit, mixed |-> mixed]
            BY <2>2, <3>1 DEF SyncStart
        <3> QED
            BY <1>2, <3>2 DEF SyncOf, SyncAt
    <2>3. IdleSync \in SyncOf(Names)
        BY <1>2 DEF IdleSync, SyncOf, SyncAt
    <2>4. CASE SyncFetch \/ SyncCheckout
        <3>1. \/ sync' = IdleSync
              \/ sync' = [sync EXCEPT !.at = "checkout"]
              \/ sync' = [sync EXCEPT !.at = "head"]
            BY <2>4 DEF SyncFetch, SyncCheckout
        <3> QED
            BY <2>3, <3>1 DEF TypeInv, SyncOf, SyncAt
    <2>5. CASE SyncImport \/ SyncFails
        BY <2>5, <2>3 DEF SyncImport, SyncFails
    <2>6. CASE SyncHead
        BY <2>6 DEF SyncHead, TypeInv, CloneOf, SyncOf, SyncAt
    <2> QED
        BY <2>2, <2>4, <2>5, <2>6 DEF Sync
<1>6. clone' \in CloneOf(Names)
    <2>1. CASE SyncFetch
        <3> DEFINE tip == remote["main"]
        <3>1. FilesAt(tip) \in Tree /\ tip \in Names /\ tip # NoCommit
            BY <1>2 DEF TypeInv, FilesAt, CommitOf, Names, Ready
        <3>2. CASE clone' = [Fetched("main") EXCEPT !.cut = @ \cup {tip}]
            <4>1. Fetched("main") \in CloneOf(Names)
                BY FetchedType DEF Inv, Branches
            <4> QED
                BY <3>1, <3>2, <4>1 DEF CloneOf
        <3>3. CASE ~clone.here
            <4> DEFINE local == [NoClone.local EXCEPT !["main"] = tip]
                       track == [NoClone.track EXCEPT !["main"] = tip]
            <4>1. local \in [Branches -> Names] /\ track \in [Branches -> Names]
                BY <1>2, <3>1 DEF NoClone
            <4>2. clone' = [NoClone EXCEPT !.here = TRUE, !.cut = {tip},
                              !.local = local, !.track = track,
                              !.fetched = tip, !.head = tip, !.on = "main",
                              !.index = FilesAt(tip), !.work = FilesAt(tip)]
                BY <2>1, <3>3 DEF SyncFetch
            <4> HIDE DEF local, track, tip
            <4>3. clone' = [here |-> TRUE, local |-> local, track |-> track, cut |-> {tip},
                            fetched |-> tip, head |-> tip, on |-> "main",
                            index |-> FilesAt(tip), work |-> FilesAt(tip)]
                BY <4>2 DEF NoClone
            <4> QED
                BY <3>1, <4>1, <4>3 DEF CloneOf, Branches
        <3> QED
            BY <2>1, <3>2, <3>3 DEF SyncFetch
    <2>2. CASE SyncCheckout
        <3>1. clone.fetched \in Made
            BY <2>2 DEF SyncCheckout, Ready, Inv, NamesInv, CloneNames, Names
        <3> QED
            BY <2>2, <3>1, CheckedOutType DEF SyncCheckout, TypeInv
    <2> QED
        BY <2>1, <2>2 DEF Sync, SyncStart, SyncHead, SyncImport, SyncFails, TypeInv
<1>7. doc' \in [Files -> DocOf(Names)]
    <2>1. ASSUME NEW f \in Files PROVE Imported(f) \in DocOf(Names)
        <3>1. /\ clone.work[f] \in Content /\ sync.rev \in Names /\ sync.mixed \in BOOLEAN
              /\ doc[f] \in DocOf(Names) /\ bounds.saves \in 0 .. MaxSaves
            BY DEF TypeInv, CloneOf, Tree, SyncOf, Bounds
        <3>2. NoDoc \in DocOf(Names)
            BY <1>2, GitAssumption DEF DocOf, NoDoc, Content, Absent
        <3>3. \A b \in 0 .. MaxSaves :
                 [v |-> clone.work[f], rev |-> sync.rev, born |-> b, in |-> TRUE,
                  mixed |-> sync.mixed] \in DocOf(Names)
            BY <3>1 DEF DocOf
        <3>4. doc[f].born \in 0 .. MaxSaves
            BY <3>1 DEF DocOf
        <3> QED
            BY <3>1, <3>2, <3>3, <3>4 DEF Imported
    <2> QED
        BY <2>1 DEF Sync, SyncStart, SyncFetch, SyncCheckout, SyncHead, SyncImport, SyncFails,
           TypeInv
<1> QED
    BY <1>1, <1>3, <1>4, <1>5, <1>6, <1>7 DEF TypeInv, Busy, Names, Made

\* The rest of the world.
LEMMA ForeignType ==
    ASSUME Inv, TypeInv, NEW b \in Branches, NEW f \in Files, NEW v \in {Absent, NewContent},
           Foreign(b, f, v)
    PROVE  TypeInv'
<1> DEFINE tree == [FilesAt(remote[b]) EXCEPT ![f] = v]
<1>1. /\ UNCHANGED <<target, push, clone, doc, jobs, wb, sync, status, pushed, written>>
      /\ bounds.foreign < MaxForeign
    BY DEF Foreign
<1>2. v \in Content
    BY <1>1, ContentFits, GitAssumption DEF Content, Absent
<1>3. remote[b] \in Made
    BY DEF Foreign, Inv, NamesInv, Names
<1>4. tree \in Tree
    BY <1>2, <1>3 DEF TypeInv, FilesAt, CommitOf, Tree
<1>5. Made' = Made \cup {NewCommit} /\ \A c \in Made' : commits'[c] \in CommitOf(Made')
    <2>1. AddCommit(tree, remote[b], "others")
        BY DEF Foreign
    <2> HIDE DEF tree
    <2> QED
        BY <1>3, <1>4, <2>1, CommitType DEF Inv, Names
<1>6. bounds' \in Bounds
    BY <1>1, GitAssumption DEF Foreign, TypeInv, Bounds
<1> QED
    BY <1>1, <1>5, <1>6, GrownTypes DEF TypeInv, Busy

LEMMA OperatorType ==
    ASSUME TypeInv, Reset \/ Crash
    PROVE  TypeInv'
<1>1. UNCHANGED <<target, push, commits, remote, doc, status, pushed, written>>
    BY DEF Reset, Crash
<1>2. NoCommit \in Names /\ 0 \in Content
    BY GitAssumption DEF Names, Content
<1>3. clone' \in CloneOf(Names)
    <2>1. [f \in Files |-> Absent] \in Tree /\ [b \in Branches |-> NoCommit] \in [Branches -> Names]
        BY <1>2 DEF Tree, Absent
    <2>2. NoClone \in CloneOf(Names)
        BY <1>2, <2>1 DEF NoClone, CloneOf
    <2> QED
        BY <2>2 DEF Reset, Crash, TypeInv
<1>4. wb' \in WbOf(Names) /\ wb' \in {wb, IdleWb} /\ sync' \in SyncOf(Names)
    <2>1. IdleSync \in SyncOf(Names)
        BY <1>2 DEF IdleSync, SyncOf, SyncAt
    <2> QED
        BY <2>1, IdleWbType DEF Reset, Crash, TypeInv
<1>5. bounds' \in Bounds
    BY GitAssumption DEF Reset, Crash, Mishap, TypeInv, Bounds
<1>6. jobs' \subseteq Job /\ \A j \in jobs' : j.file \in Editable
    <2>1. ASSUME NEW j \in Job, j.file \in Editable
          PROVE  Retried(j) \subseteq Job /\ \A i \in Retried(j) : i.file \in Editable
        BY <2>1, GitAssumption DEF Retried, Job
    <2>2. CASE jobs' = jobs
        BY <2>2 DEF TypeInv, Busy
    <2>3. CASE wb.at # "idle" /\ jobs' = jobs \cup Retried(wb.job)
        BY <2>1, <2>3 DEF TypeInv, Busy
    <2> QED
        BY <2>2, <2>3 DEF Reset, Crash
<1> QED
    BY <1>1, <1>3, <1>4, <1>5, <1>6, IdleWbType DEF TypeInv, Busy, Names, Made

LEMMA TypeStep == Inv /\ TypeInv /\ Ready /\ [Next]_vars => TypeInv'
<1> SUFFICES ASSUME Inv, TypeInv, Ready, [Next]_vars PROVE TypeInv'
    OBVIOUS
<1>1. CASE UNCHANGED vars
    BY <1>1 DEF TypeInv, Busy, Names, Made, vars
<1>2. CASE Users
    BY <1>2, UsersType
<1>3. CASE Writeback
    BY <1>3, TakeType, TakeFailsType, BeforeCommitType, CommitStepType, PushType DEF Writeback
<1>4. CASE Sync
    BY <1>4, SyncType
<1>5. CASE Outside
    BY <1>5, ForeignType, OperatorType DEF Outside
<1> QED
    BY <1>1, <1>2, <1>3, <1>4, <1>5 DEF Next

-----------------------------------------------------------------------------
(* Commits are bounded: the writeback makes at most one for each run of a  *)
(* job, and a job has RetryLimit + 1 runs.                                 *)

\* Run k of the job of save i is still to come, or has made no commit yet.
HasRun(i, k) ==
    \/ \E j \in jobs : j.id = i /\ k <= j.left
    \/ /\ wb.at # "idle" /\ wb.job.id = i
       /\ k < wb.job.left \/ (k = wb.job.left /\ wb.at # "push")
    \/ i > bounds.saves

AllRuns == (1 .. MaxSaves) \X (0 .. RetryLimit)
Runs == {r \in AllRuns : HasRun(r[1], r[2])}

\* No two jobs are of one save.
OneJob ==
    /\ \A i, j \in jobs : i.id = j.id => i = j
    /\ \A j \in jobs : j.id <= bounds.saves
    /\ wb.at # "idle" => /\ wb.job.id <= bounds.saves
                         /\ \A j \in jobs : j.id # wb.job.id

CountInv ==
    /\ OneJob
    /\ Cardinality(Made) + Cardinality(Runs)
          <= 1 + bounds.foreign + MaxSaves * (RetryLimit + 1)

LEMMA RunsFinite ==
    /\ IsFiniteSet(AllRuns) /\ Cardinality(AllRuns) = MaxSaves * (RetryLimit + 1)
    /\ IsFiniteSet(Runs) /\ Cardinality(Runs) \in Nat
    /\ Cardinality(Runs) <= Cardinality(AllRuns)
<1>1. IsFiniteSet(1 .. MaxSaves) /\ Cardinality(1 .. MaxSaves) = MaxSaves
    <2>1. MaxSaves \in Nat
        BY GitAssumption
    <2>2. Cardinality(1 .. MaxSaves) = IF 1 > MaxSaves THEN 0 ELSE MaxSaves - 1 + 1
        BY <2>1, FS_Interval
    <2> QED
        BY <2>1, <2>2, FS_Interval
<1>2. IsFiniteSet(0 .. RetryLimit) /\ Cardinality(0 .. RetryLimit) = RetryLimit + 1
    <2>1. RetryLimit \in Nat
        BY GitAssumption
    <2>2. Cardinality(0 .. RetryLimit) = IF 0 > RetryLimit THEN 0 ELSE RetryLimit - 0 + 1
        BY <2>1, FS_Interval
    <2> QED
        BY <2>1, <2>2, FS_Interval
<1>3. IsFiniteSet(AllRuns) /\ Cardinality(AllRuns) = MaxSaves * (RetryLimit + 1)
    <2> DEFINE S == 1 .. MaxSaves
               T == 0 .. RetryLimit
    <2>1. /\ IsFiniteSet(S) /\ Cardinality(S) = MaxSaves
          /\ IsFiniteSet(T) /\ Cardinality(T) = RetryLimit + 1
        BY <1>1, <1>2
    <2> HIDE DEF S, T
    <2>2. IsFiniteSet(S \X T) /\ Cardinality(S \X T) = Cardinality(S) * Cardinality(T)
        BY <2>1, FS_Product
    <2>3. IsFiniteSet(S \X T) /\ Cardinality(S \X T) = MaxSaves * (RetryLimit + 1)
        BY <2>1, <2>2, Zenon
    <2> QED
        BY <2>3 DEF AllRuns, S, T
<1>4. Runs \in SUBSET AllRuns
    BY DEF Runs
<1> QED
    BY <1>3, <1>4, FS_Subset, FS_CardinalityType

LEMMA MadeFinite == ASSUME HistoryInv PROVE IsFiniteSet(Made) /\ Cardinality(Made) \in Nat
BY FS_Interval, FS_CardinalityType DEF HistoryInv

LEMMA CountInit == Init => CountInv
<1> SUFFICES ASSUME Init PROVE CountInv
    OBVIOUS
<1>1. Made = {1} /\ Cardinality(Made) = 1
    <2>1. Made = {1}
        BY DEF Init, Made
    <2> QED
        BY <2>1, FS_Singleton
<1>2. MaxSaves * (RetryLimit + 1) \in Nat
    BY RunsFinite, FS_CardinalityType
<1> QED
    BY <1>1, <1>2, RunsFinite DEF Init, CountInv, OneJob, IdleWb

\* Every step but a commit leaves as many runs to come or less.
LEMMA OneJobStep ==
    ASSUME Inv, TypeInv, OneJob, [Next]_vars
    PROVE  /\ OneJob'
           /\ \A i \in 1 .. MaxSaves, k \in 0 .. RetryLimit : HasRun(i, k)' => HasRun(i, k)
<1>0. /\ bounds.saves \in Nat /\ \A j \in jobs : j \in Job
      /\ \A j \in Job : j.id \in Nat /\ j.left \in 0 .. RetryLimit
      /\ wb.at # "idle" => wb.job \in Job
    BY GitAssumption DEF TypeInv, Bounds, Job, Busy
<1>1. ASSUME jobs' = jobs, bounds'.saves = bounds.saves,
             \/ wb'.at = "idle"
             \/ /\ wb.at # "idle" /\ wb'.job = wb.job
                /\ wb.at = "push" => wb'.at = "push"
      PROVE  /\ OneJob'
             /\ \A i \in 1 .. MaxSaves, k \in 0 .. RetryLimit : HasRun(i, k)' => HasRun(i, k)
    BY <1>1 DEF OneJob, HasRun
<1>2. CASE Users
    <2>1. PICK f \in Editable, op \in Op :
              /\ jobs' = jobs \/ jobs' = jobs \cup {SavedJob(f, op)}
              /\ wb' = wb /\ bounds'.saves = bounds.saves + 1
        BY <1>2 DEF Users, Save, Delete, Change, Op, TypeInv, Bounds
    <2>2. SavedJob(f, op).id = bounds.saves + 1
        BY DEF SavedJob
    <2>3. OneJob'
        BY <1>0, <2>1, <2>2 DEF OneJob
    <2>4. ASSUME NEW i \in 1 .. MaxSaves, NEW k \in 0 .. RetryLimit, HasRun(i, k)'
          PROVE  HasRun(i, k)
        BY <1>0, <2>1, <2>2, <2>4 DEF HasRun
    <2> QED
        BY <2>3, <2>4
<1>3. CASE \E j \in jobs : Take(j)
    <2>1. PICK j \in jobs : Take(j)
        BY <1>3
    <2>2. /\ wb.at = "idle" /\ jobs' = jobs \ {j} /\ bounds' = bounds
          /\ wb'.at = "idle" \/ (wb'.at = "fetch" /\ wb'.job = j)
        BY <2>1 DEF Take, Blocked, IdleWb
    <2>3. OneJob'
        BY <2>2 DEF OneJob
    <2>4. ASSUME NEW i \in 1 .. MaxSaves, NEW k \in 0 .. RetryLimit, HasRun(i, k)'
          PROVE  HasRun(i, k)
        BY <1>0, <2>2, <2>4 DEF HasRun
    <2> QED
        BY <2>3, <2>4
<1>4. CASE WbFetch \/ WbBranch \/ WbDiverged \/ WbApply \/ WbStage \/ WbCommit
    <2>1. jobs' = jobs /\ bounds' = bounds /\ wb.at \notin {"idle", "push"}
        BY <1>4 DEF WbFetch, WbBranch, WbDiverged, WbApply, WbStage, WbCommit, WbStays
    <2>2. \/ wb' = IdleWb
          \/ \E at \in WbAt : wb' = [wb EXCEPT !.at = at]
          \/ wb' = [wb EXCEPT !.at = "push", !.made = NewCommit]
        BY <1>4
        DEF WbFetch, WbBranch, WbDiverged, WbApply, WbStage, WbCommit, Blocked, WbAt
    <2>3. wb'.at = "idle" \/ wb'.job = wb.job
        <3>1. CASE wb' = IdleWb
            BY <3>1, IdleWbType
        <3>2. CASE \E at \in WbAt : wb' = [wb EXCEPT !.at = at]
            BY <3>2, SameJob
        <3>3. CASE wb' = [wb EXCEPT !.at = "push", !.made = NewCommit]
            BY <3>3, SameJob
        <3> QED
            BY <2>2, <3>1, <3>2, <3>3
    <2> QED
        BY <1>1, <2>1, <2>3
<1>5. CASE WbPush \/ WbFails
    BY <1>1, <1>5 DEF WbPush, WbFails, Blocked, IdleWb, Mishap, TypeInv, Bounds
<1>6. CASE Sync
    <2>1. jobs' = jobs /\ wb'.at = wb.at /\ wb'.job = wb.job
        BY <1>6
        DEF Sync, SyncStart, SyncFetch, SyncCheckout, SyncHead, SyncImport, SyncFails, SyncStays,
            TypeInv, WbOf
    <2>2. bounds'.saves = bounds.saves
        BY <1>6
        DEF Sync, SyncStart, SyncFetch, SyncCheckout, SyncHead, SyncImport, SyncFails, Mishap,
            TypeInv, Bounds
    <2> QED
        BY <1>1, <2>1, <2>2
<1>7. CASE Crash
    <2>1. bounds'.saves = bounds.saves /\ wb'.at = "idle"
        BY <1>7 DEF Crash, IdleWb, Mishap, TypeInv, Bounds
    <2>2. CASE wb.at = "idle"
        BY <1>1, <1>7, <2>1, <2>2 DEF Crash
    <2>3. CASE wb.at # "idle"
        <3>1. jobs' = jobs \cup Retried(wb.job)
            BY <1>7, <2>3 DEF Crash
        <3>2. \A r \in Retried(wb.job) : r.id = wb.job.id /\ r.left = wb.job.left - 1
            BY <1>0, <2>3 DEF Retried, Job
        <3>3. \A r, q \in Retried(wb.job) : r = q
            BY DEF Retried
        <3>4. OneJob'
            BY <1>0, <2>1, <2>3, <3>1, <3>2, <3>3 DEF OneJob
        <3>5. ASSUME NEW i \in 1 .. MaxSaves, NEW k \in 0 .. RetryLimit, HasRun(i, k)'
              PROVE  HasRun(i, k)
            BY <1>0, <2>1, <2>3, <3>1, <3>2, <3>5 DEF HasRun
        <3> QED
            BY <3>4, <3>5
    <2> QED
        BY <2>2, <2>3
<1>8. CASE Reset \/ \E b \in Branches, f \in Files : \E v \in {Absent, NewContent} : Foreign(b, f, v)
    BY <1>1, <1>8 DEF Reset, Foreign, TypeInv, Bounds
<1>9. CASE UNCHANGED vars
    BY <1>1, <1>9 DEF vars
<1>10. CASE \E j \in jobs : TakeFails(j)
    <2>1. PICK j \in jobs : TakeFails(j)
        BY <1>10
    <2>2. /\ wb.at = "idle" /\ wb' = wb /\ jobs' = (jobs \ {j}) \cup Retried(j)
          /\ bounds'.saves = bounds.saves
        BY <2>1 DEF TakeFails, Mishap, TypeInv, Bounds
    <2>3. /\ \A r \in Retried(j) : r.id = j.id /\ r.left = j.left - 1
          /\ j.left \in Nat
        BY <1>0, GitAssumption DEF Retried, Job
    <2>4. \A r, q \in Retried(j) : r = q
        BY DEF Retried
    <2>5. OneJob'
        BY <1>0, <2>2, <2>3, <2>4 DEF OneJob
    <2>6. ASSUME NEW i \in 1 .. MaxSaves, NEW k \in 0 .. RetryLimit, HasRun(i, k)'
          PROVE  HasRun(i, k)
        BY <1>0, <2>2, <2>3, <2>6 DEF HasRun
    <2> QED
        BY <2>5, <2>6
<1> QED
    BY <1>2, <1>3, <1>4, <1>5, <1>6, <1>7, <1>8, <1>9, <1>10 DEF Next, Writeback, Outside

\* A run ends with its commit.
LEMMA CommitEndsRun ==
    ASSUME TypeInv, OneJob, WbCommit, commits' # commits,
           NEW i, i = wb.job.id, NEW k, k = wb.job.left
    PROVE  /\ HasRun(i, k) /\ ~HasRun(i, k)'
           /\ i \in 1 .. MaxSaves /\ k \in 0 .. RetryLimit
<1>1. /\ wb.at = "commit" /\ wb.job \in Job /\ jobs' = jobs /\ bounds' = bounds
      /\ wb' = IdleWb \/ wb' = [wb EXCEPT !.at = "push", !.made = NewCommit]
    BY DEF WbCommit, WbStays, TypeInv, Busy
<1>2. \/ wb'.at = "idle"
      \/ wb'.at = "push" /\ wb'.job = wb.job
    <2>1. CASE wb' = IdleWb
        BY <2>1, IdleWbType
    <2>2. CASE wb' = [wb EXCEPT !.at = "push", !.made = NewCommit]
        BY <2>2, SameJob
    <2> QED
        BY <1>1, <2>1, <2>2
<1>3. /\ i \in 1 .. MaxSaves /\ k \in 0 .. RetryLimit /\ i <= bounds.saves
      /\ bounds.saves \in Nat /\ \A j \in jobs : j.id # i
    BY <1>1, GitAssumption DEF TypeInv, OneJob, Job, Bounds
<1> QED
    BY <1>1, <1>2, <1>3, GitAssumption DEF HasRun

\* Commits are made by the writeback and by others.
LEMMA WhoCommits ==
    ASSUME TypeInv, [Next]_vars
    PROVE  \/ commits' = commits /\ bounds'.foreign = bounds.foreign
           \/ /\ WbCommit /\ commits' # commits /\ bounds' = bounds
              /\ AddCommit(clone.index, clone.head, "writeback")
           \/ \E b \in Branches, f \in Files, v \in {Absent, NewContent} : Foreign(b, f, v)
<1>1. CASE Users
    BY <1>1 DEF Users, Save, Delete, Change, TypeInv, Bounds
<1>2. CASE \/ WbFetch \/ WbBranch \/ WbDiverged \/ WbApply \/ WbStage
           \/ \E j \in jobs : Take(j) \/ TakeFails(j)
    BY <1>2 DEF Take, TakeFails, Mishap, WbFetch, WbBranch, WbDiverged, WbApply, WbStage, WbStays,
           TypeInv, Bounds
<1>3. CASE WbCommit
    BY <1>3 DEF WbCommit, WbStays
<1>4. CASE WbPush \/ WbFails
    BY <1>4 DEF WbPush, WbFails, Mishap, TypeInv, Bounds
<1>5. CASE Sync
    BY <1>5
    DEF Sync, SyncStart, SyncFetch, SyncCheckout, SyncHead, SyncImport, SyncFails, SyncStays,
        Mishap,
        TypeInv, Bounds
<1>6. CASE Reset \/ Crash
    BY <1>6 DEF Reset, Crash, Mishap, TypeInv, Bounds
<1>7. CASE UNCHANGED vars
    BY <1>7 DEF vars
<1> QED
    BY <1>1, <1>2, <1>3, <1>4, <1>5, <1>6, <1>7 DEF Next, Writeback, Outside

LEMMA CountStep ==
    ASSUME Inv, TypeInv, CountInv, [Next]_vars
    PROVE  CountInv'
<1>1. /\ OneJob' /\ IsFiniteSet(Made) /\ Cardinality(Made) \in Nat
      /\ bounds.foreign \in Nat /\ Cardinality(Runs) \in Nat /\ IsFiniteSet(Runs)
      /\ MaxSaves * (RetryLimit + 1) \in Nat
      /\ \A i \in 1 .. MaxSaves, k \in 0 .. RetryLimit : HasRun(i, k)' => HasRun(i, k)
    <2>1. OneJob /\ HistoryInv
        BY DEF CountInv, Inv
    <2>2. bounds.foreign \in Nat
        BY GitAssumption DEF TypeInv, Bounds
    <2>3. MaxSaves * (RetryLimit + 1) \in Nat
        BY RunsFinite, FS_CardinalityType
    <2> QED
        BY <2>1, <2>2, <2>3, OneJobStep, MadeFinite, RunsFinite
<1>2. Runs' \subseteq Runs
    BY <1>1 DEF Runs, AllRuns
<1>3. Cardinality(Runs') \in Nat /\ Cardinality(Runs') <= Cardinality(Runs)
    BY <1>1, <1>2, FS_Subset, FS_CardinalityType
<1>4. ASSUME NEW tree, NEW by, NEW parent \in Names, AddCommit(tree, parent, by)
      PROVE  Cardinality(Made)' = Cardinality(Made) + 1
    <2>1. Made' = Made \cup {NewCommit} /\ NewCommit \notin Made
        BY <1>4, FreshCommit DEF Inv, AddCommit, Made, Names
    <2> QED
        BY <1>1, <2>1, FS_AddElement
<1>5. CASE commits' = commits /\ bounds'.foreign = bounds.foreign
    <2>1. Made' = Made
        BY <1>5 DEF Made
    <2> QED
        BY <1>1, <1>3, <1>5, <2>1 DEF CountInv
<1>6. CASE /\ WbCommit /\ commits' # commits /\ bounds' = bounds
           /\ AddCommit(clone.index, clone.head, "writeback")
    <2>1. Cardinality(Made)' = Cardinality(Made) + 1
        BY <1>4, <1>6 DEF Inv, NamesInv, CloneNames
    <2>2. PICK i, k : i = wb.job.id /\ k = wb.job.left
        OBVIOUS
    <2>3. /\ HasRun(i, k) /\ ~HasRun(i, k)'
          /\ i \in 1 .. MaxSaves /\ k \in 0 .. RetryLimit
        BY <1>6, <2>2, CommitEndsRun DEF CountInv
    <2>4. <<i, k>> \in Runs /\ <<i, k>> \notin Runs'
        BY <2>3 DEF Runs, AllRuns
    <2>5. Runs' \in SUBSET (Runs \ {<<i, k>>})
        BY <1>2, <2>4
    <2>6. /\ IsFiniteSet(Runs \ {<<i, k>>})
          /\ Cardinality(Runs \ {<<i, k>>}) = Cardinality(Runs) - 1
        BY <1>1, <2>4, FS_RemoveElement
    <2>7. Cardinality(Runs') <= Cardinality(Runs) - 1
        BY <2>5, <2>6, FS_Subset
    <2> QED
        BY <1>1, <1>3, <1>6, <2>1, <2>7 DEF CountInv
<1>7. ASSUME NEW b \in Branches, NEW f \in Files, NEW v, Foreign(b, f, v)
      PROVE  CountInv'
    <2>1. bounds'.foreign = bounds.foreign + 1
        BY <1>7 DEF Foreign, TypeInv, Bounds
    <2>2. Cardinality(Made)' = Cardinality(Made) + 1
        <3>1. \E tree : AddCommit(tree, remote[b], "others")
            BY <1>7 DEF Foreign
        <3> QED
            BY <1>4, <3>1 DEF Inv, NamesInv
    <2> QED
        BY <1>1, <1>3, <2>1, <2>2 DEF CountInv
<1> QED
    BY <1>5, <1>6, <1>7, WhoCommits

-----------------------------------------------------------------------------
(* Type correctness.                                                       *)

GitInv == Inv /\ TypeInv /\ Ready /\ CountInv

\* In every reachable state the parts are typed, the workers are ready for
\* their next step and the commits are within their bound.
THEOREM GitInvariant == Spec => []GitInv
<1>1. Init => GitInv
    BY InitInv, TypeInit, ReadyInit, CountInit DEF GitInv
<1>2. GitInv /\ [Next]_vars => GitInv'
    BY NextInv, TypeStep, ReadyStep, CountStep DEF GitInv
<1> QED
    BY <1>1, <1>2, PTL DEF Spec

\* The commits made are within the bound of TypeOK: each of them is the first
\* one, one of others, or that of one run of one job.
LEMMA MadeBounded ==
    ASSUME GitInv
    PROVE  Made \subseteq Commits /\ \E n \in Commits : Made = 1 .. n
<1> DEFINE most == 1 + MaxForeign + MaxSaves * (RetryLimit + 1)
<1>1. PICK n \in Nat : Made = 1 .. n
    BY DEF GitInv, Inv, HistoryInv
<1>2. Cardinality(Made) = n
    BY <1>1, FS_Interval, n - 1 + 1 = n
<1>3. MaxSaves * (RetryLimit + 1) \in Nat /\ Cardinality(Runs) \in Nat
    BY RunsFinite, FS_CardinalityType
<1>4. n <= most
    BY <1>2, <1>3, GitAssumption DEF GitInv, CountInv, TypeInv, Bounds
<1>5. n >= 1
    BY <1>1 DEF GitInv, Ready, Inv, NamesInv, Names, Branches
<1> QED
    BY <1>1, <1>3, <1>4, <1>5, GitAssumption DEF Commits

\* The types of git's commits, branches and clone, of documents, jobs and
\* workers hold in every reachable state.
THEOREM TypeCorrect == Spec => []TypeOK
<1>1. GitInv => TypeOK
    <2> SUFFICES ASSUME GitInv PROVE TypeOK
        OBVIOUS
    <2>1. Made \subseteq Commits /\ \E n \in Commits : Made = 1 .. n
        BY MadeBounded
    <2>2. Names \subseteq Commits \cup {NoCommit}
        BY <2>1 DEF Names
    <2>3. \A c \in DOMAIN commits : commits[c] \in Commit
        BY <2>1 DEF GitInv, TypeInv, CommitOf, Commit, Made
    <2>4. clone \in Clone
        <3>1. clone \in CloneOf(Names)
            BY DEF GitInv, TypeInv
        <3>2. CloneOf(Names) \subseteq CloneOf(Commits \cup {NoCommit})
            BY <2>1, TypesGrow DEF Names
        <3>3. (Commits \cup {NoCommit}) \ {NoCommit} = Commits
            BY DEF Commits, NoCommit
        <3> QED
            BY <3>1, <3>2, <3>3 DEF CloneOf, Clone
    <2>5. doc \in [Files -> Doc]
        BY <2>2 DEF GitInv, TypeInv, DocOf, Doc
    <2>6. remote \in [Branches -> Commits \cup {NoCommit}]
        BY <2>2 DEF GitInv, Inv, NamesInv
    <2>7. /\ wb.at \in WbAt /\ wb.job \in Job \cup {NoJob} /\ wb.mixed \in BOOLEAN
          /\ wb.made \in Commits \cup {NoCommit}
        BY <2>2 DEF GitInv, TypeInv, WbOf
    <2>8. /\ sync.at \in SyncAt /\ sync.mixed \in BOOLEAN
          /\ sync.rev \in Commits \cup {NoCommit}
        BY <2>2 DEF GitInv, TypeInv, SyncOf
    <2>9. pushed \subseteq [commit: Commits, mixed: BOOLEAN]
        BY <2>1 DEF GitInv, TypeInv
    <2>10. /\ target \in Targets /\ push \in PushModes /\ jobs \subseteq Job
           /\ status \in Statuses /\ written \subseteq Content /\ bounds \in Bounds
        BY DEF GitInv, TypeInv
    <2>11. DOMAIN commits \in {1 .. n : n \in Commits}
        BY <2>1 DEF Made
    <2> QED
        BY <2>3, <2>4, <2>5, <2>6, <2>7, <2>8, <2>9, <2>10, <2>11
        DEF TypeOK, WbAt, SyncAt, Statuses, Bounds
<1> QED
    BY <1>1, GitInvariant, PTL

-----------------------------------------------------------------------------
(* What a step may do to HEAD, the index and the working tree.             *)

\* A commit, once made, is never changed.
LEMMA CommitsKept ==
    ASSUME Inv, TypeInv, [Next]_vars
    PROVE  Made \subseteq Made' /\ \A c \in Made : commits'[c] = commits[c]
<1>1. ASSUME NEW tree, NEW by, NEW parent, AddCommit(tree, parent, by)
      PROVE  Made \subseteq Made' /\ \A c \in Made : commits'[c] = commits[c]
    BY <1>1, FreshCommit DEF Inv, AddCommit, Made, Names
<1>2. CASE commits' = commits
    BY <1>2 DEF Made
<1>3. ASSUME NEW b \in Branches, NEW f \in Files, NEW v, Foreign(b, f, v)
      PROVE  Made \subseteq Made' /\ \A c \in Made : commits'[c] = commits[c]
    <2>1. \E tree : AddCommit(tree, remote[b], "others")
        BY <1>3 DEF Foreign
    <2> QED
        BY <1>1, <2>1
<1> QED
    BY <1>1, <1>2, <1>3, WhoCommits

SameTrees ==
    /\ clone'.here = clone.here /\ clone'.head = clone.head
    /\ clone'.index = clone.index /\ clone'.work = clone.work

ChecksOut(c) ==
    /\ clone.here /\ clone'.here /\ clone'.head = c
    /\ \E on \in Branches \cup {Detached} :
          /\ clone'.index = CheckedOut(c, on).index
          /\ clone'.work = CheckedOut(c, on).work

Clones(c) ==
    /\ clone'.here /\ clone'.head = c
    /\ clone'.index = FilesAt(c) /\ clone'.work = FilesAt(c)

Applies ==
    /\ wb.at = "apply" /\ written' = written \cup {Applied}
    /\ clone' = [clone EXCEPT !.work[wb.job.file] = Applied]

Stages ==
    /\ wb.at = "stage"
    /\ clone' = [clone EXCEPT !.index[wb.job.file] = clone.work[wb.job.file]]

MakesCommit ==
    /\ wb.at = "commit"
    /\ AddCommit(clone.index, clone.head, "writeback")
    /\ clone'.here = clone.here /\ clone'.head = NewCommit
    /\ clone'.index = clone.index /\ clone'.work = clone.work

LEMMA TreesMove ==
    ASSUME Inv, TypeInv, Ready, [Next]_vars
    PROVE  /\ written' = written \/ Applies
           /\ \/ SameTrees
              \/ \E c \in Made : ChecksOut(c) \/ Clones(c)
              \/ Applies \/ Stages \/ MakesCommit
              \/ ~clone'.here
<1>1. CASE UNCHANGED <<clone, written>>
    BY <1>1 DEF SameTrees
<1>2. CASE WbFetch
    BY <1>2 DEF WbFetch, Fetched, SameTrees, TypeInv, CloneOf
<1>3. CASE WbBranch
    <2>1. clone.here /\ Tip \in Made /\ target \in Branches /\ written' = written
        BY <1>3 DEF WbBranch, Tip, Ready, Inv, NamesInv, CloneNames, Names
    <2>2. CASE clone' = [CheckedOut(Tip, target) EXCEPT !.local[target] = Tip]
        <3>1. CheckedOut(Tip, target) \in CloneOf(Names)
            BY <2>1, CheckedOutType
        <3>2. CheckedOut(Tip, target).here /\ CheckedOut(Tip, target).head = Tip
            BY <2>1 DEF CheckedOut, TypeInv, CloneOf
        <3>3. ChecksOut(Tip)
            BY <2>1, <2>2, <3>1, <3>2 DEF ChecksOut, CloneOf
        <3> QED
            BY <2>1, <3>3
    <2> QED
        BY <1>1, <1>3, <2>1, <2>2 DEF WbBranch
<1>4. CASE WbDiverged
    BY <1>1, <1>4 DEF WbDiverged
<1>5. CASE WbApply
    BY <1>1, <1>5 DEF WbApply, Applies
<1>6. CASE WbStage
    BY <1>6 DEF WbStage, Stages
<1>7. CASE WbCommit
    <2>1. CASE UNCHANGED clone
        BY <1>1, <1>7, <2>1 DEF WbCommit
    <2>2. CASE clone.index # FilesAt(clone.head)
        BY <1>7, <2>2 DEF WbCommit, MakesCommit, TypeInv, CloneOf
    <2> QED
        BY <1>7, <2>1, <2>2 DEF WbCommit
<1>8. CASE WbPush \/ WbFails
    BY <1>8 DEF WbPush, WbFails, SameTrees, TypeInv, CloneOf
<1>9. CASE SyncFetch
    <2> DEFINE tip == remote["main"]
    <2>1. tip \in Made /\ written' = written
        BY <1>9 DEF SyncFetch, SyncStays, Ready, Inv, NamesInv, Names, Branches
    <2>2. CASE clone' = [Fetched("main") EXCEPT !.cut = @ \cup {tip}]
        BY <2>1, <2>2 DEF Fetched, SameTrees, TypeInv, CloneOf
    <2>3. CASE ~clone.here
        <3>1. Clones(tip)
            BY <1>9, <2>3 DEF SyncFetch, NoClone, Clones
        <3> QED
            BY <2>1, <3>1
    <2> QED
        BY <1>9, <2>2, <2>3 DEF SyncFetch
<1>10. CASE SyncCheckout
    <2>1. clone.here /\ clone.fetched \in Made /\ written' = written
        BY <1>10 DEF SyncCheckout, SyncStays, Ready, Inv, NamesInv, CloneNames, Names
    <2>2. CASE clone' = CheckedOut(clone.fetched, Detached)
        <3>1. clone'.here /\ clone'.head = clone.fetched
            BY <2>1, <2>2 DEF CheckedOut, TypeInv, CloneOf
        <3>2. ChecksOut(clone.fetched)
            BY <2>1, <2>2, <3>1 DEF ChecksOut
        <3> QED
            BY <2>1, <3>2
    <2> QED
        BY <1>1, <1>10, <2>1, <2>2 DEF SyncCheckout
<1>11. CASE Reset
    BY <1>11 DEF Reset, NoClone
<1> QED
    BY <1>1, <1>2, <1>3, <1>4, <1>5, <1>6, <1>7, <1>8, <1>9, <1>10, <1>11
    DEF Next, Users, Save, Delete, Change, Writeback, Take, TakeFails, Sync, SyncStart, SyncHead,
        SyncImport,
        SyncFails, SyncStays, Outside, Foreign, Crash, vars

\* A checkout leaves in the index, of each file, what HEAD has or what it had
\* staged.
LEMMA CheckoutIndex ==
    ASSUME TypeInv, NEW c \in Made, NEW on \in Branches \cup {Detached}, NEW f \in Files
    PROVE  LET out == CheckedOut(c, on)
           IN  \/ out.index[f] = FilesAt(c)[f] /\ out.work[f] = FilesAt(c)[f]
               \/ /\ out.index[f] = clone.index[f] /\ out.work[f] = clone.work[f]
                  /\ FilesAt(c)[f] \in {FilesAt(clone.head)[f], clone.index[f]}
BY DEF CheckedOut, TypeInv, CloneOf, Tree

-----------------------------------------------------------------------------
(* Commits of the writeback.                                               *)

\* Of a file that nobody edits in the knowledge base, the index has what HEAD
\* has, whatever a job that died has left there.
EditedInv ==
    /\ OnlyEditedFiles
    /\ \A c \in Made : commits[c].by = "writeback" => commits[c].parent \in Made
    /\ clone.here => \A f \in Files \ Editable : clone.index[f] = FilesAt(clone.head)[f]

LEMMA EditedInit == Init => EditedInv
BY DEF Init, EditedInv, OnlyEditedFiles, NoClone, Made

LEMMA EditedStep ==
    ASSUME GitInv, EditedInv, [Next]_vars
    PROVE  EditedInv'
<1>1. /\ Inv /\ TypeInv /\ Ready /\ HistoryInv
      /\ clone.here => clone.head \in Made
      /\ \A c \in Made : c \in Made' /\ commits'[c] = commits[c]
      /\ \A c \in Made : commits'[c].files = FilesAt(c)
    <2>1. Inv /\ TypeInv /\ Ready /\ HistoryInv
        BY DEF GitInv, Inv
    <2>2. \A c \in Made : c \in Made' /\ commits'[c] = commits[c]
        BY <2>1, CommitsKept
    <2> QED
        BY <2>1, <2>2 DEF Ready, Inv, NamesInv, CloneNames, Names, FilesAt
<1>2. clone'.here => \A f \in Files \ Editable : clone'.index[f] = commits'[clone'.head].files[f]
    <2>1. CASE SameTrees
        BY <1>1, <2>1 DEF SameTrees, EditedInv, FilesAt
    <2>2. ASSUME NEW c \in Made, ChecksOut(c)
          PROVE  \A f \in Files \ Editable : clone'.index[f] = commits'[clone'.head].files[f]
        <3>1. \A f \in Files \ Editable : clone'.index[f] = FilesAt(c)[f]
            BY <1>1, <2>2, CheckoutIndex DEF ChecksOut, EditedInv
        <3> QED
            BY <1>1, <2>2, <3>1 DEF ChecksOut, FilesAt
    <2>3. ASSUME NEW c \in Made, Clones(c)
          PROVE  \A f \in Files \ Editable : clone'.index[f] = commits'[clone'.head].files[f]
        BY <1>1, <2>3 DEF Clones, FilesAt
    <2>4. CASE Applies
        <3>1. clone'.here = clone.here /\ clone'.head = clone.head /\ clone'.index = clone.index
            BY <2>4 DEF Applies, GitInv, TypeInv, CloneOf
        <3> QED
            BY <1>1, <3>1 DEF EditedInv, FilesAt
    <2>5. CASE Stages
        <3>1. wb.job.file \in Editable
            BY <2>5 DEF Stages, GitInv, TypeInv, Busy
        <3>2. /\ clone'.here = clone.here /\ clone'.head = clone.head
              /\ \A f \in Files \ Editable : clone'.index[f] = clone.index[f]
            BY <2>5, <3>1 DEF Stages, GitInv, TypeInv, CloneOf, Tree
        <3> QED
            BY <1>1, <3>2 DEF EditedInv, FilesAt
    <2>6. CASE MakesCommit
        <3>1. commits'[clone'.head].files = clone.index
            BY <2>6 DEF MakesCommit, AddCommit
        <3> QED
            BY <2>6, <3>1 DEF MakesCommit
    <2> QED
        BY <1>1, <2>1, <2>2, <2>3, <2>4, <2>5, <2>6, TreesMove
<1>3. ASSUME NEW c \in Made', commits'[c].by = "writeback"
      PROVE  /\ commits'[c].parent \in Made'
             /\ \A f \in Files \ Editable :
                   commits'[c].files[f] = commits'[commits'[c].parent].files[f]
    <2>1. CASE c \in Made
        BY <1>1, <1>3, <2>1 DEF EditedInv, OnlyEditedFiles, Made
    <2>2. ASSUME NEW tree, NEW by, NEW parent, AddCommit(tree, parent, by), c \notin Made
          PROVE  commits'[c].parent = parent /\ commits'[c].files = tree /\ commits'[c].by = by
        BY <2>2 DEF AddCommit, Made
    <2>3. CASE /\ WbCommit /\ AddCommit(clone.index, clone.head, "writeback")
               /\ c \notin Made
        <3>1. clone.here
            BY <1>1, <2>3 DEF WbCommit, Ready
        <3>2. commits'[c].parent = clone.head /\ commits'[c].files = clone.index
            BY <2>2, <2>3
        <3> QED
            BY <1>1, <3>1, <3>2 DEF EditedInv, FilesAt
    <2>4. ASSUME NEW b \in Branches, NEW f \in Files, NEW v, Foreign(b, f, v)
          PROVE  c \in Made
        <3>1. \E tree : AddCommit(tree, remote[b], "others")
            BY <2>4 DEF Foreign
        <3> QED
            BY <1>3, <2>2, <3>1
    <2> QED
        BY <1>1, <2>1, <2>3, <2>4, WhoCommits DEF Made
<1> QED
    BY <1>2, <1>3 DEF EditedInv, OnlyEditedFiles, Made, FilesAt

\* No commit of the service changes a file for which the knowledge base had
\* nothing to write, whatever checkouts carry along and crashes leave behind.
THEOREM CommitsOnlyEdited == Spec => []OnlyEditedFiles
<1>1. GitInv /\ EditedInv /\ [Next]_vars => EditedInv'
    BY EditedStep
<1>2. EditedInv => OnlyEditedFiles
    BY DEF EditedInv
<1> QED
    BY <1>1, <1>2, EditedInit, GitInvariant, PTL DEF Spec

-----------------------------------------------------------------------------
(* The two workers in one clone.                                           *)

\* Workers that are busy at the same time are marked; one that had the clone
\* to itself finds HEAD where it has put it.
Apart ==
    /\ wb.at # "idle" /\ sync.at # "idle" => wb.mixed /\ sync.mixed
    /\ wb.at = "push" /\ ~wb.mixed => clone.head = wb.made
    /\ sync.at = "import" /\ ~sync.mixed => clone.here /\ clone.head = sync.rev

LEMMA ApartInit == Init => Apart
BY DEF Init, Apart, IdleWb, IdleSync

LEMMA ApartStep ==
    ASSUME GitInv, Apart, [Next]_vars
    PROVE  Apart'
<1>1. /\ TypeInv /\ wb \in WbOf(Names) /\ sync \in SyncOf(Names) /\ clone \in CloneOf(Names)
      /\ wb.mixed \in BOOLEAN /\ sync.mixed \in BOOLEAN /\ IdleSync.at = "idle"
    BY DEF GitInv, TypeInv, WbOf, SyncOf, IdleSync
<1>2. CASE Users
    BY <1>2 DEF Apart, Users, Save, Delete, Change
<1>3. CASE \E j \in jobs : Take(j)
    <2>1. PICK j \in jobs : Take(j)
        BY <1>3
    <2>2. UNCHANGED clone /\ wb.at = "idle"
        BY <2>1 DEF Take
    <2>3. CASE UNCHANGED sync /\ wb' = IdleWb
        BY <2>2, <2>3, IdleWbType DEF Apart
    <2>4. CASE clone.here
        <3>1. wb' = [at |-> "fetch", job |-> j, made |-> NoCommit, mixed |-> sync.at # "idle"]
            BY <2>1, <2>4 DEF Take
        <3>2. wb'.at = "fetch" /\ (sync.at # "idle" => wb'.mixed)
            BY <3>1
        <3>3. sync' = [sync EXCEPT !.mixed = sync.mixed \/ sync.at # "idle"]
            BY <2>1, <2>4 DEF Take
        <3>4. /\ sync'.at = sync.at /\ sync'.rev = sync.rev
              /\ sync'.mixed = (sync.mixed \/ sync.at # "idle")
            BY <1>1, <3>3 DEF SyncOf
        <3> QED
            BY <1>1, <2>2, <3>2, <3>4 DEF Apart
    <2> QED
        BY <2>1, <2>3, <2>4 DEF Take, Blocked
<1>4. CASE WbFetch \/ WbBranch \/ WbDiverged \/ WbApply \/ WbStage
    <2>1. wb.at # "idle" /\ UNCHANGED sync
        BY <1>4 DEF WbFetch, WbBranch, WbDiverged, WbApply, WbStage, WbStays
    <2>2. wb' = IdleWb \/ \E at \in WbAt \ {"push"} : wb' = [wb EXCEPT !.at = at]
        BY <1>4 DEF WbFetch, WbBranch, WbDiverged, WbApply, WbStage, Blocked, WbAt
    <2>3. wb'.at = "idle" \/ (wb'.at # "push" /\ wb'.mixed = wb.mixed)
        BY <1>1, <2>2, IdleWbType DEF WbOf
    <2> QED
        BY <2>1, <2>3 DEF Apart
<1>5. CASE WbCommit
    <2>1. wb.at = "commit" /\ UNCHANGED sync
        BY <1>5 DEF WbCommit, WbStays
    <2>2. CASE wb' = IdleWb
        BY <2>1, <2>2, IdleWbType DEF Apart
    <2>3. CASE wb' # IdleWb
        <3>1. /\ wb' = [wb EXCEPT !.at = "push", !.made = NewCommit]
              /\ clone' = [clone EXCEPT !.head = NewCommit,
                             !.local = [b \in Branches |->
                                          IF b = clone.on THEN NewCommit ELSE @[b]]]
            BY <1>5, <2>3 DEF WbCommit
        <3>2. wb'.at = "push" /\ wb'.mixed = wb.mixed /\ wb'.made = NewCommit
            BY <1>1, <3>1 DEF WbOf
        <3>3. clone'.head = NewCommit
            BY <1>1, <3>1 DEF CloneOf
        <3> QED
            BY <2>1, <3>2, <3>3 DEF Apart
    <2> QED
        BY <2>2, <2>3
<1>6. CASE WbPush \/ WbFails
    <2>1. wb.at # "idle" /\ UNCHANGED sync /\ wb' = IdleWb
        BY <1>6 DEF WbPush, WbFails, Blocked
    <2> QED
        BY <2>1, IdleWbType DEF Apart
<1>7. CASE SyncStart
    <2>1. /\ wb'.at = wb.at /\ wb'.made = wb.made /\ UNCHANGED clone
          /\ wb'.mixed = (wb.mixed \/ wb.at # "idle")
        BY <1>1, <1>7 DEF SyncStart, WbOf
    <2>2. sync'.at = "fetch" /\ sync'.mixed = (wb.at # "idle")
        BY <1>7 DEF SyncStart
    <2> QED
        BY <1>1, <2>1, <2>2 DEF Apart
<1>8. CASE SyncFetch
    <2> DEFINE tip == remote["main"]
    <2>1. sync.at = "fetch" /\ UNCHANGED wb
        BY <1>8 DEF SyncFetch
    <2>2. CASE clone.here
        BY <1>1, <1>8, <2>1, <2>2 DEF SyncFetch, SyncOf, Apart
    <2>3. CASE ~clone.here
        <3>1. clone'.here /\ clone'.head = tip
            BY <1>8, <2>3 DEF SyncFetch, NoClone
        <3>2. sync'.at = "head" /\ sync'.mixed = sync.mixed
            BY <1>1, <1>8, <2>3 DEF SyncFetch, SyncOf
        <3> QED
            BY <2>1, <3>1, <3>2 DEF Apart
    <2> QED
        BY <2>2, <2>3
<1>9. CASE SyncCheckout
    <2>1. sync.at = "checkout" /\ UNCHANGED wb /\ clone.here
        BY <1>9 DEF SyncCheckout, GitInv, Ready
    <2>2. CASE sync' = IdleSync
        BY <1>1, <2>1, <2>2 DEF Apart
    <2>3. CASE /\ clone' = CheckedOut(clone.fetched, Detached)
               /\ sync' = [sync EXCEPT !.at = "head"]
        <3>1. clone'.here /\ clone'.head = clone.fetched
            BY <1>1, <2>1, <2>3 DEF CheckedOut, CloneOf
        <3>2. sync'.at = "head" /\ sync'.mixed = sync.mixed
            BY <1>1, <2>3 DEF SyncOf
        <3> QED
            BY <2>1, <3>1, <3>2 DEF Apart
    <2> QED
        BY <1>9, <2>2, <2>3 DEF SyncCheckout
<1>10. CASE SyncImport \/ SyncFails
    <2>1. sync.at # "idle" /\ sync' = IdleSync /\ UNCHANGED <<wb, clone>>
        BY <1>10 DEF SyncImport, SyncFails
    <2> QED
        BY <1>1, <2>1 DEF Apart
<1>11. CASE Reset \/ Crash
    BY <1>1, <1>11, IdleWbType DEF Reset, Crash, Apart
<1>12. CASE (\E b \in Branches, f \in Files : \E v \in {Absent, NewContent} : Foreign(b, f, v))
             \/ UNCHANGED vars
    BY <1>12 DEF Foreign, vars, Apart
<1>13. CASE SyncHead
    <2>1. sync.at = "head" /\ UNCHANGED <<wb, clone>> /\ clone.here
        BY <1>13 DEF SyncHead, GitInv, Ready
    <2>2. sync'.at = "import" /\ sync'.rev = clone.head /\ sync'.mixed = sync.mixed
        BY <1>1, <1>13 DEF SyncHead, SyncOf
    <2> QED
        BY <2>1, <2>2 DEF Apart
<1>14. CASE \E j \in jobs : TakeFails(j)
    BY <1>14 DEF TakeFails, Apart
<1> QED
    BY <1>2, <1>3, <1>4, <1>5, <1>6, <1>7, <1>8, <1>9, <1>10, <1>11, <1>12, <1>13, <1>14
    DEF Next, Writeback, Sync, Outside

\* Pushes.
PushInv ==
    /\ PushedIsThere
    /\ \A c \in Made : c \in commits[c].past

LEMMA PushInit == Init => PushInv
BY DEF Init, PushInv, PushedIsThere, Made

\* What RemoteHistory promises of a step.
LEMMA BranchesGrow ==
    ASSUME Inv, [Next]_vars
    PROVE  \A b \in Branches : Past(remote[b]) \subseteq Past(remote[b])'
<1>1. Inv' /\ [Remote!Next]_hist
    BY NextInv, StepRefines
<1>2. \A b \in Branches : hist[b] \subseteq hist'[b]
    <2>1. CASE UNCHANGED hist
        BY <2>1
    <2>2. CASE Remote!Next
        <3>1. PICK b \in Branches : Remote!Push(b)
            BY <2>2 DEF Remote!Next
        <3>2. /\ hist[b] \subseteq hist'[b] /\ hist' = [hist EXCEPT ![b] = hist'[b]]
            BY <3>1 DEF Remote!Push, hist
        <3> QED
            BY <3>2, HistTyped
    <2> QED
        BY <1>1, <2>1, <2>2
<1> QED
    BY <1>2 DEF hist

LEMMA PushStep ==
    ASSUME GitInv, Apart, PushInv, [Next]_vars
    PROVE  PushInv'
<1>1. Inv /\ TypeInv /\ target \in Branches
    BY DEF GitInv, Inv, NamesInv
<1>2. target' = target /\ (pushed' = pushed \/ WbPush)
    BY DEF Next, Users, Save, Delete, Change, Writeback, Take, TakeFails, WbFetch, WbBranch,
       WbDiverged,
           WbApply, WbStage, WbCommit, WbStays, WbFails, WbPush, Sync, SyncStart, SyncFetch,
           SyncCheckout, SyncHead, SyncImport, SyncFails, SyncStays, Outside, Foreign, Reset,
           Crash, vars
<1>3. Past(remote[target]) \subseteq Past(remote[target])'
    BY <1>1, <1>2, BranchesGrow
<1>4. ASSUME NEW p \in pushed', ~p.mixed PROVE p.commit \in Past(remote[target])'
    <2>1. CASE p \in pushed
        BY <1>3, <1>4, <2>1 DEF PushInv, PushedIsThere
    <2>2. CASE WbPush /\ p \notin pushed
        <3>1. p = [commit |-> wb.made, mixed |-> wb.mixed] /\ wb.at = "push" /\ Accepted(target)
            BY <2>2 DEF WbPush
        <3>2. clone.head = wb.made /\ wb.made \in Made
            BY <1>1, <1>4, <3>1 DEF Apart, TypeInv, Busy
        <3>3. remote'[target] = clone.head /\ commits' = commits
            BY <1>1, <2>2, <3>1 DEF WbPush, Inv, NamesInv
        <3>4. wb.made # NoCommit
            BY <1>1, <3>2, FreshCommit DEF Inv, HistoryInv, NoCommit
        <3>5. Past(remote[target])' = commits[wb.made].past
            BY <1>2, <3>2, <3>3, <3>4 DEF Past
        <3> QED
            BY <3>1, <3>2, <3>5 DEF PushInv
    <2> QED
        BY <1>2, <1>4, <2>1, <2>2
<1>5. ASSUME NEW c \in Made' PROVE c \in commits'[c].past
    <2>1. CASE c \in Made
        BY <1>1, <2>1, CommitsKept DEF PushInv
    <2>2. ASSUME NEW tree, NEW by, NEW parent, AddCommit(tree, parent, by), c \notin Made
          PROVE  c \in commits'[c].past
        BY <2>2 DEF AddCommit, Made
    <2>3. ASSUME NEW b \in Branches, NEW f \in Files, NEW v, Foreign(b, f, v)
          PROVE  \E tree : AddCommit(tree, remote[b], "others")
        BY <2>3 DEF Foreign
    <2> QED
        BY <1>1, <2>1, <2>2, <2>3, WhoCommits DEF Made
<1> QED
    BY <1>4, <1>5 DEF PushInv, PushedIsThere

\* A push that the audit log records is on the target branch for good, unless a
\* sync moved the clone under the writeback.
THEOREM PushesAreThere == Spec => []PushedIsThere
<1>1. GitInv /\ Apart /\ PushInv /\ [Next]_vars => Apart' /\ PushInv'
    BY ApartStep, PushStep
<1>2. PushInv => PushedIsThere
    BY DEF PushInv
<1> QED
    BY <1>1, <1>2, ApartInit, PushInit, GitInvariant, PTL DEF Spec

-----------------------------------------------------------------------------
(* What an import shows.                                                   *)

\* What in the clone is not HEAD's has been put there by a writeback.
ShownInv ==
    /\ SourceRefTrue
    /\ \A f \in Files : doc[f].in => doc[f].rev \in Made
    /\ clone.here => \A f \in Files :
          /\ clone.work[f] \in {clone.index[f]} \cup written
          /\ clone.index[f] \in {FilesAt(clone.head)[f]} \cup written

LEMMA ShownInit == Init => ShownInv
BY DEF Init, ShownInv, SourceRefTrue, NoDoc, NoClone

LEMMA TreesStep ==
    ASSUME GitInv, ShownInv, [Next]_vars, clone'.here, NEW f \in Files
    PROVE  /\ clone'.work[f] \in {clone'.index[f]} \cup written'
           /\ clone'.index[f] \in {commits'[clone'.head].files[f]} \cup written'
<1>1. /\ Inv /\ TypeInv /\ Ready
      /\ clone.here => clone.head \in Made
      /\ \A c \in Made : commits'[c].files = FilesAt(c)
    <2>1. Inv /\ TypeInv /\ Ready
        BY DEF GitInv
    <2>2. \A c \in Made : commits'[c] = commits[c]
        BY <2>1, CommitsKept
    <2> QED
        BY <2>1, <2>2 DEF Ready, Inv, NamesInv, CloneNames, Names, FilesAt
<1>2. written \subseteq written'
    BY <1>1, TreesMove DEF Applies
<1>3. clone.here => /\ clone.work[f] \in {clone.index[f]} \cup written
                    /\ clone.index[f] \in {FilesAt(clone.head)[f]} \cup written
    BY DEF ShownInv
<1>4. CASE SameTrees
    BY <1>1, <1>2, <1>3, <1>4 DEF SameTrees
<1>5. ASSUME NEW c \in Made, ChecksOut(c)
      PROVE  /\ clone'.work[f] \in {clone'.index[f]} \cup written'
             /\ clone'.index[f] \in {commits'[clone'.head].files[f]} \cup written'
    <2>1. \/ clone'.index[f] = FilesAt(c)[f] /\ clone'.work[f] = FilesAt(c)[f]
          \/ /\ clone'.index[f] = clone.index[f] /\ clone'.work[f] = clone.work[f]
             /\ FilesAt(c)[f] \in {FilesAt(clone.head)[f], clone.index[f]}
        BY <1>1, <1>5, CheckoutIndex DEF ChecksOut
    <2> QED
        BY <1>1, <1>2, <1>3, <1>5, <2>1 DEF ChecksOut
<1>6. ASSUME NEW c \in Made, Clones(c)
      PROVE  /\ clone'.work[f] \in {clone'.index[f]} \cup written'
             /\ clone'.index[f] \in {commits'[clone'.head].files[f]} \cup written'
    BY <1>1, <1>6 DEF Clones
<1>7. CASE Applies
    <2>1. /\ clone'.here = clone.here /\ clone'.head = clone.head /\ clone'.index = clone.index
          /\ clone'.work[f] = clone.work[f] \/ clone'.work[f] \in written'
        BY <1>1, <1>7 DEF Applies, TypeInv, CloneOf, Tree
    <2> QED
        BY <1>1, <1>2, <1>3, <2>1
<1>8. CASE Stages
    <2>1. /\ clone'.here = clone.here /\ clone'.head = clone.head /\ clone'.work = clone.work
          /\ clone'.index[f] = clone.index[f] \/ clone'.index[f] = clone.work[f]
        BY <1>1, <1>8 DEF Stages, TypeInv, CloneOf, Tree
    <2> QED
        BY <1>1, <1>2, <1>3, <2>1
<1>9. CASE MakesCommit
    <2>1. commits'[clone'.head].files = clone.index
        BY <1>9 DEF MakesCommit, AddCommit
    <2> QED
        BY <1>2, <1>3, <1>9, <2>1 DEF MakesCommit
<1> QED
    BY <1>1, <1>4, <1>5, <1>6, <1>7, <1>8, <1>9, TreesMove

\* An import that had the clone to itself takes what HEAD has, or what a
\* writeback left.
LEMMA ImportShown ==
    ASSUME GitInv, Apart, ShownInv, SyncImport, NEW f \in Files, doc'[f].in
    PROVE  /\ doc'[f].rev \in Made
           /\ ~doc'[f].mixed /\ doc'[f].v \notin written =>
                 doc'[f].v = commits[doc'[f].rev].files[f]
<1>1. doc'[f] = Imported(f) /\ sync.at = "import"
    BY DEF SyncImport
<1>2. CASE doc'[f] = doc[f]
    BY <1>2 DEF ShownInv, SourceRefTrue
<1>3. CASE doc'[f] = NoDoc
    BY <1>3 DEF NoDoc
<1>4. CASE \E b : doc'[f] = [v |-> clone.work[f], rev |-> sync.rev, born |-> b,
                            in |-> TRUE, mixed |-> sync.mixed]
    <2>1. sync.rev \in Made
        BY <1>1 DEF GitInv, Ready, TypeInv, SyncOf, Names
    <2>2. ~sync.mixed => clone.here /\ clone.head = sync.rev
        BY <1>1 DEF Apart
    <2>3. ~sync.mixed /\ clone.work[f] \notin written => clone.work[f] = FilesAt(sync.rev)[f]
        BY <2>2 DEF ShownInv
    <2> QED
        BY <1>4, <2>1, <2>3 DEF FilesAt
<1> QED
    BY <1>1, <1>2, <1>3, <1>4 DEF Imported

LEMMA ShownStep ==
    ASSUME GitInv, Apart, ShownInv, [Next]_vars
    PROVE  ShownInv'
<1>1. Inv /\ TypeInv /\ Ready
    BY DEF GitInv
<1>2. Made \subseteq Made' /\ \A c \in Made : commits'[c] = commits[c]
    BY <1>1, CommitsKept
<1>3. written \subseteq written'
    BY <1>1, TreesMove DEF Applies
<1>4. \/ SyncImport
      \/ \A f \in Files : doc'[f] = doc[f] \/ ~doc'[f].in
    <2>1. ASSUME NEW f \in Editable, NEW whole \in BOOLEAN, Save(f, whole) \/ Delete(f, whole)
          PROVE  \A g \in Files : doc'[g] = doc[g] \/ ~doc'[g].in
        <3>1. [doc[f] EXCEPT !.v = NewContent, !.in = FALSE].in = FALSE
            <4>1. doc[f] \in DocOf(Names)
                BY <1>1, GitAssumption DEF TypeInv
            <4> QED
                BY <4>1 DEF DocOf
        <3>2. NoDoc.in = FALSE
            BY DEF NoDoc
        <3>3. \/ doc' = [doc EXCEPT ![f] = [doc[f] EXCEPT !.v = NewContent, !.in = FALSE]]
              \/ doc' = [doc EXCEPT ![f] = NoDoc]
              \/ doc' = [doc EXCEPT ![f] = doc[f]]
            BY <2>1 DEF Save, Delete, Change
        <3> QED
            BY <1>1, <3>1, <3>2, <3>3 DEF TypeInv
    <2>2. SyncImport \/ Users \/ doc' = doc
        BY DEF Next, Writeback, Take, TakeFails, WbFetch, WbBranch, WbDiverged, WbApply, WbStage,
               WbCommit, WbStays, WbFails, WbPush, Sync, SyncStart, SyncFetch, SyncCheckout,
               SyncHead,
               SyncFails, SyncStays, Outside, Foreign, Reset, Crash, vars
    <2> QED
        BY <2>1, <2>2 DEF Users
<1>5. ASSUME NEW f \in Files, doc'[f].in
      PROVE  /\ doc'[f].rev \in Made'
             /\ ~doc'[f].mixed /\ doc'[f].v \notin written' =>
                   doc'[f].v = commits'[doc'[f].rev].files[f]
    <2>1. CASE SyncImport
        BY <1>2, <1>3, <1>5, <2>1, ImportShown
    <2>2. CASE doc'[f] = doc[f]
        BY <1>2, <1>3, <1>5, <2>2 DEF ShownInv, SourceRefTrue
    <2> QED
        BY <1>4, <1>5, <2>1, <2>2
<1>6. clone'.here => \A f \in Files :
          /\ clone'.work[f] \in {clone'.index[f]} \cup written'
          /\ clone'.index[f] \in {commits'[clone'.head].files[f]} \cup written'
    BY TreesStep
<1> QED
    BY <1>5, <1>6 DEF ShownInv, SourceRefTrue, FilesAt, Made

\* A document as the import left it shows what its file has in the commit that
\* its source_ref names, apart from what a writeback left in the clone and from
\* imports while a writeback was at work.
THEOREM SourceRefsTrue == Spec => []SourceRefTrue
<1>1. GitInv /\ Apart /\ ShownInv /\ [Next]_vars => Apart' /\ ShownInv'
    BY ApartStep, ShownStep
<1>2. ShownInv => SourceRefTrue
    BY DEF ShownInv
<1> QED
    BY <1>1, <1>2, ApartInit, ShownInit, GitInvariant, PTL DEF Spec
=============================================================================
