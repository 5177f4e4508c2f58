------------------------ MODULE OkfMaintenanceProofs ------------------------
(***************************************************************************)
(* Proofs about OKF maintenance: what is written into files stays          *)
(* (TextKept), no concept is left out of its index.md (Listed), and no     *)
(* index.md lists a file that is gone (NothingStale), for any callers,     *)
(* names, corpora, jobs, calls and crashes.  The last two are about states *)
(* in which nothing is under way.  The invariant behind Listed says of     *)
(* every concept and every moment who sees to its bullet (Cared); what it  *)
(* rests on of the queue is QueueKept, and of calls and the worker Upkept. *)
(* The invariant behind NothingStale says of every bullet what justifies   *)
(* it (Justified), and of all that may write one that it is of a file      *)
(* whose delete will still be heard of (Known); it rests on both others.   *)
(***************************************************************************)
EXTENDS NodeTreeProofs

-----------------------------------------------------------------------------
(* What is written stays.                                                  *)

TextsStay == \A n \in DOMAIN rows : rows'[n].text = rows[n].text \/ ~rows'[n].there

LEMMA StayingIsKept ==
    ASSUME OkfInv, TextsStay
    PROVE  Kept
<1> SUFFICES ASSUME NEW n \in DOMAIN rows, rows'[n].text = rows[n].text
             PROVE  /\ ~(rows'[n].text.note < rows[n].text.note)
                    /\ rows[n].text.entries \subseteq rows'[n].text.entries
    BY DEF TextsStay, Kept
<1>1. rows[n].text.note \in Nat
    <2>1. rows[n] \in Row
        BY RowTypes DEF OkfInv
    <2> QED
        BY <2>1 DEF Row, Text
<1> QED
    BY <1>1

\* Steps that write no text.
LEMMA CallKeepsTexts ==
    ASSUME OkfInv, NEW c \in Callers, TreeStep(c) \/ Write(c) \/ DeleteMany(c)
    PROVE  TextsStay
<1>1. rows \in Seq(Row) /\ DOMAIN rows = 1 .. Len(rows)
    BY DEF OkfInv, TreeInv, RowsOK
<1>2. CASE UNCHANGED rows
    BY <1>2 DEF TextsStay
<1>3. CASE Insert(c) /\ ~UNCHANGED rows
    <2>1. PICK x : rows' = Append(rows, x)
        BY <1>3 DEF Insert
    <2>2. \A n \in DOMAIN rows : rows'[n] = rows[n]
        BY <1>1, <2>1
    <2> QED
        BY <2>2 DEF TextsStay
<1>4. CASE Shift(c) /\ ~UNCHANGED rows
    <2>1. PICK x : rows' = [rows EXCEPT ![x.id].path = x.path]
        BY <1>4 DEF Shift
    <2>2. \A n \in DOMAIN rows : rows'[n].text = rows[n].text
        BY <1>1, <2>1 DEF Row
    <2> QED
        BY <2>2 DEF TextsStay
<1>5. CASE Write(c) /\ ~UNCHANGED rows
    <2>1. PICK k : k = call[c].id
        OBVIOUS
    <2>2. PICK x : x = [rows[k] EXCEPT !.path = call[c].path,
                          !.name = IF call[c].kind = "rename" THEN call[c].name ELSE rows[k].name,
                          !.parent = IF call[c].kind = "move" THEN call[c].parent
                                     ELSE rows[k].parent]
        OBVIOUS
    <2>3. rows' = [rows EXCEPT ![k] = x]
        BY <1>5, <2>1, <2>2 DEF Write
    <2>4. k \in DOMAIN rows => x.text = rows[k].text
        BY <1>1, <2>2 DEF Row
    <2>5. \A n \in DOMAIN rows : rows'[n].text = rows[n].text
        BY <1>1, <2>3, <2>4
    <2> QED
        BY <2>5 DEF TextsStay
<1>6. CASE DeleteMany(c)
    <2>1. ~Gone.there
        BY DEF Gone
    <2> QED
        BY <1>6, <2>1 DEF DeleteMany, TextsStay
<1> QED
    BY <1>2, <1>3, <1>4, <1>5, <1>6
       DEF TreeStep, Chain, Exists, Parent, Target, Free, List, NothingToTell

\* A call saves what it was given.
LEMMA StoreKeeps ==
    ASSUME OkfInv, NEW c \in Callers, StoreStep(c)
    PROVE  Kept
<1>1. TreeInv /\ Store(c) /\ rows \in Seq(Row)
    BY DEF OkfInv, StoreStep, TreeInv, RowsOK
<1>2. CASE UNCHANGED rows
    BY <1>2, StayingIsKept DEF TextsStay
<1>3. CASE ~UNCHANGED rows
    <2>1. PICK k : k = call[c].id
        OBVIOUS
    <2>2. k \in DOMAIN rows /\ rows[k] \in Row
        BY <1>1, <2>1, CallTypes, RowTypes DEF Store, Fits
    <2>3. PICK txt : txt = call[c].text
        OBVIOUS
    <2>4. txt \in Text
        BY <1>1, <2>3, CallTypes DEF CallOf
    <2>5. rows' = [rows EXCEPT ![k] = [@ EXCEPT !.stored = TRUE, !.text = txt]]
        BY <1>1, <1>3, <2>1, <2>3 DEF Store
    <2>6. rows'[k].text = txt /\ \A n \in DOMAIN rows \ {k} : rows'[n].text = rows[n].text
        BY <1>1, <2>2, <2>5 DEF Row
    <2>7. PICK now : now = rows[k].text
        OBVIOUS
    <2>8. now \in Text
        BY <2>2, <2>7 DEF Row
    <2>9. \/ "clash" \in odd'
          \/ now.entries = txt.entries /\ ~(now.note > txt.note)
          \/ now = NoText
        BY <2>1, <2>3, <2>7 DEF StoreStep, Odd, Outdated
    <2>10. \/ "clash" \in odd'
           \/ ~(txt.note < now.note) /\ now.entries \subseteq txt.entries
        BY <2>4, <2>8, <2>9 DEF Text, NoText
    <2>11. ASSUME NEW n \in DOMAIN rows, n # k
           PROVE  /\ ~(rows'[n].text.note < rows[n].text.note)
                  /\ rows[n].text.entries \subseteq rows'[n].text.entries
        <3>1. rows[n] \in Row
            BY <1>1, <2>11, RowTypes
        <3> QED
            BY <2>6, <2>11, <3>1 DEF Row, Text
    <2> QED
        BY <2>6, <2>7, <2>10, <2>11 DEF Kept
<1> QED
    BY <1>2, <1>3

\* Maintenance adds to what it has read.
LEMMA SaveTextKeeps ==
    ASSUME OkfInv, SaveText
    PROVE  Kept
<1>1. /\ worker.at \in {"merge", "append"} /\ worker.text \in Text /\ TreeInv
      /\ worker.node \in DOMAIN rows /\ rows \in Seq(Row)
    BY DEF SaveText, OkfInv, WorkerOK, Working, TreeInv, RowsOK
<1>2. CASE UNCHANGED rows
    BY <1>2, StayingIsKept DEF TextsStay
<1>3. CASE ~UNCHANGED rows
    <2>1. ~Throws
        BY <1>3 DEF Throws, treeVars
    <2>2. /\ rows' = [rows EXCEPT ![worker.node].text = NewText]
          /\ rows[worker.node].text # worker.text => "clash" \in odd'
        BY <2>1 DEF SaveText
    <2>3. PICK k : k = worker.node
        OBVIOUS
    <2>4. NewText.note = worker.text.note /\ worker.text.entries \subseteq NewText.entries
          /\ worker.text.note \in Nat
        BY <1>1 DEF NewText, Text
    <2>5. PICK txt : txt = NewText
        OBVIOUS
    <2>6. PICK x : x = [rows[k] EXCEPT !.text = txt]
        OBVIOUS
    <2>7. rows'[k].text = txt /\ \A n \in DOMAIN rows \ {k} : rows'[n].text = rows[n].text
        <3>1. rows' = [rows EXCEPT ![k] = x]
            BY <2>2, <2>3, <2>5, <2>6
        <3>2. x.text = txt
            BY <1>1, <2>3, <2>6 DEF Row
        <3> QED
            BY <1>1, <2>3, <3>1, <3>2
    <2>8. \/ "clash" \in odd'
          \/ ~(txt.note < rows[k].text.note) /\ rows[k].text.entries \subseteq txt.entries
        BY <2>2, <2>3, <2>4, <2>5
    <2>9. ASSUME NEW n \in DOMAIN rows, n # k
          PROVE  /\ ~(rows'[n].text.note < rows[n].text.note)
                 /\ rows[n].text.entries \subseteq rows'[n].text.entries
        <3>1. rows[n] \in Row
            BY <1>1, <2>9, RowTypes
        <3> QED
            BY <2>7, <2>9, <3>1 DEF Row, Text
    <2> QED
        BY <2>7, <2>8, <2>9 DEF Kept
<1> QED
    BY <1>2, <1>3

\* Notes of users in an index.md or log.md, and the entries of a log.md, are
\* never lost to a save, by a user or by maintenance, that does not clash.
THEOREM TextIsKept == Spec => TextKept
<1>1. OkfInv /\ [Next]_vars => [Kept]_vars
    <2> SUFFICES ASSUME OkfInv, Next PROVE Kept
        OBVIOUS
    <2>1. CASE UNCHANGED rows
        BY <2>1, StayingIsKept DEF TextsStay
    <2>2. ASSUME NEW c \in Callers, Step(c) \/ WriteStep(c) \/ DeleteStep(c)
          PROVE  Kept
        BY <2>2, CallKeepsTexts, StayingIsKept DEF Step, WriteStep, DeleteStep
    <2>3. ASSUME NEW c \in Users, Call(c)
          PROVE  UNCHANGED rows
        BY <2>3 DEF Call, Calls, StartCreate, StartMove, StartRename, StartDelete, StartSave, Begin
    <2>4. ASSUME NEW c \in Callers, NEW e \in call[c].tell, Send(c, e)
          PROVE  UNCHANGED rows
        BY <2>4 DEF Send, Tell
    <2>5. Take \/ Index \/ Log \/ Made \/ Finish \/ Tick \/ Expire \/ Crash => UNCHANGED rows
        BY DEF Take, Rests, Index, Log, Made, Throws, Finish, Tick, Expire, Crash, treeVars,
               StartCreate, Begin
    <2> QED
        BY <2>1, <2>2, <2>3, <2>4, <2>5, StoreKeeps, SaveTextKeeps DEF Next
<1> QED
    BY <1>1, AlwaysFits, PTL DEF Spec, TextKept

-----------------------------------------------------------------------------
(* The steps of a call, seen from outside.                                 *)

\* What a call is about stays.
SameCall(r, s) ==
    /\ r.kind = s.kind /\ r.path = s.path /\ r.name = s.name /\ r.text = s.text
    /\ r.no = s.no /\ r.tell = s.tell /\ r.folder = s.folder

\* Rows are put under other paths, and that is all.
Resettled(rs, rt) ==
    /\ DOMAIN rt = DOMAIN rs
    /\ \A n \in DOMAIN rs :
         /\ rt[n].there = rs[n].there /\ rt[n].parent = rs[n].parent
         /\ rt[n].name = rs[n].name /\ rt[n].folder = rs[n].folder
         /\ rt[n].stored = rs[n].stored /\ rt[n].text = rs[n].text

\* A new row: a folder, or the file call r is about.
Added(rs, rt, r, new) ==
    \E x \in Row :
      /\ rt = Append(rs, x)
      /\ x.there /\ ~x.stored /\ x.text = NoText
      /\ \/ x.folder /\ new.at # "store"
         \/ /\ ~x.folder /\ x.path = r.path /\ x.name = r.name
            /\ new.at = "store" /\ new.id = Len(rs) + 1 /\ new.kind # "save"

TreeMove(c) ==
    /\ UNCHANGED <<calls, odd>>
    /\ \A d \in Callers : d # c => call'[d] = call[d]
    /\ call[c].at \in Creating \cup Moving \cup {"tell"}
    /\ call'[c] # Idle =>
         /\ SameCall(call'[c], call[c])
         /\ call'[c].at # "store" => call'[c].id = call[c].id
         /\ call[c].at \in Creating => call'[c].at \in Creating \cup {"store"}
         /\ call[c].at \in Moving => call'[c].at \in Moving
         /\ call[c].at = "tell" =>
              call'[c].at = "remove" /\ call'[c].todo = call[c].todo /\ call[c].tell = {}
    /\ call'[c] = Idle => call[c].at # "tell"
    /\ \/ rows' = rows /\ call'[c].at # "store"
       \/ Added(rows, rows', call[c], call'[c])
       \/ Shifting(call[c]) /\ Resettled(rows, rows')

LEMMA EndMoves ==
    ASSUME TreeInv, NEW c \in Callers, Ends(c), UNCHANGED <<rows, calls, odd>>,
           call[c].at \in Creating \cup Moving
    PROVE  TreeMove(c)
<1>1. call'[c] = Idle /\ \A d \in Callers : d # c => call'[d] = call[d]
    BY DEF Ends, TreeInv
<1>2. Idle.at # "store"
    BY IdleFacts
<1> QED
    BY <1>1, <1>2 DEF TreeMove, Creating, Moving

LEMMA GoMoves ==
    ASSUME TreeInv, NEW c \in Callers, NEW at, Goes(c, at), UNCHANGED <<rows, calls, odd>>,
           \/ call[c].at \in Creating /\ at \in Creating
           \/ call[c].at \in Moving /\ at \in Moving
           \/ call[c].at = "tell" /\ call[c].tell = {} /\ at = "remove"
    PROVE  TreeMove(c)
<1>1. call[c] \in CallOf
    BY CallTypes
<1>2. call'[c] = [call[c] EXCEPT !.at = at] /\ \A d \in Callers : d # c => call'[d] = call[d]
    BY DEF Goes, TreeInv
<1>3. SameCall(call'[c], call[c]) /\ call'[c].at = at /\ call'[c].id = call[c].id
      /\ call'[c].todo = call[c].todo
    BY <1>1, <1>2 DEF CallOf, SameCall
<1>4. call'[c] # Idle
    BY <1>3, IdleFacts DEF Creating, Moving
<1> QED
    BY <1>2, <1>3, <1>4 DEF TreeMove, Creating, Moving

LEMMA ChainMoves ==
    ASSUME TreeInv, NEW c \in Callers, Chain(c)
    PROVE  TreeMove(c)
<1>1. call[c].at = "chain" /\ UNCHANGED <<rows, calls, odd>> /\ call[c] \in CallOf
    BY CallTypes DEF Chain
<1>2. CASE Ends(c)
    BY <1>1, <1>2, EndMoves DEF Creating
<1>3. CASE Goes(c, "exists")
    BY <1>1, <1>3, GoMoves DEF Creating
<1>4. CASE call' = [call EXCEPT ![c].part = @ + 1]
    <2>1. call'[c] = [call[c] EXCEPT !.part = @ + 1] /\ \A d \in Callers : d # c => call'[d] = call[d]
        BY <1>4 DEF TreeInv
    <2>2. SameCall(call'[c], call[c]) /\ call'[c].at = "chain" /\ call'[c].id = call[c].id
        BY <1>1, <2>1 DEF CallOf, SameCall
    <2> QED
        BY <1>1, <2>1, <2>2, IdleFacts DEF TreeMove, Creating, Moving
<1> QED
    BY <1>2, <1>3, <1>4 DEF Chain

LEMMA ParentMoves ==
    ASSUME TreeInv, NEW c \in Callers, Parent(c)
    PROVE  TreeMove(c)
<1>1. call[c].at = "parent" /\ UNCHANGED <<rows, calls, odd>> /\ call[c] \in CallOf
    BY CallTypes DEF Parent
<1>2. CASE Ends(c)
    BY <1>1, <1>2, EndMoves DEF Creating
<1>3. ASSUME NEW n, call' = [call EXCEPT ![c].parent = n, ![c].at = "insert"] PROVE TreeMove(c)
    <2>1. PICK r : r = [call[c] EXCEPT !.parent = n, !.at = "insert"]
        OBVIOUS
    <2>2. call'[c] = r /\ \A d \in Callers : d # c => call'[d] = call[d]
        BY <1>3, <2>1 DEF TreeInv
    <2>3. SameCall(r, call[c]) /\ r.at = "insert" /\ r.id = call[c].id
        BY <1>1, <2>1 DEF CallOf, SameCall
    <2> QED
        BY <1>1, <2>2, <2>3, IdleFacts DEF TreeMove, Creating, Moving
<1> QED
    BY <1>2, <1>3 DEF Parent

LEMMA InsertMoves ==
    ASSUME TreeInv, NEW c \in Callers, Insert(c)
    PROVE  TreeMove(c)
<1>1. /\ call[c].at = "insert" /\ UNCHANGED <<calls, odd>> /\ call[c] \in CallOf
      /\ call[c].at \in Creating /\ call[c].kind \in {"folder", "file", "document"}
    BY CallTypes DEF Insert, Creating, Fits
<1>2. CASE Ends(c) /\ UNCHANGED rows
    BY <1>1, <1>2, EndMoves DEF Creating
<1>3. CASE ~(Ends(c) /\ UNCHANGED rows)
    <2>1. PICK m : m = Making(call[c])
        OBVIOUS
    <2>2. PICK x : x = [there |-> TRUE, parent |-> call[c].parent, path |-> m.path,
                          name |-> m.name, folder |-> m.folder, stored |-> FALSE,
                          text |-> NoText]
        OBVIOUS
    <2>3. /\ rows' = Append(rows, x)
          /\ IF ~m.folder
               THEN call' = [call EXCEPT ![c].at = "store", ![c].id = Len(rows) + 1]
             ELSE IF call[c].kind = "folder" THEN Ends(c)
             ELSE call' = [call EXCEPT ![c].at = "chain", ![c].part = @ + 1]
        BY <1>3, <2>1, <2>2 DEF Insert
    <2>4. m.path \in Seq(FolderNames) /\ m.name \in Names /\ m.folder \in BOOLEAN
        BY <1>1, <2>1, MakingTypes
    <2>5. x \in Row
        <3>1. call[c].parent \in Nat
            BY <1>1 DEF CallOf
        <3> QED
            BY <2>2, <2>4, <3>1, Constants DEF Row
    <2>6. x.there /\ ~x.stored /\ x.text = NoText /\ x.folder = m.folder /\ x.path = m.path
          /\ x.name = m.name
        BY <2>2
    <2>7. \A d \in Callers : d # c => call'[d] = call[d]
        BY <2>3 DEF Ends, TreeInv
    <2>8. CASE ~m.folder
        <3>1. PICK r : r = [call[c] EXCEPT !.at = "store", !.id = Len(rows) + 1]
            OBVIOUS
        <3>2. call'[c] = r
            BY <2>3, <2>8, <3>1 DEF TreeInv
        <3>3. SameCall(r, call[c]) /\ r.at = "store" /\ r.id = Len(rows) + 1 /\ r.kind = call[c].kind
            BY <1>1, <3>1 DEF CallOf, SameCall
        <3>4. m.path = call[c].path /\ m.name = call[c].name
            BY <2>1, <2>8 DEF Making
        <3>5. Added(rows, rows', call[c], call'[c])
            BY <1>1, <2>3, <2>5, <2>6, <2>8, <3>2, <3>3, <3>4 DEF Added
        <3> QED
            BY <1>1, <2>7, <3>2, <3>3, <3>5, IdleFacts DEF TreeMove, Creating, Moving
    <2>9. CASE m.folder /\ Ends(c)
        <3>1. call'[c] = Idle
            BY <2>9 DEF Ends, TreeInv
        <3>2. Added(rows, rows', call[c], call'[c])
            BY <2>3, <2>5, <2>6, <2>9, <3>1, IdleFacts DEF Added
        <3> QED
            BY <1>1, <2>7, <3>1, <3>2 DEF TreeMove, Creating, Moving
    <2>10. CASE m.folder /\ ~Ends(c)
        <3>1. PICK r : r = [call[c] EXCEPT !.at = "chain", !.part = @ + 1]
            OBVIOUS
        <3>2. call'[c] = r
            BY <2>3, <2>10, <3>1 DEF TreeInv
        <3>3. SameCall(r, call[c]) /\ r.at = "chain" /\ r.id = call[c].id
            BY <1>1, <3>1 DEF CallOf, SameCall
        <3>4. Added(rows, rows', call[c], call'[c])
            BY <2>3, <2>5, <2>6, <2>10, <3>2, <3>3 DEF Added
        <3> QED
            BY <1>1, <2>7, <3>2, <3>3, <3>4, IdleFacts DEF TreeMove, Creating, Moving
    <2> QED
        BY <2>8, <2>9, <2>10
<1> QED
    BY <1>2, <1>3

LEMMA TargetMoves ==
    ASSUME TreeInv, NEW c \in Callers, Target(c)
    PROVE  TreeMove(c)
<1>1. call[c].at = "target" /\ UNCHANGED <<rows, calls, odd>> /\ call[c] \in CallOf
    BY CallTypes DEF Target
<1>2. CASE Ends(c)
    BY <1>1, <1>2, EndMoves DEF Moving
<1>3. ASSUME NEW n, call' = [call EXCEPT ![c].parent = n, ![c].at = "free"] PROVE TreeMove(c)
    <2>1. PICK r : r = [call[c] EXCEPT !.parent = n, !.at = "free"]
        OBVIOUS
    <2>2. call'[c] = r /\ \A d \in Callers : d # c => call'[d] = call[d]
        BY <1>3, <2>1 DEF TreeInv
    <2>3. SameCall(r, call[c]) /\ r.at = "free" /\ r.id = call[c].id
        BY <1>1, <2>1 DEF CallOf, SameCall
    <2> QED
        BY <1>1, <2>2, <2>3, IdleFacts DEF TreeMove, Creating, Moving
<1> QED
    BY <1>2, <1>3 DEF Target

LEMMA ListMoves ==
    ASSUME TreeInv, NEW c \in Callers, List(c)
    PROVE  TreeMove(c)
<1>1. call[c].at = "list" /\ UNCHANGED <<rows, calls, odd>> /\ call[c] \in CallOf
    BY CallTypes DEF List
<1>2. PICK todo : call' = [call EXCEPT ![c].at = "shift", ![c].todo = todo]
    BY DEF List
<1>3. PICK r : r = [call[c] EXCEPT !.at = "shift", !.todo = todo]
    OBVIOUS
<1>4. call'[c] = r /\ \A d \in Callers : d # c => call'[d] = call[d]
    BY <1>2, <1>3 DEF TreeInv
<1>5. SameCall(r, call[c]) /\ r.at = "shift" /\ r.id = call[c].id
    BY <1>1, <1>3 DEF CallOf, SameCall
<1> QED
    BY <1>1, <1>4, <1>5, IdleFacts DEF TreeMove, Creating, Moving

LEMMA ShiftMoves ==
    ASSUME TreeInv, Facts, NEW c \in Callers, Shift(c)
    PROVE  TreeMove(c) /\ call'[c] # Idle /\ Shifting(call'[c])
<1>1. /\ call[c].at = "shift" /\ call[c] \in CallOf /\ Fits(call[c], rows)
      /\ call[c].at # "idle" /\ call[c].at \in Moving /\ RowsOK(rows)
      /\ UNCHANGED <<calls, odd>>
    BY CallTypes DEF Shift, Moving
<1>2. CallFacts(call[c], rows) /\ call[c].kind \in {"rename", "move"}
    BY <1>1, Acting DEF Fits
<1>3. PICK x \in call[c].todo :
         IF rows[x.id].there /\ ~rows[x.id].folder /\ Taken(x.id, x.path, rows[x.id].name)
           THEN Ends(c) /\ UNCHANGED rows
           ELSE /\ call' = [call EXCEPT ![c].todo = @ \ {x}]
                /\ rows' = IF rows[x.id].there THEN [rows EXCEPT ![x.id].path = x.path]
                           ELSE rows
    BY DEF Shift
<1>4. call[c].folder /\ OnFolder(call[c])
    BY <1>1, <1>2, <1>3 DEF CallFacts, OnFolder, FileFacts
<1>5. HalfMoved(call[c], rows)
    BY <1>1, <1>2, <1>4 DEF CallFacts, FolderFacts
<1>6. /\ call[c].name \in FolderNames /\ call[c].todo \subseteq Shifted /\ rows[call[c].id].folder
      /\ call[c].from \in Paths
    BY <1>1, <1>4, <1>5 DEF Fits, HalfMoved, CallOf, Paths
<1>7. ~Taken(x.id, x.path, rows[x.id].name)
    BY <1>1, <1>5, <1>6, NotTaken
<1>8. rows[x.id].there
    BY <1>5 DEF HalfMoved
<1>9. /\ call' = [call EXCEPT ![c].todo = @ \ {x}]
      /\ rows' = [rows EXCEPT ![x.id].path = x.path]
    BY <1>3, <1>7, <1>8
<1>10. PICK r : r = [call[c] EXCEPT !.todo = @ \ {x}]
    OBVIOUS
<1>11. call'[c] = r /\ \A d \in Callers : d # c => call'[d] = call[d]
    BY <1>9, <1>10 DEF TreeInv
<1>12. SameCall(r, call[c]) /\ r.at = "shift" /\ r.id = call[c].id
    BY <1>1, <1>10 DEF CallOf, SameCall
<1>13. Resettled(rows, rows')
    <2>1. ASSUME NEW n \in DOMAIN rows
          PROVE  /\ rows'[n].there = rows[n].there /\ rows'[n].parent = rows[n].parent
                 /\ rows'[n].name = rows[n].name /\ rows'[n].folder = rows[n].folder
                 /\ rows'[n].stored = rows[n].stored /\ rows'[n].text = rows[n].text
        <3>1. rows[n] \in Row
            BY <1>1, RowTypes
        <3>2. CASE n = x.id
            <4>1. PICK p : p = x.path
                OBVIOUS
            <4>2. rows'[n] = [rows[n] EXCEPT !.path = p]
                BY <1>9, <3>2, <4>1
            <4> QED
                BY <3>1, <4>2 DEF Row
        <3>3. CASE n # x.id
            BY <1>9, <3>3
        <3> QED
            BY <3>2, <3>3
    <2>2. DOMAIN rows' = DOMAIN rows
        BY <1>9
    <2> QED
        BY <2>1, <2>2 DEF Resettled
<1>14. Shifting(call[c]) /\ r # Idle /\ Shifting(r)
    BY <1>1, <1>4, <1>12, IdleFacts DEF Shifting, SameCall
<1> QED
    BY <1>1, <1>11, <1>12, <1>13, <1>14 DEF TreeMove, Moving, Creating

\* What a step of a call does, whatever the step.
LEMMA TreeMoves ==
    ASSUME TreeInv, Facts, NEW c \in Callers, TreeStep(c)
    PROVE  TreeMove(c)
<1>1. CASE Exists(c)
    <2>1. call[c].at = "exists" /\ UNCHANGED <<rows, calls, odd>> /\ (Goes(c, "parent") \/ Ends(c))
        BY <1>1 DEF Exists
    <2> QED
        BY <2>1, EndMoves, GoMoves DEF Creating
<1>2. CASE Free(c)
    <2>1. call[c].at = "free" /\ UNCHANGED <<rows, calls, odd>>
        BY <1>2 DEF Free
    <2>2. PICK at : at = IF call[c].folder THEN "list" ELSE "shift"
        OBVIOUS
    <2>3. Goes(c, at) \/ Ends(c)
        BY <1>2, <2>2 DEF Free
    <2> QED
        BY <2>1, <2>2, <2>3, EndMoves, GoMoves DEF Moving
<1>3. CASE NothingToTell(c)
    BY <1>3, GoMoves DEF NothingToTell
<1> QED
    BY <1>1, <1>2, <1>3, ChainMoves, ParentMoves, InsertMoves, TargetMoves, ListMoves,
       ShiftMoves DEF TreeStep

-----------------------------------------------------------------------------
(* The queue.                                                              *)

\* The path a job's run sees to is that of its folder's slot.  Only a move has
\* two of them.
Single(e) == e.from = e.path /\ e.key = e.path
EventOK(e) == e.kind # "move" => Single(e)

\* Calls number their events, and have not sent those they have yet to send.
CallNos ==
    /\ \A c \in Callers : call[c].no <= calls /\ (call[c].tell # {} => call[c].at = "tell")
    /\ call[Worker].tell = {}
    /\ \A c, d \in Users :
         c # d /\ call[c] # Idle /\ call[d] # Idle => call[c].no # call[d].no
    /\ \A c \in Callers : \A e \in call[c].tell :
         e.no = call[c].no /\ EventOK(e) /\ ~Has(jobs, e)
    /\ \A c \in Users : call[c] # Idle /\ call[c].at \notin {"tell", "remove"} =>
         \A i \in DOMAIN jobs : jobs[i].ev.no # call[c].no

JobNos ==
    /\ \A i \in DOMAIN jobs : jobs[i].ev.no <= calls /\ EventOK(jobs[i].ev)
    /\ \A i, k \in DOMAIN jobs : jobs[i].ev = jobs[k].ev => i = k

\* A job that waits is its folder's last.
SlotsKept ==
    /\ \A i, k \in DOMAIN jobs : i < k /\ jobs[i].ev.key = jobs[k].ev.key => ~jobs[i].wait
    /\ \A i \in DOMAIN jobs : jobs[i].wait => <<jobs[i].ev.key, "next">> \in slots
    /\ \A p \in Seq(FolderNames) : <<p, "next">> \in slots => <<p, "now">> \in slots

Running(i) == worker.at # "idle" /\ jobs[i].ev = TheEvent

\* The job that runs is its folder's first.
OneRuns ==
    /\ \A i \in DOMAIN jobs : jobs[i].active <=> Running(i)
    /\ \A i, k \in DOMAIN jobs : i < k /\ jobs[k].active => jobs[i].ev.key # jobs[k].ev.key
    /\ worker.at # "idle" => ~TheJob.wait

\* A call has made a step, and the queue is what it was.
LEMMA NosStay ==
    ASSUME TreeInv, CallNos, JobNos, NEW c \in Callers,
           \A d \in Callers : d # c => call'[d] = call[d],
           UNCHANGED <<jobs, calls>>,
           call'[c] # Idle =>
             /\ call'[c].no = call[c].no /\ call[c] # Idle
             /\ call'[c].at \notin {"tell", "remove"} => call[c].at \notin {"tell", "remove"}
             /\ call'[c].tell # {} => c # Worker /\ call'[c].at = "tell"
             /\ \A e \in call'[c].tell :
                  \/ e \in call[c].tell
                  \/ /\ call[c].at \notin {"tell", "remove"}
                     /\ e.no = call[c].no /\ EventOK(e)
    PROVE  CallNos' /\ JobNos'
<1>1. JobNos'
    BY DEF JobNos
<1>2. Idle.tell = {} /\ Idle.no = 0 /\ calls \in Nat
    BY DEF Idle, TreeInv
<1>3. Users \subseteq Callers /\ Worker \in Callers /\ \A d \in Callers : d \in Users \/ d = Worker
    BY OkfAssumption DEF Users
<1>4. \A d \in Callers : call'[d].no <= calls' /\ (call'[d].tell # {} => call'[d].at = "tell")
    BY <1>2 DEF CallNos
<1>5. call'[Worker].tell = {}
    BY <1>2, <1>3 DEF CallNos
<1>6. \A d, f \in Users :
         d # f /\ call'[d] # Idle /\ call'[f] # Idle => call'[d].no # call'[f].no
    BY <1>3 DEF CallNos
<1>7. ASSUME NEW d \in Callers, NEW e \in call'[d].tell
      PROVE  e.no = call'[d].no /\ EventOK(e) /\ ~Has(jobs', e)
    <2>1. CASE d # c
        BY <1>7, <2>1 DEF CallNos
    <2>2. CASE d = c
        <3>1. call'[c] # Idle /\ call'[c].no = call[c].no /\ c \in Users /\ call[c] # Idle
            BY <1>2, <1>3, <1>7, <2>2
        <3>2. CASE e \in call[c].tell
            BY <2>2, <3>1, <3>2 DEF CallNos
        <3>3. CASE e \notin call[c].tell
            <4>1. call[c].at \notin {"tell", "remove"} /\ e.no = call[c].no /\ EventOK(e)
                BY <1>7, <2>2, <3>1, <3>3
            <4>2. \A i \in DOMAIN jobs : jobs[i].ev.no # e.no
                BY <3>1, <4>1 DEF CallNos
            <4> QED
                BY <2>2, <3>1, <4>1, <4>2 DEF Has
        <3> QED
            BY <3>2, <3>3
    <2> QED
        BY <2>1, <2>2
<1>8. \A d \in Users : call'[d] # Idle /\ call'[d].at \notin {"tell", "remove"} =>
         \A i \in DOMAIN jobs' : jobs'[i].ev.no # call'[d].no
    BY <1>3 DEF CallNos
<1> QED
    BY <1>1, <1>4, <1>5, <1>6, <1>7, <1>8 DEF CallNos

\* The jobs left are some of those there were, in their order.
Embeds(js, jt) ==
    \E g \in [DOMAIN jt -> DOMAIN js] :
      /\ \A i \in DOMAIN jt : jt[i].ev = js[g[i]].ev
      /\ \A i, k \in DOMAIN jt : i < k => g[i] < g[k]

LEMMA JobsMeaning ==
    ASSUME OkfInv
    PROVE  /\ jobs \in Seq(Job) /\ Len(jobs) \in Nat /\ DOMAIN jobs = 1 .. Len(jobs)
           /\ \A i \in DOMAIN jobs : jobs[i] \in Job /\ jobs[i].ev \in Event /\ i \in Nat
<1>1. jobs \in Seq(Job)
    BY DEF OkfInv, JobsOK
<1>2. Len(jobs) \in Nat /\ DOMAIN jobs = 1 .. Len(jobs)
    BY <1>1
<1>3. ASSUME NEW i \in DOMAIN jobs PROVE jobs[i] \in Job /\ jobs[i].ev \in Event /\ i \in Nat
    <2>1. jobs[i] \in Job /\ i \in Nat
        BY <1>1, <1>2
    <2> QED
        BY <2>1 DEF Job
<1> QED
    BY <1>1, <1>2, <1>3

LEMMA RemoveMeaning ==
    ASSUME NEW k \in DOMAIN jobs, jobs \in Seq(Job)
    PROVE  LET s == RemoveAt(jobs, k)
           IN  /\ s \in Seq(Job) /\ Len(s) = Len(jobs) - 1 /\ DOMAIN s = 1 .. Len(jobs) - 1
               /\ \A i \in DOMAIN s : s[i] = IF i < k THEN jobs[i] ELSE jobs[i + 1]
<1>1. k \in 1 .. Len(jobs) /\ Len(jobs) \in Nat
    OBVIOUS
<1>2. PICK a : a = SubSeq(jobs, 1, k - 1)
    OBVIOUS
<1>3. PICK b : b = SubSeq(jobs, k + 1, Len(jobs))
    OBVIOUS
<1>4. a \in Seq(Job) /\ Len(a) = k - 1 /\ \A i \in 1 .. k - 1 : a[i] = jobs[i]
    BY <1>1, <1>2
<1>5. b \in Seq(Job) /\ Len(b) = Len(jobs) - k /\ \A i \in 1 .. Len(jobs) - k : b[i] = jobs[k + i]
    BY <1>1, <1>3
<1>6. PICK s : s = a \o b
    OBVIOUS
<1>7. s = RemoveAt(jobs, k)
    BY <1>2, <1>3, <1>6 DEF RemoveAt
<1>8. s \in Seq(Job) /\ Len(s) = Len(jobs) - 1
    BY <1>1, <1>4, <1>5, <1>6
<1>9. \A i \in 1 .. Len(a) + Len(b) : s[i] = IF i <= Len(a) THEN a[i] ELSE b[i - Len(a)]
    BY <1>6
<1>10. ASSUME NEW i \in 1 .. Len(jobs) - 1
      PROVE  s[i] = IF i < k THEN jobs[i] ELSE jobs[i + 1]
    <2>1. CASE i < k
        <3>1. i \in 1 .. k - 1 /\ i \in 1 .. Len(a) + Len(b) /\ i <= Len(a)
            BY <1>1, <1>4, <1>5, <1>10, <2>1
        <3> QED
            BY <1>4, <1>9, <2>1, <3>1
    <2>2. CASE ~(i < k)
        <3>1. i - (k - 1) \in 1 .. Len(jobs) - k /\ k + (i - (k - 1)) = i + 1
            BY <1>1, <1>10, <2>2
        <3>2. i \in 1 .. Len(a) + Len(b) /\ ~(i <= Len(a)) /\ Len(a) = k - 1
            BY <1>1, <1>4, <1>5, <1>10, <2>2
        <3> QED
            BY <1>5, <1>9, <2>2, <3>1, <3>2
    <2> QED
        BY <2>1, <2>2
<1>11. DOMAIN s = 1 .. Len(jobs) - 1
    BY <1>8
<1>12. /\ s \in Seq(Job) /\ Len(s) = Len(jobs) - 1 /\ DOMAIN s = 1 .. Len(jobs) - 1
       /\ \A i \in DOMAIN s : s[i] = IF i < k THEN jobs[i] ELSE jobs[i + 1]
    BY <1>8, <1>10, <1>11
<1> QED
    BY <1>7, <1>12

\* Whatever way a job leaves, the others keep their order.
LEMMA RemoveEmbeds ==
    ASSUME NEW k \in DOMAIN jobs, jobs \in Seq(Job), jobs' = RemoveAt(jobs, k)
    PROVE  \E g \in [DOMAIN jobs' -> DOMAIN jobs] :
             /\ \A i \in DOMAIN jobs' : jobs'[i] = jobs[g[i]] /\ g[i] # k
             /\ \A i, n \in DOMAIN jobs' : i < n => g[i] < g[n]
             /\ \A i \in DOMAIN jobs \ {k} : \E n \in DOMAIN jobs' : g[n] = i
<1>1. k \in 1 .. Len(jobs) /\ Len(jobs) \in Nat /\ DOMAIN jobs = 1 .. Len(jobs)
    OBVIOUS
<1>2. /\ DOMAIN jobs' = 1 .. Len(jobs) - 1
      /\ \A i \in DOMAIN jobs' : jobs'[i] = IF i < k THEN jobs[i] ELSE jobs[i + 1]
    BY RemoveMeaning
<1>3. PICK g : g = [i \in DOMAIN jobs' |-> IF i < k THEN i ELSE i + 1]
    OBVIOUS
<1>4. g \in [DOMAIN jobs' -> DOMAIN jobs] /\ \A i \in DOMAIN jobs' : g[i] = IF i < k THEN i ELSE i + 1
    BY <1>1, <1>2, <1>3
<1>5. \A i \in DOMAIN jobs' : jobs'[i] = jobs[g[i]] /\ g[i] # k
    BY <1>1, <1>2, <1>4
<1>6. \A i, n \in DOMAIN jobs' : i < n => g[i] < g[n]
    BY <1>1, <1>2, <1>4
<1>7. ASSUME NEW i \in DOMAIN jobs \ {k} PROVE \E n \in DOMAIN jobs' : g[n] = i
    <2>1. CASE i < k
        <3>1. i \in DOMAIN jobs' /\ g[i] = i
            BY <1>1, <1>2, <1>4, <2>1
        <3> QED
            BY <3>1
    <2>2. CASE ~(i < k)
        <3>1. i - 1 \in DOMAIN jobs' /\ g[i - 1] = i
            BY <1>1, <1>2, <1>4, <1>7, <2>2
        <3> QED
            BY <3>1
    <2> QED
        BY <2>1, <2>2
<1> QED
    BY <1>4, <1>5, <1>6, <1>7

LEMMA SameEvsEmbed ==
    ASSUME DOMAIN jobs' = DOMAIN jobs, \A i \in DOMAIN jobs : jobs'[i].ev = jobs[i].ev
    PROVE  Embeds(jobs, jobs')
<1>1. PICK g : g = [i \in DOMAIN jobs |-> i]
    OBVIOUS
<1>2. g \in [DOMAIN jobs' -> DOMAIN jobs] /\ \A i \in DOMAIN jobs : g[i] = i
    BY <1>1
<1> QED
    BY <1>2 DEF Embeds

\* Jobs leave the queue or change but for what they are about, and no call moves.
LEMMA FewerJobs ==
    ASSUME OkfInv, OkfInv', CallNos, JobNos, UNCHANGED <<call, calls>>, Embeds(jobs, jobs')
    PROVE  CallNos' /\ JobNos'
<1>1. PICK g \in [DOMAIN jobs' -> DOMAIN jobs] :
         /\ \A i \in DOMAIN jobs' : jobs'[i].ev = jobs[g[i]].ev
         /\ \A i, k \in DOMAIN jobs' : i < k => g[i] < g[k]
    BY DEF Embeds
<1>2. \A i \in DOMAIN jobs' : i \in Nat /\ g[i] \in DOMAIN jobs
    BY <1>1, JobsMeaning DEF OkfInv, JobsOK
<1>3. ASSUME NEW e, Has(jobs', e) PROVE Has(jobs, e)
    BY <1>1, <1>2, <1>3 DEF Has
<1>4. ASSUME NEW i \in DOMAIN jobs', NEW k \in DOMAIN jobs', jobs'[i].ev = jobs'[k].ev
      PROVE  i = k
    <2>1. g[i] = g[k]
        BY <1>1, <1>2, <1>4 DEF JobNos
    <2>2. g[i] \in Nat /\ g[k] \in Nat
        BY <1>2, JobsMeaning
    <2> QED
        BY <1>1, <1>2, <2>1, <2>2
<1>5. JobNos'
    BY <1>1, <1>2, <1>4 DEF JobNos
<1>6. CallNos'
    BY <1>1, <1>2, <1>3 DEF CallNos
<1> QED
    BY <1>5, <1>6

\* The place of the worker's job in the queue.
LEMMA PlaceMeaning ==
    ASSUME OkfInv, JobNos, worker.at # "idle"
    PROVE  /\ Place(TheJob) \in DOMAIN jobs /\ jobs[Place(TheJob)].ev = TheEvent
           /\ \A i \in DOMAIN jobs : Running(i) <=> i = Place(TheJob)
           /\ TheJob \in Job /\ TheJob.ev = TheEvent /\ jobs # <<>>
<1>1. /\ TheJob \in Job /\ TheEvent \in Event /\ Has(jobs, TheEvent) /\ TheJob.ev = TheEvent
    BY TheJobTypes DEF TheEvent
<1>2. Place(TheJob) \in DOMAIN jobs /\ jobs[Place(TheJob)].ev = TheEvent
    BY <1>1 DEF Place, Has
<1>3. jobs # <<>>
    BY <1>2
<1> QED
    BY <1>1, <1>2, <1>3 DEF JobNos, Running

\* A run is over and its job has left, or waits for another attempt.
LEMMA RunEnds ==
    ASSUME OkfInv, OkfInv', CallNos, JobNos, SlotsKept, OneRuns, worker.at # "idle",
           jobs' \in {Others(TheJob), Retried(TheJob)}, worker' = Resting,
           UNCHANGED <<call, calls, slots>>
    PROVE  CallNos' /\ JobNos' /\ SlotsKept' /\ OneRuns'
<1>1. PICK k \in DOMAIN jobs : /\ k = Place(TheJob) /\ jobs[k].ev = TheEvent /\ TheJob \in Job
                               /\ TheJob.ev = TheEvent
                               /\ \A i \in DOMAIN jobs : Running(i) <=> i = k
    BY PlaceMeaning
<1>2. /\ jobs \in Seq(Job) /\ \A i \in DOMAIN jobs : i \in Nat /\ jobs[i] \in Job
      /\ jobs' \in Seq(Job) /\ \A i \in DOMAIN jobs' : i \in Nat
    BY JobsMeaning DEF OkfInv, JobsOK
<1>3. worker'.at = "idle"
    BY DEF Resting
<1>4. CASE jobs' = RemoveAt(jobs, k)
    <2>1. PICK g \in [DOMAIN jobs' -> DOMAIN jobs] :
             /\ \A i \in DOMAIN jobs' : jobs'[i] = jobs[g[i]] /\ g[i] # k
             /\ \A i, n \in DOMAIN jobs' : i < n => g[i] < g[n]
        BY <1>2, <1>4, RemoveEmbeds
    <2>2. Embeds(jobs, jobs')
        BY <2>1 DEF Embeds
    <2>3. SlotsKept'
        BY <2>1 DEF SlotsKept
    <2>4. OneRuns'
        <3>1. \A i \in DOMAIN jobs' : ~jobs'[i].active
            BY <1>1, <2>1 DEF OneRuns
        <3> QED
            BY <1>3, <3>1 DEF OneRuns, Running
    <2> QED
        BY <2>2, <2>3, <2>4, FewerJobs
<1>5. CASE jobs' # RemoveAt(jobs, k)
    <2>1. PICK x : x = [TheJob EXCEPT !.active = FALSE, !.left = @ - 1]
        OBVIOUS
    <2>2. jobs' = [jobs EXCEPT ![k] = x]
        BY <1>1, <1>5, <2>1 DEF Others, Retried
    <2>3. x.ev = TheEvent /\ ~x.active /\ x.wait = TheJob.wait /\ ~x.wait
        BY <1>1, <2>1 DEF Job, OneRuns
    <2>4. DOMAIN jobs' = DOMAIN jobs /\ jobs'[k] = x /\ \A i \in DOMAIN jobs \ {k} : jobs'[i] = jobs[i]
        BY <1>2, <2>2
    <2>5. \A i \in DOMAIN jobs : jobs'[i].ev = jobs[i].ev
        BY <1>1, <2>3, <2>4
    <2>6. SlotsKept'
        BY <2>3, <2>4, <2>5 DEF SlotsKept
    <2>7. OneRuns'
        <3>1. \A i \in DOMAIN jobs' : ~jobs'[i].active
            BY <1>1, <2>3, <2>4 DEF OneRuns
        <3> QED
            BY <1>3, <3>1 DEF OneRuns, Running
    <2> QED
        BY <2>4, <2>5, <2>6, <2>7, FewerJobs, SameEvsEmbed
<1> QED
    BY <1>4, <1>5

LEMMA TickQueues ==
    ASSUME OkfInv, OkfInv', CallNos, JobNos, SlotsKept, OneRuns, Tick
    PROVE  CallNos' /\ JobNos' /\ SlotsKept' /\ OneRuns'
<1>1. jobs \in Seq(Job) /\ \A i \in DOMAIN jobs : jobs[i] \in Job
    BY JobsMeaning
<1>2. DOMAIN jobs' = DOMAIN jobs /\ UNCHANGED <<call, calls, worker>>
    BY DEF Tick, treeVars
<1>3. ASSUME NEW i \in DOMAIN jobs
      PROVE  jobs'[i].ev = jobs[i].ev /\ ~jobs'[i].wait /\ jobs'[i].active = jobs[i].active
    <2>1. jobs'[i] = [jobs[i] EXCEPT !.wait = FALSE]
        BY DEF Tick
    <2> QED
        BY <1>1, <2>1 DEF Job
<1>4. SlotsKept'
    <2>1. \A p : <<p, "next">> \notin slots'
        BY DEF Tick
    <2> QED
        BY <1>2, <1>3, <2>1 DEF SlotsKept
<1>5. OneRuns'
    <2>1. TheJob' = TheJob /\ TheEvent' = TheEvent
        BY <1>2 DEF TheJob, TheEvent
    <2> QED
        BY <1>2, <1>3, <2>1 DEF OneRuns, Running
<1> QED
    BY <1>2, <1>3, <1>4, <1>5, FewerJobs, SameEvsEmbed

\* The first job that is ready is taken, and no job before it is of its folder.
LEMMA Taking ==
    ASSUME OkfInv, Take
    PROVE  \E i \in DOMAIN jobs :
             /\ Ready(i) /\ \A k \in 1 .. (i - 1) : ~Ready(k)
             /\ DOMAIN jobs' = DOMAIN jobs
             /\ jobs'[i].ev = jobs[i].ev /\ jobs'[i].active /\ jobs'[i].wait = jobs[i].wait
             /\ \A k \in DOMAIN jobs \ {i} : jobs'[k] = jobs[k]
             /\ TheJob' = jobs'[i] /\ TheEvent' = jobs[i].ev
             /\ worker'.at = IF jobs[i].ev.name \in Concepts THEN "index" ELSE "finish"
             /\ worker'.dirs = Dirs(jobs[i].ev)
             /\ worker'.refs = {[path |-> rows[n].path, name |-> rows[n].name] :
                                  n \in {n \in Nodes : rows[n].stored /\ rows[n].name \in Concepts}}
<1>1. PICK i \in DOMAIN jobs :
         /\ Ready(i) /\ \A k \in 1 .. (i - 1) : ~Ready(k)
         /\ jobs' = [jobs EXCEPT ![i].active = TRUE]
         /\ worker' = [at |-> IF jobs[i].ev.name \in Concepts THEN "index" ELSE "finish",
                       job |-> {jobs'[i]},
                       refs |-> {[path |-> rows[n].path, name |-> rows[n].name] :
                                   n \in {n \in Nodes : rows[n].stored
                                                        /\ rows[n].name \in Concepts}},
                       dirs |-> Dirs(jobs[i].ev), node |-> Null, text |-> NoText]
    BY DEF Take
<1>2. jobs[i] \in Job
    BY JobsMeaning
<1>3. jobs'[i] = [jobs[i] EXCEPT !.active = TRUE] /\ DOMAIN jobs' = DOMAIN jobs
      /\ \A k \in DOMAIN jobs \ {i} : jobs'[k] = jobs[k]
    BY <1>1
<1>4. jobs'[i].ev = jobs[i].ev /\ jobs'[i].active /\ jobs'[i].wait = jobs[i].wait
    BY <1>2, <1>3 DEF Job
<1>5. worker'.job = {jobs'[i]}
    BY <1>1
<1>6. TheJob' = jobs'[i]
    BY <1>5 DEF TheJob
<1>7. TheEvent' = jobs[i].ev
    BY <1>4, <1>6 DEF TheEvent
<1> QED
    BY <1>1, <1>3, <1>4, <1>6, <1>7

LEMMA TakeQueues ==
    ASSUME OkfInv, OkfInv', CallNos, JobNos, SlotsKept, OneRuns, Take
    PROVE  CallNos' /\ JobNos' /\ SlotsKept' /\ OneRuns'
<1>1. PICK i \in DOMAIN jobs :
             /\ Ready(i) /\ \A k \in 1 .. (i - 1) : ~Ready(k)
             /\ DOMAIN jobs' = DOMAIN jobs
             /\ jobs'[i].ev = jobs[i].ev /\ jobs'[i].active /\ jobs'[i].wait = jobs[i].wait
             /\ \A k \in DOMAIN jobs \ {i} : jobs'[k] = jobs[k]
             /\ TheJob' = jobs'[i] /\ TheEvent' = jobs[i].ev
             /\ worker'.at \in {"index", "finish"}
    BY Taking
<1>2. UNCHANGED <<call, calls, slots>> /\ worker.at = "idle"
    BY DEF Take, Rests, treeVars
<1>3. DOMAIN jobs = 1 .. Len(jobs) /\ Len(jobs) \in Nat /\ \A k \in DOMAIN jobs : k \in Nat
    BY JobsMeaning
<1>4. \A k \in DOMAIN jobs : jobs'[k].ev = jobs[k].ev /\ jobs'[k].wait = jobs[k].wait
    BY <1>1
<1>5. SlotsKept'
    BY <1>1, <1>2, <1>4 DEF SlotsKept
<1>6. \A k \in DOMAIN jobs : ~jobs[k].active
    BY <1>2 DEF OneRuns, Running
<1>7. \A k \in DOMAIN jobs' : jobs'[k].active <=> Running(k)'
    <2>1. \A k \in DOMAIN jobs' : Running(k)' <=> jobs[k].ev = jobs[i].ev
        BY <1>1, <1>4 DEF Running
    <2> QED
        BY <1>1, <1>6, <2>1 DEF JobNos
<1>8. ASSUME NEW k \in DOMAIN jobs', NEW n \in DOMAIN jobs', k < n, jobs'[n].active
      PROVE  jobs'[k].ev.key # jobs'[n].ev.key
    <2>1. n = i
        BY <1>1, <1>6, <1>8
    <2>2. SUFFICES ASSUME jobs[k].ev.key = jobs[i].ev.key PROVE FALSE
        BY <1>1, <1>4, <2>1
    <2>3. ~jobs[k].wait
        BY <1>1, <1>8, <2>1, <2>2 DEF SlotsKept
    <2>4. k \in 1 .. (i - 1)
        BY <1>1, <1>3, <1>8, <2>1
    <2> QED
        BY <1>1, <1>6, <2>3, <2>4 DEF Ready
<1>9. ~TheJob'.wait
    BY <1>1 DEF Ready
<1>10. OneRuns'
    BY <1>7, <1>8, <1>9 DEF OneRuns
<1> QED
    BY <1>1, <1>2, <1>4, <1>5, <1>10, FewerJobs, SameEvsEmbed

Concept(n) == n \in Nodes /\ ~rows[n].folder /\ rows[n].name \in Concepts
Of(e, p, m) == e.path = p /\ e.name = m

\* A call of a user has begun.  A delete has its events from the start, and says
\* of each concept it will delete where it is.
Telling(s) ==
    /\ \A e \in s.tell :
         /\ e.no = calls + 1 /\ Single(e) /\ e.kind = "delete"
         /\ \E k \in s.todo : k \in Files(e.path, e.name)
    /\ \A k \in s.todo : Concept(k) => \E e \in s.tell : Of(e, rows[k].path, rows[k].name)

Started(c) ==
    /\ call[c] = Idle /\ rows' = rows /\ calls' = calls + 1
    /\ odd' \in {odd, odd \cup {"tangled"}}
    /\ \A d \in Callers : d # c => call'[d] = call[d]
    /\ call'[c].no = calls + 1
    /\ call'[c].at \in {"chain", "exists", "store", "free", "target", "tell"}
    /\ call'[c].at = "store" => call'[c].kind = "save"
    /\ call'[c].kind = "delete" <=> call'[c].at = "tell"
    /\ call'[c].tell # {} => call'[c].at = "tell"
    /\ Telling(call'[c])
    /\ call'[c].kind = "delete" => rows[call'[c].id].folder = call'[c].folder
    /\ call'[c].kind # "save" => call'[c].text.listed = {}

LEMMA BeginStarts ==
    ASSUME TreeInv, NEW c \in Users, NEW r, NEW s, Begin(c, r), s = [r EXCEPT !.no = calls'],
           calls' = calls + 1 => s.no = calls + 1,
           s.at \in {"chain", "exists", "store", "free", "target", "tell"},
           s.at = "store" => s.kind = "save",
           s.kind = "delete" <=> s.at = "tell",
           s.tell # {} => s.at = "tell",
           Telling(s),
           s.kind = "delete" => rows[s.id].folder = s.folder,
           s.kind # "save" => s.text.listed = {}
    PROVE  Started(c)
<1>1. c \in Callers /\ c \notin Internal
    BY OkfAssumption DEF Users
<1>2. call[c] = Idle /\ rows' = rows /\ calls' = calls + 1 /\ odd' \in {odd, odd \cup {"tangled"}}
    BY <1>1 DEF Begin
<1>3. call'[c] = s /\ \A d \in Callers : d # c => call'[d] = call[d]
    BY <1>1 DEF Begin, TreeInv
<1> QED
    BY <1>2, <1>3 DEF Started

LEMMA CreateStarts ==
    ASSUME TreeInv, NEW c \in Users, NEW kind \in {"folder", "file", "document"}, NEW p, NEW m,
           StartCreate(c, kind, p, m, NoText)
    PROVE  Started(c)
<1>1. PICK r : r = [Idle EXCEPT !.kind = kind, !.path = p, !.name = m, !.text = NoText,
                          !.part = 1, !.at = IF kind = "document" THEN "chain" ELSE "exists"]
    OBVIOUS
<1>2. PICK s : s = [r EXCEPT !.no = calls']
    OBVIOUS
<1>3. s.kind = kind /\ s.at \in {"chain", "exists"} /\ s.tell = {} /\ s.todo = {} /\ s.no = calls'
      /\ s.text.listed = {}
    BY <1>1, <1>2 DEF Idle, NoText
<1>4. Begin(c, r)
    BY <1>1 DEF StartCreate
<1>5. Telling(s)
    BY <1>3 DEF Telling
<1> QED
    BY <1>2, <1>3, <1>4, <1>5, BeginStarts

LEMMA SaveStarts ==
    ASSUME TreeInv, NEW c \in Users, NEW n, NEW txt, StartSave(c, n, txt)
    PROVE  Started(c)
<1>1. PICK r : r = [Idle EXCEPT !.kind = "save", !.id = n, !.text = txt, !.at = "store"]
    OBVIOUS
<1>2. PICK s : s = [r EXCEPT !.no = calls']
    OBVIOUS
<1>3. s.kind = "save" /\ s.at = "store" /\ s.tell = {} /\ s.todo = {} /\ s.no = calls'
    BY <1>1, <1>2 DEF Idle
<1>4. Begin(c, r)
    BY <1>1 DEF StartSave
<1>5. Telling(s)
    BY <1>3 DEF Telling
<1> QED
    BY <1>2, <1>3, <1>4, <1>5, BeginStarts

LEMMA RenameStarts ==
    ASSUME TreeInv, NEW c \in Users, NEW n, NEW m, StartRename(c, n, m)
    PROVE  Started(c)
<1>1. PICK r : r = [Idle EXCEPT !.kind = "rename", !.id = n, !.path = rows[n].path, !.name = m,
                             !.from = FullPath(n), !.folder = rows[n].folder, !.at = "free"]
    OBVIOUS
<1>2. PICK s : s = [r EXCEPT !.no = calls']
    OBVIOUS
<1>3. s.kind = "rename" /\ s.at = "free" /\ s.tell = {} /\ s.todo = {} /\ s.no = calls'
      /\ s.text.listed = {}
    BY <1>1, <1>2 DEF Idle, NoText
<1>4. Begin(c, r)
    BY <1>1 DEF StartRename
<1>5. Telling(s)
    BY <1>3 DEF Telling
<1> QED
    BY <1>2, <1>3, <1>4, <1>5, BeginStarts

LEMMA MoveStarts ==
    ASSUME TreeInv, NEW c \in Users, NEW n, NEW p, StartMove(c, n, p)
    PROVE  Started(c)
<1>1. PICK r : r = [Idle EXCEPT !.kind = "move", !.id = n, !.path = p, !.name = rows[n].name,
                             !.from = FullPath(n), !.folder = rows[n].folder, !.at = "target"]
    OBVIOUS
<1>2. PICK s : s = [r EXCEPT !.no = calls']
    OBVIOUS
<1>3. s.kind = "move" /\ s.at = "target" /\ s.tell = {} /\ s.todo = {} /\ s.no = calls'
      /\ s.text.listed = {}
    BY <1>1, <1>2 DEF Idle, NoText
<1>4. Begin(c, r)
    BY <1>1 DEF StartMove
<1>5. Telling(s)
    BY <1>3 DEF Telling
<1> QED
    BY <1>2, <1>3, <1>4, <1>5, BeginStarts

LEMMA DeleteStarts ==
    ASSUME TreeInv, NEW c \in Users, NEW n, StartDelete(c, n)
    PROVE  Started(c)
<1>1. n \in Nodes /\ Doomed(n) \subseteq Nodes
    BY DEF StartDelete, Doomed, Below
<1>2. PICK evs : evs = {[kind |-> "delete", path |-> rows[k].path, name |-> rows[k].name,
                     from |-> rows[k].path, key |-> rows[k].path, no |-> calls + 1] :
                       k \in {k \in Doomed(n) : ~rows[k].folder /\ rows[k].name \in Concepts}}
    OBVIOUS
<1>3. PICK r : r = [Idle EXCEPT !.kind = "delete", !.id = n, !.folder = rows[n].folder,
          !.at = "tell", !.todo = Doomed(n), !.tell = evs]
    OBVIOUS
<1>4. PICK s : s = [r EXCEPT !.no = calls']
    OBVIOUS
<1>5. s.kind = "delete" /\ s.at = "tell" /\ s.tell = evs /\ s.todo = Doomed(n) /\ s.no = calls'
      /\ s.id = n /\ s.folder = rows[n].folder /\ s.text.listed = {}
    BY <1>3, <1>4 DEF Idle, NoText
<1>6. Begin(c, r)
    BY <1>2, <1>3 DEF StartDelete
<1>7. ASSUME NEW e \in evs
      PROVE  /\ e.no = calls + 1 /\ Single(e) /\ e.kind = "delete"
             /\ \E k \in Doomed(n) : k \in Files(e.path, e.name)
    <2>1. PICK k \in Doomed(n) :
             /\ ~rows[k].folder
             /\ e = [kind |-> "delete", path |-> rows[k].path, name |-> rows[k].name,
                     from |-> rows[k].path, key |-> rows[k].path, no |-> calls + 1]
        BY <1>2
    <2>2. k \in Files(e.path, e.name)
        BY <1>1, <2>1 DEF Files, At
    <2> QED
        BY <2>1, <2>2 DEF Single
<1>8. ASSUME NEW k \in Doomed(n), Concept(k)
      PROVE  \E e \in evs : Of(e, rows[k].path, rows[k].name)
    <2>1. PICK e : e = [kind |-> "delete", path |-> rows[k].path, name |-> rows[k].name,
                        from |-> rows[k].path, key |-> rows[k].path, no |-> calls + 1]
        OBVIOUS
    <2>2. e \in evs
        BY <1>2, <1>8, <2>1 DEF Concept
    <2>3. Of(e, rows[k].path, rows[k].name)
        BY <2>1 DEF Of
    <2> QED
        BY <2>2, <2>3
<1>9. Telling(s)
    BY <1>5, <1>7, <1>8 DEF Telling
<1> QED
    BY <1>4, <1>5, <1>6, <1>9, BeginStarts

LEMMA CallStarts ==
    ASSUME TreeInv, NEW c \in Users, Call(c)
    PROVE  Started(c) /\ UNCHANGED <<corpus, jobs, slots, worker, crashes>>
<1>1. Calls(c) /\ UNCHANGED <<corpus, jobs, slots, worker, crashes>>
    BY DEF Call, OkfStays
<1>2. Started(c)
    BY <1>1, CreateStarts, SaveStarts, RenameStarts, MoveStarts, DeleteStarts DEF Calls
<1> QED
    BY <1>1, <1>2

LEMMA StartQueues ==
    ASSUME OkfInv, CallNos, JobNos, NEW c \in Users, Started(c), UNCHANGED jobs
    PROVE  CallNos' /\ JobNos'
<1>1. /\ c \in Callers /\ c # Worker /\ Users \subseteq Callers /\ calls \in Nat
      /\ \A d \in Callers : d = Worker \/ d \in Users
      /\ \A d \in Callers : call[d].no \in Nat
    <2>1. \A d \in Callers : call[d].no \in Nat
        BY CallTypes DEF OkfInv, CallOf
    <2> QED
        BY <2>1 DEF Users, OkfInv, TreeInv
<1>2. \A i \in DOMAIN jobs : jobs[i].ev.no <= calls /\ jobs[i].ev.no \in Nat
    BY JobsMeaning DEF JobNos, Event
<1>3. JobNos'
    BY <1>1, <1>2 DEF JobNos, Started
<1>4. \A d \in Callers : call'[d].no <= calls' /\ (call'[d].tell # {} => call'[d].at = "tell")
    BY <1>1 DEF CallNos, Started
<1>5. call'[Worker].tell = {}
    BY <1>1, OkfAssumption DEF CallNos, Started
<1>6. \A d, f \in Users :
         d # f /\ call'[d] # Idle /\ call'[f] # Idle => call'[d].no # call'[f].no
    BY <1>1 DEF CallNos, Started
<1>7. ASSUME NEW d \in Callers, NEW e \in call'[d].tell
      PROVE  e.no = call'[d].no /\ EventOK(e) /\ ~Has(jobs', e)
    <2>1. CASE d # c
        BY <1>7, <2>1 DEF CallNos, Started
    <2>2. CASE d = c
        <3>1. e.no = calls + 1 /\ Single(e)
            BY <1>7, <2>2 DEF Started, Telling
        <3>2. ~Has(jobs', e)
            BY <1>1, <1>2, <3>1 DEF Has
        <3> QED
            BY <2>2, <3>1, <3>2 DEF Started, EventOK
    <2> QED
        BY <2>1, <2>2
<1>8. \A d \in Users : call'[d] # Idle /\ call'[d].at \notin {"tell", "remove"} =>
         \A i \in DOMAIN jobs' : jobs'[i].ev.no # call'[d].no
    BY <1>1, <1>2 DEF CallNos, Started
<1> QED
    BY <1>3, <1>4, <1>5, <1>6, <1>7, <1>8 DEF CallNos

\* The queue and the worker are what they were.
LEMMA QueueStays ==
    ASSUME SlotsKept, OneRuns, UNCHANGED <<jobs, slots, worker>>
    PROVE  SlotsKept' /\ OneRuns'
<1>1. TheJob' = TheJob /\ TheEvent' = TheEvent
    BY DEF TheJob, TheEvent
<1> QED
    BY <1>1 DEF SlotsKept, OneRuns, Running

\* The worker goes on with its job.
LEMMA RunGoesOn ==
    ASSUME SlotsKept, OneRuns, UNCHANGED <<jobs, slots>>, worker'.job = worker.job,
           worker.at # "idle", worker'.at # "idle"
    PROVE  SlotsKept' /\ OneRuns'
<1>1. TheJob' = TheJob /\ TheEvent' = TheEvent
    BY DEF TheJob, TheEvent
<1> QED
    BY <1>1 DEF SlotsKept, OneRuns, Running

\* Of a call, all but how far it is and what it has to tell.
SameAim(r, s) ==
    /\ r.kind = s.kind /\ r.path = s.path /\ r.name = s.name /\ r.text = s.text
    /\ r.no = s.no /\ r.folder = s.folder /\ r.id = s.id /\ r.todo = s.todo

LEMMA ToldShape ==
    ASSUME TreeInv, NEW c \in Callers, NEW evs, Told(c, evs)
    PROVE  /\ \A d \in Callers : d # c => call'[d] = call[d]
           /\ \/ /\ c \in Internal /\ call'[c].at = "done"
                 /\ SameAim(call'[c], call[c]) /\ call'[c].tell = call[c].tell
              \/ c \notin Internal /\ evs = {} /\ call'[c] = Idle
              \/ /\ c \notin Internal /\ evs # {} /\ call'[c].at = "tell"
                 /\ SameAim(call'[c], call[c]) /\ call'[c].tell = evs
<1>1. call[c] \in CallOf
    BY CallTypes
<1>2. \A d \in Callers : d # c => call'[d] = call[d]
    BY DEF Told, Ends, Goes, TreeInv
<1>3. CASE c \in Internal
    <2>1. call'[c] = [call[c] EXCEPT !.at = "done"]
        BY <1>3 DEF Told, Goes, TreeInv
    <2> QED
        BY <1>1, <1>2, <1>3, <2>1 DEF CallOf, SameAim
<1>4. CASE c \notin Internal /\ evs = {}
    BY <1>2, <1>4 DEF Told, Ends, TreeInv
<1>5. CASE c \notin Internal /\ evs # {}
    <2>1. PICK r : r = [call[c] EXCEPT !.at = "tell", !.tell = evs]
        OBVIOUS
    <2>2. call'[c] = r
        BY <1>5, <2>1 DEF Told, TreeInv
    <2>3. r.at = "tell" /\ r.tell = evs /\ SameAim(r, call[c])
        BY <1>1, <2>1 DEF CallOf, SameAim
    <2> QED
        BY <1>2, <1>5, <2>2, <2>3
<1> QED
    BY <1>3, <1>4, <1>5

LEMMA TellsShape ==
    ASSUME NEW c \in Callers, NEW kind, NEW p, NEW m, NEW from
    PROVE  /\ c \in Internal => Tells(c, kind, p, m, from) = {}
           /\ \A e \in Tells(c, kind, p, m, from) :
                /\ e.kind = kind /\ e.path = p /\ e.name = m /\ e.from = from
                /\ e.key \in {from, p} /\ e.no = call[c].no
           /\ c \notin Internal => \E e \in Tells(c, kind, p, m, from) : e.key = p
<1>1. ASSUME c \notin Internal
      PROVE  \E e \in Tells(c, kind, p, m, from) : e.key = p
    <2>1. PICK e : e = [kind |-> kind, path |-> p, name |-> m, from |-> from, key |-> p,
                        no |-> call[c].no]
        OBVIOUS
    <2>2. e \in Tells(c, kind, p, m, from) /\ e.key = p
        BY <1>1, <2>1 DEF Tells
    <2> QED
        BY <2>2
<1> QED
    BY <1>1 DEF Tells

\* A call has written its row, and tells what it has done.
Spoke(c) ==
    /\ calls' = calls
    /\ \A d \in Callers : d # c => call'[d] = call[d]
    /\ \/ call'[c] = Idle
       \/ c \in Internal /\ call'[c].at = "done" /\ SameAim(call'[c], call[c])
                         /\ call'[c].tell = call[c].tell
       \/ /\ c \notin Internal /\ call'[c].at = "tell" /\ SameAim(call'[c], call[c])
          /\ \A e \in call'[c].tell :
               /\ e.kind \in {"create", "update", "move"} /\ e.no = call[c].no /\ EventOK(e)

LEMMA StoreSpeaks ==
    ASSUME TreeInv, NEW c \in Callers, Store(c)
    PROVE  Spoke(c)
<1>1. CASE Ends(c)
    BY <1>1 DEF Spoke, Ends, TreeInv, Store
<1>2. CASE ~Ends(c)
    <2>1. PICK kind, p, m, evs : /\ kind \in {"create", "update"} /\ Told(c, evs)
                                 /\ evs = {} \/ evs = Tells(c, kind, p, m, p)
        BY <1>2 DEF Store
    <2>2. \A e \in evs : e.kind \in {"create", "update"} /\ e.no = call[c].no /\ EventOK(e)
        BY <2>1, TellsShape DEF EventOK, Single
    <2>3. calls' = calls
        BY DEF Store
    <2> QED
        BY <2>1, <2>2, <2>3, ToldShape DEF Spoke
<1> QED
    BY <1>1, <1>2

LEMMA WriteSpeaks ==
    ASSUME TreeInv, NEW c \in Callers, Write(c)
    PROVE  Spoke(c)
<1>1. CASE Ends(c)
    BY <1>1 DEF Spoke, Ends, TreeInv, Write
<1>2. CASE ~Ends(c)
    <2>1. PICK p, m, f, evs : Told(c, evs) /\ (evs = {} \/ evs = Tells(c, "move", p, m, f))
        BY <1>2 DEF Write
    <2>2. \A e \in evs : e.kind = "move" /\ e.no = call[c].no /\ EventOK(e)
        BY <2>1, TellsShape DEF EventOK
    <2>3. calls' = calls
        BY DEF Write
    <2> QED
        BY <2>1, <2>2, <2>3, ToldShape DEF Spoke
<1> QED
    BY <1>1, <1>2

\* Nor do the numbers of events mind what is told.
LEMMA SpeakingQueues ==
    ASSUME OkfInv, CallNos, JobNos, NEW c \in Callers, Spoke(c), UNCHANGED jobs,
           call[c].at \notin {"idle", "tell", "remove"}
    PROVE  CallNos' /\ JobNos'
<1>1. TreeInv /\ Idle.at = "idle" /\ Internal = {Worker}
    BY OkfAssumption DEF OkfInv, Idle
<1>2. call'[c] # Idle =>
             /\ call'[c].no = call[c].no /\ call[c] # Idle
             /\ call'[c].at \notin {"tell", "remove"} => call[c].at \notin {"tell", "remove"}
             /\ call'[c].tell # {} => c # Worker /\ call'[c].at = "tell"
             /\ \A e \in call'[c].tell :
                  \/ e \in call[c].tell
                  \/ /\ call[c].at \notin {"tell", "remove"}
                     /\ e.no = call[c].no /\ EventOK(e)
    BY <1>1 DEF Spoke, SameAim, CallNos
<1> QED
    BY <1>1, <1>2, NosStay DEF Spoke

\* One event fewer to tell.
Said(c, e) ==
    /\ rows' = rows /\ calls' = calls
    /\ call[c].at = "tell" /\ e \in call[c].tell /\ call[c] # Idle
    /\ \A d \in Callers : d # c => call'[d] = call[d]
    /\ \/ call'[c] = Idle /\ call[c].kind # "delete"
       \/ /\ SameAim(call'[c], call[c]) /\ call'[c].tell = call[c].tell \ {e}
          /\ \/ call'[c].at = "tell"
             \/ call'[c].at = "remove" /\ call'[c].tell = {} /\ call[c].kind = "delete"

LEMMA TellSays ==
    ASSUME TreeInv, NEW c \in Callers, NEW e \in call[c].tell, Tell(c, e)
    PROVE  Said(c, e) /\ (call'[c] = Idle => call[c].tell \ {e} = {})
<1>1. /\ call[c].at = "tell" /\ call[c] \in CallOf /\ rows' = rows /\ calls' = calls
      /\ call[c] # Idle
    BY CallTypes, IdleFacts DEF Tell
<1>2. PICK left : left = call[c].tell \ {e}
    OBVIOUS
<1>3. CASE left # {}
    <2>1. PICK r : r = [call[c] EXCEPT !.tell = left]
        OBVIOUS
    <2>2. call'[c] = r /\ \A d \in Callers : d # c => call'[d] = call[d]
        BY <1>2, <1>3, <2>1 DEF Tell, TreeInv
    <2>3. r.at = "tell" /\ r.tell = left /\ SameAim(r, call[c])
        BY <1>1, <2>1 DEF CallOf, SameAim
    <2> QED
        BY <1>1, <1>2, <2>2, <2>3, IdleFacts DEF Said
<1>4. CASE left = {} /\ call[c].kind = "delete"
    <2>1. PICK r : r = [call[c] EXCEPT !.tell = {}, !.at = "remove"]
        OBVIOUS
    <2>2. call'[c] = r /\ \A d \in Callers : d # c => call'[d] = call[d]
        BY <1>2, <1>4, <2>1 DEF Tell, TreeInv
    <2>3. r.at = "remove" /\ r.tell = {} /\ SameAim(r, call[c])
        BY <1>1, <2>1 DEF CallOf, SameAim
    <2> QED
        BY <1>1, <1>2, <1>4, <2>2, <2>3, IdleFacts DEF Said
<1>5. CASE left = {} /\ call[c].kind # "delete"
    <2>1. call'[c] = Idle /\ \A d \in Callers : d # c => call'[d] = call[d]
        BY <1>2, <1>5 DEF Tell, Ends, TreeInv
    <2> QED
        BY <1>1, <1>2, <1>5, <2>1 DEF Said
<1> QED
    BY <1>3, <1>4, <1>5

\* An event joins the queue, or does not.
Joined(e) ==
    /\ UNCHANGED odd
    /\ \E slot \in {"now", "next"} :
         /\ jobs' = Append(jobs, NewJob(e, slot = "next"))
         /\ slots' = slots \cup {<<e.key, slot>>} /\ <<e.key, slot>> \notin slots
         /\ slot = "next" => <<e.key, "now">> \in slots

LEMMA EnqueueJoins ==
    ASSUME NEW e, Enqueue(e)
    PROVE  \/ Joined(e) /\ corpus.okf
           \/ UNCHANGED <<jobs, slots>> /\ (~corpus.okf \/ "dropped" \in odd')
BY DEF Enqueue, Joined

LEMMA JoinMeaning ==
    ASSUME OkfInv, NEW e, Joined(e)
    PROVE  /\ DOMAIN jobs' = 1 .. Len(jobs) + 1 /\ DOMAIN jobs = 1 .. Len(jobs) /\ Len(jobs) \in Nat
           /\ \A i \in DOMAIN jobs : jobs'[i] = jobs[i] /\ i \in DOMAIN jobs'
           /\ jobs'[Len(jobs) + 1].ev = e /\ ~jobs'[Len(jobs) + 1].active
           /\ \A i \in DOMAIN jobs' : i \in DOMAIN jobs \/ i = Len(jobs) + 1
           /\ jobs' # <<>>
<1>1. PICK x : x.ev = e /\ ~x.active /\ jobs' = Append(jobs, x)
    BY DEF Joined, NewJob
<1>2. jobs \in Seq(Job) /\ DOMAIN jobs = 1 .. Len(jobs) /\ Len(jobs) \in Nat
    BY JobsMeaning
<1>3. DOMAIN jobs' = 1 .. Len(jobs) + 1 /\ jobs'[Len(jobs) + 1] = x
      /\ \A i \in DOMAIN jobs : jobs'[i] = jobs[i]
    BY <1>1, <1>2
<1>4. Len(jobs) + 1 \in DOMAIN jobs' /\ jobs' # <<>>
    BY <1>2, <1>3
<1> QED
    BY <1>1, <1>2, <1>3, <1>4

LEMMA SendQueues ==
    ASSUME OkfInv, CallNos, JobNos, SlotsKept, OneRuns,
           NEW c \in Callers, NEW e \in call[c].tell, Send(c, e)
    PROVE  CallNos' /\ JobNos' /\ SlotsKept' /\ OneRuns'
<1>1. Said(c, e) /\ Enqueue(e) /\ UNCHANGED <<corpus, worker, crashes>> /\ TreeInv
    BY TellSays DEF Send, OkfInv
<1>2. c # Worker /\ c \in Users /\ Users \subseteq Callers
    BY DEF CallNos, Users
<1>3. Idle.tell = {} /\ Idle.no = 0
    BY DEF Idle
<1>4. CASE UNCHANGED <<jobs, slots>>
    <2>1. CallNos' /\ JobNos'
        <3>1. call'[c] # Idle =>
             /\ call'[c].no = call[c].no /\ call[c] # Idle
             /\ call'[c].at \in {"tell", "remove"}
             /\ call'[c].tell # {} => c # Worker /\ call'[c].at = "tell"
             /\ \A f \in call'[c].tell : f \in call[c].tell
            BY <1>1, <1>2 DEF Said, SameAim
        <3> QED
            BY <1>1, <1>4, <3>1, NosStay DEF Said
    <2> QED
        BY <1>1, <1>4, <2>1, QueueStays
<1>5. CASE Joined(e)
    <2>1. /\ DOMAIN jobs' = 1 .. Len(jobs) + 1 /\ DOMAIN jobs = 1 .. Len(jobs) /\ Len(jobs) \in Nat
          /\ \A i \in DOMAIN jobs : jobs'[i] = jobs[i]
          /\ jobs'[Len(jobs) + 1].ev = e /\ ~jobs'[Len(jobs) + 1].active
          /\ \A i \in DOMAIN jobs' : i \in DOMAIN jobs \/ i = Len(jobs) + 1
        BY <1>5, JoinMeaning
    <2>2. e.no = call[c].no /\ EventOK(e) /\ ~Has(jobs, e) /\ call[c].no <= calls /\ calls' = calls
        BY <1>1 DEF CallNos, Said
    <2>3. JobNos'
        BY <2>1, <2>2 DEF JobNos, Has
    <2>4. ASSUME NEW d \in Callers, NEW f \in call'[d].tell
          PROVE  f.no = call'[d].no /\ EventOK(f) /\ ~Has(jobs', f)
        <3>1. CASE d = c
            <4>1. f \in call[c].tell /\ f # e /\ call'[c].no = call[c].no
                BY <1>1, <1>3, <2>4, <3>1 DEF Said, SameAim
            <4> QED
                BY <2>1, <3>1, <4>1 DEF CallNos, Has
        <3>2. CASE d # c
            <4>1. call'[d] = call[d] /\ f \in call[d].tell
                BY <1>1, <2>4, <3>2 DEF Said
            <4>2. d \in Users /\ call[d] # Idle /\ call[c] # Idle
                BY <1>1, <1>3, <4>1 DEF CallNos, Users, Said
            <4>3. f.no # e.no
                BY <1>2, <2>2, <3>2, <4>1, <4>2 DEF CallNos
            <4> QED
                BY <2>1, <4>1, <4>3 DEF CallNos, Has
        <3> QED
            BY <3>1, <3>2
    <2>5. ASSUME NEW d \in Users, call'[d] # Idle, call'[d].at \notin {"tell", "remove"},
                 NEW i \in DOMAIN jobs'
          PROVE  jobs'[i].ev.no # call'[d].no
        <3>1. d # c /\ call'[d] = call[d]
            BY <1>1, <1>2, <2>5 DEF Said
        <3>2. call[d].no # call[c].no
            BY <1>1, <1>2, <2>5, <3>1 DEF CallNos, Said
        <3> QED
            BY <1>2, <2>1, <2>2, <2>5, <3>1, <3>2 DEF CallNos
    <2>6. \A d \in Callers : call'[d].no <= calls' /\ (call'[d].tell # {} => call'[d].at = "tell")
        BY <1>1, <1>3, <2>2 DEF CallNos, Said, SameAim, OkfInv, TreeInv
    <2>7. call'[Worker].tell = {}
        BY <1>1, <1>2, OkfAssumption DEF CallNos, Said
    <2>8. \A d, f \in Users :
             d # f /\ call'[d] # Idle /\ call'[f] # Idle => call'[d].no # call'[f].no
        BY <1>1, <1>2 DEF CallNos, Said, SameAim
    <2>9. CallNos'
        BY <2>4, <2>5, <2>6, <2>7, <2>8 DEF CallNos
    <2>10. PICK slot \in {"now", "next"} :
             /\ slots' = slots \cup {<<e.key, slot>>} /\ <<e.key, slot>> \notin slots
             /\ slot = "next" => <<e.key, "now">> \in slots
             /\ jobs'[Len(jobs) + 1].wait <=> slot = "next"
        <3>1. PICK slot \in {"now", "next"} :
             /\ jobs' = Append(jobs, NewJob(e, slot = "next"))
             /\ slots' = slots \cup {<<e.key, slot>>} /\ <<e.key, slot>> \notin slots
             /\ slot = "next" => <<e.key, "now">> \in slots
            BY <1>5 DEF Joined
        <3>2. PICK x : x = NewJob(e, slot = "next")
            OBVIOUS
        <3>3. x.wait <=> slot = "next"
            BY <3>2 DEF NewJob
        <3>4. jobs \in Seq(Job)
            BY JobsMeaning
        <3>5. jobs'[Len(jobs) + 1] = x
            BY <3>1, <3>2, <3>4
        <3> QED
            BY <3>1, <3>3, <3>5
    <2>11. e.key \in Seq(FolderNames)
        BY <1>1, CallTypes DEF CallOf, Event
    <2>12. \A i \in DOMAIN jobs : jobs[i].ev.key = e.key => ~jobs[i].wait
        BY <2>10, <2>11 DEF SlotsKept
    <2>13. SlotsKept'
        <3>1. ASSUME NEW i \in DOMAIN jobs', NEW k \in DOMAIN jobs', i < k,
                     jobs'[i].ev.key = jobs'[k].ev.key
              PROVE  ~jobs'[i].wait
            <4>1. i \in DOMAIN jobs /\ jobs'[i] = jobs[i]
                BY <2>1, <3>1
            <4> QED
                BY <2>1, <2>12, <3>1, <4>1 DEF SlotsKept
        <3>2. \A i \in DOMAIN jobs' : jobs'[i].wait => <<jobs'[i].ev.key, "next">> \in slots'
            BY <2>1, <2>10 DEF SlotsKept
        <3>3. \A p \in Seq(FolderNames) : <<p, "next">> \in slots' => <<p, "now">> \in slots'
            BY <2>10 DEF SlotsKept
        <3> QED
            BY <3>1, <3>2, <3>3 DEF SlotsKept
    <2>14. TheJob' = TheJob /\ TheEvent' = TheEvent
        BY <1>1 DEF TheJob, TheEvent
    <2>15. OneRuns'
        <3>1. worker.at # "idle" => Has(jobs, TheEvent)
            BY TheJobTypes
        <3>2. \A i \in DOMAIN jobs' : jobs'[i].active <=> Running(i)'
            BY <1>1, <2>1, <2>2, <2>14, <3>1 DEF OneRuns, Running
        <3>3. \A i, k \in DOMAIN jobs' : i < k /\ jobs'[k].active => jobs'[i].ev.key # jobs'[k].ev.key
            BY <2>1 DEF OneRuns
        <3> QED
            BY <1>1, <2>14, <3>2, <3>3 DEF OneRuns
    <2> QED
        BY <2>3, <2>9, <2>13, <2>15
<1> QED
    BY <1>1, <1>4, <1>5, EnqueueJoins

-----------------------------------------------------------------------------
(* The steps of the worker.                                                *)

LEMMA OnToNextShape ==
    ASSUME OkfInv, worker' = OnToNext
    PROVE  /\ worker'.at = IF Tail(worker.dirs) = <<>> THEN "log" ELSE "index"
           /\ worker'.dirs = Tail(worker.dirs) /\ worker'.job = worker.job
           /\ worker'.refs = worker.refs
<1>1. worker \in Working
    BY DEF OkfInv, WorkerOK
<1>2. PICK left : left = Tail(worker.dirs)
    OBVIOUS
<1>3. PICK at : at = IF left = <<>> THEN "log" ELSE "index"
    OBVIOUS
<1>4. worker' = [worker EXCEPT !.dirs = left, !.at = at, !.node = Null, !.text = NoText]
    BY <1>2, <1>3 DEF OnToNext
<1>5. worker'.at = at /\ worker'.dirs = left /\ worker'.job = worker.job /\ worker'.refs = worker.refs
    BY <1>1, <1>4 DEF Working
<1> QED
    BY <1>2, <1>3, <1>5

\* The worker makes a file with this text.
MakingFile(p, m, listed) ==
    /\ call[Worker] = Idle /\ UNCHANGED <<rows, calls>>
    /\ odd' \in {odd, odd \cup {"tangled"}}
    /\ \A d \in Callers : d # Worker => call'[d] = call[d]
    /\ call'[Worker] # Idle
    /\ call'[Worker].kind = "file" /\ call'[Worker].at = "exists"
    /\ call'[Worker].path = p /\ call'[Worker].name = m
    /\ call'[Worker].text.listed = listed
    /\ call'[Worker].tell = {} /\ call'[Worker].no = calls

LEMMA MakeStarts ==
    ASSUME TreeInv, NEW p, NEW m, NEW txt, StartCreate(Worker, "file", p, m, txt)
    PROVE  MakingFile(p, m, txt.listed)
<1>1. PICK r : r = [Idle EXCEPT !.kind = "file", !.path = p, !.name = m, !.text = txt, !.part = 1,
                          !.at = IF "file" = "document" THEN "chain" ELSE "exists"]
    OBVIOUS
<1>2. PICK s : s = [r EXCEPT !.no = calls']
    OBVIOUS
<1>3. /\ s.kind = "file" /\ s.at = "exists" /\ s.path = p /\ s.name = m /\ s.text = txt
      /\ s.tell = {} /\ s.no = calls'
    BY <1>1, <1>2 DEF Idle
<1>4. Begin(Worker, r) /\ Worker \in Internal /\ Worker \in Callers
    BY <1>1, OkfAssumption DEF StartCreate
<1>5. call'[Worker] = s /\ \A d \in Callers : d # Worker => call'[d] = call[d]
    BY <1>2, <1>4 DEF Begin, TreeInv
<1>6. s # Idle
    BY <1>3, IdleFacts
<1>7. /\ call[Worker] = Idle /\ UNCHANGED <<rows, calls>> /\ odd' \in {odd, odd \cup {"tangled"}}
    BY <1>4 DEF Begin
<1> QED
    BY <1>3, <1>5, <1>6, <1>7 DEF MakingFile

\* What the worker does about an index.md.
IndexPasses ==
    /\ IF TheEvent.kind = "delete" THEN Files(Head(worker.dirs), "index.md") = {}
       ELSE Listing(Head(worker.dirs)) = {}
    /\ worker' = OnToNext /\ UNCHANGED <<rows, call, calls, odd>>

IndexMakes ==
    /\ TheEvent.kind # "delete" /\ Files(Head(worker.dirs), "index.md") = {}
    /\ MakingFile(Head(worker.dirs), "index.md", Listing(Head(worker.dirs)))
    /\ worker'.at = "making" /\ worker'.dirs = worker.dirs

IndexReads ==
    /\ UNCHANGED <<rows, call, calls, odd>>
    /\ worker'.at = "merge" /\ worker'.dirs = worker.dirs
    /\ worker'.node \in Files(Head(worker.dirs), "index.md")
    /\ worker'.text = rows[worker'.node].text

LEMMA IndexShape ==
    ASSUME OkfInv, Index
    PROVE  /\ IndexPasses \/ IndexMakes \/ IndexReads
           /\ worker.at = "index" /\ UNCHANGED <<corpus, jobs, slots, crashes>>
           /\ worker'.job = worker.job /\ worker'.refs = worker.refs
<1>1. worker \in Working /\ TreeInv
    BY DEF OkfInv, WorkerOK
<1>2. PICK d : d = Head(worker.dirs)
    OBVIOUS
<1>3. worker.at = "index" /\ UNCHANGED <<corpus, jobs, slots, crashes>>
    BY DEF Index
<1>4. CASE IndexPasses
    BY <1>3, <1>4, OnToNextShape DEF IndexPasses
<1>5. CASE /\ TheEvent.kind # "delete" /\ Files(d, "index.md") = {}
           /\ StartCreate(Worker, "file", d, "index.md", [NoText EXCEPT !.listed = Listing(d)])
           /\ worker' = [worker EXCEPT !.at = "making"]
    <2>1. PICK txt : txt = [NoText EXCEPT !.listed = Listing(d)]
        OBVIOUS
    <2>2. txt.listed = Listing(d)
        BY <2>1 DEF NoText
    <2>3. MakingFile(d, "index.md", Listing(d))
        BY <1>1, <1>5, <2>1, <2>2, MakeStarts
    <2>4. worker'.at = "making" /\ worker'.dirs = worker.dirs /\ worker'.job = worker.job
          /\ worker'.refs = worker.refs
        BY <1>1, <1>5 DEF Working
    <2>5. IndexMakes
        BY <1>2, <1>5, <2>3, <2>4 DEF IndexMakes
    <2> QED
        BY <1>3, <2>4, <2>5
<1>6. CASE \E n \in Files(d, "index.md") :
              /\ worker' = [worker EXCEPT !.at = "merge", !.node = n, !.text = rows[n].text]
              /\ UNCHANGED treeVars
    <2>1. PICK n \in Files(d, "index.md") :
              /\ worker' = [worker EXCEPT !.at = "merge", !.node = n, !.text = rows[n].text]
              /\ UNCHANGED treeVars
        BY <1>6
    <2>2. PICK txt : txt = rows[n].text
        OBVIOUS
    <2>3. worker' = [worker EXCEPT !.at = "merge", !.node = n, !.text = txt]
        BY <2>1, <2>2
    <2>4. /\ worker'.at = "merge" /\ worker'.dirs = worker.dirs /\ worker'.job = worker.job
          /\ worker'.refs = worker.refs /\ worker'.node = n /\ worker'.text = txt
        BY <1>1, <2>3 DEF Working
    <2>5. IndexReads
        BY <1>2, <2>1, <2>2, <2>4 DEF IndexReads, treeVars
    <2> QED
        BY <1>3, <2>4, <2>5
<1>7. \/ IF TheEvent.kind = "delete" THEN Files(d, "index.md") = {} ELSE Listing(d) = {}
      \/ TheEvent.kind = "delete" /\ Files(d, "index.md") # {}
      \/ TheEvent.kind # "delete" /\ Listing(d) # {}
    OBVIOUS
<1>8. \/ /\ IF TheEvent.kind = "delete" THEN Files(d, "index.md") = {} ELSE Listing(d) = {}
         /\ worker' = OnToNext /\ UNCHANGED treeVars
      \/ /\ ~(IF TheEvent.kind = "delete" THEN Files(d, "index.md") = {} ELSE Listing(d) = {})
         /\ Files(d, "index.md") = {}
         /\ StartCreate(Worker, "file", d, "index.md", [NoText EXCEPT !.listed = Listing(d)])
         /\ worker' = [worker EXCEPT !.at = "making"]
      \/ \E n \in Files(d, "index.md") :
              /\ worker' = [worker EXCEPT !.at = "merge", !.node = n, !.text = rows[n].text]
              /\ UNCHANGED treeVars
    BY <1>2 DEF Index
<1> QED
    BY <1>2, <1>4, <1>5, <1>6, <1>8 DEF IndexPasses, treeVars

LEMMA LogShape ==
    ASSUME OkfInv, Log
    PROVE  /\ worker.at = "log" /\ UNCHANGED <<corpus, jobs, slots, crashes>>
           /\ worker'.job = worker.job
           /\ \/ MakingFile(TheEvent.path, "log.md", {}) /\ worker'.at = "making log"
              \/ worker'.at = "append" /\ UNCHANGED <<rows, call, calls, odd>>
                 /\ worker'.node \in Files(TheEvent.path, "log.md")
                 /\ worker'.text = rows[worker'.node].text
<1>1. worker \in Working /\ TreeInv
    BY DEF OkfInv, WorkerOK
<1>2. PICK d : d = TheEvent.path
    OBVIOUS
<1>3. worker.at = "log" /\ UNCHANGED <<corpus, jobs, slots, crashes>>
    BY DEF Log
<1>4. CASE /\ StartCreate(Worker, "file", d, "log.md", [NoText EXCEPT !.entries = {Entry}])
           /\ worker' = [worker EXCEPT !.at = "making log"]
    <2>1. PICK txt : txt = [NoText EXCEPT !.entries = {Entry}]
        OBVIOUS
    <2>2. txt.listed = {}
        BY <2>1 DEF NoText
    <2>3. MakingFile(d, "log.md", {})
        BY <1>1, <1>4, <2>1, <2>2, MakeStarts
    <2>4. worker'.at = "making log" /\ worker'.job = worker.job
        BY <1>1, <1>4 DEF Working
    <2> QED
        BY <1>2, <1>3, <2>3, <2>4
<1>5. CASE \E n \in Files(d, "log.md") :
              /\ worker' = [worker EXCEPT !.at = "append", !.node = n, !.text = rows[n].text]
              /\ UNCHANGED treeVars
    <2>1. PICK n \in Files(d, "log.md") :
              /\ worker' = [worker EXCEPT !.at = "append", !.node = n, !.text = rows[n].text]
              /\ UNCHANGED treeVars
        BY <1>5
    <2>2. PICK txt : txt = rows[n].text
        OBVIOUS
    <2>3. worker' = [worker EXCEPT !.at = "append", !.node = n, !.text = txt]
        BY <2>1, <2>2
    <2>4. worker'.at = "append" /\ worker'.job = worker.job /\ worker'.node = n /\ worker'.text = txt
        BY <1>1, <2>3 DEF Working
    <2> QED
        BY <1>2, <1>3, <2>1, <2>2, <2>4 DEF treeVars
<1> QED
    BY <1>2, <1>4, <1>5 DEF Log

\* The worker is done with a file it made.
MadeIt ==
    /\ call[Worker].at = "done" /\ call'[Worker] = Idle
    /\ \A d \in Callers : d # Worker => call'[d] = call[d]
    /\ UNCHANGED <<rows, calls, odd, jobs>>
    /\ worker'.job = worker.job
    /\ \/ worker.at = "making" /\ worker' = OnToNext /\ worker'.at # "idle"
       \/ worker.at = "making log" /\ worker'.at = "finish"

LEMMA MadeShape ==
    ASSUME OkfInv, Made
    PROVE  /\ worker.at \in {"making", "making log"} /\ UNCHANGED <<corpus, slots, crashes>>
           /\ MadeIt \/ (call[Worker] = Idle /\ Throws)
<1>1. worker \in Working /\ TreeInv /\ Worker \in Callers
    BY OkfAssumption DEF OkfInv, WorkerOK
<1>2. worker.at \in {"making", "making log"} /\ UNCHANGED <<corpus, slots, crashes>>
    BY DEF Made
<1>3. CASE call[Worker] = Idle /\ Throws
    BY <1>2, <1>3
<1>4. CASE ~(call[Worker] = Idle /\ Throws)
    <2>1. /\ call[Worker].at = "done" /\ Ends(Worker) /\ UNCHANGED <<rows, calls, odd, jobs>>
          /\ worker' = IF worker.at = "making" THEN OnToNext ELSE [worker EXCEPT !.at = "finish"]
        BY <1>4 DEF Made
    <2>2. call'[Worker] = Idle /\ \A d \in Callers : d # Worker => call'[d] = call[d]
        BY <1>1, <2>1 DEF Ends, TreeInv
    <2>3. CASE worker.at = "making"
        BY <1>2, <2>1, <2>2, <2>3, OnToNextShape DEF MadeIt
    <2>4. CASE worker.at = "making log"
        <3>1. worker' = [worker EXCEPT !.at = "finish"]
            BY <2>1, <2>4
        <3>2. worker'.at = "finish" /\ worker'.job = worker.job
            BY <1>1, <3>1 DEF Working
        <3> QED
            BY <1>2, <2>1, <2>2, <2>4, <3>2 DEF MadeIt
    <2> QED
        BY <1>2, <2>3, <2>4
<1> QED
    BY <1>3, <1>4

\* The worker has saved a text.
SavedIt ==
    /\ rows' = [rows EXCEPT ![worker.node].text = NewText] /\ rows[worker.node].there
    /\ worker.node \in DOMAIN rows
    /\ odd' = (IF rows[worker.node].text # worker.text THEN odd \cup {"clash"} ELSE odd)
    /\ UNCHANGED <<call, calls, jobs>>
    /\ worker'.job = worker.job
    /\ \/ worker.at = "merge" /\ worker' = OnToNext /\ worker'.at # "idle"
       \/ worker.at = "append" /\ worker'.at = "finish"

LEMMA SaveTextShape ==
    ASSUME OkfInv, SaveText
    PROVE  /\ worker.at \in {"merge", "append"} /\ UNCHANGED <<corpus, slots, crashes>>
           /\ SavedIt \/ (~rows[worker.node].there /\ Throws)
<1>1. worker \in Working /\ TreeInv /\ (worker.at \in {"merge", "append"} => worker.node \in DOMAIN rows)
    BY OkfAssumption DEF OkfInv, WorkerOK
<1>2. worker.at \in {"merge", "append"} /\ UNCHANGED <<corpus, slots, crashes>>
    BY DEF SaveText
<1>3. CASE ~rows[worker.node].there
    BY <1>2, <1>3 DEF SaveText
<1>4. CASE rows[worker.node].there
    <2>1. /\ rows' = [rows EXCEPT ![worker.node].text = NewText]
          /\ worker' = IF worker.at = "merge" THEN OnToNext ELSE [worker EXCEPT !.at = "finish"]
          /\ odd' = (IF rows[worker.node].text # worker.text THEN odd \cup {"clash"} ELSE odd)
          /\ UNCHANGED <<call, calls, jobs>>
        BY <1>4 DEF SaveText
    <2>2. CASE worker.at = "merge"
        BY <1>1, <1>2, <1>4, <2>1, <2>2, OnToNextShape DEF SavedIt
    <2>3. CASE worker.at = "append"
        <3>1. worker' = [worker EXCEPT !.at = "finish"]
            BY <2>1, <2>3
        <3>2. worker'.at = "finish" /\ worker'.job = worker.job
            BY <1>1, <3>1 DEF Working
        <3> QED
            BY <1>1, <1>2, <1>4, <2>1, <2>3, <3>2 DEF SavedIt
    <2> QED
        BY <1>2, <2>2, <2>3
<1> QED
    BY <1>3, <1>4

-----------------------------------------------------------------------------
(* The queue at every step.                                                *)

QueueKept == CallNos /\ JobNos /\ SlotsKept /\ OneRuns

\* The worker's call tells nothing.
LEMMA WorkerQueues ==
    ASSUME OkfInv, CallNos, JobNos, UNCHANGED <<jobs, calls>>,
           \A d \in Callers : d # Worker => call'[d] = call[d],
           call'[Worker].tell = {}, call'[Worker].no <= calls
    PROVE  CallNos' /\ JobNos'
<1>1. Worker \in Callers /\ Worker \notin Users /\ Users \subseteq Callers
    BY OkfAssumption DEF Users
<1>2. JobNos'
    BY DEF JobNos
<1>3. \A d \in Callers : call'[d].no <= calls' /\ (call'[d].tell # {} => call'[d].at = "tell")
    BY DEF CallNos
<1>4. \A d, f \in Users :
         d # f /\ call'[d] # Idle /\ call'[f] # Idle => call'[d].no # call'[f].no
    BY <1>1 DEF CallNos
<1>5. \A d \in Callers : \A e \in call'[d].tell :
         e.no = call'[d].no /\ EventOK(e) /\ ~Has(jobs', e)
    BY DEF CallNos
<1>6. \A d \in Users : call'[d] # Idle /\ call'[d].at \notin {"tell", "remove"} =>
         \A i \in DOMAIN jobs' : jobs'[i].ev.no # call'[d].no
    BY <1>1 DEF CallNos
<1> QED
    BY <1>2, <1>3, <1>4, <1>5, <1>6 DEF CallNos

LEMMA CallerQueues ==
    ASSUME OkfInv, Facts, QueueKept, NEW c \in Callers,
           \/ Step(c) \/ StoreStep(c) \/ WriteStep(c) \/ DeleteStep(c)
           \/ \E e \in call[c].tell : Send(c, e)
    PROVE  QueueKept'
<1>1. TreeInv /\ CallNos /\ JobNos /\ SlotsKept /\ OneRuns /\ Idle.at = "idle" /\ Idle.tell = {}
      /\ Idle.no = 0
    BY DEF OkfInv, QueueKept, Idle
<1>2. CASE \E e \in call[c].tell : Send(c, e)
    BY <1>1, <1>2, SendQueues DEF QueueKept
<1>3. CASE OkfStays
    <2>1. UNCHANGED <<corpus, jobs, slots, worker, crashes>>
        BY <1>3 DEF OkfStays
    <2>2. SUFFICES CallNos' /\ JobNos'
        BY <1>1, <2>1, QueueStays DEF QueueKept
    <2>3. CASE TreeStep(c)
        <3>1. TreeMove(c)
            BY <1>1, <2>3, TreeMoves
        <3>2. call'[c] # Idle =>
             /\ call'[c].no = call[c].no /\ call[c] # Idle
             /\ call'[c].at \notin {"tell", "remove"} => call[c].at \notin {"tell", "remove"}
             /\ call'[c].tell = {}
            BY <1>1, <3>1 DEF TreeMove, SameCall, CallNos, Creating, Moving
        <3> QED
            BY <1>1, <2>1, <3>1, <3>2, NosStay DEF TreeMove
    <2>4. CASE Store(c)
        BY <1>1, <2>1, <2>4, StoreSpeaks, SpeakingQueues DEF Store
    <2>5. CASE Write(c)
        BY <1>1, <2>1, <2>5, WriteSpeaks, SpeakingQueues DEF Write
    <2>6. CASE DeleteMany(c)
        <3>1. call'[c] = Idle /\ calls' = calls /\ \A d \in Callers : d # c => call'[d] = call[d]
            BY <1>1, <2>6 DEF DeleteMany, Ends, TreeInv
        <3> QED
            BY <1>1, <2>1, <3>1, NosStay
    <2> QED
        BY <1>2, <2>3, <2>4, <2>5, <2>6 DEF Step, StoreStep, WriteStep, DeleteStep, QueueKept
<1> QED
    BY <1>2, <1>3 DEF Step, StoreStep, WriteStep, DeleteStep

LEMMA WorkQueues ==
    ASSUME OkfInv, OkfInv', QueueKept, Index \/ Log \/ Made \/ SaveText \/ Finish
    PROVE  QueueKept'
<1>1. /\ TreeInv /\ CallNos /\ JobNos /\ SlotsKept /\ OneRuns /\ Idle.tell = {} /\ Idle.no = 0
      /\ calls \in Nat /\ Worker \in Callers
    BY OkfAssumption DEF OkfInv, QueueKept, Idle, TreeInv
<1>2. CASE UNCHANGED <<jobs, slots, call, calls>> /\ worker'.job = worker.job
             /\ worker.at # "idle" /\ worker'.at # "idle"
    <2>1. CallNos' /\ JobNos'
        BY <1>1, <1>2 DEF CallNos, JobNos
    <2> QED
        BY <1>1, <1>2, <2>1, RunGoesOn DEF QueueKept
<1>3. CASE Throws /\ worker.at # "idle" /\ UNCHANGED slots
    BY <1>1, <1>3, RunEnds DEF Throws, QueueKept
<1>4. ASSUME NEW p, NEW m, NEW l, MakingFile(p, m, l), UNCHANGED <<jobs, slots>>,
             worker'.job = worker.job, worker.at # "idle", worker'.at # "idle"
      PROVE  QueueKept'
    <2>1. CallNos' /\ JobNos'
        BY <1>1, <1>4, WorkerQueues DEF MakingFile
    <2> QED
        BY <1>1, <1>4, <2>1, RunGoesOn DEF QueueKept
<1>5. CASE Index
    <2>1. /\ IndexPasses \/ IndexMakes \/ IndexReads
          /\ worker.at = "index" /\ UNCHANGED <<corpus, jobs, slots, crashes>>
          /\ worker'.job = worker.job
        BY <1>5, IndexShape
    <2>2. CASE IndexPasses
        <3>1. worker'.at # "idle" /\ worker' = OnToNext
            BY <1>1, <2>2, OnToNextShape DEF IndexPasses
        <3> QED
            BY <1>2, <2>1, <2>2, <3>1 DEF IndexPasses
    <2>3. CASE IndexMakes
        <3>1. MakingFile(Head(worker.dirs), "index.md", Listing(Head(worker.dirs)))
              /\ worker'.at # "idle" /\ worker.at # "idle"
            BY <2>1, <2>3 DEF IndexMakes
        <3> QED
            BY <1>4, <2>1, <3>1
    <2>4. CASE IndexReads
        BY <1>2, <2>1, <2>4 DEF IndexReads
    <2> QED
        BY <2>1, <2>2, <2>3, <2>4
<1>6. CASE Log
    <2>1. /\ worker.at = "log" /\ UNCHANGED <<corpus, jobs, slots, crashes>>
          /\ worker'.job = worker.job
          /\ \/ MakingFile(TheEvent.path, "log.md", {}) /\ worker'.at = "making log"
             \/ worker'.at = "append" /\ UNCHANGED <<rows, call, calls, odd>>
        BY <1>6, LogShape
    <2> QED
        BY <1>2, <1>4, <2>1
<1>7. CASE Made
    <2>1. /\ worker.at \in {"making", "making log"} /\ UNCHANGED <<corpus, slots, crashes>>
          /\ MadeIt \/ (call[Worker] = Idle /\ Throws)
        BY <1>7, MadeShape
    <2>2. CASE MadeIt
        <3>1. worker'.at # "idle" /\ worker.at # "idle" /\ worker'.job = worker.job
            BY <2>1, <2>2 DEF MadeIt
        <3>2. /\ UNCHANGED <<jobs, calls>> /\ \A d \in Callers : d # Worker => call'[d] = call[d]
              /\ call'[Worker] = Idle
            BY <2>2 DEF MadeIt
        <3>3. call'[Worker].tell = {} /\ call'[Worker].no <= calls
            BY <1>1, <3>2
        <3>4. CallNos' /\ JobNos'
            BY <1>1, <3>2, <3>3, WorkerQueues
        <3> QED
            BY <1>1, <2>1, <3>1, <3>2, <3>4, RunGoesOn DEF QueueKept
    <2> QED
        BY <1>3, <2>1, <2>2
<1>8. CASE SaveText
    <2>1. /\ worker.at \in {"merge", "append"} /\ UNCHANGED <<corpus, slots, crashes>>
          /\ SavedIt \/ (~rows[worker.node].there /\ Throws)
        BY <1>8, SaveTextShape
    <2> QED
        BY <1>2, <1>3, <2>1 DEF SavedIt
<1>9. CASE Finish
    BY <1>1, <1>9, RunEnds DEF Finish, QueueKept
<1> QED
    BY <1>5, <1>6, <1>7, <1>8, <1>9

LEMMA NeverExpires ==
    ASSUME OkfInv, OneRuns, Expire
    PROVE  FALSE
<1>1. PICK i \in DOMAIN jobs : jobs[i].active /\ worker.job = {}
    BY DEF Expire
<1>2. worker.at # "idle"
    BY <1>1 DEF OneRuns, Running
<1> QED
    BY <1>1, <1>2 DEF OkfInv, WorkerOK

LEMMA NextQueues ==
    ASSUME OkfInv, OkfInv', Facts, QueueKept, Next, Sane'
    PROVE  QueueKept'
<1>1. TreeInv /\ CallNos /\ JobNos /\ SlotsKept /\ OneRuns
    BY DEF OkfInv, QueueKept
<1>2. CASE \E c \in Users : Call(c)
    <2>1. PICK c \in Users : Call(c)
        BY <1>2
    <2>2. Started(c) /\ UNCHANGED <<corpus, jobs, slots, worker, crashes>>
        BY <1>1, <2>1, CallStarts
    <2> QED
        BY <1>1, <2>2, StartQueues, QueueStays DEF QueueKept
<1>3. CASE \E c \in Callers : \/ Step(c) \/ StoreStep(c) \/ WriteStep(c) \/ DeleteStep(c)
                              \/ \E e \in call[c].tell : Send(c, e)
    BY <1>3, CallerQueues
<1>4. CASE Index \/ Log \/ Made \/ SaveText \/ Finish
    BY <1>4, WorkQueues
<1>5. CASE Take
    BY <1>1, <1>5, TakeQueues DEF QueueKept
<1>6. CASE Tick
    BY <1>1, <1>6, TickQueues DEF QueueKept
<1>7. CASE Expire
    BY <1>1, <1>7, NeverExpires
<1>8. CASE Crash
    BY <1>8 DEF Crash, Sane
<1> QED
    BY <1>2, <1>3, <1>4, <1>5, <1>6, <1>7, <1>8 DEF Next

-----------------------------------------------------------------------------
(* States in which every concept is accounted for.                         *)

Excuses == {"dropped", "given up", "died", "clash", "uprooted", "index", "tangled"}

\* A folder is on its way while there are jobs: it will be "uprooted", or the
\* call will end before.
Uprooting == jobs # <<>> /\ \E c \in Callers : Shifting(call[c])

Settled == corpus.okf /\ InOrder(corpus) /\ odd \cap Excuses = {} /\ ~Uprooting

Sound == OkfInv /\ Facts /\ QueueKept

LEMMA SettledIsSane == ASSUME Settled PROVE Sane
BY DEF Settled, Sane, Excuses

\* A worker that works has a job of the queue.
LEMMA WorkHasJobs ==
    ASSUME OkfInv, QueueKept, worker.at # "idle"
    PROVE  jobs # <<>>
BY PlaceMeaning DEF QueueKept

LEMMA TheWorker == Worker \in Callers /\ Internal = {Worker}
BY OkfAssumption

\* A folder on its way is all there is.
LEMMA ShiftingIsAlone ==
    ASSUME Sound, NEW c \in Callers, Shifting(call[c])
    PROVE  /\ Busy = {c} /\ call[c].at = "shift" /\ call[c].folder
           /\ \A d \in Callers : d # c => call[d] = Idle
           /\ Settled => jobs = <<>> /\ worker.at = "idle"
<1>1. TreeInv /\ Facts /\ call[c].at = "shift" /\ OnFolder(call[c]) /\ call[c].folder
    BY DEF Sound, OkfInv, Shifting, OnFolder
<1>2. Busy = {c}
    BY <1>1, Acting
<1>3. \A d \in Callers : d # c => call[d] = Idle
    BY <1>2 DEF Busy
<1>4. Settled => jobs = <<>>
    BY DEF Settled, Uprooting
<1> QED
    BY <1>1, <1>2, <1>3, <1>4, WorkHasJobs DEF Sound

LEMMA Planted ==
    ASSUME Sound, Settled,
           jobs # <<>> \/ \E c \in Callers : call[c] # Idle /\ ~Shifting(call[c])
    PROVE  IsTree(rows) /\ \A c \in Callers : ~Shifting(call[c])
<1>1. \A c \in Callers : ~Shifting(call[c])
    <2> SUFFICES ASSUME NEW c \in Callers, Shifting(call[c]) PROVE FALSE
        OBVIOUS
    <2>1. /\ \A d \in Callers : d # c => call[d] = Idle
          /\ jobs = <<>>
        BY ShiftingIsAlone
    <2> QED
        BY <2>1
<1> QED
    BY <1>1 DEF Sound, Facts

\* Nodes have one parent's id where they have one parent's path.
LEMMA SameFolder ==
    ASSUME NEW rs, RowsOK(rs), IsTree(rs), NEW n \in DOMAIN rs, NEW k \in DOMAIN rs,
           rs[n].there, rs[k].there
    PROVE  rs[n].parent = rs[k].parent <=> rs[n].path = rs[k].path
<1>1. /\ Placed(rs, n) /\ Placed(rs, k)
      /\ ParentAt(rs, rs[n].parent, rs[n].path) /\ ParentAt(rs, rs[k].parent, rs[k].path)
    BY TreeMeaning DEF Placed
<1>2. ASSUME rs[n].parent = rs[k].parent PROVE rs[n].path = rs[k].path
    BY <1>1, <1>2 DEF ParentAt, FolderAt
<1>3. ASSUME rs[n].path = rs[k].path PROVE rs[n].parent = rs[k].parent
    <2>1. \A i \in DOMAIN rs : Append(rs[i].path, rs[i].name) # <<>>
        BY RowMeaning, AppendMeaning
    <2>2. CASE rs[n].path = <<>>
        BY <1>1, <1>3, <2>1, <2>2 DEF ParentAt, FolderAt
    <2>3. CASE rs[n].path # <<>>
        <3> DEFINE i == rs[n].parent
                   j == rs[k].parent
        <3>1. FolderAt(rs, i, rs[n].path) /\ FolderAt(rs, j, rs[n].path)
            BY <1>1, <1>3, <2>3 DEF ParentAt
        <3>2. /\ i \in DOMAIN rs /\ j \in DOMAIN rs /\ rs[i].there /\ rs[j].there
              /\ Append(rs[i].path, rs[i].name) = Append(rs[j].path, rs[j].name)
            BY <3>1 DEF FolderAt
        <3>3. /\ rs[i].path \in Paths /\ rs[i].name \in Names
              /\ rs[j].path \in Paths /\ rs[j].name \in Names
            BY <3>2, RowMeaning
        <3>5. rs[i].path = rs[j].path /\ rs[i].name = rs[j].name
            <4> HIDE DEF i, j
            <4> QED
                BY <3>2, <3>3, AppendsDiffer
        <3>4. Placed(rs, j)
            BY <3>2, TreeMeaning
        <3> QED
            BY <3>2, <3>5, <3>4 DEF Placed, AtPlace
    <2> QED
        BY <2>2, <2>3
<1> QED
    BY <1>2, <1>3

-----------------------------------------------------------------------------
(* Excuses are not forgotten, and there is one for every folder that was   *)
(* moved while jobs waited.                                                *)

LEMMA NextKeepsCorpus ==
    ASSUME Next
    PROVE  corpus' = corpus
BY DEF Next, Call, Step, StoreStep, WriteStep, DeleteStep, OkfStays, Send, Take, Rests, Index, Log,
   Made, SaveText, Finish, Tick, Expire, Crash

\* A job that is thrown back into the queue stays there, or is given up.
LEMMA ThrowsShape ==
    ASSUME OkfInv, QueueKept, worker.at # "idle", Throws, odd' \cap Excuses = {}
    PROVE  /\ DOMAIN jobs' = DOMAIN jobs /\ jobs # <<>> /\ jobs' # <<>>
           /\ \A i \in DOMAIN jobs : jobs'[i].ev = jobs[i].ev
           /\ worker' = Resting /\ UNCHANGED <<rows, call, calls, odd>>
<1> DEFINE k == Place(TheJob)
<1>1. /\ k \in DOMAIN jobs /\ jobs[k].ev = TheEvent /\ TheJob \in Job /\ jobs # <<>>
      /\ TheJob.ev = TheEvent
    BY PlaceMeaning DEF QueueKept
<1>2. TheJob.left # 0
    BY DEF Throws, Excuses
<1>3. jobs' = [jobs EXCEPT ![k] = [TheJob EXCEPT !.active = FALSE, !.left = @ - 1]]
    BY <1>2 DEF Throws, Retried
<1>4. PICK j : j = [TheJob EXCEPT !.active = FALSE, !.left = @ - 1]
    OBVIOUS
<1>5. j.ev = TheEvent
    BY <1>1, <1>4 DEF Job
<1>6. jobs' = [jobs EXCEPT ![k] = j]
    BY <1>3, <1>4
<1>7. jobs \in Seq(Job) /\ DOMAIN jobs = 1 .. Len(jobs)
    BY JobsMeaning
<1>8. DOMAIN jobs' = DOMAIN jobs /\ \A i \in DOMAIN jobs : jobs'[i].ev = jobs[i].ev
    BY <1>1, <1>5, <1>6, <1>7
<1>9. jobs' # <<>>
    BY <1>1, <1>8
<1> QED
    BY <1>1, <1>2, <1>8, <1>9 DEF Throws

\* A settled state comes of settled ones.
LEMMA SettledBefore ==
    ASSUME Sound, Next, Settled'
    PROVE  Settled /\ odd' \cap Excuses = {} /\ Sane
<1>1. /\ corpus' = corpus /\ odd \subseteq odd' /\ odd' \cap Excuses = {}
      /\ OkfInv /\ TreeInv /\ Facts /\ QueueKept /\ OneRuns
    BY NextKeepsCorpus, OddGrows DEF Settled, Sound, OkfInv, QueueKept
<1>2. corpus.okf /\ InOrder(corpus) /\ odd \cap Excuses = {}
    <2>1. corpus'.okf /\ InOrder(corpus')
        BY DEF Settled
    <2> QED
        BY <1>1, <2>1
<1>3. ASSUME Uprooting PROVE FALSE
    <2>1. PICK c \in Callers : Shifting(call[c])
        BY <1>3 DEF Uprooting
    <2>2. /\ jobs # <<>> /\ Busy = {c} /\ call[c].at = "shift" /\ call[c].folder
          /\ \A d \in Callers : d # c => call[d] = Idle
          /\ Idle.at = "idle" /\ Idle.tell = {}
        BY <1>3, <2>1, ShiftingIsAlone DEF Uprooting, Idle
    <2>3. ASSUME jobs' # <<>>, \E d \in Callers : Shifting(call'[d]) PROVE FALSE
        BY <2>3 DEF Settled, Uprooting
    <2>4. ASSUME jobs' # <<>>, call'[c] = call[c] PROVE FALSE
        BY <2>1, <2>3, <2>4 DEF Shifting
    <2>5. ASSUME NEW d \in Users, Call(d) PROVE FALSE
        <3>1. Started(d) /\ jobs' = jobs
            BY <1>1, <2>5, CallStarts
        <3>2. d # c /\ d \in Callers
            BY <2>2, <3>1 DEF Started, Users, Idle
        <3> QED
            BY <2>2, <2>4, <3>1, <3>2 DEF Started
    <2>6. ASSUME NEW d \in Callers,
                 \/ Step(d) \/ StoreStep(d) \/ WriteStep(d) \/ DeleteStep(d)
                 \/ \E e \in call[d].tell : Send(d, e)
          PROVE  FALSE
        <3>1. CASE Step(d)
            <4>1. TreeMove(d) /\ TreeStep(d) /\ jobs' = jobs
                BY <1>1, <3>1, TreeMoves DEF Step, OkfStays
            <4>2. d = c
                BY <2>2, <4>1 DEF TreeMove, Creating, Moving
            <4>3. Shift(c)
                BY <2>2, <4>1, <4>2 DEF TreeStep, Chain, Exists, Parent, Insert, Target, Free,
                   List, NothingToTell
            <4>4. Shifting(call'[c])
                BY <1>1, <4>3, ShiftMoves
            <4> QED
                BY <2>2, <2>3, <4>1, <4>4
        <3>2. CASE StoreStep(d)
            BY <2>2, <3>2 DEF StoreStep, Store
        <3>3. CASE WriteStep(d)
            <4>1. call[d].at = "shift" /\ jobs' = jobs
                BY <3>3 DEF WriteStep, Write, OkfStays
            <4>2. d = c
                BY <2>2, <4>1
            <4>3. "uprooted" \in odd'
                BY <2>2, <3>3, <4>2 DEF WriteStep, Odd
            <4> QED
                BY <1>1, <4>3 DEF Excuses
        <3>4. CASE DeleteStep(d)
            BY <2>2, <3>4 DEF DeleteStep, DeleteMany
        <3>5. CASE \E e \in call[d].tell : Send(d, e)
            BY <2>2, <3>5 DEF Send, Tell
        <3> QED
            BY <2>6, <3>1, <3>2, <3>3, <3>4, <3>5
    <2>7. CASE Take
        <3>1. DOMAIN jobs' = DOMAIN jobs /\ call' = call
            BY <1>1, <2>7, Taking DEF Take, Rests, treeVars
        <3>2. jobs' # <<>>
            BY <1>1, <2>2, <3>1, JobsMeaning
        <3> QED
            BY <2>4, <3>1, <3>2
    <2>8. CASE Index \/ Log
        <3>1. /\ jobs' = jobs
              /\ call' = call \/ (call[Worker] = Idle /\ \A d \in Callers : d # Worker => call'[d] = call[d])
            BY <1>1, <2>8, IndexShape, LogShape DEF IndexPasses, IndexMakes, IndexReads, MakingFile
        <3> QED
            BY <2>2, <2>4, <3>1
    <2>9. ASSUME worker.at # "idle", Throws PROVE FALSE
        BY <1>1, <2>4, <2>9, ThrowsShape
    <2>10. CASE Made
        <3>1. worker.at # "idle" /\ (MadeIt \/ Throws)
            BY <1>1, <2>10, MadeShape
        <3>2. CASE MadeIt
            <4>1. jobs' = jobs /\ c # Worker /\ call'[c] = call[c]
                BY <2>2, <3>2 DEF MadeIt
            <4> QED
                BY <2>2, <2>4, <4>1
        <3> QED
            BY <2>9, <3>1, <3>2
    <2>11. CASE SaveText
        <3>1. worker.at # "idle" /\ (SavedIt \/ Throws)
            BY <1>1, <2>11, SaveTextShape
        <3> QED
            BY <2>2, <2>4, <2>9, <3>1 DEF SavedIt
    <2>12. CASE Finish
        <3>1. "uprooted" \in odd'
            BY <2>2, <2>12 DEF Finish
        <3> QED
            BY <1>1, <3>1 DEF Excuses
    <2>13. CASE Tick
        <3>1. DOMAIN jobs' = DOMAIN jobs /\ call' = call
            BY <2>13 DEF Tick, treeVars
        <3>2. jobs' # <<>>
            BY <1>1, <2>2, <3>1, JobsMeaning
        <3> QED
            BY <2>4, <3>1, <3>2
    <2>14. ~Expire
        BY <1>1, NeverExpires
    <2>15. ~Crash
        BY <1>1 DEF Crash, Excuses
    <2> QED
        BY <2>5, <2>6, <2>7, <2>8, <2>10, <2>11, <2>12, <2>13, <2>14, <2>15 DEF Next
<1> QED
    BY <1>1, <1>2, <1>3, SettledIsSane DEF Settled

-----------------------------------------------------------------------------
(* What the steps between settled states do.                               *)

QueueStill == UNCHANGED <<jobs, worker>>

\* A call's row gets its text: what maintenance wrote there is still there.
Storing(c) ==
    /\ QueueStill /\ Spoke(c) /\ call[c].at = "store" /\ call[c].id \in DOMAIN rows
    /\ LET i == call[c].id
       IN  \/ rows' = rows /\ call'[c] = Idle /\ ~rows[i].there
           \/ /\ rows[i].there /\ SameShape(rows, rows') /\ rows'[i].stored
              /\ \A n \in DOMAIN rows : n # i => rows'[n] = rows[n]
              /\ rows'[i].text = call[c].text /\ rows[i].text.listed \subseteq rows'[i].text.listed
              /\ call[c].kind = "save" => rows'[i].text.listed = rows[i].text.listed
              /\ \A e \in call'[c].tell :
                   /\ Single(e)
                   /\ IF call[c].kind = "save" THEN Of(e, rows[i].path, rows[i].name)
                      ELSE Of(e, call[c].path, call[c].name)
              /\ c # Worker /\ call[c].kind # "save" =>
                   \E e \in call'[c].tell : /\ e.kind = "create" /\ e.key = call[c].path
                                            /\ e.path = call[c].path /\ e.name = call[c].name

\* A call's row gets its new name or place: it is a folder's or a concept's.
Writing(c) ==
    /\ QueueStill /\ Spoke(c) /\ call[c].at = "shift" /\ call[c].id \in DOMAIN rows
    /\ call[c].kind \in {"rename", "move"}
    /\ LET i == call[c].id
       IN  \/ rows' = rows /\ call'[c] = Idle
           \/ /\ DOMAIN rows' = DOMAIN rows /\ rows[i].there /\ rows'[i].there
              /\ \A n \in DOMAIN rows : n # i => rows'[n] = rows[n]
              /\ rows[i].folder = call[c].folder /\ rows'[i].folder = rows[i].folder
              /\ rows'[i].stored = rows[i].stored
              /\ ~call[c].folder => rows[i].name \in Concepts /\ "renamed" \in odd'
              /\ \A e \in call'[c].tell : e.name = rows'[i].name
              /\ ~call[c].folder /\ c # Worker /\ rows'[i].name \in Concepts =>
                   \E e \in call'[c].tell : /\ e.kind = "move" /\ e.key = rows'[i].path
                                            /\ e.path = rows'[i].path /\ e.name = rows'[i].name

\* Rows are deleted: a folder with what is below it, or a concept.
Deleting(c) ==
    /\ QueueStill /\ call[c].at = "remove" /\ call[c].kind = "delete" /\ call'[c] = Idle
    /\ \A d \in Callers : d # c => call'[d] = call[d]
    /\ DOMAIN rows' = DOMAIN rows
    /\ \A n \in DOMAIN rows : IF n \in call[c].todo THEN ~rows'[n].there ELSE rows'[n] = rows[n]
    /\ ~call[c].folder => rows[call[c].id].name \in Concepts
    /\ call[c].folder /\ (worker.at = "index" \/ Len(worker.dirs) > 1) => "razed" \in odd'

LEMMA StoringStep ==
    ASSUME Sound, Sound', NEW c \in Callers, StoreStep(c), odd' \cap Excuses = {}
    PROVE  Storing(c)
<1> DEFINE i == call[c].id
<1>1. /\ TreeInv /\ Store(c) /\ call[c].at = "store" /\ QueueStill /\ TreeInv' /\ RowsOK(rows)
      /\ RowsOK(rows')
    BY DEF Sound, OkfInv, TreeInv, StoreStep, Store, OkfStays, QueueStill
<1>2. Spoke(c) /\ i \in DOMAIN rows /\ c \in Busy
    BY <1>1, StoreSpeaks, Acting, CallTypes DEF Fits, Sound
<1>3. CASE ~rows[i].there
    BY <1>1, <1>2, <1>3 DEF Store, Ends, TreeInv, Storing
<1>4. CASE rows[i].there
    <2>1. PICK x : x = [rows[i] EXCEPT !.stored = TRUE, !.text = call[c].text]
        OBVIOUS
    <2>2. rows' = [rows EXCEPT ![i] = x]
        BY <1>1, <1>4, <2>1 DEF Store
    <2>3. rows[i] \in Row
        BY <1>1, <1>2, RowMeaning
    <2>4. x.there = rows[i].there /\ x.parent = rows[i].parent /\ x.path = rows[i].path
          /\ x.name = rows[i].name /\ x.folder = rows[i].folder /\ x.stored
          /\ x.text = call[c].text
        BY <2>1, <2>3 DEF Row
    <2>5. /\ DOMAIN rows' = DOMAIN rows /\ rows'[i] = x
          /\ \A n \in DOMAIN rows : n # i => rows'[n] = rows[n]
        BY <1>1, <1>2, <2>2 DEF RowsOK
    <2>6. SameShape(rows, rows')
        BY <2>4, <2>5 DEF SameShape, SameRow
    <2>7. /\ rows[i].text.listed \subseteq rows'[i].text.listed
          /\ call[c].kind = "save" => rows'[i].text.listed = rows[i].text.listed
        <3>1. "clash" \notin odd'
            BY DEF Excuses
        <3>2. IF call[c].kind = "save" THEN ~Outdated(call[c].text, rows[i].text)
              ELSE rows[i].text = NoText
            BY <3>1 DEF StoreStep, Odd
        <3> QED
            BY <2>4, <2>5, <3>2 DEF Outdated, NoText
    <2>8. ASSUME c # Worker, call[c].kind # "save"
          PROVE  \E e \in call'[c].tell : /\ e.kind = "create" /\ e.key = call[c].path
                                          /\ e.path = call[c].path /\ e.name = call[c].name
        <3> DEFINE evs == Tells(c, "create", call[c].path, call[c].name, call[c].path)
        <3>1. Told(c, evs)
            BY <1>1, <1>4, <2>8 DEF Store
        <3>2. c \notin Internal
            BY <2>8, TheWorker
        <3>3. PICK e \in evs : e.key = call[c].path
            BY <3>2, TellsShape
        <3>4. e.kind = "create" /\ e.path = call[c].path /\ e.name = call[c].name
            BY TellsShape
        <3>5. call'[c].tell = evs
            BY <1>1, <3>1, <3>2, <3>3, ToldShape
        <3> QED
            BY <3>3, <3>4, <3>5
    <2>9. ASSUME NEW e \in call'[c].tell
          PROVE  /\ Single(e)
                 /\ IF call[c].kind = "save" THEN Of(e, rows[i].path, rows[i].name)
                    ELSE Of(e, call[c].path, call[c].name)
        <3> DEFINE saved == Tells(c, "update", rows[i].path, rows[i].name, rows[i].path)
                   made == Tells(c, "create", call[c].path, call[c].name, call[c].path)
        <3>1. call[c].tell = {} /\ Idle.tell = {}
            BY <1>1 DEF Sound, QueueKept, CallNos, Idle
        <3>2. CASE call[c].kind = "save"
            <4>1. Told(c, IF rows[i].name \notin Concepts THEN {} ELSE saved)
                BY <1>1, <1>4, <3>2 DEF Store
            <4>2. e \in saved
                BY <1>1, <2>9, <3>1, <4>1, ToldShape
            <4> QED
                BY <3>2, <4>2, TellsShape DEF Single, Of
        <3>3. CASE call[c].kind # "save"
            <4>1. Told(c, made)
                BY <1>1, <1>4, <3>3 DEF Store
            <4>2. e \in made
                BY <1>1, <2>9, <3>1, <4>1, ToldShape
            <4> QED
                BY <3>3, <4>2, TellsShape DEF Single, Of
        <3> QED
            BY <3>2, <3>3
    <2> QED
        BY <1>1, <1>2, <1>4, <2>4, <2>5, <2>6, <2>7, <2>8, <2>9 DEF Storing
<1> QED
    BY <1>3, <1>4

LEMMA WritingStep ==
    ASSUME Sound, Sound', NEW c \in Callers, WriteStep(c), odd' \cap Excuses = {}
    PROVE  Writing(c)
<1> DEFINE i == call[c].id
           name == IF call[c].kind = "rename" THEN call[c].name ELSE rows[i].name
           parent == IF call[c].kind = "move" THEN call[c].parent ELSE rows[i].parent
<1>1. /\ TreeInv /\ Write(c) /\ call[c].at = "shift" /\ QueueStill /\ TreeInv' /\ RowsOK(rows)
    BY DEF Sound, OkfInv, TreeInv, WriteStep, Write, OkfStays, QueueStill
<1>2. /\ Spoke(c) /\ i \in DOMAIN rows /\ call[c].kind \in {"rename", "move"}
      /\ rows[i].there => rows[i].folder = call[c].folder
    BY <1>1, WriteSpeaks, CallTypes DEF Fits, Moving
<1>3. CASE Ends(c) /\ rows' = rows
    BY <1>1, <1>2, <1>3 DEF Ends, TreeInv, Writing
<1>4. CASE ~(Ends(c) /\ rows' = rows)
    <2>1. PICK x : x = [rows[i] EXCEPT !.path = call[c].path, !.name = name, !.parent = parent]
        OBVIOUS
    <2>2. /\ rows' = [rows EXCEPT ![i] = x] /\ rows[i].there
          /\ Told(c, IF name \notin Concepts THEN {}
                     ELSE Tells(c, "move", call[c].path, name, Front(call[c].from)))
        BY <1>1, <1>4, <2>1 DEF Write
    <2>3. rows[i] \in Row
        BY <1>1, <1>2, RowMeaning
    <2>4. x.there = rows[i].there /\ x.path = call[c].path /\ x.name = name
          /\ x.folder = rows[i].folder /\ x.stored = rows[i].stored
        BY <2>1, <2>3 DEF Row
    <2>5. /\ DOMAIN rows' = DOMAIN rows /\ rows'[i] = x
          /\ \A n \in DOMAIN rows : n # i => rows'[n] = rows[n]
        BY <1>1, <1>2, <2>2 DEF RowsOK
    <2>6. ~call[c].folder => rows[i].name \in Concepts /\ "renamed" \in odd'
        <3>1. "index" \notin odd'
            BY DEF Excuses
        <3> QED
            BY <3>1 DEF WriteStep, Odd
    <2>7. ASSUME c # Worker, name \in Concepts
          PROVE  \E e \in call'[c].tell : /\ e.kind = "move" /\ e.key = call[c].path
                                          /\ e.path = call[c].path /\ e.name = name
        <3> DEFINE evs == Tells(c, "move", call[c].path, name, Front(call[c].from))
        <3>1. Told(c, evs)
            BY <2>2, <2>7
        <3>2. c \notin Internal
            BY <2>7, TheWorker
        <3>3. PICK e \in evs : e.key = call[c].path
            BY <3>2, TellsShape
        <3>4. e.kind = "move" /\ e.path = call[c].path /\ e.name = name
            BY TellsShape
        <3>5. call'[c].tell = evs
            BY <1>1, <3>1, <3>2, <3>3, ToldShape
        <3> QED
            BY <3>3, <3>4, <3>5
    <2>8. /\ rows'[i].there /\ rows'[i].path = call[c].path /\ rows'[i].name = name
          /\ rows'[i].folder = rows[i].folder /\ rows'[i].stored = rows[i].stored
        BY <2>2, <2>4, <2>5
    <2>9. ~call[c].folder /\ c # Worker /\ rows'[i].name \in Concepts =>
            \E e \in call'[c].tell : /\ e.kind = "move" /\ e.key = rows'[i].path
                                     /\ e.path = rows'[i].path /\ e.name = rows'[i].name
        <3> HIDE DEF name
        <3> QED
            BY <2>7, <2>8
    <2>10. ASSUME NEW e \in call'[c].tell PROVE e.name = name
        <3> DEFINE evs == Tells(c, "move", call[c].path, name, Front(call[c].from))
        <3>1. call[c].tell = {} /\ Idle.tell = {}
            BY <1>1 DEF Sound, QueueKept, CallNos, Idle
        <3>2. e \in evs
            <4> HIDE DEF name
            <4> QED
                BY <1>1, <2>2, <2>10, <3>1, ToldShape
        <3> QED
            BY <3>2, TellsShape
    <2> QED
        BY <1>1, <1>2, <2>2, <2>5, <2>6, <2>8, <2>9, <2>10 DEF Writing
<1> QED
    BY <1>3, <1>4

LEMMA DeletingStep ==
    ASSUME Sound, NEW c \in Callers, DeleteStep(c), odd' \cap Excuses = {}
    PROVE  Deleting(c)
<1>1. /\ TreeInv /\ call[c].at = "remove" /\ QueueStill /\ RowsOK(rows)
      /\ rows' = [n \in DOMAIN rows |-> IF n \in call[c].todo THEN Gone ELSE rows[n]]
      /\ call' = [call EXCEPT ![c] = Idle]
    BY DEF Sound, OkfInv, TreeInv, DeleteStep, DeleteMany, OkfStays, QueueStill, Ends
<1>2. call[c].kind = "delete"
    BY <1>1, Acting DEF Sound, CallFacts, StageFacts
<1>3. call'[c] = Idle /\ \A d \in Callers : d # c => call'[d] = call[d]
    BY <1>1 DEF TreeInv
<1>4. ~call[c].folder => rows[call[c].id].name \in Concepts
    <2>1. "index" \notin odd'
        BY DEF Excuses
    <2> QED
        BY <2>1 DEF DeleteStep, Odd
<1>5. call[c].folder /\ (worker.at = "index" \/ Len(worker.dirs) > 1) => "razed" \in odd'
    BY DEF DeleteStep, Odd
<1> QED
    BY <1>1, <1>2, <1>3, <1>4, <1>5 DEF Deleting, Gone

Sending(c) ==
    \E e \in call[c].tell : /\ Said(c, e) /\ Joined(e) /\ worker' = worker
                            /\ call'[c] = Idle => call[c].tell \ {e} = {}

\* A run goes on with its job.
RunsOn ==
    /\ UNCHANGED <<jobs, corpus>> /\ worker'.job = worker.job
    /\ worker.at # "idle" /\ worker'.at # "idle"

Shapes ==
    \/ \E c \in Users : Started(c) /\ QueueStill
    \/ \E c \in Callers : TreeMove(c) /\ QueueStill
    \/ \E c \in Callers : Storing(c) \/ Writing(c) \/ Deleting(c) \/ Sending(c)
    \/ Take
    \/ Index /\ RunsOn
    \/ Log /\ RunsOn
    \/ MadeIt /\ RunsOn /\ worker.at \in {"making", "making log"}
    \/ SavedIt /\ RunsOn /\ worker.at \in {"merge", "append"}
    \/ /\ Throws /\ worker.at \in {"making", "making log", "merge", "append"}
       /\ worker.at \in {"making", "making log"} => call[Worker] = Idle
    \/ Finish
    \/ Tick

LEMMA NextShapes ==
    ASSUME Sound, Sound', Next, Settled'
    PROVE  Shapes
<1>1. /\ Settled /\ odd' \cap Excuses = {} /\ OkfInv /\ TreeInv /\ Facts /\ QueueKept /\ OneRuns
      /\ corpus.okf
    BY SettledBefore DEF Sound, OkfInv, QueueKept, Settled
<1>2. ASSUME NEW c \in Users, Call(c) PROVE Shapes
    BY <1>1, <1>2, CallStarts DEF Shapes, QueueStill
<1>3. ASSUME NEW c \in Callers,
             \/ Step(c) \/ StoreStep(c) \/ WriteStep(c) \/ DeleteStep(c)
             \/ \E e \in call[c].tell : Send(c, e)
      PROVE  Shapes
    <2>1. CASE Step(c)
        <3>1. TreeMove(c) /\ QueueStill
            BY <1>1, <2>1, TreeMoves DEF Step, OkfStays, QueueStill
        <3> QED
            BY <3>1 DEF Shapes
    <2>2. CASE StoreStep(c)
        BY <1>1, <2>2, StoringStep DEF Shapes
    <2>3. CASE WriteStep(c)
        BY <1>1, <2>3, WritingStep DEF Shapes
    <2>4. CASE DeleteStep(c)
        BY <1>1, <2>4, DeletingStep DEF Shapes
    <2>5. CASE \E e \in call[c].tell : Send(c, e)
        <3>1. PICK e \in call[c].tell : Send(c, e)
            BY <2>5
        <3>2. Said(c, e) /\ (call'[c] = Idle => call[c].tell \ {e} = {})
            BY <1>1, <3>1, TellSays DEF Send
        <3>3. Joined(e)
            BY <1>1, <3>1, EnqueueJoins DEF Send, Excuses
        <3>4. worker' = worker
            BY <3>1 DEF Send
        <3>5. Sending(c)
            BY <3>1, <3>2, <3>3, <3>4 DEF Sending
        <3> QED
            BY <3>5 DEF Shapes
    <2> QED
        BY <1>3, <2>1, <2>2, <2>3, <2>4, <2>5
<1>4. CASE Index
    <2>1. /\ IndexPasses \/ IndexMakes \/ IndexReads
          /\ worker.at = "index" /\ UNCHANGED <<corpus, jobs>> /\ worker'.job = worker.job
        BY <1>1, <1>4, IndexShape
    <2>2. worker'.at # "idle"
        BY <1>1, <2>1, OnToNextShape DEF IndexPasses, IndexMakes, IndexReads
    <2> QED
        BY <1>4, <2>1, <2>2 DEF Shapes, RunsOn
<1>5. CASE Log
    <2>1. /\ worker.at = "log" /\ UNCHANGED <<corpus, jobs>> /\ worker'.job = worker.job
          /\ worker'.at # "idle"
        BY <1>1, <1>5, LogShape
    <2> QED
        BY <1>5, <2>1 DEF Shapes, RunsOn
<1>6. CASE Made
    <2>1. /\ worker.at \in {"making", "making log"} /\ corpus' = corpus
          /\ MadeIt \/ (call[Worker] = Idle /\ Throws)
        BY <1>1, <1>6, MadeShape
    <2>2. MadeIt => jobs' = jobs /\ worker'.job = worker.job /\ worker'.at # "idle"
        BY DEF MadeIt
    <2> QED
        BY <2>1, <2>2 DEF Shapes, RunsOn
<1>7. CASE SaveText
    <2>1. worker.at \in {"merge", "append"} /\ corpus' = corpus /\ (SavedIt \/ Throws)
        BY <1>1, <1>7, SaveTextShape
    <2>2. SavedIt => jobs' = jobs /\ worker'.job = worker.job /\ worker'.at # "idle"
        BY DEF SavedIt
    <2> QED
        BY <2>1, <2>2 DEF Shapes, RunsOn
<1>8. ~Expire
    BY <1>1, NeverExpires
<1>9. ~Crash
    BY <1>1 DEF Crash, Excuses
<1> QED
    BY <1>2, <1>3, <1>4, <1>5, <1>6, <1>7, <1>8, <1>9 DEF Next, Shapes

-----------------------------------------------------------------------------
\* The rows a call may count on.
Owned(r) == IF r.kind = "delete" THEN {r.id} \cup r.todo ELSE {r.id}

LEMMA OwnedApart ==
    ASSUME Sound, NEW c \in Callers, NEW d \in Callers, c # d, call[c] # Idle, call[d] # Idle
    PROVE  /\ ~OnFolder(call[c]) /\ ~OnFolder(call[d])
           /\ \A k \in DOMAIN rows : k \in Owned(call[c]) => k \notin Owned(call[d])
<1>1. /\ ~OnFolder(call[c]) /\ ~OnFolder(call[d])
      /\ call[c].id = Null \/ call[c].id # call[d].id
      /\ CallFacts(call[c], rows) /\ CallFacts(call[d], rows)
    BY DEF Sound, Facts, Alone, Busy
<1>2. Owned(call[c]) = {call[c].id} /\ Owned(call[d]) = {call[d].id}
    BY <1>1 DEF CallFacts, FileFacts, Owned
<1>3. \A k \in DOMAIN rows : k # Null
    BY RowMeaning DEF Sound, OkfInv, TreeInv
<1> QED
    BY <1>1, <1>2, <1>3

\* What a call that is not at work on them owns is where it was, and but for a
\* save by maintenance what it was.
LEMMA OwnedStay ==
    ASSUME Sound, Settled, Shapes, NEW d \in Callers, call[d].at \in {"store", "done", "tell"},
           NEW k \in Owned(call[d]), k \in DOMAIN rows
    PROVE  /\ k \in DOMAIN rows' /\ SameRow(rows[k], rows'[k])
           /\ call[d].at # "store" /\ worker.at \notin {"merge", "append"} => rows'[k] = rows[k]
<1> DEFINE Still == k \in DOMAIN rows' /\ rows'[k] = rows[k]
<1>1. call[d] # Idle /\ ~Shifting(call[d]) /\ Idle.at = "idle"
    BY DEF Idle, Shifting
<1>2. rows' = rows => Still
    OBVIOUS
<1>3. ASSUME NEW c \in Callers, TreeMove(c) PROVE Still
    <2>1. CASE Added(rows, rows', call[c], call'[c])
        <3>1. PICK x \in Row : rows' = Append(rows, x)
            BY <2>1 DEF Added
        <3> QED
            BY <3>1 DEF Sound, OkfInv, TreeInv, RowsOK
    <2>2. ~Shifting(call[c])
        BY <1>1, ShiftingIsAlone
    <2> QED
        BY <1>2, <1>3, <2>1, <2>2 DEF TreeMove
<1>4. ASSUME NEW c \in Callers, Writing(c) PROVE Still
    <2>1. c # d /\ call[c] # Idle
        BY <1>1, <1>4 DEF Writing
    <2>2. k # call[c].id
        BY <1>1, <2>1, OwnedApart DEF Owned
    <2> QED
        BY <1>4, <2>2 DEF Writing
<1>5. ASSUME NEW c \in Callers, Deleting(c) PROVE Still
    <2>1. c # d /\ call[c] # Idle /\ call[c].kind = "delete"
        BY <1>1, <1>5 DEF Deleting
    <2>2. k \notin call[c].todo
        BY <1>1, <2>1, OwnedApart DEF Owned
    <2> QED
        BY <1>5, <2>2 DEF Deleting
<1>6. ASSUME NEW c \in Callers, Storing(c)
      PROVE  k \in DOMAIN rows' /\ SameRow(rows[k], rows'[k]) /\ (call[d].at # "store" => Still)
    <2>1. CASE rows' = rows
        BY <2>1 DEF SameRow
    <2>2. CASE rows' # rows
        <3>1. SameShape(rows, rows') /\ \A n \in DOMAIN rows : n # call[c].id => rows'[n] = rows[n]
            BY <1>6, <2>2 DEF Storing
        <3>2. k \in DOMAIN rows' /\ SameRow(rows[k], rows'[k])
            BY <3>1 DEF SameShape
        <3>3. ASSUME call[d].at # "store" PROVE k # call[c].id
            <4>1. c # d /\ call[c] # Idle
                BY <1>1, <1>6, <3>3 DEF Storing
            <4> QED
                BY <1>1, <4>1, OwnedApart DEF Owned
        <3> QED
            BY <3>1, <3>2, <3>3
    <2> QED
        BY <2>1, <2>2
<1>7. CASE SavedIt /\ worker.at \in {"merge", "append"}
    <2>1. SameShape(rows, rows')
        BY <1>7 DEF SavedIt, SameShape, SameRow, Sound, OkfInv, TreeInv, RowsOK, Row
    <2> QED
        BY <1>7, <2>1 DEF SameShape
<1>8. ASSUME NEW c \in Callers, Sending(c) PROVE Still
    BY <1>8 DEF Sending, Said
<1>9. ASSUME NEW c \in Users, Started(c) PROVE Still
    BY <1>9 DEF Started
<1>10. Index \/ Log => Still
    BY IndexShape, LogShape DEF IndexPasses, IndexMakes, IndexReads, MakingFile, Sound
<1>11. ASSUME Still PROVE SameRow(rows[k], rows'[k])
    BY <1>11 DEF SameRow
<1>12. Take \/ MadeIt \/ Throws \/ Finish \/ Tick => Still
    BY DEF Take, Rests, treeVars, MadeIt, Throws, Finish, Tick
<1> HIDE DEF Still
<1>13. \/ Still
       \/ \E c \in Callers : Storing(c)
       \/ SavedIt /\ worker.at \in {"merge", "append"}
    BY <1>3, <1>4, <1>5, <1>8, <1>9, <1>10, <1>12 DEF Shapes
<1>14. CASE Still
    BY <1>11, <1>14 DEF Still
<1> QED
    BY <1>6, <1>7, <1>13, <1>14 DEF Still

-----------------------------------------------------------------------------
(* What calls and the worker know, in settled states.                      *)

\* A new file is where its call made it.
Creations ==
    \A c \in Callers : call[c].at = "store" /\ call[c].kind # "save" =>
       call[c].id \in Files(call[c].path, call[c].name)

\* A delete announces files it will delete, and says where they are.
Deletions ==
    \A c \in Callers :
      /\ \A e \in call[c].tell :
           /\ e.kind = "delete" <=> call[c].kind = "delete"
           /\ e.kind = "delete" => \E k \in call[c].todo : k \in Files(e.path, e.name)
      /\ call[c].kind = "delete" /\ rows[call[c].id].there =>
           rows[call[c].id].folder = call[c].folder

Creation(r) == r.at = "store" /\ r.kind # "save"
Created(n) == \E c \in Callers : Creation(call[c]) /\ call[c].id = n

\* A concept without content is still being created.
Unstored == \A n \in DOMAIN rows : Concept(n) /\ ~rows[n].stored => Created(n)

\* The worker makes an index.md with the listing it has read, or a log.md.
Makings ==
    LET r == call[Worker]
    IN  r # Idle =>
          /\ r.kind = "file" /\ r.at \in Creating \cup {"store", "done"}
          /\ worker.at \in {"making", "making log"}
          /\ worker.at = "making" => r.path = Head(worker.dirs) /\ r.name = "index.md"
                                     /\ r.text.listed = Listing(Head(worker.dirs))
          /\ worker.at = "making log" => r.name = "log.md"
          /\ r.at = "done" => /\ r.id \in Files(r.path, r.name)
                              /\ rows[r.id].text.listed = r.text.listed

\* The worker sees to the folders its event is about.
Merges ==
    worker.at \in {"index", "making", "merge"} =>
      /\ \A i \in DOMAIN worker.dirs : worker.dirs[i] \in {TheEvent.from, TheEvent.path}
      /\ worker.at = "merge" /\ rows[worker.node].there =>
           worker.node \in Files(Head(worker.dirs), "index.md")

LEMMA FilesMeaning ==
    ASSUME NEW p, NEW m, NEW n
    PROVE  n \in Files(p, m) <=> /\ n \in DOMAIN rows /\ rows[n].there /\ ~rows[n].folder
                                 /\ rows[n].path = p /\ rows[n].name = m
BY DEF Files, At, Nodes

LEMMA FilesStay ==
    ASSUME NEW p, NEW m, NEW n \in Files(p, m), n \in DOMAIN rows', SameRow(rows[n], rows'[n])
    PROVE  n \in Files(p, m)'
BY DEF Files, At, Nodes, SameRow

\* What has become of a call.
LEMMA CallShapes ==
    ASSUME Sound, Shapes, NEW d \in Callers
    PROVE  \/ call'[d] = call[d]
           \/ call'[d] = Idle
           \/ d \in Users /\ Started(d) /\ QueueStill
           \/ TreeMove(d) /\ QueueStill
           \/ Storing(d) \/ Writing(d) \/ Sending(d)
           \/ d = Worker /\ \E p, m, l : MakingFile(p, m, l)
<1>1. OkfInv /\ QueueKept
    BY DEF Sound
<1>2. ASSUME NEW c \in Users, Started(c)
      PROVE  call'[d] = call[d] \/ (d \in Users /\ Started(d))
    BY <1>2 DEF Started
<1>3. ASSUME NEW c \in Callers, TreeMove(c)
      PROVE  call'[d] = call[d] \/ TreeMove(d)
    BY <1>3 DEF TreeMove
<1>4. ASSUME NEW c \in Callers, Storing(c) \/ Writing(c) \/ Deleting(c) \/ Sending(c)
      PROVE  call'[d] = call[d] \/ call'[d] = Idle \/ Storing(d) \/ Writing(d) \/ Sending(d)
    <2>1. CASE c = d
        BY <1>4, <2>1 DEF Deleting
    <2>2. CASE c # d
        BY <1>4, <2>2 DEF Storing, Writing, Deleting, Sending, Spoke, Said
    <2> QED
        BY <2>1, <2>2
<1>5. ASSUME Index \/ Log PROVE call'[d] = call[d] \/ (d = Worker /\ \E p, m, l : MakingFile(p, m, l))
    BY <1>1, <1>5, IndexShape, LogShape DEF IndexPasses, IndexMakes, IndexReads, MakingFile
<1>6. ASSUME MadeIt PROVE call'[d] = call[d] \/ call'[d] = Idle
    BY <1>6 DEF MadeIt
<1>7. SavedIt \/ Throws \/ Take \/ Finish \/ Tick => call'[d] = call[d]
    BY DEF SavedIt, Throws, Take, Rests, treeVars, Finish, Tick
<1> QED
    BY <1>2, <1>3, <1>4, <1>5, <1>6, <1>7 DEF Shapes

LEMMA CreationsStay ==
    ASSUME Sound, Settled, Shapes, Creations
    PROVE  Creations'
<1>1. TreeInv /\ RowsOK(rows)
    BY DEF Sound, OkfInv, TreeInv
<1> SUFFICES ASSUME NEW d \in Callers, call'[d].at = "store", call'[d].kind # "save",
                    NEW p, NEW m, NEW i, call'[d].path = p, call'[d].name = m, call'[d].id = i
             PROVE  i \in Files(p, m)'
    BY DEF Creations
<1>8. Idle.at = "idle"
    BY DEF Idle
<1>2. CASE call'[d] = call[d]
    <2>1. i \in Files(p, m)
        BY <1>2 DEF Creations
    <2>2. i \in Owned(call[d]) /\ i \in DOMAIN rows
        BY <1>2, <2>1, FilesMeaning DEF Owned
    <2>3. i \in DOMAIN rows' /\ SameRow(rows[i], rows'[i])
        BY <1>2, <2>2, OwnedStay
    <2> QED
        BY <2>1, <2>3, FilesStay
<1>3. CASE TreeMove(d)
    <2>1. Added(rows, rows', call[d], call'[d]) /\ call'[d] # Idle
        BY <1>3 DEF TreeMove, Moving, Shifting, Idle
    <2>2. PICK x \in Row :
             /\ rows' = Append(rows, x) /\ x.there /\ ~x.folder
             /\ x.path = call[d].path /\ x.name = call[d].name /\ i = Len(rows) + 1
        BY <2>1 DEF Added
    <2>3. call[d].path = p /\ call[d].name = m
        BY <1>3, <2>1 DEF TreeMove, SameCall
    <2>4. Len(rows) + 1 \in DOMAIN rows' /\ rows'[Len(rows) + 1] = x
        BY <1>1, <2>2, RowAdded
    <2> QED
        BY <2>2, <2>3, <2>4 DEF Files, At, Nodes
<1>4. ~Storing(d) /\ ~Writing(d)
    BY DEF Storing, Writing, Spoke, Idle
<1>5. ~Sending(d)
    BY <1>8 DEF Sending, Said
<1>6. ~Started(d)
    BY DEF Started
<1>7. ~\E q, k, l : d = Worker /\ MakingFile(q, k, l)
    BY DEF MakingFile
<1> QED
    BY <1>2, <1>3, <1>4, <1>5, <1>6, <1>7, <1>8, CallShapes

LEMMA DeletionsStay ==
    ASSUME Sound, Sound', Settled, Shapes, Deletions, Grows(rows, rows')
    PROVE  Deletions'
<1>1. /\ TreeInv /\ RowsOK(rows) /\ CallNos /\ Idle.tell = {} /\ Idle.kind = "none"
      /\ Idle.at = "idle" /\ DOMAIN rows = 1 .. Len(rows)
    BY DEF Sound, OkfInv, TreeInv, QueueKept, Idle, RowsOK
<1>2. ASSUME NEW d \in Callers, NEW e \in call'[d].tell
      PROVE  /\ e.kind = "delete" <=> call'[d].kind = "delete"
             /\ e.kind = "delete" => \E k \in call'[d].todo : k \in Files(e.path, e.name)'
    <2>1. ASSUME NEW k \in call[d].todo, k \in Files(e.path, e.name), call[d].at = "tell",
                 call[d].kind = "delete"
          PROVE  k \in Files(e.path, e.name)'
        <3>1. k \in Owned(call[d]) /\ k \in DOMAIN rows
            BY <2>1, FilesMeaning DEF Owned
        <3>2. k \in DOMAIN rows' /\ SameRow(rows[k], rows'[k])
            BY <2>1, <3>1, OwnedStay
        <3> QED
            BY <2>1, <3>2, FilesStay
    <2>2. CASE call'[d] = call[d] \/ Sending(d)
        <3>1. /\ e \in call[d].tell /\ call'[d].kind = call[d].kind /\ call'[d].todo = call[d].todo
            BY <1>1, <1>2, <2>2 DEF Sending, Said, SameAim
        <3>2. call[d].at = "tell"
            BY <1>1, <3>1 DEF CallNos
        <3> QED
            BY <2>1, <3>1, <3>2 DEF Deletions
    <2>3. CASE TreeMove(d)
        <3>1. call'[d].tell = call[d].tell /\ call[d].tell # {}
            BY <1>1, <1>2, <2>3 DEF TreeMove, SameCall
        <3>2. call[d].at = "tell"
            BY <1>1, <3>1 DEF CallNos
        <3> QED
            BY <1>1, <1>2, <2>3, <3>1, <3>2 DEF TreeMove
    <2>4. CASE Started(d) /\ d \in Users
        <3>1. rows' = rows /\ call'[d].kind = "delete" /\ Telling(call'[d])
            BY <1>2, <2>4 DEF Started
        <3>2. e.kind = "delete" /\ \E k \in call'[d].todo : k \in Files(e.path, e.name)
            BY <1>2, <3>1 DEF Telling
        <3>3. Files(e.path, e.name)' = Files(e.path, e.name)
            BY <3>1 DEF Files, At, Nodes
        <3> QED
            BY <3>1, <3>2, <3>3
    <2>5. CASE Storing(d) \/ Writing(d)
        <3>1. call[d].at \in {"store", "shift"} /\ Spoke(d)
            BY <2>5 DEF Storing, Writing
        <3>2. call[d].tell = {} /\ call[d].kind # "delete"
            <4>1. CallFacts(call[d], rows)
                BY <1>1, <3>1, Acting DEF Sound
            <4> QED
                BY <1>1, <3>1, <4>1 DEF CallNos, CallFacts, StageFacts
        <3> QED
            BY <1>1, <1>2, <3>1, <3>2 DEF Spoke, SameAim
    <2>6. ~\E p, m, l : d = Worker /\ MakingFile(p, m, l)
        BY <1>2 DEF MakingFile
    <2> QED
        BY <1>1, <1>2, <2>2, <2>3, <2>4, <2>5, <2>6, CallShapes
<1>3. ASSUME NEW d \in Callers, call'[d].kind = "delete", rows'[call'[d].id].there
      PROVE  rows'[call'[d].id].folder = call'[d].folder
    <2>1. CASE call[d].kind = "delete" /\ call'[d].id = call[d].id /\ call'[d].folder = call[d].folder
        <3>1. call[d] # Idle /\ CallFacts(call[d], rows)
            BY <1>1, <2>1 DEF Sound, Facts, Busy
        <3>2. call[d].id \in DOMAIN rows
            BY <2>1, <3>1 DEF CallFacts, FolderFacts, FileFacts
        <3> QED
            BY <1>3, <2>1, <3>2 DEF Grows, Deletions
    <2>2. CASE call'[d] = call[d] \/ Sending(d)
        BY <1>1, <1>3, <2>1, <2>2 DEF Sending, Said, SameAim
    <2>3. CASE TreeMove(d)
        <3>1. call'[d] # Idle /\ call[d].kind = "delete" /\ call'[d].folder = call[d].folder
            BY <1>1, <1>3, <2>3 DEF TreeMove, SameCall
        <3>2. CallFacts(call[d], rows)
            BY <1>1, <3>1 DEF Sound, Facts, Busy
        <3>3. call[d].at \in {"tell", "remove"}
            BY <3>1, <3>2 DEF CallFacts, StageFacts
        <3>4. call'[d].at = "remove"
            BY <2>3, <3>1, <3>3 DEF TreeMove, Creating, Moving
        <3> QED
            BY <2>1, <2>3, <3>1, <3>4 DEF TreeMove
    <2>4. CASE Started(d)
        BY <1>3, <2>4 DEF Started
    <2>5. CASE Storing(d) \/ Writing(d)
        <3>1. call[d].at \in {"store", "shift"} /\ Spoke(d)
            BY <2>5 DEF Storing, Writing
        <3>2. CallFacts(call[d], rows)
            BY <1>1, <3>1, Acting DEF Sound
        <3>3. call[d].kind # "delete"
            BY <3>1, <3>2 DEF CallFacts, StageFacts
        <3> QED
            BY <1>1, <1>3, <3>1, <3>3 DEF Spoke, SameAim
    <2>6. ~\E p, m, l : d = Worker /\ MakingFile(p, m, l)
        BY <1>3 DEF MakingFile
    <2> QED
        BY <1>1, <1>3, <2>2, <2>3, <2>4, <2>5, <2>6, CallShapes
<1> QED
    BY <1>2, <1>3 DEF Deletions

\* A creation goes on until its content is stored.
LEMMA CreatedStay ==
    ASSUME Sound, Shapes, NEW n, NEW d \in Callers, Creation(call[d]), call[d].id = n
    PROVE  Created(n)' \/ (Storing(d) /\ call[d].at = "store" /\ call[d].id = n)
<1>1. call[d].at = "store" /\ call[d] # Idle /\ Idle.at = "idle" /\ OkfInv
    BY DEF Creation, Idle, Sound
<1>2. call'[d] = call[d] => Created(n)'
    BY DEF Created
<1>3. ASSUME NEW c \in Callers,
             \/ Started(c) \/ TreeMove(c) \/ Writing(c) \/ Deleting(c) \/ Sending(c)
      PROVE  call'[d] = call[d]
    <2>1. call[c].at # "store"
        BY <1>1, <1>3 DEF Started, TreeMove, Writing, Deleting, Sending, Said, Creating, Moving
    <2>2. d # c
        BY <1>1, <2>1
    <2> QED
        BY <1>3, <2>2 DEF Started, TreeMove, Writing, Deleting, Sending, Said, Spoke
<1>4. ASSUME NEW c \in Callers, Storing(c) PROVE Created(n)' \/ Storing(d)
    BY <1>2, <1>4 DEF Storing, Spoke
<1>5. ASSUME Index \/ Log PROVE call'[d] = call[d]
    <2>1. call' = call \/ \E p, m, l : MakingFile(p, m, l)
        BY <1>1, <1>5, IndexShape, LogShape DEF IndexPasses, IndexMakes, IndexReads
    <2> QED
        BY <1>1, <2>1 DEF MakingFile
<1>6. ASSUME MadeIt PROVE call'[d] = call[d]
    BY <1>1, <1>6 DEF MadeIt
<1>7. SavedIt \/ Throws \/ Take \/ Finish \/ Tick => call'[d] = call[d]
    BY DEF SavedIt, Throws, Take, Rests, treeVars, Finish, Tick
<1>8. Users \subseteq Callers
    BY DEF Users
<1> QED
    BY <1>1, <1>2, <1>3, <1>4, <1>5, <1>6, <1>7, <1>8 DEF Shapes

LEMMA AddedMeaning ==
    ASSUME Sound, NEW c \in Callers, Added(rows, rows', call[c], call'[c])
    PROVE  \E x \in Row :
             /\ rows' = Append(rows, x) /\ DOMAIN rows' = DOMAIN rows \cup {Len(rows) + 1}
             /\ Len(rows) + 1 \notin DOMAIN rows /\ rows'[Len(rows) + 1] = x
             /\ \A n \in DOMAIN rows : rows'[n] = rows[n]
             /\ x.there /\ ~x.stored /\ x.text = NoText
             /\ \/ x.folder /\ call'[c].at # "store"
                \/ /\ ~x.folder /\ x.path = call[c].path /\ x.name = call[c].name
                   /\ Creation(call'[c]) /\ call'[c].id = Len(rows) + 1
<1>1. PICK x \in Row :
             /\ rows' = Append(rows, x)
             /\ x.there /\ ~x.stored /\ x.text = NoText
             /\ \/ x.folder /\ call'[c].at # "store"
                \/ /\ ~x.folder /\ x.path = call[c].path /\ x.name = call[c].name
                   /\ call'[c].at = "store" /\ call'[c].id = Len(rows) + 1 /\ call'[c].kind # "save"
    BY DEF Added
<1>2. RowsOK(rows)
    BY DEF Sound, OkfInv, TreeInv
<1>3. /\ Len(rows) \in Nat /\ DOMAIN rows = 1 .. Len(rows)
      /\ DOMAIN rows' = 1 .. (Len(rows) + 1) /\ rows'[Len(rows) + 1] = x
      /\ \A n \in DOMAIN rows : rows'[n] = rows[n]
    BY <1>1, <1>2 DEF RowsOK
<1>4. DOMAIN rows' = DOMAIN rows \cup {Len(rows) + 1} /\ Len(rows) + 1 \notin DOMAIN rows
    BY <1>3
<1> QED
    BY <1>1, <1>3, <1>4 DEF Creation

LEMMA SavedMeaning ==
    ASSUME Sound, SavedIt
    PROVE  /\ DOMAIN rows' = DOMAIN rows /\ worker.node \in DOMAIN rows
           /\ \A n \in DOMAIN rows : n # worker.node => rows'[n] = rows[n]
           /\ \A n \in DOMAIN rows : SameRow(rows[n], rows'[n]) /\ rows'[n].stored = rows[n].stored
           /\ rows'[worker.node].text = NewText
<1> DEFINE k == worker.node
<1>1. k \in DOMAIN rows /\ rows' = [rows EXCEPT ![k].text = NewText] /\ RowsOK(rows)
    BY DEF SavedIt, Sound, OkfInv, TreeInv
<1>2. PICK x : x = [rows[k] EXCEPT !.text = NewText]
    OBVIOUS
<1>3. rows' = [rows EXCEPT ![k] = x]
    BY <1>1, <1>2
<1>4. rows[k] \in Row
    BY <1>1, RowMeaning
<1>5. SameRow(rows[k], x) /\ x.stored = rows[k].stored /\ x.text = NewText
    BY <1>2, <1>4 DEF Row, SameRow
<1>6. /\ DOMAIN rows' = DOMAIN rows /\ rows'[k] = x
      /\ \A n \in DOMAIN rows : n # k => rows'[n] = rows[n]
    BY <1>1, <1>3 DEF RowsOK
<1>7. \A n \in DOMAIN rows : SameRow(rows[n], rows'[n]) /\ rows'[n].stored = rows[n].stored
    BY <1>5, <1>6 DEF SameRow
<1> QED
    BY <1>1, <1>5, <1>6, <1>7

\* Whatever becomes of a concept's row: it was a concept's before, or is new.
LEMMA ConceptBefore ==
    ASSUME Sound, Shapes, NEW n, Concept(n)'
    PROVE  \/ Created(n)'
           \/ /\ Concept(n)
              /\ \/ rows'[n] = rows[n]
                 \/ /\ rows'[n].stored = rows[n].stored /\ rows'[n].parent = rows[n].parent
                    /\ rows'[n].name = rows[n].name
                    /\ \/ rows'[n].path = rows[n].path
                       \/ \E c \in Callers : TreeMove(c) /\ Shifting(call[c])
                 \/ \E c \in Callers : Storing(c) /\ call[c].id = n /\ rows'[n].stored
                                       /\ SameRow(rows[n], rows'[n])
                 \/ \E c \in Callers : Writing(c) /\ ~call[c].folder /\ call[c].id = n
                                       /\ rows'[n].stored = rows[n].stored
<1> DEFINE Fate == \/ rows'[n] = rows[n]
                   \/ /\ rows'[n].stored = rows[n].stored /\ rows'[n].parent = rows[n].parent
                      /\ rows'[n].name = rows[n].name
                      /\ \/ rows'[n].path = rows[n].path
                         \/ \E c \in Callers : TreeMove(c) /\ Shifting(call[c])
                   \/ \E c \in Callers : Storing(c) /\ call[c].id = n /\ rows'[n].stored
                                         /\ SameRow(rows[n], rows'[n])
                   \/ \E c \in Callers : Writing(c) /\ ~call[c].folder /\ call[c].id = n
                                         /\ rows'[n].stored = rows[n].stored
<1>1. n \in DOMAIN rows' /\ rows'[n].there /\ ~rows'[n].folder /\ rows'[n].name \in Concepts
      /\ OkfInv /\ RowsOK(rows)
    BY DEF Concept, Nodes, Sound, OkfInv, TreeInv
<1>2. ASSUME n \in DOMAIN rows, rows'[n] = rows[n] PROVE Concept(n) /\ Fate
    BY <1>1, <1>2 DEF Concept, Nodes
<1>3. ASSUME rows' = rows PROVE Concept(n) /\ Fate
    BY <1>1, <1>2, <1>3
<1>4. ASSUME NEW c \in Callers, TreeMove(c) PROVE Created(n)' \/ (Concept(n) /\ Fate)
    <2>1. CASE Added(rows, rows', call[c], call'[c])
        BY <1>1, <1>2, <2>1, AddedMeaning DEF Created
    <2>2. CASE Resettled(rows, rows') /\ Shifting(call[c])
        <3>1. Concept(n) /\ rows'[n].stored = rows[n].stored /\ rows'[n].parent = rows[n].parent
              /\ rows'[n].name = rows[n].name
            BY <1>1, <2>2 DEF Resettled, Concept, Nodes
        <3> QED
            BY <1>4, <2>2, <3>1
    <2> QED
        BY <1>3, <1>4, <2>1, <2>2 DEF TreeMove
<1>5. ASSUME NEW c \in Callers, Storing(c) PROVE Concept(n) /\ Fate
    <2>1. CASE rows' # rows
        <3>1. /\ SameShape(rows, rows') /\ rows'[call[c].id].stored
              /\ \A k \in DOMAIN rows : k # call[c].id => rows'[k] = rows[k]
            BY <1>5, <2>1 DEF Storing
        <3>2. n \in DOMAIN rows /\ SameRow(rows[n], rows'[n])
            BY <1>1, <3>1 DEF SameShape
        <3>3. Concept(n)
            BY <1>1, <3>2 DEF SameRow, Concept, Nodes
        <3> QED
            BY <1>2, <1>5, <3>1, <3>2, <3>3
    <2> QED
        BY <1>3, <2>1
<1>6. ASSUME NEW c \in Callers, Writing(c) PROVE Concept(n) /\ Fate
    <2>1. CASE rows' # rows
        <3> DEFINE i == call[c].id
        <3>1. /\ DOMAIN rows' = DOMAIN rows /\ rows[i].there
              /\ \A k \in DOMAIN rows : k # i => rows'[k] = rows[k]
              /\ rows[i].folder = call[c].folder /\ rows'[i].folder = rows[i].folder
              /\ rows'[i].stored = rows[i].stored /\ i \in DOMAIN rows
              /\ ~call[c].folder => rows[i].name \in Concepts
            BY <1>6, <2>1 DEF Writing
        <3>2. CASE n # i
            BY <1>1, <1>2, <3>1, <3>2
        <3>3. CASE n = i
            <4>1. Concept(n) /\ ~call[c].folder
                BY <1>1, <3>1, <3>3 DEF Concept, Nodes
            <4> QED
                BY <1>6, <3>1, <3>3, <4>1
        <3> QED
            BY <3>2, <3>3
    <2> QED
        BY <1>3, <2>1
<1>7. ASSUME NEW c \in Callers, Deleting(c) PROVE Concept(n) /\ Fate
    <2>1. n \in DOMAIN rows /\ rows'[n] = rows[n]
        BY <1>1, <1>7 DEF Deleting
    <2> QED
        BY <1>2, <2>1
<1>8. ASSUME SavedIt PROVE Concept(n) /\ Fate
    <2>1. /\ n \in DOMAIN rows /\ rows'[n].stored = rows[n].stored
          /\ rows'[n].parent = rows[n].parent /\ rows'[n].name = rows[n].name
          /\ rows'[n].there = rows[n].there /\ rows'[n].folder = rows[n].folder
          /\ rows'[n].path = rows[n].path
        BY <1>1, <1>8, SavedMeaning DEF SameRow
    <2> QED
        BY <1>1, <2>1 DEF Concept, Nodes
<1>9. ASSUME NEW c \in Callers, Sending(c) \/ Started(c) PROVE rows' = rows
    BY <1>9 DEF Sending, Said, Started
<1>10. Index \/ Log => rows' = rows
    BY <1>1, IndexShape, LogShape DEF IndexPasses, IndexMakes, IndexReads, MakingFile
<1>11. Take \/ MadeIt \/ Throws \/ Finish \/ Tick => rows' = rows
    BY DEF Take, Rests, treeVars, MadeIt, Throws, Finish, Tick
<1>12. Users \subseteq Callers
    BY DEF Users
<1> HIDE DEF Fate
<1>13. Created(n)' \/ (Concept(n) /\ Fate)
    BY <1>3, <1>4, <1>5, <1>6, <1>7, <1>8, <1>9, <1>10, <1>11, <1>12 DEF Shapes
<1> QED
    BY <1>13 DEF Fate

LEMMA UnstoredStay ==
    ASSUME Sound, Shapes, Unstored
    PROVE  Unstored'
<1> SUFFICES ASSUME NEW n \in DOMAIN rows', Concept(n)', ~rows'[n].stored
             PROVE  Created(n)'
    BY DEF Unstored
<1>1. CASE Concept(n) /\ ~rows[n].stored
    <2>1. PICK d \in Callers : Creation(call[d]) /\ call[d].id = n
        BY <1>1 DEF Unstored, Created, Concept, Nodes
    <2>2. ~(Storing(d) /\ call[d].id = n)
        <3>1. rows[n].there /\ rows'[n].there
            BY <1>1 DEF Concept, Nodes
        <3> QED
            BY <3>1 DEF Storing
    <2> QED
        BY <2>1, <2>2, CreatedStay
<1> QED
    BY <1>1, ConceptBefore

LEMMA SameJob == ASSUME worker'.job = worker.job PROVE TheEvent' = TheEvent /\ TheJob' = TheJob
BY DEF TheJob, TheEvent

\* An index.md is no concept, and stays where it is while there are jobs.
LEMMA IndexStays ==
    ASSUME Sound, Settled, Shapes, jobs # <<>>, NEW p, NEW k \in Files(p, "index.md")
    PROVE  k \in DOMAIN rows' /\ (rows'[k].there => k \in Files(p, "index.md")')
<1>1. /\ k \in DOMAIN rows /\ rows[k].there /\ ~rows[k].folder /\ rows[k].name = "index.md"
      /\ "index.md" \notin Concepts /\ OkfInv
    BY FilesMeaning, TreeAssumption DEF Sound
<1>2. ASSUME k \in DOMAIN rows', SameRow(rows[k], rows'[k]) PROVE k \in Files(p, "index.md")'
    BY <1>2, FilesStay
<1>3. ASSUME k \in DOMAIN rows', rows'[k] = rows[k] PROVE k \in Files(p, "index.md")'
    BY <1>2, <1>3 DEF SameRow
<1> DEFINE Goal == k \in DOMAIN rows' /\ (rows'[k].there => k \in Files(p, "index.md")')
<1>4. rows' = rows => Goal
    BY <1>1, <1>3
<1>5. ASSUME NEW c \in Callers, TreeMove(c) PROVE Goal
    <2>1. CASE Added(rows, rows', call[c], call'[c])
        BY <1>1, <1>3, <2>1, AddedMeaning
    <2>2. ~Shifting(call[c])
        BY Planted
    <2> QED
        BY <1>4, <1>5, <2>1, <2>2 DEF TreeMove
<1>6. ASSUME NEW c \in Callers, Storing(c) PROVE Goal
    <2>1. CASE rows' # rows
        <3>1. SameShape(rows, rows')
            BY <1>6, <2>1 DEF Storing
        <3> QED
            BY <1>1, <1>2, <3>1 DEF SameShape
    <2> QED
        BY <1>4, <2>1
<1>7. ASSUME NEW c \in Callers, Writing(c) PROVE Goal
    <2>1. ~call[c].folder
        BY <1>7, Planted DEF Writing, Shifting
    <2>2. CASE rows' # rows
        <3>1. /\ DOMAIN rows' = DOMAIN rows /\ rows[call[c].id].name \in Concepts
              /\ \A n \in DOMAIN rows : n # call[c].id => rows'[n] = rows[n]
            BY <1>7, <2>1, <2>2 DEF Writing
        <3> QED
            BY <1>1, <1>3, <3>1
    <2> QED
        BY <1>4, <2>2
<1>8. ASSUME NEW c \in Callers, Deleting(c) PROVE Goal
    BY <1>1, <1>3, <1>8 DEF Deleting
<1>9. ASSUME SavedIt PROVE Goal
    BY <1>1, <1>2, <1>9, SavedMeaning
<1>10. ASSUME NEW c \in Callers, Sending(c) \/ Started(c) PROVE rows' = rows
    BY <1>10 DEF Sending, Said, Started
<1>11. Index \/ Log => rows' = rows
    BY <1>1, IndexShape, LogShape DEF IndexPasses, IndexMakes, IndexReads, MakingFile
<1>12. Take \/ MadeIt \/ Throws \/ Finish \/ Tick => rows' = rows
    BY DEF Take, Rests, treeVars, MadeIt, Throws, Finish, Tick
<1>13. Users \subseteq Callers
    BY DEF Users
<1> HIDE DEF Goal
<1>14. Goal
    BY <1>4, <1>5, <1>6, <1>7, <1>8, <1>9, <1>10, <1>11, <1>12, <1>13 DEF Shapes
<1> QED
    BY <1>14 DEF Goal

LEMMA ShapesGrow ==
    ASSUME Sound, Sound', Shapes
    PROVE  Grows(rows, rows')
<1>1. OkfInv /\ RowsOK(rows) /\ RowsOK(rows')
    BY DEF Sound, OkfInv, TreeInv
<1>2. DOMAIN rows = 1 .. Len(rows) /\ DOMAIN rows' = 1 .. Len(rows') /\ Len(rows) \in Nat
      /\ Len(rows') \in Nat
    BY <1>1 DEF RowsOK
<1>3. ASSUME \A n \in DOMAIN rows :
               n \in DOMAIN rows' /\ (rows'[n].there => rows[n].there /\ rows'[n].folder = rows[n].folder)
      PROVE  Grows(rows, rows')
    <2>1. Len(rows) <= Len(rows')
        BY <1>2, <1>3
    <2> QED
        BY <1>3, <2>1 DEF Grows
<1>4. ASSUME rows' = rows PROVE Grows(rows, rows')
    BY <1>1, <1>4, GrowsSame
<1>5. ASSUME NEW c \in Callers, TreeMove(c) PROVE Grows(rows, rows')
    <2>1. CASE Added(rows, rows', call[c], call'[c])
        BY <1>3, <2>1, AddedMeaning
    <2>2. CASE Resettled(rows, rows')
        BY <1>3, <2>2 DEF Resettled
    <2> QED
        BY <1>4, <1>5, <2>1, <2>2 DEF TreeMove
<1>6. ASSUME NEW c \in Callers, Storing(c) PROVE Grows(rows, rows')
    BY <1>3, <1>4, <1>6 DEF Storing, SameShape, SameRow
<1>7. ASSUME NEW c \in Callers, Writing(c) PROVE Grows(rows, rows')
    BY <1>3, <1>4, <1>7 DEF Writing
<1>8. ASSUME NEW c \in Callers, Deleting(c) PROVE Grows(rows, rows')
    BY <1>3, <1>8 DEF Deleting
<1>9. ASSUME SavedIt PROVE Grows(rows, rows')
    BY <1>3, <1>9, SavedMeaning DEF SameRow
<1>10. ASSUME NEW c \in Callers, Sending(c) \/ Started(c) PROVE rows' = rows
    BY <1>10 DEF Sending, Said, Started
<1>11. Index \/ Log => rows' = rows
    BY <1>1, IndexShape, LogShape DEF IndexPasses, IndexMakes, IndexReads, MakingFile
<1>12. Take \/ MadeIt \/ Throws \/ Finish \/ Tick => rows' = rows
    BY DEF Take, Rests, treeVars, MadeIt, Throws, Finish, Tick
<1>13. Users \subseteq Callers
    BY DEF Users
<1> QED
    BY <1>4, <1>5, <1>6, <1>7, <1>8, <1>9, <1>10, <1>11, <1>12, <1>13 DEF Shapes

LEMMA MergesStay ==
    ASSUME Sound, Sound', Settled, Shapes, Merges
    PROVE  Merges'
<1>1. OkfInv /\ OkfInv' /\ QueueKept /\ Resting.at = "idle"
    BY DEF Sound, Resting
<1>2. ASSUME worker' = worker PROVE Merges'
    <2>1. TheEvent' = TheEvent
        BY <1>2, SameJob
    <2>2. PICK p, k : p = Head(worker.dirs) /\ k = worker.node
        OBVIOUS
    <2>3. ASSUME worker.at = "merge", rows'[k].there
          PROVE  k \in Files(p, "index.md")'
        <3>1. worker.node \in DOMAIN rows /\ jobs # <<>>
            BY <1>1, <2>3, WorkHasJobs DEF OkfInv, WorkerOK
        <3>2. rows[k].there
            BY <2>2, <2>3, <3>1, ShapesGrow DEF Grows
        <3>3. k \in Files(p, "index.md")
            BY <2>2, <2>3, <3>2 DEF Merges
        <3> QED
            BY <2>3, <3>1, <3>3, IndexStays
    <2> QED
        BY <1>2, <2>1, <2>2, <2>3 DEF Merges
<1>3. ASSUME worker'.job = worker.job, worker.at \in {"index", "making", "merge"}, worker' = OnToNext
      PROVE  Merges'
    <2>1. /\ TheEvent' = TheEvent /\ worker'.dirs = Tail(worker.dirs)
          /\ worker'.at \in {"index", "log"}
        BY <1>1, <1>3, SameJob, OnToNextShape
    <2>2. worker.dirs \in Seq(Seq(FolderNames)) /\ worker.dirs # <<>>
        BY <1>1, <1>3 DEF OkfInv, WorkerOK, Working
    <2>3. \A i \in DOMAIN Tail(worker.dirs) :
             i + 1 \in DOMAIN worker.dirs /\ Tail(worker.dirs)[i] = worker.dirs[i + 1]
        BY <2>2
    <2> QED
        BY <1>3, <2>1, <2>3 DEF Merges
<1>4. CASE Index
    <2>1. /\ IndexPasses \/ IndexMakes \/ IndexReads
          /\ worker.at = "index" /\ worker'.job = worker.job
        BY <1>1, <1>4, IndexShape
    <2>2. TheEvent' = TheEvent
        BY <2>1, SameJob
    <2>3. CASE IndexPasses
        BY <1>3, <2>1, <2>3 DEF IndexPasses
    <2>4. CASE IndexMakes
        BY <2>1, <2>2, <2>4 DEF IndexMakes, Merges
    <2>5. CASE IndexReads
        <3>1. /\ rows' = rows /\ worker'.at = "merge" /\ worker'.dirs = worker.dirs
              /\ worker'.node \in Files(Head(worker.dirs), "index.md")
            BY <2>5 DEF IndexReads
        <3>2. PICK p, k : p = Head(worker.dirs) /\ k = worker'.node
            OBVIOUS
        <3>3. k \in Files(p, "index.md")'
            BY <3>1, <3>2 DEF Files, At, Nodes
        <3> QED
            BY <2>1, <2>2, <3>1, <3>2, <3>3 DEF Merges
    <2> QED
        BY <2>1, <2>3, <2>4, <2>5
<1>5. CASE Log
    <2>1. worker'.at \in {"making log", "append"}
        BY <1>1, <1>5, LogShape
    <2> QED
        BY <2>1 DEF Merges
<1>6. CASE MadeIt
    <2>1. \/ worker.at = "making" /\ worker' = OnToNext /\ worker'.job = worker.job
          \/ worker'.at = "finish"
        BY <1>6 DEF MadeIt
    <2> QED
        BY <1>3, <2>1 DEF Merges
<1>7. CASE SavedIt
    <2>1. \/ worker.at = "merge" /\ worker' = OnToNext /\ worker'.job = worker.job
          \/ worker'.at = "finish"
        BY <1>7 DEF SavedIt
    <2> QED
        BY <1>3, <2>1 DEF Merges
<1>8. CASE Take
    <2>1. PICK i \in DOMAIN jobs :
             /\ TheEvent' = jobs[i].ev /\ worker'.dirs = Dirs(jobs[i].ev)
             /\ worker'.at \in {"index", "finish"}
        BY <1>1, <1>8, Taking
    <2>2. \A k \in DOMAIN Dirs(jobs[i].ev) : Dirs(jobs[i].ev)[k] \in {jobs[i].ev.from, jobs[i].ev.path}
        BY DEF Dirs
    <2> QED
        BY <2>1, <2>2 DEF Merges
<1>9. CASE Throws \/ Finish
    <2>1. worker'.at = "idle"
        BY <1>1, <1>9 DEF Throws, Finish
    <2> QED
        BY <2>1 DEF Merges
<1>10. \/ worker' = worker
       \/ Index \/ Log \/ MadeIt \/ SavedIt \/ Take \/ Throws \/ Finish
    BY DEF Shapes, QueueStill, Storing, Writing, Deleting, Sending, Tick
<1> QED
    BY <1>2, <1>4, <1>5, <1>6, <1>7, <1>8, <1>9, <1>10

LEMMA ListingStays ==
    ASSUME worker'.refs = worker.refs, NEW d
    PROVE  Listing(d)' = Listing(d)
BY DEF Listing, ConceptsIn, SubfoldersIn

LEMMA MakingsStay ==
    ASSUME Sound, Sound', Settled, Shapes, Creations, Makings
    PROVE  Makings'
<1>1. /\ OkfInv /\ TreeInv /\ QueueKept /\ CallNos /\ Worker \in Callers /\ Internal = {Worker}
      /\ Idle.at = "idle" /\ RowsOK(rows) /\ Worker \notin Users
    BY TheWorker DEF Sound, OkfInv, TreeInv, QueueKept, Idle, Users
<1>2. ASSUME call[Worker] = Idle, call'[Worker] = call[Worker] PROVE Makings'
    BY <1>2 DEF Makings
<1>3. ASSUME call[Worker] # Idle, call'[Worker] = call[Worker], worker' = worker PROVE Makings'
    <2>1. PICK r : r = call[Worker]
        OBVIOUS
    <2>2. /\ r.kind = "file" /\ r.at \in Creating \cup {"store", "done"}
          /\ worker.at \in {"making", "making log"}
          /\ worker.at = "making" => r.path = Head(worker.dirs) /\ r.name = "index.md"
                                     /\ r.text.listed = Listing(Head(worker.dirs))
          /\ worker.at = "making log" => r.name = "log.md"
          /\ r.at = "done" => /\ r.id \in Files(r.path, r.name)
                              /\ rows[r.id].text.listed = r.text.listed
        BY <1>3, <2>1 DEF Makings
    <2>3. ASSUME r.at = "done"
          PROVE  r.id \in Files(r.path, r.name)' /\ rows'[r.id] = rows[r.id]
        <3>1. r.id \in Owned(call[Worker]) /\ r.id \in DOMAIN rows
            BY <2>1, <2>2, <2>3, FilesMeaning DEF Owned
        <3>2. r.id \in DOMAIN rows' /\ SameRow(rows[r.id], rows'[r.id]) /\ rows'[r.id] = rows[r.id]
            BY <1>1, <2>1, <2>2, <2>3, <3>1, OwnedStay
        <3> QED
            BY <2>2, <2>3, <3>2, FilesStay
    <2>4. PICK d : d = Head(worker.dirs)
        OBVIOUS
    <2>5. Listing(d)' = Listing(d)
        BY <1>3, ListingStays
    <2> QED
        BY <1>3, <2>1, <2>2, <2>3, <2>4, <2>5 DEF Makings
<1>4. CASE call'[Worker] = call[Worker] /\ worker' = worker
    BY <1>2, <1>3, <1>4
<1>5. ASSUME TreeMove(Worker), QueueStill PROVE Makings'
    <2>1. call[Worker] # Idle
        BY <1>1, <1>5 DEF TreeMove, Creating, Moving
    <2>2. call[Worker].at \in Creating
        BY <1>5, <2>1 DEF TreeMove, Makings, Creating, Moving
    <2>3. PICK r : r = call'[Worker]
        OBVIOUS
    <2>4. ASSUME r # Idle
          PROVE  /\ r.at \in Creating \cup {"store"} /\ r.kind = call[Worker].kind
                 /\ r.path = call[Worker].path /\ r.name = call[Worker].name
                 /\ r.text = call[Worker].text
        BY <1>5, <2>2, <2>3, <2>4 DEF TreeMove, SameCall
    <2>5. r # Idle => r.at # "done"
        BY <2>4 DEF Creating
    <2>6. PICK d : d = Head(worker.dirs)
        OBVIOUS
    <2>7. Listing(d)' = Listing(d) /\ worker' = worker
        BY <1>5, ListingStays DEF QueueStill
    <2> QED
        BY <2>1, <2>3, <2>4, <2>5, <2>6, <2>7 DEF Makings
<1>6. ASSUME Storing(Worker) PROVE Makings'
    <2>1. call[Worker] # Idle /\ call[Worker].at = "store" /\ worker' = worker
        BY <1>1, <1>6 DEF Storing, QueueStill
    <2>2. CASE call'[Worker] = Idle
        BY <2>2 DEF Makings
    <2>3. CASE call'[Worker] # Idle
        <3>1. PICK r : r = call'[Worker]
            OBVIOUS
        <3>2. r.at = "done" /\ SameAim(r, call[Worker])
            BY <1>1, <1>6, <2>3, <3>1 DEF Storing, Spoke
        <3>3. /\ r.kind = "file" /\ r.path = call[Worker].path /\ r.name = call[Worker].name
              /\ r.text = call[Worker].text /\ r.id = call[Worker].id
            BY <2>1, <3>2 DEF SameAim, Makings
        <3>4. r.id \in Files(r.path, r.name)
            BY <1>1, <2>1, <3>3 DEF Creations, Makings
        <3>5. SameShape(rows, rows') /\ rows'[r.id].text = r.text
            BY <1>6, <2>3, <3>3 DEF Storing
        <3>6. r.id \in Files(r.path, r.name)'
            <4>1. r.id \in DOMAIN rows' /\ SameRow(rows[r.id], rows'[r.id])
                BY <3>4, <3>5, FilesMeaning DEF SameShape
            <4> QED
                BY <3>4, <4>1, FilesStay
        <3>7. PICK d : d = Head(worker.dirs)
            OBVIOUS
        <3>8. Listing(d)' = Listing(d)
            BY <2>1, ListingStays
        <3> QED
            BY <2>1, <3>1, <3>2, <3>3, <3>5, <3>6, <3>7, <3>8 DEF Makings
    <2> QED
        BY <2>2, <2>3
<1>7. ~Writing(Worker) /\ ~Deleting(Worker) /\ ~Sending(Worker)
    <2>1. ~Writing(Worker) /\ ~Deleting(Worker)
        BY <1>1 DEF Writing, Deleting, Makings, Creating
    <2> QED
        BY <1>1, <2>1 DEF Sending, CallNos
<1>8. ASSUME NEW c \in Callers, c # Worker,
             \/ Started(c) /\ QueueStill
             \/ TreeMove(c) /\ QueueStill
             \/ Storing(c) \/ Writing(c) \/ Deleting(c) \/ Sending(c)
      PROVE  Makings'
    <2>1. call'[Worker] = call[Worker] /\ worker' = worker
        BY <1>1, <1>8 DEF Started, TreeMove, Storing, Writing, Deleting, Sending, Spoke, Said, QueueStill
    <2> QED
        BY <1>4, <2>1
<1>9. CASE Index
    <2>1. /\ IndexPasses \/ IndexMakes \/ IndexReads
          /\ worker.at = "index" /\ worker'.refs = worker.refs
        BY <1>1, <1>9, IndexShape
    <2>2. call[Worker] = Idle
        BY <2>1 DEF Makings
    <2>3. CASE IndexPasses \/ IndexReads
        BY <1>2, <2>2, <2>3 DEF IndexPasses, IndexReads
    <2>4. CASE IndexMakes
        <3>1. PICK d : d = Head(worker.dirs)
            OBVIOUS
        <3>2. PICK r : r = call'[Worker]
            OBVIOUS
        <3>3. r.kind = "file" /\ r.at = "exists" /\ r.path = d /\ r.name = "index.md"
              /\ r.text.listed = Listing(d)
            BY <2>4, <3>1, <3>2 DEF IndexMakes, MakingFile
        <3>4. Listing(d)' = Listing(d)
            BY <2>1, ListingStays
        <3>5. worker'.at = "making" /\ worker'.dirs = worker.dirs
            BY <2>4 DEF IndexMakes
        <3> QED
            BY <3>1, <3>2, <3>3, <3>4, <3>5 DEF Makings, Creating
    <2> QED
        BY <2>1, <2>3, <2>4
<1>10. CASE Log
    <2>1. /\ worker.at = "log"
          /\ \/ MakingFile(TheEvent.path, "log.md", {}) /\ worker'.at = "making log"
             \/ call' = call
        BY <1>1, <1>10, LogShape
    <2>2. call[Worker] = Idle
        BY <2>1 DEF Makings
    <2> QED
        BY <1>2, <2>1, <2>2 DEF Makings, MakingFile, Creating
<1>11. ASSUME MadeIt PROVE Makings'
    BY <1>11 DEF MadeIt, Makings
<1>12. ASSUME call' = call, worker.at \notin {"making", "making log"} PROVE Makings'
    BY <1>2, <1>12 DEF Makings
<1>13. ASSUME SavedIt \/ Take \/ Finish, worker.at # "making" /\ worker.at # "making log"
       PROVE Makings'
    BY <1>12, <1>13 DEF SavedIt, Take, Rests, treeVars, Finish
<1>14. ASSUME Throws, worker.at \in {"making", "making log"} => call[Worker] = Idle PROVE Makings'
    BY <1>2, <1>12, <1>14 DEF Throws
<1>15. Tick => Makings'
    BY <1>4 DEF Tick, treeVars
<1>16. \A c \in Users : c \in Callers /\ c # Worker
    BY DEF Users
<1>17. CASE \E c \in Callers : TreeMove(c) /\ QueueStill
    BY <1>5, <1>8, <1>17
<1>18. CASE \E c \in Callers : Storing(c) \/ Writing(c) \/ Deleting(c) \/ Sending(c)
    BY <1>6, <1>7, <1>8, <1>18
<1>19. CASE \E c \in Users : Started(c) /\ QueueStill
    BY <1>8, <1>16, <1>19
<1>20. Take => worker.at = "idle"
    BY DEF Take
<1>21. Finish => worker.at = "finish"
    BY DEF Finish
<1> QED
    BY <1>9, <1>10, <1>11, <1>13, <1>14, <1>15, <1>17, <1>18, <1>19, <1>20, <1>21 DEF Shapes

-----------------------------------------------------------------------------
(* Who sees to a concept n, called m in folder p, getting its bullet.      *)

About(e, p, m) == e.key = p /\ e.path = p /\ e.name = m

\* A delete will take it; it has its bullet, which no job takes away; it is
\* being created; a call will send an event about it; or such an event is
\* queued behind the deletes of an earlier file of that name, and if the worker
\* is at it, it has yet to see to the folder and has seen the concept there.
Condemned(n) == \E c \in Callers : call[c].kind = "delete" /\ n \in call[c].todo

Bullets(k, n) ==
    /\ k \in Nodes /\ ~rows[k].folder /\ rows[k].name = "index.md"
    /\ rows[k].parent = rows[n].parent /\ rows[n].name \in rows[k].text.listed
Bulleted(n) == \E k \in DOMAIN rows : Bullets(k, n)

Removing(p, m) == \E i \in DOMAIN jobs : jobs[i].ev.kind = "delete" /\ About(jobs[i].ev, p, m)
Announced(p, m) ==
    \E c \in Callers : \E e \in call[c].tell : e.kind # "delete" /\ About(e, p, m)

ToDo(p, m) ==
    /\ worker.at \in {"index", "making", "merge"}
    /\ \E i \in DOMAIN worker.dirs : worker.dirs[i] = p
    /\ [path |-> p, name |-> m] \in worker.refs
QueuedAt(i, p, m) ==
    /\ jobs[i].ev.kind # "delete" /\ About(jobs[i].ev, p, m)
    /\ \A k \in DOMAIN jobs : jobs[k].ev.kind = "delete" /\ About(jobs[k].ev, p, m) => k < i
Queued(p, m) == \E i \in DOMAIN jobs : QueuedAt(i, p, m) /\ (Running(i) => ToDo(p, m))

Cared(n, p, m) ==
    \/ Condemned(n)
    \/ Bulleted(n) /\ ~Removing(p, m)
    \/ Created(n)
    \/ Announced(p, m)
    \/ Queued(p, m)

AllCared ==
    \A n, p, m : Concept(n) /\ rows[n].path = p /\ rows[n].name = m => Cared(n, p, m)

LEMMA CondemnedStay ==
    ASSUME Sound, Shapes, NEW n, Concept(n)', Condemned(n)
    PROVE  Condemned(n)'
<1>1. PICK d \in Callers : call[d].kind = "delete" /\ n \in call[d].todo
    BY DEF Condemned
<1>2. /\ call[d] # Idle /\ CallFacts(call[d], rows) /\ Idle.kind = "none" /\ OkfInv
    BY <1>1 DEF Sound, Facts, Busy, Idle
<1>3. call[d].at \in {"tell", "remove"}
    BY <1>1, <1>2 DEF CallFacts, StageFacts
<1>4. ASSUME call'[d].kind = "delete", call'[d].todo = call[d].todo PROVE Condemned(n)'
    BY <1>1, <1>4 DEF Condemned
<1>5. ASSUME NEW c \in Callers, Deleting(c) PROVE call'[d] = call[d]
    <2>1. d # c
        BY <1>1, <1>5 DEF Deleting, Concept, Nodes
    <2> QED
        BY <1>5, <2>1 DEF Deleting
<1>6. ASSUME NEW c \in Callers, TreeMove(c) PROVE Condemned(n)'
    <2>1. CASE c # d
        BY <1>1, <1>4, <1>6, <2>1 DEF TreeMove
    <2>2. CASE c = d
        <3>1. call[d].at = "tell" /\ call'[d] # Idle
            BY <1>3, <1>6, <2>2 DEF TreeMove, Creating, Moving
        <3>2. call'[d].kind = call[d].kind /\ call'[d].todo = call[d].todo
            BY <1>6, <2>2, <3>1 DEF TreeMove, SameCall
        <3> QED
            BY <1>1, <1>4, <3>2
    <2> QED
        BY <2>1, <2>2
<1>7. ASSUME NEW c \in Callers, Started(c) \/ Storing(c) \/ Writing(c) PROVE call'[d] = call[d]
    <2>1. c # d
        BY <1>2, <1>3, <1>7 DEF Started, Storing, Writing
    <2> QED
        BY <1>7, <2>1 DEF Started, Storing, Writing, Spoke
<1>8. ASSUME NEW c \in Callers, Sending(c) PROVE Condemned(n)'
    BY <1>1, <1>4, <1>8 DEF Sending, Said, SameAim
<1>9. ASSUME Index \/ Log PROVE call'[d] = call[d]
    <2>1. call' = call \/ \E p, m, l : MakingFile(p, m, l)
        BY <1>2, <1>9, IndexShape, LogShape DEF IndexPasses, IndexMakes, IndexReads
    <2> QED
        BY <1>2, <2>1 DEF MakingFile
<1>10. ASSUME MadeIt PROVE call'[d] = call[d]
    BY <1>3, <1>10 DEF MadeIt
<1>11. SavedIt \/ Throws \/ Take \/ Finish \/ Tick => call'[d] = call[d]
    BY DEF SavedIt, Throws, Take, Rests, treeVars, Finish, Tick
<1>12. Users \subseteq Callers
    BY DEF Users
<1>13. call'[d] = call[d] => Condemned(n)'
    BY <1>1, <1>4
<1> QED
    BY <1>5, <1>6, <1>7, <1>8, <1>9, <1>10, <1>11, <1>12, <1>13 DEF Shapes

\* An event that is sent is queued.
LEMMA SendingQueues ==
    ASSUME Sound, NEW c \in Callers, NEW e \in call[c].tell, Joined(e), worker' = worker,
           NEW p, NEW m, e.kind # "delete", About(e, p, m)
    PROVE  Queued(p, m)'
<1>1. OkfInv /\ QueueKept /\ ~Has(jobs, e)
    BY DEF Sound, QueueKept, CallNos
<1>0. PICK i : i = Len(jobs) + 1
    OBVIOUS
<1>2. /\ DOMAIN jobs' = 1 .. i /\ DOMAIN jobs = 1 .. Len(jobs) /\ Len(jobs) \in Nat
      /\ \A k \in DOMAIN jobs : jobs'[k] = jobs[k]
      /\ jobs'[i].ev = e /\ \A k \in DOMAIN jobs' : k \in DOMAIN jobs \/ k = i
    BY <1>0, <1>1, JoinMeaning
<1>3. i \in DOMAIN jobs' /\ \A k \in DOMAIN jobs : k < i
    BY <1>0, <1>2
<1>4. TheEvent' = TheEvent /\ worker'.at = worker.at
    BY SameJob
<1>5. ~Running(i)'
    <2>1. worker.at # "idle" => Has(jobs, TheEvent)
        BY <1>1, TheJobTypes
    <2> QED
        BY <1>1, <1>2, <1>4, <2>1 DEF Running
<1>6. \A k \in DOMAIN jobs' : jobs'[k].ev.kind = "delete" => k < i
    BY <1>2, <1>3
<1>7. QueuedAt(i, p, m)'
    BY <1>2, <1>6 DEF QueuedAt
<1> QED
    BY <1>3, <1>5, <1>7 DEF Queued

LEMMA AnnouncedStay ==
    ASSUME Sound, Shapes, NEW p, NEW m, Announced(p, m)
    PROVE  Announced(p, m)' \/ Queued(p, m)'
<1>0. PICK d \in Callers : \E e \in call[d].tell : e.kind # "delete" /\ About(e, p, m)
    BY DEF Announced
<1>1. PICK e \in call[d].tell : e.kind # "delete" /\ About(e, p, m)
    BY <1>0
<1>2. /\ call[d].at = "tell" /\ call[d] # Idle /\ OkfInv
    BY <1>1 DEF Sound, QueueKept, CallNos, Idle
<1>3. ASSUME e \in call'[d].tell PROVE Announced(p, m)'
    BY <1>1, <1>3 DEF Announced
<1>4. ASSUME NEW c \in Callers,
             Started(c) \/ TreeMove(c) \/ Storing(c) \/ Writing(c) \/ Deleting(c)
      PROVE  call'[d] = call[d]
    <2>1. c # d
        BY <1>1, <1>2, <1>4 DEF Started, TreeMove, Storing, Writing, Deleting, Creating, Moving
    <2> QED
        BY <1>4, <2>1 DEF Started, TreeMove, Storing, Writing, Deleting, Spoke
<1>5. ASSUME NEW c \in Callers, Sending(c) PROVE Announced(p, m)' \/ Queued(p, m)'
    <2>1. PICK f \in call[c].tell : /\ Said(c, f) /\ Joined(f) /\ worker' = worker
                                    /\ call'[c] = Idle => call[c].tell \ {f} = {}
        BY <1>5 DEF Sending
    <2>2. CASE e \in call'[d].tell
        BY <1>3, <2>2
    <2>3. CASE e \notin call'[d].tell
        <3>1. d = c
            BY <1>1, <2>1, <2>3 DEF Said
        <3>2. e = f
            BY <1>1, <2>1, <2>3, <3>1 DEF Said
        <3> QED
            BY <1>1, <2>1, <3>2, SendingQueues
    <2> QED
        BY <2>2, <2>3
<1>6. ASSUME Index \/ Log PROVE call'[d] = call[d]
    <2>1. call' = call \/ \E q, k, l : MakingFile(q, k, l)
        BY <1>2, <1>6, IndexShape, LogShape DEF IndexPasses, IndexMakes, IndexReads
    <2> QED
        BY <1>2, <2>1 DEF MakingFile
<1>7. ASSUME MadeIt PROVE call'[d] = call[d]
    BY <1>2, <1>7 DEF MadeIt
<1>8. SavedIt \/ Throws \/ Take \/ Finish \/ Tick => call'[d] = call[d]
    BY DEF SavedIt, Throws, Take, Rests, treeVars, Finish, Tick
<1>9. Users \subseteq Callers
    BY DEF Users
<1>10. call'[d] = call[d] => Announced(p, m)'
    BY <1>1, <1>3
<1> QED
    BY <1>4, <1>5, <1>6, <1>7, <1>8, <1>9, <1>10 DEF Shapes

\* Beside a concept that stays no index.md is deleted.
LEMMA DeletedTogether ==
    ASSUME Sound, Settled, Deletions, NEW c \in Callers, Deleting(c),
           NEW n, Concept(n), n \notin call[c].todo, NEW k, Bullets(k, n)
    PROVE  k \notin call[c].todo
<1> DEFINE i == call[c].id
<1>1. /\ OkfInv /\ RowsOK(rows) /\ call[c].at = "remove" /\ call[c].kind = "delete"
      /\ call[c] # Idle /\ ~Shifting(call[c])
      /\ n \in DOMAIN rows /\ rows[n].there /\ ~rows[n].folder
      /\ k \in DOMAIN rows /\ rows[k].there /\ ~rows[k].folder /\ rows[k].name = "index.md"
      /\ rows[k].parent = rows[n].parent /\ "index.md" \notin Concepts
    BY TreeAssumption DEF Sound, OkfInv, TreeInv, Deleting, Idle, Shifting, Concept, Nodes, Bullets
<1>2. IsTree(rows) /\ CallFacts(call[c], rows)
    BY <1>1, Planted DEF Sound, Facts, Busy
<1>3. CASE call[c].folder
    <2>1. i \in DOMAIN rows /\ rows[i].there /\ call[c].todo = {i} \cup Under(rows, i)
        BY <1>1, <1>2, <1>3 DEF CallFacts, OnFolder, FolderFacts
    <2>2. rows[i].folder
        BY <1>1, <1>3, <2>1 DEF Deletions
    <2>3. rows[n].path = rows[k].path
        BY <1>1, <1>2, SameFolder
    <2>4. k \in Under(rows, i) => n \in Under(rows, i)
        BY <1>1, <2>3 DEF Under
    <2> QED
        BY <1>1, <2>1, <2>2, <2>4
<1>4. CASE ~call[c].folder
    <2>1. call[c].todo = {i}
        BY <1>1, <1>2, <1>4 DEF CallFacts, OnFolder, FileFacts
    <2>2. rows[i].name \in Concepts
        BY <1>4 DEF Deleting
    <2> QED
        BY <1>1, <2>1, <2>2
<1> QED
    BY <1>3, <1>4

LEMMA NewListed ==
    ASSUME OkfInv
    PROVE  NewText.listed = IF worker.at = "merge" THEN Merged(TheEvent, worker.text.listed)
                            ELSE worker.text.listed
<1>1. worker.text \in Text
    BY DEF OkfInv, WorkerOK, Working
<1> QED
    BY <1>1 DEF NewText, Text

\* A save by maintenance is of the text it read.
LEMMA SavedListed ==
    ASSUME Sound, SavedIt, odd' \cap Excuses = {}
    PROVE  rows'[worker.node].text.listed =
             IF worker.at = "merge" THEN Merged(TheEvent, rows[worker.node].text.listed)
             ELSE rows[worker.node].text.listed
<1>1. rows[worker.node].text = worker.text
    BY DEF SavedIt, Excuses
<1> QED
    BY <1>1, SavedMeaning, NewListed DEF Sound

\* A bullet stays, unless it is taken away.
LEMMA BulletStays ==
    ASSUME Sound, Settled, odd' \cap Excuses = {}, Shapes, Deletions,
           NEW n, Concept(n), Concept(n)', rows'[n].parent = rows[n].parent,
           rows'[n].name = rows[n].name, NEW k, Bullets(k, n)
    PROVE  \/ Bullets(k, n)'
           \/ /\ SavedIt /\ RunsOn /\ worker.at = "merge" /\ k = worker.node
              /\ TheEvent.kind = "delete" /\ TheEvent.name = rows[n].name
<1>1. /\ k \in DOMAIN rows /\ rows[k].there /\ ~rows[k].folder /\ rows[k].name = "index.md"
      /\ rows[k].parent = rows[n].parent /\ rows[n].name \in rows[k].text.listed
      /\ "index.md" \notin Concepts /\ OkfInv /\ n \in DOMAIN rows
    BY TreeAssumption DEF Bullets, Sound, Nodes, Concept
<1>2. ASSUME k \in DOMAIN rows', rows'[k].there, ~rows'[k].folder, rows'[k].name = "index.md",
             rows'[k].parent = rows[k].parent, rows[n].name \in rows'[k].text.listed
      PROVE  Bullets(k, n)'
    BY <1>1, <1>2 DEF Bullets, Nodes
<1>3. ASSUME k \in DOMAIN rows', rows'[k] = rows[k] PROVE Bullets(k, n)'
    BY <1>1, <1>2, <1>3
<1>4. ASSUME rows' = rows PROVE Bullets(k, n)'
    BY <1>1, <1>3, <1>4
<1>5. ASSUME NEW c \in Callers, TreeMove(c) PROVE Bullets(k, n)'
    <2>1. CASE Added(rows, rows', call[c], call'[c])
        BY <1>1, <1>3, <2>1, AddedMeaning
    <2>2. CASE Resettled(rows, rows')
        BY <1>1, <1>2, <2>2 DEF Resettled
    <2> QED
        BY <1>4, <1>5, <2>1, <2>2 DEF TreeMove
<1>6. ASSUME NEW c \in Callers, Storing(c) PROVE Bullets(k, n)'
    <2>1. CASE rows' # rows
        <3> DEFINE i == call[c].id
        <3>1. /\ SameShape(rows, rows') /\ rows[i].text.listed \subseteq rows'[i].text.listed
              /\ \A j \in DOMAIN rows : j # i => rows'[j] = rows[j]
            BY <1>6, <2>1 DEF Storing
        <3>2. k \in DOMAIN rows' /\ SameRow(rows[k], rows'[k])
            BY <1>1, <3>1 DEF SameShape
        <3>3. rows[n].name \in rows'[k].text.listed
            BY <1>1, <3>1
        <3> QED
            BY <1>1, <1>2, <3>2, <3>3 DEF SameRow
    <2> QED
        BY <1>4, <2>1
<1>7. ASSUME NEW c \in Callers, Writing(c) PROVE Bullets(k, n)'
    <2>1. CASE rows' # rows
        <3> DEFINE i == call[c].id
        <3>1. /\ DOMAIN rows' = DOMAIN rows /\ rows[i].folder = call[c].folder
              /\ \A j \in DOMAIN rows : j # i => rows'[j] = rows[j]
              /\ ~call[c].folder => rows[i].name \in Concepts
            BY <1>7, <2>1 DEF Writing
        <3>2. k # i
            BY <1>1, <3>1
        <3> QED
            BY <1>1, <1>3, <3>1, <3>2
    <2> QED
        BY <1>4, <2>1
<1>8. ASSUME NEW c \in Callers, Deleting(c) PROVE Bullets(k, n)'
    <2>1. n \notin call[c].todo
        BY <1>1, <1>8 DEF Deleting, Concept, Nodes
    <2>2. k \notin call[c].todo
        BY <1>8, <2>1, DeletedTogether
    <2> QED
        BY <1>1, <1>3, <1>8, <2>2 DEF Deleting
<1>9. ASSUME SavedIt, RunsOn
      PROVE  \/ Bullets(k, n)'
             \/ /\ worker.at = "merge" /\ k = worker.node
                /\ TheEvent.kind = "delete" /\ TheEvent.name = rows[n].name
    <2>1. k \in DOMAIN rows' /\ SameRow(rows[k], rows'[k])
        BY <1>1, <1>9, SavedMeaning
    <2>2. CASE k # worker.node
        BY <1>1, <1>3, <1>9, <2>1, <2>2, SavedMeaning
    <2>3. CASE k = worker.node /\ rows[n].name \in rows'[k].text.listed
        BY <1>1, <1>2, <2>1, <2>3 DEF SameRow
    <2>4. CASE k = worker.node /\ rows[n].name \notin rows'[k].text.listed
        <3>1. rows'[k].text.listed = IF worker.at = "merge" THEN Merged(TheEvent, rows[k].text.listed)
                                     ELSE rows[k].text.listed
            BY <1>9, <2>4, SavedListed
        <3> QED
            BY <1>1, <2>4, <3>1 DEF Merged
    <2> QED
        BY <2>2, <2>3, <2>4
<1>10. ASSUME NEW c \in Callers, Sending(c) \/ Started(c) PROVE rows' = rows
    BY <1>10 DEF Sending, Said, Started
<1>11. Index \/ Log => rows' = rows
    BY <1>1, IndexShape, LogShape DEF IndexPasses, IndexMakes, IndexReads, MakingFile
<1>12. Take \/ MadeIt \/ Throws \/ Finish \/ Tick => rows' = rows
    BY DEF Take, Rests, treeVars, MadeIt, Throws, Finish, Tick
<1>13. Users \subseteq Callers
    BY DEF Users
<1> QED
    BY <1>4, <1>5, <1>6, <1>7, <1>8, <1>9, <1>10, <1>11, <1>12, <1>13 DEF Shapes

\* Events come into the queue by being sent.
LEMMA EventsBefore ==
    ASSUME Sound, Sound', Shapes, odd' \cap Excuses = {}, NEW i \in DOMAIN jobs',
           \A c \in Callers : ~(Sending(c) /\ jobs'[i].ev \in call[c].tell)
    PROVE  \E k \in DOMAIN jobs : jobs[k].ev = jobs'[i].ev
<1>1. OkfInv /\ QueueKept /\ JobNos
    BY DEF Sound, QueueKept
<1>2. ASSUME DOMAIN jobs' = DOMAIN jobs, \A k \in DOMAIN jobs : jobs'[k].ev = jobs[k].ev
      PROVE  \E k \in DOMAIN jobs : jobs[k].ev = jobs'[i].ev
    BY <1>2
<1>3. ASSUME NEW c \in Callers, Sending(c) PROVE \E k \in DOMAIN jobs : jobs[k].ev = jobs'[i].ev
    <2>1. PICK e \in call[c].tell : Joined(e)
        BY <1>3 DEF Sending
    <2>2. jobs'[i].ev # e
        BY <1>3, <2>1
    <2> QED
        BY <1>1, <2>1, <2>2, JoinMeaning
<1>4. Take => \E k \in DOMAIN jobs : jobs[k].ev = jobs'[i].ev
    <2> HAVE Take
    <2>1. PICK k \in DOMAIN jobs : /\ DOMAIN jobs' = DOMAIN jobs /\ jobs'[k].ev = jobs[k].ev
                                   /\ \A j \in DOMAIN jobs \ {k} : jobs'[j] = jobs[j]
        BY <1>1, Taking
    <2> QED
        BY <1>2, <2>1
<1>5. ASSUME Throws, worker.at # "idle" PROVE \E k \in DOMAIN jobs : jobs[k].ev = jobs'[i].ev
    BY <1>1, <1>2, <1>5, ThrowsShape
<1>6. Finish => \E k \in DOMAIN jobs : jobs[k].ev = jobs'[i].ev
    <2> HAVE Finish
    <2>1. jobs' = RemoveAt(jobs, Place(TheJob)) /\ worker.at # "idle"
        BY DEF Finish, Others
    <2>2. Place(TheJob) \in DOMAIN jobs /\ jobs \in Seq(Job)
        BY <1>1, <2>1, PlaceMeaning, JobsMeaning
    <2>3. PICK g \in [DOMAIN jobs' -> DOMAIN jobs] : \A k \in DOMAIN jobs' : jobs'[k] = jobs[g[k]]
        BY <2>1, <2>2, RemoveEmbeds
    <2> QED
        BY <2>3
<1>7. Tick => \E k \in DOMAIN jobs : jobs[k].ev = jobs'[i].ev
    <2> HAVE Tick
    <2>1. jobs' = [k \in DOMAIN jobs |-> [jobs[k] EXCEPT !.wait = FALSE]]
        BY DEF Tick
    <2>2. ASSUME NEW k \in DOMAIN jobs PROVE jobs'[k].ev = jobs[k].ev
        <3>1. jobs[k] \in Job
            BY <1>1, JobsMeaning
        <3> QED
            BY <2>1, <3>1 DEF Job
    <2> QED
        BY <1>2, <2>1, <2>2
<1>8. jobs' = jobs => \E k \in DOMAIN jobs : jobs[k].ev = jobs'[i].ev
    BY <1>2
<1> QED
    BY <1>3, <1>4, <1>5, <1>6, <1>7, <1>8 DEF Shapes, QueueStill, Storing, Writing, Deleting, RunsOn

\* A delete is announced of the very concept.
LEMMA SendingDelete ==
    ASSUME Sound, Settled, Deletions, NEW c \in Callers, NEW e \in call[c].tell, e.kind = "delete",
           NEW n, Concept(n), NEW p, NEW m, rows[n].path = p, rows[n].name = m, About(e, p, m)
    PROVE  Condemned(n)
<1>1. call[c].kind = "delete" /\ call[c].at = "tell" /\ call[c] # Idle /\ ~Shifting(call[c])
    BY DEF Sound, QueueKept, CallNos, Deletions, Idle, Shifting
<1>2. PICK k \in call[c].todo : k \in Files(p, m)
    BY DEF Deletions, About
<1>3. IsTree(rows)
    BY <1>1, Planted
<1>4. n \in DOMAIN rows /\ rows[n].there /\ AtPlace(rows, k, p, m) /\ k \in DOMAIN rows
    BY <1>2, FilesMeaning DEF Concept, Nodes, AtPlace
<1>5. Placed(rows, n)
    BY <1>3, <1>4, TreeMeaning
<1>6. k = n
    BY <1>4, <1>5 DEF Placed
<1> QED
    BY <1>1, <1>2, <1>6 DEF Condemned

\* The job that runs is queued.
LEMMA RunningJob ==
    ASSUME Sound, worker.at # "idle"
    PROVE  \E i \in DOMAIN jobs : jobs[i].ev = TheEvent /\ Running(i) /\ jobs[i].active
                                   /\ EventOK(TheEvent)
<1>1. OkfInv /\ JobNos /\ OneRuns
    BY DEF Sound, QueueKept
<1>2. Place(TheJob) \in DOMAIN jobs /\ jobs[Place(TheJob)].ev = TheEvent
    BY <1>1, PlaceMeaning
<1>3. PICK i \in DOMAIN jobs : jobs[i].ev = TheEvent
    BY <1>2
<1>4. Running(i)
    BY <1>3 DEF Running
<1> QED
    BY <1>1, <1>3, <1>4 DEF OneRuns, JobNos

LEMMA HeadMeaning ==
    ASSUME OkfInv, worker.at \in {"index", "making", "merge"}
    PROVE  /\ 1 \in DOMAIN worker.dirs /\ Head(worker.dirs) = worker.dirs[1]
           /\ \A i \in DOMAIN worker.dirs :
                i # 1 => i - 1 \in DOMAIN Tail(worker.dirs)
                         /\ Tail(worker.dirs)[i - 1] = worker.dirs[i] /\ Tail(worker.dirs) # <<>>
<1>1. PICK s : s = worker.dirs
    OBVIOUS
<1>2. s \in Seq(Seq(FolderNames)) /\ s # <<>>
    BY <1>1 DEF OkfInv, WorkerOK, Working
<1>3. DOMAIN s = 1 .. Len(s) /\ Len(s) \in Nat /\ Len(s) > 0 /\ Head(s) = s[1]
    BY <1>2
<1>4. DOMAIN Tail(s) = 1 .. (Len(s) - 1) /\ \A i \in 1 .. (Len(s) - 1) : Tail(s)[i] = s[i + 1]
    BY <1>2, <1>3
<1>5. ASSUME NEW i \in DOMAIN s, i # 1
      PROVE  i - 1 \in DOMAIN Tail(s) /\ Tail(s)[i - 1] = s[i] /\ Tail(s) # <<>>
    <2>1. i - 1 \in 1 .. (Len(s) - 1) /\ (i - 1) + 1 = i
        BY <1>3, <1>5
    <2>2. i - 1 \in DOMAIN Tail(s) /\ Tail(s)[i - 1] = s[i]
        BY <1>4, <2>1
    <2> QED
        BY <2>2
<1> QED
    BY <1>1, <1>3, <1>5

\* A bullet that no queued delete threatens stays, unless a delete is sent now.
LEMMA BulletedStay ==
    ASSUME Sound, Sound', Settled, odd' \cap Excuses = {}, Shapes, Deletions, Merges,
           NEW n, Concept(n), Concept(n)', SameRow(rows[n], rows'[n]),
           NEW p, NEW m, rows[n].path = p, rows[n].name = m,
           Bulleted(n), ~Removing(p, m)
    PROVE  Condemned(n)' \/ (Bulleted(n)' /\ ~Removing(p, m)')
<1>1. CASE Removing(p, m)'
    <2>1. PICK i \in DOMAIN jobs' : jobs'[i].ev.kind = "delete" /\ About(jobs'[i].ev, p, m)
        BY <1>1 DEF Removing
    <2>2. CASE \E c \in Callers : Sending(c) /\ jobs'[i].ev \in call[c].tell
        <3>1. Condemned(n)
            BY <2>1, <2>2, SendingDelete
        <3> QED
            BY <3>1, CondemnedStay
    <2>3. CASE ~\E c \in Callers : Sending(c) /\ jobs'[i].ev \in call[c].tell
        <3>1. PICK k \in DOMAIN jobs : jobs[k].ev = jobs'[i].ev
            BY <2>3, EventsBefore
        <3>2. Removing(p, m)
            BY <2>1, <3>1 DEF Removing
        <3> QED
            BY <3>2
    <2> QED
        BY <2>2, <2>3
<1>2. CASE ~Removing(p, m)'
    <2>1. PICK k \in DOMAIN rows : Bullets(k, n)
        BY DEF Bulleted
    <2>2. ASSUME SavedIt, worker.at = "merge", k = worker.node,
                 TheEvent.kind = "delete", TheEvent.name = m
          PROVE  FALSE
        <3>1. OkfInv /\ QueueKept /\ RowsOK(rows)
            BY DEF Sound, OkfInv, TreeInv
        <3>2. PICK i \in DOMAIN jobs : jobs[i].ev = TheEvent /\ EventOK(TheEvent)
            BY <2>2, RunningJob
        <3>3. TheEvent.from = TheEvent.path /\ TheEvent.key = TheEvent.path
            BY <2>2, <3>2 DEF EventOK, Single
        <3>4. Head(worker.dirs) = TheEvent.path
            BY <2>2, <3>1, <3>3, HeadMeaning DEF Merges
        <3>5. /\ k \in DOMAIN rows /\ rows[k].there /\ rows[k].parent = rows[n].parent
              /\ n \in DOMAIN rows /\ rows[n].there
            BY <2>1 DEF Bullets, Nodes, Concept
        <3>6. k \in Files(TheEvent.path, "index.md")
            BY <2>2, <3>4, <3>5 DEF Merges
        <3>7. rows[k].path = TheEvent.path
            BY <3>6, FilesMeaning
        <3>8. IsTree(rows)
            BY <2>2, <3>1, WorkHasJobs, Planted
        <3>9. rows[k].path = p
            BY <3>1, <3>5, <3>8, SameFolder
        <3>10. About(TheEvent, p, m)
            BY <2>2, <3>3, <3>7, <3>9 DEF About
        <3> QED
            BY <2>2, <3>2, <3>10 DEF Removing
    <2>3. rows'[n].parent = rows[n].parent /\ rows'[n].name = rows[n].name
        BY DEF SameRow
    <2>4. Bullets(k, n)'
        BY <2>1, <2>2, <2>3, BulletStays
    <2>5. k \in DOMAIN rows'
        BY <2>4 DEF Bullets, Nodes
    <2> QED
        BY <1>2, <2>4, <2>5 DEF Bulleted
<1> QED
    BY <1>1, <1>2

\* A concept that is being created is announced when it is stored.
LEMMA CreatedCared ==
    ASSUME Sound, Settled, Shapes, Creations, Makings,
           NEW n, Concept(n), Concept(n)', SameRow(rows[n], rows'[n]),
           NEW p, NEW m, rows[n].path = p, rows[n].name = m, Created(n)
    PROVE  Created(n)' \/ Announced(p, m)'
<1>1. PICK d \in Callers : Creation(call[d]) /\ call[d].id = n
    BY DEF Created
<1>2. /\ call[d].at = "store" /\ call[d].kind # "save" /\ call[d] # Idle
      /\ n \in Files(call[d].path, call[d].name)
    BY <1>1 DEF Creation, Creations, Idle
<1>3. call[d].path = p /\ call[d].name = m /\ m \in Concepts
    BY <1>2, FilesMeaning DEF Concept
<1>4. "index.md" \notin Concepts /\ "log.md" \notin Concepts
    BY TreeAssumption
<1>5. d # Worker
    BY <1>2, <1>3, <1>4 DEF Makings
<1>6. CASE Storing(d)
    <2>1. rows[n].there /\ rows'[n].there
        BY DEF Concept, Nodes
    <2>2. \E e \in call'[d].tell : e.kind = "create" /\ e.key = call[d].path
                                   /\ e.path = call[d].path /\ e.name = call[d].name
        BY <1>1, <1>2, <1>5, <1>6, <2>1 DEF Storing
    <2> QED
        BY <1>3, <2>2 DEF Announced, About
<1> QED
    BY <1>1, <1>6, CreatedStay

-----------------------------------------------------------------------------
(* A job for a concept stays queued until its run has seen to the bullet.  *)

\* The event of a job stays its event.
LEMMA SameEvsQueue ==
    ASSUME DOMAIN jobs' = DOMAIN jobs, \A k \in DOMAIN jobs : jobs'[k].ev = jobs[k].ev,
           NEW p, NEW m, NEW i \in DOMAIN jobs, QueuedAt(i, p, m),
           Running(i)' => ToDo(p, m)'
    PROVE  Queued(p, m)'
<1>1. i \in DOMAIN jobs' /\ QueuedAt(i, p, m)'
    BY DEF QueuedAt
<1> QED
    BY <1>1 DEF Queued

\* No delete waits in front of the job that runs.
LEMMA RunsFirst ==
    ASSUME Sound, NEW i \in DOMAIN jobs, Running(i), NEW p, NEW m, QueuedAt(i, p, m)
    PROVE  ~Removing(p, m)
<1> SUFFICES ASSUME NEW k \in DOMAIN jobs, jobs[k].ev.kind = "delete", About(jobs[k].ev, p, m)
             PROVE  FALSE
    BY DEF Removing
<1>1. k < i /\ jobs[i].active /\ OneRuns
    BY DEF QueuedAt, Sound, QueueKept, OneRuns
<1>2. jobs[k].ev.key = jobs[i].ev.key
    BY DEF QueuedAt, About
<1> QED
    BY <1>1, <1>2 DEF OneRuns

LEMMA OnwardToDo ==
    ASSUME OkfInv, worker' = OnToNext, NEW p, NEW m, ToDo(p, m), Head(worker.dirs) # p
    PROVE  ToDo(p, m)'
<1>1. PICK i \in DOMAIN worker.dirs : worker.dirs[i] = p
    BY DEF ToDo
<1>2. worker.at \in {"index", "making", "merge"} /\ [path |-> p, name |-> m] \in worker.refs
    BY DEF ToDo
<1>3. i # 1
    BY <1>1, <1>2, HeadMeaning
<1>4. i - 1 \in DOMAIN Tail(worker.dirs) /\ Tail(worker.dirs)[i - 1] = p /\ Tail(worker.dirs) # <<>>
    BY <1>1, <1>2, <1>3, HeadMeaning
<1>5. worker'.at = "index" /\ worker'.dirs = Tail(worker.dirs) /\ worker'.refs = worker.refs
    BY <1>4, OnToNextShape
<1> QED
    BY <1>2, <1>4, <1>5 DEF ToDo

\* An index.md in the folder of a concept, listing it, is its bullet.
LEMMA BulletMeaning ==
    ASSUME Sound, Settled, jobs # <<>>, NEW n, Concept(n), Concept(n)', SameRow(rows[n], rows'[n]),
           NEW p, NEW m, rows[n].path = p, rows[n].name = m, NEW k \in Files(p, "index.md"),
           k \in DOMAIN rows', SameRow(rows[k], rows'[k]), m \in rows'[k].text.listed
    PROVE  Bulleted(n)'
<1>1. /\ IsTree(rows) /\ RowsOK(rows) /\ n \in DOMAIN rows /\ rows[n].there
      /\ k \in DOMAIN rows /\ rows[k].there /\ ~rows[k].folder
      /\ rows[k].path = p /\ rows[k].name = "index.md"
    BY Planted, FilesMeaning DEF Sound, OkfInv, TreeInv, Concept, Nodes
<1>2. rows[n].parent = rows[k].parent
    BY <1>1, SameFolder
<1>3. Bullets(k, n)'
    BY <1>1, <1>2 DEF Bullets, SameRow, Nodes
<1> QED
    BY <1>3 DEF Bulleted

LEMMA IndexQueued ==
    ASSUME Sound, Index, RunsOn, NEW p, NEW m, ToDo(p, m), TheEvent.kind # "delete"
    PROVE  ToDo(p, m)'
<1>1. /\ OkfInv /\ (IndexPasses \/ IndexMakes \/ IndexReads)
      /\ worker.at = "index" /\ worker'.refs = worker.refs
    BY IndexShape DEF Sound
<1>2. CASE IndexPasses
    <2>1. worker' = OnToNext /\ Listing(Head(worker.dirs)) = {}
        BY <1>2 DEF IndexPasses
    <2>2. m \in Listing(p)
        BY DEF ToDo, Listing, ConceptsIn
    <2>3. Head(worker.dirs) # p
        BY <2>1, <2>2
    <2> QED
        BY <1>1, <2>1, <2>3, OnwardToDo
<1>3. CASE IndexMakes
    BY <1>1, <1>3 DEF IndexMakes, ToDo
<1>4. CASE IndexReads
    BY <1>1, <1>4 DEF IndexReads, ToDo
<1> QED
    BY <1>1, <1>2, <1>3, <1>4

LEMMA MadeQueued ==
    ASSUME Sound, Settled, MadeIt, RunsOn, Makings,
           NEW n, Concept(n), Concept(n)', SameRow(rows[n], rows'[n]), NEW p, NEW m,
           rows[n].path = p, rows[n].name = m, ToDo(p, m)
    PROVE  ToDo(p, m)' \/ Bulleted(n)'
<1>1. /\ OkfInv /\ worker.at = "making" /\ worker' = OnToNext /\ rows' = rows
      /\ call[Worker].at = "done" /\ jobs # <<>>
    BY WorkHasJobs DEF MadeIt, ToDo, Sound, RunsOn
<1>2. CASE Head(worker.dirs) # p
    BY <1>1, <1>2, OnwardToDo
<1>3. CASE Head(worker.dirs) = p
    <2>1. PICK r : r = call[Worker]
        OBVIOUS
    <2>2. r # Idle /\ r.at = "done"
        BY <1>1, <2>1 DEF Idle
    <2>3. /\ r.path = p /\ r.name = "index.md" /\ r.text.listed = Listing(p)
          /\ r.id \in Files(r.path, r.name) /\ rows[r.id].text.listed = r.text.listed
        BY <1>1, <1>3, <2>1, <2>2 DEF Makings
    <2>4. m \in Listing(p)
        BY DEF ToDo, Listing, ConceptsIn
    <2>5. r.id \in Files(p, "index.md") /\ r.id \in DOMAIN rows
        BY <2>3, FilesMeaning
    <2>6. SameRow(rows[r.id], rows'[r.id]) /\ r.id \in DOMAIN rows' /\ m \in rows'[r.id].text.listed
        BY <1>1, <2>3, <2>4, <2>5 DEF SameRow
    <2>7. Bulleted(n)'
        BY <1>1, <2>5, <2>6, BulletMeaning
    <2> QED
        BY <2>7
<1> QED
    BY <1>2, <1>3

LEMMA SavedQueued ==
    ASSUME Sound, Settled, odd' \cap Excuses = {}, SavedIt, RunsOn, Merges,
           NEW n, Concept(n), Concept(n)', SameRow(rows[n], rows'[n]), NEW p, NEW m,
           rows[n].path = p, rows[n].name = m, ToDo(p, m),
           TheEvent.kind # "delete", TheEvent.name = m
    PROVE  ToDo(p, m)' \/ Bulleted(n)'
<1>1. /\ OkfInv /\ worker.at = "merge" /\ worker' = OnToNext /\ jobs # <<>>
      /\ rows[worker.node].there
    BY WorkHasJobs DEF SavedIt, ToDo, Sound, RunsOn
<1>2. CASE Head(worker.dirs) # p
    BY <1>1, <1>2, OnwardToDo
<1>3. CASE Head(worker.dirs) = p
    <2>1. PICK k : k = worker.node
        OBVIOUS
    <2>2. k \in Files(p, "index.md")
        BY <1>1, <1>3, <2>1 DEF Merges
    <2>3. k \in DOMAIN rows' /\ SameRow(rows[k], rows'[k])
        BY <2>1, SavedMeaning
    <2>4. rows'[k].text.listed = Merged(TheEvent, rows[k].text.listed)
        BY <1>1, <2>1, SavedListed
    <2>5. m \in rows'[k].text.listed
        BY <2>4 DEF Merged
    <2>6. Bulleted(n)'
        BY <1>1, <2>2, <2>3, <2>5, BulletMeaning
    <2> QED
        BY <2>6
<1> QED
    BY <1>2, <1>3

LEMMA SendingQueued ==
    ASSUME Sound, Settled, Shapes, Deletions, NEW c \in Callers, Sending(c),
           NEW n, Concept(n), Concept(n)', NEW p, NEW m,
           rows[n].path = p, rows[n].name = m, Queued(p, m)
    PROVE  Condemned(n)' \/ Queued(p, m)'
<1>1. PICK i \in DOMAIN jobs : QueuedAt(i, p, m) /\ (Running(i) => ToDo(p, m))
    BY DEF Queued
<1>2. PICK e \in call[c].tell : Joined(e) /\ worker' = worker
    BY DEF Sending
<1>3. CASE e.kind = "delete" /\ About(e, p, m)
    BY <1>3, SendingDelete, CondemnedStay
<1>4. CASE ~(e.kind = "delete" /\ About(e, p, m))
    <2>1. OkfInv
        BY DEF Sound
    <2>2. /\ \A k \in DOMAIN jobs : jobs'[k] = jobs[k] /\ k \in DOMAIN jobs'
          /\ \A k \in DOMAIN jobs' : k \in DOMAIN jobs \/ jobs'[k].ev = e
        BY <1>2, <2>1, JoinMeaning
    <2>3. QueuedAt(i, p, m)'
        BY <1>1, <1>4, <2>2 DEF QueuedAt
    <2>4. Running(i)' => ToDo(p, m)'
        <3>1. TheEvent' = TheEvent
            BY <1>2, SameJob
        <3> QED
            BY <1>1, <1>2, <2>2, <3>1 DEF Running, ToDo
    <2> QED
        BY <1>1, <2>2, <2>3, <2>4 DEF Queued
<1> QED
    BY <1>3, <1>4

LEMMA TakingQueued ==
    ASSUME Sound, Settled, Shapes, Creations, Makings, Unstored, Take,
           NEW n, Concept(n), Concept(n)', SameRow(rows[n], rows'[n]), NEW p, NEW m,
           rows[n].path = p, rows[n].name = m, Queued(p, m)
    PROVE  Created(n)' \/ Announced(p, m)' \/ Queued(p, m)'
<1>1. PICK i \in DOMAIN jobs : QueuedAt(i, p, m)
    BY DEF Queued
<1>2. OkfInv /\ JobNos
    BY DEF Sound, QueueKept
<1>3. PICK t \in DOMAIN jobs :
             /\ DOMAIN jobs' = DOMAIN jobs /\ jobs'[t].ev = jobs[t].ev
             /\ \A k \in DOMAIN jobs \ {t} : jobs'[k] = jobs[k]
             /\ TheEvent' = jobs[t].ev
             /\ worker'.at = IF jobs[t].ev.name \in Concepts THEN "index" ELSE "finish"
             /\ worker'.dirs = Dirs(jobs[t].ev)
             /\ worker'.refs = {[path |-> rows[k].path, name |-> rows[k].name] :
                                  k \in {k \in Nodes : rows[k].stored /\ rows[k].name \in Concepts}}
    BY <1>2, Taking
<1>4. \A k \in DOMAIN jobs : jobs'[k].ev = jobs[k].ev
    BY <1>3
<1>5. Running(i)' => t = i
    BY <1>2, <1>3, <1>4 DEF Running, JobNos
<1>6. CASE ~rows[n].stored
    <2>1. Created(n)
        BY <1>6 DEF Unstored, Concept, Nodes
    <2> QED
        BY <2>1, CreatedCared
<1>7. CASE rows[n].stored
    <2>1. ASSUME t = i PROVE ToDo(p, m)'
        <3>1. jobs[t].ev.path = p /\ jobs[t].ev.name = m /\ m \in Concepts /\ n \in Nodes
            BY <1>1, <2>1 DEF QueuedAt, About, Concept
        <3>2. \E k \in DOMAIN Dirs(jobs[t].ev) : Dirs(jobs[t].ev)[k] = p
            BY <3>1 DEF Dirs
        <3>3. [path |-> p, name |-> m] \in worker'.refs
            BY <1>3, <1>7, <3>1
        <3>4. worker'.at = "index"
            BY <1>3, <3>1
        <3> QED
            BY <1>3, <3>2, <3>3, <3>4 DEF ToDo
    <2> QED
        BY <1>1, <1>3, <1>4, <1>5, <2>1, SameEvsQueue
<1> QED
    BY <1>6, <1>7

LEMMA FinishQueued ==
    ASSUME Sound, Finish, NEW p, NEW m, Queued(p, m)
    PROVE  Queued(p, m)'
<1>1. PICK i \in DOMAIN jobs : QueuedAt(i, p, m) /\ (Running(i) => ToDo(p, m))
    BY DEF Queued
<1>2. /\ OkfInv /\ JobNos /\ worker.at = "finish" /\ jobs' = RemoveAt(jobs, Place(TheJob))
      /\ worker' = Resting
    BY DEF Sound, QueueKept, Finish, Others
<1>3. /\ Place(TheJob) \in DOMAIN jobs /\ jobs \in Seq(Job) /\ (Running(i) <=> i = Place(TheJob))
    BY <1>2, PlaceMeaning, JobsMeaning
<1>4. i # Place(TheJob)
    BY <1>1, <1>2, <1>3 DEF ToDo
<1>5. PICK g \in [DOMAIN jobs' -> DOMAIN jobs] :
             /\ \A k \in DOMAIN jobs' : jobs'[k] = jobs[g[k]]
             /\ \A k, h \in DOMAIN jobs' : k < h => g[k] < g[h]
             /\ \A k \in DOMAIN jobs \ {Place(TheJob)} : \E h \in DOMAIN jobs' : g[h] = k
    BY <1>2, <1>3, RemoveEmbeds
<1>6. PICK h \in DOMAIN jobs' : g[h] = i
    BY <1>4, <1>5
<1>7. ASSUME NEW k \in DOMAIN jobs', jobs'[k].ev.kind = "delete", About(jobs'[k].ev, p, m)
      PROVE  k < h
    <2>1. g[k] \in DOMAIN jobs /\ jobs'[k] = jobs[g[k]]
        BY <1>5
    <2>2. g[k] < i
        BY <1>1, <1>7, <2>1 DEF QueuedAt
    <2>3. DOMAIN jobs' \subseteq Nat /\ DOMAIN jobs \subseteq Nat
        <3>1. PICK s : s = RemoveAt(jobs, Place(TheJob))
            OBVIOUS
        <3>2. s \in Seq(Job)
            BY <1>3, <3>1, RemoveMeaning
        <3>3. DOMAIN s = 1 .. Len(s) /\ DOMAIN jobs = 1 .. Len(jobs)
            BY <1>3, <3>2
        <3> QED
            BY <1>2, <3>1, <3>3
    <2>4. k \in Nat /\ h \in Nat /\ i \in Nat /\ g[k] \in Nat /\ g[h] = i
        BY <1>6, <2>1, <2>3
    <2>5. k # h
        BY <2>2, <2>4
    <2>6. ~(h < k)
        <3>1. h < k => g[h] < g[k]
            BY <1>5, <1>6, <1>7
        <3> QED
            BY <2>2, <2>4, <3>1
    <2> QED
        BY <2>4, <2>5, <2>6
<1>8. QueuedAt(h, p, m)'
    BY <1>1, <1>5, <1>6, <1>7 DEF QueuedAt
<1>9. ~Running(h)'
    BY <1>2 DEF Running, Resting
<1> QED
    BY <1>6, <1>8, <1>9 DEF Queued

\* Whatever happens, the concept of a queued job goes on being cared for.
LEMMA QueuedStay ==
    ASSUME Sound, Sound', Settled, odd' \cap Excuses = {}, Shapes,
           Creations, Deletions, Makings, Merges, Unstored,
           NEW n, Concept(n), Concept(n)', SameRow(rows[n], rows'[n]), NEW p, NEW m,
           rows[n].path = p, rows[n].name = m, Queued(p, m)
    PROVE  \/ Condemned(n)' \/ (Bulleted(n)' /\ ~Removing(p, m)')
           \/ Created(n)' \/ Announced(p, m)' \/ Queued(p, m)'
<1>1. PICK i \in DOMAIN jobs : QueuedAt(i, p, m) /\ (Running(i) => ToDo(p, m))
    BY DEF Queued
<1>2. OkfInv /\ QueueKept /\ Resting.at = "idle"
    BY DEF Sound, Resting
<1>3. CASE QueueStill
    <2>1. TheEvent' = TheEvent /\ worker' = worker /\ jobs' = jobs
        BY <1>3, SameJob DEF QueueStill
    <2>2. Running(i)' => ToDo(p, m)'
        BY <1>1, <2>1 DEF Running, ToDo
    <2> QED
        BY <1>1, <2>1, <2>2, SameEvsQueue
<1>4. ASSUME jobs' = jobs, RunsOn, Running(i) => ToDo(p, m)' PROVE Queued(p, m)'
    <2>1. TheEvent' = TheEvent /\ worker.at # "idle"
        BY <1>4, SameJob DEF RunsOn
    <2>2. Running(i)' => Running(i)
        BY <1>4, <2>1 DEF Running
    <2> QED
        BY <1>1, <1>4, <2>2, SameEvsQueue
<1>5. ASSUME RunsOn, Running(i), Bulleted(n)' PROVE Bulleted(n)' /\ ~Removing(p, m)'
    <2>1. ~Removing(p, m) /\ jobs' = jobs
        BY <1>1, <1>5, RunsFirst DEF RunsOn
    <2> QED
        BY <1>5, <2>1 DEF Removing
<1>6. RunsOn => jobs' = jobs
    BY DEF RunsOn
<1>7. ASSUME Running(i) PROVE TheEvent.kind # "delete" /\ TheEvent.name = m
    BY <1>1, <1>7 DEF QueuedAt, Running, About
<1>8. CASE Index /\ RunsOn
    BY <1>1, <1>4, <1>6, <1>7, <1>8, IndexQueued
<1>9. CASE Log /\ RunsOn
    <2>1. worker.at = "log"
        BY <1>9 DEF Log
    <2>2. ~Running(i)
        BY <1>1, <2>1 DEF ToDo
    <2> QED
        BY <1>4, <1>6, <1>9, <2>2
<1>10. CASE MadeIt /\ RunsOn
    <2>1. Running(i) => ToDo(p, m)' \/ Bulleted(n)'
        BY <1>1, <1>10, MadeQueued
    <2> QED
        BY <1>4, <1>5, <1>6, <1>10, <2>1
<1>11. CASE SavedIt /\ RunsOn
    <2>1. Running(i) => ToDo(p, m)' \/ Bulleted(n)'
        BY <1>1, <1>7, <1>11, SavedQueued
    <2> QED
        BY <1>4, <1>5, <1>6, <1>11, <2>1
<1>12. CASE Throws /\ worker.at # "idle"
    <2>1. /\ DOMAIN jobs' = DOMAIN jobs /\ worker' = Resting
          /\ \A k \in DOMAIN jobs : jobs'[k].ev = jobs[k].ev
        BY <1>2, <1>12, ThrowsShape
    <2>2. ~Running(i)'
        BY <1>2, <2>1 DEF Running
    <2> QED
        BY <1>1, <2>1, <2>2, SameEvsQueue
<1>13. CASE Tick
    <2>1. /\ jobs' = [k \in DOMAIN jobs |-> [jobs[k] EXCEPT !.wait = FALSE]]
          /\ worker' = worker
        BY <1>13 DEF Tick
    <2>2. ASSUME NEW k \in DOMAIN jobs PROVE jobs'[k].ev = jobs[k].ev
        <3>1. jobs[k] \in Job
            BY <1>2, JobsMeaning
        <3> QED
            BY <2>1, <3>1 DEF Job
    <2>3. TheEvent' = TheEvent
        BY <2>1, SameJob
    <2>4. Running(i)' => ToDo(p, m)'
        BY <1>1, <2>1, <2>2, <2>3 DEF Running, ToDo
    <2>5. DOMAIN jobs' = DOMAIN jobs
        BY <2>1
    <2> QED
        BY <1>1, <2>2, <2>4, <2>5, SameEvsQueue
<1>14. ASSUME NEW c \in Callers, Sending(c) PROVE Condemned(n)' \/ Queued(p, m)'
    BY <1>14, SendingQueued
<1>15. CASE Take
    BY <1>15, TakingQueued
<1>16. CASE Finish
    BY <1>16, FinishQueued
<1>17. ASSUME NEW c \in Callers, Storing(c) \/ Writing(c) \/ Deleting(c) PROVE QueueStill
    BY <1>17 DEF Storing, Writing, Deleting
<1> QED
    BY <1>3, <1>8, <1>9, <1>10, <1>11, <1>12, <1>13, <1>14, <1>15, <1>16, <1>17 DEF Shapes

\* When a folder is on its way nothing else is: every concept has its bullet.
LEMMA AllBulleted ==
    ASSUME Sound, Settled, AllCared, NEW c \in Callers, Shifting(call[c]), NEW n, Concept(n)
    PROVE  Bulleted(n)
<1>1. /\ call[c].at = "shift" /\ \A d \in Callers : d # c => call[d] = Idle
      /\ jobs = <<>> /\ call[c] # Idle /\ Idle.at = "idle" /\ Idle.kind = "none"
    BY ShiftingIsAlone DEF Idle
<1>2. call[c].kind # "delete"
    <2>1. CallFacts(call[c], rows)
        BY <1>1 DEF Sound, Facts, Busy
    <2> QED
        BY <1>1, <2>1 DEF CallFacts, StageFacts
<1>3. ~Condemned(n)
    BY <1>1, <1>2 DEF Condemned
<1>4. ~Created(n)
    BY <1>1 DEF Created, Creation
<1>5. PICK p, m : p = rows[n].path /\ m = rows[n].name
    OBVIOUS
<1>6. \A d \in Callers : call[d].tell = {}
    BY <1>1 DEF Sound, QueueKept, CallNos
<1>7. ~Announced(p, m)
    BY <1>6 DEF Announced
<1>8. ~Queued(p, m)
    BY <1>1 DEF Queued
<1>9. Cared(n, p, m)
    BY <1>5 DEF AllCared
<1> QED
    BY <1>3, <1>4, <1>7, <1>8, <1>9 DEF Cared

\* A concept that stays where it is stays cared for.
LEMMA CaredStay ==
    ASSUME Sound, Sound', Settled, odd' \cap Excuses = {}, Shapes,
           Creations, Deletions, Makings, Merges, Unstored,
           NEW n, Concept(n), Concept(n)', SameRow(rows[n], rows'[n]), NEW p, NEW m,
           rows[n].path = p, rows[n].name = m, Cared(n, p, m)
    PROVE  Cared(n, p, m)'
<1>1. CASE Condemned(n)
    BY <1>1, CondemnedStay DEF Cared
<1>2. CASE Bulleted(n) /\ ~Removing(p, m)
    BY <1>2, BulletedStay DEF Cared
<1>3. CASE Created(n)
    BY <1>3, CreatedCared DEF Cared
<1>4. CASE Announced(p, m)
    BY <1>4, AnnouncedStay DEF Cared
<1>5. CASE Queued(p, m)
    BY <1>5, QueuedStay DEF Cared
<1> QED
    BY <1>1, <1>2, <1>3, <1>4, <1>5 DEF Cared

\* Every step leaves every concept cared for.
LEMMA CaresStay ==
    ASSUME Sound, Sound', Settled, odd' \cap Excuses = {}, Shapes,
           Creations, Deletions, Makings, Merges, Unstored, AllCared
    PROVE  AllCared'
<1> SUFFICES ASSUME NEW n, NEW p, NEW m, Concept(n)', rows'[n].path = p, rows'[n].name = m
             PROVE  Cared(n, p, m)'
    BY DEF AllCared
<1>1. CASE Created(n)'
    BY <1>1 DEF Cared
<1>2. ASSUME Concept(n), SameRow(rows[n], rows'[n]) PROVE Cared(n, p, m)'
    <2>1. rows[n].path = p /\ rows[n].name = m
        BY <1>2 DEF SameRow
    <2>2. Cared(n, p, m)
        BY <1>2, <2>1 DEF AllCared
    <2> QED
        BY <1>2, <2>1, <2>2, CaredStay
<1>3. ASSUME Concept(n), rows'[n] = rows[n] PROVE Cared(n, p, m)'
    BY <1>2, <1>3 DEF SameRow
<1>4. ASSUME Concept(n), rows'[n].parent = rows[n].parent, rows'[n].name = rows[n].name,
             rows'[n].path = rows[n].path
      PROVE  Cared(n, p, m)'
    <2>1. SameRow(rows[n], rows'[n])
        <3>1. rows[n].there /\ rows'[n].there /\ ~rows[n].folder /\ ~rows'[n].folder
            BY <1>4 DEF Concept, Nodes
        <3>2. RowsOK(rows) /\ RowsOK(rows') /\ n \in DOMAIN rows /\ n \in DOMAIN rows'
            BY <1>4 DEF Sound, OkfInv, TreeInv, Concept, Nodes
        <3>3. /\ rows[n].there \in BOOLEAN /\ rows'[n].there \in BOOLEAN
              /\ rows[n].folder \in BOOLEAN /\ rows'[n].folder \in BOOLEAN
            BY <3>2, RowMeaning
        <3> QED
            BY <1>4, <3>1, <3>3 DEF SameRow
    <2> QED
        BY <1>2, <1>4, <2>1
<1>5. ASSUME NEW c \in Callers, TreeMove(c), Shifting(call[c]), Concept(n),
             rows'[n].parent = rows[n].parent, rows'[n].name = rows[n].name
      PROVE  Cared(n, p, m)'
    <2>1. /\ jobs = <<>> /\ worker.at = "idle" /\ call[c].at = "shift"
          /\ \A d \in Callers : d # c => call[d] = Idle
        BY <1>5, ShiftingIsAlone
    <2>2. PICK k \in DOMAIN rows : Bullets(k, n)
        BY <1>5, AllBulleted DEF Bulleted
    <2>3. Bullets(k, n)'
        BY <1>5, <2>1, <2>2, BulletStays
    <2>4. Bulleted(n)'
        BY <2>3 DEF Bulleted, Bullets, Nodes
    <2>5. \A d \in Callers : ~Sending(d)
        BY <2>1 DEF Sending, Said
    <2>6. ASSUME NEW i \in DOMAIN jobs' PROVE FALSE
        <3>1. \E h \in DOMAIN jobs : jobs[h].ev = jobs'[i].ev
            BY <2>5, EventsBefore
        <3> QED
            BY <2>1, <3>1
    <2>7. ~Removing(p, m)'
        BY <2>6 DEF Removing
    <2> QED
        BY <2>4, <2>7 DEF Cared
<1>6. ASSUME NEW c \in Callers, Writing(c), ~call[c].folder, call[c].id = n, Concept(n),
             rows' # rows
      PROVE  Cared(n, p, m)'
    <2>1. c # Worker
        <3>1. call[c].kind # "file" /\ call[c] # Idle
            BY <1>6 DEF Writing, Idle
        <3> QED
            BY <3>1 DEF Makings
    <2>2. \E e \in call'[c].tell : e.kind = "move" /\ e.key = rows'[n].path
                                   /\ e.path = rows'[n].path /\ e.name = rows'[n].name
        BY <1>6, <2>1 DEF Writing, Concept
    <2>3. Announced(p, m)'
        BY <2>2 DEF Announced, About
    <2> QED
        BY <2>3 DEF Cared
<1>7. rows' = rows => rows'[n] = rows[n]
    OBVIOUS
<1> QED
    BY <1>1, <1>2, <1>3, <1>4, <1>5, <1>6, <1>7, ConceptBefore

-----------------------------------------------------------------------------
(* The corpus as it begins.                                                *)

\* At most one event of a file just saved is queued, and nothing else is.
LEMMA FirstJobs ==
    ASSUME Init
    PROVE  \/ corpus.saved = {} /\ DOMAIN jobs = {}
           \/ \E e \in Event : corpus.saved = {e} /\ DOMAIN jobs = {1} /\ jobs[1] = NewJob(e, FALSE)
<1>1. /\ jobs = SetToSeq({NewJob(e, FALSE) : e \in corpus.saved})
      /\ corpus.saved \subseteq Event /\ IsFiniteSet(corpus.saved) /\ Cardinality(corpus.saved) <= 1
    BY OkfAssumption DEF Init
<1>2. corpus.saved = {} \/ \E e : corpus.saved = {e}
    <2>1. Cardinality(corpus.saved) \in Nat
        BY <1>1, FS_CardinalityType
    <2>2. Cardinality(corpus.saved) = 0 \/ Cardinality(corpus.saved) = 1
        BY <1>1, <2>1
    <2> QED
        BY <1>1, <2>2, FS_EmptySet, FS_Singleton
<1>3. CASE corpus.saved = {}
    <2>1. PICK S : S = {NewJob(e, FALSE) : e \in corpus.saved}
        OBVIOUS
    <2>2. S = {} /\ IsFiniteSet(S)
        BY <1>3, <2>1, FS_EmptySet
    <2>3. jobs \in Seq(S)
        BY <1>1, <2>1, <2>2, SetToSeqTypes
    <2>4. DOMAIN jobs = {}
        BY <2>2, <2>3
    <2> QED
        BY <1>3, <2>4
<1>4. ASSUME NEW e, corpus.saved = {e} PROVE DOMAIN jobs = {1} /\ jobs[1] = NewJob(e, FALSE)
    <2>1. PICK j : j = NewJob(e, FALSE)
        OBVIOUS
    <2>2. PICK S : S = {j}
        OBVIOUS
    <2>3. {NewJob(f, FALSE) : f \in corpus.saved} = S
        BY <1>4, <2>1, <2>2
    <2>4. IsFiniteSet(S) /\ Cardinality(S) = 1 /\ ExistsBijection(1 .. Cardinality(S), S)
        BY <2>2, FS_Singleton, FS_CardinalityType
    <2>5. \E f \in [1 .. Cardinality(S) -> S] : IsInjective(f)
        BY <2>4 DEF ExistsBijection, Bijection, Injection
    <2>6. SetToSeq(S) \in [1 .. Cardinality(S) -> S]
        BY <2>5 DEF SetToSeq
    <2>7. jobs \in [{1} -> {j}]
        <3>1. 1 .. 1 = {1}
            OBVIOUS
        <3> QED
            BY <1>1, <2>2, <2>3, <2>4, <2>6, <3>1
    <2> QED
        BY <2>1, <2>7
<1> QED
    BY <1>1, <1>2, <1>3, <1>4

LEMMA FirstEvents ==
    ASSUME Init, InOrder(corpus)
    PROVE  /\ \A i \in DOMAIN jobs :
                /\ i = 1 /\ ~jobs[i].wait /\ ~jobs[i].active
                /\ jobs[i].ev.kind = "update" /\ Single(jobs[i].ev) /\ jobs[i].ev.no = 0
           /\ \A e \in corpus.saved : 1 \in DOMAIN jobs /\ jobs[1].ev = e
<1>1. CASE corpus.saved = {} /\ DOMAIN jobs = {}
    BY <1>1
<1>2. ASSUME NEW e \in Event, corpus.saved = {e}, DOMAIN jobs = {1}, jobs[1] = NewJob(e, FALSE)
      PROVE  /\ \A i \in DOMAIN jobs :
                /\ i = 1 /\ ~jobs[i].wait /\ ~jobs[i].active
                /\ jobs[i].ev.kind = "update" /\ Single(jobs[i].ev) /\ jobs[i].ev.no = 0
             /\ \A f \in corpus.saved : 1 \in DOMAIN jobs /\ jobs[1].ev = f
    <2>1. e.kind = "update" /\ e.from = e.path /\ e.key = e.path /\ e.no = 0
        BY <1>2 DEF InOrder
    <2>2. jobs[1].ev = e /\ ~jobs[1].wait /\ ~jobs[1].active
        BY <1>2 DEF NewJob
    <2> QED
        BY <1>2, <2>1, <2>2 DEF Single
<1> QED
    BY <1>1, <1>2, FirstJobs

LEMMA InitQueues ==
    ASSUME Init, InOrder(corpus)
    PROVE  QueueKept
<1>1. /\ call = [c \in Callers |-> Idle] /\ calls = 0 /\ worker = Resting
      /\ slots = {<<e.key, "now">> : e \in corpus.saved}
      /\ Resting.at = "idle" /\ Idle.no = 0 /\ Idle.tell = {}
      /\ Worker \in Callers /\ Users \subseteq Callers
    BY TheWorker DEF Init, Resting, Idle, Users
<1>2. CallNos
    BY <1>1 DEF CallNos
<1>3. JobNos
    BY <1>1, FirstEvents DEF JobNos, EventOK
<1>4. \A p : <<p, "next">> \notin slots
    BY <1>1
<1>5. SlotsKept
    BY <1>4, FirstEvents DEF SlotsKept
<1>6. OneRuns
    BY <1>1, FirstEvents DEF OneRuns, Running
<1> QED
    BY <1>2, <1>3, <1>5, <1>6 DEF QueueKept

LEMMA InitCared ==
    ASSUME Init, InOrder(corpus)
    PROVE  AllCared
<1> SUFFICES ASSUME NEW n, NEW p, NEW m, Concept(n), rows[n].path = p, rows[n].name = m
             PROVE  Cared(n, p, m)
    BY DEF AllCared
<1>1. /\ rows = corpus.rows /\ worker = Resting /\ Resting.at = "idle"
      /\ IsTree(rows) /\ RowsOK(rows) /\ n \in DOMAIN rows /\ rows[n].there /\ ~rows[n].folder
      /\ m \in Concepts
    BY OkfAssumption, InitFits DEF Init, Resting, OkfInv, TreeInv, Concept, Nodes
<1>2. ~\E i \in DOMAIN jobs : jobs[i].ev.kind = "delete"
    BY FirstEvents
<1>3. \/ \E k \in DOMAIN rows : /\ rows[k].there /\ ~rows[k].folder /\ rows[k].path = p
                                /\ rows[k].name = "index.md" /\ m \in rows[k].text.listed
      \/ \E e \in corpus.saved : e.path = p /\ e.name = m
    BY <1>1 DEF InOrder
<1>4. ASSUME NEW k \in DOMAIN rows, rows[k].there, ~rows[k].folder, rows[k].path = p,
             rows[k].name = "index.md", m \in rows[k].text.listed
      PROVE  Cared(n, p, m)
    <2>1. rows[k].parent = rows[n].parent
        BY <1>1, <1>4, SameFolder
    <2>2. Bullets(k, n)
        BY <1>4, <2>1 DEF Bullets, Nodes
    <2>3. ~Removing(p, m)
        BY <1>2 DEF Removing
    <2> QED
        BY <2>2, <2>3 DEF Cared, Bulleted
<1>5. ASSUME NEW e \in corpus.saved, e.path = p, e.name = m PROVE Cared(n, p, m)
    <2>1. 1 \in DOMAIN jobs /\ jobs[1].ev = e /\ e.kind = "update" /\ e.key = p
        BY <1>5, FirstEvents DEF Single
    <2>2. QueuedAt(1, p, m)
        BY <1>2, <1>5, <2>1 DEF QueuedAt, About
    <2>3. ~Running(1)
        BY <1>1 DEF Running
    <2> QED
        BY <2>1, <2>2, <2>3 DEF Cared, Queued
<1> QED
    BY <1>3, <1>4, <1>5

Upkept == Creations /\ Deletions /\ Unstored /\ Makings /\ Merges /\ AllCared

LEMMA InitUpkept ==
    ASSUME Init, InOrder(corpus)
    PROVE  Upkept
<1>1. /\ call = [c \in Callers |-> Idle] /\ worker = Resting /\ Resting.at = "idle"
      /\ Idle.at = "idle" /\ Idle.tell = {} /\ Idle.kind = "none" /\ Worker \in Callers
    BY TheWorker DEF Init, Resting, Idle
<1>2. Creations /\ Deletions
    BY <1>1 DEF Creations, Deletions
<1>3. Makings /\ Merges
    BY <1>1 DEF Makings, Merges
<1>4. Unstored
    <2> SUFFICES ASSUME NEW n, Concept(n) PROVE rows[n].stored
        BY DEF Unstored
    <2> QED
        BY DEF InOrder, Init, Concept, Nodes
<1> QED
    BY <1>2, <1>3, <1>4, InitCared DEF Upkept

-----------------------------------------------------------------------------
(* Every step.                                                             *)

QueueHolds == Sane /\ InOrder(corpus) => QueueKept
UpkeepHolds == Settled => Upkept

LEMMA NextSound ==
    ASSUME OkfInv, OkfInv', TreeFacts, TreeFacts', QueueHolds, Next, Sane', InOrder(corpus')
    PROVE  Sound /\ Sound'
<1>1. odd \subseteq odd' /\ corpus' = corpus
    BY OddGrows, NextKeepsCorpus
<1>2. Sane /\ InOrder(corpus)
    BY <1>1 DEF Sane
<1>3. Facts /\ Facts' /\ QueueKept
    BY <1>2 DEF TreeFacts, QueueHolds
<1>4. QueueKept'
    BY <1>3, NextQueues
<1> QED
    BY <1>3, <1>4 DEF Sound

LEMMA NextUpkeep ==
    ASSUME OkfInv, OkfInv', TreeFacts, TreeFacts', QueueHolds, UpkeepHolds, Next
    PROVE  QueueHolds' /\ UpkeepHolds'
<1>1. QueueHolds'
    BY NextSound DEF QueueHolds, Sound
<1>2. ASSUME Settled' PROVE Upkept'
    <2>1. Sane' /\ InOrder(corpus')
        BY <1>2 DEF Settled, Sane, Excuses
    <2>2. Sound /\ Sound'
        BY <2>1, NextSound
    <2>3. Settled /\ odd' \cap Excuses = {}
        BY <1>2, <2>2, SettledBefore
    <2>4. Shapes
        BY <1>2, <2>2, NextShapes
    <2>5. Creations /\ Deletions /\ Unstored /\ Makings /\ Merges /\ AllCared
        BY <2>3 DEF UpkeepHolds, Upkept
    <2>6. Grows(rows, rows')
        BY <2>2, <2>4, ShapesGrow
    <2>7. Creations'
        BY <2>2, <2>3, <2>4, <2>5, CreationsStay
    <2>8. Deletions'
        BY <2>2, <2>3, <2>4, <2>5, <2>6, DeletionsStay
    <2>9. Unstored'
        BY <2>2, <2>4, <2>5, UnstoredStay
    <2>10. Makings'
        BY <2>2, <2>3, <2>4, <2>5, MakingsStay
    <2>11. Merges'
        BY <2>2, <2>3, <2>4, <2>5, MergesStay
    <2>12. AllCared'
        BY <2>2, <2>3, <2>4, <2>5, CaresStay
    <2> QED
        BY <2>7, <2>8, <2>9, <2>10, <2>11, <2>12 DEF Upkept
<1> QED
    BY <1>1, <1>2 DEF UpkeepHolds

LEMMA StutterUpkeep ==
    ASSUME QueueHolds, UpkeepHolds, UNCHANGED vars
    PROVE  QueueHolds' /\ UpkeepHolds'
<1>1. UNCHANGED <<rows, call, calls, odd, corpus, jobs, slots, worker, crashes>>
    BY DEF vars, treeVars
<1>2. TheEvent' = TheEvent /\ TheJob' = TheJob
    BY <1>1, SameJob
<1>3. /\ Settled' => Settled
      /\ Sane' /\ InOrder(corpus') => Sane /\ InOrder(corpus)
    BY <1>1 DEF Settled, Uprooting, Sane, Shifting
<1>4. QueueKept => QueueKept'
    <2>1. CallNos => CallNos'
        BY <1>1 DEF CallNos
    <2>2. JobNos => JobNos'
        BY <1>1 DEF JobNos
    <2>3. SlotsKept => SlotsKept'
        BY <1>1 DEF SlotsKept
    <2>4. OneRuns => OneRuns'
        BY <1>1, <1>2 DEF OneRuns, Running
    <2> QED
        BY <2>1, <2>2, <2>3, <2>4 DEF QueueKept
<1>5. QueueHolds'
    BY <1>3, <1>4 DEF QueueHolds
<1>6. Creations => Creations'
    BY <1>1 DEF Creations, Files, At, Nodes
<1>7. Deletions => Deletions'
    BY <1>1 DEF Deletions, Files, At, Nodes
<1>8. Unstored => Unstored'
    BY <1>1 DEF Unstored, Concept, Created, Creation, Nodes
<1>9. Makings => Makings'
    BY <1>1 DEF Makings, Files, At, Nodes, Listing, ConceptsIn, SubfoldersIn
<1>10. Merges => Merges'
    BY <1>1, <1>2 DEF Merges, Files, At, Nodes
<1>11. ASSUME NEW n, NEW p, NEW m, Cared(n, p, m) PROVE Cared(n, p, m)'
    <2>1. Condemned(n) => Condemned(n)'
        BY <1>1 DEF Condemned
    <2>2. Bulleted(n) => Bulleted(n)'
        BY <1>1 DEF Bulleted, Bullets, Nodes
    <2>3. ~Removing(p, m) => ~Removing(p, m)'
        BY <1>1 DEF Removing
    <2>4. Created(n) => Created(n)'
        BY <1>1 DEF Created, Creation
    <2>5. Announced(p, m) => Announced(p, m)'
        BY <1>1 DEF Announced
    <2>6. Queued(p, m) => Queued(p, m)'
        <3>1. ToDo(p, m) => ToDo(p, m)'
            BY <1>1 DEF ToDo
        <3>2. ASSUME NEW i, QueuedAt(i, p, m) PROVE QueuedAt(i, p, m)'
            BY <1>1, <3>2 DEF QueuedAt
        <3>3. \A i : Running(i)' => Running(i)
            BY <1>1, <1>2 DEF Running
        <3> QED
            BY <1>1, <3>1, <3>2, <3>3 DEF Queued
    <2> QED
        BY <1>11, <2>1, <2>2, <2>3, <2>4, <2>5, <2>6 DEF Cared
<1>12. AllCared => AllCared'
    <2> SUFFICES ASSUME AllCared, NEW n, NEW p, NEW m, Concept(n)', rows'[n].path = p,
                        rows'[n].name = m
                 PROVE  Cared(n, p, m)'
        BY DEF AllCared
    <2>1. Concept(n) /\ rows[n].path = p /\ rows[n].name = m
        BY <1>1 DEF Concept, Nodes
    <2>2. Cared(n, p, m)
        BY <2>1 DEF AllCared
    <2> QED
        BY <1>11, <2>2
<1>13. Upkept => Upkept'
    BY <1>6, <1>7, <1>8, <1>9, <1>10, <1>12 DEF Upkept
<1> QED
    BY <1>3, <1>5, <1>13 DEF UpkeepHolds

-----------------------------------------------------------------------------
(* Nothing is under way.                                                   *)

LEMMA QuietMeaning ==
    ASSUME Quiet
    PROVE  /\ \A c \in Callers : call[c] = Idle
           /\ jobs = <<>> /\ DOMAIN jobs = {}
           /\ Idle.kind = "none" /\ Idle.at = "idle" /\ Idle.tell = {}
BY DEF Quiet, Busy, Idle

LEMMA QuietIsListed ==
    ASSUME OkfInv, TreeFacts, UpkeepHolds
    PROVE  Listed
<1> SUFFICES ASSUME corpus.okf, InOrder(corpus), Quiet, odd \cap Excuses = {},
                    NEW n \in Nodes, ~rows[n].folder, rows[n].name \in Concepts
             PROVE  \E k \in Files(rows[n].path, "index.md") :
                      rows[n].name \in rows[k].text.listed
    BY DEF Listed, Excuses
<1>1. /\ \A c \in Callers : call[c] = Idle
      /\ jobs = <<>> /\ DOMAIN jobs = {}
      /\ Idle.kind = "none" /\ Idle.at = "idle" /\ Idle.tell = {}
    BY QuietMeaning
<1>2. Upkept
    <2>1. ~Uprooting
        BY <1>1 DEF Uprooting
    <2> QED
        BY <2>1 DEF Settled, UpkeepHolds
<1>3. IsTree(rows) /\ RowsOK(rows)
    <2>1. Sane /\ \A c \in Callers : ~Shifting(call[c])
        BY <1>1 DEF Sane, Excuses, Shifting
    <2> QED
        BY <2>1 DEF TreeFacts, Facts, OkfInv, TreeInv
<1>4. PICK p : p = rows[n].path
    OBVIOUS
<1>5. PICK m : m = rows[n].name
    OBVIOUS
<1>6. Cared(n, p, m)
    BY <1>2, <1>4, <1>5 DEF Upkept, AllCared, Concept
<1>7. ~Condemned(n) /\ ~Created(n) /\ ~Announced(p, m)
    BY <1>1 DEF Condemned, Created, Creation, Announced
<1>8. ~Queued(p, m)
    BY <1>1 DEF Queued
<1>9. Bulleted(n)
    BY <1>6, <1>7, <1>8 DEF Cared
<1>10. PICK k \in DOMAIN rows : Bullets(k, n)
    BY <1>9 DEF Bulleted
<1>11. rows[k].path = rows[n].path
    BY <1>3, <1>10, SameFolder DEF Bullets, Nodes
<1>12. k \in Files(rows[n].path, "index.md")
    BY <1>10, <1>11, FilesMeaning DEF Bullets, Nodes
<1> QED
    BY <1>10, <1>12 DEF Bullets

LEMMA InitUpkeep ==
    ASSUME Init
    PROVE  QueueHolds /\ UpkeepHolds
BY InitQueues, InitUpkept DEF QueueHolds, UpkeepHolds, Settled

\* When nothing is under way, every concept is listed in the index.md beside it:
\* of all that is created, saved, renamed, moved and deleted while the worker is
\* at it, no bullet is forgotten, except in the cases that Listed names.
THEOREM ListedHolds == Spec => []Listed
<1>1. /\ OkfInv /\ OkfInv' /\ TreeFacts /\ TreeFacts' /\ QueueHolds /\ UpkeepHolds
      /\ [Next]_vars
      => QueueHolds' /\ UpkeepHolds'
    BY NextUpkeep, StutterUpkeep
<1>2. Spec => [](QueueHolds /\ UpkeepHolds)
    BY <1>1, InitUpkeep, AlwaysFits, AlwaysTree, PTL DEF Spec
<1> QED
    BY <1>2, AlwaysFits, AlwaysTree, QuietIsListed, PTL

-----------------------------------------------------------------------------
(* Bullets of files that are gone.                                         *)

\* What NothingStale does not except.
Fresh == Settled /\ odd \cap {"renamed", "razed"} = {}

\* A bullet with such a name is of a concept, and of no subfolder.
Unmixed == Concepts \ FolderNames

\* A step between such states.
FreshStep ==
    Sound /\ Sound' /\ Fresh /\ Fresh' /\ odd' \cap Excuses = {} /\ Shapes /\ Upkept

\* No delete will take the file without an event.
Spared(n) ==
    rows[n].name \in Concepts =>
      \A c \in Callers : call[c].kind = "delete" /\ n \in call[c].todo =>
        \E e \in call[c].tell : Of(e, rows[n].path, rows[n].name)
Safe(p, m) == \E n \in Files(p, m) : Spared(n)

\* A job that takes the bullet away, and one that may make an index.md for it.
Drop(i, p, m) == jobs[i].ev.kind = "delete" /\ Of(jobs[i].ev, p, m) /\ m \in Concepts
Waits(i, p, m) == jobs[i].ev.kind # "delete" /\ Of(jobs[i].ev, p, m)

\* A settled state without stale bullets comes of such states.
LEMMA FreshBefore ==
    ASSUME Sound, Next, Fresh'
    PROVE  Fresh /\ Settled' /\ odd' \cap Excuses = {}
<1>1. odd \subseteq odd'
    BY OddGrows
<1>2. Settled' /\ odd' \cap {"renamed", "razed"} = {}
    BY DEF Fresh
<1> QED
    BY <1>1, <1>2, SettledBefore DEF Fresh

-----------------------------------------------------------------------------
(* Files keep their names and places, and are spared until a job is queued.*)

\* A folder is on its way.
Shifts == \E c \in Callers : TreeMove(c) /\ Shifting(call[c])

Keeps(n) ==
    /\ n \in DOMAIN rows' /\ rows'[n].there /\ ~rows'[n].folder
    /\ rows'[n].name = rows[n].name /\ rows'[n].parent = rows[n].parent
    /\ rows'[n].path = rows[n].path \/ Shifts

\* The row of a file that is there stays, unless the file is deleted.
LEMMA FileStays ==
    ASSUME FreshStep, NEW n \in Nodes, ~rows[n].folder
    PROVE  Keeps(n) \/ \E c \in Callers : Deleting(c) /\ n \in call[c].todo
<1>1. /\ n \in DOMAIN rows /\ rows[n].there /\ Sound /\ Shapes /\ OkfInv
      /\ "renamed" \notin odd'
    BY DEF Nodes, FreshStep, Sound, Fresh
<1>2. ASSUME n \in DOMAIN rows', SameRow(rows[n], rows'[n]) PROVE Keeps(n)
    BY <1>1, <1>2 DEF Keeps, SameRow
<1>3. ASSUME n \in DOMAIN rows', rows'[n] = rows[n] PROVE Keeps(n)
    BY <1>1, <1>2, <1>3 DEF SameRow
<1>4. rows' = rows => Keeps(n)
    BY <1>1, <1>3
<1>5. ASSUME NEW c \in Callers, TreeMove(c) PROVE Keeps(n)
    <2>1. CASE Added(rows, rows', call[c], call'[c])
        BY <1>1, <1>3, <2>1, AddedMeaning
    <2>2. CASE Shifting(call[c]) /\ Resettled(rows, rows')
        BY <1>1, <1>5, <2>2 DEF Resettled, Keeps, Shifts
    <2> QED
        BY <1>4, <1>5, <2>1, <2>2 DEF TreeMove
<1>6. ASSUME NEW c \in Callers, Storing(c) PROVE Keeps(n)
    <2>1. CASE rows' # rows
        <3>1. SameShape(rows, rows')
            BY <1>6, <2>1 DEF Storing
        <3> QED
            BY <1>1, <1>2, <3>1 DEF SameShape
    <2> QED
        BY <1>4, <2>1
<1>7. ASSUME NEW c \in Callers, Writing(c) PROVE Keeps(n)
    <2>1. CASE rows' # rows
        <3>1. /\ DOMAIN rows' = DOMAIN rows /\ rows[call[c].id].folder = call[c].folder
              /\ \A k \in DOMAIN rows : k # call[c].id => rows'[k] = rows[k]
              /\ call[c].folder
            BY <1>1, <1>7, <2>1 DEF Writing
        <3> QED
            BY <1>1, <1>3, <3>1
    <2> QED
        BY <1>4, <2>1
<1>8. ASSUME NEW c \in Callers, Deleting(c) PROVE Keeps(n) \/ n \in call[c].todo
    BY <1>1, <1>3, <1>8 DEF Deleting
<1>9. ASSUME SavedIt PROVE Keeps(n)
    BY <1>1, <1>2, <1>9, SavedMeaning
<1>10. ASSUME NEW c \in Callers, Sending(c) \/ Started(c) PROVE rows' = rows
    BY <1>10 DEF Sending, Said, Started
<1>11. Index \/ Log => rows' = rows
    BY <1>1, IndexShape, LogShape DEF IndexPasses, IndexMakes, IndexReads, MakingFile
<1>12. Take \/ MadeIt \/ Throws \/ Finish \/ Tick => rows' = rows
    BY DEF Take, Rests, treeVars, MadeIt, Throws, Finish, Tick
<1>13. Users \subseteq Callers
    BY DEF Users
<1> QED
    BY <1>1, <1>4, <1>5, <1>6, <1>7, <1>8, <1>9, <1>10, <1>11, <1>12, <1>13 DEF Shapes

\* And a file that is there was there before, or is new.
LEMMA FileBefore ==
    ASSUME FreshStep, NEW n \in Nodes', ~rows'[n].folder
    PROVE  \/ n \in Nodes /\ ~rows[n].folder /\ Keeps(n)
           \/ rows'[n].text = NoText /\ Created(n)'
<1>1. /\ n \in DOMAIN rows' /\ rows'[n].there /\ Sound /\ Shapes /\ OkfInv
    BY DEF Nodes, FreshStep, Sound
<1>2. Grows(rows, rows')
    BY <1>1, ShapesGrow DEF FreshStep
<1>3. CASE n \in DOMAIN rows
    <2>1. n \in Nodes /\ ~rows[n].folder
        BY <1>1, <1>2, <1>3 DEF Grows, Nodes
    <2>2. ~\E c \in Callers : Deleting(c) /\ n \in call[c].todo
        BY <1>1, <1>3 DEF Deleting
    <2> QED
        BY <2>1, <2>2, FileStays
<1>4. CASE n \notin DOMAIN rows
    <2>1. ASSUME NEW c \in Callers, TreeMove(c)
          PROVE  rows'[n].text = NoText /\ Created(n)'
        <3>1. rows' # rows /\ ~Resettled(rows, rows')
            BY <1>1, <1>4 DEF Resettled
        <3>2. Added(rows, rows', call[c], call'[c])
            BY <2>1, <3>1 DEF TreeMove
        <3> QED
            BY <1>1, <1>4, <3>2, AddedMeaning DEF Created
    <2>2. \A c \in Callers : ~Storing(c) /\ ~Writing(c) /\ ~Deleting(c) /\ ~Sending(c) /\ ~Started(c)
        BY <1>1, <1>4 DEF Storing, Writing, Deleting, Sending, Said, Started, SameShape
    <2>3. ~SavedIt
        BY <1>1, <1>4, SavedMeaning
    <2>4. ~Index /\ ~Log
        BY <1>1, <1>4, IndexShape, LogShape DEF IndexPasses, IndexMakes, IndexReads, MakingFile
    <2>5. ~Take /\ ~MadeIt /\ ~Throws /\ ~Finish /\ ~Tick
        BY <1>1, <1>4 DEF Take, Rests, treeVars, MadeIt, Throws, Finish, Tick
    <2>6. Users \subseteq Callers
        BY DEF Users
    <2> QED
        BY <1>1, <2>1, <2>2, <2>3, <2>4, <2>5, <2>6 DEF Shapes
<1> QED
    BY <1>3, <1>4

\* A folder on its way is all there is.
LEMMA ShiftsAlone ==
    ASSUME FreshStep, Shifts
    PROVE  /\ \A d \in Callers : /\ call'[d].kind # "delete" /\ call[d].kind # "delete"
                                  /\ call[d].at # "tell"
           /\ jobs = <<>> /\ worker.at = "idle"
<1>1. PICK c \in Callers : TreeMove(c) /\ Shifting(call[c])
    BY DEF Shifts
<1>2. /\ call[c].at = "shift" /\ \A d \in Callers : d # c => call[d] = Idle
      /\ jobs = <<>> /\ worker.at = "idle" /\ call[c] # Idle /\ c \in Busy
      /\ Idle.kind = "none" /\ Idle.at = "idle"
    BY <1>1, ShiftingIsAlone DEF FreshStep, Fresh, Idle, Busy
<1>3. call[c].kind # "delete"
    BY <1>2 DEF FreshStep, Sound, Facts, CallFacts, StageFacts
<1>4. call'[c].kind # "delete"
    BY <1>1, <1>2, <1>3 DEF TreeMove, SameCall
<1>5. \A d \in Callers : d # c => call'[d] = Idle
    BY <1>1, <1>2 DEF TreeMove
<1> QED
    BY <1>2, <1>3, <1>4, <1>5

-----------------------------------------------------------------------------
(* Jobs keep their events and their order.                                 *)

SameEvs == DOMAIN jobs' = DOMAIN jobs /\ \A k \in DOMAIN jobs : jobs'[k].ev = jobs[k].ev
Sends(c, e) == Said(c, e) /\ Joined(e) /\ worker' = worker

LEMMA QueueMoves ==
    ASSUME FreshStep
    PROVE  SameEvs \/ Finish \/ \E c \in Callers : \E e \in call[c].tell : Sends(c, e)
<1>1. OkfInv /\ QueueKept /\ JobNos /\ odd' \cap Excuses = {}
    BY DEF FreshStep, Sound, QueueKept
<1>2. jobs' = jobs => SameEvs
    BY DEF SameEvs
<1>3. ASSUME NEW c \in Callers, Sending(c)
      PROVE  \E d \in Callers : \E e \in call[d].tell : Sends(d, e)
    BY <1>3 DEF Sending, Sends
<1>4. Take => SameEvs
    <2> HAVE Take
    <2>1. PICK k \in DOMAIN jobs : /\ DOMAIN jobs' = DOMAIN jobs /\ jobs'[k].ev = jobs[k].ev
                                   /\ \A j \in DOMAIN jobs \ {k} : jobs'[j] = jobs[j]
        BY <1>1, Taking
    <2> QED
        BY <2>1 DEF SameEvs
<1>5. ASSUME Throws, worker.at # "idle" PROVE SameEvs
    BY <1>1, <1>5, ThrowsShape DEF SameEvs
<1>6. Tick => SameEvs
    <2> HAVE Tick
    <2>1. jobs' = [k \in DOMAIN jobs |-> [jobs[k] EXCEPT !.wait = FALSE]]
        BY DEF Tick
    <2>2. ASSUME NEW k \in DOMAIN jobs PROVE jobs'[k].ev = jobs[k].ev
        <3>1. jobs[k] \in Job
            BY <1>1, JobsMeaning
        <3> QED
            BY <2>1, <3>1 DEF Job
    <2> QED
        BY <2>1, <2>2 DEF SameEvs
<1> QED
    BY <1>2, <1>3, <1>4, <1>5, <1>6
       DEF FreshStep, Shapes, QueueStill, Storing, Writing, Deleting, RunsOn

\* What Finish leaves of the queue.
LEMMA FinishLeaves ==
    ASSUME Sound, Finish
    PROVE  /\ DOMAIN jobs \subseteq Nat /\ DOMAIN jobs' \subseteq Nat
           /\ \E g \in [DOMAIN jobs' -> DOMAIN jobs] :
                /\ \A k \in DOMAIN jobs' : jobs'[k].ev = jobs[g[k]].ev
                /\ \A k, h \in DOMAIN jobs' : k < h => g[k] < g[h]
                /\ \A k \in DOMAIN jobs : Running(k) \/ \E h \in DOMAIN jobs' : g[h] = k
<1>1. /\ OkfInv /\ JobNos /\ worker.at = "finish" /\ jobs' = RemoveAt(jobs, Place(TheJob))
    BY DEF Sound, QueueKept, Finish, Others
<1>2. /\ Place(TheJob) \in DOMAIN jobs /\ jobs \in Seq(Job)
      /\ \A i \in DOMAIN jobs : Running(i) <=> i = Place(TheJob)
    BY <1>1, PlaceMeaning, JobsMeaning
<1>3. PICK g \in [DOMAIN jobs' -> DOMAIN jobs] :
             /\ \A k \in DOMAIN jobs' : jobs'[k] = jobs[g[k]]
             /\ \A k, h \in DOMAIN jobs' : k < h => g[k] < g[h]
             /\ \A k \in DOMAIN jobs \ {Place(TheJob)} : \E h \in DOMAIN jobs' : g[h] = k
    BY <1>1, <1>2, RemoveEmbeds
<1>4. DOMAIN jobs' \subseteq Nat /\ DOMAIN jobs \subseteq Nat
    <2>1. PICK s : s = RemoveAt(jobs, Place(TheJob))
        OBVIOUS
    <2>2. s \in Seq(Job)
        BY <1>2, <2>1, RemoveMeaning
    <2>3. DOMAIN s = 1 .. Len(s) /\ DOMAIN jobs = 1 .. Len(jobs)
        BY <1>2, <2>2
    <2> QED
        BY <1>1, <2>1, <2>3
<1>5. \A k \in DOMAIN jobs : Running(k) \/ \E h \in DOMAIN jobs' : g[h] = k
    BY <1>2, <1>3
<1> QED
    BY <1>3, <1>4, <1>5

\* A job leaves when its run has finished.
LEMMA JobsFollow ==
    ASSUME FreshStep, NEW i \in DOMAIN jobs
    PROVE  (\E j \in DOMAIN jobs' : jobs'[j].ev = jobs[i].ev) \/ (Finish /\ Running(i))
<1>1. Sound /\ OkfInv
    BY DEF FreshStep, Sound
<1>2. CASE SameEvs
    BY <1>2 DEF SameEvs
<1>3. CASE Finish
    <2>1. PICK g \in [DOMAIN jobs' -> DOMAIN jobs] :
             /\ \A k \in DOMAIN jobs' : jobs'[k].ev = jobs[g[k]].ev
             /\ \A k \in DOMAIN jobs : Running(k) \/ \E h \in DOMAIN jobs' : g[h] = k
        BY <1>1, <1>3, FinishLeaves
    <2> QED
        BY <1>3, <2>1
<1>4. ASSUME NEW e, Joined(e) PROVE \E j \in DOMAIN jobs' : jobs'[j].ev = jobs[i].ev
    BY <1>1, <1>4, JoinMeaning
<1> QED
    BY <1>2, <1>3, <1>4, QueueMoves DEF Sends

\* A job that was sent is the last, and does not run.
LEMMA SentLast ==
    ASSUME FreshStep, NEW c \in Callers, NEW e \in call[c].tell, Sends(c, e)
    PROVE  \E j \in DOMAIN jobs' :
             /\ jobs'[j].ev = e /\ ~Running(j)'
             /\ \A k \in DOMAIN jobs' : k # j => k < j /\ k \in DOMAIN jobs /\ jobs'[k] = jobs[k]
<1>1. OkfInv /\ Joined(e) /\ OneRuns'
    BY DEF FreshStep, Sound, Sends, QueueKept
<1>2. /\ DOMAIN jobs' = 1 .. Len(jobs) + 1 /\ DOMAIN jobs = 1 .. Len(jobs) /\ Len(jobs) \in Nat
      /\ \A i \in DOMAIN jobs : jobs'[i] = jobs[i]
      /\ jobs'[Len(jobs) + 1].ev = e /\ ~jobs'[Len(jobs) + 1].active
    BY <1>1, JoinMeaning
<1>3. PICK j : j = Len(jobs) + 1
    OBVIOUS
<1>4. j \in DOMAIN jobs' /\ jobs'[j].ev = e /\ ~jobs'[j].active
    BY <1>2, <1>3
<1>5. ~Running(j)'
    BY <1>1, <1>4 DEF OneRuns
<1>6. \A k \in DOMAIN jobs' : k # j => k < j /\ k \in DOMAIN jobs /\ jobs'[k] = jobs[k]
    BY <1>2, <1>3
<1> QED
    BY <1>4, <1>5, <1>6

LEMMA JobBefore ==
    ASSUME FreshStep, NEW j \in DOMAIN jobs'
    PROVE  \/ \E i \in DOMAIN jobs : jobs[i].ev = jobs'[j].ev
           \/ \E c \in Callers : \E e \in call[c].tell : Sends(c, e) /\ jobs'[j].ev = e
<1>1. Sound /\ OkfInv
    BY DEF FreshStep, Sound
<1>2. CASE SameEvs
    BY <1>2 DEF SameEvs
<1>3. CASE Finish
    BY <1>1, <1>3, FinishLeaves
<1>4. ASSUME NEW c \in Callers, NEW e \in call[c].tell, Sends(c, e)
      PROVE  jobs'[j].ev = e \/ \E i \in DOMAIN jobs : jobs[i].ev = jobs'[j].ev
    BY <1>4, SentLast
<1> QED
    BY <1>2, <1>3, <1>4, QueueMoves

LEMMA JobsInOrder ==
    ASSUME FreshStep, NEW i \in DOMAIN jobs, NEW k \in DOMAIN jobs, i < k,
           NEW j \in DOMAIN jobs', NEW l \in DOMAIN jobs',
           jobs'[j].ev = jobs[i].ev, jobs'[l].ev = jobs[k].ev
    PROVE  j < l
<1>1. /\ Sound /\ OkfInv
      /\ \A x, y \in DOMAIN jobs : jobs[x].ev = jobs[y].ev => x = y
      /\ \A x, y \in DOMAIN jobs' : jobs'[x].ev = jobs'[y].ev => x = y
    BY DEF FreshStep, Sound, QueueKept, JobNos
<1>2. CASE SameEvs
    <2>1. j = i /\ l = k
        BY <1>1, <1>2 DEF SameEvs
    <2> QED
        BY <2>1
<1>3. CASE Finish
    <2>1. PICK g \in [DOMAIN jobs' -> DOMAIN jobs] :
             /\ \A x \in DOMAIN jobs' : jobs'[x].ev = jobs[g[x]].ev
             /\ \A x, y \in DOMAIN jobs' : x < y => g[x] < g[y]
        BY <1>1, <1>3, FinishLeaves
    <2>2. g[j] = i /\ g[l] = k
        BY <1>1, <2>1
    <2>3. j \in Nat /\ l \in Nat /\ i \in Nat /\ k \in Nat
        BY <1>1, <1>3, FinishLeaves
    <2>4. j # l /\ ~(l < j)
        BY <2>1, <2>2, <2>3
    <2> QED
        BY <2>3, <2>4
<1>4. ASSUME NEW e, Joined(e) PROVE j < l
    <2>1. \A x \in DOMAIN jobs : jobs'[x] = jobs[x] /\ x \in DOMAIN jobs'
        BY <1>1, <1>4, JoinMeaning
    <2>2. j = i /\ l = k
        BY <1>1, <2>1
    <2> QED
        BY <2>2
<1> QED
    BY <1>2, <1>3, <1>4, QueueMoves DEF Sends

\* The job that runs ran before, or is taken.
Takes(i) ==
    /\ Take
    /\ worker'.at = IF jobs[i].ev.name \in Concepts THEN "index" ELSE "finish"
    /\ worker'.dirs = Dirs(jobs[i].ev) /\ TheEvent' = jobs[i].ev
    /\ worker'.refs = {[path |-> rows[n].path, name |-> rows[n].name] :
                         n \in {n \in Nodes : rows[n].stored /\ rows[n].name \in Concepts}}

LEMMA RunningBefore ==
    ASSUME FreshStep, NEW i \in DOMAIN jobs, NEW j \in DOMAIN jobs',
           jobs'[j].ev = jobs[i].ev, Running(j)'
    PROVE  (Running(i) /\ (RunsOn \/ worker' = worker)) \/ Takes(i)
<1>1. Sound /\ OkfInv /\ JobNos
    BY DEF FreshStep, Sound, QueueKept
<1>2. worker'.at # "idle" /\ TheEvent' = jobs[i].ev
    BY DEF Running
<1>3. ASSUME worker' = worker PROVE Running(i)
    BY <1>2, <1>3 DEF Running, TheEvent, TheJob
<1>4. ASSUME RunsOn PROVE Running(i)
    BY <1>2, <1>4, SameJob DEF Running, RunsOn
<1>5. Take => Takes(i)
    <2> HAVE Take
    <2>1. PICK k \in DOMAIN jobs :
             /\ TheEvent' = jobs[k].ev
             /\ worker'.at = IF jobs[k].ev.name \in Concepts THEN "index" ELSE "finish"
             /\ worker'.dirs = Dirs(jobs[k].ev)
             /\ worker'.refs = {[path |-> rows[n].path, name |-> rows[n].name] :
                                  n \in {n \in Nodes : rows[n].stored /\ rows[n].name \in Concepts}}
        BY <1>1, Taking
    <2>2. k = i
        BY <1>1, <1>2, <2>1 DEF JobNos
    <2> QED
        BY <2>1, <2>2 DEF Takes
<1>6. ~Throws /\ ~Finish
    <2>1. Resting.at = "idle"
        BY DEF Resting
    <2> QED
        BY <1>2, <2>1 DEF Throws, Finish
<1>7. Tick => worker' = worker
    BY DEF Tick
<1> QED
    BY <1>3, <1>4, <1>5, <1>6, <1>7
       DEF FreshStep, Shapes, QueueStill, Storing, Writing, Deleting, Sending

-----------------------------------------------------------------------------
(* What is beside a file, and whether a delete will take it unsaid.        *)

\* A delete of files side by side takes them all, with their folder, or is of
\* one concept.
LEMMA DeletedBeside ==
    ASSUME Sound, Settled, Deletions, NEW c \in Callers, Deleting(c),
           NEW n \in Nodes, ~rows[n].folder, NEW k \in Nodes, ~rows[k].folder,
           rows[n].parent = rows[k].parent, k \in call[c].todo
    PROVE  IF call[c].folder THEN n \in call[c].todo ELSE rows[k].name \in Concepts
<1> DEFINE i == call[c].id
<1>1. /\ OkfInv /\ RowsOK(rows) /\ call[c].at = "remove" /\ call[c].kind = "delete"
      /\ call[c] # Idle /\ ~Shifting(call[c])
      /\ n \in DOMAIN rows /\ rows[n].there /\ k \in DOMAIN rows /\ rows[k].there
    BY DEF Sound, OkfInv, TreeInv, Deleting, Idle, Shifting, Nodes
<1>2. IsTree(rows) /\ CallFacts(call[c], rows)
    BY <1>1, Planted DEF Sound, Facts, Busy
<1>3. CASE call[c].folder
    <2>1. i \in DOMAIN rows /\ rows[i].there /\ call[c].todo = {i} \cup Under(rows, i)
        BY <1>1, <1>2, <1>3 DEF CallFacts, OnFolder, FolderFacts
    <2>2. rows[i].folder
        BY <1>1, <1>3, <2>1 DEF Deletions
    <2>3. rows[n].path = rows[k].path
        BY <1>1, <1>2, SameFolder
    <2>4. k \in Under(rows, i) => n \in Under(rows, i)
        BY <1>1, <2>3 DEF Under
    <2> QED
        BY <1>3, <2>1, <2>2, <2>4
<1>4. CASE ~call[c].folder
    <2>1. call[c].todo = {i}
        BY <1>1, <1>2, <1>4 DEF CallFacts, OnFolder, FileFacts
    <2>2. rows[i].name \in Concepts
        BY <1>4 DEF Deleting
    <2> QED
        BY <1>4, <2>1, <2>2
<1> QED
    BY <1>3, <1>4

\* An index.md beside a file stays beside it.
HasIndex(n) ==
    \E k \in Nodes : ~rows[k].folder /\ rows[k].parent = rows[n].parent
                     /\ rows[k].name = "index.md"

LEMMA HasIndexStays ==
    ASSUME FreshStep, NEW n \in Nodes, ~rows[n].folder, Keeps(n), HasIndex(n)
    PROVE  HasIndex(n)'
<1>1. PICK k \in Nodes : /\ ~rows[k].folder /\ rows[k].parent = rows[n].parent
                         /\ rows[k].name = "index.md"
    BY DEF HasIndex
<1>2. Sound /\ Settled /\ Deletions /\ "index.md" \notin Concepts
    BY TreeAssumption DEF FreshStep, Fresh, Upkept
<1>3. ASSUME NEW c \in Callers, Deleting(c), k \in call[c].todo PROVE FALSE
    <2>1. n \in call[c].todo
        BY <1>1, <1>2, <1>3, DeletedBeside
    <2> QED
        BY <1>3, <2>1 DEF Deleting, Nodes, Keeps
<1>4. Keeps(k)
    BY <1>1, <1>3, FileStays
<1> QED
    BY <1>1, <1>4 DEF HasIndex, Keeps, Nodes

\* In a tree, folders are parents.
LEMMA BesideMeaning ==
    ASSUME Sound, IsTree(rows), NEW n \in Nodes, NEW k \in Nodes
    PROVE  rows[n].parent = rows[k].parent <=> rows[n].path = rows[k].path
BY SameFolder DEF Sound, OkfInv, TreeInv, Nodes

\* While there are calls or jobs and no folder is on its way, there is a tree.
LEMMA BusyPlanted ==
    ASSUME Sound, Fresh, jobs # <<>> \/ \E c \in Callers : call[c].kind = "delete" \/ call[c].tell # {}
    PROVE  IsTree(rows)
<1>1. ASSUME NEW c \in Callers, call[c].kind = "delete" \/ call[c].tell # {}
      PROVE  call[c] # Idle /\ ~Shifting(call[c])
    <2>1. call[c] # Idle
        BY <1>1 DEF Idle
    <2>2. CallFacts(call[c], rows)
        BY <2>1 DEF Sound, Facts, Busy
    <2>3. call[c].at \in {"tell", "remove"}
        BY <1>1, <2>2 DEF CallFacts, StageFacts, Sound, QueueKept, CallNos
    <2> QED
        BY <2>1, <2>3 DEF Shifting
<1> QED
    BY <1>1, Planted DEF Fresh

\* One file has one place.
LEMMA OneFile ==
    ASSUME IsTree(rows), NEW p, NEW m, NEW n \in Files(p, m), NEW k \in Files(p, m)
    PROVE  n = k
<1>1. /\ n \in DOMAIN rows /\ rows[n].there /\ rows[n].path = p /\ rows[n].name = m
      /\ AtPlace(rows, k, p, m) /\ k \in DOMAIN rows
    BY FilesMeaning DEF AtPlace
<1>2. Placed(rows, n)
    BY <1>1, TreeMeaning
<1> QED
    BY <1>1, <1>2 DEF Placed

LEMMA IndexBeside ==
    ASSUME Sound, IsTree(rows), NEW n \in Nodes
    PROVE  HasIndex(n) <=> Files(rows[n].path, "index.md") # {}
<1>1. ASSUME NEW k, k \in Files(rows[n].path, "index.md") PROVE HasIndex(n)
    BY <1>1, FilesMeaning, BesideMeaning DEF HasIndex, Nodes
<1>2. ASSUME NEW k \in Nodes, ~rows[k].folder, rows[k].parent = rows[n].parent,
             rows[k].name = "index.md"
      PROVE  k \in Files(rows[n].path, "index.md")
    BY <1>2, FilesMeaning, BesideMeaning DEF Nodes
<1> QED
    BY <1>1, <1>2 DEF HasIndex

\* A delete's event for such a file joins the queue.
NewDrop(p, m) ==
    \E c \in Callers : \E e \in call[c].tell :
      Sends(c, e) /\ e.kind = "delete" /\ Of(e, p, m)

LEMMA SparedStays ==
    ASSUME FreshStep, NEW n \in Nodes, ~rows[n].folder, Keeps(n), Spared(n)
    PROVE  Spared(n)' \/ NewDrop(rows[n].path, rows[n].name)
<1>1. Sound /\ Shapes /\ Deletions /\ CallNos
    BY DEF FreshStep, Upkept, Sound, QueueKept
<1>2. SUFFICES ASSUME ~NewDrop(rows[n].path, rows[n].name), rows'[n].name \in Concepts,
                      NEW d \in Callers, call'[d].kind = "delete", n \in call'[d].todo
               PROVE  \E e \in call'[d].tell : Of(e, rows'[n].path, rows'[n].name)
    BY DEF Spared
<1>3. rows'[n].name = rows[n].name /\ rows'[n].path = rows[n].path
    BY <1>2, ShiftsAlone DEF Keeps
<1>4. Concept(n)
    BY <1>2, <1>3 DEF Concept
<1>5. ASSUME call[d].kind = "delete", n \in call[d].todo
      PROVE  \E e \in call[d].tell : Of(e, rows[n].path, rows[n].name)
    BY <1>4, <1>5 DEF Spared, Concept
<1>7. CASE call'[d] = call[d]
    BY <1>2, <1>3, <1>5, <1>7
<1>8. CASE call'[d] = Idle
    BY <1>2, <1>8 DEF Idle
<1>9. CASE Started(d)
    <2>1. \A k \in call'[d].todo : Concept(k) =>
             \E e \in call'[d].tell : Of(e, rows[k].path, rows[k].name)
        BY <1>9 DEF Started, Telling
    <2> QED
        BY <1>2, <1>3, <1>4, <2>1
<1>10. CASE call'[d] # Idle /\ (TreeMove(d) \/ Storing(d) \/ Writing(d))
    <2>1. call[d].kind = "delete"
        BY <1>2, <1>10 DEF TreeMove, SameCall, Storing, Writing, Spoke, SameAim
    <2>2. CallFacts(call[d], rows) /\ call[d].at \in {"tell", "remove"}
        <3>1. call[d] # Idle
            BY <2>1 DEF Idle
        <3>2. CallFacts(call[d], rows)
            BY <1>1, <3>1 DEF Sound, Facts, Busy
        <3> QED
            BY <2>1, <3>2 DEF CallFacts, StageFacts
    <2>3. TreeMove(d) /\ call[d].at = "tell"
        BY <1>10, <2>2 DEF TreeMove, Storing, Writing, Creating, Moving
    <2>4. call[d].tell = {} /\ call'[d].todo = call[d].todo
        BY <1>10, <2>3 DEF TreeMove
    <2> QED
        BY <1>2, <1>5, <2>1, <2>4
<1>11. CASE call'[d] # Idle /\ Sending(d)
    <2>1. PICK e \in call[d].tell : Sends(d, e)
        BY <1>11 DEF Sending, Sends
    <2>2. SameAim(call'[d], call[d]) /\ call'[d].tell = call[d].tell \ {e}
        BY <1>11, <2>1 DEF Sends, Said
    <2>3. call[d].kind = "delete" /\ n \in call[d].todo
        BY <1>2, <2>2 DEF SameAim
    <2>4. PICK f \in call[d].tell : Of(f, rows[n].path, rows[n].name)
        BY <1>5, <2>3
    <2>5. f.kind = "delete"
        BY <1>1, <2>3 DEF Deletions
    <2>6. f # e
        BY <1>2, <2>1, <2>4, <2>5 DEF NewDrop
    <2> QED
        BY <1>3, <2>2, <2>4, <2>6
<1>12. CASE \E p, m, l : MakingFile(p, m, l) /\ d = Worker
    BY <1>2, <1>12 DEF MakingFile
<1> QED
    BY <1>1, <1>7, <1>8, <1>9, <1>10, <1>11, <1>12, CallShapes

\* A file that a delete takes unsaid is no concept.
LEMMA NotUnsaid ==
    ASSUME FreshStep, NEW n \in Nodes, ~rows[n].folder, Spared(n),
           NEW c \in Callers, Deleting(c), n \in call[c].todo
    PROVE  rows[n].name \notin Concepts
<1>1. call[c].kind = "delete" /\ call[c].at = "remove"
    BY DEF Deleting
<1>2. call[c].tell = {}
    BY <1>1 DEF FreshStep, Sound, QueueKept, CallNos
<1> QED
    BY <1>1, <1>2 DEF Spared

LEMMA SafeStays ==
    ASSUME FreshStep, ~Shifts, NEW p, NEW m \in Concepts, Safe(p, m)
    PROVE  Safe(p, m)' \/ NewDrop(p, m)
<1>1. PICK n \in Files(p, m) : Spared(n)
    BY DEF Safe
<1>2. n \in Nodes /\ ~rows[n].folder /\ rows[n].path = p /\ rows[n].name = m
    BY <1>1, FilesMeaning DEF Nodes
<1>3. Keeps(n)
    BY <1>1, <1>2, FileStays, NotUnsaid
<1>4. n \in Files(p, m)'
    <2>1. /\ n \in DOMAIN rows' /\ rows'[n].there /\ ~rows'[n].folder
          /\ rows'[n].path = p /\ rows'[n].name = m
        BY <1>2, <1>3 DEF Keeps
    <2> QED
        BY <2>1 DEF Files, At, Nodes
<1> QED
    BY <1>1, <1>2, <1>3, <1>4, SparedStays DEF Safe

\* It is the last of the queue.
LEMMA NewDropLast ==
    ASSUME FreshStep, NEW p, NEW m \in Concepts, NewDrop(p, m)
    PROVE  /\ rows' = rows /\ worker' = worker
           /\ \E j \in DOMAIN jobs' :
                /\ Drop(j, p, m)' /\ ~Running(j)'
                /\ \A k \in DOMAIN jobs' : k # j => k < j
<1>1. PICK c \in Callers : \E e \in call[c].tell : Sends(c, e) /\ e.kind = "delete" /\ Of(e, p, m)
    BY DEF NewDrop
<1>2. PICK e \in call[c].tell : Sends(c, e) /\ e.kind = "delete" /\ Of(e, p, m)
    BY <1>1
<1>3. PICK j \in DOMAIN jobs' : /\ jobs'[j].ev = e /\ ~Running(j)'
                                /\ \A k \in DOMAIN jobs' : k # j => k < j
    BY <1>2, SentLast
<1>4. Drop(j, p, m)'
    BY <1>2, <1>3 DEF Drop, Of
<1> QED
    BY <1>2, <1>3, <1>4 DEF Sends, Said

-----------------------------------------------------------------------------
(* What is known of bullets and of the events that would add them.         *)

\* The file that a user makes begins without bullets.
Blank == \A c \in Users : call[c].kind # "save" => call[c].text.listed = {}

\* A call's events are of the call's own file.
TellsTrue ==
    \A c \in Callers : \A e \in call[c].tell :
      e.kind # "delete" /\ e.name \in Unmixed =>
        Single(e) /\ call[c].id \in Files(e.path, e.name)

\* A queued event that would add a bullet is of a file that no delete will take
\* unsaid, or its delete is queued behind it.
Outlived(i) ==
    LET e == jobs[i].ev
    IN  \/ Safe(e.path, e.name)
        \/ \E k \in DOMAIN jobs : i < k /\ Drop(k, e.path, e.name)
JobsTrue ==
    \A i \in DOMAIN jobs :
      jobs[i].ev.kind # "delete" /\ jobs[i].ev.name \in Unmixed =>
        Single(jobs[i].ev) /\ Outlived(i)

\* So is what a run has read and may put in an index.md it makes, unless there
\* is an index.md.
RefTrue(j, m) ==
    LET d == worker.dirs[j]
    IN  \/ Safe(d, m)
        \/ \E k \in DOMAIN jobs : Drop(k, d, m)
        \/ worker.at = "merge" /\ j = 1
        \/ (worker.at = "index" \/ j # 1) /\ Files(d, "index.md") # {}
RefsTrue ==
    worker.at \in {"index", "making", "merge"} =>
      /\ TheEvent.name \in Concepts
      /\ worker.at = "making" => TheEvent.kind # "delete"
      /\ TheEvent.kind # "delete" =>
           \A j \in DOMAIN worker.dirs : \A m \in Unmixed :
             [path |-> worker.dirs[j], name |-> m] \in worker.refs => RefTrue(j, m)

\* A file that a delete will take has an index.md beside it, or a job that will
\* make one; and when its event is queued, it is queued behind such jobs.
Foreseen(p, m) == \E i \in DOMAIN jobs : Waits(i, p, m) /\ (Running(i) => ToDo(p, m))
CondemnedSeen ==
    \A n, p, m : Concept(n) /\ rows[n].path = p /\ rows[n].name = m /\ m \in Unmixed
                 /\ Condemned(n)
                 => HasIndex(n) \/ Foreseen(p, m)

DropsLast(i, p, m) ==
    /\ Drop(i, p, m) /\ (Running(i) => worker.at = "index")
    /\ \A k \in DOMAIN jobs : Waits(k, p, m) => k < i
Dropped(p, m) == \E i \in DOMAIN jobs : DropsLast(i, p, m)
DropsSeen ==
    \A n, p, m : Concept(n) /\ rows[n].path = p /\ rows[n].name = m /\ m \in Unmixed
                 /\ ~Spared(n)
                 => HasIndex(n) \/ Dropped(p, m)

\* A bullet is of a file beside its index.md that no delete will take unsaid, or
\* it will be taken away.
IsBeside(n, k, m) ==
    /\ n \in Nodes /\ ~rows[n].folder /\ rows[n].parent = rows[k].parent
    /\ rows[n].name = m /\ Spared(n)
TakesAway(i, k, m) ==
    Drop(i, rows[k].path, m) /\ (Running(i) => worker.at \in {"index", "merge"})
Justified(k, m) ==
    \/ \E n \in DOMAIN rows : IsBeside(n, k, m)
    \/ \E i \in DOMAIN jobs : TakesAway(i, k, m)
BulletsTrue ==
    \A k, m : /\ k \in Nodes /\ ~rows[k].folder /\ rows[k].name = "index.md"
              /\ m \in rows[k].text.listed \cap (FileNames \ FolderNames)
              => Justified(k, m)

Known ==
    /\ Blank /\ TellsTrue /\ JobsTrue /\ RefsTrue /\ CondemnedSeen /\ DropsSeen
    /\ BulletsTrue

FreshHolds == Fresh => Known

-----------------------------------------------------------------------------
(* What calls tell, and what jobs and runs are about.                      *)

LEMMA BlankStays ==
    ASSUME Sound, Shapes, Blank
    PROVE  Blank'
<1> SUFFICES ASSUME NEW c \in Users, call'[c].kind # "save" PROVE call'[c].text.listed = {}
    BY DEF Blank
<1>1. c \in Callers /\ c # Worker
    BY DEF Users
<1>2. CASE call'[c] = Idle
    BY <1>2 DEF Idle, NoText
<1>3. CASE call'[c].kind = call[c].kind /\ call'[c].text = call[c].text
    BY <1>3 DEF Blank
<1>4. CASE Started(c)
    BY <1>4 DEF Started
<1>5. TreeMove(c) => call'[c] = Idle \/ SameCall(call'[c], call[c])
    BY DEF TreeMove
<1>6. Storing(c) \/ Writing(c) => call'[c] = Idle \/ SameAim(call'[c], call[c])
    BY DEF Storing, Writing, Spoke
<1>7. Sending(c) => call'[c] = Idle \/ SameAim(call'[c], call[c])
    BY DEF Sending, Said
<1> QED
    BY <1>1, <1>2, <1>3, <1>4, <1>5, <1>6, <1>7, CallShapes DEF SameCall, SameAim

\* A call tells of the file it has written.
LEMMA TellsStay ==
    ASSUME FreshStep, TellsTrue
    PROVE  TellsTrue'
<1>1. /\ Sound /\ Sound' /\ Settled /\ Shapes /\ Creations /\ CallNos
      /\ "renamed" \notin odd' /\ RowsOK(rows) /\ RowsOK(rows')
    BY DEF FreshStep, Fresh, Upkept, Sound, QueueKept, OkfInv, TreeInv
<1> SUFFICES ASSUME NEW c \in Callers, NEW e \in call'[c].tell,
                    e.kind # "delete", e.name \in Unmixed
             PROVE  Single(e) /\ call'[c].id \in Files(e.path, e.name)'
    BY DEF TellsTrue
<1>2. call'[c] # Idle /\ e.name \notin FolderNames
    BY DEF Idle, Unmixed
<1>3. ASSUME e \in call[c].tell, call'[c].id = call[c].id
      PROVE  Single(e) /\ call'[c].id \in Files(e.path, e.name)'
    <2>1. Single(e) /\ call[c].id \in Files(e.path, e.name)
        BY <1>3 DEF TellsTrue
    <2>2. call[c].at = "tell" /\ call[c].id \in Owned(call[c]) /\ call[c].id \in DOMAIN rows
        BY <1>1, <1>3, <2>1, FilesMeaning DEF CallNos, Owned
    <2>3. call[c].id \in DOMAIN rows' /\ SameRow(rows[call[c].id], rows'[call[c].id])
        BY <1>1, <2>2, OwnedStay
    <2> QED
        BY <1>3, <2>1, <2>3, FilesStay
<1>4. CASE call'[c] = call[c]
    BY <1>3, <1>4
<1>5. ~Started(c)
    BY DEF Started, Telling
<1>6. ~TreeMove(c)
    BY <1>1, <1>2 DEF TreeMove, SameCall, CallNos, Creating, Moving
<1>7. CASE Storing(c)
    <2> DEFINE i == call[c].id
    <2>1. SameAim(call'[c], call[c]) /\ call[c].at = "store" /\ i \in DOMAIN rows
        BY <1>2, <1>7 DEF Storing, Spoke
    <2>2. /\ rows[i].there /\ SameShape(rows, rows') /\ Single(e)
          /\ IF call[c].kind = "save" THEN Of(e, rows[i].path, rows[i].name)
             ELSE Of(e, call[c].path, call[c].name)
        BY <1>2, <1>7 DEF Storing
    <2>3. i \in Files(e.path, e.name)
        <3>1. CASE call[c].kind = "save"
            <4>1. rows[i].path = e.path /\ rows[i].name = e.name
                BY <2>2, <3>1 DEF Of
            <4>2. ~rows[i].folder
                BY <1>1, <1>2, <2>1, <4>1 DEF RowsOK
            <4> QED
                BY <2>1, <2>2, <4>1, <4>2, FilesMeaning
        <3>2. CASE call[c].kind # "save"
            BY <1>1, <2>1, <2>2, <3>2 DEF Creations, Of
        <3> QED
            BY <3>1, <3>2
    <2>4. i \in DOMAIN rows' /\ SameRow(rows[i], rows'[i]) /\ call'[c].id = i
        BY <2>1, <2>2 DEF SameShape, SameAim
    <2> QED
        BY <2>2, <2>3, <2>4, FilesStay
<1>8. ~Writing(c)
    <2> SUFFICES ASSUME Writing(c) PROVE FALSE
        OBVIOUS
    <2> DEFINE i == call[c].id
    <2>1. /\ DOMAIN rows' = DOMAIN rows /\ i \in DOMAIN rows
          /\ rows[i].folder = call[c].folder /\ rows'[i].folder = rows[i].folder
          /\ ~call[c].folder => "renamed" \in odd' /\ e.name = rows'[i].name
          /\ e.name = rows'[i].name
        BY <1>2 DEF Writing
    <2>2. rows'[i].folder
        BY <1>1, <2>1
    <2> QED
        BY <1>1, <1>2, <2>1, <2>2 DEF RowsOK
<1>9. CASE Sending(c)
    <2>1. PICK f \in call[c].tell : Said(c, f)
        BY <1>9 DEF Sending
    <2>2. SameAim(call'[c], call[c]) /\ call'[c].tell = call[c].tell \ {f}
        BY <1>2, <2>1 DEF Said
    <2> QED
        BY <1>3, <2>2 DEF SameAim
<1>10. ~\E p, m, l : c = Worker /\ MakingFile(p, m, l)
    BY DEF MakingFile
<1> QED
    BY <1>1, <1>2, <1>4, <1>5, <1>6, <1>7, <1>8, <1>9, <1>10, CallShapes

\* No delete takes the file that a call tells of.
LEMMA ToldIsSpared ==
    ASSUME Sound, TellsTrue, NEW c \in Callers, NEW e \in call[c].tell,
           e.kind # "delete", e.name \in Unmixed, Deletions
    PROVE  Safe(e.path, e.name) /\ ~Condemned(call[c].id)
<1>1. call[c].id \in Files(e.path, e.name)
    BY DEF TellsTrue
<1>2. call[c] # Idle /\ call[c].kind # "delete"
    BY DEF Idle, Deletions
<1>3. ASSUME NEW d \in Callers, call[d].kind = "delete", call[c].id \in call[d].todo PROVE FALSE
    <2>1. call[d] # Idle /\ d # c
        BY <1>2, <1>3 DEF Idle
    <2>2. call[c].id \in Owned(call[c]) /\ call[c].id \in Owned(call[d])
        BY <1>3 DEF Owned
    <2>3. call[c].id \in DOMAIN rows
        BY <1>1, FilesMeaning
    <2> QED
        BY <1>2, <2>1, <2>2, <2>3, OwnedApart
<1> QED
    BY <1>1, <1>3 DEF Safe, Spared, Condemned

\* A job stays, or its run has finished; and a delete of the folder's file
\* does not finish while another job of the folder waits in front of it.
LEMMA DropFollows ==
    ASSUME FreshStep, JobsTrue, NEW i \in DOMAIN jobs, NEW k \in DOMAIN jobs, i < k,
           NEW p, NEW m \in Unmixed, Waits(i, p, m), Drop(k, p, m)
    PROVE  ~Running(k) /\ \E l \in DOMAIN jobs' : jobs'[l].ev = jobs[k].ev
<1>1. OneRuns /\ JobNos
    BY DEF FreshStep, Sound, QueueKept
<1>2. jobs[i].ev.key = jobs[k].ev.key
    <2>1. Single(jobs[i].ev) /\ jobs[i].ev.path = p
        BY DEF JobsTrue, Waits, Of
    <2>2. Single(jobs[k].ev) /\ jobs[k].ev.path = p
        BY <1>1 DEF JobNos, EventOK, Drop, Of
    <2> QED
        BY <2>1, <2>2 DEF Single
<1>3. ~Running(k)
    BY <1>1, <1>2 DEF OneRuns
<1> QED
    BY <1>3, JobsFollow

LEMMA JobsStay ==
    ASSUME FreshStep, JobsTrue, TellsTrue
    PROVE  JobsTrue'
<1> SUFFICES ASSUME NEW j \in DOMAIN jobs', jobs'[j].ev.kind # "delete",
                    jobs'[j].ev.name \in Unmixed
             PROVE  Single(jobs'[j].ev) /\ Outlived(j)'
    BY DEF JobsTrue
<1>1. PICK e : e = jobs'[j].ev
    OBVIOUS
<1>2. PICK p, m : p = e.path /\ m = e.name
    OBVIOUS
<1>3. m \in Unmixed /\ m \in Concepts /\ e.kind # "delete" /\ Sound /\ Deletions
    BY <1>1, <1>2 DEF Unmixed, FreshStep, Upkept
<1>4. ASSUME Safe(p, m)' PROVE Outlived(j)'
    BY <1>1, <1>2, <1>4 DEF Outlived
<1>5. ASSUME NEW l \in DOMAIN jobs', j < l, Drop(l, p, m)' PROVE Outlived(j)'
    BY <1>1, <1>2, <1>5 DEF Outlived
<1>6. ASSUME ~Shifts, Safe(p, m) PROVE Outlived(j)'
    <2>1. CASE NewDrop(p, m)
        <3>1. PICK l \in DOMAIN jobs' : Drop(l, p, m)' /\ \A k \in DOMAIN jobs' : k # l => k < l
            BY <1>3, <2>1, NewDropLast
        <3>2. j # l
            BY <1>1, <1>3, <3>1 DEF Drop
        <3> QED
            BY <1>5, <3>1, <3>2
    <2> QED
        BY <1>3, <1>4, <1>6, <2>1, SafeStays
<1>7. ASSUME NEW i \in DOMAIN jobs, jobs[i].ev = e PROVE Single(e) /\ Outlived(j)'
    <2>1. Single(e) /\ Outlived(i)
        BY <1>2, <1>3, <1>7 DEF JobsTrue
    <2>2. ~Shifts
        BY <1>7, ShiftsAlone
    <2>3. ASSUME NEW k \in DOMAIN jobs, i < k, Drop(k, p, m) PROVE Outlived(j)'
        <3>1. Waits(i, p, m)
            BY <1>2, <1>3, <1>7 DEF Waits, Of
        <3>2. PICK l \in DOMAIN jobs' : jobs'[l].ev = jobs[k].ev
            BY <1>3, <2>3, <3>1, DropFollows
        <3>3. j < l /\ Drop(l, p, m)'
            BY <1>1, <1>7, <2>3, <3>2, JobsInOrder DEF Drop
        <3> QED
            BY <1>5, <3>3
    <2>4. Safe(p, m) \/ \E k \in DOMAIN jobs : i < k /\ Drop(k, p, m)
        BY <1>2, <1>7, <2>1 DEF Outlived
    <2> QED
        BY <1>6, <2>1, <2>2, <2>3, <2>4
<1>8. ASSUME NEW c \in Callers, e \in call[c].tell, Sends(c, e) PROVE Single(e) /\ Outlived(j)'
    <2>1. Single(e) /\ Safe(p, m)
        BY <1>2, <1>3, <1>8, ToldIsSpared DEF TellsTrue
    <2>2. ~Shifts
        BY <1>8, ShiftsAlone DEF Sends, Said
    <2> QED
        BY <1>6, <2>1, <2>2
<1> QED
    BY <1>1, <1>7, <1>8, JobBefore

\* Of what a run has read nothing is lost before it gets to it.
LEMMA RefStays ==
    ASSUME FreshStep, worker.at \in {"index", "making", "merge"}, NEW j \in DOMAIN worker.dirs,
           NEW m \in Unmixed, RefTrue(j, m),
           NEW i \in DOMAIN worker'.dirs, worker'.dirs[i] = worker.dirs[j],
           worker'.at \in {"index", "making", "merge"},
           worker.at = "merge" /\ j = 1 => worker'.at = "merge" /\ i = 1,
           worker.at = "index" \/ j # 1 =>
             \/ worker'.at = "index" \/ i # 1
             \/ worker'.at = "merge" /\ i = 1
             \/ Files(worker.dirs[j], "index.md") = {}
    PROVE  RefTrue(i, m)'
<1>1. PICK d : d = worker.dirs[j]
    OBVIOUS
<1>2. /\ Sound /\ Settled /\ Shapes /\ OkfInv /\ "razed" \notin odd' /\ m \in Concepts
      /\ "index.md" \notin Concepts
    BY TreeAssumption DEF FreshStep, Fresh, Unmixed, Sound
<1>3. ~Shifts /\ jobs # <<>>
    BY <1>2, ShiftsAlone, WorkHasJobs DEF Sound
<1>4. worker'.dirs[i] = d
    BY <1>1
<1>5. ASSUME Safe(d, m)' PROVE RefTrue(i, m)'
    BY <1>4, <1>5 DEF RefTrue
<1>6. ASSUME NEW k \in DOMAIN jobs', Drop(k, d, m)' PROVE RefTrue(i, m)'
    BY <1>4, <1>6 DEF RefTrue
<1>7. CASE Safe(d, m)
    <2>1. CASE NewDrop(d, m)
        BY <1>2, <1>6, <2>1, NewDropLast
    <2> QED
        BY <1>2, <1>3, <1>5, <1>7, <2>1, SafeStays
<1>8. ASSUME NEW k \in DOMAIN jobs, Drop(k, d, m) PROVE RefTrue(i, m)'
    <2>1. ~Finish
        BY DEF Finish
    <2>2. PICK l \in DOMAIN jobs' : jobs'[l].ev = jobs[k].ev
        BY <2>1, JobsFollow
    <2>3. Drop(l, d, m)'
        BY <1>8, <2>2 DEF Drop
    <2> QED
        BY <1>6, <2>3
<1>9. CASE worker.at = "merge" /\ j = 1
    BY <1>9 DEF RefTrue
<1>10. CASE worker'.at = "merge" /\ i = 1
    BY <1>10 DEF RefTrue
<1>11. ASSUME worker.at = "index" \/ j # 1, NEW k \in Files(d, "index.md"),
              worker'.at = "index" \/ i # 1
       PROVE  RefTrue(i, m)'
    <2>1. k \in DOMAIN rows' /\ (rows'[k].there => k \in Files(d, "index.md")')
        BY <1>2, <1>3, IndexStays
    <2>2. k \in Nodes /\ ~rows[k].folder /\ rows[k].name = "index.md"
        BY FilesMeaning DEF Nodes
    <2>3. ASSUME NEW c \in Callers, Deleting(c), k \in call[c].todo PROVE FALSE
        <3>1. ~call[c].folder
            <4>1. worker.at = "index" \/ Len(worker.dirs) > 1
                <5>1. worker.dirs \in Seq(Seq(FolderNames))
                    BY <1>2 DEF OkfInv, WorkerOK, Working
                <5>2. Len(worker.dirs) \in Nat /\ DOMAIN worker.dirs = 1 .. Len(worker.dirs)
                    BY <5>1
                <5> QED
                    BY <1>11, <5>2
            <4> QED
                BY <1>2, <2>3, <4>1 DEF Deleting
        <3>2. Deletions
            BY DEF FreshStep, Upkept
        <3>3. rows[k].name \in Concepts
            BY <1>2, <2>2, <2>3, <3>1, <3>2, DeletedBeside
        <3> QED
            BY <1>2, <2>2, <3>3
    <2>4. rows'[k].there
        BY <2>2, <2>3, FileStays DEF Keeps
    <2>5. Files(d, "index.md")' # {}
        BY <2>1, <2>4
    <2> QED
        BY <1>4, <1>11, <2>5 DEF RefTrue
<1>12. \/ Safe(d, m)
       \/ \E k \in DOMAIN jobs : Drop(k, d, m)
       \/ worker.at = "merge" /\ j = 1
       \/ (worker.at = "index" \/ j # 1) /\ Files(d, "index.md") # {}
    BY <1>1 DEF RefTrue
<1>13. CASE (worker.at = "index" \/ j # 1) /\ Files(d, "index.md") # {}
    BY <1>1, <1>10, <1>11, <1>13
<1> QED
    BY <1>7, <1>8, <1>9, <1>12, <1>13

LEMMA SameRefs ==
    ASSUME FreshStep, RefsTrue, worker' = worker
    PROVE  RefsTrue'
<1>1. TheEvent' = TheEvent
    BY DEF TheEvent, TheJob
<1>2. ASSUME worker.at \in {"index", "making", "merge"}, NEW j \in DOMAIN worker.dirs,
             NEW m \in Unmixed, RefTrue(j, m)
      PROVE  RefTrue(j, m)'
    BY <1>2, RefStays
<1> QED
    BY <1>1, <1>2 DEF RefsTrue

LEMMA OnwardRefs ==
    ASSUME FreshStep, RefsTrue, worker' = OnToNext, worker'.at # "idle",
           worker.at \in {"index", "making", "merge"}
    PROVE  RefsTrue'
<1>1. OkfInv
    BY DEF FreshStep, Sound
<1>2. /\ worker'.at \in {"log", "index"} /\ worker'.dirs = Tail(worker.dirs)
      /\ worker'.refs = worker.refs /\ TheEvent' = TheEvent
    BY <1>1, OnToNextShape, SameJob
<1>3. ASSUME NEW i \in DOMAIN worker'.dirs
      PROVE  i + 1 \in DOMAIN worker.dirs /\ worker'.dirs[i] = worker.dirs[i + 1] /\ i + 1 # 1
    <2>1. PICK s : s = worker.dirs
        OBVIOUS
    <2>2. s \in Seq(Seq(FolderNames)) /\ s # <<>>
        BY <1>1, <2>1 DEF OkfInv, WorkerOK, Working
    <2>3. /\ Len(s) \in Nat /\ DOMAIN s = 1 .. Len(s) /\ DOMAIN Tail(s) = 1 .. Len(s) - 1
          /\ \A x \in DOMAIN Tail(s) : Tail(s)[x] = s[x + 1]
        BY <2>2
    <2>4. i \in DOMAIN Tail(s)
        BY <1>2, <2>1
    <2>5. i + 1 \in DOMAIN s /\ i + 1 # 1 /\ Tail(s)[i] = s[i + 1]
        BY <2>3, <2>4
    <2> QED
        BY <1>2, <2>1, <2>5
<1>4. ASSUME worker'.at = "index", NEW i \in DOMAIN worker'.dirs, NEW m \in Unmixed,
             TheEvent.kind # "delete",
             [path |-> worker'.dirs[i], name |-> m] \in worker.refs
      PROVE  RefTrue(i, m)'
    <2>1. PICK j \in DOMAIN worker.dirs : j = i + 1 /\ j # 1 /\ worker'.dirs[i] = worker.dirs[j]
        BY <1>3
    <2>2. RefTrue(j, m)
        BY <1>4, <2>1 DEF RefsTrue
    <2> QED
        BY <1>4, <2>1, <2>2, RefStays
<1> QED
    BY <1>2, <1>4 DEF RefsTrue

\* At its start a run has an index.md, or the delete's event is queued already.
LEMMA TakenRefs ==
    ASSUME FreshStep, DropsSeen, Take
    PROVE  RefsTrue'
<1>1. Sound /\ OkfInv /\ UNCHANGED rows /\ jobs # <<>>
    <2>1. OkfInv /\ \E i \in DOMAIN jobs : TRUE
        BY DEF Take, FreshStep, Sound
    <2> QED
        BY <2>1 DEF Take, Rests, treeVars, FreshStep
<1>2. PICK k \in DOMAIN jobs :
             /\ DOMAIN jobs' = DOMAIN jobs /\ jobs'[k].ev = jobs[k].ev
             /\ \A i \in DOMAIN jobs \ {k} : jobs'[i] = jobs[i]
             /\ TheEvent' = jobs[k].ev
             /\ worker'.at = IF jobs[k].ev.name \in Concepts THEN "index" ELSE "finish"
             /\ worker'.refs = {[path |-> rows[n].path, name |-> rows[n].name] :
                                  n \in {n \in Nodes : rows[n].stored /\ rows[n].name \in Concepts}}
    BY <1>1, Taking
<1>3. ~Shifts /\ IsTree(rows)
    BY <1>1, ShiftsAlone, BusyPlanted DEF FreshStep
<1>4. ASSUME NEW j \in DOMAIN worker'.dirs, NEW m \in Unmixed, worker'.at = "index",
             [path |-> worker'.dirs[j], name |-> m] \in worker'.refs
      PROVE  RefTrue(j, m)'
    <2>1. PICK d : d = worker'.dirs[j]
        OBVIOUS
    <2>2. PICK n \in Nodes : /\ [path |-> d, name |-> m] = [path |-> rows[n].path, name |-> rows[n].name]
                             /\ rows[n].name \in Concepts
        BY <1>2, <1>4, <2>1
    <2>3. rows[n].path = d /\ rows[n].name = m /\ m \in Concepts
        BY <2>2
    <2>4. ~rows[n].folder
        BY <1>1, <2>3 DEF OkfInv, TreeInv, RowsOK, Nodes, Unmixed
    <2>5. Concept(n) /\ n \in Files(d, m)
        BY <2>2, <2>3, <2>4, FilesMeaning DEF Concept, Nodes
    <2>6. ASSUME NEW i \in DOMAIN jobs', Drop(i, d, m)' PROVE RefTrue(j, m)'
        BY <2>1, <2>6 DEF RefTrue
    <2>7. CASE Spared(n)
        <3>1. Safe(d, m)
            BY <2>5, <2>7 DEF Safe
        <3>2. CASE NewDrop(d, m)
            BY <2>3, <2>6, <3>2, NewDropLast
        <3>3. CASE Safe(d, m)'
            BY <2>1, <3>3 DEF RefTrue
        <3> QED
            BY <1>3, <2>3, <3>1, <3>2, <3>3, SafeStays
    <2>8. CASE HasIndex(n)
        <3>1. Files(d, "index.md") # {}
            BY <1>1, <1>3, <2>2, <2>3, <2>8, IndexBeside
        <3>2. Files(d, "index.md")' = Files(d, "index.md")
            BY <1>1 DEF Files, At, Nodes
        <3> QED
            BY <1>4, <2>1, <3>1, <3>2 DEF RefTrue
    <2>9. CASE Dropped(d, m)
        <3>1. PICK i \in DOMAIN jobs : Drop(i, d, m)
            BY <2>9 DEF Dropped, DropsLast
        <3>2. i \in DOMAIN jobs' /\ jobs'[i].ev = jobs[i].ev
            BY <1>2
        <3>3. Drop(i, d, m)'
            BY <3>1, <3>2 DEF Drop
        <3> QED
            BY <2>6, <3>2, <3>3
    <2> QED
        BY <2>3, <2>5, <2>7, <2>8, <2>9 DEF DropsSeen
<1>5. (worker'.at = "index" /\ TheEvent'.name \in Concepts) \/ worker'.at = "finish"
    BY <1>2
<1> QED
    BY <1>4, <1>5 DEF RefsTrue

LEMMA IndexRefs ==
    ASSUME FreshStep, RefsTrue, Index
    PROVE  RefsTrue'
<1>1. OkfInv
    BY DEF FreshStep, Sound
<1>2. /\ worker.at = "index" /\ worker'.refs = worker.refs /\ worker'.job = worker.job
      /\ IndexPasses \/ IndexMakes \/ IndexReads
    BY <1>1, IndexShape
<1>3. TheEvent' = TheEvent /\ 1 \in DOMAIN worker.dirs /\ Head(worker.dirs) = worker.dirs[1]
    BY <1>1, <1>2, SameJob, HeadMeaning
<1>4. CASE IndexPasses
    <2>1. worker' = OnToNext /\ worker'.at # "idle"
        BY <1>1, <1>4, OnToNextShape DEF IndexPasses
    <2> QED
        BY <1>2, <2>1, OnwardRefs
<1>5. CASE IndexMakes
    <2>1. /\ worker'.at = "making" /\ worker'.dirs = worker.dirs /\ TheEvent.kind # "delete"
          /\ Files(worker.dirs[1], "index.md") = {}
        BY <1>3, <1>5 DEF IndexMakes
    <2>2. ASSUME NEW j \in DOMAIN worker.dirs, NEW m \in Unmixed, RefTrue(j, m)
          PROVE  RefTrue(j, m)'
        BY <1>2, <2>1, <2>2, RefStays
    <2> QED
        BY <1>2, <1>3, <2>1, <2>2 DEF RefsTrue
<1>6. CASE IndexReads
    <2>1. worker'.at = "merge" /\ worker'.dirs = worker.dirs
        BY <1>6 DEF IndexReads
    <2>2. ASSUME NEW j \in DOMAIN worker.dirs, NEW m \in Unmixed, RefTrue(j, m)
          PROVE  RefTrue(j, m)'
        BY <1>2, <2>1, <2>2, RefStays
    <2> QED
        BY <1>2, <1>3, <2>1, <2>2 DEF RefsTrue
<1> QED
    BY <1>2, <1>4, <1>5, <1>6

LEMMA RefsStay ==
    ASSUME FreshStep, RefsTrue, DropsSeen
    PROVE  RefsTrue'
<1>1. OkfInv /\ Shapes
    BY DEF FreshStep, Sound
<1>2. CASE worker'.at \notin {"index", "making", "merge"}
    BY <1>2 DEF RefsTrue
<1>3. CASE worker' = worker
    BY <1>3, SameRefs
<1>4. Take => RefsTrue'
    BY TakenRefs
<1>5. Index => RefsTrue'
    BY IndexRefs
<1>6. Log => worker'.at \notin {"index", "making", "merge"}
    BY <1>1, LogShape
<1>7. MadeIt => RefsTrue'
    BY <1>2, OnwardRefs DEF MadeIt
<1>8. SavedIt => RefsTrue'
    BY <1>2, OnwardRefs DEF SavedIt
<1>9. Throws \/ Finish => worker'.at \notin {"index", "making", "merge"}
    <2>1. Resting.at = "idle"
        BY DEF Resting
    <2> QED
        BY <2>1 DEF Throws, Finish
<1>10. Tick => worker' = worker
    BY DEF Tick
<1> QED
    BY <1>1, <1>2, <1>3, <1>4, <1>5, <1>6, <1>7, <1>8, <1>9, <1>10
       DEF Shapes, QueueStill, Storing, Writing, Deleting, Sending

-----------------------------------------------------------------------------
(* Files that a delete will take.                                          *)

\* A delete that is under way was so before, or has just begun.
LEMMA DeleteBefore ==
    ASSUME FreshStep, NEW c \in Callers, call'[c].kind = "delete"
    PROVE  \/ call[c].kind = "delete" /\ call'[c].todo = call[c].todo
           \/ Started(c) /\ QueueStill
<1>1. Sound /\ Shapes
    BY DEF FreshStep
<1>2. call'[c] # Idle
    BY DEF Idle
<1>3. ASSUME call[c].kind = "delete" PROVE call[c].at \in {"tell", "remove"}
    <2>1. call[c] # Idle
        BY <1>3 DEF Idle
    <2>2. CallFacts(call[c], rows)
        BY <1>1, <2>1 DEF Sound, Facts, Busy
    <2> QED
        BY <1>3, <2>2 DEF CallFacts, StageFacts
<1>4. CASE TreeMove(c)
    <2>1. call[c].kind = "delete"
        BY <1>2, <1>4 DEF TreeMove, SameCall
    <2>2. call[c].at = "tell"
        BY <1>3, <1>4, <2>1 DEF TreeMove, Creating, Moving
    <2> QED
        BY <1>2, <1>4, <2>1, <2>2 DEF TreeMove
<1>5. ASSUME Storing(c) \/ Writing(c) PROVE FALSE
    <2>1. call[c].kind = "delete" /\ call[c].at \in {"store", "shift"}
        BY <1>2, <1>5 DEF Storing, Writing, Spoke, SameAim
    <2> QED
        BY <1>3, <2>1
<1>6. Sending(c) => call[c].kind = "delete" /\ call'[c].todo = call[c].todo
    BY <1>2 DEF Sending, Said, SameAim
<1>7. ~\E p, m, l : c = Worker /\ MakingFile(p, m, l)
    BY DEF MakingFile
<1> QED
    BY <1>1, <1>2, <1>4, <1>5, <1>6, <1>7, CallShapes

\* No other call is about a file that a delete will take.
LEMMA TakenApart ==
    ASSUME Sound, NEW n \in DOMAIN rows, Condemned(n)
    PROVE  /\ ~Created(n)
           /\ \A d \in Callers : call[d].kind # "delete" /\ call[d] # Idle => call[d].id # n
<1>1. PICK c \in Callers : call[c].kind = "delete" /\ n \in call[c].todo
    BY DEF Condemned
<1>2. call[c] # Idle /\ n \in Owned(call[c])
    BY <1>1 DEF Idle, Owned
<1>3. ASSUME NEW d \in Callers, call[d].kind # "delete", call[d] # Idle PROVE call[d].id # n
    BY <1>1, <1>2, <1>3, OwnedApart DEF Owned
<1>4. ASSUME NEW d \in Callers, Creation(call[d]) PROVE call[d].kind # "delete" /\ call[d] # Idle
    <2>1. call[d] # Idle
        BY <1>4 DEF Creation, Idle
    <2>2. CallFacts(call[d], rows)
        BY <2>1 DEF Sound, Facts, Busy
    <2> QED
        BY <1>4, <2>1, <2>2 DEF Creation, CallFacts, StageFacts
<1> QED
    BY <1>3, <1>4 DEF Created

\* The same of the next state.
LEMMA TakenApartNext ==
    ASSUME Sound', NEW n \in DOMAIN rows', Condemned(n)'
    PROVE  /\ ~Created(n)'
           /\ \A d \in Callers : call'[d].kind # "delete" /\ call'[d] # Idle => call'[d].id # n
<1>1. PICK c \in Callers : call'[c].kind = "delete" /\ n \in call'[c].todo
    BY DEF Condemned
<1>2. /\ call'[c] # Idle
      /\ \A d \in Callers : call'[d] # Idle => CallFacts(call'[d], rows')
      /\ n # 0 /\ Null = 0
    BY <1>1 DEF Idle, Sound, Facts, Busy, OkfInv, TreeInv, RowsOK, Null
<1>3. ASSUME NEW d \in Callers, call'[d].kind # "delete", call'[d] # Idle PROVE call'[d].id # n
    <2>1. ~OnFolder(call'[c]) /\ (call'[c].id = Null \/ call'[c].id # call'[d].id)
        BY <1>1, <1>2, <1>3 DEF Sound, Facts, Alone, Busy
    <2>2. call'[c].todo = {call'[c].id}
        BY <1>1, <1>2, <2>1 DEF CallFacts, FileFacts
    <2> QED
        BY <1>1, <1>2, <2>1, <2>2
<1>4. ASSUME NEW d \in Callers, Creation(call'[d]) PROVE call'[d].kind # "delete" /\ call'[d] # Idle
    <2>1. call'[d] # Idle
        BY <1>4 DEF Creation, Idle
    <2> QED
        BY <1>2, <1>4, <2>1 DEF Creation, CallFacts, StageFacts
<1> QED
    BY <1>3, <1>4 DEF Created

\* A concept that a delete will take was there before, and no folder moves.
LEMMA TakenBefore ==
    ASSUME FreshStep, NEW n, Concept(n)', Condemned(n)'
    PROVE  /\ Concept(n) /\ Keeps(n) /\ ~Shifts /\ SameRow(rows[n], rows'[n])
           /\ rows'[n].path = rows[n].path /\ rows'[n].name = rows[n].name
           /\ n \in DOMAIN rows /\ n \in DOMAIN rows'
           /\ \/ Condemned(n)
              \/ \E c \in Callers : Started(c) /\ QueueStill
<1>1. n \in Nodes' /\ ~rows'[n].folder /\ n \in DOMAIN rows' /\ Sound'
    BY DEF Concept, Nodes, FreshStep
<1>2. ~Created(n)'
    BY <1>1, TakenApartNext
<1>3. n \in Nodes /\ ~rows[n].folder /\ Keeps(n)
    BY <1>1, <1>2, FileBefore
<1>4. PICK c \in Callers : call'[c].kind = "delete" /\ n \in call'[c].todo
    BY DEF Condemned
<1>5. ~Shifts
    BY <1>4, ShiftsAlone
<1>6. rows'[n].path = rows[n].path /\ rows'[n].name = rows[n].name
    BY <1>3, <1>5 DEF Keeps
<1>7. Concept(n) /\ SameRow(rows[n], rows'[n])
    <2>1. rows'[n].name \in Concepts /\ n \in DOMAIN rows /\ n \in DOMAIN rows'
        BY <1>3 DEF Concept, Nodes, Keeps
    <2>2. rows[n] \in Row /\ rows'[n] \in Row
        BY <2>1 DEF FreshStep, Sound, OkfInv, TreeInv, RowsOK
    <2>3. rows[n].folder = rows'[n].folder /\ rows[n].there = rows'[n].there
        BY <1>3, <2>2 DEF Row, Keeps, Nodes
    <2> QED
        BY <1>3, <1>6, <2>1, <2>3 DEF Concept, Keeps, SameRow
<1>8. Condemned(n) \/ \E d \in Callers : Started(d) /\ QueueStill
    BY <1>4, DeleteBefore DEF Condemned
<1> QED
    BY <1>1, <1>3, <1>5, <1>6, <1>7, <1>8 DEF Nodes

LEMMA BulletedHasIndex ==
    ASSUME NEW n
    PROVE  Bulleted(n) => HasIndex(n)
BY DEF Bulleted, Bullets, HasIndex

\* The job that will make the index.md is queued until its run has seen to it.
LEMMA ForeseenStays ==
    ASSUME FreshStep, NEW n, Concept(n), Concept(n)', SameRow(rows[n], rows'[n]), ~Created(n),
           NEW p, NEW m, rows[n].path = p, rows[n].name = m, Foreseen(p, m)
    PROVE  HasIndex(n)' \/ Foreseen(p, m)'
<1>1. /\ Sound /\ Settled /\ odd' \cap Excuses = {} /\ OkfInv /\ Shapes
      /\ Makings /\ Merges /\ Unstored /\ m \in Concepts /\ n \in Nodes
    BY DEF FreshStep, Fresh, Sound, Upkept, Concept
<1>2. PICK i \in DOMAIN jobs : Waits(i, p, m) /\ (Running(i) => ToDo(p, m))
    BY DEF Foreseen
<1>3. ~(Finish /\ Running(i))
    BY <1>2 DEF Finish, ToDo
<1>4. PICK j \in DOMAIN jobs' : jobs'[j].ev = jobs[i].ev
    BY <1>3, JobsFollow
<1>5. Waits(j, p, m)'
    BY <1>2, <1>4 DEF Waits
<1>6. Bulleted(n)' => HasIndex(n)'
    BY DEF Bulleted, Bullets, HasIndex
<1>7. SUFFICES ASSUME Running(j)' PROVE ToDo(p, m)' \/ Bulleted(n)'
    BY <1>5, <1>6 DEF Foreseen
<1>8. CASE Takes(i)
    <2>1. rows[n].stored
        BY <1>1 DEF Unstored, Concept, Nodes
    <2>2. jobs[i].ev.path = p /\ jobs[i].ev.name = m
        BY <1>2 DEF Waits, Of
    <2>3. \E k \in DOMAIN Dirs(jobs[i].ev) : Dirs(jobs[i].ev)[k] = p
        BY <2>2 DEF Dirs
    <2>4. worker'.at = "index" /\ [path |-> p, name |-> m] \in worker'.refs
        BY <1>1, <1>8, <2>1, <2>2 DEF Takes
    <2> QED
        BY <1>8, <2>3, <2>4 DEF Takes, ToDo
<1>9. CASE Running(i) /\ worker' = worker
    BY <1>2, <1>9 DEF ToDo
<1>10. CASE Running(i) /\ RunsOn /\ worker' # worker
    <2>1. ToDo(p, m) /\ TheEvent.kind # "delete" /\ TheEvent.name = m
        BY <1>2, <1>10 DEF Waits, Running, Of
    <2>2. Index => ToDo(p, m)'
        BY <1>1, <1>10, <2>1, IndexQueued
    <2>3. MadeIt => ToDo(p, m)' \/ Bulleted(n)'
        BY <1>1, <1>10, <2>1, MadeQueued
    <2>4. SavedIt => ToDo(p, m)' \/ Bulleted(n)'
        BY <1>1, <1>10, <2>1, SavedQueued
    <2>5. ~Take /\ ~Finish
        BY <2>1 DEF Take, Finish, ToDo
    <2>6. ~Throws
        <3>1. Resting.at = "idle"
            BY DEF Resting
        <3> QED
            BY <1>10, <3>1 DEF Throws, RunsOn
    <2>7. ~Log
        BY <1>1, <2>1, LogShape DEF ToDo
    <2>8. ~Tick
        BY <1>10 DEF Tick
    <2> QED
        BY <1>1, <1>10, <2>2, <2>3, <2>4, <2>5, <2>6, <2>7, <2>8
           DEF Shapes, QueueStill, Storing, Writing, Deleting, Sending
<1> QED
    BY <1>4, <1>7, <1>8, <1>9, <1>10, RunningBefore

LEMMA CondemnedSeenStays ==
    ASSUME FreshStep, CondemnedSeen, TellsTrue
    PROVE  CondemnedSeen'
<1> SUFFICES ASSUME NEW n, NEW p, NEW m, Concept(n)', rows'[n].path = p, rows'[n].name = m,
                    m \in Unmixed, Condemned(n)'
             PROVE  HasIndex(n)' \/ Foreseen(p, m)'
    BY DEF CondemnedSeen
<1>1. /\ Concept(n) /\ Keeps(n) /\ SameRow(rows[n], rows'[n])
      /\ rows[n].path = p /\ rows[n].name = m /\ n \in DOMAIN rows /\ n \in DOMAIN rows'
      /\ Condemned(n) \/ \E c \in Callers : Started(c) /\ QueueStill
    BY TakenBefore
<1>2. n \in Nodes /\ ~rows[n].folder
    BY <1>1 DEF Concept
<1>3. HasIndex(n) => HasIndex(n)'
    BY <1>1, <1>2, HasIndexStays
<1>4. CASE Condemned(n)
    <2>1. ~Created(n) /\ Sound
        BY <1>1, <1>4, TakenApart DEF FreshStep
    <2>2. HasIndex(n) \/ Foreseen(p, m)
        BY <1>1, <1>4 DEF CondemnedSeen
    <2> QED
        BY <1>1, <1>3, <2>1, <2>2, ForeseenStays
<1>5. ASSUME NEW c \in Callers, Started(c), QueueStill, ~Condemned(n)
      PROVE  HasIndex(n) \/ Foreseen(p, m)'
    <2>1. Cared(n, p, m)
        BY <1>1 DEF FreshStep, Upkept, AllCared
    <2>2. CASE Bulleted(n)
        BY <2>2, BulletedHasIndex
    <2>3. ~Created(n)
        <3> SUFFICES ASSUME NEW d \in Callers, Creation(call[d]), call[d].id = n PROVE FALSE
            BY DEF Created
        <3>1. d # c
            BY <1>5 DEF Started, Creation, Idle
        <3>2. call'[d] = call[d]
            BY <1>5, <3>1 DEF Started
        <3>3. Created(n)'
            BY <3>2 DEF Created
        <3> QED
            BY <1>1, <3>3, TakenApartNext DEF FreshStep
    <2>4. ~Announced(p, m)
        <3> SUFFICES ASSUME NEW d \in Callers, NEW e \in call[d].tell, e.kind # "delete",
                            About(e, p, m)
                     PROVE  FALSE
            BY DEF Announced
        <3>1. e.path = p /\ e.name = m /\ e.name \in Unmixed
            BY DEF About
        <3>2. call[d].id \in Files(p, m) /\ n \in Files(p, m)
            BY <1>1, <1>2, <3>1, FilesMeaning DEF TellsTrue, Nodes
        <3>3. IsTree(rows) /\ Deletions
            BY BusyPlanted DEF FreshStep, Upkept
        <3>4. call[d].id = n
            BY <3>2, <3>3, OneFile
        <3>5. call[d] # Idle /\ call[d].kind # "delete"
            BY <3>3 DEF Idle, Deletions
        <3>6. d # c /\ call'[d] = call[d]
            BY <1>5, <3>5 DEF Started
        <3> QED
            BY <1>1, <3>4, <3>5, <3>6, TakenApartNext DEF FreshStep
    <2>5. CASE Queued(p, m)
        <3>1. PICK i \in DOMAIN jobs : QueuedAt(i, p, m) /\ (Running(i) => ToDo(p, m))
            BY <2>5 DEF Queued
        <3>2. Waits(i, p, m)
            BY <3>1 DEF QueuedAt, Waits, About, Of
        <3>3. Foreseen(p, m)
            BY <3>1, <3>2 DEF Foreseen
        <3> QED
            BY <1>5, <3>3 DEF QueueStill, Foreseen, Waits, Running, ToDo, TheEvent, TheJob
    <2> QED
        BY <1>5, <2>1, <2>2, <2>3, <2>4, <2>5 DEF Cared
<1> QED
    BY <1>1, <1>3, <1>4, <1>5

\* A delete's event is behind the jobs that might still make an index.md.
LEMMA DropsLastStays ==
    ASSUME FreshStep, TellsTrue, JobsTrue, CondemnedSeen, Merges,
           NEW n, Concept(n), Condemned(n), Keeps(n),
           NEW p, NEW m \in Unmixed, rows[n].path = p, rows[n].name = m, Dropped(p, m)
    PROVE  HasIndex(n)' \/ Dropped(p, m)'
<1>1. /\ Sound /\ OkfInv /\ JobNos /\ Shapes /\ Deletions /\ m \in Concepts
      /\ n \in Nodes /\ ~rows[n].folder /\ n \in Files(p, m)
    BY FilesMeaning DEF FreshStep, Sound, QueueKept, Upkept, Unmixed, Concept, Nodes
<1>2. PICK i \in DOMAIN jobs : DropsLast(i, p, m)
    BY DEF Dropped
<1>3. /\ Drop(i, p, m) /\ (Running(i) => worker.at = "index")
      /\ \A k \in DOMAIN jobs : Waits(k, p, m) => k < i
    BY <1>2 DEF DropsLast
<1>4. IsTree(rows)
    BY <1>1, BusyPlanted DEF FreshStep
<1>5. PICK j \in DOMAIN jobs' : jobs'[j].ev = jobs[i].ev
    BY <1>3, JobsFollow DEF Finish
<1>6. Drop(j, p, m)'
    BY <1>3, <1>5 DEF Drop
<1>7. ASSUME NEW k \in DOMAIN jobs', Waits(k, p, m)' PROVE k < j
    <2>1. ASSUME NEW l \in DOMAIN jobs, jobs[l].ev = jobs'[k].ev PROVE k < j
        <3>1. Waits(l, p, m)
            BY <1>7, <2>1 DEF Waits
        <3> QED
            BY <1>3, <1>5, <2>1, <3>1, JobsInOrder
    <2>2. ASSUME NEW d \in Callers, NEW e \in call[d].tell, jobs'[k].ev = e PROVE FALSE
        <3>1. e.kind # "delete" /\ e.path = p /\ e.name = m
            BY <1>7, <2>2 DEF Waits, Of
        <3>2. call[d].id \in Files(p, m) /\ ~Condemned(call[d].id)
            BY <1>1, <3>1, ToldIsSpared DEF TellsTrue
        <3>3. call[d].id = n
            BY <1>1, <1>4, <3>2, OneFile
        <3> QED
            BY <3>2, <3>3
    <2> QED
        BY <2>1, <2>2, JobBefore
<1>8. HasIndex(n) => HasIndex(n)'
    BY <1>1, HasIndexStays
<1>9. ASSUME Running(j)' PROVE worker'.at = "index" \/ HasIndex(n)
    <2>1. CASE Takes(i)
        BY <1>1, <1>3, <2>1 DEF Takes, Drop, Of
    <2>2. CASE Running(i) /\ worker' = worker
        BY <1>3, <2>2
    <2>3. CASE Running(i) /\ RunsOn /\ worker' # worker
        <3>1. /\ worker.at = "index" /\ TheEvent.kind = "delete" /\ TheEvent.path = p
              /\ TheEvent.from = p
            BY <1>1, <1>3, <2>3 DEF Drop, Of, Running, JobNos, EventOK, Single
        <3>2. Index
            <4>1. ~Throws
                <5>1. Resting.at = "idle"
                    BY DEF Resting
                <5> QED
                    BY <2>3, <5>1 DEF Throws, RunsOn
            <4>2. ~Log
                BY <1>1, <3>1, LogShape
            <4>3. ~Take /\ ~Finish /\ ~MadeIt /\ ~SavedIt
                BY <3>1 DEF Take, Finish, MadeIt, SavedIt
            <4>4. ~Tick
                BY <2>3 DEF Tick
            <4> QED
                BY <1>1, <2>3, <4>1, <4>2, <4>3, <4>4
                   DEF Shapes, QueueStill, Storing, Writing, Deleting, Sending
        <3>3. Head(worker.dirs) = p
            BY <1>1, <3>1, HeadMeaning DEF Merges
        <3>4. CASE IndexReads
            BY <1>1, <1>4, <3>3, <3>4, IndexBeside DEF IndexReads
        <3>5. ~IndexMakes
            BY <3>1 DEF IndexMakes
        <3>6. CASE IndexPasses
            <4>1. Files(p, "index.md") = {}
                BY <3>1, <3>3, <3>6 DEF IndexPasses
            <4>2. ~HasIndex(n)
                BY <1>1, <1>4, <4>1, IndexBeside
            <4>3. Foreseen(p, m)
                BY <4>2 DEF CondemnedSeen
            <4>4. PICK k \in DOMAIN jobs : Waits(k, p, m)
                BY <4>3 DEF Foreseen
            <4>5. k < i
                BY <1>3, <4>4
            <4>6. ~Running(i)
                BY <1>3, <4>4, <4>5, DropFollows
            <4> QED
                BY <2>3, <4>6
        <3> QED
            BY <1>1, <3>2, <3>4, <3>5, <3>6, IndexShape
    <2> QED
        BY <1>5, <1>9, <2>1, <2>2, <2>3, RunningBefore
<1>10. CASE HasIndex(n)
    BY <1>8, <1>10
<1>11. CASE ~HasIndex(n)
    <2>1. DropsLast(j, p, m)'
        BY <1>6, <1>7, <1>9, <1>11 DEF DropsLast
    <2> QED
        BY <2>1 DEF Dropped
<1> QED
    BY <1>10, <1>11

LEMMA DropsSeenStays ==
    ASSUME FreshStep, TellsTrue, JobsTrue, CondemnedSeen, DropsSeen
    PROVE  DropsSeen'
<1> SUFFICES ASSUME NEW n, NEW p, NEW m, Concept(n)', rows'[n].path = p, rows'[n].name = m,
                    m \in Unmixed, ~Spared(n)'
             PROVE  HasIndex(n)' \/ Dropped(p, m)'
    BY DEF DropsSeen
<1>1. Condemned(n)'
    BY DEF Spared, Condemned
<1>2. /\ Concept(n) /\ Keeps(n) /\ rows[n].path = p /\ rows[n].name = m
      /\ n \in Nodes /\ ~rows[n].folder /\ m \in Concepts
    BY <1>1, TakenBefore DEF Concept, Unmixed
<1>3. CASE Spared(n)
    <2>1. NewDrop(p, m)
        BY <1>2, <1>3, SparedStays
    <2>2. PICK j \in DOMAIN jobs' : /\ Drop(j, p, m)' /\ ~Running(j)'
                                    /\ \A k \in DOMAIN jobs' : k # j => k < j
        BY <1>2, <2>1, NewDropLast
    <2>3. \A k \in DOMAIN jobs' : Waits(k, p, m)' => k # j
        BY <2>2 DEF Waits, Drop
    <2>4. DropsLast(j, p, m)'
        BY <2>2, <2>3 DEF DropsLast
    <2> QED
        BY <2>4 DEF Dropped
<1>4. CASE ~Spared(n)
    <2>1. Condemned(n)
        BY <1>4 DEF Spared, Condemned
    <2>2. HasIndex(n) \/ Dropped(p, m)
        BY <1>2, <1>4 DEF DropsSeen
    <2>3. HasIndex(n) => HasIndex(n)'
        BY <1>2, HasIndexStays
    <2>4. Merges
        BY DEF FreshStep, Upkept
    <2> QED
        BY <1>2, <2>1, <2>2, <2>3, <2>4, DropsLastStays
<1> QED
    BY <1>3, <1>4

-----------------------------------------------------------------------------
(* What justifies a bullet.                                                *)

\* What justifies a bullet goes on doing so, until the bullet is taken away.
LEMMA JustifiedStays ==
    ASSUME FreshStep, NEW k \in Nodes, ~rows[k].folder, rows[k].name = "index.md", Keeps(k),
           NEW m, m \in rows'[k].text.listed, Justified(k, m)
    PROVE  Justified(k, m)'
<1>1. /\ Sound /\ OkfInv /\ Settled /\ Shapes /\ Deletions /\ Merges /\ JobNos
      /\ odd' \cap Excuses = {}
    BY DEF FreshStep, Fresh, Upkept, Sound, QueueKept
<1>2. k \in DOMAIN rows' /\ rows'[k].there /\ rows'[k].parent = rows[k].parent
    BY DEF Keeps
<1>3. ASSUME NEW n \in DOMAIN rows, IsBeside(n, k, m) PROVE Justified(k, m)'
    <2>1. /\ n \in Nodes /\ ~rows[n].folder /\ rows[n].parent = rows[k].parent
          /\ rows[n].name = m /\ Spared(n)
        BY <1>3 DEF IsBeside
    <2>2. ASSUME NEW c \in Callers, Deleting(c), n \in call[c].todo PROVE FALSE
        <3>1. rows[n].name \notin Concepts
            BY <2>1, <2>2, NotUnsaid
        <3>2. k \in call[c].todo
            BY <1>1, <2>1, <2>2, <3>1, DeletedBeside
        <3> QED
            BY <1>2, <2>2, <3>2 DEF Deleting, Nodes
    <2>3. Keeps(n)
        BY <2>1, <2>2, FileStays
    <2>4. ASSUME Spared(n)' PROVE Justified(k, m)'
        BY <1>2, <2>1, <2>3, <2>4 DEF Justified, IsBeside, Keeps, Nodes
    <2>5. CASE m \in Concepts /\ NewDrop(rows[n].path, m)
        <3>1. /\ rows' = rows
              /\ \E j \in DOMAIN jobs' : Drop(j, rows[n].path, m)' /\ ~Running(j)'
            <4>1. PICK p : p = rows[n].path
                OBVIOUS
            <4>2. /\ rows' = rows
                  /\ \E j \in DOMAIN jobs' : Drop(j, p, m)' /\ ~Running(j)'
                BY <2>5, <4>1, NewDropLast
            <4>3. rows'[n].path = p
                BY <4>1, <4>2
            <4> QED
                BY <4>1, <4>2, <4>3 DEF Drop
        <3>2. PICK c \in Callers : call[c].tell # {}
            BY <2>5 DEF NewDrop
        <3>3. IsTree(rows)
            BY <1>1, <3>2, BusyPlanted DEF FreshStep
        <3>4. rows[n].path = rows[k].path
            BY <1>1, <2>1, <3>3, BesideMeaning
        <3>5. PICK j \in DOMAIN jobs' : Drop(j, rows[n].path, m)' /\ ~Running(j)'
            BY <3>1
        <3>6. TakesAway(j, k, m)'
            BY <3>1, <3>4, <3>5 DEF TakesAway, Drop
        <3> QED
            BY <3>6 DEF Justified
    <2>6. CASE m \notin Concepts
        <3>1. Spared(n)'
            BY <2>1, <2>3, <2>6 DEF Spared, Keeps
        <3> QED
            BY <2>4, <3>1
    <2> QED
        BY <2>1, <2>3, <2>4, <2>5, <2>6, SparedStays
<1>4. ASSUME NEW i \in DOMAIN jobs, TakesAway(i, k, m) PROVE Justified(k, m)'
    <2>1. PICK p : p = rows[k].path
        OBVIOUS
    <2>2. /\ Drop(i, p, m) /\ (Running(i) => worker.at \in {"index", "merge"})
          /\ m \in Concepts
        BY <1>4, <2>1 DEF TakesAway, Drop
    <2>3. IsTree(rows) /\ rows'[k].path = p /\ k \in Files(p, "index.md")
        <3>1. ~Shifts
            BY <1>4, ShiftsAlone
        <3>2. IsTree(rows)
            BY <1>1, <1>4, BusyPlanted DEF FreshStep
        <3> QED
            BY <2>1, <3>1, <3>2, FilesMeaning DEF Keeps, Nodes
    <2>4. PICK j \in DOMAIN jobs' : jobs'[j].ev = jobs[i].ev
        BY <2>2, JobsFollow DEF Finish
    <2>5. Drop(j, p, m)'
        BY <2>2, <2>4 DEF Drop
    <2>6. ASSUME Running(j)' PROVE worker'.at \in {"index", "merge"}
        <3>1. CASE Takes(i)
            BY <2>2, <3>1 DEF Takes, Drop, Of
        <3>2. CASE Running(i) /\ worker' = worker
            BY <2>2, <3>2
        <3>3. CASE Running(i) /\ RunsOn /\ worker' # worker
            <4>1. /\ worker.at \in {"index", "merge"} /\ TheEvent.kind = "delete"
                  /\ TheEvent.path = p /\ TheEvent.from = p /\ TheEvent.name = m
                BY <1>1, <2>2, <3>3 DEF Drop, Of, Running, JobNos, EventOK, Single
            <4>2. Head(worker.dirs) = p
                BY <1>1, <4>1, HeadMeaning DEF Merges
            <4>3. Index \/ SavedIt
                <5>1. ~Throws
                    <6>1. Resting.at = "idle"
                        BY DEF Resting
                    <6> QED
                        BY <3>3, <6>1 DEF Throws, RunsOn
                <5>2. ~Log
                    BY <1>1, <4>1, LogShape
                <5>3. ~Take /\ ~Finish /\ ~MadeIt
                    BY <4>1 DEF Take, Finish, MadeIt
                <5>4. ~Tick
                    BY <3>3 DEF Tick
                <5> QED
                    BY <1>1, <3>3, <5>1, <5>2, <5>3, <5>4
                       DEF Shapes, QueueStill, Storing, Writing, Deleting, Sending
            <4>4. CASE Index
                <5>1. ~IndexPasses /\ ~IndexMakes
                    BY <2>3, <4>1, <4>2 DEF IndexPasses, IndexMakes
                <5>2. IndexReads
                    BY <1>1, <4>4, <5>1, IndexShape
                <5> QED
                    BY <5>2 DEF IndexReads
            <4>5. ASSUME SavedIt PROVE FALSE
                <5>1. worker.at = "merge" /\ rows[worker.node].there
                    BY <4>1, <4>5 DEF SavedIt
                <5>2. worker.node \in Files(p, "index.md")
                    BY <1>1, <4>2, <5>1 DEF Merges
                <5>3. worker.node = k
                    BY <2>3, <5>2, OneFile
                <5>4. rows'[k].text.listed = Merged(TheEvent, rows[k].text.listed)
                    BY <1>1, <4>5, <5>1, <5>3, SavedListed
                <5> QED
                    BY <4>1, <5>4 DEF Merged
            <4> QED
                BY <4>3, <4>4, <4>5
        <3> QED
            BY <2>4, <2>6, <3>1, <3>2, <3>3, RunningBefore
    <2>7. TakesAway(j, k, m)'
        BY <2>3, <2>5, <2>6 DEF TakesAway
    <2> QED
        BY <2>7 DEF Justified
<1> QED
    BY <1>3, <1>4 DEF Justified

\* What is written in a file that is there changes by a save.
LEMMA TextStays ==
    ASSUME FreshStep, NEW k \in Nodes, ~rows[k].folder, Keeps(k)
    PROVE  \/ rows'[k].text = rows[k].text
           \/ \E c \in Callers : Storing(c) /\ call[c].id = k /\ rows[k].there
           \/ SavedIt /\ k = worker.node
<1>1. Sound /\ OkfInv /\ Shapes /\ "renamed" \notin odd' /\ k \in DOMAIN rows /\ rows[k].there
      /\ k \in DOMAIN rows' /\ rows'[k].there
    BY DEF FreshStep, Fresh, Sound, Nodes, Keeps
<1>2. rows' = rows => rows'[k].text = rows[k].text
    OBVIOUS
<1>3. ASSUME NEW c \in Callers, TreeMove(c) PROVE rows'[k].text = rows[k].text
    <2>1. CASE Added(rows, rows', call[c], call'[c])
        BY <1>1, <2>1, AddedMeaning
    <2>2. CASE Resettled(rows, rows')
        BY <1>1, <2>2 DEF Resettled
    <2> QED
        BY <1>2, <1>3, <2>1, <2>2 DEF TreeMove
<1>4. ASSUME NEW c \in Callers, Storing(c), call[c].id # k PROVE rows'[k].text = rows[k].text
    BY <1>1, <1>4 DEF Storing
<1>5. ASSUME NEW c \in Callers, Writing(c) PROVE rows'[k].text = rows[k].text
    <2>1. CASE rows' # rows
        <3>1. /\ rows[call[c].id].folder = call[c].folder
              /\ \A n \in DOMAIN rows : n # call[c].id => rows'[n] = rows[n]
              /\ call[c].folder
            BY <1>1, <1>5, <2>1 DEF Writing
        <3> QED
            BY <1>1, <3>1
    <2> QED
        BY <1>2, <2>1
<1>6. ASSUME NEW c \in Callers, Deleting(c) PROVE rows'[k].text = rows[k].text
    BY <1>1, <1>6 DEF Deleting
<1>7. ASSUME SavedIt, k # worker.node PROVE rows'[k].text = rows[k].text
    BY <1>1, <1>7, SavedMeaning
<1>8. ASSUME NEW c \in Callers, Sending(c) \/ Started(c) PROVE rows' = rows
    BY <1>8 DEF Sending, Said, Started
<1>9. Index \/ Log => rows' = rows
    BY <1>1, IndexShape, LogShape DEF IndexPasses, IndexMakes, IndexReads, MakingFile
<1>10. Take \/ MadeIt \/ Throws \/ Finish \/ Tick => rows' = rows
    BY DEF Take, Rests, treeVars, MadeIt, Throws, Finish, Tick
<1>11. Users \subseteq Callers
    BY DEF Users
<1> QED
    BY <1>1, <1>2, <1>3, <1>4, <1>5, <1>6, <1>7, <1>8, <1>9, <1>10, <1>11 DEF Shapes

\* The concepts of a listing were read of the tree.
LEMMA ListingMeaning ==
    ASSUME OkfInv, worker.at \in {"index", "making", "merge"},
           NEW m \in Listing(Head(worker.dirs)), m \notin FolderNames
    PROVE  m \in Unmixed /\ [path |-> worker.dirs[1], name |-> m] \in worker.refs
<1>1. PICK d : d = Head(worker.dirs)
    OBVIOUS
<1>2. /\ d = worker.dirs[1] /\ d \in Seq(FolderNames)
      /\ worker.refs \subseteq [path: Seq(FolderNames), name: Concepts]
    <2>1. worker.dirs \in Seq(Seq(FolderNames)) /\ worker.dirs # <<>>
        BY DEF OkfInv, WorkerOK, Working
    <2>2. d = worker.dirs[1] /\ 1 \in DOMAIN worker.dirs
        BY <1>1, HeadMeaning
    <2>3. d \in Seq(FolderNames)
        BY <2>1, <2>2
    <2>4. worker \in Working
        BY DEF OkfInv, WorkerOK
    <2>5. worker.refs \subseteq [path: Seq(FolderNames), name: Concepts]
        BY <2>4 DEF Working
    <2> QED
        BY <2>2, <2>3, <2>5
<1>3. m \notin SubfoldersIn(d)
    <2> SUFFICES ASSUME NEW r \in worker.refs, Len(r.path) >= Len(d) + 2,
                        m = r.path[Len(d) + 1]
                 PROVE  FALSE
        BY DEF SubfoldersIn
    <2>1. PICK q : q = r.path
        OBVIOUS
    <2>2. q \in Seq(FolderNames)
        BY <1>2, <2>1
    <2>3. Len(d) \in Nat /\ Len(q) \in Nat /\ Len(q) >= Len(d) + 2
        BY <1>2, <2>1, <2>2
    <2>4. Len(d) + 1 \in 1 .. Len(q)
        BY <2>3
    <2>5. q[Len(d) + 1] \in FolderNames
        BY <2>2, <2>4
    <2> QED
        BY <2>1, <2>5
<1>4. PICK r \in worker.refs : r.path = d /\ r.name = m
    BY <1>1, <1>3 DEF Listing, ConceptsIn
<1>5. r = [path |-> d, name |-> m] /\ m \in Concepts
    BY <1>2, <1>4
<1> QED
    BY <1>2, <1>4, <1>5 DEF Unmixed

\* A bullet is added for a file that is there, or whose delete is queued.
LEMMA AddedJustified ==
    ASSUME FreshStep, Blank, JobsTrue, RefsTrue,
           NEW k \in Nodes, ~rows[k].folder, rows[k].name = "index.md", Keeps(k),
           NEW m \in FileNames \ FolderNames, m \in rows'[k].text.listed,
           m \notin rows[k].text.listed
    PROVE  Justified(k, m)
<1>1. /\ Sound /\ OkfInv /\ Settled /\ Creations /\ Makings /\ Merges /\ JobNos
      /\ odd' \cap Excuses = {}
    BY DEF FreshStep, Fresh, Upkept, Sound, QueueKept
<1>2. ASSUME jobs # <<>>, NEW d, rows[k].path = d, Safe(d, m) PROVE Justified(k, m)
    <2>1. PICK n \in Files(d, m) : Spared(n)
        BY <1>2 DEF Safe
    <2>2. n \in Nodes /\ ~rows[n].folder /\ rows[n].path = d /\ rows[n].name = m
        BY FilesMeaning DEF Nodes
    <2>3. IsTree(rows)
        BY <1>1, <1>2, BusyPlanted DEF FreshStep
    <2>4. rows[n].parent = rows[k].parent
        BY <1>1, <1>2, <2>2, <2>3, BesideMeaning
    <2> QED
        BY <2>1, <2>2, <2>4 DEF Justified, IsBeside, Nodes
<1>3. ASSUME NEW i \in DOMAIN jobs, Drop(i, rows[k].path, m), ~Running(i) \/ worker.at = "merge"
      PROVE  Justified(k, m)
    BY <1>3 DEF Justified, TakesAway
<1>4. ASSUME NEW c \in Callers, Storing(c), call[c].id = k, rows[k].there
      PROVE  Justified(k, m)
    <2>1. PICK r : r = call[c]
        OBVIOUS
    <2>2. r.at = "store" /\ m \in r.text.listed /\ r.kind # "save"
        BY <1>4, <2>1 DEF Storing
    <2>3. c = Worker
        <3>1. c \notin Users
            BY <2>1, <2>2 DEF Blank
        <3> QED
            BY <3>1 DEF Users
    <2>4. r # Idle /\ k \in Files(r.path, r.name)
        <3>1. r # Idle
            BY <2>2 DEF Idle
        <3> QED
            BY <1>1, <1>4, <2>1, <2>2, <3>1 DEF Creations
    <2>5. r.name = "index.md" /\ rows[k].path = r.path
        BY <2>4, FilesMeaning
    <2>6. /\ worker.at = "making" /\ r.path = Head(worker.dirs)
          /\ r.text.listed = Listing(Head(worker.dirs))
        BY <1>1, <2>1, <2>3, <2>4, <2>5 DEF Makings
    <2>7. m \in Unmixed /\ [path |-> worker.dirs[1], name |-> m] \in worker.refs
        BY <1>1, <2>2, <2>6, ListingMeaning
    <2>8. 1 \in DOMAIN worker.dirs /\ Head(worker.dirs) = worker.dirs[1] /\ jobs # <<>>
        BY <1>1, <2>6, HeadMeaning, WorkHasJobs DEF Sound
    <2>9. TheEvent.kind # "delete" /\ RefTrue(1, m)
        BY <2>6, <2>7, <2>8 DEF RefsTrue
    <2>10. CASE Safe(worker.dirs[1], m)
        BY <1>2, <2>5, <2>6, <2>8, <2>10
    <2>11. ASSUME NEW i \in DOMAIN jobs, Drop(i, worker.dirs[1], m) PROVE Justified(k, m)
        <3>1. ~Running(i)
            BY <2>9, <2>11 DEF Running, Drop
        <3> QED
            BY <1>3, <2>5, <2>6, <2>8, <2>11, <3>1
    <2> QED
        BY <2>6, <2>9, <2>10, <2>11 DEF RefTrue
<1>5. ASSUME SavedIt, k = worker.node PROVE Justified(k, m)
    <2>1. /\ worker.at = "merge" /\ TheEvent.kind # "delete" /\ m = TheEvent.name
          /\ rows[worker.node].there
        <3>1. rows'[k].text.listed = IF worker.at = "merge" THEN Merged(TheEvent, rows[k].text.listed)
                                     ELSE rows[k].text.listed
            BY <1>1, <1>5, SavedListed
        <3>2. rows[worker.node].there
            BY <1>5 DEF SavedIt
        <3>3. worker.at = "merge" /\ m \in Merged(TheEvent, rows[k].text.listed)
            BY <3>1
        <3>4. TheEvent.kind # "delete" /\ m = TheEvent.name
            BY <3>3 DEF Merged
        <3> QED
            BY <3>2, <3>3, <3>4
    <2>2. m \in Unmixed
        BY <2>1 DEF RefsTrue, Unmixed
    <2>3. PICK i \in DOMAIN jobs : jobs[i].ev = TheEvent
        BY <1>1, <2>1, RunningJob
    <2>4. Single(TheEvent) /\ Outlived(i) /\ jobs # <<>>
        BY <2>1, <2>2, <2>3 DEF JobsTrue
    <2>5. Head(worker.dirs) = TheEvent.path
        BY <1>1, <2>1, <2>4, HeadMeaning DEF Merges, Single
    <2>6. rows[k].path = TheEvent.path
        BY <1>1, <1>5, <2>1, <2>5, FilesMeaning DEF Merges
    <2>7. CASE Safe(TheEvent.path, m)
        BY <1>2, <2>4, <2>6, <2>7
    <2>8. ASSUME NEW l \in DOMAIN jobs, Drop(l, TheEvent.path, m) PROVE Justified(k, m)
        BY <1>3, <2>1, <2>6, <2>8
    <2> QED
        BY <2>1, <2>3, <2>4, <2>7, <2>8 DEF Outlived
<1> QED
    BY <1>4, <1>5, TextStays

LEMMA BulletsStay ==
    ASSUME FreshStep, Blank, JobsTrue, RefsTrue, BulletsTrue
    PROVE  BulletsTrue'
<1> SUFFICES ASSUME NEW k \in Nodes', NEW m \in FileNames \ FolderNames, ~rows'[k].folder,
                    rows'[k].name = "index.md", m \in rows'[k].text.listed
             PROVE  Justified(k, m)'
    BY DEF BulletsTrue
<1>1. k \in Nodes /\ ~rows[k].folder /\ Keeps(k)
    BY FileBefore DEF NoText
<1>2. rows[k].name = "index.md"
    BY <1>1 DEF Keeps
<1>3. Justified(k, m)
    BY <1>1, <1>2, AddedJustified DEF BulletsTrue
<1> QED
    BY <1>1, <1>2, <1>3, JustifiedStays

-----------------------------------------------------------------------------
(* Every step, and when nothing is under way.                              *)

LEMMA InitKnown ==
    ASSUME Init, InOrder(corpus)
    PROVE  Known
<1>1. /\ call = [c \in Callers |-> Idle] /\ worker = Resting /\ Resting.at = "idle"
      /\ Idle.tell = {} /\ Idle.kind = "none" /\ Idle.text.listed = {}
      /\ rows = corpus.rows /\ IsTree(rows) /\ RowsOK(rows)
    BY OkfAssumption, InitFits DEF Init, Resting, Idle, NoText, OkfInv, TreeInv
<1>2. \A c \in Callers : call[c].kind # "delete"
    BY <1>1
<1>3. \A n : Spared(n) /\ ~Condemned(n)
    BY <1>2 DEF Spared, Condemned
<1>4. Blank /\ TellsTrue
    BY <1>1 DEF Blank, TellsTrue, Users
<1>5. RefsTrue
    BY <1>1 DEF RefsTrue
<1>6. CondemnedSeen /\ DropsSeen
    BY <1>3 DEF CondemnedSeen, DropsSeen
<1>7. JobsTrue
    <2> SUFFICES ASSUME NEW i \in DOMAIN jobs PROVE Single(jobs[i].ev) /\ Outlived(i)
        BY DEF JobsTrue
    <2>1. PICK e : e = jobs[i].ev
        OBVIOUS
    <2>2. e \in corpus.saved /\ Single(e)
        <3>1. Single(jobs[i].ev) /\ i = 1
            BY FirstEvents
        <3>2. jobs[1] = NewJob(e, FALSE) => jobs[1].ev = e
            BY DEF NewJob
        <3>3. jobs[i].ev \in corpus.saved
            BY <3>1, FirstJobs DEF NewJob
        <3> QED
            BY <2>1, <3>1, <3>3
    <2>3. PICK n \in DOMAIN rows : /\ rows[n].there /\ ~rows[n].folder
                                   /\ rows[n].path = e.path /\ rows[n].name = e.name
        BY <1>1, <2>2 DEF InOrder
    <2>4. n \in Files(e.path, e.name)
        BY <2>3, FilesMeaning
    <2> QED
        BY <1>3, <2>1, <2>2, <2>4 DEF Outlived, Safe
<1>8. BulletsTrue
    <2> SUFFICES ASSUME NEW k \in Nodes, NEW m \in FileNames \ FolderNames, ~rows[k].folder,
                        rows[k].name = "index.md", m \in rows[k].text.listed
                 PROVE  Justified(k, m)
        BY DEF BulletsTrue
    <2>1. k \in DOMAIN rows /\ rows[k].there
        BY DEF Nodes
    <2>2. PICK n \in DOMAIN rows : /\ rows[n].there /\ ~rows[n].folder
                                   /\ rows[n].path = rows[k].path /\ rows[n].name = m
        BY <1>1, <2>1 DEF InOrder
    <2>3. rows[n].parent = rows[k].parent
        BY <1>1, <2>1, <2>2, SameFolder
    <2>4. IsBeside(n, k, m)
        BY <1>3, <2>2, <2>3 DEF IsBeside, Nodes
    <2> QED
        BY <2>4 DEF Justified
<1> QED
    BY <1>4, <1>5, <1>6, <1>7, <1>8 DEF Known

LEMMA InitFresh ==
    ASSUME Init
    PROVE  FreshHolds
BY InitKnown DEF FreshHolds, Fresh, Settled

LEMMA NextFresh ==
    ASSUME OkfInv, OkfInv', TreeFacts, TreeFacts', QueueHolds, UpkeepHolds, FreshHolds, Next
    PROVE  FreshHolds'
<1> SUFFICES ASSUME Fresh' PROVE Known'
    BY DEF FreshHolds
<1>1. Sane' /\ InOrder(corpus')
    BY DEF Fresh, Settled, Sane, Excuses
<1>2. Sound /\ Sound'
    BY <1>1, NextSound
<1>3. Fresh /\ Settled' /\ odd' \cap Excuses = {}
    BY <1>2, FreshBefore
<1>4. Shapes
    BY <1>2, <1>3, NextShapes
<1>5. FreshStep /\ Known
    BY <1>2, <1>3, <1>4 DEF FreshStep, UpkeepHolds, FreshHolds, Fresh
<1>6. Blank' /\ TellsTrue' /\ JobsTrue'
    BY <1>2, <1>4, <1>5, BlankStays, TellsStay, JobsStay DEF Known
<1>7. RefsTrue' /\ CondemnedSeen'
    BY <1>5, RefsStay, CondemnedSeenStays DEF Known
<1>8. DropsSeen' /\ BulletsTrue'
    BY <1>5, DropsSeenStays, BulletsStay DEF Known
<1> QED
    BY <1>6, <1>7, <1>8 DEF Known

LEMMA StutterFresh ==
    ASSUME FreshHolds, UNCHANGED vars
    PROVE  FreshHolds'
<1>1. UNCHANGED <<rows, call, calls, odd, corpus, jobs, slots, worker, crashes>>
    BY DEF vars, treeVars
<1>2. TheEvent' = TheEvent /\ \A i : Running(i)' <=> Running(i)
    BY <1>1, SameJob DEF Running
<1>3. Fresh' => Fresh
    BY <1>1 DEF Fresh, Settled, Uprooting, Shifting
<1>4. \A n : /\ Spared(n)' <=> Spared(n)
             /\ HasIndex(n)' <=> HasIndex(n)
             /\ Concept(n)' <=> Concept(n)
             /\ Condemned(n)' <=> Condemned(n)
    BY <1>1 DEF Spared, HasIndex, Concept, Condemned, Nodes
<1>5. \A p, m : Files(p, m)' = Files(p, m)
    BY <1>1 DEF Files, At, Nodes
<1>6. \A p, m : Safe(p, m)' <=> Safe(p, m)
    BY <1>4, <1>5 DEF Safe
<1>7. \A i, p, m : (Drop(i, p, m)' <=> Drop(i, p, m)) /\ (Waits(i, p, m)' <=> Waits(i, p, m))
    BY <1>1 DEF Drop, Waits
<1>8. Blank => Blank'
    BY <1>1 DEF Blank
<1>9. TellsTrue => TellsTrue'
    BY <1>1, <1>5 DEF TellsTrue
<1>10. JobsTrue => JobsTrue'
    <2>1. \A i : Outlived(i) => Outlived(i)'
        BY <1>1, <1>6, <1>7 DEF Outlived
    <2> QED
        BY <1>1, <2>1 DEF JobsTrue
<1>11. RefsTrue => RefsTrue'
    <2>1. \A j, m : RefTrue(j, m) => RefTrue(j, m)'
        BY <1>1, <1>5, <1>6, <1>7 DEF RefTrue
    <2> QED
        BY <1>1, <1>2, <2>1 DEF RefsTrue
<1>12. CondemnedSeen => CondemnedSeen'
    <2>1. \A p, m : Foreseen(p, m) => Foreseen(p, m)'
        <3>1. \A p, m : ToDo(p, m)' <=> ToDo(p, m)
            BY <1>1 DEF ToDo
        <3> QED
            BY <1>1, <1>2, <1>7, <3>1 DEF Foreseen
    <2> QED
        BY <1>1, <1>4, <2>1 DEF CondemnedSeen
<1>13. DropsSeen => DropsSeen'
    <2>1. \A p, m : Dropped(p, m) => Dropped(p, m)'
        BY <1>1, <1>2, <1>7 DEF Dropped, DropsLast
    <2> QED
        BY <1>1, <1>4, <2>1 DEF DropsSeen
<1>14. BulletsTrue => BulletsTrue'
    <2>1. \A k, m : Justified(k, m) => Justified(k, m)'
        <3>1. \A n, k, m : IsBeside(n, k, m) => IsBeside(n, k, m)'
            BY <1>1, <1>4 DEF IsBeside, Nodes
        <3>2. \A i, k, m : TakesAway(i, k, m) => TakesAway(i, k, m)'
            BY <1>1, <1>2, <1>7 DEF TakesAway, Drop
        <3> QED
            BY <1>1, <3>1, <3>2 DEF Justified
    <2> QED
        BY <1>1, <2>1 DEF BulletsTrue, Nodes
<1>15. Known => Known'
    BY <1>8, <1>9, <1>10, <1>11, <1>12, <1>13, <1>14 DEF Known
<1> QED
    BY <1>3, <1>15 DEF FreshHolds

LEMMA QuietIsFresh ==
    ASSUME OkfInv, TreeFacts, FreshHolds
    PROVE  NothingStale
<1> SUFFICES ASSUME corpus.okf, InOrder(corpus), Quiet,
                    odd \cap {"dropped", "given up", "died", "clash", "uprooted", "index",
                              "tangled", "renamed", "razed"} = {},
                    NEW n \in Nodes, ~rows[n].folder, rows[n].name = "index.md",
                    NEW m \in rows[n].text.listed \cap (FileNames \ FolderNames)
             PROVE  Files(rows[n].path, m) # {}
    BY DEF NothingStale
<1>1. /\ \A c \in Callers : call[c] = Idle
      /\ jobs = <<>> /\ DOMAIN jobs = {} /\ Idle.at = "idle"
    BY QuietMeaning
<1>2. Known
    <2>1. ~Uprooting
        BY <1>1 DEF Uprooting
    <2> QED
        BY <2>1 DEF Fresh, Settled, Excuses, FreshHolds
<1>3. IsTree(rows) /\ RowsOK(rows)
    <2>1. Sane /\ \A c \in Callers : ~Shifting(call[c])
        BY <1>1 DEF Sane, Shifting
    <2> QED
        BY <2>1 DEF TreeFacts, Facts, OkfInv, TreeInv
<1>4. Justified(n, m)
    BY <1>2 DEF Known, BulletsTrue
<1>5. PICK k \in DOMAIN rows : IsBeside(k, n, m)
    BY <1>1, <1>4 DEF Justified
<1>6. /\ rows[k].there /\ ~rows[k].folder /\ rows[k].parent = rows[n].parent
      /\ rows[k].name = m /\ rows[n].there /\ n \in DOMAIN rows
    BY <1>5 DEF IsBeside, Nodes
<1>7. rows[k].path = rows[n].path
    BY <1>3, <1>6, SameFolder
<1>8. k \in Files(rows[n].path, m)
    BY <1>6, <1>7, FilesMeaning
<1> QED
    BY <1>8

\* When nothing is under way, no index.md lists a file that is not beside it:
\* of all that is created, saved and deleted while the worker is at it, no
\* bullet is left behind or comes back, except in the cases that NothingStale
\* names.
THEOREM NothingStaleHolds == Spec => []NothingStale
<1>1. /\ OkfInv /\ OkfInv' /\ TreeFacts /\ TreeFacts' /\ QueueHolds /\ UpkeepHolds
      /\ FreshHolds /\ [Next]_vars
      => QueueHolds' /\ UpkeepHolds' /\ FreshHolds'
    BY NextUpkeep, StutterUpkeep, NextFresh, StutterFresh
<1>2. Spec => [](QueueHolds /\ UpkeepHolds /\ FreshHolds)
    BY <1>1, InitUpkeep, InitFresh, AlwaysFits, AlwaysTree, PTL DEF Spec
<1> QED
    BY <1>2, AlwaysFits, AlwaysTree, QuietIsFresh, PTL
=============================================================================
