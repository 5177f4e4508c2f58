------------------------ MODULE PortableImportProofs ------------------------
(***************************************************************************)
(* Proofs about PortableImport, for every corpus and archive it may begin  *)
(* with, any number of calls of any kind beside each other, and any number *)
(* of failures and deaths.                                                 *)
(*                                                                         *)
(* First the types (TypeInv), and that every step tells those who have     *)
(* looked at a row or stored it (Marks).  From then on it is enough to say *)
(* of each operation what it leaves behind for the call that takes it      *)
(* (Local); what the other calls know is theirs still (LocalEnough).  So   *)
(* contents are where rows point to (PlaceInv, with Stored), no step takes *)
(* the content of a document nobody works on, and errors have a reason.    *)
(* Last, what a portable import has done when it ends (RestoreInv).        *)
(***************************************************************************)
EXTENDS PortableImport, TLAPS

-----------------------------------------------------------------------------
(* The inductive invariant.                                                *)

\* A call has what it is about to use at its stage.
Ready(c) ==
    /\ call[c].pc \in {"put", "point", "erase", "drop", "update", "adopt"} => call[c].on \in Ids
    /\ call[c].pc \in {"put", "point", "path", "update", "adopt", "insert"} => call[c].file \in File
    /\ call[c].pc \in {"put", "point", "update", "adopt"} => call[c].at \in Places
    /\ call[c].pc \in {"path", "update", "adopt", "jobs"} => call[c].kind = "portable"
    /\ call[c].pc \in {"file", "insert"} => Imports(c)
    /\ call[c].pc \in {"put", "point"} => call[c].kind \in {"create", "save", "portable", "generic"}
    /\ call[c].pc \in {"put", "point"} /\ call[c].kind # "portable" => call[c].had = Nothing
    /\ call[c].pc \in {"erase", "drop"} => call[c].kind = "delete"
    /\ call[c].pc = "idle" => call[c] = Idle /\ did[c] = {} /\ errors[c] = {}
    /\ ~InFlight(c) => call[c].on = Nothing /\ call[c].at = Nothing
    /\ call[c].at # Nothing => call[c].pc \in {"put", "point", "erase", "drop", "update", "adopt"}

\* The one archive is made before any import, which reads it.
Archived(c) ==
    /\ call[c].pc = "read" => /\ call[c].kind = "export" /\ archive.files = {}
                              /\ \A d \in Calls \ {c} : call[d].kind # "export"
    /\ Imports(c) => /\ archive.files # {} /\ call[c].todo \subseteq archive.files
                     /\ call[c].file = Nothing \/ call[c].file \in archive.files

Placed == \A c \in Calls : Ready(c) /\ Archived(c)

\* One row at a path, a hash for every content, and no id given twice.
Rows ==
    /\ \A i, j \in Present : row[i].path = row[j].path => i = j
    /\ \A i \in Present : row[i].at # Nothing => row[i].hash # Nothing
    /\ \A i \in Ids : scene.elsewhere[i] # "no" => i \in used
    /\ archive.files = {} => links = scene.links

TypeInv == TypeOK /\ Placed /\ Rows

\* A call that was cut off from its work, or ran beside another.
Disturbed == mishaps > 0 \/ overlapped # {}

\* Who is in flight with another call is on record.
Overlaps ==
    \A c, d \in Calls : c # d /\ InFlight(c) /\ InFlight(d) => c \in overlapped

\* A portable import is about to store the content of row i.
AtWork(c, i) == call[c].pc \in {"put", "point"} /\ call[c].kind = "portable" /\ call[c].on = i

\* A content is at a place of its document, or at one an import has lent; and
\* that only while the import is at work on it, if nothing came in between.
Own ==
    /\ \A i \in Ids :
         row[i] # Nothing /\ row[i].at # Nothing
           => \/ row[i].at[2] = i
              \/ row[i].at \in lent /\ (Disturbed \/ \E c \in Calls : AtWork(c, i))
    /\ \A c \in Calls :
         call[c].at # Nothing => \/ call[c].at[2] = call[c].on
                                 \/ call[c].at \in lent /\ Disturbed

\* What c has seen of its row still holds.
Sure(c) == <<c, call[c].on>> \notin touched \/ c \notin overlapped

\* What that is.
Seen(c) ==
    LET i == call[c].on
        f == call[c].file
    IN  /\ call[c].pc \in {"put", "point", "update", "adopt"} => row[i] # Nothing
        /\ call[c].pc = "update" => row[i].ref = f.path
        /\ call[c].pc \in {"put", "point"} /\ call[c].kind = "portable"
             => f.path \in {row[i].path, row[i].ref} /\ row[i].hash = f.text
        /\ call[c].pc = "put" /\ call[c].kind = "portable" => row[i].at = call[c].had
        /\ call[c].pc = "point"
             => blob[call[c].at] = f.text \/ (call[c].at \in lent /\ Disturbed)

\* A portable import on its own finds the place free it is about to insert at.
Vacant(c) ==
    call[c].pc = "insert" /\ call[c].kind = "portable" /\ c \notin overlapped
      => /\ At(call[c].file.path) = {}
         /\ call[c].prefer => Usable(call[c].file.id, call[c].file.path)

AtHand == \A c \in Calls : (Sure(c) => Seen(c)) /\ Vacant(c)

\* The content a call has stored is there.
Held(d) ==
    /\ row[d.id] # Nothing
    /\ row[d.id].hash = d.file.text
    /\ row[d.id].at # Nothing
    /\ blob[row[d.id].at] = d.file.text \/ Shared(d.id)

PlaceInv == TypeInv /\ Overlaps /\ Own /\ AtHand /\ Stored
-----------------------------------------------------------------------------
(* Where a call stands after a step.                                       *)

Now(c, pc, kind, file, on, at, had, todo) ==
    /\ call' \in [Calls -> Call]
    /\ \A d \in Calls \ {c} : call'[d] = call[d]
    /\ call'[c].pc = pc /\ call'[c].kind = kind /\ call'[c].file = file /\ call'[c].on = on
    /\ call'[c].at = at /\ call'[c].had = had /\ call'[c].todo = todo

LEMMA TurnNow ==
    ASSUME TypeOK, NEW c \in Calls, NEW n \in Call, call' = [call EXCEPT ![c] = n]
    PROVE  Now(c, n.pc, n.kind, n.file, n.on, n.at, n.had, n.todo)
  BY DEF TypeOK, Now

LEMMA PutNow ==
    ASSUME TypeOK, NEW c \in Calls, NEW kind \in Kinds, NEW f \in File, NEW i \in Ids,
           NEW place \in Places, Put(c, kind, f, i, place)
    PROVE  Now(c, "put", kind, f, i, place, Nothing, call[c].todo)
  <1> DEFINE n == [call[c] EXCEPT !.pc = "put", !.kind = kind, !.file = f, !.on = i,
                                  !.at = place, !.had = Nothing]
  <1>1. call[c] \in Call
    BY DEF TypeOK
  <1>2. n \in Call /\ call' = [call EXCEPT ![c] = n]
    BY <1>1 DEF Call, Pcs, Put
  <1>3. /\ n.pc = "put" /\ n.kind = kind /\ n.file = f /\ n.on = i
        /\ n.at = place /\ n.had = Nothing /\ n.todo = call[c].todo
    BY <1>1 DEF Call
  <1> HIDE DEF n
  <1> QED
    BY <1>2, <1>3, TurnNow

LEMMA EndsNow ==
    ASSUME TypeOK, NEW c \in Calls, NEW how \in Pcs, Ends(c, how)
    PROVE  Now(c, how, call[c].kind, Nothing, Nothing, Nothing, Nothing, {})
  BY DEF TypeOK, Ends, Ended, Idle, Now, Call, Pcs

LEMMA NextFileNow ==
    ASSUME TypeOK, NEW c \in Calls, NextFile(c)
    PROVE  Now(c, "file", call[c].kind, Nothing, Nothing, Nothing, Nothing,
               call[c].todo \ {call[c].file})
  BY DEF TypeOK, NextFile, Idle, Now, Call, Pcs

LEMMA FoundNow ==
    ASSUME TypeOK, NEW c \in Calls, NEW f \in File, NEW i \in Present, NEW pc \in Pcs,
           Found(c, f, i, pc)
    PROVE  Now(c, IF row[i].hash = f.text THEN "put" ELSE pc, call[c].kind, f, i,
               <<"import", i>>, row[i].at, call[c].todo)
  <1>1. call[c] \in Call /\ row[i].at \in Places \cup {Nothing} /\ <<"import", i>> \in Places
    BY DEF TypeOK, Present, Row, Places
  <1> DEFINE stage == IF row[i].hash = f.text THEN "put" ELSE pc
  <1>2. stage \in Pcs /\ i \in Ids
    BY DEF Pcs, Present
  <1> DEFINE place == <<"import", i>>
             n == [call[c] EXCEPT !.pc = stage, !.file = f, !.on = i, !.at = place, !.had = row[i].at]
  <1>3. call' = [call EXCEPT ![c] = n]
    BY DEF Found, FoundFor
  <1> HIDE DEF stage, place
  <1>4. n \in Call
    BY <1>1, <1>2 DEF Call, place
  <1>5. /\ n.pc = stage /\ n.kind = call[c].kind /\ n.file = f /\ n.on = i
        /\ n.at = place /\ n.had = row[i].at /\ n.todo = call[c].todo
    BY <1>1 DEF Call
  <1> HIDE DEF n
  <1>6. Now(c, stage, call[c].kind, f, i, place, row[i].at, call[c].todo)
    BY <1>3, <1>4, <1>5, TurnNow
  <1> QED
    BY <1>6 DEF stage, place

\* The same where only the stage changes.
LEMMA StageNow ==
    ASSUME TypeOK, NEW c \in Calls, NEW pc \in Pcs, call' = [call EXCEPT ![c].pc = pc]
    PROVE  Now(c, pc, call[c].kind, call[c].file, call[c].on, call[c].at, call[c].had, call[c].todo)
  BY DEF TypeOK, Now, Call
-----------------------------------------------------------------------------
(* What a step does to the calls that have looked at a row or written it.  *)

LEMMA NewIdSpare ==
    ASSUME Spare
    PROVE  NewId \in Ids /\ NewId \notin used
  BY DEF Spare, NewId

\* Who sees a row change without having done it is on record.
Marks(c) ==
    /\ touched' \subseteq Calls \X Ids
    /\ \A d \in Calls, i \in Ids :
         <<d, i>> \in touched /\ (d # c \/ \E e \in did[d] : e.id = i) => <<d, i>> \in touched'
    /\ \A i \in Ids : row'[i] # row[i] \/ i \in owed' \ owed
                        => \A d \in Concerned(c, i) : <<d, i>> \in touched'
    /\ \A i \in Ids : links'[i] # links[i]
                        => \A d \in Concerned(c, i) \ {c} : <<d, i>> \in touched'
    /\ \A p \in Places : blob'[p] # blob[p]
                           => /\ p = call[c].at /\ call[c].pc \in {"put", "erase"}
                              /\ \A d \in Concerned(c, call[c].on) : <<d, call[c].on>> \in touched'

LEMMA WroteMarks ==
    ASSUME TypeOK, NEW c \in Calls, NEW i \in Ids, Wrote(c, i)
    PROVE  /\ touched' \subseteq Calls \X Ids /\ touched \subseteq touched'
           /\ \A d \in Concerned(c, i) : <<d, i>> \in touched'
  BY DEF TypeOK, Wrote, Concerned

LEMMA LooksMarks ==
    ASSUME TypeOK, NEW c \in Calls, NEW i \in Ids, Looks(c, i)
    PROVE  /\ touched' \subseteq Calls \X Ids
           /\ \A d \in Calls, j \in Ids :
                <<d, j>> \in touched /\ (d # c \/ \E e \in did[d] : e.id = j) => <<d, j>> \in touched'
  BY DEF TypeOK, Looks

\* What else a step of a call does to the others, and what it leaves alone.
Moves(c) ==
    /\ scene' = scene
    /\ \A d \in Calls \ {c} : call'[d] = call[d] /\ did'[d] = did[d] /\ errors'[d] = errors[d]
    /\ did[c] \subseteq did'[c] /\ errors[c] \subseteq errors'[c]
    /\ did[c] # {} => call'[c].kind = call[c].kind
    /\ archive' # archive => \A d \in Calls : ~Imports(d) /\ ~Imports(d)'
    /\ lent \subseteq lent' /\ mishaps' \in {mishaps, mishaps + 1}
    /\ overlapped \subseteq overlapped'
    /\ \/ InFlight(c)
       \/ \A d \in Calls : ~InFlight(d)
       \/ c \in overlapped' /\ \A d \in Calls : InFlight(d) => d \in overlapped'

LEMMA StartsMoves ==
    ASSUME TypeOK, NEW c \in Calls, NEW k \in Kinds, Starts(c, k)
    PROVE  /\ call[c].pc = "idle" /\ ~InFlight(c)
           /\ overlapped \subseteq overlapped' /\ overlapped' \subseteq Calls
           /\ \/ \A d \in Calls : ~InFlight(d)
              \/ c \in overlapped' /\ \A d \in Calls : InFlight(d) => d \in overlapped'
  BY DEF TypeOK, Starts, InFlight

\* The calls that do not take the step stand as they did.
LEMMA PlacedKept ==
    ASSUME Placed, NEW c \in Calls, archive' = archive,
           \A d \in Calls \ {c} : call'[d] = call[d] /\ did'[d] = did[d] /\ errors'[d] = errors[d],
           call'[c].kind = "export" => call[c].kind = "export",
           Ready(c)' /\ Archived(c)'
    PROVE  Placed'
  <1> SUFFICES ASSUME NEW d \in Calls \ {c}
               PROVE  Ready(d)' /\ Archived(d)'
    BY DEF Placed
  <1>1. Ready(d) /\ Archived(d) /\ call'[d] = call[d]
    BY DEF Placed
  <1>2. Ready(d)'
    BY <1>1 DEF Ready, InFlight, Imports, Idle
  <1>3. Archived(d)'
    BY <1>1 DEF Archived, Imports
  <1> QED
    BY <1>2, <1>3

LEMMA PutReady ==
    ASSUME PortableAssumption, NEW c \in Calls, NEW kind \in {"create", "save", "portable", "generic"},
           NEW f \in File, NEW i \in Ids, NEW place \in Places, NEW had, NEW todo,
           Now(c, "put", kind, f, i, place, had, todo), kind # "portable" => had = Nothing
    PROVE  Ready(c)'
  BY DEF Now, Ready, InFlight, Imports, Idle

LEMMA ClientArchived ==
    ASSUME NEW c \in Calls, call'[c].pc # "read", call'[c].kind \notin {"portable", "generic"}
    PROVE  Archived(c)'
  BY DEF Archived, Imports

LEMMA CreateMoves ==
    ASSUME TypeInv, NEW c \in Calls, Create(c)
    PROVE  TypeInv' /\ Moves(c) /\ Marks(c)
  <1> DEFINE Goal == TypeInv' /\ Moves(c) /\ Marks(c)
  <1> SUFFICES Goal
    OBVIOUS
  <1> DEFINE n == NewId
  <1>1. PICK p \in Paths, t \in scene.texts :
          /\ At(p) = {}
          /\ Inserted(c, n, [path |-> p, ref |-> Nothing, hash |-> Nothing, at |-> Nothing])
          /\ Put(c, "create", Written(n, p, t), n, <<"managed", n>>)
    BY DEF Create
  <1>2. n \in Ids /\ n \notin used
    BY NewIdSpare DEF Create
  <1> HIDE DEF n
  <1>3. /\ TypeOK /\ Placed /\ Rows /\ call[c].pc = "idle" /\ did[c] = {} /\ errors[c] = {}
        /\ UNCHANGED <<scene, blob, links, archive, did, errors, lent, mishaps>>
    BY DEF TypeInv, Placed, Ready, Create, Starts
  <1>4. Written(n, p, t) \in File /\ <<"managed", n>> \in Places
    BY <1>1, <1>2, <1>3, PortableAssumption DEF TypeOK, Written, File, Places
  <1> DEFINE f == Written(n, p, t)
             place == <<"managed", n>>
  <1> HIDE DEF f, place
  <1>5. Now(c, "put", "create", f, n, place, Nothing, call[c].todo)
    BY <1>1, <1>2, <1>3, <1>4, PutNow DEF Kinds, f, place
  <1>6. Placed'
    <2>1. Ready(c)'
      BY <1>2, <1>4, <1>5, PutReady, PortableAssumption DEF f, place
    <2> QED
      BY <2>1, <1>3, <1>5, PlacedKept, ClientArchived DEF Now
  <1>7. touched' \subseteq Calls \X Ids /\ touched \subseteq touched'
        /\ \A d \in Concerned(c, n) : <<d, n>> \in touched'
    BY <1>1, <1>2, <1>3, WroteMarks DEF Inserted
  <1>8. /\ overlapped \subseteq overlapped' /\ overlapped' \subseteq Calls
        /\ \/ \A d \in Calls : ~InFlight(d)
           \/ c \in overlapped' /\ \A d \in Calls : InFlight(d) => d \in overlapped'
    BY <1>3, StartsMoves DEF Create, Kinds
  <1> DEFINE r == [path |-> p, ref |-> Nothing, hash |-> Nothing, at |-> Nothing]
  <1>9. r \in Row /\ r # Nothing /\ r.path = p /\ r.at = Nothing
    BY <1>1, PortableAssumption DEF Row
  <1> HIDE DEF r
  <1>10. row' = [row EXCEPT ![n] = r] /\ used' = used \cup {n} /\ owed' = owed \cup {n}
    BY <1>1 DEF Inserted, SetRow, Pending, r
  <1>11. TypeOK'
    BY <1>2, <1>3, <1>5, <1>7, <1>8, <1>9, <1>10 DEF TypeOK, Now
  <1>12. Rows'
    BY <1>1, <1>2, <1>3, <1>9, <1>10 DEF TypeOK, Rows, At, Present
  <1>13. Moves(c)
    BY <1>3, <1>5, <1>8 DEF Moves, Now, TypeOK
  <1>14. Marks(c)
    BY <1>2, <1>3, <1>7, <1>10 DEF Marks, TypeOK
  <1> QED
    BY <1>6, <1>11, <1>12, <1>13, <1>14 DEF TypeInv

LEMMA RowsKept ==
    ASSUME Rows, UNCHANGED <<scene, row, links, archive>>, used \subseteq used'
    PROVE  Rows'
  BY DEF Rows, Present

LEMMA SaveMoves ==
    ASSUME TypeInv, NEW c \in Calls, Save(c)
    PROVE  TypeInv' /\ Moves(c) /\ Marks(c)
  <1> DEFINE Goal == TypeInv' /\ Moves(c) /\ Marks(c)
  <1> SUFFICES Goal
    OBVIOUS
  <1>1. PICK i \in Present, t \in scene.texts :
          /\ Looks(c, i)
          /\ Put(c, "save", Written(i, row[i].path, t), i,
                 IF row[i].at = Nothing THEN <<"managed", i>> ELSE row[i].at)
    BY DEF Save
  <1>2. /\ TypeOK /\ Placed /\ Rows /\ call[c].pc = "idle" /\ did[c] = {} /\ errors[c] = {}
        /\ UNCHANGED <<scene, row, blob, links, used, owed, archive, did, errors, lent, mishaps>>
    BY DEF TypeInv, Placed, Ready, Save, Starts, corpusVars
  <1>3. i \in Ids /\ row[i] \in Row /\ row[i].path \in Paths
    BY <1>2 DEF Present, TypeOK, Row
  <1> DEFINE f == Written(i, row[i].path, t)
             place == IF row[i].at = Nothing THEN <<"managed", i>> ELSE row[i].at
  <1>4. f \in File /\ place \in Places
    BY <1>1, <1>2, <1>3, PortableAssumption DEF TypeOK, Written, File, Places, Row
  <1> HIDE DEF f, place
  <1>5. Now(c, "put", "save", f, i, place, Nothing, call[c].todo)
    BY <1>1, <1>2, <1>3, <1>4, PutNow DEF Kinds, f, place
  <1>6. Placed'
    <2>1. Ready(c)'
      BY <1>3, <1>4, <1>5, PutReady, PortableAssumption
    <2> QED
      BY <2>1, <1>2, <1>5, PlacedKept, ClientArchived DEF Now
  <1>7. /\ touched' \subseteq Calls \X Ids
        /\ \A d \in Calls, j \in Ids :
             <<d, j>> \in touched /\ (d # c \/ \E e \in did[d] : e.id = j) => <<d, j>> \in touched'
    BY <1>1, <1>2, <1>3, LooksMarks
  <1>8. /\ overlapped \subseteq overlapped' /\ overlapped' \subseteq Calls
        /\ \/ \A d \in Calls : ~InFlight(d)
           \/ c \in overlapped' /\ \A d \in Calls : InFlight(d) => d \in overlapped'
    BY <1>2, StartsMoves DEF Save, Kinds
  <1>9. TypeOK'
    BY <1>2, <1>5, <1>7, <1>8 DEF TypeOK, Now
  <1>10. Rows'
    BY <1>2, RowsKept
  <1>11. Moves(c)
    BY <1>2, <1>5, <1>8 DEF Moves, Now, TypeOK
  <1>12. Marks(c)
    BY <1>2, <1>7 DEF Marks
  <1> QED
    BY <1>6, <1>9, <1>10, <1>11, <1>12 DEF TypeInv

LEMMA RenameMoves ==
    ASSUME TypeInv, NEW c \in Calls, Rename(c)
    PROVE  TypeInv' /\ Moves(c) /\ Marks(c)
  <1> DEFINE Goal == TypeInv' /\ Moves(c) /\ Marks(c)
  <1> SUFFICES Goal
    OBVIOUS
  <1>1. PICK i \in Present, p \in Paths :
          /\ At(p) = {}
          /\ SetRow(i, [row[i] EXCEPT !.path = p])
          /\ Wrote(c, i)
    BY DEF Rename
  <1>2. /\ TypeOK /\ Placed /\ Rows /\ call[c].pc = "idle" /\ did[c] = {} /\ errors[c] = {}
        /\ call[c].kind = Nothing
        /\ UNCHANGED <<scene, blob, links, used, owed, archive, did, errors, lent, mishaps>>
    <2>1. call[c].pc = "idle"
      BY DEF Rename, Starts
    <2>2. TypeOK /\ Placed /\ Rows /\ Ready(c)
      BY DEF TypeInv, Placed
    <2>3. call[c] = Idle /\ did[c] = {} /\ errors[c] = {}
      BY <2>1, <2>2 DEF Ready
    <2> QED
      BY <2>1, <2>2, <2>3 DEF Rename, Idle
  <1>3. i \in Ids /\ row[i] \in Row /\ row[i] # Nothing
    BY <1>2 DEF Present, TypeOK
  <1>4. Now(c, "done", Nothing, Nothing, Nothing, Nothing, Nothing, {})
    BY <1>2, EndsNow DEF Rename, Pcs
  <1>5. Placed'
    <2>1. Ready(c)'
      BY <1>4, PortableAssumption DEF Now, Ready, InFlight, Imports, Idle
    <2>2. call'[c].pc # "read" /\ call'[c].kind \notin {"portable", "generic", "export"}
      BY <1>4, PortableAssumption DEF Now, Kinds
    <2> QED
      BY <2>1, <2>2, <1>2, <1>4, PlacedKept, ClientArchived DEF Now
  <1>6. touched' \subseteq Calls \X Ids /\ touched \subseteq touched'
        /\ \A d \in Concerned(c, i) : <<d, i>> \in touched'
    BY <1>1, <1>2, <1>3, WroteMarks
  <1>7. /\ overlapped \subseteq overlapped' /\ overlapped' \subseteq Calls
        /\ \/ \A d \in Calls : ~InFlight(d)
           \/ c \in overlapped' /\ \A d \in Calls : InFlight(d) => d \in overlapped'
    BY <1>2, StartsMoves DEF Rename, Kinds
  <1> DEFINE r == [row[i] EXCEPT !.path = p]
  <1>8. r \in Row /\ r # Nothing /\ r.path = p /\ r.at = row[i].at /\ r.hash = row[i].hash
    BY <1>1, <1>3, PortableAssumption DEF Row
  <1> HIDE DEF r
  <1>9. row' = [row EXCEPT ![i] = r]
    BY <1>1 DEF SetRow, r
  <1>10. TypeOK'
    BY <1>2, <1>3, <1>4, <1>6, <1>7, <1>8, <1>9 DEF TypeOK, Now
  <1>11. Rows'
    BY <1>1, <1>2, <1>3, <1>8, <1>9 DEF TypeOK, Rows, At, Present
  <1>12. Moves(c)
    BY <1>2, <1>4, <1>7 DEF Moves, Now, TypeOK
  <1>13. Marks(c)
    BY <1>2, <1>3, <1>6, <1>9 DEF Marks, TypeOK
  <1> QED
    BY <1>5, <1>10, <1>11, <1>12, <1>13 DEF TypeInv

LEMMA DeleteMoves ==
    ASSUME TypeInv, NEW c \in Calls, Delete(c)
    PROVE  TypeInv' /\ Moves(c) /\ Marks(c)
  <1> DEFINE Goal == TypeInv' /\ Moves(c) /\ Marks(c)
  <1> SUFFICES Goal
    OBVIOUS
  <1> DEFINE n(i) == [call[c] EXCEPT !.pc = "erase", !.kind = "delete", !.on = i, !.at = row[i].at]
  <1>1. PICK i \in Present : call' = [call EXCEPT ![c] = n(i)]
    BY DEF Delete
  <1>2. /\ TypeOK /\ Placed /\ Rows /\ call[c].pc = "idle" /\ did[c] = {} /\ errors[c] = {}
        /\ call[c] = Idle /\ call[c] \in Call
        /\ UNCHANGED <<scene, row, blob, links, used, owed, archive, did, errors, touched, lent, mishaps>>
    BY DEF TypeInv, Placed, Ready, Delete, Starts, corpusVars, TypeOK
  <1>3. i \in Ids /\ row[i].at \in Places \cup {Nothing}
    BY <1>2 DEF Present, TypeOK, Row
  <1>4. n(i) \in Call
    BY <1>2, <1>3 DEF Call, Pcs, Kinds
  <1>5. /\ n(i).pc = "erase" /\ n(i).kind = "delete" /\ n(i).file = Nothing /\ n(i).on = i
        /\ n(i).at = row[i].at /\ n(i).had = Nothing /\ n(i).todo = {}
    BY <1>2 DEF Call, Idle
  <1> HIDE DEF n
  <1>6. Now(c, "erase", "delete", Nothing, i, row[i].at, Nothing, {})
    BY <1>1, <1>2, <1>4, <1>5, TurnNow
  <1>7. Placed'
    <2>1. Ready(c)'
      BY <1>3, <1>6 DEF Now, Ready, InFlight, Imports, Idle
    <2> QED
      BY <2>1, <1>2, <1>6, PlacedKept, ClientArchived DEF Now
  <1>8. /\ overlapped \subseteq overlapped' /\ overlapped' \subseteq Calls
        /\ \/ \A d \in Calls : ~InFlight(d)
           \/ c \in overlapped' /\ \A d \in Calls : InFlight(d) => d \in overlapped'
    BY <1>2, StartsMoves DEF Delete, Kinds
  <1>9. TypeOK'
    BY <1>2, <1>6, <1>8 DEF TypeOK, Now
  <1>10. Rows'
    BY <1>2, RowsKept
  <1>11. Moves(c)
    BY <1>2, <1>6, <1>8 DEF Moves, Now, TypeOK
  <1>12. Marks(c)
    BY <1>2 DEF Marks, TypeOK
  <1> QED
    BY <1>7, <1>9, <1>10, <1>11, <1>12 DEF TypeInv

LEMMA EraseMoves ==
    ASSUME TypeInv, NEW c \in Calls, Erase(c)
    PROVE  TypeInv' /\ Moves(c) /\ Marks(c)
  <1> DEFINE Goal == TypeInv' /\ Moves(c) /\ Marks(c)
  <1> SUFFICES Goal
    OBVIOUS
  <1> DEFINE i == call[c].on
  <1>1. /\ TypeOK /\ Placed /\ Rows /\ call[c].pc = "erase" /\ call[c].kind = "delete" /\ i \in Ids
        /\ Wrote(c, i) /\ call[c].at \in Places \cup {Nothing}
        /\ blob' = [b \in Places |-> IF b = call[c].at THEN Nothing ELSE blob[b]]
        /\ UNCHANGED <<scene, row, links, used, owed, archive, did, errors, overlapped, lent, mishaps>>
    BY DEF TypeInv, Placed, Ready, Erase, TypeOK, Call
  <1> HIDE DEF i
  <1>2. Now(c, "drop", "delete", call[c].file, i, call[c].at, call[c].had, call[c].todo)
    BY <1>1, StageNow DEF Erase, Pcs, i
  <1>3. Placed'
    <2>1. Ready(c)'
      BY <1>1, <1>2 DEF Now, Ready, InFlight, Imports, Idle
    <2> QED
      BY <2>1, <1>1, <1>2, PlacedKept, ClientArchived DEF Now
  <1>4. touched' \subseteq Calls \X Ids /\ touched \subseteq touched'
        /\ \A d \in Concerned(c, i) : <<d, i>> \in touched'
    BY <1>1, WroteMarks
  <1>5. TypeOK'
    <2>1. blob' \in [Places -> Texts \cup {Nothing}]
      BY <1>1 DEF TypeOK
    <2> QED
      BY <2>1, <1>1, <1>2, <1>4 DEF TypeOK, Now
  <1>6. Rows'
    BY <1>1, RowsKept
  <1>7. Moves(c)
    BY <1>1, <1>2 DEF Moves, Now, TypeOK, InFlight
  <1>8. Marks(c)
    <2>1. \A p \in Places : blob'[p] # blob[p] => p = call[c].at
      BY <1>1 DEF TypeOK
    <2> QED
      BY <2>1, <1>1, <1>4 DEF Marks, i
  <1> QED
    BY <1>3, <1>5, <1>6, <1>7, <1>8 DEF TypeInv

LEMMA DropMoves ==
    ASSUME TypeInv, NEW c \in Calls, Drop(c)
    PROVE  TypeInv' /\ Moves(c) /\ Marks(c)
  <1> DEFINE Goal == TypeInv' /\ Moves(c) /\ Marks(c)
  <1> SUFFICES Goal
    OBVIOUS
  <1> DEFINE i == call[c].on
  <1>1. /\ TypeOK /\ Placed /\ Rows /\ call[c].pc = "drop" /\ call[c].kind = "delete" /\ i \in Ids
        /\ Wrote(c, i) /\ row' = [row EXCEPT ![i] = Nothing]
        /\ UNCHANGED <<scene, blob, links, used, owed, archive, did, errors, overlapped, lent, mishaps>>
    BY DEF TypeInv, Placed, Ready, Drop, SetRow
  <1> HIDE DEF i
  <1>2. Now(c, "done", "delete", Nothing, Nothing, Nothing, Nothing, {})
    BY <1>1, EndsNow DEF Drop, Pcs
  <1>3. Placed'
    <2>1. Ready(c)'
      BY <1>1, <1>2 DEF Now, Ready, InFlight, Imports, Idle
    <2> QED
      BY <2>1, <1>1, <1>2, PlacedKept, ClientArchived DEF Now
  <1>4. touched' \subseteq Calls \X Ids /\ touched \subseteq touched'
        /\ \A d \in Concerned(c, i) : <<d, i>> \in touched'
    BY <1>1, WroteMarks
  <1>5. TypeOK'
    BY <1>1, <1>2, <1>4 DEF TypeOK, Now
  <1>6. Rows'
    BY <1>1 DEF TypeOK, Rows, Present
  <1>7. Moves(c)
    BY <1>1, <1>2 DEF Moves, Now, TypeOK, InFlight
  <1>8. Marks(c)
    BY <1>1, <1>4 DEF Marks, TypeOK, i
  <1> QED
    BY <1>3, <1>5, <1>6, <1>7, <1>8 DEF TypeInv

\* A step of a call that is in flight and neither stores nor writes a row.
LEMMA ExportMoves ==
    ASSUME TypeInv, NEW c \in Calls, Export(c)
    PROVE  TypeInv' /\ Moves(c) /\ Marks(c)
  <1> DEFINE Goal == TypeInv' /\ Moves(c) /\ Marks(c)
  <1> SUFFICES Goal
    OBVIOUS
  <1> DEFINE todo == {Written(i, row[i].path, row[i].hash) : i \in {j \in Present : row[j].at # Nothing}}
             n == [call[c] EXCEPT !.pc = "read", !.kind = "export", !.todo = todo]
             made == {[from |-> e[1], to |-> e[2], target |-> scene.rows[e[2]].path] :
                        e \in {p \in Ids \X Ids : p[2] \in links[p[1]]}}
  <1>1. /\ TypeOK /\ Placed /\ Rows /\ call[c].pc = "idle" /\ did[c] = {} /\ errors[c] = {}
        /\ call[c] \in Call /\ archive.files = {}
        /\ \A d \in Calls : call[d].kind # "export"
        /\ UNCHANGED <<scene, row, blob, links, used, owed, did, errors, touched, lent, mishaps>>
    BY DEF TypeInv, Placed, Ready, Export, Starts, corpusVars, TypeOK
  <1>2. call[c] = Idle
    BY <1>1 DEF Placed, Ready
  <1>3. call' = [call EXCEPT ![c] = n] /\ archive' = [archive EXCEPT !.links = made]
    BY DEF Export
  <1>4. todo \in SUBSET File
    <2> SUFFICES ASSUME NEW i \in Present, row[i].at # Nothing
                 PROVE  Written(i, row[i].path, row[i].hash) \in File
      OBVIOUS
    <2>1. i \in Ids /\ row[i] \in Row /\ row[i].hash # Nothing
      BY <1>1 DEF TypeOK, Present, Rows
    <2> QED
      BY <2>1 DEF Row, File, Written
  <1>5. made \in SUBSET Link
    <2> SUFFICES ASSUME NEW i \in Ids, NEW j \in links[i]
                 PROVE  j \in Ids => [from |-> i, to |-> j, target |-> scene.rows[j].path] \in Link
      OBVIOUS
    <2>1. /\ links = scene.links /\ scene.rows \in [Ids -> Row \cup {Nothing}]
          /\ scene.links \in [Ids -> SUBSET {k \in Ids : scene.rows[k] # Nothing}]
      BY <1>1, PortableAssumption DEF TypeOK, Rows
    <2>2. j \in Ids /\ scene.rows[j] \in Row
      BY <2>1
    <2> QED
      BY <2>2 DEF Link, Row
  <1> HIDE DEF todo, made
  <1>6. n \in Call
    BY <1>1, <1>4 DEF Call, Pcs, Kinds
  <1>7. /\ n.pc = "read" /\ n.kind = "export" /\ n.file = Nothing /\ n.on = Nothing
        /\ n.at = Nothing /\ n.had = Nothing /\ n.todo = todo
    BY <1>1, <1>2 DEF Call, Idle
  <1> HIDE DEF n
  <1>8. Now(c, "read", "export", Nothing, Nothing, Nothing, Nothing, todo)
    BY <1>1, <1>3, <1>6, <1>7, TurnNow
  <1>9. archive' \in Archive /\ archive'.files = {} /\ archive' = [archive EXCEPT !.links = made]
    BY <1>1, <1>3, <1>5 DEF TypeOK, Archive
  <1>10. \A d \in Calls : ~Imports(d) /\ ~Imports(d)'
    BY <1>1, <1>8 DEF Placed, Archived, Imports, Now
  <1>11. Placed'
    <2> SUFFICES ASSUME NEW d \in Calls
                 PROVE  Ready(d)' /\ Archived(d)'
      BY DEF Placed
    <2>1. Archived(d)'
      <3>1. call[d].pc # "read"
        BY <1>1 DEF Placed, Archived
      <3> QED
        BY <3>1, <1>1, <1>8, <1>9, <1>10 DEF Archived, Now
    <2>2. CASE d = c
      <3>1. Ready(c)'
        BY <1>8 DEF Now, Ready, InFlight, Imports, Idle
      <3> QED
        BY <2>1, <2>2, <3>1
    <2>3. CASE d # c
      <3>1. Ready(d) /\ call'[d] = call[d]
        BY <1>1, <1>8, <2>3 DEF Placed, Now
      <3>2. Ready(d)'
        BY <3>1, <1>1 DEF Ready, InFlight, Imports, Idle
      <3> QED
        BY <2>1, <3>2
    <2> QED
      BY <2>2, <2>3
  <1>12. /\ overlapped \subseteq overlapped' /\ overlapped' \subseteq Calls
         /\ \/ \A d \in Calls : ~InFlight(d)
            \/ c \in overlapped' /\ \A d \in Calls : InFlight(d) => d \in overlapped'
    BY <1>1, StartsMoves DEF Export, Kinds
  <1>13. TypeOK'
    BY <1>1, <1>8, <1>9, <1>12 DEF TypeOK, Now
  <1>14. Rows'
    BY <1>1 DEF Rows, Present
  <1>15. Moves(c)
    BY <1>1, <1>8, <1>10, <1>12 DEF Moves, Now, TypeOK
  <1>16. Marks(c)
    BY <1>1 DEF Marks, TypeOK
  <1> QED
    BY <1>11, <1>13, <1>14, <1>15, <1>16 DEF TypeInv

LEMMA ReadDocumentMoves ==
    ASSUME TypeInv, NEW c \in Calls, NEW f \in call[c].todo, ReadDocument(c, f)
    PROVE  TypeInv' /\ Moves(c) /\ Marks(c)
  <1> DEFINE Goal == TypeInv' /\ Moves(c) /\ Marks(c)
  <1> SUFFICES Goal
    OBVIOUS
  <1>1. /\ TypeOK /\ Placed /\ Rows /\ call[c].pc = "read" /\ call[c].kind = "export"
        /\ call[c] \in Call /\ f \in File /\ Ready(c) /\ Archived(c)
        /\ UNCHANGED <<scene, row, blob, links, used, owed, archive, errors, touched, overlapped, lent, mishaps>>
    BY DEF TypeInv, Placed, Archived, ReadDocument, corpusVars, TypeOK, Call
  <1>2. /\ did' \in [Calls -> SUBSET [file: File, id: Ids]]
        /\ did[c] \subseteq did'[c] /\ \A d \in Calls \ {c} : did'[d] = did[d]
        /\ \/ Now(c, "failed", "export", Nothing, Nothing, Nothing, Nothing, {})
           \/ Now(c, "read", "export", call[c].file, call[c].on, call[c].at, call[c].had, call[c].todo \ {f})
    <2>1. CASE row[f.id] = Nothing \/ row[f.id].at = Nothing \/ blob[row[f.id].at] = Nothing
      <3>1. did' = did /\ Ends(c, "failed")
        BY <2>1 DEF ReadDocument
      <3>2. Now(c, "failed", "export", Nothing, Nothing, Nothing, Nothing, {})
        BY <3>1, <1>1, EndsNow DEF Pcs
      <3> QED
        BY <3>1, <3>2, <1>1 DEF TypeOK
    <2>2. CASE ~(row[f.id] = Nothing \/ row[f.id].at = Nothing \/ blob[row[f.id].at] = Nothing)
      <3> DEFINE e == [file |-> [f EXCEPT !.text = blob[row[f.id].at]], id |-> f.id]
                 n == [call[c] EXCEPT !.todo = call[c].todo \ {f}]
      <3>1. did' = [did EXCEPT ![c] = did[c] \cup {e}] /\ call' = [call EXCEPT ![c] = n]
        BY <2>2 DEF ReadDocument
      <3>2. f.id \in Ids /\ row[f.id] \in Row /\ row[f.id].at \in Places
        BY <1>1, <2>2 DEF File, TypeOK, Row
      <3>3. blob[row[f.id].at] \in Texts
        BY <1>1, <2>2, <3>2 DEF TypeOK
      <3>4. e \in [file: File, id: Ids]
        BY <1>1, <3>2, <3>3 DEF File
      <3>5. n \in Call
        BY <1>1 DEF Call
      <3>6. /\ n.pc = "read" /\ n.kind = "export" /\ n.file = call[c].file /\ n.on = call[c].on
            /\ n.at = call[c].at /\ n.had = call[c].had /\ n.todo = call[c].todo \ {f}
        BY <1>1 DEF Call
      <3> HIDE DEF e, n
      <3>7. Now(c, "read", "export", call[c].file, call[c].on, call[c].at, call[c].had, call[c].todo \ {f})
        BY <1>1, <3>1, <3>5, <3>6, TurnNow
      <3> QED
        BY <3>1, <3>4, <3>7, <1>1 DEF TypeOK
    <2> QED
      BY <2>1, <2>2
  <1>3. Ready(c)' /\ Archived(c)'
    <2>1. CASE Now(c, "failed", "export", Nothing, Nothing, Nothing, Nothing, {})
      <3>1. Ready(c)'
        BY <2>1 DEF Now, Ready, InFlight, Imports, Idle
      <3> QED
        BY <3>1, <2>1, ClientArchived DEF Now
    <2>2. CASE Now(c, "read", "export", call[c].file, call[c].on, call[c].at, call[c].had, call[c].todo \ {f})
      <3>1. Ready(c)'
        BY <1>1, <2>2 DEF Now, Ready, InFlight, Imports, Idle
      <3>2. Archived(c)'
        BY <1>1, <2>2 DEF Now, Archived, Imports
      <3> QED
        BY <3>1, <3>2
    <2> QED
      BY <1>2, <2>1, <2>2
  <1>4. call' \in [Calls -> Call] /\ call'[c].kind = "export" /\ \A d \in Calls \ {c} : call'[d] = call[d]
    BY <1>2 DEF Now
  <1>5. Placed'
    BY <1>1, <1>2, <1>3, <1>4, PlacedKept
  <1>6. TypeOK'
    BY <1>1, <1>2, <1>4 DEF TypeOK
  <1>7. Rows'
    BY <1>1, RowsKept
  <1>8. Moves(c)
    BY <1>1, <1>2, <1>4 DEF Moves, TypeOK, InFlight
  <1>9. Marks(c)
    BY <1>1 DEF Marks, TypeOK
  <1> QED
    BY <1>5, <1>6, <1>7, <1>8, <1>9 DEF TypeInv

LEMMA ExportedMoves ==
    ASSUME TypeInv, NEW c \in Calls, Exported(c)
    PROVE  TypeInv' /\ Moves(c) /\ Marks(c)
  <1> DEFINE Goal == TypeInv' /\ Moves(c) /\ Marks(c)
  <1> SUFFICES Goal
    OBVIOUS
  <1> DEFINE files == {d.file : d \in did[c]}
  <1>1. /\ TypeOK /\ Placed /\ Rows /\ call[c].pc = "read" /\ call[c].kind = "export"
        /\ archive.files = {} /\ \A d \in Calls \ {c} : call[d].kind # "export"
        /\ UNCHANGED <<scene, row, blob, links, used, owed, did, errors, touched, overlapped, lent, mishaps>>
    BY DEF TypeInv, Placed, Archived, Exported, corpusVars
  <1>2. Now(c, "done", "export", Nothing, Nothing, Nothing, Nothing, {})
    BY <1>1, EndsNow DEF Exported, Pcs
  <1>3. archive' \in Archive
    <2>1. files \in SUBSET File /\ archive' = [archive EXCEPT !.manifest = TRUE, !.files = files]
      BY <1>1 DEF TypeOK, Exported
    <2> HIDE DEF files
    <2> QED
      BY <1>1, <2>1 DEF TypeOK, Archive
  <1>4. \A d \in Calls : ~Imports(d) /\ ~Imports(d)'
    BY <1>1, <1>2 DEF Placed, Archived, Imports, Now
  <1>5. Placed'
    <2> SUFFICES ASSUME NEW d \in Calls
                 PROVE  Ready(d)' /\ Archived(d)'
      BY DEF Placed
    <2>1. Archived(d)'
      <3>1. call'[d].pc # "read"
        BY <1>1, <1>2 DEF Placed, Archived, Now
      <3> QED
        BY <3>1, <1>4 DEF Archived
    <2>2. CASE d = c
      <3>1. Ready(c)'
        BY <1>2 DEF Now, Ready, InFlight, Imports, Idle
      <3> QED
        BY <2>1, <2>2, <3>1
    <2>3. CASE d # c
      <3>1. Ready(d) /\ call'[d] = call[d]
        BY <1>1, <1>2, <2>3 DEF Placed, Now
      <3>2. Ready(d)'
        BY <3>1, <1>1 DEF Ready, InFlight, Imports, Idle
      <3> QED
        BY <2>1, <3>2
    <2> QED
      BY <2>2, <2>3
  <1>6. TypeOK'
    BY <1>1, <1>2, <1>3 DEF TypeOK, Now
  <1>7. Rows'
    BY <1>1 DEF Rows, Present
  <1>8. Moves(c)
    BY <1>1, <1>2, <1>4 DEF Moves, Now, TypeOK, InFlight
  <1>9. Marks(c)
    BY <1>1 DEF Marks, TypeOK
  <1> QED
    BY <1>5, <1>6, <1>7, <1>8, <1>9 DEF TypeInv

LEMMA ImportMoves ==
    ASSUME TypeInv, NEW c \in Calls, Import(c)
    PROVE  TypeInv' /\ Moves(c) /\ Marks(c)
  <1> DEFINE Goal == TypeInv' /\ Moves(c) /\ Marks(c)
  <1> SUFFICES Goal
    OBVIOUS
  <1> DEFINE kind == IF archive.manifest THEN "portable" ELSE "generic"
             n == [call[c] EXCEPT !.pc = "file", !.todo = archive.files, !.kind = kind]
  <1>1. /\ TypeOK /\ Placed /\ Rows /\ call[c].pc = "idle" /\ did[c] = {} /\ errors[c] = {}
        /\ call[c] \in Call /\ archive.files # {}
        /\ UNCHANGED <<scene, row, blob, links, used, owed, archive, did, errors, touched, lent, mishaps>>
    BY DEF TypeInv, Placed, Ready, Import, Starts, corpusVars, TypeOK
  <1>2. call[c] = Idle
    BY <1>1 DEF Placed, Ready
  <1>3. call' = [call EXCEPT ![c] = n]
    BY DEF Import
  <1>4. kind \in {"portable", "generic"} /\ archive.files \in SUBSET File
    BY <1>1 DEF TypeOK, Archive
  <1> HIDE DEF kind
  <1>5. n \in Call
    BY <1>1, <1>4 DEF Call, Pcs, Kinds
  <1>6. /\ n.pc = "file" /\ n.kind = kind /\ n.file = Nothing /\ n.on = Nothing
        /\ n.at = Nothing /\ n.had = Nothing /\ n.todo = archive.files
    BY <1>1, <1>2 DEF Call, Idle
  <1> HIDE DEF n
  <1>7. Now(c, "file", kind, Nothing, Nothing, Nothing, Nothing, archive.files)
    BY <1>1, <1>3, <1>5, <1>6, TurnNow
  <1>8. Placed'
    <2>1. Ready(c)'
      BY <1>4, <1>7 DEF Now, Ready, InFlight, Imports, Idle
    <2>2. Archived(c)'
      BY <1>1, <1>4, <1>7 DEF Now, Archived, Imports
    <2>3. call'[c].kind # "export"
      BY <1>4, <1>7 DEF Now
    <2> QED
      BY <2>1, <2>2, <2>3, <1>1, <1>7, PlacedKept DEF Now
  <1>9. /\ overlapped \subseteq overlapped' /\ overlapped' \subseteq Calls
        /\ \/ \A d \in Calls : ~InFlight(d)
           \/ c \in overlapped' /\ \A d \in Calls : InFlight(d) => d \in overlapped'
    BY <1>1, StartsMoves DEF Import, Kinds
  <1>10. TypeOK'
    BY <1>1, <1>7, <1>9 DEF TypeOK, Now
  <1>11. Rows'
    BY <1>1, RowsKept
  <1>12. Moves(c)
    BY <1>1, <1>7, <1>9 DEF Moves, Now, TypeOK
  <1>13. Marks(c)
    BY <1>1 DEF Marks, TypeOK
  <1> QED
    BY <1>8, <1>10, <1>11, <1>12, <1>13 DEF TypeInv

\* A file that is done, and one that has failed.
LEMMA FileDoneMoves ==
    ASSUME TypeInv, NEW c \in Calls, call[c].pc \in {"put", "point"}, FileDone(c), archive' = archive
    PROVE  /\ did' \in [Calls -> SUBSET [file: File, id: Ids]] /\ errors' = errors
           /\ did' = [did EXCEPT ![c] = did[c] \cup {[file |-> call[c].file, id |-> call[c].on]}]
           /\ Now(c, IF Imports(c) THEN "file" ELSE "done", call[c].kind, Nothing, Nothing, Nothing,
                  Nothing, IF Imports(c) THEN call[c].todo \ {call[c].file} ELSE {})
           /\ Placed'
  <1>1. /\ TypeOK /\ Placed /\ Ready(c) /\ Archived(c) /\ call[c].file \in File /\ call[c].on \in Ids
        /\ call[c].kind \in {"create", "save", "portable", "generic"}
    BY DEF TypeInv, Placed, Ready
  <1> DEFINE e == [file |-> call[c].file, id |-> call[c].on]
  <1>2. e \in [file: File, id: Ids] /\ did' = [did EXCEPT ![c] = did[c] \cup {e}] /\ errors' = errors
    BY <1>1 DEF FileDone
  <1> HIDE DEF e
  <1>3. /\ did' \in [Calls -> SUBSET [file: File, id: Ids]]
        /\ \A d \in Calls \ {c} : did'[d] = did[d]
    BY <1>1, <1>2 DEF TypeOK
  <1>4. CASE Imports(c)
    <2>1. Now(c, "file", call[c].kind, Nothing, Nothing, Nothing, Nothing, call[c].todo \ {call[c].file})
      BY <1>1, <1>4, NextFileNow DEF FileDone
    <2>2. Ready(c)'
      BY <1>4, <2>1 DEF Now, Ready, InFlight, Imports, Idle
    <2>3. Archived(c)' /\ call'[c].kind # "export"
      BY <1>1, <1>4, <2>1 DEF Now, Archived, Imports
    <2>4. Placed'
      BY <1>1, <1>2, <1>3, <2>1, <2>2, <2>3, PlacedKept DEF Now
    <2> QED
      BY <1>2, <1>3, <1>4, <2>1, <2>4 DEF e
  <1>5. CASE ~Imports(c)
    <2>1. Now(c, "done", call[c].kind, Nothing, Nothing, Nothing, Nothing, {})
      BY <1>1, <1>5, EndsNow DEF FileDone, Pcs
    <2>2. Ready(c)'
      BY <1>5, <2>1 DEF Now, Ready, InFlight, Imports, Idle
    <2>3. Archived(c)' /\ call'[c].kind # "export"
      BY <1>1, <1>5, <2>1 DEF Now, Archived, Imports
    <2>4. Placed'
      BY <1>1, <1>2, <1>3, <2>1, <2>2, <2>3, PlacedKept DEF Now
    <2> QED
      BY <1>2, <1>3, <1>5, <2>1, <2>4 DEF e
  <1> QED
    BY <1>4, <1>5

LEMMA FileErrorMoves ==
    ASSUME TypeInv, NEW c \in Calls, Imports(c), call[c].file \in File, FileError(c), archive' = archive
    PROVE  /\ errors' \in [Calls -> SUBSET Paths] /\ did' = did
           /\ errors' = [errors EXCEPT ![c] = errors[c] \cup {call[c].file.path}]
           /\ Now(c, "file", call[c].kind, Nothing, Nothing, Nothing, Nothing,
                  call[c].todo \ {call[c].file})
           /\ Placed'
  <1>1. TypeOK /\ Placed /\ Ready(c) /\ Archived(c) /\ call[c].file.path \in Paths
    BY DEF TypeInv, Placed, File
  <1>2. errors' = [errors EXCEPT ![c] = errors[c] \cup {call[c].file.path}] /\ did' = did
    BY DEF FileError
  <1>3. /\ errors' \in [Calls -> SUBSET Paths]
        /\ \A d \in Calls \ {c} : errors'[d] = errors[d]
    BY <1>1, <1>2 DEF TypeOK
  <1>4. Now(c, "file", call[c].kind, Nothing, Nothing, Nothing, Nothing, call[c].todo \ {call[c].file})
    BY <1>1, NextFileNow DEF FileError
  <1>5. Ready(c)'
    BY <1>4 DEF Now, Ready, InFlight, Imports, Idle
  <1>6. Archived(c)' /\ call'[c].kind # "export"
    BY <1>1, <1>4 DEF Now, Archived, Imports
  <1>7. Placed'
    BY <1>1, <1>2, <1>3, <1>4, <1>5, <1>6, PlacedKept DEF Now
  <1> QED
    BY <1>2, <1>3, <1>4, <1>7

LEMMA RefusedMoves ==
    ASSUME TypeInv, NEW c \in Calls, Imports(c), call[c].file \in File, InFlight(c), Refused(c),
           UNCHANGED <<scene, blob, links, archive, overlapped, mishaps>>
    PROVE  TypeInv' /\ Moves(c) /\ Marks(c)
  <1> DEFINE Goal == TypeInv' /\ Moves(c) /\ Marks(c)
  <1> SUFFICES Goal
    OBVIOUS
  <1>1. TypeOK /\ Placed /\ Rows /\ UNCHANGED <<row, used, owed, touched, lent>> /\ FileError(c)
    BY DEF TypeInv, Refused
  <1>2. /\ errors' \in [Calls -> SUBSET Paths] /\ did' = did
        /\ errors' = [errors EXCEPT ![c] = errors[c] \cup {call[c].file.path}]
        /\ Now(c, "file", call[c].kind, Nothing, Nothing, Nothing, Nothing,
               call[c].todo \ {call[c].file})
        /\ Placed'
    BY <1>1, FileErrorMoves
  <1>3. TypeOK'
    BY <1>1, <1>2 DEF TypeOK, Now
  <1>4. Rows'
    BY <1>1, RowsKept
  <1>5. Moves(c)
    BY <1>1, <1>2 DEF Moves, Now, TypeOK
  <1>6. Marks(c)
    BY <1>1 DEF Marks, TypeOK
  <1> QED
    BY <1>2, <1>3, <1>4, <1>5, <1>6 DEF TypeInv

\* Going on with the row that was found, by whichever look.
LEMMA FoundMoves ==
    ASSUME TypeInv, NEW c \in Calls, call[c].kind = "portable", InFlight(c), NEW f \in File,
           f \in archive.files, NEW i \in Present, NEW pc \in {"update", "adopt"}, Found(c, f, i, pc),
           UNCHANGED <<scene, corpusVars, archive, did, errors, overlapped, lent, mishaps>>
    PROVE  TypeInv' /\ Moves(c) /\ Marks(c)
  <1> DEFINE Goal == TypeInv' /\ Moves(c) /\ Marks(c)
             stage == IF row[i].hash = f.text THEN "put" ELSE pc
             place == <<"import", i>>
  <1> SUFFICES Goal
    OBVIOUS
  <1>1. /\ TypeOK /\ Placed /\ Rows /\ Ready(c) /\ Archived(c) /\ Looks(c, i)
        /\ UNCHANGED <<scene, row, blob, links, used, owed, archive, did, errors, overlapped, lent, mishaps>>
    BY DEF TypeInv, Placed, corpusVars, Found, FoundFor
  <1>2. i \in Ids /\ place \in Places /\ stage \in {"put", "update", "adopt"}
    BY DEF Present, Places
  <1>3. Now(c, stage, "portable", f, i, place, row[i].at, call[c].todo)
    BY <1>1, FoundNow DEF Pcs
  <1> HIDE DEF place, stage
  <1>4. Placed'
    <2>1. Ready(c)'
      BY <1>2, <1>3, PortableAssumption DEF Now, Ready, InFlight, Imports, Idle
    <2>2. Archived(c)' /\ call'[c].kind # "export"
      BY <1>1, <1>2, <1>3 DEF Now, Archived, Imports
    <2> QED
      BY <2>1, <2>2, <1>1, <1>3, PlacedKept DEF Now
  <1>5. /\ touched' \subseteq Calls \X Ids
        /\ \A d \in Calls, j \in Ids :
             <<d, j>> \in touched /\ (d # c \/ \E e \in did[d] : e.id = j) => <<d, j>> \in touched'
    BY <1>1, <1>2, LooksMarks
  <1>6. TypeOK'
    BY <1>1, <1>3, <1>5 DEF TypeOK, Now
  <1>7. Rows'
    BY <1>1, RowsKept
  <1>8. Moves(c)
    BY <1>1, <1>3 DEF Moves, Now, TypeOK
  <1>9. Marks(c)
    BY <1>1, <1>5 DEF Marks
  <1> QED
    BY <1>4, <1>6, <1>7, <1>8, <1>9 DEF TypeInv

LEMMA ByRefMoves ==
    ASSUME TypeInv, NEW c \in Calls, NEW f \in call[c].todo, ByRef(c, f)
    PROVE  TypeInv' /\ Moves(c) /\ Marks(c)
  <1> DEFINE Goal == TypeInv' /\ Moves(c) /\ Marks(c)
  <1> SUFFICES Goal
    OBVIOUS
  <1>1. /\ TypeOK /\ Placed /\ Rows /\ Ready(c) /\ Archived(c) /\ call[c].pc = "file"
        /\ call[c].kind = "portable" /\ call[c] \in Call /\ InFlight(c) /\ Imports(c)
        /\ UNCHANGED <<scene, row, blob, links, used, owed, archive, did, overlapped, lent, mishaps>>
    BY DEF TypeInv, Placed, TypeOK, ByRef, corpusVars, InFlight, Imports
  <1>2. f \in File /\ f \in archive.files /\ f.path \in Paths
    BY <1>1 DEF Archived, Call, File
  <1>3. call[c].on = call[c].on /\ call[c].at = Nothing
    BY <1>1 DEF Ready
  <1>4. CASE /\ errors' = [errors EXCEPT ![c] = errors[c] \cup {f.path}]
             /\ call' = [call EXCEPT ![c].todo = call[c].todo \ {f}]
             /\ UNCHANGED touched
    <2> DEFINE n == [call[c] EXCEPT !.todo = call[c].todo \ {f}]
    <2>1. n \in Call /\ call' = [call EXCEPT ![c] = n]
      BY <1>1, <1>4 DEF Call
    <2>2. /\ n.pc = "file" /\ n.kind = "portable" /\ n.file = call[c].file /\ n.on = call[c].on
          /\ n.at = Nothing /\ n.had = call[c].had /\ n.todo = call[c].todo \ {f}
      BY <1>1, <1>3 DEF Call
    <2> HIDE DEF n
    <2>3. Now(c, "file", "portable", call[c].file, call[c].on, Nothing, call[c].had, call[c].todo \ {f})
      BY <1>1, <2>1, <2>2, TurnNow
    <2>4. errors' \in [Calls -> SUBSET Paths] /\ \A d \in Calls \ {c} : errors'[d] = errors[d]
      BY <1>1, <1>2, <1>4 DEF TypeOK
    <2>5. Placed'
      <3>1. Ready(c)'
        BY <2>3 DEF Now, Ready, InFlight, Imports, Idle
      <3>2. Archived(c)' /\ call'[c].kind # "export"
        BY <1>1, <2>3 DEF Now, Archived, Imports
      <3> QED
        BY <3>1, <3>2, <1>1, <2>3, <2>4, PlacedKept DEF Now
    <2>6. TypeOK'
      BY <1>1, <1>4, <2>3, <2>4 DEF TypeOK, Now
    <2>7. Rows'
      BY <1>1, RowsKept
    <2>8. Moves(c)
      BY <1>1, <1>4, <2>3, <2>4 DEF Moves, Now, TypeOK
    <2>9. Marks(c)
      BY <1>1, <1>4 DEF Marks, TypeOK
    <2> QED
      BY <2>5, <2>6, <2>7, <2>8, <2>9 DEF TypeInv
  <1>5. CASE /\ call' = [call EXCEPT ![c] = [call[c] EXCEPT !.pc = "path", !.file = f,
                                                             !.prefer = Usable(f.id, f.path)]]
             /\ UNCHANGED <<errors, touched>>
    <2> DEFINE n == [call[c] EXCEPT !.pc = "path", !.file = f, !.prefer = Usable(f.id, f.path)]
    <2>1. call' = [call EXCEPT ![c] = n]
      BY <1>5
    <2>2. Usable(f.id, f.path) \in BOOLEAN
      BY DEF Usable
    <2>3. n \in Call
      BY <1>1, <1>2, <2>2 DEF Call, Pcs
    <2>4. /\ n.pc = "path" /\ n.kind = "portable" /\ n.file = f /\ n.on = call[c].on
          /\ n.at = Nothing /\ n.had = call[c].had /\ n.todo = call[c].todo
      BY <1>1, <1>3 DEF Call
    <2> HIDE DEF n
    <2>5. Now(c, "path", "portable", f, call[c].on, Nothing, call[c].had, call[c].todo)
      BY <1>1, <2>1, <2>3, <2>4, TurnNow
    <2>6. Placed'
      <3>1. Ready(c)'
        BY <1>2, <2>5 DEF Now, Ready, InFlight, Imports, Idle
      <3>2. Archived(c)' /\ call'[c].kind # "export"
        BY <1>1, <1>2, <2>5 DEF Now, Archived, Imports
      <3> QED
        BY <3>1, <3>2, <1>1, <1>5, <2>5, PlacedKept DEF Now
    <2>7. TypeOK'
      BY <1>1, <1>5, <2>5 DEF TypeOK, Now
    <2>8. Rows'
      BY <1>1, RowsKept
    <2>9. Moves(c)
      BY <1>1, <1>5, <2>5 DEF Moves, Now, TypeOK
    <2>10. Marks(c)
      BY <1>1, <1>5 DEF Marks, TypeOK
    <2> QED
      BY <2>6, <2>7, <2>8, <2>9, <2>10 DEF TypeInv
  <1>6. CASE (\E i \in Referring(f.path) : Found(c, f, i, "update")) /\ UNCHANGED errors
    <2>1. PICK i \in Present : Found(c, f, i, "update")
      BY <1>6 DEF Referring
    <2> QED
      BY <2>1, <1>1, <1>2, <1>6, FoundMoves DEF corpusVars
  <1> QED
    BY <1>4, <1>5, <1>6 DEF ByRef

LEMMA ByPathMoves ==
    ASSUME TypeInv, NEW c \in Calls, ByPath(c)
    PROVE  TypeInv' /\ Moves(c) /\ Marks(c)
  <1> DEFINE Goal == TypeInv' /\ Moves(c) /\ Marks(c)
             f == call[c].file
  <1> SUFFICES Goal
    OBVIOUS
  <1>1. /\ TypeOK /\ Placed /\ Rows /\ Ready(c) /\ Archived(c) /\ call[c].pc = "path"
        /\ call[c] \in Call
        /\ UNCHANGED <<scene, row, blob, links, used, owed, archive, did, errors, overlapped, lent, mishaps>>
    BY DEF TypeInv, Placed, TypeOK, ByPath, corpusVars
  <1>2. f \in File /\ call[c].kind = "portable" /\ call[c].at = Nothing /\ InFlight(c) /\ Imports(c)
    BY <1>1 DEF Ready, InFlight, Imports
  <1>3. f \in archive.files
    BY <1>1, <1>2, PortableAssumption DEF Archived
  <1> HIDE DEF f
  <1>4. CASE /\ UNCHANGED touched
             /\ call' = [call EXCEPT ![c].pc = "insert",
                                     ![c].prefer = call[c].prefer /\ Usable(f.id, f.path)]
    <2> DEFINE b == call[c].prefer /\ Usable(f.id, f.path)
               n == [call[c] EXCEPT !.pc = "insert", !.prefer = b]
    <2>1. b \in BOOLEAN
      BY <1>1 DEF Usable, Call
    <2> HIDE DEF b
    <2>2. call' = [call EXCEPT ![c] = n]
      BY <1>1, <1>4 DEF b, TypeOK
    <2>3. n \in Call
      BY <1>1, <2>1 DEF Call, Pcs
    <2>4. /\ n.pc = "insert" /\ n.kind = "portable" /\ n.file = f /\ n.on = call[c].on
          /\ n.at = Nothing /\ n.had = call[c].had /\ n.todo = call[c].todo
      BY <1>1, <1>2 DEF Call, f
    <2> HIDE DEF n
    <2>5. Now(c, "insert", "portable", f, call[c].on, Nothing, call[c].had, call[c].todo)
      BY <1>1, <2>2, <2>3, <2>4, TurnNow
    <2>6. Placed'
      <3>1. Ready(c)'
        BY <1>2, <2>5 DEF Now, Ready, InFlight, Imports, Idle
      <3>2. Archived(c)' /\ call'[c].kind # "export"
        BY <1>1, <1>2, <1>3, <2>5 DEF Now, Archived, Imports
      <3> QED
        BY <3>1, <3>2, <1>1, <2>5, PlacedKept DEF Now
    <2>7. TypeOK'
      BY <1>1, <1>4, <2>5 DEF TypeOK, Now
    <2>8. Rows'
      BY <1>1, RowsKept
    <2>9. Moves(c)
      BY <1>1, <1>2, <2>5 DEF Moves, Now, TypeOK
    <2>10. Marks(c)
      BY <1>1, <1>4 DEF Marks, TypeOK
    <2> QED
      BY <2>6, <2>7, <2>8, <2>9, <2>10 DEF TypeInv
  <1>5. CASE \E i \in At(f.path) : Found(c, f, i, "adopt")
    <2>1. PICK i \in Present : Found(c, f, i, "adopt")
      BY <1>5 DEF At
    <2> QED
      BY <2>1, <1>1, <1>2, <1>3, FoundMoves DEF corpusVars
  <1> QED
    BY <1>4, <1>5 DEF ByPath, f

LEMMA LendsMoves ==
    ASSUME TypeOK, NEW c \in Calls, call[c].file \in File, NEW i \in Ids, Lends(c, i)
    PROVE  lent \subseteq lent' /\ lent' \subseteq Places /\ Preferred(c) \in Places
           /\ (i # call[c].file.id => Preferred(c) \in lent')
  BY DEF TypeOK, Lends, Preferred, Places, File

\* A row that is written, by the reference or by the path.
LEMMA UpsertedMoves ==
    ASSUME TypeInv, NEW c \in Calls, call[c].pc \in {"update", "adopt"}, NEW r \in Row,
           row[call[c].on] # Nothing, \A j \in Present \ {call[c].on} : row[j].path # r.path,
           Upserted(c, r), UNCHANGED <<scene, blob, links, archive, overlapped, mishaps>>
    PROVE  TypeInv' /\ Moves(c) /\ Marks(c)
  <1> DEFINE Goal == TypeInv' /\ Moves(c) /\ Marks(c)
             i == call[c].on
             s == [r EXCEPT !.hash = call[c].file.text, !.at = Preferred(c)]
  <1> SUFFICES Goal
    OBVIOUS
  <1>1. /\ TypeOK /\ Placed /\ Rows /\ Ready(c) /\ Archived(c) /\ call[c] \in Call
        /\ UNCHANGED <<used, did, errors>>
    BY DEF TypeInv, Placed, TypeOK, Upserted
  <1>2. /\ i \in Ids /\ call[c].file \in File /\ call[c].kind = "portable" /\ call[c].at \in Places
        /\ InFlight(c) /\ Imports(c) /\ call[c].file.text \in Texts
    BY <1>1 DEF Ready, InFlight, Imports, File
  <1>3. /\ row' = [row EXCEPT ![i] = s] /\ owed' = owed \cup {i} /\ Wrote(c, i) /\ Lends(c, i)
        /\ call' = [call EXCEPT ![c].pc = "put", ![c].had = Preferred(c)]
    BY DEF Upserted, SetRow, Pending
  <1> HIDE DEF i
  <1>4. lent \subseteq lent' /\ lent' \subseteq Places /\ Preferred(c) \in Places
    BY <1>1, <1>2, <1>3, LendsMoves
  <1>5. s \in Row /\ s # Nothing /\ s.path = r.path /\ s.hash \in Texts
    BY <1>2, <1>4, PortableAssumption DEF Row
  <1> HIDE DEF s
  <1> DEFINE n == [call[c] EXCEPT !.pc = "put", !.had = Preferred(c)]
  <1>6. n \in Call
    BY <1>1, <1>4 DEF Call, Pcs
  <1>7. /\ n.pc = "put" /\ n.kind = "portable" /\ n.file = call[c].file /\ n.on = i
        /\ n.at = call[c].at /\ n.had = Preferred(c) /\ n.todo = call[c].todo
    BY <1>1, <1>2 DEF Call, i
  <1>8. call' = [call EXCEPT ![c] = n]
    BY <1>1, <1>3 DEF TypeOK
  <1> HIDE DEF n
  <1>9. Now(c, "put", "portable", call[c].file, i, call[c].at, Preferred(c), call[c].todo)
    BY <1>1, <1>6, <1>7, <1>8, TurnNow
  <1>10. Placed'
    <2>1. Ready(c)'
      BY <1>2, <1>9, PutReady, PortableAssumption
    <2>2. Archived(c)' /\ call'[c].kind # "export"
      BY <1>1, <1>2, <1>9 DEF Now, Archived, Imports
    <2> QED
      BY <2>1, <2>2, <1>1, <1>9, PlacedKept DEF Now
  <1>11. touched' \subseteq Calls \X Ids /\ touched \subseteq touched'
         /\ \A d \in Concerned(c, i) : <<d, i>> \in touched'
    BY <1>1, <1>2, <1>3, WroteMarks
  <1>12. TypeOK'
    BY <1>1, <1>2, <1>3, <1>4, <1>5, <1>9, <1>11 DEF TypeOK, Now, i
  <1>13. Rows'
    BY <1>1, <1>2, <1>3, <1>5, PortableAssumption DEF TypeOK, Rows, Present, i
  <1>14. Moves(c)
    BY <1>1, <1>2, <1>4, <1>9 DEF Moves, Now, TypeOK
  <1>15. Marks(c)
    BY <1>1, <1>2, <1>3, <1>11 DEF Marks, TypeOK
  <1> QED
    BY <1>10, <1>12, <1>13, <1>14, <1>15 DEF TypeInv

LEMMA UpdateMoves ==
    ASSUME TypeInv, NEW c \in Calls, Update(c)
    PROVE  TypeInv' /\ Moves(c) /\ Marks(c)
  <1> DEFINE Goal == TypeInv' /\ Moves(c) /\ Marks(c)
             i == call[c].on
             f == call[c].file
             r == [row[i] EXCEPT !.path = f.path]
  <1> SUFFICES Goal
    OBVIOUS
  <1>1. /\ TypeOK /\ Ready(c) /\ call[c].pc = "update"
        /\ UNCHANGED <<scene, blob, links, archive, overlapped, mishaps>>
    BY DEF TypeInv, Placed, Update
  <1>2. i \in Ids /\ f \in File /\ f.path \in Paths /\ InFlight(c) /\ Imports(c)
    BY <1>1 DEF Ready, InFlight, Imports, File
  <1>3. CASE row[i] = Nothing \/ At(f.path) \ {i} # {}
    BY <1>1, <1>2, <1>3, RefusedMoves DEF Update
  <1>4. CASE ~(row[i] = Nothing \/ At(f.path) \ {i} # {})
    <2>1. Upserted(c, r) /\ row[i] \in Row
      BY <1>1, <1>2, <1>4 DEF Update, TypeOK
    <2>2. r \in Row /\ r.path = f.path
      BY <1>2, <2>1 DEF Row
    <2>3. \A j \in Present \ {i} : row[j].path # f.path
      BY <1>4 DEF At
    <2> HIDE DEF r
    <2> QED
      BY <1>1, <1>4, <2>1, <2>2, <2>3, UpsertedMoves
  <1> QED
    BY <1>3, <1>4

LEMMA AdoptMoves ==
    ASSUME TypeInv, NEW c \in Calls, Adopt(c)
    PROVE  TypeInv' /\ Moves(c) /\ Marks(c)
  <1> DEFINE Goal == TypeInv' /\ Moves(c) /\ Marks(c)
             i == call[c].on
             r == [row[i] EXCEPT !.ref = call[c].file.path]
  <1> SUFFICES Goal
    OBVIOUS
  <1>1. /\ TypeOK /\ Rows /\ Ready(c) /\ call[c].pc = "adopt"
        /\ UNCHANGED <<scene, blob, links, archive, overlapped, mishaps>>
    BY DEF TypeInv, Placed, Adopt
  <1>2. /\ i \in Ids /\ call[c].file \in File /\ call[c].file.path \in Paths
        /\ InFlight(c) /\ Imports(c)
    BY <1>1 DEF Ready, InFlight, Imports, File
  <1>3. CASE row[i] = Nothing
    BY <1>1, <1>2, <1>3, RefusedMoves DEF Adopt
  <1>4. CASE row[i] # Nothing
    <2>1. Upserted(c, r) /\ row[i] \in Row
      BY <1>1, <1>2, <1>4 DEF Adopt, TypeOK
    <2>2. r \in Row /\ r.path = row[i].path
      BY <1>2, <2>1 DEF Row
    <2>3. \A j \in Present \ {i} : row[j].path # row[i].path
      BY <1>1, <1>2, <1>4 DEF Rows, Present
    <2> HIDE DEF r
    <2> QED
      BY <1>1, <1>4, <2>1, <2>2, <2>3, UpsertedMoves
  <1> QED
    BY <1>3, <1>4

LEMMA InsertMoves ==
    ASSUME TypeInv, NEW c \in Calls, Insert(c)
    PROVE  TypeInv' /\ Moves(c) /\ Marks(c)
  <1> DEFINE Goal == TypeInv' /\ Moves(c) /\ Marks(c)
             f == call[c].file
             i == IF call[c].prefer THEN f.id ELSE NewId
             r == [path |-> f.path, ref |-> f.path, hash |-> f.text, at |-> Preferred(c)]
             place == <<"import", i>>
  <1> SUFFICES Goal
    OBVIOUS
  <1>1. /\ TypeOK /\ Placed /\ Rows /\ Ready(c) /\ Archived(c) /\ call[c].pc = "insert"
        /\ call[c].kind = "portable" /\ call[c] \in Call /\ NewId \in Ids
        /\ UNCHANGED <<scene, blob, links, archive, overlapped, mishaps>>
    BY NewIdSpare DEF TypeInv, Placed, TypeOK, Insert
  <1>2. /\ f \in File /\ f.path \in Paths /\ f.text \in Texts /\ i \in Ids /\ InFlight(c) /\ Imports(c)
        /\ place \in Places
    BY <1>1 DEF Ready, InFlight, Imports, File, Places
  <1>3. CASE At(f.path) # {} \/ row[i] # Nothing \/ scene.elsewhere[i] # "no"
    BY <1>1, <1>2, <1>3, RefusedMoves DEF Insert
  <1>4. CASE ~(At(f.path) # {} \/ row[i] # Nothing \/ scene.elsewhere[i] # "no")
    <2> DEFINE n == [call[c] EXCEPT !.pc = "put", !.on = i, !.at = place, !.had = Preferred(c)]
    <2>1. /\ Inserted(c, i, r) /\ Lends(c, i) /\ call' = [call EXCEPT ![c] = n]
          /\ UNCHANGED <<did, errors>>
      BY <1>4 DEF Insert
    <2> HIDE DEF i, place
    <2>2. lent \subseteq lent' /\ lent' \subseteq Places /\ Preferred(c) \in Places
      BY <1>1, <1>2, <2>1, LendsMoves
    <2>3. r \in Row /\ r # Nothing /\ r.path = f.path /\ r.hash \in Texts
      BY <1>2, <2>2, PortableAssumption DEF Row
    <2> HIDE DEF r
    <2>4. n \in Call
      BY <1>1, <1>2, <2>2 DEF Call, Pcs
    <2>5. /\ n.pc = "put" /\ n.kind = "portable" /\ n.file = f /\ n.on = i
          /\ n.at = place /\ n.had = Preferred(c) /\ n.todo = call[c].todo
      BY <1>1, <1>2 DEF Call
    <2> HIDE DEF n, f
    <2>6. Now(c, "put", "portable", f, i, place, Preferred(c), call[c].todo)
      BY <1>1, <2>1, <2>4, <2>5, TurnNow
    <2>7. Placed'
      <3>1. Ready(c)'
        BY <1>2, <2>6, PutReady, PortableAssumption
      <3>2. Archived(c)' /\ call'[c].kind # "export"
        BY <1>1, <1>2, <2>6 DEF Now, Archived, Imports, f
      <3> QED
        BY <3>1, <3>2, <1>1, <2>1, <2>6, PlacedKept DEF Now
    <2>8. touched' \subseteq Calls \X Ids /\ touched \subseteq touched'
          /\ \A d \in Concerned(c, i) : <<d, i>> \in touched'
      BY <1>1, <1>2, <2>1, WroteMarks DEF Inserted
    <2>9. row' = [row EXCEPT ![i] = r] /\ used' = used \cup {i} /\ owed' = owed \cup {i}
      BY <2>1 DEF Inserted, SetRow, Pending
    <2>10. TypeOK'
      BY <1>1, <1>2, <2>1, <2>2, <2>3, <2>6, <2>8, <2>9 DEF TypeOK, Now
    <2>11. Rows'
      BY <1>1, <1>2, <1>4, <2>1, <2>3, <2>9, PortableAssumption DEF TypeOK, Rows, Present, At
    <2>12. Moves(c)
      BY <1>1, <1>2, <2>1, <2>2, <2>6 DEF Moves, Now, TypeOK
    <2>13. Marks(c)
      BY <1>1, <1>2, <2>1, <2>8, <2>9 DEF Marks, TypeOK
    <2> QED
      BY <2>7, <2>10, <2>11, <2>12, <2>13 DEF TypeInv
  <1> QED
    BY <1>3, <1>4

\* The links of some documents are replaced, of all or until a call fails.
LEMMA RelinkedMoves ==
    ASSUME TypeInv, NEW c \in Calls, Imports(c), NEW S \in SUBSET Linked(c),
           NEW gone \in SUBSET Linked(c), Relinked(c, S, gone)
    PROVE  /\ links' \in [Ids -> SUBSET Ids]
           /\ touched' \subseteq Calls \X Ids /\ touched \subseteq touched'
           /\ \A i \in Ids : links'[i] # links[i]
                => \A d \in Concerned(c, i) \ {c} : <<d, i>> \in touched'
  <1>1. TypeOK /\ archive \in Archive /\ did[c] \in SUBSET [file: File, id: Ids]
    BY DEF TypeInv, TypeOK
  <1>2. S \subseteq Ids /\ gone \subseteq Ids
    BY <1>1 DEF Linked, NodeOf
  <1>3. \A l \in archive.links : Target(c, l) \subseteq Ids
    BY <1>1 DEF Target, NodeOf, NodeAt
  <1>4. links' \in [Ids -> SUBSET Ids]
    <2> DEFINE new(i) == UNION {Target(c, l) : l \in {k \in archive.links : i \in NodeOf(c, k.from)}}
    <2>1. \A i \in Ids : new(i) \subseteq Ids
      BY <1>3
    <2>2. links' = [i \in Ids |-> IF i \in gone THEN {} ELSE IF i \in S THEN new(i) ELSE links[i]]
      BY DEF Relinked
    <2> HIDE DEF new
    <2> QED
      BY <1>1, <2>1, <2>2 DEF TypeOK
  <1>5. touched' = touched \cup UNION {(Concerned(c, i) \ {c}) \X {i} : i \in S \cup gone}
    BY DEF Relinked
  <1>6. touched' \subseteq Calls \X Ids /\ touched \subseteq touched'
        /\ \A i \in S \cup gone : \A d \in Concerned(c, i) \ {c} : <<d, i>> \in touched'
    BY <1>1, <1>2, <1>5 DEF TypeOK, Concerned
  <1>7. \A i \in Ids : i \notin S \cup gone => links'[i] = links[i]
    BY DEF Relinked
  <1> QED
    BY <1>4, <1>6, <1>7

LEMMA RelinkMoves ==
    ASSUME TypeInv, NEW c \in Calls, Relink(c)
    PROVE  TypeInv' /\ Moves(c) /\ Marks(c)
  <1> DEFINE Goal == TypeInv' /\ Moves(c) /\ Marks(c)
  <1> SUFFICES Goal
    OBVIOUS
  <1>1. /\ TypeOK /\ Placed /\ Rows /\ Ready(c) /\ Archived(c) /\ call[c].pc = "file"
        /\ call[c].kind = "portable" /\ InFlight(c) /\ Imports(c) /\ Relinked(c, Linked(c), {})
        /\ UNCHANGED <<scene, row, blob, used, owed, archive, did, errors, overlapped, lent, mishaps>>
    BY DEF TypeInv, Placed, Relink, InFlight, Imports
  <1>2. Now(c, "jobs", "portable", call[c].file, call[c].on, call[c].at, call[c].had, call[c].todo)
    BY <1>1, StageNow DEF Relink, Pcs
  <1>3. /\ links' \in [Ids -> SUBSET Ids]
        /\ touched' \subseteq Calls \X Ids /\ touched \subseteq touched'
        /\ \A i \in Ids : links'[i] # links[i]
             => \A d \in Concerned(c, i) \ {c} : <<d, i>> \in touched'
    BY <1>1, RelinkedMoves
  <1>4. Placed'
    <2>1. Ready(c)'
      BY <1>1, <1>2 DEF Now, Ready, InFlight, Imports, Idle
    <2>2. Archived(c)' /\ call'[c].kind # "export"
      BY <1>1, <1>2 DEF Now, Archived, Imports
    <2> QED
      BY <2>1, <2>2, <1>1, <1>2, PlacedKept DEF Now
  <1>5. TypeOK'
    BY <1>1, <1>2, <1>3 DEF TypeOK, Now
  <1>6. Rows'
    BY <1>1 DEF Rows, Present, Archived
  <1>7. Moves(c)
    BY <1>1, <1>2 DEF Moves, Now, TypeOK
  <1>8. Marks(c)
    BY <1>1, <1>3 DEF Marks
  <1> QED
    BY <1>4, <1>5, <1>6, <1>7, <1>8 DEF TypeInv

LEMMA LookMoves ==
    ASSUME TypeInv, NEW c \in Calls, NEW f \in call[c].todo, Look(c, f)
    PROVE  TypeInv' /\ Moves(c) /\ Marks(c)
  <1> DEFINE Goal == TypeInv' /\ Moves(c) /\ Marks(c)
  <1> SUFFICES Goal
    OBVIOUS
  <1>1. /\ TypeOK /\ Placed /\ Rows /\ Ready(c) /\ Archived(c) /\ call[c].pc = "file"
        /\ call[c].kind = "generic" /\ call[c] \in Call /\ InFlight(c) /\ Imports(c)
        /\ UNCHANGED <<scene, row, blob, links, used, owed, archive, did, errors, overlapped, lent, mishaps>>
    BY DEF TypeInv, Placed, TypeOK, Look, corpusVars, InFlight, Imports
  <1>2. f \in File /\ f \in archive.files /\ call[c].at = Nothing
    BY <1>1 DEF Archived, Ready, Call
  <1> DEFINE n1 == [call[c] EXCEPT !.pc = "insert", !.file = f]
             n2 == [call[c] EXCEPT !.todo = call[c].todo \ {f}]
  <1>3. n1 \in Call /\ n2 \in Call
    BY <1>1, <1>2 DEF Call, Pcs
  <1>4. /\ n1.pc = "insert" /\ n1.kind = "generic" /\ n1.file = f /\ n1.on = call[c].on
        /\ n1.at = Nothing /\ n1.had = call[c].had /\ n1.todo = call[c].todo
    BY <1>1, <1>2 DEF Call
  <1>5. /\ n2.pc = "file" /\ n2.kind = "generic" /\ n2.file = call[c].file /\ n2.on = call[c].on
        /\ n2.at = Nothing /\ n2.had = call[c].had /\ n2.todo = call[c].todo \ {f}
    BY <1>1, <1>2 DEF Call
  <1>6. \/ call' = [call EXCEPT ![c] = n1] /\ UNCHANGED touched
        \/ call' = [call EXCEPT ![c] = n2] /\ UNCHANGED touched
        \/ \E i \in At(f.path) : Put(c, "generic", f, i, <<"managed", i>>) /\ Looks(c, i)
    <2>1. CASE /\ At(f.path) = {} /\ UNCHANGED touched
               /\ call' = [call EXCEPT ![c].pc = "insert", ![c].file = f]
      BY <2>1, <1>1 DEF TypeOK
    <2>2. CASE \E i \in At(f.path) : call' = [call EXCEPT ![c].todo = call[c].todo \ {f}] /\ UNCHANGED touched
      BY <2>2
    <2>3. CASE \E i \in At(f.path) : Put(c, "generic", f, i, <<"managed", i>>) /\ Looks(c, i)
      BY <2>3
    <2> QED
      BY <2>1, <2>2, <2>3 DEF Look
  <1> HIDE DEF n1, n2
  <1>7. ASSUME NEW kind, NEW pc \in {"insert", "file"}, NEW file \in File \cup {Nothing}, NEW on, NEW had,
               NEW todo \in SUBSET archive.files,
               pc = "insert" => file \in File, file = Nothing \/ file \in archive.files,
               Now(c, pc, "generic", file, on, Nothing, had, todo), UNCHANGED touched
        PROVE  Goal
    <2>1. Placed'
      <3>1. Ready(c)'
        BY <1>7 DEF Now, Ready, InFlight, Imports, Idle
      <3>2. Archived(c)' /\ call'[c].kind # "export"
        BY <1>1, <1>7 DEF Now, Archived, Imports
      <3> QED
        BY <3>1, <3>2, <1>1, <1>7, PlacedKept DEF Now
    <2>2. TypeOK'
      BY <1>1, <1>7 DEF TypeOK, Now
    <2>3. Rows'
      BY <1>1, RowsKept
    <2>4. Moves(c)
      BY <1>1, <1>7 DEF Moves, Now, TypeOK
    <2>5. Marks(c)
      BY <1>1, <1>7 DEF Marks, TypeOK
    <2> QED
      BY <2>1, <2>2, <2>3, <2>4, <2>5 DEF TypeInv
  <1>8. CASE call' = [call EXCEPT ![c] = n1] /\ UNCHANGED touched
    <2>1. Now(c, "insert", "generic", f, call[c].on, Nothing, call[c].had, call[c].todo)
      BY <1>1, <1>3, <1>4, <1>8, TurnNow
    <2>2. call[c].todo \in SUBSET archive.files
      BY <1>1 DEF Archived
    <2> QED
      BY <1>2, <1>7, <1>8, <2>1, <2>2
  <1>9. CASE call' = [call EXCEPT ![c] = n2] /\ UNCHANGED touched
    <2>1. Now(c, "file", "generic", call[c].file, call[c].on, Nothing, call[c].had, call[c].todo \ {f})
      BY <1>1, <1>3, <1>5, <1>9, TurnNow
    <2>2. /\ call[c].todo \ {f} \in SUBSET archive.files /\ call[c].file \in File \cup {Nothing}
          /\ call[c].file = Nothing \/ call[c].file \in archive.files
      BY <1>1 DEF Archived, Call
    <2> QED
      BY <1>7, <1>9, <2>1, <2>2
  <1>10. CASE \E i \in At(f.path) : Put(c, "generic", f, i, <<"managed", i>>) /\ Looks(c, i)
    <2>1. PICK i \in At(f.path) : Put(c, "generic", f, i, <<"managed", i>>) /\ Looks(c, i)
      BY <1>10
    <2> DEFINE place == <<"managed", i>>
    <2>2. i \in Ids /\ place \in Places
      BY DEF At, Present, Places
    <2>3. Now(c, "put", "generic", f, i, place, Nothing, call[c].todo)
      BY <1>1, <1>2, <2>1, <2>2, PutNow DEF Kinds
    <2> HIDE DEF place
    <2>4. Placed'
      <3>1. Ready(c)'
        BY <1>2, <2>2, <2>3, PutReady, PortableAssumption
      <3>2. Archived(c)' /\ call'[c].kind # "export"
        BY <1>1, <1>2, <2>3 DEF Now, Archived, Imports
      <3> QED
        BY <3>1, <3>2, <1>1, <2>3, PlacedKept DEF Now
    <2>5. /\ touched' \subseteq Calls \X Ids
          /\ \A d \in Calls, j \in Ids :
               <<d, j>> \in touched /\ (d # c \/ \E e \in did[d] : e.id = j) => <<d, j>> \in touched'
      BY <1>1, <2>1, <2>2, LooksMarks
    <2>6. TypeOK'
      BY <1>1, <2>3, <2>5 DEF TypeOK, Now
    <2>7. Rows'
      BY <1>1, RowsKept
    <2>8. Moves(c)
      BY <1>1, <2>3 DEF Moves, Now, TypeOK
    <2>9. Marks(c)
      BY <1>1, <2>5 DEF Marks
    <2> QED
      BY <2>4, <2>6, <2>7, <2>8, <2>9 DEF TypeInv
  <1> QED
    BY <1>6, <1>8, <1>9, <1>10

LEMMA InsertManagedMoves ==
    ASSUME TypeInv, NEW c \in Calls, InsertManaged(c)
    PROVE  TypeInv' /\ Moves(c) /\ Marks(c)
  <1> DEFINE Goal == TypeInv' /\ Moves(c) /\ Marks(c)
             f == call[c].file
             i == NewId
             r == [path |-> f.path, ref |-> Nothing, hash |-> f.text, at |-> Nothing]
             place == <<"managed", i>>
  <1> SUFFICES Goal
    OBVIOUS
  <1>1. /\ TypeOK /\ Placed /\ Rows /\ Ready(c) /\ Archived(c) /\ call[c].pc = "insert"
        /\ call[c].kind = "generic" /\ i \in Ids /\ i \notin used
        /\ UNCHANGED <<scene, blob, links, archive, overlapped, mishaps>>
    BY NewIdSpare DEF TypeInv, Placed, InsertManaged
  <1>2. /\ f \in File /\ f.path \in Paths /\ f.text \in Texts /\ InFlight(c) /\ Imports(c)
        /\ place \in Places
    BY <1>1 DEF Ready, InFlight, Imports, File, Places
  <1>3. CASE At(f.path) # {}
    BY <1>1, <1>2, <1>3, RefusedMoves DEF InsertManaged
  <1>4. CASE At(f.path) = {}
    <2>1. /\ Inserted(c, i, r) /\ Put(c, "generic", f, i, place)
          /\ UNCHANGED <<did, errors, lent>>
      BY <1>4 DEF InsertManaged
    <2> HIDE DEF i, place
    <2>2. r \in Row /\ r # Nothing /\ r.path = f.path /\ r.at = Nothing
      BY <1>2, PortableAssumption DEF Row
    <2> HIDE DEF r, f
    <2>3. Now(c, "put", "generic", f, i, place, Nothing, call[c].todo)
      BY <1>1, <1>2, <2>1, PutNow DEF Kinds
    <2>4. Placed'
      <3>1. Ready(c)'
        BY <1>1, <1>2, <2>3, PutReady, PortableAssumption
      <3>2. Archived(c)' /\ call'[c].kind # "export"
        BY <1>1, <1>2, <2>3 DEF Now, Archived, Imports, f
      <3> QED
        BY <3>1, <3>2, <1>1, <2>1, <2>3, PlacedKept DEF Now
    <2>5. touched' \subseteq Calls \X Ids /\ touched \subseteq touched'
          /\ \A d \in Concerned(c, i) : <<d, i>> \in touched'
      BY <1>1, <2>1, WroteMarks DEF Inserted
    <2>6. row' = [row EXCEPT ![i] = r] /\ used' = used \cup {i} /\ owed' = owed \cup {i}
      BY <2>1 DEF Inserted, SetRow, Pending
    <2>7. TypeOK'
      BY <1>1, <2>1, <2>2, <2>3, <2>5, <2>6 DEF TypeOK, Now
    <2>8. Rows'
      BY <1>1, <1>4, <2>2, <2>6 DEF TypeOK, Rows, Present, At
    <2>9. Moves(c)
      BY <1>1, <1>2, <2>1, <2>3 DEF Moves, Now, TypeOK
    <2>10. Marks(c)
      BY <1>1, <2>5, <2>6 DEF Marks, TypeOK
    <2> QED
      BY <2>4, <2>7, <2>8, <2>9, <2>10 DEF TypeInv
  <1> QED
    BY <1>3, <1>4

LEMMA StoreMoves ==
    ASSUME TypeInv, NEW c \in Calls, Store(c)
    PROVE  TypeInv' /\ Moves(c) /\ Marks(c)
  <1> DEFINE Goal == TypeInv' /\ Moves(c) /\ Marks(c)
             i == call[c].on
             p == call[c].at
  <1> SUFFICES Goal
    OBVIOUS
  <1>1. /\ TypeOK /\ Placed /\ Rows /\ Ready(c) /\ Archived(c) /\ call[c].pc = "put" /\ Wrote(c, i)
        /\ UNCHANGED <<scene, row, links, used, owed, archive, overlapped, lent, mishaps>>
        /\ blob' = [blob EXCEPT ![p] = call[c].file.text]
    BY DEF TypeInv, Placed, Store
  <1>2. /\ call[c].file \in File /\ call[c].file.text \in Texts /\ i \in Ids /\ p \in Places
        /\ call[c].kind \in {"create", "save", "portable", "generic"} /\ InFlight(c)
        /\ call[c].kind # "portable" => call[c].had = Nothing
    BY <1>1 DEF Ready, File, InFlight
  <1> HIDE DEF i, p
  <1>3. touched' \subseteq Calls \X Ids /\ touched \subseteq touched'
        /\ \A d \in Concerned(c, i) : <<d, i>> \in touched'
    BY <1>1, <1>2, WroteMarks
  <1>4. /\ Placed' /\ call' \in [Calls -> Call] /\ did' \in [Calls -> SUBSET [file: File, id: Ids]]
        /\ errors' = errors /\ did[c] \subseteq did'[c] /\ call'[c].kind = call[c].kind
        /\ \A d \in Calls \ {c} : call'[d] = call[d] /\ did'[d] = did[d]
    <2>1. CASE call[c].had = p
      <3>1. FileDone(c)
        BY <2>1 DEF Store, p
      <3>2. /\ did' \in [Calls -> SUBSET [file: File, id: Ids]] /\ errors' = errors
            /\ did' = [did EXCEPT ![c] = did[c] \cup {[file |-> call[c].file, id |-> call[c].on]}]
            /\ Now(c, IF Imports(c) THEN "file" ELSE "done", call[c].kind, Nothing, Nothing, Nothing,
                   Nothing, IF Imports(c) THEN call[c].todo \ {call[c].file} ELSE {})
            /\ Placed'
        BY <1>1, <3>1, FileDoneMoves
      <3> QED
        BY <1>1, <3>2 DEF Now, TypeOK
    <2>2. CASE call[c].had # p
      <3>1. call' = [call EXCEPT ![c].pc = "point"] /\ UNCHANGED <<did, errors>>
        BY <2>2 DEF Store, p
      <3>2. Now(c, "point", call[c].kind, call[c].file, i, p, call[c].had, call[c].todo)
        BY <1>1, <3>1, StageNow DEF Pcs, i, p
      <3>3. Ready(c)'
        BY <1>2, <3>2, PortableAssumption DEF Now, Ready, InFlight, Imports, Idle
      <3>4. Archived(c)' /\ call'[c].kind # "export"
        BY <1>1, <1>2, <3>2 DEF Now, Archived, Imports
      <3>5. Placed'
        BY <3>1, <3>3, <3>4, <1>1, <3>2, PlacedKept DEF Now
      <3> QED
        BY <1>1, <3>1, <3>2, <3>5 DEF Now, TypeOK
    <2> QED
      BY <2>1, <2>2
  <1>5. TypeOK'
    BY <1>1, <1>2, <1>3, <1>4 DEF TypeOK
  <1>6. Rows'
    BY <1>1, RowsKept
  <1>7. Moves(c)
    BY <1>1, <1>2, <1>4 DEF Moves, TypeOK
  <1>8. Marks(c)
    <2>1. \A q \in Places : blob'[q] # blob[q] => q = p
      BY <1>1 DEF TypeOK
    <2> QED
      BY <2>1, <1>1, <1>3 DEF Marks, i, p
  <1> QED
    BY <1>4, <1>5, <1>6, <1>7, <1>8 DEF TypeInv

LEMMA PointMoves ==
    ASSUME TypeInv, NEW c \in Calls, Point(c)
    PROVE  TypeInv' /\ Moves(c) /\ Marks(c)
  <1> DEFINE Goal == TypeInv' /\ Moves(c) /\ Marks(c)
             i == call[c].on
             r == [row[i] EXCEPT !.hash = call[c].file.text, !.at = call[c].at]
  <1> SUFFICES Goal
    OBVIOUS
  <1>1. /\ TypeOK /\ Placed /\ Rows /\ Ready(c) /\ Archived(c) /\ call[c].pc = "point"
        /\ UNCHANGED <<scene, blob, links, used, archive, overlapped, lent, mishaps>>
    BY DEF TypeInv, Placed, Point
  <1>2. /\ call[c].file \in File /\ call[c].file.text \in Texts /\ i \in Ids /\ call[c].at \in Places
        /\ call[c].kind \in {"create", "save", "portable", "generic"} /\ InFlight(c)
    BY <1>1 DEF Ready, File, InFlight
  <1>3. /\ Placed' /\ call' \in [Calls -> Call] /\ did' \in [Calls -> SUBSET [file: File, id: Ids]]
        /\ errors' = errors /\ did[c] \subseteq did'[c] /\ call'[c].kind = call[c].kind
        /\ \A d \in Calls \ {c} : call'[d] = call[d] /\ did'[d] = did[d]
    <2>1. CASE FileDone(c)
      <3>1. /\ did' \in [Calls -> SUBSET [file: File, id: Ids]] /\ errors' = errors
            /\ did' = [did EXCEPT ![c] = did[c] \cup {[file |-> call[c].file, id |-> call[c].on]}]
            /\ Now(c, IF Imports(c) THEN "file" ELSE "done", call[c].kind, Nothing, Nothing, Nothing,
                   Nothing, IF Imports(c) THEN call[c].todo \ {call[c].file} ELSE {})
            /\ Placed'
        BY <1>1, <2>1, FileDoneMoves
      <3> QED
        BY <1>1, <3>1 DEF Now, TypeOK
    <2>2. CASE ~FileDone(c)
      <3>1. Ends(c, "failed") /\ UNCHANGED <<did, errors>> /\ ~Imports(c)
        BY <2>2 DEF Point
      <3>2. Now(c, "failed", call[c].kind, Nothing, Nothing, Nothing, Nothing, {})
        BY <1>1, <3>1, EndsNow DEF Pcs
      <3>3. Ready(c)'
        BY <3>2 DEF Now, Ready, InFlight, Imports, Idle
      <3>4. Archived(c)' /\ call'[c].kind # "export"
        BY <1>2, <3>1, <3>2 DEF Now, Archived, Imports
      <3>5. Placed'
        BY <3>1, <3>3, <3>4, <1>1, <3>2, PlacedKept DEF Now
      <3> QED
        BY <1>1, <3>1, <3>2, <3>5 DEF Now, TypeOK
    <2> QED
      BY <2>1, <2>2
  <1>4. Moves(c)
    BY <1>1, <1>2, <1>3 DEF Moves, TypeOK
  <1>5. CASE row[i] = Nothing
    <2>1. UNCHANGED <<row, owed, touched>>
      BY <1>5 DEF Point
    <2>2. TypeOK'
      BY <1>1, <1>3, <2>1 DEF TypeOK
    <2>3. Rows'
      BY <1>1, <2>1, RowsKept
    <2>4. Marks(c)
      BY <1>1, <2>1 DEF Marks, TypeOK
    <2> QED
      BY <1>3, <1>4, <2>2, <2>3, <2>4 DEF TypeInv
  <1>6. CASE row[i] # Nothing
    <2>1. /\ row' = [row EXCEPT ![i] = r] /\ Wrote(c, i) /\ owed' \subseteq owed \cup {i}
      BY <1>6 DEF Point, SetRow, Pending
    <2>2. row[i] \in Row
      BY <1>1, <1>2, <1>6 DEF TypeOK
    <2>3. r \in Row /\ r # Nothing /\ r.path = row[i].path /\ r.hash \in Texts
      BY <1>2, <2>2, PortableAssumption DEF Row
    <2> HIDE DEF r, i
    <2>4. touched' \subseteq Calls \X Ids /\ touched \subseteq touched'
          /\ \A d \in Concerned(c, i) : <<d, i>> \in touched'
      BY <1>1, <1>2, <2>1, WroteMarks
    <2>5. TypeOK'
      BY <1>1, <1>2, <1>3, <1>6, <2>1, <2>3, <2>4 DEF TypeOK
    <2>6. Rows'
      BY <1>1, <1>2, <1>6, <2>1, <2>3, PortableAssumption DEF TypeOK, Rows, Present
    <2>7. Marks(c)
      BY <1>1, <1>2, <2>1, <2>4 DEF Marks, TypeOK
    <2> QED
      BY <1>3, <1>4, <2>5, <2>6, <2>7 DEF TypeInv
  <1> QED
    BY <1>5, <1>6

\* A call that ends having changed nothing but what is owed, the links or where
\* it stands.
LEMMA EndedMoves ==
    ASSUME TypeInv, NEW c \in Calls, InFlight(c), NEW how \in {"done", "failed"}, Ends(c, how),
           UNCHANGED <<scene, row, blob, used, archive, did, errors, overlapped, lent>>,
           mishaps' \in {mishaps, mishaps + 1}, mishaps' \in 0 .. scene.mishaps,
           owed' \subseteq owed, links' \in [Ids -> SUBSET Ids], archive.files = {} => links' = links,
           touched' \subseteq Calls \X Ids, touched \subseteq touched',
           \A i \in Ids : links'[i] # links[i] => \A d \in Concerned(c, i) \ {c} : <<d, i>> \in touched'
    PROVE  TypeInv' /\ Moves(c) /\ Marks(c)
  <1>1. TypeOK /\ Placed /\ Rows /\ Ready(c) /\ Archived(c)
    BY DEF TypeInv, Placed
  <1>2. Now(c, how, call[c].kind, Nothing, Nothing, Nothing, Nothing, {})
    BY <1>1, EndsNow DEF Pcs
  <1>3. Placed'
    <2>1. Ready(c)'
      BY <1>2 DEF Now, Ready, InFlight, Imports, Idle
    <2>2. Archived(c)'
      BY <1>1, <1>2 DEF Now, Archived, Imports
    <2> QED
      BY <2>1, <2>2, <1>1, <1>2, PlacedKept DEF Now
  <1>4. TypeOK'
    BY <1>1, <1>2 DEF TypeOK, Now
  <1>5. Rows'
    BY <1>1 DEF Rows, Present
  <1>6. Moves(c)
    BY <1>1, <1>2 DEF Moves, Now, TypeOK
  <1>7. Marks(c)
    BY <1>1 DEF Marks
  <1> QED
    BY <1>3, <1>4, <1>5, <1>6, <1>7 DEF TypeInv

LEMMA SendMoves ==
    ASSUME TypeInv, NEW c \in Calls, Send(c)
    PROVE  TypeInv' /\ Moves(c) /\ Marks(c)
  <1>1. /\ InFlight(c) /\ Ends(c, "done") /\ owed' \subseteq owed /\ TypeOK
        /\ UNCHANGED <<scene, row, blob, links, used, archive, did, errors, touched, overlapped, lent, mishaps>>
    BY DEF TypeInv, Send, InFlight
  <1>2. /\ mishaps' \in 0 .. scene.mishaps /\ links' \in [Ids -> SUBSET Ids]
        /\ touched' \subseteq Calls \X Ids
    BY <1>1 DEF TypeOK
  <1> QED
    BY <1>1, <1>2, EndedMoves

LEMMA FailsMoves ==
    ASSUME TypeInv, NEW c \in Calls, Fails(c)
    PROVE  TypeInv' /\ Moves(c) /\ Marks(c)
  <1> DEFINE Goal == TypeInv' /\ Moves(c) /\ Marks(c)
  <1> SUFFICES Goal
    OBVIOUS
  <1>1. /\ TypeOK /\ Placed /\ Rows /\ Ready(c) /\ Archived(c) /\ InFlight(c) /\ call[c] \in Call
        /\ mishaps' = mishaps + 1 /\ mishaps < scene.mishaps /\ mishaps \in Nat
        /\ UNCHANGED <<scene, row, blob, used, archive, overlapped, lent>>
    BY DEF TypeInv, Placed, Fails, TypeOK
  <1>2. mishaps' \in 0 .. scene.mishaps /\ scene' = scene
    BY <1>1, PortableAssumption DEF TypeOK
  <1>3. ASSUME Ends(c, "failed"), owed' \subseteq owed, UNCHANGED <<links, did, errors, touched>>
        PROVE  Goal
    <2>1. links' \in [Ids -> SUBSET Ids] /\ touched' \subseteq Calls \X Ids
      BY <1>1, <1>3 DEF TypeOK
    <2> QED
      BY <1>1, <1>2, <1>3, <2>1, EndedMoves
  <1>4. CASE /\ Imports(c) /\ call[c].file # Nothing
             /\ FileError(c)
             /\ UNCHANGED <<links, owed, touched>>
    <2>1. call[c].file \in File
      BY <1>1, <1>4 DEF Call
    <2>2. /\ errors' \in [Calls -> SUBSET Paths] /\ did' = did
          /\ errors' = [errors EXCEPT ![c] = errors[c] \cup {call[c].file.path}]
          /\ Now(c, "file", call[c].kind, Nothing, Nothing, Nothing, Nothing,
                 call[c].todo \ {call[c].file})
          /\ Placed'
      BY <1>1, <1>4, <2>1, FileErrorMoves
    <2>3. TypeOK'
      BY <1>1, <1>2, <1>4, <2>2 DEF TypeOK, Now
    <2>4. Rows'
      BY <1>1, <1>4, RowsKept
    <2>5. Moves(c)
      BY <1>1, <2>2 DEF Moves, Now, TypeOK
    <2>6. Marks(c)
      BY <1>1, <1>4 DEF Marks, TypeOK
    <2> QED
      BY <2>2, <2>3, <2>4, <2>5, <2>6 DEF TypeInv
  <1>5. CASE /\ Imports(c) /\ call[c].pc = "file" /\ call[c].todo = {}
             /\ \E S, gone \in SUBSET Linked(c) : Cardinality(gone) <= 1 /\ Relinked(c, S, gone)
             /\ Ends(c, "failed")
             /\ UNCHANGED <<owed, did, errors>>
    <2>1. /\ links' \in [Ids -> SUBSET Ids]
          /\ touched' \subseteq Calls \X Ids /\ touched \subseteq touched'
          /\ \A i \in Ids : links'[i] # links[i]
               => \A d \in Concerned(c, i) \ {c} : <<d, i>> \in touched'
      BY <1>5, RelinkedMoves
    <2>2. archive.files # {}
      BY <1>1, <1>5 DEF Archived
    <2> QED
      BY <1>1, <1>2, <1>5, <2>1, <2>2, EndedMoves
  <1>6. CASE /\ call[c].pc = "jobs"
             /\ \E S \in SUBSET SentTo(c) : owed' = owed \ S
             /\ Ends(c, "failed")
             /\ UNCHANGED <<links, did, errors, touched>>
    BY <1>3, <1>6
  <1>7. CASE /\ call[c].pc = "erase"
             /\ call' = [call EXCEPT ![c].pc = "drop"]
             /\ UNCHANGED <<links, owed, did, errors, touched>>
    <2>1. Now(c, "drop", call[c].kind, call[c].file, call[c].on, call[c].at, call[c].had, call[c].todo)
      BY <1>1, <1>7, StageNow DEF Pcs
    <2>2. Placed'
      <3>1. Ready(c)'
        BY <1>1, <1>7, <2>1 DEF Now, Ready, InFlight, Imports, Idle
      <3>2. Archived(c)' /\ call'[c].kind # "export"
        BY <1>1, <1>7, <2>1 DEF Now, Ready, Archived, Imports
      <3> QED
        BY <3>1, <3>2, <1>1, <1>7, <2>1, PlacedKept DEF Now
    <2>3. TypeOK'
      BY <1>1, <1>2, <1>7, <2>1 DEF TypeOK, Now
    <2>4. Rows'
      BY <1>1, <1>7, RowsKept
    <2>5. Moves(c)
      BY <1>1, <1>7, <2>1 DEF Moves, Now, TypeOK
    <2>6. Marks(c)
      BY <1>1, <1>7 DEF Marks, TypeOK
    <2> QED
      BY <2>2, <2>3, <2>4, <2>5, <2>6 DEF TypeInv
  <1>8. CASE /\ ~Imports(c) /\ call[c].pc # "erase"
             /\ Ends(c, "failed")
             /\ UNCHANGED <<links, owed, did, errors, touched>>
    BY <1>3, <1>8
  <1> QED
    BY <1>4, <1>5, <1>6, <1>7, <1>8 DEF Fails

LEMMA CrashType ==
    ASSUME TypeInv, Crash
    PROVE  TypeInv'
  <1>1. /\ TypeOK /\ Placed /\ Rows /\ mishaps' = mishaps + 1 /\ mishaps < scene.mishaps /\ mishaps \in Nat
        /\ call' = [c \in Calls |-> IF InFlight(c) THEN Ended(c, "crashed") ELSE call[c]]
        /\ UNCHANGED <<scene, row, blob, links, used, owed, archive, did, errors, touched, overlapped, lent>>
    BY DEF TypeInv, Crash, corpusVars, TypeOK
  <1>2. mishaps' \in 0 .. scene.mishaps
    BY <1>1, PortableAssumption DEF TypeOK
  <1>3. \A c \in Calls :
          /\ call'[c] \in Call /\ call'[c].kind = call[c].kind
          /\ \/ call'[c] = call[c] /\ ~InFlight(c)
             \/ /\ call'[c].pc = "crashed" /\ call'[c].on = Nothing /\ call'[c].at = Nothing
                /\ call'[c].file = Nothing /\ call'[c].todo = {}
    BY <1>1 DEF TypeOK, Call, Pcs, Ended, Idle
  <1>4. TypeOK'
    BY <1>1, <1>2, <1>3 DEF TypeOK
  <1>5. Rows'
    BY <1>1, RowsKept
  <1>6. Placed'
    <2> SUFFICES ASSUME NEW c \in Calls
                 PROVE  Ready(c)' /\ Archived(c)'
      BY DEF Placed
    <2>1. Ready(c) /\ Archived(c)
      BY <1>1 DEF Placed
    <2>2. CASE call'[c] = call[c] /\ ~InFlight(c)
      <3>1. Ready(c)'
        BY <1>1, <2>1, <2>2 DEF Ready, InFlight, Imports, Idle
      <3>2. Archived(c)'
        BY <1>1, <1>3, <2>1, <2>2 DEF Archived, InFlight, Imports
      <3> QED
        BY <3>1, <3>2
    <2>3. CASE /\ call'[c].pc = "crashed" /\ call'[c].on = Nothing /\ call'[c].at = Nothing
               /\ call'[c].file = Nothing /\ call'[c].todo = {}
      <3>1. Ready(c)'
        BY <2>3 DEF Ready, InFlight, Imports, Idle
      <3>2. Archived(c)'
        BY <1>1, <1>3, <2>1, <2>3 DEF Archived, Imports
      <3> QED
        BY <3>1, <3>2
    <2> QED
      BY <1>3, <2>2, <2>3
  <1> QED
    BY <1>4, <1>5, <1>6 DEF TypeInv

\* Every step but a death is one of a call, and moves like one.
LEMMA StepMoves ==
    ASSUME TypeInv, Next
    PROVE  TypeInv' /\ (Crash \/ \E c \in Calls : Moves(c) /\ Marks(c))
  <1>1. CASE Crash
    BY <1>1, CrashType
  <1>2. ASSUME NEW c \in Calls, Client(c) \/ Exporting(c) \/ Import(c)
        PROVE  TypeInv' /\ Moves(c) /\ Marks(c)
    BY <1>2, CreateMoves, SaveMoves, RenameMoves, DeleteMoves, EraseMoves, DropMoves, ExportMoves,
       ReadDocumentMoves, ExportedMoves, ImportMoves DEF Client, Exporting
  <1>3. ASSUME NEW c \in Calls, Portable(c) \/ Generic(c)
        PROVE  TypeInv' /\ Moves(c) /\ Marks(c)
    BY <1>3, ByRefMoves, ByPathMoves, UpdateMoves, AdoptMoves, InsertMoves, RelinkMoves, LookMoves,
       InsertManagedMoves DEF Portable, Generic
  <1>4. ASSUME NEW c \in Calls, Store(c) \/ Point(c) \/ Send(c) \/ Fails(c)
        PROVE  TypeInv' /\ Moves(c) /\ Marks(c)
    BY <1>4, StoreMoves, PointMoves, SendMoves, FailsMoves
  <1> QED
    BY <1>1, <1>2, <1>3, <1>4 DEF Next

LEMMA InitType ==
    ASSUME Init
    PROVE  TypeInv
  <1>1. /\ scene \in Scenes /\ row = scene.rows /\ blob = scene.blobs /\ links = scene.links
        /\ archive = scene.archive /\ owed = {} /\ mishaps = 0
        /\ touched = {} /\ overlapped = {} /\ lent = {}
        /\ used = Present \cup {i \in Ids : scene.elsewhere[i] # "no"}
                          \cup {f.id : f \in scene.archive.files}
        /\ call = [c \in Calls |-> Idle] /\ did = [c \in Calls |-> {}] /\ errors = [c \in Calls |-> {}]
    BY DEF Init
  <1>2. /\ scene.rows \in [Ids -> Row \cup {Nothing}]
        /\ scene.blobs \in [Places -> Texts \cup {Nothing}]
        /\ scene.links \in [Ids -> SUBSET {i \in Ids : scene.rows[i] # Nothing}]
        /\ scene.archive \in Archive /\ scene.mishaps \in Nat /\ Orderly(scene)
    BY <1>1, PortableAssumption
  <1>3. Idle \in Call
    BY DEF Idle, Call, Pcs
  <1>4. used \subseteq Ids /\ \A i \in Ids : row[i] # Nothing => i \in used
    <2>1. \A f \in scene.archive.files : f.id \in Ids
      BY <1>2 DEF Archive, File
    <2> QED
      BY <1>1, <2>1 DEF Present
  <1>5. TypeOK
    <2>1. links \in [Ids -> SUBSET Ids]
      BY <1>1, <1>2
    <2>2. mishaps \in 0 .. scene.mishaps
      BY <1>1, <1>2
    <2> QED
      BY <1>1, <1>2, <1>3, <1>4, <2>1, <2>2 DEF TypeOK
  <1>6. Placed
    <2> SUFFICES ASSUME NEW c \in Calls
                 PROVE  Ready(c) /\ Archived(c)
      BY DEF Placed
    <2>1. /\ call[c] = Idle /\ call[c].pc = "idle" /\ call[c].kind = Nothing /\ call[c].at = Nothing
          /\ call[c].on = Nothing /\ call[c].file = Nothing
      BY <1>1 DEF Idle
    <2>2. ~Imports(c)
      BY <2>1, PortableAssumption DEF Imports, Kinds
    <2> QED
      BY <1>1, <2>1, <2>2 DEF Ready, Archived, InFlight
  <1>7. Rows
    BY <1>1, <1>2 DEF Rows, Present, Orderly
  <1> QED
    BY <1>5, <1>6, <1>7 DEF TypeInv

\* The types are kept by every step.
LEMMA TypeInductive ==
    ASSUME TypeInv, [Next]_vars
    PROVE  TypeInv'
  <1>1. CASE Next
    BY <1>1, StepMoves
  <1>2. CASE UNCHANGED vars
    BY <1>2 DEF vars, corpusVars, TypeInv, TypeOK, Placed, Ready, Archived, Rows, Present, InFlight, Imports, Idle
  <1> QED
    BY <1>1, <1>2

\* Everything has its type: no step of any operation leaves the shapes the model
\* gives rows, calls and archives.
THEOREM TypeCorrect == Spec => []TypeOK
  <1>1. Init => TypeInv
    BY InitType
  <1>2. TypeInv /\ [Next]_vars => TypeInv'
    BY TypeInductive
  <1>3. TypeInv => TypeOK
    BY DEF TypeInv
  <1> QED
    BY <1>1, <1>2, <1>3, PTL DEF Spec
-----------------------------------------------------------------------------
(* What the step of another call leaves of what a call knows.              *)

LEMMA OverlapsKept ==
    ASSUME Overlaps, NEW c \in Calls, Moves(c)
    PROVE  /\ Overlaps'
           /\ \A d \in Calls \ {c} : InFlight(d) => d \in overlapped'
           /\ InFlight(c)' /\ (\E d \in Calls \ {c} : InFlight(d)) => c \in overlapped'
  <1>1. \A d \in Calls \ {c} : InFlight(d) => d \in overlapped' /\ (InFlight(c)' => c \in overlapped')
    BY DEF Overlaps, Moves
  <1>2. ASSUME NEW a \in Calls, NEW b \in Calls, a # b, InFlight(a)', InFlight(b)'
        PROVE  a \in overlapped'
    <2>1. CASE a # c /\ b # c
      <3>1. InFlight(a) /\ InFlight(b)
        BY <1>2, <2>1 DEF Moves, InFlight
      <3> QED
        BY <1>2, <3>1 DEF Overlaps, Moves
    <2>2. CASE a = c
      <3>1. InFlight(b)
        BY <1>2, <2>2 DEF Moves, InFlight
      <3> QED
        BY <1>1, <1>2, <2>2, <3>1
    <2>3. CASE b = c
      <3>1. InFlight(a)
        BY <1>2, <2>3 DEF Moves, InFlight
      <3> QED
        BY <1>1, <1>2, <2>3, <3>1
    <2> QED
      BY <2>1, <2>2, <2>3
  <1> QED
    BY <1>1, <1>2 DEF Overlaps

LEMMA DisturbedKept ==
    ASSUME TypeOK, NEW c \in Calls, Moves(c), Disturbed
    PROVE  Disturbed'
  <1>1. mishaps \in Nat
    BY PortableAssumption DEF TypeOK
  <1> QED
    BY <1>1 DEF Disturbed, Moves

\* Another call stores or erases the content of a row only at a place that an
\* import has lent.
LEMMA BlobKept ==
    ASSUME TypeOK, Overlaps, Own, NEW c \in Calls, Moves(c), Marks(c), NEW i \in Ids,
           row[i] # Nothing, row[i].at # Nothing, blob'[row[i].at] # blob[row[i].at], call[c].on # i
    PROVE  row[i].at \in lent' /\ Disturbed'
  <1> DEFINE p == row[i].at
  <1>1. p \in Places
    BY DEF TypeOK, Row
  <1>2. p = call[c].at /\ p # Nothing /\ InFlight(c)
    BY <1>1 DEF Marks, InFlight
  <1>3. p[2] = i \/ (p \in lent /\ (Disturbed \/ \E d \in Calls : AtWork(d, i)))
    BY DEF Own
  <1>4. p[2] = call[c].on \/ (p \in lent /\ Disturbed)
    BY <1>2 DEF Own
  <1>5. CASE p \in lent /\ Disturbed
    BY <1>5, DisturbedKept DEF Moves
  <1>6. CASE p \in lent /\ \E d \in Calls : AtWork(d, i)
    <2>1. PICK d \in Calls : AtWork(d, i)
      BY <1>6
    <2>2. d # c /\ InFlight(d)
      BY <2>1 DEF AtWork, InFlight
    <2>3. Disturbed
      BY <1>2, <2>2 DEF Overlaps, Disturbed
    <2> QED
      BY <1>6, <2>3, DisturbedKept DEF Moves
  <1> QED
    BY <1>3, <1>4, <1>5, <1>6

LEMMA OtherKept ==
    ASSUME TypeInv, Overlaps, Own, AtHand, NEW c \in Calls, Moves(c), Marks(c), NEW d \in Calls \ {c}
    PROVE  (Sure(d)' => Seen(d)') /\ Vacant(d)'
  <1>1. /\ call'[d] = call[d] /\ (InFlight(d) => d \in overlapped') /\ (Sure(d) => Seen(d))
        /\ TypeOK /\ Ready(d)
    BY OverlapsKept DEF Moves, AtHand, TypeInv, Placed
  <1>2. Vacant(d)'
    BY <1>1 DEF Vacant, InFlight
  <1>3. CASE call[d].pc \notin {"put", "point", "update", "adopt"}
    BY <1>1, <1>2, <1>3 DEF Seen
  <1>4. CASE call[d].pc \in {"put", "point", "update", "adopt"}
    <2> DEFINE i == call[d].on
               p == call[d].at
    <2> SUFFICES ASSUME Sure(d)'
                 PROVE  Seen(d)'
      BY <1>2
    <2>1. i \in Ids /\ p \in Places /\ InFlight(d) /\ d \in overlapped' /\ p # Nothing
      BY <1>1, <1>4, PortableAssumption DEF Ready, InFlight
    <2>2. <<d, i>> \notin touched'
      BY <1>1, <2>1 DEF Sure
    <2>3. <<d, i>> \notin touched
      BY <2>1, <2>2 DEF Marks
    <2>4. Seen(d)
      BY <1>1, <2>3 DEF Sure
    <2>5. row'[i] = row[i]
      BY <2>1, <2>2 DEF Marks, Concerned
    <2>6. blob'[p] = blob[p] \/ (p \in lent' /\ Disturbed')
      <3> SUFFICES ASSUME blob'[p] # blob[p]
                   PROVE  p \in lent' /\ Disturbed'
        OBVIOUS
      <3>1. /\ p = call[c].at /\ InFlight(c)
            /\ \A e \in Concerned(c, call[c].on) : <<e, call[c].on>> \in touched'
        BY <2>1 DEF Marks, InFlight
      <3>2. Disturbed
        BY <2>1, <3>1 DEF Overlaps, Disturbed
      <3>3. call[c].on # i
        BY <2>2, <3>1 DEF Concerned
      <3>4. p \in lent
        BY <2>1, <3>1, <3>3 DEF Own
      <3> QED
        BY <1>1, <3>2, <3>4, DisturbedKept DEF Moves
    <2>7. p \in lent /\ Disturbed => p \in lent' /\ Disturbed'
      BY <1>1, DisturbedKept DEF Moves
    <2> QED
      BY <1>1, <2>4, <2>5, <2>6, <2>7 DEF Seen
  <1> QED
    BY <1>3, <1>4

LEMMA HeldKept ==
    ASSUME TypeInv, Overlaps, Own, Stored, NEW c \in Calls, Moves(c), Marks(c),
           NEW d \in Calls, NEW e \in did[d], call'[d].kind # "export", <<d, e.id>> \notin touched'
    PROVE  Held(e)'
  <1> DEFINE i == e.id
  <1>1. TypeOK /\ i \in Ids
    BY DEF TypeInv, TypeOK
  <1>2. call'[d].kind = call[d].kind
    BY DEF Moves
  <1>3. <<d, i>> \notin touched
    BY <1>1 DEF Marks
  <1>4. Held(e)
    BY <1>2, <1>3 DEF Stored, Held
  <1>5. row'[i] = row[i]
    BY <1>1 DEF Marks, Concerned
  <1> DEFINE p == row[i].at
  <1>6. p \in Places
    BY <1>1, <1>4 DEF Held, TypeOK, Row
  <1>7. blob'[p] = blob[p] \/ (p \in lent' /\ Disturbed')
    <2>1. CASE call[c].on = i
      BY <1>6, <2>1 DEF Marks, Concerned
    <2>2. CASE call[c].on # i
      BY <1>1, <1>4, <2>2, BlobKept DEF Held
    <2> QED
      BY <2>1, <2>2
  <1>8. Shared(i) => Shared(i)'
    <2>1. Shared(i) => p \in lent /\ Disturbed
      BY DEF Shared, Disturbed
    <2>2. p \in lent' /\ Disturbed' => Shared(i)'
      BY <1>5 DEF Shared, Disturbed
    <2> QED
      BY <1>1, <2>1, <2>2, DisturbedKept DEF Moves
  <1>9. p \in lent' /\ Disturbed' => Shared(i)'
    BY <1>5 DEF Shared, Disturbed
  <1> QED
    BY <1>4, <1>5, <1>7, <1>8, <1>9 DEF Held

\* What a step has to see to itself: the places it gives, what its own call
\* knows after it, and the content it reports as stored.
Local(c) ==
    /\ \A i \in Ids :
         row'[i] # Nothing /\ row'[i].at # Nothing
           => \/ row'[i].at[2] = i
              \/ row'[i].at \in lent' /\ (Disturbed' \/ AtWork(c, i)')
              \/ /\ row[i] # Nothing /\ row'[i].at = row[i].at
                 /\ AtWork(c, i) => Disturbed'
    /\ call'[c].at # Nothing => \/ call'[c].at[2] = call'[c].on
                                \/ call'[c].at \in lent' /\ Disturbed'
    /\ (Sure(c)' => Seen(c)') /\ Vacant(c)'
    /\ \A e \in did'[c] \ did[c] :
         call'[c].kind # "export" /\ <<c, e.id>> \notin touched' => Held(e)'

LEMMA LocalEnough ==
    ASSUME PlaceInv, NEW c \in Calls, Moves(c), Marks(c), Local(c)
    PROVE  Overlaps' /\ Own' /\ AtHand' /\ Stored'
  <1>1. TypeInv /\ TypeOK /\ Overlaps /\ Own /\ AtHand /\ Stored
    BY DEF PlaceInv, TypeInv
  <1>2. Overlaps'
    BY <1>1, OverlapsKept
  <1>3. lent \subseteq lent' /\ (Disturbed => Disturbed')
    BY <1>1, DisturbedKept DEF Moves
  <1>4. Own'
    <2>1. ASSUME NEW i \in Ids, row'[i] # Nothing, row'[i].at # Nothing
          PROVE  \/ row'[i].at[2] = i
                 \/ row'[i].at \in lent' /\ (Disturbed' \/ \E d \in Calls : AtWork(d, i)')
      <3>1. CASE /\ row[i] # Nothing /\ row'[i].at = row[i].at
                 /\ AtWork(c, i) => Disturbed'
        <4>1. \/ row[i].at[2] = i
              \/ row[i].at \in lent /\ (Disturbed \/ \E d \in Calls : AtWork(d, i))
          BY <1>1, <2>1, <3>1 DEF Own
        <4>2. CASE \E d \in Calls : AtWork(d, i)
          <5>1. PICK d \in Calls : AtWork(d, i)
            BY <4>2
          <5>2. d # c => AtWork(d, i)'
            BY <5>1 DEF Moves, AtWork
          <5> QED
            BY <1>3, <3>1, <4>1, <5>1, <5>2
        <4> QED
          BY <1>3, <3>1, <4>1, <4>2
      <3> QED
        BY <2>1, <3>1 DEF Local
    <2>2. ASSUME NEW d \in Calls, call'[d].at # Nothing
          PROVE  \/ call'[d].at[2] = call'[d].on
                 \/ call'[d].at \in lent' /\ Disturbed'
      <3>1. CASE d = c
        BY <2>2, <3>1 DEF Local
      <3>2. CASE d # c
        <4>1. call'[d] = call[d]
          BY <3>2 DEF Moves
        <4>2. \/ call[d].at[2] = call[d].on
              \/ call[d].at \in lent /\ Disturbed
          BY <1>1, <2>2, <4>1 DEF Own
        <4> QED
          BY <1>3, <4>1, <4>2
      <3> QED
        BY <3>1, <3>2
    <2>3. \A i \in Ids : row'[i] # Nothing /\ row'[i].at # Nothing
            => \/ row'[i].at[2] = i
               \/ row'[i].at \in lent' /\ (Disturbed' \/ \E d \in Calls : AtWork(d, i)')
      BY <2>1
    <2> QED
      BY <2>2, <2>3 DEF Own
  <1>5. AtHand'
    <2> SUFFICES ASSUME NEW d \in Calls
                 PROVE  (Sure(d)' => Seen(d)') /\ Vacant(d)'
      BY DEF AtHand
    <2>1. CASE d = c
      BY <2>1 DEF Local
    <2>2. CASE d # c
      BY <1>1, <2>2, OtherKept
    <2> QED
      BY <2>1, <2>2
  <1>6. Stored'
    <2> SUFFICES ASSUME NEW d \in Calls, NEW e \in did'[d], call'[d].kind # "export",
                        <<d, e.id>> \notin touched'
                 PROVE  Held(e)'
      BY DEF Stored, Held
    <2>1. CASE e \in did[d]
      BY <1>1, <2>1, HeldKept
    <2>2. CASE e \notin did[d]
      <3>1. d = c
        BY <2>2 DEF Moves
      <3> QED
        BY <2>2, <3>1 DEF Local
    <2> QED
      BY <2>1, <2>2
  <1> QED
    BY <1>2, <1>4, <1>5, <1>6

\* A step that writes no row's place, and after which its call has nothing at hand.
LEMMA QuietLocal ==
    ASSUME PlaceInv, NEW c \in Calls, Moves(c),
           \A i \in Ids : row'[i] # Nothing /\ row'[i].at # Nothing
                            => row[i] # Nothing /\ row'[i].at = row[i].at,
           call[c].pc \notin {"put", "point"} \/ Disturbed',
           call'[c].pc \notin {"put", "point", "update", "adopt", "insert"},
           call'[c].at = Nothing \/ (call'[c].at = call[c].at /\ call'[c].on = call[c].on),
           did'[c] = did[c] \/ call'[c].kind = "export"
    PROVE  Local(c)
  <1>1. TypeOK /\ Own
    BY DEF PlaceInv, TypeInv
  <1>2. (Sure(c)' => Seen(c)') /\ Vacant(c)'
    BY DEF Seen, Vacant
  <1>3. call'[c].at # Nothing => \/ call'[c].at[2] = call'[c].on
                                 \/ call'[c].at \in lent' /\ Disturbed'
    <2> SUFFICES ASSUME call'[c].at # Nothing
                 PROVE  \/ call'[c].at[2] = call'[c].on
                        \/ call'[c].at \in lent' /\ Disturbed'
      OBVIOUS
    <2>1. call'[c].at = call[c].at /\ call'[c].on = call[c].on
      OBVIOUS
    <2>2. call[c].at[2] = call[c].on \/ (call[c].at \in lent /\ Disturbed)
      BY <1>1, <2>1 DEF Own
    <2> QED
      BY <1>1, <2>1, <2>2, DisturbedKept DEF Moves
  <1>4. \A i \in Ids : AtWork(c, i) => Disturbed'
    BY DEF AtWork
  <1> QED
    BY <1>2, <1>3, <1>4 DEF Local

\* A step after which its call is about to store a content that is not that of a
\* portable import.
LEMMA PutLocal ==
    ASSUME PlaceInv, NEW c \in Calls, Moves(c), NEW kind \in {"create", "save", "generic"}, NEW f,
           NEW i \in Ids, NEW place, NEW had, NEW todo, Now(c, "put", kind, f, i, place, had, todo),
           \A j \in Ids : row'[j] # Nothing /\ row'[j].at # Nothing
                            => row[j] # Nothing /\ row'[j].at = row[j].at,
           call[c].pc \notin {"put", "point"}, did'[c] = did[c], row'[i] # Nothing,
           place[2] = i \/ (place \in lent' /\ Disturbed')
    PROVE  Local(c)
  <1>1. /\ call'[c].pc = "put" /\ call'[c].kind = kind /\ call'[c].on = i /\ call'[c].at = place
    BY DEF Now
  <1>2. (Sure(c)' => Seen(c)') /\ Vacant(c)'
    BY <1>1 DEF Seen, Vacant
  <1>3. \A j \in Ids : ~AtWork(c, j)
    BY DEF AtWork
  <1> QED
    BY <1>1, <1>2, <1>3 DEF Local

LEMMA CreateLocal ==
    ASSUME PlaceInv, NEW c \in Calls, Create(c)
    PROVE  Local(c)
  <1> DEFINE n == NewId
             place == <<"managed", n>>
             r(p) == [path |-> p, ref |-> Nothing, hash |-> Nothing, at |-> Nothing]
  <1>1. PICK p \in Paths, t \in scene.texts :
          /\ SetRow(n, r(p)) /\ Put(c, "create", Written(n, p, t), n, place)
    BY DEF Create, Inserted
  <1>2. TypeInv /\ TypeOK /\ Moves(c) /\ n \in Ids /\ call[c].pc = "idle" /\ did' = did
    BY NewIdSpare, CreateMoves DEF PlaceInv, TypeInv, Create, Starts
  <1>3. t \in Texts
    BY <1>1, <1>2, PortableAssumption DEF TypeOK
  <1> HIDE DEF n
  <1>4. /\ Written(n, p, t) \in File /\ place \in Places /\ place[2] = n
        /\ r(p) \in Row /\ r(p) # Nothing /\ r(p).at = Nothing
    BY <1>1, <1>2, <1>3, PortableAssumption DEF Written, File, Places, Row
  <1>5. row' = [row EXCEPT ![n] = r(p)]
    BY <1>1 DEF SetRow
  <1> HIDE DEF place, r
  <1>6. Now(c, "put", "create", Written(n, p, t), n, place, Nothing, call[c].todo)
    BY <1>1, <1>2, <1>4, PutNow DEF Kinds
  <1>7. \A j \in Ids : row'[j] # Nothing /\ row'[j].at # Nothing
                         => row[j] # Nothing /\ row'[j].at = row[j].at
    BY <1>2, <1>4, <1>5 DEF TypeOK
  <1>8. row'[n] # Nothing
    BY <1>2, <1>4, <1>5 DEF TypeOK
  <1> QED
    BY <1>2, <1>4, <1>6, <1>7, <1>8, PutLocal

LEMMA SaveLocal ==
    ASSUME PlaceInv, NEW c \in Calls, Save(c)
    PROVE  Local(c)
  <1> DEFINE place(i) == IF row[i].at = Nothing THEN <<"managed", i>> ELSE row[i].at
  <1>1. PICK i \in Present, t \in scene.texts :
          Put(c, "save", Written(i, row[i].path, t), i, place(i))
    BY DEF Save
  <1>2. /\ TypeInv /\ TypeOK /\ Overlaps /\ Own /\ Moves(c) /\ call[c].pc = "idle" /\ did' = did /\ row' = row
        /\ ~InFlight(c)
    BY SaveMoves DEF PlaceInv, TypeInv, Save, Starts, corpusVars, InFlight
  <1>3. i \in Ids /\ row[i] \in Row /\ row[i] # Nothing /\ t \in Texts
    BY <1>1, <1>2, PortableAssumption DEF TypeOK, Present
  <1>4. Written(i, row[i].path, t) \in File /\ place(i) \in Places
    BY <1>1, <1>3 DEF Written, File, Places, Row
  <1>5. place(i)[2] = i \/ (place(i) \in lent' /\ Disturbed')
    <2>1. CASE row[i].at = Nothing
      BY <2>1
    <2>2. CASE row[i].at # Nothing
      <3>1. \/ row[i].at[2] = i
            \/ row[i].at \in lent /\ (Disturbed \/ \E d \in Calls : AtWork(d, i))
        BY <1>2, <1>3, <2>2 DEF Own
      <3>2. ASSUME NEW d \in Calls, AtWork(d, i)
            PROVE  Disturbed'
        <4>1. InFlight(d)
          BY <3>2 DEF AtWork, InFlight
        <4>2. d \in overlapped'
          BY <1>2, <4>1 DEF Moves
        <4> QED
          BY <4>2 DEF Disturbed
      <3>3. Disturbed => Disturbed'
        BY <1>2, DisturbedKept
      <3>4. lent \subseteq lent'
        BY <1>2 DEF Moves
      <3> QED
        BY <2>2, <3>1, <3>2, <3>3, <3>4
    <2> QED
      BY <2>1, <2>2
  <1> HIDE DEF place
  <1>6. Now(c, "put", "save", Written(i, row[i].path, t), i, place(i), Nothing, call[c].todo)
    BY <1>1, <1>2, <1>3, <1>4, PutNow DEF Kinds
  <1> QED
    BY <1>2, <1>3, <1>5, <1>6, PutLocal

LEMMA RenameLocal ==
    ASSUME PlaceInv, NEW c \in Calls, Rename(c)
    PROVE  Local(c)
  <1>1. PICK i \in Present, p \in Paths : SetRow(i, [row[i] EXCEPT !.path = p])
    BY DEF Rename
  <1>2. TypeInv /\ TypeOK /\ Moves(c) /\ did' = did /\ call[c].pc = "idle" /\ Ends(c, "done")
    BY RenameMoves DEF PlaceInv, TypeInv, Rename, Starts
  <1>3. Now(c, "done", call[c].kind, Nothing, Nothing, Nothing, Nothing, {})
    BY <1>2, EndsNow DEF Pcs
  <1>4. \A j \in Ids : row'[j] # Nothing /\ row'[j].at # Nothing
                         => row[j] # Nothing /\ row'[j].at = row[j].at
    <2>1. i \in Ids /\ row[i] \in Row /\ row[i] # Nothing
      BY <1>2 DEF Present, TypeOK
    <2> QED
      BY <1>1, <1>2, <2>1 DEF SetRow, TypeOK, Row
  <1> QED
    BY <1>2, <1>3, <1>4, QuietLocal DEF Now

LEMMA DeleteLocal ==
    ASSUME PlaceInv, NEW c \in Calls, Delete(c)
    PROVE  Local(c)
  <1> DEFINE n(i) == [call[c] EXCEPT !.pc = "erase", !.kind = "delete", !.on = i, !.at = row[i].at]
  <1>1. PICK i \in Present : call' = [call EXCEPT ![c] = n(i)]
    BY DEF Delete
  <1>2. /\ TypeInv /\ TypeOK /\ Own /\ Moves(c) /\ call[c].pc = "idle" /\ did' = did /\ row' = row
        /\ call[c] \in Call /\ i \in Ids /\ row[i] # Nothing
    BY DeleteMoves DEF PlaceInv, TypeInv, Delete, Starts, corpusVars, TypeOK, Present
  <1>3. n(i).pc = "erase" /\ n(i).kind = "delete" /\ n(i).on = i /\ n(i).at = row[i].at
    BY <1>2 DEF Call
  <1> HIDE DEF n
  <1>4. call'[c].pc = "erase" /\ call'[c].kind = "delete" /\ call'[c].on = i /\ call'[c].at = row[i].at
    BY <1>1, <1>2, <1>3 DEF TypeOK
  <1>5. (Sure(c)' => Seen(c)') /\ Vacant(c)'
    BY <1>4 DEF Seen, Vacant
  <1>6. row[i].at # Nothing => \/ row[i].at[2] = i
                               \/ row[i].at \in lent' /\ Disturbed'
    <2> SUFFICES ASSUME row[i].at # Nothing
                 PROVE  \/ row[i].at[2] = i
                        \/ row[i].at \in lent' /\ Disturbed'
      OBVIOUS
    <2>1. \/ row[i].at[2] = i
          \/ row[i].at \in lent /\ (Disturbed \/ \E d \in Calls : AtWork(d, i))
      BY <1>2 DEF Own
    <2>2. ASSUME NEW d \in Calls, AtWork(d, i)
          PROVE  Disturbed'
      <3>1. InFlight(d) /\ ~InFlight(c)
        BY <1>2, <2>2 DEF AtWork, InFlight
      <3>2. d \in overlapped'
        BY <1>2, <3>1 DEF Moves
      <3> QED
        BY <3>2 DEF Disturbed
    <2>3. (Disturbed => Disturbed') /\ lent \subseteq lent'
      BY <1>2, DisturbedKept DEF Moves
    <2> QED
      BY <2>1, <2>2, <2>3
  <1>7. \A j \in Ids : ~AtWork(c, j)
    BY <1>2 DEF AtWork
  <1>8. \A j \in Ids : row'[j] # Nothing => row[j] # Nothing /\ row'[j].at = row[j].at
    BY <1>2
  <1>9. did'[c] \ did[c] = {}
    BY <1>2
  <1> QED
    BY <1>4, <1>5, <1>6, <1>7, <1>8, <1>9 DEF Local

\* The steps of clients and of an export that leave nothing at hand.
LEMMA EraseLocal ==
    ASSUME PlaceInv, NEW c \in Calls, Erase(c)
    PROVE  Local(c)
  <1>1. /\ TypeInv /\ TypeOK /\ Moves(c) /\ did' = did /\ row' = row /\ call[c].pc = "erase"
        /\ call' = [call EXCEPT ![c].pc = "drop"]
    BY EraseMoves DEF PlaceInv, TypeInv, Erase
  <1>2. Now(c, "drop", call[c].kind, call[c].file, call[c].on, call[c].at, call[c].had, call[c].todo)
    BY <1>1, StageNow DEF Pcs
  <1> QED
    BY <1>1, <1>2, QuietLocal DEF Now

LEMMA DropLocal ==
    ASSUME PlaceInv, NEW c \in Calls, Drop(c)
    PROVE  Local(c)
  <1>1. /\ TypeInv /\ TypeOK /\ Moves(c) /\ did' = did /\ call[c].pc = "drop" /\ Ends(c, "done")
        /\ row' = [row EXCEPT ![call[c].on] = Nothing]
    BY DropMoves DEF PlaceInv, TypeInv, Drop, SetRow
  <1>2. Now(c, "done", call[c].kind, Nothing, Nothing, Nothing, Nothing, {})
    BY <1>1, EndsNow DEF Pcs
  <1>3. \A j \in Ids : row'[j] # Nothing => row'[j] = row[j]
    BY <1>1 DEF TypeOK
  <1> QED
    BY <1>1, <1>2, <1>3, QuietLocal DEF Now

LEMMA ExportingLocal ==
    ASSUME PlaceInv, NEW c \in Calls, Exporting(c)
    PROVE  Local(c)
  <1>1. /\ TypeInv /\ TypeOK /\ Placed /\ Moves(c) /\ row' = row /\ call[c] \in Call
    BY ExportMoves, ReadDocumentMoves, ExportedMoves
       DEF PlaceInv, TypeInv, Exporting, Export, ReadDocument, Exported, corpusVars, TypeOK
  <1>2. call[c].pc \in {"idle", "read"}
    BY DEF Exporting, Export, ReadDocument, Exported, Starts
  <1>3. call[c].at = Nothing
    BY <1>1, <1>2 DEF Placed, Ready
  <1>4. /\ call'[c].pc \in {"read", "failed", "done"} /\ call'[c].at = Nothing
        /\ call'[c].kind = "export"
    <2>1. CASE Export(c)
      <3>1. /\ call'[c].pc = "read" /\ call'[c].kind = "export" /\ call'[c].at = call[c].at
        BY <1>1, <2>1 DEF Export, TypeOK, Call
      <3> QED
        BY <1>3, <3>1
    <2>2. ASSUME NEW f \in call[c].todo, ReadDocument(c, f)
          PROVE  /\ call'[c].pc \in {"read", "failed"} /\ call'[c].at = Nothing
                 /\ call'[c].kind = "export"
      <3>1. call[c].kind = "export" /\ call[c].pc = "read"
        BY <1>1, <2>2 DEF Placed, Archived, ReadDocument
      <3>2. CASE Ends(c, "failed")
        <4>1. Now(c, "failed", call[c].kind, Nothing, Nothing, Nothing, Nothing, {})
          BY <1>1, <3>2, EndsNow DEF Pcs
        <4> QED
          BY <3>1, <4>1 DEF Now
      <3>3. CASE call' = [call EXCEPT ![c].todo = call[c].todo \ {f}]
        BY <1>1, <1>3, <3>1, <3>3 DEF TypeOK, Call
      <3> QED
        BY <2>2, <3>2, <3>3 DEF ReadDocument
    <2>3. CASE Exported(c)
      <3>1. call[c].kind = "export"
        BY <1>1, <2>3 DEF Placed, Archived, Exported
      <3>2. Now(c, "done", call[c].kind, Nothing, Nothing, Nothing, Nothing, {})
        BY <1>1, <2>3, EndsNow DEF Pcs, Exported
      <3> QED
        BY <3>1, <3>2 DEF Now
    <2> QED
      BY <2>1, <2>2, <2>3 DEF Exporting
  <1> QED
    BY <1>1, <1>2, <1>4, QuietLocal

LEMMA ImportLocal ==
    ASSUME PlaceInv, NEW c \in Calls, Import(c)
    PROVE  Local(c)
  <1>1. /\ TypeInv /\ TypeOK /\ Placed /\ Moves(c) /\ row' = row /\ did' = did /\ call[c] \in Call
        /\ call[c].pc = "idle"
    BY ImportMoves DEF PlaceInv, TypeInv, Import, Starts, corpusVars, TypeOK
  <1>2. call[c].at = Nothing
    BY <1>1 DEF Placed, Ready
  <1>3. call'[c].pc = "file" /\ call'[c].at = call[c].at
    BY <1>1 DEF Import, TypeOK, Call
  <1> QED
    BY <1>1, <1>2, <1>3, QuietLocal

\* The steps of an import that leave nothing at hand.
LEMMA RefusedLocal ==
    ASSUME PlaceInv, NEW c \in Calls, Imports(c), call[c].file \in File, InFlight(c), Refused(c),
           UNCHANGED <<scene, blob, links, archive, overlapped, mishaps>>, call[c].pc \notin {"put", "point"}
    PROVE  Local(c)
  <1>1. TypeInv /\ Moves(c) /\ row' = row /\ FileError(c) /\ archive' = archive
    BY RefusedMoves DEF PlaceInv, Refused
  <1>2. did' = did /\ Now(c, "file", call[c].kind, Nothing, Nothing, Nothing, Nothing,
                          call[c].todo \ {call[c].file})
    BY <1>1, FileErrorMoves
  <1> QED
    BY <1>1, <1>2, QuietLocal DEF Now

LEMMA SendLocal ==
    ASSUME PlaceInv, NEW c \in Calls, Send(c)
    PROVE  Local(c)
  <1>1. /\ TypeInv /\ TypeOK /\ Moves(c) /\ did' = did /\ row' = row /\ Ends(c, "done")
        /\ call[c].pc \notin {"put", "point"}
    BY SendMoves DEF PlaceInv, TypeInv, Send
  <1>2. Now(c, "done", call[c].kind, Nothing, Nothing, Nothing, Nothing, {})
    BY <1>1, EndsNow DEF Pcs
  <1> QED
    BY <1>1, <1>2, QuietLocal DEF Now

LEMMA FailsLocal ==
    ASSUME PlaceInv, NEW c \in Calls, Fails(c)
    PROVE  Local(c)
  <1>1. /\ TypeInv /\ TypeOK /\ Moves(c) /\ row' = row /\ archive' = archive /\ call[c] \in Call
        /\ mishaps' = mishaps + 1 /\ mishaps \in Nat
    <2>1. TypeInv /\ TypeOK /\ Moves(c)
      BY FailsMoves DEF PlaceInv, TypeInv
    <2>2. row' = row /\ archive' = archive /\ mishaps' = mishaps + 1
      BY DEF Fails
    <2>3. call[c] \in Call /\ mishaps \in Nat
      BY <2>1, PortableAssumption DEF TypeOK
    <2> QED
      BY <2>1, <2>2, <2>3
  <1>2. Disturbed'
    BY <1>1 DEF Disturbed
  <1>3. did'[c] = did[c] /\ \/ call'[c].pc \in {"file", "failed"} /\ call'[c].at = Nothing
                            \/ /\ call'[c].pc = "drop"
                               /\ call'[c].at = call[c].at /\ call'[c].on = call[c].on
    <2>1. CASE Imports(c) /\ call[c].file # Nothing /\ FileError(c)
      <3>1. call[c].file \in File
        BY <1>1, <2>1 DEF Call
      <3>2. did' = did /\ Now(c, "file", call[c].kind, Nothing, Nothing, Nothing, Nothing,
                              call[c].todo \ {call[c].file})
        BY <1>1, <2>1, <3>1, FileErrorMoves
      <3> QED
        BY <3>2 DEF Now
    <2>2. CASE Ends(c, "failed") /\ did' = did
      <3>1. Now(c, "failed", call[c].kind, Nothing, Nothing, Nothing, Nothing, {})
        BY <1>1, <2>2, EndsNow DEF Pcs
      <3> QED
        BY <2>2, <3>1 DEF Now
    <2>3. CASE call' = [call EXCEPT ![c].pc = "drop"] /\ did' = did
      BY <1>1, <2>3 DEF TypeOK, Call
    <2> QED
      BY <2>1, <2>2, <2>3 DEF Fails
  <1> QED
    BY <1>1, <1>2, <1>3, QuietLocal

LEMMA FoundLocal ==
    ASSUME PlaceInv, NEW c \in Calls, Moves(c), call[c].kind = "portable", NEW f \in File,
           NEW i \in Present, NEW pc \in {"update", "adopt"}, Found(c, f, i, pc),
           f.path \in {row[i].path, row[i].ref}, pc = "update" => row[i].ref = f.path,
           call[c].pc \notin {"put", "point"}, row' = row, did' = did
    PROVE  Local(c)
  <1> DEFINE place == <<"import", i>>
  <1>1. TypeOK
    BY DEF PlaceInv, TypeInv
  <1>2. /\ Now(c, IF row[i].hash = f.text THEN "put" ELSE pc, "portable", f, i, place, row[i].at, call[c].todo)
        /\ i \in Ids /\ row[i] # Nothing
    BY <1>1, FoundNow DEF Pcs, Present
  <1>3. place[2] = i
    OBVIOUS
  <1> HIDE DEF place
  <1>4. /\ call'[c].pc = (IF row[i].hash = f.text THEN "put" ELSE pc) /\ call'[c].kind = "portable"
        /\ call'[c].file = f /\ call'[c].on = i /\ call'[c].at = place /\ call'[c].had = row[i].at
    BY <1>2 DEF Now
  <1>5. Vacant(c)'
    BY <1>4 DEF Vacant
  <1>6. Seen(c)'
    BY <1>2, <1>4 DEF Seen
  <1>7. \A j \in Ids : ~AtWork(c, j)
    BY DEF AtWork
  <1> QED
    BY <1>3, <1>4, <1>5, <1>6, <1>7 DEF Local

\* A look that finds nothing.
LEMMA NotFoundLocal ==
    ASSUME PlaceInv, NEW c \in Calls, Moves(c), call'[c].pc \in {"file", "path", "insert"},
           call'[c].at = Nothing, call[c].pc \notin {"put", "point"}, row' = row, did' = did,
           Vacant(c)'
    PROVE  Local(c)
  <1>1. \A j \in Ids : ~AtWork(c, j)
    BY DEF AtWork
  <1>2. Seen(c)'
    BY DEF Seen
  <1> QED
    BY <1>1, <1>2 DEF Local

LEMMA ByRefLocal ==
    ASSUME PlaceInv, NEW c \in Calls, NEW f \in call[c].todo, ByRef(c, f)
    PROVE  Local(c)
  <1>1. /\ TypeInv /\ TypeOK /\ Placed /\ Moves(c)
    BY ByRefMoves DEF PlaceInv, TypeInv
  <1>2. /\ row' = row /\ did' = did /\ call[c].pc = "file" /\ call[c].kind = "portable"
    BY DEF ByRef, corpusVars
  <1>3. /\ call[c] \in Call /\ f \in File /\ call[c].at = Nothing
    BY <1>1, <1>2 DEF TypeOK, Call, Placed, Ready
  <1>4. CASE call' = [call EXCEPT ![c].todo = call[c].todo \ {f}]
    <2>1. call'[c].pc = "file" /\ call'[c].at = Nothing
      BY <1>1, <1>2, <1>3, <1>4 DEF TypeOK, Call
    <2>2. Vacant(c)'
      BY <2>1 DEF Vacant
    <2> QED
      BY <1>1, <1>2, <2>1, <2>2, NotFoundLocal
  <1>5. CASE call' = [call EXCEPT ![c] = [call[c] EXCEPT !.pc = "path", !.file = f,
                                                         !.prefer = Usable(f.id, f.path)]]
    <2>1. call'[c].pc = "path" /\ call'[c].at = Nothing
      BY <1>1, <1>3, <1>5 DEF TypeOK, Call
    <2>2. Vacant(c)'
      BY <2>1 DEF Vacant
    <2> QED
      BY <1>1, <1>2, <2>1, <2>2, NotFoundLocal
  <1>6. CASE \E i \in Referring(f.path) : Found(c, f, i, "update")
    <2>1. PICK i \in Present : Found(c, f, i, "update") /\ row[i].ref = f.path
      BY <1>6 DEF Referring
    <2> QED
      BY <2>1, <1>1, <1>2, <1>3, FoundLocal
  <1> QED
    BY <1>4, <1>5, <1>6 DEF ByRef

LEMMA ByPathLocal ==
    ASSUME PlaceInv, NEW c \in Calls, ByPath(c)
    PROVE  Local(c)
  <1> DEFINE f == call[c].file
  <1>1. /\ TypeInv /\ TypeOK /\ Placed /\ Moves(c)
    BY ByPathMoves DEF PlaceInv, TypeInv
  <1>2. /\ UNCHANGED <<scene, row, did>> /\ call[c].pc = "path"
    BY DEF ByPath, corpusVars
  <1>3. /\ call[c] \in Call /\ f \in File /\ call[c].at = Nothing /\ call[c].kind = "portable"
    BY <1>1, <1>2 DEF TypeOK, Placed, Ready
  <1>4. CASE /\ At(f.path) = {}
             /\ call' = [call EXCEPT ![c].pc = "insert",
                                     ![c].prefer = call[c].prefer /\ Usable(f.id, f.path)]
    <2>1. /\ call'[c].pc = "insert" /\ call'[c].at = Nothing /\ call'[c].file = f
          /\ call'[c].prefer => Usable(f.id, f.path)
      BY <1>1, <1>3, <1>4 DEF TypeOK, Call
    <2>2. Vacant(c)'
      BY <1>2, <1>4, <2>1 DEF Vacant, At, Present, Usable
    <2> QED
      BY <1>1, <1>2, <2>1, <2>2, NotFoundLocal
  <1>5. CASE \E i \in At(f.path) : Found(c, f, i, "adopt")
    <2>1. PICK i \in Present : Found(c, f, i, "adopt") /\ row[i].path = f.path
      BY <1>5 DEF At
    <2> QED
      BY <2>1, <1>1, <1>2, <1>3, FoundLocal
  <1> QED
    BY <1>4, <1>5 DEF ByPath

\* A step that writes row i with the content c is about to store.
LEMMA WrittenLocal ==
    ASSUME PlaceInv, NEW c \in Calls, Moves(c), call[c].file \in File, NEW i \in Ids, NEW r \in Row,
           row' = [row EXCEPT ![i] = r], Lends(c, i), did' = did, NEW place, NEW todo,
           place[2] = i \/ (place \in lent' /\ Disturbed'),
           call[c].pc \notin {"put", "point"},
           Now(c, "put", "portable", call[c].file, i, place, Preferred(c), todo),
           call[c].file.path \in {r.path, r.ref}, r.hash = call[c].file.text, r.at = Preferred(c)
    PROVE  Local(c)
  <1>1. /\ TypeOK /\ Preferred(c) \in Places /\ Preferred(c)[2] = call[c].file.id
        /\ (i # call[c].file.id => Preferred(c) \in lent')
    BY LendsMoves DEF PlaceInv, TypeInv, Preferred
  <1>2. /\ call'[c].pc = "put" /\ call'[c].kind = "portable" /\ call'[c].file = call[c].file
        /\ call'[c].on = i /\ call'[c].at = place /\ call'[c].had = Preferred(c)
    BY DEF Now
  <1>3. row'[i] = r /\ r # Nothing /\ \A j \in Ids \ {i} : row'[j] = row[j]
    BY <1>1, PortableAssumption DEF TypeOK
  <1>4. Seen(c)' /\ Vacant(c)'
    BY <1>2, <1>3 DEF Seen, Vacant
  <1>5. AtWork(c, i)'
    BY <1>2 DEF AtWork
  <1>6. \A j \in Ids : ~AtWork(c, j)
    BY DEF AtWork
  <1>7. \A j \in Ids :
          row'[j] # Nothing /\ row'[j].at # Nothing
            => \/ row'[j].at[2] = j
               \/ row'[j].at \in lent' /\ (Disturbed' \/ AtWork(c, j)')
               \/ /\ row[j] # Nothing /\ row'[j].at = row[j].at
                  /\ AtWork(c, j) => Disturbed'
    <2> SUFFICES ASSUME NEW j \in Ids, row'[j] # Nothing, row'[j].at # Nothing
                 PROVE  \/ row'[j].at[2] = j
                        \/ row'[j].at \in lent' /\ (Disturbed' \/ AtWork(c, j)')
                        \/ /\ row[j] # Nothing /\ row'[j].at = row[j].at
                           /\ AtWork(c, j) => Disturbed'
      OBVIOUS
    <2>1. CASE j = i
      BY <1>1, <1>3, <1>5, <2>1
    <2>2. CASE j # i
      BY <1>3, <1>6, <2>2
    <2> QED
      BY <2>1, <2>2
  <1>8. did'[c] \ did[c] = {}
    OBVIOUS
  <1> QED
    BY <1>2, <1>4, <1>7, <1>8 DEF Local

LEMMA UpsertedLocal ==
    ASSUME PlaceInv, NEW c \in Calls, call[c].pc \in {"update", "adopt"}, NEW r \in Row, Moves(c),
           call[c].file.path \in {r.path, r.ref}, Upserted(c, r)
    PROVE  Local(c)
  <1> DEFINE i == call[c].on
             s == [r EXCEPT !.hash = call[c].file.text, !.at = Preferred(c)]
             n == [call[c] EXCEPT !.pc = "put", !.had = Preferred(c)]
  <1>1. TypeOK /\ Placed /\ call[c] \in Call
    BY DEF PlaceInv, TypeInv, TypeOK
  <1>2. i \in Ids /\ call[c].file \in File /\ call[c].file.text \in Texts /\ call[c].kind = "portable"
    BY <1>1 DEF Placed, Ready, File
  <1>3. /\ row' = [row EXCEPT ![i] = s] /\ Lends(c, i) /\ did' = did
        /\ call' = [call EXCEPT ![c].pc = "put", ![c].had = Preferred(c)]
    BY DEF Upserted, SetRow
  <1>4. Preferred(c) \in Places
    BY <1>1, <1>2, <1>3, LendsMoves
  <1>5. s \in Row /\ s.path = r.path /\ s.ref = r.ref /\ s.hash = call[c].file.text /\ s.at = Preferred(c)
    BY <1>2, <1>4 DEF Row
  <1> HIDE DEF s
  <1>6. n \in Call
    BY <1>1, <1>4 DEF Call, Pcs
  <1>7. /\ n.pc = "put" /\ n.kind = "portable" /\ n.file = call[c].file /\ n.on = i
        /\ n.at = call[c].at /\ n.had = Preferred(c) /\ n.todo = call[c].todo
    BY <1>1, <1>2 DEF Call
  <1>8. call' = [call EXCEPT ![c] = n]
    BY <1>1, <1>3 DEF TypeOK
  <1> HIDE DEF n
  <1>9. Now(c, "put", "portable", call[c].file, i, call[c].at, Preferred(c), call[c].todo)
    BY <1>1, <1>6, <1>7, <1>8, TurnNow
  <1>10. call[c].at[2] = i \/ (call[c].at \in lent' /\ Disturbed')
    <2>1. call[c].at # Nothing /\ Own
      BY <1>1, PortableAssumption DEF PlaceInv, Placed, Ready
    <2>2. call[c].at[2] = i \/ (call[c].at \in lent /\ Disturbed)
      BY <2>1 DEF Own
    <2> QED
      BY <1>1, <2>2, DisturbedKept DEF Moves
  <1> HIDE DEF i
  <1> QED
    BY <1>2, <1>3, <1>5, <1>9, <1>10, WrittenLocal

LEMMA UpdateLocal ==
    ASSUME PlaceInv, NEW c \in Calls, Update(c)
    PROVE  Local(c)
  <1> DEFINE i == call[c].on
             f == call[c].file
             r == [row[i] EXCEPT !.path = f.path]
  <1>1. /\ TypeInv /\ TypeOK /\ Moves(c) /\ Ready(c) /\ call[c].pc = "update"
        /\ UNCHANGED <<scene, blob, links, archive, overlapped, mishaps>>
    BY UpdateMoves DEF PlaceInv, TypeInv, Placed, Update
  <1>2. i \in Ids /\ f \in File /\ f.path \in Paths /\ InFlight(c) /\ Imports(c)
    BY <1>1 DEF Ready, InFlight, Imports, File
  <1>3. CASE row[i] = Nothing \/ At(f.path) \ {i} # {}
    <2>1. Refused(c)
      BY <1>3 DEF Update
    <2> QED
      BY <1>1, <1>2, <2>1, RefusedLocal
  <1>4. CASE ~(row[i] = Nothing \/ At(f.path) \ {i} # {})
    <2>1. Upserted(c, r) /\ row[i] \in Row
      BY <1>1, <1>2, <1>4 DEF Update, TypeOK
    <2>2. r \in Row /\ r.path = f.path
      BY <1>2, <2>1 DEF Row
    <2> HIDE DEF r
    <2> QED
      BY <1>1, <2>1, <2>2, UpsertedLocal
  <1> QED
    BY <1>3, <1>4

LEMMA AdoptLocal ==
    ASSUME PlaceInv, NEW c \in Calls, Adopt(c)
    PROVE  Local(c)
  <1> DEFINE i == call[c].on
             f == call[c].file
             r == [row[i] EXCEPT !.ref = f.path]
  <1>1. /\ TypeInv /\ TypeOK /\ Moves(c) /\ Ready(c) /\ call[c].pc = "adopt"
        /\ UNCHANGED <<scene, blob, links, archive, overlapped, mishaps>>
    BY AdoptMoves DEF PlaceInv, TypeInv, Placed, Adopt
  <1>2. i \in Ids /\ f \in File /\ f.path \in Paths /\ InFlight(c) /\ Imports(c)
    BY <1>1 DEF Ready, InFlight, Imports, File
  <1>3. CASE row[i] = Nothing
    <2>1. Refused(c)
      BY <1>3 DEF Adopt
    <2> QED
      BY <1>1, <1>2, <2>1, RefusedLocal
  <1>4. CASE row[i] # Nothing
    <2>1. Upserted(c, r) /\ row[i] \in Row
      BY <1>1, <1>2, <1>4 DEF Adopt, TypeOK
    <2>2. r \in Row /\ r.ref = f.path
      BY <1>2, <2>1 DEF Row
    <2> HIDE DEF r
    <2> QED
      BY <1>1, <2>1, <2>2, UpsertedLocal
  <1> QED
    BY <1>3, <1>4

LEMMA InsertLocal ==
    ASSUME PlaceInv, NEW c \in Calls, Insert(c)
    PROVE  Local(c)
  <1> DEFINE f == call[c].file
             i == IF call[c].prefer THEN f.id ELSE NewId
             r == [path |-> f.path, ref |-> f.path, hash |-> f.text, at |-> Preferred(c)]
             place == <<"import", i>>
  <1>1. /\ TypeInv /\ TypeOK /\ Moves(c) /\ Ready(c) /\ call[c].pc = "insert"
        /\ call[c].kind = "portable" /\ call[c] \in Call /\ NewId \in Ids
        /\ UNCHANGED <<scene, blob, links, archive, overlapped, mishaps>>
    BY InsertMoves, NewIdSpare DEF PlaceInv, TypeInv, Placed, TypeOK, Insert
  <1>2. /\ f \in File /\ f.path \in Paths /\ f.text \in Texts /\ i \in Ids /\ InFlight(c) /\ Imports(c)
        /\ place \in Places /\ place[2] = i
    BY <1>1 DEF Ready, InFlight, Imports, File, Places
  <1>3. CASE At(f.path) # {} \/ row[i] # Nothing \/ scene.elsewhere[i] # "no"
    <2>1. Refused(c)
      BY <1>3 DEF Insert
    <2> QED
      BY <1>1, <1>2, <2>1, RefusedLocal
  <1>4. CASE ~(At(f.path) # {} \/ row[i] # Nothing \/ scene.elsewhere[i] # "no")
    <2> DEFINE n == [call[c] EXCEPT !.pc = "put", !.on = i, !.at = place, !.had = Preferred(c)]
    <2>1. /\ row' = [row EXCEPT ![i] = r] /\ Lends(c, i) /\ call' = [call EXCEPT ![c] = n]
          /\ UNCHANGED <<did, errors>>
      BY <1>4 DEF Insert, Inserted, SetRow
    <2> HIDE DEF i, place
    <2>2. Preferred(c) \in Places
      BY <1>1, <1>2, <2>1, LendsMoves
    <2>3. r \in Row /\ r.path = f.path /\ r.ref = f.path /\ r.hash = f.text /\ r.at = Preferred(c)
      BY <1>2, <2>2 DEF Row
    <2> HIDE DEF r
    <2>4. n \in Call
      BY <1>1, <1>2, <2>2 DEF Call, Pcs
    <2>5. /\ n.pc = "put" /\ n.kind = "portable" /\ n.file = f /\ n.on = i
          /\ n.at = place /\ n.had = Preferred(c) /\ n.todo = call[c].todo
      BY <1>1, <1>2 DEF Call
    <2> HIDE DEF n
    <2>6. Now(c, "put", "portable", f, i, place, Preferred(c), call[c].todo)
      BY <1>1, <2>1, <2>4, <2>5, TurnNow
    <2> QED
      BY <1>1, <1>2, <2>1, <2>3, <2>6, WrittenLocal
  <1> QED
    BY <1>3, <1>4

LEMMA RelinkLocal ==
    ASSUME PlaceInv, NEW c \in Calls, Relink(c)
    PROVE  Local(c)
  <1>1. /\ TypeInv /\ TypeOK /\ Moves(c) /\ did' = did /\ row' = row /\ call[c].pc = "file"
        /\ call' = [call EXCEPT ![c].pc = "jobs"]
    BY RelinkMoves DEF PlaceInv, TypeInv, Relink
  <1>2. Now(c, "jobs", call[c].kind, call[c].file, call[c].on, call[c].at, call[c].had, call[c].todo)
    BY <1>1, StageNow DEF Pcs
  <1> QED
    BY <1>1, <1>2, QuietLocal DEF Now

LEMMA LookLocal ==
    ASSUME PlaceInv, NEW c \in Calls, NEW f \in call[c].todo, Look(c, f)
    PROVE  Local(c)
  <1>1. /\ TypeInv /\ TypeOK /\ Placed /\ Moves(c)
    BY LookMoves DEF PlaceInv, TypeInv
  <1>2. /\ UNCHANGED <<scene, row, did>> /\ call[c].pc = "file" /\ call[c].kind = "generic"
    BY DEF Look, corpusVars
  <1>3. /\ call[c] \in Call /\ f \in File /\ call[c].at = Nothing
    BY <1>1, <1>2 DEF TypeOK, Call, Placed, Ready
  <1>4. CASE call' = [call EXCEPT ![c].pc = "insert", ![c].file = f]
    <2>1. call'[c].pc = "insert" /\ call'[c].at = Nothing /\ call'[c].kind = "generic"
      BY <1>1, <1>2, <1>3, <1>4 DEF TypeOK, Call
    <2>2. Vacant(c)'
      BY <2>1 DEF Vacant
    <2> QED
      BY <1>1, <1>2, <2>1, <2>2, NotFoundLocal
  <1>5. CASE call' = [call EXCEPT ![c].todo = call[c].todo \ {f}]
    <2>1. call'[c].pc = "file" /\ call'[c].at = Nothing
      BY <1>1, <1>2, <1>3, <1>5 DEF TypeOK, Call
    <2>2. Vacant(c)'
      BY <2>1 DEF Vacant
    <2> QED
      BY <1>1, <1>2, <2>1, <2>2, NotFoundLocal
  <1>6. CASE \E i \in At(f.path) : Put(c, "generic", f, i, <<"managed", i>>)
    <2>1. PICK i \in At(f.path) : Put(c, "generic", f, i, <<"managed", i>>)
      BY <1>6
    <2> DEFINE place == <<"managed", i>>
    <2>2. i \in Ids /\ row[i] # Nothing /\ place \in Places /\ place[2] = i
      BY DEF At, Present, Places
    <2>3. Now(c, "put", "generic", f, i, place, Nothing, call[c].todo)
      BY <1>1, <1>3, <2>1, <2>2, PutNow DEF Kinds
    <2> HIDE DEF place
    <2> QED
      BY <1>1, <1>2, <2>2, <2>3, PutLocal
  <1> QED
    BY <1>4, <1>5, <1>6 DEF Look

LEMMA InsertManagedLocal ==
    ASSUME PlaceInv, NEW c \in Calls, InsertManaged(c)
    PROVE  Local(c)
  <1> DEFINE f == call[c].file
             i == NewId
             r == [path |-> f.path, ref |-> Nothing, hash |-> f.text, at |-> Nothing]
             place == <<"managed", i>>
  <1>1. /\ TypeInv /\ TypeOK /\ Moves(c) /\ Ready(c) /\ call[c].pc = "insert"
        /\ call[c].kind = "generic" /\ i \in Ids
        /\ UNCHANGED <<scene, blob, links, archive, overlapped, mishaps>>
    BY InsertManagedMoves, NewIdSpare DEF PlaceInv, TypeInv, Placed, InsertManaged
  <1>2. /\ f \in File /\ f.path \in Paths /\ f.text \in Texts /\ InFlight(c) /\ Imports(c)
        /\ place \in Places /\ place[2] = i
    BY <1>1 DEF Ready, InFlight, Imports, File, Places
  <1>3. CASE At(f.path) # {}
    <2>1. Refused(c)
      BY <1>3 DEF InsertManaged
    <2> QED
      BY <1>1, <1>2, <2>1, RefusedLocal
  <1>4. CASE At(f.path) = {}
    <2>1. /\ row' = [row EXCEPT ![i] = r] /\ Put(c, "generic", f, i, place) /\ did' = did
      BY <1>4 DEF InsertManaged, Inserted, SetRow
    <2> HIDE DEF i, place
    <2>2. r # Nothing /\ r.at = Nothing
      <3>1. r \in Row
        BY <1>2, PortableAssumption DEF Row
      <3> QED
        BY <3>1, PortableAssumption
    <2> HIDE DEF r, f
    <2>3. Now(c, "put", "generic", f, i, place, Nothing, call[c].todo)
      BY <1>1, <1>2, <2>1, PutNow DEF Kinds
    <2>4. row'[i] = r /\ \A j \in Ids \ {i} : row'[j] = row[j]
      BY <1>1, <2>1 DEF TypeOK
    <2>5. \A j \in Ids : row'[j] # Nothing /\ row'[j].at # Nothing
                           => row[j] # Nothing /\ row'[j].at = row[j].at
      BY <2>2, <2>4
    <2> QED
      BY <1>1, <1>2, <2>1, <2>2, <2>3, <2>4, <2>5, PutLocal
  <1> QED
    BY <1>3, <1>4

LEMMA StoreLocal ==
    ASSUME PlaceInv, NEW c \in Calls, Store(c)
    PROVE  Local(c)
  <1> DEFINE i == call[c].on
             p == call[c].at
             f == call[c].file
  <1>1. /\ TypeInv /\ TypeOK /\ Own /\ AtHand /\ Ready(c) /\ Moves(c) /\ Marks(c)
        /\ call[c].pc = "put" /\ Wrote(c, i)
        /\ UNCHANGED <<row, lent, overlapped, mishaps, archive>> /\ blob' = [blob EXCEPT ![p] = f.text]
    BY StoreMoves DEF PlaceInv, TypeInv, Placed, Store
  <1>2. i \in Ids /\ p \in Places /\ p # Nothing /\ (call[c].kind # "portable" => call[c].had = Nothing)
    BY <1>1, PortableAssumption DEF Ready
  <1>3. blob'[p] = f.text
    BY <1>1, <1>2 DEF TypeOK
  <1>4. touched \subseteq touched' /\ (Disturbed <=> Disturbed')
    BY <1>1 DEF Wrote, Disturbed
  <1>5. Sure(c) => Seen(c)
    BY <1>1 DEF AtHand
  <1>6. CASE call[c].had = p
    <2>1. FileDone(c) /\ call[c].kind = "portable"
      BY <1>2, <1>6 DEF Store
    <2>2. /\ did' = [did EXCEPT ![c] = did[c] \cup {[file |-> f, id |-> i]}]
          /\ Now(c, IF Imports(c) THEN "file" ELSE "done", call[c].kind, Nothing, Nothing, Nothing,
                 Nothing, IF Imports(c) THEN call[c].todo \ {call[c].file} ELSE {})
      BY <1>1, <2>1, FileDoneMoves
    <2>3. call'[c].pc = "file" /\ call'[c].at = Nothing
      BY <2>1, <2>2 DEF Now, Imports
    <2>4. (Sure(c)' => Seen(c)') /\ Vacant(c)'
      BY <2>3 DEF Seen, Vacant
    <2>5. <<c, i>> \notin touched \/ c \notin overlapped => /\ row[i] # Nothing /\ row[i].hash = f.text
                                                            /\ row[i].at = p
      BY <1>1, <1>5, <1>6, <2>1 DEF Sure, Seen
    <2>6. \A j \in Ids : row'[j] # Nothing /\ row'[j].at # Nothing
            => \/ row'[j].at[2] = j
               \/ /\ row[j] # Nothing /\ row'[j].at = row[j].at
                  /\ AtWork(c, j) => Disturbed'
      <3> SUFFICES ASSUME NEW j \in Ids, row'[j] # Nothing, row'[j].at # Nothing, AtWork(c, j), ~Disturbed'
                   PROVE  row'[j].at[2] = j
        BY <1>1
      <3>1. j = i /\ c \notin overlapped /\ ~Disturbed
        BY <1>4 DEF AtWork, Disturbed
      <3>2. p[2] = i
        BY <1>1, <1>2, <3>1 DEF Own
      <3> QED
        BY <1>1, <2>5, <3>1, <3>2
    <2>7. \A d \in did'[c] \ did[c] : d.id = i /\ d.file = f
      BY <1>1, <2>2 DEF TypeOK
    <2>8. ASSUME NEW d \in did'[c] \ did[c], <<c, d.id>> \notin touched'
          PROVE  Held(d)'
      <3>1. d.id = i /\ d.file = f
        BY <2>7
      <3>2. row'[d.id] # Nothing /\ row'[d.id].hash = d.file.text /\ row'[d.id].at = p
        BY <1>1, <1>4, <2>5, <2>8, <3>1
      <3> QED
        BY <1>2, <1>3, <3>1, <3>2 DEF Held
    <2> QED
      BY <2>3, <2>4, <2>6, <2>8 DEF Local
  <1>7. CASE call[c].had # p
    <2>1. call' = [call EXCEPT ![c].pc = "point"] /\ did' = did
      BY <1>7 DEF Store
    <2>2. Now(c, "point", call[c].kind, f, i, p, call[c].had, call[c].todo)
      BY <1>1, <2>1, StageNow DEF Pcs
    <2>3. /\ call'[c].pc = "point" /\ call'[c].kind = call[c].kind /\ call'[c].file = f
          /\ call'[c].on = i /\ call'[c].at = p
      BY <2>2 DEF Now
    <2>4. Sure(c)' => Sure(c)
      BY <1>1, <1>4, <2>3 DEF Sure
    <2>5. Sure(c)' => Seen(c)'
      BY <1>1, <1>3, <1>5, <2>3, <2>4 DEF Seen
    <2>6. Vacant(c)'
      BY <2>3 DEF Vacant
    <2>7. p[2] = i \/ (p \in lent' /\ Disturbed')
      BY <1>1, <1>2, <1>4 DEF Own
    <2>8. \A j \in Ids : AtWork(c, j) => AtWork(c, j)'
      BY <1>1, <2>3 DEF AtWork
    <2>9. \A j \in Ids :
            row'[j] # Nothing /\ row'[j].at # Nothing
              => \/ row'[j].at[2] = j
                 \/ row'[j].at \in lent' /\ (Disturbed' \/ AtWork(c, j)')
                 \/ /\ row[j] # Nothing /\ row'[j].at = row[j].at
                    /\ AtWork(c, j) => Disturbed'
      BY <1>1, <2>8 DEF Own
    <2>10. did'[c] \ did[c] = {}
      BY <2>1
    <2> QED
      BY <2>3, <2>5, <2>6, <2>7, <2>9, <2>10 DEF Local
  <1> QED
    BY <1>6, <1>7

LEMMA PointLocal ==
    ASSUME PlaceInv, NEW c \in Calls, Point(c)
    PROVE  Local(c)
  <1> DEFINE i == call[c].on
             p == call[c].at
             f == call[c].file
             r == [row[i] EXCEPT !.hash = f.text, !.at = p]
  <1>1. /\ TypeInv /\ TypeOK /\ Own /\ AtHand /\ Ready(c) /\ Moves(c) /\ Marks(c)
        /\ call[c].pc = "point"
        /\ UNCHANGED <<blob, lent, overlapped, mishaps, archive>>
    BY PointMoves DEF PlaceInv, TypeInv, Placed, Point
  <1>2. i \in Ids /\ p \in Places /\ p # Nothing /\ f \in File /\ f.text \in Texts
    BY <1>1, PortableAssumption DEF Ready, File
  <1>3. (Disturbed <=> Disturbed') /\ (Sure(c) => Seen(c))
    BY <1>1 DEF Disturbed, AtHand
  <1>4. p[2] = i \/ (p \in lent' /\ Disturbed')
    BY <1>1, <1>2, <1>3 DEF Own
  <1>5. /\ call'[c].pc \in {"file", "done", "failed"} /\ call'[c].at = Nothing
        /\ \A d \in did'[c] \ did[c] : d.id = i /\ d.file = f
    <2>1. CASE FileDone(c)
      <3>1. /\ did' = [did EXCEPT ![c] = did[c] \cup {[file |-> f, id |-> i]}]
            /\ Now(c, IF Imports(c) THEN "file" ELSE "done", call[c].kind, Nothing, Nothing, Nothing,
                   Nothing, IF Imports(c) THEN call[c].todo \ {call[c].file} ELSE {})
        BY <1>1, <2>1, FileDoneMoves
      <3> QED
        BY <1>1, <3>1 DEF Now, TypeOK
    <2>2. CASE Ends(c, "failed") /\ did' = did
      <3>1. Now(c, "failed", call[c].kind, Nothing, Nothing, Nothing, Nothing, {})
        BY <1>1, <2>2, EndsNow DEF Pcs
      <3> QED
        BY <2>2, <3>1 DEF Now
    <2> QED
      BY <2>1, <2>2 DEF Point
  <1>6. (Sure(c)' => Seen(c)') /\ Vacant(c)'
    BY <1>5 DEF Seen, Vacant
  <1>8. CASE row[i] = Nothing
    <2>1. UNCHANGED <<row, touched>>
      BY <1>8 DEF Point
    <2>2. <<c, i>> \in touched'
      BY <1>1, <1>3, <1>8, <2>1 DEF Sure, Seen
    <2>3. \A j \in Ids : row[j] # Nothing => ~AtWork(c, j)
      BY <1>8 DEF AtWork
    <2> QED
      BY <1>5, <1>6, <2>1, <2>2, <2>3 DEF Local
  <1>9. CASE row[i] # Nothing
    <2>1. row' = [row EXCEPT ![i] = r] /\ Wrote(c, i)
      BY <1>9 DEF Point, SetRow
    <2>2. r \in Row /\ r # Nothing /\ r.hash = f.text /\ r.at = p
      <3>1. row[i] \in Row
        BY <1>1, <1>2, <1>9 DEF TypeOK
      <3> QED
        BY <3>1, <1>2, PortableAssumption DEF Row
    <2> HIDE DEF r
    <2>3. row'[i] = r /\ \A j \in Ids \ {i} : row'[j] = row[j]
      BY <1>1, <1>2, <2>1 DEF TypeOK
    <2>4. \A j \in Ids : AtWork(c, j) => j = i
      BY DEF AtWork
    <2>5. ASSUME NEW d \in did'[c] \ did[c], <<c, d.id>> \notin touched'
          PROVE  Held(d)'
      <3>1. d.id = i /\ d.file = f
        BY <1>5
      <3>2. <<c, i>> \notin touched
        BY <2>1, <2>5, <3>1 DEF Wrote
      <3>3. blob[p] = f.text \/ (p \in lent /\ Disturbed)
        BY <1>1, <1>3, <3>2 DEF Sure, Seen
      <3>4. row'[d.id] # Nothing /\ row'[d.id].hash = d.file.text /\ row'[d.id].at = p
        BY <2>2, <2>3, <3>1
      <3>5. p \in lent /\ Disturbed => Shared(d.id)'
        BY <1>1, <1>3, <3>4 DEF Shared, Disturbed
      <3> QED
        BY <1>1, <1>2, <3>1, <3>3, <3>4, <3>5 DEF Held
    <2>6. \A j \in Ids :
            row'[j] # Nothing /\ row'[j].at # Nothing
              => \/ row'[j].at[2] = j
                 \/ row'[j].at \in lent' /\ (Disturbed' \/ AtWork(c, j)')
                 \/ /\ row[j] # Nothing /\ row'[j].at = row[j].at
                    /\ AtWork(c, j) => Disturbed'
      <3> SUFFICES ASSUME NEW j \in Ids, row'[j] # Nothing, row'[j].at # Nothing
                   PROVE  \/ row'[j].at[2] = j
                          \/ row'[j].at \in lent' /\ (Disturbed' \/ AtWork(c, j)')
                          \/ /\ row[j] # Nothing /\ row'[j].at = row[j].at
                             /\ AtWork(c, j) => Disturbed'
        OBVIOUS
      <3>1. CASE j = i
        BY <1>4, <2>2, <2>3, <3>1
      <3>2. CASE j # i
        BY <2>3, <2>4, <3>2
      <3> QED
        BY <3>1, <3>2
    <2> QED
      BY <1>5, <1>6, <2>5, <2>6 DEF Local
  <1> QED
    BY <1>8, <1>9

\* A death ends what is in flight; rows, contents and what was reported stay.
LEMMA CrashPlace ==
    ASSUME PlaceInv, Crash
    PROVE  Overlaps' /\ Own' /\ AtHand' /\ Stored'
  <1>1. /\ TypeOK /\ Placed /\ Overlaps /\ Own /\ AtHand /\ Stored /\ mishaps' = mishaps + 1 /\ mishaps \in Nat
        /\ UNCHANGED <<row, blob, did, touched, overlapped, lent>>
        /\ call' = [c \in Calls |-> IF InFlight(c) THEN Ended(c, "crashed") ELSE call[c]]
    BY PortableAssumption DEF PlaceInv, TypeInv, Crash, corpusVars, TypeOK
  <1>2. \A c \in Calls : /\ ~InFlight(c)' /\ call'[c].at = Nothing /\ call'[c].kind = call[c].kind
                         /\ call'[c].pc \notin {"put", "point", "update", "adopt", "insert"}
    <2> SUFFICES ASSUME NEW c \in Calls
                 PROVE  /\ ~InFlight(c)' /\ call'[c].at = Nothing /\ call'[c].kind = call[c].kind
                        /\ call'[c].pc \notin {"put", "point", "update", "adopt", "insert"}
      OBVIOUS
    <2>1. CASE InFlight(c)
      <3>1. call'[c] = Ended(c, "crashed")
        BY <1>1, <2>1
      <3> QED
        BY <3>1 DEF Ended, Idle, InFlight
    <2>2. CASE ~InFlight(c)
      <3>1. call'[c] = call[c] /\ Ready(c)
        BY <1>1, <2>2 DEF Placed
      <3> QED
        BY <2>2, <3>1 DEF Ready, InFlight
    <2> QED
      BY <2>1, <2>2
  <1>3. Disturbed'
    BY <1>1 DEF Disturbed
  <1>4. Overlaps'
    BY <1>2 DEF Overlaps
  <1>5. Own'
    BY <1>1, <1>2, <1>3 DEF Own
  <1>6. AtHand'
    BY <1>2 DEF AtHand, Seen, Vacant
  <1>7. \A i \in Ids : Shared(i) => Shared(i)'
    BY <1>1 DEF Shared
  <1>8. Stored'
    <2> SUFFICES ASSUME NEW c \in Calls, NEW d \in did[c], call[c].kind # "export", <<c, d.id>> \notin touched
                 PROVE  Held(d)'
      BY <1>1, <1>2 DEF Stored, Held
    <2>1. Held(d) /\ d.id \in Ids
      BY <1>1 DEF Stored, Held, TypeOK
    <2> QED
      BY <1>1, <1>7, <2>1 DEF Held
  <1> QED
    BY <1>4, <1>5, <1>6, <1>8

LEMMA StepLocal ==
    ASSUME PlaceInv, NEW c \in Calls,
           \/ Client(c) \/ Exporting(c) \/ Import(c) \/ Portable(c) \/ Generic(c)
           \/ Store(c) \/ Point(c) \/ Send(c) \/ Fails(c)
    PROVE  Moves(c) /\ Marks(c) /\ Local(c)
  <1>1. TypeInv
    BY DEF PlaceInv
  <1>2. CASE Client(c)
    BY <1>1, <1>2, CreateMoves, SaveMoves, RenameMoves, DeleteMoves, EraseMoves, DropMoves,
       CreateLocal, SaveLocal, RenameLocal, DeleteLocal, EraseLocal, DropLocal DEF Client
  <1>3. CASE Exporting(c) \/ Import(c)
    <2>1. CASE Import(c)
      BY <1>1, <2>1, ImportMoves, ImportLocal
    <2>2. CASE Exporting(c)
      <3>1. Local(c)
        BY <2>2, ExportingLocal
      <3>2. Moves(c) /\ Marks(c)
        BY <1>1, <2>2, ExportMoves, ReadDocumentMoves, ExportedMoves DEF Exporting
      <3> QED
        BY <3>1, <3>2
    <2> QED
      BY <1>3, <2>1, <2>2
  <1>4. CASE Portable(c)
    BY <1>1, <1>4, ByRefMoves, ByPathMoves, UpdateMoves, AdoptMoves, InsertMoves, RelinkMoves,
       ByRefLocal, ByPathLocal, UpdateLocal, AdoptLocal, InsertLocal, RelinkLocal DEF Portable
  <1>5. CASE Generic(c)
    BY <1>1, <1>5, LookMoves, InsertManagedMoves, LookLocal, InsertManagedLocal DEF Generic
  <1>6. CASE Store(c) \/ Point(c) \/ Send(c) \/ Fails(c)
    BY <1>1, <1>6, StoreMoves, PointMoves, SendMoves, FailsMoves,
       StoreLocal, PointLocal, SendLocal, FailsLocal
  <1> QED
    BY <1>2, <1>3, <1>4, <1>5, <1>6

LEMMA InitPlace ==
    ASSUME Init
    PROVE  PlaceInv
  <1>1. TypeInv
    BY InitType
  <1>2. /\ call = [c \in Calls |-> Idle] /\ did = [c \in Calls |-> {}] /\ row = scene.rows
        /\ Orderly(scene)
    BY PortableAssumption DEF Init
  <1>3. \A c \in Calls : /\ call[c].pc = "idle" /\ call[c].at = Nothing /\ ~InFlight(c) /\ did[c] = {}
    BY <1>2 DEF Idle, InFlight
  <1>4. Overlaps /\ AtHand /\ Stored
    BY <1>3 DEF Overlaps, AtHand, Seen, Vacant, Stored
  <1>5. Own
    BY <1>2, <1>3 DEF Own, Orderly
  <1> QED
    BY <1>1, <1>4, <1>5 DEF PlaceInv

LEMMA PlaceInductive ==
    ASSUME PlaceInv, [Next]_vars
    PROVE  PlaceInv'
  <1>1. TypeInv'
    BY TypeInductive DEF PlaceInv
  <1>2. CASE Crash
    BY <1>1, <1>2, CrashPlace DEF PlaceInv
  <1>3. ASSUME NEW c \in Calls,
               \/ Client(c) \/ Exporting(c) \/ Import(c) \/ Portable(c) \/ Generic(c)
               \/ Store(c) \/ Point(c) \/ Send(c) \/ Fails(c)
        PROVE  PlaceInv'
    BY <1>1, <1>3, StepLocal, LocalEnough DEF PlaceInv
  <1>4. CASE UNCHANGED vars
    <2>1. UNCHANGED <<row, blob, call, did, touched, overlapped, lent, mishaps, scene, archive>>
      BY <1>4 DEF vars, corpusVars
    <2>2. Overlaps' /\ Own'
      BY <2>1 DEF PlaceInv, Overlaps, Own, InFlight, AtWork, Disturbed
    <2>3. AtHand'
      BY <2>1 DEF PlaceInv, AtHand, Sure, Seen, Vacant, Disturbed, At, Present, Usable
    <2>4. Stored'
      BY <2>1 DEF PlaceInv, Stored, Shared
    <2> QED
      BY <1>1, <2>2, <2>3, <2>4 DEF PlaceInv
  <1> QED
    BY <1>2, <1>3, <1>4 DEF Next

\* What a call has stored is there: no step of any other call, no failure and no
\* death takes a stored content from a row nobody else has written, but where an
\* import has made two documents share a place and something came in between.
THEOREM StoredHolds == Spec => []Stored
  <1>1. Init => PlaceInv
    BY InitPlace
  <1>2. PlaceInv /\ [Next]_vars => PlaceInv'
    BY PlaceInductive
  <1>3. PlaceInv => Stored
    BY DEF PlaceInv
  <1> QED
    BY <1>1, <1>2, <1>3, PTL DEF Spec
-----------------------------------------------------------------------------
(* What a step may never do.                                               *)

\* A call writes no row but the one it has at hand, one it inserts, and the path
\* of one it renames.
LEMMA RowKept ==
    ASSUME TypeInv, NEW i \in Ids, row[i] # Nothing, NEW c \in Calls, call[c].on # i,
           \/ Client(c) \/ Exporting(c) \/ Import(c) \/ Portable(c) \/ Generic(c)
           \/ Store(c) \/ Point(c) \/ Send(c) \/ Fails(c)
    PROVE  row'[i] # Nothing /\ row'[i].hash = row[i].hash /\ row'[i].at = row[i].at
  <1> DEFINE Goal == row'[i] # Nothing /\ row'[i].hash = row[i].hash /\ row'[i].at = row[i].at
  <1> SUFFICES Goal
    OBVIOUS
  <1>1. TypeOK /\ row[i] \in Row /\ i \in used
    BY DEF TypeInv, TypeOK
  <1>2. ASSUME NEW j \in Ids \ {i}, NEW r, SetRow(j, r)
        PROVE  Goal
    BY <1>1, <1>2 DEF SetRow, TypeOK
  <1>3. CASE row' = row
    BY <1>3
  <1> HIDE DEF Goal
  <1>4. CASE Create(c)
    <2>1. PICK p \in Paths : SetRow(NewId, [path |-> p, ref |-> Nothing, hash |-> Nothing, at |-> Nothing])
      BY <1>4 DEF Create, Inserted
    <2>2. NewId \in Ids \ {i}
      BY <1>1, <1>4, NewIdSpare DEF Create
    <2> QED
      BY <1>2, <2>1, <2>2
  <1>5. CASE Rename(c)
    <2>1. PICK j \in Present, p \in Paths : SetRow(j, [row[j] EXCEPT !.path = p])
      BY <1>5 DEF Rename
    <2>2. CASE j # i
      BY <1>2, <2>1, <2>2 DEF Present
    <2>3. CASE j = i
      <3> DEFINE r == [row[i] EXCEPT !.path = p]
      <3>1. r # Nothing /\ r.hash = row[i].hash /\ r.at = row[i].at
        <4>1. r \in Row
          BY <1>1 DEF Row
        <4> QED
          BY <4>1, <1>1, PortableAssumption DEF Row
      <3>2. row'[i] = r
        BY <1>1, <2>1, <2>3 DEF SetRow, TypeOK
      <3> HIDE DEF r
      <3> QED
        BY <3>1, <3>2 DEF Goal
    <2> QED
      BY <2>2, <2>3
  <1>6. CASE Drop(c)
    <2>1. call[c].on \in Ids \ {i}
      BY <1>6 DEF TypeInv, Placed, Ready, Drop
    <2> QED
      BY <1>2, <1>6, <2>1 DEF Drop
  <1>7. CASE Client(c)
    <2>1. CASE Save(c) \/ Delete(c) \/ Erase(c)
      BY <1>3, <2>1 DEF Save, Delete, Erase, corpusVars
    <2> QED
      BY <1>4, <1>5, <1>6, <1>7, <2>1 DEF Client
  <1>8. CASE Exporting(c) \/ Import(c) \/ Send(c) \/ Fails(c) \/ Store(c) \/ Relink(c)
    BY <1>3, <1>8 DEF Exporting, Export, ReadDocument, Exported, Import, Send, Fails, Store, Relink, corpusVars
  <1>9. CASE Point(c)
    <2>1. call[c].on \in Ids \ {i}
      BY <1>9 DEF TypeInv, Placed, Ready, Point
    <2> QED
      BY <1>2, <1>3, <1>9, <2>1 DEF Point
  <1>10. CASE Update(c) \/ Adopt(c)
    <2>1. call[c].on \in Ids \ {i}
      BY <1>10 DEF TypeInv, Placed, Ready, Update, Adopt
    <2>2. row' = row \/ \E r : Upserted(c, r)
      BY <1>10 DEF Update, Adopt, Refused
    <2> QED
      BY <1>2, <1>3, <2>1, <2>2 DEF Upserted
  <1>11. CASE Insert(c)
    <2> DEFINE j == IF call[c].prefer THEN call[c].file.id ELSE NewId
    <2>1. j \in Ids
      <3>1. call[c].file \in File /\ NewId \in Ids
        BY <1>11, NewIdSpare DEF TypeInv, Placed, Ready, Insert
      <3> QED
        BY <3>1 DEF File
    <2>2. row' = row \/ (row[j] = Nothing /\ \E r : SetRow(j, r))
      BY <1>11 DEF Insert, Refused, Inserted
    <2> HIDE DEF j
    <2> QED
      BY <1>2, <1>3, <2>1, <2>2
  <1>12. CASE Portable(c)
    <2>1. CASE (\E f \in call[c].todo : ByRef(c, f)) \/ ByPath(c)
      BY <1>3, <2>1 DEF ByRef, ByPath, corpusVars
    <2> QED
      BY <1>8, <1>10, <1>11, <1>12, <2>1 DEF Portable
  <1>13. CASE Generic(c)
    <2>1. CASE \E f \in call[c].todo : Look(c, f)
      BY <1>3, <2>1 DEF Look, corpusVars
    <2>2. CASE InsertManaged(c)
      <3>1. NewId \in Ids \ {i}
        BY <1>1, <2>2, NewIdSpare DEF InsertManaged
      <3>2. row' = row \/ \E r : SetRow(NewId, r)
        BY <2>2 DEF InsertManaged, Refused, Inserted
      <3> QED
        BY <1>2, <1>3, <3>1, <3>2
    <2> QED
      BY <1>13, <2>1, <2>2 DEF Generic
  <1> QED
    BY <1>7, <1>8, <1>9, <1>12, <1>13

\* No step takes the content of a document that no call is at work on, whatever
\* it does to others, but where an import has made two share a place.
THEOREM UntouchedHolds == Spec => Untouched
  <1>1. ASSUME PlaceInv, [Next]_vars, NEW i \in Ids
        PROVE  Kept(i)
    <2>1. CASE Crash \/ UNCHANGED vars
      BY <2>1 DEF Kept, Crash, vars, corpusVars
    <2>2. ASSUME NEW c \in Calls,
                 \/ Client(c) \/ Exporting(c) \/ Import(c) \/ Portable(c) \/ Generic(c)
                 \/ Store(c) \/ Point(c) \/ Send(c) \/ Fails(c),
                 row[i] # Nothing, row[i].at # Nothing, blob[row[i].at] = row[i].hash,
                 \A d \in Calls : call[d].on # i
          PROVE  /\ row'[i] # Nothing /\ row'[i].hash = row[i].hash /\ row'[i].at = row[i].at
                 /\ blob'[row[i].at] = row[i].hash \/ Shared(i)'
      <3>1. TypeInv /\ TypeOK /\ Overlaps /\ Own /\ Moves(c) /\ Marks(c)
        BY <1>1, <2>2, StepLocal DEF PlaceInv, TypeInv
      <3>2. row'[i] # Nothing /\ row'[i].hash = row[i].hash /\ row'[i].at = row[i].at
        BY <2>2, <3>1, RowKept
      <3>3. blob'[row[i].at] = blob[row[i].at] \/ (row[i].at \in lent' /\ Disturbed')
        BY <2>2, <3>1, BlobKept
      <3>4. row[i].at \in lent' /\ Disturbed' => Shared(i)'
        BY <3>2 DEF Shared, Disturbed
      <3> QED
        BY <2>2, <3>2, <3>3, <3>4
    <2> QED
      BY <1>1, <2>1, <2>2 DEF Next, Kept
  <1>2. Init => PlaceInv
    BY InitPlace
  <1>3. PlaceInv /\ [Next]_vars => PlaceInv'
    BY PlaceInductive
  <1>4. PlaceInv /\ [Next]_vars => [\A i \in Ids : Kept(i)]_vars
    BY <1>1
  <1> QED
    BY <1>2, <1>3, <1>4, PTL DEF Spec, Untouched

LEMMA ErrorExplained ==
    ASSUME PlaceInv, NEW c \in Calls,
           \/ Client(c) \/ Exporting(c) \/ Import(c) \/ Portable(c) \/ Generic(c)
           \/ Store(c) \/ Point(c) \/ Send(c) \/ Fails(c),
           NEW p \in errors'[c] \ errors[c], call[c].kind = "portable", c \notin overlapped
    PROVE  \/ \E f \in archive.files :
                /\ f.path = p
                /\ \/ f.damaged
                   \/ scene.elsewhere[f.id] = "workspace"
                   \/ \E i \in Referring(p) : row[i].path # p /\ At(p) # {}
           \/ mishaps' > mishaps
  <1> DEFINE Goal == \/ \E f \in archive.files :
                          /\ f.path = p
                          /\ \/ f.damaged
                             \/ scene.elsewhere[f.id] = "workspace"
                             \/ \E i \in Referring(p) : row[i].path # p /\ At(p) # {}
                     \/ mishaps' > mishaps
             f == call[c].file
             i == call[c].on
  <1> SUFFICES Goal
    OBVIOUS
  <1>1. /\ TypeOK /\ Rows /\ Ready(c) /\ Archived(c) /\ Sure(c) /\ Seen(c) /\ Vacant(c) /\ Imports(c)
    BY DEF PlaceInv, TypeInv, Placed, AtHand, Sure, Imports
  <1>2. ASSUME f \in File, FileError(c)
        PROVE  f \in archive.files /\ f.path = p
    <2>1. f \in archive.files
      BY <1>1, <1>2, PortableAssumption DEF Archived
    <2>2. errors' = [errors EXCEPT ![c] = errors[c] \cup {f.path}]
      BY <1>2 DEF FileError
    <2>3. errors'[c] = errors[c] \cup {f.path}
      BY <1>1, <2>2 DEF TypeOK
    <2> QED
      BY <2>1, <2>3
  <1>3. CASE Fails(c)
    <2>1. mishaps' = mishaps + 1 /\ mishaps \in Nat
      BY <1>1, <1>3, PortableAssumption DEF Fails, TypeOK
    <2> QED
      BY <2>1
  <1>4. ASSUME NEW g \in call[c].todo, ByRef(c, g)
        PROVE  Goal
    <2>1. g.damaged /\ errors' = [errors EXCEPT ![c] = errors[c] \cup {g.path}]
      BY <1>4 DEF ByRef
    <2>2. errors'[c] = errors[c] \cup {g.path} /\ g \in archive.files
      BY <1>1, <2>1 DEF TypeOK, Archived
    <2> QED
      BY <2>1, <2>2
  <1>5. CASE Update(c)
    <2>1. f \in File /\ i \in Ids /\ row[i] # Nothing /\ row[i].ref = f.path
      BY <1>1, <1>5 DEF Ready, Seen, Update
    <2>2. At(f.path) \ {i} # {} /\ FileError(c)
      BY <1>5, <2>1 DEF Update, Upserted, Refused
    <2>3. f \in archive.files /\ f.path = p
      BY <1>2, <2>1, <2>2
    <2>4. row[i].path # p
      BY <1>1, <2>1, <2>2, <2>3 DEF Rows, At, Present
    <2>5. i \in Referring(p) /\ At(p) # {}
      BY <2>1, <2>2, <2>3 DEF Referring, Present
    <2> HIDE DEF f, i
    <2> QED
      BY <2>3, <2>4, <2>5
  <1>6. CASE Adopt(c)
    <2>1. row[i] # Nothing
      BY <1>1, <1>6 DEF Seen, Adopt
    <2> QED
      BY <1>6, <2>1 DEF Adopt, Upserted
  <1>7. CASE Insert(c)
    <2> DEFINE j == IF call[c].prefer THEN f.id ELSE NewId
    <2>1. f \in File /\ At(f.path) = {} /\ (call[c].prefer => Usable(f.id, f.path)) /\ f.id \in Ids
      BY <1>1, <1>7 DEF Ready, Vacant, Insert, File
    <2>2. row[j] # Nothing \/ scene.elsewhere[j] # "no"
      BY <1>7, <2>1 DEF Insert
    <2>3. call[c].prefer
      <3>1. NewId \in Ids /\ NewId \notin used
        BY <1>7, NewIdSpare DEF Insert
      <3> QED
        BY <1>1, <2>2, <3>1 DEF TypeOK, Rows
    <2>4. row[f.id] = Nothing /\ scene.elsewhere[f.id] \notin {"no", "corpus"}
      BY <1>1, <2>1, <2>2, <2>3 DEF Usable, At, Present
    <2>5. scene.elsewhere[f.id] = "workspace"
      BY <1>1, <2>1, <2>4, PortableAssumption DEF TypeOK
    <2>6. FileError(c)
      BY <1>7, <2>2 DEF Insert, Refused
    <2>7. f \in archive.files /\ f.path = p
      BY <1>2, <2>1, <2>6
    <2> QED
      BY <2>5, <2>7
  <1>8. ASSUME errors' = errors
        PROVE  FALSE
    BY <1>8
  <1>9. CASE Client(c) \/ Exporting(c) \/ Import(c) \/ Send(c) \/ Relink(c) \/ ByPath(c)
    <2>1. errors' = errors
      BY <1>9 DEF Client, Create, Save, Rename, Delete, Erase, Drop, Exporting, Export, ReadDocument,
         Exported, Import, Send, Relink, ByPath
    <2> QED
      BY <1>8, <2>1
  <1>10. CASE Store(c) \/ Point(c)
    <2>1. errors' = errors
      BY <1>10 DEF Store, Point, FileDone
    <2> QED
      BY <1>8, <2>1
  <1>11. CASE Generic(c)
    BY <1>11 DEF Generic, Look, InsertManaged
  <1> HIDE DEF Goal
  <1> QED
    BY <1>3, <1>4, <1>5, <1>6, <1>7, <1>9, <1>10, <1>11 DEF Portable

\* A portable import on its own reports an error for nothing but a damaged file,
\* an id that a row of another workspace has, a document that was renamed while
\* another took its path, and a call that fails.
THEOREM ErrorsExplainedHolds == Spec => ErrorsExplained
  <1> DEFINE Explained(c, p) ==
        \/ \E f \in archive.files :
             /\ f.path = p
             /\ \/ f.damaged
                \/ scene.elsewhere[f.id] = "workspace"
                \/ \E i \in Referring(p) : row[i].path # p /\ At(p) # {}
        \/ mishaps' > mishaps
  <1>1. ASSUME PlaceInv, Next, NEW c \in Calls, NEW p \in errors'[c] \ errors[c],
               call[c].kind = "portable", c \notin overlapped
        PROVE  Explained(c, p)
    <2>1. CASE Crash
      BY <1>1, <2>1 DEF Crash
    <2>2. ASSUME NEW d \in Calls,
                 \/ Client(d) \/ Exporting(d) \/ Import(d) \/ Portable(d) \/ Generic(d)
                 \/ Store(d) \/ Point(d) \/ Send(d) \/ Fails(d)
          PROVE  Explained(c, p)
      <3>1. Moves(d)
        BY <1>1, <2>2, StepLocal
      <3>2. d = c
        BY <1>1, <3>1 DEF Moves
      <3> QED
        BY <1>1, <2>2, <3>2, ErrorExplained
    <2> QED
      BY <1>1, <2>1, <2>2 DEF Next
  <1>2. Init => PlaceInv
    BY InitPlace
  <1>3. PlaceInv /\ [Next]_vars => PlaceInv'
    BY PlaceInductive
  <1>4. PlaceInv /\ [Next]_vars
          => [\A c \in Calls : \A p \in errors'[c] \ errors[c] :
                call[c].kind = "portable" /\ c \notin overlapped => Explained(c, p)]_vars
    BY <1>1
  <1> QED
    BY <1>2, <1>3, <1>4, PTL DEF Spec, ErrorsExplained
-----------------------------------------------------------------------------
(* What a portable import has done when it ends.                           *)

\* No file of the archive is forgotten.
Covered ==
    \A c \in Calls :
        call[c].kind = "portable" /\ call[c].pc \notin {"failed", "crashed"}
          => /\ call[c].pc \in {"jobs", "done"} => call[c].todo = {}
             /\ \A f \in archive.files : \/ f \in call[c].todo \/ f.path \in errors[c]
                                         \/ \E d \in did[c] : d.file = f

\* The document of a file is at its path or was renamed from there.
Named(d) == d.file.path \in {row[d.id].path, row[d.id].ref}

\* Its links lead to the documents of the files they led to.
LinksBack(c, d) ==
    \A l \in archive.links, e \in did[c] :
        l.from = d.file.id /\ l.to = e.file.id => e.id \in links[d.id]

\* What only c wrote, for one file, is done, and stays so after the end.
Done ==
    \A c \in Calls : \A d \in did[c] :
        call[c].kind = "portable" /\ <<c, d.id>> \notin touched
          => /\ Named(d)
             /\ call[c].pc = "done" => d.id \notin owed
             /\ call[c].pc \in {"jobs", "done"} => LinksBack(c, d)

\* What is left of the archive has not been put on a document, and the file at
\* hand is part of it.
Left(c) ==
    /\ \A d \in did[c] : d.file \notin call[c].todo
    /\ call[c].file # Nothing => call[c].file \in call[c].todo
    /\ call[c].pc \in {"file", "jobs"} => call[c].file = Nothing

\* The document of a file has its path, or had it, and its text.
Itself(d) == row[d.id] # Nothing /\ Named(d) /\ row[d.id].hash = d.file.text

\* What an import on its own has put on a document is there, unless another file
\* has taken the document over.
Alone(c) ==
    c \notin overlapped /\ InFlight(c)
      => /\ call[c].pc = "adopt" /\ row[call[c].on] # Nothing
              => row[call[c].on].path = call[c].file.path
         /\ \A d \in did[c] : Itself(d) \/ Overtaken(d)
         /\ call[c].pc = "jobs" => \A d \in did[c] : LinksBack(c, d)

Unmixed == \A c \in Calls : call[c].kind = "portable" => Left(c) /\ Alone(c)

RestoreInv == PlaceInv /\ Covered /\ Done /\ Unmixed

\* What takes a portable import from file to file.
OnFiles(c) == \/ Portable(c) /\ ~Relink(c)
              \/ Store(c) \/ Point(c) \/ Fails(c)

\* A step that goes on with the files of a portable import.
GoesOn(c) ==
    /\ call[c].kind = "portable" /\ InFlight(c) /\ archive' = archive
    /\ call'[c].pc \notin {"jobs", "done"}
    /\ \/ call'[c].pc = "failed"
       \/ \A f \in call[c].todo \ call'[c].todo :
            f.path \in errors'[c] \/ \E d \in did'[c] : d.file = f
    /\ \A d \in did'[c] \ did[c] : <<c, d.id>> \notin touched' => Named(d)'

LEMMA RefusedGoesOn ==
    ASSUME PlaceInv, NEW c \in Calls, call[c].kind = "portable", call[c].file \in File, InFlight(c),
           FileError(c), archive' = archive
    PROVE  GoesOn(c)
  <1>1. TypeInv /\ TypeOK /\ Imports(c)
    BY DEF PlaceInv, TypeInv, Imports
  <1>2. /\ did' = did
        /\ errors' = [errors EXCEPT ![c] = errors[c] \cup {call[c].file.path}]
        /\ Now(c, "file", call[c].kind, Nothing, Nothing, Nothing, Nothing,
               call[c].todo \ {call[c].file})
    BY <1>1, FileErrorMoves
  <1>3. call[c].file.path \in errors'[c]
    BY <1>1, <1>2 DEF TypeOK
  <1> QED
    BY <1>2, <1>3 DEF GoesOn, Now

LEMMA DoneGoesOn ==
    ASSUME PlaceInv, NEW c \in Calls, call[c].kind = "portable", call[c].pc \in {"put", "point"},
           FileDone(c), archive' = archive, touched \subseteq touched',
           row[call[c].on] # Nothing => /\ row'[call[c].on].path = row[call[c].on].path
                                        /\ row'[call[c].on].ref = row[call[c].on].ref
    PROVE  GoesOn(c)
  <1>1. TypeInv /\ TypeOK /\ Imports(c) /\ (Sure(c) => Seen(c))
    BY DEF PlaceInv, TypeInv, Imports, AtHand
  <1>2. /\ did' = [did EXCEPT ![c] = did[c] \cup {[file |-> call[c].file, id |-> call[c].on]}]
        /\ Now(c, IF Imports(c) THEN "file" ELSE "done", call[c].kind, Nothing, Nothing, Nothing,
               Nothing, IF Imports(c) THEN call[c].todo \ {call[c].file} ELSE {})
    BY <1>1, FileDoneMoves
  <1>3. call'[c].pc = "file" /\ call'[c].todo = call[c].todo \ {call[c].file}
    BY <1>1, <1>2 DEF Now
  <1>4. did'[c] = did[c] \cup {[file |-> call[c].file, id |-> call[c].on]}
    BY <1>1, <1>2 DEF TypeOK
  <1>5. \E d \in did'[c] : d.file = call[c].file
    <2> DEFINE e == [file |-> call[c].file, id |-> call[c].on]
    <2>1. e \in did'[c] /\ e.file = call[c].file
      BY <1>4
    <2> QED
      BY <2>1
  <1>6. ASSUME NEW d \in did'[c] \ did[c], <<c, d.id>> \notin touched'
        PROVE  Named(d)'
    <2>1. d.file = call[c].file /\ d.id = call[c].on
      BY <1>4
    <2>2. Sure(c)
      BY <1>6, <2>1 DEF Sure
    <2>3. row[d.id] # Nothing /\ d.file.path \in {row[d.id].path, row[d.id].ref}
      BY <1>1, <2>1, <2>2 DEF Seen
    <2> QED
      BY <2>1, <2>3 DEF Named
  <1> QED
    BY <1>3, <1>5, <1>6 DEF GoesOn, InFlight

\* The same for a step that keeps what is left of the archive.
LEMMA KeepsGoesOn ==
    ASSUME NEW c \in Calls, call[c].kind = "portable", InFlight(c), archive' = archive, did' = did,
           call'[c].pc \notin {"jobs", "done"}, call'[c].todo = call[c].todo
    PROVE  GoesOn(c)
  BY DEF GoesOn

LEMMA PortableGoesOn ==
    ASSUME PlaceInv, NEW c \in Calls, Portable(c), ~Relink(c)
    PROVE  GoesOn(c)
  <1>1. TypeInv /\ TypeOK /\ Placed /\ Ready(c) /\ call[c] \in Call
    BY DEF PlaceInv, TypeInv, Placed, TypeOK
  <1>2. ASSUME NEW f, NEW i \in Present, NEW pc \in {"update", "adopt"}, Found(c, f, i, pc)
        PROVE  call'[c].pc \notin {"jobs", "done"} /\ call'[c].todo = call[c].todo
    BY <1>1, <1>2 DEF Found, FoundFor, TypeOK, Call
  <1>3. ASSUME NEW f \in call[c].todo, ByRef(c, f)
        PROVE  GoesOn(c)
    <2>1. call[c].kind = "portable" /\ InFlight(c) /\ archive' = archive /\ did' = did /\ f \in File
      BY <1>1, <1>3 DEF ByRef, InFlight, Call
    <2>2. CASE /\ errors' = [errors EXCEPT ![c] = errors[c] \cup {f.path}]
               /\ call' = [call EXCEPT ![c].todo = call[c].todo \ {f}]
      <3>1. call'[c].pc = "file" /\ call'[c].todo = call[c].todo \ {f}
        BY <1>1, <1>3, <2>2 DEF ByRef, TypeOK, Call
      <3>2. f.path \in errors'[c]
        BY <1>1, <2>2 DEF TypeOK
      <3> QED
        BY <2>1, <3>1, <3>2 DEF GoesOn
    <2>3. CASE call' = [call EXCEPT ![c] = [call[c] EXCEPT !.pc = "path", !.file = f,
                                                           !.prefer = Usable(f.id, f.path)]]
      <3>1. call'[c].pc = "path" /\ call'[c].todo = call[c].todo
        BY <1>1, <2>3 DEF TypeOK, Call
      <3> QED
        BY <2>1, <3>1, KeepsGoesOn
    <2>4. CASE \E i \in Referring(f.path) : Found(c, f, i, "update")
      <3>1. PICK i \in Present : Found(c, f, i, "update")
        BY <2>4 DEF Referring
      <3> QED
        BY <1>2, <2>1, <3>1, KeepsGoesOn
    <2> QED
      BY <1>3, <2>2, <2>3, <2>4 DEF ByRef
  <1>4. CASE ByPath(c)
    <2> DEFINE f == call[c].file
    <2>1. call[c].kind = "portable" /\ InFlight(c) /\ archive' = archive /\ did' = did
      BY <1>1, <1>4 DEF ByPath, Ready, InFlight
    <2>2. CASE call' = [call EXCEPT ![c].pc = "insert",
                                    ![c].prefer = call[c].prefer /\ Usable(f.id, f.path)]
      <3>1. call'[c].pc = "insert" /\ call'[c].todo = call[c].todo
        BY <1>1, <2>2 DEF TypeOK, Call
      <3> QED
        BY <2>1, <3>1, KeepsGoesOn
    <2>3. CASE \E i \in At(f.path) : Found(c, f, i, "adopt")
      <3>1. PICK i \in Present : Found(c, f, i, "adopt")
        BY <2>3 DEF At
      <3> QED
        BY <1>2, <2>1, <3>1, KeepsGoesOn
    <2> QED
      BY <1>4, <2>2, <2>3 DEF ByPath
  <1>5. CASE Update(c) \/ Adopt(c) \/ Insert(c)
    <2>1. call[c].kind = "portable" /\ InFlight(c) /\ archive' = archive /\ call[c].file \in File
      BY <1>1, <1>5 DEF Update, Adopt, Insert, Ready, InFlight
    <2>2. CASE Refused(c)
      BY <2>1, <2>2, RefusedGoesOn DEF Refused
    <2>3. ASSUME NEW r, Upserted(c, r)
          PROVE  GoesOn(c)
      <3>1. call'[c].pc = "put" /\ call'[c].todo = call[c].todo /\ did' = did
        BY <1>1, <2>3 DEF Upserted, TypeOK, Call
      <3> QED
        BY <2>1, <3>1, KeepsGoesOn
    <2>4. CASE Update(c) \/ Adopt(c)
      BY <2>2, <2>3, <2>4 DEF Update, Adopt
    <2>5. CASE Insert(c)
      <3> DEFINE i == IF call[c].prefer THEN call[c].file.id ELSE NewId
      <3>1. \/ Refused(c)
            \/ /\ did' = did
               /\ call' = [call EXCEPT ![c] = [call[c] EXCEPT !.pc = "put", !.on = i,
                                                 !.at = <<"import", i>>, !.had = Preferred(c)]]
        BY <2>5 DEF Insert
      <3>2. CASE /\ did' = did
                 /\ call' = [call EXCEPT ![c] = [call[c] EXCEPT !.pc = "put", !.on = i,
                                                 !.at = <<"import", i>>, !.had = Preferred(c)]]
        <4>1. call'[c].pc = "put" /\ call'[c].todo = call[c].todo
          BY <1>1, <3>2 DEF TypeOK, Call
        <4> QED
          BY <2>1, <3>2, <4>1, KeepsGoesOn
      <3> QED
        BY <2>2, <3>1, <3>2
    <2> QED
      BY <1>5, <2>4, <2>5
  <1> QED
    BY <1>3, <1>4, <1>5 DEF Portable

LEMMA StoringGoesOn ==
    ASSUME PlaceInv, NEW c \in Calls, Store(c) \/ Point(c), call[c].kind = "portable"
    PROVE  GoesOn(c)
  <1>1. TypeInv /\ TypeOK /\ Placed /\ Ready(c) /\ call[c] \in Call /\ Imports(c) /\ archive' = archive
    BY DEF PlaceInv, TypeInv, Placed, TypeOK, Imports, Store, Point
  <1>2. CASE Store(c)
    <2>1. row' = row /\ touched \subseteq touched' /\ call[c].pc = "put"
      BY <1>2 DEF Store, Wrote
    <2>2. CASE call[c].had = call[c].at
      <3>1. FileDone(c)
        BY <1>2, <2>2 DEF Store
      <3> QED
        BY <1>1, <2>1, <3>1, DoneGoesOn
    <2>3. CASE call[c].had # call[c].at
      <3>1. call' = [call EXCEPT ![c].pc = "point"] /\ did' = did
        BY <1>2, <2>3 DEF Store
      <3>2. call'[c].pc = "point" /\ call'[c].todo = call[c].todo
        BY <1>1, <3>1 DEF TypeOK, Call
      <3> QED
        BY <1>1, <2>1, <3>1, <3>2, KeepsGoesOn DEF InFlight
    <2> QED
      BY <2>2, <2>3
  <1>3. CASE Point(c)
    <2> DEFINE i == call[c].on
    <2>1. FileDone(c) /\ touched \subseteq touched' /\ call[c].pc = "point" /\ i \in Ids
      BY <1>1, <1>3 DEF Point, Wrote, Ready
    <2>2. row[i] # Nothing => row'[i].path = row[i].path /\ row'[i].ref = row[i].ref
      <3> SUFFICES ASSUME row[i] # Nothing
                   PROVE  row'[i].path = row[i].path /\ row'[i].ref = row[i].ref
        OBVIOUS
      <3>1. row' = [row EXCEPT ![i] = [row[i] EXCEPT !.hash = call[c].file.text, !.at = call[c].at]]
        BY <1>3 DEF Point, SetRow
      <3>2. row[i] \in Row
        BY <1>1, <2>1 DEF TypeOK
      <3> QED
        BY <1>1, <2>1, <3>1, <3>2 DEF TypeOK, Row
    <2> QED
      BY <1>1, <2>1, <2>2, DoneGoesOn
  <1> QED
    BY <1>2, <1>3

LEMMA FailsGoesOn ==
    ASSUME PlaceInv, NEW c \in Calls, Fails(c), call[c].kind = "portable"
    PROVE  GoesOn(c)
  <1>1. TypeInv /\ TypeOK /\ Placed /\ Ready(c) /\ call[c] \in Call /\ InFlight(c) /\ archive' = archive
    BY DEF PlaceInv, TypeInv, Placed, TypeOK, Fails
  <1>2. CASE call[c].file # Nothing /\ FileError(c)
    <2>1. call[c].file \in File
      BY <1>1, <1>2 DEF Call
    <2> QED
      BY <1>1, <1>2, <2>1, RefusedGoesOn
  <1>3. CASE Ends(c, "failed") /\ did' = did
    <2>1. Now(c, "failed", call[c].kind, Nothing, Nothing, Nothing, Nothing, {})
      BY <1>1, <1>3, EndsNow DEF Pcs
    <2> QED
      BY <1>1, <1>3, <2>1 DEF GoesOn, Now
  <1>4. call[c].pc # "erase"
    BY <1>1 DEF Ready
  <1> QED
    BY <1>2, <1>3, <1>4 DEF Fails

\* A step of a portable import begins it, goes on with its files, replaces the
\* links or sends the jobs.
LEMMA Continues ==
    ASSUME PlaceInv, NEW c \in Calls, call'[c].kind = "portable",
           \/ Client(c) \/ Exporting(c) \/ Import(c) \/ Portable(c) \/ Generic(c)
           \/ Store(c) \/ Point(c) \/ Send(c) \/ Fails(c)
    PROVE  \/ Import(c) \/ (GoesOn(c) /\ OnFiles(c)) \/ Relink(c)
           \/ Send(c) /\ call[c].pc = "jobs" /\ call[c].kind = "portable"
  <1> DEFINE Goal == \/ Import(c) \/ (GoesOn(c) /\ OnFiles(c)) \/ Relink(c)
                     \/ Send(c) /\ call[c].pc = "jobs" /\ call[c].kind = "portable"
  <1> SUFFICES Goal
    OBVIOUS
  <1>1. TypeInv /\ TypeOK /\ Placed /\ Ready(c) /\ call[c] \in Call /\ Moves(c)
    BY StepLocal DEF PlaceInv, TypeInv, Placed, TypeOK
  <1>2. CASE Import(c)
    BY <1>2
  <1>3. CASE call[c].kind = "portable"
    <2>1. CASE Portable(c)
      BY <2>1, PortableGoesOn DEF OnFiles
    <2>2. CASE Store(c) \/ Point(c)
      BY <1>3, <2>2, StoringGoesOn DEF OnFiles
    <2>3. CASE Fails(c)
      BY <1>3, <2>3, FailsGoesOn DEF OnFiles
    <2>4. CASE Send(c)
      BY <1>3, <2>4 DEF Send
    <2>5. call[c].pc \notin {"idle", "erase", "drop", "read"}
      <3>1. Nothing # "portable" /\ Idle.kind = Nothing
        BY PortableAssumption DEF Kinds, Idle
      <3>2. call[c].pc # "idle"
        BY <1>1, <1>3, <3>1 DEF Ready
      <3>3. call[c].pc \notin {"erase", "drop"}
        BY <1>1, <1>3 DEF Ready
      <3>4. call[c].pc # "read"
        BY <1>1, <1>3 DEF Placed, Archived
      <3> QED
        BY <3>2, <3>3, <3>4
    <2>6. CASE Client(c) \/ Exporting(c)
      BY <2>5, <2>6 DEF Client, Create, Save, Rename, Delete, Erase, Drop, Starts,
         Exporting, Export, ReadDocument, Exported
    <2>7. CASE Generic(c)
      BY <1>3, <2>7 DEF Generic, Look, InsertManaged
    <2> HIDE DEF Goal
    <2> QED
      BY <1>2, <2>1, <2>2, <2>3, <2>4, <2>6, <2>7
  <1>4. CASE call[c].kind # "portable"
    <2>1. ASSUME call'[c].kind = call[c].kind
          PROVE  FALSE
      BY <1>4, <2>1
    <2>2. ASSUME NEW how \in Pcs, Ends(c, how)
          PROVE  FALSE
      BY <1>1, <2>1, <2>2, EndsNow DEF Now
    <2>3. ASSUME NEW pc \in Pcs, call' = [call EXCEPT ![c].pc = pc]
          PROVE  FALSE
      BY <1>1, <2>1, <2>3, StageNow DEF Now
    <2>4. ASSUME NextFile(c)
          PROVE  FALSE
      BY <1>1, <2>1, <2>4, NextFileNow DEF Now
    <2>5. ASSUME NEW kind \in {"create", "save", "generic"}, NEW f, NEW i, NEW place, Put(c, kind, f, i, place)
          PROVE  FALSE
      BY <1>1, <2>5 DEF Put, TypeOK, Call
    <2>6. CASE Create(c) \/ Save(c)
      BY <2>5, <2>6 DEF Create, Save
    <2>7. CASE Rename(c) \/ Drop(c)
      BY <2>2, <2>7 DEF Rename, Drop, Pcs
    <2>8. CASE Delete(c)
      <3>1. PICK i \in Present : call' = [call EXCEPT ![c] = [call[c] EXCEPT !.pc = "erase",
                                            !.kind = "delete", !.on = i, !.at = row[i].at]]
        BY <2>8 DEF Delete
      <3> QED
        BY <1>1, <3>1 DEF TypeOK, Call
    <2>9. CASE Erase(c)
      BY <2>3, <2>9 DEF Erase, Pcs
    <2>10. CASE Export(c)
      <3>1. PICK todo : call' = [call EXCEPT ![c] = [call[c] EXCEPT !.pc = "read",
                                                     !.kind = "export", !.todo = todo]]
        BY <2>10 DEF Export
      <3> QED
        BY <1>1, <3>1 DEF TypeOK, Call
    <2>11. ASSUME NEW f, ReadDocument(c, f)
           PROVE  FALSE
      <3>1. CASE call' = [call EXCEPT ![c].todo = call[c].todo \ {f}]
        BY <1>1, <2>1, <3>1 DEF TypeOK, Call
      <3> QED
        BY <2>2, <2>11, <3>1 DEF ReadDocument, Pcs
    <2>12. CASE Exported(c) \/ Send(c)
      BY <2>2, <2>12 DEF Exported, Send, Pcs
    <2>13. CASE Portable(c)
      <3>1. call[c].kind = "portable"
        BY <1>1, <2>13 DEF Portable, ByRef, ByPath, Update, Adopt, Insert, Relink, Ready
      <3> QED
        BY <1>4, <3>1
    <2>14. ASSUME NEW f, Look(c, f)
           PROVE  FALSE
      <3>1. CASE call' = [call EXCEPT ![c].pc = "insert", ![c].file = f]
        BY <1>1, <2>1, <3>1 DEF TypeOK, Call
      <3>2. CASE call' = [call EXCEPT ![c].todo = call[c].todo \ {f}]
        BY <1>1, <2>1, <3>2 DEF TypeOK, Call
      <3>3. \/ call' = [call EXCEPT ![c].pc = "insert", ![c].file = f]
            \/ call' = [call EXCEPT ![c].todo = call[c].todo \ {f}]
            \/ \E i : Put(c, "generic", f, i, <<"managed", i>>)
        BY <2>14 DEF Look
      <3> QED
        BY <2>5, <3>1, <3>2, <3>3
    <2>15. CASE InsertManaged(c)
      BY <2>4, <2>5, <2>15 DEF InsertManaged, Refused, FileError
    <2>16. ASSUME FileDone(c)
           PROVE  FALSE
      BY <2>2, <2>4, <2>16 DEF FileDone, Pcs
    <2>17. CASE Store(c)
      <3>1. FileDone(c) \/ call' = [call EXCEPT ![c].pc = "point"]
        BY <2>17 DEF Store
      <3> QED
        BY <2>3, <2>16, <3>1 DEF Pcs
    <2>18. CASE Point(c)
      <3>1. FileDone(c) \/ Ends(c, "failed")
        BY <2>18 DEF Point
      <3> QED
        BY <2>2, <2>16, <3>1 DEF Pcs
    <2>19. CASE Fails(c)
      <3>1. NextFile(c) \/ Ends(c, "failed") \/ call' = [call EXCEPT ![c].pc = "drop"]
        BY <2>19 DEF Fails, FileError
      <3> QED
        BY <2>2, <2>3, <2>4, <3>1 DEF Pcs
    <2>20. CASE Client(c) \/ Exporting(c)
      BY <2>6, <2>7, <2>8, <2>9, <2>10, <2>11, <2>12, <2>20 DEF Client, Exporting
    <2>21. CASE Generic(c)
      BY <2>14, <2>15, <2>21 DEF Generic
    <2> HIDE DEF Goal
    <2> QED
      BY <1>2, <2>12, <2>13, <2>17, <2>18, <2>19, <2>20, <2>21
  <1> QED
    BY <1>3, <1>4

\* The calls that do not take the step have covered and done what they had.
LEMMA OthersCovered ==
    ASSUME PlaceInv, Covered, NEW c \in Calls, Moves(c), NEW d \in Calls \ {c},
           call'[d].kind = "portable", call'[d].pc \notin {"failed", "crashed"}
    PROVE  /\ call'[d].pc \in {"jobs", "done"} => call'[d].todo = {}
           /\ \A f \in archive'.files : \/ f \in call'[d].todo \/ f.path \in errors'[d]
                                        \/ \E e \in did'[d] : e.file = f
  <1>1. call'[d] = call[d] /\ did'[d] = did[d] /\ errors'[d] = errors[d]
    BY DEF Moves
  <1>2. archive' = archive
    BY <1>1 DEF Moves, Imports
  <1> QED
    BY <1>1, <1>2 DEF Covered

LEMMA CoveredKept ==
    ASSUME PlaceInv, Covered, NEW c \in Calls, Moves(c),
           call'[c].kind = "portable"
             => \/ Import(c) \/ GoesOn(c) \/ Relink(c)
                \/ Send(c) /\ call[c].pc = "jobs" /\ call[c].kind = "portable"
    PROVE  Covered'
  <1> DEFINE Mine ==
        /\ call'[c].pc \in {"jobs", "done"} => call'[c].todo = {}
        /\ \A f \in archive'.files : \/ f \in call'[c].todo \/ f.path \in errors'[c]
                                     \/ \E e \in did'[c] : e.file = f
  <1>1. SUFFICES ASSUME call'[c].kind = "portable", call'[c].pc \notin {"failed", "crashed"}
                 PROVE  Mine
    BY OthersCovered DEF Covered
  <1>2. /\ TypeOK /\ call[c] \in Call /\ did[c] \subseteq did'[c] /\ errors[c] \subseteq errors'[c]
    BY DEF PlaceInv, TypeInv, TypeOK, Moves
  <1>3. CASE Import(c)
    <2>1. archive' = archive
      BY <1>3 DEF Import
    <2>2. call'[c].pc = "file" /\ call'[c].todo = archive.files
      BY <1>2, <1>3 DEF Import, TypeOK, Call
    <2> QED
      BY <2>1, <2>2
  <1>4. CASE GoesOn(c)
    <2>1. /\ call[c].kind = "portable" /\ call[c].pc \notin {"failed", "crashed"} /\ archive' = archive
          /\ call'[c].pc \notin {"jobs", "done"}
          /\ \A f \in call[c].todo \ call'[c].todo : f.path \in errors'[c] \/ \E d \in did'[c] : d.file = f
      BY <1>1, <1>4 DEF GoesOn, InFlight
    <2> QED
      BY <1>2, <2>1 DEF Covered
  <1>5. CASE Relink(c)
    <2>1. /\ call[c].kind = "portable" /\ call[c].pc = "file" /\ call[c].todo = {} /\ did' = did
          /\ errors' = errors /\ archive' = archive /\ call' = [call EXCEPT ![c].pc = "jobs"]
      BY <1>5 DEF Relink
    <2>2. call'[c].todo = {}
      BY <1>2, <2>1 DEF TypeOK, Call
    <2> QED
      BY <2>1, <2>2 DEF Covered
  <1>6. CASE Send(c) /\ call[c].pc = "jobs" /\ call[c].kind = "portable"
    <2>1. Ends(c, "done") /\ did' = did /\ errors' = errors /\ archive' = archive
      BY <1>6 DEF Send
    <2>2. call'[c].todo = {}
      BY <1>2, <2>1, EndsNow DEF Pcs, Now
    <2>3. call[c].todo = {}
      BY <1>6 DEF Covered
    <2> QED
      BY <1>6, <2>1, <2>2, <2>3 DEF Covered
  <1> QED
    BY <1>1, <1>3, <1>4, <1>5, <1>6

\* What a call has stored stays as it is, as far as no other call writes it.
LEMMA DoneStays ==
    ASSUME PlaceInv, Done, NEW c \in Calls, Moves(c), Marks(c), NEW d \in Calls, NEW e \in did[d],
           call[d].kind = "portable", <<d, e.id>> \notin touched'
    PROVE  /\ <<d, e.id>> \notin touched /\ row'[e.id] = row[e.id] /\ Named(e)'
           /\ e.id \in owed' => e.id \in owed
           /\ d # c => links'[e.id] = links[e.id]
  <1>1. e.id \in Ids
    BY DEF PlaceInv, TypeInv, TypeOK
  <1>2. d \in Concerned(c, e.id)
    BY DEF Concerned
  <1>3. <<d, e.id>> \notin touched
    BY <1>1 DEF Marks
  <1>4. row'[e.id] = row[e.id] /\ e.id \notin owed' \ owed
    BY <1>1, <1>2 DEF Marks
  <1>5. d # c => links'[e.id] = links[e.id]
    BY <1>1, <1>2 DEF Marks
  <1>6. Named(e)'
    BY <1>3, <1>4 DEF Done, Named
  <1> QED
    BY <1>3, <1>4, <1>5, <1>6

LEMMA RelinkDone ==
    ASSUME PlaceInv, NEW c \in Calls, Relink(c), NEW d \in did[c]
    PROVE  LinksBack(c, d)'
  <1>1. /\ TypeOK /\ did' = did /\ archive' = archive /\ Relinked(c, Linked(c), {})
    BY DEF PlaceInv, TypeInv, Relink
  <1>2. SUFFICES ASSUME NEW l \in archive.links, NEW e \in did[c], l.from = d.file.id, l.to = e.file.id
                 PROVE  e.id \in links'[d.id]
    BY <1>1 DEF LinksBack
  <1>3. d.id \in NodeOf(c, l.from) /\ e.id \in NodeOf(c, l.to)
    BY <1>2 DEF NodeOf
  <1>4. e.id \in Target(c, l)
    BY <1>3 DEF Target
  <1>5. d.id \in Ids /\ d.id \in Linked(c)
    BY <1>1, <1>3 DEF TypeOK, Linked
  <1>6. links'[d.id] = UNION {Target(c, k) : k \in {m \in archive.links : d.id \in NodeOf(c, m.from)}}
    BY <1>1, <1>5 DEF Relinked
  <1>7. l \in {m \in archive.links : d.id \in NodeOf(c, m.from)}
    BY <1>3
  <1> QED
    BY <1>4, <1>6, <1>7

LEMMA DoneKept ==
    ASSUME PlaceInv, Done, NEW c \in Calls, Moves(c), Marks(c),
           call'[c].kind = "portable"
             => \/ Import(c) \/ GoesOn(c) \/ Relink(c)
                \/ Send(c) /\ call[c].pc = "jobs" /\ call[c].kind = "portable"
    PROVE  Done'
  <1> SUFFICES ASSUME NEW d \in Calls, NEW e \in did'[d], call'[d].kind = "portable",
                      <<d, e.id>> \notin touched'
               PROVE  /\ Named(e)'
                      /\ call'[d].pc = "done" => e.id \notin owed'
                      /\ call'[d].pc \in {"jobs", "done"} => LinksBack(d, e)'
    BY DEF Done
  <1>1. TypeOK
    BY DEF PlaceInv, TypeInv
  <1>2. CASE d # c
    <2>1. call'[d] = call[d] /\ did'[d] = did[d] /\ archive' = archive
      BY <1>2 DEF Moves, Imports
    <2>2. /\ <<d, e.id>> \notin touched /\ Named(e)' /\ links'[e.id] = links[e.id]
          /\ e.id \in owed' => e.id \in owed
      BY <1>2, <2>1, DoneStays
    <2>3. call[d].pc = "done" => e.id \notin owed
      BY <2>1, <2>2 DEF Done
    <2>4. call[d].pc \in {"jobs", "done"} => LinksBack(d, e)
      BY <2>1, <2>2 DEF Done
    <2> QED
      BY <2>1, <2>2, <2>3, <2>4 DEF LinksBack
  <1>3. CASE d = c /\ Import(c)
    <2>1. did'[c] = {}
      BY <1>3 DEF Import, Starts, PlaceInv, TypeInv, Placed, Ready
    <2> QED
      BY <1>3, <2>1
  <1>4. CASE d = c /\ GoesOn(c)
    <2>1. call'[c].pc \notin {"jobs", "done"} /\ call[c].kind = "portable"
      BY <1>4 DEF GoesOn
    <2>2. CASE e \in did[c]
      BY <1>4, <2>1, <2>2, DoneStays
    <2>3. CASE e \notin did[c]
      BY <1>4, <2>1, <2>3 DEF GoesOn
    <2> QED
      BY <2>2, <2>3
  <1>5. CASE d = c /\ Relink(c)
    <2>1. did' = did /\ call[c].kind = "portable" /\ call'[c].pc = "jobs"
      BY <1>1, <1>5 DEF Relink, TypeOK, Call
    <2>2. Named(e)'
      BY <1>5, <2>1, DoneStays
    <2> QED
      BY <1>5, <2>1, <2>2, RelinkDone
  <1>6. CASE d = c /\ Send(c) /\ call[c].pc = "jobs" /\ call[c].kind = "portable"
    <2>1. did' = did /\ owed' = owed \ SentTo(c) /\ links' = links /\ archive' = archive
      BY <1>6 DEF Send
    <2>2. <<c, e.id>> \notin touched /\ Named(e)'
      BY <1>6, <2>1, DoneStays
    <2>3. e.id \notin owed'
      BY <1>6, <2>1 DEF SentTo
    <2>4. LinksBack(c, e)
      BY <1>6, <2>1, <2>2 DEF Done
    <2> QED
      BY <1>6, <2>1, <2>2, <2>3, <2>4 DEF LinksBack
  <1> QED
    BY <1>2, <1>3, <1>4, <1>5, <1>6

LEMMA CrashRestored ==
    ASSUME PlaceInv, Covered, Done, Crash
    PROVE  Covered' /\ Done'
  <1>1. /\ TypeOK /\ UNCHANGED <<row, links, owed, archive, did, errors, touched>>
        /\ call' = [c \in Calls |-> IF InFlight(c) THEN Ended(c, "crashed") ELSE call[c]]
    BY DEF PlaceInv, TypeInv, Crash, corpusVars
  <1>2. \A c \in Calls : call'[c].kind = call[c].kind
                         /\ (call'[c].pc = "crashed" \/ call'[c] = call[c])
    BY <1>1 DEF Ended, Idle
  <1>3. Covered'
    BY <1>1, <1>2 DEF Covered
  <1>4. Done'
    <2> SUFFICES ASSUME NEW c \in Calls, NEW d \in did[c], call[c].kind = "portable",
                        <<c, d.id>> \notin touched
                 PROVE  /\ Named(d)'
                        /\ call'[c].pc = "done" => d.id \notin owed'
                        /\ call'[c].pc \in {"jobs", "done"} => LinksBack(c, d)'
      BY <1>1, <1>2 DEF Done
    <2>1. Named(d)'
      BY <1>1 DEF Done, Named
    <2>2. call'[c].pc = "done" => d.id \notin owed'
      BY <1>1, <1>2 DEF Done
    <2>3. call'[c].pc \in {"jobs", "done"} => LinksBack(c, d)
      BY <1>1, <1>2 DEF Done
    <2> QED
      BY <1>1, <2>1, <2>2, <2>3 DEF LinksBack
  <1> QED
    BY <1>3, <1>4

\* Where a step of a portable import leaves its file at hand.
Proceeds(c) ==
    \/ /\ did'[c] = did[c] /\ call'[c].todo = call[c].todo /\ call'[c].pc \notin {"file", "jobs"}
       /\ call'[c].file \in call[c].todo
    \/ /\ did'[c] = did[c] /\ call'[c].todo \subseteq call[c].todo /\ call'[c].file = Nothing
    \/ /\ did'[c] = did[c] \cup {[file |-> call[c].file, id |-> call[c].on]}
       /\ call'[c].todo = call[c].todo \ {call[c].file} /\ call'[c].file = Nothing

LEMMA ProceedsLeft ==
    ASSUME NEW c \in Calls, Left(c), Proceeds(c), Nothing \notin call[c].todo
    PROVE  Left(c)'
  <1>1. \A d \in did'[c] : d.file \notin call'[c].todo
    BY DEF Left, Proceeds
  <1> QED
    BY <1>1 DEF Left, Proceeds

LEMMA OnFilesLeft ==
    ASSUME PlaceInv, NEW c \in Calls, call[c].kind = "portable", Left(c), OnFiles(c)
    PROVE  Left(c)'
  <1>1. /\ TypeInv /\ TypeOK /\ Placed /\ Ready(c) /\ call[c] \in Call /\ Imports(c)
        /\ Nothing \notin call[c].todo
    BY PortableAssumption DEF PlaceInv, TypeInv, Placed, TypeOK, Imports, Call
  <1> SUFFICES Proceeds(c)
    BY <1>1, ProceedsLeft
  <1>2. ASSUME NEW f \in call[c].todo, NEW i \in Present, NEW pc \in {"update", "adopt"},
               Found(c, f, i, pc), did' = did
        PROVE  Proceeds(c)
    <2>1. f \in File
      BY <1>1 DEF Call
    <2>2. Now(c, IF row[i].hash = f.text THEN "put" ELSE pc, call[c].kind, f, i,
              <<"import", i>>, row[i].at, call[c].todo)
      BY <1>1, <1>2, <2>1, FoundNow DEF Pcs
    <2> QED
      BY <1>2, <2>2 DEF Now, Proceeds
  <1>3. ASSUME NEW pc \in {"put", "point", "insert"}, call'[c].pc = pc, call'[c].file = call[c].file,
               call'[c].todo = call[c].todo, did' = did, call[c].file \in File
        PROVE  Proceeds(c)
    BY <1>3, PortableAssumption DEF Left, Proceeds
  <1>4. ASSUME call[c].file \in File, InFlight(c), FileError(c), archive' = archive
        PROVE  Proceeds(c)
    <2>1. /\ did' = did
          /\ Now(c, "file", call[c].kind, Nothing, Nothing, Nothing, Nothing,
                 call[c].todo \ {call[c].file})
      BY <1>1, <1>4, FileErrorMoves
    <2> QED
      BY <2>1 DEF Now, Proceeds
  <1>5. ASSUME call[c].pc \in {"put", "point"}, FileDone(c), archive' = archive
        PROVE  Proceeds(c)
    <2>1. /\ did' = [did EXCEPT ![c] = did[c] \cup {[file |-> call[c].file, id |-> call[c].on]}]
          /\ Now(c, IF Imports(c) THEN "file" ELSE "done", call[c].kind, Nothing, Nothing, Nothing,
                 Nothing, IF Imports(c) THEN call[c].todo \ {call[c].file} ELSE {})
      BY <1>1, <1>5, FileDoneMoves
    <2>2. did'[c] = did[c] \cup {[file |-> call[c].file, id |-> call[c].on]}
      BY <1>1, <2>1 DEF TypeOK
    <2> QED
      BY <1>1, <2>1, <2>2 DEF Now, Proceeds
  <1>6. ASSUME NEW f \in call[c].todo, ByRef(c, f)
        PROVE  Proceeds(c)
    <2>1. did' = did /\ call[c].pc = "file" /\ call[c].file = Nothing
      BY <1>6 DEF ByRef, Left
    <2>2. CASE call' = [call EXCEPT ![c].todo = call[c].todo \ {f}]
      <3>1. call'[c].todo = call[c].todo \ {f} /\ call'[c].file = call[c].file
        BY <1>1, <2>2 DEF TypeOK, Call
      <3> QED
        BY <2>1, <3>1 DEF Proceeds
    <2>3. CASE call' = [call EXCEPT ![c] = [call[c] EXCEPT !.pc = "path", !.file = f,
                                                           !.prefer = Usable(f.id, f.path)]]
      <3>1. call'[c].pc = "path" /\ call'[c].todo = call[c].todo /\ call'[c].file = f
        BY <1>1, <2>3 DEF TypeOK, Call
      <3> QED
        BY <2>1, <3>1 DEF Proceeds
    <2>4. CASE \E i \in Referring(f.path) : Found(c, f, i, "update")
      BY <1>2, <2>1, <2>4 DEF Referring
    <2> QED
      BY <1>6, <2>2, <2>3, <2>4 DEF ByRef
  <1>7. CASE ByPath(c)
    <2> DEFINE f == call[c].file
    <2>1. did' = did /\ call[c].pc = "path" /\ f \in File /\ f \in call[c].todo
      BY <1>1, <1>7, PortableAssumption DEF ByPath, Ready, Left
    <2>2. CASE call' = [call EXCEPT ![c].pc = "insert",
                                    ![c].prefer = call[c].prefer /\ Usable(f.id, f.path)]
      <3>1. call'[c].pc = "insert" /\ call'[c].todo = call[c].todo /\ call'[c].file = f
        BY <1>1, <2>2 DEF TypeOK, Call
      <3> QED
        BY <1>3, <2>1, <3>1
    <2>3. CASE \E i \in At(f.path) : Found(c, f, i, "adopt")
      BY <1>2, <2>1, <2>3 DEF At
    <2> QED
      BY <1>7, <2>2, <2>3 DEF ByPath
  <1>8. CASE Update(c) \/ Adopt(c) \/ Insert(c)
    <2>1. InFlight(c) /\ archive' = archive /\ call[c].file \in File
      BY <1>1, <1>8 DEF Update, Adopt, Insert, Ready, InFlight
    <2>2. CASE Refused(c)
      BY <1>4, <2>1, <2>2 DEF Refused
    <2>3. ASSUME NEW r, Upserted(c, r)
          PROVE  Proceeds(c)
      <3>1. /\ call'[c].pc = "put" /\ call'[c].todo = call[c].todo /\ did' = did
            /\ call'[c].file = call[c].file
        BY <1>1, <2>3 DEF Upserted, TypeOK, Call
      <3> QED
        BY <1>3, <2>1, <3>1
    <2>4. CASE Update(c) \/ Adopt(c)
      BY <2>2, <2>3, <2>4 DEF Update, Adopt
    <2>5. CASE Insert(c)
      <3> DEFINE i == IF call[c].prefer THEN call[c].file.id ELSE NewId
      <3>1. \/ Refused(c)
            \/ /\ did' = did
               /\ call' = [call EXCEPT ![c] = [call[c] EXCEPT !.pc = "put", !.on = i,
                                                 !.at = <<"import", i>>, !.had = Preferred(c)]]
        BY <2>5 DEF Insert
      <3>2. CASE /\ did' = did
                 /\ call' = [call EXCEPT ![c] = [call[c] EXCEPT !.pc = "put", !.on = i,
                                                 !.at = <<"import", i>>, !.had = Preferred(c)]]
        <4>1. /\ call'[c].pc = "put" /\ call'[c].todo = call[c].todo
              /\ call'[c].file = call[c].file
          BY <1>1, <3>2 DEF TypeOK, Call
        <4> QED
          BY <1>3, <2>1, <3>2, <4>1
      <3> QED
        BY <2>2, <3>1, <3>2
    <2> QED
      BY <1>8, <2>4, <2>5
  <1>9. CASE Store(c)
    <2>1. call[c].pc = "put" /\ archive' = archive /\ call[c].file \in File
      BY <1>1, <1>9 DEF Store, Ready
    <2>2. CASE call[c].had = call[c].at
      BY <1>5, <1>9, <2>1, <2>2 DEF Store
    <2>3. CASE call[c].had # call[c].at
      <3>1. call' = [call EXCEPT ![c].pc = "point"] /\ did' = did
        BY <1>9, <2>3 DEF Store
      <3>2. /\ call'[c].pc = "point" /\ call'[c].todo = call[c].todo
            /\ call'[c].file = call[c].file
        BY <1>1, <3>1 DEF TypeOK, Call
      <3> QED
        BY <1>3, <2>1, <3>1, <3>2
    <2> QED
      BY <2>2, <2>3
  <1>10. CASE Point(c)
    <2>1. call[c].pc = "point" /\ archive' = archive /\ FileDone(c)
      BY <1>1, <1>10 DEF Point
    <2> QED
      BY <1>5, <2>1
  <1>11. CASE Fails(c)
    <2>1. InFlight(c) /\ archive' = archive
      BY <1>11 DEF Fails
    <2>2. CASE call[c].file # Nothing /\ FileError(c)
      <3>1. call[c].file \in File
        BY <1>1, <2>2 DEF Call
      <3> QED
        BY <1>4, <2>1, <2>2, <3>1
    <2>3. CASE Ends(c, "failed") /\ did' = did
      <3>1. Now(c, "failed", call[c].kind, Nothing, Nothing, Nothing, Nothing, {})
        BY <1>1, <2>3, EndsNow DEF Pcs
      <3> QED
        BY <2>3, <3>1 DEF Now, Proceeds
    <2>4. call[c].pc # "erase"
      BY <1>1 DEF Ready
    <2> QED
      BY <1>11, <2>2, <2>3, <2>4 DEF Fails
  <1> QED
    BY <1>6, <1>7, <1>8, <1>9, <1>10, <1>11 DEF OnFiles, Portable

\* What a step of a portable import on its own does to rows: it may give one to
\* the file at hand, which has the path and the reference then.
Turned(c) ==
    LET f == call[c].file
    IN  /\ \A i \in Ids :
             \/ row'[i] = row[i]
             \/ /\ f \in call[c].todo /\ row'[i] # Nothing
                /\ row'[i].path = f.path /\ row'[i].ref = f.path
             \/ /\ row[i] # Nothing /\ row'[i] # Nothing /\ row'[i].path = row[i].path
                /\ row'[i].ref = row[i].ref /\ row'[i].hash = row[i].hash
        /\ \A d \in did'[c] \ did[c] : Itself(d)'
        /\ call'[c].pc = "adopt" => row' = row /\ row[call'[c].on].path = call'[c].file.path

LEMMA FileDoneTurned ==
    ASSUME PlaceInv, NEW c \in Calls, call[c].kind = "portable", call[c].pc \in {"put", "point"},
           c \notin overlapped, FileDone(c), archive' = archive,
           \A i \in Ids : \/ row'[i] = row[i]
                          \/ /\ row[i] # Nothing /\ row'[i] # Nothing /\ row'[i].path = row[i].path
                             /\ row'[i].ref = row[i].ref /\ row'[i].hash = row[i].hash
    PROVE  Turned(c)
  <1>1. /\ TypeInv /\ TypeOK /\ Ready(c) /\ Imports(c) /\ Seen(c)
        /\ call[c].on \in Ids
    BY DEF PlaceInv, TypeInv, Placed, Imports, AtHand, Sure, Ready
  <1>2. /\ did' = [did EXCEPT ![c] = did[c] \cup {[file |-> call[c].file, id |-> call[c].on]}]
        /\ Now(c, IF Imports(c) THEN "file" ELSE "done", call[c].kind, Nothing, Nothing, Nothing,
               Nothing, IF Imports(c) THEN call[c].todo \ {call[c].file} ELSE {})
    BY <1>1, FileDoneMoves
  <1>3. did'[c] = did[c] \cup {[file |-> call[c].file, id |-> call[c].on]}
    BY <1>1, <1>2 DEF TypeOK
  <1>4. call'[c].pc = "file"
    BY <1>1, <1>2 DEF Now
  <1>5. ASSUME NEW d \in did'[c] \ did[c]
        PROVE  Itself(d)'
    <2>1. d.file = call[c].file /\ d.id = call[c].on
      BY <1>3
    <2>2. /\ row[d.id] # Nothing /\ d.file.path \in {row[d.id].path, row[d.id].ref}
          /\ row[d.id].hash = d.file.text
      BY <1>1, <2>1 DEF Seen
    <2>3. /\ row'[d.id] # Nothing /\ row'[d.id].path = row[d.id].path
          /\ row'[d.id].ref = row[d.id].ref /\ row'[d.id].hash = row[d.id].hash
      BY <1>1, <2>1, <2>2
    <2> QED
      BY <2>2, <2>3 DEF Itself, Named
  <1> QED
    BY <1>4, <1>5 DEF Turned

LEMMA OnFilesTurned ==
    ASSUME PlaceInv, NEW c \in Calls, call[c].kind = "portable", Left(c), Alone(c),
           c \notin overlapped, OnFiles(c)
    PROVE  Turned(c)
  <1>1. /\ TypeInv /\ TypeOK /\ Placed /\ Ready(c) /\ call[c] \in Call /\ Imports(c) /\ Seen(c)
    BY DEF PlaceInv, TypeInv, Placed, TypeOK, Imports, AtHand, Sure
  <1>2. ASSUME row' = row, did' = did, call'[c].pc # "adopt"
        PROVE  Turned(c)
    BY <1>2 DEF Turned
  <1>3. ASSUME call[c].file \in File, FileError(c), archive' = archive, row' = row
        PROVE  Turned(c)
    <2>1. /\ did' = did
          /\ Now(c, "file", call[c].kind, Nothing, Nothing, Nothing, Nothing,
                 call[c].todo \ {call[c].file})
      BY <1>1, <1>3, FileErrorMoves
    <2> QED
      BY <1>2, <1>3, <2>1 DEF Now
  <1>4. ASSUME NEW f \in call[c].todo, ByRef(c, f)
        PROVE  Turned(c)
    <2>1. did' = did /\ row' = row /\ call[c].pc = "file" /\ f \in File
      BY <1>1, <1>4 DEF ByRef, corpusVars, Call
    <2>2. CASE call' = [call EXCEPT ![c].todo = call[c].todo \ {f}]
      <3>1. call'[c].pc = "file"
        BY <1>1, <2>1, <2>2 DEF TypeOK, Call
      <3> QED
        BY <1>2, <2>1, <3>1
    <2>3. CASE call' = [call EXCEPT ![c] = [call[c] EXCEPT !.pc = "path", !.file = f,
                                                           !.prefer = Usable(f.id, f.path)]]
      <3>1. call'[c].pc = "path"
        BY <1>1, <2>3 DEF TypeOK, Call
      <3> QED
        BY <1>2, <2>1, <3>1
    <2>4. CASE \E i \in Referring(f.path) : Found(c, f, i, "update")
      <3>1. PICK i \in Present : Found(c, f, i, "update")
        BY <2>4 DEF Referring
      <3>2. Now(c, IF row[i].hash = f.text THEN "put" ELSE "update", call[c].kind, f, i,
                <<"import", i>>, row[i].at, call[c].todo)
        BY <1>1, <2>1, <3>1, FoundNow DEF Pcs
      <3> QED
        BY <1>2, <2>1, <3>2 DEF Now
    <2> QED
      BY <1>4, <2>2, <2>3, <2>4 DEF ByRef
  <1>5. CASE ByPath(c)
    <2> DEFINE f == call[c].file
    <2>1. did' = did /\ row' = row /\ call[c].pc = "path" /\ f \in File
      BY <1>1, <1>5 DEF ByPath, Ready, corpusVars
    <2>2. CASE call' = [call EXCEPT ![c].pc = "insert",
                                    ![c].prefer = call[c].prefer /\ Usable(f.id, f.path)]
      <3>1. call'[c].pc = "insert"
        BY <1>1, <2>2 DEF TypeOK, Call
      <3> QED
        BY <1>2, <2>1, <3>1
    <2>3. CASE \E i \in At(f.path) : Found(c, f, i, "adopt")
      <3>1. PICK i \in At(f.path) : Found(c, f, i, "adopt")
        BY <2>3
      <3>2. i \in Present /\ row[i].path = f.path
        BY <3>1 DEF At
      <3>3. Now(c, IF row[i].hash = f.text THEN "put" ELSE "adopt", call[c].kind, f, i,
                <<"import", i>>, row[i].at, call[c].todo)
        BY <1>1, <2>1, <3>1, <3>2, FoundNow DEF Pcs
      <3>4. call'[c].on = i /\ call'[c].file = f
        BY <3>3 DEF Now
      <3> QED
        BY <2>1, <3>2, <3>4 DEF Turned
    <2> QED
      BY <1>5, <2>2, <2>3 DEF ByPath
  <1>6. ASSUME NEW i \in Ids, NEW r, row' = [row EXCEPT ![i] = r], r # Nothing,
               r.path = call[c].file.path, r.ref = call[c].file.path, call[c].file \in File,
               did' = did, call'[c].pc = "put"
        PROVE  Turned(c)
    <2>1. call[c].file \in call[c].todo
      BY <1>6, PortableAssumption DEF Left
    <2>2. row'[i] = r /\ \A j \in Ids \ {i} : row'[j] = row[j]
      BY <1>1, <1>6 DEF TypeOK
    <2> QED
      BY <1>6, <2>1, <2>2 DEF Turned
  <1>7. CASE Update(c) \/ Adopt(c)
    <2> DEFINE f == call[c].file
               i == call[c].on
    <2>1. /\ f \in File /\ i \in Ids /\ archive' = archive /\ InFlight(c)
          /\ f.path \in Paths /\ f.text \in Texts /\ Preferred(c) \in Places
      BY <1>1, <1>7 DEF Update, Adopt, Ready, InFlight, File, Preferred, Places
    <2>2. CASE Refused(c)
      BY <1>3, <2>1, <2>2 DEF Refused
    <2>3. ASSUME NEW r \in Row, r.path = f.path, r.ref = f.path, Upserted(c, r)
          PROVE  Turned(c)
      <3> DEFINE s == [r EXCEPT !.hash = f.text, !.at = Preferred(c)]
      <3>1. row' = [row EXCEPT ![i] = s] /\ did' = did
        BY <2>3 DEF Upserted, SetRow
      <3>2. call'[c].pc = "put"
        BY <1>1, <2>3 DEF Upserted, TypeOK, Call
      <3>3. s \in Row /\ s.path = f.path /\ s.ref = f.path
        BY <2>1, <2>3 DEF Row
      <3>4. s # Nothing
        BY <3>3, PortableAssumption
      <3> HIDE DEF s, i
      <3> QED
        BY <1>6, <2>1, <3>1, <3>2, <3>3, <3>4
    <2>4. CASE Update(c)
      <3>1. CASE Upserted(c, [row[i] EXCEPT !.path = f.path]) /\ row[i] # Nothing
        <4>1. row[i] \in Row /\ row[i].ref = f.path
          BY <1>1, <2>1, <2>4, <3>1 DEF TypeOK, Seen, Update
        <4> DEFINE r == [row[i] EXCEPT !.path = f.path]
        <4>2. r \in Row /\ r.path = f.path /\ r.ref = f.path
          BY <2>1, <4>1 DEF Row
        <4> QED
          BY <2>3, <3>1, <4>2
      <3> QED
        BY <2>2, <2>4, <3>1 DEF Update
    <2>5. CASE Adopt(c)
      <3>1. CASE Upserted(c, [row[i] EXCEPT !.ref = f.path]) /\ row[i] # Nothing
        <4>1. row[i] \in Row /\ row[i].path = f.path
          BY <1>1, <2>1, <2>5, <3>1 DEF TypeOK, Alone, Adopt
        <4> DEFINE r == [row[i] EXCEPT !.ref = f.path]
        <4>2. r \in Row /\ r.path = f.path /\ r.ref = f.path
          BY <2>1, <4>1 DEF Row
        <4> QED
          BY <2>3, <3>1, <4>2
      <3> QED
        BY <2>2, <2>5, <3>1 DEF Adopt
    <2> QED
      BY <1>7, <2>4, <2>5
  <1>8. CASE Insert(c)
    <2> DEFINE f == call[c].file
               i == IF call[c].prefer THEN f.id ELSE NewId
               r == [path |-> f.path, ref |-> f.path, hash |-> f.text, at |-> Preferred(c)]
    <2>1. /\ f \in File /\ archive' = archive /\ InFlight(c) /\ f.id \in Ids
          /\ f.path \in Paths /\ f.text \in Texts /\ Preferred(c) \in Places
      BY <1>1, <1>8 DEF Insert, Ready, InFlight, File, Preferred, Places
    <2>2. CASE Refused(c)
      BY <1>3, <2>1, <2>2 DEF Refused
    <2>3. CASE ~Refused(c)
      <3>1. /\ row' = [row EXCEPT ![i] = r] /\ did' = did
            /\ call' = [call EXCEPT ![c] = [call[c] EXCEPT !.pc = "put", !.on = i,
                                              !.at = <<"import", i>>, !.had = Preferred(c)]]
        BY <1>8, <2>3 DEF Insert, Inserted, SetRow
      <3>2. call'[c].pc = "put"
        BY <1>1, <3>1 DEF TypeOK, Call
      <3>3. i \in Ids
        BY <1>8, <2>1, NewIdSpare DEF Insert
      <3>4. r \in Row /\ r.path = f.path /\ r.ref = f.path
        BY <2>1 DEF Row
      <3>5. r # Nothing
        BY <3>4, PortableAssumption
      <3> HIDE DEF i, r
      <3> QED
        BY <1>6, <2>1, <3>1, <3>2, <3>3, <3>4, <3>5
    <2> QED
      BY <2>2, <2>3
  <1>9. CASE Store(c)
    <2>1. call[c].pc = "put" /\ archive' = archive /\ row' = row
      BY <1>9 DEF Store
    <2>2. CASE call[c].had = call[c].at
      <3>1. FileDone(c)
        BY <1>9, <2>2 DEF Store
      <3> QED
        BY <2>1, <3>1, FileDoneTurned
    <2>3. CASE call[c].had # call[c].at
      <3>1. call' = [call EXCEPT ![c].pc = "point"] /\ did' = did
        BY <1>9, <2>3 DEF Store
      <3>2. call'[c].pc = "point"
        BY <1>1, <3>1 DEF TypeOK, Call
      <3> QED
        BY <1>2, <2>1, <3>1, <3>2
    <2> QED
      BY <2>2, <2>3
  <1>10. CASE Point(c)
    <2> DEFINE i == call[c].on
    <2>1. /\ FileDone(c) /\ call[c].pc = "point" /\ i \in Ids /\ archive' = archive
          /\ call[c].file \in File /\ call[c].at \in Places
      BY <1>1, <1>10 DEF Point, Ready
    <2>2. /\ row[i] # Nothing /\ row[i].hash = call[c].file.text
      BY <1>1, <2>1 DEF Seen
    <2>3. row' = [row EXCEPT ![i] = [row[i] EXCEPT !.hash = call[c].file.text, !.at = call[c].at]]
      BY <1>10, <2>2 DEF Point, SetRow
    <2>4. row[i] \in Row
      BY <1>1, <2>1, <2>2 DEF TypeOK
    <2> DEFINE r == [row[i] EXCEPT !.hash = call[c].file.text, !.at = call[c].at]
    <2>5. r \in Row /\ r.path = row[i].path /\ r.ref = row[i].ref /\ r.hash = row[i].hash
      BY <2>1, <2>2, <2>4 DEF Row, File
    <2>6. r # Nothing
      BY <2>5, PortableAssumption
    <2> HIDE DEF r
    <2>7. row'[i] = r /\ \A j \in Ids \ {i} : row'[j] = row[j]
      BY <1>1, <2>1, <2>3 DEF TypeOK, r
    <2>8. \A j \in Ids : \/ row'[j] = row[j]
                         \/ /\ row[j] # Nothing /\ row'[j] # Nothing /\ row'[j].path = row[j].path
                            /\ row'[j].ref = row[j].ref /\ row'[j].hash = row[j].hash
      BY <2>2, <2>5, <2>6, <2>7
    <2> QED
      BY <2>1, <2>8, FileDoneTurned
  <1>11. CASE Fails(c)
    <2>1. archive' = archive /\ row' = row
      BY <1>11 DEF Fails
    <2>2. CASE call[c].file # Nothing /\ FileError(c)
      <3>1. call[c].file \in File
        BY <1>1, <2>2 DEF Call
      <3> QED
        BY <1>3, <2>1, <2>2, <3>1
    <2>3. CASE Ends(c, "failed") /\ did' = did
      <3>1. Now(c, "failed", call[c].kind, Nothing, Nothing, Nothing, Nothing, {})
        BY <1>1, <2>3, EndsNow DEF Pcs
      <3> QED
        BY <1>2, <2>1, <2>3, <3>1 DEF Now
    <2>4. call[c].pc # "erase"
      BY <1>1 DEF Ready
    <2> QED
      BY <1>11, <2>2, <2>3, <2>4 DEF Fails
  <1> QED
    BY <1>4, <1>5, <1>7, <1>8, <1>9, <1>10, <1>11 DEF OnFiles, Portable

\* A document put there before is what it was, or the file at hand has it.
LEMMA TurnedAlone ==
    ASSUME PlaceInv, NEW c \in Calls, call[c].kind = "portable", Left(c), Alone(c), InFlight(c),
           c \notin overlapped, Turned(c), archive' = archive, call'[c].pc # "jobs"
    PROVE  Alone(c)'
  <1>1. TypeOK /\ call[c].todo \subseteq archive.files
    BY DEF PlaceInv, TypeInv, Placed, Archived, Imports
  <1>2. ASSUME NEW d \in did[c]
        PROVE  Itself(d)' \/ Overtaken(d)'
    <2>1. d.id \in Ids /\ (Itself(d) \/ Overtaken(d)) /\ d.file \notin call[c].todo
      BY <1>1, <1>2 DEF TypeOK, Alone, Left
    <2>2. CASE row'[d.id] = row[d.id]
      BY <2>1, <2>2 DEF Itself, Named, Overtaken
    <2>3. CASE /\ call[c].file \in call[c].todo /\ row'[d.id] # Nothing
               /\ row'[d.id].path = call[c].file.path /\ row'[d.id].ref = call[c].file.path
      <3>1. call[c].file \in archive'.files \ {d.file}
        BY <1>1, <2>1, <2>3
      <3> QED
        BY <2>3, <3>1 DEF Overtaken
    <2>4. CASE /\ row[d.id] # Nothing /\ row'[d.id] # Nothing /\ row'[d.id].path = row[d.id].path
               /\ row'[d.id].ref = row[d.id].ref /\ row'[d.id].hash = row[d.id].hash
      BY <2>1, <2>4 DEF Itself, Named, Overtaken
    <2> QED
      BY <2>1, <2>2, <2>3, <2>4 DEF Turned
  <1>3. \A d \in did'[c] : Itself(d)' \/ Overtaken(d)'
    BY <1>2 DEF Turned
  <1>4. call'[c].pc = "adopt" /\ row'[call'[c].on] # Nothing
          => row'[call'[c].on].path = call'[c].file.path
    BY DEF Turned
  <1> QED
    BY <1>3, <1>4 DEF Alone

LEMMA UnmixedKept ==
    ASSUME PlaceInv, Unmixed, NEW c \in Calls, Moves(c), Overlaps',
           call'[c].kind = "portable"
             => \/ Import(c) \/ (GoesOn(c) /\ OnFiles(c)) \/ Relink(c)
                \/ Send(c) /\ call[c].pc = "jobs" /\ call[c].kind = "portable"
    PROVE  Unmixed'
  <1> SUFFICES ASSUME NEW d \in Calls, call'[d].kind = "portable"
               PROVE  Left(d)' /\ Alone(d)'
    BY DEF Unmixed
  <1>1. TypeOK /\ overlapped \subseteq overlapped' /\ Overlaps /\ Placed
    BY DEF PlaceInv, TypeInv, Moves
  <1>2. CASE d # c
    <2>1. call'[d] = call[d] /\ did'[d] = did[d]
      BY <1>2 DEF Moves
    <2>2. Left(d)'
      BY <2>1 DEF Unmixed, Left
    <2>3. ~InFlight(d)' \/ d \in overlapped'
      BY <1>1, <1>2, <2>1 DEF Moves, InFlight, Overlaps
    <2> QED
      BY <2>2, <2>3 DEF Alone
  <1>3. CASE d = c /\ Import(c)
    <2>1. call[c] = Idle /\ did[c] = {} /\ did' = did
      BY <1>1, <1>3 DEF Import, Starts, Placed, Ready
    <2>2. call'[c].pc = "file" /\ call'[c].file = Nothing
      BY <1>1, <1>3, <2>1 DEF Import, TypeOK, Call, Idle
    <2> QED
      BY <1>3, <2>1, <2>2 DEF Left, Alone
  <1>4. CASE d = c /\ GoesOn(c) /\ OnFiles(c)
    <2>1. /\ call[c].kind = "portable" /\ InFlight(c) /\ archive' = archive /\ Left(c) /\ Alone(c)
          /\ call'[c].pc # "jobs"
      BY <1>4 DEF GoesOn, Unmixed
    <2>2. Left(c)'
      BY <1>4, <2>1, OnFilesLeft
    <2>3. CASE c \in overlapped
      BY <1>1, <1>4, <2>2, <2>3 DEF Alone
    <2>4. CASE c \notin overlapped
      BY <1>4, <2>1, <2>2, <2>4, OnFilesTurned, TurnedAlone
    <2> QED
      BY <2>3, <2>4
  <1>5. CASE d = c /\ Relink(c)
    <2>1. /\ call[c].kind = "portable" /\ call[c].pc = "file" /\ UNCHANGED <<row, archive, did, overlapped>>
          /\ call' = [call EXCEPT ![c].pc = "jobs"] /\ Left(c) /\ Alone(c) /\ InFlight(c)
      BY <1>5 DEF Relink, Unmixed, InFlight
    <2>2. call'[c].pc = "jobs" /\ call'[c].todo = call[c].todo /\ call'[c].file = call[c].file
      BY <1>1, <2>1 DEF TypeOK, Call
    <2>3. Left(c)'
      BY <2>1, <2>2 DEF Left
    <2>4. \A e \in did[c] : LinksBack(c, e)'
      BY <1>5, RelinkDone
    <2>5. c \notin overlapped => \A e \in did[c] : Itself(e)' \/ Overtaken(e)'
      BY <2>1 DEF Alone, Itself, Named, Overtaken
    <2> QED
      BY <1>5, <2>1, <2>2, <2>3, <2>4, <2>5 DEF Alone
  <1>6. CASE d = c /\ Send(c) /\ call[c].pc = "jobs" /\ call[c].kind = "portable"
    <2>1. Ends(c, "done") /\ did' = did
      BY <1>6 DEF Send
    <2>2. Now(c, "done", call[c].kind, Nothing, Nothing, Nothing, Nothing, {})
      BY <1>1, <2>1, EndsNow DEF Pcs
    <2>3. call'[c].pc = "done" /\ call'[c].file = Nothing /\ call'[c].todo = {}
      BY <2>2 DEF Now
    <2> QED
      BY <1>6, <2>3 DEF Left, Alone, InFlight
  <1> QED
    BY <1>2, <1>3, <1>4, <1>5, <1>6

LEMMA CrashUnmixed ==
    ASSUME PlaceInv, Unmixed, Crash
    PROVE  Unmixed'
  <1>1. UNCHANGED <<row, links, archive, did, overlapped>>
    BY DEF Crash, corpusVars
  <1> SUFFICES ASSUME NEW c \in Calls, call'[c].kind = "portable"
               PROVE  Left(c)' /\ Alone(c)'
    BY DEF Unmixed
  <1>2. call'[c] = IF InFlight(c) THEN Ended(c, "crashed") ELSE call[c]
    BY DEF Crash
  <1>3. CASE InFlight(c)
    <2>1. call'[c].pc = "crashed" /\ call'[c].file = Nothing /\ call'[c].todo = {}
      BY <1>2, <1>3 DEF Ended, Idle
    <2> QED
      BY <2>1 DEF Left, Alone, InFlight
  <1>4. CASE ~InFlight(c)
    <2>1. call'[c] = call[c] /\ Left(c)
      BY <1>2, <1>4 DEF Unmixed
    <2> QED
      BY <1>1, <1>4, <2>1 DEF Left, Alone, InFlight
  <1> QED
    BY <1>3, <1>4

\* An import that ends sends the jobs, and has put each file on its document.
LEMMA EndRestored ==
    ASSUME RestoreInv, RestoreInv', NEW c \in Calls, Send(c), call[c].pc = "jobs",
           call[c].kind = "portable", NEW f \in archive.files, f.path \notin errors[c]
    PROVE  \E d \in did[c] : /\ d.file = f
                             /\ <<c, d.id>> \notin touched => Back(c, d)'
                             /\ c \notin overlapped => Back(c, d)' \/ Overtaken(d)'
  <1>1. /\ TypeOK /\ UNCHANGED <<row, links, archive, did, touched>> /\ owed' = owed \ SentTo(c)
        /\ Ends(c, "done") /\ InFlight(c)
    BY DEF RestoreInv, PlaceInv, TypeInv, Send, InFlight
  <1>2. PICK d \in did[c] : d.file = f
    BY DEF RestoreInv, Covered
  <1>3. d.id \notin owed'
    BY <1>1 DEF SentTo
  <1>4. Now(c, "done", "portable", Nothing, Nothing, Nothing, Nothing, {})
    BY <1>1, EndsNow DEF Pcs
  <1>5. ASSUME Itself(d), LinksBack(c, d)
        PROVE  Back(c, d)'
    BY <1>1, <1>3, <1>5 DEF Itself, Named, LinksBack, Back
  <1>6. ASSUME <<c, d.id>> \notin touched
        PROVE  Back(c, d)'
    <2>1. Named(d) /\ LinksBack(c, d)
      BY <1>6 DEF RestoreInv, Done
    <2>2. row[d.id] # Nothing /\ row[d.id].hash = d.file.text
      BY <1>6 DEF RestoreInv, PlaceInv, Stored
    <2> QED
      BY <1>5, <2>1, <2>2 DEF Itself
  <1>7. ASSUME c \notin overlapped
        PROVE  Back(c, d)' \/ Overtaken(d)'
    <2>1. (Itself(d) \/ Overtaken(d)) /\ LinksBack(c, d)
      BY <1>1, <1>7 DEF RestoreInv, Unmixed, Alone
    <2>2. CASE Overtaken(d)
      BY <1>1, <2>2 DEF Overtaken
    <2> QED
      BY <1>5, <2>1, <2>2
  <1> QED
    BY <1>2, <1>6, <1>7

\* A portable import that ends has put every file it reports no error for on a
\* document.  That document has the file's path, text, index job and links where
\* only the import wrote it, for this one file; and where the import ran on its
\* own, unless the import itself gave the document to another file of the archive.
THEOREM RestoredHolds == Spec => Restored
  <1>1. Init => RestoreInv
    <2> SUFFICES ASSUME Init
                 PROVE  RestoreInv
      OBVIOUS
    <2>1. \A c \in Calls : call[c].kind = Nothing /\ did[c] = {}
      BY DEF Init, Idle
    <2>2. Nothing # "portable"
      BY PortableAssumption DEF Kinds
    <2>3. Covered /\ Done /\ Unmixed
      BY <2>1, <2>2 DEF Covered, Done, Unmixed
    <2> QED
      BY <2>3, InitPlace DEF RestoreInv
  <1>2. RestoreInv /\ [Next]_vars => RestoreInv'
    <2> SUFFICES ASSUME RestoreInv, [Next]_vars
                 PROVE  RestoreInv'
      OBVIOUS
    <2>1. PlaceInv /\ Covered /\ Done /\ Unmixed /\ PlaceInv'
      BY PlaceInductive DEF RestoreInv
    <2>2. CASE Crash
      BY <2>1, <2>2, CrashRestored, CrashUnmixed DEF RestoreInv
    <2>3. ASSUME NEW c \in Calls,
                 \/ Client(c) \/ Exporting(c) \/ Import(c) \/ Portable(c) \/ Generic(c)
                 \/ Store(c) \/ Point(c) \/ Send(c) \/ Fails(c)
          PROVE  RestoreInv'
      <3>1. Moves(c) /\ Marks(c) /\ Overlaps'
        BY <2>1, <2>3, StepLocal DEF PlaceInv
      <3>2. call'[c].kind = "portable"
              => \/ Import(c) \/ (GoesOn(c) /\ OnFiles(c)) \/ Relink(c)
                 \/ Send(c) /\ call[c].pc = "jobs" /\ call[c].kind = "portable"
        BY <2>1, <2>3, Continues
      <3>3. Covered' /\ Done'
        BY <2>1, <3>1, <3>2, CoveredKept, DoneKept
      <3> QED
        BY <2>1, <3>1, <3>2, <3>3, UnmixedKept DEF RestoreInv
    <2>4. CASE UNCHANGED vars
      <3>1. UNCHANGED <<row, links, owed, archive, call, did, errors, touched, overlapped>>
        BY <2>4 DEF vars, corpusVars
      <3>2. Covered'
        BY <2>1, <3>1 DEF Covered
      <3>3. Done'
        BY <2>1, <3>1 DEF Done, Named, LinksBack
      <3>4. Unmixed'
        BY <2>1, <3>1 DEF Unmixed, Left, Alone, InFlight, Itself, Named, Overtaken, LinksBack
      <3> QED
        BY <2>1, <3>2, <3>3, <3>4 DEF RestoreInv
    <2> QED
      BY <2>2, <2>3, <2>4 DEF Next
  <1> DEFINE Ending ==
        \A c \in Calls :
          call'[c].kind = "portable" /\ call[c].pc # "done" /\ call'[c].pc = "done"
            => \A f \in archive.files :
                 \/ f.path \in errors[c]
                 \/ \E d \in did[c] :
                      /\ d.file = f
                      /\ <<c, d.id>> \notin touched => Back(c, d)'
                      /\ c \notin overlapped => Back(c, d)' \/ Overtaken(d)'
  <1>3. RestoreInv /\ RestoreInv' /\ [Next]_vars => [Ending]_vars
    <2> SUFFICES ASSUME RestoreInv, RestoreInv', Next, NEW c \in Calls, call'[c].kind = "portable",
                        call[c].pc # "done", call'[c].pc = "done", NEW f \in archive.files,
                        f.path \notin errors[c]
                 PROVE  \E d \in did[c] : /\ d.file = f
                                          /\ <<c, d.id>> \notin touched => Back(c, d)'
                                          /\ c \notin overlapped => Back(c, d)' \/ Overtaken(d)'
      OBVIOUS
    <2>1. PlaceInv /\ TypeOK
      BY DEF RestoreInv, PlaceInv, TypeInv
    <2>2. ~Crash
      <3>1. ASSUME Crash
            PROVE  FALSE
        <4>1. call'[c] = IF InFlight(c) THEN Ended(c, "crashed") ELSE call[c]
          BY <3>1 DEF Crash
        <4> QED
          BY <4>1 DEF Ended, Idle
      <3> QED
        BY <3>1
    <2>3. PICK b \in Calls :
            \/ Client(b) \/ Exporting(b) \/ Import(b) \/ Portable(b) \/ Generic(b)
            \/ Store(b) \/ Point(b) \/ Send(b) \/ Fails(b)
      BY <2>2 DEF Next
    <2>4. b = c
      <3>1. Moves(b)
        BY <2>1, <2>3, StepLocal
      <3> QED
        BY <3>1 DEF Moves
    <2>5. \/ Import(c) \/ GoesOn(c) \/ Relink(c)
          \/ Send(c) /\ call[c].pc = "jobs" /\ call[c].kind = "portable"
      BY <2>1, <2>3, <2>4, Continues
    <2>6. ~Import(c) /\ ~GoesOn(c) /\ ~Relink(c)
      <3>1. call[c] \in Call /\ DOMAIN call = Calls
        BY <2>1 DEF TypeOK
      <3>2. ~Import(c)
        BY <3>1 DEF Import, Call
      <3>3. ~Relink(c)
        BY <3>1 DEF Relink, Call
      <3> QED
        BY <3>2, <3>3 DEF GoesOn
    <2> QED
      BY <2>5, <2>6, EndRestored
  <1> QED
    BY <1>1, <1>2, <1>3, PTL DEF Spec, Restored
=============================================================================
