--------------------------- MODULE PortableImport ---------------------------
(***************************************************************************)
(* Archives of a corpus: the portable export and import of                 *)
(* PortableService and the import of any other zip of ArchiveImportService,*)
(* await by await, beside clients that create, save, rename and delete     *)
(* documents.                                                              *)
(*                                                                         *)
(* A row points to the place its content is stored at; a portable import   *)
(* finds its row by the reference an earlier import has left, then by      *)
(* path, and keeps the id a document had where it can.  All files are in   *)
(* one folder and are markdown; metadata and counters are left out, and of *)
(* indexing only whether a job has been sent for the content.              *)
(***************************************************************************)
EXTENDS Naturals, FiniteSets

CONSTANTS
    Calls,         \* requests, each made once
    Paths,         \* numbers, in the order of localeCompare
    Ids,           \* uuids
    Texts,         \* contents; a hash tells them apart
    Nothing,       \* null
    Scenes         \* [rows, blobs, links, archive, elsewhere, can, texts, mishaps]:
                   \* what the corpus holds, the archive at hand, the ids that rows
                   \* outside the corpus have, what each call may be, what clients
                   \* write, and a bound on failing calls and deaths

Kinds == {"create", "save", "rename", "delete", "export", "import", "portable", "generic"}

\* <<"managed", id>> and <<"import", id>>.
Places == {"managed", "import"} \X Ids

\* An imported row has the portable reference of a path.
Row == [path: Paths, ref: Paths \cup {Nothing}, hash: Texts \cup {Nothing},
        at: Places \cup {Nothing}]

\* A file of an archive.  The text is not the one of the checksum if damaged.
\* A link of the manifest goes from and to ids and names a path.
File == [path: Paths, id: Ids, text: Texts, damaged: BOOLEAN]
Link == [from: Ids, to: Ids \cup {Nothing}, target: Paths]
Archive == [manifest: BOOLEAN, files: SUBSET File, links: SUBSET Link]

\* A corpus begins with one document at a path, and every content, which has a
\* hash, at a place of its document.
Orderly(s) ==
    \A i \in {j \in Ids : s.rows[j] # Nothing} :
      /\ \A j \in Ids \ {i} : s.rows[j] # Nothing => s.rows[j].path # s.rows[i].path
      /\ s.rows[i].at # Nothing => s.rows[i].at[2] = i /\ s.rows[i].hash # Nothing

ASSUME PortableAssumption ==
    /\ Paths \subseteq Nat
    /\ Nothing \notin Paths /\ Nothing \notin Ids /\ Nothing \notin Texts /\ Nothing \notin Kinds
    /\ Nothing \notin Row /\ Nothing \notin File /\ Nothing \notin Places
    /\ \A s \in Scenes :
         /\ s.rows \in [Ids -> Row \cup {Nothing}]
         /\ s.blobs \in [Places -> Texts \cup {Nothing}]
         /\ s.links \in [Ids -> SUBSET {i \in Ids : s.rows[i] # Nothing}]
         /\ s.archive \in Archive
         /\ s.elsewhere \in [Ids -> {"no", "corpus", "workspace"}]
         /\ s.can \in [Calls -> SUBSET Kinds]
         /\ s.texts \subseteq Texts /\ s.mishaps \in Nat
         /\ Orderly(s)

VARIABLES
    scene,     \* one of Scenes, fixed
    row,       \* the rows of the corpus
    blob,      \* what is stored at a place
    links,     \* the nodes that the link rows of a node lead to
    used,      \* the ids that are or were given to nodes
    owed,      \* rows set to pending for which no index job was sent since
    archive,   \* what the last export made, or was uploaded
    call,      \* where each call stands
    did,       \* the files each call has stored, read or found
    errors,    \* the files an import reports as failed
    touched,   \* <<call, id>>: another call wrote the row since this one looked at
               \* it, or this one did for another file than one it had put there
    overlapped, \* the calls that were in flight while another one was
    lent,      \* the places an import has pointed the row of another id to
    mishaps

corpusVars == <<row, blob, links, used, owed>>
vars == <<scene, corpusVars, archive, call, did, errors, touched, overlapped, lent, mishaps>>

Pcs == {"idle", "put", "point", "erase", "drop", "read",
        "file", "path", "update", "adopt", "insert", "links", "jobs",
        "done", "failed", "crashed"}

\* file is the file at hand, on its row, at the place the content goes to, had
\* the place the row has meanwhile, prefer whether it may have the archive's id,
\* todo what is left of the archive or of the listing.
Call == [pc: Pcs, kind: Kinds \cup {Nothing}, file: File \cup {Nothing},
         on: Ids \cup {Nothing}, at: Places \cup {Nothing}, had: Places \cup {Nothing},
         prefer: BOOLEAN, todo: SUBSET File]

TypeOK ==
    /\ scene \in Scenes
    /\ row \in [Ids -> Row \cup {Nothing}]
    /\ blob \in [Places -> Texts \cup {Nothing}]
    /\ links \in [Ids -> SUBSET Ids]
    /\ used \subseteq Ids /\ \A i \in Ids : row[i] # Nothing => i \in used
    /\ owed \subseteq Ids
    /\ archive \in Archive
    /\ call \in [Calls -> Call]
    /\ did \in [Calls -> SUBSET [file: File, id: Ids]]
    /\ errors \in [Calls -> SUBSET Paths]
    /\ touched \subseteq Calls \X Ids
    /\ overlapped \subseteq Calls
    /\ lent \subseteq Places
    /\ mishaps \in 0 .. scene.mishaps

Idle == [pc |-> "idle", kind |-> Nothing, file |-> Nothing, on |-> Nothing,
         at |-> Nothing, had |-> Nothing, prefer |-> FALSE, todo |-> {}]

Present == {i \in Ids : row[i] # Nothing}

Init ==
    /\ scene \in Scenes
    /\ row = scene.rows
    /\ blob = scene.blobs
    /\ links = scene.links
    /\ used = Present \cup {i \in Ids : scene.elsewhere[i] # "no"}
                      \cup {f.id : f \in scene.archive.files}
    /\ owed = {}
    /\ archive = scene.archive
    /\ call = [c \in Calls |-> Idle]
    /\ did = [c \in Calls |-> {}]
    /\ errors = [c \in Calls |-> {}]
    /\ touched = {}
    /\ overlapped = {}
    /\ lent = {}
    /\ mishaps = 0

-----------------------------------------------------------------------------
(* The corpus.                                                             *)

InFlight(c) == call[c].pc \notin {"idle", "done", "failed", "crashed"}

At(p) == {i \in Present : row[i].path = p}
Referring(p) == {i \in Present : row[i].ref = p}

\* gen_random_uuid: Ids bounds how many there are.
NewId == CHOOSE i \in Ids : i \notin used
Spare == \E i \in Ids : i \notin used

\* c looks at a row: from here on it is told who else writes it.  Not so where c
\* has done a file there before: then what c did to it for two files is mixed.
Looks(c, i) == touched' = IF \E d \in did[c] : d.id = i THEN touched ELSE touched \ {<<c, i>>}

Concerned(c, i) == {d \in Calls : \/ d # c /\ call[d].on = i
                                  \/ \E e \in did[d] : e.id = i}
Wrote(c, i) == touched' = touched \cup (Concerned(c, i) \X {i})

\* A write that sets index_status to pending.
Pending(i) == owed' = owed \cup {i}

SetRow(i, r) == row' = [row EXCEPT ![i] = r]

\* INSERT of a file: the path is unique in the corpus, the id in the database.
Inserted(c, i, r) ==
    /\ SetRow(i, r)
    /\ used' = used \cup {i}
    /\ Pending(i)
    /\ Wrote(c, i)

Ended(c, how) == [Idle EXCEPT !.pc = how, !.kind = call[c].kind]
Ends(c, how) == call' = [call EXCEPT ![c] = Ended(c, how)]

-----------------------------------------------------------------------------
(* Clients.  A call that is refused at its start changes nothing and is    *)
(* left out.                                                               *)

Starts(c, k) ==
    /\ call[c].pc = "idle" /\ k \in scene.can[c]
    /\ LET others == {d \in Calls : InFlight(d)}
       IN  overlapped' = IF others = {} THEN overlapped ELSE overlapped \cup others \cup {c}

\* What a client writes, as a file of an archive.
Written(i, p, t) == [path |-> p, id |-> i, text |-> t, damaged |-> FALSE]

Put(c, kind, f, i, place) ==
    call' = [call EXCEPT ![c] = [@ EXCEPT !.pc = "put", !.kind = kind, !.file = f, !.on = i,
                                          !.at = place, !.had = Nothing]]

\* createFile up to the row, which points nowhere.
Create(c) ==
    /\ Starts(c, "create") /\ Spare
    /\ \E p \in Paths, t \in scene.texts :
         /\ At(p) = {}
         /\ Inserted(c, NewId, [path |-> p, ref |-> Nothing, hash |-> Nothing, at |-> Nothing])
         /\ Put(c, "create", Written(NewId, p, t), NewId, <<"managed", NewId>>)
    /\ UNCHANGED <<scene, blob, links, archive, did, errors, lent, mishaps>>

\* saveContent up to the look at the row.
Save(c) ==
    /\ Starts(c, "save")
    /\ \E i \in Present, t \in scene.texts :
         /\ Looks(c, i)
         /\ Put(c, "save", Written(i, row[i].path, t), i,
                IF row[i].at = Nothing THEN <<"managed", i>> ELSE row[i].at)
    /\ UNCHANGED <<scene, corpusVars, archive, did, errors, lent, mishaps>>

\* renameNode: the unique index decides if the check before it did not.
Rename(c) ==
    /\ Starts(c, "rename")
    /\ \E i \in Present, p \in Paths :
         /\ At(p) = {}
         /\ SetRow(i, [row[i] EXCEPT !.path = p])
         /\ Wrote(c, i)
    /\ Ends(c, "done")
    /\ UNCHANGED <<scene, blob, links, used, owed, archive, did, errors, lent, mishaps>>

\* deleteNodes lists the corpus, deletes the content at the place listed, then
\* the row.
Delete(c) ==
    /\ Starts(c, "delete")
    /\ \E i \in Present :
         call' = [call EXCEPT ![c] = [@ EXCEPT !.pc = "erase", !.kind = "delete",
                                               !.on = i, !.at = row[i].at]]
    /\ UNCHANGED <<scene, corpusVars, archive, did, errors, touched, lent, mishaps>>

Erase(c) ==
    /\ call[c].pc = "erase"
    /\ blob' = [b \in Places |-> IF b = call[c].at THEN Nothing ELSE blob[b]]
    /\ Wrote(c, call[c].on)
    /\ call' = [call EXCEPT ![c].pc = "drop"]
    /\ UNCHANGED <<scene, row, links, used, owed, archive, did, errors, overlapped, lent, mishaps>>

Drop(c) ==
    /\ call[c].pc = "drop"
    /\ SetRow(call[c].on, Nothing)
    /\ Wrote(c, call[c].on)
    /\ Ends(c, "done")
    /\ UNCHANGED <<scene, blob, links, used, owed, archive, did, errors, overlapped, lent, mishaps>>

-----------------------------------------------------------------------------
(* Storing the content, of a client's call or of a file of an import.      *)

\* The import goes on with the next file.
NextFile(c) == call' = [call EXCEPT ![c] = [Idle EXCEPT !.pc = "file", !.kind = call[c].kind,
                                                        !.todo = call[c].todo \ {call[c].file}]]

Imports(c) == call[c].kind \in {"portable", "generic"}

FileDone(c) ==
    /\ did' = [did EXCEPT ![c] = @ \cup {[file |-> call[c].file, id |-> call[c].on]}]
    /\ IF Imports(c) THEN NextFile(c) ELSE Ends(c, "done")
    /\ UNCHANGED errors

\* The catch around each file.
FileError(c) ==
    /\ errors' = [errors EXCEPT ![c] = @ \cup {call[c].file.path}]
    /\ NextFile(c)
    /\ UNCHANGED did

MutantStore(c) ==
    /\ call[c].pc = "put"
    /\ blob' = IF call[c].had = call[c].at THEN blob
               ELSE [blob EXCEPT ![call[c].at] = call[c].file.text]
    /\ Wrote(c, call[c].on)
    /\ IF call[c].had = call[c].at THEN FileDone(c)
       ELSE call' = [call EXCEPT ![c].pc = "point"] /\ UNCHANGED <<did, errors>>
    /\ UNCHANGED <<scene, row, links, used, owed, archive, overlapped, lent, mishaps>>

\* BlobStore.put.  A portable import is done if the row points there already.
Store(c) ==
    /\ call[c].pc = "put"
    /\ blob' = [blob EXCEPT ![call[c].at] = call[c].file.text]
    /\ Wrote(c, call[c].on)
    /\ IF call[c].had = call[c].at THEN FileDone(c)
       ELSE call' = [call EXCEPT ![c].pc = "point"] /\ UNCHANGED <<did, errors>>
    /\ UNCHANGED <<scene, row, links, used, owed, archive, overlapped, lent, mishaps>>

\* updateContent; an import does not mind if the row is gone.  The job of a
\* client's write is sent with it.
Point(c) ==
    /\ call[c].pc = "point"
    /\ LET i == call[c].on
       IN  IF row[i] = Nothing
             THEN /\ IF Imports(c) THEN FileDone(c)
                     ELSE Ends(c, "failed") /\ UNCHANGED <<did, errors>>
                  /\ UNCHANGED <<row, owed, touched>>
             ELSE /\ SetRow(i, [row[i] EXCEPT !.hash = call[c].file.text, !.at = call[c].at])
                  /\ IF Imports(c) THEN Pending(i) ELSE owed' = owed \ {i}
                  /\ Wrote(c, i)
                  /\ FileDone(c)
    /\ UNCHANGED <<scene, blob, links, used, archive, overlapped, lent, mishaps>>

-----------------------------------------------------------------------------
(* exportCorpusPortableZip.  One archive is made in a behaviour at most,   *)
(* before any import, so the links are those the scene begins with.        *)

Export(c) ==
    /\ Starts(c, "export") /\ archive.files = {} /\ \A d \in Calls : call[d].kind # "export"
    /\ LET listed == {i \in Present : row[i].at # Nothing}
       IN  /\ call' = [call EXCEPT ![c] =
                          [@ EXCEPT !.pc = "read", !.kind = "export",
                                    !.todo = {Written(i, row[i].path, row[i].hash) : i \in listed}]]
           /\ archive' = [archive EXCEPT !.links =
                             {[from |-> e[1], to |-> e[2], target |-> scene.rows[e[2]].path] :
                                e \in {p \in Ids \X Ids : p[2] \in links[p[1]]}}]
    /\ UNCHANGED <<scene, corpusVars, did, errors, touched, lent, mishaps>>

\* readContent throws if the row or its content is gone, and so does the export.
ReadDocument(c, f) ==
    /\ call[c].pc = "read" /\ f \in call[c].todo
    /\ IF row[f.id] = Nothing \/ row[f.id].at = Nothing \/ blob[row[f.id].at] = Nothing
         THEN Ends(c, "failed") /\ UNCHANGED did
         ELSE /\ did' = [did EXCEPT ![c] = @ \cup {[file |-> [f EXCEPT !.text = blob[row[f.id].at]],
                                                   id |-> f.id]}]
              /\ call' = [call EXCEPT ![c].todo = @ \ {f}]
    /\ UNCHANGED <<scene, corpusVars, archive, errors, touched, overlapped, lent, mishaps>>

Exported(c) ==
    /\ call[c].pc = "read" /\ call[c].todo = {}
    /\ archive' = [archive EXCEPT !.manifest = TRUE, !.files = {d.file : d \in did[c]}]
    /\ Ends(c, "done")
    /\ UNCHANGED <<scene, corpusVars, did, errors, touched, overlapped, lent, mishaps>>

-----------------------------------------------------------------------------
(* importCorpusArchive: an archive with a manifest is a portable one.      *)

Import(c) ==
    /\ Starts(c, "import") /\ archive.files # {}
    /\ call' = [call EXCEPT ![c] =
                   [@ EXCEPT !.pc = "file", !.todo = archive.files,
                             !.kind = IF archive.manifest THEN "portable" ELSE "generic"]]
    /\ UNCHANGED <<scene, corpusVars, archive, did, errors, touched, lent, mishaps>>

\* What importCorpusPortableFromEntries and upsertPortableFile do of a file.

MutantUsable(i, p) == TRUE

\* The archive's id may be used unless a row of the workspace has it, other than
\* the one at the same path.
Usable(i, p) ==
    /\ scene.elsewhere[i] # "corpus"
    /\ row[i] = Nothing \/ row[i].path = p

\* Go on with row i, which has the content or is to be written.
FoundFor(c, f, i, pc, place) ==
    /\ Looks(c, i)
    /\ call' = [call EXCEPT ![c] =
                   [@ EXCEPT !.pc = IF row[i].hash = f.text THEN "put" ELSE pc,
                             !.file = f, !.on = i, !.at = place, !.had = row[i].at]]

MutantFound(c, f, i, pc) == FoundFor(c, f, i, pc, <<"import", f.id>>)

Found(c, f, i, pc) == FoundFor(c, f, i, pc, <<"import", i>>)

\* The file must be what its checksum says; then by the reference.
ByRef(c, f) ==
    /\ call[c].pc = "file" /\ call[c].kind = "portable" /\ f \in call[c].todo
    /\ \/ /\ f.damaged
          /\ errors' = [errors EXCEPT ![c] = @ \cup {f.path}]
          /\ call' = [call EXCEPT ![c].todo = @ \ {f}]
          /\ UNCHANGED touched
       \/ /\ ~f.damaged /\ Referring(f.path) = {}
          /\ call' = [call EXCEPT ![c] = [@ EXCEPT !.pc = "path", !.file = f,
                                                    !.prefer = Usable(f.id, f.path)]]
          /\ UNCHANGED <<errors, touched>>
       \/ /\ ~f.damaged
          /\ \E i \in Referring(f.path) : Found(c, f, i, "update")
          /\ UNCHANGED errors
    /\ UNCHANGED <<scene, corpusVars, archive, did, overlapped, lent, mishaps>>

ByPath(c) ==
    /\ call[c].pc = "path"
    /\ LET f == call[c].file
       IN  IF At(f.path) = {}
             THEN /\ call' = [call EXCEPT ![c].pc = "insert",
                                          ![c].prefer = @ /\ Usable(f.id, f.path)]
                  /\ UNCHANGED touched
             ELSE \E i \in At(f.path) : Found(c, f, i, "adopt")
    /\ UNCHANGED <<scene, corpusVars, archive, did, errors, overlapped, lent, mishaps>>

\* The place an upsert leaves the row at: the one of the archive's id.
MutantPreferred(c) == <<"portable", call[c].file.id>>

Preferred(c) == <<"import", call[c].file.id>>

Lends(c, i) == lent' = IF i = call[c].file.id THEN lent ELSE lent \cup {Preferred(c)}

Upserted(c, r) ==
    /\ SetRow(call[c].on, [r EXCEPT !.hash = call[c].file.text, !.at = Preferred(c)])
    /\ Lends(c, call[c].on)
    /\ Pending(call[c].on)
    /\ Wrote(c, call[c].on)
    /\ call' = [call EXCEPT ![c].pc = "put", ![c].had = Preferred(c)]
    /\ UNCHANGED <<used, did, errors>>

Refused(c) == FileError(c) /\ UNCHANGED <<row, used, owed, touched, lent>>

\* The row of the reference is written with its path, or refused where another
\* row has the path, or the row is gone.
Update(c) ==
    /\ call[c].pc = "update"
    /\ LET i == call[c].on
           f == call[c].file
       IN  IF row[i] = Nothing \/ At(f.path) \ {i} # {}
             THEN Refused(c)
             ELSE Upserted(c, [row[i] EXCEPT !.path = f.path])
    /\ UNCHANGED <<scene, blob, links, archive, overlapped, mishaps>>

\* The row at the path is given the reference.
Adopt(c) ==
    /\ call[c].pc = "adopt"
    /\ IF row[call[c].on] = Nothing
         THEN Refused(c)
         ELSE Upserted(c, [row[call[c].on] EXCEPT !.ref = call[c].file.path])
    /\ UNCHANGED <<scene, blob, links, archive, overlapped, mishaps>>

Insert(c) ==
    /\ call[c].pc = "insert" /\ call[c].kind = "portable" /\ Spare
    /\ LET f == call[c].file
           i == IF call[c].prefer THEN f.id ELSE NewId
       IN  IF At(f.path) # {} \/ row[i] # Nothing \/ scene.elsewhere[i] # "no"
             THEN Refused(c)
             ELSE /\ Inserted(c, i, [path |-> f.path, ref |-> f.path, hash |-> f.text,
                                     at |-> Preferred(c)])
                  /\ Lends(c, i)
                  /\ call' = [call EXCEPT ![c] = [@ EXCEPT !.pc = "put", !.on = i,
                                                !.at = <<"import", i>>, !.had = Preferred(c)]]
                  /\ UNCHANGED <<did, errors>>
    /\ UNCHANGED <<scene, blob, links, archive, overlapped, mishaps>>

\* Links are replaced for the nodes of files that were stored.
NodeOf(c, id) == {d.id : d \in {e \in did[c] : e.file.id = id}}
NodeAt(c, p) == {d.id : d \in {e \in did[c] : e.file.path = p}}
Linked(c) == UNION {NodeOf(c, l.from) : l \in archive.links}

MutantTarget(c, l) == IF l.to = Nothing THEN NodeAt(c, l.target) ELSE {l.to}

Target(c, l) == IF NodeOf(c, l.to) # {} THEN NodeOf(c, l.to) ELSE NodeAt(c, l.target)

\* replaceForNode deletes the links of a node before it inserts others: of S both
\* were done, of gone only the first.
Relinked(c, S, gone) ==
    links' = [i \in Ids |->
                IF i \in gone THEN {}
                ELSE IF i \in S
                  THEN UNION {Target(c, l) : l \in {k \in archive.links : i \in NodeOf(c, k.from)}}
                  ELSE links[i]]
    /\ touched' = touched \cup UNION {(Concerned(c, i) \ {c}) \X {i} : i \in S \cup gone}

Relink(c) ==
    /\ call[c].pc = "file" /\ call[c].kind = "portable" /\ call[c].todo = {}
    /\ Relinked(c, Linked(c), {})
    /\ call' = [call EXCEPT ![c].pc = "jobs"]
    /\ UNCHANGED <<scene, row, blob, used, owed, archive, did, errors, overlapped, lent, mishaps>>

-----------------------------------------------------------------------------
(* importGenericZip.                                                       *)

\* The files in order; a file whose row has its hash is skipped.
Look(c, f) ==
    /\ call[c].pc = "file" /\ call[c].kind = "generic" /\ f \in call[c].todo
    /\ \A g \in call[c].todo : f.path <= g.path
    /\ \/ /\ At(f.path) = {}
          /\ call' = [call EXCEPT ![c].pc = "insert", ![c].file = f]
          /\ UNCHANGED touched
       \/ \E i \in At(f.path) :
            IF row[i].hash = f.text
              THEN call' = [call EXCEPT ![c].todo = @ \ {f}] /\ UNCHANGED touched
              ELSE /\ Put(c, "generic", f, i, <<"managed", i>>)
                   /\ Looks(c, i)
    /\ UNCHANGED <<scene, corpusVars, archive, did, errors, overlapped, lent, mishaps>>

\* The row has the hash before the content is stored.
InsertManaged(c) ==
    /\ call[c].pc = "insert" /\ call[c].kind = "generic" /\ Spare
    /\ LET f == call[c].file
       IN  IF At(f.path) # {}
             THEN Refused(c)
             ELSE /\ Inserted(c, NewId, [path |-> f.path, ref |-> Nothing, hash |-> f.text,
                                         at |-> Nothing])
                  /\ Put(c, "generic", f, NewId, <<"managed", NewId>>)
                  /\ UNCHANGED <<did, errors, lent>>
    /\ UNCHANGED <<scene, blob, links, archive, overlapped, mishaps>>

-----------------------------------------------------------------------------
(* The end of an import, and what goes wrong.                              *)

SentTo(c) == {d.id : d \in did[c]}

\* enqueueIndexMany; the counters of the corpus follow.
Send(c) ==
    /\ \/ call[c].pc = "jobs"
       \/ call[c].pc = "file" /\ call[c].kind = "generic" /\ call[c].todo = {}
    /\ owed' = owed \ SentTo(c)
    /\ Ends(c, "done")
    /\ UNCHANGED <<scene, row, blob, links, used, archive, did, errors, touched, overlapped, lent, mishaps>>

\* A call to the database, the blob store or the queue throws.
Fails(c) ==
    /\ mishaps < scene.mishaps /\ InFlight(c)
    /\ mishaps' = mishaps + 1
    /\ \/ /\ Imports(c) /\ call[c].file # Nothing
          /\ FileError(c)
          /\ UNCHANGED <<links, owed, touched>>
       \/ /\ Imports(c) /\ call[c].pc = "file" /\ call[c].todo = {}
          /\ \E S, gone \in SUBSET Linked(c) : Cardinality(gone) <= 1 /\ Relinked(c, S, gone)
          /\ Ends(c, "failed")
          /\ UNCHANGED <<owed, did, errors>>
       \/ /\ call[c].pc = "jobs"
          /\ \E S \in SUBSET SentTo(c) : owed' = owed \ S
          /\ Ends(c, "failed")
          /\ UNCHANGED <<links, did, errors, touched>>
       \/ /\ call[c].pc = "erase"
          /\ call' = [call EXCEPT ![c].pc = "drop"]
          /\ UNCHANGED <<links, owed, did, errors, touched>>
       \/ /\ ~Imports(c) /\ call[c].pc # "erase"
          /\ Ends(c, "failed")
          /\ UNCHANGED <<links, owed, did, errors, touched>>
    /\ UNCHANGED <<scene, row, blob, used, archive, overlapped, lent>>

\* The process dies; the database and the blobs stay.
Crash ==
    /\ mishaps < scene.mishaps
    /\ mishaps' = mishaps + 1
    /\ call' = [c \in Calls |-> IF InFlight(c) THEN Ended(c, "crashed") ELSE call[c]]
    /\ UNCHANGED <<scene, corpusVars, archive, did, errors, touched, overlapped, lent>>

Client(c) == Create(c) \/ Save(c) \/ Rename(c) \/ Delete(c) \/ Erase(c) \/ Drop(c)
Portable(c) == \/ \E f \in call[c].todo : ByRef(c, f)
               \/ ByPath(c) \/ Update(c) \/ Adopt(c) \/ Insert(c) \/ Relink(c)
Generic(c) == (\E f \in call[c].todo : Look(c, f)) \/ InsertManaged(c)
Exporting(c) == Export(c) \/ (\E f \in call[c].todo : ReadDocument(c, f)) \/ Exported(c)

Next ==
    \/ \E c \in Calls : \/ Client(c) \/ Exporting(c) \/ Import(c) \/ Portable(c) \/ Generic(c)
                        \/ Store(c) \/ Point(c) \/ Send(c) \/ Fails(c)
    \/ Crash

Spec == Init /\ [][Next]_vars

-----------------------------------------------------------------------------
(* What must hold.                                                         *)

\* The content of row i is stored at a place that the row of another document
\* has been pointed to as well, and something came in between.
Shared(i) == row[i].at \in lent /\ (mishaps > 0 \/ overlapped # {})

(***************************************************************************)
(* What a call has stored is there: the row points to a place that holds   *)
(* the text the row's hash says, unless another call wrote that row since  *)
(* this one looked at it, or this one, an import, put another file there   *)
(* (Overtaken, below, says when).  Writing another row does not harm it,   *)
(* but where an import has made the two share a place.                     *)
(***************************************************************************)
Stored ==
    \A c \in Calls : \A d \in did[c] :
        call[c].kind # "export" /\ <<c, d.id>> \notin touched
          => /\ row[d.id] # Nothing
             /\ row[d.id].hash = d.file.text
             /\ row[d.id].at # Nothing
             /\ blob[row[d.id].at] = d.file.text \/ Shared(d.id)

\* The document of d.file is at its path, or where it was renamed to since it was
\* first imported, with its text, an index job, and the links of the archive.
Back(c, d) ==
    /\ row[d.id] # Nothing
    /\ d.file.path \in {row[d.id].path, row[d.id].ref} /\ row[d.id].hash = d.file.text
    /\ d.id \notin owed
    /\ \A l \in archive.links, e \in did[c] :
         l.from = d.file.id /\ l.to = e.file.id => e.id \in links[d.id]

\* The row of d.file has become that of another file of the archive.
Overtaken(d) ==
    /\ row[d.id] # Nothing
    /\ \E g \in archive.files \ {d.file} : row[d.id].path = g.path /\ row[d.id].ref = g.path

(***************************************************************************)
(* When a portable import ends, every file of the archive is reported as   *)
(* an error or has been put on a document, and that document is back:      *)
(*   - if no other call wrote its row since the import looked at it, and   *)
(*     the import put no other file there;                                 *)
(*   - if no other call ran beside the import, but for a file the import   *)
(*     itself has lost.  That happens where the document of the file was   *)
(*     renamed, before, to the path of another file: the first is found    *)
(*     by its reference and left as it is, having the same hash, and the   *)
(*     second is found by its path and takes the row over.  Neither is     *)
(*     reported (node-repository.ts:312-400).                              *)
(* Nothing is said of a row that both the import and another call wrote.   *)
(***************************************************************************)
Restored ==
    [][\A c \in Calls :
         call'[c].kind = "portable" /\ call[c].pc # "done" /\ call'[c].pc = "done"
           => \A f \in archive.files :
                \/ f.path \in errors[c]
                \/ \E d \in did[c] :
                     /\ d.file = f
                     /\ <<c, d.id>> \notin touched => Back(c, d)'
                     /\ c \notin overlapped => Back(c, d)' \/ Overtaken(d)']_vars

(***************************************************************************)
(* An undisturbed portable import reports an error for nothing but a       *)
(* damaged file, an id that a row of another workspace has, a file whose   *)
(* document was renamed and whose path is taken, and a call that fails.    *)
(***************************************************************************)
ErrorsExplained ==
    [][\A c \in Calls : \A p \in errors'[c] \ errors[c] :
         call[c].kind = "portable" /\ c \notin overlapped
           => \/ \E f \in archive.files :
                   /\ f.path = p
                   /\ \/ f.damaged
                      \/ scene.elsewhere[f.id] = "workspace"
                      \/ \E i \in Referring(p) : row[i].path # p /\ At(p) # {}
              \/ mishaps' > mishaps]_vars

(***************************************************************************)
(* No step takes the content of a document that no call is at work on,     *)
(* whatever it does to others.  Not so if an import found its id at the    *)
(* path of another: that one is pointed to the place of this one's content *)
(* until its own is stored, and stays there if the import fails or a call  *)
(* comes in between.                                                       *)
(***************************************************************************)
Kept(i) ==
    row[i] # Nothing /\ row[i].at # Nothing /\ blob[row[i].at] = row[i].hash
    /\ (\A c \in Calls : call[c].on # i)
      => /\ row'[i] # Nothing /\ row'[i].hash = row[i].hash /\ row'[i].at = row[i].at
         /\ blob'[row[i].at] = row[i].hash \/ Shared(i)'

Untouched == [][\A i \in Ids : Kept(i)]_vars
=============================================================================
