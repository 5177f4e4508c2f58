------------------------------ MODULE NodeTree ------------------------------
(***************************************************************************)
(* The tree of a corpus: folders and files as rows of knowledge_nodes, and *)
(* the calls of FileManagerService and AgentWriteService that change it.   *)
(* A row says where it is twice, by its parent's id and by the path of the *)
(* folder it is in, and a call that moves a folder rewrites the paths of   *)
(* everything below it row by row.  Nothing locks the tree and no call is  *)
(* a transaction: a step is one SQL statement or one job sent.             *)
(*                                                                         *)
(* What a change has to tell OKF maintenance is left in the call, and      *)
(* module OkfMaintenance sends it.  Store, Write, Tell and DeleteMany say  *)
(* nothing of odd: that module adds to it there.                           *)
(***************************************************************************)
EXTENDS Naturals, FiniteSets, SequencesExt

CONSTANTS
    Callers,       \* requests, and the maintenance worker
    Internal,      \* the callers whose changes send no events
    FolderNames, FileNames,
    Concepts,      \* file names that classifyOkfFile takes for concepts
    Begins         \* <<m, n>>: the text of name m begins with that of n

ASSUME TreeAssumption ==
    /\ Internal \subseteq Callers
    /\ Concepts \subseteq FileNames
    /\ Begins \subseteq (FolderNames \cup FileNames) \X (FolderNames \cup FileNames)
    /\ {"index.md", "log.md"} \subseteq FileNames \ Concepts

VARIABLES
    rows,    \* rows ever inserted, by id
    call,    \* what each caller is doing
    calls,   \* number of calls of users so far
    odd      \* what has happened that properties make an exception for

treeVars == <<rows, call, calls, odd>>

Names == FolderNames \cup FileNames
Null == 0

\* What a mutation tells OKF maintenance, and the folder whose slot it takes.
Event == [kind: {"create", "update", "move", "delete"}, path: Seq(FolderNames),
          name: Names, from: Seq(FolderNames), key: Seq(FolderNames), no: Nat]

\* Of contents only those of index.md and log.md count: the bullets, the
\* entries, and the last thing a user wrote there.
Text == [listed: SUBSET Names, entries: SUBSET [ev: Event, left: Nat], note: Nat]
NoText == [listed |-> {}, entries |-> {}, note |-> 0]

Row == [there: BOOLEAN, parent: Nat, path: Seq(FolderNames), name: Names,
        folder: BOOLEAN, stored: BOOLEAN, text: Text]

\* The rows are the tree their paths say: a node's parent is there, is a folder
\* and has the path the node says it is in, as have all folders on that path,
\* and no two nodes are at one place.
IsTree(r) ==
    \A n \in {n \in DOMAIN r : r[n].there} :
      LET Folder(k, p) == k \in DOMAIN r /\ r[k].there /\ r[k].folder
                          /\ Append(r[k].path, r[k].name) = p
      IN  /\ IF r[n].parent = Null THEN r[n].path = <<>> ELSE Folder(r[n].parent, r[n].path)
          /\ \A i \in 1 .. Len(r[n].path) : \E k \in DOMAIN r : Folder(k, SubSeq(r[n].path, 1, i))
          /\ \A k \in DOMAIN r : r[k].there /\ r[k].path = r[n].path /\ r[k].name = r[n].name
                                  => k = n

Kinds == {"folder", "file", "document", "save", "rename", "move", "delete"}

Gone == [there |-> FALSE, parent |-> Null, path |-> <<>>,
         name |-> CHOOSE m \in Names : TRUE, folder |-> FALSE, stored |-> FALSE,
         text |-> NoText]

\* part counts the folders of the path a document has so far; from is the
\* full path the node had when the call read it.
Idle == [kind |-> "none", at |-> "idle", id |-> Null, path |-> <<>>,
         name |-> CHOOSE m \in Names : TRUE, text |-> NoText, parent |-> Null,
         part |-> 0, from |-> <<>>, folder |-> FALSE, todo |-> {}, tell |-> {},
         no |-> 0]

TreeTypeOK ==
    /\ rows \in Seq(Row)
    /\ \A n \in DOMAIN rows : rows[n].folder => rows[n].name \in FolderNames
    /\ \A c \in Callers :
         /\ call[c].kind \in Kinds \cup {"none"}
         /\ call[c].at \in {"idle", "chain", "exists", "parent", "insert", "store",
                            "target", "free", "list", "shift", "tell", "remove", "done"}
         /\ call[c].id \in 0 .. Len(rows) /\ call[c].parent \in 0 .. Len(rows)
         /\ call[c].path \in Seq(FolderNames) /\ call[c].name \in Names
         /\ call[c].text \in Text
         /\ call[c].tell \subseteq Event
         /\ call[c] = Idle <=> call[c].kind = "none"
    /\ calls \in Nat
    /\ odd \subseteq {"tangled", "died", "dropped", "clash", "uprooted", "index",
                      "renamed", "razed", "given up"}

FullPath(n) == Append(rows[n].path, rows[n].name)
Nodes == {n \in DOMAIN rows : rows[n].there}
At(p, m) == {n \in Nodes : rows[n].path = p /\ rows[n].name = m}
Below(p) == {n \in Nodes : IsPrefix(p, rows[n].path)}

\* getByPathAndName: any one row, and the same for the folder a path names.
Found(p, m) == IF At(p, m) = {} THEN {Null} ELSE At(p, m)
FoundFolder(p) == IF p = <<>> THEN {Null} ELSE Found(Front(p), Last(p))

\* knowledge_nodes_corpus_path_uq speaks of files only.
Taken(n, p, m) == \E k \in At(p, m) \ {n} : ~rows[k].folder

\* The text of path p begins with that of q, which need not end at a slash.
TextBegins(p, q) ==
    /\ Len(p) >= Len(q)
    /\ IsPrefix(Front(q), p)
    /\ p[Len(q)] = Last(q) \/ <<p[Len(q)], Last(q)>> \in Begins

-----------------------------------------------------------------------------
Busy == {c \in Callers : call[c] # Idle}

OnFolder(r) == r.kind \in {"folder", "document"} \/ r.folder

\* A call on a folder while another is under way, or two on one file.
Tangled(c, r) ==
    \E d \in Busy \ {c} : OnFolder(r) \/ OnFolder(call[d])
                            \/ (r.id # Null /\ r.id = call[d].id)

Begin(c, r) ==
    /\ call[c] = Idle
    /\ calls' = IF c \in Internal THEN calls ELSE calls + 1
    /\ call' = [call EXCEPT ![c] = [r EXCEPT !.no = calls']]
    /\ odd' = IF Tangled(c, r) THEN odd \cup {"tangled"} ELSE odd
    /\ UNCHANGED rows

Ends(c) == call' = [call EXCEPT ![c] = Idle]
Goes(c, at) == call' = [call EXCEPT ![c].at = at]

Tells(c, kind, p, m, from) ==
    IF c \in Internal THEN {}
    ELSE {[kind |-> kind, path |-> p, name |-> m, from |-> from, key |-> k,
           no |-> call[c].no] : k \in {from, p}}

\* Where the call's work on the row is done: it has events to send, or is over.
Told(c, events) ==
    IF c \in Internal THEN Goes(c, "done")
    ELSE IF events = {} THEN Ends(c)
    ELSE call' = [call EXCEPT ![c].at = "tell", ![c].tell = events]

-----------------------------------------------------------------------------
(* createFolder, createFile, and an agent's createDocument.                *)

StartCreate(c, kind, p, m, t) ==
    Begin(c, [Idle EXCEPT !.kind = kind, !.path = p, !.name = m, !.text = t, !.part = 1,
                          !.at = IF kind = "document" THEN "chain" ELSE "exists"])

\* A document's folders are created one by one before its file.
Making(r) ==
    IF r.kind = "document" /\ r.part <= Len(r.path)
      THEN [path |-> SubSeq(r.path, 1, r.part - 1), name |-> r.path[r.part], folder |-> TRUE]
      ELSE [path |-> r.path, name |-> r.name, folder |-> r.kind = "folder"]

Chain(c) ==
    /\ call[c].at = "chain"
    /\ LET m == Making(call[c])
       IN  \E n \in Found(m.path, m.name) :
             IF ~m.folder \/ n = Null THEN Goes(c, "exists")
             ELSE IF ~rows[n].folder THEN Ends(c)
             ELSE call' = [call EXCEPT ![c].part = @ + 1]
    /\ UNCHANGED <<rows, calls, odd>>

Exists(c) ==
    /\ call[c].at = "exists"
    /\ LET m == Making(call[c])
       IN  IF At(m.path, m.name) = {} THEN Goes(c, "parent") ELSE Ends(c)
    /\ UNCHANGED <<rows, calls, odd>>

IsFolder(n) == n # Null /\ rows[n].folder

Parent(c) ==
    /\ call[c].at = "parent"
    /\ LET m == Making(call[c])
       IN  \E n \in FoundFolder(m.path) :
             IF m.path # <<>> /\ ~IsFolder(n) THEN Ends(c)
             ELSE call' = [call EXCEPT ![c].parent = n, ![c].at = "insert"]
    /\ UNCHANGED <<rows, calls, odd>>

Insert(c) ==
    /\ call[c].at = "insert"
    /\ LET m == Making(call[c])
       IN  IF ~m.folder /\ Taken(Null, m.path, m.name)
             THEN Ends(c) /\ UNCHANGED rows
             ELSE /\ rows' = Append(rows,
                         [there |-> TRUE, parent |-> call[c].parent, path |-> m.path,
                          name |-> m.name, folder |-> m.folder, stored |-> FALSE,
                          text |-> NoText])
                  /\ IF ~m.folder
                       THEN call' = [call EXCEPT ![c].at = "store", ![c].id = Len(rows) + 1]
                     ELSE IF call[c].kind = "folder" THEN Ends(c)
                     ELSE call' = [call EXCEPT ![c].at = "chain", ![c].part = @ + 1]
    /\ UNCHANGED <<calls, odd>>

\* saveContent of the node as it is read now.
StartSave(c, n, t) ==
    /\ n \in Nodes /\ ~rows[n].folder
    /\ Begin(c, [Idle EXCEPT !.kind = "save", !.id = n, !.text = t, !.at = "store"])

\* The blob, then updateContent: a row that is gone makes the call throw.  A
\* creation is announced whatever the file's name, a save of a concept only.
Store(c) ==
    /\ call[c].at = "store"
    /\ LET r == rows[call[c].id]
           kind == IF call[c].kind = "save" THEN "update" ELSE "create"
       IN  IF ~r.there THEN Ends(c) /\ UNCHANGED rows
           ELSE /\ rows' = [rows EXCEPT ![call[c].id] =
                              [@ EXCEPT !.stored = TRUE, !.text = call[c].text]]
                /\ Told(c, IF kind = "update" /\ r.name \notin Concepts THEN {}
                           ELSE IF kind = "update" THEN Tells(c, kind, r.path, r.name, r.path)
                           ELSE Tells(c, kind, call[c].path, call[c].name, call[c].path))
    /\ UNCHANGED calls

-----------------------------------------------------------------------------
(* renameNode and moveNode.                                                *)

StartRename(c, n, m) ==
    /\ n \in Nodes
    /\ Begin(c, [Idle EXCEPT !.kind = "rename", !.id = n, !.path = rows[n].path, !.name = m,
                             !.from = FullPath(n), !.folder = rows[n].folder, !.at = "free"])

StartMove(c, n, p) ==
    /\ n \in Nodes
    /\ Begin(c, [Idle EXCEPT !.kind = "move", !.id = n, !.path = p, !.name = rows[n].name,
                             !.from = FullPath(n), !.folder = rows[n].folder, !.at = "target"])

MutantIntoItself(r, n) == r.folder /\ n = r.id

\* The guard compares the target's own path, as text, with the full path.
IntoItself(r, n) == r.folder /\ (n = r.id \/ TextBegins(rows[n].path, r.from))

Target(c) ==
    /\ call[c].at = "target"
    /\ LET p == call[c].path
       IN  \E n \in FoundFolder(p) :
             IF p # <<>> /\ (~IsFolder(n) \/ IntoItself(call[c], n)) THEN Ends(c)
             ELSE call' = [call EXCEPT ![c].parent = n, ![c].at = "free"]
    /\ UNCHANGED <<rows, calls, odd>>

Free(c) ==
    /\ call[c].at = "free"
    /\ \E n \in Found(call[c].path, call[c].name) :
         IF n \notin {Null, call[c].id} THEN Ends(c)
         ELSE Goes(c, IF call[c].folder THEN "list" ELSE "shift")
    /\ UNCHANGED <<rows, calls, odd>>

\* updatePathsForPrefix: a listing, then one UPDATE for each row below.
List(c) ==
    /\ call[c].at = "list"
    /\ LET new == Append(call[c].path, call[c].name)
           old == call[c].from
       IN  call' = [call EXCEPT ![c].at = "shift",
                      ![c].todo = {[id |-> n, path |-> new \o SubSeq(rows[n].path,
                                      Len(old) + 1, Len(rows[n].path))] : n \in Below(old)}]
    /\ UNCHANGED <<rows, calls, odd>>

Shift(c) ==
    /\ call[c].at = "shift"
    /\ \E x \in call[c].todo :
         IF /\ rows[x.id].there /\ ~rows[x.id].folder
            /\ Taken(x.id, x.path, rows[x.id].name)
           THEN Ends(c) /\ UNCHANGED rows
           ELSE /\ call' = [call EXCEPT ![c].todo = @ \ {x}]
                /\ rows' = IF rows[x.id].there THEN [rows EXCEPT ![x.id].path = x.path]
                           ELSE rows
    /\ UNCHANGED <<calls, odd>>

\* rename writes name and path, move writes parent and path.
Write(c) ==
    /\ call[c].at = "shift" /\ call[c].todo = {}
    /\ LET r == rows[call[c].id]
           name == IF call[c].kind = "rename" THEN call[c].name ELSE r.name
       IN  IF ~r.there \/ (~r.folder /\ Taken(call[c].id, call[c].path, name))
             THEN Ends(c) /\ UNCHANGED rows
             ELSE /\ rows' = [rows EXCEPT ![call[c].id] =
                        [@ EXCEPT !.path = call[c].path, !.name = name,
                                  !.parent = IF call[c].kind = "move" THEN call[c].parent
                                              ELSE r.parent]]
                  /\ Told(c, IF name \notin Concepts THEN {}
                             ELSE Tells(c, "move", call[c].path, name, Front(call[c].from)))
    /\ UNCHANGED calls

-----------------------------------------------------------------------------
(* deleteNodes: what to delete is decided on one listing, its concepts are *)
(* announced, and the rows go last, in one statement.                      *)

\* collectDescendants
Doomed(n) == {n} \cup Below(FullPath(n))

StartDelete(c, n) ==
    /\ n \in Nodes
    /\ Begin(c, [Idle EXCEPT !.kind = "delete", !.id = n, !.folder = rows[n].folder,
          !.at = "tell", !.todo = Doomed(n),
          !.tell = {[kind |-> "delete", path |-> rows[k].path, name |-> rows[k].name,
                     from |-> rows[k].path, key |-> rows[k].path, no |-> calls + 1] :
                       k \in {k \in Doomed(n) : ~rows[k].folder /\ rows[k].name \in Concepts}}])

DeleteMany(c) ==
    /\ call[c].at = "remove"
    /\ rows' = [n \in DOMAIN rows |-> IF n \in call[c].todo THEN Gone ELSE rows[n]]
    /\ Ends(c)
    /\ UNCHANGED calls

\* One event is on its way; the caller goes on when it has sent them all.
Tell(c, e) ==
    /\ call[c].at = "tell" /\ e \in call[c].tell
    /\ LET left == call[c].tell \ {e}
       IN  IF left # {} THEN call' = [call EXCEPT ![c].tell = left]
           ELSE IF call[c].kind = "delete"
             THEN call' = [call EXCEPT ![c].tell = {}, ![c].at = "remove"]
           ELSE Ends(c)
    /\ UNCHANGED <<rows, calls>>

NothingToTell(c) ==
    /\ call[c].at = "tell" /\ call[c].tell = {}
    /\ Goes(c, "remove")
    /\ UNCHANGED <<rows, calls, odd>>

-----------------------------------------------------------------------------
\* Where a client may put something: the folders there are.
Folders == {<<>>} \cup {FullPath(n) : n \in {n \in Nodes : rows[n].folder}}

\* The steps of a call, but for those that OKF maintenance adds to.
TreeStep(c) ==
    \/ Chain(c) \/ Exists(c) \/ Parent(c) \/ Insert(c)
    \/ Target(c) \/ Free(c) \/ List(c) \/ Shift(c)
    \/ NothingToTell(c)

-----------------------------------------------------------------------------
(* Properties.                                                             *)

\* The rows are the tree their paths say.  In particular no node hangs below
\* itself, nothing is left behind by the delete of a folder or by a rename, and
\* no folder is made twice.
\* Only a call on a folder that overlapped another call, or that died half way,
\* and two overlapping calls on one file (a rename writes the path the
\* file had, a move the parent it gets), may break it.
WellFormed ==
    odd \cap {"tangled", "died"} = {} /\ (\A c \in Callers : ~OnFolder(call[c]))
      => IsTree(rows)
=============================================================================
