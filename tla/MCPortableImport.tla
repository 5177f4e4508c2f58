-------------------------- MODULE MCPortableImport --------------------------
EXTENDS PortableImport, TLC

CONSTANTS c1, c2, c3, c4, i1, i2, i3, i4, i5, i6

NoRows == [i \in Ids |-> Nothing]
NoBlobs == [b \in Places |-> Nothing]
NoLinks == [i \in Ids |-> {}]
FreeIds == [i \in Ids |-> "no"]
NoArchive == [manifest |-> FALSE, files |-> {}, links |-> {}]

Empty == [rows |-> NoRows, blobs |-> NoBlobs, links |-> NoLinks, archive |-> NoArchive,
          elsewhere |-> FreeIds, can |-> [c \in Calls |-> {}], texts |-> {"new"}, mishaps |-> 0]

F(p, i, t) == [path |-> p, id |-> i, text |-> t, damaged |-> FALSE]
Can(a, b, c, d) == c1 :> a @@ c2 :> b @@ c3 :> c @@ c4 :> d
Edits == {"create", "save", "rename", "delete"}

Managed(i, p, t) == [path |-> p, ref |-> Nothing, hash |-> t, at |-> <<"managed", i>>]

\* Two documents that link to each other, exported, changed and imported.
Backup ==
    [Empty EXCEPT !.rows = (i1 :> Managed(i1, 1, "a") @@ i2 :> Managed(i2, 2, "b")) @@ NoRows,
                  !.blobs = (<<"managed", i1>> :> "a" @@ <<"managed", i2>> :> "b") @@ NoBlobs,
                  !.links = (i1 :> {i2} @@ i2 :> {i1}) @@ NoLinks,
                  !.can = Can({"export"}, Edits, Edits, {"import"})]

\* The archive in another corpus of the workspace, imported twice.
Copied ==
    [manifest |-> TRUE, files |-> {F(1, i1, "a"), F(2, i2, "b")},
     links |-> {[from |-> i1, to |-> i2, target |-> 2], [from |-> i2, to |-> Nothing, target |-> 1]}]

Elsewhere ==
    [Empty EXCEPT !.archive = Copied, !.elsewhere = (i1 :> "corpus") @@ FreeIds,
                  !.can = Can({"import"}, {"import"}, Edits, {})]

\* In another workspace, and with a file damaged.
Foreign ==
    [Elsewhere EXCEPT !.archive.files = {F(1, i1, "a"), [F(2, i2, "b") EXCEPT !.damaged = TRUE],
                                         F(3, i3, "b")},
                      !.elsewhere = (i1 :> "workspace") @@ FreeIds,
                      !.can = Can({"import"}, {}, {}, {})]

\* The first import cut short.
Retried ==
    [Elsewhere EXCEPT !.mishaps = 1, !.can = Can({"import"}, {"import"}, {}, {})]

\* A zip over a document.
Zip ==
    [Empty EXCEPT !.rows = (i1 :> Managed(i1, 1, "b")) @@ NoRows,
                  !.blobs = (<<"managed", i1>> :> "b") @@ NoBlobs,
                  !.archive = [manifest |-> FALSE, files |-> {F(1, i1, "a"), F(2, i2, "b")}, links |-> {}],
                  !.mishaps = 1,
                  !.can = Can({"import"}, {"import"}, Edits, {})]

\* The first document of the archive was imported under another name before,
\* and a new document took its name.
Renamed ==
    [Empty EXCEPT !.rows = (i1 :> [path |-> 3, ref |-> 3, hash |-> "b", at |-> <<"import", i1>>]
                            @@ i4 :> Managed(i4, 1, "new")) @@ NoRows,
                  !.blobs = (<<"import", i1>> :> "b" @@ <<"managed", i4>> :> "new") @@ NoBlobs,
                  !.archive = Copied,
                  !.mishaps = 1,
                  !.can = Can({"import"}, {"import"}, Edits, {})]

\* The same with two clients.
Edited ==
    [Renamed EXCEPT !.can = Can({"import"}, {}, {"save", "delete"}, {"save", "delete"})]

MCScenes == {Backup, Elsewhere, Foreign, Retried, Zip, Renamed, Edited}
=============================================================================
