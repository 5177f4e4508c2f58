---------------------------- MODULE MCIndexView -----------------------------
(* Small situations of SearchIndex for TLC.                                  *)
EXTENDS SearchIndex, TLC

CONSTANTS n1, n2, r1, r2, r3, a, b, c, pa, paMd, pb, pbMd

\* Contents of different lengths: an empty document (no chunk) included.
MCChunkCount ==
    [x \in Contents \cup {NoContent} |->
        CASE x = NoContent -> 0 [] x = a -> 1 [] x = b -> 2 [] OTHER -> 0]

MCSpelling == (pa :> paMd) @@ (paMd :> pa) @@ (pb :> pbMd) @@ (pbMd :> pb)

\* a links to one file, b to another, c to none; both links leave ".md" out.
MCLinksOf == (a :> {pa}) @@ (b :> {pb}) @@ (c :> {})

Stored(x) == (n1 :> x) @@ (n2 :> NoContent)
Paths(p, q) == (n1 :> p) @@ (n2 :> q)

\* OKF bootstrap's index.md, created and indexed by the request r1 itself while
\* clients save it and the worker indexes it.
Bootstrap(reqs, texts, failing) ==
    [stored |-> Stored(a), at |-> Paths(pbMd, paMd), requests |-> reqs,
     nodes |-> {n2}, contents |-> texts, paths |-> {paMd},
     ops |-> {"create", "save"}, faults |-> failing, maxCrashes |-> 0,
     loads |-> 0, streams |-> 0, backend |-> "none"]

\* Overlapping saves; index jobs are not sent, or the process dies.
Crashed == [stored |-> Stored(a), at |-> Paths(paMd, pbMd), requests |-> {r2, r3},
            nodes |-> {n1}, contents |-> {b, c}, paths |-> {},
            ops |-> {"save"}, faults |-> {"send"}, maxCrashes |-> 1,
            loads |-> 0, streams |-> 0, backend |-> "none"]

\* Two documents that link to each other and to nothing, moving about.
Linked == [stored |-> Stored(b), at |-> Paths(paMd, pbMd), requests |-> {r2, r3},
           nodes |-> {n1, n2}, contents |-> {a}, paths |-> {pa, paMd, pbMd},
           ops |-> {"create", "save", "delete", "rename", "reindex"},
           faults |-> {}, maxCrashes |-> 0, loads |-> 0, streams |-> 0, backend |-> "none"]

\* One document in a page that is open: a save whose indexing may fail, and two
\* calls that may overlap.
Watched(reqs, failing, cuts) ==
    [stored |-> Stored(c), at |-> Paths(paMd, pbMd), requests |-> reqs,
     nodes |-> {n1}, contents |-> {c}, paths |-> {}, ops |-> {"save", "sweep"},
     faults |-> failing, maxCrashes |-> 0, loads |-> 2, streams |-> cuts, backend |-> "none"]

\* Validation alone.
Validated == [stored |-> Stored(a), at |-> Paths(paMd, pbMd), requests |-> {r2},
              nodes |-> {n1}, contents |-> {}, paths |-> {}, ops |-> {"validate"},
              faults |-> {}, maxCrashes |-> 0, loads |-> 0, streams |-> 0, backend |-> "none"]

\* A search while another document comes, changes and goes; the one stored has
\* two of the three chunks that are asked for.
Sought(reqs, texts, called, failing, deaths, vectors) ==
    [stored |-> Stored(b), at |-> Paths(paMd, pbMd), requests |-> reqs,
     nodes |-> {n2}, contents |-> texts, paths |-> {pbMd}, ops |-> called,
     faults |-> failing, maxCrashes |-> deaths, loads |-> 0, streams |-> 0,
     backend |-> vectors]

\* The clients' calls are interchangeable; what r1 bootstraps is not.
Clients == Permutations({r2, r3})

MCScenes ==
    {Bootstrap({r1, r2}, {a, b, c}, {}), Bootstrap({r1, r2}, {b}, {"index"}), Crashed,
     Linked, Watched({r2}, {"index"}, 2), Watched({r2, r3}, {}, 1), Validated,
     Sought({r2, r3}, {a}, {"create", "save", "delete"}, {}, 0, "qdrant"),
     Sought({r2, r3}, {a}, {"create", "save", "delete"}, {}, 0, "pgvector"),
     Sought({r2, r3}, {a}, {"create", "save"}, {}, 1, "qdrant"),
     Sought({r2, r3}, {a, b}, {"create", "save"}, {}, 0, "qdrant"),
     Sought({r2}, {a}, {"create"}, {"index"}, 0, "qdrant"),
     Sought({r2}, {a}, {"reindex"}, {}, 0, "qdrant"),
     Sought({r1}, {a}, {"create"}, {}, 0, "qdrant")}
=============================================================================
