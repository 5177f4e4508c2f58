-------------------------- MODULE MCOkfMaintenance --------------------------
EXTENDS OkfMaintenance, TLC

CONSTANTS u1, u2

MCBegins == {<<"ab", "a">>}
MCDocPaths == {<<"a">>, <<"ab">>, <<"a", "ab">>}

Node(parent, path, name, folder, text) ==
    [there |-> TRUE, parent |-> parent, path |-> path, name |-> name,
     folder |-> folder, stored |-> ~folder, text |-> text]

Ordered ==
    <<Node(Null, <<>>, "a", TRUE, NoText),
      Node(1, <<"a">>, "x.md", FALSE, NoText),
      Node(1, <<"a">>, "index.md", FALSE, [NoText EXCEPT !.listed = {"x.md"}])>>

Nested ==
    <<Node(Null, <<>>, "a", TRUE, NoText),
      Node(1, <<"a">>, "ab", TRUE, NoText),
      Node(2, <<"a", "ab">>, "x.md", FALSE, NoText)>>

Saved == [kind |-> "update", path |-> <<"a">>, name |-> "x.md", from |-> <<"a">>,
          key |-> <<"a">>, no |-> 0]

Deep == [workspace |-> <<<<"a", "ab">>>>, corpus |-> <<>>, token |-> <<>>]

\* Prefixes, and lists of up to two of them.
Places == {<<"a">>, <<"ab">>, <<"a", "ab">>}
Lists == {<<p>> : p \in Places} \cup {<<p, q>> : p, q \in Places}
AllLayers == [workspace: Lists, corpus: Lists \cup {<<>>}, token: {<<>>} \cup {<<p>> : p \in Places}]

\* An OKF corpus with a folder in order, another corpus with a folder in a
\* folder, and one that agents write to under all kinds of prefixes.
MCCorpora ==
    {[okf |-> TRUE, rows |-> Ordered, saved |-> {Saved}, layers |-> Deep,
       kinds |-> {"file", "save", "delete"}, maxCalls |-> 2, maxCrashes |-> 0],
     [okf |-> TRUE, rows |-> Ordered, saved |-> {}, layers |-> Deep,
       kinds |-> Kinds \ {"folder", "document"}, maxCalls |-> 2, maxCrashes |-> 0],
     [okf |-> TRUE, rows |-> Ordered, saved |-> {}, layers |-> Deep,
       kinds |-> Kinds, maxCalls |-> 1, maxCrashes |-> 1],
     [okf |-> FALSE, rows |-> Nested, saved |-> {}, layers |-> Deep,
       kinds |-> Kinds \ {"save"}, maxCalls |-> 3, maxCrashes |-> 0]}
    \cup {[okf |-> FALSE, rows |-> <<>>, saved |-> {}, layers |-> l,
            kinds |-> {"document"}, maxCalls |-> 1, maxCrashes |-> 0] : l \in AllLayers}

Interchangeable == Permutations({u1, u2})
=============================================================================
