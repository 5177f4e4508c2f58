------------------------- MODULE MCMutationApproval -------------------------
(* Small instances of MutationApproval for TLC.                            *)
EXTENDS MutationApproval, TLC

CONSTANTS q1, q2, c1, c2, c3, d1, d2, n1, n2, n3

\* Two ids for the first path, where a document may come and go; one for the
\* second.
MCPath == [n \in Nodes |-> IF n = n3 THEN d2 ELSE d1]

MCUnset == [k \in Keys |-> "unset"]
\* The workspace lets updates pass and the corpus gates them again; the rest is
\* left to the defaults.
MCWorkspace == [k \in Keys |-> IF k = "update" THEN "never" ELSE "unset"]
MCCorpus == [k \in Keys |-> IF k = "update" THEN "always" ELSE "inherit"]

Racing == [serial |-> FALSE, faults |-> {}, maxCrashes |-> 0]
MCRacing == {Racing}
MCModes == {[Racing EXCEPT !.faults = {"mirror"}, !.maxCrashes = 1],
            [Racing EXCEPT !.serial = TRUE]}

MCSymmetry == Permutations(Decisions)
=============================================================================
