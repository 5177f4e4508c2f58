----------------------------- MODULE MCDocIndex -----------------------------
(* Small instances of DocIndex for TLC.                                    *)
EXTENDS DocIndex, TLC

CONSTANTS n1, n2, r1, r2, r3, a, b, c

\* Contents of different lengths: an empty document (no chunk) included.
MCChunkCount ==
    [x \in Contents \cup {NoContent} |->
        CASE x = NoContent -> 0 [] x = a -> 1 [] x = b -> 2 [] OTHER -> 0]

\* Requests are interchangeable where no property is temporal.
MCSymmetry == Permutations(Requests)
=============================================================================
