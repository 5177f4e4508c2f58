--------------------------- MODULE RemoteHistory ---------------------------
(***************************************************************************)
(* What everybody who uses the remote repository may rely on while EvuKB   *)
(* writes to it (docs/GIT-WRITEBACK.md: force-push is forbidden, remote    *)
(* history is not rewritten, nothing is merged on conflict): a commit that *)
(* a branch contains stays in it, and one push moves one branch.           *)
(***************************************************************************)
CONSTANTS Branches, Commits

VARIABLE hist       \* the commits that each branch of the remote contains

Init == hist \in [Branches -> SUBSET Commits]

Push(b) ==
    /\ hist'[b] \in SUBSET Commits
    /\ hist[b] \subseteq hist'[b]
    /\ hist' = [hist EXCEPT ![b] = hist'[b]]

Next == \E b \in Branches : Push(b)

Spec == Init /\ [][Next]_hist
=============================================================================
