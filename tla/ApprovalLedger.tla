--------------------------- MODULE ApprovalLedger ---------------------------
(***************************************************************************)
(* What the approval queue promises: a gated write takes effect when it is *)
(* approved and only then, at most once; a rejected one never does; a      *)
(* verdict is final.                                                       *)
(***************************************************************************)
EXTENDS Naturals

CONSTANT Requests     \* write requests of agents

VARIABLES
    verdict,   \* what has become of a request
    effects    \* how often its mutation has changed the corpus

vars == <<verdict, effects>>

Verdicts == {"unasked", "ungated", "pending", "applied", "rejected"}

TypeOK ==
    /\ verdict \in [Requests -> Verdicts]
    /\ effects \in [Requests -> 0 .. 1]

Init ==
    /\ verdict = [q \in Requests |-> "unasked"]
    /\ effects = [q \in Requests |-> 0]

Ask(q, gated) ==
    /\ verdict[q] = "unasked"
    /\ verdict' = [verdict EXCEPT ![q] = IF gated THEN "pending" ELSE "ungated"]
    /\ UNCHANGED effects

\* Approval and effect are one step; a delete may find nothing left to delete.
Apply(q, changed) ==
    /\ verdict[q] = "pending"
    /\ verdict' = [verdict EXCEPT ![q] = "applied"]
    /\ effects' = [effects EXCEPT ![q] = changed]

Reject(q) ==
    /\ verdict[q] = "pending"
    /\ verdict' = [verdict EXCEPT ![q] = "rejected"]
    /\ UNCHANGED effects

Run(q) ==
    /\ verdict[q] = "ungated" /\ effects[q] = 0
    /\ effects' = [effects EXCEPT ![q] = 1]
    /\ UNCHANGED verdict

Next ==
    \E q \in Requests :
        \/ \E gated \in BOOLEAN : Ask(q, gated)
        \/ \E changed \in 0 .. 1 : Apply(q, changed)
        \/ Reject(q) \/ Run(q)

Spec == Init /\ [][Next]_vars
=============================================================================
