-------------------------- MODULE MutationApproval --------------------------
(***************************************************************************)
(* Agent writes and their approval: AgentWriteService.execute, gated by    *)
(* MutationApprovalService, and an operator's approve and reject calls.    *)
(* Each call runs as one HTTP or MCP request; approve reads the record,    *)
(* applies the stored mutation through the file manager, and only then     *)
(* moves the record out of pending.                                        *)
(*                                                                         *)
(* The file manager appears by its outcome: a write stores a document or   *)
(* throws.  How its own steps interleave is the subject of DocIndex.       *)
(* Folder chains, previews and audit rows are not in the state.            *)
(***************************************************************************)
EXTENDS Naturals, FiniteSets

CONSTANTS
    Requests,         \* write requests of agents, each executed once
    Decisions,        \* approve and reject calls of operators
    Docs,             \* document paths
    Writable,         \* those under a prefix the actor may write
    Nodes, NoNode,    \* node ids (uuids: an id is never used twice)
    Path,             \* the path a node id has, or would be created at
    Existing,         \* the nodes that are there when we start
    WorkspacePolicy,  \* settings.mutationApprovalPolicy, by key
    CorpusPolicy,     \* settings.agentMutationApprovalPolicy, by key
    Actions,          \* the kinds of write that agents ask for
    Modes             \* [serial, faults, maxCrashes]: do operators decide one after
                      \* the other, may a write store its document and then throw,
                      \* and a bound on process crashes

Keys == {"append", "create", "update", "delete"}

ASSUME ProcAssumption ==
    /\ Requests \cap Decisions = {}
    /\ Actions \subseteq Keys
    /\ Writable \subseteq Docs
    /\ NoNode \notin Nodes
    /\ Path \in [Nodes -> Docs]
    /\ Existing \subseteq Nodes

ASSUME PolicyAssumption ==
    /\ WorkspacePolicy \in [Keys -> {"always", "never", "unset"}]
    /\ CorpusPolicy \in [Keys -> {"always", "never", "inherit", "unset"}]

ASSUME ModeAssumption ==
    Modes \subseteq [serial : BOOLEAN, faults : SUBSET {"mirror"}, maxCrashes : Nat]

Procs == Requests \cup Decisions

Pc == {"idle", "resolve", "read", "insert", "store", "remove", "mark",
       "done", "failed", "crashed"}

\* Appends and creates name a path, updates and deletes a node.
Asks == [key : Keys, doc : Docs, node : Nodes]

VARIABLES
    mode,      \* one of Modes, fixed
    asked,     \* what a write request says; stored in its approval record
    call,      \* what an operator's call says: [about, verdict]
    record,    \* mutation_approval_requests.status, "none" without a row
    node,      \* the row of a node and whether its content is stored
    body,      \* whose text the document holds
    pc,        \* where a call stands
    on,        \* the node it works on
    sees,      \* the document text it goes on from
    effects,   \* how often a request's mutation has changed the corpus
    crashes

docVars == <<node, body, effects>>
vars == <<mode, asked, call, record, docVars, pc, on, sees, crashes>>

Here(n) == node[n] \in {"empty", "stored"}

TypeOK ==
    /\ mode \in Modes
    /\ asked \in [Requests -> Asks]
    /\ call \in [Decisions -> [about : Requests, verdict : {"approve", "reject"}]]
    /\ record \in [Requests -> {"none", "pending", "applied", "rejected"}]
    /\ node \in [Nodes -> {"unused", "empty", "stored", "gone"}]
    /\ body \in [Nodes -> SUBSET Requests]
    /\ pc \in [Procs -> Pc]
    /\ on \in [Procs -> Nodes \cup {NoNode}]
    /\ sees \in [Procs -> SUBSET Requests]
    /\ effects \in [Requests -> Nat]
    /\ crashes \in 0 .. mode.maxCrashes

Init ==
    /\ mode \in Modes
    /\ asked \in [Requests -> {a \in Asks : a.key \in Actions}]
    /\ call \in [Decisions -> [about : Requests, verdict : {"approve", "reject"}]]
    /\ record = [q \in Requests |-> "none"]
    /\ node = [n \in Nodes |-> IF n \in Existing THEN "stored" ELSE "unused"]
    /\ body = [n \in Nodes |-> {}]
    /\ pc = [p \in Procs |-> "idle"]
    /\ on = [p \in Procs |-> NoNode]
    /\ sees = [p \in Procs |-> {}]
    /\ effects = [q \in Requests |-> 0]
    /\ crashes = 0

\* The write request a call is about, and what it says.
About(p) == IF p \in Requests THEN p ELSE call[p].about
Asked(p) == asked[About(p)]

Goto(p, to) == pc' = [pc EXCEPT ![p] = to]

-----------------------------------------------------------------------------
(* The policy: the corpus overrides the workspace, which has defaults.     *)

Default == [k \in Keys |-> IF k = "append" THEN "never" ELSE "always"]

MutantMode(k) ==
    IF WorkspacePolicy[k] # "unset" THEN WorkspacePolicy[k]
    ELSE IF CorpusPolicy[k] \in {"always", "never"} THEN CorpusPolicy[k]
    ELSE Default[k]

Mode(k) ==
    IF CorpusPolicy[k] \in {"always", "never"} THEN CorpusPolicy[k]
    ELSE IF WorkspacePolicy[k] # "unset" THEN WorkspacePolicy[k]
    ELSE Default[k]

-----------------------------------------------------------------------------
(* Calls.                                                                  *)

\* execute: gate the write, or go on to apply it.  An agent knows the ids of
\* nodes that exist or did.
Execute(q) ==
    /\ pc[q] = "idle"
    /\ asked[q].key \in {"update", "delete"} => node[asked[q].node] # "unused"
    /\ IF Mode(asked[q].key) = "always"
         THEN record' = [record EXCEPT ![q] = "pending"] /\ Goto(q, "done")
         ELSE Goto(q, "resolve") /\ UNCHANGED record
    /\ UNCHANGED <<mode, asked, call, docVars, on, sees, crashes>>

\* approve and reject begin by reading the record.
InFlight(c) == pc[c] \notin {"idle", "done", "failed", "crashed"}

MutantDecide(c) ==
    /\ pc[c] = "idle" /\ record[call[c].about] # "none"
    /\ mode.serial => \A d \in Decisions : ~InFlight(d)
    /\ Goto(c, IF call[c].verdict = "approve" THEN "resolve" ELSE "mark")
    /\ UNCHANGED <<mode, asked, call, record, docVars, on, sees, crashes>>

Decide(c) ==
    /\ pc[c] = "idle" /\ record[call[c].about] # "none"
    /\ mode.serial => \A d \in Decisions : ~InFlight(d)
    /\ Goto(c, IF record[call[c].about] # "pending" THEN "failed"
               ELSE IF call[c].verdict = "approve" THEN "resolve" ELSE "mark")
    /\ UNCHANGED <<mode, asked, call, record, docVars, on, sees, crashes>>

-----------------------------------------------------------------------------
(* applyMutation.  A gated write goes on to mark its record.               *)

After(p) == IF p \in Requests THEN "done" ELSE "mark"

\* An error thrown on the way ends the call; an approval leaves its record.
MutantRefuse(p) == Goto(p, After(p))

Refuse(p) == Goto(p, "failed")

\* Check the path and look the node up.
Resolve(p) ==
    /\ pc[p] = "resolve"
    /\ LET a == Asked(p)
           At(d) == {n \in Nodes : Path[n] = d /\ Here(n)}
       IN  \/ /\ a.key = "append" /\ a.doc \in Writable
              /\ IF At(a.doc) = {}
                   THEN Goto(p, "insert") /\ UNCHANGED on
                   ELSE \E n \in At(a.doc) :
                           Goto(p, "read") /\ on' = [on EXCEPT ![p] = n]
           \/ /\ a.key = "create" /\ a.doc \in Writable
              /\ Goto(p, "insert") /\ UNCHANGED on
           \/ /\ a.key \in {"update", "delete"}
              /\ Here(a.node) /\ Path[a.node] \in Writable
              /\ Goto(p, IF a.key = "update" THEN "store" ELSE "remove")
              /\ on' = [on EXCEPT ![p] = a.node]
           \/ /\ IF a.key \in {"append", "create"}
                   THEN a.doc \notin Writable
                   ELSE ~Here(a.node) \/ Path[a.node] \notin Writable
              /\ Refuse(p) /\ UNCHANGED on
    /\ sees' = [sees EXCEPT ![p] = {}]
    /\ UNCHANGED <<mode, asked, call, record, docVars, crashes>>

\* appendContent reads the document and goes on from what it read.
Read(p) ==
    /\ pc[p] = "read"
    /\ IF node[on[p]] = "stored"
         THEN Goto(p, "store") /\ sees' = [sees EXCEPT ![p] = body[on[p]]]
         ELSE Refuse(p) /\ UNCHANGED sees
    /\ UNCHANGED <<mode, asked, call, record, docVars, on, crashes>>

\* createFile inserts the row, unless the path is taken.
Insert(p) ==
    /\ pc[p] = "insert"
    /\ IF \E n \in Nodes : Path[n] = Asked(p).doc /\ Here(n)
         THEN Refuse(p) /\ UNCHANGED <<node, on>>
         ELSE \E n \in Nodes :
                /\ Path[n] = Asked(p).doc /\ node[n] = "unused"
                /\ node' = [node EXCEPT ![n] = "empty"]
                /\ on' = [on EXCEPT ![p] = n]
                /\ Goto(p, "store")
    /\ UNCHANGED <<mode, asked, call, record, body, effects, sees, crashes>>

Changes(p) == effects' = [effects EXCEPT ![About(p)] = @ + 1]

\* The document is stored, unless its row is gone; then the write may throw.
Store(p, to) ==
    /\ pc[p] = "store"
    /\ to = After(p) \/ (to = "failed" /\ "mirror" \in mode.faults)
    /\ IF Here(on[p])
         THEN /\ node' = [node EXCEPT ![on[p]] = "stored"]
              /\ body' = [body EXCEPT ![on[p]] = sees[p] \cup {About(p)}]
              /\ Changes(p)
              /\ Goto(p, to)
         ELSE Refuse(p) /\ UNCHANGED docVars
    /\ UNCHANGED <<mode, asked, call, record, on, sees, crashes>>

\* deleteNodes deletes what is still there, and is content with nothing.  It
\* may throw before the rows are deleted, in the mirror, or after, in the audit.
Remove(p, to) ==
    /\ pc[p] = "remove"
    /\ to = After(p) \/ (to = "failed" /\ "mirror" \in mode.faults)
    /\ \/ Here(on[p]) /\ node' = [node EXCEPT ![on[p]] = "gone"] /\ Changes(p)
       \/ (~Here(on[p]) \/ to = "failed") /\ UNCHANGED <<node, effects>>
    /\ Goto(p, to)
    /\ UNCHANGED <<mode, asked, call, record, body, on, sees, crashes>>

-----------------------------------------------------------------------------
(* The end of a decision: UPDATE ... WHERE status = 'pending'.             *)

MutantStatusOf(c) == call[c].verdict

StatusOf(c) == IF call[c].verdict = "approve" THEN "applied" ELSE "rejected"

MutantMark(c) ==
    /\ pc[c] = "mark"
    /\ record' = [record EXCEPT ![About(c)] = StatusOf(c)]
    /\ Goto(c, "done")
    /\ UNCHANGED <<mode, asked, call, docVars, on, sees, crashes>>

Mark(c) ==
    /\ pc[c] = "mark"
    /\ IF record[About(c)] = "pending"
         THEN record' = [record EXCEPT ![About(c)] = StatusOf(c)] /\ Goto(c, "done")
         ELSE Refuse(c) /\ UNCHANGED record
    /\ UNCHANGED <<mode, asked, call, docVars, on, sees, crashes>>

\* The process dies: calls in flight are lost, rows and records stay.
Crash ==
    /\ crashes < mode.maxCrashes
    /\ crashes' = crashes + 1
    /\ pc' = [p \in Procs |-> IF InFlight(p) THEN "crashed" ELSE pc[p]]
    /\ UNCHANGED <<mode, asked, call, record, docVars, on, sees>>

Apply(p) ==
    \/ Resolve(p) \/ Read(p) \/ Insert(p)
    \/ \E to \in {"done", "mark", "failed"} : Store(p, to) \/ Remove(p, to)

Next ==
    \/ \E q \in Requests : Execute(q)
    \/ \E c \in Decisions : Decide(c) \/ Mark(c)
    \/ \E p \in Procs : Apply(p)
    \/ Crash

Spec == Init /\ [][Next]_vars

-----------------------------------------------------------------------------
(* What must hold.                                                         *)

(***************************************************************************)
(* A verdict is final: an operator whose call succeeded finds the record   *)
(* as they decided, however many others decided at the same time.          *)
(***************************************************************************)
VerdictHolds ==
    \A c \in Decisions : pc[c] = "done" => record[About(c)] = StatusOf(c)

(***************************************************************************)
(* A record marked applied has been applied, across races, failures and    *)
(* crashes: its mutation changed the corpus, or was the deletion of a node *)
(* that is gone.                                                           *)
(***************************************************************************)
AppliedHasEffect ==
    \A q \in Requests :
        record[q] = "applied"
          => \/ effects[q] > 0
             \/ asked[q].key = "delete" /\ node[asked[q].node] = "gone"

(***************************************************************************)
(* Where the corpus policy says always, no write changes a document before *)
(* some operator's approve call has read its pending record.               *)
(***************************************************************************)
GatedNeedsApproval ==
    \A q \in Requests :
        CorpusPolicy[asked[q].key] = "always" /\ effects[q] > 0
          => \E c \in Decisions :
                About(c) = q /\ call[c].verdict = "approve" /\ pc[c] # "idle"

(***************************************************************************)
(* Reject leaves content unchanged.                                        *)
(***************************************************************************)
RejectLeavesContent ==
    \A q \in Requests : record[q] = "rejected" => effects[q] = 0

(***************************************************************************)
(* Where decisions are taken one after the other and nothing fails, the    *)
(* queue is the ledger.  A pending record whose mutation is stored counts  *)
(* as applied.                                                             *)
(***************************************************************************)
Verdict(q) ==
    CASE record[q] = "none" /\ pc[q] = "idle" -> "unasked"
      [] record[q] = "none" /\ pc[q] # "idle" -> "ungated"
      [] record[q] = "pending" /\ effects[q] > 0 -> "applied"
      [] OTHER -> record[q]

Ledger == INSTANCE ApprovalLedger
            WITH verdict <- [q \in Requests |-> Verdict(q)]

Orderly == mode.serial /\ mode.faults = {} /\ mode.maxCrashes = 0

LedgerSpec == /\ Orderly => Ledger!Init
              /\ [][Orderly => Ledger!Next]_<<[q \in Requests |-> Verdict(q)], effects>>
=============================================================================
