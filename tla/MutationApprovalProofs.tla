----------------------- MODULE MutationApprovalProofs -----------------------
(***************************************************************************)
(* Proofs about MutationApproval, for every set of requests, decisions and *)
(* nodes, both policies, concurrent or serial operators, with and without  *)
(* failing mirrors, and any number of crashes.                             *)
(***************************************************************************)
EXTENDS MutationApproval, TLAPS

USE DEF Procs

-----------------------------------------------------------------------------
(* The inductive invariants.                                               *)

\* The stages of applyMutation.
Applying == {"resolve", "read", "insert", "store", "remove"}

\* A call that works on a node is on one.
Placed == \A p \in Procs : pc[p] \in {"read", "store", "remove"} => on[p] \in Nodes

TypeInv == TypeOK /\ Placed

\* A request that has a record has been executed.
Begun == \A q \in Requests : record[q] # "none" => pc[q] # "idle"

\* Only what is not gated, or is being approved, is applied.
Gate ==
    /\ \A q \in Requests : pc[q] \in Applying => CorpusPolicy[asked[q].key] # "always"
    /\ \A c \in Decisions : pc[c] \in Applying => call[c].verdict = "approve"

\* A call about to delete has found the node that was asked for.
Removing ==
    \A p \in Procs :
        pc[p] = "remove" =>
            /\ Asked(p).key = "delete"
            /\ on[p] = Asked(p).node
            /\ node[on[p]] # "unused"

\* The mutation of q has changed the corpus, or found its node deleted.
Took(q) ==
    \/ effects[q] > 0
    \/ asked[q].key = "delete" /\ node[asked[q].node] = "gone"

\* An approval marks its record after it has applied the mutation.
Marking ==
    \A c \in Decisions :
        pc[c] = "mark" /\ call[c].verdict = "approve" => Took(About(c))

-----------------------------------------------------------------------------
(* Types.                                                                  *)

\* A call is about a request, which asks for something.
LEMMA AboutType ==
    ASSUME TypeOK, NEW p \in Procs
    PROVE  About(p) \in Requests /\ Asked(p) \in Asks
BY DEF About, Asked, TypeOK

\* The initial states are typed.
LEMMA TypeInit == Init => TypeInv
<1> SUFFICES ASSUME Init PROVE TypeInv
    OBVIOUS
<1>1. asked \in [Requests -> Asks]
    BY DEF Init
<1>2. crashes \in 0 .. mode.maxCrashes
    BY ModeAssumption DEF Init
<1>3. TypeOK
    BY <1>1, <1>2 DEF Init, TypeOK, Pc
<1>4. Placed
    BY DEF Init, Placed
<1> QED
    BY <1>3, <1>4 DEF TypeInv

\* A step of one call, which may move it anywhere but puts it on a node
\* before it works on one.
LEMMA Moves ==
    ASSUME TypeInv, NEW p \in Procs, NEW to \in Pc, Goto(p, to),
           on' \in [Procs -> Nodes \cup {NoNode}],
           to \in {"read", "store", "remove"} => on'[p] \in Nodes,
           \A r \in Procs : r # p => on'[r] = on[r]
    PROVE  pc' \in [Procs -> Pc] /\ Placed'
<1>1. /\ pc' \in [Procs -> Pc]
      /\ pc'[p] = to
      /\ \A r \in Procs : r # p => pc'[r] = pc[r]
    BY DEF Goto, TypeInv, TypeOK
<1> QED
    BY <1>1 DEF Placed, TypeInv

\* The types that a step of applyMutation leaves alone.
Frame == <<mode, asked, call, record, crashes>>

\* Every step of applyMutation keeps the types.
LEMMA ApplyType ==
    ASSUME TypeInv, NEW p \in Procs, Apply(p)
    PROVE  TypeInv'
<1>1. TypeOK /\ About(p) \in Requests /\ Asked(p) \in Asks
    BY AboutType DEF TypeInv
<1>2. UNCHANGED Frame
    BY DEF Apply, Resolve, Read, Insert, Store, Remove, Frame, docVars
<1>3. /\ node' \in [Nodes -> {"unused", "empty", "stored", "gone"}]
      /\ body' \in [Nodes -> SUBSET Requests]
      /\ effects' \in [Requests -> Nat]
    <2>1. \A k \in Nat : k + 1 \in Nat
        OBVIOUS
    <2>2. CASE Resolve(p) \/ Read(p) \/ Insert(p)
        BY <1>1, <2>2 DEF Resolve, Read, Insert, docVars, TypeOK
    <2>3. CASE \E to \in {"done", "mark", "failed"} : Remove(p, to)
        <3>1. CASE UNCHANGED <<node, effects>>
            BY <1>1, <2>3, <3>1 DEF Remove, TypeOK
        <3>2. CASE node' = [node EXCEPT ![on[p]] = "gone"] /\ Changes(p)
            BY <1>1, <2>1, <2>3, <3>2 DEF Remove, Changes, TypeOK
        <3> QED
            BY <2>3, <3>1, <3>2 DEF Remove
    <2>4. CASE \E to \in {"done", "mark", "failed"} : Store(p, to)
        <3>1. sees[p] \cup {About(p)} \in SUBSET Requests
            BY <1>1 DEF TypeOK
        <3>2. CASE UNCHANGED docVars
            BY <1>1, <3>2 DEF docVars, TypeOK
        <3>3. CASE Here(on[p])
            <4>1. /\ node' = [node EXCEPT ![on[p]] = "stored"]
                  /\ body' = [body EXCEPT ![on[p]] = sees[p] \cup {About(p)}]
                  /\ effects' = [effects EXCEPT ![About(p)] = @ + 1]
                BY <2>4, <3>3 DEF Store, Changes
            <4> QED
                BY <1>1, <2>1, <3>1, <4>1 DEF TypeOK
        <3> QED
            BY <2>4, <3>2, <3>3 DEF Store
    <2> QED
        BY <2>2, <2>3, <2>4 DEF Apply
<1>4. sees' \in [Procs -> SUBSET Requests]
    <2>1. CASE Read(p)
        <3>1. on[p] \in Nodes
            BY <2>1 DEF Read, TypeInv, Placed
        <3> QED
            BY <1>1, <2>1, <3>1 DEF Read, TypeOK
    <2>2. CASE Resolve(p)
        BY <1>1, <2>2 DEF Resolve, TypeOK
    <2> QED
        BY <1>1, <2>1, <2>2 DEF Apply, Insert, Store, Remove, TypeOK
<1>5. /\ on' \in [Procs -> Nodes \cup {NoNode}]
      /\ pc' \in [Procs -> Pc]
      /\ Placed'
    <2>1. \E to \in Pc :
              /\ Goto(p, to)
              /\ on' \in [Procs -> Nodes \cup {NoNode}]
              /\ to \in {"read", "store", "remove"} => on'[p] \in Nodes
              /\ \A r \in Procs : r # p => on'[r] = on[r]
        <3>1. CASE Resolve(p)
            <4>1. Asked(p).node \in Nodes
                BY <1>1 DEF Asks
            <4>2. \/ \E n \in Nodes : Goto(p, "read") /\ on' = [on EXCEPT ![p] = n]
                  \/ Goto(p, "insert") /\ UNCHANGED on
                  \/ \E n \in Nodes : Goto(p, "store") /\ on' = [on EXCEPT ![p] = n]
                  \/ \E n \in Nodes : Goto(p, "remove") /\ on' = [on EXCEPT ![p] = n]
                  \/ Goto(p, "failed") /\ UNCHANGED on
                BY <3>1, <4>1 DEF Resolve, Refuse
            <4> QED
                BY <1>1, <4>2 DEF TypeOK, Pc
        <3>2. CASE Read(p)
            BY <1>1, <3>2 DEF Read, Refuse, TypeInv, Placed, TypeOK, Pc
        <3>3. CASE Insert(p)
            <4>1. \/ Goto(p, "failed") /\ UNCHANGED on
                  \/ \E n \in Nodes : Goto(p, "store") /\ on' = [on EXCEPT ![p] = n]
                BY <3>3 DEF Insert, Refuse
            <4> QED
                BY <1>1, <4>1 DEF TypeOK, Pc
        <3>4. CASE \E to \in {"done", "mark", "failed"} : Remove(p, to)
            <4>1. (\E to \in {"done", "mark", "failed"} : Goto(p, to)) /\ on' = on
                BY <3>4 DEF Remove
            <4> QED
                BY <1>1, <4>1 DEF TypeOK, Pc
        <3>5. CASE \E to \in {"done", "mark", "failed"} : Store(p, to)
            <4>1. (\E to \in {"done", "mark", "failed"} : Goto(p, to)) /\ on' = on
                BY <3>5 DEF Store, Refuse
            <4> QED
                BY <1>1, <4>1 DEF TypeOK, Pc
        <3> QED
            BY <3>1, <3>2, <3>3, <3>4, <3>5 DEF Apply
    <2> QED
        BY <2>1, Moves
<1> QED
    BY <1>1, <1>2, <1>3, <1>4, <1>5 DEF TypeInv, TypeOK, Frame

\* Every step of the system keeps the types.
LEMMA TypeStep == TypeInv /\ [Next]_vars => TypeInv'
<1> SUFFICES ASSUME TypeInv, [Next]_vars PROVE TypeInv'
    OBVIOUS
<1>1. TypeOK
    BY DEF TypeInv
<1>2. CASE \E q \in Requests : Execute(q)
    <2>1. PICK q \in Requests : Execute(q)
        BY <1>2
    <2>2. /\ \E to \in {"done", "resolve"} : Goto(q, to)
          /\ record' \in [Requests -> {"none", "pending", "applied", "rejected"}]
          /\ UNCHANGED <<mode, asked, call, docVars, on, sees, crashes>>
        BY <1>1, <2>1 DEF Execute, TypeOK
    <2>3. pc' \in [Procs -> Pc] /\ Placed'
        BY <1>1, <2>2, Moves DEF TypeOK, Pc
    <2> QED
        BY <1>1, <2>2, <2>3 DEF TypeInv, TypeOK, docVars
<1>3. CASE \E c \in Decisions : Decide(c) \/ Mark(c)
    <2>1. PICK c \in Decisions : Decide(c) \/ Mark(c)
        BY <1>3
    <2>2. /\ \E to \in {"done", "failed", "resolve", "mark"} : Goto(c, to)
          /\ record' \in [Requests -> {"none", "pending", "applied", "rejected"}]
          /\ UNCHANGED <<mode, asked, call, docVars, on, sees, crashes>>
        BY <1>1, <2>1 DEF Decide, Mark, Refuse, StatusOf, TypeOK
    <2>3. pc' \in [Procs -> Pc] /\ Placed'
        BY <1>1, <2>2, Moves DEF TypeOK, Pc
    <2> QED
        BY <1>1, <2>2, <2>3 DEF TypeInv, TypeOK, docVars
<1>4. CASE \E p \in Procs : Apply(p)
    BY <1>4, ApplyType
<1>5. CASE Crash
    <2>1. crashes' \in 0 .. mode.maxCrashes
        BY <1>1, <1>5, ModeAssumption DEF Crash, TypeOK
    <2>2. pc' \in [Procs -> Pc] /\ Placed'
        BY <1>1, <1>5 DEF Crash, TypeInv, Placed, TypeOK, Pc
    <2> QED
        BY <1>1, <1>5, <2>1, <2>2 DEF Crash, TypeInv, TypeOK, docVars
<1>6. CASE UNCHANGED vars
    BY <1>6 DEF TypeInv, TypeOK, Placed, vars, docVars
<1> QED
    BY <1>2, <1>3, <1>4, <1>5, <1>6 DEF Next

\* Every variable keeps its type (TypeOK).
THEOREM TypeCorrect == Spec => []TypeOK
<1>1. TypeInv => TypeOK
    BY DEF TypeInv
<1> QED
    BY <1>1, TypeInit, TypeStep, PTL DEF Spec

-----------------------------------------------------------------------------
(* What steps do.                                                          *)

\* What is asked never changes, nodes only go forward, effects only grow.
LEMMA Later ==
    ASSUME TypeInv, [Next]_vars
    PROVE  /\ UNCHANGED <<mode, asked, call>>
           /\ \A q \in Requests : effects[q] > 0 => effects'[q] > 0
           /\ \A n \in Nodes : node[n] = "gone" => node'[n] = "gone"
           /\ \A n \in Nodes : node[n] # "unused" => node'[n] # "unused"
<1>1. TypeOK
    BY DEF TypeInv
<1>2. CASE \E p \in Procs : Store(p, "done") \/ Store(p, "mark") \/ Store(p, "failed")
    <2>1. PICK p \in Procs, to \in {"done", "mark", "failed"} : Store(p, to)
        BY <1>2
    <2>2. UNCHANGED <<mode, asked, call>>
        BY <2>1 DEF Store
    <2>3. CASE UNCHANGED docVars
        BY <2>2, <2>3 DEF docVars
    <2>4. CASE Here(on[p])
        <3>1. /\ node' = [node EXCEPT ![on[p]] = "stored"]
              /\ effects' = [effects EXCEPT ![About(p)] = @ + 1]
            BY <2>1, <2>4 DEF Store, Changes
        <3>2. \A q \in Requests : effects[q] \in Nat
            BY <1>1 DEF TypeOK
        <3>3. \A q \in Requests : effects[q] > 0 => effects'[q] > 0
            BY <1>1, <3>1, <3>2 DEF TypeOK
        <3>4. node[on[p]] # "gone"
            BY <2>4 DEF Here
        <3> QED
            BY <1>1, <2>2, <3>1, <3>3, <3>4 DEF TypeOK
    <2> QED
        BY <2>1, <2>3, <2>4 DEF Store
<1>3. CASE \E p \in Procs : \E to \in {"done", "mark", "failed"} : Remove(p, to)
    <2>1. PICK p \in Procs, to \in {"done", "mark", "failed"} : Remove(p, to)
        BY <1>3
    <2>2. UNCHANGED <<mode, asked, call>>
        BY <2>1 DEF Remove
    <2>3. CASE UNCHANGED <<node, effects>>
        BY <2>2, <2>3
    <2>4. CASE node' = [node EXCEPT ![on[p]] = "gone"] /\ Changes(p)
        <3>1. /\ node' = [node EXCEPT ![on[p]] = "gone"]
              /\ effects' = [effects EXCEPT ![About(p)] = @ + 1]
            BY <2>4 DEF Changes
        <3>2. \A q \in Requests : effects[q] \in Nat
            BY <1>1 DEF TypeOK
        <3>3. \A q \in Requests : effects[q] > 0 => effects'[q] > 0
            BY <1>1, <3>1, <3>2 DEF TypeOK
        <3> QED
            BY <1>1, <2>2, <3>1, <3>3 DEF TypeOK
    <2> QED
        BY <2>1, <2>3, <2>4 DEF Remove
<1>4. CASE \E p \in Procs : Insert(p)
    <2>1. PICK p \in Procs : Insert(p)
        BY <1>4
    <2>2. /\ UNCHANGED <<mode, asked, call, effects>>
          /\ \/ node' = node
             \/ \E n \in Nodes : node[n] = "unused" /\ node' = [node EXCEPT ![n] = "empty"]
        BY <2>1 DEF Insert
    <2> QED
        BY <1>1, <2>2 DEF TypeOK
<1>5. CASE \/ \E q \in Requests : Execute(q)
           \/ \E c \in Decisions : Decide(c) \/ Mark(c)
           \/ \E p \in Procs : Resolve(p) \/ Read(p)
           \/ Crash
           \/ UNCHANGED vars
    <2>1. UNCHANGED <<mode, asked, call, node, effects>>
        BY <1>5 DEF Execute, Decide, Mark, Resolve, Read, Crash, vars, docVars
    <2> QED
        BY <2>1
<1> QED
    BY <1>2, <1>3, <1>4, <1>5 DEF Next, Apply

\* Where a step of applyMutation leads, and what is then true.
LEMMA ApplyMoves ==
    ASSUME TypeInv, Removing, NEW p \in Procs, Apply(p)
    PROVE  /\ record' = record
           /\ pc[p] \in Applying
           /\ \A r \in Procs : r # p => pc'[r] = pc[r] /\ on'[r] = on[r]
           /\ pc'[p] \in Applying \cup {After(p), "failed"}
           /\ pc'[p] = "mark" => Took(About(p))'
           /\ pc'[p] = "remove" => /\ Asked(p).key = "delete"
                                   /\ on'[p] = Asked(p).node
                                   /\ node'[on'[p]] # "unused"
           /\ \A q \in Requests : q # About(p) => effects'[q] = effects[q]
<1>1. TypeOK /\ About(p) \in Requests /\ Asked(p) \in Asks
    BY AboutType DEF TypeInv
<1>2. UNCHANGED <<mode, asked, call, record>>
    BY DEF Apply, Resolve, Read, Insert, Store, Remove
<1>3. Asked(p) = asked[About(p)] /\ After(p) \in {"done", "mark"}
    BY DEF Asked, After
<1>4. CASE Resolve(p)
    <2>1. UNCHANGED <<node, effects>> /\ pc[p] = "resolve"
        BY <1>4 DEF Resolve, docVars
    <2>2. Asked(p).node \in Nodes
        BY <1>1 DEF Asks
    <2>3. \/ \E n \in Nodes : Goto(p, "read") /\ on' = [on EXCEPT ![p] = n]
          \/ Goto(p, "insert") /\ UNCHANGED on
          \/ /\ Goto(p, "store") /\ on' = [on EXCEPT ![p] = Asked(p).node]
          \/ /\ Goto(p, "remove") /\ on' = [on EXCEPT ![p] = Asked(p).node]
             /\ Asked(p).key = "delete" /\ node[Asked(p).node] # "unused"
          \/ Goto(p, "failed") /\ UNCHANGED on
        BY <1>4, <2>2 DEF Resolve, Refuse, Here
    <2> QED
        BY <1>1, <1>2, <2>1, <2>2, <2>3 DEF Goto, TypeOK, Applying
<1>5. CASE Read(p) \/ Insert(p)
    <2>1. UNCHANGED effects /\ pc[p] \in {"read", "insert"}
        BY <1>5 DEF Read, Insert, docVars
    <2>2. \/ (Goto(p, "store") \/ Goto(p, "failed")) /\ UNCHANGED on
          \/ \E n \in Nodes : Goto(p, "store") /\ on' = [on EXCEPT ![p] = n]
        BY <1>5 DEF Read, Insert, Refuse
    <2> QED
        BY <1>1, <1>2, <2>1, <2>2 DEF Goto, TypeOK, Applying
<1>6. CASE \E to \in {"done", "mark", "failed"} : Store(p, to)
    <2>1. PICK to \in {"done", "mark", "failed"} : Store(p, to)
        BY <1>6
    <2>2. pc[p] = "store" /\ on' = on /\ (to = After(p) \/ to = "failed")
        BY <2>1 DEF Store
    <2>3. CASE Goto(p, "failed") /\ UNCHANGED docVars
        BY <1>1, <1>2, <2>2, <2>3 DEF Goto, TypeOK, Applying, docVars
    <2>4. CASE Goto(p, to) /\ Changes(p)
        <3>1. effects' = [effects EXCEPT ![About(p)] = @ + 1] /\ effects[About(p)] \in Nat
            BY <1>1, <2>4 DEF Changes, TypeOK
        <3>2. effects'[About(p)] > 0
            BY <1>1, <3>1 DEF TypeOK
        <3>3. About(p)' = About(p)
            BY <1>2 DEF About
        <3>4. Took(About(p))'
            BY <3>2, <3>3 DEF Took
        <3>5. \A q \in Requests : q # About(p) => effects'[q] = effects[q]
            BY <1>1, <3>1 DEF TypeOK
        <3>6. pc'[p] = to /\ \A r \in Procs : r # p => pc'[r] = pc[r]
            BY <1>1, <2>4 DEF Goto, TypeOK
        <3> QED
            BY <1>2, <2>2, <3>4, <3>5, <3>6 DEF Applying
    <2> QED
        BY <2>1, <2>3, <2>4 DEF Store, Refuse
<1>7. CASE \E to \in {"done", "mark", "failed"} : Remove(p, to)
    <2>1. PICK to \in {"done", "mark", "failed"} : Remove(p, to)
        BY <1>7
    <2>2. /\ pc[p] = "remove" /\ on' = on /\ Goto(p, to)
          /\ to = After(p) \/ to = "failed"
        BY <2>1 DEF Remove
    <2>3. pc'[p] = to /\ \A r \in Procs : r # p => pc'[r] = pc[r]
        BY <1>1, <2>2 DEF Goto, TypeOK
    <2>4. About(p)' = About(p)
        BY <1>2 DEF About
    <2>5. /\ asked[About(p)].key = "delete" /\ on[p] = asked[About(p)].node
          /\ node[on[p]] # "unused" /\ on[p] \in Nodes
        BY <1>1, <1>3, <2>2 DEF Removing, TypeInv, Placed
    <2>6. /\ to # "failed" => Took(About(p))'
          /\ \A q \in Requests : q # About(p) => effects'[q] = effects[q]
        <3>1. CASE node' = [node EXCEPT ![on[p]] = "gone"] /\ Changes(p)
            <4>1. effects' = [effects EXCEPT ![About(p)] = @ + 1]
                BY <3>1 DEF Changes
            <4>2. /\ node'[on[p]] = "gone"
                  /\ \A q \in Requests : q # About(p) => effects'[q] = effects[q]
                BY <1>1, <2>5, <3>1, <4>1 DEF TypeOK
            <4>3. Took(About(p))'
                BY <1>2, <2>4, <2>5, <4>2 DEF Took
            <4> QED
                BY <4>2, <4>3
        <3>2. CASE (~Here(on[p]) \/ to = "failed") /\ UNCHANGED <<node, effects>>
            <4>1. CASE to = "failed"
                BY <3>2, <4>1
            <4>2. CASE ~Here(on[p])
                <5>1. node[on[p]] = "gone"
                    BY <1>1, <2>5, <4>2 DEF Here, TypeOK
                <5>2. Took(About(p))'
                    BY <1>2, <2>4, <2>5, <3>2, <5>1 DEF Took
                <5> QED
                    BY <3>2, <5>2
            <4> QED
                BY <3>2, <4>1, <4>2
        <3> QED
            BY <2>1, <3>1, <3>2 DEF Remove
    <2> QED
        BY <1>2, <1>3, <2>2, <2>3, <2>6 DEF Applying
<1> QED
    BY <1>4, <1>5, <1>6, <1>7 DEF Apply

\* A mutation that took effect has taken effect for good.
LEMMA TookStays ==
    ASSUME TypeInv, [Next]_vars, NEW q \in Requests, Took(q)
    PROVE  Took(q)'
<1>1. asked[q].node \in Nodes
    BY DEF TypeInv, TypeOK, Asks
<1> QED
    BY <1>1, Later DEF Took

\* An executed request is applied at once only if the corpus does not gate it.
LEMMA ExecuteMoves ==
    ASSUME TypeInv, NEW q \in Requests, Execute(q)
    PROVE  /\ pc[q] = "idle" /\ pc'[q] \in {"done", "resolve"}
           /\ \A r \in Procs : r # q => pc'[r] = pc[r]
           /\ pc'[q] = "resolve" => CorpusPolicy[asked[q].key] # "always"
           /\ record' = record \/ record' = [record EXCEPT ![q] = "pending"]
           /\ UNCHANGED <<mode, asked, call, node, effects, on>>
<1>1. TypeOK
    BY DEF TypeInv
<1>2. CASE Mode(asked[q].key) = "always"
    <2>1. Goto(q, "done")
        BY <1>2 DEF Execute
    <2> QED
        BY <1>1, <1>2, <2>1 DEF Execute, Goto, TypeOK, docVars
<1>3. CASE Mode(asked[q].key) # "always"
    <2>1. Goto(q, "resolve") /\ record' = record
        BY <1>3 DEF Execute
    <2>2. CorpusPolicy[asked[q].key] # "always"
        BY <1>3 DEF Mode
    <2> QED
        BY <1>1, <2>1, <2>2 DEF Execute, Goto, TypeOK, docVars
<1> QED
    BY <1>2, <1>3

\* A decision goes on to apply only as an approval.
LEMMA DecideMoves ==
    ASSUME TypeInv, NEW c \in Decisions, Decide(c)
    PROVE  /\ pc[c] = "idle" /\ pc'[c] \in {"failed", "resolve", "mark"}
           /\ \A r \in Procs : r # c => pc'[r] = pc[r]
           /\ pc'[c] = "resolve" => call[c].verdict = "approve"
           /\ pc'[c] = "mark" => call[c].verdict # "approve"
           /\ UNCHANGED <<mode, asked, call, record, node, effects, on>>
BY DEF Decide, Goto, TypeInv, TypeOK, docVars

\* Only a pending record is marked, with the decision's verdict.
LEMMA MarkMoves ==
    ASSUME TypeInv, NEW c \in Decisions, Mark(c)
    PROVE  /\ pc[c] = "mark" /\ pc'[c] \in {"failed", "done"}
           /\ \A r \in Procs : r # c => pc'[r] = pc[r]
           /\ \/ record' = record /\ pc'[c] = "failed"
              \/ /\ record[About(c)] = "pending" /\ pc'[c] = "done"
                 /\ record'[About(c)] = StatusOf(c)
                 /\ \A q \in Requests : q # About(c) => record'[q] = record[q]
           /\ UNCHANGED <<mode, asked, call, node, effects, on>>
<1>1. TypeOK /\ About(c) \in Requests
    BY AboutType DEF TypeInv
<1> QED
    BY <1>1 DEF Mark, Refuse, Goto, TypeOK, docVars

\* A crash leaves a call where it was, or ends it.
LEMMA CrashMoves ==
    ASSUME TypeInv, Crash
    PROVE  /\ \A p \in Procs : pc'[p] = pc[p] \/ (pc[p] # "idle" /\ pc'[p] = "crashed")
           /\ UNCHANGED <<mode, asked, call, record, node, effects, on>>
BY DEF Crash, InFlight, TypeInv, TypeOK, docVars

-----------------------------------------------------------------------------
(* The invariants.                                                         *)

\* A call once begun has begun.
LEMMA BegunStep ==
    ASSUME TypeInv, Removing, Begun, [Next]_vars
    PROVE  Begun' /\ \A p \in Procs : pc[p] # "idle" => pc'[p] # "idle"
<1>1. TypeOK
    BY DEF TypeInv
<1>2. CASE \E q \in Requests : Execute(q)
    <2>1. PICK q \in Requests : Execute(q)
        BY <1>2
    <2>2. /\ pc[q] = "idle" /\ pc'[q] # "idle"
          /\ \A r \in Procs : r # q => pc'[r] = pc[r]
          /\ record' = record \/ record' = [record EXCEPT ![q] = "pending"]
        BY <2>1, ExecuteMoves
    <2>3. \A r \in Requests : r # q => record'[r] = record[r]
        BY <1>1, <2>2 DEF TypeOK
    <2> QED
        BY <2>2, <2>3 DEF Begun
<1>3. CASE \E c \in Decisions : Decide(c)
    BY <1>3, DecideMoves, ProcAssumption DEF Begun
<1>4. CASE \E c \in Decisions : Mark(c)
    <2>1. PICK c \in Decisions : Mark(c)
        BY <1>4
    <2>2. \A q \in Requests : record'[q] # "none" => record[q] # "none"
        BY <2>1, MarkMoves
    <2>3. \A p \in Procs : pc[p] # "idle" => pc'[p] # "idle"
        BY <2>1, MarkMoves
    <2> QED
        BY <2>2, <2>3 DEF Begun
<1>5. CASE \E p \in Procs : Apply(p)
    <2>1. PICK p \in Procs : Apply(p)
        BY <1>5
    <2>2. record' = record /\ \A r \in Procs : r # p => pc'[r] = pc[r]
        BY <2>1, ApplyMoves
    <2>3. pc'[p] # "idle"
        BY <2>1, ApplyMoves DEF Applying, After
    <2> QED
        BY <2>2, <2>3 DEF Begun
<1>6. CASE Crash
    BY <1>6, CrashMoves DEF Begun
<1>7. CASE UNCHANGED vars
    BY <1>7 DEF Begun, vars
<1> QED
    BY <1>2, <1>3, <1>4, <1>5, <1>6, <1>7 DEF Next

\* Nothing gated is applied but by an approval.
LEMMA GateStep ==
    ASSUME TypeInv, Removing, Gate, [Next]_vars
    PROVE  Gate'
<1>1. UNCHANGED <<mode, asked, call>> /\ Requests \cap Decisions = {}
    BY Later, ProcAssumption
<1>2. CASE \E q \in Requests : Execute(q)
    BY <1>1, <1>2, ExecuteMoves DEF Gate, Applying
<1>3. CASE \E c \in Decisions : Decide(c)
    BY <1>1, <1>3, DecideMoves DEF Gate, Applying
<1>4. CASE \E c \in Decisions : Mark(c)
    BY <1>1, <1>4, MarkMoves DEF Gate, Applying
<1>5. CASE \E p \in Procs : Apply(p)
    <2>1. PICK p \in Procs : Apply(p)
        BY <1>5
    <2>2. pc[p] \in Applying /\ \A r \in Procs : r # p => pc'[r] = pc[r]
        BY <2>1, ApplyMoves
    <2> QED
        BY <1>1, <2>2 DEF Gate
<1>6. CASE Crash
    BY <1>1, <1>6, CrashMoves DEF Gate, Applying
<1>7. CASE UNCHANGED vars
    BY <1>7 DEF Gate, vars
<1> QED
    BY <1>2, <1>3, <1>4, <1>5, <1>6, <1>7 DEF Next

\* A call about to delete keeps its node, which stays known.
LEMMA RemovingStep ==
    ASSUME TypeInv, Removing, [Next]_vars
    PROVE  Removing'
<1>1. /\ UNCHANGED <<mode, asked, call>>
      /\ \A n \in Nodes : node[n] # "unused" => node'[n] # "unused"
      /\ \A p \in Procs : pc[p] = "remove" => on[p] \in Nodes
    BY Later DEF TypeInv, Placed
<1>2. \A p \in Procs : Asked(p)' = Asked(p)
    BY <1>1 DEF Asked, About
<1>3. ASSUME NEW p \in Procs, pc'[p] = "remove", pc[p] = "remove", on'[p] = on[p]
      PROVE  /\ Asked(p).key = "delete" /\ on'[p] = Asked(p).node
             /\ node'[on'[p]] # "unused"
    BY <1>1, <1>3 DEF Removing
<1>4. CASE \E p \in Procs : Apply(p)
    <2>1. PICK p \in Procs : Apply(p)
        BY <1>4
    <2>2. \A r \in Procs : r # p => pc'[r] = pc[r] /\ on'[r] = on[r]
        BY <2>1, ApplyMoves
    <2>3. pc'[p] = "remove" => /\ Asked(p).key = "delete" /\ on'[p] = Asked(p).node
                               /\ node'[on'[p]] # "unused"
        BY <2>1, ApplyMoves
    <2> QED
        BY <1>2, <1>3, <2>2, <2>3 DEF Removing
<1>5. ASSUME on' = on, \A p \in Procs : pc'[p] = "remove" => pc[p] = "remove"
      PROVE  Removing'
    BY <1>2, <1>3, <1>5 DEF Removing
<1>6. CASE \E q \in Requests : Execute(q)
    BY <1>5, <1>6, ExecuteMoves
<1>7. CASE \E c \in Decisions : Decide(c)
    BY <1>5, <1>7, DecideMoves
<1>8. CASE \E c \in Decisions : Mark(c)
    BY <1>5, <1>8, MarkMoves
<1>9. CASE Crash
    BY <1>5, <1>9, CrashMoves
<1>10. CASE UNCHANGED vars
    BY <1>5, <1>10 DEF vars
<1> QED
    BY <1>4, <1>6, <1>7, <1>8, <1>9, <1>10 DEF Next

\* An approval reaches its mark with the mutation applied.
LEMMA MarkingStep ==
    ASSUME TypeInv, Removing, Marking, [Next]_vars
    PROVE  Marking'
<1>1. UNCHANGED <<mode, asked, call>> /\ Requests \cap Decisions = {}
    BY Later, ProcAssumption
<1>2. \A c \in Decisions : About(c) \in Requests /\ About(c)' = About(c)
    BY <1>1, AboutType DEF TypeInv, About
<1>3. ASSUME NEW c \in Decisions, pc[c] = "mark", call[c].verdict = "approve"
      PROVE  Took(About(c))'
    BY <1>2, <1>3, TookStays DEF Marking
<1>4. CASE \E p \in Procs : Apply(p)
    <2>1. PICK p \in Procs : Apply(p)
        BY <1>4
    <2>2. \A r \in Procs : r # p => pc'[r] = pc[r]
        BY <2>1, ApplyMoves
    <2>3. pc'[p] = "mark" => Took(About(p))'
        BY <2>1, ApplyMoves
    <2> QED
        BY <1>1, <1>3, <2>2, <2>3 DEF Marking
<1>5. ASSUME \A c \in Decisions : pc'[c] = "mark" /\ call[c].verdict = "approve" => pc[c] = "mark"
      PROVE  Marking'
    BY <1>1, <1>3, <1>5 DEF Marking
<1>6. CASE \E q \in Requests : Execute(q)
    BY <1>5, <1>6, ExecuteMoves
<1>7. CASE \E c \in Decisions : Decide(c)
    BY <1>5, <1>7, DecideMoves
<1>8. CASE \E c \in Decisions : Mark(c)
    BY <1>5, <1>8, MarkMoves
<1>9. CASE Crash
    BY <1>5, <1>9, CrashMoves
<1>10. CASE UNCHANGED vars
    BY <1>5, <1>10 DEF vars
<1> QED
    BY <1>4, <1>6, <1>7, <1>8, <1>9, <1>10 DEF Next

\* What has been decided, and applied, stays so.
LEMMA RecordStep ==
    ASSUME TypeInv, Begun, Removing, Marking, VerdictHolds, AppliedHasEffect, [Next]_vars
    PROVE  VerdictHolds' /\ AppliedHasEffect'
<1>1. TypeOK /\ Requests \cap Decisions = {}
    BY ProcAssumption DEF TypeInv
<1>2. /\ UNCHANGED <<mode, asked, call>>
      /\ \A c \in Decisions : /\ About(c) \in Requests
                              /\ About(c)' = About(c) /\ StatusOf(c)' = StatusOf(c)
                              /\ StatusOf(c) \in {"applied", "rejected"}
    BY <1>1, Later, AboutType DEF About, StatusOf
<1>3. \A q \in Requests : record[q] = "applied" => Took(q)'
    BY TookStays DEF AppliedHasEffect, Took
<1>4. ASSUME \A q \in Requests : record'[q] = record[q] \/ record[q] = "none",
             \A q \in Requests : record'[q] = "applied" => record[q] = "applied",
             \A c \in Decisions : pc'[c] = "done" => pc[c] = "done"
      PROVE  VerdictHolds' /\ AppliedHasEffect'
    <2>1. \A c \in Decisions : pc'[c] = "done" => record'[About(c)] = StatusOf(c)
        BY <1>2, <1>4 DEF VerdictHolds
    <2> QED
        BY <1>2, <1>3, <1>4, <2>1 DEF VerdictHolds, AppliedHasEffect, Took
<1>5. CASE \E q \in Requests : Execute(q)
    <2>1. PICK q \in Requests : Execute(q)
        BY <1>5
    <2>2. /\ pc[q] = "idle"
          /\ \A r \in Procs : r # q => pc'[r] = pc[r]
          /\ record' = record \/ record' = [record EXCEPT ![q] = "pending"]
        BY <2>1, ExecuteMoves
    <2>3. record[q] = "none"
        BY <2>2 DEF Begun
    <2>4. /\ \A r \in Requests : record'[r] = record[r] \/ record[r] = "none"
          /\ \A r \in Requests : record'[r] = "applied" => record[r] = "applied"
        BY <1>1, <2>2, <2>3 DEF TypeOK
    <2> QED
        BY <1>1, <1>4, <2>2, <2>4
<1>6. CASE \E c \in Decisions : Decide(c)
    <2>1. PICK c \in Decisions : Decide(c)
        BY <1>6
    <2>2. /\ record' = record /\ pc'[c] # "done"
          /\ \A r \in Procs : r # c => pc'[r] = pc[r]
        BY <2>1, DecideMoves
    <2> QED
        BY <1>4, <2>2
<1>7. CASE \E c \in Decisions : Mark(c)
    <2>1. PICK c \in Decisions : Mark(c)
        BY <1>7
    <2>2. pc[c] = "mark" /\ \A r \in Procs : r # c => pc'[r] = pc[r]
        BY <2>1, MarkMoves
    <2>3. CASE record' = record /\ pc'[c] = "failed"
        BY <1>4, <2>2, <2>3
    <2>4. CASE /\ record[About(c)] = "pending" /\ pc'[c] = "done"
               /\ record'[About(c)] = StatusOf(c)
               /\ \A q \in Requests : q # About(c) => record'[q] = record[q]
        <3>1. \A d \in Decisions : pc'[d] = "done" => record'[About(d)] = StatusOf(d)
            BY <1>2, <2>2, <2>4 DEF VerdictHolds
        <3>2. StatusOf(c) = "applied" => call[c].verdict = "approve"
            BY DEF StatusOf
        <3>3. StatusOf(c) = "applied" => Took(About(c))
            BY <2>2, <3>2 DEF Marking
        <3>4. StatusOf(c) = "applied" => Took(About(c))'
            BY <1>2, <3>3, TookStays
        <3>5. \A q \in Requests : record'[q] = "applied" => Took(q)'
            BY <1>2, <1>3, <2>4, <3>4
        <3> QED
            BY <1>2, <3>1, <3>5 DEF VerdictHolds, AppliedHasEffect, Took
    <2> QED
        BY <2>1, <2>3, <2>4, MarkMoves
<1>8. CASE \E p \in Procs : Apply(p)
    <2>1. PICK p \in Procs : Apply(p)
        BY <1>8
    <2>2. /\ record' = record
          /\ \A r \in Procs : r # p => pc'[r] = pc[r]
          /\ pc'[p] \in Applying \cup {After(p), "failed"}
        BY <2>1, ApplyMoves
    <2>3. p \in Decisions => pc'[p] # "done"
        BY <1>1, <2>2 DEF Applying, After
    <2> QED
        BY <1>4, <2>2, <2>3
<1>9. CASE Crash
    BY <1>4, <1>9, CrashMoves
<1>10. CASE UNCHANGED vars
    BY <1>4, <1>10 DEF vars
<1> QED
    BY <1>5, <1>6, <1>7, <1>8, <1>9, <1>10 DEF Next

\* A gated write takes effect only by an approval that is under way.
LEMMA GatedStep ==
    ASSUME TypeInv, Removing, Begun, Gate, GatedNeedsApproval, [Next]_vars
    PROVE  GatedNeedsApproval'
<1>1. TypeOK /\ Requests \cap Decisions = {}
    BY ProcAssumption DEF TypeInv
<1>2. /\ UNCHANGED <<mode, asked, call>>
      /\ \A c \in Decisions : About(c)' = About(c)
      /\ \A p \in Procs : pc[p] # "idle" => pc'[p] # "idle"
    BY <1>1, Later, BegunStep DEF About
<1>3. ASSUME NEW q \in Requests, CorpusPolicy[asked[q].key] = "always", effects[q] > 0
      PROVE  \E c \in Decisions :
                About(c) = q /\ call[c].verdict = "approve" /\ pc'[c] # "idle"
    <2>1. PICK c \in Decisions :
                About(c) = q /\ call[c].verdict = "approve" /\ pc[c] # "idle"
        BY <1>3 DEF GatedNeedsApproval
    <2> QED
        BY <1>2, <2>1
<1>4. CASE effects' = effects
    BY <1>2, <1>3, <1>4 DEF GatedNeedsApproval
<1>5. CASE \E p \in Procs : Apply(p)
    <2>1. PICK p \in Procs : Apply(p)
        BY <1>5
    <2>2. /\ pc[p] \in Applying
          /\ \A q \in Requests : q # About(p) => effects'[q] = effects[q]
        BY <2>1, ApplyMoves
    <2>3. CorpusPolicy[asked[About(p)].key] = "always"
            => p \in Decisions /\ call[p].verdict = "approve" /\ pc'[p] # "idle"
        BY <1>2, <2>2 DEF Gate, About, Applying
    <2>4. ASSUME NEW q \in Requests, CorpusPolicy[asked[q].key] = "always", effects'[q] > 0
          PROVE  \E c \in Decisions :
                    About(c) = q /\ call[c].verdict = "approve" /\ pc'[c] # "idle"
        BY <1>3, <2>2, <2>3, <2>4
    <2> QED
        BY <1>2, <2>4 DEF GatedNeedsApproval
<1>6. CASE \/ \E q \in Requests : Execute(q)
           \/ \E c \in Decisions : Decide(c) \/ Mark(c)
           \/ Crash
           \/ UNCHANGED vars
    BY <1>4, <1>6, ExecuteMoves, DecideMoves, MarkMoves, CrashMoves DEF vars, docVars
<1> QED
    BY <1>5, <1>6 DEF Next

-----------------------------------------------------------------------------
(* The theorems.                                                           *)

\* The inductive invariant.
AppInv ==
    /\ TypeInv /\ Begun /\ Gate /\ Removing /\ Marking
    /\ VerdictHolds /\ AppliedHasEffect /\ GatedNeedsApproval

\* Nothing has been called, so nothing has been decided or applied.
LEMMA AppInit == Init => AppInv
<1> SUFFICES ASSUME Init PROVE AppInv
    OBVIOUS
<1>1. \A p \in Procs : pc[p] = "idle"
    BY DEF Init
<1>2. \A q \in Requests : record[q] = "none" /\ effects[q] = 0
    BY DEF Init
<1> QED
    BY <1>1, <1>2, TypeInit
    DEF AppInv, Begun, Gate, Applying, Removing, Marking, VerdictHolds,
        AppliedHasEffect, GatedNeedsApproval

\* Every step keeps the invariant.
LEMMA AppStep == AppInv /\ [Next]_vars => AppInv'
<1> SUFFICES ASSUME AppInv, [Next]_vars PROVE AppInv'
    OBVIOUS
<1>1. TypeInv' /\ Begun' /\ Gate' /\ Removing' /\ Marking'
    BY TypeStep, BegunStep, GateStep, RemovingStep, MarkingStep DEF AppInv
<1>2. VerdictHolds' /\ AppliedHasEffect'
    BY RecordStep DEF AppInv
<1>3. GatedNeedsApproval'
    BY GatedStep DEF AppInv
<1> QED
    BY <1>1, <1>2, <1>3 DEF AppInv

\* An operator whose call succeeded finds the record as they decided for ever
\* after, however many others decide at the same time.
THEOREM VerdictIsFinal == Spec => []VerdictHolds
<1>1. AppInv => VerdictHolds
    BY DEF AppInv
<1> QED
    BY <1>1, AppInit, AppStep, PTL DEF Spec

\* A record marked applied has been applied, across races, failing mirrors and
\* crashes.
THEOREM AppliedTookEffect == Spec => []AppliedHasEffect
<1>1. AppInv => AppliedHasEffect
    BY DEF AppInv
<1> QED
    BY <1>1, AppInit, AppStep, PTL DEF Spec

\* Where the corpus policy gates a write, nothing changes a document before an
\* approve call has begun.
THEOREM GateHolds == Spec => []GatedNeedsApproval
<1>1. AppInv => GatedNeedsApproval
    BY DEF AppInv
<1> QED
    BY <1>1, AppInit, AppStep, PTL DEF Spec

-----------------------------------------------------------------------------
(* The refinement of the ledger.                                           *)

\* Where operators decide one after the other, a call under way is about a
\* pending record, one of which the mutation is stored already is about to be
\* marked, and an ungated write has had no effect before it ends.
Serial ==
    /\ \A c, d \in Decisions : InFlight(c) /\ InFlight(d) => c = d
    /\ \A c \in Decisions : InFlight(c) => record[About(c)] = "pending"
    /\ \A q \in Requests :
          record[q] = "pending" /\ effects[q] > 0
            => \E c \in Decisions :
                  About(c) = q /\ call[c].verdict = "approve" /\ pc[c] = "mark"
    /\ \A q \in Requests : record[q] # "none" => pc[q] \notin Applying
    /\ \A q \in Requests :
          record[q] = "none" /\ pc[q] \in Applying \cup {"idle"} => effects[q] = 0

\* Where nothing fails, a mutation changes the corpus in the last of its steps.
LEMMA ApplyEffect ==
    ASSUME TypeInv, NEW p \in Procs, Apply(p), mode.faults = {}
    PROVE  \/ effects' = effects
           \/ /\ effects' = [effects EXCEPT ![About(p)] = @ + 1]
              /\ pc'[p] = After(p)
<1>1. TypeOK
    BY DEF TypeInv
<1>2. CASE Resolve(p) \/ Read(p) \/ Insert(p)
    BY <1>2 DEF Resolve, Read, Insert, docVars
<1>3. CASE \E to \in {"done", "mark", "failed"} : Remove(p, to)
    BY <1>1, <1>3 DEF Remove, Changes, Goto, TypeOK
<1>4. CASE \E to \in {"done", "mark", "failed"} : Store(p, to)
    BY <1>1, <1>4 DEF Store, Changes, Goto, docVars, TypeOK
<1> QED
    BY <1>2, <1>3, <1>4 DEF Apply

LEMMA SerialStep ==
    ASSUME AppInv, Orderly, Serial, [Next]_vars
    PROVE  Serial'
<1>1. /\ TypeInv /\ TypeOK /\ Removing /\ Begun
      /\ mode.serial /\ mode.faults = {} /\ mode.maxCrashes = 0
      /\ Requests \cap Decisions = {}
    BY ProcAssumption DEF AppInv, TypeInv, Orderly
<1>2. /\ UNCHANGED <<mode, asked, call>>
      /\ \A c \in Decisions : About(c) \in Requests /\ About(c)' = About(c)
    BY <1>1, Later, AboutType DEF About
<1>3. CASE \E q \in Requests : Execute(q)
    <2>1. PICK q \in Requests : Execute(q)
        BY <1>3
    <2>2. /\ pc[q] = "idle" /\ pc'[q] \in {"done", "resolve"}
          /\ \A r \in Procs : r # q => pc'[r] = pc[r]
          /\ effects' = effects
        BY <1>1, <2>1, ExecuteMoves
    <2>3. /\ record[q] = "none" /\ effects[q] = 0
          /\ \A r \in Requests : r # q => record'[r] = record[r]
        BY <1>1, <2>1, <2>2 DEF Execute, Begun, Serial, TypeOK
    <2>4. \/ record'[q] = "pending" /\ pc'[q] = "done"
          \/ record'[q] = "none" /\ pc'[q] = "resolve"
        BY <1>1, <2>1, <2>3 DEF Execute, Goto, TypeOK
    <2> QED
        BY <1>1, <1>2, <2>2, <2>3, <2>4 DEF Serial, InFlight, Applying
<1>4. CASE \E c \in Decisions : Decide(c)
    <2>1. PICK c \in Decisions : Decide(c)
        BY <1>4
    <2>2. /\ pc[c] = "idle" /\ \A d \in Decisions : ~InFlight(d)
          /\ \A r \in Procs : r # c => pc'[r] = pc[r]
          /\ pc'[c] # "failed" => record[About(c)] = "pending"
          /\ record' = record /\ effects' = effects
        BY <1>1, <2>1 DEF Decide, Goto, TypeOK, About, docVars
    <2> QED
        BY <1>1, <1>2, <2>2 DEF Serial, InFlight
<1>5. CASE \E c \in Decisions : Mark(c)
    <2>1. PICK c \in Decisions : Mark(c)
        BY <1>5
    <2>2. pc[c] = "mark"
        BY <2>1 DEF Mark
    <2>3. record[About(c)] = "pending" /\ StatusOf(c) \in {"applied", "rejected"}
        BY <2>2 DEF StatusOf, Serial, InFlight
    <2>4. /\ pc'[c] \in {"done", "failed"}
          /\ \A r \in Procs : r # c => pc'[r] = pc[r]
          /\ effects' = effects
        BY <1>1, <2>1, MarkMoves
    <2>5. record' = [record EXCEPT ![About(c)] = StatusOf(c)]
        BY <2>1, <2>3 DEF Mark
    <2>6. /\ record'[About(c)] = StatusOf(c)
          /\ \A q \in Requests : q # About(c) => record'[q] = record[q]
        BY <1>1, <1>2, <2>5 DEF TypeOK
    <2> QED
        BY <1>1, <1>2, <2>2, <2>3, <2>4, <2>6 DEF Serial, InFlight
<1>6. CASE \E p \in Requests : Apply(p)
    <2>1. PICK p \in Requests : Apply(p)
        BY <1>6
    <2>2. /\ record' = record /\ pc[p] \in Applying
          /\ \A r \in Procs : r # p => pc'[r] = pc[r]
          /\ pc'[p] \in Applying \cup {"done", "failed"}
          /\ \A q \in Requests : q # p => effects'[q] = effects[q]
        BY <1>1, <2>1, ApplyMoves DEF After, About
    <2>3. record[p] = "none"
        BY <2>2 DEF Serial
    <2>4. pc'[p] \in Applying => effects' = effects
        BY <1>1, <2>1, ApplyEffect DEF After, Applying
    <2> QED
        BY <1>1, <1>2, <2>2, <2>3, <2>4 DEF Serial, InFlight, Applying
<1>7. CASE \E p \in Decisions : Apply(p)
    <2>1. PICK p \in Decisions : Apply(p)
        BY <1>7
    <2>2. /\ record' = record /\ pc[p] \in Applying
          /\ \A r \in Procs : r # p => pc'[r] = pc[r]
          /\ pc'[p] \in Applying \cup {"mark", "failed"}
          /\ \A q \in Requests : q # About(p) => effects'[q] = effects[q]
        BY <1>1, <2>1, ApplyMoves DEF After
    <2>3. InFlight(p) /\ record[About(p)] = "pending" /\ call[p].verdict = "approve"
        BY <2>2 DEF Serial, InFlight, Applying, AppInv, Gate
    <2>4. pc'[p] = "mark" \/ effects' = effects
        BY <1>1, <2>1, ApplyEffect DEF After
    <2>5. \A q \in Requests : q # About(p) => ~(record[q] = "pending" /\ effects[q] > 0)
        BY <1>2, <2>3 DEF Serial, InFlight
    <2>6. ~(effects[About(p)] > 0)
        BY <1>2, <2>2, <2>3 DEF Serial, InFlight, Applying
    <2> QED
        BY <1>1, <1>2, <2>2, <2>3, <2>4, <2>5, <2>6 DEF Serial, InFlight, Applying
<1>8. ~Crash
    BY <1>1 DEF Crash, TypeOK
<1>9. CASE UNCHANGED vars
    BY <1>9 DEF Serial, InFlight, About, vars, docVars
<1> QED
    BY <1>3, <1>4, <1>5, <1>6, <1>7, <1>8, <1>9 DEF Next

verdicts == [q \in Requests |-> Verdict(q)]
ledger == <<verdicts, effects>>

\* A change of one record or effect is a change of one verdict.
LEMMA OtherVerdicts ==
    ASSUME NEW q \in Requests,
           \A r \in Requests \ {q} :
               Verdict(r)' = Verdict(r)
    PROVE  verdicts' = [verdicts EXCEPT ![q] = Verdict(q)']
BY DEF verdicts

\* What the verdict on a request is read from.
LEMMA VerdictReads ==
    ASSUME NEW q \in Requests, record'[q] = record[q], effects'[q] = effects[q],
           pc'[q] = "idle" <=> pc[q] = "idle"
    PROVE  Verdict(q)' = Verdict(q)
BY DEF Verdict

\* Every step is one of the ledger, or is not seen there.
LEMMA LedgerStep ==
    ASSUME AppInv, Orderly, Serial, [Next]_vars
    PROVE  Ledger!Next \/ UNCHANGED ledger
<1>1. /\ TypeInv /\ TypeOK /\ Removing /\ Begun
      /\ mode.serial /\ mode.faults = {} /\ mode.maxCrashes = 0
      /\ Requests \cap Decisions = {}
    BY ProcAssumption DEF AppInv, TypeInv, Orderly
<1>2. \A c \in Decisions : About(c) \in Requests
    BY <1>1, AboutType
<1>3. ASSUME record' = record, effects' = effects,
             \A q \in Requests : pc'[q] = "idle" <=> pc[q] = "idle"
      PROVE  UNCHANGED ledger
    BY <1>3, VerdictReads DEF ledger, verdicts
<1>4. CASE \E q \in Requests : Execute(q)
    <2>1. PICK q \in Requests : Execute(q)
        BY <1>4
    <2>2. /\ pc[q] = "idle" /\ pc'[q] \in {"done", "resolve"}
          /\ \A r \in Procs : r # q => pc'[r] = pc[r]
          /\ effects' = effects
        BY <1>1, <2>1, ExecuteMoves
    <2>3. /\ record[q] = "none" /\ effects[q] = 0
          /\ record'[q] \in {"none", "pending"}
          /\ \A r \in Requests : r # q => record'[r] = record[r]
        BY <1>1, <2>1, <2>2 DEF Execute, Begun, Serial, TypeOK
    <2>4. verdicts' = [verdicts EXCEPT ![q] = Verdict(q)']
        BY <2>2, <2>3, OtherVerdicts, VerdictReads
    <2>5. /\ verdicts[q] = "unasked"
          /\ Verdict(q)' = IF record'[q] = "pending" THEN "pending" ELSE "ungated"
        BY <2>2, <2>3 DEF verdicts, Verdict
    <2>6. Ledger!Ask(q, record'[q] = "pending")
        BY <2>2, <2>4, <2>5 DEF Ledger!Ask, verdicts
    <2> QED
        BY <2>6 DEF Ledger!Next
<1>5. CASE \E c \in Decisions : Decide(c)
    BY <1>1, <1>3, <1>5, DecideMoves DEF docVars, Decide
<1>6. CASE \E c \in Decisions : Mark(c)
    <2>1. PICK c \in Decisions : Mark(c)
        BY <1>6
    <2>2. PICK q \in Requests : q = About(c)
        BY <1>2
    <2>3. pc[c] = "mark" /\ record[q] = "pending" /\ StatusOf(c) \in {"applied", "rejected"}
        BY <2>1, <2>2 DEF Mark, StatusOf, Serial, InFlight
    <2>4. /\ \A r \in Procs : r # c => pc'[r] = pc[r]
          /\ effects' = effects
        BY <1>1, <2>1, MarkMoves
    <2>5. record' = [record EXCEPT ![q] = StatusOf(c)]
        BY <2>1, <2>2, <2>3 DEF Mark
    <2>6. record'[q] = StatusOf(c) /\ \A r \in Requests : r # q => record'[r] = record[r]
        BY <1>1, <2>5 DEF TypeOK
    <2>7. verdicts' = [verdicts EXCEPT ![q] = Verdict(q)'] /\ Verdict(q)' = StatusOf(c)
        <3>1. Verdict(q)' = StatusOf(c)
            BY <2>3, <2>6 DEF Verdict
        <3>2. \A r \in Requests \ {q} : Verdict(r)' = Verdict(r)
            BY <1>1, <2>4, <2>6, VerdictReads
        <3> QED
            BY <3>1, <3>2, OtherVerdicts
    <2>8. CASE effects[q] > 0
        <3>1. PICK d \in Decisions : About(d) = q /\ call[d].verdict = "approve" /\ pc[d] = "mark"
            BY <2>3, <2>8 DEF Serial
        <3>2. d = c
            BY <2>3, <3>1 DEF Serial, InFlight
        <3>3. StatusOf(c) = "applied" /\ Verdict(q) = "applied"
            BY <2>3, <2>8, <3>1, <3>2 DEF StatusOf, Verdict
        <3>4. verdicts' = verdicts
            BY <2>7, <3>3 DEF verdicts
        <3> QED
            BY <2>4, <3>4 DEF ledger
    <2>9. CASE ~(effects[q] > 0)
        <3>1. effects[q] = 0 /\ verdicts[q] = "pending"
            BY <1>1, <2>3, <2>9 DEF TypeOK, Verdict, verdicts
        <3>2. effects' = [effects EXCEPT ![q] = 0]
            BY <1>1, <2>4, <3>1 DEF TypeOK
        <3>3. Ledger!Apply(q, 0) \/ Ledger!Reject(q)
            BY <2>3, <2>4, <2>7, <3>1, <3>2 DEF Ledger!Apply, Ledger!Reject, verdicts
        <3> QED
            BY <3>3 DEF Ledger!Next
    <2> QED
        BY <2>8, <2>9
<1>7. CASE \E p \in Procs : Apply(p)
    <2>1. PICK p \in Procs : Apply(p)
        BY <1>7
    <2>2. PICK q \in Requests : q = About(p)
        BY <1>1, AboutType
    <2>3. /\ record' = record /\ pc[p] \in Applying
          /\ pc'[p] \in Applying \cup {After(p), "failed"}
          /\ \A r \in Procs : r # p => pc'[r] = pc[r]
        BY <1>1, <2>1, ApplyMoves
    <2>4. \A r \in Requests : pc'[r] = "idle" <=> pc[r] = "idle"
        BY <2>3 DEF Applying, After
    <2>5. CASE effects' = effects
        BY <1>3, <2>3, <2>4, <2>5
    <2>6. CASE effects' = [effects EXCEPT ![q] = @ + 1]
        <3>1. \A r \in Requests : r # q => effects'[r] = effects[r]
            BY <1>1, <2>6 DEF TypeOK
        <3>2. verdicts' = [verdicts EXCEPT ![q] = Verdict(q)']
            BY <2>3, <2>4, <3>1, VerdictReads, OtherVerdicts
        <3>3. CASE p \in Requests
            <4>1. q = p /\ record[q] = "none"
                BY <2>2, <2>3, <3>3 DEF About, Serial
            <4>2. effects[q] = 0
                BY <2>3, <4>1 DEF Serial
            <4>3. Verdict(q)' = "ungated" /\ verdicts[q] = "ungated"
                BY <2>3, <2>4, <4>1 DEF Verdict, verdicts, Applying
            <4>4. verdicts' = verdicts
                BY <3>2, <4>3 DEF verdicts
            <4>5. Ledger!Run(q)
                BY <2>6, <4>2, <4>3, <4>4 DEF Ledger!Run, verdicts
            <4> QED
                BY <4>5 DEF Ledger!Next
        <3>4. CASE p \in Decisions
            <4>1. InFlight(p) /\ record[q] = "pending"
                BY <2>2, <2>3, <3>4 DEF Serial, InFlight, Applying
            <4>2. effects[q] = 0
                <5>1. ASSUME NEW d \in Decisions, pc[d] = "mark" PROVE FALSE
                    <6>1. InFlight(d)
                        BY <5>1 DEF InFlight
                    <6>2. d = p
                        BY <3>4, <4>1, <6>1 DEF Serial
                    <6> QED
                        BY <2>3, <5>1, <6>2 DEF Applying
                <5>2. ~(effects[q] > 0)
                    BY <4>1, <5>1 DEF Serial
                <5> QED
                    BY <1>1, <5>2 DEF TypeOK
            <4>3. Verdict(q)' = "applied" /\ verdicts[q] = "pending"
                <5>1. effects'[q] = 1
                    BY <1>1, <2>6, <4>2 DEF TypeOK
                <5> QED
                    BY <2>3, <4>1, <4>2, <5>1 DEF Verdict, verdicts
            <4>4. Ledger!Apply(q, 1)
                BY <2>6, <3>2, <4>2, <4>3 DEF Ledger!Apply, verdicts
            <4> QED
                BY <4>4 DEF Ledger!Next
        <3> QED
            BY <3>3, <3>4
    <2> QED
        BY <1>1, <2>1, <2>2, <2>5, <2>6, ApplyEffect
<1>8. ~Crash
    BY <1>1 DEF Crash, TypeOK
<1>9. CASE UNCHANGED vars
    BY <1>3, <1>9 DEF vars, docVars
<1> QED
    BY <1>4, <1>5, <1>6, <1>7, <1>8, <1>9 DEF Next

\* Where operators decide one after the other and nothing fails, the approval
\* queue is the ledger: a gated write takes effect when it is approved and only
\* then, at most once, and a rejected one never does.
THEOREM QueueIsLedger == Spec => LedgerSpec
<1>1. Init => (Orderly => Ledger!Init /\ Serial)
    <2> SUFFICES ASSUME Init PROVE Ledger!Init /\ Serial
        OBVIOUS
    <2>1. \A q \in Requests : Verdict(q) = "unasked"
        BY DEF Init, Verdict
    <2>2. Ledger!Init
        BY <2>1 DEF Init, Ledger!Init
    <2>3. Serial
        BY ProcAssumption DEF Init, Serial, InFlight, Applying
    <2> QED
        BY <2>2, <2>3
<1>2. AppInv /\ (Orderly => Serial) /\ [Next]_vars => (Orderly => Serial)'
    <2> SUFFICES ASSUME AppInv, Orderly => Serial, [Next]_vars, Orderly'
                 PROVE  Serial'
        OBVIOUS
    <2>1. Orderly
        BY Later DEF Orderly, AppInv
    <2> QED
        BY <2>1, SerialStep
<1>3. AppInv /\ (Orderly => Serial) /\ [Next]_vars
        => [Orderly => Ledger!Next]_ledger
    BY LedgerStep
<1> QED
    BY <1>1, <1>2, <1>3, AppInit, AppStep, PTL DEF Spec, LedgerSpec, ledger, verdicts
=============================================================================
