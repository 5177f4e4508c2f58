----------------------------- MODULE PathPolicy -----------------------------
(***************************************************************************)
(* Where agents may write: the workspace lists path prefixes, a corpus and *)
(* a token may list prefixes of their own, and the three lists are folded  *)
(* into one.  An agent's call is refused when that one does not cover it.  *)
(*                                                                         *)
(* A path is the sequence of its names, normalised already.  A list is a   *)
(* function on positions, which may have holes: only their order counts,   *)
(* and a prefix that comes twice counts once.                              *)
(***************************************************************************)
EXTENDS Naturals, SequencesExt

\* prefixCovers
Covers(prefix, path) == IsPrefix(prefix, path)

\* assertAgentWritePath
Permits(list, path) == \E i \in DOMAIN list : Covers(list[i], path)

Meets(p, q) == Covers(p, q) \/ Covers(q, p)
Meeting(parent, q) == {i \in DOMAIN parent : Meets(parent[i], q)}

MutantDeeper(p, q) == q

Deeper(p, q) == IF Covers(p, q) THEN q ELSE p

\* intersectPrefixLayers: a prefix of the child is held against the first one
\* of the parent that covers it or is covered by it, and no other.
First(parent, q) ==
    {j \in Meeting(parent, q) : \A k \in Meeting(parent, q) : j <= k}

Intersect(parent, child) ==
    [i \in {i \in DOMAIN child : First(parent, child[i]) # {}} |->
        Deeper(parent[CHOOSE j \in First(parent, child[i]) : TRUE], child[i])]

\* resolveAgentWritePathPrefixes: an empty list inherits.
Narrowed(parent, child) == IF child = <<>> THEN parent ELSE Intersect(parent, child)
Resolve(layers) == Narrowed(Narrowed(layers.workspace, layers.corpus), layers.token)

-----------------------------------------------------------------------------
\* What a layer says of a path by itself, and what they say together.
Grants(list, path) == list = <<>> \/ Permits(list, path)
Granted(layers, path) ==
    /\ Permits(layers.workspace, path)
    /\ Grants(layers.corpus, path) /\ Grants(layers.token, path)

\* No prefix of child meets two prefixes of parent.
Unambiguous(parent, child) ==
    \A i \in DOMAIN child : \A j, k \in Meeting(parent, child[i]) : j = k

Plain(layers) ==
    /\ Unambiguous(layers.workspace, layers.corpus)
    /\ Unambiguous(Narrowed(layers.workspace, layers.corpus), layers.token)

\* The three lists only narrow one another: what the folded list permits, each
\* layer permits.  It permits all that they permit together when no prefix of
\* a list meets two of the list above it: otherwise only the first counts.
NarrowsOnly(layers, path) ==
    /\ Permits(Resolve(layers), path) => Granted(layers, path)
    /\ Plain(layers) /\ Granted(layers, path) => Permits(Resolve(layers), path)
=============================================================================
