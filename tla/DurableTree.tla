---------------------------- MODULE DurableTree ----------------------------
(***************************************************************************)
(* What the file system promises about its tree of names, whatever happens *)
(* to the power: a tree given by parent links, in which a node is created  *)
(* whole, becomes durable whole and in creation order, is never lost once  *)
(* durable, and never changes its name, its kind or its parent.  Directory *)
(* listings and file contents, which a power loss can tear, are not part   *)
(* of this promise.                                                        *)
(***************************************************************************)
EXTENDS Naturals

CONSTANTS
    Index,      \* the places a node can take, 0 being the root's
    NodeName,   \* the names a node can have
    ImageTree   \* the tree an installed drive image holds

VARIABLES
    tree,       \* the nodes the running system has
    durable     \* the nodes the drive has

Node == [idx : Index, name : NodeName, dir : BOOLEAN, parent : Index]

treeVars == <<tree, durable>>

Indices(nodes) == {n.idx : n \in nodes}

TreeTypeOK ==
    /\ tree \in SUBSET Node
    /\ durable \in SUBSET Node

TreeInit ==
    /\ durable \in {{}, ImageTree}
    /\ tree = durable

\* The root goes to an empty drive, any other node under a directory that
\* the system has, at the lowest place that is free.
Create(n) ==
    /\ \A i \in Index : i < n.idx <=> i \in Indices(tree)
    /\ IF n.idx = 0
          THEN n.dir
          ELSE \E p \in tree : p.idx = n.parent /\ p.dir
    /\ tree' = tree \cup {n}
    /\ UNCHANGED durable

\* The oldest node that is not durable becomes durable.
Commit(n) ==
    /\ n \in tree \ durable
    /\ \A m \in tree \ durable : n.idx <= m.idx
    /\ durable' = durable \cup {n}
    /\ UNCHANGED tree

Lose ==
    /\ tree' = durable
    /\ UNCHANGED durable

TreeNext ==
    \/ \E n \in Node : Create(n) \/ Commit(n)
    \/ Lose

TreeSpec == TreeInit /\ [][TreeNext]_treeVars
=============================================================================
