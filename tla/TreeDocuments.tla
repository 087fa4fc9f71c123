---------------------------- MODULE TreeDocuments ----------------------------
(***************************************************************************)
(* Two property trees, built, patched and compared in any order through    *)
(* the calls of PropertyTree.hpp: a document and the patch to it, or a     *)
(* configuration and its defaults.                                         *)
(*                                                                         *)
(* A tree is edited at the node a chain of operator[] calls leads to,      *)
(* which creates the maps and entries on the way; a call that throws       *)
(* leaves the trees as they were, and is left out.                         *)
(***************************************************************************)
EXTENDS TreeOperations, FiniteSets

CONSTANTS
    Key,        \* names of entries
    Content,    \* what a scalar may hold
    MaxNodes    \* bound: how many nodes the two trees have together, list items included

VARIABLES one, two

vars == <<one, two>>

Paths == {<< >>} \cup {<<k>> : k \in Key} \cup {<<k, l>> : k, l \in Key}

RECURSIVE Reachable(_, _), At(_, _), SetAt(_, _, _)

\* Whether operator[] can follow the path, what it leads to, and the tree with that replaced.
Reachable(t, path) ==
    path # << >> => MayConvertToMap(t) /\ Reachable(Child(t, Head(path)), Tail(path))
At(t, path) ==
    IF path = << >> THEN t ELSE At(Child(t, Head(path)), Tail(path))
SetAt(t, path, new) ==
    IF path = << >> THEN new
    ELSE Insert(t, Head(path), SetAt(Child(t, Head(path)), Tail(path), new))

\* What one call may make of the tree it is made on.
Edited(t) ==
    {Scalar(c) : c \in Content} \cup {Null}
    \cup (IF MayConvertToList(t) THEN {ConvertToList(t)} \cup {Append_(t, Scalar(c)) : c \in Content} ELSE {})
    \cup (IF MayConvertToMap(t) THEN {ConvertToMap(t)} \cup {Insert(t, k, Null) : k \in Key} ELSE {})

Size(t) == Cardinality(Nodes(t)) + FoldSet(LAMBDA n, sum : sum + Len(n.node.items), 0,
                                           {n \in Nodes(t) : n.node.kind = "list"})

-----------------------------------------------------------------------------
Init == one = Null /\ two = Null

EditOne == \E path \in Paths :
    /\ Reachable(one, path)
    /\ \E new \in Edited(At(one, path)) : one' = SetAt(one, path, new)
    /\ Size(one') + Size(two) <= MaxNodes
    /\ UNCHANGED two

EditTwo == \E path \in Paths :
    /\ Reachable(two, path)
    /\ \E new \in Edited(At(two, path)) : two' = SetAt(two, path, new)
    /\ Size(one) + Size(two') <= MaxNodes
    /\ UNCHANGED one

Patch ==
    /\ one' = MergePatch(one, two)
    /\ UNCHANGED two
    /\ Size(one') + Size(two') <= MaxNodes

Compare == LET left == RemoveEqual(one, two) IN
    /\ one' = left[1]
    /\ two' = left[2]

Next == EditOne \/ EditTwo \/ Patch \/ Compare

Spec == Init /\ [][Next]_vars

-----------------------------------------------------------------------------
(* The patch RFC 7396 defines, told by nodes: what the patch holds, except for *)
(* its nulls, and of the document what is neither at nor below something the   *)
(* patch replaces or removes.                                                  *)

IsMapNode(n) == n.node.kind = "map"

RfcNodes(dest, source) ==
    IF source.kind # "map" THEN Nodes(source)
    ELSE {n \in Nodes(source) : n.node # Null}
         \cup {n \in Nodes(dest) : \A m \in Nodes(source) :
                  IF IsMapNode(m) THEN m.path = n.path => IsMapNode(n)
                                  ELSE ~IsPrefix(m.path, n.path)}

\* No map of the patch meets a scalar or a list of the document.
Compatible(dest, source) ==
    \A m \in Nodes(source), n \in Nodes(dest) :
        IsMapNode(m) /\ m.path = n.path => MayConvertToMap(n.node)

\* Patching: the document afterwards is the one RFC 7396 defines, however deep the patch
\* reaches and whatever nulls and lists are on the way, if no map of the patch meets a
\* scalar or a list (PropertyTree::mergePatch).
CompatiblePatchFollowsRfc ==
    [][Patch /\ Compatible(one, two) => Nodes(one') = RfcNodes(one, two)]_vars

\* The same of every patch, as the comment in mergePatch() quotes RFC 7396.
PatchFollowsRfc == [][Patch => Nodes(one') = RfcNodes(one, two)]_vars

\* Values a difference can express: null is how a patch removes, and a list is replaced as a whole.
Expressible(t, other) ==
    \A n \in Nodes(t) :
        /\ n.node # Null
        /\ \A m \in Nodes(other) :
              m.path = n.path /\ n.node.kind = "list" /\ m.node.kind = "list" => n.node = m.node

\* What removeEqualValues() leaves of a document that differs from another is enough of a patch:
\* applied to the other one it gives what the whole document would have given.  The document must
\* not have a null, by which a patch removes, nor a list that is another one there.
DifferenceIsPatch ==
    [][Compare /\ one # two =>
          /\ Expressible(one, two) => MergePatch(two, one') = MergePatch(two, one)
          /\ Expressible(two, one) => MergePatch(one, two') = MergePatch(one, two)]_vars

\* After removeEqualValues() no name leads to the same value in both documents, and
\* documents that differed still do: no difference is removed with what was equal around it.
NothingEqualLeft ==
    [][Compare =>
          IF one = two THEN one' = Null /\ two' = Null
          ELSE \A path \in {n.path : n \in Nodes(one')} \cap {n.path : n \in Nodes(two')} :
                  At(one', path) # At(two', path)]_vars

=============================================================================
