--------------------------- MODULE TreeOperations ---------------------------
(***************************************************************************)
(* What PropertyTree.hpp offers for pairs of trees.  MergePatch and        *)
(* RemoveEqual are recursive, as they are in the code: this module is for  *)
(* TLC, and no theorem is stated above it.                                 *)
(***************************************************************************)
EXTENDS PropertyTree

(* mergePatch(dest, source): a scalar or list that meets a map is replaced by *)
(* nothing at all, and the map below it is not read.                          *)

RECURSIVE MergePatch(_, _)

\* Mutant: an entry the patch removes stays, with nothing in it.
MergePatchNoErase(dest, source) ==
    IF source.kind # "map" \/ ~MayConvertToMap(dest) THEN source
    ELSE Map([k \in DOMAIN Entries(dest) \cup DOMAIN source.entries |->
                 IF k \in DOMAIN source.entries THEN MergePatch(Child(dest, k), source.entries[k])
                                                ELSE Entries(dest)[k]])

MergePatch(dest, source) ==
    IF source.kind # "map" THEN source
    ELSE IF ~MayConvertToMap(dest) THEN Null
    ELSE LET patch == source.entries
             erased == {k \in DOMAIN patch : patch[k] = Null}
         IN  Map([k \in (DOMAIN Entries(dest) \cup DOMAIN patch) \ erased |->
                    IF k \in DOMAIN patch THEN MergePatch(Child(dest, k), patch[k])
                                          ELSE Entries(dest)[k]])

(* removeEqualValues(one, two): the pair of trees it leaves.  Equal trees become *)
(* nothing; entries that became nothing on both sides are erased, list items     *)
(* stay where they are.                                                          *)

BothNull == <<Null, Null>>

RECURSIVE RemoveEqual(_, _)

RemoveEqualEntries(one, two) ==
    [k \in DOMAIN one.entries \cap DOMAIN two.entries |-> RemoveEqual(one.entries[k], two.entries[k])]

\* Mutants: entries that became nothing stay; a map with nothing left in it goes with them.
RemoveEqualNoErase(one, two) ==
    IF one = two THEN BothNull
    ELSE IF one.kind = "map" /\ two.kind = "map" THEN
        LET left == RemoveEqualEntries(one, two)
            Rest(t, side) == Map([k \in DOMAIN t.entries |->
                                    IF k \in DOMAIN left THEN left[k][side] ELSE t.entries[k]])
        IN  <<Rest(one, 1), Rest(two, 2)>>
    ELSE <<one, two>>

RemoveEqualCollapses(one, two) ==
    IF one = two THEN BothNull
    ELSE IF one.kind = "map" /\ two.kind = "map" THEN
        LET left == RemoveEqualEntries(one, two)
            Collapsed(t) == IF t = EmptyMap THEN Null ELSE t
            Rest(t, side) == Collapsed(Map(
                [k \in {l \in DOMAIN t.entries : l \notin DOMAIN left \/ left[l] # BothNull} |->
                    IF k \in DOMAIN left THEN left[k][side] ELSE t.entries[k]]))
        IN  <<Rest(one, 1), Rest(two, 2)>>
    ELSE <<one, two>>

RemoveEqual(one, two) ==
    IF one = two THEN BothNull
    ELSE IF one.kind = "map" /\ two.kind = "map" THEN
        LET left == RemoveEqualEntries(one, two)
            erased == {k \in DOMAIN left : left[k] = BothNull}
            Rest(t, side) == Map([k \in DOMAIN t.entries \ erased |->
                                    IF k \in DOMAIN left THEN left[k][side] ELSE t.entries[k]])
        IN  <<Rest(one, 1), Rest(two, 2)>>
    ELSE IF one.kind = "list" /\ two.kind = "list" THEN
        LET minSize == IF Len(one.items) < Len(two.items) THEN Len(one.items) ELSE Len(two.items)
            left == [i \in 1 .. minSize |-> RemoveEqual(one.items[i], two.items[i])]
            Rest(t, side) == List([i \in DOMAIN t.items |->
                                     IF i <= minSize THEN left[i][side] ELSE t.items[i]])
        IN  <<Rest(one, 1), Rest(two, 2)>>
    ELSE <<one, two>>

-----------------------------------------------------------------------------
(* A tree by its nodes: each is the path to it and what is there, a map     *)
(* without its entries.  Lists are not looked into.  What a path leads to   *)
(* is what the nodes below it say, so trees with the same nodes are equal.  *)

RECURSIVE Nodes(_)
Nodes(t) ==
    IF t.kind # "map" THEN {[path |-> << >>, node |-> t]}
    ELSE {[path |-> << >>, node |-> EmptyMap]}
         \cup UNION {{[n EXCEPT !.path = <<k>> \o @] : n \in Nodes(t.entries[k])}
                        : k \in DOMAIN t.entries}

=============================================================================
