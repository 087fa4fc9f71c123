---------------------------- MODULE PropertyTree ----------------------------
(***************************************************************************)
(* The variant tree of PropertyTree.hpp: nothing, a scalar, a list of      *)
(* trees or a map from names to trees.  What two scalars hold matters only *)
(* as far as they are equal or not, so a scalar is any value.              *)
(***************************************************************************)
EXTENDS Naturals, Sequences, SequencesExt, Functions

Null == [kind |-> "null"]
Scalar(v) == [kind |-> "scalar", value |-> v]
List(s) == [kind |-> "list", items |-> s]
Map(m) == [kind |-> "map", entries |-> m]

EmptyMap == Map([k \in {} |-> Null])

IsContainer(t) == t.kind \in {"list", "map"}

-----------------------------------------------------------------------------
(* Edits.  Each of them throws, and leaves the tree alone, on a tree of another kind. *)

MayConvertToList(t) == t.kind \in {"null", "list"}
MayConvertToMap(t) == t.kind \in {"null", "map"}

ConvertToList(t) == IF t = Null THEN List(<< >>) ELSE t
ConvertToMap(t) == IF t = Null THEN EmptyMap ELSE t

Append_(t, child) == List(Append(ConvertToList(t).items, child))

\* The entries of a tree that may be converted to a map, and what operator[] finds or creates.
Entries(t) == ConvertToMap(t).entries
Child(t, key) == IF key \in DOMAIN Entries(t) THEN Entries(t)[key] ELSE Null

Insert(t, key, child) ==
    Map([k \in DOMAIN Entries(t) \cup {key} |-> IF k = key THEN child ELSE Entries(t)[k]])

=============================================================================
