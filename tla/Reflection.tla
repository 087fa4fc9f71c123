----------------------------- MODULE Reflection -----------------------------
(***************************************************************************)
(* PropertyTreeReader and PropertyTreeWriter: what they make of a struct   *)
(* of two fields, one of any kind they know how to handle and after it a   *)
(* plain integer.  Reading may throw half way: an outcome is the value as  *)
(* it is then, and whether all was well; the same for writing and trees.   *)
(*                                                                         *)
(* Scalars are integers or strings, maps go from strings to integers.      *)
(***************************************************************************)
EXTENDS PropertyTree, Integers, FiniteSets

CONSTANTS
    Item,       \* the numbers in fields
    Name,       \* the keys of maps
    ArraySize,  \* the elements of an array
    MaxItems    \* bound: the items of a vector

\* No list is longer than the array it may be read into: the code would write behind its end.
ASSUME ReflectionAssumption ==
    /\ Item \subseteq Int /\ 0 \in Item /\ IsFiniteSet(Item) /\ IsFiniteSet(Name)
    /\ ArraySize \in Nat /\ MaxItems \in 0 .. ArraySize /\ Cardinality(Item) <= ArraySize

Kinds == {"int", "property", "enum", "vector", "set", "array", "optional", "optionalSet", "map", "stringMap", "struct"}

None == << >>     \* std::nullopt; another optional is a sequence of one

Struct(w, h) == [width |-> w, height |-> h]

\* What a field has in a default-constructed parent, and in a default-constructed value of its
\* own type.
Default == [int |-> 0, property |-> 0, enum |-> "on", vector |-> << >>, set |-> {}, array |-> [i \in 1 .. ArraySize |-> 0],
            optional |-> None, optionalSet |-> <<0>>, map |-> << >>, stringMap |-> << >>, struct |-> Struct(1, 0)]
OwnDefault == [Default EXCEPT !.struct = Struct(0, 0)]

MapsOf(S) == UNION {[T -> Item] : T \in SUBSET S}
OptionalOf(S) == {None} \cup {<<n>> : n \in S}

Values == [int |-> Item, property |-> Item, enum |-> {"on", "off", "unmapped"},
           vector |-> SeqOf(Item, MaxItems), set |-> SUBSET Item, array |-> [1 .. ArraySize -> Item],
           optional |-> OptionalOf(Item), optionalSet |-> OptionalOf(Item),
           map |-> MapsOf(Name), stringMap |-> MapsOf(Name), struct |-> {Struct(w, h) : w, h \in Item}]

Number(n) == Scalar(<<"int", n>>)
Text(s) == Scalar(<<"string", s>>)

toInt(t) == IF t.value[1] = "int" THEN t.value[2] ELSE 0
toString(t) == IF t.value[1] = "string" THEN t.value[2] ELSE ""

\* A map with the entries of another one that it does not have itself.
Over(new, old) == [k \in DOMAIN new \cup DOMAIN old |-> IF k \in DOMAIN new THEN new[k] ELSE old[k]]

IsScalar(t) == t.kind = "scalar"
Well(v) == [value |-> v, ok |-> TRUE]
Throws(v) == [value |-> v, ok |-> FALSE]

-----------------------------------------------------------------------------
(* EnumTraits: the unmapped enumerator has no name, and no name is read as m_default. *)

Mapped == {"on", "off"}
enumToString(e) == IF e \in Mapped THEN e ELSE ""
stringToEnum(s) == IF s \in Mapped THEN s ELSE "off"

-----------------------------------------------------------------------------
(* PropertyTreeReader.  The items of a list are read up to the first that throws. *)

Fitting(items, fit) ==
    CHOOSE n \in 0 .. Len(items) : 1 .. n \subseteq fit /\ (n < Len(items) => n + 1 \notin fit)

Readable(items) == Fitting(items, {i \in DOMAIN items : IsScalar(items[i])})

ReadScalar(json, v) == IF IsScalar(json) THEN Well(toInt(json)) ELSE Throws(v)

\* The writer of a property sets it when it is destroyed, read or not.
ReadProperty(json) == ReadScalar(json, OwnDefault.int)

ReadEnum(json) == Well(stringToEnum(IF IsScalar(json) THEN toString(json) ELSE ""))

\* Mutant: the container is not cleared.
ReadVectorAppending(json, v) ==
    IF json.kind # "list" THEN Well(v)
    ELSE LET n == Readable(json.items) IN
         [value |-> v \o [i \in 1 .. n |-> toInt(json.items[i])], ok |-> n = Len(json.items)]

ReadVector(json, v) ==
    IF json.kind # "list" THEN Well(v)
    ELSE LET n == Readable(json.items) IN
         [value |-> [i \in 1 .. n |-> toInt(json.items[i])], ok |-> n = Len(json.items)]

\* Equal items of a list are one of a set.
ReadSet(json, v) ==
    IF json.kind # "list" THEN Well(v)
    ELSE LET n == Readable(json.items) IN
         [value |-> {toInt(json.items[i]) : i \in 1 .. n}, ok |-> n = Len(json.items)]

\* The elements that a list is too short for are left alone.
ReadArray(json, v) ==
    IF json.kind # "list" THEN Well(v)
    ELSE LET n == Readable(json.items) IN
         [value |-> [i \in DOMAIN v |-> IF i <= n THEN toInt(json.items[i]) ELSE v[i]], ok |-> n = Len(json.items)]

ReadOptional(json, v) ==
    IF json.kind # "list" THEN Well(v)
    ELSE LET n == Readable(json.items) IN
         [value |-> IF n = 0 THEN v ELSE <<toInt(json.items[n])>>, ok |-> n = Len(json.items)]

IsPair(t) == t.kind = "map" /\ {"key", "value"} \subseteq DOMAIN t.entries
             /\ IsScalar(t.entries["key"]) /\ IsScalar(t.entries["value"])

\* Maps are added to: nothing is cleared, and the last item of a key counts.
ReadMap(json, v) ==
    IF json.kind # "list" THEN Well(v)
    ELSE LET n == Fitting(json.items, {i \in DOMAIN json.items : IsPair(json.items[i])})
             key(i) == toString(json.items[i].entries["key"])
             last(k) == Max({i \in 1 .. n : key(i) = k})
         IN  [value |-> Over([k \in {key(i) : i \in 1 .. n} |-> toInt(json.items[last(k)].entries["value"])], v),
              ok |-> n = Len(json.items)]

\* No tree that is written has anything but scalars in such a map, or in that of a struct.
ReadStringMap(json, v) ==
    IF json.kind # "map" THEN Well(v)
    ELSE Well(Over([k \in DOMAIN json.entries |-> toInt(json.entries[k])], v))

ReadStruct(json, v, reset) ==
    IF json.kind # "map" THEN Throws(v)
    ELSE Well([f \in DOMAIN v |->
                 IF f \in DOMAIN json.entries THEN toInt(json.entries[f])
                 ELSE IF reset THEN OwnDefault.struct[f] ELSE v[f]])

jsonToValue(kind, json, v, reset) ==
    CASE kind = "int" -> ReadScalar(json, v)
      [] kind = "property" -> ReadProperty(json)
      [] kind = "enum" -> ReadEnum(json)
      [] kind = "vector" -> ReadVector(json, v)
      [] kind = "set" -> ReadSet(json, v)
      [] kind = "array" -> ReadArray(json, v)
      [] kind \in {"optional", "optionalSet"} -> ReadOptional(json, v)
      [] kind = "map" -> ReadMap(json, v)
      [] kind = "stringMap" -> ReadStringMap(json, v)
      [] kind = "struct" -> ReadStruct(json, v, reset)

\* A field with no entry is left alone, or gets what a default-constructed parent has.
\* Mutant: it is left alone always.
ReadFieldKeeping(kind, json, field, v, reset) ==
    IF field \in DOMAIN json.entries THEN jsonToValue(kind, json.entries[field], v, reset)
    ELSE Well(v)

ReadField(kind, json, field, v, reset) ==
    IF field \in DOMAIN json.entries THEN jsonToValue(kind, json.entries[field], v, reset)
    ELSE Well(IF reset THEN Default[kind] ELSE v)

\* Mutant: the fields after one that throws are read.
ReadAllFields(kind, json, v, reset) ==
    LET first == ReadField(kind, json, "first", v.first, reset)
        rest == ReadField("int", json, "rest", v.rest, reset)
    IN  [value |-> [first |-> first.value, rest |-> rest.value], ok |-> first.ok /\ rest.ok]

\* jsonToValueUsingMeta: field by field, until one throws.
jsonToStruct(kind, json, v, reset) ==
    LET first == ReadField(kind, json, "first", v.first, reset)
        rest == IF first.ok THEN ReadField("int", json, "rest", v.rest, reset) ELSE Throws(v.rest)
    IN  [value |-> [first |-> first.value, rest |-> rest.value], ok |-> rest.ok]

-----------------------------------------------------------------------------
(* PropertyTreeWriter: into the entry a tree has for the field already, or into nothing. *)

Pair(k, n) == Map([key |-> Text(k), value |-> Number(n)])

\* The entries a map is written over: the old ones, unless maps are cleared.
WriteEntries(new, old, clear) ==
    IF clear THEN Well(Map(new))
    ELSE IF MayConvertToMap(old) THEN Well(Map(Over(new, Entries(old)))) ELSE Throws(old)

WriteMap(m) == Well(List([i \in 1 .. Cardinality(DOMAIN m) |->
                             LET k == SetToSeq(DOMAIN m)[i] IN Pair(k, m[k])]))

WriteStruct(v, old, clear, skip) ==
    WriteEntries([f \in {g \in DOMAIN v : ~skip \/ v[g] # OwnDefault.struct[g]} |-> Number(v[f])], old, clear)

\* A set is written in the order of its elements.
Nth(S, i) == CHOOSE n \in S : Cardinality({m \in S : m < n}) = i - 1

valueToJson(kind, v, old, clear, skip) ==
    CASE kind \in {"int", "property"} -> Well(Number(v))
      [] kind = "enum" -> Well(Text(enumToString(v)))
      [] kind \in {"vector", "array", "optional", "optionalSet"} -> Well(List([i \in DOMAIN v |-> Number(v[i])]))
      [] kind = "set" -> Well(List([i \in 1 .. Cardinality(v) |-> Number(Nth(v, i))]))
      [] kind = "map" -> WriteMap(v)
      [] kind = "stringMap" -> WriteEntries([k \in DOMAIN v |-> Number(v[k])], old, clear)
      [] kind = "struct" -> WriteStruct(v, old, clear, skip)

\* Mutant: a field is compared with the default of its own type.
WriteFieldOwnDefault(kind, v, field, tree, clear, skip) ==
    IF skip /\ v = OwnDefault[kind] THEN Well(tree)
    ELSE LET r == valueToJson(kind, v, Child(tree, field), clear, skip) IN
         [value |-> Insert(tree, field, r.value), ok |-> r.ok]

WriteField(kind, v, field, tree, clear, skip) ==
    IF skip /\ v = Default[kind] THEN Well(tree)
    ELSE LET r == valueToJson(kind, v, Child(tree, field), clear, skip) IN
         [value |-> Insert(tree, field, r.value), ok |-> r.ok]

\* valueToJsonUsingMeta: the tree as it is left, field by field.
structToJson(kind, v, tree, clear, skip) ==
    LET base == ConvertToMap(IF clear THEN Null ELSE tree)
        first == WriteField(kind, v.first, "first", base, clear, skip)
    IN  IF first.ok THEN WriteField("int", v.rest, "rest", first.value, clear, skip) ELSE first

=============================================================================
