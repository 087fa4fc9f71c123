----------------------------- MODULE JsonBuffer -----------------------------
(***************************************************************************)
(* FileFormatJson: property trees written to a buffer as JSON, plainly or  *)
(* for a reader's eye, and read back; also texts of other programs, which  *)
(* may name a member of an object twice.  A text is a tree of tokens in    *)
(* which the members of an object have an order: white space is left out,  *)
(* and what cannot be parsed is Garbled.                                   *)
(***************************************************************************)
EXTENDS PropertyTree, FiniteSets

CONSTANTS
    IntBits,    \* width of an integer, 64 in the code
    MaxTexts    \* bound: how many texts a buffer holds, one behind the other

Object(members) == [kind |-> "object", members |-> members]
Garbled == [kind |-> "garbled"]

\* What a scalar holds is its type and a value.
ScalarOf(type, v) == Scalar(<<type, v>>)

MaxInt == 2 ^ (IntBits - 1) - 1

-----------------------------------------------------------------------------
(* Numbers and strings.  A double is named after its digits.  A token names *)
(* the double that rapidjson reads, to whom the last of seventeen digits is *)
(* lost; a text with an exponent and ".0" behind it is no number.           *)

Drift == ("0.3" :> "0.29999999999999988") @@ ("0.29999999999999988" :> "0.29999999999999977")
         @@ ("0.29999999999999977" :> "0.29999999999999971") @@ ("0.30000000000000004" :> "0.3")

\* Seventeen digits, and ".0" where there is no point.
PlainDouble(d) ==
    IF d \in {"1e20", "nan"} THEN Garbled
    ELSE ScalarOf("double", IF d \in DOMAIN Drift THEN Drift[d] ELSE d)

\* Six digits, and ".0" behind what is the same as an int.
PrettyDouble(d) ==
    IF d \in {"1e6", "nan"} THEN Garbled
    ELSE ScalarOf("double", CASE d = "0.001953125" -> "0.00195312"
                           [] d \in DOMAIN Drift \cup {"0.29999999999999971"} -> "0.30000000000000004"
                           [] OTHER -> d)

\* A quote is not escaped when a string is printed for the eye; all else is.
Quoted(s) == IF s = "\"" THEN Garbled ELSE ScalarOf("string", s)

\* Mutant: nothing tells a double without a fraction from an integer.
PrintedNoPoint(v) ==
    CASE v[1] = "none" -> Null
      [] v = <<"double", "2">> -> ScalarOf("int", 2)
      [] v[1] = "double" -> PrettyDouble(v[2])
      [] v[1] = "string" -> Quoted(v[2])
      [] OTHER -> Scalar(v)

Printed(v) ==
    CASE v[1] = "none" -> Null
      [] v[1] = "double" -> PrettyDouble(v[2])
      [] v[1] = "string" -> Quoted(v[2])
      [] OTHER -> Scalar(v)

Plain(v) ==
    CASE v[1] = "none" -> Null
      [] v[1] = "double" -> PlainDouble(v[2])
      [] OTHER -> Scalar(v)

\* A number is kept as a signed integer if it fits into an unsigned one.
Number(v) == IF v[1] = "int" /\ v[2] > MaxInt THEN <<"int", v[2] - 2 ^ IntBits>> ELSE v

-----------------------------------------------------------------------------
(* Names.  The plain writer takes them for strings that end with a zero; a *)
(* full stop stands for one.  A map is written in the order of its names.  *)

Names == <<"\"", "a", "a.z">>

CString(name) == IF name = "a.z" THEN "a" ELSE name

Members(entries) == SelectSeq(Names, LAMBDA name : name \in DOMAIN entries)

RECURSIVE Json(_, _), jsonToPropery(_, _), Readable(_)

\* A tree as a text, plain or for the eye.
Json(t, pretty) ==
    CASE t.kind = "null" -> Null
      [] t.kind = "scalar" -> IF pretty THEN Printed(t.value) ELSE Plain(t.value)
      [] t.kind = "list" -> List([i \in DOMAIN t.items |-> Json(t.items[i], pretty)])
      [] t.kind = "map" ->
            LET names == Members(t.entries)
                JsonOf(name) == [name |-> IF pretty THEN name ELSE CString(name),
                                 value |-> Json(t.entries[name], pretty)]
            IN  IF pretty /\ \E name \in DOMAIN t.entries : Quoted(name) = Garbled THEN Garbled
                ELSE Object([i \in DOMAIN names |-> JsonOf(names[i])])

propertyToJson(t) == Json(t, FALSE)
printReadableJson(t) == Json(t, TRUE)

\* What a text makes of the tree it is read into.  A name that comes twice finds what it left
\* the first time, and a list or an object throws if that is of another kind.
Thrown == [kind |-> "thrown"]

\* Mutant: items beyond those of the list that is read stay.
ItemsNotResized(old, items) ==
    [i \in 1 .. (IF Len(old) > Len(items) THEN Len(old) ELSE Len(items)) |->
        IF i > Len(items) THEN old[i]
        ELSE jsonToPropery(IF i \in DOMAIN old THEN old[i] ELSE Null, items[i])]

Items(old, items) ==
    [i \in DOMAIN items |-> jsonToPropery(IF i \in DOMAIN old THEN old[i] ELSE Null, items[i])]

Member(t, m) ==
    IF t = Thrown THEN Thrown
    ELSE LET child == jsonToPropery(Child(t, m.name), m.value)
         IN  IF child = Thrown THEN Thrown ELSE Insert(t, m.name, child)

jsonToPropery(data, input) ==
    CASE input.kind = "null" -> Null
      [] input.kind = "scalar" -> Scalar(Number(input.value))
      [] input.kind = "object" ->
            IF MayConvertToMap(data) THEN FoldLeft(Member, ConvertToMap(data), input.members) ELSE Thrown
      [] input.kind = "list" ->
            IF ~MayConvertToList(data) THEN Thrown
            ELSE LET l == Items(ConvertToList(data).items, input.items)
                 IN  IF Thrown \in Range(l) THEN Thrown ELSE List(l)

Readable(text) ==
    /\ text # Garbled
    /\ text.kind = "list" => \A i \in DOMAIN text.items : Readable(text.items[i])
    /\ text.kind = "object" => \A i \in DOMAIN text.members : Readable(text.members[i].value)

\* One whole text with an object or a list at its root; all else is refused.
Accepted(texts) == Len(texts) = 1 /\ texts[1].kind \in {"object", "list"} /\ Readable(texts[1])

readJsonFromBuffer(texts, data) == IF Accepted(texts) THEN jsonToPropery(Null, texts[1]) ELSE data

-----------------------------------------------------------------------------
(* A program with a tree and a buffer. *)

VARIABLES
    doc,
    buffer,    \* the texts in it, one behind the other
    source    \* history: the tree that the one text in the buffer was made of, and for whom

jsonVars == <<doc, buffer, source>>

Nothing == [tree |-> Null, pretty |-> FALSE]

Doubles == {"0.5", "2", "1e6", "1e20", "nan", "0.001953125", "0.3"}

Leaves ==
    {Null, ScalarOf("none", 0), ScalarOf("bool", TRUE), ScalarOf("int", MaxInt), ScalarOf("int", - MaxInt - 1)}
    \cup {ScalarOf("double", d) : d \in Doubles} \cup {ScalarOf("string", s) : s \in {"x", "\\", "\""}}

MapsOf(names, values) == UNION {{Map(m) : m \in [K -> values]} : K \in SUBSET names}
ListsOf(n, values) == UNION {{List(s) : s \in [1 .. k -> values]} : k \in 0 .. n}

Nested == Leaves \cup ListsOf(1, Leaves) \cup UNION {MapsOf({name}, Leaves) : name \in Range(Names)}

Trees ==
    Leaves \cup ListsOf(2, Leaves) \cup ListsOf(1, Nested) \cup MapsOf({"a"}, Nested)
    \cup MapsOf(Range(Names), {Null, ScalarOf("int", 1), EmptyMap, List(<< >>)})

\* Texts of other programs: two members, of the same name or not, whose values may be objects and
\* lists; among the numbers one that is no signed integer.
ForeignLeaves == {Null, ScalarOf("int", MaxInt), ScalarOf("int", MaxInt + 1)}
ObjectsOf(n, names, values) ==
    UNION {{Object(s) : s \in [1 .. k -> [name : names, value : values]]} : k \in 0 .. n}
ForeignNested ==
    ForeignLeaves \cup ObjectsOf(1, {"a", "\""}, ForeignLeaves)
    \cup ListsOf(2, {Null} \cup ObjectsOf(1, {"a", "\""}, {ScalarOf("int", 1)}))
Foreign == ObjectsOf(2, {"a", "\""}, ForeignNested) \cup ListsOf(1, ForeignNested)

JsonInit ==
    /\ \/ doc \in Trees /\ buffer = << >>
       \/ /\ doc \in {Null, Map("a" :> List(<<Null, Null, Null>>))}
          /\ buffer \in {<<text>> : text \in Foreign}
    /\ source = Nothing

\* writeJsonToBufferNoexcept: the text takes the place of what is in the buffer, or comes behind it.
WritePretty ==
    /\ buffer' = <<printReadableJson(doc)>>
    /\ source' = [tree |-> doc, pretty |-> TRUE]
    /\ UNCHANGED doc

WritePlain ==
    /\ doc # Null
    /\ Len(buffer) < MaxTexts
    /\ buffer' = Append(buffer, propertyToJson(doc))
    /\ source' = IF buffer = << >> THEN [tree |-> doc, pretty |-> FALSE] ELSE Nothing
    /\ UNCHANGED doc

Renew ==
    /\ buffer' = << >>
    /\ source' = Nothing
    /\ UNCHANGED doc

\* An exception ends the program: readJsonFromBufferNoexcept() is noexcept.
ReadJson ==
    /\ readJsonFromBuffer(buffer, doc) # Thrown
    /\ doc' = readJsonFromBuffer(buffer, doc)
    /\ UNCHANGED <<buffer, source>>

JsonNext == WritePretty \/ WritePlain \/ Renew \/ ReadJson

JsonSpec == JsonInit /\ [][JsonNext]_jsonVars

-----------------------------------------------------------------------------
(* A tree or text told node by node, in order: the path to each and what is *)
(* there, a map without its entries and a list by how many items it has.    *)

RECURSIVE Told(_), Facts(_)

Count(n) == [kind |-> "items", count |-> n]

Below(step, facts) == [i \in DOMAIN facts |-> [facts[i] EXCEPT !.path = <<step>> \o @]]

Facts(text) ==
    LET At(node, rest) == <<[path |-> << >>, node |-> node]>> \o FlattenSeq(rest)
    IN  CASE text.kind = "object" ->
               At(EmptyMap, [i \in DOMAIN text.members |->
                                Below(text.members[i].name, Facts(text.members[i].value))])
          [] text.kind = "list" ->
               At(Count(Len(text.items)), [i \in DOMAIN text.items |-> Below(ToString(i), Facts(text.items[i]))])
          [] text.kind = "scalar" -> At(Scalar(Number(text.value)), << >>)
          [] OTHER -> At(text, << >>)

Told(t) ==
    LET Under(step, child) == {[n EXCEPT !.path = <<step>> \o @] : n \in Told(child)}
        At(node, rest) == {[path |-> << >>, node |-> node]} \cup UNION rest
    IN  CASE t.kind = "map" -> At(EmptyMap, {Under(k, t.entries[k]) : k \in DOMAIN t.entries})
          [] t.kind = "list" -> At(Count(Len(t.items)), {Under(ToString(i), t.items[i]) : i \in DOMAIN t.items})
          [] OTHER -> At(t, {})

\* Which scalars and names a text keeps.  For the eye six digits, up to a million, and no quotes;
\* else what seventeen digits tell exactly, short of 1e17, and no zeros in names.
Exact(v, pretty) ==
    CASE v[1] = "none" -> FALSE
      [] v[1] = "double" ->
            v[2] \in {"0.5", "2", "0.00195312"} \cup (IF pretty THEN {"1e20", "0.30000000000000004"}
                                                       ELSE {"1e6", "0.001953125", "0.29999999999999971"})
      [] OTHER -> ~(pretty /\ v = <<"string", "\"">>)

Kept(t, pretty) ==
    /\ IsContainer(t)
    /\ \A n \in Told(t) :
          /\ n.node.kind = "scalar" => Exact(n.node.value, pretty)
          /\ (IF pretty THEN "\"" ELSE "a.z") \notin Range(n.path)

\* What was written, plainly or for the eye, is read back as it was, whatever the tree was that it
\* is read into: nothing in it is lost, rounded, taken for another kind or refused, but for what
\* such a text cannot tell (writeJsonToBufferNoexcept, readJsonFromBufferNoexcept).
TextTellsTree ==
    source # Nothing /\ Kept(source.tree, source.pretty) => readJsonFromBuffer(buffer, doc) = source.tree

\* A later fact of a text takes the place of an earlier one: a map of what is no map, a list also
\* of items beyond its own, anything else of all that is below it.
Hides(later, n) ==
    CASE later.node = EmptyMap -> later.path = n.path /\ n.node # EmptyMap
      [] later.node.kind = "items" ->
            \/ later.path = n.path
            \/ /\ IsStrictPrefix(later.path, n.path)
               /\ n.path[Len(later.path) + 1] \notin {ToString(i) : i \in 1 .. later.node.count}
      [] OTHER -> IsPrefix(later.path, n.path)

Stands(facts, i, last) == \A j \in i + 1 .. last : ~Hides(facts[j], facts[i])

\* A list or an object of the text meets something of another kind under its own name.
Clash(facts) ==
    \E j \in DOMAIN facts : \E i \in 1 .. j - 1 :
        /\ facts[i].path = facts[j].path
        /\ facts[j].node.kind \in {"map", "items"}
        /\ facts[i].node.kind \notin {"null", facts[j].node.kind}
        /\ Stands(facts, i, j - 1)

\* The tree that is read holds what the text says last of every path and nothing else, nothing
\* from before either, also when names come twice; and it is only names that come twice, of
\* different kinds, on which reading ends the program (readJsonFromBufferNoexcept).
LastIsRead ==
    Accepted(buffer) =>
        LET facts == Facts(buffer[1])
            read == readJsonFromBuffer(buffer, doc)
        IN  IF Clash(facts) THEN read = Thrown
            ELSE read # Thrown /\ Told(read) = {facts[i] : i \in {k \in DOMAIN facts : Stands(facts, k, Len(facts))}}

=============================================================================
