------------------------------ MODULE Settings ------------------------------
(***************************************************************************)
(* A program that keeps a struct in a JSON file: PropertyTreeWriter, the   *)
(* JSON writer and FileIOUtils to save it, and the way back to load it.    *)
(* The program may be restarted at any time, also as a version in which    *)
(* the struct's first field is of another kind, and its file system may    *)
(* fail.  The member variables of reader and writer are set once.          *)
(***************************************************************************)
EXTENDS Reflection

CONSTANTS
    MaxFaults     \* bound: restarts and failing calls

ASSUME FaultsAssumption == MaxFaults \in Nat

VARIABLES
    options,   \* m_clearMaps, m_skipDefault, m_resetToDefault, and whether JSON is printed pretty
    kind,      \* what the first field is
    value,     \* the struct in memory
    tree,      \* the property tree the program keeps, while what is in it may be read again
    kept,      \* how many documents its string buffer holds
    text,      \* how many documents the text being written to the file holds
    file,      \* what is in the file: nothing, a part of a text, several documents or one
    pc,
    saved,     \* history: the struct the document in the file was made of
    faults

vars == <<options, kind, value, tree, kept, text, file, pc, saved, faults>>

Unreadable(state) == [state |-> state, doc |-> Null]
Nothing == [kind |-> "none", value |-> << >>]

Fresh(k) == [first |-> Default[k], rest |-> 0]

Init ==
    /\ options \in [clearMaps : BOOLEAN, skipDefault : BOOLEAN, resetToDefault : BOOLEAN, pretty : BOOLEAN]
    /\ kind \in Kinds
    /\ value = Fresh(kind)
    /\ tree = Null
    /\ kept = 0
    /\ text = 0
    /\ file = Unreadable("missing")
    /\ pc = "idle"
    /\ saved = Nothing
    /\ faults = 0

\* A writer that clears maps reads nothing of the tree it is given.
Keep(t) == IF options.clearMaps THEN Null ELSE t

\* The program changes a field.
Edit ==
    /\ pc = "idle"
    /\ \/ \E v \in Values[kind] \ {value.first} : value' = [value EXCEPT !.first = v]
       \/ value' = [value EXCEPT !.rest = 1 - @]
    /\ UNCHANGED <<options, kind, tree, kept, text, file, pc, saved, faults>>

\* The struct is written to the tree and the tree to a buffer: a new one, or the one the program
\* keeps, which the plain writer appends to and the pretty one overwrites.
Serialize(buffer) ==
    /\ pc = "idle"
    /\ LET r == structToJson(kind, value, tree, options.clearMaps, options.skipDefault)
           n == IF buffer = "kept" /\ ~options.pretty THEN kept + 1 ELSE 1
       IN  /\ IF r.ok
              THEN /\ n <= 2
                   /\ tree' = r.value
                   /\ text' = n
                   /\ kept' = IF buffer = "kept" THEN n ELSE kept
                   /\ pc' = "open"
              ELSE tree' = Keep(r.value) /\ UNCHANGED <<kept, text, pc>>
    /\ UNCHANGED <<options, kind, value, file, saved, faults>>

\* writeFileFromBufferNoexcept: the file is truncated, then written.
OpenFile ==
    /\ pc = "open"
    /\ file' = Unreadable("empty")
    /\ saved' = Nothing
    /\ pc' = "write"
    /\ UNCHANGED <<options, kind, value, tree, kept, text, faults>>

WriteFile ==
    /\ pc = "write"
    /\ file' = IF text = 1 THEN [state |-> "whole", doc |-> tree] ELSE Unreadable("several")
    /\ saved' = IF text = 1 THEN [kind |-> kind, value |-> value] ELSE Nothing
    /\ tree' = Keep(tree)
    /\ text' = 0
    /\ pc' = "idle"
    /\ UNCHANGED <<options, kind, value, kept, faults>>

Fault == faults < MaxFaults /\ faults' = faults + 1

\* The file cannot be opened; or not all is written, which the program is not told if it shows
\* only when the stream is closed.
OpenFails ==
    /\ pc = "open"
    /\ Fault
    /\ tree' = Keep(tree)
    /\ text' = 0
    /\ pc' = "idle"
    /\ UNCHANGED <<options, kind, value, kept, file, saved>>

WriteFails ==
    /\ pc = "write"
    /\ Fault
    /\ file' = Unreadable("part")
    /\ tree' = Keep(tree)
    /\ text' = 0
    /\ pc' = "idle"
    /\ UNCHANGED <<options, kind, value, kept, saved>>

\* Text that is not one whole document is refused and leaves all as it is.
Loadable == file.state = "whole"

Read(v) == jsonToStruct(kind, file.doc, v, options.resetToDefault)

\* The file is read into the tree, and the tree into the struct in memory or into a new one.
Load(v) ==
    /\ pc = "idle"
    /\ Loadable
    /\ UNCHANGED <<options, kind, kept, text, file, pc, saved, faults>>
    /\ tree' = Keep(file.doc)
    /\ value' = Read(v).value

Reload == Load(value)
LoadFresh == Load(Fresh(kind))

\* The program ends, and another version of it starts.
Restart ==
    /\ Fault
    /\ kind' \in Kinds
    /\ value' = Fresh(kind')
    /\ tree' = Null
    /\ kept' = 0
    /\ text' = 0
    /\ file' \in IF pc = "write" THEN {file, Unreadable("part")} ELSE {file}
    /\ pc' = "idle"
    /\ UNCHANGED <<options, saved>>

Next ==
    \/ Edit
    \/ \E buffer \in {"new", "kept"} : Serialize(buffer)
    \/ OpenFile \/ WriteFile \/ OpenFails \/ WriteFails
    \/ Reload \/ LoadFresh
    \/ Restart

Spec == Init /\ [][Next]_vars

-----------------------------------------------------------------------------
\* A document is of this version of the program, written over nothing that is left in a tree, and
\* what it leaves out is what the reader puts in.
Matches == Loadable /\ saved.kind = kind
Complete == options.clearMaps /\ (options.skipDefault => options.resetToDefault)

\* What is read back of a field that was saved, into a value that is there: maps are merged with
\* it, an empty optional leaves it alone, and an enumerator without a name is the default one.
Merged(k, s, prior) ==
    CASE k \in {"map", "stringMap"} -> Over(s, prior)
      [] k \in {"optional", "optionalSet"} -> IF s = None THEN prior ELSE s
      [] k = "enum" -> stringToEnum(enumToString(s))
      [] OTHER -> s

\* A default that was left out is put in.
Restored(k, s, prior) == IF options.skipDefault /\ s = Default[k] THEN s ELSE Merged(k, s, prior)

\* What a program saves it loads again (PropertyTreeWriter, writeJsonToBuffer, writeFileFromBuffer
\* and back), over whatever is in memory by then.
LoadRestoresSaved ==
    [][Reload /\ Matches /\ Complete =>
         value' = [first |-> Restored(kind, saved.value.first, value.first), rest |-> saved.value.rest]]_vars

\* In a new struct a program finds what it saved and nothing else, but for the kinds above.
Exact(k, s) ==
    /\ k = "enum" => s \in Mapped
    /\ k = "optionalSet" => s # None

FreshLoadIsSaved ==
    [][LoadFresh /\ Matches /\ Complete /\ Exact(kind, saved.value.first) => value' = saved.value]_vars

\* Loading a file a second time changes nothing, whichever version wrote it, into whatever it is
\* loaded and whether or not it throws.
LoadIsIdempotent == Loadable => Read(Read(value).value) = Read(value)

\* Saving what was just loaded gives the file that was loaded.
SaveIsCanonical ==
    Matches /\ Complete /\ Exact(kind, saved.value.first) =>
        structToJson(kind, Read(Fresh(kind)).value, Null, TRUE, options.skipDefault) = Well(file.doc)

\* A load that does not throw has read all fields, a load that throws none after the one that
\* did: an older version's file changes what comes after a field only together with it.
RestIsReadOrKept ==
    [][Reload /\ Complete => value'.rest = IF Read(value).ok THEN saved.value.rest ELSE value.rest]_vars

=============================================================================
