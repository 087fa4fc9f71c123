---------------------------- MODULE MCConversions ----------------------------
(***************************************************************************)
(* The conversions of MernelPlatform, one for each behaviour: a program    *)
(* compresses documents, or patches and compares property trees, or writes *)
(* and reads tables, or JSON, or parses its options.  They share nothing   *)
(* but this run.                                                           *)
(***************************************************************************)
EXTENDS Compression, CommandLine, CSV

CONSTANTS
    Key, Content, MaxNodes, IntBits, MaxTexts

VARIABLES
    job, one, two, doc, buffer, source

Characters == {"\t", "\r", "\n", "a"}

\* A row without a cell, with two, and with cells no text can hold.
Rows == {<< >>, << <<"a">>, << >> >>, << <<"\t">> >>, << <<"\n">> >>}

Tree == INSTANCE TreeDocuments
Json == INSTANCE JsonBuffer

\* Values that are empty, blank, one word, with nothing before it, and two.
Values == {<<"">>, <<" ">>, <<"x">>, <<"", "x">>, <<"x", "y">>}

\* What is not declared, or has one dash, has a value like any other.
Pairs ==
    [dashes : {2}, name : Single \cup Multi, value : Values]
    \cup [dashes : {2}, name : {"other"}, value : {<<"x">>}]
    \cup [dashes : {1}, name : Single, value : {<<"x">>}]

jsonVars == <<doc, buffer, source>>
everything == <<vars, job, one, two, text, table, jsonVars, options>>

NoTables == text = << >> /\ table = Fresh(FALSE)
NoPacking == Init /\ Held("data") = << >>
NoJson == doc = Json!Null /\ buffer = << >> /\ source = Json!Nothing

InitAny ==
    /\ Tree!Init /\ InitOptions
    /\ \/ job = "compression" /\ Init /\ NoTables /\ NoJson
       \/ job \in {"trees", "options"} /\ NoPacking /\ NoTables /\ NoJson
       \/ job = "tables" /\ CsvInit /\ NoPacking /\ NoJson
       \/ job = "json" /\ Json!JsonInit /\ NoPacking /\ NoTables

NextAny ==
    \/ job = "compression" /\ Next /\ UNCHANGED <<job, one, two, text, table, jsonVars, options>>
    \/ job = "trees" /\ Tree!Next /\ UNCHANGED <<job, vars, text, table, jsonVars, options>>
    \/ job = "tables" /\ CsvNext /\ UNCHANGED <<job, vars, one, two, jsonVars, options>>
    \/ job = "options" /\ NextOptions /\ UNCHANGED <<job, vars, one, two, text, table, jsonVars>>
    \/ job = "json" /\ Json!JsonNext /\ UNCHANGED <<job, vars, one, two, text, table, options>>

SpecAny == InitAny /\ [][NextAny]_everything

-----------------------------------------------------------------------------
(* The properties of the others: see TreeDocuments and JsonBuffer.         *)

\* A patch gives the document RFC 7396 defines (PropertyTree::mergePatch).
CompatiblePatchFollowsRfc == Tree!CompatiblePatchFollowsRfc
\* A difference is enough of a patch (PropertyTree::removeEqualValues).
DifferenceIsPatch == Tree!DifferenceIsPatch
\* A difference has nothing equal in it (PropertyTree::removeEqualValues).
NothingEqualLeft == Tree!NothingEqualLeft
\* A text tells the tree it was made of (writeJsonToBufferNoexcept).
TextTellsTree == Json!TextTellsTree
\* What a text says last is read, and nothing else (readJsonFromBufferNoexcept).
LastIsRead == Json!LastIsRead
=============================================================================
