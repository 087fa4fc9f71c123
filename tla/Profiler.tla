------------------------------ MODULE Profiler ------------------------------
(***************************************************************************)
(* The scopes, contexts and switchers of Profiler.cpp, used by one thread: *)
(* nothing in it is synchronised.  Scopes and switchers are objects of C++ *)
(* blocks, so the last one built is the first one destroyed; contexts      *)
(* outlive them.  A record is only counted here, its time is left out.     *)
(***************************************************************************)
EXTENDS Naturals, Sequences, SequencesExt, Bags

CONSTANTS
    Key,         \* the names of scopes
    Context,
    Global,      \* globalProfilerContext
    Capacity,    \* m_data.size(), 8 in the code
    MaxOpen,     \* bound: scopes and switchers open at a time, all of the global context
    MaxMixed,    \* bound: the same, of several contexts
    MaxRecords,  \* bound: records added
    NoKey, NoContext, NoRecord

ASSUME CapacityAssumption == Capacity \in Nat \ {0} /\ Global \in Context
ASSUME NoneAssumption == NoKey \notin Key /\ NoContext \notin Context

VARIABLES
    defaultContext,
    frames,       \* the scopes and switchers that are open, the innermost last
    stackPrefix,  \* of each context: the names of its open scopes
    all,          \* of each context: how often each path was recorded
    lastRecord,   \* the record added to last, which the pointer points to
    lastKey,      \* and its path
    timed,        \* history: what should have been recorded since clearAll()
    records,      \* how many records were added
    cleared,      \* history: contexts cleared while a scope was open in them
    misused       \* history: contexts in which what happens is undefined

vars == <<defaultContext, frames, stackPrefix, all, lastRecord, lastKey, timed, records, cleared, misused>>

-----------------------------------------------------------------------------
(* LightStringList: the first Capacity - 1 names and how many there are. *)

NoNames == [data |-> [i \in 0 .. Capacity - 1 |-> NoKey], size |-> 0]

Push(list, key) ==
    [data |-> IF list.size < Capacity - 1 THEN [list.data EXCEPT ![list.size] = key] ELSE list.data,
     size |-> list.size + 1]

\* The list that holds a path, as far as it can.
ListOf(path) ==
    [data |-> [i \in 0 .. Capacity - 1 |-> IF i < Capacity - 1 /\ i < Len(path) THEN path[i + 1] ELSE NoKey],
     size |-> Len(path)]

\* A list longer than the array is popped by a write behind the array, which in memory is m_size.
BeyondArray(list) == list.size > Capacity

\* Mutant: an empty list is popped, and its size_t wraps around.
PopFromEmpty(list) ==
    IF list.size = 0 THEN {[list EXCEPT !.size = 2 ^ 16 - 1]}
    ELSE IF BeyondArray(list) THEN {[list EXCEPT !.size = n] : n \in {0, list.size - 1}}
    ELSE {[data |-> [list.data EXCEPT ![list.size - 1] = NoKey], size |-> list.size - 1]}

Popped(list) ==
    IF list.size = 0 THEN {list}
    ELSE IF BeyondArray(list) THEN {[list EXCEPT !.size = n] : n \in {0, list.size - 1}}
    ELSE {[data |-> [list.data EXCEPT ![list.size - 1] = NoKey], size |-> list.size - 1]}

-----------------------------------------------------------------------------
Init ==
    /\ defaultContext = NoContext
    /\ frames = << >>
    /\ stackPrefix = [c \in Context |-> NoNames]
    /\ all = [c \in Context |-> EmptyBag]
    /\ lastRecord = [c \in Context |-> NoRecord]
    /\ lastKey = [c \in Context |-> NoNames]
    /\ timed = [c \in Context |-> EmptyBag]
    /\ records = 0
    /\ cleared = {}
    /\ misused = {}

getDefaultContext == IF defaultContext = NoContext THEN Global ELSE defaultContext

\* Where the nested scopes of a context are.
Nested(c) == {i \in DOMAIN frames :
                 frames[i].kind = "scope" /\ frames[i].context = c /\ frames[i].pushed}

\* The k-th of some numbers.
Nth(S, k) == CHOOSE i \in S : Cardinality({j \in S : j <= i}) = k

\* The names of the nested scopes open in a context, the outermost first.
Path(c) == [k \in 1 .. Cardinality(Nested(c)) |-> frames[Nth(Nested(c), k)].key]

OpenFrame(f) ==
    /\ frames' = Append(frames, f)
    /\ Len(frames') <= IF \E i \in DOMAIN frames' : frames'[i].context # Global THEN MaxMixed ELSE MaxOpen

\* Bound: a context in which something undefined has happened is not used again, but for the
\* scopes open in it, which end.
Usable(c) == c \notin misused

Scope(key, c, pushed, nested) ==
    [kind |-> "scope", key |-> key, context |-> c, pushed |-> pushed, nested |-> nested]

pushPrefix(c, key, nested) ==
    stackPrefix' = IF nested THEN [stackPrefix EXCEPT ![c] = Push(@, key)] ELSE stackPrefix

\* ProfilerScope(key, nested)
OpenScope(key, nested) ==
    /\ Usable(getDefaultContext)
    /\ OpenFrame(Scope(key, getDefaultContext, nested, nested))
    /\ pushPrefix(getDefaultContext, key, nested)
    /\ UNCHANGED <<defaultContext, all, lastRecord, lastKey, timed, records, cleared, misused>>

\* ProfilerScope(key, customContext, nested): the member nested is not set.
OpenScopeIn(key, c, nested) ==
    /\ Usable(c)
    /\ \E member \in BOOLEAN :
          /\ OpenFrame(Scope(key, c, nested, member))
          /\ misused' = IF member = nested THEN misused ELSE misused \cup {c}
    /\ pushPrefix(c, key, nested)
    /\ UNCHANGED <<defaultContext, all, lastRecord, lastKey, timed, records, cleared>>

\* Impl::addRecord of a list.
addRecord(c, list) ==
    IF lastRecord[c] # NoRecord /\ lastKey[c] = list
    THEN all' = [all EXCEPT ![c][lastRecord[c]] = @ + 1] /\ UNCHANGED <<lastRecord, lastKey>>
    ELSE /\ all' = [all EXCEPT ![c] = @ (+) SetToBag({list})]
         /\ lastRecord' = [lastRecord EXCEPT ![c] = list]
         /\ lastKey' = [lastKey EXCEPT ![c] = list]

Timed(c, path) ==
    /\ records < MaxRecords
    /\ records' = records + 1
    /\ timed' = [timed EXCEPT ![c] = @ (+) SetToBag({ListOf(path)})]

\* Impl::pop takes the path before it pops the last name.
\* Mutant: after.
popThenRecord(c) ==
    \E rest \in Popped(stackPrefix[c]) :
        /\ stackPrefix' = [stackPrefix EXCEPT ![c] = rest]
        /\ addRecord(c, rest)

pop(c) ==
    /\ \E rest \in Popped(stackPrefix[c]) : stackPrefix' = [stackPrefix EXCEPT ![c] = rest]
    /\ addRecord(c, stackPrefix[c])

\* ~ProfilerScope
CloseScope ==
    /\ frames # << >>
    /\ LET f == Last(frames)
           c == f.context
       IN  /\ f.kind = "scope"
           /\ IF f.nested
              THEN /\ pop(c)
                   /\ misused' = IF BeyondArray(stackPrefix[c]) THEN misused \cup {c} ELSE misused
              ELSE /\ addRecord(c, Push(NoNames, f.key))
                   /\ UNCHANGED <<stackPrefix, misused>>
           /\ Timed(c, IF f.pushed THEN Path(c) ELSE <<f.key>>)
    /\ frames' = Front(frames)
    /\ UNCHANGED <<defaultContext, cleared>>

\* ProfilerContext::addRecord, and the static one in the default context.
AddRecord(key, c) ==
    /\ Usable(c)
    /\ addRecord(c, Push(NoNames, key))
    /\ Timed(c, <<key>>)
    /\ UNCHANGED <<defaultContext, frames, stackPrefix, cleared, misused>>

\* ProfilerContext::clearAll, and the static one in the default context.
\* Mutant: the pointer to the last record stays.
ClearAllButLast(c) ==
    /\ Usable(c)
    /\ all' = [all EXCEPT ![c] = EmptyBag]
    /\ stackPrefix' = [stackPrefix EXCEPT ![c].size = 0]
    /\ timed' = [timed EXCEPT ![c] = EmptyBag]
    /\ cleared' = IF Path(c) = << >> THEN cleared ELSE cleared \cup {c}
    /\ UNCHANGED <<defaultContext, frames, lastRecord, lastKey, records, misused>>

ClearAll(c) ==
    /\ Usable(c)
    /\ all' = [all EXCEPT ![c] = EmptyBag]
    /\ lastRecord' = [lastRecord EXCEPT ![c] = NoRecord]
    /\ stackPrefix' = [stackPrefix EXCEPT ![c].size = 0]
    /\ timed' = [timed EXCEPT ![c] = EmptyBag]
    /\ cleared' = IF Path(c) = << >> THEN cleared ELSE cleared \cup {c}
    /\ UNCHANGED <<defaultContext, frames, lastKey, records, misused>>

\* ProfilerDefaultContextSwitcher(customContext): nothing is kept of a default it does not change.
OpenSwitcher(c) ==
    /\ OpenFrame([kind |-> "switcher", context |-> c, trivial |-> c = defaultContext,
                  prev |-> IF c = defaultContext THEN NoContext ELSE defaultContext])
    /\ defaultContext' = c
    /\ UNCHANGED <<stackPrefix, all, lastRecord, lastKey, timed, records, cleared, misused>>

\* Mutant: a switcher that changed nothing restores too.
RestoreAlways(f) == f.prev

Restored(f) == IF f.trivial THEN defaultContext ELSE f.prev

CloseSwitcher ==
    /\ frames # << >>
    /\ Last(frames).kind = "switcher"
    /\ defaultContext' = Restored(Last(frames))
    /\ frames' = Front(frames)
    /\ UNCHANGED <<stackPrefix, all, lastRecord, lastKey, timed, records, cleared, misused>>

Next ==
    \/ \E key \in Key, nested \in BOOLEAN : OpenScope(key, nested)
    \/ \E key \in Key, c \in Context, nested \in BOOLEAN : OpenScopeIn(key, c, nested)
    \/ CloseScope
    \/ \E key \in Key, c \in Context : AddRecord(key, c)
    \/ \E c \in Context : ClearAll(c)
    \/ \E c \in Context : OpenSwitcher(c)
    \/ CloseSwitcher

Spec == Init /\ [][Next]_vars

-----------------------------------------------------------------------------
List == [data : [0 .. Capacity - 1 -> Key \cup {NoKey}], size : Nat]

ScopeFrame == [kind : {"scope"}, key : Key, context : Context, pushed : BOOLEAN, nested : BOOLEAN]
SwitcherFrame == [kind : {"switcher"}, context : Context, trivial : BOOLEAN,
                  prev : Context \cup {NoContext}]

\* Every variable has its type.
TypeOK ==
    /\ defaultContext \in Context \cup {NoContext}
    /\ frames \in Seq(ScopeFrame \cup SwitcherFrame)
    /\ stackPrefix \in [Context -> List]
    /\ DOMAIN all = Context /\ \A c \in Context : IsABag(all[c])
    /\ DOMAIN timed = Context
    /\ lastRecord \in [Context -> List \cup {NoRecord}]
    /\ lastKey \in [Context -> List]
    /\ records \in Nat
    /\ cleared \subseteq Context
    /\ misused \subseteq Context

\* The cached pointer of Impl::addRecord points to a record that is there, the one of the cached
\* path, in every context and whatever was cleared.
CacheIsRight ==
    \A c \in Context : lastRecord[c] # NoRecord => lastRecord[c] = lastKey[c] /\ lastRecord[c] \in DOMAIN all[c]

\* What the profiler prints are the scopes that ended since clearAll(), each under the names of
\* the scopes that were open around it in its context, as far as a list of names can hold them:
\* with scopes of several contexts inside one another and with the default context switched.  Not
\* if the context was cleared inside a scope (the scopes end under other names then).
RecordsArePaths ==
    \A c \in Context \ (cleared \cup misused) : all[c] = timed[c]

\* When every nested scope of a context has ended its list of names is empty, even if it was
\* cleared in between.
NoNamesLeft ==
    \A c \in Context \ misused : Nested(c) = {} => stackPrefix[c].size = 0

\* c is the context of the innermost switcher among the first n of some frames, or none is there.
DefaultAfter(fs, n, c) ==
    \/ c = NoContext /\ \A i \in 1 .. n : fs[i].kind # "switcher"
    \/ \E i \in 1 .. n :
          /\ fs[i].kind = "switcher" /\ fs[i].context = c
          /\ \A j \in i + 1 .. n : fs[j].kind # "switcher"

\* The default context is the one of the innermost switcher that is open, also when switchers of
\* the same context are inside one another.
SwitchersNest == DefaultAfter(frames, Len(frames), defaultContext)

-----------------------------------------------------------------------------
(* What the safety properties rest on: their inductive invariant.          *)

\* No context has more names than nested scopes open in it (fewer if it was cleared), and a scope
\* knows whether it pushed its name.
NamesFit ==
    /\ \A c \in Context \ misused : stackPrefix[c].size <= Cardinality(Nested(c))
    /\ \A i \in DOMAIN frames :
          frames[i].kind = "scope" /\ frames[i].context \notin misused => frames[i].pushed = frames[i].nested

\* What a switcher will restore is the default context that it found.
ToRestore(f) == IF f.trivial THEN f.context ELSE f.prev

Restorable ==
    \A i \in DOMAIN frames : frames[i].kind = "switcher" =>
        DefaultAfter(frames, i - 1, ToRestore(frames[i]))

\* The list of a context that was not cleared in a scope holds the names of the scopes open in it.
ListsArePaths ==
    \A c \in Context \ (cleared \cup misused) : stackPrefix[c] = ListOf(Path(c))

Inv == TypeOK /\ CacheIsRight /\ NamesFit /\ SwitchersNest /\ Restorable /\ ListsArePaths /\ RecordsArePaths
=============================================================================
