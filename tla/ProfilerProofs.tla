--------------------------- MODULE ProfilerProofs ---------------------------
(***************************************************************************)
(* Theorems about Profiler for any names, contexts, capacity and nesting   *)
(* of scopes and switchers.                                                *)
(***************************************************************************)
EXTENDS Profiler, SequenceTheorems, FiniteSetTheorems, WellFoundedInduction, TLAPS

Frame == ScopeFrame \cup SwitcherFrame

-----------------------------------------------------------------------------
(* Lists of names and frames.                                              *)

LEMMA NoNamesType == NoNames \in List
  BY CapacityAssumption DEF NoNames, List

LEMMA PushType ==
    ASSUME NEW list \in List, NEW key \in Key
    PROVE  Push(list, key) \in List /\ Push(list, key).size = list.size + 1
  BY CapacityAssumption DEF Push, List

\* Popping takes one name away, or all of them behind the array; nothing from an empty list.
LEMMA PoppedType ==
    ASSUME NEW list \in List, NEW rest \in Popped(list)
    PROVE  /\ rest \in List
           /\ list.size = 0 => rest.size = 0
           /\ list.size # 0 => rest.size <= list.size - 1
<1>1. CASE list.size = 0
  BY <1>1 DEF Popped
<1>2. CASE list.size # 0 /\ BeyondArray(list)
  BY <1>2 DEF Popped, List
<1>3. CASE list.size # 0 /\ ~BeyondArray(list)
  BY <1>3, CapacityAssumption DEF Popped, List
<1> QED
  BY <1>1, <1>2, <1>3

\* A frame that is opened becomes the last one, and the last one is closed.
LEMMA Opened ==
    ASSUME frames \in Seq(Frame), NEW f \in Frame, OpenFrame(f)
    PROVE  /\ frames' \in Seq(Frame)
           /\ Len(frames) \in Nat /\ Len(frames') = Len(frames) + 1
           /\ DOMAIN frames = 1 .. Len(frames) /\ DOMAIN frames' = 1 .. Len(frames')
           /\ \A i \in 1 .. Len(frames) : frames'[i] = frames[i]
           /\ frames'[Len(frames')] = f
  BY DEF OpenFrame

LEMMA Closed ==
    ASSUME frames \in Seq(Frame), frames # << >>, frames' = Front(frames)
    PROVE  /\ frames' \in Seq(Frame)
           /\ Len(frames) \in Nat \ {0} /\ Len(frames') = Len(frames) - 1
           /\ DOMAIN frames = 1 .. Len(frames) /\ DOMAIN frames' = 1 .. Len(frames')
           /\ \A i \in 1 .. Len(frames') : frames'[i] = frames[i]
           /\ Last(frames) = frames[Len(frames)] /\ Last(frames) \in Frame
<1>1. /\ Len(frames) \in Nat \ {0} /\ DOMAIN frames = 1 .. Len(frames)
      /\ \A i \in 1 .. Len(frames) : frames[i] \in Frame
  OBVIOUS
<1>2. /\ frames' \in Seq(Frame) /\ Len(frames') = Len(frames) - 1
      /\ \A i \in 1 .. Len(frames') : frames'[i] = frames[i]
  BY <1>1, SubSeqProperties DEF Front
<1> QED
  BY <1>1, <1>2 DEF Last

\* The bags of records.
LEMMA AddedToBag ==
    ASSUME NEW B, IsABag(B), NEW x
    PROVE  IsABag(B (+) SetToBag({x})) /\ DOMAIN (B (+) SetToBag({x})) = DOMAIN B \cup {x}
  BY DEF IsABag, SetToBag, (+)

LEMMA CountedInBag ==
    ASSUME NEW B, IsABag(B), NEW x \in DOMAIN B
    PROVE  /\ IsABag([B EXCEPT ![x] = @ + 1])
           /\ DOMAIN [B EXCEPT ![x] = @ + 1] = DOMAIN B
  BY DEF IsABag

LEMMA NothingInBag == IsABag(EmptyBag)
  BY DEF IsABag, EmptyBag, SetToBag

-----------------------------------------------------------------------------
(* Records: the types, and the cached pointer.                             *)

\* What is recorded has its type, and the record added to last is cached.
RecordsOK ==
    /\ DOMAIN all = Context /\ \A c \in Context : IsABag(all[c])
    /\ lastRecord \in [Context -> List \cup {NoRecord}]
    /\ lastKey \in [Context -> List]

LEMMA RecordKeepsCache ==
    ASSUME RecordsOK, CacheIsRight, NEW c \in Context, NEW list \in List, addRecord(c, list)
    PROVE  RecordsOK' /\ CacheIsRight'
<1>1. CASE lastRecord[c] # NoRecord /\ lastKey[c] = list
  <2>1. /\ all' = [all EXCEPT ![c] = [all[c] EXCEPT ![lastRecord[c]] = @ + 1]]
        /\ lastRecord' = lastRecord /\ lastKey' = lastKey
    BY <1>1 DEF addRecord
  <2>2. lastRecord[c] \in DOMAIN all[c]
    BY <1>1 DEF CacheIsRight
  <2>3. /\ IsABag([all[c] EXCEPT ![lastRecord[c]] = @ + 1])
        /\ DOMAIN [all[c] EXCEPT ![lastRecord[c]] = @ + 1] = DOMAIN all[c]
    BY <2>2, CountedInBag DEF RecordsOK
  <2>4. DOMAIN all' = Context /\ \A d \in Context : IsABag(all'[d]) /\ DOMAIN all'[d] = DOMAIN all[d]
    BY <2>1, <2>3 DEF RecordsOK
  <2> QED
    BY <2>1, <2>4 DEF RecordsOK, CacheIsRight
<1>2. CASE ~(lastRecord[c] # NoRecord /\ lastKey[c] = list)
  <2>1. /\ all' = [all EXCEPT ![c] = all[c] (+) SetToBag({list})]
        /\ lastRecord' = [lastRecord EXCEPT ![c] = list]
        /\ lastKey' = [lastKey EXCEPT ![c] = list]
    BY <1>2 DEF addRecord
  <2>2. /\ IsABag(all[c] (+) SetToBag({list}))
        /\ DOMAIN (all[c] (+) SetToBag({list})) = DOMAIN all[c] \cup {list}
    BY AddedToBag DEF RecordsOK
  <2>3. /\ DOMAIN all' = Context /\ \A d \in Context : IsABag(all'[d])
        /\ \A d \in Context : DOMAIN all[d] \subseteq DOMAIN all'[d]
        /\ list \in DOMAIN all'[c]
    BY <2>1, <2>2 DEF RecordsOK
  <2> QED
    BY <2>1, <2>3 DEF RecordsOK, CacheIsRight
<1> QED
  BY <1>1, <1>2

LEMMA RecordsStay ==
    ASSUME RecordsOK, CacheIsRight, all' = all, lastRecord' = lastRecord, lastKey' = lastKey
    PROVE  RecordsOK' /\ CacheIsRight'
  BY DEF RecordsOK, CacheIsRight

\* The scope that ends is of a context that exists, and so is the list it records.
LEMMA ScopeEnds ==
    ASSUME TypeOK, CloseScope
    PROVE  \E c \in Context, list \in List :
              /\ c = Last(frames).context /\ Last(frames) \in ScopeFrame
              /\ addRecord(c, list)
<1>1. Last(frames) \in ScopeFrame
  BY Closed DEF CloseScope, TypeOK, Frame, ScopeFrame, SwitcherFrame
<1>2. Last(frames).context \in Context /\ Last(frames).key \in Key
  BY <1>1 DEF ScopeFrame
<1>3. stackPrefix[Last(frames).context] \in List /\ Push(NoNames, Last(frames).key) \in List
  BY <1>2, NoNamesType, PushType DEF TypeOK
<1> QED
  BY <1>1, <1>2, <1>3 DEF CloseScope, pop

LEMMA RecordsStep ==
    ASSUME TypeOK, CacheIsRight, [Next]_vars
    PROVE  RecordsOK' /\ CacheIsRight'
<1>0. RecordsOK
  BY DEF TypeOK, RecordsOK
<1>1. CASE UNCHANGED vars
  BY <1>0, <1>1, RecordsStay DEF vars
<1>2. ASSUME NEW key \in Key, NEW nested \in BOOLEAN,
             OpenScope(key, nested) \/ \E c \in Context : OpenScopeIn(key, c, nested)
      PROVE  RecordsOK' /\ CacheIsRight'
  BY <1>0, <1>2, RecordsStay DEF OpenScope, OpenScopeIn
<1>3. CASE CloseScope
  BY <1>0, <1>3, ScopeEnds, RecordKeepsCache
<1>4. ASSUME NEW key \in Key, NEW c \in Context, AddRecord(key, c)
      PROVE  RecordsOK' /\ CacheIsRight'
  BY <1>0, <1>4, NoNamesType, PushType, RecordKeepsCache DEF AddRecord
<1>5. ASSUME NEW c \in Context, ClearAll(c)
      PROVE  RecordsOK' /\ CacheIsRight'
  BY <1>0, <1>5, NothingInBag DEF ClearAll, RecordsOK, CacheIsRight
<1>6. ASSUME NEW c \in Context, OpenSwitcher(c) \/ CloseSwitcher
      PROVE  RecordsOK' /\ CacheIsRight'
  BY <1>0, <1>6, RecordsStay DEF OpenSwitcher, CloseSwitcher
<1>7. CASE CloseSwitcher
  BY <1>0, <1>7, RecordsStay DEF CloseSwitcher
<1> QED
  BY <1>1, <1>2, <1>3, <1>4, <1>5, <1>6, <1>7 DEF Next

-----------------------------------------------------------------------------
(* The other types.                                                        *)

\* A scope or a switcher is a frame.
LEMMA ScopeIsFrame ==
    ASSUME NEW key \in Key, NEW c \in Context, NEW p \in BOOLEAN, NEW n \in BOOLEAN
    PROVE  Scope(key, c, p, n) \in ScopeFrame
  BY DEF Scope, ScopeFrame

LEMMA DefaultType == ASSUME TypeOK PROVE getDefaultContext \in Context
  BY CapacityAssumption DEF TypeOK, getDefaultContext

\* The names that are pushed when a scope is opened.
LEMMA PushedNames ==
    ASSUME stackPrefix \in [Context -> List], NEW c \in Context, NEW key \in Key,
           NEW nested \in BOOLEAN, pushPrefix(c, key, nested)
    PROVE  /\ stackPrefix' \in [Context -> List]
           /\ \A d \in Context : stackPrefix'[d].size
                 = stackPrefix[d].size + (IF nested /\ d = c THEN 1 ELSE 0)
<1>1. Push(stackPrefix[c], key) \in List
      /\ Push(stackPrefix[c], key).size = stackPrefix[c].size + 1
  BY PushType
<1>2. \A d \in Context : stackPrefix[d].size \in Nat
  BY DEF List
<1> QED
  BY <1>1, <1>2 DEF pushPrefix

LEMMA TypeStep ==
    ASSUME TypeOK, RecordsOK', [Next]_vars
    PROVE  TypeOK'
<1> DEFINE Rest == /\ defaultContext \in Context \cup {NoContext}
                   /\ DOMAIN timed = Context
                   /\ frames \in Seq(Frame)
                   /\ stackPrefix \in [Context -> List]
                   /\ records \in Nat
                   /\ cleared \subseteq Context /\ misused \subseteq Context
<1>0. Rest
  BY DEF TypeOK, Frame
<1> SUFFICES Rest'
  BY DEF TypeOK, RecordsOK, Frame
<1>1. CASE UNCHANGED vars
  BY <1>0, <1>1 DEF vars
<1>2. ASSUME NEW key \in Key, NEW nested \in BOOLEAN, OpenScope(key, nested)
      PROVE  Rest'
  <2>1. frames' \in Seq(Frame)
    BY <1>0, <1>2, DefaultType, ScopeIsFrame, Opened DEF OpenScope, Frame
  <2> QED
    BY <1>0, <1>2, <2>1, DefaultType, PushedNames DEF OpenScope
<1>3. ASSUME NEW key \in Key, NEW nested \in BOOLEAN, NEW c \in Context, OpenScopeIn(key, c, nested)
      PROVE  Rest'
  <2>1. PICK member \in BOOLEAN :
            /\ OpenFrame(Scope(key, c, nested, member))
            /\ misused' = IF member = nested THEN misused ELSE misused \cup {c}
    BY <1>3 DEF OpenScopeIn
  <2>2. frames' \in Seq(Frame) /\ misused' \subseteq Context
    BY <1>0, <2>1, ScopeIsFrame, Opened DEF Frame
  <2> QED
    BY <1>0, <1>3, <2>2, PushedNames DEF OpenScopeIn
<1>4. CASE CloseScope
  <2>1. frames' \in Seq(Frame) /\ Last(frames) \in ScopeFrame
    BY <1>0, <1>4, Closed, ScopeEnds DEF CloseScope
  <2>2. PICK c \in Context : c = Last(frames).context
    BY <2>1 DEF ScopeFrame
  <2>3. stackPrefix' \in [Context -> List] /\ misused' \subseteq Context
    <3>1. CASE Last(frames).nested
      <4>1. /\ \E rest \in Popped(stackPrefix[c]) :
                  stackPrefix' = [stackPrefix EXCEPT ![c] = rest]
            /\ misused' = IF BeyondArray(stackPrefix[c]) THEN misused \cup {c} ELSE misused
        BY <1>4, <2>2, <3>1 DEF CloseScope, pop
      <4> QED
        BY <1>0, <4>1, PoppedType
    <3>2. CASE ~Last(frames).nested
      BY <1>0, <1>4, <3>2 DEF CloseScope
    <3> QED
      BY <3>1, <3>2
  <2>4. /\ defaultContext' = defaultContext /\ records' \in Nat /\ cleared' = cleared
        /\ DOMAIN timed' = Context
    BY <1>0, <1>4 DEF CloseScope, Timed
  <2> QED
    BY <1>0, <2>1, <2>3, <2>4
<1>5. ASSUME NEW key \in Key, NEW c \in Context, AddRecord(key, c)
      PROVE  Rest'
  BY <1>0, <1>5 DEF AddRecord, Timed
<1>6. ASSUME NEW c \in Context, ClearAll(c)
      PROVE  Rest'
  <2>1. stackPrefix' = [stackPrefix EXCEPT ![c] = [stackPrefix[c] EXCEPT !.size = 0]]
    BY <1>6 DEF ClearAll
  <2>2. [stackPrefix[c] EXCEPT !.size = 0] \in List
    BY <1>0 DEF List
  <2>3. stackPrefix' \in [Context -> List]
    BY <1>0, <2>1, <2>2
  <2> QED
    BY <1>0, <1>6, <2>3 DEF ClearAll
<1>7. ASSUME NEW c \in Context, OpenSwitcher(c)
      PROVE  Rest'
  <2>1. [kind |-> "switcher", context |-> c, trivial |-> c = defaultContext,
         prev |-> IF c = defaultContext THEN NoContext ELSE defaultContext] \in Frame
    BY <1>0 DEF Frame, SwitcherFrame
  <2>2. frames' \in Seq(Frame)
    BY <1>0, <1>7, <2>1, Opened DEF OpenSwitcher
  <2> QED
    BY <1>0, <1>7, <2>2 DEF OpenSwitcher
<1>8. CASE CloseSwitcher
  <2>1. frames' \in Seq(Frame) /\ Last(frames) \in SwitcherFrame
    BY <1>0, <1>8, Closed DEF CloseSwitcher, Frame, ScopeFrame
  <2>2. defaultContext' \in Context \cup {NoContext}
    BY <1>0, <1>8, <2>1 DEF CloseSwitcher, Restored, SwitcherFrame
  <2> QED
    BY <1>0, <1>8, <2>1, <2>2 DEF CloseSwitcher
<1> QED
  BY <1>1, <1>2, <1>3, <1>4, <1>5, <1>6, <1>7, <1>8 DEF Next

-----------------------------------------------------------------------------
(* Switchers.                                                              *)

\* The default context after some frames depends on those frames only.
LEMMA SameDefault ==
    ASSUME NEW fs, NEW gs, NEW n \in Nat, NEW c, \A i \in 1 .. n : gs[i] = fs[i],
           DefaultAfter(fs, n, c)
    PROVE  DefaultAfter(gs, n, c)
  BY DEF DefaultAfter

\* A scope changes nothing, a switcher everything.
LEMMA NextDefault ==
    ASSUME NEW fs, NEW n \in Nat, NEW c
    PROVE  /\ fs[n + 1].kind # "switcher" =>
                 (DefaultAfter(fs, n, c) <=> DefaultAfter(fs, n + 1, c))
           /\ fs[n + 1].kind = "switcher" =>
                 (fs[n + 1].context = c <=> DefaultAfter(fs, n + 1, c))
<1>1. /\ \A i \in 1 .. n + 1 : i \in 1 .. n \/ i = n + 1
      /\ \A i \in 1 .. n : i \in 1 .. n + 1
  OBVIOUS
<1>2. CASE fs[n + 1].kind # "switcher"
  <2>1. \A i \in 1 .. n : (\A j \in i + 1 .. n : fs[j].kind # "switcher")
                             <=> (\A j \in i + 1 .. n + 1 : fs[j].kind # "switcher")
    <3>1. \A i \in 1 .. n : \A j \in i + 1 .. n + 1 : j \in i + 1 .. n \/ j = n + 1
      OBVIOUS
    <3>2. \A i \in 1 .. n : \A j \in i + 1 .. n : j \in i + 1 .. n + 1
      OBVIOUS
    <3> QED
      BY <1>2, <3>1, <3>2
  <2> QED
    BY <1>1, <1>2, <2>1 DEF DefaultAfter
<1>3. CASE fs[n + 1].kind = "switcher"
  <2>1. \A i \in 1 .. n : n + 1 \in i + 1 .. n + 1
    OBVIOUS
  <2>2. n + 1 \in 1 .. n + 1 /\ \A j \in (n + 1) + 1 .. n + 1 : FALSE
    OBVIOUS
  <2> QED
    BY <1>1, <1>3, <2>1, <2>2 DEF DefaultAfter
<1> QED
  BY <1>2, <1>3

\* Opening and closing a frame leaves what the switchers below it restore.
LEMMA RestorableBelow ==
    ASSUME Restorable, NEW n \in Nat, 1 .. n \subseteq DOMAIN frames,
           NEW gs, DOMAIN gs = 1 .. n \/ DOMAIN gs = 1 .. n + 1,
           \A i \in 1 .. n : gs[i] = frames[i],
           n + 1 \in DOMAIN gs /\ gs[n + 1].kind = "switcher" =>
              DefaultAfter(gs, n, ToRestore(gs[n + 1]))
    PROVE  \A i \in DOMAIN gs : gs[i].kind = "switcher" =>
              DefaultAfter(gs, i - 1, ToRestore(gs[i]))
<1> SUFFICES ASSUME NEW i \in DOMAIN gs, gs[i].kind = "switcher"
             PROVE  DefaultAfter(gs, i - 1, ToRestore(gs[i]))
  OBVIOUS
<1>1. CASE i \in 1 .. n
  <2>1. DefaultAfter(frames, i - 1, ToRestore(frames[i]))
    BY <1>1 DEF Restorable
  <2>2. i - 1 \in Nat /\ \A j \in 1 .. i - 1 : gs[j] = frames[j]
    BY <1>1
  <2> QED
    BY <1>1, <2>1, <2>2, SameDefault
<1>2. CASE i = n + 1
  <2>1. i - 1 = n
    BY <1>2
  <2> QED
    BY <1>2, <2>1
<1>3. i \in 1 .. n \/ i = n + 1
  OBVIOUS
<1> QED
  BY <1>1, <1>2, <1>3

LEMMA NestStep ==
    ASSUME TypeOK, SwitchersNest, Restorable, [Next]_vars
    PROVE  SwitchersNest' /\ Restorable'
<1>0. frames \in Seq(Frame) /\ Len(frames) \in Nat
  BY DEF TypeOK, Frame
<1>1. CASE frames' = frames /\ defaultContext' = defaultContext
  BY <1>1 DEF SwitchersNest, Restorable
<1>2. ASSUME NEW f \in ScopeFrame, OpenFrame(f), defaultContext' = defaultContext
      PROVE  SwitchersNest' /\ Restorable'
  <2>1. f \in Frame /\ f.kind # "switcher"
    BY DEF Frame, ScopeFrame
  <2>2. DefaultAfter(frames', Len(frames), defaultContext)
    BY <1>0, <1>2, <2>1, Opened, SameDefault DEF SwitchersNest
  <2>3. SwitchersNest'
    BY <1>0, <1>2, <2>1, <2>2, Opened, NextDefault DEF SwitchersNest
  <2>4. /\ 1 .. Len(frames) \subseteq DOMAIN frames /\ DOMAIN frames' = 1 .. Len(frames) + 1
        /\ \A i \in 1 .. Len(frames) : frames'[i] = frames[i]
        /\ frames'[Len(frames) + 1].kind # "switcher"
    BY <1>0, <1>2, <2>1, Opened
  <2>5. Restorable'
    BY <1>0, <2>4, RestorableBelow DEF Restorable
  <2> QED
    BY <2>3, <2>5
<1>3. ASSUME NEW c \in Context, OpenSwitcher(c) PROVE SwitchersNest' /\ Restorable'
  <2> DEFINE f == [kind |-> "switcher", context |-> c, trivial |-> c = defaultContext,
                   prev |-> IF c = defaultContext THEN NoContext ELSE defaultContext]
  <2>1. f \in Frame /\ f.kind = "switcher" /\ f.context = c /\ ToRestore(f) = defaultContext
    BY DEF TypeOK, Frame, SwitcherFrame, ToRestore
  <2>2. OpenFrame(f) /\ defaultContext' = c
    BY <1>3 DEF OpenSwitcher
  <2> HIDE DEF f
  <2>3. DefaultAfter(frames', Len(frames), defaultContext)
    BY <1>0, <2>1, <2>2, Opened, SameDefault DEF SwitchersNest
  <2>4. SwitchersNest'
    <3>1. frames'[Len(frames) + 1].kind = "switcher" /\ frames'[Len(frames) + 1].context = c
          /\ Len(frames') = Len(frames) + 1
      BY <1>0, <2>1, <2>2, Opened
    <3>2. DefaultAfter(frames', Len(frames) + 1, c)
      BY <1>0, <3>1, NextDefault
    <3> QED
      BY <2>2, <3>1, <3>2 DEF SwitchersNest
  <2>5. /\ 1 .. Len(frames) \subseteq DOMAIN frames /\ DOMAIN frames' = 1 .. Len(frames) + 1
        /\ \A i \in 1 .. Len(frames) : frames'[i] = frames[i]
        /\ ToRestore(frames'[Len(frames) + 1]) = defaultContext
    BY <1>0, <2>1, <2>2, Opened
  <2>6. Restorable'
    BY <1>0, <2>3, <2>5, RestorableBelow DEF Restorable
  <2> QED
    BY <2>4, <2>6
<1>4. ASSUME frames # << >>, frames' = Front(frames)
      PROVE  Restorable'
  BY <1>0, <1>4, Closed, RestorableBelow DEF Restorable
<1>5. CASE CloseScope
  <2>1. /\ frames # << >> /\ frames' = Front(frames) /\ defaultContext' = defaultContext
        /\ Last(frames).kind # "switcher"
    BY <1>5 DEF CloseScope
  <2>2. DefaultAfter(frames, Len(frames'), defaultContext)
    BY <1>0, <2>1, Closed, NextDefault DEF SwitchersNest
  <2>3. SwitchersNest'
    BY <1>0, <2>1, <2>2, Closed, SameDefault DEF SwitchersNest
  <2> QED
    BY <1>4, <2>1, <2>3
<1>6. CASE CloseSwitcher
  <2>1. /\ frames # << >> /\ frames' = Front(frames) /\ Last(frames).kind = "switcher"
        /\ defaultContext' = Restored(Last(frames))
    BY <1>6 DEF CloseSwitcher
  <2>2. Last(frames).context = defaultContext
    <3>0. frames \in Seq(Frame) /\ frames # << >> /\ frames' = Front(frames)
      BY <1>0, <2>1
    <3> DEFINE n == Len(frames')
    <3>1. n \in Nat
      BY <3>0, Closed
    <3>2. Len(frames) = n + 1 /\ Last(frames) = frames[n + 1]
      BY <3>0, Closed
    <3> HIDE DEF n
    <3>3. DefaultAfter(frames, n + 1, defaultContext) /\ frames[n + 1].kind = "switcher"
      BY <2>1, <3>2 DEF SwitchersNest
    <3>4. frames[n + 1].context = defaultContext
      BY <3>1, <3>3, NextDefault
    <3> QED
      BY <3>2, <3>4
  <2>3. defaultContext' = ToRestore(Last(frames))
    BY <2>1, <2>2 DEF Restored, ToRestore
  <2>4. DefaultAfter(frames, Len(frames'), defaultContext')
    BY <1>0, <2>1, <2>3, Closed DEF Restorable
  <2>5. SwitchersNest'
    BY <1>0, <2>1, <2>4, Closed, SameDefault DEF SwitchersNest
  <2> QED
    BY <1>4, <2>1, <2>5
<1>7. CASE UNCHANGED vars
  BY <1>1, <1>7 DEF vars
<1>8. CASE Next
  <2>1. ASSUME NEW key \in Key, NEW nested \in BOOLEAN, OpenScope(key, nested)
        PROVE  SwitchersNest' /\ Restorable'
    BY <1>2, <2>1, DefaultType, ScopeIsFrame DEF OpenScope
  <2>2. ASSUME NEW key \in Key, NEW c \in Context, NEW nested \in BOOLEAN,
               OpenScopeIn(key, c, nested)
        PROVE  SwitchersNest' /\ Restorable'
    BY <1>2, <2>2, ScopeIsFrame DEF OpenScopeIn
  <2>3. ASSUME NEW key \in Key, NEW c \in Context, AddRecord(key, c)
        PROVE  SwitchersNest' /\ Restorable'
    BY <1>1, <2>3 DEF AddRecord
  <2>4. ASSUME NEW c \in Context, ClearAll(c) PROVE SwitchersNest' /\ Restorable'
    BY <1>1, <2>4 DEF ClearAll
  <2> QED
    BY <1>3, <1>5, <1>6, <1>8, <2>1, <2>2, <2>3, <2>4 DEF Next
<1> QED
  BY <1>7, <1>8

-----------------------------------------------------------------------------
(* Names.                                                                  *)

IsNested(f, c) == f.kind = "scope" /\ f.context = c /\ f.pushed

LEMMA NestedFinite ==
    ASSUME frames \in Seq(Frame), NEW c
    PROVE  IsFiniteSet(Nested(c)) /\ Cardinality(Nested(c)) \in Nat
<1>1. Nested(c) \in SUBSET (1 .. Len(frames)) /\ Len(frames) \in Nat
  BY DEF Nested
<1>2. IsFiniteSet(1 .. Len(frames))
  BY <1>1, FS_Interval
<1> QED
  BY <1>1, <1>2, FS_Subset, FS_CardinalityType

LEMMA NestedOpened ==
    ASSUME frames \in Seq(Frame), NEW f \in Frame, OpenFrame(f), NEW c
    PROVE  Cardinality(Nested(c)') = Cardinality(Nested(c)) + (IF IsNested(f, c) THEN 1 ELSE 0)
<1>1. Nested(c)' = IF IsNested(f, c) THEN Nested(c) \cup {Len(frames) + 1} ELSE Nested(c)
  <2>1. /\ DOMAIN frames = 1 .. Len(frames) /\ DOMAIN frames' = 1 .. Len(frames) + 1
        /\ \A i \in 1 .. Len(frames) : frames'[i] = frames[i]
        /\ frames'[Len(frames) + 1] = f /\ Len(frames) \in Nat
    BY Opened
  <2>2. DOMAIN frames' = DOMAIN frames \cup {Len(frames) + 1}
    BY <2>1
  <2>3. Nested(c)' = {i \in DOMAIN frames' : IsNested(frames'[i], c)}
    BY DEF Nested, IsNested
  <2>4. Nested(c) = {i \in DOMAIN frames : IsNested(frames[i], c)}
    BY DEF Nested, IsNested
  <2> QED
    BY <2>1, <2>2, <2>3, <2>4
<1>2. Len(frames) + 1 \notin Nested(c)
  BY DEF Nested
<1>3. IsFiniteSet(Nested(c)) /\ Cardinality(Nested(c)) \in Nat
  BY NestedFinite
<1>4. Cardinality(Nested(c) \cup {Len(frames) + 1}) = Cardinality(Nested(c)) + 1
  BY <1>2, <1>3, FS_AddElement
<1>5. CASE IsNested(f, c)
  BY <1>1, <1>4, <1>5
<1>6. CASE ~IsNested(f, c)
  BY <1>1, <1>3, <1>6
<1> QED
  BY <1>5, <1>6

LEMMA NestedClosed ==
    ASSUME frames \in Seq(Frame), frames # << >>, frames' = Front(frames), NEW c
    PROVE  Cardinality(Nested(c)')
              = Cardinality(Nested(c)) - (IF IsNested(Last(frames), c) THEN 1 ELSE 0)
<1>1. Nested(c)' = Nested(c) \ {Len(frames)}
      /\ (Len(frames) \in Nested(c) <=> IsNested(Last(frames), c))
  <2>1. /\ DOMAIN frames = 1 .. Len(frames) /\ DOMAIN frames' = 1 .. Len(frames) - 1
        /\ \A i \in 1 .. Len(frames) - 1 : frames'[i] = frames[i]
        /\ Last(frames) = frames[Len(frames)] /\ Len(frames) \in Nat \ {0}
    BY Closed
  <2>2. DOMAIN frames' = DOMAIN frames \ {Len(frames)} /\ Len(frames) \in DOMAIN frames
    BY <2>1
  <2>3. Nested(c)' = {i \in DOMAIN frames' : IsNested(frames'[i], c)}
    BY DEF Nested, IsNested
  <2>4. Nested(c) = {i \in DOMAIN frames : IsNested(frames[i], c)}
    BY DEF Nested, IsNested
  <2> QED
    BY <2>1, <2>2, <2>3, <2>4
<1>2. IsFiniteSet(Nested(c)) /\ Cardinality(Nested(c)) \in Nat
  BY NestedFinite
<1>3. Cardinality(Nested(c) \ {Len(frames)})
        = IF Len(frames) \in Nested(c) THEN Cardinality(Nested(c)) - 1 ELSE Cardinality(Nested(c))
  BY <1>2, FS_RemoveElement
<1>4. CASE IsNested(Last(frames), c)
  BY <1>1, <1>3, <1>4
<1>5. CASE ~IsNested(Last(frames), c)
  BY <1>1, <1>2, <1>3, <1>5
<1> QED
  BY <1>4, <1>5

\* Where a scope pushed its name and will pop it.
PopsWhatItPushed ==
    \A i \in DOMAIN frames :
        frames[i].kind = "scope" /\ frames[i].context \notin misused => frames[i].pushed = frames[i].nested

LEMMA NamesOpened ==
    ASSUME TypeOK, NamesFit, NEW f \in ScopeFrame, OpenFrame(f), NEW nested \in BOOLEAN,
           pushPrefix(f.context, f.key, nested), f.pushed = nested, misused \subseteq misused',
           f.context \notin misused' => f.pushed = f.nested
    PROVE  NamesFit'
<1>0. /\ frames \in Seq(Frame) /\ f \in Frame /\ f.kind = "scope"
      /\ f.context \in Context /\ f.key \in Key
  BY DEF TypeOK, Frame, ScopeFrame
<1>1. PopsWhatItPushed'
  <2>1. /\ DOMAIN frames' = 1 .. Len(frames) + 1 /\ Len(frames) \in Nat
        /\ DOMAIN frames = 1 .. Len(frames)
        /\ \A i \in 1 .. Len(frames) : frames'[i] = frames[i]
        /\ frames'[Len(frames) + 1] = f
    BY <1>0, Opened
  <2>2. \A i \in DOMAIN frames' : i \in DOMAIN frames \/ i = Len(frames) + 1
    BY <2>1
  <2> QED
    BY <2>1, <2>2 DEF NamesFit, PopsWhatItPushed
<1>2. ASSUME NEW c \in Context, c \notin misused'
      PROVE  stackPrefix'[c].size <= Cardinality(Nested(c)')
  <2>1. stackPrefix'[c].size = stackPrefix[c].size + (IF nested /\ c = f.context THEN 1 ELSE 0)
    BY <1>0, PushedNames DEF TypeOK
  <2>2. Cardinality(Nested(c)') = Cardinality(Nested(c)) + (IF IsNested(f, c) THEN 1 ELSE 0)
    BY <1>0, NestedOpened
  <2>3. IsNested(f, c) <=> nested /\ c = f.context
    BY <1>0 DEF IsNested
  <2>4. stackPrefix[c].size <= Cardinality(Nested(c)) /\ Cardinality(Nested(c)) \in Nat
        /\ stackPrefix[c].size \in Nat
    BY <1>0, <1>2, NestedFinite DEF NamesFit, TypeOK, List
  <2> QED
    BY <2>1, <2>2, <2>3, <2>4
<1> QED
  BY <1>1, <1>2 DEF NamesFit, PopsWhatItPushed

LEMMA NamesClosed ==
    ASSUME TypeOK, NamesFit, CloseScope
    PROVE  NamesFit'
<1>0. /\ frames \in Seq(Frame) /\ frames # << >> /\ frames' = Front(frames)
      /\ Last(frames) \in ScopeFrame
  BY ScopeEnds DEF TypeOK, Frame, CloseScope
<1>1. PICK d \in Context : d = Last(frames).context
  BY <1>0 DEF ScopeFrame
<1>2. /\ misused \subseteq misused'
      /\ Last(frames).nested =>
            \E rest \in Popped(stackPrefix[d]) : stackPrefix' = [stackPrefix EXCEPT ![d] = rest]
      /\ ~Last(frames).nested => stackPrefix' = stackPrefix
  BY <1>1 DEF CloseScope, pop
<1>3. /\ Len(frames) \in Nat \ {0} /\ DOMAIN frames = 1 .. Len(frames)
      /\ DOMAIN frames' = 1 .. Len(frames) - 1
      /\ \A i \in 1 .. Len(frames) - 1 : frames'[i] = frames[i]
      /\ Last(frames) = frames[Len(frames)]
  BY <1>0, Closed
<1>4. PopsWhatItPushed'
  <2>1. \A i \in DOMAIN frames' : i \in DOMAIN frames /\ frames'[i] = frames[i]
    BY <1>3
  <2> QED
    BY <1>2, <2>1 DEF NamesFit, PopsWhatItPushed
<1>5. ASSUME NEW c \in Context, c \notin misused'
      PROVE  stackPrefix'[c].size <= Cardinality(Nested(c)')
  <2>1. Cardinality(Nested(c)')
           = Cardinality(Nested(c)) - (IF IsNested(Last(frames), c) THEN 1 ELSE 0)
    BY <1>0, NestedClosed
  <2>2. stackPrefix[c].size <= Cardinality(Nested(c)) /\ Cardinality(Nested(c)) \in Nat
        /\ stackPrefix[c].size \in Nat /\ stackPrefix[c] \in List
    BY <1>0, <1>2, <1>5, NestedFinite DEF NamesFit, TypeOK, List
  <2>3. Len(frames) \in DOMAIN frames
    BY <1>3
  <2>4. IsNested(Last(frames), c) <=> c = d /\ Last(frames).nested
    BY <1>0, <1>1, <1>2, <1>3, <1>5, <2>3 DEF IsNested, NamesFit, ScopeFrame
  <2>5. CASE c = d /\ Last(frames).nested
    <3>1. PICK rest \in Popped(stackPrefix[c]) : stackPrefix' = [stackPrefix EXCEPT ![c] = rest]
      BY <1>2, <2>5
    <3>2. stackPrefix'[c] = rest
      BY <3>1 DEF TypeOK
    <3>3. /\ rest \in List
          /\ stackPrefix[c].size = 0 => rest.size = 0
          /\ stackPrefix[c].size # 0 => rest.size <= stackPrefix[c].size - 1
      BY <2>2, <3>1, PoppedType
    <3>4. rest.size \in Nat
      BY <3>3 DEF List
    <3>5. Len(frames) \in Nested(c)
      BY <1>3, <2>3, <2>4, <2>5 DEF Nested, IsNested
    <3>6. Cardinality(Nested(c)) # 0
      BY <1>0, <3>5, NestedFinite, FS_EmptySet
    <3> QED
      BY <2>1, <2>2, <2>4, <2>5, <3>2, <3>3, <3>4, <3>6
  <2>6. CASE ~(c = d /\ Last(frames).nested)
    <3>1. stackPrefix'[c] = stackPrefix[c]
      BY <1>2, <2>6 DEF TypeOK
    <3> QED
      BY <2>1, <2>2, <2>4, <2>6, <3>1
  <2> QED
    BY <2>5, <2>6
<1> QED
  BY <1>4, <1>5 DEF NamesFit, PopsWhatItPushed

LEMMA NamesStep ==
    ASSUME TypeOK, NamesFit, [Next]_vars
    PROVE  NamesFit'
<1>1. ASSUME frames' = frames, stackPrefix' = stackPrefix, misused' = misused PROVE NamesFit'
  BY <1>1 DEF NamesFit, Nested
<1>2. CASE UNCHANGED vars
  BY <1>1, <1>2 DEF vars
<1>3. ASSUME NEW key \in Key, NEW nested \in BOOLEAN, OpenScope(key, nested) PROVE NamesFit'
  <2>1. PICK c \in Context : c = getDefaultContext
    BY DefaultType
  <2> DEFINE f == Scope(key, c, nested, nested)
  <2>2. f \in ScopeFrame /\ f.context = c /\ f.key = key /\ f.pushed = nested /\ f.nested = nested
    BY ScopeIsFrame DEF Scope
  <2>3. OpenFrame(f) /\ pushPrefix(c, key, nested) /\ misused' = misused
    BY <1>3, <2>1 DEF OpenScope
  <2> HIDE DEF f
  <2> QED
    BY <2>2, <2>3, NamesOpened
<1>4. ASSUME NEW key \in Key, NEW c \in Context, NEW nested \in BOOLEAN,
             OpenScopeIn(key, c, nested)
      PROVE  NamesFit'
  <2>1. PICK member \in BOOLEAN :
            /\ OpenFrame(Scope(key, c, nested, member))
            /\ misused' = IF member = nested THEN misused ELSE misused \cup {c}
    BY <1>4 DEF OpenScopeIn
  <2> DEFINE f == Scope(key, c, nested, member)
  <2>2. f \in ScopeFrame /\ f.context = c /\ f.key = key /\ f.pushed = nested /\ f.nested = member
    BY ScopeIsFrame DEF Scope
  <2>3. OpenFrame(f) /\ pushPrefix(c, key, nested)
    BY <1>4, <2>1 DEF OpenScopeIn
  <2>4. misused \subseteq misused' /\ (c \notin misused' => member = nested)
    BY <2>1
  <2> HIDE DEF f
  <2> QED
    BY <2>2, <2>3, <2>4, NamesOpened
<1>5. ASSUME NEW c \in Context, ClearAll(c) PROVE NamesFit'
  <2>1. /\ stackPrefix' = [stackPrefix EXCEPT ![c] = [stackPrefix[c] EXCEPT !.size = 0]]
        /\ frames' = frames /\ misused' = misused
    BY <1>5 DEF ClearAll
  <2>2. \A d \in Context : stackPrefix'[d].size = 0 \/ stackPrefix'[d] = stackPrefix[d]
    BY <2>1 DEF TypeOK, List
  <2>3. \A d \in Context : Nested(d)' = Nested(d) /\ Cardinality(Nested(d)) \in Nat
    BY <2>1, NestedFinite DEF Nested, TypeOK, Frame
  <2> QED
    BY <2>1, <2>2, <2>3 DEF NamesFit
<1>6. ASSUME NEW key \in Key, NEW c \in Context, AddRecord(key, c) PROVE NamesFit'
  BY <1>1, <1>6 DEF AddRecord
<1>7. ASSUME NEW c \in Context, OpenSwitcher(c) PROVE NamesFit'
  <2> DEFINE f == [kind |-> "switcher", context |-> c, trivial |-> c = defaultContext,
                   prev |-> IF c = defaultContext THEN NoContext ELSE defaultContext]
  <2>1. f \in Frame /\ f.kind = "switcher" /\ frames \in Seq(Frame)
    BY DEF TypeOK, Frame, SwitcherFrame
  <2>2. OpenFrame(f) /\ stackPrefix' = stackPrefix /\ misused' = misused
    BY <1>7 DEF OpenSwitcher
  <2> HIDE DEF f
  <2>3. \A d \in Context : Cardinality(Nested(d)') = Cardinality(Nested(d))
    <3>1. \A d : ~IsNested(f, d)
      BY <2>1 DEF IsNested
    <3>2. \A d : Cardinality(Nested(d)) \in Nat
      BY <2>1, NestedFinite
    <3> QED
      BY <2>1, <2>2, <3>1, <3>2, NestedOpened
  <2>4. \A i \in DOMAIN frames' : frames'[i].kind = "scope" => i \in DOMAIN frames /\ frames'[i] = frames[i]
    <3>1. /\ DOMAIN frames' = 1 .. Len(frames) + 1 /\ DOMAIN frames = 1 .. Len(frames)
          /\ \A i \in 1 .. Len(frames) : frames'[i] = frames[i]
          /\ frames'[Len(frames) + 1] = f /\ Len(frames) \in Nat
      BY <2>1, <2>2, Opened
    <3>2. \A i \in DOMAIN frames' : i \in DOMAIN frames \/ i = Len(frames) + 1
      BY <3>1
    <3> QED
      BY <2>1, <3>1, <3>2
  <2> QED
    BY <2>2, <2>3, <2>4 DEF NamesFit
<1>8. CASE CloseSwitcher
  <2>1. /\ frames \in Seq(Frame) /\ frames # << >> /\ frames' = Front(frames)
        /\ Last(frames).kind = "switcher" /\ stackPrefix' = stackPrefix /\ misused' = misused
    BY <1>8 DEF CloseSwitcher, TypeOK, Frame
  <2>2. \A d \in Context : Cardinality(Nested(d)') = Cardinality(Nested(d))
    <3>1. \A d : ~IsNested(Last(frames), d)
      BY <2>1 DEF IsNested
    <3>2. \A d : Cardinality(Nested(d)) \in Nat
      BY <2>1, NestedFinite
    <3> QED
      BY <2>1, <3>1, <3>2, NestedClosed
  <2>3. \A i \in DOMAIN frames' : i \in DOMAIN frames /\ frames'[i] = frames[i]
    BY <2>1, Closed
  <2> QED
    BY <2>1, <2>2, <2>3 DEF NamesFit
<1>9. CASE CloseScope
  BY <1>9, NamesClosed
<1> QED
  BY <1>2, <1>3, <1>4, <1>5, <1>6, <1>7, <1>8, <1>9 DEF Next

-----------------------------------------------------------------------------
(* Paths.                                                                  *)

\* Induction over the naturals: from the well-founded order of the library, whose induction
\* theorems no prover here can instantiate.
LEMMA SetInduction ==
    ASSUME NEW T \in SUBSET Nat, 0 \in T, \A n \in T : n + 1 \in T
    PROVE  T = Nat
<1>1. \A x, y \in Nat : y < x => <<y, x>> \in OpToRel(<, Nat)
  BY DEF OpToRel
<1>2. SUFFICES ASSUME Nat \ T # {} PROVE FALSE
  OBVIOUS
<1>3. \E x \in Nat \ T : \A y \in Nat \ T : <<y, x>> \notin OpToRel(<, Nat)
  BY <1>2, WFMin, NatLessThanWellFounded
<1>4. \E x \in Nat \ T : \A y \in Nat \ T : ~(y < x)
  BY <1>1, <1>3
<1>5. PICK x \in Nat \ T : \A y \in Nat \ T : ~(y < x)
  BY <1>4
<1>6. x # 0
  OBVIOUS
<1>7. x - 1 \in Nat /\ x - 1 < x /\ (x - 1) + 1 = x
  BY <1>6
<1>8. x - 1 \in T
  BY <1>5, <1>7
<1> QED
  BY <1>5, <1>7, <1>8

\* The elements of S up to i, and those that are the k-th.
UpTo(S, i) == {j \in S : j <= i}
Ranked(S, k) == {i \in S : Cardinality(UpTo(S, i)) = k}
OneOf(S) == CHOOSE i : i \in S

\* A number above all others is the last one, and does not change the places of the others.
LEMMA RankedAbove ==
    ASSUME NEW n \in Nat, NEW S \in SUBSET (1 .. n), NEW k \in Nat
    PROVE  /\ Cardinality(S) \in Nat /\ Cardinality(S \cup {n + 1}) = Cardinality(S) + 1
           /\ k <= Cardinality(S) => Ranked(S \cup {n + 1}, k) = Ranked(S, k)
           /\ k = Cardinality(S) + 1 => Ranked(S \cup {n + 1}, k) = {n + 1}
<1> DEFINE T == S \cup {n + 1}
<1>1. IsFiniteSet(S) /\ Cardinality(S) \in Nat
  <2>1. IsFiniteSet(1 .. n)
    BY FS_Interval
  <2> QED
    BY <2>1, FS_Subset, FS_CardinalityType
<1>2. n + 1 \notin S
  OBVIOUS
<1>3. Cardinality(T) = Cardinality(S) + 1
  BY <1>1, <1>2, FS_AddElement
<1>4. UpTo(T, n + 1) = T
  <2>1. \A j \in T : j <= n + 1
    OBVIOUS
  <2> QED
    BY <2>1 DEF UpTo
<1>5. ASSUME NEW i \in S PROVE UpTo(T, i) = UpTo(S, i) /\ Cardinality(UpTo(S, i)) <= Cardinality(S)
  <2>1. ~(n + 1 <= i)
    OBVIOUS
  <2>2. UpTo(T, i) = UpTo(S, i) /\ UpTo(S, i) \subseteq S
    BY <2>1 DEF UpTo
  <2> QED
    BY <1>1, <2>2, FS_Subset
<1>6. k <= Cardinality(S) => Ranked(T, k) = Ranked(S, k)
  <2> SUFFICES ASSUME k <= Cardinality(S) PROVE Ranked(T, k) = Ranked(S, k)
    OBVIOUS
  <2>1. Cardinality(UpTo(T, n + 1)) # k
    BY <1>1, <1>3, <1>4
  <2> HIDE DEF T
  <2>2. T = S \cup {n + 1}
    BY DEF T
  <2> QED
    BY <1>5, <2>1, <2>2 DEF Ranked
<1>7. k = Cardinality(S) + 1 => Ranked(T, k) = {n + 1}
  <2> SUFFICES ASSUME k = Cardinality(S) + 1 PROVE Ranked(T, k) = {n + 1}
    OBVIOUS
  <2>1. Cardinality(UpTo(T, n + 1)) = k
    BY <1>3, <1>4
  <2>2. \A i \in S : Cardinality(UpTo(S, i)) # k
    <3> TAKE i \in S
    <3>1. Cardinality(UpTo(S, i)) <= Cardinality(S)
      BY <1>5
    <3> QED
      BY <1>1, <3>1
  <2> HIDE DEF T
  <2>3. T = S \cup {n + 1}
    BY DEF T
  <2> QED
    BY <1>5, <2>1, <2>2, <2>3 DEF Ranked
<1> QED
  BY <1>1, <1>3, <1>6, <1>7

\* Each number has its place.
LEMMA SomeRanked ==
    ASSUME NEW m \in Nat, NEW R \in SUBSET (1 .. m), NEW k \in 1 .. Cardinality(R)
    PROVE  Ranked(R, k) # {}
<1> DEFINE T == {n \in Nat : \A S \in SUBSET (1 .. n) : \A h \in 1 .. Cardinality(S) : Ranked(S, h) # {}}
<1>1. 0 \in T
  <2>1. \A S \in SUBSET (1 .. 0) : S = {}
    OBVIOUS
  <2>2. Cardinality({}) = 0
    BY FS_EmptySet
  <2>3. \A S \in SUBSET (1 .. 0) : \A h \in 1 .. Cardinality(S) : FALSE
    BY <2>1, <2>2
  <2> QED
    BY <2>3
<1>2. ASSUME NEW n \in T PROVE n + 1 \in T
  <2>1. n \in Nat /\ n + 1 \in Nat
    OBVIOUS
  <2>2. ASSUME NEW S \in SUBSET (1 .. n + 1), NEW h \in 1 .. Cardinality(S)
        PROVE  Ranked(S, h) # {}
    <3>1. CASE n + 1 \notin S
      <4>1. S \in SUBSET (1 .. n)
        BY <2>1, <3>1
      <4> QED
        BY <4>1
    <3>2. CASE n + 1 \in S
      <4> DEFINE R0 == S \ {n + 1}
      <4>1. R0 \in SUBSET (1 .. n) /\ S = R0 \cup {n + 1}
        BY <2>1, <3>2
      <4> HIDE DEF R0
      <4>2. Cardinality(R0) \in Nat /\ Cardinality(S) = Cardinality(R0) + 1 /\ h \in Nat
        <5>1. 0 \in Nat
          OBVIOUS
        <5>2. Cardinality(R0) \in Nat /\ Cardinality(S) = Cardinality(R0) + 1
          BY <2>1, <4>1, <5>1, RankedAbove
        <5> QED
          BY <5>2
      <4>3. CASE h <= Cardinality(R0)
        <5>1. Ranked(S, h) = Ranked(R0, h)
          BY <2>1, <4>1, <4>2, <4>3, RankedAbove
        <5>2. h \in 1 .. Cardinality(R0)
          BY <4>2, <4>3
        <5>3. Ranked(R0, h) # {}
          BY <4>1, <5>2
        <5> QED
          BY <5>1, <5>3
      <4>4. CASE h = Cardinality(R0) + 1
        <5>1. Ranked(S, h) = {n + 1}
          BY <2>1, <4>1, <4>2, <4>4, RankedAbove
        <5> QED
          BY <5>1
      <4> QED
        BY <4>2, <4>3, <4>4
    <3> QED
      BY <3>1, <3>2
  <2> QED
    BY <2>1, <2>2
<1>3. T = Nat
  <2> HIDE DEF T
  <2>1. T \in SUBSET Nat
    BY DEF T
  <2> QED
    BY <1>1, <1>2, <2>1, SetInduction
<1>4. m \in T
  <2> HIDE DEF T
  <2> QED
    BY <1>3
<1> QED
  BY <1>4

LEMMA NthIsRanked ==
    ASSUME NEW m \in Nat, NEW R \in SUBSET (1 .. m), NEW k \in 1 .. Cardinality(R)
    PROVE  Nth(R, k) \in R /\ Nth(R, k) = OneOf(Ranked(R, k))
<1>1. \E i \in R : Cardinality({j \in R : j <= i}) = k
  BY SomeRanked DEF Ranked, UpTo
<1>2. \A i : i \in Ranked(R, k) <=> i \in R /\ Cardinality({j \in R : j <= i}) = k
  BY DEF Ranked, UpTo
<1> QED
  BY <1>1, <1>2 DEF Nth, OneOf

LEMMA NthAbove ==
    ASSUME NEW n \in Nat, NEW S \in SUBSET (1 .. n), NEW T, T = S \cup {n + 1}
    PROVE  /\ \A k \in 1 .. Cardinality(S) : Nth(T, k) = Nth(S, k)
           /\ Nth(T, Cardinality(S) + 1) = n + 1
<1> DEFINE m == n + 1
<1>1. m \in Nat /\ T \in SUBSET (1 .. m)
  OBVIOUS
<1> HIDE DEF m
<1>2. Cardinality(S) \in Nat /\ Cardinality(T) = Cardinality(S) + 1
  <2>1. 0 \in Nat
    OBVIOUS
  <2> QED
    BY <2>1, RankedAbove
<1>3. \A k \in Nat : /\ k <= Cardinality(S) => Ranked(T, k) = Ranked(S, k)
                     /\ k = Cardinality(S) + 1 => Ranked(T, k) = {n + 1}
  <2> TAKE k \in Nat
  <2> QED
    BY RankedAbove
<1>4. ASSUME NEW k \in 1 .. Cardinality(T) PROVE Nth(T, k) = OneOf(Ranked(T, k))
  BY <1>1, NthIsRanked
<1>5. ASSUME NEW k \in 1 .. Cardinality(S) PROVE Nth(T, k) = Nth(S, k)
  <2>1. k \in Nat /\ k <= Cardinality(S) /\ k \in 1 .. Cardinality(T)
    BY <1>2
  <2>2. Ranked(T, k) = Ranked(S, k)
    BY <1>3, <2>1
  <2>3. Nth(T, k) = OneOf(Ranked(T, k))
    BY <1>4, <2>1
  <2>4. Nth(S, k) = OneOf(Ranked(S, k))
    BY NthIsRanked
  <2> QED
    BY <2>2, <2>3, <2>4
<1>6. Nth(T, Cardinality(S) + 1) = n + 1
  <2> DEFINE k == Cardinality(S) + 1
  <2>1. k \in Nat /\ k \in 1 .. Cardinality(T) /\ k = Cardinality(S) + 1
    BY <1>2
  <2> HIDE DEF k
  <2>2. Ranked(T, k) = {n + 1}
    BY <1>3, <2>1
  <2>3. Nth(T, k) = OneOf(Ranked(T, k))
    BY <1>4, <2>1
  <2>4. OneOf({n + 1}) = n + 1
    BY DEF OneOf
  <2> QED
    BY <2>2, <2>3, <2>4 DEF k
<1> QED
  BY <1>5, <1>6

\* The positions and the path of a context, when a frame is opened.
LEMMA PathOpened ==
    ASSUME frames \in Seq(Frame), NEW f \in Frame, OpenFrame(f), NEW c
    PROVE  /\ ~IsNested(f, c) => Path(c)' = Path(c)
           /\ IsNested(f, c) =>
                 /\ Len(Path(c)) \in Nat /\ Len(Path(c)') = Len(Path(c)) + 1
                 /\ \A k \in 1 .. Len(Path(c)) : Path(c)'[k] = Path(c)[k]
                 /\ Path(c)'[Len(Path(c)) + 1] = f.key
<1> DEFINE n == Len(frames)
           S == Nested(c)
           T == Nested(c)'
<1>1. /\ n \in Nat /\ DOMAIN frames = 1 .. n /\ DOMAIN frames' = 1 .. n + 1
      /\ \A i \in 1 .. n : frames'[i] = frames[i]
      /\ frames'[n + 1] = f
  BY Opened
<1>2. S \in SUBSET (1 .. n) /\ T = IF IsNested(f, c) THEN S \cup {n + 1} ELSE S
  <2>1. DOMAIN frames' = DOMAIN frames \cup {n + 1}
    BY <1>1
  <2>2. T = {i \in DOMAIN frames' : IsNested(frames'[i], c)}
    BY DEF Nested, IsNested
  <2>3. S = {i \in DOMAIN frames : IsNested(frames[i], c)}
    BY DEF Nested, IsNested
  <2> QED
    BY <1>1, <2>1, <2>2, <2>3
<1>3. /\ Path(c) = [k \in 1 .. Cardinality(S) |-> frames[Nth(S, k)].key]
      /\ Path(c)' = [k \in 1 .. Cardinality(T) |-> frames'[Nth(T, k)].key]
  BY DEF Path
<1> HIDE DEF n, S, T
<1>4. Cardinality(S) \in Nat /\ Cardinality(S \cup {n + 1}) = Cardinality(S) + 1
  <2>1. 0 \in Nat
    OBVIOUS
  <2> QED
    BY <1>1, <1>2, <2>1, RankedAbove
<1>5. \A k \in 1 .. Cardinality(S) : frames'[Nth(S, k)].key = frames[Nth(S, k)].key
  BY <1>1, <1>2, NthIsRanked
<1>6. CASE ~IsNested(f, c)
  BY <1>2, <1>3, <1>5, <1>6
<1>7. CASE IsNested(f, c)
  <2>1. T = S \cup {n + 1} /\ T \in SUBSET (1 .. n + 1) /\ n + 1 \in Nat /\ Cardinality(T) = Cardinality(S) + 1
    BY <1>1, <1>2, <1>4, <1>7
  <2>2. ASSUME NEW k \in 1 .. Cardinality(S) PROVE Nth(T, k) = Nth(S, k)
    <3>1. n \in Nat /\ S \in SUBSET (1 .. n) /\ T = S \cup {n + 1}
      BY <1>1, <1>2, <2>1
    <3> QED
      BY <3>1, NthAbove
  <2>3. Nth(T, Cardinality(S) + 1) = n + 1
    BY <1>1, <1>2, <2>1, NthAbove
  <2>4. Len(Path(c)) = Cardinality(S) /\ Len(Path(c)') = Cardinality(T)
    BY <1>3, <1>4, <2>1
  <2>5. ASSUME NEW k \in 1 .. Cardinality(S) PROVE Path(c)'[k] = Path(c)[k]
    <3>1. k \in 1 .. Cardinality(T)
      BY <1>4, <2>1
    <3> QED
      BY <1>3, <1>5, <2>2, <3>1
  <2>6. Path(c)'[Cardinality(S) + 1] = f.key
    <3>1. Cardinality(S) + 1 \in 1 .. Cardinality(T)
      BY <1>4, <2>1
    <3> QED
      BY <1>1, <1>3, <2>3, <3>1
  <2> QED
    BY <1>4, <1>7, <2>1, <2>4, <2>5, <2>6
<1> QED
  BY <1>6, <1>7

\* And when it is closed.
LEMMA PathClosed ==
    ASSUME frames \in Seq(Frame), frames # << >>, frames' = Front(frames), NEW c
    PROVE  /\ ~IsNested(Last(frames), c) => Path(c)' = Path(c)
           /\ IsNested(Last(frames), c) =>
                 /\ Len(Path(c)') \in Nat /\ Len(Path(c)) = Len(Path(c)') + 1
                 /\ \A k \in 1 .. Len(Path(c)') : Path(c)'[k] = Path(c)[k]
<1> DEFINE n == Len(frames) - 1
           S == Nested(c)'
           T == Nested(c)
<1>1. /\ n \in Nat /\ DOMAIN frames' = 1 .. n /\ DOMAIN frames = 1 .. n + 1
      /\ \A i \in 1 .. n : frames'[i] = frames[i]
      /\ Last(frames) = frames[n + 1]
  BY Closed
<1>2. S \in SUBSET (1 .. n) /\ T = IF IsNested(Last(frames), c) THEN S \cup {n + 1} ELSE S
  <2>1. DOMAIN frames = DOMAIN frames' \cup {n + 1} /\ n + 1 \notin DOMAIN frames'
    BY <1>1
  <2>2. S = {i \in DOMAIN frames' : IsNested(frames'[i], c)}
    BY DEF Nested, IsNested
  <2>3. T = {i \in DOMAIN frames : IsNested(frames[i], c)}
    BY DEF Nested, IsNested
  <2> QED
    BY <1>1, <2>1, <2>2, <2>3
<1>3. /\ Path(c)' = [k \in 1 .. Cardinality(S) |-> frames'[Nth(S, k)].key]
      /\ Path(c) = [k \in 1 .. Cardinality(T) |-> frames[Nth(T, k)].key]
  BY DEF Path
<1> HIDE DEF n, S, T
<1>4. Cardinality(S) \in Nat /\ Cardinality(S \cup {n + 1}) = Cardinality(S) + 1
  <2>1. 0 \in Nat
    OBVIOUS
  <2> QED
    BY <1>1, <1>2, <2>1, RankedAbove
<1>5. \A k \in 1 .. Cardinality(S) : frames'[Nth(S, k)].key = frames[Nth(S, k)].key
  BY <1>1, <1>2, NthIsRanked
<1>6. CASE ~IsNested(Last(frames), c)
  BY <1>2, <1>3, <1>5, <1>6
<1>7. CASE IsNested(Last(frames), c)
  <2>1. T = S \cup {n + 1} /\ T \in SUBSET (1 .. n + 1) /\ n + 1 \in Nat /\ Cardinality(T) = Cardinality(S) + 1
    BY <1>1, <1>2, <1>4, <1>7
  <2>2. ASSUME NEW k \in 1 .. Cardinality(S) PROVE Nth(T, k) = Nth(S, k)
    <3>1. n \in Nat /\ S \in SUBSET (1 .. n) /\ T = S \cup {n + 1}
      BY <1>1, <1>2, <2>1
    <3> QED
      BY <3>1, NthAbove
  <2>3. Len(Path(c)') = Cardinality(S) /\ Len(Path(c)) = Cardinality(T)
    BY <1>3, <1>4, <2>1
  <2>4. ASSUME NEW k \in 1 .. Cardinality(S) PROVE Path(c)'[k] = Path(c)[k]
    <3>1. k \in 1 .. Cardinality(T)
      BY <1>4, <2>1
    <3> QED
      BY <1>3, <1>5, <2>2, <3>1
  <2> QED
    BY <1>4, <1>7, <2>1, <2>3, <2>4
<1> QED
  BY <1>6, <1>7

\* A list of names to which one is pushed, and from which the last is popped.
LEMMA PushedIsPath ==
    ASSUME NEW p, NEW q, NEW key, Len(p) \in Nat, Len(q) = Len(p) + 1,
           \A k \in 1 .. Len(p) : q[k] = p[k], q[Len(p) + 1] = key
    PROVE  Push(ListOf(p), key) = ListOf(q)
<1>1. /\ ListOf(p).size = Len(p) /\ ListOf(q).size = Len(p) + 1
      /\ ListOf(p).data = [i \in 0 .. Capacity - 1 |-> IF i < Capacity - 1 /\ i < Len(p) THEN p[i + 1] ELSE NoKey]
      /\ ListOf(q).data = [i \in 0 .. Capacity - 1 |-> IF i < Capacity - 1 /\ i < Len(p) + 1 THEN q[i + 1] ELSE NoKey]
  BY DEF ListOf
<1>2. ASSUME NEW i \in 0 .. Capacity - 1, Len(p) < Capacity - 1
      PROVE  [ListOf(p).data EXCEPT ![Len(p)] = key][i] = ListOf(q).data[i]
  <2>1. CASE i < Len(p)
    <3>1. i + 1 \in 1 .. Len(p) /\ i # Len(p)
      BY <2>1
    <3> QED
      BY <1>1, <1>2, <2>1, <3>1, CapacityAssumption
  <2>2. CASE i = Len(p)
    BY <1>1, <1>2, <2>2, CapacityAssumption
  <2>3. CASE i > Len(p)
    BY <1>1, <1>2, <2>3, CapacityAssumption
  <2> QED
    BY <2>1, <2>2, <2>3
<1>3. ASSUME NEW i \in 0 .. Capacity - 1, ~(Len(p) < Capacity - 1)
      PROVE  ListOf(p).data[i] = ListOf(q).data[i]
  <2>1. CASE i < Capacity - 1
    <3>1. i + 1 \in 1 .. Len(p) /\ i < Len(p) /\ i < Len(p) + 1
      BY <1>3, <2>1, CapacityAssumption
    <3> QED
      BY <1>1, <2>1, <3>1
  <2>2. CASE ~(i < Capacity - 1)
    BY <1>1, <2>2
  <2> QED
    BY <2>1, <2>2
<1>4. CASE Len(p) < Capacity - 1
  <2>1. [ListOf(p).data EXCEPT ![Len(p)] = key] = ListOf(q).data
    BY <1>1, <1>2, <1>4
  <2> QED
    BY <1>1, <1>4, <2>1 DEF Push, ListOf
<1>5. CASE ~(Len(p) < Capacity - 1)
  <2>1. ListOf(p).data = ListOf(q).data
    BY <1>1, <1>3, <1>5
  <2> QED
    BY <1>1, <1>5, <2>1 DEF Push, ListOf
<1> QED
  BY <1>4, <1>5

LEMMA PoppedIsPath ==
    ASSUME NEW p, NEW q, Len(p) \in Nat, Len(q) = Len(p) + 1,
           \A k \in 1 .. Len(p) : q[k] = p[k],
           ~BeyondArray(ListOf(q)), NEW rest \in Popped(ListOf(q))
    PROVE  rest = ListOf(p)
<1>1. /\ ListOf(p).size = Len(p) /\ ListOf(q).size = Len(p) + 1
      /\ ListOf(p).data = [i \in 0 .. Capacity - 1 |-> IF i < Capacity - 1 /\ i < Len(p) THEN p[i + 1] ELSE NoKey]
      /\ ListOf(q).data = [i \in 0 .. Capacity - 1 |-> IF i < Capacity - 1 /\ i < Len(p) + 1 THEN q[i + 1] ELSE NoKey]
  BY DEF ListOf
<1>2. Len(p) + 1 <= Capacity /\ Capacity \in Nat
  BY <1>1, CapacityAssumption DEF BeyondArray
<1>3. rest = [data |-> [ListOf(q).data EXCEPT ![Len(p)] = NoKey], size |-> Len(p)]
  <2>1. ListOf(q).size # 0 /\ ListOf(q).size - 1 = Len(p)
    BY <1>1
  <2> QED
    BY <2>1 DEF Popped
<1>4. ASSUME NEW i \in 0 .. Capacity - 1
      PROVE  [ListOf(q).data EXCEPT ![Len(p)] = NoKey][i] = ListOf(p).data[i]
  <2>1. CASE i < Len(p)
    <3>1. i + 1 \in 1 .. Len(p) /\ i # Len(p)
      BY <2>1
    <3> QED
      BY <1>1, <1>2, <2>1, <3>1
  <2>2. CASE i = Len(p)
    BY <1>1, <1>2, <2>2
  <2>3. CASE i > Len(p)
    BY <1>1, <1>2, <2>3
  <2> QED
    BY <2>1, <2>2, <2>3
<1>5. [ListOf(q).data EXCEPT ![Len(p)] = NoKey] = ListOf(p).data
  BY <1>1, <1>4
<1> QED
  BY <1>3, <1>5 DEF ListOf

LEMMA NoNamesIsPath ==
    ASSUME NEW p, Len(p) = 0
    PROVE  ListOf(p) = NoNames
  BY CapacityAssumption DEF ListOf, NoNames

LEMMA OneNameIsPath ==
    ASSUME NEW key
    PROVE  Push(NoNames, key) = ListOf(<<key>>)
<1>1. Len(<< >>) = 0 /\ Len(<<key>>) = 1 /\ <<key>>[1] = key
  OBVIOUS
<1>2. ListOf(<< >>) = NoNames
  BY <1>1, NoNamesIsPath
<1>3. Push(ListOf(<< >>), key) = ListOf(<<key>>)
  <2>1. \A k \in 1 .. Len(<< >>) : <<key>>[k] = << >>[k]
    BY <1>1
  <2>2. Len(<< >>) \in Nat /\ Len(<<key>>) = Len(<< >>) + 1 /\ <<key>>[Len(<< >>) + 1] = key
    BY <1>1
  <2> QED
    BY <2>1, <2>2, PushedIsPath
<1> QED
  BY <1>2, <1>3

\* What is recorded, and what should be, of the contexts for which it is known.
LEMMA RecordAdded ==
    ASSUME RecordsOK, CacheIsRight, NEW c \in Context, NEW list, addRecord(c, list)
    PROVE  /\ all'[c] = all[c] (+) SetToBag({list})
           /\ \A d \in Context \ {c} : all'[d] = all[d]
<1>1. CASE lastRecord[c] # NoRecord /\ lastKey[c] = list
  <2>1. all' = [all EXCEPT ![c] = [all[c] EXCEPT ![list] = all[c][list] + 1]] /\ list \in DOMAIN all[c]
    BY <1>1 DEF addRecord, CacheIsRight
  <2>2. IsABag(all[c]) /\ DOMAIN all = Context
    BY DEF RecordsOK
  <2>3. [all[c] EXCEPT ![list] = all[c][list] + 1] = all[c] (+) SetToBag({list})
    <3> DEFINE B == all[c]
    <3>1. B = [e \in DOMAIN B |-> B[e]] /\ list \in DOMAIN B /\ DOMAIN B \cup {list} = DOMAIN B
          /\ \A e \in DOMAIN B : B[e] \in Nat
      BY <2>1, <2>2 DEF IsABag
    <3> HIDE DEF B
    <3>2. B (+) SetToBag({list}) = [e \in DOMAIN B |-> B[e] + (IF e = list THEN 1 ELSE 0)]
      BY <3>1 DEF SetToBag, (+)
    <3>3. [B EXCEPT ![list] = B[list] + 1] = [e \in DOMAIN B |-> B[e] + (IF e = list THEN 1 ELSE 0)]
      BY <3>1
    <3> QED
      BY <3>2, <3>3 DEF B
  <2> QED
    BY <2>1, <2>2, <2>3
<1>2. CASE ~(lastRecord[c] # NoRecord /\ lastKey[c] = list)
  BY <1>2 DEF addRecord, RecordsOK
<1> QED
  BY <1>1, <1>2

LEMMA TimedAdded ==
    ASSUME DOMAIN timed = Context, NEW c \in Context, NEW path, Timed(c, path)
    PROVE  /\ DOMAIN timed' = Context
           /\ timed'[c] = timed[c] (+) SetToBag({ListOf(path)})
           /\ \A d \in Context \ {c} : timed'[d] = timed[d]
  BY DEF Timed

LEMMA ListsOpened ==
    ASSUME TypeOK, ListsArePaths, NEW f \in ScopeFrame, OpenFrame(f), NEW nested \in BOOLEAN,
           pushPrefix(f.context, f.key, nested), f.pushed = nested,
           misused \subseteq misused', cleared' = cleared
    PROVE  ListsArePaths'
<1>0. /\ frames \in Seq(Frame) /\ f \in Frame /\ f.kind = "scope"
      /\ f.context \in Context /\ f.key \in Key /\ stackPrefix \in [Context -> List]
  BY DEF TypeOK, Frame, ScopeFrame
<1> SUFFICES ASSUME NEW c \in Context \ (cleared' \cup misused')
             PROVE  stackPrefix'[c] = ListOf(Path(c)')
  BY DEF ListsArePaths, ListOf
<1>1. stackPrefix[c] = ListOf(Path(c))
  BY DEF ListsArePaths
<1>2. IsNested(f, c) <=> nested /\ c = f.context
  BY <1>0 DEF IsNested
<1>3. CASE IsNested(f, c)
  <2>1. /\ Len(Path(c)) \in Nat /\ Len(Path(c)') = Len(Path(c)) + 1
        /\ \A k \in 1 .. Len(Path(c)) : Path(c)'[k] = Path(c)[k]
        /\ Path(c)'[Len(Path(c)) + 1] = f.key
    BY <1>0, <1>3, PathOpened
  <2>2. Push(ListOf(Path(c)), f.key) = ListOf(Path(c)')
    BY <2>1, PushedIsPath
  <2>3. stackPrefix'[c] = Push(stackPrefix[c], f.key)
    BY <1>0, <1>2, <1>3 DEF pushPrefix
  <2> QED
    BY <1>1, <2>2, <2>3
<1>4. CASE ~IsNested(f, c)
  <2>1. Path(c)' = Path(c)
    BY <1>0, <1>4, PathOpened
  <2>2. stackPrefix'[c] = stackPrefix[c]
    BY <1>0, <1>2, <1>4 DEF pushPrefix
  <2> QED
    BY <1>1, <2>1, <2>2
<1> QED
  BY <1>3, <1>4

\* A scope ends: what it records is its path, and the path without its name is left.
LEMMA PathsClosed ==
    ASSUME Inv, CloseScope
    PROVE  ListsArePaths' /\ RecordsArePaths'
<1>0. /\ frames \in Seq(Frame) /\ frames # << >> /\ frames' = Front(frames)
      /\ Last(frames) \in ScopeFrame /\ stackPrefix \in [Context -> List]
      /\ RecordsOK /\ CacheIsRight /\ NamesFit /\ DOMAIN timed = Context
  BY ScopeEnds DEF Inv, TypeOK, RecordsOK, Frame, CloseScope
<1>1. PICK d \in Context : d = Last(frames).context
  BY <1>0 DEF ScopeFrame
<1> DEFINE f == Last(frames)
<1>2. /\ f.kind = "scope" /\ f.key \in Key /\ cleared' = cleared /\ misused \subseteq misused'
      /\ Timed(d, IF f.pushed THEN Path(d) ELSE <<f.key>>)
      /\ f.nested => /\ pop(d)
                     /\ misused' = IF BeyondArray(stackPrefix[d]) THEN misused \cup {d} ELSE misused
      /\ ~f.nested => addRecord(d, Push(NoNames, f.key)) /\ stackPrefix' = stackPrefix
  BY <1>0, <1>1 DEF CloseScope, ScopeFrame
<1>3. d \notin misused => f.pushed = f.nested
  <2>1. Len(frames) \in DOMAIN frames /\ f = frames[Len(frames)]
    BY <1>0, Closed
  <2> QED
    BY <1>0, <1>1, <1>2, <2>1 DEF NamesFit
<1> HIDE DEF f
<1>4. ASSUME NEW c \in Context \ (cleared \cup misused)
      PROVE  stackPrefix[c] = ListOf(Path(c)) /\ all[c] = timed[c]
  BY DEF Inv, ListsArePaths, RecordsArePaths
<1>5. ASSUME NEW c \in Context \ (cleared' \cup misused')
      PROVE  stackPrefix'[c] = ListOf(Path(c)')
  <2>1. c \in Context \ (cleared \cup misused)
    BY <1>2
  <2>2. CASE IsNested(f, c)
    <3>1. c = d /\ f.nested
      BY <1>1, <1>3, <2>1, <2>2 DEF IsNested, f
    <3>2. /\ Len(Path(c)') \in Nat /\ Len(Path(c)) = Len(Path(c)') + 1
          /\ \A k \in 1 .. Len(Path(c)') : Path(c)'[k] = Path(c)[k]
      BY <1>0, <2>2, PathClosed DEF f
    <3>3. PICK rest \in Popped(stackPrefix[d]) : stackPrefix' = [stackPrefix EXCEPT ![d] = rest]
      BY <1>2, <3>1 DEF pop
    <3>4. ~BeyondArray(ListOf(Path(c)))
      BY <1>2, <1>4, <2>1, <3>1
    <3>5. rest \in Popped(ListOf(Path(c)))
      BY <1>4, <2>1, <3>1, <3>3
    <3>6. \A k \in 1 .. Len(Path(c)') : Path(c)[k] = Path(c)'[k]
      BY <3>2
    <3>7. rest = ListOf(Path(c)')
      BY <3>2, <3>4, <3>5, <3>6, PoppedIsPath
    <3> QED
      BY <1>0, <3>1, <3>3, <3>7
  <2>3. CASE ~IsNested(f, c)
    <3>1. Path(c)' = Path(c)
      BY <1>0, <2>3, PathClosed DEF f
    <3>2. ~(c = d /\ f.nested)
      BY <1>1, <1>2, <1>3, <2>1, <2>3 DEF IsNested, f
    <3>3. stackPrefix'[c] = stackPrefix[c]
      BY <1>0, <1>2, <3>2 DEF pop
    <3> QED
      BY <1>4, <2>1, <3>1, <3>3
  <2> QED
    BY <2>2, <2>3
<1>6. ASSUME NEW c \in Context \ (cleared' \cup misused')
      PROVE  all'[c] = timed'[c]
  <2>1. c \in Context \ (cleared \cup misused)
    BY <1>2
  <2>2. PICK list : addRecord(d, list) /\ list = IF f.nested THEN stackPrefix[d] ELSE Push(NoNames, f.key)
    BY <1>2 DEF pop
  <2>3. /\ all'[d] = all[d] (+) SetToBag({list})
        /\ \A e \in Context \ {d} : all'[e] = all[e]
    BY <1>0, <2>2, RecordAdded
  <2>4. /\ timed'[d] = timed[d] (+) SetToBag({ListOf(IF f.pushed THEN Path(d) ELSE <<f.key>>)})
        /\ \A e \in Context \ {d} : timed'[e] = timed[e]
    BY <1>0, <1>2, TimedAdded
  <2>5. CASE c = d
    <3>1. list = ListOf(IF f.pushed THEN Path(d) ELSE <<f.key>>)
      BY <1>3, <1>4, <2>1, <2>2, <2>5, OneNameIsPath
    <3> QED
      BY <1>4, <2>1, <2>3, <2>4, <2>5, <3>1
  <2>6. CASE c # d
    BY <1>4, <2>1, <2>3, <2>4, <2>6
  <2> QED
    BY <2>5, <2>6
<1> QED
  BY <1>5, <1>6 DEF ListsArePaths, RecordsArePaths, ListOf

LEMMA PathsStep ==
    ASSUME Inv, [Next]_vars
    PROVE  ListsArePaths' /\ RecordsArePaths'
<1>0. /\ TypeOK /\ RecordsOK /\ CacheIsRight /\ ListsArePaths /\ RecordsArePaths
      /\ frames \in Seq(Frame) /\ DOMAIN timed = Context
  BY DEF Inv, TypeOK, RecordsOK, Frame
<1>1. ASSUME UNCHANGED <<all, timed, cleared>>, misused \subseteq misused'
      PROVE  RecordsArePaths'
  BY <1>0, <1>1 DEF RecordsArePaths
<1>2. ASSUME UNCHANGED <<frames, stackPrefix, cleared, misused>>
      PROVE  ListsArePaths'
  <2>1. \A c : Path(c)' = Path(c)
    BY <1>2 DEF Path, Nested
  <2> QED
    BY <1>0, <1>2, <2>1 DEF ListsArePaths, ListOf
<1>3. CASE UNCHANGED vars
  BY <1>1, <1>2, <1>3 DEF vars
<1>4. ASSUME NEW key \in Key, NEW nested \in BOOLEAN, OpenScope(key, nested)
      PROVE  ListsArePaths' /\ RecordsArePaths'
  <2>1. PICK c \in Context : c = getDefaultContext
    BY <1>0, DefaultType
  <2> DEFINE f == Scope(key, c, nested, nested)
  <2>2. f \in ScopeFrame /\ f.context = c /\ f.key = key /\ f.pushed = nested
    BY ScopeIsFrame DEF Scope
  <2>3. /\ OpenFrame(f) /\ pushPrefix(c, key, nested)
        /\ UNCHANGED <<all, timed, cleared, misused>>
    BY <1>4, <2>1 DEF OpenScope
  <2> HIDE DEF f
  <2> QED
    BY <1>0, <1>1, <2>2, <2>3, ListsOpened
<1>5. ASSUME NEW key \in Key, NEW c \in Context, NEW nested \in BOOLEAN, OpenScopeIn(key, c, nested)
      PROVE  ListsArePaths' /\ RecordsArePaths'
  <2>1. PICK member \in BOOLEAN :
            /\ OpenFrame(Scope(key, c, nested, member))
            /\ misused' = IF member = nested THEN misused ELSE misused \cup {c}
    BY <1>5 DEF OpenScopeIn
  <2> DEFINE f == Scope(key, c, nested, member)
  <2>2. f \in ScopeFrame /\ f.context = c /\ f.key = key /\ f.pushed = nested
    BY ScopeIsFrame DEF Scope
  <2>3. /\ OpenFrame(f) /\ pushPrefix(c, key, nested)
        /\ UNCHANGED <<all, timed, cleared>> /\ misused \subseteq misused'
    BY <1>5, <2>1 DEF OpenScopeIn
  <2> HIDE DEF f
  <2> QED
    BY <1>0, <1>1, <2>2, <2>3, ListsOpened
<1>6. CASE CloseScope
  BY <1>6, PathsClosed
<1>7. ASSUME NEW key \in Key, NEW c \in Context, AddRecord(key, c)
      PROVE  ListsArePaths' /\ RecordsArePaths'
  <2>1. /\ addRecord(c, Push(NoNames, key)) /\ Timed(c, <<key>>)
        /\ UNCHANGED <<frames, stackPrefix, cleared, misused>>
    BY <1>7 DEF AddRecord
  <2>2. /\ all'[c] = all[c] (+) SetToBag({ListOf(<<key>>)})
        /\ \A d \in Context \ {c} : all'[d] = all[d]
    BY <1>0, <2>1, RecordAdded, OneNameIsPath
  <2>3. /\ timed'[c] = timed[c] (+) SetToBag({ListOf(<<key>>)})
        /\ \A d \in Context \ {c} : timed'[d] = timed[d]
    BY <1>0, <2>1, TimedAdded
  <2>4. RecordsArePaths'
    BY <1>0, <2>1, <2>2, <2>3 DEF RecordsArePaths
  <2> QED
    BY <1>2, <2>1, <2>4
<1>8. ASSUME NEW c \in Context, ClearAll(c)
      PROVE  ListsArePaths' /\ RecordsArePaths'
  <2>1. /\ all' = [all EXCEPT ![c] = EmptyBag] /\ timed' = [timed EXCEPT ![c] = EmptyBag]
        /\ stackPrefix' = [stackPrefix EXCEPT ![c] = [stackPrefix[c] EXCEPT !.size = 0]]
        /\ cleared' = IF Path(c) = << >> THEN cleared ELSE cleared \cup {c}
        /\ frames' = frames /\ misused' = misused
    BY <1>8 DEF ClearAll
  <2>2. RecordsArePaths'
    BY <1>0, <2>1 DEF RecordsArePaths, RecordsOK
  <2>3. \A d : Path(d)' = Path(d)
    BY <2>1 DEF Path, Nested
  <2>4. ASSUME NEW d \in Context \ (cleared' \cup misused')
        PROVE  stackPrefix'[d] = ListOf(Path(d))
    <3>1. stackPrefix[d] = ListOf(Path(d)) /\ stackPrefix \in [Context -> List]
      BY <1>0, <2>1, <2>4 DEF ListsArePaths, TypeOK
    <3>2. CASE d = c
      <4>1. Len(Path(d)) = 0
        BY <2>1, <2>4, <3>2
      <4>2. stackPrefix[d].size = 0 /\ stackPrefix[d] \in List
        <5>1. ListOf(Path(d)).size = 0
          BY <4>1 DEF ListOf
        <5> QED
          BY <3>1, <5>1
      <4>3. [stackPrefix[d] EXCEPT !.size = 0] = stackPrefix[d]
        BY <4>2 DEF List
      <4> QED
        BY <2>1, <3>1, <3>2, <4>3
    <3>3. CASE d # c
      BY <2>1, <3>1, <3>3
    <3> QED
      BY <3>2, <3>3
  <2>5. ListsArePaths'
    BY <2>3, <2>4 DEF ListsArePaths, ListOf
  <2> QED
    BY <2>2, <2>5
<1>9. ASSUME NEW c \in Context, OpenSwitcher(c)
      PROVE  ListsArePaths' /\ RecordsArePaths'
  <2> DEFINE f == [kind |-> "switcher", context |-> c, trivial |-> c = defaultContext,
                   prev |-> IF c = defaultContext THEN NoContext ELSE defaultContext]
  <2>1. f \in Frame /\ \A d : ~IsNested(f, d)
    BY <1>0 DEF TypeOK, Frame, SwitcherFrame, IsNested
  <2>2. OpenFrame(f) /\ UNCHANGED <<stackPrefix, all, timed, cleared, misused>>
    BY <1>9 DEF OpenSwitcher
  <2> HIDE DEF f
  <2>3. \A d : Path(d)' = Path(d)
    BY <1>0, <2>1, <2>2, PathOpened
  <2>4. ListsArePaths'
    BY <1>0, <2>2, <2>3 DEF ListsArePaths, ListOf
  <2> QED
    BY <1>1, <2>2, <2>4
<1>10. CASE CloseSwitcher
  <2>1. /\ frames # << >> /\ frames' = Front(frames) /\ Last(frames).kind = "switcher"
        /\ UNCHANGED <<stackPrefix, all, timed, cleared, misused>>
    BY <1>10 DEF CloseSwitcher
  <2>2. \A d : ~IsNested(Last(frames), d)
    BY <2>1 DEF IsNested
  <2>3. \A d : Path(d)' = Path(d)
    BY <1>0, <2>1, <2>2, PathClosed
  <2>4. ListsArePaths'
    BY <1>0, <2>1, <2>3 DEF ListsArePaths, ListOf
  <2> QED
    BY <1>1, <2>1, <2>4
<1> QED
  BY <1>3, <1>4, <1>5, <1>6, <1>7, <1>8, <1>9, <1>10 DEF Next

-----------------------------------------------------------------------------
(* Theorems.                                                               *)

\* The inductive invariant holds from the start and is kept by every step.
THEOREM ProfilerInvariant == Spec => []Inv
<1>1. Init => Inv
  <2> SUFFICES ASSUME Init PROVE Inv
    OBVIOUS
  <2>1. TypeOK
    BY NoNamesType, NothingInBag DEF Init, TypeOK
  <2>2. CacheIsRight
    BY DEF Init, CacheIsRight
  <2>3. NamesFit
    <3>1. \A c \in Context : stackPrefix[c].size = 0 /\ Cardinality(Nested(c)) \in Nat
      BY <2>1, NestedFinite DEF Init, NoNames, TypeOK, Frame
    <3> QED
      BY <3>1 DEF Init, NamesFit
  <2>4. SwitchersNest /\ Restorable
    BY DEF Init, SwitchersNest, Restorable, DefaultAfter
  <2>5. ListsArePaths /\ RecordsArePaths
    <3>1. ASSUME NEW c \in Context PROVE Len(Path(c)) = 0
      <4>1. Nested(c) = {}
        BY DEF Init, Nested
      <4>2. Cardinality({}) = 0
        BY FS_EmptySet
      <4> QED
        BY <4>1, <4>2 DEF Path
    <3> QED
      BY <3>1, NoNamesIsPath DEF Init, ListsArePaths, RecordsArePaths
  <2> QED
    BY <2>1, <2>2, <2>3, <2>4, <2>5 DEF Inv
<1>2. Inv /\ [Next]_vars => Inv'
  BY RecordsStep, TypeStep, NamesStep, NestStep, PathsStep DEF Inv
<1> QED
  BY <1>1, <1>2, PTL DEF Spec

\* The pointer to the last record is never stale, whatever is recorded and cleared.
THEOREM CacheStaysRight == Spec => []CacheIsRight
<1>1. Inv => CacheIsRight
  BY DEF Inv
<1> QED
  BY <1>1, ProfilerInvariant, PTL

\* However scopes are nested, as deep as the array of names is, none of their names is left when
\* they have ended.
THEOREM NamesAreTaken == Spec => []NoNamesLeft
<1>1. Inv => NoNamesLeft
  <2> SUFFICES ASSUME Inv, NEW c \in Context \ misused, Nested(c) = {}
               PROVE  stackPrefix[c].size = 0
    BY DEF NoNamesLeft
  <2>1. stackPrefix[c].size <= Cardinality(Nested(c)) /\ stackPrefix[c].size \in Nat
    BY DEF Inv, NamesFit, TypeOK, List
  <2>2. Cardinality(Nested(c)) = 0
    BY FS_EmptySet
  <2> QED
    BY <2>1, <2>2
<1> QED
  BY <1>1, ProfilerInvariant, PTL

\* Of every context that was not cleared within one of its own scopes, and whose scopes were
\* told the truth about their nesting: the records are, each with its count, those of the paths
\* of scopes that ended in it, whatever was cleared, switched and recorded in between.  (A context
\* whose names were ever popped from behind their array is misused, so of deeper paths this says
\* nothing.)
THEOREM RecordsAreOfPaths == Spec => []RecordsArePaths
<1>1. Inv => RecordsArePaths
  BY DEF Inv
<1> QED
  BY <1>1, ProfilerInvariant, PTL

\* Switchers restore what they found, however they are nested.
THEOREM SwitchersRestore == Spec => []SwitchersNest
<1>1. Inv => SwitchersNest
  BY DEF Inv
<1> QED
  BY <1>1, ProfilerInvariant, PTL
=============================================================================
