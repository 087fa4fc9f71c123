--------------------------- MODULE SettingsProofs ---------------------------
(***************************************************************************)
(* What a program saves it loads again, for any values of the fields: what *)
(* is written of a field of any kind is read as that field again, and what *)
(* is in the file is always the document of one struct, of the version     *)
(* that saved it.  The tree and the values in memory may be of others.     *)
(***************************************************************************)
EXTENDS Settings, FiniteSetTheorems, WellFoundedInduction, TLAPS

IsMap(v) == IsFiniteSet(DOMAIN v) /\ v \in [DOMAIN v -> Int]

\* What a field of a kind may hold.
Typed(k, v) ==
    /\ k \in {"int", "property"} => v \in Int
    /\ k = "enum" => v \in {"on", "off", "unmapped"}
    /\ k = "vector" => v \in Seq(Int)
    /\ k = "set" => v \subseteq Int /\ IsFiniteSet(v)
    /\ k = "array" => v \in [1 .. ArraySize -> Int]
    /\ k \in {"optional", "optionalSet"} => v \in Seq(Int) /\ Len(v) <= 1
    /\ k \in {"map", "stringMap"} => IsMap(v)
    /\ k = "struct" => v \in [{"width", "height"} -> Int]

\* What a field may be written as.
Leaf(t) == IsScalar(t) /\ toInt(t) \in Int
Branch(t) == t.kind = "map" /\ IsFiniteSet(DOMAIN t.entries) /\ \A k \in DOMAIN t.entries : Leaf(t.entries[k])
Listing(t) ==
    /\ t.kind = "list"
    /\ Len(t.items) \in Nat /\ DOMAIN t.items = 1 .. Len(t.items)
    /\ \A i \in DOMAIN t.items : Leaf(t.items[i]) \/ Branch(t.items[i])
FieldTree(t) == Leaf(t) \/ Branch(t) \/ Listing(t)

LEMMA Numbers ==
    ASSUME NEW n \in Int
    PROVE  Leaf(Number(n)) /\ toInt(Number(n)) = n /\ IsScalar(Number(n)) /\ Number(n).kind = "scalar"
BY DEF Leaf, Number, Scalar, IsScalar, toInt

LEMMA Texts ==
    ASSUME NEW s
    PROVE  Leaf(Text(s)) /\ toString(Text(s)) = s /\ IsScalar(Text(s)) /\ Text(s).kind = "scalar"
BY DEF Leaf, Text, Scalar, IsScalar, toInt, toString

LEMMA Overs ==
    ASSUME NEW f, NEW g
    PROVE  /\ DOMAIN Over(f, g) = DOMAIN f \cup DOMAIN g
           /\ \A x \in DOMAIN f : Over(f, g)[x] = f[x]
           /\ \A x \in DOMAIN g \ DOMAIN f : Over(f, g)[x] = g[x]
BY DEF Over

\* A list of numbers.
LEMMA Lists ==
    ASSUME NEW n \in Nat, NEW f \in [1 .. n -> Int]
    PROVE  LET t == List([i \in DOMAIN f |-> Number(f[i])])
           IN  /\ t.kind = "list" /\ Len(t.items) = n /\ DOMAIN t.items = 1 .. n
               /\ \A i \in 1 .. n : t.items[i] = Number(f[i])
<1> DEFINE s == [i \in DOMAIN f |-> Number(f[i])]
<1>1. s \in [1 .. n -> {Number(i) : i \in Int}]
  OBVIOUS
<1>2. s \in Seq({Number(i) : i \in Int}) /\ Len(s) = n
  BY <1>1
<1> QED BY <1>2 DEF List

LEMMA Defaults ==
    ASSUME NEW k \in Kinds
    PROVE  Typed(k, Default[k])
<1> USE ReflectionAssumption
<1>1. << >> \in Seq(Int) /\ DOMAIN << >> = {} /\ << >> \in [{} -> Int]
  OBVIOUS
<1>2. IsFiniteSet({})
  BY FS_EmptySet
<1>3. CASE k \in {"int", "property"}
  BY <1>3 DEF Typed, Default
<1>4. CASE k = "enum"
  <2>1. Default[k] = "on"
    BY <1>4 DEF Default
  <2> QED BY <1>4, <2>1 DEF Typed
<1>5. CASE k = "vector"
  <2>1. Default[k] = << >>
    BY <1>5 DEF Default
  <2> QED BY <1>1, <1>5, <2>1 DEF Typed
<1>6. CASE k = "set"
  <2>1. Default[k] = {}
    BY <1>6 DEF Default
  <2> QED BY <1>2, <1>6, <2>1 DEF Typed
<1>7. CASE k = "array"
  <2>1. Default[k] = [i \in 1 .. ArraySize |-> 0]
    BY <1>7 DEF Default
  <2> QED BY <1>7, <2>1 DEF Typed
<1>8. CASE k \in {"optional", "optionalSet"}
  <2>1. CASE Default[k] = << >>
    <3>1. Default[k] \in Seq(Int) /\ Len(Default[k]) <= 1
      BY <2>1
    <3> QED BY <1>8, <3>1 DEF Typed
  <2>2. CASE Default[k] = <<0>>
    <3>1. Default[k] \in Seq(Int) /\ Len(Default[k]) <= 1
      BY <2>2
    <3> QED BY <1>8, <3>1 DEF Typed
  <2>3. Default[k] = << >> \/ Default[k] = <<0>>
    BY <1>8 DEF Default, None
  <2> QED BY <2>1, <2>2, <2>3
<1>9. CASE k \in {"map", "stringMap"}
  <2>1. Default[k] = << >>
    BY <1>9 DEF Default
  <2> QED BY <1>1, <1>2, <1>9, <2>1 DEF Typed, IsMap
<1>10. CASE k = "struct"
  <2>1. Default[k] = [width |-> 1, height |-> 0]
    BY <1>10 DEF Default, Struct
  <2> QED BY <1>10, <2>1 DEF Typed
<1> QED BY <1>3, <1>4, <1>5, <1>6, <1>7, <1>8, <1>9, <1>10 DEF Kinds

-----------------------------------------------------------------------------
(* Sets and maps as lists.                                                 *)

\* The elements of S below n.
Below(S, n) == {m \in S : m < n}

\* The elements of a finite set have the places 1 .. Cardinality(S), one each.
LEMMA Places ==
    ASSUME NEW S \in SUBSET Int, IsFiniteSet(S)
    PROVE  /\ \A i \in 1 .. Cardinality(S) : Nth(S, i) \in S
           /\ \A n \in S : \E i \in 1 .. Cardinality(S) : Nth(S, i) = n
<1> DEFINE c == Cardinality(S)
           place == [n \in S |-> Cardinality(Below(S, n)) + 1]
<1>1. c \in Nat /\ IsFiniteSet(1 .. c) /\ Cardinality(1 .. c) = c
  BY FS_CardinalityType, FS_Interval
<1>2. ASSUME NEW n \in S
      PROVE  Cardinality(Below(S, n)) \in Nat /\ IsFiniteSet(Below(S, n)) /\ Cardinality(Below(S, n)) < c
  <2>1. Below(S, n) \subseteq S /\ Below(S, n) # S
    BY DEF Below
  <2> QED BY <1>1, <2>1, FS_Subset, FS_CardinalityType
<1>3. ASSUME NEW m \in S, NEW n \in S, m < n
      PROVE  Cardinality(Below(S, m)) < Cardinality(Below(S, n))
  <2>0. m \in Int /\ n \in Int /\ \A l \in S : l \in Int /\ (l < m => l < n)
    BY <1>3
  <2>1. Below(S, m) \subseteq Below(S, n) /\ m \in Below(S, n) /\ m \notin Below(S, m)
    <3> HIDE DEF place, c
    <3>1. Below(S, m) \subseteq Below(S, n)
      BY <2>0 DEF Below
    <3>2. m \in Below(S, n)
      BY <1>3 DEF Below
    <3>3. ~(m < m)
      BY <2>0
    <3>4. m \notin Below(S, m)
      BY <3>3 DEF Below
    <3> QED BY <3>1, <3>2, <3>4
  <2>2. Below(S, m) # Below(S, n)
    BY <2>1
  <2> QED BY <1>2, <2>1, <2>2, FS_Subset
<1>4. place \in [S -> 1 .. c]
  BY <1>1, <1>2
<1>5. \A m, n \in S : place[m] = place[n] => m = n
  <2> SUFFICES ASSUME NEW m \in S, NEW n \in S, place[m] = place[n] PROVE m = n
    OBVIOUS
  <2>1. Cardinality(Below(S, m)) = Cardinality(Below(S, n))
    BY <1>2
  <2>2. ~(m < n) /\ ~(n < m)
    BY <1>2, <1>3, <2>1
  <2> QED BY <2>2
<1>6. place \in Surjection(S, 1 .. c)
  <2> HIDE DEF place, c
  <2>1. place \in Injection(S, 1 .. c)
    BY <1>4, <1>5 DEF Injection, IsInjective
  <2> QED BY <1>1, <2>1, FS_Injection DEF c
<1>7. ASSUME NEW i \in 1 .. c PROVE Nth(S, i) \in S /\ place[Nth(S, i)] = i
  <2>1. \E n \in S : place[n] = i
    <3> HIDE DEF place
    <3> QED BY <1>6 DEF Surjection
  <2>2. \E n \in S : Cardinality({m \in S : m < n}) = i - 1
    <3>1. PICK n \in S : place[n] = i
      BY <2>1
    <3>2. Cardinality(Below(S, n)) = i - 1
      BY <1>2, <3>1
    <3> QED BY <3>2 DEF Below
  <2>3. Nth(S, i) \in S /\ Cardinality({m \in S : m < Nth(S, i)}) = i - 1
    BY <2>2 DEF Nth
  <2>4. Cardinality(Below(S, Nth(S, i))) = i - 1
    BY <2>3 DEF Below
  <2> QED BY <1>1, <2>3, <2>4
<1>8. ASSUME NEW n \in S PROVE \E i \in 1 .. c : Nth(S, i) = n
  <2>1. place[n] \in 1 .. c
    BY <1>4
  <2>2. Nth(S, place[n]) \in S /\ place[Nth(S, place[n])] = place[n]
    <3> HIDE DEF place
    <3> QED BY <1>7, <2>1
  <2>3. Nth(S, place[n]) = n
    <3> HIDE DEF place
    <3> QED BY <1>5, <2>2
  <2> QED BY <2>1, <2>3
<1> QED BY <1>7, <1>8

\* SetToSeq puts them in some order.
LEMMA InSomeOrder ==
    ASSUME NEW S, IsFiniteSet(S)
    PROVE  /\ Cardinality(S) \in Nat
           /\ SetToSeq(S) \in [1 .. Cardinality(S) -> S]
           /\ \A i, j \in 1 .. Cardinality(S) : SetToSeq(S)[i] = SetToSeq(S)[j] => i = j
           /\ \A n \in S : \E i \in 1 .. Cardinality(S) : SetToSeq(S)[i] = n
<1> DEFINE c == Cardinality(S)
<1>1. c \in Nat /\ IsFiniteSet(1 .. c) /\ Cardinality(1 .. c) = c
  BY FS_CardinalityType, FS_Interval
<1>2. ExistsBijection(1 .. c, S)
  BY <1>1, FS_SameCardinalityBij
<1>3. \E f \in [1 .. c -> S] : IsInjective(f)
  BY <1>2 DEF ExistsBijection, Bijection, Injection, IsInjective
<1>4. SetToSeq(S) \in [1 .. c -> S] /\ IsInjective(SetToSeq(S))
  BY <1>3 DEF SetToSeq
<1>5. SetToSeq(S) \in Injection(1 .. c, S)
  BY <1>4 DEF Injection
<1>6. SetToSeq(S) \in Surjection(1 .. c, S)
  BY <1>1, <1>5, FS_Injection
<1> QED BY <1>1, <1>4, <1>6 DEF IsInjective, Surjection

-----------------------------------------------------------------------------
(* How far a list is read.                                                 *)

\* Induction over the naturals: from the well-founded order of the library, whose induction
\* theorems no prover here can instantiate.
LEMMA SetInduction ==
    ASSUME NEW T \in SUBSET Nat, 0 \in T, \A n \in T : n + 1 \in T
    PROVE  T = Nat
<1>1. \A x, y \in Nat : y < x => <<y, x>> \in OpToRel(<, Nat)
  BY DEF OpToRel
<1>2. SUFFICES ASSUME Nat \ T # {} PROVE FALSE
  OBVIOUS
<1>3. \E x \in Nat \ T : \A y \in Nat \ T : <<y, x>> \notin OpToRel(<, Nat)
  BY <1>2, WFMin, NatLessThanWellFounded
<1>4. \E x \in Nat \ T : \A y \in Nat \ T : ~(y < x)
  BY <1>1, <1>3
<1>5. PICK x \in Nat \ T : \A y \in Nat \ T : ~(y < x)
  BY <1>4
<1>6. x # 0
  OBVIOUS
<1>7. x - 1 \in Nat /\ x - 1 < x /\ (x - 1) + 1 = x
  BY <1>6
<1>8. x - 1 \in T
  BY <1>5, <1>7
<1> QED BY <1>5, <1>7, <1>8

\* A list is read up to an item that does not fit or to its end.
LEMMA FittingType ==
    ASSUME NEW items, Len(items) \in Nat, NEW fit
    PROVE  /\ Fitting(items, fit) \in 0 .. Len(items)
           /\ 1 .. Fitting(items, fit) \subseteq fit
           /\ Fitting(items, fit) < Len(items) => Fitting(items, fit) + 1 \notin fit
<1> DEFINE n == Len(items)
           T == {m \in Nat : 1 .. m \subseteq fit}
<1>1. \E m \in 0 .. n : 1 .. m \subseteq fit /\ (m < n => m + 1 \notin fit)
  <2> SUFFICES ASSUME \A m \in 0 .. n : 1 .. m \subseteq fit => m < n /\ m + 1 \in fit PROVE FALSE
    OBVIOUS
  <2>1. 0 \in T
    OBVIOUS
  <2>2. ASSUME NEW m \in T, m < n PROVE m + 1 \in T
    <3>1. m \in 0 .. n /\ m + 1 \in fit
      BY <2>2
    <3>2. 1 .. m + 1 = (1 .. m) \cup {m + 1}
      OBVIOUS
    <3> QED BY <3>1, <3>2
  <2>3. \A m \in T : m <= n => m < n
    OBVIOUS
  <2> DEFINE U == {m \in Nat : m <= n => m \in T}
  <2>4. 0 \in U /\ \A m \in U : m + 1 \in U
    <3> HIDE DEF T
    <3>1. T \subseteq Nat
      BY DEF T
    <3>2. ASSUME NEW m \in U PROVE m + 1 \in U
      BY <2>2, <3>1
    <3> QED BY <2>1, <3>2
  <2>5. U = Nat
    <3> HIDE DEF U
    <3>1. U \subseteq Nat
      BY DEF U
    <3> QED BY <2>4, <3>1, SetInduction
  <2>6. n \in U
    <3> HIDE DEF U
    <3> QED BY <2>5
  <2> QED BY <2>3, <2>6
<1> QED BY <1>1 DEF Fitting

LEMMA AllFit ==
    ASSUME NEW items, Len(items) \in Nat, NEW fit, 1 .. Len(items) \subseteq fit
    PROVE  Fitting(items, fit) = Len(items)
BY FittingType

-----------------------------------------------------------------------------
(* What is written of a field is read again.                               *)

\* Fields that are lists of numbers.
LEMMA NumbersAreRead ==
    ASSUME NEW n \in Nat, NEW f \in [1 .. n -> Int], NEW t, t = List([i \in 1 .. n |-> Number(f[i])])
    PROVE  /\ Listing(t) /\ Len(t.items) = n /\ Readable(t.items) = n
           /\ \A i \in 1 .. n : toInt(t.items[i]) = f[i]
<1>1. [i \in 1 .. n |-> Number(f[i])] = [i \in DOMAIN f |-> Number(f[i])]
  OBVIOUS
<1>2. t.kind = "list" /\ Len(t.items) = n /\ DOMAIN t.items = 1 .. n /\ \A i \in 1 .. n : t.items[i] = Number(f[i])
  BY <1>1, Lists
<1>3. \A i \in 1 .. n : Leaf(t.items[i]) /\ toInt(t.items[i]) = f[i]
  BY <1>2, Numbers
<1>4. 1 .. Len(t.items) \subseteq {i \in DOMAIN t.items : IsScalar(t.items[i])}
  BY <1>2, <1>3 DEF Leaf
<1>5. Readable(t.items) = n
  BY <1>2, <1>4, AllFit DEF Readable
<1> QED BY <1>2, <1>3, <1>5 DEF Listing

\* What a field that holds s is written as, by a writer that clears maps, is read as what it was,
\* merged with what was there.
FieldIsRead(k, s, prior, old, skip, reset) ==
    LET r == valueToJson(k, s, old, TRUE, skip)
    IN  /\ r = Well(r.value)
        /\ FieldTree(r.value)
        /\ jsonToValue(k, r.value, prior, reset) = Well(Merged(k, s, prior))

LEMMA Reading ==
    ASSUME NEW k, NEW s, NEW prior, NEW old, NEW skip, NEW reset, NEW t,
           valueToJson(k, s, old, TRUE, skip) = Well(t),
           FieldTree(t),
           jsonToValue(k, t, prior, reset) = Well(Merged(k, s, prior))
    PROVE  FieldIsRead(k, s, prior, old, skip, reset)
<1>1. Well(t).value = t
  BY DEF Well
<1> DEFINE r == valueToJson(k, s, old, TRUE, skip)
<1>2. r = Well(t)
  OBVIOUS
<1> HIDE DEF r
<1>3. r.value = t
  BY <1>1, <1>2
<1>4. r = Well(r.value) /\ FieldTree(r.value) /\ jsonToValue(k, r.value, prior, reset) = Well(Merged(k, s, prior))
  BY <1>2, <1>3
<1> QED BY <1>4 DEF FieldIsRead, r

LEMMA ScalarsAreRead ==
    ASSUME NEW k \in {"int", "property"}, NEW s \in Int, NEW prior, NEW old, NEW skip, NEW reset
    PROVE  FieldIsRead(k, s, prior, old, skip, reset)
<1>1. valueToJson(k, s, old, TRUE, skip) = Well(Number(s))
  BY DEF valueToJson
<1>2. jsonToValue(k, Number(s), prior, reset) = Well(s)
  BY Numbers DEF jsonToValue, ReadScalar, ReadProperty
<1>3. Merged(k, s, prior) = s
  BY DEF Merged
<1> QED BY <1>1, <1>2, <1>3, Numbers, Reading DEF FieldTree

LEMMA EnumsAreRead ==
    ASSUME NEW s, NEW prior, NEW old, NEW skip, NEW reset
    PROVE  FieldIsRead("enum", s, prior, old, skip, reset)
<1>1. valueToJson("enum", s, old, TRUE, skip) = Well(Text(enumToString(s)))
  BY DEF valueToJson
<1>2. jsonToValue("enum", Text(enumToString(s)), prior, reset) = Well(stringToEnum(enumToString(s)))
  BY Texts DEF jsonToValue, ReadEnum
<1>3. Merged("enum", s, prior) = stringToEnum(enumToString(s))
  BY DEF Merged
<1> QED BY <1>1, <1>2, <1>3, Texts, Reading DEF FieldTree

LEMMA VectorsAreRead ==
    ASSUME NEW s \in Seq(Int), NEW prior, NEW old, NEW skip, NEW reset
    PROVE  FieldIsRead("vector", s, prior, old, skip, reset)
<1> DEFINE t == List([i \in 1 .. Len(s) |-> Number(s[i])])
<1>1. Len(s) \in Nat /\ s \in [1 .. Len(s) -> Int] /\ DOMAIN s = 1 .. Len(s)
  OBVIOUS
<1>2. valueToJson("vector", s, old, TRUE, skip) = Well(t)
  BY <1>1 DEF valueToJson
<1>3. Listing(t) /\ Len(t.items) = Len(s) /\ Readable(t.items) = Len(s) /\ \A i \in 1 .. Len(s) : toInt(t.items[i]) = s[i]
  BY <1>1, NumbersAreRead
<1> HIDE DEF t
<1>4. [i \in 1 .. Len(s) |-> toInt(t.items[i])] = s
  BY <1>1, <1>3
<1>5. jsonToValue("vector", t, prior, reset) = Well(s)
  BY <1>3, <1>4 DEF jsonToValue, ReadVector, Listing, Well
<1>6. Merged("vector", s, prior) = s
  BY DEF Merged
<1> QED BY <1>2, <1>3, <1>5, <1>6, Reading DEF FieldTree

LEMMA ArraysAreRead ==
    ASSUME NEW s \in [1 .. ArraySize -> Int], NEW prior \in [1 .. ArraySize -> Int], NEW old, NEW skip, NEW reset
    PROVE  FieldIsRead("array", s, prior, old, skip, reset)
<1> DEFINE t == List([i \in 1 .. ArraySize |-> Number(s[i])])
<1>1. ArraySize \in Nat
  BY ReflectionAssumption
<1>2. valueToJson("array", s, old, TRUE, skip) = Well(t)
  BY DEF valueToJson
<1>3. /\ Listing(t) /\ Len(t.items) = ArraySize /\ Readable(t.items) = ArraySize
      /\ \A i \in 1 .. ArraySize : toInt(t.items[i]) = s[i]
  BY <1>1, NumbersAreRead
<1> HIDE DEF t
<1>4. [i \in DOMAIN prior |-> IF i <= ArraySize THEN toInt(t.items[i]) ELSE prior[i]] = s
  BY <1>1, <1>3
<1>5. jsonToValue("array", t, prior, reset) = Well(s)
  BY <1>3, <1>4 DEF jsonToValue, ReadArray, Listing, Well
<1>6. Merged("array", s, prior) = s
  BY DEF Merged
<1> QED BY <1>2, <1>3, <1>5, <1>6, Reading DEF FieldTree

LEMMA OptionalsAreRead ==
    ASSUME NEW k \in {"optional", "optionalSet"}, NEW s \in Seq(Int), Len(s) <= 1,
           NEW prior, NEW old, NEW skip, NEW reset
    PROVE  FieldIsRead(k, s, prior, old, skip, reset)
<1> DEFINE t == List([i \in 1 .. Len(s) |-> Number(s[i])])
<1>1. s \in Seq(Int) /\ Len(s) \in {0, 1} /\ (Len(s) = 0 <=> s = None) /\ (Len(s) = 1 => s = <<s[1]>>)
  BY DEF None
<1>2. Len(s) \in Nat /\ s \in [1 .. Len(s) -> Int] /\ DOMAIN s = 1 .. Len(s)
  BY <1>1
<1>3. valueToJson(k, s, old, TRUE, skip) = Well(t)
  BY <1>2 DEF valueToJson
<1>4. Listing(t) /\ Len(t.items) = Len(s) /\ Readable(t.items) = Len(s) /\ \A i \in 1 .. Len(s) : toInt(t.items[i]) = s[i]
  BY <1>2, NumbersAreRead
<1> HIDE DEF t
<1>5. jsonToValue(k, t, prior, reset) = Well(IF Len(s) = 0 THEN prior ELSE <<toInt(t.items[Len(s)])>>)
  BY <1>4 DEF jsonToValue, ReadOptional, Listing, Well
<1>6. Len(s) = 1 => toInt(t.items[Len(s)]) = s[1]
  BY <1>4
<1>7. jsonToValue(k, t, prior, reset) = Well(IF s = None THEN prior ELSE s)
  BY <1>1, <1>5, <1>6
<1>8. Merged(k, s, prior) = IF s = None THEN prior ELSE s
  BY DEF Merged
<1> QED BY <1>3, <1>4, <1>7, <1>8, Reading DEF FieldTree

LEMMA SetsAreRead ==
    ASSUME NEW s \in SUBSET Int, IsFiniteSet(s), NEW prior, NEW old, NEW skip, NEW reset
    PROVE  FieldIsRead("set", s, prior, old, skip, reset)
<1> DEFINE c == Cardinality(s)
           f == [i \in 1 .. c |-> Nth(s, i)]
           t == List([i \in 1 .. c |-> Number(f[i])])
<1>1. c \in Nat
  BY FS_CardinalityType
<1>2. (\A i \in 1 .. c : Nth(s, i) \in s) /\ \A n \in s : \E i \in 1 .. c : Nth(s, i) = n
  BY Places
<1>3. valueToJson("set", s, old, TRUE, skip) = Well(t)
  <2>1. [i \in 1 .. c |-> Number(f[i])] = [i \in 1 .. c |-> Number(Nth(s, i))]
    OBVIOUS
  <2>2. t = List([i \in 1 .. c |-> Number(Nth(s, i))])
    BY <2>1
  <2> HIDE DEF t
  <2> QED BY <2>2 DEF valueToJson
<1>4. f \in [1 .. c -> Int]
  BY <1>2
<1>5. Listing(t) /\ Len(t.items) = c /\ Readable(t.items) = c /\ \A i \in 1 .. c : toInt(t.items[i]) = f[i]
  <2> HIDE DEF f, c
  <2> QED BY <1>1, <1>4, NumbersAreRead
<1>6. \A i \in 1 .. c : toInt(t.items[i]) = Nth(s, i)
  <2> HIDE DEF t
  <2> QED BY <1>5
<1> HIDE DEF t, f, c
<1>7. {toInt(t.items[i]) : i \in 1 .. c} = s
  BY <1>2, <1>6
<1>8. jsonToValue("set", t, prior, reset) = Well(s)
  BY <1>5, <1>7 DEF jsonToValue, ReadSet, Listing, Well
<1>9. Merged("set", s, prior) = s
  BY DEF Merged
<1> QED BY <1>3, <1>5, <1>8, <1>9, Reading DEF FieldTree

LEMMA Pairs ==
    ASSUME NEW k, NEW n \in Int
    PROVE  /\ Branch(Pair(k, n)) /\ IsPair(Pair(k, n))
           /\ toString(Pair(k, n).entries["key"]) = k
           /\ toInt(Pair(k, n).entries["value"]) = n
<1> DEFINE m == [key |-> Text(k), value |-> Number(n)]
<1>1. Pair(k, n).kind = "map" /\ Pair(k, n).entries = m
  BY DEF Pair, Map
<1>2. DOMAIN m = {"key", "value"} /\ m["key"] = Text(k) /\ m["value"] = Number(n)
  OBVIOUS
<1> HIDE DEF m
<1>3. IsFiniteSet({"key", "value"})
  <2>1. IsFiniteSet({"key"}) /\ {"key"} \cup {"value"} = {"key", "value"}
    BY FS_Singleton
  <2> QED BY <2>1, FS_AddElement
<1>4. \A l \in DOMAIN m : Leaf(m[l])
  BY <1>2, Texts, Numbers
<1>5. Branch(Pair(k, n))
  BY <1>1, <1>2, <1>3, <1>4 DEF Branch
<1>6. IsPair(Pair(k, n))
  BY <1>1, <1>2, Texts, Numbers DEF IsPair
<1> QED BY <1>1, <1>2, <1>5, <1>6, Texts, Numbers

LEMMA MapsAreRead ==
    ASSUME NEW s, IsMap(s), NEW prior, NEW old, NEW skip, NEW reset
    PROVE  FieldIsRead("map", s, prior, old, skip, reset)
<1> DEFINE D == DOMAIN s
           c == Cardinality(D)
           q == SetToSeq(D)
           items == [i \in 1 .. c |-> Pair(q[i], s[q[i]])]
           t == List(items)
<1>1. /\ c \in Nat /\ q \in [1 .. c -> D]
      /\ \A i, j \in 1 .. c : q[i] = q[j] => i = j
      /\ \A n \in D : \E i \in 1 .. c : q[i] = n
  BY InSomeOrder DEF IsMap
<1>2. valueToJson("map", s, old, TRUE, skip) = Well(t)
  BY DEF valueToJson, WriteMap
<1>3. \A i \in 1 .. c : q[i] \in D /\ s[q[i]] \in Int
  BY <1>1 DEF IsMap
<1>4. /\ t.kind = "list" /\ Len(t.items) = c /\ DOMAIN t.items = 1 .. c
      /\ \A i \in 1 .. c : t.items[i] = Pair(q[i], s[q[i]])
  <2> HIDE DEF q, c, D
  <2>1. items \in Seq({Pair(k, s[k]) : k \in D}) /\ Len(items) = c
    <3>1. items \in [1 .. c -> {Pair(k, s[k]) : k \in D}]
      BY <1>3
    <3> QED BY <1>1, <3>1
  <2> QED BY <2>1 DEF List
<1> HIDE DEF t, q, c
<1>5. \A i \in 1 .. c : /\ Branch(t.items[i]) /\ IsPair(t.items[i])
                        /\ toString(t.items[i].entries["key"]) = q[i]
                        /\ toInt(t.items[i].entries["value"]) = s[q[i]]
  BY <1>3, <1>4, Pairs
<1>6. Listing(t)
  BY <1>1, <1>4, <1>5 DEF Listing
<1>7. Fitting(t.items, {i \in DOMAIN t.items : IsPair(t.items[i])}) = c
  <2>1. 1 .. Len(t.items) \subseteq {i \in DOMAIN t.items : IsPair(t.items[i])}
    BY <1>4, <1>5
  <2> QED BY <1>1, <1>4, <2>1, AllFit
<1> DEFINE key(i) == toString(t.items[i].entries["key"])
           last(k) == Max({i \in 1 .. c : key(i) = k})
           read == [k \in {key(i) : i \in 1 .. c} |-> toInt(t.items[last(k)].entries["value"])]
<1>8. {key(i) : i \in 1 .. c} = D
  <2>1. \A i \in 1 .. c : key(i) = q[i]
    BY <1>5
  <2> HIDE DEF key, D
  <2> QED BY <1>1, <2>1
<1>9. ASSUME NEW k \in D PROVE toInt(t.items[last(k)].entries["value"]) = s[k]
  <2>1. PICK i \in 1 .. c : q[i] = k
    BY <1>1
  <2>2. {j \in 1 .. c : key(j) = k} = {i}
    BY <1>1, <1>5, <2>1
  <2>3. Max({i}) = i
    BY <1>1 DEF Max
  <2>4. last(k) = i
    <3> HIDE DEF key
    <3> QED BY <2>2, <2>3
  <2> QED BY <1>5, <2>1, <2>4
<1>10. read = s
  <2>1. read = [k \in D |-> s[k]]
    <3> HIDE DEF key, last
    <3> QED BY <1>8, <1>9
  <2> HIDE DEF read
  <2> QED BY <2>1 DEF IsMap
<1>11. jsonToValue("map", t, prior, reset) = [value |-> Over(read, prior), ok |-> TRUE]
  BY <1>4, <1>7 DEF jsonToValue, ReadMap
<1>12. Merged("map", s, prior) = Over(s, prior)
  BY DEF Merged
<1> HIDE DEF read
<1>13. jsonToValue("map", t, prior, reset) = Well(Merged("map", s, prior))
  BY <1>10, <1>11, <1>12 DEF Well
<1> QED BY <1>2, <1>6, <1>13, Reading DEF FieldTree

LEMMA StringMapsAreRead ==
    ASSUME NEW s, IsMap(s), NEW prior, NEW old, NEW skip, NEW reset
    PROVE  FieldIsRead("stringMap", s, prior, old, skip, reset)
<1> DEFINE m == [k \in DOMAIN s |-> Number(s[k])]
           t == Map(m)
<1>1. valueToJson("stringMap", s, old, TRUE, skip) = Well(t)
  BY DEF valueToJson, WriteEntries
<1>2. t.kind = "map" /\ t.entries = m
  BY DEF Map
<1>3. DOMAIN m = DOMAIN s /\ \A k \in DOMAIN s : Leaf(m[k]) /\ toInt(m[k]) = s[k]
  BY Numbers DEF IsMap
<1> HIDE DEF m, t
<1>4. Branch(t)
  BY <1>2, <1>3 DEF Branch, IsMap
<1>5. [k \in DOMAIN t.entries |-> toInt(t.entries[k])] = s
  BY <1>2, <1>3 DEF IsMap
<1>6. jsonToValue("stringMap", t, prior, reset) = Well(Over(s, prior))
  BY <1>2, <1>5 DEF jsonToValue, ReadStringMap
<1>7. Merged("stringMap", s, prior) = Over(s, prior)
  BY DEF Merged
<1> QED BY <1>1, <1>4, <1>6, <1>7, Reading DEF FieldTree

LEMMA StructsAreRead ==
    ASSUME NEW s \in [{"width", "height"} -> Int], NEW prior \in [{"width", "height"} -> Int],
           NEW old, NEW skip, NEW reset, skip => reset
    PROVE  FieldIsRead("struct", s, prior, old, skip, reset)
<1> DEFINE written == {g \in DOMAIN s : ~skip \/ s[g] # OwnDefault.struct[g]}
           m == [f \in written |-> Number(s[f])]
           t == Map(m)
<1>1. valueToJson("struct", s, old, TRUE, skip) = Well(t)
  BY DEF valueToJson, WriteStruct, WriteEntries
<1>2. t.kind = "map" /\ t.entries = m
  BY DEF Map
<1>3. DOMAIN s = {"width", "height"} /\ DOMAIN prior = {"width", "height"} /\ \A f \in DOMAIN s : s[f] \in Int
  OBVIOUS
<1>4. DOMAIN m = written /\ \A f \in written : Leaf(m[f]) /\ toInt(m[f]) = s[f]
  BY <1>3, Numbers
<1>5. IsFiniteSet(written)
  <2>1. IsFiniteSet({"width"}) /\ {"width"} \cup {"height"} = {"width", "height"}
    BY FS_Singleton
  <2>2. IsFiniteSet({"width", "height"})
    BY <2>1, FS_AddElement
  <2>3. written \subseteq {"width", "height"}
    BY <1>3
  <2> QED BY <2>2, <2>3, FS_Subset
<1> HIDE DEF m, t
<1>6. Branch(t)
  BY <1>2, <1>4, <1>5 DEF Branch
<1>7. \A f \in DOMAIN s : f \notin written => reset /\ s[f] = OwnDefault.struct[f]
  OBVIOUS
<1> HIDE DEF written
<1>8. [f \in DOMAIN prior |->
         IF f \in DOMAIN t.entries THEN toInt(t.entries[f]) ELSE IF reset THEN OwnDefault.struct[f] ELSE prior[f]] = s
  BY <1>2, <1>3, <1>4, <1>7
<1>9. jsonToValue("struct", t, prior, reset) = Well(s)
  BY <1>2, <1>8 DEF jsonToValue, ReadStruct
<1>10. Merged("struct", s, prior) = s
  BY DEF Merged
<1> QED BY <1>1, <1>6, <1>9, <1>10, Reading DEF FieldTree

\* What a writer that clears maps makes of a field is read again, merged with what was there.
LEMMA FieldsAreRead ==
    ASSUME NEW k \in Kinds, NEW s, Typed(k, s), NEW prior, Typed(k, prior), NEW old, NEW skip, NEW reset, skip => reset
    PROVE  FieldIsRead(k, s, prior, old, skip, reset)
<1>1. CASE k \in {"int", "property"}
  <2>1. s \in Int
    BY <1>1 DEF Typed
  <2> QED BY <1>1, <2>1, ScalarsAreRead
<1>2. CASE k = "enum"
  BY <1>2, EnumsAreRead
<1>3. CASE k = "vector"
  <2>1. s \in Seq(Int)
    BY <1>3 DEF Typed
  <2> QED BY <1>3, <2>1, VectorsAreRead
<1>4. CASE k = "array"
  <2>1. s \in [1 .. ArraySize -> Int] /\ prior \in [1 .. ArraySize -> Int]
    BY <1>4 DEF Typed
  <2> QED BY <1>4, <2>1, ArraysAreRead
<1>5. CASE k = "optional"
  <2>1. s \in Seq(Int) /\ Len(s) <= 1
    BY <1>5 DEF Typed
  <2> QED BY <1>5, <2>1, OptionalsAreRead
<1>6. CASE k = "optionalSet"
  <2>1. s \in Seq(Int) /\ Len(s) <= 1
    BY <1>6 DEF Typed
  <2> QED BY <1>6, <2>1, OptionalsAreRead
<1>7. CASE k = "set"
  <2>1. s \in SUBSET Int /\ IsFiniteSet(s)
    BY <1>7 DEF Typed
  <2> QED BY <1>7, <2>1, SetsAreRead
<1>8. CASE k = "map"
  <2>1. IsMap(s)
    BY <1>8 DEF Typed
  <2> QED BY <1>8, <2>1, MapsAreRead
<1>9. CASE k = "stringMap"
  <2>1. IsMap(s)
    BY <1>9 DEF Typed
  <2> QED BY <1>9, <2>1, StringMapsAreRead
<1>10. CASE k = "struct"
  <2>1. s \in [{"width", "height"} -> Int] /\ prior \in [{"width", "height"} -> Int] /\ (skip => reset)
    BY <1>10 DEF Typed
  <2> QED BY <1>10, <2>1, StructsAreRead
<1> QED BY <1>1, <1>2, <1>3, <1>4, <1>5, <1>6, <1>7, <1>8, <1>9, <1>10 DEF Kinds

-----------------------------------------------------------------------------
(* What is written is a tree that can be read, what is read fits the field. *)

LEMMA EntriesAreWritten ==
    ASSUME NEW new, IsFiniteSet(DOMAIN new), \A n \in DOMAIN new : Leaf(new[n]),
           NEW old, old = Null \/ FieldTree(old), NEW clear
    PROVE  FieldTree(WriteEntries(new, old, clear).value)
<1>1. CASE clear
  <2>1. WriteEntries(new, old, clear).value = Map(new)
    BY <1>1 DEF WriteEntries, Well
  <2> QED BY <2>1 DEF FieldTree, Branch, Map
<1>2. CASE ~clear /\ ~MayConvertToMap(old)
  <2>1. WriteEntries(new, old, clear).value = old
    BY <1>2 DEF WriteEntries, Throws
  <2>2. old # Null
    BY <1>2 DEF MayConvertToMap, Null
  <2> QED BY <2>1, <2>2
<1>3. CASE ~clear /\ MayConvertToMap(old)
  <2> DEFINE m == Entries(old)
             o == Over(new, m)
  <2>1. WriteEntries(new, old, clear).value = Map(o)
    BY <1>3 DEF WriteEntries, Well
  <2>2. IsFiniteSet(DOMAIN m) /\ \A n \in DOMAIN m : Leaf(m[n])
    <3>1. CASE old = Null
      <4>1. m = [n \in {} |-> Null]
        BY <3>1 DEF Entries, ConvertToMap, EmptyMap, Map
      <4>2. DOMAIN m = {}
        BY <4>1
      <4> QED BY <4>2, FS_EmptySet
    <3>2. CASE old # Null
      <4>1. m = old.entries
        BY <3>2 DEF Entries, ConvertToMap
      <4>2. old.kind # "list" /\ old.kind # "scalar"
        <5>1. old.kind \in {"null", "map"}
          BY <1>3 DEF MayConvertToMap
        <5> QED BY <5>1
      <4>3. Branch(old)
        BY <3>2, <4>2 DEF FieldTree, Leaf, IsScalar, Listing
      <4> QED BY <4>1, <4>3 DEF Branch
    <3> QED BY <3>1, <3>2
  <2> HIDE DEF m
  <2>3. DOMAIN o = DOMAIN new \cup DOMAIN m
    BY Overs
  <2>4. IsFiniteSet(DOMAIN o)
    BY <2>2, <2>3, FS_Union
  <2>5. \A n \in DOMAIN new : o[n] = new[n]
    BY Overs
  <2>6. \A n \in DOMAIN m \ DOMAIN new : o[n] = m[n]
    BY Overs
  <2> HIDE DEF o
  <2>7. \A n \in DOMAIN o : Leaf(o[n])
    BY <2>2, <2>3, <2>5, <2>6
  <2> QED BY <2>1, <2>4, <2>7 DEF FieldTree, Branch, Map
<1> QED BY <1>1, <1>2, <1>3

LEMMA FieldIsWritten ==
    ASSUME NEW k \in Kinds, NEW v, Typed(k, v), NEW old, old = Null \/ FieldTree(old), NEW clear, NEW skip
    PROVE  FieldTree(valueToJson(k, v, old, clear, skip).value)
<1>1. CASE k \notin {"stringMap", "struct"}
  <2>1. valueToJson(k, v, old, clear, skip) = valueToJson(k, v, old, TRUE, skip)
    BY <1>1 DEF Kinds, valueToJson
  <2>2. FieldIsRead(k, v, v, old, skip, TRUE)
    BY FieldsAreRead
  <2> QED BY <2>1, <2>2 DEF FieldIsRead
<1>2. CASE k = "stringMap"
  <2> DEFINE new == [n \in DOMAIN v |-> Number(v[n])]
  <2>1. IsFiniteSet(DOMAIN v) /\ \A n \in DOMAIN v : v[n] \in Int
    BY <1>2 DEF Typed, IsMap
  <2>2. DOMAIN new = DOMAIN v /\ \A n \in DOMAIN new : Leaf(new[n])
    BY <2>1, Numbers
  <2>3. valueToJson(k, v, old, clear, skip) = WriteEntries(new, old, clear)
    BY <1>2 DEF valueToJson
  <2> HIDE DEF new
  <2> QED BY <2>1, <2>2, <2>3, EntriesAreWritten
<1>3. CASE k = "struct"
  <2> DEFINE written == {g \in DOMAIN v : ~skip \/ v[g] # OwnDefault.struct[g]}
             new == [f \in written |-> Number(v[f])]
  <2>1. DOMAIN v = {"width", "height"} /\ \A n \in DOMAIN v : v[n] \in Int
    BY <1>3 DEF Typed
  <2>2. IsFiniteSet(written)
    <3>1. IsFiniteSet({"width"}) /\ {"width"} \cup {"height"} = {"width", "height"}
      BY FS_Singleton
    <3>2. IsFiniteSet({"width", "height"})
      BY <3>1, FS_AddElement
    <3>3. written \subseteq {"width", "height"}
      BY <2>1
    <3> QED BY <3>2, <3>3, FS_Subset
  <2>3. DOMAIN new = written /\ \A n \in DOMAIN new : Leaf(new[n])
    BY <2>1, Numbers
  <2>4. valueToJson(k, v, old, clear, skip) = WriteEntries(new, old, clear)
    BY <1>3 DEF valueToJson, WriteStruct
  <2> HIDE DEF new, written
  <2> QED BY <2>2, <2>3, <2>4, EntriesAreWritten
<1> QED BY <1>1, <1>2, <1>3

LEMMA LeafType ==
    ASSUME NEW t, FieldTree(t), IsScalar(t)
    PROVE  toInt(t) \in Int
BY DEF FieldTree, Leaf, Branch, Listing, IsScalar

\* The items that are read of a list of a field.
LEMMA ItemsAreNumbers ==
    ASSUME NEW t, FieldTree(t), t.kind = "list"
    PROVE  /\ Len(t.items) \in Nat /\ Readable(t.items) \in 0 .. Len(t.items)
           /\ \A i \in 1 .. Readable(t.items) : toInt(t.items[i]) \in Int
<1>1. Listing(t)
  BY DEF FieldTree, Leaf, Branch, IsScalar
<1>2. Len(t.items) \in Nat /\ DOMAIN t.items = 1 .. Len(t.items)
      /\ \A i \in DOMAIN t.items : Leaf(t.items[i]) \/ Branch(t.items[i])
  BY <1>1 DEF Listing
<1> DEFINE fit == {i \in DOMAIN t.items : IsScalar(t.items[i])}
<1>3. Readable(t.items) \in 0 .. Len(t.items) /\ 1 .. Readable(t.items) \subseteq fit
  BY <1>2, FittingType DEF Readable
<1>4. ASSUME NEW i \in fit PROVE toInt(t.items[i]) \in Int
  BY <1>2 DEF Leaf, Branch, IsScalar
<1> HIDE DEF fit
<1> QED BY <1>2, <1>3, <1>4

LEMMA ImageIsFinite ==
    ASSUME NEW n \in Nat, NEW f, DOMAIN f = 1 .. n
    PROVE  IsFiniteSet({f[i] : i \in 1 .. n})
<1>1. IsFiniteSet(1 .. n)
  BY FS_Interval
<1>2. f \in Surjection(1 .. n, {f[i] : i \in 1 .. n}) \/ [i \in 1 .. n |-> f[i]] \in Surjection(1 .. n, {f[i] : i \in 1 .. n})
  BY DEF Surjection
<1> QED BY <1>1, <1>2, FS_Surjection

LEMMA OverIsMap ==
    ASSUME NEW f, IsFiniteSet(DOMAIN f), \A x \in DOMAIN f : f[x] \in Int,
           NEW g, IsFiniteSet(DOMAIN g), \A x \in DOMAIN g : g[x] \in Int
    PROVE  IsMap(Over(f, g))
<1>1. DOMAIN Over(f, g) = DOMAIN f \cup DOMAIN g
  BY Overs
<1>2. IsFiniteSet(DOMAIN Over(f, g))
  BY <1>1, FS_Union
<1>3. Over(f, g) \in [DOMAIN f \cup DOMAIN g -> Int]
  BY DEF Over
<1> QED BY <1>1, <1>2, <1>3 DEF IsMap

\* A finite set of numbers that is not empty has a largest one.
LEMMA HasMax ==
    ASSUME NEW n \in Nat, NEW S \in SUBSET (1 .. n), S # {}
    PROVE  Max(S) \in S
<1> DEFINE T == {m \in Nat : \A R \in SUBSET (1 .. m) : R # {} => \E x \in R : \A y \in R : x >= y}
<1>1. 0 \in T
  <2>1. 1 .. 0 = {}
    OBVIOUS
  <2>2. \A R \in SUBSET (1 .. 0) : R = {}
    BY <2>1
  <2> QED BY <2>2
<1>2. ASSUME NEW m \in T PROVE m + 1 \in T
  <2> SUFFICES ASSUME NEW R \in SUBSET (1 .. m + 1), R # {} PROVE \E x \in R : \A y \in R : x >= y
    OBVIOUS
  <2>1. m \in Nat /\ \A y \in R : y \in 1 .. m + 1
    OBVIOUS
  <2>2. CASE m + 1 \in R
    BY <2>1, <2>2
  <2>3. CASE m + 1 \notin R
    <3>1. R \in SUBSET (1 .. m)
      BY <2>1, <2>3
    <3> QED BY <3>1
  <2> QED BY <2>2, <2>3
<1>3. T = Nat
  <2> HIDE DEF T
  <2>1. T \in SUBSET Nat
    BY DEF T
  <2> QED BY <1>1, <1>2, <2>1, SetInduction
<1>4. \E x \in S : \A y \in S : x >= y
  <2>1. n \in T
    <3> HIDE DEF T
    <3> QED BY <1>3
  <2> QED BY <2>1
<1> QED BY <1>4 DEF Max

LEMMA FieldIsTyped ==
    ASSUME NEW k \in Kinds, NEW v, Typed(k, v), NEW t, FieldTree(t), NEW reset
    PROVE  Typed(k, jsonToValue(k, t, v, reset).value)
<1> DEFINE r == jsonToValue(k, t, v, reset)
<1>1. CASE k \in {"int", "property"}
  <2>1. IsScalar(t) => r.value = toInt(t)
    BY <1>1 DEF jsonToValue, ReadScalar, ReadProperty, Well
  <2>2. ~IsScalar(t) => r.value = v \/ r.value = 0
    <3>1. OwnDefault.int = 0
      BY DEF OwnDefault, Default
    <3> QED BY <1>1, <3>1 DEF jsonToValue, ReadScalar, ReadProperty, Throws
  <2>3. r.value \in Int
    <3> HIDE DEF r
    <3>1. v \in Int
      BY <1>1 DEF Typed
    <3> QED BY <2>1, <2>2, <3>1, LeafType
  <2> HIDE DEF r
  <2> QED BY <1>1, <2>3 DEF Typed, r
<1>2. CASE k = "enum"
  <2>1. r.value \in {"on", "off"}
    BY <1>2 DEF jsonToValue, ReadEnum, Well, stringToEnum, Mapped
  <2> HIDE DEF r
  <2> QED BY <1>2, <2>1 DEF Typed, r
<1>3. CASE k \in {"vector", "set", "array", "optional", "optionalSet"}
  <2>1. CASE t.kind # "list"
    <3>1. r = Well(v)
      BY <1>3, <2>1 DEF jsonToValue, ReadVector, ReadSet, ReadArray, ReadOptional
    <3> QED BY <3>1 DEF Well
  <2>2. CASE t.kind = "list"
    <3> DEFINE n == Readable(t.items)
               f == [i \in 1 .. n |-> toInt(t.items[i])]
    <3>1. n \in Nat /\ \A i \in 1 .. n : toInt(t.items[i]) \in Int
      BY <2>2, ItemsAreNumbers
    <3>2. f \in [1 .. n -> Int] /\ f \in Seq(Int)
      <4> HIDE DEF n
      <4> QED BY <3>1
    <3>3. CASE k = "vector"
      <4>1. r.value = f
        BY <2>2, <3>3 DEF jsonToValue, ReadVector
      <4> QED BY <3>2, <3>3, <4>1 DEF Typed
    <3>4. CASE k = "set"
      <4>1. r.value = {toInt(t.items[i]) : i \in 1 .. n}
        BY <2>2, <3>4 DEF jsonToValue, ReadSet
      <4>2. {toInt(t.items[i]) : i \in 1 .. n} = {f[i] : i \in 1 .. n}
        OBVIOUS
      <4>3. IsFiniteSet({f[i] : i \in 1 .. n})
        <5>1. DOMAIN f = 1 .. n
          OBVIOUS
        <5> HIDE DEF f, n
        <5> QED BY <3>1, <5>1, ImageIsFinite
      <4>4. r.value \subseteq Int /\ IsFiniteSet(r.value)
        <5> HIDE DEF r, f, n
        <5> QED BY <3>1, <4>1, <4>2, <4>3
      <4> HIDE DEF r
      <4> QED BY <3>4, <4>4 DEF Typed, r
    <3>5. CASE k = "array"
      <4>1. v \in [1 .. ArraySize -> Int]
        BY <3>5 DEF Typed
      <4>2. r.value = [i \in DOMAIN v |-> IF i <= n THEN toInt(t.items[i]) ELSE v[i]]
        BY <2>2, <3>5 DEF jsonToValue, ReadArray
      <4>3. [i \in DOMAIN v |-> IF i <= n THEN toInt(t.items[i]) ELSE v[i]] \in [1 .. ArraySize -> Int]
        <5> HIDE DEF n
        <5> QED BY <3>1, <4>1, ReflectionAssumption
      <4> HIDE DEF r, n
      <4> QED BY <3>5, <4>2, <4>3 DEF Typed, r
    <3>6. CASE k \in {"optional", "optionalSet"}
      <4>1. v \in Seq(Int) /\ Len(v) <= 1
        BY <3>6 DEF Typed
      <4>2. r.value = IF n = 0 THEN v ELSE <<toInt(t.items[n])>>
        BY <2>2, <3>6 DEF jsonToValue, ReadOptional
      <4>3. r.value \in Seq(Int) /\ Len(r.value) <= 1
        <5> HIDE DEF r, n
        <5>1. CASE n = 0
          BY <4>1, <4>2, <5>1
        <5>2. CASE n # 0
          <6>1. toInt(t.items[n]) \in Int
            BY <3>1, <5>2
          <6> QED BY <4>2, <5>2, <6>1
        <5> QED BY <5>1, <5>2
      <4> HIDE DEF r, n
      <4> QED BY <3>6, <4>3 DEF Typed, r
    <3> QED BY <1>3, <3>3, <3>4, <3>5, <3>6
  <2> QED BY <2>1, <2>2
<1>4. CASE k = "map"
  <2>1. CASE t.kind # "list"
    <3>1. r = Well(v)
      BY <1>4, <2>1 DEF jsonToValue, ReadMap
    <3> QED BY <3>1 DEF Well
  <2>2. CASE t.kind = "list"
    <3> DEFINE fit == {i \in DOMAIN t.items : IsPair(t.items[i])}
               n == Fitting(t.items, fit)
               key(i) == toString(t.items[i].entries["key"])
               last(l) == Max({i \in 1 .. n : key(i) = l})
               names == {key(i) : i \in 1 .. n}
               new == [l \in names |-> toInt(t.items[last(l)].entries["value"])]
    <3>1. Listing(t)
      BY <2>2 DEF FieldTree, Leaf, Branch, IsScalar
    <3>2. Len(t.items) \in Nat /\ n \in 0 .. Len(t.items) /\ 1 .. n \subseteq fit
      BY <3>1, FittingType DEF Listing
    <3>3. ASSUME NEW i \in 1 .. n PROVE toInt(t.items[i].entries["value"]) \in Int
      <4>1. i \in DOMAIN t.items /\ IsPair(t.items[i])
        <5> HIDE DEF n
        <5> QED BY <3>2
      <4>2. Branch(t.items[i])
        BY <3>1, <4>1 DEF Listing, Leaf, IsScalar, IsPair
      <4>3. Leaf(t.items[i].entries["value"])
        BY <4>1, <4>2 DEF IsPair, Branch
      <4> QED BY <4>3 DEF Leaf
    <3> HIDE DEF fit, n
    <3>4. ASSUME NEW l \in names PROVE last(l) \in 1 .. n
      <4> DEFINE S == {i \in 1 .. n : key(i) = l}
      <4>1. S # {} /\ S \in SUBSET (1 .. n) /\ n \in Nat
        BY <3>2
      <4> HIDE DEF S
      <4>2. Max(S) \in S
        BY <3>2, <4>1, HasMax
      <4> QED BY <4>1, <4>2 DEF S
    <3>5. IsFiniteSet(names)
      <4> DEFINE f == [i \in 1 .. n |-> key(i)]
      <4>1. names = {f[i] : i \in 1 .. n} /\ DOMAIN f = 1 .. n
        OBVIOUS
      <4> HIDE DEF f, names
      <4> QED BY <3>2, <4>1, ImageIsFinite
    <3>6. DOMAIN new = names /\ \A l \in names : new[l] \in Int
      <4>1. \A l \in names : new[l] = toInt(t.items[last(l)].entries["value"])
        OBVIOUS
      <4> HIDE DEF new, names, last, key
      <4>2. DOMAIN new = names
        BY DEF new
      <4> QED BY <3>3, <3>4, <4>1, <4>2
    <3>7. r.value = Over(new, v)
      BY <1>4, <2>2 DEF jsonToValue, ReadMap, n, fit
    <3>8. IsMap(v)
      BY <1>4 DEF Typed
    <3> HIDE DEF new, names, r
    <3>9. IsMap(Over(new, v))
      BY <3>5, <3>6, <3>8, OverIsMap DEF IsMap
    <3> QED BY <1>4, <3>7, <3>9 DEF Typed, r
  <2> QED BY <2>1, <2>2
<1>5. CASE k = "stringMap"
  <2>1. CASE t.kind # "map"
    <3>1. r = Well(v)
      BY <1>5, <2>1 DEF jsonToValue, ReadStringMap
    <3> QED BY <3>1 DEF Well
  <2>2. CASE t.kind = "map"
    <3> DEFINE new == [l \in DOMAIN t.entries |-> toInt(t.entries[l])]
    <3>1. Branch(t)
      BY <2>2 DEF FieldTree, Leaf, Listing, IsScalar
    <3>2. r.value = Over(new, v)
      BY <1>5, <2>2 DEF jsonToValue, ReadStringMap, Well
    <3>3. IsFiniteSet(DOMAIN new) /\ \A l \in DOMAIN new : new[l] \in Int
      BY <3>1 DEF Branch, Leaf
    <3>4. IsMap(v)
      BY <1>5 DEF Typed
    <3> HIDE DEF new, r
    <3>5. IsMap(Over(new, v))
      BY <3>3, <3>4, OverIsMap DEF IsMap
    <3> QED BY <1>5, <3>2, <3>5 DEF Typed, r
  <2> QED BY <2>1, <2>2
<1>6. CASE k = "struct"
  <2>1. v \in [{"width", "height"} -> Int]
    BY <1>6 DEF Typed
  <2>2. CASE t.kind # "map"
    <3>1. r = Throws(v)
      BY <1>6, <2>2 DEF jsonToValue, ReadStruct
    <3> QED BY <3>1 DEF Throws
  <2>3. CASE t.kind = "map"
    <3>1. Branch(t)
      BY <2>3 DEF FieldTree, Leaf, Listing, IsScalar
    <3> DEFINE new == [f \in DOMAIN v |->
                 IF f \in DOMAIN t.entries THEN toInt(t.entries[f])
                 ELSE IF reset THEN OwnDefault.struct[f] ELSE v[f]]
    <3>2. r.value = new
      BY <1>6, <2>3 DEF jsonToValue, ReadStruct, Well
    <3>3. OwnDefault.struct["width"] = 0 /\ OwnDefault.struct["height"] = 0
      BY DEF OwnDefault, Default, Struct
    <3>4. \A f \in DOMAIN t.entries : toInt(t.entries[f]) \in Int
      BY <3>1 DEF Branch, Leaf
    <3>5. new \in [{"width", "height"} -> Int]
      BY <2>1, <3>3, <3>4
    <3> HIDE DEF new, r
    <3> QED BY <1>6, <3>2, <3>5 DEF Typed, r
  <2> QED BY <2>2, <2>3
<1> QED BY <1>1, <1>2, <1>3, <1>4, <1>5, <1>6 DEF Kinds


-----------------------------------------------------------------------------
(* Reading a tree twice is reading it once.                                *)

LEMMA OverTwice ==
    ASSUME NEW f, NEW g
    PROVE  Over(f, Over(f, g)) = Over(f, g)
<1> DEFINE h == Over(f, g)
<1>1. DOMAIN h = DOMAIN f \cup DOMAIN g /\ \A x \in DOMAIN f : h[x] = f[x]
  BY Overs
<1>2. h = [x \in DOMAIN f \cup DOMAIN g |-> h[x]]
  BY DEF Over
<1> HIDE DEF h
<1>3. DOMAIN f \cup DOMAIN h = DOMAIN f \cup DOMAIN g
  BY <1>1
<1>4. Over(f, h) = [x \in DOMAIN f \cup DOMAIN g |-> IF x \in DOMAIN f THEN f[x] ELSE h[x]]
  BY <1>3 DEF Over
<1>5. [x \in DOMAIN f \cup DOMAIN g |-> IF x \in DOMAIN f THEN f[x] ELSE h[x]] = [x \in DOMAIN f \cup DOMAIN g |-> h[x]]
  BY <1>1
<1> QED BY <1>2, <1>4, <1>5 DEF h

\* A field, whatever it is read from.
ReadOnce(k, t, v, reset) == jsonToValue(k, t, jsonToValue(k, t, v, reset).value, reset) = jsonToValue(k, t, v, reset)

LEMMA FieldIsReadOnce ==
    ASSUME NEW k \in Kinds, NEW t, NEW v, NEW reset
    PROVE  ReadOnce(k, t, v, reset)
<1>1. CASE k \in {"int", "property", "enum"}
  BY <1>1 DEF ReadOnce, jsonToValue, ReadScalar, ReadProperty, ReadEnum, Well, Throws
<1>2. CASE k \in {"vector", "set"}
  BY <1>2 DEF ReadOnce, jsonToValue, ReadVector, ReadSet, Well
<1>3. CASE k = "array"
  <2>1. CASE t.kind # "list"
    BY <1>3, <2>1 DEF ReadOnce, jsonToValue, ReadArray, Well
  <2>2. CASE t.kind = "list"
    <3> DEFINE n == Readable(t.items)
               once(u) == [i \in DOMAIN u |-> IF i <= n THEN toInt(t.items[i]) ELSE u[i]]
    <3>1. \A u : jsonToValue(k, t, u, reset) = [value |-> once(u), ok |-> n = Len(t.items)]
      BY <1>3, <2>2 DEF jsonToValue, ReadArray
    <3>2. once(once(v)) = once(v)
      <4> HIDE DEF n
      <4> QED OBVIOUS
    <3>3. jsonToValue(k, t, v, reset).value = once(v)
      <4> HIDE DEF once, n
      <4> QED BY <3>1
    <3> HIDE DEF once, n
    <3> QED BY <3>1, <3>2, <3>3 DEF ReadOnce
  <2> QED BY <2>1, <2>2
<1>4. CASE k \in {"optional", "optionalSet"}
  BY <1>4 DEF ReadOnce, jsonToValue, ReadOptional, Well
<1>5. CASE k = "map"
  <2>1. CASE t.kind # "list"
    BY <1>5, <2>1 DEF ReadOnce, jsonToValue, ReadMap, Well
  <2>2. CASE t.kind = "list"
    <3> DEFINE n == Fitting(t.items, {i \in DOMAIN t.items : IsPair(t.items[i])})
               key(i) == toString(t.items[i].entries["key"])
               last(l) == Max({i \in 1 .. n : key(i) = l})
               new == [l \in {key(i) : i \in 1 .. n} |-> toInt(t.items[last(l)].entries["value"])]
    <3>1. \A u : jsonToValue(k, t, u, reset) = [value |-> Over(new, u), ok |-> n = Len(t.items)]
      BY <1>5, <2>2 DEF jsonToValue, ReadMap
    <3> HIDE DEF new, n
    <3>2. jsonToValue(k, t, v, reset).value = Over(new, v)
      BY <3>1
    <3> QED BY <3>1, <3>2, OverTwice DEF ReadOnce
  <2> QED BY <2>1, <2>2
<1>6. CASE k = "stringMap"
  <2>1. CASE t.kind # "map"
    BY <1>6, <2>1 DEF ReadOnce, jsonToValue, ReadStringMap, Well
  <2>2. CASE t.kind = "map"
    <3> DEFINE new == [l \in DOMAIN t.entries |-> toInt(t.entries[l])]
    <3>1. \A u : jsonToValue(k, t, u, reset) = [value |-> Over(new, u), ok |-> TRUE]
      BY <1>6, <2>2 DEF jsonToValue, ReadStringMap, Well
    <3> HIDE DEF new
    <3>2. jsonToValue(k, t, v, reset).value = Over(new, v)
      BY <3>1
    <3> QED BY <3>1, <3>2, OverTwice DEF ReadOnce
  <2> QED BY <2>1, <2>2
<1>7. CASE k = "struct"
  <2>1. CASE t.kind # "map"
    BY <1>7, <2>1 DEF ReadOnce, jsonToValue, ReadStruct, Throws
  <2>2. CASE t.kind = "map"
    <3> DEFINE once(u) == [f \in DOMAIN u |->
                              IF f \in DOMAIN t.entries THEN toInt(t.entries[f])
                              ELSE IF reset THEN OwnDefault.struct[f] ELSE u[f]]
    <3>1. \A u : jsonToValue(k, t, u, reset) = [value |-> once(u), ok |-> TRUE]
      BY <1>7, <2>2 DEF jsonToValue, ReadStruct, Well
    <3>2. once(once(v)) = once(v)
      OBVIOUS
    <3>3. jsonToValue(k, t, v, reset).value = once(v)
      <4> HIDE DEF once
      <4> QED BY <3>1
    <3> HIDE DEF once
    <3> QED BY <3>1, <3>2, <3>3 DEF ReadOnce
  <2> QED BY <2>1, <2>2
<1> QED BY <1>1, <1>2, <1>3, <1>4, <1>5, <1>6, <1>7 DEF Kinds

LEMMA EntryIsReadOnce ==
    ASSUME NEW k \in Kinds, NEW json, NEW field, NEW v, NEW reset
    PROVE  ReadField(k, json, field, ReadField(k, json, field, v, reset).value, reset) = ReadField(k, json, field, v, reset)
<1>1. CASE field \in DOMAIN json.entries
  <2>1. \A u : ReadField(k, json, field, u, reset) = jsonToValue(k, json.entries[field], u, reset)
    BY <1>1 DEF ReadField
  <2>2. ReadOnce(k, json.entries[field], v, reset)
    BY FieldIsReadOnce
  <2> QED BY <2>1, <2>2 DEF ReadOnce
<1>2. CASE field \notin DOMAIN json.entries
  BY <1>2 DEF ReadField, Well
<1> QED BY <1>1, <1>2

\* The struct a tree is read into has these parts.
StructParts(k, json, v, reset) ==
    LET first == ReadField(k, json, "first", v.first, reset)
        rest == ReadField("int", json, "rest", v.rest, reset)
        r == jsonToStruct(k, json, v, reset)
    IN  /\ r.value = [first |-> r.value.first, rest |-> r.value.rest]
        /\ r.value.first = first.value
        /\ r.value.rest = IF first.ok THEN rest.value ELSE v.rest
        /\ r.ok = IF first.ok THEN rest.ok ELSE FALSE
        /\ r = [value |-> r.value, ok |-> r.ok]

LEMMA StructRead ==
    ASSUME NEW k, NEW json, NEW v, NEW reset
    PROVE  StructParts(k, json, v, reset)
<1> DEFINE first == ReadField(k, json, "first", v.first, reset)
           rest == ReadField("int", json, "rest", v.rest, reset)
           r == jsonToStruct(k, json, v, reset)
<1>1. CASE first.ok
  <2>1. r = [value |-> [first |-> first.value, rest |-> rest.value], ok |-> rest.ok]
    BY <1>1 DEF jsonToStruct
  <2> HIDE DEF r, first, rest
  <2>2. /\ r.value = [first |-> r.value.first, rest |-> r.value.rest]
        /\ r.value.first = first.value
        /\ r.value.rest = rest.value
        /\ r.ok = rest.ok
        /\ r = [value |-> r.value, ok |-> r.ok]
    BY <2>1
  <2> QED BY <1>1, <2>2 DEF r, first, rest, StructParts
<1>2. CASE ~first.ok
  <2>1. r = [value |-> [first |-> first.value, rest |-> v.rest], ok |-> FALSE]
    BY <1>2 DEF jsonToStruct, Throws
  <2> HIDE DEF r, first, rest
  <2>2. /\ r.value = [first |-> r.value.first, rest |-> r.value.rest]
        /\ r.value.first = first.value
        /\ r.value.rest = v.rest
        /\ r.ok = FALSE
        /\ r = [value |-> r.value, ok |-> r.ok]
    BY <2>1
  <2> QED BY <1>2, <2>2 DEF r, first, rest, StructParts
<1> QED BY <1>1, <1>2

\* A struct, into whatever it is read and whether or not that throws.
LEMMA StructIsReadOnce ==
    ASSUME NEW k \in Kinds, NEW json, NEW v, NEW reset
    PROVE  jsonToStruct(k, json, jsonToStruct(k, json, v, reset).value, reset) = jsonToStruct(k, json, v, reset)
<1> DEFINE first(u) == ReadField(k, json, "first", u.first, reset)
           rest(u) == ReadField("int", json, "rest", u.rest, reset)
           read(u) == jsonToStruct(k, json, u, reset)
           w == read(v).value
<1>1. \A u : /\ read(u) = [value |-> [first |-> read(u).value.first, rest |-> read(u).value.rest], ok |-> read(u).ok]
             /\ read(u).value.first = first(u).value
             /\ read(u).value.rest = IF first(u).ok THEN rest(u).value ELSE u.rest
             /\ read(u).ok = IF first(u).ok THEN rest(u).ok ELSE FALSE
  <2> SUFFICES ASSUME NEW u
               PROVE  /\ read(u) = [value |-> [first |-> read(u).value.first, rest |-> read(u).value.rest], ok |-> read(u).ok]
                      /\ read(u).value.first = first(u).value
                      /\ read(u).value.rest = IF first(u).ok THEN rest(u).value ELSE u.rest
                      /\ read(u).ok = IF first(u).ok THEN rest(u).ok ELSE FALSE
    OBVIOUS
  <2>0. StructParts(k, json, u, reset)
    BY StructRead
  <2>1. /\ read(u).value = [first |-> read(u).value.first, rest |-> read(u).value.rest]
        /\ read(u).value.first = first(u).value
        /\ read(u).value.rest = IF first(u).ok THEN rest(u).value ELSE u.rest
        /\ read(u).ok = IF first(u).ok THEN rest(u).ok ELSE FALSE
        /\ read(u) = [value |-> read(u).value, ok |-> read(u).ok]
    BY ONLY <2>0 DEF StructParts
  <2> HIDE DEF read, first, rest
  <2> QED BY <2>1
<1>2. first(w) = first(v)
  <2>1. w.first = first(v).value
    BY <1>1
  <2>2. ReadField(k, json, "first", first(v).value, reset) = first(v)
    BY EntryIsReadOnce
  <2> HIDE DEF w
  <2>3. first(w) = ReadField(k, json, "first", first(v).value, reset)
    BY <2>1
  <2> QED BY <2>2, <2>3
<1>3. first(v).ok => rest(w) = rest(v)
  <2>1. first(v).ok => w.rest = rest(v).value
    BY <1>1
  <2>2. ReadField("int", json, "rest", rest(v).value, reset) = rest(v)
    BY EntryIsReadOnce DEF Kinds
  <2> HIDE DEF w
  <2>3. first(v).ok => rest(w) = ReadField("int", json, "rest", rest(v).value, reset)
    BY <2>1
  <2> QED BY <2>2, <2>3
<1>4. ~first(v).ok => w.rest = v.rest
  BY <1>1
<1> HIDE DEF first, rest
<1>5. w.first = first(v).value /\ w.rest = IF first(v).ok THEN rest(v).value ELSE v.rest
  BY <1>1
<1> HIDE DEF read
<1>6. read(w).value.first = read(v).value.first /\ read(w).value.rest = read(v).value.rest /\ read(w).ok = read(v).ok
  <2> HIDE DEF w
  <2>1. /\ read(w).value.first = first(w).value
        /\ read(w).value.rest = IF first(w).ok THEN rest(w).value ELSE w.rest
        /\ read(w).ok = IF first(w).ok THEN rest(w).ok ELSE FALSE
    BY <1>1
  <2>2. /\ read(v).value.first = first(v).value
        /\ read(v).value.rest = IF first(v).ok THEN rest(v).value ELSE v.rest
        /\ read(v).ok = IF first(v).ok THEN rest(v).ok ELSE FALSE
    BY <1>1
  <2> QED BY <1>2, <1>3, <1>4, <2>1, <2>2
<1>7. read(w) = read(v)
  <2> HIDE DEF w
  <2> QED BY <1>1, <1>6
<1> QED BY <1>7 DEF read

-----------------------------------------------------------------------------
(* The invariant.                                                          *)

\* The documents of all versions of the program, as far as they are read.
DocOK(t) ==
    /\ t.kind = "map"
    /\ "first" \in DOMAIN t.entries => FieldTree(t.entries["first"])
    /\ "rest" \in DOMAIN t.entries => Leaf(t.entries["rest"])

StructOK(k, v) ==
    /\ v = [first |-> v.first, rest |-> v.rest]
    /\ Typed(k, v.first)
    /\ v.rest \in Int

\* What a writer that clears maps makes of a struct.
Document(k, v) == structToJson(k, v, Null, TRUE, options.skipDefault)

TypeOK ==
    /\ options \in [clearMaps : BOOLEAN, skipDefault : BOOLEAN, resetToDefault : BOOLEAN, pretty : BOOLEAN]
    /\ kind \in Kinds
    /\ StructOK(kind, value)
    /\ tree = Null \/ DocOK(tree)
    /\ pc \in {"idle", "open", "write"}

\* The tree is that of the struct until it is in the file.
TreeIsOfValue == pc # "idle" => DocOK(tree) /\ (options.clearMaps => Document(kind, value) = Well(tree))

\* The document in the file is that of the struct it was made of.
FileIsOfSaved ==
    Loadable =>
        /\ DocOK(file.doc)
        /\ saved.kind \in Kinds
        /\ StructOK(saved.kind, saved.value)
        /\ options.clearMaps => Document(saved.kind, saved.value) = Well(file.doc)

IInv == TypeOK /\ TreeIsOfValue /\ FileIsOfSaved

-----------------------------------------------------------------------------
(* Trees of structs: what is written can be read, what is read is typed.   *)

\* The entries of a tree after one has been set.
LEMMA Inserted ==
    ASSUME NEW t, t = Null \/ t.kind = "map", NEW field, NEW child
    PROVE  LET e == Insert(t, field, child).entries
           IN  /\ Insert(t, field, child).kind = "map"
               /\ DOMAIN e = DOMAIN Entries(t) \cup {field}
               /\ e[field] = child
               /\ \A f \in DOMAIN Entries(t) \ {field} : e[f] = Entries(t)[f]
BY DEF Insert, Map

LEMMA EmptyEntries ==
    /\ EmptyMap.kind = "map" /\ EmptyMap # Null /\ DOMAIN EmptyMap.entries = {} /\ DOMAIN Entries(EmptyMap) = {}
    /\ DocOK(EmptyMap)
<1>1. EmptyMap.kind = "map" /\ EmptyMap # Null /\ DOMAIN EmptyMap.entries = {}
  BY DEF EmptyMap, Map, Null
<1>2. Entries(EmptyMap) = EmptyMap.entries
  BY <1>1 DEF Entries, ConvertToMap
<1> HIDE DEF EmptyMap
<1> QED BY <1>1, <1>2 DEF DocOK

LEMMA DocEntries ==
    ASSUME NEW t, DocOK(t)
    PROVE  t # Null /\ t.kind = "map" /\ Entries(t) = t.entries
BY DEF DocOK, Null, Entries, ConvertToMap

LEMMA EntryIsWritten ==
    ASSUME NEW k \in Kinds, NEW v, Typed(k, v), NEW field \in {"first", "rest"}, field = "rest" => k = "int",
           NEW t, DocOK(t), NEW clear, NEW skip
    PROVE  DocOK(WriteField(k, v, field, t, clear, skip).value)
<1> DEFINE r == valueToJson(k, v, Child(t, field), clear, skip)
           w == Insert(t, field, r.value)
<1>1. CASE skip /\ v = Default[k]
  BY <1>1 DEF WriteField, Well
<1>2. CASE ~(skip /\ v = Default[k])
  <2>1. WriteField(k, v, field, t, clear, skip).value = w
    BY <1>2 DEF WriteField
  <2>2. Entries(t) = t.entries /\ (t = Null \/ t.kind = "map")
    BY DocEntries
  <2>3. Child(t, field) = Null \/ FieldTree(Child(t, field))
    BY <2>2 DEF Child, DocOK, FieldTree
  <2>4. FieldTree(r.value)
    <3> DEFINE old == Child(t, field)
    <3> HIDE DEF old
    <3>1. FieldTree(valueToJson(k, v, old, clear, skip).value)
      BY <2>3, FieldIsWritten DEF old
    <3> QED BY <3>1 DEF old
  <2>5. field = "rest" => Leaf(r.value)
    <3>1. k = "int" => r = Well(Number(v)) /\ v \in Int
      BY DEF valueToJson, Typed
    <3> HIDE DEF r
    <3>2. k = "int" => r.value = Number(v) /\ v \in Int
      BY <3>1 DEF Well
    <3> QED BY <3>2, Numbers
  <2> HIDE DEF r
  <2>6. /\ w.kind = "map" /\ DOMAIN w.entries = DOMAIN t.entries \cup {field} /\ w.entries[field] = r.value
        /\ \A f \in DOMAIN t.entries \ {field} : w.entries[f] = t.entries[f]
    BY <2>2, Inserted
  <2> HIDE DEF w
  <2>7. DocOK(w)
    BY <2>4, <2>5, <2>6 DEF DocOK
  <2> QED BY <2>1, <2>7
<1> QED BY <1>1, <1>2

LEMMA StructIsWritten ==
    ASSUME NEW k \in Kinds, NEW v, StructOK(k, v), NEW t, t = Null \/ DocOK(t), NEW clear, NEW skip
    PROVE  DocOK(structToJson(k, v, t, clear, skip).value)
<1> DEFINE base == ConvertToMap(IF clear THEN Null ELSE t)
           first == WriteField(k, v.first, "first", base, clear, skip)
<1>1. DocOK(base)
  BY EmptyEntries DEF ConvertToMap
<1>2. Typed(k, v.first) /\ v.rest \in Int /\ Typed("int", v.rest) /\ "int" \in Kinds
  BY DEF StructOK, Typed, Kinds
<1>3. structToJson(k, v, t, clear, skip) = IF first.ok THEN WriteField("int", v.rest, "rest", first.value, clear, skip) ELSE first
  BY DEF structToJson
<1> HIDE DEF base
<1>4. DocOK(first.value)
  BY <1>1, <1>2, EntryIsWritten
<1> HIDE DEF first
<1>5. DocOK(WriteField("int", v.rest, "rest", first.value, clear, skip).value)
  BY <1>2, <1>4, EntryIsWritten
<1> QED BY <1>3, <1>4, <1>5

LEMMA EntryIsTyped ==
    ASSUME NEW k \in Kinds, NEW v, Typed(k, v), NEW t, NEW field, NEW reset,
           field \in DOMAIN t.entries => FieldTree(t.entries[field])
    PROVE  Typed(k, ReadField(k, t, field, v, reset).value)
<1>1. CASE field \in DOMAIN t.entries
  BY <1>1, FieldIsTyped DEF ReadField
<1>2. CASE field \notin DOMAIN t.entries
  <2>1. ReadField(k, t, field, v, reset).value = IF reset THEN Default[k] ELSE v
    BY <1>2 DEF ReadField, Well
  <2> QED BY <2>1, Defaults
<1> QED BY <1>1, <1>2

LEMMA StructIsTyped ==
    ASSUME NEW k \in Kinds, NEW v, StructOK(k, v), NEW t, DocOK(t), NEW reset
    PROVE  StructOK(k, jsonToStruct(k, t, v, reset).value)
<1> DEFINE first == ReadField(k, t, "first", v.first, reset)
           rest == ReadField("int", t, "rest", v.rest, reset)
           r == jsonToStruct(k, t, v, reset)
<1>1. Typed(k, v.first) /\ v.rest \in Int /\ Typed("int", v.rest) /\ "int" \in Kinds
  BY DEF StructOK, Typed, Kinds
<1>2. Typed(k, first.value)
  BY <1>1, EntryIsTyped DEF DocOK
<1>3. Typed("int", rest.value)
  BY <1>1, EntryIsTyped DEF DocOK, FieldTree
<1>4. StructParts(k, t, v, reset)
  BY StructRead
<1>5. /\ r.value = [first |-> r.value.first, rest |-> r.value.rest]
      /\ r.value.first = first.value
      /\ r.value.rest = IF first.ok THEN rest.value ELSE v.rest
  BY ONLY <1>4 DEF StructParts
<1> HIDE DEF r, first, rest
<1>6. rest.value \in Int
  BY <1>3 DEF Typed
<1>7. StructOK(k, r.value)
  BY <1>1, <1>2, <1>5, <1>6 DEF StructOK
<1> QED BY <1>7 DEF r

-----------------------------------------------------------------------------
(* What a writer that clears maps makes of a struct.                       *)

\* The entry of a field, in the tree that is written of a struct.
EntryOf(k, s, t, field, skip) ==
    /\ (skip /\ s = Default[k]) => field \notin DOMAIN t.entries
    /\ ~(skip /\ s = Default[k]) =>
         field \in DOMAIN t.entries /\ \E old : t.entries[field] = valueToJson(k, s, old, TRUE, skip).value

\* It is added to the others.
Added(k, s, field, t, skip) ==
    LET r == WriteField(k, s, field, t, TRUE, skip)
    IN  /\ r = Well(r.value)
        /\ EntryOf(k, s, r.value, field, skip)
        /\ \A f : f # field => /\ f \in DOMAIN r.value.entries <=> f \in DOMAIN t.entries
                               /\ f \in DOMAIN t.entries => r.value.entries[f] = t.entries[f]

LEMMA EntryIsAdded ==
    ASSUME NEW k \in Kinds, NEW s, Typed(k, s), NEW field, NEW t, DocOK(t), field \notin DOMAIN t.entries, NEW skip
    PROVE  Added(k, s, field, t, skip)
<1> DEFINE r == WriteField(k, s, field, t, TRUE, skip)
<1>1. CASE skip /\ s = Default[k]
  <2>1. r = Well(t)
    BY <1>1 DEF WriteField
  <2> HIDE DEF r
  <2>2. r.value = t
    BY <2>1 DEF Well
  <2>3. EntryOf(k, s, t, field, skip)
    BY <1>1 DEF EntryOf
  <2> QED BY <2>1, <2>2, <2>3 DEF r, Added
<1>2. CASE ~(skip /\ s = Default[k])
  <2> DEFINE old == Child(t, field)
             d == valueToJson(k, s, old, TRUE, skip)
             w == Insert(t, field, d.value)
  <2>1. r = [value |-> w, ok |-> d.ok]
    BY <1>2 DEF WriteField
  <2>2. d.ok = TRUE
    <3>1. FieldIsRead(k, s, s, old, skip, TRUE)
      BY FieldsAreRead
    <3>2. d = Well(d.value)
      BY ONLY <3>1 DEF FieldIsRead
    <3> HIDE DEF d
    <3>3. Well(d.value).ok = TRUE
      BY DEF Well
    <3> QED BY <3>2, <3>3
  <2>3. t = Null \/ t.kind = "map"
    BY DocEntries
  <2>4. Entries(t) = t.entries
    BY DocEntries
  <2> HIDE DEF d
  <2>5. /\ DOMAIN w.entries = DOMAIN t.entries \cup {field} /\ w.entries[field] = d.value
        /\ \A f \in DOMAIN t.entries \ {field} : w.entries[f] = t.entries[f]
    BY <2>3, <2>4, Inserted
  <2> HIDE DEF w
  <2>6. EntryOf(k, s, w, field, skip)
    BY <1>2, <2>5 DEF EntryOf, d
  <2> HIDE DEF r
  <2>7. r.value = w /\ r = Well(r.value)
    BY <2>1, <2>2 DEF Well
  <2> QED BY <2>5, <2>6, <2>7 DEF r, Added
<1> QED BY <1>1, <1>2

\* A struct is written, field by field, whatever the tree was.
IsDocument(k, v, d, skip) ==
    /\ d = Well(d.value)
    /\ EntryOf(k, v.first, d.value, "first", skip)
    /\ EntryOf("int", v.rest, d.value, "rest", skip)

LEMMA Documents ==
    ASSUME NEW k \in Kinds, NEW v, StructOK(k, v), NEW t, NEW skip
    PROVE  IsDocument(k, v, structToJson(k, v, t, TRUE, skip), skip)
<1> DEFINE first == WriteField(k, v.first, "first", EmptyMap, TRUE, skip)
           both == WriteField("int", v.rest, "rest", first.value, TRUE, skip)
<1>1. structToJson(k, v, t, TRUE, skip) = IF first.ok THEN both ELSE first
  BY DEF structToJson, ConvertToMap
<1>2. Typed(k, v.first) /\ v.rest \in Int /\ Typed("int", v.rest) /\ "int" \in Kinds
  BY DEF StructOK, Typed, Kinds
<1>3. DocOK(EmptyMap) /\ DOMAIN EmptyMap.entries = {}
  BY EmptyEntries
<1>4. Added(k, v.first, "first", EmptyMap, skip)
  BY <1>2, <1>3, EntryIsAdded
<1>5. /\ first = Well(first.value)
      /\ EntryOf(k, v.first, first.value, "first", skip)
      /\ "rest" \notin DOMAIN first.value.entries
  BY ONLY <1>3, <1>4 DEF Added
<1>6. DocOK(first.value)
  BY <1>2, <1>3, EntryIsWritten
<1>7. first.ok
  <2> HIDE DEF first
  <2>1. Well(first.value).ok
    BY DEF Well
  <2> QED BY <1>5, <2>1
<1> HIDE DEF first
<1>8. Added("int", v.rest, "rest", first.value, skip)
  BY <1>2, <1>5, <1>6, EntryIsAdded
<1>9. /\ both = Well(both.value)
      /\ EntryOf("int", v.rest, both.value, "rest", skip)
      /\ \A f : f # "rest" => /\ f \in DOMAIN both.value.entries <=> f \in DOMAIN first.value.entries
                              /\ f \in DOMAIN first.value.entries => both.value.entries[f] = first.value.entries[f]
  BY ONLY <1>8 DEF Added
<1> HIDE DEF both
<1>10. /\ "first" \in DOMAIN both.value.entries <=> "first" \in DOMAIN first.value.entries
       /\ "first" \in DOMAIN first.value.entries => both.value.entries["first"] = first.value.entries["first"]
  BY <1>9
<1>11. EntryOf(k, v.first, both.value, "first", skip)
  BY <1>5, <1>10 DEF EntryOf
<1> QED BY <1>1, <1>7, <1>9, <1>11 DEF IsDocument

-----------------------------------------------------------------------------
(* What is read of it again.                                               *)

LEMMA EntryIsRead ==
    ASSUME NEW k \in Kinds, NEW s, Typed(k, s), NEW prior, Typed(k, prior), NEW t, NEW field,
           NEW skip, NEW reset, skip => reset, EntryOf(k, s, t, field, skip)
    PROVE  ReadField(k, t, field, prior, reset) = Well(IF skip /\ s = Default[k] THEN s ELSE Merged(k, s, prior))
<1>1. CASE skip /\ s = Default[k]
  BY <1>1 DEF ReadField, EntryOf
<1>2. CASE ~(skip /\ s = Default[k])
  <2>1. PICK old : t.entries[field] = valueToJson(k, s, old, TRUE, skip).value
    BY <1>2 DEF EntryOf
  <2>2. FieldIsRead(k, s, prior, old, skip, reset)
    BY FieldsAreRead
  <2>3. jsonToValue(k, t.entries[field], prior, reset) = Well(Merged(k, s, prior))
    BY ONLY <2>1, <2>2 DEF FieldIsRead
  <2>4. ReadField(k, t, field, prior, reset) = jsonToValue(k, t.entries[field], prior, reset)
    BY <1>2 DEF ReadField, EntryOf
  <2> QED BY <1>2, <2>3, <2>4
<1> QED BY <1>1, <1>2

LEMMA RestIsRead ==
    ASSUME NEW n \in Int, NEW prior \in Int, NEW t, NEW skip, NEW reset, skip => reset, EntryOf("int", n, t, "rest", skip)
    PROVE  ReadField("int", t, "rest", prior, reset) = Well(n)
<1>1. Typed("int", n) /\ Typed("int", prior) /\ "int" \in Kinds
  BY DEF Typed, Kinds
<1>2. Merged("int", n, prior) = n
  BY DEF Merged
<1>3. ReadField("int", t, "rest", prior, reset) = Well(IF skip /\ n = Default["int"] THEN n ELSE Merged("int", n, prior))
  BY <1>1, EntryIsRead
<1> QED BY <1>2, <1>3

\* Into a struct of the same version, all of it.
LEMMA DocumentIsRead ==
    ASSUME NEW k \in Kinds, NEW v, StructOK(k, v), NEW prior, StructOK(k, prior), NEW t, NEW d,
           NEW skip, NEW reset, skip => reset, IsDocument(k, v, Well(d), skip)
    PROVE  jsonToStruct(k, d, prior, reset).value =
             [first |-> IF skip /\ v.first = Default[k] THEN v.first ELSE Merged(k, v.first, prior.first), rest |-> v.rest]
<1>0. Well(d).value = d
  BY DEF Well
<1>1. EntryOf(k, v.first, d, "first", skip) /\ EntryOf("int", v.rest, d, "rest", skip)
  BY <1>0 DEF IsDocument
<1>2. Typed(k, v.first) /\ v.rest \in Int /\ Typed(k, prior.first) /\ prior.rest \in Int
  BY DEF StructOK
<1> DEFINE s == IF skip /\ v.first = Default[k] THEN v.first ELSE Merged(k, v.first, prior.first)
<1>3. ReadField(k, d, "first", prior.first, reset) = Well(s)
  BY <1>1, <1>2, EntryIsRead
<1>4. ReadField("int", d, "rest", prior.rest, reset) = Well(v.rest)
  BY <1>1, <1>2, RestIsRead
<1> HIDE DEF s
<1>5. Well(s).ok /\ Well(s).value = s /\ Well(v.rest).value = v.rest
  BY DEF Well
<1>6. StructParts(k, d, prior, reset)
  BY StructRead
<1> DEFINE r == jsonToStruct(k, d, prior, reset)
<1>7. r.value = [first |-> r.value.first, rest |-> r.value.rest] /\ r.value.first = s /\ r.value.rest = v.rest
  BY ONLY <1>3, <1>4, <1>5, <1>6 DEF StructParts
<1> QED BY <1>7 DEF s

\* Into a struct of any version, what follows the first field, unless reading that throws.
LEMMA DocumentRest ==
    ASSUME NEW k, NEW l \in Kinds, NEW v, v.rest \in Int, NEW prior, prior.rest \in Int, NEW d,
           NEW skip, NEW reset, skip => reset, IsDocument(l, v, Well(d), skip)
    PROVE  LET r == jsonToStruct(k, d, prior, reset)
           IN  r.value.rest = IF r.ok THEN v.rest ELSE prior.rest
<1>0. Well(d).value = d
  BY DEF Well
<1>1. EntryOf("int", v.rest, d, "rest", skip)
  BY <1>0 DEF IsDocument
<1>2. ReadField("int", d, "rest", prior.rest, reset) = Well(v.rest)
  BY <1>1, RestIsRead
<1>3. Well(v.rest).value = v.rest /\ Well(v.rest).ok
  BY DEF Well
<1>4. StructParts(k, d, prior, reset)
  BY StructRead
<1> DEFINE first == ReadField(k, d, "first", prior.first, reset)
           r == jsonToStruct(k, d, prior, reset)
<1>5. r.value.rest = IF first.ok THEN v.rest ELSE prior.rest
  BY ONLY <1>2, <1>3, <1>4 DEF StructParts
<1>6. first.ok => r.ok
  BY ONLY <1>2, <1>3, <1>4 DEF StructParts
<1>7. ~first.ok => ~r.ok
  BY ONLY <1>4 DEF StructParts
<1> HIDE DEF first, r
<1> QED BY <1>5, <1>6, <1>7 DEF r

\* Into a new struct, exactly what it was.
LEMMA MergedWithNothing ==
    ASSUME NEW k \in Kinds, NEW s, Typed(k, s), Exact(k, s)
    PROVE  Merged(k, s, Default[k]) = s
<1>1. CASE k \in {"map", "stringMap"}
  <2>1. Default[k] = << >> /\ DOMAIN Default[k] = {}
    BY <1>1 DEF Default
  <2>2. s = [n \in DOMAIN s |-> s[n]]
    BY <1>1 DEF Typed, IsMap
  <2>3. Over(s, Default[k]) = [n \in DOMAIN s |-> s[n]]
    <3>1. DOMAIN s \cup DOMAIN Default[k] = DOMAIN s
      BY <2>1
    <3>2. Over(s, Default[k]) = [n \in DOMAIN s |-> IF n \in DOMAIN s THEN s[n] ELSE Default[k][n]]
      BY <3>1 DEF Over
    <3> QED BY ONLY <3>2
  <2>4. Merged(k, s, Default[k]) = Over(s, Default[k])
    BY <1>1 DEF Merged
  <2> QED BY <2>2, <2>3, <2>4
<1>2. CASE k = "optional"
  <2>1. Default[k] = None
    BY <1>2 DEF Default
  <2> QED BY <1>2, <2>1 DEF Merged
<1>3. CASE k = "optionalSet"
  BY <1>3 DEF Merged, Exact
<1>4. CASE k = "enum"
  <2>1. s \in Mapped
    BY <1>4 DEF Exact
  <2>2. Merged(k, s, Default[k]) = stringToEnum(enumToString(s))
    BY <1>4 DEF Merged
  <2> QED BY <2>1, <2>2 DEF stringToEnum, enumToString
<1>5. CASE k \in {"int", "property", "vector", "set", "array", "struct"}
  BY <1>5 DEF Merged
<1> QED BY <1>1, <1>2, <1>3, <1>4, <1>5 DEF Kinds

LEMMA FreshIsTyped ==
    ASSUME NEW k \in Kinds
    PROVE  StructOK(k, Fresh(k)) /\ Fresh(k).first = Default[k] /\ Fresh(k).rest = 0
<1>1. Fresh(k) = [first |-> Fresh(k).first, rest |-> Fresh(k).rest] /\ Fresh(k).first = Default[k] /\ Fresh(k).rest = 0
  BY DEF Fresh
<1> QED BY <1>1, Defaults DEF StructOK

-----------------------------------------------------------------------------
(* The invariant is one.                                                   *)

LEMMA ValuesAreTyped ==
    ASSUME NEW k \in Kinds, NEW v \in Values[k]
    PROVE  Typed(k, v)
<1> USE ReflectionAssumption
<1>1. CASE k \in {"int", "property"}
  <2>1. v \in Item
    BY <1>1 DEF Values
  <2> QED BY <1>1, <2>1 DEF Typed
<1>2. CASE k = "enum"
  <2>1. v \in {"on", "off", "unmapped"}
    BY <1>2 DEF Values
  <2> QED BY <1>2, <2>1 DEF Typed
<1>3. CASE k = "vector"
  <2>1. v \in SeqOf(Item, MaxItems)
    BY <1>3 DEF Values
  <2>2. PICK n \in 0 .. MaxItems : v \in [1 .. n -> Item]
    BY <2>1 DEF SeqOf
  <2>3. n \in Nat /\ v \in [1 .. n -> Int]
    <3>1. MaxItems \in Nat
      OBVIOUS
    <3>2. n \in Nat
      BY <3>1
    <3> QED BY <2>2, <3>2
  <2>4. v \in Seq(Int)
    BY <2>3
  <2> QED BY <1>3, <2>4 DEF Typed
<1>4. CASE k = "set"
  <2>1. v \in SUBSET Item
    BY <1>4 DEF Values
  <2>2. v \subseteq Int /\ IsFiniteSet(v)
    BY <2>1, FS_Subset
  <2> QED BY <1>4, <2>2 DEF Typed
<1>5. CASE k = "array"
  <2>1. v \in [1 .. ArraySize -> Item]
    BY <1>5 DEF Values
  <2> QED BY <1>5, <2>1 DEF Typed
<1>6. CASE k \in {"optional", "optionalSet"}
  <2>1. v \in {None} \cup {<<n>> : n \in Item}
    BY <1>6 DEF Values, OptionalOf
  <2>2. CASE v = << >>
    <3>1. v \in Seq(Int) /\ Len(v) <= 1
      BY <2>2
    <3> QED BY <1>6, <3>1 DEF Typed
  <2>3. CASE \E n \in Item : v = <<n>>
    <3>1. PICK n \in Int : v = <<n>>
      BY <2>3
    <3>2. v \in Seq(Int) /\ Len(v) <= 1
      BY <3>1
    <3> QED BY <1>6, <3>2 DEF Typed
  <2> QED BY <2>1, <2>2, <2>3 DEF None
<1>7. CASE k \in {"map", "stringMap"}
  <2>1. v \in UNION {[T -> Item] : T \in SUBSET Name}
    BY <1>7 DEF Values, MapsOf
  <2>2. PICK T \in SUBSET Name : v \in [T -> Item]
    BY <2>1
  <2>3. DOMAIN v = T /\ v \in [T -> Int] /\ IsFiniteSet(T)
    BY <2>2, FS_Subset
  <2> QED BY <1>7, <2>3 DEF Typed, IsMap
<1>8. CASE k = "struct"
  <2>1. PICK w \in Item, h \in Item : v = [width |-> w, height |-> h]
    BY <1>8 DEF Values, Struct
  <2> QED BY <1>8, <2>1 DEF Typed
<1> QED BY <1>1, <1>2, <1>3, <1>4, <1>5, <1>6, <1>7, <1>8 DEF Kinds

\* The document of a struct is written whatever the tree was, by a writer that clears maps.
LEMMA DocumentWhatever ==
    ASSUME NEW k, NEW v, NEW t, NEW skip
    PROVE  structToJson(k, v, t, TRUE, skip) = structToJson(k, v, Null, TRUE, skip)
BY DEF structToJson

LEMMA InitInvariant == Init => IInv
<1> SUFFICES ASSUME Init PROVE IInv
  OBVIOUS
<1>1. TypeOK
  BY FreshIsTyped DEF Init, TypeOK
<1>2. TreeIsOfValue
  BY DEF Init, TreeIsOfValue
<1>3. ~Loadable
  BY DEF Init, Loadable, Unreadable
<1> QED BY <1>1, <1>2, <1>3 DEF IInv, FileIsOfSaved

\* What a tree is kept for: nothing, if maps are cleared.
LEMMA KeptTree ==
    ASSUME NEW t, t = Null \/ DocOK(t)
    PROVE  Keep(t) = Null \/ DocOK(Keep(t))
BY DEF Keep

\* Steps that leave the file alone.
LEMMA FileKept ==
    ASSUME FileIsOfSaved, UNCHANGED <<options, file, saved>>
    PROVE  FileIsOfSaved'
BY DEF FileIsOfSaved, Loadable, Document

LEMMA EditInvariant ==
    ASSUME IInv, Edit
    PROVE  IInv'
<1>1. kind \in Kinds /\ value = [first |-> value.first, rest |-> value.rest] /\ Typed(kind, value.first) /\ value.rest \in Int
  BY DEF IInv, TypeOK, StructOK
<1>2. StructOK(kind, value')
  <2>1. CASE \E v \in Values[kind] \ {value.first} : value' = [value EXCEPT !.first = v]
    <3>1. PICK v \in Values[kind] : value' = [value EXCEPT !.first = v]
      BY <2>1
    <3>2. value' = [first |-> v, rest |-> value.rest]
      BY <1>1, <3>1
    <3>3. value'.first = v /\ value'.rest = value.rest /\ value' = [first |-> value'.first, rest |-> value'.rest]
      BY <3>2
    <3>4. Typed(kind, v)
      BY <1>1, ValuesAreTyped
    <3> QED BY <1>1, <3>3, <3>4 DEF StructOK
  <2>2. CASE value' = [value EXCEPT !.rest = 1 - @]
    <3>1. value' = [first |-> value.first, rest |-> 1 - value.rest]
      BY <1>1, <2>2
    <3>2. value'.first = value.first /\ value'.rest = 1 - value.rest /\ value' = [first |-> value'.first, rest |-> value'.rest]
      BY <3>1
    <3> QED BY <1>1, <3>2 DEF StructOK
  <2> QED BY <2>1, <2>2 DEF Edit
<1>3. UNCHANGED <<options, kind, tree, file, pc, saved>> /\ pc = "idle"
  BY DEF Edit
<1>4. TypeOK' /\ TreeIsOfValue'
  BY <1>2, <1>3 DEF IInv, TypeOK, TreeIsOfValue
<1> QED BY <1>3, <1>4, FileKept DEF IInv

LEMMA SerializeInvariant ==
    ASSUME IInv, NEW buffer \in {"new", "kept"}, Serialize(buffer)
    PROVE  IInv'
<1> DEFINE r == structToJson(kind, value, tree, options.clearMaps, options.skipDefault)
<1>1. kind \in Kinds /\ StructOK(kind, value) /\ (tree = Null \/ DocOK(tree))
      /\ options.clearMaps \in BOOLEAN /\ TypeOK
  BY DEF IInv, TypeOK
<1>2. DocOK(r.value)
  BY <1>1, StructIsWritten
<1>3. options.clearMaps => r = Document(kind, value) /\ r = Well(r.value)
  <2> SUFFICES ASSUME options.clearMaps = TRUE PROVE r = Document(kind, value) /\ r = Well(r.value)
    BY <1>1
  <2>1. r = structToJson(kind, value, tree, TRUE, options.skipDefault)
    OBVIOUS
  <2>2. IsDocument(kind, value, structToJson(kind, value, tree, TRUE, options.skipDefault), options.skipDefault)
    BY <1>1, Documents
  <2> HIDE DEF r
  <2>3. r = Document(kind, value)
    BY <2>1, DocumentWhatever DEF Document
  <2> QED BY <2>1, <2>2, <2>3 DEF IsDocument
<1>4. /\ \/ tree' = r.value /\ pc' = "open"
         \/ tree' = Keep(r.value) /\ pc' = pc
      /\ pc = "idle"
      /\ UNCHANGED <<options, kind, value, file, saved>>
  BY DEF Serialize
<1> HIDE DEF r
<1>5. tree' = Null \/ DocOK(tree')
  BY <1>2, <1>4, KeptTree
<1>6. TypeOK'
  BY <1>1, <1>4, <1>5 DEF TypeOK
<1>7. Document(kind, value)' = Document(kind, value)
  BY <1>4 DEF Document
<1>8. TreeIsOfValue'
  BY <1>2, <1>3, <1>4, <1>7 DEF TreeIsOfValue
<1> QED BY <1>4, <1>6, <1>8, FileKept DEF IInv

LEMMA WriteInvariant ==
    ASSUME IInv, OpenFile \/ WriteFile \/ OpenFails \/ WriteFails
    PROVE  IInv'
<1>1. TypeOK /\ TreeIsOfValue /\ FileIsOfSaved /\ kind \in Kinds /\ StructOK(kind, value)
  BY DEF IInv, TypeOK
<1>2. CASE OpenFile
  <2>1. TypeOK' /\ TreeIsOfValue'
    BY <1>1, <1>2 DEF OpenFile, TypeOK, TreeIsOfValue, Document
  <2>2. ~Loadable'
    BY <1>2 DEF OpenFile, Loadable, Unreadable
  <2> QED BY <2>1, <2>2 DEF IInv, FileIsOfSaved
<1>3. CASE WriteFile
  <2>1. tree' = Null \/ DocOK(tree')
    BY <1>1, <1>3, KeptTree DEF WriteFile, TypeOK
  <2>2. TypeOK' /\ TreeIsOfValue'
    BY <1>1, <1>3, <2>1 DEF WriteFile, TypeOK, TreeIsOfValue
  <2>3. CASE text = 1
    <3>1. file'.doc = tree /\ saved'.kind = kind /\ saved'.value = value /\ options' = options
      BY <1>3, <2>3 DEF WriteFile
    <3>2. Document(saved.kind, saved.value)' = Document(kind, value)
      BY <3>1 DEF Document
    <3>3. DocOK(tree) /\ (options.clearMaps => Document(kind, value) = Well(tree))
      BY <1>1, <1>3 DEF WriteFile, TreeIsOfValue
    <3>4. FileIsOfSaved'
      BY <1>1, <3>1, <3>2, <3>3 DEF FileIsOfSaved
    <3> QED BY <2>2, <3>4 DEF IInv
  <2>4. CASE text # 1
    <3>1. ~Loadable'
      BY <1>3, <2>4 DEF WriteFile, Loadable, Unreadable
    <3> QED BY <2>2, <3>1 DEF IInv, FileIsOfSaved
  <2> QED BY <2>3, <2>4
<1>4. CASE OpenFails
  <2>1. tree' = Null \/ DocOK(tree')
    BY <1>1, <1>4, KeptTree DEF OpenFails, TypeOK
  <2>2. TypeOK' /\ TreeIsOfValue'
    BY <1>1, <1>4, <2>1 DEF OpenFails, TypeOK, TreeIsOfValue
  <2>3. UNCHANGED <<options, file, saved>>
    BY <1>4 DEF OpenFails
  <2> QED BY <1>1, <2>2, <2>3, FileKept DEF IInv
<1>5. CASE WriteFails
  <2>1. tree' = Null \/ DocOK(tree')
    BY <1>1, <1>5, KeptTree DEF WriteFails, TypeOK
  <2>2. TypeOK' /\ TreeIsOfValue'
    BY <1>1, <1>5, <2>1 DEF WriteFails, TypeOK, TreeIsOfValue
  <2>3. ~Loadable'
    BY <1>5 DEF WriteFails, Loadable, Unreadable
  <2> QED BY <2>2, <2>3 DEF IInv, FileIsOfSaved
<1> QED BY <1>2, <1>3, <1>4, <1>5

LEMMA LoadInvariant ==
    ASSUME IInv, NEW v, StructOK(kind, v), Load(v)
    PROVE  IInv'
<1>1. TypeOK /\ FileIsOfSaved /\ kind \in Kinds
  BY DEF IInv, TypeOK
<1>2. DocOK(file.doc)
  BY <1>1 DEF Load, FileIsOfSaved
<1>3. StructOK(kind, Read(v).value)
  BY <1>1, <1>2, StructIsTyped DEF Read
<1>4. /\ UNCHANGED <<options, kind, file, pc, saved>> /\ pc = "idle"
      /\ tree' = Keep(file.doc) /\ value' = Read(v).value
  BY DEF Load
<1>5. tree' = Null \/ DocOK(tree')
  BY <1>2, <1>4, KeptTree
<1>6. TypeOK' /\ TreeIsOfValue'
  BY <1>1, <1>3, <1>4, <1>5 DEF TypeOK, TreeIsOfValue
<1> QED BY <1>1, <1>4, <1>6, FileKept DEF IInv

LEMMA RestartInvariant ==
    ASSUME IInv, Restart
    PROVE  IInv'
<1>1. TypeOK /\ FileIsOfSaved
  BY DEF IInv
<1>2. /\ UNCHANGED <<options, saved>> /\ kind' \in Kinds /\ value' = Fresh(kind') /\ tree' = Null /\ pc' = "idle"
      /\ file' = file \/ file' = Unreadable("part")
  BY DEF Restart
<1>3. StructOK(kind', value')
  BY <1>2, FreshIsTyped
<1>4. TypeOK' /\ TreeIsOfValue'
  BY <1>1, <1>2, <1>3 DEF TypeOK, TreeIsOfValue
<1>5. CASE file' = file
  BY <1>1, <1>2, <1>4, <1>5, FileKept DEF IInv
<1>6. CASE file' = Unreadable("part")
  <2>1. ~Loadable'
    BY <1>6 DEF Loadable, Unreadable
  <2> QED BY <1>4, <2>1 DEF IInv, FileIsOfSaved
<1> QED BY <1>2, <1>5, <1>6

LEMMA StepInvariant == IInv /\ [Next]_vars => IInv'
<1> SUFFICES ASSUME IInv, [Next]_vars PROVE IInv'
  OBVIOUS
<1>1. CASE Edit
  BY <1>1, EditInvariant
<1>2. CASE \E buffer \in {"new", "kept"} : Serialize(buffer)
  BY <1>2, SerializeInvariant
<1>3. CASE OpenFile \/ WriteFile \/ OpenFails \/ WriteFails
  BY <1>3, WriteInvariant
<1>4. CASE Reload
  <2>1. StructOK(kind, value)
    BY DEF IInv, TypeOK
  <2> QED BY <1>4, <2>1, LoadInvariant DEF Reload
<1>5. CASE LoadFresh
  <2>1. StructOK(kind, Fresh(kind))
    BY FreshIsTyped DEF IInv, TypeOK
  <2> QED BY <1>5, <2>1, LoadInvariant DEF LoadFresh
<1>6. CASE Restart
  BY <1>6, RestartInvariant
<1>7. CASE UNCHANGED vars
  BY <1>7 DEF vars, IInv, TypeOK, TreeIsOfValue, FileIsOfSaved, Loadable, Document
<1> QED BY <1>1, <1>2, <1>3, <1>4, <1>5, <1>6, <1>7 DEF Next

\* Whatever versions of the program wrote, loaded and edited, and whatever failed: the struct in
\* memory holds what its kind may hold, and the document in the file is that of the struct it was
\* made of.
THEOREM Invariant == Spec => []IInv
BY InitInvariant, StepInvariant, PTL DEF Spec

-----------------------------------------------------------------------------
(* What a program can rely on.                                             *)

\* The document in the file is one of the saved struct.
LEMMA SavedDocument ==
    ASSUME IInv, Loadable, Complete
    PROVE  /\ saved.kind \in Kinds /\ StructOK(saved.kind, saved.value) /\ DocOK(file.doc)
           /\ IsDocument(saved.kind, saved.value, Well(file.doc), options.skipDefault)
<1>1. saved.kind \in Kinds /\ StructOK(saved.kind, saved.value) /\ DocOK(file.doc)
      /\ Document(saved.kind, saved.value) = Well(file.doc)
  BY DEF IInv, FileIsOfSaved, Complete
<1>2. IsDocument(saved.kind, saved.value, structToJson(saved.kind, saved.value, Null, TRUE, options.skipDefault), options.skipDefault)
  BY <1>1, Documents
<1> QED BY <1>1, <1>2 DEF Document

\* It is read into a struct of its own version.
LEMMA SavedIsRead ==
    ASSUME IInv, Matches, Complete, NEW v, StructOK(kind, v)
    PROVE  Read(v).value = [first |-> Restored(kind, saved.value.first, v.first), rest |-> saved.value.rest]
<1>1. /\ kind \in Kinds /\ saved.kind = kind /\ StructOK(kind, saved.value)
      /\ IsDocument(kind, saved.value, Well(file.doc), options.skipDefault)
      /\ options.skipDefault => options.resetToDefault
  BY SavedDocument DEF Matches, Complete
<1>2. Read(v).value =
        [first |-> IF options.skipDefault /\ saved.value.first = Default[kind] THEN saved.value.first
                   ELSE Merged(kind, saved.value.first, v.first),
         rest |-> saved.value.rest]
  BY <1>1, DocumentIsRead DEF Read
<1> QED BY <1>2 DEF Restored

LEMMA SavedIsReadFresh ==
    ASSUME IInv, Matches, Complete, Exact(kind, saved.value.first)
    PROVE  Read(Fresh(kind)).value = saved.value
<1>1. kind \in Kinds /\ StructOK(kind, saved.value)
  BY SavedDocument DEF Matches
<1>2. StructOK(kind, Fresh(kind)) /\ Fresh(kind).first = Default[kind]
  BY <1>1, FreshIsTyped
<1>3. Read(Fresh(kind)).value = [first |-> Restored(kind, saved.value.first, Default[kind]), rest |-> saved.value.rest]
  BY <1>2, SavedIsRead
<1>4. Restored(kind, saved.value.first, Default[kind]) = saved.value.first
  BY <1>1, MergedWithNothing DEF Restored, StructOK
<1> QED BY <1>1, <1>3, <1>4 DEF StructOK

\* What a program saves it loads again, over whatever is in memory by then: scalars, lists and
\* structs as they were, maps merged with what is there, an empty optional not at all.
THEOREM LoadRestores == Spec => LoadRestoresSaved
<1>1. ASSUME IInv, Reload, Matches, Complete
      PROVE  value' = [first |-> Restored(kind, saved.value.first, value.first), rest |-> saved.value.rest]
  <2>1. StructOK(kind, value) /\ value' = Read(value).value
    BY <1>1 DEF IInv, TypeOK, Reload, Load
  <2> QED BY <1>1, <2>1, SavedIsRead
<1> QED BY <1>1, Invariant, PTL DEF LoadRestoresSaved

\* In a new struct a program finds what it saved and nothing else, but for enumerators without a
\* name and optionals that are set by default.
THEOREM FreshLoads == Spec => FreshLoadIsSaved
<1>1. ASSUME IInv, LoadFresh, Matches, Complete, Exact(kind, saved.value.first)
      PROVE  value' = saved.value
  <2>1. value' = Read(Fresh(kind)).value
    BY <1>1 DEF LoadFresh, Load
  <2> QED BY <1>1, <2>1, SavedIsReadFresh
<1> QED BY <1>1, Invariant, PTL DEF FreshLoadIsSaved

\* Loading a file a second time changes nothing, whichever version wrote it.
THEOREM LoadsOnce == Spec => []LoadIsIdempotent
<1>1. IInv => LoadIsIdempotent
  BY StructIsReadOnce DEF IInv, TypeOK, LoadIsIdempotent, Read
<1> QED BY <1>1, Invariant, PTL

\* Saving what was just loaded gives the file that was loaded.
THEOREM Canonical == Spec => []SaveIsCanonical
<1>1. ASSUME IInv, Matches, Complete, Exact(kind, saved.value.first)
      PROVE  structToJson(kind, Read(Fresh(kind)).value, Null, TRUE, options.skipDefault) = Well(file.doc)
  <2>1. Read(Fresh(kind)).value = saved.value
    BY <1>1, SavedIsReadFresh
  <2>2. Document(kind, saved.value) = Well(file.doc)
    BY <1>1 DEF IInv, FileIsOfSaved, Matches, Complete
  <2> QED BY <2>1, <2>2 DEF Document
<1>2. IInv => SaveIsCanonical
  BY <1>1 DEF SaveIsCanonical
<1> QED BY <1>2, Invariant, PTL

\* A load that does not throw has read what follows the first field, one that throws has not,
\* whichever version wrote the file.
THEOREM RestReadOrKept == Spec => RestIsReadOrKept
<1>1. ASSUME IInv, Reload, Complete
      PROVE  value'.rest = IF Read(value).ok THEN saved.value.rest ELSE value.rest
  <2>1. Loadable /\ value' = Read(value).value /\ value.rest \in Int
    BY <1>1 DEF IInv, TypeOK, StructOK, Reload, Load
  <2>2. saved.kind \in Kinds /\ saved.value.rest \in Int
        /\ IsDocument(saved.kind, saved.value, Well(file.doc), options.skipDefault)
        /\ (options.skipDefault => options.resetToDefault)
    BY <1>1, <2>1, SavedDocument DEF StructOK, Complete
  <2>3. Read(value).value.rest = IF Read(value).ok THEN saved.value.rest ELSE value.rest
    BY <2>1, <2>2, DocumentRest DEF Read
  <2> QED BY <2>1, <2>3
<1> QED BY <1>1, Invariant, PTL DEF RestIsReadOrKept
=============================================================================
