-------------------------- MODULE ConversionProofs --------------------------
(***************************************************************************)
(* Theorems about the conversions: about compressing in the first parts,   *)
(* about the options of a command line and about tables in the last.       *)
(*                                                                         *)
(* Whatever the size of the buffers and the length of the document, inf()  *)
(* reports success only when it has given back a document that was packed, *)
(* whole, unless it was told to skip a wrong checksum; and what it gives   *)
(* back before the first altered byte is the beginning of the document.    *)
(* The argument follows a checksum from def(), which writes it behind the  *)
(* whole document, through whatever happens to the packed bytes to inf(),  *)
(* whose output reaches as far as what it has read; and inf() either has   *)
(* read nothing that was altered so far, or has gone astray at a byte that *)
(* stays where it is.                                                      *)
(* What nobody has altered it does give back: a second invariant says what *)
(* a stream of def() looks like, finished or not, and that inf() is always *)
(* somewhere before the end of one.                                        *)
(***************************************************************************)
EXTENDS Compression, CommandLine, CSV, SequenceTheorems, FiniteSetTheorems, WellFoundedInduction, TLAPS

\* The operation whose loop is running, and holders that do not share what it writes to.
LoopsApart ==
    /\ pc \in {"read", "deflate"} =>
          call.op = "compress" /\ call.type \in Window /\ p["packed"] # p["data"]
    /\ pc \in {"feed", "inflate"} =>
          Unpacking /\ p["output"] \notin {p["packed"], p["data"]}

\* A checksum belongs to a document that was packed.
Checked(bytes) == \A i \in DOMAIN bytes : bytes[i].kind = "check" => bytes[i].upto \in written

DataIsRaw == \A i \in DOMAIN Held("data") : Held("data")[i].kind = "raw"

SourcesChecked ==
    /\ DataIsRaw
    /\ Checked(Held("packed"))
    /\ Unpacking => Checked(strm.in) /\ Checked(rest)

\* def() has the document in three parts: taken by zlib, in the buffer, not yet read.
PartsOfData ==
    pc \in {"read", "deflate"} =>
        /\ strm.far + Len(strm.in) + Len(rest) = Len(Held("data"))
        /\ Len(Held("data")) \in written
        /\ pc = "read" => strm.in = << >>
        /\ pc = "deflate" /\ strm.flush => rest = << >>

\* inf() is never ahead of what it has read, and has found no end once it is astray.
NeverAhead ==
    Unpacking =>
        /\ strm.near <= strm.far
        /\ pc \in {"feed", "inflate"} /\ ~strm.headed => strm.far = 0
        /\ strm.mode = "ended" => strm.far \in written /\ ~strm.astray
        /\ pc = "feed" => strm.mode = "going" /\ strm.in = << >>
        /\ pc = "inflate" => strm.mode \in {"going", "ended"}

\* c bytes are read, the rest are in the buffer or not yet there.
ReadTo(bytes, c) ==
    /\ c + Len(strm.in) + Len(rest) = Len(bytes)
    /\ \A i \in 1 .. Len(strm.in) : strm.in[i] = bytes[c + i]
    /\ \A i \in 1 .. Len(rest) : rest[i] = bytes[c + Len(strm.in) + i]

\* None of them was altered, and inf() knows what they tell.
SoFar(bytes, c) ==
    /\ ReadTo(bytes, c)
    /\ \A i \in 1 .. c : bytes[i] # Junk
    /\ strm.headed <=> c > 0
    /\ strm.far = Reached(bytes, c)

\* The n-th byte was the first to be altered; all that is told before it was given out, if inf()
\* is still at work.
AstrayFrom(bytes, n) ==
    /\ FirstAltered(bytes, n)
    /\ Held("output") = kept \o Decoded(0, strm.near, Reached(bytes, n - 1))
    /\ pc \in {"feed", "inflate"} => Reached(bytes, n - 1) <= strm.near

BytesRead ==
    Unpacking =>
        IF strm.astray THEN \E n \in DOMAIN Held("packed") : AstrayFrom(Held("packed"), n)
        ELSE pc \in {"feed", "inflate"} /\ strm.mode = "going" =>
                \E c \in Nat : SoFar(Held("packed"), c)

IInv == PackedOK /\ LoopsApart /\ SourcesChecked /\ PartsOfData /\ NeverAhead /\ BytesRead /\ GivenBack

-----------------------------------------------------------------------------
(* Documents and pieces of them. *)

LEMMA DocumentType ==
  ASSUME NEW n \in Nat
  PROVE  /\ Document(n) \in Seq(Bytes)
         /\ Len(Document(n)) = n
         /\ \A i \in 1 .. n : Document(n)[i] = Byte("raw", i)
         /\ DOMAIN Document(n) = 1 .. n
         /\ \A i \in DOMAIN Document(n) : Document(n)[i].kind = "raw"
<1>1. \A i \in 1 .. n : Byte("raw", i) \in Bytes /\ Byte("raw", i).kind = "raw"
  BY DEF Byte, Bytes, Kind
<1>2. /\ Document(n) \in Seq(Bytes) /\ Len(Document(n)) = n
      /\ \A i \in 1 .. n : Document(n)[i] = Byte("raw", i)
      /\ DOMAIN Document(n) = 1 .. n
  BY <1>1 DEF Document
<1> QED BY <1>1, <1>2

LEMMA DecodedType ==
  ASSUME NEW m \in Nat, NEW n \in Nat, m <= n, NEW s \in Nat
  PROVE  /\ Decoded(m, n, s) \in Seq(Bytes)
         /\ Len(Decoded(m, n, s)) = n - m
         /\ \A i \in 1 .. n - m : Decoded(m, n, s)[i] = IF m + i <= s THEN Byte("raw", m + i) ELSE Junk
<1>1. n - m \in Nat
  OBVIOUS
<1>2. \A i \in 1 .. n - m : (IF m + i <= s THEN Byte("raw", m + i) ELSE Junk) \in Bytes
  BY DEF Byte, Junk, Bytes, Kind
<1> QED BY <1>1, <1>2 DEF Decoded

\* What a reader has of a document it knows far enough is the document.
LEMMA DecodedIsDocument ==
  ASSUME NEW n \in Nat, NEW s \in Nat, n <= s
  PROVE  Decoded(0, n, s) = Document(n)
<1>1. 1 .. n - 0 = 1 .. n /\ \A i \in 1 .. n : 0 + i = i /\ i <= s
  OBVIOUS
<1> QED BY <1>1 DEF Decoded, Document

\* What is decoded next fits behind what is there, if it is told from as much of the document, or
\* neither is told any more.
Fits(m, n, s, t) == Decoded(0, m, s) \o Decoded(m, n, t) = Decoded(0, n, s)

LEMMA DecodedFits ==
  ASSUME NEW m \in Nat, NEW n \in Nat, m <= n, NEW s \in Nat, NEW t \in Nat,
         s = t \/ (s <= m /\ t <= m)
  PROVE  Fits(m, n, s, t)
<1> DEFINE a == Decoded(0, m, s)
           b == Decoded(m, n, t)
           whole == Decoded(0, n, s)
           both == a \o b
<1>1. /\ a \in Seq(Bytes) /\ Len(a) = m
      /\ \A i \in 1 .. m : a[i] = IF i <= s THEN Byte("raw", i) ELSE Junk
  <2>1. 0 \in Nat /\ 0 <= m /\ m - 0 = m /\ \A i \in 1 .. m : 0 + i = i
    OBVIOUS
  <2>2. /\ a \in Seq(Bytes) /\ Len(a) = m - 0
        /\ \A i \in 1 .. m - 0 : a[i] = IF 0 + i <= s THEN Byte("raw", 0 + i) ELSE Junk
    BY <2>1, DecodedType, Zenon
  <2> HIDE DEF a
  <2> QED BY <2>1, <2>2
<1>2. /\ whole \in Seq(Bytes) /\ Len(whole) = n
      /\ \A i \in 1 .. n : whole[i] = IF i <= s THEN Byte("raw", i) ELSE Junk
  <2>1. 0 \in Nat /\ 0 <= n /\ n - 0 = n /\ \A i \in 1 .. n : 0 + i = i
    OBVIOUS
  <2>2. /\ whole \in Seq(Bytes) /\ Len(whole) = n - 0
        /\ \A i \in 1 .. n - 0 : whole[i] = IF 0 + i <= s THEN Byte("raw", 0 + i) ELSE Junk
    BY <2>1, DecodedType, Zenon
  <2> HIDE DEF whole
  <2> QED BY <2>1, <2>2
<1>3. /\ b \in Seq(Bytes) /\ Len(b) = n - m
      /\ \A i \in 1 .. n - m : b[i] = IF m + i <= t THEN Byte("raw", m + i) ELSE Junk
  BY DecodedType
<1> HIDE DEF a, b, whole
<1>4. both \in Seq(Bytes) /\ Len(both) = n
  BY <1>1, <1>3
<1>5. ASSUME NEW i \in 1 .. n PROVE both[i] = whole[i]
  <2>1. CASE i <= m
    BY <2>1, <1>1, <1>2, <1>3
  <2>2. CASE i > m
    <3>1. i - m \in 1 .. n - m /\ m + (i - m) = i /\ (i <= s <=> i <= t)
      <4>1. i - m \in 1 .. n - m /\ m + (i - m) = i /\ (s = t \/ (i > s /\ i > t))
        BY <2>2
      <4> QED BY <4>1
    <3>2. both[i] = b[i - m]
      <4>1. i \in 1 .. Len(a) + Len(b) /\ ~(i <= Len(a))
        BY <1>1, <1>3, <2>2
      <4>2. both[i] = b[i - Len(a)]
        BY <1>1, <1>3, <4>1, ConcatProperties
      <4> QED BY <1>1, <4>2
    <3>3. b[i - m] = IF i <= t THEN Byte("raw", i) ELSE Junk
      BY <1>3, <3>1
    <3>4. whole[i] = IF i <= s THEN Byte("raw", i) ELSE Junk
      BY <1>2
    <3> QED BY <3>1, <3>2, <3>3, <3>4, Zenon
  <2>3. i <= m \/ i > m
    OBVIOUS
  <2> QED BY <2>1, <2>2, <2>3
<1>6. both = whole
  BY <1>2, <1>4, <1>5, SeqEqual
<1> QED BY <1>6 DEF a, b, whole, Fits

-----------------------------------------------------------------------------
(* Holders: an operation changes what its output holds and leaves the others alone, but *)
(* for those that share it.                                                             *)

LEMMA RenewHolds ==
  ASSUME PackedOK, NEW h \in Holder, NEW bytes \in Seq(Bytes), Renew(h, bytes)
  PROVE  /\ p' \in [Holder -> Blob] /\ blob' \in [Blob -> Seq(Bytes)]
         /\ Held(h)' = bytes
         /\ \A g \in Holder \ {h} : Held(g)' = Held(g)
<1> DEFINE x == Unused(h)
<1>1. \E b \in Blob : \A g \in Holder \ {h} : p[g] # b
  BY DEF PackedOK, Holder, Blob
<1>2. x \in Blob /\ \A g \in Holder \ {h} : p[g] # x
  BY <1>1 DEF Unused
<1>3. p' = [p EXCEPT ![h] = x] /\ p' \in [Holder -> Blob]
  BY <1>2 DEF Renew, PackedOK
<1> DEFINE b == [blob EXCEPT ![x] = bytes]
<1>4. b \in [Blob -> Seq(Bytes)]
  BY <1>2 DEF PackedOK
<1>5. blob' = [y \in Blob |-> IF \E g \in Holder : p'[g] = y THEN b[y] ELSE << >>]
  BY DEF Renew, Settled
<1>6. << >> \in Seq(Bytes)
  OBVIOUS
<1>7. blob' \in [Blob -> Seq(Bytes)]
  BY <1>4, <1>5, <1>6
<1>8. \A g \in Holder : blob'[p'[g]] = b[p'[g]]
  BY <1>3, <1>5
<1>9. Held(h)' = bytes
  BY <1>2, <1>3, <1>8 DEF Held, PackedOK
<1>10. \A g \in Holder \ {h} : Held(g)' = Held(g)
  BY <1>2, <1>3, <1>8 DEF Held, PackedOK
<1> QED BY <1>3, <1>7, <1>9, <1>10

LEMMA ShareHolds ==
  ASSUME PackedOK, NEW out \in Holder, NEW in \in Holder, Share(out, in)
  PROVE  /\ p' \in [Holder -> Blob] /\ blob' \in [Blob -> Seq(Bytes)]
         /\ Held(out)' = Held(in)
         /\ \A g \in Holder \ {out} : Held(g)' = Held(g)
<1>1. p' = [p EXCEPT ![out] = p[in]] /\ p' \in [Holder -> Blob]
  BY DEF Share, PackedOK
<1>2. blob' = [y \in Blob |-> IF \E g \in Holder : p'[g] = y THEN blob[y] ELSE << >>]
  BY DEF Share, Settled
<1>3. blob' \in [Blob -> Seq(Bytes)]
  <2>1. << >> \in Seq(Bytes)
    OBVIOUS
  <2> QED BY <1>2, <2>1 DEF PackedOK
<1>4. \A g \in Holder : blob'[p'[g]] = blob[p'[g]]
  BY <1>1, <1>2
<1> QED BY <1>1, <1>3, <1>4 DEF Held, PackedOK

LEMMA OverwriteHolds ==
  ASSUME PackedOK, NEW out \in Holder, NEW bytes \in Seq(Bytes), Overwrite(out, bytes), UNCHANGED p
  PROVE  /\ blob' \in [Blob -> Seq(Bytes)]
         /\ Held(out)' = bytes
         /\ \A g \in Holder : p[g] # p[out] => Held(g)' = Held(g)
BY DEF Overwrite, Held, PackedOK

LEMMA HeldType == ASSUME PackedOK, NEW h \in Holder PROVE Held(h) \in Seq(Bytes)
BY DEF PackedOK, Held

-----------------------------------------------------------------------------
(* The invariant, action by action. *)

LEMMA NewStreamType == NewStream \in Stream /\ NewStream.in = << >>
BY DEF NewStream, Stream, Bytes

LEMMA InitIsRight == Init => IInv
<1> SUFFICES ASSUME Init PROVE IInv
  OBVIOUS
<1>1. PICK n \in 0 .. MaxSize : blob = [b \in Blob |-> IF b = 1 THEN Document(n) ELSE << >>]
  BY DEF Init
<1>2. n \in Nat
  BY BoundAssumption
<1>3. Document(n) \in Seq(Bytes) /\ << >> \in Seq(Bytes)
  BY <1>2, DocumentType
<1>4. blob \in [Blob -> Seq(Bytes)] /\ p \in [Holder -> Blob]
  BY <1>1, <1>3 DEF Init, Holder, Blob
<1>5. Held("data") = Document(n) /\ Held("packed") = << >>
  BY <1>1 DEF Init, Held, Holder, Blob
<1>6. PackedOK
  BY <1>4, NewStreamType DEF PackedOK, Init, NoCall, Type, Window
<1>7. SourcesChecked
  <2>1. DataIsRaw
    BY <1>2, <1>5, DocumentType DEF DataIsRaw
  <2> QED BY <2>1, <1>5 DEF SourcesChecked, Checked, Unpacking, Init, NoCall
<1>8. LoopsApart /\ PartsOfData /\ NeverAhead /\ BytesRead /\ GivenBack
  BY DEF LoopsApart, PartsOfData, NeverAhead, BytesRead, GivenBack, OutputIsPrefix, WholeOrSkipped, Unpacking, Init, NoCall
<1> QED BY <1>6, <1>7, <1>8 DEF IInv

\* After an operation of the program that runs no loop, only the holders matter.
LEMMA NoLoop ==
  ASSUME ~Unpacking', pc' \in {"idle", "returned", "thrown"}
  PROVE  LoopsApart' /\ PartsOfData' /\ NeverAhead' /\ BytesRead' /\ GivenBack'
BY DEF LoopsApart, PartsOfData, NeverAhead, BytesRead, GivenBack, OutputIsPrefix, WholeOrSkipped

LEMMA DoneIsOver ==
  ASSUME Done
  PROVE  /\ ~Unpacking' /\ pc' = "idle"
         /\ call' \in [op : {"none", "compress", "uncompress"}, type : Type, skipCRC : BOOLEAN]
         /\ rest' \in Seq(Bytes) /\ strm' \in Stream /\ kept' \in Seq(Bytes)
<1>1. << >> \in Seq(Bytes)
  OBVIOUS
<1> QED BY <1>1, NewStreamType DEF Done, NothingToRead, NoCall, Unpacking, Type, Window

LEMMA TurnType == PackedOK /\ Turn => calls' \in Nat
BY DEF PackedOK, Turn

LEMMA EditIsRight ==
  ASSUME IInv, NEW n \in 0 .. MaxSize, Edit(n)
  PROVE  IInv'
<1> USE DEF IInv
<1>1. n \in Nat
  BY BoundAssumption
<1>2. Document(n) \in Seq(Bytes) /\ Renew("data", Document(n))
  BY <1>1, DocumentType DEF Edit
<1>3. /\ p' \in [Holder -> Blob] /\ blob' \in [Blob -> Seq(Bytes)]
      /\ Held("data")' = Document(n) /\ Held("packed")' = Held("packed")
  BY <1>2, RenewHolds DEF Holder
<1>4. PackedOK'
  BY <1>3, DoneIsOver, TurnType DEF PackedOK, Edit
<1>5. SourcesChecked'
  <2>1. DataIsRaw'
    BY <1>1, <1>3, DocumentType DEF DataIsRaw
  <2>2. written' = written
    BY DEF Edit
  <2> QED BY <2>1, <2>2, <1>3, DoneIsOver DEF Edit, SourcesChecked, Checked
<1> QED BY <1>4, <1>5, NoLoop, DoneIsOver DEF Edit

LEMMA EmptyIsRight ==
  ASSUME IInv, Empty
  PROVE  IInv'
<1> USE DEF IInv
<1>1. << >> \in Seq(Bytes) /\ Renew("output", << >>)
  BY DEF Empty
<1>2. /\ p' \in [Holder -> Blob] /\ blob' \in [Blob -> Seq(Bytes)]
      /\ Held("data")' = Held("data") /\ Held("packed")' = Held("packed")
  BY <1>1, RenewHolds DEF Holder
<1>3. PackedOK'
  BY <1>2, DoneIsOver, TurnType DEF PackedOK, Empty
<1>4. SourcesChecked'
  BY <1>2, DoneIsOver DEF Empty, SourcesChecked, Checked, DataIsRaw
<1> QED BY <1>3, <1>4, NoLoop, DoneIsOver DEF Empty

\* Whatever happens to packed bytes on their way, no checksum is made up.
LEMMA CarriedAreChecked ==
  ASSUME NEW bytes \in Seq(Bytes), Checked(bytes), NEW other \in Carried(bytes)
  PROVE  other \in Seq(Bytes) /\ Checked(other)
<1>1. CASE \E n \in 0 .. Len(bytes) - 1 : other = SubSeq(bytes, 1, n)
  <2>1. PICK n \in 0 .. Len(bytes) - 1 : other = SubSeq(bytes, 1, n)
    BY <1>1
  <2>2. \A i \in 1 .. n : i \in DOMAIN bytes /\ other[i] = bytes[i]
    BY <2>1
  <2>3. other \in Seq(Bytes) /\ DOMAIN other = 1 .. n
    BY <2>1
  <2> QED BY <2>2, <2>3 DEF Checked
<1>2. CASE \E i \in DOMAIN bytes : other = [bytes EXCEPT ![i] = Junk]
  <2>1. PICK i \in DOMAIN bytes : other = [bytes EXCEPT ![i] = Junk]
    BY <1>2
  <2>2. Junk \in Bytes /\ Junk.kind = "junk"
    BY DEF Junk, Byte, Bytes, Kind
  <2>3. other \in Seq(Bytes)
    BY <2>1, <2>2
  <2>4. DOMAIN other = DOMAIN bytes
    BY <2>1
  <2>5. \A j \in DOMAIN bytes : other[j] = IF j = i THEN Junk ELSE bytes[j]
    BY <2>1
  <2> QED BY <2>2, <2>3, <2>4, <2>5 DEF Checked
<1>3. CASE \E i \in DOMAIN bytes : other = [bytes EXCEPT ![i].kind = "wrong"]
  <2>1. PICK i \in DOMAIN bytes : other = [bytes EXCEPT ![i].kind = "wrong"]
    BY <1>3
  <2>2. bytes[i] \in Bytes
    OBVIOUS
  <2> DEFINE b == [bytes[i] EXCEPT !.kind = "wrong"]
  <2>3. b \in Bytes /\ b.kind = "wrong"
    BY <2>2 DEF Bytes, Kind
  <2>4. other = [bytes EXCEPT ![i] = b]
    BY <2>1
  <2> HIDE DEF b
  <2>5. other \in Seq(Bytes)
    BY <2>3, <2>4
  <2>6. DOMAIN other = DOMAIN bytes
    BY <2>4
  <2>7. \A j \in DOMAIN bytes : other[j] = IF j = i THEN b ELSE bytes[j]
    BY <2>4
  <2> QED BY <2>3, <2>5, <2>6, <2>7 DEF Checked
<1> QED BY <1>1, <1>2, <1>3 DEF Carried

LEMMA CarryIsRight ==
  ASSUME IInv, Carry
  PROVE  IInv'
<1> USE DEF IInv
<1>1. PICK bytes \in {Held("packed"), << >>} \cup Carried(Held("packed")) :
         /\ Renew("packed", bytes)
         /\ intact' = IF bytes = Held("packed") THEN intact ELSE "None"
         /\ written' = IF bytes = << >> THEN {} ELSE written
  BY DEF Carry
<1>2. Held("packed") \in Seq(Bytes) /\ Checked(Held("packed"))
  BY HeldType DEF SourcesChecked, Holder
<1>3. bytes \in Seq(Bytes) /\ Checked(bytes)
  <2>1. << >> \in Seq(Bytes) /\ Checked(<< >>)
    BY DEF Checked
  <2> QED BY <1>1, <1>2, <2>1, CarriedAreChecked
<1>4. /\ p' \in [Holder -> Blob] /\ blob' \in [Blob -> Seq(Bytes)]
      /\ Held("data")' = Held("data") /\ Held("packed")' = bytes
  BY <1>1, <1>3, RenewHolds DEF Holder
<1>5. PackedOK'
  <2>1. intact' \in Type /\ written' \subseteq Nat
    BY <1>1 DEF PackedOK, Type
  <2> QED BY <1>4, <2>1, DoneIsOver, TurnType DEF PackedOK, Carry
<1>6. SourcesChecked'
  <2>1. DataIsRaw'
    BY <1>4 DEF SourcesChecked, DataIsRaw
  <2>2. Checked(bytes)'
    BY <1>1, <1>3 DEF Checked
  <2> QED BY <2>1, <2>2, <1>4, DoneIsOver DEF Carry, SourcesChecked, Checked
<1> QED BY <1>5, <1>6, NoLoop, DoneIsOver DEF Carry

LEMMA CompressNoneIsRight ==
  ASSUME IInv, CompressNone
  PROVE  IInv'
<1> USE DEF IInv
<1>1. /\ p' \in [Holder -> Blob] /\ blob' \in [Blob -> Seq(Bytes)]
      /\ Held("packed")' = Held("data") /\ Held("data")' = Held("data")
  BY ShareHolds DEF CompressNone, Holder
<1>2. /\ ~Unpacking' /\ pc' = "returned"
      /\ call' \in [op : {"none", "compress", "uncompress"}, type : Type, skipCRC : BOOLEAN]
      /\ intact' \in Type /\ written' \subseteq Nat
  BY DEF CompressNone, Begin, Unpacking, Type, Window
<1>3. rest' \in Seq(Bytes) /\ strm' \in Stream /\ kept' \in Seq(Bytes)
  <2>1. << >> \in Seq(Bytes)
    OBVIOUS
  <2> QED BY <2>1, NewStreamType DEF CompressNone, NothingToRead
<1>4. PackedOK'
  BY <1>1, <1>2, <1>3, TurnType DEF PackedOK, CompressNone
<1>5. SourcesChecked'
  <2>1. DataIsRaw'
    BY <1>1 DEF SourcesChecked, DataIsRaw
  <2>2. Checked(Held("packed"))'
    BY <1>1 DEF SourcesChecked, DataIsRaw, Checked
  <2> QED BY <2>1, <2>2, <1>2 DEF SourcesChecked
<1> QED BY <1>2, <1>4, <1>5, NoLoop

LEMMA CompressZStdIsRight ==
  ASSUME IInv, CompressZStd
  PROVE  IInv'
<1> USE DEF IInv
<1> DEFINE n == Len(Held("data"))
<1>1. n \in Nat
  BY HeldType DEF Holder
<1>2. PICK byte \in {Byte("frame", n), Junk} : Overwrite("packed", <<byte>>)
  BY DEF CompressZStd
<1>3. byte \in Bytes /\ byte.kind # "check"
  BY <1>1, <1>2 DEF Byte, Junk, Bytes, Kind
<1>4. <<byte>> \in Seq(Bytes)
  BY <1>3
<1>5. p' = p /\ p["data"] # p["packed"]
  BY DEF CompressZStd
<1>6. /\ blob' \in [Blob -> Seq(Bytes)]
      /\ Held("packed")' = <<byte>> /\ Held("data")' = Held("data")
  BY <1>2, <1>4, <1>5, OverwriteHolds DEF Holder
<1>7. /\ ~Unpacking' /\ pc' \in {"returned", "thrown"}
      /\ call' \in [op : {"none", "compress", "uncompress"}, type : Type, skipCRC : BOOLEAN]
      /\ intact' \in Type /\ written' \subseteq Nat
  BY <1>1 DEF CompressZStd, Begin, Unpacking, Type, Window
<1>8. rest' \in Seq(Bytes) /\ strm' \in Stream /\ kept' \in Seq(Bytes)
  <2>1. << >> \in Seq(Bytes)
    OBVIOUS
  <2> QED BY <2>1, NewStreamType DEF CompressZStd, NothingToRead
<1>9. PackedOK'
  <2>1. p' \in [Holder -> Blob]
    BY <1>5 DEF PackedOK
  <2>2. calls' \in Nat
    BY TurnType DEF CompressZStd
  <2> QED BY <1>6, <1>7, <1>8, <2>1, <2>2 DEF PackedOK
<1>10. SourcesChecked'
  <2>1. DataIsRaw'
    BY <1>6 DEF SourcesChecked, DataIsRaw
  <2>2. Checked(Held("packed"))'
    BY <1>3, <1>6 DEF Checked
  <2> QED BY <2>1, <2>2, <1>7 DEF SourcesChecked
<1> QED BY <1>7, <1>9, <1>10, NoLoop

LEMMA CompressZlibIsRight ==
  ASSUME IInv, NEW type \in Window, CompressZlib(type)
  PROVE  IInv'
<1> USE DEF IInv
<1>1. /\ Held("data") \in Seq(Bytes) /\ Held("packed") \in Seq(Bytes)
      /\ Len(Held("data")) \in Nat
  BY HeldType DEF Holder
<1>2. /\ p' = p /\ blob' = blob
      /\ Held("data")' = Held("data") /\ Held("packed")' = Held("packed")
  BY DEF CompressZlib, Held
<1>3. /\ ~Unpacking' /\ pc' \in {"read", "thrown"}
      /\ call' \in [op : {"none", "compress", "uncompress"}, type : Type, skipCRC : BOOLEAN]
      /\ intact' \in Type /\ written' \subseteq Nat /\ written \subseteq written'
  BY <1>1 DEF CompressZlib, Begin, Unpacking, Type, Window, PackedOK
<1>4. rest' = Held("data") /\ strm' = NewStream /\ kept' = Held("packed")
  BY DEF CompressZlib
<1>5. PackedOK'
  <2>1. calls' \in Nat
    BY TurnType DEF CompressZlib
  <2> QED BY <1>1, <1>2, <1>3, <1>4, <2>1, NewStreamType DEF PackedOK
<1>6. LoopsApart'
  BY <1>2, <1>3 DEF CompressZlib, Begin, LoopsApart
<1>7. SourcesChecked'
  BY <1>2, <1>3 DEF SourcesChecked, Checked, DataIsRaw
<1>8. PartsOfData'
  BY <1>1, <1>2, <1>3, <1>4 DEF CompressZlib, PartsOfData, NewStream
<1>9. NeverAhead' /\ BytesRead' /\ GivenBack'
  BY <1>3 DEF NeverAhead, BytesRead, GivenBack, OutputIsPrefix, WholeOrSkipped
<1> QED BY <1>5, <1>6, <1>7, <1>8, <1>9

\* A piece of a source, and what is left of it.
LEMMA Cut ==
  ASSUME NEW bytes \in Seq(Bytes), NEW n \in 0 .. Len(bytes)
  PROVE  /\ SubSeq(bytes, 1, n) \in Seq(Bytes) /\ Len(SubSeq(bytes, 1, n)) = n
         /\ SubSeq(bytes, n + 1, Len(bytes)) \in Seq(Bytes)
         /\ Len(SubSeq(bytes, n + 1, Len(bytes))) = Len(bytes) - n
         /\ Checked(bytes) => Checked(SubSeq(bytes, 1, n)) /\ Checked(SubSeq(bytes, n + 1, Len(bytes)))
<1>1. Len(bytes) \in Nat /\ n \in Nat
  OBVIOUS
<1> DEFINE front == SubSeq(bytes, 1, n)
           back == SubSeq(bytes, n + 1, Len(bytes))
<1>2. front \in Seq(Bytes) /\ Len(front) = n /\ DOMAIN front = 1 .. n
      /\ \A i \in 1 .. n : front[i] = bytes[i] /\ i \in DOMAIN bytes
  BY <1>1
<1>3. back \in Seq(Bytes) /\ Len(back) = Len(bytes) - n /\ DOMAIN back = 1 .. Len(bytes) - n
      /\ \A i \in 1 .. Len(bytes) - n : back[i] = bytes[n + i] /\ n + i \in DOMAIN bytes
  BY <1>1
<1> QED BY <1>2, <1>3 DEF Checked

LEMMA ReadIsRight ==
  ASSUME IInv, Read
  PROVE  IInv'
<1> USE DEF IInv
<1> DEFINE n == Smaller(CHUNK, Len(rest))
           front == SubSeq(rest, 1, n)
           back == SubSeq(rest, n + 1, Len(rest))
           short == n < CHUNK
<1>1. rest \in Seq(Bytes) /\ Len(rest) \in Nat /\ strm \in Stream /\ CHUNK \in Nat
  BY ChunkAssumption DEF PackedOK
<1>2. n \in 0 .. Len(rest) /\ (short => n = Len(rest)) /\ short \in BOOLEAN
  BY <1>1 DEF Smaller
<1>3. /\ front \in Seq(Bytes) /\ Len(front) = n
      /\ back \in Seq(Bytes) /\ Len(back) = Len(rest) - n
  BY <1>1, <1>2, Cut
<1>4. /\ strm' = [strm EXCEPT !.in = front, !.flush = short] /\ rest' = back
      /\ pc = "read" /\ pc' = "deflate"
      /\ UNCHANGED <<blob, p, call, kept, written, calls, intact>>
  BY DEF Read
<1>5. ~Unpacking /\ ~Unpacking'
  BY <1>4 DEF LoopsApart, Unpacking
<1>6. /\ Held("data")' = Held("data") /\ Held("packed")' = Held("packed")
  BY <1>4 DEF Held
<1>7. PackedOK'
  <2> HIDE DEF short, front
  <2>1. strm' \in Stream
    BY <1>1, <1>2, <1>3, <1>4 DEF Stream
  <2> QED BY <1>3, <1>4, <2>1 DEF PackedOK
<1>8. LoopsApart'
  BY <1>4 DEF LoopsApart
<1>9. SourcesChecked'
  BY <1>4, <1>5, <1>6 DEF SourcesChecked, Checked, DataIsRaw
<1>10. PartsOfData'
  <2>1. strm'.in = front /\ strm'.far = strm.far /\ strm'.flush = short
    BY <1>1, <1>4 DEF Stream
  <2>2. strm.far + Len(rest) = Len(Held("data")) /\ Len(Held("data")) \in written /\ strm.far \in Nat
    BY <1>1, <1>4 DEF PartsOfData, Stream
  <2>3. short => back = << >>
    BY <1>1, <1>2
  <2> HIDE DEF short, front, back
  <2>4. strm'.far + Len(strm'.in) + Len(rest') = Len(Held("data"))
    BY <1>1, <1>2, <1>3, <1>4, <2>1, <2>2
  <2>5. Len(Held("data"))' = Len(Held("data"))
    BY <1>6
  <2>6. strm'.flush => rest' = << >>
    BY <1>4, <2>1, <2>3
  <2> QED BY <1>4, <2>2, <2>4, <2>5, <2>6 DEF PartsOfData
<1>11. NeverAhead' /\ BytesRead' /\ GivenBack'
  BY <1>5 DEF NeverAhead, BytesRead, GivenBack, OutputIsPrefix, WholeOrSkipped
<1> QED BY <1>7, <1>8, <1>9, <1>10, <1>11

LEMMA SequencesAreSeq ==
  ASSUME NEW S, NEW n \in Nat, NEW out \in Sequences(S, n)
  PROVE  out \in Seq(S) /\ Len(out) <= n
<1>1. PICK k \in 0 .. n : out \in [1 .. k -> S]
  BY DEF Sequences
<1>2. out \in Seq(S) /\ Len(out) = k
  BY <1>1
<1> QED BY <1>2

LEMMA ConcatChecked ==
  ASSUME NEW a \in Seq(Bytes), NEW b \in Seq(Bytes), Checked(a), Checked(b)
  PROVE  a \o b \in Seq(Bytes) /\ Checked(a \o b)
<1>1. /\ a \o b \in Seq(Bytes) /\ DOMAIN (a \o b) = 1 .. Len(a) + Len(b)
      /\ \A i \in 1 .. Len(a) + Len(b) : (a \o b)[i] = IF i <= Len(a) THEN a[i] ELSE b[i - Len(a)]
  BY ConcatProperties, LenProperties
<1>2. ASSUME NEW i \in 1 .. Len(a) + Len(b), (a \o b)[i].kind = "check"
      PROVE  (a \o b)[i].upto \in written
  <2>1. CASE i <= Len(a)
    BY <1>1, <1>2, <2>1 DEF Checked
  <2>2. CASE i > Len(a)
    <3>1. i - Len(a) \in DOMAIN b
      BY <2>2
    <3> QED BY <1>1, <1>2, <2>2, <3>1 DEF Checked
  <2>3. i <= Len(a) \/ i > Len(a)
    OBVIOUS
  <2> QED BY <2>1, <2>2, <2>3
<1> QED BY <1>1, <1>2 DEF Checked

LEMMA DeflateIsRight ==
  ASSUME IInv, Deflate
  PROVE  IInv'
<1> USE DEF IInv
<1>0. PICK taken \in strm.far .. strm.far + Len(strm.in) :
         \E out \in Sequences(Codes(taken), CHUNK) : DeflateTo(taken, out)
  BY DEF Deflate
<1>1. PICK out \in Sequences(Codes(taken), CHUNK) : DeflateTo(taken, out)
  BY <1>0
<1>2. /\ UNCHANGED <<p, call, rest, kept, written, calls, intact>> /\ pc = "deflate"
      /\ call.op = "compress" /\ call.type \in Window /\ p["packed"] # p["data"]
      /\ ~Unpacking /\ ~Unpacking'
  BY DEF Deflate, LoopsApart, Unpacking
<1>3. /\ strm \in Stream /\ strm.in \in Seq(Bytes) /\ strm.far \in Nat /\ strm.near \in Nat
      /\ strm.idle \in Nat /\ Len(strm.in) \in Nat /\ taken \in Nat /\ CHUNK \in Nat
  BY ChunkAssumption DEF PackedOK, Stream
<1>4. Codes(taken) \subseteq Bytes
  BY <1>2, <1>3 DEF Codes, Byte, Bytes, Kind, Window
<1>5. out \in Seq(Codes(taken)) /\ out \in Seq(Bytes) /\ Len(out) \in Nat
  BY <1>3, <1>4, SequencesAreSeq
<1>6. Reach(out, Len(out)) \in Nat
  <2>1. CASE Len(out) = 0
    BY <1>3, <2>1 DEF Reach
  <2>2. CASE Len(out) # 0
    <3>1. out[Len(out)] \in Bytes
      BY <1>5, <2>2
    <3> QED BY <1>3, <3>1 DEF Reach, Bytes
  <2> QED BY <2>1, <2>2
<1>7. Checked(out)
  <2> SUFFICES ASSUME NEW i \in DOMAIN out, out[i].kind = "check"
               PROVE  out[i].upto \in written
    BY DEF Checked
  <2>1. out[i] \in Codes(taken)
    BY <1>5
  <2>2. out[i].upto = taken
    BY <1>2, <2>1 DEF Codes, Byte, Window
  <2>3. strm.flush /\ Whole(taken)
    BY <1>1 DEF DeflateTo, Deflated
  <2>4. rest = << >> /\ strm.far + Len(strm.in) + Len(rest) = Len(Held("data")) /\ Len(Held("data")) \in written
    BY <1>2, <2>3 DEF PartsOfData
  <2>5. taken = Len(Held("data"))
    BY <1>3, <2>3, <2>4 DEF Whole
  <2> QED BY <2>2, <2>4, <2>5
<1>8. Held("packed") \in Seq(Bytes) /\ Checked(Held("packed"))
  BY HeldType DEF SourcesChecked, Holder
<1>9. Held("packed") \o out \in Seq(Bytes) /\ Checked(Held("packed") \o out)
  BY <1>5, <1>7, <1>8, ConcatChecked
<1>10. /\ blob' \in [Blob -> Seq(Bytes)]
       /\ Held("packed")' = Held("packed") \o out /\ Held("data")' = Held("data")
  BY <1>1, <1>2, <1>9, OverwriteHolds DEF DeflateTo, Append_, Holder
<1> DEFINE left == SubSeq(strm.in, taken - strm.far + 1, Len(strm.in))
<1>11. left \in Seq(Bytes) /\ Len(left) = Len(strm.in) - (taken - strm.far)
  <2>1. taken - strm.far \in 0 .. Len(strm.in)
    BY <1>3
  <2> QED BY <1>3, <2>1, Cut
<1>12. /\ strm' \in Stream /\ strm'.far = taken /\ strm'.in = left /\ strm'.flush = strm.flush
  <2> DEFINE idle == strm.idle + Cardinality(Idle(out))
             headed == strm.headed \/ out # << >>
             mode == IF out # << >> /\ out[Len(out)].kind = "check" THEN "ended" ELSE strm.mode
  <2>1. idle \in Nat
    <3>1. Idle(out) \subseteq 1 .. Len(out)
      BY <1>5 DEF Idle
    <3>2. IsFiniteSet(1 .. Len(out))
      BY <1>5, FS_Interval
    <3>3. IsFiniteSet(Idle(out))
      BY <3>1, <3>2, FS_Subset
    <3> QED BY <1>3, <3>3, FS_CardinalityType
  <2>2. headed \in BOOLEAN
    OBVIOUS
  <2>3. mode \in {"going", "ended", "unchecked", "bad", "lost"}
    BY <1>3 DEF Stream
  <2>4. strm' = [strm EXCEPT !.in = left, !.far = taken, !.near = Reach(out, Len(out)), !.idle = idle,
                             !.headed = headed, !.mode = mode]
    BY <1>1 DEF DeflateTo
  <2> HIDE DEF idle, headed, mode, left
  <2> QED BY <1>3, <1>6, <1>11, <2>1, <2>2, <2>3, <2>4 DEF Stream
<1>13. PackedOK'
  <2>1. pc' \in {"deflate", "returned", "read"}
    BY <1>1 DEF DeflateTo
  <2> QED BY <1>2, <1>10, <1>12, <2>1 DEF PackedOK
<1>14. LoopsApart'
  BY <1>1, <1>2 DEF DeflateTo, LoopsApart
<1>15. SourcesChecked'
  <2>1. Checked(Held("packed"))'
    BY <1>2, <1>9, <1>10 DEF Checked
  <2> QED BY <1>2, <1>10, <2>1 DEF SourcesChecked, DataIsRaw
<1>16. PartsOfData'
  <2>1. strm.far + Len(strm.in) + Len(rest) = Len(Held("data")) /\ Len(rest) \in Nat
    BY <1>2 DEF PartsOfData, PackedOK
  <2>2. strm'.far + Len(strm'.in) + Len(rest') = Len(Held("data"))
    <3> HIDE DEF left
    <3> QED BY <1>2, <1>3, <1>11, <1>12, <2>1
  <2>3. pc' = "read" => strm'.in = << >>
    <3> SUFFICES ASSUME pc' = "read" PROVE left = << >>
      BY <1>12
    <3>1. Len(out) < CHUNK
      BY <1>1, <1>3, <1>5, SequencesAreSeq DEF DeflateTo
    <3>2. taken = strm.far + Len(strm.in)
      BY <1>1, <3>1 DEF DeflateTo, Deflated, Whole
    <3>3. Len(left) = 0
      BY <1>3, <1>11, <3>2
    <3> HIDE DEF left
    <3> QED BY <1>11, <3>3
  <2>4. strm'.flush => rest' = << >>
    BY <1>2, <1>12 DEF PartsOfData
  <2> QED BY <1>2, <1>10, <2>2, <2>3, <2>4 DEF PartsOfData
<1>17. NeverAhead' /\ BytesRead' /\ GivenBack'
  BY <1>2 DEF NeverAhead, BytesRead, GivenBack, OutputIsPrefix, WholeOrSkipped
<1> QED BY <1>13, <1>14, <1>15, <1>16, <1>17

LEMMA UncompressNoneIsRight ==
  ASSUME IInv, UncompressNone
  PROVE  IInv'
<1> USE DEF IInv
<1>1. /\ p' \in [Holder -> Blob] /\ blob' \in [Blob -> Seq(Bytes)]
      /\ Held("packed")' = Held("packed") /\ Held("data")' = Held("data")
  BY ShareHolds DEF UncompressNone, Holder
<1>2. /\ ~Unpacking' /\ pc' = "returned"
      /\ call' \in [op : {"none", "compress", "uncompress"}, type : Type, skipCRC : BOOLEAN]
      /\ intact' = intact /\ written' = written
  BY DEF UncompressNone, Begin, Unpacking, Type, Window
<1>3. rest' \in Seq(Bytes) /\ strm' \in Stream /\ kept' \in Seq(Bytes)
  <2>1. << >> \in Seq(Bytes)
    OBVIOUS
  <2> QED BY <2>1, NewStreamType DEF UncompressNone, NothingToRead
<1>4. PackedOK'
  BY <1>1, <1>2, <1>3, TurnType DEF PackedOK, UncompressNone
<1>5. SourcesChecked'
  BY <1>1, <1>2 DEF SourcesChecked, DataIsRaw, Checked
<1> QED BY <1>2, <1>4, <1>5, NoLoop

LEMMA UncompressZStdIsRight ==
  ASSUME IInv, UncompressZStd
  PROVE  IInv'
<1> USE DEF IInv
<1>1. p' = p /\ p["output"] # p["packed"] /\ p["output"] # p["data"]
  BY DEF UncompressZStd, MayUnpack
<1>2. /\ ~Unpacking' /\ pc' \in {"returned", "thrown"}
      /\ call' \in [op : {"none", "compress", "uncompress"}, type : Type, skipCRC : BOOLEAN]
      /\ intact' = intact /\ written' = written
  BY DEF UncompressZStd, EmptyZStd, FrameZStd, OtherZStd, Begin, Unpacking, Type, Window
<1>3. rest' \in Seq(Bytes) /\ strm' \in Stream /\ kept' \in Seq(Bytes)
  <2>1. << >> \in Seq(Bytes)
    OBVIOUS
  <2> QED BY <2>1, NewStreamType DEF UncompressZStd, NothingToRead
<1>4. /\ blob' \in [Blob -> Seq(Bytes)]
      /\ Held("packed")' = Held("packed") /\ Held("data")' = Held("data")
  <2>1. ASSUME NEW bytes \in Seq(Bytes), Overwrite("output", bytes)
        PROVE  /\ blob' \in [Blob -> Seq(Bytes)]
               /\ Held("packed")' = Held("packed") /\ Held("data")' = Held("data")
    BY <1>1, <2>1, OverwriteHolds DEF Holder
  <2>2. CASE EmptyZStd
    <3>1. << >> \in Seq(Bytes)
      OBVIOUS
    <3> QED BY <2>1, <2>2, <3>1 DEF EmptyZStd
  <2>3. CASE FrameZStd
    <3> DEFINE n == Held("packed")[1].upto
    <3>1. n \in Nat
      <4>1. Held("packed") \in Seq(Bytes) /\ Len(Held("packed")) = 1
        BY <2>3, HeldType DEF FrameZStd, Holder
      <4>2. Held("packed")[1] \in Bytes
        BY <4>1
      <4> QED BY <4>2 DEF Bytes
    <3>2. Document(n) \in Seq(Bytes)
      BY <3>1, DocumentType
    <3>3. [i \in 1 .. n |-> Junk] \in Seq(Bytes)
      <4>1. Junk \in Bytes
        BY DEF Junk, Byte, Bytes, Kind
      <4> QED BY <3>1, <4>1
    <3>4. Overwrite("output", Document(n)) \/ Overwrite("output", [i \in 1 .. n |-> Junk])
      BY <2>3 DEF FrameZStd
    <3> QED BY <2>1, <3>2, <3>3, <3>4
  <2>4. CASE OtherZStd
    BY <1>1, <2>4 DEF OtherZStd, Held, PackedOK
  <2> QED BY <2>2, <2>3, <2>4 DEF UncompressZStd
<1>5. PackedOK'
  <2>1. calls' \in Nat
    BY TurnType DEF UncompressZStd, MayUnpack
  <2> QED BY <1>1, <1>2, <1>3, <1>4, <2>1 DEF PackedOK
<1>6. SourcesChecked'
  BY <1>2, <1>4 DEF SourcesChecked, DataIsRaw, Checked
<1> QED BY <1>2, <1>5, <1>6, NoLoop

LEMMA UncompressZlibIsRight ==
  ASSUME IInv, NEW type \in Window, NEW skipCRC \in BOOLEAN, UncompressZlib(type, skipCRC)
  PROVE  IInv'
<1> USE DEF IInv
<1>1. /\ p' = p /\ blob' = blob /\ p["output"] \notin {p["packed"], p["data"]}
      /\ written' = written /\ intact' = intact
      /\ rest' = Held("packed") /\ kept' = Held("output")
  BY DEF UncompressZlib, MayUnpack
<1>2. /\ Held("data")' = Held("data") /\ Held("packed")' = Held("packed")
      /\ Held("output")' = Held("output")
      /\ Held("packed") \in Seq(Bytes) /\ Held("output") \in Seq(Bytes)
  BY <1>1, HeldType DEF Held, Holder
<1>3. /\ Unpacking' /\ pc' \in {"feed", "thrown"}
      /\ call' \in [op : {"none", "compress", "uncompress"}, type : Type, skipCRC : BOOLEAN]
  BY DEF UncompressZlib, Begin, Unpacking, Type
<1>4. /\ strm' \in Stream /\ strm'.in = << >> /\ strm'.far = 0 /\ strm'.near = 0
      /\ ~strm'.headed /\ ~strm'.astray /\ strm'.mode = IF pc' = "feed" THEN "going" ELSE "lost"
  <2>1. << >> \in Seq(Bytes)
    OBVIOUS
  <2>2. CASE pc' = "feed" /\ strm' = NewStream
    BY <2>1, <2>2 DEF NewStream, Stream
  <2>3. CASE pc' = "thrown" /\ strm' = [NewStream EXCEPT !.mode = "lost"]
    BY <2>1, <2>3 DEF NewStream, Stream
  <2> QED BY <2>2, <2>3 DEF UncompressZlib
<1>5. PackedOK'
  <2>1. calls' \in Nat
    BY TurnType DEF UncompressZlib, MayUnpack
  <2> QED BY <1>1, <1>2, <1>3, <1>4, <2>1 DEF PackedOK
<1>6. LoopsApart'
  BY <1>1, <1>3 DEF LoopsApart
<1>7. SourcesChecked'
  BY <1>1, <1>2, <1>4 DEF SourcesChecked, DataIsRaw, Checked
<1>8. PartsOfData' /\ NeverAhead' /\ WholeOrSkipped'
  BY <1>3, <1>4 DEF PartsOfData, NeverAhead, WholeOrSkipped
<1>9. OutputIsPrefix'
  <2>1. Document(0) = << >>
    BY DocumentType
  <2>2. Held("output") \o << >> = Held("output")
    BY <1>2, ConcatEmptySeq
  <2> QED BY <1>1, <1>2, <1>4, <2>1, <2>2 DEF OutputIsPrefix
<1>10. BytesRead'
  <2>1. SoFar(Held("packed"), 0)'
    BY <1>1, <1>2, <1>4 DEF SoFar, ReadTo, Reached
  <2>2. 0 \in Nat
    OBVIOUS
  <2> QED BY <1>4, <2>1, <2>2 DEF BytesRead
<1> QED BY <1>5, <1>6, <1>7, <1>8, <1>9, <1>10 DEF GivenBack

\* inf() has read as far as before when the next bytes are in the buffer.
LEMMA FeedReadsOn ==
  ASSUME PackedOK, NEW c \in Nat, SoFar(Held("packed"), c), strm.in = << >>, Held("packed")' = Held("packed"),
         NEW n \in 0 .. Len(rest), strm' = [strm EXCEPT !.in = SubSeq(rest, 1, n)],
         rest' = SubSeq(rest, n + 1, Len(rest))
  PROVE  SoFar(Held("packed"), c)'
<1> DEFINE front == SubSeq(rest, 1, n)
           back == SubSeq(rest, n + 1, Len(rest))
           x == Len(rest)
<1>1. rest \in Seq(Bytes) /\ x \in Nat /\ n \in Nat /\ n <= x /\ strm \in Stream
  BY DEF PackedOK
<1>2. /\ Len(front) = n /\ Len(back) = x - n
      /\ \A i \in 1 .. n : front[i] = rest[i]
      /\ \A i \in 1 .. x - n : back[i] = rest[n + i]
  BY <1>1
<1>3. c + x = Len(Held("packed")) /\ \A i \in 1 .. x : rest[i] = Held("packed")[c + i]
  BY <1>1 DEF SoFar, ReadTo
<1> HIDE DEF front, back, x
<1>4. strm'.in = front /\ strm'.far = strm.far /\ strm'.headed = strm.headed /\ rest' = back
  BY <1>1 DEF Stream, front, back, x
<1>5. c + Len(front) + Len(back) = Len(Held("packed"))
  BY <1>1, <1>2, <1>3
<1>6. ASSUME NEW i \in 1 .. Len(front) PROVE front[i] = Held("packed")[c + i]
  BY <1>1, <1>2, <1>3
<1>7. ASSUME NEW i \in 1 .. Len(back) PROVE back[i] = Held("packed")[c + Len(front) + i]
  <2>1. n + i \in 1 .. x /\ c + (n + i) = c + Len(front) + i
    BY <1>1, <1>2
  <2> QED BY <1>2, <1>3, <2>1
<1>8. ReadTo(Held("packed"), c)'
  BY <1>4, <1>5, <1>6, <1>7 DEF ReadTo
<1> QED BY <1>4, <1>8 DEF SoFar

LEMMA FeedIsRight ==
  ASSUME IInv, Feed
  PROVE  IInv'
<1> USE DEF IInv
<1> DEFINE n == Smaller(CHUNK, Len(rest))
           front == SubSeq(rest, 1, n)
           back == SubSeq(rest, n + 1, Len(rest))
<1>1. /\ UNCHANGED <<blob, p, call, kept, written, calls, intact>> /\ pc = "feed"
      /\ Unpacking /\ Unpacking' /\ p["output"] \notin {p["packed"], p["data"]}
      /\ strm.mode = "going"
  BY DEF Feed, LoopsApart, NeverAhead, Unpacking
<1>2. /\ Held("data")' = Held("data") /\ Held("packed")' = Held("packed")
      /\ Held("output")' = Held("output")
  BY <1>1 DEF Held
<1>3. rest \in Seq(Bytes) /\ Len(rest) \in Nat /\ strm \in Stream /\ CHUNK \in Nat
  BY ChunkAssumption DEF PackedOK
<1>4. CASE pc' = "thrown" /\ UNCHANGED <<rest, strm>>
  <2>1. PackedOK' /\ LoopsApart' /\ PartsOfData'
    BY <1>1, <1>4 DEF PackedOK, LoopsApart, PartsOfData
  <2>2. SourcesChecked'
    BY <1>1, <1>2, <1>4 DEF SourcesChecked, DataIsRaw, Checked
  <2>3. NeverAhead' /\ OutputIsPrefix' /\ WholeOrSkipped'
    BY <1>1, <1>2, <1>4 DEF NeverAhead, GivenBack, OutputIsPrefix, WholeOrSkipped
  <2>4. BytesRead'
    BY <1>1, <1>2, <1>4 DEF BytesRead, AstrayFrom
  <2> QED BY <2>1, <2>2, <2>3, <2>4 DEF GivenBack
<1>5. CASE strm' = [strm EXCEPT !.in = front] /\ rest' = back /\ pc' = "inflate"
  <2>1. n \in 0 .. Len(rest)
    BY <1>3 DEF Smaller
  <2>2. /\ front \in Seq(Bytes) /\ back \in Seq(Bytes)
        /\ Checked(rest) => Checked(front) /\ Checked(back)
    BY <1>3, <2>1, Cut
  <2> HIDE DEF front, back
  <2>3. /\ strm' \in Stream /\ strm'.in = front /\ strm'.far = strm.far /\ strm'.near = strm.near
        /\ strm'.mode = strm.mode /\ strm'.headed = strm.headed /\ strm'.astray = strm.astray
    BY <1>3, <1>5, <2>2 DEF Stream
  <2>4. PackedOK' /\ LoopsApart' /\ PartsOfData'
    BY <1>1, <1>5, <2>2, <2>3 DEF PackedOK, LoopsApart, PartsOfData
  <2>5. SourcesChecked'
    BY <1>1, <1>2, <1>5, <2>2, <2>3 DEF SourcesChecked, DataIsRaw, Checked
  <2>6. NeverAhead' /\ OutputIsPrefix' /\ WholeOrSkipped'
    BY <1>1, <1>2, <1>5, <2>3 DEF NeverAhead, GivenBack, OutputIsPrefix, WholeOrSkipped
  <2>7. ASSUME strm.astray PROVE BytesRead'
    <3>1. PICK k \in DOMAIN Held("packed") : AstrayFrom(Held("packed"), k)
      BY <1>1, <2>7 DEF BytesRead
    <3>2. AstrayFrom(Held("packed"), k)'
      BY <1>1, <1>2, <2>3, <3>1 DEF AstrayFrom
    <3> QED BY <1>2, <2>3, <2>7, <3>2 DEF BytesRead
  <2>8. ASSUME ~strm.astray PROVE BytesRead'
    <3>1. PICK c \in Nat : SoFar(Held("packed"), c)
      BY <1>1, <2>8 DEF BytesRead
    <3>2. strm.in = << >>
      BY <1>1 DEF NeverAhead
    <3>3. SoFar(Held("packed"), c)'
      <4>1. /\ strm' = [strm EXCEPT !.in = SubSeq(rest, 1, n)]
            /\ rest' = SubSeq(rest, n + 1, Len(rest))
        BY <1>5 DEF front, back
      <4> HIDE DEF n
      <4> QED BY <1>2, <2>1, <3>1, <3>2, <4>1, FeedReadsOn
    <3> QED BY <2>3, <2>8, <3>3 DEF BytesRead
  <2> QED BY <2>4, <2>5, <2>6, <2>7, <2>8 DEF GivenBack
<1> QED BY <1>4, <1>5 DEF Feed

LEMMA InflateFailsIsRight ==
  ASSUME IInv, InflateFails
  PROVE  IInv'
<1> USE DEF IInv
<1>1. /\ UNCHANGED <<blob, p, call, rest, kept, written, calls, intact>>
      /\ pc = "inflate" /\ pc' = "thrown" /\ strm' = [strm EXCEPT !.mode = "lost"]
      /\ Unpacking
  BY DEF InflateFails, LoopsApart
<1>2. /\ strm \in Stream /\ strm' \in Stream /\ strm'.in = strm.in /\ strm'.far = strm.far
      /\ strm'.near = strm.near /\ strm'.mode = "lost" /\ strm'.astray = strm.astray
  BY <1>1 DEF PackedOK, Stream
<1>3. PackedOK' /\ LoopsApart' /\ PartsOfData'
  BY <1>1, <1>2 DEF PackedOK, LoopsApart, PartsOfData
<1>4. SourcesChecked'
  BY <1>1, <1>2 DEF SourcesChecked, DataIsRaw, Checked, Held, Unpacking
<1>5. NeverAhead' /\ OutputIsPrefix' /\ WholeOrSkipped'
  BY <1>1, <1>2 DEF NeverAhead, GivenBack, OutputIsPrefix, WholeOrSkipped, Held, Unpacking
<1>6. BytesRead'
  BY <1>1, <1>2 DEF BytesRead, AstrayFrom, Held, Unpacking
<1> QED BY <1>3, <1>4, <1>5, <1>6 DEF GivenBack

\* One call of inflate(): how far it gets, and that a stream it finds to end there told so.
LEMMA InflatedReaches ==
  ASSUME PackedOK, Checked(strm.in), Unpacking,
         ~strm.headed => strm.far = 0,
         strm.mode \in {"going", "ended"},
         strm.mode = "ended" => strm.far \in written,
         NEW n \in 0 .. Len(strm.in), NEW mode \in {"going", "ended", "unchecked", "bad"},
         Inflated(n, mode),
         NEW far, far = IF n = 0 \/ mode = "going" THEN Known(n) ELSE Known(n - 1)
  PROVE  /\ far \in Nat /\ strm.far <= far
         /\ n = 0 => far = strm.far
         /\ mode = "ended" => far \in written
         /\ mode = "unchecked" => far <= strm.near + CHUNK
         /\ mode = "going" => strm.mode = "going" /\ far = Known(n) /\ \A i \in 1 .. n : GoesOn(i)
         /\ mode = "going" /\ n < Len(strm.in) => far > Room
<1>1. /\ strm.in \in Seq(Bytes) /\ Len(strm.in) \in Nat /\ strm.far \in Nat /\ strm.near \in Nat
      /\ call.type \in Window /\ n \in Nat
  BY DEF PackedOK, Stream, Unpacking
<1>2. \A i \in 1 .. n : strm.in[i] \in Bytes /\ i \in DOMAIN strm.in
  BY <1>1
<1>3. Known(0) = strm.far
  BY DEF Known
<1>4. ASSUME NEW i \in 1 .. n, GoesOn(i)
      PROVE  Known(i) \in Nat /\ strm.far <= Known(i)
  <2>1. Known(i) = strm.in[i].upto /\ Known(i) \in Nat
    BY <1>2 DEF Known, Bytes
  <2>2. CASE i = 1 /\ ~strm.headed
    BY <1>4, <2>1, <2>2 DEF GoesOn, Byte
  <2>3. CASE ~(i = 1 /\ ~strm.headed)
    <3>1. 0 \in 0 .. i - 1
      OBVIOUS
    <3>2. Known(0) <= strm.in[i].upto
      BY <1>4, <2>3, <3>1 DEF GoesOn
    <3> QED BY <1>3, <2>1, <3>2
  <2> QED BY <2>2, <2>3
<1>5. CASE n = 0
  <2>1. far = strm.far
    BY <1>3, <1>5
  <2>2. mode = strm.mode /\ (n < Len(strm.in) /\ mode = "going" => Known(n) > Room)
    BY <1>5 DEF Inflated
  <2> QED BY <1>1, <1>5, <2>1, <2>2
<1>6. CASE n > 0 /\ GoesOn(n)
  <2>1. CASE mode = "going"
    <3>1. far = Known(n) /\ strm.mode = "going" /\ (n < Len(strm.in) => Known(n) > Room)
      BY <1>6, <2>1 DEF Inflated
    <3>2. \A i \in 1 .. n : GoesOn(i)
      BY <1>1, <1>6 DEF Inflated
    <3> QED BY <1>4, <1>6, <2>1, <3>1, <3>2
  <2>2. CASE mode # "going"
    BY <1>6, <2>2 DEF Inflated
  <2> QED BY <2>1, <2>2
<1>7. CASE n > 0 /\ ~GoesOn(n)
  <2>1. mode \in Verdicts(n) /\ mode # "going"
    <3>1. "going" \notin Verdicts(n)
      BY DEF Verdicts
    <3> QED BY <1>7, <3>1 DEF Inflated
  <2>2. far = Known(n - 1) /\ n # 0
    BY <1>7, <2>1
  <2>3. n - 1 = 0 \/ (n - 1 \in 1 .. n /\ GoesOn(n - 1))
    BY <1>1, <1>7 DEF Inflated
  <2>4. far \in Nat /\ strm.far <= far
    BY <1>1, <1>3, <1>4, <2>2, <2>3
  <2>5. mode = "ended" => far \in written
    <3> SUFFICES ASSUME mode = "ended" PROVE far \in written
      OBVIOUS
    <3>1. strm.in[n] = Byte("check", Known(n - 1))
      BY <2>1 DEF Verdicts
    <3>2. n \in DOMAIN strm.in
      BY <1>1, <1>2, <1>7
    <3> QED BY <2>2, <3>1, <3>2 DEF Checked, Byte
  <2>6. mode = "unchecked" => far <= strm.near + CHUNK
    <3>1. n - 1 \in 0 .. n - 1
      BY <1>1, <1>7
    <3> QED BY <2>2, <3>1 DEF Inflated, Room
  <2> HIDE DEF Known
  <2> QED BY <2>1, <2>2, <2>4, <2>5, <2>6
<1> QED BY <1>1, <1>5, <1>6, <1>7

\* What inflate() goes on with was not altered, and reaches as far as the bytes it has read.
LEMMA KnownType ==
  ASSUME PackedOK, NEW i \in 0 .. Len(strm.in)
  PROVE  Known(i) \in Nat
<1>1. strm.in \in Seq(Bytes) /\ strm.far \in Nat /\ Len(strm.in) \in Nat
  BY DEF PackedOK, Stream
<1>2. i # 0 => strm.in[i] \in Bytes
  BY <1>1
<1> QED BY <1>1, <1>2 DEF Known, Bytes

LEMMA KnownBeyond ==
  ASSUME PackedOK, ~strm.headed => strm.far = 0, NEW i \in 1 .. Len(strm.in), GoesOn(i)
  PROVE  strm.far <= Known(i)
<1>1. Known(i) \in Nat /\ strm.far \in Nat
  <2>1. i \in 0 .. Len(strm.in)
    BY DEF PackedOK, Stream
  <2> QED BY <2>1, KnownType DEF PackedOK, Stream
<1>2. Known(i) = strm.in[i].upto /\ Known(0) = strm.far
  BY DEF Known
<1>3. CASE i = 1 /\ ~strm.headed
  BY <1>1, <1>3
<1>4. CASE ~(i = 1 /\ ~strm.headed)
  <2>1. 0 \in 0 .. i - 1
    OBVIOUS
  <2>2. Known(0) <= strm.in[i].upto
    BY <1>4, <2>1 DEF GoesOn
  <2> QED BY <1>2, <2>2
<1> QED BY <1>3, <1>4

LEMMA ReachedType ==
  ASSUME PackedOK, NEW k \in DOMAIN Held("packed")
  PROVE  Reached(Held("packed"), k - 1) \in Nat
<1>1. Held("packed") \in Seq(Bytes)
  BY HeldType DEF Holder
<1>2. CASE k - 1 = 0
  BY <1>2 DEF Reached
<1>3. CASE k - 1 # 0
  <2>1. k - 1 \in 1 .. Len(Held("packed"))
    BY <1>1, <1>3
  <2>2. Held("packed")[k - 1] \in Bytes
    BY <1>1, <2>1
  <2> QED BY <1>3, <2>2 DEF Reached, Bytes
<1> QED BY <1>2, <1>3

LEMMA KnownReached ==
  ASSUME PackedOK, NEW c \in Nat, SoFar(Held("packed"), c), NEW i \in 0 .. Len(strm.in)
  PROVE  /\ Known(i) = Reached(Held("packed"), c + i)
         /\ i > 0 => strm.in[i] = Held("packed")[c + i] /\ c + i \in DOMAIN Held("packed")
<1>1. /\ strm.in \in Seq(Bytes) /\ Len(strm.in) \in Nat /\ Len(rest) \in Nat
      /\ Held("packed") \in Seq(Bytes)
  BY HeldType DEF PackedOK, Stream, Holder
<1>2. /\ strm.far = Reached(Held("packed"), c)
      /\ c + Len(strm.in) + Len(rest) = Len(Held("packed"))
      /\ \A k \in 1 .. Len(strm.in) : strm.in[k] = Held("packed")[c + k]
  BY DEF SoFar, ReadTo
<1>3. CASE i = 0
  BY <1>2, <1>3 DEF Known
<1>4. CASE i # 0
  <2>1. i \in 1 .. Len(strm.in) /\ c + i # 0 /\ c + i \in 1 .. Len(Held("packed"))
    BY <1>1, <1>2, <1>4
  <2> QED BY <1>1, <1>2, <2>1 DEF Known, Reached
<1> QED BY <1>3, <1>4

LEMMA GoesOnUnaltered ==
  ASSUME call.type \in Window, NEW i, GoesOn(i)
  PROVE  strm.in[i] # Junk
BY DEF GoesOn, Junk, Byte, Window

LEMMA InflateReadsOn ==
  ASSUME PackedOK, call.type \in Window, NEW c \in Nat, SoFar(Held("packed"), c),
         NEW n \in 0 .. Len(strm.in), \A i \in 1 .. n : GoesOn(i),
         Held("packed")' = Held("packed"), rest' = rest,
         strm'.in = SubSeq(strm.in, n + 1, Len(strm.in)), strm'.far = Known(n),
         strm'.headed = (strm.headed \/ n > 0)
  PROVE  SoFar(Held("packed"), c + n)'
<1> DEFINE left == SubSeq(strm.in, n + 1, Len(strm.in))
           x == Len(strm.in)
           y == Len(rest)
<1>1. strm.in \in Seq(Bytes) /\ x \in Nat /\ y \in Nat /\ n \in Nat /\ n <= x
  BY DEF PackedOK, Stream
<1>2. Len(left) = x - n /\ \A i \in 1 .. x - n : left[i] = strm.in[n + i]
  BY <1>1
<1>3. /\ c + x + y = Len(Held("packed"))
      /\ \A i \in 1 .. x : strm.in[i] = Held("packed")[c + i]
      /\ \A i \in 1 .. y : rest[i] = Held("packed")[c + x + i]
      /\ \A i \in 1 .. c : Held("packed")[i] # Junk
      /\ strm.headed <=> c > 0
  BY DEF SoFar, ReadTo
<1>4. strm'.in = left
  OBVIOUS
<1>5. Known(n) = Reached(Held("packed"), c + n)
  BY KnownReached
<1> HIDE DEF left, x, y
<1>6. (c + n) + Len(left) + y = Len(Held("packed"))
  <2>1. (c + n) + (x - n) + y = c + x + y
    BY <1>1
  <2> QED BY <1>2, <1>3, <2>1
<1>7. ASSUME NEW i \in 1 .. Len(left) PROVE left[i] = Held("packed")[(c + n) + i]
  <2>1. n + i \in 1 .. x /\ c + (n + i) = (c + n) + i
    BY <1>1, <1>2
  <2> QED BY <1>2, <1>3, <2>1
<1>8. ASSUME NEW i \in 1 .. y PROVE rest[i] = Held("packed")[(c + n) + Len(left) + i]
  <2>1. (c + n) + Len(left) + i = c + x + i
    BY <1>1, <1>2
  <2> QED BY <1>3, <2>1
<1>9. ReadTo(Held("packed"), c + n)'
  BY <1>4, <1>6, <1>7, <1>8 DEF ReadTo, y
<1>10. ASSUME NEW i \in 1 .. c + n PROVE Held("packed")[i] # Junk
  <2>1. CASE i <= c
    BY <1>3, <2>1
  <2>2. CASE i > c
    <3>1. i - c \in 1 .. n /\ i - c \in 1 .. x /\ c + (i - c) = i
      BY <1>1, <2>2
    <3>2. strm.in[i - c] # Junk
      BY <3>1, GoesOnUnaltered
    <3> QED BY <1>3, <3>1, <3>2
  <2> QED BY <1>1, <2>1, <2>2
<1>11. strm'.headed <=> c + n > 0
  <2>1. c + n > 0 <=> c > 0 \/ n > 0
    BY <1>1
  <2> QED BY <1>3, <2>1
<1> QED BY <1>5, <1>9, <1>10, <1>11 DEF SoFar

\* The first altered byte is met where the document is known as far as the bytes before it tell.
LEMMA StrayedFrom ==
  ASSUME PackedOK, call.type \in Window, ~strm.headed => strm.far = 0, ~strm.astray,
         NEW c \in Nat, SoFar(Held("packed"), c),
         NEW n \in 0 .. Len(strm.in), NEW sound, NEW far, NEW mode, Strayed(n, sound, far, mode)
  PROVE  /\ sound \in Nat /\ strm.far <= sound /\ sound <= Room
         /\ \E k \in DOMAIN Held("packed") :
               FirstAltered(Held("packed"), k) /\ sound = Reached(Held("packed"), k - 1)
<1>1. PICK i \in 1 .. n :
         /\ strm.in[i] = Junk
         /\ \A j \in 1 .. i - 1 : GoesOn(j)
         /\ \A j \in 0 .. i - 1 : Known(j) <= Room
         /\ sound = Known(i - 1)
  BY DEF Strayed
<1>2. Len(strm.in) \in Nat /\ i \in 1 .. Len(strm.in) /\ i \in 0 .. Len(strm.in) /\ i > 0
      /\ i - 1 \in 0 .. Len(strm.in) /\ i - 1 \in 0 .. i - 1
  BY DEF PackedOK, Stream
<1>3. sound \in Nat /\ strm.far <= sound /\ sound <= Room
  <2>1. sound \in Nat /\ sound <= Room
    BY <1>1, <1>2, KnownType
  <2>2. CASE i - 1 = 0
    <3>1. sound = strm.far
      BY <1>1, <2>2 DEF Known
    <3> QED BY <2>1, <3>1
  <2>3. CASE i - 1 # 0
    <3>1. i - 1 \in 1 .. Len(strm.in) /\ i - 1 \in 1 .. i - 1
      BY <1>2, <2>3
    <3>2. GoesOn(i - 1)
      BY <1>1, <3>1
    <3> QED BY <1>1, <2>1, <3>1, <3>2, KnownBeyond
  <2> QED BY <2>1, <2>2, <2>3
<1>4. c + i \in DOMAIN Held("packed") /\ Held("packed")[c + i] = Junk
  BY <1>1, <1>2, KnownReached
<1>5. sound = Reached(Held("packed"), (c + i) - 1)
  <2>1. c + (i - 1) = (c + i) - 1
    OBVIOUS
  <2> QED BY <1>1, <1>2, <2>1, KnownReached
<1>6. ASSUME NEW j \in 1 .. (c + i) - 1 PROVE Held("packed")[j] # Junk
  <2>1. CASE j <= c
    BY <2>1 DEF SoFar
  <2>2. CASE j > c
    <3>1. j - c \in 1 .. i - 1 /\ j - c \in 0 .. Len(strm.in) /\ j - c > 0 /\ c + (j - c) = j
      BY <1>2, <2>2
    <3>2. strm.in[j - c] # Junk
      BY <1>1, <3>1, GoesOnUnaltered
    <3>3. strm.in[j - c] = Held("packed")[j]
      BY <3>1, KnownReached
    <3> QED BY <3>2, <3>3
  <2> QED BY <2>1, <2>2
<1>7. FirstAltered(Held("packed"), c + i)
  BY <1>4, <1>6 DEF FirstAltered
<1> QED BY <1>3, <1>4, <1>5, <1>7

\* How a turn of the inner loop ends: without adding anything, ...
LEMMA GiveUpIsRight ==
  ASSUME IInv, pc = "inflate", UNCHANGED <<p, call, rest, kept, written, calls, intact>>,
         NEW far \in Nat, strm.far <= far, NEW astray \in BOOLEAN, NEW mode,
         GiveUp(far, astray, mode), mode = "unchecked" => far <= Room, strm.astray => astray,
         astray /\ ~strm.astray =>
            \E k \in DOMAIN Held("packed") :
               FirstAltered(Held("packed"), k) /\ strm.near <= Reached(Held("packed"), k - 1)
               /\ Reached(Held("packed"), k - 1) \in Nat
  PROVE  IInv'
<1> USE DEF IInv
<1>1. /\ Unpacking /\ Unpacking' /\ p["output"] \notin {p["packed"], p["data"]}
  BY DEF LoopsApart, Unpacking
<1>2. /\ strm \in Stream /\ strm.near \in Nat /\ strm.near <= strm.far /\ strm.far \in Nat /\ CHUNK \in Nat
  BY <1>1, ChunkAssumption DEF PackedOK, Stream, NeverAhead
<1>3. /\ blob' = blob /\ pc' \in {"returned", "thrown"} /\ mode \in {"unchecked", "bad"}
      /\ pc' = "returned" => mode = "unchecked" /\ call.skipCRC
      /\ strm' = [strm EXCEPT !.mode = mode, !.far = far, !.astray = astray]
  BY DEF GiveUp
<1>4. /\ strm' \in Stream /\ strm'.in = strm.in /\ strm'.far = far /\ strm'.near = strm.near
      /\ strm'.mode = mode /\ strm'.astray = astray
  BY <1>2, <1>3 DEF Stream
<1>5. PackedOK' /\ LoopsApart' /\ PartsOfData'
  BY <1>1, <1>3, <1>4 DEF PackedOK, LoopsApart, PartsOfData
<1>6. SourcesChecked'
  BY <1>1, <1>3, <1>4 DEF SourcesChecked, DataIsRaw, Checked, Held
<1>7. NeverAhead'
  BY <1>1, <1>2, <1>3, <1>4 DEF NeverAhead
<1>8. WholeOrSkipped'
  BY <1>1, <1>2, <1>3, <1>4 DEF WholeOrSkipped, Room
<1>9. OutputIsPrefix' /\ BytesRead'
  <2>1. Held("packed")' = Held("packed") /\ Held("output")' = Held("output") /\ kept' = kept
    BY <1>3 DEF Held
  <2>2. CASE ~astray
    BY <1>1, <1>3, <1>4, <2>1, <2>2 DEF GivenBack, OutputIsPrefix, BytesRead
  <2>3. CASE astray
    <3>1. \E k \in DOMAIN Held("packed") :
             /\ FirstAltered(Held("packed"), k)
             /\ Held("output") = kept \o Decoded(0, strm.near, Reached(Held("packed"), k - 1))
      <4>1. CASE strm.astray
        BY <1>1, <4>1 DEF BytesRead, AstrayFrom
      <4>2. CASE ~strm.astray
        <5>1. PICK k \in DOMAIN Held("packed") :
                 FirstAltered(Held("packed"), k) /\ strm.near <= Reached(Held("packed"), k - 1)
                 /\ Reached(Held("packed"), k - 1) \in Nat
          BY <2>3, <4>2
        <5>2. Decoded(0, strm.near, Reached(Held("packed"), k - 1)) = Document(strm.near)
          BY <1>2, <5>1, DecodedIsDocument
        <5>3. Held("output") = kept \o Document(strm.near)
          BY <1>1, <4>2 DEF GivenBack, OutputIsPrefix
        <5> QED BY <5>1, <5>2, <5>3
      <4> QED BY <4>1, <4>2
    <3>2. PICK k \in DOMAIN Held("packed") :
             /\ FirstAltered(Held("packed"), k)
             /\ Held("output") = kept \o Decoded(0, strm.near, Reached(Held("packed"), k - 1))
      BY <3>1
    <3>3. AstrayFrom(Held("packed"), k)'
      BY <1>3, <1>4, <2>1, <3>2 DEF AstrayFrom
    <3> QED BY <1>4, <2>1, <2>3, <3>2, <3>3 DEF OutputIsPrefix, BytesRead
  <2> QED BY <2>2, <2>3
<1> QED BY <1>5, <1>6, <1>7, <1>8, <1>9 DEF GivenBack

\* ... or with what inflate() put out added.
LEMMA GiveOutIsRight ==
  ASSUME IInv, pc = "inflate", UNCHANGED <<p, call, rest, kept, written, calls, intact>>,
         NEW n \in 0 .. Len(strm.in), NEW far \in Nat, strm.far <= far, n = 0 => far = strm.far,
         NEW sound \in Nat, NEW astray \in BOOLEAN, NEW mode, GiveOut(n, far, sound, astray, mode),
         mode = "ended" => far \in written /\ ~astray,
         mode = "going" /\ n < Len(strm.in) => far > Room,
         strm.astray => astray /\ sound = strm.near,
         ~astray => sound = far,
         ~astray /\ mode = "going" => strm.mode = "going" /\ far = Known(n) /\ \A i \in 1 .. n : GoesOn(i),
         astray /\ ~strm.astray =>
            /\ sound <= Room /\ strm.near <= sound /\ sound <= far
            /\ \E k \in DOMAIN Held("packed") :
                  FirstAltered(Held("packed"), k) /\ sound = Reached(Held("packed"), k - 1)
  PROVE  IInv'
<1> USE DEF IInv
<1> DEFINE near == Smaller(far, Room)
           left == SubSeq(strm.in, n + 1, Len(strm.in))
           piece == Decoded(strm.near, near, sound)
<1>1. Unpacking /\ Unpacking' /\ call.type \in Window /\ p["output"] \notin {p["packed"], p["data"]}
  BY DEF LoopsApart, Unpacking
<1>2. /\ strm \in Stream /\ strm.in \in Seq(Bytes) /\ strm.far \in Nat /\ strm.near \in Nat
      /\ Len(strm.in) \in Nat /\ CHUNK \in Nat /\ CHUNK > 0 /\ strm.near <= strm.far
      /\ Room \in Nat /\ strm.near <= Room
  BY <1>1, ChunkAssumption DEF PackedOK, Stream, NeverAhead, Room
<1>3. /\ near \in Nat /\ strm.near <= near /\ near <= far
      /\ near # Room => near = far /\ far <= Room
      /\ \A s \in Nat : s <= Room /\ s <= far => s <= near
  BY <1>2 DEF Smaller
<1>4. left \in Seq(Bytes) /\ Checked(left) /\ Len(left) = Len(strm.in) - n
  <2>1. Checked(strm.in)
    BY <1>1 DEF SourcesChecked
  <2> QED BY <1>2, <2>1, Cut
<1> HIDE DEF left, near
<1>5. /\ mode \in {"going", "ended"} /\ Append_("output", piece)
      /\ strm' = [strm EXCEPT !.in = left, !.far = far, !.near = near, !.headed = @ \/ n > 0,
                              !.astray = astray, !.mode = mode]
      /\ pc' = IF near = Room THEN "inflate" ELSE IF mode = "ended" THEN "returned" ELSE "feed"
  BY DEF GiveOut, left, near
<1>6. /\ strm' \in Stream /\ strm'.in = left /\ strm'.far = far /\ strm'.near = near
      /\ strm'.headed = (strm.headed \/ n > 0) /\ strm'.astray = astray /\ strm'.mode = mode
  BY <1>2, <1>3, <1>4, <1>5 DEF Stream
<1>7. piece \in Seq(Bytes) /\ Held("output") \in Seq(Bytes)
  BY <1>2, <1>3, DecodedType, HeldType DEF Holder
<1>8. /\ blob' \in [Blob -> Seq(Bytes)] /\ Held("output")' = Held("output") \o piece
      /\ Held("data")' = Held("data") /\ Held("packed")' = Held("packed")
  <2>1. Held("output") \o piece \in Seq(Bytes)
    BY <1>7
  <2>2. Overwrite("output", Held("output") \o piece)
    BY <1>5 DEF Append_
  <2> HIDE DEF piece
  <2> QED BY <1>1, <2>1, <2>2, OverwriteHolds DEF Holder
<1>9. PackedOK' /\ LoopsApart' /\ PartsOfData'
  BY <1>1, <1>5, <1>6, <1>8 DEF PackedOK, LoopsApart, PartsOfData
<1>10. SourcesChecked'
  BY <1>1, <1>4, <1>6, <1>8 DEF SourcesChecked, DataIsRaw, Checked
<1>11. NeverAhead'
  <2>1. ~strm'.headed => far = 0
    <3>1. ~strm'.headed => ~strm.headed /\ ~(n > 0)
      BY <1>6
    <3>2. ~(n > 0) => n = 0
      OBVIOUS
    <3> QED BY <1>1, <3>1, <3>2 DEF NeverAhead
  <2>2. pc' = "feed" => mode = "going" /\ left = << >>
    <3> SUFFICES ASSUME pc' = "feed" PROVE mode = "going" /\ left = << >>
      OBVIOUS
    <3>1. mode = "going" /\ near # Room
      BY <1>5
    <3>2. far <= Room
      BY <1>3, <3>1
    <3>3. ~(n < Len(strm.in))
      BY <1>2, <3>1, <3>2
    <3>4. Len(left) = 0
      BY <1>2, <1>4, <3>3
    <3> QED BY <1>4, <3>1, <3>4
  <2>3. written' = written /\ pc' \in {"inflate", "returned", "feed"}
    BY <1>5
  <2> QED BY <1>1, <1>3, <1>5, <1>6, <2>1, <2>2, <2>3 DEF NeverAhead
<1>12. WholeOrSkipped'
  <2> SUFFICES ASSUME pc' = "returned"
               PROVE  mode = "ended" /\ ~astray /\ near = far /\ far \in written
    BY <1>1, <1>6 DEF WholeOrSkipped
  <2>1. mode = "ended" /\ near # Room
    BY <1>5
  <2> QED BY <1>3, <2>1
<1>13. ASSUME NEW s \in Nat, Held("output") = kept \o Decoded(0, strm.near, s),
              s = sound \/ (s <= strm.near /\ sound <= strm.near)
       PROVE  Held("output")' = kept \o Decoded(0, near, s)
  <2>1. Decoded(0, strm.near, s) \o piece = Decoded(0, near, s)
    <3>1. strm.near \in Nat /\ near \in Nat /\ strm.near <= near
      BY <1>2, <1>3
    <3>2. Fits(strm.near, near, s, sound)
      BY <1>13, <3>1, DecodedFits
    <3> QED BY <3>2 DEF Fits
  <2>2. kept \in Seq(Bytes) /\ Decoded(0, strm.near, s) \in Seq(Bytes)
    <3>1. strm.near \in Nat /\ 0 \in Nat /\ 0 <= strm.near
      BY <1>2
    <3>2. Decoded(0, strm.near, s) \in Seq(Bytes)
      BY <3>1, DecodedType, Zenon
    <3> QED BY <3>2 DEF PackedOK
  <2>3. (kept \o Decoded(0, strm.near, s)) \o piece = kept \o (Decoded(0, strm.near, s) \o piece)
    <3> DEFINE a == Decoded(0, strm.near, s)
    <3>1. kept \in Seq(Bytes) /\ a \in Seq(Bytes) /\ piece \in Seq(Bytes)
      BY <1>7, <2>2
    <3> HIDE DEF piece, a
    <3>2. (kept \o a) \o piece = kept \o (a \o piece)
      BY <3>1, ConcatAssociative
    <3> QED BY <3>2 DEF a
  <2> HIDE DEF piece
  <2> QED BY <1>8, <1>13, <2>1, <2>3
<1>14. CASE ~astray
  <2>1. sound = far /\ ~strm.astray
    BY <1>14
  <2>2. Held("output") = kept \o Decoded(0, strm.near, far)
    <3>1. Held("output") = kept \o Document(strm.near)
      BY <1>1, <2>1 DEF GivenBack, OutputIsPrefix
    <3>2. strm.near <= far
      BY <1>2
    <3>3. Decoded(0, strm.near, far) = Document(strm.near)
      BY <1>2, <3>2, DecodedIsDocument
    <3> QED BY <3>1, <3>3
  <2>3. Held("output")' = kept \o Document(near)
    <3>1. Held("output")' = kept \o Decoded(0, near, far)
      BY <1>13, <2>1, <2>2
    <3>2. Decoded(0, near, far) = Document(near)
      BY <1>3, DecodedIsDocument
    <3> QED BY <3>1, <3>2
  <2>4. OutputIsPrefix'
    BY <1>1, <1>6, <1>14, <2>3 DEF OutputIsPrefix
  <2>5. BytesRead'
    <3> SUFFICES ASSUME mode = "going" PROVE \E c \in Nat : SoFar(Held("packed"), c)'
      BY <1>6, <1>14 DEF BytesRead
    <3>1. PICK c \in Nat : SoFar(Held("packed"), c)
      BY <1>1, <1>14, <2>1 DEF BytesRead
    <3>2. SoFar(Held("packed"), c + n)'
      BY <1>1, <1>6, <1>8, <1>14, <3>1, InflateReadsOn DEF left
    <3>3. c + n \in Nat
      BY <1>2
    <3> QED BY <3>2, <3>3
  <2> QED BY <1>9, <1>10, <1>11, <1>12, <2>4, <2>5 DEF GivenBack
<1>15. CASE astray
  <2>1. \E k \in DOMAIN Held("packed") :
           /\ FirstAltered(Held("packed"), k) /\ Reached(Held("packed"), k - 1) <= near
           /\ Held("output")' = kept \o Decoded(0, near, Reached(Held("packed"), k - 1))
    <3>1. CASE strm.astray
      <4>1. PICK k \in DOMAIN Held("packed") : AstrayFrom(Held("packed"), k)
        BY <1>1, <3>1 DEF BytesRead
      <4> DEFINE s == Reached(Held("packed"), k - 1)
      <4>2. /\ FirstAltered(Held("packed"), k) /\ s <= strm.near
            /\ Held("output") = kept \o Decoded(0, strm.near, s)
        BY <4>1 DEF AstrayFrom
      <4>3. s \in Nat
        BY ReachedType
      <4> HIDE DEF s
      <4>4. s <= strm.near /\ sound <= strm.near
        BY <1>2, <3>1, <4>2
      <4>5. Held("output")' = kept \o Decoded(0, near, s)
        BY <1>13, <4>2, <4>3, <4>4
      <4>6. s <= near
        BY <1>2, <1>3, <4>2, <4>3
      <4> QED BY <4>2, <4>5, <4>6 DEF s
    <3>2. CASE ~strm.astray
      <4>1. PICK k \in DOMAIN Held("packed") :
               FirstAltered(Held("packed"), k) /\ sound = Reached(Held("packed"), k - 1)
        BY <1>15, <3>2
      <4>2. sound <= Room /\ strm.near <= sound /\ sound <= far
        BY <1>15, <3>2
      <4>3. Held("output") = kept \o Decoded(0, strm.near, sound)
        <5>1. Held("output") = kept \o Document(strm.near)
          BY <1>1, <3>2 DEF GivenBack, OutputIsPrefix
        <5>2. Decoded(0, strm.near, sound) = Document(strm.near)
          BY <1>2, <4>2, DecodedIsDocument
        <5> QED BY <5>1, <5>2
      <4>4. Held("output")' = kept \o Decoded(0, near, sound)
        BY <1>13, <4>3
      <4>5. sound <= near
        BY <1>3, <4>2
      <4> QED BY <4>1, <4>4, <4>5
    <3> QED BY <3>1, <3>2
  <2>2. PICK k \in DOMAIN Held("packed") :
           /\ FirstAltered(Held("packed"), k) /\ Reached(Held("packed"), k - 1) <= near
           /\ Held("output")' = kept \o Decoded(0, near, Reached(Held("packed"), k - 1))
    BY <2>1
  <2>3. kept' = kept
    OBVIOUS
  <2>4. AstrayFrom(Held("packed"), k)'
    BY <1>6, <1>8, <2>2, <2>3 DEF AstrayFrom
  <2>5. OutputIsPrefix' /\ BytesRead'
    BY <1>6, <1>8, <1>15, <2>2, <2>3, <2>4 DEF OutputIsPrefix, BytesRead
  <2> QED BY <1>9, <1>10, <1>11, <1>12, <2>5 DEF GivenBack
<1> QED BY <1>14, <1>15

LEMMA InflateIsRight ==
  ASSUME IInv, Inflate
  PROVE  IInv'
<1>1. /\ UNCHANGED <<p, call, rest, kept, written, calls, intact>> /\ pc = "inflate"
      /\ Unpacking /\ call.type \in Window /\ strm.mode \in {"going", "ended"}
  BY DEF Inflate, IInv, LoopsApart, NeverAhead, Unpacking
<1>2. /\ strm \in Stream /\ strm.far \in Nat /\ strm.near \in Nat /\ strm.near <= strm.far
      /\ Len(strm.in) \in Nat /\ PackedOK
  BY <1>1 DEF IInv, PackedOK, Stream, NeverAhead
<1>3. PICK n \in 0 .. Len(strm.in), mode \in {"going", "ended", "unchecked", "bad"} :
         \/ LET far == IF n = 0 \/ mode = "going" THEN Known(n) ELSE Known(n - 1)
            IN  Inflated(n, mode) /\ (GiveUp(far, FALSE, mode) \/ GiveOut(n, far, far, FALSE, mode))
         \/ \E sound, far \in 0 .. Room + MaxStray :
               /\ Strayed(n, sound, far, mode)
               /\ GiveUp(far, TRUE, mode) \/ GiveOut(n, far, sound, TRUE, mode)
  BY DEF Inflate
<1> DEFINE far == IF n = 0 \/ mode = "going" THEN Known(n) ELSE Known(n - 1)
<1>4. CASE Inflated(n, mode) /\ (GiveUp(far, FALSE, mode) \/ GiveOut(n, far, far, FALSE, mode))
  <2>1. /\ Checked(strm.in)
        /\ ~strm.headed => strm.far = 0
        /\ strm.mode = "ended" => strm.far \in written
    BY <1>1 DEF IInv, SourcesChecked, NeverAhead
  <2>2. /\ far \in Nat /\ strm.far <= far
        /\ n = 0 => far = strm.far
        /\ mode = "ended" => far \in written
        /\ mode = "unchecked" => far <= strm.near + CHUNK
        /\ mode = "going" => strm.mode = "going" /\ far = Known(n) /\ \A i \in 1 .. n : GoesOn(i)
        /\ mode = "going" /\ n < Len(strm.in) => far > Room
    BY <1>1, <1>2, <1>4, <2>1, InflatedReaches
  <2>3. ~strm.astray
    BY <1>4 DEF Inflated
  <2> HIDE DEF far
  <2>4. mode = "unchecked" => far <= Room
    BY <2>2 DEF Room
  <2>5. CASE GiveUp(far, FALSE, mode)
    BY <1>1, <2>2, <2>3, <2>4, <2>5, GiveUpIsRight
  <2>6. CASE GiveOut(n, far, far, FALSE, mode)
    BY <1>1, <2>2, <2>3, <2>6, GiveOutIsRight
  <2> QED BY <1>4, <2>5, <2>6
<1>5. CASE \E sound, reach \in 0 .. Room + MaxStray :
              /\ Strayed(n, sound, reach, mode)
              /\ GiveUp(reach, TRUE, mode) \/ GiveOut(n, reach, sound, TRUE, mode)
  <2>1. PICK sound, reach \in 0 .. Room + MaxStray :
              /\ Strayed(n, sound, reach, mode)
              /\ GiveUp(reach, TRUE, mode) \/ GiveOut(n, reach, sound, TRUE, mode)
    BY <1>5
  <2>2. sound \in Nat /\ reach \in Nat
    OBVIOUS
  <2>3. /\ strm.far <= reach /\ sound <= reach
        /\ n = 0 => reach = strm.far
        /\ mode = "going" /\ n < Len(strm.in) => reach > Room
        /\ mode # "going" => mode \in {"unchecked", "bad"} /\ reach <= Room
        /\ strm.astray => sound = strm.near
    BY <2>1 DEF Strayed
  <2>4. ASSUME ~strm.astray
        PROVE  /\ sound <= Room /\ strm.near <= sound
               /\ \E k \in DOMAIN Held("packed") :
                     FirstAltered(Held("packed"), k) /\ sound = Reached(Held("packed"), k - 1)
    <3>1. strm.mode = "going"
      BY <2>1, <2>4 DEF Strayed
    <3>2. PICK c \in Nat : SoFar(Held("packed"), c)
      BY <1>1, <2>4, <3>1 DEF IInv, BytesRead
    <3>3. /\ sound \in Nat /\ strm.far <= sound /\ sound <= Room
          /\ \E k \in DOMAIN Held("packed") :
                FirstAltered(Held("packed"), k) /\ sound = Reached(Held("packed"), k - 1)
      BY <1>1, <1>2, <2>1, <2>4, <3>1, <3>2, StrayedFrom DEF IInv, NeverAhead
    <3> QED BY <1>2, <2>2, <3>3
  <2>5. CASE GiveUp(reach, TRUE, mode)
    BY <1>1, <2>2, <2>3, <2>4, <2>5, GiveUpIsRight
  <2>6. CASE GiveOut(n, reach, sound, TRUE, mode)
    <3>1. mode # "ended"
      BY <2>3
    <3> QED BY <1>1, <2>2, <2>3, <2>4, <2>6, <3>1, GiveOutIsRight
  <2> QED BY <2>1, <2>5, <2>6
<1> QED BY <1>3, <1>4, <1>5

-----------------------------------------------------------------------------
\* The invariant holds of every behaviour, whatever the sizes of buffers and documents and
\* however long the program goes on.
THEOREM Invariant == Spec => []IInv
<1>1. IInv /\ [Next]_vars => IInv'
  <2> SUFFICES ASSUME IInv, [Next]_vars PROVE IInv'
    OBVIOUS
  <2>1. ASSUME NEW n \in 0 .. MaxSize, Edit(n) PROVE IInv'
    BY <2>1, EditIsRight
  <2>2. CASE Empty
    BY <2>2, EmptyIsRight
  <2>3. CASE Carry
    BY <2>3, CarryIsRight
  <2>4. CASE CompressNone
    BY <2>4, CompressNoneIsRight
  <2>5. CASE CompressZStd
    BY <2>5, CompressZStdIsRight
  <2>6. ASSUME NEW type \in Window, CompressZlib(type) PROVE IInv'
    BY <2>6, CompressZlibIsRight
  <2>7. CASE Read
    BY <2>7, ReadIsRight
  <2>8. CASE Deflate
    BY <2>8, DeflateIsRight
  <2>9. CASE UncompressNone
    BY <2>9, UncompressNoneIsRight
  <2>10. CASE UncompressZStd
    BY <2>10, UncompressZStdIsRight
  <2>11. ASSUME NEW type \in Window, NEW skipCRC \in BOOLEAN, UncompressZlib(type, skipCRC) PROVE IInv'
    BY <2>11, UncompressZlibIsRight
  <2>12. CASE Feed
    BY <2>12, FeedIsRight
  <2>13. CASE Inflate
    BY <2>13, InflateIsRight
  <2>14. CASE InflateFails
    BY <2>14, InflateFailsIsRight
  <2>15. CASE UNCHANGED vars
    <3>1. PackedOK' /\ LoopsApart' /\ SourcesChecked' /\ PartsOfData'
      BY <2>15 DEF IInv, vars, PackedOK, LoopsApart, SourcesChecked, PartsOfData, DataIsRaw,
                   Checked, Held, Unpacking
    <3>2. NeverAhead' /\ GivenBack'
      BY <2>15 DEF IInv, vars, NeverAhead, GivenBack, OutputIsPrefix, WholeOrSkipped, Held, Unpacking
    <3>3. \A c : SoFar(Held("packed"), c)' <=> SoFar(Held("packed"), c)
      BY <2>15 DEF vars, SoFar, ReadTo, Held
    <3>4. \A n : AstrayFrom(Held("packed"), n)' <=> AstrayFrom(Held("packed"), n)
      BY <2>15 DEF vars, AstrayFrom, Held
    <3>5. BytesRead'
      BY <2>15, <3>3, <3>4 DEF IInv, vars, BytesRead, Held, Unpacking
    <3> QED BY <3>1, <3>2, <3>5 DEF IInv
  <2> QED BY <2>1, <2>2, <2>3, <2>4, <2>5, <2>6, <2>7, <2>8, <2>9, <2>10, <2>11, <2>12, <2>13,
             <2>14, <2>15 DEF Next
<1> QED BY <1>1, InitIsRight, PTL DEF Spec

\* The sizes, vectors and streams of compressDataBuffer() and uncompressDataBuffer() are what
\* they should be.
THEOREM TypeCorrect == Spec => []PackedOK
<1>1. IInv => PackedOK
  BY DEF IInv
<1> QED BY <1>1, Invariant, PTL

\* However the packed bytes were cut or altered, inf() succeeds only with a whole document that
\* was packed, unless a wrong checksum was skipped; and at any time it has added to what the output
\* held before the beginning of the document, up to what is told before the first altered byte,
\* and behind that whatever inflate() took the rest for.  That no checksum is right by chance is
\* assumed (see Strayed).
THEOREM UnpackedIsWhole == Spec => []GivenBack
<1>1. IInv => GivenBack
  BY DEF IInv
<1> QED BY <1>1, Invariant, PTL

-----------------------------------------------------------------------------
(* What def() packed and nobody altered is a stream inf() never stops at, whatever is packed *)
(* behind it: a header, codes that reach further and further, and the checksum of as much as *)
(* the last of them reaches.  While inf() reads it, it is neither behind nor beyond what the *)
(* bytes it has read tell.                                                                   *)

Body(bytes, type, n) ==
    /\ n > 0 => bytes[1] = Byte(type, 0)
    /\ \A i \in 2 .. n : bytes[i].kind = "data" /\ bytes[i - 1].upto <= bytes[i].upto

EndsAt(bytes, type, e) ==
    /\ e \in 2 .. Len(bytes)
    /\ Body(bytes, type, e - 1)
    /\ bytes[e] = Byte("check", bytes[e - 1].upto)

IsStream(bytes, type) == \E e \in 2 .. Len(bytes) : EndsAt(bytes, type, e)

\* The first stream of packed is not yet complete.
Begun(bytes) ==
    /\ intact = call.type
    /\ Body(bytes, intact, Len(bytes))
    /\ strm.headed <=> bytes # << >>
    /\ strm.near = Reached(bytes, Len(bytes))
    /\ strm.mode = "going"

IntactIsStream ==
    intact \in Window =>
        \/ pc \in {"read", "deflate"} /\ Begun(Held("packed"))
        \/ IsStream(Held("packed"), intact)

\* c bytes of it are read, not yet its end.
OnTheWay(bytes, c, e) ==
    /\ EndsAt(bytes, intact, e)
    /\ c < e
    /\ SoFar(bytes, c)
    /\ ~strm.astray

IntactIsRead ==
    Unpacking /\ intact = call.type /\ pc \in {"feed", "inflate"} =>
        \/ strm.mode = "ended" /\ pc = "inflate"
        \/ \E c, e \in Nat : OnTheWay(Held("packed"), c, e)

IntactInv == IntactIsStream /\ IntactIsRead /\ IntactIsAccepted

\* Induction over the naturals: from the well-founded order of the library, whose induction
\* theorems no prover here can instantiate.
LEMMA SetInduction ==
  ASSUME NEW T \in SUBSET Nat, 0 \in T, \A n \in T : n + 1 \in T
  PROVE  T = Nat
<1>1. \A x, y \in Nat : y < x => <<y, x>> \in OpToRel(<, Nat)
  BY DEF OpToRel
<1>2. SUFFICES ASSUME Nat \ T # {} PROVE FALSE
  OBVIOUS
<1>3. \E x \in Nat \ T : \A y \in Nat \ T : <<y, x>> \notin OpToRel(<, Nat)
  BY <1>2, WFMin, NatLessThanWellFounded
<1>4. \E x \in Nat \ T : \A y \in Nat \ T : ~(y < x)
  BY <1>1, <1>3
<1>5. PICK x \in Nat \ T : \A y \in Nat \ T : ~(y < x)
  BY <1>4
<1>6. x # 0
  OBVIOUS
<1>7. x - 1 \in Nat /\ x - 1 < x /\ (x - 1) + 1 = x
  BY <1>6
<1>8. x - 1 \in T
  BY <1>5, <1>7
<1> QED BY <1>5, <1>7, <1>8

\* The codes of a stream reach further and further.
LEMMA BodyReaches ==
  ASSUME NEW bytes \in Seq(Bytes), NEW type, NEW n \in Nat, n <= Len(bytes), Body(bytes, type, n),
         NEW j \in 1 .. n, NEW i \in j .. n
  PROVE  bytes[j].upto <= bytes[i].upto
<1> DEFINE T == {k \in Nat : j + k <= n => bytes[j].upto <= bytes[j + k].upto}
<1>1. \A k \in 1 .. n : bytes[k].upto \in Nat
  <2> TAKE k \in 1 .. n
  <2>1. bytes[k] \in Bytes
    OBVIOUS
  <2> QED BY <2>1 DEF Bytes
<1>2. 0 \in T
  BY <1>1
<1>3. ASSUME NEW k \in T PROVE k + 1 \in T
  <2> SUFFICES ASSUME j + (k + 1) <= n PROVE bytes[j].upto <= bytes[j + (k + 1)].upto
    OBVIOUS
  <2>1. j + k \in 1 .. n /\ j + (k + 1) \in 2 .. n /\ (j + (k + 1)) - 1 = j + k
    OBVIOUS
  <2>2. bytes[j].upto <= bytes[j + k].upto
    BY <2>1
  <2>3. bytes[j + k].upto <= bytes[j + (k + 1)].upto
    BY <2>1 DEF Body
  <2>4. /\ bytes[j].upto \in Nat
        /\ bytes[j + k].upto \in Nat
        /\ bytes[j + (k + 1)].upto \in Nat
    <3>1. j + (k + 1) \in 1 .. n
      BY <2>1
    <3> QED BY <1>1, <2>1, <3>1
  <2> HIDE DEF T
  <2> QED BY <2>2, <2>3, <2>4
<1>4. T = Nat
  <2> HIDE DEF T
  <2>1. T \in SUBSET Nat
    BY DEF T
  <2> QED BY <1>2, <1>3, <2>1, SetInduction
<1>5. i - j \in Nat /\ j + (i - j) = i
  OBVIOUS
<1>6. i - j \in T
  <2> HIDE DEF T
  <2> QED BY <1>4, <1>5
<1> QED BY <1>5, <1>6

\* What is packed behind a stream does not matter.
LEMMA StreamStays ==
  ASSUME NEW a \in Seq(Bytes), NEW b \in Seq(Bytes), NEW type, IsStream(a, type)
  PROVE  IsStream(a \o b, type)
<1>1. PICK e \in 2 .. Len(a) : EndsAt(a, type, e)
  BY DEF IsStream
<1>2. Len(a \o b) = Len(a) + Len(b) /\ \A i \in 1 .. Len(a) : (a \o b)[i] = a[i]
  BY ConcatProperties
<1>3. e \in 2 .. Len(a \o b) /\ Len(a) \in Nat
  BY <1>2
<1>4. \A i \in 1 .. e : (a \o b)[i] = a[i]
  BY <1>2, <1>3
<1>5. Body(a \o b, type, e - 1)
  <2>1. 1 \in 1 .. e /\ \A i \in 2 .. e - 1 : i \in 1 .. e /\ i - 1 \in 1 .. e
    BY <1>3
  <2> QED BY <1>1, <1>4, <2>1 DEF EndsAt, Body
<1>6. (a \o b)[e] = a[e] /\ (a \o b)[e - 1] = a[e - 1]
  <2>1. e \in 1 .. e /\ e - 1 \in 1 .. e
    BY <1>3
  <2> QED BY <1>4, <2>1
<1> QED BY <1>1, <1>3, <1>5, <1>6 DEF EndsAt, IsStream

-----------------------------------------------------------------------------
(* Packing. *)

\* What deflate() puts out goes on with what it has put out, as far as there is no checksum.
LEMMA DeflatedGoesOn ==
  ASSUME PackedOK, call.type \in Window, NEW a \in Seq(Bytes), NEW taken \in Nat,
         NEW out \in Seq(Codes(taken)), out \in Seq(Bytes), Deflated(out, taken),
         Body(a, call.type, Len(a)), strm.headed <=> a # << >>, strm.near = Reached(a, Len(a)),
         NEW m \in 0 .. Len(out), \A i \in 1 .. m : out[i].kind # "check"
  PROVE  /\ Body(a \o out, call.type, Len(a) + m)
         /\ Reach(out, m) = Reached(a \o out, Len(a) + m)
<1> DEFINE b == a \o out
<1>1. /\ b \in Seq(Bytes) /\ Len(a) \in Nat /\ Len(out) \in Nat /\ Len(b) = Len(a) + Len(out)
      /\ \A i \in 1 .. Len(a) : b[i] = a[i]
      /\ \A i \in 1 .. Len(out) : b[Len(a) + i] = out[i]
  <2>1. \A i \in 1 .. Len(a) + Len(out) : b[i] = IF i <= Len(a) THEN a[i] ELSE out[i - Len(a)]
    BY ConcatProperties
  <2>2. b \in Seq(Bytes) /\ Len(b) = Len(a) + Len(out)
    BY ConcatProperties
  <2>3. ASSUME NEW i \in 1 .. Len(out) PROVE b[Len(a) + i] = out[i]
    <3>1. Len(a) + i \in 1 .. Len(a) + Len(out) /\ ~(Len(a) + i <= Len(a)) /\ (Len(a) + i) - Len(a) = i
      OBVIOUS
    <3> QED BY <2>1, <3>1
  <2>4. ASSUME NEW i \in 1 .. Len(a) PROVE b[i] = a[i]
    <3>1. i \in 1 .. Len(a) + Len(out) /\ i <= Len(a)
      OBVIOUS
    <3> QED BY <2>1, <3>1
  <2> QED BY <2>2, <2>3, <2>4
<1> HIDE DEF b
<1>2. a # << >> <=> Len(a) > 0
  BY <1>1
<1>3. ASSUME NEW i \in 1 .. m
      PROVE  /\ out[i].kind = call.type <=> i = 1 /\ ~strm.headed
             /\ out[i].kind = call.type => out[i] = Byte(call.type, 0)
             /\ out[i].kind # call.type => out[i].kind = "data" /\ Reach(out, i - 1) <= out[i].upto
  <2>1. i \in DOMAIN out /\ out[i] \in Codes(taken)
    BY <1>1
  <2>2. out[i].kind = call.type <=> i = 1 /\ ~strm.headed
    BY <2>1 DEF Deflated
  <2>3. out[i].kind = "data" => Reach(out, i - 1) <= out[i].upto
    BY <2>1 DEF Deflated
  <2>4. out[i].kind # "check"
    OBVIOUS
  <2>5. out[i] = Byte(call.type, 0) \/ out[i].kind = "data"
    BY <2>1, <2>4 DEF Codes, Byte
  <2>6. out[i] = Byte(call.type, 0) => out[i].kind = call.type
    BY DEF Byte
  <2>7. call.type # "data"
    BY DEF Window
  <2> QED BY <2>2, <2>3, <2>5, <2>6, <2>7
<1>4. ASSUME NEW i \in 0 .. m
      PROVE  Reach(out, i) = Reached(b, Len(a) + i)
  <2>1. CASE i = 0
    <3>1. Reach(out, i) = Reached(a, Len(a))
      BY <2>1 DEF Reach
    <3>2. Len(a) > 0 => b[Len(a)] = a[Len(a)]
      BY <1>1
    <3> QED BY <1>1, <2>1, <3>1, <3>2 DEF Reached
  <2>2. CASE i # 0
    <3>1. i \in 1 .. m /\ Len(a) + i # 0 /\ b[Len(a) + i] = out[i]
      BY <1>1, <2>2
    <3>2. Reached(b, Len(a) + i) = out[i].upto
      BY <3>1 DEF Reached
    <3>3. CASE out[i].kind \in Window
      <4>1. out[i].kind = call.type
        <5>1. out[i].kind # "data"
          BY <3>3 DEF Window
        <5> QED BY <1>3, <3>1, <5>1
      <4>2. ~strm.headed /\ out[i].upto = 0
        BY <1>3, <3>1, <4>1 DEF Byte
      <4>3. Len(a) = 0 /\ strm.near = 0
        BY <1>1, <1>2, <4>2 DEF Reached
      <4> QED BY <2>2, <3>2, <3>3, <4>2, <4>3 DEF Reach
    <3>4. CASE out[i].kind \notin Window
      BY <2>2, <3>2, <3>4 DEF Reach
    <3> QED BY <3>3, <3>4
  <2> QED BY <2>1, <2>2
<1>5. Body(b, call.type, Len(a) + m)
  <2>1. ASSUME Len(a) + m > 0 PROVE b[1] = Byte(call.type, 0)
    <3>1. CASE Len(a) > 0
      BY <1>1, <3>1 DEF Body
    <3>2. CASE Len(a) = 0
      <4>1. 1 \in 1 .. m /\ ~strm.headed /\ b[1] = out[1]
        BY <1>1, <1>2, <2>1, <3>2
      <4> QED BY <1>3, <4>1
    <3> QED BY <1>1, <3>1, <3>2
  <2>2. ASSUME NEW i \in 2 .. Len(a) + m PROVE b[i].kind = "data" /\ b[i - 1].upto <= b[i].upto
    <3>1. CASE i <= Len(a)
      <4>1. i \in 2 .. Len(a) /\ i \in 1 .. Len(a) /\ i - 1 \in 1 .. Len(a)
        BY <1>1, <3>1
      <4> QED BY <1>1, <4>1 DEF Body
    <3>2. CASE i > Len(a)
      <4> DEFINE k == i - Len(a)
      <4>1. k \in 1 .. m /\ k \in 1 .. Len(out) /\ k - 1 \in 0 .. m /\ Len(a) + k = i /\ Len(a) + (k - 1) = i - 1 /\ i - 1 # 0
        BY <1>1, <3>2
      <4> HIDE DEF k
      <4>2. b[i] = out[k]
        BY <1>1, <4>1
      <4>3. ~(k = 1 /\ ~strm.headed)
        BY <1>1, <1>2, <4>1
      <4>4. out[k].kind = "data" /\ Reach(out, k - 1) <= out[k].upto
        BY <1>3, <4>1, <4>3
      <4>5. Reach(out, k - 1) = b[i - 1].upto
        BY <1>4, <4>1 DEF Reached
      <4> QED BY <4>2, <4>4, <4>5
    <3> QED BY <1>1, <3>1, <3>2
  <2> QED BY <2>1, <2>2 DEF Body
<1> QED BY <1>4, <1>5 DEF b

\* One call of deflate() goes on with the stream, or completes it.
LEMMA DeflateIsIntact ==
  ASSUME IInv, IntactInv, Deflate
  PROVE  IntactInv'
<1>1. PICK taken \in strm.far .. strm.far + Len(strm.in) :
         \E out \in Sequences(Codes(taken), CHUNK) : DeflateTo(taken, out)
  BY DEF Deflate
<1>2. PICK out \in Sequences(Codes(taken), CHUNK) : DeflateTo(taken, out)
  BY <1>1
<1>3. /\ UNCHANGED <<p, call, rest, kept, written, calls, intact>> /\ pc = "deflate"
      /\ call.op = "compress" /\ call.type \in Window /\ p["packed"] # p["data"]
      /\ ~Unpacking /\ ~Unpacking' /\ PackedOK
  BY DEF Deflate, IInv, LoopsApart, Unpacking
<1>4. /\ strm \in Stream /\ strm.far \in Nat /\ strm.near \in Nat /\ CHUNK \in Nat
      /\ Len(strm.in) \in Nat /\ taken \in Nat
  BY <1>3, ChunkAssumption DEF PackedOK, Stream
<1>5. Codes(taken) \subseteq Bytes
  BY <1>3, <1>4 DEF Codes, Byte, Bytes, Kind, Window
<1>6. out \in Seq(Codes(taken)) /\ out \in Seq(Bytes) /\ Len(out) \in Nat /\ Len(out) <= CHUNK
  BY <1>4, <1>5, SequencesAreSeq
<1> DEFINE a == Held("packed")
           last == out # << >> /\ out[Len(out)].kind = "check"
<1>7. a \in Seq(Bytes) /\ Len(a) \in Nat
  BY <1>3, HeldType DEF Holder
<1>8. Held("packed")' = a \o out
  <2>1. Overwrite("packed", a \o out)
    BY <1>2 DEF DeflateTo, Append_
  <2>2. a \o out \in Seq(Bytes)
    BY <1>6, <1>7
  <2> HIDE DEF a
  <2> QED BY <1>3, <2>1, <2>2, OverwriteHolds DEF Holder
<1>9. /\ strm'.near = Reach(out, Len(out)) /\ strm'.headed = (strm.headed \/ out # << >>)
      /\ strm'.mode = IF last THEN "ended" ELSE strm.mode
  <2>1. \E left, idle : strm' = [strm EXCEPT !.in = left, !.far = taken, !.near = Reach(out, Len(out)),
                            !.idle = idle, !.headed = @ \/ out # << >>, !.mode = IF last THEN "ended" ELSE @]
    BY <1>2 DEF DeflateTo
  <2> HIDE DEF last
  <2> QED BY <1>4, <2>1 DEF Stream
<1>10. IntactIsRead' /\ IntactIsAccepted'
  BY <1>3 DEF IntactIsRead, IntactIsAccepted
<1>11. Deflated(out, taken)
  BY <1>2 DEF DeflateTo
<1>12. DOMAIN out = 1 .. Len(out)
  BY <1>6
<1>13. IntactIsStream'
  <2> SUFFICES ASSUME intact \in Window
               PROVE  \/ pc' \in {"read", "deflate"} /\ Begun(Held("packed"))'
                      \/ IsStream(a \o out, intact)
    BY <1>3, <1>8 DEF IntactIsStream
  <2>1. CASE IsStream(a, intact)
    BY <1>6, <1>7, <2>1, StreamStays
  <2>2. CASE Begun(a)
    <3>1. /\ intact = call.type /\ Body(a, call.type, Len(a)) /\ (strm.headed <=> a # << >>)
          /\ strm.near = Reached(a, Len(a)) /\ strm.mode = "going"
      BY <2>2 DEF Begun
    <3> HIDE DEF a
    <3>2. CASE last
      <4> DEFINE m == Len(out) - 1
      <4>1. m \in 0 .. Len(out) /\ Len(out) \in DOMAIN out /\ Len(out) = m + 1
        BY <1>6, <3>2
      <4> HIDE DEF m
      <4>2. \A i \in 1 .. m : out[i].kind # "check"
        <5> TAKE i \in 1 .. m
        <5>1. i \in DOMAIN out /\ i # Len(out)
          BY <1>6, <1>12, <4>1
        <5> QED BY <1>11, <5>1 DEF Deflated
      <4>3. /\ Body(a \o out, call.type, Len(a) + m)
            /\ Reach(out, m) = Reached(a \o out, Len(a) + m)
        BY <1>3, <1>4, <1>6, <1>7, <1>11, <3>1, <4>1, <4>2, DeflatedGoesOn
      <4>4. out[Len(out)] = Byte("check", taken) /\ Reach(out, m) = taken
        <5>1. Reach(out, m) = taken
          BY <1>11, <3>2, <4>1 DEF Deflated
        <5>2. out[Len(out)] \in Codes(taken) /\ out[Len(out)].kind = "check"
          BY <1>6, <3>2, <4>1
        <5>3. out[Len(out)] = Byte("check", taken)
          BY <1>3, <5>2 DEF Codes, Byte, Window
        <5> QED BY <5>1, <5>3
      <4>5. Len(a) + m >= 1
        <5> SUFFICES ASSUME Len(a) = 0, m = 0 PROVE FALSE
          BY <1>7, <4>1
        <5>1. a = << >> /\ Len(out) = 1 /\ 1 \in DOMAIN out
          BY <1>7, <4>1
        <5>2. out[1].kind = call.type
          BY <1>11, <3>1, <5>1 DEF Deflated
        <5> QED BY <1>3, <3>2, <5>1, <5>2 DEF Window
      <4> DEFINE e == Len(a) + Len(out)
      <4>6. e \in 2 .. Len(a \o out) /\ e - 1 = Len(a) + m /\ Len(a) + m # 0
        <5>1. Len(a \o out) = Len(a) + Len(out)
          BY <1>6, <1>7
        <5> QED BY <1>6, <1>7, <4>1, <4>5, <5>1
      <4>7. (a \o out)[e] = out[Len(out)]
        BY <1>6, <1>7, <4>1
      <4> HIDE DEF e
      <4>8. (a \o out)[e] = Byte("check", (a \o out)[e - 1].upto)
        BY <4>3, <4>4, <4>6, <4>7 DEF Reached
      <4>9. EndsAt(a \o out, intact, e)
        BY <3>1, <4>3, <4>6, <4>8 DEF EndsAt
      <4> QED BY <4>6, <4>9 DEF IsStream
    <3>3. CASE ~last
      <4>1. \A i \in 1 .. Len(out) : out[i].kind # "check"
        <5> SUFFICES ASSUME NEW i \in 1 .. Len(out), out[i].kind = "check" PROVE FALSE
          OBVIOUS
        <5>1. i \in DOMAIN out
          BY <1>6
        <5>2. i = Len(out)
          BY <1>11, <5>1 DEF Deflated
        <5>3. out # << >>
          BY <5>1
        <5> QED BY <3>3, <5>2, <5>3
      <4>2. /\ Body(a \o out, call.type, Len(a) + Len(out))
            /\ Reach(out, Len(out)) = Reached(a \o out, Len(a) + Len(out))
        <5>1. Len(out) \in 0 .. Len(out)
          BY <1>6
        <5> QED BY <1>3, <1>4, <1>6, <1>7, <1>11, <3>1, <4>1, <5>1, DeflatedGoesOn
      <4>3. Len(a \o out) = Len(a) + Len(out) /\ (a \o out # << >> <=> a # << >> \/ out # << >>)
        BY <1>6, <1>7
      <4>4. strm'.mode = "going" /\ pc' \in {"read", "deflate"}
        <5>1. pc' = IF Len(out) = CHUNK THEN "deflate" ELSE IF strm.flush THEN "returned" ELSE "read"
          BY <1>2 DEF DeflateTo
        <5>2. Len(out) < CHUNK /\ strm.flush => last
          BY <1>11, <3>1 DEF Deflated
        <5>3. Len(out) # CHUNK => Len(out) < CHUNK
          BY <1>4, <1>6
        <5>4. strm'.mode = "going"
          BY <1>9, <3>1, <3>3
        <5> QED BY <3>3, <5>1, <5>2, <5>3, <5>4
      <4>5. /\ Body(a \o out, intact, Len(a \o out))
            /\ strm'.near = Reached(a \o out, Len(a \o out))
            /\ strm'.headed <=> a \o out # << >>
        BY <1>9, <3>1, <4>2, <4>3
      <4>6. intact' = call'.type /\ intact' = intact
        BY <1>3, <3>1
      <4> QED BY <1>8, <4>4, <4>5, <4>6 DEF Begun
    <3> QED BY <3>2, <3>3
  <2> QED BY <2>1, <2>2 DEF IntactInv, IntactIsStream
<1> QED BY <1>10, <1>13 DEF IntactInv

-----------------------------------------------------------------------------
(* Unpacking. *)

\* A stream that was packed, read up to its c-th byte: there is no byte before its checksum that
\* inflate() does not go on with, and the checksum is right.
LEMMA StreamGoesOn ==
  ASSUME PackedOK, Held("packed") \in Seq(Bytes), NEW c \in Nat, NEW e \in Nat,
         OnTheWay(Held("packed"), c, e), intact = call.type, NEW i \in 1 .. Len(strm.in)
  PROVE  /\ c + i < e => GoesOn(i)
         /\ c + i = e => ~GoesOn(i) /\ Verdicts(i) = {"ended"} /\ strm.in[i] # Junk
<1> DEFINE bytes == Held("packed")
<1>1. strm.in \in Seq(Bytes) /\ Len(strm.in) \in Nat
  BY DEF PackedOK, Stream
<1>2. /\ e \in 2 .. Len(bytes) /\ Body(bytes, intact, e - 1)
      /\ bytes[e] = Byte("check", bytes[e - 1].upto)
      /\ c < e /\ (strm.headed <=> c > 0) /\ SoFar(bytes, c)
  BY DEF OnTheWay, EndsAt, SoFar
<1>3. ASSUME NEW j \in 0 .. Len(strm.in) PROVE Known(j) = Reached(bytes, c + j)
  BY <1>2, KnownReached
<1>4. strm.in[i] = bytes[c + i]
  <2>1. i \in 0 .. Len(strm.in) /\ i > 0
    BY <1>1
  <2> QED BY <1>2, <2>1, KnownReached
<1> HIDE DEF bytes
<1>5. ASSUME c + i < e PROVE GoesOn(i)
  <2>1. CASE i = 1 /\ ~strm.headed
    <3>1. c + i = 1 /\ e - 1 > 0
      BY <1>2, <2>1
    <3> QED BY <1>2, <1>4, <2>1, <3>1 DEF GoesOn, Body
  <2>2. CASE ~(i = 1 /\ ~strm.headed)
    <3>1. c + i \in 2 .. e - 1
      BY <1>2, <1>5, <2>2
    <3>2. bytes[c + i].kind = "data"
      BY <1>2, <3>1 DEF Body
    <3>3. ASSUME NEW j \in 0 .. i - 1 PROVE Known(j) <= bytes[c + i].upto
      <4>1. bytes[c + i].upto \in Nat /\ bytes \in Seq(Bytes)
        <5>1. c + i \in 1 .. Len(bytes) /\ bytes \in Seq(Bytes)
          BY <1>2, <3>1 DEF bytes
        <5>2. bytes[c + i] \in Bytes
          BY <5>1
        <5> QED BY <5>1, <5>2 DEF Bytes
      <4>2. Known(j) = Reached(bytes, c + j)
        BY <1>1, <1>3
      <4>3. CASE c + j = 0
        BY <4>1, <4>2, <4>3 DEF Reached
      <4>4. CASE c + j # 0
        <5>1. c + j \in 1 .. e - 1 /\ c + i \in c + j .. e - 1 /\ e - 1 \in Nat /\ e - 1 <= Len(bytes)
          BY <1>2, <3>1, <4>1, <4>4
        <5>2. bytes[c + j].upto <= bytes[c + i].upto
          BY <1>2, <4>1, <5>1, BodyReaches
        <5> QED BY <4>2, <4>4, <5>2 DEF Reached
      <4> QED BY <4>3, <4>4
    <3> QED BY <1>4, <2>2, <3>2, <3>3 DEF GoesOn
  <2> QED BY <2>1, <2>2
<1>6. ASSUME c + i = e PROVE ~GoesOn(i) /\ Verdicts(i) = {"ended"} /\ strm.in[i] # Junk
  <2>1. strm.in[i] = Byte("check", bytes[e - 1].upto) /\ i - 1 \in 0 .. Len(strm.in) /\ c + (i - 1) = e - 1
    BY <1>1, <1>2, <1>4, <1>6
  <2>2. ~(i = 1 /\ ~strm.headed)
    BY <1>2, <1>6
  <2>3. Known(i - 1) = bytes[e - 1].upto
    <3>1. e - 1 # 0
      BY <1>2
    <3> QED BY <1>3, <2>1, <3>1 DEF Reached
  <2>4. strm.in[i].kind = "check"
    BY <2>1 DEF Byte
  <2>5. Junk.kind # "check"
    BY DEF Junk, Byte
  <2> QED BY <2>1, <2>2, <2>3, <2>4, <2>5 DEF GoesOn, Verdicts
<1> QED BY <1>5, <1>6

LEMMA InflatedGoesOn ==
  ASSUME PackedOK, Held("packed") \in Seq(Bytes), NEW c \in Nat, NEW e \in Nat,
         OnTheWay(Held("packed"), c, e), intact = call.type, strm.mode = "going",
         NEW n \in 0 .. Len(strm.in), NEW mode, Inflated(n, mode)
  PROVE  /\ mode \in {"going", "ended"}
         /\ mode = "going" => c + n < e /\ \A i \in 1 .. n : GoesOn(i)
<1>1. Len(strm.in) \in Nat /\ n \in Nat /\ c < e
  BY DEF PackedOK, Stream, OnTheWay
<1>2. c + n <= e
  <2> SUFFICES ASSUME c + n > e PROVE FALSE
    BY <1>1
  <2>1. e - c \in 1 .. n - 1 /\ e - c \in 1 .. Len(strm.in) /\ c + (e - c) = e
    BY <1>1
  <2>2. GoesOn(e - c)
    BY <2>1 DEF Inflated
  <2> QED BY <2>1, <2>2, StreamGoesOn
<1>3. CASE c + n < e
  <2>1. \A i \in 1 .. n : i \in 1 .. Len(strm.in) /\ c + i < e
    BY <1>1, <1>3
  <2>2. \A i \in 1 .. n : GoesOn(i)
    BY <2>1, StreamGoesOn
  <2>3. n = 0 \/ GoesOn(n)
    BY <1>1, <2>2
  <2>4. mode = strm.mode
    BY <2>3 DEF Inflated
  <2> QED BY <1>3, <2>2, <2>4
<1>4. CASE c + n = e
  <2>1. n \in 1 .. Len(strm.in)
    BY <1>1, <1>4
  <2>2. mode = "ended"
    BY <1>4, <2>1, StreamGoesOn DEF Inflated
  <2> QED BY <2>2
<1> QED BY <1>1, <1>2, <1>3, <1>4

\* There is no altered byte in it to lead inflate() astray.
LEMMA NotStrayed ==
  ASSUME PackedOK, call.type \in Window, Held("packed") \in Seq(Bytes), NEW c \in Nat, NEW e \in Nat,
         OnTheWay(Held("packed"), c, e), intact = call.type,
         NEW n \in 0 .. Len(strm.in), NEW sound, NEW far, NEW mode, Strayed(n, sound, far, mode)
  PROVE  FALSE
<1>1. Len(strm.in) \in Nat /\ c < e /\ ~strm.astray
  BY DEF PackedOK, Stream, OnTheWay
<1>2. PICK i \in 1 .. n : strm.in[i] = Junk /\ \A j \in 1 .. i - 1 : GoesOn(j)
  BY <1>1 DEF Strayed
<1>3. i \in 1 .. Len(strm.in)
  BY <1>1
<1>4. CASE c + i < e
  BY <1>2, <1>3, <1>4, StreamGoesOn, GoesOnUnaltered
<1>5. CASE c + i = e
  BY <1>2, <1>3, <1>5, StreamGoesOn
<1>6. CASE c + i > e
  <2>1. e - c \in 1 .. i - 1 /\ e - c \in 1 .. Len(strm.in) /\ c + (e - c) = e
    BY <1>1, <1>3, <1>6
  <2> QED BY <1>2, <2>1, StreamGoesOn
<1> QED BY <1>1, <1>3, <1>4, <1>5, <1>6

LEMMA InflateIsIntact ==
  ASSUME IInv, IntactInv, Inflate
  PROVE  IntactInv'
<1>1. /\ UNCHANGED <<p, call, rest, kept, written, calls, intact>> /\ pc = "inflate"
      /\ Unpacking /\ Unpacking' /\ p["output"] # p["packed"] /\ PackedOK
      /\ strm.mode \in {"going", "ended"} /\ call.type \in Window
      /\ strm.mode = "ended" => ~strm.astray
  BY DEF Inflate, IInv, LoopsApart, NeverAhead, Unpacking
<1>2. strm \in Stream /\ strm.in \in Seq(Bytes) /\ Len(strm.in) \in Nat
  BY <1>1 DEF PackedOK, Stream
<1>3. PICK n \in 0 .. Len(strm.in), mode \in {"going", "ended", "unchecked", "bad"} :
         \/ LET far == IF n = 0 \/ mode = "going" THEN Known(n) ELSE Known(n - 1)
            IN  Inflated(n, mode) /\ (GiveUp(far, FALSE, mode) \/ GiveOut(n, far, far, FALSE, mode))
         \/ \E sound, far \in 0 .. Room + MaxStray :
               /\ Strayed(n, sound, far, mode)
               /\ GiveUp(far, TRUE, mode) \/ GiveOut(n, far, sound, TRUE, mode)
  BY DEF Inflate
<1> DEFINE far == IF n = 0 \/ mode = "going" THEN Known(n) ELSE Known(n - 1)
<1>4. Held("packed")' = Held("packed") /\ Held("packed") \in Seq(Bytes)
  <2>1. blob' = blob \/ \E bytes : blob' = [blob EXCEPT ![p["output"]] = bytes]
    BY <1>3 DEF GiveUp, GiveOut, Append_, Overwrite
  <2> QED BY <1>1, <2>1, HeldType DEF Held, Holder, PackedOK
<1>5. IntactIsStream'
  <2>1. IntactIsStream /\ pc \notin {"read", "deflate"}
    BY <1>1 DEF IntactInv
  <2> QED BY <1>1, <1>4, <2>1 DEF IntactIsStream
<1>6. CASE intact # call.type
  BY <1>1, <1>5, <1>6 DEF IntactInv, IntactIsRead, IntactIsAccepted
<1>7. CASE intact = call.type
  <2>1. CASE strm.mode = "ended"
    <3>1. Inflated(n, mode) /\ (GiveUp(far, FALSE, mode) \/ GiveOut(n, far, far, FALSE, mode))
      BY <1>1, <1>3, <2>1 DEF Strayed
    <3>2. mode = "ended"
      BY <2>1, <3>1 DEF Inflated
    <3>3. GiveOut(n, far, far, FALSE, mode)
      BY <3>1, <3>2 DEF GiveUp
    <3> HIDE DEF far
    <3>4. strm'.mode = "ended" /\ pc' \in {"inflate", "returned"}
      BY <1>2, <3>2, <3>3 DEF GiveOut, Stream
    <3> QED BY <1>5, <3>4 DEF IntactInv, IntactIsRead, IntactIsAccepted
  <2>2. CASE strm.mode = "going"
    <3>1. PICK c, e \in Nat : OnTheWay(Held("packed"), c, e)
      BY <1>1, <1>7, <2>2 DEF IntactInv, IntactIsRead
    <3>2. Inflated(n, mode) /\ (GiveUp(far, FALSE, mode) \/ GiveOut(n, far, far, FALSE, mode))
      <4>1. ~\E sound, reach \in 0 .. Room + MaxStray : Strayed(n, sound, reach, mode)
        BY <1>1, <1>4, <1>7, <3>1, NotStrayed
      <4> QED BY <1>3, <4>1
    <3>3. /\ mode \in {"going", "ended"}
          /\ mode = "going" => c + n < e /\ \A i \in 1 .. n : GoesOn(i)
      BY <1>1, <1>4, <1>7, <2>2, <3>1, <3>2, InflatedGoesOn
    <3>4. GiveOut(n, far, far, FALSE, mode)
      BY <3>2, <3>3 DEF GiveUp
    <3>5. mode = "going" => far = Known(n)
      OBVIOUS
    <3> HIDE DEF far
    <3>6. /\ strm'.in = SubSeq(strm.in, n + 1, Len(strm.in)) /\ strm'.far = far
          /\ strm'.headed = (strm.headed \/ n > 0) /\ strm'.astray = FALSE /\ strm'.mode = mode
          /\ pc' \in {"inflate", "returned", "feed"} /\ (mode = "ended" => pc' # "feed")
      BY <1>2, <3>4 DEF GiveOut, Stream
    <3>7. IntactIsAccepted'
      BY <3>6 DEF IntactIsAccepted
    <3>8. CASE mode = "ended"
      BY <1>5, <3>6, <3>7, <3>8 DEF IntactInv, IntactIsRead
    <3>9. CASE mode = "going"
      <4>1. EndsAt(Held("packed"), intact, e) /\ SoFar(Held("packed"), c)
        BY <3>1 DEF OnTheWay
      <4>2. SoFar(Held("packed"), c + n)'
        BY <1>1, <1>4, <3>3, <3>5, <3>6, <3>9, <4>1, InflateReadsOn
      <4>3. c + n \in Nat /\ c + n < e
        BY <1>2, <3>3, <3>9
      <4>4. OnTheWay(Held("packed"), c + n, e)'
        BY <1>1, <1>4, <3>6, <4>1, <4>2, <4>3 DEF OnTheWay
      <4>5. IntactIsRead'
        BY <4>3, <4>4 DEF IntactIsRead
      <4> QED BY <1>5, <3>7, <4>5 DEF IntactInv
    <3> QED BY <3>3, <3>8, <3>9
  <2> QED BY <1>1, <2>1, <2>2
<1> QED BY <1>6, <1>7

LEMMA FeedIsIntact ==
  ASSUME IInv, IntactInv, Feed
  PROVE  IntactInv'
<1> DEFINE n == Smaller(CHUNK, Len(rest))
<1>1. /\ UNCHANGED <<blob, p, call, kept, written, calls, intact>> /\ pc = "feed"
      /\ Unpacking /\ PackedOK /\ call.type \in Window /\ Held("packed")' = Held("packed")
      /\ strm.in = << >> /\ strm.mode = "going"
  BY DEF Feed, IInv, LoopsApart, NeverAhead, Unpacking, Held
<1>2. rest \in Seq(Bytes) /\ Len(rest) \in Nat /\ strm \in Stream /\ CHUNK \in Nat \ {0}
  BY <1>1, ChunkAssumption DEF PackedOK
<1>3. IntactIsStream'
  <2>1. IntactIsStream /\ pc \notin {"read", "deflate"}
    BY <1>1 DEF IntactInv
  <2> QED BY <1>1, <2>1 DEF IntactIsStream
<1>4. CASE intact # call.type
  BY <1>1, <1>3, <1>4 DEF IntactInv, IntactIsRead, IntactIsAccepted
<1>5. CASE intact = call.type
  <2>1. PICK c, e \in Nat : OnTheWay(Held("packed"), c, e)
    BY <1>1, <1>5 DEF IntactInv, IntactIsRead
  <2>2. EndsAt(Held("packed"), intact, e) /\ c < e /\ SoFar(Held("packed"), c) /\ ~strm.astray
    BY <2>1 DEF OnTheWay
  <2>3. Len(rest) > 0
    <3>1. e <= Len(Held("packed")) /\ Len(Held("packed")) \in Nat
      BY <1>1, <2>2, HeldType DEF EndsAt, Holder
    <3>2. c + Len(rest) = Len(Held("packed"))
      BY <1>1, <1>2, <2>2 DEF SoFar, ReadTo
    <3> QED BY <1>2, <2>2, <3>1, <3>2
  <2>4. n \in 1 .. Len(rest)
    BY <1>2, <2>3 DEF Smaller
  <2>5. /\ strm' = [strm EXCEPT !.in = SubSeq(rest, 1, n)] /\ pc' = "inflate"
        /\ rest' = SubSeq(rest, n + 1, Len(rest))
    BY <2>4 DEF Feed
  <2> HIDE DEF n
  <2>6. SoFar(Held("packed"), c)'
    <3>1. n \in 0 .. Len(rest)
      BY <1>2, <2>4
    <3> QED BY <1>1, <2>2, <2>5, <3>1, FeedReadsOn
  <2>7. strm'.astray = strm.astray
    BY <1>2, <2>5 DEF Stream
  <2>8. OnTheWay(Held("packed"), c, e)'
    BY <1>1, <2>2, <2>6, <2>7 DEF OnTheWay
  <2>9. IntactIsRead' /\ IntactIsAccepted'
    BY <2>5, <2>8 DEF IntactIsRead, IntactIsAccepted
  <2> QED BY <1>3, <2>9 DEF IntactInv
<1> QED BY <1>4, <1>5

-----------------
(* The other actions. *)

\* Operations that leave what is packed alone, or whose packed bytes are nobody's stream.
LEMMA RestIsIntact ==
  ASSUME IntactInv, ~Unpacking', Quiet, pc' \in {"idle", "returned", "thrown"},
         \/ Held("packed")' = Held("packed") /\ intact' = intact
         \/ intact' \notin Window
  PROVE  IntactInv'
<1>1. pc \notin {"read", "deflate"}
  BY DEF Quiet
<1> QED BY <1>1 DEF IntactInv, IntactIsStream, IntactIsRead, IntactIsAccepted

LEMMA CarryIsIntact ==
  ASSUME IInv, IntactInv, Carry
  PROVE  IntactInv'
<1>1. PICK bytes \in {Held("packed"), << >>} \cup Carried(Held("packed")) :
         /\ Renew("packed", bytes)
         /\ intact' = IF bytes = Held("packed") THEN intact ELSE "None"
  BY DEF Carry
<1>2. CASE bytes = Held("packed")
  <2>1. Held("packed") \in Seq(Bytes) /\ PackedOK
    BY HeldType DEF IInv, Holder
  <2>2. Held("packed")' = Held("packed")
    BY <1>1, <1>2, <2>1, RenewHolds DEF Holder
  <2> QED BY <1>1, <1>2, <2>2, DoneIsOver, RestIsIntact DEF Carry, Turn
<1>3. CASE bytes # Held("packed")
  BY <1>1, <1>3, DoneIsOver, RestIsIntact DEF Carry, Turn, Window
<1> QED BY <1>2, <1>3

\* def() begins a stream, or adds to what is packed already.
LEMMA CompressZlibIsIntact ==
  ASSUME IInv, IntactInv, NEW type \in Window, CompressZlib(type)
  PROVE  IntactInv'
<1>1. /\ Held("packed")' = Held("packed") /\ ~Unpacking' /\ pc \notin {"read", "deflate"}
      /\ pc' \in {"read", "thrown"} /\ strm' = NewStream /\ call'.type = type
      /\ intact' \in {type, intact}
      /\ Held("packed") # << >> \/ pc' = "thrown" => intact' = intact
      /\ Held("packed") = << >> /\ pc' = "read" => intact' = type
  BY DEF CompressZlib, Held, Begin, Unpacking, Turn, Quiet
<1>2. CASE Held("packed") = << >> /\ pc' = "read"
  <2>1. Begun(Held("packed"))'
    BY <1>1, <1>2 DEF Begun, Body, Reached, NewStream
  <2> QED BY <1>1, <1>2, <2>1 DEF IntactInv, IntactIsStream, IntactIsRead, IntactIsAccepted
<1>3. CASE Held("packed") # << >> \/ pc' = "thrown"
  BY <1>1, <1>3 DEF IntactInv, IntactIsStream, IntactIsRead, IntactIsAccepted
<1> QED BY <1>1, <1>2, <1>3

LEMMA ReadIsIntact ==
  ASSUME IInv, IntactInv, Read
  PROVE  IntactInv'
<1>1. /\ UNCHANGED <<blob, p, call, kept, written, calls, intact>> /\ pc = "read" /\ pc' = "deflate"
      /\ ~Unpacking' /\ Held("packed")' = Held("packed") /\ strm \in Stream
  BY DEF Read, IInv, LoopsApart, Unpacking, Held, PackedOK
<1>2. strm'.headed = strm.headed /\ strm'.near = strm.near /\ strm'.mode = strm.mode
  <2>1. \E front, short : strm' = [strm EXCEPT !.in = front, !.flush = short]
    BY DEF Read
  <2> QED BY <1>1, <2>1 DEF Stream
<1>3. IntactIsStream'
  BY <1>1, <1>2 DEF IntactInv, IntactIsStream, Begun
<1> QED BY <1>1, <1>3 DEF IntactInv, IntactIsRead, IntactIsAccepted

\* inf() begins with none of it read.
LEMMA UncompressZlibIsIntact ==
  ASSUME IInv, IntactInv, NEW type \in Window, NEW skipCRC \in BOOLEAN, UncompressZlib(type, skipCRC)
  PROVE  IntactInv'
<1>1. /\ Held("packed")' = Held("packed") /\ intact' = intact /\ rest' = Held("packed")
      /\ pc \notin {"read", "deflate"} /\ call'.type = type
  BY DEF UncompressZlib, MayUnpack, Turn, Quiet, Held, Begin
<1>2. Held("packed") \in Seq(Bytes)
  BY HeldType DEF IInv, Holder
<1>3. IntactIsStream'
  BY <1>1 DEF IntactInv, IntactIsStream
<1>4. CASE pc' = "thrown" /\ strm' = [NewStream EXCEPT !.mode = "lost"]
  BY <1>3, <1>4 DEF IntactInv, IntactIsRead, IntactIsAccepted, NewStream
<1>5. CASE pc' = "feed" /\ strm' = NewStream
  <2>1. strm'.in = << >> /\ strm'.far = 0 /\ strm'.headed = FALSE /\ strm'.astray = FALSE
    BY <1>5 DEF NewStream
  <2>2. SUFFICES ASSUME intact = type
                 PROVE  \E c, e \in Nat : OnTheWay(Held("packed"), c, e)'
    BY <1>1, <1>3, <1>5, <2>1 DEF IntactInv, IntactIsRead, IntactIsAccepted
  <2>3. IsStream(Held("packed"), intact)
    BY <1>1, <2>2 DEF IntactInv, IntactIsStream
  <2>4. PICK e \in 2 .. Len(Held("packed")) : EndsAt(Held("packed"), intact, e)
    BY <2>3 DEF IsStream
  <2>5. 0 \in Nat /\ e \in Nat /\ 0 < e
    BY <1>2
  <2>6. ReadTo(Held("packed"), 0)'
    BY <1>1, <1>2, <2>1 DEF ReadTo
  <2>7. OnTheWay(Held("packed"), 0, e)'
    BY <1>1, <2>1, <2>4, <2>5, <2>6 DEF OnTheWay, SoFar, Reached
  <2> QED BY <2>5, <2>7
<1> QED BY <1>4, <1>5 DEF UncompressZlib

\* Packed bytes that nobody has altered are never refused by inf(): they are a stream, and inf()
\* is never ahead of it or behind it, wherever the ends of the buffers are.
THEOREM IntactAccepted == Spec => []IntactIsAccepted
<1>1. Init => IntactInv
  BY DEF Init, IntactInv, IntactIsStream, IntactIsRead, IntactIsAccepted, Unpacking, NoCall, Window
<1>2. IInv /\ IInv' /\ IntactInv /\ [Next]_vars => IntactInv'
  <2> SUFFICES ASSUME IInv, IInv', IntactInv, [Next]_vars PROVE IntactInv'
    OBVIOUS
  <2>1. PackedOK
    BY DEF IInv
  <2>2. ASSUME NEW n \in 0 .. MaxSize, Edit(n) PROVE IntactInv'
    <3>1. Document(n) \in Seq(Bytes)
      <4>1. n \in Nat
        BY BoundAssumption
      <4> QED BY <4>1, DocumentType
    <3>2. Held("packed")' = Held("packed")
      BY <2>1, <2>2, <3>1, RenewHolds DEF Edit, Holder
    <3> QED BY <2>2, <3>2, DoneIsOver, RestIsIntact DEF Edit, Turn
  <2>3. CASE Empty
    <3>1. << >> \in Seq(Bytes)
      OBVIOUS
    <3>2. Held("packed")' = Held("packed")
      BY <2>1, <2>3, <3>1, RenewHolds DEF Empty, Holder
    <3> QED BY <2>3, <3>2, DoneIsOver, RestIsIntact DEF Empty, Turn
  <2>4. CASE Carry
    BY <2>4, CarryIsIntact
  <2>5. CASE CompressNone
    BY <2>5, RestIsIntact DEF CompressNone, Turn, Begin, Unpacking, Window
  <2>6. CASE CompressZStd
    BY <2>6, RestIsIntact DEF CompressZStd, Turn, Begin, Unpacking, Window
  <2>7. ASSUME NEW type \in Window, CompressZlib(type) PROVE IntactInv'
    BY <2>7, CompressZlibIsIntact
  <2>8. CASE Read
    BY <2>8, ReadIsIntact
  <2>9. CASE Deflate
    BY <2>9, DeflateIsIntact
  <2>10. CASE UncompressNone
    <3>1. Held("packed")' = Held("packed")
      BY <2>1, <2>10, ShareHolds DEF UncompressNone, Holder
    <3> QED BY <2>10, <3>1, RestIsIntact DEF UncompressNone, Turn, Begin, Unpacking, Window
  <2>11. CASE UncompressZStd
    <3>1. Held("packed")' = Held("packed")
      <4>1. p' = p /\ p["output"] # p["packed"]
        BY <2>11 DEF UncompressZStd, MayUnpack
      <4>2. blob' = blob \/ \E bytes : blob' = [blob EXCEPT ![p["output"]] = bytes]
        BY <2>11 DEF UncompressZStd, EmptyZStd, FrameZStd, OtherZStd, Overwrite
      <4> QED BY <2>1, <4>1, <4>2 DEF Held, PackedOK, Holder
    <3>2. pc' \in {"returned", "thrown"} /\ ~Unpacking' /\ Quiet /\ intact' = intact
      BY <2>11 DEF UncompressZStd, EmptyZStd, FrameZStd, OtherZStd, MayUnpack, Turn, Begin, Unpacking, Window
    <3> QED BY <3>1, <3>2, RestIsIntact
  <2>12. ASSUME NEW type \in Window, NEW skipCRC \in BOOLEAN, UncompressZlib(type, skipCRC) PROVE IntactInv'
    BY <2>12, UncompressZlibIsIntact
  <2>13. CASE Feed
    BY <2>13, FeedIsIntact
  <2>14. CASE Inflate
    BY <2>14, InflateIsIntact
  <2>15. CASE InflateFails
    <3>1. /\ UNCHANGED <<blob, p, call, intact>> /\ pc = "inflate" /\ pc' = "thrown" /\ strm'.mode = "lost"
          /\ Held("packed")' = Held("packed")
      BY <2>1, <2>15 DEF InflateFails, PackedOK, Stream, Held
    <3> QED BY <3>1 DEF IntactInv, IntactIsStream, IntactIsRead, IntactIsAccepted
  <2>16. CASE UNCHANGED vars
    <3>1. Held("packed")' = Held("packed")
      BY <2>16 DEF vars, Held
    <3>2. IntactIsStream' /\ IntactIsAccepted'
      BY <2>16, <3>1 DEF vars, IntactInv, IntactIsStream, IntactIsAccepted, Begun, Unpacking
    <3>3. \A c, e : OnTheWay(Held("packed"), c, e)' <=> OnTheWay(Held("packed"), c, e)
      BY <2>16, <3>1 DEF vars, OnTheWay, SoFar, ReadTo
    <3>4. IntactIsRead'
      BY <2>16, <3>1, <3>3 DEF vars, IntactInv, IntactIsRead, Unpacking
    <3> QED BY <3>2, <3>4 DEF IntactInv
  <2> QED BY <2>2, <2>3, <2>4, <2>5, <2>6, <2>7, <2>8, <2>9, <2>10, <2>11, <2>12, <2>13, <2>14,
             <2>15, <2>16 DEF Next
<1>3. IntactInv => IntactIsAccepted
  BY DEF IntactInv
<1> QED BY <1>1, <1>2, <1>3, Invariant, PTL DEF Spec

-----------------------------------------------------------------------------
(* The options of a command line: what parseArgs() stores is of the call,  *)
(* and what it has stored it keeps from call to call.                      *)

\* The elements of S below n.
Below(S, n) == {m \in S : m < n}

\* The elements of a finite set have the places 1 .. Cardinality(S), one each, in their order.
LEMMA Enumerated ==
    ASSUME NEW S \in SUBSET Int, IsFiniteSet(S)
    PROVE  /\ Cardinality(S) \in Nat
           /\ \A i \in 1 .. Cardinality(S) : Nth(S, i) \in S
           /\ \A n \in S : \E i \in 1 .. Cardinality(S) : Nth(S, i) = n
           /\ \A i, j \in 1 .. Cardinality(S) : i < j => Nth(S, i) < Nth(S, j)
<1> DEFINE c == Cardinality(S)
           place == [n \in S |-> Cardinality(Below(S, n)) + 1]
<1>1. c \in Nat /\ IsFiniteSet(1 .. c) /\ Cardinality(1 .. c) = c
  BY FS_CardinalityType, FS_Interval
<1>2. ASSUME NEW n \in S
      PROVE  Cardinality(Below(S, n)) \in Nat /\ IsFiniteSet(Below(S, n)) /\ Cardinality(Below(S, n)) < c
  <2>1. Below(S, n) \subseteq S /\ Below(S, n) # S
    BY DEF Below
  <2> QED BY <1>1, <2>1, FS_Subset, FS_CardinalityType
<1>3. ASSUME NEW m \in S, NEW n \in S, m < n
      PROVE  place[m] < place[n]
  <2>0. m \in Int /\ n \in Int /\ \A l \in S : l \in Int /\ (l < m => l < n)
    BY <1>3
  <2>1. Below(S, m) \subseteq Below(S, n) /\ m \in Below(S, n) /\ m \notin Below(S, m)
    <3> HIDE DEF place, c
    <3>1. Below(S, m) \subseteq Below(S, n)
      BY <2>0 DEF Below
    <3>2. m \in Below(S, n)
      BY <1>3 DEF Below
    <3>3. ~(m < m)
      BY <2>0
    <3>4. m \notin Below(S, m)
      BY <3>3 DEF Below
    <3> QED BY <3>1, <3>2, <3>4
  <2>2. Below(S, m) # Below(S, n)
    BY <2>1
  <2>3. Cardinality(Below(S, m)) < Cardinality(Below(S, n))
    BY <1>2, <2>1, <2>2, FS_Subset
  <2> QED BY <1>2, <2>3
<1>4. place \in [S -> 1 .. c]
  BY <1>1, <1>2
<1>5. \A m, n \in S : place[m] = place[n] => m = n
  <2> SUFFICES ASSUME NEW m \in S, NEW n \in S, place[m] = place[n] PROVE m = n
    OBVIOUS
  <2>1. ~(m < n) /\ ~(n < m)
    <3>1. place[m] \in Int
      BY <1>1, <1>4
    <3> HIDE DEF place
    <3> QED BY <1>3, <3>1
  <2> QED BY <2>1
<1>6. place \in Surjection(S, 1 .. c)
  <2> HIDE DEF place, c
  <2>1. place \in Injection(S, 1 .. c)
    BY <1>4, <1>5 DEF Injection, IsInjective
  <2> QED BY <1>1, <2>1, FS_Injection DEF c
<1>7. ASSUME NEW i \in 1 .. c PROVE Nth(S, i) \in S /\ place[Nth(S, i)] = i
  <2>1. PICK n \in S : place[n] = i
    <3> HIDE DEF place
    <3> QED BY <1>6 DEF Surjection
  <2>2. Cardinality({m \in S : m < n}) = i - 1
    <3>1. Cardinality(Below(S, n)) = i - 1
      BY <1>2, <2>1
    <3> QED BY <3>1 DEF Below
  <2>3. Nth(S, i) \in S /\ Cardinality({m \in S : m < Nth(S, i)}) = i - 1
    BY <2>2 DEF Nth
  <2>4. Cardinality(Below(S, Nth(S, i))) = i - 1
    BY <2>3 DEF Below
  <2> QED BY <1>1, <2>3, <2>4
<1>8. ASSUME NEW n \in S PROVE \E i \in 1 .. c : Nth(S, i) = n
  <2>1. place[n] \in 1 .. c
    BY <1>4
  <2>2. Nth(S, place[n]) \in S /\ place[Nth(S, place[n])] = place[n]
    <3> HIDE DEF place
    <3> QED BY <1>7, <2>1
  <2>3. Nth(S, place[n]) = n
    <3> HIDE DEF place
    <3> QED BY <1>5, <2>2
  <2> QED BY <2>1, <2>3
<1>9. ASSUME NEW i \in 1 .. c, NEW j \in 1 .. c, i < j PROVE Nth(S, i) < Nth(S, j)
  <2>1. Nth(S, i) \in S /\ Nth(S, j) \in S /\ place[Nth(S, i)] = i /\ place[Nth(S, j)] = j
    BY <1>7
  <2>2. i \in Int /\ j \in Int /\ Nth(S, i) \in Int /\ Nth(S, j) \in Int
    <3>1. Nth(S, i) \in Int /\ Nth(S, j) \in Int
      BY <2>1
    <3> HIDE DEF place, c
    <3> QED BY <1>1, <3>1
  <2>3. Nth(S, i) # Nth(S, j)
    <3> HIDE DEF place
    <3> QED BY <1>9, <2>1, <2>2
  <2>4. ~(Nth(S, j) < Nth(S, i))
    <3>1. SUFFICES ASSUME Nth(S, j) < Nth(S, i) PROVE FALSE
      OBVIOUS
    <3>2. place[Nth(S, j)] < place[Nth(S, i)]
      BY <1>3, <2>1, <3>1
    <3> HIDE DEF place
    <3> QED BY <1>9, <2>1, <2>2, <3>2
  <2> QED BY <2>2, <2>3, <2>4
<1> QED BY <1>1, <1>7, <1>8, <1>9

\* The largest of them.
LEMMA Largest ==
    ASSUME NEW S \in SUBSET Int, IsFiniteSet(S), S # {}
    PROVE  Max(S) \in S /\ \A n \in S : n <= Max(S)
<1> DEFINE c == Cardinality(S)
<1>1. c \in Nat /\ c # 0
  BY FS_CardinalityType, FS_EmptySet
<1>2. Nth(S, c) \in S
  BY <1>1, Enumerated
<1>3. ASSUME NEW n \in S PROVE Nth(S, c) >= n
  <2>1. PICK i \in 1 .. c : Nth(S, i) = n
    BY Enumerated
  <2>2. CASE i = c
    BY <1>2, <2>1, <2>2
  <2>3. CASE i < c
    <3>1. Nth(S, i) < Nth(S, c)
      BY <1>1, <2>3, Enumerated
    <3>2. Nth(S, c) \in Int /\ n \in Int
      BY <1>2
    <3> HIDE DEF c
    <3> QED BY <2>1, <3>1, <3>2
  <2> HIDE DEF c
  <2> QED BY <1>1, <2>1, <2>2, <2>3
<1>4. \E x \in S : \A y \in S : x >= y
  BY <1>2, <1>3
<1>5. Max(S) \in S /\ \A y \in S : Max(S) >= y
  BY <1>4 DEF Max
<1> QED BY <1>5

-----------------------------------------------------------------------------
(* Values and pairs. *)

\* splitLine() finds the words of a value, in their order.
LEMMA SplitIsWords ==
    ASSUME NEW value \in Seq(Part)
    PROVE  /\ splitLine(value) \in Seq(Part \ {"", " "})
           /\ Lists(splitLine(value), value)
           /\ Len(splitLine(value)) = Cardinality({k \in DOMAIN value : value[k] \notin {"", " "}})
           /\ Len(splitLine(value)) \in Nat
<1> DEFINE S == Words(value)
           c == Cardinality(S)
           list == [i \in 1 .. c |-> value[Nth(S, i)]]
<1>1. DOMAIN value = 1 .. Len(value) /\ Len(value) \in Nat
  OBVIOUS
<1>2. S \subseteq 1 .. Len(value) /\ IsFiniteSet(S) /\ S \in SUBSET Int
  <2>1. S \subseteq 1 .. Len(value)
    BY <1>1 DEF Words
  <2>2. IsFiniteSet(1 .. Len(value))
    BY <1>1, FS_Interval
  <2>3. 1 .. Len(value) \subseteq Int
    BY <1>1
  <2> HIDE DEF S
  <2> QED BY <2>1, <2>2, <2>3, FS_Subset
<1>3. /\ c \in Nat
      /\ \A i \in 1 .. c : Nth(S, i) \in S
      /\ \A n \in S : \E i \in 1 .. c : Nth(S, i) = n
      /\ \A i, j \in 1 .. c : i < j => Nth(S, i) < Nth(S, j)
  <2> HIDE DEF S
  <2> QED BY <1>2, Enumerated
<1>4. splitLine(value) = list
  BY DEF splitLine
<1>5. ASSUME NEW k \in S PROVE value[k] \in Part \ {"", " "}
  <2>1. k \in DOMAIN value /\ value[k] \notin {"", " "}
    BY DEF Words
  <2>2. k \in 1 .. Len(value)
    BY <1>1, <2>1
  <2>3. value[k] \in Part
    <3> HIDE DEF S
    <3> QED BY <1>1, <2>2
  <2> QED BY <2>1, <2>3
<1>6. list \in [1 .. c -> Part \ {"", " "}]
  <2> HIDE DEF S, c
  <2> QED BY <1>3, <1>5
<1>7. list \in Seq(Part \ {"", " "}) /\ Len(list) = c /\ DOMAIN list = 1 .. c
  <2> DEFINE T == Part \ {"", " "}
  <2>1. c \in Nat /\ list \in [1 .. c -> T]
    BY <1>3, <1>6
  <2>2. list \in Seq(T) /\ Len(list) = c /\ DOMAIN list = 1 .. c
    <3> HIDE DEF T, c, list
    <3> QED BY <2>1
  <2> QED BY <2>2
<1>8. Lists(list, value)
  <2> DEFINE place == [i \in DOMAIN list |-> Nth(S, i)]
  <2>1. place \in [DOMAIN list -> DOMAIN value]
    <3> HIDE DEF S, c
    <3> QED BY <1>1, <1>2, <1>3, <1>7
  <2>2. \A i, j \in DOMAIN list : i < j => place[i] < place[j]
    <3> HIDE DEF S, c
    <3> QED BY <1>3, <1>7
  <2>3. \A i \in DOMAIN list : list[i] = value[place[i]]
    BY <1>7
  <2>4. {place[i] : i \in DOMAIN list} = S
    <3> HIDE DEF S, c
    <3> QED BY <1>3, <1>7
  <2>5. {place[i] : i \in DOMAIN list} = {k \in DOMAIN value : value[k] \notin {"", " "}}
    BY <2>4 DEF Words
  <2> HIDE DEF place, list
  <2> QED BY <2>1, <2>2, <2>3, <2>5 DEF Lists
<1>9. c = Cardinality({k \in DOMAIN value : value[k] \notin {"", " "}})
  BY DEF Words
<1> QED BY <1>3, <1>4, <1>7, <1>8, <1>9

\* What the pairs of a call are.
LEMMA GivenType ==
    ASSUME given \in Arguments
    PROVE  /\ \E k \in Nat : DOMAIN given.pairs = 1 .. k
           /\ \A i \in DOMAIN given.pairs : given.pairs[i] \in Pair /\ given.pairs[i].value \in Seq(Part) \ {<< >>}
<1>1. given.pairs \in PairsUpTo(MaxPairs) \/ given.pairs \in PairsUpTo(1)
  BY DEF Arguments
<1>2. ASSUME NEW n \in Nat, given.pairs \in PairsUpTo(n)
      PROVE  \E k \in Nat : given.pairs \in [1 .. k -> Pair]
  BY <1>2 DEF PairsUpTo
<1>3. PICK k \in Nat : given.pairs \in [1 .. k -> Pair]
  BY <1>1, <1>2, MaxPairsAssumption
<1> QED BY <1>3, PairAssumption

\* The value of an option is the one it is given last.
LEMMA ValueIsLast ==
    ASSUME given \in Arguments, NEW n \in Named(given)
    PROVE  /\ \E i \in DOMAIN given.pairs : Final(i) /\ given.pairs[i].name = n
           /\ \A i \in DOMAIN given.pairs :
                 Final(i) /\ given.pairs[i].name = n => ValueOf(given, n) = given.pairs[i].value
           /\ ValueOf(given, n) \in Seq(Part) \ {<< >>}
<1> DEFINE S == Naming(given, n)
           last == Max(S)
<1>1. PICK k \in Nat : DOMAIN given.pairs = 1 .. k
  BY GivenType
<1>2. S \in SUBSET Int /\ IsFiniteSet(S) /\ S # {}
  <2>1. S \subseteq 1 .. k
    BY <1>1 DEF Naming
  <2>2. S # {}
    BY DEF Named, Naming
  <2> QED BY <2>1, <2>2, FS_Interval, FS_Subset
<1>3. last \in S /\ \A i \in S : i <= last
  <2> HIDE DEF S
  <2> QED BY <1>2, Largest
<1>4. last \in DOMAIN given.pairs /\ given.pairs[last].name = n
  BY <1>3 DEF Naming
<1>5. Final(last)
  <2>1. ASSUME NEW j \in DOMAIN given.pairs, j > last PROVE given.pairs[j].name # given.pairs[last].name
    <3>1. SUFFICES ASSUME given.pairs[j].name = n PROVE FALSE
      BY <1>4
    <3>2. j \in S
      BY <3>1 DEF Naming
    <3>3. j <= last /\ j \in Int /\ last \in Int
      <4> HIDE DEF S, last
      <4> QED BY <1>1, <1>3, <1>4, <3>2
    <3> HIDE DEF last
    <3> QED BY <2>1, <3>3
  <2> HIDE DEF last
  <2> QED BY <1>4, <2>1 DEF Final
<1>6. ValueOf(given, n) = given.pairs[last].value
  BY DEF ValueOf
<1>7. ASSUME NEW i \in DOMAIN given.pairs, Final(i), given.pairs[i].name = n PROVE i = last
  <2>1. i \in S
    BY <1>7 DEF Naming
  <2>2. i <= last /\ i \in Int /\ last \in Int
    <3> HIDE DEF S, last
    <3> QED BY <1>1, <1>3, <1>4, <2>1
  <2>3. ~(last > i)
    <3> HIDE DEF last
    <3> QED BY <1>4, <1>7 DEF Final
  <2> HIDE DEF last
  <2> QED BY <2>2, <2>3
<1>8. ValueOf(given, n) \in Seq(Part) \ {<< >>}
  <2> HIDE DEF last
  <2> QED BY <1>4, <1>6, GivenType
<1> HIDE DEF last
<1> QED BY <1>4, <1>5, <1>6, <1>7, <1>8

-----------------------------------------------------------------------------
(* The invariant. *)

LEMMA InitOptionsIsRight == InitOptions => OptionsInvariant
<1> SUFFICES ASSUME InitOptions PROVE OptionsInvariant
  OBVIOUS
<1>1. None \in Arguments
  <2>1. << >> \in [1 .. 0 -> Pair]
    OBVIOUS
  <2>2. << >> \in PairsUpTo(MaxPairs)
    BY <2>1, MaxPairsAssumption DEF PairsUpTo
  <2> QED BY <2>2 DEF None, Arguments
<1>2. DOMAIN << >> = {}
  OBVIOUS
<1>3. /\ args \in [DOMAIN args -> Seq(Part) \ {<< >>}] /\ DOMAIN args = {}
      /\ multiArgs \in [DOMAIN multiArgs -> Seq(Part \ {"", " "})] /\ DOMAIN multiArgs = {}
  BY <1>2 DEF InitOptions
<1> QED BY <1>1, <1>3 DEF InitOptions, OptionsInvariant, OptionsTypeOK, EmptyIsEarly

\* What is stored of a call.
LEMMA StoredIs ==
    ASSUME OptionsTypeOK, NEW n \in Stored(given)
    PROVE  /\ n \in Named(given) /\ n \in Single \cup Multi
           /\ ValueOf(given, n) \in Seq(Part) \ {<< >>}
           /\ n \in Single => Len(splitLine(ValueOf(given, n))) <= 1
           /\ n \in required => IF n \in Single THEN ValueOf(given, n) # Blank
                                ELSE splitLine(ValueOf(given, n)) # << >>
<1>1. n \in Named(given) /\ ~Refuses(n, ValueOf(given, n))
  BY DEF Stored
<1>2. ValueOf(given, n) \in Seq(Part) \ {<< >>}
  BY <1>1, ValueIsLast DEF OptionsTypeOK
<1>3. Len(splitLine(ValueOf(given, n))) \in Nat
  BY <1>2, SplitIsWords
<1> QED BY <1>1, <1>2, <1>3 DEF Refuses

\* What a call changes, if it is not refused as a whole.
LEMMA ParseStores ==
    ASSUME OptionsTypeOK, parseArgs, ~Malformed(given)
    PROVE  /\ DOMAIN args' = DOMAIN args \cup (Stored(given) \cap Single)
           /\ \A n \in DOMAIN args' :
                 args'[n] = IF n \in Stored(given) THEN ValueOf(given, n) ELSE args[n]
           /\ DOMAIN multiArgs' = DOMAIN multiArgs \cup (Stored(given) \ Single)
           /\ \A n \in DOMAIN multiArgs' :
                 multiArgs'[n] = IF n \in Stored(given) THEN splitLine(ValueOf(given, n)) ELSE multiArgs[n]
           /\ args' \in [DOMAIN args' -> Seq(Part) \ {<< >>}]
           /\ multiArgs' \in [DOMAIN multiArgs' -> Seq(Part \ {"", " "})]
<1> DEFINE D == DOMAIN args \cup (Stored(given) \cap Single)
           E == DOMAIN multiArgs \cup (Stored(given) \ Single)
           a(n) == IF n \in Stored(given) THEN ValueOf(given, n) ELSE args[n]
           m(n) == IF n \in Stored(given) THEN splitLine(ValueOf(given, n)) ELSE multiArgs[n]
<1>1. args' = [n \in D |-> a(n)] /\ multiArgs' = [n \in E |-> m(n)]
  BY DEF parseArgs
<1>2. ASSUME NEW n \in D PROVE a(n) \in Seq(Part) \ {<< >>}
  <2>1. CASE n \in Stored(given)
    BY <2>1, StoredIs
  <2>2. CASE n \notin Stored(given)
    BY <2>2 DEF OptionsTypeOK
  <2> QED BY <2>1, <2>2
<1>3. ASSUME NEW n \in E PROVE m(n) \in Seq(Part \ {"", " "})
  <2>1. CASE n \in Stored(given)
    <3>1. ValueOf(given, n) \in Seq(Part)
      BY <2>1, StoredIs
    <3> QED BY <2>1, <3>1, SplitIsWords
  <2>2. CASE n \notin Stored(given)
    BY <2>2 DEF OptionsTypeOK
  <2> QED BY <2>1, <2>2
<1>4. /\ DOMAIN args' = D /\ \A n \in D : args'[n] = a(n)
      /\ DOMAIN multiArgs' = E /\ \A n \in E : multiArgs'[n] = m(n)
  <2> HIDE DEF D, E, a, m
  <2> QED BY <1>1
<1>5. args' \in [D -> Seq(Part) \ {<< >>}] /\ multiArgs' \in [E -> Seq(Part \ {"", " "})]
  <2> HIDE DEF D, E, a, m
  <2> QED BY <1>1, <1>2, <1>3
<1> QED BY <1>4, <1>5

LEMMA ParseIsRight == OptionsInvariant /\ parseArgs => OptionsInvariant'
<1> SUFFICES ASSUME OptionsInvariant, parseArgs PROVE OptionsInvariant'
  OBVIOUS
<1>0. OptionsTypeOK /\ EmptyIsEarly
  BY DEF OptionsInvariant
<1>1. None \in Arguments
  <2>1. << >> \in [1 .. 0 -> Pair]
    OBVIOUS
  <2>2. << >> \in PairsUpTo(MaxPairs)
    BY <2>1, MaxPairsAssumption DEF PairsUpTo
  <2> QED BY <2>2 DEF None, Arguments
<1>2. given' \in Arguments /\ required' \subseteq Single \cup Multi /\ required' = required /\ result' \in BOOLEAN
  BY <1>0, <1>1 DEF parseArgs, OptionsTypeOK
<1>3. CASE Malformed(given)
  <2>1. args' = args /\ multiArgs' = multiArgs /\ early' = early
    BY <1>3 DEF parseArgs
  <2>2. OptionsTypeOK'
    BY <1>0, <1>2, <2>1 DEF OptionsTypeOK
  <2>3. EmptyIsEarly'
    BY <1>0, <2>1 DEF EmptyIsEarly
  <2> QED BY <2>2, <2>3 DEF OptionsInvariant
<1>4. CASE ~Malformed(given)
  <2>1. early' = (early \ Stored(given)) \cup (Stored(given) \ required)
    BY <1>4 DEF parseArgs
  <2>2. DOMAIN args' \subseteq Single /\ DOMAIN multiArgs' \cap Single = {}
    BY <1>0, <1>4, ParseStores DEF OptionsTypeOK
  <2>3. OptionsTypeOK'
    BY <1>0, <1>2, <1>4, <2>2, ParseStores DEF OptionsTypeOK
  <2>4. ASSUME NEW n \in DOMAIN args', args'[n] = Blank PROVE n \in early'
    <3>1. CASE n \in Stored(given)
      <4>1. ValueOf(given, n) = Blank
        BY <1>0, <1>4, <2>4, <3>1, ParseStores
      <4>2. n \in Single
        BY <2>2
      <4>3. n \notin required
        BY <1>0, <3>1, <4>1, <4>2, StoredIs
      <4> QED BY <2>1, <3>1, <4>3
    <3>2. CASE n \notin Stored(given)
      <4>1. n \in DOMAIN args /\ args[n] = Blank
        BY <1>0, <1>4, <2>4, <3>2, ParseStores
      <4> QED BY <1>0, <2>1, <3>2, <4>1 DEF EmptyIsEarly
    <3> QED BY <3>1, <3>2
  <2>5. ASSUME NEW n \in DOMAIN multiArgs', multiArgs'[n] = << >> PROVE n \in early'
    <3>1. CASE n \in Stored(given)
      <4>1. splitLine(ValueOf(given, n)) = << >>
        BY <1>0, <1>4, <2>5, <3>1, ParseStores
      <4>2. n \notin Single
        BY <2>2
      <4>3. n \notin required
        BY <1>0, <3>1, <4>1, <4>2, StoredIs
      <4> QED BY <2>1, <3>1, <4>3
    <3>2. CASE n \notin Stored(given)
      <4>1. n \in DOMAIN multiArgs /\ multiArgs[n] = << >>
        BY <1>0, <1>4, <2>5, <3>2, ParseStores
      <4> QED BY <1>0, <2>1, <3>2, <4>1 DEF EmptyIsEarly
    <3> QED BY <3>1, <3>2
  <2>6. EmptyIsEarly'
    BY <2>4, <2>5 DEF EmptyIsEarly
  <2> QED BY <2>3, <2>6 DEF OptionsInvariant
<1> QED BY <1>3, <1>4

LEMMA OptionsKept == OptionsInvariant /\ [NextOptions]_options => OptionsInvariant'
<1> SUFFICES ASSUME OptionsInvariant, [NextOptions]_options PROVE OptionsInvariant'
  OBVIOUS
<1>1. ASSUME NEW names \in SUBSET (Single \cup Multi), markRequired(names) PROVE OptionsInvariant'
  BY <1>1 DEF markRequired, OptionsInvariant, OptionsTypeOK, EmptyIsEarly
<1>2. CASE Give
  BY <1>2 DEF Give, OptionsInvariant, OptionsTypeOK, EmptyIsEarly
<1>3. CASE parseArgs
  BY <1>3, ParseIsRight
<1>4. CASE UNCHANGED options
  BY <1>4 DEF options, OptionsInvariant, OptionsTypeOK, EmptyIsEarly
<1> QED BY <1>1, <1>2, <1>3, <1>4 DEF NextOptions

\* Single options have one value each, others lists of words, and what is empty of a required
\* option was stored before it was required, whatever a program declares and is given.
THEOREM OptionsAreKept == SpecOptions => []OptionsInvariant
BY InitOptionsIsRight, OptionsKept, PTL DEF SpecOptions

-----------------------------------------------------------------------------
(* What a call does. *)

\* An option that is stored answers with the value it is given last.
LEMMA StoredAnswers ==
    ASSUME OptionsTypeOK, parseArgs, ~Malformed(given), NEW n \in Stored(given),
           NEW i \in DOMAIN given.pairs, Final(i), given.pairs[i].name = n
    PROVE  /\ Gives(given.pairs[i], Answer(n)')
           /\ n \in Single => Cardinality({k \in DOMAIN Answer(n)' : Answer(n)'[k] \notin {"", " "}}) <= 1
<1> DEFINE v == given.pairs[i].value
<1>1. n \in Named(given) /\ ValueOf(given, n) = v /\ v \in Seq(Part)
  <2>1. n \in Named(given)
    BY DEF Stored
  <2>2. given \in Arguments
    BY DEF OptionsTypeOK
  <2>3. ValueOf(given, n) = given.pairs[i].value /\ ValueOf(given, n) \in Seq(Part)
    BY <2>1, <2>2, ValueIsLast
  <2> QED BY <2>1, <2>3
<1>2. Lists(splitLine(v), v) /\ Len(splitLine(v)) = Cardinality({k \in DOMAIN v : v[k] \notin {"", " "}})
  <2> HIDE DEF v
  <2> QED BY <1>1, SplitIsWords
<1>3. CASE n \in Single
  <2>1. n \in DOMAIN args' /\ args'[n] = v
    <3> HIDE DEF v
    <3> QED BY <1>1, <1>3, ParseStores
  <2>2. Answer(n)' = v
    BY <1>3, <2>1 DEF Answer, getArg
  <2>3. Len(splitLine(v)) <= 1
    <3> HIDE DEF v
    <3> QED BY <1>1, <1>3, StoredIs
  <2> QED BY <1>2, <1>3, <2>2, <2>3 DEF Gives
<1>4. CASE n \notin Single
  <2>1. n \in DOMAIN multiArgs' /\ multiArgs'[n] = splitLine(v)
    <3> HIDE DEF v
    <3> QED BY <1>1, <1>4, ParseStores
  <2>2. Answer(n)' = splitLine(v)
    BY <1>4, <2>1 DEF Answer, getMultiArg
  <2> QED BY <1>2, <1>4, <2>2 DEF Gives
<1> QED BY <1>3, <1>4

\* The others keep their answers.
LEMMA OthersAnswer ==
    ASSUME OptionsTypeOK, parseArgs, ~Malformed(given), NEW n, n \notin Stored(given)
    PROVE  Answer(n)' = Answer(n)
<1>1. CASE n \in Single
  <2>1. n \in DOMAIN args' <=> n \in DOMAIN args
    BY ParseStores
  <2>2. n \in DOMAIN args' => args'[n] = args[n]
    BY ParseStores
  <2> QED BY <1>1, <2>1, <2>2 DEF Answer, getArg
<1>2. CASE n \notin Single
  <2>1. n \in DOMAIN multiArgs' <=> n \in DOMAIN multiArgs
    BY ParseStores
  <2>2. n \in DOMAIN multiArgs' => multiArgs'[n] = multiArgs[n]
    BY ParseStores
  <2> QED BY <1>2, <2>1, <2>2 DEF Answer, getMultiArg
<1> QED BY <1>1, <1>2

\* Whatever a program declares and requires and whatever it is given, one call after another:
\* arguments that are accepted leave no required option without a value, nor with an empty one it
\* was given while it was required, and each option has the last value it was given.
THEOREM AcceptedLeavesNothingOut == SpecOptions => AcceptedIsComplete
<1>1. ASSUME OptionsInvariant, OptionsInvariant', parseArgs, result'
      PROVE  /\ \A n \in required :
                   /\ n \in DOMAIN args' \cup DOMAIN multiArgs'
                   /\ n \notin early' => Answer(n)' \notin {Blank, << >>}
             /\ \A n \in Option, i \in DOMAIN given.pairs :
                   Final(i) /\ given.pairs[i].name = n => Gives(given.pairs[i], Answer(n)')
  <2>0. OptionsTypeOK /\ OptionsTypeOK' /\ EmptyIsEarly'
    BY <1>1 DEF OptionsInvariant
  <2>1. ~Malformed(given) /\ Stored(given) = Named(given) /\ required \subseteq DOMAIN args' \cup DOMAIN multiArgs'
    BY <1>1 DEF parseArgs
  <2>2. ASSUME NEW n \in required, n \notin early' PROVE Answer(n)' \notin {Blank, << >>}
    <3>1. CASE n \in Single
      <4>1. n \in DOMAIN args'
        BY <2>0, <2>1, <3>1 DEF OptionsTypeOK
      <4>2. args'[n] # Blank
        BY <2>0, <2>2, <4>1 DEF EmptyIsEarly
      <4>3. args'[n] # << >>
        BY <2>0, <4>1 DEF OptionsTypeOK
      <4> QED BY <3>1, <4>1, <4>2, <4>3 DEF Answer, getArg
    <3>2. CASE n \notin Single
      <4>1. n \in DOMAIN multiArgs'
        BY <2>0, <2>1, <3>2 DEF OptionsTypeOK
      <4>2. multiArgs'[n] # << >>
        BY <2>0, <2>2, <4>1 DEF EmptyIsEarly
      <4>3. multiArgs'[n] \in Seq(Part \ {"", " "})
        BY <2>0, <4>1 DEF OptionsTypeOK
      <4>4. Blank \notin Seq(Part \ {"", " "})
        <5>1. Len(Blank) = 1 /\ Blank[1] = ""
          BY DEF Blank
        <5>2. SUFFICES ASSUME Blank \in Seq(Part \ {"", " "}) PROVE FALSE
          OBVIOUS
        <5>3. Blank[1] \in Part \ {"", " "}
          <6>1. \A x \in Seq(Part \ {"", " "}) : Len(x) = 1 => x[1] \in Part \ {"", " "}
            <7> DEFINE T == Part \ {"", " "}
            <7> HIDE DEF T
            <7>1. \A x \in Seq(T) : Len(x) = 1 => x[1] \in T
              OBVIOUS
            <7> QED BY <7>1 DEF T
          <6> QED BY <5>1, <5>2, <6>1
        <5> QED BY <5>1, <5>3
      <4> QED BY <3>2, <4>1, <4>2, <4>3, <4>4 DEF Answer, getMultiArg
    <3> QED BY <3>1, <3>2
  <2>3. ASSUME NEW i \in DOMAIN given.pairs, Final(i)
        PROVE  \A n \in Option : given.pairs[i].name = n => Gives(given.pairs[i], Answer(n)')
    <3> SUFFICES ASSUME NEW n \in Option, given.pairs[i].name = n PROVE Gives(given.pairs[i], Answer(n)')
      OBVIOUS
    <3>1. n \in Stored(given)
      BY <2>1 DEF Named
    <3> QED BY <1>1, <2>0, <2>1, <2>3, <3>1, StoredAnswers
  <2> QED BY <2>1, <2>2, <2>3
<1>2. OptionsInvariant /\ OptionsInvariant' =>
        (parseArgs /\ result' =>
             /\ \A n \in required :
                   /\ n \in DOMAIN args' \cup DOMAIN multiArgs'
                   /\ n \notin early' => Answer(n)' \notin {Blank, << >>}
             /\ \A n \in Option, i \in DOMAIN given.pairs :
                   Final(i) /\ given.pairs[i].name = n => Gives(given.pairs[i], Answer(n)'))
  BY <1>1
<1> QED BY <1>2, OptionsAreKept, PTL DEF AcceptedIsComplete

\* In the same programs a call, accepted or not, leaves each option the value it had or gives it
\* the last one of the call, whole, and one only if it is a single option; and arguments that are
\* not pairs change nothing.
THEOREM ChangesAreGiven == SpecOptions => ChangedOnlyAsGiven
<1>1. ASSUME OptionsInvariant, parseArgs, NEW n \in Option
      PROVE  \/ Answer(n)' = Answer(n)
             \/ \E i \in DOMAIN given.pairs :
                   /\ Final(i) /\ given.pairs[i].name = n /\ Gives(given.pairs[i], Answer(n)')
                   /\ n \in Single => Cardinality({k \in DOMAIN Answer(n)' : Answer(n)'[k] \notin {"", " "}}) <= 1
  <2>0. OptionsTypeOK
    BY <1>1 DEF OptionsInvariant
  <2>1. CASE Malformed(given)
    <3>1. args' = args /\ multiArgs' = multiArgs
      BY <1>1, <2>1 DEF parseArgs
    <3> QED BY <3>1 DEF Answer, getArg, getMultiArg
  <2>2. CASE ~Malformed(given) /\ n \in Stored(given)
    <3>1. n \in Named(given)
      BY <2>2 DEF Stored
    <3>2. PICK i \in DOMAIN given.pairs : Final(i) /\ given.pairs[i].name = n
      BY <2>0, <3>1, ValueIsLast DEF OptionsTypeOK
    <3>3. /\ Gives(given.pairs[i], Answer(n)')
          /\ n \in Single => Cardinality({k \in DOMAIN Answer(n)' : Answer(n)'[k] \notin {"", " "}}) <= 1
      BY <1>1, <2>0, <2>2, <3>2, StoredAnswers
    <3> QED BY <3>2, <3>3
  <2>3. CASE ~Malformed(given) /\ n \notin Stored(given)
    BY <1>1, <2>0, <2>3, OthersAnswer
  <2> QED BY <2>1, <2>2, <2>3
<1>2. ASSUME parseArgs, given.left \/ \E i \in DOMAIN given.pairs : given.pairs[i].dashes = 1
      PROVE  UNCHANGED <<args, multiArgs>>
  <2>1. Malformed(given)
    BY <1>2 DEF Malformed
  <2> QED BY <1>2, <2>1 DEF parseArgs
<1>3. OptionsInvariant =>
        (parseArgs =>
             /\ \A n \in Option :
                   \/ Answer(n)' = Answer(n)
                   \/ \E i \in DOMAIN given.pairs :
                         /\ Final(i) /\ given.pairs[i].name = n /\ Gives(given.pairs[i], Answer(n)')
                         /\ n \in Single => Cardinality({k \in DOMAIN Answer(n)' : Answer(n)'[k] \notin {"", " "}}) <= 1
             /\ (given.left \/ \E i \in DOMAIN given.pairs : given.pairs[i].dashes = 1) => UNCHANGED <<args, multiArgs>>)
  BY <1>1, <1>2
<1> QED BY <1>3, OptionsAreKept, PTL DEF ChangedOnlyAsGiven

-----------------------------------------------------------------------------
(***************************************************************************)
(* Tables.  What the text of one looks like is said by its positions: the  *)
(* parts of a text that is joined lie one behind the other, each where the *)
(* ones before it end.  So the tabs of a line, and the breaks of a text,   *)
(* are where a part ends, and by induction on what scanLine() has read the *)
(* cells and the lines found are the parts that were written.              *)
(***************************************************************************)

\* What holds at first and is kept by each of n steps holds after all of them.
LEMMA StepInduction ==
  ASSUME NEW n \in Nat, NEW T, 0 \in T, \A i \in 1..n : i - 1 \in T => i \in T
  PROVE  \A i \in 0..n : i \in T
<1> DEFINE U == {i \in Nat : i <= n => i \in T}
<1>1. 0 \in U
  OBVIOUS
<1>2. ASSUME NEW i \in U PROVE i + 1 \in U
  <2>1. SUFFICES ASSUME i + 1 <= n PROVE i + 1 \in T
    OBVIOUS
  <2>2. i \in T /\ i + 1 \in 1..n /\ (i + 1) - 1 = i
    BY <2>1
  <2> QED BY <2>2
<1>3. U = Nat
  <2>1. U \in SUBSET Nat
    OBVIOUS
  <2> HIDE DEF U
  <2> QED BY <1>1, <1>2, <2>1, SetInduction
<1>4. ASSUME NEW i \in 0..n PROVE i \in T
  <2>1. i \in U
    <3> HIDE DEF U
    <3> QED BY <1>3
  <2> QED BY <2>1
<1> QED BY <1>4

\* The states g are those the steps lead to.
Follows(g, n, first, step) == g[0] = first /\ \A i \in 1..n : g[i] = step[<<g[i - 1], i>>]

\* Steps that stay in a set can be taken.
LEMMA StepsExist ==
  ASSUME NEW n \in Nat, NEW S, NEW first \in S, NEW step \in [S \X (1..n) -> S]
  PROVE  \E g \in [0..n -> S] : Follows(g, n, first, step)
<1> DEFINE T == {m \in 0..n : \E g \in [0..m -> S] : Follows(g, m, first, step)}
<1>1. 0 \in T
  <2>1. [i \in 0..0 |-> first] \in [0..0 -> S] /\ Follows([i \in 0..0 |-> first], 0, first, step)
    BY DEF Follows
  <2> QED BY <2>1
<1>2. ASSUME NEW m \in 1..n, m - 1 \in T PROVE m \in T
  <2>1. PICK g \in [0..(m - 1) -> S] : Follows(g, m - 1, first, step)
    BY <1>2
  <2> DEFINE h == [i \in 0..m |-> IF i < m THEN g[i] ELSE step[<<g[m - 1], m>>]]
  <2>2. g[m - 1] \in S /\ step[<<g[m - 1], m>>] \in S
    OBVIOUS
  <2>3. h \in [0..m -> S]
    <3> HIDE DEF T
    <3> QED BY <2>2
  <2>4. h[0] = first
    BY <2>1 DEF Follows
  <2>5. ASSUME NEW i \in 1..m PROVE h[i] = step[<<h[i - 1], i>>]
    <3>1. CASE i < m
      <4>1. i \in 1..(m - 1) /\ h[i] = g[i] /\ h[i - 1] = g[i - 1]
        <5>1. i \in 0..m /\ i - 1 \in 0..m /\ i - 1 < m
          BY <3>1
        <5> QED BY <3>1, <5>1
      <4> HIDE DEF h
      <4> QED BY <2>1, <4>1 DEF Follows
    <3>2. CASE i = m
      <4>1. i \in 0..m /\ i - 1 \in 0..m /\ i - 1 < m /\ ~(i < m) /\ i - 1 = m - 1
        BY <3>2
      <4>2. h[i] = step[<<g[m - 1], m>>] /\ h[i - 1] = g[m - 1]
        BY <4>1
      <4> QED BY <3>2, <4>2
    <3> QED BY <3>1, <3>2
  <2> HIDE DEF h
  <2>6. Follows(h, m, first, step)
    BY <2>4, <2>5 DEF Follows
  <2> QED BY <2>3, <2>6
<1>3. n \in T
  <2> HIDE DEF T
  <2> QED BY <1>1, <1>2, StepInduction
<1> QED BY <1>3


-----------------------------------------------------------------------------
\* What a text is made of, what a cell is, and what a line of cells is.
Separators == {"\t", "\r", "\n"}
Symbol == Char \cup Separators
Plain == Symbol \ Separators
Cell == Seq(Plain)
Row == Seq(Cell) \ {<< >>}

LEMMA SequencesKnown ==
  ASSUME NEW S, NEW s \in Seq(S)
  PROVE  /\ Len(s) \in Nat /\ DOMAIN s = 1..Len(s)
         /\ \A i \in 1..Len(s) : s[i] \in S
         /\ s # << >> <=> Len(s) >= 1
  OBVIOUS

\* The beginning of a sequence grows by an element at a time.
LEMMA OneMore ==
  ASSUME NEW S, NEW s \in Seq(S), NEW j \in 1..Len(s)
  PROVE  Append(SubSeq(s, 1, j - 1), s[j]) = SubSeq(s, 1, j)
<1>1. SubSeq(s, 1, j) = SubSeq(s, 1, j - 1) \o <<s[j]>>
  BY SubSeqRecursiveSecond
<1>2. SubSeq(s, 1, j - 1) \in Seq(S) /\ s[j] \in S
  BY SubSeqProperties
<1> QED BY <1>1, <1>2, AppendIsConcat

\* Parts behind one another: the k-th begins behind the s[k - 1]-th character.
Laid(t, parts, separator, s) ==
    /\ s[0] = 0
    /\ \A k \in 1..Len(parts) : s[k - 1] \in Nat /\ s[k] = s[k - 1] + Len(parts[k]) + Len(separator)
    /\ Len(t) + Len(separator) = s[Len(parts)]
    /\ \A k \in 1..Len(parts) : s[k] <= s[Len(parts)]
    /\ \A k \in 1..Len(parts) : \A j \in 1..Len(parts[k]) : t[s[k - 1] + j] = parts[k][j]
    /\ \A k \in 1..(Len(parts) - 1) : \A j \in 1..Len(separator) :
          t[s[k - 1] + Len(parts[k]) + j] = separator[j]

\* The texts that come about as parts are joined.
LEMMA JoinedSteps ==
  ASSUME NEW S, NEW parts \in Seq(Seq(S)), parts # << >>, NEW separator \in Seq(S)
  PROVE  \E f : /\ Joined(parts, separator) = f[Len(parts)]
                /\ f[1] = parts[1]
                /\ \A i \in 2..Len(parts) : f[i] = f[i - 1] \o separator \o parts[i]
                /\ \A i \in 1..Len(parts) : f[i] \in Seq(S)
<1> DEFINE n == Len(parts)
           T == Seq(S)
           step == [z \in T \X (1..(n - 1)) |-> z[1] \o separator \o parts[z[2] + 1]]
           F == CHOOSE f : f = [i \in DOMAIN parts |->
                                  IF i = 1 THEN parts[1] ELSE f[i - 1] \o separator \o parts[i]]
<1>1. n \in Nat /\ n >= 1 /\ DOMAIN parts = 1..n /\ \A i \in 1..n : parts[i] \in T
  BY SequencesKnown
<1>2. step \in [T \X (1..(n - 1)) -> T]
  <2>1. ASSUME NEW z \in T \X (1..(n - 1)) PROVE z[1] \o separator \o parts[z[2] + 1] \in T
    <3>1. z[1] \in T /\ z[2] + 1 \in 1..n
      BY <1>1
    <3>2. parts[z[2] + 1] \in T
      BY <1>1, <3>1
    <3>3. z[1] \o separator \in Seq(S)
      BY <3>1, ConcatProperties
    <3> QED BY <3>2, <3>3, ConcatProperties
  <2> HIDE DEF T
  <2> QED BY <2>1
<1>3. parts[1] \in T /\ n - 1 \in Nat
  BY <1>1
<1>4. PICK g \in [0..(n - 1) -> T] : Follows(g, n - 1, parts[1], step)
  <2> HIDE DEF n, T, step
  <2> QED BY <1>2, <1>3, StepsExist
<1> DEFINE f0 == [i \in 1..n |-> g[i - 1]]
<1>5. f0 = [i \in 1..n |-> IF i = 1 THEN parts[1] ELSE f0[i - 1] \o separator \o parts[i]]
  <2>1. ASSUME NEW i \in 1..n
        PROVE  f0[i] = IF i = 1 THEN parts[1] ELSE f0[i - 1] \o separator \o parts[i]
    <3>1. CASE i = 1
      BY <3>1, <1>4, <1>1 DEF Follows
    <3>2. CASE i # 1
      <4>1. i - 1 \in 1..(n - 1) /\ i - 1 \in 1..n /\ (i - 1) + 1 = i /\ (i - 1) - 1 \in 0..(n - 1)
        BY <3>2, <1>1
      <4>2. g[i - 1] = step[<<g[(i - 1) - 1], i - 1>>] /\ g[(i - 1) - 1] \in T
        BY <4>1, <1>4 DEF Follows
      <4>3. step[<<g[(i - 1) - 1], i - 1>>] = g[(i - 1) - 1] \o separator \o parts[i]
        BY <4>1, <4>2
      <4> QED BY <3>2, <4>1, <4>2, <4>3
    <3> QED BY <3>1, <3>2
  <2> QED BY <2>1
<1>6. F = [i \in 1..n |-> IF i = 1 THEN parts[1] ELSE F[i - 1] \o separator \o parts[i]]
  <2>1. f0 = [i \in DOMAIN parts |-> IF i = 1 THEN parts[1] ELSE f0[i - 1] \o separator \o parts[i]]
    <3> HIDE DEF f0
    <3> QED BY <1>5, <1>1
  <2> HIDE DEF f0
  <2> QED BY <2>1, <1>1
<1>7. Joined(parts, separator) = F[n]
  BY DEF Joined
<1> HIDE DEF F
<1>8. F[1] = parts[1] /\ \A i \in 2..n : F[i] = F[i - 1] \o separator \o parts[i]
  <2>1. 1 \in 1..n /\ \A i \in 2..n : i \in 1..n /\ i # 1
    BY <1>1
  <2> HIDE DEF n
  <2> QED BY <1>6, <2>1
<1>9. \A i \in 1..n : F[i] \in T
  <2> DEFINE U == {i \in 0..(n - 1) : F[i + 1] \in T}
  <2>1. 0 \in U
    BY <1>3, <1>8
  <2>2. ASSUME NEW i \in 1..(n - 1), i - 1 \in U PROVE i \in U
    <3>1. i + 1 \in 2..n /\ (i + 1) - 1 = i /\ (i - 1) + 1 = i
      BY <1>1
    <3>2. F[i + 1] = F[i] \o separator \o parts[i + 1] /\ F[i] \in T /\ parts[i + 1] \in T
      <4>1. F[i + 1] = F[(i + 1) - 1] \o separator \o parts[i + 1]
        BY <3>1, <1>8
      <4>2. F[(i - 1) + 1] \in T
        BY <2>2
      <4>3. i + 1 \in 1..n
        BY <3>1
      <4> HIDE DEF n, U, T
      <4> QED BY <4>1, <4>2, <4>3, <3>1, <1>1
    <3>3. F[i] \o separator \in Seq(S)
      BY <3>2, ConcatProperties
    <3>4. F[i + 1] \in T
      BY <3>2, <3>3, ConcatProperties
    <3> QED BY <3>4
  <2>3. \A i \in 0..(n - 1) : i \in U
    <3> HIDE DEF U, n
    <3> QED BY <1>3, <2>1, <2>2, StepInduction
  <2>4. ASSUME NEW i \in 1..n PROVE F[i] \in T
    <3>1. i - 1 \in 0..(n - 1) /\ (i - 1) + 1 = i
      BY <1>1
    <3>2. i - 1 \in U
      <4> HIDE DEF U
      <4> QED BY <2>3, <3>1
    <3> QED BY <3>1, <3>2
  <2> QED BY <2>4
<1> QED BY <1>7, <1>8, <1>9

LEMMA JoinedType ==
  ASSUME NEW S, NEW parts \in Seq(Seq(S)), NEW separator \in Seq(S)
  PROVE  Joined(parts, separator) \in Seq(S)
<1>1. CASE parts = << >>
  BY <1>1, EmptySeq DEF Joined
<1>2. CASE parts # << >>
  <2>1. PICK f : /\ Joined(parts, separator) = f[Len(parts)]
                 /\ \A i \in 1..Len(parts) : f[i] \in Seq(S)
    BY <1>2, JoinedSteps
  <2>2. Len(parts) \in 1..Len(parts)
    BY <1>2, SequencesKnown
  <2> QED BY <2>1, <2>2
<1> QED BY <1>1, <1>2

\* Three sequences behind one another.
LEMMA ThreeBehind ==
  ASSUME NEW S, NEW a \in Seq(S), NEW b \in Seq(S), NEW c \in Seq(S)
  PROVE  /\ Len(a \o b \o c) = Len(a) + Len(b) + Len(c)
         /\ \A i \in 1..Len(a) : (a \o b \o c)[i] = a[i]
         /\ \A i \in 1..Len(b) : (a \o b \o c)[Len(a) + i] = b[i]
         /\ \A i \in 1..Len(c) : (a \o b \o c)[Len(a) + Len(b) + i] = c[i]
<1>1. Len(a) \in Nat /\ Len(b) \in Nat /\ Len(c) \in Nat
  BY SequencesKnown
<1>2. /\ a \o b \in Seq(S) /\ Len(a \o b) = Len(a) + Len(b)
      /\ \A i \in 1..Len(a) + Len(b) : (a \o b)[i] = IF i <= Len(a) THEN a[i] ELSE b[i - Len(a)]
  BY ConcatProperties
<1> DEFINE ab == a \o b
<1>3. /\ Len(ab \o c) = Len(ab) + Len(c)
      /\ \A i \in 1..Len(ab) + Len(c) : (ab \o c)[i] = IF i <= Len(ab) THEN ab[i] ELSE c[i - Len(ab)]
  <2>1. ab \in Seq(S)
    BY <1>2
  <2> HIDE DEF ab
  <2> QED BY <2>1, ConcatProperties
<1>4. /\ ab \in Seq(S) /\ Len(ab) = Len(a) + Len(b)
      /\ \A i \in 1..Len(a) + Len(b) : ab[i] = IF i <= Len(a) THEN a[i] ELSE b[i - Len(a)]
  BY <1>2
<1> SUFFICES /\ Len(ab \o c) = Len(a) + Len(b) + Len(c)
             /\ \A i \in 1..Len(a) : (ab \o c)[i] = a[i]
             /\ \A i \in 1..Len(b) : (ab \o c)[Len(a) + i] = b[i]
             /\ \A i \in 1..Len(c) : (ab \o c)[Len(a) + Len(b) + i] = c[i]
  OBVIOUS
<1> HIDE DEF ab
<1>5. ASSUME NEW i \in 1..Len(a) PROVE (ab \o c)[i] = a[i]
  <2>1. i \in 1..Len(ab) + Len(c) /\ i <= Len(ab) /\ i \in 1..Len(a) + Len(b) /\ i <= Len(a)
    BY <1>1, <1>4
  <2> QED BY <2>1, <1>3, <1>4
<1>6. ASSUME NEW i \in 1..Len(b) PROVE (ab \o c)[Len(a) + i] = b[i]
  <2>1. /\ Len(a) + i \in 1..Len(ab) + Len(c) /\ Len(a) + i <= Len(ab)
        /\ Len(a) + i \in 1..Len(a) + Len(b) /\ ~(Len(a) + i <= Len(a))
        /\ (Len(a) + i) - Len(a) = i
    BY <1>1, <1>4
  <2> QED BY <2>1, <1>3, <1>4
<1>7. ASSUME NEW i \in 1..Len(c) PROVE (ab \o c)[Len(a) + Len(b) + i] = c[i]
  <2>1. /\ Len(a) + Len(b) + i \in 1..Len(ab) + Len(c) /\ ~(Len(a) + Len(b) + i <= Len(ab))
        /\ (Len(a) + Len(b) + i) - Len(ab) = i
    BY <1>1, <1>4
  <2> QED BY <2>1, <1>3
<1> QED BY <1>1, <1>3, <1>4, <1>5, <1>6, <1>7

\* A place in the second of two parts is one of the whole.
LEMMA PlaceInSecond ==
  ASSUME NEW a \in Nat, NEW b \in Nat, NEW e \in Nat, NEW j \in Nat, 1 <= j, j <= b, a + b <= e
  PROVE  a + j \in 1 .. e
OBVIOUS

\* Joined parts are behind one another.
LEMMA JoinedIsLaid ==
  ASSUME NEW S, NEW parts \in Seq(Seq(S)), parts # << >>, NEW separator \in Seq(S)
  PROVE  \E s : Laid(Joined(parts, separator), parts, separator, s)
<1> DEFINE n == Len(parts)
           d == Len(separator)
           step == [z \in Nat \X (1..n) |-> z[1] + Len(parts[z[2]]) + d]
<1>1. /\ n \in Nat /\ n >= 1 /\ d \in Nat
      /\ \A i \in 1..n : parts[i] \in Seq(S) /\ Len(parts[i]) \in Nat
  BY SequencesKnown
<1>2. PICK f : /\ Joined(parts, separator) = f[n]
               /\ f[1] = parts[1]
               /\ \A i \in 2..n : f[i] = f[i - 1] \o separator \o parts[i]
               /\ \A i \in 1..n : f[i] \in Seq(S)
  BY JoinedSteps
<1>3. step \in [Nat \X (1..n) -> Nat]
  <2>1. ASSUME NEW z \in Nat \X (1..n) PROVE z[1] + Len(parts[z[2]]) + d \in Nat
    BY <1>1
  <2> HIDE DEF n, d
  <2> QED BY <2>1
<1>4. PICK s \in [0..n -> Nat] : Follows(s, n, 0, step)
  <2> HIDE DEF n, step
  <2> QED BY <1>1, <1>3, StepsExist
<1>5. \A k \in 1..n : /\ s[k - 1] \in Nat /\ s[k] \in Nat
                      /\ s[k] = s[k - 1] + Len(parts[k]) + d
  <2>1. ASSUME NEW k \in 1..n PROVE s[k - 1] \in Nat /\ s[k] \in Nat /\ s[k] = step[<<s[k - 1], k>>]
    <3>1. k - 1 \in 0..n /\ k \in 0..n
      OBVIOUS
    <3> HIDE DEF step
    <3> QED BY <3>1, <1>4 DEF Follows
  <2>2. ASSUME NEW k \in 1..n PROVE step[<<s[k - 1], k>>] = s[k - 1] + Len(parts[k]) + d
    <3>1. <<s[k - 1], k>> \in Nat \X (1..n)
      BY <2>1
    <3> HIDE DEF n, d
    <3> QED BY <3>1
  <2> HIDE DEF step, n
  <2> QED BY <2>1, <2>2
<1>6. s[0] = 0
  BY <1>4 DEF Follows
<1> HIDE DEF n, d, step
<1> DEFINE Up(m) ==
      /\ Len(f[m]) + d = s[m]
      /\ \A k \in 1..m : s[k] <= s[m]
      /\ \A k \in 1..m : \A j \in 1..Len(parts[k]) : f[m][s[k - 1] + j] = parts[k][j]
      /\ \A k \in 1..(m - 1) : \A j \in 1..d : f[m][s[k - 1] + Len(parts[k]) + j] = separator[j]
    U == {i \in 0..(n - 1) : Up(i + 1)}
<1>7. Up(1)
  <2>1. Len(f[1]) + d = s[1] /\ s[1 - 1] = 0 /\ Len(f[1]) \in Nat /\ s[1] \in Nat
    BY <1>1, <1>2, <1>5, <1>6
  <2>2. \A k \in 1..1 : k = 1
    OBVIOUS
  <2>3. \A j \in 1..Len(parts[1]) : f[1][s[1 - 1] + j] = parts[1][j]
    BY <2>1, <1>1, <1>2
  <2> QED BY <2>1, <2>2, <2>3
<1>8. ASSUME NEW m \in 1..(n - 1), Up(m) PROVE Up(m + 1)
  <2> DEFINE part == parts[m + 1]
             t == f[m]
             u == f[m + 1]
  <2>1. m + 1 \in 2..n /\ m + 1 \in 1..n /\ m \in 1..n /\ (m + 1) - 1 = m
    BY <1>1
  <2>2. u = t \o separator \o part /\ t \in Seq(S) /\ part \in Seq(S) /\ Len(part) \in Nat /\ Len(t) \in Nat
    <3>1. f[m + 1] = f[(m + 1) - 1] \o separator \o parts[m + 1]
      BY <1>2, <2>1
    <3> QED BY <3>1, <1>1, <1>2, <2>1
  <2>3. /\ Len(t) + d = s[m]
        /\ \A k \in 1..m : s[k] <= s[m]
        /\ \A k \in 1..m : \A j \in 1..Len(parts[k]) : t[s[k - 1] + j] = parts[k][j]
        /\ \A k \in 1..(m - 1) : \A j \in 1..d : t[s[k - 1] + Len(parts[k]) + j] = separator[j]
    BY <1>8
  <2> HIDE DEF part, t, u, Up
  <2>4. /\ Len(u) = Len(t) + d + Len(part)
        /\ \A i \in 1..Len(t) : u[i] = t[i]
        /\ \A i \in 1..d : u[Len(t) + i] = separator[i]
        /\ \A i \in 1..Len(part) : u[Len(t) + d + i] = part[i]
    <3>1. /\ Len(t \o separator \o part) = Len(t) + Len(separator) + Len(part)
          /\ \A i \in 1..Len(t) : (t \o separator \o part)[i] = t[i]
          /\ \A i \in 1..Len(separator) : (t \o separator \o part)[Len(t) + i] = separator[i]
          /\ \A i \in 1..Len(part) : (t \o separator \o part)[Len(t) + Len(separator) + i] = part[i]
      <4>1. t \in Seq(S) /\ separator \in Seq(S) /\ part \in Seq(S)
        BY <2>2
      <4> QED BY ONLY <4>1, ThreeBehind
    <3>2. u = t \o separator \o part
      BY <2>2
    <3> QED BY <3>1, <3>2, Zenon DEF d
  <2>5. s[m + 1] = s[m] + Len(part) + d /\ s[m] \in Nat /\ s[m] = s[m - 1] + Len(parts[m]) + d
    <3>1. s[m + 1] = s[(m + 1) - 1] + Len(parts[m + 1]) + d
      BY <2>1, <1>5
    <3> QED BY <3>1, <2>1, <1>5 DEF part
  <2>0. s[m] = Len(t) + d /\ s[m] \in Nat /\ Len(t) \in Nat /\ d \in Nat /\ Len(part) \in Nat
    BY <2>2, <2>3, <2>5, <1>1
  <2>6. Len(u) + d = s[m + 1]
    BY <2>4, <2>5, <2>0
  <2>7. ASSUME NEW k \in 1..(m + 1) PROVE s[k] <= s[m + 1]
    <3>1. CASE k = m + 1
      BY <3>1, <2>1, <1>5
    <3>2. CASE k # m + 1
      <4>1. k \in 1..m /\ k \in 1..n
        BY <3>2, <1>1
      <4>2. s[k] <= s[m] /\ s[k] \in Nat
        BY <4>1, <2>3, <1>5
      <4>3. s[m] <= s[m + 1] /\ s[m + 1] \in Nat
        BY <2>0, <2>5
      <4> QED BY <4>2, <4>3, <2>0
    <3> QED BY <3>1, <3>2
  <2>8. ASSUME NEW k \in 1..(m + 1), NEW j \in 1..Len(parts[k]) PROVE u[s[k - 1] + j] = parts[k][j]
    <3>1. CASE k = m + 1
      <4>1. k - 1 = m /\ parts[k] = part /\ s[k - 1] + j = Len(t) + d + j
        BY <3>1, <2>3 DEF part
      <4> QED BY <4>1, <2>4
    <3>2. CASE k # m + 1
      <4>1. k \in 1..m /\ k \in 1..n
        BY <3>2, <1>1
      <4>2. s[k] <= s[m] /\ s[k - 1] \in Nat /\ s[k] = s[k - 1] + Len(parts[k]) + d /\ Len(parts[k]) \in Nat
        BY <4>1, <2>3, <1>5, <1>1
      <4>5. j \in Nat /\ 1 <= j /\ j <= Len(parts[k])
        BY <4>2
      <4>6. s[m] = Len(t) + d /\ s[m] \in Nat /\ s[k] \in Nat /\ Len(t) \in Nat /\ d \in Nat
        BY <2>0, <4>1, <1>5
      <4>7. s[k - 1] + Len(parts[k]) <= Len(t)
        BY ONLY <4>2, <4>6
      <4>3. s[k - 1] + j \in 1..Len(t)
        BY ONLY <4>2, <4>5, <4>6, <4>7, PlaceInSecond
      <4> QED BY <4>1, <4>3, <2>3, <2>4
    <3> QED BY <3>1, <3>2
  <2>9. ASSUME NEW k \in 1..m, NEW j \in 1..d PROVE u[s[k - 1] + Len(parts[k]) + j] = separator[j]
    <3>0. k \in 1..n
      BY <1>1
    <3>1. CASE k = m
      <4>1. /\ s[k - 1] + Len(parts[k]) + d = s[m] /\ s[k - 1] \in Nat
            /\ Len(parts[k]) \in Nat
        BY <3>0, <3>1, <1>5, <1>1
      <4>2. s[k - 1] + Len(parts[k]) = Len(t)
        BY ONLY <4>1, <2>0
      <4> QED BY <4>2, <2>4
    <3>2. CASE k # m
      <4>1. k \in 1..(m - 1) /\ k + 1 \in 1..m /\ k + 1 \in 1..n /\ (k + 1) - 1 = k
        BY <3>2, <1>1
      <4>2. /\ s[k + 1] <= s[m] /\ s[k - 1] \in Nat /\ s[k] = s[k - 1] + Len(parts[k]) + d
            /\ Len(parts[k]) \in Nat /\ s[k] \in Nat
        BY <3>0, <4>1, <2>3, <1>5, <1>1
      <4>3. s[k + 1] = s[k] + Len(parts[k + 1]) + d /\ Len(parts[k + 1]) \in Nat
        BY <4>1, <1>5, <1>1
      <4>5. s[k] + d <= Len(t) + d
        BY ONLY <4>2, <4>3, <2>0
      <4>6. s[k] <= Len(t)
        BY ONLY <4>2, <4>5, <2>0
      <4>4. s[k - 1] + Len(parts[k]) + j \in 1..Len(t)
        <5>1. j \in Nat /\ j >= 1 /\ j <= d
          BY <2>0
        <5>2. s[k - 1] + Len(parts[k]) \in Nat
          BY <4>2
        <5>3. s[k - 1] + Len(parts[k]) + j <= s[k]
          BY ONLY <4>2, <5>1, <2>0
        <5>4. s[k - 1] + Len(parts[k]) + j \in Nat /\ s[k - 1] + Len(parts[k]) + j >= 1
          BY <5>1, <5>2
        <5> QED BY <5>3, <5>4, <4>2, <4>6, <2>0
      <4> QED BY <4>1, <4>4, <2>3, <2>4
    <3> QED BY <3>1, <3>2
  <2>10. (m + 1) - 1 = m
    OBVIOUS
  <2> QED BY <2>6, <2>7, <2>8, <2>9, <2>10 DEF Up, u
<1>9. Up(n)
  <2>1. 0 \in U
    <3> HIDE DEF Up
    <3> QED BY <1>1, <1>7
  <2>2. ASSUME NEW i \in 1..(n - 1), i - 1 \in U PROVE i \in U
    <3>1. (i - 1) + 1 = i /\ i \in 0..(n - 1)
      BY <1>1
    <3> HIDE DEF Up
    <3> QED BY <3>1, <2>2, <1>8
  <2>3. n - 1 \in Nat /\ n - 1 \in 0..(n - 1) /\ (n - 1) + 1 = n
    BY <1>1
  <2>4. \A i \in 0..(n - 1) : i \in U
    <3> HIDE DEF U
    <3> QED BY <2>1, <2>2, <2>3, StepInduction
  <2>5. n - 1 \in U
    <3> HIDE DEF U
    <3> QED BY <2>3, <2>4
  <2> HIDE DEF Up
  <2> QED BY <2>3, <2>5
<1>10. Laid(f[n], parts, separator, s)
  BY <1>5, <1>6, <1>9 DEF Laid, n, d
<1> QED BY <1>2, <1>10

-----------------------------------------------------------------------------
\* A line is made of cells and tabs.
InLine == Plain \cup {"\t"}

LEMMA LineType == ASSUME NEW cells \in Seq(Cell) PROVE Line(cells) \in Seq(InLine)
<1>1. Cell \subseteq Seq(InLine)
  <2>1. ASSUME NEW c \in Cell PROVE c \in Seq(InLine)
    <3>1. c \in Seq(Plain) /\ Plain \subseteq InLine
      BY DEF Cell, InLine
    <3> QED BY <3>1, SeqMonotonic
  <2> QED BY <2>1
<1>2. cells \in Seq(Seq(InLine))
  BY <1>1, SeqMonotonic
<1>3. <<"\t">> \in Seq(InLine)
  BY DEF InLine
<1> QED BY <1>2, <1>3, JoinedType DEF Line

LEMMA ScannedType ==
  ASSUME NEW row \in Row, NEW c \in InLine
  PROVE  Scanned(row, c) \in Row
<1>1. row \in Seq(Cell) /\ Len(row) \in Nat /\ Len(row) \in 1..Len(row) /\ row[Len(row)] \in Cell
  <2>1. row \in Seq(Cell) /\ row # << >>
    BY DEF Row
  <2> QED BY <2>1, SequencesKnown
<1>2. CASE c = "\t"
  <2>1. << >> \in Cell
    BY EmptySeq DEF Cell
  <2>2. Append(row, << >>) \in Seq(Cell) /\ Append(row, << >>) # << >>
    BY <1>1, <2>1, AppendProperties
  <2> QED BY <1>2, <2>2 DEF Scanned, Row
<1>3. CASE c # "\t"
  <2>1. c \in Plain
    BY <1>3 DEF InLine
  <2> DEFINE e == Append(row[Len(row)], c)
  <2>2. e \in Cell
    BY <1>1, <2>1, AppendProperties DEF Cell
  <2>3. Scanned(row, c) = [row EXCEPT ![Len(row)] = e]
    BY <1>3 DEF Scanned
  <2> HIDE DEF e
  <2>4. /\ [row EXCEPT ![Len(row)] = e] \in Seq(Cell)
        /\ Len([row EXCEPT ![Len(row)] = e]) = Len(row)
    BY <1>1, <2>2, ExceptSeq
  <2> QED BY <1>1, <2>3, <2>4, SequencesKnown DEF Row
<1> QED BY <1>2, <1>3

\* The cells found as a line is scanned.
LEMMA CellsSteps ==
  ASSUME NEW line \in Seq(InLine)
  PROVE  \E f : /\ Cells(line) = f[Len(line)]
                /\ f[0] = << << >> >>
                /\ \A i \in 1..Len(line) : f[i] = Scanned(f[i - 1], line[i])
                /\ \A i \in 0..Len(line) : f[i] \in Row
<1> DEFINE n == Len(line)
           first == << << >> >>
           step == [z \in Row \X (1..n) |-> Scanned(z[1], line[z[2]])]
           F == CHOOSE f : f = [i \in 0..n |-> IF i = 0 THEN first ELSE Scanned(f[i - 1], line[i])]
<1>1. n \in Nat /\ \A i \in 1..n : line[i] \in InLine
  BY SequencesKnown
<1>2. step \in [Row \X (1..n) -> Row]
  <2>1. ASSUME NEW z \in Row \X (1..n) PROVE Scanned(z[1], line[z[2]]) \in Row
    BY <1>1, ScannedType
  <2> HIDE DEF n
  <2> QED BY <2>1
<1>3. first \in Row
  <2>1. << >> \in Cell
    BY EmptySeq DEF Cell
  <2>2. first \in Seq(Cell) /\ first # << >>
    BY <2>1
  <2> QED BY <2>2 DEF Row
<1>4. PICK g \in [0..n -> Row] : Follows(g, n, first, step)
  <2> HIDE DEF n, step, first
  <2> QED BY <1>1, <1>2, <1>3, StepsExist
<1>5. g = [i \in 0..n |-> IF i = 0 THEN first ELSE Scanned(g[i - 1], line[i])]
  <2>1. ASSUME NEW i \in 0..n
        PROVE  g[i] = IF i = 0 THEN first ELSE Scanned(g[i - 1], line[i])
    <3>1. CASE i = 0
      BY <3>1, <1>4 DEF Follows
    <3>2. CASE i # 0
      <4>1. i \in 1..n /\ i - 1 \in 0..n
        BY <3>2, <1>1
      <4>2. g[i] = step[<<g[i - 1], i>>] /\ g[i - 1] \in Row
        BY <4>1, <1>4 DEF Follows
      <4>3. step[<<g[i - 1], i>>] = Scanned(g[i - 1], line[i])
        <5>1. <<g[i - 1], i>> \in Row \X (1..n)
          BY <4>1, <4>2
        <5> HIDE DEF n
        <5> QED BY <5>1
      <4> QED BY <3>2, <4>2, <4>3
    <3> QED BY <3>1, <3>2
  <2> HIDE DEF first, step, n
  <2> QED BY <2>1, <1>4
<1>6. F = [i \in 0..n |-> IF i = 0 THEN first ELSE Scanned(F[i - 1], line[i])]
  <2> HIDE DEF first, n
  <2> QED BY <1>5
<1>7. Cells(line) = F[n]
  BY DEF Cells
<1> HIDE DEF F, first
<1>8. F[0] = first /\ \A i \in 1..n : F[i] = Scanned(F[i - 1], line[i])
  <2>1. 0 \in 0..n /\ \A i \in 1..n : i \in 0..n /\ i # 0
    BY <1>1
  <2> HIDE DEF n
  <2> QED BY <1>6, <2>1
<1>9. \A i \in 0..n : F[i] \in Row
  <2> DEFINE U == {i \in 0..n : F[i] \in Row}
  <2>1. 0 \in U
    BY <1>1, <1>3, <1>8
  <2>2. ASSUME NEW i \in 1..n, i - 1 \in U PROVE i \in U
    <3>1. F[i] = Scanned(F[i - 1], line[i]) /\ F[i - 1] \in Row /\ line[i] \in InLine
      BY <2>2, <1>1, <1>8
    <3>2. F[i] \in Row
      BY <3>1, ScannedType
    <3> QED BY <3>2
  <2>3. \A i \in 0..n : i \in U
    <3> HIDE DEF U, n
    <3> QED BY <1>1, <2>1, <2>2, StepInduction
  <2> QED BY <2>3
<1> QED BY <1>7, <1>8, <1>9 DEF first

LEMMA CellsType == ASSUME NEW line \in Seq(InLine) PROVE Cells(line) \in Row
<1>1. Len(line) \in 0..Len(line)
  BY SequencesKnown
<1> QED BY <1>1, CellsSteps

\* Scanning one more character of the k-th cell.
LEMMA ScannedCell ==
  ASSUME NEW row \in Seq(Cell), NEW k \in 1..Len(row), NEW j \in 1..Len(row[k])
  PROVE  Scanned(Append(SubSeq(row, 1, k - 1), SubSeq(row[k], 1, j - 1)), row[k][j])
           = Append(SubSeq(row, 1, k - 1), SubSeq(row[k], 1, j))
<1> DEFINE cell == row[k]
           before == SubSeq(row, 1, k - 1)
           x == SubSeq(cell, 1, j - 1)
           y == SubSeq(cell, 1, j)
           c == cell[j]
<1>1. cell \in Seq(Plain) /\ Len(row) \in Nat /\ \A i \in 1..Len(row) : row[i] \in Cell
  BY SequencesKnown DEF Cell
<1>2. c \in Plain /\ c # "\t" /\ \A i \in 1..Len(cell) : cell[i] \in Plain
  BY <1>1, SequencesKnown DEF Plain, Separators
<1>3. before \in Seq(Cell) /\ Len(before) = k - 1
  BY <1>1, SubSeqProperties
<1>4. x \in Seq(Plain) /\ y \in Seq(Plain) /\ Append(x, c) = y
  <2>1. x \in Seq(Plain)
    BY <1>1, <1>2, SubSeqProperties
  <2>2. y \in Seq(Plain)
    BY <1>1, <1>2, SubSeqProperties
  <2>3. Append(x, c) = y
    BY <1>1, OneMore
  <2> QED BY <2>1, <2>2, <2>3
<1> DEFINE now == Append(before, x)
           then == Append(before, y)
<1> HIDE DEF cell, before, x, y, c
<1>5. /\ now \in Seq(Cell) /\ Len(now) = k /\ now[k] = x
      /\ \A i \in 1..(k - 1) : now[i] = before[i]
  <2>1. x \in Cell
    BY <1>4 DEF Cell
  <2> QED BY <2>1, <1>3, AppendProperties
<1>6. /\ then \in Seq(Cell) /\ Len(then) = k /\ then[k] = y
      /\ \A i \in 1..(k - 1) : then[i] = before[i]
  <2>1. y \in Cell
    BY <1>4 DEF Cell
  <2> QED BY <2>1, <1>3, AppendProperties
<1> HIDE DEF now, then
<1>7. Scanned(now, c) = [now EXCEPT ![k] = y]
  BY <1>2, <1>4, <1>5 DEF Scanned
<1>8. [now EXCEPT ![k] = y] = then
  <2>1. y \in Cell /\ k \in 1..Len(now)
    BY <1>4, <1>5 DEF Cell
  <2>2. /\ [now EXCEPT ![k] = y] \in Seq(Cell)
        /\ Len([now EXCEPT ![k] = y]) = k
        /\ \A i \in 1..k : [now EXCEPT ![k] = y][i] = IF i = k THEN y ELSE now[i]
    BY <1>5, <2>1, ExceptSeq
  <2> DEFINE e == [now EXCEPT ![k] = y]
  <2>3. \A i \in 1..k : e[i] = then[i]
    BY <2>2, <1>5, <1>6
  <2> QED BY <2>2, <2>3, <1>6, SeqEqual
<1>9. Scanned(now, c) = then
  BY <1>7, <1>8
<1> QED BY <1>9 DEF now, then, cell, before, x, y, c

\* Scanning the tab behind the k-th cell.
LEMMA ScannedTab ==
  ASSUME NEW row \in Seq(Cell), NEW k \in 1..Len(row)
  PROVE  Scanned(Append(SubSeq(row, 1, k - 1), row[k]), "\t") = Append(SubSeq(row, 1, k), << >>)
<1>1. Append(SubSeq(row, 1, k - 1), row[k]) = SubSeq(row, 1, k)
  BY OneMore
<1> QED BY <1>1 DEF Scanned

\* The cells of a line are those it was written from.
LEMMA CellsOfLine == ASSUME NEW row \in Row PROVE Cells(Line(row)) = row
<1> DEFINE n == Len(row)
           line == Line(row)
           tab == <<"\t">>
<1>1. /\ row \in Seq(Cell) /\ row # << >> /\ n \in Nat /\ n >= 1
      /\ \A i \in 1..n : row[i] \in Cell /\ row[i] \in Seq(InLine) /\ Len(row[i]) \in Nat
  <2>1. row \in Seq(Cell) /\ row # << >>
    BY DEF Row
  <2>2. \A i \in 1..n : row[i] \in Cell
    BY <2>1, SequencesKnown
  <2>3. Plain \subseteq InLine
    BY DEF InLine
  <2>4. \A i \in 1..n : row[i] \in Seq(InLine) /\ Len(row[i]) \in Nat
    BY <2>2, <2>3, SeqMonotonic, SequencesKnown DEF Cell
  <2>5. n \in Nat /\ n >= 1
    BY <2>1, SequencesKnown
  <2> QED BY <2>1, <2>2, <2>4, <2>5
<1>2. line \in Seq(InLine) /\ Len(line) \in Nat
  BY <1>1, LineType, SequencesKnown
<1>3. PICK s : Laid(line, row, tab, s)
  <2>1. row \in Seq(Seq(InLine)) /\ tab \in Seq(InLine)
    <3>1. row \in [1..n -> Seq(InLine)]
      BY <1>1, LenProperties
    <3>2. "\t" \in InLine
      BY DEF InLine
    <3>3. row \in Seq(Seq(InLine))
      BY <1>1, SequencesKnown
    <3> QED BY <3>2, <3>3
  <2>2. \E s : Laid(Joined(row, tab), row, tab, s)
    <3> HIDE DEF tab
    <3> QED BY <1>1, <2>1, JoinedIsLaid
  <2> QED BY <2>2 DEF Line
<1>4. PICK f : /\ Cells(line) = f[Len(line)]
               /\ f[0] = << << >> >>
               /\ \A i \in 1..Len(line) : f[i] = Scanned(f[i - 1], line[i])
  <2> HIDE DEF line
  <2> QED BY <1>2, CellsSteps
<1>5. Len(tab) = 1 /\ tab[1] = "\t"
  OBVIOUS
<1>6. /\ s[0] = 0
      /\ \A k \in 1..n : s[k - 1] \in Nat /\ s[k] = s[k - 1] + Len(row[k]) + 1
      /\ Len(line) + 1 = s[n]
      /\ \A k \in 1..n : s[k] <= s[n]
      /\ \A k \in 1..n : \A j \in 1..Len(row[k]) : line[s[k - 1] + j] = row[k][j]
      /\ \A k \in 1..(n - 1) : line[s[k - 1] + Len(row[k]) + 1] = "\t"
  <2>1. \A k \in 1..(n - 1) : line[s[k - 1] + Len(row[k]) + 1] = "\t"
    <3>1. \A k \in 1..(n - 1) : \A j \in 1..Len(tab) : line[s[k - 1] + Len(row[k]) + j] = tab[j]
      BY <1>3 DEF Laid
    <3>2. 1 \in 1..Len(tab)
      BY <1>5
    <3> HIDE DEF tab, line, n
    <3> QED BY <3>1, <3>2, <1>5
  <2> HIDE DEF tab, line
  <2> QED BY <2>1, <1>3, <1>5 DEF Laid
<1> HIDE DEF line, tab, n
<1> DEFINE G(k, j) == Append(SubSeq(row, 1, k - 1), SubSeq(row[k], 1, j))
           Within(k) == \A j \in 0..Len(row[k]) : f[s[k - 1] + j] = G(k, j)
<1>7. ASSUME NEW k \in 1..n, f[s[k - 1]] = G(k, 0) PROVE Within(k)
  <2> DEFINE l == Len(row[k])
             U == {j \in 0..l : f[s[k - 1] + j] = G(k, j)}
  <2>1. l \in Nat /\ s[k - 1] \in Nat /\ s[k - 1] + l <= Len(line)
    <3>1. l \in Nat /\ s[k - 1] \in Nat /\ s[k] = s[k - 1] + l + 1 /\ s[k] <= Len(line) + 1
      BY <1>1, <1>6
    <3> HIDE DEF l
    <3> QED BY <3>1, <1>2
  <2>2. 0 \in U
    <3>1. s[k - 1] + 0 = s[k - 1] /\ 0 \in 0..l
      BY <2>1
    <3> HIDE DEF G
    <3> QED BY <3>1, <1>7
  <2>3. ASSUME NEW j \in 1..l, j - 1 \in U PROVE j \in U
    <3>1. /\ s[k - 1] + j \in 1..Len(line) /\ (s[k - 1] + j) - 1 = s[k - 1] + (j - 1)
          /\ j \in 0..l
      BY <2>1, <1>2
    <3>2. f[s[k - 1] + j] = Scanned(f[s[k - 1] + (j - 1)], line[s[k - 1] + j])
      BY <3>1, <1>4
    <3>3. f[s[k - 1] + (j - 1)] = G(k, j - 1)
      BY <2>3
    <3>4. line[s[k - 1] + j] = row[k][j]
      BY <1>6
    <3>5. Scanned(G(k, j - 1), row[k][j]) = G(k, j)
      BY <1>1, ScannedCell DEF n
    <3> HIDE DEF G
    <3> QED BY <3>1, <3>2, <3>3, <3>4, <3>5
  <2>4. \A j \in 0..l : j \in U
    <3> HIDE DEF U, l
    <3> QED BY <2>1, <2>2, <2>3, StepInduction
  <2> HIDE DEF G
  <2> QED BY <2>4
<1>8. ASSUME NEW k \in 1..n PROVE G(k, Len(row[k])) = Append(SubSeq(row, 1, k - 1), row[k])
  <2>1. SubSeq(row[k], 1, Len(row[k])) = row[k]
    BY <1>1, SubSeqFull
  <2> QED BY <2>1
<1>9. \A k \in 1..n : f[s[k - 1]] = G(k, 0)
  <2> DEFINE V == {i \in 0..(n - 1) : f[s[i]] = G(i + 1, 0)}
  <2>1. 0 \in V
    <3>1. SubSeq(row, 1, 1 - 1) = << >> /\ SubSeq(row[1], 1, 0) = << >>
      BY SubSeqEmpty
    <3>2. Append(<< >>, << >>) = << << >> >>
      OBVIOUS
    <3>3. G(1, 0) = << << >> >>
      BY <3>1, <3>2, Zenon
    <3>4. f[s[0]] = << << >> >> /\ 0 + 1 = 1 /\ 0 \in 0..(n - 1)
      BY <1>1, <1>4, <1>6
    <3> HIDE DEF G
    <3> QED BY <3>3, <3>4
  <2>2. ASSUME NEW i \in 1..(n - 1), i - 1 \in V PROVE i \in V
    <3>1. i \in 1..n /\ i + 1 \in 1..n /\ (i - 1) + 1 = i /\ (i + 1) - 1 = i /\ i \in 0..(n - 1)
      BY <1>1
    <3>2. Within(i)
      <4> HIDE DEF G, Within
      <4> QED BY <3>1, <2>2, <1>7
    <3> DEFINE l == Len(row[i])
    <3>3. f[s[i - 1] + l] = Append(SubSeq(row, 1, i - 1), row[i])
      <4>1. l \in 0..l
        BY <3>1, <1>1
      <4>2. f[s[i - 1] + l] = G(i, l)
        <5> HIDE DEF G, l
        <5> QED BY <4>1, <3>2 DEF l
      <4> HIDE DEF G
      <4> QED BY <4>2, <3>1, <1>8
    <3>4. /\ s[i] = s[i - 1] + l + 1 /\ s[i] \in 1..Len(line) /\ s[i] - 1 = s[i - 1] + l
      <4>1. s[i] = s[i - 1] + l + 1 /\ s[i - 1] \in Nat /\ l \in Nat
        BY <3>1, <1>1, <1>6
      <4>2. /\ s[(i + 1) - 1] \in Nat /\ s[i + 1] = s[(i + 1) - 1] + Len(row[i + 1]) + 1
            /\ s[i + 1] <= s[n] /\ Len(row[i + 1]) \in Nat
        BY <3>1, <1>1, <1>6
      <4>3. s[i + 1] = s[i] + Len(row[i + 1]) + 1 /\ s[i + 1] <= Len(line) + 1
        BY <4>2, <3>1, <1>6
      <4> HIDE DEF l
      <4> QED BY <4>1, <4>2, <4>3, <1>2
    <3>5. line[s[i]] = "\t"
      BY <3>4, <1>6
    <3>6. f[s[i]] = Scanned(Append(SubSeq(row, 1, i - 1), row[i]), "\t")
      <4>1. f[s[i]] = Scanned(f[s[i] - 1], line[s[i]])
        BY <3>4, <1>4
      <4> QED BY <4>1, <3>3, <3>4, <3>5
    <3>7. f[s[i]] = Append(SubSeq(row, 1, i), << >>)
      BY <3>1, <3>6, <1>1, ScannedTab DEF n
    <3>8. SubSeq(row[i + 1], 1, 0) = << >>
      BY SubSeqEmpty
    <3>9. G(i + 1, 0) = Append(SubSeq(row, 1, i), << >>)
      BY <3>1, <3>8
    <3> HIDE DEF G
    <3> QED BY <3>1, <3>7, <3>9
  <2>3. n - 1 \in Nat
    BY <1>1
  <2>4. \A i \in 0..(n - 1) : i \in V
    <3> HIDE DEF V
    <3> QED BY <2>1, <2>2, <2>3, StepInduction
  <2>5. ASSUME NEW k \in 1..n PROVE f[s[k - 1]] = G(k, 0)
    <3>1. k - 1 \in 0..(n - 1) /\ (k - 1) + 1 = k
      BY <1>1
    <3>2. k - 1 \in V
      <4> HIDE DEF V
      <4> QED BY <3>1, <2>4
    <3> HIDE DEF G
    <3> QED BY <3>1, <3>2
  <2> HIDE DEF G
  <2> QED BY <2>5
<1>10. Cells(line) = Append(SubSeq(row, 1, n - 1), row[n])
  <2>1. n \in 1..n /\ Len(row[n]) \in Nat
    BY <1>1
  <2>2. Within(n)
    <3> HIDE DEF G, Within
    <3> QED BY <2>1, <1>7, <1>9
  <2>3. f[s[n - 1] + Len(row[n])] = G(n, Len(row[n]))
    <3>1. Len(row[n]) \in 0..Len(row[n])
      BY <2>1
    <3> HIDE DEF G
    <3> QED BY <3>1, <2>2
  <2>4. s[n - 1] + Len(row[n]) = Len(line)
    <3>1. s[n] = s[n - 1] + Len(row[n]) + 1 /\ s[n - 1] \in Nat
      BY <2>1, <1>6
    <3> QED BY <3>1, <2>1, <1>2, <1>6
  <2> HIDE DEF G
  <2> QED BY <2>1, <2>3, <2>4, <1>4, <1>8
<1>11. Append(SubSeq(row, 1, n - 1), row[n]) = row
  <2>1. n \in 1..n
    BY <1>1
  <2>2. Append(SubSeq(row, 1, n - 1), row[n]) = SubSeq(row, 1, n)
    BY <2>1, <1>1, OneMore DEF n
  <2> QED BY <2>2, <1>1, SubSeqFull DEF n
<1> QED BY <1>10, <1>11 DEF line

-----------------------------------------------------------------------------
\* A line ends somewhere.
LEMMA LineEndIs ==
  ASSUME NEW t, NEW l \in Nat, Len(t) = l, NEW i \in 1..(l + 1)
  PROVE  /\ LineEnd(t, i) \in i..(l + 1)
         /\ LineEnd(t, i) <= l => t[LineEnd(t, i)] \in Breaks
         /\ \A j \in i..(LineEnd(t, i) - 1) : t[j] \notin Breaks
<1> DEFINE Ends_(e) == (e <= l => t[e] \in Breaks) /\ \A j \in i..(e - 1) : t[j] \notin Breaks
<1>1. \E e \in i..(l + 1) : Ends_(e)
  <2> SUFFICES ASSUME \A e \in i..(l + 1) : ~Ends_(e) PROVE FALSE
    OBVIOUS
  <2> DEFINE U == {k \in 0..(l + 1 - i) : \A j \in i..(i + k) : j <= l /\ t[j] \notin Breaks}
  <2>1. 0 \in U
    <3>1. i \in i..(l + 1) /\ 0 \in 0..(l + 1 - i) /\ \A j \in i..(i + 0) : j = i
      OBVIOUS
    <3>2. \A j \in i..(i - 1) : t[j] \notin Breaks
      OBVIOUS
    <3>3. i <= l /\ t[i] \notin Breaks
      BY <3>1, <3>2
    <3> QED BY <3>1, <3>3
  <2>2. ASSUME NEW k \in 1..(l + 1 - i), k - 1 \in U PROVE k \in U
    <3>1. i + k \in i..(l + 1) /\ k \in 0..(l + 1 - i) /\ i + (k - 1) = i + k - 1
      OBVIOUS
    <3>2. \A j \in i..(i + k - 1) : j <= l /\ t[j] \notin Breaks
      BY <2>2, <3>1
    <3>3. i + k <= l /\ t[i + k] \notin Breaks
      BY <3>1, <3>2
    <3>4. \A j \in i..(i + k) : j = i + k \/ j \in i..(i + k - 1)
      OBVIOUS
    <3> QED BY <3>1, <3>2, <3>3, <3>4
  <2>3. l + 1 - i \in Nat /\ l + 1 - i \in 0..(l + 1 - i) /\ i + (l + 1 - i) = l + 1
    OBVIOUS
  <2>4. \A k \in 0..(l + 1 - i) : k \in U
    <3> HIDE DEF U
    <3> QED BY <2>1, <2>2, <2>3, StepInduction
  <2>5. l + 1 - i \in U
    <3> HIDE DEF U
    <3> QED BY <2>3, <2>4
  <2>6. l + 1 \in i..(i + (l + 1 - i))
    BY <2>3
  <2>7. l + 1 <= l
    BY <2>5, <2>6
  <2> QED BY <2>7
<1>2. LineEnd(t, i) = CHOOSE e \in i..(l + 1) : Ends_(e)
  BY DEF LineEnd
<1>3. LineEnd(t, i) \in i..(l + 1) /\ Ends_(LineEnd(t, i))
  <2> HIDE DEF Ends_
  <2> QED BY <1>1, <1>2
<1> QED BY <1>3

\* There is one end only.
LEMMA LineEndUnique ==
  ASSUME NEW t, NEW l \in Nat, Len(t) = l, NEW i \in 1..(l + 1), NEW e \in i..(l + 1),
         e <= l => t[e] \in Breaks,
         \A j \in i..(e - 1) : t[j] \notin Breaks
  PROVE  LineEnd(t, i) = e
<1> DEFINE x == LineEnd(t, i)
<1>1. x \in i..(l + 1) /\ (x <= l => t[x] \in Breaks) /\ \A j \in i..(x - 1) : t[j] \notin Breaks
  BY LineEndIs
<1> HIDE DEF x
<1>2. CASE x < e
  BY <1>1, <1>2
<1>3. CASE e < x
  BY <1>1, <1>3
<1>4. x = e
  BY <1>1, <1>2, <1>3
<1> QED BY <1>4 DEF x

LEMMA BehindIs ==
  ASSUME NEW t \in Seq(Symbol), NEW e \in 1..(Len(t) + 1)
  PROVE  Behind(t, e) \in e..(Len(t) + 1)
<1>1. Len(t) \in Nat /\ DOMAIN t = 1..Len(t)
  BY SequencesKnown
<1> DEFINE cr == IF Is(t, e, "\r") THEN e + 1 ELSE e
<1>2. cr \in e..(Len(t) + 1)
  BY <1>1 DEF Is
<1>3. Behind(t, e) = IF Is(t, cr, "\n") THEN cr + 1 ELSE cr
  BY DEF Behind
<1> HIDE DEF cr
<1> QED BY <1>1, <1>2, <1>3 DEF Is


\* Where scanning is, and the rows found.
Scan(l) == [at : 1..(l + 1), rows : Seq(Row)]

LEMMA ScanLineType ==
  ASSUME NEW t \in Seq(Symbol), NEW s \in Scan(Len(t))
  PROVE  /\ scanLine(t, s) \in Scan(Len(t))
         /\ s.at > Len(t) => scanLine(t, s) = s
         /\ s.at <= Len(t) => Len(scanLine(t, s).rows) = Len(s.rows) + 1
         /\ Len(s.rows) <= Len(scanLine(t, s).rows)
<1> DEFINE l == Len(t)
           e == LineEnd(t, s.at)
           line == SubSeq(t, s.at, e - 1)
<1>1. /\ l \in Nat /\ s.at \in 1..(l + 1) /\ s.rows \in Seq(Row) /\ Len(s.rows) \in Nat
      /\ \A j \in 1..l : t[j] \in Symbol
  BY SequencesKnown DEF Scan
<1>2. CASE s.at > l
  <2>1. scanLine(t, s) = s
    BY <1>2 DEF scanLine
  <2> QED BY <1>1, <1>2, <2>1
<1>3. CASE s.at <= l
  <2>1. scanLine(t, s) = [at |-> Behind(t, e), rows |-> Append(s.rows, Cells(line))]
    BY <1>1, <1>3 DEF scanLine
  <2>2. e \in (s.at)..(l + 1) /\ \A j \in (s.at)..(e - 1) : t[j] \notin Breaks
    BY <1>1, LineEndIs
  <2> HIDE DEF e
  <2>3. line \in Seq(InLine)
    <3>1. ASSUME NEW j \in (s.at)..(e - 1) PROVE t[j] \in InLine
      <4>1. j \in 1..l
        BY <1>1, <2>2
      <4>2. t[j] \in Symbol /\ t[j] \notin Breaks
        BY <1>1, <2>2, <4>1
      <4> QED BY <4>2 DEF InLine, Plain, Separators, Breaks
    <3>2. s.at \in Int /\ e - 1 \in Int
      BY <1>1, <2>2
    <3> QED BY <3>1, <3>2, SubSeqProperties
  <2>4. Cells(line) \in Row
    <3> HIDE DEF line
    <3> QED BY <2>3, CellsType
  <2>5. Behind(t, e) \in 1..(l + 1)
    <3>1. e \in 1..(l + 1)
      BY <1>1, <2>2
    <3>2. Behind(t, e) \in e..(l + 1)
      BY <3>1, BehindIs
    <3> QED BY <3>1, <3>2
  <2> HIDE DEF line
  <2>6. /\ Append(s.rows, Cells(line)) \in Seq(Row)
        /\ Len(Append(s.rows, Cells(line))) = Len(s.rows) + 1
    BY <1>1, <2>4, AppendProperties
  <2>7. scanLine(t, s) \in Scan(l)
    BY <2>1, <2>5, <2>6 DEF Scan
  <2>8. Len(scanLine(t, s).rows) = Len(s.rows) + 1
    BY <2>1, <2>6
  <2> QED BY <1>1, <1>3, <2>7, <2>8
<1> QED BY <1>1, <1>2, <1>3

\* How the lines of a text are found.
LEMMA LinesSteps ==
  ASSUME NEW t \in Seq(Symbol)
  PROVE  \E f : /\ Lines(t) = f[Len(t)].rows
                /\ f[0] = [at |-> 1, rows |-> << >>]
                /\ \A i \in 1..Len(t) : f[i] = scanLine(t, f[i - 1])
                /\ \A i \in 0..Len(t) : f[i] \in Scan(Len(t))
                /\ \A i \in 1..Len(t) : Len(f[i].rows) >= 1
<1> DEFINE n == Len(t)
           S == Scan(n)
           first == [at |-> 1, rows |-> << >>]
           step == [z \in S \X (1..n) |-> scanLine(t, z[1])]
           F == CHOOSE f : f = [i \in 0..n |-> IF i = 0 THEN first ELSE scanLine(t, f[i - 1])]
<1>1. n \in Nat
  BY SequencesKnown
<1>2. step \in [S \X (1..n) -> S]
  <2>1. ASSUME NEW z \in S \X (1..n) PROVE scanLine(t, z[1]) \in S
    BY ScanLineType
  <2> HIDE DEF S, n
  <2> QED BY <2>1
<1>3. first \in S
  <2>1. << >> \in Seq(Row) /\ 1 \in 1..(n + 1)
    BY <1>1, EmptySeq
  <2> QED BY <2>1 DEF Scan
<1>4. PICK g \in [0..n -> S] : Follows(g, n, first, step)
  <2> HIDE DEF n, step, first, S
  <2> QED BY <1>1, <1>2, <1>3, StepsExist
<1>5. g = [i \in 0..n |-> IF i = 0 THEN first ELSE scanLine(t, g[i - 1])]
  <2>1. ASSUME NEW i \in 0..n
        PROVE  g[i] = IF i = 0 THEN first ELSE scanLine(t, g[i - 1])
    <3>1. CASE i = 0
      BY <3>1, <1>4 DEF Follows
    <3>2. CASE i # 0
      <4>1. i \in 1..n /\ i - 1 \in 0..n
        BY <3>2, <1>1
      <4>2. g[i] = step[<<g[i - 1], i>>] /\ g[i - 1] \in S
        BY <4>1, <1>4 DEF Follows
      <4>3. step[<<g[i - 1], i>>] = scanLine(t, g[i - 1])
        <5>1. <<g[i - 1], i>> \in S \X (1..n)
          BY <4>1, <4>2
        <5> HIDE DEF n, S
        <5> QED BY <5>1
      <4> QED BY <3>2, <4>2, <4>3
    <3> QED BY <3>1, <3>2
  <2> HIDE DEF first, step, n, S
  <2> QED BY <2>1, <1>4
<1>6. F = [i \in 0..n |-> IF i = 0 THEN first ELSE scanLine(t, F[i - 1])]
  <2> HIDE DEF first, n
  <2> QED BY <1>5
<1>7. Lines(t) = F[n].rows
  BY DEF Lines
<1> HIDE DEF F, first, S
<1>8. F[0] = first /\ \A i \in 1..n : F[i] = scanLine(t, F[i - 1])
  <2>1. 0 \in 0..n /\ \A i \in 1..n : i \in 0..n /\ i # 0
    BY <1>1
  <2> HIDE DEF n
  <2> QED BY <1>6, <2>1
<1>9. \A i \in 0..n : F[i] \in S
  <2> DEFINE U == {i \in 0..n : F[i] \in S}
  <2>1. 0 \in U
    BY <1>1, <1>3, <1>8
  <2>2. ASSUME NEW i \in 1..n, i - 1 \in U PROVE i \in U
    <3>1. F[i] = scanLine(t, F[i - 1]) /\ F[i - 1] \in S
      BY <2>2, <1>1, <1>8
    <3>2. F[i] \in S
      BY <3>1, ScanLineType DEF S
    <3> QED BY <3>2
  <2>3. \A i \in 0..n : i \in U
    <3> HIDE DEF U, n
    <3> QED BY <1>1, <2>1, <2>2, StepInduction
  <2> QED BY <2>3
<1>10. \A i \in 1..n : Len(F[i].rows) >= 1
  <2> DEFINE V == {i \in 0..n : i = 0 \/ Len(F[i].rows) >= 1}
  <2>1. 0 \in V
    BY <1>1
  <2>2. ASSUME NEW i \in 1..n, i - 1 \in V PROVE i \in V
    <3>1. F[i] = scanLine(t, F[i - 1]) /\ F[i - 1] \in S /\ i \in 0..n /\ i - 1 \in 0..n
      BY <1>1, <1>8, <1>9
    <3>2. CASE i = 1
      <4>1. F[i - 1].at = 1 /\ Len(F[i - 1].rows) = 0 /\ 1 <= n
        BY <3>2, <1>8 DEF first
      <4>2. Len(F[i].rows) = Len(F[i - 1].rows) + 1
        BY <3>1, <4>1, ScanLineType DEF S
      <4>3. Len(F[i].rows) >= 1
        BY <4>1, <4>2
      <4> QED BY <3>1, <4>3
    <3>3. CASE i # 1
      <4>1. Len(F[i - 1].rows) >= 1
        BY <2>2, <3>3, <1>1
      <4>2. Len(F[i - 1].rows) <= Len(F[i].rows) /\ F[i] \in S
        BY <3>1, <1>9, ScanLineType DEF S
      <4>3. Len(F[i - 1].rows) \in Nat /\ Len(F[i].rows) \in Nat
        BY <3>1, <4>2, SequencesKnown DEF S, Scan
      <4>4. Len(F[i].rows) >= 1
        BY <4>1, <4>2, <4>3
      <4> QED BY <3>1, <4>4
    <3> QED BY <3>2, <3>3
  <2>3. \A i \in 0..n : i \in V
    <3> HIDE DEF V, n
    <3> QED BY <1>1, <2>1, <2>2, StepInduction
  <2>4. ASSUME NEW i \in 1..n PROVE Len(F[i].rows) >= 1
    <3>1. i \in 0..n /\ i # 0
      BY <1>1
    <3>2. i \in V
      <4> HIDE DEF V
      <4> QED BY <2>3, <3>1
    <3> QED BY <3>1, <3>2
  <2> QED BY <2>4
<1> QED BY <1>7, <1>8, <1>9, <1>10 DEF first, S

\* Reading finds rows, and one at least unless there is no text.
LEMMA LinesType ==
  ASSUME NEW t \in Seq(Symbol)
  PROVE  Lines(t) \in Seq(Row) /\ (t # << >> => Lines(t) # << >>)
<1>1. PICK f : /\ Lines(t) = f[Len(t)].rows
               /\ \A i \in 0..Len(t) : f[i] \in Scan(Len(t))
               /\ \A i \in 1..Len(t) : Len(f[i].rows) >= 1
  BY LinesSteps
<1>2. Len(t) \in 0..Len(t) /\ (t # << >> => Len(t) \in 1..Len(t))
  BY SequencesKnown
<1>3. Lines(t) \in Seq(Row) /\ (t # << >> => Len(Lines(t)) >= 1)
  BY <1>1, <1>2 DEF Scan
<1> QED BY <1>3, SequencesKnown

-----------------------------------------------------------------------------
\* Only the line of one empty cell has nothing in it.
LEMMA LineNotEmpty ==
  ASSUME NEW row \in Row, row # << << >> >>
  PROVE  Len(Line(row)) \in Nat /\ Len(Line(row)) >= 1
<1>1. Line(row) \in Seq(InLine)
  BY LineType DEF Row
<1>2. ASSUME Line(row) = << >> PROVE FALSE
  <2>1. << >> \in Seq(InLine) /\ Len(<< >>) = 0
    BY EmptySeq
  <2>2. Cells(<< >>) = << << >> >>
    BY <2>1, CellsSteps
  <2> QED BY <1>2, <2>2, CellsOfLine
<1> QED BY <1>1, <1>2, SequencesKnown

\* Texts behind one another, which the provers only take apart where these are expanded.
Two(a, b) == a \o b
Three(a, b, c) == a \o b \o c

LEMMA FourBehind ==
  ASSUME NEW S, NEW a \in Seq(S), NEW b \in Seq(S), NEW c \in Seq(S), NEW d \in Seq(S)
  PROVE  Three(Two(a, b), c, d) = Two(a, Three(b, c, d))
<1>1. (a \o b) \o c = a \o (b \o c)
  BY ConcatAssociative
<1> DEFINE bc == b \o c
<1>2. bc \in Seq(S)
  BY ConcatProperties
<1>3. (a \o b) \o c = a \o bc
  BY <1>1
<1> HIDE DEF bc
<1>4. (a \o bc) \o d = a \o (bc \o d)
  BY <1>2, ConcatAssociative
<1>5. (a \o b) \o c \o d = a \o (bc \o d)
  BY <1>3, <1>4
<1> QED BY <1>5 DEF bc, Two, Three

\* A part in front of those that are joined.
InFront(S, separator, first, parts, all) ==
    /\ separator \in Seq(S) /\ first \in Seq(S)
    /\ parts \in Seq(Seq(S)) /\ parts # << >>
    /\ all \in Seq(Seq(S)) /\ Len(all) = Len(parts) + 1 /\ all[1] = first
    /\ \A i \in 1..Len(parts) : all[i + 1] = parts[i]

LEMMA JoinedInFront ==
  ASSUME NEW S, NEW separator, NEW first, NEW parts, NEW all,
         InFront(S, separator, first, parts, all)
  PROVE  Joined(all, separator) = Three(first, separator, Joined(parts, separator))
<1> DEFINE n == Len(parts)
           before == first \o separator
<1>a. SUFFICES ASSUME separator \in Seq(S), first \in Seq(S),
                    parts \in Seq(Seq(S)), parts # << >>,
                    all \in Seq(Seq(S)), Len(all) = Len(parts) + 1, all[1] = first,
                    \A i \in 1..Len(parts) : all[i + 1] = parts[i]
             PROVE  Joined(all, separator) = before \o Joined(parts, separator)
  BY DEF InFront, Three
<1>b. parts \in Seq(Seq(S)) /\ parts # << >> /\ separator \in Seq(S)
  BY <1>a
<1>c. all \in Seq(Seq(S)) /\ all # << >> /\ separator \in Seq(S)
  BY <1>a, <1>b, SequencesKnown
<1>0. separator \in Seq(S) /\ before \in Seq(S)
  BY <1>a, ConcatProperties
<1>1. /\ n \in Nat /\ n >= 1 /\ all # << >> /\ Len(all) = n + 1
      /\ \A i \in 1..n : parts[i] \in Seq(S)
  BY <1>a, <1>b, <1>c, SequencesKnown
<1>2. PICK f : /\ Joined(parts, separator) = f[n]
               /\ f[1] = parts[1]
               /\ \A i \in 2..n : f[i] = f[i - 1] \o separator \o parts[i]
               /\ \A i \in 1..n : f[i] \in Seq(S)
  BY <1>b, JoinedSteps
<1>3. PICK g : /\ Joined(all, separator) = g[Len(all)]
               /\ g[1] = all[1]
               /\ \A i \in 2..Len(all) : g[i] = g[i - 1] \o separator \o all[i]
               /\ \A i \in 1..Len(all) : g[i] \in Seq(S)
  BY <1>c, JoinedSteps
<1> HIDE DEF n
<1>4. ASSUME NEW m \in 1..n PROVE g[m + 1] = g[m] \o separator \o parts[m]
  <2>1. m + 1 \in 2..Len(all) /\ (m + 1) - 1 = m
    BY <1>1
  <2>2. all[m + 1] = parts[m]
    BY <1>a DEF n
  <2> QED BY <2>1, <2>2, <1>3
<1>5. g[1 + 1] = before \o f[1]
  <2>1. 1 \in 1..n /\ 1 + 1 = 2
    BY <1>1
  <2>2. g[1 + 1] = g[1] \o separator \o parts[1]
    BY <2>1, <1>4
  <2>3. g[1] = first /\ f[1] = parts[1]
    BY <1>a, <1>2, <1>3
  <2> QED BY <2>2, <2>3
<1> HIDE DEF before
<1>6. ASSUME NEW m \in 1..(n - 1), g[m + 1] = before \o f[m] PROVE g[(m + 1) + 1] = before \o f[m + 1]
  <2>1. m + 1 \in 1..n /\ m + 1 \in 2..n /\ (m + 1) - 1 = m /\ m \in 1..n
    BY <1>1
  <2> DEFINE part == parts[m + 1]
             x == f[m]
  <2>2. part \in Seq(S) /\ x \in Seq(S)
    BY <2>1, <1>1, <1>2
  <2>3. g[(m + 1) + 1] = Three(Two(before, x), separator, part)
    BY <2>1, <1>4, <1>6 DEF Two, Three
  <2>4. f[m + 1] = Three(x, separator, part)
    BY <2>1, <1>2 DEF Three
  <2> HIDE DEF part, x
  <2>5. Three(Two(before, x), separator, part) = Two(before, Three(x, separator, part))
    BY <1>0, <2>2, FourBehind
  <2> QED BY <2>3, <2>4, <2>5 DEF Two
<1>7. g[n + 1] = before \o f[n]
  <2> DEFINE U == {i \in 0..(n - 1) : g[(i + 1) + 1] = before \o f[i + 1]}
  <2>1. 0 \in U
    <3>1. 0 + 1 = 1 /\ 0 \in 0..(n - 1)
      BY <1>1
    <3> QED BY <3>1, <1>5
  <2>2. ASSUME NEW i \in 1..(n - 1), i - 1 \in U PROVE i \in U
    <3>1. (i - 1) + 1 = i /\ i \in 0..(n - 1)
      BY <1>1
    <3> QED BY <3>1, <2>2, <1>6
  <2>3. n - 1 \in Nat /\ n - 1 \in 0..(n - 1) /\ (n - 1) + 1 = n
    BY <1>1
  <2>4. \A i \in 0..(n - 1) : i \in U
    <3> HIDE DEF U
    <3> QED BY <2>1, <2>2, <2>3, StepInduction
  <2>5. n - 1 \in U
    <3> HIDE DEF U
    <3> QED BY <2>3, <2>4
  <2> QED BY <2>3, <2>5
<1> QED BY <1>1, <1>2, <1>3, <1>7 DEF before, n

\* The texts that rows are written to: every line ended, or every one but the last.
LineOf(rows) == [i \in DOMAIN rows |-> Line(rows[i])]
Written(rows, ended) == Joined(LineOf(rows), NewLine) \o (IF ended THEN NewLine ELSE << >>)

LEMMA LineOfType ==
  ASSUME NEW rows \in Seq(Seq(Cell))
  PROVE  /\ LineOf(rows) \in Seq(Seq(InLine)) /\ LineOf(rows) \in Seq(Seq(Symbol))
         /\ Len(LineOf(rows)) = Len(rows)
         /\ \A i \in 1..Len(rows) : LineOf(rows)[i] = Line(rows[i]) /\ Line(rows[i]) \in Seq(InLine)
         /\ NewLine \in Seq(Symbol) /\ Len(NewLine) = 2
<1> DEFINE n == Len(rows)
           L == LineOf(rows)
<1>1. n \in Nat /\ DOMAIN rows = 1..n /\ \A i \in 1..n : rows[i] \in Seq(Cell)
  BY SequencesKnown
<1>2. \A i \in 1..n : Line(rows[i]) \in Seq(InLine)
  BY <1>1, LineType
<1>3. L = [i \in 1..n |-> Line(rows[i])]
  BY <1>1 DEF LineOf
<1> HIDE DEF n, L
<1>4. L \in [1..n -> Seq(InLine)]
  BY <1>2, <1>3
<1>5. L \in Seq(Seq(InLine)) /\ Len(L) = n
  BY <1>1, <1>4
<1>6. \A i \in 1..n : L[i] = Line(rows[i])
  BY <1>3
<1>7. Seq(InLine) \subseteq Seq(Symbol)
  <2>1. InLine \subseteq Symbol
    BY DEF InLine, Symbol, Plain, Separators
  <2> QED BY <2>1, SeqMonotonic
<1>8. L \in Seq(Seq(Symbol))
  BY <1>5, <1>7, SeqMonotonic
<1>9. NewLine \in Seq(Symbol) /\ Len(NewLine) = 2
  BY DEF NewLine, Symbol, Separators
<1> QED BY <1>2, <1>5, <1>6, <1>8, <1>9 DEF L, n

LEMMA WrittenType ==
  ASSUME NEW rows \in Seq(Seq(Cell)), NEW ended \in BOOLEAN
  PROVE  Written(rows, ended) \in Seq(Symbol)
<1>1. LineOf(rows) \in Seq(Seq(Symbol)) /\ NewLine \in Seq(Symbol)
  BY LineOfType
<1>2. Joined(LineOf(rows), NewLine) \in Seq(Symbol)
  BY <1>1, JoinedType
<1>3. (IF ended THEN NewLine ELSE << >>) \in Seq(Symbol)
  BY <1>1, EmptySeq
<1> QED BY <1>2, <1>3, ConcatProperties DEF Written

\* Where the lines of a written text are: the k-th begins behind the s[k - 1]-th character and
\* a line break is behind it, or the end of the text.
Ruled(t, rows, ended, s) ==
    LET n == Len(rows) IN
    /\ s[0] = 0
    /\ \A k \in 1..n : s[k - 1] \in Nat /\ s[k] = s[k - 1] + Len(Line(rows[k])) + 2
    /\ \A k \in 1..n : s[k] <= s[n]
    /\ Len(t) = IF ended THEN s[n] ELSE s[n] - 2
    /\ \A k \in 1..n : \A j \in 1..Len(Line(rows[k])) : t[s[k - 1] + j] = Line(rows[k])[j]
    /\ \A k \in 1..n : (k < n \/ ended) => t[s[k] - 1] = "\r" /\ t[s[k]] = "\n"

LEMMA WrittenIsRuled ==
  ASSUME NEW rows \in Seq(Row), rows # << >>, NEW ended \in BOOLEAN
  PROVE  \E s : Ruled(Written(rows, ended), rows, ended, s)
<1> DEFINE n == Len(rows)
           L == LineOf(rows)
           t == Joined(L, NewLine)
           tail == IF ended THEN NewLine ELSE << >>
           w == Written(rows, ended)
<1>1. rows \in Seq(Seq(Cell)) /\ n \in Nat /\ n >= 1
  <2>1. Row \subseteq Seq(Cell)
    BY DEF Row
  <2> QED BY <2>1, SeqMonotonic, SequencesKnown
<1>2. /\ L \in Seq(Seq(Symbol)) /\ Len(L) = n /\ NewLine \in Seq(Symbol) /\ Len(NewLine) = 2
      /\ \A i \in 1..n : L[i] = Line(rows[i]) /\ Line(rows[i]) \in Seq(InLine)
  BY <1>1, LineOfType
<1>3. L # << >>
  BY <1>1, <1>2
<1>4. PICK s : Laid(t, L, NewLine, s)
  <2> HIDE DEF L
  <2> QED BY <1>2, <1>3, JoinedIsLaid
<1>5. t \in Seq(Symbol) /\ tail \in Seq(Symbol) /\ w = t \o tail /\ Len(t) \in Nat
  <2>1. t \in Seq(Symbol)
    <3> HIDE DEF L
    <3> QED BY <1>2, JoinedType
  <2>2. tail \in Seq(Symbol)
    BY <1>2, EmptySeq
  <2>3. Len(t) \in Nat
    <3> HIDE DEF t
    <3> QED BY <2>1, SequencesKnown
  <2> QED BY <2>1, <2>2, <2>3 DEF Written
<1>6. /\ Len(tail) = IF ended THEN 2 ELSE 0
      /\ ended => tail[1] = "\r" /\ tail[2] = "\n"
  BY <1>2 DEF NewLine
<1> HIDE DEF t, tail, L, w
<1>7. /\ Len(w) = Len(t) + Len(tail)
      /\ \A i \in 1..Len(t) : w[i] = t[i]
      /\ \A i \in 1..Len(tail) : w[Len(t) + i] = tail[i]
  <2>1. /\ Len(w) = Len(t) + Len(tail)
        /\ \A i \in 1..Len(t) + Len(tail) : w[i] = IF i <= Len(t) THEN t[i] ELSE tail[i - Len(t)]
    BY <1>5, ConcatProperties
  <2>2. Len(tail) \in Nat
    BY <1>6
  <2>3. ASSUME NEW i \in 1..Len(t) PROVE w[i] = t[i]
    <3>1. i \in 1..Len(t) + Len(tail) /\ i <= Len(t)
      BY <1>5, <2>2
    <3> QED BY <2>1, <3>1
  <2>4. ASSUME NEW i \in 1..Len(tail) PROVE w[Len(t) + i] = tail[i]
    <3>1. Len(t) + i \in 1..Len(t) + Len(tail) /\ ~(Len(t) + i <= Len(t)) /\ (Len(t) + i) - Len(t) = i
      BY <1>5, <2>2
    <3> QED BY <2>1, <3>1
  <2> QED BY <2>1, <2>3, <2>4
<1>8. \A k \in 1..n : Len(Line(rows[k])) \in Nat
  BY <1>2, SequencesKnown
<1>9. /\ s[0] = 0
      /\ \A k \in 1..n : s[k - 1] \in Nat /\ s[k] = s[k - 1] + Len(Line(rows[k])) + 2
      /\ Len(t) + 2 = s[n]
      /\ \A k \in 1..n : s[k] <= s[n]
      /\ \A k \in 1..n : \A j \in 1..Len(Line(rows[k])) : t[s[k - 1] + j] = Line(rows[k])[j]
      /\ \A k \in 1..(n - 1) : \A j \in 1..2 : t[s[k - 1] + Len(Line(rows[k])) + j] = NewLine[j]
  <2>1. \A k \in 1..n : L[k] = Line(rows[k])
    BY <1>2
  <2>2. \A k \in 1..(n - 1) : k \in 1..n
    BY <1>1
  <2> HIDE DEF n
  <2> QED BY <2>1, <2>2, <1>2, <1>4 DEF Laid
<1>10. Len(w) = IF ended THEN s[n] ELSE s[n] - 2
  BY <1>5, <1>6, <1>7, <1>9
<1> HIDE DEF n
<1>11. ASSUME NEW k \in 1..n, NEW j \in 1..Len(Line(rows[k])) PROVE w[s[k - 1] + j] = Line(rows[k])[j]
  <2> DEFINE l == Len(Line(rows[k]))
  <2>1. s[k - 1] \in Nat /\ s[k] = s[k - 1] + l + 2 /\ l \in Nat /\ s[k] <= Len(t) + 2 /\ j \in 1..l
    BY <1>8, <1>9
  <2>2. t[s[k - 1] + j] = Line(rows[k])[j]
    BY <1>9
  <2> HIDE DEF l
  <2>3. s[k - 1] + l <= Len(t)
    BY <2>1, <1>5
  <2>4. s[k - 1] + j \in 1..Len(t)
    BY <2>1, <2>3, <1>5
  <2> QED BY <2>2, <2>4, <1>7
<1>12. ASSUME NEW k \in 1..n, k < n \/ ended PROVE w[s[k] - 1] = "\r" /\ w[s[k]] = "\n"
  <2> DEFINE l == Len(Line(rows[k]))
  <2>1. s[k - 1] \in Nat /\ s[k] = s[k - 1] + l + 2 /\ l \in Nat /\ s[k] <= Len(t) + 2
    BY <1>8, <1>9
  <2>2. CASE k < n
    <3>1. k \in 1..(n - 1) /\ k + 1 \in 1..n /\ (k + 1) - 1 = k
      BY <1>1, <2>2
    <3>2. t[s[k - 1] + l + 1] = NewLine[1] /\ t[s[k - 1] + l + 2] = NewLine[2]
      BY <3>1, <1>9
    <3>3. NewLine[1] = "\r" /\ NewLine[2] = "\n"
      BY DEF NewLine
    <3>4. s[k + 1] = s[k] + Len(Line(rows[k + 1])) + 2 /\ Len(Line(rows[k + 1])) \in Nat /\ s[k + 1] <= Len(t) + 2
      BY <3>1, <1>8, <1>9
    <3> HIDE DEF l
    <3>5. s[k] <= Len(t) /\ s[k] \in Nat /\ s[k] >= 2
      BY <3>4, <2>1, <1>5
    <3>6. s[k] - 1 = s[k - 1] + l + 1 /\ s[k] = s[k - 1] + l + 2
      BY <2>1
    <3>7. s[k] - 1 \in 1..Len(t) /\ s[k] \in 1..Len(t)
      BY <3>5, <1>5
    <3> QED BY <3>2, <3>3, <3>6, <3>7, <1>7
  <2>3. CASE k = n
    <3>1. ended /\ Len(tail) = 2 /\ tail[1] = "\r" /\ tail[2] = "\n"
      BY <1>12, <2>3, <1>6, <1>1
    <3>2. s[k] = Len(t) + 2
      BY <2>3, <1>9
    <3>3. w[Len(t) + 1] = tail[1] /\ w[Len(t) + 2] = tail[2]
      BY <3>1, <1>7
    <3>4. s[k] - 1 = Len(t) + 1
      BY <3>2, <1>5
    <3> QED BY <3>1, <3>2, <3>3, <3>4
  <2> QED BY <2>2, <2>3, <1>1
<1>13. Ruled(w, rows, ended, s)
  BY <1>9, <1>10, <1>11, <1>12 DEF Ruled, n
<1> QED BY <1>13 DEF w

\* A text has a line from a place on, with a line break behind it, or it ends there.
HasLine(t, line, at) ==
    /\ t \in Seq(Symbol) /\ line \in Seq(InLine) /\ at \in 1..Len(t)
    /\ \A j \in 1..Len(line) : t[at - 1 + j] = line[j]
    /\ \/ at + Len(line) = Len(t) + 1
       \/ /\ at + Len(line) + 1 <= Len(t)
          /\ t[at + Len(line)] = "\r" /\ t[at + Len(line) + 1] = "\n"

BehindLine(t, line, at) ==
    IF at + Len(line) = Len(t) + 1 THEN Len(t) + 1 ELSE at + Len(line) + 2

\* Such a line is scanned.
LEMMA LineIsScanned ==
  ASSUME NEW t, NEW line, NEW at, NEW found, HasLine(t, line, at)
  PROVE  scanLine(t, [at |-> at, rows |-> found])
           = [at |-> BehindLine(t, line, at), rows |-> Append(found, Cells(line))]
<1> DEFINE T == Len(t)
           l == Len(line)
           ended == at + l # T + 1
<1> SUFFICES ASSUME t \in Seq(Symbol), line \in Seq(InLine), at \in 1..T,
                    \A j \in 1..l : t[at - 1 + j] = line[j],
                    ended => at + l + 1 <= T /\ t[at + l] = "\r" /\ t[at + l + 1] = "\n"
             PROVE  scanLine(t, [at |-> at, rows |-> found])
                      = [at |-> IF ended THEN at + l + 2 ELSE T + 1,
                         rows |-> Append(found, Cells(line))]
  BY DEF HasLine, BehindLine
<1> DEFINE e == at + l
<1>0. T \in Nat /\ l \in Nat /\ at \in Nat
  BY SequencesKnown
<1>1. e \in at..(T + 1) /\ (e <= T => ended) /\ e - 1 \in Int /\ at \in Int /\ e \in Nat
  BY <1>0
<1>2. DOMAIN t = 1..T
  BY SequencesKnown
<1>3. \A j \in at..(e - 1) : t[j] = line[j - at + 1] /\ t[j] \in InLine
  <2> SUFFICES ASSUME NEW j \in at..(e - 1) PROVE t[j] = line[j - at + 1] /\ t[j] \in InLine
    OBVIOUS
  <2>1. j - at + 1 \in 1..l /\ at - 1 + (j - at + 1) = j
    BY <1>0
  <2>2. line[j - at + 1] \in InLine
    BY <2>1, SequencesKnown
  <2> QED BY <2>1, <2>2
<1>4. \A j \in at..(e - 1) : t[j] \notin Breaks
  BY <1>3 DEF InLine, Plain, Separators, Breaks
<1>5. LineEnd(t, at) = e
  <2>1. e <= T => t[e] \in Breaks
    BY <1>1 DEF Breaks
  <2>2. at \in 1..(T + 1) /\ T = Len(t)
    BY <1>0
  <2> HIDE DEF e
  <2> QED BY <2>1, <2>2, <1>0, <1>1, <1>4, LineEndUnique
<1>6. SubSeq(t, at, e - 1) = line
  <2> DEFINE x == SubSeq(t, at, e - 1)
  <2>1. /\ x \in Seq(InLine)
        /\ Len(x) = IF at <= e - 1 THEN (e - 1) - at + 1 ELSE 0
        /\ \A i \in 1..((e - 1) - at + 1) : x[i] = t[at + i - 1]
    <3> HIDE DEF e
    <3> QED BY <1>1, <1>3, SubSeqProperties
  <2> HIDE DEF x
  <2>2. Len(x) = l
    BY <2>1, <1>0
  <2>3. ASSUME NEW i \in 1..l PROVE x[i] = line[i]
    <3>1. i \in 1..((e - 1) - at + 1) /\ at + i - 1 = at - 1 + i
      BY <1>0
    <3> QED BY <3>1, <2>1
  <2>4. x = line
    BY <2>1, <2>2, <2>3, SeqEqual
  <2> QED BY <2>4 DEF x
<1>7. Behind(t, e) = IF ended THEN at + l + 2 ELSE T + 1
  <2>1. CASE ended
    <3>1. e \in 1..T /\ e + 1 \in 1..T
      BY <2>1, <1>0
    <3>2. Is(t, e, "\r") /\ Is(t, e + 1, "\n")
      BY <2>1, <3>1, <1>2 DEF Is
    <3>3. Behind(t, e) = (e + 1) + 1
      BY <3>2 DEF Behind
    <3> QED BY <2>1, <3>3
  <2>2. CASE ~ended
    <3>1. e = T + 1
      BY <2>2
    <3>2. ~Is(t, e, "\r") /\ ~Is(t, e, "\n")
      BY <3>1, <1>2 DEF Is
    <3>3. Behind(t, e) = e
      BY <3>2 DEF Behind
    <3> QED BY <2>2, <3>1, <3>3
  <2> QED BY <2>1, <2>2
<1> HIDE DEF e
<1>8. scanLine(t, [at |-> at, rows |-> found])
        = [at |-> Behind(t, LineEnd(t, at)),
           rows |-> Append(found, Cells(SubSeq(t, at, LineEnd(t, at) - 1)))]
  <2>1. ~(at > Len(t))
    OBVIOUS
  <2> QED BY <2>1 DEF scanLine
<1> QED BY <1>5, <1>6, <1>7, <1>8

\* A text that is ruled has the line of a row there, and the next one behind it.
HasRow(t, rows, ended, s, k) ==
    /\ rows \in Seq(Row) /\ ended \in BOOLEAN /\ (ended \/ rows[Len(rows)] # << << >> >>)
    /\ t \in Seq(Symbol) /\ Ruled(t, rows, ended, s) /\ k \in 1..Len(rows)

BehindRow(t, rows, s, k) == IF k < Len(rows) THEN s[k] + 1 ELSE Len(t) + 1

IsScanned(t, rows, s, k, found) ==
    scanLine(t, [at |-> s[k - 1] + 1, rows |-> found])
      = [at |-> BehindRow(t, rows, s, k), rows |-> Append(found, rows[k])]

\* The row is scanned from it.
LEMMA RowIsScanned ==
  ASSUME NEW rows, NEW ended, NEW t, NEW s, NEW k, NEW found, HasRow(t, rows, ended, s, k)
  PROVE  s[k - 1] + 1 \in 1..Len(t) /\ IsScanned(t, rows, s, k, found)
<1> DEFINE n == Len(rows)
           line == Line(rows[k])
           l == Len(line)
           b == s[k - 1]
           c == s[k]
           m == s[n]
           T == Len(t)
           broken == k < n \/ ended
<1>a. SUFFICES ASSUME rows \in Seq(Row), ended \in BOOLEAN, ended \/ rows[Len(rows)] # << << >> >>,
                      t \in Seq(Symbol), Ruled(t, rows, ended, s), k \in 1..n
               PROVE  /\ b + 1 \in 1..T
                      /\ scanLine(t, [at |-> b + 1, rows |-> found])
                           = [at |-> IF k < n THEN c + 1 ELSE T + 1, rows |-> Append(found, rows[k])]
  BY DEF HasRow, BehindRow, IsScanned
<1>1. /\ n \in Nat /\ k \in Nat /\ k <= n /\ T \in Nat /\ t \in Seq(Symbol) /\ ended \in BOOLEAN
      /\ \A i \in 1..n : rows[i] \in Row
  BY <1>a, SequencesKnown
<1>2. rows[k] \in Row
  BY <1>a, <1>1
<1>3. \A i \in 1..n : Len(Line(rows[i])) \in Nat
  <2>1. \A i \in 1..n : Line(rows[i]) \in Seq(InLine)
    BY <1>1, LineType DEF Row
  <2> QED BY <2>1, SequencesKnown
<1>4. line \in Seq(InLine) /\ l \in Nat
  BY <1>2, <1>a, <1>3, LineType DEF Row
<1>5. /\ b \in Nat /\ c = b + l + 2 /\ c <= m
      /\ T = IF ended THEN m ELSE m - 2
      /\ \A j \in 1..l : t[b + j] = line[j]
      /\ broken => t[c - 1] = "\r" /\ t[c] = "\n"
  BY <1>a DEF Ruled
<1>6. (k = n => c = m) /\ m \in Nat
  <2>1. n \in 1..n
    BY <1>a, <1>1
  <2>2. s[n - 1] \in Nat /\ s[n] = s[n - 1] + Len(Line(rows[n])) + 2 /\ Len(Line(rows[n])) \in Nat
    BY <2>1, <1>a, <1>3 DEF Ruled
  <2> QED BY <2>2
<1>7. k < n => c + 2 <= m
  <2> SUFFICES ASSUME k < n PROVE c + 2 <= m
    OBVIOUS
  <2>1. k + 1 \in 1..n /\ (k + 1) - 1 = k
    BY <1>a, <1>1
  <2> DEFINE d == Len(Line(rows[k + 1]))
             f == s[k + 1]
  <2>2. f = s[(k + 1) - 1] + d + 2 /\ f <= m /\ s[(k + 1) - 1] \in Nat
    BY <2>1, <1>a DEF Ruled
  <2>3. d \in Nat
    BY <2>1, <1>3
  <2>4. f = c + d + 2 /\ f <= m /\ c \in Nat /\ m \in Nat
    BY <2>1, <2>2, <1>6
  <2> HIDE DEF d, f, c, m
  <2> QED BY <2>3, <2>4
<1>8. k = n /\ ~ended => l >= 1
  BY <1>a, <1>2, LineNotEmpty
<1>9. Cells(line) = rows[k]
  BY <1>2, CellsOfLine
<1> HIDE DEF n, line, l, b, c, m, T
<1>10. broken => c <= T
  <2>1. CASE k < n
    <3>1. c + 2 <= m
      BY <2>1, <1>7
    <3> QED BY <3>1, <1>1, <1>4, <1>5
  <2>2. CASE ended
    BY <2>2, <1>1, <1>4, <1>5
  <2> QED BY <2>1, <2>2
<1>11. ~broken => b + l = T /\ l >= 1 /\ k = n
  <2> SUFFICES ASSUME ~broken PROVE b + l = T /\ l >= 1 /\ k = n
    OBVIOUS
  <2>1. k = n /\ ~ended
    BY <1>1
  <2> QED BY <2>1, <1>1, <1>4, <1>5, <1>6, <1>8
<1> DEFINE at == b + 1
<1>12. at \in 1..T
  BY <1>1, <1>4, <1>5, <1>10, <1>11
<1>13. /\ \A j \in 1..l : t[at - 1 + j] = line[j]
       /\ broken => at + l + 1 <= T /\ t[at + l] = "\r" /\ t[at + l + 1] = "\n"
       /\ ~broken => at + l = T + 1
  <2>1. at - 1 = b /\ at + l = c - 1 /\ at + l + 1 = c
    BY <1>4, <1>5
  <2>2. ~broken => at + l = T + 1
    BY <1>1, <1>4, <1>5, <1>11
  <2> HIDE DEF at, broken
  <2> QED BY <2>1, <2>2, <1>5, <1>10
<1>14. scanLine(t, [at |-> at, rows |-> found])
        = [at |-> BehindLine(t, line, at), rows |-> Append(found, Cells(line))]
  <2>1. HasLine(t, line, at)
    BY <1>1, <1>4, <1>12, <1>13 DEF HasLine, T, l
  <2> HIDE DEF at
  <2> QED BY <2>1, LineIsScanned
<1>15. BehindLine(t, line, at) = IF k < n THEN c + 1 ELSE T + 1
  <2>3. BehindLine(t, line, at) = IF at + l = T + 1 THEN T + 1 ELSE at + l + 2
    BY DEF BehindLine, T, l
  <2>0. at + l + 2 = c + 1 /\ (broken => at + l # T + 1) /\ (~broken => at + l = T + 1)
    BY <1>1, <1>4, <1>5, <1>13
  <2>1. CASE k < n
    BY <2>0, <2>1, <2>3
  <2>2. CASE ~(k < n)
    <3>1. ended => T = c
      BY <2>2, <1>1, <1>5, <1>6
    <3> QED BY <2>0, <2>2, <2>3, <3>1
  <2> QED BY <2>1, <2>2
<1> HIDE DEF broken
<1> QED BY <1>9, <1>12, <1>14, <1>15

\* What is written is ruled into rows, which are the lines that are read.
LEMMA LinesOfWritten ==
  ASSUME NEW rows \in Seq(Row), rows # << >>, NEW ended \in BOOLEAN,
         ended \/ rows[Len(rows)] # << << >> >>
  PROVE  Lines(Written(rows, ended)) = rows
<1> DEFINE n == Len(rows)
           t == Written(rows, ended)
           T == Len(t)
<1>1. t \in Seq(Symbol) /\ T \in Nat
  <2>1. Row \subseteq Seq(Cell)
    BY DEF Row
  <2>2. rows \in Seq(Seq(Cell))
    BY <2>1, SeqMonotonic
  <2>3. t \in Seq(Symbol)
    BY <2>2, WrittenType
  <2> HIDE DEF t
  <2> QED BY <2>3, SequencesKnown
<1>2. PICK s : Ruled(t, rows, ended, s)
  BY WrittenIsRuled
<1>3. PICK f : /\ Lines(t) = f[T].rows
               /\ f[0] = [at |-> 1, rows |-> << >>]
               /\ \A i \in 1..T : f[i] = scanLine(t, f[i - 1])
  <2> HIDE DEF t
  <2> QED BY <1>1, LinesSteps
<1>4. n \in Nat /\ n >= 1 /\ n - 1 \in Nat
  BY SequencesKnown
<1> HIDE DEF t, n
<1> DEFINE At(k) == IF k < n THEN s[k] + 1 ELSE T + 1
<1>5. ASSUME NEW k \in 1..n, NEW found
      PROVE  /\ s[k - 1] + 1 \in 1..T
             /\ scanLine(t, [at |-> s[k - 1] + 1, rows |-> found])
                  = [at |-> At(k), rows |-> Append(found, rows[k])]
  <2>1. HasRow(t, rows, ended, s, k)
    BY <1>1, <1>2 DEF HasRow, n
  <2>2. At(k) = BehindRow(t, rows, s, k)
    BY DEF BehindRow, n
  <2> HIDE DEF At
  <2>3. s[k - 1] + 1 \in 1..Len(t)
    BY <2>1, RowIsScanned
  <2>4. IsScanned(t, rows, s, k, found)
    BY <2>1, RowIsScanned
  <2> QED BY <2>2, <2>3, <2>4 DEF IsScanned
<1>6. s[0] = 0 /\ \A k \in 1..n : s[k - 1] \in Nat /\ s[k] >= s[k - 1] + 2
  <2>1. \A k \in 1..n : s[k - 1] \in Nat /\ s[k] = s[k - 1] + Len(Line(rows[k])) + 2
    BY <1>2 DEF Ruled, n
  <2>2. \A k \in 1..n : Len(Line(rows[k])) \in Nat
    <3> SUFFICES ASSUME NEW k \in 1..n PROVE Len(Line(rows[k])) \in Nat
      OBVIOUS
    <3>1. rows[k] \in Seq(Cell)
      BY SequencesKnown DEF Row, n
    <3> QED BY <3>1, LineType, SequencesKnown
  <2>3. s[0] = 0
    BY <1>2 DEF Ruled
  <2> HIDE DEF At
  <2> QED BY <2>1, <2>2, <2>3
<1>7. n <= T
  <2> DEFINE U == {k \in 0..(n - 1) : s[k] >= k}
  <2>1. 0 \in U
    BY <1>4, <1>6
  <2>2. ASSUME NEW k \in 1..(n - 1), k - 1 \in U PROVE k \in U
    <3>1. k \in 1..n /\ k + 1 \in 1..n /\ (k + 1) - 1 = k /\ k \in 0..(n - 1)
      BY <1>4
    <3>2. s[k - 1] \in Nat /\ s[k] >= s[k - 1] + 2 /\ s[k - 1] >= k - 1
      BY <2>2, <3>1, <1>6
    <3>3. s[k] \in Nat
      BY <3>1, <1>6
    <3>4. s[k] >= k
      BY <3>2, <3>3
    <3> QED BY <3>1, <3>4
  <2>3. \A k \in 0..(n - 1) : k \in U
    <3> HIDE DEF U
    <3> QED BY <1>4, <2>1, <2>2, StepInduction
  <2>4. n - 1 \in 0..(n - 1) /\ n \in 1..n
    BY <1>4
  <2>5. n - 1 \in U
    <3> HIDE DEF U
    <3> QED BY <2>3, <2>4
  <2>6. s[n - 1] >= n - 1 /\ s[n - 1] + 1 \in 1..T /\ s[n - 1] \in Nat
    BY <2>4, <2>5, <1>5, <1>6
  <2> QED BY <2>6, <1>1, <1>4
<1>8. \A k \in 0..n : f[k] = [at |-> At(k), rows |-> SubSeq(rows, 1, k)]
  <2> DEFINE U == {k \in 0..n : f[k] = [at |-> At(k), rows |-> SubSeq(rows, 1, k)]}
  <2>1. 0 \in U
    <3>1. SubSeq(rows, 1, 0) = << >>
      BY SubSeqEmpty
    <3>2. At(0) = 1
      BY <1>4, <1>6
    <3> HIDE DEF At
    <3> QED BY <3>1, <3>2, <1>3, <1>4
  <2>2. ASSUME NEW k \in 1..n, k - 1 \in U PROVE k \in U
    <3>1. k \in 0..n /\ k \in 1..T /\ k - 1 < n
      BY <1>1, <1>4, <1>7
    <3>2. f[k] = scanLine(t, f[k - 1])
      BY <3>1, <1>3
    <3>3. f[k - 1] = [at |-> s[k - 1] + 1, rows |-> SubSeq(rows, 1, k - 1)]
      BY <3>1, <2>2
    <3>4. f[k] = [at |-> At(k), rows |-> Append(SubSeq(rows, 1, k - 1), rows[k])]
      <4> HIDE DEF At
      <4> QED BY <3>2, <3>3, <1>5
    <3>5. Append(SubSeq(rows, 1, k - 1), rows[k]) = SubSeq(rows, 1, k)
      BY OneMore DEF n
    <3> HIDE DEF At
    <3> QED BY <3>1, <3>4, <3>5
  <2>3. \A k \in 0..n : k \in U
    <3> HIDE DEF U
    <3> QED BY <1>4, <2>1, <2>2, StepInduction
  <2> HIDE DEF At
  <2> QED BY <2>3
<1>9. f[n] = [at |-> T + 1, rows |-> rows]
  <2>1. n \in 0..n /\ At(n) = T + 1
    BY <1>4
  <2>2. SubSeq(rows, 1, n) = rows
    BY SubSeqFull DEF n
  <2> HIDE DEF At
  <2> QED BY <2>1, <2>2, <1>8
<1>10. f[T] = f[n]
  <2> DEFINE V == {i \in 0..(T - n) : f[n + i] = f[n]}
  <2>1. 0 \in V
    BY <1>1, <1>4, <1>7
  <2>2. ASSUME NEW i \in 1..(T - n), i - 1 \in V PROVE i \in V
    <3>1. n + i \in 1..T /\ (n + i) - 1 = n + (i - 1) /\ i \in 0..(T - n)
      BY <1>1, <1>4, <1>7
    <3>2. f[n + i] = scanLine(t, f[n + (i - 1)]) /\ f[n + (i - 1)] = f[n]
      BY <2>2, <3>1, <1>3
    <3>3. scanLine(t, f[n]) = f[n]
      <4>1. f[n].at > Len(t)
        BY <1>1, <1>9
      <4> QED BY <4>1 DEF scanLine
    <3> QED BY <3>1, <3>2, <3>3
  <2>3. T - n \in Nat /\ T - n \in 0..(T - n) /\ n + (T - n) = T
    BY <1>1, <1>4, <1>7
  <2>4. \A i \in 0..(T - n) : i \in V
    <3> HIDE DEF V, T
    <3> QED BY <2>1, <2>2, <2>3, StepInduction
  <2>5. T - n \in V
    <3> HIDE DEF V, T
    <3> QED BY <2>3, <2>4
  <2> QED BY <2>3, <2>5
<1> QED BY <1>3, <1>9, <1>10 DEF t

\* A written text ends with a line feed if its last line is ended.
LEMMA WrittenEnds ==
  ASSUME NEW rows \in Seq(Row), rows # << >>, NEW ended \in BOOLEAN,
         ended \/ rows[Len(rows)] # << << >> >>
  PROVE  Is(Written(rows, ended), Len(Written(rows, ended)), "\n") = ended
<1> DEFINE n == Len(rows)
           t == Written(rows, ended)
           T == Len(t)
           line == Line(rows[n])
           l == Len(line)
<1>1. t \in Seq(Symbol)
  <2>1. Row \subseteq Seq(Cell)
    BY DEF Row
  <2>2. rows \in Seq(Seq(Cell))
    BY <2>1, SeqMonotonic
  <2> QED BY <2>2, WrittenType
<1>2. PICK s : Ruled(t, rows, ended, s)
  BY WrittenIsRuled
<1> HIDE DEF t
<1>3. T \in Nat /\ DOMAIN t = 1..T
  BY <1>1, SequencesKnown
<1>4. n \in 1..n /\ rows[n] \in Row
  <2>1. n \in 1..n
    BY SequencesKnown
  <2> HIDE DEF n
  <2> QED BY <2>1, SequencesKnown DEF n
<1>5. line \in Seq(InLine)
  BY <1>4, LineType DEF Row
<1>6. ~ended => l >= 1
  BY <1>4, LineNotEmpty
<1> HIDE DEF line
<1>7. l \in Nat /\ \A j \in 1..l : line[j] \in InLine
  BY <1>5, SequencesKnown
<1>8. /\ s[n - 1] \in Nat /\ s[n] = s[n - 1] + l + 2
      /\ T = IF ended THEN s[n] ELSE s[n] - 2
      /\ \A j \in 1..l : t[s[n - 1] + j] = line[j]
      /\ ended => t[s[n]] = "\n"
  BY <1>2, <1>4 DEF Ruled, line
<1> HIDE DEF T, n, l
<1>9. CASE ended
  <2>1. T \in 1..T /\ t[T] = "\n"
    BY <1>3, <1>7, <1>8, <1>9
  <2> QED BY <1>3, <1>9, <2>1 DEF Is, T, t
<1>10. CASE ~ended
  <2>1. l \in 1..l /\ T = s[n - 1] + l
    BY <1>6, <1>7, <1>8, <1>10
  <2>2. t[T] = line[l] /\ line[l] \in InLine
    BY <2>1, <1>7, <1>8
  <2>3. t[T] # "\n"
    BY <2>2 DEF InLine, Plain, Separators
  <2>4. Is(t, T, "\n") = FALSE
    BY <2>3 DEF Is
  <2> QED BY <2>4, <1>10 DEF T, t
<1> QED BY <1>9, <1>10

-----------------------------------------------------------------------------
\* A table whose rows have cells, every one without a tab or a line break, and any table.
Table == [rows : Seq(Row), columns : Seq(Cell), useColumns : BOOLEAN, endsWithNL : BOOLEAN]
Text == Seq(Symbol)
AnyTable == [rows : Seq(Seq(Text)), columns : Seq(Text), useColumns : BOOLEAN, endsWithNL : BOOLEAN]

TablesOK == text \in Text /\ table \in AnyTable

LEMMA RowsAreText == Cell \subseteq Text /\ Row \subseteq Seq(Text)
<1>1. ASSUME NEW c \in Cell PROVE c \in Text
  <2>1. c \in Seq(Plain) /\ Plain \subseteq Symbol
    BY DEF Cell, Plain
  <2> QED BY <2>1, SeqMonotonic DEF Text
<1>2. ASSUME NEW r \in Row PROVE r \in Seq(Text)
  <2>1. r \in Seq(Cell)
    BY DEF Row
  <2> QED BY <1>1, <2>1, SeqMonotonic
<1> QED BY <1>1, <1>2

LEMMA TableIsAny == Table \subseteq AnyTable
<1> SUFFICES ASSUME NEW x \in Table PROVE x \in AnyTable
  OBVIOUS
<1>1. x.rows \in Seq(Row) /\ x.columns \in Seq(Cell)
  BY DEF Table
<1>2. x.rows \in Seq(Seq(Text)) /\ x.columns \in Seq(Text)
  BY <1>1, RowsAreText, SeqMonotonic
<1> QED BY <1>2 DEF Table, AnyTable

\* Cells are plain if they are unbroken.
LEMMA UnbrokenIsPlain ==
  ASSUME NEW cells \in Seq(Text)
  PROVE  Unbroken(cells) <=> cells \in Seq(Cell)
<1>1. /\ DOMAIN cells = 1..Len(cells) /\ Len(cells) \in Nat
      /\ \A i \in DOMAIN cells : cells[i] \in Seq(Symbol)
  BY SequencesKnown DEF Text
<1>2. ASSUME NEW i \in DOMAIN cells
      PROVE  (\A j \in DOMAIN cells[i] : cells[i][j] \notin Breaks \cup {"\t"}) <=> cells[i] \in Cell
  <2> DEFINE c == cells[i]
  <2>1. c \in Seq(Symbol) /\ Separators = Breaks \cup {"\t"}
    BY <1>1 DEF Separators, Breaks
  <2> HIDE DEF c
  <2>2. DOMAIN c = 1..Len(c) /\ Len(c) \in Nat /\ \A j \in DOMAIN c : c[j] \in Symbol
    BY <2>1, SequencesKnown
  <2>3. ASSUME \A j \in DOMAIN c : c[j] \notin Separators PROVE c \in Cell
    <3>1. \A j \in 1..Len(c) : c[j] \in Plain
      BY <2>2, <2>3 DEF Plain
    <3>2. c = [j \in 1..Len(c) |-> c[j]]
      BY <2>1
    <3> QED BY <2>2, <3>1, <3>2, SeqDef DEF Cell
  <2>4. ASSUME c \in Cell PROVE \A j \in DOMAIN c : c[j] \notin Separators
    BY <2>2, <2>4, SequencesKnown DEF Cell, Plain
  <2> QED BY <2>1, <2>3, <2>4 DEF c
<1>3. Unbroken(cells) <=> \A i \in DOMAIN cells : cells[i] \in Cell
  BY <1>2 DEF Unbroken
<1>4. cells \in Seq(Cell) <=> \A i \in DOMAIN cells : cells[i] \in Cell
  <2>1. cells = [i \in 1..Len(cells) |-> cells[i]]
    OBVIOUS
  <2>2. ASSUME \A i \in DOMAIN cells : cells[i] \in Cell PROVE cells \in Seq(Cell)
    BY <1>1, <2>1, <2>2, SeqDef
  <2>3. ASSUME cells \in Seq(Cell) PROVE \A i \in DOMAIN cells : cells[i] \in Cell
    BY <2>3, SequencesKnown
  <2> QED BY <2>2, <2>3
<1> QED BY <1>3, <1>4

\* Clean are the tables all of whose cells are plain, and whose rows have cells.
LEMMA CleanIsTable ==
  ASSUME NEW x \in AnyTable
  PROVE  Clean(x) <=> x \in Table
<1>1. x.rows \in Seq(Seq(Text)) /\ x.columns \in Seq(Text)
  BY DEF AnyTable
<1>2. /\ DOMAIN x.rows = 1..Len(x.rows) /\ Len(x.rows) \in Nat
      /\ \A i \in DOMAIN x.rows : x.rows[i] \in Seq(Text)
  BY <1>1, SequencesKnown
<1>3. Unbroken(x.columns) <=> x.columns \in Seq(Cell)
  BY <1>1, UnbrokenIsPlain
<1>4. \A i \in DOMAIN x.rows : x.rows[i] # << >> /\ Unbroken(x.rows[i]) <=> x.rows[i] \in Row
  BY <1>2, UnbrokenIsPlain DEF Row
<1>5. x.rows \in Seq(Row) <=> \A i \in DOMAIN x.rows : x.rows[i] \in Row
  <2> DEFINE r == x.rows
  <2>1. r = [i \in 1..Len(r) |-> r[i]]
    BY <1>1
  <2> HIDE DEF r
  <2>2. ASSUME \A i \in DOMAIN r : r[i] \in Row PROVE r \in Seq(Row)
    BY <1>2, <2>1, <2>2, SeqDef DEF r
  <2>3. ASSUME r \in Seq(Row) PROVE \A i \in DOMAIN r : r[i] \in Row
    BY <2>3, SequencesKnown
  <2> QED BY <2>2, <2>3 DEF r
<1>6. x \in Table <=> x.rows \in Seq(Row) /\ x.columns \in Seq(Cell)
  BY DEF Table, AnyTable
<1> QED BY <1>3, <1>4, <1>5, <1>6 DEF Clean

LEMMA FreshType == ASSUME NEW u \in BOOLEAN PROVE Fresh(u) \in Table
<1>1. << >> \in Seq(Row) /\ << >> \in Seq(Cell)
  BY EmptySeq
<1> QED BY <1>1 DEF Fresh, Table

\* What is read is plain: read into a plain table, it leaves one.
LEMMA ReadPlain ==
  ASSUME NEW t \in Seq(Symbol), NEW into \in Table, MayRead(t, into)
  PROVE  readCSVFromBuffer(t, into) \in Table
<1> DEFINE lines == Lines(t)
<1>1. lines \in Seq(Row) /\ (into.useColumns => lines # << >>)
  BY LinesType DEF MayRead
<1>2. into.rows \in Seq(Row) /\ into.columns \in Seq(Cell) /\ into.useColumns \in BOOLEAN
  BY DEF Table
<1>3. Is(t, Len(t), "\n") \in BOOLEAN
  BY DEF Is
<1>4. readCSVFromBuffer(t, into)
        = IF into.useColumns THEN WithRows([into EXCEPT !.columns = Head(lines)], t, Tail(lines))
                             ELSE WithRows(into, t, lines)
  BY DEF readCSVFromBuffer
<1> HIDE DEF lines
<1>5. ASSUME NEW x \in Table, NEW more \in Seq(Row) PROVE WithRows(x, t, more) \in Table
  <2>1. x.rows \o more \in Seq(Row)
    <3>1. x.rows \in Seq(Row)
      BY DEF Table
    <3> QED BY <3>1, ConcatProperties
  <2> QED BY <2>1, <1>3 DEF WithRows, Table
<1>6. CASE into.useColumns
  <2>1. Head(lines) \in Seq(Cell) /\ Tail(lines) \in Seq(Row)
    BY <1>1, <1>6, HeadTailProperties DEF Row
  <2>2. [into EXCEPT !.columns = Head(lines)] \in Table
    BY <2>1 DEF Table
  <2> QED BY <2>1, <2>2, <1>4, <1>5, <1>6
<1>7. CASE ~into.useColumns
  BY <1>1, <1>4, <1>5, <1>7
<1> QED BY <1>6, <1>7

\* Read into any table, it leaves one.
LEMMA ReadType ==
  ASSUME NEW t \in Text, NEW into \in AnyTable, MayRead(t, into)
  PROVE  readCSVFromBuffer(t, into) \in AnyTable
<1> DEFINE lines == Lines(t)
<1>1. lines \in Seq(Row) /\ (into.useColumns => lines # << >>)
  BY LinesType DEF MayRead, Text
<1>2. Is(t, Len(t), "\n") \in BOOLEAN
  BY DEF Is
<1>3. readCSVFromBuffer(t, into)
        = IF into.useColumns THEN WithRows([into EXCEPT !.columns = Head(lines)], t, Tail(lines))
                             ELSE WithRows(into, t, lines)
  BY DEF readCSVFromBuffer
<1> HIDE DEF lines
<1>4. ASSUME NEW x \in AnyTable, NEW more \in Seq(Row) PROVE WithRows(x, t, more) \in AnyTable
  <2>1. x.rows \in Seq(Seq(Text)) /\ more \in Seq(Seq(Text))
    BY RowsAreText, SeqMonotonic DEF AnyTable
  <2>2. x.rows \o more \in Seq(Seq(Text))
    BY <2>1, ConcatProperties
  <2> QED BY <2>2, <1>2 DEF WithRows, AnyTable
<1>5. CASE into.useColumns
  <2>1. Head(lines) \in Row /\ Tail(lines) \in Seq(Row)
    BY <1>1, <1>5, HeadTailProperties
  <2>2. [into EXCEPT !.columns = Head(lines)] \in AnyTable
    BY <2>1, RowsAreText DEF AnyTable
  <2> QED BY <2>1, <2>2, <1>3, <1>4, <1>5
<1>6. CASE ~into.useColumns
  BY <1>1, <1>3, <1>4, <1>6
<1> QED BY <1>5, <1>6

\* What is written is a text.
LEMMA WriteType ==
  ASSUME NEW x \in AnyTable
  PROVE  writeCSVToBuffer(x) \in Text
<1> DEFINE first == IF x.useColumns THEN Line(x.columns) \o NewLine ELSE << >>
           body == Joined([i \in DOMAIN x.rows |-> Line(x.rows[i])], NewLine)
           end == IF x.endsWithNL THEN NewLine ELSE << >>
<1>1. x.rows \in Seq(Seq(Text)) /\ x.columns \in Seq(Text)
  BY DEF AnyTable
<1>2. NewLine \in Seq(Symbol) /\ <<"\t">> \in Seq(Symbol) /\ end \in Seq(Symbol)
  <2>1. NewLine \in Seq(Symbol) /\ <<"\t">> \in Seq(Symbol)
    BY DEF NewLine, Symbol, Separators
  <2> QED BY <2>1, EmptySeq
<1>3. ASSUME NEW cells \in Seq(Text) PROVE Line(cells) \in Seq(Symbol)
  BY <1>2, JoinedType DEF Line, Text
<1>4. first \in Seq(Symbol)
  <2>1. Line(x.columns) \o NewLine \in Seq(Symbol)
    BY <1>1, <1>2, <1>3, ConcatProperties
  <2> QED BY <2>1, EmptySeq
<1>5. body \in Seq(Symbol)
  <2>1. Len(x.rows) \in Nat /\ DOMAIN x.rows = 1..Len(x.rows) /\ \A i \in 1..Len(x.rows) : x.rows[i] \in Seq(Text)
    BY <1>1, SequencesKnown
  <2>2. [i \in DOMAIN x.rows |-> Line(x.rows[i])] \in [1..Len(x.rows) -> Seq(Symbol)]
    BY <2>1, <1>3
  <2>3. [i \in DOMAIN x.rows |-> Line(x.rows[i])] \in Seq(Seq(Symbol))
    BY <2>1, <2>2, SeqDef
  <2> QED BY <2>3, <1>2, JoinedType
<1>6. writeCSVToBuffer(x) = first \o body \o end
  BY DEF writeCSVToBuffer
<1> HIDE DEF first, body, end
<1>7. first \o body \in Seq(Symbol)
  BY <1>4, <1>5, ConcatProperties
<1> QED BY <1>2, <1>6, <1>7, ConcatProperties DEF Text

\* The rows of a text, the columns among them.
Contents(x) == (IF x.useColumns THEN <<x.columns>> ELSE << >>) \o x.rows

\* Of a table whose text tells it apart, the lines are the columns and the rows.
LEMMA ContentsType ==
  ASSUME NEW x \in Table, Distinct(x)
  PROVE  /\ Contents(x) \in Seq(Row) /\ Contents(x) # << >>
         /\ x.endsWithNL \/ Contents(x)[Len(Contents(x))] # << << >> >>
         /\ x.useColumns => /\ x.columns \in Row /\ Len(Contents(x)) = Len(x.rows) + 1
                            /\ Contents(x)[1] = x.columns
                            /\ \A i \in 1..Len(x.rows) : Contents(x)[i + 1] = x.rows[i]
         /\ ~x.useColumns => Contents(x) = x.rows
<1> DEFINE w == Contents(x)
           r == x.rows
           m == Len(r)
           first == <<x.columns>>
<1>1. /\ r \in Seq(Row) /\ r # << >> /\ x.columns \in Seq(Cell) /\ x.useColumns \in BOOLEAN
      /\ (x.useColumns => x.columns # << >>) /\ (x.endsWithNL \/ r[m] # << << >> >>)
  BY DEF Table, Distinct, Last
<1>2. m \in Nat /\ m >= 1
  BY <1>1, SequencesKnown
<1>3. CASE x.useColumns
  <2>1. x.columns \in Row
    BY <1>1, <1>3 DEF Row
  <2>2. first \in Seq(Row) /\ Len(first) = 1 /\ first[1] = x.columns
    BY <2>1
  <2>3. w = first \o r
    BY <1>3 DEF Contents
  <2> HIDE DEF first, w, r, m
  <2>4. /\ w \in Seq(Row) /\ Len(w) = Len(first) + Len(r)
        /\ \A i \in 1..Len(first) + Len(r) : w[i] = IF i <= Len(first) THEN first[i] ELSE r[i - Len(first)]
    BY <2>2, <2>3, <1>1, ConcatProperties
  <2>5. Len(w) = m + 1 /\ \A i \in 1..(m + 1) : w[i] = IF i <= 1 THEN first[i] ELSE r[i - 1]
    <3>1. Len(first) + Len(r) = m + 1
      BY <2>2, <1>2 DEF m
    <3> QED BY <3>1, <2>2, <2>4
  <2>6. w[1] = x.columns
    BY <2>5, <2>2, <1>2
  <2>7. \A i \in 1..m : w[i + 1] = r[i]
    <3> SUFFICES ASSUME NEW i \in 1..m PROVE w[i + 1] = r[i]
      OBVIOUS
    <3>1. i + 1 \in 1..(m + 1) /\ ~(i + 1 <= 1) /\ (i + 1) - 1 = i
      BY <1>2
    <3> QED BY <3>1, <2>5
  <2>8. w[m + 1] = r[m]
    BY <2>7, <1>2
  <2>9. w # << >>
    BY <2>4, <2>5, <1>2, SequencesKnown
  <2> QED BY <1>1, <1>3, <2>1, <2>4, <2>5, <2>6, <2>7, <2>8, <2>9 DEF w, r, m
<1>4. CASE ~x.useColumns
  <2>1. w = << >> \o r
    BY <1>4 DEF Contents
  <2>2. w = r
    BY <2>1, <1>1, ConcatEmptySeq
  <2> HIDE DEF w
  <2> QED BY <1>1, <1>4, <2>2 DEF w
<1> QED BY <1>1, <1>3, <1>4

LEMMA WriteIsWritten ==
  ASSUME NEW x \in Table, Distinct(x)
  PROVE  writeCSVToBuffer(x) = Written(Contents(x), x.endsWithNL)
<1> DEFINE w == Contents(x)
           L == LineOf(w)
           M == LineOf(x.rows)
           end == IF x.endsWithNL THEN NewLine ELSE << >>
<1>1. /\ w \in Seq(Row)
      /\ x.useColumns => /\ x.columns \in Row /\ Len(w) = Len(x.rows) + 1 /\ w[1] = x.columns
                         /\ \A i \in 1..Len(x.rows) : w[i + 1] = x.rows[i]
      /\ ~x.useColumns => w = x.rows
  BY ContentsType
<1>2. x.rows \in Seq(Row) /\ x.rows # << >>
  BY DEF Table, Distinct
<1>3. /\ w \in Seq(Seq(Cell)) /\ x.rows \in Seq(Seq(Cell))
      /\ Len(x.rows) \in Nat /\ Len(x.rows) >= 1
  <2>1. Row \subseteq Seq(Cell)
    BY DEF Row
  <2>2. Len(x.rows) \in Nat /\ Len(x.rows) >= 1
    BY <1>2, SequencesKnown
  <2> HIDE DEF w
  <2> QED BY <1>1, <1>2, <2>1, <2>2, SeqMonotonic
<1> HIDE DEF w
<1>4. /\ M \in Seq(Seq(Symbol)) /\ Len(M) = Len(x.rows)
      /\ \A i \in 1..Len(x.rows) : M[i] = Line(x.rows[i])
      /\ NewLine \in Seq(Symbol)
  BY <1>3, LineOfType
<1>5. /\ L \in Seq(Seq(Symbol)) /\ Len(L) = Len(w)
      /\ \A i \in 1..Len(w) : L[i] = Line(w[i])
  BY <1>3, LineOfType
<1>6. Joined(M, NewLine) \in Seq(Symbol)
  <2> HIDE DEF M
  <2> QED BY <1>4, JoinedType
<1>7. writeCSVToBuffer(x)
        = (IF x.useColumns THEN Line(x.columns) \o NewLine ELSE << >>) \o Joined(M, NewLine) \o end
  BY DEF writeCSVToBuffer, LineOf
<1>8. Written(w, x.endsWithNL) = Joined(L, NewLine) \o end
  BY DEF Written
<1>9. CASE x.useColumns
  <2> DEFINE first == Line(x.columns)
  <2>1. first \in Seq(Symbol)
    <3>1. InLine \subseteq Symbol
      BY DEF InLine, Symbol, Plain, Separators
    <3>2. first \in Seq(InLine)
      BY <1>1, <1>9, LineType DEF Row
    <3> QED BY <3>1, <3>2, SeqMonotonic
  <2>2. M # << >> /\ Len(L) = Len(M) + 1
    BY <1>1, <1>3, <1>4, <1>5, <1>9
  <2>3. L[1] = first
    BY <1>1, <1>3, <1>5, <1>9
  <2>4. \A i \in 1..Len(M) : L[i + 1] = M[i]
    <3> SUFFICES ASSUME NEW i \in 1..Len(x.rows) PROVE L[i + 1] = M[i]
      BY <1>4
    <3>1. i + 1 \in 1..Len(w)
      BY <1>1, <1>3, <1>9
    <3> HIDE DEF L, M
    <3> QED BY <3>1, <1>1, <1>4, <1>5, <1>9
  <2> HIDE DEF first, L, M, end
  <2>5. Joined(L, NewLine) = first \o NewLine \o Joined(M, NewLine)
    <3>1. InFront(Symbol, NewLine, first, M, L)
      BY <1>4, <1>5, <2>1, <2>2, <2>3, <2>4 DEF InFront
    <3> QED BY <3>1, JoinedInFront DEF Three
  <2>6. writeCSVToBuffer(x) = first \o NewLine \o Joined(M, NewLine) \o end
    BY <1>7, <1>9 DEF first
  <2> QED BY <1>8, <2>5, <2>6 DEF w
<1>10. CASE ~x.useColumns
  <2>1. L = M
    BY <1>1, <1>10
  <2>2. << >> \o Joined(M, NewLine) = Joined(M, NewLine)
    <3> HIDE DEF M
    <3> QED BY <1>6, ConcatEmptySeq
  <2>3. writeCSVToBuffer(x) = << >> \o Joined(M, NewLine) \o end
    BY <1>7, <1>10
  <2> HIDE DEF L, M, end
  <2> QED BY <1>8, <2>1, <2>2, <2>3 DEF w
<1> QED BY <1>9, <1>10

\* The rows of a table, read into one with its columns and no rows.
LEMMA RowsAreRead ==
  ASSUME NEW x \in Table, NEW y \in Table, NEW t,
         y.rows = << >>, y.columns = x.columns, y.useColumns = x.useColumns,
         Is(t, Len(t), "\n") = x.endsWithNL
  PROVE  WithRows(y, t, x.rows) = x
<1> DEFINE more == y.rows \o x.rows
           ends == Is(t, Len(t), "\n")
           z == [y EXCEPT !.endsWithNL = ends, !.rows = more]
<1>1. WithRows(y, t, x.rows) = z
  BY Zenon DEF WithRows
<1>2. x.rows \in Seq(Row) /\ x.endsWithNL \in BOOLEAN
  BY DEF Table
<1>3. more = x.rows
  BY <1>2, ConcatEmptySeq
<1>4. ends = x.endsWithNL
  OBVIOUS
<1> HIDE DEF more, ends
<1>5. z \in Table
  BY <1>2, <1>3, <1>4 DEF Table
<1>6. z.rows = more /\ z.columns = y.columns /\ z.useColumns = y.useColumns
  BY DEF Table
<1>7. z.endsWithNL = ends
  BY DEF Table
<1> HIDE DEF z
<1>8. z = x
  BY <1>3, <1>4, <1>5, <1>6, <1>7 DEF Table
<1> QED BY <1>1, <1>8

\* A new table, given columns.
LEMMA ColumnsAreRead ==
  ASSUME NEW u \in BOOLEAN, NEW c \in Seq(Cell)
  PROVE  LET y == [Fresh(u) EXCEPT !.columns = c]
         IN  y \in Table /\ y.rows = << >> /\ y.columns = c /\ y.useColumns = u
<1>1. Fresh(u) \in Table /\ Fresh(u).rows = << >> /\ Fresh(u).useColumns = u
  BY FreshType DEF Fresh
<1> QED BY <1>1 DEF Table

\* A table whose text tells it apart is read from what it was written to.
LEMMA ReadIsWritten ==
  ASSUME NEW x \in Table, Distinct(x)
  PROVE  readCSVFromBuffer(writeCSVToBuffer(x), Fresh(x.useColumns)) = x
<1> DEFINE w == Contents(x)
           t == writeCSVToBuffer(x)
           u == x.useColumns
<1>1. /\ w \in Seq(Row) /\ w # << >>
      /\ x.endsWithNL \/ w[Len(w)] # << << >> >>
      /\ u => /\ Len(w) = Len(x.rows) + 1 /\ w[1] = x.columns
              /\ \A i \in 1..Len(x.rows) : w[i + 1] = x.rows[i]
      /\ ~u => w = x.rows
  BY ContentsType
<1>2. t = Written(w, x.endsWithNL) /\ x.endsWithNL \in BOOLEAN
  BY WriteIsWritten DEF Table
<1> HIDE DEF t, w
<1>3. Lines(t) = w
  BY <1>1, <1>2, LinesOfWritten
<1>4. Is(t, Len(t), "\n") = x.endsWithNL
  BY <1>1, <1>2, WrittenEnds
<1>5. x.rows \in Seq(Row) /\ u \in BOOLEAN
  BY DEF Table
<1>8. /\ Fresh(u) \in Table /\ Fresh(u).rows = << >>
      /\ Fresh(u).columns = << >> /\ Fresh(u).useColumns = u
  BY <1>5, FreshType DEF Fresh
<1>11. readCSVFromBuffer(t, Fresh(u))
         = IF u THEN WithRows([Fresh(u) EXCEPT !.columns = Head(w)], t, Tail(w))
                ELSE WithRows(Fresh(u), t, w)
  BY <1>3, <1>8 DEF readCSVFromBuffer
<1>6. CASE u
  <2>1. Head(w) = x.columns
    BY <1>1, <1>6
  <2>2. Tail(w) = x.rows
    <3>1. /\ Tail(w) \in Seq(Row) /\ Len(Tail(w)) = Len(w) - 1
          /\ \A i \in 1..Len(Tail(w)) : Tail(w)[i] = w[i + 1]
      BY <1>1, HeadTailProperties
    <3>2. Len(x.rows) \in Nat
      BY <1>5, SequencesKnown
    <3>5. Len(w) = Len(x.rows) + 1
      BY <1>1, <1>6
    <3>3. Len(Tail(w)) = Len(x.rows)
      BY <3>1, <3>2, <3>5
    <3>4. \A i \in 1..Len(x.rows) : Tail(w)[i] = x.rows[i]
      BY <3>1, <3>3, <1>1, <1>6
    <3> QED BY <3>1, <3>3, <3>4, <1>5, SeqEqual
  <2> DEFINE y == [Fresh(u) EXCEPT !.columns = x.columns]
  <2>3. y \in Table /\ y.rows = << >> /\ y.columns = x.columns /\ y.useColumns = u
    <3>1. x.columns \in Seq(Cell)
      BY DEF Table
    <3> QED BY <1>5, <3>1, ColumnsAreRead
  <2>4. readCSVFromBuffer(t, Fresh(u)) = WithRows(y, t, x.rows)
    BY <1>6, <1>11, <2>1, <2>2
  <2> HIDE DEF y
  <2>5. readCSVFromBuffer(t, Fresh(u)) = x
    BY <1>4, <2>3, <2>4, RowsAreRead
  <2> QED BY <2>5 DEF t
<1>7. CASE ~u
  <2>1. readCSVFromBuffer(t, Fresh(u)) = WithRows(Fresh(u), t, x.rows)
    BY <1>1, <1>7, <1>11
  <2>2. x.columns = << >>
    BY <1>7 DEF Distinct
  <2>3. readCSVFromBuffer(t, Fresh(u)) = x
    BY <1>4, <1>8, <2>1, <2>2, RowsAreRead
  <2> QED BY <2>3 DEF t
<1> QED BY <1>6, <1>7

-----------------------------------------------------------------------------
LEMMA TablesInit == CsvInit => TablesOK
<1> SUFFICES ASSUME CsvInit PROVE TablesOK
  OBVIOUS
<1>1. PICK n \in 0..MaxText : text \in [1..n -> Char]
  BY DEF CsvInit
<1>2. n \in Nat
  OBVIOUS
<1>3. text \in [1..n -> Symbol]
  BY <1>1 DEF Symbol
<1>4. text \in Seq(Symbol)
  BY <1>2, <1>3
<1>5. table \in AnyTable
  BY FreshType, TableIsAny DEF CsvInit
<1> QED BY <1>4, <1>5 DEF TablesOK, Text

\* What a program is given is made of characters.
LEMMA GivenIsText == \A row \in Given : row \in Seq(Text)
<1> SUFFICES ASSUME NEW row \in Given PROVE row \in Seq(Text)
  OBVIOUS
<1>1. row \in Seq(Seq(Char))
  BY GivenAssumption
<1>2. Seq(Char) \subseteq Text
  <2>1. ASSUME NEW c \in Seq(Char) PROVE c \in Seq(Symbol)
    <3>1. Char \subseteq Symbol
      BY DEF Symbol
    <3> QED BY <3>1, SeqMonotonic
  <2> QED BY <2>1 DEF Text
<1> QED BY <1>1, <1>2, SeqMonotonic

LEMMA TablesKept == TablesOK /\ [CsvNext]_csvVars => TablesOK'
<1> SUFFICES ASSUME TablesOK, [CsvNext]_csvVars PROVE TablesOK'
  OBVIOUS
<1>1. text \in Text /\ table \in AnyTable
  BY DEF TablesOK
<1>2. CASE Write
  BY <1>1, <1>2, WriteType DEF Write, TablesOK
<1>3. CASE ReadNew
  <2>1. PICK u \in BOOLEAN :
          /\ table' = IF MayRead(text, Fresh(u)) THEN readCSVFromBuffer(text, Fresh(u)) ELSE Fresh(u)
          /\ UNCHANGED text
    BY <1>3 DEF ReadNew
  <2>2. table' \in AnyTable
    BY <1>1, <2>1, FreshType, TableIsAny, ReadType
  <2> QED BY <1>1, <2>1, <2>2 DEF TablesOK
<1>4. CASE ReadMore
  BY <1>1, <1>4, ReadType DEF ReadMore, TablesOK
<1>5. CASE EndWith
  BY <1>1, <1>5 DEF EndWith, TablesOK, AnyTable
<1>6. CASE AddRow
  <2>1. PICK row \in Given : table' = [table EXCEPT !.rows = Append(@, row)]
    BY <1>6 DEF AddRow
  <2>2. Append(table.rows, row) \in Seq(Seq(Text))
    <3>1. row \in Seq(Text)
      BY GivenIsText
    <3>2. table.rows \in Seq(Seq(Text))
      BY <1>1 DEF AnyTable
    <3> QED BY <3>1, <3>2, AppendProperties
  <2>3. table' \in AnyTable
    BY <1>1, <2>1, <2>2 DEF AnyTable
  <2> QED BY <1>1, <1>6, <2>3 DEF AddRow, TablesOK
<1>7. CASE NameColumns
  <2>1. PICK names \in Given : table' = [table EXCEPT !.columns = names]
    BY <1>7 DEF NameColumns
  <2>2. names \in Seq(Text)
    BY GivenIsText
  <2>3. table' \in AnyTable
    BY <1>1, <2>1, <2>2 DEF AnyTable
  <2> QED BY <1>1, <1>7, <2>3 DEF NameColumns, TablesOK
<1>8. CASE UNCHANGED csvVars
  BY <1>1, <1>8 DEF csvVars, TablesOK
<1> QED BY <1>2, <1>3, <1>4, <1>5, <1>6, <1>7, <1>8 DEF CsvNext

LEMMA TablesAreKept == CsvSpec => []TablesOK
<1> QED BY TablesInit, TablesKept, PTL DEF CsvSpec

\* Whatever a program filled the table with that the text was written from, a table that is read has
\* no tab and no line break in a cell and a cell in every row, and a clean one that is read into
\* stays so (FastCsvTable::scanLine, readCSVFromBuffer).
THEOREM ReadIsClean ==
  CsvSpec => [][/\ ReadNew => Clean(table')
                /\ ReadMore /\ Clean(table) => Clean(table')]_csvVars
<1>1. ASSUME TablesOK, ReadNew PROVE Clean(table')
  <2>1. PICK u \in BOOLEAN :
          table' = IF MayRead(text, Fresh(u)) THEN readCSVFromBuffer(text, Fresh(u)) ELSE Fresh(u)
    BY <1>1 DEF ReadNew
  <2>2. text \in Seq(Symbol)
    BY <1>1 DEF TablesOK, Text
  <2>3. table' \in Table
    BY <2>1, <2>2, FreshType, ReadPlain
  <2> QED BY <2>3, TableIsAny, CleanIsTable
<1>2. ASSUME TablesOK, ReadMore, Clean(table) PROVE Clean(table')
  <2>1. text \in Seq(Symbol) /\ table \in AnyTable
    BY <1>2 DEF TablesOK, Text
  <2>2. table \in Table
    BY <1>2, <2>1, CleanIsTable
  <2>3. table' \in Table
    BY <1>2, <2>1, <2>2, ReadPlain DEF ReadMore
  <2> QED BY <2>3, TableIsAny, CleanIsTable
<1>3. TablesOK /\ [CsvNext]_csvVars
        => [/\ ReadNew => Clean(table')
            /\ ReadMore /\ Clean(table) => Clean(table')]_csvVars
  BY <1>1, <1>2
<1> QED BY <1>3, TablesAreKept, PTL DEF CsvSpec

\* Whatever else a program fills tables with, one with rows of cells that no tab and no line break
\* is in is read again as it was written, cell by cell (writeCSVToBuffer, readCSVFromBuffer).
THEOREM TablesAreRead == CsvSpec => WrittenIsRead
<1>1. ASSUME TablesOK, Write, Distinct(table)
      PROVE  readCSVFromBuffer(text', Fresh(table.useColumns)) = table
  <2>1. table \in Table
    BY <1>1, CleanIsTable DEF TablesOK, Distinct
  <2> QED BY <1>1, <2>1, ReadIsWritten DEF Write
<1>2. TablesOK /\ [CsvNext]_csvVars
        => [Write /\ Distinct(table)
              => readCSVFromBuffer(text', Fresh(table.useColumns)) = table]_csvVars
  BY <1>1
<1> QED BY <1>2, TablesAreKept, PTL DEF CsvSpec, WrittenIsRead
=============================================================================
