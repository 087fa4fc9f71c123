----------------------------- MODULE Compression -----------------------------
(***************************************************************************)
(* compressDataBuffer() and uncompressDataBuffer(): documents are packed   *)
(* and unpacked in pieces of CHUNK bytes through zlib, at once through     *)
(* zstd, or not at all.  Holders of bytes are shared pointers: to assign   *)
(* one is to share its bytes.                                              *)
(*                                                                         *)
(* A byte of a document is its position.  A byte of a stream tells how far *)
(* a reader knows the document once it has read it (several bytes may tell *)
(* the same); a checksum tells how long the document is, and a zstd frame, *)
(* which is never taken apart here, is one byte.  Junk is any byte: in a   *)
(* stream one that was altered, in a document what comes of it.            *)
(***************************************************************************)
EXTENDS Integers, Sequences, FiniteSets

CONSTANTS
    CHUNK,      \* the size of the buffers in front of and behind zlib
    MaxSize,    \* bound: the longest document
    MaxIdle,    \* bound: bytes of a stream that tell nothing new
    MaxStray,   \* bound: how much farther than a buffer bytes after an altered one may reach
    MaxCalls    \* bound: what a program does with its holders

ASSUME ChunkAssumption == CHUNK \in Nat \ {0}

ASSUME BoundAssumption ==
    MaxSize \in Nat /\ MaxIdle \in Nat /\ MaxStray \in Nat /\ MaxCalls \in Nat

VARIABLES
    blob,       \* the vectors of bytes there are
    p,          \* the vector each holder points to
    call,       \* the operation under way or the last one, its CompressionInfo
    pc,         \* where it is
    rest,       \* what def() or inf() has not read yet
    strm,       \* zlib's stream
    kept,       \* history: what the output held when the call began
    written,    \* history: the sizes of the documents compressed into packed since it was new
    calls,      \* history: what the program has done so far
    intact      \* history: the type packed was first compressed with, none if it was altered

vars == <<blob, p, call, pc, rest, strm, kept, written, calls, intact>>

Holder == {"data", "packed", "output"}
Blob == 1 .. 3
Window == {"Gzip", "Zlib"}
Type == Window \cup {"ZStd", "None"}
Kind == Window \cup {"raw", "data", "check", "wrong", "frame", "junk"}

Byte(kind, upto) == [kind |-> kind, upto |-> upto]
Bytes == [kind : Kind, upto : Nat]
Junk == Byte("junk", 0)

Document(n) == [i \in 1 .. n |-> Byte("raw", i)]

Held(h) == blob[p[h]]

Smaller(m, n) == IF m <= n THEN m ELSE n

-----------------------------------------------------------------------------
(* Holders. *)

\* A vector no holder but perhaps h points to.
Unused(h) == CHOOSE b \in Blob : \A g \in Holder \ {h} : p[g] # b

\* The bytes a vector is left with: none if no holder points to it any more.
Settled(q, b) == [x \in Blob |-> IF \E h \in Holder : q[h] = x THEN b[x] ELSE << >>]

\* h points to a new vector of these bytes.
Renew(h, bytes) == LET x == Unused(h) IN
    /\ p' = [p EXCEPT ![h] = x]
    /\ blob' = Settled(p', [blob EXCEPT ![x] = bytes])

\* output = input: both point to one vector.
Share(out, in) ==
    /\ p' = [p EXCEPT ![out] = p[in]]
    /\ blob' = Settled(p', blob)

\* The output's vector is replaced in place, for all that share it.
Overwrite(out, bytes) == blob' = [blob EXCEPT ![p[out]] = bytes]

\* dest.insert(dest.end(), ...)
Append_(out, bytes) == Overwrite(out, Held(out) \o bytes)

-----------------------------------------------------------------------------
Quiet == pc \in {"idle", "returned", "thrown"}

\* The program may do something.
Turn == Quiet /\ calls < MaxCalls /\ calls' = calls + 1

NewStream == [in |-> << >>, far |-> 0, near |-> 0, idle |-> 0, headed |-> FALSE,
              astray |-> FALSE, flush |-> FALSE, mode |-> "going"]

NoCall == [op |-> "none", type |-> "None", skipCRC |-> FALSE]

Init ==
    /\ p = [h \in Holder |-> IF h = "data" THEN 1 ELSE IF h = "packed" THEN 2 ELSE 3]
    /\ \E n \in 0 .. MaxSize : blob = [b \in Blob |-> IF b = 1 THEN Document(n) ELSE << >>]
    /\ call = NoCall
    /\ pc = "idle"
    /\ rest = << >>
    /\ strm = NewStream
    /\ kept = << >>
    /\ written = {}
    /\ calls = 0
    /\ intact = "None"

NothingToRead == rest' = << >> /\ strm' = NewStream /\ kept' = << >>

\* The last call is a matter of the past.
Done == pc' = "idle" /\ call' = NoCall /\ NothingToRead

\* The program takes another document, or empties what it keeps results in.
Edit(n) ==
    /\ Turn
    /\ Renew("data", Document(n))
    /\ Done
    /\ UNCHANGED <<written, intact>>

Empty ==
    /\ Turn
    /\ Renew("output", << >>)
    /\ Done
    /\ UNCHANGED <<written, intact>>

\* What is packed goes through a file or a network and comes back in a new holder, whole, cut
\* short, or with a byte changed (in a checksum, or where it may pass for another code).
Carried(bytes) ==
    {SubSeq(bytes, 1, n) : n \in 0 .. Len(bytes) - 1}
    \cup {[bytes EXCEPT ![i] = Junk] : i \in {j \in DOMAIN bytes : bytes[j].kind # "check"}}
    \cup {[bytes EXCEPT ![i].kind = "wrong"] : i \in {j \in DOMAIN bytes : bytes[j].kind \in {"check", "frame"}}}

Carry ==
    /\ Turn
    /\ \E bytes \in {Held("packed"), << >>} \cup Carried(Held("packed")) :
          /\ Renew("packed", bytes)
          /\ intact' = IF bytes = Held("packed") THEN intact ELSE "None"
          /\ written' = IF bytes = << >> THEN {} ELSE written
    /\ Done

-----------------------------------------------------------------------------
(* compressDataBuffer(): data into packed.  A program that lets them share their bytes *)
(* reads from what it is adding to, which is undefined: such calls are left out.       *)

Begin(op, type, skipCRC) == call' = [op |-> op, type |-> type, skipCRC |-> skipCRC]

CompressNone ==
    /\ Turn
    /\ Begin("compress", "None", FALSE)
    /\ Share("packed", "data")
    /\ pc' = "returned"
    /\ NothingToRead
    /\ written' = {}
    /\ intact' = "None"

\* ZSTD_compress may fail, and has got the larger part of its room to leave something in then.
CompressZStd ==
    /\ Turn
    /\ p["packed"] # p["data"]
    /\ Begin("compress", "ZStd", FALSE)
    /\ \/ /\ Overwrite("packed", <<Byte("frame", Len(Held("data")))>>)
          /\ pc' = "returned"
          /\ written' = {Len(Held("data"))}
          /\ intact' = "ZStd"
       \/ /\ Overwrite("packed", <<Junk>>)
          /\ pc' = "thrown"
          /\ written' = {}
          /\ intact' = "None"
    /\ NothingToRead
    /\ UNCHANGED p

\* def() begins; deflateInit2 may fail, for want of memory or at a level there is not.
CompressZlib(type) ==
    /\ Turn
    /\ p["packed"] # p["data"]
    /\ Begin("compress", type, FALSE)
    /\ \/ /\ pc' = "read"
          /\ written' = written \cup {Len(Held("data"))}
          /\ intact' = IF Held("packed") = << >> THEN type ELSE intact
       \/ /\ pc' = "thrown"
          /\ UNCHANGED <<written, intact>>
    /\ rest' = Held("data")
    /\ strm' = NewStream
    /\ kept' = Held("packed")
    /\ UNCHANGED <<blob, p>>

\* source.read(): the end of the source shows when a read comes back short, not before.
Read ==
    /\ pc = "read"
    /\ LET n == Smaller(CHUNK, Len(rest)) IN
       /\ strm' = [strm EXCEPT !.in = SubSeq(rest, 1, n), !.flush = n < CHUNK]
       /\ rest' = SubSeq(rest, n + 1, Len(rest))
    /\ pc' = "deflate"
    /\ UNCHANGED <<blob, p, call, kept, written, calls, intact>>

\* What deflate() may put out in one call, having taken its input up to the taken-th byte of
\* the document: nothing at all if it likes, but it stops short of a full buffer only when its
\* input is used up, and not before the checksum when told to finish.
Sequences(S, n) == UNION {[1 .. k -> S] : k \in 0 .. n}

Codes(taken) ==
    {Byte(call.type, 0), Byte("check", taken)} \cup {Byte("data", n) : n \in strm.near .. taken}

\* How far the first i bytes of out reach.
Reach(out, i) == IF i = 0 \/ out[i].kind \in Window THEN strm.near ELSE out[i].upto

Whole(taken) == taken = strm.far + Len(strm.in)

Deflated(out, taken) ==
    /\ \A i \in DOMAIN out :
          /\ out[i].kind = call.type <=> i = 1 /\ ~strm.headed
          /\ out[i].kind = "data" => Reach(out, i - 1) <= out[i].upto
          /\ out[i].kind = "check" =>
                i = Len(out) /\ strm.flush /\ Whole(taken) /\ Reach(out, i - 1) = taken
    /\ strm.mode = "ended" => out = << >>
    /\ Len(out) < CHUNK =>
          /\ Whole(taken)
          /\ strm.flush /\ strm.mode # "ended" => out # << >> /\ out[Len(out)].kind = "check"

\* The bytes among them that tell nothing new.
Idle(out) == {i \in DOMAIN out : out[i].kind = "data" /\ out[i].upto = Reach(out, i - 1)}

\* One turn of the inner loop of def().
DeflateTo(taken, out) ==
    /\ Deflated(out, taken)
    /\ strm.idle + Cardinality(Idle(out)) <= MaxIdle
    /\ Append_("packed", out)
    /\ strm' = [strm EXCEPT
          !.in = SubSeq(@, taken - strm.far + 1, Len(@)),
          !.far = taken,
          !.near = Reach(out, Len(out)),
          !.idle = @ + Cardinality(Idle(out)),
          !.headed = @ \/ out # << >>,
          !.mode = IF out # << >> /\ out[Len(out)].kind = "check" THEN "ended" ELSE @]
    /\ pc' = IF Len(out) = CHUNK THEN "deflate" ELSE IF strm.flush THEN "returned" ELSE "read"

Deflate ==
    /\ pc = "deflate"
    /\ \E taken \in strm.far .. strm.far + Len(strm.in) :
          \E out \in Sequences(Codes(taken), CHUNK) : DeflateTo(taken, out)
    /\ UNCHANGED <<p, call, rest, kept, written, calls, intact>>

-----------------------------------------------------------------------------
(* uncompressDataBuffer(): packed into output, which shares its bytes neither with packed, *)
(* from which zlib and zstd read while they write, nor with data, which would change.      *)

MayUnpack ==
    /\ Turn
    /\ p["output"] \notin {p["packed"], p["data"]}

UncompressNone ==
    /\ Turn
    /\ Begin("uncompress", "None", FALSE)
    /\ Share("output", "packed")
    /\ pc' = "returned"
    /\ NothingToRead
    /\ UNCHANGED <<written, intact>>

\* The size of nothing at all is 0, and it is unpacked into nothing.
EmptyZStd ==
    /\ Held("packed") = << >>
    /\ Overwrite("output", << >>)
    /\ pc' = "returned"

\* A frame, with its bytes damaged or not: there is no checksum, and what was damaged is found
\* out before or after the output has its new size, or not at all.
FrameZStd ==
    /\ Len(Held("packed")) = 1
    /\ LET frame == Held("packed")[1] IN
       \/ frame.kind = "frame" /\ Overwrite("output", Document(frame.upto)) /\ pc' = "returned"
       \/ frame.kind = "wrong" /\ Overwrite("output", [i \in 1 .. frame.upto |-> Junk]) /\ pc' = "returned"
       \/ frame.kind \in {"frame", "wrong"} /\ Overwrite("output", [i \in 1 .. frame.upto |-> Junk]) /\ pc' = "thrown"

OtherZStd ==
    /\ Held("packed") # << >>
    /\ Len(Held("packed")) = 1 => Held("packed")[1].kind # "frame"
    /\ pc' = "thrown"
    /\ UNCHANGED blob

UncompressZStd ==
    /\ MayUnpack
    /\ Begin("uncompress", "ZStd", FALSE)
    /\ EmptyZStd \/ FrameZStd \/ OtherZStd
    /\ NothingToRead
    /\ UNCHANGED <<p, written, intact>>

\* inf() begins; inflateInit2 may fail for want of memory.
UncompressZlib(type, skipCRC) ==
    /\ MayUnpack
    /\ Begin("uncompress", type, skipCRC)
    /\ \/ pc' = "feed" /\ strm' = NewStream
       \/ pc' = "thrown" /\ strm' = [NewStream EXCEPT !.mode = "lost"]
    /\ rest' = Held("packed")
    /\ kept' = Held("output")
    /\ UNCHANGED <<blob, p, written, intact>>

\* Mutants: the end of the source passes for the end of the stream, a short piece for none.
FeedOrReturn ==
    /\ pc = "feed"
    /\ LET n == Smaller(CHUNK, Len(rest)) IN
       IF n = 0 THEN pc' = "returned" /\ UNCHANGED <<rest, strm>>
       ELSE /\ strm' = [strm EXCEPT !.in = SubSeq(rest, 1, n)]
            /\ rest' = SubSeq(rest, n + 1, Len(rest))
            /\ pc' = "inflate"
    /\ UNCHANGED <<blob, p, call, kept, written, calls, intact>>

FeedWholeChunks ==
    /\ pc = "feed"
    /\ LET n == Smaller(CHUNK, Len(rest)) IN
       IF n < CHUNK THEN pc' = "thrown" /\ UNCHANGED <<rest, strm>>
       ELSE /\ strm' = [strm EXCEPT !.in = SubSeq(rest, 1, n)]
            /\ rest' = SubSeq(rest, n + 1, Len(rest))
            /\ pc' = "inflate"
    /\ UNCHANGED <<blob, p, call, kept, written, calls, intact>>

\* Another piece of the source for zlib.  If there is none before the end of the stream, the
\* stream is incomplete.
Feed ==
    /\ pc = "feed"
    /\ LET n == Smaller(CHUNK, Len(rest)) IN
       IF n = 0 THEN pc' = "thrown" /\ UNCHANGED <<rest, strm>>
       ELSE /\ strm' = [strm EXCEPT !.in = SubSeq(rest, 1, n)]
            /\ rest' = SubSeq(rest, n + 1, Len(rest))
            /\ pc' = "inflate"
    /\ UNCHANGED <<blob, p, call, kept, written, calls, intact>>

\* How far the first i bytes of the input reach, and whether the i-th goes on from there.
Known(i) == IF i = 0 THEN strm.far ELSE strm.in[i].upto

GoesOn(i) == LET byte == strm.in[i] IN
    IF i = 1 /\ ~strm.headed THEN byte = Byte(call.type, 0)
    ELSE byte.kind = "data" /\ \A j \in 0 .. i - 1 : Known(j) <= byte.upto

\* What zlib may make of the byte its stream does not go on with.  A wrong checksum is "incorrect
\* data check"; gzip has the length behind it, which is another error.
Verdicts(i) == LET byte == strm.in[i] IN
    IF i = 1 /\ ~strm.headed THEN {"bad"}
    ELSE IF byte = Byte("check", Known(i - 1)) THEN {"ended"}
    ELSE IF byte.kind \in {"check", "wrong"} THEN IF call.type = "Gzip" THEN {"unchecked", "bad"} ELSE {"unchecked"}
    ELSE {"bad"}

Room == strm.near + CHUNK

\* In one call inflate() reads n bytes, the last of which may be the first it cannot go on with:
\* as many as it can while it has room for what they tell.
Inflated(n, mode) ==
    /\ ~strm.astray
    /\ \A i \in 1 .. n - 1 : GoesOn(i)
    /\ n > 0 => strm.in[n] # Junk
    /\ \A i \in 0 .. n - 1 : Known(i) <= Room
    /\ strm.mode = "ended" => n = 0
    /\ IF n = 0 \/ GoesOn(n) THEN /\ mode = strm.mode
                                  /\ n < Len(strm.in) /\ mode = "going" => Known(n) > Room
                             ELSE mode \in Verdicts(n)

\* An altered byte is read, behind which the document was known up to sound, or has been read.
\* inflate() may take it and whatever follows for anything, and decode other bytes than those of the
\* document, fewer or more: it finds a code that is invalid, or what it takes for the checksum
\* wrong, or nothing.  (A checksum is never right by chance.)
Strayed(n, sound, far, mode) ==
    /\ \/ strm.astray /\ sound = strm.near
       \/ /\ ~strm.astray /\ strm.mode = "going"
          /\ \E i \in 1 .. n :
                /\ strm.in[i] = Junk
                /\ \A j \in 1 .. i - 1 : GoesOn(j)
                /\ \A j \in 0 .. i - 1 : Known(j) <= Room
                /\ sound = Known(i - 1)
    /\ strm.far <= far /\ sound <= far
    /\ n = 0 => far = strm.far /\ mode = "going"
    /\ IF mode = "going" THEN n < Len(strm.in) => far > Room
                         ELSE mode \in {"unchecked", "bad"} /\ far <= Room

\* One turn of the inner loop of inf(): after an error, or one that is skipped, it returns
\* without adding what inflate() put out in the same call.
GiveUp(far, astray, mode) ==
    /\ mode \in {"unchecked", "bad"}
    /\ strm' = [strm EXCEPT !.mode = mode, !.far = far, !.astray = astray]
    /\ pc' = IF mode = "unchecked" /\ call.skipCRC THEN "returned" ELSE "thrown"
    /\ UNCHANGED blob

\* What a reader has of a document it knows up to sound.
Decoded(m, n, sound) == [i \in 1 .. n - m |-> IF m + i <= sound THEN Byte("raw", m + i) ELSE Junk]

GiveOut(n, far, sound, astray, mode) == LET near == Smaller(far, Room) IN
    /\ mode \in {"going", "ended"}
    /\ Append_("output", Decoded(strm.near, near, sound))
    /\ strm' = [strm EXCEPT !.in = SubSeq(@, n + 1, Len(@)), !.far = far, !.near = near,
                            !.headed = @ \/ n > 0, !.astray = astray, !.mode = mode]
    /\ pc' = IF near = Room THEN "inflate" ELSE IF mode = "ended" THEN "returned" ELSE "feed"

Inflate ==
    /\ pc = "inflate"
    /\ \E n \in 0 .. Len(strm.in), mode \in {"going", "ended", "unchecked", "bad"} :
          \/ LET far == IF n = 0 \/ mode = "going" THEN Known(n) ELSE Known(n - 1)
             IN  Inflated(n, mode) /\ (GiveUp(far, FALSE, mode) \/ GiveOut(n, far, far, FALSE, mode))
          \/ \E sound, far \in 0 .. Room + MaxStray :
                /\ Strayed(n, sound, far, mode)
                /\ GiveUp(far, TRUE, mode) \/ GiveOut(n, far, sound, TRUE, mode)
    /\ UNCHANGED <<p, call, rest, kept, written, calls, intact>>

\* inflate() may find no memory for its window.
InflateFails ==
    /\ pc = "inflate"
    /\ pc' = "thrown"
    /\ strm' = [strm EXCEPT !.mode = "lost"]
    /\ UNCHANGED <<blob, p, call, rest, kept, written, calls, intact>>

-----------------------------------------------------------------------------
Next ==
    \/ \E n \in 0 .. MaxSize : Edit(n)
    \/ Empty
    \/ Carry
    \/ CompressNone
    \/ CompressZStd
    \/ \E type \in Window : CompressZlib(type)
    \/ Read
    \/ Deflate
    \/ UncompressNone
    \/ UncompressZStd
    \/ \E type \in Window, skipCRC \in BOOLEAN : UncompressZlib(type, skipCRC)
    \/ Feed
    \/ Inflate
    \/ InflateFails
    \/ Quiet /\ UNCHANGED vars    \* the program has no more to do

Spec == Init /\ [][Next]_vars

-----------------------------------------------------------------------------
Stream == [in : Seq(Bytes), far : Nat, near : Nat, idle : Nat, headed : BOOLEAN, astray : BOOLEAN,
           flush : BOOLEAN, mode : {"going", "ended", "unchecked", "bad", "lost"}]

PackedOK ==
    /\ blob \in [Blob -> Seq(Bytes)]
    /\ p \in [Holder -> Blob]
    /\ call \in [op : {"none", "compress", "uncompress"}, type : Type, skipCRC : BOOLEAN]
    /\ pc \in {"idle", "read", "deflate", "feed", "inflate", "returned", "thrown"}
    /\ rest \in Seq(Bytes)
    /\ strm \in Stream
    /\ kept \in Seq(Bytes)
    /\ written \subseteq Nat
    /\ calls \in Nat
    /\ intact \in Type

Unpacking == call.op = "uncompress" /\ call.type \in Window

\* How far the first n bytes of a stream reach.
Reached(bytes, n) == IF n = 0 THEN 0 ELSE bytes[n].upto

\* The n-th byte is the first one that was altered.
FirstAltered(bytes, n) ==
    /\ n \in DOMAIN bytes /\ bytes[n] = Junk
    /\ \A i \in 1 .. n - 1 : bytes[i] # Junk

\* While inf() works, and whatever makes it stop, the output holds what it held before and,
\* without a gap, the document from its beginning: all that was given out, or as much of it as is
\* told before the first byte that was altered, since inf() gives out what follows unchecked.
OutputIsPrefix ==
    Unpacking =>
        IF strm.astray
        THEN \E n \in DOMAIN Held("packed") :
                /\ FirstAltered(Held("packed"), n)
                /\ Held("output") = kept \o Decoded(0, strm.near, Reached(Held("packed"), n - 1))
        ELSE Held("output") = kept \o Document(strm.near)

\* When inf() reports success the document is one that was packed, and whole, however the stream
\* was cut or altered; but if a wrong checksum was to be skipped it may be any, and as much of the
\* end is missing as inflate() had put out in its last call.
WholeOrSkipped ==
    Unpacking /\ pc = "returned" =>
        \/ strm.mode = "ended" /\ ~strm.astray /\ strm.near = strm.far /\ strm.near \in written
        \/ strm.mode = "unchecked" /\ call.skipCRC /\ strm.far - strm.near \in 0 .. CHUNK

GivenBack == OutputIsPrefix /\ WholeOrSkipped

\* What def() has packed and nobody has altered is never refused, wherever the ends of
\* document and stream are in the buffers; only memory can be short.
IntactIsAccepted ==
    Unpacking /\ pc = "thrown" /\ strm.mode # "lost" => intact # call.type

=============================================================================
