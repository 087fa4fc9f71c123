--------------------------- MODULE MessageStream ---------------------------
(***************************************************************************)
(* Two programs that talk through ByteOrderDataStreams.  The sender        *)
(* appends messages to its buffer, which grows with them or has a fixed    *)
(* size; the transport takes bytes from the start of it, as many as it     *)
(* likes at a time, and appends them to the buffer of the receiver, which  *)
(* tries to read a message, catches the exception when it is not complete  *)
(* yet, and starts over later.                                             *)
(*                                                                         *)
(* A message uses what the streams offer: a length that is written over a  *)
(* placeholder, a scalar, a bit array, padding, a string in a field of     *)
(* fixed size, an array, a deque, a container of strings with sizes of one *)
(* byte, a map if the user data say so, and a string with a size of the    *)
(* default width.  A message that is too long for a width, for the field   *)
(* or for the buffer makes the writer throw in the middle of it; the       *)
(* sender then takes back what was written of it.                          *)
(***************************************************************************)
EXTENDS ByteOrderStream

CONSTANTS Message,   \* records of tag, flags, name, code, marks, words, labels and note
          FlagCount, \* the number of flags in a message
          NameSize,  \* the bytes of the field for a name
          CodeSize,  \* the bytes of a code
          Capacity,  \* the bytes of a sender's buffer that does not grow
          MaxSent    \* a bound: the messages ever sent

VARIABLES mask, userData,        \* the format the two programs agreed on
          check,                 \* whether the receiver looks at the padding
          reuse,                 \* whether the receiver reads all messages into one object
          outBuf, outSizeBytes,  \* the sender's stream
          inBuf, inSizeBytes,    \* the receiver's stream
          object,                \* the parts of the object that reading does not overwrite
          sent, received         \* history: the messages written and read

setup == <<mask, userData, check, reuse>>
vars == <<setup, outBuf, outSizeBytes, inBuf, inSizeBytes, object, sent, received>>

ASSUME SizesAssumption == {FlagCount, NameSize, CodeSize, Capacity} \subseteq Nat

\* A string ends at its first zero, and a garbage at its last byte that is not one.
ASSUME MessageAssumption ==
    /\ Message \subseteq [tag : 0..(Power(Base, 2) - 1), flags : [1..FlagCount -> {0, 1}],
                          name : [str : Seq(Byte \ {0}), garbage : Seq(Byte)],
                          code : [1..CodeSize -> Byte], marks : Seq(0..(Power(Base, 2) - 1)),
                          words : Seq(Seq(Byte)), labels : {m.labels : m \in Message},
                          note : Seq(Byte)]
    /\ \A m \in Message : DOMAIN m.labels \subseteq Byte /\ m.labels \in [DOMAIN m.labels -> Seq(Byte)]
    /\ \A m \in Message : m.name.garbage # << >> => m.name.garbage[Len(m.name.garbage)] # 0

NewObject == [garbage |-> << >>, labels |-> << >>]

SenderBuffers ==
    {NewBuffer(<< >>), SetResizeEnabled(NewBuffer([i \in 1..Capacity |-> 0]), FALSE)}

Init ==
    /\ mask \in {s_littleEndian, s_bigEndian}
    /\ userData \in BOOLEAN /\ check \in BOOLEAN /\ reuse \in BOOLEAN
    /\ outBuf \in SenderBuffers /\ inBuf = NewBuffer(<< >>)
    /\ outSizeBytes = DefaultSizeBytes /\ inSizeBytes = DefaultSizeBytes
    /\ object = NewObject
    /\ sent = << >> /\ received = << >>

OutStream ==
    [SetUserData(NewStream(outBuf, mask), userData) EXCEPT !.containerSizeBytes = outSizeBytes]
InStream ==
    [SetUserData(NewStream(inBuf, mask), userData) EXCEPT !.containerSizeBytes = inSizeBytes]

-----------------------------------------------------------------------------
(* How a message is written and read.                                      *)

LengthWidth == 4

WriteMessage(s, m) ==
    LET writeWords(t) == WriteVector(t, m.words)
        length == WriteScalar(s, 0, LengthWidth)
        tag == WriteScalar(length, m.tag, 2)
        flags == WriteBits(tag, m.flags, 1, TRUE)
        padding == ZeroPadding(flags, 1)
        name == WriteField(padding, m.name.str, m.name.garbage, NameSize)
        code == WriteArray(name, m.code)
        marks == WriteDeque(code, m.marks)
        words == Guarded(marks, 1, writeWords)
        labels == IF UserData(s) THEN WriteMap(words, m.labels) ELSE words
        note == WriteString(labels, m.note)
    IN  WriteToOffset(note, note.buf.m_posWrite - s.buf.m_posWrite - LengthWidth, LengthWidth, s.buf.m_posWrite)

\* Into the object o.  got is the message and what the object holds afterwards, which an
\* exception leaves changed by the fields read before it.
ReadMessage(s, o) ==
    LET length == ReadScalar(s, LengthWidth)
        tag == ReadScalar(length, 2)
        flags == ReadBits(tag, FlagCount, 1, TRUE)
        padding == ReadPadding(flags, 1, check)
        name == ReadField(padding, NameSize, o.garbage)
        code == ReadArray(name, CodeSize)
        marks == ReadDeque(code)
        words == Guarded(marks, 1, ReadVector)
        labels == IF UserData(s) THEN ReadMap(words, o.labels) ELSE [words EXCEPT !.got = o.labels]
        note == ReadString(labels)
    IN  [note EXCEPT
            !.ok = @ /\ length.got = note.buf.m_posRead - s.buf.m_posRead - LengthWidth,
            !.got = [message |-> [tag |-> tag.got, flags |-> flags.got, name |-> name.got, code |-> code.got,
                                  marks |-> marks.got, words |-> words.got, labels |-> labels.got,
                                  note |-> note.got],
                     object |-> [garbage |-> name.got.garbage, labels |-> labels.got]]]

-----------------------------------------------------------------------------
\* The format, said once more without a stream: numbers are written most significant
\* byte first, or last, and strings after their length.
Number(value, width) ==
    [i \in 1..width |-> HostByte(value, IF mask = s_bigEndian THEN width - i ELSE i - 1)]
Counted(str, width) == Number(Len(str), width) \o str
Concat(seqs) == Run(LAMBDA all, i : all \o seqs[i], << >>, Len(seqs))
PackedFlags(flags) ==
    LET bit(j) == IF j < FlagCount /\ flags[FlagCount - j] = 0 THEN 1 ELSE 0
    IN  [byte \in 1..ByteCount(FlagCount) |->
            ValueOf([k \in 1..Bits |-> bit((byte - 1) * Bits + k - 1)], 2)]
FieldBytes(name) ==
    SubSeq(name.str \o <<0>> \o name.garbage \o [i \in 1..NameSize |-> 0], 1, NameSize)
Labels(labels) ==
    LET entry(key) == IF key \in DOMAIN labels THEN <<key>> \o Counted(labels[key], DefaultSizeBytes)
                      ELSE << >>
    IN  Number(Cardinality(DOMAIN labels), DefaultSizeBytes)
          \o Concat([i \in 1..Base |-> entry(i - 1)])
Body(m) ==
    Number(m.tag, 2) \o PackedFlags(m.flags) \o <<0>> \o FieldBytes(m.name) \o m.code
      \o Number(Len(m.marks), DefaultSizeBytes)
      \o Concat([i \in DOMAIN m.marks |-> Number(m.marks[i], 2)])
      \o Number(Len(m.words), 1)
      \o Concat([i \in DOMAIN m.words |-> Counted(m.words[i], 1)])
      \o (IF userData THEN Labels(m.labels) ELSE << >>)
      \o Counted(m.note, DefaultSizeBytes)
Wire(m) == Counted(Body(m), LengthWidth)

-----------------------------------------------------------------------------
TakeBackSize(b, offset) == SetSize(b, offset)  \* slip: the position is not taken back

\* What the sender does when a message could not be written: the position first, since
\* setSize() would send a position behind the end back to the start.
TakeBack(b, offset) == SetSize(SetOffsetWrite(b, offset), offset)

Send(m) ==
    \E s \in {WriteMessage(OutStream, m)} :
        /\ Len(sent) < MaxSent
        /\ Len(Body(m)) < Power(Base, LengthWidth)  \* a bound: the longest message
        /\ outBuf' = IF s.ok THEN s.buf ELSE TakeBack(s.buf, outBuf.m_posWrite)
        /\ outSizeBytes' = s.containerSizeBytes
        /\ sent' = IF s.ok THEN Append(sent, m) ELSE sent
        /\ UNCHANGED <<setup, inBuf, inSizeBytes, object, received>>

\* The bytes in the sender's buffer that wait for the transport.
Waiting(b) == b.m_posWrite - b.m_posRead

RewindNever(b) == b  \* slip: the room before the positions is not used again
Rewind(b) == IF Waiting(b) = 0 THEN Reset(b) ELSE b

\* What was carried goes; a buffer of fixed size keeps its bytes, and starts over when all
\* of them were carried.
Carried(b, n) ==
    IF b.m_resizeEnabled THEN RemoveFromStart(b, n) ELSE Rewind(MarkRead(b, n))

\* The transport carries n bytes.
Transfer(n) ==
    /\ inBuf' = WriteBlock(InStream, Remaining(outBuf, n)).buf
    /\ outBuf' = Carried(outBuf, n)
    /\ UNCHANGED <<setup, outSizeBytes, inSizeBytes, object, sent, received>>

\* A message that was read is removed from the buffer; after an exception the receiver
\* goes back to the start.
Receive ==
    \E s \in {ReadMessage(InStream, object)} :
        /\ inBuf' = IF s.ok THEN RemoveFromStart(s.buf, s.buf.m_posRead) ELSE ResetRead(s.buf)
        /\ inSizeBytes' = s.containerSizeBytes
        /\ object' = IF reuse THEN s.got.object ELSE NewObject
        /\ received' = IF s.ok THEN Append(received, s.got.message) ELSE received
        /\ UNCHANGED <<setup, outBuf, outSizeBytes, sent>>

Next ==
    \/ \E m \in Message : Send(m)
    \/ \E n \in 1..Waiting(outBuf) : Transfer(n)
    \/ Receive

Spec == Init /\ [][Next]_vars

-----------------------------------------------------------------------------
(* Properties.                                                             *)

\* The messages whose leftovers the object may show when message i is read into it.
Shown(i) == IF reuse THEN 1..i ELSE {i}

\* What a field keeps of the garbage: what fits behind the zero, up to its last byte that
\* is not zero.
Kept(name) ==
    LET fits(i) == i < NameSize - Len(name.str)
    IN  SubSeq(name.garbage, 1,
               Max({0} \cup {i \in DOMAIN name.garbage : fits(i) /\ name.garbage[i] # 0}))

\* Message i as it is read.
AsRead(i) ==
    LET tells == {j \in Shown(i) : Len(sent[j].name.str) < NameSize - 1}
        garbage == IF tells = {} THEN << >> ELSE Kept(sent[Max(tells)].name)
        holders(key) == {j \in Shown(i) : key \in DOMAIN sent[j].labels}
        labels == [key \in {k \in Byte : holders(k) # {}} |-> sent[Max(holders(key))].labels[key]]
    IN  [sent[i] EXCEPT !.name.garbage = garbage,
                        !.labels = IF userData THEN labels ELSE << >>]

\* The receiver gets the messages that were sent, in the order they were sent, however
\* the bytes were cut and however often a read or a write failed half way.  Of garbage
\* that does not fit behind its string the end is lost, and an object that is used again
\* shows the labels and the garbage of EARLIER messages that nothing has replaced, never
\* those of a message that was not received.
InOrder ==
    /\ Len(received) <= Len(sent)
    /\ \A i \in DOMAIN received : received[i] = AsRead(i)

\* The bytes on their way are those of the messages sent and not received: a message that
\* could not be written leaves no byte behind, one that could not be read yet loses none,
\* and a width of sizes set for one container is not in force for the next.
InTransit ==
    SubSeq(inBuf.m_internal, inBuf.m_posRead + 1, inBuf.m_size)
      \o Remaining(outBuf, Waiting(outBuf))
        = Concat([i \in 1..(Len(sent) - Len(received)) |-> Wire(sent[Len(received) + i])])

\* The messages of which no size is too large for what it is written to.
Writable ==
    {m \in Message : /\ Len(m.name.str) + Len(m.name.garbage) <= NameSize
                     /\ Len(m.words) < Base /\ \A i \in DOMAIN m.words : Len(m.words[i]) < Base
                     /\ Len(Body(m)) < Power(Base, LengthWidth)
                     /\ outBuf.m_resizeEnabled \/ Len(Wire(m)) <= Capacity}

\* Once all bytes are carried the sender can write every message that fits, and once all
\* have arrived the receiver only fails to read a message when there is none: no failed
\* write or read leaves its stream in a state in which it refuses, or mistakes, a message.
NoneRefused ==
    Waiting(outBuf) = 0 =>
        /\ \A m \in Writable : WriteMessage(OutStream, m).ok
        /\ ReadMessage(InStream, object).ok \/ Len(received) = Len(sent)
=============================================================================
