-------------------------- MODULE ByteOrderProofs --------------------------
(***************************************************************************)
(* What the operations of ByteOrderBuffer keep, for buffers of any size,   *)
(* the byte orders of ByteOrderDataStream, and the lemmas about the        *)
(* numbers and the steps in a row the streams are made of.                 *)
(***************************************************************************)
EXTENDS ByteOrderStream, WellFoundedInduction, TLAPS

\* Resizing keeps a sequence a sequence of bytes, of the length asked for.
LEMMA ResizedType ==
    ASSUME NEW Value, 0 \in Value, NEW bytes \in Seq(Value), NEW n \in Nat
    PROVE  Resized(bytes, n) \in Seq(Value) /\ Len(Resized(bytes, n)) = n
<1>1. \A i \in 1..n : (IF i <= Len(bytes) THEN bytes[i] ELSE 0) \in Value
  OBVIOUS
<1>2. Resized(bytes, n) \in [1..n -> Value]
  BY <1>1 DEF Resized
<1>3. Resized(bytes, n) \in Seq(Value)
  BY <1>2
<1> QED
  BY <1>2, <1>3

\* The reallocation sets the storage and leaves the positions alone; the size is set
\* only when it is zero, the rest is up to setSize.
LEMMA SetMaximumSizeType ==
    ASSUME NEW Value, 0 \in Value, NEW b \in Buffer(Value), NEW n \in Nat
    PROVE  /\ SetMaximumSize(b, n) \in Buffer(Value)
           /\ Len(SetMaximumSize(b, n).m_internal) = n
           /\ SetMaximumSize(b, n).m_posRead = b.m_posRead
           /\ SetMaximumSize(b, n).m_posWrite = b.m_posWrite
           /\ SetMaximumSize(b, n).m_internal = Resized(b.m_internal, n)
           /\ SetMaximumSize(b, n).m_eofRead = b.m_eofRead
           /\ SetMaximumSize(b, n).m_resizeEnabled = b.m_resizeEnabled
<1>1. Resized(b.m_internal, n) \in Seq(Value) /\ Len(Resized(b.m_internal, n)) = n
  BY ResizedType DEF Buffer, ByteArray
<1> QED
  BY <1>1 DEF SetMaximumSize, Buffer, ByteArray

\* Setting the size leaves all else of a buffer as it is.
LEMMA SizedType ==
    ASSUME NEW Value, NEW c \in Buffer(Value), NEW n \in Nat
    PROVE  LET sized == [c EXCEPT !.m_size = n]
           IN  /\ sized \in Buffer(Value)
               /\ sized.m_size = n
               /\ sized.m_internal = c.m_internal
               /\ sized.m_posRead = c.m_posRead
               /\ sized.m_posWrite = c.m_posWrite
               /\ sized.m_eofRead = c.m_eofRead
               /\ sized.m_resizeEnabled = c.m_resizeEnabled
  BY DEF Buffer

\* resetRead takes back the read position and the end of file, nothing else.
LEMMA ResetReadType ==
    ASSUME NEW Value, NEW c \in Buffer(Value)
    PROVE  /\ ResetRead(c) \in Buffer(Value)
           /\ ResetRead(c).m_size = c.m_size
           /\ ResetRead(c).m_internal = c.m_internal
           /\ ResetRead(c).m_posRead = 0
           /\ ResetRead(c).m_posWrite = c.m_posWrite
           /\ ResetRead(c).m_eofRead = FALSE
           /\ ResetRead(c).m_resizeEnabled = c.m_resizeEnabled
<1>1. FALSE \in BOOLEAN
  OBVIOUS
<1> QED
  BY <1>1 DEF ResetRead, Buffer

\* resetWrite takes back the write position, nothing else.
LEMMA ResetWriteType ==
    ASSUME NEW Value, NEW c \in Buffer(Value)
    PROVE  /\ ResetWrite(c) \in Buffer(Value)
           /\ ResetWrite(c).m_size = c.m_size
           /\ ResetWrite(c).m_internal = c.m_internal
           /\ ResetWrite(c).m_posRead = c.m_posRead
           /\ ResetWrite(c).m_posWrite = 0
           /\ ResetWrite(c).m_eofRead = c.m_eofRead
           /\ ResetWrite(c).m_resizeEnabled = c.m_resizeEnabled
  BY DEF ResetWrite, Buffer

\* setSize keeps a buffer in order: the storage has the size, and a position that would
\* fall behind the end does not stay there.
THEOREM SetSizeKeepsOrder ==
    ASSUME NEW Value, 0 \in Value, NEW b, BufferOK(b, Value), NEW n \in Nat
    PROVE  /\ BufferOK(SetSize(b, n), Value)
           /\ SetSize(b, n).m_resizeEnabled = b.m_resizeEnabled
           /\ b.m_posRead <= n => SetSize(b, n).m_eofRead = b.m_eofRead
           /\ b.m_resizeEnabled =>
                 /\ SetSize(b, n).m_size = n
                 /\ SetSize(b, n).m_internal = Resized(b.m_internal, n)
                 /\ SetSize(b, n).m_posWrite = IF b.m_posWrite <= n THEN b.m_posWrite ELSE 0
                 /\ SetSize(b, n).m_posRead = IF b.m_posRead <= n THEN b.m_posRead ELSE 0
<1> DEFINE grown == IF n # b.m_size THEN SetMaximumSize(b, n) ELSE b
           sized == [grown EXCEPT !.m_size = n]
           read == IF RemainRead(sized) < 0 THEN ResetRead(sized) ELSE sized
<1>0. /\ b \in Buffer(Value) /\ b.m_size = Len(b.m_internal) /\ b.m_posWrite <= b.m_size
      /\ b.m_internal \in Seq(Value) /\ b.m_posRead \in Nat /\ b.m_posWrite \in Nat
  BY DEF BufferOK, Buffer, ByteArray
<1>1. /\ grown \in Buffer(Value) /\ Len(grown.m_internal) = n
      /\ grown.m_posWrite = b.m_posWrite /\ grown.m_posRead = b.m_posRead
      /\ grown.m_internal = Resized(b.m_internal, n)
      /\ grown.m_eofRead = b.m_eofRead /\ grown.m_resizeEnabled = b.m_resizeEnabled
  <2>1. CASE n # b.m_size
    <3>1. grown = SetMaximumSize(b, n)
      BY <2>1
    <3> HIDE DEF grown
    <3> QED
      BY <1>0, <3>1, SetMaximumSizeType
  <2>2. CASE n = b.m_size
    <3>1. Resized(b.m_internal, n) = b.m_internal
      BY <1>0, <2>2 DEF Resized
    <3>2. grown = b
      BY <2>2
    <3> QED
      BY <1>0, <2>2, <3>1, <3>2
  <2> QED
    BY <2>1, <2>2
<1>2. /\ sized \in Buffer(Value) /\ sized.m_size = n /\ Len(sized.m_internal) = n
      /\ sized.m_posWrite = b.m_posWrite /\ sized.m_posRead = b.m_posRead
      /\ sized.m_internal = Resized(b.m_internal, n)
      /\ sized.m_eofRead = b.m_eofRead /\ sized.m_resizeEnabled = b.m_resizeEnabled
  <2> HIDE DEF grown
  <2> QED
    BY <1>1, SizedType
<1>3. /\ read \in Buffer(Value) /\ read.m_size = n
      /\ read.m_posWrite = b.m_posWrite /\ read.m_internal = Resized(b.m_internal, n)
      /\ read.m_posRead = IF b.m_posRead <= n THEN b.m_posRead ELSE 0
      /\ b.m_posRead <= n => read.m_eofRead = b.m_eofRead
      /\ read.m_resizeEnabled = b.m_resizeEnabled
  <2> HIDE DEF sized
  <2>1. CASE RemainRead(sized) < 0
    <3>1. read = ResetRead(sized)
      BY <2>1
    <3>2. ~(b.m_posRead <= n)
      BY <1>0, <1>2, <2>1 DEF RemainRead
    <3> HIDE DEF read
    <3> QED
      BY <1>2, <3>1, <3>2, ResetReadType
  <2>2. CASE ~(RemainRead(sized) < 0)
    BY <1>0, <1>2, <2>2 DEF RemainRead
  <2> QED
    BY <2>1, <2>2
<1>4. CASE ~b.m_resizeEnabled
  BY <1>4 DEF SetSize
<1>5. CASE b.m_resizeEnabled
  <2>1. SetSize(b, n) = IF RemainWrite(read) < 0 THEN ResetWrite(read) ELSE read
    BY <1>5 DEF SetSize
  <2> HIDE DEF read
  <2>2. Len(Resized(b.m_internal, n)) = n
    BY <1>0, ResizedType
  <2>3. CASE RemainWrite(read) < 0
    <3>1. SetSize(b, n) = ResetWrite(read) /\ ~(b.m_posWrite <= n)
      BY <1>0, <1>3, <2>1, <2>3 DEF RemainWrite
    <3> QED
      BY <1>0, <1>3, <2>2, <3>1, ResetWriteType DEF BufferOK
  <2>4. CASE ~(RemainWrite(read) < 0)
    <3>1. SetSize(b, n) = read /\ b.m_posWrite <= n
      BY <1>0, <1>3, <2>1, <2>4 DEF RemainWrite
    <3> QED
      BY <1>3, <2>2, <3>1 DEF BufferOK
  <2> QED
    BY <2>3, <2>4
<1> QED
  BY <1>4, <1>5

-----------------------------------------------------------------------------
(* Taking bytes from the start.                                            *)

\* removeFromStart keeps a buffer in order, and where bytes remain, what was read or
\* written next is what is read or written next: the positions move with the bytes.
THEOREM RemoveKeepsOrder ==
    ASSUME NEW Value, 0 \in Value, NEW b, BufferOK(b, Value), NEW n \in Nat
    PROVE  /\ BufferOK(RemoveFromStart(b, n), Value)
           /\ n < b.m_size =>
                 /\ RemoveFromStart(b, n).m_size = b.m_size - n
                 /\ \A i \in 1..(b.m_size - n) :
                       RemoveFromStart(b, n).m_internal[i] = b.m_internal[i + n]
                 /\ n <= b.m_posRead => RemoveFromStart(b, n).m_posRead = b.m_posRead - n
                 /\ n <= b.m_posWrite => RemoveFromStart(b, n).m_posWrite = b.m_posWrite - n
<1>0. /\ b \in Buffer(Value) /\ b.m_size = Len(b.m_internal) /\ b.m_posWrite <= b.m_size
      /\ b.m_internal \in Seq(Value) /\ b.m_posRead \in Nat /\ b.m_posWrite \in Nat
      /\ b.m_size \in Nat
  BY DEF BufferOK, Buffer, ByteArray
<1>1. CASE n = 0
  BY <1>0, <1>1 DEF RemoveFromStart
<1>2. CASE n # 0 /\ n >= b.m_size
  <2>1. RemoveFromStart(b, n) = SetSize(b, 0)
    BY <1>0, <1>2 DEF RemoveFromStart
  <2>2. BufferOK(SetSize(b, 0), Value)
    BY SetSizeKeepsOrder
  <2> QED
    BY <1>0, <1>2, <2>1, <2>2
<1>3. CASE n # 0 /\ n < b.m_size
  <2> DEFINE rest == SubSeq(b.m_internal, n + 1, Len(b.m_internal))
             posRead == NotBelowZero(b.m_posRead - n)
             posWrite == NotBelowZero(b.m_posWrite - n)
  <2>1. RemoveFromStart(b, n) =
            [b EXCEPT !.m_internal = rest, !.m_size = b.m_size - n,
                      !.m_posRead = posRead, !.m_posWrite = posWrite]
    BY <1>0, <1>3 DEF RemoveFromStart, Buffer
  <2>2. /\ rest \in Seq(Value) /\ Len(rest) = b.m_size - n
        /\ \A i \in 1..(b.m_size - n) : rest[i] = b.m_internal[i + n]
    BY <1>0, <1>3
  <2>3. /\ posRead \in Nat /\ posWrite \in Nat /\ posWrite <= b.m_size - n
        /\ n <= b.m_posRead => posRead = b.m_posRead - n
        /\ n <= b.m_posWrite => posWrite = b.m_posWrite - n
    BY <1>0, <1>3 DEF NotBelowZero
  <2> HIDE DEF rest, posRead, posWrite
  <2>4. b.m_size - n \in Nat
    BY <1>0, <1>3
  <2>5. /\ RemoveFromStart(b, n) \in Buffer(Value)
        /\ RemoveFromStart(b, n).m_internal = rest
        /\ RemoveFromStart(b, n).m_size = b.m_size - n
        /\ RemoveFromStart(b, n).m_posRead = posRead
        /\ RemoveFromStart(b, n).m_posWrite = posWrite
    BY <1>0, <2>1, <2>2, <2>3, <2>4 DEF Buffer, ByteArray
  <2> QED
    BY <2>2, <2>3, <2>5 DEF BufferOK
<1> QED
  BY <1>0, <1>1, <1>2, <1>3

-----------------------------------------------------------------------------
(* Writing.                                                                *)

\* Bytes put into the storage and marked as written move the write position, nothing else.
LEMMA StoredType ==
    ASSUME NEW Value, NEW c \in Buffer(Value), NEW bytes \in Seq(Value), NEW n \in Nat
    PROVE  LET stored == MarkWrite([c EXCEPT !.m_internal = bytes], n)
           IN  /\ stored \in Buffer(Value)
               /\ stored.m_internal = bytes
               /\ stored.m_size = c.m_size
               /\ stored.m_posRead = c.m_posRead
               /\ stored.m_posWrite = c.m_posWrite + n
               /\ stored.m_eofRead = c.m_eofRead
               /\ stored.m_resizeEnabled = c.m_resizeEnabled
<1> DEFINE d == [c EXCEPT !.m_internal = bytes]
<1>1. /\ d \in Buffer(Value) /\ d.m_internal = bytes /\ d.m_size = c.m_size
      /\ d.m_posRead = c.m_posRead /\ d.m_posWrite = c.m_posWrite
      /\ d.m_eofRead = c.m_eofRead /\ d.m_resizeEnabled = c.m_resizeEnabled
  BY DEF Buffer, ByteArray
<1> HIDE DEF d
<1>2. d.m_posWrite + n \in Nat
  BY <1>1 DEF Buffer
<1>3. /\ MarkWrite(d, n) \in Buffer(Value) /\ MarkWrite(d, n).m_internal = d.m_internal
      /\ MarkWrite(d, n).m_size = d.m_size /\ MarkWrite(d, n).m_posRead = d.m_posRead
      /\ MarkWrite(d, n).m_posWrite = d.m_posWrite + n
      /\ MarkWrite(d, n).m_eofRead = d.m_eofRead /\ MarkWrite(d, n).m_resizeEnabled = d.m_resizeEnabled
  BY <1>1, <1>2 DEF MarkWrite, Buffer
<1> QED
  BY <1>1, <1>3 DEF d

\* What writeBlock does to its buffer: it grows when it has to, the bytes go to the write
\* position, all others stay, and the next write follows.
THEOREM WriteKeepsOrder ==
    ASSUME NEW Value, 0 \in Value, NEW b, BufferOK(b, Value), NEW bytes \in Seq(Value),
           MayWrite(b, Len(bytes))
    PROVE  LET c == MarkWrite(Overwrite(PosWrite(b, Len(bytes)), bytes), Len(bytes))
           IN  /\ BufferOK(c, Value)
               /\ c.m_posWrite = b.m_posWrite + Len(bytes)
               /\ (c.m_posRead = b.m_posRead /\ c.m_eofRead = b.m_eofRead) \/ b.m_posRead > c.m_size
               /\ c.m_resizeEnabled = b.m_resizeEnabled
               /\ c.m_size = IF c.m_posWrite <= b.m_size THEN b.m_size ELSE c.m_posWrite
               /\ \A i \in 1..b.m_posWrite : c.m_internal[i] = b.m_internal[i]
               /\ \A i \in 1..Len(bytes) : c.m_internal[b.m_posWrite + i] = bytes[i]
<1> DEFINE n == Len(bytes)
           room == PosWrite(b, n)
           storage == [i \in DOMAIN room.m_internal |->
                          IF i - room.m_posWrite \in DOMAIN bytes
                          THEN bytes[i - room.m_posWrite] ELSE room.m_internal[i]]
           written == Overwrite(room, bytes)
           c == MarkWrite(written, n)
<1>0. /\ b \in Buffer(Value) /\ b.m_size = Len(b.m_internal) /\ b.m_posWrite <= b.m_size
      /\ b.m_internal \in Seq(Value) /\ b.m_posRead \in Nat /\ b.m_posWrite \in Nat
      /\ b.m_size \in Nat /\ n \in Nat
  BY DEF BufferOK, Buffer, ByteArray
<1>1. /\ BufferOK(room, Value) /\ room.m_posWrite = b.m_posWrite
      /\ room.m_size >= b.m_posWrite + n
      /\ b.m_posRead <= room.m_size => room.m_posRead = b.m_posRead /\ room.m_eofRead = b.m_eofRead
      /\ room.m_resizeEnabled = b.m_resizeEnabled
      /\ room.m_size = IF b.m_posWrite + n <= b.m_size THEN b.m_size ELSE b.m_posWrite + n
      /\ \A i \in 1..b.m_posWrite : room.m_internal[i] = b.m_internal[i]
  <2>1. CASE RemainWrite(b) < n
    <3> DEFINE size == b.m_size + n - RemainWrite(b)
    <3>1. size \in Nat /\ size = b.m_posWrite + n /\ b.m_resizeEnabled
      BY <1>0, <2>1 DEF RemainWrite, MayWrite
    <3>2. room = SetSize(b, size)
      BY <2>1 DEF PosWrite
    <3> HIDE DEF size, room
    <3>3. \A i \in 1..b.m_posWrite : Resized(b.m_internal, size)[i] = b.m_internal[i]
      BY <1>0, <3>1 DEF Resized
    <3>4. /\ BufferOK(SetSize(b, size), Value) /\ SetSize(b, size).m_size = size
          /\ SetSize(b, size).m_internal = Resized(b.m_internal, size)
          /\ b.m_posWrite <= size => SetSize(b, size).m_posWrite = b.m_posWrite
          /\ b.m_posRead <= size => SetSize(b, size).m_posRead = b.m_posRead
          /\ b.m_posRead <= size => SetSize(b, size).m_eofRead = b.m_eofRead
          /\ SetSize(b, size).m_resizeEnabled = b.m_resizeEnabled
      BY <3>1, SetSizeKeepsOrder
    <3>5. ~(b.m_posWrite + n <= b.m_size) /\ b.m_posWrite <= size
      BY <1>0, <2>1, <3>1 DEF RemainWrite
    <3>6. room.m_size = size /\ room.m_posWrite = b.m_posWrite /\ BufferOK(room, Value)
      BY <3>2, <3>4, <3>5
    <3>7. \A i \in 1..b.m_posWrite : room.m_internal[i] = b.m_internal[i]
      BY <3>2, <3>3, <3>4
    <3>8. /\ b.m_posRead <= room.m_size => room.m_posRead = b.m_posRead /\ room.m_eofRead = b.m_eofRead
          /\ room.m_resizeEnabled = b.m_resizeEnabled
      BY <3>2, <3>4, <3>6
    <3>9. room.m_size >= b.m_posWrite + n
          /\ room.m_size = IF b.m_posWrite + n <= b.m_size THEN b.m_size ELSE b.m_posWrite + n
      BY <1>0, <3>1, <3>5, <3>6
    <3> HIDE DEF n
    <3> QED
      BY <3>6, <3>7, <3>8, <3>9
  <2>2. CASE ~(RemainWrite(b) < n)
    BY <1>0, <2>2 DEF PosWrite, RemainWrite
  <2> QED
    BY <2>1, <2>2
<1> HIDE DEF room, n
<1>2. /\ room \in Buffer(Value) /\ room.m_internal \in Seq(Value)
      /\ room.m_size = Len(room.m_internal) /\ room.m_size \in Nat /\ room.m_posRead \in Nat
  BY <1>1 DEF BufferOK, Buffer, ByteArray
<1>3. storage \in Seq(Value) /\ Len(storage) = room.m_size
  <2>1. storage \in [1..Len(room.m_internal) -> Value]
    BY <1>0, <1>1, <1>2
  <2> HIDE DEF storage
  <2> QED
    BY <1>2, <2>1
<1>4. /\ \A i \in 1..b.m_posWrite : storage[i] = b.m_internal[i]
      /\ \A i \in 1..n : storage[b.m_posWrite + i] = bytes[i]
  <2>1. DOMAIN bytes = 1..n /\ DOMAIN room.m_internal = 1..room.m_size
    BY <1>2 DEF n
  <2>2. ASSUME NEW i \in 1..b.m_posWrite PROVE storage[i] = b.m_internal[i]
    <3>1. i \in DOMAIN room.m_internal /\ i - room.m_posWrite \notin DOMAIN bytes
      <4> HIDE DEF storage
      <4> QED
        BY <1>0, <1>1, <1>2, <2>1
    <3> QED
      BY <1>1, <3>1
  <2>3. ASSUME NEW i \in 1..n PROVE storage[b.m_posWrite + i] = bytes[i]
    <3>1. /\ b.m_posWrite + i \in DOMAIN room.m_internal
          /\ (b.m_posWrite + i) - room.m_posWrite = i
      BY <1>0, <1>1, <1>2, <2>1
    <3> QED
      BY <2>1, <3>1
  <2> QED
    BY <2>2, <2>3
<1>5. written = [room EXCEPT !.m_internal = storage]
  BY <1>2 DEF Overwrite, Buffer
<1> HIDE DEF storage, written
<1>6. /\ c \in Buffer(Value) /\ c.m_internal = storage /\ c.m_size = room.m_size
      /\ c.m_posWrite = room.m_posWrite + n /\ c.m_posRead = room.m_posRead
      /\ c.m_eofRead = room.m_eofRead /\ c.m_resizeEnabled = room.m_resizeEnabled
  BY <1>0, <1>2, <1>3, <1>5, StoredType
<1> HIDE DEF c
<1>7. BufferOK(c, Value)
  BY <1>0, <1>1, <1>3, <1>6 DEF BufferOK
<1>8. (c.m_posRead = b.m_posRead /\ c.m_eofRead = b.m_eofRead) \/ b.m_posRead > c.m_size
  BY <1>0, <1>1, <1>2, <1>6
<1>9. QED
  BY <1>0, <1>1, <1>4, <1>6, <1>7, <1>8 DEF c, written, room, n

-----------------------------------------------------------------------------
(* Value order.                                                             *)

Width == {1, 2, 4, 8}

\* Whatever the protocol mask, the bytes of a scalar are permuted within its width, and
\* reading with the mask undoes what writing with it did.
THEOREM MaskIsInvolution ==
    ASSUME NEW protocol \in Nat, NEW width \in Width, NEW i \in 0..(width - 1)
    PROVE  LET m == TypeMask(protocol, width)
           IN  Xor(m, i) \in 0..(width - 1) /\ Xor(m, Xor(m, i)) = i
<1> DEFINE k == TypeMask(protocol, width)
<1>0. width \in {1, 2, 4, 8}
  BY DEF Width
<1>1. k = IF width = 1 THEN 0 ELSE (protocol % 8) % width
  BY <1>0 DEF TypeMask, SetMask
<1> HIDE DEF k
<1>2. Xor(k, i) \in 0..(width - 1) /\ Xor(k, Xor(k, i)) = i
  <2>1. CASE width = 1
    BY <1>1, <2>1 DEF Xor
  <2>2. CASE width = 2
    <3>1. k \in {0, 1} /\ i \in {0, 1}
      BY <1>1, <2>2
    <3> QED
      BY <2>2, <3>1 DEF Xor
  <2>3. CASE width = 4
    <3>1. k \in {0, 1, 2, 3} /\ i \in {0, 1, 2, 3}
      BY <1>1, <2>3
    <3> QED
      BY <2>3, <3>1 DEF Xor
  <2>4. CASE width = 8
    <3>1. k \in {0, 1, 2, 3, 4, 5, 6, 7} /\ i \in {0, 1, 2, 3, 4, 5, 6, 7}
      BY <1>1, <2>4
    <3> QED
      BY <2>4, <3>1, SMTT(60) DEF Xor
  <2> QED
    BY <1>0, <2>1, <2>2, <2>3, <2>4
<1> QED
  BY <1>2 DEF k

\* s_bigEndian is big-endian and s_littleEndian little-endian for every width: the byte of
\* weight Base^i goes to the place width - 1 - i, or to the place i.
THEOREM MasksAreEndian ==
    ASSUME NEW width \in Width, NEW i \in 0..(width - 1)
    PROVE  /\ Xor(TypeMask(s_bigEndian, width), i) = width - 1 - i
           /\ Xor(TypeMask(s_littleEndian, width), i) = i
<1>1. CASE width = 1
  <2>1. i = 0 /\ TypeMask(s_bigEndian, width) = 0 /\ TypeMask(s_littleEndian, width) = 0
    BY <1>1 DEF TypeMask, SetMask
  <2>2. Xor(0, 0) = 0
    BY DEF Xor
  <2> QED
    BY <1>1, <2>1, <2>2
<1>2. CASE width = 2
  <2>1. i \in {0, 1}
    BY <1>2
  <2> QED
    BY <1>2, <2>1 DEF TypeMask, SetMask, Xor, s_bigEndian, s_littleEndian
<1>3. CASE width = 4
  <2>1. i \in {0, 1, 2, 3}
    BY <1>3
  <2> QED
    BY <1>3, <2>1 DEF TypeMask, SetMask, Xor, s_bigEndian, s_littleEndian
<1>4. CASE width = 8
  <2>1. i \in {0, 1, 2, 3, 4, 5, 6, 7}
    BY <1>4
  <2> QED
    BY <1>4, <2>1 DEF TypeMask, SetMask, Xor, s_bigEndian, s_littleEndian
<1> QED
  BY <1>1, <1>2, <1>3, <1>4 DEF Width

-----------------------------------------------------------------------------
(* Steps in a row.  The provers cannot use an induction theorem that takes an operator, nor     *)
(* take the steps of Run for granted: where Run is used its steps are made a function on a set. *)

\* Induction over the natural numbers, for a set.
LEMMA SetInduction ==
  ASSUME NEW T \in SUBSET Nat, 0 \in T, \A n \in T : n + 1 \in T
  PROVE  T = Nat
<1>1. \A x, y \in Nat : y < x => <<y, x>> \in OpToRel(<, Nat)
  BY DEF OpToRel
<1>2. SUFFICES ASSUME Nat \ T # {} PROVE FALSE
  OBVIOUS
<1>3. \E x \in Nat \ T : \A y \in Nat \ T : <<y, x>> \notin OpToRel(<, Nat)
  BY <1>2, WFMin, NatLessThanWellFounded
<1>4. \E x \in Nat \ T : \A y \in Nat \ T : ~(y < x)
  BY <1>1, <1>3
<1>5. PICK x \in Nat \ T : \A y \in Nat \ T : ~(y < x)
  BY <1>4
<1>6. x # 0
  OBVIOUS
<1>7. x - 1 \in Nat /\ x - 1 < x /\ (x - 1) + 1 = x
  BY <1>6
<1>8. x - 1 \in T
  BY <1>5, <1>7
<1> QED BY <1>5, <1>7, <1>8

\* What holds at first and is kept by each of n steps holds after all of them.
LEMMA StepInduction ==
  ASSUME NEW n \in Nat, NEW T, 0 \in T, \A i \in 1..n : i - 1 \in T => i \in T
  PROVE  \A i \in 0..n : i \in T
<1> DEFINE U == {i \in Nat : i <= n => i \in T}
<1>1. 0 \in U
  OBVIOUS
<1>2. ASSUME NEW i \in U PROVE i + 1 \in U
  <2>1. SUFFICES ASSUME i + 1 <= n PROVE i + 1 \in T
    OBVIOUS
  <2>2. i \in T /\ i + 1 \in 1..n /\ (i + 1) - 1 = i
    BY <2>1
  <2> QED BY <2>2
<1>3. U = Nat
  <2>1. U \in SUBSET Nat
    OBVIOUS
  <2> HIDE DEF U
  <2> QED BY <1>1, <1>2, <2>1, SetInduction
<1>4. ASSUME NEW i \in 0..n PROVE i \in T
  <2>1. i \in U
    <3> HIDE DEF U
    <3> QED BY <1>3
  <2> QED BY <2>1
<1> QED BY <1>4

\* The states g are those the steps lead to.
Follows(g, n, first, step) == g[0] = first /\ \A i \in 1..n : g[i] = step[<<g[i - 1], i>>]

\* Steps that stay in a set can be taken.
LEMMA StepsExist ==
  ASSUME NEW n \in Nat, NEW S, NEW first \in S, NEW step \in [S \X (1..n) -> S]
  PROVE  \E g \in [0..n -> S] : Follows(g, n, first, step)
<1> DEFINE T == {m \in 0..n : \E g \in [0..m -> S] : Follows(g, m, first, step)}
<1>1. 0 \in T
  <2>1. [i \in 0..0 |-> first] \in [0..0 -> S] /\ Follows([i \in 0..0 |-> first], 0, first, step)
    BY DEF Follows
  <2> QED BY <2>1
<1>2. ASSUME NEW m \in 1..n, m - 1 \in T PROVE m \in T
  <2>1. PICK g \in [0..(m - 1) -> S] : Follows(g, m - 1, first, step)
    BY <1>2
  <2> DEFINE h == [i \in 0..m |-> IF i < m THEN g[i] ELSE step[<<g[m - 1], m>>]]
  <2>2. g[m - 1] \in S /\ step[<<g[m - 1], m>>] \in S
    OBVIOUS
  <2>3. h \in [0..m -> S]
    <3> HIDE DEF T
    <3> QED BY <2>2
  <2>4. h[0] = first
    BY <2>1 DEF Follows
  <2>5. ASSUME NEW i \in 1..m PROVE h[i] = step[<<h[i - 1], i>>]
    <3>1. CASE i < m
      <4>1. i \in 1..(m - 1) /\ h[i] = g[i] /\ h[i - 1] = g[i - 1]
        <5>1. i \in 0..m /\ i - 1 \in 0..m /\ i - 1 < m
          BY <3>1
        <5> QED BY <3>1, <5>1
      <4> HIDE DEF h
      <4> QED BY <2>1, <4>1 DEF Follows
    <3>2. CASE i = m
      <4>1. i \in 0..m /\ i - 1 \in 0..m /\ i - 1 < m /\ ~(i < m) /\ i - 1 = m - 1
        BY <3>2
      <4>2. h[i] = step[<<g[m - 1], m>>] /\ h[i - 1] = g[m - 1]
        BY <4>1
      <4> QED BY <3>2, <4>2
    <3> QED BY <3>1, <3>2
  <2> HIDE DEF h
  <2>6. Follows(h, m, first, step)
    BY <2>4, <2>5 DEF Follows
  <2> QED BY <2>3, <2>6
<1>3. n \in T
  <2> HIDE DEF T
  <2> QED BY <1>1, <1>2, StepInduction
<1> QED BY <1>3

\* They lead to one state only, which the steps after it do not matter to.
LEMMA StepsAreUnique ==
  ASSUME NEW first, NEW step, NEW m \in Nat, NEW n \in Nat, m <= n,
         NEW g, NEW h, Follows(g, m, first, step), Follows(h, n, first, step)
  PROVE  \A i \in 0..m : g[i] = h[i]
<1> DEFINE T == {i \in 0..m : g[i] = h[i]}
<1>1. 0 \in T
  BY DEF Follows
<1>2. ASSUME NEW i \in 1..m, i - 1 \in T PROVE i \in T
  <2>1. g[i - 1] = h[i - 1]
    BY <1>2
  <2>2. i \in 1..n
    OBVIOUS
  <2>3. g[i] = step[<<g[i - 1], i>>] /\ h[i] = step[<<h[i - 1], i>>]
    BY <2>2 DEF Follows
  <2> QED BY <2>1, <2>3
<1>3. \A i \in 0..m : i \in T
  <2> HIDE DEF T
  <2> QED BY <1>1, <1>2, StepInduction
<1> QED BY <1>3

-----------------------------------------------------------------------------
(* Powers and digits.                                                      *)

\* The powers of a base up to the one of n.
LEMMA PowerSteps ==
  ASSUME NEW b \in Nat, NEW n \in Nat
  PROVE  \E f : /\ Power(b, n) = f[n]
                /\ f[0] = 1
                /\ \A i \in 1..n : f[i] = b * f[i - 1] /\ f[i - 1] \in Nat
                /\ f[n] \in Nat
<1> DEFINE N == Nat
           one == 1
           step == [z \in N \X (1..n) |-> b * z[1]]
           F == CHOOSE f : f = [i \in {k \in Nat : k <= n} |-> IF i = 0 THEN 1 ELSE b * f[i - 1]]
<1>1. step \in [N \X (1..n) -> N] /\ one \in N
  OBVIOUS
<1>2. PICK f \in [0..n -> N] : Follows(f, n, one, step)
  <2> HIDE DEF N, one, step
  <2> QED BY <1>1, StepsExist
<1>3. f = [i \in {k \in Nat : k <= n} |-> IF i = 0 THEN 1 ELSE b * f[i - 1]]
  <2>1. ASSUME NEW i \in 0..n PROVE f[i] = IF i = 0 THEN 1 ELSE b * f[i - 1]
    <3>1. CASE i = 0
      BY <1>2, <3>1 DEF Follows
    <3>2. CASE i \in 1..n
      <4>1. <<f[i - 1], i>> \in N \X (1..n)
        BY <3>2
      <4>2. f[i] = step[<<f[i - 1], i>>]
        <5> HIDE DEF step, N
        <5> QED BY <1>2, <3>2 DEF Follows
      <4> QED BY <3>2, <4>1, <4>2
    <3> QED BY <3>1, <3>2
  <2>2. {k \in Nat : k <= n} = 0..n
    OBVIOUS
  <2> QED BY <2>1, <2>2
<1>4. F = [i \in {k \in Nat : k <= n} |-> IF i = 0 THEN 1 ELSE b * F[i - 1]]
  BY <1>3
<1>5. Power(b, n) = F[n]
  BY DEF Power, Run
<1> HIDE DEF F
<1>6. F[0] = 1 /\ \A i \in 1..n : F[i] = b * F[i - 1]
  BY <1>4
<1> DEFINE T == {j \in 0..n : F[j] \in Nat}
<1>7. \A i \in 0..n : i \in T
  <2>1. 0 \in T
    BY <1>6
  <2>2. \A i \in 1..n : i - 1 \in T => i \in T
    BY <1>6
  <2> HIDE DEF T
  <2> QED BY <2>1, <2>2, StepInduction
<1>8. F[n] \in Nat /\ \A i \in 1..n : F[i - 1] \in Nat
  BY <1>7
<1> QED BY <1>5, <1>6, <1>8

\* The powers of a base are natural numbers, each the product of the one before and the
\* base.
LEMMA Powers ==
  ASSUME NEW b \in Nat
  PROVE  /\ Power(b, 0) = 1
         /\ \A n \in Nat : Power(b, n) \in Nat /\ Power(b, n + 1) = b * Power(b, n)
<1>1. Power(b, 0) = 1
  BY PowerSteps
<1>2. ASSUME NEW n \in Nat PROVE Power(b, n) \in Nat /\ Power(b, n + 1) = b * Power(b, n)
  <2> DEFINE step == [z \in Nat \X Nat |-> b * z[1]]
  <2>1. PICK f : /\ Power(b, n) = f[n] /\ f[0] = 1 /\ f[n] \in Nat
                 /\ \A i \in 1..n : f[i] = b * f[i - 1] /\ f[i - 1] \in Nat
    BY PowerSteps
  <2>2. n + 1 \in Nat /\ (n + 1) - 1 = n /\ n + 1 \in 1..(n + 1)
    OBVIOUS
  <2>3. PICK g : /\ Power(b, n + 1) = g[n + 1] /\ g[0] = 1
                 /\ \A i \in 1..(n + 1) : g[i] = b * g[i - 1] /\ g[i - 1] \in Nat
    BY <2>2, PowerSteps
  <2>4. Follows(f, n, 1, step)
    BY <2>1 DEF Follows
  <2>5. Follows(g, n, 1, step)
    <3>1. \A i \in 1..n : i \in 1..(n + 1)
      OBVIOUS
    <3> QED BY <2>3, <3>1 DEF Follows
  <2>6. f[n] = g[n]
    <3> HIDE DEF step
    <3> QED BY <2>4, <2>5, StepsAreUnique
  <2>7. g[n + 1] = b * g[n]
    BY <2>2, <2>3
  <2> QED BY <2>1, <2>3, <2>6, <2>7
<1> QED BY <1>1, <1>2

\* The powers of a positive base are positive.
LEMMA PowersArePositive ==
  ASSUME NEW b \in Nat \ {0}, NEW n \in Nat
  PROVE  Power(b, n) \in Nat \ {0} /\ Power(b, n + 1) = b * Power(b, n)
<1> DEFINE T == {k \in Nat : Power(b, k) > 0}
<1>0. Power(b, 0) = 1 /\ \A k \in Nat : Power(b, k) \in Nat /\ Power(b, k + 1) = b * Power(b, k)
  BY Powers
<1>1. 0 \in T
  BY <1>0
<1>2. ASSUME NEW k \in T PROVE k + 1 \in T
  <2>1. Power(b, k) \in Nat /\ Power(b, k) > 0 /\ Power(b, k + 1) = b * Power(b, k)
    BY <1>0
  <2>2. \A x \in Nat : x > 0 => b * x > 0
    OBVIOUS
  <2> QED BY <2>1, <2>2
<1>3. T = Nat
  <2>1. T \in SUBSET Nat
    OBVIOUS
  <2> HIDE DEF T
  <2> QED BY <1>1, <1>2, <2>1, SetInduction
<1>4. n \in T
  <2> HIDE DEF T
  <2> QED BY <1>3
<1> QED BY <1>0, <1>4

\* A byte has at least two values.
LEMMA BaseType == Base \in Nat /\ Base >= 2
<1>1. PICK k \in Nat : Bits = k + 1
  <2>1. Bits - 1 \in Nat /\ Bits = (Bits - 1) + 1
    BY BitsAssumption
  <2> QED BY <2>1
<1>2. Power(2, k) \in Nat \ {0} /\ Power(2, k + 1) = 2 * Power(2, k)
  BY PowersArePositive
<1> QED BY <1>1, <1>2 DEF Base

\* A number is the divisor times the quotient and the remainder.
LEMMA Division ==
  ASSUME NEW a \in Int, NEW b \in Int, b > 0
  PROVE  /\ a \div b \in Int /\ a % b \in 0 .. b - 1
         /\ a = b * (a \div b) + (a % b)
OBVIOUS

\* Quotient and remainder are the only ones.
LEMMA DivisionIs ==
  ASSUME NEW b \in Nat \ {0}, NEW q \in Int, NEW r \in 0 .. b - 1
  PROVE  (b * q + r) \div b = q /\ (b * q + r) % b = r
OBVIOUS

\* Dividing twice.
LEMMA DivisionOfDivision ==
  ASSUME NEW a \in Nat, NEW b \in Nat \ {0}, NEW c \in Nat \ {0}
  PROVE  a \div (c * b) = (a \div b) \div c
<1> DEFINE q == a \div b
           r == a % b
           p == q \div c
           s == q % c
<1>1. q \in Int /\ r \in 0 .. b - 1 /\ a = b * q + r
  BY Division
<1>2. p \in Int /\ s \in 0 .. c - 1 /\ q = c * p + s
  <2> HIDE DEF q
  <2> QED BY <1>1, Division
<1> HIDE DEF q, r, p, s
<1>3. b * s + r \in 0 .. c * b - 1
  <2>1. b * s >= 0 /\ b * s <= b * (c - 1)
    BY <1>2
  <2>2. b * (c - 1) = c * b - b
    OBVIOUS
  <2>3. \A x, y, z \in Int : x >= 0 /\ x <= y - b /\ z \in 0 .. b - 1 => x + z \in 0 .. y - 1
    OBVIOUS
  <2>4. b * s \in Int /\ c * b \in Int
    BY <1>2
  <2> QED BY <1>1, <2>1, <2>2, <2>3, <2>4
<1>4. a = (c * b) * p + (b * s + r)
  <2>1. b * (c * p + s) = (c * b) * p + b * s
    BY <1>2
  <2> QED BY <1>1, <1>2, <2>1
<1>5. c * b \in Nat \ {0}
  OBVIOUS
<1>6. a \div (c * b) = p
  BY <1>2, <1>3, <1>4, <1>5, DivisionIs
<1> QED BY <1>6 DEF p, q

\* The power of a sum is the product of the powers.
LEMMA PowerProduct ==
  ASSUME NEW b \in Nat \ {0}, NEW m \in Nat, NEW n \in Nat
  PROVE  Power(b, m + n) = Power(b, m) * Power(b, n)
<1> DEFINE T == {k \in Nat : Power(b, m + k) = Power(b, m) * Power(b, k)}
<1>1. 0 \in T
  <2>1. Power(b, 0) = 1 /\ Power(b, m) \in Nat /\ m + 0 = m
    BY Powers
  <2> QED BY <2>1
<1>2. ASSUME NEW k \in T PROVE k + 1 \in T
  <2>1. m + (k + 1) = (m + k) + 1 /\ m + k \in Nat /\ k + 1 \in Nat /\ k \in Nat
    OBVIOUS
  <2>2. Power(b, (m + k) + 1) = b * Power(b, m + k) /\ Power(b, k + 1) = b * Power(b, k)
    BY <2>1, PowersArePositive
  <2>3. Power(b, m) \in Nat /\ Power(b, k) \in Nat
    BY <2>1, PowersArePositive
  <2>4. \A x, y \in Nat : b * (x * y) = x * (b * y)
    OBVIOUS
  <2> QED BY <2>1, <2>2, <2>3, <2>4
<1>3. n \in T
  <2>1. T \in SUBSET Nat
    OBVIOUS
  <2> HIDE DEF T
  <2> QED BY <1>1, <1>2, <2>1, SetInduction
<1> QED BY <1>3

\* A digit is below its base.
LEMMA DigitType ==
  ASSUME NEW b \in Nat \ {0}, NEW value \in Nat, NEW i \in Nat
  PROVE  Digit(value, i, b) \in 0..(b - 1)
<1>1. Power(b, i) \in Nat \ {0}
  BY PowersArePositive
<1>2. value \div Power(b, i) \in Int
  BY <1>1, Division
<1> QED BY <1>2, Division DEF Digit

\* The value of the first digits.
LEMMA ValueSteps ==
  ASSUME NEW b \in Nat \ {0}, NEW w \in Nat, NEW digits \in [1..w -> 0..(b - 1)]
  PROVE  \E f \in [0..w -> Nat] :
            /\ f[0] = 0 /\ ValueOf(digits, b) = f[w]
            /\ \A i \in 1..w : f[i] = f[i - 1] + digits[i] * Power(b, i - 1)
<1> DEFINE N == Nat
           zero == 0
           step == [z \in N \X (1..w) |-> z[1] + digits[z[2]] * Power(b, z[2] - 1)]
           F == CHOOSE f : f = [i \in {k \in Nat : k <= w} |->
                                   IF i = 0 THEN 0 ELSE f[i - 1] + digits[i] * Power(b, i - 1)]
<1>0. ASSUME NEW x \in Nat, NEW i \in 1..w PROVE x + digits[i] * Power(b, i - 1) \in Nat
  <2>1. i - 1 \in Nat /\ digits[i] \in Nat
    OBVIOUS
  <2>2. Power(b, i - 1) \in Nat
    BY <2>1, PowersArePositive
  <2>3. digits[i] * Power(b, i - 1) \in Nat
    BY <2>1, <2>2
  <2> QED BY <2>3
<1>1. step \in [N \X (1..w) -> N] /\ zero \in N
  BY <1>0
<1>2. PICK f \in [0..w -> N] : Follows(f, w, zero, step)
  <2> HIDE DEF N, zero, step
  <2> QED BY <1>1, StepsExist
<1>3. f = [i \in {k \in Nat : k <= w} |-> IF i = 0 THEN 0 ELSE f[i - 1] + digits[i] * Power(b, i - 1)]
  <2>1. ASSUME NEW i \in 0..w
        PROVE  f[i] = IF i = 0 THEN 0 ELSE f[i - 1] + digits[i] * Power(b, i - 1)
    <3>1. CASE i = 0
      BY <1>2, <3>1 DEF Follows
    <3>2. CASE i \in 1..w
      <4>1. <<f[i - 1], i>> \in N \X (1..w)
        BY <3>2
      <4>2. f[i] = step[<<f[i - 1], i>>]
        <5> HIDE DEF step, N
        <5> QED BY <1>2, <3>2 DEF Follows
      <4> QED BY <3>2, <4>1, <4>2
    <3> QED BY <3>1, <3>2
  <2>2. {k \in Nat : k <= w} = 0..w
    OBVIOUS
  <2> QED BY <2>1, <2>2
<1>4. F = [i \in {k \in Nat : k <= w} |-> IF i = 0 THEN 0 ELSE F[i - 1] + digits[i] * Power(b, i - 1)]
  BY <1>3
<1>5. ValueOf(digits, b) = F[w]
  <2>1. Len(digits) = w
    OBVIOUS
  <2> QED BY <2>1 DEF ValueOf, Run
<1> HIDE DEF F
<1>6. {k \in Nat : k <= w} = 0..w
  OBVIOUS
<1>7. F[0] = 0 /\ \A i \in 1..w : F[i] = F[i - 1] + digits[i] * Power(b, i - 1)
  BY <1>4
<1> DEFINE T == {j \in 0..w : F[j] \in Nat}
<1>8. \A i \in 0..w : i \in T
  <2>1. 0 \in T
    BY <1>7
  <2>2. ASSUME NEW i \in 1..w, i - 1 \in T PROVE i \in T
    <3>1. F[i - 1] + digits[i] * Power(b, i - 1) \in Nat
      BY <1>0, <2>2
    <3> QED BY <1>7, <3>1
  <2> HIDE DEF T
  <2> QED BY <2>1, <2>2, StepInduction
<1>9. F \in [0..w -> Nat]
  <2>1. \A i \in 0..w : F[i] \in Nat
    BY <1>8
  <2>2. DOMAIN F = 0..w /\ F = [i \in 0..w |-> F[i]]
    BY <1>4, <1>6
  <2> QED BY <2>1, <2>2
<1> QED BY <1>5, <1>7, <1>9

\* One more digit in front keeps a number below the next power.
LEMMA DigitStep ==
  ASSUME NEW b \in Nat \ {0}, NEW P \in Nat \ {0}, NEW x \in 0..(P - 1), NEW d \in 0..(b - 1)
  PROVE  x + d * P \in 0..(b * P - 1)
<1>1. d * P \in Nat /\ d * P <= (b - 1) * P
  OBVIOUS
<1>2. (b - 1) * P = b * P - P
  OBVIOUS
<1>3. b * P \in Nat
  OBVIOUS
<1> QED BY <1>1, <1>2, <1>3

\* A digit is its own remainder.
LEMMA SmallRemainder ==
  ASSUME NEW b \in Nat \ {0}, NEW d \in 0..(b - 1)
  PROVE  d % b = d
OBVIOUS

\* Dividing by the weight of the leading digit leaves it.
LEMMA LeadingDigit ==
  ASSUME NEW P \in Nat \ {0}, NEW x \in 0..(P - 1), NEW d \in Int
  PROVE  (x + d * P) \div P = d
<1>1. x + d * P = P * d + x
  OBVIOUS
<1> QED BY <1>1, DivisionIs

\* Digits further in front do not change a digit.
LEMMA ShiftedDigit ==
  ASSUME NEW b \in Nat \ {0}, NEW P \in Nat \ {0}, NEW x \in Nat, NEW c \in Nat, NEW d \in Nat
  PROVE  ((x + d * ((b * P) * c)) \div P) % b = (x \div P) % b
<1>1. x \div P \in Int /\ x % P \in 0..(P - 1) /\ x = P * (x \div P) + (x % P)
  BY Division
<1> DEFINE q == x \div P
           r == x % P
<1>2. PICK k \in Nat : k = d * c
  OBVIOUS
<1> HIDE DEF q, r
<1>3. d * ((b * P) * c) = P * (b * k)
  <2>1. d * ((b * P) * c) = P * (b * (d * c))
    OBVIOUS
  <2> QED BY <1>2, <2>1
<1>4. q \in Int /\ r \in 0..(P - 1) /\ x = P * q + r /\ x \div P = q
  BY <1>1 DEF q, r
<1>5. b * k \in Int /\ q + b * k \in Int
  BY <1>4
<1>6. x + P * (b * k) = P * (q + b * k) + r
  <2>1. \A y \in Int : P * (q + y) = P * q + P * y
    BY <1>4
  <2>2. P * q \in Int /\ P * (b * k) \in Int
    BY <1>4, <1>5
  <2> QED BY <1>4, <1>5, <2>1, <2>2
<1>7. (x + P * (b * k)) \div P = q + b * k
  BY <1>4, <1>5, <1>6, DivisionIs
<1>8. q = b * (q \div b) + (q % b) /\ q \div b \in Int /\ q % b \in 0..(b - 1)
  BY <1>4, Division
<1>9. q + b * k = b * ((q \div b) + k) + (q % b) /\ (q \div b) + k \in Int
  <2>1. \A y \in Int : b * (y + k) = b * y + b * k
    OBVIOUS
  <2>2. b * (q \div b) \in Int
    BY <1>8
  <2> QED BY <1>5, <1>8, <2>1, <2>2
<1>10. (q + b * k) % b = q % b
  BY <1>8, <1>9, DivisionIs
<1> QED BY <1>3, <1>4, <1>7, <1>10

\* A number has the digits it was put together from.
THEOREM DigitsOfValue ==
  ASSUME NEW b \in Nat \ {0}, NEW w \in Nat, NEW digits \in [1..w -> 0..(b - 1)]
  PROVE  /\ ValueOf(digits, b) \in 0..(Power(b, w) - 1)
         /\ \A i \in 1..w : Digit(ValueOf(digits, b), i - 1, b) = digits[i]
<1>1. PICK f \in [0..w -> Nat] :
         /\ f[0] = 0 /\ ValueOf(digits, b) = f[w]
         /\ \A i \in 1..w : f[i] = f[i - 1] + digits[i] * Power(b, i - 1)
  BY ValueSteps
<1>2. \A i \in 1..w : i - 1 \in Nat /\ Power(b, i - 1) \in Nat \ {0} /\ Power(b, i) = b * Power(b, i - 1)
  <2>1. \A i \in 1..w : i - 1 \in Nat /\ (i - 1) + 1 = i
    OBVIOUS
  <2> QED BY <2>1, PowersArePositive
<1> DEFINE T == {i \in 0..w : f[i] \in 0..(Power(b, i) - 1)}
<1>3. \A i \in 0..w : i \in T
  <2>1. 0 \in T
    BY <1>1, Powers
  <2>2. ASSUME NEW i \in 1..w, i - 1 \in T PROVE i \in T
    <3>1. f[i - 1] \in 0..(Power(b, i - 1) - 1)
      BY <2>2
    <3>2. f[i - 1] + digits[i] * Power(b, i - 1) \in 0..(b * Power(b, i - 1) - 1)
      BY <1>2, <3>1, DigitStep
    <3> QED BY <1>1, <1>2, <3>2
  <2> HIDE DEF T
  <2> QED BY <2>1, <2>2, StepInduction
<1>4. ASSUME NEW i \in 1..w PROVE Digit(f[w], i - 1, b) = digits[i]
  <2> DEFINE P == Power(b, i - 1)
             U == {k \in 0..w : k >= i => (f[k] \div P) % b = digits[i]}
  <2>0. P \in Nat \ {0} /\ Power(b, i) = b * P
    BY <1>2
  <2>1. 0 \in U
    OBVIOUS
  <2>2. ASSUME NEW k \in 1..w, k - 1 \in U PROVE k \in U
    <3>1. CASE k = i
      <4>1. f[k] = f[i - 1] + digits[i] * P
        BY <1>1, <3>1
      <4>2. i - 1 \in T
        <5> HIDE DEF T
        <5> QED BY <1>3
      <4>3. f[i - 1] \in 0..(P - 1)
        BY <4>2
      <4> HIDE DEF P, T, U
      <4>4. digits[i] \in 0..(b - 1) /\ digits[i] \in Int
        OBVIOUS
      <4>6. f[k] \div P = digits[i]
        <5>1. \A x \in 0..(P - 1), d \in Int : (x + d * P) \div P = d
          BY <2>0, LeadingDigit
        <5> QED BY <4>1, <4>3, <4>4, <5>1
      <4>7. digits[i] % b = digits[i]
        BY <4>4, SmallRemainder
      <4> QED BY <4>6, <4>7 DEF U
    <3>2. CASE k > i
      <4>1. (f[k - 1] \div P) % b = digits[i]
        BY <2>2, <3>2
      <4>2. f[k] = f[k - 1] + digits[k] * Power(b, k - 1)
        BY <1>1
      <4>3. PICK j \in Nat : k - 1 = i + j
        <5>1. k - 1 - i \in Nat /\ k - 1 = i + (k - 1 - i)
          BY <3>2
        <5> QED BY <5>1
      <4>4. Power(b, k - 1) = Power(b, i) * Power(b, j) /\ Power(b, j) \in Nat
        <5>1. i \in Nat
          OBVIOUS
        <5>2. Power(b, i + j) = Power(b, i) * Power(b, j)
          BY <5>1, PowerProduct
        <5> QED BY <4>3, <5>2, PowersArePositive
      <4>5. f[k] = f[k - 1] + digits[k] * ((b * P) * Power(b, j))
        BY <2>0, <4>2, <4>4
      <4>6. f[k - 1] \in Nat /\ digits[k] \in Nat
        OBVIOUS
      <4> HIDE DEF P, T, U
      <4>7. (f[k] \div P) % b = (f[k - 1] \div P) % b
        <5>1. \A x, c, d \in Nat : ((x + d * ((b * P) * c)) \div P) % b = (x \div P) % b
          BY <2>0, ShiftedDigit
        <5> QED BY <4>4, <4>5, <4>6, <5>1
      <4> QED BY <4>1, <4>7 DEF U
    <3>3. CASE k < i
      BY <3>3
    <3> QED BY <3>1, <3>2, <3>3
  <2>3. \A k \in 0..w : k \in U
    <3> HIDE DEF U
    <3> QED BY <2>1, <2>2, StepInduction
  <2>4. w \in U /\ w >= i
    <3> HIDE DEF U
    <3> QED BY <2>3
  <2> QED BY <2>4 DEF Digit
<1>5. f[w] \in 0..(Power(b, w) - 1)
  <2>1. w \in T
    <3> HIDE DEF T
    <3> QED BY <1>3
  <2> QED BY <2>1
<1> QED BY <1>1, <1>4, <1>5

\* The next digit is what the remainder by the next power has more.
LEMMA RemainderStep ==
  ASSUME NEW b \in Nat \ {0}, NEW P \in Nat \ {0}, NEW v \in Nat
  PROVE  (v % P) + ((v \div P) % b) * P = v % (b * P)
<1> DEFINE q == v \div P
           r == v % P
           p == q \div b
           s == q % b
<1>1. q \in Int /\ r \in 0..(P - 1) /\ v = P * q + r
  BY Division
<1>2. p \in Int /\ s \in 0..(b - 1) /\ q = b * p + s
  <2> HIDE DEF q
  <2> QED BY <1>1, Division
<1> HIDE DEF q, r, p, s
<1>3. r + s * P \in 0..(b * P - 1)
  BY <1>1, <1>2, DigitStep
<1>4. v = (b * P) * p + (r + s * P)
  <2>1. P * (b * p + s) = (b * P) * p + s * P
    BY <1>2
  <2>2. (b * P) * p \in Int /\ s * P \in Int
    BY <1>2
  <2> QED BY <1>1, <1>2, <2>1, <2>2
<1>5. b * P \in Nat \ {0}
  OBVIOUS
<1>6. v % (b * P) = r + s * P
  BY <1>2, <1>3, <1>4, <1>5, DivisionIs
<1> QED BY <1>6 DEF q, r, s

\* A number is the value of its digits, if they are enough.
THEOREM ValueOfDigits ==
  ASSUME NEW b \in Nat \ {0}, NEW w \in Nat, NEW v \in 0..(Power(b, w) - 1)
  PROVE  ValueOf([i \in 1..w |-> Digit(v, i - 1, b)], b) = v
<1> DEFINE digits == [i \in 1..w |-> Digit(v, i - 1, b)]
<1>0. v \in Nat /\ Power(b, w) \in Nat \ {0}
  BY PowersArePositive
<1>1. digits \in [1..w -> 0..(b - 1)]
  <2>1. \A i \in 1..w : i - 1 \in Nat
    OBVIOUS
  <2>2. \A i \in 1..w : Digit(v, i - 1, b) \in 0..(b - 1)
    BY <1>0, <2>1, DigitType
  <2> QED BY <2>2
<1>2. \A i \in 1..w : digits[i] = (v \div Power(b, i - 1)) % b
  BY DEF Digit
<1> HIDE DEF digits
<1>3. PICK f \in [0..w -> Nat] :
         /\ f[0] = 0 /\ ValueOf(digits, b) = f[w]
         /\ \A i \in 1..w : f[i] = f[i - 1] + digits[i] * Power(b, i - 1)
  BY <1>1, ValueSteps
<1> DEFINE T == {i \in 0..w : f[i] = v % Power(b, i)}
<1>4. \A i \in 0..w : i \in T
  <2>1. 0 \in T
    <3>1. Power(b, 0) = 1 /\ v % 1 = 0
      BY <1>0, Powers
    <3> QED BY <1>3, <3>1
  <2>2. ASSUME NEW i \in 1..w, i - 1 \in T PROVE i \in T
    <3>1. i - 1 \in Nat /\ (i - 1) + 1 = i /\ f[i - 1] = v % Power(b, i - 1)
      BY <2>2
    <3>2. Power(b, i - 1) \in Nat \ {0} /\ Power(b, i) = b * Power(b, i - 1)
      BY <3>1, PowersArePositive
    <3>3. (v % Power(b, i - 1)) + ((v \div Power(b, i - 1)) % b) * Power(b, i - 1)
             = v % (b * Power(b, i - 1))
      BY <1>0, <3>2, RemainderStep
    <3>4. f[i] = v % (b * Power(b, i - 1))
      BY <1>2, <1>3, <3>1, <3>3
    <3> QED BY <3>2, <3>4
  <2> HIDE DEF T
  <2> QED BY <2>1, <2>2, StepInduction
<1>5. f[w] = v % Power(b, w)
  <2>1. w \in T
    <3> HIDE DEF T
    <3> QED BY <1>4
  <2> QED BY <2>1
<1>6. v % Power(b, w) = v
  BY <1>0
<1> QED BY <1>3, <1>5, <1>6 DEF digits
=============================================================================
