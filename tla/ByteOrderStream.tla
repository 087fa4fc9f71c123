-------------------------- MODULE ByteOrderStream --------------------------
(***************************************************************************)
(* Mernel::ByteOrderDataStreamWriter and ...Reader: scalars in any byte    *)
(* order, strings, containers and bit arrays, written to and read from a   *)
(* ByteOrderBuffer.  A stream is its buffer, its protocol mask, its        *)
(* m_containerSizeBytes and its user data; ok turns FALSE when an          *)
(* exception is thrown, after which the calls that follow in the same      *)
(* expression do nothing; got is what the last read returned.  The host is *)
(* little-endian.                                                          *)
(***************************************************************************)
EXTENDS ByteOrderBuffer, FiniteSets, FiniteSetsExt

CONSTANT Bits  \* in a byte: 8; TLC uses fewer to have fewer and smaller numbers

ASSUME BitsAssumption == Bits \in Nat \ {0}

\* What n steps come to.
Run(Step(_, _), first, n) ==
    LET after[i \in {k \in Nat : k <= n}] ==
            IF i = 0 THEN first ELSE Step(after[i - 1], i)
    IN  after[n]

\* base ^ n, of which no prover here knows anything.
Power(base, n) == Run(LAMBDA power, i : base * power, 1, n)

\* The digit of weight base ^ i of a number, and the number with these digits.
Digit(value, i, base) == (value \div Power(base, i)) % base
ValueOf(digits, base) == Run(LAMBDA sum, i : sum + digits[i] * Power(base, i - 1), 0, Len(digits))

Base == Power(2, Bits)
Byte == 0..(Base - 1)

DefaultSizeBytes == 4

NewStream(buf, mask) ==
    [buf |-> buf, mask |-> mask, containerSizeBytes |-> DefaultSizeBytes,
     m_userData |-> FALSE, ok |-> TRUE, got |-> << >>]

\* The program's own data, which a stream hands to the functions that write and read the
\* program's types; of these only a flag.
SetUserData(s, userData) == [s EXCEPT !.m_userData = userData]
UserData(s) == s.m_userData

Throw(s) == [s EXCEPT !.ok = FALSE]

\* createByteorderMask: bit 0 orders bytes, bit 1 words, bit 2 dwords.
s_littleEndian == 0
s_bigEndian == 7

\* What a stream keeps of the protocol mask: m_maskInt8, ..., m_maskInt64, and for floats
\* and doubles those of their width.
SetMask(protocolMask) ==
    [width \in {1, 2, 4, 8} |-> IF width = 1 THEN 0 ELSE (protocolMask % 8) % width]

\* getTypeMask<T>(), by the width of the type.
TypeMask(mask, width) == SetMask(mask)[width]

\* Exclusive or of numbers below 8.
Xor(a, b) ==
    ((a + b) % 2) + 2 * (((a \div 2) + (b \div 2)) % 2)
                  + 4 * (((a \div 4) + (b \div 4)) % 2)

-----------------------------------------------------------------------------
(* Writing.                                                                *)

WriteBlock(s, bytes) ==
    LET n == Len(bytes)
    IN  IF ~s.ok THEN s
        ELSE IF ~MayWrite(s.buf, n) THEN Throw(s)
        ELSE [s EXCEPT !.buf = MarkWrite(Overwrite(PosWrite(@, n), bytes), n)]

\* The host holds the byte of weight Base ^ i at index i of a scalar.
HostByte(value, i) == Digit(value, i, Base)

WriteScalar(s, value, width) ==
    WriteBlock(s, [i \in 1..width |-> HostByte(value, Xor(TypeMask(s.mask, width), i - 1))])

\* Sizes that do not fit are refused before anything is written.
WriteSize(s, size) ==
    IF size >= Power(Base, s.containerSizeBytes) THEN Throw(s)
    ELSE WriteScalar(s, size, s.containerSizeBytes)

WriteString(s, str) == WriteBlock(WriteSize(s, Len(str)), str)

\* A std::vector of strings, and a std::deque of uint16_t.
WriteVector(s, strings) ==
    Run(LAMBDA t, i : WriteString(t, strings[i]), WriteSize(s, Len(strings)), Len(strings))

WriteDeque(s, numbers) ==
    Run(LAMBDA t, i : WriteScalar(t, numbers[i], 2), WriteSize(s, Len(numbers)), Len(numbers))

\* A std::map from bytes to strings, in the order of its keys.
WriteMap(s, map) ==
    LET writeEntry(t, i) == IF i - 1 \in DOMAIN map
                            THEN WriteString(WriteScalar(t, i - 1, 1), map[i - 1]) ELSE t
    IN  Run(writeEntry, WriteSize(s, Cardinality(DOMAIN map)), Base)

\* A std::array of bytes has no size in front of it.
WriteArray(s, array) == WriteBlock(s, array)

\* writeToOffset: over what was written before, wherever the write position is.
WriteToOffset(s, value, width, offset) ==
    LET byte(i) == HostByte(value, Xor(TypeMask(s.mask, width), i - 1))
    IN  IF ~s.ok THEN s
        ELSE [s EXCEPT !.buf.m_internal = [i \in DOMAIN @ |->
                 IF i - offset \in 1..width THEN byte(i - offset) ELSE @[i]]]

\* writeStringWithGarbagePadding: a string in a field of size bytes, and what to keep of
\* the bytes behind its end.  The test lets a garbage through whose last byte does not
\* fit, because of the zero in front of it.
WriteField(s, str, garbage, size) ==
    LET byte(i) == IF i <= Len(str) THEN str[i]
                   ELSE IF i - Len(str) - 1 \in DOMAIN garbage THEN garbage[i - Len(str) - 1]
                   ELSE 0
    IN  IF Len(str) + Len(garbage) > size THEN Throw(s)
        ELSE WriteBlock(s, [i \in 1..size |-> byte(i)])

ZeroPadding(s, count) == WriteBlock(s, [i \in 1..count |-> 0])

ByteCount(bitCount) == (bitCount + Bits - 1) \div Bits

\* The index in a bit array of the bit that is written or read as number j, from 0.
BitIndex(j, bitCount, inverse) == IF inverse THEN bitCount - j ELSE j + 1

WriteBits(s, bitArray, invert, inverse) ==
    LET flag(j) == IF j >= Len(bitArray) THEN 0
                   ELSE (bitArray[BitIndex(j, Len(bitArray), inverse)] + invert) % 2
        mask(byte) == ValueOf([bit \in 1..Bits |-> flag((byte - 1) * Bits + bit - 1)], 2)
    IN  Run(LAMBDA t, byte : WriteScalar(t, mask(byte), 1), s, ByteCount(Len(bitArray)))

-----------------------------------------------------------------------------
(* Reading.                                                                *)

ReadBlock(s, n) ==
    IF ~s.ok THEN s
    ELSE IF ~MayRead(s.buf, n) THEN Throw([s EXCEPT !.buf = EofReached(@)])
    ELSE [s EXCEPT !.buf = MarkRead(@, n), !.got = Remaining(s.buf, n)]

ReadScalar(s, width) ==
    LET r == ReadBlock(s, width)
        data(i) == r.got[Xor(TypeMask(s.mask, width), i - 1) + 1]
    IN  IF ~r.ok THEN r ELSE [r EXCEPT !.got = ValueOf([i \in 1..width |-> data(i)], Base)]

\* A size beyond the remaining BYTES is refused, whatever the elements are.
ReadSize(s) ==
    LET checked(r) == IF r.ok /\ r.got > RemainRead(r.buf) THEN Throw(r) ELSE r
    IN  checked(ReadScalar(s, s.containerSizeBytes))

\* After an end of file that was caught and not reset, a string reads as empty and its
\* characters are left to whatever is read next.
ReadString(s) ==
    LET characters(r) == IF ~r.ok THEN r
                         ELSE IF r.buf.m_eofRead THEN [r EXCEPT !.got = << >>]
                         ELSE ReadBlock(r, r.got)
    IN  characters(ReadSize(s))

\* readStringWithGarbagePadding: the characters before the first zero, and the bytes
\* after it without the zeroes they end with.  Without a byte after it the garbage stays
\* what it was before.
ReadField(s, size, garbage) ==
    LET r == ReadBlock(s, size)
        length == Min({i \in 0..size : i = size \/ r.got[i + 1] = 0})
        last == Max({length + 1} \cup {i \in (length + 2)..size : r.got[i] # 0})
    IN  IF ~r.ok THEN [r EXCEPT !.got = [str |-> << >>, garbage |-> garbage]]
        ELSE [r EXCEPT !.got =
                 [str |-> SubSeq(@, 1, length),
                  garbage |-> IF length < size - 1 THEN SubSeq(@, length + 2, last)
                              ELSE garbage]]

\* count reads in a row: the stream after them, its got the sequence of what was read.
ReadElements(s, count, Read(_)) ==
    LET withElement(elements, r) == [stream |-> r, elements |-> Append(elements, r.got)]
        next(t, i) == withElement(t.elements, Read(t.stream))
        all(t) == [t.stream EXCEPT !.got = t.elements]
    IN  all(Run(next, [stream |-> s, elements |-> << >>], count))

ReadVector(s) ==
    LET r == ReadSize(s) IN IF r.ok THEN ReadElements(r, r.got, ReadString) ELSE r

ReadDeque(s) ==
    LET r == ReadSize(s)
        readNumber(t) == ReadScalar(t, 2)
    IN  IF r.ok THEN ReadElements(r, r.got, readNumber) ELSE r

ReadArray(s, size) == ReadBlock(s, size)

ReadByte(s) == ReadScalar(s, 1)

WithEntry(map, key, value) == [k \in DOMAIN map \cup {key} |-> IF k = key THEN value ELSE map[k]]

\* Entries are added to the map that is there, which is not cleared; those read before an
\* exception stay in it.
ReadMap(s, map) ==
    LET r == ReadSize(s)
        withEntry(t, key, value) ==
            [stream |-> value,
             map |-> IF value.ok THEN WithEntry(t.map, key.got, value.got) ELSE t.map]
        readEntry(t, i) ==
            LET key == ReadByte(t.stream) IN withEntry(t, key, ReadString(key))
        count == IF r.ok THEN r.got ELSE 0
        t == Run(readEntry, [stream |-> r, map |-> map], count)
    IN  [t.stream EXCEPT !.got = t.map]

ReadZero(s) ==
    LET r == ReadByte(s) IN IF r.ok /\ r.got # 0 THEN Throw(r) ELSE r

\* zeroPadding: the position moves on, behind the end of the buffer if need be.
SkipPadding(s, count) == IF s.ok THEN [s EXCEPT !.buf = MarkRead(@, count)] ELSE s

ReadPadding(s, count, check) ==
    IF check THEN ReadElements(s, count, ReadZero) ELSE SkipPadding(s, count)

ReadBits(s, bitCount, invert, inverse) ==
    LET r == ReadElements(s, ByteCount(bitCount), ReadByte)
        flag(j) == Digit(r.got[j \div Bits + 1], j % Bits, 2)
    IN  IF ~r.ok THEN r
        ELSE [r EXCEPT !.got = [i \in 1..bitCount |->
                 (flag(IF inverse THEN bitCount - i ELSE i - 1) + invert) % 2]]

-----------------------------------------------------------------------------
(* The guard of m_containerSizeBytes.                                      *)

ReleaseUnlessThrown(s, prevSize) ==  \* slip: an exception skips the destructor
    IF s.ok THEN [s EXCEPT !.containerSizeBytes = prevSize] ELSE s

\* ~SizeGuard: the width that was in force before is restored, on an exception too.
Release(s, prevSize) == [s EXCEPT !.containerSizeBytes = prevSize]

\* A block under setContainerSizeBytesGuarded(size).
Guarded(s, size, Use(_)) ==
    Release(Use([s EXCEPT !.containerSizeBytes = size]), s.containerSizeBytes)
=============================================================================
