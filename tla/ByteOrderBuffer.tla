-------------------------- MODULE ByteOrderBuffer --------------------------
(***************************************************************************)
(* Mernel::ByteOrderBuffer: bytes with a position to read from and one to  *)
(* write to.  A buffer is a record of the class's fields; every member     *)
(* function that changes it is an operator from buffer to buffer.  m_beg   *)
(* is left out: it points at the first byte of m_internal, which the       *)
(* buffer does not share here.                                             *)
(***************************************************************************)
EXTENDS Integers, Sequences

\* A byte of which only the value zero means something to the buffer.
ByteArray(Byte) == Seq(Byte)

Buffer(Byte) ==
    [m_internal : ByteArray(Byte), m_size : Nat, m_posRead : Nat, m_posWrite : Nat,
     m_eofRead : BOOLEAN, m_resizeEnabled : BOOLEAN]

\* The storage is as long as the size says, and nothing is written beyond it.
BufferOK(b, Byte) ==
    /\ b \in Buffer(Byte)
    /\ b.m_size = Len(b.m_internal)
    /\ b.m_posWrite <= b.m_size

NewBuffer(holder) ==
    [m_internal |-> holder, m_size |-> Len(holder), m_posRead |-> 0, m_posWrite |-> 0,
     m_eofRead |-> FALSE, m_resizeEnabled |-> TRUE]

SetResizeEnabled(b, state) == [b EXCEPT !.m_resizeEnabled = state]

RemainRead(b) == b.m_size - b.m_posRead
RemainWrite(b) == b.m_size - b.m_posWrite

-----------------------------------------------------------------------------
(* Positions.                                                              *)

ResetReadKeepsEof(b) == [b EXCEPT !.m_posRead = 0]  \* slip: m_eofRead stays set
ResetRead(b) == [b EXCEPT !.m_posRead = 0, !.m_eofRead = FALSE]
ResetWrite(b) == [b EXCEPT !.m_posWrite = 0]
Reset(b) == ResetWrite(ResetRead(b))

SetOffsetWrite(b, offset) == [b EXCEPT !.m_posWrite = offset]

MarkRead(b, n) == [b EXCEPT !.m_posRead = @ + n]
MarkWrite(b, n) == [b EXCEPT !.m_posWrite = @ + n]

\* posRead(n) returns a pointer if n bytes are left; otherwise it throws, and m_eofRead
\* stays set until the read position is reset.
MayRead(b, n) == b.m_posRead + n <= b.m_size
EofReached(b) == [b EXCEPT !.m_eofRead = TRUE]
Remaining(b, n) == SubSeq(b.m_internal, b.m_posRead + 1, b.m_posRead + n)

-----------------------------------------------------------------------------
(* Size.                                                                   *)

\* std::vector::resize: the first n bytes, zeroes after them.
Resized(bytes, n) == [i \in 1..n |-> IF i <= Len(bytes) THEN bytes[i] ELSE 0]

SetMaximumSize(b, n) ==
    [b EXCEPT !.m_internal = Resized(@, n), !.m_size = IF n = 0 THEN 0 ELSE @]

\* setSize when resizing is enabled (it does nothing otherwise).  A position that falls
\* behind the end goes back to the START.
SetSize(b, n) ==
    LET sized == [IF n # b.m_size THEN SetMaximumSize(b, n) ELSE b EXCEPT !.m_size = n]
        read == IF RemainRead(sized) < 0 THEN ResetRead(sized) ELSE sized
    IN  IF ~b.m_resizeEnabled THEN b
        ELSE IF RemainWrite(read) < 0 THEN ResetWrite(read) ELSE read

\* posWrite(n) makes room for n bytes, if it may.
MayWrite(b, n) == RemainWrite(b) >= n \/ b.m_resizeEnabled
PosWrite(b, n) ==
    IF RemainWrite(b) < n THEN SetSize(b, b.m_size + n - RemainWrite(b)) ELSE b

\* memcpy to the pointer posWrite returned.
Overwrite(b, bytes) ==
    [b EXCEPT !.m_internal = [i \in DOMAIN @ |->
        IF i - b.m_posWrite \in DOMAIN bytes THEN bytes[i - b.m_posWrite] ELSE @[i]]]

NotBelowZero(offset) == IF offset < 0 THEN 0 ELSE offset

\* Unlike setSize this shrinks a buffer that may not be resized, too.
RemoveFromStart(b, n) ==
    IF n = 0 THEN b
    ELSE IF n >= b.m_size THEN SetSize(b, 0)
    ELSE [b EXCEPT !.m_internal = SubSeq(@, n + 1, Len(@)), !.m_size = @ - n,
                   !.m_posRead = NotBelowZero(@ - n), !.m_posWrite = NotBelowZero(@ - n)]
=============================================================================
