------------------------ MODULE MessageStreamProofs ------------------------
(***************************************************************************)
(* Theorems about MessageStream for messages, widths and fields of any     *)
(* size, any number of messages and any choice of what the transport       *)
(* carries at a time.  Writing is shown to produce the bytes of Wire, and  *)
(* reading to tell a message from them, part by part; then the bytes in    *)
(* the two buffers are followed through the steps of the three programs.   *)
(***************************************************************************)
EXTENDS MessageStream, ByteOrderProofs, FiniteSetTheorems, TLAPS

-----------------------------------------------------------------------------
(* Sequences of bytes.                                                     *)

\* a \o c, which the provers would otherwise take to pieces wherever they see it.
Join(a, c) == a \o c

\* Two sequences one behind the other: the type, the length and the elements.
LEMMA JoinType ==
  ASSUME NEW V, NEW a \in Seq(V), NEW c \in Seq(V)
  PROVE  /\ Join(a, c) \in Seq(V) /\ Len(Join(a, c)) = Len(a) + Len(c)
         /\ \A i \in 1..Len(a) : Join(a, c)[i] = a[i]
         /\ \A i \in 1..Len(c) : Join(a, c)[Len(a) + i] = c[i]
BY DEF Join

\* Nothing before or behind a sequence leaves it what it is.
LEMMA JoinNothing ==
  ASSUME NEW V, NEW a \in Seq(V)
  PROVE  Join(a, << >>) = a /\ Join(<< >>, a) = a
BY DEF Join

\* It does not matter which of three sequences are put together first.
LEMMA JoinAssociative ==
  ASSUME NEW V, NEW a \in Seq(V), NEW c \in Seq(V), NEW d \in Seq(V)
  PROVE  Join(a, Join(c, d)) = Join(Join(a, c), d)
BY DEF Join

\* Sequences of the same length with the same elements are the same.
LEMMA SameSequence ==
  ASSUME NEW V, NEW a \in Seq(V), NEW c \in Seq(V), Len(a) = Len(c), \A i \in 1..Len(a) : a[i] = c[i]
  PROVE  a = c
OBVIOUS

\* f are the concatenations of the first codes.
Concats(f, codes, n) ==
    f[0] = << >> /\ Concat(codes) = f[n] /\ \A i \in 1..n : f[i] = Join(f[i - 1], codes[i])

\* Concat puts one code after the other behind what it has.
LEMMA ConcatSteps ==
  ASSUME NEW V, NEW n \in Nat, NEW codes \in [1..n -> Seq(V)]
  PROVE  \E f \in [0..n -> Seq(V)] : Concats(f, codes, n)
<1> DEFINE N == Seq(V)
           none == << >>
           step == [z \in N \X (1..n) |-> Join(z[1], codes[z[2]])]
           F == CHOOSE f : f = [i \in {k \in Nat : k <= n} |-> IF i = 0 THEN << >>
             ELSE Join(f[i - 1], codes[i])]
<1>0. \A x \in Seq(V), i \in 1..n : Join(x, codes[i]) \in Seq(V)
  BY JoinType
<1>1. step \in [N \X (1..n) -> N] /\ none \in N
  BY <1>0
<1>2. PICK f \in [0..n -> N] : Follows(f, n, none, step)
  <2> HIDE DEF N, none, step
  <2> QED BY <1>1, StepsExist
<1>3. f = [i \in {k \in Nat : k <= n} |-> IF i = 0 THEN << >> ELSE Join(f[i - 1], codes[i])]
  <2>1. ASSUME NEW i \in 0..n
        PROVE  f[i] = IF i = 0 THEN << >> ELSE Join(f[i - 1], codes[i])
    <3>1. CASE i = 0
      BY <1>2, <3>1 DEF Follows
    <3>2. CASE i \in 1..n
      <4>1. <<f[i - 1], i>> \in N \X (1..n)
        BY <3>2
      <4>2. f[i] = step[<<f[i - 1], i>>]
        <5> HIDE DEF step, N
        <5> QED BY <1>2, <3>2 DEF Follows
      <4> QED BY <3>2, <4>1, <4>2
    <3> QED BY <3>1, <3>2
  <2>2. {k \in Nat : k <= n} = 0..n
    OBVIOUS
  <2> QED BY <2>1, <2>2
<1>4. F = [i \in {k \in Nat : k <= n} |-> IF i = 0 THEN << >> ELSE Join(F[i - 1], codes[i])]
  BY <1>3
<1>5. Concat(codes) = F[n]
  <2>1. Len(codes) = n
    OBVIOUS
  <2> QED BY <2>1, Zenon DEF Concat, Run, Join
<1> HIDE DEF F
<1>6. {k \in Nat : k <= n} = 0..n
  OBVIOUS
<1>7. F[0] = << >> /\ \A i \in 1..n : F[i] = Join(F[i - 1], codes[i])
  BY <1>4
<1> DEFINE T == {j \in 0..n : F[j] \in Seq(V)}
<1>8. \A i \in 0..n : i \in T
  <2>1. 0 \in T
    <3>1. F[0] \in Seq(V)
      BY <1>7
    <3> QED BY <3>1
  <2>2. ASSUME NEW i \in 1..n, i - 1 \in T PROVE i \in T
    <3>1. Join(F[i - 1], codes[i]) \in Seq(V)
      BY <1>0, <2>2
    <3> QED BY <1>7, <3>1
  <2> HIDE DEF T
  <2> QED BY <2>1, <2>2, StepInduction
<1>9. F \in [0..n -> Seq(V)]
  <2>1. \A i \in 0..n : F[i] \in Seq(V)
    BY <1>8
  <2>2. DOMAIN F = 0..n /\ F = [i \in 0..n |-> F[i]]
    BY <1>4, <1>6
  <2> QED BY <2>1, <2>2
<1> QED BY <1>5, <1>7, <1>9 DEF Concats

\* No codes are no bytes.
LEMMA ConcatOfNothing == Concat(<< >>) = << >>
<1> DEFINE none == << >>
<1>1. none \in [1..0 -> Seq({})] /\ 0 \in Nat
  OBVIOUS
<1> HIDE DEF none
<1>2. PICK f \in [0..0 -> Seq({})] : Concats(f, none, 0)
  BY <1>1, ConcatSteps
<1>20. f[0] = << >> /\ Concat(none) = f[0] /\ \A i \in 1..0 : f[i] = Join(f[i - 1], none[i])
  BY <1>2 DEF Concats
<1> QED BY <1>20 DEF none

\* g are the codes one behind the other.
Joins(g, codes, n) == g[0] = << >> /\ \A i \in 1..n : g[i] = Join(g[i - 1], codes[i])

\* The codes that follow each other one by one lead to their concatenation.
LEMMA ConcatIs ==
  ASSUME NEW V, NEW n \in Nat, NEW codes \in [1..n -> Seq(V)], NEW g,
         Joins(g, codes, n)
  PROVE  Concat(codes) = g[n]
<1>1. PICK f \in [0..n -> Seq(V)] : Concats(f, codes, n)
  BY ConcatSteps
<1>10. f[0] = << >> /\ Concat(codes) = f[n] /\ \A i \in 1..n : f[i] = Join(f[i - 1], codes[i])
  BY <1>1 DEF Concats
<1> DEFINE T == {i \in 0..n : f[i] = g[i]}
<1>2. \A i \in 0..n : i \in T
  <2>1. 0 \in T
    BY <1>10 DEF Joins
  <2>2. ASSUME NEW i \in 1..n, i - 1 \in T PROVE i \in T
    <3>1. f[i - 1] = g[i - 1]
      BY <2>2
    <3>2. f[i] = Join(f[i - 1], codes[i]) /\ g[i] = Join(g[i - 1], codes[i])
      BY <1>10 DEF Joins
    <3> QED BY <3>1, <3>2
  <2> HIDE DEF T
  <2> QED BY <2>1, <2>2, StepInduction
<1>3. n \in T
  <2> HIDE DEF T
  <2> QED BY <1>2
<1> QED BY <1>10, <1>3

\* Codes in a row are a sequence again.
LEMMA ConcatType ==
  ASSUME NEW V, NEW n \in Nat, NEW codes \in [1..n -> Seq(V)]
  PROVE  Concat(codes) \in Seq(V)
<1>1. PICK f \in [0..n -> Seq(V)] : Concats(f, codes, n)
  BY ConcatSteps
<1>10. f[0] = << >> /\ Concat(codes) = f[n] /\ \A i \in 1..n : f[i] = Join(f[i - 1], codes[i])
  BY <1>1 DEF Concats
<1>2. n \in 0..n
  OBVIOUS
<1> QED BY <1>10, <1>2

\* One more code goes behind the others.
LEMMA ConcatAppend ==
  ASSUME NEW V, NEW codes \in Seq(Seq(V)), NEW code \in Seq(V)
  PROVE  Concat(Append(codes, code)) = Join(Concat(codes), code)
<1> DEFINE n == Len(codes)
<1>1. n \in Nat /\ codes \in [1..n -> Seq(V)]
  OBVIOUS
<1>2. PICK f \in [0..n -> Seq(V)] : Concats(f, codes, n)
  BY <1>1, ConcatSteps
<1>20. f[0] = << >> /\ Concat(codes) = f[n] /\ \A i \in 1..n : f[i] = Join(f[i - 1], codes[i])
  BY <1>2 DEF Concats
<1> DEFINE all == Append(codes, code)
           g == [i \in 0..(n + 1) |-> IF i <= n THEN f[i] ELSE Join(f[n], code)]
<1>3. all \in [1..(n + 1) -> Seq(V)] /\ all[n + 1] = code /\ \A i \in 1..n : all[i] = codes[i]
  <2> DEFINE W == Seq(V)
  <2>1. codes \in Seq(W) /\ code \in W
    OBVIOUS
  <2> HIDE DEF W
  <2>2. /\ Append(codes, code) \in Seq(W) /\ Len(Append(codes, code)) = n + 1
        /\ Append(codes, code)[n + 1] = code /\ \A i \in 1..n : Append(codes, code)[i] = codes[i]
    BY <2>1
  <2>3. \A a \in Seq(W) : a \in [1..Len(a) -> W]
    OBVIOUS
  <2> HIDE DEF all
  <2>4. all \in Seq(W) /\ Len(all) = n + 1
    BY <2>2 DEF all
  <2> QED BY <2>2, <2>3, <2>4 DEF W, all
<1>4. g[0] = << >> /\ g[n + 1] = Join(f[n], code)
  BY <1>1, <1>20
<1>5. ASSUME NEW i \in 1..(n + 1) PROVE g[i] = Join(g[i - 1], all[i])
  <2>1. CASE i \in 1..n
    <3>1. g[i] = f[i] /\ g[i - 1] = f[i - 1]
      BY <1>1, <2>1
    <3> HIDE DEF g, all
    <3> QED BY <1>20, <1>3, <2>1, <3>1
  <2>2. CASE i = n + 1
    <3>1. i - 1 = n /\ n \in 0..(n + 1) /\ n <= n
      BY <1>1, <2>2
    <3>2. g[i - 1] = f[n]
      BY <3>1
    <3> HIDE DEF g, all
    <3> QED BY <1>3, <1>4, <2>2, <3>2
  <2> QED BY <1>1, <2>1, <2>2
<1> HIDE DEF g, all
<1>6. Concat(all) = g[n + 1]
  <2>1. n + 1 \in Nat
    BY <1>1
  <2> HIDE DEF n
  <2>2. Joins(g, all, n + 1)
    BY <1>4, <1>5 DEF Joins
  <2> QED BY <1>3, <2>1, <2>2, ConcatIs
<1> QED BY <1>20, <1>4, <1>6 DEF all

\* The first code goes before the others.
LEMMA ConcatHead ==
  ASSUME NEW V, NEW n \in Nat, NEW codes \in [1..(n + 1) -> Seq(V)], NEW rest \in [1..n -> Seq(V)],
         \A i \in 1..n : rest[i] = codes[i + 1]
  PROVE  Concat(codes) = Join(codes[1], Concat(rest))
<1>1. PICK f \in [0..n -> Seq(V)] : Concats(f, rest, n)
  BY ConcatSteps
<1>10. f[0] = << >> /\ Concat(rest) = f[n] /\ \A i \in 1..n : f[i] = Join(f[i - 1], rest[i])
  BY <1>1 DEF Concats
<1> DEFINE g == [i \in 0..(n + 1) |-> IF i = 0 THEN << >> ELSE Join(codes[1], f[i - 1])]
<1>2. g[0] = << >> /\ g[n + 1] = Join(codes[1], f[n])
  OBVIOUS
<1>3. ASSUME NEW i \in 1..(n + 1) PROVE g[i] = Join(g[i - 1], codes[i])
  <2>1. CASE i = 1
    <3>1. g[1] = Join(codes[1], << >>) /\ g[0] = << >>
      BY <1>10
    <3>2. codes[1] \in Seq(V)
      OBVIOUS
    <3> HIDE DEF g
    <3> QED BY <2>1, <3>1, <3>2, JoinNothing
  <2>2. CASE i # 1
    <3>1. i - 1 \in 1..n /\ (i - 1) + 1 = i /\ i - 1 \in 0..(n + 1) /\ i - 1 # 0 /\ i # 0
      BY <2>2
    <3>2. g[i] = Join(codes[1], f[i - 1]) /\ g[i - 1] = Join(codes[1], f[(i - 1) - 1])
      BY <3>1
    <3> HIDE DEF g
    <3>3. f[i - 1] = Join(f[(i - 1) - 1], codes[i])
      BY <1>10, <3>1
    <3>4. f[(i - 1) - 1] \in Seq(V) /\ codes[i] \in Seq(V) /\ codes[1] \in Seq(V)
      BY <3>1
    <3> QED BY <3>2, <3>3, <3>4, JoinAssociative
  <2> QED BY <2>1, <2>2
<1> HIDE DEF g
<1>4. Concat(codes) = g[n + 1]
  <2>1. n + 1 \in Nat
    OBVIOUS
  <2>2. Joins(g, codes, n + 1)
    BY <1>2, <1>3 DEF Joins
  <2> QED BY <2>1, <2>2, ConcatIs
<1> QED BY <1>10, <1>2, <1>4

\* What consists of single bytes.
LEMMA ConcatSingles ==
  ASSUME NEW V, NEW bytes \in Seq(V), NEW codes \in [1..Len(bytes) -> Seq(V)],
         \A i \in 1..Len(bytes) : codes[i] = <<bytes[i]>>
  PROVE  Concat(codes) = bytes
<1> DEFINE n == Len(bytes)
           g == [i \in 0..n |-> SubSeq(bytes, 1, i)]
<1>1. n \in Nat
  OBVIOUS
<1>2. g[0] = << >> /\ g[n] = bytes
  OBVIOUS
<1>3. ASSUME NEW i \in 1..n PROVE g[i] = Join(g[i - 1], codes[i])
  <2>1. g[i] = SubSeq(bytes, 1, i) /\ g[i - 1] = SubSeq(bytes, 1, i - 1)
    OBVIOUS
  <2>2. SubSeq(bytes, 1, i) = Join(SubSeq(bytes, 1, i - 1), <<bytes[i]>>)
    BY DEF Join
  <2> HIDE DEF g
  <2> QED BY <2>1, <2>2
<1> HIDE DEF g
<1>4. Concat(codes) = g[n]
  <2> HIDE DEF n
  <2>1. codes \in [1..n -> Seq(V)]
    BY DEF n
  <2>2. Joins(g, codes, n)
    BY <1>2, <1>3 DEF Joins
  <2> QED BY <1>1, <2>1, <2>2, ConcatIs
<1> QED BY <1>2, <1>4

-----------------------------------------------------------------------------
(* Streams.                                                                *)

\* The streams with the agreed mask whose last value is in G.  An end of file has always
\* been thrown.
Streams(G) ==
    {s \in [buf : Buffer(Byte), mask : {mask}, containerSizeBytes : {1, DefaultSizeBytes},
            m_userData : BOOLEAN, ok : BOOLEAN, got : G] :
        BufferOK(s.buf, Byte) /\ (s.ok => ~s.buf.m_eofRead)}

\* What stands before the write position.
Before(b) == SubSeq(b.m_internal, 1, b.m_posWrite)

\* A stream to write to.
Writing(s) == s \in Streams({s.got}) /\ s.buf.m_posRead <= s.buf.m_posWrite

\* What writing does not change.
WritesOn(s, t) ==
    /\ t \in Streams({s.got})
    /\ t.containerSizeBytes = s.containerSizeBytes /\ t.m_userData = s.m_userData
    /\ t.buf.m_posRead = s.buf.m_posRead /\ t.buf.m_eofRead = s.buf.m_eofRead
    /\ t.buf.m_resizeEnabled = s.buf.m_resizeEnabled
    /\ ~s.buf.m_resizeEnabled => t.buf.m_size = s.buf.m_size
    /\ s.buf.m_posWrite <= t.buf.m_posWrite
    /\ s.buf.m_posWrite = s.buf.m_size /\ s.buf.m_resizeEnabled => t.buf.m_posWrite = t.buf.m_size
    /\ \A i \in 1..s.buf.m_posWrite : t.buf.m_internal[i] = s.buf.m_internal[i]

\* From s to t a code was written, or, if it does not fit, an exception was thrown.
Writes(s, t, code, fits) ==
    /\ WritesOn(s, t)
    /\ t.ok <=> (s.ok /\ fits /\ MayWrite(s.buf, Len(code)))
    /\ t.ok => Before(t.buf) = Join(Before(s.buf), code)

\* The fields of a stream and of its buffer.
LEMMA StreamFields ==
  ASSUME NEW G, NEW s \in Streams(G)
  PROVE  /\ s.buf \in Buffer(Byte) /\ BufferOK(s.buf, Byte) /\ s.mask = mask
         /\ s.containerSizeBytes \in {1, 4} /\ s.m_userData \in BOOLEAN /\ s.ok \in BOOLEAN /\ s.got \in G
         /\ s.ok => ~s.buf.m_eofRead
         /\ s.buf.m_internal \in Seq(Byte) /\ s.buf.m_size = Len(s.buf.m_internal)
         /\ s.buf.m_size \in Nat /\ s.buf.m_posRead \in Nat /\ s.buf.m_posWrite \in Nat
         /\ s.buf.m_posWrite <= s.buf.m_size
         /\ s.buf.m_eofRead \in BOOLEAN /\ s.buf.m_resizeEnabled \in BOOLEAN
BY DEF Streams, BufferOK, Buffer, ByteArray, DefaultSizeBytes

\* A stream is known by its last value.
LEMMA StreamIs ==
  ASSUME NEW G, NEW H, NEW s \in Streams(G), s.got \in H
  PROVE  s \in Streams(H)
BY DEF Streams

\* A stream with another buffer in order is a stream.
LEMMA WithBuffer ==
  ASSUME NEW G, NEW s \in Streams(G), NEW b, BufferOK(b, Byte), s.ok => ~b.m_eofRead
  PROVE  /\ [s EXCEPT !.buf = b] \in Streams(G)
         /\ [s EXCEPT !.buf = b].buf = b
         /\ [s EXCEPT !.buf = b].ok = s.ok
         /\ [s EXCEPT !.buf = b].got = s.got
         /\ [s EXCEPT !.buf = b].mask = s.mask
         /\ [s EXCEPT !.buf = b].containerSizeBytes = s.containerSizeBytes
         /\ [s EXCEPT !.buf = b].m_userData = s.m_userData
<1>1. b \in Buffer(Byte)
  BY DEF BufferOK
<1> HIDE DEF Buffer
<1> QED BY <1>1 DEF Streams

\* An exception changes nothing of a stream but that it was thrown.
LEMMA Thrown ==
  ASSUME NEW G, NEW s \in Streams(G)
  PROVE  /\ Throw(s) \in Streams(G) /\ ~Throw(s).ok
         /\ Throw(s).buf = s.buf /\ Throw(s).got = s.got /\ Throw(s).mask = s.mask
         /\ Throw(s).containerSizeBytes = s.containerSizeBytes
         /\ Throw(s).m_userData = s.m_userData
BY DEF Streams, Throw

\* What stands before the write position.
LEMMA BeforeType ==
  ASSUME NEW b, BufferOK(b, Byte)
  PROVE  /\ Before(b) \in Seq(Byte) /\ Len(Before(b)) = b.m_posWrite
         /\ \A i \in 1..b.m_posWrite : Before(b)[i] = b.m_internal[i]
<1>1. /\ b.m_internal \in Seq(Byte) /\ b.m_posWrite \in Nat /\ b.m_posWrite <= Len(b.m_internal)
  BY DEF BufferOK, Buffer, ByteArray
<1> HIDE DEF Byte
<1> QED BY <1>1 DEF Before

\* Nothing written.
LEMMA WritesNothing ==
  ASSUME NEW s, Writing(s)
  PROVE  Writes(s, s, << >>, TRUE)
<1>1. s \in Streams({s.got})
  BY DEF Writing
<1>2. s.buf.m_posWrite \in Nat /\ s.buf.m_size \in Nat /\ s.buf.m_posWrite <= s.buf.m_size
        /\ BufferOK(s.buf, Byte)
  BY <1>1, StreamFields
<1>3. WritesOn(s, s)
  BY <1>1, <1>2 DEF WritesOn
<1>4. MayWrite(s.buf, Len(<< >>))
  BY <1>2 DEF MayWrite, RemainWrite
<1>5. Join(Before(s.buf), << >>) = Before(s.buf)
  BY <1>2, BeforeType, JoinNothing
<1> QED BY <1>3, <1>4, <1>5 DEF Writes

\* A writer that throws wrote a code that does not fit.
LEMMA WritesThrow ==
  ASSUME NEW s, Writing(s), NEW code
  PROVE  Writes(s, Throw(s), code, FALSE)
<1>1. s \in Streams({s.got})
  BY DEF Writing
<1>2. s.buf.m_posWrite \in Nat /\ s.buf.m_size \in Nat
  BY <1>1, StreamFields
<1>3. WritesOn(s, Throw(s)) /\ ~Throw(s).ok
  BY <1>1, <1>2, Thrown DEF WritesOn
<1> QED BY <1>3 DEF Writes

\* After writing one can go on writing, under the same settings.
LEMMA WritesType ==
  ASSUME NEW s, NEW t, NEW code, NEW fits, Writing(s), Writes(s, t, code, fits)
  PROVE  /\ Writing(t) /\ t.got = s.got /\ t.containerSizeBytes = s.containerSizeBytes
         /\ t.m_userData = s.m_userData
<1>1. t \in Streams({s.got}) /\ t.buf.m_posRead = s.buf.m_posRead /\ s.buf.m_posWrite <= t.buf.m_posWrite
  BY DEF Writes, WritesOn
<1>2. t.got = s.got
  BY <1>1, StreamFields
<1>3. s.buf.m_posRead \in Nat /\ s.buf.m_posWrite \in Nat /\ t.buf.m_posWrite \in Nat
        /\ s.buf.m_posRead <= s.buf.m_posWrite
  BY <1>1, StreamFields DEF Writing
<1>4. t.containerSizeBytes = s.containerSizeBytes /\ t.m_userData = s.m_userData
  BY DEF Writes, WritesOn
<1> QED BY <1>1, <1>2, <1>3, <1>4 DEF Writing

\* Two codes written one after the other are written as one.
LEMMA WritesThen ==
  ASSUME NEW s, NEW t, NEW u, NEW c1 \in Seq(Byte), NEW c2 \in Seq(Byte), NEW f1, NEW f2,
         Writing(s), Writes(s, t, c1, f1), Writes(t, u, c2, f2)
  PROVE  Writes(s, u, Join(c1, c2), f1 /\ f2)
<1>1. Writing(t) /\ t.got = s.got
  BY WritesType
<1>2. /\ s \in Streams({s.got}) /\ t \in Streams({s.got}) /\ u \in Streams({s.got})
  BY <1>1 DEF Writing, Writes, WritesOn
<1>3. /\ s.buf.m_posWrite \in Nat /\ s.buf.m_size \in Nat /\ t.buf.m_posWrite \in Nat /\ t.buf.m_size \in Nat
      /\ u.buf.m_posWrite \in Nat /\ u.buf.m_size \in Nat
      /\ BufferOK(s.buf, Byte) /\ BufferOK(t.buf, Byte) /\ BufferOK(u.buf, Byte)
  BY <1>2, StreamFields
<1>4. WritesOn(s, u)
  <2>1. WritesOn(s, t) /\ WritesOn(t, u)
    BY DEF Writes
  <2>2. \A i \in 1..s.buf.m_posWrite : u.buf.m_internal[i] = s.buf.m_internal[i]
    <3>1. \A i \in 1..s.buf.m_posWrite : i \in 1..t.buf.m_posWrite
      BY <2>1, <1>3 DEF WritesOn
    <3> QED BY <2>1, <3>1 DEF WritesOn
  <2>3. s.buf.m_posWrite <= u.buf.m_posWrite
    BY <2>1, <1>3 DEF WritesOn
  <2>4. /\ u.containerSizeBytes = s.containerSizeBytes /\ u.m_userData = s.m_userData
        /\ u.buf.m_posRead = s.buf.m_posRead /\ u.buf.m_eofRead = s.buf.m_eofRead
        /\ u.buf.m_resizeEnabled = s.buf.m_resizeEnabled
    BY <2>1 DEF WritesOn
  <2>5. ~s.buf.m_resizeEnabled => u.buf.m_size = s.buf.m_size
    BY <2>1 DEF WritesOn
  <2>6. s.buf.m_posWrite = s.buf.m_size /\ s.buf.m_resizeEnabled => u.buf.m_posWrite = u.buf.m_size
    BY <2>1 DEF WritesOn
  <2> QED BY <1>2, <2>2, <2>3, <2>4, <2>5, <2>6 DEF WritesOn
<1>5. Len(Join(c1, c2)) = Len(c1) + Len(c2) /\ Len(c1) \in Nat /\ Len(c2) \in Nat
  <2>1. Len(Join(c1, c2)) = Len(c1) + Len(c2)
    BY JoinType
  <2> QED BY <2>1
<1>6. /\ t.ok <=> (s.ok /\ f1 /\ MayWrite(s.buf, Len(c1)))
      /\ u.ok <=> (t.ok /\ f2 /\ MayWrite(t.buf, Len(c2)))
      /\ t.ok => Before(t.buf) = Join(Before(s.buf), c1)
      /\ u.ok => Before(u.buf) = Join(Before(t.buf), c2)
  BY DEF Writes
<1>7. t.ok => t.buf.m_posWrite = s.buf.m_posWrite + Len(c1)
  <2>1. Before(s.buf) \in Seq(Byte) /\ Len(Before(s.buf)) = s.buf.m_posWrite
          /\ Len(Before(t.buf)) = t.buf.m_posWrite
    BY <1>3, BeforeType
  <2>2. Len(Join(Before(s.buf), c1)) = Len(Before(s.buf)) + Len(c1)
    BY <2>1, JoinType
  <2> QED BY <1>6, <2>1, <2>2
<1>8. u.ok <=> (s.ok /\ (f1 /\ f2) /\ MayWrite(s.buf, Len(Join(c1, c2))))
  <2>1. t.ok => (MayWrite(t.buf, Len(c2)) <=> MayWrite(s.buf, Len(Join(c1, c2))))
    <3>1. /\ t.buf.m_resizeEnabled = s.buf.m_resizeEnabled
          /\ ~s.buf.m_resizeEnabled => t.buf.m_size = s.buf.m_size
      BY DEF Writes, WritesOn
    <3> QED BY <3>1, <1>3, <1>5, <1>7 DEF MayWrite, RemainWrite
  <2>2. MayWrite(s.buf, Len(Join(c1, c2))) => MayWrite(s.buf, Len(c1))
    BY <1>3, <1>5 DEF MayWrite, RemainWrite
  <2> QED BY <1>6, <2>1, <2>2
<1>9. u.ok => Before(u.buf) = Join(Before(s.buf), Join(c1, c2))
  <2>1. Before(s.buf) \in Seq(Byte)
    BY <1>3, BeforeType
  <2>2. Join(Before(s.buf), Join(c1, c2)) = Join(Join(Before(s.buf), c1), c2)
    BY <2>1, JoinAssociative
  <2>3. u.ok => t.ok
    BY <1>6
  <2> QED BY <1>6, <2>2, <2>3
<1> QED BY <1>4, <1>8, <1>9 DEF Writes

\* writeBlock writes the bytes, if the buffer has room or grows.
LEMMA BlockWrites ==
  ASSUME NEW s, Writing(s), NEW bytes \in Seq(Byte)
  PROVE  Writes(s, WriteBlock(s, bytes), bytes, TRUE)
<1> DEFINE n == Len(bytes)
           b == s.buf
           c == MarkWrite(Overwrite(PosWrite(b, n), bytes), n)
<1>1. s \in Streams({s.got}) /\ b.m_posRead <= b.m_posWrite
  BY DEF Writing
<1>2. /\ BufferOK(b, Byte) /\ b.m_posWrite \in Nat /\ b.m_size \in Nat /\ b.m_posRead \in Nat
      /\ b.m_posWrite <= b.m_size /\ n \in Nat /\ s.ok \in BOOLEAN
      /\ s.ok => ~b.m_eofRead
  BY <1>1, StreamFields
<1>3. CASE ~s.ok
  <2>1. WriteBlock(s, bytes) = s
    BY <1>3 DEF WriteBlock
  <2>2. WritesOn(s, s)
    BY <1>1, <1>2 DEF WritesOn
  <2> QED BY <1>3, <2>1, <2>2 DEF Writes
<1>4. CASE s.ok /\ ~MayWrite(b, n)
  <2>1. WriteBlock(s, bytes) = Throw(s)
    BY <1>4 DEF WriteBlock
  <2>2. WritesOn(s, Throw(s)) /\ ~Throw(s).ok
    BY <1>1, <1>2, Thrown DEF WritesOn
  <2> QED BY <1>4, <2>1, <2>2 DEF Writes
<1>5. CASE s.ok /\ MayWrite(b, n)
  <2>1. WriteBlock(s, bytes) = [s EXCEPT !.buf = c]
    BY <1>5 DEF WriteBlock
  <2>0. 0 \in Byte
    BY BaseType DEF Byte
  <2>2. /\ BufferOK(c, Byte)
        /\ c.m_posWrite = b.m_posWrite + n
        /\ (c.m_posRead = b.m_posRead /\ c.m_eofRead = b.m_eofRead) \/ b.m_posRead > c.m_size
        /\ c.m_resizeEnabled = b.m_resizeEnabled
        /\ c.m_size = IF c.m_posWrite <= b.m_size THEN b.m_size ELSE c.m_posWrite
        /\ \A i \in 1..b.m_posWrite : c.m_internal[i] = b.m_internal[i]
        /\ \A i \in 1..n : c.m_internal[b.m_posWrite + i] = bytes[i]
    BY <1>2, <1>5, <2>0, WriteKeepsOrder
  <2> HIDE DEF c
  <2>3. c.m_size \in Nat /\ c.m_posWrite \in Nat /\ c.m_posWrite <= c.m_size
    BY <2>2, <1>2
  <2>4. c.m_posRead = b.m_posRead /\ c.m_eofRead = b.m_eofRead
    BY <1>1, <1>2, <2>2, <2>3
  <2> DEFINE t == [s EXCEPT !.buf = c]
  <2>5. /\ t \in Streams({s.got}) /\ t.buf = c /\ t.ok = s.ok /\ t.got = s.got
        /\ t.containerSizeBytes = s.containerSizeBytes /\ t.m_userData = s.m_userData
    <3>1. s.ok => ~c.m_eofRead
      BY <1>2, <2>4
    <3>2. BufferOK(c, Byte)
      BY <2>2
    <3> QED BY <1>1, <3>1, <3>2, WithBuffer
  <2> HIDE DEF t
  <2>6. ~b.m_resizeEnabled => c.m_size = b.m_size
    BY <1>2, <1>5, <2>2 DEF MayWrite, RemainWrite
  <2>7. b.m_posWrite = b.m_size => c.m_posWrite = c.m_size
    BY <1>2, <2>2
  <2>8. WritesOn(s, t)
    BY <1>2, <2>2, <2>4, <2>5, <2>6, <2>7 DEF WritesOn, b
  <2>9. Before(c) = Join(Before(b), bytes)
    <3>1. /\ Before(b) \in Seq(Byte) /\ Len(Before(b)) = b.m_posWrite
          /\ \A i \in 1..b.m_posWrite : Before(b)[i] = b.m_internal[i]
      BY <1>2, BeforeType
    <3>2. /\ Before(c) \in Seq(Byte) /\ Len(Before(c)) = c.m_posWrite
          /\ \A i \in 1..c.m_posWrite : Before(c)[i] = c.m_internal[i]
      BY <2>2, BeforeType
    <3>3. /\ Join(Before(b), bytes) \in Seq(Byte)
          /\ Len(Join(Before(b), bytes)) = b.m_posWrite + n
          /\ \A i \in 1..b.m_posWrite : Join(Before(b), bytes)[i] = Before(b)[i]
          /\ \A i \in 1..n : Join(Before(b), bytes)[b.m_posWrite + i] = bytes[i]
      <4>1. /\ Join(Before(b), bytes) \in Seq(Byte)
            /\ Len(Join(Before(b), bytes)) = Len(Before(b)) + Len(bytes)
            /\ \A i \in 1..Len(Before(b)) : Join(Before(b), bytes)[i] = Before(b)[i]
            /\ \A i \in 1..Len(bytes) : Join(Before(b), bytes)[Len(Before(b)) + i] = bytes[i]
        <5> DEFINE a == Before(b)
        <5>1. a \in Seq(Byte)
          BY <3>1
        <5> HIDE DEF a
        <5>2. /\ Join(a, bytes) \in Seq(Byte) /\ Len(Join(a, bytes)) = Len(a) + Len(bytes)
              /\ \A i \in 1..Len(a) : Join(a, bytes)[i] = a[i]
              /\ \A i \in 1..Len(bytes) : Join(a, bytes)[Len(a) + i] = bytes[i]
          <6>1. Join(a, bytes) \in Seq(Byte) /\ Len(Join(a, bytes)) = Len(a) + Len(bytes)
            BY <5>1, JoinType
          <6>2. \A i \in 1..Len(a) : Join(a, bytes)[i] = a[i]
            BY <5>1, JoinType
          <6>3. \A i \in 1..Len(bytes) : Join(a, bytes)[Len(a) + i] = bytes[i]
            BY <5>1, JoinType
          <6> QED BY <6>1, <6>2, <6>3
        <5> QED BY <5>2 DEF a
      <4> QED BY <3>1, <4>1 DEF n
    <3>4. ASSUME NEW i \in 1..(b.m_posWrite + n) PROVE Before(c)[i] = Join(Before(b), bytes)[i]
      <4>1. CASE i <= b.m_posWrite
        <5>1. i \in 1..b.m_posWrite /\ i \in 1..c.m_posWrite
          BY <4>1, <1>2, <2>2
        <5> QED BY <5>1, <2>2, <3>1, <3>2, <3>3
      <4>2. CASE i > b.m_posWrite
        <5>1. PICK j \in 1..n : i = b.m_posWrite + j
          <6>1. i - b.m_posWrite \in 1..n /\ i = b.m_posWrite + (i - b.m_posWrite)
            BY <4>2, <1>2
          <6> QED BY <6>1
        <5>2. i \in 1..c.m_posWrite
          BY <2>2
        <5> QED BY <5>1, <5>2, <2>2, <3>2, <3>3
      <4> QED BY <4>1, <4>2, <1>2
    <3> QED BY <2>2, <3>2, <3>3, <3>4, SameSequence
  <2> QED BY <1>5, <2>1, <2>5, <2>8, <2>9 DEF Writes, b, n, t
<1> QED BY <1>2, <1>3, <1>4, <1>5

-----------------------------------------------------------------------------
(* Writing.                                                                *)

\* The mask the two programs agreed on is one of those the streams name.
Masked == mask \in {s_littleEndian, s_bigEndian}

\* A number of some width is that many bytes.
LEMMA NumberType ==
  ASSUME NEW value \in Nat, NEW width \in {1, 2, 4}
  PROVE  /\ Number(value, width) \in [1..width -> Byte]
         /\ Number(value, width) \in Seq(Byte) /\ Len(Number(value, width)) = width
<1>1. Base \in Nat \ {0}
  BY BaseType
<1>2. ASSUME NEW i \in 1..width
      PROVE  HostByte(value, IF mask = s_bigEndian THEN width - i ELSE i - 1) \in Byte
  <2> DEFINE j == IF mask = s_bigEndian THEN width - i ELSE i - 1
  <2>1. j \in Nat
    OBVIOUS
  <2> HIDE DEF j
  <2>2. Digit(value, j, Base) \in 0..(Base - 1)
    BY <1>1, <2>1, DigitType
  <2> QED BY <2>2 DEF j, HostByte, Byte
<1>3. Number(value, width) \in [1..width -> Byte]
  BY <1>2 DEF Number
<1> HIDE DEF Byte
<1>4. width \in Nat
  OBVIOUS
<1>5. \A f \in [1..width -> Byte] : f \in Seq(Byte) /\ Len(f) = width
  BY <1>4
<1> QED BY <1>3, <1>5

\* The bytes that the mask puts at each place are those of the number.
LEMMA MaskedBytes ==
  ASSUME Masked, NEW value \in Nat, NEW width \in {1, 2, 4}
  PROVE  [i \in 1..width |-> HostByte(value, Xor(TypeMask(mask, width), i - 1))] = Number(value, width)
<1>1. ASSUME NEW i \in 1..width
      PROVE  Xor(TypeMask(mask, width), i - 1) = IF mask = s_bigEndian THEN width - i ELSE i - 1
  <2>1. width \in Width /\ i - 1 \in 0..(width - 1) /\ width - 1 - (i - 1) = width - i
    BY DEF Width
  <2>2. /\ Xor(TypeMask(s_bigEndian, width), i - 1) = width - 1 - (i - 1)
        /\ Xor(TypeMask(s_littleEndian, width), i - 1) = i - 1
    BY <2>1, MasksAreEndian
  <2>3. s_littleEndian # s_bigEndian
    BY DEF s_littleEndian, s_bigEndian
  <2> QED BY <2>1, <2>2, <2>3 DEF Masked
<1> QED BY <1>1 DEF Number

\* A scalar is written as its number, most significant byte first or last as the mask says.
LEMMA ScalarWrites ==
  ASSUME Masked, NEW s, Writing(s), NEW value \in Nat, NEW width \in {1, 2, 4}
  PROVE  Writes(s, WriteScalar(s, value, width), Number(value, width), TRUE)
<1>1. s.mask = mask
  BY StreamFields DEF Writing
<1>2. WriteScalar(s, value, width) = WriteBlock(s, Number(value, width))
  BY <1>1, MaskedBytes DEF WriteScalar
<1>3. Number(value, width) \in Seq(Byte)
  BY NumberType
<1> QED BY <1>2, <1>3, BlockWrites

\* The condition under which a code fits may be said otherwise.
LEMMA WritesSame ==
  ASSUME NEW s, NEW t, NEW code, NEW fits, NEW same, Writes(s, t, code, fits), fits <=> same
  PROVE  Writes(s, t, code, same)
BY DEF Writes

\* A size is written as a number of the width in force, or refused where it does not fit.
LEMMA SizeWrites ==
  ASSUME Masked, NEW s, Writing(s), NEW size \in Nat
  PROVE  Writes(s, WriteSize(s, size), Number(size, s.containerSizeBytes),
                size < Power(Base, s.containerSizeBytes))
<1> DEFINE width == s.containerSizeBytes
           limit == Power(Base, width)
<1>1. width \in {1, 2, 4}
  BY StreamFields DEF Writing
<1>2. limit \in Nat
  BY <1>1, BaseType, Powers
<1> HIDE DEF limit
<1>3. CASE size >= limit
  <2>1. WriteSize(s, size) = Throw(s) /\ ~(size < limit)
    BY <1>2, <1>3 DEF WriteSize, limit
  <2>2. Writes(s, Throw(s), Number(size, width), FALSE)
    BY WritesThrow
  <2> QED BY <2>1, <2>2, WritesSame DEF limit
<1>4. CASE size < limit
  <2>1. WriteSize(s, size) = WriteScalar(s, size, width)
    BY <1>2, <1>4 DEF WriteSize, limit
  <2>2. Writes(s, WriteScalar(s, size, width), Number(size, width), TRUE)
    BY <1>1, ScalarWrites
  <2> QED BY <1>4, <2>1, <2>2, WritesSame DEF limit
<1> QED BY <1>2, <1>3, <1>4

\* A string behind its length is longer by the width of the length.
LEMMA CountedType ==
  ASSUME NEW str \in Seq(Byte), NEW width \in {1, 2, 4}
  PROVE  /\ Counted(str, width) = Join(Number(Len(str), width), str)
         /\ Counted(str, width) \in Seq(Byte) /\ Len(Counted(str, width)) = width + Len(str)
<1>1. Len(str) \in Nat
  OBVIOUS
<1>2. Number(Len(str), width) \in Seq(Byte) /\ Len(Number(Len(str), width)) = width
  BY <1>1, NumberType
<1>3. Counted(str, width) = Join(Number(Len(str), width), str)
  BY DEF Counted, Join
<1>4. /\ Join(Number(Len(str), width), str) \in Seq(Byte)
      /\ Len(Join(Number(Len(str), width), str)) = Len(Number(Len(str), width)) + Len(str)
  BY <1>2, JoinType
<1> QED BY <1>2, <1>3, <1>4

\* A string is written behind its length.
LEMMA StringWrites ==
  ASSUME Masked, NEW s, Writing(s), NEW str \in Seq(Byte)
  PROVE  Writes(s, WriteString(s, str), Counted(str, s.containerSizeBytes),
                Len(str) < Power(Base, s.containerSizeBytes))
<1> DEFINE width == s.containerSizeBytes
           t == WriteSize(s, Len(str))
           fits == Len(str) < Power(Base, width)
<1>1. width \in {1, 2, 4} /\ Len(str) \in Nat
  BY StreamFields DEF Writing
<1>2. Writes(s, t, Number(Len(str), width), fits)
  BY <1>1, SizeWrites
<1>3. Writing(t)
  BY <1>2, WritesType
<1>4. Writes(t, WriteBlock(t, str), str, TRUE)
  BY <1>3, BlockWrites
<1>5. Number(Len(str), width) \in Seq(Byte)
  BY <1>1, NumberType
<1>6. Counted(str, width) = Join(Number(Len(str), width), str)
  BY <1>1, CountedType
<1>7. WriteString(s, str) = WriteBlock(t, str)
  BY DEF WriteString
<1> HIDE DEF t, fits, width
<1>8. Writes(s, WriteBlock(t, str), Join(Number(Len(str), width), str), fits /\ TRUE)
  BY <1>2, <1>4, <1>5, WritesThen
<1>9. Writes(s, WriteString(s, str), Counted(str, width), fits)
  BY <1>6, <1>7, <1>8, WritesSame
<1> QED BY <1>9 DEF fits, width

\* A byte of padding is a zero.
LEMMA PaddingWrites ==
  ASSUME NEW s, Writing(s)
  PROVE  Writes(s, ZeroPadding(s, 1), <<0>>, TRUE) /\ <<0>> \in Seq(Byte)
<1>1. [i \in 1..1 |-> 0] = <<0>>
  OBVIOUS
<1>2. <<0>> \in Seq(Byte)
  BY BaseType DEF Byte
<1>3. ZeroPadding(s, 1) = WriteBlock(s, <<0>>)
  BY <1>1 DEF ZeroPadding
<1> QED BY <1>2, <1>3, BlockWrites

\* Codes written one after the other.
LEMMA WritesAll ==
  ASSUME NEW n \in Nat, NEW codes \in [1..n -> Seq(Byte)], NEW F, NEW Fit, Writing(F[0]),
         \A i \in 1..n : Writing(F[i - 1]) /\ F[i - 1].containerSizeBytes = F[0].containerSizeBytes
                           => Writes(F[i - 1], F[i], codes[i], i \in Fit)
  PROVE  Writes(F[0], F[n], Concat(codes), 1..n \subseteq Fit)
<1>1. PICK f \in [0..n -> Seq(Byte)] : Concats(f, codes, n)
  BY ConcatSteps
<1>2. f[0] = << >> /\ Concat(codes) = f[n] /\ \A i \in 1..n : f[i] = Join(f[i - 1], codes[i])
  BY <1>1 DEF Concats
<1> DEFINE T == {i \in 0..n : Writes(F[0], F[i], f[i], 1..i \subseteq Fit)}
<1>3. 0 \in T
  <2>1. Writes(F[0], F[0], << >>, TRUE)
    BY WritesNothing
  <2>2. 1..0 \subseteq Fit <=> TRUE
    OBVIOUS
  <2>3. Writes(F[0], F[0], << >>, 1..0 \subseteq Fit)
    BY <2>1, <2>2, WritesSame
  <2> QED BY <1>2, <2>3
<1>4. ASSUME NEW i \in 1..n, i - 1 \in T PROVE i \in T
  <2>1. Writes(F[0], F[i - 1], f[i - 1], 1..(i - 1) \subseteq Fit)
    BY <1>4
  <2>2. Writing(F[i - 1]) /\ F[i - 1].containerSizeBytes = F[0].containerSizeBytes
    BY <2>1, WritesType
  <2>3. Writes(F[i - 1], F[i], codes[i], i \in Fit)
    BY <2>2
  <2>4. f[i - 1] \in Seq(Byte) /\ codes[i] \in Seq(Byte)
    OBVIOUS
  <2>5. Writes(F[0], F[i], Join(f[i - 1], codes[i]), 1..(i - 1) \subseteq Fit /\ i \in Fit)
    <3> DEFINE r == F[0]
               t == F[i - 1]
               u == F[i]
               c1 == f[i - 1]
               c2 == codes[i]
               f1 == 1..(i - 1) \subseteq Fit
               f2 == i \in Fit
    <3>1. Writing(r) /\ Writes(r, t, c1, f1) /\ Writes(t, u, c2, f2) /\ c1 \in Seq(Byte) /\ c2 \in Seq(Byte)
      BY <2>1, <2>3, <2>4
    <3> HIDE DEF r, t, u, c1, c2, f1, f2
    <3>2. Writes(r, u, Join(c1, c2), f1 /\ f2)
      BY <3>1, WritesThen
    <3> QED BY <3>2 DEF r, t, u, c1, c2, f1, f2
  <2>6. (1..(i - 1) \subseteq Fit /\ i \in Fit) <=> 1..i \subseteq Fit
    OBVIOUS
  <2>7. Writes(F[0], F[i], Join(f[i - 1], codes[i]), 1..i \subseteq Fit)
    BY <2>5, <2>6, WritesSame
  <2>8. f[i] = Join(f[i - 1], codes[i]) /\ i \in 0..n
    BY <1>2
  <2> QED BY <2>7, <2>8
<1>5. n \in T
  <2> HIDE DEF T
  <2>1. \A i \in 0..n : i \in T
    BY <1>3, <1>4, StepInduction
  <2> QED BY <2>1
<1> QED BY <1>2, <1>5

\* f as Run computes it.
Computes(f, n, S, first, step) ==
    /\ f = [i \in {k \in Nat : k <= n} |-> f[i]]
    /\ f[0] = first
    /\ \A i \in 1..n : f[i - 1] \in S /\ f[i] = step[<<f[i - 1], i>>]

\* The states Run goes through, when its steps are those of a function.
LEMMA RunExists ==
  ASSUME NEW n \in Nat, NEW S, NEW first \in S, NEW step \in [S \X (1..n) -> S]
  PROVE  \E f : Computes(f, n, S, first, step)
<1>1. PICK f \in [0..n -> S] : Follows(f, n, first, step)
  BY StepsExist
<1>2. {k \in Nat : k <= n} = 0..n
  OBVIOUS
<1>3. f = [i \in {k \in Nat : k <= n} |-> f[i]]
  BY <1>2
<1>4. \A i \in 1..n : f[i - 1] \in S /\ f[i] = step[<<f[i - 1], i>>]
  BY <1>1 DEF Follows
<1>5. f[0] = first
  BY <1>1 DEF Follows
<1> QED BY <1>3, <1>4, <1>5 DEF Computes

\* The streams that writing to s can lead to.
Writers(s) == {t \in Streams({s.got}) : Writing(t)}

\* Writing leads from a writer to a writer of the same kind.
LEMMA WritersType ==
  ASSUME NEW s, Writing(s), NEW t \in Writers(s), NEW u, NEW code, NEW fits, Writes(t, u, code, fits)
  PROVE  u \in Writers(s)
<1>1. Writing(t) /\ t.got = s.got
  BY StreamFields DEF Writers
<1>2. Writing(u) /\ u.got = t.got
  BY <1>1, WritesType
<1> QED BY <1>1, <1>2 DEF Writers, Writing

\* What is known of a writer.
LEMMA WriterIs ==
  ASSUME NEW s, NEW t \in Writers(s)
  PROVE  Writing(t) /\ t.got = s.got
BY StreamFields DEF Writers

\* WriteVector writes the size and then one string after the other.
LEMMA VectorSteps ==
  ASSUME Masked, NEW s, Writing(s), NEW n \in Nat, NEW strings \in [1..n -> Seq(Byte)]
  PROVE  \E F : /\ WriteVector(s, strings) = F[n]
                /\ F[0] = WriteSize(s, n)
                /\ \A i \in 1..n : F[i] = WriteString(F[i - 1], strings[i])
<1> DEFINE S == Writers(s)
           first == WriteSize(s, n)
           step == [z \in S \X (1..n) |-> WriteString(z[1], strings[z[2]])]
           F == CHOOSE f : f = [i \in {k \in Nat : k <= n} |->
                                   IF i = 0 THEN first ELSE WriteString(f[i - 1], strings[i])]
<1>1. first \in S
  <2>1. s \in Writers(s)
    BY DEF Writers, Writing
  <2>2. Writes(s, WriteSize(s, n), Number(n, s.containerSizeBytes), n < Power(Base, s.containerSizeBytes))
    BY SizeWrites
  <2> QED BY <2>1, <2>2, WritersType
<1>2. ASSUME NEW t \in S, NEW i \in 1..n PROVE WriteString(t, strings[i]) \in S
  <2>1. Writing(t) /\ strings[i] \in Seq(Byte)
    BY WriterIs
  <2>2. Writes(t, WriteString(t, strings[i]), Counted(strings[i], t.containerSizeBytes),
               Len(strings[i]) < Power(Base, t.containerSizeBytes))
    BY <2>1, StringWrites
  <2> QED BY <2>2, WritersType
<1>3. step \in [S \X (1..n) -> S]
  <2> HIDE DEF S
  <2> QED BY <1>2
<1>4. PICK f : Computes(f, n, S, first, step)
  <2> HIDE DEF S, first, step
  <2> QED BY <1>1, <1>3, RunExists
<1>5. /\ f = [i \in {k \in Nat : k <= n} |-> f[i]]
      /\ f[0] = first
      /\ \A i \in 1..n : f[i - 1] \in S /\ f[i] = step[<<f[i - 1], i>>]
  <2> HIDE DEF S, first, step
  <2> QED BY <1>4 DEF Computes
<1>6. f = [i \in {k \in Nat : k <= n} |-> IF i = 0 THEN first ELSE WriteString(f[i - 1], strings[i])]
  <2>1. ASSUME NEW i \in {k \in Nat : k <= n}, i # 0 PROVE f[i] = WriteString(f[i - 1], strings[i])
    <3>1. i \in 1..n
      BY <2>1
    <3>2. f[i - 1] \in S /\ f[i] = step[<<f[i - 1], i>>]
      BY <1>5, <3>1
    <3> HIDE DEF S
    <3> QED BY <3>1, <3>2
  <2> HIDE DEF first, step, S
  <2> QED BY <1>5, <2>1
<1>7. F = [i \in {k \in Nat : k <= n} |-> IF i = 0 THEN first ELSE WriteString(F[i - 1], strings[i])]
  <2> HIDE DEF first, step, S
  <2> QED BY <1>6
<1>8. WriteVector(s, strings) = F[n]
  <2>1. Len(strings) = n
    OBVIOUS
  <2> QED BY <2>1, Zenon DEF WriteVector, Run
<1> HIDE DEF F, step, S
<1>9. F[0] = first /\ \A i \in 1..n : F[i] = WriteString(F[i - 1], strings[i])
  <2> HIDE DEF first
  <2>1. F[0] = first
    BY <1>7
  <2>2. ASSUME NEW i \in 1..n PROVE F[i] = WriteString(F[i - 1], strings[i])
    <3>1. i \in {k \in Nat : k <= n} /\ i # 0
      OBVIOUS
    <3> QED BY <1>7, <3>1
  <2> QED BY <2>1, <2>2
<1> QED BY <1>8, <1>9

\* WriteDeque writes the size and then one number after the other.
LEMMA DequeSteps ==
  ASSUME Masked, NEW s, Writing(s), NEW n \in Nat, NEW numbers \in [1..n -> Nat]
  PROVE  \E F : /\ WriteDeque(s, numbers) = F[n]
                /\ F[0] = WriteSize(s, n)
                /\ \A i \in 1..n : F[i] = WriteScalar(F[i - 1], numbers[i], 2)
<1> DEFINE S == Writers(s)
           first == WriteSize(s, n)
           step == [z \in S \X (1..n) |-> WriteScalar(z[1], numbers[z[2]], 2)]
           F == CHOOSE f : f = [i \in {k \in Nat : k <= n} |->
                                   IF i = 0 THEN first ELSE WriteScalar(f[i - 1], numbers[i], 2)]
<1>1. first \in S
  <2>1. s \in Writers(s)
    BY DEF Writers, Writing
  <2>2. Writes(s, WriteSize(s, n), Number(n, s.containerSizeBytes), n < Power(Base, s.containerSizeBytes))
    BY SizeWrites
  <2> QED BY <2>1, <2>2, WritersType
<1>2. ASSUME NEW t \in S, NEW i \in 1..n PROVE WriteScalar(t, numbers[i], 2) \in S
  <2>1. Writing(t) /\ numbers[i] \in Nat
    BY WriterIs
  <2>2. Writes(t, WriteScalar(t, numbers[i], 2), Number(numbers[i], 2), TRUE)
    BY <2>1, ScalarWrites
  <2> QED BY <2>2, WritersType
<1>3. step \in [S \X (1..n) -> S]
  <2> HIDE DEF S
  <2> QED BY <1>2
<1>4. PICK f : Computes(f, n, S, first, step)
  <2> HIDE DEF S, first, step
  <2> QED BY <1>1, <1>3, RunExists
<1>5. /\ f = [i \in {k \in Nat : k <= n} |-> f[i]]
      /\ f[0] = first
      /\ \A i \in 1..n : f[i - 1] \in S /\ f[i] = step[<<f[i - 1], i>>]
  <2> HIDE DEF S, first, step
  <2> QED BY <1>4 DEF Computes
<1>6. f = [i \in {k \in Nat : k <= n} |-> IF i = 0 THEN first ELSE WriteScalar(f[i - 1], numbers[i], 2)]
  <2>1. ASSUME NEW i \in {k \in Nat : k <= n}, i # 0 PROVE f[i] = WriteScalar(f[i - 1], numbers[i], 2)
    <3>1. i \in 1..n
      BY <2>1
    <3>2. f[i - 1] \in S /\ f[i] = step[<<f[i - 1], i>>]
      BY <1>5, <3>1
    <3> HIDE DEF S
    <3> QED BY <3>1, <3>2
  <2> HIDE DEF first, step, S
  <2> QED BY <1>5, <2>1
<1>7. F = [i \in {k \in Nat : k <= n} |-> IF i = 0 THEN first ELSE WriteScalar(F[i - 1], numbers[i], 2)]
  <2> HIDE DEF first, step, S
  <2> QED BY <1>6
<1>8. WriteDeque(s, numbers) = F[n]
  <2>1. Len(numbers) = n
    OBVIOUS
  <2> QED BY <2>1, Zenon DEF WriteDeque, Run
<1> HIDE DEF F, step, S
<1>9. F[0] = first /\ \A i \in 1..n : F[i] = WriteScalar(F[i - 1], numbers[i], 2)
  <2> HIDE DEF first
  <2>1. F[0] = first
    BY <1>7
  <2>2. ASSUME NEW i \in 1..n PROVE F[i] = WriteScalar(F[i - 1], numbers[i], 2)
    <3>1. i \in {k \in Nat : k <= n} /\ i # 0
      OBVIOUS
    <3> QED BY <1>7, <3>1
  <2> QED BY <2>1, <2>2
<1> QED BY <1>8, <1>9

\* A single byte is its own number.
LEMMA ByteNumber ==
  ASSUME NEW key \in Byte
  PROVE  Number(key, 1) = <<key>> /\ <<key>> \in Seq(Byte)
<1>1. key \in Nat /\ key < Base /\ Base \in Nat \ {0}
  BY BaseType DEF Byte
<1>2. Power(Base, 0) = 1
  BY <1>1, Powers
<1>3. HostByte(key, 0) = key
  <2>1. key \div 1 = key /\ key % Base = key
    BY <1>1
  <2> QED BY <1>2, <2>1 DEF HostByte, Digit
<1>4. Number(key, 1) = [i \in 1..1 |-> key]
  <2>1. \A i \in 1..1 : (IF mask = s_bigEndian THEN 1 - i ELSE i - 1) = 0
    OBVIOUS
  <2> QED BY <1>3, <2>1 DEF Number
<1> HIDE DEF Byte
<1> QED BY <1>4

\* What WriteMap does for the key i - 1.
EntryWritten(t, map, i) ==
    IF i - 1 \in DOMAIN map THEN WriteString(WriteScalar(t, i - 1, 1), map[i - 1]) ELSE t

\* The bytes of an entry.
EntryCode(map, width, i) ==
    IF i - 1 \in DOMAIN map THEN <<i - 1>> \o Counted(map[i - 1], width) ELSE << >>

\* The code of an entry of a map: its key and its counted string.
LEMMA EntryCodeType ==
  ASSUME NEW map, map \in [DOMAIN map -> Seq(Byte)], DOMAIN map \subseteq Byte, NEW i \in 1..Base,
         NEW width \in {1, 2, 4}
  PROVE  /\ EntryCode(map, width, i) \in Seq(Byte)
         /\ i - 1 \in DOMAIN map => EntryCode(map, width, i) = Join(<<i - 1>>, Counted(map[i - 1], width))
         /\ i - 1 \in DOMAIN map => Len(EntryCode(map, width, i)) = 1 + (width + Len(map[i - 1]))
<1>1. CASE i - 1 \in DOMAIN map
  <2>1. <<i - 1>> \in Seq(Byte) /\ Len(<<i - 1>>) = 1
    BY <1>1, ByteNumber
  <2>2. Counted(map[i - 1], width) \in Seq(Byte) /\ Len(Counted(map[i - 1], width)) = width + Len(map[i - 1])
    BY <1>1, CountedType
  <2>3. EntryCode(map, width, i) = Join(<<i - 1>>, Counted(map[i - 1], width))
    BY <1>1 DEF EntryCode, Join
  <2> DEFINE a == <<i - 1>>
             c == Counted(map[i - 1], width)
  <2>4. a \in Seq(Byte) /\ c \in Seq(Byte) /\ Len(a) = 1
    BY <2>1, <2>2
  <2> HIDE DEF a, c
  <2>5. Join(a, c) \in Seq(Byte) /\ Len(Join(a, c)) = Len(a) + Len(c)
    BY <2>4, JoinType
  <2> QED BY <1>1, <2>2, <2>3, <2>4, <2>5 DEF a, c
<1>2. CASE i - 1 \notin DOMAIN map
  BY <1>2 DEF EntryCode
<1> QED BY <1>1, <1>2

\* WriteMap writes the code of an entry, if its string fits.
LEMMA EntryWrites ==
  ASSUME Masked, NEW map, map \in [DOMAIN map -> Seq(Byte)], DOMAIN map \subseteq Byte, NEW i \in 1..Base,
         NEW s, Writing(s)
  PROVE  Writes(s, EntryWritten(s, map, i), EntryCode(map, s.containerSizeBytes, i),
                i - 1 \in DOMAIN map => Len(map[i - 1]) < Power(Base, s.containerSizeBytes))
<1> DEFINE width == s.containerSizeBytes
           fits == i - 1 \in DOMAIN map => Len(map[i - 1]) < Power(Base, width)
<1>0. width \in {1, 2, 4}
  BY StreamFields DEF Writing
<1>1. CASE i - 1 \in DOMAIN map
  <2> DEFINE t == WriteScalar(s, i - 1, 1)
             u == WriteString(t, map[i - 1])
             f2 == Len(map[i - 1]) < Power(Base, width)
             f1 == TRUE
             c1 == <<i - 1>>
             c2 == Counted(map[i - 1], width)
  <2>0. map[i - 1] \in Seq(Byte) /\ i - 1 \in Nat /\ i - 1 \in Byte
    BY <1>1
  <2>1. Number(i - 1, 1) = c1 /\ c1 \in Seq(Byte)
    BY <2>0, ByteNumber
  <2>2. Writes(s, t, Number(i - 1, 1), TRUE)
    BY <2>0, ScalarWrites
  <2>3. Writes(s, t, c1, f1)
    BY <2>1, <2>2
  <2>4. Writing(t) /\ t.containerSizeBytes = width
    <3> HIDE DEF t, c1
    <3> QED BY <2>3, WritesType
  <2>5. Writes(t, u, c2, f2)
    <3>1. Writes(t, WriteString(t, map[i - 1]), Counted(map[i - 1], t.containerSizeBytes),
                 Len(map[i - 1]) < Power(Base, t.containerSizeBytes))
      <4> HIDE DEF t
      <4> QED BY <2>0, <2>4, StringWrites
    <3> QED BY <2>4, <3>1
  <2>6. c2 \in Seq(Byte)
    BY <1>0, <2>0, CountedType
  <2>7. EntryWritten(s, map, i) = u /\ EntryCode(map, width, i) = Join(c1, c2) /\ (fits <=> f1 /\ f2)
    BY <1>0, <1>1, EntryCodeType DEF EntryWritten
  <2> HIDE DEF t, u, f1, f2, c1, c2, width, fits
  <2>8. Writes(s, u, Join(c1, c2), f1 /\ f2)
    BY <2>1, <2>3, <2>5, <2>6, WritesThen
  <2>9. Writes(s, u, Join(c1, c2), fits)
    BY <2>7, <2>8, WritesSame
  <2> QED BY <2>7, <2>9 DEF fits, width
<1>2. CASE i - 1 \notin DOMAIN map
  <2>1. EntryWritten(s, map, i) = s /\ EntryCode(map, width, i) = << >> /\ (fits <=> TRUE)
    BY <1>2 DEF EntryWritten, EntryCode
  <2>2. Writes(s, s, << >>, TRUE)
    BY WritesNothing
  <2>3. Writes(s, s, << >>, fits)
    <3> HIDE DEF fits
    <3> QED BY <2>1, <2>2, WritesSame
  <2> QED BY <2>1, <2>3
<1> QED BY <1>1, <1>2

\* WriteMap writes the size and then the entries in the order of their keys.
LEMMA MapSteps ==
  ASSUME Masked, NEW s, Writing(s), NEW map, map \in [DOMAIN map -> Seq(Byte)],
         DOMAIN map \subseteq Byte, Cardinality(DOMAIN map) \in Nat, NEW n \in Nat, n = Base
  PROVE  \E F : /\ WriteMap(s, map) = F[n]
                /\ F[0] = WriteSize(s, Cardinality(DOMAIN map))
                /\ \A i \in 1..n : F[i] = EntryWritten(F[i - 1], map, i)
<1> DEFINE S == Writers(s)
           first == WriteSize(s, Cardinality(DOMAIN map))
           step == [z \in S \X (1..n) |-> EntryWritten(z[1], map, z[2])]
           F == CHOOSE f : f = [i \in {k \in Nat : k <= n} |->
                                   IF i = 0 THEN first ELSE EntryWritten(f[i - 1], map, i)]
<1>1. first \in S
  <2>1. s \in Writers(s)
    BY DEF Writers, Writing
  <2>2. Writes(s, first, Number(Cardinality(DOMAIN map), s.containerSizeBytes),
               Cardinality(DOMAIN map) < Power(Base, s.containerSizeBytes))
    BY SizeWrites
  <2> QED BY <2>1, <2>2, WritersType
<1>2. ASSUME NEW t \in S, NEW i \in 1..n PROVE EntryWritten(t, map, i) \in S
  <2>1. Writing(t)
    BY WriterIs
  <2>2. Writes(t, EntryWritten(t, map, i), EntryCode(map, t.containerSizeBytes, i),
               i - 1 \in DOMAIN map => Len(map[i - 1]) < Power(Base, t.containerSizeBytes))
    <3>1. i \in 1..Base
      OBVIOUS
    <3> QED BY <2>1, <3>1, EntryWrites
  <2> QED BY <2>2, WritersType
<1>3. step \in [S \X (1..n) -> S]
  <2> HIDE DEF S
  <2> QED BY <1>2
<1>4. PICK f : Computes(f, n, S, first, step)
  <2> HIDE DEF S, first, step
  <2> QED BY <1>1, <1>3, RunExists
<1>5. /\ f = [i \in {k \in Nat : k <= n} |-> f[i]]
      /\ f[0] = first
      /\ \A i \in 1..n : f[i - 1] \in S /\ f[i] = step[<<f[i - 1], i>>]
  <2> HIDE DEF S, first, step
  <2> QED BY <1>4 DEF Computes
<1>6. f = [i \in {k \in Nat : k <= n} |-> IF i = 0 THEN first ELSE EntryWritten(f[i - 1], map, i)]
  <2>1. ASSUME NEW i \in {k \in Nat : k <= n}, i # 0 PROVE f[i] = EntryWritten(f[i - 1], map, i)
    <3>1. i \in 1..n
      BY <2>1
    <3>2. f[i - 1] \in S /\ f[i] = step[<<f[i - 1], i>>]
      BY <1>5, <3>1
    <3> HIDE DEF S
    <3> QED BY <3>1, <3>2
  <2> HIDE DEF first, step, S
  <2> QED BY <1>5, <2>1
<1>7. F = [i \in {k \in Nat : k <= n} |-> IF i = 0 THEN first ELSE EntryWritten(F[i - 1], map, i)]
  <2> HIDE DEF first, step, S
  <2> QED BY <1>6
<1>8. WriteMap(s, map) = F[n]
  <2>1. n = Base
    OBVIOUS
  <2> QED BY <2>1, Zenon DEF WriteMap, Run, EntryWritten
<1> HIDE DEF F, step, S
<1>9. F[0] = first /\ \A i \in 1..n : F[i] = EntryWritten(F[i - 1], map, i)
  <2> HIDE DEF first
  <2>1. F[0] = first
    BY <1>7
  <2>2. ASSUME NEW i \in 1..n PROVE F[i] = EntryWritten(F[i - 1], map, i)
    <3>1. i \in {k \in Nat : k <= n} /\ i # 0
      OBVIOUS
    <3> QED BY <1>7, <3>1
  <2> QED BY <2>1, <2>2
<1> QED BY <1>8, <1>9

\* Every bit has a byte among those of a bit array and a place in it.
LEMMA ByteCountType ==
  ASSUME NEW n \in Nat
  PROVE  /\ ByteCount(n) \in Nat
         /\ \A j \in 0..(n - 1) : j \div Bits + 1 \in 1..ByteCount(n) /\ j % Bits \in 0..(Bits - 1)
                                   /\ j = (j \div Bits) * Bits + (j % Bits)
<1>1. Bits \in Nat \ {0}
  BY BitsAssumption
<1> DEFINE q == (n + Bits - 1) \div Bits
           r == (n + Bits - 1) % Bits
<1>2. q \in Int /\ r \in 0..(Bits - 1) /\ n + Bits - 1 = Bits * q + r
  <2>1. n + Bits - 1 \in Int /\ Bits \in Int /\ Bits > 0
    BY <1>1
  <2> QED BY <2>1, Division
<1>3. ByteCount(n) = q
  BY DEF ByteCount
<1> HIDE DEF q, r
<1>4. q >= 0
  <2>1. CASE q <= -1
    <3>1. Bits * q <= Bits * (-1)
      BY <1>1, <1>2, <2>1
    <3> QED BY <1>1, <1>2, <3>1
  <2> QED BY <1>2, <2>1
<1>5. ASSUME NEW j \in 0..(n - 1)
      PROVE  j \div Bits + 1 \in 1..q /\ j % Bits \in 0..(Bits - 1) /\ j = (j \div Bits) * Bits + (j % Bits)
  <2>0. j \div Bits \in Int /\ j % Bits \in 0..(Bits - 1) /\ j = Bits * (j \div Bits) + (j % Bits)
    BY <1>1, Division
  <2>1. PICK p \in Int, m \in 0..(Bits - 1) : j = Bits * p + m /\ p = j \div Bits /\ m = j % Bits
    BY <2>0
  <2>2. p >= 0
    <3>1. CASE p <= -1
      <4>1. Bits * p <= Bits * (-1)
        BY <1>1, <2>1, <3>1
      <4> QED BY <1>1, <2>1, <4>1
    <3> QED BY <2>1, <3>1
  <2>3. p + 1 <= q
    <3>1. CASE q <= p
      <4>1. Bits * q <= Bits * p
        BY <1>1, <1>2, <2>1, <3>1
      <4> QED BY <1>1, <1>2, <2>1, <4>1
    <3> QED BY <1>2, <2>1, <3>1
  <2>4. Bits * p = p * Bits
    BY <1>1, <2>1
  <2>5. p + 1 \in 1..q
    BY <1>2, <2>1, <2>2, <2>3
  <2>6. j = p * Bits + m
    BY <2>1, <2>4
  <2>7. p + 1 \in 1..q /\ m \in 0..(Bits - 1) /\ j = p * Bits + m
    BY <2>1, <2>5, <2>6
  <2>8. p = j \div Bits /\ m = j % Bits
    BY <2>1
  <2> QED BY <2>7, <2>8, Zenon
<1> QED BY <1>2, <1>3, <1>4, <1>5

\* The bit of a flag, counted from the last flag.
FlagBit(flags, j) == IF j < FlagCount /\ flags[FlagCount - j] = 0 THEN 1 ELSE 0

\* A byte of packed flags.
FlagByte(flags, byte) == ValueOf([k \in 1..Bits |-> FlagBit(flags, (byte - 1) * Bits + k - 1)], 2)

\* A byte of packed flags is a byte, and its bits are the flags.
LEMMA FlagByteType ==
  ASSUME NEW flags, NEW byte
  PROVE  /\ FlagByte(flags, byte) \in Byte
         /\ \A k \in 1..Bits :
               Digit(FlagByte(flags, byte), k - 1, 2) = FlagBit(flags, (byte - 1) * Bits + k - 1)
<1> DEFINE digits == [k \in 1..Bits |-> FlagBit(flags, (byte - 1) * Bits + k - 1)]
<1>1. Bits \in Nat
  BY BitsAssumption
<1>2. digits \in [1..Bits -> 0..(2 - 1)]
  BY DEF FlagBit
<1>3. \A k \in 1..Bits : digits[k] = FlagBit(flags, (byte - 1) * Bits + k - 1)
  OBVIOUS
<1>4. FlagByte(flags, byte) = ValueOf(digits, 2)
  BY DEF FlagByte
<1> HIDE DEF digits
<1>5. /\ ValueOf(digits, 2) \in 0..(Power(2, Bits) - 1)
      /\ \A k \in 1..Bits : Digit(ValueOf(digits, 2), k - 1, 2) = digits[k]
  <2>1. 2 \in Nat \ {0}
    OBVIOUS
  <2> QED BY <1>1, <1>2, <2>1, DigitsOfValue
<1> QED BY <1>3, <1>4, <1>5 DEF Byte, Base

\* The packed flags are as many bytes as the flags take.
LEMMA PackedFlagsType ==
  ASSUME NEW flags
  PROVE  /\ PackedFlags(flags) = [byte \in 1..ByteCount(FlagCount) |-> FlagByte(flags, byte)]
         /\ PackedFlags(flags) \in Seq(Byte) /\ Len(PackedFlags(flags)) = ByteCount(FlagCount)
<1>1. PackedFlags(flags) = [byte \in 1..ByteCount(FlagCount) |-> FlagByte(flags, byte)]
  BY Zenon DEF PackedFlags, FlagByte, FlagBit
<1>2. ByteCount(FlagCount) \in Nat
  BY SizesAssumption, ByteCountType
<1>3. \A byte \in 1..ByteCount(FlagCount) : FlagByte(flags, byte) \in Byte
  BY FlagByteType
<1> HIDE DEF Byte
<1> QED BY <1>1, <1>2, <1>3

\* A byte of packed flags is written as it is.
LEMMA FlagByteWrites ==
  ASSUME Masked, NEW s, Writing(s), NEW flags, NEW byte
  PROVE  Writes(s, WriteScalar(s, FlagByte(flags, byte), 1), <<FlagByte(flags, byte)>>, TRUE)
<1>1. FlagByte(flags, byte) \in Byte /\ FlagByte(flags, byte) \in Nat
  BY BaseType, FlagByteType DEF Byte
<1>2. Number(FlagByte(flags, byte), 1) = <<FlagByte(flags, byte)>>
  BY <1>1, ByteNumber
<1>3. Writes(s, WriteScalar(s, FlagByte(flags, byte), 1), Number(FlagByte(flags, byte), 1), TRUE)
  BY <1>1, ScalarWrites
<1> QED BY <1>2, <1>3

\* What WriteBits packs into a byte.
BitsByte(bitArray, byte) ==
    ValueOf([bit \in 1..Bits |->
                IF (byte - 1) * Bits + bit - 1 >= Len(bitArray) THEN 0
                ELSE (bitArray[BitIndex((byte - 1) * Bits + bit - 1, Len(bitArray), TRUE)] + 1) % 2], 2)

\* The flags as a message writes them.
BitsWritten(s, flags) == WriteBits(s, flags, 1, TRUE)

\* What WriteBits packs into a byte is the byte of packed flags.
LEMMA BitsBytes ==
  ASSUME NEW flags \in [1..FlagCount -> {0, 1}], NEW byte \in Nat \ {0}
  PROVE  BitsByte(flags, byte) = FlagByte(flags, byte)
<1>1. Len(flags) = FlagCount /\ FlagCount \in Nat
  BY SizesAssumption
<1>2. ASSUME NEW bit \in 1..Bits
      PROVE  (IF (byte - 1) * Bits + bit - 1 >= Len(flags) THEN 0
              ELSE (flags[BitIndex((byte - 1) * Bits + bit - 1, Len(flags), TRUE)] + 1) % 2)
               = FlagBit(flags, (byte - 1) * Bits + bit - 1)
  <2> DEFINE j == (byte - 1) * Bits + bit - 1
  <2>1. j \in Nat
    <3>1. byte - 1 \in Nat /\ Bits \in Nat
      BY BitsAssumption
    <3>2. (byte - 1) * Bits \in Nat
      BY <3>1
    <3> QED BY <3>2
  <2> HIDE DEF j
  <2>2. (IF j >= FlagCount THEN 0 ELSE (flags[BitIndex(j, FlagCount, TRUE)] + 1) % 2) = FlagBit(flags, j)
    <3>1. CASE j >= FlagCount
      BY <1>1, <2>1, <3>1 DEF FlagBit
    <3>2. CASE j < FlagCount
      <4>1. FlagCount - j \in 1..FlagCount
        BY <1>1, <2>1, <3>2
      <4>2. flags[FlagCount - j] \in {0, 1}
        BY <4>1
      <4>3. (0 + 1) % 2 = 1 /\ (1 + 1) % 2 = 0
        OBVIOUS
      <4> QED BY <1>1, <2>1, <3>2, <4>2, <4>3 DEF FlagBit, BitIndex
    <3>3. j >= FlagCount \/ j < FlagCount
      BY <1>1, <2>1
    <3> QED BY <3>1, <3>2, <3>3, Zenon
  <2> QED BY <1>1, <2>2 DEF j
<1> QED BY <1>2 DEF BitsByte, FlagByte

\* WriteBits writes one byte after the other.
LEMMA BitsSteps ==
  ASSUME Masked, NEW s, Writing(s), NEW flags \in [1..FlagCount -> {0, 1}],
         NEW n \in Nat, n = ByteCount(FlagCount)
  PROVE  \E F : /\ BitsWritten(s, flags) = F[n] /\ F[0] = s
                /\ \A i \in 1..n : F[i] = WriteScalar(F[i - 1], BitsByte(flags, i), 1)
<1> DEFINE S == Writers(s)
           first == s
           step == [z \in S \X (1..n) |-> WriteScalar(z[1], BitsByte(flags, z[2]), 1)]
           F == CHOOSE f : f = [i \in {k \in Nat : k <= n} |->
                                   IF i = 0 THEN first ELSE WriteScalar(f[i - 1], BitsByte(flags, i), 1)]
<1>1. first \in S
  BY DEF Writers, Writing
<1>2. ASSUME NEW t \in S, NEW i \in 1..n PROVE WriteScalar(t, BitsByte(flags, i), 1) \in S
  <2>1. Writing(t)
    BY WriterIs
  <2>2. BitsByte(flags, i) = FlagByte(flags, i)
    BY BitsBytes
  <2>3. Writes(t, WriteScalar(t, FlagByte(flags, i), 1), <<FlagByte(flags, i)>>, TRUE)
    BY <2>1, FlagByteWrites
  <2> QED BY <2>2, <2>3, WritersType
<1>3. step \in [S \X (1..n) -> S]
  <2> HIDE DEF S
  <2> QED BY <1>2
<1>4. PICK f : Computes(f, n, S, first, step)
  <2> HIDE DEF S, first, step
  <2> QED BY <1>1, <1>3, RunExists
<1>5. /\ f = [i \in {k \in Nat : k <= n} |-> f[i]]
      /\ f[0] = first
      /\ \A i \in 1..n : f[i - 1] \in S /\ f[i] = step[<<f[i - 1], i>>]
  <2> HIDE DEF S, first, step
  <2> QED BY <1>4 DEF Computes
<1>6. f = [i \in {k \in Nat : k <= n} |-> IF i = 0 THEN first
        ELSE WriteScalar(f[i - 1], BitsByte(flags, i), 1)]
  <2>1. ASSUME NEW i \in {k \in Nat : k <= n}, i # 0 PROVE f[i] = WriteScalar(f[i - 1], BitsByte(flags, i), 1)
    <3>1. i \in 1..n
      BY <2>1
    <3>2. f[i - 1] \in S /\ f[i] = step[<<f[i - 1], i>>]
      BY <1>5, <3>1
    <3> HIDE DEF S
    <3> QED BY <3>1, <3>2
  <2> HIDE DEF first, step, S
  <2> QED BY <1>5, <2>1
<1>7. F = [i \in {k \in Nat : k <= n} |-> IF i = 0 THEN first
        ELSE WriteScalar(F[i - 1], BitsByte(flags, i), 1)]
  <2> HIDE DEF first, step, S
  <2> QED BY <1>6
<1>8. BitsWritten(s, flags) = F[n]
  <2>1. ByteCount(Len(flags)) = n
    BY SizesAssumption
  <2> QED BY <2>1, Zenon DEF BitsWritten, WriteBits, Run, BitsByte
<1> HIDE DEF F, step, S
<1>9. F[0] = first /\ \A i \in 1..n : F[i] = WriteScalar(F[i - 1], BitsByte(flags, i), 1)
  <2> HIDE DEF first
  <2>1. F[0] = first
    BY <1>7
  <2>2. ASSUME NEW i \in 1..n PROVE F[i] = WriteScalar(F[i - 1], BitsByte(flags, i), 1)
    <3>1. i \in {k \in Nat : k <= n} /\ i # 0
      OBVIOUS
    <3> QED BY <1>7, <3>1
  <2> QED BY <2>1, <2>2
<1> QED BY <1>8, <1>9

\* Bits are written as packed flags.
LEMMA BitsWrites ==
  ASSUME Masked, NEW s, Writing(s), NEW flags \in [1..FlagCount -> {0, 1}]
  PROVE  Writes(s, BitsWritten(s, flags), PackedFlags(flags), TRUE)
<1> DEFINE n == ByteCount(FlagCount)
           codes == [i \in 1..n |-> <<FlagByte(flags, i)>>]
           Fit == 1..n
           P == PackedFlags(flags)
<1>1. n \in Nat
  BY SizesAssumption, ByteCountType
<1>2. P \in Seq(Byte) /\ Len(P) = n /\ \A i \in 1..n : P[i] = FlagByte(flags, i)
  BY PackedFlagsType
<1>3. \A i \in 1..n : codes[i] = <<FlagByte(flags, i)>>
  OBVIOUS
<1>4. codes \in [1..n -> Seq(Byte)]
  <2>1. \A i \in 1..n : <<FlagByte(flags, i)>> \in Seq(Byte)
    BY FlagByteType
  <2> QED BY <2>1
<1>5. PICK F : /\ BitsWritten(s, flags) = F[n] /\ F[0] = s
               /\ \A i \in 1..n : F[i] = WriteScalar(F[i - 1], BitsByte(flags, i), 1)
  <2> HIDE DEF n
  <2>1. n = ByteCount(FlagCount)
    BY DEF n
  <2> QED BY <1>1, <2>1, BitsSteps
<1> HIDE DEF n, codes, P
<1>6. Concat(codes) = P
  <2>1. codes \in [1..Len(P) -> Seq(Byte)] /\ \A i \in 1..Len(P) : codes[i] = <<P[i]>>
    BY <1>2, <1>3, <1>4
  <2> QED BY <1>2, <2>1, ConcatSingles
<1>7. ASSUME NEW i \in 1..n, Writing(F[i - 1])
      PROVE  Writes(F[i - 1], F[i], codes[i], i \in Fit)
  <2>1. F[i] = WriteScalar(F[i - 1], FlagByte(flags, i), 1)
    BY <1>5, BitsBytes
  <2>2. Writes(F[i - 1], WriteScalar(F[i - 1], FlagByte(flags, i), 1), <<FlagByte(flags, i)>>, TRUE)
    BY <1>7, FlagByteWrites
  <2>3. Writes(F[i - 1], F[i], codes[i], TRUE) /\ (TRUE <=> i \in Fit)
    BY <1>3, <2>1, <2>2
  <2> HIDE DEF Fit
  <2> QED BY <2>3, WritesSame
<1>8. Writes(F[0], F[n], Concat(codes), 1..n \subseteq Fit)
  <2> HIDE DEF Fit
  <2> QED BY <1>1, <1>4, <1>5, <1>7, WritesAll
<1>9. 1..n \subseteq Fit <=> TRUE
  OBVIOUS
<1>10. Writes(F[0], F[n], P, TRUE)
  <2> HIDE DEF Fit
  <2> QED BY <1>6, <1>8, <1>9, WritesSame
<1> QED BY <1>5, <1>10 DEF n, P

\* A size and the elements after it.
LEMMA SizedWrites ==
  ASSUME Masked, NEW s, Writing(s), NEW size \in Nat, NEW n \in Nat, NEW codes \in [1..n -> Seq(Byte)],
         NEW F, NEW Fit, F[0] = WriteSize(s, size),
         \A i \in 1..n : Writing(F[i - 1]) /\ F[i - 1].containerSizeBytes = s.containerSizeBytes
                           => Writes(F[i - 1], F[i], codes[i], i \in Fit)
  PROVE  Writes(s, F[n], Join(Number(size, s.containerSizeBytes), Concat(codes)),
                size < Power(Base, s.containerSizeBytes) /\ 1..n \subseteq Fit)
<1> DEFINE width == s.containerSizeBytes
           f1 == size < Power(Base, width)
           f2 == 1..n \subseteq Fit
           c1 == Number(size, width)
           c2 == Concat(codes)
           t == F[0]
           u == F[n]
<1>1. Writes(s, t, c1, f1)
  BY SizeWrites
<1>2. Writing(t) /\ t.containerSizeBytes = width
  <2> HIDE DEF t, c1, f1
  <2> QED BY <1>1, WritesType
<1>3. Writes(t, u, c2, f2)
  BY <1>2, WritesAll
<1>4. c1 \in Seq(Byte)
  <2>1. width \in {1, 2, 4}
    BY StreamFields DEF Writing
  <2> QED BY <2>1, NumberType
<1>5. c2 \in Seq(Byte)
  BY ConcatType
<1> HIDE DEF f1, f2, c1, c2, t, u
<1>6. Writes(s, u, Join(c1, c2), f1 /\ f2)
  BY <1>1, <1>3, <1>4, <1>5, WritesThen
<1> QED BY <1>6 DEF f1, f2, c1, c2, u

\* The codes of the strings of a vector.
Elements(strings, width) == [i \in DOMAIN strings |-> Counted(strings[i], width)]
\* The sizes in a vector fit into the width.
VectorFits(strings, width) ==
    Len(strings) < Power(Base, width) /\ \A i \in DOMAIN strings : Len(strings[i]) < Power(Base, width)

\* A vector of strings is written as its size and its counted strings, if all sizes fit.
LEMMA VectorWrites ==
  ASSUME Masked, NEW s, Writing(s), NEW strings \in Seq(Seq(Byte))
  PROVE  Writes(s, WriteVector(s, strings),
                Join(Number(Len(strings), s.containerSizeBytes), Concat(Elements(strings,
                  s.containerSizeBytes))),
                VectorFits(strings, s.containerSizeBytes))
<1> DEFINE n == Len(strings)
           width == s.containerSizeBytes
           codes == Elements(strings, width)
           Fit == {i \in 1..n : Len(strings[i]) < Power(Base, width)}
           f == n < Power(Base, width) /\ 1..n \subseteq Fit
<1>1. n \in Nat /\ strings \in [1..n -> Seq(Byte)] /\ DOMAIN strings = 1..n
  OBVIOUS
<1>2. width \in {1, 2, 4}
  BY StreamFields DEF Writing
<1>3. codes \in [1..n -> Seq(Byte)] /\ \A i \in 1..n : codes[i] = Counted(strings[i], width)
  <2>1. \A i \in 1..n : Counted(strings[i], width) \in Seq(Byte)
    BY <1>1, <1>2, CountedType
  <2> QED BY <1>1, <2>1 DEF Elements
<1>4. PICK F : /\ WriteVector(s, strings) = F[n] /\ F[0] = WriteSize(s, n)
               /\ \A i \in 1..n : F[i] = WriteString(F[i - 1], strings[i])
  BY <1>1, VectorSteps
<1>5. ASSUME NEW i \in 1..n, Writing(F[i - 1]), F[i - 1].containerSizeBytes = width
      PROVE  Writes(F[i - 1], F[i], codes[i], i \in Fit)
  <2>1. strings[i] \in Seq(Byte)
    BY <1>1
  <2>2. Writes(F[i - 1], WriteString(F[i - 1], strings[i]), Counted(strings[i], width),
               Len(strings[i]) < Power(Base, width))
    BY <1>5, <2>1, StringWrites
  <2>3. Len(strings[i]) < Power(Base, width) <=> i \in Fit
    OBVIOUS
  <2> HIDE DEF Fit, codes, n, width
  <2>4. Writes(F[i - 1], F[i], codes[i], Len(strings[i]) < Power(Base, width))
    BY <1>3, <1>4, <2>2
  <2> QED BY <2>3, <2>4, WritesSame
<1> HIDE DEF n, codes, Fit
<1>6. Writes(s, F[n], Join(Number(n, width), Concat(codes)), n < Power(Base, width) /\ 1..n \subseteq Fit)
  BY <1>1, <1>3, <1>4, <1>5, SizedWrites
<1>7. f <=> VectorFits(strings, width)
  BY <1>1 DEF VectorFits, Fit, n
<1>8. Writes(s, F[n], Join(Number(n, width), Concat(codes)), VectorFits(strings, width))
  <2>1. Writes(s, F[n], Join(Number(n, width), Concat(codes)), f)
    BY <1>6
  <2> HIDE DEF f, width
  <2> QED BY <1>7, <2>1, WritesSame
<1> QED BY <1>4, <1>8 DEF n, codes

\* The codes of the numbers of a deque.
Numbers(numbers) == [i \in DOMAIN numbers |-> Number(numbers[i], 2)]

\* A deque of numbers is written as its size and its numbers, if the size fits.
LEMMA DequeWrites ==
  ASSUME Masked, NEW s, Writing(s), NEW numbers \in Seq(Nat)
  PROVE  Writes(s, WriteDeque(s, numbers),
                Join(Number(Len(numbers), s.containerSizeBytes), Concat(Numbers(numbers))),
                Len(numbers) < Power(Base, s.containerSizeBytes))
<1> DEFINE n == Len(numbers)
           width == s.containerSizeBytes
           codes == Numbers(numbers)
           Fit == 1..n
           f == n < Power(Base, width) /\ 1..n \subseteq Fit
<1>1. n \in Nat /\ numbers \in [1..n -> Nat] /\ DOMAIN numbers = 1..n
  OBVIOUS
<1>3. codes \in [1..n -> Seq(Byte)] /\ \A i \in 1..n : codes[i] = Number(numbers[i], 2)
  <2>1. \A i \in 1..n : Number(numbers[i], 2) \in Seq(Byte)
    BY <1>1, NumberType
  <2> QED BY <1>1, <2>1 DEF Numbers
<1>4. PICK F : /\ WriteDeque(s, numbers) = F[n] /\ F[0] = WriteSize(s, n)
               /\ \A i \in 1..n : F[i] = WriteScalar(F[i - 1], numbers[i], 2)
  BY <1>1, DequeSteps
<1>5. ASSUME NEW i \in 1..n, Writing(F[i - 1])
      PROVE  Writes(F[i - 1], F[i], codes[i], i \in Fit)
  <2>1. numbers[i] \in Nat
    BY <1>1
  <2>2. Writes(F[i - 1], WriteScalar(F[i - 1], numbers[i], 2), Number(numbers[i], 2), TRUE)
    BY <1>5, <2>1, ScalarWrites
  <2>3. TRUE <=> i \in Fit
    OBVIOUS
  <2> HIDE DEF Fit, codes, n
  <2>4. Writes(F[i - 1], F[i], codes[i], TRUE)
    BY <1>3, <1>4, <2>2
  <2> QED BY <2>3, <2>4, WritesSame
<1>7. f <=> n < Power(Base, width)
  OBVIOUS
<1> HIDE DEF n, codes, Fit
<1>6. Writes(s, F[n], Join(Number(n, width), Concat(codes)), n < Power(Base, width) /\ 1..n \subseteq Fit)
  BY <1>1, <1>3, <1>4, <1>5, SizedWrites
<1>8. Writes(s, F[n], Join(Number(n, width), Concat(codes)), n < Power(Base, width))
  <2> DEFINE g == n < Power(Base, width)
  <2>1. Writes(s, F[n], Join(Number(n, width), Concat(codes)), f) /\ (f <=> g)
    BY <1>6, <1>7
  <2> HIDE DEF f, g, width
  <2>2. Writes(s, F[n], Join(Number(n, width), Concat(codes)), g)
    BY <2>1, WritesSame
  <2> QED BY <2>2 DEF g
<1> QED BY <1>4, <1>8 DEF n, codes

\* The codes of the entries of a map.
Entries(map, width) == [i \in 1..Base |-> EntryCode(map, width, i)]
\* The sizes in a map fit into the width.
MapFits(map, width) ==
    Cardinality(DOMAIN map) < Power(Base, width) /\ \A key \in DOMAIN map : Len(map[key]) < Power(Base, width)

\* A map is written as its size and its entries in the order of their keys, if all sizes
\* fit.
LEMMA MapWrites ==
  ASSUME Masked, NEW s, Writing(s), NEW map, map \in [DOMAIN map -> Seq(Byte)], DOMAIN map \subseteq Byte
  PROVE  Writes(s, WriteMap(s, map),
                Join(Number(Cardinality(DOMAIN map), s.containerSizeBytes),
                     Concat(Entries(map, s.containerSizeBytes))),
                MapFits(map, s.containerSizeBytes))
<1> DEFINE size == Cardinality(DOMAIN map)
           n == Base
           width == s.containerSizeBytes
           codes == Entries(map, width)
           Fit == {i \in 1..n : i - 1 \in DOMAIN map => Len(map[i - 1]) < Power(Base, width)}
           f == size < Power(Base, width) /\ 1..n \subseteq Fit
<1>1. n \in Nat
  BY BaseType
<1>2. width \in {1, 2, 4}
  BY StreamFields DEF Writing
<1>0. size \in Nat
  <2>1. IsFiniteSet(Byte)
    BY <1>1, FS_Interval DEF Byte
  <2>2. IsFiniteSet(DOMAIN map)
    BY <2>1, FS_Subset
  <2> QED BY <2>2, FS_CardinalityType
<1>3. codes \in [1..n -> Seq(Byte)] /\ \A i \in 1..n : codes[i] = EntryCode(map, width, i)
  <2>1. \A i \in 1..n : EntryCode(map, width, i) \in Seq(Byte)
    BY <1>2, EntryCodeType
  <2> QED BY <2>1 DEF Entries
<1>4. PICK F : /\ WriteMap(s, map) = F[n] /\ F[0] = WriteSize(s, size)
               /\ \A i \in 1..n : F[i] = EntryWritten(F[i - 1], map, i)
  <2> HIDE DEF size
  <2> QED BY <1>0, <1>1, MapSteps DEF size
<1>5. ASSUME NEW i \in 1..n, Writing(F[i - 1]), F[i - 1].containerSizeBytes = width
      PROVE  Writes(F[i - 1], F[i], codes[i], i \in Fit)
  <2>2. Writes(F[i - 1], EntryWritten(F[i - 1], map, i), EntryCode(map, width, i),
               i - 1 \in DOMAIN map => Len(map[i - 1]) < Power(Base, width))
    BY <1>5, EntryWrites
  <2>3. (i - 1 \in DOMAIN map => Len(map[i - 1]) < Power(Base, width)) <=> i \in Fit
    OBVIOUS
  <2> DEFINE g == i - 1 \in DOMAIN map => Len(map[i - 1]) < Power(Base, width)
             h == i \in Fit
  <2>4. Writes(F[i - 1], F[i], codes[i], g)
    <3> HIDE DEF Fit, codes, n, width
    <3> QED BY <1>3, <1>4, <2>2
  <2>5. g <=> h
    BY <2>3
  <2> HIDE DEF Fit, codes, n, width, g, h
  <2>6. Writes(F[i - 1], F[i], codes[i], h)
    BY <2>4, <2>5, WritesSame
  <2> QED BY <2>6 DEF h
<1>7. f <=> MapFits(map, width)
  <2>1. 1..n \subseteq Fit <=> \A key \in DOMAIN map : Len(map[key]) < Power(Base, width)
    <3>1. ASSUME 1..n \subseteq Fit, NEW key \in DOMAIN map PROVE Len(map[key]) < Power(Base, width)
      <4>1. key + 1 \in 1..n /\ (key + 1) - 1 = key
        BY <1>1 DEF Byte
      <4>2. key + 1 \in Fit
        BY <3>1, <4>1
      <4> QED BY <4>1, <4>2
    <3>2. ASSUME \A key \in DOMAIN map : Len(map[key]) < Power(Base, width), NEW i \in 1..n PROVE i \in Fit
      BY <3>2
    <3> HIDE DEF Fit
    <3> QED BY <3>1, <3>2
  <2> HIDE DEF Fit
  <2> QED BY <2>1 DEF MapFits
<1> HIDE DEF n, codes, Fit, size
<1>6. Writes(s, F[n], Join(Number(size, width), Concat(codes)), size < Power(Base, width)
        /\ 1..n \subseteq Fit)
  BY <1>0, <1>1, <1>3, <1>4, <1>5, SizedWrites
<1>8. Writes(s, F[n], Join(Number(size, width), Concat(codes)), MapFits(map, width))
  <2>1. Writes(s, F[n], Join(Number(size, width), Concat(codes)), f)
    BY <1>6
  <2> HIDE DEF f, width
  <2> QED BY <1>7, <2>1, WritesSame
<1> QED BY <1>4, <1>8 DEF size, codes

\* A sequence over a set is one over a larger set.
LEMMA LargerSeq ==
  ASSUME NEW V, NEW W, V \subseteq W, NEW a \in Seq(V)
  PROVE  a \in Seq(W)
<1>1. a \in [1..Len(a) -> W] /\ Len(a) \in Nat
  OBVIOUS
<1>2. \A f, n : n \in Nat /\ f \in [1..n -> W] => f \in Seq(W)
  OBVIOUS
<1> QED BY <1>1, <1>2

\* j is a followed by c.
IsJoin(j, a, c) ==
    /\ Len(j) = Len(a) + Len(c)
    /\ \A i \in 1..Len(a) : j[i] = a[i]
    /\ \A i \in 1..Len(c) : j[Len(a) + i] = c[i]

\* JoinType once more, with the elements in one operator.
LEMMA JoinIs ==
  ASSUME NEW V, NEW a \in Seq(V), NEW c \in Seq(V)
  PROVE  Join(a, c) \in Seq(V) /\ IsJoin(Join(a, c), a, c)
BY DEF Join, IsJoin

\* A byte of the field for a name.
FieldByte(name, i) ==
    IF i <= Len(name.str) THEN name.str[i]
    ELSE IF i - Len(name.str) - 1 \in DOMAIN name.garbage THEN name.garbage[i - Len(name.str) - 1]
    ELSE 0

\* The bytes of a field: the string, a zero, the garbage, and zeroes up to the size.
LEMMA FieldBytesAre ==
  ASSUME NEW name, name.str \in Seq(Byte), name.garbage \in Seq(Byte)
  PROVE  /\ FieldBytes(name) = [i \in 1..NameSize |-> FieldByte(name, i)]
         /\ FieldBytes(name) \in Seq(Byte) /\ Len(FieldBytes(name)) = NameSize
<1> DEFINE str == name.str
           garbage == name.garbage
           zeros == [i \in 1..NameSize |-> 0]
           a == Join(str, <<0>>)
           c == Join(a, garbage)
           all == Join(c, zeros)
           ls == Len(str)
           lg == Len(garbage)
<1>0. NameSize \in Nat /\ 0 \in Byte
  BY SizesAssumption, BaseType DEF Byte
<1> HIDE DEF Byte
<1>1. /\ str \in Seq(Byte) /\ garbage \in Seq(Byte) /\ <<0>> \in Seq(Byte) /\ Len(<<0>>) = 1
      /\ zeros \in Seq(Byte) /\ Len(zeros) = NameSize /\ \A i \in 1..NameSize : zeros[i] = 0
      /\ <<0>>[1] = 0 /\ ls \in Nat /\ lg \in Nat /\ DOMAIN garbage = 1..lg
  BY <1>0
<1> DEFINE zero == <<0>>
<1>2. zero \in Seq(Byte) /\ Len(zero) = 1 /\ zero[1] = 0
  BY <1>1
<1> HIDE DEF str, garbage, zeros, zero
<1>3. /\ Join(str, zero) \in Seq(Byte) /\ Len(Join(str, zero)) = ls + 1
      /\ \A i \in 1..ls : Join(str, zero)[i] = str[i]
      /\ Join(str, zero)[ls + 1] = 0
  <2>1. Join(str, zero) \in Seq(Byte) /\ IsJoin(Join(str, zero), str, zero)
    BY <1>1, <1>2, JoinIs
  <2>2. \A i \in 1..Len(zero) : Join(str, zero)[Len(str) + i] = zero[i]
    BY <2>1 DEF IsJoin
  <2>3. Join(str, zero)[ls + 1] = 0
    <3>1. 1 \in 1..Len(zero)
      BY <1>2
    <3> QED BY <1>2, <2>2, <3>1
  <2> QED BY <1>2, <2>1, <2>3 DEF IsJoin
<1>4. a = Join(str, zero)
  BY DEF zero
<1> HIDE DEF a
<1>5. /\ Join(a, garbage) \in Seq(Byte) /\ Len(Join(a, garbage)) = ls + 1 + lg
      /\ \A i \in 1..(ls + 1) : Join(a, garbage)[i] = a[i]
      /\ \A i \in 1..lg : Join(a, garbage)[ls + 1 + i] = garbage[i]
  <2>0. a \in Seq(Byte) /\ Len(a) = ls + 1
    BY <1>3, <1>4
  <2>1. Join(a, garbage) \in Seq(Byte) /\ IsJoin(Join(a, garbage), a, garbage)
    BY <1>1, <2>0, JoinIs
  <2>2. \A i \in 1..Len(garbage) : Join(a, garbage)[Len(a) + i] = garbage[i]
    BY <2>1 DEF IsJoin
  <2> QED BY <2>0, <2>1, <2>2 DEF IsJoin
<1> HIDE DEF c
<1>6. /\ Join(c, zeros) \in Seq(Byte) /\ Len(Join(c, zeros)) = ls + 1 + lg + NameSize
      /\ \A i \in 1..(ls + 1 + lg) : Join(c, zeros)[i] = c[i]
      /\ \A i \in 1..NameSize : Join(c, zeros)[ls + 1 + lg + i] = 0
  <2>0. c \in Seq(Byte) /\ Len(c) = ls + 1 + lg
    BY <1>5 DEF c
  <2>1. Join(c, zeros) \in Seq(Byte) /\ IsJoin(Join(c, zeros), c, zeros)
    BY <1>1, <2>0, JoinIs
  <2>2. \A i \in 1..Len(zeros) : Join(c, zeros)[Len(c) + i] = zeros[i]
    BY <2>1 DEF IsJoin
  <2> QED BY <1>1, <2>0, <2>1, <2>2 DEF IsJoin
<1>7. FieldBytes(name) = SubSeq(all, 1, NameSize)
  BY <1>4 DEF FieldBytes, Join, c, a, str, garbage, zeros, zero
<1> HIDE DEF all
<1>8. all \in Seq(Byte) /\ Len(all) = ls + 1 + lg + NameSize
  BY <1>6 DEF all
<1>9. /\ SubSeq(all, 1, NameSize) \in Seq(Byte) /\ Len(SubSeq(all, 1, NameSize)) = NameSize
      /\ SubSeq(all, 1, NameSize) = [i \in 1..NameSize |-> all[i]]
  BY <1>0, <1>1, <1>8
<1>10. ASSUME NEW i \in 1..NameSize PROVE all[i] = FieldByte(name, i)
  <2>1. CASE i <= ls
    <3>1. i \in 1..ls /\ i \in 1..(ls + 1) /\ i \in 1..(ls + 1 + lg)
      BY <1>0, <1>1, <2>1
    <3>2. all[i] = c[i] /\ c[i] = a[i] /\ a[i] = str[i]
      BY <1>3, <1>4, <1>5, <1>6, <3>1 DEF all, c
    <3> QED BY <2>1, <3>2 DEF FieldByte, str
  <2>2. CASE i = ls + 1
    <3>1. i \in 1..(ls + 1) /\ i \in 1..(ls + 1 + lg) /\ i - ls - 1 = 0 /\ ~(i <= ls)
            /\ i - ls - 1 \notin 1..lg
      BY <1>0, <1>1, <2>2
    <3>2. all[i] = c[i] /\ c[i] = a[i] /\ a[i] = 0
      BY <1>3, <1>4, <1>5, <1>6, <2>2, <3>1 DEF all, c
    <3> QED BY <1>1, <3>1, <3>2 DEF FieldByte, str, garbage
  <2>3. CASE i > ls + 1 /\ i <= ls + 1 + lg
    <3>1. i \in 1..(ls + 1 + lg) /\ i - ls - 1 \in 1..lg /\ i = ls + 1 + (i - ls - 1) /\ ~(i <= ls)
      BY <1>0, <1>1, <2>3
    <3>2. all[i] = c[i]
      BY <1>6, <3>1 DEF all
    <3>3. c[ls + 1 + (i - ls - 1)] = garbage[i - ls - 1]
      BY <1>5, <3>1 DEF c
    <3> QED BY <1>1, <3>1, <3>2, <3>3 DEF FieldByte, str, garbage
  <2>4. CASE i > ls + 1 + lg
    <3>1. /\ i - (ls + 1 + lg) \in 1..NameSize /\ i = ls + 1 + lg + (i - (ls + 1 + lg)) /\ ~(i <= ls)
          /\ i - ls - 1 \notin 1..lg
      BY <1>0, <1>1, <2>4
    <3>2. all[ls + 1 + lg + (i - (ls + 1 + lg))] = 0
      BY <1>6, <3>1 DEF all
    <3> QED BY <1>1, <3>1, <3>2 DEF FieldByte, str, garbage
  <2>5. i \in Int /\ (i <= ls \/ i = ls + 1 \/ (i > ls + 1 /\ i <= ls + 1 + lg) \/ i > ls + 1 + lg)
    BY <1>0, <1>1
  <2> QED BY <2>1, <2>2, <2>3, <2>4, <2>5
<1> QED BY <1>7, <1>9, <1>10

\* A string and its garbage are written as the bytes of their field, if they fit.
LEMMA FieldWrites ==
  ASSUME NEW s, Writing(s), NEW name, name.str \in Seq(Byte), name.garbage \in Seq(Byte)
  PROVE  Writes(s, WriteField(s, name.str, name.garbage, NameSize), FieldBytes(name),
                Len(name.str) + Len(name.garbage) <= NameSize)
<1> DEFINE fits == Len(name.str) + Len(name.garbage) <= NameSize
           code == FieldBytes(name)
<1>0. \/ fits /\ ~(Len(name.str) + Len(name.garbage) > NameSize)
      \/ ~fits /\ Len(name.str) + Len(name.garbage) > NameSize
  <2>1. NameSize \in Nat /\ Len(name.str) \in Nat /\ Len(name.garbage) \in Nat
    BY SizesAssumption
  <2>2. \A x, y, z \in Nat : (x + y <= z /\ ~(x + y > z)) \/ (~(x + y <= z) /\ x + y > z)
    OBVIOUS
  <2> QED BY <2>1, <2>2, Zenon
<1>1. CASE fits
  <2>1. WriteField(s, name.str, name.garbage, NameSize) = WriteBlock(s, code)
    <3>1. ~(Len(name.str) + Len(name.garbage) > NameSize)
      BY <1>0, <1>1
    <3>2. code = [i \in 1..NameSize |-> FieldByte(name, i)]
      BY FieldBytesAre
    <3>3. WriteField(s, name.str, name.garbage, NameSize) = WriteBlock(s,
            [i \in 1..NameSize |-> FieldByte(name, i)])
      BY <3>1, Zenon DEF WriteField, FieldByte
    <3> HIDE DEF code
    <3> QED BY <3>2, <3>3
  <2>2. code \in Seq(Byte) /\ (TRUE <=> fits)
    BY <1>1, FieldBytesAre
  <2> HIDE DEF code, fits
  <2>3. Writes(s, WriteBlock(s, code), code, TRUE)
    BY <2>2, BlockWrites
  <2>4. Writes(s, WriteBlock(s, code), code, fits)
    BY <2>2, <2>3, WritesSame
  <2> QED BY <2>1, <2>4 DEF code, fits
<1>2. CASE ~fits
  <2>1. WriteField(s, name.str, name.garbage, NameSize) = Throw(s)
    BY <1>0, <1>2, Zenon DEF WriteField
  <2>2. FALSE <=> fits
    BY <1>2
  <2> HIDE DEF fits
  <2>3. Writes(s, Throw(s), code, fits)
    BY <2>2, WritesThrow, WritesSame
  <2> QED BY <2>1, <2>3 DEF code, fits
<1> QED BY <1>1, <1>2

\* Under the guard of the width of sizes.
Widened(s, size) == [s EXCEPT !.containerSizeBytes = size]

\* A stream with another width of sizes is a stream, and nothing else changes.
LEMMA WithWidth ==
  ASSUME NEW G, NEW s \in Streams(G), NEW size \in {1, 4}
  PROVE  /\ Widened(s, size) \in Streams(G) /\ Widened(s, size).containerSizeBytes = size
         /\ Widened(s, size).buf = s.buf /\ Widened(s, size).ok = s.ok /\ Widened(s, size).got = s.got
         /\ Widened(s, size).m_userData = s.m_userData /\ Widened(s, size).mask = s.mask
BY DEF Streams, Widened, DefaultSizeBytes

\* What is written under the guard is written, and the width is what it was.
LEMMA GuardedWrites ==
  ASSUME NEW s, Writing(s), NEW size \in {1, 4}, NEW t, NEW code, NEW fits,
         Writes(Widened(s, size), t, code, fits)
  PROVE  Writes(s, Release(t, s.containerSizeBytes), code, fits)
<1> DEFINE u == Release(t, s.containerSizeBytes)
           r == Widened(s, size)
<1>1. s \in Streams({s.got}) /\ s.containerSizeBytes \in {1, 4}
  BY StreamFields DEF Writing
<1>2. r \in Streams({s.got}) /\ r.buf = s.buf /\ r.ok = s.ok /\ r.got = s.got /\ r.m_userData = s.m_userData
  BY <1>1, WithWidth
<1> HIDE DEF r
<1>3. Writes(r, t, code, fits)
  BY DEF r
<1>4. WritesOn(r, t) /\ t \in Streams({r.got})
  BY <1>3 DEF Writes, WritesOn
<1>5. u = Widened(t, s.containerSizeBytes)
  BY DEF Release, Widened
<1>6. /\ u \in Streams({s.got}) /\ u.containerSizeBytes = s.containerSizeBytes /\ u.buf = t.buf /\ u.ok = t.ok
      /\ u.got = t.got /\ u.m_userData = t.m_userData
  BY <1>1, <1>2, <1>4, <1>5, WithWidth
<1> HIDE DEF u
<1>7. WritesOn(s, u)
  BY <1>2, <1>4, <1>6 DEF WritesOn
<1>8. Writes(s, u, code, fits)
  BY <1>2, <1>3, <1>6, <1>7 DEF Writes
<1> QED BY <1>8 DEF u

\* The storage of b with a number of four bytes over what was at the offset.
Stamped(b, value, offset) ==
    [b EXCEPT !.m_internal = [i \in DOMAIN @ |->
        IF i - offset \in 1..LengthWidth THEN Number(value, LengthWidth)[i - offset] ELSE @[i]]]

\* Writing a number over what is there changes these bytes and nothing else.
LEMMA StampedType ==
  ASSUME NEW b, BufferOK(b, Byte), NEW value \in Nat, NEW offset \in Nat
  PROVE  /\ BufferOK(Stamped(b, value, offset), Byte)
         /\ Stamped(b, value, offset).m_size = b.m_size
         /\ Stamped(b, value, offset).m_posRead = b.m_posRead
         /\ Stamped(b, value, offset).m_posWrite = b.m_posWrite
         /\ Stamped(b, value, offset).m_eofRead = b.m_eofRead
         /\ Stamped(b, value, offset).m_resizeEnabled = b.m_resizeEnabled
         /\ \A i \in 1..b.m_size : Stamped(b, value, offset).m_internal[i] =
              IF i - offset \in 1..4 THEN Number(value, 4)[i - offset] ELSE b.m_internal[i]
<1> DEFINE bytes == b.m_internal
           number == Number(value, 4)
           stored == [i \in DOMAIN bytes |-> IF i - offset \in 1..4 THEN number[i - offset] ELSE bytes[i]]
<1>1. number \in [1..4 -> Byte]
  BY NumberType
<1>2. /\ b \in Buffer(Byte) /\ bytes \in Seq(Byte) /\ b.m_size = Len(bytes) /\ b.m_posWrite <= b.m_size
      /\ DOMAIN bytes = 1..Len(bytes) /\ Len(bytes) \in Nat
  BY DEF BufferOK, Buffer, ByteArray
<1>3. Stamped(b, value, offset) = [b EXCEPT !.m_internal = stored]
  BY DEF Stamped, LengthWidth
<1> HIDE DEF Byte, number, bytes
<1>4. stored \in [1..Len(bytes) -> Byte] /\ \A i \in 1..Len(bytes) : stored[i] =
        IF i - offset \in 1..4 THEN number[i - offset] ELSE bytes[i]
  BY <1>1, <1>2
<1> HIDE DEF stored
<1>5. stored \in Seq(Byte) /\ Len(stored) = Len(bytes)
  <2>1. \A f, n : n \in Nat /\ f \in [1..n -> Byte] => f \in Seq(Byte) /\ Len(f) = n
    OBVIOUS
  <2> QED BY <1>2, <1>4, <2>1
<1> DEFINE c == [b EXCEPT !.m_internal = stored]
<1>6. /\ c \in Buffer(Byte) /\ c.m_internal = stored /\ c.m_size = b.m_size /\ c.m_posRead = b.m_posRead
      /\ c.m_posWrite = b.m_posWrite /\ c.m_eofRead = b.m_eofRead /\ c.m_resizeEnabled = b.m_resizeEnabled
  BY <1>2, <1>5 DEF Buffer, ByteArray
<1> HIDE DEF c
<1>7. BufferOK(c, Byte)
  BY <1>2, <1>5, <1>6 DEF BufferOK
<1>8. Stamped(b, value, offset) = c
  BY <1>3 DEF c
<1> QED BY <1>2, <1>4, <1>6, <1>7, <1>8 DEF number, bytes

\* writeToOffset stamps the buffer, unless there was an exception.
LEMMA OffsetWrites ==
  ASSUME Masked, NEW s, Writing(s), NEW value \in Nat, NEW offset \in Nat
  PROVE  /\ s.ok => WriteToOffset(s, value, LengthWidth, offset) = [s EXCEPT !.buf = Stamped(s.buf,
           value, offset)]
         /\ ~s.ok => WriteToOffset(s, value, LengthWidth, offset) = s
<1>1. s.mask = mask /\ s \in Streams({s.got})
  BY StreamFields DEF Writing
<1>2. \A i \in 1..4 : HostByte(value, Xor(TypeMask(mask, 4), i - 1)) = Number(value, 4)[i]
  <2>1. 4 \in {1, 2, 4}
    OBVIOUS
  <2>2. [i \in 1..4 |-> HostByte(value, Xor(TypeMask(mask, 4), i - 1))] = Number(value, 4)
    BY <2>1, MaskedBytes
  <2> QED BY <2>2
<1>3. CASE s.ok
  <2> DEFINE bytes == s.buf.m_internal
  <2>1. WriteToOffset(s, value, 4, offset) =
          [s EXCEPT !.buf.m_internal = [i \in DOMAIN @ |->
              IF i - offset \in 1..4 THEN HostByte(value, Xor(TypeMask(mask, 4), i - offset - 1)) ELSE @[i]]]
    BY <1>1, <1>3 DEF WriteToOffset
  <2>2. [i \in DOMAIN bytes |->
              IF i - offset \in 1..4 THEN HostByte(value, Xor(TypeMask(mask, 4), i - offset - 1))
                ELSE bytes[i]]
          = [i \in DOMAIN bytes |-> IF i - offset \in 1..4 THEN Number(value, 4)[i - offset] ELSE bytes[i]]
    BY <1>2
  <2>3. [s EXCEPT !.buf.m_internal = [i \in DOMAIN @ |->
              IF i - offset \in 1..4 THEN HostByte(value, Xor(TypeMask(mask, 4), i - offset - 1)) ELSE @[i]]]
          = [s EXCEPT !.buf = [s.buf EXCEPT !.m_internal =
               [i \in DOMAIN bytes |->
                 IF i - offset \in 1..4 THEN HostByte(value, Xor(TypeMask(mask, 4),
                   i - offset - 1)) ELSE bytes[i]]]]
    OBVIOUS
  <2> QED BY <1>3, <2>1, <2>2, <2>3 DEF Stamped, LengthWidth
<1>4. CASE ~s.ok
  BY <1>4 DEF WriteToOffset
<1> QED BY <1>3, <1>4

\* The length over its placeholder: from s to t a placeholder and a body were written.
LEMMA StampWrites ==
  ASSUME Masked, NEW s, Writing(s), NEW t, NEW body \in Seq(Byte), NEW fits,
         Writes(s, t, Join(Number(0, LengthWidth), body), fits)
  PROVE  Writes(s, WriteToOffset(t, t.buf.m_posWrite - s.buf.m_posWrite - LengthWidth, LengthWidth,
                                 s.buf.m_posWrite),
                Counted(body, LengthWidth), fits)
<1> DEFINE offset == s.buf.m_posWrite
           value == t.buf.m_posWrite - offset - 4
           u == WriteToOffset(t, value, 4, offset)
           c == Stamped(t.buf, value, offset)
           old == Number(0, 4)
           new == Number(value, 4)
           n == Len(body)
           first == Before(s.buf)
<1>1. Writing(t) /\ s \in Streams({s.got}) /\ t \in Streams({s.got}) /\ t.got = s.got
  <2> DEFINE code == Join(Number(0, LengthWidth), body)
  <2>1. Writes(s, t, code, fits)
    OBVIOUS
  <2> HIDE DEF code
  <2>2. Writing(t) /\ t.got = s.got
    BY <2>1, WritesType
  <2> QED BY <2>1, <2>2 DEF Writing, Writes, WritesOn
<1>2. /\ BufferOK(s.buf, Byte) /\ BufferOK(t.buf, Byte) /\ offset \in Nat /\ t.buf.m_posWrite \in Nat
      /\ t.buf.m_size \in Nat /\ t.buf.m_posWrite <= t.buf.m_size /\ t.ok \in BOOLEAN /\ n \in Nat
      /\ (t.ok => ~t.buf.m_eofRead)
  BY <1>1, StreamFields
<1>3. old \in Seq(Byte) /\ Len(old) = 4
  BY NumberType
<1>4. Join(old, body) \in Seq(Byte) /\ IsJoin(Join(old, body), old, body) /\ Len(Join(old, body)) = 4 + n
  <2> HIDE DEF old
  <2>1. Join(old, body) \in Seq(Byte) /\ IsJoin(Join(old, body), old, body)
    BY <1>3, JoinIs
  <2> QED BY <1>3, <2>1 DEF IsJoin
<1>5. Writes(s, t, Join(old, body), fits)
  BY DEF LengthWidth
<1>6. Counted(body, 4) = Join(Number(n, 4), body) /\ Counted(body, 4) \in Seq(Byte)
        /\ Len(Counted(body, 4)) = 4 + n
  BY CountedType
<1>7. CASE ~t.ok
  <2>1. u = t
    BY <1>7 DEF WriteToOffset
  <2>2. Writes(s, t, Counted(body, 4), fits)
    <3> HIDE DEF old
    <3> QED BY <1>4, <1>5, <1>6, <1>7 DEF Writes
  <2> QED BY <2>1, <2>2 DEF LengthWidth
<1>8. CASE t.ok
  <2>1. first \in Seq(Byte) /\ Len(first) = offset /\ \A i \in 1..offset : first[i] = s.buf.m_internal[i]
    BY <1>2, BeforeType
  <2>2. Before(t.buf) = Join(first, Join(old, body))
    BY <1>5, <1>8 DEF Writes
  <2> DEFINE tail == Join(old, body)
  <2>3. /\ IsJoin(Join(first, tail), first, tail) /\ Join(first, tail) \in Seq(Byte)
    <3> HIDE DEF tail, first
    <3> QED BY <1>4, <2>1, JoinIs DEF tail
  <2>4. /\ Len(Before(t.buf)) = t.buf.m_posWrite
        /\ \A i \in 1..t.buf.m_posWrite : Before(t.buf)[i] = t.buf.m_internal[i]
    BY <1>2, BeforeType
  <2> HIDE DEF tail, first, old
  <2>5. t.buf.m_posWrite = offset + (4 + n)
    BY <1>4, <2>1, <2>2, <2>3, <2>4 DEF IsJoin, tail
  <2>6. value = n /\ value \in Nat
    BY <1>2, <2>5
  <2> HIDE DEF value
  <2>7. u = [t EXCEPT !.buf = c]
    BY <1>1, <1>2, <1>8, <2>6, OffsetWrites DEF LengthWidth
  <2>8. /\ BufferOK(c, Byte) /\ c.m_size = t.buf.m_size /\ c.m_posRead = t.buf.m_posRead
        /\ c.m_posWrite = t.buf.m_posWrite /\ c.m_eofRead = t.buf.m_eofRead
        /\ c.m_resizeEnabled = t.buf.m_resizeEnabled
        /\ \A i \in 1..t.buf.m_size : c.m_internal[i] =
              IF i - offset \in 1..4 THEN new[i - offset] ELSE t.buf.m_internal[i]
    <3> DEFINE b == t.buf
    <3>1. BufferOK(b, Byte) /\ value \in Nat /\ offset \in Nat
      BY <1>2, <2>6
    <3> HIDE DEF b, offset
    <3>2. /\ BufferOK(Stamped(b, value, offset), Byte)
          /\ Stamped(b, value, offset).m_size = b.m_size
          /\ Stamped(b, value, offset).m_posRead = b.m_posRead
          /\ Stamped(b, value, offset).m_posWrite = b.m_posWrite
          /\ Stamped(b, value, offset).m_eofRead = b.m_eofRead
          /\ Stamped(b, value, offset).m_resizeEnabled = b.m_resizeEnabled
          /\ \A i \in 1..b.m_size : Stamped(b, value, offset).m_internal[i] =
              IF i - offset \in 1..4 THEN Number(value, 4)[i - offset] ELSE b.m_internal[i]
      BY <3>1, StampedType, Zenon
    <3> QED BY <3>2 DEF b
  <2> HIDE DEF c, u
  <2>9. u \in Streams({s.got}) /\ u.buf = c /\ u.ok = t.ok
          /\ u.containerSizeBytes = t.containerSizeBytes /\ u.m_userData = t.m_userData
    <3>1. t.ok => ~c.m_eofRead
      BY <1>2, <2>8
    <3> QED BY <1>1, <2>7, <2>8, <3>1, WithBuffer
  <2>10. new \in Seq(Byte) /\ Len(new) = 4
    BY <2>6, NumberType
  <2> HIDE DEF new
  <2> DEFINE tail2 == Join(new, body)
  <2>11. tail2 \in Seq(Byte) /\ IsJoin(tail2, new, body)
    BY <2>10, JoinIs
  <2> HIDE DEF tail2
  <2>12. Join(first, tail2) \in Seq(Byte) /\ IsJoin(Join(first, tail2), first, tail2)
    BY <2>1, <2>11, JoinIs
  <2> DEFINE whole == Join(first, tail2)
             before == Join(first, tail)
  <2>13. /\ Before(c) \in Seq(Byte) /\ Len(Before(c)) = c.m_posWrite
         /\ \A i \in 1..c.m_posWrite : Before(c)[i] = c.m_internal[i]
    BY <2>8, BeforeType
  <2>14. /\ Len(whole) = offset + (4 + n)
         /\ \A i \in 1..offset : whole[i] = first[i]
         /\ \A i \in 1..(4 + n) : whole[offset + i] = tail2[i]
    BY <2>1, <2>10, <2>11, <2>12 DEF IsJoin
  <2>15. /\ \A i \in 1..offset : before[i] = first[i]
         /\ \A i \in 1..(4 + n) : before[offset + i] = tail[i]
    BY <1>4, <2>1, <2>3 DEF IsJoin, tail
  <2>16. /\ \A i \in 1..4 : tail2[i] = new[i]
         /\ \A i \in 1..n : tail2[4 + i] = body[i] /\ tail[4 + i] = body[i]
    BY <1>3, <1>4, <2>10, <2>11 DEF IsJoin, tail
  <2>17. before = Before(t.buf)
    BY <2>2 DEF tail
  <2>18. whole \in Seq(Byte)
    BY <2>12
  <2> HIDE DEF whole, before
  <2>19. ASSUME NEW i \in 1..(offset + (4 + n)) PROVE Before(c)[i] = whole[i]
    <3>0. i \in 1..t.buf.m_size /\ i \in 1..c.m_posWrite /\ i \in 1..t.buf.m_posWrite
      BY <1>2, <2>5, <2>8
    <3>1. Before(c)[i] = c.m_internal[i] /\ t.buf.m_internal[i] = before[i]
      BY <2>4, <2>13, <2>17, <3>0
    <3>2. CASE i <= offset
      <4>1. i \in 1..offset /\ i - offset \notin 1..4
        BY <1>2, <3>2
      <4>2. c.m_internal[i] = t.buf.m_internal[i]
        BY <2>8, <3>0, <4>1
      <4> QED BY <2>14, <2>15, <3>1, <4>1, <4>2
    <3>3. CASE i > offset /\ i <= offset + 4
      <4>1. PICK j \in 1..4 : i = offset + j /\ i - offset = j
        BY <1>2, <3>3
      <4>2. c.m_internal[i] = new[j]
        BY <2>8, <3>0, <4>1
      <4>3. j \in 1..(4 + n)
        BY <1>2
      <4> QED BY <2>14, <2>16, <3>1, <4>1, <4>2, <4>3
    <3>4. CASE i > offset + 4
      <4>1. PICK j \in 1..n : i = offset + (4 + j) /\ i - offset \notin 1..4
        <5>1. i - offset - 4 \in 1..n /\ i = offset + (4 + (i - offset - 4)) /\ i - offset \notin 1..4
          BY <1>2, <3>4
        <5> QED BY <5>1
      <4>2. c.m_internal[i] = t.buf.m_internal[i]
        BY <2>8, <3>0, <4>1
      <4>3. 4 + j \in 1..(4 + n)
        BY <1>2
      <4>4. before[i] = tail[4 + j] /\ whole[i] = tail2[4 + j]
        BY <2>14, <2>15, <4>1, <4>3
      <4> QED BY <2>16, <3>1, <4>1, <4>2, <4>4
    <3> QED BY <1>2, <3>2, <3>3, <3>4
  <2>20. Before(c) = whole
    <3>1. Len(Before(c)) = offset + (4 + n) /\ Len(whole) = offset + (4 + n)
      BY <2>5, <2>8, <2>13, <2>14
    <3> QED BY <2>13, <2>18, <2>19, <3>1, SameSequence
  <2>21. WritesOn(s, u)
    <3>1. WritesOn(s, t)
      BY <1>5 DEF Writes
    <3>2. ASSUME NEW i \in 1..offset PROVE c.m_internal[i] = s.buf.m_internal[i]
      <4>1. i - offset \notin 1..4 /\ i \in 1..t.buf.m_size
        BY <1>2, <2>5
      <4>2. c.m_internal[i] = t.buf.m_internal[i]
        BY <2>8, <4>1
      <4> QED BY <3>1, <4>2 DEF WritesOn
    <3> QED BY <2>8, <2>9, <3>1, <3>2 DEF WritesOn
  <2>22. Counted(body, 4) = tail2
    BY <1>6, <2>6 DEF tail2, new
  <2>23. Writes(s, u, Counted(body, 4), fits)
    <3>1. u.ok <=> (s.ok /\ fits /\ MayWrite(s.buf, Len(Counted(body, 4))))
      BY <1>4, <1>5, <1>6, <2>9 DEF Writes
    <3>2. Before(u.buf) = Join(first, Counted(body, 4))
      BY <2>9, <2>20, <2>22 DEF whole
    <3> QED BY <2>21, <3>1, <3>2 DEF Writes, first
  <2> QED BY <2>23 DEF u, value, LengthWidth
<1> QED BY <1>2, <1>7, <1>8

-----------------------------------------------------------------------------
(* Writing a message.                                                      *)

\* The parts of a message.
LEMMA MessageType ==
  ASSUME NEW m \in Message
  PROVE  /\ m.tag \in Nat /\ m.tag < Power(Base, 2) /\ m.flags \in [1..FlagCount -> {0, 1}]
         /\ m.name.str \in Seq(Byte \ {0}) /\ m.name.str \in Seq(Byte) /\ m.name.garbage \in Seq(Byte)
         /\ m.name = [str |-> m.name.str, garbage |-> m.name.garbage]
         /\ m.name.garbage # << >> => m.name.garbage[Len(m.name.garbage)] # 0
         /\ m.code \in Seq(Byte) /\ Len(m.code) = CodeSize
         /\ m.marks \in Seq(Nat) /\ m.marks \in Seq(0..(Power(Base, 2) - 1)) /\ m.words \in Seq(Seq(Byte))
         /\ m.labels \in [DOMAIN m.labels -> Seq(Byte)] /\ DOMAIN m.labels \subseteq Byte
         /\ m.note \in Seq(Byte)
         /\ m = [tag |-> m.tag, flags |-> m.flags, name |-> m.name, code |-> m.code, marks |-> m.marks,
                 words |-> m.words, labels |-> m.labels, note |-> m.note]
<1> DEFINE R == [tag : 0..(Power(Base, 2) - 1), flags : [1..FlagCount -> {0, 1}],
                 name : [str : Seq(Byte \ {0}), garbage : Seq(Byte)],
                 code : [1..CodeSize -> Byte], marks : Seq(0..(Power(Base, 2) - 1)),
                 words : Seq(Seq(Byte)), labels : {l.labels : l \in Message}, note : Seq(Byte)]
           P == Power(Base, 2)
<1>0. P \in Nat
  BY BaseType, Powers
<1>1. m \in R /\ DOMAIN m.labels \subseteq Byte /\ m.labels \in [DOMAIN m.labels -> Seq(Byte)]
      /\ (m.name.garbage # << >> => m.name.garbage[Len(m.name.garbage)] # 0)
  BY MessageAssumption
<1> HIDE DEF P
<1>2. /\ m.tag \in 0..(P - 1) /\ m.flags \in [1..FlagCount -> {0, 1}]
      /\ m.name \in [str : Seq(Byte \ {0}), garbage : Seq(Byte)]
      /\ m.code \in [1..CodeSize -> Byte] /\ m.marks \in Seq(0..(P - 1))
      /\ m.words \in Seq(Seq(Byte)) /\ m.note \in Seq(Byte)
      /\ m = [tag |-> m.tag, flags |-> m.flags, name |-> m.name, code |-> m.code, marks |-> m.marks,
              words |-> m.words, labels |-> m.labels, note |-> m.note]
  <2> HIDE DEF Byte
  <2> QED BY <1>1 DEF P
<1>3. /\ m.name.str \in Seq(Byte \ {0}) /\ m.name.garbage \in Seq(Byte)
      /\ m.name = [str |-> m.name.str, garbage |-> m.name.garbage]
  BY <1>2
<1>4. m.name.str \in Seq(Byte)
  <2>1. Byte \ {0} \subseteq Byte
    OBVIOUS
  <2> QED BY <1>3, <2>1, LargerSeq
<1>5. m.marks \in Seq(Nat)
  <2>1. 0..(P - 1) \subseteq Nat
    BY <1>0
  <2> QED BY <1>2, <2>1, LargerSeq
<1>6. m.tag \in Nat /\ m.tag < P
  BY <1>0, <1>2
<1>7. m.code \in Seq(Byte) /\ Len(m.code) = CodeSize
  <2>1. CodeSize \in Nat
    BY SizesAssumption
  <2> HIDE DEF Byte
  <2>2. \A f, n : n \in Nat /\ f \in [1..n -> Byte] => f \in Seq(Byte) /\ Len(f) = n
    OBVIOUS
  <2> QED BY <1>2, <2>1, <2>2
<1> QED BY <1>1, <1>2, <1>3, <1>4, <1>5, <1>6, <1>7 DEF P

\* The codes of the parts of a message.
TagCode(m) == Number(m.tag, 2)
MarksCode(m) == Join(Number(Len(m.marks), DefaultSizeBytes), Concat(Numbers(m.marks)))
WordsCode(m) == Join(Number(Len(m.words), 1), Concat(Elements(m.words, 1)))
MapCode(labels) == Join(Number(Cardinality(DOMAIN labels), DefaultSizeBytes),
  Concat(Entries(labels, DefaultSizeBytes)))
LabelsCode(m) == IF userData THEN MapCode(m.labels) ELSE << >>
NoteCode(m) == Counted(m.note, DefaultSizeBytes)

\* The codes of the parts of a message are bytes.
LEMMA CodeTypes ==
  ASSUME NEW m \in Message
  PROVE  /\ TagCode(m) \in Seq(Byte) /\ Len(TagCode(m)) = 2
         /\ PackedFlags(m.flags) \in Seq(Byte) /\ <<0>> \in Seq(Byte)
         /\ FieldBytes(m.name) \in Seq(Byte) /\ m.code \in Seq(Byte)
         /\ Concat(Numbers(m.marks)) \in Seq(Byte)
         /\ Number(Len(m.marks), DefaultSizeBytes) \in Seq(Byte)
         /\ MarksCode(m) \in Seq(Byte)
         /\ Concat(Elements(m.words, 1)) \in Seq(Byte) /\ Number(Len(m.words), 1) \in Seq(Byte)
         /\ WordsCode(m) \in Seq(Byte)
         /\ MapCode(m.labels) \in Seq(Byte)
         /\ LabelsCode(m) \in Seq(Byte)
         /\ NoteCode(m) \in Seq(Byte)
<1>0. DefaultSizeBytes \in {1, 2, 4} /\ 1 \in {1, 2, 4} /\ 2 \in {1, 2, 4}
  BY DEF DefaultSizeBytes
<1>1. TagCode(m) \in Seq(Byte) /\ Len(TagCode(m)) = 2
  BY <1>0, MessageType, NumberType DEF TagCode
<1>2. PackedFlags(m.flags) \in Seq(Byte)
  BY PackedFlagsType
<1>3. <<0>> \in Seq(Byte)
  BY BaseType DEF Byte
<1>4. FieldBytes(m.name) \in Seq(Byte)
  BY MessageType, FieldBytesAre
<1>5. Concat(Numbers(m.marks)) \in Seq(Byte) /\ Number(Len(m.marks), DefaultSizeBytes) \in Seq(Byte)
  <2>0. m.marks \in Seq(Nat)
    BY MessageType
  <2>1. m.marks \in Seq(Nat) /\ Len(m.marks) \in Nat /\ DOMAIN m.marks = 1..Len(m.marks)
    BY <2>0
  <2>2. \A i \in DOMAIN m.marks : Number(m.marks[i], 2) \in Seq(Byte)
    BY <1>0, <2>1, NumberType
  <2>3. Numbers(m.marks) \in [1..Len(m.marks) -> Seq(Byte)]
    BY <2>1, <2>2 DEF Numbers
  <2> QED BY <1>0, <2>1, <2>3, ConcatType, NumberType
<1>6. MarksCode(m) \in Seq(Byte)
  BY <1>5, JoinType DEF MarksCode
<1>7. Concat(Elements(m.words, 1)) \in Seq(Byte) /\ Number(Len(m.words), 1) \in Seq(Byte)
  <2>0. m.words \in Seq(Seq(Byte))
    BY MessageType
  <2>1. /\ m.words \in Seq(Seq(Byte)) /\ Len(m.words) \in Nat /\ DOMAIN m.words = 1..Len(m.words)
        /\ \A i \in DOMAIN m.words : m.words[i] \in Seq(Byte)
    BY <2>0
  <2>2. \A i \in DOMAIN m.words : Counted(m.words[i], 1) \in Seq(Byte)
    BY <1>0, <2>1, CountedType
  <2>3. Elements(m.words, 1) \in [1..Len(m.words) -> Seq(Byte)]
    BY <2>1, <2>2 DEF Elements
  <2> QED BY <1>0, <2>1, <2>3, ConcatType, NumberType
<1>8. WordsCode(m) \in Seq(Byte)
  BY <1>7, JoinType DEF WordsCode
<1>9. MapCode(m.labels) \in Seq(Byte)
  <2>1. m.labels \in [DOMAIN m.labels -> Seq(Byte)] /\ DOMAIN m.labels \subseteq Byte
    BY MessageType
  <2>2. \A i \in 1..Base : EntryCode(m.labels, DefaultSizeBytes, i) \in Seq(Byte)
    BY <1>0, <2>1, EntryCodeType
  <2>3. Entries(m.labels, DefaultSizeBytes) \in [1..Base -> Seq(Byte)]
    BY <2>2 DEF Entries
  <2>4. Cardinality(DOMAIN m.labels) \in Nat
    <3>1. IsFiniteSet(Byte)
      BY BaseType, FS_Interval DEF Byte
    <3>2. IsFiniteSet(DOMAIN m.labels)
      BY <2>1, <3>1, FS_Subset
    <3> QED BY <3>2, FS_CardinalityType
  <2>5. Concat(Entries(m.labels, DefaultSizeBytes)) \in Seq(Byte)
    BY <2>3, BaseType, ConcatType
  <2>6. Number(Cardinality(DOMAIN m.labels), DefaultSizeBytes) \in Seq(Byte)
    BY <1>0, <2>4, NumberType
  <2> QED BY <2>5, <2>6, JoinType DEF MapCode
<1>10. LabelsCode(m) \in Seq(Byte)
  BY <1>9 DEF LabelsCode
<1>11. NoteCode(m) \in Seq(Byte)
  BY <1>0, MessageType, CountedType DEF NoteCode
<1> QED BY <1>1, <1>2, <1>3, <1>4, <1>5, <1>6, <1>7, <1>8, <1>9, <1>10, <1>11, MessageType

\* The body up to each field.
Upto3(m) == Join(Join(TagCode(m), PackedFlags(m.flags)), <<0>>)
Upto5(m) == Join(Join(Upto3(m), FieldBytes(m.name)), m.code)
Upto7(m) == Join(Join(Upto5(m), MarksCode(m)), WordsCode(m))

\* So is the body up to each part.
LEMMA UptoTypes ==
  ASSUME NEW m \in Message
  PROVE  /\ Join(TagCode(m), PackedFlags(m.flags)) \in Seq(Byte) /\ Upto3(m) \in Seq(Byte)
         /\ Join(Upto3(m), FieldBytes(m.name)) \in Seq(Byte) /\ Upto5(m) \in Seq(Byte)
         /\ Join(Upto5(m), MarksCode(m)) \in Seq(Byte) /\ Upto7(m) \in Seq(Byte)
         /\ Join(Upto7(m), LabelsCode(m)) \in Seq(Byte)
         /\ Join(Join(Upto7(m), LabelsCode(m)), NoteCode(m)) \in Seq(Byte)
<1> DEFINE zero == <<0>>
<1>1. Join(TagCode(m), PackedFlags(m.flags)) \in Seq(Byte)
  BY CodeTypes, JoinType
<1>2. Upto3(m) \in Seq(Byte)
  <2>1. zero \in Seq(Byte)
    BY CodeTypes
  <2> HIDE DEF zero
  <2>2. Join(Join(TagCode(m), PackedFlags(m.flags)), zero) \in Seq(Byte)
    BY <1>1, <2>1, JoinType
  <2> QED BY <2>2 DEF Upto3, zero
<1>3. Join(Upto3(m), FieldBytes(m.name)) \in Seq(Byte)
  BY <1>2, CodeTypes, JoinType
<1>4. Upto5(m) \in Seq(Byte)
  BY <1>3, CodeTypes, JoinType DEF Upto5
<1>5. Join(Upto5(m), MarksCode(m)) \in Seq(Byte)
  BY <1>4, CodeTypes, JoinType
<1>6. Upto7(m) \in Seq(Byte)
  BY <1>5, CodeTypes, JoinType DEF Upto7
<1>7. Join(Upto7(m), LabelsCode(m)) \in Seq(Byte)
  BY <1>6, CodeTypes, JoinType
<1>8. Join(Join(Upto7(m), LabelsCode(m)), NoteCode(m)) \in Seq(Byte)
  BY <1>7, CodeTypes, JoinType
<1> QED BY <1>1, <1>2, <1>3, <1>4, <1>5, <1>6, <1>7, <1>8

\* The body is made of the parts one behind the other.
LEMMA BodyIs ==
  ASSUME NEW m \in Message
  PROVE  Body(m) = Join(Join(Upto7(m), LabelsCode(m)), NoteCode(m))
<1> DEFINE upto5 == Number(m.tag, 2) \o PackedFlags(m.flags) \o <<0>> \o FieldBytes(m.name) \o m.code
           n1 == Number(Len(m.marks), DefaultSizeBytes)
           c1 == Concat([i \in DOMAIN m.marks |-> Number(m.marks[i], 2)])
           n2 == Number(Len(m.words), 1)
           c2 == Concat([i \in DOMAIN m.words |-> Counted(m.words[i], 1)])
           labels == IF userData THEN Labels(m.labels) ELSE << >>
           note == Counted(m.note, DefaultSizeBytes)
<1>1. Body(m) = upto5 \o n1 \o c1 \o n2 \o c2 \o labels \o note
  BY DEF Body
<1>2. upto5 = Upto5(m)
  BY Zenon DEF Upto5, Upto3, TagCode, Join
<1>3. c1 = Concat(Numbers(m.marks)) /\ c2 = Concat(Elements(m.words, 1))
  BY DEF Numbers, Elements
<1>4. labels = LabelsCode(m)
  <2>1. Labels(m.labels) = MapCode(m.labels)
    BY Zenon DEF Labels, MapCode, Entries, EntryCode, Join
  <2> QED BY <2>1 DEF LabelsCode
<1>5. note = NoteCode(m)
  BY DEF NoteCode
<1>6. n1 \in Seq(Byte) /\ c1 \in Seq(Byte) /\ n2 \in Seq(Byte) /\ c2 \in Seq(Byte)
  <2> HIDE DEF n1, c1, n2, c2
  <2>1. n1 = Number(Len(m.marks), DefaultSizeBytes) /\ n2 = Number(Len(m.words), 1)
    BY DEF n1, n2
  <2> QED BY <1>3, <2>1, CodeTypes
<1>7. Join(n1, c1) = MarksCode(m) /\ Join(n2, c2) = WordsCode(m)
  BY <1>3 DEF MarksCode, WordsCode
<1> HIDE DEF upto5, n1, c1, n2, c2, labels, note
<1>8. Body(m) = Join(Join(Join(Join(Join(Join(upto5, n1), c1), n2), c2), labels), note)
  BY <1>1, Zenon DEF Join
<1>9. Join(Join(upto5, n1), c1) = Join(upto5, MarksCode(m))
  BY <1>2, <1>6, <1>7, UptoTypes, JoinAssociative
<1>10. Join(Join(Join(upto5, MarksCode(m)), n2), c2) = Upto7(m)
  <2>1. Join(Upto5(m), MarksCode(m)) \in Seq(Byte)
    BY UptoTypes
  <2>2. Join(Join(Join(Upto5(m), MarksCode(m)), n2), c2) = Join(Join(Upto5(m), MarksCode(m)), Join(n2, c2))
    BY <1>6, <2>1, JoinAssociative
  <2> QED BY <1>2, <1>7, <2>2 DEF Upto7
<1> QED BY <1>4, <1>5, <1>8, <1>9, <1>10

\* What a message needs to be written: each part fits.
FieldFits(m) == Len(m.name.str) + Len(m.name.garbage) <= NameSize
CountFits(n) == n < Power(Base, DefaultSizeBytes)
LabelsFit(m) == userData => MapFits(m.labels, DefaultSizeBytes)

Fits(m) ==
    /\ FieldFits(m) /\ CountFits(Len(m.marks)) /\ VectorFits(m.words, 1) /\ LabelsFit(m)
    /\ CountFits(Len(m.note))

\* The steps of writing a body, and all of them.
BitsStep(t, m) == WriteBits(t, m.flags, 1, TRUE)
FieldStep(t, m) == WriteField(t, m.name.str, m.name.garbage, NameSize)
WordsStep(t, m) == Release(WriteVector(Widened(t, 1), m.words), t.containerSizeBytes)
LabelsStep(t, m, data) == IF data THEN WriteMap(t, m.labels) ELSE t

BodyWritten(t, m, data) ==
    LET padding == ZeroPadding(BitsStep(WriteScalar(t, m.tag, 2), m), 1)
        code == WriteArray(FieldStep(padding, m), m.code)
        words == WordsStep(WriteDeque(code, m.marks), m)
    IN  WriteString(LabelsStep(words, m, data), m.note)

\* WriteMessage writes a placeholder and a body, and the length over the placeholder.
LEMMA WriteMessageIs ==
  ASSUME NEW s, NEW m
  PROVE  LET note == BodyWritten(WriteScalar(s, 0, LengthWidth), m, UserData(s))
         IN  WriteMessage(s, m) = WriteToOffset(note, note.buf.m_posWrite - s.buf.m_posWrite - LengthWidth,
                                                LengthWidth, s.buf.m_posWrite)
BY Zenon DEF WriteMessage, BodyWritten, BitsStep, FieldStep, WordsStep, LabelsStep, Guarded, Widened

\* A step more.
LEMMA WritesOnward ==
  ASSUME NEW s, NEW t, NEW u, NEW c1 \in Seq(Byte), NEW c2 \in Seq(Byte), NEW f1, NEW f2, NEW f,
         Writing(s), Writes(s, t, c1, f1), Writes(t, u, c2, f2), f <=> f1 /\ f2
  PROVE  Writes(s, u, Join(c1, c2), f)
<1>1. Writes(s, u, Join(c1, c2), f1 /\ f2)
  BY WritesThen
<1> DEFINE g == f1 /\ f2
<1>2. Writes(s, u, Join(c1, c2), g) /\ (g <=> f)
  BY <1>1
<1> HIDE DEF g
<1> QED BY <1>2, WritesSame

\* The body is written part by part, if every part fits.
LEMMA BodyWrites ==
  ASSUME Masked, NEW m \in Message, NEW s, Writing(s), s.containerSizeBytes = DefaultSizeBytes,
         s.m_userData = userData
  PROVE  Writes(s, BodyWritten(s, m, userData), Body(m), Fits(m))
<1> DEFINE tag == WriteScalar(s, m.tag, 2)
           flags == BitsStep(tag, m)
           padding == ZeroPadding(flags, 1)
           field == FieldStep(padding, m)
           code == WriteArray(field, m.code)
           marks == WriteDeque(code, m.marks)
           words == WordsStep(marks, m)
           labels == LabelsStep(words, m, userData)
           note == WriteString(labels, m.note)
           zero == <<0>>
           c2 == Join(TagCode(m), PackedFlags(m.flags))
           c4 == Join(Upto3(m), FieldBytes(m.name))
           c6 == Join(Upto5(m), MarksCode(m))
           c8 == Join(Upto7(m), LabelsCode(m))
           f1 == TRUE
           f4 == FieldFits(m)
           f6 == f4 /\ CountFits(Len(m.marks))
           f7 == f6 /\ VectorFits(m.words, 1)
           f8 == f7 /\ LabelsFit(m)
           W == DefaultSizeBytes
<1>0. W = 4 /\ W \in {1, 2, 4} /\ W \in {1, 4}
  BY DEF DefaultSizeBytes
<1>t. /\ m.tag \in Nat /\ m.flags \in [1..FlagCount -> {0, 1}]
      /\ m.name.str \in Seq(Byte) /\ m.name.garbage \in Seq(Byte) /\ m.code \in Seq(Byte)
      /\ m.marks \in Seq(Nat) /\ m.words \in Seq(Seq(Byte))
      /\ m.labels \in [DOMAIN m.labels -> Seq(Byte)] /\ DOMAIN m.labels \subseteq Byte /\ m.note \in Seq(Byte)
  BY MessageType
<1>c. /\ TagCode(m) \in Seq(Byte) /\ PackedFlags(m.flags) \in Seq(Byte) /\ zero \in Seq(Byte)
      /\ FieldBytes(m.name) \in Seq(Byte) /\ MarksCode(m) \in Seq(Byte) /\ WordsCode(m) \in Seq(Byte)
      /\ LabelsCode(m) \in Seq(Byte) /\ NoteCode(m) \in Seq(Byte)
      /\ c2 \in Seq(Byte) /\ Upto3(m) \in Seq(Byte) /\ c4 \in Seq(Byte) /\ Upto5(m) \in Seq(Byte)
      /\ c6 \in Seq(Byte) /\ Upto7(m) \in Seq(Byte) /\ c8 \in Seq(Byte)
  BY CodeTypes, UptoTypes
<1>e. /\ Upto3(m) = Join(c2, zero) /\ Upto5(m) = Join(c4, m.code) /\ Upto7(m) = Join(c6, WordsCode(m))
      /\ Body(m) = Join(c8, NoteCode(m))
  BY BodyIs DEF Upto3, Upto5, Upto7
<1>f. /\ BodyWritten(s, m, userData) = note
      /\ f1 <=> f1 /\ f1
      /\ f4 <=> f1 /\ f4
      /\ f4 <=> f4 /\ f1
      /\ Fits(m) <=> f8 /\ CountFits(Len(m.note))
  BY DEF BodyWritten, Fits
<1> HIDE DEF tag, flags, padding, field, code, marks, words, labels, note, zero, c2, c4, c6, c8, f1, W
<1>1. Writes(s, tag, TagCode(m), f1) /\ Writing(tag) /\ tag.containerSizeBytes = W
        /\ tag.m_userData = userData
  <2>1. Writes(s, tag, TagCode(m), f1)
    BY <1>t, ScalarWrites DEF tag, TagCode, f1
  <2> QED BY <2>1, WritesType DEF W
<1>2. Writes(s, flags, c2, f1) /\ Writing(flags) /\ flags.containerSizeBytes = W
        /\ flags.m_userData = userData
  <2>1. Writes(tag, flags, PackedFlags(m.flags), f1)
    BY <1>t, <1>1, BitsWrites DEF flags, BitsStep, BitsWritten, f1
  <2>2. Writes(s, flags, c2, f1)
    BY <1>1, <1>c, <1>f, <2>1, WritesOnward DEF c2
  <2> QED BY <2>2, WritesType DEF W
<1>3. Writes(s, padding, Upto3(m), f1) /\ Writing(padding) /\ padding.containerSizeBytes = W
        /\ padding.m_userData = userData
  <2>1. Writes(flags, padding, zero, f1)
    BY <1>2, PaddingWrites DEF padding, zero, f1
  <2>2. Writes(s, padding, Upto3(m), f1)
    BY <1>2, <1>c, <1>e, <1>f, <2>1, WritesOnward
  <2> QED BY <2>2, WritesType DEF W
<1>4. Writes(s, field, c4, f4) /\ Writing(field) /\ field.containerSizeBytes = W
        /\ field.m_userData = userData
  <2>1. Writes(padding, field, FieldBytes(m.name), f4)
    BY <1>3, <1>t, FieldWrites DEF field, FieldStep, FieldFits
  <2> HIDE DEF f4
  <2>2. Writes(s, field, c4, f4)
    BY <1>3, <1>c, <1>f, <2>1, WritesOnward DEF c4
  <2> QED BY <2>2, WritesType DEF W
<1>5. Writes(s, code, Upto5(m), f4) /\ Writing(code) /\ code.containerSizeBytes = W
        /\ code.m_userData = userData
  <2>1. Writes(field, code, m.code, f1)
    BY <1>4, <1>t, BlockWrites DEF code, WriteArray, f1
  <2> HIDE DEF f4
  <2>2. Writes(s, code, Upto5(m), f4)
    BY <1>4, <1>c, <1>e, <1>f, <1>t, <2>1, WritesOnward
  <2> QED BY <2>2, WritesType DEF W
<1>6. Writes(s, marks, c6, f6) /\ Writing(marks) /\ marks.containerSizeBytes = W
        /\ marks.m_userData = userData
  <2> DEFINE g == CountFits(Len(m.marks))
  <2>1. Writes(code, marks, MarksCode(m), g)
    BY <1>5, <1>t, DequeWrites DEF marks, MarksCode, CountFits, W
  <2>2. f6 <=> f4 /\ g
    OBVIOUS
  <2> HIDE DEF f4, f6, g
  <2>3. Writes(s, marks, c6, f6)
    BY <1>5, <1>c, <2>1, <2>2, WritesOnward DEF c6
  <2> QED BY <2>3, WritesType DEF W
<1>7. Writes(s, words, Upto7(m), f7) /\ Writing(words) /\ words.containerSizeBytes = W
        /\ words.m_userData = userData
  <2> DEFINE g == VectorFits(m.words, 1)
             r == Widened(marks, 1)
  <2>1. Writing(r) /\ r.containerSizeBytes = 1
    <3>1. marks \in Streams({marks.got}) /\ marks.buf.m_posRead <= marks.buf.m_posWrite
      BY <1>6 DEF Writing
    <3>2. r \in Streams({marks.got}) /\ r.containerSizeBytes = 1 /\ r.buf = marks.buf /\ r.got = marks.got
      BY <3>1, WithWidth
    <3> HIDE DEF r
    <3> QED BY <3>1, <3>2 DEF Writing
  <2>2. Writes(r, WriteVector(r, m.words), WordsCode(m), g)
    <3> HIDE DEF r
    <3>1. Writes(r, WriteVector(r, m.words),
                 Join(Number(Len(m.words), r.containerSizeBytes), Concat(Elements(m.words,
                   r.containerSizeBytes))),
                 VectorFits(m.words, r.containerSizeBytes))
      BY <1>t, <2>1, VectorWrites
    <3> QED BY <2>1, <3>1 DEF WordsCode
  <2>3. Writes(marks, words, WordsCode(m), g)
    <3>1. words = Release(WriteVector(r, m.words), marks.containerSizeBytes)
      BY DEF words, WordsStep
    <3> DEFINE v == WriteVector(r, m.words)
    <3>2. Writes(Widened(marks, 1), v, WordsCode(m), g) /\ 1 \in {1, 4}
      BY <2>2
    <3> HIDE DEF v, g
    <3>3. Writes(marks, Release(v, marks.containerSizeBytes), WordsCode(m), g)
      BY <1>6, <3>2, GuardedWrites
    <3> QED BY <3>1, <3>3 DEF v
  <2>4. f7 <=> f6 /\ g
    OBVIOUS
  <2> HIDE DEF f6, f7, g
  <2>5. Writes(s, words, Upto7(m), f7)
    BY <1>6, <1>c, <1>e, <2>3, <2>4, WritesOnward
  <2> QED BY <2>5, WritesType DEF W
<1>8. Writes(s, labels, c8, f8) /\ Writing(labels) /\ labels.containerSizeBytes = W
        /\ labels.m_userData = userData
  <2> DEFINE g == LabelsFit(m)
  <2>1. Writes(words, labels, LabelsCode(m), g)
    <3>1. CASE userData
      <4>1. labels = WriteMap(words, m.labels)
        BY <1>7, <3>1 DEF labels, LabelsStep
      <4>2. Writes(words, WriteMap(words, m.labels), MapCode(m.labels), MapFits(m.labels, W))
        BY <1>7, <1>t, MapWrites DEF MapCode, W
      <4>3. MapCode(m.labels) = LabelsCode(m) /\ (MapFits(m.labels, W) <=> g)
        BY <3>1 DEF LabelsCode, LabelsFit, W
      <4> HIDE DEF g
      <4> QED BY <4>1, <4>2, <4>3, WritesSame
    <3>2. CASE ~userData
      <4>1. labels = words /\ LabelsCode(m) = << >> /\ (TRUE <=> g)
        BY <1>7, <3>2 DEF labels, LabelsStep, LabelsCode, LabelsFit
      <4>2. Writes(words, words, << >>, TRUE)
        BY <1>7, WritesNothing
      <4> HIDE DEF g
      <4> QED BY <4>1, <4>2, WritesSame
    <3> QED BY <3>1, <3>2
  <2>2. f8 <=> f7 /\ g
    OBVIOUS
  <2> HIDE DEF f7, f8, g
  <2>3. Writes(s, labels, c8, f8)
    BY <1>7, <1>c, <2>1, <2>2, WritesOnward DEF c8
  <2> QED BY <2>3, WritesType DEF W
<1>9. Writes(s, note, Body(m), Fits(m))
  <2> DEFINE g == CountFits(Len(m.note))
  <2>1. Writes(labels, note, NoteCode(m), g)
    BY <1>8, <1>t, StringWrites DEF note, NoteCode, CountFits, W
  <2>2. Fits(m) <=> f8 /\ g
    BY <1>f
  <2> HIDE DEF f8, g
  <2> QED BY <1>8, <1>c, <1>e, <2>1, <2>2, WritesOnward
<1> QED BY <1>9, <1>f

\* A message is written as it is on the wire, if its parts fit into the widths of their
\* sizes and it fits into the buffer, and otherwise it is refused.
THEOREM MessageWrites ==
  ASSUME Masked, NEW m \in Message, NEW s, Writing(s), s.containerSizeBytes = DefaultSizeBytes,
         s.m_userData = userData
  PROVE  Writes(s, WriteMessage(s, m), Wire(m), Fits(m)) /\ Wire(m) \in Seq(Byte) /\ Body(m) \in Seq(Byte)
<1> DEFINE length == WriteScalar(s, 0, LengthWidth)
           note == BodyWritten(length, m, userData)
           old == Number(0, LengthWidth)
           body == Body(m)
           f == Fits(m)
           f1 == TRUE
<1>0. body \in Seq(Byte)
  BY BodyIs, UptoTypes
<1>1. Writes(s, length, old, f1) /\ old \in Seq(Byte)
  BY ScalarWrites, NumberType DEF LengthWidth
<1>2. Writing(length) /\ length.containerSizeBytes = DefaultSizeBytes /\ length.m_userData = userData
  <2> HIDE DEF length, old, f1
  <2> QED BY <1>1, WritesType
<1>3. Writes(length, note, body, f)
  BY <1>2, BodyWrites
<1>4. f <=> f1 /\ f
  OBVIOUS
<1>5. WriteMessage(s, m) = WriteToOffset(note, note.buf.m_posWrite - s.buf.m_posWrite - LengthWidth,
                                         LengthWidth, s.buf.m_posWrite)
  BY WriteMessageIs DEF UserData
<1>6. Wire(m) = Counted(body, LengthWidth)
  BY DEF Wire
<1>7. Wire(m) \in Seq(Byte)
  <2> HIDE DEF body
  <2> QED BY <1>0, <1>6, CountedType DEF LengthWidth
<1> HIDE DEF length, note, body, f, f1
<1>8. Writes(s, note, Join(old, body), f)
  <2> HIDE DEF old
  <2> QED BY <1>0, <1>1, <1>3, <1>4, WritesOnward
<1>9. Writes(s, WriteToOffset(note, note.buf.m_posWrite - s.buf.m_posWrite - LengthWidth,
                              LengthWidth, s.buf.m_posWrite), Counted(body, LengthWidth), f)
  BY <1>0, <1>8, StampWrites
<1> QED BY <1>0, <1>5, <1>6, <1>7, <1>9 DEF body, f

-----------------------------------------------------------------------------
(* Reading.                                                                *)

\* A stream to read from.
Stream(s) == s \in Streams({s.got})

\* What reading does not change, whatever the bytes are.
Keeps(s, t) ==
    /\ Stream(t)
    /\ t.containerSizeBytes = s.containerSizeBytes /\ t.m_userData = s.m_userData
    /\ t.buf.m_internal = s.buf.m_internal /\ t.buf.m_size = s.buf.m_size
    /\ t.buf.m_posWrite = s.buf.m_posWrite /\ t.buf.m_resizeEnabled = s.buf.m_resizeEnabled
    /\ t.ok => s.ok

\* The code comes next, as far as there are bytes.
Holds(s, code) ==
    \A i \in 1..Len(code) : s.buf.m_posRead + i <= s.buf.m_size
                              => s.buf.m_internal[s.buf.m_posRead + i] = code[i]

\* From s to t a code that comes next was read, and told the value, or its end is missing
\* and an exception was thrown.
Finds(s, t, code, value) ==
    s.ok /\ Holds(s, code) =>
        /\ t.ok <=> s.buf.m_posRead + Len(code) <= s.buf.m_size
        /\ t.ok => t.buf.m_posRead = s.buf.m_posRead + Len(code) /\ t.got = value

\* What the streams tell: numbers and strings.
Values == Nat \cup Seq(Byte)

\* A stream with a last value in a set is a stream.
LEMMA StreamIn ==
  ASSUME NEW G, NEW s \in Streams(G)
  PROVE  Stream(s) /\ s.got \in G
<1>1. s.got \in G /\ s.got \in {s.got}
  BY StreamFields
<1>2. s \in Streams({s.got})
  BY <1>1, StreamIs
<1> QED BY <1>1, <1>2 DEF Stream

\* Reading nothing keeps a stream, and so does throwing.
LEMMA KeepsItself ==
  ASSUME NEW s, Stream(s)
  PROVE  Keeps(s, s) /\ Keeps(s, Throw(s)) /\ ~Throw(s).ok /\ Throw(s).got = s.got
<1>1. s \in Streams({s.got})
  BY DEF Stream
<1>2. /\ Throw(s) \in Streams({s.got}) /\ ~Throw(s).ok
      /\ Throw(s).buf = s.buf /\ Throw(s).got = s.got /\ Throw(s).mask = s.mask
      /\ Throw(s).containerSizeBytes = s.containerSizeBytes
      /\ Throw(s).m_userData = s.m_userData
  BY <1>1, Thrown
<1> QED BY <1>2 DEF Keeps, Stream

\* What two reads keep one after the other is kept.
LEMMA KeepsThen ==
  ASSUME NEW s, NEW t, NEW u, Keeps(s, t), Keeps(t, u)
  PROVE  Keeps(s, u)
BY DEF Keeps

\* Reading nothing finds an empty code.
LEMMA FindsNothing ==
  ASSUME NEW s, Stream(s), s.ok => s.buf.m_posRead <= s.buf.m_size
  PROVE  Finds(s, s, << >>, s.got)
<1>1. s.buf.m_posRead \in Nat /\ s.buf.m_size \in Nat
  BY StreamFields DEF Stream
<1> QED BY <1>1 DEF Finds

\* Two codes found one after the other are found as one.
LEMMA FindsThen ==
  ASSUME NEW s, NEW t, NEW u, NEW c1 \in Seq(Byte), NEW c2 \in Seq(Byte), NEW v1, NEW v2,
         Stream(s), Keeps(s, t), Keeps(t, u), Finds(s, t, c1, v1), Finds(t, u, c2, v2)
  PROVE  Finds(s, u, Join(c1, c2), v2)
<1> SUFFICES ASSUME s.ok, Holds(s, Join(c1, c2))
             PROVE  /\ u.ok <=> s.buf.m_posRead + Len(Join(c1, c2)) <= s.buf.m_size
                    /\ u.ok => u.buf.m_posRead = s.buf.m_posRead + Len(Join(c1, c2)) /\ u.got = v2
  BY DEF Finds
<1> DEFINE p == s.buf.m_posRead
           size == s.buf.m_size
           n1 == Len(c1)
           n2 == Len(c2)
           c == Join(c1, c2)
<1>1. p \in Nat /\ size \in Nat /\ n1 \in Nat /\ n2 \in Nat
  BY StreamFields DEF Stream
<1>2. IsJoin(c, c1, c2)
  BY JoinIs
<1> HIDE DEF c
<1>3. Len(c) = n1 + n2 /\ (\A i \in 1..n1 : c[i] = c1[i]) /\ (\A i \in 1..n2 : c[n1 + i] = c2[i])
  BY <1>2 DEF IsJoin
<1>4. \A i \in 1..(n1 + n2) : p + i <= size => s.buf.m_internal[p + i] = c[i]
  BY <1>3 DEF Holds, c
<1>5. Holds(s, c1)
  <2>1. \A i \in 1..n1 : i \in 1..(n1 + n2)
    BY <1>1
  <2> QED BY <1>3, <1>4, <2>1 DEF Holds
<1>6. /\ t.ok <=> p + n1 <= size
      /\ t.ok => t.buf.m_posRead = p + n1
  BY <1>5 DEF Finds
<1>7. t.buf.m_size = size /\ t.buf.m_internal = s.buf.m_internal /\ (u.ok => t.ok)
  BY DEF Keeps
<1>8. CASE ~t.ok
  <2>1. ~(p + (n1 + n2) <= size)
    BY <1>1, <1>6, <1>8
  <2> QED BY <1>3, <1>7, <1>8, <2>1 DEF c
<1>9. CASE t.ok
  <2>1. Holds(t, c2)
    <3>1. ASSUME NEW i \in 1..n2, (p + n1) + i <= size PROVE s.buf.m_internal[(p + n1) + i] = c2[i]
      <4>1. n1 + i \in 1..(n1 + n2) /\ p + (n1 + i) = (p + n1) + i
        BY <1>1
      <4> QED BY <1>3, <1>4, <3>1, <4>1
    <3> QED BY <1>6, <1>7, <1>9, <3>1 DEF Holds
  <2>2. /\ u.ok <=> (p + n1) + n2 <= size
        /\ u.ok => u.buf.m_posRead = (p + n1) + n2 /\ u.got = v2
    BY <1>6, <1>7, <1>9, <2>1 DEF Finds
  <2>3. (p + n1) + n2 = p + (n1 + n2)
    BY <1>1
  <2> QED BY <1>3, <2>2, <2>3 DEF c
<1>10. t.ok \in BOOLEAN
  <2>1. t \in Streams({t.got})
    BY DEF Keeps, Stream
  <2> QED BY <2>1, StreamFields
<1> QED BY <1>8, <1>9

\* Bytes.
LEMMA BlockKeeps ==
  ASSUME NEW s, Stream(s), NEW n \in Nat
  PROVE  /\ Keeps(s, ReadBlock(s, n))
         /\ ReadBlock(s, n).ok <=> (s.ok /\ s.buf.m_posRead + n <= s.buf.m_size)
         /\ ~ReadBlock(s, n).ok => ReadBlock(s, n).got = s.got
         /\ ReadBlock(s, n).ok => /\ ReadBlock(s, n).got \in Seq(Byte)
                                  /\ ReadBlock(s, n).got \in [1..n -> Byte]
                                  /\ ReadBlock(s, n).buf.m_posRead = s.buf.m_posRead + n
                                  /\ \A i \in 1..n : ReadBlock(s,
                                       n).got[i] = s.buf.m_internal[s.buf.m_posRead + i]
<1> DEFINE b == s.buf
           p == b.m_posRead
           t == ReadBlock(s, n)
<1>1. /\ s \in Streams({s.got}) /\ BufferOK(b, Byte) /\ b \in Buffer(Byte) /\ p \in Nat /\ b.m_size \in Nat
      /\ s.ok \in BOOLEAN /\ b.m_internal \in Seq(Byte) /\ b.m_size = Len(b.m_internal)
      /\ b.m_posWrite <= b.m_size /\ (s.ok => ~b.m_eofRead)
  BY StreamFields DEF Stream
<1>2. CASE ~s.ok
  <2>1. t = s
    BY <1>2 DEF ReadBlock
  <2> QED BY <1>2, <2>1, KeepsItself
<1>3. CASE s.ok /\ ~(p + n <= b.m_size)
  <2> DEFINE c == EofReached(b)
             r == [s EXCEPT !.buf = c]
  <2>1. t = Throw(r)
    BY <1>3 DEF ReadBlock, MayRead
  <2>2. /\ BufferOK(c, Byte) /\ c.m_internal = b.m_internal /\ c.m_size = b.m_size
             /\ c.m_posWrite = b.m_posWrite
        /\ c.m_resizeEnabled = b.m_resizeEnabled
    BY <1>1 DEF EofReached, BufferOK, Buffer
  <2> HIDE DEF c
  <2> DEFINE d == [Throw(s) EXCEPT !.buf = c]
  <2>3. Throw(r) = d
    <3>1. s = [buf |-> s.buf, mask |-> s.mask, containerSizeBytes |-> s.containerSizeBytes,
               m_userData |-> s.m_userData, ok |-> s.ok, got |-> s.got]
      BY <1>1 DEF Streams
    <3> QED BY <3>1 DEF Throw
  <2>4. /\ Throw(s) \in Streams({s.got}) /\ ~Throw(s).ok /\ Throw(s).got = s.got /\ Throw(s).buf = s.buf
        /\ Throw(s).containerSizeBytes = s.containerSizeBytes
        /\ Throw(s).m_userData = s.m_userData
    BY <1>1, Thrown
  <2> DEFINE q == Throw(s)
  <2>5. /\ d \in Streams({s.got}) /\ d.buf = c /\ ~d.ok /\ d.got = s.got
        /\ d.containerSizeBytes = s.containerSizeBytes /\ d.m_userData = s.m_userData
    <3> HIDE DEF q
    <3>1. q \in Streams({s.got}) /\ BufferOK(c, Byte) /\ (q.ok => ~c.m_eofRead)
      BY <2>2, <2>4 DEF q
    <3>2. /\ [q EXCEPT !.buf = c] \in Streams({s.got}) /\ [q EXCEPT !.buf = c].buf = c
          /\ [q EXCEPT !.buf = c].ok = q.ok /\ [q EXCEPT !.buf = c].got = q.got
          /\ [q EXCEPT !.buf = c].containerSizeBytes = q.containerSizeBytes
          /\ [q EXCEPT !.buf = c].m_userData = q.m_userData
      BY <3>1, WithBuffer
    <3> QED BY <2>4, <3>2 DEF q
  <2> HIDE DEF d
  <2>6. Keeps(s, d)
    BY <2>2, <2>5 DEF Keeps, Stream
  <2> QED BY <1>3, <2>1, <2>3, <2>5, <2>6
<1>4. CASE s.ok /\ p + n <= b.m_size
  <2> DEFINE c == MarkRead(b, n)
             v == Remaining(b, n)
             d == [s EXCEPT !.buf = c, !.got = v]
  <2>1. t = d
    BY <1>4 DEF ReadBlock, MayRead
  <2>2. /\ BufferOK(c, Byte) /\ c.m_internal = b.m_internal /\ c.m_size = b.m_size
             /\ c.m_posWrite = b.m_posWrite
        /\ c.m_resizeEnabled = b.m_resizeEnabled /\ c.m_posRead = p + n /\ c.m_eofRead = b.m_eofRead
        /\ c \in Buffer(Byte)
    BY <1>1 DEF MarkRead, BufferOK, Buffer
  <2>3. /\ v \in Seq(Byte) /\ v \in [1..n -> Byte] /\ \A i \in 1..n : v[i] = b.m_internal[p + i]
    <3> DEFINE w == b.m_internal
    <3>1. w \in Seq(Byte) /\ p \in Nat /\ p + n <= Len(w)
      BY <1>1, <1>4
    <3> HIDE DEF w, p, Byte
    <3>2. /\ SubSeq(w, p + 1, p + n) \in Seq(Byte) /\ Len(SubSeq(w, p + 1, p + n)) = n
          /\ \A i \in 1..n : SubSeq(w, p + 1, p + n)[i] = w[p + i]
      BY <3>1
    <3>3. v = SubSeq(w, p + 1, p + n)
      BY DEF Remaining, w, p
    <3> HIDE DEF v
    <3>4. \A f : f \in Seq(Byte) => f \in [1..Len(f) -> Byte]
      OBVIOUS
    <3> QED BY <3>2, <3>3, <3>4 DEF w
  <2> HIDE DEF c, v
  <2>4. /\ d \in Streams({v}) /\ d.buf = c /\ d.ok = s.ok /\ d.got = v
        /\ d.containerSizeBytes = s.containerSizeBytes /\ d.m_userData = s.m_userData
    <3>1. s.ok => ~c.m_eofRead
      BY <1>1, <2>2
    <3> HIDE DEF Buffer, BufferOK
    <3> QED BY <1>1, <2>2, <3>1 DEF Streams
  <2> HIDE DEF d
  <2>5. Keeps(s, d)
    BY <2>2, <2>4 DEF Keeps, Stream
  <2> QED BY <1>4, <2>1, <2>2, <2>3, <2>4, <2>5
<1> QED BY <1>1, <1>2, <1>3, <1>4

\* readBlock finds the bytes that come next.
LEMMA BlockFinds ==
  ASSUME NEW s, Stream(s), NEW code \in Seq(Byte)
  PROVE  Finds(s, ReadBlock(s, Len(code)), code, code)
<1> DEFINE n == Len(code)
           t == ReadBlock(s, n)
<1>1. n \in Nat /\ s.buf.m_posRead \in Nat /\ s.buf.m_size \in Nat
  BY StreamFields DEF Stream
<1>2. /\ t.ok <=> (s.ok /\ s.buf.m_posRead + n <= s.buf.m_size)
      /\ t.ok => /\ t.got \in Seq(Byte) /\ t.got \in [1..n -> Byte]
                 /\ t.buf.m_posRead = s.buf.m_posRead + n
                 /\ \A i \in 1..n : t.got[i] = s.buf.m_internal[s.buf.m_posRead + i]
  <2> HIDE DEF n
  <2> QED BY <1>1, BlockKeeps
<1> HIDE DEF t
<1>3. ASSUME s.ok, Holds(s, code), t.ok PROVE t.got = code
  <2>1. t.got \in Seq(Byte) /\ Len(t.got) = n
    BY <1>1, <1>2, <1>3
  <2>2. \A i \in 1..n : t.got[i] = code[i]
    <3>1. \A i \in 1..n : s.buf.m_posRead + i <= s.buf.m_size
      BY <1>1, <1>2, <1>3
    <3> QED BY <1>2, <1>3, <3>1 DEF Holds
  <2> QED BY <2>1, <2>2, SameSequence
<1> QED BY <1>2, <1>3 DEF Finds, t

\* The bytes of a number in the order of their weights.
Ordered(bytes, width) == [i \in 1..width |-> bytes[Xor(TypeMask(mask, width), i - 1) + 1]]

\* The bytes of a scalar in the order of their weights are the bytes, from the last or from
\* the first.
LEMMA OrderedType ==
  ASSUME Masked, NEW width \in {1, 2, 4}, NEW bytes \in [1..width -> Byte]
  PROVE  /\ Ordered(bytes, width) \in [1..width -> Byte]
         /\ \A i \in 1..width : Ordered(bytes, width)[i] = bytes[IF mask = s_bigEndian
              THEN width - i + 1 ELSE i]
<1>1. ASSUME NEW i \in 1..width
      PROVE  Xor(TypeMask(mask, width), i - 1) + 1 = IF mask = s_bigEndian THEN width - i + 1 ELSE i
  <2>1. width \in Width /\ i - 1 \in 0..(width - 1) /\ width - 1 - (i - 1) + 1 = width - i + 1
          /\ (i - 1) + 1 = i
    BY DEF Width
  <2>2. /\ Xor(TypeMask(s_bigEndian, width), i - 1) = width - 1 - (i - 1)
        /\ Xor(TypeMask(s_littleEndian, width), i - 1) = i - 1
    BY <2>1, MasksAreEndian
  <2>3. s_littleEndian # s_bigEndian
    BY DEF s_littleEndian, s_bigEndian
  <2> QED BY <2>1, <2>2, <2>3 DEF Masked
<1>2. ASSUME NEW i \in 1..width
      PROVE  (IF mask = s_bigEndian THEN width - i + 1 ELSE i) \in 1..width
  OBVIOUS
<1> HIDE DEF Byte
<1> QED BY <1>1, <1>2 DEF Ordered

\* The value of a number's bytes is the number.
LEMMA OrderedNumber ==
  ASSUME Masked, NEW width \in {1, 2, 4}, NEW value \in Nat, value < Power(Base, width)
  PROVE  ValueOf(Ordered(Number(value, width), width), Base) = value
<1> DEFINE P == Power(Base, width)
<1>1. Base \in Nat \ {0} /\ width \in Nat
  BY BaseType
<1>2. P \in Nat
  BY <1>1, PowersArePositive
<1>3. value \in 0..(P - 1)
  BY <1>2
<1>4. ValueOf([i \in 1..width |-> Digit(value, i - 1, Base)], Base) = value
  BY <1>1, <1>3, ValueOfDigits
<1>5. Ordered(Number(value, width), width) = [i \in 1..width |-> Digit(value, i - 1, Base)]
  <2>1. Number(value, width) \in [1..width -> Byte]
    BY NumberType
  <2>2. ASSUME NEW i \in 1..width PROVE Ordered(Number(value, width), width)[i] = Digit(value, i - 1, Base)
    <3> DEFINE j == IF mask = s_bigEndian THEN width - i + 1 ELSE i
    <3>1. j \in 1..width /\ (IF mask = s_bigEndian THEN width - j ELSE j - 1) = i - 1
      OBVIOUS
    <3>2. Ordered(Number(value, width), width)[i] = Number(value, width)[j]
      BY <2>1, OrderedType
    <3> HIDE DEF j
    <3>3. Number(value, width)[j] = HostByte(value, IF mask = s_bigEndian THEN width - j ELSE j - 1)
      BY <3>1 DEF Number
    <3> QED BY <3>1, <3>2, <3>3 DEF HostByte
  <2>3. Ordered(Number(value, width), width) = [i \in 1..width |-> Ordered(Number(value, width), width)[i]]
    BY DEF Ordered
  <2> QED BY <2>2, <2>3
<1> QED BY <1>4, <1>5

\* A stream with another last value is a stream.
LEMMA WithGot ==
  ASSUME NEW G, NEW s \in Streams(G), NEW v
  PROVE  /\ [s EXCEPT !.got = v] \in Streams({v}) /\ [s EXCEPT !.got = v].got = v
         /\ [s EXCEPT !.got = v].buf = s.buf /\ [s EXCEPT !.got = v].ok = s.ok
         /\ [s EXCEPT !.got = v].containerSizeBytes = s.containerSizeBytes
         /\ [s EXCEPT !.got = v].m_userData = s.m_userData
<1> HIDE DEF Buffer, BufferOK
<1> QED BY DEF Streams

\* Numbers.
LEMMA ScalarKeeps ==
  ASSUME Masked, NEW s, Stream(s), NEW width \in {1, 2, 4}
  PROVE  /\ Keeps(s, ReadScalar(s, width))
         /\ ReadScalar(s, width).ok <=> (s.ok /\ s.buf.m_posRead + width <= s.buf.m_size)
         /\ ~ReadScalar(s, width).ok => ReadScalar(s, width).got = s.got
         /\ ReadScalar(s, width).ok => ReadScalar(s, width).got \in Nat
         /\ ReadScalar(s, width).ok => ReadScalar(s, width).buf.m_posRead = s.buf.m_posRead + width
<1> DEFINE r == ReadBlock(s, width)
           t == ReadScalar(s, width)
           v == ValueOf(Ordered(r.got, width), Base)
<1>0. width \in Nat
  OBVIOUS
<1>1. /\ Keeps(s, r)
      /\ r.ok <=> (s.ok /\ s.buf.m_posRead + width <= s.buf.m_size)
      /\ ~r.ok => r.got = s.got
      /\ r.ok => r.got \in [1..width -> Byte] /\ r.buf.m_posRead = s.buf.m_posRead + width
  BY <1>0, BlockKeeps
<1>2. r.mask = mask /\ s.mask = mask /\ r \in Streams({r.got})
  BY <1>1, StreamFields DEF Keeps, Stream
<1>3. CASE ~r.ok
  <2>1. t = r
    BY <1>3 DEF ReadScalar
  <2> QED BY <1>1, <1>3, <2>1
<1>4. CASE r.ok
  <2>1. t = [r EXCEPT !.got = v]
    BY <1>2, <1>4, Zenon DEF ReadScalar, Ordered
  <2>2. v \in Nat
    <3>1. Ordered(r.got, width) \in [1..width -> Byte]
      BY <1>1, <1>4, OrderedType
    <3>2. Base \in Nat \ {0}
      BY BaseType
    <3>3. PICK f \in [0..width -> Nat] : ValueOf(Ordered(r.got, width), Base) = f[width]
      BY <1>0, <3>1, <3>2, ValueSteps DEF Byte
    <3> QED BY <1>0, <3>3
  <2> HIDE DEF r, v, t
  <2>3. /\ t \in Streams({v}) /\ t.got = v /\ t.buf = r.buf /\ t.ok = r.ok
        /\ t.containerSizeBytes = r.containerSizeBytes /\ t.m_userData = r.m_userData
    <3> DEFINE d == [r EXCEPT !.got = v]
    <3>1. r \in Streams({r.got})
      BY <1>2
    <3>2. /\ d \in Streams({v}) /\ d.got = v /\ d.buf = r.buf /\ d.ok = r.ok
          /\ d.containerSizeBytes = r.containerSizeBytes /\ d.m_userData = r.m_userData
      BY <3>1, WithGot
    <3>3. t = d
      BY <2>1
    <3> HIDE DEF d
    <3> QED BY <3>2, <3>3
  <2>4. Keeps(s, t)
    BY <1>1, <2>3 DEF Keeps, Stream
  <2> QED BY <1>1, <1>4, <2>2, <2>3, <2>4 DEF t
<1>5. r.ok \in BOOLEAN
  BY <1>2, StreamFields
<1> QED BY <1>3, <1>4

\* A scalar that comes next as a number is read as this number, if it fits the width.
LEMMA ScalarFinds ==
  ASSUME Masked, NEW s, Stream(s), NEW width \in {1, 2, 4}, NEW value \in Nat, value < Power(Base, width)
  PROVE  Finds(s, ReadScalar(s, width), Number(value, width), value)
<1> DEFINE r == ReadBlock(s, width)
           t == ReadScalar(s, width)
           code == Number(value, width)
<1>1. code \in Seq(Byte) /\ Len(code) = width
  BY NumberType
<1>2. Finds(s, r, code, code)
  <2> HIDE DEF code
  <2>1. Finds(s, ReadBlock(s, Len(code)), code, code)
    BY <1>1, BlockFinds
  <2> QED BY <1>1, <2>1
<1>0. width \in Nat
  OBVIOUS
<1>3. /\ t.ok <=> (s.ok /\ s.buf.m_posRead + width <= s.buf.m_size)
      /\ t.ok => t.buf.m_posRead = s.buf.m_posRead + width
  BY ScalarKeeps
<1>4. Keeps(s, r) /\ (r.ok <=> (s.ok /\ s.buf.m_posRead + width <= s.buf.m_size))
  BY <1>0, BlockKeeps
<1>5. r.mask = mask /\ s.mask = mask
  BY <1>4, StreamFields DEF Keeps, Stream
<1>6. ASSUME s.ok, Holds(s, code), t.ok PROVE t.got = value
  <2>1. r.ok /\ r.got = code
    BY <1>2, <1>3, <1>4, <1>6 DEF Finds
  <2>2. t = [r EXCEPT !.got = ValueOf(Ordered(r.got, width), Base)]
    BY <1>5, <2>1, Zenon DEF ReadScalar, Ordered
  <2>3. ValueOf(Ordered(code, width), Base) = value
    BY OrderedNumber
  <2>4. r \in Streams({r.got})
    BY <1>4 DEF Keeps, Stream
  <2>5. [r EXCEPT !.got = value].got = value
    <3> HIDE DEF r
    <3> QED BY <2>4, WithGot
  <2> QED BY <2>1, <2>2, <2>3, <2>5
<1> HIDE DEF t, code
<1> QED BY <1>1, <1>3, <1>6 DEF Finds, t, code

\* A size is refused, too, when it is beyond the bytes that are left.
LEMMA SizeKeeps ==
  ASSUME Masked, NEW s, Stream(s)
  PROVE  /\ Keeps(s, ReadSize(s)) /\ ReadSize(s).got \in {s.got} \cup Nat
         /\ ReadSize(s).ok => ReadSize(s).got \in Nat
<1> DEFINE w == s.containerSizeBytes
           r == ReadScalar(s, w)
<1>1. w \in {1, 2, 4}
  BY StreamFields DEF Stream
<1>2. /\ Keeps(s, r) /\ (~r.ok => r.got = s.got) /\ (r.ok => r.got \in Nat)
  BY <1>1, ScalarKeeps
<1>3. Stream(r)
  BY <1>2 DEF Keeps
<1> HIDE DEF r
<1>4. Keeps(r, Throw(r)) /\ ~Throw(r).ok /\ Throw(r).got = r.got
  BY <1>3, KeepsItself
<1>5. ReadSize(s) = IF r.ok /\ r.got > RemainRead(r.buf) THEN Throw(r) ELSE r
  BY DEF ReadSize, r
<1>6. Keeps(s, Throw(r))
  BY <1>2, <1>4, KeepsThen
<1>7. CASE r.ok /\ r.got > RemainRead(r.buf)
  <2>1. ReadSize(s) = Throw(r)
    BY <1>5, <1>7
  <2> QED BY <1>2, <1>4, <1>6, <1>7, <2>1
<1>8. CASE ~(r.ok /\ r.got > RemainRead(r.buf))
  <2>1. ReadSize(s) = r
    BY <1>5, <1>8
  <2> QED BY <1>2, <2>1
<1> QED BY <1>7, <1>8

\* What follows a size.
LEMMA SizedFinds ==
  ASSUME Masked, NEW s, Stream(s), NEW size \in Nat, NEW body \in Seq(Byte), size <= Len(body),
         NEW w, w = s.containerSizeBytes, size < Power(Base, w), NEW u, NEW value,
         Keeps(ReadSize(s), u),
         ReadSize(s).ok /\ ReadSize(s).got = size => Finds(ReadSize(s), u, body, value)
  PROVE  Finds(s, u, Join(Number(size, w), body), value)
<1> DEFINE r == ReadScalar(s, w)
           t == ReadSize(s)
           code == Number(size, w)
           n == Len(body)
           p == s.buf.m_posRead
<1>1. w \in {1, 2, 4} /\ p \in Nat /\ s.buf.m_size \in Nat /\ n \in Nat
  BY StreamFields DEF Stream
<1>2. code \in Seq(Byte) /\ Len(code) = w
  BY <1>1, NumberType
<1>3. Finds(s, r, code, size) /\ Keeps(s, r) /\ (r.ok <=> (s.ok /\ p + w <= s.buf.m_size))
  BY <1>1, ScalarFinds, ScalarKeeps
<1>4. Stream(r)
  BY <1>3 DEF Keeps
<1>5. t = IF r.ok /\ r.got > RemainRead(r.buf) THEN Throw(r) ELSE r
  BY DEF ReadSize
<1> DEFINE c == Join(code, body)
<1>6. c \in Seq(Byte) /\ Len(c) = w + n /\ IsJoin(c, code, body)
  <2> HIDE DEF code
  <2>1. c \in Seq(Byte) /\ IsJoin(c, code, body)
    BY <1>2, JoinIs
  <2> QED BY <1>2, <2>1 DEF IsJoin
<1> HIDE DEF r, code
<1>7. ~Throw(r).ok
  BY <1>4, KeepsItself
<1> HIDE DEF t, c
<1>8. SUFFICES ASSUME s.ok, Holds(s, c)
      PROVE  /\ u.ok <=> p + (w + n) <= s.buf.m_size
             /\ u.ok => u.buf.m_posRead = p + (w + n) /\ u.got = value
  BY <1>6 DEF Finds, c, code
<1>9. \A i \in 1..w : c[i] = code[i]
  BY <1>2, <1>6 DEF IsJoin
<1>10. Holds(s, code)
  <2>1. \A i \in 1..w : i \in 1..(w + n)
    BY <1>1
  <2> QED BY <1>2, <1>6, <1>8, <1>9, <2>1 DEF Holds
<1>11. /\ r.ok <=> p + w <= s.buf.m_size
       /\ r.ok => r.buf.m_posRead = p + w /\ r.got = size
       /\ r.buf.m_size = s.buf.m_size /\ r.buf.m_internal = s.buf.m_internal
  BY <1>2, <1>3, <1>8, <1>10 DEF Finds, Keeps
<1>12. Keeps(t, u)
  BY DEF t
<1>13. CASE ~t.ok
  <2>1. ~u.ok
    BY <1>12, <1>13 DEF Keeps
  <2>2. ~(p + (w + n) <= s.buf.m_size)
    <3>1. CASE ~r.ok
      BY <1>1, <1>11, <3>1
    <3>2. CASE r.ok
      <4>1. r.got > RemainRead(r.buf)
        BY <1>5, <1>13, <3>2
      <4>2. size > s.buf.m_size - (p + w)
        BY <1>11, <3>2, <4>1 DEF RemainRead
      <4> QED BY <1>1, <4>2
    <3> QED BY <3>1, <3>2
  <2> QED BY <2>1, <2>2
<1>14. CASE t.ok
  <2>1. t = r
    BY <1>5, <1>7, <1>14
  <2>2. Finds(r, u, body, value)
    BY <1>11, <1>14, <2>1 DEF t
  <2>3. Holds(r, body)
    <3>1. \A i \in 1..n : c[w + i] = body[i]
      BY <1>2, <1>6 DEF IsJoin
    <3>2. ASSUME NEW i \in 1..n, (p + w) + i <= s.buf.m_size PROVE s.buf.m_internal[(p + w) + i] = body[i]
      <4>1. w + i \in 1..(w + n) /\ p + (w + i) = (p + w) + i
        BY <1>1
      <4> QED BY <1>6, <1>8, <3>1, <3>2, <4>1 DEF Holds
    <3> QED BY <1>11, <1>14, <2>1, <3>2 DEF Holds
  <2>4. /\ u.ok <=> (p + w) + n <= s.buf.m_size
        /\ u.ok => u.buf.m_posRead = (p + w) + n /\ u.got = value
    BY <1>11, <1>14, <2>1, <2>2, <2>3 DEF Finds
  <2>5. (p + w) + n = p + (w + n)
    BY <1>1
  <2> QED BY <2>4, <2>5
<1>15. t.ok \in BOOLEAN
  <2>1. Stream(t)
    BY SizeKeeps DEF t, Keeps
  <2> QED BY <2>1, StreamFields DEF Stream
<1> QED BY <1>13, <1>14

\* Whatever the bytes are, reading a string keeps the buffer.
LEMMA StringKeeps ==
  ASSUME Masked, NEW s, Stream(s)
  PROVE  Keeps(s, ReadString(s)) /\ ReadString(s).got \in {s.got} \cup Values
<1> DEFINE r == ReadSize(s)
<1>1. Keeps(s, r) /\ r.got \in {s.got} \cup Nat /\ (r.ok => r.got \in Nat)
  BY SizeKeeps
<1>2. Stream(r) /\ (r.ok => ~r.buf.m_eofRead)
  BY <1>1, StreamFields DEF Keeps, Stream
<1> HIDE DEF r
<1>3. CASE ~r.ok
  <2>1. ReadString(s) = r
    BY <1>3 DEF ReadString, r
  <2> QED BY <1>1, <2>1 DEF Values
<1>4. CASE r.ok
  <2>1. ReadString(s) = ReadBlock(r, r.got)
    BY <1>2, <1>4 DEF ReadString, r
  <2>2. /\ Keeps(r, ReadBlock(r, r.got))
        /\ ~ReadBlock(r, r.got).ok => ReadBlock(r, r.got).got = r.got
        /\ ReadBlock(r, r.got).ok => ReadBlock(r, r.got).got \in Seq(Byte)
    BY <1>1, <1>2, <1>4, BlockKeeps
  <2>3. Keeps(s, ReadString(s))
    BY <1>1, <2>1, <2>2, KeepsThen
  <2> QED BY <1>1, <1>4, <2>1, <2>2, <2>3 DEF Values
<1>5. r.ok \in BOOLEAN
  BY <1>2, StreamFields DEF Stream
<1> QED BY <1>3, <1>4

\* A counted string that comes next is read.
LEMMA StringFinds ==
  ASSUME Masked, NEW s, Stream(s), NEW str \in Seq(Byte), Len(str) < Power(Base, s.containerSizeBytes)
  PROVE  Finds(s, ReadString(s), Counted(str, s.containerSizeBytes), str)
<1> DEFINE r == ReadSize(s)
           u == ReadString(s)
           w == s.containerSizeBytes
           n == Len(str)
<1>0. w \in {1, 2, 4} /\ n \in Nat
  BY StreamFields DEF Stream
<1>1. Keeps(s, r) /\ (r.ok => r.got \in Nat)
  BY SizeKeeps
<1>2. Stream(r) /\ (r.ok => ~r.buf.m_eofRead)
  BY <1>1, StreamFields DEF Keeps, Stream
<1>3. Keeps(r, u) /\ (r.ok /\ r.got = n => Finds(r, u, str, str))
  <2> HIDE DEF r
  <2>1. CASE ~r.ok
    <3>1. u = r
      BY <2>1 DEF ReadString, r
    <3> QED BY <1>2, <2>1, <3>1, KeepsItself
  <2>2. CASE r.ok
    <3>1. u = ReadBlock(r, r.got)
      BY <1>2, <2>2 DEF ReadString, r
    <3>2. Keeps(r, u)
      BY <1>1, <1>2, <2>2, <3>1, BlockKeeps
    <3>3. ASSUME r.got = n PROVE Finds(r, u, str, str)
      <4>1. Finds(r, ReadBlock(r, Len(str)), str, str)
        BY <1>2, BlockFinds
      <4> QED BY <3>1, <3>3, <4>1
    <3> QED BY <3>2, <3>3
  <2>3. r.ok \in BOOLEAN
    BY <1>2, StreamFields DEF Stream
  <2> QED BY <2>1, <2>2
<1>4. Counted(str, w) = Join(Number(n, w), str)
  BY <1>0, CountedType
<1>5. n < Power(Base, w) /\ n <= Len(str) /\ w = s.containerSizeBytes
  BY <1>0
<1> HIDE DEF u, w, n
<1>6. Finds(s, u, Join(Number(n, w), str), str)
  BY <1>0, <1>3, <1>5, SizedFinds
<1> QED BY <1>4, <1>6 DEF u, w

\* What was found on the way.
LEMMA FoundBefore ==
  ASSUME NEW s, NEW t, NEW u, NEW c1 \in Seq(Byte), NEW c2 \in Seq(Byte), NEW v1,
         Keeps(t, u), Finds(s, t, c1, v1), s.ok, Holds(s, Join(c1, c2)), u.ok
  PROVE  Holds(s, c1) /\ t.ok /\ t.got = v1
<1> DEFINE c == Join(c1, c2)
<1>1. IsJoin(c, c1, c2) /\ Len(c1) \in Nat /\ Len(c2) \in Nat
  BY JoinIs
<1> HIDE DEF c
<1>2. Len(c) = Len(c1) + Len(c2) /\ \A i \in 1..Len(c1) : c[i] = c1[i]
  BY <1>1 DEF IsJoin
<1>3. \A i \in 1..Len(c1) : i \in 1..Len(c)
  BY <1>1, <1>2
<1>4. Holds(s, c)
  BY DEF c
<1>5. Holds(s, c1)
  BY <1>2, <1>3, <1>4 DEF Holds
<1> QED BY <1>5 DEF Finds, Keeps

\* Reads in a row, from s to u.
Elementwise(F, n, s, u) ==
    /\ F[0] = [stream |-> s, elements |-> << >>]
    /\ \A i \in 1..n : F[i] = [stream |-> F[i].stream, elements |-> Append(F[i - 1].elements,
         F[i].stream.got)]
    /\ u = [F[n].stream EXCEPT !.got = F[n].elements]

\* The states of reads in a row.
States(G) == [stream : Streams(G), elements : Seq(G)]

\* Reads in a row that keep the buffer one by one keep it together.
LEMMA ElementsKeep ==
  ASSUME NEW G, NEW n \in Nat, NEW s \in Streams(G), NEW F, NEW u, Elementwise(F, n, s, u),
         \A i \in 1..n : F[i - 1].stream \in Streams(G)
                           => Keeps(F[i - 1].stream, F[i].stream) /\ F[i].stream \in Streams(G)
  PROVE  /\ Keeps(s, u) /\ u.got \in Seq(G)
         /\ \A i \in 0..n : Keeps(s, F[i].stream) /\ F[i].stream \in Streams(G) /\ F[i].elements \in Seq(G)
<1> DEFINE T == {i \in 0..n : Keeps(s, F[i].stream) /\ F[i].stream \in Streams(G) /\ F[i].elements \in Seq(G)}
<1>1. 0 \in T
  <2>1. F[0].stream = s /\ F[0].elements = << >>
    BY DEF Elementwise
  <2>2. Keeps(s, s)
    <3>1. Stream(s)
      BY StreamIn
    <3> QED BY <3>1, KeepsItself
  <2>3. Keeps(s, F[0].stream) /\ F[0].stream \in Streams(G)
    BY <2>1, <2>2
  <2>4. F[0].elements \in Seq(G) /\ 0 \in 0..n
    BY <2>1
  <2> QED BY <2>3, <2>4
<1>2. ASSUME NEW i \in 1..n, i - 1 \in T PROVE i \in T
  <2>1. Keeps(s, F[i - 1].stream) /\ F[i - 1].stream \in Streams(G) /\ F[i - 1].elements \in Seq(G)
    BY <1>2
  <2>2. Keeps(F[i - 1].stream, F[i].stream) /\ F[i].stream \in Streams(G)
    BY <2>1
  <2>3. Keeps(s, F[i].stream)
    BY <2>1, <2>2, KeepsThen
  <2>4. F[i].stream.got \in G
    BY <2>2, StreamFields
  <2>5. F[i].elements = Append(F[i - 1].elements, F[i].stream.got)
    <3>1. F[i] = [stream |-> F[i].stream, elements |-> Append(F[i - 1].elements, F[i].stream.got)]
      BY DEF Elementwise
    <3> QED BY <3>1
  <2>6. F[i].elements \in Seq(G)
    BY <2>1, <2>4, <2>5
  <2> QED BY <2>2, <2>3, <2>6
<1>3. \A i \in 0..n : i \in T
  <2> HIDE DEF T
  <2> QED BY <1>1, <1>2, StepInduction
<1>4. n \in T
  <2> HIDE DEF T
  <2> QED BY <1>3
<1> DEFINE r == F[n].stream
           v == F[n].elements
<1>5. Keeps(s, r) /\ r \in Streams(G) /\ v \in Seq(G)
  BY <1>4
<1>6. u = [r EXCEPT !.got = v]
  BY DEF Elementwise
<1> HIDE DEF r, v
<1>7. Keeps(s, u) /\ u.got = v
  <2> DEFINE d == [r EXCEPT !.got = v]
  <2>1. /\ d \in Streams({v}) /\ d.got = v /\ d.buf = r.buf /\ d.ok = r.ok
        /\ d.containerSizeBytes = r.containerSizeBytes /\ d.m_userData = r.m_userData
    BY <1>5, WithGot
  <2>2. u = d
    BY <1>6
  <2> HIDE DEF d
  <2> QED BY <1>5, <2>1, <2>2 DEF Keeps, Stream
<1> QED BY <1>3, <1>5, <1>7

\* Reads in a row that find their codes one by one find all of them together.
LEMMA ElementsFind ==
  ASSUME NEW G, NEW n \in Nat, NEW s \in Streams(G), NEW F, NEW u, Elementwise(F, n, s, u),
         \A i \in 1..n : F[i - 1].stream \in Streams(G)
                           => Keeps(F[i - 1].stream, F[i].stream) /\ F[i].stream \in Streams(G),
         NEW codes \in [1..n -> Seq(Byte)], NEW V, NEW values \in Seq(V), Len(values) = n,
         \A i \in 1..n : Stream(F[i - 1].stream) /\ F[i - 1].stream.containerSizeBytes = s.containerSizeBytes
                           => Finds(F[i - 1].stream, F[i].stream, codes[i], values[i]),
         s.ok => s.buf.m_posRead <= s.buf.m_size
  PROVE  Finds(s, u, Concat(codes), values)
<1>1. PICK f \in [0..n -> Seq(Byte)] : Concats(f, codes, n)
  BY ConcatSteps
<1>2. f[0] = << >> /\ Concat(codes) = f[n] /\ \A i \in 1..n : f[i] = Join(f[i - 1], codes[i])
  BY <1>1 DEF Concats
<1>3. \A i \in 0..n : Keeps(s, F[i].stream) /\ F[i].stream \in Streams(G) /\ F[i].elements \in Seq(G)
  BY ElementsKeep
<1> DEFINE Found(i) == s.ok /\ Holds(s, f[i]) /\ F[i].stream.ok => F[i].elements = SubSeq(values, 1, i)
           T == {i \in 0..n : Finds(s, F[i].stream, f[i], F[i].stream.got) /\ Found(i)}
<1>4. 0 \in T
  <2>1. F[0].stream = s /\ F[0].elements = << >>
    BY DEF Elementwise
  <2>2. Finds(s, s, << >>, s.got)
    BY StreamIn, FindsNothing
  <2>3. SubSeq(values, 1, 0) = << >>
    OBVIOUS
  <2> QED BY <1>2, <2>1, <2>2, <2>3
<1>5. ASSUME NEW i \in 1..n, i - 1 \in T PROVE i \in T
  <2> DEFINE r == F[i - 1].stream
             t == F[i].stream
             c1 == f[i - 1]
             c2 == codes[i]
             v1 == r.got
             v2 == values[i]
  <2>0. i - 1 \in 0..n /\ i \in 0..n
    OBVIOUS
  <2>1. Finds(s, r, c1, v1) /\ Found(i - 1) /\ c1 \in Seq(Byte) /\ c2 \in Seq(Byte) /\ f[i] = Join(c1, c2)
    BY <1>2, <1>5
  <2>2. Keeps(s, r) /\ r \in Streams(G) /\ Keeps(r, t)
    BY <1>3, <2>0
  <2>3. Stream(r) /\ r.containerSizeBytes = s.containerSizeBytes /\ Stream(s)
    BY <2>2, StreamIn DEF Keeps
  <2>4. Finds(r, t, c2, v2)
    BY <2>3
  <2>5. F[i].elements = Append(F[i - 1].elements, t.got)
    <3>1. F[i] = [stream |-> F[i].stream, elements |-> Append(F[i - 1].elements, F[i].stream.got)]
      BY DEF Elementwise
    <3> QED BY <3>1
  <2>6. Finds(s, t, Join(c1, c2), v2)
    <3> HIDE DEF r, t, c1, c2, v1, v2, Found
    <3> QED BY <2>1, <2>2, <2>3, <2>4, FindsThen
  <2>7. Finds(s, t, f[i], t.got)
    BY <2>1, <2>6 DEF Finds
  <2>8. ASSUME s.ok, Holds(s, f[i]), t.ok PROVE F[i].elements = SubSeq(values, 1, i)
    <3>1. Holds(s, c1) /\ r.ok
      <4>1. Holds(s, Join(c1, c2))
        BY <2>1, <2>8
      <4> HIDE DEF r, t, c1, c2, v1, v2, Found
      <4> QED BY <2>1, <2>2, <2>8, <4>1, FoundBefore
    <3>2. F[i - 1].elements = SubSeq(values, 1, i - 1)
      BY <2>1, <2>8, <3>1
    <3>3. t.got = v2
      BY <2>1, <2>6, <2>8 DEF Finds
    <3>4. Append(SubSeq(values, 1, i - 1), values[i]) = SubSeq(values, 1, i)
      OBVIOUS
    <3> QED BY <2>5, <3>2, <3>3, <3>4
  <2> QED BY <2>7, <2>8
<1>6. n \in T
  <2> HIDE DEF T
  <2>1. \A i \in 0..n : i \in T
    BY <1>4, <1>5, StepInduction
  <2> QED BY <2>1
<1> DEFINE r == F[n].stream
           v == F[n].elements
<1>7. u = [r EXCEPT !.got = v] /\ r \in Streams(G) /\ Finds(s, r, f[n], r.got) /\ Found(n)
  BY <1>3, <1>6 DEF Elementwise
<1>8. SubSeq(values, 1, n) = values
  OBVIOUS
<1>9. s.ok /\ Holds(s, f[n]) /\ r.ok => v = values
  BY <1>7, <1>8
<1> HIDE DEF r, v, Found
<1>10. u.buf = r.buf /\ u.ok = r.ok /\ u.got = v
  <2> DEFINE d == [r EXCEPT !.got = v]
  <2>1. d.got = v /\ d.buf = r.buf /\ d.ok = r.ok
    BY <1>7, WithGot
  <2>2. u = d
    BY <1>7
  <2> HIDE DEF d
  <2> QED BY <2>1, <2>2
<1>11. Finds(s, u, f[n], values)
  BY <1>7, <1>9, <1>10 DEF Finds
<1> QED BY <1>2, <1>11

\* The states of reading n strings.
StringRun(F, n, s) ==
                /\ ReadElements(s, n, ReadString) = [F[n].stream EXCEPT !.got = F[n].elements]
                /\ F[0] = [stream |-> s, elements |-> << >>]
                /\ \A i \in 1..n : F[i] = [stream |-> ReadString(F[i - 1].stream),
                     elements |-> Append(F[i - 1].elements, ReadString(F[i - 1].stream).got)]

\* Whatever the bytes are, reading a byte keeps the buffer.
LEMMA ByteKeeps ==
  ASSUME Masked, NEW s, Stream(s)
  PROVE  Keeps(s, ReadByte(s)) /\ ReadByte(s).got \in {s.got} \cup Nat
<1>1. 1 \in {1, 2, 4}
  OBVIOUS
<1>3. Stream(ReadScalar(s, 1))
  BY <1>1, ScalarKeeps DEF Keeps
<1>2. ReadScalar(s, 1).ok \in BOOLEAN
  <2> DEFINE r == ReadScalar(s, 1)
  <2>1. r \in Streams({r.got})
    BY <1>3 DEF Stream
  <2> HIDE DEF r
  <2>2. r.ok \in BOOLEAN
    BY <2>1, StreamFields
  <2> QED BY <2>2 DEF r
<1> QED BY <1>1, <1>2, ScalarKeeps DEF ReadByte

\* A byte that comes next is read.
LEMMA ByteFinds ==
  ASSUME Masked, NEW s, Stream(s), NEW value \in Byte
  PROVE  Finds(s, ReadByte(s), <<value>>, value)
<1>1. value \in Nat /\ value < Base /\ Base \in Nat
  BY BaseType DEF Byte
<1>2. Power(Base, 1) = Base
  <2>1. Power(Base, 0) = 1 /\ Power(Base, 0 + 1) = Base * Power(Base, 0)
    BY <1>1, Powers
  <2> QED BY <1>1, <2>1
<1>3. Number(value, 1) = <<value>>
  BY ByteNumber
<1>4. Finds(s, ReadScalar(s, 1), Number(value, 1), value)
  <2>1. 1 \in {1, 2, 4}
    OBVIOUS
  <2> QED BY <1>1, <1>2, <2>1, ScalarFinds
<1> QED BY <1>3, <1>4 DEF ReadByte

\* Whatever the bytes are, checking for a zero keeps the buffer.
LEMMA ZeroKeeps ==
  ASSUME Masked, NEW s, Stream(s)
  PROVE  Keeps(s, ReadZero(s)) /\ ReadZero(s).got \in {s.got} \cup Nat
<1> DEFINE r == ReadByte(s)
<1>1. Keeps(s, r) /\ r.got \in {s.got} \cup Nat
  BY ByteKeeps
<1>2. Stream(r)
  BY <1>1 DEF Keeps
<1>3. ReadZero(s) = IF r.ok /\ r.got # 0 THEN Throw(r) ELSE r
  BY DEF ReadZero
<1> HIDE DEF r
<1>4. Keeps(r, Throw(r)) /\ Throw(r).got = r.got
  BY <1>2, KeepsItself
<1>5. Keeps(s, Throw(r))
  BY <1>1, <1>4, KeepsThen
<1> QED BY <1>1, <1>3, <1>4, <1>5

\* A zero that comes next is accepted.
LEMMA ZeroFinds ==
  ASSUME Masked, NEW s, Stream(s)
  PROVE  Finds(s, ReadZero(s), <<0>>, 0)
<1> DEFINE r == ReadByte(s)
           zero == <<0>>
<1>1. 0 \in Byte
  BY BaseType DEF Byte
<1>2. Finds(s, r, zero, 0)
  BY <1>1, ByteFinds
<1>3. ReadZero(s) = IF r.ok /\ r.got # 0 THEN Throw(r) ELSE r
  BY DEF ReadZero
<1>4. Stream(r)
  BY ByteKeeps DEF Keeps
<1> HIDE DEF r, zero
<1>5. Finds(s, ReadZero(s), zero, 0)
  BY <1>2, <1>3 DEF Finds
<1> QED BY <1>5 DEF zero

\* The states ReadElements goes through when it reads strings.
LEMMA StringSteps ==
  ASSUME Masked, NEW G, Values \subseteq G, NEW s \in Streams(G), NEW n \in Nat
  PROVE  \E F : StringRun(F, n, s)
<1> DEFINE S == States(G)
           first == [stream |-> s, elements |-> << >>]
           step == [z \in S \X (1..n) |-> [stream |-> ReadString(z[1].stream),
             elements |-> Append(z[1].elements, ReadString(z[1].stream).got)]]
           F == CHOOSE f : f = [i \in {k \in Nat : k <= n} |->
                                   IF i = 0 THEN first
                                    ELSE [stream |-> ReadString(f[i - 1].stream),
                                          elements |-> Append(f[i - 1].elements, ReadString(f[i - 1].stream).got)]]
<1>1. first \in S
  BY DEF States
<1>2. ASSUME NEW t \in S, NEW i \in 1..n
               PROVE [stream |-> ReadString(t.stream), elements |-> Append(t.elements,
                 ReadString(t.stream).got)] \in S
  <2> DEFINE r == ReadString(t.stream)
  <2>1. t.stream \in Streams(G) /\ t.elements \in Seq(G)
    BY DEF States
  <2>2. Stream(t.stream) /\ t.stream.got \in G
    BY <2>1, StreamIn
  <2>3. Keeps(t.stream, r) /\ r.got \in G
    BY <2>2, StringKeeps DEF Values
  <2>4. r \in Streams(G)
    BY <2>3, StreamIs DEF Keeps, Stream
  <2> HIDE DEF r
  <2>5. Append(t.elements, r.got) \in Seq(G)
    BY <2>1, <2>3
  <2>6. [stream |-> r, elements |-> Append(t.elements, r.got)] \in S
    BY <2>4, <2>5 DEF States
  <2> QED BY <2>6 DEF r
<1>3. step \in [S \X (1..n) -> S]
  <2> HIDE DEF S
  <2> QED BY <1>2
<1>4. PICK f : Computes(f, n, S, first, step)
  <2> HIDE DEF S, first, step
  <2> QED BY <1>1, <1>3, RunExists
<1>5. /\ f = [i \in {k \in Nat : k <= n} |-> f[i]]
      /\ f[0] = first
      /\ \A i \in 1..n : f[i - 1] \in S /\ f[i] = step[<<f[i - 1], i>>]
  <2> HIDE DEF S, first, step
  <2> QED BY <1>4 DEF Computes
<1>6. f = [i \in {k \in Nat : k <= n} |-> IF i = 0 THEN first
        ELSE [stream |-> ReadString(f[i - 1].stream), elements |-> Append(f[i - 1].elements,
          ReadString(f[i - 1].stream).got)]]
  <2>1. ASSUME NEW i \in {k \in Nat : k <= n}, i # 0
                 PROVE f[i] = [stream |-> ReadString(f[i - 1].stream),
                   elements |-> Append(f[i - 1].elements, ReadString(f[i - 1].stream).got)]
    <3>1. i \in 1..n
      BY <2>1
    <3>2. f[i - 1] \in S /\ f[i] = step[<<f[i - 1], i>>]
      BY <1>5, <3>1
    <3> HIDE DEF S
    <3> QED BY <3>1, <3>2
  <2> HIDE DEF first, step, S
  <2> QED BY <1>5, <2>1
<1>7. F = [i \in {k \in Nat : k <= n} |-> IF i = 0 THEN first
        ELSE [stream |-> ReadString(F[i - 1].stream), elements |-> Append(F[i - 1].elements,
          ReadString(F[i - 1].stream).got)]]
  <2> HIDE DEF first, step, S
  <2> QED BY <1>6
<1>8. ReadElements(s, n, ReadString) = [F[n].stream EXCEPT !.got = F[n].elements]
  BY Zenon DEF ReadElements, Run
<1> HIDE DEF F, step, S
<1>9. F[0] = first /\ \A i \in 1..n : F[i] = [stream |-> ReadString(F[i - 1].stream),
        elements |-> Append(F[i - 1].elements, ReadString(F[i - 1].stream).got)]
  <2> HIDE DEF first
  <2>1. F[0] = first
    BY <1>7
  <2>2. ASSUME NEW i \in 1..n
                 PROVE F[i] = [stream |-> ReadString(F[i - 1].stream),
                   elements |-> Append(F[i - 1].elements, ReadString(F[i - 1].stream).got)]
    <3>1. i \in {k \in Nat : k <= n} /\ i # 0
      OBVIOUS
    <3> QED BY <1>7, <3>1
  <2> QED BY <2>1, <2>2
<1> QED BY <1>8, <1>9 DEF StringRun

\* Strings are read one after the other.
LEMMA StringElements ==
  ASSUME Masked, NEW G, Values \subseteq G, NEW s \in Streams(G), NEW n \in Nat
  PROVE  \E F : /\ Elementwise(F, n, s, ReadElements(s, n, ReadString))
                /\ \A i \in 1..n : F[i].stream = ReadString(F[i - 1].stream)
                /\ \A i \in 1..n : F[i - 1].stream \in Streams(G)
                                     => Keeps(F[i - 1].stream, F[i].stream) /\ F[i].stream \in Streams(G)
<1> DEFINE u == ReadElements(s, n, ReadString)
<1>0. PICK F : StringRun(F, n, s)
  BY StringSteps
<1>1. /\ u = [F[n].stream EXCEPT !.got = F[n].elements]
               /\ F[0] = [stream |-> s, elements |-> << >>]
               /\ \A i \in 1..n : F[i] = [stream |-> ReadString(F[i - 1].stream),
                    elements |-> Append(F[i - 1].elements, ReadString(F[i - 1].stream).got)]
  BY <1>0 DEF StringRun
<1> HIDE DEF u
<1>2. ASSUME NEW i \in 1..n
               PROVE F[i].stream = ReadString(F[i - 1].stream)
                 /\ F[i].elements = Append(F[i - 1].elements, F[i].stream.got)
  <2> DEFINE r == ReadString(F[i - 1].stream)
  <2>1. F[i] = [stream |-> r, elements |-> Append(F[i - 1].elements, r.got)]
    BY <1>1
  <2> HIDE DEF r
  <2>2. F[i].stream = r /\ F[i].elements = Append(F[i - 1].elements, r.got)
    BY <2>1
  <2> QED BY <2>2 DEF r
<1>3. \A i \in 1..n : F[i] = [stream |-> F[i].stream, elements |-> Append(F[i - 1].elements, F[i].stream.got)]
  <2>1. ASSUME NEW i \in 1..n
                 PROVE F[i] = [stream |-> F[i].stream, elements |-> Append(F[i - 1].elements,
                   F[i].stream.got)]
    <3> DEFINE r == ReadString(F[i - 1].stream)
    <3>1. F[i] = [stream |-> r, elements |-> Append(F[i - 1].elements, r.got)]
      BY <1>1
    <3> HIDE DEF r
    <3> QED BY <1>2, <3>1 DEF r
  <2> QED BY <2>1
<1>4. Elementwise(F, n, s, u)
  BY <1>1, <1>3 DEF Elementwise
<1>5. ASSUME NEW i \in 1..n, F[i - 1].stream \in Streams(G)
      PROVE  Keeps(F[i - 1].stream, F[i].stream) /\ F[i].stream \in Streams(G)
  <2> DEFINE t == F[i - 1].stream
             r == F[i].stream
  <2>1. t \in Streams(G) /\ r = ReadString(t)
    BY <1>2, <1>5
  <2> HIDE DEF t, r
  <2>2. Stream(t) /\ t.got \in G
    BY <2>1, StreamIn
  <2>3. Keeps(t, r) /\ r.got \in G
    BY <2>1, <2>2, StringKeeps DEF Values
  <2>4. r \in Streams(G)
    BY <2>3, StreamIs DEF Keeps, Stream
  <2> QED BY <2>3, <2>4 DEF t, r
<1>6. \A i \in 1..n : F[i].stream = ReadString(F[i - 1].stream)
  BY <1>2
<1> QED BY <1>4, <1>5, <1>6 DEF u

\* The states of reading n bytes.
ByteRun(F, n, s) ==
                /\ ReadElements(s, n, ReadByte) = [F[n].stream EXCEPT !.got = F[n].elements]
                /\ F[0] = [stream |-> s, elements |-> << >>]
                /\ \A i \in 1..n : F[i] = [stream |-> ReadByte(F[i - 1].stream),
                     elements |-> Append(F[i - 1].elements, ReadByte(F[i - 1].stream).got)]

\* The states ReadElements goes through when it reads bytes.
LEMMA ByteSteps ==
  ASSUME Masked, NEW G, Values \subseteq G, NEW s \in Streams(G), NEW n \in Nat
  PROVE  \E F : ByteRun(F, n, s)
<1> DEFINE S == States(G)
           first == [stream |-> s, elements |-> << >>]
           step == [z \in S \X (1..n) |-> [stream |-> ReadByte(z[1].stream),
             elements |-> Append(z[1].elements, ReadByte(z[1].stream).got)]]
           F == CHOOSE f : f = [i \in {k \in Nat : k <= n} |->
                                   IF i = 0 THEN first ELSE [stream |-> ReadByte(f[i - 1].stream),
                                     elements |-> Append(f[i - 1].elements, ReadByte(f[i - 1].stream).got)]]
<1>1. first \in S
  BY DEF States
<1>2. ASSUME NEW t \in S, NEW i \in 1..n
               PROVE [stream |-> ReadByte(t.stream), elements |-> Append(t.elements,
                 ReadByte(t.stream).got)] \in S
  <2> DEFINE r == ReadByte(t.stream)
  <2>1. t.stream \in Streams(G) /\ t.elements \in Seq(G)
    BY DEF States
  <2>2. Stream(t.stream) /\ t.stream.got \in G
    BY <2>1, StreamIn
  <2>3. Keeps(t.stream, r) /\ r.got \in G
    BY <2>2, ByteKeeps DEF Values
  <2>4. r \in Streams(G)
    BY <2>3, StreamIs DEF Keeps, Stream
  <2> HIDE DEF r
  <2>5. Append(t.elements, r.got) \in Seq(G)
    BY <2>1, <2>3
  <2>6. [stream |-> r, elements |-> Append(t.elements, r.got)] \in S
    BY <2>4, <2>5 DEF States
  <2> QED BY <2>6 DEF r
<1>3. step \in [S \X (1..n) -> S]
  <2> HIDE DEF S
  <2> QED BY <1>2
<1>4. PICK f : Computes(f, n, S, first, step)
  <2> HIDE DEF S, first, step
  <2> QED BY <1>1, <1>3, RunExists
<1>5. /\ f = [i \in {k \in Nat : k <= n} |-> f[i]]
      /\ f[0] = first
      /\ \A i \in 1..n : f[i - 1] \in S /\ f[i] = step[<<f[i - 1], i>>]
  <2> HIDE DEF S, first, step
  <2> QED BY <1>4 DEF Computes
<1>6. f = [i \in {k \in Nat : k <= n} |-> IF i = 0 THEN first
        ELSE [stream |-> ReadByte(f[i - 1].stream), elements |-> Append(f[i - 1].elements,
          ReadByte(f[i - 1].stream).got)]]
  <2>1. ASSUME NEW i \in {k \in Nat : k <= n}, i # 0
                 PROVE f[i] = [stream |-> ReadByte(f[i - 1].stream),
                   elements |-> Append(f[i - 1].elements, ReadByte(f[i - 1].stream).got)]
    <3>1. i \in 1..n
      BY <2>1
    <3>2. f[i - 1] \in S /\ f[i] = step[<<f[i - 1], i>>]
      BY <1>5, <3>1
    <3> HIDE DEF S
    <3> QED BY <3>1, <3>2
  <2> HIDE DEF first, step, S
  <2> QED BY <1>5, <2>1
<1>7. F = [i \in {k \in Nat : k <= n} |-> IF i = 0 THEN first
        ELSE [stream |-> ReadByte(F[i - 1].stream), elements |-> Append(F[i - 1].elements,
          ReadByte(F[i - 1].stream).got)]]
  <2> HIDE DEF first, step, S
  <2> QED BY <1>6
<1>8. ReadElements(s, n, ReadByte) = [F[n].stream EXCEPT !.got = F[n].elements]
  BY Zenon DEF ReadElements, Run
<1> HIDE DEF F, step, S
<1>9. F[0] = first /\ \A i \in 1..n : F[i] = [stream |-> ReadByte(F[i - 1].stream),
        elements |-> Append(F[i - 1].elements, ReadByte(F[i - 1].stream).got)]
  <2> HIDE DEF first
  <2>1. F[0] = first
    BY <1>7
  <2>2. ASSUME NEW i \in 1..n
                 PROVE F[i] = [stream |-> ReadByte(F[i - 1].stream),
                   elements |-> Append(F[i - 1].elements, ReadByte(F[i - 1].stream).got)]
    <3>1. i \in {k \in Nat : k <= n} /\ i # 0
      OBVIOUS
    <3> QED BY <1>7, <3>1
  <2> QED BY <2>1, <2>2
<1> QED BY <1>8, <1>9 DEF ByteRun

\* Bytes are read one after the other.
LEMMA ByteElements ==
  ASSUME Masked, NEW G, Values \subseteq G, NEW s \in Streams(G), NEW n \in Nat
  PROVE  \E F : /\ Elementwise(F, n, s, ReadElements(s, n, ReadByte))
                /\ \A i \in 1..n : F[i].stream = ReadByte(F[i - 1].stream)
                /\ \A i \in 1..n : F[i - 1].stream \in Streams(G)
                                     => Keeps(F[i - 1].stream, F[i].stream) /\ F[i].stream \in Streams(G)
<1> DEFINE u == ReadElements(s, n, ReadByte)
<1>0. PICK F : ByteRun(F, n, s)
  BY ByteSteps
<1>1. /\ u = [F[n].stream EXCEPT !.got = F[n].elements]
               /\ F[0] = [stream |-> s, elements |-> << >>]
               /\ \A i \in 1..n : F[i] = [stream |-> ReadByte(F[i - 1].stream),
                    elements |-> Append(F[i - 1].elements, ReadByte(F[i - 1].stream).got)]
  BY <1>0 DEF ByteRun
<1> HIDE DEF u
<1>2. ASSUME NEW i \in 1..n
               PROVE F[i].stream = ReadByte(F[i - 1].stream)
                 /\ F[i].elements = Append(F[i - 1].elements, F[i].stream.got)
  <2> DEFINE r == ReadByte(F[i - 1].stream)
  <2>1. F[i] = [stream |-> r, elements |-> Append(F[i - 1].elements, r.got)]
    BY <1>1
  <2> HIDE DEF r
  <2>2. F[i].stream = r /\ F[i].elements = Append(F[i - 1].elements, r.got)
    BY <2>1
  <2> QED BY <2>2 DEF r
<1>3. \A i \in 1..n : F[i] = [stream |-> F[i].stream, elements |-> Append(F[i - 1].elements, F[i].stream.got)]
  <2>1. ASSUME NEW i \in 1..n
                 PROVE F[i] = [stream |-> F[i].stream, elements |-> Append(F[i - 1].elements,
                   F[i].stream.got)]
    <3> DEFINE r == ReadByte(F[i - 1].stream)
    <3>1. F[i] = [stream |-> r, elements |-> Append(F[i - 1].elements, r.got)]
      BY <1>1
    <3> HIDE DEF r
    <3> QED BY <1>2, <3>1 DEF r
  <2> QED BY <2>1
<1>4. Elementwise(F, n, s, u)
  BY <1>1, <1>3 DEF Elementwise
<1>5. ASSUME NEW i \in 1..n, F[i - 1].stream \in Streams(G)
      PROVE  Keeps(F[i - 1].stream, F[i].stream) /\ F[i].stream \in Streams(G)
  <2> DEFINE t == F[i - 1].stream
             r == F[i].stream
  <2>1. t \in Streams(G) /\ r = ReadByte(t)
    BY <1>2, <1>5
  <2> HIDE DEF t, r
  <2>2. Stream(t) /\ t.got \in G
    BY <2>1, StreamIn
  <2>3. Keeps(t, r) /\ r.got \in G
    BY <2>1, <2>2, ByteKeeps DEF Values
  <2>4. r \in Streams(G)
    BY <2>3, StreamIs DEF Keeps, Stream
  <2> QED BY <2>3, <2>4 DEF t, r
<1>6. \A i \in 1..n : F[i].stream = ReadByte(F[i - 1].stream)
  BY <1>2
<1> QED BY <1>4, <1>5, <1>6 DEF u

\* The states of checking n zeroes.
ZeroRun(F, n, s) ==
                /\ ReadElements(s, n, ReadZero) = [F[n].stream EXCEPT !.got = F[n].elements]
                /\ F[0] = [stream |-> s, elements |-> << >>]
                /\ \A i \in 1..n : F[i] = [stream |-> ReadZero(F[i - 1].stream),
                     elements |-> Append(F[i - 1].elements, ReadZero(F[i - 1].stream).got)]

\* The states ReadElements goes through when it checks zeroes.
LEMMA ZeroSteps ==
  ASSUME Masked, NEW G, Values \subseteq G, NEW s \in Streams(G), NEW n \in Nat
  PROVE  \E F : ZeroRun(F, n, s)
<1> DEFINE S == States(G)
           first == [stream |-> s, elements |-> << >>]
           step == [z \in S \X (1..n) |-> [stream |-> ReadZero(z[1].stream),
             elements |-> Append(z[1].elements, ReadZero(z[1].stream).got)]]
           F == CHOOSE f : f = [i \in {k \in Nat : k <= n} |->
                                   IF i = 0 THEN first ELSE [stream |-> ReadZero(f[i - 1].stream),
                                     elements |-> Append(f[i - 1].elements, ReadZero(f[i - 1].stream).got)]]
<1>1. first \in S
  BY DEF States
<1>2. ASSUME NEW t \in S, NEW i \in 1..n
               PROVE [stream |-> ReadZero(t.stream), elements |-> Append(t.elements,
                 ReadZero(t.stream).got)] \in S
  <2> DEFINE r == ReadZero(t.stream)
  <2>1. t.stream \in Streams(G) /\ t.elements \in Seq(G)
    BY DEF States
  <2>2. Stream(t.stream) /\ t.stream.got \in G
    BY <2>1, StreamIn
  <2>3. Keeps(t.stream, r) /\ r.got \in G
    BY <2>2, ZeroKeeps DEF Values
  <2>4. r \in Streams(G)
    BY <2>3, StreamIs DEF Keeps, Stream
  <2> HIDE DEF r
  <2>5. Append(t.elements, r.got) \in Seq(G)
    BY <2>1, <2>3
  <2>6. [stream |-> r, elements |-> Append(t.elements, r.got)] \in S
    BY <2>4, <2>5 DEF States
  <2> QED BY <2>6 DEF r
<1>3. step \in [S \X (1..n) -> S]
  <2> HIDE DEF S
  <2> QED BY <1>2
<1>4. PICK f : Computes(f, n, S, first, step)
  <2> HIDE DEF S, first, step
  <2> QED BY <1>1, <1>3, RunExists
<1>5. /\ f = [i \in {k \in Nat : k <= n} |-> f[i]]
      /\ f[0] = first
      /\ \A i \in 1..n : f[i - 1] \in S /\ f[i] = step[<<f[i - 1], i>>]
  <2> HIDE DEF S, first, step
  <2> QED BY <1>4 DEF Computes
<1>6. f = [i \in {k \in Nat : k <= n} |-> IF i = 0 THEN first
        ELSE [stream |-> ReadZero(f[i - 1].stream), elements |-> Append(f[i - 1].elements,
          ReadZero(f[i - 1].stream).got)]]
  <2>1. ASSUME NEW i \in {k \in Nat : k <= n}, i # 0
                 PROVE f[i] = [stream |-> ReadZero(f[i - 1].stream),
                   elements |-> Append(f[i - 1].elements, ReadZero(f[i - 1].stream).got)]
    <3>1. i \in 1..n
      BY <2>1
    <3>2. f[i - 1] \in S /\ f[i] = step[<<f[i - 1], i>>]
      BY <1>5, <3>1
    <3> HIDE DEF S
    <3> QED BY <3>1, <3>2
  <2> HIDE DEF first, step, S
  <2> QED BY <1>5, <2>1
<1>7. F = [i \in {k \in Nat : k <= n} |-> IF i = 0 THEN first
        ELSE [stream |-> ReadZero(F[i - 1].stream), elements |-> Append(F[i - 1].elements,
          ReadZero(F[i - 1].stream).got)]]
  <2> HIDE DEF first, step, S
  <2> QED BY <1>6
<1>8. ReadElements(s, n, ReadZero) = [F[n].stream EXCEPT !.got = F[n].elements]
  BY Zenon DEF ReadElements, Run
<1> HIDE DEF F, step, S
<1>9. F[0] = first /\ \A i \in 1..n : F[i] = [stream |-> ReadZero(F[i - 1].stream),
        elements |-> Append(F[i - 1].elements, ReadZero(F[i - 1].stream).got)]
  <2> HIDE DEF first
  <2>1. F[0] = first
    BY <1>7
  <2>2. ASSUME NEW i \in 1..n
                 PROVE F[i] = [stream |-> ReadZero(F[i - 1].stream),
                   elements |-> Append(F[i - 1].elements, ReadZero(F[i - 1].stream).got)]
    <3>1. i \in {k \in Nat : k <= n} /\ i # 0
      OBVIOUS
    <3> QED BY <1>7, <3>1
  <2> QED BY <2>1, <2>2
<1> QED BY <1>8, <1>9 DEF ZeroRun

\* Zeroes are checked one after the other.
LEMMA ZeroElements ==
  ASSUME Masked, NEW G, Values \subseteq G, NEW s \in Streams(G), NEW n \in Nat
  PROVE  \E F : /\ Elementwise(F, n, s, ReadElements(s, n, ReadZero))
                /\ \A i \in 1..n : F[i].stream = ReadZero(F[i - 1].stream)
                /\ \A i \in 1..n : F[i - 1].stream \in Streams(G)
                                     => Keeps(F[i - 1].stream, F[i].stream) /\ F[i].stream \in Streams(G)
<1> DEFINE u == ReadElements(s, n, ReadZero)
<1>0. PICK F : ZeroRun(F, n, s)
  BY ZeroSteps
<1>1. /\ u = [F[n].stream EXCEPT !.got = F[n].elements]
               /\ F[0] = [stream |-> s, elements |-> << >>]
               /\ \A i \in 1..n : F[i] = [stream |-> ReadZero(F[i - 1].stream),
                    elements |-> Append(F[i - 1].elements, ReadZero(F[i - 1].stream).got)]
  BY <1>0 DEF ZeroRun
<1> HIDE DEF u
<1>2. ASSUME NEW i \in 1..n
               PROVE F[i].stream = ReadZero(F[i - 1].stream)
                 /\ F[i].elements = Append(F[i - 1].elements, F[i].stream.got)
  <2> DEFINE r == ReadZero(F[i - 1].stream)
  <2>1. F[i] = [stream |-> r, elements |-> Append(F[i - 1].elements, r.got)]
    BY <1>1
  <2> HIDE DEF r
  <2>2. F[i].stream = r /\ F[i].elements = Append(F[i - 1].elements, r.got)
    BY <2>1
  <2> QED BY <2>2 DEF r
<1>3. \A i \in 1..n : F[i] = [stream |-> F[i].stream, elements |-> Append(F[i - 1].elements, F[i].stream.got)]
  <2>1. ASSUME NEW i \in 1..n
                 PROVE F[i] = [stream |-> F[i].stream, elements |-> Append(F[i - 1].elements,
                   F[i].stream.got)]
    <3> DEFINE r == ReadZero(F[i - 1].stream)
    <3>1. F[i] = [stream |-> r, elements |-> Append(F[i - 1].elements, r.got)]
      BY <1>1
    <3> HIDE DEF r
    <3> QED BY <1>2, <3>1 DEF r
  <2> QED BY <2>1
<1>4. Elementwise(F, n, s, u)
  BY <1>1, <1>3 DEF Elementwise
<1>5. ASSUME NEW i \in 1..n, F[i - 1].stream \in Streams(G)
      PROVE  Keeps(F[i - 1].stream, F[i].stream) /\ F[i].stream \in Streams(G)
  <2> DEFINE t == F[i - 1].stream
             r == F[i].stream
  <2>1. t \in Streams(G) /\ r = ReadZero(t)
    BY <1>2, <1>5
  <2> HIDE DEF t, r
  <2>2. Stream(t) /\ t.got \in G
    BY <2>1, StreamIn
  <2>3. Keeps(t, r) /\ r.got \in G
    BY <2>1, <2>2, ZeroKeeps DEF Values
  <2>4. r \in Streams(G)
    BY <2>3, StreamIs DEF Keeps, Stream
  <2> QED BY <2>3, <2>4 DEF t, r
<1>6. \A i \in 1..n : F[i].stream = ReadZero(F[i - 1].stream)
  BY <1>2
<1> QED BY <1>4, <1>5, <1>6 DEF u

\* The codes together are not shorter than each, nor, if none is empty, than their number.
LEMMA ConcatLength ==
  ASSUME NEW V, NEW n \in Nat, NEW codes \in [1..n -> Seq(V)]
  PROVE  /\ \A i \in 1..n : Len(codes[i]) <= Len(Concat(codes))
         /\ (\A i \in 1..n : Len(codes[i]) > 0) => n <= Len(Concat(codes))
<1>1. PICK f \in [0..n -> Seq(V)] : Concats(f, codes, n)
  BY ConcatSteps
<1>2. f[0] = << >> /\ Concat(codes) = f[n] /\ \A i \in 1..n : f[i] = Join(f[i - 1], codes[i])
  BY <1>1 DEF Concats
<1>3. ASSUME NEW i \in 1..n
      PROVE  /\ Len(f[i]) = Len(f[i - 1]) + Len(codes[i])
             /\ Len(f[i]) \in Nat /\ Len(f[i - 1]) \in Nat /\ Len(codes[i]) \in Nat
  <2> DEFINE a == f[i - 1]
             c == codes[i]
  <2>0. i \in 0..n /\ i - 1 \in 0..n
    OBVIOUS
  <2>1. a \in Seq(V) /\ c \in Seq(V) /\ f[i] = Join(a, c) /\ f[i] \in Seq(V)
    BY <1>2, <2>0
  <2> HIDE DEF a, c
  <2>2. Len(Join(a, c)) = Len(a) + Len(c)
    BY <2>1, JoinType
  <2>3. Len(f[i]) = Len(a) + Len(c) /\ Len(f[i]) \in Nat /\ Len(a) \in Nat /\ Len(c) \in Nat
    BY <2>1, <2>2
  <2> QED BY <2>3 DEF a, c
<1>4. Len(f[0]) = 0
  BY <1>2
<1>5. ASSUME NEW j \in 1..n PROVE Len(codes[j]) <= Len(f[n])
  <2> DEFINE T == {i \in 0..n : i >= j => Len(codes[j]) <= Len(f[i])}
  <2>1. 0 \in T
    OBVIOUS
  <2>2. ASSUME NEW i \in 1..n, i - 1 \in T PROVE i \in T
    <3>1. CASE i < j
      BY <3>1
    <3>2. CASE i = j
      BY <1>3, <3>2
    <3>3. CASE i > j
      BY <1>3, <2>2, <3>3
    <3> QED BY <3>1, <3>2, <3>3
  <2>3. n \in T
    <3> HIDE DEF T
    <3>1. \A i \in 0..n : i \in T
      BY <2>1, <2>2, StepInduction
    <3> QED BY <3>1
  <2> QED BY <2>3
<1>6. ASSUME \A i \in 1..n : Len(codes[i]) > 0 PROVE n <= Len(f[n])
  <2> DEFINE T == {i \in 0..n : i <= Len(f[i])}
  <2>1. 0 \in T
    BY <1>4
  <2>2. ASSUME NEW i \in 1..n, i - 1 \in T PROVE i \in T
    BY <1>3, <1>6, <2>2
  <2>3. n \in T
    <3> HIDE DEF T
    <3>1. \A i \in 0..n : i \in T
      BY <2>1, <2>2, StepInduction
    <3> QED BY <3>1
  <2> QED BY <2>3
<1> QED BY <1>2, <1>5, <1>6

\* After a size that was accepted the read position is within the buffer.
LEMMA SizeLeft ==
  ASSUME Masked, NEW s, Stream(s), ReadSize(s).ok
  PROVE  ReadSize(s).buf.m_posRead <= ReadSize(s).buf.m_size
<1> DEFINE w == s.containerSizeBytes
           t == ReadScalar(s, w)
           r == ReadSize(s)
<1>0. w \in {1, 2, 4}
  BY StreamFields DEF Stream
<1>1. Stream(t) /\ (t.ok => t.got \in Nat)
  BY <1>0, ScalarKeeps DEF Keeps
<1>2. ~Throw(t).ok /\ t.buf.m_size \in Nat /\ t.buf.m_posRead \in Nat
  BY <1>1, KeepsItself, StreamFields DEF Stream
<1>3. r = IF t.ok /\ t.got > RemainRead(t.buf) THEN Throw(t) ELSE t
  BY DEF ReadSize
<1>4. r.ok
  OBVIOUS
<1> HIDE DEF t, r
<1>5. r.buf.m_posRead <= r.buf.m_size
  BY <1>1, <1>2, <1>3, <1>4 DEF RemainRead
<1> QED BY <1>5 DEF r

\* Whatever the bytes are, reading a vector keeps the buffer.
LEMMA VectorKeeps ==
  ASSUME Masked, NEW s, Stream(s)
  PROVE  Keeps(s, ReadVector(s))
<1> DEFINE r == ReadSize(s)
<1>1. Keeps(s, r) /\ (r.ok => r.got \in Nat)
  BY SizeKeeps
<1>2. Stream(r)
  BY <1>1 DEF Keeps
<1>3. ReadVector(s) = IF r.ok THEN ReadElements(r, r.got, ReadString) ELSE r
  BY DEF ReadVector
<1> HIDE DEF r
<1>4. CASE r.ok
  <2> DEFINE G == {r.got} \cup Values
             n == r.got
             u == ReadElements(r, n, ReadString)
  <2>1. Values \subseteq G /\ n \in Nat /\ r \in Streams(G)
    BY <1>1, <1>2, <1>4, StreamIs DEF Stream
  <2> HIDE DEF G, n
  <2>2. PICK F : /\ Elementwise(F, n, r, u)
                 /\ \A i \in 1..n : F[i - 1].stream \in Streams(G)
                                     => Keeps(F[i - 1].stream, F[i].stream) /\ F[i].stream \in Streams(G)
    BY <2>1, StringElements
  <2> HIDE DEF u
  <2>3. Keeps(r, u)
    BY <2>1, <2>2, ElementsKeep
  <2>4. Keeps(s, u)
    BY <1>1, <2>3, KeepsThen
  <2> QED BY <1>3, <1>4, <2>4 DEF u, n
<1>5. CASE ~r.ok
  BY <1>1, <1>3, <1>5
<1>6. r.ok \in BOOLEAN
  BY <1>2, StreamFields DEF Stream
<1> QED BY <1>4, <1>5, <1>6

\* A vector of strings that comes next is read.
LEMMA VectorFinds ==
  ASSUME Masked, NEW s, Stream(s), NEW strings \in Seq(Seq(Byte)),
         VectorFits(strings, s.containerSizeBytes)
  PROVE  Finds(s, ReadVector(s),
               Join(Number(Len(strings), s.containerSizeBytes), Concat(Elements(strings,
                 s.containerSizeBytes))),
               strings)
<1> DEFINE w == s.containerSizeBytes
           n == Len(strings)
           V == Seq(Byte)
           codes == Elements(strings, w)
           body == Concat(codes)
           r == ReadSize(s)
           u == ReadVector(s)
<1>0. w \in {1, 2, 4} /\ n \in Nat
  BY StreamFields DEF Stream
<1>1. n < Power(Base, w) /\ \A i \in 1..n : Len(strings[i]) < Power(Base, w) /\ strings[i] \in Seq(Byte)
  BY DEF VectorFits
<1>2. codes \in [1..n -> Seq(Byte)] /\ \A i \in 1..n : codes[i] = Counted(strings[i], w) /\ Len(codes[i]) > 0
  <2>1. \A i \in 1..n : Counted(strings[i], w) \in Seq(Byte)
          /\ Len(Counted(strings[i], w)) = w + Len(strings[i])
    BY <1>0, <1>1, CountedType
  <2>2. DOMAIN strings = 1..n
    OBVIOUS
  <2>3. \A i \in 1..n : Len(Counted(strings[i], w)) > 0
    BY <1>0, <1>1, <2>1
  <2> QED BY <2>1, <2>2, <2>3 DEF Elements
<1>3. body \in Seq(Byte) /\ n <= Len(body)
  <2> HIDE DEF n, codes
  <2> QED BY <1>0, <1>2, ConcatType, ConcatLength
<1>4. Keeps(s, r) /\ Stream(r)
  BY SizeKeeps DEF Keeps
<1>5. Keeps(r, u)
  <2>1. CASE ~r.ok
    <3>1. u = r
      BY <2>1 DEF ReadVector
    <3> HIDE DEF r, u
    <3> QED BY <1>4, <3>1, KeepsItself
  <2>2. CASE r.ok
    <3>1. u = ReadElements(r, r.got, ReadString) /\ r.got \in Nat
      BY <2>2, SizeKeeps DEF ReadVector
    <3> HIDE DEF r, u
    <3> DEFINE G == {r.got} \cup Values
               m == r.got
    <3>2. Values \subseteq G /\ m \in Nat /\ r \in Streams(G)
      BY <1>4, <3>1, StreamIs DEF Stream
    <3> HIDE DEF G, m
    <3>3. PICK F : /\ Elementwise(F, m, r, ReadElements(r, m, ReadString))
                   /\ \A i \in 1..m : F[i - 1].stream \in Streams(G)
                                       => Keeps(F[i - 1].stream, F[i].stream) /\ F[i].stream \in Streams(G)
      BY <3>2, StringElements
    <3>4. Keeps(r, ReadElements(r, m, ReadString))
      BY <3>2, <3>3, ElementsKeep
    <3> QED BY <3>1, <3>4 DEF m
  <2>3. r.ok \in BOOLEAN
    BY <1>4, StreamFields DEF Stream
  <2> QED BY <2>1, <2>2, <2>3
<1>6. ASSUME r.ok, r.got = n PROVE Finds(r, u, body, strings)
  <2> DEFINE G == {r.got} \cup Values
  <2>1. u = ReadElements(r, n, ReadString)
    BY <1>6 DEF ReadVector
  <2>2. Values \subseteq G /\ r \in Streams(G)
    BY <1>4, StreamIs DEF Stream
  <2>3. r.containerSizeBytes = w /\ r.buf.m_posRead <= r.buf.m_size
    <3>1. r.buf.m_posRead <= r.buf.m_size
      BY <1>6, SizeLeft
    <3> HIDE DEF r, w
    <3> QED BY <1>4, <3>1 DEF Keeps, w
  <2> HIDE DEF r, u, G, n, codes, w
  <2>4. PICK F : /\ Elementwise(F, n, r, u)
                 /\ \A i \in 1..n : F[i].stream = ReadString(F[i - 1].stream)
                 /\ \A i \in 1..n : F[i - 1].stream \in Streams(G)
                                     => Keeps(F[i - 1].stream, F[i].stream) /\ F[i].stream \in Streams(G)
    BY <1>0, <2>1, <2>2, StringElements
  <2>5. ASSUME NEW i \in 1..n, Stream(F[i - 1].stream),
                 F[i - 1].stream.containerSizeBytes = r.containerSizeBytes
        PROVE  Finds(F[i - 1].stream, F[i].stream, codes[i], strings[i])
    <3> DEFINE q == F[i - 1].stream
               str == strings[i]
    <3>1. Stream(q) /\ q.containerSizeBytes = w /\ str \in Seq(Byte) /\ Len(str) < Power(Base, w)
      BY <1>1, <2>3, <2>5
    <3> HIDE DEF q, str
    <3>2. Finds(q, ReadString(q), Counted(str, w), str)
      BY <3>1, StringFinds
    <3> QED BY <1>2, <2>4, <3>2 DEF q, str
  <2>6. strings \in Seq(V) /\ Len(strings) = n
    BY DEF n
  <2> HIDE DEF V
  <2>7. Finds(r, u, Concat(codes), strings)
    BY <1>0, <1>2, <2>2, <2>3, <2>4, <2>5, <2>6, ElementsFind
  <2> QED BY <2>7
<1> HIDE DEF r, u, n, codes, w, body
<1>7. Finds(s, u, Join(Number(n, w), body), strings)
  BY <1>0, <1>1, <1>3, <1>5, <1>6, SizedFinds DEF r, w
<1> QED BY <1>7 DEF u, n, w, body, codes

\* A number of a deque.
ReadNumber(t) == ReadScalar(t, 2)

\* Whatever the bytes are, reading a number of a deque keeps the buffer.
LEMMA NumberKeeps ==
  ASSUME Masked, NEW s, Stream(s)
  PROVE  Keeps(s, ReadNumber(s)) /\ ReadNumber(s).got \in {s.got} \cup Nat
<1> DEFINE r == ReadScalar(s, 2)
<1>1. 2 \in {1, 2, 4}
  OBVIOUS
<1>2. Keeps(s, r) /\ (~r.ok => r.got = s.got) /\ (r.ok => r.got \in Nat)
  BY <1>1, ScalarKeeps
<1> HIDE DEF r
<1>3. r.ok \in BOOLEAN
  <2>1. r \in Streams({r.got})
    BY <1>2 DEF Keeps, Stream
  <2> QED BY <2>1, StreamFields
<1> QED BY <1>2, <1>3 DEF ReadNumber, r

\* The states of reading n numbers.
NumberRun(F, n, s) ==
                /\ ReadElements(s, n, ReadNumber) = [F[n].stream EXCEPT !.got = F[n].elements]
                /\ F[0] = [stream |-> s, elements |-> << >>]
                /\ \A i \in 1..n : F[i] = [stream |-> ReadNumber(F[i - 1].stream),
                     elements |-> Append(F[i - 1].elements, ReadNumber(F[i - 1].stream).got)]

\* The states ReadElements goes through when it reads numbers.
LEMMA NumberSteps ==
  ASSUME Masked, NEW G, Values \subseteq G, NEW s \in Streams(G), NEW n \in Nat
  PROVE  \E F : NumberRun(F, n, s)
<1> DEFINE S == States(G)
           first == [stream |-> s, elements |-> << >>]
           step == [z \in S \X (1..n) |-> [stream |-> ReadNumber(z[1].stream),
             elements |-> Append(z[1].elements, ReadNumber(z[1].stream).got)]]
           F == CHOOSE f : f = [i \in {k \in Nat : k <= n} |->
                                   IF i = 0 THEN first
                                    ELSE [stream |-> ReadNumber(f[i - 1].stream),
                                          elements |-> Append(f[i - 1].elements, ReadNumber(f[i - 1].stream).got)]]
<1>1. first \in S
  BY DEF States
<1>2. ASSUME NEW t \in S, NEW i \in 1..n
               PROVE [stream |-> ReadNumber(t.stream), elements |-> Append(t.elements,
                 ReadNumber(t.stream).got)] \in S
  <2> DEFINE r == ReadNumber(t.stream)
  <2>1. t.stream \in Streams(G) /\ t.elements \in Seq(G)
    BY DEF States
  <2>2. Stream(t.stream) /\ t.stream.got \in G
    BY <2>1, StreamIn
  <2>3. Keeps(t.stream, r) /\ r.got \in G
    BY <2>2, NumberKeeps DEF Values
  <2>4. r \in Streams(G)
    BY <2>3, StreamIs DEF Keeps, Stream
  <2> HIDE DEF r
  <2>5. Append(t.elements, r.got) \in Seq(G)
    BY <2>1, <2>3
  <2>6. [stream |-> r, elements |-> Append(t.elements, r.got)] \in S
    BY <2>4, <2>5 DEF States
  <2> QED BY <2>6 DEF r
<1>3. step \in [S \X (1..n) -> S]
  <2> HIDE DEF S
  <2> QED BY <1>2
<1>4. PICK f : Computes(f, n, S, first, step)
  <2> HIDE DEF S, first, step
  <2> QED BY <1>1, <1>3, RunExists
<1>5. /\ f = [i \in {k \in Nat : k <= n} |-> f[i]]
      /\ f[0] = first
      /\ \A i \in 1..n : f[i - 1] \in S /\ f[i] = step[<<f[i - 1], i>>]
  <2> HIDE DEF S, first, step
  <2> QED BY <1>4 DEF Computes
<1>6. f = [i \in {k \in Nat : k <= n} |-> IF i = 0 THEN first
        ELSE [stream |-> ReadNumber(f[i - 1].stream), elements |-> Append(f[i - 1].elements,
          ReadNumber(f[i - 1].stream).got)]]
  <2>1. ASSUME NEW i \in {k \in Nat : k <= n}, i # 0
                 PROVE f[i] = [stream |-> ReadNumber(f[i - 1].stream),
                   elements |-> Append(f[i - 1].elements, ReadNumber(f[i - 1].stream).got)]
    <3>1. i \in 1..n
      BY <2>1
    <3>2. f[i - 1] \in S /\ f[i] = step[<<f[i - 1], i>>]
      BY <1>5, <3>1
    <3> HIDE DEF S
    <3> QED BY <3>1, <3>2
  <2> HIDE DEF first, step, S
  <2> QED BY <1>5, <2>1
<1>7. F = [i \in {k \in Nat : k <= n} |-> IF i = 0 THEN first
        ELSE [stream |-> ReadNumber(F[i - 1].stream), elements |-> Append(F[i - 1].elements,
          ReadNumber(F[i - 1].stream).got)]]
  <2> HIDE DEF first, step, S
  <2> QED BY <1>6
<1>8. ReadElements(s, n, ReadNumber) = [F[n].stream EXCEPT !.got = F[n].elements]
  BY Zenon DEF ReadElements, Run, ReadNumber
<1> HIDE DEF F, step, S
<1>9. F[0] = first /\ \A i \in 1..n : F[i] = [stream |-> ReadNumber(F[i - 1].stream),
        elements |-> Append(F[i - 1].elements, ReadNumber(F[i - 1].stream).got)]
  <2> HIDE DEF first
  <2>1. F[0] = first
    BY <1>7
  <2>2. ASSUME NEW i \in 1..n
                 PROVE F[i] = [stream |-> ReadNumber(F[i - 1].stream),
                   elements |-> Append(F[i - 1].elements, ReadNumber(F[i - 1].stream).got)]
    <3>1. i \in {k \in Nat : k <= n} /\ i # 0
      OBVIOUS
    <3> QED BY <1>7, <3>1
  <2> QED BY <2>1, <2>2
<1> QED BY <1>8, <1>9 DEF NumberRun

\* Numbers are read one after the other.
LEMMA NumberElements ==
  ASSUME Masked, NEW G, Values \subseteq G, NEW s \in Streams(G), NEW n \in Nat
  PROVE  \E F : /\ Elementwise(F, n, s, ReadElements(s, n, ReadNumber))
                /\ \A i \in 1..n : F[i].stream = ReadNumber(F[i - 1].stream)
                /\ \A i \in 1..n : F[i - 1].stream \in Streams(G)
                                     => Keeps(F[i - 1].stream, F[i].stream) /\ F[i].stream \in Streams(G)
<1> DEFINE u == ReadElements(s, n, ReadNumber)
<1>0. PICK F : NumberRun(F, n, s)
  BY NumberSteps
<1>1. /\ u = [F[n].stream EXCEPT !.got = F[n].elements]
               /\ F[0] = [stream |-> s, elements |-> << >>]
               /\ \A i \in 1..n : F[i] = [stream |-> ReadNumber(F[i - 1].stream),
                    elements |-> Append(F[i - 1].elements, ReadNumber(F[i - 1].stream).got)]
  BY <1>0 DEF NumberRun
<1> HIDE DEF u
<1>2. ASSUME NEW i \in 1..n
               PROVE F[i].stream = ReadNumber(F[i - 1].stream)
                 /\ F[i].elements = Append(F[i - 1].elements, F[i].stream.got)
  <2> DEFINE r == ReadNumber(F[i - 1].stream)
  <2>1. F[i] = [stream |-> r, elements |-> Append(F[i - 1].elements, r.got)]
    BY <1>1
  <2> HIDE DEF r
  <2>2. F[i].stream = r /\ F[i].elements = Append(F[i - 1].elements, r.got)
    BY <2>1
  <2> QED BY <2>2 DEF r
<1>3. \A i \in 1..n : F[i] = [stream |-> F[i].stream, elements |-> Append(F[i - 1].elements, F[i].stream.got)]
  <2>1. ASSUME NEW i \in 1..n
                 PROVE F[i] = [stream |-> F[i].stream, elements |-> Append(F[i - 1].elements,
                   F[i].stream.got)]
    <3> DEFINE r == ReadNumber(F[i - 1].stream)
    <3>1. F[i] = [stream |-> r, elements |-> Append(F[i - 1].elements, r.got)]
      BY <1>1
    <3> HIDE DEF r
    <3> QED BY <1>2, <3>1 DEF r
  <2> QED BY <2>1
<1>4. Elementwise(F, n, s, u)
  BY <1>1, <1>3 DEF Elementwise
<1>5. ASSUME NEW i \in 1..n, F[i - 1].stream \in Streams(G)
      PROVE  Keeps(F[i - 1].stream, F[i].stream) /\ F[i].stream \in Streams(G)
  <2> DEFINE t == F[i - 1].stream
             r == F[i].stream
  <2>1. t \in Streams(G) /\ r = ReadNumber(t)
    BY <1>2, <1>5
  <2> HIDE DEF t, r
  <2>2. Stream(t) /\ t.got \in G
    BY <2>1, StreamIn
  <2>3. Keeps(t, r) /\ r.got \in G
    BY <2>1, <2>2, NumberKeeps DEF Values
  <2>4. r \in Streams(G)
    BY <2>3, StreamIs DEF Keeps, Stream
  <2> QED BY <2>3, <2>4 DEF t, r
<1>6. \A i \in 1..n : F[i].stream = ReadNumber(F[i - 1].stream)
  BY <1>2
<1> QED BY <1>4, <1>5, <1>6 DEF u

\* ReadDeque with its reads named.
LEMMA DequeIs ==
  ASSUME NEW s
  PROVE  ReadDeque(s) = IF ReadSize(s).ok THEN ReadElements(ReadSize(s), ReadSize(s).got,
           ReadNumber) ELSE ReadSize(s)
BY DEF ReadDeque, ReadNumber

\* Whatever the bytes are, reading a deque keeps the buffer.
LEMMA DequeKeeps ==
  ASSUME Masked, NEW s, Stream(s)
  PROVE  Keeps(s, ReadDeque(s))
<1> DEFINE r == ReadSize(s)
<1>1. Keeps(s, r) /\ (r.ok => r.got \in Nat)
  BY SizeKeeps
<1>2. Stream(r)
  BY <1>1 DEF Keeps
<1>3. ReadDeque(s) = IF r.ok THEN ReadElements(r, r.got, ReadNumber) ELSE r
  BY DequeIs
<1> HIDE DEF r
<1>4. CASE r.ok
  <2> DEFINE G == {r.got} \cup Values
             n == r.got
             u == ReadElements(r, n, ReadNumber)
  <2>1. Values \subseteq G /\ n \in Nat /\ r \in Streams(G)
    BY <1>1, <1>2, <1>4, StreamIs DEF Stream
  <2> HIDE DEF G, n
  <2>2. PICK F : /\ Elementwise(F, n, r, u)
                 /\ \A i \in 1..n : F[i - 1].stream \in Streams(G)
                                     => Keeps(F[i - 1].stream, F[i].stream) /\ F[i].stream \in Streams(G)
    BY <2>1, NumberElements
  <2> HIDE DEF u
  <2>3. Keeps(r, u)
    BY <2>1, <2>2, ElementsKeep
  <2>4. Keeps(s, u)
    BY <1>1, <2>3, KeepsThen
  <2> QED BY <1>3, <1>4, <2>4 DEF u, n
<1>5. CASE ~r.ok
  BY <1>1, <1>3, <1>5
<1>6. r.ok \in BOOLEAN
  BY <1>2, StreamFields DEF Stream
<1> QED BY <1>4, <1>5, <1>6

\* A deque of numbers that comes next is read.
LEMMA DequeFinds ==
  ASSUME Masked, NEW s, Stream(s), NEW numbers \in Seq(Nat),
         Len(numbers) < Power(Base, s.containerSizeBytes),
         \A i \in 1..Len(numbers) : numbers[i] < Power(Base, 2)
  PROVE  Finds(s, ReadDeque(s),
               Join(Number(Len(numbers), s.containerSizeBytes), Concat(Numbers(numbers))),
               numbers)
<1> DEFINE w == s.containerSizeBytes
           n == Len(numbers)
           V == Nat
           codes == Numbers(numbers)
           body == Concat(codes)
           r == ReadSize(s)
           u == ReadDeque(s)
<1>0. w \in {1, 2, 4} /\ n \in Nat
  BY StreamFields DEF Stream
<1>1. n < Power(Base, w) /\ \A i \in 1..n : numbers[i] < Power(Base, 2) /\ numbers[i] \in Nat
  OBVIOUS
<1>2. codes \in [1..n -> Seq(Byte)] /\ \A i \in 1..n : codes[i] = Number(numbers[i], 2) /\ Len(codes[i]) > 0
  <2>1. \A i \in 1..n : Number(numbers[i], 2) \in Seq(Byte) /\ Len(Number(numbers[i], 2)) = 2
    BY <1>0, <1>1, NumberType
  <2>2. DOMAIN numbers = 1..n
    OBVIOUS
  <2>3. ASSUME NEW i \in 1..n PROVE Len(Number(numbers[i], 2)) > 0
    <3> DEFINE c == Number(numbers[i], 2)
    <3> HIDE DEF n
    <3>1. Len(c) = 2
      BY <2>1
    <3> HIDE DEF c
    <3>2. Len(c) > 0
      BY <3>1
    <3> QED BY <3>2 DEF c
  <2> QED BY <2>1, <2>2, <2>3 DEF Numbers
<1>3. body \in Seq(Byte) /\ n <= Len(body)
  <2> HIDE DEF n, codes
  <2> QED BY <1>0, <1>2, ConcatType, ConcatLength
<1>4. Keeps(s, r) /\ Stream(r)
  BY SizeKeeps DEF Keeps
<1>5. Keeps(r, u)
  <2>1. CASE ~r.ok
    <3>1. u = r
      BY <2>1, DequeIs
    <3> HIDE DEF r, u
    <3> QED BY <1>4, <3>1, KeepsItself
  <2>2. CASE r.ok
    <3>1. u = ReadElements(r, r.got, ReadNumber) /\ r.got \in Nat
      BY <2>2, DequeIs, SizeKeeps
    <3> HIDE DEF r, u
    <3> DEFINE G == {r.got} \cup Values
               m == r.got
    <3>2. Values \subseteq G /\ m \in Nat /\ r \in Streams(G)
      BY <1>4, <3>1, StreamIs DEF Stream
    <3> HIDE DEF G, m
    <3>3. PICK F : /\ Elementwise(F, m, r, ReadElements(r, m, ReadNumber))
                   /\ \A i \in 1..m : F[i - 1].stream \in Streams(G)
                                       => Keeps(F[i - 1].stream, F[i].stream) /\ F[i].stream \in Streams(G)
      BY <3>2, NumberElements
    <3>4. Keeps(r, ReadElements(r, m, ReadNumber))
      BY <3>2, <3>3, ElementsKeep
    <3> QED BY <3>1, <3>4 DEF m
  <2>3. r.ok \in BOOLEAN
    BY <1>4, StreamFields DEF Stream
  <2> QED BY <2>1, <2>2, <2>3
<1>6. ASSUME r.ok, r.got = n PROVE Finds(r, u, body, numbers)
  <2> DEFINE G == {r.got} \cup Values
  <2>1. u = ReadElements(r, n, ReadNumber)
    BY <1>6, DequeIs
  <2>2. Values \subseteq G /\ r \in Streams(G)
    BY <1>4, StreamIs DEF Stream
  <2>3. r.containerSizeBytes = w /\ r.buf.m_posRead <= r.buf.m_size
    <3>1. r.buf.m_posRead <= r.buf.m_size
      BY <1>6, SizeLeft
    <3> HIDE DEF r, w
    <3> QED BY <1>4, <3>1 DEF Keeps, w
  <2> HIDE DEF r, u, G, n, codes, w
  <2>4. PICK F : /\ Elementwise(F, n, r, u)
                 /\ \A i \in 1..n : F[i].stream = ReadNumber(F[i - 1].stream)
                 /\ \A i \in 1..n : F[i - 1].stream \in Streams(G)
                                     => Keeps(F[i - 1].stream, F[i].stream) /\ F[i].stream \in Streams(G)
    BY <1>0, <2>1, <2>2, NumberElements
  <2>5. ASSUME NEW i \in 1..n, Stream(F[i - 1].stream),
                 F[i - 1].stream.containerSizeBytes = r.containerSizeBytes
        PROVE  Finds(F[i - 1].stream, F[i].stream, codes[i], numbers[i])
    <3> DEFINE q == F[i - 1].stream
               value == numbers[i]
    <3>1. Stream(q) /\ q.containerSizeBytes = w /\ value \in Nat /\ value < Power(Base, 2)
      BY <1>1, <2>3, <2>5
    <3> HIDE DEF q, value
    <3>2. Finds(q, ReadNumber(q), Number(value, 2), value)
      BY <3>1, ScalarFinds DEF ReadNumber
    <3> QED BY <1>2, <2>4, <3>2 DEF q, value
  <2>6. numbers \in Seq(V) /\ Len(numbers) = n
    BY DEF n
  <2> HIDE DEF V
  <2>7. Finds(r, u, Concat(codes), numbers)
    BY <1>0, <1>2, <2>2, <2>3, <2>4, <2>5, <2>6, ElementsFind
  <2> QED BY <2>7
<1> HIDE DEF r, u, n, codes, w, body
<1>7. Finds(s, u, Join(Number(n, w), body), numbers)
  BY <1>0, <1>1, <1>3, <1>5, <1>6, SizedFinds DEF r, w
<1> QED BY <1>7 DEF u, n, w, body, codes

-----------------------------------------------------------------------------
(* Bits.                                                                   *)

\* The flags as a message reads them, and what the bytes tell of them.
BitsRead(s) == ReadBits(s, FlagCount, 1, TRUE)
FlagsOf(bytes) ==
    [i \in 1..FlagCount |-> (Digit(bytes[(FlagCount - i) \div Bits + 1], (FlagCount - i) % Bits, 2) + 1) % 2]

\* The flags that were packed come out again.
LEMMA FlagsOfPacked ==
  ASSUME NEW flags \in [1..FlagCount -> {0, 1}]
  PROVE  FlagsOf(PackedFlags(flags)) = flags
<1> DEFINE bytes == PackedFlags(flags)
           n == ByteCount(FlagCount)
<1>1. FlagCount \in Nat /\ Bits \in Nat \ {0}
  BY SizesAssumption, BitsAssumption
<1>2. bytes = [byte \in 1..n |-> FlagByte(flags, byte)]
  BY PackedFlagsType
<1>3. \A j \in 0..(FlagCount - 1) : j \div Bits + 1 \in 1..n /\ j % Bits \in 0..(Bits - 1)
                                      /\ j = (j \div Bits) * Bits + (j % Bits)
  BY <1>1, ByteCountType
<1> HIDE DEF bytes, n
<1>4. ASSUME NEW i \in 1..FlagCount
      PROVE  (Digit(bytes[(FlagCount - i) \div Bits + 1], (FlagCount - i) % Bits, 2) + 1) % 2 = flags[i]
  <2> DEFINE j == FlagCount - i
             q == j \div Bits
             r == j % Bits
             byte == q + 1
             k == r + 1
  <2>1. j \in 0..(FlagCount - 1) /\ j < FlagCount /\ FlagCount - j = i
    BY <1>1
  <2> HIDE DEF j
  <2>2. byte \in 1..n /\ r \in 0..(Bits - 1) /\ j = q * Bits + r /\ q \in Int
    <3>1. byte \in 1..n /\ r \in 0..(Bits - 1) /\ j = q * Bits + r
      BY <1>3, <2>1, Zenon
    <3>2. n \in Nat /\ j \in Int
      BY <1>1, <2>1, SizesAssumption, ByteCountType DEF n
    <3>3. q \in Int
      BY <1>1, <3>2
    <3> QED BY <3>1, <3>3
  <2> HIDE DEF q, r
  <2>3. k \in 1..Bits /\ k - 1 = r
    BY <1>1, <2>2
  <2>4. bytes[byte] = FlagByte(flags, byte)
    BY <1>2, <2>2
  <2>5. Digit(FlagByte(flags, byte), k - 1, 2) = FlagBit(flags, (byte - 1) * Bits + k - 1)
    <3> HIDE DEF byte, k
    <3> QED BY <2>3, FlagByteType
  <2>6. (byte - 1) * Bits + k - 1 = j
    <3>1. byte - 1 = q
      BY <2>2
    <3> DEFINE p == q * Bits
    <3>2. p \in Int
      BY <1>1, <2>2
    <3> HIDE DEF p
    <3>3. p + k - 1 = p + r
      BY <2>2, <3>2
    <3> QED BY <2>2, <3>1, <3>3 DEF p
  <2>7. Digit(bytes[byte], r, 2) = IF flags[i] = 0 THEN 1 ELSE 0
    BY <2>1, <2>3, <2>4, <2>5, <2>6 DEF FlagBit
  <2>8. flags[i] \in {0, 1}
    OBVIOUS
  <2> DEFINE d == Digit(bytes[byte], r, 2)
  <2>9. d = IF flags[i] = 0 THEN 1 ELSE 0
    BY <2>7
  <2> HIDE DEF d
  <2>10. (d + 1) % 2 = flags[i]
    BY <2>8, <2>9
  <2> QED BY <2>10 DEF d, byte, q, r, j
<1> QED BY <1>4 DEF FlagsOf, bytes

\* ReadBits with what it makes of the bytes named.
LEMMA BitsReadIs ==
  ASSUME NEW s
  PROVE  LET r == ReadElements(s, ByteCount(FlagCount), ReadByte)
         IN  BitsRead(s) = IF ~r.ok THEN r ELSE [r EXCEPT !.got = FlagsOf(r.got)]
BY DEF BitsRead, ReadBits, FlagsOf

\* Whatever the bytes are, reading bits keeps the buffer.
LEMMA BitsKeeps ==
  ASSUME Masked, NEW s, Stream(s)
  PROVE  Keeps(s, BitsRead(s))
<1> DEFINE G == {s.got} \cup Values
           n == ByteCount(FlagCount)
           u == ReadElements(s, n, ReadByte)
           v == FlagsOf(u.got)
           d == [u EXCEPT !.got = v]
<1>1. Values \subseteq G /\ n \in Nat /\ s \in Streams(G)
  BY SizesAssumption, ByteCountType, StreamIs DEF Stream
<1>2. BitsRead(s) = IF ~u.ok THEN u ELSE d
  BY BitsReadIs
<1> HIDE DEF G, n
<1>3. PICK F : /\ Elementwise(F, n, s, u)
               /\ \A i \in 1..n : F[i - 1].stream \in Streams(G)
                                   => Keeps(F[i - 1].stream, F[i].stream) /\ F[i].stream \in Streams(G)
  BY <1>1, ByteElements
<1> HIDE DEF u
<1>4. Keeps(s, u)
  BY <1>1, <1>3, ElementsKeep
<1> HIDE DEF v
<1>5. /\ d \in Streams({v}) /\ d.got = v /\ d.buf = u.buf /\ d.ok = u.ok
      /\ d.containerSizeBytes = u.containerSizeBytes /\ d.m_userData = u.m_userData
  <2>1. u \in Streams({u.got})
    BY <1>4 DEF Keeps, Stream
  <2> QED BY <2>1, WithGot
<1> HIDE DEF d
<1>6. Keeps(s, d)
  BY <1>4, <1>5 DEF Keeps, Stream
<1> QED BY <1>2, <1>4, <1>6

\* Packed flags that come next are read as the flags.
LEMMA BitsFinds ==
  ASSUME Masked, NEW s, Stream(s), s.ok => s.buf.m_posRead <= s.buf.m_size,
         NEW flags \in [1..FlagCount -> {0, 1}]
  PROVE  Finds(s, BitsRead(s), PackedFlags(flags), flags)
<1> DEFINE G == {s.got} \cup Values
           n == ByteCount(FlagCount)
           u == ReadElements(s, n, ReadByte)
           v == FlagsOf(u.got)
           d == [u EXCEPT !.got = v]
           bytes == PackedFlags(flags)
           codes == [i \in 1..n |-> <<bytes[i]>>]
<1>1. Values \subseteq G /\ n \in Nat /\ s \in Streams(G)
  BY SizesAssumption, ByteCountType, StreamIs DEF Stream
<1>2. BitsRead(s) = IF ~u.ok THEN u ELSE d
  BY BitsReadIs
<1>3. bytes \in Seq(Byte) /\ Len(bytes) = n
  BY PackedFlagsType
<1>4. FlagsOf(bytes) = flags
  BY FlagsOfPacked
<1> HIDE DEF G, n, bytes
<1>5. PICK F : /\ Elementwise(F, n, s, u)
               /\ \A i \in 1..n : F[i].stream = ReadByte(F[i - 1].stream)
               /\ \A i \in 1..n : F[i - 1].stream \in Streams(G)
                                   => Keeps(F[i - 1].stream, F[i].stream) /\ F[i].stream \in Streams(G)
  BY <1>1, ByteElements
<1> HIDE DEF u
<1>6. \A i \in 1..n : bytes[i] \in Byte /\ codes[i] = <<bytes[i]>>
  <2> HIDE DEF Byte
  <2> QED BY <1>3
<1>7. codes \in [1..n -> Seq(Byte)]
  <2>1. ASSUME NEW i \in 1..n PROVE <<bytes[i]>> \in Seq(Byte)
    <3> DEFINE b == bytes[i]
    <3>1. b \in Byte
      BY <1>6
    <3> HIDE DEF b, Byte
    <3>2. <<b>> \in Seq(Byte)
      BY <3>1
    <3> QED BY <3>2 DEF b
  <2> HIDE DEF Byte
  <2> QED BY <2>1
<1>8. Concat(codes) = bytes
  <2> HIDE DEF codes, Byte
  <2> QED BY <1>3, <1>6, <1>7, ConcatSingles
<1> HIDE DEF codes
<1>9. ASSUME NEW i \in 1..n, Stream(F[i - 1].stream)
      PROVE  Finds(F[i - 1].stream, F[i].stream, codes[i], bytes[i])
  <2> DEFINE t == F[i - 1].stream
             value == bytes[i]
  <2>1. value \in Byte /\ codes[i] = <<value>> /\ F[i].stream = ReadByte(t) /\ Stream(t)
    BY <1>5, <1>6, <1>9
  <2> HIDE DEF t, value
  <2>2. Finds(t, ReadByte(t), <<value>>, value)
    BY <2>1, ByteFinds
  <2> QED BY <2>1, <2>2 DEF t, value
<1>10. Finds(s, u, Concat(codes), bytes)
  BY <1>1, <1>3, <1>5, <1>7, <1>9, ElementsFind
<1>11. Keeps(s, u)
  BY <1>1, <1>5, ElementsKeep
<1> HIDE DEF v
<1>12. d.got = v /\ d.buf = u.buf /\ d.ok = u.ok
  <2>1. u \in Streams({u.got})
    BY <1>11 DEF Keeps, Stream
  <2> QED BY <2>1, WithGot
<1> HIDE DEF d
<1> DEFINE t == BitsRead(s)
<1>13. t.ok = u.ok /\ t.buf = u.buf /\ (u.ok => t.got = v)
  BY <1>2, <1>12
<1> HIDE DEF t
<1>14. Finds(s, t, bytes, flags)
  BY <1>4, <1>8, <1>10, <1>13 DEF Finds, v
<1> QED BY <1>14 DEF t, bytes

-----------------------------------------------------------------------------
(* The largest element of a set of numbers.                                *)

\* An element that no other exceeds is the largest.
LEMMA MaxIs ==
  ASSUME NEW S \in SUBSET Int, NEW x \in S, \A y \in S : x >= y
  PROVE  Max(S) = x
<1>1. \A z \in S : (\A y \in S : z >= y) => z = x
  OBVIOUS
<1> QED BY <1>1 DEF Max

\* An element that exceeds no other is the smallest.
LEMMA MinIs ==
  ASSUME NEW S \in SUBSET Int, NEW x \in S, \A y \in S : x <= y
  PROVE  Min(S) = x
<1>1. \A z \in S : (\A y \in S : z <= y) => z = x
  OBVIOUS
<1> QED BY <1>1 DEF Min

\* A set of numbers that are bounded, and that is not empty, has a largest.
LEMMA MaxExists ==
  ASSUME NEW n \in Nat, NEW S \in SUBSET (0..n), S # {}
  PROVE  Max(S) \in S /\ \A y \in S : Max(S) >= y
<1> DEFINE T == {i \in 0..n : \A R \in SUBSET (0..i) : R # {} => \E x \in R : \A y \in R : x >= y}
<1>1. 0 \in T
  <2>1. ASSUME NEW R \in SUBSET (0..0), R # {} PROVE \E x \in R : \A y \in R : x >= y
    <3>1. \A x \in R : x = 0
      OBVIOUS
    <3>2. PICK z \in R : TRUE
      BY <2>1
    <3>3. z = 0 /\ \A y \in R : z >= y
      BY <3>1, <3>2
    <3> QED BY <3>3
  <2> QED BY <2>1
<1>2. ASSUME NEW i \in 1..n, i - 1 \in T PROVE i \in T
  <2>1. ASSUME NEW R \in SUBSET (0..i), R # {} PROVE \E x \in R : \A y \in R : x >= y
    <3>1. CASE i \in R
      BY <3>1
    <3>2. CASE i \notin R
      <4>1. R \in SUBSET (0..(i - 1))
        BY <3>2
      <4> QED BY <1>2, <2>1, <4>1
    <3> QED BY <3>1, <3>2
  <2> QED BY <2>1
<1>3. n \in T
  <2> HIDE DEF T
  <2>1. \A i \in 0..n : i \in T
    BY <1>1, <1>2, StepInduction
  <2> QED BY <2>1
<1>4. \E x \in S : \A y \in S : x >= y
  BY <1>3
<1> QED BY <1>4 DEF Max

-----------------------------------------------------------------------------
(* A string in a field of fixed size.                                      *)

\* What is read of a name, when garbage was there before.
FieldValue(name, garbage) ==
    [str |-> name.str, garbage |-> IF Len(name.str) < NameSize - 1 THEN Kept(name) ELSE garbage]

\* Where the string in a field ends, where its garbage does, and what they are.
FirstZero(bytes) == Min({i \in 0..NameSize : i = NameSize \/ bytes[i + 1] = 0})
LastOther(bytes, length) == Max({length + 1} \cup {i \in (length + 2)..NameSize : bytes[i] # 0})
FieldOf(bytes, garbage) ==
    [str |-> SubSeq(bytes, 1, FirstZero(bytes)),
     garbage |-> IF FirstZero(bytes) < NameSize - 1
                 THEN SubSeq(bytes, FirstZero(bytes) + 2, LastOther(bytes, FirstZero(bytes)))
                 ELSE garbage]

\* ReadField with what it makes of the bytes named.
LEMMA FieldReadIs ==
  ASSUME NEW s, NEW garbage
  PROVE  LET r == ReadBlock(s, NameSize)
         IN  ReadField(s, NameSize, garbage) =
               [r EXCEPT !.got = IF ~r.ok THEN [str |-> << >>, garbage |-> garbage]
                 ELSE FieldOf(r.got, garbage)]
<1> DEFINE r == ReadBlock(s, NameSize)
<1>1. CASE ~r.ok
  BY <1>1 DEF ReadField
<1>2. CASE r.ok
  BY <1>2 DEF ReadField, FieldOf, FirstZero, LastOther
<1> QED BY <1>1, <1>2

\* The lengths of a name that fits its field.
LEMMA FieldLengths ==
  ASSUME NEW name, name.str \in Seq(Byte \ {0}), name.garbage \in Seq(Byte),
         Len(name.str) + Len(name.garbage) <= NameSize
  PROVE  /\ NameSize \in Nat /\ Len(name.str) \in Nat /\ Len(name.garbage) \in Nat
         /\ Len(name.str) <= NameSize /\ Len(name.str) + Len(name.garbage) <= NameSize
<1> DEFINE str == name.str
           garbage == name.garbage
           V == Byte \ {0}
           l == Len(str)
           g == Len(garbage)
<1>1. NameSize \in Nat
  BY SizesAssumption
<1>2. str \in Seq(V) /\ garbage \in Seq(Byte)
  OBVIOUS
<1> HIDE DEF str, garbage, V
<1>3. l \in Nat /\ g \in Nat
  BY <1>2
<1>4. l + g <= NameSize
  BY DEF str, garbage
<1> HIDE DEF l, g
<1>5. l <= NameSize
  BY <1>1, <1>3, <1>4
<1> QED BY <1>1, <1>3, <1>4, <1>5 DEF l, g, str, garbage

\* What stands where in a field.
LEMMA FieldPositions ==
  ASSUME NEW name, name.str \in Seq(Byte \ {0}), name.garbage \in Seq(Byte),
         Len(name.str) + Len(name.garbage) <= NameSize
  PROVE  /\ FieldBytes(name) \in Seq(Byte) /\ Len(FieldBytes(name)) = NameSize
         /\ \A i \in 1..Len(name.str) : FieldBytes(name)[i] = name.str[i] /\ name.str[i] # 0
         /\ Len(name.str) < NameSize => FieldBytes(name)[Len(name.str) + 1] = 0
         /\ \A i \in 1..(NameSize - Len(name.str) - 1) :
               FieldBytes(name)[Len(name.str) + 1 + i] =
                 IF i <= Len(name.garbage) THEN name.garbage[i] ELSE 0
<1> DEFINE str == name.str
           garbage == name.garbage
           l == Len(str)
           g == Len(garbage)
           bytes == FieldBytes(name)
<1>1. NameSize \in Nat /\ l \in Nat /\ g \in Nat /\ l + g <= NameSize
  BY FieldLengths
<1>2. str \in Seq(Byte)
  <2>1. Byte \ {0} \subseteq Byte
    OBVIOUS
  <2> QED BY <2>1, LargerSeq
<1>3. bytes = [i \in 1..NameSize |-> FieldByte(name, i)] /\ bytes \in Seq(Byte) /\ Len(bytes) = NameSize
  BY <1>2, FieldBytesAre
<1>4. DOMAIN garbage = 1..g
  OBVIOUS
<1>5. \A i \in 1..l : str[i] # 0
  <2> HIDE DEF Byte
  <2> QED OBVIOUS
<1> HIDE DEF bytes, l, g
<1>6. ASSUME NEW i \in 1..l PROVE bytes[i] = str[i]
  <2>1. i \in 1..NameSize /\ i <= l
    BY <1>1, <1>4
  <2> QED BY <1>3, <2>1 DEF FieldByte, l
<1>7. l < NameSize => bytes[l + 1] = 0
  <2>1. SUFFICES ASSUME l < NameSize PROVE bytes[l + 1] = 0
    OBVIOUS
  <2>2. l + 1 \in 1..NameSize /\ ~(l + 1 <= l) /\ (l + 1) - l - 1 = 0
    BY <1>1, <2>1
  <2>3. 0 \notin DOMAIN garbage
    BY <1>4
  <2> QED BY <1>3, <2>2, <2>3 DEF FieldByte, l
<1>8. ASSUME NEW i \in 1..(NameSize - l - 1)
      PROVE  bytes[l + 1 + i] = IF i <= g THEN garbage[i] ELSE 0
  <2> DEFINE j == l + 1 + i
  <2>1. j \in 1..NameSize /\ ~(j <= l) /\ j - l - 1 = i /\ (i \in DOMAIN garbage <=> i <= g)
    BY <1>1, <1>4
  <2> HIDE DEF j
  <2>2. bytes[j] = IF i <= g THEN garbage[i] ELSE 0
    BY <1>3, <2>1 DEF FieldByte, l
  <2> QED BY <2>2 DEF j
<1> QED BY <1>3, <1>5, <1>6, <1>7, <1>8 DEF bytes, l, g

\* The first zero of a field is the one behind its string.
LEMMA FieldZero ==
  ASSUME NEW name, name.str \in Seq(Byte \ {0}), name.garbage \in Seq(Byte),
         Len(name.str) + Len(name.garbage) <= NameSize
  PROVE  FirstZero(FieldBytes(name)) = Len(name.str)
<1> DEFINE str == name.str
           l == Len(str)
           bytes == FieldBytes(name)
           S == {i \in 0..NameSize : i = NameSize \/ bytes[i + 1] = 0}
<1>1. NameSize \in Nat /\ l \in Nat /\ l <= NameSize
  BY FieldLengths
<1>2. /\ \A i \in 1..l : bytes[i] # 0
      /\ l < NameSize => bytes[l + 1] = 0
  BY FieldPositions
<1>3. l <= NameSize
  BY <1>1
<1> HIDE DEF bytes, l
<1>4. l \in S
  BY <1>1, <1>2, <1>3
<1>5. \A y \in S : l <= y
  <2>1. ASSUME NEW y \in S, y < l PROVE FALSE
    <3>1. y + 1 \in 1..l /\ y # NameSize
      BY <1>1, <1>3, <2>1
    <3> QED BY <1>2, <3>1
  <2> QED BY <1>1, <2>1
<1>6. S \in SUBSET Int
  BY <1>1
<1> HIDE DEF S
<1>7. Min(S) = l
  BY <1>4, <1>5, <1>6, MinIs
<1> QED BY <1>7 DEF FirstZero, S, bytes, l

\* The garbage that fits, without the zeroes it ends with.
LEMMA FieldGarbage ==
  ASSUME NEW name, name.str \in Seq(Byte \ {0}), name.garbage \in Seq(Byte),
         Len(name.str) + Len(name.garbage) <= NameSize, Len(name.str) < NameSize - 1
  PROVE  SubSeq(FieldBytes(name), Len(name.str) + 2, LastOther(FieldBytes(name), Len(name.str))) = Kept(name)
<1> DEFINE garbage == name.garbage
           l == Len(name.str)
           g == Len(garbage)
           bytes == FieldBytes(name)
           S == {0} \cup {i \in DOMAIN garbage : i < NameSize - l /\ garbage[i] # 0}
           k == Max(S)
           R == {l + 1} \cup {i \in (l + 2)..NameSize : bytes[i] # 0}
<1>1. NameSize \in Nat /\ l \in Nat /\ g \in Nat /\ l + g <= NameSize /\ l < NameSize - 1
  BY FieldLengths
<1>2. /\ bytes \in Seq(Byte) /\ Len(bytes) = NameSize
      /\ \A i \in 1..(NameSize - l - 1) : bytes[l + 1 + i] = IF i <= g THEN garbage[i] ELSE 0
  BY FieldPositions
<1>3. garbage \in Seq(Byte) /\ Len(garbage) = g /\ DOMAIN garbage = 1..g
  OBVIOUS
<1> HIDE DEF bytes, l, g, garbage
<1>6. S \in SUBSET (0..g) /\ S # {} /\ \A i \in S : i <= NameSize - l - 1
  BY <1>1, <1>3
<1>7. k \in S /\ \A y \in S : k >= y
  <2> HIDE DEF S
  <2> QED BY <1>1, <1>6, MaxExists
<1>8. k \in 0..g /\ k <= NameSize - l - 1
  <2> HIDE DEF S, k
  <2> QED BY <1>6, <1>7
<1>10. Max(R) = l + 1 + k
  <2>1. R \in SUBSET Int
    BY <1>1
  <2>2. l + 1 + k \in R
    <3>1. CASE k = 0
      BY <1>1, <3>1
    <3>2. CASE k # 0
      <4>0. k \in S /\ k \in 0..g
        BY <1>7, <1>8
      <4> HIDE DEF k
      <4>1. k \in 1..g /\ k \in 1..(NameSize - l - 1) /\ garbage[k] # 0
        BY <1>1, <1>3, <4>0, <3>2
      <4>2. bytes[l + 1 + k] # 0
        BY <1>2, <4>1
      <4>3. l + 1 + k \in (l + 2)..NameSize
        BY <1>1, <4>1
      <4> QED BY <4>2, <4>3
    <3> QED BY <3>1, <3>2
  <2>3. ASSUME NEW y \in R PROVE l + 1 + k >= y
    <3> HIDE DEF k
    <3>1. CASE y = l + 1
      BY <1>1, <1>8, <3>1
    <3>2. CASE y # l + 1
      <4> DEFINE i == y - l - 1
      <4>1. y \in (l + 2)..NameSize /\ bytes[y] # 0
        BY <3>2
      <4> HIDE DEF R
      <4>2. i \in 1..(NameSize - l - 1) /\ y = l + 1 + i
        BY <1>1, <4>1
      <4> HIDE DEF i
      <4>3. i <= g /\ garbage[i] # 0
        BY <1>2, <4>1, <4>2
      <4>4. i \in 1..g /\ i < NameSize - l
        BY <1>1, <4>2, <4>3
      <4>5. i \in S
        BY <1>3, <4>3, <4>4
      <4> HIDE DEF S
      <4>6. k >= i
        BY <1>7, <4>5
      <4> QED BY <1>1, <1>8, <4>2, <4>4, <4>6
    <3> QED BY <3>1, <3>2
  <2> HIDE DEF R, k
  <2>4. \A y \in R : l + 1 + k >= y
    BY <2>3
  <2> QED BY <2>1, <2>2, <2>4, MaxIs
<1> DEFINE a == SubSeq(bytes, l + 2, l + 1 + k)
           c == SubSeq(garbage, 1, k)
<1> HIDE DEF k, S, R
<1>11. a \in Seq(Byte) /\ Len(a) = k /\ \A i \in 1..k : a[i] = bytes[l + 1 + i]
  <2> DEFINE p == l + 1
  <2>1. p \in Nat /\ k \in Nat /\ p + k <= Len(bytes) /\ l + 2 = p + 1 /\ l + 1 + k = p + k
    BY <1>1, <1>2, <1>8
  <2> HIDE DEF p, Byte
  <2>2. /\ SubSeq(bytes, p + 1, p + k) \in Seq(Byte) /\ Len(SubSeq(bytes, p + 1, p + k)) = k
        /\ \A i \in 1..k : SubSeq(bytes, p + 1, p + k)[i] = bytes[p + i]
    BY <1>2, <2>1
  <2> QED BY <2>1, <2>2 DEF p
<1>12. c \in Seq(Byte) /\ Len(c) = k /\ \A i \in 1..k : c[i] = garbage[i]
  <2> HIDE DEF Byte
  <2> QED BY <1>1, <1>3, <1>8
<1> HIDE DEF a, c
<1>13. \A i \in 1..k : a[i] = c[i]
  <2>1. ASSUME NEW i \in 1..k PROVE bytes[l + 1 + i] = garbage[i]
    <3>1. i \in 1..(NameSize - l - 1) /\ i <= g
      BY <1>1, <1>8
    <3> QED BY <1>2, <3>1
  <2> QED BY <1>11, <1>12, <2>1
<1>14. a = c
  BY <1>11, <1>12, <1>13, SameSequence
<1>15. Kept(name) = c
  BY Zenon DEF Kept, c, k, S, l, garbage
<1> QED BY <1>10, <1>14, <1>15 DEF LastOther, R, a, bytes, l

\* The bytes of a field tell its name, with the garbage that is kept.
LEMMA FieldOfBytes ==
  ASSUME NEW name, name.str \in Seq(Byte \ {0}), name.garbage \in Seq(Byte),
         Len(name.str) + Len(name.garbage) <= NameSize, NEW garbage
  PROVE  FieldOf(FieldBytes(name), garbage) = FieldValue(name, garbage)
<1> DEFINE bytes == FieldBytes(name)
           str == name.str
           l == Len(str)
<1>1. FirstZero(bytes) = l
  BY FieldZero
<1>2. l < NameSize - 1 => SubSeq(bytes, l + 2, LastOther(bytes, l)) = Kept(name)
  BY FieldGarbage
<1>3. SubSeq(bytes, 1, l) = str
  <2> DEFINE c == SubSeq(bytes, 1, l)
  <2>1. /\ bytes \in Seq(Byte) /\ Len(bytes) = NameSize /\ l <= NameSize /\ l \in Nat /\ NameSize \in Nat
        /\ \A i \in 1..l : bytes[i] = str[i]
    <3>1. NameSize \in Nat /\ l \in Nat /\ l <= NameSize
      BY FieldLengths
    <3>2. bytes \in Seq(Byte) /\ Len(bytes) = NameSize /\ \A i \in 1..l : bytes[i] = str[i]
      BY FieldPositions
    <3> HIDE DEF l, bytes
    <3> QED BY <3>1, <3>2
  <2>2. str \in Seq(Byte)
    <3>1. Byte \ {0} \subseteq Byte
      OBVIOUS
    <3> QED BY <3>1, LargerSeq
  <2> HIDE DEF bytes, Byte, l
  <2>3. c \in Seq(Byte) /\ Len(c) = l /\ \A i \in 1..l : c[i] = bytes[i]
    BY <2>1
  <2> HIDE DEF c
  <2>4. \A i \in 1..l : c[i] = str[i]
    BY <2>1, <2>3
  <2> QED BY <2>2, <2>3, <2>4, SameSequence DEF c, l
<1> HIDE DEF bytes
<1> QED BY <1>1, <1>2, <1>3 DEF FieldOf, FieldValue, bytes

\* Whatever the bytes are, reading a field keeps the buffer, and the garbage when it
\* throws.
LEMMA FieldKeeps ==
  ASSUME NEW s, Stream(s), NEW garbage
  PROVE  /\ Keeps(s, ReadField(s, NameSize, garbage))
         /\ ~ReadField(s, NameSize, garbage).ok
              => ReadField(s, NameSize, garbage).got = [str |-> << >>, garbage |-> garbage]
<1> DEFINE r == ReadBlock(s, NameSize)
           v == IF ~r.ok THEN [str |-> << >>, garbage |-> garbage] ELSE FieldOf(r.got, garbage)
           d == [r EXCEPT !.got = v]
<1>1. ReadField(s, NameSize, garbage) = d
  BY FieldReadIs
<1>2. Keeps(s, r)
  BY SizesAssumption, BlockKeeps
<1> HIDE DEF r
<1>3. ~r.ok => v = [str |-> << >>, garbage |-> garbage]
  OBVIOUS
<1> HIDE DEF v
<1>4. /\ d \in Streams({v}) /\ d.got = v /\ d.buf = r.buf /\ d.ok = r.ok
      /\ d.containerSizeBytes = r.containerSizeBytes /\ d.m_userData = r.m_userData
  <2>1. r \in Streams({r.got})
    BY <1>2 DEF Keeps, Stream
  <2> QED BY <2>1, WithGot
<1> HIDE DEF d
<1>5. Keeps(s, d)
  BY <1>2, <1>4 DEF Keeps, Stream
<1> QED BY <1>1, <1>3, <1>4, <1>5

\* A field that comes next is read as its name.
LEMMA FieldFinds ==
  ASSUME NEW s, Stream(s), NEW name, name.str \in Seq(Byte \ {0}), name.garbage \in Seq(Byte),
         Len(name.str) + Len(name.garbage) <= NameSize, NEW garbage
  PROVE  Finds(s, ReadField(s, NameSize, garbage), FieldBytes(name), FieldValue(name, garbage))
<1> DEFINE r == ReadBlock(s, NameSize)
           v == IF ~r.ok THEN [str |-> << >>, garbage |-> garbage] ELSE FieldOf(r.got, garbage)
           d == [r EXCEPT !.got = v]
           code == FieldBytes(name)
           value == FieldValue(name, garbage)
<1>1. ReadField(s, NameSize, garbage) = d
  BY FieldReadIs
<1>2. Keeps(s, r)
  BY SizesAssumption, BlockKeeps
<1>3. code \in Seq(Byte) /\ Len(code) = NameSize
  BY FieldPositions
<1>4. FieldOf(code, garbage) = value
  BY FieldOfBytes
<1> HIDE DEF code, value
<1>5. Finds(s, r, code, code)
  <2>1. Finds(s, ReadBlock(s, Len(code)), code, code)
    BY <1>3, BlockFinds
  <2> QED BY <1>3, <2>1
<1> HIDE DEF r
<1>6. r.ok => v = FieldOf(r.got, garbage)
  OBVIOUS
<1> HIDE DEF v
<1>7. d.got = v /\ d.buf = r.buf /\ d.ok = r.ok
  <2>1. r \in Streams({r.got})
    BY <1>2 DEF Keeps, Stream
  <2> QED BY <2>1, WithGot
<1> HIDE DEF d
<1>8. Finds(s, d, code, value)
  BY <1>4, <1>5, <1>6, <1>7 DEF Finds
<1> QED BY <1>1, <1>8 DEF code, value

\* Skipping the padding keeps the buffer and moves the read position.
LEMMA SkipKeeps ==
  ASSUME NEW s, Stream(s)
  PROVE  /\ Keeps(s, SkipPadding(s, 1)) /\ SkipPadding(s, 1).ok = s.ok
         /\ s.ok => SkipPadding(s, 1).buf.m_posRead = s.buf.m_posRead + 1
<1> DEFINE b == s.buf
           c == MarkRead(b, 1)
           d == [s EXCEPT !.buf = c]
<1>0. s \in Streams({s.got})
  BY DEF Stream
<1>1. /\ BufferOK(b, Byte) /\ b \in Buffer(Byte) /\ b.m_posRead \in Nat /\ (s.ok => ~b.m_eofRead)
      /\ s.ok \in BOOLEAN
  BY <1>0, StreamFields
<1>2. /\ BufferOK(c, Byte) /\ c.m_internal = b.m_internal /\ c.m_size = b.m_size
           /\ c.m_posWrite = b.m_posWrite
      /\ c.m_resizeEnabled = b.m_resizeEnabled /\ c.m_posRead = b.m_posRead + 1 /\ c.m_eofRead = b.m_eofRead
  BY <1>1 DEF MarkRead, BufferOK, Buffer
<1>3. CASE ~s.ok
  <2>1. SkipPadding(s, 1) = s
    BY <1>3 DEF SkipPadding
  <2> QED BY <1>3, <2>1, KeepsItself
<1>4. CASE s.ok
  <2>1. SkipPadding(s, 1) = d
    BY <1>4 DEF SkipPadding
  <2> HIDE DEF c
  <2>2. /\ d \in Streams({s.got}) /\ d.buf = c /\ d.ok = s.ok /\ d.got = s.got
        /\ d.containerSizeBytes = s.containerSizeBytes /\ d.m_userData = s.m_userData
    BY <1>0, <1>1, <1>2, WithBuffer
  <2> HIDE DEF d
  <2>3. Keeps(s, d)
    BY <1>2, <2>2 DEF Keeps, Stream
  <2> QED BY <1>2, <2>1, <2>2, <2>3
<1> QED BY <1>1, <1>3, <1>4

\* Skipping the padding does not matter to what is found behind it, even behind the end of
\* the buffer.
LEMMA SkipFinds ==
  ASSUME NEW s, Stream(s), NEW u, NEW code \in Seq(Byte), NEW value, Finds(SkipPadding(s, 1), u, code, value)
  PROVE  Finds(s, u, Join(<<0>>, code), value)
<1> DEFINE t == SkipPadding(s, 1)
           zero == <<0>>
           c == Join(zero, code)
           p == s.buf.m_posRead
           n == Len(code)
<1>1. Keeps(s, t) /\ t.ok = s.ok /\ (s.ok => t.buf.m_posRead = p + 1)
  BY SkipKeeps
<1>2. p \in Nat /\ s.buf.m_size \in Nat /\ n \in Nat
  BY StreamFields DEF Stream
<1>3. zero \in Seq(Byte) /\ Len(zero) = 1
  <2>1. 0 \in Byte
    BY BaseType DEF Byte
  <2> HIDE DEF Byte
  <2> QED BY <2>1
<1> HIDE DEF t, zero
<1>4. IsJoin(c, zero, code)
  BY <1>3, JoinIs
<1> HIDE DEF c
<1>5. Len(c) = 1 + n /\ \A i \in 1..n : c[1 + i] = code[i]
  BY <1>3, <1>4 DEF IsJoin
<1>6. SUFFICES ASSUME s.ok, Holds(s, c)
      PROVE  /\ u.ok <=> p + (1 + n) <= s.buf.m_size
             /\ u.ok => u.buf.m_posRead = p + (1 + n) /\ u.got = value
  BY <1>5 DEF Finds, c, zero
<1>7. Holds(t, code)
  <2>1. ASSUME NEW i \in 1..n, (p + 1) + i <= s.buf.m_size PROVE s.buf.m_internal[(p + 1) + i] = code[i]
    <3>1. 1 + i \in 1..(1 + n) /\ p + (1 + i) = (p + 1) + i
      BY <1>2
    <3> QED BY <1>5, <1>6, <2>1, <3>1 DEF Holds
  <2> QED BY <1>1, <1>6, <2>1 DEF Holds, Keeps
<1>8. /\ u.ok <=> (p + 1) + n <= s.buf.m_size
      /\ u.ok => u.buf.m_posRead = (p + 1) + n /\ u.got = value
  BY <1>1, <1>6, <1>7 DEF Finds, Keeps, t
<1>9. (p + 1) + n = p + (1 + n)
  BY <1>2
<1> QED BY <1>8, <1>9

\* Whatever the bytes are, checking the padding keeps the buffer.
LEMMA CheckKeeps ==
  ASSUME Masked, NEW s, Stream(s)
  PROVE  Keeps(s, ReadElements(s, 1, ReadZero))
<1> DEFINE G == {s.got} \cup Values
           n == 1
           u == ReadElements(s, n, ReadZero)
<1>1. Values \subseteq G /\ n \in Nat /\ s \in Streams(G)
  BY StreamIs DEF Stream
<1> HIDE DEF G, n
<1>3. PICK F : /\ Elementwise(F, n, s, u)
               /\ \A i \in 1..n : F[i - 1].stream \in Streams(G)
                                   => Keeps(F[i - 1].stream, F[i].stream) /\ F[i].stream \in Streams(G)
  BY <1>1, ZeroElements
<1> HIDE DEF u
<1>4. Keeps(s, u)
  BY <1>1, <1>3, ElementsKeep
<1> QED BY <1>4 DEF u, n

\* Padding that comes next is accepted.
LEMMA CheckFinds ==
  ASSUME Masked, NEW s, Stream(s), s.ok => s.buf.m_posRead <= s.buf.m_size
  PROVE  Finds(s, ReadElements(s, 1, ReadZero), <<0>>, <<0>>)
<1> DEFINE G == {s.got} \cup Values
           n == 1
           u == ReadElements(s, n, ReadZero)
           bytes == <<0>>
           codes == [i \in 1..n |-> <<0>>]
<1>1. Values \subseteq G /\ n \in Nat /\ s \in Streams(G)
  BY StreamIs DEF Stream
<1>2. bytes \in Seq(Byte) /\ Len(bytes) = n /\ \A i \in 1..n : bytes[i] = 0
  <2>1. 0 \in Byte
    BY BaseType DEF Byte
  <2> HIDE DEF Byte
  <2> QED BY <2>1
<1>3. \A i \in 1..n : codes[i] = <<bytes[i]>>
  <2> HIDE DEF bytes
  <2> QED BY <1>2
<1>4. codes \in [1..n -> Seq(Byte)] /\ \A i \in 1..n : codes[i] = bytes
  <2> HIDE DEF n, Byte
  <2> QED BY <1>2
<1> HIDE DEF G, n, bytes, codes
<1>5. PICK F : /\ Elementwise(F, n, s, u)
               /\ \A i \in 1..n : F[i].stream = ReadZero(F[i - 1].stream)
               /\ \A i \in 1..n : F[i - 1].stream \in Streams(G)
                                   => Keeps(F[i - 1].stream, F[i].stream) /\ F[i].stream \in Streams(G)
  BY <1>1, ZeroElements
<1> HIDE DEF u
<1>8. Concat(codes) = bytes
  <2> HIDE DEF Byte
  <2> QED BY <1>2, <1>3, <1>4, ConcatSingles
<1>9. ASSUME NEW i \in 1..n, Stream(F[i - 1].stream)
      PROVE  Finds(F[i - 1].stream, F[i].stream, codes[i], bytes[i])
  <2> DEFINE t == F[i - 1].stream
  <2>1. bytes[i] = 0 /\ codes[i] = <<0>> /\ F[i].stream = ReadZero(t) /\ Stream(t)
    BY <1>2, <1>4, <1>5, <1>9 DEF bytes
  <2> HIDE DEF t
  <2>2. Finds(t, ReadZero(t), <<0>>, 0)
    BY <2>1, ZeroFinds
  <2> QED BY <2>1, <2>2 DEF t
<1>10. Finds(s, u, Concat(codes), bytes)
  BY <1>1, <1>2, <1>4, <1>5, <1>9, ElementsFind
<1> QED BY <1>8, <1>10 DEF u, n, bytes

\* The padding and the field behind it.
NameRead(s, garbage) == ReadField(ReadPadding(s, 1, check), NameSize, garbage)

\* Whatever the bytes are, reading padding and field keeps the buffer.
LEMMA NameKeeps ==
  ASSUME Masked, NEW s, Stream(s), NEW garbage
  PROVE  /\ Keeps(s, NameRead(s, garbage))
         /\ ~NameRead(s, garbage).ok => NameRead(s, garbage).got = [str |-> << >>, garbage |-> garbage]
<1> DEFINE t == ReadPadding(s, 1, check)
<1>1. Keeps(s, t)
  BY CheckKeeps, SkipKeeps DEF ReadPadding
<1>2. Stream(t)
  BY <1>1 DEF Keeps
<1> HIDE DEF t
<1>3. /\ Keeps(t, ReadField(t, NameSize, garbage))
      /\ ~ReadField(t, NameSize, garbage).ok
           => ReadField(t, NameSize, garbage).got = [str |-> << >>, garbage |-> garbage]
  BY <1>2, FieldKeeps
<1>4. Keeps(s, ReadField(t, NameSize, garbage))
  BY <1>1, <1>3, KeepsThen
<1> QED BY <1>3, <1>4 DEF NameRead, t

\* Padding and a field that come next are read as the name, whether the padding is looked
\* at or not.
LEMMA NameFinds ==
  ASSUME Masked, NEW s, Stream(s), s.ok => s.buf.m_posRead <= s.buf.m_size,
         NEW name, name.str \in Seq(Byte \ {0}), name.garbage \in Seq(Byte),
         Len(name.str) + Len(name.garbage) <= NameSize, NEW garbage
  PROVE  Finds(s, NameRead(s, garbage), Join(<<0>>, FieldBytes(name)), FieldValue(name, garbage))
<1> DEFINE t == ReadPadding(s, 1, check)
           u == ReadField(t, NameSize, garbage)
           code == FieldBytes(name)
           value == FieldValue(name, garbage)
           zero == <<0>>
<1>1. Keeps(s, t)
  BY CheckKeeps, SkipKeeps DEF ReadPadding
<1>2. Stream(t)
  BY <1>1 DEF Keeps
<1>3. code \in Seq(Byte) /\ zero \in Seq(Byte)
  <2>1. code \in Seq(Byte)
    BY FieldPositions
  <2>2. 0 \in Byte
    BY BaseType DEF Byte
  <2> HIDE DEF Byte, code
  <2> QED BY <2>1, <2>2
<1>4. /\ check => t = ReadElements(s, 1, ReadZero)
      /\ ~check => t = SkipPadding(s, 1)
  BY DEF ReadPadding
<1> HIDE DEF t
<1>5. Finds(t, u, code, value) /\ Keeps(t, u)
  BY <1>2, FieldFinds, FieldKeeps
<1> HIDE DEF u, code, value
<1>6. CASE check
  <2>1. Finds(s, t, zero, zero)
    BY <1>4, <1>6, CheckFinds
  <2> HIDE DEF zero
  <2>2. Finds(s, u, Join(zero, code), value)
    BY <1>1, <1>3, <1>5, <2>1, FindsThen
  <2> QED BY <2>2 DEF NameRead, u, t, code, value, zero
<1>7. CASE ~check
  <2>1. Finds(SkipPadding(s, 1), u, code, value)
    BY <1>4, <1>5, <1>7
  <2>2. Finds(s, u, Join(zero, code), value)
    BY <1>3, <2>1, SkipFinds
  <2> QED BY <2>2 DEF NameRead, u, t, code, value
<1> QED BY <1>6, <1>7

-----------------------------------------------------------------------------
(* A map.                                                                  *)

\* The maps over a set.
Maps(G) == UNION {[D -> G] : D \in SUBSET G}

\* A map over a set is a function on a part of it.
LEMMA MapsAre ==
  ASSUME NEW G, NEW f
  PROVE  f \in Maps(G) <=> DOMAIN f \subseteq G /\ f \in [DOMAIN f -> G]
<1>1. ASSUME f \in Maps(G) PROVE DOMAIN f \subseteq G /\ f \in [DOMAIN f -> G]
  <2>1. PICK D \in SUBSET G : f \in [D -> G]
    BY <1>1 DEF Maps
  <2>2. DOMAIN f = D
    BY <2>1
  <2> QED BY <2>1, <2>2
<1>2. ASSUME DOMAIN f \subseteq G, f \in [DOMAIN f -> G] PROVE f \in Maps(G)
  BY <1>2 DEF Maps
<1> QED BY <1>1, <1>2

\* A map with one more entry is a map.
LEMMA WithEntryType ==
  ASSUME NEW G, NEW map \in Maps(G), NEW key \in G, NEW value \in G
  PROVE  /\ WithEntry(map, key, value) \in Maps(G)
         /\ DOMAIN WithEntry(map, key, value) = DOMAIN map \cup {key}
<1> DEFINE D == DOMAIN map \cup {key}
           f == [k \in D |-> IF k = key THEN value ELSE map[k]]
<1>1. DOMAIN map \subseteq G /\ map \in [DOMAIN map -> G]
  BY MapsAre
<1>2. D \subseteq G /\ \A k \in D : (IF k = key THEN value ELSE map[k]) \in G
  BY <1>1
<1>3. f \in [D -> G] /\ DOMAIN f = D
  <2> HIDE DEF D
  <2> QED BY <1>2
<1>4. WithEntry(map, key, value) = f
  BY DEF WithEntry
<1> HIDE DEF f, D
<1>5. f \in Maps(G)
  BY <1>2, <1>3, MapsAre
<1> QED BY <1>3, <1>4, <1>5 DEF D

\* How many entries ReadMap reads, and how it reads one.
CountRead(s) == IF ReadSize(s).ok THEN ReadSize(s).got ELSE 0

EntryStream(x) == ReadString(ReadByte(x))
EntryRead(t) ==
    [stream |-> EntryStream(t.stream),
     map |-> IF EntryStream(t.stream).ok
             THEN WithEntry(t.map, ReadByte(t.stream).got, EntryStream(t.stream).got) ELSE t.map]

\* Whatever the bytes are, reading an entry keeps the buffer.
LEMMA EntryKeeps ==
  ASSUME Masked, NEW x, Stream(x)
  PROVE  /\ Keeps(x, ReadByte(x)) /\ Keeps(ReadByte(x), EntryStream(x)) /\ Keeps(x, EntryStream(x))
         /\ ReadByte(x).got \in {x.got} \cup Values
         /\ EntryStream(x).got \in {x.got} \cup Values
<1> DEFINE b == ReadByte(x)
           v == ReadString(b)
<1>1. Keeps(x, b) /\ b.got \in {x.got} \cup Nat
  BY ByteKeeps
<1>2. Stream(b)
  BY <1>1 DEF Keeps
<1> HIDE DEF b
<1>3. Keeps(b, v) /\ v.got \in {b.got} \cup Values
  BY <1>2, StringKeeps
<1> HIDE DEF v
<1>4. Keeps(x, v)
  BY <1>1, <1>3, KeepsThen
<1> QED BY <1>1, <1>3, <1>4 DEF EntryStream, b, v, Values

\* An entry that comes next is read, its key first.
LEMMA EntryFinds ==
  ASSUME Masked, NEW x, Stream(x), NEW key \in Byte, NEW str \in Seq(Byte),
         Len(str) < Power(Base, x.containerSizeBytes)
  PROVE  /\ Finds(x, EntryStream(x), Join(<<key>>, Counted(str, x.containerSizeBytes)), str)
         /\ x.ok /\ Holds(x, Join(<<key>>, Counted(str, x.containerSizeBytes))) /\ EntryStream(x).ok
              => ReadByte(x).got = key
<1> DEFINE b == ReadByte(x)
           v == EntryStream(x)
           w == x.containerSizeBytes
           c1 == <<key>>
           c2 == Counted(str, w)
<1>1. Keeps(x, b) /\ Keeps(b, v)
  BY EntryKeeps
<1>2. Stream(b) /\ b.containerSizeBytes = w
  BY <1>1 DEF Keeps
<1>3. w \in {1, 2, 4}
  BY StreamFields DEF Stream
<1>4. Finds(x, b, c1, key)
  BY ByteFinds
<1>5. v = ReadString(b)
  BY DEF EntryStream
<1>6. c1 \in Seq(Byte) /\ c2 \in Seq(Byte)
  BY <1>3, ByteNumber, CountedType
<1> HIDE DEF b, c1, v
<1>7. Finds(b, v, c2, str)
  <2>1. Finds(b, ReadString(b), Counted(str, b.containerSizeBytes), str)
    BY <1>2, StringFinds
  <2> QED BY <1>2, <1>5, <2>1
<1> HIDE DEF w, c2
<1>8. Finds(x, v, Join(c1, c2), str)
  BY <1>1, <1>4, <1>6, <1>7, FindsThen
<1>9. ASSUME x.ok, Holds(x, Join(c1, c2)), v.ok PROVE b.got = key
  <2>1. b.got = key
    <3>1. Keeps(b, v) /\ Finds(x, b, c1, key) /\ c1 \in Seq(Byte) /\ c2 \in Seq(Byte)
      BY <1>1, <1>4, <1>6
    <3>2. Holds(x, Join(c1, c2)) /\ x.ok /\ v.ok
      BY <1>9
    <3>3. Holds(x, c1) /\ b.ok
      BY <3>1, <3>2, FoundBefore
    <3> QED BY <3>1, <3>2, <3>3 DEF Finds
  <2> QED BY <2>1
<1> QED BY <1>8, <1>9 DEF b, c1, v, w, c2

\* The states of reading a map.
MapRun(F, s, map) ==
                /\ ReadMap(s, map) = [F[CountRead(s)].stream EXCEPT !.got = F[CountRead(s)].map]
                /\ F[0] = [stream |-> ReadSize(s), map |-> map]
                /\ \A i \in 1..CountRead(s) : F[i] = EntryRead(F[i - 1])

\* The states ReadMap goes through.
LEMMA EntrySteps ==
  ASSUME Masked, NEW G, Values \subseteq G, NEW s, ReadSize(s) \in Streams(G), NEW map \in Maps(G),
         CountRead(s) \in Nat
  PROVE  \E F : MapRun(F, s, map)
<1> DEFINE S == [stream : Streams(G), map : Maps(G)]
           first == [stream |-> ReadSize(s), map |-> map]
           step == [z \in S \X (1..CountRead(s)) |-> EntryRead(z[1])]
           F == CHOOSE f : f = [i \in {k \in Nat : k <= CountRead(s)} |->
                                   IF i = 0 THEN first ELSE EntryRead(f[i - 1])]
<1>1. first \in S
  OBVIOUS
<1>2. ASSUME NEW t \in S, NEW i \in 1..CountRead(s) PROVE EntryRead(t) \in S
  <2> DEFINE x == t.stream
             b == ReadByte(x)
             v == EntryStream(x)
             m == IF v.ok THEN WithEntry(t.map, b.got, v.got) ELSE t.map
  <2>1. x \in Streams(G) /\ t.map \in Maps(G)
    OBVIOUS
  <2>2. EntryRead(t) = [stream |-> v, map |-> m]
    BY DEF EntryRead
  <2> HIDE DEF x
  <2>3. Stream(x) /\ x.got \in G
    BY <2>1, StreamIn
  <2>4. Keeps(x, v) /\ b.got \in G /\ v.got \in G
    BY <2>3, EntryKeeps
  <2>5. v \in Streams(G)
    BY <2>4, StreamIs DEF Keeps, Stream
  <2> HIDE DEF b, v
  <2>6. m \in Maps(G)
    BY <2>1, <2>4, WithEntryType
  <2> HIDE DEF m
  <2>7. [stream |-> v, map |-> m] \in S
    BY <2>5, <2>6
  <2> HIDE DEF S
  <2> QED BY <2>2, <2>7
<1>3. step \in [S \X (1..CountRead(s)) -> S]
  <2> HIDE DEF S
  <2> QED BY <1>2
<1>4. PICK f : Computes(f, CountRead(s), S, first, step)
  <2> HIDE DEF S, first, step
  <2> QED BY <1>1, <1>3, RunExists
<1>5. /\ f = [i \in {k \in Nat : k <= CountRead(s)} |-> f[i]]
      /\ f[0] = first
      /\ \A i \in 1..CountRead(s) : f[i - 1] \in S /\ f[i] = step[<<f[i - 1], i>>]
  <2> HIDE DEF S, first, step
  <2> QED BY <1>4 DEF Computes
<1>6. f = [i \in {k \in Nat : k <= CountRead(s)} |-> IF i = 0 THEN first ELSE EntryRead(f[i - 1])]
  <2>1. ASSUME NEW i \in {k \in Nat : k <= CountRead(s)}, i # 0 PROVE f[i] = EntryRead(f[i - 1])
    <3>1. i \in 1..CountRead(s)
      BY <2>1
    <3>2. f[i - 1] \in S /\ f[i] = step[<<f[i - 1], i>>]
      BY <1>5, <3>1
    <3> HIDE DEF S
    <3> QED BY <3>1, <3>2
  <2> HIDE DEF first, step, S
  <2> QED BY <1>5, <2>1
<1>7. F = [i \in {k \in Nat : k <= CountRead(s)} |-> IF i = 0 THEN first ELSE EntryRead(F[i - 1])]
  <2> HIDE DEF first, step, S
  <2> QED BY <1>6
<1>8. ReadMap(s, map) = [F[CountRead(s)].stream EXCEPT !.got = F[CountRead(s)].map]
  BY Zenon DEF ReadMap, Run, EntryRead, EntryStream, CountRead
<1> HIDE DEF F, step, S
<1>9. F[0] = first /\ \A i \in 1..CountRead(s) : F[i] = EntryRead(F[i - 1])
  <2> HIDE DEF first
  <2>1. F[0] = first
    BY <1>7
  <2>2. ASSUME NEW i \in 1..CountRead(s) PROVE F[i] = EntryRead(F[i - 1])
    <3>1. i \in {k \in Nat : k <= CountRead(s)} /\ i # 0
      OBVIOUS
    <3> QED BY <1>7, <3>1
  <2> QED BY <2>1, <2>2
<1> QED BY <1>8, <1>9 DEF MapRun

\* The parts of a map in order of its keys, put over another.
Over(map, labels) ==
    [k \in DOMAIN map \cup DOMAIN labels |-> IF k \in DOMAIN labels THEN labels[k] ELSE map[k]]
\* A map with those of the labels over it whose keys are below p.
Filled(map, labels, p) ==
    [k \in DOMAIN map \cup {x \in DOMAIN labels : x < p} |->
        IF k \in DOMAIN labels /\ k < p THEN labels[k] ELSE map[k]]

\* Putting the entries of a map over another one by one, in the order of their keys.
LEMMA FilledIs ==
  ASSUME NEW G, NEW map \in Maps(G), NEW labels, DOMAIN labels \subseteq Byte
  PROVE  /\ Filled(map, labels, 0) = map
         /\ Filled(map, labels, Base) = Over(map, labels)
         /\ \A p \in 0..Base : Over(Filled(map, labels, p), labels) = Over(map, labels)
         /\ \A p \in Byte : Filled(map, labels, p + 1) =
                              IF p \in DOMAIN labels THEN WithEntry(Filled(map, labels, p), p, labels[p])
                              ELSE Filled(map, labels, p)
<1> DEFINE D == DOMAIN labels
           E == DOMAIN map
<1>1. Base \in Nat /\ \A k \in D : k \in 0..(Base - 1)
  BY BaseType DEF Byte
<1>2. map = [k \in E |-> map[k]]
  BY MapsAre
<1> HIDE DEF D, E
<1>3. Filled(map, labels, 0) = map
  <2>1. \A k \in D : ~(k < 0)
    BY <1>1
  <2>2. {x \in D : x < 0} = {}
    BY <2>1
  <2>3. E \cup {x \in D : x < 0} = E
    BY <2>2
  <2>4. \A k \in E : (IF k \in D /\ k < 0 THEN labels[k] ELSE map[k]) = map[k]
    BY <2>1
  <2>5. [k \in E \cup {x \in D : x < 0} |-> IF k \in D /\ k < 0 THEN labels[k] ELSE map[k]] = map
    BY <1>2, <2>3, <2>4
  <2> QED BY <2>5 DEF Filled, D, E
<1>4. Filled(map, labels, Base) = Over(map, labels)
  <2>1. \A k \in D : k < Base
    BY <1>1
  <2>2. {x \in D : x < Base} = D
    BY <2>1
  <2>3. \A k : (k \in D /\ k < Base) <=> k \in D
    BY <2>1
  <2>4. [k \in E \cup {x \in D : x < Base} |-> IF k \in D /\ k < Base THEN labels[k] ELSE map[k]]
          = [k \in E \cup D |-> IF k \in D THEN labels[k] ELSE map[k]]
    BY <2>2, <2>3
  <2> QED BY <2>4 DEF Filled, Over, D, E
<1>5. ASSUME NEW p \in 0..Base PROVE Over(Filled(map, labels, p), labels) = Over(map, labels)
  <2> DEFINE X == {x \in D : x < p}
             f == [k \in E \cup X |-> IF k \in D /\ k < p THEN labels[k] ELSE map[k]]
  <2>1. DOMAIN f = E \cup X
    OBVIOUS
  <2>2. DOMAIN f \cup D = E \cup D
    BY <2>1
  <2>3. ASSUME NEW k \in E \cup D
                 PROVE (IF k \in D THEN labels[k] ELSE f[k]) = IF k \in D THEN labels[k] ELSE map[k]
    <3>1. CASE k \in D
      BY <3>1
    <3>2. CASE k \notin D
      <4>1. f[k] = map[k]
        BY <2>3, <3>2
      <4> QED BY <3>2, <4>1
    <3> QED BY <3>1, <3>2
  <2> HIDE DEF f
  <2>4. [k \in DOMAIN f \cup D |-> IF k \in D THEN labels[k] ELSE f[k]]
          = [k \in E \cup D |-> IF k \in D THEN labels[k] ELSE map[k]]
    BY <2>2, <2>3
  <2>5. Filled(map, labels, p) = f
    BY DEF Filled, f, D, E
  <2> QED BY <2>4, <2>5 DEF Over, D, E
<1>6. ASSUME NEW p \in Byte
      PROVE  Filled(map, labels, p + 1) = IF p \in D THEN WithEntry(Filled(map, labels, p), p, labels[p])
                                          ELSE Filled(map, labels, p)
  <2> DEFINE X == {x \in D : x < p}
             Y == {x \in D : x < p + 1}
             f == [k \in E \cup X |-> IF k \in D /\ k < p THEN labels[k] ELSE map[k]]
             g == [k \in E \cup Y |-> IF k \in D /\ k < p + 1 THEN labels[k] ELSE map[k]]
  <2>1. p \in Nat /\ \A k \in D : (k < p + 1 <=> k < p \/ k = p) /\ ~(p < p)
    BY <1>1, BaseType DEF Byte
  <2>2. Filled(map, labels, p) = f /\ Filled(map, labels, p + 1) = g
    BY DEF Filled, D, E
  <2>3. CASE p \notin D
    <3>1. \A k : (k \in D /\ k < p + 1) <=> (k \in D /\ k < p)
      BY <2>1, <2>3
    <3>2. X = Y
      BY <3>1
    <3>3. f = g
      BY <3>1, <3>2
    <3> QED BY <2>2, <2>3, <3>3
  <2>4. CASE p \in D
    <3>1. \A k : (k \in D /\ k < p + 1) <=> ((k \in D /\ k < p) \/ k = p)
      BY <2>1, <2>4
    <3>2. Y = X \cup {p}
      BY <3>1
    <3>3. DOMAIN f = E \cup X
      OBVIOUS
    <3>4. E \cup Y = DOMAIN f \cup {p}
      BY <3>2, <3>3
    <3>5. ASSUME NEW k \in E \cup Y
          PROVE  (IF k \in D /\ k < p + 1 THEN labels[k] ELSE map[k]) = IF k = p THEN labels[p] ELSE f[k]
      <4>1. CASE k = p
        BY <3>1, <4>1
      <4>2. CASE k # p
        <5>1. k \in E \cup X
          BY <3>2, <3>5, <4>2
        <5>2. f[k] = IF k \in D /\ k < p THEN labels[k] ELSE map[k]
          BY <5>1
        <5> QED BY <3>1, <4>2, <5>2
      <4> QED BY <4>1, <4>2
    <3> HIDE DEF f
    <3>6. g = [k \in DOMAIN f \cup {p} |-> IF k = p THEN labels[p] ELSE f[k]]
      <4> HIDE DEF X, Y
      <4> QED BY <3>4, <3>5
    <3> QED BY <2>2, <2>4, <3>6 DEF WithEntry
  <2> QED BY <2>3, <2>4
<1> QED BY <1>3, <1>4, <1>5, <1>6 DEF D

\* The number of labels whose keys are below p.
Below(labels, p) == Cardinality({k \in DOMAIN labels : k < p})

\* Counting the keys of a map in their order.
LEMMA BelowSteps ==
  ASSUME NEW labels, DOMAIN labels \subseteq Byte
  PROVE  /\ Cardinality(DOMAIN labels) \in Nat
         /\ Below(labels, 0) = 0 /\ Below(labels, Base) = Cardinality(DOMAIN labels)
         /\ \A p \in 0..Base : Below(labels, p) \in 0..Cardinality(DOMAIN labels)
         /\ \A p \in Byte : Below(labels, p + 1) = IF p \in DOMAIN labels THEN Below(labels, p) + 1
                                                   ELSE Below(labels, p)
<1> DEFINE D == DOMAIN labels
           B(p) == {k \in D : k < p}
<1>1. Base \in Nat /\ \A k \in D : k \in 0..(Base - 1)
  BY BaseType DEF Byte
<1>2. IsFiniteSet(D)
  <2>1. IsFiniteSet(0..(Base - 1))
    BY <1>1, FS_Interval
  <2> QED BY <1>1, <2>1, FS_Subset
<1> HIDE DEF D
<1>3. Cardinality(D) \in Nat
  BY <1>2, FS_CardinalityType
<1>4. Cardinality(B(0)) = 0
  <2>1. B(0) = {}
    BY <1>1
  <2> QED BY <2>1, FS_EmptySet
<1>5. B(Base) = D
  BY <1>1
<1>6. ASSUME NEW p \in 0..Base PROVE IsFiniteSet(B(p)) /\ Cardinality(B(p)) \in 0..Cardinality(D)
  <2>1. B(p) \subseteq D
    OBVIOUS
  <2> DEFINE C == B(p)
  <2> HIDE DEF C
  <2>2. C \subseteq D
    BY <2>1 DEF C
  <2>3. IsFiniteSet(C) /\ Cardinality(C) <= Cardinality(D)
    BY <1>2, <2>2, FS_Subset
  <2>4. Cardinality(C) \in Nat
    BY <2>3, FS_CardinalityType
  <2> QED BY <1>3, <2>3, <2>4 DEF C
<1>7. ASSUME NEW p \in Byte
      PROVE  Cardinality(B(p + 1)) = IF p \in D THEN Cardinality(B(p)) + 1 ELSE Cardinality(B(p))
  <2>1. p \in Nat /\ p \in 0..Base /\ \A k \in D : (k < p + 1 <=> k < p \/ k = p) /\ ~(p < p)
    BY <1>1, BaseType DEF Byte
  <2>2. CASE p \notin D
    <3>1. B(p + 1) = B(p)
      BY <2>1, <2>2
    <3> QED BY <2>2, <3>1
  <2>3. CASE p \in D
    <3> DEFINE C == B(p)
    <3>1. B(p + 1) = C \cup {p} /\ p \notin C
      BY <2>1, <2>3
    <3>2. IsFiniteSet(C)
      BY <1>6, <2>1
    <3> HIDE DEF C
    <3>3. Cardinality(C \cup {p}) = Cardinality(C) + 1
      BY <3>1, <3>2, FS_AddElement
    <3> QED BY <2>3, <3>1, <3>3 DEF C
  <2> QED BY <2>2, <2>3
<1> QED BY <1>3, <1>4, <1>5, <1>6, <1>7 DEF Below, D

\* A map is a function.
IsMap(map) == map = [k \in DOMAIN map |-> map[k]]

\* A function is a map over what it is made of.
LEMMA MapsFrom ==
  ASSUME NEW map, IsMap(map)
  PROVE  map \in Maps(DOMAIN map \cup {map[k] : k \in DOMAIN map})
<1> DEFINE D == DOMAIN map
           G == D \cup {map[k] : k \in D}
<1>1. map \in [D -> G] /\ D \subseteq G
  <2> HIDE DEF D
  <2>1. map = [k \in D |-> map[k]]
    BY DEF IsMap, D
  <2> QED BY <2>1
<1> HIDE DEF G
<1>2. map \in Maps(G)
  BY <1>1, MapsAre
<1> QED BY <1>2 DEF G

\* A map is a function.
LEMMA MapsTo ==
  ASSUME NEW G, NEW map \in Maps(G)
  PROVE  IsMap(map)
BY MapsAre DEF IsMap

\* A map over a set is one over a larger set.
LEMMA MapsGrow ==
  ASSUME NEW G, NEW H, G \subseteq H, NEW map \in Maps(G)
  PROVE  map \in Maps(H)
<1> DEFINE D == DOMAIN map
<1>1. D \subseteq G /\ map \in [D -> G]
  BY MapsAre
<1> HIDE DEF D
<1>2. D \subseteq H /\ map \in [D -> H]
  BY <1>1
<1> QED BY <1>2, MapsAre DEF D

\* Entries read in a row, from r to u.
Entrywise(F, G, n, r, map) ==
    /\ F[0] = [stream |-> r, map |-> map]
    /\ \A i \in 1..n : F[i] = EntryRead(F[i - 1]) /\ Keeps(F[i - 1].stream, F[i].stream)
    /\ \A i \in 0..n : F[i].stream \in Streams(G) /\ F[i].map \in Maps(G) /\ Keeps(r, F[i].stream)

\* ReadMap reads one entry after the other, and all of it keeps the buffer.
LEMMA EntriesRead ==
  ASSUME Masked, NEW s, Stream(s), NEW map, IsMap(map)
  PROVE  /\ CountRead(s) \in Nat /\ Keeps(s, ReadSize(s))
         /\ \E F, G : /\ Entrywise(F, G, CountRead(s), ReadSize(s), map)
                      /\ ReadMap(s, map) = [F[CountRead(s)].stream EXCEPT !.got = F[CountRead(s)].map]
<1> DEFINE r == ReadSize(s)
           n == CountRead(s)
           H == DOMAIN map \cup {map[k] : k \in DOMAIN map}
           G == {r.got} \cup Values \cup H
<1>1. Keeps(s, r) /\ (r.ok => r.got \in Nat)
  BY SizeKeeps
<1>2. n \in Nat
  BY <1>1 DEF CountRead
<1>3. Stream(r)
  BY <1>1 DEF Keeps
<1>4. map \in Maps(H)
  BY MapsFrom
<1> HIDE DEF H
<1>5. map \in Maps(G) /\ Values \subseteq G /\ r.got \in G
  <2>1. H \subseteq G /\ Values \subseteq G /\ r.got \in G
    OBVIOUS
  <2> HIDE DEF G
  <2> QED BY <1>4, <2>1, MapsGrow
<1> HIDE DEF G
<1>6. r \in Streams(G)
  BY <1>3, <1>5, StreamIs DEF Stream
<1>7. PICK F : MapRun(F, s, map)
  BY <1>2, <1>5, <1>6, EntrySteps
<1>8. /\ F[0] = [stream |-> r, map |-> map]
      /\ \A i \in 1..n : F[i] = EntryRead(F[i - 1])
      /\ ReadMap(s, map) = [F[n].stream EXCEPT !.got = F[n].map]
  BY <1>7 DEF MapRun
<1> HIDE DEF n, r
<1> DEFINE T == {i \in 0..n : F[i].stream \in Streams(G) /\ F[i].map \in Maps(G) /\ Keeps(r, F[i].stream)}
<1>9. 0 \in T
  <2>1. Keeps(r, r)
    BY <1>3, KeepsItself
  <2>2. F[0].stream = r /\ F[0].map = map
    BY <1>8
  <2> QED BY <1>2, <1>5, <1>6, <2>1, <2>2
<1>10. ASSUME NEW i \in 1..n, F[i - 1].stream \in Streams(G), F[i - 1].map \in Maps(G)
       PROVE  F[i].stream \in Streams(G) /\ F[i].map \in Maps(G) /\ Keeps(F[i - 1].stream, F[i].stream)
  <2> DEFINE t == F[i - 1]
             x == t.stream
             b == ReadByte(x)
             v == EntryStream(x)
             m == IF v.ok THEN WithEntry(t.map, b.got, v.got) ELSE t.map
  <2>1. x \in Streams(G) /\ t.map \in Maps(G)
    BY <1>10
  <2>2. F[i].stream = v /\ F[i].map = m
    <3>1. EntryRead(t) = [stream |-> v, map |-> m]
      BY DEF EntryRead
    <3>2. F[i] = EntryRead(t)
      BY <1>8
    <3> HIDE DEF t, v, m
    <3> QED BY <3>1, <3>2
  <2> HIDE DEF x, t
  <2>3. Stream(x) /\ x.got \in G
    BY <2>1, StreamIn
  <2>4. Keeps(x, v) /\ b.got \in G /\ v.got \in G
    BY <1>5, <2>3, EntryKeeps
  <2>5. v \in Streams(G)
    BY <2>4, StreamIs DEF Keeps, Stream
  <2> HIDE DEF b, v
  <2>6. m \in Maps(G)
    BY <2>1, <2>4, WithEntryType
  <2> QED BY <2>2, <2>4, <2>5, <2>6 DEF x, t
<1>11. \A i \in 0..n : i \in T
  <2>1. ASSUME NEW i \in 1..n, i - 1 \in T PROVE i \in T
    <3>1. F[i - 1].stream \in Streams(G) /\ F[i - 1].map \in Maps(G) /\ Keeps(r, F[i - 1].stream)
      BY <2>1
    <3>2. F[i].stream \in Streams(G) /\ F[i].map \in Maps(G) /\ Keeps(F[i - 1].stream, F[i].stream)
      BY <1>10, <3>1
    <3>3. Keeps(r, F[i].stream)
      BY <3>1, <3>2, KeepsThen
    <3> QED BY <3>2, <3>3
  <2> HIDE DEF T
  <2> QED BY <1>2, <1>9, <2>1, StepInduction
<1>12. \A i \in 1..n : Keeps(F[i - 1].stream, F[i].stream)
  <2>1. ASSUME NEW i \in 1..n PROVE Keeps(F[i - 1].stream, F[i].stream)
    <3>1. i - 1 \in 0..n
      BY <1>2
    <3>2. F[i - 1].stream \in Streams(G) /\ F[i - 1].map \in Maps(G)
      BY <1>11, <3>1
    <3> QED BY <1>10, <3>2
  <2> QED BY <2>1
<1>13. Entrywise(F, G, n, r, map)
  BY <1>8, <1>11, <1>12 DEF Entrywise
<1> QED BY <1>1, <1>2, <1>8, <1>13 DEF n, r

\* Where a code comes next its beginning does.
LEMMA HoldsPrefix ==
  ASSUME NEW s, NEW c1 \in Seq(Byte), NEW c2 \in Seq(Byte), Holds(s, Join(c1, c2))
  PROVE  Holds(s, c1)
<1> DEFINE c == Join(c1, c2)
<1>1. IsJoin(c, c1, c2) /\ Len(c1) \in Nat /\ Len(c2) \in Nat
  BY JoinIs
<1> HIDE DEF c
<1>2. Len(c) = Len(c1) + Len(c2) /\ \A i \in 1..Len(c1) : c[i] = c1[i]
  BY <1>1 DEF IsJoin
<1>3. \A i \in 1..Len(c1) : i \in 1..Len(c)
  BY <1>1, <1>2
<1>4. Holds(s, c)
  BY DEF c
<1> QED BY <1>2, <1>3, <1>4 DEF Holds

\* Behind the first of two codes comes the second.
LEMMA HoldsNext ==
  ASSUME NEW s, Stream(s), NEW t, NEW c1 \in Seq(Byte), NEW c2 \in Seq(Byte), NEW v1,
         Keeps(s, t), Finds(s, t, c1, v1), s.ok, Holds(s, Join(c1, c2)), t.ok
  PROVE  Holds(t, c2)
<1> DEFINE c == Join(c1, c2)
           p == s.buf.m_posRead
           n1 == Len(c1)
           n2 == Len(c2)
<1>1. IsJoin(c, c1, c2) /\ n1 \in Nat /\ n2 \in Nat
  BY JoinIs
<1>2. p \in Nat /\ s.buf.m_size \in Nat
  BY StreamFields DEF Stream
<1>3. Holds(s, c1)
  BY HoldsPrefix
<1> HIDE DEF c
<1>4. Len(c) = n1 + n2 /\ \A i \in 1..n2 : c[n1 + i] = c2[i]
  BY <1>1 DEF IsJoin
<1>5. t.buf.m_posRead = p + n1
  BY <1>3 DEF Finds
<1>6. t.buf.m_size = s.buf.m_size /\ t.buf.m_internal = s.buf.m_internal
  BY DEF Keeps
<1>7. \A i \in 1..(n1 + n2) : p + i <= s.buf.m_size => s.buf.m_internal[p + i] = c[i]
  BY <1>4 DEF Holds, c
<1>8. ASSUME NEW i \in 1..n2, (p + n1) + i <= s.buf.m_size PROVE s.buf.m_internal[(p + n1) + i] = c2[i]
  <2>1. n1 + i \in 1..(n1 + n2) /\ p + (n1 + i) = (p + n1) + i
    BY <1>1, <1>2
  <2> QED BY <1>4, <1>7, <1>8, <2>1
<1> QED BY <1>5, <1>6, <1>8 DEF Holds

\* A size that was read is the one that comes next.
LEMMA SizeFound ==
  ASSUME Masked, NEW s, Stream(s), NEW size \in Nat, NEW body \in Seq(Byte),
         NEW w, w = s.containerSizeBytes, size < Power(Base, w),
         s.ok, Holds(s, Join(Number(size, w), body)), ReadSize(s).ok
  PROVE  ReadSize(s).got = size /\ Holds(ReadSize(s), body)
<1> DEFINE r == ReadScalar(s, w)
           t == ReadSize(s)
           code == Number(size, w)
<1>1. w \in {1, 2, 4}
  BY StreamFields DEF Stream
<1>2. code \in Seq(Byte)
  BY <1>1, NumberType
<1>3. Finds(s, r, code, size) /\ Keeps(s, r)
  BY <1>1, ScalarFinds, ScalarKeeps
<1>4. Stream(r)
  BY <1>3 DEF Keeps
<1>5. t = IF r.ok /\ r.got > RemainRead(r.buf) THEN Throw(r) ELSE r
  BY DEF ReadSize
<1> HIDE DEF r, code
<1>6. ~Throw(r).ok
  BY <1>4, KeepsItself
<1>7. t = r /\ r.ok
  <2> HIDE DEF t
  <2>1. t.ok
    BY DEF t
  <2> QED BY <1>5, <1>6, <2>1
<1>8. Holds(s, Join(code, body))
  BY DEF code
<1>9. Holds(s, code)
  BY <1>2, <1>8, HoldsPrefix
<1>10. r.got = size
  BY <1>3, <1>7, <1>9 DEF Finds
<1>11. Holds(r, body)
  BY <1>2, <1>3, <1>7, <1>8, HoldsNext
<1> QED BY <1>7, <1>10, <1>11

\* Whatever the bytes are, reading a map keeps the buffer.
LEMMA MapKeeps ==
  ASSUME Masked, NEW s, Stream(s), NEW map, IsMap(map)
  PROVE  Keeps(s, ReadMap(s, map)) /\ IsMap(ReadMap(s, map).got) /\ (~s.ok => ReadMap(s, map).got = map)
<1> DEFINE r == ReadSize(s)
           n == CountRead(s)
           u == ReadMap(s, map)
<1>1. n \in Nat /\ Keeps(s, r)
  BY EntriesRead
<1>2. PICK F, G : Entrywise(F, G, n, r, map) /\ u = [F[n].stream EXCEPT !.got = F[n].map]
  BY EntriesRead
<1>3. ~s.ok => n = 0
  BY <1>1 DEF CountRead, Keeps
<1> HIDE DEF r, n, u
<1> DEFINE t == F[n].stream
           m == F[n].map
<1>4. t \in Streams(G) /\ m \in Maps(G) /\ Keeps(r, t) /\ (n = 0 => m = map)
  <2>1. n \in 0..n
    BY <1>1
  <2>2. n = 0 => m = map
    BY <1>2 DEF Entrywise
  <2> QED BY <1>2, <2>1, <2>2 DEF Entrywise
<1>5. u = [t EXCEPT !.got = m]
  BY <1>2
<1> HIDE DEF t, m
<1>6. IsMap(m) /\ Keeps(s, t)
  BY <1>1, <1>4, MapsTo, KeepsThen
<1> DEFINE d == [t EXCEPT !.got = m]
<1>7. /\ d \in Streams({m}) /\ d.got = m /\ d.buf = t.buf /\ d.ok = t.ok
      /\ d.containerSizeBytes = t.containerSizeBytes /\ d.m_userData = t.m_userData
  BY <1>4, WithGot
<1>8. u = d
  BY <1>5
<1> HIDE DEF d
<1>9. Keeps(s, u) /\ u.got = m
  BY <1>6, <1>7, <1>8 DEF Keeps, Stream
<1> QED BY <1>3, <1>4, <1>6, <1>9 DEF u

\* What is known when the entries of the keys below p were read.
ReadUpto(r, t, code, map, labels, p) ==
    /\ Finds(r, t.stream, code, t.stream.got)
    /\ r.ok /\ Holds(r, code)
         => \E q \in 0..p : t.map = Filled(map, labels, q) /\ (t.stream.ok => q = p)

\* Before the first entry.
LEMMA ReadUptoNone ==
  ASSUME NEW r, Stream(r), r.ok => r.buf.m_posRead <= r.buf.m_size, NEW G, NEW map \in Maps(G),
         NEW labels, DOMAIN labels \subseteq Byte, NEW t, t = [stream |-> r, map |-> map]
  PROVE  ReadUpto(r, t, << >>, map, labels, 0)
<1>1. t.stream = r /\ t.map = map
  OBVIOUS
<1>2. Finds(r, r, << >>, r.got)
  BY FindsNothing
<1>3. map = Filled(map, labels, 0) /\ 0 \in 0..0
  BY FilledIs
<1> QED BY <1>1, <1>2, <1>3 DEF ReadUpto

\* One entry more.
LEMMA ReadUptoNext ==
  ASSUME Masked, NEW r, Stream(r), NEW G, NEW map \in Maps(G), NEW labels,
         labels \in [DOMAIN labels -> Seq(Byte)], DOMAIN labels \subseteq Byte, NEW p \in Byte,
         NEW w, w = r.containerSizeBytes, \A key \in DOMAIN labels : Len(labels[key]) < Power(Base, w),
         NEW t, Keeps(r, t.stream), NEW code \in Seq(Byte), ReadUpto(r, t, code, map, labels, p),
           p \in DOMAIN labels
  PROVE  ReadUpto(r, EntryRead(t), Join(code, Join(<<p>>, Counted(labels[p], w))), map, labels, p + 1)
<1> DEFINE x == t.stream
           b == ReadByte(x)
           v == EntryStream(x)
           str == labels[p]
           c1 == <<p>>
           c2 == Counted(str, w)
           c == Join(c1, c2)
           u == EntryRead(t)
<1>1. Stream(x) /\ x.containerSizeBytes = w
  BY DEF Keeps
<1>2. str \in Seq(Byte) /\ Len(str) < Power(Base, w) /\ w \in {1, 2, 4}
  BY StreamFields DEF Stream
<1>3. u.stream = v /\ u.map = IF v.ok THEN WithEntry(t.map, b.got, v.got) ELSE t.map
  BY DEF EntryRead
<1> HIDE DEF u, str
<1>4. c \in Seq(Byte)
  <2>1. c1 \in Seq(Byte) /\ c2 \in Seq(Byte)
    BY <1>2, ByteNumber, CountedType
  <2> HIDE DEF c1, c2
  <2> QED BY <2>1, JoinType
<1>5. Keeps(x, v)
  BY <1>1, EntryKeeps
<1>6. Finds(x, v, c, str) /\ (x.ok /\ Holds(x, c) /\ v.ok => b.got = p)
  <2> HIDE DEF x
  <2>1. /\ Finds(x, EntryStream(x), Join(<<p>>, Counted(str, x.containerSizeBytes)), str)
        /\ x.ok /\ Holds(x, Join(<<p>>, Counted(str, x.containerSizeBytes))) /\ EntryStream(x).ok
             => ReadByte(x).got = p
    BY <1>1, <1>2, EntryFinds
  <2> QED BY <1>1, <2>1
<1>7. Finds(r, x, code, x.got) /\ Keeps(r, x)
  BY DEF ReadUpto
<1> HIDE DEF x, b, v, c
<1>8. Finds(r, v, Join(code, c), str)
  BY <1>4, <1>5, <1>6, <1>7, FindsThen
<1>9. ASSUME r.ok, Holds(r, Join(code, c))
      PROVE  \E q \in 0..(p + 1) : u.map = Filled(map, labels, q) /\ (v.ok => q = p + 1)
  <2>1. Holds(r, code)
    BY <1>4, <1>9, HoldsPrefix
  <2>2. PICK q \in 0..p : t.map = Filled(map, labels, q) /\ (x.ok => q = p)
    BY <1>9, <2>1 DEF ReadUpto, x
  <2>3. p \in Nat /\ q \in 0..(p + 1) /\ p + 1 \in 0..(p + 1)
    <3>1. p \in Nat
      BY BaseType DEF Byte
    <3> QED BY <2>2, <3>1
  <2>4. CASE ~v.ok
    BY <1>3, <2>2, <2>3, <2>4
  <2>5. CASE v.ok
    <3>1. x.ok
      BY <1>5, <2>5 DEF Keeps
    <3>2. Holds(x, c)
      BY <1>4, <1>7, <1>9, <3>1, HoldsNext
    <3>3. b.got = p /\ v.got = str
      BY <1>6, <2>5, <3>1, <3>2 DEF Finds
    <3>4. u.map = WithEntry(Filled(map, labels, p), p, labels[p])
      BY <1>3, <2>2, <2>5, <3>1, <3>3 DEF str
    <3>5. u.map = Filled(map, labels, p + 1)
      BY <3>4, FilledIs
    <3> QED BY <2>3, <3>5
  <2> QED BY <2>4, <2>5
<1>10. Finds(r, v, Join(code, c), v.got)
  BY <1>8 DEF Finds
<1>11. ReadUpto(r, u, Join(code, c), map, labels, p + 1)
  BY <1>3, <1>9, <1>10 DEF ReadUpto
<1> QED BY <1>11 DEF u, c, str

\* A key without an entry.
LEMMA ReadUptoSame ==
  ASSUME NEW r, NEW G, NEW map \in Maps(G), NEW labels, DOMAIN labels \subseteq Byte, NEW p \in Byte,
         NEW t, t.stream.ok \in BOOLEAN, NEW code \in Seq(Byte), ReadUpto(r, t, code, map, labels, p),
         p \notin DOMAIN labels
  PROVE  ReadUpto(r, t, Join(code, << >>), map, labels, p + 1)
<1>1. Join(code, << >>) = code
  BY JoinNothing
<1>2. ASSUME r.ok, Holds(r, code)
      PROVE  \E q \in 0..(p + 1) : t.map = Filled(map, labels, q) /\ (t.stream.ok => q = p + 1)
  <2>1. PICK q \in 0..p : t.map = Filled(map, labels, q) /\ (t.stream.ok => q = p)
    BY <1>2 DEF ReadUpto
  <2>2. p \in Nat
    BY BaseType DEF Byte
  <2>3. Filled(map, labels, p + 1) = Filled(map, labels, p)
    BY FilledIs
  <2>4. CASE t.stream.ok
    <3>1. p + 1 \in 0..(p + 1) /\ t.map = Filled(map, labels, p + 1)
      BY <2>1, <2>2, <2>3, <2>4
    <3> QED BY <3>1
  <2>5. CASE ~t.stream.ok
    <3>1. q \in 0..(p + 1)
      BY <2>1, <2>2
    <3> QED BY <2>1, <2>5, <3>1
  <2> QED BY <2>4, <2>5
<1> QED BY <1>1, <1>2 DEF ReadUpto

\* From r to u the entries were read over a map; what an exception leaves of them shows
\* nothing else after a second try.
FindsEntries(r, u, map, labels, w) ==
    /\ Finds(r, u, Concat(Entries(labels, w)), Over(map, labels))
    /\ r.ok /\ Holds(r, Concat(Entries(labels, w))) => Over(u.got, labels) = Over(map, labels)

\* Entries that come next are read over what the map held, and those read before an
\* exception do not matter to a second try.
LEMMA EntriesFind ==
  ASSUME Masked, NEW r, Stream(r), r.ok => r.buf.m_posRead <= r.buf.m_size, NEW map, NEW labels,
         labels \in [DOMAIN labels -> Seq(Byte)], DOMAIN labels \subseteq Byte,
         NEW w, w = r.containerSizeBytes, \A key \in DOMAIN labels : Len(labels[key]) < Power(Base, w),
         NEW n \in Nat, n = Cardinality(DOMAIN labels), NEW F, NEW G, Entrywise(F, G, n, r, map),
         NEW u, u = [F[n].stream EXCEPT !.got = F[n].map]
  PROVE  FindsEntries(r, u, map, labels, w)
<1> DEFINE codes == Entries(labels, w)
           j(p) == Below(labels, p)
<1>0. w \in {1, 2, 4} /\ Base \in Nat
  BY StreamFields, BaseType DEF Stream
<1>1. \A i \in 1..Base : codes[i] = EntryCode(labels, w, i) /\ codes[i] \in Seq(Byte)
  BY <1>0, EntryCodeType DEF Entries
<1>2. codes \in [1..Base -> Seq(Byte)]
  BY <1>1 DEF Entries
<1> HIDE DEF codes
<1>3. PICK f \in [0..Base -> Seq(Byte)] : Concats(f, codes, Base)
  BY <1>0, <1>2, ConcatSteps
<1>4. f[0] = << >> /\ Concat(codes) = f[Base] /\ \A i \in 1..Base : f[i] = Join(f[i - 1], codes[i])
  BY <1>3 DEF Concats
<1>5. /\ F[0] = [stream |-> r, map |-> map]
      /\ \A i \in 1..n : F[i] = EntryRead(F[i - 1])
      /\ \A i \in 0..n : F[i].stream \in Streams(G) /\ F[i].map \in Maps(G) /\ Keeps(r, F[i].stream)
  BY DEF Entrywise
<1>6. map \in Maps(G)
  <2>1. F[0].map = map
    BY <1>5
  <2> QED BY <1>5, <2>1
<1>7. /\ j(0) = 0 /\ j(Base) = n
      /\ \A p \in 0..Base : j(p) \in 0..n
      /\ \A p \in Byte : j(p + 1) = IF p \in DOMAIN labels THEN j(p) + 1 ELSE j(p)
  BY BelowSteps
<1> HIDE DEF j
<1> DEFINE T == {p \in 0..Base : ReadUpto(r, F[j(p)], f[p], map, labels, p)}
<1>8. 0 \in T
  <2>1. ReadUpto(r, F[0], << >>, map, labels, 0)
    <3> DEFINE t == F[0]
    <3>1. t = [stream |-> r, map |-> map]
      BY <1>5
    <3> HIDE DEF t
    <3>2. ReadUpto(r, t, << >>, map, labels, 0)
      BY <1>6, <3>1, ReadUptoNone
    <3> QED BY <3>2 DEF t
  <2> QED BY <1>0, <1>4, <1>7, <2>1
<1>9. ASSUME NEW i \in 1..Base, i - 1 \in T PROVE i \in T
  <2> DEFINE p == i - 1
             k == j(p)
             t == F[k]
             c == f[p]
  <2>0. p \in Byte /\ p \in 0..Base /\ p + 1 = i
    BY <1>0 DEF Byte
  <2>1. /\ k \in 0..n /\ c \in Seq(Byte) /\ f[i] = Join(c, codes[i])
        /\ j(i) = IF p \in DOMAIN labels THEN k + 1 ELSE k
        /\ codes[i] = EntryCode(labels, w, i)
    BY <1>1, <1>4, <1>7, <2>0
  <2>2. ReadUpto(r, t, c, map, labels, p)
    BY <1>9
  <2> HIDE DEF p
  <2>3. t.stream \in Streams(G) /\ Keeps(r, t.stream)
    BY <1>5, <2>1
  <2>4. CASE p \in DOMAIN labels
    <3>1. j(i) = k + 1 /\ j(i) \in 0..n
      BY <1>7, <2>1, <2>4
    <3>2. F[k + 1] = EntryRead(t)
      <4>1. k + 1 \in 1..n /\ (k + 1) - 1 = k
        BY <2>1, <3>1
      <4> QED BY <1>5, <4>1
    <3>3. codes[i] = Join(<<p>>, Counted(labels[p], w))
      <4>1. EntryCode(labels, w, i) = Join(<<i - 1>>, Counted(labels[i - 1], w))
        BY <1>0, <2>4, EntryCodeType DEF p
      <4> QED BY <2>1, <4>1 DEF p
    <3> HIDE DEF t, c, k
    <3>4. ReadUpto(r, EntryRead(t), Join(c, Join(<<p>>, Counted(labels[p], w))), map, labels, p + 1)
      BY <1>6, <2>0, <2>1, <2>2, <2>3, <2>4, ReadUptoNext
    <3>5. ReadUpto(r, F[j(i)], f[i], map, labels, i)
      BY <2>0, <2>1, <3>1, <3>2, <3>3, <3>4
    <3> QED BY <3>5
  <2>5. CASE p \notin DOMAIN labels
    <3>1. codes[i] = << >>
      BY <2>1, <2>5 DEF EntryCode, p
    <3>2. t.stream.ok \in BOOLEAN
      BY <2>3, StreamFields
    <3>3. F[j(i)] = t
      BY <2>1, <2>5
    <3> HIDE DEF t, c, k
    <3>4. ReadUpto(r, t, Join(c, << >>), map, labels, p + 1)
      BY <1>6, <2>0, <2>1, <2>2, <2>5, <3>2, ReadUptoSame
    <3>5. ReadUpto(r, F[j(i)], f[i], map, labels, i)
      BY <2>0, <2>1, <3>1, <3>3, <3>4
    <3> QED BY <3>5
  <2> QED BY <2>4, <2>5
<1>10. Base \in T
  <2> HIDE DEF T
  <2>1. \A i \in 0..Base : i \in T
    BY <1>0, <1>8, <1>9, StepInduction
  <2> QED BY <1>0, <2>1
<1> DEFINE t == F[n].stream
           m == F[n].map
           code == Concat(codes)
           all == Over(map, labels)
<1>11. ReadUpto(r, F[n], code, map, labels, Base)
  BY <1>4, <1>7, <1>10
<1>12. /\ Finds(r, t, code, t.got)
       /\ r.ok /\ Holds(r, code) => \E q \in 0..Base : m = Filled(map, labels, q) /\ (t.ok => q = Base)
  BY <1>11 DEF ReadUpto
<1>13. t \in Streams(G)
  <2>1. n \in 0..n
    OBVIOUS
  <2> QED BY <1>5, <2>1
<1>14. Filled(map, labels, Base) = all /\ \A q \in 0..Base : Over(Filled(map, labels, q), labels) = all
  BY <1>6, FilledIs
<1>15. u = [t EXCEPT !.got = m]
  OBVIOUS
<1> HIDE DEF t, m, code, all
<1> DEFINE d == [t EXCEPT !.got = m]
<1>16. d.got = m /\ d.buf = t.buf /\ d.ok = t.ok
  BY <1>13, WithGot
<1>17. u = d
  BY <1>15
<1> HIDE DEF d
<1>18. Finds(r, u, code, all)
  BY <1>12, <1>14, <1>16, <1>17 DEF Finds
<1>19. r.ok /\ Holds(r, code) => Over(u.got, labels) = all
  BY <1>12, <1>14, <1>16, <1>17
<1> QED BY <1>18, <1>19 DEF code, codes, all, FindsEntries

\* The entries are not shorter than their number.
LEMMA EntriesLength ==
  ASSUME NEW labels, labels \in [DOMAIN labels -> Seq(Byte)], DOMAIN labels \subseteq Byte,
           NEW w \in {1, 2, 4}
  PROVE  /\ Concat(Entries(labels, w)) \in Seq(Byte)
        
         /\ Cardinality(DOMAIN labels) \in Nat /\ Cardinality(DOMAIN labels) <= Len(Concat(Entries(labels, w)))
         /\ \A key \in DOMAIN labels : Len(labels[key]) < Len(Concat(Entries(labels, w)))
<1> DEFINE codes == Entries(labels, w)
           j(p) == Below(labels, p)
           n == Cardinality(DOMAIN labels)
<1>0. Base \in Nat
  BY BaseType
<1>1. \A i \in 1..Base : /\ codes[i] = EntryCode(labels, w, i) /\ codes[i] \in Seq(Byte)
                         /\ i - 1 \in DOMAIN labels => Len(codes[i]) = 1 + (w + Len(labels[i - 1]))
  BY EntryCodeType DEF Entries
<1>2. codes \in [1..Base -> Seq(Byte)]
  BY <1>1 DEF Entries
<1> HIDE DEF codes
<1>3. PICK f \in [0..Base -> Seq(Byte)] : Concats(f, codes, Base)
  BY <1>0, <1>2, ConcatSteps
<1>4. f[0] = << >> /\ Concat(codes) = f[Base] /\ \A i \in 1..Base : f[i] = Join(f[i - 1], codes[i])
  BY <1>3 DEF Concats
<1>7. /\ j(0) = 0 /\ j(Base) = n /\ n \in Nat
      /\ \A p \in 0..Base : j(p) \in 0..n
      /\ \A p \in Byte : j(p + 1) = IF p \in DOMAIN labels THEN j(p) + 1 ELSE j(p)
  BY BelowSteps
<1> HIDE DEF j, n
<1> DEFINE T == {p \in 0..Base : j(p) <= Len(f[p])}
<1>8. 0 \in T
  BY <1>0, <1>4, <1>7
<1>9. ASSUME NEW i \in 1..Base, i - 1 \in T PROVE i \in T
  <2> DEFINE p == i - 1
             a == f[p]
             c == codes[i]
  <2>0. p \in Byte /\ p \in 0..Base /\ p + 1 = i
    BY <1>0 DEF Byte
  <2>1. /\ a \in Seq(Byte) /\ c \in Seq(Byte) /\ f[i] = Join(a, c)
        /\ j(i) = IF p \in DOMAIN labels THEN j(p) + 1 ELSE j(p)
        /\ j(p) <= Len(a) /\ j(p) \in Nat
    BY <1>1, <1>4, <1>7, <1>9, <2>0
  <2>2. p \in DOMAIN labels => Len(c) >= 1
    <3>1. SUFFICES ASSUME p \in DOMAIN labels PROVE Len(c) >= 1
      OBVIOUS
    <3> DEFINE l == Len(labels[p])
    <3>2. Len(c) = 1 + (w + l) /\ l \in Nat
      BY <1>1, <3>1
    <3> HIDE DEF l
    <3> QED BY <3>2
  <2> HIDE DEF a, c, p
  <2>a. a \in Seq(Byte) /\ c \in Seq(Byte)
    BY <2>1
  <2>b. Len(a) \in Nat /\ Len(c) \in Nat
    BY <2>a
  <2>c. Len(Join(a, c)) = Len(a) + Len(c)
    BY <2>a, JoinType
  <2>3. Len(Join(a, c)) = Len(a) + Len(c) /\ Len(a) \in Nat /\ Len(c) \in Nat
    BY <2>b, <2>c
  <2>4. j(i) <= Len(f[i])
    BY <2>1, <2>2, <2>3
  <2> QED BY <2>4
<1>10. Base \in T
  <2> HIDE DEF T
  <2>1. \A i \in 0..Base : i \in T
    BY <1>0, <1>8, <1>9, StepInduction
  <2> QED BY <1>0, <2>1
<1>11. n <= Len(Concat(codes)) /\ Concat(codes) \in Seq(Byte)
  <2>1. Concat(codes) \in Seq(Byte)
    BY <1>0, <1>2, ConcatType
  <2> QED BY <1>4, <1>7, <1>10, <2>1
<1>12. ASSUME NEW key \in DOMAIN labels PROVE Len(labels[key]) < Len(Concat(codes))
  <2> DEFINE i == key + 1
             l == Len(labels[key])
             c == codes[i]
             z == Concat(codes)
  <2>1. i \in 1..Base /\ i - 1 = key /\ l \in Nat
    BY <1>0 DEF Byte
  <2>2. Len(c) = 1 + (w + l)
    BY <1>1, <2>1
  <2>3. Len(c) <= Len(z)
    <3> HIDE DEF i
    <3> QED BY <1>0, <1>2, <2>1, ConcatLength
  <2>4. Len(z) \in Nat
    BY <1>11
  <2> HIDE DEF c, l, z
  <2>5. l < Len(z)
    BY <2>1, <2>2, <2>3, <2>4
  <2> QED BY <2>5 DEF l, z
<1> QED BY <1>7, <1>11, <1>12 DEF codes, n

\* A map that comes next is read over what the map held, and a second try shows the same.
LEMMA MapFinds ==
  ASSUME Masked, NEW s, Stream(s), NEW map, IsMap(map), NEW labels,
         labels \in [DOMAIN labels -> Seq(Byte)], DOMAIN labels \subseteq Byte,
         MapFits(labels, s.containerSizeBytes)
  PROVE  LET code == Join(Number(Cardinality(DOMAIN labels), s.containerSizeBytes),
                          Concat(Entries(labels, s.containerSizeBytes)))
         IN  /\ Finds(s, ReadMap(s, map), code, Over(map, labels))
             /\ s.ok /\ Holds(s, code) => Over(ReadMap(s, map).got, labels) = Over(map, labels)
<1> DEFINE r == ReadSize(s)
           u == ReadMap(s, map)
           w == s.containerSizeBytes
           size == Cardinality(DOMAIN labels)
           body == Concat(Entries(labels, w))
           all == Over(map, labels)
           n == CountRead(s)
<1>0. w \in {1, 2, 4}
  BY StreamFields DEF Stream
<1>1. size \in Nat /\ body \in Seq(Byte) /\ size <= Len(body)
  BY <1>0, EntriesLength
<1>2. size < Power(Base, w) /\ \A key \in DOMAIN labels : Len(labels[key]) < Power(Base, w)
  BY DEF MapFits
<1>3. n \in Nat /\ Keeps(s, r)
  BY EntriesRead
<1>4. PICK F, G : Entrywise(F, G, n, r, map) /\ u = [F[n].stream EXCEPT !.got = F[n].map]
  BY EntriesRead
<1>5. Stream(r) /\ r.containerSizeBytes = w
  BY <1>3 DEF Keeps
<1>6. (r.ok => n = r.got) /\ (~r.ok => n = 0)
  BY DEF CountRead
<1>7. r.ok => r.buf.m_posRead <= r.buf.m_size
  BY SizeLeft
<1>8. r.ok \in BOOLEAN
  BY <1>5, StreamFields DEF Stream
<1> HIDE DEF r, u, size, n, body, all
<1>9. ASSUME r.ok, r.got = size
      PROVE  Finds(r, u, body, all) /\ (Holds(r, body) => Over(u.got, labels) = all)
  <2>1. n = Cardinality(DOMAIN labels)
    BY <1>6, <1>9 DEF size
  <2> HIDE DEF w
  <2>3. w = r.containerSizeBytes /\ \A key \in DOMAIN labels : Len(labels[key]) < Power(Base, w)
    BY <1>2, <1>5
  <2>4. Entrywise(F, G, n, r, map)
    BY <1>4
  <2>5. u = [F[n].stream EXCEPT !.got = F[n].map]
    BY <1>4
  <2>2. FindsEntries(r, u, map, labels, w)
    BY <1>3, <1>5, <1>7, <2>1, <2>3, <2>4, <2>5, EntriesFind
  <2> QED BY <1>9, <2>2 DEF body, all, FindsEntries
<1>10. Keeps(r, u) /\ (~r.ok => u.got = map)
  <2> DEFINE t == F[n].stream
             m == F[n].map
             d == [t EXCEPT !.got = m]
  <2>1. t \in Streams(G) /\ Keeps(r, t) /\ (n = 0 => m = map)
    <3>1. n \in 0..n
      BY <1>3
    <3>2. n = 0 => m = map
      BY <1>4 DEF Entrywise
    <3> QED BY <1>4, <3>1, <3>2 DEF Entrywise
  <2>2. u = d
    BY <1>4
  <2> HIDE DEF t, m
  <2>3. /\ d \in Streams({m}) /\ d.got = m /\ d.buf = t.buf /\ d.ok = t.ok
        /\ d.containerSizeBytes = t.containerSizeBytes /\ d.m_userData = t.m_userData
    BY <2>1, WithGot
  <2> HIDE DEF d
  <2> QED BY <1>6, <2>1, <2>2, <2>3 DEF Keeps, Stream
<1> DEFINE code == Join(Number(size, w), body)
<1>11. Finds(s, u, code, all)
  <2> HIDE DEF w
  <2>1. Keeps(ReadSize(s), u)
    BY <1>10 DEF r
  <2>2. ReadSize(s).ok /\ ReadSize(s).got = size => Finds(ReadSize(s), u, body, all)
    BY <1>9 DEF r
  <2>3. w = s.containerSizeBytes
    BY DEF w
  <2> QED BY <1>1, <1>2, <2>1, <2>2, <2>3, SizedFinds
<1>12. ASSUME s.ok, Holds(s, code) PROVE Over(u.got, labels) = all
  <2>1. CASE ~r.ok
    BY <1>10, <2>1 DEF all
  <2>2. CASE r.ok
    <3> HIDE DEF w
    <3>1. w = s.containerSizeBytes /\ ReadSize(s).ok /\ s.ok /\ Holds(s, Join(Number(size, w), body))
      BY <1>12, <2>2 DEF w, r
    <3>2. ReadSize(s).got = size /\ Holds(ReadSize(s), body)
      BY <1>1, <1>2, <3>1, SizeFound
    <3> QED BY <1>9, <2>2, <3>2 DEF r
  <2> QED BY <1>8, <2>1, <2>2
<1> QED BY <1>11, <1>12 DEF u, size, body, all, w

-----------------------------------------------------------------------------
(* A message.                                                              *)

\* The guard leaves the width as it was, whatever was read under it.
LEMMA GuardedKeeps ==
  ASSUME NEW s, Stream(s), NEW size \in {1, 4}, NEW t, Keeps(Widened(s, size), t)
  PROVE  Keeps(s, Release(t, s.containerSizeBytes))
<1> DEFINE w == Widened(s, size)
           n == s.containerSizeBytes
           u == Release(t, n)
<1>1. /\ n \in {1, 4} /\ w.buf = s.buf /\ w.ok = s.ok /\ w.m_userData = s.m_userData
  BY WithWidth, StreamFields DEF Stream
<1>2. u = Widened(t, n)
  BY DEF Release, Widened
<1>3. Stream(t)
  BY DEF Keeps
<1> HIDE DEF w, n, u
<1>4. /\ u \in Streams({t.got}) /\ u.containerSizeBytes = n /\ u.buf = t.buf /\ u.ok = t.ok
      /\ u.got = t.got /\ u.m_userData = t.m_userData
  BY <1>1, <1>2, <1>3, WithWidth DEF Stream
<1>5. Keeps(w, t)
  BY DEF w
<1>6. Keeps(s, u)
  BY <1>1, <1>4, <1>5 DEF Keeps, Stream, n
<1> QED BY <1>6 DEF u, n

\* What is found under the guard is found.
LEMMA GuardedFinds ==
  ASSUME NEW s, Stream(s), NEW size \in {1, 4}, NEW t, Keeps(Widened(s, size), t), NEW code, NEW value,
         Finds(Widened(s, size), t, code, value)
  PROVE  Finds(s, Release(t, s.containerSizeBytes), code, value)
<1> DEFINE w == Widened(s, size)
           n == s.containerSizeBytes
           u == Release(t, n)
<1>1. /\ n \in {1, 4} /\ w.buf = s.buf /\ w.ok = s.ok
  BY WithWidth, StreamFields DEF Stream
<1>2. u = Widened(t, n)
  BY DEF Release, Widened
<1>3. Stream(t)
  BY DEF Keeps
<1> HIDE DEF w, n, u
<1>4. u.buf = t.buf /\ u.ok = t.ok /\ u.got = t.got
  BY <1>1, <1>2, <1>3, WithWidth DEF Stream
<1>5. Finds(w, t, code, value)
  BY DEF w
<1>6. Finds(s, u, code, value)
  BY <1>1, <1>4, <1>5 DEF Finds, Holds
<1> QED BY <1>6 DEF u, n

\* The words as a message reads them.
WordsRead(t) == Release(ReadVector(Widened(t, 1)), t.containerSizeBytes)

\* Whatever the bytes are, reading the words keeps the buffer.
LEMMA WordsKeep ==
  ASSUME Masked, NEW s, Stream(s)
  PROVE  Keeps(s, WordsRead(s))
<1> DEFINE w == Widened(s, 1)
<1>1. Stream(w)
  BY WithWidth, StreamIs DEF Stream
<1> HIDE DEF w
<1>2. Keeps(w, ReadVector(w))
  BY <1>1, VectorKeeps
<1> QED BY <1>2, GuardedKeeps DEF WordsRead, w

\* Words that come next are read, with sizes of one byte.
LEMMA WordsFind ==
  ASSUME Masked, NEW s, Stream(s), NEW strings \in Seq(Seq(Byte)), VectorFits(strings, 1)
  PROVE  Finds(s, WordsRead(s), Join(Number(Len(strings), 1), Concat(Elements(strings, 1))), strings)
<1> DEFINE w == Widened(s, 1)
           code == Join(Number(Len(strings), 1), Concat(Elements(strings, 1)))
<1>1. Stream(w) /\ w.containerSizeBytes = 1
  BY WithWidth, StreamIs DEF Stream
<1> HIDE DEF w
<1>2. Keeps(w, ReadVector(w))
  BY <1>1, VectorKeeps
<1>3. Finds(w, ReadVector(w), code, strings)
  <2> DEFINE n == w.containerSizeBytes
  <2>1. n = 1 /\ VectorFits(strings, n)
    BY <1>1
  <2>2. Finds(w, ReadVector(w), Join(Number(Len(strings), n), Concat(Elements(strings, n))), strings)
    BY <1>1, <2>1, VectorFinds
  <2> QED BY <2>1, <2>2
<1> HIDE DEF code
<1>4. Finds(s, WordsRead(s), code, strings)
  BY <1>2, <1>3, GuardedFinds DEF WordsRead, w
<1> QED BY <1>4 DEF code

\* The labels as a message reads them.
LabelsRead(t, labels, data) == IF data THEN ReadMap(t, labels) ELSE [t EXCEPT !.got = labels]

\* Whatever the bytes are, reading the labels keeps the buffer.
LEMMA LabelsKeep ==
  ASSUME Masked, NEW s, Stream(s), NEW labels, IsMap(labels), NEW data \in BOOLEAN
  PROVE  /\ Keeps(s, LabelsRead(s, labels, data)) /\ IsMap(LabelsRead(s, labels, data).got)
         /\ ~s.ok => LabelsRead(s, labels, data).got = labels
<1>1. CASE data
  BY <1>1, MapKeeps DEF LabelsRead
<1>2. CASE ~data
  <2> DEFINE u == [s EXCEPT !.got = labels]
  <2>1. LabelsRead(s, labels, data) = u
    BY <1>2 DEF LabelsRead
  <2>2. /\ u \in Streams({labels}) /\ u.got = labels /\ u.buf = s.buf /\ u.ok = s.ok
        /\ u.containerSizeBytes = s.containerSizeBytes /\ u.m_userData = s.m_userData
    BY WithGot DEF Stream
  <2> HIDE DEF u
  <2>3. Keeps(s, u)
    BY <2>2 DEF Keeps, Stream
  <2> QED BY <2>1, <2>2, <2>3
<1> QED BY <1>1, <1>2

\* What the object holds of labels after those of a message were put into it.
Labelled(old, labels) == IF userData THEN Over(old, labels) ELSE old

\* Labels that come next are read over those the object held, if the user data say that
\* there are any.
LEMMA LabelsFind ==
  ASSUME Masked, userData \in BOOLEAN, NEW s, Stream(s), s.containerSizeBytes = DefaultSizeBytes,
         s.ok => s.buf.m_posRead <= s.buf.m_size,
         NEW old, IsMap(old), NEW m \in Message, LabelsFit(m)
  PROVE  /\ Finds(s, LabelsRead(s, old, userData), LabelsCode(m), Labelled(old, m.labels))
         /\ s.ok /\ Holds(s, LabelsCode(m))
              => Labelled(LabelsRead(s, old, userData).got, m.labels) = Labelled(old, m.labels)
<1>1. CASE userData
  <2> DEFINE labels == m.labels
             w == s.containerSizeBytes
             u == ReadMap(s, old)
             code == Join(Number(Cardinality(DOMAIN labels), w), Concat(Entries(labels, w)))
  <2>1. labels \in [DOMAIN labels -> Seq(Byte)] /\ DOMAIN labels \subseteq Byte
    BY MessageType
  <2>2. MapFits(labels, w)
    BY <1>1 DEF LabelsFit
  <2>3. LabelsRead(s, old, userData) = u
    BY <1>1 DEF LabelsRead
  <2>4. LabelsCode(m) = code
    BY <1>1 DEF LabelsCode, MapCode
  <2> HIDE DEF labels
  <2>5. Finds(s, u, code, Over(old, labels))
    BY <2>1, <2>2, MapFinds
  <2>6. s.ok /\ Holds(s, code) => Over(u.got, labels) = Over(old, labels)
    BY <2>1, <2>2, MapFinds
  <2>7. Labelled(old, m.labels) = Over(old, labels) /\ Labelled(u.got, m.labels) = Over(u.got, labels)
    BY <1>1 DEF Labelled, labels
  <2> HIDE DEF u, code
  <2> QED BY <2>3, <2>4, <2>5, <2>6, <2>7
<1>2. CASE ~userData
  <2> DEFINE u == [s EXCEPT !.got = old]
  <2>1. LabelsRead(s, old, userData) = u /\ LabelsCode(m) = << >>
    BY <1>2 DEF LabelsRead, LabelsCode
  <2>2. u.got = old /\ u.buf = s.buf /\ u.ok = s.ok
    BY WithGot DEF Stream
  <2> HIDE DEF u
  <2>3. Finds(s, s, << >>, s.got)
    BY FindsNothing
  <2>4. Finds(s, u, << >>, old)
    BY <2>2, <2>3 DEF Finds
  <2>5. Labelled(old, m.labels) = old /\ Labelled(u.got, m.labels) = u.got
    BY <1>2 DEF Labelled
  <2> QED BY <2>1, <2>2, <2>4, <2>5
<1> QED BY <1>1, <1>2

\* The streams after each part of a body that is read into the object o.
TagRead(b) == ReadScalar(b, 2)
FlagsRead(b) == BitsRead(TagRead(b))
UptoName(b, o) == NameRead(FlagsRead(b), o.garbage)
UptoCode(b, o) == ReadBlock(UptoName(b, o), CodeSize)
UptoMarks(b, o) == ReadDeque(UptoCode(b, o))
UptoWords(b, o) == WordsRead(UptoMarks(b, o))
UptoLabels(b, o, data) == LabelsRead(UptoWords(b, o), o.labels, data)
UptoNote(b, o, data) == ReadString(UptoLabels(b, o, data))

\* What a message tells and what it leaves in the object.
MessageRead(b, o, data) ==
    [message |-> [tag |-> TagRead(b).got, flags |-> FlagsRead(b).got, name |-> UptoName(b, o).got,
                  code |-> UptoCode(b, o).got, marks |-> UptoMarks(b, o).got,
                  words |-> UptoWords(b, o).got, labels |-> UptoLabels(b, o, data).got,
                  note |-> UptoNote(b, o, data).got],
     object |-> [garbage |-> UptoName(b, o).got.garbage, labels |-> UptoLabels(b, o, data).got]]

\* ReadMessage takes these steps.
LEMMA ReadMessageIs ==
  ASSUME NEW s, NEW o
  PROVE  LET length == ReadScalar(s, LengthWidth)
             note == UptoNote(length, o, UserData(s))
         IN  ReadMessage(s, o) =
               [note EXCEPT
                  !.ok = @ /\ length.got = note.buf.m_posRead - s.buf.m_posRead - LengthWidth,
                  !.got = MessageRead(length, o, UserData(s))]
BY Zenon DEF ReadMessage, MessageRead, UptoNote, UptoLabels, UptoWords, UptoMarks, UptoCode, UptoName,
   FlagsRead, TagRead, LabelsRead, WordsRead, Widened, NameRead, BitsRead, ReadArray, Guarded

\* Whatever the bytes are, reading keeps the buffer, and does nothing after an exception.
LEMMA BodyKeeps ==
  ASSUME Masked, NEW b, Stream(b), NEW o, IsMap(o.labels), NEW data \in BOOLEAN
  PROVE  /\ Keeps(b, TagRead(b)) /\ Keeps(TagRead(b), FlagsRead(b))
         /\ Keeps(FlagsRead(b), UptoName(b, o)) /\ Keeps(UptoName(b, o), UptoCode(b, o))
         /\ Keeps(UptoCode(b, o), UptoMarks(b, o)) /\ Keeps(UptoMarks(b, o), UptoWords(b, o))
         /\ Keeps(UptoWords(b, o), UptoLabels(b, o, data))
         /\ Keeps(UptoLabels(b, o, data), UptoNote(b, o, data))
         /\ Keeps(b, UptoNote(b, o, data))
         /\ ~UptoName(b, o).ok => UptoName(b, o).got.garbage = o.garbage
         /\ IsMap(UptoLabels(b, o, data).got)
         /\ ~UptoWords(b, o).ok => UptoLabels(b, o, data).got = o.labels
<1> DEFINE t1 == TagRead(b)
           t2 == FlagsRead(b)
           t3 == UptoName(b, o)
           t4 == UptoCode(b, o)
           t5 == UptoMarks(b, o)
           t6 == UptoWords(b, o)
           t7 == UptoLabels(b, o, data)
           t8 == UptoNote(b, o, data)
<1>1. Keeps(b, t1)
  BY ScalarKeeps DEF TagRead
<1>2. Keeps(t1, t2)
  BY <1>1, BitsKeeps DEF FlagsRead, Keeps
<1>3. Keeps(t2, t3) /\ (~t3.ok => t3.got.garbage = o.garbage)
  <2> DEFINE g == o.garbage
  <2>1. t3 = NameRead(t2, g)
    BY DEF UptoName
  <2>2. Stream(t2)
    BY <1>2 DEF Keeps
  <2> HIDE DEF t2, t3, g
  <2>3. Keeps(t2, t3)
    BY <2>1, <2>2, NameKeeps
  <2>4. ~t3.ok => t3.got = [str |-> << >>, garbage |-> g]
    BY <2>1, <2>2, NameKeeps
  <2> QED BY <2>3, <2>4 DEF g
<1>4. Keeps(t3, t4)
  BY <1>3, SizesAssumption, BlockKeeps DEF UptoCode, Keeps
<1>5. Keeps(t4, t5)
  BY <1>4, DequeKeeps DEF UptoMarks, Keeps
<1>6. Keeps(t5, t6)
  BY <1>5, WordsKeep DEF UptoWords, Keeps
<1>7. Keeps(t6, t7) /\ IsMap(t7.got) /\ (~t6.ok => t7.got = o.labels)
  <2> DEFINE l == o.labels
  <2>1. t7 = LabelsRead(t6, l, data) /\ IsMap(l)
    BY DEF UptoLabels
  <2>2. Stream(t6)
    BY <1>6 DEF Keeps
  <2> HIDE DEF t6, t7, l
  <2>3. Keeps(t6, t7) /\ IsMap(t7.got) /\ (~t6.ok => t7.got = l)
    BY <2>1, <2>2, LabelsKeep
  <2> QED BY <2>3 DEF l
<1>8. Keeps(t7, t8)
  BY <1>7, StringKeeps DEF UptoNote, Keeps
<1> HIDE DEF t1, t2, t3, t4, t5, t6, t7, t8
<1>9. Keeps(b, t8)
  <2>1. Keeps(b, t3)
    BY <1>1, <1>2, <1>3, KeepsThen
  <2>2. Keeps(b, t5)
    BY <2>1, <1>4, <1>5, KeepsThen
  <2>3. Keeps(b, t7)
    BY <2>2, <1>6, <1>7, KeepsThen
  <2> QED BY <2>3, <1>8, KeepsThen
<1> QED BY <1>1, <1>2, <1>3, <1>4, <1>5, <1>6, <1>7, <1>8, <1>9
        DEF t1, t2, t3, t4, t5, t6, t7, t8

\* The body up to each part that is read.
Upto2(m) == Join(TagCode(m), PackedFlags(m.flags))
\* Padding and field are read as one part.
NameCode(m) == Join(<<0>>, FieldBytes(m.name))
Upto4(m) == Join(Upto2(m), NameCode(m))
Upto6(m) == Join(Upto5(m), MarksCode(m))
Upto8(m) == Join(Upto7(m), LabelsCode(m))

\* The body once more, in the parts that are read.
LEMMA Parts ==
  ASSUME NEW m \in Message
  PROVE  /\ TagCode(m) \in Seq(Byte) /\ PackedFlags(m.flags) \in Seq(Byte) /\ NameCode(m) \in Seq(Byte)
         /\ m.code \in Seq(Byte) /\ MarksCode(m) \in Seq(Byte) /\ WordsCode(m) \in Seq(Byte)
         /\ LabelsCode(m) \in Seq(Byte) /\ NoteCode(m) \in Seq(Byte)
         /\ Upto2(m) \in Seq(Byte) /\ Upto4(m) \in Seq(Byte) /\ Upto5(m) \in Seq(Byte)
         /\ Upto6(m) \in Seq(Byte) /\ Upto7(m) \in Seq(Byte) /\ Upto8(m) \in Seq(Byte)
         /\ Upto2(m) = Join(TagCode(m), PackedFlags(m.flags)) /\ Upto4(m) = Join(Upto2(m), NameCode(m))
         /\ Upto5(m) = Join(Upto4(m), m.code) /\ Upto6(m) = Join(Upto5(m), MarksCode(m))
         /\ Upto7(m) = Join(Upto6(m), WordsCode(m)) /\ Upto8(m) = Join(Upto7(m), LabelsCode(m))
         /\ Body(m) = Join(Upto8(m), NoteCode(m)) /\ Body(m) \in Seq(Byte)
<1> DEFINE zero == <<0>>
           c == FieldBytes(m.name)
<1>1. zero \in Seq(Byte) /\ c \in Seq(Byte)
  BY CodeTypes
<1>2. Upto2(m) \in Seq(Byte)
  BY UptoTypes DEF Upto2
<1>3. NameCode(m) = Join(zero, c) /\ Upto3(m) = Join(Upto2(m), zero)
  BY DEF NameCode, Upto3, Upto2
<1> HIDE DEF zero
<1>4. NameCode(m) \in Seq(Byte)
  BY <1>1, <1>3, JoinType
<1>5. Upto4(m) = Join(Upto3(m), c)
  <2> HIDE DEF c
  <2>1. Join(Upto2(m), Join(zero, c)) = Join(Join(Upto2(m), zero), c)
    BY <1>1, <1>2, JoinAssociative
  <2> QED BY <1>3, <2>1 DEF Upto4
<1>6. Upto4(m) \in Seq(Byte)
  BY <1>2, <1>4, JoinType DEF Upto4
<1>7. Upto5(m) = Join(Upto4(m), m.code)
  BY <1>5 DEF Upto5
<1>8. Upto7(m) = Join(Upto6(m), WordsCode(m))
  BY DEF Upto7, Upto6
<1>9. Body(m) = Join(Upto8(m), NoteCode(m))
  BY BodyIs DEF Upto8
<1>10. Body(m) \in Seq(Byte) /\ Upto8(m) \in Seq(Byte)
  BY <1>9, UptoTypes DEF Upto8
<1> QED BY <1>2, <1>4, <1>6, <1>7, <1>8, <1>9, <1>10, CodeTypes, UptoTypes DEF Upto2, Upto4, Upto6, Upto8

\* What the object o holds after m was read into it.
Into(o, m) ==
    [garbage |-> IF Len(m.name.str) < NameSize - 1 THEN Kept(m.name) ELSE o.garbage,
     labels |-> Labelled(o.labels, m.labels)]

\* m as it is told by reading it into o.
Told(o, m) == [m EXCEPT !.name.garbage = Into(o, m).garbage, !.labels = Into(o, m).labels]

\* A step of the body: from t to u the code c was read, after the prefix p.
LEMMA StepFinds ==
  ASSUME NEW s, Stream(s), NEW t, NEW u, NEW p \in Seq(Byte), NEW c \in Seq(Byte), NEW v, NEW value,
         Keeps(s, t), Keeps(t, u), Finds(s, t, p, v), s.ok, Holds(s, Join(p, c)),
         t.ok /\ Holds(t, c) /\ t.buf.m_posRead <= t.buf.m_size => Finds(t, u, c, value)
  PROVE  Keeps(s, u) /\ Finds(s, u, Join(p, c), value)
<1>1. Keeps(s, u)
  BY KeepsThen
<1>2. CASE t.ok
  <2>1. Holds(t, c)
    BY <1>2, HoldsNext
  <2>2. Holds(s, p)
    BY HoldsPrefix
  <2>3. t.buf.m_posRead <= t.buf.m_size
    BY <1>2, <2>2 DEF Finds, Keeps
  <2>4. Finds(t, u, c, value)
    BY <1>2, <2>1, <2>3
  <2> QED BY <1>1, <2>4, FindsThen
<1>3. CASE ~t.ok
  <2>1. Finds(t, u, c, value)
    BY <1>3 DEF Finds
  <2> QED BY <1>1, <2>1, FindsThen
<1> QED BY <1>2, <1>3

\* Every part of a body that comes next is found, behind the parts before it.
LEMMA BodyFinds ==
  ASSUME Masked, userData \in BOOLEAN, NEW m \in Message, Fits(m),
         NEW b, Stream(b), b.containerSizeBytes = DefaultSizeBytes, b.ok,
         NEW o, IsMap(o.labels), Holds(b, Body(m))
  PROVE  /\ Finds(b, TagRead(b), TagCode(m), m.tag)
         /\ Finds(b, FlagsRead(b), Upto2(m), m.flags)
         /\ Finds(b, UptoName(b, o), Upto4(m), FieldValue(m.name, o.garbage))
         /\ Finds(b, UptoCode(b, o), Upto5(m), m.code)
         /\ Finds(b, UptoMarks(b, o), Upto6(m), m.marks)
         /\ Finds(b, UptoWords(b, o), Upto7(m), m.words)
         /\ Finds(b, UptoLabels(b, o, userData), Upto8(m), Labelled(o.labels, m.labels))
         /\ Finds(b, UptoNote(b, o, userData), Body(m), m.note)
         /\ Labelled(UptoLabels(b, o, userData).got, m.labels) = Labelled(o.labels, m.labels)
         /\ Holds(b, TagCode(m)) /\ Holds(b, Upto2(m)) /\ Holds(b, Upto4(m)) /\ Holds(b, Upto5(m))
         /\ Holds(b, Upto6(m)) /\ Holds(b, Upto7(m)) /\ Holds(b, Upto8(m))
<1> DEFINE t1 == TagRead(b)
           t2 == FlagsRead(b)
           t3 == UptoName(b, o)
           t4 == UptoCode(b, o)
           t5 == UptoMarks(b, o)
           t6 == UptoWords(b, o)
           t7 == UptoLabels(b, o, userData)
           t8 == UptoNote(b, o, userData)
           g == o.garbage
           l == o.labels
           value == FieldValue(m.name, g)
           all == Labelled(l, m.labels)
<1>0. /\ Keeps(b, t1) /\ Keeps(t1, t2) /\ Keeps(t2, t3) /\ Keeps(t3, t4) /\ Keeps(t4, t5)
      /\ Keeps(t5, t6) /\ Keeps(t6, t7) /\ Keeps(t7, t8) /\ (~t6.ok => t7.got = l)
  BY BodyKeeps
<1>1. /\ Holds(b, Upto8(m)) /\ Holds(b, Upto7(m)) /\ Holds(b, Upto6(m)) /\ Holds(b, Upto5(m))
      /\ Holds(b, Upto4(m)) /\ Holds(b, Upto2(m)) /\ Holds(b, TagCode(m))
  <2>1. Holds(b, Upto8(m))
    BY Parts, HoldsPrefix
  <2>2. Holds(b, Upto7(m))
    BY <2>1, Parts, HoldsPrefix
  <2>3. Holds(b, Upto6(m))
    BY <2>2, Parts, HoldsPrefix
  <2>4. Holds(b, Upto5(m))
    BY <2>3, Parts, HoldsPrefix
  <2>5. Holds(b, Upto4(m))
    BY <2>4, Parts, HoldsPrefix
  <2>6. Holds(b, Upto2(m))
    BY <2>5, Parts, HoldsPrefix
  <2>7. Holds(b, TagCode(m))
    BY <2>6, Parts, HoldsPrefix
  <2> QED BY <2>1, <2>2, <2>3, <2>4, <2>5, <2>6, <2>7
<1>2. Finds(b, t1, TagCode(m), m.tag)
  BY MessageType, ScalarFinds DEF TagRead, TagCode
<1>3. Keeps(b, t2) /\ Finds(b, t2, Upto2(m), m.flags)
  <2> DEFINE c == PackedFlags(m.flags)
             p == TagCode(m)
             flags == m.flags
  <2>1. p \in Seq(Byte) /\ c \in Seq(Byte) /\ Upto2(m) = Join(p, c) /\ t2 = BitsRead(t1)
    BY Parts DEF FlagsRead
  <2>2. Stream(t1) /\ flags \in [1..FlagCount -> {0, 1}]
    BY <1>0, MessageType DEF Keeps
  <2> HIDE DEF t1, t2, p, flags
  <2>3. t1.ok /\ t1.buf.m_posRead <= t1.buf.m_size => Finds(t1, t2, PackedFlags(flags), flags)
    BY <2>1, <2>2, BitsFinds
  <2>4. t1.ok /\ t1.buf.m_posRead <= t1.buf.m_size => Finds(t1, t2, c, flags)
    BY <2>3 DEF flags
  <2>5. Finds(b, t1, p, m.tag) /\ Holds(b, Join(p, c))
    BY <1>1, <1>2, <2>1 DEF p
  <2> HIDE DEF c
  <2>6. Keeps(b, t2) /\ Finds(b, t2, Join(p, c), flags)
    BY <1>0, <2>1, <2>4, <2>5, StepFinds
  <2> QED BY <2>1, <2>6 DEF flags
<1>4. Keeps(b, t3) /\ Finds(b, t3, Upto4(m), value)
  <2> DEFINE c == NameCode(m)
             p == Upto2(m)
             name == m.name
  <2>1. p \in Seq(Byte) /\ c \in Seq(Byte) /\ Upto4(m) = Join(p, c) /\ t3 = NameRead(t2, g)
    BY Parts DEF UptoName
  <2>2. Stream(t2) /\ name.str \in Seq(Byte \ {0}) /\ name.garbage \in Seq(Byte)
        /\ Len(name.str) + Len(name.garbage) <= NameSize
    BY <1>0, MessageType DEF Keeps, Fits, FieldFits
  <2>3. Finds(b, t2, p, m.flags) /\ Holds(b, Join(p, c))
    BY <1>1, <1>3, <2>1
  <2>4. Keeps(b, t2)
    BY <1>3
  <2>5. c = Join(<<0>>, FieldBytes(name))
    BY DEF NameCode
  <2> HIDE DEF t2, t3, p, c, name, g
  <2>6. t2.ok /\ t2.buf.m_posRead <= t2.buf.m_size
          => Finds(t2, t3, Join(<<0>>, FieldBytes(name)), FieldValue(name, g))
    BY <2>1, <2>2, NameFinds
  <2>7. t2.ok /\ t2.buf.m_posRead <= t2.buf.m_size => Finds(t2, t3, c, FieldValue(name, g))
    BY <2>5, <2>6
  <2>8. Keeps(b, t3) /\ Finds(b, t3, Join(p, c), FieldValue(name, g))
    BY <1>0, <2>1, <2>3, <2>4, <2>7, StepFinds
  <2> QED BY <2>1, <2>8 DEF name
<1> HIDE DEF value, g
<1>5. Keeps(b, t4) /\ Finds(b, t4, Upto5(m), m.code)
  <2> DEFINE c == m.code
             p == Upto4(m)
  <2>1. p \in Seq(Byte) /\ c \in Seq(Byte) /\ Upto5(m) = Join(p, c) /\ t4 = ReadBlock(t3, CodeSize)
        /\ Len(c) = CodeSize
    BY Parts, MessageType DEF UptoCode
  <2>2. Keeps(b, t3) /\ Stream(t3)
    BY <1>0, <1>4 DEF Keeps
  <2>3. Finds(b, t3, p, value) /\ Holds(b, Join(p, c))
    BY <1>1, <1>4, <2>1
  <2> HIDE DEF t3, t4, p, c
  <2>4. Finds(t3, t4, c, c)
    BY <2>1, <2>2, BlockFinds
  <2>5. Keeps(b, t4) /\ Finds(b, t4, Join(p, c), c)
    BY <1>0, <2>1, <2>2, <2>3, <2>4, StepFinds
  <2> QED BY <2>1, <2>5 DEF c
<1>6. Keeps(b, t5) /\ Finds(b, t5, Upto6(m), m.marks)
  <2> DEFINE c == MarksCode(m)
             p == Upto5(m)
             marks == m.marks
             w == t4.containerSizeBytes
  <2>1. p \in Seq(Byte) /\ c \in Seq(Byte) /\ Upto6(m) = Join(p, c) /\ t5 = ReadDeque(t4)
    BY Parts DEF UptoMarks
  <2>2. Keeps(b, t4) /\ Stream(t4) /\ w = DefaultSizeBytes
    BY <1>5 DEF Keeps
  <2>3. Finds(b, t4, p, m.code) /\ Holds(b, Join(p, c))
    BY <1>1, <1>5, <2>1
  <2>4. marks \in Seq(Nat) /\ Len(marks) < Power(Base, w)
    BY <2>2, MessageType DEF Fits, CountFits
  <2>5. \A i \in 1..Len(marks) : marks[i] < Power(Base, 2)
    <3> DEFINE P == Power(Base, 2)
    <3>1. P \in Nat /\ marks \in Seq(0..(P - 1))
      BY MessageType, BaseType, Powers
    <3> HIDE DEF P, marks
    <3>2. \A i \in 1..Len(marks) : marks[i] < P
      BY <3>1
    <3> QED BY <3>2 DEF P
  <2>6. c = Join(Number(Len(marks), w), Concat(Numbers(marks)))
    BY <2>2 DEF MarksCode
  <2> HIDE DEF t4, t5, p, c, marks, w
  <2>7. Finds(t4, t5, Join(Number(Len(marks), w), Concat(Numbers(marks))), marks)
    BY <2>1, <2>2, <2>4, <2>5, DequeFinds DEF w
  <2>8. Keeps(b, t5) /\ Finds(b, t5, Join(p, c), marks)
    BY <1>0, <2>1, <2>2, <2>3, <2>6, <2>7, StepFinds
  <2> QED BY <2>1, <2>8 DEF marks
<1>7. Keeps(b, t6) /\ Finds(b, t6, Upto7(m), m.words)
  <2> DEFINE c == WordsCode(m)
             p == Upto6(m)
             words == m.words
  <2>1. p \in Seq(Byte) /\ c \in Seq(Byte) /\ Upto7(m) = Join(p, c) /\ t6 = WordsRead(t5)
    BY Parts DEF UptoWords
  <2>2. Keeps(b, t5) /\ Stream(t5)
    BY <1>6 DEF Keeps
  <2>3. Finds(b, t5, p, m.marks) /\ Holds(b, Join(p, c))
    BY <1>1, <1>6, <2>1
  <2>4. words \in Seq(Seq(Byte)) /\ VectorFits(words, 1)
    BY MessageType DEF Fits
  <2>5. c = Join(Number(Len(words), 1), Concat(Elements(words, 1)))
    BY DEF WordsCode
  <2> HIDE DEF t5, t6, p, c, words
  <2>6. Finds(t5, t6, Join(Number(Len(words), 1), Concat(Elements(words, 1))), words)
    BY <2>1, <2>2, <2>4, WordsFind
  <2>7. Keeps(b, t6) /\ Finds(b, t6, Join(p, c), words)
    BY <1>0, <2>1, <2>2, <2>3, <2>5, <2>6, StepFinds
  <2> QED BY <2>1, <2>7 DEF words
<1>8. /\ Keeps(b, t7) /\ Finds(b, t7, Upto8(m), all)
      /\ Labelled(t7.got, m.labels) = all
  <2> DEFINE c == LabelsCode(m)
             p == Upto7(m)
             labels == m.labels
  <2>1. p \in Seq(Byte) /\ c \in Seq(Byte) /\ Upto8(m) = Join(p, c) /\ t7 = LabelsRead(t6, l, userData)
    BY Parts DEF UptoLabels
  <2>2. Keeps(b, t6) /\ Stream(t6) /\ t6.containerSizeBytes = DefaultSizeBytes
    BY <1>7 DEF Keeps
  <2>3. Finds(b, t6, p, m.words) /\ Holds(b, Join(p, c)) /\ LabelsFit(m) /\ IsMap(l)
    BY <1>1, <1>7, <2>1 DEF Fits
  <2>4. Holds(b, p)
    BY <1>1
  <2> HIDE DEF t6, t7, p, l
  <2>5. t6.ok => t6.buf.m_posRead <= t6.buf.m_size
    BY <2>2, <2>3, <2>4 DEF Finds, Keeps
  <2>6. Finds(t6, t7, LabelsCode(m), Labelled(l, m.labels))
    BY <2>1, <2>2, <2>3, <2>5, LabelsFind
  <2>7. t6.ok /\ Holds(t6, LabelsCode(m)) => Labelled(t7.got, m.labels) = Labelled(l, m.labels)
    BY <2>1, <2>2, <2>3, <2>5, LabelsFind
  <2>8. Finds(t6, t7, c, all) /\ (t6.ok /\ Holds(t6, c) => Labelled(t7.got, labels) = all)
    BY <2>6, <2>7
  <2>9. all = Labelled(l, labels)
    OBVIOUS
  <2> HIDE DEF c, all, labels
  <2>10. Keeps(b, t7) /\ Finds(b, t7, Join(p, c), all)
    BY <1>0, <2>1, <2>2, <2>3, <2>8, StepFinds
  <2>11. Labelled(t7.got, labels) = all
    <3>1. CASE t6.ok
      <4>1. Holds(t6, c)
        BY <2>1, <2>2, <2>3, <3>1, HoldsNext
      <4> QED BY <2>8, <3>1, <4>1
    <3>2. CASE ~t6.ok
      BY <1>0, <2>9, <3>2
    <3> QED BY <3>1, <3>2
  <2> QED BY <2>1, <2>10, <2>11 DEF labels
<1>9. Finds(b, t8, Body(m), m.note)
  <2> DEFINE c == NoteCode(m)
             p == Upto8(m)
             note == m.note
             w == t7.containerSizeBytes
  <2>1. p \in Seq(Byte) /\ c \in Seq(Byte) /\ Body(m) = Join(p, c) /\ t8 = ReadString(t7)
    BY Parts DEF UptoNote
  <2>2. Keeps(b, t7) /\ Stream(t7) /\ w = DefaultSizeBytes
    BY <1>8 DEF Keeps
  <2>3. Finds(b, t7, p, all) /\ Holds(b, Join(p, c))
    BY <1>8, <2>1
  <2>4. note \in Seq(Byte) /\ Len(note) < Power(Base, w)
    BY <2>2, MessageType DEF Fits, CountFits
  <2>5. c = Counted(note, w)
    BY <2>2 DEF NoteCode
  <2> HIDE DEF t7, t8, p, c, note, w, all
  <2>6. Finds(t7, t8, Counted(note, w), note)
    BY <2>1, <2>2, <2>4, StringFinds DEF w
  <2>7. Finds(b, t8, Join(p, c), note)
    BY <1>0, <2>1, <2>2, <2>3, <2>5, <2>6, StepFinds
  <2> QED BY <2>1, <2>7 DEF note
<1> QED BY <1>1, <1>2, <1>3, <1>4, <1>5, <1>6, <1>7, <1>8, <1>9 DEF value, g

\* What ReadMessage makes of the stream at its end: a check and the result.
Resulting(s, q, v) == [s EXCEPT !.ok = @ /\ q, !.got = v]

\* A stream with a result and a check is a stream.
LEMMA WithResult ==
  ASSUME NEW G, NEW s \in Streams(G), NEW q \in BOOLEAN, NEW v
  PROVE  /\ Resulting(s, q, v) \in Streams({v}) /\ Resulting(s, q, v).got = v
         /\ Resulting(s, q, v).buf = s.buf /\ (Resulting(s, q, v).ok <=> s.ok /\ q)
         /\ Resulting(s, q, v).containerSizeBytes = s.containerSizeBytes
         /\ Resulting(s, q, v).m_userData = s.m_userData
<1> DEFINE t == [s EXCEPT !.ok = @ /\ q, !.got = v]
           R == [buf : Buffer(Byte), mask : {mask}, containerSizeBytes : {1, DefaultSizeBytes},
                 m_userData : BOOLEAN, ok : BOOLEAN, got : G]
           T == [buf : Buffer(Byte), mask : {mask}, containerSizeBytes : {1, DefaultSizeBytes},
                 m_userData : BOOLEAN, ok : BOOLEAN, got : {v}]
<1> HIDE DEF Buffer, BufferOK
<1>1. s \in R /\ BufferOK(s.buf, Byte) /\ (s.ok => ~s.buf.m_eofRead)
  BY DEF Streams
<1>2. t.got = v /\ t.buf = s.buf /\ (t.ok <=> s.ok /\ q) /\ t \in T
      /\ t.containerSizeBytes = s.containerSizeBytes /\ t.m_userData = s.m_userData
  BY <1>1
<1>3. t \in Streams({v})
  BY <1>1, <1>2 DEF Streams
<1>4. Resulting(s, q, v) = t
  BY DEF Resulting
<1> HIDE DEF t
<1> QED BY <1>2, <1>3, <1>4

\* Whatever the bytes are, reading a message keeps the buffer, and without the bytes of a
\* length the object stays what it was.
LEMMA MessageKeeps ==
  ASSUME Masked, NEW s, Stream(s), s.m_userData = userData, userData \in BOOLEAN,
         NEW o, IsMap(o.labels)
  PROVE  /\ Keeps(s, ReadMessage(s, o)) /\ IsMap(ReadMessage(s, o).got.object.labels)
         /\ ReadMessage(s, o).got = MessageRead(ReadScalar(s, LengthWidth), o, userData)
         /\ ReadMessage(s, o).buf = UptoNote(ReadScalar(s, LengthWidth), o, userData).buf
         /\ ReadMessage(s, o).ok <=>
              /\ UptoNote(ReadScalar(s, LengthWidth), o, userData).ok
              /\ ReadScalar(s, LengthWidth).got =
                   ReadMessage(s, o).buf.m_posRead - s.buf.m_posRead - LengthWidth
         /\ ~ReadScalar(s, LengthWidth).ok
              => /\ ~ReadMessage(s, o).ok
                 /\ ReadMessage(s, o).got.object = [garbage |-> o.garbage, labels |-> o.labels]
<1> DEFINE b == ReadScalar(s, LengthWidth)
           u == UptoNote(b, o, userData)
           q == b.got = u.buf.m_posRead - s.buf.m_posRead - LengthWidth
           v == MessageRead(b, o, userData)
           t == Resulting(u, q, v)
<1>1. ReadMessage(s, o) = t
  BY ReadMessageIs DEF UserData, Resulting
<1>2. Keeps(s, b)
  BY ScalarKeeps DEF LengthWidth
<1>3. Stream(b)
  BY <1>2 DEF Keeps
<1>4. /\ v.object = [garbage |-> UptoName(b, o).got.garbage, labels |-> UptoLabels(b, o, userData).got]
      /\ v.object.labels = UptoLabels(b, o, userData).got
  BY DEF MessageRead
<1> HIDE DEF b, v
<1>5. Keeps(b, u) /\ IsMap(UptoLabels(b, o, userData).got)
  BY <1>3, BodyKeeps
<1>6. ~b.ok => UptoName(b, o).got.garbage = o.garbage /\ UptoLabels(b, o, userData).got = o.labels
  <2> SUFFICES ASSUME ~b.ok
               PROVE  UptoName(b, o).got.garbage = o.garbage /\ UptoLabels(b, o, userData).got = o.labels
    OBVIOUS
  <2>1. ~TagRead(b).ok
    BY <1>3, BodyKeeps DEF Keeps
  <2>2. ~FlagsRead(b).ok
    BY <1>3, <2>1, BodyKeeps DEF Keeps
  <2>3. ~UptoName(b, o).ok
    BY <1>3, <2>2, BodyKeeps DEF Keeps
  <2>4. ~UptoCode(b, o).ok
    BY <1>3, <2>3, BodyKeeps DEF Keeps
  <2>5. ~UptoMarks(b, o).ok
    BY <1>3, <2>4, BodyKeeps DEF Keeps
  <2>6. ~UptoWords(b, o).ok
    BY <1>3, <2>5, BodyKeeps DEF Keeps
  <2> QED BY <1>3, <2>3, <2>6, BodyKeeps
<1> HIDE DEF u
<1>7. q \in BOOLEAN /\ Keeps(s, u) /\ Stream(u)
  BY <1>2, <1>5, KeepsThen DEF Keeps
<1> HIDE DEF q
<1>8. /\ t \in Streams({v}) /\ t.got = v /\ t.buf = u.buf /\ (t.ok <=> u.ok /\ q)
      /\ t.containerSizeBytes = u.containerSizeBytes /\ t.m_userData = u.m_userData
  BY <1>7, WithResult DEF Stream
<1> HIDE DEF t
<1>9. Keeps(s, t)
  BY <1>7, <1>8 DEF Keeps, Stream
<1>10. ~b.ok => ~t.ok
  BY <1>5, <1>8 DEF Keeps
<1>11. t.ok <=> u.ok /\ b.got = t.buf.m_posRead - s.buf.m_posRead - LengthWidth
  BY <1>8 DEF q
<1> QED BY <1>1, <1>4, <1>5, <1>6, <1>8, <1>9, <1>10, <1>11 DEF b, u, v

\* A body that comes next is told as it was written.
LEMMA BodyTells ==
  ASSUME Masked, userData \in BOOLEAN, NEW m \in Message, Fits(m),
         NEW b, Stream(b), b.containerSizeBytes = DefaultSizeBytes, b.ok,
         NEW o, IsMap(o.labels), Holds(b, Body(m)), UptoNote(b, o, userData).ok
  PROVE  MessageRead(b, o, userData) = [message |-> Told(o, m), object |-> Into(o, m)]
<1> DEFINE g == o.garbage
           value == FieldValue(m.name, g)
           all == Labelled(o.labels, m.labels)
<1>1. UptoLabels(b, o, userData).ok
  BY BodyKeeps DEF Keeps
<1>2. UptoWords(b, o).ok
  BY <1>1, BodyKeeps DEF Keeps
<1>3. UptoMarks(b, o).ok
  BY <1>2, BodyKeeps DEF Keeps
<1>4. UptoCode(b, o).ok
  BY <1>3, BodyKeeps DEF Keeps
<1>5. UptoName(b, o).ok
  BY <1>4, BodyKeeps DEF Keeps
<1>6. FlagsRead(b).ok
  BY <1>5, BodyKeeps DEF Keeps
<1>7. TagRead(b).ok
  BY <1>6, BodyKeeps DEF Keeps
<1>8. TagRead(b).got = m.tag
  BY <1>7, BodyFinds DEF Finds
<1>9. FlagsRead(b).got = m.flags
  BY <1>6, BodyFinds DEF Finds
<1>10. UptoName(b, o).got = value
  <2>1. Finds(b, UptoName(b, o), Upto4(m), value) /\ Holds(b, Upto4(m))
    BY BodyFinds
  <2> HIDE DEF value
  <2> QED BY <1>5, <2>1 DEF Finds
<1>11. UptoCode(b, o).got = m.code
  BY <1>4, BodyFinds DEF Finds
<1>12. UptoMarks(b, o).got = m.marks
  BY <1>3, BodyFinds DEF Finds
<1>13. UptoWords(b, o).got = m.words
  BY <1>2, BodyFinds DEF Finds
<1>14. UptoLabels(b, o, userData).got = all
  <2>1. Finds(b, UptoLabels(b, o, userData), Upto8(m), all) /\ Holds(b, Upto8(m))
    BY BodyFinds
  <2> HIDE DEF all
  <2> QED BY <1>1, <2>1 DEF Finds
<1>15. UptoNote(b, o, userData).got = m.note
  BY BodyFinds DEF Finds
<1>16. value = [str |-> m.name.str, garbage |-> Into(o, m).garbage] /\ value.garbage = Into(o, m).garbage
  BY DEF FieldValue, Into
<1>17. all = Into(o, m).labels /\ Into(o, m) = [garbage |-> Into(o, m).garbage, labels |-> Into(o, m).labels]
  BY DEF Into
<1>18. Told(o, m) = [tag |-> m.tag, flags |-> m.flags, name |-> value, code |-> m.code, marks |-> m.marks,
                     words |-> m.words, labels |-> all, note |-> m.note]
  <2> DEFINE x == Into(o, m)
             name == m.name
  <2>1. /\ m = [tag |-> m.tag, flags |-> m.flags, name |-> name, code |-> m.code, marks |-> m.marks,
                words |-> m.words, labels |-> m.labels, note |-> m.note]
        /\ name = [str |-> name.str, garbage |-> name.garbage]
    BY MessageType
  <2>2. Told(o, m) = [m EXCEPT !.name = [name EXCEPT !.garbage = x.garbage], !.labels = x.labels]
    BY DEF Told
  <2>3. value = [str |-> name.str, garbage |-> x.garbage] /\ all = x.labels
    BY <1>16, <1>17
  <2> HIDE DEF x, name, value, all
  <2>4. [name EXCEPT !.garbage = x.garbage] = value
    BY <2>1, <2>3
  <2> QED BY <2>1, <2>2, <2>3, <2>4
<1> HIDE DEF value, all
<1> QED BY <1>8, <1>9, <1>10, <1>11, <1>12, <1>13, <1>14, <1>15, <1>16, <1>17, <1>18, Zenon DEF MessageRead

\* Read completely or not, a message leaves an object that shows the same once it was read.
LEMMA BodyLeaves ==
  ASSUME Masked, userData \in BOOLEAN, NEW m \in Message, Fits(m),
         NEW b, Stream(b), b.containerSizeBytes = DefaultSizeBytes, b.ok,
         NEW o, IsMap(o.labels), Holds(b, Body(m))
  PROVE  Into(MessageRead(b, o, userData).object, m) = Into(o, m)
<1> DEFINE g == o.garbage
           value == FieldValue(m.name, g)
           t3 == UptoName(b, o)
           t7 == UptoLabels(b, o, userData)
           x == MessageRead(b, o, userData).object
<1>1. x.garbage = t3.got.garbage /\ x.labels = t7.got
  BY DEF MessageRead
<1>2. Labelled(t7.got, m.labels) = Labelled(o.labels, m.labels)
  BY BodyFinds
<1>3. t3.got = value \/ t3.got.garbage = g
  <2>1. Finds(b, t3, Upto4(m), value) /\ Holds(b, Upto4(m))
    BY BodyFinds
  <2>2. ~t3.ok => t3.got.garbage = g
    BY BodyKeeps
  <2> HIDE DEF value, t3, g
  <2> QED BY <2>1, <2>2 DEF Finds
<1>4. ~(Len(m.name.str) < NameSize - 1) => t3.got.garbage = g
  BY <1>3 DEF FieldValue
<1> DEFINE fits == Len(m.name.str) < NameSize - 1
<1>5. ~fits => x.garbage = o.garbage
  BY <1>1, <1>4
<1>6. Labelled(x.labels, m.labels) = Labelled(o.labels, m.labels)
  BY <1>1, <1>2
<1>7. \A y : Into(y, m) = [garbage |-> IF fits THEN Kept(m.name) ELSE y.garbage,
                          labels |-> Labelled(y.labels, m.labels)]
  BY DEF Into
<1> HIDE DEF x, fits
<1>8. Into(x, m) = Into(o, m)
  BY <1>5, <1>6, <1>7
<1> QED BY <1>8 DEF x

\* A message on the wire is its body behind the length of it.
LEMMA WireIs ==
  ASSUME NEW m \in Message
  PROVE  /\ Wire(m) = Join(Number(Len(Body(m)), LengthWidth), Body(m))
         /\ Wire(m) \in Seq(Byte) /\ Len(Wire(m)) = LengthWidth + Len(Body(m)) /\ Len(Wire(m)) > 0
         /\ Body(m) \in Seq(Byte) /\ Len(Body(m)) \in Nat
         /\ Number(Len(Body(m)), LengthWidth) \in Seq(Byte)
              /\ Len(Number(Len(Body(m)), LengthWidth)) = LengthWidth
<1> DEFINE c == Body(m)
           w == LengthWidth
<1>1. c \in Seq(Byte) /\ w \in {1, 2, 4}
  BY Parts DEF LengthWidth
<1>2. Wire(m) = Counted(c, w)
  BY DEF Wire
<1> HIDE DEF c, w
<1>3. Len(c) \in Nat
  BY <1>1
<1>4. Counted(c, w) = Join(Number(Len(c), w), c)
  BY <1>1, CountedType
<1>5. Counted(c, w) \in Seq(Byte) /\ Len(Counted(c, w)) = w + Len(c)
  BY <1>1, CountedType
<1>6. Number(Len(c), w) \in Seq(Byte) /\ Len(Number(Len(c), w)) = w
  BY <1>1, <1>3, NumberType
<1>7. Len(Wire(m)) > 0
  BY <1>1, <1>2, <1>3, <1>5
<1> QED BY <1>1, <1>2, <1>3, <1>4, <1>5, <1>6, <1>7 DEF c, w

\* A message that comes next is read and told as it was written, or, while its end is
\* missing, refused, and what that leaves in the object does not show once it is read.
THEOREM MessageFinds ==
  ASSUME Masked, userData \in BOOLEAN, NEW m \in Message, Fits(m),
         Len(Body(m)) < Power(Base, LengthWidth),
         NEW s, Stream(s), s.containerSizeBytes = DefaultSizeBytes, s.m_userData = userData, s.ok,
         NEW o, IsMap(o.labels), Holds(s, Wire(m))
  PROVE  /\ Keeps(s, ReadMessage(s, o)) /\ IsMap(ReadMessage(s, o).got.object.labels)
         /\ Finds(s, ReadMessage(s, o), Wire(m), [message |-> Told(o, m), object |-> Into(o, m)])
         /\ Into(ReadMessage(s, o).got.object, m) = Into(o, m)
<1> DEFINE b == ReadScalar(s, LengthWidth)
           u == UptoNote(b, o, userData)
           t == ReadMessage(s, o)
           c == Body(m)
           n == Number(Len(c), LengthWidth)
           l == Len(c)
           value == [message |-> Told(o, m), object |-> Into(o, m)]
<1>1. /\ Keeps(s, t) /\ IsMap(t.got.object.labels)
      /\ t.got = MessageRead(b, o, userData) /\ t.buf = u.buf
      /\ t.ok <=> u.ok /\ b.got = t.buf.m_posRead - s.buf.m_posRead - LengthWidth
      /\ ~b.ok => ~t.ok /\ t.got.object = [garbage |-> o.garbage, labels |-> o.labels]
  BY MessageKeeps
<1>2. /\ Wire(m) = Join(n, c) /\ c \in Seq(Byte) /\ n \in Seq(Byte) /\ Len(n) = LengthWidth /\ l \in Nat
      /\ Len(Wire(m)) = LengthWidth + l
  BY WireIs
<1>3. Finds(s, b, n, l)
  BY <1>2, ScalarFinds DEF LengthWidth
<1>4. Keeps(s, b)
  BY ScalarKeeps DEF LengthWidth
<1>5. Holds(s, n) /\ (b.ok => Holds(b, c))
  <2> HIDE DEF b, n, c, l
  <2>1. Holds(s, Join(n, c))
    BY <1>2
  <2>2. Holds(s, n)
    BY <1>2, <2>1, HoldsPrefix
  <2>3. b.ok => Holds(b, c)
    BY <1>2, <1>3, <1>4, <2>1, HoldsNext
  <2> QED BY <2>2, <2>3
<1>6. /\ s.buf.m_posRead \in Nat /\ s.buf.m_size \in Nat
      /\ b.ok \in BOOLEAN
  BY <1>4, StreamFields DEF Stream, Keeps
<1>7. Stream(b) /\ b.containerSizeBytes = DefaultSizeBytes /\ b.buf.m_size = s.buf.m_size
  BY <1>4 DEF Keeps
<1>8. /\ b.ok <=> s.buf.m_posRead + LengthWidth <= s.buf.m_size
      /\ b.ok => b.buf.m_posRead = s.buf.m_posRead + LengthWidth /\ b.got = l
  <2> HIDE DEF b, n, l
  <2> QED BY <1>2, <1>3, <1>5 DEF Finds
<1>9. ASSUME b.ok
      PROVE  /\ Finds(s, t, Wire(m), value)
             /\ Into(t.got.object, m) = Into(o, m)
  <2>1. Holds(b, c) /\ Finds(b, u, c, m.note)
    <3>1. Holds(b, Body(m))
      BY <1>5, <1>9
    <3> HIDE DEF b
    <3>2. Finds(b, UptoNote(b, o, userData), Body(m), m.note)
      BY <1>7, <1>9, <3>1, BodyFinds
    <3> QED BY <3>1, <3>2
  <2>2. /\ u.ok <=> b.buf.m_posRead + l <= b.buf.m_size
        /\ u.ok => u.buf.m_posRead = b.buf.m_posRead + l
    <3> HIDE DEF b, u
    <3> QED BY <1>9, <2>1 DEF Finds
  <2>3. t.ok => t.got = value
    <3> SUFFICES ASSUME t.ok PROVE t.got = value
      OBVIOUS
    <3>1. u.ok
      BY <1>1
    <3>2. MessageRead(b, o, userData) = value
      <4> HIDE DEF b, value, t
      <4>1. Holds(b, Body(m)) /\ UptoNote(b, o, userData).ok
        BY <2>1, <3>1
      <4>2. MessageRead(b, o, userData) = [message |-> Told(o, m), object |-> Into(o, m)]
        BY <1>7, <1>9, <4>1, BodyTells
      <4> QED BY <4>2 DEF value
    <3> QED BY <1>1, <3>2
  <2>4. Into(t.got.object, m) = Into(o, m)
    <3>1. Holds(b, Body(m))
      BY <2>1
    <3> HIDE DEF b
    <3>2. Into(MessageRead(b, o, userData).object, m) = Into(o, m)
      BY <1>7, <1>9, <3>1, BodyLeaves
    <3> QED BY <1>1, <3>2 DEF b
  <2> HIDE DEF b, u, t, c, l, n, value
  <2>5. LengthWidth \in Nat
    BY DEF LengthWidth
  <2>6. Finds(s, t, Wire(m), value)
    BY <1>1, <1>2, <1>6, <1>7, <1>8, <1>9, <2>2, <2>3, <2>5 DEF Finds
  <2> QED BY <2>4, <2>6
<1>10. ASSUME ~b.ok
       PROVE  /\ Finds(s, t, Wire(m), value)
              /\ Into(t.got.object, m) = Into(o, m)
  <2> HIDE DEF b, u, t, c, l, n, value
  <2>1. ~t.ok /\ t.got.object = [garbage |-> o.garbage, labels |-> o.labels]
    BY <1>1, <1>10
  <2>2. ~(s.buf.m_posRead + Len(Wire(m)) <= s.buf.m_size)
    <3>1. ~(s.buf.m_posRead + LengthWidth <= s.buf.m_size)
      BY <1>8, <1>10
    <3> QED BY <1>2, <1>6, <3>1 DEF LengthWidth
  <2>3. Finds(s, t, Wire(m), value)
    BY <2>1, <2>2 DEF Finds
  <2> DEFINE x == t.got.object
  <2>4. x.garbage = o.garbage /\ x.labels = o.labels
    BY <2>1
  <2> HIDE DEF x
  <2>5. Into(x, m) = Into(o, m)
    BY <2>4 DEF Into
  <2> QED BY <2>3, <2>5 DEF x
<1> QED BY <1>1, <1>6, <1>9, <1>10

\* No part is longer than the whole.
LEMMA JoinLonger ==
  ASSUME NEW V, NEW a \in Seq(V), NEW c \in Seq(V)
  PROVE  Len(a) <= Len(Join(a, c)) /\ Len(c) <= Len(Join(a, c)) /\ Len(a) \in Nat /\ Len(c) \in Nat
<1>1. Len(a) \in Nat /\ Len(c) \in Nat
  OBVIOUS
<1>2. Len(Join(a, c)) = Len(a) + Len(c)
  BY JoinType
<1> QED BY <1>1, <1>2

\* No part of a body is longer than the body.
LEMMA PartLengths ==
  ASSUME NEW m \in Message
  PROVE  /\ Len(MarksCode(m)) <= Len(Body(m)) /\ Len(LabelsCode(m)) <= Len(Body(m))
         /\ Len(NoteCode(m)) <= Len(Body(m))
<1> DEFINE a == Len(MarksCode(m))
           c == Len(LabelsCode(m))
           d == Len(NoteCode(m))
           x6 == Len(Upto6(m))
           x7 == Len(Upto7(m))
           x8 == Len(Upto8(m))
           n == Len(Body(m))
<1>1. a <= x6 /\ a \in Nat
  BY Parts, JoinLonger
<1>2. x6 <= x7 /\ x6 \in Nat
  BY Parts, JoinLonger
<1>3. x7 <= x8 /\ c <= x8 /\ x7 \in Nat /\ c \in Nat
  BY Parts, JoinLonger
<1>4. x8 <= n /\ d <= n /\ x8 \in Nat /\ d \in Nat
  BY Parts, JoinLonger
<1>5. n \in Nat
  BY Parts
<1> HIDE DEF a, c, d, x6, x7, x8, n
<1>6. a <= n /\ c <= n /\ d <= n
  BY <1>1, <1>2, <1>3, <1>4, <1>5
<1> QED BY <1>6 DEF a, c, d, n

\* The first power is the base.
LEMMA PowerOne == Power(Base, 1) = Base
<1>1. Power(Base, 0) = 1 /\ Power(Base, 0 + 1) = Base * Power(Base, 0)
  BY BaseType, Powers
<1> DEFINE p == Power(Base, 0)
           q == Power(Base, 0 + 1)
           c == Base
<1>2. p = 1 /\ q = c * p /\ c \in Nat
  BY <1>1, BaseType
<1> HIDE DEF p, q, c
<1>3. q = c
  BY <1>2
<1> QED BY <1>3 DEF q, c

\* Below the longest body only the field and the sizes of one byte can be too small.
LEMMA FitsIs ==
  ASSUME NEW m \in Message, Len(Body(m)) < Power(Base, LengthWidth),
         FieldFits(m), Len(m.words) < Base, \A i \in DOMAIN m.words : Len(m.words[i]) < Base
  PROVE  Fits(m)
<1> DEFINE P == Power(Base, DefaultSizeBytes)
           n == Len(Body(m))
<1>0. P \in Nat /\ n \in Nat /\ n < P
  <2>1. DefaultSizeBytes \in Nat /\ LengthWidth = DefaultSizeBytes
    BY DEF DefaultSizeBytes, LengthWidth
  <2> QED BY <2>1, BaseType, Powers, WireIs
<1>1. CountFits(Len(m.marks))
  <2> DEFINE marks == m.marks
             l == Len(marks)
             codes == Numbers(marks)
             z == Concat(codes)
             head == Number(l, DefaultSizeBytes)
  <2>0. marks \in Seq(Nat)
    BY MessageType
  <2>1. marks \in Seq(Nat) /\ l \in Nat
    <3> HIDE DEF marks
    <3> QED BY <2>0
  <2>2. codes \in [1..l -> Seq(Byte)] /\ \A i \in 1..l : Len(codes[i]) > 0
    <3>1. \A i \in 1..l : codes[i] = Number(marks[i], 2)
      BY <2>1 DEF Numbers
    <3>2. \A i \in 1..l : Number(marks[i], 2) \in Seq(Byte) /\ Len(Number(marks[i], 2)) = 2
      <4>1. 2 \in {1, 2, 4} /\ \A i \in 1..l : marks[i] \in Nat
        BY <2>1
      <4> QED BY <4>1, NumberType
    <3>3. codes = [i \in 1..l |-> codes[i]]
      BY <2>1 DEF Numbers
    <3> HIDE DEF codes, marks, l
    <3>4. \A i \in 1..l : codes[i] \in Seq(Byte) /\ Len(codes[i]) = 2
      BY <3>1, <3>2
    <3>5. codes \in [1..l -> Seq(Byte)]
      BY <3>3, <3>4
    <3>6. \A i \in 1..l : Len(codes[i]) > 0
      BY <3>4
    <3> QED BY <3>5, <3>6
  <2>3. MarksCode(m) = Join(head, z) /\ z \in Seq(Byte) /\ head \in Seq(Byte)
    BY CodeTypes DEF MarksCode
  <2> HIDE DEF codes, head
  <2>4. l <= Len(z)
    BY <2>1, <2>2, ConcatLength
  <2> HIDE DEF z
  <2>5. Len(z) <= Len(MarksCode(m)) /\ Len(z) \in Nat
    BY <2>3, JoinLonger
  <2>6. Len(MarksCode(m)) <= n /\ Len(MarksCode(m)) \in Nat
    BY PartLengths, CodeTypes
  <2> HIDE DEF l, n, P
  <2>7. l < P
    BY <1>0, <2>1, <2>4, <2>5, <2>6
  <2> QED BY <2>7 DEF CountFits, l, P
<1>2. VectorFits(m.words, 1)
  BY PowerOne DEF VectorFits
<1>3. LabelsFit(m)
  <2> SUFFICES ASSUME userData PROVE MapFits(m.labels, DefaultSizeBytes)
    BY DEF LabelsFit
  <2> DEFINE labels == m.labels
             z == Concat(Entries(labels, DefaultSizeBytes))
             k == Cardinality(DOMAIN labels)
             head == Number(k, DefaultSizeBytes)
  <2>1. labels \in [DOMAIN labels -> Seq(Byte)] /\ DOMAIN labels \subseteq Byte
          /\ DefaultSizeBytes \in {1, 2, 4}
    BY MessageType DEF DefaultSizeBytes
  <2>2. LabelsCode(m) = Join(head, z)
    BY DEF LabelsCode, MapCode
  <2> HIDE DEF labels
  <2>3. z \in Seq(Byte) /\ k \in Nat /\ k <= Len(z) /\ \A key \in DOMAIN labels : Len(labels[key]) < Len(z)
    BY <2>1, EntriesLength
  <2> HIDE DEF z, k
  <2>4. head \in Seq(Byte)
    BY <2>1, <2>3, NumberType
  <2> HIDE DEF head
  <2>5. Len(z) <= Len(LabelsCode(m)) /\ Len(z) \in Nat
    BY <2>2, <2>3, <2>4, JoinLonger
  <2>6. Len(LabelsCode(m)) <= n /\ Len(LabelsCode(m)) \in Nat
    BY PartLengths, CodeTypes
  <2> HIDE DEF n, P
  <2>7. Len(z) < P
    BY <1>0, <2>5, <2>6
  <2>8. k < P
    BY <1>0, <2>3, <2>5, <2>7
  <2>9. \A key \in DOMAIN labels : Len(labels[key]) < P
    <3> SUFFICES ASSUME NEW key \in DOMAIN labels PROVE Len(labels[key]) < P
      OBVIOUS
    <3>1. labels[key] \in Seq(Byte)
      BY <2>1
    <3> DEFINE x == Len(labels[key])
    <3>2. x \in Nat /\ x < Len(z)
      BY <2>3, <3>1
    <3> HIDE DEF x
    <3>3. x < P
      BY <1>0, <2>5, <2>7, <3>2
    <3> QED BY <3>3 DEF x
  <2> QED BY <2>8, <2>9 DEF MapFits, k, labels, P
<1>4. CountFits(Len(m.note))
  <2> DEFINE note == m.note
             l == Len(note)
             c == NoteCode(m)
  <2>0. note \in Seq(Byte) /\ DefaultSizeBytes \in {1, 2, 4}
    BY MessageType DEF DefaultSizeBytes
  <2>1. note \in Seq(Byte) /\ l \in Nat /\ DefaultSizeBytes \in {1, 2, 4}
    <3> HIDE DEF note
    <3> QED BY <2>0
  <2>2. c = Counted(note, DefaultSizeBytes)
    BY DEF NoteCode
  <2> HIDE DEF note
  <2>3. Len(Counted(note, DefaultSizeBytes)) = DefaultSizeBytes + Len(note)
    BY <2>1, CountedType
  <2>4. Len(c) = DefaultSizeBytes + l
    BY <2>2, <2>3
  <2>5. Len(c) <= n
    BY PartLengths
  <2> HIDE DEF l, n, P, c
  <2>6. l < P
    BY <1>0, <2>1, <2>4, <2>5 DEF DefaultSizeBytes
  <2> QED BY <2>6 DEF CountFits, l, P, note
<1> QED BY <1>1, <1>2, <1>3, <1>4 DEF Fits

-----------------------------------------------------------------------------
(* What messages leave in an object.                                       *)

\* Of the messages h, those of K that tell a garbage, and those that have a label.
TellersOf(h, K) == {j \in K : Len(h[j].name.str) < NameSize - 1}
HoldersOf(h, K, key) == {j \in K : key \in DOMAIN h[j].labels}

\* What the last of them tell.
GarbageOf(h, K) == IF TellersOf(h, K) = {} THEN << >> ELSE Kept(h[Max(TellersOf(h, K))].name)
\* The labels the messages K have, and what the last of them say.
KeysOf(h, K) == {key \in Byte : HoldersOf(h, K, key) # {}}
LabelsOf(h, K) == [key \in KeysOf(h, K) |-> h[Max(HoldersOf(h, K, key))].labels[key]]
\* What reading the messages K one by one leaves in an object.
LeftoverOf(h, data, K) ==
    [garbage |-> GarbageOf(h, K), labels |-> IF data THEN LabelsOf(h, K) ELSE << >>]

\* Message i as it is read.
ShownBy(again, i) == IF again THEN 1..i ELSE {i}
AsReadOf(h, data, again, i) ==
    [h[i] EXCEPT !.name.garbage = GarbageOf(h, ShownBy(again, i)),
                 !.labels = IF data THEN LabelsOf(h, ShownBy(again, i)) ELSE << >>]

\* What is left when k messages were read.
LeftBy(h, data, again, k) == IF again /\ k > 0 THEN LeftoverOf(h, data, 1..k) ELSE NewObject

\* Into(o, m), whether there are labels given.
IntoBy(o, m, data) ==
    [garbage |-> IF Len(m.name.str) < NameSize - 1 THEN Kept(m.name) ELSE o.garbage,
     labels |-> IF data THEN Over(o.labels, m.labels) ELSE o.labels]

\* One more message tells its garbage, or leaves the one told before.
LEMMA GarbageGrows ==
  ASSUME NEW h, NEW i \in Nat, NEW K, K \subseteq 1..(i - 1)
  PROVE  GarbageOf(h, K \cup {i}) =
           IF Len(h[i].name.str) < NameSize - 1 THEN Kept(h[i].name) ELSE GarbageOf(h, K)
<1> DEFINE S == TellersOf(h, K \cup {i})
           T == TellersOf(h, K)
<1>1. CASE Len(h[i].name.str) < NameSize - 1
  <2>0. i \in S /\ S \subseteq K \cup {i}
    BY <1>1 DEF TellersOf
  <2>1. i \in S /\ S \in SUBSET Int /\ \A y \in S : i >= y
    <3> HIDE DEF S
    <3> QED BY <2>0
  <2> HIDE DEF S
  <2>2. Max(S) = i
    BY <2>1, MaxIs
  <2>3. S # {}
    BY <2>1
  <2>4. GarbageOf(h, K \cup {i}) = IF S = {} THEN << >> ELSE Kept(h[Max(S)].name)
    BY DEF GarbageOf, S
  <2> QED BY <1>1, <2>2, <2>3, <2>4
<1>2. CASE ~(Len(h[i].name.str) < NameSize - 1)
  <2>1. S = T
    BY <1>2 DEF TellersOf
  <2> QED BY <1>2, <2>1 DEF GarbageOf
<1> QED BY <1>1, <1>2

\* The labels are those of the messages K.
Shows(labels, h, K) ==
    /\ DOMAIN labels = KeysOf(h, K)
    /\ \A key \in KeysOf(h, K) : labels[key] = h[Max(HoldersOf(h, K, key))].labels[key]

\* The labels of one more message go over those shown before.
LEMMA LabelsGrow ==
  ASSUME NEW h, NEW i \in Nat, NEW K, K \subseteq 1..(i - 1), DOMAIN h[i].labels \subseteq Byte,
         NEW old, Shows(old, h, K)
  PROVE  LabelsOf(h, K \cup {i}) = Over(old, h[i].labels)
<1> DEFINE new == h[i].labels
           L == K \cup {i}
<1>0. /\ DOMAIN old = KeysOf(h, K)
      /\ \A key \in KeysOf(h, K) : old[key] = h[Max(HoldersOf(h, K, key))].labels[key]
  BY DEF Shows
<1>1. \A key : HoldersOf(h, L, key) = HoldersOf(h, K, key) \cup {x \in {i} : key \in DOMAIN new}
  BY DEF HoldersOf
<1>2. KeysOf(h, L) = DOMAIN old \cup DOMAIN new
  BY <1>0, <1>1 DEF KeysOf
<1>3. ASSUME NEW key \in KeysOf(h, L)
      PROVE  h[Max(HoldersOf(h, L, key))].labels[key] = IF key \in DOMAIN new THEN new[key] ELSE old[key]
  <2> DEFINE S == HoldersOf(h, L, key)
  <2>1. CASE key \in DOMAIN new
    <3>0. i \in S /\ S \subseteq K \cup {i}
      BY <2>1 DEF HoldersOf
    <3>1. i \in S /\ S \in SUBSET Int /\ \A y \in S : i >= y
      <4> HIDE DEF S
      <4> QED BY <3>0
    <3> HIDE DEF S
    <3>2. Max(S) = i
      BY <3>1, MaxIs
    <3> QED BY <2>1, <3>2 DEF S
  <2>2. CASE key \notin DOMAIN new
    <3>1. S = HoldersOf(h, K, key)
      BY <1>1, <2>2
    <3>2. key \in KeysOf(h, K)
      BY <1>0, <1>2, <1>3, <2>2
    <3> QED BY <1>0, <2>2, <3>1, <3>2
  <2> QED BY <2>1, <2>2
<1>4. LabelsOf(h, L) = [key \in KeysOf(h, L) |-> h[Max(HoldersOf(h, L, key))].labels[key]]
  BY DEF LabelsOf
<1>5. Over(old, new) = [k \in DOMAIN old \cup DOMAIN new |-> IF k \in DOMAIN new THEN new[k] ELSE old[k]]
  BY DEF Over
<1> HIDE DEF new, L
<1>6. LabelsOf(h, L) = Over(old, new)
  BY <1>2, <1>3, <1>4, <1>5
<1> QED BY <1>6 DEF L, new

\* Reading message k + 1 into what the first k left leaves what it shows.
LEMMA LeftNext ==
  ASSUME NEW h, NEW k \in Nat, DOMAIN h[k + 1].labels \subseteq Byte,
         NEW data \in BOOLEAN, NEW again \in BOOLEAN
  PROVE  IntoBy(LeftBy(h, data, again, k), h[k + 1], data) = LeftoverOf(h, data, ShownBy(again, k + 1))
<1> DEFINE i == k + 1
           m == h[i]
           old == LeftBy(h, data, again, k)
           K == IF again THEN 1..k ELSE {}
           fits == Len(m.name.str) < NameSize - 1
<1>1. i \in Nat /\ K \subseteq 1..(i - 1) /\ ShownBy(again, i) = K \cup {i}
  BY DEF ShownBy
<1>2. TellersOf(h, {}) = {} /\ KeysOf(h, {}) = {}
  BY DEF TellersOf, KeysOf, HoldersOf
<1>3. old.garbage = GarbageOf(h, K)
  <2>1. CASE again /\ k > 0
    BY <2>1 DEF LeftBy, LeftoverOf
  <2>2. CASE ~(again /\ k > 0)
    <3>1. K = {}
      BY <2>2
    <3>2. old.garbage = << >>
      BY <2>2 DEF LeftBy, NewObject
    <3> QED BY <1>2, <3>1, <3>2 DEF GarbageOf
  <2> QED BY <2>1, <2>2
<1>4. data => /\ DOMAIN old.labels = KeysOf(h, K)
              /\ \A key \in KeysOf(h, K) : old.labels[key] = h[Max(HoldersOf(h, K, key))].labels[key]
  <2>1. CASE again /\ k > 0
    BY <2>1 DEF LeftBy, LeftoverOf, LabelsOf
  <2>2. CASE ~(again /\ k > 0)
    <3>1. K = {}
      BY <2>2
    <3>2. old.labels = << >>
      BY <2>2 DEF LeftBy, NewObject
    <3>3. DOMAIN old.labels = {}
      BY <3>2
    <3> QED BY <1>2, <3>1, <3>3
  <2> QED BY <2>1, <2>2
<1>5. ~data => old.labels = << >>
  BY DEF LeftBy, LeftoverOf, NewObject
<1>6. GarbageOf(h, K \cup {i}) = IF fits THEN Kept(m.name) ELSE old.garbage
  <2> HIDE DEF K, old
  <2> QED BY <1>1, <1>3, GarbageGrows
<1>7. data => LabelsOf(h, K \cup {i}) = Over(old.labels, m.labels)
  <2> SUFFICES ASSUME data PROVE LabelsOf(h, K \cup {i}) = Over(old.labels, m.labels)
    OBVIOUS
  <2> DEFINE l == old.labels
  <2> HIDE DEF K, old
  <2>1. Shows(l, h, K)
    BY <1>4 DEF Shows
  <2>3. i \in Nat /\ K \subseteq 1..(i - 1) /\ DOMAIN h[i].labels \subseteq Byte
    BY <1>1
  <2> HIDE DEF l, i
  <2>2. LabelsOf(h, K \cup {i}) = Over(l, h[i].labels)
    BY <2>1, <2>3, LabelsGrow
  <2> QED BY <2>2 DEF l
<1> DEFINE x == [garbage |-> IF fits THEN Kept(m.name) ELSE old.garbage,
                 labels |-> IF data THEN Over(old.labels, m.labels) ELSE old.labels]
<1>8. IntoBy(old, m, data) = x
  BY DEF IntoBy
<1>9. LeftoverOf(h, data, K \cup {i}) =
         [garbage |-> GarbageOf(h, K \cup {i}), labels |-> IF data THEN LabelsOf(h, K \cup {i}) ELSE << >>]
  BY DEF LeftoverOf
<1> HIDE DEF K, old, fits, m
<1>10. LeftoverOf(h, data, K \cup {i}) = x
  BY <1>5, <1>6, <1>7, <1>9
<1> HIDE DEF x, i
<1>11. IntoBy(old, m, data) = LeftoverOf(h, data, ShownBy(again, i))
  BY <1>1, <1>8, <1>10
<1> QED BY <1>11 DEF old, m, i

\* Later messages do not change what the earlier ones leave.
LEMMA LeftoverSame ==
  ASSUME NEW h, NEW g, NEW n \in Nat, NEW K, K \subseteq 1..n, \A j \in 1..n : g[j] = h[j]
  PROVE  GarbageOf(g, K) = GarbageOf(h, K) /\ LabelsOf(g, K) = LabelsOf(h, K)
<1>1. TellersOf(g, K) = TellersOf(h, K)
  BY DEF TellersOf
<1>2. \A key : HoldersOf(g, K, key) = HoldersOf(h, K, key)
  BY DEF HoldersOf
<1>3. GarbageOf(g, K) = GarbageOf(h, K)
  <2> DEFINE S == TellersOf(h, K)
  <2>0. S \subseteq K
    BY DEF TellersOf
  <2>1. S \in SUBSET (0..n) /\ S \subseteq 1..n
    <3> HIDE DEF S
    <3> QED BY <2>0
  <2>2. GarbageOf(g, K) = IF S = {} THEN << >> ELSE Kept(g[Max(S)].name)
    BY <1>1 DEF GarbageOf
  <2>3. GarbageOf(h, K) = IF S = {} THEN << >> ELSE Kept(h[Max(S)].name)
    BY DEF GarbageOf
  <2> HIDE DEF S
  <2>4. S # {} => g[Max(S)] = h[Max(S)]
    <3>1. S # {} => Max(S) \in S
      BY <2>1, MaxExists
    <3> QED BY <2>1, <3>1
  <2> QED BY <2>2, <2>3, <2>4
<1>4. KeysOf(g, K) = KeysOf(h, K)
  BY <1>2 DEF KeysOf
<1>5. ASSUME NEW key \in KeysOf(h, K)
      PROVE  g[Max(HoldersOf(g, K, key))].labels[key] = h[Max(HoldersOf(h, K, key))].labels[key]
  <2> DEFINE S == HoldersOf(h, K, key)
  <2>0. S \subseteq K /\ S # {}
    BY <1>5 DEF HoldersOf, KeysOf
  <2>1. S \in SUBSET (0..n) /\ S \subseteq 1..n /\ S # {}
    <3> HIDE DEF S
    <3> QED BY <2>0
  <2>2. HoldersOf(g, K, key) = S
    BY <1>2
  <2> HIDE DEF S
  <2>3. Max(S) \in S
    BY <2>1, MaxExists
  <2>4. g[Max(S)] = h[Max(S)]
    BY <2>1, <2>3
  <2> QED BY <2>2, <2>4 DEF S
<1>6. LabelsOf(g, K) = LabelsOf(h, K)
  BY <1>4, <1>5 DEF LabelsOf
<1> QED BY <1>3, <1>6

-----------------------------------------------------------------------------
(* The two buffers.                                                        *)

\* The bytes that wait in the sender's buffer.
Queued(b) == SubSeq(b.m_internal, b.m_posRead + 1, b.m_posWrite)

\* The sender's buffer: nothing before the read position if it grows, and empty only at the
\* start if it does not.
OutOK(b) ==
    /\ BufferOK(b, Byte) /\ b.m_posRead <= b.m_posWrite /\ ~b.m_eofRead
    /\ b.m_resizeEnabled => b.m_posRead = 0
    /\ ~b.m_resizeEnabled => b.m_size = Capacity /\ (b.m_posRead = b.m_posWrite => b.m_posWrite = 0)

\* The receiver's buffer holds what has arrived and was not read.
InOK(b) ==
    /\ BufferOK(b, Byte) /\ b.m_resizeEnabled /\ ~b.m_eofRead
    /\ b.m_posRead = 0 /\ b.m_posWrite = b.m_size

\* Zero is a byte.
LEMMA ZeroIsByte == 0 \in Byte
BY BaseType DEF Byte

\* The fields of a buffer in order.
LEMMA BufferFields ==
  ASSUME NEW b, BufferOK(b, Byte)
  PROVE  /\ b \in Buffer(Byte) /\ b.m_internal \in Seq(Byte) /\ Len(b.m_internal) = b.m_size
         /\ b.m_size \in Nat /\ b.m_posRead \in Nat /\ b.m_posWrite \in Nat /\ b.m_posWrite <= b.m_size
         /\ b.m_eofRead \in BOOLEAN /\ b.m_resizeEnabled \in BOOLEAN
<1> HIDE DEF Byte
<1> QED BY DEF BufferOK, Buffer, ByteArray

\* The bytes between the two positions.
LEMMA QueuedType ==
  ASSUME NEW b, BufferOK(b, Byte), b.m_posRead <= b.m_posWrite
  PROVE  /\ Queued(b) \in Seq(Byte) /\ Len(Queued(b)) = b.m_posWrite - b.m_posRead
         /\ \A i \in 1..(b.m_posWrite - b.m_posRead) : Queued(b)[i] = b.m_internal[b.m_posRead + i]
<1> DEFINE a == b.m_internal
           p == b.m_posRead
           q == b.m_posWrite
<1>1. a \in Seq(Byte) /\ p \in Nat /\ q \in Nat /\ p <= q /\ q <= Len(a)
  BY BufferFields
<1>2. Queued(b) = SubSeq(a, p + 1, q)
  BY DEF Queued
<1> HIDE DEF a, p, q, Byte
<1>3. /\ SubSeq(a, p + 1, q) \in Seq(Byte) /\ Len(SubSeq(a, p + 1, q)) = q - p
      /\ \A i \in 1..(q - p) : SubSeq(a, p + 1, q)[i] = a[p + i]
  BY <1>1
<1> QED BY <1>2, <1>3 DEF a, p, q

\* Two sequences of bytes that agree, the first of them in two parts.
LEMMA JoinedSame ==
  ASSUME NEW a \in Seq(Byte), NEW c \in Seq(Byte), NEW d \in Seq(Byte), Len(d) = Len(a) + Len(c),
         \A i \in 1..Len(a) : d[i] = a[i], \A i \in 1..Len(c) : d[Len(a) + i] = c[i]
  PROVE  d = Join(a, c)
<1> DEFINE j == Join(a, c)
<1>1. /\ j \in Seq(Byte) /\ Len(j) = Len(a) + Len(c)
      /\ \A i \in 1..Len(a) : j[i] = a[i]
      /\ \A i \in 1..Len(c) : j[Len(a) + i] = c[i]
  <2>1. j \in Seq(Byte) /\ IsJoin(j, a, c)
    BY JoinIs
  <2> HIDE DEF j
  <2> QED BY <2>1 DEF IsJoin
<1>2. Len(a) \in Nat /\ Len(c) \in Nat
  OBVIOUS
<1> HIDE DEF j, Byte
<1>3. ASSUME NEW i \in 1..Len(d) PROVE d[i] = j[i]
  <2>1. CASE i <= Len(a)
    BY <1>1, <2>1
  <2>2. CASE ~(i <= Len(a))
    <3> DEFINE k == i - Len(a)
    <3>1. k \in 1..Len(c) /\ i = Len(a) + k
      BY <1>2, <1>3, <2>2
    <3> HIDE DEF k
    <3> QED BY <1>1, <3>1
  <2> QED BY <2>1, <2>2
<1>4. d = j
  BY <1>1, <1>3, SameSequence
<1> QED BY <1>4 DEF j

\* A message that was written waits behind the others.
LEMMA QueuedGrows ==
  ASSUME NEW s, Writing(s), OutOK(s.buf), s.ok, NEW t, NEW code \in Seq(Byte), Len(code) > 0, NEW fits,
         Writes(s, t, code, fits), t.ok
  PROVE  OutOK(t.buf) /\ Queued(t.buf) = Join(Queued(s.buf), code)
<1> DEFINE b == s.buf
           d == t.buf
           p == b.m_posRead
           q == b.m_posWrite
           n == Len(code)
<1>1. /\ WritesOn(s, t) /\ Before(d) = Join(Before(b), code)
  BY DEF Writes
<1>2. /\ t \in Streams({s.got})
      /\ d.m_posRead = p /\ d.m_eofRead = b.m_eofRead /\ d.m_resizeEnabled = b.m_resizeEnabled
      /\ (~b.m_resizeEnabled => d.m_size = b.m_size) /\ q <= d.m_posWrite
  BY <1>1 DEF WritesOn
<1>3. BufferOK(d, Byte) /\ BufferOK(b, Byte) /\ p <= q
  BY <1>2, StreamFields DEF OutOK
<1>4. n \in Nat /\ p \in Nat /\ q \in Nat /\ d.m_posWrite \in Nat
  BY <1>3, BufferFields
<1>5. /\ Before(b) \in Seq(Byte) /\ Len(Before(b)) = q /\ \A i \in 1..q : Before(b)[i] = b.m_internal[i]
      /\ Before(d) \in Seq(Byte) /\ Len(Before(d)) = d.m_posWrite
      /\ \A i \in 1..d.m_posWrite : Before(d)[i] = d.m_internal[i]
  BY <1>3, BeforeType
<1> HIDE DEF b, d, n
<1>6. /\ Len(Join(Before(b), code)) = q + n
      /\ \A i \in 1..q : Join(Before(b), code)[i] = Before(b)[i]
      /\ \A i \in 1..n : Join(Before(b), code)[q + i] = code[i]
  <2> DEFINE x == Before(b)
             j == Join(x, code)
  <2>1. x \in Seq(Byte) /\ Len(x) = q
    BY <1>5
  <2> HIDE DEF x, q
  <2>2. IsJoin(j, x, code)
    BY <2>1, JoinIs
  <2> HIDE DEF j
  <2>3. Len(j) = q + n /\ (\A i \in 1..q : j[i] = x[i]) /\ \A i \in 1..n : j[q + i] = code[i]
    BY <2>1, <2>2 DEF IsJoin, n
  <2> QED BY <2>3 DEF j, x
<1> HIDE DEF p, q
<1>7. /\ d.m_posWrite = q + n
      /\ \A i \in 1..q : d.m_internal[i] = b.m_internal[i]
      /\ \A i \in 1..n : d.m_internal[q + i] = code[i]
  <2>1. d.m_posWrite = q + n
    BY <1>1, <1>5, <1>6
  <2>2. \A i \in 1..q : d.m_internal[i] = b.m_internal[i]
    BY <1>1, <1>4, <1>5, <1>6, <2>1
  <2>3. ASSUME NEW i \in 1..n PROVE d.m_internal[q + i] = code[i]
    <3>1. q + i \in 1..d.m_posWrite
      BY <1>4, <2>1
    <3> QED BY <1>1, <1>5, <1>6, <3>1
  <2> QED BY <2>1, <2>2, <2>3
<1>8. OutOK(d)
  <2>1. /\ d.m_posRead <= d.m_posWrite /\ d.m_posRead # d.m_posWrite
    BY <1>2, <1>3, <1>4, <1>7 DEF n
  <2>2. OutOK(b)
    BY DEF b
  <2> QED BY <1>2, <1>3, <2>1, <2>2 DEF OutOK, p, q
<1>9. /\ Queued(b) \in Seq(Byte) /\ Len(Queued(b)) = q - p
      /\ \A i \in 1..(q - p) : Queued(b)[i] = b.m_internal[p + i]
  BY <1>3, QueuedType DEF p, q
<1>10. /\ Queued(d) \in Seq(Byte) /\ Len(Queued(d)) = q + n - p
       /\ \A i \in 1..(q + n - p) : Queued(d)[i] = d.m_internal[p + i]
  <2>1. BufferOK(d, Byte) /\ d.m_posRead <= d.m_posWrite
    BY <1>8 DEF OutOK
  <2>2. /\ Queued(d) \in Seq(Byte) /\ Len(Queued(d)) = d.m_posWrite - d.m_posRead
        /\ \A i \in 1..(d.m_posWrite - d.m_posRead) : Queued(d)[i] = d.m_internal[d.m_posRead + i]
    BY <2>1, QueuedType
  <2>3. d.m_posRead = p /\ d.m_posWrite = q + n
    BY <1>2, <1>7
  <2> DEFINE y == Queued(d)
  <2> HIDE DEF y
  <2>4. /\ y \in Seq(Byte) /\ Len(y) = d.m_posWrite - d.m_posRead
        /\ \A i \in 1..(d.m_posWrite - d.m_posRead) : y[i] = d.m_internal[d.m_posRead + i]
    BY <2>2 DEF y
  <2>5. /\ y \in Seq(Byte) /\ Len(y) = q + n - p
        /\ \A i \in 1..(q + n - p) : y[i] = d.m_internal[p + i]
    <3> DEFINE k == d.m_posWrite - d.m_posRead
    <3>1. k = q + n - p
      BY <1>4, <2>3
    <3>2. y \in Seq(Byte) /\ Len(y) = k /\ \A i \in 1..k : y[i] = d.m_internal[p + i]
      BY <2>3, <2>4
    <3> HIDE DEF k
    <3> QED BY <3>1, <3>2
  <2> QED BY <2>5 DEF y
<1>11. Queued(d) = Join(Queued(b), code)
  <2> DEFINE x == Queued(b)
             y == Queued(d)
  <2>1. /\ x \in Seq(Byte) /\ Len(x) = q - p /\ y \in Seq(Byte) /\ Len(y) = q + n - p
        /\ \A i \in 1..(q - p) : x[i] = b.m_internal[p + i]
        /\ \A i \in 1..(q + n - p) : y[i] = d.m_internal[p + i]
    BY <1>9, <1>10
  <2> HIDE DEF x, y
  <2>2. Len(y) = Len(x) + Len(code)
    BY <1>3, <1>4, <2>1 DEF n
  <2>3. ASSUME NEW i \in 1..Len(x) PROVE y[i] = x[i]
    <3>1. i \in 1..(q - p) /\ i \in 1..(q + n - p) /\ p + i \in 1..q
      BY <1>3, <1>4, <2>1, <2>3
    <3> QED BY <1>7, <2>1, <3>1
  <2>4. ASSUME NEW i \in 1..Len(code) PROVE y[Len(x) + i] = code[i]
    <3>1. Len(x) + i \in 1..(q + n - p) /\ p + (Len(x) + i) = q + i /\ i \in 1..n
      BY <1>3, <1>4, <2>1, <2>4 DEF n
    <3> QED BY <1>7, <2>1, <3>1
  <2>5. y = Join(x, code)
    BY <2>1, <2>2, <2>3, <2>4, JoinedSame
  <2> QED BY <2>5 DEF x, y
<1> QED BY <1>8, <1>11 DEF b, d

\* setSize of a buffer that may be resized resizes its storage.
LEMMA SetSizeResizes ==
  ASSUME NEW b, BufferOK(b, Byte), b.m_resizeEnabled, NEW n \in Nat
  PROVE  SetSize(b, n).m_internal = Resized(b.m_internal, n)
<1>1. 0 \in Byte
  BY ZeroIsByte
<1>2. b.m_resizeEnabled => /\ SetSize(b, n).m_size = n
                           /\ SetSize(b, n).m_internal = Resized(b.m_internal, n)
  BY <1>1, SetSizeKeepsOrder
<1> QED BY <1>2

\* What was written of a message that failed is taken back, and what waited before it still
\* waits.
THEOREM TakenBack ==
  ASSUME NEW s, OutOK(s.buf), NEW t, WritesOn(s, t)
  PROVE  /\ OutOK(TakeBack(t.buf, s.buf.m_posWrite))
         /\ Queued(TakeBack(t.buf, s.buf.m_posWrite)) = Queued(s.buf)
<1> DEFINE b == s.buf
           d == t.buf
           q == b.m_posWrite
           e == SetOffsetWrite(d, q)
           f == SetSize(e, q)
<1>1. /\ t \in Streams({s.got})
      /\ d.m_posRead = b.m_posRead /\ d.m_eofRead = b.m_eofRead /\ d.m_resizeEnabled = b.m_resizeEnabled
      /\ (~b.m_resizeEnabled => d.m_size = b.m_size) /\ q <= d.m_posWrite
      /\ \A i \in 1..q : d.m_internal[i] = b.m_internal[i]
  BY DEF WritesOn
<1>2. OutOK(b) /\ BufferOK(b, Byte) /\ BufferOK(d, Byte) /\ b.m_posRead <= q
  BY <1>1, StreamFields DEF OutOK
<1> HIDE DEF b, d
<1>3. /\ b.m_posRead \in Nat /\ q \in Nat /\ d.m_size \in Nat /\ d.m_posWrite \in Nat
      /\ d.m_posWrite <= d.m_size /\ d \in Buffer(Byte) /\ d.m_internal \in Seq(Byte)
      /\ Len(d.m_internal) = d.m_size
  BY <1>2, BufferFields
<1> HIDE DEF q
<1>4. /\ e \in Buffer(Byte) /\ e.m_internal = d.m_internal /\ e.m_size = d.m_size
      /\ e.m_posRead = d.m_posRead /\ e.m_posWrite = q /\ e.m_eofRead = d.m_eofRead
      /\ e.m_resizeEnabled = d.m_resizeEnabled
  BY <1>3 DEF SetOffsetWrite, Buffer
<1> HIDE DEF e
<1>5. BufferOK(e, Byte) /\ q <= e.m_size
  BY <1>1, <1>3, <1>4 DEF BufferOK
<1>6. TakeBack(d, q) = f
  BY DEF TakeBack, e
<1>7. /\ BufferOK(f, Byte) /\ f.m_posRead = b.m_posRead /\ f.m_posWrite = q /\ f.m_eofRead = b.m_eofRead
      /\ f.m_resizeEnabled = b.m_resizeEnabled /\ (~b.m_resizeEnabled => f.m_size = b.m_size)
      /\ \A i \in 1..q : f.m_internal[i] = b.m_internal[i]
  <2>1. CASE ~b.m_resizeEnabled
    <3>1. f = e
      BY <1>1, <1>4, <2>1 DEF SetSize
    <3> HIDE DEF f
    <3> QED BY <1>1, <1>4, <1>5, <3>1
  <2>2. CASE b.m_resizeEnabled
    <3>1. b.m_posRead = 0 /\ e.m_posRead = 0 /\ e.m_resizeEnabled
      BY <1>1, <1>2, <1>4, <2>2 DEF OutOK
    <3>2. /\ BufferOK(f, Byte) /\ f.m_resizeEnabled = e.m_resizeEnabled
          /\ (e.m_posRead <= q => f.m_eofRead = e.m_eofRead)
          /\ f.m_internal = Resized(e.m_internal, q)
          /\ f.m_posWrite = IF e.m_posWrite <= q THEN e.m_posWrite ELSE 0
          /\ f.m_posRead = IF e.m_posRead <= q THEN e.m_posRead ELSE 0
      <4> HIDE DEF f
      <4>1. f = SetSize(e, q) /\ 0 \in Byte
        BY ZeroIsByte DEF f
      <4>2. BufferOK(f, Byte) /\ f.m_resizeEnabled = e.m_resizeEnabled
        BY <1>3, <1>5, <4>1, SetSizeKeepsOrder
      <4>3. e.m_posRead <= q => f.m_eofRead = e.m_eofRead
        BY <1>3, <1>5, <4>1, SetSizeKeepsOrder
      <4> DEFINE g == SetSize(e, q)
      <4>4. e.m_resizeEnabled => g.m_internal = Resized(e.m_internal, q)
        BY <1>3, <1>5, SetSizeResizes
      <4>5. e.m_resizeEnabled => g.m_posWrite = IF e.m_posWrite <= q THEN e.m_posWrite ELSE 0
        BY <1>3, <1>5, <4>1, SetSizeKeepsOrder
      <4>6. e.m_resizeEnabled => g.m_posRead = IF e.m_posRead <= q THEN e.m_posRead ELSE 0
        BY <1>3, <1>5, <4>1, SetSizeKeepsOrder
      <4> HIDE DEF g
      <4>7. f = g
        BY DEF f, g
      <4> QED BY <3>1, <4>2, <4>3, <4>4, <4>5, <4>6, <4>7
    <3> HIDE DEF f
    <3>3. \A i \in 1..q : Resized(e.m_internal, q)[i] = d.m_internal[i]
      BY <1>1, <1>3, <1>4, <1>5 DEF Resized
    <3> QED BY <1>1, <1>3, <1>4, <2>2, <3>1, <3>2, <3>3
  <2> QED BY <2>1, <2>2
<1> HIDE DEF f
<1>8. OutOK(f)
  BY <1>2, <1>7 DEF OutOK, q
<1>9. Queued(f) = Queued(b)
  <2> DEFINE p == b.m_posRead
             x == Queued(b)
             y == Queued(f)
  <2>1. /\ x \in Seq(Byte) /\ Len(x) = q - p
        /\ \A i \in 1..(q - p) : x[i] = b.m_internal[p + i]
    BY <1>2, QueuedType DEF q
  <2>2. /\ y \in Seq(Byte) /\ Len(y) = q - p
        /\ \A i \in 1..(q - p) : y[i] = f.m_internal[p + i]
    <3>1. f.m_posRead = p /\ f.m_posWrite = q /\ f.m_posRead <= f.m_posWrite /\ BufferOK(f, Byte)
      BY <1>2, <1>7
    <3>2. /\ y \in Seq(Byte) /\ Len(y) = f.m_posWrite - f.m_posRead
          /\ \A i \in 1..(f.m_posWrite - f.m_posRead) : y[i] = f.m_internal[f.m_posRead + i]
      BY <3>1, QueuedType
    <3> HIDE DEF y, p
    <3> QED BY <3>1, <3>2
  <2>3. p \in Nat /\ p <= q
    BY <1>2, <1>3
  <2> HIDE DEF x, y, p
  <2>4. ASSUME NEW i \in 1..Len(y) PROVE y[i] = x[i]
    <3>1. i \in 1..(q - p) /\ p + i \in 1..q
      BY <1>3, <2>2, <2>3, <2>4
    <3> QED BY <1>7, <2>1, <2>2, <3>1
  <2>5. y = x
    BY <2>1, <2>2, <2>4, SameSequence
  <2> QED BY <2>5 DEF x, y
<1> QED BY <1>6, <1>8, <1>9 DEF b, d, q

\* A buffer whose positions are n bytes nearer to each other has n bytes less waiting.
LEMMA QueueCarried ==
  ASSUME NEW b, BufferOK(b, Byte), b.m_posRead <= b.m_posWrite, NEW n \in 1..Waiting(b),
         NEW d, BufferOK(d, Byte), d.m_posRead <= d.m_posWrite,
         d.m_posWrite - d.m_posRead = b.m_posWrite - (b.m_posRead + n),
         \A i \in 1..(d.m_posWrite - d.m_posRead) :
            d.m_internal[d.m_posRead + i] = b.m_internal[b.m_posRead + n + i]
  PROVE  /\ Queued(b) = Join(Remaining(b, n), Queued(d))
         /\ Remaining(b, n) \in Seq(Byte) /\ Len(Remaining(b, n)) = n
<1> DEFINE p == b.m_posRead
           q == b.m_posWrite
           x == Queued(b)
           y == Queued(d)
           z == Remaining(b, n)
           a == b.m_internal
           r == d.m_posWrite - d.m_posRead
<1>1. /\ p \in Nat /\ q \in Nat /\ p <= q /\ q <= Len(a) /\ a \in Seq(Byte) /\ Len(a) \in Nat
      /\ n \in Nat /\ 0 < n /\ p + n <= q
  BY BufferFields DEF Waiting
<1>2. /\ x \in Seq(Byte) /\ Len(x) = q - p /\ \A i \in 1..(q - p) : x[i] = a[p + i]
  BY QueuedType
<1>3. /\ y \in Seq(Byte) /\ Len(y) = r /\ \A i \in 1..r : y[i] = d.m_internal[d.m_posRead + i]
  BY QueuedType
<1>4. r = q - (p + n) /\ \A i \in 1..r : d.m_internal[d.m_posRead + i] = a[p + n + i]
  OBVIOUS
<1>5. z = SubSeq(a, p + 1, p + n)
  BY DEF Remaining
<1> HIDE DEF p, q, a, x, y, r, z
<1>6. z \in Seq(Byte) /\ Len(z) = n /\ \A i \in 1..n : z[i] = a[p + i]
  BY <1>1, <1>5
<1>7. Len(x) = Len(z) + Len(y)
  BY <1>1, <1>2, <1>3, <1>4, <1>6
<1>8. ASSUME NEW i \in 1..Len(z) PROVE x[i] = z[i]
  <2>1. i \in 1..n /\ i \in 1..(q - p)
    BY <1>1, <1>6, <1>8
  <2> QED BY <1>2, <1>6, <2>1
<1>9. ASSUME NEW i \in 1..Len(y) PROVE x[Len(z) + i] = y[i]
  <2>1. i \in 1..r /\ n + i \in 1..(q - p) /\ p + (n + i) = p + n + i
    BY <1>1, <1>3, <1>4, <1>9
  <2> QED BY <1>2, <1>3, <1>4, <1>6, <2>1
<1>10. x = Join(z, y)
  BY <1>3, <1>2, <1>6, <1>7, <1>8, <1>9, JoinedSame
<1> QED BY <1>6, <1>10 DEF x, y, z

\* What is carried are the first bytes that wait; the others go on waiting.
THEOREM CarriedKeeps ==
  ASSUME NEW b, OutOK(b), NEW n \in 1..Waiting(b)
  PROVE  /\ OutOK(Carried(b, n)) /\ Queued(b) = Join(Remaining(b, n), Queued(Carried(b, n)))
         /\ Remaining(b, n) \in Seq(Byte) /\ Len(Remaining(b, n)) = n
<1> DEFINE p == b.m_posRead
           q == b.m_posWrite
           a == b.m_internal
           d == Carried(b, n)
<1>1. /\ b \in Buffer(Byte) /\ BufferOK(b, Byte) /\ p \in Nat /\ q \in Nat /\ p <= q /\ q <= b.m_size
      /\ a \in Seq(Byte) /\ Len(a) = b.m_size /\ b.m_size \in Nat /\ ~b.m_eofRead
      /\ n \in Nat /\ 0 < n /\ p + n <= q
  BY BufferFields DEF Waiting, OutOK
<1>2. CASE b.m_resizeEnabled
  <2>1. d = RemoveFromStart(b, n) /\ p = 0
    BY <1>2 DEF Carried, OutOK
  <2>2. CASE n >= b.m_size
    <3>1. n = b.m_size /\ q = n
      BY <1>1, <2>1, <2>2
    <3>2. d = SetSize(b, 0)
      BY <1>1, <2>1, <2>2 DEF RemoveFromStart
    <3>3. /\ BufferOK(SetSize(b, 0), Byte) /\ SetSize(b, 0).m_resizeEnabled = b.m_resizeEnabled
          /\ (b.m_posRead <= 0 => SetSize(b, 0).m_eofRead = b.m_eofRead)
          /\ SetSize(b, 0).m_posWrite = IF b.m_posWrite <= 0 THEN b.m_posWrite ELSE 0
          /\ SetSize(b, 0).m_posRead = IF b.m_posRead <= 0 THEN b.m_posRead ELSE 0
      BY <1>1, <1>2, ZeroIsByte, SetSizeKeepsOrder
    <3> HIDE DEF d
    <3>4. /\ BufferOK(d, Byte) /\ d.m_resizeEnabled /\ ~d.m_eofRead /\ d.m_posWrite = 0 /\ d.m_posRead = 0
      <4>1. b.m_posRead = 0 /\ b.m_posWrite = n /\ ~(n <= 0)
        BY <1>1, <2>1, <3>1
      <4>5. BufferOK(d, Byte)
        BY <3>2, <3>3
      <4>6. d.m_resizeEnabled = b.m_resizeEnabled
        BY <3>2, <3>3
      <4>7. d.m_eofRead = b.m_eofRead
        BY <3>2, <3>3, <4>1
      <4>2. BufferOK(d, Byte) /\ d.m_resizeEnabled /\ ~d.m_eofRead
        BY <1>1, <1>2, <4>5, <4>6, <4>7
      <4>3. d.m_posWrite = 0
        BY <3>2, <3>3, <4>1
      <4>4. d.m_posRead = 0
        BY <3>2, <3>3, <4>1
      <4> QED BY <4>2, <4>3, <4>4
    <3>5. OutOK(d)
      BY <3>4 DEF OutOK
    <3>6. b.m_posWrite - (b.m_posRead + n) = 0 /\ b.m_posRead <= b.m_posWrite
      BY <1>1, <2>1, <3>1
    <3>7. d.m_posWrite - d.m_posRead = 0 /\ d.m_posRead <= d.m_posWrite
      BY <3>4
    <3>8. \A i \in 1..(d.m_posWrite - d.m_posRead) :
            d.m_internal[d.m_posRead + i] = b.m_internal[b.m_posRead + n + i]
      BY <3>7
    <3>9. d.m_posWrite - d.m_posRead = b.m_posWrite - (b.m_posRead + n)
      BY <3>6, <3>7
    <3>10. /\ Queued(b) = Join(Remaining(b, n), Queued(d))
           /\ Remaining(b, n) \in Seq(Byte) /\ Len(Remaining(b, n)) = n
      BY <1>1, <3>4, <3>6, <3>7, <3>8, <3>9, QueueCarried
    <3> QED BY <3>5, <3>10 DEF d
  <2>3. CASE ~(n >= b.m_size)
    <3> DEFINE rest == SubSeq(a, n + 1, Len(a))
    <3>1. d = [b EXCEPT !.m_internal = rest, !.m_size = b.m_size - n,
                        !.m_posRead = NotBelowZero(p - n), !.m_posWrite = NotBelowZero(q - n)]
      BY <1>1, <2>1, <2>3 DEF RemoveFromStart, Buffer
    <3>2. NotBelowZero(p - n) = 0 /\ NotBelowZero(q - n) = q - n
      BY <1>1, <2>1 DEF NotBelowZero
    <3>3. BufferOK(d, Byte)
      BY <1>1, <2>1, ZeroIsByte, RemoveKeepsOrder
    <3>4. /\ d.m_posRead = 0 /\ d.m_posWrite = q - n /\ d.m_internal = rest
          /\ d.m_eofRead = b.m_eofRead /\ d.m_resizeEnabled = b.m_resizeEnabled
      <4> HIDE DEF d, p, q, rest
      <4> QED BY <1>1, <3>1, <3>2 DEF Buffer
    <3> HIDE DEF d
    <3>5. OutOK(d)
      BY <1>1, <1>2, <2>1, <3>3, <3>4 DEF OutOK
    <3>6. \A i \in 1..(q - n) : rest[i] = a[n + i]
      <4> HIDE DEF a, q
      <4> QED BY <1>1, <2>3
    <3>7. d.m_posWrite - d.m_posRead = b.m_posWrite - (b.m_posRead + n)
          /\ d.m_posRead <= d.m_posWrite
      BY <1>1, <2>1, <3>4
    <3>8. ASSUME NEW i \in 1..(d.m_posWrite - d.m_posRead)
          PROVE  d.m_internal[d.m_posRead + i] = b.m_internal[b.m_posRead + n + i]
      <4> HIDE DEF a, q, rest
      <4>1. i \in 1..(q - n) /\ d.m_posRead + i = i
        BY <1>1, <3>4, <3>8
      <4>2. b.m_posRead + n + i = n + i
        BY <1>1, <2>1, <4>1
      <4> QED BY <3>4, <3>6, <4>1, <4>2 DEF a
    <3>9. /\ Queued(b) = Join(Remaining(b, n), Queued(d))
          /\ Remaining(b, n) \in Seq(Byte) /\ Len(Remaining(b, n)) = n
      BY <1>1, <3>3, <3>7, <3>8, QueueCarried
    <3> QED BY <3>5, <3>9 DEF d
  <2> QED BY <2>2, <2>3
<1>3. CASE ~b.m_resizeEnabled
  <2> DEFINE e == MarkRead(b, n)
  <2>1. d = Rewind(e) /\ b.m_size = Capacity
    BY <1>3 DEF Carried, OutOK
  <2>2. /\ e \in Buffer(Byte) /\ e.m_internal = a /\ e.m_size = b.m_size /\ e.m_posRead = p + n
        /\ e.m_posWrite = q /\ e.m_eofRead = b.m_eofRead /\ e.m_resizeEnabled = b.m_resizeEnabled
    <3>1. p + n \in Nat
      BY <1>1
    <3> QED BY <1>1, <3>1 DEF MarkRead, Buffer
  <2> HIDE DEF e, d
  <2>3. BufferOK(e, Byte) /\ e.m_posRead <= e.m_posWrite
    BY <1>1, <2>2 DEF BufferOK
  <2>4. \A i \in 1..(e.m_posWrite - e.m_posRead) :
            e.m_internal[e.m_posRead + i] = b.m_internal[b.m_posRead + n + i]
    BY <2>2
  <2>5. CASE p + n = q
    <3>1. d = ResetWrite(ResetRead(e))
      BY <1>1, <2>1, <2>2, <2>5 DEF Rewind, Waiting, Reset
    <3>2. /\ d \in Buffer(Byte) /\ d.m_posRead = 0 /\ d.m_posWrite = 0 /\ ~d.m_eofRead
          /\ d.m_resizeEnabled = b.m_resizeEnabled /\ d.m_size = b.m_size /\ d.m_internal = a
      <4> DEFINE r == ResetRead(e)
      <4>1. /\ r \in Buffer(Byte) /\ r.m_size = b.m_size /\ r.m_internal = a /\ r.m_posRead = 0
            /\ r.m_eofRead = FALSE /\ r.m_resizeEnabled = b.m_resizeEnabled
        BY <2>2, ResetReadType
      <4> HIDE DEF r
      <4>2. d = ResetWrite(r)
        BY <3>1 DEF r
      <4> QED BY <4>1, <4>2, ResetWriteType
    <3>3. BufferOK(d, Byte)
      BY <1>1, <3>2 DEF BufferOK
    <3>4. OutOK(d)
      BY <1>3, <2>1, <3>2, <3>3 DEF OutOK
    <3>5. b.m_posWrite - (b.m_posRead + n) = 0 /\ b.m_posRead <= b.m_posWrite
      BY <1>1, <2>5
    <3>6. d.m_posWrite - d.m_posRead = 0 /\ d.m_posRead <= d.m_posWrite
      BY <3>2
    <3>7. \A i \in 1..(d.m_posWrite - d.m_posRead) :
            d.m_internal[d.m_posRead + i] = b.m_internal[b.m_posRead + n + i]
      BY <3>6
    <3>8. d.m_posWrite - d.m_posRead = b.m_posWrite - (b.m_posRead + n)
      BY <3>5, <3>6
    <3>9. /\ Queued(b) = Join(Remaining(b, n), Queued(d))
          /\ Remaining(b, n) \in Seq(Byte) /\ Len(Remaining(b, n)) = n
      BY <1>1, <3>3, <3>5, <3>6, <3>7, <3>8, QueueCarried
    <3> QED BY <3>4, <3>9 DEF d
  <2>6. CASE p + n # q
    <3>1. d = e
      <4>1. Waiting(e) # 0
        BY <1>1, <2>2, <2>6 DEF Waiting
      <4> QED BY <2>1, <4>1 DEF Rewind
    <3>2. OutOK(d)
      BY <1>1, <1>3, <2>1, <2>2, <2>3, <2>6, <3>1 DEF OutOK
    <3>3. b.m_posRead <= b.m_posWrite /\ d.m_posWrite - d.m_posRead = b.m_posWrite - (b.m_posRead + n)
      BY <1>1, <2>2, <3>1
    <3>4. BufferOK(d, Byte) /\ d.m_posRead <= d.m_posWrite
      BY <2>3, <3>1
    <3>5. \A i \in 1..(d.m_posWrite - d.m_posRead) :
            d.m_internal[d.m_posRead + i] = b.m_internal[b.m_posRead + n + i]
      BY <2>4, <3>1
    <3>6. /\ Queued(b) = Join(Remaining(b, n), Queued(d))
          /\ Remaining(b, n) \in Seq(Byte) /\ Len(Remaining(b, n)) = n
      BY <1>1, <3>3, <3>4, <3>5, QueueCarried
    <3> QED BY <3>2, <3>6 DEF d
  <2> QED BY <2>5, <2>6
<1> QED BY <1>1, <1>2, <1>3, BufferFields

\* In a buffer written to its end all bytes stand before the write position.
LEMMA BeforeAll ==
  ASSUME NEW b, BufferOK(b, Byte), b.m_posWrite = b.m_size
  PROVE  Before(b) = b.m_internal
<1> DEFINE a == b.m_internal
<1>1. a \in Seq(Byte) /\ Len(a) = b.m_posWrite
  BY BufferFields
<1>2. Before(b) = SubSeq(a, 1, Len(a))
  BY <1>1 DEF Before
<1> HIDE DEF a
<1>3. SubSeq(a, 1, Len(a)) = a
  BY <1>1
<1> QED BY <1>2, <1>3 DEF a

\* What is carried follows what has arrived.
LEMMA Delivered ==
  ASSUME NEW s, Writing(s), InOK(s.buf), s.ok, NEW bytes \in Seq(Byte), NEW t, Writes(s, t, bytes, TRUE)
  PROVE  InOK(t.buf) /\ t.buf.m_internal = Join(s.buf.m_internal, bytes)
<1> DEFINE b == s.buf
           d == t.buf
<1>1. MayWrite(b, Len(bytes))
  BY DEF MayWrite, InOK
<1>2. WritesOn(s, t) /\ t.ok /\ Before(d) = Join(Before(b), bytes)
  BY <1>1 DEF Writes
<1>3. /\ t \in Streams({s.got}) /\ d.m_posRead = b.m_posRead /\ d.m_eofRead = b.m_eofRead
      /\ d.m_resizeEnabled = b.m_resizeEnabled /\ d.m_posWrite = d.m_size
  BY <1>2 DEF WritesOn, InOK
<1>4. BufferOK(d, Byte) /\ BufferOK(b, Byte) /\ b.m_posWrite = b.m_size
  BY <1>3, StreamFields DEF InOK
<1>5. InOK(b)
  OBVIOUS
<1> HIDE DEF b, d
<1>6. InOK(d)
  BY <1>3, <1>4, <1>5 DEF InOK
<1>7. Before(d) = d.m_internal /\ Before(b) = b.m_internal
  BY <1>3, <1>4, BeforeAll
<1> QED BY <1>2, <1>6, <1>7 DEF b, d

\* What is left of a without its first n elements.
IsRest(x, a, n) == Len(x) = Len(a) - n /\ \A i \in 1..Len(x) : x[i] = a[n + i]

\* What follows after the first of two sequences is taken away.
LEMMA JoinRest ==
  ASSUME NEW a \in Seq(Byte), NEW q \in Seq(Byte), NEW head \in Seq(Byte), NEW rest \in Seq(Byte),
         Join(a, q) = Join(head, rest), Len(head) <= Len(a),
         NEW x \in Seq(Byte), IsRest(x, a, Len(head))
  PROVE  Join(x, q) = rest
<1> DEFINE j == Join(a, q)
<1>1. j = Join(head, rest)
  OBVIOUS
<1>2. IsJoin(j, a, q) /\ IsJoin(Join(head, rest), head, rest)
  BY JoinIs
<1> HIDE DEF j
<1>3. IsJoin(j, a, q) /\ IsJoin(j, head, rest)
  BY <1>1, <1>2
<1>4. /\ Len(a) \in Nat /\ Len(q) \in Nat /\ Len(head) \in Nat /\ Len(rest) \in Nat /\ Len(x) \in Nat
  OBVIOUS
<1>10. Len(j) = Len(a) + Len(q)
  BY <1>3 DEF IsJoin
<1>11. Len(j) = Len(head) + Len(rest)
  BY <1>3 DEF IsJoin
<1>12. \A i \in 1..Len(a) : j[i] = a[i]
  BY <1>3 DEF IsJoin
<1>13. \A i \in 1..Len(q) : j[Len(a) + i] = q[i]
  BY <1>3 DEF IsJoin
<1>14. \A i \in 1..Len(rest) : j[Len(head) + i] = rest[i]
  <2>1. IsJoin(j, head, rest)
    BY <1>3
  <2> QED BY <2>1 DEF IsJoin
<1>15. Len(a) + Len(q) = Len(head) + Len(rest) /\ Len(x) = Len(a) - Len(head)
  BY <1>10, <1>11 DEF IsRest
<1>6. Len(rest) = Len(x) + Len(q)
  <2> DEFINE la == Len(a)
             lq == Len(q)
             lh == Len(head)
             lr == Len(rest)
             lx == Len(x)
  <2>1. la \in Nat /\ lq \in Nat /\ lh \in Nat /\ lr \in Nat /\ lx \in Nat
    BY <1>4
  <2>2. la + lq = lh + lr /\ lx = la - lh
    BY <1>15
  <2> HIDE DEF la, lq, lh, lr, lx
  <2>3. lr = lx + lq
    BY <2>1, <2>2
  <2> QED BY <2>3 DEF lr, lx, lq
<1>7. ASSUME NEW i \in 1..Len(x) PROVE rest[i] = x[i]
  <2>1. i \in 1..Len(rest) /\ Len(head) + i \in 1..Len(a)
    BY <1>4, <1>6, <1>7, <1>15
  <2>2. j[Len(head) + i] = rest[i] /\ j[Len(head) + i] = a[Len(head) + i] /\ x[i] = a[Len(head) + i]
    BY <1>12, <1>14, <2>1 DEF IsRest
  <2> QED BY <2>2
<1>8. ASSUME NEW i \in 1..Len(q) PROVE rest[Len(x) + i] = q[i]
  <2>1. Len(x) + i \in 1..Len(rest) /\ Len(head) + (Len(x) + i) = Len(a) + i
    BY <1>4, <1>6, <1>8, <1>15
  <2>2. j[Len(head) + (Len(x) + i)] = rest[Len(x) + i] /\ j[Len(a) + i] = q[i]
    BY <1>13, <1>14, <2>1
  <2> QED BY <2>1, <2>2
<1>9. rest = Join(x, q)
  BY <1>6, <1>7, <1>8, JoinedSame
<1> QED BY <1>9

\* A message that was read goes, and what arrived behind it comes next.
LEMMA Removed ==
  ASSUME NEW b, BufferOK(b, Byte), b.m_resizeEnabled, ~b.m_eofRead, b.m_posWrite = b.m_size,
         NEW n \in Nat \ {0}, b.m_posRead = n, n <= b.m_size
  PROVE  /\ InOK(RemoveFromStart(b, n))
         /\ RemoveFromStart(b, n).m_internal \in Seq(Byte)
         /\ Len(RemoveFromStart(b, n).m_internal) = b.m_size - n
         /\ \A i \in 1..(b.m_size - n) : RemoveFromStart(b, n).m_internal[i] = b.m_internal[n + i]
<1> DEFINE d == RemoveFromStart(b, n)
           a == b.m_internal
           z == b.m_size
<1>1. /\ b \in Buffer(Byte) /\ z \in Nat /\ a \in Seq(Byte) /\ Len(a) = z /\ n \in Nat /\ n # 0
  BY BufferFields
<1>2. BufferOK(d, Byte)
  BY ZeroIsByte, RemoveKeepsOrder
<1>3. CASE n = z
  <2> DEFINE f == SetSize(b, 0)
  <2>1. d = f
    BY <1>1, <1>3 DEF RemoveFromStart
  <2>2. ~(n <= 0)
    BY <1>1
  <2>3. SetSize(b, 0).m_resizeEnabled = b.m_resizeEnabled
    BY ZeroIsByte, SetSizeKeepsOrder
  <2>4. b.m_resizeEnabled => SetSize(b, 0).m_size = 0
    BY ZeroIsByte, SetSizeKeepsOrder
  <2>5. b.m_resizeEnabled => SetSize(b, 0).m_posWrite = IF b.m_posWrite <= 0 THEN b.m_posWrite ELSE 0
    BY ZeroIsByte, SetSizeKeepsOrder
  <2>6. b.m_resizeEnabled => SetSize(b, 0).m_posRead = IF b.m_posRead <= 0 THEN b.m_posRead ELSE 0
    BY ZeroIsByte, SetSizeKeepsOrder
  <2>7. SetSize(b, 0).m_eofRead = FALSE
    <3> DEFINE grown == IF 0 # b.m_size THEN SetMaximumSize(b, 0) ELSE b
               sized == [grown EXCEPT !.m_size = 0]
               read == IF RemainRead(sized) < 0 THEN ResetRead(sized) ELSE sized
    <3>1. grown = SetMaximumSize(b, 0)
      BY <1>1, <1>3
    <3>2. grown \in Buffer(Byte) /\ grown.m_posRead = n
      BY <1>1, <3>1, ZeroIsByte, SetMaximumSizeType
    <3> HIDE DEF grown
    <3>3. sized \in Buffer(Byte) /\ sized.m_posRead = n /\ sized.m_size = 0
      BY <3>2, SizedType
    <3> HIDE DEF sized
    <3>4. read = ResetRead(sized)
      BY <1>1, <3>3 DEF RemainRead
    <3>5. read \in Buffer(Byte) /\ read.m_eofRead = FALSE
      BY <3>3, <3>4, ResetReadType
    <3>6. SetSize(b, 0) = IF RemainWrite(read) < 0 THEN ResetWrite(read) ELSE read
      BY DEF SetSize, sized, grown
    <3> HIDE DEF read
    <3>7. ResetWrite(read).m_eofRead = FALSE
      BY <3>5, ResetWriteType
    <3> QED BY <3>5, <3>6, <3>7
  <2> HIDE DEF f
  <2>8. /\ f.m_resizeEnabled = b.m_resizeEnabled /\ f.m_size = 0 /\ f.m_posWrite = 0 /\ f.m_posRead = 0
        /\ f.m_eofRead = FALSE
    BY <1>3, <2>2, <2>3, <2>4, <2>5, <2>6, <2>7 DEF f
  <2> HIDE DEF d
  <2>9. InOK(d)
    BY <1>2, <2>1, <2>8 DEF InOK
  <2>10. d.m_internal \in Seq(Byte) /\ Len(d.m_internal) = 0
    BY <1>2, <2>1, <2>8, BufferFields
  <2>11. z - n = 0
    BY <1>1, <1>3
  <2> QED BY <2>9, <2>10, <2>11 DEF d
<1>4. CASE n # z
  <2> DEFINE rest == SubSeq(a, n + 1, Len(a))
  <2>1. n < z
    BY <1>1, <1>4
  <2>2. d = [b EXCEPT !.m_internal = rest, !.m_size = z - n,
                      !.m_posRead = NotBelowZero(n - n), !.m_posWrite = NotBelowZero(z - n)]
    BY <1>1, <2>1 DEF RemoveFromStart, Buffer
  <2>3. NotBelowZero(n - n) = 0 /\ NotBelowZero(z - n) = z - n
    BY <1>1, <2>1 DEF NotBelowZero
  <2> HIDE DEF z, a
  <2>4. Len(rest) = z - n /\ rest \in Seq(Byte) /\ \A i \in 1..(z - n) : rest[i] = a[n + i]
    BY <1>1, <2>1
  <2> HIDE DEF rest, d
  <2>5. /\ d.m_posRead = 0 /\ d.m_posWrite = z - n /\ d.m_internal = rest /\ d.m_size = z - n
        /\ d.m_eofRead = b.m_eofRead /\ d.m_resizeEnabled = b.m_resizeEnabled
    BY <1>1, <2>2, <2>3 DEF Buffer
  <2>6. InOK(d)
    BY <1>2, <2>5 DEF InOK
  <2> QED BY <2>4, <2>5, <2>6 DEF d, z, a
<1> QED BY <1>3, <1>4

\* After an exception the receiver starts over.
LEMMA StartedOver ==
  ASSUME NEW b, BufferOK(b, Byte), b.m_resizeEnabled, b.m_posWrite = b.m_size
  PROVE  InOK(ResetRead(b)) /\ ResetRead(b).m_internal = b.m_internal
<1> DEFINE d == ResetRead(b)
<1>1. /\ d \in Buffer(Byte) /\ d.m_size = b.m_size /\ d.m_internal = b.m_internal /\ d.m_posRead = 0
      /\ d.m_posWrite = b.m_posWrite /\ d.m_eofRead = FALSE /\ d.m_resizeEnabled = b.m_resizeEnabled
  BY BufferFields, ResetReadType
<1> HIDE DEF d
<1>2. BufferOK(d, Byte)
  BY <1>1 DEF BufferOK
<1>3. InOK(d)
  BY <1>1, <1>2 DEF InOK
<1> QED BY <1>1, <1>3 DEF d

-----------------------------------------------------------------------------
(* The format once more, with the mask k and the user data as parameters.  *)

NumberBy(value, width, k) ==
    [i \in 1..width |-> HostByte(value, IF k = s_bigEndian THEN width - i ELSE i - 1)]
CountedBy(str, width, k) == NumberBy(Len(str), width, k) \o str
LabelsBy(labels, k) ==
    LET entry(key) == IF key \in DOMAIN labels THEN <<key>> \o CountedBy(labels[key], DefaultSizeBytes, k)
                      ELSE << >>
    IN  NumberBy(Cardinality(DOMAIN labels), DefaultSizeBytes, k)
          \o Concat([i \in 1..Base |-> entry(i - 1)])
BodyBy(m, k, data) ==
    NumberBy(m.tag, 2, k) \o PackedFlags(m.flags) \o <<0>> \o FieldBytes(m.name) \o m.code
      \o NumberBy(Len(m.marks), DefaultSizeBytes, k)
      \o Concat([i \in DOMAIN m.marks |-> NumberBy(m.marks[i], 2, k)])
      \o NumberBy(Len(m.words), 1, k)
      \o Concat([i \in DOMAIN m.words |-> CountedBy(m.words[i], 1, k)])
      \o (IF data THEN LabelsBy(m.labels, k) ELSE << >>)
      \o CountedBy(m.note, DefaultSizeBytes, k)
WireBy(m, k, data) == CountedBy(BodyBy(m, k, data), LengthWidth, k)
\* Fits(m) with its parameter.
FitsBy(m, data) ==
    /\ FieldFits(m) /\ CountFits(Len(m.marks)) /\ VectorFits(m.words, 1)
    /\ data => MapFits(m.labels, DefaultSizeBytes)
    /\ CountFits(Len(m.note))

\* The format with the agreed parameters is the format.
LEMMA WireByIs ==
  ASSUME NEW m
  PROVE  /\ Body(m) = BodyBy(m, mask, userData) /\ Wire(m) = WireBy(m, mask, userData)
         /\ Fits(m) <=> FitsBy(m, userData)
<1>1. \A v, w : Number(v, w) = NumberBy(v, w, mask)
  BY DEF Number, NumberBy
<1>2. \A s, w : Counted(s, w) = CountedBy(s, w, mask)
  BY <1>1 DEF Counted, CountedBy
<1>3. \A x : Labels(x) = LabelsBy(x, mask)
  BY DEF Labels, LabelsBy, Counted, CountedBy, Number, NumberBy
<1>4. Body(m) = BodyBy(m, mask, userData)
  BY DEF Body, BodyBy, Labels, LabelsBy, Counted, CountedBy, Number, NumberBy
<1>5. Wire(m) = WireBy(m, mask, userData)
  BY <1>2, <1>4 DEF Wire, WireBy
<1>6. Fits(m) <=> FitsBy(m, userData)
  BY DEF Fits, FitsBy, LabelsFit
<1> QED BY <1>4, <1>5, <1>6

\* So is what reading a message leaves.
LEMMA IntoByIs ==
  ASSUME NEW o, NEW m
  PROVE  Into(o, m) = IntoBy(o, m, userData)
BY DEF Into, IntoBy, Labelled

-----------------------------------------------------------------------------
(* The messages on their way.                                              *)

\* The messages of h behind the first n on the wire.
WiresBy(h, n, k, data) == [i \in 1..(Len(h) - n) |-> WireBy(h[n + i], k, data)]

\* A message on the wire is a sequence of bytes.
LEMMA WireByType ==
  ASSUME NEW m \in Message
  PROVE  WireBy(m, mask, userData) = Wire(m) /\ WireBy(m, mask, userData) \in Seq(Byte)
BY WireByIs, WireIs

\* The messages on their way are as many codes.
LEMMA WiresType ==
  ASSUME NEW h \in Seq(Message), NEW n \in 0..Len(h)
  PROVE  /\ WiresBy(h, n, mask, userData) \in [1..(Len(h) - n) -> Seq(Byte)]
         /\ WiresBy(h, n, mask, userData) \in Seq(Seq(Byte))
         /\ Len(WiresBy(h, n, mask, userData)) = Len(h) - n
         /\ Concat(WiresBy(h, n, mask, userData)) \in Seq(Byte)
<1> DEFINE w == WiresBy(h, n, mask, userData)
           l == Len(h) - n
<1>1. Len(h) \in Nat /\ n \in Nat /\ l \in Nat
  OBVIOUS
<1>2. ASSUME NEW i \in 1..l PROVE WireBy(h[n + i], mask, userData) \in Seq(Byte)
  <2>1. n + i \in 1..Len(h)
    BY <1>1
  <2>2. h[n + i] \in Message
    BY <2>1
  <2> QED BY <2>2, WireByType
<1>3. w \in [1..l -> Seq(Byte)]
  BY <1>2 DEF WiresBy
<1> HIDE DEF l, w
<1>4. w \in Seq(Seq(Byte)) /\ Len(w) = l
  BY <1>1, <1>3
<1>5. Concat(w) \in Seq(Byte)
  BY <1>1, <1>3, ConcatType
<1> QED BY <1>3, <1>4, <1>5 DEF l, w

\* A message that is sent comes last.
LEMMA WiresAppend ==
  ASSUME NEW h \in Seq(Message), NEW m \in Message, NEW n \in 0..Len(h)
  PROVE  Concat(WiresBy(Append(h, m), n, mask, userData))
           = Join(Concat(WiresBy(h, n, mask, userData)), Wire(m))
<1> DEFINE g == Append(h, m)
           w == WiresBy(h, n, mask, userData)
           x == WiresBy(g, n, mask, userData)
           c == Wire(m)
           l == Len(h) - n
<1>1. /\ g \in Seq(Message) /\ Len(g) = Len(h) + 1 /\ g[Len(h) + 1] = m
      /\ \A i \in 1..Len(h) : g[i] = h[i]
  OBVIOUS
<1>2. /\ Len(h) \in Nat /\ n \in Nat /\ l \in Nat /\ l + n = Len(h)
  OBVIOUS
<1> HIDE DEF g
<1>3. x = [i \in 1..(l + 1) |-> WireBy(g[n + i], mask, userData)]
  <2>1. Len(g) - n = l + 1
    BY <1>1, <1>2
  <2> QED BY <2>1 DEF WiresBy
<1>4. w \in Seq(Seq(Byte)) /\ Len(w) = l /\ \A i \in 1..l : w[i] = WireBy(h[n + i], mask, userData)
  BY WiresType DEF WiresBy
<1>5. c \in Seq(Byte) /\ WireBy(m, mask, userData) = c
  BY WireByType
<1> HIDE DEF c, w, l
<1>6. /\ Append(w, c) \in Seq(Seq(Byte)) /\ Len(Append(w, c)) = l + 1 /\ Append(w, c)[l + 1] = c
      /\ \A i \in 1..l : Append(w, c)[i] = w[i]
  BY <1>4, <1>5
<1>7. ASSUME NEW i \in 1..(l + 1) PROVE x[i] = Append(w, c)[i]
  <2>1. x[i] = WireBy(g[n + i], mask, userData)
    BY <1>3
  <2>2. CASE i = l + 1
    <3>1. n + i = Len(h) + 1
      BY <1>2, <2>2
    <3> QED BY <1>1, <1>5, <1>6, <2>1, <2>2, <3>1
  <2>3. CASE i # l + 1
    <3>1. i \in 1..l /\ n + i \in 1..Len(h)
      BY <1>2, <2>3
    <3> QED BY <1>1, <1>4, <1>6, <2>1, <3>1
  <2> QED BY <2>2, <2>3
<1>8. x = Append(w, c)
  <2> DEFINE y == Append(w, c)
             V == Seq(Byte)
  <2>1. y \in Seq(V) /\ Len(y) = l + 1
    BY <1>6
  <2>2. x \in Seq(V) /\ Len(x) = l + 1
    <3>1. n \in 0..Len(g) /\ Len(g) - n = l + 1
      BY <1>1, <1>2
    <3> QED BY <1>1, <3>1, WiresType
  <2>3. \A i \in 1..(l + 1) : x[i] = y[i]
    BY <1>7
  <2> HIDE DEF x, y, V
  <2>4. x = y
    BY <2>1, <2>2, <2>3, SameSequence
  <2> QED BY <2>4 DEF y
<1>9. Concat(Append(w, c)) = Join(Concat(w), c)
  BY <1>4, <1>5, ConcatAppend
<1> QED BY <1>8, <1>9 DEF x, g, w, c

\* The message to be received next comes first.
LEMMA WiresFirst ==
  ASSUME NEW h \in Seq(Message), NEW n \in Nat, n < Len(h)
  PROVE  Concat(WiresBy(h, n, mask, userData))
           = Join(Wire(h[n + 1]), Concat(WiresBy(h, n + 1, mask, userData)))
<1> DEFINE w == WiresBy(h, n, mask, userData)
           x == WiresBy(h, n + 1, mask, userData)
           l == Len(h) - (n + 1)
<1>1. Len(h) \in Nat /\ l \in Nat /\ Len(h) - n = l + 1 /\ n \in 0..Len(h) /\ n + 1 \in 0..Len(h)
  OBVIOUS
<1>2. w \in [1..(l + 1) -> Seq(Byte)]
  BY <1>1, WiresType
<1>3. x \in [1..l -> Seq(Byte)]
  BY <1>1, WiresType
<1>4. w = [i \in 1..(l + 1) |-> WireBy(h[n + i], mask, userData)]
  BY <1>1 DEF WiresBy
<1>5. x = [i \in 1..l |-> WireBy(h[(n + 1) + i], mask, userData)]
  BY DEF WiresBy
<1> HIDE DEF w, x, l
<1>6. ASSUME NEW i \in 1..l PROVE x[i] = w[i + 1]
  <2>1. i + 1 \in 1..(l + 1) /\ n + (i + 1) = (n + 1) + i
    BY <1>1
  <2> QED BY <1>4, <1>5, <2>1
<1>7. Concat(w) = Join(w[1], Concat(x))
  BY <1>1, <1>2, <1>3, <1>6, ConcatHead
<1>8. w[1] = Wire(h[n + 1])
  <2>1. 1 \in 1..(l + 1) /\ n + 1 \in 1..Len(h)
    BY <1>1
  <2>2. h[n + 1] \in Message
    BY <2>1
  <2>3. w[1] = WireBy(h[n + 1], mask, userData)
    BY <1>4, <2>1
  <2> QED BY <2>2, <2>3, WireByType
<1> QED BY <1>7, <1>8 DEF w, x

\* When all were received none is on its way.
LEMMA WiresNone ==
  ASSUME NEW h \in Seq(Message)
  PROVE  Concat(WiresBy(h, Len(h), mask, userData)) = << >>
<1>1. WiresBy(h, Len(h), mask, userData) = << >>
  BY DEF WiresBy
<1> QED BY <1>1, ConcatOfNothing

-----------------------------------------------------------------------------
(* What was received.                                                      *)

\* The first n messages of h as they are read.
ReceivedBy(h, n, data, again) == [i \in 1..n |-> AsReadOf(h, data, again, i)]

\* One more message received.
LEMMA ReceivedAppend ==
  ASSUME NEW h, NEW n \in Nat, NEW data, NEW again
  PROVE  /\ Len(ReceivedBy(h, n, data, again)) = n
         /\ Append(ReceivedBy(h, n, data, again), AsReadOf(h, data, again, n + 1))
              = ReceivedBy(h, n + 1, data, again)
<1> DEFINE r == ReceivedBy(h, n, data, again)
           u == ReceivedBy(h, n + 1, data, again)
           S == {AsReadOf(h, data, again, i) : i \in 1..(n + 1)}
           x == AsReadOf(h, data, again, n + 1)
<1>1. n + 1 \in 1..(n + 1) /\ \A i \in 1..n : i \in 1..(n + 1)
  OBVIOUS
<1>2. r \in [1..n -> S] /\ u \in [1..(n + 1) -> S] /\ u[n + 1] = x /\ x \in S
  BY <1>1 DEF ReceivedBy
<1>3. \A i \in 1..n : r[i] = u[i]
  BY <1>1 DEF ReceivedBy
<1> HIDE DEF r, u, S, x
<1>4. r \in Seq(S) /\ Len(r) = n /\ u \in Seq(S) /\ Len(u) = n + 1
  BY <1>2
<1>5. Append(r, x) \in Seq(S) /\ Len(Append(r, x)) = n + 1 /\ Append(r, x)[n + 1] = x
      /\ \A i \in 1..n : Append(r, x)[i] = r[i]
  BY <1>2, <1>4
<1>6. \A i \in 1..Len(u) : Append(r, x)[i] = u[i]
  BY <1>2, <1>3, <1>4, <1>5
<1>7. Append(r, x) = u
  <2> DEFINE y == Append(r, x)
  <2> HIDE DEF y
  <2>1. y \in Seq(S) /\ u \in Seq(S) /\ Len(y) = Len(u) /\ \A i \in 1..Len(y) : y[i] = u[i]
    BY <1>4, <1>5, <1>6 DEF y
  <2>2. y = u
    BY <2>1, SameSequence
  <2> QED BY <2>2 DEF y
<1> QED BY <1>4, <1>7 DEF r, u, x

\* What was received does not depend on what is sent later.
LEMMA ReceivedSame ==
  ASSUME NEW h \in Seq(Message), NEW m, NEW n \in 0..Len(h), NEW data, NEW again \in BOOLEAN
  PROVE  ReceivedBy(Append(h, m), n, data, again) = ReceivedBy(h, n, data, again)
<1> DEFINE g == Append(h, m)
<1>1. \A i \in 1..Len(h) : g[i] = h[i]
  OBVIOUS
<1>2. Len(h) \in Nat /\ n \in Nat
  OBVIOUS
<1> HIDE DEF g
<1>3. ASSUME NEW i \in 1..n PROVE AsReadOf(g, data, again, i) = AsReadOf(h, data, again, i)
  <2> DEFINE K == ShownBy(again, i)
  <2>1. K \subseteq 1..Len(h)
    BY <1>2 DEF ShownBy
  <2> HIDE DEF K
  <2>2. GarbageOf(g, K) = GarbageOf(h, K) /\ LabelsOf(g, K) = LabelsOf(h, K)
    BY <1>1, <1>2, <2>1, LeftoverSame
  <2>3. g[i] = h[i]
    BY <1>1, <1>2
  <2> QED BY <2>2, <2>3 DEF AsReadOf, K
<1>4. ReceivedBy(g, n, data, again) = ReceivedBy(h, n, data, again)
  BY <1>3 DEF ReceivedBy
<1> QED BY <1>4 DEF g

-----------------------------------------------------------------------------
(* The object the receiver reads into.                                     *)

\* After n messages it is what they left, or, when a read failed half way, something that
\* will not show once the next message is read.
ObjectOK(o, h, n, data, again) ==
    /\ IsMap(o.labels)
    /\ n = Len(h) => o = LeftBy(h, data, again, n)
    /\ n < Len(h) => IntoBy(o, h[n + 1], data) = LeftoverOf(h, data, ShownBy(again, n + 1))

\* What was sent fits where it was written to.
SentOK(h, k, data) ==
    /\ h \in Seq(Message)
    /\ \A i \in 1..Len(h) : FitsBy(h[i], data) /\ Len(BodyBy(h[i], k, data)) < Power(Base, LengthWidth)

\* The invariant, of the two buffers b and c, the object o, the messages h sent and got
\* received, the mask k, the user data and the choice of the receiver: its object is fit
\* for the next message, and the bytes in the two buffers are those of the messages
\* between.
ExchangeOK(b, c, o, h, got, k, data, again) ==
    /\ k \in {s_littleEndian, s_bigEndian} /\ data \in BOOLEAN /\ again \in BOOLEAN
    /\ OutOK(b) /\ InOK(c)
    /\ SentOK(h, k, data)
    /\ Len(got) \in 0..Len(h) /\ got = ReceivedBy(h, Len(got), data, again)
    /\ ObjectOK(o, h, Len(got), data, again)
    /\ Join(c.m_internal, Queued(b)) = Concat(WiresBy(h, Len(got), k, data))

\* Between two steps the widths of sizes are the default.
MessageInv ==
    /\ ExchangeOK(outBuf, inBuf, object, sent, received, mask, userData, reuse)
    /\ outSizeBytes = DefaultSizeBytes /\ inSizeBytes = DefaultSizeBytes

\* The labels that messages left are a map.
LEMMA LeftIsMap ==
  ASSUME NEW h, NEW data \in BOOLEAN, NEW again \in BOOLEAN, NEW n
  PROVE  IsMap(LeftBy(h, data, again, n).labels)
<1>1. IsMap(<< >>)
  BY DEF IsMap
<1> DEFINE f == LabelsOf(h, 1..n)
<1>2. f = [key \in DOMAIN f |-> f[key]]
  BY DEF LabelsOf
<1>3. IsMap(f)
  BY <1>2 DEF IsMap
<1> HIDE DEF f
<1>4. LeftBy(h, data, again, n).labels \in {f, << >>}
  BY DEF LeftBy, LeftoverOf, NewObject, f
<1> QED BY <1>1, <1>3, <1>4

\* The labels of a message that was sent have bytes for keys.
LEMMA LabelKeys ==
  ASSUME NEW h \in Seq(Message), NEW i \in 1..Len(h)
  PROVE  h[i] \in Message /\ DOMAIN h[i].labels \subseteq Byte
<1>1. h[i] \in Message
  OBVIOUS
<1> DEFINE m == h[i]
<1> HIDE DEF m
<1>2. m \in Message => DOMAIN m.labels \subseteq Byte
  BY MessageType
<1> QED BY <1>1, <1>2 DEF m

\* What n messages left is fit to read the next one into.
LEMMA ObjectLeft ==
  ASSUME NEW h \in Seq(Message), NEW n \in 0..Len(h), NEW data \in BOOLEAN, NEW again \in BOOLEAN
  PROVE  ObjectOK(LeftBy(h, data, again, n), h, n, data, again)
<1> DEFINE o == LeftBy(h, data, again, n)
<1>1. IsMap(o.labels)
  BY LeftIsMap
<1>2. ASSUME n < Len(h) PROVE IntoBy(o, h[n + 1], data) = LeftoverOf(h, data, ShownBy(again, n + 1))
  <2>1. n + 1 \in 1..Len(h) /\ n \in Nat
    BY <1>2
  <2>2. DOMAIN h[n + 1].labels \subseteq Byte
    BY <2>1, LabelKeys
  <2> QED BY <2>1, <2>2, LeftNext
<1> HIDE DEF o
<1>3. n = Len(h) => o = LeftBy(h, data, again, n)
  BY DEF o
<1>4. ObjectOK(o, h, n, data, again)
  BY <1>1, <1>2, <1>3 DEF ObjectOK
<1> QED BY <1>4 DEF o

\* One more message that was sent does not matter to it.
LEMMA ObjectSent ==
  ASSUME NEW h \in Seq(Message), NEW m \in Message, NEW n \in 0..Len(h),
         NEW data \in BOOLEAN, NEW again \in BOOLEAN, NEW o, ObjectOK(o, h, n, data, again)
  PROVE  ObjectOK(o, Append(h, m), n, data, again)
<1> DEFINE g == Append(h, m)
<1>1. /\ g \in Seq(Message) /\ Len(g) = Len(h) + 1 /\ g[Len(h) + 1] = m
      /\ \A i \in 1..Len(h) : g[i] = h[i]
  OBVIOUS
<1>2. Len(h) \in Nat /\ n \in Nat /\ n <= Len(h)
  OBVIOUS
<1> HIDE DEF g
<1>3. IsMap(o.labels) /\ ~(n = Len(g))
  BY <1>1, <1>2 DEF ObjectOK
<1>4. IntoBy(o, g[n + 1], data) = LeftoverOf(g, data, ShownBy(again, n + 1))
  <2>1. CASE n = Len(h)
    <3>1. o = LeftBy(h, data, again, n)
      BY <2>1 DEF ObjectOK
    <3>2. LeftBy(h, data, again, n) = LeftBy(g, data, again, n)
      <4> DEFINE K == 1..n
      <4>1. K \subseteq 1..Len(h)
        BY <1>2
      <4> HIDE DEF K
      <4>2. GarbageOf(g, K) = GarbageOf(h, K) /\ LabelsOf(g, K) = LabelsOf(h, K)
        BY <1>1, <1>2, <4>1, LeftoverSame
      <4> QED BY <4>2 DEF LeftBy, LeftoverOf, K
    <3>3. DOMAIN g[n + 1].labels \subseteq Byte
      <4>1. n + 1 \in 1..Len(g)
        BY <1>1, <1>2
      <4> QED BY <1>1, <4>1, LabelKeys
    <3>4. IntoBy(LeftBy(g, data, again, n), g[n + 1], data) = LeftoverOf(g, data, ShownBy(again, n + 1))
      BY <1>2, <3>3, LeftNext
    <3> QED BY <3>1, <3>2, <3>4
  <2>2. CASE n # Len(h)
    <3>1. n < Len(h) /\ n + 1 \in 1..Len(h)
      BY <1>2, <2>2
    <3>2. IntoBy(o, h[n + 1], data) = LeftoverOf(h, data, ShownBy(again, n + 1))
      BY <3>1 DEF ObjectOK
    <3>3. g[n + 1] = h[n + 1]
      BY <1>1, <3>1
    <3> DEFINE K == ShownBy(again, n + 1)
    <3>4. K \subseteq 1..Len(h)
      BY <1>2, <3>1 DEF ShownBy
    <3> HIDE DEF K
    <3>5. GarbageOf(g, K) = GarbageOf(h, K) /\ LabelsOf(g, K) = LabelsOf(h, K)
      BY <1>1, <1>2, <3>4, LeftoverSame
    <3>6. LeftoverOf(g, data, K) = LeftoverOf(h, data, K)
      BY <3>5 DEF LeftoverOf
    <3> QED BY <3>2, <3>3, <3>6 DEF K
  <2> QED BY <2>1, <2>2
<1>5. ObjectOK(o, g, n, data, again)
  BY <1>3, <1>4 DEF ObjectOK
<1> QED BY <1>5 DEF g

\* A message that was written fits where it was written to.
LEMMA SentMore ==
  ASSUME NEW h, SentOK(h, mask, userData), NEW m \in Message, Fits(m), Len(Body(m)) < Power(Base, LengthWidth)
  PROVE  SentOK(Append(h, m), mask, userData)
<1> DEFINE g == Append(h, m)
<1>1. h \in Seq(Message)
  BY DEF SentOK
<1>2. /\ g \in Seq(Message) /\ Len(g) = Len(h) + 1 /\ g[Len(h) + 1] = m
      /\ \A i \in 1..Len(h) : g[i] = h[i]
  BY <1>1
<1> HIDE DEF g
<1>3. FitsBy(m, userData) /\ Len(BodyBy(m, mask, userData)) < Power(Base, LengthWidth)
  BY WireByIs
<1>4. ASSUME NEW i \in 1..Len(g)
      PROVE  FitsBy(g[i], userData) /\ Len(BodyBy(g[i], mask, userData)) < Power(Base, LengthWidth)
  <2>1. CASE i = Len(h) + 1
    BY <1>2, <1>3, <2>1
  <2>2. CASE i # Len(h) + 1
    <3>1. i \in 1..Len(h)
      BY <1>1, <1>2, <2>2
    <3> QED BY <1>2, <3>1 DEF SentOK
  <2> QED BY <2>1, <2>2
<1>5. SentOK(g, mask, userData)
  BY <1>2, <1>4 DEF SentOK
<1> QED BY <1>5 DEF g

-----------------------------------------------------------------------------
(* The streams of the two programs.                                        *)

\* A stream on a buffer, with the agreed format.
StreamOf(b, data) == [SetUserData(NewStream(b, mask), data) EXCEPT !.containerSizeBytes = DefaultSizeBytes]

\* A stream on a buffer in order, before anything was written or read.
LEMMA StreamOfType ==
  ASSUME Masked, NEW b, BufferOK(b, Byte), ~b.m_eofRead, NEW data \in BOOLEAN
  PROVE  /\ Stream(StreamOf(b, data)) /\ StreamOf(b, data).buf = b /\ StreamOf(b, data).ok
         /\ StreamOf(b, data).containerSizeBytes = DefaultSizeBytes
         /\ StreamOf(b, data).m_userData = data
<1> DEFINE x == NewStream(b, mask)
           y == SetUserData(x, data)
           s == StreamOf(b, data)
<1>1. b \in Buffer(Byte)
  BY BufferFields
<1>2. x \in Streams({<< >>}) /\ x.buf = b /\ x.ok /\ x.containerSizeBytes = DefaultSizeBytes
  BY <1>1 DEF Streams, NewStream, DefaultSizeBytes
<1> HIDE DEF x
<1>3. /\ y \in Streams({<< >>}) /\ y.buf = b /\ y.ok /\ y.containerSizeBytes = DefaultSizeBytes
      /\ y.m_userData = data
  <2> HIDE DEF Buffer, BufferOK
  <2> QED BY <1>2 DEF Streams, SetUserData
<1>4. s = Widened(y, 4)
  BY DEF StreamOf, Widened, DefaultSizeBytes, x
<1> HIDE DEF y, s
<1>5. /\ s \in Streams({<< >>}) /\ s.buf = b /\ s.ok /\ s.containerSizeBytes = DefaultSizeBytes
      /\ s.m_userData = data
  BY <1>3, <1>4, WithWidth DEF DefaultSizeBytes
<1>6. Stream(s)
  BY <1>5, StreamIn
<1> QED BY <1>5, <1>6 DEF s

\* What the invariant says of the two streams.
LEMMA TheStreams ==
  ASSUME MessageInv
  PROVE  /\ OutStream = StreamOf(outBuf, userData) /\ InStream = StreamOf(inBuf, userData)
         /\ Masked /\ userData \in BOOLEAN /\ reuse \in BOOLEAN
         /\ OutOK(outBuf) /\ InOK(inBuf) /\ SentOK(sent, mask, userData) /\ sent \in Seq(Message)
         /\ Len(received) \in 0..Len(sent)
BY DEF MessageInv, ExchangeOK, OutStream, InStream, StreamOf, Masked, SentOK

\* The sender's stream can be written to.
LEMMA SenderStream ==
  ASSUME MessageInv
  PROVE  /\ Writing(OutStream) /\ OutStream.buf = outBuf /\ OutStream.ok
         /\ OutStream.containerSizeBytes = DefaultSizeBytes /\ OutStream.m_userData = userData
<1> DEFINE b == outBuf
           data == userData
           s == StreamOf(b, data)
<1>1. OutStream = s /\ data \in BOOLEAN /\ OutOK(b) /\ Masked
  BY TheStreams
<1> HIDE DEF b, data
<1>2. BufferOK(b, Byte) /\ ~b.m_eofRead /\ b.m_posRead <= b.m_posWrite
  BY <1>1 DEF OutOK
<1>3. /\ Stream(s) /\ s.buf = b /\ s.ok /\ s.containerSizeBytes = DefaultSizeBytes /\ s.m_userData = data
  BY <1>1, <1>2, StreamOfType
<1> HIDE DEF s
<1>4. Writing(s)
  BY <1>2, <1>3 DEF Writing, Stream
<1> QED BY <1>1, <1>3, <1>4 DEF b, data

\* The receiver's stream can be read from, and the transport writes to it.
LEMMA ReceiverStream ==
  ASSUME MessageInv
  PROVE  /\ Writing(InStream) /\ Stream(InStream) /\ InStream.buf = inBuf /\ InStream.ok
         /\ InStream.containerSizeBytes = DefaultSizeBytes /\ InStream.m_userData = userData
<1> DEFINE b == inBuf
           data == userData
           s == StreamOf(b, data)
<1>1. InStream = s /\ data \in BOOLEAN /\ InOK(b) /\ Masked
  BY TheStreams
<1> HIDE DEF b, data
<1>2. BufferOK(b, Byte) /\ ~b.m_eofRead /\ b.m_posRead = 0 /\ b.m_posWrite \in Nat
  BY <1>1, BufferFields DEF InOK
<1>3. /\ Stream(s) /\ s.buf = b /\ s.ok /\ s.containerSizeBytes = DefaultSizeBytes /\ s.m_userData = data
  BY <1>1, <1>2, StreamOfType
<1> HIDE DEF s
<1>4. Writing(s)
  BY <1>2, <1>3 DEF Writing, Stream
<1> QED BY <1>1, <1>3, <1>4 DEF b, data

-----------------------------------------------------------------------------
(* Sending.                                                                *)

\* Sending: the message waits behind the others, or nothing of it does.
LEMMA SendKeeps ==
  ASSUME MessageInv, NEW m \in Message, Len(Body(m)) < Power(Base, LengthWidth),
         NEW s, s = WriteMessage(OutStream, m)
  PROVE  /\ s.containerSizeBytes = DefaultSizeBytes
         /\ ExchangeOK(IF s.ok THEN s.buf ELSE TakeBack(s.buf, outBuf.m_posWrite), inBuf, object,
                       IF s.ok THEN Append(sent, m) ELSE sent, received, mask, userData, reuse)
<1> DEFINE b == outBuf
           c == inBuf
           h == sent
           o == object
           n == Len(received)
           u == OutStream
           w == Wire(m)
           all == Concat(WiresBy(h, n, mask, userData))
<1>1. /\ Masked /\ OutOK(b) /\ InOK(c) /\ SentOK(h, mask, userData) /\ h \in Seq(Message) /\ n \in 0..Len(h)
      /\ userData \in BOOLEAN /\ reuse \in BOOLEAN
  BY TheStreams
<1>2. /\ received = ReceivedBy(h, n, userData, reuse) /\ ObjectOK(o, h, n, userData, reuse)
      /\ Join(c.m_internal, Queued(b)) = all
  BY DEF MessageInv, ExchangeOK
<1>3. /\ Writing(u) /\ u.buf = b /\ u.ok /\ u.containerSizeBytes = DefaultSizeBytes /\ u.m_userData = userData
  BY SenderStream
<1>4. w \in Seq(Byte) /\ Len(w) > 0
  BY WireIs
<1> HIDE DEF u
<1>5. Writes(u, s, w, Fits(m))
  BY <1>1, <1>3, MessageWrites DEF u
<1>6. s.containerSizeBytes = DefaultSizeBytes
  <2> HIDE DEF w
  <2> QED BY <1>3, <1>5 DEF Writes, WritesOn
<1>7. CASE s.ok
  <2> DEFINE g == Append(h, m)
             q == Queued(b)
             a == c.m_internal
  <2>1. Fits(m)
    <3> HIDE DEF w
    <3> QED BY <1>5, <1>7 DEF Writes
  <2> HIDE DEF w, b, h, o, c, n, all
  <2>2. OutOK(s.buf) /\ Queued(s.buf) = Join(q, w)
    <3> DEFINE fits == Fits(m)
    <3> HIDE DEF fits
    <3>1. Writes(u, s, w, fits)
      BY <1>5 DEF fits
    <3> QED BY <1>1, <1>3, <1>4, <1>7, <3>1, QueuedGrows
  <2>3. SentOK(g, mask, userData) /\ Len(g) = Len(h) + 1
    BY <1>1, <2>1, SentMore
  <2>4. ObjectOK(o, g, n, userData, reuse)
    BY <1>1, <1>2, ObjectSent
  <2>5. received = ReceivedBy(g, n, userData, reuse)
    BY <1>1, <1>2, ReceivedSame
  <2>6. Concat(WiresBy(g, n, mask, userData)) = Join(all, w)
    BY <1>1, WiresAppend DEF all, w
  <2>7. q \in Seq(Byte) /\ a \in Seq(Byte)
    BY <1>1, QueuedType, BufferFields DEF OutOK, InOK
  <2> HIDE DEF q, a, g
  <2>8. Join(a, Join(q, w)) = Join(Join(a, q), w)
    BY <1>4, <2>7, JoinAssociative
  <2>9. Join(a, Queued(s.buf)) = Concat(WiresBy(g, n, mask, userData))
    BY <1>2, <2>2, <2>6, <2>8 DEF a, q
  <2>10. n \in 0..Len(g)
    BY <1>1, <2>3
  <2>11. ExchangeOK(s.buf, c, o, g, received, mask, userData, reuse)
    BY <1>1, <2>2, <2>3, <2>4, <2>5, <2>9, <2>10 DEF ExchangeOK, Masked, n, a
  <2> QED BY <1>6, <1>7, <2>11 DEF c, o, g, h
<1>8. CASE ~s.ok
  <2> DEFINE d == TakeBack(s.buf, b.m_posWrite)
  <2>1. WritesOn(u, s)
    <3> HIDE DEF w
    <3> QED BY <1>5 DEF Writes
  <2> HIDE DEF w, b, h, o, c, n, all
  <2>2. OutOK(TakeBack(s.buf, u.buf.m_posWrite)) /\ Queued(TakeBack(s.buf, u.buf.m_posWrite)) = Queued(u.buf)
    BY <1>1, <1>3, <2>1, TakenBack
  <2>3. OutOK(d) /\ Queued(d) = Queued(b)
    BY <1>3, <2>2
  <2> HIDE DEF d
  <2>4. ExchangeOK(d, c, o, h, received, mask, userData, reuse)
    BY <1>1, <1>2, <2>3 DEF ExchangeOK, Masked, n, all
  <2> QED BY <1>6, <1>8, <2>4 DEF c, o, h, d, b
<1> QED BY <1>7, <1>8

-----------------------------------------------------------------------------
(* The transport.                                                          *)

\* The transport: what it takes from one buffer it adds to the other.
LEMMA TransferKeeps ==
  ASSUME MessageInv, NEW k \in 1..Waiting(outBuf)
  PROVE  ExchangeOK(Carried(outBuf, k), WriteBlock(InStream, Remaining(outBuf, k)).buf, object,
                    sent, received, mask, userData, reuse)
<1> DEFINE b == outBuf
           c == inBuf
           h == sent
           o == object
           n == Len(received)
           u == InStream
           all == Concat(WiresBy(h, n, mask, userData))
           a == c.m_internal
           r == Remaining(b, k)
           d == Carried(b, k)
           q == Queued(d)
           t == WriteBlock(u, r)
<1>1. /\ Masked /\ OutOK(b) /\ InOK(c) /\ SentOK(h, mask, userData) /\ h \in Seq(Message) /\ n \in 0..Len(h)
      /\ userData \in BOOLEAN /\ reuse \in BOOLEAN
  BY TheStreams
<1>2. /\ received = ReceivedBy(h, n, userData, reuse) /\ ObjectOK(o, h, n, userData, reuse)
      /\ Join(c.m_internal, Queued(b)) = all
  BY DEF MessageInv, ExchangeOK
<1>3. /\ Writing(u) /\ u.buf = c /\ u.ok
  BY ReceiverStream
<1> HIDE DEF u, h, o, n, all, c, b
<1>4. OutOK(d) /\ Queued(b) = Join(r, q) /\ r \in Seq(Byte)
  BY <1>1, CarriedKeeps DEF b
<1>5. q \in Seq(Byte) /\ a \in Seq(Byte)
  <2> HIDE DEF d
  <2> QED BY <1>1, <1>4, QueuedType, BufferFields DEF OutOK, InOK
<1> HIDE DEF r, d, q
<1>6. Writes(u, t, r, TRUE)
  BY <1>3, <1>4, BlockWrites
<1> HIDE DEF t
<1>7. InOK(t.buf) /\ t.buf.m_internal = Join(a, r)
  BY <1>1, <1>3, <1>4, <1>6, Delivered
<1>8. Join(a, Join(r, q)) = Join(Join(a, r), q)
  <2> HIDE DEF a
  <2> QED BY <1>4, <1>5, JoinAssociative
<1>9. Join(t.buf.m_internal, Queued(d)) = all
  BY <1>2, <1>4, <1>7, <1>8 DEF q
<1>10. ExchangeOK(d, t.buf, o, h, received, mask, userData, reuse)
  BY <1>1, <1>2, <1>4, <1>7, <1>9 DEF ExchangeOK, Masked, n, all
<1> QED BY <1>10 DEF d, t, o, h, b, r, u

-----------------------------------------------------------------------------
(* Receiving.                                                              *)

\* A message read into an object that is fit for it is told as the property says.
LEMMA ToldAsRead ==
  ASSUME NEW o, NEW h, NEW n, NEW again,
         IntoBy(o, h[n + 1], userData) = LeftoverOf(h, userData, ShownBy(again, n + 1))
  PROVE  Told(o, h[n + 1]) = AsReadOf(h, userData, again, n + 1)
<1> DEFINE m == h[n + 1]
           K == ShownBy(again, n + 1)
           into == Into(o, m)
<1>1. into = LeftoverOf(h, userData, K)
  BY IntoByIs
<1> HIDE DEF into
<1>2. /\ into.garbage = GarbageOf(h, K)
      /\ into.labels = IF userData THEN LabelsOf(h, K) ELSE << >>
  BY <1>1 DEF LeftoverOf
<1> HIDE DEF K
<1>3. Told(o, m) = [m EXCEPT !.name.garbage = into.garbage, !.labels = into.labels]
  BY DEF Told, into
<1> QED BY <1>2, <1>3 DEF AsReadOf, K

\* Bytes that follow each other in two buffers begin with what comes next.
LEMMA HoldsFirst ==
  ASSUME NEW s, s.buf.m_posRead = 0, NEW a \in Seq(Byte), s.buf.m_internal = a, s.buf.m_size = Len(a),
         NEW q \in Seq(Byte), NEW w \in Seq(Byte), NEW rest \in Seq(Byte), Join(a, q) = Join(w, rest)
  PROVE  Holds(s, w)
<1> DEFINE j == Join(a, q)
<1>1. j = Join(w, rest)
  OBVIOUS
<1>2. IsJoin(j, a, q) /\ IsJoin(Join(w, rest), w, rest)
  BY JoinIs
<1> HIDE DEF j
<1>3. IsJoin(j, a, q) /\ IsJoin(j, w, rest)
  BY <1>1, <1>2
<1>4. \A i \in 1..Len(a) : j[i] = a[i]
  BY <1>3 DEF IsJoin
<1>5. \A i \in 1..Len(w) : j[i] = w[i]
  BY <1>3 DEF IsJoin
<1>6. ASSUME NEW i \in 1..Len(w), s.buf.m_posRead + i <= s.buf.m_size
      PROVE  s.buf.m_internal[s.buf.m_posRead + i] = w[i]
  <2>1. i \in 1..Len(a) /\ s.buf.m_posRead + i = i
    BY <1>6
  <2>2. a[i] = w[i]
    BY <1>4, <1>5, <2>1
  <2> QED BY <2>1, <2>2
<1> QED BY <1>6 DEF Holds

\* The object after a message was read.
LEMMA NextObject ==
  ASSUME NEW h \in Seq(Message), NEW n \in Nat, n < Len(h), NEW again \in BOOLEAN, userData \in BOOLEAN,
         NEW o, ObjectOK(o, h, n, userData, again)
  PROVE  /\ Told(o, h[n + 1]) = AsReadOf(h, userData, again, n + 1)
         /\ ObjectOK(IF again THEN Into(o, h[n + 1]) ELSE NewObject, h, n + 1, userData, again)
<1> DEFINE data == userData
           x == IF again THEN Into(o, h[n + 1]) ELSE NewObject
           y == LeftBy(h, data, again, n + 1)
<1>1. IntoBy(o, h[n + 1], data) = LeftoverOf(h, data, ShownBy(again, n + 1))
  BY DEF ObjectOK
<1>2. Told(o, h[n + 1]) = AsReadOf(h, data, again, n + 1)
  BY <1>1, ToldAsRead
<1>3. Into(o, h[n + 1]) = IntoBy(o, h[n + 1], data)
  BY IntoByIs
<1>4. n + 1 \in 0..Len(h) /\ n + 1 > 0
  OBVIOUS
<1>5. x = y
  BY <1>1, <1>3, <1>4 DEF LeftBy, ShownBy
<1> HIDE DEF data
<1>6. ObjectOK(y, h, n + 1, data, again)
  BY <1>4, ObjectLeft DEF data
<1> HIDE DEF x, y
<1>7. ObjectOK(x, h, n + 1, data, again)
  BY <1>5, <1>6
<1> QED BY <1>2, <1>7 DEF x, data

\* Every message that was sent was written completely.
LEMMA SentFits ==
  ASSUME NEW h, SentOK(h, mask, userData), NEW i \in 1..Len(h)
  PROVE  h[i] \in Message /\ Fits(h[i]) /\ Len(Body(h[i])) < Power(Base, LengthWidth)
<1>1. h[i] \in Message
  BY DEF SentOK
<1>2. FitsBy(h[i], userData) /\ Len(BodyBy(h[i], mask, userData)) < Power(Base, LengthWidth)
  BY DEF SentOK
<1> QED BY <1>1, <1>2, WireByIs

\* While there are messages that were not received.
LEMMA ReceiveNext ==
  ASSUME MessageInv, Len(received) < Len(sent), NEW s, s = ReadMessage(InStream, object)
  PROVE  /\ s.containerSizeBytes = DefaultSizeBytes
         /\ s.ok <=> Len(Wire(sent[Len(received) + 1])) <= inBuf.m_size
         /\ ExchangeOK(outBuf, IF s.ok THEN RemoveFromStart(s.buf, s.buf.m_posRead) ELSE ResetRead(s.buf),
                       IF reuse THEN s.got.object ELSE NewObject, sent,
                       IF s.ok THEN Append(received, s.got.message) ELSE received, mask, userData, reuse)
<1> DEFINE b == outBuf
           c == inBuf
           h == sent
           o == object
           n == Len(received)
           u == InStream
           m == h[n + 1]
           w == Wire(m)
           rest == Concat(WiresBy(h, n + 1, mask, userData))
           a == c.m_internal
           q == Queued(b)
<1>1. /\ Masked /\ OutOK(b) /\ InOK(c) /\ SentOK(h, mask, userData) /\ h \in Seq(Message) /\ n \in 0..Len(h)
      /\ userData \in BOOLEAN /\ reuse \in BOOLEAN
  BY TheStreams
<1>2. /\ received = ReceivedBy(h, n, userData, reuse) /\ ObjectOK(o, h, n, userData, reuse)
      /\ Join(a, q) = Concat(WiresBy(h, n, mask, userData))
  BY DEF MessageInv, ExchangeOK
<1>3. /\ Stream(u) /\ u.buf = c /\ u.ok /\ u.containerSizeBytes = DefaultSizeBytes /\ u.m_userData = userData
  BY ReceiverStream
<1>4. n < Len(h) /\ n \in Nat /\ n + 1 \in 1..Len(h) /\ n + 1 \in 0..Len(h) /\ s = ReadMessage(u, o)
  BY <1>1
<1> HIDE DEF u, h, o, n, b, c
<1>5. m \in Message /\ Fits(m) /\ Len(Body(m)) < Power(Base, LengthWidth)
  BY <1>1, <1>4, SentFits
<1>6. Join(a, q) = Join(w, rest) /\ rest \in Seq(Byte)
  BY <1>1, <1>2, <1>4, WiresFirst, WiresType
<1> HIDE DEF m, rest
<1>7. w \in Seq(Byte) /\ Len(w) > 0
  BY <1>5, WireIs
<1>8. /\ a \in Seq(Byte) /\ q \in Seq(Byte) /\ Len(a) = c.m_size /\ c.m_posRead = 0
      /\ c.m_posWrite = c.m_size /\ c.m_resizeEnabled /\ BufferOK(c, Byte)
  BY <1>1, QueuedType, BufferFields DEF OutOK, InOK
<1> HIDE DEF a, q
<1>9. Holds(u, w)
  <2> HIDE DEF w
  <2> QED BY <1>3, <1>6, <1>7, <1>8, HoldsFirst DEF a
<1>10. IsMap(o.labels)
  BY <1>2 DEF ObjectOK
<1>11. /\ Keeps(u, s) /\ IsMap(s.got.object.labels)
       /\ Finds(u, s, w, [message |-> Told(o, m), object |-> Into(o, m)])
       /\ Into(s.got.object, m) = Into(o, m)
  <2> DEFINE x == o.labels
  <2> HIDE DEF x
  <2> QED BY <1>1, <1>3, <1>4, <1>5, <1>9, <1>10, MessageFinds
<1> HIDE DEF w
<1>12. /\ s.ok <=> Len(w) <= c.m_size
       /\ s.ok => /\ s.buf.m_posRead = Len(w)
                  /\ s.got = [message |-> Told(o, m), object |-> Into(o, m)]
  <2>1. 0 + Len(w) = Len(w)
    BY <1>7
  <2> QED BY <1>3, <1>8, <1>9, <1>11, <2>1 DEF Finds
<1>13. /\ Stream(s) /\ s.containerSizeBytes = DefaultSizeBytes
       /\ s.buf.m_internal = a /\ s.buf.m_size = c.m_size /\ s.buf.m_posWrite = s.buf.m_size
       /\ s.buf.m_resizeEnabled
  BY <1>3, <1>8, <1>11 DEF Keeps, a
<1>14. BufferOK(s.buf, Byte) /\ (s.ok => ~s.buf.m_eofRead)
  BY <1>13, StreamFields DEF Stream
<1>15. CASE s.ok
  <2> DEFINE d == RemoveFromStart(s.buf, s.buf.m_posRead)
             x == d.m_internal
             p == IF reuse THEN s.got.object ELSE NewObject
             got == Append(received, s.got.message)
             l == Len(w)
  <2>1. l \in Nat \ {0} /\ l <= s.buf.m_size /\ s.buf.m_posRead = l /\ ~s.buf.m_eofRead
    BY <1>7, <1>12, <1>13, <1>14, <1>15
  <2> HIDE DEF l
  <2>2. /\ InOK(d) /\ x \in Seq(Byte) /\ Len(x) = s.buf.m_size - l
    BY <1>13, <1>14, <2>1, Removed
  <2>3. \A i \in 1..(s.buf.m_size - l) : x[i] = s.buf.m_internal[l + i]
    BY <1>13, <1>14, <2>1, Removed
  <2> HIDE DEF d, x
  <2>4. Join(x, q) = rest
    <3>1. Len(x) = Len(a) - l /\ l <= Len(a) /\ \A i \in 1..Len(x) : x[i] = a[l + i]
      BY <1>8, <1>13, <2>1, <2>2, <2>3
    <3>2. IsRest(x, a, Len(w)) /\ Len(w) <= Len(a)
      BY <3>1 DEF IsRest, l
    <3> QED BY <1>6, <1>7, <1>8, <2>2, <3>2, JoinRest
  <2>5. s.got.message = AsReadOf(h, userData, reuse, n + 1)
    BY <1>1, <1>2, <1>4, <1>12, <1>15, NextObject DEF m
  <2>6. ObjectOK(p, h, n + 1, userData, reuse)
    BY <1>1, <1>2, <1>4, <1>12, <1>15, NextObject DEF m
  <2>7. got = ReceivedBy(h, n + 1, userData, reuse) /\ Len(got) = n + 1
    <3> DEFINE data == userData
               again == reuse
               x1 == AsReadOf(h, data, again, n + 1)
               r == ReceivedBy(h, n, data, again)
               r1 == ReceivedBy(h, n + 1, data, again)
    <3> HIDE DEF data, again
    <3>1. Append(r, x1) = r1
      BY <1>4, ReceivedAppend
    <3>2. Len(r1) = n + 1
      BY <1>4, ReceivedAppend
    <3>3. received = r /\ s.got.message = x1
      BY <1>2, <2>5 DEF data, again
    <3> HIDE DEF r, x1, r1
    <3>4. got = r1
      BY <3>1, <3>3
    <3> QED BY <3>2, <3>4 DEF r1, data, again
  <2> HIDE DEF p, got
  <2>8. ExchangeOK(b, d, p, h, got, mask, userData, reuse)
    BY <1>1, <1>4, <2>2, <2>4, <2>6, <2>7 DEF ExchangeOK, Masked, x, q, rest
  <2> QED BY <1>12, <1>13, <1>15, <2>8 DEF b, d, p, h, got, n, m, w, c
<1>16. CASE ~s.ok
  <2> DEFINE d == ResetRead(s.buf)
             p == IF reuse THEN s.got.object ELSE NewObject
  <2>1. InOK(d) /\ d.m_internal = a
    BY <1>13, <1>14, StartedOver
  <2> HIDE DEF d
  <2>2. ObjectOK(p, h, n, userData, reuse)
    <3>1. CASE reuse
      <4> DEFINE y == s.got.object
      <4>1. p = y
        BY <3>1
      <4>2. IntoBy(y, m, userData) = IntoBy(o, m, userData) /\ IsMap(y.labels)
        BY <1>11, IntoByIs
      <4> HIDE DEF y, p
      <4>3. ObjectOK(y, h, n, userData, reuse)
        BY <1>2, <1>4, <4>2 DEF ObjectOK, m
      <4> QED BY <4>1, <4>3
    <3>2. CASE ~reuse
      <4>1. p = LeftBy(h, userData, reuse, n)
        BY <3>2 DEF LeftBy
      <4> QED BY <1>1, <4>1, ObjectLeft
    <3> QED BY <3>1, <3>2
  <2> HIDE DEF p
  <2>3. ExchangeOK(b, d, p, h, received, mask, userData, reuse)
    BY <1>1, <1>2, <2>1, <2>2 DEF ExchangeOK, Masked, q, a, n
  <2> QED BY <1>12, <1>13, <1>16, <2>3 DEF b, d, p, h, n, m, w, c
<1> QED BY <1>15, <1>16

\* When all were received.
LEMMA ReceiveNone ==
  ASSUME MessageInv, ~(Len(received) < Len(sent)), NEW s, s = ReadMessage(InStream, object)
  PROVE  /\ s.containerSizeBytes = DefaultSizeBytes /\ ~s.ok
         /\ ExchangeOK(outBuf, ResetRead(s.buf), IF reuse THEN s.got.object ELSE NewObject, sent,
                       received, mask, userData, reuse)
<1> DEFINE b == outBuf
           c == inBuf
           h == sent
           o == object
           n == Len(received)
           u == InStream
           a == c.m_internal
           q == Queued(b)
           d == ResetRead(s.buf)
           p == IF reuse THEN s.got.object ELSE NewObject
<1>1. /\ Masked /\ OutOK(b) /\ InOK(c) /\ SentOK(h, mask, userData) /\ h \in Seq(Message) /\ n \in 0..Len(h)
      /\ userData \in BOOLEAN /\ reuse \in BOOLEAN
  BY TheStreams
<1>2. /\ received = ReceivedBy(h, n, userData, reuse) /\ ObjectOK(o, h, n, userData, reuse)
      /\ Join(a, q) = Concat(WiresBy(h, n, mask, userData))
  BY DEF MessageInv, ExchangeOK
<1>3. /\ Stream(u) /\ u.buf = c /\ u.ok /\ u.containerSizeBytes = DefaultSizeBytes /\ u.m_userData = userData
  BY ReceiverStream
<1>4. n = Len(h) /\ n \in Nat /\ s = ReadMessage(u, o)
  BY <1>1
<1> HIDE DEF u, h, o, n, b, c
<1>5. Join(a, q) = << >>
  BY <1>1, <1>2, <1>4, WiresNone
<1>8. /\ a \in Seq(Byte) /\ q \in Seq(Byte) /\ Len(a) = c.m_size /\ c.m_posRead = 0
      /\ c.m_posWrite = c.m_size /\ c.m_resizeEnabled /\ BufferOK(c, Byte)
  BY <1>1, QueuedType, BufferFields DEF OutOK, InOK
<1> HIDE DEF a, q
<1>9. c.m_size = 0
  <2>1. Len(Join(a, q)) = Len(a) + Len(q)
    <3> DEFINE j == Join(a, q)
    <3>1. IsJoin(j, a, q)
      BY <1>8, JoinIs
    <3> HIDE DEF j
    <3>2. Len(j) = Len(a) + Len(q)
      BY <3>1 DEF IsJoin
    <3> QED BY <3>2 DEF j
  <2>2. Len(Join(a, q)) = 0
    BY <1>5
  <2>3. Len(a) \in Nat /\ Len(q) \in Nat
    BY <1>8
  <2> DEFINE la == Len(a)
             lq == Len(q)
  <2>4. la + lq = 0 /\ la \in Nat /\ lq \in Nat
    BY <2>1, <2>2, <2>3
  <2> HIDE DEF la, lq
  <2>5. la = 0
    BY <2>4
  <2> QED BY <1>8, <2>5 DEF la
<1>10. ~ReadScalar(u, LengthWidth).ok
  <2>1. ReadScalar(u, 4).ok <=> (u.ok /\ u.buf.m_posRead + 4 <= u.buf.m_size)
    BY <1>1, <1>3, ScalarKeeps
  <2>2. ~(0 + 4 <= 0)
    OBVIOUS
  <2> QED BY <1>3, <1>8, <1>9, <2>1, <2>2 DEF LengthWidth
<1>11. IsMap(o.labels)
  BY <1>2 DEF ObjectOK
<1>12. /\ Keeps(u, s) /\ ~s.ok /\ s.got.object = [garbage |-> o.garbage, labels |-> o.labels]
  <2> DEFINE x == o.labels
  <2> HIDE DEF x
  <2> QED BY <1>1, <1>3, <1>4, <1>10, <1>11, MessageKeeps
<1>13. /\ Stream(s) /\ s.containerSizeBytes = DefaultSizeBytes
       /\ s.buf.m_internal = a /\ s.buf.m_size = c.m_size /\ s.buf.m_posWrite = s.buf.m_size
       /\ s.buf.m_resizeEnabled
  BY <1>3, <1>8, <1>12 DEF Keeps, a
<1>14. BufferOK(s.buf, Byte)
  BY <1>13, StreamFields DEF Stream
<1>15. InOK(d) /\ d.m_internal = a
  BY <1>13, <1>14, StartedOver
<1> HIDE DEF d
<1>16. p = LeftBy(h, userData, reuse, n)
  <2>1. o = LeftBy(h, userData, reuse, n)
    BY <1>2, <1>4 DEF ObjectOK
  <2>2. [garbage |-> o.garbage, labels |-> o.labels] = o
    BY <2>1 DEF LeftBy, LeftoverOf, NewObject
  <2>3. CASE reuse
    BY <1>12, <2>1, <2>2, <2>3
  <2>4. CASE ~reuse
    BY <2>4 DEF LeftBy
  <2> QED BY <1>1, <2>3, <2>4
<1> HIDE DEF p
<1>17. ObjectOK(p, h, n, userData, reuse)
  BY <1>1, <1>16, ObjectLeft
<1>18. ExchangeOK(b, d, p, h, received, mask, userData, reuse)
  BY <1>1, <1>2, <1>15, <1>17 DEF ExchangeOK, Masked, q, a, n
<1> QED BY <1>12, <1>13, <1>18 DEF b, d, p, h

\* The invariant holds at first.
LEMMA InitExchange ==
  ASSUME Init
  PROVE  MessageInv
<1> DEFINE b == outBuf
           c == inBuf
           h == sent
           zeroes == [i \in 1..Capacity |-> 0]
<1>1. /\ mask \in {s_littleEndian, s_bigEndian} /\ userData \in BOOLEAN /\ reuse \in BOOLEAN
      /\ b \in SenderBuffers /\ c = NewBuffer(<< >>) /\ object = NewObject /\ h = << >> /\ received = << >>
      /\ outSizeBytes = DefaultSizeBytes /\ inSizeBytes = DefaultSizeBytes
  BY DEF Init
<1>2. 0 \in Byte /\ Capacity \in Nat
  BY ZeroIsByte, SizesAssumption
<1>3. InOK(c) /\ c.m_internal = << >>
  BY <1>1 DEF NewBuffer, InOK, BufferOK, Buffer, ByteArray
<1>4. OutOK(b) /\ b.m_posRead = 0 /\ b.m_posWrite = 0
  <2>1. CASE b = NewBuffer(<< >>)
    BY <2>1 DEF NewBuffer, OutOK, BufferOK, Buffer, ByteArray
  <2>2. CASE b = SetResizeEnabled(NewBuffer(zeroes), FALSE)
    <3>1. zeroes \in Seq(Byte) /\ Len(zeroes) = Capacity
      BY <1>2
    <3> HIDE DEF zeroes
    <3>2. b = [m_internal |-> zeroes, m_size |-> Len(zeroes), m_posRead |-> 0, m_posWrite |-> 0,
               m_eofRead |-> FALSE, m_resizeEnabled |-> FALSE]
      BY <2>2 DEF NewBuffer, SetResizeEnabled
    <3> HIDE DEF b
    <3>3. BufferOK(b, Byte)
      BY <1>2, <3>1, <3>2 DEF BufferOK, Buffer, ByteArray
    <3> QED BY <1>2, <3>1, <3>2, <3>3 DEF OutOK
  <2> QED BY <1>1, <2>1, <2>2 DEF SenderBuffers
<1>5. Queued(b) = << >>
  <2>1. Queued(b) \in Seq(Byte) /\ Len(Queued(b)) = 0
    BY <1>4, QueuedType DEF OutOK
  <2> QED BY <2>1
<1>6. SentOK(h, mask, userData) /\ h \in Seq(Message) /\ Len(h) = 0
  BY <1>1 DEF SentOK
<1>7. Len(received) = 0 /\ received = ReceivedBy(h, 0, userData, reuse)
  BY <1>1 DEF ReceivedBy
<1>8. ObjectOK(object, h, 0, userData, reuse)
  <2>1. object = LeftBy(h, userData, reuse, 0)
    BY <1>1 DEF LeftBy
  <2> DEFINE data == userData
             again == reuse
             o == LeftBy(h, data, again, 0)
  <2>2. data \in BOOLEAN /\ again \in BOOLEAN /\ 0 \in 0..Len(h)
    BY <1>1, <1>6
  <2> HIDE DEF data, again, h
  <2>3. ObjectOK(o, h, 0, data, again)
    BY <1>6, <2>2, ObjectLeft
  <2> HIDE DEF o
  <2>4. object = o
    BY <2>1 DEF o, data, again
  <2> QED BY <2>3, <2>4 DEF data, again
<1>9. Join(c.m_internal, Queued(b)) = Concat(WiresBy(h, 0, mask, userData))
  <2>1. Join(<< >>, << >>) = << >>
    <3>1. << >> \in Seq(Byte)
      OBVIOUS
    <3> DEFINE a == << >>
    <3>2. Join(a, << >>) = a
      BY <3>1, JoinNothing
    <3> QED BY <3>2
  <2>2. Concat(WiresBy(h, 0, mask, userData)) = << >>
    BY <1>6, WiresNone
  <2> QED BY <1>3, <1>5, <2>1, <2>2
<1> HIDE DEF b, c, h
<1>10. ExchangeOK(b, c, object, h, received, mask, userData, reuse)
  BY <1>1, <1>3, <1>4, <1>6, <1>7, <1>8, <1>9 DEF ExchangeOK
<1> QED BY <1>1, <1>10 DEF MessageInv, b, c, h

\* Every step keeps it.
LEMMA StepExchange ==
  ASSUME MessageInv, [Next]_vars
  PROVE  MessageInv'
<1>0. outSizeBytes = DefaultSizeBytes /\ inSizeBytes = DefaultSizeBytes
  BY DEF MessageInv
<1>1. ASSUME NEW m \in Message, Send(m)
      PROVE  MessageInv'
  <2>1. PICK s \in {WriteMessage(OutStream, m)} :
          /\ Len(Body(m)) < Power(Base, LengthWidth)
          /\ outBuf' = IF s.ok THEN s.buf ELSE TakeBack(s.buf, outBuf.m_posWrite)
          /\ outSizeBytes' = s.containerSizeBytes
          /\ sent' = IF s.ok THEN Append(sent, m) ELSE sent
          /\ UNCHANGED <<setup, inBuf, inSizeBytes, object, received>>
    BY <1>1 DEF Send
  <2>2. s = WriteMessage(OutStream, m)
    OBVIOUS
  <2>3. /\ s.containerSizeBytes = DefaultSizeBytes
        /\ ExchangeOK(IF s.ok THEN s.buf ELSE TakeBack(s.buf, outBuf.m_posWrite), inBuf, object,
                      IF s.ok THEN Append(sent, m) ELSE sent, received, mask, userData, reuse)
    BY <2>1, <2>2, SendKeeps
  <2>4. /\ mask' = mask /\ userData' = userData /\ reuse' = reuse /\ inBuf' = inBuf
             /\ inSizeBytes' = inSizeBytes
        /\ object' = object /\ received' = received
    BY <2>1 DEF setup
  <2>5. ExchangeOK(outBuf', inBuf', object', sent', received', mask', userData', reuse')
    BY <2>1, <2>3, <2>4
  <2> QED BY <1>0, <2>1, <2>3, <2>4, <2>5 DEF MessageInv
<1>2. ASSUME NEW n \in 1..Waiting(outBuf), Transfer(n)
      PROVE  MessageInv'
  <2>1. ExchangeOK(Carried(outBuf, n), WriteBlock(InStream, Remaining(outBuf, n)).buf, object,
                   sent, received, mask, userData, reuse)
    BY TransferKeeps
  <2>2. /\ inBuf' = WriteBlock(InStream, Remaining(outBuf, n)).buf /\ outBuf' = Carried(outBuf, n)
        /\ mask' = mask /\ userData' = userData /\ reuse' = reuse /\ inSizeBytes' = inSizeBytes
        /\ outSizeBytes' = outSizeBytes /\ object' = object /\ received' = received /\ sent' = sent
    BY <1>2 DEF Transfer, setup
  <2>3. ExchangeOK(outBuf', inBuf', object', sent', received', mask', userData', reuse')
    BY <2>1, <2>2
  <2> QED BY <1>0, <2>2, <2>3 DEF MessageInv
<1>3. ASSUME Receive
      PROVE  MessageInv'
  <2>1. PICK s \in {ReadMessage(InStream, object)} :
          /\ inBuf' = IF s.ok THEN RemoveFromStart(s.buf, s.buf.m_posRead) ELSE ResetRead(s.buf)
          /\ inSizeBytes' = s.containerSizeBytes
          /\ object' = IF reuse THEN s.got.object ELSE NewObject
          /\ received' = IF s.ok THEN Append(received, s.got.message) ELSE received
          /\ UNCHANGED <<setup, outBuf, outSizeBytes, sent>>
    BY <1>3 DEF Receive
  <2>2. s = ReadMessage(InStream, object)
    OBVIOUS
  <2>3. /\ s.containerSizeBytes = DefaultSizeBytes
        /\ ExchangeOK(outBuf, IF s.ok THEN RemoveFromStart(s.buf, s.buf.m_posRead) ELSE ResetRead(s.buf),
                      IF reuse THEN s.got.object ELSE NewObject, sent,
                      IF s.ok THEN Append(received, s.got.message) ELSE received, mask, userData, reuse)
    <3>1. CASE Len(received) < Len(sent)
      BY <2>2, <3>1, ReceiveNext
    <3>2. CASE ~(Len(received) < Len(sent))
      BY <2>2, <3>2, ReceiveNone
    <3> QED BY <3>1, <3>2
  <2>4. /\ mask' = mask /\ userData' = userData /\ reuse' = reuse /\ outBuf' = outBuf
        /\ outSizeBytes' = outSizeBytes /\ sent' = sent
    BY <2>1 DEF setup
  <2>5. ExchangeOK(outBuf', inBuf', object', sent', received', mask', userData', reuse')
    BY <2>1, <2>3, <2>4
  <2> QED BY <1>0, <2>1, <2>3, <2>4, <2>5 DEF MessageInv
<1>4. CASE UNCHANGED vars
  <2>1. /\ mask' = mask /\ userData' = userData /\ reuse' = reuse /\ outBuf' = outBuf /\ inBuf' = inBuf
        /\ outSizeBytes' = outSizeBytes /\ inSizeBytes' = inSizeBytes /\ object' = object
        /\ received' = received /\ sent' = sent
    BY <1>4 DEF vars, setup
  <2>2. ExchangeOK(outBuf, inBuf, object, sent, received, mask, userData, reuse)
    BY DEF MessageInv
  <2>3. ExchangeOK(outBuf', inBuf', object', sent', received', mask', userData', reuse')
    BY <2>1, <2>2
  <2> QED BY <1>0, <2>1, <2>3 DEF MessageInv
<1> QED BY <1>1, <1>2, <1>3, <1>4 DEF Next

\* The inductive invariant of the exchange of messages.
THEOREM ExchangeInvariant == Spec => []MessageInv
<1>1. Init => MessageInv
  BY InitExchange
<1>2. MessageInv /\ [Next]_vars => MessageInv'
  BY StepExchange
<1> QED BY <1>1, <1>2, PTL DEF Spec

-----------------------------------------------------------------------------
(* What follows from it.                                                   *)

\* The bytes in the two buffers are those the property names.
LEMMA ExchangeTransit ==
  ASSUME MessageInv
  PROVE  InTransit
<1> DEFINE b == outBuf
           c == inBuf
           h == sent
           n == Len(received)
           a == c.m_internal
<1>1. OutOK(b) /\ InOK(c) /\ h \in Seq(Message) /\ n \in 0..Len(h)
  BY TheStreams
<1>2. Join(a, Queued(b)) = Concat(WiresBy(h, n, mask, userData))
  BY DEF MessageInv, ExchangeOK
<1>3. \A m : WireBy(m, mask, userData) = Wire(m)
  BY WireByIs
<1>4. WiresBy(h, n, mask, userData) = [i \in 1..(Len(h) - n) |-> Wire(h[n + i])]
  BY <1>3 DEF WiresBy
<1> HIDE DEF b, c, h, n
<1>5. Remaining(b, Waiting(b)) = Queued(b)
  <2>1. b.m_posRead + (b.m_posWrite - b.m_posRead) = b.m_posWrite
    BY <1>1, BufferFields DEF OutOK
  <2> QED BY <2>1 DEF Remaining, Waiting, Queued
<1>6. SubSeq(a, c.m_posRead + 1, c.m_size) = a
  <2>1. c.m_posRead + 1 = 1 /\ c.m_size = Len(a) /\ a \in Seq(Byte)
    BY <1>1, BufferFields DEF InOK
  <2> HIDE DEF a
  <2>2. SubSeq(a, 1, Len(a)) = a
    BY <2>1
  <2> QED BY <2>1, <2>2
<1>7. SubSeq(a, c.m_posRead + 1, c.m_size) \o Remaining(b, Waiting(b))
        = Concat([i \in 1..(Len(h) - n) |-> Wire(h[n + i])])
  BY <1>2, <1>4, <1>5, <1>6 DEF Join
<1> QED BY <1>7 DEF InTransit, a, b, c, h, n

\* The messages received are those the property names.
LEMMA ExchangeOrder ==
  ASSUME MessageInv
  PROVE  InOrder
<1>1. Len(received) \in 0..Len(sent) /\ sent \in Seq(Message)
  BY TheStreams
<1>2. received = ReceivedBy(sent, Len(received), userData, reuse)
  BY DEF MessageInv, ExchangeOK
<1>3. ASSUME NEW i PROVE AsRead(i) = AsReadOf(sent, userData, reuse, i)
  BY DEF AsRead, AsReadOf, Shown, ShownBy, GarbageOf, TellersOf, LabelsOf, KeysOf, HoldersOf
<1> DEFINE n == Len(received)
<1>4. n <= Len(sent)
  BY <1>1
<1> HIDE DEF n
<1>5. received = [i \in 1..n |-> AsReadOf(sent, userData, reuse, i)]
  BY <1>2 DEF ReceivedBy, n
<1>6. \A i \in DOMAIN received : received[i] = AsRead(i)
  BY <1>3, <1>5
<1> QED BY <1>4, <1>6 DEF InOrder, n

\* With all bytes carried no message that fits is refused, and no message that arrived.
LEMMA ExchangeRefusesNone ==
  ASSUME MessageInv
  PROVE  NoneRefused
<1> SUFFICES ASSUME Waiting(outBuf) = 0
             PROVE  /\ \A m \in Writable : WriteMessage(OutStream, m).ok
                    /\ ReadMessage(InStream, object).ok \/ Len(received) = Len(sent)
  BY DEF NoneRefused
<1> DEFINE b == outBuf
           c == inBuf
           h == sent
           n == Len(received)
           a == c.m_internal
<1>1. OutOK(b) /\ InOK(c) /\ h \in Seq(Message) /\ n \in 0..Len(h) /\ Masked
  BY TheStreams
<1>2. /\ b.m_posRead = b.m_posWrite /\ b.m_posWrite \in Nat /\ b.m_size \in Nat /\ BufferOK(b, Byte)
      /\ b.m_resizeEnabled \in BOOLEAN
  <2> HIDE DEF b
  <2>1. BufferOK(b, Byte) /\ b.m_posRead \in Nat /\ b.m_posWrite \in Nat /\ b.m_size \in Nat
        /\ b.m_resizeEnabled \in BOOLEAN
    BY <1>1, BufferFields DEF OutOK
  <2>2. b.m_posWrite - b.m_posRead = 0
    BY DEF Waiting, b
  <2> QED BY <2>1, <2>2
<1>3. ASSUME NEW m \in Writable PROVE WriteMessage(OutStream, m).ok
  <2> DEFINE u == OutStream
             s == WriteMessage(u, m)
             w == Wire(m)
  <2>1. m \in Message /\ Fits(m)
    BY <1>3, FitsIs DEF Writable, FieldFits
  <2>2. /\ Writing(u) /\ u.buf = b /\ u.ok /\ u.containerSizeBytes = DefaultSizeBytes
             /\ u.m_userData = userData
    BY SenderStream
  <2>3. b.m_resizeEnabled \/ Len(w) <= Capacity
    BY <1>3 DEF Writable
  <2>4. w \in Seq(Byte) /\ Len(w) \in Nat
    BY <2>1, WireIs
  <2> HIDE DEF u
  <2>5. Writes(u, s, w, Fits(m))
    BY <1>1, <2>1, <2>2, MessageWrites
  <2> HIDE DEF w, b, s
  <2>6. MayWrite(b, Len(w))
    <3>1. CASE b.m_resizeEnabled
      BY <3>1 DEF MayWrite
    <3>2. CASE ~b.m_resizeEnabled
      <4>1. b.m_size = Capacity /\ b.m_posWrite = 0 /\ Len(w) <= Capacity
        BY <1>1, <1>2, <2>3, <3>2 DEF OutOK
      <4> QED BY <1>2, <2>4, <4>1 DEF MayWrite, RemainWrite
    <3> QED BY <3>1, <3>2
  <2> QED BY <2>1, <2>2, <2>5, <2>6 DEF Writes, s, u
<1>4. ASSUME n # Len(h) PROVE ReadMessage(InStream, object).ok
  <2> DEFINE m == h[n + 1]
             w == Wire(m)
             s == ReadMessage(InStream, object)
             rest == Concat(WiresBy(h, n + 1, mask, userData))
  <2>1. n < Len(h) /\ n \in Nat /\ n + 1 \in 1..Len(h) /\ n + 1 \in 0..Len(h)
    BY <1>1, <1>4
  <2>2. s.ok <=> Len(w) <= c.m_size
    BY <2>1, ReceiveNext
  <2>3. Join(a, Queued(b)) = Concat(WiresBy(h, n, mask, userData))
    BY DEF MessageInv, ExchangeOK
  <2> HIDE DEF s, h, n, b, c
  <2>4. m \in Message
    BY <1>1, <2>1
  <2>5. Concat(WiresBy(h, n, mask, userData)) = Join(w, rest) /\ rest \in Seq(Byte)
    BY <1>1, <2>1, WiresFirst, WiresType
  <2> HIDE DEF m, rest
  <2>6. w \in Seq(Byte)
    BY <2>4, WireIs
  <2>7. a \in Seq(Byte) /\ Len(a) = c.m_size
    BY <1>1, BufferFields DEF InOK
  <2>8. Queued(b) = << >>
    <3>1. Queued(b) \in Seq(Byte) /\ Len(Queued(b)) = b.m_posWrite - b.m_posRead
      BY <1>2, QueuedType
    <3>2. Len(Queued(b)) = 0
      BY <1>2, <3>1
    <3> QED BY <3>1, <3>2
  <2> HIDE DEF a, w
  <2>9. a = Join(w, rest)
    <3>1. Join(a, << >>) = a
      BY <2>7, JoinNothing
    <3> QED BY <2>3, <2>5, <2>8, <3>1
  <2>10. Len(w) <= Len(Join(w, rest))
    BY <2>5, <2>6, JoinLonger
  <2> QED BY <2>2, <2>7, <2>9, <2>10 DEF s
<1> QED BY <1>3, <1>4 DEF n, h

\* The receiver gets the messages that were sent, in the order they were sent, however the
\* bytes are cut and however often a read or a write fails half way; of earlier messages it
\* shows what nothing has replaced.
THEOREM MessagesInOrder == Spec => []InOrder
<1>1. MessageInv => InOrder
  BY ExchangeOrder
<1> QED BY <1>1, ExchangeInvariant, PTL

\* The bytes on their way are always those of the messages sent and not received: no byte
\* of a message that failed stays behind, and none is lost by a read that failed.
THEOREM MessagesInTransit == Spec => []InTransit
<1>1. MessageInv => InTransit
  BY ExchangeTransit
<1> QED BY <1>1, ExchangeInvariant, PTL

\* Once all bytes are carried the sender can write every message that fits, and the
\* receiver reads every message that has arrived.
THEOREM MessagesNoneRefused == Spec => []NoneRefused
<1>1. MessageInv => NoneRefused
  BY ExchangeRefusesNone
<1> QED BY <1>1, ExchangeInvariant, PTL
=============================================================================
