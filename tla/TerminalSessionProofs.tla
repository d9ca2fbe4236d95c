------------------------ MODULE TerminalSessionProofs ------------------------
(***************************************************************************)
(* What one terminal session guarantees for every input, every text, every *)
(* list of arguments and every way the bytes are cut into chunks.          *)
(***************************************************************************)
EXTENDS TerminalSession, SequenceTheorems, TLAPS

Byte == 0..255

-----------------------------------------------------------------------------
(* Sequences that are cut and put together                                  *)

\* The first `n` of them; Drop has the others.
Take(s, n) == SubSeq(s, 1, n)

LEMMA CutFacts ==
    ASSUME NEW S, NEW s \in Seq(S), NEW n \in 0..Len(s)
    PROVE  /\ Take(s, n) \in Seq(S) /\ Len(Take(s, n)) = n
           /\ \A i \in 1..n : Take(s, n)[i] = s[i]
           /\ Drop(s, n) \in Seq(S) /\ Len(Drop(s, n)) = Len(s) - n
           /\ \A i \in 1..(Len(s) - n) : Drop(s, n)[i] = s[n + i]
           /\ Take(s, n) \o Drop(s, n) = s
  <1>0. Len(s) \in Nat /\ \A i \in 1..Len(s) : s[i] \in S
    BY LenProperties, ElementOfSeq
  <1>1. /\ SubSeq(s, 1, n) \in Seq(S) /\ Len(SubSeq(s, 1, n)) = n
        /\ \A i \in 1..n : SubSeq(s, 1, n)[i] = s[i]
    <2>1. \A i \in 1..n : s[i] \in S
      BY <1>0
    <2>2. /\ SubSeq(s, 1, n) \in Seq(S)
          /\ Len(SubSeq(s, 1, n)) = IF 1 <= n THEN n - 1 + 1 ELSE 0
          /\ \A i \in 1..(n - 1 + 1) : SubSeq(s, 1, n)[i] = s[1 + i - 1]
      BY <1>0, <2>1, SubSeqProperties
    <2> QED
      BY <1>0, <2>2
  <1>2. /\ Drop(s, n) \in Seq(S) /\ Len(Drop(s, n)) = Len(s) - n
        /\ \A i \in 1..(Len(s) - n) : Drop(s, n)[i] = s[n + i]
    <2>1. \A i \in (n + 1)..Len(s) : s[i] \in S
      BY <1>0
    <2>2. n + 1 \in Int /\ Len(s) \in Int
      BY <1>0
    <2>3. /\ SubSeq(s, n + 1, Len(s)) \in Seq(S)
          /\ Len(SubSeq(s, n + 1, Len(s))) =
                IF n + 1 <= Len(s) THEN Len(s) - (n + 1) + 1 ELSE 0
          /\ \A i \in 1..(Len(s) - (n + 1) + 1) :
                SubSeq(s, n + 1, Len(s))[i] = s[(n + 1) + i - 1]
      BY <2>1, <2>2, SubSeqProperties
    <2>4. \A i \in 1..(Len(s) - n) : (n + 1) + i - 1 = n + i
      BY <1>0
    <2> QED
      BY <1>0, <2>3, <2>4 DEF Drop
  <1>3. SubSeq(s, 1, n) \o Drop(s, n) = s
    <2>1. /\ SubSeq(s, 1, n) \o Drop(s, n) \in Seq(S)
          /\ Len(SubSeq(s, 1, n) \o Drop(s, n)) = n + (Len(s) - n)
          /\ \A i \in 1..(n + (Len(s) - n)) : (SubSeq(s, 1, n) \o Drop(s, n))[i] =
                IF i <= n THEN SubSeq(s, 1, n)[i] ELSE Drop(s, n)[i - n]
      BY <1>1, <1>2, ConcatProperties
    <2>2. \A i \in 1..Len(s) : (SubSeq(s, 1, n) \o Drop(s, n))[i] = s[i]
      <3> TAKE i \in 1..Len(s)
      <3>1. CASE i <= n
        BY <1>0, <1>1, <2>1, <3>1
      <3>2. CASE i > n
        <4>1. i - n \in 1..(Len(s) - n) /\ n + (i - n) = i /\ i \in 1..(n + (Len(s) - n))
          BY <1>0, <3>2
        <4> QED
          BY <1>0, <1>2, <2>1, <3>2, <4>1
      <3>3. i <= n \/ i > n
        BY <1>0
      <3> QED
        BY <3>1, <3>2, <3>3
    <2>3. Len(SubSeq(s, 1, n) \o Drop(s, n)) = Len(s)
      BY <1>0, <2>1
    <2> QED
      BY <2>1, <2>2, <2>3, SeqEqual
  <1> QED
    BY <1>1, <1>2, <1>3 DEF Take

\* Two parts of a stream that stand for two others.
Same(b, c, d, e) == {b, c, d, e} \subseteq Seq(Byte) /\ b \o c = d \o e

\* The front of `c` moves behind `b`: nothing is lost, duplicated or overtaken.
LEMMA MoveFacts ==
    ASSUME NEW b \in Seq(Byte), NEW c \in Seq(Byte), NEW n \in 0..Len(c),
           NEW d, NEW e, d = b \o Take(c, n), e = Drop(c, n)
    PROVE  Same(d, e, b, c) /\ d \in Seq(Byte) /\ e \in Seq(Byte)
  <1> DEFINE p == Take(c, n)
             q == Drop(c, n)
  <1>1. p \in Seq(Byte) /\ q \in Seq(Byte)
    BY CutFacts
  <1>2. p \o q = c
    BY CutFacts
  <1> HIDE DEF p, q
  <1>3. b \o p \in Seq(Byte)
    BY <1>1, ConcatProperties
  <1>4. (b \o p) \o q = b \o c
    <2>1. (b \o p) \o q = b \o (p \o q)
      BY <1>1, ConcatAssociative
    <2> QED
      BY <1>2, <2>1
  <1>5. d = b \o p /\ e = q
    BY DEF p, q
  <1> QED
    BY <1>1, <1>3, <1>4, <1>5 DEF Same

\* What is before them does not matter.
LEMMA SameBehind ==
    ASSUME NEW b, NEW c, NEW d, NEW e, Same(d, e, b, c), NEW a \in Seq(Byte)
    PROVE  Same(a \o d, e, a \o b, c)
  <1>1. b \in Seq(Byte) /\ c \in Seq(Byte) /\ d \in Seq(Byte) /\ e \in Seq(Byte)
    BY DEF Same
  <1>2. a \o d \o e = a \o (d \o e)
    BY <1>1, ConcatAssociative
  <1>3. a \o b \o c = a \o (b \o c)
    BY <1>1, ConcatAssociative
  <1>4. a \o d \in Seq(Byte) /\ a \o b \in Seq(Byte)
    BY <1>1, ConcatProperties
  <1>5. d \o e = b \o c
    BY DEF Same
  <1> QED
    BY <1>1, <1>2, <1>3, <1>4, <1>5 DEF Same

\* One element at a time.
LEMMA MoveOne ==
    ASSUME NEW S, NEW b \in Seq(S), NEW c \in Seq(S), c # <<>>
    PROVE  /\ 1 \in 0..Len(c)
           /\ Append(b, Head(c)) = b \o Take(c, 1)
           /\ Tail(c) = Drop(c, 1)
  <1>1. Len(c) \in Nat \ {0} /\ Head(c) \in S /\ Head(c) = c[1]
    BY EmptySeq, HeadTailProperties
  <1>2. Append(b, Head(c)) = b \o <<Head(c)>>
    BY <1>1, AppendIsConcat
  <1>3. Take(c, 1) = <<Head(c)>>
    <2>1. /\ Take(c, 1) \in Seq(S) /\ Len(Take(c, 1)) = 1
          /\ Take(c, 1)[1] = c[1]
      <3>1. 1 \in 0..Len(c) /\ 1 \in 1..1
        BY <1>1
      <3>2. /\ Take(c, 1) \in Seq(S) /\ Len(Take(c, 1)) = 1
            /\ \A i \in 1..1 : Take(c, 1)[i] = c[i]
        BY <3>1, CutFacts
      <3> QED
        BY <3>1, <3>2
    <2>2. <<Head(c)>> \in Seq(S) /\ Len(<<Head(c)>>) = 1 /\ <<Head(c)>>[1] = Head(c)
      BY <1>1
    <2>3. \A i \in 1..Len(Take(c, 1)) : Take(c, 1)[i] = <<Head(c)>>[i]
      BY <1>1, <2>1, <2>2
    <2> QED
      BY <2>1, <2>2, <2>3, SeqEqual
  <1>4. Tail(c) = Drop(c, 1)
    BY TailIsSubSeq DEF Drop
  <1>5. Append(b, Head(c)) = b \o Take(c, 1)
    BY <1>2, <1>3
  <1> QED
    BY <1>1, <1>4, <1>5

\* All of them, or none.
LEMMA WholeFacts ==
    ASSUME NEW s \in Seq(Byte)
    PROVE  /\ Take(s, Len(s)) = s /\ Drop(s, Len(s)) = <<>>
           /\ Take(s, 0) = <<>> /\ Drop(s, 0) = s
  <1>0. Len(s) \in 0..Len(s) /\ 0 \in 0..Len(s) /\ Len(s) \in Nat
    BY LenProperties
  <1>1. Take(s, 0) \in Seq(Byte) /\ Len(Take(s, 0)) = 0 /\ Drop(s, 0) \in Seq(Byte)
        /\ Take(s, 0) \o Drop(s, 0) = s
    BY <1>0, CutFacts
  <1>2. Take(s, Len(s)) \in Seq(Byte) /\ Drop(s, Len(s)) \in Seq(Byte)
        /\ Len(Drop(s, Len(s))) = Len(s) - Len(s)
        /\ Take(s, Len(s)) \o Drop(s, Len(s)) = s
    BY <1>0, CutFacts
  <1>3. Take(s, 0) = <<>> /\ Drop(s, Len(s)) = <<>>
    BY <1>0, <1>1, <1>2, EmptySeq
  <1>4. <<>> \o Drop(s, 0) = Drop(s, 0)
    BY <1>1, ConcatEmptySeq
  <1>5. Take(s, Len(s)) \o <<>> = Take(s, Len(s))
    BY <1>2, ConcatEmptySeq
  <1> QED
    BY <1>1, <1>2, <1>3, <1>4, <1>5

\* A stream that starts with `h` has `h` at the front of any piece as long as it.
LEMMA FrontFacts ==
    ASSUME NEW S, NEW s \in Seq(S), NEW t \in Seq(S), NEW h \in Seq(S), NEW u \in Seq(S),
           s \o t = h \o u
    PROVE  /\ \A i \in 1..Len(s) : i <= Len(h) => s[i] = h[i]
           /\ Len(s) >= Len(h) => /\ Take(s, Len(h)) = h
                                  /\ Drop(s, Len(h)) \o t = u
  <1>1. Len(s) \in Nat /\ Len(h) \in Nat /\ Len(t) \in Nat /\ Len(u) \in Nat
    BY LenProperties
  <1>2. \A i \in 1..Len(s) : i <= Len(h) => s[i] = h[i]
    <2>1. /\ \A i \in 1..(Len(s) + Len(t)) : i <= Len(s) => (s \o t)[i] = s[i]
          /\ \A i \in 1..(Len(h) + Len(u)) : i <= Len(h) => (h \o u)[i] = h[i]
      BY ConcatProperties
    <2> QED
      BY <1>1, <2>1
  <1>3. ASSUME Len(s) >= Len(h)
        PROVE  Take(s, Len(h)) = h /\ Drop(s, Len(h)) \o t = u
    <2> DEFINE p == Take(s, Len(h))
               q == Drop(s, Len(h))
    <2>1. /\ p \in Seq(S) /\ Len(p) = Len(h) /\ q \in Seq(S) /\ p \o q = s
          /\ \A i \in 1..Len(h) : p[i] = s[i]
      <3>1. Len(h) \in 0..Len(s)
        BY <1>1, <1>3
      <3> QED
        BY <3>1, CutFacts
    <2> HIDE DEF p, q
    <2>2. p = h
      <3>1. \A i \in 1..Len(p) : p[i] = h[i]
        BY <1>1, <1>2, <1>3, <2>1
      <3> QED
        BY <2>1, <3>1, SeqEqual
    <2>3. q \o t \in Seq(S)
      BY <2>1, ConcatProperties
    <2>0. q \in Seq(S)
      BY <2>1
    <2>4. (h \o q) \o t = h \o (q \o t)
      BY <2>0, ConcatAssociative
    <2>5. h \o (q \o t) = h \o u
      BY <2>1, <2>2, <2>4
    <2>6. q \o t = u
      <3>1. \A x, y, z \in Seq(S) : x \o y = x \o z => y = z
        BY ConcatSimplifications
      <3> QED
        BY <2>3, <2>5, <3>1
    <2> QED
      BY <2>2, <2>6 DEF p, q
  <1> QED
    BY <1>2, <1>3

-----------------------------------------------------------------------------
(* Frames                                                                   *)

LEMMA ByteFacts == \A n : n \in Byte <=> n \in Nat /\ n <= 255
  BY DEF Byte

LEMMA DigitFacts ==
    ASSUME NEW a \in Nat, NEW b \in Nat
    PROVE  a * 256 + b \in Nat /\ (a = 0 => a * 256 + b = b)
  OBVIOUS

LEMMA IntAtFacts ==
    ASSUME NEW s \in Seq(Byte), NEW i \in 1..Len(s), i + 3 <= Len(s)
    PROVE  /\ IntAt(s, i) \in Nat
           /\ s[i] = 0 /\ s[i + 1] = 0 /\ s[i + 2] = 0 => IntAt(s, i) = s[i + 3]
  <1>1. Len(s) \in Nat
    BY LenProperties
  <1>2. s[i] \in Byte /\ s[i + 1] \in Byte /\ s[i + 2] \in Byte /\ s[i + 3] \in Byte
    BY <1>1, ElementOfSeq
  <1> DEFINE high == s[i] * 256 + s[i + 1]
             mid == high * 256 + s[i + 2]
             low == mid * 256 + s[i + 3]
  <1>3. high \in Nat /\ (s[i] = 0 /\ s[i + 1] = 0 => high = 0)
    BY <1>2, ByteFacts, DigitFacts
  <1>4. mid \in Nat /\ (high = 0 /\ s[i + 2] = 0 => mid = 0)
    <2> HIDE DEF high
    <2> QED
      BY <1>2, <1>3, ByteFacts, DigitFacts
  <1>5. low \in Nat /\ (mid = 0 => low = s[i + 3])
    <2> HIDE DEF mid
    <2> QED
      BY <1>2, <1>4, ByteFacts, DigitFacts
  <1>6. IntAt(s, i) = low
    BY DEF IntAt
  <1> HIDE DEF high, mid, low
  <1> QED
    BY <1>3, <1>4, <1>5, <1>6

\* A frame that is complete is in the buffer, and one takes at least five bytes.
LEMMA FrameSizeFacts ==
    ASSUME NEW s \in Seq(Byte)
    PROVE  /\ FrameSize(s) \in 0..Len(s)
           /\ FrameSize(s) = 0 \/ FrameSize(s) >= 5
  <1>1. Len(s) \in Nat
    BY LenProperties
  <1>2. CASE Len(s) < 5
    BY <1>1, <1>2 DEF FrameSize
  <1>3. CASE Len(s) >= 5
    <2>1. IntAt(s, 2) \in Nat
      BY <1>1, <1>3, IntAtFacts
    <2> QED
      BY <1>1, <1>3, <2>1 DEF FrameSize, WhenComplete
  <1> QED
    BY <1>1, <1>2, <1>3

LEMMA HandshakeSizeFacts ==
    ASSUME NEW s \in Seq(Byte)
    PROVE  HandshakeSize(s) \in 0..Len(s)
  <1>1. Len(s) \in Nat
    BY LenProperties
  <1>2. CASE Len(s) >= 8
    <2>1. IntAt(s, 5) \in Nat
      BY <1>1, <1>2, IntAtFacts
    <2> QED
      BY <1>1, <1>2, <2>1 DEF HandshakeSize, WhenComplete
  <1> QED
    BY <1>1, <1>2 DEF HandshakeSize

LEMMA BytesFacts ==
    ASSUME NEW n \in Byte
    PROVE  /\ IntBytes(n) \in Seq(Byte) /\ Len(IntBytes(n)) = 4
           /\ IntBytes(n)[1] = 0 /\ IntBytes(n)[2] = 0 /\ IntBytes(n)[3] = 0
           /\ IntBytes(n)[4] = n
  BY DEF IntBytes, Byte

\* An array starts with its length.
LEMMA ArrayFacts ==
    ASSUME NEW bytes \in Seq(Byte), Len(bytes) < 256
    PROVE  /\ ArrayBytes(bytes) \in Seq(Byte) /\ Len(ArrayBytes(bytes)) = 4 + Len(bytes)
           /\ \A i \in 1..3 : ArrayBytes(bytes)[i] = 0
           /\ ArrayBytes(bytes)[4] = Len(bytes)
           /\ \A i \in 1..Len(bytes) : ArrayBytes(bytes)[4 + i] = bytes[i]
  <1>0. Len(bytes) \in Nat
    BY LenProperties
  <1>1. Len(bytes) \in Byte /\ Len(bytes) \in Nat
    BY <1>0, ByteFacts
  <1> DEFINE size == IntBytes(Len(bytes))
  <1>2. /\ size \in Seq(Byte) /\ Len(size) = 4
        /\ size[1] = 0 /\ size[2] = 0 /\ size[3] = 0 /\ size[4] = Len(bytes)
    BY <1>1, BytesFacts
  <1> HIDE DEF size
  <1>3. /\ size \o bytes \in Seq(Byte) /\ Len(size \o bytes) = 4 + Len(bytes)
        /\ \A i \in 1..(4 + Len(bytes)) :
              (size \o bytes)[i] = IF i <= 4 THEN size[i] ELSE bytes[i - 4]
    <2>1. /\ size \o bytes \in Seq(Byte) /\ Len(size \o bytes) = Len(size) + Len(bytes)
          /\ \A i \in 1..(Len(size) + Len(bytes)) : (size \o bytes)[i] =
                IF i <= Len(size) THEN size[i] ELSE bytes[i - Len(size)]
      BY <1>2, ConcatProperties
    <2> QED
      BY <1>2, <2>1
  <1>4. \A i \in 1..Len(bytes) : (size \o bytes)[4 + i] = bytes[i]
    <2> TAKE i \in 1..Len(bytes)
    <2>1. 4 + i \in 1..(4 + Len(bytes)) /\ ~(4 + i <= 4) /\ (4 + i) - 4 = i
      BY <1>1
    <2> QED
      BY <1>3, <2>1
  <1>5. (\A i \in 1..3 : (size \o bytes)[i] = 0) /\ (size \o bytes)[4] = Len(bytes)
    BY <1>1, <1>2, <1>3
  <1> QED
    BY <1>3, <1>4, <1>5 DEF size, ArrayBytes

\* A frame of data: no request, and the array.
LEMMA DataFrameFacts ==
    ASSUME NEW bytes \in Seq(Byte), Len(bytes) < 256
    PROVE  /\ DataFrame(bytes) \in Seq(Byte) /\ Len(DataFrame(bytes)) = 5 + Len(bytes)
           /\ \A i \in 1..4 : DataFrame(bytes)[i] = 0
           /\ DataFrame(bytes)[5] = Len(bytes)
           /\ \A i \in 1..Len(bytes) : DataFrame(bytes)[5 + i] = bytes[i]
  <1> DEFINE array == ArrayBytes(bytes)
             no == BoolBytes(FALSE)
  <1>0. Len(bytes) \in Nat
    BY LenProperties
  <1>1. /\ array \in Seq(Byte) /\ Len(array) = 4 + Len(bytes)
        /\ \A i \in 1..3 : array[i] = 0
        /\ array[4] = Len(bytes)
        /\ \A i \in 1..Len(bytes) : array[4 + i] = bytes[i]
    BY ArrayFacts
  <1>2. no \in Seq(Byte) /\ Len(no) = 1 /\ no[1] = 0
    BY DEF BoolBytes, Byte
  <1> HIDE DEF array, no
  <1>3. /\ no \o array \in Seq(Byte) /\ Len(no \o array) = 1 + (4 + Len(bytes))
        /\ \A i \in 1..(1 + (4 + Len(bytes))) :
              (no \o array)[i] = IF i <= 1 THEN no[i] ELSE array[i - 1]
    <2>1. /\ no \o array \in Seq(Byte) /\ Len(no \o array) = Len(no) + Len(array)
          /\ \A i \in 1..(Len(no) + Len(array)) : (no \o array)[i] =
                IF i <= Len(no) THEN no[i] ELSE array[i - Len(no)]
      <3>1. array \in Seq(Byte) /\ no \in Seq(Byte)
        BY <1>1, <1>2
      <3> QED
        BY <3>1, ConcatProperties
    <2> QED
      BY <1>1, <1>2, <2>1
  <1>4. \A i \in 1..4 : (no \o array)[i] = 0
    BY <1>0, <1>1, <1>2, <1>3
  <1>5. (no \o array)[5] = Len(bytes)
    BY <1>0, <1>1, <1>3
  <1>6. \A i \in 1..Len(bytes) : (no \o array)[5 + i] = bytes[i]
    <2> TAKE i \in 1..Len(bytes)
    <2>1. /\ 5 + i \in 1..(1 + (4 + Len(bytes))) /\ ~(5 + i <= 1) /\ (5 + i) - 1 = 4 + i
      BY <1>0
    <2> QED
      BY <1>1, <1>3, <2>1
  <1>7. Len(no \o array) = 5 + Len(bytes)
    BY <1>0, <1>3
  <1> QED
    BY <1>3, <1>4, <1>5, <1>6, <1>7 DEF array, no, DataFrame

\* A request without a number.
LEMMA RequestFrameFacts ==
    ASSUME NEW type \in RequestTypes
    PROVE  /\ RequestFrame(type, Num) \in Seq(Byte)
           /\ type # MultiCharRequest =>
                 /\ Len(RequestFrame(type, Num)) = 5 /\ RequestFrame(type, Num)[1] = 1
                 /\ \A i \in 2..4 : RequestFrame(type, Num)[i] = 0
                 /\ RequestFrame(type, Num)[5] = type
  <1>1. type \in Byte /\ Num \in Byte
    BY TypesAssumption DEF RequestTypes, CharRequest, MultiCharRequest, LineRequest, Byte
  <1> DEFINE yes == BoolBytes(TRUE)
             kind == IntBytes(type)
  <1>2. yes \in Seq(Byte) /\ Len(yes) = 1 /\ yes[1] = 1
    BY DEF BoolBytes, Byte
  <1>3. /\ kind \in Seq(Byte) /\ Len(kind) = 4
        /\ kind[1] = 0 /\ kind[2] = 0 /\ kind[3] = 0 /\ kind[4] = type
    BY <1>1, BytesFacts
  <1> HIDE DEF yes, kind
  <1>4. /\ yes \o kind \in Seq(Byte) /\ Len(yes \o kind) = Len(yes) + Len(kind)
        /\ \A i \in 1..(Len(yes) + Len(kind)) :
              (yes \o kind)[i] = IF i <= Len(yes) THEN yes[i] ELSE kind[i - Len(yes)]
    BY <1>2, <1>3, ConcatProperties
  <1>5. CASE type # MultiCharRequest
    <2>1. RequestFrame(type, Num) = yes \o kind
      <3>1. RequestFrame(type, Num) = yes \o kind \o <<>>
        BY <1>5 DEF RequestFrame, yes, kind
      <3> QED
        BY <1>4, <3>1, ConcatEmptySeq
    <2>2. Len(yes \o kind) = 5 /\ (yes \o kind)[1] = 1 /\ (yes \o kind)[5] = type
      BY <1>2, <1>3, <1>4
    <2>3. \A i \in 2..4 : (yes \o kind)[i] = 0
      BY <1>2, <1>3, <1>4
    <2> QED
      BY <1>4, <2>1, <2>2, <2>3
  <1>6. CASE type = MultiCharRequest
    <2>1. RequestFrame(type, Num) = yes \o kind \o LongBytes(Num)
      BY <1>6 DEF RequestFrame, yes, kind
    <2>2. LongBytes(Num) \in Seq(Byte)
      <3>1. IntBytes(Num) \in Seq(Byte) 
        BY <1>1, BytesFacts
      <3>2. <<0, 0, 0, 0>> \in Seq(Byte)
        BY ByteFacts
      <3> QED
        BY <3>1, <3>2, ConcatProperties DEF LongBytes
    <2>3. yes \o kind \o LongBytes(Num) \in Seq(Byte)
      BY <1>4, <2>2, ConcatProperties
    <2> QED
      BY <1>6, <2>1, <2>3
  <1> QED
    BY <1>5, <1>6

LEMMA HandshakeFacts ==
    ASSUME NEW m \in Byte
    PROVE  /\ Handshake(m, Args) \in Seq(Byte)
           /\ Len(Handshake(m, Args)) = 8 + Len(Args)
           /\ Handshake(m, Args)[5] = 0 /\ Handshake(m, Args)[6] = 0
           /\ Handshake(m, Args)[7] = 0 /\ Handshake(m, Args)[8] = Len(Args)
  <1>1. Args \in Seq(Byte) /\ Len(Args) < 256 /\ Len(Args) \in Nat
    BY TypesAssumption, SizesAssumption, LenProperties DEF Byte
  <1> DEFINE array == ArrayBytes(Args)
             head == IntBytes(m)
  <1>2. /\ array \in Seq(Byte) /\ Len(array) = 4 + Len(Args)
        /\ \A i \in 1..3 : array[i] = 0
        /\ array[4] = Len(Args)
    BY <1>1, ArrayFacts
  <1>3. head \in Seq(Byte) /\ Len(head) = 4
    BY BytesFacts
  <1> HIDE DEF array, head
  <1>4. /\ head \o array \in Seq(Byte) /\ Len(head \o array) = 4 + (4 + Len(Args))
        /\ \A i \in 1..(4 + (4 + Len(Args))) :
              (head \o array)[i] = IF i <= 4 THEN head[i] ELSE array[i - 4]
    <2>1. /\ head \o array \in Seq(Byte) /\ Len(head \o array) = Len(head) + Len(array)
          /\ \A i \in 1..(Len(head) + Len(array)) : (head \o array)[i] =
                IF i <= Len(head) THEN head[i] ELSE array[i - Len(head)]
      <3>1. array \in Seq(Byte) /\ head \in Seq(Byte)
        BY <1>2, <1>3
      <3> QED
        BY <3>1, ConcatProperties
    <2> QED
      BY <1>2, <1>3, <2>1
  <1>5. /\ (head \o array)[5] = 0 /\ (head \o array)[6] = 0 /\ (head \o array)[7] = 0
        /\ (head \o array)[8] = Len(Args)
    BY <1>1, <1>2, <1>4
  <1>6. Len(head \o array) = 8 + Len(Args)
    BY <1>1, <1>4
  <1> QED
    BY <1>4, <1>5, <1>6 DEF array, head, Handshake

-----------------------------------------------------------------------------
(* The types                                                                *)

\* TypeOK but for the bound of `answered`, which the frames have to give.
SessionTypes ==
    /\ mode \in Modes
    /\ cstate \in {"connecting", "open", "loop", "closed"}
    /\ cause \in {"none", "disconnected", "broken", "quit", "error"}
    /\ posted \in BOOLEAN
    /\ sstate \in {"loading", "open", "gone"}
    /\ await \in Requests \cup {0}
    /\ typing \in Seq(Byte) /\ stdin \in Seq(Byte) /\ stdout \in Seq(Byte)
    /\ cbuf \in Seq(Byte) /\ up \in Seq(Byte) /\ down \in Seq(Byte)
    /\ sbuf \in Seq(Byte) /\ received \in Seq(Byte) /\ written \in Seq(Byte)
    /\ asked \in 0..MaxOps /\ answered \in Nat

Hello == Handshake(ModeCode[mode], Args)

LEMMA HelloFacts ==
    ASSUME mode \in Modes
    PROVE  /\ Hello \in Seq(Byte) /\ Len(Hello) = 8 + Len(Args)
           /\ Hello[5] = 0 /\ Hello[6] = 0 /\ Hello[7] = 0 /\ Hello[8] = Len(Args)
  <1>1. ModeCode[mode] \in Byte
    BY TypesAssumption, ByteFacts DEF ModeCode
  <1> QED
    BY <1>1, HandshakeFacts DEF Hello

\* What a request takes from stdin is there.
LEMMA TakesFacts ==
    ASSUME stdin \in Seq(Byte), NEW n \in Takes(cbuf)
    PROVE  n \in 0..Len(stdin)
  BY LenProperties DEF Takes, LineEnd

LEMMA ReadsFacts ==
    ASSUME NEW s \in Seq(Byte), NEW n \in Reads(s)
    PROVE  n \in 0..Len(s)
  BY LenProperties DEF Reads, LineEnd

\* A chunk of the text.
LEMMA ChunkFacts ==
    ASSUME written \in Seq(Byte), NEW n \in (Len(written) + 1)..Len(Text)
    PROVE  /\ SubSeq(Text, Len(written) + 1, n) \in Seq(Byte)
           /\ Len(SubSeq(Text, Len(written) + 1, n)) = n - Len(written)
           /\ n - Len(written) \in 1..255 /\ n - Len(written) < 256
           /\ \A i \in 1..(n - Len(written)) :
                 SubSeq(Text, Len(written) + 1, n)[i] = Text[Len(written) + i]
  <1>1. Text \in Seq(Byte) /\ Len(Text) \in Nat /\ Len(Text) < 256 /\ Len(written) \in Nat
    BY TypesAssumption, SizesAssumption, LenProperties DEF Byte
  <1> DEFINE m == Len(written) + 1
  <1>2. m \in Int /\ n \in Int /\ m <= n
    BY <1>1
  <1>3. \A i \in m..n : Text[i] \in Byte
    BY <1>1, ElementOfSeq
  <1> HIDE DEF m
  <1>4. /\ SubSeq(Text, m, n) \in Seq(Byte)
        /\ Len(SubSeq(Text, m, n)) = IF m <= n THEN n - m + 1 ELSE 0
        /\ \A i \in 1..(n - m + 1) : SubSeq(Text, m, n)[i] = Text[m + i - 1]
    BY <1>2, <1>3, SubSeqProperties
  <1>5. n - m + 1 = n - Len(written) /\ \A i \in Int : m + i - 1 = Len(written) + i
    BY <1>1, <1>2 DEF m
  <1>6. n - Len(written) \in 1..255 /\ n - Len(written) < 256
    <2>1. Len(Text) \in Nat /\ Len(Text) <= 255 /\ Len(written) \in Nat
      BY <1>1
    <2> DEFINE a == Len(written)
               b == Len(Text)
    <2>2. a \in Nat /\ b \in Nat /\ b <= 255 /\ n \in (a + 1)..b
      BY <2>1
    <2> HIDE DEF a, b
    <2>3. n - a \in 1..255 /\ n - a < 256
      BY <2>2
    <2> QED
      BY <2>3 DEF a
  <1>7. \A i \in 1..(n - Len(written)) : SubSeq(Text, m, n)[i] = Text[Len(written) + i]
    BY <1>4, <1>5
  <1>8. Len(SubSeq(Text, m, n)) = n - Len(written)
    BY <1>2, <1>4, <1>5
  <1> QED
    BY <1>4, <1>6, <1>7, <1>8 DEF m

\* What one step of the service's socket makes of the bytes behind `s`.
Opens(s) == /\ sstate = "loading" /\ sstate' = "open"
            /\ HandshakeSize(s) # 0
            /\ presented' = Take(s, HandshakeSize(s))
            /\ sbuf' = Drop(s, HandshakeSize(s))
            /\ UNCHANGED <<received, await>>

Keeps(s) == /\ sbuf' = s
            /\ UNCHANGED <<sstate, received, await, presented>>

Hands(s) == \E n \in Reads(s) :
               /\ sstate = "open"
               /\ received' = received \o Take(s, n)
               /\ sbuf' = Drop(s, n) /\ await' = 0
               /\ UNCHANGED <<sstate, presented>>

LEMMA ServiceArriveFacts ==
    ASSUME SessionTypes, ServiceArrive
    PROVE  /\ UNCHANGED <<mode, clientVars, down, written, asked>>
           /\ \E n \in 1..Len(up) :
                 /\ up' = Drop(up, n)
                 /\ LET s == sbuf \o Take(up, n)
                    IN  Opens(s) \/ Keeps(s) \/ Hands(s)
  <1>1. PICK n \in 1..Len(up) :
           /\ up' = Drop(up, n)
           /\ LET s == sbuf \o Take(up, n)
              IN  IF sstate = "open"
                  THEN /\ IF Reads(s) = {} THEN sbuf' = s /\ UNCHANGED <<received, await>>
                          ELSE \E r \in Reads(s) :
                                  /\ received' = received \o Take(s, r)
                                  /\ sbuf' = Drop(s, r) /\ await' = 0
                       /\ UNCHANGED <<sstate, presented>>
                  ELSE IF HandshakeSize(s) = 0
                  THEN sbuf' = s /\ UNCHANGED <<sstate, await, presented, received>>
                  ELSE /\ sstate' = "open"
                       /\ presented' = Take(s, HandshakeSize(s))
                       /\ sbuf' = BehindHandshake(s)
                       /\ UNCHANGED <<received, await>>
    BY DEF ServiceArrive, Take
  <1>2. sstate \in {"loading", "open"}
    BY DEF SessionTypes, ServiceArrive
  <1> DEFINE s == sbuf \o Take(up, n)
  <1>3. Opens(s) \/ Keeps(s) \/ Hands(s)
    BY <1>1, <1>2 DEF Opens, Keeps, Hands, BehindHandshake
  <1> QED
    BY <1>1, <1>3 DEF ServiceArrive

LEMMA TypesInit ==
    ASSUME Init
    PROVE  SessionTypes
  <1>1. Input \in Seq(Byte) /\ <<>> \in Seq(Byte)
    BY TypesAssumption, EmptySeq DEF Byte
  <1>2. 0 \in 0..MaxOps
    BY TypesAssumption
  <1> QED
    BY <1>1, <1>2 DEF Init, SessionTypes

LEMMA TypesInv ==
    ASSUME SessionTypes, [Next]_vars
    PROVE  SessionTypes'
  <1> USE DEF SessionTypes, clientVars, serviceVars
  <1>0. Hello \in Seq(Byte) /\ <<>> \in Seq(Byte)
    BY HelloFacts, EmptySeq
  <1>1. CASE Type
    <2>1. Tail(typing) \in Seq(Byte) /\ Head(typing) \in Byte
      BY <1>1, HeadTailProperties DEF Type
    <2>2. Append(stdin, Head(typing)) \in Seq(Byte)
      BY <2>1, AppendProperties
    <2> QED
      BY <1>1, <2>1, <2>2 DEF Type
  <1>2. CASE Connected
    <2>1. Hello \o stdin \in Seq(Byte)
      BY <1>0, ConcatProperties
    <2> QED
      BY <1>0, <1>2, <2>1 DEF Connected, Hello
  <1>3. CASE ConnectFails \/ LoopEnd \/ SendFails \/ Disconnected \/ Quit
    BY <1>3 DEF ConnectFails, LoopEnd, SendFails, Disconnected, Quit
  <1>4. CASE ConsoleReady
    <2>1. up \o stdin \in Seq(Byte)
      BY ConcatProperties
    <2> QED
      BY <1>0, <1>4, <2>1 DEF ConsoleReady
  <1>5. CASE ClientArrive
    <2>1. PICK n \in 1..Len(down) : cbuf' = cbuf \o Take(down, n) /\ down' = Drop(down, n)
      BY <1>5 DEF ClientArrive, Take
    <2>2. n \in 0..Len(down)
      BY LenProperties
    <2>3. cbuf' \in Seq(Byte) /\ down' \in Seq(Byte)
      BY <2>1, <2>2, CutFacts, MoveFacts
    <2> QED
      BY <1>5, <2>3 DEF ClientArrive
  <1>6. CASE SocketReady
    <2>1. stdout \o cbuf \in Seq(Byte)
      BY ConcatProperties
    <2> QED
      BY <1>0, <1>6, <2>1 DEF SocketReady
  <1>7. CASE LoopData
    <2>1. FrameSize(cbuf) \in 0..Len(cbuf) /\ Len(cbuf) \in Nat
      BY FrameSizeFacts, LenProperties
    <2>2. SubSeq(cbuf, 6, FrameSize(cbuf)) \in Seq(Byte)
      <3>1. \A i \in 6..FrameSize(cbuf) : cbuf[i] \in Byte
        BY <2>1, ElementOfSeq
      <3>2. 6 \in Int /\ FrameSize(cbuf) \in Int
        BY <2>1
      <3> QED
        BY <3>1, <3>2, SubSeqProperties
    <2>3. Drop(cbuf, FrameSize(cbuf)) \in Seq(Byte)
      BY <2>1, CutFacts
    <2>4. stdout \o SubSeq(cbuf, 6, FrameSize(cbuf)) \in Seq(Byte)
      BY <2>2, ConcatProperties
    <2> QED
      BY <1>7, <2>3, <2>4 DEF LoopData
  <1>8. CASE LoopRequest
    <2>1. Drop(cbuf, FrameSize(cbuf)) \in Seq(Byte)
      BY FrameSizeFacts, CutFacts
    <2>2. PICK n \in Takes(cbuf) :
             /\ up' = up \o Take(stdin, n)
             /\ stdin' = Drop(stdin, n)
             /\ answered' = IF n > 0 THEN answered + 1 ELSE answered
      BY <1>8 DEF LoopRequest, Serve, Take
    <2>3. n \in 0..Len(stdin)
      BY TakesFacts
    <2>4. up' \in Seq(Byte) /\ stdin' \in Seq(Byte)
      BY <2>2, <2>3, CutFacts, MoveFacts
    <2>5. answered' \in Nat
      BY <2>2
    <2> QED
      BY <1>8, <2>1, <2>4, <2>5 DEF LoopRequest, Serve
  <1>9. CASE ServiceArrive
    <2>1. PICK n \in 1..Len(up) :
             /\ up' = Drop(up, n)
             /\ LET s == sbuf \o Take(up, n)
                IN  Opens(s) \/ Keeps(s) \/ Hands(s)
      BY <1>9, ServiceArriveFacts
    <2> DEFINE s == sbuf \o Take(up, n)
    <2>2. n \in 0..Len(up)
      BY LenProperties
    <2>3. s \in Seq(Byte) /\ Drop(up, n) \in Seq(Byte)
      BY <2>2, CutFacts, MoveFacts
    <2>4. Opens(s) \/ Keeps(s) \/ Hands(s)
      BY <2>1
    <2> HIDE DEF s
    <2>5. /\ sbuf' \in Seq(Byte) /\ received' \in Seq(Byte)
          /\ sstate' \in {"loading", "open", "gone"} /\ await' \in Requests \cup {0}
      <3>1. CASE Opens(s)
        BY <2>3, <3>1, HandshakeSizeFacts, CutFacts DEF Opens
      <3>2. CASE Keeps(s)
        BY <2>3, <3>2 DEF Keeps
      <3>3. CASE Hands(s)
        <4>1. PICK r \in Reads(s) :
                 /\ received' = received \o Take(s, r)
                 /\ sbuf' = Drop(s, r) /\ await' = 0
          BY <3>3 DEF Hands
        <4>2. r \in 0..Len(s)
          BY <2>3, ReadsFacts
        <4>3. received' \in Seq(Byte) /\ sbuf' \in Seq(Byte)
          BY <2>3, <4>1, <4>2, CutFacts, MoveFacts
        <4> QED
          BY <3>3, <4>1, <4>3 DEF Hands
      <3> QED
        BY <2>4, <3>1, <3>2, <3>3
    <2> QED
      BY <1>9, <2>1, <2>3, <2>5, ServiceArriveFacts
  <1>10. CASE Write
    <2>1. PICK n \in (Len(written) + 1)..Len(Text) :
             /\ written' = written \o SubSeq(Text, Len(written) + 1, n)
             /\ down' = down \o (IF mode = "active"
                                 THEN DataFrame(SubSeq(Text, Len(written) + 1, n))
                                 ELSE SubSeq(Text, Len(written) + 1, n))
      BY <1>10 DEF Write
    <2> DEFINE bytes == SubSeq(Text, Len(written) + 1, n)
    <2>2. bytes \in Seq(Byte) /\ Len(bytes) < 256
      BY ChunkFacts
    <2> HIDE DEF bytes
    <2>3. written \o bytes \in Seq(Byte) /\ down \o bytes \in Seq(Byte)
      BY <2>2, ConcatProperties
    <2>4. down \o DataFrame(bytes) \in Seq(Byte)
      BY <2>2, DataFrameFacts, ConcatProperties
    <2>5. written' \in Seq(Byte) /\ down' \in Seq(Byte)
      BY <2>1, <2>3, <2>4 DEF bytes
    <2> QED
      BY <1>10, <2>5 DEF Write
  <1>11. ASSUME NEW type \in Requests,
                (Request(type) /\ UNCHANGED await) \/ Prepare(type)
         PROVE  SessionTypes'
    <2>1. RequestFrame(type, Num) \in Seq(Byte)
      BY TypesAssumption, RequestFrameFacts
    <2>2. down \o RequestFrame(type, Num) \in Seq(Byte)
      BY <2>1, ConcatProperties
    <2>3. asked + 1 \in 0..MaxOps
      <3>1. Len(written) + asked < MaxOps /\ Len(written) \in Nat
        BY <1>11, LenProperties DEF Request, Prepare
      <3> QED
        BY <3>1, TypesAssumption
    <2> QED
      BY <1>11, <2>2, <2>3 DEF Request, Prepare
  <1>12. CASE DisconnectTerminal \/ PeerGone
    BY <1>12 DEF DisconnectTerminal, PeerGone
  <1>13. CASE UNCHANGED vars
    BY <1>13 DEF vars
  <1> QED
    BY <1>1, <1>2, <1>3, <1>4, <1>5, <1>6, <1>7, <1>8, <1>9, <1>10, <1>11, <1>12, <1>13
    DEF Next, Client

-----------------------------------------------------------------------------
(* What the user types                                                      *)

\* Before it is connected the client sends nothing.
NothingSent ==
    cstate = "connecting" => /\ sstate = "loading" /\ up = <<>> /\ sbuf = <<>>
                             /\ stdin \o typing = Input

\* A terminal that is loading has still the whole handshake to read, and then the
\* whole input; or its client never got as far as to send any of it.
HelloFirst ==
    sstate = "loading" =>
        /\ received = <<>>
        /\ \/ cstate \in {"connecting", "closed"} /\ up = <<>> /\ sbuf = <<>>
           \/ sbuf \o up \o stdin \o typing = Hello \o Input

InputInv == SessionTypes /\ NothingSent /\ HelloFirst /\ InputFaithful /\ HandshakeFaithful

\* The steps that move no input.
LEMMA InputStays ==
    ASSUME InputInv, SessionTypes',
           UNCHANGED <<mode, typing, stdin, up, sbuf, received, presented>>,
           sstate' = sstate \/ (sstate' = "gone" /\ cstate' # "connecting"),
           cstate' = cstate \/ cstate' = "closed" \/ {cstate, cstate'} \subseteq {"open", "loop"}
    PROVE  InputInv'
  BY DEF InputInv, NothingSent, HelloFirst, InputFaithful, HandshakeFaithful, Hello

\* The client sends so much of what it has been typed.
LEMMA InputSent ==
    ASSUME InputInv, SessionTypes', cstate \in {"open", "loop"}, cstate' = cstate,
           UNCHANGED <<mode, typing, sbuf, sstate, received, presented>>,
           NEW n \in 0..Len(stdin),
           up' = up \o Take(stdin, n), stdin' = Drop(stdin, n)
    PROVE  InputInv'
  <1>1. /\ up \in Seq(Byte) /\ stdin \in Seq(Byte) /\ sbuf \in Seq(Byte)
        /\ received \o sbuf \in Seq(Byte)
    BY ConcatProperties DEF InputInv, SessionTypes
  <1>0. Same(up', stdin', up, stdin)
    BY <1>1, MoveFacts
  <1>2. sbuf \o up' \o stdin' = sbuf \o up \o stdin
    <2>1. Same(sbuf \o up', stdin', sbuf \o up, stdin)
      BY <1>0, <1>1, SameBehind
    <2> QED
      BY <2>1 DEF Same
  <1>3. received \o sbuf \o up' \o stdin' = received \o sbuf \o up \o stdin
    <2> DEFINE a == received \o sbuf
    <2>1. a \in Seq(Byte)
      BY <1>1
    <2> HIDE DEF a
    <2>2. a \o up' \o stdin' = a \o up \o stdin
      <3>1. Same(a \o up', stdin', a \o up, stdin)
        BY <1>0, <2>1, SameBehind
      <3> QED
        BY <3>1 DEF Same
    <2> QED
      BY <2>2 DEF a
  <1>4. NothingSent' /\ HandshakeFaithful'
    BY DEF InputInv, NothingSent, HandshakeFaithful
  <1>5. HelloFirst'
    BY <1>2 DEF InputInv, HelloFirst, Hello
  <1>6. InputFaithful'
    BY <1>3 DEF InputInv, InputFaithful
  <1> QED
    BY <1>4, <1>5, <1>6 DEF InputInv

LEMMA TypeInput ==
    ASSUME InputInv, SessionTypes', Type
    PROVE  InputInv'
  <1>0. /\ typing \in Seq(Byte) /\ typing # <<>> /\ stdin \in Seq(Byte)
        /\ received \o sbuf \o up \in Seq(Byte) /\ sbuf \o up \in Seq(Byte)
    <2>1. /\ typing \in Seq(Byte) /\ typing # <<>> /\ stdin \in Seq(Byte)
          /\ received \in Seq(Byte) /\ sbuf \in Seq(Byte) /\ up \in Seq(Byte)
      BY DEF InputInv, SessionTypes, Type
    <2>2. sbuf \o up \in Seq(Byte) /\ received \o sbuf \in Seq(Byte)
      BY <2>1, ConcatProperties
    <2>3. received \o sbuf \o up \in Seq(Byte)
      BY <2>1, <2>2, ConcatProperties
    <2> QED
      BY <2>1, <2>2, <2>3
  <1>1. /\ 1 \in 0..Len(typing)
        /\ stdin' = stdin \o Take(typing, 1) /\ typing' = Drop(typing, 1)
    BY <1>0, MoveOne DEF Type
  <1>2. UNCHANGED <<mode, cstate, up, sbuf, sstate, received, presented>>
    BY DEF Type, serviceVars
  <1>11. Same(stdin', typing', stdin, typing)
    BY <1>0, <1>1, MoveFacts
  <1>3. stdin' \o typing' = stdin \o typing
    BY <1>11 DEF Same
  <1>4. ASSUME NEW a \in Seq(Byte)
        PROVE  a \o stdin' \o typing' = a \o stdin \o typing
    <2>1. Same(a \o stdin', typing', a \o stdin, typing)
      BY <1>4, <1>11, SameBehind
    <2> QED
      BY <2>1 DEF Same
  <1>5. sbuf \o up \o stdin' \o typing' = sbuf \o up \o stdin \o typing
    BY <1>0, <1>4
  <1>6. received \o sbuf \o up \o stdin' \o typing' = received \o sbuf \o up \o stdin \o typing
    BY <1>0, <1>4
  <1>7. NothingSent' /\ HandshakeFaithful'
    BY <1>2, <1>3 DEF InputInv, NothingSent, HandshakeFaithful
  <1>8. HelloFirst'
    BY <1>2, <1>5 DEF InputInv, HelloFirst, Hello
  <1>9. InputFaithful'
    BY <1>2, <1>6 DEF InputInv, InputFaithful
  <1> QED
    BY <1>7, <1>8, <1>9 DEF InputInv

LEMMA ConnectedInput ==
    ASSUME InputInv, SessionTypes', Connected
    PROVE  InputInv'
  <1>0. /\ cstate = "connecting" /\ cstate' = "open"
        /\ sstate = "loading" /\ up = <<>> /\ sbuf = <<>> /\ received = <<>>
        /\ stdin \o typing = Input
        /\ UNCHANGED <<mode, typing, sbuf, sstate, received, presented>>
    BY DEF InputInv, NothingSent, HelloFirst, Connected, serviceVars
  <1>1. Hello \in Seq(Byte) /\ stdin \in Seq(Byte) /\ typing \in Seq(Byte)
    BY HelloFacts DEF InputInv, SessionTypes
  <1>2. sbuf' \o up' \o stdin' \o typing' = Hello \o Input
    <2>1. (Hello \o stdin) \o typing = Hello \o (stdin \o typing)
      BY <1>1, ConcatAssociative
    <2>2. Hello \o stdin \in Seq(Byte)
      BY <1>1, ConcatProperties
    <2>3. CASE mode = "passive"
      <3>1. up' = Hello \o stdin /\ stdin' = <<>>
        BY <2>3 DEF Connected, Hello
      <3>2. <<>> \o (Hello \o stdin) = Hello \o stdin
        BY <2>2, ConcatEmptySeq
      <3>3. (Hello \o stdin) \o <<>> = Hello \o stdin
        BY <2>2, ConcatEmptySeq
      <3> QED
        BY <1>0, <2>1, <3>1, <3>2, <3>3
    <2>4. CASE mode # "passive"
      <3>1. up' = Hello /\ stdin' = stdin
        BY <2>4 DEF Connected, Hello
      <3>2. <<>> \o Hello = Hello
        BY <1>1, ConcatEmptySeq
      <3> QED
        BY <1>0, <2>1, <3>1, <3>2
    <2> QED
      BY <2>3, <2>4
  <1>3. Hello' = Hello
    BY <1>0 DEF Hello
  <1> QED
    BY <1>0, <1>2, <1>3
    DEF InputInv, NothingSent, HelloFirst, InputFaithful, HandshakeFaithful

\* Four parts of the stream, and the last three of them taken together.
Adds(a, b, c, d, all) == {a, b, c, d} \subseteq Seq(Byte) /\ a \o b \o c \o d = all
Groups(a, b, c, d, all) == {a, b, c, d} \subseteq Seq(Byte) /\ a \o (b \o c \o d) = all

LEMMA Regroup ==
    ASSUME NEW a, NEW b, NEW c, NEW d, NEW all
    PROVE  Adds(a, b, c, d, all) <=> Groups(a, b, c, d, all)
  <1> SUFFICES ASSUME {a, b, c, d} \subseteq Seq(Byte)
               PROVE  a \o b \o c \o d = a \o (b \o c \o d)
    BY DEF Adds, Groups
  <1>0. a \in Seq(Byte) /\ b \in Seq(Byte) /\ c \in Seq(Byte) /\ d \in Seq(Byte)
    OBVIOUS
  <1>1. a \o b \in Seq(Byte) /\ b \o c \in Seq(Byte)
    BY <1>0, ConcatProperties
  <1>2. a \o b \o c = a \o (b \o c)
    BY <1>0, ConcatAssociative
  <1>3. a \o (b \o c) \o d = a \o (b \o c \o d)
    BY <1>0, <1>1, ConcatAssociative
  <1> QED
    BY <1>2, <1>3

\* The handshake is complete: it is what the client sent, and what is behind it
\* is input.
LEMMA OpensInput ==
    ASSUME mode \in Modes, NEW s, NEW b, NEW c, NEW d,
           Adds(s, b, c, d, Hello \o Input), HandshakeSize(s) # 0
    PROVE  /\ Take(s, HandshakeSize(s)) = Hello
           /\ Adds(Drop(s, HandshakeSize(s)), b, c, d, Input)
  <1> DEFINE t == b \o c \o d
  <1>9. /\ s \in Seq(Byte) /\ b \in Seq(Byte) /\ c \in Seq(Byte) /\ d \in Seq(Byte)
        /\ t \in Seq(Byte)
        /\ s \o t = Hello \o Input
    <2>1. s \in Seq(Byte) /\ b \in Seq(Byte) /\ c \in Seq(Byte) /\ d \in Seq(Byte)
      BY DEF Adds
    <2>2. t \in Seq(Byte)
      <3>1. b \o c \in Seq(Byte)
        BY <2>1, ConcatProperties
      <3> QED
        BY <2>1, <3>1, ConcatProperties
    <2>3. Groups(s, b, c, d, Hello \o Input)
      BY Regroup
    <2> QED
      BY <2>1, <2>2, <2>3 DEF Groups
  <1> HIDE DEF t
  <1>0. /\ Hello \in Seq(Byte) /\ Len(Hello) = 8 + Len(Args)
        /\ Hello[5] = 0 /\ Hello[6] = 0 /\ Hello[7] = 0 /\ Hello[8] = Len(Args)
        /\ Input \in Seq(Byte) /\ Len(Args) \in Nat /\ Len(s) \in Nat
    BY <1>9, HelloFacts, TypesAssumption, LenProperties DEF Byte
  <1>1. Len(s) >= 8
    BY <1>0 DEF HandshakeSize
  <1>2. \A i \in 1..Len(s) : i <= Len(Hello) => s[i] = Hello[i]
    BY <1>0, <1>9, FrontFacts
  <1>3. s[5] = 0 /\ s[6] = 0 /\ s[7] = 0 /\ s[8] = Len(Args)
    BY <1>0, <1>1, <1>2
  <1>4. IntAt(s, 5) = Len(Args)
    BY <1>0, <1>1, <1>3, <1>9, IntAtFacts
  <1>5. HandshakeSize(s) = Len(Hello) /\ Len(s) >= Len(Hello)
    BY <1>0, <1>1, <1>4 DEF HandshakeSize, WhenComplete
  <1>6. Take(s, Len(Hello)) = Hello /\ Drop(s, Len(Hello)) \o t = Input
    <2>1. Hello \in Seq(Byte) /\ Input \in Seq(Byte) /\ Len(s) >= Len(Hello)
      BY <1>0, <1>5
    <2> QED
      BY <1>9, <2>1, FrontFacts
  <1> DEFINE r == Drop(s, Len(Hello))
  <1>7. r \in Seq(Byte)
    <2>1. Len(Hello) \in 0..Len(s)
      BY <1>0, <1>5
    <2> QED
      BY <1>9, <2>1, CutFacts
  <1> HIDE DEF r
  <1>8. Groups(r, b, c, d, Input)
    BY <1>6, <1>7, <1>9 DEF Groups, r, t
  <1>10. Adds(r, b, c, d, Input)
    BY <1>8, Regroup
  <1> QED
    BY <1>5, <1>6, <1>10 DEF r

LEMMA ServiceArriveInput ==
    ASSUME InputInv, SessionTypes', ServiceArrive
    PROVE  InputInv'
  <1>0. /\ up \in Seq(Byte) /\ stdin \in Seq(Byte) /\ sbuf \in Seq(Byte)
        /\ received \in Seq(Byte) /\ typing \in Seq(Byte) /\ mode \in Modes
        /\ up' \in Seq(Byte)
    BY DEF InputInv, SessionTypes
  <1>1. PICK n \in 1..Len(up) :
           /\ up' = Drop(up, n)
           /\ LET s == sbuf \o Take(up, n)
              IN  Opens(s) \/ Keeps(s) \/ Hands(s)
    BY ServiceArriveFacts DEF InputInv
  <1> DEFINE s == sbuf \o Take(up, n)
  <1>2. n \in 0..Len(up) /\ up # <<>>
    BY <1>0, LenProperties, EmptySeq
  <1>3. /\ s \in Seq(Byte)
        /\ s \o up' = sbuf \o up
        /\ received \o s \o up' = received \o sbuf \o up
    <2>1. s \in Seq(Byte)
      BY <1>0, <1>2, MoveFacts
    <2>2. up' = Drop(up, n) /\ s = sbuf \o Take(up, n)
      BY <1>1
    <2> HIDE DEF s
    <2>3. Same(s, up', sbuf, up)
      BY <1>0, <1>2, <2>2, MoveFacts
    <2>4. Same(received \o s, up', received \o sbuf, up)
      BY <1>0, <2>3, SameBehind
    <2> QED
      BY <2>1, <2>3, <2>4 DEF Same
  <1>4. Opens(s) \/ Keeps(s) \/ Hands(s)
    BY <1>1
  <1> HIDE DEF s
  <1>5. UNCHANGED <<mode, cstate, stdin, typing>> /\ Hello' = Hello
    BY ServiceArriveFacts DEF InputInv, clientVars, Hello
  <1>6. NothingSent'
    BY <1>2, <1>5 DEF InputInv, NothingSent
  <1>7. sstate = "loading" =>
            received = <<>> /\ s \o up' \o stdin \o typing = Hello \o Input
    BY <1>2, <1>3 DEF InputInv, HelloFirst
  <1>8. sstate = "open" => received \o s \o up' \o stdin \o typing = Input
    BY <1>3 DEF InputInv, InputFaithful
  <1>9. CASE Opens(s)
    <2>1. Adds(s, up', stdin, typing, Hello \o Input) /\ HandshakeSize(s) # 0
      BY <1>0, <1>3, <1>7, <1>9 DEF Opens, Adds
    <2>2. presented' = Hello /\ Adds(sbuf', up', stdin, typing, Input)
      BY <1>0, <1>9, <2>1, OpensInput DEF Opens
    <2>3. presented' = Hello /\ sbuf' \in Seq(Byte)
      BY <2>2 DEF Adds
    <2>4. sbuf' \o up' \o stdin \o typing = Input
      BY <2>2 DEF Adds
    <2>5. received' = <<>> /\ <<>> \o sbuf' = sbuf'
      BY <1>7, <1>9, <2>3, ConcatEmptySeq DEF Opens
    <2>6. InputFaithful'
      BY <1>5, <2>4, <2>5 DEF InputFaithful
    <2>7. HelloFirst' /\ HandshakeFaithful'
      BY <1>5, <1>9, <2>3 DEF Opens, HelloFirst, HandshakeFaithful, Hello
    <2> QED
      BY <1>6, <2>6, <2>7 DEF InputInv
  <1>10. CASE Keeps(s)
    BY <1>5, <1>6, <1>7, <1>8, <1>10
    DEF Keeps, InputInv, HelloFirst, InputFaithful, HandshakeFaithful
  <1>11. CASE Hands(s)
    <2>1. PICK r \in Reads(s) :
             received' = received \o Take(s, r) /\ sbuf' = Drop(s, r)
      BY <1>11 DEF Hands
    <2>2. received' \o sbuf' = received \o s
      <3>1. r \in 0..Len(s)
        BY <1>3, ReadsFacts
      <3> QED
        <4>1. Same(received', sbuf', received, s)
          BY <1>0, <1>3, <2>1, <3>1, MoveFacts
        <4> QED
          BY <4>1 DEF Same
    <2> QED
      BY <1>5, <1>6, <1>8, <1>11, <2>2
      DEF Hands, InputInv, HelloFirst, InputFaithful, HandshakeFaithful
  <1> QED
    BY <1>4, <1>9, <1>10, <1>11

LEMMA InputInvariant == Spec => []InputInv
  <1>1. Init => InputInv
    <2> SUFFICES ASSUME Init
                 PROVE  InputInv
      OBVIOUS
    <2>1. Input \in Seq(Byte)
      BY TypesAssumption DEF Byte
    <2>2. <<>> \o Input = Input
      BY <2>1, ConcatEmptySeq
    <2>3. SessionTypes
      BY TypesInit
    <2> QED
      BY <2>2, <2>3
      DEF Init, InputInv, NothingSent, HelloFirst, InputFaithful, HandshakeFaithful
  <1>2. InputInv /\ [Next]_vars => InputInv'
    <2> SUFFICES ASSUME InputInv, [Next]_vars
                 PROVE  InputInv'
      OBVIOUS
    <2>0. SessionTypes /\ SessionTypes'
      BY TypesInv DEF InputInv
    <2>1. CASE Type
      BY <2>0, <2>1, TypeInput
    <2>2. CASE Connected
      BY <2>0, <2>2, ConnectedInput
    <2>3. CASE ConnectFails \/ Quit
      BY <2>0, <2>3, InputStays DEF ConnectFails, Quit, serviceVars
    <2>4. CASE ConsoleReady
      <3>1. stdin \in Seq(Byte) /\ Len(stdin) \in 0..Len(stdin)
        BY <2>0, LenProperties DEF SessionTypes
      <3>2. Take(stdin, Len(stdin)) = stdin /\ Drop(stdin, Len(stdin)) = <<>>
        BY <3>1, WholeFacts
      <3> QED
        BY <2>0, <2>4, <3>1, <3>2, InputSent DEF ConsoleReady, serviceVars
    <2>5. CASE ClientArrive
      BY <2>0, <2>5, InputStays DEF ClientArrive, serviceVars
    <2>6. CASE SocketReady \/ LoopEnd
      BY <2>0, <2>6, InputStays DEF SocketReady, LoopEnd, serviceVars
    <2>7. CASE LoopData
      BY <2>0, <2>7, InputStays DEF LoopData, serviceVars
    <2>8. CASE LoopRequest
      <3>1. PICK n \in Takes(cbuf) : up' = up \o Take(stdin, n) /\ stdin' = Drop(stdin, n)
        BY <2>8 DEF LoopRequest, Serve, Take
      <3>2. n \in 0..Len(stdin)
        BY <2>0, <3>1, TakesFacts DEF SessionTypes
      <3> QED
        BY <2>0, <2>8, <3>1, <3>2, InputSent DEF LoopRequest, Serve, serviceVars
    <2>9. CASE SendFails
      BY <2>0, <2>9, InputStays DEF SendFails, serviceVars
    <2>10. CASE Disconnected
      BY <2>0, <2>10, InputStays DEF Disconnected, serviceVars
    <2>11. CASE ServiceArrive
      BY <2>0, <2>11, ServiceArriveInput
    <2>12. CASE Write
      BY <2>0, <2>12, InputStays DEF Write, clientVars
    <2>13. ASSUME NEW type \in Requests,
                  (Request(type) /\ UNCHANGED await) \/ Prepare(type)
           PROVE  InputInv'
      BY <2>0, <2>13, InputStays DEF Request, Prepare, clientVars
    <2>14. CASE DisconnectTerminal
      BY <2>0, <2>14, InputStays
      DEF DisconnectTerminal, clientVars, InputInv, NothingSent
    <2>15. CASE PeerGone
      BY <2>0, <2>15, InputStays DEF PeerGone, clientVars
    <2>16. CASE UNCHANGED vars
      BY <2>0, <2>16, InputStays DEF vars, clientVars, serviceVars
    <2> QED
      BY <2>1, <2>2, <2>3, <2>4, <2>5, <2>6, <2>7, <2>8, <2>9, <2>10, <2>11, <2>12, <2>13,
         <2>14, <2>15, <2>16 DEF Next, Client
  <1> QED
    BY <1>1, <1>2, PTL DEF Spec

\* However the bytes are cut into chunks and whatever the service asks for, what
\* the terminal has read, holds, and has still to get adds up to what the user
\* types: consoleReady, the requests, the handshake's transaction and the
\* awaitables lose nothing, duplicate nothing and keep the order.
THEOREM InputArrives == Spec => []InputFaithful
  BY InputInvariant, PTL DEF InputInv

\* The service is given the mode and the arguments of the client, however many
\* pieces the handshake comes in.
THEOREM HandshakeArrives == Spec => []HandshakeFaithful
  BY InputInvariant, PTL DEF InputInv

-----------------------------------------------------------------------------
(* What the service writes: streams of frames                               *)

LEMMA SameSplit ==
    ASSUME NEW a \in Seq(Byte), NEW b \in Seq(Byte), NEW c \in Seq(Byte)
    PROVE  Same(a \o b, c, a, b \o c)
  BY ConcatAssociative, ConcatProperties DEF Same

\* The bytes behind the first `p`: taken from the front, and put behind them.
LEMMA DropFront ==
    ASSUME NEW s \in Seq(Byte), NEW p \in 0..Len(s), NEW c \in Seq(Byte), NEW d \in Seq(Byte),
           c \o d = Drop(s, p), NEW n \in 0..Len(c)
    PROVE  Drop(c, n) \o d = Drop(s, p + n)
  <1> DEFINE a == Take(s, p)
             b == Take(c, n)
             e == Drop(c, n)
  <1>1. a \in Seq(Byte) /\ Len(a) = p /\ a \o (c \o d) = s
    BY CutFacts
  <1>2. b \in Seq(Byte) /\ Len(b) = n /\ e \in Seq(Byte) /\ b \o e = c
    BY CutFacts
  <1> HIDE DEF a, b, e
  <1>0. a \in Seq(Byte) /\ b \in Seq(Byte) /\ e \in Seq(Byte)
    BY <1>1, <1>2
  <1>3. e \o d \in Seq(Byte) /\ a \o b \in Seq(Byte) /\ Len(a \o b) = p + n
    BY <1>1, <1>2, ConcatProperties
  <1>4. b \o (e \o d) = c \o d
    <2>1. b \o e \o d = b \o (e \o d)
      BY <1>0, ConcatAssociative
    <2> QED
      BY <1>2, <2>1
  <1>5. a \o b \o (e \o d) = s
    <2> DEFINE u == e \o d
    <2>2. u \in Seq(Byte)
      BY <1>3
    <2> HIDE DEF u
    <2>3. Same(a \o b, u, a, b \o u)
      BY <1>0, <2>2, SameSplit
    <2>1. a \o b \o (e \o d) = a \o (b \o (e \o d))
      BY <2>3 DEF Same, u
    <2> QED
      BY <1>1, <1>4, <2>1
  <1>6. s \o <<>> = s
    BY ConcatEmptySeq
  <1> DEFINE h == a \o b
             u == e \o d
  <1>7. /\ h \in Seq(Byte) /\ u \in Seq(Byte) /\ Len(h) = p + n
        /\ s \o <<>> = h \o u /\ <<>> \in Seq(Byte)
    BY <1>3, <1>5, <1>6, EmptySeq
  <1>8. Len(s) >= Len(h)
    <2>1. Len(s) = p + Len(c \o d) /\ Len(c \o d) = Len(c) + Len(d)
      <3>1. c \o d \in Seq(Byte)
        BY ConcatProperties
      <3> QED
        BY <1>1, <3>1, ConcatProperties
    <2> QED
      BY <1>7, <2>1, LenProperties
  <1> HIDE DEF h, u
  <1>9. Drop(s, Len(h)) \o <<>> = u
    BY <1>7, <1>8, FrontFacts
  <1>10. Drop(s, Len(h)) \in Seq(Byte)
    <2>1. Len(h) \in 0..Len(s)
      BY <1>7, <1>8, LenProperties
    <2> QED
      BY <2>1, CutFacts
  <1>11. Drop(s, Len(h)) \o <<>> = Drop(s, Len(h))
    BY <1>10, ConcatEmptySeq
  <1> QED
    BY <1>7, <1>9, <1>11 DEF u, e

LEMMA DropBehind ==
    ASSUME NEW s \in Seq(Byte), NEW p \in 0..Len(s), NEW f \in Seq(Byte)
    PROVE  Drop(s, p) \o f = Drop(s \o f, p)
  <1> DEFINE a == Take(s, p)
             e == Drop(s, p)
             t == s \o f
             u == e \o f
  <1>1. a \in Seq(Byte) /\ Len(a) = p /\ e \in Seq(Byte) /\ a \o e = s
    BY CutFacts
  <1> HIDE DEF a, e
  <1>2. t = a \o u
    <2>3. a \in Seq(Byte) /\ e \in Seq(Byte)
      BY <1>1
    <2>1. a \o e \o f = a \o (e \o f)
      BY <2>3, ConcatAssociative
    <2> QED
      BY <1>1, <2>1
  <1>3. t \in Seq(Byte) /\ u \in Seq(Byte) /\ Len(t) = Len(s) + Len(f)
    BY <1>1, ConcatProperties
  <1> HIDE DEF t, u
  <1>4. t \o <<>> = a \o u /\ <<>> \in Seq(Byte) /\ Len(t) >= Len(a)
    BY <1>1, <1>2, <1>3, ConcatEmptySeq, EmptySeq, LenProperties
  <1>5. Drop(t, p) \o <<>> = u
    BY <1>1, <1>3, <1>4, FrontFacts
  <1>6. Drop(t, p) \in Seq(Byte)
    <2>1. p \in 0..Len(t)
      BY <1>3, LenProperties
    <2> QED
      BY <1>3, <2>1, CutFacts
  <1>7. Drop(t, p) \o <<>> = Drop(t, p)
    BY <1>6, ConcatEmptySeq
  <1> QED
    BY <1>5, <1>7 DEF t, u, e

LEMMA PrefixFacts ==
    ASSUME NEW s \in Seq(Byte), NEW t \in Seq(Byte), NEW w \in Seq(Byte), s \o t = w
    PROVE  IsPrefix(s, w)
  <1>1. w \o <<>> = s \o t /\ <<>> \in Seq(Byte)
    BY ConcatEmptySeq, EmptySeq
  <1>2. Len(w) >= Len(s)
    BY ConcatProperties, LenProperties
  <1>3. Take(w, Len(s)) = s
    BY <1>1, <1>2, FrontFacts
  <1>4. Take(s, Len(s)) = s
    BY WholeFacts
  <1> QED
    BY <1>2, <1>3, <1>4, LenProperties DEF IsPrefix, Take

\* What comes behind the first `n` bytes of the text, up to the `m`-th.
Piece(n, m) == SubSeq(Text, n + 1, m)

LEMMA TextFacts == Text \in Seq(Byte) /\ Len(Text) \in Nat /\ Len(Text) < 256
  BY TypesAssumption, SizesAssumption, LenProperties DEF Byte

LEMMA PieceFacts ==
    ASSUME NEW n \in Nat, NEW m \in 0..Len(Text), n <= m
    PROVE  /\ Piece(n, m) \in Seq(Byte) /\ Len(Piece(n, m)) = m - n
           /\ \A i \in 1..(m - n) : Piece(n, m)[i] = Text[n + i]
           /\ Take(Text, n) \o Piece(n, m) = Take(Text, m)
  <1>0. /\ Text \in Seq(Byte) /\ Len(Text) \in Nat /\ \A i \in 1..Len(Text) : Text[i] \in Byte
        /\ n \in 0..Len(Text)
    BY TextFacts, ElementOfSeq
  <1>1. /\ Piece(n, m) \in Seq(Byte) /\ Len(Piece(n, m)) = m - n
        /\ \A i \in 1..(m - n) : Piece(n, m)[i] = Text[n + i]
    <2>1. (\A i \in (n + 1)..m : Text[i] \in Byte) /\ n + 1 \in Int /\ m \in Int
      BY <1>0
    <2>2. /\ SubSeq(Text, n + 1, m) \in Seq(Byte)
          /\ Len(SubSeq(Text, n + 1, m)) = IF n + 1 <= m THEN m - (n + 1) + 1 ELSE 0
          /\ \A i \in 1..(m - (n + 1) + 1) :
                SubSeq(Text, n + 1, m)[i] = Text[(n + 1) + i - 1]
      BY <2>1, SubSeqProperties
    <2>3. \A i \in 1..(m - n) : (n + 1) + i - 1 = n + i
      OBVIOUS
    <2> QED
      BY <1>0, <2>2, <2>3 DEF Piece
  <1> DEFINE a == Take(Text, n)
             p == Piece(n, m)
             b == Take(Text, m)
  <1>2. /\ a \in Seq(Byte) /\ Len(a) = n /\ \A i \in 1..n : a[i] = Text[i]
        /\ b \in Seq(Byte) /\ Len(b) = m /\ \A i \in 1..m : b[i] = Text[i]
    BY <1>0, CutFacts
  <1>3. p \in Seq(Byte) /\ Len(p) = m - n /\ \A i \in 1..(m - n) : p[i] = Text[n + i]
    BY <1>1
  <1> HIDE DEF a, p, b
  <1>4. /\ a \o p \in Seq(Byte) /\ Len(a \o p) = n + (m - n)
        /\ \A i \in 1..(n + (m - n)) : (a \o p)[i] = IF i <= n THEN a[i] ELSE p[i - n]
    BY <1>2, <1>3, ConcatProperties
  <1>5. \A i \in 1..m : (a \o p)[i] = b[i]
    <2> SUFFICES ASSUME NEW i \in 1..m
                 PROVE  (a \o p)[i] = b[i]
      OBVIOUS
    <2>0. i \in 1..(n + (m - n))
      OBVIOUS
    <2>1. CASE i <= n
      <3>1. i \in 1..n
        BY <2>1
      <3> QED
        BY <1>2, <1>4, <2>0, <2>1, <3>1
    <2>2. CASE ~(i <= n)
      <3>1. i - n \in 1..(m - n) /\ n + (i - n) = i
        BY <2>2
      <3> QED
        BY <1>2, <1>3, <1>4, <2>0, <2>2, <3>1
    <2> QED
      BY <2>1, <2>2
  <1>6. a \o p = b
    BY <1>2, <1>4, <1>5, SeqEqual
  <1> QED
    BY <1>1, <1>6 DEF a, p, b

\* The frame `f` stands for `asks` requests, of a type without a number, and for
\* the text between the bytes `n` and `m`.
Carries(f, n, m, asks) ==
    \/ /\ asks = 1 /\ n = m
       /\ \E type \in RequestTypes \ {MultiCharRequest} : f = RequestFrame(type, Num)
    \/ asks = 0 /\ n < m /\ f = DataFrame(Piece(n, m))

LEMMA CarriesFacts ==
    ASSUME NEW f, NEW n \in Nat, NEW m \in 0..Len(Text), NEW asks, Carries(f, n, m, asks)
    PROVE  /\ f \in Seq(Byte) /\ Len(f) = 5 + (m - n) /\ n <= m
           /\ f[2] = 0 /\ f[3] = 0 /\ f[4] = 0
           /\ \/ asks = 1 /\ m = n /\ f[1] = 1 /\ f[5] \in {CharRequest, LineRequest}
              \/ /\ asks = 0 /\ f[1] = 0 /\ f[5] = m - n
                 /\ \A i \in 1..(m - n) : f[5 + i] = Piece(n, m)[i]
  <1>1. CASE asks = 1 /\ n = m
    <2>1. PICK type \in RequestTypes \ {MultiCharRequest} : f = RequestFrame(type, Num)
      BY <1>1 DEF Carries
    <2>2. type \in {CharRequest, LineRequest} /\ type # MultiCharRequest
      BY <2>1 DEF RequestTypes
    <2> QED
      BY <1>1, <2>1, <2>2, RequestFrameFacts
  <1>2. CASE asks = 0 /\ n < m /\ f = DataFrame(Piece(n, m))
    <2> DEFINE bytes == Piece(n, m)
    <2>1. bytes \in Seq(Byte) /\ Len(bytes) = m - n /\ Len(bytes) < 256
      BY <1>2, PieceFacts, TextFacts
    <2> HIDE DEF bytes
    <2>2. f = DataFrame(bytes)
      BY <1>2 DEF bytes
    <2>3. /\ f \in Seq(Byte) /\ Len(f) = 5 + (m - n)
          /\ f[1] = 0 /\ f[2] = 0 /\ f[3] = 0 /\ f[4] = 0 /\ f[5] = m - n
          /\ \A i \in 1..(m - n) : f[5 + i] = bytes[i]
      <3>1. /\ f \in Seq(Byte) /\ Len(f) = 5 + Len(bytes)
            /\ \A i \in 1..4 : f[i] = 0
            /\ f[5] = Len(bytes)
            /\ \A i \in 1..Len(bytes) : f[5 + i] = bytes[i]
        BY <2>1, <2>2, DataFrameFacts
      <3> QED
        BY <2>1, <3>1
    <2> QED
      BY <1>2, <2>3 DEF bytes
  <1> QED
    BY <1>1, <1>2 DEF Carries

\* The client's buffer starts with such a frame, or with the part of it that has
\* arrived: it is read when it is complete, and for what it is.
LEMMA FrameIsRead ==
    ASSUME NEW f, NEW n \in Nat, NEW m \in 0..Len(Text), NEW asks, Carries(f, n, m, asks),
           NEW c \in Seq(Byte), \A i \in 1..Len(c) : i <= Len(f) => c[i] = f[i]
    PROVE  /\ FrameSize(c) = IF Len(c) < Len(f) THEN 0 ELSE Len(f)
           /\ FrameSize(c) > 0 => (IsRequest(c) <=> asks = 1)
           /\ FrameSize(c) > 0 /\ asks = 0 => SubSeq(c, 6, Len(f)) = Piece(n, m)
  <1>1. /\ f \in Seq(Byte) /\ Len(f) = 5 + (m - n) /\ n <= m
        /\ f[2] = 0 /\ f[3] = 0 /\ f[4] = 0
        /\ \/ asks = 1 /\ m = n /\ f[1] = 1 /\ f[5] \in {CharRequest, LineRequest}
           \/ /\ asks = 0 /\ f[1] = 0 /\ f[5] = m - n
              /\ \A i \in 1..(m - n) : f[5 + i] = Piece(n, m)[i]
    BY CarriesFacts
  <1>2. Len(c) \in Nat /\ Len(f) \in Nat /\ Len(f) >= 5 /\ m \in Nat
    BY <1>1, LenProperties, TextFacts
  <1>3. CASE Len(c) < 5
    BY <1>2, <1>3 DEF FrameSize
  <1>4. CASE ~(Len(c) < 5)
    <2>1. c[1] = f[1] /\ c[2] = 0 /\ c[3] = 0 /\ c[4] = 0 /\ c[5] = f[5]
      <3>1. \A i \in 1..5 : c[i] = f[i]
        BY <1>2, <1>4
      <3>2. f[2] = 0 /\ f[3] = 0 /\ f[4] = 0
        BY <1>1
      <3> QED
        BY <3>1, <3>2
    <2>2. IntAt(c, 2) = f[5]
      <3>1. 2 \in 1..Len(c) /\ 2 + 3 <= Len(c) /\ 2 + 1 = 3 /\ 2 + 2 = 4 /\ 2 + 3 = 5
        BY <1>2, <1>4
      <3> QED
        BY <2>1, <3>1, IntAtFacts
    <2>3. CASE asks = 1
      BY <1>1, <1>2, <1>4, <2>1, <2>2, <2>3
      DEF FrameSize, IsRequest, RequestType, CharRequest, MultiCharRequest, LineRequest
    <2>4. CASE asks = 0
      <3>1. FrameSize(c) = IF Len(c) < Len(f) THEN 0 ELSE Len(f)
        BY <1>1, <1>2, <1>4, <2>1, <2>2, <2>4 DEF FrameSize, IsRequest, WhenComplete
      <3>2. ~IsRequest(c)
        BY <1>1, <2>1, <2>4 DEF IsRequest
      <3>3. ASSUME Len(c) >= Len(f)
            PROVE  SubSeq(c, 6, Len(f)) = Piece(n, m)
        <4>1. /\ SubSeq(c, 6, Len(f)) \in Seq(Byte) /\ Len(SubSeq(c, 6, Len(f))) = m - n
              /\ \A i \in 1..(m - n) : SubSeq(c, 6, Len(f))[i] = c[5 + i]
          <5>1. (\A i \in 6..Len(f) : c[i] \in Byte) /\ 6 \in Int /\ Len(f) \in Int
            BY <1>2, <3>3, ElementOfSeq
          <5>2. /\ SubSeq(c, 6, Len(f)) \in Seq(Byte)
                /\ Len(SubSeq(c, 6, Len(f))) = IF 6 <= Len(f) THEN Len(f) - 6 + 1 ELSE 0
                /\ \A i \in 1..(Len(f) - 6 + 1) : SubSeq(c, 6, Len(f))[i] = c[6 + i - 1]
            BY <5>1, SubSeqProperties
          <5>3. Len(f) - 6 + 1 = m - n /\ \A i \in 1..(m - n) : 6 + i - 1 = 5 + i
            BY <1>1, <1>2
          <5>4. m - n > 0 => 6 <= Len(f)
            BY <1>1, <1>2
          <5> QED
            BY <1>1, <1>2, <5>2, <5>3, <5>4
        <4>2. \A i \in 1..(m - n) : c[5 + i] = Piece(n, m)[i]
          <5> SUFFICES ASSUME NEW i \in 1..(m - n)
                       PROVE  c[5 + i] = Piece(n, m)[i]
            OBVIOUS
          <5>1. 5 + i \in 1..Len(c) /\ 5 + i <= Len(f)
            BY <1>1, <1>2, <3>3
          <5> QED
            BY <1>1, <2>4, <5>1
        <4>3. Piece(n, m) \in Seq(Byte) /\ Len(Piece(n, m)) = m - n
          BY <1>1, PieceFacts
        <4> DEFINE x == SubSeq(c, 6, Len(f))
                   y == Piece(n, m)
        <4>4. /\ x \in Seq(Byte) /\ y \in Seq(Byte) /\ Len(x) = m - n /\ Len(y) = m - n
              /\ \A i \in 1..(m - n) : x[i] = y[i]
          BY <4>1, <4>2, <4>3
        <4> HIDE DEF x, y
        <4>5. x = y
          BY <4>4, SeqEqual
        <4> QED
          BY <4>5 DEF x, y
      <3> QED
        BY <1>2, <2>4, <3>1, <3>2, <3>3
    <2> QED
      BY <1>1, <2>3, <2>4
  <1> QED
    BY <1>3, <1>4

\* Where a frame ends: so many bytes, and so much text and so many requests.
Mark == [at : Nat, text : 0..Len(Text), asks : Nat]

Upto(a, b) == a.at <= b.at /\ a.text <= b.text /\ a.asks <= b.asks

\* From `a` to `b` the bytes `sent` are one frame.
Brings(sent, a, b) ==
    /\ b.at <= Len(sent)
    /\ \E f \in Seq(Byte) :
          /\ Carries(f, a.text, b.text, b.asks - a.asks)
          /\ b.at = a.at + Len(f)
          /\ \A i \in 1..Len(f) : sent[a.at + i] = f[i]

\* All that was sent is `k` frames.
Stream(sent, k, mark) ==
    /\ sent \in Seq(Byte) /\ k \in Nat /\ mark \in [Nat -> Mark]
    /\ mark[k].at = Len(sent)
    /\ \A i \in 0..k : Upto(mark[i], mark[k])
    /\ \A i \in 0..(k - 1) : Brings(sent, mark[i], mark[i + 1])

LEMMA MarkFacts ==
    ASSUME NEW a \in Mark
    PROVE  /\ a.at \in Nat /\ a.text \in Nat /\ a.text <= Len(Text) /\ a.asks \in Nat
           /\ a.text \in 0..Len(Text)
           /\ Upto(a, a)
  BY TextFacts DEF Mark, Upto

LEMMA UptoTransitive ==
    ASSUME NEW a \in Mark, NEW b \in Mark, NEW c \in Mark, Upto(a, b), Upto(b, c)
    PROVE  Upto(a, c)
  BY MarkFacts DEF Upto

LEMMA ElementsOfConcat ==
    ASSUME NEW s \in Seq(Byte), NEW f \in Seq(Byte)
    PROVE  /\ s \o f \in Seq(Byte) /\ Len(s \o f) = Len(s) + Len(f)
           /\ \A i \in 1..Len(s) : (s \o f)[i] = s[i]
           /\ \A i \in 1..Len(f) : (s \o f)[Len(s) + i] = f[i]
  <1>0. Len(s) \in Nat /\ Len(f) \in Nat
    BY LenProperties
  <1>1. /\ s \o f \in Seq(Byte) /\ Len(s \o f) = Len(s) + Len(f)
        /\ \A i \in 1..(Len(s) + Len(f)) : (s \o f)[i] =
              IF i <= Len(s) THEN s[i] ELSE f[i - Len(s)]
    BY ConcatProperties
  <1>2. \A i \in 1..Len(s) : i \in 1..(Len(s) + Len(f)) /\ i <= Len(s)
    BY <1>0
  <1>3. \A i \in 1..Len(f) : /\ Len(s) + i \in 1..(Len(s) + Len(f))
                             /\ ~(Len(s) + i <= Len(s)) /\ (Len(s) + i) - Len(s) = i
    BY <1>0
  <1> QED
    BY <1>1, <1>2, <1>3

\* What was sent is not disturbed by what is sent next.
LEMMA BringsStays ==
    ASSUME NEW s \in Seq(Byte), NEW f \in Seq(Byte), NEW a \in Mark, NEW b \in Mark,
           Brings(s, a, b)
    PROVE  Brings(s \o f, a, b)
  <1>1. PICK g \in Seq(Byte) :
           /\ Carries(g, a.text, b.text, b.asks - a.asks)
           /\ b.at = a.at + Len(g)
           /\ \A i \in 1..Len(g) : s[a.at + i] = g[i]
    BY DEF Brings
  <1> DEFINE t == s \o f
  <1>2. Len(t) = Len(s) + Len(f) /\ \A i \in 1..Len(s) : t[i] = s[i]
    BY ElementsOfConcat
  <1>3. Len(s) \in Nat /\ Len(f) \in Nat /\ Len(g) \in Nat /\ a.at \in Nat /\ b.at \in Nat
    BY LenProperties DEF Mark
  <1>4. b.at <= Len(s)
    BY DEF Brings
  <1> HIDE DEF t
  <1>5. \A i \in 1..Len(g) : a.at + i \in 1..Len(s)
    BY <1>1, <1>3, <1>4
  <1>6. \A i \in 1..Len(g) : t[a.at + i] = g[i]
    BY <1>1, <1>2, <1>5
  <1>7. b.at <= Len(t)
    BY <1>2, <1>3, <1>4
  <1>8. Brings(t, a, b)
    BY <1>1, <1>6, <1>7 DEF Brings
  <1> QED
    BY <1>8 DEF t

LEMMA StreamGrows ==
    ASSUME NEW sent, NEW k, NEW mark, Stream(sent, k, mark),
           NEW f \in Seq(Byte), NEW n \in Mark,
           Carries(f, mark[k].text, n.text, n.asks - mark[k].asks),
           n.at = Len(sent) + Len(f), n.text >= mark[k].text, n.asks >= mark[k].asks
    PROVE  Stream(sent \o f, k + 1, [mark EXCEPT ![k + 1] = n])
  <1> DEFINE t == sent \o f
             more == [mark EXCEPT ![k + 1] = n]
  <1>1. /\ sent \in Seq(Byte) /\ k \in Nat /\ mark \in [Nat -> Mark]
        /\ mark[k].at = Len(sent) /\ mark[k] \in Mark
        /\ \A i \in 0..k : Upto(mark[i], mark[k])
        /\ \A i \in 0..(k - 1) : Brings(sent, mark[i], mark[i + 1])
    BY DEF Stream
  <1>0. Upto(mark[k], n)
    BY <1>1, LenProperties DEF Upto
  <1>2. /\ t \in Seq(Byte) /\ Len(t) = Len(sent) + Len(f)
        /\ \A i \in 1..Len(f) : t[Len(sent) + i] = f[i]
    BY <1>1, ElementsOfConcat
  <1>3. /\ more \in [Nat -> Mark] /\ more[k + 1] = n
        /\ \A i \in 0..k : more[i] = mark[i]
    BY <1>1
  <1>4. \A i \in 0..(k - 1) : Brings(t, mark[i], mark[i + 1])
    <2> SUFFICES ASSUME NEW i \in 0..(k - 1)
                 PROVE  Brings(t, mark[i], mark[i + 1])
      OBVIOUS
    <2>1. mark[i] \in Mark /\ mark[i + 1] \in Mark /\ Brings(sent, mark[i], mark[i + 1])
      BY <1>1
    <2> QED
      BY <1>1, <2>1, BringsStays
  <1> HIDE DEF t, more
  <1>5. Brings(t, mark[k], n)
    <2>1. n.at = mark[k].at + Len(f) /\ n.at <= Len(t)
      BY <1>1, <1>2, LenProperties
    <2>2. \A i \in 1..Len(f) : t[mark[k].at + i] = f[i]
      BY <1>1, <1>2
    <2> QED
      BY <2>1, <2>2 DEF Brings
  <1>6. \A i \in 0..k : Brings(t, more[i], more[i + 1])
    <2> SUFFICES ASSUME NEW i \in 0..k
                 PROVE  Brings(t, more[i], more[i + 1])
      OBVIOUS
    <2>1. CASE i = k
      BY <1>1, <1>3, <1>5, <2>1
    <2>2. CASE i # k
      <3>1. i \in 0..(k - 1) /\ i + 1 \in 0..k
        BY <1>1, <2>2
      <3>2. more[i] = mark[i] /\ more[i + 1] = mark[i + 1]
        BY <1>1, <1>3, <3>1
      <3> QED
        BY <1>4, <3>1, <3>2
    <2> QED
      BY <2>1, <2>2
  <1>7. \A i \in 0..(k + 1) : Upto(more[i], n)
    <2> SUFFICES ASSUME NEW i \in 0..(k + 1)
                 PROVE  Upto(more[i], n)
      OBVIOUS
    <2>1. CASE i = k + 1
      BY <1>3, <2>1, MarkFacts
    <2>2. CASE i # k + 1
      <3>1. i \in 0..k /\ mark[i] \in Mark
        BY <1>1, <2>2
      <3>2. Upto(mark[i], mark[k]) /\ more[i] = mark[i]
        BY <1>1, <1>3, <3>1
      <3> QED
        BY <1>0, <1>1, <3>1, <3>2, UptoTransitive
    <2> QED
      BY <2>1, <2>2
  <1>8. k + 1 \in Nat /\ (k + 1) - 1 = k /\ more[k + 1].at = Len(t)
    BY <1>1, <1>2, <1>3
  <1>9. Stream(t, k + 1, more)
    BY <1>2, <1>3, <1>6, <1>7, <1>8 DEF Stream
  <1> QED
    BY <1>9 DEF t, more

\* `c` and `d` are what is behind the first `p` bytes.
Left(c, d, sent, p) == {c, d} \subseteq Seq(Byte) /\ c \o d = Drop(sent, p)

LEMMA NothingBehind ==
    ASSUME NEW sent, NEW k, NEW mark, Stream(sent, k, mark),
           NEW c, NEW d, Left(c, d, sent, mark[k].at)
    PROVE  c = <<>>
  <1>1. /\ sent \in Seq(Byte) /\ c \in Seq(Byte) /\ d \in Seq(Byte)
        /\ c \o d = Drop(sent, Len(sent))
    BY DEF Stream, Left
  <1>2. c \o d = <<>>
    BY <1>1, WholeFacts
  <1>3. Len(c) + Len(d) = 0
    BY <1>1, <1>2, ConcatProperties, EmptySeq
  <1> QED
    BY <1>1, <1>3, LenProperties, EmptySeq

\* `c`, and then `d`, start with the frame that leads from `a` to `b`.
Starts(c, d, a, b) ==
    \E f \in Seq(Byte) :
       /\ Carries(f, a.text, b.text, b.asks - a.asks)
       /\ b.at = a.at + Len(f)
       /\ d = <<>> => Len(f) <= Len(c)
       /\ \A i \in 1..Len(c) : i <= Len(f) => c[i] = f[i]

\* What the client finds behind `h` frames, when more were sent.
LEMMA NextFrame ==
    ASSUME NEW sent, NEW k, NEW mark, Stream(sent, k, mark), NEW h \in 0..k, h # k,
           NEW c, NEW d, Left(c, d, sent, mark[h].at)
    PROVE  Starts(c, d, mark[h], mark[h + 1])
  <1>0. c \in Seq(Byte) /\ d \in Seq(Byte)
    BY DEF Left
  <1>1. /\ sent \in Seq(Byte) /\ k \in Nat /\ mark \in [Nat -> Mark]
        /\ mark[k].at = Len(sent) /\ mark[h] \in Mark /\ Upto(mark[h], mark[k])
        /\ h # k => h \in 0..(k - 1)
    BY DEF Stream
  <1>2. mark[h].at \in 0..Len(sent) /\ Len(sent) \in Nat
    BY <1>1, LenProperties DEF Upto, Mark
  <1> DEFINE rest == c \o d
             p == mark[h].at
  <1>3. /\ rest \in Seq(Byte) /\ Len(rest) = Len(c) + Len(d)
        /\ \A i \in 1..Len(c) : rest[i] = c[i]
    BY <1>0, ElementsOfConcat
  <1>4. Len(c) \in Nat /\ Len(d) \in Nat
    BY <1>0, LenProperties
  <1>8. rest = Drop(sent, p)
    BY DEF Left
  <1> HIDE DEF rest, p
  <1>9. p \in 0..Len(sent)
    BY <1>2 DEF p
  <1>5. /\ Len(rest) = Len(sent) - p
        /\ \A i \in 1..(Len(sent) - p) : rest[i] = sent[p + i]
    BY <1>1, <1>8, <1>9, CutFacts
  <1>6. Brings(sent, mark[h], mark[h + 1])
    BY <1>1 DEF Stream
  <1>7. PICK f \in Seq(Byte) :
           /\ Carries(f, mark[h].text, mark[h + 1].text,
                      mark[h + 1].asks - mark[h].asks)
           /\ mark[h + 1].at = mark[h].at + Len(f)
           /\ \A i \in 1..Len(f) : sent[p + i] = f[i]
    BY <1>6 DEF Brings, p
  <1>10. mark[h + 1].at <= Len(sent) /\ Len(f) \in Nat
    BY <1>6, LenProperties DEF Brings
  <1>11. Len(f) <= Len(c) + Len(d)
    BY <1>2, <1>3, <1>4, <1>5, <1>7, <1>9, <1>10 DEF p
  <1>12. \A i \in 1..Len(c) : i <= Len(f) => c[i] = f[i]
    <2> SUFFICES ASSUME NEW i \in 1..Len(c), i <= Len(f)
                 PROVE  c[i] = f[i]
      OBVIOUS
    <2>1. i \in 1..Len(f) /\ i \in 1..(Len(sent) - p)
      BY <1>2, <1>3, <1>4, <1>5, <1>9, <1>10
    <2> QED
      BY <1>3, <1>5, <1>7, <2>1
  <1>13. d = <<>> => Len(f) <= Len(c)
    BY <1>4, <1>10, <1>11, EmptySeq
  <1> QED
    BY <1>7, <1>12, <1>13 DEF Starts

-----------------------------------------------------------------------------
(* What the service writes: the session                                     *)

\* The service writes its text from the start.
Writes == Len(written) <= Len(Text) /\ written = Take(Text, Len(written))

\* In the passive mode the text itself is on the way.
Unframed == stdout \o cbuf \o down = written

\* In the active mode it is in frames.  `h` of the `k` frames that were sent have
\* been read.
Reading(sent, k, mark, h) ==
    /\ Left(cbuf, down, sent, mark[h].at)
    /\ stdout = Take(Text, mark[h].text) /\ answered <= mark[h].asks
    /\ Len(written) = mark[k].text /\ asked = mark[k].asks

Framed == \E sent \in Seq(Byte), k \in Nat, mark \in [Nat -> Mark], h \in Nat :
             Stream(sent, k, mark) /\ h \in 0..k /\ Reading(sent, k, mark, h)

Streams == IF mode = "passive" THEN Unframed ELSE Framed

\* A client that waits has read whatever is complete.
NothingLeft == IF mode = "passive" THEN cbuf = <<>> ELSE FrameSize(cbuf) = 0

Buffered == /\ cstate = "connecting" => cbuf = <<>>
            /\ cstate = "open" /\ ~posted => NothingLeft
            /\ cstate = "loop" => mode # "passive"

Ended == cause = "disconnected" => cstate = "closed" /\ sstate = "gone" /\ stdout = written

NothingTaken == /\ mode = "passive" => answered = 0
                /\ mode # "passive" /\ answered = 0 => stdin \o typing = Input

OutputInv == SessionTypes /\ Writes /\ Streams /\ Buffered /\ Ended /\ NothingTaken

LEMMA EmptyBuffer == FrameSize(<<>>) = 0
  BY EmptySeq DEF FrameSize

\* Bytes that arrive at the client stay where they are in the stream.
LEMMA StreamsMove ==
    ASSUME OutputInv, Same(cbuf', down', cbuf, down),
           UNCHANGED <<mode, stdout, written, asked, answered>>
    PROVE  Writes' /\ Streams'
  <1>0. stdout \in Seq(Byte)
    BY DEF OutputInv, SessionTypes
  <1>1. Writes'
    BY DEF OutputInv, Writes
  <1>2. CASE mode = "passive"
    <2>1. Same(stdout \o cbuf', down', stdout \o cbuf, down)
      BY <1>0, SameBehind
    <2>2. stdout \o cbuf' \o down' = stdout \o cbuf \o down
      BY <2>1 DEF Same
    <2> QED
      BY <1>1, <1>2, <2>2 DEF OutputInv, Streams, Unframed
  <1>3. CASE mode # "passive"
    <2>1. PICK sent \in Seq(Byte), k \in Nat, mark \in [Nat -> Mark], h \in Nat :
             Stream(sent, k, mark) /\ h \in 0..k /\ Reading(sent, k, mark, h)
      BY <1>3 DEF OutputInv, Streams, Framed
    <2>2. cbuf' \o down' = cbuf \o down /\ {cbuf', down'} \subseteq Seq(Byte)
      BY DEF Same
    <2>4. Left(cbuf, down, sent, mark[h].at)
      BY <2>1 DEF Reading
    <2>5. Left(cbuf', down', sent, mark[h].at)
      BY <2>2, <2>4 DEF Left
    <2>3. Reading(sent, k, mark, h)'
      BY <2>1, <2>5 DEF Reading
    <2>6. Framed'
      BY <2>1, <2>3 DEF Framed
    <2> QED
      BY <1>1, <1>3, <2>6 DEF Streams
  <1> QED
    BY <1>2, <1>3

LEMMA StreamsStay ==
    ASSUME OutputInv, UNCHANGED <<mode, stdout, cbuf, down, written, asked, answered>>
    PROVE  Writes' /\ Streams'
  <1>1. cbuf \in Seq(Byte) /\ down \in Seq(Byte)
    BY DEF OutputInv, SessionTypes
  <1>2. Same(cbuf', down', cbuf, down)
    BY <1>1 DEF Same
  <1> QED
    BY <1>2, StreamsMove

\* The frame the client's loop reads is the next one that was sent.
LEMMA LoopFrame ==
    ASSUME OutputInv, cstate = "loop", FrameSize(cbuf) > 0
    PROVE  \E sent \in Seq(Byte), k \in Nat, mark \in [Nat -> Mark], h \in Nat :
              /\ Stream(sent, k, mark) /\ h \in 0..k /\ h + 1 \in 0..k
              /\ Reading(sent, k, mark, h)
              /\ Left(Drop(cbuf, FrameSize(cbuf)), down, sent, mark[h + 1].at)
              /\ IsRequest(cbuf) => /\ mark[h + 1].text = mark[h].text
                                    /\ mark[h + 1].asks = mark[h].asks + 1
              /\ ~IsRequest(cbuf) =>
                    /\ stdout \o SubSeq(cbuf, 6, FrameSize(cbuf)) = Take(Text, mark[h + 1].text)
                    /\ mark[h + 1].asks = mark[h].asks
  <1>0. /\ cbuf \in Seq(Byte) /\ down \in Seq(Byte) /\ mode # "passive"
        /\ cbuf # <<>>
    BY EmptyBuffer DEF OutputInv, SessionTypes, Buffered
  <1>1. PICK sent \in Seq(Byte), k \in Nat, mark \in [Nat -> Mark], h \in Nat :
           Stream(sent, k, mark) /\ h \in 0..k /\ Reading(sent, k, mark, h)
    BY <1>0 DEF OutputInv, Streams, Framed
  <1>2. Left(cbuf, down, sent, mark[h].at)
    BY <1>1 DEF Reading
  <1>3. h # k
    <2>1. h = k => Left(cbuf, down, sent, mark[k].at)
      BY <1>2
    <2>2. Left(cbuf, down, sent, mark[k].at) => cbuf = <<>>
      BY <1>1, NothingBehind
    <2> QED
      BY <1>0, <2>1, <2>2
  <1>4. h + 1 \in 0..k /\ h + 1 \in Nat
    BY <1>1, <1>3
  <1> DEFINE a == mark[h]
             b == mark[h + 1]
  <1>5. a \in Mark /\ b \in Mark
    BY <1>1, <1>4
  <1>6. PICK f \in Seq(Byte) :
           /\ Carries(f, a.text, b.text, b.asks - a.asks)
           /\ b.at = a.at + Len(f)
           /\ \A i \in 1..Len(cbuf) : i <= Len(f) => cbuf[i] = f[i]
    <2>1. Starts(cbuf, down, a, b)
      BY <1>1, <1>2, <1>3, NextFrame
    <2> QED
      BY <2>1 DEF Starts
  <1>7. a.at \in 0..Len(sent)
    <2>1. Upto(mark[h], mark[k]) /\ mark[k].at = Len(sent)
      BY <1>1 DEF Stream
    <2> QED
      BY <1>5, <2>1, LenProperties, MarkFacts DEF Upto
  <1>8. stdout = Take(Text, a.text)
    BY <1>1 DEF Reading
  <1> HIDE DEF a, b
  <1>9. /\ a.text \in Nat /\ b.text \in 0..Len(Text)
        /\ a.asks \in Nat /\ b.asks \in Nat /\ a.at \in Nat
    BY <1>5, MarkFacts
  <1>10. /\ FrameSize(cbuf) = Len(f) /\ Len(f) \in 0..Len(cbuf)
         /\ IsRequest(cbuf) <=> b.asks - a.asks = 1
         /\ b.asks - a.asks = 0 => SubSeq(cbuf, 6, Len(f)) = Piece(a.text, b.text)
    <2>1. /\ FrameSize(cbuf) = IF Len(cbuf) < Len(f) THEN 0 ELSE Len(f)
          /\ IsRequest(cbuf) <=> b.asks - a.asks = 1
          /\ b.asks - a.asks = 0 => SubSeq(cbuf, 6, Len(f)) = Piece(a.text, b.text)
      BY <1>0, <1>6, <1>9, FrameIsRead
    <2> QED
      BY <1>0, <2>1, LenProperties
  <1>11. /\ a.text <= b.text
         /\ \/ b.asks - a.asks = 1 /\ b.text = a.text
            \/ b.asks - a.asks = 0
    BY <1>6, <1>9, CarriesFacts
  <1>12. Left(Drop(cbuf, FrameSize(cbuf)), down, sent, b.at)
    <2>1. cbuf \o down = Drop(sent, a.at)
      BY <1>2 DEF a, Left
    <2>2. Drop(cbuf, Len(f)) \o down = Drop(sent, a.at + Len(f))
      BY <1>0, <1>7, <1>10, <2>1, DropFront
    <2>3. Drop(cbuf, Len(f)) \in Seq(Byte)
      BY <1>0, <1>10, CutFacts
    <2> QED
      BY <1>0, <1>6, <1>10, <2>2, <2>3 DEF Left
  <1>13. IsRequest(cbuf) => b.text = a.text /\ b.asks = a.asks + 1
    BY <1>9, <1>10, <1>11
  <1>14. ASSUME ~IsRequest(cbuf)
         PROVE  /\ stdout \o SubSeq(cbuf, 6, FrameSize(cbuf)) = Take(Text, b.text)
                /\ b.asks = a.asks
    <2>1. b.asks - a.asks = 0
      BY <1>10, <1>11, <1>14
    <2>2. Take(Text, a.text) \o Piece(a.text, b.text) = Take(Text, b.text)
      BY <1>9, <1>11, PieceFacts
    <2>3. SubSeq(cbuf, 6, FrameSize(cbuf)) = Piece(a.text, b.text)
      BY <1>10, <2>1
    <2>4. stdout \o SubSeq(cbuf, 6, FrameSize(cbuf)) = Take(Text, b.text)
      BY <1>8, <2>2, <2>3
    <2>5. b.asks = a.asks
      BY <1>9, <2>1
    <2> QED
      BY <2>4, <2>5
  <1> QED
    BY <1>1, <1>4, <1>12, <1>13, <1>14 DEF a, b

\* socketReady prints the whole buffer, or starts its loop.
LEMMA SocketReadyOutput ==
    ASSUME OutputInv, SessionTypes', SocketReady
    PROVE  OutputInv'
  <1>0. stdout \in Seq(Byte) /\ cbuf \in Seq(Byte)
    BY DEF OutputInv, SessionTypes
  <1>1. Buffered'
    BY DEF SocketReady, OutputInv, Buffered, NothingLeft
  <1>2. Ended' /\ NothingTaken'
    BY DEF SocketReady, OutputInv, Ended, NothingTaken, serviceVars
  <1>3. CASE mode = "passive"
    <2>1. stdout' = stdout \o cbuf /\ cbuf' = <<>> /\ UNCHANGED <<mode, down, written>>
      BY <1>3 DEF SocketReady, serviceVars
    <2>2. (stdout \o cbuf) \o <<>> = stdout \o cbuf
      <3>1. stdout \o cbuf \in Seq(Byte)
        BY <1>0, ConcatProperties
      <3> QED
        BY <3>1, ConcatEmptySeq
    <2>3. Writes' /\ Streams'
      BY <1>3, <2>1, <2>2 DEF OutputInv, Writes, Streams, Unframed
    <2> QED
      BY <1>1, <1>2, <2>3 DEF OutputInv
  <1>4. CASE mode # "passive"
    <2>1. Writes' /\ Streams'
      BY <1>4, StreamsStay DEF SocketReady, serviceVars
    <2> QED
      BY <1>1, <1>2, <2>1 DEF OutputInv
  <1> QED
    BY <1>3, <1>4

\* A frame of data is printed, and no other byte.
LEMMA LoopDataOutput ==
    ASSUME OutputInv, SessionTypes', LoopData
    PROVE  OutputInv'
  <1>0. cstate = "loop" /\ FrameSize(cbuf) > 0 /\ ~IsRequest(cbuf) /\ mode # "passive"
    BY DEF LoopData, OutputInv, Buffered
  <1>1. PICK sent \in Seq(Byte), k \in Nat, mark \in [Nat -> Mark], h \in Nat :
              /\ Stream(sent, k, mark) /\ h \in 0..k /\ h + 1 \in 0..k
              /\ Reading(sent, k, mark, h)
              /\ Left(Drop(cbuf, FrameSize(cbuf)), down, sent, mark[h + 1].at)
              /\ stdout \o SubSeq(cbuf, 6, FrameSize(cbuf)) = Take(Text, mark[h + 1].text)
              /\ mark[h + 1].asks = mark[h].asks
    BY <1>0, LoopFrame
  <1>2. /\ stdout' = Take(Text, mark[h + 1].text)
        /\ Left(cbuf', down', sent, mark[h + 1].at)
        /\ UNCHANGED <<mode, written, asked, answered, cstate, cause, sstate, stdin, typing>>
    BY <1>1 DEF LoopData, serviceVars
  <1>3. Reading(sent, k, mark, h + 1)'
    BY <1>1, <1>2 DEF Reading
  <1>4. Framed' /\ h + 1 \in Nat
    BY <1>1, <1>3 DEF Framed
  <1>5. Writes' /\ Streams'
    BY <1>0, <1>2, <1>4 DEF OutputInv, Writes, Streams
  <1>6. Buffered' /\ Ended' /\ NothingTaken'
    BY <1>0, <1>2 DEF OutputInv, Buffered, Ended, NothingTaken
  <1> QED
    BY <1>5, <1>6 DEF OutputInv

\* A request is served once, and none of it is printed.
LEMMA LoopRequestOutput ==
    ASSUME OutputInv, SessionTypes', LoopRequest
    PROVE  OutputInv'
  <1>0. cstate = "loop" /\ FrameSize(cbuf) > 0 /\ IsRequest(cbuf) /\ mode # "passive"
    BY DEF LoopRequest, Serve, OutputInv, Buffered
  <1>1. PICK sent \in Seq(Byte), k \in Nat, mark \in [Nat -> Mark], h \in Nat :
              /\ Stream(sent, k, mark) /\ h \in 0..k /\ h + 1 \in 0..k
              /\ Reading(sent, k, mark, h)
              /\ Left(Drop(cbuf, FrameSize(cbuf)), down, sent, mark[h + 1].at)
              /\ mark[h + 1].text = mark[h].text
              /\ mark[h + 1].asks = mark[h].asks + 1
    BY <1>0, LoopFrame
  <1>2. PICK n \in Takes(cbuf) :
           /\ stdin' = Drop(stdin, n)
           /\ answered' = IF n > 0 THEN answered + 1 ELSE answered
    BY DEF LoopRequest, Serve
  <1>3. /\ Left(cbuf', down', sent, mark[h + 1].at)
        /\ UNCHANGED <<mode, stdout, written, asked, cstate, cause, sstate, typing>>
    BY <1>0, <1>1 DEF LoopRequest, Serve, serviceVars
  <1>4. /\ n \in Nat /\ n \in 0..Len(stdin) /\ stdin \in Seq(Byte)
        /\ answered \in Nat /\ mark[h].asks \in Nat /\ answered <= mark[h].asks
    <2>1. stdin \in Seq(Byte) /\ answered \in Nat
      BY DEF OutputInv, SessionTypes
    <2>2. mark[h] \in Mark /\ answered <= mark[h].asks
      BY <1>1 DEF Reading
    <2> QED
      BY <1>2, <2>1, <2>2, MarkFacts, TakesFacts
  <1>5. answered' <= mark[h + 1].asks
    BY <1>1, <1>2, <1>4
  <1>6. Reading(sent, k, mark, h + 1)'
    BY <1>1, <1>3, <1>5 DEF Reading
  <1>7. Framed' /\ h + 1 \in Nat
    BY <1>1, <1>6 DEF Framed
  <1>8. Writes' /\ Streams'
    BY <1>0, <1>3, <1>7 DEF OutputInv, Writes, Streams
  <1>9. Buffered' /\ Ended'
    BY <1>0, <1>3 DEF OutputInv, Buffered, Ended
  <1>10. NothingTaken'
    <2> SUFFICES ASSUME answered' = 0
                 PROVE  stdin' \o typing' = Input
      BY <1>0, <1>3 DEF NothingTaken
    <2>1. n = 0 /\ answered = 0
      BY <1>2, <1>4
    <2>2. stdin' = stdin
      BY <1>2, <1>4, <2>1, WholeFacts
    <2> QED
      BY <1>0, <1>3, <2>1, <2>2 DEF OutputInv, NothingTaken
  <1> QED
    BY <1>8, <1>9, <1>10 DEF OutputInv

\* One more frame is on the way.
LEMMA FrameSent ==
    ASSUME OutputInv, mode # "passive", NEW f \in Seq(Byte), down' = down \o f,
           UNCHANGED <<mode, stdout, cbuf, answered>>, SessionTypes', Writes',
           Len(written) <= Len(written'), asked <= asked',
           Carries(f, Len(written), Len(written'), asked' - asked)
    PROVE  Streams'
  <1>1. PICK sent \in Seq(Byte), k \in Nat, mark \in [Nat -> Mark], h \in Nat :
           Stream(sent, k, mark) /\ h \in 0..k /\ Reading(sent, k, mark, h)
    BY DEF OutputInv, Streams, Framed
  <1>2. /\ cbuf \in Seq(Byte) /\ down \in Seq(Byte) /\ Len(sent) \in Nat /\ Len(f) \in Nat
        /\ Len(written') \in 0..Len(Text) /\ asked' \in Nat
    BY <1>1, LenProperties, TypesAssumption DEF OutputInv, SessionTypes, Writes
  <1>3. PICK n \in Mark :
           n.at = Len(sent) + Len(f) /\ n.text = Len(written') /\ n.asks = asked'
    <2>1. PICK x \in Nat, y \in 0..Len(Text), z \in Nat :
             x = Len(sent) + Len(f) /\ y = Len(written') /\ z = asked'
      BY <1>2
    <2>2. [at |-> x, text |-> y, asks |-> z] \in Mark
      BY DEF Mark
    <2>3. \E n \in Mark : n.at = x /\ n.text = y /\ n.asks = z
      BY <2>2
    <2> QED
      BY <2>1, <2>3
  <1> DEFINE more == [mark EXCEPT ![k + 1] = n]
  <1>4. Len(written) = mark[k].text /\ asked = mark[k].asks
    BY <1>1 DEF Reading
  <1>5. Stream(sent \o f, k + 1, more)
    BY <1>1, <1>3, <1>4, StreamGrows
  <1>6. more \in [Nat -> Mark] /\ more[h] = mark[h] /\ more[k + 1] = n
    BY <1>1, <1>3
  <1>7. h \in 0..(k + 1) /\ k + 1 \in Nat /\ sent \o f \in Seq(Byte)
    BY <1>1, ConcatProperties
  <1>8. Left(cbuf, down \o f, sent \o f, mark[h].at)
    <2>1. mark[h].at \in 0..Len(sent)
      <3>1. Upto(mark[h], mark[k]) /\ mark[k].at = Len(sent) /\ mark[h] \in Mark
        BY <1>1 DEF Stream
      <3> QED
        BY <1>2, <3>1, MarkFacts DEF Upto
    <2>2. Drop(sent, mark[h].at) \o f = Drop(sent \o f, mark[h].at)
      BY <2>1, DropBehind
    <2>3. cbuf \o down = Drop(sent, mark[h].at)
      BY <1>1 DEF Reading, Left
    <2>4. (cbuf \o down) \o f = cbuf \o (down \o f)
      BY <1>2, ConcatAssociative
    <2>5. down \o f \in Seq(Byte)
      BY <1>2, ConcatProperties
    <2> QED
      BY <1>2, <2>2, <2>3, <2>4, <2>5 DEF Left
  <1> HIDE DEF more
  <1>9. Reading(sent \o f, k + 1, more, h)'
    BY <1>1, <1>3, <1>6, <1>8 DEF Reading
  <1> QED
    BY <1>5, <1>6, <1>7, <1>9 DEF Streams, Framed

\* Terminal::write: the next bytes of the text, in one frame or as they are.
LEMMA WriteOutput ==
    ASSUME OutputInv, SessionTypes', Write
    PROVE  OutputInv'
  <1>1. PICK m \in (Len(written) + 1)..Len(Text) :
           LET bytes == Piece(Len(written), m)
           IN  /\ written' = written \o bytes
               /\ down' = down \o (IF mode = "active" THEN DataFrame(bytes) ELSE bytes)
    BY DEF Write, Piece
  <1> DEFINE n == Len(written)
             bytes == Piece(n, m)
  <1>2. /\ n \in Nat /\ m \in 0..Len(Text) /\ n < m /\ n <= m /\ m - n < 256
        /\ Len(Text) \in Nat /\ written \in Seq(Byte)
    <2>1. written \in Seq(Byte)
      BY DEF OutputInv, SessionTypes
    <2>2. Len(written) \in Nat
      BY <2>1, LenProperties
    <2> QED
      BY <2>1, <2>2, TextFacts
  <1>3. /\ bytes \in Seq(Byte) /\ Len(bytes) = m - n
        /\ Take(Text, n) \o bytes = Take(Text, m)
    BY <1>2, PieceFacts
  <1>4. written' = Take(Text, m)
    BY <1>1, <1>3 DEF OutputInv, Writes
  <1>5. Len(written') = m
    <2>1. Text \in Seq(Byte)
      BY TextFacts
    <2> QED
      BY <1>2, <1>4, <2>1, CutFacts
  <1>6. Writes'
    BY <1>2, <1>4, <1>5 DEF Writes
  <1>7. /\ UNCHANGED <<mode, cstate, cause, typing, stdin, stdout, cbuf, posted, answered>>
        /\ UNCHANGED asked /\ sstate = "open" /\ sstate' = sstate
    BY DEF Write, clientVars
  <1>8. Buffered' /\ Ended' /\ NothingTaken'
    BY <1>7 DEF OutputInv, Buffered, NothingLeft, Ended, NothingTaken
  <1>9. CASE mode = "passive"
    <2>1. down' = down \o bytes /\ written' = written \o bytes
      BY <1>1, <1>9
    <2>2. stdout \o cbuf \o down' = stdout \o cbuf \o down \o bytes
      <3> DEFINE shown == stdout \o cbuf
      <3>1. stdout \in Seq(Byte) /\ cbuf \in Seq(Byte) /\ down \in Seq(Byte)
        BY DEF OutputInv, SessionTypes
      <3>2. shown \in Seq(Byte)
        BY <3>1, ConcatProperties
      <3> HIDE DEF shown, bytes
      <3>3. Same(shown \o down, bytes, shown, down \o bytes)
        BY <1>3, <3>1, <3>2, SameSplit
      <3>4. shown \o down' = shown \o down \o bytes
        BY <2>1, <3>3 DEF Same
      <3> QED
        BY <3>4 DEF shown
    <2>3. Streams'
      BY <1>7, <1>9, <2>1, <2>2 DEF OutputInv, Streams, Unframed
    <2> QED
      BY <1>6, <1>8, <2>3 DEF OutputInv
  <1>10. CASE mode # "passive"
    <2>1. mode = "active"
      BY <1>10, TypesAssumption DEF OutputInv, SessionTypes
    <2>2. down' = down \o DataFrame(bytes)
      BY <1>1, <2>1
    <2>3. DataFrame(bytes) \in Seq(Byte)
      BY <1>2, <1>3, DataFrameFacts
    <2>4. asked' - asked = 0 /\ asked <= asked'
      BY <1>7 DEF OutputInv, SessionTypes
    <2>5. Carries(DataFrame(bytes), Len(written), Len(written'), asked' - asked)
      BY <1>2, <1>5, <2>4 DEF Carries
    <2>6. Len(written) <= Len(written')
      BY <1>2, <1>5
    <2> HIDE DEF bytes, n
    <2>7. Streams'
      BY <1>6, <1>7, <1>10, <2>2, <2>3, <2>4, <2>5, <2>6, FrameSent
    <2> QED
      BY <1>6, <1>8, <2>7 DEF OutputInv
  <1> QED
    BY <1>9, <1>10

LEMMA RequestOutput ==
    ASSUME OutputInv, SessionTypes', NEW type \in Requests, Request(type),
           MultiCharRequest \notin Requests
    PROVE  OutputInv'
  <1>1. /\ mode = "active" /\ asked' = asked + 1 /\ down' = down \o RequestFrame(type, Num)
        /\ UNCHANGED <<mode, cstate, cause, typing, stdin, stdout, cbuf, posted, answered>>
        /\ UNCHANGED <<sstate, written>>
    BY DEF Request, clientVars
  <1>2. type \in RequestTypes \ {MultiCharRequest} /\ RequestFrame(type, Num) \in Seq(Byte)
    BY TypesAssumption, RequestFrameFacts
  <1>3. /\ asked' - asked = 1 /\ asked <= asked'
        /\ Len(written') = Len(written) /\ Len(written) \in Nat
    BY <1>1, LenProperties DEF OutputInv, SessionTypes
  <1>4. Carries(RequestFrame(type, Num), Len(written), Len(written'), asked' - asked)
    BY <1>2, <1>3 DEF Carries
  <1>5. Writes'
    BY <1>1 DEF OutputInv, Writes
  <1>6. Streams'
    BY <1>1, <1>2, <1>3, <1>4, <1>5, FrameSent
  <1>7. Buffered' /\ Ended' /\ NothingTaken'
    BY <1>1 DEF OutputInv, Buffered, NothingLeft, Ended, NothingTaken, Request
  <1> QED
    BY <1>5, <1>6, <1>7 DEF OutputInv

\* The client that sees the end of the connection has read every frame.
LEMMA DisconnectedOutput ==
    ASSUME OutputInv, SessionTypes', Disconnected
    PROVE  OutputInv'
  <1>0. /\ cstate = "open" /\ ~posted /\ down = <<>> /\ sstate = "gone"
        /\ cstate' = "closed"
        /\ UNCHANGED <<mode, typing, stdin, stdout, cbuf, answered, down, sstate>>
        /\ UNCHANGED <<asked, written>>
    BY DEF Disconnected, serviceVars
  <1>1. Writes' /\ Streams'
    BY <1>0, StreamsStay
  <1>2. stdout \in Seq(Byte) /\ cbuf \in Seq(Byte)
    BY DEF OutputInv, SessionTypes
  <1>3. stdout = written
    <2>1. CASE mode = "passive"
      <3>1. cbuf = <<>> /\ stdout \o cbuf \o down = written
        BY <1>0, <2>1 DEF OutputInv, Buffered, NothingLeft, Streams, Unframed
      <3> QED
        BY <1>0, <1>2, <3>1, ConcatEmptySeq
    <2>2. CASE mode # "passive"
      <3>1. FrameSize(cbuf) = 0
        BY <1>0, <2>2 DEF OutputInv, Buffered, NothingLeft
      <3>2. PICK sent \in Seq(Byte), k \in Nat, mark \in [Nat -> Mark], h \in Nat :
               Stream(sent, k, mark) /\ h \in 0..k /\ Reading(sent, k, mark, h)
        BY <2>2 DEF OutputInv, Streams, Framed
      <3>3. Left(cbuf, down, sent, mark[h].at)
        BY <3>2 DEF Reading
      <3>4. h = k
        <4> SUFFICES ASSUME h # k
                     PROVE  FALSE
          OBVIOUS
        <4> DEFINE a == mark[h]
                   b == mark[h + 1]
        <4>1. PICK f \in Seq(Byte) :
                 /\ Carries(f, a.text, b.text, b.asks - a.asks)
                 /\ down = <<>> => Len(f) <= Len(cbuf)
                 /\ \A i \in 1..Len(cbuf) : i <= Len(f) => cbuf[i] = f[i]
          <5>1. Starts(cbuf, down, a, b)
            BY <3>2, <3>3, NextFrame
          <5> QED
            BY <5>1 DEF Starts
        <4>2. a \in Mark /\ b \in Mark
          BY <3>2
        <4>3. a.text \in Nat /\ b.text \in 0..Len(Text)
          BY <4>2, MarkFacts
        <4>4. Carries(f, a.text, b.text, b.asks - a.asks)
          BY <4>1
        <4> HIDE DEF a, b
        <4>5. FrameSize(cbuf) = IF Len(cbuf) < Len(f) THEN 0 ELSE Len(f)
          BY <1>2, <4>1, <4>3, <4>4, FrameIsRead
        <4>6. Len(f) = 5 + (b.text - a.text) /\ a.text <= b.text
          BY <4>3, <4>4, CarriesFacts
        <4>7. Len(cbuf) \in Nat
          BY <1>2, LenProperties
        <4> QED
          BY <1>0, <3>1, <4>1, <4>3, <4>5, <4>6, <4>7
      <3> QED
        BY <3>2, <3>4 DEF Reading, OutputInv, Writes
    <2> QED
      BY <2>1, <2>2
  <1>4. Buffered' /\ Ended' /\ NothingTaken'
    BY <1>0, <1>3 DEF OutputInv, Buffered, Ended, NothingTaken
  <1> QED
    BY <1>1, <1>4 DEF OutputInv

\* The steps that print, write and request nothing.
LEMMA OutputStays ==
    ASSUME OutputInv, SessionTypes', Buffered',
           UNCHANGED <<mode, stdout, cbuf, down, written, asked, answered>>,
           cause' = "disconnected" => UNCHANGED <<cause, cstate>>,
           sstate = "gone" => sstate' = "gone",
           mode # "passive" => stdin' \o typing' = stdin \o typing
    PROVE  OutputInv'
  <1>1. Writes' /\ Streams'
    BY StreamsStay
  <1>2. Ended' /\ NothingTaken'
    BY DEF OutputInv, Ended, NothingTaken
  <1> QED
    BY <1>1, <1>2 DEF OutputInv

LEMMA OutputInvariant ==
    ASSUME MultiCharRequest \notin Requests
    PROVE  Spec => []OutputInv
  <1>1. Init => OutputInv
    <2> SUFFICES ASSUME Init
                 PROVE  OutputInv
      OBVIOUS
    <2>1. /\ <<>> \in Seq(Byte) /\ Len(<<>>) = 0 /\ Input \in Seq(Byte)
          /\ Text \in Seq(Byte) /\ Len(Text) \in Nat
      BY TextFacts, EmptySeq, TypesAssumption DEF Byte
    <2>2. Take(Text, 0) = <<>> /\ <<>> \o <<>> = <<>> /\ <<>> \o Input = Input
      BY <2>1, WholeFacts, ConcatEmptySeq
    <2>3. SessionTypes
      BY TypesInit
    <2>4. Writes
      BY <2>1, <2>2 DEF Init, Writes
    <2>5. Buffered /\ Ended
      BY EmptyBuffer DEF Init, Buffered, Ended
    <2>6. NothingTaken
      BY <2>2 DEF Init, NothingTaken
    <2>7. Streams
      <3>1. CASE mode = "passive"
        BY <2>2, <3>1 DEF Init, Streams, Unframed
      <3>2. CASE mode # "passive"
        <4> DEFINE zero == [at |-> 0, text |-> 0, asks |-> 0]
                   mark == [i \in Nat |-> zero]
        <4>1. mark \in [Nat -> Mark] /\ mark[0] = zero
          BY <2>1 DEF Mark
        <4>2. zero.at = 0 /\ zero.text = 0 /\ zero.asks = 0
          OBVIOUS
        <4> HIDE DEF mark, zero
        <4>3. Stream(<<>>, 0, mark)
          BY <2>1, <4>1, <4>2 DEF Stream, Upto
        <4>4. Drop(<<>>, 0) = <<>>
          BY <2>1, WholeFacts
        <4>5. Left(<<>>, <<>>, <<>>, 0)
          BY <2>1, <2>2, <4>4 DEF Left
        <4>6. Reading(<<>>, 0, mark, 0)
          BY <2>1, <2>2, <4>1, <4>2, <4>5 DEF Init, Reading
        <4>7. Framed
          <5>1. /\ 0 \in Nat /\ 0 \in 0..0
                /\ <<>> \in Seq(Byte) /\ mark \in [Nat -> Mark]
            BY <2>1, <4>1
          <5> SUFFICES \E sent \in Seq(Byte), k \in Nat, m \in [Nat -> Mark], h \in Nat :
                          Stream(sent, k, m) /\ h \in 0..k /\ Reading(sent, k, m, h)
            BY DEF Framed
          <5> USE <5>1
          <5> WITNESS <<>> \in Seq(Byte), 0 \in Nat, mark \in [Nat -> Mark], 0 \in Nat
          <5> QED
            BY <4>3, <4>6
        <4> QED
          BY <3>2, <4>7 DEF Streams
      <3> QED
        BY <3>1, <3>2
    <2> QED
      BY <2>3, <2>4, <2>5, <2>6, <2>7 DEF OutputInv
  <1>2. OutputInv /\ [Next]_vars => OutputInv'
    <2> SUFFICES ASSUME OutputInv, [Next]_vars
                 PROVE  OutputInv'
      OBVIOUS
    <2>0. SessionTypes /\ SessionTypes' /\ Buffered
      BY TypesInv DEF OutputInv
    <2>1. CASE Type
      <3>1. /\ stdin \in Seq(Byte) /\ typing \in Seq(Byte) /\ typing # <<>>
        BY <2>0, <2>1 DEF SessionTypes, Type
      <3>2. /\ 1 \in 0..Len(typing)
            /\ stdin' = stdin \o Take(typing, 1) /\ typing' = Drop(typing, 1)
        BY <2>1, <3>1, MoveOne DEF Type
      <3>3. Same(stdin', typing', stdin, typing)
        BY <3>1, <3>2, MoveFacts
      <3>4. stdin' \o typing' = stdin \o typing
        BY <3>3 DEF Same
      <3> QED
        BY <2>0, <2>1, <3>4, OutputStays DEF Type, serviceVars, Buffered, NothingLeft
    <2>2. CASE Connected
      <3>1. Buffered'
        BY <2>0, <2>2, EmptyBuffer DEF Connected, Buffered, NothingLeft
      <3> QED
        BY <2>0, <2>2, <3>1, OutputStays DEF Connected, serviceVars, OutputInv, Ended
    <2>3. CASE ConnectFails \/ Quit \/ SendFails
      BY <2>0, <2>3, OutputStays
      DEF ConnectFails, Quit, SendFails, serviceVars, Buffered
    <2>4. CASE ConsoleReady
      BY <2>0, <2>4, OutputStays DEF ConsoleReady, serviceVars, Buffered, NothingLeft
    <2>5. CASE ClientArrive
      <3>1. PICK n \in 1..Len(down) : cbuf' = cbuf \o Take(down, n) /\ down' = Drop(down, n)
        BY <2>5 DEF ClientArrive, Take
      <3>2. n \in 0..Len(down) /\ cbuf \in Seq(Byte) /\ down \in Seq(Byte)
        BY <2>0, LenProperties DEF SessionTypes
      <3>3. Same(cbuf', down', cbuf, down)
        BY <3>1, <3>2, MoveFacts
      <3>4. Writes' /\ Streams'
        BY <2>5, <3>3, StreamsMove DEF ClientArrive, serviceVars
      <3>5. Buffered' /\ Ended' /\ NothingTaken'
        BY <2>5 DEF ClientArrive, serviceVars, OutputInv, Buffered, Ended, NothingTaken
      <3> QED
        BY <2>0, <3>4, <3>5 DEF OutputInv
    <2>6. CASE SocketReady
      BY <2>0, <2>6, SocketReadyOutput
    <2>7. CASE LoopData
      BY <2>0, <2>7, LoopDataOutput
    <2>8. CASE LoopRequest
      BY <2>0, <2>8, LoopRequestOutput
    <2>9. CASE LoopEnd
      BY <2>0, <2>9, OutputStays
      DEF LoopEnd, serviceVars, OutputInv, Ended, Buffered, NothingLeft
    <2>10. CASE Disconnected
      BY <2>0, <2>10, DisconnectedOutput
    <2>11. CASE ServiceArrive
      BY <2>0, <2>11, OutputStays, ServiceArriveFacts
      DEF ServiceArrive, clientVars, Buffered, NothingLeft
    <2>12. CASE Write
      BY <2>0, <2>12, WriteOutput
    <2>13. ASSUME NEW type \in Requests,
                  (Request(type) /\ UNCHANGED await) \/ Prepare(type)
           PROVE  OutputInv'
      <3>1. Request(type)
        BY <2>13 DEF Prepare
      <3> QED
        BY <2>0, <3>1, RequestOutput
    <2>14. CASE DisconnectTerminal \/ PeerGone
      BY <2>0, <2>14, OutputStays
      DEF DisconnectTerminal, PeerGone, clientVars, Buffered, NothingLeft
    <2>15. CASE UNCHANGED vars
      BY <2>0, <2>15, OutputStays DEF vars, clientVars, serviceVars, Buffered, NothingLeft
    <2> QED
      BY <2>1, <2>2, <2>3, <2>4, <2>5, <2>6, <2>7, <2>8, <2>9, <2>10, <2>11, <2>12, <2>13,
         <2>14, <2>15 DEF Next, Client
  <1> QED
    BY <1>1, <1>2, PTL DEF Spec

\* What the frames say of the state: the client has printed the first so many
\* bytes of what the service has written, and answered no request that was not made.
LEMMA OutputMeans ==
    ASSUME OutputInv
    PROVE  OutputFaithful /\ (mode # "passive" => answered <= asked)
  <1>0. /\ stdout \in Seq(Byte) /\ cbuf \in Seq(Byte) /\ down \in Seq(Byte)
        /\ written \in Seq(Byte) /\ answered \in Nat
    BY DEF OutputInv, SessionTypes
  <1>1. CASE mode = "passive"
    <2>1. stdout \o (cbuf \o down) = written
      <3>1. Same(stdout \o cbuf, down, stdout, cbuf \o down)
        BY <1>0, SameSplit
      <3> QED
        BY <1>1, <3>1 DEF Same, OutputInv, Streams, Unframed
    <2>2. cbuf \o down \in Seq(Byte)
      BY <1>0, ConcatProperties
    <2>3. OutputFaithful
      BY <1>0, <2>1, <2>2, PrefixFacts DEF OutputFaithful
    <2> QED
      BY <1>1, <2>3
  <1>2. CASE mode # "passive"
    <2>1. PICK sent \in Seq(Byte), k \in Nat, mark \in [Nat -> Mark], h \in Nat :
             Stream(sent, k, mark) /\ h \in 0..k /\ Reading(sent, k, mark, h)
      BY <1>2 DEF OutputInv, Streams, Framed
    <2> DEFINE a == mark[h]
               b == mark[k]
    <2>2. a \in Mark /\ b \in Mark /\ Upto(a, b)
      BY <2>1 DEF Stream
    <2>3. /\ stdout = Take(Text, a.text) /\ written = Take(Text, b.text)
          /\ answered <= a.asks /\ asked = b.asks
      BY <2>1 DEF Reading, OutputInv, Writes
    <2> HIDE DEF a, b
    <2>4. /\ a.text \in Nat /\ b.text \in 0..Len(Text) /\ a.text <= b.text
          /\ a.asks \in Nat /\ b.asks \in Nat /\ a.asks <= b.asks
      BY <2>2, MarkFacts DEF Upto
    <2>5. Piece(a.text, b.text) \in Seq(Byte) /\ stdout \o Piece(a.text, b.text) = written
      BY <2>3, <2>4, PieceFacts
    <2>6. OutputFaithful
      BY <1>0, <2>5, PrefixFacts DEF OutputFaithful
    <2>7. answered <= asked
      BY <1>0, <2>3, <2>4
    <2> QED
      BY <2>6, <2>7
  <1> QED
    BY <1>1, <1>2

\* The theorems below hold for every service that makes no requestChars
\* call.  After one the client takes what is left of the number for the next frame.

\* However the stream is cut into chunks, what the client prints is what the
\* service wrote, in order: socketReady's transactions read no frame twice, none
\* before it is complete, and no byte of a request as output.
THEOREM OutputArrives ==
    ASSUME MultiCharRequest \notin Requests
    PROVE  Spec => []OutputFaithful
  BY OutputInvariant, OutputMeans, PTL

\* In the active mode stdin is read for the service's requests only, and for each
\* of them at most once.
THEOREM InputIsAskedFor ==
    ASSUME MultiCharRequest \notin Requests
    PROVE  Spec => []InputOnDemand
  <1>1. OutputInv => InputOnDemand
    BY OutputMeans DEF OutputInv, NothingTaken, InputOnDemand
  <1> QED
    BY <1>1, OutputInvariant, PTL

\* disconnectTerminal() flushes: a client that sees the end of the connection has
\* printed all that was written, in chunks, in frames, and with a call of
\* socketReady still queued when the last of it came.
THEOREM EndComesLast ==
    ASSUME MultiCharRequest \notin Requests
    PROVE  Spec => []DisconnectFlushes
  <1>1. OutputInv => DisconnectFlushes
    BY DEF OutputInv, Ended, DisconnectFlushes
  <1> QED
    BY <1>1, OutputInvariant, PTL

\* The variables keep their types; the bound of `answered` rests on the frames.
THEOREM TypeCorrect ==
    ASSUME MultiCharRequest \notin Requests
    PROVE  Spec => []TypeOK
  <1>1. OutputInv => TypeOK
    <2> SUFFICES ASSUME OutputInv
                 PROVE  TypeOK
      OBVIOUS
    <2>1. SessionTypes /\ NothingTaken /\ OutputFaithful
      BY OutputMeans DEF OutputInv
    <2>2. answered \in 0..MaxOps
      <3>1. asked \in Nat /\ asked <= MaxOps /\ answered \in Nat /\ MaxOps \in Nat
        BY <2>1, TypesAssumption DEF SessionTypes
      <3>2. answered <= asked
        BY <2>1, <3>1, OutputMeans DEF NothingTaken
      <3> QED
        BY <3>1, <3>2
    <2>3. \A s \in {typing, stdin, stdout, cbuf, up, down, sbuf, received, written} :
             s \in Seq(0..255)
      BY <2>1 DEF SessionTypes, Byte
    <2> QED
      BY <2>1, <2>2, <2>3 DEF SessionTypes, TypeOK
  <1> QED
    BY <1>1, OutputInvariant, PTL
=============================================================================
