---------------------------- MODULE FramingProofs ---------------------------
(***************************************************************************)
(* What MessageProtocol keeps of the stream, for messages of any number    *)
(* and length and a stream cut into pieces of any size.                    *)
(***************************************************************************)
EXTENDS Framing, SequenceTheorems, WellFoundedInduction, TLAPS

-----------------------------------------------------------------------------
(* Numbers and slices.                                                     *)

\* The lesser of two numbers.
LEMMA MinOfTwo ==
    \A a, b \in Int : Min({a, b}) = IF a <= b THEN a ELSE b
<1> SUFFICES ASSUME NEW a \in Int, NEW b \in Int
             PROVE  Min({a, b}) = IF a <= b THEN a ELSE b
    OBVIOUS
<1> DEFINE c == IF a <= b THEN a ELSE b
<1>1. c \in {a, b} /\ \A y \in {a, b} : c <= y
    OBVIOUS
<1>2. \A x, y \in {a, b} : x <= y /\ y <= x => x = y
    OBVIOUS
<1> HIDE DEF c
<1>3. Min({a, b}) \in {a, b} /\ \A y \in {a, b} : Min({a, b}) <= y
    BY <1>1 DEF Min
<1>4. Min({a, b}) = c
    BY <1>1, <1>2, <1>3
<1>5. QED
    BY <1>4 DEF c

\* The greater of two numbers.
LEMMA MaxOfTwo ==
    \A a, b \in Int : Max({a, b}) = IF a >= b THEN a ELSE b
<1> SUFFICES ASSUME NEW a \in Int, NEW b \in Int
             PROVE  Max({a, b}) = IF a >= b THEN a ELSE b
    OBVIOUS
<1> DEFINE c == IF a >= b THEN a ELSE b
<1>1. c \in {a, b} /\ \A y \in {a, b} : c >= y
    OBVIOUS
<1>2. \A x, y \in {a, b} : x >= y /\ y >= x => x = y
    OBVIOUS
<1> HIDE DEF c
<1>3. Max({a, b}) \in {a, b} /\ \A y \in {a, b} : Max({a, b}) >= y
    BY <1>1 DEF Max
<1>4. Max({a, b}) = c
    BY <1>1, <1>2, <1>3
<1>5. QED
    BY <1>4 DEF c

\* Both sides lessened by the same.
LEMMA BothLess ==
    \A h, a, c, d \in Nat : a - c <= d <=> a - (c + h) <= d - h
OBVIOUS

\* s[:n] and s[n:] are the two parts of s; n counts from the end if negative.
LEMMA Slices ==
    ASSUME NEW T, NEW s \in Seq(T), NEW n \in Int
    PROVE  \E k \in 0..Len(s) :
             /\ Upto(s, n) = SubSeq(s, 1, k) /\ Upto(s, n) \in Seq(T)
             /\ Len(Upto(s, n)) = k
             /\ From(s, n) = SubSeq(s, k + 1, Len(s)) /\ From(s, n) \in Seq(T)
             /\ Len(From(s, n)) = Len(s) - k
             /\ 0 <= n /\ n <= Len(s) => k = n
<1> DEFINE k == IF n >= 0 THEN Min({n, Len(s)}) ELSE Max({0, Len(s) + n})
<1>1. Len(s) \in Nat
    OBVIOUS
<1>2. k \in 0..Len(s) /\ (0 <= n /\ n <= Len(s) => k = n)
    <2>1. CASE n >= 0
        <3>1. Min({n, Len(s)}) = IF n <= Len(s) THEN n ELSE Len(s)
            BY <1>1, MinOfTwo
        <3>2. QED
            BY <1>1, <2>1, <3>1
    <2>2. CASE ~(n >= 0)
        <3>1. Max({0, Len(s) + n}) = IF 0 >= Len(s) + n THEN 0 ELSE Len(s) + n
            BY <1>1, MaxOfTwo
        <3>2. QED
            BY <1>1, <2>2, <3>1
    <2>3. QED
        BY <2>1, <2>2
<1>3. Upto(s, n) = SubSeq(s, 1, k)
    BY DEF Upto
<1> HIDE DEF k
<1>4. SubSeq(s, 1, k) \in Seq(T) /\ Len(SubSeq(s, 1, k)) = k
    BY <1>1, <1>2, SubSeqProperties
<1>5. From(s, n) = SubSeq(s, k + 1, Len(s))
    BY <1>3, <1>4 DEF From
<1>6. SubSeq(s, k + 1, Len(s)) \in Seq(T) /\ Len(SubSeq(s, k + 1, Len(s))) = Len(s) - k
    BY <1>1, <1>2, SubSeqProperties
<1>7. QED
    BY <1>2, <1>3, <1>4, <1>5, <1>6

\* Neither slice leaves the type of the sequence.
LEMMA FromType ==
    ASSUME NEW T
    PROVE  \A s \in Seq(T), n \in Int : From(s, n) \in Seq(T) /\ Len(From(s, n)) <= Len(s)
<1> SUFFICES ASSUME NEW s \in Seq(T), NEW n \in Int
             PROVE  From(s, n) \in Seq(T) /\ Len(From(s, n)) <= Len(s)
    OBVIOUS
<1>1. PICK k \in 0..Len(s) :
        /\ Upto(s, n) = SubSeq(s, 1, k) /\ Upto(s, n) \in Seq(T)
        /\ Len(Upto(s, n)) = k
        /\ From(s, n) = SubSeq(s, k + 1, Len(s)) /\ From(s, n) \in Seq(T)
        /\ Len(From(s, n)) = Len(s) - k
        /\ 0 <= n /\ n <= Len(s) => k = n
    BY Slices
<1>2. Len(s) \in Nat /\ k \in Nat
    OBVIOUS
<1>3. QED
    BY <1>1, <1>2

\* Nor does the other.
LEMMA UptoType ==
    ASSUME NEW T
    PROVE  \A s \in Seq(T), n \in Int : Upto(s, n) \in Seq(T)
BY Slices

-----------------------------------------------------------------------------
(* Types.                                                                  *)

\* The cells are numbers, and so are the fields of a header read from them.
LEMMA CellsAreInts == Cells \subseteq Int
<1> SUFFICES ASSUME NEW m \in Messages
             PROVE  {m.version, m.len, m.dlen, m.offset} \cup
                    (IF m.data = None THEN {} ELSE Range(m.data)) \subseteq Int
    BY DEF Cells
<1>1. /\ m.version \in Int /\ m.len \in Int /\ m.dlen \in Int /\ m.offset \in Int
      /\ m.data \in Seq(Int) \cup {None}
    BY FramingAssumption
<1>2. m.data # None => Range(m.data) \subseteq Int
    BY <1>1 DEF Range
<1>3. QED
    BY <1>1, <1>2

\* What write() sends of a message: its header, and its data behind it.
LEMMA EncodeType ==
    ASSUME NEW m \in Messages
    PROVE  /\ Encode(m) \in Seq(Cells)
           /\ Len(Encode(m)) = 4 + (IF m.data = None THEN 0 ELSE Len(m.data))
           /\ Encode(m)[1] = m.version /\ Encode(m)[2] = m.len
           /\ Encode(m)[3] = m.dlen /\ Encode(m)[4] = m.offset
<1> DEFINE head == <<m.version, m.len, m.dlen, m.offset>>
           data == IF m.data = None THEN <<>> ELSE m.data
<1>1. {m.version, m.len, m.dlen, m.offset} \cup
         (IF m.data = None THEN {} ELSE Range(m.data)) \subseteq Cells
    BY DEF Cells
<1>2. head \in Seq(Cells) /\ Len(head) = 4
    BY <1>1
<1>3. data \in Seq(Cells) /\ Len(data) = IF m.data = None THEN 0 ELSE Len(m.data)
    <2>1. CASE m.data = None
        BY <2>1
    <2>2. CASE m.data # None
        <3>1. m.data \in Seq(Int)
            BY <2>2, FramingAssumption
        <3>2. \A i \in 1..Len(m.data) : m.data[i] \in Cells
            BY <1>1, <2>2, <3>1 DEF Range
        <3>3. QED
            BY <2>2, <3>1, <3>2
    <2>3. QED
        BY <2>1, <2>2
<1>4. Encode(m) = head \o data
    BY DEF Encode
<1>5. head[1] = m.version /\ head[2] = m.len /\ head[3] = m.dlen /\ head[4] = m.offset
    OBVIOUS
<1> HIDE DEF head, data
<1>6. data \in Seq(Cells) /\ head \in Seq(Cells)
    BY <1>2, <1>3
<1>7. head \o data \in Seq(Cells)
    BY <1>6, ConcatProperties
<1>8. Len(head \o data) = Len(head) + Len(data)
    BY <1>6, ConcatProperties
<1>9. \A i \in 1..4 : (head \o data)[i] = head[i]
    <2>1. \A i \in 1..Len(head) : (head \o data)[i] = head[i]
        <3>1. \A i \in 1..(Len(head) + Len(data)) :
                (head \o data)[i] = IF i <= Len(head) THEN head[i] ELSE data[i - Len(head)]
            BY <1>6, ConcatProperties
        <3>2. Len(head) \in Nat /\ Len(data) \in Nat
            BY <1>6
        <3>3. QED
            BY <3>1, <3>2
    <2>2. QED
        BY <1>2, <2>1
<1>10. QED
    BY <1>2, <1>3, <1>4, <1>5, <1>7, <1>8, <1>9

\* Which is a header at least.
LEMMA EncodeLong ==
    ASSUME NEW m \in Messages
    PROVE  Encode(m) \in Seq(Cells) /\ Len(Encode(m)) \in Nat /\ Len(Encode(m)) >= 4
<1>1. m.data # None => m.data \in Seq(Int)
    BY FramingAssumption
<1>2. (IF m.data = None THEN 0 ELSE Len(m.data)) \in Nat
    BY <1>1
<1>3. \A k \in Nat : 4 + k \in Nat /\ 4 + k >= 4
    OBVIOUS
<1>4. QED
    BY <1>2, <1>3, EncodeType

\* What unpack makes of a header.
LEMMA DecodeType ==
    ASSUME NEW h \in Seq(Cells), Len(h) = HeaderLen
    PROVE  Decode(h) \in Headers /\ Decode(h) # None /\ Decode(h).len \in Cells
<1>1. h[1] \in Cells /\ h[2] \in Cells /\ h[3] \in Cells /\ h[4] \in Cells
    BY DEF HeaderLen
<1>2. h[1] \in Int /\ h[2] \in Int /\ h[3] \in Int /\ h[4] \in Int
    BY <1>1, CellsAreInts
<1>3. Decode(h) \in Headers
    BY <1>2 DEF Decode, Headers
<1>4. QED
    BY <1>1, <1>3, FramingAssumption DEF Decode

TInv == TypeOK /\ BufferBounded

\* What the reader waits for is never more than a header or the longest
\* payload allowed.
LEMMA NeedBounded ==
    ASSUME TypeOK
    PROVE  Need \in Int /\ Need <= Max({HeaderLen, MaxLength}) /\ 0 < Max({HeaderLen, MaxLength})
           /\ Max({HeaderLen, MaxLength}) \in Int
<1>1. Max({HeaderLen, MaxLength}) = IF HeaderLen >= MaxLength THEN HeaderLen ELSE MaxLength
    BY MaxOfTwo, FramingAssumption DEF HeaderLen
<1>2. MaxLength \in Nat
    BY FramingAssumption
<1>3. hdr # None => hdr.len \in Int /\ hdr.len <= MaxLength
    BY DEF TypeOK, Headers
<1>4. QED
    BY <1>1, <1>2, <1>3 DEF Need, HeaderLen

\* A step that does not add to the buffer keeps it bounded.
LEMMA Shrinks ==
    ASSUME TInv, buf' \in Seq(Cells), Len(buf') <= Len(buf)
    PROVE  BufferBounded'
<1>1. Len(buf) \in Nat /\ Len(buf') \in Nat
    BY DEF TInv, TypeOK
<1>2. Max({HeaderLen, MaxLength}) \in Int /\ MaxChunk \in Int
    BY NeedBounded, FramingAssumption DEF TInv
<1>3. Len(buf) < Max({HeaderLen, MaxLength}) + MaxChunk
    BY DEF TInv, BufferBounded
<1> DEFINE M == Max({HeaderLen, MaxLength})
<1> HIDE DEF M
<1>4. Len(buf') < M + MaxChunk
    BY <1>1, <1>2, <1>3 DEF M
<1>5. QED
    BY <1>4 DEF BufferBounded, M

\* Nothing has been read.
LEMMA TypesInit == Init => TInv
<1> SUFFICES ASSUME Init PROVE TInv
    OBVIOUS
<1>1. TypeOK
    <2>1. /\ <<>> \in Seq(Messages) /\ <<>> \in Seq(Cells) /\ Len(<<>>) = 0
        OBVIOUS
    <2>2. MaxSent \in Nat
        BY FramingAssumption
    <2>3. sent \in Seq(Messages) /\ Len(sent) <= MaxSent /\ wire \in Seq(Cells) /\ buf \in Seq(Cells)
        BY <2>1, <2>2 DEF Init
    <2>4. hdr \in Headers \cup {None} /\ (hdr # None => hdr.len \in Cells /\ hdr.len <= MaxLength)
        BY DEF Init
    <2>5. closed \in BOOLEAN /\ astray \in BOOLEAN /\ status \in {"reading", "eof", "broken", "error"}
        BY DEF Init
    <2>6. QED
        BY <2>3, <2>4, <2>5 DEF TypeOK
<1>2. 0 < Max({HeaderLen, MaxLength}) /\ Max({HeaderLen, MaxLength}) \in Int
    BY <1>1, NeedBounded
<1>3. MaxChunk \in Nat \ {0} /\ Len(buf) = 0
    BY FramingAssumption DEF Init
<1>4. QED
    BY <1>1, <1>2, <1>3 DEF TInv, BufferBounded

\* The buffer is the reader's.
LEMMA WriteType ==
    ASSUME TInv, NEW m \in Messages, Write(m)
    PROVE  TInv'
<1>1. Len(sent) \in Nat /\ Len(sent) < MaxSent /\ MaxSent \in Nat /\ sent \in Seq(Messages)
    BY FramingAssumption DEF TInv, TypeOK, Write
<1>2. sent' \in Seq(Messages) /\ Len(sent') = Len(sent) + 1
    BY <1>1 DEF Write
<1>3. wire' \in Seq(Cells)
    BY EncodeType, ConcatProperties DEF Write, TInv, TypeOK
<1>4. BufferBounded'
    BY DEF Write, TInv, BufferBounded
<1>5. QED
    BY <1>1, <1>2, <1>3, <1>4 DEF TInv, TypeOK, Write

\* What is lost is lost from the wire.
LEMMA CloseType ==
    ASSUME TInv, Close
    PROVE  TInv'
<1>1. wire' \in Seq(Cells)
    BY SubSeqProperties DEF Close, TInv, TypeOK
<1>2. QED
    BY <1>1 DEF TInv, TypeOK, BufferBounded, Close

\* A piece is received only while too little is there: the buffer is bounded.
LEMMA ReceiveType ==
    ASSUME TInv, Receive
    PROVE  TInv'
<1>1. PICK n \in 1..Min({MaxChunk, Len(wire)}) :
        /\ buf' = buf \o SubSeq(wire, 1, n)
        /\ wire' = SubSeq(wire, n + 1, Len(wire))
    BY DEF Receive
<1>2. wire \in Seq(Cells) /\ buf \in Seq(Cells) /\ Len(wire) \in Nat /\ Len(buf) \in Nat
      /\ MaxChunk \in Nat
    BY FramingAssumption DEF TInv, TypeOK
<1>3. n \in Nat /\ 1 <= n /\ n <= MaxChunk /\ n <= Len(wire)
    <2>1. Min({MaxChunk, Len(wire)}) = IF MaxChunk <= Len(wire) THEN MaxChunk ELSE Len(wire)
        BY <1>2, MinOfTwo
    <2>2. QED
        BY <1>2, <2>1
<1>4. SubSeq(wire, 1, n) \in Seq(Cells) /\ Len(SubSeq(wire, 1, n)) = n
    BY <1>2, <1>3, SubSeqProperties
<1>5. buf' \in Seq(Cells) /\ Len(buf') = Len(buf) + n
    BY <1>1, <1>2, <1>4, ConcatProperties
<1>6. wire' \in Seq(Cells)
    BY <1>1, <1>2, <1>3, SubSeqProperties
<1>7. BufferBounded'
    <2> DEFINE M == Max({HeaderLen, MaxLength})
    <2>1. Len(buf) < Need /\ Need \in Int /\ Need <= M /\ M \in Int
        BY NeedBounded DEF TInv, Receive
    <2> HIDE DEF M
    <2>2. Len(buf') < M + MaxChunk
        BY ONLY <1>2, <1>3, <1>5, <2>1
    <2>3. QED
        BY <2>2 DEF BufferBounded, M
<1>8. QED
    BY <1>5, <1>6, <1>7 DEF TInv, TypeOK, Receive

\* The buffer stays as it is.
LEMMA EndOfStreamType ==
    ASSUME TInv, EndOfStream
    PROVE  TInv'
BY DEF TInv, TypeOK, BufferBounded, EndOfStream

\* A header is taken off the buffer; one whose length is too long is not
\* kept.
LEMMA HeaderType ==
    ASSUME TInv, Header
    PROVE  TInv'
<1> DEFINE h == Decode(Upto(buf, HeaderLen))
<1>1. buf \in Seq(Cells) /\ Len(buf) >= HeaderLen /\ Len(buf) \in Nat
    BY DEF Header, TInv, TypeOK
<1>2. /\ Upto(buf, HeaderLen) \in Seq(Cells) /\ Len(Upto(buf, HeaderLen)) = HeaderLen
      /\ From(buf, HeaderLen) \in Seq(Cells) /\ Len(From(buf, HeaderLen)) = Len(buf) - HeaderLen
    <2>1. 0 <= 4 /\ 4 <= Len(buf) /\ 4 \in Int
        BY <1>1 DEF HeaderLen
    <2>2. PICK k \in 0..Len(buf) :
            /\ Upto(buf, 4) = SubSeq(buf, 1, k) /\ Upto(buf, 4) \in Seq(Cells)
            /\ Len(Upto(buf, 4)) = k
            /\ From(buf, 4) = SubSeq(buf, k + 1, Len(buf)) /\ From(buf, 4) \in Seq(Cells)
            /\ Len(From(buf, 4)) = Len(buf) - k
            /\ 0 <= 4 /\ 4 <= Len(buf) => k = 4
        BY <1>1, <2>1, Slices
    <2>3. k = 4
        BY <2>1, <2>2
    <2>4. QED
        BY <2>2, <2>3 DEF HeaderLen
<1>3. h \in Headers /\ h.len \in Cells /\ h.len \in Int /\ h.version \in Int
    BY <1>2, DecodeType DEF Headers
<1>4. buf' = From(buf, HeaderLen) /\ UNCHANGED <<sent, wire, closed>>
    BY DEF Header
<1>5. buf' \in Seq(Cells) /\ Len(buf') <= Len(buf)
    BY <1>1, <1>2, <1>4 DEF HeaderLen
<1>6. \/ UNCHANGED <<hdr, status, astray>>
      \/ status' = "error" /\ UNCHANGED <<hdr, astray>>
      \/ /\ ~IsBusy(h) /\ ~IsWrong(h) /\ UNCHANGED status
         /\ hdr' = h /\ astray' = (astray \/ h.len < 0)
    BY DEF Header
<1> HIDE DEF h
<1>7. ~IsBusy(h) /\ ~IsWrong(h) => h.len <= MaxLength
    BY <1>3, FramingAssumption DEF IsWrong
<1>8. /\ hdr' \in Headers \cup {None} /\ (hdr' # None => hdr'.len \in Cells /\ hdr'.len <= MaxLength)
      /\ astray' \in BOOLEAN /\ status' \in {"reading", "eof", "broken", "error"}
    BY <1>3, <1>6, <1>7 DEF TInv, TypeOK
<1>9. TypeOK'
    BY <1>4, <1>5, <1>8 DEF TInv, TypeOK
<1>10. QED
    BY <1>5, <1>9, Shrinks DEF TInv

\* A payload is taken off the buffer, whatever the sign of its length.
LEMMA PayloadType ==
    ASSUME TInv, Payload
    PROVE  TInv'
<1>1. buf \in Seq(Cells) /\ hdr.len \in Int /\ Len(buf) \in Nat
    BY DEF TInv, TypeOK, Payload, Headers
<1>2. buf' = From(buf, hdr.len) /\ hdr' = None /\ UNCHANGED <<sent, wire, closed, status, astray>>
    BY DEF Payload
<1>3. buf' \in Seq(Cells) /\ Len(buf') <= Len(buf)
    BY <1>1, <1>2, FromType
<1>4. TypeOK'
    BY <1>2, <1>3 DEF TInv, TypeOK
<1>5. QED
    BY <1>3, <1>4, Shrinks DEF TInv

\* Every step keeps the types and the bound.
LEMMA TypesNext == TInv /\ [Next]_vars => TInv'
<1> SUFFICES ASSUME TInv, [Next]_vars PROVE TInv'
    OBVIOUS
<1>1. CASE \E m \in Messages : Write(m)
    BY <1>1, WriteType
<1>2. CASE Close
    BY <1>2, CloseType
<1>3. CASE Receive
    BY <1>3, ReceiveType
<1>4. CASE EndOfStream
    BY <1>4, EndOfStreamType
<1>5. CASE Header
    BY <1>5, HeaderType
<1>6. CASE Payload
    BY <1>6, PayloadType
<1>7. CASE Done \/ UNCHANGED vars
    BY <1>7 DEF Done, vars, TInv, TypeOK, BufferBounded
<1>8. QED
    BY <1>1, <1>2, <1>3, <1>4, <1>5, <1>6, <1>7 DEF Next, Read

-----------------------------------------------------------------------------
(* Numbers.                                                                *)

\* Induction in its first-order form: a set of naturals has a least element.
LEMMA Least ==
    ASSUME NEW T, T \subseteq Nat, T # {}
    PROVE  \E m \in T : \A k \in T : m <= k
<1> DEFINE R == OpToRel(<, Nat)
<1>1. \A a, b \in Nat : a < b => <<a, b>> \in R
    BY DEF OpToRel
<1>2. IsWellFoundedOn(R, Nat)
    BY NatLessThanWellFounded
<1> HIDE DEF R
<1>3. PICK m \in T : \A k \in T : <<k, m>> \notin R
    BY <1>2, WFMin
<1>4. \A k \in T : m <= k
    <2>1. \A a, b \in Nat : ~(b < a) => a <= b
        OBVIOUS
    <2>2. QED
        BY <1>1, <1>3, <2>1
<1>5. QED
    BY <1>4

\* A bounded set of naturals has a greatest one, and Max is it.
LEMMA MaxIs ==
    \A n : \A T : n \in Nat /\ T \subseteq 0..n /\ T # {} =>
        Max(T) \in T /\ \A k \in T : k <= Max(T)
<1> SUFFICES ASSUME NEW n \in Nat, NEW T, T \subseteq 0..n, T # {}
             PROVE  Max(T) \in T /\ \A k \in T : k <= Max(T)
    OBVIOUS
<1> DEFINE D == {n - k : k \in T}
<1>1. D \subseteq Nat /\ D # {}
    <2>1. \A k \in T : k \in 0..n
        OBVIOUS
    <2>2. \A k \in 0..n : n - k \in Nat
        OBVIOUS
    <2>3. PICK k \in T : TRUE
        OBVIOUS
    <2>4. n - k \in D
        BY <2>3
    <2>5. QED
        BY <2>1, <2>2, <2>4
<1>2. \A k \in T : k \in Int /\ n - k \in D
    OBVIOUS
<1>3. \A d \in D : \E k \in T : d = n - k
    OBVIOUS
<1> HIDE DEF D
<1>4. PICK d \in D : \A e \in D : d <= e
    BY <1>1, Least
<1>5. PICK m \in T : d = n - m
    BY <1>3
<1>6. \A k \in T : m >= k
    <2> SUFFICES ASSUME NEW k \in T PROVE m >= k
        OBVIOUS
    <2>1. n - m <= n - k /\ m \in Int /\ k \in Int
        BY <1>2, <1>4, <1>5
    <2>2. QED
        BY <2>1
<1>7. Max(T) \in T /\ \A k \in T : Max(T) >= k
    BY <1>6 DEF Max
<1>8. \A k \in T : k <= Max(T)
    <2> SUFFICES ASSUME NEW k \in T PROVE k <= Max(T)
        OBVIOUS
    <2>1. Max(T) \in Int /\ k \in Int /\ Max(T) >= k
        BY <1>2, <1>7
    <2>2. QED
        BY <2>1
<1>9. QED
    BY <1>7, <1>8

-----------------------------------------------------------------------------
(* The stream.                                                             *)

\* w is all that was written of the messages s; message n begins behind p[n - 1], and the
\* reader needs u[n] cells for the first n messages.
IsStream(s, w, p, u) ==
    /\ w \in Seq(Cells)
    /\ p \in [0..Len(s) -> Nat] /\ u \in [0..Len(s) -> Nat]
    /\ p[0] = 0 /\ u[0] = 0 /\ Len(w) = p[Len(s)]
    /\ \A n \in 1..Len(s) : p[n] = p[n - 1] + Len(Encode(s[n]))
    /\ \A n \in 1..Len(s) : u[n] = u[n - 1] + Size[s[n]]
    /\ \A n \in 1..Len(s) : \A j \in 1..Len(Encode(s[n])) :
         w[p[n - 1] + j] = Encode(s[n])[j]
    /\ \A i, j \in 0..Len(s) : i <= j => p[i] <= p[j] /\ u[i] <= u[j]

HeaderRead == IF hdr = None THEN 0 ELSE HeaderLen

\* What __anext__ may have returned.
Answers == Seq(Seq(Cells) \cup {Busy})

\* The buffer and the wire hold the stream from where the reader is, all of
\* it until the connection ends; a header it has just read is that of the
\* next message, which can be read.
IsRead(s, w, p, u) ==
    /\ sent = s /\ out \in Answers /\ Len(out) \in 0..Len(s)
    /\ hdr # None => /\ Len(out) < Len(s)
                     /\ \E m \in Sane \ Wrong : /\ m = s[Len(out) + 1]
                                               /\ ~IsBusy(Fields(m)) /\ hdr = Fields(m)
    /\ p[Len(out)] + Pending <= p[Len(s)]
    /\ \A i \in 1..Len(buf) : buf[i] = w[p[Len(out)] + HeaderRead + i]
    /\ \A i \in 1..Len(wire) : wire[i] = w[p[Len(out)] + HeaderRead + Len(buf) + i]
    /\ ~closed => /\ p[Len(out)] + Pending = p[Len(s)]
                  /\ u[Len(s)] - u[Len(out)] <= Pending

\* As long as lengths mean something, the reader is in step with the peer.
StreamInv ==
    ~astray /\ status # "error" =>
        \E s, w, p, u : IsStream(s, w, p, u) /\ IsRead(s, w, p, u)

\* What is still to be read, in numbers.
LEMMA PendingType ==
    ASSUME TypeOK
    PROVE  /\ Pending \in Nat /\ HeaderRead \in Nat /\ Len(buf) \in Nat /\ Len(wire) \in Nat
           /\ Pending = HeaderRead + Len(buf) + Len(wire) /\ Len(sent) \in Nat
<1>1. Len(buf) \in Nat /\ Len(wire) \in Nat /\ Len(sent) \in Nat
    BY DEF TypeOK
<1>2. QED
    BY <1>1 DEF Pending, HeaderRead, HeaderLen

\* The same of the next state.
LEMMA PendingTypeNext ==
    TypeOK' => Pending' = HeaderRead' + Len(buf') + Len(wire')
<1>1. TypeOK => Pending = HeaderRead + Len(buf) + Len(wire)
    BY PendingType
<1>2. (TypeOK => Pending = HeaderRead + Len(buf) + Len(wire))'
    BY <1>1, PTL
<1>3. QED
    BY <1>2

\* What the reader needs of a message: at least the header.
LEMMA SizeIs ==
    ASSUME NEW m \in Messages
    PROVE  /\ Size[m] \in Nat /\ Size[m] >= 4
           /\ m \in Sane \ Wrong => Size[m] = Len(Encode(m))
           /\ m \notin Sane \ Wrong => Size[m] = 4
<1>1. Len(Encode(m)) \in Nat /\ Len(Encode(m)) >= 4
    BY EncodeLong
<1>2. QED
    BY <1>1 DEF Size, HeaderLen

\* The fields of a header are those of its first four cells.
LEMMA FieldsAre ==
    ASSUME NEW m \in Messages
    PROVE  /\ SubSeq(Encode(m), 1, HeaderLen) = <<m.version, m.len, m.dlen, m.offset>>
           /\ Fields(m) \in Headers /\ Fields(m).len = m.len
           /\ IsBusy(Fields(m)) => m.len = -1 /\ m.data = None
           /\ m.len >= 0 => m.data \in Seq(Cells) /\ m.len = Len(m.data)
           /\ m.data = None \/ m.data \in Seq(Int)
<1>1. m.data = None \/ m.data \in Seq(Int)
    BY FramingAssumption
<1>2. m.len = IF m.data = None THEN -1 ELSE Len(m.data)
    BY FramingAssumption
<1>3. Encode(m) \in Seq(Cells) /\ Len(Encode(m)) \in Nat /\ Len(Encode(m)) >= 4
    BY <1>1, EncodeType
<1> DEFINE h == SubSeq(Encode(m), 1, HeaderLen)
<1>4. h \in Seq(Cells) /\ Len(h) = 4 /\ \A i \in 1..4 : h[i] = Encode(m)[i]
    BY <1>3, SubSeqProperties DEF HeaderLen
<1>5. h[1] = m.version /\ h[2] = m.len /\ h[3] = m.dlen /\ h[4] = m.offset
    BY <1>4, EncodeType
<1> HIDE DEF h
<1>6. h = <<m.version, m.len, m.dlen, m.offset>>
    BY <1>4, <1>5
<1>7. Decode(h) \in Headers /\ Decode(h).len = m.len
    <2>1. Decode(h) \in Headers
        BY <1>4, DecodeType DEF HeaderLen
    <2>2. QED
        BY <1>5, <2>1 DEF Decode
<1>8. IsBusy(Decode(h)) => m.len = -1
    BY <1>7 DEF IsBusy
<1>9. m.len = -1 => m.data = None
    <2>1. m.data \in Seq(Int) => Len(m.data) \in Nat
        OBVIOUS
    <2>2. QED
        BY <1>1, <1>2, <2>1
<1>10. m.len >= 0 => m.data \in Seq(Cells) /\ m.len = Len(m.data)
    <2> SUFFICES ASSUME m.len >= 0 PROVE m.data \in Seq(Cells) /\ m.len = Len(m.data)
        OBVIOUS
    <2>1. m.data # None /\ m.data \in Seq(Int) /\ m.len = Len(m.data)
        BY <1>1, <1>2
    <2>2. Range(m.data) \subseteq Cells
        BY <2>1 DEF Cells
    <2>3. \A i \in 1..Len(m.data) : m.data[i] \in Cells
        BY <2>1, <2>2 DEF Range
    <2>4. QED
        BY <2>1, <2>3
<1>11. QED
    BY <1>1, <1>6, <1>7, <1>8, <1>9, <1>10 DEF Fields, h

-----------------------------------------------------------------------------
(* The messages that are complete.                                         *)

\* Ends is where the messages end, by the least number for which it is not.
LEMMA EndsAre ==
    ASSUME TypeOK, NEW s, NEW w, NEW p, NEW u, IsStream(s, w, p, u), sent = s
    PROVE  \A i \in 0..Len(sent) : Ends[i] = u[i]
<1>0. s = sent /\ IsStream(sent, w, p, u)
    BY DEF IsRead
<1> USE <1>0
<1> DEFINE N == Len(sent)
<1>1. /\ u \in [0..N -> Nat] /\ u[0] = 0
      /\ \A i \in 1..N : u[i] = u[i - 1] + Size[sent[i]]
    BY DEF IsStream
<1>2. N \in Nat
    BY DEF TypeOK
<1>3. u = [i \in 0..N |-> IF i = 0 THEN 0 ELSE u[i - 1] + Size[sent[i]]]
    <2>1. \A i \in 0..N : u[i] = IF i = 0 THEN 0 ELSE u[i - 1] + Size[sent[i]]
        <3>1. \A i \in 0..N : i = 0 \/ i \in 1..N
            BY <1>2
        <3>2. QED
            BY <1>1, <3>1
    <2>2. u = [i \in 0..N |-> u[i]]
        BY <1>1
    <2>3. QED
        BY <2>1, <2>2
<1>4. Ends = [i \in 0..N |-> IF i = 0 THEN 0 ELSE Ends[i - 1] + Size[sent[i]]]
    BY <1>3 DEF Ends
<1> HIDE DEF N
<1> DEFINE T == {i \in 0..N : Ends[i] # u[i]}
<1>5. SUFFICES ASSUME T # {} PROVE FALSE
    BY DEF N
<1>6. T \subseteq Nat
    OBVIOUS
<1>7. \A i \in T : i \in 0..N /\ Ends[i] # u[i]
    OBVIOUS
<1>8. \A i \in 0..N : i \notin T => Ends[i] = u[i]
    OBVIOUS
<1> HIDE DEF T
<1>9. PICK m \in T : \A k \in T : m <= k
    BY <1>5, <1>6, Least
<1>10. Ends[m] = IF m = 0 THEN 0 ELSE Ends[m - 1] + Size[sent[m]]
    BY <1>4, <1>7
<1>11. CASE m = 0
    BY <1>1, <1>7, <1>10, <1>11
<1>12. CASE m # 0
    <2>1. m - 1 \in 0..N /\ m \in 1..N /\ ~(m <= m - 1)
        BY <1>2, <1>7, <1>12
    <2>2. Ends[m - 1] = u[m - 1]
        BY <1>8, <1>9, <2>1
    <2>3. QED
        BY <1>1, <1>7, <1>10, <1>12, <2>1, <2>2
<1>13. QED
    BY <1>11, <1>12

\* l is the last of the messages that can be read before more is received.
IsLast(l, u) ==
    /\ l \in Len(out)..Len(sent)
    /\ u[l] - u[Len(out)] <= Pending
    /\ \A k \in Len(out)..Len(sent) : u[k] - u[Len(out)] <= Pending => k <= l

\* The complete messages reach to the last one that can be read.
LEMMA CompleteIs ==
    \A s, w, p, u : TypeOK /\ IsStream(s, w, p, u) /\ IsRead(s, w, p, u) =>
        \E l : IsLast(l, u) /\ Complete = SubSeq(sent, Len(out) + 1, l)
<1> SUFFICES ASSUME TypeOK, NEW s, NEW w, NEW p, NEW u, IsStream(s, w, p, u), IsRead(s, w, p, u)
             PROVE  \E l : IsLast(l, u) /\ Complete = SubSeq(sent, Len(out) + 1, l)
    OBVIOUS
<1>0. s = sent /\ IsStream(sent, w, p, u)
    BY DEF IsRead
<1> USE <1>0
<1> DEFINE T == {n \in Len(out)..Len(sent) : Ends[n] - Ends[Len(out)] <= Pending}
<1>1. Complete = SubSeq(sent, Len(out) + 1, Max(T))
    BY DEF Complete
<1>2. Len(out) \in 0..Len(sent) /\ Len(sent) \in Nat /\ Pending \in Nat
    BY PendingType DEF IsRead
<1>3. \A n \in Len(out)..Len(sent) : n \in 0..Len(sent)
    BY <1>2
<1>4. \A n \in 0..Len(sent) : Ends[n] = u[n] /\ u[n] \in Nat
    <2>1. \A n \in 0..Len(sent) : Ends[n] = u[n]
        BY EndsAre
    <2>2. QED
        BY <2>1 DEF IsStream
<1>5. T = {n \in Len(out)..Len(sent) : u[n] - u[Len(out)] <= Pending}
    BY <1>2, <1>3, <1>4
<1>6. T \subseteq 0..Len(sent)
    BY <1>3
<1>7. Len(out) \in T
    <2>1. u[Len(out)] - u[Len(out)] = 0 /\ Len(out) \in Len(out)..Len(sent)
        BY <1>2, <1>4
    <2>2. QED
        BY <1>2, <1>5, <2>1
<1>8. \A n : n \in T <=> n \in Len(out)..Len(sent) /\ u[n] - u[Len(out)] <= Pending
    BY <1>5
<1> HIDE DEF T
<1>9. Max(T) \in T /\ \A k \in T : k <= Max(T)
    BY <1>2, <1>6, <1>7, MaxIs
<1>10. IsLast(Max(T), u)
    BY <1>8, <1>9 DEF IsLast
<1>11. QED
    BY <1>1, <1>10

\* The same of the next state.
LEMMA CompleteIsNext ==
    (\A s, w, p, u : TypeOK /\ IsStream(s, w, p, u) /\ IsRead(s, w, p, u) =>
        \E l : IsLast(l, u) /\ Complete = SubSeq(sent, Len(out) + 1, l))'
BY CompleteIs, PTL

-----------------------------------------------------------------------------
(* The message the reader is at.                                           *)

\* The slices at a place inside the sequence.
LEMMA SliceIs ==
    \A s \in Seq(Cells), n \in Nat : n <= Len(s) =>
        Upto(s, n) = SubSeq(s, 1, n) /\ From(s, n) = SubSeq(s, n + 1, Len(s))
<1> SUFFICES ASSUME NEW s \in Seq(Cells), NEW n \in Nat, n <= Len(s)
             PROVE  Upto(s, n) = SubSeq(s, 1, n) /\ From(s, n) = SubSeq(s, n + 1, Len(s))
    OBVIOUS
<1>1. PICK k \in 0..Len(s) :
        /\ Upto(s, n) = SubSeq(s, 1, k) /\ Upto(s, n) \in Seq(Cells)
        /\ Len(Upto(s, n)) = k
        /\ From(s, n) = SubSeq(s, k + 1, Len(s)) /\ From(s, n) \in Seq(Cells)
        /\ Len(From(s, n)) = Len(s) - k
        /\ 0 <= n /\ n <= Len(s) => k = n
    <2>1. n \in Int
        OBVIOUS
    <2>2. QED
        BY <2>1, Slices
<1>2. k = n
    BY <1>1
<1>3. QED
    BY <1>1, <1>2

\* A header in the buffer is that of the next message.
LEMMA HeaderIsNext ==
    ASSUME TypeOK, NEW s, NEW w, NEW p, NEW u, IsStream(s, w, p, u), IsRead(s, w, p, u),
           hdr = None, Len(buf) >= HeaderLen
    PROVE  /\ Len(out) < Len(sent) /\ sent[Len(out) + 1] \in Messages
           /\ Len(out) + 1 \in 1..Len(sent)
           /\ Decode(Upto(buf, HeaderLen)) = Fields(sent[Len(out) + 1])
<1>0. s = sent /\ IsStream(sent, w, p, u)
    BY DEF IsRead
<1> USE <1>0
<1> DEFINE o == Len(out)
           m == sent[o + 1]
<1>1. o \in 0..Len(sent) /\ Len(sent) \in Nat /\ Len(buf) \in Nat /\ Len(wire) \in Nat
    BY PendingType DEF IsRead
<1>2. o < Len(sent)
    <2>1. Pending = Len(buf) + Len(wire)
        BY <1>1 DEF Pending
    <2>2. CASE o = Len(sent)
        <3>1. p[o] \in Nat /\ p[o] + Pending <= p[o]
            BY <1>1, <2>2 DEF IsStream, IsRead
        <3>2. QED
            BY <1>1, <2>1, <3>1 DEF HeaderLen
    <2>3. QED
        BY <1>1, <2>2
<1>3. o + 1 \in 1..Len(sent) /\ m \in Messages /\ (o + 1) - 1 = o
    BY <1>1, <1>2 DEF TypeOK
<1>4. buf \in Seq(Cells) /\ HeaderRead = 0 /\ p[o] \in Nat
    BY <1>1 DEF TypeOK, HeaderRead, IsStream
<1>5. Len(Encode(m)) \in Nat /\ Len(Encode(m)) >= 4 /\ Encode(m) \in Seq(Cells)
    BY <1>3, EncodeLong
<1>6. \A j \in 1..Len(Encode(m)) : w[p[o] + j] = Encode(m)[j]
    BY <1>3 DEF IsStream
<1>7. \A i \in 1..4 : buf[i] = Encode(m)[i]
    <2>1. \A i \in 1..Len(buf) : buf[i] = w[p[o] + 0 + i]
        BY <1>4 DEF IsRead
    <2>2. \A i \in 1..4 : i \in 1..Len(buf) /\ i \in 1..Len(Encode(m)) /\ p[o] + 0 + i = p[o] + i
        BY <1>1, <1>4, <1>5 DEF HeaderLen
    <2>3. QED
        BY <1>6, <2>1, <2>2
<1>8. Upto(buf, HeaderLen) = SubSeq(buf, 1, 4)
    BY <1>1, <1>4, SliceIs DEF HeaderLen
<1>9. SubSeq(buf, 1, 4) = SubSeq(Encode(m), 1, 4)
    <2>1. Len(SubSeq(buf, 1, 4)) = 4 /\ SubSeq(buf, 1, 4) \in Seq(Cells)
          /\ \A i \in 1..4 : SubSeq(buf, 1, 4)[i] = buf[i]
        BY <1>1, <1>4, SubSeqProperties DEF HeaderLen
    <2>2. Len(SubSeq(Encode(m), 1, 4)) = 4 /\ SubSeq(Encode(m), 1, 4) \in Seq(Cells)
          /\ \A i \in 1..4 : SubSeq(Encode(m), 1, 4)[i] = Encode(m)[i]
        BY <1>5, SubSeqProperties
    <2>3. QED
        BY <1>7, <2>1, <2>2, SeqEqual
<1>10. QED
    BY <1>2, <1>3, <1>8, <1>9 DEF Fields, HeaderLen

\* The payload behind a header is that of the message the header announced.
LEMMA PayloadIsNext ==
    ASSUME TypeOK, NEW s, NEW w, NEW p, NEW u, IsStream(s, w, p, u), IsRead(s, w, p, u),
           hdr # None, Len(buf) >= hdr.len
    PROVE  /\ sent[Len(out) + 1] \in Messages /\ Len(out) + 1 \in 1..Len(sent)
           /\ hdr.len \in Nat
           /\ Upto(buf, hdr.len) = sent[Len(out) + 1].data
           /\ From(buf, hdr.len) = SubSeq(buf, hdr.len + 1, Len(buf))
           /\ Len(Encode(sent[Len(out) + 1])) = 4 + hdr.len
<1>0. s = sent /\ IsStream(sent, w, p, u)
    BY DEF IsRead
<1> USE <1>0
<1> DEFINE o == Len(out)
           m == sent[o + 1]
           n == hdr.len
<1>1. /\ o \in 0..Len(sent) /\ Len(sent) \in Nat /\ Len(buf) \in Nat /\ buf \in Seq(Cells)
      /\ o < Len(sent)
    BY PendingType DEF IsRead, TypeOK
<1>2. o + 1 \in 1..Len(sent) /\ m \in Messages /\ (o + 1) - 1 = o
    BY <1>1 DEF TypeOK
<1>3. m \in Sane /\ m \notin Wrong /\ ~IsBusy(Fields(m)) /\ hdr = Fields(m)
    BY DEF IsRead
<1>4. m.len >= 0 /\ n = m.len
    BY <1>2, <1>3, FieldsAre DEF Sane
<1>5. m.data \in Seq(Cells) /\ n = Len(m.data) /\ m.data # None
    <2>1. m.len = IF m.data = None THEN -1 ELSE Len(m.data)
        BY <1>2, FramingAssumption
    <2>2. QED
        BY <1>2, <1>4, <2>1, FieldsAre
<1>6. n \in Nat
    BY <1>5
<1>7. Len(Encode(m)) = 4 + n
    BY <1>2, <1>5, EncodeType
<1>8. Encode(m) = <<m.version, m.len, m.dlen, m.offset>> \o m.data
    BY <1>5 DEF Encode
<1>9. \A i \in 1..n : Encode(m)[4 + i] = m.data[i]
    <2> DEFINE head == <<m.version, m.len, m.dlen, m.offset>>
    <2>1. head \in Seq(Int) /\ Len(head) = 4
        BY <1>2, FramingAssumption
    <2>2. m.data \in Seq(Int)
        BY <1>2, <1>5, FieldsAre
    <2> HIDE DEF head
    <2>3. \A i \in 1..(Len(head) + Len(m.data)) :
            (head \o m.data)[i] = IF i <= Len(head) THEN head[i] ELSE m.data[i - Len(head)]
        BY <2>1, <2>2, ConcatProperties
    <2>4. \A i \in 1..n : 4 + i \in 1..(Len(head) + Len(m.data)) /\ ~(4 + i <= Len(head))
                          /\ (4 + i) - Len(head) = i
        BY <1>5, <1>6, <2>1
    <2>5. QED
        BY <1>8, <2>3, <2>4 DEF head
<1>10. \A i \in 1..n : buf[i] = m.data[i]
    <2>1. p[o] \in Nat /\ HeaderRead = 4
        BY <1>1 DEF IsStream, HeaderRead, HeaderLen
    <2>2. \A i \in 1..Len(buf) : buf[i] = w[p[o] + 4 + i]
        BY <2>1 DEF IsRead
    <2>3. \A j \in 1..Len(Encode(m)) : w[p[o] + j] = Encode(m)[j]
        BY <1>2 DEF IsStream
    <2>4. \A i \in 1..n : i \in 1..Len(buf) /\ 4 + i \in 1..Len(Encode(m))
                          /\ p[o] + 4 + i = p[o] + (4 + i)
        <3>1. \A a, i \in Int : a + 4 + i = a + (4 + i)
            OBVIOUS
        <3>2. \A i \in 1..n : p[o] + 4 + i = p[o] + (4 + i)
            BY <1>6, <2>1, <3>1
        <3>3. \A i \in 1..n : i \in 1..Len(buf)
            BY <1>1, <1>6
        <3>4. \A i \in 1..n : 4 + i \in 1..Len(Encode(m))
            BY <1>6, <1>7
        <3>5. QED
            BY <3>2, <3>3, <3>4
    <2>5. QED
        BY <1>9, <2>2, <2>3, <2>4
<1>11. Upto(buf, n) = SubSeq(buf, 1, n) /\ From(buf, n) = SubSeq(buf, n + 1, Len(buf))
    BY <1>1, <1>6, SliceIs
<1>12. SubSeq(buf, 1, n) = m.data
    <2>1. SubSeq(buf, 1, n) \in Seq(Cells) /\ Len(SubSeq(buf, 1, n)) = n
          /\ \A i \in 1..n : SubSeq(buf, 1, n)[i] = buf[i]
        BY <1>1, <1>6, SubSeqProperties
    <2>2. QED
        BY <1>5, <1>10, <2>1, SeqEqual
<1>13. QED
    BY <1>2, <1>6, <1>7, <1>11, <1>12

-----------------------------------------------------------------------------
(* The stream and the channel.                                             *)

\* A message more, at the end of the stream.
LEMMA StreamGrows ==
    ASSUME NEW s \in Seq(Messages), NEW m \in Messages, NEW w, NEW p, NEW u,
           IsStream(s, w, p, u)
    PROVE  \E v, q, r :
             /\ IsStream(Append(s, m), v, q, r)
             /\ \A i \in 1..Len(w) : v[i] = w[i]
             /\ \A j \in 1..Len(Encode(m)) : v[Len(w) + j] = Encode(m)[j]
             /\ \A i \in 0..Len(s) : q[i] = p[i] /\ r[i] = u[i]
             /\ q[Len(s) + 1] = p[Len(s)] + Len(Encode(m))
             /\ r[Len(s) + 1] = u[Len(s)] + Size[m]
<1> DEFINE N == Len(s)
           e == Encode(m)
           t == Append(s, m)
           v == w \o e
           q == [i \in 0..(N + 1) |-> IF i <= N THEN p[i] ELSE p[N] + Len(e)]
           r == [i \in 0..(N + 1) |-> IF i <= N THEN u[i] ELSE u[N] + Size[m]]
<1>1. /\ w \in Seq(Cells)
      /\ p \in [0..N -> Nat] /\ u \in [0..N -> Nat]
      /\ p[0] = 0 /\ u[0] = 0 /\ Len(w) = p[N]
      /\ \A n \in 1..N : p[n] = p[n - 1] + Len(Encode(s[n]))
      /\ \A n \in 1..N : u[n] = u[n - 1] + Size[s[n]]
      /\ \A n \in 1..N : \A j \in 1..Len(Encode(s[n])) : w[p[n - 1] + j] = Encode(s[n])[j]
      /\ \A i, j \in 0..N : i <= j => p[i] <= p[j] /\ u[i] <= u[j]
    BY DEF IsStream
<1>2. N \in Nat /\ Len(w) \in Nat
    BY <1>1
<1>3. e \in Seq(Cells) /\ Len(e) \in Nat
    BY EncodeType
<1>4. Size[m] \in Nat
    BY SizeIs
<1>5. t \in Seq(Messages) /\ Len(t) = N + 1 /\ t[N + 1] = m /\ \A i \in 1..N : t[i] = s[i]
    BY AppendProperties
<1>6. v \in Seq(Cells) /\ Len(v) = Len(w) + Len(e)
    BY <1>1, <1>3, ConcatProperties
<1>7. \A i \in 1..(Len(w) + Len(e)) : v[i] = IF i <= Len(w) THEN w[i] ELSE e[i - Len(w)]
    BY <1>1, <1>3, ConcatProperties
<1>8. \A i \in 1..Len(w) : v[i] = w[i]
    BY <1>2, <1>3, <1>7
<1>9. \A j \in 1..Len(e) : v[Len(w) + j] = e[j]
    <2>1. \A j \in 1..Len(e) : /\ Len(w) + j \in 1..(Len(w) + Len(e))
                               /\ ~(Len(w) + j <= Len(w)) /\ (Len(w) + j) - Len(w) = j
        BY <1>2, <1>3
    <2>2. QED
        BY <1>7, <2>1
<1>10. \A i \in 0..N : i \in 0..(N + 1) /\ i <= N /\ p[i] \in Nat /\ u[i] \in Nat
    <2>1. \A i \in 0..N : i \in 0..(N + 1) /\ i <= N
        BY <1>2
    <2>2. \A i \in 0..N : p[i] \in Nat /\ u[i] \in Nat
        BY <1>1
    <2>3. QED
        BY <2>1, <2>2
<1> HIDE DEF e, t, v
<1>11. N + 1 \in 0..(N + 1) /\ ~(N + 1 <= N) /\ N \in 0..N /\ 0 \in 0..N
    BY <1>2
<1>12. /\ \A i \in 0..N : q[i] = p[i] /\ r[i] = u[i]
       /\ q[N + 1] = p[N] + Len(e) /\ r[N + 1] = u[N] + Size[m]
    BY <1>10, <1>11
<1>13. q \in [0..(N + 1) -> Nat] /\ r \in [0..(N + 1) -> Nat]
    <2>1. \A i \in 0..(N + 1) : (i <= N => i \in 0..N)
        BY <1>2
    <2>2. p[N] + Len(e) \in Nat /\ u[N] + Size[m] \in Nat
        BY <1>3, <1>4, <1>10, <1>11
    <2>3. QED
        BY <1>10, <2>1, <2>2
<1> HIDE DEF q, r
<1>14. q[0] = 0 /\ r[0] = 0
    BY <1>1, <1>11, <1>12
<1>15. Len(v) = q[N + 1]
    BY <1>1, <1>6, <1>12
<1>16. \A n \in 1..(N + 1) : n = N + 1 \/ (n \in 1..N /\ n \in 0..N /\ n - 1 \in 0..N)
    BY <1>2
<1>17. (N + 1) - 1 = N /\ N \in 0..N
    BY <1>2
<1>18. \A n \in 1..(N + 1) : q[n] = q[n - 1] + Len(Encode(t[n]))
    <2> SUFFICES ASSUME NEW n \in 1..(N + 1) PROVE q[n] = q[n - 1] + Len(Encode(t[n]))
        OBVIOUS
    <2>1. CASE n = N + 1
        BY <1>5, <1>12, <1>17, <2>1 DEF e
    <2>2. CASE n \in 1..N /\ n \in 0..N /\ n - 1 \in 0..N
        BY <1>1, <1>5, <1>12, <2>2
    <2>3. QED
        BY <1>16, <2>1, <2>2
<1>19. \A n \in 1..(N + 1) : r[n] = r[n - 1] + Size[t[n]]
    <2> SUFFICES ASSUME NEW n \in 1..(N + 1) PROVE r[n] = r[n - 1] + Size[t[n]]
        OBVIOUS
    <2>1. CASE n = N + 1
        BY <1>5, <1>12, <1>17, <2>1
    <2>2. CASE n \in 1..N /\ n \in 0..N /\ n - 1 \in 0..N
        BY <1>1, <1>5, <1>12, <2>2
    <2>3. QED
        BY <1>16, <2>1, <2>2
<1>20. \A i, j \in 0..(N + 1) : i <= j => q[i] <= q[j] /\ r[i] <= r[j]
    <2> SUFFICES ASSUME NEW i \in 0..(N + 1), NEW j \in 0..(N + 1), i <= j
                 PROVE  q[i] <= q[j] /\ r[i] <= r[j]
        OBVIOUS
    <2>1. CASE i \in 0..N /\ j \in 0..N
        BY <1>1, <1>12, <2>1
    <2>2. CASE i \in 0..N /\ j = N + 1
        <3>1. u[i] <= u[N] /\ p[i] <= p[N]
            BY <1>1, <1>2, <2>2
        <3>2. u[i] \in Nat /\ u[N] \in Nat /\ p[i] \in Nat /\ p[N] \in Nat
            BY <1>10, <1>11, <2>2
        <3>3. u[i] <= u[N] + Size[m] /\ p[i] <= p[N] + Len(e)
            <4>1. \A a, c, d \in Nat : a <= c => a <= c + d
                OBVIOUS
            <4>2. QED
                BY <1>3, <1>4, <3>1, <3>2, <4>1
        <3>4. QED
            BY <1>12, <2>2, <3>3
    <2>3. CASE i = N + 1 /\ j = N + 1
        BY <1>11, <1>13, <2>3
    <2>4. QED
        BY <1>2, <2>1, <2>2, <2>3
<1>21. \A n \in 1..(N + 1) : \A j \in 1..Len(Encode(t[n])) : v[q[n - 1] + j] = Encode(t[n])[j]
    <2> SUFFICES ASSUME NEW n \in 1..(N + 1), NEW j \in 1..Len(Encode(t[n]))
                 PROVE  v[q[n - 1] + j] = Encode(t[n])[j]
        OBVIOUS
    <2>1. CASE n = N + 1
        <3>1. q[n - 1] = Len(w) /\ t[n] = m
            BY <1>1, <1>5, <1>12, <1>17, <2>1
        <3>2. QED
            BY <1>9, <3>1 DEF e
    <2>2. CASE n \in 1..N /\ n \in 0..N /\ n - 1 \in 0..N
        <3>1. q[n - 1] = p[n - 1] /\ t[n] = s[n]
            BY <1>5, <1>12, <2>2
        <3>2. w[p[n - 1] + j] = Encode(s[n])[j]
            BY <1>1, <2>2, <3>1
        <3>3. p[n - 1] + j \in 1..Len(w)
            <4>1. p[n] <= p[N]
                <5>1. n <= N /\ N \in 0..N
                    BY <1>2, <2>2
                <5>2. QED
                    BY <1>1, <2>2, <5>1
            <4>2. p[n] = p[n - 1] + Len(Encode(s[n]))
                BY <1>1, <2>2
            <4>3. Len(Encode(s[n])) \in Nat /\ p[n - 1] \in Nat /\ p[N] \in Nat
                <5>1. s[n] \in Messages
                    BY <2>2
                <5>2. QED
                    BY <1>10, <1>11, <2>2, <5>1, EncodeType
            <4>4. j \in 1..Len(Encode(s[n]))
                BY <3>1
            <4>5. QED
                BY <1>1, <4>1, <4>2, <4>3, <4>4
        <3>4. QED
            BY <1>8, <3>1, <3>2, <3>3
    <2>3. QED
        BY <1>16, <2>1, <2>2
<1>22. IsStream(t, v, q, r)
    BY <1>5, <1>6, <1>13, <1>14, <1>15, <1>18, <1>19, <1>20, <1>21 DEF IsStream
<1>23. QED
    BY <1>8, <1>9, <1>12, <1>22 DEF t, e

-----------------------------------------------------------------------------
(* Parts of sequences.                                                     *)

\* The first element of a part of a sequence, and the rest of the part.
LEMMA SubFirst ==
    ASSUME NEW T, NEW s \in Seq(T), NEW a \in 1..Len(s), NEW b \in a..Len(s)
    PROVE  /\ SubSeq(s, a, b) # <<>> /\ Head(SubSeq(s, a, b)) = s[a]
           /\ Tail(SubSeq(s, a, b)) = SubSeq(s, a + 1, b)
<1> DEFINE t == SubSeq(s, a, b)
<1>1. Len(s) \in Nat /\ a \in Nat /\ b \in Nat /\ 1 <= a /\ a <= b /\ b <= Len(s)
    OBVIOUS
<1>2. t \in Seq(T) /\ Len(t) = b - a + 1 /\ \A i \in 1..(b - a + 1) : t[i] = s[a + i - 1]
    BY <1>1, SubSeqProperties
<1>3. SubSeq(s, a + 1, b) \in Seq(T) /\ Len(SubSeq(s, a + 1, b)) = b - a
      /\ \A i \in 1..(b - a) : SubSeq(s, a + 1, b)[i] = s[(a + 1) + i - 1]
    BY <1>1, SubSeqProperties
<1> HIDE DEF t
<1>4. t # <<>>
    BY <1>1, <1>2
<1>5. Head(t) = s[a]
    <2>1. 1 \in 1..(b - a + 1) /\ a + 1 - 1 = a
        BY <1>1
    <2>2. t[1] = s[a + 1 - 1]
        BY <1>2, <2>1
    <2>3. Head(t) = t[1]
        BY <1>2, <1>4
    <2>4. QED
        BY <2>1, <2>2, <2>3
<1>6. Tail(t) = SubSeq(s, a + 1, b)
    <2>1. Tail(t) \in Seq(T) /\ Len(Tail(t)) = b - a
        BY <1>1, <1>2, <1>4
    <2>2. \A i \in 1..(b - a) : Tail(t)[i] = t[i + 1]
        BY <1>1, <1>2, <1>4
    <2>3. \A i \in 1..(b - a) : t[i + 1] = s[(a + 1) + i - 1]
        <3>1. \A i \in 1..(b - a) : i + 1 \in 1..(b - a + 1) /\ a + (i + 1) - 1 = (a + 1) + i - 1
            BY <1>1
        <3>2. QED
            BY <1>2, <3>1
    <2>4. QED
        BY <1>3, <2>1, <2>2, <2>3, SeqEqual
<1>7. QED
    BY <1>4, <1>5, <1>6 DEF t

\* A part that reaches to the end grows with the sequence.
LEMMA SubAppend ==
    ASSUME NEW T, NEW s \in Seq(T), NEW m \in T, NEW a \in 1..(Len(s) + 1)
    PROVE  SubSeq(Append(s, m), a, Len(s) + 1) = Append(SubSeq(s, a, Len(s)), m)
<1> DEFINE n == Len(s)
           t == Append(s, m)
<1>1. n \in Nat /\ a \in Nat /\ 1 <= a /\ a <= n + 1
    OBVIOUS
<1>2. t \in Seq(T) /\ Len(t) = n + 1 /\ t[n + 1] = m /\ \A i \in 1..n : t[i] = s[i]
    BY AppendProperties
<1>3. SubSeq(s, a, n) \in Seq(T) /\ Len(SubSeq(s, a, n)) = n - a + 1
      /\ \A i \in 1..(n - a + 1) : SubSeq(s, a, n)[i] = s[a + i - 1]
    BY <1>1, SubSeqProperties
<1>4. SubSeq(t, a, n + 1) \in Seq(T) /\ Len(SubSeq(t, a, n + 1)) = n - a + 2
      /\ \A i \in 1..(n - a + 2) : SubSeq(t, a, n + 1)[i] = t[a + i - 1]
    <2> HIDE DEF t, n
    <2>1. SubSeq(t, a, n + 1) \in Seq(T) /\ Len(SubSeq(t, a, n + 1)) = (n + 1) - a + 1
          /\ \A i \in 1..((n + 1) - a + 1) : SubSeq(t, a, n + 1)[i] = t[a + i - 1]
        BY <1>1, <1>2, SubSeqProperties
    <2>2. (n + 1) - a + 1 = n - a + 2
        BY <1>1
    <2>3. QED
        BY <2>1, <2>2
<1> DEFINE x == SubSeq(s, a, n)
           y == SubSeq(t, a, n + 1)
<1> HIDE DEF x, y, t, n
<1>5. /\ Append(x, m) \in Seq(T) /\ Len(Append(x, m)) = n - a + 2
      /\ Append(x, m)[n - a + 2] = m /\ \A i \in 1..(n - a + 1) : Append(x, m)[i] = x[i]
    <2>1. x \in Seq(T) /\ Len(x) = n - a + 1
        BY <1>3 DEF x
    <2>2. /\ Append(x, m) \in Seq(T) /\ Len(Append(x, m)) = Len(x) + 1
          /\ Append(x, m)[Len(x) + 1] = m /\ \A i \in 1..Len(x) : Append(x, m)[i] = x[i]
        BY <2>1, AppendProperties
    <2>3. Len(x) + 1 = n - a + 2
        BY <1>1, <2>1
    <2>4. QED
        BY <2>1, <2>2, <2>3
<1>6. \A i \in 1..(n - a + 2) : y[i] = Append(x, m)[i]
    <2> SUFFICES ASSUME NEW i \in 1..(n - a + 2) PROVE y[i] = Append(x, m)[i]
        OBVIOUS
    <2>1. CASE i \in 1..(n - a + 1)
        <3>1. a + i - 1 \in 1..n
            BY <1>1, <2>1
        <3>2. y[i] = s[a + i - 1]
            BY <1>2, <1>4, <3>1 DEF y
        <3>3. Append(x, m)[i] = s[a + i - 1]
            BY <1>3, <1>5, <2>1 DEF x
        <3>4. QED
            BY <3>2, <3>3
    <2>2. CASE i = n - a + 2
        <3>1. a + i - 1 = n + 1
            BY <1>1, <2>2
        <3>2. y[i] = t[a + i - 1]
            BY <1>4 DEF y
        <3>3. y[i] = m
            BY <1>2, <3>1, <3>2
        <3>4. Append(x, m)[i] = m
            BY <1>5, <2>2
        <3>5. QED
            BY <3>3, <3>4
    <2>3. i \in 1..(n - a + 1) \/ i = n - a + 2
        BY <1>1
    <2>4. QED
        BY <2>1, <2>2, <2>3
<1>7. y \in Seq(T) /\ Len(y) = n - a + 2
    BY <1>4 DEF y
<1>8. y = Append(x, m)
    BY <1>5, <1>6, <1>7, SeqEqual
<1>9. QED
    BY <1>8 DEF x, y, t, n

\* The beginning of a part is a part.
LEMMA SubOfSub ==
    ASSUME NEW T, NEW s \in Seq(T), NEW a \in 1..(Len(s) + 1),
           NEW b \in (a - 1)..Len(s), NEW c \in (a - 1)..b
    PROVE  /\ SubSeq(SubSeq(s, a, b), 1, c - a + 1) = SubSeq(s, a, c)
           /\ c - a + 1 \in 0..Len(SubSeq(s, a, b))
<1>1. Len(s) \in Nat /\ a \in Nat /\ 1 <= a /\ a <= Len(s) + 1
      /\ b \in Nat /\ a - 1 <= b /\ b <= Len(s) /\ c \in Nat /\ a - 1 <= c /\ c <= b
    OBVIOUS
<1>2. SubSeq(s, a, b) \in Seq(T) /\ Len(SubSeq(s, a, b)) = b - a + 1
      /\ \A i \in 1..(b - a + 1) : SubSeq(s, a, b)[i] = s[a + i - 1]
    BY <1>1, SubSeqProperties
<1>3. SubSeq(s, a, c) \in Seq(T) /\ Len(SubSeq(s, a, c)) = c - a + 1
      /\ \A i \in 1..(c - a + 1) : SubSeq(s, a, c)[i] = s[a + i - 1]
    BY <1>1, SubSeqProperties
<1> DEFINE x == SubSeq(s, a, b)
           k == c - a + 1
<1>4. k \in 0..(b - a + 1) /\ k \in Nat
    BY <1>1
<1> HIDE DEF x, k
<1>5. SubSeq(x, 1, k) \in Seq(T) /\ Len(SubSeq(x, 1, k)) = k
      /\ \A i \in 1..k : SubSeq(x, 1, k)[i] = x[i]
    <2>1. x \in Seq(T) /\ k <= Len(x)
        BY <1>1, <1>2, <1>4 DEF x
    <2>2. QED
        BY <1>4, <2>1, SubSeqProperties
<1>6. \A i \in 1..k : x[i] = s[a + i - 1]
    <2>1. \A i \in 1..k : i \in 1..(b - a + 1)
        BY <1>1, <1>4
    <2>2. QED
        BY <1>2, <2>1 DEF x
<1>7. SubSeq(x, 1, k) = SubSeq(s, a, c)
    BY <1>3, <1>5, <1>6, SeqEqual DEF k
<1>8. QED
    BY <1>2, <1>4, <1>7 DEF x, k

-----------------------------------------------------------------------------
(* The channel the reader sees.                                            *)

Transit == IF astray \/ status = "error" THEN <<>> ELSE Complete
Received == IF astray THEN <<>> ELSE out
Over == IF astray THEN "astray"
        ELSE IF status # "reading" THEN status
        ELSE IF closed THEN "closing" ELSE "no"

\* What each step of the channel takes, in the reader's variables.
LEMMA ChannelSends ==
    ASSUME NEW m \in Messages, Over = "no", Transit' = Append(Transit, m),
           Received' = Received, Over' = Over
    PROVE  Channel!Next
BY DEF Channel!Next, Channel!Send, Transit, Received, Over

LEMMA ChannelIsCut ==
    ASSUME Over = "no", Over' = "closing", Received' = Received,
           \E n \in 0..Len(Transit) : Transit' = SubSeq(Transit, 1, n)
    PROVE  Channel!Next
BY DEF Channel!Next, Channel!Cut, Transit, Received, Over

LEMMA ChannelDelivers ==
    ASSUME Over \in {"no", "closing"}, Transit # <<>>, Head(Transit) \in Sane \ Wrong,
           Transit' = Tail(Transit), Received' = Append(Received, Seen[Head(Transit)]),
           Over' = Over
    PROVE  Channel!Next
BY DEF Channel!Next, Channel!Deliver, Transit, Received, Over

LEMMA ChannelRejects ==
    ASSUME Over \in {"no", "closing"}, Transit # <<>>, Head(Transit) \in Wrong,
           Transit' = <<>>, Received' = Received, Over' = "error"
    PROVE  Channel!Next
BY DEF Channel!Next, Channel!Reject, Transit, Received, Over

LEMMA ChannelEnds ==
    ASSUME Over = "closing", Transit = <<>>, Over' \in {"eof", "broken"},
           Transit' = Transit, Received' = Received
    PROVE  Channel!Next
BY DEF Channel!Next, Channel!End, Transit, Received, Over

LEMMA ChannelStrays ==
    ASSUME Over \in {"no", "closing"}, Transit # <<>>, Head(Transit) \notin Sane,
           Transit' = <<>>, Received' = <<>>, Over' = "astray"
    PROVE  Channel!Next
BY DEF Channel!Next, Channel!Stray, Transit, Received, Over

LEMMA ChannelStays ==
    ASSUME Transit' = Transit, Received' = Received, Over' = Over
    PROVE  UNCHANGED Channel!vars
BY DEF Channel!vars, Transit, Received, Over

\* A state that stays shows the same channel.
LEMMA SameState ==
    ASSUME UNCHANGED vars
    PROVE  Transit' = Transit /\ Received' = Received /\ Over' = Over
BY DEF vars, Transit, Received, Over, Complete, Ends, Pending

-----------------------------------------------------------------------------
(* The steps.                                                              *)

\* What a state with a reader in step knows of it.
LEMMA InStep ==
    ASSUME TInv, NEW s, NEW w, NEW p, NEW u, IsStream(s, w, p, u), IsRead(s, w, p, u)
    PROVE  /\ sent = s /\ s \in Seq(Messages) /\ Len(s) \in Nat
           /\ Len(out) \in Nat /\ Len(out) <= Len(s)
           /\ p \in [0..Len(s) -> Nat] /\ u \in [0..Len(s) -> Nat]
           /\ w \in Seq(Cells) /\ buf \in Seq(Cells) /\ wire \in Seq(Cells)
           /\ HeaderRead \in Nat /\ Len(buf) \in Nat /\ Len(wire) \in Nat
           /\ Pending = HeaderRead + Len(buf) + Len(wire)
           /\ p[Len(out)] \in Nat /\ p[Len(s)] \in Nat
           /\ u[Len(out)] \in Nat /\ u[Len(s)] \in Nat
<1>1. sent = s /\ s \in Seq(Messages) /\ buf \in Seq(Cells) /\ wire \in Seq(Cells)
    BY DEF TInv, TypeOK, IsRead
<1>2. Len(s) \in Nat /\ Len(out) \in 0..Len(s)
    BY <1>1 DEF IsRead
<1>3. Len(out) \in Nat /\ Len(out) <= Len(s) /\ Len(s) \in 0..Len(s)
    BY <1>2
<1>4. p \in [0..Len(s) -> Nat] /\ u \in [0..Len(s) -> Nat] /\ w \in Seq(Cells)
    BY DEF IsStream
<1>5. p[Len(out)] \in Nat /\ p[Len(s)] \in Nat /\ u[Len(out)] \in Nat /\ u[Len(s)] \in Nat
    BY <1>2, <1>3, <1>4
<1>6. QED
    BY <1>1, <1>2, <1>3, <1>4, <1>5, PendingType DEF TInv

\* The next message and its place in the stream.
LEMMA NextMessage ==
    ASSUME TInv, NEW s, NEW w, NEW p, NEW u, IsStream(s, w, p, u), IsRead(s, w, p, u),
           Len(out) < Len(s), NEW m, m = s[Len(out) + 1], u[Len(out) + 1] - u[Len(out)] <= Pending
    PROVE  /\ Complete # <<>> /\ Head(Complete) = m
           /\ \E l : /\ IsLast(l, u) /\ Len(out) + 1 <= l
                     /\ Complete = SubSeq(s, Len(out) + 1, l)
                     /\ Tail(Complete) = SubSeq(s, Len(out) + 2, l)
<1> DEFINE o == Len(out)
<1>1. /\ sent = s /\ s \in Seq(Messages) /\ Len(s) \in Nat /\ o \in Nat /\ o < Len(s)
    BY InStep
<1>2. PICK l : IsLast(l, u) /\ Complete = SubSeq(s, o + 1, l)
    BY <1>1, CompleteIs DEF TInv
<1>3. l \in o..Len(s) /\ \A k \in o..Len(s) : u[k] - u[o] <= Pending => k <= l
    BY <1>1, <1>2 DEF IsLast
<1>4. o + 1 \in o..Len(s)
    BY <1>1
<1>5. o + 1 <= l
    BY <1>3, <1>4
<1>6. o + 1 \in 1..Len(s) /\ l \in (o + 1)..Len(s) /\ (o + 1) + 1 = o + 2
    BY <1>1, <1>3, <1>5
<1>7. /\ SubSeq(s, o + 1, l) # <<>> /\ Head(SubSeq(s, o + 1, l)) = s[o + 1]
      /\ Tail(SubSeq(s, o + 1, l)) = SubSeq(s, (o + 1) + 1, l)
    BY <1>1, <1>6, SubFirst
<1>8. QED
    BY <1>2, <1>5, <1>6, <1>7

\* A message written is sent, and complete at once.
LEMMA WriteStep ==
    ASSUME TInv, TInv', ~astray, NEW s, NEW w, NEW p, NEW u,
           IsStream(s, w, p, u), IsRead(s, w, p, u), NEW m \in Messages, Write(m)
    PROVE  StreamInv' /\ Channel!Next
<1> DEFINE o == Len(out)
           N == Len(s)
           e == Encode(m)
           t == Append(s, m)
<1>1. /\ ~closed /\ status = "reading" /\ sent' = Append(sent, m) /\ wire' = wire \o e
      /\ UNCHANGED <<closed, buf, hdr, out, status, astray>>
    BY DEF Write
<1>2. /\ sent = s /\ s \in Seq(Messages) /\ N \in Nat
      /\ o \in Nat /\ o <= N
      /\ p \in [0..N -> Nat] /\ u \in [0..N -> Nat] /\ w \in Seq(Cells)
      /\ buf \in Seq(Cells) /\ wire \in Seq(Cells)
      /\ HeaderRead \in Nat /\ Len(buf) \in Nat /\ Len(wire) \in Nat
      /\ Pending = HeaderRead + Len(buf) + Len(wire)
      /\ p[o] \in Nat /\ p[N] \in Nat /\ u[o] \in Nat /\ u[N] \in Nat
    BY InStep
<1>3. PICK v, q, r :
             /\ IsStream(t, v, q, r)
             /\ \A i \in 1..Len(w) : v[i] = w[i]
             /\ \A j \in 1..Len(e) : v[Len(w) + j] = e[j]
             /\ \A i \in 0..N : q[i] = p[i] /\ r[i] = u[i]
             /\ q[N + 1] = p[N] + Len(e)
             /\ r[N + 1] = u[N] + Size[m]
    <2>1. s \in Seq(Messages)
        BY <1>2
    <2>2. QED
        BY <2>1, StreamGrows
<1>4. e \in Seq(Cells) /\ Len(e) \in Nat /\ Size[m] \in Nat /\ Size[m] <= Len(e)
    <2>1. e \in Seq(Cells) /\ Len(e) \in Nat /\ Len(e) >= 4
        BY EncodeLong
    <2>2. QED
        BY <2>1, SizeIs
<1>5. t \in Seq(Messages) /\ Len(t) = N + 1 /\ t[N + 1] = m /\ \A i \in 1..N : t[i] = s[i]
    BY <1>2, AppendProperties
<1>6. /\ Len(wire') = Len(wire) + Len(e)
      /\ \A i \in 1..(Len(wire) + Len(e)) :
           wire'[i] = IF i <= Len(wire) THEN wire[i] ELSE e[i - Len(wire)]
    BY <1>1, <1>2, <1>4, ConcatProperties
<1>7. HeaderRead' = HeaderRead /\ Pending' = Pending + Len(e)
    BY <1>1, <1>2, <1>4, <1>6 DEF HeaderRead, Pending
<1>8. /\ p[o] + Pending = p[N] /\ u[N] - u[o] <= Pending /\ Len(w) = p[N]
      /\ \A i \in 1..Len(buf) : buf[i] = w[p[o] + HeaderRead + i]
      /\ \A i \in 1..Len(wire) : wire[i] = w[p[o] + HeaderRead + Len(buf) + i]
    BY <1>1 DEF IsRead, IsStream
<1>22. Len(w) = p[o] + HeaderRead + Len(buf) + Len(wire)
    <2>1. \A a, h, x, y \in Nat : a + (h + x + y) = a + h + x + y
        OBVIOUS
    <2>2. p[o] + (HeaderRead + Len(buf) + Len(wire)) = p[o] + HeaderRead + Len(buf) + Len(wire)
        BY <1>2, <2>1
    <2>3. QED
        BY <1>2, <1>8, <2>2
<1> HIDE DEF e, t
<1>9. q[o] = p[o] /\ r[o] = u[o] /\ o \in 0..N
    BY <1>2, <1>3
<1>10. q[o] + Pending' = q[N + 1] /\ r[N + 1] - r[o] <= Pending'
    <2>1. p[o] + (Pending + Len(e)) = p[N] + Len(e)
        BY <1>2, <1>4, <1>8
    <2>2. (u[N] + Size[m]) - u[o] <= Pending + Len(e)
        <3>1. \A a, b, c, d, k \in Nat : a - b <= c /\ d <= k => (a + d) - b <= c + k
            OBVIOUS
        <3>2. Pending \in Nat
            BY <1>2
        <3>3. QED
            BY <1>2, <1>4, <1>8, <3>1, <3>2
    <2>3. QED
        BY <1>3, <1>7, <1>9, <2>1, <2>2
<1>11. \A i \in 1..Len(buf') : buf'[i] = v[q[o] + HeaderRead' + i]
    <2>1. \A i \in 1..Len(buf) : p[o] + HeaderRead + i \in 1..Len(w)
        <3>1. \A a, h, x, y \in Nat : \A i \in 1..x : a + h + i \in 1..(a + h + x + y)
            OBVIOUS
        <3>2. QED
            BY <1>2, <1>22, <3>1
    <2>2. \A i \in 1..Len(buf) : v[p[o] + HeaderRead + i] = w[p[o] + HeaderRead + i]
        BY <1>3, <2>1
    <2>3. \A i \in 1..Len(buf) : buf[i] = v[p[o] + HeaderRead + i]
        BY <1>8, <2>2
    <2>4. QED
        BY <1>1, <1>7, <1>9, <2>3
<1>12. \A i \in 1..Len(wire') : wire'[i] = v[q[o] + HeaderRead' + Len(buf') + i]
    <2> SUFFICES ASSUME NEW i \in 1..(Len(wire) + Len(e))
                 PROVE  wire'[i] = v[p[o] + HeaderRead + Len(buf) + i]
        BY <1>1, <1>6, <1>7, <1>9
    <2> DEFINE b == p[o] + HeaderRead + Len(buf)
    <2>1. b \in Nat /\ b + Len(wire) = Len(w)
        <3>1. p[o] \in Nat /\ HeaderRead \in Nat /\ Len(buf) \in Nat
            BY <1>2
        <3>2. b \in Nat
            BY <3>1
        <3>3. b + Len(wire) = Len(w)
            BY <1>22
        <3>4. QED
            BY <3>2, <3>3
    <2>5. i \in Nat /\ 1 <= i /\ i <= Len(wire) + Len(e)
        BY <1>2, <1>4
    <2>6. \A j \in 1..Len(wire) : wire[j] = w[b + j]
        BY <1>8
    <2> HIDE DEF b
    <2>2. CASE i <= Len(wire)
        <3>1. i \in 1..Len(wire) /\ b + i \in 1..Len(w)
            BY ONLY <1>2, <2>1, <2>2, <2>5
        <3>2. wire'[i] = v[b + i]
            BY <1>3, <1>6, <2>2, <2>6, <3>1
        <3>3. QED
            BY <3>2 DEF b
    <2>3. CASE ~(i <= Len(wire))
        <3>1. i - Len(wire) \in 1..Len(e)
            BY <1>2, <1>4, <2>3, <2>5
        <3>2. b + i = Len(w) + (i - Len(wire))
            <4>1. \A x, y, z \in Nat : x + z = (x + y) + (z - y)
                OBVIOUS
            <4>2. Len(wire) \in Nat /\ b \in Nat /\ i \in Nat
                BY <1>2, <2>1, <2>5
            <4>3. b + i = (b + Len(wire)) + (i - Len(wire))
                BY <4>1, <4>2
            <4>4. QED
                BY <2>1, <4>3
        <3>4. wire'[i] = v[b + i]
            BY <1>3, <1>6, <2>3, <3>1, <3>2
        <3>5. QED
            BY <3>4 DEF b
    <2>4. QED
        BY <2>2, <2>3
<1>13. hdr # None => /\ o < N
                     /\ \E x \in Sane \ Wrong : /\ x = s[o + 1]
                                                /\ ~IsBusy(Fields(x)) /\ hdr = Fields(x)
    BY DEF IsRead
<1>14. hdr' # None => /\ o < N + 1
                      /\ \E x \in Sane \ Wrong : /\ x = t[o + 1]
                                                 /\ ~IsBusy(Fields(x)) /\ hdr' = Fields(x)
    <2>1. o < N => o < N + 1 /\ o + 1 \in 1..N
        BY <1>2
    <2>2. QED
        BY <1>1, <1>5, <1>13, <2>1
<1>15. IsRead(t, v, q, r)'
    <2>1. sent' = t /\ out' = out /\ closed' = closed
        BY <1>1, <1>2 DEF t
    <2>2. o \in 0..(N + 1) /\ q[o] + Pending' <= q[N + 1]
        <3>1. q[N + 1] \in Nat
            <4>1. p[N] \in Nat /\ Len(e) \in Nat
                BY <1>2, <1>4
            <4>2. p[N] + Len(e) \in Nat
                BY <4>1
            <4>3. QED
                BY <1>3, <4>2
        <3>2. QED
            BY <1>2, <1>10, <3>1
    <2>3. out \in Answers
        BY DEF IsRead
    <2>4. QED
        BY <1>5, <1>10, <1>11, <1>12, <1>14, <2>1, <2>2, <2>3 DEF IsRead
<1>16. StreamInv'
    BY <1>3, <1>15 DEF StreamInv
<1>17. Complete = SubSeq(s, o + 1, N)
    <2>1. PICK l : IsLast(l, u) /\ Complete = SubSeq(s, o + 1, l)
        BY <1>2, CompleteIs DEF TInv
    <2>2. l \in o..N /\ \A k \in o..N : u[k] - u[o] <= Pending => k <= l
        BY <1>2, <2>1 DEF IsLast
    <2>3. N \in o..N
        BY <1>2
    <2>4. N <= l
        BY <1>8, <2>2, <2>3
    <2>5. l \in Nat /\ l <= N
        BY <1>2, <2>2
    <2>6. l = N
        BY <1>2, <2>4, <2>5
    <2>7. QED
        BY <2>1, <2>6
<1>18. Complete' = SubSeq(t, o + 1, N + 1)
    <2>1. PICK l : IsLast(l, r)' /\ Complete' = SubSeq(sent', Len(out') + 1, l)
        BY <1>3, <1>15, CompleteIsNext DEF TInv
    <2>2. sent' = t /\ Len(out') = o
        BY <1>1, <1>2 DEF t
    <2>3. l \in o..(N + 1) /\ \A k \in o..(N + 1) : r[k] - r[o] <= Pending' => k <= l
        BY <1>5, <2>1, <2>2 DEF IsLast
    <2>4. N + 1 \in o..(N + 1)
        BY <1>2
    <2>5. l = N + 1
        BY <1>2, <1>10, <2>3, <2>4
    <2>6. QED
        BY <2>1, <2>2, <2>5
<1>19. Complete' = Append(Complete, m)
    <2>1. o + 1 \in 1..(N + 1)
        BY <1>2
    <2>2. SubSeq(t, o + 1, N + 1) = Append(SubSeq(s, o + 1, N), m)
        BY <1>2, <2>1, SubAppend DEF t
    <2>3. QED
        BY <1>17, <1>18, <2>2
<1>20. Transit' = Append(Transit, m) /\ Received' = Received /\ Over' = Over /\ Over = "no"
    BY <1>1, <1>19 DEF Transit, Received, Over
<1>21. QED
    BY <1>16, <1>20, ChannelSends

\* Neither a piece received nor a header taken in changes what is complete.
LEMMA SameComplete ==
    ASSUME TInv, TInv', NEW s, NEW w, NEW p, NEW u,
           IsStream(s, w, p, u), IsRead(s, w, p, u), IsRead(s, w, p, u)',
           out' = out, Pending' = Pending
    PROVE  Complete' = Complete
<1> DEFINE o == Len(out)
           N == Len(s)
<1>1. PICK l : IsLast(l, u) /\ Complete = SubSeq(sent, o + 1, l)
    BY CompleteIs DEF TInv
<1>2. PICK k : IsLast(k, u)' /\ Complete' = SubSeq(sent', Len(out') + 1, k)
    BY CompleteIsNext DEF TInv
<1>3. sent = s /\ sent' = s
    BY DEF IsRead
<1>4. l \in o..N /\ u[l] - u[o] <= Pending /\ \A i \in o..N : u[i] - u[o] <= Pending => i <= l
    BY <1>1, <1>3 DEF IsLast
<1>5. k \in o..N /\ u[k] - u[o] <= Pending /\ \A i \in o..N : u[i] - u[o] <= Pending => i <= k
    BY <1>2, <1>3 DEF IsLast
<1>6. k <= l /\ l <= k
    BY <1>4, <1>5
<1>7. o \in Nat /\ N \in Nat
    BY InStep
<1>8. k \in Int /\ l \in Int
    BY <1>4, <1>5, <1>7
<1>9. k = l
    BY <1>6, <1>8
<1>10. QED
    BY <1>1, <1>2, <1>3, <1>9

\* A piece received moves cells from the wire to the buffer: nothing for the
\* channel.
LEMMA ReceiveStep ==
    ASSUME TInv, TInv', ~astray, NEW s, NEW w, NEW p, NEW u,
           IsStream(s, w, p, u), IsRead(s, w, p, u), Receive
    PROVE  StreamInv' /\ UNCHANGED Channel!vars
<1> DEFINE o == Len(out)
           N == Len(s)
<1>1. /\ status = "reading" /\ UNCHANGED <<sent, closed, hdr, out, status, astray>>
    BY DEF Receive
<1>2. PICK n \in 1..Min({MaxChunk, Len(wire)}) :
        /\ buf' = buf \o SubSeq(wire, 1, n)
        /\ wire' = SubSeq(wire, n + 1, Len(wire))
    BY DEF Receive
<1>3. /\ sent = s /\ o \in Nat /\ o <= N /\ N \in Nat
      /\ buf \in Seq(Cells) /\ wire \in Seq(Cells)
      /\ HeaderRead \in Nat /\ Len(buf) \in Nat /\ Len(wire) \in Nat
      /\ Pending = HeaderRead + Len(buf) + Len(wire)
      /\ p[o] \in Nat
    BY InStep
<1>4. n \in Nat /\ 1 <= n /\ n <= Len(wire)
    <2>1. MaxChunk \in Nat
        BY FramingAssumption
    <2>2. Min({MaxChunk, Len(wire)}) = IF MaxChunk <= Len(wire) THEN MaxChunk ELSE Len(wire)
        <3>1. MaxChunk \in Int /\ Len(wire) \in Int
            BY <1>3, <2>1
        <3>2. QED
            BY <3>1, MinOfTwo
    <2>3. QED
        BY <1>3, <2>1, <2>2
<1>5. SubSeq(wire, 1, n) \in Seq(Cells) /\ Len(SubSeq(wire, 1, n)) = n
      /\ \A i \in 1..n : SubSeq(wire, 1, n)[i] = wire[i]
    BY <1>3, <1>4, SubSeqProperties
<1>6. /\ Len(wire') = Len(wire) - n
      /\ \A i \in 1..(Len(wire) - n) : wire'[i] = wire[n + i]
    <2>1. /\ Len(wire') = Len(wire) - n
          /\ \A i \in 1..(Len(wire) - n) : wire'[i] = wire[(n + 1) + i - 1]
        BY <1>2, <1>3, <1>4, SubSeqProperties
    <2>2. \A i \in 1..(Len(wire) - n) : (n + 1) + i - 1 = n + i
        BY <1>3, <1>4
    <2>3. QED
        BY <2>1, <2>2
<1>7. /\ Len(buf') = Len(buf) + n
      /\ \A i \in 1..(Len(buf) + n) :
           buf'[i] = IF i <= Len(buf) THEN buf[i] ELSE SubSeq(wire, 1, n)[i - Len(buf)]
    BY <1>2, <1>3, <1>5, ConcatProperties
<1>8. HeaderRead' = HeaderRead /\ Pending' = Pending
    <2>1. HeaderRead' = HeaderRead
        BY <1>1 DEF HeaderRead
    <2>2. Pending' = HeaderRead' + Len(buf') + Len(wire')
        BY PendingTypeNext DEF TInv
    <2>3. QED
        BY <1>3, <1>4, <1>6, <1>7, <2>1, <2>2
<1> DEFINE b == p[o] + HeaderRead
<1>9. /\ \A i \in 1..Len(buf) : buf[i] = w[b + i]
      /\ \A i \in 1..Len(wire) : wire[i] = w[b + Len(buf) + i]
      /\ b \in Nat
    BY <1>3 DEF IsRead
<1> HIDE DEF b
<1>10. \A i \in 1..Len(buf') : buf'[i] = w[b + i]
    <2> SUFFICES ASSUME NEW i \in 1..(Len(buf) + n) PROVE buf'[i] = w[b + i]
        BY <1>7
    <2>1. i \in Nat /\ 1 <= i /\ i <= Len(buf) + n
        BY <1>3, <1>4
    <2>2. CASE i <= Len(buf)
        <3>1. i \in 1..Len(buf)
            BY <1>3, <2>1, <2>2
        <3>2. QED
            BY <1>7, <1>9, <2>2, <3>1
    <2>3. CASE ~(i <= Len(buf))
        <3>1. i - Len(buf) \in 1..n /\ i - Len(buf) \in 1..Len(wire)
            BY <1>3, <1>4, <2>1, <2>3
        <3>2. \A x, y, z \in Nat : x + y + (z - y) = x + z
            OBVIOUS
        <3>3. b + Len(buf) + (i - Len(buf)) = b + i
            BY <1>3, <1>9, <2>1, <3>2
        <3>4. buf'[i] = wire[i - Len(buf)]
            BY <1>5, <1>7, <2>3, <3>1
        <3>5. QED
            BY <1>9, <3>1, <3>3, <3>4
    <2>4. QED
        BY <2>2, <2>3
<1>11. \A i \in 1..Len(wire') : wire'[i] = w[b + Len(buf') + i]
    <2> SUFFICES ASSUME NEW i \in 1..(Len(wire) - n) PROVE wire'[i] = w[b + (Len(buf) + n) + i]
        BY <1>6, <1>7
    <2>1. i \in Nat /\ 1 <= i /\ i <= Len(wire) - n
        BY <1>3, <1>4
    <2>2. n + i \in 1..Len(wire)
        BY <1>3, <1>4, <2>1
    <2>3. \A x, y, z, a \in Nat : x + y + (z + a) = x + (y + z) + a
        OBVIOUS
    <2>4. b + Len(buf) + (n + i) = b + (Len(buf) + n) + i
        BY <1>3, <1>4, <1>9, <2>1, <2>3
    <2>5. QED
        BY <1>6, <1>9, <2>2, <2>4
<1>12. IsRead(s, w, p, u)'
    <2>1. /\ sent = s /\ out \in Answers /\ o \in 0..N /\ p[o] + Pending <= p[N]
          /\ hdr # None => /\ o < N
                           /\ \E m \in Sane \ Wrong : /\ m = s[o + 1]
                                                      /\ ~IsBusy(Fields(m)) /\ hdr = Fields(m)
          /\ ~closed => p[o] + Pending = p[N] /\ u[N] - u[o] <= Pending
        BY DEF IsRead
    <2>2. QED
        BY <1>1, <1>8, <1>10, <1>11, <2>1 DEF IsRead, b
<1>13. Complete' = Complete
    BY <1>1, <1>8, <1>12, SameComplete
<1>14. Transit' = Transit /\ Received' = Received /\ Over' = Over
    BY <1>1, <1>13 DEF Transit, Received, Over
<1>15. QED
    BY <1>12, <1>14, ChannelStays DEF StreamInv

\* The end of the connection cuts off the messages that are not on the wire
\* to their end.
LEMMA CloseStep ==
    ASSUME TInv, TInv', ~astray, NEW s, NEW w, NEW p, NEW u,
           IsStream(s, w, p, u), IsRead(s, w, p, u), Close
    PROVE  StreamInv' /\ Channel!Next
<1> DEFINE o == Len(out)
           N == Len(s)
<1>1. /\ ~closed /\ status = "reading" /\ closed' = TRUE
      /\ UNCHANGED <<sent, buf, hdr, out, status, astray>>
    BY DEF Close
<1>2. PICK n \in 0..Len(wire) : wire' = SubSeq(wire, 1, n)
    BY DEF Close
<1>3. /\ sent = s /\ o \in Nat /\ o <= N /\ N \in Nat /\ s \in Seq(Messages)
      /\ buf \in Seq(Cells) /\ wire \in Seq(Cells)
      /\ HeaderRead \in Nat /\ Len(buf) \in Nat /\ Len(wire) \in Nat
      /\ Pending = HeaderRead + Len(buf) + Len(wire)
      /\ p[o] \in Nat /\ p[N] \in Nat /\ u \in [0..N -> Nat] /\ u[o] \in Nat
    BY InStep
<1>4. n \in Nat /\ n <= Len(wire)
    BY <1>3
<1>5. Len(wire') = n /\ \A i \in 1..n : wire'[i] = wire[i]
    BY <1>2, <1>3, <1>4, SubSeqProperties
<1>6. HeaderRead' = HeaderRead /\ Pending' <= Pending /\ Pending' \in Nat
    <2>1. HeaderRead' = HeaderRead
        BY <1>1 DEF HeaderRead
    <2>2. Pending' = HeaderRead' + Len(buf') + Len(wire')
        BY PendingTypeNext DEF TInv
    <2>3. QED
        BY <1>1, <1>3, <1>4, <1>5, <2>1, <2>2
<1>7. IsRead(s, w, p, u)'
    <2>1. /\ out \in Answers /\ o \in 0..N /\ p[o] + Pending <= p[N]
          /\ hdr # None => /\ o < N
                           /\ \E m \in Sane \ Wrong : /\ m = s[o + 1]
                                                      /\ ~IsBusy(Fields(m)) /\ hdr = Fields(m)
          /\ \A i \in 1..Len(buf) : buf[i] = w[p[o] + HeaderRead + i]
          /\ \A i \in 1..Len(wire) : wire[i] = w[p[o] + HeaderRead + Len(buf) + i]
        BY DEF IsRead
    <2>2. p[o] + Pending' <= p[N]
        BY <1>3, <1>6, <2>1
    <2>3. \A i \in 1..n : wire'[i] = w[p[o] + HeaderRead + Len(buf) + i]
        <3>1. \A i \in 1..n : i \in 1..Len(wire)
            BY <1>3, <1>4
        <3>2. QED
            BY <1>5, <2>1, <3>1
    <2>4. QED
        BY <1>1, <1>3, <1>5, <1>6, <2>1, <2>2, <2>3 DEF IsRead
<1>8. PICK l : IsLast(l, u) /\ Complete = SubSeq(s, o + 1, l)
    BY <1>3, CompleteIs DEF TInv
<1>9. PICK k : IsLast(k, u)' /\ Complete' = SubSeq(sent', Len(out') + 1, k)
    BY <1>7, CompleteIsNext DEF TInv
<1>10. l \in o..N /\ \A i \in o..N : u[i] - u[o] <= Pending => i <= l
    BY <1>3, <1>8 DEF IsLast
<1>11. k \in o..N /\ u[k] - u[o] <= Pending' /\ Complete' = SubSeq(s, o + 1, k)
    BY <1>1, <1>3, <1>9 DEF IsLast
<1>12. k <= l
    <2>1. u[k] \in Nat
        BY <1>3, <1>11
    <2>2. u[k] - u[o] <= Pending
        BY <1>3, <1>6, <1>11, <2>1
    <2>3. QED
        BY <1>10, <1>11, <2>2
<1>13. \E i \in 0..Len(Complete) : Complete' = SubSeq(Complete, 1, i)
    <2>1. o + 1 \in 1..(N + 1) /\ l \in ((o + 1) - 1)..N /\ k \in ((o + 1) - 1)..l
        BY <1>3, <1>10, <1>11, <1>12
    <2>2. /\ SubSeq(SubSeq(s, o + 1, l), 1, k - (o + 1) + 1) = SubSeq(s, o + 1, k)
          /\ k - (o + 1) + 1 \in 0..Len(SubSeq(s, o + 1, l))
        BY <1>3, <2>1, SubOfSub
    <2>3. QED
        BY <1>8, <1>11, <2>2
<1>14. /\ Over = "no" /\ Over' = "closing" /\ Received' = Received
       /\ \E i \in 0..Len(Transit) : Transit' = SubSeq(Transit, 1, i)
    BY <1>1, <1>13 DEF Transit, Received, Over
<1>15. StreamInv'
    BY <1>7 DEF StreamInv
<1>16. QED
    BY <1>14, <1>15, ChannelIsCut

\* The end is reached only when no complete message is left.
LEMMA EndStep ==
    ASSUME TInv, TInv', ~astray, NEW s, NEW w, NEW p, NEW u,
           IsStream(s, w, p, u), IsRead(s, w, p, u), EndOfStream
    PROVE  StreamInv' /\ Channel!Next
<1> DEFINE o == Len(out)
           N == Len(s)
<1>1. /\ status = "reading" /\ Len(buf) < Need /\ wire = <<>> /\ closed
      /\ status' = IF hdr = None THEN "eof" ELSE "broken"
      /\ UNCHANGED <<sent, wire, closed, buf, hdr, out, astray>>
    BY DEF EndOfStream
<1>2. /\ sent = s /\ o \in Nat /\ o <= N /\ N \in Nat /\ s \in Seq(Messages)
      /\ Len(buf) \in Nat /\ u \in [0..N -> Nat]
      /\ Pending = HeaderRead + Len(buf) + Len(wire) /\ u[o] \in Nat
    BY InStep
<1>3. HeaderRead' = HeaderRead /\ Pending' = Pending
    BY <1>1 DEF HeaderRead, Pending
<1>4. IsRead(s, w, p, u)'
    BY <1>1, <1>3 DEF IsRead
<1>5. PICK l : IsLast(l, u) /\ Complete = SubSeq(s, o + 1, l)
    BY <1>2, CompleteIs DEF TInv
<1>6. l \in o..N /\ u[l] - u[o] <= Pending
    BY <1>2, <1>5 DEF IsLast
<1>7. l = o
    <2> SUFFICES ASSUME l # o PROVE FALSE
        OBVIOUS
    <2>1. o + 1 \in 1..N /\ o + 1 <= l /\ (o + 1) - 1 = o /\ o + 1 \in 0..N /\ l \in 0..N
        BY <1>2, <1>6
    <2>2. u[o + 1] = u[o] + Size[s[o + 1]] /\ u[o + 1] <= u[l]
        BY <2>1 DEF IsStream
    <2>3. s[o + 1] \in Messages
        <3>1. s \in Seq(Messages) /\ o + 1 \in 1..Len(s)
            BY <1>2, <2>1
        <3>2. QED
            BY <3>1
    <2>4. Size[s[o + 1]] \in Nat /\ u[l] \in Nat
        BY <1>2, <2>1, <2>3, SizeIs
    <2>5. Size[s[o + 1]] <= Pending
        BY <1>2, <1>6, <2>2, <2>4
    <2>6. Len(wire) = 0
        BY <1>1
    <2>7. CASE hdr = None
        <3>1. Pending < 4
            BY <1>1, <1>2, <2>6, <2>7 DEF Need, HeaderRead, HeaderLen
        <3>2. Size[s[o + 1]] >= 4
            BY <2>3, SizeIs
        <3>3. QED
            BY <1>2, <2>4, <2>5, <3>1, <3>2 DEF HeaderRead, HeaderLen
    <2>8. CASE hdr # None
        <3>1. PICK m \in Sane \ Wrong : m = s[o + 1] /\ ~IsBusy(Fields(m)) /\ hdr = Fields(m)
            BY <2>8 DEF IsRead
        <3>2. m \in Messages /\ m.len >= 0
            BY <3>1 DEF Sane
        <3>3. hdr.len = m.len /\ Len(m.data) = m.len /\ m.data # None
            <4>1. m.len = IF m.data = None THEN -1 ELSE Len(m.data)
                BY <3>2, FramingAssumption
            <4>2. QED
                BY <3>1, <3>2, <4>1, FieldsAre
        <3>4. Size[m] = 4 + m.len /\ m.len \in Int
            <4>1. Size[m] = Len(Encode(m))
                BY <3>1, <3>2, SizeIs
            <4>2. QED
                BY <3>2, <3>3, <4>1, EncodeType, FramingAssumption
        <3>5. Pending = 4 + Len(buf) /\ Len(buf) < m.len
            BY <1>1, <1>2, <2>6, <2>8, <3>3 DEF Need, HeaderRead, HeaderLen
        <3>6. QED
            BY <1>2, <2>5, <3>1, <3>4, <3>5
    <2>9. QED
        BY <2>7, <2>8
<1>8. Complete = <<>>
    <2>1. SubSeq(s, o + 1, o) = <<>>
        BY <1>2
    <2>2. QED
        BY <1>5, <1>7, <2>1
<1>9. Complete' = Complete
    BY <1>1, <1>3, <1>4, SameComplete
<1>10. /\ Over = "closing" /\ Transit = <<>> /\ Over' \in {"eof", "broken"}
       /\ Transit' = Transit /\ Received' = Received
    BY <1>1, <1>8, <1>9 DEF Transit, Received, Over
<1>11. StreamInv'
    BY <1>4 DEF StreamInv
<1>12. QED
    BY <1>10, <1>11, ChannelEnds

\* A sequence with an element more.
LEMMA AppendLength ==
    \A T : \A q \in Seq(T) : \A x \in T :
        Append(q, x) \in Seq(T) /\ Len(Append(q, x)) = Len(q) + 1
OBVIOUS

\* What the client gets of a message it can read.
LEMMA SeenType ==
    ASSUME NEW m \in Sane \ Wrong
    PROVE  Seen[m] \in Seq(Cells) \cup {Busy}
<1>1. m \in Messages
    BY DEF Sane
<1>2. CASE IsBusy(Fields(m))
    BY <1>2 DEF Seen
<1>3. CASE ~IsBusy(Fields(m))
    <2>1. m.len >= 0
        BY <1>3 DEF Sane
    <2>2. m.data \in Seq(Cells) /\ Fields(m).dlen \in Int
        BY <1>1, <2>1, FieldsAre DEF Headers
    <2>3. Upto(m.data, Fields(m).dlen) \in Seq(Cells)
        BY <2>2, UptoType
    <2>4. QED
        BY <1>3, <2>3 DEF Seen, Result
<1>4. QED
    BY <1>2, <1>3

\* The next message is read to its end and delivered.
LEMMA OneRead ==
    ASSUME TInv, TInv', ~astray, status = "reading", NEW s, NEW w, NEW p, NEW u,
           IsStream(s, w, p, u), IsRead(s, w, p, u), Len(out) < Len(s),
           NEW m \in Sane \ Wrong, m = s[Len(out) + 1],
           NEW n \in Nat, n <= Len(buf), HeaderRead + n = Len(Encode(m)),
           buf' = SubSeq(buf, n + 1, Len(buf)), hdr' = None, out' = Append(out, Seen[m]),
           UNCHANGED <<sent, wire, closed, status, astray>>
    PROVE  StreamInv' /\ Channel!Next
<1> DEFINE o == Len(out)
           N == Len(s)
<1>1. /\ sent = s /\ s \in Seq(Messages) /\ o \in Nat /\ o < N /\ N \in Nat
      /\ buf \in Seq(Cells) /\ wire \in Seq(Cells)
      /\ HeaderRead \in Nat /\ Len(buf) \in Nat /\ Len(wire) \in Nat
      /\ Pending = HeaderRead + Len(buf) + Len(wire)
      /\ p[o] \in Nat /\ p[N] \in Nat /\ u \in [0..N -> Nat] /\ p \in [0..N -> Nat]
      /\ u[o] \in Nat /\ u[N] \in Nat
    BY InStep
<1>2. m \in Messages /\ out' \in Answers /\ Len(out') = Len(out) + 1
    <2>1. out \in Answers
        BY DEF IsRead
    <2>2. QED
        BY <2>1, SeenType, AppendLength DEF Sane, Answers
<1>3. PICK h \in Nat : h = HeaderRead + n /\ h = Len(Encode(m)) /\ h = Size[m]
    <2>1. HeaderRead + n \in Nat
        BY <1>1
    <2>2. Size[m] = Len(Encode(m))
        BY <1>2, SizeIs
    <2>3. QED
        BY <2>1, <2>2
<1>4. p[o + 1] = p[o] + h /\ u[o + 1] = u[o] + h /\ o + 1 \in 1..N /\ o + 1 \in 0..N
    <2>1. o + 1 \in 1..N /\ (o + 1) - 1 = o /\ o + 1 \in 0..N
        BY <1>1
    <2>2. p[o + 1] = p[o] + Len(Encode(s[o + 1])) /\ u[o + 1] = u[o] + Size[s[o + 1]]
        BY <2>1 DEF IsStream
    <2>3. QED
        BY <1>3, <2>1, <2>2
<1>5. Len(buf') = Len(buf) - n /\ \A i \in 1..(Len(buf) - n) : buf'[i] = buf[n + i]
    <2>1. /\ Len(buf') = Len(buf) - n
          /\ \A i \in 1..(Len(buf) - n) : buf'[i] = buf[(n + 1) + i - 1]
        BY <1>1, SubSeqProperties
    <2>2. \A i \in 1..(Len(buf) - n) : (n + 1) + i - 1 = n + i
        BY <1>1
    <2>3. QED
        BY <2>1, <2>2
<1>6. HeaderRead' = 0
    BY DEF HeaderRead
<1>7. Pending' = Pending - h /\ Pending' \in Nat
    <2>1. Pending' = HeaderRead' + Len(buf') + Len(wire')
        BY PendingTypeNext DEF TInv
    <2>2. QED
        BY <1>1, <1>3, <1>5, <1>6, <2>1
<1> DEFINE b == p[o] + HeaderRead
<1>8. /\ \A i \in 1..Len(buf) : buf[i] = w[b + i]
      /\ \A i \in 1..Len(wire) : wire[i] = w[b + Len(buf) + i]
      /\ b \in Nat /\ p[o + 1] + HeaderRead' = b + n
    <2>1. /\ \A i \in 1..Len(buf) : buf[i] = w[b + i]
          /\ \A i \in 1..Len(wire) : wire[i] = w[b + Len(buf) + i]
        BY DEF IsRead
    <2>2. b \in Nat
        <3>1. p[o] \in Nat /\ HeaderRead \in Nat
            BY <1>1
        <3>2. QED
            BY <3>1
    <2>3. p[o] + h + 0 = b + n
        BY <1>1, <1>3
    <2>4. QED
        BY <1>4, <1>6, <2>1, <2>2, <2>3
<1>9. \A i \in 1..Len(buf') : buf'[i] = w[p[o + 1] + HeaderRead' + i]
    <2> SUFFICES ASSUME NEW i \in 1..(Len(buf) - n) PROVE buf'[i] = w[(b + n) + i]
        BY <1>5, <1>8
    <2>3. n \in Nat /\ Len(buf) \in Nat /\ b \in Nat /\ i \in Nat /\ 1 <= i /\ i <= Len(buf) - n
        BY <1>1, <1>8
    <2>1. n + i \in 1..Len(buf) /\ b + (n + i) = (b + n) + i
        <3>1. \A x, y, z \in Nat : x + (y + z) = (x + y) + z
            OBVIOUS
        <3>2. b + (n + i) = (b + n) + i
            BY <2>3, <3>1
        <3>3. n + i \in 1..Len(buf)
            BY <2>3
        <3>4. QED
            BY <3>2, <3>3
    <2>2. QED
        BY <1>5, <1>8, <2>1
<1>10. \A i \in 1..Len(wire') : wire'[i] = w[p[o + 1] + HeaderRead' + Len(buf') + i]
    <2>1. (b + n) + (Len(buf) - n) = b + Len(buf)
        <3>1. \A a, c, d \in Nat : (a + d) + (c - d) = a + c
            OBVIOUS
        <3>2. QED
            <4>1. b \in Nat /\ Len(buf) \in Nat /\ n \in Nat
                BY <1>1, <1>8
            <4>2. QED
                BY <3>1, <4>1
    <2>2. QED
        BY <1>5, <1>8, <2>1
<1>11. /\ p[o + 1] + Pending' <= p[N]
       /\ ~closed => p[o + 1] + Pending' = p[N] /\ u[N] - u[o + 1] <= Pending'
    <2>1. /\ p[o] + Pending <= p[N]
          /\ ~closed => p[o] + Pending = p[N] /\ u[N] - u[o] <= Pending
        BY <1>1 DEF IsRead
    <2>2. Pending \in Nat
        BY <1>1
    <2>3. \A a, c \in Nat : (a + h) + (c - h) = a + c
        BY <1>3
    <2>4. (p[o] + h) + (Pending - h) = p[o] + Pending
        BY <1>1, <2>2, <2>3
    <2>5. \A a, c, d \in Nat : a - c <= d => a - (c + h) <= d - h
        <3>1. h \in Nat
            OBVIOUS
        <3>2. QED
            BY <3>1, BothLess
    <2>6. u[N] - u[o] <= Pending => u[N] - (u[o] + h) <= Pending - h
        BY <1>1, <2>2, <2>5
    <2>7. QED
        BY <1>4, <1>7, <2>1, <2>4, <2>6
<1>12. IsRead(s, w, p, u)'
    <2>1. Len(out') = o + 1 /\ Len(out') \in 0..N
        BY <1>2, <1>4
    <2>2. QED
        BY <1>1, <1>2, <1>9, <1>10, <1>11, <2>1 DEF IsRead
<1>13. u[o + 1] - u[o] <= Pending
    <2>1. n \in Nat /\ n <= Len(buf) /\ HeaderRead \in Nat /\ Len(buf) \in Nat /\ Len(wire) \in Nat
        BY <1>1
    <2>2. HeaderRead + n <= HeaderRead + Len(buf) + Len(wire)
        BY <2>1
    <2>3. \A a, c \in Nat : (a + c) - a = c
        OBVIOUS
    <2>4. u[o + 1] - u[o] = h
        BY <1>1, <1>4, <2>3
    <2>5. QED
        BY <1>1, <1>3, <2>2, <2>4
<1>14. PICK l : /\ IsLast(l, u) /\ o + 1 <= l
                /\ Complete = SubSeq(s, o + 1, l)
                /\ Tail(Complete) = SubSeq(s, o + 2, l)
    BY <1>13, NextMessage
<1>15. Complete # <<>> /\ Head(Complete) = m
    BY <1>13, NextMessage
<1>16. PICK k : IsLast(k, u)' /\ Complete' = SubSeq(sent', Len(out') + 1, k)
    BY <1>12, CompleteIsNext DEF TInv
<1>17. l \in o..N /\ \A i \in o..N : u[i] - u[o] <= Pending => i <= l
    BY <1>1, <1>14 DEF IsLast
<1>18. u[l] - u[o] <= Pending
    BY <1>14 DEF IsLast
<1>19. k \in (o + 1)..N /\ \A i \in (o + 1)..N : u[i] - u[o + 1] <= Pending' => i <= k
    BY <1>1, <1>2, <1>16 DEF IsLast
<1>20. u[k] - u[o + 1] <= Pending'
    BY <1>2, <1>16 DEF IsLast
<1>21. \A i \in (o + 1)..N : i \in o..N /\ (u[i] - u[o] <= Pending <=> u[i] - u[o + 1] <= Pending')
    <2>1. \A a, c, d \in Nat : a - c <= d <=> a - (c + h) <= d - h
        <3>1. h \in Nat
            OBVIOUS
        <3>2. QED
            BY <3>1, BothLess
    <2>2. Pending \in Nat
        BY <1>1
    <2>3. \A i \in (o + 1)..N : i \in o..N /\ i \in 0..N
        BY <1>1
    <2>4. \A i \in 0..N : u[i] \in Nat
        BY <1>1
    <2>5. \A i \in (o + 1)..N : u[i] - u[o] <= Pending <=> u[i] - (u[o] + h) <= Pending - h
        BY <1>1, <2>1, <2>2, <2>3, <2>4
    <2>6. QED
        BY <1>4, <1>7, <2>3, <2>5
<1>22. l \in (o + 1)..N
    BY <1>1, <1>14, <1>17
<1>23. l <= k /\ k <= l
    BY <1>17, <1>18, <1>19, <1>20, <1>21, <1>22
<1>24. k = l
    BY <1>1, <1>19, <1>22, <1>23
<1>25. Complete' = Tail(Complete)
    <2>1. sent' = s /\ Len(out') + 1 = o + 2
        BY <1>1, <1>2
    <2>2. QED
        BY <1>14, <1>16, <1>24, <2>1
<1>26. /\ Over \in {"no", "closing"} /\ Transit # <<>> /\ Head(Transit) = m
       /\ Transit' = Tail(Transit) /\ Received' = Append(Received, Seen[m]) /\ Over' = Over
    BY <1>15, <1>25 DEF Transit, Received, Over
<1>27. StreamInv'
    BY <1>12 DEF StreamInv
<1>28. QED
    BY <1>26, <1>27, ChannelDelivers
\* The payload read is that of the message, which is delivered.
LEMMA PayloadStep ==
    ASSUME TInv, TInv', ~astray, NEW s, NEW w, NEW p, NEW u,
           IsStream(s, w, p, u), IsRead(s, w, p, u), Payload
    PROVE  StreamInv' /\ Channel!Next
<1>1. /\ status = "reading" /\ hdr # None /\ Len(buf) >= hdr.len
      /\ out' = Append(out, Result(hdr, Upto(buf, hdr.len)))
      /\ buf' = From(buf, hdr.len) /\ hdr' = None
      /\ UNCHANGED <<sent, wire, closed, status, astray>>
    BY DEF Payload
<1>2. /\ sent = s /\ Len(out) \in Nat /\ Len(buf) \in Nat
    BY InStep
<1>3. /\ sent[Len(out) + 1] \in Messages /\ Len(out) + 1 \in 1..Len(sent)
      /\ hdr.len \in Nat
      /\ Upto(buf, hdr.len) = sent[Len(out) + 1].data
      /\ From(buf, hdr.len) = SubSeq(buf, hdr.len + 1, Len(buf))
      /\ Len(Encode(sent[Len(out) + 1])) = 4 + hdr.len
    BY <1>1, PayloadIsNext DEF TInv
<1>4. PICK m \in Sane \ Wrong : m = s[Len(out) + 1] /\ ~IsBusy(Fields(m)) /\ hdr = Fields(m)
    BY <1>1 DEF IsRead
<1>5. Seen[m] = Result(hdr, Upto(buf, hdr.len))
    BY <1>2, <1>3, <1>4 DEF Seen
<1>6. HeaderRead + hdr.len = Len(Encode(m)) /\ hdr.len <= Len(buf) /\ Len(out) < Len(s)
    BY <1>1, <1>2, <1>3, <1>4 DEF HeaderRead, HeaderLen
<1>7. out' = Append(out, Seen[m])
    BY <1>1, <1>5
<1>9. buf' = SubSeq(buf, hdr.len + 1, Len(buf))
    BY <1>1, <1>3
<1>10. PICK n \in Nat : n = hdr.len
    BY <1>3
<1>11. QED
    BY <1>1, <1>4, <1>6, <1>7, <1>9, <1>10, OneRead

\* A header read: of busy, of a message rejected, of a length without a
\* meaning, or of one whose payload follows.
LEMMA HeaderStep ==
    ASSUME TInv, TInv', ~astray, NEW s, NEW w, NEW p, NEW u,
           IsStream(s, w, p, u), IsRead(s, w, p, u), Header
    PROVE  StreamInv' /\ [Channel!Next]_(Channel!vars)
<1> DEFINE o == Len(out)
           N == Len(s)
           h == Decode(Upto(buf, HeaderLen))
<1>1. /\ status = "reading" /\ hdr = None /\ Len(buf) >= HeaderLen
      /\ buf' = From(buf, HeaderLen)
      /\ UNCHANGED <<sent, wire, closed>>
    BY DEF Header
<1>2. \/ IsBusy(h) /\ out' = Append(out, Busy) /\ UNCHANGED <<hdr, status, astray>>
      \/ IsWrong(h) /\ status' = "error" /\ UNCHANGED <<hdr, out, astray>>
      \/ /\ ~IsBusy(h) /\ ~IsWrong(h) /\ hdr' = h /\ astray' = (astray \/ h.len < 0)
         /\ UNCHANGED <<out, status>>
    BY DEF Header
<1>3. /\ sent = s /\ s \in Seq(Messages) /\ o \in Nat /\ N \in Nat
      /\ buf \in Seq(Cells) /\ Len(buf) \in Nat /\ Len(wire) \in Nat
      /\ HeaderRead \in Nat /\ Pending = HeaderRead + Len(buf) + Len(wire)
      /\ p[o] \in Nat /\ u[o] \in Nat /\ u \in [0..N -> Nat]
    BY InStep
<1>4. o < N /\ s[o + 1] \in Messages /\ h = Fields(s[o + 1]) /\ o + 1 \in 1..N
    BY <1>1, <1>3, HeaderIsNext DEF TInv
<1>5. PICK m \in Messages : m = s[o + 1]
    BY <1>4
<1> HIDE DEF h
<1>6. h = Fields(m)
    BY <1>4, <1>5
<1>7. buf' = SubSeq(buf, 5, Len(buf)) /\ 4 <= Len(buf) /\ HeaderRead = 0
    <2>1. 4 <= Len(buf) /\ 4 \in Nat /\ 4 + 1 = 5
        BY <1>1, <1>3 DEF HeaderLen
    <2>2. From(buf, 4) = SubSeq(buf, 4 + 1, Len(buf))
        BY <1>3, <2>1, SliceIs
    <2>3. QED
        BY <1>1, <2>1, <2>2 DEF HeaderLen, HeaderRead
<1>8. h.version \in Int /\ h.len \in Int /\ h.len = m.len
    BY <1>6, FieldsAre DEF Headers
<1>9. ~(IsBusy(h) /\ IsWrong(h))
    BY <1>8 DEF IsBusy, IsWrong
<1>10. CASE IsBusy(h)
    <2>1. out' = Append(out, Busy) /\ UNCHANGED <<hdr, status, astray>>
        BY <1>2, <1>9, <1>10
    <2>2. m \in Sane \ Wrong
        BY <1>6, <1>9, <1>10 DEF Sane, Wrong
    <2>3. Seen[m] = Busy
        BY <1>6, <1>10, <2>2 DEF Seen
    <2>4. Len(Encode(m)) = 4
        <3>1. m.data = None
            BY <1>6, <1>10, FieldsAre
        <3>2. QED
            BY <3>1, EncodeType
    <2>5. 4 \in Nat /\ HeaderRead + 4 = Len(Encode(m)) /\ buf' = SubSeq(buf, 4 + 1, Len(buf))
        BY <1>7, <2>4
    <2>6. out' = Append(out, Seen[m])
        BY <2>1, <2>3
    <2>7. hdr' = None /\ UNCHANGED <<sent, wire, closed, status, astray>>
        BY <1>1, <2>1
    <2>8. QED
        BY <1>1, <1>4, <1>5, <1>7, <2>2, <2>5, <2>6, <2>7, OneRead
<1>11. m \notin Sane \ Wrong => /\ Complete # <<>> /\ Head(Complete) = m
    <2> SUFFICES ASSUME m \notin Sane \ Wrong PROVE Complete # <<>> /\ Head(Complete) = m
        OBVIOUS
    <2>1. Size[m] = 4
        BY SizeIs
    <2>2. (o + 1) - 1 = o
        BY <1>3
    <2>3. u[o + 1] = u[o] + 4
        BY <1>4, <1>5, <2>1, <2>2 DEF IsStream
    <2>4. u[o + 1] - u[o] <= Pending
        BY <1>3, <1>7, <2>3
    <2>5. QED
        BY <1>4, <1>5, <2>4, NextMessage
<1>12. CASE IsWrong(h)
    <2>1. status' = "error" /\ UNCHANGED <<hdr, out, astray>>
        BY <1>2, <1>9, <1>12
    <2>2. m \in Wrong
        BY <1>6, <1>12 DEF Wrong
    <2>3. /\ Over \in {"no", "closing"} /\ Transit # <<>> /\ Head(Transit) \in Wrong
          /\ Transit' = <<>> /\ Received' = Received /\ Over' = "error"
        BY <1>1, <1>11, <2>1, <2>2 DEF Transit, Received, Over
    <2>4. StreamInv'
        BY <2>1 DEF StreamInv
    <2>5. QED
        BY <2>3, <2>4, ChannelRejects
<1>13. CASE ~IsBusy(h) /\ ~IsWrong(h)
    <2>1. hdr' = h /\ astray' = (h.len < 0) /\ UNCHANGED <<out, status>>
        BY <1>2, <1>13
    <2>2. CASE h.len < 0
        <3>1. m \notin Sane
            BY <1>6, <1>8, <1>13, <2>2 DEF Sane, Wrong
        <3>2. /\ Over \in {"no", "closing"} /\ Transit # <<>> /\ Head(Transit) \notin Sane
              /\ Transit' = <<>> /\ Received' = <<>> /\ Over' = "astray"
            BY <1>1, <1>11, <2>1, <2>2, <3>1 DEF Transit, Received, Over
        <3>3. StreamInv'
            BY <2>1, <2>2 DEF StreamInv
        <3>4. QED
            BY <3>2, <3>3, ChannelStrays
    <2>3. CASE ~(h.len < 0)
        <3>1. m \in Sane \ Wrong
            BY <1>6, <1>8, <1>13, <2>3 DEF Sane, Wrong
        <3>2. hdr' # None
            BY <1>6, <2>1, FieldsAre, FramingAssumption
        <3>3. HeaderRead' = 4
            BY <3>2 DEF HeaderRead, HeaderLen
        <3>4. Len(buf') = Len(buf) - 4 /\ \A i \in 1..(Len(buf) - 4) : buf'[i] = buf[4 + i]
            <4>1. /\ Len(buf') = Len(buf) - 5 + 1
                  /\ \A i \in 1..(Len(buf) - 5 + 1) : buf'[i] = buf[5 + i - 1]
                <5>1. \A i \in 5..Len(buf) : buf[i] \in Cells
                    BY <1>3
                <5>2. /\ Len(buf') = IF 5 <= Len(buf) THEN Len(buf) - 5 + 1 ELSE 0
                      /\ \A i \in 1..(Len(buf) - 5 + 1) : buf'[i] = buf[5 + i - 1]
                    BY <1>3, <1>7, <5>1, SubSeqProperties
                <5>3. (IF 5 <= Len(buf) THEN Len(buf) - 5 + 1 ELSE 0) = Len(buf) - 5 + 1
                    <6>1. \A n \in Nat : 4 <= n => (IF 5 <= n THEN n - 5 + 1 ELSE 0) = n - 5 + 1
                        OBVIOUS
                    <6>2. QED
                        BY <1>3, <1>7, <6>1
                <5>4. QED
                    BY <5>2, <5>3
            <4>2. Len(buf) - 5 + 1 = Len(buf) - 4
                BY <1>3
            <4>3. \A i \in 1..(Len(buf) - 4) : 5 + i - 1 = 4 + i
                BY <1>3
            <4>4. QED
                BY <4>1, <4>2, <4>3
        <3>5. Pending' = Pending
            <4>1. Pending' = HeaderRead' + Len(buf') + Len(wire')
                BY PendingTypeNext DEF TInv
            <4>2. QED
                BY <1>1, <1>3, <1>7, <3>3, <3>4, <4>1
        <3>6. /\ \A i \in 1..Len(buf) : buf[i] = w[p[o] + 0 + i]
              /\ \A i \in 1..Len(wire) : wire[i] = w[p[o] + 0 + Len(buf) + i]
              /\ out \in Answers /\ o \in 0..N /\ p[o] + Pending <= p[N]
              /\ ~closed => p[o] + Pending = p[N] /\ u[N] - u[o] <= Pending
            BY <1>7 DEF IsRead
        <3>7. \A i \in 1..Len(buf') : buf'[i] = w[p[o] + HeaderRead' + i]
            <4>1. \A i \in 1..(Len(buf) - 4) : 4 + i \in 1..Len(buf) /\ p[o] + 0 + (4 + i) = p[o] + 4 + i
                <5>1. \A i \in 1..(Len(buf) - 4) : 4 + i \in 1..Len(buf)
                    BY <1>3
                <5>2. \A i \in 1..(Len(buf) - 4) : p[o] + 0 + (4 + i) = p[o] + 4 + i
                    <6>1. \A a, i \in Int : a + 0 + (4 + i) = a + 4 + i
                        OBVIOUS
                    <6>2. \A i \in 1..(Len(buf) - 4) : i \in Int
                        OBVIOUS
                    <6>3. p[o] \in Int
                        BY <1>3
                    <6>4. QED
                        BY <6>1, <6>2, <6>3
                <5>3. QED
                    BY <5>1, <5>2
            <4>2. QED
                BY <3>3, <3>4, <3>6, <4>1
        <3>8. \A i \in 1..Len(wire') : wire'[i] = w[p[o] + HeaderRead' + Len(buf') + i]
            <4>1. p[o] + 4 + (Len(buf) - 4) = p[o] + 0 + Len(buf)
                BY <1>3
            <4>2. QED
                BY <1>1, <3>3, <3>4, <3>6, <4>1
        <3>9. IsRead(s, w, p, u)'
            <4>1. \E x \in Sane \ Wrong : x = s[o + 1] /\ ~IsBusy(Fields(x)) /\ hdr' = Fields(x)
                BY <1>5, <1>6, <1>13, <2>1, <3>1
            <4>2. QED
                BY <1>1, <1>3, <1>4, <2>1, <3>5, <3>6, <3>7, <3>8, <4>1 DEF IsRead
        <3>10. Complete' = Complete
            BY <2>1, <3>5, <3>9, SameComplete
        <3>11. Transit' = Transit /\ Received' = Received /\ Over' = Over
            BY <1>1, <2>1, <2>3, <3>10 DEF Transit, Received, Over
        <3>12. ~astray'
            BY <2>1, <2>3
        <3>13. QED
            BY <3>9, <3>11, ChannelStays DEF StreamInv
    <2>4. QED
        BY <2>2, <2>3
<1>14. QED
    BY <1>10, <1>12, <1>13

\* Once a length meant nothing, or reading has ended, the channel stays as it is.
LEMMA OverStays ==
    ASSUME TInv, [Next]_vars, astray \/ status = "error"
    PROVE  StreamInv' /\ UNCHANGED Channel!vars
<1>1. CASE UNCHANGED vars
    <2>1. StreamInv'
        BY <1>1 DEF StreamInv, vars
    <2>2. QED
        BY <1>1, <2>1, SameState, ChannelStays
<1>2. CASE ~(UNCHANGED vars)
    <2>1. status = "reading" /\ Next
        BY <1>2 DEF Next, Done, Read, Receive, Header, Payload, EndOfStream, Write, Close
    <2>2. astray /\ astray'
        <3>1. astray
            BY <2>1
        <3>2. CASE Header
            <4>1. UNCHANGED astray \/ \E h : astray' = (astray \/ h.len < 0)
                BY <3>2 DEF Header
            <4>2. QED
                BY <3>1, <4>1
        <3>3. CASE ~Header
            <4>1. astray' = astray
                BY <2>1, <3>3 DEF Next, Done, Read, Receive, Payload, EndOfStream, Write, Close, vars
            <4>2. QED
                BY <3>1, <4>1
        <3>4. QED
            BY <3>2, <3>3
    <2>3. StreamInv' /\ Transit' = Transit /\ Received' = Received /\ Over' = Over
        BY <2>2 DEF StreamInv, Transit, Received, Over
    <2>4. QED
        BY <2>3, ChannelStays
<1>3. QED
    BY <1>1, <1>2

\* Every step keeps the reader in step and is one of the channel, or none.
LEMMA StreamStep ==
    TInv /\ TInv' /\ StreamInv /\ [Next]_vars => StreamInv' /\ [Channel!Next]_(Channel!vars)
<1> SUFFICES ASSUME TInv, TInv', StreamInv, [Next]_vars
             PROVE  StreamInv' /\ [Channel!Next]_(Channel!vars)
    OBVIOUS
<1>1. CASE astray \/ status = "error"
    BY <1>1, OverStays
<1>2. CASE ~(astray \/ status = "error")
    <2>1. PICK s, w, p, u : IsStream(s, w, p, u) /\ IsRead(s, w, p, u)
        BY <1>2 DEF StreamInv
    <2>2. CASE \E m \in Messages : Write(m)
        BY <1>2, <2>1, <2>2, WriteStep
    <2>3. CASE Close
        BY <1>2, <2>1, <2>3, CloseStep
    <2>4. CASE Receive
        BY <1>2, <2>1, <2>4, ReceiveStep
    <2>5. CASE EndOfStream
        BY <1>2, <2>1, <2>5, EndStep
    <2>6. CASE Header
        BY <1>2, <2>1, <2>6, HeaderStep
    <2>7. CASE Payload
        BY <1>2, <2>1, <2>7, PayloadStep
    <2>8. CASE UNCHANGED vars
        <3>1. HeaderRead' = HeaderRead /\ Pending' = Pending
            BY <2>8 DEF vars, HeaderRead, Pending
        <3>2. IsRead(s, w, p, u)'
            BY <2>1, <2>8, <3>1 DEF vars, IsRead
        <3>3. QED
            BY <2>1, <2>8, <3>2, SameState, ChannelStays DEF StreamInv
    <2>9. QED
        BY <2>2, <2>3, <2>4, <2>5, <2>6, <2>7, <2>8 DEF Next, Read, Done
<1>3. QED
    BY <1>1, <1>2

\* Nothing has been written.
LEMMA StreamInit == TInv /\ Init => StreamInv /\ Channel!Init
<1> SUFFICES ASSUME TInv, Init PROVE StreamInv /\ Channel!Init
    OBVIOUS
<1>1. /\ sent = <<>> /\ wire = <<>> /\ closed = FALSE /\ buf = <<>> /\ hdr = None
      /\ out = <<>> /\ status = "reading" /\ astray = FALSE
    BY DEF Init
<1>2. Len(<<>>) = 0 /\ Pending = 0
    BY <1>1 DEF Pending
<1>3. PICK p : p = [i \in 0..0 |-> 0]
    OBVIOUS
<1>4. p \in [0..0 -> Nat] /\ p[0] = 0 /\ \A i \in 0..0 : p[i] = 0
    BY <1>3
<1>5. IsStream(<<>>, <<>>, p, p)
    <2>1. <<>> \in Seq(Cells)
        OBVIOUS
    <2>2. \A n \in 1..0 : FALSE
        OBVIOUS
    <2>3. QED
        BY <1>2, <1>4, <2>1, <2>2 DEF IsStream
<1>6. IsRead(<<>>, <<>>, p, p)
    <2>1. <<>> \in Answers
        BY DEF Answers
    <2>2. \A n \in 1..0 : FALSE
        OBVIOUS
    <2>3. 0 \in 0..0 /\ 0 + 0 <= 0 /\ 0 + 0 = 0 /\ 0 - 0 <= 0
        OBVIOUS
    <2>4. QED
        BY <1>1, <1>2, <1>4, <2>1, <2>2, <2>3 DEF IsRead
<1>7. StreamInv
    BY <1>5, <1>6 DEF StreamInv
<1>8. Complete = <<>>
    <2>1. PICK l : IsLast(l, p) /\ Complete = SubSeq(sent, Len(out) + 1, l)
        BY <1>5, <1>6, CompleteIs DEF TInv
    <2>2. l \in 0..0
        BY <1>1, <1>2, <2>1 DEF IsLast
    <2>3. l = 0
        BY <2>2
    <2>4. SubSeq(<<>>, 0 + 1, 0) = <<>>
        OBVIOUS
    <2>5. QED
        BY <1>1, <1>2, <2>1, <2>3, <2>4
<1>9. Transit = <<>> /\ Received = <<>> /\ Over = "no"
    BY <1>1, <1>8 DEF Transit, Received, Over
<1>10. Channel!Init
    BY <1>9 DEF Channel!Init, Transit, Received, Over
<1>11. QED
    BY <1>7, <1>10

-----------------------------------------------------------------------------
(* The theorems.                                                           *)

\* What has been read keeps its type, and the payload the reader waits for is
\* never longer than MAX_LENGTH (MessageProtocol.__anext__).
THEOREM TypeCorrect == Spec => []TypeOK
<1>1. TInv => TypeOK
    BY DEF TInv
<1>2. QED
    BY <1>1, TypesInit, TypesNext, PTL DEF Spec

\* The buffer never holds as much as the longest message and one piece of the
\* stream, for any peer: the check of the length bounds it
\* (MessageProtocol._read_buf and __anext__).
THEOREM MemoryIsBounded == Spec => []BufferBounded
<1>1. TInv => BufferBounded
    BY DEF TInv
<1>2. QED
    BY <1>1, TypesInit, TypesNext, PTL DEF Spec

\* A reader gets the messages that were written, whole, once and in order,
\* until the connection ends or one of them cannot be read: MessageProtocol
\* implements a channel of messages, for any messages, any length of them
\* allowed, and a stream cut into pieces and ended anywhere.
THEOREM WholeMessages == Spec => ChannelOfMessages
<1>1. Init => TInv /\ StreamInv /\ Channel!Init
    BY TypesInit, StreamInit
<1>2. TInv /\ StreamInv /\ [Next]_vars =>
          TInv' /\ StreamInv' /\ [Channel!Next]_(Channel!vars)
    BY TypesNext, StreamStep
<1>3. QED
    BY <1>1, <1>2, PTL DEF Spec, ChannelOfMessages, Channel!Safety
=============================================================================
