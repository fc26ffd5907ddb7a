-------------------------- MODULE ServerConnProofs --------------------------
(***************************************************************************)
(* Theorems about ServerConn, for every set of calls, queue capacity and   *)
(* number of connections.                                                  *)
(***************************************************************************)
EXTENDS ServerConn, TLAPS, SequenceTheorems, FiniteSetTheorems

-----------------------------------------------------------------------------
(* Sequences.                                                              *)

\* Taking the first item of a concatenation takes it from the first part.
LEMMA HeadTailCat ==
    ASSUME NEW S, NEW s \in Seq(S), NEW t \in Seq(S), s # <<>>
    PROVE  Head(s \o t) = Head(s) /\ Tail(s \o t) = Tail(s) \o t
<1>1. Len(s) \in Nat /\ Len(t) \in Nat /\ Len(s) > 0 OBVIOUS
<1>2. s \o t \in Seq(S) /\ Len(s \o t) = Len(s) + Len(t) OBVIOUS
<1>3. \A i \in 1..Len(s) : (s \o t)[i] = s[i] OBVIOUS
<1>4. \A i \in (Len(s)+1)..(Len(s)+Len(t)) : (s \o t)[i] = t[i - Len(s)]
  OBVIOUS
<1>5. Head(s \o t) = Head(s) BY <1>1, <1>2, <1>3
<1>6. Tail(s \o t) \in Seq(S) /\ Tail(s) \in Seq(S)
      /\ Len(Tail(s \o t)) = Len(s) + Len(t) - 1 /\ Len(Tail(s)) = Len(s) - 1
  BY <1>1, <1>2
<1>7. /\ Tail(s) \o t \in Seq(S)
      /\ Len(Tail(s) \o t) = Len(s) - 1 + Len(t)
  BY <1>1, <1>6
<1>8. ASSUME NEW i \in 1..(Len(s) + Len(t) - 1)
      PROVE  Tail(s \o t)[i] = (Tail(s) \o t)[i]
  <2>1. Tail(s \o t)[i] = (s \o t)[i + 1] BY <1>1, <1>2
  <2>2. CASE i < Len(s) BY <1>1, <1>3, <1>6, <2>1, <2>2
  <2>3. CASE i >= Len(s) BY <1>1, <1>4, <1>6, <2>1, <2>3
  <2> QED BY <1>1, <2>2, <2>3
<1>9. Tail(s \o t) = Tail(s) \o t
  BY <1>1, <1>6, <1>7, <1>8, SeqEqual
<1> QED BY <1>5, <1>9

\* Moving an item from the front of one part to the end of the part before.
LEMMA MoveCat ==
    ASSUME NEW S, NEW s \in Seq(S), NEW c \in Seq(S), NEW w \in Seq(S),
           c # <<>>
    PROVE  Append(s, Head(c)) \o Tail(c) \o w = s \o c \o w
<1>1. /\ Head(c) \in S /\ Tail(c) \in Seq(S) /\ c = <<Head(c)>> \o Tail(c)
  BY HeadTailProperties
<1>2. Append(s, Head(c)) = s \o <<Head(c)>> BY <1>1
<1>3. <<Head(c)>> \in Seq(S) BY <1>1
<1>4. (s \o <<Head(c)>>) \o Tail(c) = s \o (<<Head(c)>> \o Tail(c))
  BY <1>1, <1>3, ConcatAssociative
<1> QED BY <1>1, <1>2, <1>4

\* Appending an item to a concatenation appends it to the last part.
LEMMA AppendCat ==
    ASSUME NEW S, NEW s \in Seq(S), NEW c \in Seq(S), NEW x \in S
    PROVE  /\ Append(s \o c \o <<>>, x) = s \o c \o <<x>>
           /\ s \o Append(c, x) \o <<>> = s \o c \o <<x>>
<1>1. s \o c \in Seq(S) /\ <<x>> \in Seq(S) /\ Append(c, x) \in Seq(S) OBVIOUS
<1>2. s \o c \o <<>> = s \o c BY <1>1, ConcatEmptySeq
<1>3. s \o Append(c, x) \o <<>> = s \o Append(c, x) BY <1>1, ConcatEmptySeq
<1>4. Append(s \o c, x) = s \o c \o <<x>> BY <1>1
<1>5. Append(c, x) = c \o <<x>> BY <1>1
<1>6. s \o (c \o <<x>>) = s \o c \o <<x>> BY <1>1, ConcatAssociative
<1> QED BY <1>2, <1>3, <1>4, <1>5, <1>6

-----------------------------------------------------------------------------
(* How often a message occurs in a sequence.                               *)

\* A count is a natural number, zero when the message is nowhere.
LEMMA CountType ==
    ASSUME NEW S, NEW s \in Seq(S), NEW m
    PROVE  /\ Count(m, s) \in Nat
           /\ Count(m, s) = 0 <=> \A i \in 1..Len(s) : s[i] # m
           /\ IsFiniteSet({i \in 1..Len(s) : s[i] = m})
<1> DEFINE C == {i \in 1..Len(s) : s[i] = m}
<1>1. IsFiniteSet(1..Len(s)) BY FS_Interval
<1>2. C \subseteq 1..Len(s) OBVIOUS
<1>3. IsFiniteSet(C) BY <1>1, <1>2, FS_Subset
<1>4. Cardinality(C) \in Nat /\ (Cardinality(C) = 0 <=> C = {})
  BY <1>3, FS_CardinalityType, FS_EmptySet
<1> QED BY <1>3, <1>4 DEF Count

\* The message counts once more after it was appended.
LEMMA CountAppend ==
    ASSUME NEW S, NEW s \in Seq(S), NEW x \in S, NEW m
    PROVE  Count(m, Append(s, x)) = Count(m, s) + (IF x = m THEN 1 ELSE 0)
<1> DEFINE C == {i \in 1..Len(s) : s[i] = m}
           A == {i \in 1..Len(Append(s, x)) : Append(s, x)[i] = m}
<1>1. /\ Len(Append(s, x)) = Len(s) + 1 /\ Len(s) \in Nat
      /\ \A i \in 1..Len(s) : Append(s, x)[i] = s[i]
      /\ Append(s, x)[Len(s) + 1] = x
  OBVIOUS
<1>2. IsFiniteSet(C) BY CountType
<1>5. Count(m, s) = Cardinality(C) /\ Count(m, Append(s, x)) = Cardinality(A)
  BY DEF Count
<1>3. CASE x = m
  <2>1. A = C \cup {Len(s) + 1} BY <1>1, <1>3
  <2>2. Len(s) + 1 \notin C BY <1>1
  <2>3. Cardinality(C \cup {Len(s) + 1}) = Cardinality(C) + 1
    BY <1>2, <2>2, FS_AddElement
  <2> HIDE DEF C, A
  <2> QED BY <1>3, <1>5, <2>1, <2>3
<1>4. CASE x # m
  <2>1. A = C BY <1>1, <1>4
  <2>2. Count(m, s) \in Nat BY CountType
  <2> HIDE DEF C, A
  <2> QED BY <1>4, <1>5, <2>1, <2>2
<1> QED BY <1>3, <1>4

\* The counts of two sequences add up.
LEMMA CountCat ==
    ASSUME NEW S, NEW s \in Seq(S), NEW t \in Seq(S), NEW m
    PROVE  Count(m, s \o t) = Count(m, s) + Count(m, t)
<1> DEFINE C == {i \in 1..Len(s) : s[i] = m}
           D == {i \in 1..Len(t) : t[i] = m}
           B == {i \in 1..Len(s \o t) : (s \o t)[i] = m}
           E == {i \in (Len(s) + 1)..(Len(s) + Len(t)) : t[i - Len(s)] = m}
           f == [i \in D |-> i + Len(s)]
<1>1. /\ Len(s) \in Nat /\ Len(t) \in Nat /\ Len(s \o t) = Len(s) + Len(t)
      /\ \A i \in 1..Len(s) : (s \o t)[i] = s[i]
      /\ \A i \in (Len(s) + 1)..(Len(s) + Len(t)) : (s \o t)[i] = t[i - Len(s)]
  OBVIOUS
<1>2. IsFiniteSet(C) /\ IsFiniteSet(D) BY CountType
<1>3. IsFiniteSet(E) /\ Cardinality(E) = Cardinality(D)
  <2>1. \A i \in D : i + Len(s) \in E BY <1>1
  <2>2. \A e \in E : e - Len(s) \in D /\ f[e - Len(s)] = e BY <1>1
  <2>3. f \in Bijection(D, E) 
    <3>1. f \in [D -> E] BY <2>1
    <3>2. \A a, b \in D : f[a] = f[b] => a = b BY <1>1
    <3>3. \A e \in E : \E d \in D : f[d] = e BY <2>2
    <3> HIDE DEF f, D, E
    <3>4. DOMAIN f = D BY <3>1
    <3>5. IsInjective(f) BY <3>2, <3>4 DEF IsInjective
    <3> QED BY <3>1, <3>3, <3>5 DEF Bijection, Injection, Surjection
  <2> HIDE DEF f, D, E
  <2> QED BY <1>2, <2>3, FS_Bijection DEF ExistsBijection
<1>4. C \cap E = {} BY <1>1
<1>5. B = C \cup E BY <1>1
<1>6. Cardinality(C \cup E) = Cardinality(C) + Cardinality(E) - Cardinality(C \cap E)
  BY <1>2, <1>3, FS_Union
<1>7. Cardinality(C) \in Nat /\ Cardinality(E) \in Nat /\ Cardinality({}) = 0
  BY <1>2, <1>3, FS_CardinalityType, FS_EmptySet
<1>8. /\ Count(m, s) = Cardinality(C) /\ Count(m, t) = Cardinality(D)
      /\ Count(m, s \o t) = Cardinality(B)
  BY DEF Count
<1> HIDE DEF B, C, D, E
<1>9. Cardinality(C \cap E) = 0 BY ONLY <1>4, <1>7
<1>10. Cardinality(B) = Cardinality(C \cup E) BY ONLY <1>5
<1>11. Cardinality(B) = Cardinality(C) + Cardinality(E)
  BY ONLY <1>6, <1>7, <1>9, <1>10
<1> QED BY ONLY <1>3, <1>8, <1>11

\* One item.
LEMMA CountOne ==
    ASSUME NEW S, NEW x \in S, NEW m
    PROVE  Count(m, <<x>>) = IF x = m THEN 1 ELSE 0
<1>1. <<>> \in Seq(S) /\ Append(<<>>, x) = <<x>> OBVIOUS
<1>2. Count(m, Append(<<>>, x)) = Count(m, <<>>) + (IF x = m THEN 1 ELSE 0)
  BY ONLY <1>1, x \in S, CountAppend
<1>3. Count(m, <<>>) = 0
  <2>1. \A i \in 1..Len(<<>>) : <<>>[i] # m OBVIOUS
  <2> QED BY ONLY <1>1, <2>1, CountType
<1> QED BY <1>1, <1>2, <1>3

\* The message counts once less after it was taken from the front.
LEMMA CountTail ==
    ASSUME NEW S, NEW s \in Seq(S), s # <<>>, NEW m
    PROVE  /\ Count(m, s) = Count(m, Tail(s)) + (IF Head(s) = m THEN 1 ELSE 0)
           /\ Count(m, Tail(s)) \in Nat
<1>1. /\ Head(s) \in S /\ Tail(s) \in Seq(S) /\ s = <<Head(s)>> \o Tail(s)
  BY HeadTailProperties
<1>2. <<Head(s)>> \in Seq(S) BY <1>1
<1>3. Count(m, <<Head(s)>> \o Tail(s)) = Count(m, <<Head(s)>>) + Count(m, Tail(s))
  BY ONLY <1>1, <1>2, CountCat
<1>6. Count(m, s) = Count(m, <<Head(s)>>) + Count(m, Tail(s)) BY <1>1, <1>3
<1>4. Count(m, <<Head(s)>>) = IF Head(s) = m THEN 1 ELSE 0 BY <1>1, CountOne
<1>5. Count(m, Tail(s)) \in Nat BY <1>1, CountType
<1> QED BY ONLY <1>4, <1>5, <1>6

\* Removing the i-th item.
LEMMA CountRemove ==
    ASSUME NEW S, NEW s \in Seq(S), NEW i \in 1..Len(s), NEW m
    PROVE  /\ Count(m, s) = Count(m, RemoveAt(s, i)) + (IF s[i] = m THEN 1 ELSE 0)
           /\ Count(m, RemoveAt(s, i)) \in Nat
<1> DEFINE a == SubSeq(s, 1, i-1)
           b == SubSeq(s, i+1, Len(s))
           r == SubSeq(s, i, Len(s))
<1>1. Len(s) \in Nat /\ i \in Nat /\ s[i] \in S OBVIOUS
<1>2. a \in Seq(S) /\ b \in Seq(S) /\ r \in Seq(S)
  BY <1>1, SubSeqProperties
<1>3. /\ Len(a) = i - 1 /\ \A j \in 1..(i-1) : a[j] = s[j]
      /\ Len(r) = Len(s) - i + 1 /\ \A j \in 1..(Len(s) - i + 1) : r[j] = s[i + j - 1]
      /\ Len(b) = Len(s) - i /\ \A j \in 1..(Len(s) - i) : b[j] = s[i + j]
  <2>1. Len(a) = i - 1 /\ \A j \in 1..(i-1) : a[j] = s[j]
    BY <1>1, SubSeqProperties
  <2>2. Len(r) = Len(s) - i + 1 /\ \A j \in 1..(Len(s) - i + 1) : r[j] = s[i + j - 1]
    BY <1>1, SubSeqProperties
  <2>3. CASE i < Len(s) BY <1>1, <2>3, SubSeqProperties
  <2>4. CASE i = Len(s) BY <1>1, <2>4, SubSeqEmpty
  <2> QED BY <1>1, <2>1, <2>2, <2>3, <2>4
<1> HIDE DEF a, b, r
<1>4. r # <<>> /\ Head(r) = s[i] /\ Tail(r) = b
  <2>1. Len(r) \in Nat /\ Len(r) > 0 BY <1>1, <1>3
  <2>2. r # <<>> BY <1>2, <2>1
  <2>3. Head(r) = s[i] BY <1>1, <1>2, <1>3, <2>1, <2>2, HeadTailProperties
  <2>4. /\ Tail(r) \in Seq(S) /\ Len(Tail(r)) = Len(r) - 1
        /\ \A j \in 1..Len(Tail(r)) : Tail(r)[j] = r[j + 1]
    BY <1>2, <2>2, HeadTailProperties
  <2>a. Len(r) = Len(s) - i + 1 /\ Len(b) = Len(s) - i BY <1>3
  <2>b. Len(Tail(r)) = Len(r) - 1 BY <2>4
  <2>6. Len(Tail(r)) = Len(s) - i /\ Len(b) = Len(s) - i
    BY ONLY <1>1, <2>a, <2>b
  <2>c. \A j \in 1..(Len(s) - i + 1) : r[j] = s[i + j - 1] BY <1>3
  <2>d. \A j \in 1..(Len(s) - i) : b[j] = s[i + j] BY <1>3
  <2>e. \A j \in 1..Len(Tail(r)) : Tail(r)[j] = r[j + 1] BY <2>4
  <2>5. \A j \in 1..Len(Tail(r)) : Tail(r)[j] = b[j]
    <3> SUFFICES ASSUME NEW j \in 1..Len(Tail(r)) PROVE Tail(r)[j] = b[j]
      OBVIOUS
    <3>1. j \in 1..(Len(s) - i) /\ j + 1 \in 1..(Len(s) - i + 1)
      BY ONLY <1>1, <2>6, j \in 1..Len(Tail(r))
    <3>2. Tail(r)[j] = r[j + 1] BY <2>e
    <3>3. r[j + 1] = s[i + (j + 1) - 1] BY <2>c, <3>1
    <3>4. i + (j + 1) - 1 = i + j BY ONLY <1>1, <3>1
    <3>5. b[j] = s[i + j] BY <2>d, <3>1
    <3> QED BY ONLY <3>2, <3>3, <3>4, <3>5
  <2>7. Tail(r) = b BY ONLY <1>2, <2>4, <2>5, <2>6, SeqEqual
  <2> QED BY <2>2, <2>3, <2>7
<1>5. a \o r = s
  <2>1. /\ a \o r \in Seq(S) /\ Len(a \o r) = Len(a) + Len(r)
        /\ \A j \in 1..Len(a \o r) : (a \o r)[j] = IF j <= Len(a) THEN a[j] ELSE r[j - Len(a)]
    BY <1>2, ConcatProperties
  <2>2. Len(a \o r) = Len(s) BY <1>1, <1>3, <2>1
  <2>3. ASSUME NEW j \in 1..Len(a \o r) PROVE (a \o r)[j] = s[j]
    <3>1. j \in Nat /\ j >= 1 /\ j <= Len(s) BY <1>1, <2>2
    <3>2. CASE j <= i - 1
      <4>1. j \in 1..(i-1) /\ j <= Len(a) BY ONLY <1>1, <1>3, <3>1, <3>2
      <4>2. a[j] = s[j] BY <1>3, <4>1
      <4> QED BY <2>1, <4>1, <4>2
    <3>3. CASE ~(j <= i - 1)
      <4> DEFINE k == j - (i - 1)
      <4>1. k \in 1..(Len(s) - i + 1) /\ i + k - 1 = j /\ ~(j <= Len(a)) /\ j - Len(a) = k
        BY ONLY <1>1, <1>3, <3>1, <3>3
      <4> HIDE DEF k
      <4>2. r[k] = s[j] BY <1>3, <4>1
      <4> QED BY <2>1, <4>1, <4>2
    <3> QED BY <3>2, <3>3
  <2> QED BY ONLY s \in Seq(S), <2>1, <2>2, <2>3, SeqEqual
<1>6. RemoveAt(s, i) = a \o b BY DEF RemoveAt, a, b
<1>7. Count(m, s) = Count(m, a) + Count(m, r) BY ONLY <1>2, <1>5, CountCat
<1>8. Count(m, a \o b) = Count(m, a) + Count(m, b) BY ONLY <1>2, CountCat
<1>9. Count(m, r) = Count(m, b) + (IF s[i] = m THEN 1 ELSE 0)
  BY ONLY <1>2, <1>4, CountTail
<1>10. Count(m, a) \in Nat /\ Count(m, b) \in Nat BY <1>2, CountType
<1> QED BY <1>6, <1>7, <1>8, <1>9, <1>10

-----------------------------------------------------------------------------
(* Types.                                                                  *)

\* A suspended sender's item can be withdrawn, and what is left is a queue.
LEMMA WithdrawType ==
    ASSUME NEW m, wqueue \in Seq(AllMsgs), Waiting(m)
    PROVE  Withdraw(m) \in Seq(AllMsgs)
<1> DEFINE P(i) == i > QueueSize /\ wqueue[i] = m
<1>1. PICK i \in 1..Len(wqueue) :
         /\ i = CHOOSE k \in 1..Len(wqueue) : k > QueueSize /\ wqueue[k] = m
         /\ P(i)
  BY DEF Waiting
<1>2. Len(wqueue) \in Nat OBVIOUS
<1>3. SubSeq(wqueue, 1, i-1) \in Seq(AllMsgs)
  BY <1>1, <1>2, SubSeqProperties
<1>4. SubSeq(wqueue, i+1, Len(wqueue)) \in Seq(AllMsgs)
  BY <1>1, <1>2, SubSeqProperties
<1> QED BY <1>1, <1>3, <1>4 DEF Withdraw, RemoveAt

\* The handshake of a connection is a message.
LEMMA HandshakeType ==
    ASSUME NEW n \in 1..MaxConn
    PROVE  Handshake(n) \in AllMsgs /\ Handshake(n) \notin Msgs
BY ConstantsAssumption DEF AllMsgs, Handshakes

\* "No message" is not a message.
LEMMA NoMsgIsNone == NoMsg \notin AllMsgs
BY ConstantsAssumption DEF AllMsgs, Handshakes

\* Between connections nothing of the last one is left.
Quiet ==
    /\ reader = "off" /\ writer = "off" /\ tg = "off"
    /\ peer = "none" /\ c2s = <<>> /\ s2c = <<>> /\ busy = 0

\* What TypeOK needs to be inductive: which local variables hold a message
\* at which point of the main task and of the writer.
Shape ==
    /\ writer = "writing" => wmsg \in AllMsgs
    /\ writer # "writing" => wmsg = NoMsg
    /\ main = "blocked" => cur \in AllMsgs
    /\ main \in {"connecting", "backoff", "ended", "crashed"} => Quiet
    /\ main \notin {"connecting", "ended"} => epoch # 0
    /\ val # "unset" => epoch # 0 \/ main = "ended"
    /\ val = "set" => epoch # 0
    /\ ml # <<>> => main \in {"waitTasks", "resend", "blocked"}
    /\ closer # "idle" => tg # "running"

TypeInv == TypeOK /\ Shape

\* The invariant of the types holds at first
LEMMA TypeInit == Init => TypeInv
<1> SUFFICES ASSUME Init PROVE TypeInv OBVIOUS
<1>1. TypeOK BY ConstantsAssumption DEF Init, TypeOK, MainStates
<1>2. Shape BY DEF Init, Shape, Quiet
<1> QED BY <1>1, <1>2 DEF TypeInv

\* and every step keeps it.
LEMMA TypeStep == TypeInv /\ [Next]_vars => TypeInv'
<1> SUFFICES ASSUME TypeOK, Shape, [Next]_vars PROVE TypeOK' /\ Shape'
  BY DEF TypeInv
<1> USE DEF TypeOK, Shape, MainStates, callVars, holders, tasks, wire
<1>1. CASE ResendSkip
  BY <1>1, HeadTailProperties DEF ResendSkip, Quiet
<1>2. CASE ResendSend
  BY <1>2, HeadTailProperties DEF ResendSend, Quiet
<1>3. CASE SendHandshake
  BY <1>3, HandshakeType DEF SendHandshake, Quiet
<1>4. CASE Connect
  BY <1>4, ConstantsAssumption DEF Connect, Quiet
<1>5. CASE ConnectFails
  BY <1>5 DEF ConnectFails, AfterError, Quiet
<1>6. CASE Backoff
  BY <1>6 DEF Backoff, Quiet
<1>7. CASE Stop
  BY <1>7 DEF Stop, Quiet
<1>8. CASE TasksUp
  BY <1>8 DEF TasksUp, Quiet
<1>9. CASE CancelledWaiting
  BY <1>9 DEF CancelledWaiting, Quiet
<1>10. CASE ResendAdmitted
  BY <1>10 DEF ResendAdmitted, Quiet
<1>11. CASE ResendRetry
  BY <1>11, WithdrawType DEF ResendRetry, Quiet
<1>12. CASE HandshakeDone
  BY <1>12 DEF HandshakeDone, Quiet
<1>13. CASE CancelledHandshake
  BY <1>13, WithdrawType DEF CancelledHandshake, Quiet
<1>14. CASE Join
  <2>1. /\ epoch \in 1..MaxConn
        /\ late' \subseteq (1..MaxConn) \X Msgs
    BY <1>14, ConstantsAssumption DEF Join
  <2>2. /\ main' \in {"connecting", "backoff", "ended", "crashed"}
        /\ val' \in {"unset", "set", "error"}
        /\ val' = val \/ main' = "ended"
    BY <1>14 DEF Join, AfterJoin, AfterError
  <2> QED BY <1>14, <2>1, <2>2 DEF Join, Quiet
<1>15. CASE ReaderReply
  BY <1>15, HeadTailProperties DEF ReaderReply, Quiet
<1>16. CASE ReaderBusy
  BY <1>16 DEF ReaderBusy, Quiet
<1>17. CASE ReaderEof
  BY <1>17 DEF ReaderEof, Quiet
<1>18. CASE ReaderTimeout
  BY <1>18 DEF ReaderTimeout, Quiet
<1>19. CASE ReaderCancelled
  BY <1>19 DEF ReaderCancelled, Quiet
<1>20. CASE WriterReceive
  BY <1>20, HeadTailProperties DEF WriterReceive, Quiet
<1>21. CASE WriterIdle
  BY <1>21 DEF WriterIdle, AllMsgs, Quiet
<1>22. CASE WriterWritten
  <2>1. c2s' \in Seq(AllMsgs) /\ wmsg \in AllMsgs
    BY <1>22 DEF WriterWritten
  <2>2. main \notin {"connecting", "backoff", "ended", "crashed"}
    BY <1>22 DEF WriterWritten, Quiet
  <2> QED BY <1>22, <2>1, <2>2 DEF WriterWritten
<1>23. CASE WriterBroken
  BY <1>23 DEF WriterBroken, Quiet
<1>24. CASE WriterCancelled
  BY <1>24 DEF WriterCancelled, Quiet
<1>25. CASE PeerExecute
  BY <1>25, HeadTailProperties DEF PeerExecute, Executed, Quiet
<1>26. CASE PeerBusy
  BY <1>26 DEF PeerBusy, Quiet
<1>27. CASE PeerClose
  <2>1. peer' \in {"closed", "cut"} /\ main \notin {"connecting", "backoff",
                                                  "ended", "crashed"}
    BY <1>27 DEF PeerClose, Quiet
  <2>2. s2c' \in Seq(AllMsgs)
    <3>1. PICK k \in 0..Len(s2c) : s2c' = SubSeq(s2c, 1, k)
      BY <1>27 DEF PeerClose
    <3> QED BY <3>1, SubSeqProperties
  <2> QED BY <1>27, <2>1, <2>2 DEF PeerClose
<1>28. CASE PeerLate
  BY <1>28 DEF PeerLate, Executed, Quiet
<1>29. ASSUME NEW m \in Msgs, Chat(m) PROVE TypeOK' /\ Shape'
  BY <1>29 DEF Chat, AllMsgs, Quiet
<1>30. ASSUME NEW m \in Msgs, Leave(m) PROVE TypeOK' /\ Shape'
  BY <1>30, WithdrawType DEF Leave, Quiet
<1>31. CASE AcloseCancel
  BY <1>31 DEF AcloseCancel, Quiet
<1>32. CASE AcloseFail
  BY <1>32 DEF AcloseFail, Quiet
<1>33. CASE ReaderCut
  BY <1>33 DEF ReaderCut, Quiet
<1>34. CASE UNCHANGED vars
  BY <1>34 DEF vars, Quiet
<1> QED
  BY <1>1, <1>2, <1>3, <1>4, <1>5, <1>6, <1>7, <1>8, <1>9, <1>10, <1>11, <1>12, <1>13, <1>14, <1>15, <1>16, <1>17, <1>18, <1>19, <1>20, <1>21, <1>22, <1>23, <1>24, <1>25, <1>26, <1>27, <1>28, <1>29, <1>30, <1>31, <1>32, <1>33, <1>34
  DEF Next, ResendStep, MainStep, ReaderStep, WriterStep, PeerStep, CallerStep,
      CloserStep, Terminated

\* Every variable keeps its type, in every behaviour.
THEOREM TypeCorrect == Spec => []TypeOK
<1>1. TypeInv => TypeOK BY DEF TypeInv
<1> QED BY <1>1, TypeInit, TypeStep, PTL DEF Spec

-----------------------------------------------------------------------------
(* Answers find their requests.                                            *)

\* What the writer holds.
Writing == IF wmsg = NoMsg THEN <<>> ELSE <<wmsg>>

\* The writer takes x: it becomes the last outstanding request.
LEMMA FifoTake ==
    ASSUME TypeInv, Fifo, NEW x \in AllMsgs, writer = "recv",
           requests' = Append(requests, x), wmsg' = x,
           UNCHANGED <<s2c, c2s, peer, tg>>
    PROVE  Fifo'
<1> USE DEF TypeInv, TypeOK, Shape
<1>1. wmsg = NoMsg /\ wmsg' # NoMsg BY NoMsgIsNone
<1>2. CASE tg = "running" /\ peer = "open"
  <2>1. requests = s2c \o c2s \o <<>> BY <1>1, <1>2 DEF Fifo, Outstanding
  <2>2. s2c \in Seq(AllMsgs) /\ c2s \in Seq(AllMsgs) OBVIOUS
  <2>3. Append(s2c \o c2s \o <<>>, x) = s2c \o c2s \o <<x>>
    BY ONLY <2>2, x \in AllMsgs, AppendCat
  <2>4. requests' = s2c \o c2s \o <<x>> BY <2>1, <2>3
  <2> QED BY <1>1, <1>2, <2>4 DEF Fifo, Outstanding
<1>3. CASE tg = "running" /\ peer # "open"
  <2>1. \A i \in 1..Len(requests) : Append(requests, x)[i] = requests[i]
    OBVIOUS
  <2>2. Len(Append(requests, x)) = Len(requests) + 1 OBVIOUS
  <2> QED BY <1>3, <2>1, <2>2 DEF Fifo
<1>4. CASE tg # "running" BY <1>4 DEF Fifo
<1> QED BY <1>2, <1>3, <1>4

\* A reply takes the oldest request, and its answer is the one that arrives.
LEMMA FifoReply ==
    ASSUME TypeInv, Fifo, ReaderReply
    PROVE  Fifo' /\ Head(requests) = Head(s2c)
<1> USE DEF TypeInv, TypeOK, ReaderReply
<1>1. /\ Writing \in Seq(AllMsgs) /\ c2s \in Seq(AllMsgs)
      /\ s2c \in Seq(AllMsgs) /\ s2c # <<>>
      /\ c2s \o Writing \in Seq(AllMsgs)
  BY DEF Writing
<1>t. Tail(s2c) \in Seq(AllMsgs) BY <1>1, HeadTailProperties
<1>2. CASE peer = "open"
  <2>1. requests = s2c \o c2s \o Writing BY <1>2 DEF Fifo, Outstanding, Writing
  <2>2. /\ s2c \o c2s \o Writing = s2c \o (c2s \o Writing)
        /\ Tail(s2c) \o c2s \o Writing = Tail(s2c) \o (c2s \o Writing)
    <3>1. s2c \o c2s \o Writing = s2c \o (c2s \o Writing)
      BY ONLY <1>1, ConcatAssociative
    <3>2. Tail(s2c) \o c2s \o Writing = Tail(s2c) \o (c2s \o Writing)
      BY ONLY <1>1, <1>t, ConcatAssociative
    <3> QED BY ONLY <3>1, <3>2
  <2>h. /\ Head(s2c \o (c2s \o Writing)) = Head(s2c)
        /\ Tail(s2c \o (c2s \o Writing)) = Tail(s2c) \o (c2s \o Writing)
    BY ONLY <1>1, HeadTailCat
  <2>3. /\ Head(requests) = Head(s2c)
        /\ Tail(requests) = Tail(s2c) \o c2s \o Writing
    BY <2>1, <2>2, <2>h
  <2> QED BY <1>2, <2>3 DEF Fifo, Outstanding, Writing, tasks
<1>3. CASE peer # "open"
  <2>1. /\ Len(s2c) <= Len(requests)
        /\ \A i \in 1..Len(s2c) : s2c[i] = requests[i]
    BY <1>3 DEF Fifo
  <2>2. /\ Len(Tail(s2c)) = Len(s2c) - 1 /\ Len(Tail(requests)) = Len(requests) - 1
        /\ \A i \in 1..Len(Tail(s2c)) : Tail(s2c)[i] = s2c[i + 1]
        /\ \A i \in 1..Len(Tail(requests)) : Tail(requests)[i] = requests[i + 1]
    BY HeadTailProperties
  <2>3. \A i \in 1..Len(Tail(s2c)) : Tail(s2c)[i] = Tail(requests)[i]
    BY <2>1, <2>2
  <2>4. Head(requests) = Head(s2c) BY <2>1
  <2> QED BY <1>3, <2>1, <2>2, <2>3, <2>4 DEF Fifo, tasks
<1> QED BY <1>2, <1>3

\* Written bytes are the last outstanding request.
LEMMA FifoWritten ==
    ASSUME TypeInv, Fifo, WriterWritten
    PROVE  Fifo'
<1> USE DEF TypeInv, TypeOK, Shape, WriterWritten
<1>1. wmsg \in AllMsgs /\ wmsg # NoMsg /\ wmsg' = NoMsg BY NoMsgIsNone
<1>2. CASE peer = "open"
  <2>1. requests = s2c \o c2s \o <<wmsg>> BY <1>1, <1>2 DEF Fifo, Outstanding
  <2>c. s2c \in Seq(AllMsgs) /\ c2s \in Seq(AllMsgs) OBVIOUS
  <2>a. s2c \o Append(c2s, wmsg) \o <<>> = s2c \o c2s \o <<wmsg>>
    BY ONLY <1>1, <2>c, AppendCat
  <2>2. requests = s2c \o c2s' \o <<>> BY <1>2, <2>1, <2>a
  <2> QED BY <1>1, <1>2, <2>2 DEF Fifo, Outstanding
<1>3. CASE peer # "open" BY <1>3 DEF Fifo
<1> QED BY <1>2, <1>3

\* Executing a request turns it into an answer.
LEMMA FifoExecute ==
    ASSUME TypeInv, Fifo, PeerExecute
    PROVE  Fifo'
<1> USE DEF TypeInv, TypeOK, PeerExecute
<1>1. Writing \in Seq(AllMsgs) BY DEF Writing
<1>c. s2c \in Seq(AllMsgs) /\ c2s \in Seq(AllMsgs) /\ c2s # <<>> OBVIOUS
<1>a. Append(s2c, Head(c2s)) \o Tail(c2s) \o Writing = s2c \o c2s \o Writing
  BY ONLY <1>1, <1>c, MoveCat
<1>2. s2c' \o c2s' \o Writing = s2c \o c2s \o Writing BY <1>a
<1> QED BY <1>2 DEF Fifo, Outstanding, Writing, holders, tasks

\* A lost connection keeps a prefix of the answers.
LEMMA FifoClose ==
    ASSUME TypeInv, Fifo, PeerClose
    PROVE  Fifo'
<1> USE DEF TypeInv, TypeOK, PeerClose
<1>1. CASE tg = "running"
  <2>1. PICK k \in 0..Len(s2c) : s2c' = SubSeq(s2c, 1, k) OBVIOUS
  <2>2. Len(s2c) \in Nat OBVIOUS
  <2>3. Len(s2c') = k /\ \A i \in 1..k : s2c'[i] = s2c[i]
    BY <2>1, <2>2, SubSeqProperties
  <2>4. requests = s2c \o c2s \o Writing BY <1>1 DEF Fifo, Outstanding, Writing
  <2>5. Writing \in Seq(AllMsgs) /\ s2c \o c2s \in Seq(AllMsgs) BY DEF Writing
  <2>6. /\ Len(requests) = Len(s2c \o c2s) + Len(Writing)
        /\ \A i \in 1..Len(s2c \o c2s) : requests[i] = (s2c \o c2s)[i]
    BY <2>4, <2>5, ConcatProperties
  <2>7. /\ Len(s2c \o c2s) = Len(s2c) + Len(c2s)
        /\ \A i \in 1..Len(s2c) : (s2c \o c2s)[i] = s2c[i]
    BY ConcatProperties
  <2>8. /\ Len(s2c) <= Len(requests)
        /\ \A i \in 1..Len(s2c) : requests[i] = s2c[i]
    <3>1. /\ Len(c2s) \in Nat /\ Len(Writing) \in Nat
      BY <2>5
    <3>2. Len(s2c \o c2s) <= Len(requests) /\ Len(s2c) <= Len(s2c \o c2s)
      BY ONLY <2>2, <2>6, <2>7, <3>1
    <3>3. \A i \in 1..Len(s2c) : i \in 1..Len(s2c \o c2s)
      BY ONLY <2>2, <2>7, <3>1
    <3>4. Len(s2c) <= Len(requests)
      BY ONLY <2>2, <2>6, <2>7, <3>1
    <3> QED BY ONLY <2>6, <2>7, <3>3, <3>4
  <2>9. Len(s2c') <= Len(requests) /\ \A i \in 1..Len(s2c') : s2c'[i] = requests[i]
    BY <2>2, <2>3, <2>8
  <2> QED BY <2>9 DEF Fifo, holders
<1>2. CASE tg # "running" BY <1>2 DEF Fifo, tasks
<1> QED BY <1>1, <1>2

\* Every step keeps requests and wire in line.
LEMMA FifoStep == TypeInv /\ Fifo /\ [Next]_vars => Fifo'
<1> SUFFICES ASSUME TypeInv, Fifo, [Next]_vars PROVE Fifo' OBVIOUS
<1> USE DEF callVars, holders, tasks, wire
<1>1. CASE ResendSkip
  BY <1>1 DEF ResendSkip, Fifo, Outstanding
<1>2. CASE ResendSend
  BY <1>2 DEF ResendSend, Fifo, Outstanding
<1>3. CASE SendHandshake
  BY <1>3 DEF SendHandshake, Fifo, Outstanding
<1>4. CASE ConnectFails
  BY <1>4 DEF ConnectFails, Fifo, Outstanding
<1>5. CASE Backoff
  BY <1>5 DEF Backoff, Fifo, Outstanding
<1>6. CASE Stop
  BY <1>6 DEF Stop, Fifo, Outstanding
<1>7. CASE TasksUp
  BY <1>7 DEF TasksUp, Fifo, Outstanding
<1>8. CASE CancelledWaiting
  BY <1>8 DEF CancelledWaiting, Fifo, Outstanding
<1>9. CASE ResendAdmitted
  BY <1>9 DEF ResendAdmitted, Fifo, Outstanding
<1>10. CASE ResendRetry
  BY <1>10 DEF ResendRetry, Fifo, Outstanding
<1>11. CASE HandshakeDone
  BY <1>11 DEF HandshakeDone, Fifo, Outstanding
<1>12. CASE CancelledHandshake
  BY <1>12 DEF CancelledHandshake, Fifo, Outstanding
<1>13. CASE Join
  BY <1>13 DEF Join, Fifo, Outstanding
<1>14. CASE ReaderBusy
  BY <1>14 DEF ReaderBusy, Fifo, Outstanding
<1>15. CASE ReaderEof
  BY <1>15 DEF ReaderEof, Fifo, Outstanding
<1>16. CASE ReaderTimeout
  BY <1>16 DEF ReaderTimeout, Fifo, Outstanding
<1>17. CASE ReaderCancelled
  BY <1>17 DEF ReaderCancelled, Fifo, Outstanding
<1>18. CASE WriterBroken
  BY <1>18 DEF WriterBroken, Fifo, Outstanding
<1>19. CASE WriterCancelled
  BY <1>19 DEF WriterCancelled, Fifo, Outstanding
<1>20. CASE PeerBusy
  BY <1>20 DEF PeerBusy, Fifo, Outstanding
<1>21. CASE PeerLate
  BY <1>21 DEF PeerLate, Fifo, Outstanding
<1>22. CASE AcloseCancel
  BY <1>22 DEF AcloseCancel, Fifo, Outstanding
<1>23. CASE AcloseFail
  BY <1>23 DEF AcloseFail, Fifo, Outstanding
<1>24. CASE Connect
  BY <1>24 DEF Connect, Fifo, Outstanding, TypeInv, TypeOK, Shape, Quiet
<1>25. CASE ReaderReply
  BY <1>25, FifoReply
<1>26. CASE WriterReceive
  <2>1. Head(wqueue) \in AllMsgs
    BY <1>26, HeadTailProperties DEF WriterReceive, TypeInv, TypeOK
  <2> QED BY <1>26, <2>1, FifoTake DEF WriterReceive
<1>27. CASE WriterIdle
  <2>1. Nop \in AllMsgs BY DEF AllMsgs
  <2> QED BY <1>27, <2>1, FifoTake DEF WriterIdle
<1>28. CASE WriterWritten
  BY <1>28, FifoWritten
<1>29. CASE PeerExecute
  BY <1>29, FifoExecute
<1>30. CASE PeerClose
  BY <1>30, FifoClose
<1>31. ASSUME NEW m \in Msgs, Chat(m) PROVE Fifo'
  BY <1>31 DEF Chat, Fifo, Outstanding
<1>32. ASSUME NEW m \in Msgs, Leave(m) PROVE Fifo'
  BY <1>32 DEF Leave, Fifo, Outstanding
<1>33. CASE ReaderCut
  BY <1>33 DEF ReaderCut, Fifo, Outstanding
<1>34. CASE UNCHANGED vars
  BY <1>34 DEF vars, Fifo, Outstanding
<1> QED
  BY <1>1, <1>2, <1>3, <1>4, <1>5, <1>6, <1>7, <1>8, <1>9, <1>10, <1>11, <1>12, <1>13, <1>14, <1>15, <1>16, <1>17, <1>18, <1>19, <1>20, <1>21, <1>22, <1>23, <1>24, <1>25, <1>26, <1>27, <1>28, <1>29, <1>30, <1>31, <1>32, <1>33, <1>34
  DEF Next, ResendStep, MainStep, ReaderStep, WriterStep, PeerStep, CallerStep,
      CloserStep, Terminated

\* self.requests is what is on the wire, in order, whenever the reader may
\* complete a request.
THEOREM RequestsMatchWire == Spec => []Fifo
<1>1. Init => Fifo BY DEF Init, Fifo
<1> QED BY <1>1, TypeInit, TypeStep, FifoStep, PTL DEF Spec

\* Every step completes a call with its own answer, if any.
LEMMA ReplyStep ==
    TypeInv /\ Fifo /\ ReplyMatches /\ [Next]_vars => ReplyMatches'
<1> SUFFICES ASSUME TypeInv, Fifo, ReplyMatches, [Next]_vars
             PROVE  ReplyMatches'
  OBVIOUS
<1> USE DEF ReplyMatches, callVars, holders, tasks, wire
<1>1. CASE ReaderReply
  <2>1. Head(requests) = Head(s2c) BY <1>1, FifoReply
  <2>2. \A m \in Msgs : answer'[m] \in {NoMsg, m}
    BY <1>1, <2>1 DEF ReaderReply, TypeInv, TypeOK
  <2>3. hsAnswer' = hsAnswer \/ hsAnswer' = Handshake(epoch)
    BY <1>1, <2>1 DEF ReaderReply
  <2> QED BY <1>1, <2>2, <2>3 DEF ReaderReply
<1>2. CASE UNCHANGED vars BY <1>2 DEF vars
<1>3. CASE ResendStep
  BY <1>3 DEF ResendStep, ResendSkip, ResendSend, SendHandshake
<1>4. CASE MainStep
  <2>1. CASE Connect BY <2>1 DEF Connect
  <2>2. CASE ConnectFails BY <2>2 DEF ConnectFails, AfterError
  <2>3. CASE HandshakeDone BY <2>3 DEF HandshakeDone
  <2>4. CASE Join BY <2>4 DEF Join, AfterJoin, AfterError
  <2> QED BY <1>4, <2>1, <2>2, <2>3, <2>4
          DEF MainStep, Backoff, Stop, TasksUp, CancelledWaiting,
              ResendAdmitted, ResendRetry, CancelledHandshake
<1>5. CASE ReaderBusy \/ ReaderEof \/ ReaderCut \/ ReaderTimeout
             \/ ReaderCancelled
  BY <1>5 DEF ReaderBusy, ReaderEof, ReaderCut, ReaderTimeout, ReaderCancelled
<1>6. CASE WriterStep
  BY <1>6 DEF WriterStep, WriterReceive, WriterIdle, WriterWritten,
              WriterBroken, WriterCancelled
<1>7. CASE PeerStep
  BY <1>7 DEF PeerStep, PeerExecute, PeerBusy, PeerClose, PeerLate
<1>8. CASE CallerStep BY <1>8 DEF CallerStep, Chat, Leave
<1>9. CASE CloserStep BY <1>9 DEF CloserStep, AcloseCancel, AcloseFail
<1> QED BY <1>1, <1>2, <1>3, <1>4, <1>5, <1>6, <1>7, <1>8, <1>9
        DEF Next, ReaderStep, Terminated

\* Every call is completed by the answer to its own request, and every
\* connection by the answer to its own handshake.
THEOREM RepliesMatch == Spec => []ReplyMatches
<1>1. Init => Fifo BY DEF Init, Fifo
<1>2. Init => ReplyMatches BY DEF Init, ReplyMatches
<1> QED BY <1>1, <1>2, TypeInit, TypeStep, FifoStep, ReplyStep, PTL DEF Spec

-----------------------------------------------------------------------------
(* Counting the copies the client side holds.                              *)

\* A withdrawn message counts once less, the others as before.
LEMMA CountWithdraw ==
    ASSUME NEW m, wqueue \in Seq(AllMsgs), Waiting(m), NEW k
    PROVE  /\ Count(k, wqueue) = Count(k, Withdraw(m)) + (IF m = k THEN 1 ELSE 0)
           /\ Count(k, Withdraw(m)) \in Nat
<1>1. PICK i \in 1..Len(wqueue) :
         /\ i = CHOOSE j \in 1..Len(wqueue) : j > QueueSize /\ wqueue[j] = m
         /\ wqueue[i] = m
  BY DEF Waiting
<1>2. Withdraw(m) = RemoveAt(wqueue, i) BY <1>1 DEF Withdraw
<1>3. /\ Count(k, wqueue) = Count(k, RemoveAt(wqueue, i)) + (IF wqueue[i] = k THEN 1 ELSE 0)
      /\ Count(k, RemoveAt(wqueue, i)) \in Nat
  BY CountRemove
<1> QED BY <1>1, <1>2, <1>3

-----------------------------------------------------------------------------
(* Every message is held once.                                             *)

\* The copies of m the client side holds.
Copies(m) == Count(m, wqueue) + Count(m, requests) + Count(m, ml)

\* What drops a copy of k.
Dropping(k) ==
    \/ CancelledWaiting
    \/ ReaderReply /\ Head(requests) = k
    \/ ResendSkip /\ Cancelled(k)
    \/ k \in Msgs /\ Leave(k)
    \/ CancelledHandshake /\ k = Handshake(epoch)

\* How a step changes the number of copies of k.
CopiesChange(k) ==
    \/ Copies(k)' = Copies(k)
    \/ Copies(k)' = Copies(k) + 1 /\ k \in Msgs /\ Chat(k)
    \/ Copies(k)' = Copies(k) + 1 /\ k = Handshake(epoch) /\ SendHandshake
    \/ Copies(k)' \in 0..(Copies(k) - 1) /\ Dropping(k)

\* Counts are natural numbers.
LEMMA CopiesType ==
    ASSUME TypeOK, NEW k
    PROVE  /\ Count(k, wqueue) \in Nat /\ Count(k, requests) \in Nat
           /\ Count(k, ml) \in Nat /\ Count(k, c2s) \in Nat
           /\ Count(k, s2c) \in Nat /\ Copies(k) \in Nat
<1>1. /\ wqueue \in Seq(AllMsgs) /\ requests \in Seq(AllMsgs)
      /\ ml \in Seq(AllMsgs) /\ c2s \in Seq(AllMsgs) /\ s2c \in Seq(AllMsgs)
  BY DEF TypeOK
<1>2. /\ Count(k, wqueue) \in Nat /\ Count(k, requests) \in Nat
      /\ Count(k, ml) \in Nat /\ Count(k, c2s) \in Nat /\ Count(k, s2c) \in Nat
  BY ONLY <1>1, CountType
<1> QED BY <1>2 DEF Copies

\* An idle NOP is neither a call nor a handshake.
LEMMA NopIsOther == \A k \in Msgs \cup Handshakes : k # Nop /\ k # NoMsg
BY ConstantsAssumption DEF Handshakes

\* Nothing is in an empty sequence.
LEMMA CountNone == ASSUME NEW k PROVE Count(k, <<>>) = 0
<1>1. <<>> \in Seq({}) /\ \A i \in 1..Len(<<>>) : <<>>[i] # k OBVIOUS
<1> QED BY ONLY <1>1, CountType

\* Steps that leave the three holders alone.
LEMMA CopiesKept ==
    ASSUME NEW k, UNCHANGED <<wqueue, requests, ml>>
    PROVE  Copies(k)' = Copies(k)
BY DEF Copies, Count

\* How a step changes the number of copies of a message.
LEMMA CopiesStep ==
    ASSUME TypeInv, [Next]_vars, NEW k \in Msgs \cup Handshakes
    PROVE  CopiesChange(k)
<1> TypeOK BY DEF TypeInv
<1>t. /\ Count(k, wqueue) \in Nat /\ Count(k, requests) \in Nat
      /\ Count(k, ml) \in Nat
  BY CopiesType
<1>q. wqueue \in Seq(AllMsgs) /\ requests \in Seq(AllMsgs) /\ ml \in Seq(AllMsgs)
  BY DEF TypeOK
<1>n. k # Nop /\ k # NoMsg BY NopIsOther
<1>1. CASE ResendSkip
  <2>1. /\ ml # <<>> /\ ml' = Tail(ml) /\ Cancelled(Head(ml))
        /\ UNCHANGED <<wqueue, requests>>
    BY <1>1 DEF ResendSkip
  <2>2. /\ Count(k, ml) = Count(k, Tail(ml)) + (IF Head(ml) = k THEN 1 ELSE 0)
        /\ Count(k, Tail(ml)) \in Nat
    BY <1>q, <2>1, CountTail
  <2> QED BY <1>1, <1>t, <2>1, <2>2 DEF CopiesChange, Copies, Dropping
<1>2. CASE ResendSend
  <2>1. /\ ml # <<>> /\ ml' = Tail(ml) /\ wqueue' = Append(wqueue, Head(ml))
        /\ UNCHANGED requests
    BY <1>2 DEF ResendSend
  <2>2. Head(ml) \in AllMsgs BY <1>q, <2>1, HeadTailProperties
  <2>3. /\ Count(k, ml) = Count(k, Tail(ml)) + (IF Head(ml) = k THEN 1 ELSE 0)
        /\ Count(k, Tail(ml)) \in Nat
    BY <1>q, <2>1, CountTail
  <2>4. Count(k, Append(wqueue, Head(ml)))
          = Count(k, wqueue) + (IF Head(ml) = k THEN 1 ELSE 0)
    BY <1>q, <2>2, CountAppend
  <2> QED BY <1>t, <2>1, <2>3, <2>4 DEF CopiesChange, Copies
<1>3. CASE SendHandshake
  <2>1. /\ wqueue' = Append(wqueue, Handshake(epoch)) /\ UNCHANGED <<requests, ml>>
        /\ epoch \in 1..MaxConn
    BY <1>3, ConstantsAssumption DEF SendHandshake, TypeInv, TypeOK, Shape
  <2>2. Handshake(epoch) \in AllMsgs BY <2>1, HandshakeType
  <2>3. Count(k, Append(wqueue, Handshake(epoch)))
          = Count(k, wqueue) + (IF Handshake(epoch) = k THEN 1 ELSE 0)
    BY <1>q, <2>2, CountAppend
  <2> QED BY <1>3, <1>t, <2>1, <2>3 DEF CopiesChange, Copies
<1>4. CASE Connect
  <2>1. ml = <<>> /\ ml' = requests /\ requests' = <<>> /\ wqueue' = wqueue
    BY <1>4 DEF Connect, TypeInv, Shape
  <2>2. Count(k, <<>>) = 0 BY CountNone
  <2> QED BY <1>t, <2>1, <2>2 DEF CopiesChange, Copies
<1>5. CASE CancelledWaiting
  <2>1. requests' = ml /\ ml' = <<>> /\ wqueue' = wqueue
    BY <1>5 DEF CancelledWaiting
  <2>2. Count(k, <<>>) = 0 BY CountNone
  <2> QED BY <1>5, <1>t, <2>1, <2>2 DEF CopiesChange, Copies, Dropping
<1>6. CASE ResendRetry
  <2>1. /\ Waiting(cur) /\ wqueue' = Withdraw(cur) /\ ml' = <<cur>> \o ml
        /\ UNCHANGED requests /\ cur \in AllMsgs
    BY <1>6 DEF ResendRetry, TypeInv, Shape
  <2>2. /\ Count(k, wqueue) = Count(k, Withdraw(cur)) + (IF cur = k THEN 1 ELSE 0)
        /\ Count(k, Withdraw(cur)) \in Nat
    BY <1>q, <2>1, CountWithdraw
  <2>3. <<cur>> \in Seq(AllMsgs) BY <2>1
  <2>4. Count(k, <<cur>> \o ml) = Count(k, <<cur>>) + Count(k, ml)
    BY ONLY <1>q, <2>3, CountCat
  <2>5. Count(k, <<cur>>) = IF cur = k THEN 1 ELSE 0
    BY <2>1, CountOne
  <2> QED BY <1>t, <2>1, <2>2, <2>4, <2>5 DEF CopiesChange, Copies
<1>7. CASE CancelledHandshake
  <2>1. UNCHANGED <<requests, ml>> BY <1>7 DEF CancelledHandshake
  <2>2. CASE Waiting(Handshake(epoch))
    <3>1. wqueue' = Withdraw(Handshake(epoch)) BY <1>7, <2>2 DEF CancelledHandshake
    <3>2. /\ Count(k, wqueue) = Count(k, Withdraw(Handshake(epoch)))
                                  + (IF Handshake(epoch) = k THEN 1 ELSE 0)
          /\ Count(k, Withdraw(Handshake(epoch))) \in Nat
      BY <1>q, <2>2, CountWithdraw
    <3> QED BY <1>7, <1>t, <2>1, <3>1, <3>2 DEF CopiesChange, Copies, Dropping
  <2>3. CASE ~Waiting(Handshake(epoch))
    BY <1>7, <2>1, <2>3, CopiesKept DEF CancelledHandshake, CopiesChange
  <2> QED BY <2>2, <2>3
<1>8. CASE ReaderReply
  <2>1. requests # <<>> /\ requests' = Tail(requests) /\ UNCHANGED <<wqueue, ml>>
    BY <1>8 DEF ReaderReply
  <2>2. /\ Count(k, requests) = Count(k, Tail(requests))
                                  + (IF Head(requests) = k THEN 1 ELSE 0)
        /\ Count(k, Tail(requests)) \in Nat
    BY <1>q, <2>1, CountTail
  <2> QED BY <1>8, <1>t, <2>1, <2>2 DEF CopiesChange, Copies, Dropping
<1>9. CASE WriterReceive
  <2>1. /\ wqueue # <<>> /\ wqueue' = Tail(wqueue)
        /\ requests' = Append(requests, Head(wqueue)) /\ UNCHANGED ml
    BY <1>9 DEF WriterReceive
  <2>2. Head(wqueue) \in AllMsgs BY <1>q, <2>1, HeadTailProperties
  <2>3. /\ Count(k, wqueue) = Count(k, Tail(wqueue))
                                + (IF Head(wqueue) = k THEN 1 ELSE 0)
        /\ Count(k, Tail(wqueue)) \in Nat
    BY <1>q, <2>1, CountTail
  <2>4. Count(k, Append(requests, Head(wqueue)))
          = Count(k, requests) + (IF Head(wqueue) = k THEN 1 ELSE 0)
    BY <1>q, <2>2, CountAppend
  <2> QED BY <1>t, <2>1, <2>3, <2>4 DEF CopiesChange, Copies
<1>10. CASE WriterIdle
  <2>1. requests' = Append(requests, Nop) /\ UNCHANGED <<wqueue, ml>>
    BY <1>10 DEF WriterIdle
  <2>2. Nop \in AllMsgs BY DEF AllMsgs
  <2>3. Count(k, Append(requests, Nop))
          = Count(k, requests) + (IF Nop = k THEN 1 ELSE 0)
    BY <1>q, <2>2, CountAppend
  <2> QED BY <1>n, <1>t, <2>1, <2>3 DEF CopiesChange, Copies
<1>11. ASSUME NEW m \in Msgs, Chat(m) PROVE CopiesChange(k)
  <2>1. wqueue' = Append(wqueue, m) /\ UNCHANGED <<requests, ml>> BY <1>11 DEF Chat
  <2>2. m \in AllMsgs BY DEF AllMsgs
  <2>3. Count(k, Append(wqueue, m)) = Count(k, wqueue) + (IF m = k THEN 1 ELSE 0)
    BY <1>q, <2>2, CountAppend
  <2>4. CASE m = k BY <1>11, <1>t, <2>1, <2>3, <2>4 DEF CopiesChange, Copies
  <2>5. CASE m # k BY <1>t, <2>1, <2>3, <2>5 DEF CopiesChange, Copies
  <2> QED BY <2>4, <2>5
<1>12. ASSUME NEW m \in Msgs, Leave(m) PROVE CopiesChange(k)
  <2>1. UNCHANGED <<requests, ml>> BY <1>12 DEF Leave
  <2>2. CASE Waiting(m) /\ cur # m
    <3>1. wqueue' = Withdraw(m) BY <1>12, <2>2 DEF Leave
    <3>2. /\ Count(k, wqueue) = Count(k, Withdraw(m)) + (IF m = k THEN 1 ELSE 0)
          /\ Count(k, Withdraw(m)) \in Nat
      BY <1>q, <2>2, CountWithdraw
    <3>3. CASE m = k BY <1>12, <1>t, <2>1, <3>1, <3>2, <3>3 DEF CopiesChange, Copies, Dropping
    <3>4. CASE m # k BY <1>t, <2>1, <3>1, <3>2, <3>4 DEF CopiesChange, Copies
    <3> QED BY <3>3, <3>4
  <2>3. CASE ~(Waiting(m) /\ cur # m)
    BY <1>12, <2>1, <2>3, CopiesKept DEF Leave, CopiesChange
  <2> QED BY <2>2, <2>3
<1>13. CASE ConnectFails \/ Backoff \/ Stop \/ TasksUp \/ ResendAdmitted
              \/ HandshakeDone \/ Join
  <2>1. UNCHANGED <<wqueue, requests, ml>>
    BY <1>13 DEF ConnectFails, Backoff, Stop, TasksUp, ResendAdmitted,
                 HandshakeDone, Join, holders
  <2> QED BY <2>1, CopiesKept DEF CopiesChange
<1>14. CASE ReaderBusy \/ ReaderEof \/ ReaderCut \/ ReaderTimeout
              \/ ReaderCancelled \/ WriterWritten \/ WriterBroken
              \/ WriterCancelled \/ PeerStep \/ CloserStep \/ UNCHANGED vars
  <2>1. UNCHANGED <<wqueue, requests, ml>>
    BY <1>14 DEF ReaderBusy, ReaderEof, ReaderCut, ReaderTimeout, ReaderCancelled,
                 WriterWritten, WriterBroken, WriterCancelled,
                 PeerStep, PeerExecute, PeerBusy, PeerClose, PeerLate,
                 CloserStep, AcloseCancel, AcloseFail, vars, holders
  <2> QED BY <2>1, CopiesKept DEF CopiesChange
<1> QED
  BY <1>1, <1>2, <1>3, <1>4, <1>5, <1>6, <1>7, <1>8, <1>9, <1>10, <1>11, <1>12, <1>13, <1>14
  DEF Next, ResendStep, MainStep, ReaderStep, WriterStep, CallerStep, Terminated

\* How a step changes the state of a call.
CallChange(m) ==
    \/ call'[m] = call[m]
    \/ call[m] = "idle" /\ call'[m] = "pending" /\ Chat(m)
    \/ call[m] = "pending" /\ call'[m] = "left" /\ Leave(m)
    \/ call[m] = "pending" /\ call'[m] = "replied" /\ ReaderReply
         /\ m = Head(requests)
    \/ call[m] = "pending" /\ call'[m] = "failed" /\ AcloseFail

\* A call changes only as CallChange says.
LEMMA CallStep ==
    ASSUME TypeInv, [Next]_vars, NEW m \in Msgs
    PROVE  CallChange(m)
<1> TypeOK BY DEF TypeInv
<1>c. call \in [Msgs -> {"idle", "pending", "replied", "failed", "left"}]
  BY DEF TypeOK
<1>1. CASE ReaderReply
  BY <1>1, <1>c DEF ReaderReply, CallChange
<1>2. ASSUME NEW k \in Msgs, Chat(k) PROVE CallChange(m)
  BY <1>2, <1>c DEF Chat, CallChange
<1>3. ASSUME NEW k \in Msgs, Leave(k) PROVE CallChange(m)
  BY <1>3, <1>c DEF Leave, CallChange
<1>4. CASE AcloseFail
  BY <1>4, <1>c DEF AcloseFail, CallChange
<1>5. CASE ResendStep \/ MainStep
  <2>1. UNCHANGED call
    BY <1>5 DEF ResendStep, MainStep, ResendSkip, ResendSend, SendHandshake,
                Connect, ConnectFails, Backoff, Stop, TasksUp, CancelledWaiting,
                ResendAdmitted, ResendRetry, HandshakeDone, CancelledHandshake,
                Join, callVars
  <2> QED BY <2>1 DEF CallChange
<1>6. CASE ReaderBusy \/ ReaderEof \/ ReaderCut \/ ReaderTimeout
             \/ ReaderCancelled \/ WriterStep \/ PeerStep \/ AcloseCancel
             \/ UNCHANGED vars
  <2>1. UNCHANGED call
    BY <1>6 DEF ReaderBusy, ReaderEof, ReaderCut, ReaderTimeout, ReaderCancelled,
                WriterStep, WriterReceive, WriterIdle, WriterWritten, WriterBroken,
                WriterCancelled, PeerStep, PeerExecute, PeerBusy, PeerClose,
                PeerLate, AcloseCancel, callVars, vars
  <2> QED BY <2>1 DEF CallChange
<1> QED BY <1>1, <1>2, <1>3, <1>4, <1>5, <1>6
        DEF Next, ReaderStep, CallerStep, CloserStep, Terminated

\* Where main is between Connect and the handshake.
Resending == {"waitTasks", "resend", "blocked"}

\* A connection is counted when it is made; main re-sends only then.
LEMMA EpochStep ==
    ASSUME TypeInv, [Next]_vars
    PROVE  \/ Connect /\ epoch' = epoch + 1
           \/ epoch' = epoch /\ (main' \in Resending => main \in Resending)
<1> USE DEF Resending
<1>1. CASE ResendStep
  BY <1>1 DEF ResendStep, ResendSkip, ResendSend, SendHandshake, tasks
<1>2. CASE MainStep
  <2>1. CASE Connect BY <2>1 DEF Connect
  <2>2. CASE ConnectFails BY <2>2 DEF ConnectFails, AfterError
  <2>3. CASE Join BY <2>3 DEF Join, AfterJoin, AfterError
  <2>4. CASE Backoff \/ Stop \/ TasksUp \/ CancelledWaiting \/ ResendAdmitted
               \/ ResendRetry \/ HandshakeDone \/ CancelledHandshake
    BY <2>4 DEF Backoff, Stop, TasksUp, CancelledWaiting, ResendAdmitted,
                ResendRetry, HandshakeDone, CancelledHandshake
  <2> QED BY <1>2, <2>1, <2>2, <2>3, <2>4 DEF MainStep
<1>3. CASE ReaderStep
  BY <1>3 DEF ReaderStep, ReaderReply, ReaderBusy, ReaderEof, ReaderCut,
              ReaderTimeout, ReaderCancelled, tasks
<1>4. CASE WriterStep
  BY <1>4 DEF WriterStep, WriterReceive, WriterIdle, WriterWritten,
              WriterBroken, WriterCancelled
<1>5. CASE PeerStep
  BY <1>5 DEF PeerStep, PeerExecute, PeerBusy, PeerClose, PeerLate, tasks
<1>6. CASE CallerStep BY <1>6 DEF CallerStep, Chat, Leave, tasks
<1>7. CASE CloserStep BY <1>7 DEF CloserStep, AcloseCancel, AcloseFail
<1>8. CASE UNCHANGED vars BY <1>8 DEF vars, tasks
<1> QED BY <1>1, <1>2, <1>3, <1>4, <1>5, <1>6, <1>7, <1>8 DEF Next, Terminated

\* The reader takes the copy of the request it completes.
LEMMA ReplyTakes ==
    ASSUME TypeInv, ReaderReply, NEW k, Head(requests) = k
    PROVE  Copies(k)' = Copies(k) - 1

<1>1. /\ requests # <<>> /\ requests' = Tail(requests) /\ UNCHANGED <<wqueue, ml>>
      /\ requests \in Seq(AllMsgs) /\ TypeOK
  BY DEF ReaderReply, TypeInv, TypeOK
<1>2. /\ Count(k, requests) = Count(k, Tail(requests)) + 1
      /\ Count(k, Tail(requests)) \in Nat
  BY <1>1, CountTail
<1>3. /\ Count(k, wqueue) \in Nat /\ Count(k, ml) \in Nat
  BY <1>1, CopiesType
<1>4. Copies(k)' = Count(k, wqueue) + Count(k, Tail(requests)) + Count(k, ml)
  BY <1>1 DEF Copies
<1> QED BY <1>2, <1>3, <1>4 DEF Copies

\* A call that is not made yet, or is answered, has no copy of its message.
NoCopyDone ==
    \A m \in Msgs : call[m] \in {"idle", "replied"} => Copies(m) = 0

\* The handshake of the current connection is sent once, after the re-sends.
HandshakeOnce ==
    \A n \in 1..MaxConn : Copies(Handshake(n)) # 0 =>
        \/ n < epoch
        \/ n = epoch /\ main \notin Resending

HeldInv == HeldOnce /\ NoCopyDone /\ HandshakeOnce

\* HeldOnce in terms of copies.
LEMMA HeldOnceCopies ==
    HeldOnce <=> \A k \in Msgs \cup Handshakes : Copies(k) <= 1
BY DEF HeldOnce, Copies

\* Nothing is held at first
LEMMA HeldInit == Init => HeldInv
<1> SUFFICES ASSUME Init PROVE HeldInv OBVIOUS
<1>1. \A k : Count(k, <<>>) = 0 BY CountNone
<1>2. \A k : Copies(k) = 0 BY <1>1 DEF Init, Copies
<1> QED BY <1>2, HeldOnceCopies DEF HeldInv, NoCopyDone, HandshakeOnce

\* and no step holds a message twice.
LEMMA HeldStep == TypeInv /\ HeldInv /\ [Next]_vars => HeldInv'
<1> SUFFICES ASSUME TypeInv, HeldInv, [Next]_vars PROVE HeldInv' OBVIOUS
<1> TypeOK BY DEF TypeInv
<1>e. epoch \in Nat /\ MaxConn \in Nat
  BY ConstantsAssumption DEF TypeOK
<1>t. \A k : Copies(k) \in Nat BY CopiesType
<1>o. \A k \in Msgs \cup Handshakes : Copies(k) <= 1
  BY HeldOnceCopies DEF HeldInv
<1>1. ASSUME NEW k \in Msgs \cup Handshakes PROVE Copies(k)' <= 1
  <2>1. CopiesChange(k) BY CopiesStep
  <2>2. CASE k \in Msgs /\ Chat(k) /\ Copies(k)' = Copies(k) + 1
    <3>1. Copies(k) = 0 BY <2>2 DEF Chat, HeldInv, NoCopyDone
    <3> QED BY <2>2, <3>1
  <2>3. CASE k = Handshake(epoch) /\ SendHandshake /\ Copies(k)' = Copies(k) + 1
    <3>1. epoch \in 1..MaxConn /\ main = "resend"
      BY <2>3 DEF SendHandshake, TypeInv, TypeOK, Shape
    <3>2. Copies(Handshake(epoch)) = 0
      BY <1>e, <3>1 DEF HeldInv, HandshakeOnce, Resending
    <3> QED BY <2>3, <3>2
  <2>4. CASE Copies(k)' = Copies(k) BY <1>o, <2>4
  <2>5. CASE Copies(k)' \in 0..(Copies(k) - 1) BY <1>o, <1>t, <2>5
  <2> QED BY <2>1, <2>2, <2>3, <2>4, <2>5 DEF CopiesChange
<1>2. HeldOnce'
  BY <1>1 DEF HeldOnce, Copies
<1>3. NoCopyDone'
  <2> SUFFICES ASSUME NEW m \in Msgs, call'[m] \in {"idle", "replied"}
               PROVE  Copies(m)' = 0
    BY DEF NoCopyDone
  <2>1. CopiesChange(m) /\ CallChange(m) BY CopiesStep, CallStep
  <2>2. ~Chat(m)
    <3>1. Chat(m) => call'[m] = "pending" BY DEF Chat, TypeOK
    <3> QED BY <3>1
  <2>3. m \notin Handshakes BY ConstantsAssumption DEF Handshakes
  <2>4. ~(m = Handshake(epoch) /\ SendHandshake)
    <3>1. SendHandshake => epoch \in 1..MaxConn
      BY <1>e DEF SendHandshake, TypeInv, TypeOK, Shape
    <3> QED BY <2>3, <3>1 DEF Handshakes
  <2>5. CASE call'[m] = call[m]
    BY <1>t, <2>1, <2>2, <2>4, <2>5 DEF HeldInv, NoCopyDone, CopiesChange
  <2>6. CASE ReaderReply /\ m = Head(requests)
    <3>1. Copies(m)' = Copies(m) - 1 BY <2>6, ReplyTakes
    <3>2. Copies(m)' = Copies(m) \/ Copies(m)' \in 0..(Copies(m) - 1)
      BY <2>1, <2>2, <2>4 DEF CopiesChange
    <3> QED BY <1>o, <1>t, <3>1, <3>2
  <2> QED BY <2>1, <2>5, <2>6 DEF CallChange
<1>4. HandshakeOnce'
  <2> SUFFICES ASSUME NEW n \in 1..MaxConn, Copies(Handshake(n))' # 0
               PROVE  n < epoch' \/ (n = epoch' /\ main' \notin Resending)
    BY DEF HandshakeOnce
  <2>1. Handshake(n) \in Handshakes BY DEF Handshakes
  <2>2. CopiesChange(Handshake(n)) BY <2>1, CopiesStep
  <2>3. Handshake(n) \notin Msgs BY HandshakeType
  <2>4. CASE Handshake(n) = Handshake(epoch) /\ SendHandshake
    <3>1. n = epoch BY <2>4 DEF Handshake
    <3> QED BY <2>4, <3>1 DEF SendHandshake, Resending, tasks
  <2>5. CASE Copies(Handshake(n)) # 0
    <3>1. n < epoch \/ (n = epoch /\ main \notin Resending)
      BY <2>5 DEF HeldInv, HandshakeOnce
    <3> QED BY <1>e, <3>1, EpochStep
  <2>6. Copies(Handshake(n)) = 0 =>
          Handshake(n) = Handshake(epoch) /\ SendHandshake
    BY <2>2, <2>3 DEF CopiesChange
  <2> QED BY <2>4, <2>5, <2>6
<1> QED BY <1>2, <1>3, <1>4 DEF HeldInv

\* No message is in two of the queue, self.requests and ml, or twice in one
\* (server.py:101-123).
THEOREM MessagesHeldOnce == Spec => []HeldOnce
<1>1. HeldInv => HeldOnce BY DEF HeldInv
<1> QED BY <1>1, TypeInit, TypeStep, HeldInit, HeldStep, PTL DEF Spec

-----------------------------------------------------------------------------
(* Where a call can lose its message.                                      *)

\* A step that loses the message of a call that waits.
LEMMA LostStep ==
    ASSUME TypeInv, HeldInv, [Next]_vars, NEW m \in Msgs,
           call[m] = "pending", Held(m), call'[m] = "pending", ~Held(m)'
    PROVE  main = "waitTasks" /\ tg # "running"
<1>1. Copies(m) \in Nat /\ Copies(m) > 0
  BY CopiesType DEF TypeInv, Held, Copies
<1>2. ~(Copies(m)' > 0) BY DEF Held, Copies
<1>3. CopiesChange(m) BY CopiesStep
<1>4. Dropping(m) BY <1>1, <1>2, <1>3 DEF CopiesChange
<1>5. CASE CancelledWaiting BY <1>5 DEF CancelledWaiting
<1>6. CASE ReaderReply /\ Head(requests) = m
  BY <1>6 DEF ReaderReply, TypeInv, TypeOK
<1>7. CASE ResendSkip /\ Cancelled(m) BY <1>7 DEF Cancelled
<1>8. CASE Leave(m) BY <1>8 DEF Leave, TypeInv, TypeOK
<1>9. CASE CancelledHandshake /\ m = Handshake(epoch)
  <2>1. epoch \in 1..MaxConn
    BY <1>9, ConstantsAssumption DEF CancelledHandshake, TypeInv, TypeOK, Shape
  <2> QED BY <1>9, <2>1, HandshakeType
<1> QED BY <1>4, <1>5, <1>6, <1>7, <1>8, <1>9 DEF Dropping

\* A call that still waits loses its message only where _run_one is
\* interrupted before its tasks are up (server.py:121-123).
THEOREM LostWhileStarting == Spec => LostOnlyWhileStarting
<1> DEFINE Lossless ==
      \A m \in Msgs :
         /\ call[m] = "pending" /\ Held(m)
         /\ call'[m] = "pending" /\ ~Held(m)'
         => main = "waitTasks" /\ tg # "running"
<1>1. TypeInv /\ HeldInv /\ [Next]_vars => [Lossless]_vars
  BY LostStep
<1>2. LostOnlyWhileStarting <=> [][Lossless]_vars
  BY DEF LostOnlyWhileStarting
<1> HIDE DEF Lossless
<1> QED BY <1>1, <1>2, TypeInit, TypeStep, HeldInit, HeldStep, PTL DEF Spec

-----------------------------------------------------------------------------
(* Transmissions and executions.                                           *)

\* Requests of lost connections the server still holds for m.
LateOf(m) == {p \in late : p[2] = m}

\* Transmissions of m the server may still execute.
Out(m) == Count(m, c2s) + Cardinality(LateOf(m))

\* The server holds finitely many requests of lost connections.
LEMMA LateFinite ==
    ASSUME TypeOK, NEW m
    PROVE  IsFiniteSet(LateOf(m)) /\ Cardinality(LateOf(m)) \in Nat
<1>1. IsFiniteSet(1..MaxConn) BY ConstantsAssumption, FS_Interval
<1>2. IsFiniteSet({m}) BY FS_Singleton
<1>3. IsFiniteSet((1..MaxConn) \X {m}) BY <1>1, <1>2, FS_Product
<1>4. LateOf(m) \subseteq (1..MaxConn) \X {m} BY DEF TypeOK, LateOf
<1>5. IsFiniteSet(LateOf(m)) BY <1>3, <1>4, FS_Subset
<1> QED BY <1>5, FS_CardinalityType

\* Their number, with the requests on the wire, is a natural number.
LEMMA OutType ==
    ASSUME TypeOK, NEW m
    PROVE  Out(m) \in Nat
BY CopiesType, LateFinite DEF Out

\* How a step changes transmissions and executions of m.
OutChange(m) ==
    \/ Out(m)' = Out(m) /\ execs'[m] = execs[m]
    \/ /\ Out(m)' = Out(m) + 1 /\ execs'[m] = execs[m]
       /\ WriterWritten /\ wmsg = m /\ peer = "open"
    \/ /\ Out(m)' = Out(m) - 1 /\ execs'[m] = execs[m] + 1
       /\ \/ PeerExecute /\ Head(c2s) = m
          \/ PeerLate /\ \E p \in late : p[2] = m /\ late' = late \ {p}
    \/ /\ Out(m)' \in 0..Out(m) /\ execs'[m] = execs[m]
       /\ PeerClose \/ Join

\* Transmissions and executions change only as OutChange says.
LEMMA OutStep ==
    ASSUME TypeInv, [Next]_vars, NEW m \in Msgs
    PROVE  OutChange(m)
<1> TypeOK BY DEF TypeInv
<1>t. /\ Count(m, c2s) \in Nat /\ Cardinality(LateOf(m)) \in Nat
      /\ IsFiniteSet(LateOf(m)) /\ c2s \in Seq(AllMsgs)
      /\ execs \in [Msgs -> Nat]
  BY CopiesType, LateFinite DEF TypeOK
<1>1. CASE WriterWritten
  <2>1. UNCHANGED <<late, execs>> BY <1>1 DEF WriterWritten
  <2>2. LateOf(m)' = LateOf(m) BY <2>1 DEF LateOf
  <2>3. CASE peer = "open"
    <3>1. c2s' = Append(c2s, wmsg) /\ wmsg \in AllMsgs
      BY <1>1, <2>3 DEF WriterWritten, TypeInv, Shape
    <3>2. Count(m, Append(c2s, wmsg)) = Count(m, c2s) + (IF wmsg = m THEN 1 ELSE 0)
      BY <1>t, <3>1, CountAppend
    <3>3. Out(m)' = Out(m) + (IF wmsg = m THEN 1 ELSE 0)
      BY <1>t, <2>2, <3>1, <3>2 DEF Out
    <3> QED BY <1>1, <1>t, <2>1, <2>3, <3>3, OutType DEF OutChange
  <2>4. CASE peer # "open"
    <3>1. c2s' = c2s BY <1>1, <2>4 DEF WriterWritten
    <3>2. Out(m)' = Out(m) BY <2>2, <3>1 DEF Out, Count
    <3> QED BY <2>1, <3>2 DEF OutChange
  <2> QED BY <2>3, <2>4
<1>2. CASE PeerExecute
  <2>1. /\ c2s # <<>> /\ c2s' = Tail(c2s) /\ execs' = Executed(Head(c2s))
        /\ UNCHANGED late
    BY <1>2 DEF PeerExecute
  <2>2. LateOf(m)' = LateOf(m) BY <2>1 DEF LateOf
  <2>3. /\ Count(m, c2s) = Count(m, Tail(c2s)) + (IF Head(c2s) = m THEN 1 ELSE 0)
        /\ Count(m, Tail(c2s)) \in Nat
    BY <1>t, <2>1, CountTail
  <2>4. Out(m)' = Out(m) - (IF Head(c2s) = m THEN 1 ELSE 0)
    BY <1>t, <2>1, <2>2, <2>3 DEF Out
  <2>5. execs'[m] = execs[m] + (IF Head(c2s) = m THEN 1 ELSE 0)
    BY <1>t, <2>1 DEF Executed
  <2> QED BY <1>2, <1>t, <2>4, <2>5, OutType DEF OutChange
<1>3. CASE PeerClose
  <2>1. c2s' = <<>> /\ UNCHANGED <<late, execs>> BY <1>3 DEF PeerClose
  <2>2. LateOf(m)' = LateOf(m) BY <2>1 DEF LateOf
  <2>3. Out(m)' = 0 + Cardinality(LateOf(m)) BY <2>1, <2>2, CountNone DEF Out
  <2> QED BY <1>3, <1>t, <2>1, <2>3 DEF OutChange, Out
<1>4. CASE PeerLate
  <2>1. PICK p \in late : /\ execs' = Executed(p[2]) /\ late' = late \ {p}
                          /\ UNCHANGED c2s
    BY <1>4 DEF PeerLate
  <2>2. p[2] \in Msgs BY <2>1 DEF TypeOK
  <2>3. LateOf(m)' = LateOf(m) \ {p} BY <2>1 DEF LateOf
  <2>4. Count(m, c2s') = Count(m, c2s) BY <2>1
  <2>5. CASE p[2] = m
    <3>1. p \in LateOf(m) BY <2>1, <2>5 DEF LateOf
    <3>2. Cardinality(LateOf(m) \ {p}) = Cardinality(LateOf(m)) - 1
      BY <1>t, <3>1, FS_RemoveElement
    <3>3. Out(m)' = Out(m) - 1 BY <1>t, <2>3, <2>4, <3>2 DEF Out
    <3>4. execs'[m] = execs[m] + 1 BY <1>t, <2>1, <2>5 DEF Executed
    <3> QED BY <1>4, <2>1, <2>5, <3>3, <3>4 DEF OutChange
  <2>6. CASE p[2] # m
    <3>1. LateOf(m) \ {p} = LateOf(m) BY <2>6 DEF LateOf
    <3>2. Out(m)' = Out(m) BY <2>3, <2>4, <3>1 DEF Out
    <3>3. execs'[m] = execs[m] BY <1>t, <2>1, <2>2, <2>6 DEF Executed
    <3> QED BY <3>2, <3>3 DEF OutChange
  <2> QED BY <2>5, <2>6
<1>5. CASE Join
  <2>1. /\ late' = late \cup {<<epoch, k>> : k \in {j \in Msgs : Count(j, c2s) > 0}}
        /\ c2s' = <<>> /\ UNCHANGED execs
    BY <1>5 DEF Join
  <2>2. Count(m, c2s') = 0 BY <2>1, CountNone
  <2>3. CASE Count(m, c2s) > 0
    <3>1. LateOf(m)' = LateOf(m) \cup {<<epoch, m>>} BY <2>1, <2>3 DEF LateOf
    <3>2. Cardinality(LateOf(m) \cup {<<epoch, m>>})
            \in 0..(Cardinality(LateOf(m)) + 1)
      <4>1. Cardinality(LateOf(m) \cup {<<epoch, m>>})
              = IF <<epoch, m>> \in LateOf(m) THEN Cardinality(LateOf(m))
                                              ELSE Cardinality(LateOf(m)) + 1
        BY <1>t, FS_AddElement
      <4> QED BY ONLY <1>t, <4>1
    <3>3. Out(m)' \in 0..Out(m) BY <1>t, <2>2, <2>3, <3>1, <3>2 DEF Out
    <3> QED BY <1>5, <2>1, <3>3 DEF OutChange
  <2>4. CASE ~(Count(m, c2s) > 0)
    <3>1. LateOf(m)' = LateOf(m) BY <2>1, <2>4 DEF LateOf
    <3>2. Out(m)' \in 0..Out(m) BY <1>t, <2>2, <3>1 DEF Out
    <3> QED BY <1>5, <2>1, <3>2 DEF OutChange
  <2> QED BY <2>3, <2>4
<1>6. CASE UNCHANGED <<c2s, late, execs>>
  <2>1. LateOf(m)' = LateOf(m) /\ Count(m, c2s') = Count(m, c2s)
    BY <1>6 DEF LateOf
  <2> QED BY <1>6, <2>1 DEF OutChange, Out
<1>7. CASE ResendStep
  BY <1>6, <1>7 DEF ResendStep, ResendSkip, ResendSend, SendHandshake, wire
<1>8. CASE MainStep /\ ~Join
  BY <1>6, <1>8 DEF MainStep, Connect, ConnectFails, Backoff, Stop, TasksUp,
      CancelledWaiting, ResendAdmitted, ResendRetry, HandshakeDone,
      CancelledHandshake, wire
<1>9. CASE ReaderStep
  BY <1>6, <1>9 DEF ReaderStep, ReaderReply, ReaderBusy, ReaderEof, ReaderCut,
      ReaderTimeout, ReaderCancelled, wire
<1>10. CASE WriterStep /\ ~WriterWritten
  BY <1>6, <1>10 DEF WriterStep, WriterReceive, WriterIdle, WriterBroken,
      WriterCancelled, wire
<1>11. CASE PeerBusy BY <1>6, <1>11 DEF PeerBusy
<1>12. CASE CallerStep \/ CloserStep \/ UNCHANGED vars
  BY <1>6, <1>12 DEF CallerStep, Chat, Leave, CloserStep, AcloseCancel,
      AcloseFail, wire, vars
<1> QED BY <1>1, <1>2, <1>3, <1>4, <1>5, <1>7, <1>8, <1>9, <1>10, <1>11, <1>12
        DEF Next, PeerStep, Terminated

-----------------------------------------------------------------------------
(* Executions are bounded by connections.                                  *)

\* How often m was or may still be executed.
Spent(m) == execs[m] + Out(m)

\* A message that still waits for its transmission.
Unsent(m) == Count(m, wqueue) + Count(m, ml) # 0 \/ wmsg = m

\* A message that waits has not been sent on this connection.
UnsentOnce == \A m \in Msgs : Unsent(m) => Spent(m) < epoch

\* Nothing of a call exists before it is made.
NothingBefore == \A m \in Msgs : call[m] = "idle" => Spent(m) = 0 /\ ~Unsent(m)

SpentInv == ExecsBounded /\ UnsentOnce /\ NothingBefore

\* ExecsBounded in terms of Spent.
LEMMA ExecsBoundedSpent ==
    TypeInv => (ExecsBounded <=> \A m \in Msgs : Spent(m) <= epoch)
<1> SUFFICES ASSUME TypeInv
             PROVE  ExecsBounded <=> \A m \in Msgs : Spent(m) <= epoch
  OBVIOUS
<1>1. ASSUME NEW m \in Msgs
      PROVE  Spent(m) = execs[m] + Cardinality({p \in late : p[2] = m}) + Count(m, c2s)
  <2>1. /\ Count(m, c2s) \in Nat /\ Cardinality(LateOf(m)) \in Nat
        /\ execs[m] \in Nat
    BY CopiesType, LateFinite DEF TypeInv, TypeOK
  <2> QED BY <2>1 DEF Spent, Out, LateOf
<1> QED BY <1>1 DEF ExecsBounded

\* A message comes to wait when its call is made, and again when a connection
\* is made; writing it ends that.
LEMMA UnsentStep ==
    ASSUME TypeInv, Fifo, HeldInv, [Next]_vars, NEW m \in Msgs, Unsent(m)'
    PROVE  /\ Unsent(m) \/ Connect \/ Chat(m)
           /\ ~(WriterWritten /\ wmsg = m /\ peer = "open")
<1> TypeOK BY DEF TypeInv
<1>t. /\ Count(m, wqueue) \in Nat /\ Count(m, requests) \in Nat
      /\ Count(m, ml) \in Nat /\ m # NoMsg
  BY CopiesType, NopIsOther
<1>q. wqueue \in Seq(AllMsgs) /\ requests \in Seq(AllMsgs) /\ ml \in Seq(AllMsgs)
      /\ s2c \in Seq(AllMsgs) /\ c2s \in Seq(AllMsgs)
  BY DEF TypeOK
<1> USE DEF Unsent
<1>1. CASE ResendSkip
  <2>1. ml # <<>> /\ ml' = Tail(ml) /\ UNCHANGED <<wqueue, wmsg>>
    BY <1>1 DEF ResendSkip
  <2>2. /\ Count(m, ml) = Count(m, Tail(ml)) + (IF Head(ml) = m THEN 1 ELSE 0)
        /\ Count(m, Tail(ml)) \in Nat
    BY <1>q, <2>1, CountTail
  <2>3. ~WriterWritten BY <1>1 DEF ResendSkip, WriterWritten, MainYields
  <2> QED BY <1>t, <2>1, <2>2, <2>3
<1>2. CASE ResendSend
  <2>1. /\ ml # <<>> /\ ml' = Tail(ml) /\ wqueue' = Append(wqueue, Head(ml))
        /\ UNCHANGED wmsg
    BY <1>2 DEF ResendSend
  <2>2. Head(ml) \in AllMsgs BY <1>q, <2>1, HeadTailProperties
  <2>3. /\ Count(m, ml) = Count(m, Tail(ml)) + (IF Head(ml) = m THEN 1 ELSE 0)
        /\ Count(m, Tail(ml)) \in Nat
    BY <1>q, <2>1, CountTail
  <2>4. Count(m, Append(wqueue, Head(ml)))
          = Count(m, wqueue) + (IF Head(ml) = m THEN 1 ELSE 0)
    BY <1>q, <2>2, CountAppend
  <2>5. ~WriterWritten BY <1>2 DEF ResendSend, WriterWritten, MainYields
  <2> QED BY <1>t, <2>1, <2>3, <2>4, <2>5
<1>3. CASE SendHandshake
  <2>1. /\ wqueue' = Append(wqueue, Handshake(epoch)) /\ UNCHANGED <<wmsg, ml>>
        /\ epoch \in 1..MaxConn
    BY <1>3, ConstantsAssumption DEF SendHandshake, TypeInv, TypeOK, Shape
  <2>2. Handshake(epoch) \in AllMsgs /\ Handshake(epoch) # m
    BY <2>1, HandshakeType
  <2>3. Count(m, Append(wqueue, Handshake(epoch))) = Count(m, wqueue) + 0
    BY <1>q, <2>2, CountAppend
  <2>4. ~WriterWritten BY <1>3 DEF SendHandshake, WriterWritten, MainYields
  <2> QED BY <1>t, <2>1, <2>3, <2>4
<1>4. CASE Connect
  BY <1>4 DEF Connect, WriterWritten
<1>5. CASE CancelledWaiting
  <2>1. ml' = <<>> /\ UNCHANGED <<wqueue, wmsg>> /\ tg # "running"
    BY <1>5 DEF CancelledWaiting
  <2>2. Count(m, <<>>) = 0 BY CountNone
  <2> QED BY <1>t, <2>1, <2>2 DEF WriterWritten
<1>6. CASE ResendRetry
  <2>1. /\ Waiting(cur) /\ wqueue' = Withdraw(cur) /\ ml' = <<cur>> \o ml
        /\ UNCHANGED wmsg /\ cur \in AllMsgs /\ tg # "running"
    BY <1>6 DEF ResendRetry, TypeInv, Shape
  <2>2. /\ Count(m, wqueue) = Count(m, Withdraw(cur)) + (IF cur = m THEN 1 ELSE 0)
        /\ Count(m, Withdraw(cur)) \in Nat
    BY <1>q, <2>1, CountWithdraw
  <2>3. <<cur>> \in Seq(AllMsgs) BY <2>1
  <2>4. Count(m, <<cur>> \o ml) = Count(m, <<cur>>) + Count(m, ml)
    BY ONLY <1>q, <2>3, CountCat
  <2>5. Count(m, <<cur>>) = IF cur = m THEN 1 ELSE 0 BY <2>1, CountOne
  <2> QED BY <1>t, <2>1, <2>2, <2>4, <2>5 DEF WriterWritten
<1>7. CASE CancelledHandshake
  <2>1. UNCHANGED <<wmsg, ml>> /\ tg # "running" BY <1>7 DEF CancelledHandshake
  <2>2. CASE Waiting(Handshake(epoch))
    <3>1. wqueue' = Withdraw(Handshake(epoch)) BY <1>7, <2>2 DEF CancelledHandshake
    <3>2. /\ Count(m, wqueue) = Count(m, Withdraw(Handshake(epoch)))
                                  + (IF Handshake(epoch) = m THEN 1 ELSE 0)
          /\ Count(m, Withdraw(Handshake(epoch))) \in Nat
      BY <1>q, <2>2, CountWithdraw
    <3> QED BY <1>t, <2>1, <3>1, <3>2 DEF WriterWritten
  <2>3. CASE ~Waiting(Handshake(epoch))
    BY <1>7, <2>1, <2>3 DEF CancelledHandshake, WriterWritten
  <2> QED BY <2>2, <2>3
<1>8. CASE WriterReceive
  <2>1. /\ wqueue # <<>> /\ wqueue' = Tail(wqueue) /\ wmsg' = Head(wqueue)
        /\ UNCHANGED ml /\ writer = "recv"
    BY <1>8 DEF WriterReceive
  <2>2. /\ Count(m, wqueue) = Count(m, Tail(wqueue))
                                + (IF Head(wqueue) = m THEN 1 ELSE 0)
        /\ Count(m, Tail(wqueue)) \in Nat
    BY <1>q, <2>1, CountTail
  <2> QED BY <1>t, <2>1, <2>2 DEF WriterWritten
<1>9. CASE WriterIdle
  <2>1. wmsg' = Nop /\ UNCHANGED <<wqueue, ml>> /\ writer = "recv" /\ Nop # m
    BY <1>9, NopIsOther DEF WriterIdle
  <2> QED BY <2>1 DEF WriterWritten
<1>10. CASE WriterWritten
  <2>1. wmsg' = NoMsg /\ UNCHANGED <<wqueue, ml>> /\ tg = "running"
    BY <1>10 DEF WriterWritten
  <2>2. Count(m, wqueue) + Count(m, ml) # 0 BY <1>t, <2>1
  <2>3. ASSUME wmsg = m, peer = "open" PROVE FALSE
    <3>1. requests = s2c \o c2s \o <<m>>
      BY <1>t, <2>1, <2>3 DEF Fifo, Outstanding
    <3>2. m \in AllMsgs /\ <<m>> \in Seq(AllMsgs) /\ s2c \o c2s \in Seq(AllMsgs)
      BY <1>q DEF AllMsgs
    <3>3. Count(m, s2c \o c2s \o <<m>>) = Count(m, s2c \o c2s) + Count(m, <<m>>)
      BY ONLY <3>2, CountCat
    <3>4. Count(m, <<m>>) = 1 BY <3>2, CountOne
    <3>5. Count(m, s2c \o c2s) \in Nat BY <3>2, CountType
    <3>6. Count(m, requests) >= 1 BY <3>1, <3>3, <3>4, <3>5
    <3>7. Copies(m) <= 1 BY HeldOnceCopies DEF HeldInv
    <3> QED BY <1>t, <2>2, <3>6, <3>7 DEF Copies
  <2> QED BY <2>2, <2>3
<1>11. CASE WriterBroken \/ WriterCancelled
  <2>1. wmsg' = NoMsg /\ UNCHANGED <<wqueue, ml>> /\ (tg # "running" \/ peer # "open")
    BY <1>11 DEF WriterBroken, WriterCancelled
  <2> QED BY <1>t, <2>1 DEF WriterWritten
<1> DEFINE Goal == /\ Unsent(m) \/ Connect \/ Chat(m)
                   /\ ~(WriterWritten /\ wmsg = m /\ peer = "open")
<1>12. ASSUME NEW k \in Msgs, Chat(k) PROVE Goal
  <2>1. wqueue' = Append(wqueue, k) /\ UNCHANGED <<ml, wmsg>> BY <1>12 DEF Chat, holders
  <2>2. k \in AllMsgs BY DEF AllMsgs
  <2>3. Count(m, Append(wqueue, k)) = Count(m, wqueue) + (IF k = m THEN 1 ELSE 0)
    BY <1>q, <2>2, CountAppend
  <2>4. ~(WriterWritten /\ wmsg = m) BY <1>t, <2>1 DEF WriterWritten
  <2>5. CASE k = m BY <1>12, <2>4, <2>5
  <2>6. CASE k # m BY <1>t, <2>1, <2>3, <2>4, <2>6
  <2> QED BY <2>5, <2>6
<1>13. ASSUME NEW k \in Msgs, Leave(k) PROVE Goal
  <2>1. UNCHANGED <<ml, wmsg>> BY <1>13 DEF Leave
  <2>2. ~(WriterWritten /\ wmsg = m) BY <1>t, <2>1 DEF WriterWritten
  <2>3. CASE Waiting(k) /\ cur # k
    <3>1. wqueue' = Withdraw(k) BY <1>13, <2>3 DEF Leave
    <3>2. /\ Count(m, wqueue) = Count(m, Withdraw(k)) + (IF k = m THEN 1 ELSE 0)
          /\ Count(m, Withdraw(k)) \in Nat
      BY <1>q, <2>3, CountWithdraw
    <3> QED BY <1>t, <2>1, <2>2, <3>1, <3>2
  <2>4. CASE ~(Waiting(k) /\ cur # k) BY <1>13, <2>1, <2>2, <2>4 DEF Leave
  <2> QED BY <2>3, <2>4
<1>14. CASE UNCHANGED <<wqueue, ml, wmsg>>
  <2>1. ~(WriterWritten /\ wmsg = m) BY <1>14, <1>t DEF WriterWritten
  <2> QED BY <1>14, <2>1
<1>15. CASE \/ ConnectFails \/ Backoff \/ Stop \/ TasksUp \/ ResendAdmitted
            \/ HandshakeDone \/ Join
  BY <1>14, <1>15 DEF ConnectFails, Backoff, Stop, TasksUp, ResendAdmitted,
      HandshakeDone, Join, holders
<1>16. CASE ReaderStep \/ PeerStep \/ CloserStep \/ UNCHANGED vars
  BY <1>14, <1>16 DEF ReaderStep, ReaderReply, ReaderBusy, ReaderEof, ReaderCut,
      ReaderTimeout, ReaderCancelled, PeerStep, PeerExecute, PeerBusy,
      PeerClose, PeerLate, CloserStep, AcloseCancel, AcloseFail, vars, holders
<1> QED
  BY <1>1, <1>2, <1>3, <1>4, <1>5, <1>6, <1>7, <1>8, <1>9, <1>10, <1>11, <1>12, <1>13, <1>15, <1>16
  DEF Next, ResendStep, MainStep, WriterStep, CallerStep, Terminated

\* Nothing is spent at first
LEMMA SpentInit == Init => SpentInv
<1> SUFFICES ASSUME Init PROVE SpentInv OBVIOUS
<1>1. \A k : Count(k, <<>>) = 0 BY CountNone
<1>2. ASSUME NEW m \in Msgs PROVE Spent(m) = 0 /\ ~Unsent(m)
  <2>1. LateOf(m) = {} BY DEF Init, LateOf
  <2>2. Cardinality({}) = 0 BY FS_EmptySet
  <2>3. Out(m) = 0 BY <1>1, <2>1, <2>2 DEF Init, Out
  <2>4. m # NoMsg BY NopIsOther
  <2> QED BY <1>1, <2>3, <2>4 DEF Init, Spent, Unsent
<1>3. ExecsBounded
  <2>1. TypeInv BY TypeInit
  <2>2. epoch = 0 BY DEF Init
  <2> QED BY <1>2, <2>1, <2>2, ExecsBoundedSpent
<1> QED BY <1>2, <1>3 DEF SpentInv, UnsentOnce, NothingBefore

\* and every step stays within the number of connections.
LEMMA SpentStep ==
    TypeInv /\ Fifo /\ HeldInv /\ SpentInv /\ [Next]_vars => SpentInv'
<1> SUFFICES ASSUME TypeInv, Fifo, HeldInv, SpentInv, [Next]_vars
             PROVE  SpentInv'
  OBVIOUS
<1> TypeOK BY DEF TypeInv
<1>e. /\ epoch \in Nat /\ epoch' \in Nat /\ epoch <= epoch'
      /\ Connect => epoch' = epoch + 1
  <2>1. epoch \in Nat BY DEF TypeOK
  <2>2. Connect => epoch' = epoch + 1 BY DEF Connect
  <2> QED BY <2>1, <2>2, EpochStep
<1>1. ASSUME NEW m \in Msgs
      PROVE  /\ Spent(m)' <= epoch'
             /\ Unsent(m)' => Spent(m)' < epoch'
             /\ call'[m] = "idle" => Spent(m)' = 0 /\ ~Unsent(m)'
  <2>1. Out(m) \in Nat /\ execs[m] \in Nat
    BY OutType DEF TypeOK
  <2>2. OutChange(m) /\ CallChange(m) BY OutStep, CallStep
  <2>3. /\ Spent(m) <= epoch /\ Spent(m) \in Nat
        /\ Unsent(m) => Spent(m) < epoch
        /\ call[m] = "idle" => Spent(m) = 0 /\ ~Unsent(m)
    BY <2>1, ExecsBoundedSpent DEF SpentInv, UnsentOnce, NothingBefore, Spent
  <2>4. \/ Spent(m)' \in 0..Spent(m)
        \/ /\ Spent(m)' = Spent(m) + 1
           /\ WriterWritten /\ wmsg = m /\ peer = "open" /\ Unsent(m)
    BY <2>1, <2>2 DEF OutChange, Spent, Unsent
  <2>5. Unsent(m)' => /\ Unsent(m) \/ Connect \/ Chat(m)
                      /\ ~(WriterWritten /\ wmsg = m /\ peer = "open")
    BY UnsentStep
  <2>6. Spent(m)' <= epoch' BY <1>e, <2>3, <2>4
  <2>7. ASSUME Unsent(m)' PROVE Spent(m)' < epoch'
    <3>1. Spent(m)' \in 0..Spent(m) BY <2>4, <2>5, <2>7
    <3>2. CASE Unsent(m) BY <1>e, <2>3, <3>1, <3>2
    <3>3. CASE Connect BY <1>e, <2>3, <3>1, <3>3
    <3>4. CASE Chat(m)
      <4>1. call[m] = "idle" /\ val = "set" BY <3>4 DEF Chat
      <4>2. epoch # 0 BY <4>1 DEF TypeInv, Shape
      <4> QED BY <1>e, <2>3, <3>1, <4>1, <4>2
    <3> QED BY <2>5, <2>7, <3>2, <3>3, <3>4
  <2>8. ASSUME call'[m] = "idle" PROVE Spent(m)' = 0 /\ ~Unsent(m)'
    <3>1. call[m] = "idle" BY <2>2, <2>8 DEF CallChange
    <3>2. Spent(m)' = 0 BY <2>3, <2>4, <3>1
    <3>3. ~Chat(m) BY <2>8 DEF Chat, TypeOK
    <3>4. ASSUME Connect PROVE ~Unsent(m)'
      <4>1. /\ Count(m, wqueue) \in Nat /\ Count(m, requests) \in Nat
            /\ Count(m, ml) \in Nat /\ Copies(m) = 0
        BY <3>1, CopiesType DEF HeldInv, NoCopyDone
      <4>2. Count(m, wqueue) = 0 /\ Count(m, requests) = 0
        BY <4>1 DEF Copies
      <4>3. ml' = requests /\ UNCHANGED <<wqueue, wmsg>> BY <3>4 DEF Connect
      <4> QED BY <2>3, <3>1, <4>2, <4>3 DEF Unsent
    <3> QED BY <2>3, <2>5, <3>1, <3>2, <3>3, <3>4
  <2> QED BY <2>6, <2>7, <2>8
<1>2. ExecsBounded'
  <2>1. TypeInv' BY TypeStep
  <2>2. TypeInv' => (ExecsBounded <=> \A m \in Msgs : Spent(m) <= epoch)'
    BY ExecsBoundedSpent, PTL
  <2> QED BY <1>1, <2>1, <2>2
<1> QED BY <1>1, <1>2 DEF SpentInv, UnsentOnce, NothingBefore

\* The server executes a message at most once for each connection, counting
\* what it still holds from connections the client has given up.
THEOREM OncePerConnection == Spec => []ExecsBounded
<1>1. SpentInv => ExecsBounded BY DEF SpentInv
<1>2. Init => Fifo BY DEF Init, Fifo
<1> QED BY <1>1, <1>2, TypeInit, TypeStep, FifoStep, HeldInit, HeldStep,
           SpentInit, SpentStep, PTL DEF Spec

-----------------------------------------------------------------------------
(* Every step of the connection is a step of Rpc, or none.                 *)

\* Only what was executed is answered.
AnswersExecuted ==
    \A i \in 1..Len(s2c) : s2c[i] \in Msgs => execs[s2c[i]] > 0

\* aclose() fails calls when it is done, and no connection follows.
FailedClosed == \A m \in Msgs : call[m] = "failed" => closer = "done"

RpcInv == AnswersExecuted /\ FailedClosed

\* The facts the refinement needs hold at first
LEMMA RpcInit == Init => RpcInv
BY DEF Init, RpcInv, AnswersExecuted, FailedClosed

\* and every step keeps them.
LEMMA RpcInvStep == TypeInv /\ RpcInv /\ [Next]_vars => RpcInv'
<1> SUFFICES ASSUME TypeInv, RpcInv, [Next]_vars PROVE RpcInv' OBVIOUS
<1> TypeOK BY DEF TypeInv
<1>s. s2c \in Seq(AllMsgs) /\ Len(s2c) \in Nat /\ c2s \in Seq(AllMsgs)
  BY DEF TypeOK
<1>e. \A m \in Msgs : execs[m] \in Nat /\ execs'[m] \in Nat /\ execs'[m] >= execs[m]
  <2> SUFFICES ASSUME NEW m \in Msgs
               PROVE  execs[m] \in Nat /\ execs'[m] \in Nat /\ execs'[m] >= execs[m]
    OBVIOUS
  <2>1. execs[m] \in Nat BY DEF TypeOK
  <2> QED BY <2>1, OutStep DEF OutChange
<1>1. AnswersExecuted'
  <2>1. CASE PeerExecute
    <3>1. /\ c2s # <<>> /\ s2c' = Append(s2c, Head(c2s)) /\ execs' = Executed(Head(c2s))
      BY <2>1 DEF PeerExecute
    <3>2. Head(c2s) \in AllMsgs BY <1>s, <3>1, HeadTailProperties
    <3>3. /\ Len(s2c') = Len(s2c) + 1
          /\ \A i \in 1..Len(s2c) : s2c'[i] = s2c[i]
          /\ s2c'[Len(s2c) + 1] = Head(c2s)
      BY <1>s, <3>1, <3>2
    <3>4. Head(c2s) \in Msgs => execs'[Head(c2s)] > 0
      BY <1>e, <3>1 DEF Executed, TypeOK
    <3> SUFFICES ASSUME NEW i \in 1..Len(s2c'), s2c'[i] \in Msgs
                 PROVE  execs'[s2c'[i]] > 0
      BY DEF AnswersExecuted
    <3>5. CASE i = Len(s2c) + 1 BY <3>3, <3>4, <3>5
    <3>6. CASE i \in 1..Len(s2c)
      BY <1>e, <3>3, <3>6 DEF RpcInv, AnswersExecuted
    <3> QED BY <1>s, <3>3, <3>5, <3>6
  <2>2. CASE PeerClose
    <3>1. PICK k \in 0..Len(s2c) : s2c' = SubSeq(s2c, 1, k) BY <2>2 DEF PeerClose
    <3>2. Len(s2c') = k /\ \A i \in 1..k : s2c'[i] = s2c[i]
      BY <1>s, <3>1, SubSeqProperties
    <3> QED BY <1>e, <1>s, <3>1, <3>2 DEF RpcInv, AnswersExecuted
  <2>3. CASE ReaderReply
    <3>1. s2c # <<>> /\ s2c' = Tail(s2c) BY <2>3 DEF ReaderReply
    <3>2. /\ Len(s2c') = Len(s2c) - 1
          /\ \A i \in 1..Len(s2c') : s2c'[i] = s2c[i + 1]
      BY <1>s, <3>1, HeadTailProperties
    <3>3. \A i \in 1..Len(s2c') : i + 1 \in 1..Len(s2c) BY <1>s, <3>2
    <3> QED BY <1>e, <3>2, <3>3 DEF RpcInv, AnswersExecuted
  <2>4. CASE Join
    <3>1. s2c' = <<>> BY <2>4 DEF Join
    <3> QED BY <3>1 DEF AnswersExecuted
  <2>5. CASE UNCHANGED s2c
    BY <1>e, <2>5 DEF RpcInv, AnswersExecuted
  <2>6. CASE ResendStep \/ (MainStep /\ ~Join)
    BY <2>5, <2>6 DEF ResendStep, ResendSkip, ResendSend, SendHandshake,
       MainStep, Connect, ConnectFails, Backoff, Stop, TasksUp, CancelledWaiting,
       ResendAdmitted, ResendRetry, HandshakeDone, CancelledHandshake, wire
  <2>7. CASE (ReaderStep /\ ~ReaderReply) \/ WriterStep
    BY <2>5, <2>7 DEF ReaderStep, ReaderBusy, ReaderEof, ReaderCut, ReaderTimeout,
       ReaderCancelled, WriterStep, WriterReceive, WriterIdle, WriterWritten,
       WriterBroken, WriterCancelled, wire
  <2>8. CASE PeerBusy \/ PeerLate \/ CallerStep \/ CloserStep \/ UNCHANGED vars
    BY <2>5, <2>8 DEF PeerBusy, PeerLate, CallerStep, Chat, Leave, CloserStep,
       AcloseCancel, AcloseFail, wire, vars
  <2> QED BY <2>1, <2>2, <2>3, <2>4, <2>6, <2>7, <2>8 DEF Next, PeerStep, Terminated
<1>2. FailedClosed'
  <2> SUFFICES ASSUME NEW m \in Msgs, call'[m] = "failed" PROVE closer' = "done"
    BY DEF FailedClosed
  <2>1. CASE AcloseFail BY <2>1 DEF AcloseFail
  <2>2. CASE call[m] = "failed"
    <3>1. closer = "done" BY <2>2 DEF RpcInv, FailedClosed
    <3>2. CASE ResendStep \/ MainStep
      BY <3>1, <3>2 DEF ResendStep, ResendSkip, ResendSend, SendHandshake, MainStep,
         Connect, ConnectFails, Backoff, Stop, TasksUp, CancelledWaiting,
         ResendAdmitted, ResendRetry, HandshakeDone, CancelledHandshake, Join, tasks
    <3>3. CASE ReaderStep \/ WriterStep
      BY <3>1, <3>3 DEF ReaderStep, ReaderReply, ReaderBusy, ReaderEof, ReaderCut,
         ReaderTimeout, ReaderCancelled, WriterStep, WriterReceive, WriterIdle,
         WriterWritten, WriterBroken, WriterCancelled, tasks
    <3>4. CASE PeerStep \/ CallerStep \/ CloserStep \/ UNCHANGED vars
      BY <3>1, <3>4 DEF PeerStep, PeerExecute, PeerBusy, PeerClose, PeerLate,
         CallerStep, Chat, Leave, CloserStep, AcloseCancel, AcloseFail, tasks, vars
    <3> QED BY <3>2, <3>3, <3>4 DEF Next, Terminated
  <2> QED BY <2>1, <2>2, CallStep DEF CallChange
<1> QED BY <1>1, <1>2 DEF RpcInv

\* The message being written belongs to a call that may still be transmitted.
LEMMA WrittenIsOpen ==
    ASSUME TypeInv, Fifo, HeldInv, SpentInv, RpcInv, WriterWritten,
           NEW m \in Msgs, wmsg = m, peer = "open"
    PROVE  call[m] \in {"pending", "left"}
<1> TypeOK BY DEF TypeInv
<1>1. tg = "running" /\ closer = "idle"
  BY DEF WriterWritten, TypeInv, TypeOK, Shape
<1>2. call[m] # "failed" BY <1>1 DEF RpcInv, FailedClosed
<1>3. call[m] # "idle" BY DEF SpentInv, NothingBefore, Unsent
<1>4. call[m] # "replied"
  <2>1. m # NoMsg BY NopIsOther
  <2>2. requests = s2c \o c2s \o <<m>> BY <1>1, <2>1 DEF Fifo, Outstanding
  <2>3. /\ m \in AllMsgs /\ <<m>> \in Seq(AllMsgs) /\ s2c \o c2s \in Seq(AllMsgs)
    BY DEF AllMsgs, TypeOK
  <2>4. Count(m, s2c \o c2s \o <<m>>) = Count(m, s2c \o c2s) + Count(m, <<m>>)
    BY ONLY <2>3, CountCat
  <2>5. Count(m, <<m>>) = 1 /\ Count(m, s2c \o c2s) \in Nat
    BY <2>3, CountOne, CountType
  <2>6. Count(m, requests) >= 1 BY <2>2, <2>4, <2>5
  <2>7. Count(m, wqueue) \in Nat /\ Count(m, requests) \in Nat /\ Count(m, ml) \in Nat
    BY CopiesType
  <2> QED BY <2>6, <2>7 DEF HeldInv, NoCopyDone, Copies
<1>5. call[m] \in {"idle", "pending", "replied", "failed", "left"} BY DEF TypeOK
<1> QED BY <1>2, <1>3, <1>4, <1>5

\* For all calls at a time.
LEMMA OutTypes == TypeOK => \A k \in Msgs : Out(k) \in Nat
BY OutType

\* The refinement mapping in terms of Out.
LEMMA CopiesOut ==
    /\ OutstandingCopies = [m \in Msgs |-> Out(m)]
    /\ OutstandingCopies' = [m \in Msgs |-> Out(m)']
BY DEF OutstandingCopies, Out, LateOf

\* The step simulation: every step of the connection is one of Rpc, or none
\* for the callers.
LEMMA RpcStep ==
    TypeInv /\ Fifo /\ HeldInv /\ SpentInv /\ RpcInv /\ [Next]_vars
      => [Promise!Next]_(Promise!vars)
<1> SUFFICES ASSUME TypeInv, Fifo, HeldInv, SpentInv, RpcInv, [Next]_vars
             PROVE  Promise!Next \/ UNCHANGED Promise!vars
  OBVIOUS
<1> TypeOK BY DEF TypeInv
<1>t. TypeInv' BY TypeStep
<1>f. /\ execs \in [Msgs -> Nat] /\ execs' \in [Msgs -> Nat]
      /\ call \in [Msgs -> {"idle", "pending", "replied", "failed", "left"}]
      /\ call' \in [Msgs -> {"idle", "pending", "replied", "failed", "left"}]
  BY <1>t DEF TypeInv, TypeOK
<1>o. \A m \in Msgs : OutChange(m) /\ Out(m) \in Nat BY OutStep, OutType
<1> DEFINE out == OutstandingCopies
<1>c. /\ out = [m \in Msgs |-> Out(m)]
      /\ out' = [m \in Msgs |-> Out(m)']
  BY CopiesOut
<1>1. ASSUME NEW m \in Msgs, WriterWritten, wmsg = m, peer = "open",
             Out(m)' = Out(m) + 1, execs'[m] = execs[m]
      PROVE  Promise!Transmit(m)
  <2>1. wmsg' = NoMsg /\ UNCHANGED <<call, execs>> /\ m # NoMsg
    BY <1>1, NopIsOther DEF WriterWritten, callVars
  <2>2. \A k \in Msgs \ {m} : Out(k)' = Out(k)
    <3> SUFFICES ASSUME NEW k \in Msgs \ {m} PROVE Out(k)' = Out(k) OBVIOUS
    <3>1. ~(PeerExecute \/ PeerLate \/ PeerClose \/ Join)
      BY <1>1, <2>1 DEF PeerExecute, PeerLate, PeerClose, Join, holders
    <3> QED BY <1>1, <1>o, <3>1 DEF OutChange
  <2>3. out' = [out EXCEPT ![m] = @ + 1] BY <1>1, <1>c, <2>2
  <2> QED BY <1>1, <2>1, <2>3, WrittenIsOpen DEF Promise!Transmit
<1>2. ASSUME NEW m \in Msgs, Out(m)' = Out(m) - 1, execs'[m] = execs[m] + 1,
             \/ PeerExecute /\ Head(c2s) = m
             \/ PeerLate /\ \E p \in late : p[2] = m /\ late' = late \ {p}
      PROVE  Promise!Execute(m)
  <2>1. UNCHANGED <<call, holders, tasks>> /\ peer' = peer
    BY <1>2 DEF PeerExecute, PeerLate, callVars
  <2>2. ~WriterWritten /\ ~PeerClose /\ ~Join
    <3>1. ~PeerClose BY <2>1 DEF PeerClose
    <3>2. ~Join BY <2>1 DEF Join, tasks
    <3>3. ~WriterWritten BY <2>1 DEF WriterWritten, tasks
    <3> QED BY <3>1, <3>2, <3>3
  <2>3. \A k \in Msgs \ {m} : Out(k)' = Out(k) /\ execs'[k] = execs[k]
    <3> SUFFICES ASSUME NEW k \in Msgs \ {m}
                 PROVE  Out(k)' = Out(k) /\ execs'[k] = execs[k]
      OBVIOUS
    <3>1. CASE PeerExecute /\ Head(c2s) = m
      <4>1. late' = late BY <3>1 DEF PeerExecute
      <4>2. ~\E p \in late : p[2] = k /\ late' = late \ {p} BY <4>1
      <4> QED BY <1>o, <2>2, <3>1, <4>2 DEF OutChange
    <3>2. CASE PeerLate /\ \E p \in late : p[2] = m /\ late' = late \ {p}
      <4>1. PICK p \in late : p[2] = m /\ late' = late \ {p} BY <3>2
      <4>2. ~PeerExecute BY <4>1 DEF PeerExecute
      <4>3. ~\E q \in late : q[2] = k /\ late' = late \ {q} BY <4>1
      <4> QED BY <1>o, <2>2, <4>2, <4>3 DEF OutChange
    <3> QED BY <1>2, <3>1, <3>2
  <2>4. out' = [out EXCEPT ![m] = @ - 1] BY <1>2, <1>c, <2>3
  <2>5. execs' = [execs EXCEPT ![m] = @ + 1] BY <1>2, <1>f, <2>3
  <2>6. out[m] > 0
    <3>1. Out(m) \in Nat /\ Out(m)' \in Nat
      <4>1. TypeOK' BY <1>t DEF TypeInv
      <4>2. TypeOK' => (\A k \in Msgs : Out(k) \in Nat)'
        BY OutTypes, PTL
      <4> QED BY <1>o, <4>1, <4>2
    <3> QED BY <1>2, <1>c, <3>1
  <2> QED BY <2>1, <2>4, <2>5, <2>6 DEF Promise!Execute
<1>3. CASE PeerClose \/ Join
  <2>1. UNCHANGED <<call, execs>> BY <1>3 DEF PeerClose, Join, callVars
  <2>2. ASSUME NEW m \in Msgs PROVE Out(m)' \in 0..Out(m)
    <3>1. ~PeerExecute /\ ~PeerLate /\ ~WriterWritten
      <4>1. CASE PeerClose
        BY <4>1 DEF PeerClose, PeerExecute, PeerLate, WriterWritten, tasks
      <4>2. CASE Join
        BY <4>2 DEF Join, PeerExecute, PeerLate, WriterWritten, tasks
      <4> QED BY <1>3, <4>1, <4>2
    <3> QED BY <1>o, <3>1 DEF OutChange
  <2>3. out' \in [Msgs -> Nat] /\ \A m \in Msgs : out'[m] <= out[m]
    BY <1>c, <1>o, <2>2
  <2> QED BY <2>1, <2>3 DEF Promise!Next, Promise!Lose
<1>4. CASE \A m \in Msgs : Out(m)' = Out(m) /\ execs'[m] = execs[m]
  <2>1. out' = out /\ execs' = execs BY <1>4, <1>c, <1>f
  <2>2. ASSUME NEW m \in Msgs, Chat(m) PROVE Promise!Call(m)
    BY <2>1, <2>2 DEF Chat, Promise!Call
  <2>3. ASSUME NEW m \in Msgs, Leave(m) PROVE Promise!Leave(m)
    BY <2>1, <2>3 DEF Leave, Promise!Leave
  <2>4. CASE ReaderReply
    <3> DEFINE m == Head(requests)
    <3>1. CASE m \in Msgs /\ call[m] = "pending"
      <4>1. call' = [call EXCEPT ![m] = "replied"] BY <2>4, <3>1 DEF ReaderReply
      <4>2. Head(s2c) = m BY <2>4, FifoReply
      <4>3. 1 \in 1..Len(s2c) /\ s2c[1] = Head(s2c)
        BY <2>4 DEF ReaderReply, TypeOK
      <4>4. execs[m] > 0 BY <3>1, <4>2, <4>3 DEF RpcInv, AnswersExecuted
      <4> HIDE DEF m
      <4>5. Promise!Reply(m) BY <2>1, <3>1, <4>1, <4>4 DEF Promise!Reply
      <4> QED BY <3>1, <4>5 DEF Promise!Next
    <3>2. CASE ~(m \in Msgs /\ call[m] = "pending")
      <4>1. call' = call BY <2>4, <3>2 DEF ReaderReply
      <4> QED BY <2>1, <4>1 DEF Promise!vars
    <3> QED BY <3>1, <3>2
  <2>5. CASE AcloseFail
    <3> DEFINE S == {m \in Msgs : call[m] = "pending" /\ Count(m, requests) > 0}
    <3>1. call' = [m \in Msgs |-> IF m \in S THEN "failed" ELSE call[m]]
      BY <2>5 DEF AcloseFail
    <3>2. S \in SUBSET Msgs /\ \A m \in S : call[m] = "pending" OBVIOUS
    <3> HIDE DEF S
    <3>3. Promise!Close(S) BY <2>1, <3>1, <3>2 DEF Promise!Close
    <3> QED BY <3>2, <3>3 DEF Promise!Next
  <2>6. CASE \A m \in Msgs : call'[m] = call[m]
    <3>1. call' = call BY <1>f, <2>6
    <3> QED BY <2>1, <3>1 DEF Promise!vars
  <2> QED BY <2>2, <2>3, <2>4, <2>5, <2>6, CallStep DEF CallChange, Promise!Next
<1>5. \A m \in Msgs : OutChange(m) BY <1>o
<1>6. CASE \E m \in Msgs : ~(Out(m)' = Out(m) /\ execs'[m] = execs[m])
  <2>1. PICK m \in Msgs : ~(Out(m)' = Out(m) /\ execs'[m] = execs[m]) BY <1>6
  <2> QED BY <1>1, <1>2, <1>3, <1>5, <2>1 DEF OutChange, Promise!Next
<1> QED BY <1>4, <1>6

\* chat() is an at-least-once remote call: every behaviour of the connection
\* is one of Rpc, seen by the callers.
THEOREM ChatIsAtLeastOnce == Spec => AtLeastOnceCall
<1>1. Init => Promise!Init
  <2> SUFFICES ASSUME Init PROVE Promise!Init OBVIOUS
  <2>1. \A m \in Msgs : Out(m) = 0
    BY SpentInit, OutType, TypeInit DEF SpentInv, NothingBefore, Spent, Init, TypeInv
  <2>2. OutstandingCopies = [m \in Msgs |-> 0] BY <2>1, CopiesOut
  <2> QED BY <2>2 DEF Init, Promise!Init
<1>2. Init => Fifo BY DEF Init, Fifo
<1> QED BY <1>1, <1>2, TypeInit, TypeStep, FifoStep, HeldInit, HeldStep, SpentInit,
           SpentStep, RpcInit, RpcInvStep, RpcStep, PTL
        DEF Spec, AtLeastOnceCall, Promise!Spec

=============================================================================
