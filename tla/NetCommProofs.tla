---------------------------- MODULE NetCommProofs ----------------------------
(***************************************************************************)
(* Framing for any byte values, messages, capacity and chunks: until a     *)
(* timeout expires within a frame, messages arrive whole and in order.     *)
(*                                                                         *)
(* The bytes that the reader does not have yet, read or under way or still *)
(* in sendall, are what is left of the current frame and the whole frames  *)
(* of the messages behind it.  Where each of them starts is a function     *)
(* from messages to offsets, rather than a concatenation of them all:      *)
(* sending adds an offset at the end, receiving a part of a frame moves    *)
(* all of them, and nothing has to be shown of sequences of sequences.     *)
(***************************************************************************)
EXTENDS NetComm, SequenceTheorems, TLAPS

Byte == 0 .. Base - 1

LEMMA Bases == Base \in Nat /\ Base > 1 /\ Base \in Int /\ Base - 1 \in Nat /\ Base * Base \in Nat
BY NetCommAssumption DEF NetCommAssumption

\* A header has room for a number below Base * Base, and no more.
LEMMA HeaderBounds ==
    ASSUME NEW x \in Byte, NEW y \in Byte
    PROVE  x * Base + y \in 0 .. Base * Base - 1
<1>1. x * Base \in Nat /\ x * Base <= (Base - 1) * Base
  BY Bases DEF Byte
<1>2. (Base - 1) * Base = Base * Base - Base
  BY Bases
<1> QED
  BY <1>1, <1>2, Bases DEF Byte

LEMMA HeaderReads ==
    ASSUME NEW n \in Nat, n < Base * Base
    PROVE  /\ n \div Base \in Byte /\ n % Base \in Byte
           /\ (n \div Base) * Base + (n % Base) = n
<1> DEFINE q == n \div Base
           r == n % Base
<1>1. q \in Int /\ r \in Int /\ n = Base * q + r /\ 0 <= r /\ r < Base
  BY Bases
<1> HIDE DEF q, r
<1>2. q >= 0
  <2> SUFFICES ASSUME q <= -1 PROVE FALSE
    BY <1>1
  <2>1. Base * q <= Base * (-1)
    BY <1>1, Bases
  <2> QED
    BY <1>1, <2>1, Bases
<1>3. q < Base
  <2> SUFFICES ASSUME q >= Base PROVE FALSE
    BY <1>1, Bases
  <2>1. Base * q >= Base * Base
    BY <1>1, Bases
  <2> QED
    BY <1>1, <2>1, Bases
<1>4. q * Base = Base * q
  BY <1>1, Bases
<1>5. q \in Byte /\ r \in Byte /\ q * Base + r = n
  BY <1>1, <1>2, <1>3, <1>4, Bases DEF Byte
<1> QED
  BY <1>5 DEF q, r

----------------------------------------------------------------------------
(* Bytes and messages                                                      *)

\* A sequence cut in two.
LEMMA Cut ==
    ASSUME NEW S, NEW q \in Seq(S), NEW k \in Nat, k <= Len(q)
    PROVE  /\ SubSeq(q, 1, k) \in Seq(S) /\ Len(SubSeq(q, 1, k)) = k
           /\ SubSeq(q, k + 1, Len(q)) \in Seq(S) /\ Len(SubSeq(q, k + 1, Len(q))) = Len(q) - k
           /\ SubSeq(q, 1, k) \o SubSeq(q, k + 1, Len(q)) = q
<1>1. Len(q) \in Nat /\ \A i \in 1 .. Len(q) : q[i] \in S
  BY LenProperties, ElementOfSeq
<1>2. /\ \A i \in 1 .. k : q[i] \in S
      /\ \A i \in k + 1 .. Len(q) : q[i] \in S
  BY <1>1
<1>3. SubSeq(q, 1, k) \in Seq(S) /\ Len(SubSeq(q, 1, k)) = k
  BY <1>1, <1>2, SubSeqProperties
<1>4. SubSeq(q, k + 1, Len(q)) \in Seq(S) /\ Len(SubSeq(q, k + 1, Len(q))) = Len(q) - k
  BY <1>1, <1>2, SubSeqProperties
<1>5. SubSeq(q, 1, k) \o SubSeq(q, k + 1, Len(q)) = SubSeq(q, 1, Len(q))
  <2>1. 1 \in 1 .. Len(q) + 1 /\ k \in 1 - 1 .. Len(q) /\ Len(q) \in k .. Len(q)
    BY <1>1
  <2> QED
    BY <2>1, ConcatAdjacentSubSeq
<1> QED
  BY <1>3, <1>4, <1>5, SubSeqFull

\* st is s followed by t.
Joined(st, s, t) == st = s \o t

LEMMA JoinedFacts ==
    ASSUME NEW S, NEW s \in Seq(S), NEW t \in Seq(S), NEW st, Joined(st, s, t)
    PROVE  /\ st \in Seq(S) /\ Len(st) = Len(s) + Len(t) /\ Len(s) \in Nat /\ Len(t) \in Nat
           /\ \A i \in 1 .. Len(s) : st[i] = s[i]
           /\ \A i \in 1 .. Len(t) : st[Len(s) + i] = t[i]
<1>1. /\ st \in Seq(S) /\ Len(st) = Len(s) + Len(t)
      /\ \A i \in 1 .. Len(s) + Len(t) : st[i] = IF i <= Len(s) THEN s[i] ELSE t[i - Len(s)]
  BY ConcatProperties DEF Joined
<1>2. Len(s) \in Nat /\ Len(t) \in Nat
  BY LenProperties
<1>3. ASSUME NEW i \in 1 .. Len(s) PROVE st[i] = s[i]
  BY <1>1, <1>2
<1>4. ASSUME NEW i \in 1 .. Len(t) PROVE st[Len(s) + i] = t[i]
  <2>1. /\ Len(s) + i \in 1 .. Len(s) + Len(t) /\ ~(Len(s) + i <= Len(s))
        /\ (Len(s) + i) - Len(s) = i
    BY <1>2
  <2> QED
    BY <1>1, <2>1
<1> QED
  BY <1>1, <1>2, <1>3, <1>4

\* What is joined to the right first is the same as what is joined to the left first.
LEMMA JoinedRight ==
    ASSUME NEW S, NEW s \in Seq(S), NEW t \in Seq(S), NEW u \in Seq(S),
           NEW st, Joined(st, s, t), NEW tu, Joined(tu, t, u), NEW all
    PROVE  Joined(all, st, u) <=> Joined(all, s, tu)
<1>1. (s \o t) \o u = s \o (t \o u)
  BY ConcatAssociative
<1> QED
  BY <1>1 DEF Joined

\* A message with its header.
Frame(m) == Header(Len(m)) \o m

LEMMA MessageType ==
    ASSUME NEW m \in Message
    PROVE  m \in Seq(Byte) /\ Len(m) \in Nat /\ Len(m) > 0 /\ Len(m) < Base * Base
BY NetCommAssumption, LenProperties DEF NetCommAssumption, Byte

LEMMA FrameType ==
    ASSUME NEW m \in Message
    PROVE  /\ Frame(m) \in Seq(Byte) /\ Len(Frame(m)) = 2 + Len(m)
           /\ Frame(m)[1] = Len(m) \div Base /\ Frame(m)[2] = Len(m) % Base
           /\ \A j \in 1 .. Len(m) : Frame(m)[2 + j] = m[j]
<1> DEFINE h == Header(Len(m))
<1>1. /\ h \in Seq(Byte) /\ Len(h) = 2
      /\ h[1] = Len(m) \div Base /\ h[2] = Len(m) % Base
  <2>1. Len(m) \div Base \in Byte /\ Len(m) % Base \in Byte
    BY MessageType, HeaderReads
  <2> QED
    BY <2>1 DEF Header
<1> HIDE DEF h
<1>2. Joined(Frame(m), h, m)
  BY DEF Joined, Frame, h
<1>3. /\ Frame(m) \in Seq(Byte) /\ Len(Frame(m)) = 2 + Len(m)
      /\ \A i \in 1 .. 2 : Frame(m)[i] = h[i]
      /\ \A j \in 1 .. Len(m) : Frame(m)[2 + j] = m[j]
  <2>1. m \in Seq(Byte) /\ h \in Seq(Byte)
    BY <1>1, MessageType
  <2>2. /\ Frame(m) \in Seq(Byte) /\ Len(Frame(m)) = Len(h) + Len(m)
        /\ \A i \in 1 .. Len(h) : Frame(m)[i] = h[i]
        /\ \A j \in 1 .. Len(m) : Frame(m)[Len(h) + j] = m[j]
    BY <1>2, <2>1, JoinedFacts
  <2> QED
    BY <1>1, <2>2
<1> QED
  BY <1>1, <1>3

----------------------------------------------------------------------------
(* Types                                                                   *)

\* What TypeOK says, in terms of Byte.
LEMMA Types ==
    ASSUME TypeOK
    PROVE  /\ sent \in Seq(Message) /\ unsent \in Seq(Byte) /\ socket \in Seq(Byte)
           /\ segments \in Seq(Byte) /\ received \in Seq(Seq(Byte)) /\ num \in Nat
           /\ Len(sent) \in Nat /\ Len(received) \in Nat /\ Len(segments) \in Nat
           /\ Len(socket) \in Nat /\ Len(unsent) \in Nat
           /\ part = "header" => num = 2
<1>1. /\ sent \in Seq(Message) /\ unsent \in Seq(Byte) /\ socket \in Seq(Byte)
      /\ segments \in Seq(Byte) /\ received \in Seq(Seq(Byte)) /\ num \in Nat
      /\ part = "header" => num = 2
  BY Bases DEF TypeOK, Byte, HeaderLength
<1> QED
  BY <1>1, LenProperties

\* One recv takes what is missing, or less, from the front of the socket.
Bytes(k) == segments \o SubSeq(socket, 1, k)
Left(k) == SubSeq(socket, k + 1, Len(socket))

LEMMA Taken ==
    ASSUME TypeOK, NEW k \in 1 .. Base * Base, Recv(k)
    PROVE  /\ Bytes(k) \in Seq(Byte) /\ Len(Bytes(k)) \in Nat
           /\ Left(k) \in Seq(Byte) /\ Len(Left(k)) = Len(socket) - k
           /\ Len(Bytes(k)) = Len(segments) + k /\ Len(Bytes(k)) <= num /\ num > 0
           /\ Bytes(k) \o (Left(k) \o unsent) = segments \o (socket \o unsent)
           /\ socket' = Left(k)
           /\ IF Len(Bytes(k)) < num
              THEN segments' = Bytes(k) /\ UNCHANGED <<part, num, received, reader>>
              ELSE Complete(Bytes(k))
<1> DEFINE a == SubSeq(socket, 1, k)
           b == SubSeq(socket, k + 1, Len(socket))
<1>1. /\ k \in Nat /\ k <= Len(socket) /\ k <= num - Len(segments)
      /\ segments \in Seq(Byte) /\ socket \in Seq(Byte) /\ unsent \in Seq(Byte)
      /\ Len(segments) \in Nat /\ num \in Nat /\ k > 0 /\ Len(socket) \in Nat
  BY Types DEF Recv
<1>2. /\ a \in Seq(Byte) /\ Len(a) = k /\ b \in Seq(Byte) /\ Len(b) = Len(socket) - k
      /\ a \o b = socket
  BY <1>1, Cut
<1>3. /\ socket' = b
      /\ IF Len(segments \o a) < num
         THEN segments' = segments \o a /\ UNCHANGED <<part, num, received, reader>>
         ELSE Complete(segments \o a)
  BY DEF Recv
<1> HIDE DEF a, b
<1>4. PICK q, bu, su : Joined(q, segments, a) /\ Joined(bu, b, unsent) /\ Joined(su, socket, unsent)
  BY DEF Joined
<1>5. /\ q \in Seq(Byte) /\ Len(q) = Len(segments) + k
      /\ bu \in Seq(Byte)
  BY <1>1, <1>2, <1>4, JoinedFacts
<1>6. \A all : Joined(all, q, bu) <=> Joined(all, segments, su)
  <2>1. Joined(socket, a, b)
    BY <1>2 DEF Joined
  <2>2. Joined(su, a, bu)
    BY <1>1, <1>2, <1>4, <2>1, JoinedRight
  <2> QED
    BY <1>1, <1>2, <1>4, <1>5, <2>2, JoinedRight
<1>7. q = segments \o a /\ q \o bu = segments \o su /\ bu = b \o unsent /\ su = socket \o unsent
  BY <1>4, <1>6 DEF Joined
<1>8. Len(q) <= num /\ num > 0 /\ Len(q) \in Nat
  BY <1>1, <1>5
<1> QED
  BY <1>2, <1>3, <1>5, <1>7, <1>8 DEF a, b, Bytes, Left

LEMMA TypeInit == Init => TypeOK
<1>1. HeaderLength \in 0 .. Base * Base - 1
  <2>1. Base * Base >= 2 * Base
    BY Bases
  <2> QED
    BY <2>1, Bases DEF HeaderLength
<1>2. Capacity \in Nat
  BY NetCommAssumption DEF NetCommAssumption
<1>3. \A S : <<>> \in Seq(S) /\ Len(<<>>) = 0
  BY EmptySeq
<1> SUFFICES ASSUME Init PROVE TypeOK
  OBVIOUS
<1>4. /\ sent \in Seq(Message) /\ unsent \in Seq(0 .. Base - 1) /\ socket \in Seq(0 .. Base - 1)
      /\ segments \in Seq(0 .. Base - 1) /\ received \in Seq(Seq(0 .. Base - 1))
      /\ Len(socket) = 0 /\ Len(segments) = 0
  BY <1>3 DEF Init
<1>5. /\ part = "header" /\ num = HeaderLength /\ HeaderLength = 2
      /\ writer = "open" /\ reader = "open" /\ torn = FALSE
  BY DEF Init, HeaderLength
<1>6. num \in 0 .. Base * Base - 1 /\ Len(segments) <= num /\ Len(socket) <= Capacity
  BY <1>1, <1>2, <1>4, <1>5
<1> QED
  BY <1>4, <1>5, <1>6 DEF TypeOK

LEMMA TypeStep ==
    ASSUME TypeOK, [Next]_vars
    PROVE  TypeOK'
<1> USE DEF Byte
<1>1. HeaderLength \in 0 .. Base * Base - 1 /\ HeaderLength = 2
  <2>1. Base * Base >= 2 * Base
    BY Bases
  <2> QED
    BY <2>1, Bases DEF HeaderLength
<1>2. ASSUME NEW m \in Message, Send(m) PROVE TypeOK'
  <2>1. unsent' = Frame(m) /\ sent' = Append(sent, m)
    BY <1>2 DEF Send, Frame
  <2>2. unsent' \in Seq(Byte) /\ sent' \in Seq(Message)
    BY <2>1, FrameType, Types, AppendProperties
  <2> QED
    BY <1>2, <2>2 DEF Send, TypeOK
<1>3. ASSUME NEW k \in 1 .. Base * Base, Transmit(k) PROVE TypeOK'
  <2> DEFINE a == SubSeq(unsent, 1, k)
             b == SubSeq(unsent, k + 1, Len(unsent))
  <2>1. /\ k \in Nat /\ k <= Len(unsent) /\ Len(socket) + k <= Capacity
        /\ socket' = socket \o a /\ unsent' = b
    BY <1>3 DEF Transmit
  <2>2. a \in Seq(Byte) /\ Len(a) = k /\ b \in Seq(Byte)
    BY <2>1, Cut, Types
  <2> HIDE DEF a, b
  <2>3. Joined(socket', socket, a)
    BY <2>1 DEF Joined
  <2>4. socket' \in Seq(Byte) /\ Len(socket') = Len(socket) + k
    BY <2>2, <2>3, Types, JoinedFacts
  <2> QED
    BY <1>3, <2>1, <2>2, <2>4 DEF Transmit, TypeOK
<1>4. ASSUME NEW k \in 1 .. Base * Base, Recv(k) PROVE TypeOK'
  <2> DEFINE q == Bytes(k)
  <2>1. /\ q \in Seq(Byte) /\ Len(q) \in Nat /\ Len(q) <= num
        /\ socket' \in Seq(Byte) /\ Len(socket') <= Capacity
        /\ IF Len(q) < num
           THEN segments' = q /\ UNCHANGED <<part, num, received, reader>>
           ELSE Complete(q)
    <3>1. Len(socket) <= Capacity /\ Capacity \in Nat /\ Len(socket) \in Nat
      BY Types, NetCommAssumption DEF TypeOK, NetCommAssumption
    <3>2. Len(socket) - k <= Capacity
      BY <3>1
    <3> QED
      BY <1>4, Taken, <3>2
  <2>2. UNCHANGED <<sent, unsent, writer, torn>>
    BY <1>4 DEF Recv
  <2> HIDE DEF q
  <2>3. CASE Len(q) < num
    BY <2>1, <2>2, <2>3 DEF TypeOK
  <2>4. CASE ~(Len(q) < num)
    <3>1. Complete(q) /\ Len(q) = num
      BY <2>1, <2>4, Types
    <3>2. CASE part = "header"
      <4>1. q[1] \in Byte /\ q[2] \in Byte
        <5>1. Len(q) = 2
          BY <3>1, <3>2, Types
        <5> HIDE DEF Byte
        <5>2. 1 \in 1 .. Len(q) /\ 2 \in 1 .. Len(q)
          BY <5>1
        <5> QED
          BY <2>1, <5>2, ElementOfSeq
      <4>2. LengthIn(q) \in 0 .. Base * Base - 1
        BY <4>1, HeaderBounds DEF LengthIn
      <4>3. segments' = <<>> /\ part' = "payload" /\ num' = LengthIn(q) /\ received' = received /\ reader' = reader
        BY <3>1, <3>2 DEF Complete
      <4> HIDE DEF Byte
      <4>4. num' >= 0 /\ Len(segments') <= num' /\ segments' \in Seq(Byte)
        BY <4>2, <4>3, EmptySeq, Bases
      <4> QED
        BY <2>1, <2>2, <4>2, <4>3, <4>4 DEF TypeOK, Byte
    <3>3. CASE part # "header"
      <4>1. segments' = <<>> /\ part' = "header" /\ num' = 2 /\ received' = Append(received, q)
        BY <1>1, <3>1, <3>3 DEF Complete
      <4>0. reader' \in {"open", "closed", "failed"}
        BY <3>1, <3>3 DEF Complete, Unpacked
      <4> HIDE DEF Byte
      <4>2. received' \in Seq(Seq(Byte))
        BY <2>1, <4>1, Types, AppendProperties
      <4>3. Len(segments') <= num' /\ segments' \in Seq(Byte)
        BY <4>1, EmptySeq
      <4> QED
        BY <1>1, <2>1, <2>2, <4>0, <4>1, <4>2, <4>3 DEF TypeOK, Byte
    <3> QED
      BY <3>2, <3>3
  <2> QED
    BY <2>3, <2>4
<1>5. CASE SendTimeout
  BY <1>5, EmptySeq DEF SendTimeout, TypeOK
<1>6. CASE Close
  BY <1>6 DEF Close, TypeOK
<1>7. CASE EndOfStream
  BY <1>7 DEF EndOfStream, TypeOK
<1>8. CASE EmptyMessage
  BY <1>8 DEF EmptyMessage, TypeOK
<1>9. CASE RecvTimeout
  BY <1>1, <1>9, EmptySeq DEF RecvTimeout, TypeOK
<1>10. CASE UNCHANGED vars
  BY <1>10 DEF vars, TypeOK
<1> QED
  BY <1>2, <1>3, <1>4, <1>5, <1>6, <1>7, <1>8, <1>9, <1>10 DEF Next

\* For any byte values, messages, capacity and chunks: what __recv_exact has never
\* exceeds what it was asked for, and the length that it unpacks next is one that a
\* header can hold, torn or not.
THEOREM TypeCorrect == Spec => []TypeOK
<1> QED
  BY TypeInit, TypeStep, PTL DEF Spec

----------------------------------------------------------------------------
(* What is under way: whole frames behind the one that is being read       *)

\* The bytes that the reader does not have, behind those of the part it is reading.
Rest == segments \o (socket \o unsent)

\* The message m has its frame at an offset.  Of the first frame the header may
\* have been read already: its offset is negative then.
FrameAt(rest, at, m) ==
    /\ at >= 0 => rest[at + 1] = Len(m) \div Base /\ rest[at + 2] = Len(m) % Base
    /\ \A j \in 1 .. Len(m) : rest[at + 2 + j] = m[j]

\* The frames of what comes after the messages before next fill up the rest.
Frames(rest, msgs, at, next, first) ==
    /\ at \in [next .. Len(msgs) + 1 -> Int]
    /\ at[next] = first /\ at[Len(msgs) + 1] = Len(rest)
    /\ \A i, j \in next .. Len(msgs) + 1 : i <= j => at[i] <= at[j]
    /\ \A i \in next .. Len(msgs) :
          at[i + 1] = at[i] + 2 + Len(msgs[i]) /\ FrameAt(rest, at[i], msgs[i])

\* The message whose frame is being read, or comes next.
Next1 == Len(received) + 1

\* Where the next of them starts.
First == IF part = "header" THEN 0 ELSE -2

\* A frame lies within the rest.
LEMMA FrameBounds ==
    ASSUME NEW rest, Len(rest) \in Nat, NEW msgs \in Seq(Message), NEW at,
           NEW next \in 1 .. Len(msgs) + 1, NEW first \in {0, -2},
           Frames(rest, msgs, at, next, first), NEW i \in next .. Len(msgs)
    PROVE  /\ at[i] \in Int /\ msgs[i] \in Message /\ Len(msgs[i]) \in Nat
           /\ at[i] >= first /\ at[i] + 2 + Len(msgs[i]) <= Len(rest)
           /\ FrameAt(rest, at[i], msgs[i])
<1>1. Len(msgs) \in Nat /\ next \in Nat
  BY LenProperties
<1>2. /\ i \in 1 .. Len(msgs) /\ i \in next .. Len(msgs) + 1 /\ i + 1 \in next .. Len(msgs) + 1
      /\ next \in next .. Len(msgs) + 1 /\ Len(msgs) + 1 \in next .. Len(msgs) + 1
      /\ next <= i /\ i + 1 <= Len(msgs) + 1
  BY <1>1
<1>3. msgs[i] \in Message
  BY <1>2, ElementOfSeq
<1>4. /\ at[i] \in Int /\ at[i + 1] \in Int
      /\ at[next] <= at[i] /\ at[i + 1] <= at[Len(msgs) + 1]
      /\ at[i + 1] = at[i] + 2 + Len(msgs[i]) /\ FrameAt(rest, at[i], msgs[i])
      /\ at[next] = first /\ at[Len(msgs) + 1] = Len(rest)
  BY <1>2 DEF Frames
<1>5. Len(msgs[i]) \in Nat
  BY <1>3, MessageType
<1> QED
  BY <1>3, <1>4, <1>5

\* A frame stays one where the bytes around it are moved or taken away.
LEMMA FrameMoved ==
    ASSUME NEW rest, Len(rest) \in Nat, NEW at \in Int, NEW m, Len(m) \in Nat,
           FrameAt(rest, at, m), at + 2 + Len(m) <= Len(rest),
           NEW d \in Nat, at - d >= -2,
           NEW moved, \A i \in 1 .. Len(rest) : i - d >= 1 => moved[i - d] = rest[i]
    PROVE  FrameAt(moved, at - d, m)
<1> DEFINE l == Len(m)
           end == Len(rest)
           to == at - d
<1>0. /\ l \in Nat /\ end \in Nat /\ to \in Int /\ to = at - d /\ to >= -2 /\ at + 2 + l <= end
      /\ \A i \in 1 .. end : i - d >= 1 => moved[i - d] = rest[i]
      /\ at >= 0 => rest[at + 1] = l \div Base /\ rest[at + 2] = l % Base
      /\ \A k \in 1 .. l : rest[at + 2 + k] = m[k]
  BY DEF FrameAt
<1> HIDE DEF l, end, to
<1>1. ASSUME NEW k \in 1 .. l PROVE moved[to + 2 + k] = m[k]
  <2>1. at + 2 + k \in 1 .. end /\ (at + 2 + k) - d >= 1 /\ (at + 2 + k) - d = to + 2 + k
    BY <1>0
  <2> QED
    BY <1>0, <2>1
<1>2. ASSUME to >= 0
      PROVE  moved[to + 1] = l \div Base /\ moved[to + 2] = l % Base
  <2>1. /\ at >= 0 /\ at + 1 \in 1 .. end /\ at + 2 \in 1 .. end
        /\ (at + 1) - d >= 1 /\ (at + 1) - d = to + 1
        /\ (at + 2) - d >= 1 /\ (at + 2) - d = to + 2
    BY <1>0, <1>2
  <2> QED
    BY <1>0, <2>1
<1> QED
  BY <1>1, <1>2 DEF FrameAt, l, to

\* send: one more frame behind the others.
LEMMA FramesSent ==
    ASSUME NEW rest \in Seq(Byte), NEW msgs \in Seq(Message), NEW at,
           NEW next \in 1 .. Len(msgs) + 1, NEW first \in {0, -2},
           Frames(rest, msgs, at, next, first),
           NEW m \in Message, NEW longer, Joined(longer, rest, Frame(m))
    PROVE  \E to : Frames(longer, Append(msgs, m), to, next, first)
<1> DEFINE n == Len(msgs)
           end == Len(rest)
           more == Append(msgs, m)
           to == [i \in next .. n + 2 |-> IF i = n + 2 THEN end + 2 + Len(m) ELSE at[i]]
<1>1. /\ n \in Nat /\ next \in Nat /\ end \in Nat /\ Len(m) \in Nat
      /\ more \in Seq(Message) /\ Len(more) = n + 1
      /\ more[n + 1] = m /\ \A i \in 1 .. n : more[i] = msgs[i]
  BY LenProperties, MessageType, AppendProperties
<1>2. /\ Len(longer) = end + (2 + Len(m))
      /\ \A i \in 1 .. end : longer[i] = rest[i]
      /\ \A i \in 1 .. 2 + Len(m) : longer[end + i] = Frame(m)[i]
  <2>1. Frame(m) \in Seq(Byte) /\ Len(Frame(m)) = 2 + Len(m)
    BY FrameType
  <2>2. /\ Len(longer) = Len(rest) + Len(Frame(m))
        /\ \A i \in 1 .. Len(rest) : longer[i] = rest[i]
        /\ \A i \in 1 .. Len(Frame(m)) : longer[Len(rest) + i] = Frame(m)[i]
    BY <2>1, JoinedFacts
  <2> QED
    BY <2>1, <2>2
<1>3. /\ at \in [next .. n + 1 -> Int] /\ at[next] = first /\ at[n + 1] = end
      /\ \A i, j \in next .. n + 1 : i <= j => at[i] <= at[j]
      /\ \A i \in next .. n : at[i + 1] = at[i] + 2 + Len(msgs[i])
  BY DEF Frames
<1> HIDE DEF n, end
<1>4. /\ to \in [next .. n + 2 -> Int] /\ to[n + 2] = end + 2 + Len(m)
      /\ \A i \in next .. n + 1 : to[i] = at[i]
  BY <1>1, <1>3
<1> HIDE DEF more, to
<1>5. to[next] = first /\ to[n + 1] = end
  BY <1>1, <1>3, <1>4 DEF n
<1>6. \A i, j \in next .. n + 2 : i <= j => to[i] <= to[j]
  <2> SUFFICES ASSUME NEW i \in next .. n + 2, NEW j \in next .. n + 2, i <= j PROVE to[i] <= to[j]
    OBVIOUS
  <2>1. CASE j # n + 2
    BY <1>1, <1>3, <1>4, <2>1
  <2>2. CASE i = n + 2
    BY <1>1, <1>4, <2>2
  <2>3. CASE j = n + 2 /\ i # n + 2
    <3>1. to[i] \in Int /\ to[i] <= end
      <4>1. i \in next .. n + 1 /\ n + 1 \in next .. n + 1 /\ i <= n + 1
        BY <1>1, <2>3
      <4> QED
        BY <1>3, <1>4, <4>1
    <3> QED
      BY <1>1, <1>4, <2>3, <3>1
  <2> QED
    BY <2>1, <2>2, <2>3
<1>7. ASSUME NEW i \in next .. n + 1
      PROVE  to[i + 1] = to[i] + 2 + Len(more[i]) /\ FrameAt(longer, to[i], more[i])
  <2>1. CASE i = n + 1
    <3>1. to[i + 1] = end + 2 + Len(m) /\ to[i] = end /\ more[i] = m
      BY <1>1, <1>4, <1>5, <2>1
    <3>2. /\ longer[end + 1] = Len(m) \div Base /\ longer[end + 2] = Len(m) % Base
          /\ \A k \in 1 .. Len(m) : longer[end + (2 + k)] = m[k]
      <4>1. /\ 1 \in 1 .. 2 + Len(m) /\ 2 \in 1 .. 2 + Len(m)
            /\ \A k \in 1 .. Len(m) : 2 + k \in 1 .. 2 + Len(m)
        BY <1>1
      <4> QED
        BY <1>2, <4>1, FrameType
    <3>3. \A k \in 1 .. Len(m) : end + 2 + k = end + (2 + k)
      BY <1>1
    <3>4. FrameAt(longer, end, m)
      BY <3>2, <3>3 DEF FrameAt
    <3> QED
      BY <3>1, <3>4
  <2>2. CASE i # n + 1
    <3>1. /\ i \in next .. n /\ i \in 1 .. n /\ i \in next .. n + 1 /\ i + 1 \in next .. n + 1
      BY <1>1, <2>2
    <3>2. to[i + 1] = at[i + 1] /\ to[i] = at[i] /\ more[i] = msgs[i]
      BY <1>1, <1>4, <3>1
    <3>3. /\ at[i] \in Int /\ Len(msgs[i]) \in Nat /\ at[i] >= -2
          /\ at[i] + 2 + Len(msgs[i]) <= end /\ FrameAt(rest, at[i], msgs[i])
      BY <1>1, <3>1, FrameBounds DEF n, end
    <3>4. PICK a, l : a = at[i] /\ l = Len(msgs[i])
      OBVIOUS
    <3>5. /\ a \in Int /\ l \in Nat /\ a - 0 >= -2 /\ a + 2 + l <= Len(rest)
          /\ Len(rest) \in Nat /\ 0 \in Nat /\ a - 0 = a /\ FrameAt(rest, a, msgs[i])
      BY <1>1, <3>3, <3>4 DEF end
    <3>7. \A k \in 1 .. Len(rest) : k - 0 >= 1 => longer[k - 0] = rest[k]
      <4>1. \A k \in 1 .. end : k - 0 = k
        BY <1>1
      <4> QED
        BY <1>2, <4>1 DEF end
    <3>8. FrameAt(longer, a - 0, msgs[i])
      BY <3>4, <3>5, <3>7, FrameMoved
    <3>6. FrameAt(longer, at[i], msgs[i])
      BY <3>4, <3>5, <3>8
    <3> QED
      BY <1>3, <3>1, <3>2, <3>6
  <2> QED
    BY <2>1, <2>2
<1>8. /\ Len(more) + 1 = n + 2 /\ next .. Len(more) = next .. n + 1
      /\ to[Len(more) + 1] = Len(longer)
  BY <1>1, <1>2, <1>4
<1>9. Frames(longer, more, to, next, first)
  BY <1>4, <1>5, <1>6, <1>7, <1>8 DEF Frames
<1> QED
  BY <1>9 DEF more

\* What is taken from the front leaves the frames behind it.
LEMMA FramesShift ==
    ASSUME NEW rest, NEW msgs \in Seq(Message), NEW at,
           NEW next \in 1 .. Len(msgs) + 1, NEW first \in {0, -2},
           Frames(rest, msgs, at, next, first),
           NEW taken \in Seq(Byte), NEW left \in Seq(Byte), Joined(rest, taken, left),
           NEW now \in next .. Len(msgs) + 1, NEW ahead \in {0, -2}, at[now] - Len(taken) = ahead
    PROVE  \E to : Frames(left, msgs, to, now, ahead)
<1> DEFINE n == Len(msgs)
           d == Len(taken)
           to == [i \in now .. n + 1 |-> at[i] - d]
<1>1. n \in Nat /\ next \in 1 .. n + 1 /\ now \in next .. n + 1 /\ now \in 1 .. n + 1
  BY LenProperties
<1>2. /\ Len(rest) = d + Len(left) /\ d \in Nat /\ Len(left) \in Nat /\ Len(rest) \in Nat
      /\ \A i \in 1 .. Len(left) : rest[d + i] = left[i]
  BY JoinedFacts
<1>3. /\ at \in [next .. n + 1 -> Int] /\ at[n + 1] = Len(rest) /\ at[now] - d = ahead
      /\ \A i, j \in next .. n + 1 : i <= j => at[i] <= at[j]
      /\ \A i \in next .. n : at[i + 1] = at[i] + 2 + Len(msgs[i])
  BY DEF Frames
<1>4. \A i \in next .. n : /\ at[i] \in Int /\ Len(msgs[i]) \in Nat
                           /\ at[i] + 2 + Len(msgs[i]) <= Len(rest)
                           /\ FrameAt(rest, at[i], msgs[i])
  BY <1>2, FrameBounds
<1> HIDE DEF n, d
<1>5. /\ to \in [now .. n + 1 -> Int]
      /\ \A i \in now .. n + 1 : to[i] = at[i] - d
  BY <1>1, <1>2, <1>3
<1> HIDE DEF to
<1>6. to[now] = ahead /\ to[n + 1] = Len(left)
  <2>1. now \in now .. n + 1 /\ n + 1 \in now .. n + 1
    BY <1>1
  <2>2. (d + Len(left)) - d = Len(left)
    BY <1>2
  <2> QED
    BY <1>2, <1>3, <1>5, <2>1, <2>2
<1>7. \A i, j \in now .. n + 1 : i <= j => to[i] <= to[j]
  <2> SUFFICES ASSUME NEW i \in now .. n + 1, NEW j \in now .. n + 1, i <= j PROVE to[i] <= to[j]
    OBVIOUS
  <2>1. i \in next .. n + 1 /\ j \in next .. n + 1
    BY <1>1
  <2>2. at[i] \in Int /\ at[j] \in Int /\ at[i] <= at[j]
    BY <1>3, <2>1
  <2> QED
    BY <1>2, <1>5, <2>2
<1>8. ASSUME NEW i \in now .. n
      PROVE  to[i + 1] = to[i] + 2 + Len(msgs[i]) /\ FrameAt(left, to[i], msgs[i])
  <2>1. /\ i \in next .. n /\ i \in now .. n + 1 /\ i + 1 \in now .. n + 1 /\ now <= i
        /\ i \in next .. n + 1 /\ now \in next .. n + 1
    BY <1>1
  <2>2. PICK a, l : a = at[i] /\ l = Len(msgs[i])
    OBVIOUS
  <2>3. /\ a \in Int /\ l \in Nat /\ a + 2 + l <= Len(rest) /\ FrameAt(rest, a, msgs[i])
        /\ at[i + 1] = a + 2 + l /\ at[now] <= a /\ at[now] \in Int
        /\ to[i] = a - d /\ to[i + 1] = at[i + 1] - d
    BY <1>3, <1>4, <1>5, <2>1, <2>2
  <2>4. a - d >= -2 /\ to[i + 1] = to[i] + 2 + l
    <3>1. PICK b : b = at[now]
      OBVIOUS
    <3>2. b \in Int /\ b <= a /\ b - d = ahead /\ ahead >= -2 /\ d \in Int /\ a \in Int /\ l \in Int
      BY <1>2, <1>3, <2>3, <3>1
    <3>3. a - d >= -2
      BY <3>2
    <3>4. (a + 2 + l) - d = (a - d) + 2 + l
      BY <3>2
    <3>5. to[i + 1] = (a + 2 + l) - d /\ to[i] = a - d
      BY <2>3
    <3> QED
      BY <3>3, <3>4, <3>5
  <2>5. \A k \in 1 .. Len(rest) : k - d >= 1 => left[k - d] = rest[k]
    <3> SUFFICES ASSUME NEW k \in 1 .. Len(rest), k - d >= 1 PROVE left[k - d] = rest[k]
      OBVIOUS
    <3>1. k - d \in 1 .. Len(left) /\ d + (k - d) = k
      BY <1>2
    <3> QED
      BY <1>2, <3>1
  <2>6. FrameAt(left, a - d, msgs[i])
    BY <1>2, <2>2, <2>3, <2>4, <2>5, FrameMoved
  <2> QED
    BY <2>2, <2>3, <2>4, <2>6
<1>9. Frames(left, msgs, to, now, ahead)
  BY <1>5, <1>6, <1>7, <1>8 DEF Frames, n
<1> QED
  BY <1>9

\* Two bytes where a frame starts are the length of the next message.
LEMMA HeaderRead ==
    ASSUME NEW rest, NEW msgs \in Seq(Message), NEW at, NEW next \in 1 .. Len(msgs) + 1,
           Frames(rest, msgs, at, next, 0),
           NEW taken \in Seq(Byte), NEW left \in Seq(Byte), Joined(rest, taken, left)
    PROVE  Len(taken) = 2 => next \in 1 .. Len(msgs) /\ LengthIn(taken) = Len(msgs[next])
<1>0. /\ Len(rest) = Len(taken) + Len(left) /\ Len(left) \in Nat
      /\ \A i \in 1 .. Len(taken) : rest[i] = taken[i]
  BY JoinedFacts
<1> SUFFICES ASSUME Len(taken) = 2
             PROVE  next \in 1 .. Len(msgs) /\ LengthIn(taken) = Len(msgs[next])
  OBVIOUS
<1>1. /\ Len(rest) = 2 + Len(left) /\ Len(left) \in Nat /\ Len(rest) \in Nat /\ Len(msgs) \in Nat
      /\ \A i \in 1 .. Len(taken) : rest[i] = taken[i]
  BY <1>0, LenProperties
<1>2. at[next] = 0 /\ at[Len(msgs) + 1] = Len(rest)
  BY DEF Frames
<1>3. next \in 1 .. Len(msgs)
  BY <1>1, <1>2
<1>4. Len(msgs[next]) \in Nat /\ Len(msgs[next]) < Base * Base
  <2>1. msgs[next] \in Message
    BY <1>3, ElementOfSeq
  <2> QED
    BY <2>1, MessageType
<1>5. FrameAt(rest, 0, msgs[next])
  <2>1. next \in next .. Len(msgs)
    BY <1>1, <1>3
  <2> QED
    BY <1>2, <2>1 DEF Frames
<1>6. rest[1] = Len(msgs[next]) \div Base /\ rest[2] = Len(msgs[next]) % Base
  BY <1>5 DEF FrameAt
<1>7. taken[1] = rest[1] /\ taken[2] = rest[2]
  <2>1. 1 \in 1 .. Len(taken) /\ 2 \in 1 .. Len(taken)
    OBVIOUS
  <2> QED
    BY <1>1, <2>1
<1>8. (Len(msgs[next]) \div Base) * Base + (Len(msgs[next]) % Base) = Len(msgs[next])
  BY <1>4, HeaderReads
<1> QED
  BY <1>3, <1>6, <1>7, <1>8 DEF LengthIn

\* As many bytes as the header said are the message.
LEMMA PayloadRead ==
    ASSUME NEW rest, NEW msgs \in Seq(Message), NEW at, NEW next \in 1 .. Len(msgs),
           Frames(rest, msgs, at, next, -2),
           NEW taken \in Seq(Byte), NEW left \in Seq(Byte), Joined(rest, taken, left),
           Len(taken) = Len(msgs[next])
    PROVE  taken = msgs[next] /\ at[next + 1] - Len(taken) = 0
<1> DEFINE m == msgs[next]
<1>1. /\ Len(msgs) \in Nat /\ Len(taken) \in Nat
      /\ \A i \in 1 .. Len(taken) : rest[i] = taken[i]
  BY JoinedFacts, LenProperties
<1>2. m \in Seq(Byte) /\ Len(m) \in Nat
  BY ElementOfSeq, MessageType
<1>3. at[next] = -2 /\ at[next + 1] = at[next] + 2 + Len(m) /\ FrameAt(rest, -2, m)
  <2>1. next \in next .. Len(msgs)
    BY <1>1
  <2> QED
    BY <2>1 DEF Frames
<1> HIDE DEF m
<1>4. \A j \in 1 .. Len(m) : rest[j] = m[j]
  <2>1. \A j \in 1 .. Len(m) : (-2) + 2 + j = j
    BY <1>2
  <2>2. \A j \in 1 .. Len(m) : rest[(-2) + 2 + j] = m[j]
    BY <1>3 DEF FrameAt
  <2> QED
    BY <2>1, <2>2
<1>5. Len(taken) = Len(m)
  BY DEF m
<1>6. taken = m
  <2>1. \A i \in 1 .. Len(taken) : taken[i] = m[i]
    BY <1>1, <1>4, <1>5
  <2> QED
    BY <1>2, <1>5, <2>1, SeqEqual
<1>7. at[next + 1] - Len(taken) = 0
  BY <1>2, <1>3, <1>5
<1> QED
  BY <1>6, <1>7 DEF m

----------------------------------------------------------------------------
(* The connection                                                          *)

\* What holds until a timeout expires within a frame: the messages received are
\* the first of those sent, and whole frames of the others are under way.
Stream ==
    /\ Len(received) <= Len(sent)
    /\ \A i \in 1 .. Len(received) : received[i] = sent[i]
    /\ part = "payload" => Next1 <= Len(sent) /\ num = Len(sent[Next1])
    /\ \E at : Frames(Rest, sent, at, Next1, First)

StreamInv == TypeOK /\ (~torn => Stream)

LEMMA StreamInit == Init => Stream
<1> SUFFICES ASSUME Init PROVE Stream
  OBVIOUS
<1>1. /\ sent = <<>> /\ received = <<>> /\ segments = <<>> /\ socket = <<>> /\ unsent = <<>>
      /\ part = "header"
  BY DEF Init
<1>2. Len(<<>>) = 0 /\ <<>> \o (<<>> \o <<>>) = <<>>
  BY EmptySeq, ConcatEmptySeq
<1>3. /\ Len(sent) = 0 /\ Len(received) = 0 /\ Next1 = 1 /\ First = 0 /\ Rest = <<>>
      /\ Len(Rest) = 0
  BY <1>1, <1>2 DEF Next1, First, Rest
<1>4. Frames(Rest, sent, [i \in 1 .. 1 |-> 0], Next1, First)
  BY <1>3 DEF Frames
<1> QED
  BY <1>1, <1>3, <1>4 DEF Stream

\* What a step does not change.
LEMMA StreamKept ==
    ASSUME Stream, Rest' = Rest, UNCHANGED <<sent, part, num, received>>
    PROVE  Stream'
<1>1. Next1' = Next1 /\ First' = First
  BY DEF Next1, First
<1>2. PICK at : Frames(Rest, sent, at, Next1, First)
  BY DEF Stream
<1>3. Frames(Rest, sent, at, Next1, First)'
  BY <1>1, <1>2 DEF Frames, FrameAt
<1> QED
  BY <1>1, <1>3 DEF Stream

LEMMA StreamSend ==
    ASSUME TypeOK, Stream, NEW m \in Message, Send(m)
    PROVE  Stream'
<1>1. /\ unsent = <<>> /\ unsent' = Frame(m) /\ sent' = Append(sent, m)
      /\ UNCHANGED <<socket, segments, part, num, received>>
  BY DEF Send, Frame
<1>2. /\ sent \in Seq(Message) /\ segments \in Seq(Byte) /\ socket \in Seq(Byte)
      /\ Len(sent) \in Nat /\ Len(received) \in Nat /\ Frame(m) \in Seq(Byte)
  BY Types, FrameType
<1>3. Next1' = Next1 /\ First' = First /\ First \in {0, -2} /\ Next1 \in 1 .. Len(sent) + 1
  BY <1>1, <1>2 DEF Next1, First, Stream
<1>4. Rest \in Seq(Byte) /\ Joined(Rest', Rest, Frame(m))
  <2>1. Rest = segments \o socket /\ Rest' = segments \o (socket \o Frame(m))
    BY <1>1, <1>2, ConcatEmptySeq DEF Rest
  <2>2. Rest \in Seq(Byte) /\ (segments \o socket) \o Frame(m) = segments \o (socket \o Frame(m))
    BY <1>2, <2>1, ConcatAssociative, ConcatProperties
  <2> QED
    BY <2>1, <2>2 DEF Joined
<1>5. \E to : Frames(Rest', sent', to, Next1, First)
  <2>1. PICK at : Frames(Rest, sent, at, Next1, First)
    BY DEF Stream
  <2> QED
    BY <1>1, <1>2, <1>3, <1>4, <2>1, FramesSent
<1>6. /\ Len(sent') = Len(sent) + 1
      /\ \A i \in 1 .. Len(sent) : sent'[i] = sent[i]
  BY <1>1, <1>2, AppendProperties
<1>7. \E to : Frames(Rest, sent, to, Next1, First)'
  <2>1. PICK to : Frames(Rest', sent', to, Next1, First)
    BY <1>5
  <2>2. Frames(Rest, sent, to, Next1, First)'
    BY <1>3, <2>1 DEF Frames, FrameAt
  <2> QED
    BY <2>2
<1>8. /\ Len(received') <= Len(sent')
      /\ \A i \in 1 .. Len(received') : received'[i] = sent'[i]
  BY <1>1, <1>2, <1>6 DEF Stream
<1>9. part' = "payload" => Next1' <= Len(sent') /\ num' = Len(sent'[Next1'])
  <2> SUFFICES ASSUME part = "payload" PROVE Next1 <= Len(sent') /\ num = Len(sent'[Next1])
    BY <1>1, <1>3
  <2>1. Next1 <= Len(sent) /\ num = Len(sent[Next1])
    BY DEF Stream
  <2> QED
    BY <1>2, <1>3, <1>6, <2>1
<1> QED
  BY <1>7, <1>8, <1>9 DEF Stream

LEMMA StreamTransmit ==
    ASSUME TypeOK, Stream, NEW k \in 1 .. Base * Base, Transmit(k)
    PROVE  Stream'
<1> DEFINE a == SubSeq(unsent, 1, k)
           b == SubSeq(unsent, k + 1, Len(unsent))
<1>1. /\ k \in Nat /\ k <= Len(unsent) /\ socket' = socket \o a /\ unsent' = b
      /\ UNCHANGED <<sent, segments, part, num, received>>
  BY DEF Transmit
<1>2. a \in Seq(Byte) /\ b \in Seq(Byte) /\ a \o b = unsent
  BY <1>1, Types, Cut
<1> HIDE DEF a, b
<1>3. Joined(unsent, a, b) /\ Joined(socket', socket, a)
  BY <1>1, <1>2 DEF Joined
<1>4. Joined(socket' \o b, socket', b)
  BY DEF Joined
<1>5. Joined(socket' \o b, socket, unsent)
  BY <1>2, <1>3, <1>4, Types, JoinedRight
<1>6. Rest' = Rest
  BY <1>1, <1>5 DEF Rest, Joined
<1> QED
  BY <1>1, <1>6, StreamKept

LEMMA StreamRecv ==
    ASSUME TypeOK, Stream, NEW k \in 1 .. Base * Base, Recv(k)
    PROVE  Stream'
<1> DEFINE q == Bytes(k)
           left == Left(k) \o unsent
<1>1. /\ q \in Seq(Byte) /\ Len(q) \in Nat /\ Len(q) <= num
      /\ left \in Seq(Byte) /\ Joined(Rest, q, left) /\ socket' = Left(k) /\ unsent' = unsent
      /\ IF Len(q) < num
         THEN segments' = q /\ UNCHANGED <<part, num, received, reader>>
         ELSE Complete(q)
  <2>1. unsent \in Seq(Byte) /\ unsent' = unsent
    BY Types DEF Recv
  <2>2. left \in Seq(Byte)
    BY <2>1, Taken, ConcatProperties
  <2>3. Rest = q \o left
    BY Taken DEF Rest
  <2> QED
    BY <2>1, <2>2, <2>3, Taken DEF Joined
<1>2. sent' = sent /\ sent \in Seq(Message) /\ Len(sent) \in Nat /\ num \in Nat
  BY Types DEF Recv
<1>3. /\ received \in Seq(Seq(Byte)) /\ Len(received) \in Nat
      /\ Next1 \in 1 .. Len(sent) + 1 /\ Next1 = Len(received) + 1
  BY <1>2, Types DEF Stream, Next1
<1>4. PICK at : Frames(Rest, sent, at, Next1, First)
  BY DEF Stream
<1>5. Rest' = segments' \o left
  BY <1>1 DEF Rest
<1> HIDE DEF q, left
<1>6. CASE Len(q) < num
  <2>1. segments' = q /\ UNCHANGED <<part, num, received, reader>>
    BY <1>1, <1>6
  <2>2. Rest' = Rest
    BY <1>1, <1>5, <2>1 DEF Joined
  <2> QED
    BY <1>2, <2>1, <2>2, StreamKept
<1>7. CASE ~(Len(q) < num)
  <2>1. Complete(q) /\ Len(q) = num /\ segments' = <<>>
    BY <1>1, <1>2, <1>7 DEF Complete
  <2>2. Rest' = left
    BY <1>1, <1>5, <2>1, ConcatEmptySeq
  <2>3. CASE part = "header"
    <3>1. /\ part' = "payload" /\ num' = LengthIn(q) /\ received' = received /\ Len(q) = 2
          /\ First = 0 /\ First' = -2 /\ Next1' = Next1
      BY <2>1, <2>3, Types DEF Complete, First, Next1
    <3>2. Frames(Rest, sent, at, Next1, 0)
      BY <1>4, <3>1
    <3>3. Next1 \in 1 .. Len(sent) /\ LengthIn(q) = Len(sent[Next1])
      BY <1>1, <1>2, <1>3, <3>1, <3>2, HeaderRead
    <3>4. \E to : Frames(left, sent, to, Next1, -2)
      <4>1. at[Next1] = 0
        BY <3>2 DEF Frames
      <4>2. at[Next1] - Len(q) = -2
        BY <3>1, <4>1
      <4>3. Next1 \in Next1 .. Len(sent) + 1
        BY <1>2, <1>3
      <4>4. 0 \in {0, -2} /\ -2 \in {0, -2}
        OBVIOUS
      <4> QED
        BY <1>1, <1>2, <1>3, <3>2, <4>2, <4>3, <4>4, FramesShift
    <3>5. \E to : Frames(Rest, sent, to, Next1, First)'
      <4>1. PICK to : Frames(left, sent, to, Next1, -2)
        BY <3>4
      <4>2. Frames(Rest, sent, to, Next1, First)'
        BY <1>2, <2>2, <3>1, <4>1 DEF Frames, FrameAt
      <4> QED
        BY <4>2
    <3>6. /\ Len(received') <= Len(sent')
          /\ \A i \in 1 .. Len(received') : received'[i] = sent'[i]
      BY <1>2, <3>1 DEF Stream
    <3>7. Next1' <= Len(sent') /\ num' = Len(sent'[Next1'])
      BY <1>2, <3>1, <3>3
    <3> QED
      BY <3>5, <3>6, <3>7 DEF Stream
  <2>4. CASE part # "header"
    <3>0. part = "payload"
      BY <2>4 DEF TypeOK
    <3>1. /\ part' = "header" /\ received' = Append(received, q)
          /\ First = -2 /\ First' = 0
      BY <2>1, <2>4 DEF Complete, First
    <3>2. Next1 \in 1 .. Len(sent) /\ Len(q) = Len(sent[Next1])
      BY <1>2, <1>3, <2>1, <3>0 DEF Stream
    <3>3. Frames(Rest, sent, at, Next1, -2)
      BY <1>4, <3>1
    <3>4. q = sent[Next1] /\ at[Next1 + 1] - Len(q) = 0
      BY <1>1, <1>2, <3>2, <3>3, PayloadRead
    <3>5. /\ Len(received') = Next1 /\ Next1' = Next1 + 1
          /\ \A i \in 1 .. Len(received) : received'[i] = received[i]
          /\ received'[Next1] = q
      BY <1>1, <1>3, <3>1, AppendProperties DEF Next1
    <3>6. \E to : Frames(left, sent, to, Next1 + 1, 0)
      <4>1. Next1 + 1 \in Next1 .. Len(sent) + 1
        BY <1>2, <3>2
      <4>2. 0 \in {0, -2} /\ -2 \in {0, -2}
        OBVIOUS
      <4> QED
        BY <1>1, <1>2, <1>3, <3>3, <3>4, <4>1, <4>2, FramesShift
    <3>7. \E to : Frames(Rest, sent, to, Next1, First)'
      <4>1. PICK to : Frames(left, sent, to, Next1 + 1, 0)
        BY <3>6
      <4>2. Frames(Rest, sent, to, Next1, First)'
        BY <1>2, <2>2, <3>1, <3>5, <4>1 DEF Frames, FrameAt
      <4> QED
        BY <4>2
    <3>8. Len(received') <= Len(sent')
      BY <1>2, <3>2, <3>5
    <3>9. \A i \in 1 .. Len(received') : received'[i] = sent'[i]
      <4> SUFFICES ASSUME NEW i \in 1 .. Next1 PROVE received'[i] = sent[i]
        BY <1>2, <3>5
      <4>1. CASE i = Next1
        BY <3>4, <3>5, <4>1
      <4>2. CASE i # Next1
        <5>1. i \in 1 .. Len(received)
          BY <1>3, <4>2
        <5> QED
          BY <3>5, <5>1 DEF Stream
      <4> QED
        BY <4>1, <4>2
    <3> QED
      BY <3>1, <3>7, <3>8, <3>9 DEF Stream
  <2> QED
    BY <2>3, <2>4
<1> QED
  BY <1>6, <1>7

LEMMA StreamStep ==
    ASSUME StreamInv, [Next]_vars
    PROVE  StreamInv'
<1>1. TypeOK /\ TypeOK'
  BY TypeStep DEF StreamInv
<1> SUFFICES ASSUME ~torn' PROVE Stream'
  BY <1>1 DEF StreamInv
<1>2. ASSUME NEW m \in Message, Send(m) PROVE Stream'
  <2>1. ~torn
    BY <1>2 DEF Send
  <2> QED
    BY <1>1, <1>2, <2>1, StreamSend DEF StreamInv
<1>3. ASSUME NEW k \in 1 .. Base * Base, Transmit(k) PROVE Stream'
  <2>1. ~torn
    BY <1>3 DEF Transmit
  <2> QED
    BY <1>1, <1>3, <2>1, StreamTransmit DEF StreamInv
<1>4. ASSUME NEW k \in 1 .. Base * Base, Recv(k) PROVE Stream'
  <2>1. ~torn
    BY <1>4 DEF Recv
  <2> QED
    BY <1>1, <1>4, <2>1, StreamRecv DEF StreamInv
<1>5. CASE SendTimeout \/ RecvTimeout
  BY <1>5 DEF SendTimeout, RecvTimeout
<1>6. CASE Close \/ EndOfStream \/ EmptyMessage \/ UNCHANGED vars
  <2>1. UNCHANGED <<sent, unsent, socket, segments, part, num, received, torn>>
    BY <1>6 DEF Close, EndOfStream, EmptyMessage, vars
  <2>2. Stream /\ Rest' = Rest
    BY <2>1 DEF StreamInv, Rest
  <2> QED
    BY <2>1, <2>2, StreamKept
<1> QED
  BY <1>2, <1>3, <1>4, <1>5, <1>6 DEF Next

\* Until a timeout expires within a frame, receive returns the messages that send was
\* given, whole and in order, for any messages and any chunks in which the bytes come.
THEOREM MessagesInOrder == Spec => []InOrder
<1>1. Init => StreamInv
  BY TypeInit, StreamInit DEF StreamInv
<1>2. StreamInv /\ [Next]_vars => StreamInv'
  BY StreamStep
<1>3. StreamInv => InOrder
  <2> SUFFICES ASSUME StreamInv, ~torn PROVE IsPrefix(received, sent)
    BY DEF InOrder
  <2> DEFINE r == SubSeq(received, 1, Len(received))
             s == SubSeq(sent, 1, Len(received))
  <2>1. /\ Len(received) \in Nat /\ Len(sent) \in Nat /\ Len(received) <= Len(sent)
        /\ sent \in Seq(Message) /\ received \in Seq(Seq(Byte))
        /\ \A i \in 1 .. Len(received) : received[i] = sent[i]
    BY Types DEF StreamInv, Stream
  <2>2. /\ s \in Seq(Message) /\ Len(s) = Len(received)
        /\ \A i \in 1 .. Len(received) : s[i] = sent[i]
    <3>1. \A i \in 1 .. Len(received) : sent[i] \in Message
      <4>1. \A i \in 1 .. Len(received) : i \in 1 .. Len(sent)
        BY <2>1
      <4> QED
        BY <2>1, <4>1, ElementOfSeq
    <3>2. /\ s \in Seq(Message)
          /\ Len(s) = IF 1 <= Len(received) THEN Len(received) - 1 + 1 ELSE 0
          /\ \A i \in 1 .. Len(received) - 1 + 1 : s[i] = sent[1 + i - 1]
      BY <2>1, <3>1, SubSeqProperties
    <3> HIDE DEF s
    <3>3. Len(received) - 1 + 1 = Len(received) /\ \A i \in 1 .. Len(received) : 1 + i - 1 = i
      BY <2>1
    <3> QED
      BY <2>1, <3>2, <3>3
  <2>3. r = received
    BY <2>1, SubSeqFull
  <2> HIDE DEF r, s
  <2>4. received \in Seq(Message)
    <3>1. \A i \in 1 .. Len(received) : received[i] \in Message
      <4>1. \A i \in 1 .. Len(received) : i \in 1 .. Len(s)
        BY <2>2
      <4> QED
        BY <2>1, <2>2, <4>1, ElementOfSeq
    <3> QED
      BY <2>1, <3>1
  <2>5. r = s
    BY <2>1, <2>2, <2>3, <2>4, SeqEqual
  <2> QED
    BY <2>1, <2>5 DEF IsPrefix, r, s
<1> QED
  BY <1>1, <1>2, <1>3, PTL DEF Spec

\* Until then, what is unpacked as a header is the header of the next message.
THEOREM LengthsInStep == Spec => [](~torn => HeaderTrue)
<1>1. Init => StreamInv
  BY TypeInit, StreamInit DEF StreamInv
<1>2. StreamInv /\ [Next]_vars => StreamInv'
  BY StreamStep
<1>3. StreamInv => (~torn => HeaderTrue)
  <2> SUFFICES ASSUME StreamInv, ~torn, part = "payload"
               PROVE  Len(received) < Len(sent) /\ num = Len(sent[Len(received) + 1])
    BY DEF HeaderTrue
  <2>1. Next1 <= Len(sent) /\ num = Len(sent[Next1])
    BY DEF StreamInv, Stream
  <2>2. Len(received) \in Nat /\ Len(sent) \in Nat
    BY Types DEF StreamInv
  <2> QED
    BY <2>1, <2>2 DEF Next1
<1> QED
  BY <1>1, <1>2, <1>3, PTL DEF Spec
==============================================================================
