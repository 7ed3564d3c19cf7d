-------------------------- MODULE PacketFormatProofs --------------------------
(***************************************************************************)
(* Proof that unpack inverts pack, for every flag, nonce, ciphertext and   *)
(* secret; that pack inverts unpack, for whatever bytes unpack does not    *)
(* raise on; and that no packet is longer than a frame may be.             *)
(***************************************************************************)
EXTENDS PacketFormat, CipherTypes, SequenceTheorems, TLAPS

\* A bytes object of n bytes, as a function, is a sequence of length n.
LEMMA BytesOfSize ==
    ASSUME NEW n \in Nat, NEW b, NEW S, b \in [1 .. n -> S]
    PROVE  b \in Seq(S) /\ Len(b) = n
  OBVIOUS

\* What the arguments of pack, and the results of unpack, are.
Typed(f, x) ==
    /\ x.flag \in Byte
    /\ x.replay \in Seq(Byte) /\ Len(x.replay) = ReplaySize(f)
    /\ x.nonce \in Seq(Byte) /\ Len(x.nonce) \in Byte
    /\ f = "seq-num" => x.nonce = <<>>
    /\ x.ciphertext \in Seq(Byte)
    /\ x.tag \in Seq(Byte) /\ Len(x.tag) = TagSize
    /\ x.secret \in Seq(Byte)
    /\ x.secret # <<>> => Len(x.secret) = SecretSize

LEMMA FieldTypes ==
    ASSUME NEW f \in Formatter, NEW x \in Fields(f)
    PROVE  Typed(f, x)
  <1>1. x.replay \in [1 .. ReplaySize(f) -> Byte] /\ x.tag \in [1 .. TagSize -> Byte]
    BY FormatAssumption DEF Fields
  <1>2. x.replay \in Seq(Byte) /\ Len(x.replay) = ReplaySize(f)
    BY <1>1, BytesOfSize DEF ReplaySize
  <1>3. x.tag \in Seq(Byte) /\ Len(x.tag) = TagSize
    BY <1>1, BytesOfSize DEF TagSize
  <1>4. x.secret \in Seq(Byte) /\ (x.secret # <<>> => Len(x.secret) = SecretSize)
    <2>1. CASE x.secret = <<>>
      BY <2>1
    <2>2. CASE x.secret # <<>>
      <3>1. x.secret \in [1 .. SecretSize -> Byte]
        BY <2>2, FormatAssumption DEF Fields
      <3> QED BY <3>1, BytesOfSize DEF SecretSize
    <2> QED BY <2>1, <2>2
  <1>5. x.nonce \in Seq(Byte) /\ Len(x.nonce) \in Byte /\ (f = "seq-num" => x.nonce = <<>>)
    <2>1. f = "timestamp" \/ f = "seq-num"
      BY DEF Formatter
    <2>2. CASE f = "timestamp"
      <3>1. x.nonce \in Nonce
        BY <2>2 DEF Fields
      <3> QED BY <2>2, <3>1, FormatAssumption
    <2>3. CASE f = "seq-num"
      <3>1. x.nonce = <<>>
        BY <2>3 DEF Fields
      <3> QED BY <3>1 DEF Byte
    <2> QED BY <2>1, <2>2, <2>3
  <1>6. x.flag \in Byte /\ x.ciphertext \in Seq(Byte)
    BY FormatAssumption DEF Fields
  <1> QED BY <1>2, <1>3, <1>4, <1>5, <1>6 DEF Typed

----------------------------------------------------------------------------

\* The k bytes of b are in p from the offset at on.
Holds(p, at, b, k) == \A i \in 1 .. k : p[at + i] = b[i]

\* What is inside a part of p is inside p.
LEMMA HoldsInside ==
    ASSUME NEW p, NEW at \in Nat, NEW b, NEW k \in Nat, Holds(p, at, b, k),
           NEW off \in Nat, NEW d, NEW m \in Nat, Holds(b, off, d, m), off + m <= k
    PROVE  Holds(p, at + off, d, m)
  <1>1. ASSUME NEW i \in 1 .. m PROVE p[(at + off) + i] = d[i]
    <2>1. off + i \in 1 .. k /\ at + (off + i) = (at + off) + i
      OBVIOUS
    <2>2. p[at + (off + i)] = b[off + i] /\ b[off + i] = d[i]
      BY <2>1 DEF Holds
    <2> QED BY <2>1, <2>2
  <1> QED BY <1>1 DEF Holds

\* What lies within the first z bytes is in every p that starts with them.
LEMMA HoldsKept ==
    ASSUME NEW p, NEW at \in Nat, NEW b, NEW k \in Nat, Holds(p, at, b, k),
           NEW q, NEW z \in Nat, Holds(q, 0, p, z), at + k <= z
    PROVE  Holds(q, at, b, k)
  <1>1. ASSUME NEW i \in 1 .. k PROVE q[at + i] = b[i]
    <2>1. at + i \in 1 .. z /\ 0 + (at + i) = at + i
      OBVIOUS
    <2>2. q[0 + (at + i)] = p[at + i] /\ p[at + i] = b[i]
      BY <2>1 DEF Holds
    <2> QED BY <2>1, <2>2
  <1> QED BY <1>1 DEF Holds

\* st is s followed by t.
Joined(st, s, t) == st = s \o t

LEMMA ConcatParts ==
    ASSUME NEW S, NEW s \in Seq(S), NEW t \in Seq(S), NEW st, Joined(st, s, t)
    PROVE  /\ st \in Seq(S) /\ Len(st) = Len(s) + Len(t)
           /\ Holds(st, 0, s, Len(s)) /\ Holds(st, Len(s), t, Len(t))
  <1>1. /\ st \in Seq(S) /\ Len(st) = Len(s) + Len(t)
        /\ \A i \in 1 .. Len(s) + Len(t) :
               st[i] = IF i <= Len(s) THEN s[i] ELSE t[i - Len(s)]
    BY ConcatProperties DEF Joined
  <1>2. Len(s) \in Nat /\ Len(t) \in Nat
    OBVIOUS
  <1>3. Holds(st, 0, s, Len(s))
    BY <1>1, <1>2 DEF Holds
  <1>4. ASSUME NEW i \in 1 .. Len(t) PROVE st[Len(s) + i] = t[i]
    <2>1. /\ Len(s) + i \in 1 .. Len(s) + Len(t)
          /\ ~(Len(s) + i <= Len(s)) /\ (Len(s) + i) - Len(s) = i
      BY <1>2
    <2> QED BY <1>1, <2>1
  <1> QED BY <1>1, <1>3, <1>4 DEF Holds

\* The parts of the payload.
LEMMA PayloadParts ==
    ASSUME NEW S, NEW a \in Seq(S), NEW b \in Seq(S), NEW c \in Seq(S), NEW d \in Seq(S),
           NEW ab, Joined(ab, a, b), NEW abc, Joined(abc, ab, c), NEW load, Joined(load, abc, d)
    PROVE  /\ Len(load) = Len(a) + Len(b) + Len(c) + Len(d)
           /\ Holds(load, 0, a, Len(a)) /\ Holds(load, Len(a), b, Len(b))
           /\ Holds(load, Len(a) + Len(b), c, Len(c))
           /\ Holds(load, Len(a) + Len(b) + Len(c), d, Len(d))
  <1>1. /\ ab \in Seq(S) /\ Len(ab) = Len(a) + Len(b)
        /\ Holds(ab, 0, a, Len(a)) /\ Holds(ab, Len(a), b, Len(b))
    BY ConcatParts
  <1>2. /\ abc \in Seq(S) /\ Len(abc) = Len(ab) + Len(c)
        /\ Holds(abc, 0, ab, Len(ab)) /\ Holds(abc, Len(ab), c, Len(c))
    BY <1>1, ConcatParts
  <1>3. /\ load \in Seq(S) /\ Len(load) = Len(abc) + Len(d)
        /\ Holds(load, 0, abc, Len(abc)) /\ Holds(load, Len(abc), d, Len(d))
    BY <1>2, ConcatParts
  <1>4. /\ Len(a) \in Nat /\ Len(b) \in Nat /\ Len(c) \in Nat /\ Len(d) \in Nat
        /\ Len(ab) \in Nat /\ Len(abc) \in Nat
    BY <1>1, <1>2
  <1>5. Holds(abc, 0, a, Len(a)) /\ Holds(abc, Len(a), b, Len(b))
    BY <1>1, <1>2, <1>4, HoldsKept
  <1>6. /\ Holds(load, 0, a, Len(a)) /\ Holds(load, Len(a), b, Len(b))
        /\ Holds(load, Len(ab), c, Len(c))
    BY <1>1, <1>2, <1>3, <1>4, <1>5, HoldsKept
  <1> QED BY <1>1, <1>2, <1>3, <1>4, <1>6

\* What pack_into writes, and what it leaves alone.
LEMMA PackIntoBuffer ==
    ASSUME NEW S, NEW buffer \in Seq(S), NEW size \in Nat, Len(buffer) = size,
           NEW offset \in Nat, NEW bytes \in Seq(S), NEW k \in Nat, Len(bytes) = k,
           offset + k <= size, NEW out, out = PackInto(buffer, offset, bytes)
    PROVE  /\ out \in Seq(S) /\ DOMAIN out = 1 .. size /\ Len(out) = size
           /\ Holds(out, offset, bytes, k) /\ Holds(out, 0, buffer, offset)
  <1>1. PICK before, after :
            /\ before = SubSeq(buffer, 1, offset)
            /\ after = SubSeq(buffer, offset + k + 1, size)
    OBVIOUS
  <1>2. /\ before \in Seq(S) /\ Len(before) = offset
        /\ \A i \in 1 .. offset : before[i] = buffer[i]
    <2>1. \A i \in 1 .. offset : buffer[i] \in S
      BY ElementOfSeq
    <2>2. /\ before \in Seq(S) /\ Len(before) = IF 1 <= offset THEN offset - 1 + 1 ELSE 0
          /\ \A i \in 1 .. offset - 1 + 1 : before[i] = buffer[1 + i - 1]
      BY <1>1, <2>1, SubSeqProperties
    <2> QED BY <2>2
  <1>3. after \in Seq(S) /\ Len(after) = size - (offset + k)
    <2>1. offset + k + 1 \in Int /\ \A i \in offset + k + 1 .. size : buffer[i] \in S
      BY ElementOfSeq
    <2>2. /\ after \in Seq(S)
          /\ Len(after) = IF offset + k + 1 <= size THEN size - (offset + k + 1) + 1 ELSE 0
      BY <1>1, <2>1, SubSeqProperties
    <2> QED BY <2>2
  <1>4. PICK written : Joined(written, before, bytes)
    BY DEF Joined
  <1>5. Joined(out, written, after)
    BY <1>1, <1>4 DEF PackInto, Joined
  <1>6. /\ written \in Seq(S) /\ Len(written) = offset + k
        /\ Holds(written, 0, before, offset) /\ Holds(written, offset, bytes, k)
    BY <1>2, <1>4, ConcatParts
  <1>7. /\ out \in Seq(S) /\ Len(out) = (offset + k) + (size - (offset + k))
        /\ Holds(out, 0, written, offset + k)
    BY <1>3, <1>5, <1>6, ConcatParts
  <1>8. Len(out) = size /\ DOMAIN out = 1 .. size
    BY <1>7
  <1>9. Holds(out, 0, before, offset) /\ Holds(out, offset, bytes, k)
    BY <1>6, <1>7, HoldsKept
  <1>10. Holds(out, 0, buffer, offset)
    BY <1>2, <1>9 DEF Holds
  <1> QED BY <1>7, <1>8, <1>9, <1>10

----------------------------------------------------------------------------

\* The bytes of a packet: h of header, r + n + c + 16 of payload, a footer at z.
Laid(p, h, r, n, c, z, x) ==
    /\ Holds(p, h, x.replay, r) /\ Holds(p, h + r, x.nonce, n)
    /\ Holds(p, h + r + n, x.ciphertext, c) /\ Holds(p, h + r + n + c, x.tag, 16)
    /\ x.secret # <<>> => Holds(p, z, x.secret, 32)

Layout(f, x, p, h, r, n, c, z, size) ==
    /\ h = HeaderLength(f) /\ (f = "timestamp" => h = 3)
    /\ r = ReplaySize(f) /\ n = Len(x.nonce) /\ c = Len(x.ciphertext)
    /\ z = h + (r + n + c + 16)
    /\ x.secret = <<>> => size = z
    /\ x.secret # <<>> => size = z + 32
    /\ p \in Seq(Byte) /\ DOMAIN p = 1 .. size /\ Len(p) = size
    /\ p[1] = (IF x.secret # <<>> THEN 1 ELSE 0) /\ p[2] = x.flag
    /\ f = "timestamp" => p[3] = n
    /\ Laid(p, h, r, n, c, z, x)

HasLayout(f, x, p) ==
    \E h \in {2, 3}, r \in Nat, n \in Nat, c \in Nat, z \in Nat, size \in Nat :
        Layout(f, x, p, h, r, n, c, z, size)

LEMMA PackLayout ==
    ASSUME NEW f \in Formatter, NEW x, Typed(f, x), NEW p, p = Pack(f, x)
    PROVE  HasLayout(f, x, p)
  <1>1. PICK replay, nonce, text, tag, secret, flag :
            /\ replay = x.replay /\ nonce = x.nonce /\ text = x.ciphertext
            /\ tag = x.tag /\ secret = x.secret /\ flag = x.flag
    OBVIOUS
  <1>2. /\ replay \in Seq(Byte) /\ nonce \in Seq(Byte) /\ text \in Seq(Byte)
        /\ tag \in Seq(Byte) /\ secret \in Seq(Byte)
        /\ Len(replay) = ReplaySize(f) /\ Len(tag) = 16
        /\ secret # <<>> => Len(secret) = 32
    BY <1>1 DEF Typed, TagSize, SecretSize
  <1>3. PICK h \in {2, 3} : h = HeaderLength(f) /\ (f = "timestamp" => h = 3)
    BY DEF HeaderLength
  <1>4. PICK r \in Nat : r = ReplaySize(f) /\ r = Len(replay)
    BY <1>2 DEF ReplaySize
  <1>5. PICK n \in Nat : n = Len(nonce)
    BY <1>2
  <1>6. PICK c \in Nat : c = Len(text)
    BY <1>2
  <1>7. PICK k \in Nat : k = r + n + c + 16
    OBVIOUS
  <1>8. PICK z \in Nat : z = h + k
    OBVIOUS
  <1>9. PICK size \in Nat :
            (secret = <<>> => size = z) /\ (secret # <<>> => size = z + 32)
    <2>1. CASE secret = <<>>
      BY <2>1
    <2>2. CASE secret # <<>>
      <3>1. z + 32 \in Nat
        OBVIOUS
      <3> QED BY <2>2, <3>1
    <2> QED BY <2>1, <2>2
  <1>10. PICK head, load, empty :
            /\ head = Header(f, secret # <<>>, x)
            /\ load = replay \o nonce \o text \o tag
            /\ empty = [i \in 1 .. size |-> 0]
    OBVIOUS
  <1>11. PICK headed : headed = PackInto(empty, 0, head)
    OBVIOUS
  <1>12. PICK filled : filled = PackInto(headed, h, load)
    OBVIOUS
  <1>13. size = FixedSize(f, secret # <<>>) + n + c /\ (secret # <<>> => size - SecretSize = z)
    <2>1. FixedSize(f, secret # <<>>) = h + r + 16 + IF secret # <<>> THEN 32 ELSE 0
      BY <1>3, <1>4 DEF FixedSize, TagSize, SecretSize
    <2>2. CASE secret = <<>>
      <3>1. FixedSize(f, secret # <<>>) = h + r + 16 /\ size = z
        BY <1>9, <2>1, <2>2
      <3> QED BY <1>7, <1>8, <2>2, <3>1
    <2>3. CASE secret # <<>>
      <3>1. FixedSize(f, secret # <<>>) = h + r + 16 + 32 /\ size = z + 32
        BY <1>9, <2>1, <2>3
      <3>2. size = FixedSize(f, secret # <<>>) + n + c
        BY <1>7, <1>8, <3>1
      <3> QED BY <3>1, <3>2 DEF SecretSize
    <2> QED BY <2>2, <2>3
  <1>14. (secret = <<>> => p = filled) /\ (secret # <<>> => p = PackInto(filled, z, secret))
    BY <1>1, <1>3, <1>5, <1>6, <1>10, <1>11, <1>12, <1>13 DEF Pack
  <1>15. /\ head \in Seq(Byte) /\ Len(head) = h /\ head[1] = (IF secret # <<>> THEN 1 ELSE 0) /\ head[2] = flag
         /\ f = "timestamp" => head[3] = n
    <2>1. PICK one \in Byte : one = IF secret # <<>> THEN 1 ELSE 0
      BY DEF Byte
    <2>0. flag \in Byte /\ n \in Byte
      BY <1>1, <1>5 DEF Typed
    <2>2. CASE f = "timestamp"
      <3>1. head = <<one, flag, n>>
        BY <1>1, <1>5, <1>10, <2>1, <2>2 DEF Header
      <3> QED BY <1>3, <2>0, <2>1, <2>2, <3>1
    <2>3. CASE f # "timestamp"
      <3>1. head = <<one, flag>>
        BY <1>1, <1>10, <2>1, <2>3 DEF Header
      <3>2. h = 2
        BY <1>3, <2>3 DEF HeaderLength
      <3> QED BY <2>0, <2>1, <2>3, <3>1, <3>2
    <2> QED BY <2>2, <2>3
  <1>16. /\ load \in Seq(Byte) /\ Len(load) = k
         /\ Holds(load, 0, replay, r) /\ Holds(load, r, nonce, n)
         /\ Holds(load, r + n, text, c) /\ Holds(load, r + n + c, tag, 16)
    <2>0. PICK ab, abc : Joined(ab, replay, nonce) /\ Joined(abc, ab, text)
      BY DEF Joined
    <2>1. Joined(load, abc, tag)
      BY <1>10, <2>0 DEF Joined
    <2>2. /\ Len(load) = Len(replay) + Len(nonce) + Len(text) + Len(tag)
          /\ Holds(load, 0, replay, Len(replay)) /\ Holds(load, Len(replay), nonce, Len(nonce))
          /\ Holds(load, Len(replay) + Len(nonce), text, Len(text))
          /\ Holds(load, Len(replay) + Len(nonce) + Len(text), tag, Len(tag))
      BY <1>2, <2>0, <2>1, PayloadParts
    <2>3. load \in Seq(Byte)
      BY <1>2, <1>10, ConcatProperties
    <2> QED BY <1>2, <1>4, <1>5, <1>6, <1>7, <2>2, <2>3
  <1>17. h \in Nat /\ h + k <= size /\ z <= size
    <2>1. z <= size
      BY <1>9
    <2> QED BY <1>8, <2>1
  <1>18. /\ headed \in Seq(Byte) /\ DOMAIN headed = 1 .. size /\ Len(headed) = size
         /\ Holds(headed, 0, head, h)
    <2>1. empty \in Seq(Byte) /\ Len(empty) = size /\ 0 + h <= size
      <3>1. empty \in [1 .. size -> Byte]
        BY <1>10 DEF Byte
      <3> QED BY <1>17, <3>1, BytesOfSize
    <2> QED BY <1>11, <1>15, <1>17, <2>1, PackIntoBuffer
  <1>19. /\ filled \in Seq(Byte) /\ DOMAIN filled = 1 .. size /\ Len(filled) = size
         /\ Holds(filled, h, load, k) /\ Holds(filled, 0, headed, h)
    BY <1>12, <1>16, <1>17, <1>18, PackIntoBuffer
  <1>20. /\ p \in Seq(Byte) /\ DOMAIN p = 1 .. size /\ Len(p) = size
         /\ Holds(p, 0, filled, z) /\ (secret # <<>> => Holds(p, z, secret, 32))
    <2>1. CASE secret = <<>>
      <3>1. p = filled
        BY <1>14, <2>1
      <3>2. Holds(filled, 0, filled, z)
        BY DEF Holds
      <3> QED BY <1>19, <2>1, <3>1, <3>2
    <2>2. CASE secret # <<>>
      <3>1. PICK m \in Nat : m = 32
        OBVIOUS
      <3>2. p = PackInto(filled, z, secret) /\ Len(secret) = m /\ z + m <= size
        BY <1>2, <1>9, <1>14, <2>2, <3>1
      <3>3. /\ p \in Seq(Byte) /\ DOMAIN p = 1 .. size /\ Len(p) = size
            /\ Holds(p, z, secret, m) /\ Holds(p, 0, filled, z)
        BY <1>2, <1>19, <3>2, PackIntoBuffer
      <3> QED BY <3>1, <3>3
    <2> QED BY <2>1, <2>2
  <1>21. Holds(p, 0, head, h)
    <2>1. Holds(filled, 0, head, h)
      BY <1>17, <1>18, <1>19, HoldsKept
    <2>2. 0 + h <= z
      BY <1>8, <1>17
    <2> QED BY <1>17, <1>20, <2>1, <2>2, HoldsKept
  <1>22. Holds(p, h, load, k)
    BY <1>8, <1>17, <1>19, <1>20, HoldsKept
  <1>23. /\ p[1] = (IF secret # <<>> THEN 1 ELSE 0) /\ p[2] = flag
         /\ f = "timestamp" => p[3] = n
    <2>1. \A i \in 1 .. h : p[i] = head[i]
      BY <1>21 DEF Holds
    <2>2. 1 \in 1 .. h /\ 2 \in 1 .. h /\ (f = "timestamp" => 3 \in 1 .. h)
      BY <1>3
    <2> QED BY <1>15, <2>1, <2>2, Zenon
  <1>24. /\ Holds(p, h, replay, r) /\ Holds(p, h + r, nonce, n)
         /\ Holds(p, h + r + n, text, c) /\ Holds(p, h + r + n + c, tag, 16)
    <2>1. /\ 0 + r <= k /\ r + n <= k /\ (r + n) + c <= k /\ (r + n + c) + 16 <= k
          /\ r + n \in Nat /\ r + n + c \in Nat
          /\ h + 0 = h /\ h + (r + n) = h + r + n /\ h + (r + n + c) = h + r + n + c
      BY <1>7, <1>17
    <2>2. Holds(p, h + 0, replay, r) /\ Holds(p, h + r, nonce, n)
      BY <1>16, <1>17, <1>22, <2>1, HoldsInside
    <2>3. Holds(p, h + (r + n), text, c) /\ Holds(p, h + (r + n + c), tag, 16)
      BY <1>16, <1>17, <1>22, <2>1, HoldsInside
    <2> QED BY <2>1, <2>2, <2>3
  <1>25. Laid(p, h, r, n, c, z, x)
    BY <1>1, <1>20, <1>24 DEF Laid
  <1>26. /\ h = HeaderLength(f) /\ (f = "timestamp" => h = 3)
         /\ r = ReplaySize(f) /\ n = Len(x.nonce) /\ c = Len(x.ciphertext)
         /\ z = h + (r + n + c + 16)
         /\ x.secret = <<>> => size = z
         /\ x.secret # <<>> => size = z + 32
         /\ p \in Seq(Byte) /\ DOMAIN p = 1 .. size /\ Len(p) = size
         /\ p[1] = (IF x.secret # <<>> THEN 1 ELSE 0) /\ p[2] = x.flag
         /\ f = "timestamp" => p[3] = n
    BY <1>1, <1>3, <1>4, <1>5, <1>6, <1>7, <1>8, <1>9, <1>20, <1>23
  <1>27. Layout(f, x, p, h, r, n, c, z, size)
    BY <1>25, <1>26 DEF Layout
  <1> QED BY <1>27, Zenon DEF HasLayout

\* unpack_from at the offset of a part returns the part.
LEMMA UnpackFromPart ==
    ASSUME NEW p, NEW at \in Nat, NEW b \in Seq(Byte), NEW k \in Nat, Len(b) = k,
           Holds(p, at, b, k)
    PROVE  UnpackFrom(p, at, k) = b
  <1>1. b = [i \in 1 .. k |-> b[i]]
    OBVIOUS
  <1> QED BY <1>1 DEF Holds, UnpackFrom

\* Whatever pack is given, unpack of its result does not raise and returns it.
LEMMA RoundTrip ==
    ASSUME NEW f \in Formatter, NEW x \in Fields(f)
    PROVE  ~UnpackRaises(f, Pack(f, x)) /\ Unpack(f, Pack(f, x)) = x
  <1>1. PICK p : p = Pack(f, x)
    OBVIOUS
  <1>0. PICK h \in {2, 3}, r \in Nat, n \in Nat, c \in Nat, z \in Nat, size \in Nat :
            Layout(f, x, p, h, r, n, c, z, size)
    BY <1>1, FieldTypes, PackLayout DEF HasLayout
  <1>2. /\ h = HeaderLength(f) /\ (f = "timestamp" => h = 3)
        /\ r = ReplaySize(f) /\ n = Len(x.nonce) /\ c = Len(x.ciphertext)
        /\ z = h + (r + n + c + 16)
        /\ x.secret = <<>> => size = z
        /\ x.secret # <<>> => size = z + 32
        /\ DOMAIN p = 1 .. size /\ Len(p) = size
        /\ p[1] = (IF x.secret # <<>> THEN 1 ELSE 0) /\ p[2] = x.flag
        /\ f = "timestamp" => p[3] = n
        /\ Laid(p, h, r, n, c, z, x)
    BY <1>0 DEF Layout
  <1>3. /\ x.replay \in Seq(Byte) /\ x.nonce \in Seq(Byte) /\ x.ciphertext \in Seq(Byte)
        /\ x.tag \in Seq(Byte) /\ x.secret \in Seq(Byte)
        /\ Len(x.replay) = r /\ Len(x.tag) = 16
        /\ x.secret # <<>> => Len(x.secret) = 32
        /\ f # "timestamp" => x.nonce = <<>>
    BY <1>2, FieldTypes DEF Typed, TagSize, SecretSize, Formatter
  <1>4. HasFooter(p) <=> x.secret # <<>>
    <2>1. p[1] = IF x.secret # <<>> THEN 1 ELSE 0
      BY <1>2
    <2>2. HasFooter(p) <=> p[1] # 0
      BY DEF HasFooter
    <2>3. CASE x.secret = <<>>
      BY <2>1, <2>2, <2>3
    <2>4. CASE x.secret # <<>>
      <3>1. p[1] = 1
        BY <2>1, <2>4
      <3> QED BY <2>2, <2>4, <3>1
    <2> QED BY <2>3, <2>4
  <1>5. NonceLength(f, p) = n
    <2>1. CASE f = "timestamp"
      BY <1>2, <2>1 DEF NonceLength
    <2>2. CASE f # "timestamp"
      BY <1>2, <1>3, <2>2 DEF NonceLength
    <2> QED BY <2>1, <2>2
  <1>6. CiphertextLength(f, p) = c
    <2>1. CASE x.secret = <<>>
      <3>1. FixedSize(f, HasFooter(p)) = h + r + 16 /\ Len(p) = h + (r + n + c + 16)
        BY <1>2, <1>4, <2>1 DEF FixedSize, TagSize
      <3>2. (h + (r + n + c + 16)) - n - (h + r + 16) = c
        OBVIOUS
      <3> QED BY <1>5, <3>1, <3>2 DEF CiphertextLength
    <2>2. CASE x.secret # <<>>
      <3>1. FixedSize(f, HasFooter(p)) = h + r + 16 + 32 /\ Len(p) = h + (r + n + c + 16) + 32
        BY <1>2, <1>4, <2>2 DEF FixedSize, TagSize, SecretSize
      <3>2. (h + (r + n + c + 16) + 32) - n - (h + r + 16 + 32) = c
        OBVIOUS
      <3> QED BY <1>5, <3>1, <3>2 DEF CiphertextLength
    <2> QED BY <2>1, <2>2
  <1>7. ~UnpackRaises(f, p)
    <2>1. size >= h /\ ~(c < 0)
      <3>1. z = h + (r + n + c + 16) /\ (size = z \/ size = z + 32)
        BY <1>2
      <3>2. h \in Nat
        OBVIOUS
      <3> QED BY <3>1, <3>2
    <2>2. Len(p) = size /\ h = HeaderLength(f)
      BY <1>2
    <2>3. ~(size < h)
      BY <2>1
    <2> QED BY <1>6, <2>1, <2>2, <2>3 DEF UnpackRaises
  <1>8. /\ UnpackFrom(p, h, r) = x.replay /\ UnpackFrom(p, h + r, n) = x.nonce
        /\ UnpackFrom(p, h + r + n, c) = x.ciphertext
        /\ UnpackFrom(p, h + r + n + c, 16) = x.tag
    <2>1. /\ Holds(p, h, x.replay, r) /\ Holds(p, h + r, x.nonce, n)
          /\ Holds(p, h + r + n, x.ciphertext, c) /\ Holds(p, h + r + n + c, x.tag, 16)
          /\ Len(x.nonce) = n /\ Len(x.ciphertext) = c
      BY <1>2 DEF Laid
    <2>2. /\ h \in Nat /\ h + r \in Nat /\ h + r + n \in Nat /\ h + r + n + c \in Nat
          /\ 16 \in Nat
      OBVIOUS
    <2>3. UnpackFrom(p, h, r) = x.replay
      BY <1>3, <2>1, <2>2, UnpackFromPart
    <2>4. UnpackFrom(p, h + r, n) = x.nonce
      BY <1>3, <2>1, <2>2, UnpackFromPart
    <2>5. UnpackFrom(p, h + r + n, c) = x.ciphertext
      BY <1>3, <2>1, <2>2, UnpackFromPart
    <2>6. UnpackFrom(p, h + r + n + c, 16) = x.tag
      <3>1. PICK at \in Nat : at = h + r + n + c
        BY <2>2
      <3>2. x.tag \in Seq(Byte) /\ Len(x.tag) = 16 /\ Holds(p, at, x.tag, 16)
        BY <1>3, <2>1, <3>1
      <3>3. UnpackFrom(p, at, 16) = x.tag
        BY <2>2, <3>2, UnpackFromPart, Zenon
      <3> QED BY <3>1, <3>3
    <2> QED BY <2>3, <2>4, <2>5, <2>6
  <1>9. (IF HasFooter(p) THEN UnpackFrom(p, Len(p) - SecretSize, SecretSize) ELSE <<>>)
            = x.secret
    <2>1. CASE x.secret = <<>>
      BY <1>4, <2>1
    <2>2. CASE x.secret # <<>>
      <3>1. Holds(p, z, x.secret, 32) /\ Len(p) = z + 32
        BY <1>2, <2>2 DEF Laid
      <3>2. Len(p) - SecretSize = z
        BY <3>1 DEF SecretSize
      <3>3. UnpackFrom(p, z, 32) = x.secret
        <4>1. 32 \in Nat
          OBVIOUS
        <4> QED BY <1>3, <2>2, <3>1, <4>1, UnpackFromPart, Zenon
      <3> QED BY <1>4, <2>2, <3>2, <3>3 DEF SecretSize
    <2> QED BY <2>1, <2>2
  <1>10. Unpack(f, p) = [flag |-> x.flag, replay |-> x.replay, nonce |-> x.nonce,
                         ciphertext |-> x.ciphertext, tag |-> x.tag, secret |-> x.secret]
    <2>1. h = HeaderLength(f) /\ r = ReplaySize(f) /\ p[2] = x.flag
      BY <1>2
    <2> QED BY <1>5, <1>6, <1>8, <1>9, <2>1 DEF Unpack, TagSize
  <1>11. x = [flag |-> x.flag, replay |-> x.replay, nonce |-> x.nonce,
              ciphertext |-> x.ciphertext, tag |-> x.tag, secret |-> x.secret]
    BY DEF Fields
  <1> QED BY <1>1, <1>7, <1>10, <1>11

----------------------------------------------------------------------------

\* Bytes that agree but for the first one.
AgreeAfterFirst(p, q, size) == \A i \in 2 .. size : q[i] = p[i] /\ p[i] \in Byte

\* What unpack_from returns is where it was found, and still is with another first
\* byte.
LEMMA UnpackFromHolds ==
    ASSUME NEW p, NEW q, NEW at \in Nat \ {0}, NEW k \in Nat, NEW size \in Nat,
           AgreeAfterFirst(p, q, size),
           at + k <= size, NEW b, b = UnpackFrom(p, at, k)
    PROVE  b \in Seq(Byte) /\ Len(b) = k /\ Holds(q, at, b, k)
  <1>1. \A i \in 1 .. k : at + i \in 2 .. size
    OBVIOUS
  <1>2. b \in [1 .. k -> Byte] /\ \A i \in 1 .. k : b[i] = p[at + i]
    BY <1>1 DEF UnpackFrom, AgreeAfterFirst
  <1>3. Holds(q, at, b, k)
    BY <1>1, <1>2 DEF Holds, AgreeAfterFirst
  <1> QED BY <1>2, <1>3, BytesOfSize

\* The sizes unpack works with.
Cut(f, p, h, r, n, c, z, size) ==
    /\ h = HeaderLength(f) /\ (f = "timestamp" <=> h = 3)
    /\ r = ReplaySize(f) /\ n = NonceLength(f, p) /\ c = CiphertextLength(f, p)
    /\ f = "seq-num" => n = 0
    /\ z = h + (r + n + c + 16)
    /\ ~HasFooter(p) => size = z
    /\ HasFooter(p) => size = z + 32
    /\ size = Len(p) /\ DOMAIN p = 1 .. size

\* They add up to the size of what it is given.
LEMMA UnpackSizes ==
    ASSUME NEW f \in Formatter, NEW p \in Seq(Byte), ~UnpackRaises(f, p)
    PROVE  \E h \in {2, 3}, r \in Nat, n \in Byte, c \in Nat, z \in Nat, size \in Nat :
              Cut(f, p, h, r, n, c, z, size)
  <1>1. PICK size \in Nat : size = Len(p) /\ DOMAIN p = 1 .. size
    OBVIOUS
  <1>2. PICK h \in {2, 3} : h = HeaderLength(f) /\ (f = "timestamp" <=> h = 3)
    BY DEF HeaderLength
  <1>3. PICK r \in Nat : r = ReplaySize(f)
    BY DEF ReplaySize
  <1>4. ~(size < h)
    BY <1>1, <1>2 DEF UnpackRaises
  <1>5. PICK n \in Byte : n = NonceLength(f, p) /\ (f = "seq-num" => n = 0)
    <2>1. CASE f = "timestamp"
      <3>1. 3 \in 1 .. size
        BY <1>1, <1>2, <1>4, <2>1
      <3>2. p[3] \in Byte
        BY <1>1, <3>1, ElementOfSeq
      <3> QED BY <2>1, <3>2 DEF NonceLength
    <2>2. CASE f # "timestamp"
      BY <2>2 DEF NonceLength, Byte
    <2> QED BY <2>1, <2>2
  <1>6. n \in Nat
    BY DEF Byte
  <1>7. PICK foot \in {0, 32} : (HasFooter(p) => foot = 32) /\ (~HasFooter(p) => foot = 0)
    OBVIOUS
  <1>8. FixedSize(f, HasFooter(p)) = h + r + 16 + foot
    BY <1>2, <1>3, <1>7 DEF FixedSize, TagSize, SecretSize
  <1>9. CiphertextLength(f, p) = size - n - (h + r + 16 + foot)
    BY <1>1, <1>5, <1>8 DEF CiphertextLength
  <1>10. ~(size - n - (h + r + 16 + foot) < 0)
    BY <1>9 DEF UnpackRaises
  <1>11. PICK c \in Nat : c = size - n - (h + r + 16 + foot)
    BY <1>6, <1>10
  <1>12. PICK z \in Nat : z = h + (r + n + c + 16)
    BY <1>6
  <1>13. size = z + foot
    BY <1>6, <1>11, <1>12
  <1>14. (~HasFooter(p) => size = z) /\ (HasFooter(p) => size = z + 32)
    BY <1>7, <1>13
  <1>15. c = CiphertextLength(f, p)
    BY <1>9, <1>11
  <1>16. Cut(f, p, h, r, n, c, z, size)
    BY <1>1, <1>2, <1>3, <1>5, <1>12, <1>14, <1>15 DEF Cut
  <1> QED BY <1>16, Zenon

\* What unpack returns has the types of what pack is given, and lies in the bytes
\* where pack would put it.
LEMMA UnpackLayout ==
    ASSUME NEW f \in Formatter, NEW p \in Seq(Byte), ~UnpackRaises(f, p),
           NEW x, x = Unpack(f, p), NEW q, q = Normalised(p)
    PROVE  Typed(f, x) /\ HasLayout(f, x, q)
  <1>1. PICK h \in {2, 3}, r \in Nat, n \in Byte, c \in Nat, z \in Nat, size \in Nat :
              Cut(f, p, h, r, n, c, z, size)
    BY UnpackSizes
  <1>30. /\ h = HeaderLength(f) /\ (f = "timestamp" <=> h = 3)
         /\ r = ReplaySize(f) /\ n = NonceLength(f, p) /\ c = CiphertextLength(f, p)
         /\ f = "seq-num" => n = 0
         /\ z = h + (r + n + c + 16)
         /\ ~HasFooter(p) => size = z
         /\ HasFooter(p) => size = z + 32
         /\ size = Len(p) /\ DOMAIN p = 1 .. size
    BY <1>1 DEF Cut
  <1>2. n \in Nat
    BY DEF Byte
  <1>3. z \in Nat /\ z <= size /\ h + 16 <= z /\ size \in Nat
    <2>1. z = h + (r + n + c + 16) /\ (size = z \/ size = z + 32)
      BY <1>30
    <2> QED BY <1>2, <2>1
  <1>4. PICK one \in Byte : one = IF HasFooter(p) THEN 1 ELSE 0
    BY DEF Byte
  <1>5. /\ q \in Seq(Byte) /\ DOMAIN q = 1 .. size /\ Len(q) = size
        /\ q[1] = one /\ \A i \in 2 .. size : q[i] = p[i]
    <2>1. q = [p EXCEPT ![1] = one]
      BY <1>4 DEF Normalised
    <2>2. 1 \in 1 .. size
      BY <1>3
    <2>3. \A i \in 1 .. size : p[i] \in Byte
      BY <1>30, ElementOfSeq
    <2>4. p \in [1 .. size -> Byte]
      BY <1>30, <2>3
    <2>5. q \in [1 .. size -> Byte] /\ q[1] = one /\ \A i \in 2 .. size : q[i] = p[i]
      BY <2>1, <2>2, <2>4
    <2> QED BY <2>5, BytesOfSize
  <1>6. \A i \in 2 .. size : p[i] \in Byte
    <2>1. \A i \in 1 .. size : p[i] \in Byte
      BY <1>30, ElementOfSeq
    <2> QED BY <2>1
  <1>31. AgreeAfterFirst(p, q, size)
    BY <1>5, <1>6 DEF AgreeAfterFirst
  <1>7. PICK replay, nonce, text, tag, secret, flag :
            /\ replay = x.replay /\ nonce = x.nonce /\ text = x.ciphertext
            /\ tag = x.tag /\ secret = x.secret /\ flag = x.flag
    OBVIOUS
  <1>8. /\ flag = p[2] /\ replay = UnpackFrom(p, h, r) /\ nonce = UnpackFrom(p, h + r, n)
        /\ text = UnpackFrom(p, h + r + n, c) /\ tag = UnpackFrom(p, h + r + n + c, 16)
        /\ secret = IF HasFooter(p) THEN UnpackFrom(p, size - 32, 32) ELSE <<>>
    <2>1. /\ x.flag = p[2]
          /\ x.replay = UnpackFrom(p, HeaderLength(f), ReplaySize(f))
          /\ x.nonce = UnpackFrom(p, HeaderLength(f) + ReplaySize(f), NonceLength(f, p))
          /\ x.ciphertext = UnpackFrom(p, HeaderLength(f) + ReplaySize(f) + NonceLength(f, p),
                                       CiphertextLength(f, p))
          /\ x.tag = UnpackFrom(p, HeaderLength(f) + ReplaySize(f) + NonceLength(f, p)
                                      + CiphertextLength(f, p), TagSize)
          /\ x.secret = IF HasFooter(p) THEN UnpackFrom(p, Len(p) - SecretSize, SecretSize)
                                        ELSE <<>>
      BY DEF Unpack
    <2> QED BY <1>30, <1>7, <2>1 DEF TagSize, SecretSize
  <1>0. z = h + (r + n + c + 16)
    BY <1>30
  <1>9. replay \in Seq(Byte) /\ Len(replay) = r /\ Holds(q, h, replay, r)
    <2>1. h \in Nat \ {0} /\ h + r <= size
      BY <1>0, <1>2, <1>3
    <2>2. replay = UnpackFrom(p, h, r)
      BY <1>8
    <2> QED BY <1>31, <2>1, <2>2, UnpackFromHolds
  <1>10. nonce \in Seq(Byte) /\ Len(nonce) = n /\ Holds(q, h + r, nonce, n)
    <2>1. PICK at \in Nat \ {0} : at = h + r /\ at + n <= size
      BY <1>0, <1>2, <1>3
    <2>2. nonce = UnpackFrom(p, at, n)
      BY <1>8, <2>1
    <2>3. nonce \in Seq(Byte) /\ Len(nonce) = n /\ Holds(q, at, nonce, n)
      BY <1>2, <1>31, <2>1, <2>2, UnpackFromHolds
    <2> QED BY <2>1, <2>3
  <1>11. text \in Seq(Byte) /\ Len(text) = c /\ Holds(q, h + r + n, text, c)
    <2>1. PICK at \in Nat \ {0} : at = h + r + n /\ at + c <= size
      BY <1>0, <1>2, <1>3
    <2>2. text = UnpackFrom(p, at, c)
      BY <1>8, <2>1
    <2>3. text \in Seq(Byte) /\ Len(text) = c /\ Holds(q, at, text, c)
      BY <1>31, <2>1, <2>2, UnpackFromHolds
    <2> QED BY <2>1, <2>3
  <1>12. tag \in Seq(Byte) /\ Len(tag) = 16 /\ Holds(q, h + r + n + c, tag, 16)
    <2>1. PICK m \in Nat : m = 16
      OBVIOUS
    <2>2. PICK at \in Nat \ {0} : at = h + r + n + c /\ at + m <= size
      BY <1>0, <1>2, <1>3, <2>1
    <2>3. tag = UnpackFrom(p, at, m)
      BY <1>8, <2>1, <2>2
    <2>4. tag \in Seq(Byte) /\ Len(tag) = m /\ Holds(q, at, tag, m)
      BY <1>31, <2>2, <2>3, UnpackFromHolds
    <2> QED BY <2>1, <2>2, <2>4
  <1>13. /\ secret \in Seq(Byte) /\ (secret # <<>> <=> HasFooter(p))
         /\ secret # <<>> => Len(secret) = 32 /\ Holds(q, z, secret, 32)
    <2>1. CASE ~HasFooter(p)
      <3>1. secret = <<>>
        BY <1>8, <2>1
      <3> QED BY <2>1, <3>1
    <2>2. CASE HasFooter(p)
      <3>1. PICK m \in Nat : m = 32
        OBVIOUS
      <3>2. z \in Nat \ {0} /\ z + m <= size /\ size - 32 = z
        BY <1>30, <1>3, <2>2, <3>1
      <3>3. secret = UnpackFrom(p, z, m)
        BY <1>8, <2>2, <3>1, <3>2
      <3>4. secret \in Seq(Byte) /\ Len(secret) = m /\ Holds(q, z, secret, m)
        BY <1>31, <3>2, <3>3, UnpackFromHolds
      <3>5. secret # <<>> /\ Len(secret) = 32
        <4>1. Len(secret) = 32
          BY <3>1, <3>4
        <4>2. Len(<<>>) = 0 /\ 0 # 32
          OBVIOUS
        <4>3. secret # <<>>
          BY <4>1, <4>2, Zenon
        <4> QED BY <4>1, <4>3
      <3>6. secret \in Seq(Byte) /\ Holds(q, z, secret, 32)
        BY <3>1, <3>4
      <3> QED BY <2>2, <3>5, <3>6
    <2> QED BY <2>1, <2>2
  <1>14. 2 \in 1 .. size /\ 2 \in 2 .. size /\ (f = "timestamp" => 3 \in 2 .. size)
    BY <1>3
  <1>15. flag \in Byte /\ q[2] = flag
    BY <1>5, <1>6, <1>8, <1>14
  <1>16. f = "timestamp" => q[3] = n
    <2>1. ASSUME f = "timestamp" PROVE q[3] = n
      <3>1. q[3] = p[3] /\ n = p[3]
        BY <1>30, <1>5, <1>14, <2>1 DEF NonceLength
      <3> QED BY <3>1
    <2> QED BY <2>1
  <1>17. Typed(f, x)
    <2>1. f = "seq-num" => nonce = <<>>
      <3>1. ASSUME f = "seq-num" PROVE nonce = <<>>
        <4>1. Len(nonce) = 0
          BY <1>30, <1>10, <3>1
        <4> QED BY <1>10, <4>1, EmptySeq
      <3> QED BY <3>1
    <2> QED BY <1>30, <1>7, <1>9, <1>10, <1>11, <1>12, <1>13, <1>15, <2>1
        DEF Typed, TagSize, SecretSize
  <1>18. Laid(q, h, r, n, c, z, x)
    BY <1>7, <1>9, <1>10, <1>11, <1>12, <1>13 DEF Laid
  <1>19. q[1] = (IF secret # <<>> THEN 1 ELSE 0)
    BY <1>4, <1>5, <1>13
  <1>20. (secret = <<>> => size = z) /\ (secret # <<>> => size = z + 32)
    BY <1>30, <1>13
  <1>21. Layout(f, x, q, h, r, n, c, z, size)
    BY <1>30, <1>5, <1>7, <1>10, <1>11, <1>15, <1>16, <1>18, <1>19, <1>20 DEF Layout
  <1>32. HasLayout(f, x, q)
    BY <1>2, <1>21, Zenon DEF HasLayout
  <1> QED BY <1>17, <1>32

LEMMA HoldsSame ==
    ASSUME NEW p, NEW q, NEW at \in Nat, NEW b, NEW k \in Nat,
           Holds(p, at, b, k), Holds(q, at, b, k)
    PROVE  \A i \in at + 1 .. at + k : p[i] = q[i]
  <1>1. ASSUME NEW i \in at + 1 .. at + k PROVE p[i] = q[i]
    <2>1. i - at \in 1 .. k /\ at + (i - at) = i
      OBVIOUS
    <2>2. p[at + (i - at)] = b[i - at] /\ q[at + (i - at)] = b[i - at]
      BY <2>1 DEF Holds
    <2> QED BY <2>1, <2>2
  <1> QED BY <1>1

\* Every byte of a packet is one of a field's.
LEMMA LayoutDetermines ==
    ASSUME NEW f \in Formatter, NEW x, NEW p, NEW q, HasLayout(f, x, p), HasLayout(f, x, q)
    PROVE  p = q
  <1>10. PICK h \in {2, 3}, r \in Nat, n \in Nat, c \in Nat, z \in Nat, size \in Nat :
             Layout(f, x, p, h, r, n, c, z, size)
    BY DEF HasLayout
  <1>11. PICK hh \in {2, 3}, rr \in Nat, nn \in Nat, cc \in Nat, zz \in Nat, sz \in Nat :
             Layout(f, x, q, hh, rr, nn, cc, zz, sz)
    BY DEF HasLayout
  <1>1. hh = h /\ rr = r /\ nn = n /\ cc = c
    BY <1>10, <1>11 DEF Layout
  <1>2. zz = z /\ sz = size
    <2>1. z = h + (r + n + c + 16) /\ zz = hh + (rr + nn + cc + 16)
      BY <1>10, <1>11 DEF Layout
    <2>2. zz = z
      BY <1>1, <2>1
    <2>3. /\ x.secret = <<>> => size = z /\ sz = zz
          /\ x.secret # <<>> => size = z + 32 /\ sz = zz + 32
      BY <1>10, <1>11 DEF Layout
    <2> QED BY <2>2, <2>3
  <1>3. /\ p \in Seq(Byte) /\ DOMAIN p = 1 .. size /\ q \in Seq(Byte) /\ DOMAIN q = 1 .. size
        /\ p[1] = q[1] /\ p[2] = q[2] /\ (f = "timestamp" => p[3] = q[3])
        /\ h = HeaderLength(f) /\ z = h + (r + n + c + 16)
        /\ x.secret = <<>> => size = z
        /\ x.secret # <<>> => size = z + 32
        /\ Laid(p, h, r, n, c, z, x) /\ Laid(q, h, r, n, c, z, x)
    BY <1>1, <1>2, <1>10, <1>11 DEF Layout
  <1>4. h = 3 => f = "timestamp"
    BY <1>3 DEF HeaderLength
  <1>5. /\ \A i \in h + 1 .. h + r : p[i] = q[i]
        /\ \A i \in (h + r) + 1 .. (h + r) + n : p[i] = q[i]
        /\ \A i \in (h + r + n) + 1 .. (h + r + n) + c : p[i] = q[i]
    <2>1. h \in Nat /\ h + r \in Nat /\ h + r + n \in Nat
      OBVIOUS
    <2>2. /\ Holds(p, h, x.replay, r) /\ Holds(q, h, x.replay, r)
          /\ Holds(p, h + r, x.nonce, n) /\ Holds(q, h + r, x.nonce, n)
          /\ Holds(p, h + r + n, x.ciphertext, c) /\ Holds(q, h + r + n, x.ciphertext, c)
      BY <1>3 DEF Laid
    <2>3. \A i \in h + 1 .. h + r : p[i] = q[i]
      BY <2>1, <2>2, HoldsSame
    <2>4. \A i \in (h + r) + 1 .. (h + r) + n : p[i] = q[i]
      BY <2>1, <2>2, HoldsSame
    <2>5. \A i \in (h + r + n) + 1 .. (h + r + n) + c : p[i] = q[i]
      BY <2>1, <2>2, HoldsSame
    <2> QED BY <2>3, <2>4, <2>5
  <1>6. \A i \in (h + r + n + c) + 1 .. (h + r + n + c) + 16 : p[i] = q[i]
    <2>1. PICK at \in Nat, m \in Nat : at = h + r + n + c /\ m = 16
      OBVIOUS
    <2>2. Holds(p, at, x.tag, m) /\ Holds(q, at, x.tag, m)
      BY <1>3, <2>1 DEF Laid
    <2>3. \A i \in at + 1 .. at + m : p[i] = q[i]
      BY <2>2, HoldsSame
    <2> QED BY <2>1, <2>3
  <1>7. x.secret # <<>> => \A i \in z + 1 .. z + 32 : p[i] = q[i]
    <2>1. PICK m \in Nat : m = 32
      OBVIOUS
    <2>2. ASSUME x.secret # <<>> PROVE \A i \in z + 1 .. z + m : p[i] = q[i]
      <3>1. Holds(p, z, x.secret, m) /\ Holds(q, z, x.secret, m)
        BY <1>3, <2>1, <2>2 DEF Laid
      <3> QED BY <3>1, HoldsSame
    <2> QED BY <2>1, <2>2
  <1>0. z \in Nat /\ size \in Nat
    OBVIOUS
  <1>8. ASSUME NEW i \in 1 .. size PROVE p[i] = q[i]
    <2>1. CASE i <= h
      <3>1. i = 1 \/ i = 2 \/ (i = 3 /\ h = 3)
        BY <2>1
      <3>2. p[1] = q[1] /\ p[2] = q[2] /\ (h = 3 => p[3] = q[3])
        BY <1>3, <1>4
      <3> QED BY <3>1, <3>2
    <2>2. CASE h < i /\ i <= z
      <3>0. z = h + (r + n + c + 16)
        BY <1>3
      <3>1. \/ i \in h + 1 .. h + r
            \/ i \in (h + r) + 1 .. (h + r) + n
            \/ i \in (h + r + n) + 1 .. (h + r + n) + c
            \/ i \in (h + r + n + c) + 1 .. (h + r + n + c) + 16
        BY <2>2, <3>0
      <3> QED BY <1>5, <1>6, <3>1
    <2>3. CASE z < i
      <3>1. (x.secret = <<>> => size = z) /\ (x.secret # <<>> => size = z + 32)
        BY <1>3
      <3>2. x.secret # <<>>
        BY <1>0, <2>3, <3>1
      <3>3. size = z + 32
        BY <3>1, <3>2
      <3>4. i \in z + 1 .. z + 32
        BY <1>0, <2>3, <3>3
      <3>5. \A j \in z + 1 .. z + 32 : p[j] = q[j]
        BY <1>7, <3>2
      <3> QED BY <3>4, <3>5
    <2> QED BY <2>1, <2>2, <2>3
  <1>9. p = [i \in 1 .. size |-> p[i]] /\ q = [i \in 1 .. size |-> q[i]]
    BY <1>3
  <1> QED BY <1>8, <1>9

\* Packing what unpack returned gives the bytes it was given.
LEMMA RoundTripBack ==
    ASSUME NEW f \in Formatter, NEW p \in Seq(Byte), ~UnpackRaises(f, p)
    PROVE  Pack(f, Unpack(f, p)) = Normalised(p)
  <1>1. PICK x, q, w : x = Unpack(f, p) /\ q = Normalised(p) /\ w = Pack(f, x)
    OBVIOUS
  <1>2. Typed(f, x) /\ HasLayout(f, x, q)
    BY <1>1, UnpackLayout
  <1>3. HasLayout(f, x, w)
    BY <1>1, <1>2, PackLayout
  <1>4. q = w
    BY <1>2, <1>3, LayoutDetermines
  <1> QED BY <1>1, <1>4

----------------------------------------------------------------------------

\* The inductive invariant: a packet under way is what pack made of its arguments,
\* a piece of one belongs to no arguments, and unpack has returned what it should.
FormatInv ==
    /\ formatter \in Formatter /\ frame \in Seq(Byte)
    /\ step \in {"idle", "sent", "torn", "raised"}
    /\ step = "sent" => given \in Fields(formatter) /\ frame = Pack(formatter, given)
    /\ step = "torn" => given = None
    /\ UnpackInvertsPack
    /\ PackInvertsUnpack

LEMMA FormatInvariant == Spec => []FormatInv
  <1>1. Init => FormatInv
    BY DEF Init, FormatInv, UnpackInvertsPack, PackInvertsUnpack
  <1>2. FormatInv /\ [Next]_vars => FormatInv'
    <2> SUFFICES ASSUME FormatInv, [Next]_vars PROVE FormatInv'
      OBVIOUS
    <2>1. CASE Send
      <3>1. PICK x \in Fields(formatter) : given' = x /\ frame' = Pack(formatter, x)
        BY <2>1 DEF Send
      <3>2. formatter \in Formatter /\ formatter' = formatter /\ step' = "sent"
        BY <2>1 DEF Send, FormatInv
      <3>3. frame' \in Seq(Byte)
        <4>1. PICK p : p = Pack(formatter, x)
          OBVIOUS
        <4>2. Typed(formatter, x)
          BY <3>2, FieldTypes
        <4>3. PICK h \in {2, 3}, r \in Nat, n \in Nat, c \in Nat, z \in Nat, size \in Nat :
                  Layout(formatter, x, p, h, r, n, c, z, size)
          BY <3>2, <4>1, <4>2, PackLayout DEF HasLayout
        <4> QED BY <3>1, <4>1, <4>3 DEF Layout
      <3> QED BY <3>1, <3>2, <3>3 DEF FormatInv, UnpackInvertsPack, PackInvertsUnpack
    <2>2. CASE Tear
      <3>1. PICK start \in Starts, size \in Sizes :
                start + size <= Len(frame) /\ frame' = SubSeq(frame, start + 1, start + size)
        BY <2>2 DEF Tear
      <3>2. /\ frame \in Seq(Byte) /\ formatter \in Formatter /\ formatter' = formatter
            /\ given' = None /\ step' = "torn"
        BY <2>2 DEF Tear, FormatInv
      <3>3. frame' \in Seq(Byte)
        <4>1. start \in Nat /\ size \in Nat /\ Len(frame) \in Nat
          BY <3>2, FormatAssumption
        <4>2. \A i \in start + 1 .. start + size : i \in 1 .. Len(frame)
          BY <3>1, <4>1
        <4>3. \A i \in start + 1 .. start + size : frame[i] \in Byte
          BY <3>2, <4>2, ElementOfSeq
        <4>4. start + 1 \in Int /\ start + size \in Int
          BY <4>1
        <4>5. SubSeq(frame, start + 1, start + size) \in Seq(Byte)
          BY <4>3, <4>4, SubSeqProperties
        <4> QED BY <3>1, <4>5
      <3> QED BY <3>2, <3>3 DEF FormatInv, UnpackInvertsPack, PackInvertsUnpack
    <2>3. CASE Receive
      <3>1. /\ formatter \in Formatter /\ formatter' = formatter
            /\ frame \in Seq(Byte) /\ given' = given /\ frame' = frame
        BY <2>3 DEF Receive, FormatInv
      <3>2. CASE UnpackRaises(formatter, frame)
        <4>1. step' = "raised"
          BY <2>3, <3>2 DEF Receive
        <4>2. step = "torn"
          <5>1. CASE step = "sent"
            <6>1. given \in Fields(formatter) /\ frame = Pack(formatter, given)
              BY <5>1 DEF FormatInv
            <6> QED BY <3>1, <3>2, <6>1, RoundTrip
          <5> QED BY <2>3, <5>1 DEF Receive
        <4>3. given' = None
          BY <3>1, <4>2 DEF FormatInv
        <4> QED BY <3>1, <4>1, <4>3 DEF FormatInv, UnpackInvertsPack, PackInvertsUnpack
      <3>3. CASE ~UnpackRaises(formatter, frame)
        <4>1. step' = "idle" /\ taken' = Unpack(formatter, frame)
          BY <2>3, <3>3 DEF Receive
        <4>2. given # None => taken' = given
          <5>1. ASSUME given # None PROVE Unpack(formatter, frame) = given
            <6>1. step = "sent"
              BY <2>3, <5>1 DEF Receive, FormatInv
            <6>2. given \in Fields(formatter) /\ frame = Pack(formatter, given)
              BY <6>1 DEF FormatInv
            <6> QED BY <3>1, <6>2, RoundTrip
          <5> QED BY <4>1, <5>1
        <4>3. Pack(formatter, taken') = Normalised(frame)
          BY <3>1, <3>3, <4>1, RoundTripBack
        <4>4. UnpackInvertsPack'
          BY <3>1, <4>2 DEF UnpackInvertsPack
        <4>5. PackInvertsUnpack'
          BY <3>1, <4>3 DEF PackInvertsUnpack
        <4> QED BY <3>1, <4>1, <4>4, <4>5 DEF FormatInv
      <3> QED BY <3>2, <3>3
    <2>4. CASE UNCHANGED vars
      BY <2>4 DEF vars, FormatInv, UnpackInvertsPack, PackInvertsUnpack
    <2> QED BY <2>1, <2>2, <2>3, <2>4 DEF Next
  <1> QED BY <1>1, <1>2, PTL DEF Spec

\* unpack of a whole packet never raises and gives back exactly what pack was
\* given, for nonces and ciphertexts of any length and in either layout.
THEOREM PacketsRoundTrip == Spec => []UnpackInvertsPack
  <1>1. FormatInv => UnpackInvertsPack
    BY DEF FormatInv
  <1> QED BY <1>1, FormatInvariant, PTL

\* What unpack makes of a piece of a packet accounts for every byte of it once.
THEOREM PiecesRoundTrip == Spec => []PackInvertsUnpack
  <1>1. FormatInv => PackInvertsUnpack
    BY DEF FormatInv
  <1> QED BY <1>1, FormatInvariant, PTL

\* Padding adds at most one block to what a blind recv returned.
LEMMA CiphertextBounded ==
    ASSUME NEW cipher \in CipherType, NEW size \in 1 .. BlindRecvBufferSize
    PROVE  CiphertextSize(cipher, size) <= BlindRecvBufferSize + AesBlockSize
  <1>1. size \in Nat /\ size <= 4096
    BY DEF BlindRecvBufferSize
  <1>2. size \div 16 <= 256
    BY <1>1
  <1>3. CASE cipher = "CHACHA20"
    BY <1>1, <1>3 DEF CiphertextSize, BlindRecvBufferSize, AesBlockSize
  <1>4. CASE cipher # "CHACHA20"
    <2>1. CiphertextSize(cipher, size) = (size \div 16 + 1) * 16
      BY <1>4 DEF CiphertextSize, AesBlockSize
    <2> QED BY <1>1, <1>2, <2>1 DEF BlindRecvBufferSize, AesBlockSize
  <1> QED BY <1>3, <1>4

\* The gateways seal what a blind recv returned, with any of the ciphers.
SealedChunks ==
    \A c \in Ciphertext : \E cipher \in CipherType, size \in 1 .. BlindRecvBufferSize :
        Len(c) = CiphertextSize(cipher, size)

\* Then the two bytes of a frame's length are enough for every packet, although
\* nothing checks it, for nonces as long as the header can say.
THEOREM FramesFit == ASSUME SealedChunks PROVE Spec => []PacketFits
  <1>1. ASSUME NEW f \in Formatter, NEW x \in Fields(f) PROVE Len(Pack(f, x)) < 65536
    <2>1. PICK p : p = Pack(f, x)
      OBVIOUS
    <2>2. PICK h \in {2, 3}, r \in Nat, n \in Nat, c \in Nat, z \in Nat, size \in Nat :
              Layout(f, x, p, h, r, n, c, z, size)
      BY <2>1, FieldTypes, PackLayout DEF HasLayout
    <2>3. /\ r = ReplaySize(f) /\ n = Len(x.nonce) /\ c = Len(x.ciphertext)
          /\ z = h + (r + n + c + 16) /\ (size = z \/ size = z + 32) /\ Len(p) = size
      BY <2>2 DEF Layout
    <2>4. r <= 8 /\ n <= 255
      <3>1. Len(x.nonce) \in Byte
        BY FieldTypes DEF Typed
      <3>2. ReplaySize(f) = 4 \/ ReplaySize(f) = 8
        BY DEF ReplaySize
      <3>3. n \in 0 .. 255 /\ (r = 4 \/ r = 8)
        BY <2>3, <3>1, <3>2 DEF Byte
      <3> QED BY <3>3
    <2>5. c <= 4112
      <3>1. x.ciphertext \in Ciphertext
        BY DEF Fields
      <3>2. PICK cipher \in CipherType, chunk \in 1 .. BlindRecvBufferSize :
                Len(x.ciphertext) = CiphertextSize(cipher, chunk)
        BY <3>1 DEF SealedChunks
      <3>3. CiphertextSize(cipher, chunk) <= BlindRecvBufferSize + AesBlockSize
        BY CiphertextBounded
      <3> QED BY <2>3, <3>2, <3>3 DEF BlindRecvBufferSize, AesBlockSize
    <2>6. size < 65536
      <3>1. h \in Nat /\ h <= 3
        OBVIOUS
      <3>2. z = h + (r + n + c + 16) /\ (size = z \/ size = z + 32)
        BY <2>3
      <3> HIDE <2>3
      <3> QED BY <2>4, <2>5, <3>1, <3>2
    <2> QED BY <2>1, <2>3, <2>6
  <1>2. FormatInv => PacketFits
    BY <1>1 DEF FormatInv, PacketFits
  <1> QED BY <1>2, FormatInvariant, PTL
==============================================================================
