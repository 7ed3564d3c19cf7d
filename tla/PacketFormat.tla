----------------------------- MODULE PacketFormat -----------------------------
(***************************************************************************)
(* packet_format.py: the two layouts of an encrypted packet, as one        *)
(* gateway packs them and the other unpacks them.  A packet does not say   *)
(* how long its parts are: unpack works that out from the packet's size,   *)
(* one byte of the header and sizes that pack adds up separately.  After a *)
(* timeout within a frame NetComm.receive returns pieces of packets, which *)
(* unpack takes for whole ones.                                            *)
(*                                                                         *)
(* Bytes are numbers, bytes objects sequences of them, and the sizes are   *)
(* those of the program.                                                   *)
(***************************************************************************)
EXTENDS Integers, Sequences

CONSTANTS
    Flag,           \* rekey flags
    Replay,         \* [Formatter -> timestamps or sequence numbers]
    Nonce,          \* nonces that TimestampFormatter may be given
    Ciphertext,
    Tag,
    PublicSecret,   \* exported X25519 public keys
    Starts, Sizes,  \* bounds: where a piece of a packet starts, and how long it is
    None

Byte == 0 .. 255

Formatter == {"timestamp", "seq-num"}

ReplaySize(f) == IF f = "timestamp" THEN 4 ELSE 8
TagSize == 16
SecretSize == 32

\* The ciphers' nonces are 11 to 16 bytes long; one byte holds their size.
ASSUME FormatAssumption ==
    /\ Flag \subseteq Byte
    /\ \A f \in Formatter : Replay[f] \subseteq [1 .. ReplaySize(f) -> Byte]
    /\ Nonce \subseteq Seq(Byte) /\ \A n \in Nonce : Len(n) \in Byte
    /\ Ciphertext \subseteq Seq(Byte)
    /\ Tag \subseteq [1 .. TagSize -> Byte]
    /\ PublicSecret \subseteq [1 .. SecretSize -> Byte]
    /\ Starts \subseteq Nat /\ Sizes \subseteq Nat \ {0}

VARIABLES
    formatter,  \* the layout both gateways were started with
    given,      \* the arguments of the last pack, None once its packet is torn
    frame,      \* what NetComm hands to the peer: the packet or a piece of it
    taken,      \* what unpack returned for it, None if nothing
    step        \* "idle", "sent", "torn" or "raised"

vars == <<formatter, given, frame, taken, step>>

\* A sequence number's nonce is not in the packet.
Fields(f) ==
    [flag : Flag, replay : Replay[f],
     nonce : IF f = "timestamp" THEN Nonce ELSE {<<>>},
     ciphertext : Ciphertext, tag : Tag, secret : PublicSecret \cup {<<>>}]

----------------------------------------------------------------------------

HeaderLength(f) == IF f = "timestamp" THEN 3 ELSE 2

FixedSize(f, footer) ==
    HeaderLength(f) + ReplaySize(f) + TagSize + IF footer THEN SecretSize ELSE 0

Header(f, footer, x) ==
    LET has_footer == IF footer THEN 1 ELSE 0
    IN  IF f = "timestamp" THEN <<has_footer, x.flag, Len(x.nonce)>> ELSE <<has_footer, x.flag>>

\* struct.pack_into and unpack_from, on a format of byte strings.
PackInto(buffer, offset, bytes) ==
    SubSeq(buffer, 1, offset) \o bytes \o SubSeq(buffer, offset + Len(bytes) + 1, Len(buffer))

UnpackFrom(buffer, offset, size) == [i \in 1 .. size |-> buffer[offset + i]]

Pack(f, x) ==
    LET footer == x.secret # <<>>
        size   == FixedSize(f, footer) + Len(x.nonce) + Len(x.ciphertext)
        headed == PackInto([i \in 1 .. size |-> 0], 0, Header(f, footer, x))
        filled == PackInto(headed, HeaderLength(f), x.replay \o x.nonce \o x.ciphertext \o x.tag)
    IN  IF footer THEN PackInto(filled, size - SecretSize, x.secret) ELSE filled

\* What unpack reads of the header: any nonzero byte is a True.
HasFooter(p) == p[1] # 0

NonceLength(f, p) == IF f = "timestamp" THEN p[3] ELSE 0

\* Faulty sizes in unpack: a footer never or always there.
CiphertextLengthNoFooter(f, p) == Len(p) - NonceLength(f, p) - FixedSize(f, FALSE)

CiphertextLengthFooter(f, p) == Len(p) - NonceLength(f, p) - FixedSize(f, TRUE)

CiphertextLength(f, p) == Len(p) - NonceLength(f, p) - FixedSize(f, HasFooter(p))

\* struct.error, which is no ValueError: the packet is shorter than its header
\* says, so that a size comes out negative.
UnpackRaises(f, p) == Len(p) < HeaderLength(f) \/ CiphertextLength(f, p) < 0

Unpack(f, p) ==
    LET nonceAt == HeaderLength(f) + ReplaySize(f)
        textAt  == nonceAt + NonceLength(f, p)
        tagAt   == textAt + CiphertextLength(f, p)
    IN  [flag       |-> p[2],
         replay     |-> UnpackFrom(p, HeaderLength(f), ReplaySize(f)),
         nonce      |-> UnpackFrom(p, nonceAt, NonceLength(f, p)),
         ciphertext |-> UnpackFrom(p, textAt, CiphertextLength(f, p)),
         tag        |-> UnpackFrom(p, tagAt, TagSize),
         secret     |-> IF HasFooter(p) THEN UnpackFrom(p, Len(p) - SecretSize, SecretSize)
                                        ELSE <<>>]

----------------------------------------------------------------------------

Init ==
    /\ formatter \in Formatter
    /\ given = None /\ frame = <<>> /\ taken = None
    /\ step = "idle"

\* pack_encrypted_data, and the packet travels as one frame.  If unpack has raised,
\* this is a packet of the next session.
Send ==
    /\ step \in {"idle", "raised"}
    /\ \E x \in Fields(formatter) : given' = x /\ frame' = Pack(formatter, x)
    /\ taken' = None /\ step' = "sent"
    /\ UNCHANGED formatter

\* NetComm has lost its place in the stream (NetComm.torn) and takes some bytes
\* of the packet for a frame.
Tear ==
    /\ step = "sent"
    /\ \E start \in Starts, size \in Sizes :
          /\ start + size <= Len(frame)
          /\ frame' = SubSeq(frame, start + 1, start + size)
    /\ given' = None /\ step' = "torn"
    /\ UNCHANGED <<formatter, taken>>

\* unpack_encrypted_data; the gateway's loop catches ValueError only, so that
\* struct.error ends the decrypting thread.
Receive ==
    /\ step \in {"sent", "torn"}
    /\ IF UnpackRaises(formatter, frame)
       THEN step' = "raised" /\ UNCHANGED taken
       ELSE step' = "idle" /\ taken' = Unpack(formatter, frame)
    /\ UNCHANGED <<formatter, given, frame>>

Next == Send \/ Tear \/ Receive

Spec == Init /\ [][Next]_vars

----------------------------------------------------------------------------

\* unpack of a whole packet never raises and gives back exactly what pack was
\* given, in either layout, with and without a footer and for any length of nonce
\* and ciphertext.
UnpackInvertsPack == given # None /\ step \in {"idle", "raised"} => taken = given

\* pack writes a boolean as 1 or 0.
Normalised(p) == [p EXCEPT ![1] = IF HasFooter(p) THEN 1 ELSE 0]

\* Whatever bytes unpack is given, pieces of a packet included, it raises or cuts
\* them up without leaving one out, reading one twice or reading past the end:
\* packing what it returned gives those bytes again.
PackInvertsUnpack ==
    step = "idle" /\ taken # None => Pack(formatter, taken) = Normalised(frame)

\* Every packet fits a frame: NetComm.send checks its own limit of 1 MB only, and
\* would raise struct.error on the two bytes of the length in the sending thread.
\* That a blind recv returns so little is what prevents it.
PacketFits == step = "sent" => Len(frame) < 65536
==============================================================================
