---------------------------- MODULE MCPacketFormat ----------------------------
EXTENDS PacketFormat, CipherTypes

\* Sequences of the sizes the ciphers produce, told apart at both ends.
Ramp(n, first) == [i \in 1 .. n |-> (first + i) % 256]
Flat(n, byte) == [i \in 1 .. n |-> byte]

Flags == {0, 5}
Replays == [f \in Formatter |-> {IF f = "timestamp" THEN Ramp(4, 10) ELSE Flat(8, 255)}]
Nonces == {Ramp(NonceSize(c), 20) : c \in CipherType} \cup {Flat(16, 255)}
Ciphertexts ==
    {Ramp(CiphertextSize(c, n), 60) : c \in CipherType, n \in {1, 16}}
        \cup {Ramp(CiphertextSize("AES_GCM", BlindRecvBufferSize), 80)}
Tags == {Ramp(16, 120)}
Secrets == {Ramp(32, 140), Flat(32, 0)}

\* Pieces from the header, the nonce, the ciphertext and the footer on, some long
\* enough for what they are taken to say of themselves and some not.
PieceStarts == {0, 1, 2, 7, 27, 46, 51}
PieceSizes == {1, 2, 3, 20, 23, 26, 32, 70, 83, 150, 250}
==============================================================================
