CONSTANTS
    Flag <- Flags
    Replay <- Replays
    Nonce <- Nonces
    Ciphertext <- Ciphertexts
    Tag <- Tags
    PublicSecret <- Secrets
    Starts <- PieceStarts
    Sizes <- PieceSizes
    None = None

SPECIFICATION Spec

INVARIANTS
    UnpackInvertsPack
    PackInvertsUnpack
    PacketFits
