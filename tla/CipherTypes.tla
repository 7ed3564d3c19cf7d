---------------------------- MODULE CipherTypes ----------------------------
(***************************************************************************)
(* CipherTypes of sym_cipher.py: the ciphers that --set-cipher may choose. *)
(* The protocol depends on the choice only in the sizes of what is packed. *)
(* A message to seal is what NetComm's blind recv returned.                *)
(***************************************************************************)
EXTENDS Naturals

CipherType == {"AES_CCM", "AES_EAX", "AES_GCM", "AES_SIV", "AES_OCB", "CHACHA20"}

\* get_cipher_object: GCM and SIV nonces are made here, the library makes others.
NonceSize(cipher) ==
    CASE cipher = "AES_CCM"                -> 11
      [] cipher \in {"AES_EAX", "AES_SIV"} -> 16
      [] cipher \in {"AES_GCM", "CHACHA20"} -> 12
      [] cipher = "AES_OCB"                -> 15

AesBlockSize == 16

\* A stream cipher needs no padding; pad always adds something.
CiphertextSize(cipher, size) ==
    IF cipher = "CHACHA20" THEN size ELSE (size \div AesBlockSize + 1) * AesBlockSize

\* Faulty buffer size: as much as a frame can carry.
FullRecvBufferSize == 65535

BlindRecvBufferSize == 4096
=============================================================================
