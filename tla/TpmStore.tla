------------------------------ MODULE TpmStore ------------------------------
(***************************************************************************)
(* What a device keeps between runs of its programs: two objects in its    *)
(* TPM, reached through tpm_security.py, and the file with the peer's      *)
(* public key.  A signing key stands for its public half and for the hash  *)
(* of it as well, so a seal holds the key whose hash was sealed.           *)
(*                                                                         *)
(* FAPI and the file system are external: an object is created or deleted  *)
(* at once or not at all, and FAPI may fail to delete one.                 *)
(***************************************************************************)
CONSTANTS
    KeysOf,     \* [Gateway -> the keys that fapi.create_key makes on this device]
    None,       \* no such object, no such file
    Empty       \* the contents of a file that was opened for writing only

Gateway == {"client", "server"}

SignKey == UNION {KeysOf[g] : g \in Gateway}

ASSUME StoreAssumption ==
    /\ None \notin SignKey /\ Empty \notin SignKey /\ Empty # None
    /\ KeysOf["client"] \cap KeysOf["server"] = {}

Store ==
    [sign : SignKey \cup {None},            \* dev_auth_key
     seal : SignKey \cup {None},            \* peer_auth_pub_key_seal
     file : SignKey \cup {None, Empty}]     \* peer_auth_pub_key

NoStore == [sign |-> None, seal |-> None, file |-> None]

Peer(g) == IF g = "client" THEN "server" ELSE "client"

\* Faulty create_key: the existing key is replaced.
CreateKeyAnew(s, fresh) == [s EXCEPT !.sign = fresh]

\* create_key returns False and leaves an existing key alone.
CreateKey(s, fresh) == IF s.sign = None THEN [s EXCEPT !.sign = fresh] ELSE s

\* sign_data raises RuntimeError without a key.
CanSign(s) == s.sign # None

\* link_with_seal returns False when the seal exists.
CanSeal(s) == s.seal = None

LinkWithSeal(s, key) == [s EXCEPT !.seal = key]

\* unseal raises RuntimeError without a seal; verify_with_seal compares.
CanUnseal(s) == s.seal # None

VerifyWithSeal(s, data) == data = s.seal

\* delete_obj of what get_obj_tpm_path found, and os.remove.
DeleteObj(s, name) == [s EXCEPT ![name] = None]

\* fapi.delete may fail, and leave the object where it is: RuntimeError.
DeleteOutcomes(s, name) == {DeleteObj(s, name)} \cup (IF name = "file" THEN {} ELSE {s})

\* verify_RSA_signature: made by the private half of this public key.
VerifyRsaSignature(key, signer) == key = signer
=============================================================================
