----------------------------- MODULE SymCipher -----------------------------
(***************************************************************************)
(* SymCipher of sym_cipher.py: the symmetric key of one gateway, its       *)
(* Rekeyer, and the two calls the gateway's threads make,                  *)
(* encrypt_and_digest and decrypt_and_verify.                              *)
(*                                                                         *)
(* Authenticated encryption is ideal: a packet records the key it was      *)
(* sealed with, and opens under that key and no other.  Cipher mode,       *)
(* nonce, padding and tag are below this level; the outcome of the replay  *)
(* check is an argument, replayed.                                         *)
(***************************************************************************)
EXTENDS Rekeyer

CipherState == [key : Key, rek : RekeyerState]

NewCipher(enabled) == [key |-> SessionKey, rek |-> NewRekeyer(enabled)]

\* The wire packet: header flag, footer secret, and the sealed payload.
PacketOf(Body) ==
    [flag : RekeyStates, secret : Secret \cup {None}, key : Key, body : Body]

\* Faulty __update_key: no check that the rekeyer has a key to give.
UpdateKeyUnchecked(c, beforeSend) ==
    [key |-> NewKey(c.rek, beforeSend), rek |-> AfterNewKey(c.rek)]

\* __update_key: the rekeyer's key, if it has one to give.
UpdateKey(c, beforeSend) ==
    LET k == NewKey(c.rek, beforeSend)
    IN  [key |-> IF k # None THEN k ELSE c.key, rek |-> AfterNewKey(c.rek)]

\* set_rekey_interval seconds have passed since the last rekeying.
Due(c) == [key |-> c.key, rek |-> [c.rek EXCEPT !.due = TRUE]]

----------------------------------------------------------------------------
(* encrypt_and_digest                                                      *)

AfterEncrypt(c, isReset) ==
    LET u == UpdateKey(c, TRUE)
    IN  [key |-> u.key, rek |-> AfterSendState(u.rek, isReset)]

EncryptRaises(c, isReset) == OwnPublicSecretRaises(AfterEncrypt(c, isReset).rek)

Encrypted(c, body, isReset) ==
    LET d == AfterEncrypt(c, isReset)
    IN  [flag |-> SendState(d.rek), secret |-> OwnPublicSecret(d.rek),
         key  |-> d.key, body |-> body]

----------------------------------------------------------------------------
(* decrypt_and_verify                                                      *)

\* The cipher once the flag is handled and the key updated, before decrypting.
Prepared(c, m, fresh, agreed) ==
    LET h == [c EXCEPT !.rek = HandleRekey(@, c.key, m.flag, m.secret, fresh, agreed)]
    IN  IF HandleRekeyRaises(c.rek, m.flag, m.secret) THEN h ELSE UpdateKey(h, FALSE)

\* The second attempt, with the key that was current when the packet came in.
OpensWithOld(p, m) == m.key # p.key /\ m.key = OldKey(p.rek)

\* "accepted": the plaintext is returned.  "rejected": ValueError, which the
\* gateway reports as a tampered message.  "crashed": the TimeoutError of the
\* replay check inside the second attempt, which nothing catches.
Verdict(c, m, fresh, agreed, replayed) ==
    LET p == Prepared(c, m, fresh, agreed)
    IN  CASE HandleRekeyRaises(c.rek, m.flag, m.secret) -> "rejected"
          [] ~HandleRekeyRaises(c.rek, m.flag, m.secret) ->
               CASE m.key = p.key      -> IF replayed THEN "rejected" ELSE "accepted"
                 [] OpensWithOld(p, m) -> IF replayed THEN "crashed" ELSE "accepted"
                 [] OTHER              -> "rejected"

AfterDecrypt(c, m, fresh, agreed, replayed) ==
    LET p == Prepared(c, m, fresh, agreed)
    IN  IF /\ ~HandleRekeyRaises(c.rek, m.flag, m.secret)
           /\ OpensWithOld(p, m) /\ ~replayed
        THEN [key |-> m.key, rek |-> SetFailFlag(p.rek)]
        ELSE p

\* The secrets a cipher still refers to; ECC_key_gen never returns them again.
SecretsOf(c) ==
    UNION ({c.key, {c.rek.own, c.rek.peer}} \cup ({c.rek.old, c.rek.new} \ {None})) \ {None}
============================================================================
