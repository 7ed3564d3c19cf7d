-------------------------- MODULE SecureLinkProofs --------------------------
(***************************************************************************)
(* Theorems about SecureLink, for every set of key pairs, payloads and     *)
(* rekeying gateways.  First its type invariant, from any window and with  *)
(* any delay; then, under the lockstep assumption, its safety.             *)
(***************************************************************************)
EXTENDS SecureLink, SequenceTheorems, TLAPS

(* What the operations of Rekeyer and SymCipher preserve and return, for   *)
(* every set of key pairs.                                                 *)

\* Keys agreed from two pairs are keys.
LEMMA AgreedKeyType ==
    ASSUME NEW a \in Secret, NEW b \in Secret
    PROVE  ECDHE_key_agreement(a, b) \in Key
BY DEF ECDHE_key_agreement, Key

LEMMA ResetType ==
    ASSUME NEW r \in RekeyerState
    PROVE  /\ ResetMost(r) \in RekeyerState
           /\ ResetSym(r) \in RekeyerState
           /\ ResetAll(r) \in RekeyerState
BY DEF ResetMost, ResetSym, ResetAll, RekeyerState, Roles

LEMMA NotedType ==
    ASSUME NEW r \in RekeyerState, NEW k \in Key, NEW flag \in RekeyStates,
           NEW secret \in Secret \cup {None}
    PROVE  Noted(r, k, flag, secret) \in RekeyerState
BY DEF Noted, RekeyerState

\* handle_rekey keeps the rekeyer well-formed, whatever packet it is given.
LEMMA HandleRekeyType ==
    ASSUME NEW r \in RekeyerState, NEW k \in Key, NEW flag \in RekeyStates,
           NEW secret \in Secret \cup {None}, NEW fresh \in Secret, NEW agreed \in BOOLEAN
    PROVE  HandleRekey(r, k, flag, secret, fresh, agreed) \in RekeyerState
<1> DEFINE s == Noted(r, k, flag, secret)
<1>1. s \in RekeyerState
  BY NotedType
<1> HIDE DEF s
<1>2. OnNone(s, fresh) \in RekeyerState
  <2>1. [s EXCEPT !.role = "initiator", !.send = "INIT", !.own = fresh] \in RekeyerState
    BY <1>1 DEF RekeyerState, RekeyStates, Roles
  <2>2. [s EXCEPT !.send = "NONE"] \in RekeyerState
    BY <1>1 DEF RekeyerState, RekeyStates
  <2> QED
    BY <2>1, <2>2, ResetType DEF OnNone
<1>3. OnInit(s, fresh, agreed) \in RekeyerState
  <2> DEFINE t == [s EXCEPT !.role = "replier", !.own = fresh]
  <2>1. t \in RekeyerState
    BY <1>1 DEF RekeyerState, Roles
  <2> HIDE DEF t
  <2>2. CASE CanGenerate(t, agreed)
    <3>1. t.own \in Secret /\ t.peer \in Secret
      BY <2>1, <2>2 DEF CanGenerate, RekeyerState
    <3>2. Generated(t) \in Key
      BY <3>1, AgreedKeyType DEF Generated
    <3>3. [t EXCEPT !.send = "REPLY", !.new = Generated(t)] \in RekeyerState
      BY <2>1, <3>2 DEF RekeyerState, RekeyStates
    <3> QED
      BY <2>2, <3>3 DEF OnInit, t
  <2>3. CASE ~CanGenerate(t, agreed)
    <3>1. [t EXCEPT !.send = "FAIL"] \in RekeyerState
      BY <2>1 DEF RekeyerState, RekeyStates
    <3> QED
      BY <2>3, <3>1, ResetType DEF OnInit, t
  <2> QED
    BY <2>2, <2>3
<1>4. ResetAll([s EXCEPT !.send = "NONE"]) \in RekeyerState
  <2>1. [s EXCEPT !.send = "NONE"] \in RekeyerState
    BY <1>1 DEF RekeyerState, RekeyStates
  <2> QED
    BY <2>1, ResetType
<1>5. OnReply(s, agreed) \in RekeyerState
  <2>1. CASE CanGenerate(s, agreed)
    <3>1. s.own \in Secret /\ s.peer \in Secret
      BY <1>1, <2>1 DEF CanGenerate, RekeyerState
    <3>2. Generated(s) \in Key
      BY <3>1, AgreedKeyType DEF Generated
    <3> QED
      BY <1>1, <2>1, <3>2 DEF OnReply, RekeyerState, RekeyStates
  <2>2. CASE ~CanGenerate(s, agreed)
    BY <1>1, <2>2 DEF OnReply, RekeyerState, RekeyStates
  <2> QED
    BY <2>1, <2>2
<1>6. OnSwitch(s) \in RekeyerState
  <2>1. [s EXCEPT !.send = "SWITCH_ACK", !.clear = TRUE, !.due = FALSE] \in RekeyerState
    BY <1>1 DEF RekeyerState, RekeyStates
  <2>2. [s EXCEPT !.send = "FAIL"] \in RekeyerState
    BY <1>1 DEF RekeyerState, RekeyStates
  <2> QED
    BY <2>1, <2>2, ResetType DEF OnSwitch
<1>7. OnSwitchAck(s) \in RekeyerState
  <2>1. [s EXCEPT !.send = "NONE", !.due = FALSE] \in RekeyerState
    BY <1>1 DEF RekeyerState, RekeyStates
  <2> QED
    BY <2>1, ResetType DEF OnSwitchAck
<1>8. OnProgress(s, flag, agreed) \in RekeyerState
  BY <1>1, <1>4, <1>5, <1>6, <1>7 DEF OnProgress, RekeyerState
<1>9. r.enabled \in BOOLEAN
  BY DEF RekeyerState
<1> QED
  BY <1>1, <1>2, <1>3, <1>4, <1>8, <1>9 DEF HandleRekey, s

----------------------------------------------------------------------------

LEMMA UpdateKeyType ==
    ASSUME NEW c \in CipherState, NEW beforeSend \in BOOLEAN
    PROVE  UpdateKey(c, beforeSend) \in CipherState
<1>1. c.rek \in RekeyerState /\ c.key \in Key
  BY DEF CipherState
<1>2. NewKey(c.rek, beforeSend) \in Key \cup {None}
  BY <1>1 DEF NewKey, RekeyerState
<1>3. AfterNewKey(c.rek) \in RekeyerState
  BY <1>1, ResetType DEF AfterNewKey
<1> QED
  BY <1>1, <1>2, <1>3 DEF UpdateKey, CipherState

\* encrypt_and_digest keeps the cipher well-formed.
LEMMA AfterEncryptType ==
    ASSUME NEW c \in CipherState, NEW isReset \in BOOLEAN
    PROVE  AfterEncrypt(c, isReset) \in CipherState
<1> DEFINE u == UpdateKey(c, TRUE)
<1>1. u \in CipherState
  BY UpdateKeyType
<1> HIDE DEF u
<1>2. u.rek \in RekeyerState
  BY <1>1 DEF CipherState
<1>3. [u.rek EXCEPT !.send = "NONE"] \in RekeyerState
  BY <1>2 DEF RekeyerState, RekeyStates
<1>4. AfterSendState(u.rek, isReset) \in RekeyerState
  BY <1>2, <1>3, ResetType DEF AfterSendState
<1> QED
  BY <1>1, <1>4 DEF AfterEncrypt, CipherState, u

\* What it returns is a packet.
LEMMA EncryptedType ==
    ASSUME NEW c \in CipherState, NEW isReset \in BOOLEAN, NEW Body, NEW body \in Body
    PROVE  Encrypted(c, body, isReset) \in PacketOf(Body)
<1> DEFINE d == AfterEncrypt(c, isReset)
<1>1. d.rek \in RekeyerState /\ d.key \in Key
  BY AfterEncryptType DEF CipherState
<1> HIDE DEF d
<1>2. SendState(d.rek) \in RekeyStates
  BY <1>1 DEF SendState, RekeyerState, RekeyStates
<1>3. OwnPublicSecret(d.rek) \in Secret \cup {None}
  BY <1>1 DEF OwnPublicSecret, RekeyerState
<1> QED
  BY <1>1, <1>2, <1>3 DEF Encrypted, PacketOf, d

LEMMA PreparedType ==
    ASSUME NEW c \in CipherState, NEW Body, NEW m \in PacketOf(Body),
           NEW fresh \in Secret, NEW agreed \in BOOLEAN
    PROVE  Prepared(c, m, fresh, agreed) \in CipherState
<1>1. /\ c.rek \in RekeyerState /\ c.key \in Key
      /\ m.flag \in RekeyStates /\ m.secret \in Secret \cup {None}
  BY DEF CipherState, PacketOf
<1> DEFINE h == [c EXCEPT !.rek = HandleRekey(@, c.key, m.flag, m.secret, fresh, agreed)]
<1>2. h \in CipherState
  BY <1>1, HandleRekeyType DEF CipherState
<1> QED
  BY <1>2, UpdateKeyType DEF Prepared

\* decrypt_and_verify keeps the cipher well-formed, whatever it is given.
LEMMA AfterDecryptType ==
    ASSUME NEW c \in CipherState, NEW Body, NEW m \in PacketOf(Body),
           NEW fresh \in Secret, NEW agreed \in BOOLEAN, NEW replayed \in BOOLEAN
    PROVE  AfterDecrypt(c, m, fresh, agreed, replayed) \in CipherState
<1> DEFINE p == Prepared(c, m, fresh, agreed)
<1>1. p \in CipherState /\ m.key \in Key
  BY PreparedType DEF PacketOf
<1> HIDE DEF p
<1>2. SetFailFlag(p.rek) \in RekeyerState
  BY <1>1 DEF SetFailFlag, CipherState, RekeyerState
<1>3. [key |-> m.key, rek |-> SetFailFlag(p.rek)] \in CipherState
  BY <1>1, <1>2 DEF CipherState
<1> QED
  BY <1>1, <1>3 DEF AfterDecrypt, p

----------------------------------------------------------------------------
(* A RekeyerDisabler stays one, and does nothing.                          *)

LEMMA HandleRekeyEnabled ==
    ASSUME NEW r \in RekeyerState, NEW k \in Key, NEW flag \in RekeyStates,
           NEW secret \in Secret \cup {None}, NEW fresh \in Secret, NEW agreed \in BOOLEAN
    PROVE  HandleRekey(r, k, flag, secret, fresh, agreed).enabled = r.enabled
<1> DEFINE s == Noted(r, k, flag, secret)
<1>1. s \in RekeyerState /\ s.enabled = r.enabled
  BY NotedType DEF Noted, RekeyerState
<1> HIDE DEF s
<1>2. OnNone(s, fresh).enabled = s.enabled
  BY <1>1 DEF OnNone, ResetSym, RekeyerState
<1>3. OnInit(s, fresh, agreed).enabled = s.enabled
  BY <1>1 DEF OnInit, ResetAll, ResetSym, ResetMost, RekeyerState
<1>4. ResetAll([s EXCEPT !.send = "NONE"]).enabled = s.enabled
  BY <1>1 DEF ResetAll, ResetSym, ResetMost, RekeyerState
<1>5. OnReply(s, agreed).enabled = s.enabled
  BY <1>1 DEF OnReply, RekeyerState
<1>6. OnSwitch(s).enabled = s.enabled
  BY <1>1 DEF OnSwitch, ResetAll, ResetSym, ResetMost, RekeyerState
<1>7. OnSwitchAck(s).enabled = s.enabled
  BY <1>1 DEF OnSwitchAck, ResetAll, ResetSym, ResetMost, RekeyerState
<1>8. OnProgress(s, flag, agreed).enabled = s.enabled
  BY <1>4, <1>5, <1>6, <1>7 DEF OnProgress
<1>9. r.enabled \in BOOLEAN
  BY DEF RekeyerState
<1> QED
  BY <1>1, <1>2, <1>3, <1>4, <1>8, <1>9 DEF HandleRekey, s

LEMMA UpdateKeyEnabled ==
    ASSUME NEW c \in CipherState, NEW beforeSend \in BOOLEAN
    PROVE  UpdateKey(c, beforeSend).rek.enabled = c.rek.enabled
BY DEF UpdateKey, AfterNewKey, ResetAll, ResetSym, ResetMost, CipherState, RekeyerState

LEMMA AfterEncryptEnabled ==
    ASSUME NEW c \in CipherState, NEW isReset \in BOOLEAN
    PROVE  AfterEncrypt(c, isReset).rek.enabled = c.rek.enabled
<1> DEFINE u == UpdateKey(c, TRUE)
<1>1. u \in CipherState /\ u.rek.enabled = c.rek.enabled
  BY UpdateKeyType, UpdateKeyEnabled
<1> HIDE DEF u
<1>2. u.rek \in RekeyerState
  BY <1>1 DEF CipherState
<1>3. AfterSendState(u.rek, isReset).enabled = u.rek.enabled
  BY <1>2 DEF AfterSendState, ResetAll, ResetSym, ResetMost, RekeyerState
<1> QED
  BY <1>1, <1>3 DEF AfterEncrypt, u

LEMMA AfterDecryptEnabled ==
    ASSUME NEW c \in CipherState, NEW Body, NEW m \in PacketOf(Body),
           NEW fresh \in Secret, NEW agreed \in BOOLEAN, NEW replayed \in BOOLEAN
    PROVE  AfterDecrypt(c, m, fresh, agreed, replayed).rek.enabled = c.rek.enabled
<1>1. /\ c.rek \in RekeyerState /\ c.key \in Key
      /\ m.flag \in RekeyStates /\ m.secret \in Secret \cup {None} /\ m.key \in Key
  BY DEF CipherState, PacketOf
<1> DEFINE h == [c EXCEPT !.rek = HandleRekey(@, c.key, m.flag, m.secret, fresh, agreed)]
           p == Prepared(c, m, fresh, agreed)
<1>2. h \in CipherState /\ h.rek.enabled = c.rek.enabled
  <2> DEFINE r == HandleRekey(c.rek, c.key, m.flag, m.secret, fresh, agreed)
  <2>1. r \in RekeyerState /\ r.enabled = c.rek.enabled
    <3>1. r \in RekeyerState
      BY <1>1, HandleRekeyType
    <3>2. r.enabled = c.rek.enabled
      BY <1>1, HandleRekeyEnabled
    <3> QED
      BY <3>1, <3>2
  <2> HIDE DEF r
  <2>2. h = [c EXCEPT !.rek = r]
    BY DEF r
  <2> QED
    BY <2>1, <2>2 DEF CipherState
<1>3. p \in CipherState /\ p.rek.enabled = c.rek.enabled
  BY <1>2, UpdateKeyType, UpdateKeyEnabled DEF Prepared
<1> HIDE DEF h, p
<1>4. p.rek \in RekeyerState
  BY <1>3 DEF CipherState
<1>5. SetFailFlag(p.rek).enabled = p.rek.enabled
  BY <1>4 DEF SetFailFlag, RekeyerState
<1> QED
  BY <1>3, <1>5 DEF AfterDecrypt, p

----------------------------------------------------------------------------
(* The link, from any window and with any delay.                           *)

\* ECC_key_gen returns a key pair.
LEMMA FreshSecretsType == FreshSecrets \subseteq Secret
BY DEF FreshSecrets

\* A payload that the encrypting thread sends keeps cipher, chan and alive typed.
LEMMA EncryptAndSendType ==
    ASSUME TypeOK, NEW g \in Gateway, NEW p \in Payload, EncryptAndSend(g, p)
    PROVE  /\ cipher' \in [Gateway -> CipherState]
           /\ chan' \in [Gateway -> Seq(DataPacket)]
           /\ alive' \in [Gateway -> SUBSET Thread]
<1> USE DEF TypeOK
<1>1. AfterEncrypt(cipher[g], FALSE) \in CipherState
  BY AfterEncryptType
<1>2. cipher' \in [Gateway -> CipherState]
  BY <1>1 DEF EncryptAndSend
<1>3. CASE UNCHANGED chan
  BY <1>2, <1>3 DEF EncryptAndSend, Hand
<1>4. CASE ~UNCHANGED chan
  <2>1. Encrypted(cipher[g], p, FALSE) \in DataPacket
    BY EncryptedType DEF DataPacket
  <2>2. Peer(g) \in Gateway /\ chan[Peer(g)] \in Seq(DataPacket)
    BY DEF Peer, Gateway
  <2>3. Append(chan[Peer(g)], Encrypted(cipher[g], p, FALSE)) \in Seq(DataPacket)
    BY <2>1, <2>2, AppendProperties
  <2>4. chan' \in [Gateway -> Seq(DataPacket)]
    BY <1>4, <2>2, <2>3 DEF EncryptAndSend, Hand
  <2> QED
    BY <1>2, <1>4, <2>4 DEF EncryptAndSend, Hand
<1> QED
  BY <1>3, <1>4

\* A packet that the decrypting thread opens keeps cipher, alive, delays typed.
LEMMA DecryptAndVerifyType ==
    ASSUME TypeOK, NEW g \in Gateway, NEW Body, NEW m \in PacketOf(Body), NEW fresh \in FreshSecrets,
           NEW agreed \in AgreementOutcomes, NEW replayed \in BOOLEAN,
           DecryptAndVerify(g, m, fresh, agreed, replayed)
    PROVE  /\ cipher' \in [Gateway -> CipherState]
           /\ alive' \in [Gateway -> SUBSET Thread]
           /\ delays' \in 0 .. MaxDelays
<1>1. fresh \in Secret /\ agreed \in BOOLEAN
  BY FreshSecretsType, LinkAssumption DEF LinkAssumption
<1>2. AfterDecrypt(cipher[g], m, fresh, agreed, replayed) \in CipherState
  <2>1. cipher[g] \in CipherState
    BY DEF TypeOK
  <2> QED
    BY <1>1, <2>1, AfterDecryptType
<1>3. cipher' \in [Gateway -> CipherState]
  BY <1>2 DEF TypeOK, DecryptAndVerify
<1>4. alive' \in [Gateway -> SUBSET Thread]
  BY DEF TypeOK, DecryptAndVerify
<1>5. delays' \in 0 .. MaxDelays
  BY LinkAssumption DEF TypeOK, DecryptAndVerify, LinkAssumption
<1> QED
  BY <1>3, <1>4, <1>5

LEMMA NewCiphersType ==
    \A rekeying \in SUBSET Gateway : NewCiphers(rekeying) \in [Gateway -> CipherState]
BY DEF NewCiphers, NewCipher, NewRekeyer, CipherState, RekeyerState, RekeyStates, Roles,
       Key, SessionKey

LEMMA EmptyChannelsType == [g \in Gateway |-> <<>>] \in [Gateway -> Seq(DataPacket)]
BY EmptySeq

\* Every step keeps every variable's type.
LEMMA TypeStep ==
    ASSUME TypeOK, [Next]_vars
    PROVE  TypeOK'
<1>1. ASSUME NEW p \in Payload, Request(p) PROVE TypeOK'
  BY <1>1, EncryptAndSendType DEF Request, TypeOK, Gateway
<1>2. ASSUME NEW p \in Payload, NEW whole \in BOOLEAN, Response(p, whole) PROVE TypeOK'
  <2>1. plc' \in Nat
    BY <1>2 DEF Response, TypeOK
  <2> QED
    BY <1>2, <2>1, EncryptAndSendType DEF Response, TypeOK, Gateway
<1>3. ASSUME NEW g \in Gateway, Decrypt(g) PROVE TypeOK'
  <2>1. chan[g] \in Seq(DataPacket) /\ chan[g] # <<>>
    BY <1>3 DEF Decrypt, TypeOK
  <2>2. Head(chan[g]) \in DataPacket /\ Tail(chan[g]) \in Seq(DataPacket)
    BY <2>1, HeadTailProperties
  <2>3. chan' \in [Gateway -> Seq(DataPacket)]
    BY <1>3, <2>2 DEF Decrypt, TypeOK
  <2>4. PICK fresh \in FreshSecrets, agreed \in AgreementOutcomes, replayed \in BOOLEAN :
          /\ DecryptAndVerify(g, Head(chan[g]), fresh, agreed, replayed)
          /\ IF Verdict(cipher[g], Head(chan[g]), fresh, agreed, replayed) = "accepted"
             THEN /\ delivered' = [delivered EXCEPT ![g] = Head(chan[g]).body]
                  /\ plc' = IF g = "server" THEN plc + 1 ELSE plc
             ELSE UNCHANGED <<delivered, plc>>
    BY <1>3 DEF Decrypt
  <2>5. Head(chan[g]).body \in Payload
    BY <2>2 DEF DataPacket, PacketOf
  <2>6. /\ cipher' \in [Gateway -> CipherState]
        /\ alive' \in [Gateway -> SUBSET Thread]
        /\ delays' \in 0 .. MaxDelays
    BY <2>2, <2>4, DecryptAndVerifyType DEF DataPacket
  <2>7. delivered' \in [Gateway -> Payload \cup {None}]
    BY <2>4, <2>5 DEF TypeOK
  <2>8. plc \in Nat /\ plc + 1 \in Nat
    BY DEF TypeOK
  <2>9. plc' \in Nat
    BY <2>4, <2>8
  <2> QED
    BY <1>3, <2>3, <2>6, <2>7, <2>9 DEF Decrypt, TypeOK
<1>4. ASSUME NEW g \in Gateway, DecryptNotice(g) PROVE TypeOK'
  <2>1. notice[g] \in ResetPacket
    BY <1>4 DEF DecryptNotice, TypeOK
  <2>2. PICK fresh \in FreshSecrets, agreed \in AgreementOutcomes, replayed \in BOOLEAN :
          /\ DecryptAndVerify(g, notice[g], fresh, agreed, replayed)
          /\ IF Verdict(cipher[g], notice[g], fresh, agreed, replayed) = "accepted"
             THEN /\ up' = [up EXCEPT ![g] = FALSE]
                  /\ plc' = Abandoned(g)
             ELSE UNCHANGED <<up, plc>>
    BY <1>4 DEF DecryptNotice
  <2>3. /\ cipher' \in [Gateway -> CipherState]
        /\ alive' \in [Gateway -> SUBSET Thread]
        /\ delays' \in 0 .. MaxDelays
    BY <2>1, <2>2, DecryptAndVerifyType DEF ResetPacket
  <2>4. up' \in [Gateway -> BOOLEAN]
    BY <2>2 DEF TypeOK
  <2>5. plc \in Nat /\ Abandoned(g) \in Nat
    BY DEF TypeOK, Abandoned
  <2>6. plc' \in Nat
    BY <2>2, <2>5
  <2>7. notice' \in [Gateway -> ResetPacket \cup {None}]
    BY <1>4 DEF DecryptNotice, TypeOK
  <2> QED
    BY <1>4, <2>3, <2>4, <2>6, <2>7 DEF DecryptNotice, TypeOK
<1>5. ASSUME NEW g \in Gateway, Disconnect(g) PROVE TypeOK'
  <2>1. up' \in [Gateway -> BOOLEAN] /\ plc' \in Nat
    BY <1>5 DEF Disconnect, Abandoned, TypeOK
  <2>2. AfterEncrypt(cipher[g], TRUE) \in CipherState
    BY AfterEncryptType DEF TypeOK
  <2>3. Encrypted(cipher[g], Reset, TRUE) \in ResetPacket
    <3>1. cipher[g] \in CipherState
      BY DEF TypeOK
    <3> QED
      BY <3>1, EncryptedType DEF ResetPacket
  <2>4. cipher' \in [Gateway -> CipherState] /\ notice' \in [Gateway -> ResetPacket \cup {None}]
    BY <1>5, <2>2, <2>3 DEF Disconnect, TypeOK
  <2> QED
    BY <1>5, <2>1, <2>4 DEF Disconnect, TypeOK
<1>6. ASSUME NEW g \in Gateway, End(g) PROVE TypeOK'
  BY <1>6 DEF End, Abandoned, TypeOK
<1>7. ASSUME NEW g \in Gateway, Expire(g) PROVE TypeOK'
  <2>1. cipher[g] \in CipherState /\ cipher[g].rek \in RekeyerState
    BY DEF TypeOK, CipherState
  <2>2. Due(cipher[g]) \in CipherState
    BY <2>1 DEF Due, CipherState, RekeyerState
  <2> QED
    BY <1>7, <2>2 DEF Expire, TypeOK
<1>8. CASE Reconnect
  <2>1. cipher' \in [Gateway -> CipherState]
    BY <1>8, NewCiphersType DEF Reconnect
  <2> QED
    BY <1>8, <2>1, EmptyChannelsType, LinkAssumption DEF Reconnect, TypeOK, LinkAssumption
<1>9. CASE UNCHANGED vars
  BY <1>9 DEF vars, TypeOK
<1> QED
  BY <1>1, <1>2, <1>3, <1>4, <1>5, <1>6, <1>7, <1>8, <1>9 DEF Next

LEMMA TypeInit ==
    ASSUME Init
    PROVE  TypeOK
<1>1. cipher \in [Gateway -> CipherState]
  BY NewCiphersType, LinkAssumption DEF Init, LinkAssumption
<1> QED
  BY <1>1, EmptyChannelsType, LinkAssumption DEF Init, TypeOK, LinkAssumption

\* The cipher objects stay well-formed whatever is sent, received, delayed or
\* abandoned, only packets travel, and the counters keep their bounds.
THEOREM TypeCorrect == Spec => []TypeOK
<1>1. Init => TypeOK
  BY TypeInit
<1>2. TypeOK /\ [Next]_vars => TypeOK'
  BY TypeStep
<1> QED
  BY <1>1, <1>2, PTL DEF Spec

----------------------------------------------------------------------------
(* One gateway rekeys and the other was started with --disable-rekeying.   *)

\* The cipher of a gateway whose peer never answers: it may have announced INIT,
\* but it has agreed on nothing and is on the key that the session started with.
Unanswered(c) ==
    /\ c.key = SessionKey
    /\ c.rek.new = None /\ c.rek.old \in {None, SessionKey}
    /\ ~c.rek.clear /\ ~c.rek.fail
    /\ c.rek.role \in {"idle", "initiator"}
    /\ c.rek.send \in {"NONE", "INIT"}
    /\ c.rek.send = "INIT" => c.rek.own # None

\* What a gateway that does not rekey sends, and what is sent to it.
Plain(m) == m.flag = "NONE" /\ m.secret = None /\ m.key = SessionKey

FirstKey(m) == m.key = SessionKey

\* Gateway d does not rekey.
AloneAgainst(d) ==
    /\ cipher[d] = NewCipher(FALSE)
    /\ Unanswered(cipher[Peer(d)])
    /\ chan[d] \in Seq({m \in DataPacket : FirstKey(m)})
    /\ chan[Peer(d)] \in Seq({m \in DataPacket : Plain(m)})
    /\ notice[d] # None => FirstKey(notice[d])
    /\ notice[Peer(d)] # None => Plain(notice[Peer(d)])
    /\ ThreadsSurvive

AloneInv ==
    /\ TypeOK
    /\ \A d \in Gateway : ~cipher[d].rek.enabled => AloneAgainst(d)

LEMMA IdleUpdate ==
    LET c == NewCipher(FALSE)
    IN  /\ c = [key |-> SessionKey, rek |-> c.rek] /\ ~c.rek.enabled /\ c.key = SessionKey
        /\ \A b \in BOOLEAN : UpdateKey(c, b) = c
<1> DEFINE c == NewCipher(FALSE)
<1>1. c = [key |-> SessionKey, rek |-> c.rek] /\ ~c.rek.enabled /\ c.key = SessionKey
  BY DEF NewCipher, NewRekeyer
<1> HIDE DEF c
<1>2. \A b \in BOOLEAN : UpdateKey(c, b) = c
  BY <1>1 DEF UpdateKey, NewKey, AfterNewKey
<1> QED
  BY <1>1, <1>2 DEF c

LEMMA IdleSends ==
    ASSUME NEW isReset \in BOOLEAN, NEW body
    PROVE  /\ AfterEncrypt(NewCipher(FALSE), isReset) = NewCipher(FALSE)
           /\ ~EncryptRaises(NewCipher(FALSE), isReset)
           /\ Plain(Encrypted(NewCipher(FALSE), body, isReset))
<1> DEFINE c == NewCipher(FALSE)
<1>1. /\ c = [key |-> SessionKey, rek |-> c.rek] /\ ~c.rek.enabled /\ c.key = SessionKey
      /\ UpdateKey(c, TRUE) = c
  BY IdleUpdate
<1> HIDE DEF c
<1>2. AfterEncrypt(c, isReset) = c
  BY <1>1 DEF AfterEncrypt, AfterSendState
<1>3. ~EncryptRaises(c, isReset) /\ Plain(Encrypted(c, body, isReset))
  BY <1>1, <1>2 DEF EncryptRaises, Encrypted, Plain, OwnPublicSecretRaises, SendState, OwnPublicSecret
<1> QED
  BY <1>2, <1>3 DEF c

LEMMA IdleReceives ==
    ASSUME NEW Body, NEW m \in PacketOf(Body), FirstKey(m), NEW fresh,
           NEW agreed \in BOOLEAN, NEW replayed \in BOOLEAN
    PROVE  /\ AfterDecrypt(NewCipher(FALSE), m, fresh, agreed, replayed) = NewCipher(FALSE)
           /\ Verdict(NewCipher(FALSE), m, fresh, agreed, replayed) = IF replayed THEN "rejected" ELSE "accepted"
<1> DEFINE c == NewCipher(FALSE)
<1>1. /\ c = [key |-> SessionKey, rek |-> c.rek] /\ ~c.rek.enabled /\ c.key = SessionKey
      /\ UpdateKey(c, FALSE) = c
  BY IdleUpdate
<1> HIDE DEF c
<1>2. /\ ~HandleRekeyRaises(c.rek, m.flag, m.secret)
      /\ HandleRekey(c.rek, c.key, m.flag, m.secret, fresh, agreed) = c.rek
  BY <1>1 DEF HandleRekeyRaises, HandleRekey
<1>3. Prepared(c, m, fresh, agreed) = c
  <2>1. [c EXCEPT !.rek = c.rek] = c
    BY <1>1
  <2> QED
    BY <1>1, <1>2, <2>1 DEF Prepared
<1>4. ~OpensWithOld(c, m) /\ m.key = c.key
  BY <1>1 DEF OpensWithOld, FirstKey
<1>5. AfterDecrypt(c, m, fresh, agreed, replayed) = c
  BY <1>3, <1>4 DEF AfterDecrypt
<1>6. Verdict(c, m, fresh, agreed, replayed) = IF replayed THEN "rejected" ELSE "accepted"
  BY <1>2, <1>3, <1>4 DEF Verdict
<1> QED
  BY <1>5, <1>6 DEF c

LEMMA UnansweredUpdate ==
    ASSUME NEW c \in CipherState, Unanswered(c), NEW beforeSend \in BOOLEAN
    PROVE  UpdateKey(c, beforeSend) = c
<1>1. c = [key |-> c.key, rek |-> c.rek]
  BY DEF CipherState
<1>2. NewKey(c.rek, beforeSend) = None /\ AfterNewKey(c.rek) = c.rek
  BY DEF NewKey, AfterNewKey, Unanswered, CipherState, RekeyerState
<1> QED
  BY <1>1, <1>2 DEF UpdateKey

LEMMA UnansweredSends ==
    ASSUME NEW c \in CipherState, Unanswered(c), NEW isReset \in BOOLEAN, NEW body
    PROVE  /\ Unanswered(AfterEncrypt(c, isReset))
           /\ ~EncryptRaises(c, isReset)
           /\ FirstKey(Encrypted(c, body, isReset))
<1> DEFINE r == AfterSendState(c.rek, isReset)
<1>1. AfterEncrypt(c, isReset) = [key |-> SessionKey, rek |-> r]
  BY UnansweredUpdate DEF AfterEncrypt, Unanswered
<1>2. Unanswered([key |-> SessionKey, rek |-> r])
  <2>1. c.rek \in RekeyerState
    BY DEF CipherState
  <2> QED
    BY <2>1 DEF Unanswered, AfterSendState, ResetAll, ResetSym, ResetMost, RekeyerState
<1> HIDE DEF r
<1>3. ~OwnPublicSecretRaises(r)
  BY <1>2 DEF OwnPublicSecretRaises, Unanswered, SHARED_SECRET_FLAGS
<1> QED
  BY <1>1, <1>2, <1>3 DEF EncryptRaises, Encrypted, FirstKey

LEMMA UnansweredReceives ==
    ASSUME NEW c \in CipherState, Unanswered(c), NEW Body, NEW m \in PacketOf(Body), Plain(m),
           NEW fresh \in Secret, NEW agreed \in BOOLEAN, NEW replayed \in BOOLEAN
    PROVE  /\ Unanswered(AfterDecrypt(c, m, fresh, agreed, replayed))
           /\ Verdict(c, m, fresh, agreed, replayed) = IF replayed THEN "rejected" ELSE "accepted"
<1> DEFINE r == HandleRekey(c.rek, c.key, m.flag, m.secret, fresh, agreed)
           h == [key |-> SessionKey, rek |-> r]
<1>1. c.rek \in RekeyerState /\ c.key = SessionKey /\ SessionKey \in Key
  BY DEF CipherState, Unanswered, Key
<1>2. m.flag = "NONE" /\ m.secret = None /\ m.key = SessionKey
  BY DEF Plain
<1>3. ~HandleRekeyRaises(c.rek, m.flag, m.secret)
  BY <1>2 DEF HandleRekeyRaises, SecretMatchesFlag, SHARED_SECRET_FLAGS
<1>4. r \in RekeyerState
  BY <1>1, <1>2, HandleRekeyType DEF RekeyStates
<1>5. Unanswered(h)
  <2>1. CASE ~c.rek.enabled
    <3>1. r = c.rek
      BY <2>1 DEF HandleRekey
    <3> QED
      BY <3>1, <1>1 DEF Unanswered
  <2>2. CASE c.rek.enabled
    <3> DEFINE s == Noted(c.rek, c.key, "NONE", None)
    <3>1. s = [c.rek EXCEPT !.old = SessionKey]
      BY <1>1 DEF Noted, SHARED_SECRET_FLAGS, RekeyerState
    <3>2. r = OnNone(s, fresh)
      BY <1>2, <2>2 DEF HandleRekey, SecretMatchesFlag, SHARED_SECRET_FLAGS
    <3>3. /\ s \in RekeyerState /\ s.new = None /\ s.old = SessionKey /\ ~s.clear /\ ~s.fail
          /\ s.role \in {"idle", "initiator"}
      BY <1>1, <3>1 DEF RekeyerState, Unanswered
    <3> HIDE DEF s, r
    <3>4. /\ OnNone(s, fresh).new = None /\ OnNone(s, fresh).old \in {None, SessionKey}
          /\ ~OnNone(s, fresh).clear /\ ~OnNone(s, fresh).fail
          /\ OnNone(s, fresh).role \in {"idle", "initiator"} /\ OnNone(s, fresh).send \in {"NONE", "INIT"}
      BY <3>3 DEF OnNone, ResetSym, RekeyerState
    <3>5. OnNone(s, fresh).send = "INIT" => OnNone(s, fresh).own = fresh
      BY <3>3 DEF OnNone, ResetSym, RekeyerState
    <3> QED
      BY <3>2, <3>4, <3>5, NoneAssumption DEF Unanswered
  <2> QED
    BY <1>1, <2>1, <2>2 DEF RekeyerState
<1>6. [c EXCEPT !.rek = r] = h
  BY <1>1 DEF CipherState
<1>7. Prepared(c, m, fresh, agreed) = UpdateKey([c EXCEPT !.rek = r], FALSE)
  BY <1>3 DEF Prepared
<1>8. h \in CipherState /\ h.key = SessionKey
  BY <1>1, <1>4 DEF CipherState
<1> HIDE DEF r, h
<1>9. Prepared(c, m, fresh, agreed) = h
  BY <1>5, <1>6, <1>7, <1>8, UnansweredUpdate
<1>10. m.key = h.key /\ ~OpensWithOld(h, m)
  BY <1>2, <1>8 DEF OpensWithOld
<1>11. AfterDecrypt(c, m, fresh, agreed, replayed) = h
  BY <1>9, <1>10 DEF AfterDecrypt
<1>12. Verdict(c, m, fresh, agreed, replayed) = IF replayed THEN "rejected" ELSE "accepted"
  BY <1>3, <1>9, <1>10 DEF Verdict
<1> QED
  BY <1>5, <1>11, <1>12

LEMMA EnabledStep ==
    ASSUME TypeOK, [Next]_vars, NEW d \in Gateway
    PROVE  cipher'[d].rek.enabled = cipher[d].rek.enabled
<1>1. \A g \in Gateway : cipher[g] \in CipherState
  BY DEF TypeOK
<1>2. ASSUME NEW g \in Gateway, NEW p, EncryptAndSend(g, p)
      PROVE  cipher'[d].rek.enabled = cipher[d].rek.enabled
  <2>1. AfterEncrypt(cipher[g], FALSE).rek.enabled = cipher[g].rek.enabled
    BY <1>1, AfterEncryptEnabled
  <2> QED
    BY <1>2, <2>1 DEF EncryptAndSend, TypeOK
<1>3. ASSUME NEW g \in Gateway, NEW Body, NEW m \in PacketOf(Body), NEW fresh \in FreshSecrets,
             NEW agreed \in AgreementOutcomes, NEW replayed \in BOOLEAN,
             DecryptAndVerify(g, m, fresh, agreed, replayed)
      PROVE  cipher'[d].rek.enabled = cipher[d].rek.enabled
  <2>1. fresh \in Secret /\ agreed \in BOOLEAN
    BY FreshSecretsType, LinkAssumption DEF LinkAssumption
  <2>2. AfterDecrypt(cipher[g], m, fresh, agreed, replayed).rek.enabled = cipher[g].rek.enabled
    BY <1>1, <2>1, AfterDecryptEnabled
  <2> QED
    BY <1>3, <2>2 DEF DecryptAndVerify, TypeOK
<1>4. CASE \E p \in Payload : Request(p) \/ \E whole \in BOOLEAN : Response(p, whole)
  BY <1>2, <1>4 DEF Request, Response, Gateway
<1>5. ASSUME NEW g \in Gateway, Decrypt(g) PROVE cipher'[d].rek.enabled = cipher[d].rek.enabled
  <2>1. Head(chan[g]) \in PacketOf(Payload)
    BY <1>5, HeadTailProperties DEF Decrypt, TypeOK, DataPacket
  <2> QED
    BY <1>3, <1>5, <2>1 DEF Decrypt
<1>6. ASSUME NEW g \in Gateway, DecryptNotice(g) PROVE cipher'[d].rek.enabled = cipher[d].rek.enabled
  <2>1. notice[g] \in PacketOf({Reset})
    BY <1>6 DEF DecryptNotice, TypeOK, ResetPacket
  <2> QED
    BY <1>3, <1>6, <2>1 DEF DecryptNotice
<1>7. ASSUME NEW g \in Gateway, Disconnect(g) PROVE cipher'[d].rek.enabled = cipher[d].rek.enabled
  <2>1. AfterEncrypt(cipher[g], TRUE).rek.enabled = cipher[g].rek.enabled
    BY <1>1, AfterEncryptEnabled
  <2> QED
    BY <1>7, <2>1 DEF Disconnect, TypeOK
<1>8. ASSUME NEW g \in Gateway, Expire(g) PROVE cipher'[d].rek.enabled = cipher[d].rek.enabled
  <2>1. Due(cipher[g]).rek.enabled = cipher[g].rek.enabled
    BY <1>1 DEF Due, CipherState, RekeyerState
  <2> QED
    BY <1>8, <2>1 DEF Expire, TypeOK
<1>9. CASE Reconnect
  <2>1. cipher'[d].rek.enabled = (d \in {g \in Gateway : cipher[g].rek.enabled})
    BY <1>9 DEF Reconnect, NewCiphers, NewCipher, NewRekeyer
  <2>2. cipher[d].rek.enabled \in BOOLEAN
    BY <1>1 DEF CipherState, RekeyerState
  <2> QED
    BY <2>1, <2>2
<1> QED
  BY <1>4, <1>5, <1>6, <1>7, <1>8, <1>9 DEF Next, End, vars

\* What a gateway sends against d, from either side.
LEMMA AloneSends ==
    ASSUME TypeOK, NEW d \in Gateway, AloneAgainst(d), NEW g \in Gateway, NEW isReset \in BOOLEAN, NEW body,
           NEW c, c = AfterEncrypt(cipher[g], isReset), NEW m, m = Encrypted(cipher[g], body, isReset)
    PROVE  /\ ~EncryptRaises(cipher[g], isReset)
           /\ g = d => c = NewCipher(FALSE) /\ Plain(m)
           /\ g = Peer(d) => Unanswered(c) /\ FirstKey(m)
<1>1. cipher[g] \in CipherState /\ (g = d \/ g = Peer(d))
  BY DEF TypeOK, Gateway, Peer
<1>2. CASE g = d
  <2>1. cipher[d] = NewCipher(FALSE) /\ g # Peer(d)
    BY <1>2 DEF AloneAgainst, Gateway, Peer
  <2> QED
    BY <1>2, <2>1, IdleSends
<1>3. CASE g = Peer(d)
  <2>1. Unanswered(cipher[g]) /\ g # d
    BY <1>3 DEF AloneAgainst, Gateway, Peer
  <2> QED
    BY <1>1, <1>3, <2>1, UnansweredSends
<1> QED
  BY <1>1, <1>2, <1>3

\* What a gateway receives against d, on either side.
LEMMA AloneReceives ==
    ASSUME TypeOK, NEW d \in Gateway, AloneAgainst(d), NEW g \in Gateway, NEW m \in DataPacket \cup ResetPacket,
           g = d => FirstKey(m), g = Peer(d) => Plain(m), NEW fresh \in FreshSecrets,
           NEW agreed \in AgreementOutcomes, NEW replayed \in BOOLEAN,
           DecryptAndVerify(g, m, fresh, agreed, replayed)
    PROVE  cipher'[d] = NewCipher(FALSE) /\ Unanswered(cipher'[Peer(d)]) /\ alive' = alive
<1> DEFINE c == AfterDecrypt(cipher[g], m, fresh, agreed, replayed)
<1>1. cipher[g] \in CipherState /\ fresh \in Secret /\ agreed \in BOOLEAN
  BY FreshSecretsType, LinkAssumption DEF TypeOK, LinkAssumption
<1>2. /\ d # Peer(d) /\ (g = d \/ g = Peer(d)) /\ Peer(d) \in Gateway
      /\ cipher[d] = NewCipher(FALSE) /\ Unanswered(cipher[Peer(d)])
  BY DEF Gateway, Peer, AloneAgainst
<1>3. PICK Body : m \in PacketOf(Body)
  BY DEF DataPacket, ResetPacket
<1>4. /\ Verdict(cipher[g], m, fresh, agreed, replayed) = IF replayed THEN "rejected" ELSE "accepted"
      /\ g = d => c = NewCipher(FALSE)
      /\ g = Peer(d) => Unanswered(c)
  <2>1. CASE g = d
    BY <1>1, <1>2, <1>3, <2>1, IdleReceives
  <2>2. CASE g = Peer(d)
    <3>1. Unanswered(cipher[g]) /\ Plain(m) /\ g # d
      BY <1>2, <2>2
    <3> QED
      BY <1>1, <1>3, <3>1, UnansweredReceives
  <2> QED
    BY <1>2, <2>1, <2>2
<1>5. cipher' = [cipher EXCEPT ![g] = c] /\ alive' = alive
  BY <1>4 DEF DecryptAndVerify
<1> HIDE DEF c
<1> QED
  BY <1>2, <1>4, <1>5 DEF TypeOK

\* It opens what is not too old.
LEMMA AloneOpens ==
    ASSUME TypeOK, NEW d \in Gateway, AloneAgainst(d), NEW g \in Gateway, NEW m \in DataPacket,
           g = d => FirstKey(m), g = Peer(d) => Plain(m)
    PROVE  Opens(g, m)
<1>1. /\ cipher[g] \in CipherState /\ (g = d \/ g = Peer(d))
      /\ cipher[d] = NewCipher(FALSE) /\ Unanswered(cipher[Peer(d)]) /\ m \in PacketOf(Payload)
  BY DEF Gateway, Peer, AloneAgainst, TypeOK, DataPacket
<1>2. ASSUME NEW fresh \in FreshSecrets, NEW agreed \in AgreementOutcomes
      PROVE  Verdict(cipher[g], m, fresh, agreed, FALSE) = "accepted"
  <2>1. fresh \in Secret /\ agreed \in BOOLEAN
    BY FreshSecretsType, LinkAssumption DEF LinkAssumption
  <2>2. CASE g = d
    BY <1>1, <2>1, <2>2, IdleReceives
  <2>3. CASE g = Peer(d)
    <3>1. Unanswered(cipher[g]) /\ Plain(m)
      BY <1>1, <2>3
    <3>2. \A replayed \in BOOLEAN :
            Verdict(cipher[g], m, fresh, agreed, replayed) = IF replayed THEN "rejected" ELSE "accepted"
      BY <1>1, <2>1, <3>1, UnansweredReceives
    <3> QED
      BY <3>2
  <2> QED
    BY <1>1, <2>2, <2>3
<1> QED
  BY <1>2 DEF Opens

\* No thread dies of a step in which only a send to a peer that has gone may raise.
LEMMA ThreadsStep ==
    ASSUME TypeOK, ThreadsSurvive, NEW g \in Gateway,
           \/ alive' = alive
           \/ ~up[Peer(g)] /\ alive' = [alive EXCEPT ![g] = @ \ {"enc"}],
           \A h \in Gateway : up'[h] => up[h]
    PROVE  ThreadsSurvive'
BY DEF TypeOK, ThreadsSurvive, Peer, Gateway

LEMMA AloneStep ==
    ASSUME TypeOK, NEW d \in Gateway, AloneAgainst(d), [Next]_vars
    PROVE  AloneAgainst(d)'
<1>1. /\ d # Peer(d) /\ Peer(d) \in Gateway /\ \A g \in Gateway : g = d \/ g = Peer(d)
      /\ \A g \in Gateway : cipher[g] \in CipherState /\ chan[g] \in Seq(DataPacket)
      /\ Peer(Peer(d)) = d
  BY DEF Gateway, Peer, TypeOK
<1>2. ASSUME NEW g \in Gateway, NEW p \in Payload, EncryptAndSend(g, p), UNCHANGED <<notice, up>>
      PROVE  AloneAgainst(d)'
  <2> DEFINE c == AfterEncrypt(cipher[g], FALSE)
             m == Encrypted(cipher[g], p, FALSE)
  <2>1. /\ ~EncryptRaises(cipher[g], FALSE)
        /\ g = d => c = NewCipher(FALSE) /\ Plain(m)
        /\ g = Peer(d) => Unanswered(c) /\ FirstKey(m)
    BY AloneSends
  <2>2. /\ cipher' = [cipher EXCEPT ![g] = c]
        /\ \/ alive' = alive
           \/ ~up[Peer(g)] /\ alive' = [alive EXCEPT ![g] = @ \ {"enc"}]
        /\ chan' = [chan EXCEPT ![Peer(g)] = Append(chan[Peer(g)], m)] \/ chan' = chan
    BY <1>2, <2>1 DEF EncryptAndSend, Hand
  <2>0. ThreadsSurvive'
    BY <1>2, <2>2, ThreadsStep DEF AloneAgainst
  <2> HIDE DEF c, m
  <2>3. cipher'[d] = NewCipher(FALSE) /\ Unanswered(cipher'[Peer(d)])
    BY <1>1, <2>1, <2>2 DEF AloneAgainst, TypeOK
  <2>8. CASE chan' = chan
    BY <1>2, <2>0, <2>3, <2>8 DEF AloneAgainst
  <2>9. SUFFICES ASSUME chan' = [chan EXCEPT ![Peer(g)] = Append(chan[Peer(g)], m)]
                 PROVE  AloneAgainst(d)'
    BY <2>2, <2>8
  <2>4. /\ chan'[Peer(g)] = Append(chan[Peer(g)], m) /\ chan'[g] = chan[g]
        /\ chan[Peer(g)] \in Seq(DataPacket)
    BY <1>1, <2>9 DEF TypeOK
  <2>5. m \in DataPacket
    <3>1. p \in Payload /\ cipher[g] \in CipherState
      BY <1>1, <1>2
    <3> QED
      BY <3>1, EncryptedType DEF DataPacket, m
  <2>6. chan'[d] \in Seq({x \in DataPacket : FirstKey(x)})
    <3>1. CASE g = d
      BY <1>1, <2>4, <3>1 DEF AloneAgainst
    <3>2. CASE g = Peer(d)
      <4>1. chan[d] \in Seq({x \in DataPacket : FirstKey(x)}) /\ m \in {x \in DataPacket : FirstKey(x)}
        BY <2>1, <2>5, <3>2 DEF AloneAgainst
      <4>2. chan'[d] = Append(chan[d], m)
        BY <1>1, <2>4, <3>2
      <4> QED
        BY <4>1, <4>2
    <3> QED
      BY <1>1, <3>1, <3>2
  <2>7. chan'[Peer(d)] \in Seq({x \in DataPacket : Plain(x)})
    <3>1. CASE g = Peer(d)
      BY <1>1, <2>4, <3>1 DEF AloneAgainst
    <3>2. CASE g = d
      <4>1. chan[Peer(d)] \in Seq({x \in DataPacket : Plain(x)}) /\ m \in {x \in DataPacket : Plain(x)}
        BY <2>1, <2>5, <3>2 DEF AloneAgainst
      <4>2. chan'[Peer(d)] = Append(chan[Peer(d)], m)
        BY <1>1, <2>4, <3>2
      <4> QED
        BY <4>1, <4>2
    <3> QED
      BY <1>1, <3>1, <3>2
  <2> QED
    BY <1>2, <2>0, <2>3, <2>6, <2>7 DEF AloneAgainst
<1>3. CASE \E p \in Payload : Request(p) \/ \E whole \in BOOLEAN : Response(p, whole)
  BY <1>2, <1>3 DEF Request, Response, Gateway
<1>4. ASSUME NEW g \in Gateway, Decrypt(g) PROVE AloneAgainst(d)'
  <2> DEFINE m == Head(chan[g])
  <2>1. /\ chan[g] # <<>> /\ chan[g] \in Seq(DataPacket) /\ chan' = [chan EXCEPT ![g] = Tail(chan[g])]
        /\ UNCHANGED <<notice, up>>
    BY <1>1, <1>4 DEF Decrypt
  <2>2. m \in DataPacket /\ (g = d => FirstKey(m)) /\ (g = Peer(d) => Plain(m))
    <3>1. g = d => Head(chan[g]) \in {x \in DataPacket : FirstKey(x)}
      BY <2>1, HeadTailProperties DEF AloneAgainst
    <3>2. g = Peer(d) => Head(chan[g]) \in {x \in DataPacket : Plain(x)}
      BY <2>1, HeadTailProperties DEF AloneAgainst
    <3> QED
      BY <1>1, <3>1, <3>2
  <2> HIDE DEF m
  <2>3. PICK fresh \in FreshSecrets, agreed \in AgreementOutcomes, replayed \in BOOLEAN :
            DecryptAndVerify(g, m, fresh, agreed, replayed)
    BY <1>4 DEF Decrypt, m
  <2>4. m \in DataPacket \cup ResetPacket
    BY <2>2
  <2>5. cipher'[d] = NewCipher(FALSE) /\ Unanswered(cipher'[Peer(d)]) /\ alive' = alive
    BY <2>2, <2>3, <2>4, AloneReceives
  <2>6. chan'[g] = Tail(chan[g]) /\ \A h \in Gateway : h # g => chan'[h] = chan[h]
    BY <2>1 DEF TypeOK
  <2>7. chan'[d] \in Seq({x \in DataPacket : FirstKey(x)})
    BY <2>1, <2>6, HeadTailProperties DEF AloneAgainst
  <2>8. chan'[Peer(d)] \in Seq({x \in DataPacket : Plain(x)})
    BY <1>1, <2>1, <2>6, HeadTailProperties DEF AloneAgainst
  <2>9. ThreadsSurvive'
    BY <2>1, <2>5, ThreadsStep DEF AloneAgainst
  <2> QED
    BY <2>1, <2>5, <2>7, <2>8, <2>9 DEF AloneAgainst
<1>5. ASSUME NEW g \in Gateway, DecryptNotice(g) PROVE AloneAgainst(d)'
  <2>1. notice[g] # None /\ notice[g] \in DataPacket \cup ResetPacket /\ notice' = [notice EXCEPT ![g] = None]
    BY <1>5 DEF DecryptNotice, TypeOK
  <2>2. (g = d => FirstKey(notice[g])) /\ (g = Peer(d) => Plain(notice[g]))
    BY <2>1 DEF AloneAgainst
  <2>3. PICK fresh \in FreshSecrets, agreed \in AgreementOutcomes, replayed \in BOOLEAN :
            DecryptAndVerify(g, notice[g], fresh, agreed, replayed)
    BY <1>5 DEF DecryptNotice
  <2>4. cipher'[d] = NewCipher(FALSE) /\ Unanswered(cipher'[Peer(d)]) /\ alive' = alive
    BY <2>1, <2>2, <2>3, AloneReceives
  <2>5. \A h \in Gateway : notice'[h] = notice[h] \/ notice'[h] = None
    BY <2>1 DEF TypeOK
  <2>6. \A h \in Gateway : up'[h] => up[h]
    BY <1>5 DEF DecryptNotice, TypeOK
  <2>7. ThreadsSurvive'
    BY <2>4, <2>6, ThreadsStep DEF AloneAgainst
  <2> QED
    BY <1>1, <1>5, <2>4, <2>5, <2>7 DEF AloneAgainst, DecryptNotice
<1>6. ASSUME NEW g \in Gateway, Disconnect(g) PROVE AloneAgainst(d)'
  <2> DEFINE c == AfterEncrypt(cipher[g], TRUE)
             m == Encrypted(cipher[g], Reset, TRUE)
  <2>1. /\ g = d => c = NewCipher(FALSE) /\ Plain(m)
        /\ g = Peer(d) => Unanswered(c) /\ FirstKey(m)
    BY AloneSends
  <2>2. /\ UNCHANGED <<chan, alive>>
        /\ \/ UNCHANGED <<cipher, notice>>
           \/ cipher' = [cipher EXCEPT ![g] = c] /\ notice' = [notice EXCEPT ![Peer(g)] = m]
    BY <1>6 DEF Disconnect
  <2> HIDE DEF c, m
  <2>3. cipher'[d] = NewCipher(FALSE) /\ Unanswered(cipher'[Peer(d)])
    BY <1>1, <2>1, <2>2 DEF AloneAgainst, TypeOK
  <2>4. /\ notice'[d] # None => FirstKey(notice'[d])
        /\ notice'[Peer(d)] # None => Plain(notice'[Peer(d)])
    <3>1. CASE UNCHANGED notice
      BY <3>1 DEF AloneAgainst
    <3>2. CASE notice' = [notice EXCEPT ![Peer(g)] = m]
      <4>1. notice'[Peer(g)] = m /\ notice'[g] = notice[g]
        BY <1>1, <3>2 DEF TypeOK, Gateway, Peer
      <4> QED
        BY <1>1, <2>1, <4>1 DEF AloneAgainst
    <3> QED
      BY <2>2, <3>1, <3>2
  <2>5. \A h \in Gateway : up'[h] => up[h]
    BY <1>6 DEF Disconnect, TypeOK
  <2>6. ThreadsSurvive'
    BY <2>2, <2>5, ThreadsStep DEF AloneAgainst
  <2> QED
    BY <2>2, <2>3, <2>4, <2>6 DEF AloneAgainst
<1>7. ASSUME NEW g \in Gateway, Expire(g) PROVE AloneAgainst(d)'
  <2>1. g = Peer(d)
    BY <1>1, <1>7, IdleUpdate DEF Expire, AloneAgainst
  <2>2. Unanswered(Due(cipher[g]))
    BY <1>1, <2>1 DEF Due, Unanswered, CipherState, RekeyerState, AloneAgainst
  <2>3. ThreadsSurvive'
    BY <1>7, ThreadsStep DEF Expire, AloneAgainst
  <2> QED
    BY <1>1, <1>7, <2>1, <2>2, <2>3 DEF Expire, AloneAgainst, TypeOK
<1>8. CASE Reconnect
  <2>1. ~cipher[d].rek.enabled
    BY IdleUpdate DEF AloneAgainst
  <2>2. cipher'[d] = NewCipher(FALSE) /\ \E b \in BOOLEAN : cipher'[Peer(d)] = NewCipher(b)
    <3> DEFINE rekeying == {g \in Gateway : cipher[g].rek.enabled}
    <3>1. \A g \in Gateway : cipher'[g] = NewCipher(g \in rekeying)
      BY <1>8 DEF Reconnect, NewCiphers
    <3>2. (d \in rekeying) = FALSE /\ (Peer(d) \in rekeying) \in BOOLEAN
      BY <2>1
    <3> HIDE DEF rekeying
    <3>3. cipher'[d] = NewCipher(FALSE)
      BY <3>1, <3>2
    <3>4. cipher'[Peer(d)] = NewCipher(Peer(d) \in rekeying)
      BY <1>1, <3>1
    <3> QED
      BY <3>2, <3>3, <3>4
  <2>3. \A b \in BOOLEAN : Unanswered(NewCipher(b))
    BY DEF Unanswered, NewCipher, NewRekeyer
  <2>4. \A g \in Gateway : chan'[g] = <<>> /\ notice'[g] = None /\ alive'[g] = Thread
    BY <1>8 DEF Reconnect
  <2>5. ThreadsSurvive'
    BY <2>4 DEF ThreadsSurvive, Thread
  <2> QED
    BY <1>1, <2>2, <2>3, <2>4, <2>5, EmptySeq DEF AloneAgainst
<1>9. ASSUME NEW g \in Gateway, End(g) PROVE AloneAgainst(d)'
  <2>1. \A h \in Gateway : up'[h] => up[h]
    BY <1>9 DEF End, TypeOK
  <2>2. ThreadsSurvive'
    BY <1>9, <2>1, ThreadsStep DEF End, AloneAgainst
  <2> QED
    BY <1>9, <2>2 DEF End, AloneAgainst
<1>10. CASE UNCHANGED vars
  BY <1>10 DEF vars, AloneAgainst, ThreadsSurvive
<1> QED
  BY <1>3, <1>4, <1>5, <1>6, <1>7, <1>8, <1>9, <1>10 DEF Next

\* A gateway that rekeys against one that does not is never answered, and loses
\* neither a packet nor, while it has a peer, a thread: with any window, any splitting of the responses
\* and any number of packets that arrive too late.
THEOREM RekeyingAlone == Spec => []RekeyingAloneHarmless
<1>1. Init => AloneInv
  <2> SUFFICES ASSUME Init PROVE AloneInv
    OBVIOUS
  <2>1. PICK rekeying \in Rekeying : cipher = NewCiphers(rekeying)
    BY DEF Init
  <2>2. /\ \A b \in BOOLEAN : Unanswered(NewCipher(b))
        /\ NewCipher(TRUE).rek.enabled
    BY DEF Unanswered, NewCipher, NewRekeyer
  <2>3. \A g \in Gateway : Peer(g) \in Gateway /\ cipher[g] = NewCipher(g \in rekeying)
    BY <2>1 DEF NewCiphers, Gateway, Peer
  <2>4. ASSUME NEW d \in Gateway, ~cipher[d].rek.enabled PROVE AloneAgainst(d)
    <3>1. CASE d \in rekeying
      <4>1. (d \in rekeying) = TRUE
        BY <3>1
      <4>2. cipher[d] = NewCipher(TRUE)
        BY <2>3, <4>1
      <4> QED
        BY <2>2, <2>4, <4>2
    <3>2. CASE d \notin rekeying
      <4>1. (d \in rekeying) = FALSE /\ (Peer(d) \in rekeying) \in BOOLEAN
        BY <3>2
      <4>2. cipher[d] = NewCipher(FALSE) /\ cipher[Peer(d)] = NewCipher(Peer(d) \in rekeying)
        BY <2>3, <4>1
      <4>3. Unanswered(cipher[Peer(d)])
        BY <2>2, <4>1, <4>2
      <4>4. \A g \in Gateway : chan[g] = <<>> /\ notice[g] = None /\ alive[g] = Thread
        BY DEF Init
      <4>5. ThreadsSurvive
        BY <4>4 DEF ThreadsSurvive, Thread
      <4> QED
        BY <2>3, <4>2, <4>3, <4>4, <4>5, EmptySeq DEF AloneAgainst
    <3> QED
      BY <3>1, <3>2
  <2> QED
    BY <2>4, TypeInit DEF AloneInv
<1>2. AloneInv /\ [Next]_vars => AloneInv'
  BY TypeStep, EnabledStep, AloneStep DEF AloneInv
<1>3. AloneInv => RekeyingAloneHarmless
  <2> SUFFICES ASSUME AloneInv, NEW d \in Gateway, ~cipher[d].rek.enabled
               PROVE  DataReadable /\ ThreadsSurvive
    BY DEF RekeyingAloneHarmless
  <2>1. TypeOK /\ AloneAgainst(d) /\ (\A g \in Gateway : g = d \/ g = Peer(d))
    BY DEF AloneInv, Gateway, Peer
  <2>2. ASSUME NEW g \in Gateway, chan[g] # <<>> PROVE Opens(g, Head(chan[g]))
    <3> DEFINE m == Head(chan[g])
    <3>1. chan[d] # <<>> => Head(chan[d]) \in {x \in DataPacket : FirstKey(x)}
      BY <2>1, HeadTailProperties DEF AloneAgainst
    <3>2. chan[Peer(d)] # <<>> => Head(chan[Peer(d)]) \in {x \in DataPacket : Plain(x)}
      BY <2>1, HeadTailProperties DEF AloneAgainst
    <3>3. m \in DataPacket /\ (g = d => FirstKey(m)) /\ (g = Peer(d) => Plain(m))
      BY <2>1, <2>2, <3>1, <3>2
    <3> HIDE DEF m
    <3> QED
      BY <2>1, <3>3, AloneOpens DEF m
  <2> QED
    BY <2>1, <2>2 DEF DataReadable, AloneAgainst
<1> QED
  BY <1>1, <1>2, <1>3, PTL DEF Spec
=============================================================================
