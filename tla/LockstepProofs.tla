--------------------------- MODULE LockstepProofs ---------------------------
(***************************************************************************)
(* The invariant of module Lockstep is inductive, and the safety of the    *)
(* link, one transaction at a time, follows from it.                       *)
(***************************************************************************)
EXTENDS Lockstep, SecureLinkProofs

\* Without a failure to report, encrypt_and_digest leaves the rekeyer as it is
\* and moves to the new key exactly when the initiator is clear to switch.
LEMMA EncryptEffect ==
    ASSUME NEW c \in CipherState, ~c.rek.fail
    PROVE  /\ AfterEncrypt(c, FALSE).rek = c.rek
           /\ AfterEncrypt(c, FALSE).key =
                 IF c.rek.enabled /\ c.rek.clear /\ c.rek.role = "initiator" /\ c.rek.new # None
                 THEN c.rek.new ELSE c.key
<1>1. c.rek \in RekeyerState
  BY DEF CipherState
<1>2. NewKey(c.rek, TRUE) =
        IF c.rek.enabled /\ c.rek.clear /\ c.rek.role = "initiator" THEN c.rek.new ELSE None
  BY <1>1 DEF NewKey, RekeyerState
<1>3. /\ UpdateKey(c, TRUE).key = IF NewKey(c.rek, TRUE) # None THEN NewKey(c.rek, TRUE) ELSE c.key
      /\ UpdateKey(c, TRUE).rek = c.rek
  BY DEF UpdateKey, AfterNewKey
<1>4. /\ AfterEncrypt(c, FALSE).key = UpdateKey(c, TRUE).key
      /\ AfterEncrypt(c, FALSE).rek = c.rek
  BY <1>3 DEF AfterEncrypt, AfterSendState
<1> QED
  BY <1>2, <1>3, <1>4

\* encrypt_and_digest of a sound cipher does not raise and leaves it sound.
LEMMA EncryptSound ==
    ASSUME NEW c \in CipherState, Sound(c)
    PROVE  ~EncryptRaises(c, FALSE) /\ Sound(AfterEncrypt(c, FALSE))
BY EncryptEffect DEF Sound, EncryptRaises

\* The reset message carries no exchange, and abandons the one under way.
LEMMA ResetSound ==
    ASSUME NEW c \in CipherState, Sound(c)
    PROVE  /\ Sound(AfterEncrypt(c, TRUE))
           /\ Encrypted(c, Reset, TRUE).flag = "NONE"
           /\ Encrypted(c, Reset, TRUE).secret = None
<1>1. c.rek \in RekeyerState /\ ~c.rek.fail
  BY DEF CipherState, Sound
<1>2. UpdateKey(c, TRUE).rek = c.rek
  BY <1>1 DEF UpdateKey, AfterNewKey
<1>3. AfterEncrypt(c, TRUE).rek = AfterSendState(c.rek, TRUE)
  BY <1>2 DEF AfterEncrypt, UpdateKey
<1>4. CASE c.rek.enabled
  <2> DEFINE s == [c.rek EXCEPT !.send = "NONE"]
  <2>1. s \in RekeyerState /\ s.send = "NONE"
    BY <1>1 DEF RekeyerState, RekeyStates
  <2>2. AfterSendState(c.rek, TRUE) = ResetAll(s)
    BY <1>4 DEF AfterSendState
  <2> HIDE DEF s
  <2>3. ResetAll(s).send = "NONE" /\ ~ResetAll(s).fail
    BY <2>1 DEF ResetAll, ResetMost, ResetSym, RekeyerState
  <2> QED
    BY <1>3, <2>2, <2>3
    DEF Sound, OwnPublicSecretRaises, Encrypted, SendState, OwnPublicSecret, SHARED_SECRET_FLAGS
<1>5. CASE ~c.rek.enabled
  <2>1. AfterSendState(c.rek, TRUE) = c.rek
    BY <1>5 DEF AfterSendState
  <2> QED
    BY <1>3, <1>5, <2>1
    DEF Sound, OwnPublicSecretRaises, Encrypted, SendState, OwnPublicSecret
<1> QED
  BY <1>4, <1>5

----------------------------------------------------------------------------
(* Receiving                                                               *)

\* What decrypt_and_verify makes of a flag that handle_rekey accepts without a
\* failure: it moves to the new key exactly when a gateway that is not the
\* initiator is clear to switch.
LEMMA PreparedEffect ==
    ASSUME NEW c \in CipherState, NEW Body, NEW m \in PacketOf(Body),
           NEW fresh \in Secret, NEW agreed \in BOOLEAN,
           ~HandleRekeyRaises(c.rek, m.flag, m.secret),
           NEW h \in RekeyerState, ~h.fail,
           h = HandleRekey(c.rek, c.key, m.flag, m.secret, fresh, agreed)
    PROVE  /\ Prepared(c, m, fresh, agreed).rek = h
           /\ Prepared(c, m, fresh, agreed).key =
                 IF h.enabled /\ h.clear /\ h.role # "initiator" /\ h.new # None
                 THEN h.new ELSE c.key
<1> DEFINE d == [c EXCEPT !.rek = h]
<1>1. d.rek = h /\ d.key = c.key
  BY DEF CipherState
<1>2. Prepared(c, m, fresh, agreed) = UpdateKey(d, FALSE)
  BY DEF Prepared
<1> HIDE DEF d
<1>3. NewKey(h, FALSE) =
        IF h.enabled /\ h.clear /\ h.role # "initiator" THEN h.new ELSE None
  BY DEF NewKey, RekeyerState
<1>4. /\ UpdateKey(d, FALSE).key = IF NewKey(h, FALSE) # None THEN NewKey(h, FALSE) ELSE c.key
      /\ UpdateKey(d, FALSE).rek = h
  BY <1>1 DEF UpdateKey, AfterNewKey
<1> QED
  BY <1>2, <1>3, <1>4

\* A packet that opens under the key it finds is accepted at the first attempt.
LEMMA FirstAttempt ==
    ASSUME NEW c, NEW m, NEW fresh, NEW agreed,
           ~HandleRekeyRaises(c.rek, m.flag, m.secret),
           m.key = Prepared(c, m, fresh, agreed).key
    PROVE  /\ Verdict(c, m, fresh, agreed, FALSE) = "accepted"
           /\ AfterDecrypt(c, m, fresh, agreed, FALSE) = Prepared(c, m, fresh, agreed)
BY DEF Verdict, AfterDecrypt, OpensWithOld

\* The rekeyer as handle_rekey finds it, once the key and the secret are noted.
LEMMA NotedFields ==
    ASSUME NEW r \in RekeyerState, NEW k, NEW flag, NEW secret
    PROVE  LET s == Noted(r, k, flag, secret)
           IN  /\ s.enabled = r.enabled /\ s.send = r.send /\ s.own = r.own /\ s.old = k
               /\ s.new = r.new /\ s.role = r.role /\ s.fail = r.fail /\ s.clear = r.clear
               /\ s.due = r.due
               /\ flag \in SHARED_SECRET_FLAGS /\ secret # None => s.peer = secret
BY DEF Noted, RekeyerState

\* An initiator that starts or restarts an exchange, or a gateway left at rest.
LEMMA NoneFields ==
    ASSUME NEW r \in RekeyerState, NEW fresh \in Secret
    PROVE  LET h == OnNone(r, fresh)
           IN  /\ h \in RekeyerState
               /\ h.enabled = r.enabled /\ h.fail = r.fail /\ h.due = r.due
               /\ r.due => /\ h.send = "INIT" /\ h.role = "initiator" /\ h.own = fresh
                           /\ h.new = r.new /\ h.clear = r.clear /\ h.old = r.old
               /\ ~r.due => /\ h.send = "NONE" /\ h.role = r.role /\ ~h.clear
                            /\ h.new = None /\ h.old = None
BY DEF OnNone, ResetSym, RekeyerState, RekeyStates, Roles

\* What is left after an exchange was abandoned.
LEMMA AbandonedFields ==
    ASSUME NEW r \in RekeyerState, NEW send \in RekeyStates
    PROVE  LET h == ResetAll([r EXCEPT !.send = send])
           IN  /\ h \in RekeyerState
               /\ h.send = send /\ h.role = "idle" /\ ~h.clear /\ ~h.fail
               /\ h.enabled = r.enabled /\ h.own = None /\ h.new = None /\ h.old = None
BY DEF ResetAll, ResetMost, ResetSym, RekeyerState, Roles

\* The replier that answers an INIT.
LEMMA InitFields ==
    ASSUME NEW r \in RekeyerState, NEW fresh \in Secret, NEW agreed \in BOOLEAN,
           r.peer \in Secret, ~r.fail
    PROVE  LET h == OnInit(r, fresh, agreed)
           IN  /\ h \in RekeyerState /\ ~h.fail /\ h.enabled = r.enabled
               /\ agreed => /\ h.send = "REPLY" /\ h.role = "replier" /\ h.own = fresh
                            /\ h.new = {fresh, r.peer} /\ h.clear = r.clear
               /\ ~agreed => h.send = "FAIL" /\ h.role = "idle" /\ ~h.clear
<1> DEFINE t == [r EXCEPT !.role = "replier", !.own = fresh]
<1>1. /\ t \in RekeyerState /\ t.own = fresh /\ t.peer = r.peer /\ t.role = "replier"
      /\ t.fail = r.fail /\ t.enabled = r.enabled /\ t.clear = r.clear
  BY DEF RekeyerState, Roles
<1>2. OnInit(r, fresh, agreed) =
        IF CanGenerate(t, agreed)
        THEN [t EXCEPT !.send = "REPLY", !.new = Generated(t)]
        ELSE ResetAll([t EXCEPT !.send = "FAIL"])
  BY DEF OnInit
<1> HIDE DEF t
<1>3. CanGenerate(t, agreed) <=> agreed
  BY <1>1, NoneAssumption DEF CanGenerate, NoneAssumption
<1>4. Generated(t) = {fresh, r.peer} /\ Generated(t) \in Key
  BY <1>1, AgreedKeyType DEF Generated, ECDHE_key_agreement
<1>5. CASE agreed
  <2>1. OnInit(r, fresh, agreed) = [t EXCEPT !.send = "REPLY", !.new = Generated(t)]
    BY <1>2, <1>3, <1>5
  <2> QED
    BY <1>1, <1>4, <1>5, <2>1 DEF RekeyerState, RekeyStates
<1>6. CASE ~agreed
  <2>1. OnInit(r, fresh, agreed) = ResetAll([t EXCEPT !.send = "FAIL"])
    BY <1>2, <1>3, <1>6
  <2>2. "FAIL" \in RekeyStates
    BY DEF RekeyStates
  <2> QED
    BY <1>1, <1>6, <2>1, <2>2, AbandonedFields
<1> QED
  BY <1>5, <1>6

\* The initiator on a REPLY.
LEMMA ReplyFields ==
    ASSUME NEW r \in RekeyerState, NEW agreed \in BOOLEAN,
           r.own # None, r.peer \in Secret, ~r.fail
    PROVE  LET h == OnReply(r, agreed)
           IN  /\ h \in RekeyerState /\ h.enabled = r.enabled /\ h.role = r.role
               /\ h.own = r.own /\ h.due = r.due /\ h.old = r.old
               /\ agreed => /\ h.send = "SWITCH" /\ h.clear /\ h.new = {r.own, r.peer}
                            /\ h.new \in Key /\ ~h.fail
               /\ ~agreed => h.send = "FAIL" /\ h.fail
<1>1. r.own \in Secret
  BY DEF RekeyerState
<1>2. CanGenerate(r, agreed) <=> agreed
  BY <1>1, NoneAssumption DEF CanGenerate, NoneAssumption
<1>3. Generated(r) = {r.own, r.peer} /\ Generated(r) \in Key
  BY <1>1, AgreedKeyType DEF Generated, ECDHE_key_agreement
<1> QED
  BY <1>2, <1>3 DEF OnReply, RekeyerState, RekeyStates

\* The replier on a SWITCH, and the initiator on its acknowledgement.
LEMMA SwitchFields ==
    ASSUME NEW r \in RekeyerState, r.new # None
    PROVE  LET h == OnSwitch(r)
           IN  /\ h \in RekeyerState /\ h.enabled = r.enabled
               /\ h.send = "SWITCH_ACK" /\ h.role = "idle" /\ h.clear /\ ~h.fail
               /\ h.new = r.new
BY DEF OnSwitch, ResetMost, RekeyerState, RekeyStates, Roles

LEMMA SwitchAckFields ==
    ASSUME NEW r \in RekeyerState
    PROVE  LET h == OnSwitchAck(r)
           IN  /\ h \in RekeyerState /\ h.enabled = r.enabled
               /\ h.send = "NONE" /\ h.role = "idle" /\ ~h.clear /\ ~h.fail
BY DEF OnSwitchAck, ResetAll, ResetMost, ResetSym, RekeyerState, RekeyStates, Roles

----------------------------------------------------------------------------
(* One packet, in each phase of the exchange.  In all of them b opens what *)
(* a has sent, and then has the turn itself.                               *)

OpensInTurn(a, b, m, fresh, agreed) ==
    /\ ~HandleRekeyRaises(b.rek, m.flag, m.secret)
    /\ m.key = Prepared(b, m, fresh, agreed).key
    /\ Turn(Prepared(b, m, fresh, agreed), a)

LEMMA ReceiveNone ==
    ASSUME NEW a \in CipherState, NEW b \in CipherState, NEW Body, NEW m \in PacketOf(Body),
           NEW fresh \in Secret, NEW agreed \in BOOLEAN, Sent(a, b, m), a.rek.send = "NONE"
    PROVE  OpensInTurn(a, b, m, fresh, agreed)
<1> DEFINE h == HandleRekey(b.rek, b.key, m.flag, m.secret, fresh, agreed)
           s == Noted(b.rek, b.key, m.flag, m.secret)
<1>1. /\ m.flag = "NONE" /\ m.secret = None /\ m.key = b.key /\ a.key = b.key
      /\ ~a.rek.fail /\ ~b.rek.fail /\ a.rek.role = "idle" /\ ~a.rek.clear
      /\ Settled(b)
      /\ \/ b.rek.role = "idle" /\ b.rek.send = "NONE" /\ ~b.rek.clear
         \/ b.rek.role = "idle" /\ b.rek.send \in {"FAIL", "SWITCH_ACK"} /\ b.rek.enabled
         \/ Initiating(b) /\ b.rek.send = "INIT" /\ ~a.rek.enabled
  BY DEF Sent, InStep, SendState, OwnPublicSecret, SHARED_SECRET_FLAGS
<1>2. b.rek \in RekeyerState /\ b.key \in Key /\ a.rek \in RekeyerState
  BY DEF CipherState
<1>3. ~HandleRekeyRaises(b.rek, m.flag, m.secret)
  BY <1>1 DEF HandleRekeyRaises, SecretMatchesFlag, SHARED_SECRET_FLAGS
<1>4. CASE ~b.rek.enabled
  <2>1. h = b.rek
    BY <1>4 DEF HandleRekey
  <2>2. Prepared(b, m, fresh, agreed).rek = b.rek /\ Prepared(b, m, fresh, agreed).key = b.key
    BY <1>1, <1>2, <1>3, <1>4, <2>1, PreparedEffect
  <2> QED
    BY <1>1, <1>3, <1>4, <2>2 DEF OpensInTurn, Turn, InStep, Settled, Initiating
<1>5. CASE b.rek.enabled
  <2>1. h = OnNone(s, fresh)
    BY <1>1, <1>2, <1>5 DEF HandleRekey, SecretMatchesFlag, SHARED_SECRET_FLAGS, RekeyerState
  <2>2. /\ s \in RekeyerState /\ s.enabled /\ ~s.fail /\ s.role = b.rek.role /\ s.new = b.rek.new
        /\ s.clear = b.rek.clear /\ s.due = b.rek.due
    <3>1. m.flag \in RekeyStates /\ m.secret \in Secret \cup {None}
      BY DEF PacketOf
    <3> QED
      BY <1>1, <1>2, <1>5, <3>1, NotedType, NotedFields
  <2> HIDE DEF h, s
  <2>3. CASE s.due
    <3>1. /\ h \in RekeyerState /\ ~h.fail /\ h.enabled /\ h.due
          /\ h.send = "INIT" /\ h.role = "initiator" /\ h.own = fresh
          /\ h.new = b.rek.new /\ h.clear = b.rek.clear
      BY <2>1, <2>2, <2>3, NoneFields
    <3>2. Prepared(b, m, fresh, agreed).rek = h /\ Prepared(b, m, fresh, agreed).key = b.key
      BY <1>3, <3>1, PreparedEffect DEF h
    <3>3. h.own # None
      BY <3>1, NoneAssumption DEF NoneAssumption
    <3> QED
      BY <1>1, <1>3, <3>1, <3>2, <3>3 DEF OpensInTurn, Turn, InStep, Settled, Initiating,
                                          Sent
  <2>4. CASE ~s.due
    <3>1. /\ h \in RekeyerState /\ ~h.fail /\ h.enabled
          /\ h.send = "NONE" /\ h.role = b.rek.role /\ ~h.clear
      BY <2>1, <2>2, <2>4, NoneFields
    <3>2. h.role = "idle"
      BY <1>1, <2>2, <2>4, <3>1 DEF Initiating
    <3>3. Prepared(b, m, fresh, agreed).rek = h /\ Prepared(b, m, fresh, agreed).key = b.key
      BY <1>3, <3>1, PreparedEffect DEF h
    <3> QED
      BY <1>1, <1>3, <3>1, <3>2, <3>3 DEF OpensInTurn, Turn, InStep, Settled
  <2> QED
    BY <2>3, <2>4
<1> QED
  BY <1>4, <1>5

LEMMA ReceiveInit ==
    ASSUME NEW a \in CipherState, NEW b \in CipherState, NEW Body, NEW m \in PacketOf(Body),
           NEW fresh \in Secret, NEW agreed \in BOOLEAN, Sent(a, b, m), a.rek.send = "INIT"
    PROVE  OpensInTurn(a, b, m, fresh, agreed)
<1> DEFINE h == HandleRekey(b.rek, b.key, m.flag, m.secret, fresh, agreed)
           s == Noted(b.rek, b.key, m.flag, m.secret)
<1>1. /\ m.flag = "INIT" /\ m.secret = a.rek.own /\ m.key = b.key /\ a.key = b.key
      /\ ~a.rek.fail /\ ~b.rek.fail /\ Initiating(a) /\ Settled(a)
      /\ b.rek.send = "NONE" /\ b.rek.role = "idle" /\ ~b.rek.clear
  BY DEF Sent, InStep, SendState, OwnPublicSecret, SHARED_SECRET_FLAGS, Initiating
<1>2. b.rek \in RekeyerState /\ b.key \in Key /\ a.rek \in RekeyerState
  BY DEF CipherState
<1>3. m.secret \in Secret /\ m.secret # None
  BY <1>1, <1>2 DEF Initiating, RekeyerState
<1>4. ~HandleRekeyRaises(b.rek, m.flag, m.secret)
  BY <1>1, <1>3 DEF HandleRekeyRaises, SecretMatchesFlag, SHARED_SECRET_FLAGS
<1>5. CASE ~b.rek.enabled
  <2>1. h = b.rek
    BY <1>5 DEF HandleRekey
  <2>2. Prepared(b, m, fresh, agreed).rek = b.rek /\ Prepared(b, m, fresh, agreed).key = b.key
    BY <1>1, <1>2, <1>4, <1>5, <2>1, PreparedEffect
  <2> QED
    BY <1>1, <1>4, <1>5, <2>2 DEF OpensInTurn, Turn, InStep
<1>6. CASE b.rek.enabled
  <2>1. h = OnInit(s, fresh, agreed)
    BY <1>1, <1>2, <1>3, <1>6 DEF HandleRekey, SecretMatchesFlag, SHARED_SECRET_FLAGS, RekeyerState
  <2>2. /\ s \in RekeyerState /\ s.enabled /\ ~s.fail /\ ~s.clear /\ s.peer = a.rek.own
    <3>1. m.flag \in RekeyStates /\ m.flag \in SHARED_SECRET_FLAGS
      BY <1>1 DEF SHARED_SECRET_FLAGS, RekeyStates
    <3> QED
      BY <1>1, <1>2, <1>3, <1>6, <3>1, NotedType, NotedFields
  <2> HIDE DEF h, s
  <2>3. /\ h \in RekeyerState /\ ~h.fail /\ h.enabled /\ ~h.clear
        /\ agreed => /\ h.send = "REPLY" /\ h.role = "replier" /\ h.own = fresh
                     /\ h.new = {fresh, a.rek.own}
        /\ ~agreed => h.send = "FAIL" /\ h.role = "idle"
    BY <1>1, <1>3, <2>1, <2>2, InitFields
  <2>4. Prepared(b, m, fresh, agreed).rek = h /\ Prepared(b, m, fresh, agreed).key = b.key
    BY <1>4, <2>3, PreparedEffect DEF h
  <2>5. fresh # None
    BY NoneAssumption DEF NoneAssumption
  <2>6. InStep(Prepared(b, m, fresh, agreed), a)
    <3>1. CASE agreed
      BY <1>1, <2>3, <2>4, <2>5, <3>1 DEF InStep, Sent
    <3>2. CASE ~agreed
      BY <1>1, <2>3, <2>4, <3>2 DEF InStep, Sent
    <3> QED
      BY <3>1, <3>2
  <2> QED
    BY <1>1, <1>4, <2>4, <2>6 DEF OpensInTurn, Turn
<1> QED
  BY <1>5, <1>6

\* An initiator that cannot agree on a key stays with the one it has.
LEMMA FailedEffect ==
    ASSUME NEW c \in CipherState, NEW Body, NEW m \in PacketOf(Body),
           NEW fresh \in Secret, NEW agreed \in BOOLEAN,
           ~HandleRekeyRaises(c.rek, m.flag, m.secret),
           NEW h \in RekeyerState, h.enabled, h.fail, h.old = c.key, h.send = "FAIL",
           h = HandleRekey(c.rek, c.key, m.flag, m.secret, fresh, agreed)
    PROVE  LET p == Prepared(c, m, fresh, agreed)
           IN  /\ p.key = c.key /\ p.rek.enabled
               /\ p.rek.send = "FAIL" /\ p.rek.role = "idle" /\ ~p.rek.clear /\ ~p.rek.fail
<1> DEFINE d == [c EXCEPT !.rek = h]
<1>1. d.rek = h /\ d.key = c.key
  BY DEF CipherState
<1>2. Prepared(c, m, fresh, agreed) = UpdateKey(d, FALSE)
  BY DEF Prepared
<1> HIDE DEF d
<1>3. c.key # None
  BY NoneAssumption DEF CipherState, NoneAssumption
<1>4. NewKey(h, FALSE) = c.key /\ AfterNewKey(h) = ResetAll(h)
  BY DEF NewKey, AfterNewKey
<1>5. UpdateKey(d, FALSE).key = c.key /\ UpdateKey(d, FALSE).rek = ResetAll(h)
  BY <1>1, <1>3, <1>4 DEF UpdateKey
<1>6. LET r == ResetAll(h)
      IN  r.enabled /\ r.send = "FAIL" /\ r.role = "idle" /\ ~r.clear /\ ~r.fail
  BY DEF ResetAll, ResetMost, ResetSym, RekeyerState
<1> QED
  BY <1>2, <1>5, <1>6

LEMMA ReceiveReply ==
    ASSUME NEW a \in CipherState, NEW b \in CipherState, NEW Body, NEW m \in PacketOf(Body),
           NEW fresh \in Secret, NEW agreed \in BOOLEAN, Sent(a, b, m), a.rek.send = "REPLY"
    PROVE  OpensInTurn(a, b, m, fresh, agreed)
<1> DEFINE h == HandleRekey(b.rek, b.key, m.flag, m.secret, fresh, agreed)
           s == Noted(b.rek, b.key, m.flag, m.secret)
<1>1. /\ m.flag = "REPLY" /\ m.secret = a.rek.own /\ m.key = b.key /\ a.key = b.key
      /\ ~a.rek.fail /\ ~b.rek.fail /\ a.rek.enabled /\ a.rek.role = "replier" /\ ~a.rek.clear
      /\ a.rek.own # None /\ a.rek.new = {a.rek.own, b.rek.own} /\ a.rek.send = "REPLY"
      /\ b.rek.send = "INIT" /\ Initiating(b)
  BY DEF Sent, InStep, SendState, OwnPublicSecret, SHARED_SECRET_FLAGS, Initiating
<1>2. b.rek \in RekeyerState /\ b.key \in Key /\ a.rek \in RekeyerState
  BY DEF CipherState
<1>3. m.secret \in Secret /\ m.secret # None
  BY <1>1, <1>2 DEF RekeyerState
<1>4. ~HandleRekeyRaises(b.rek, m.flag, m.secret)
  BY <1>1, <1>3 DEF HandleRekeyRaises, SecretMatchesFlag, SHARED_SECRET_FLAGS, Initiating
<1>5. /\ s \in RekeyerState /\ s.enabled /\ ~s.fail /\ s.peer = a.rek.own /\ s.role = "initiator"
      /\ s.own = b.rek.own /\ s.due /\ s.old = b.key
  <2>1. m.flag \in RekeyStates /\ m.flag \in SHARED_SECRET_FLAGS
    BY <1>1 DEF SHARED_SECRET_FLAGS, RekeyStates
  <2> QED
    BY <1>1, <1>2, <1>3, <2>1, NotedType, NotedFields DEF Initiating
<1>6. h = OnReply(s, agreed)
  <2>1. h = OnProgress(s, m.flag, agreed)
    BY <1>1, <1>2, <1>3
    DEF HandleRekey, SecretMatchesFlag, SHARED_SECRET_FLAGS, RekeyerState, Initiating
  <2> HIDE DEF h, s
  <2> QED
    BY <1>1, <1>5, <2>1 DEF OnProgress
<1> HIDE DEF h, s
<1>7. /\ h \in RekeyerState /\ h.enabled /\ h.role = "initiator" /\ h.own = b.rek.own
      /\ h.due /\ h.old = b.key
      /\ agreed => /\ h.send = "SWITCH" /\ h.clear /\ h.new = {b.rek.own, a.rek.own}
                   /\ h.new \in Key /\ ~h.fail
      /\ ~agreed => h.send = "FAIL" /\ h.fail
  BY <1>1, <1>3, <1>5, <1>6, ReplyFields DEF Initiating
<1>8. CASE agreed
  <2>1. Prepared(b, m, fresh, agreed).rek = h /\ Prepared(b, m, fresh, agreed).key = b.key
    <3>1. h \in RekeyerState /\ ~h.fail /\ h.role = "initiator"
      BY <1>7, <1>8
    <3>2. h = HandleRekey(b.rek, b.key, m.flag, m.secret, fresh, agreed)
      BY DEF h
    <3> QED
      BY <1>4, <3>1, <3>2, PreparedEffect
  <2>2. {b.rek.own, a.rek.own} = {a.rek.own, b.rek.own}
    OBVIOUS
  <2>3. InStep(Prepared(b, m, fresh, agreed), a)
    <3>1. /\ h.send = "SWITCH" /\ h.clear /\ ~h.fail /\ h.new \in Key
          /\ h.new = a.rek.new /\ h.own # None
      BY <1>1, <1>7, <1>8, <2>2 DEF Initiating
    <3>2. Initiating(Prepared(b, m, fresh, agreed)) /\ Settled(a)
      BY <1>1, <1>7, <2>1, <3>1 DEF Initiating, Settled
    <3> QED
      BY <1>1, <2>1, <3>1, <3>2 DEF InStep
  <2> QED
    BY <1>1, <1>4, <2>1, <2>3 DEF OpensInTurn, Turn
<1>9. CASE ~agreed
  <2>1. LET p == Prepared(b, m, fresh, agreed)
        IN  /\ p.key = b.key /\ p.rek.enabled
            /\ p.rek.send = "FAIL" /\ p.rek.role = "idle" /\ ~p.rek.clear /\ ~p.rek.fail
    BY <1>4, <1>7, <1>9, FailedEffect DEF h
  <2>2. InStep(Prepared(b, m, fresh, agreed), a)
    BY <1>1, <2>1 DEF InStep, Settled
  <2> QED
    BY <1>1, <1>4, <2>1, <2>2 DEF OpensInTurn, Turn
<1> QED
  BY <1>8, <1>9

LEMMA ReceiveSwitch ==
    ASSUME NEW a \in CipherState, NEW b \in CipherState, NEW Body, NEW m \in PacketOf(Body),
           NEW fresh \in Secret, NEW agreed \in BOOLEAN, Sent(a, b, m), a.rek.send = "SWITCH"
    PROVE  OpensInTurn(a, b, m, fresh, agreed)
<1> DEFINE h == HandleRekey(b.rek, b.key, m.flag, m.secret, fresh, agreed)
           s == Noted(b.rek, b.key, m.flag, m.secret)
<1>1. /\ m.flag = "SWITCH" /\ m.secret = None /\ m.key = a.rek.new /\ a.key = a.rek.new
      /\ ~a.rek.fail /\ ~b.rek.fail /\ Initiating(a) /\ a.rek.clear /\ a.rek.send = "SWITCH"
      /\ a.rek.new \in Key /\ b.rek.new = a.rek.new
      /\ b.rek.send = "REPLY" /\ b.rek.enabled /\ b.rek.role = "replier" /\ ~b.rek.clear
  BY DEF Sent, InStep, SendState, OwnPublicSecret, SHARED_SECRET_FLAGS, Initiating
<1>2. b.rek \in RekeyerState /\ b.key \in Key /\ b.rek.new # None
  BY <1>1, NoneAssumption DEF CipherState, NoneAssumption
<1>3. ~HandleRekeyRaises(b.rek, m.flag, m.secret)
  BY <1>1, <1>2 DEF HandleRekeyRaises, SecretMatchesFlag, SHARED_SECRET_FLAGS
<1>4. /\ s \in RekeyerState /\ s.enabled /\ ~s.fail /\ s.role = "replier"
      /\ s.new = a.rek.new
  <2>1. m.flag \in RekeyStates /\ m.secret \in Secret \cup {None}
    BY DEF PacketOf
  <2> QED
    BY <1>1, <1>2, <2>1, NotedType, NotedFields
<1>5. h = OnSwitch(s)
  <2>1. h = OnProgress(s, m.flag, agreed)
    BY <1>1, <1>2 DEF HandleRekey, SecretMatchesFlag, SHARED_SECRET_FLAGS, RekeyerState
  <2> HIDE DEF h, s
  <2> QED
    BY <1>1, <1>4, <2>1 DEF OnProgress
<1> HIDE DEF h, s
<1>6. /\ h \in RekeyerState /\ h.enabled /\ h.send = "SWITCH_ACK" /\ h.role = "idle" /\ h.clear
      /\ ~h.fail /\ h.new = a.rek.new /\ h.new # None
  BY <1>1, <1>2, <1>4, <1>5, SwitchFields
<1>7. Prepared(b, m, fresh, agreed).rek = h /\ Prepared(b, m, fresh, agreed).key = a.rek.new
  BY <1>3, <1>6, PreparedEffect DEF h
<1>8. InStep(Prepared(b, m, fresh, agreed), a)
  BY <1>1, <1>6, <1>7 DEF InStep, Settled
<1> QED
  BY <1>1, <1>3, <1>7, <1>8 DEF OpensInTurn, Turn

LEMMA ReceiveSwitchAck ==
    ASSUME NEW a \in CipherState, NEW b \in CipherState, NEW Body, NEW m \in PacketOf(Body),
           NEW fresh \in Secret, NEW agreed \in BOOLEAN, Sent(a, b, m), a.rek.send = "SWITCH_ACK"
    PROVE  OpensInTurn(a, b, m, fresh, agreed)
<1> DEFINE h == HandleRekey(b.rek, b.key, m.flag, m.secret, fresh, agreed)
           s == Noted(b.rek, b.key, m.flag, m.secret)
<1>1. /\ m.flag = "SWITCH_ACK" /\ m.secret = None /\ m.key = b.key /\ a.key = b.key
      /\ ~a.rek.fail /\ ~b.rek.fail /\ a.rek.enabled /\ a.rek.role = "idle" /\ Settled(a)
      /\ a.rek.send = "SWITCH_ACK" /\ b.rek.send = "SWITCH" /\ Initiating(b)
  BY DEF Sent, InStep, SendState, OwnPublicSecret, SHARED_SECRET_FLAGS, Initiating
<1>2. b.rek \in RekeyerState /\ b.key \in Key
  BY DEF CipherState
<1>3. ~HandleRekeyRaises(b.rek, m.flag, m.secret)
  BY <1>1, <1>2 DEF HandleRekeyRaises, SecretMatchesFlag, SHARED_SECRET_FLAGS, Initiating
<1>4. s \in RekeyerState /\ s.enabled /\ ~s.fail /\ s.role = "initiator"
  <2>1. m.flag \in RekeyStates /\ m.secret \in Secret \cup {None}
    BY DEF PacketOf
  <2> QED
    BY <1>1, <1>2, <2>1, NotedType, NotedFields DEF Initiating
<1>5. h = OnSwitchAck(s)
  <2>1. h = OnProgress(s, m.flag, agreed)
    BY <1>1, <1>2
    DEF HandleRekey, SecretMatchesFlag, SHARED_SECRET_FLAGS, RekeyerState, Initiating
  <2> HIDE DEF h, s
  <2> QED
    BY <1>1, <1>4, <2>1 DEF OnProgress
<1> HIDE DEF h, s
<1>6. /\ h \in RekeyerState /\ h.enabled /\ h.send = "NONE" /\ h.role = "idle" /\ ~h.clear
      /\ ~h.fail
  BY <1>4, <1>5, SwitchAckFields
<1>7. Prepared(b, m, fresh, agreed).rek = h /\ Prepared(b, m, fresh, agreed).key = b.key
  BY <1>3, <1>6, PreparedEffect DEF h
<1>8. InStep(Prepared(b, m, fresh, agreed), a)
  BY <1>1, <1>6, <1>7 DEF InStep
<1> QED
  BY <1>1, <1>3, <1>7, <1>8 DEF OpensInTurn, Turn

LEMMA ReceiveFail ==
    ASSUME NEW a \in CipherState, NEW b \in CipherState, NEW Body, NEW m \in PacketOf(Body),
           NEW fresh \in Secret, NEW agreed \in BOOLEAN, Sent(a, b, m), a.rek.send = "FAIL"
    PROVE  OpensInTurn(a, b, m, fresh, agreed)
<1> DEFINE h == HandleRekey(b.rek, b.key, m.flag, m.secret, fresh, agreed)
           s == Noted(b.rek, b.key, m.flag, m.secret)
<1>1. /\ m.flag = "FAIL" /\ m.secret = None /\ m.key = b.key /\ a.key = b.key
      /\ ~a.rek.fail /\ ~b.rek.fail /\ a.rek.enabled /\ a.rek.role = "idle" /\ ~a.rek.clear
      /\ a.rek.send = "FAIL" /\ b.rek.enabled
  BY DEF Sent, InStep, SendState, OwnPublicSecret, SHARED_SECRET_FLAGS, Initiating
<1>2. b.rek \in RekeyerState /\ b.key \in Key
  BY DEF CipherState
<1>3. ~HandleRekeyRaises(b.rek, m.flag, m.secret)
  BY <1>1 DEF HandleRekeyRaises, SecretMatchesFlag, SHARED_SECRET_FLAGS
<1>4. s \in RekeyerState /\ s.enabled
  <2>1. m.flag \in RekeyStates /\ m.secret \in Secret \cup {None}
    BY DEF PacketOf
  <2> QED
    BY <1>1, <1>2, <2>1, NotedType, NotedFields
<1>5. h = ResetAll([s EXCEPT !.send = "NONE"])
  BY <1>1, <1>2 DEF HandleRekey, SecretMatchesFlag, SHARED_SECRET_FLAGS, RekeyerState
<1> HIDE DEF h, s
<1>6. /\ h \in RekeyerState /\ h.enabled /\ h.send = "NONE" /\ h.role = "idle" /\ ~h.clear
      /\ ~h.fail
  <2>1. "NONE" \in RekeyStates
    BY DEF RekeyStates
  <2> QED
    BY <1>4, <1>5, <2>1, AbandonedFields
<1>7. Prepared(b, m, fresh, agreed).rek = h /\ Prepared(b, m, fresh, agreed).key = b.key
  BY <1>3, <1>6, PreparedEffect DEF h
<1>8. InStep(Prepared(b, m, fresh, agreed), a)
  BY <1>1, <1>6, <1>7 DEF InStep, Settled
<1> QED
  BY <1>1, <1>3, <1>7, <1>8 DEF OpensInTurn, Turn

\* decrypt_and_verify opens what the peer has sent, and then it is its turn.
LEMMA Receive ==
    ASSUME NEW a \in CipherState, NEW b \in CipherState, NEW Body, NEW m \in PacketOf(Body),
           NEW fresh \in Secret, NEW agreed \in BOOLEAN, Sent(a, b, m)
    PROVE  /\ Verdict(b, m, fresh, agreed, FALSE) = "accepted"
           /\ Turn(AfterDecrypt(b, m, fresh, agreed, FALSE), a)
<1>1. a.rek.send \in RekeyStates
  BY DEF CipherState, RekeyerState
<1>2. OpensInTurn(a, b, m, fresh, agreed)
  BY <1>1, ReceiveNone, ReceiveInit, ReceiveReply, ReceiveSwitch, ReceiveSwitchAck, ReceiveFail
  DEF RekeyStates
<1> QED
  BY <1>2, FirstAttempt DEF OpensInTurn

----------------------------------------------------------------------------
(* Sending, the timer, and the reset message.                              *)

\* The packet a gateway seals in its turn is what its peer is ready for.
LEMMA Send ==
    ASSUME NEW a \in CipherState, NEW b \in CipherState, NEW p, Turn(a, b)
    PROVE  Sent(AfterEncrypt(a, FALSE), b, Encrypted(a, p, FALSE))
<1> DEFINE d == AfterEncrypt(a, FALSE)
<1>1. /\ InStep(a, b) /\ a.key = b.key /\ ~a.rek.fail
      /\ a.rek \in RekeyerState /\ a.key \in Key
  BY DEF Turn, InStep, CipherState
<1>2. d.rek = a.rek
  BY <1>1, EncryptEffect
<1>3. d.key = IF a.rek.enabled /\ a.rek.clear /\ a.rek.role = "initiator" /\ a.rek.new # None
              THEN a.rek.new ELSE a.key
  BY <1>1, EncryptEffect
<1>4. /\ Encrypted(a, p, FALSE).flag = SendState(d.rek)
      /\ Encrypted(a, p, FALSE).secret = OwnPublicSecret(d.rek)
      /\ Encrypted(a, p, FALSE).key = d.key
  BY DEF Encrypted
<1> HIDE DEF d
<1>5. d.key = IF d.rek.send = "SWITCH" THEN d.rek.new ELSE b.key
  <2>1. CASE a.rek.send = "SWITCH"
    <3>1. a.rek.enabled /\ a.rek.role = "initiator" /\ a.rek.clear /\ a.rek.new \in Key
      BY <1>1, <2>1 DEF InStep, Initiating
    <3> QED
      BY <1>2, <1>3, <2>1, <3>1, NoneAssumption DEF NoneAssumption
  <2>2. CASE a.rek.send # "SWITCH"
    <3>1. a.rek.clear /\ a.rek.role = "initiator" => a.rek.new = a.key
      BY <1>1, <2>2 DEF InStep, Settled
    <3> QED
      BY <1>1, <1>2, <1>3, <2>2, <3>1
  <2> QED
    BY <2>1, <2>2
<1>6. InStep(d, b)
  <2>1. CASE a.rek.send = "SWITCH"
    BY <1>1, <1>2, <2>1 DEF InStep, Initiating, Settled
  <2>2. CASE a.rek.send # "SWITCH"
    <3>1. a.rek.clear /\ a.rek.role = "initiator" => a.rek.new = a.key
      BY <1>1, <2>2 DEF InStep, Settled
    <3>2. d.key = a.key
      BY <1>3, <3>1
    <3> QED
      BY <1>1, <1>2, <2>2, <3>2 DEF InStep, Initiating, Settled
  <2> QED
    BY <2>1, <2>2
<1> QED
  BY <1>4, <1>5, <1>6 DEF Sent, d

\* Ciphers in step are sound.
LEMMA InStepSound ==
    ASSUME NEW a \in CipherState, NEW b \in CipherState, InStep(a, b)
    PROVE  Sound(a) /\ Sound(b)
<1>1. a.rek.send \in SHARED_SECRET_FLAGS => a.rek.own # None
  BY DEF InStep, Initiating, SHARED_SECRET_FLAGS
<1>2. b.rek.send \in SHARED_SECRET_FLAGS => b.rek.own # None
  BY DEF InStep, Initiating, SHARED_SECRET_FLAGS
<1> QED
  BY <1>1, <1>2 DEF InStep, Sound, OwnPublicSecretRaises

\* The timer changes nothing else about a cipher.
LEMMA DueFields ==
    ASSUME NEW c \in CipherState
    PROVE  /\ Due(c) \in CipherState /\ Due(c).key = c.key
           /\ Due(c).rek = [c.rek EXCEPT !.due = TRUE]
           /\ Due(c).rek.enabled = c.rek.enabled /\ Due(c).rek.send = c.rek.send
           /\ Due(c).rek.own = c.rek.own /\ Due(c).rek.new = c.rek.new
           /\ Due(c).rek.role = c.rek.role /\ Due(c).rek.fail = c.rek.fail
           /\ Due(c).rek.clear = c.rek.clear /\ Due(c).rek.due
           /\ Due(Due(c)) = Due(c)
<1>1. c.rek \in RekeyerState
  BY DEF CipherState
<1> DEFINE r == [c.rek EXCEPT !.due = TRUE]
           e == [key |-> c.key, rek |-> r]
<1>2. r \in RekeyerState /\ r.due /\ [r EXCEPT !.due = TRUE] = r
  BY <1>1 DEF RekeyerState
<1>3. Due(c) = e
  BY DEF Due
<1>4. e \in CipherState /\ e.rek = r /\ e.key = c.key
  BY <1>2 DEF CipherState
<1>5. Due(e) = e
  <2>1. e.rek = r /\ [e.rek EXCEPT !.due = TRUE] = r
    BY <1>2
  <2> HIDE DEF r
  <2> QED
    BY <2>1 DEF Due
<1> HIDE DEF e
<1>6. /\ r.enabled = c.rek.enabled /\ r.send = c.rek.send /\ r.own = c.rek.own
      /\ r.new = c.rek.new /\ r.role = c.rek.role /\ r.fail = c.rek.fail
      /\ r.clear = c.rek.clear
  BY <1>1 DEF RekeyerState
<1> QED
  BY <1>2, <1>3, <1>4, <1>5, <1>6

LEMMA DueInStep ==
    ASSUME NEW a \in CipherState, NEW b \in CipherState, InStep(a, b)
    PROVE  InStep(Due(a), b) /\ InStep(a, Due(b))
<1>1. InStep(Due(a), b)
  BY DueFields DEF InStep, Initiating, Settled
<1>2. InStep(a, Due(b))
  BY DueFields DEF InStep, Initiating, Settled
<1> QED
  BY <1>1, <1>2

LEMMA DueTurn ==
    ASSUME NEW a \in CipherState, NEW b \in CipherState, Turn(a, b)
    PROVE  Turn(Due(a), b) /\ Turn(a, Due(b))
BY DueInStep, DueFields DEF Turn

LEMMA DueSent ==
    ASSUME NEW a \in CipherState, NEW b \in CipherState, NEW m, Sent(a, b, m)
    PROVE  Sent(Due(a), b, m) /\ Sent(a, Due(b), m)
BY DueInStep, DueFields DEF Sent, SendState, OwnPublicSecret

LEMMA DueSound ==
    ASSUME NEW c \in CipherState, Sound(c)
    PROVE  Sound(Due(c))
BY DueFields DEF Sound, OwnPublicSecretRaises

LEMMA DueSafelyOpens ==
    ASSUME NEW c \in CipherState, NEW m, SafelyOpens(c, m)
    PROVE  SafelyOpens(Due(c), m)
BY DueFields DEF SafelyOpens

\* An unreadable reset message does no harm: it never brings the second
\* decryption attempt into play.
LEMMA NoticeSound ==
    ASSUME NEW c \in CipherState, Sound(c), NEW Body, NEW m \in PacketOf(Body),
           m.flag = "NONE", m.secret = None, NEW fresh \in Secret, NEW agreed \in BOOLEAN
    PROVE  /\ Verdict(c, m, fresh, agreed, FALSE) # "crashed"
           /\ m.key = c.key => Verdict(c, m, fresh, agreed, FALSE) = "accepted"
           /\ Sound(AfterDecrypt(c, m, fresh, agreed, FALSE))
<1> DEFINE h == HandleRekey(c.rek, c.key, m.flag, m.secret, fresh, agreed)
           s == Noted(c.rek, c.key, m.flag, m.secret)
           p == Prepared(c, m, fresh, agreed)
<1>1. /\ c.rek \in RekeyerState /\ c.key \in Key /\ ~c.rek.fail /\ m.key \in Key
      /\ m.flag \in RekeyStates /\ m.secret \in Secret \cup {None}
  BY DEF CipherState, Sound, PacketOf
<1>2. ~HandleRekeyRaises(c.rek, m.flag, m.secret)
  BY DEF HandleRekeyRaises, SecretMatchesFlag, SHARED_SECRET_FLAGS
<1>3. CASE ~c.rek.enabled
  <2>1. h = c.rek
    BY <1>3 DEF HandleRekey
  <2>2. p.rek = c.rek /\ p.key = c.key
    BY <1>1, <1>2, <1>3, <2>1, PreparedEffect
  <2> HIDE DEF p
  <2>3. ~OpensWithOld(p, m)
    BY <1>1, <1>3, <2>2, NoneAssumption DEF OpensWithOld, OldKey, NoneAssumption
  <2> QED
    BY <1>2, <2>2, <2>3 DEF Verdict, AfterDecrypt, Sound, p
<1>4. CASE c.rek.enabled
  <2>1. h = OnNone(s, fresh)
    BY <1>1, <1>4 DEF HandleRekey, SecretMatchesFlag, SHARED_SECRET_FLAGS, RekeyerState
  <2>2. s \in RekeyerState /\ s.enabled /\ ~s.fail /\ s.old = c.key
    BY <1>1, <1>4, NotedType, NotedFields
  <2> HIDE DEF h, s
  <2>3. /\ h \in RekeyerState /\ ~h.fail /\ h.enabled
        /\ h.role = "initiator" \/ ~h.clear
        /\ (h.send = "INIT" /\ h.own = fresh) \/ h.send = "NONE"
        /\ h.old = c.key \/ h.old = None
    BY <2>1, <2>2, NoneFields
  <2>4. p.rek = h /\ p.key = c.key
    BY <1>2, <2>3, PreparedEffect DEF h
  <2> HIDE DEF p
  <2>5. ~OpensWithOld(p, m)
    BY <1>1, <2>3, <2>4, NoneAssumption DEF OpensWithOld, OldKey, NoneAssumption
  <2>6. Sound(p)
    BY <2>3, <2>4, NoneAssumption
    DEF Sound, OwnPublicSecretRaises, SHARED_SECRET_FLAGS, NoneAssumption
  <2>7. m.key = c.key => Verdict(c, m, fresh, agreed, FALSE) = "accepted"
    BY <1>2, <2>4, FirstAttempt DEF p
  <2>8. Verdict(c, m, fresh, agreed, FALSE) # "crashed"
    BY <1>2, <2>5 DEF Verdict, p
  <2> QED
    BY <1>2, <2>5, <2>6, <2>7, <2>8 DEF AfterDecrypt, p
<1> QED
  BY <1>3, <1>4

\* What a gateway has sent in its turn is safe to open.
LEMMA SentSafelyOpens ==
    ASSUME NEW a \in CipherState, NEW b \in CipherState, NEW Body, NEW m \in PacketOf(Body),
           Sent(a, b, m)
    PROVE  SafelyOpens(b, m)
<1> SUFFICES ASSUME NEW d \in {b, Due(b)}, NEW fresh \in Secret, NEW agreed \in BOOLEAN
             PROVE  /\ Verdict(d, m, fresh, agreed, FALSE) = "accepted"
                    /\ Sound(AfterDecrypt(d, m, fresh, agreed, FALSE))
  BY DEF SafelyOpens
<1>1. d \in CipherState /\ Sent(a, d, m)
  <2>1. Due(b) \in CipherState
    BY DueFields
  <2>2. Sent(a, Due(b), m)
    BY DueSent
  <2> QED
    BY <2>1, <2>2
<1>2. /\ Verdict(d, m, fresh, agreed, FALSE) = "accepted"
      /\ Turn(AfterDecrypt(d, m, fresh, agreed, FALSE), a)
  BY <1>1, Receive
<1>3. AfterDecrypt(d, m, fresh, agreed, FALSE) \in CipherState
  BY <1>1, AfterDecryptType
<1> QED
  BY <1>2, <1>3, InStepSound DEF Turn

\* Two new ciphers, whether either of them rekeys or not.
LEMMA NewTurn ==
    ASSUME NEW rekeying \in SUBSET Gateway, NEW g \in Gateway, NEW h \in Gateway
    PROVE  Turn(NewCiphers(rekeying)[g], NewCiphers(rekeying)[h]) /\ Sound(NewCiphers(rekeying)[g])
<1> DEFINE c == NewCiphers(rekeying)[g]
           d == NewCiphers(rekeying)[h]
<1>1. /\ c.key = d.key /\ ~c.rek.fail /\ c.rek.send = "NONE" /\ c.rek.role = "idle"
      /\ ~c.rek.clear
      /\ ~d.rek.fail /\ d.rek.send = "NONE" /\ d.rek.role = "idle" /\ ~d.rek.clear
  BY DEF NewCiphers, NewCipher, NewRekeyer
<1> HIDE DEF c, d
<1>2. Turn(c, d)
  BY <1>1 DEF Turn, InStep, Settled
<1>3. Sound(c)
  BY <1>1 DEF Sound, OwnPublicSecretRaises, SHARED_SECRET_FLAGS
<1> QED
  BY <1>2, <1>3 DEF c, d

----------------------------------------------------------------------------
(* One transaction at a time                                               *)

LEMMA Gateways ==
    ASSUME NEW g \in Gateway
    PROVE  /\ Peer(g) \in Gateway /\ Peer(g) # g /\ Peer(Peer(g)) = g
           /\ \A h \in Gateway : h = g \/ h = Peer(g)
           /\ BothUp <=> up[g] /\ up[Peer(g)]
BY DEF Gateway, Peer, BothUp

LEMMA Lengths ==
    ASSUME TypeOK
    PROVE  /\ Len(chan["client"]) \in Nat /\ Len(chan["server"]) \in Nat /\ plc \in Nat
           /\ chan["client"] = <<>> <=> Len(chan["client"]) = 0
           /\ chan["server"] = <<>> <=> Len(chan["server"]) = 0
<1>1. chan["client"] \in Seq(DataPacket) /\ chan["server"] \in Seq(DataPacket) /\ plc \in Nat
  BY DEF TypeOK, Gateway
<1> QED
  BY <1>1, LenProperties, EmptySeq

LEMMA NothingOpen ==
    ASSUME TypeOK, Outstanding < 1
    PROVE  (\A g \in Gateway : chan[g] = <<>>) /\ plc = 0
BY Lengths DEF Outstanding, Gateway

LEMMA PlcBusy ==
    ASSUME TypeOK, Outstanding <= 1, plc > 0
    PROVE  (\A g \in Gateway : chan[g] = <<>>) /\ plc = 1
BY Lengths DEF Outstanding, Gateway

LEMMA PacketOpen ==
    ASSUME TypeOK, Outstanding <= 1, NEW g \in Gateway, chan[g] # <<>>
    PROVE  /\ plc = 0 /\ chan[Peer(g)] = <<>>
           /\ Tail(chan[g]) = <<>> /\ Head(chan[g]) \in DataPacket
<1>1. plc = 0 /\ chan[Peer(g)] = <<>> /\ Len(chan[g]) = 1
  <2> DEFINE x == Len(chan["client"])
             y == Len(chan["server"])
  <2>1. /\ x \in Nat /\ y \in Nat /\ plc \in Nat /\ x + plc + y <= 1
        /\ chan["client"] = <<>> <=> x = 0
        /\ chan["server"] = <<>> <=> y = 0
    BY Lengths DEF Outstanding
  <2> HIDE DEF x, y
  <2>2. /\ x # 0 => plc = 0 /\ y = 0 /\ x = 1
        /\ y # 0 => plc = 0 /\ x = 0 /\ y = 1
    BY <2>1
  <2>3. /\ chan["client"] # <<>> => /\ plc = 0 /\ chan["server"] = <<>>
                                    /\ Len(chan["client"]) = 1
        /\ chan["server"] # <<>> => /\ plc = 0 /\ chan["client"] = <<>>
                                    /\ Len(chan["server"]) = 1
    BY <2>1, <2>2 DEF x, y
  <2>4. CASE g = "client"
    BY <2>3, <2>4 DEF Peer
  <2>5. CASE g = "server"
    BY <2>3, <2>5 DEF Peer
  <2> QED
    BY <2>4, <2>5 DEF Gateway
<1>2. chan[g] \in Seq(DataPacket)
  BY DEF TypeOK
<1>3. Head(chan[g]) \in DataPacket /\ Tail(chan[g]) \in Seq(DataPacket) /\ Len(Tail(chan[g])) = 0
  BY <1>1, <1>2, HeadTailProperties
<1> QED
  BY <1>1, <1>3, EmptySeq

\* A sound encrypting thread sends its packet, unless the peer has gone.
LEMMA SendEffect ==
    ASSUME InStepInv, NEW g \in Gateway, NEW p \in Payload, EncryptAndSend(g, p)
    PROVE  /\ Encrypted(cipher[g], p, FALSE) \in DataPacket
           /\ Sound(AfterEncrypt(cipher[g], FALSE))
           /\ cipher' = [cipher EXCEPT ![g] = AfterEncrypt(@, FALSE)]
           /\ \/ /\ chan' = [chan EXCEPT ![Peer(g)] = Append(@, Encrypted(cipher[g], p, FALSE))]
                 /\ alive' = alive
              \/ /\ chan' = chan /\ ~up[Peer(g)]
                 /\ alive' = [alive EXCEPT ![g] = @ \ {"enc"}]
<1>1. cipher[g] \in CipherState /\ Sound(cipher[g])
  BY DEF InStepInv, TypeOK, LocallySafe
<1>2. ~EncryptRaises(cipher[g], FALSE) /\ Sound(AfterEncrypt(cipher[g], FALSE))
  BY <1>1, EncryptSound
<1>3. Encrypted(cipher[g], p, FALSE) \in DataPacket
  BY <1>1, EncryptedType DEF DataPacket
<1> QED
  BY <1>2, <1>3 DEF EncryptAndSend, Hand

\* What decrypt_and_verify does with the packet that is under way.
LEMMA DecryptEffect ==
    ASSUME LockstepTraffic, InStepInv, NEW g \in Gateway, Decrypt(g)
    PROVE  /\ up[g] /\ chan[g] # <<>> /\ plc = 0 /\ Head(chan[g]) \in DataPacket
           /\ UNCHANGED <<notice, up, alive>>
           /\ \A k \in Gateway : chan'[k] = <<>>
           /\ chan' = [chan EXCEPT ![g] = Tail(@)]
           /\ delivered' = [delivered EXCEPT ![g] = Head(chan[g]).body]
           /\ plc' = IF g = "server" THEN 1 ELSE 0
           /\ \E fresh \in Secret, agreed \in BOOLEAN :
                /\ Verdict(cipher[g], Head(chan[g]), fresh, agreed, FALSE) = "accepted"
                /\ Sound(AfterDecrypt(cipher[g], Head(chan[g]), fresh, agreed, FALSE))
                /\ cipher' = [cipher EXCEPT ![g] =
                                AfterDecrypt(@, Head(chan[g]), fresh, agreed, FALSE)]
<1> DEFINE h == Peer(g)
           m == Head(chan[g])
<1>1. h \in Gateway /\ h # g /\ Peer(h) = g /\ \A k \in Gateway : k = g \/ k = h
  BY Gateways
<1>2. /\ TypeOK /\ LocallySafe /\ chan[g] # <<>>
      /\ UNCHANGED <<notice, up>> /\ chan' = [chan EXCEPT ![g] = Tail(@)]
  BY DEF InStepInv, Decrypt
<1>3. plc = 0 /\ chan[h] = <<>> /\ Tail(chan[g]) = <<>> /\ m \in DataPacket
  BY <1>2, PacketOpen DEF LocallySafe
<1>4. PICK fresh \in FreshSecrets, agreed \in AgreementOutcomes, replayed \in BOOLEAN :
        /\ DecryptAndVerify(g, m, fresh, agreed, replayed)
        /\ IF Verdict(cipher[g], m, fresh, agreed, replayed) = "accepted"
           THEN /\ delivered' = [delivered EXCEPT ![g] = m.body]
                /\ plc' = IF g = "server" THEN plc + 1 ELSE plc
           ELSE UNCHANGED <<delivered, plc>>
  BY DEF Decrypt
<1>5. ~replayed
  BY <1>2, <1>4, LinkAssumption DEF DecryptAndVerify, LockstepTraffic, TypeOK, LinkAssumption
<1>6. fresh \in Secret /\ agreed \in BOOLEAN
  BY FreshSecretsType, LinkAssumption DEF LinkAssumption
<1> HIDE DEF h, m
<1>7. up[g] /\ SafelyOpens(cipher[g], m)
  BY <1>2, <1>4 DEF LocallySafe, DecryptAndVerify, m
<1>8. /\ Verdict(cipher[g], m, fresh, agreed, FALSE) = "accepted"
      /\ Sound(AfterDecrypt(cipher[g], m, fresh, agreed, FALSE))
  BY <1>6, <1>7 DEF SafelyOpens
<1>9. replayed = FALSE
  BY <1>5
<1>10. /\ cipher' = [cipher EXCEPT ![g] = AfterDecrypt(@, m, fresh, agreed, FALSE)]
       /\ alive' = alive
       /\ delivered' = [delivered EXCEPT ![g] = m.body]
       /\ plc' = IF g = "server" THEN 1 ELSE 0
  <2>1. DecryptAndVerify(g, m, fresh, agreed, FALSE)
    BY <1>4, <1>9
  <2>2. plc' = IF g = "server" THEN plc + 1 ELSE plc
    BY <1>4, <1>8, <1>9
  <2>3. plc + 1 = 1
    BY <1>3
  <2>4. delivered' = [delivered EXCEPT ![g] = m.body]
    BY <1>4, <1>8, <1>9
  <2> QED
    BY <1>3, <1>8, <2>1, <2>2, <2>3, <2>4 DEF DecryptAndVerify
<1>11. \A k \in Gateway : chan'[k] = <<>>
  BY <1>1, <1>2, <1>3 DEF TypeOK
<1> QED
  BY <1>2, <1>3, <1>6, <1>7, <1>8, <1>10, <1>11 DEF m

\* What it does with a reset message, whose sender is gone.
LEMMA DecryptNoticeEffect ==
    ASSUME LockstepTraffic, InStepInv, NEW g \in Gateway, DecryptNotice(g)
    PROVE  /\ up[g] /\ ~up[Peer(g)] /\ chan[g] = <<>> /\ notice[g] \in ResetPacket
           /\ notice[g].flag = "NONE" /\ notice[g].secret = None
           /\ notice' = [notice EXCEPT ![g] = None] /\ UNCHANGED <<chan, alive, delivered>>
           /\ \/ up' = [up EXCEPT ![g] = FALSE] /\ plc' = Abandoned(g)
              \/ UNCHANGED <<up, plc>>
           /\ \E fresh \in Secret, agreed \in BOOLEAN :
                /\ Sound(AfterDecrypt(cipher[g], notice[g], fresh, agreed, FALSE))
                /\ cipher' = [cipher EXCEPT ![g] =
                                AfterDecrypt(@, notice[g], fresh, agreed, FALSE)]
<1> DEFINE m == notice[g]
<1>1. /\ TypeOK /\ LocallySafe /\ chan[g] = <<>> /\ m # None
      /\ notice' = [notice EXCEPT ![g] = None] /\ UNCHANGED <<chan, delivered>>
  BY DEF InStepInv, DecryptNotice
<1>2. m \in ResetPacket /\ m.flag = "NONE" /\ m.secret = None /\ ~up[Peer(g)]
  BY <1>1 DEF LocallySafe, TypeOK
<1>3. PICK fresh \in FreshSecrets, agreed \in AgreementOutcomes, replayed \in BOOLEAN :
        /\ DecryptAndVerify(g, m, fresh, agreed, replayed)
        /\ IF Verdict(cipher[g], m, fresh, agreed, replayed) = "accepted"
           THEN /\ up' = [up EXCEPT ![g] = FALSE]
                /\ plc' = Abandoned(g)
           ELSE UNCHANGED <<up, plc>>
  BY DEF DecryptNotice
<1>4. replayed = FALSE
  BY <1>1, <1>3, LinkAssumption DEF DecryptAndVerify, LockstepTraffic, TypeOK, LinkAssumption
<1>5. fresh \in Secret /\ agreed \in BOOLEAN
  BY FreshSecretsType, LinkAssumption DEF LinkAssumption
<1> HIDE DEF m
<1>6. cipher[g] \in CipherState /\ Sound(cipher[g])
  BY <1>1 DEF TypeOK, LocallySafe
<1>7. /\ Verdict(cipher[g], m, fresh, agreed, FALSE) # "crashed"
      /\ Sound(AfterDecrypt(cipher[g], m, fresh, agreed, FALSE))
  BY <1>2, <1>5, <1>6, NoticeSound DEF ResetPacket
<1>8. DecryptAndVerify(g, m, fresh, agreed, FALSE)
  BY <1>3, <1>4
<1>9. /\ cipher' = [cipher EXCEPT ![g] = AfterDecrypt(@, m, fresh, agreed, FALSE)]
      /\ alive' = alive /\ up[g]
  BY <1>7, <1>8 DEF DecryptAndVerify
<1>10. \/ up' = [up EXCEPT ![g] = FALSE] /\ plc' = Abandoned(g)
       \/ UNCHANGED <<up, plc>>
  BY <1>3
<1> QED
  BY <1>1, <1>2, <1>5, <1>7, <1>9, <1>10 DEF m

\* What a gateway does when it leaves the session.
LEMMA LeaveEffect ==
    ASSUME InStepInv, NEW g \in Gateway, Disconnect(g) \/ End(g)
    PROVE  /\ up[g] /\ up' = [up EXCEPT ![g] = FALSE] /\ plc' = Abandoned(g)
           /\ UNCHANGED <<chan, alive, delivered>>
           /\ \/ UNCHANGED <<cipher, notice>>
              \/ /\ cipher' = [cipher EXCEPT ![g] = AfterEncrypt(@, TRUE)]
                 /\ notice' = [notice EXCEPT ![Peer(g)] = Encrypted(cipher[g], Reset, TRUE)]
BY DEF Disconnect, End

\* A request or response, sent when nothing is under way.
LEMMA SendStep ==
    ASSUME InStepInv, NEW g \in Gateway, NEW p \in Payload, up[g],
           \A h \in Gateway : chan[h] = <<>>,
           BothUp => Turn(cipher[g], cipher[Peer(g)]),
           EncryptAndSend(g, p), UNCHANGED <<notice, up>>, plc' = 0
    PROVE  LocallySafe' /\ MovesInStep'
<1> DEFINE h == Peer(g)
           m == Encrypted(cipher[g], p, FALSE)
<1>1. h \in Gateway /\ h # g /\ Peer(h) = g /\ \A k \in Gateway : k = g \/ k = h
  BY Gateways
<1>2. cipher[g] \in CipherState /\ cipher[h] \in CipherState /\ Sound(cipher[g])
  BY <1>1 DEF InStepInv, TypeOK, LocallySafe
<1>3. Sound(AfterEncrypt(cipher[g], FALSE))
  BY SendEffect
<1>4. /\ cipher' = [cipher EXCEPT ![g] = AfterEncrypt(@, FALSE)]
      /\ \/ chan' = [chan EXCEPT ![h] = Append(@, m)] /\ alive' = alive
         \/ chan' = chan /\ ~up[h] /\ alive' = [alive EXCEPT ![g] = @ \ {"enc"}]
  BY SendEffect
<1>5. m \in DataPacket
  BY SendEffect
<1>6. cipher'[g] = AfterEncrypt(cipher[g], FALSE) /\ cipher'[h] = cipher[h]
  BY <1>1, <1>4 DEF InStepInv, TypeOK
<1>15. ThreadsSurvive'
  BY <1>1, <1>4, ThreadsStep DEF InStepInv, LocallySafe
<1>16. CASE chan' = chan /\ ~up[h]
  <2>1. /\ \A k \in Gateway : Sound(cipher'[k])
        /\ \A k \in Gateway : chan'[k] = <<>>
    BY <1>1, <1>3, <1>6, <1>16 DEF InStepInv, LocallySafe
  <2>2. Len(chan'["client"]) = 0 /\ Len(chan'["server"]) = 0
    BY <2>1 DEF Gateway
  <2>3. Outstanding' <= 1
    BY <2>2 DEF Outstanding
  <2>4. LocallySafe'
    BY <1>15, <2>1, <2>3 DEF InStepInv, LocallySafe
  <2> QED
    BY <1>1, <1>16, <2>4 DEF MovesInStep, BothUp
<1>17. SUFFICES ASSUME chan' = [chan EXCEPT ![h] = Append(@, m)]
                PROVE  LocallySafe' /\ MovesInStep'
  BY <1>4, <1>16
<1>7. chan'[h] = <<m>> /\ chan'[g] = <<>>
  <2>1. chan \in [Gateway -> Seq(DataPacket)] /\ chan[g] = <<>> /\ chan[h] = <<>>
    BY <1>1 DEF InStepInv, TypeOK
  <2>2. chan'[h] = Append(<<>>, m) /\ chan'[g] = <<>>
    BY <1>1, <1>17, <2>1
  <2> QED
    BY <2>2
<1> HIDE DEF h, m
<1>8. chan'[h] # <<>> /\ Head(chan'[h]) = m /\ Len(chan'[h]) = 1 /\ Len(chan'[g]) = 0
  BY <1>7
<1>9. cipher'[g] \in CipherState
  BY <1>2, <1>6, AfterEncryptType
<1>10. BothUp => Sent(cipher'[g], cipher'[h], m)
  BY <1>2, <1>6, Send DEF h, m
<1>11. up[h] => SafelyOpens(cipher'[h], m)
  <2>1. SUFFICES ASSUME up[h] PROVE SafelyOpens(cipher'[h], m)
    OBVIOUS
  <2>2. BothUp
    BY <2>1, Gateways DEF h
  <2> QED
    BY <1>2, <1>5, <1>6, <1>9, <1>10, <2>2, SentSafelyOpens DEF DataPacket
<1>12. Outstanding' <= 1
  <2> DEFINE x == Len(chan'["client"])
             y == Len(chan'["server"])
  <2>1. (x = 0 /\ y = 1) \/ (x = 1 /\ y = 0)
    <3>1. (g = "client" /\ h = "server") \/ (g = "server" /\ h = "client")
      BY DEF h, Peer, Gateway
    <3>2. CASE g = "client" /\ h = "server"
      <4>1. x = Len(chan'[g]) /\ y = Len(chan'[h])
        BY <3>2
      <4> QED
        BY <1>8, <4>1
    <3>3. CASE g = "server" /\ h = "client"
      <4>1. x = Len(chan'[h]) /\ y = Len(chan'[g])
        BY <3>3
      <4> QED
        BY <1>8, <4>1
    <3> QED
      BY <3>1, <3>2, <3>3
  <2>2. Outstanding' = x + 0 + y
    BY DEF Outstanding
  <2> HIDE DEF x, y
  <2> QED
    BY <2>1, <2>2
<1>13. LocallySafe'
  <2>1. \A k \in Gateway : Sound(cipher'[k])
    BY <1>1, <1>3, <1>6 DEF InStepInv, LocallySafe
  <2>2. \A k \in Gateway : up'[k] /\ chan'[k] # <<>> => SafelyOpens(cipher'[k], Head(chan'[k]))
    BY <1>1, <1>7, <1>8, <1>11
  <2> QED
    BY <1>12, <1>15, <2>1, <2>2 DEF InStepInv, LocallySafe
<1>14. MovesInStep'
  <2>1. BothUp' <=> BothUp
    BY DEF BothUp
  <2>2. BothUp => \A k \in Gateway :
          chan'[k] # <<>> => Sent(cipher'[Peer(k)], cipher'[k], Head(chan'[k]))
    BY <1>1, <1>7, <1>8, <1>10
  <2>3. ~(\A k \in Gateway : chan'[k] = <<>>)
    BY <1>1, <1>8
  <2> QED
    BY <2>1, <2>2, <2>3 DEF MovesInStep
<1> QED
  BY <1>13, <1>14

\* decrypt_and_verify on the packet that is under way.
LEMMA DecryptStep ==
    ASSUME LockstepTraffic, InStepInv, NEW g \in Gateway, Decrypt(g)
    PROVE  LocallySafe' /\ MovesInStep'
<1> DEFINE h == Peer(g)
           m == Head(chan[g])
<1>1. h \in Gateway /\ h # g /\ Peer(h) = g /\ \A k \in Gateway : k = g \/ k = h
  BY Gateways
<1>2. /\ TypeOK /\ LocallySafe /\ MovesInStep /\ chan[g] # <<>>
      /\ UNCHANGED <<notice, up>> /\ m \in DataPacket
  BY DecryptEffect DEF InStepInv
<1>6. PICK fresh \in Secret, agreed \in BOOLEAN :
        /\ Sound(AfterDecrypt(cipher[g], m, fresh, agreed, FALSE))
        /\ cipher' = [cipher EXCEPT ![g] = AfterDecrypt(@, m, fresh, agreed, FALSE)]
  BY DecryptEffect
<1>11. alive' = alive /\ plc' = (IF g = "server" THEN 1 ELSE 0) /\ \A k \in Gateway : chan'[k] = <<>>
  BY DecryptEffect
<1> HIDE DEF h, m
<1>7. cipher[g] \in CipherState /\ cipher[h] \in CipherState
  BY <1>1, <1>2 DEF TypeOK
<1>12. /\ cipher'[g] = AfterDecrypt(cipher[g], m, fresh, agreed, FALSE)
       /\ cipher'[h] = cipher[h]
  BY <1>1, <1>2, <1>6 DEF TypeOK
<1>14. LocallySafe'
  <2>1. Outstanding' <= 1
    <3>1. Len(chan'["client"]) = 0 /\ Len(chan'["server"]) = 0
      BY <1>11 DEF Gateway
    <3>2. plc' = 0 \/ plc' = 1
      BY <1>11
    <3> QED
      BY <3>1, <3>2 DEF Outstanding
  <2>2. \A k \in Gateway : Sound(cipher'[k])
    BY <1>1, <1>2, <1>6, <1>12 DEF LocallySafe
  <2>3. ThreadsSurvive'
    BY <1>2, <1>11, ThreadsStep DEF LocallySafe
  <2> QED
    BY <1>2, <1>11, <2>1, <2>2, <2>3 DEF LocallySafe
<1>15. BothUp' => Turn(cipher'[g], cipher'[h])
  <2> SUFFICES ASSUME BothUp' PROVE Turn(cipher'[g], cipher'[h])
    OBVIOUS
  <2>1. BothUp
    BY <1>2 DEF BothUp
  <2>2. Sent(cipher[h], cipher[g], m)
    BY <1>2, <2>1 DEF MovesInStep, h, m
  <2> QED
    BY <1>2, <1>6, <1>7, <1>12, <2>2, Receive DEF DataPacket
<1>16. MovesInStep'
  <2>1. CASE g = "client"
    <3>1. h = "server" /\ plc' = 0
      BY <1>11, <2>1 DEF h, Peer
    <3> QED
      BY <1>11, <1>15, <2>1, <3>1 DEF MovesInStep
  <2>2. CASE g = "server"
    <3>1. h = "client" /\ plc' # 0
      BY <1>11, <2>2 DEF h, Peer
    <3> QED
      BY <1>11, <1>15, <2>2, <3>1 DEF MovesInStep
  <2> QED
    BY <2>1, <2>2 DEF Gateway
<1> QED
  BY <1>14, <1>16

\* decrypt_and_verify on a reset message: its sender has gone, so that only the
\* soundness of the cipher that reads it is at stake.
LEMMA DecryptNoticeStep ==
    ASSUME LockstepTraffic, InStepInv, NEW g \in Gateway, DecryptNotice(g)
    PROVE  LocallySafe' /\ MovesInStep'
<1> DEFINE m == notice[g]
<1>1. /\ TypeOK /\ LocallySafe /\ ~up[Peer(g)] /\ chan[g] = <<>>
      /\ notice' = [notice EXCEPT ![g] = None] /\ UNCHANGED <<chan, alive>>
  BY DecryptNoticeEffect DEF InStepInv
<1>2. \/ up' = [up EXCEPT ![g] = FALSE] /\ plc' = Abandoned(g)
      \/ UNCHANGED <<up, plc>>
  BY DecryptNoticeEffect
<1>3. PICK fresh \in Secret, agreed \in BOOLEAN :
        /\ Sound(AfterDecrypt(cipher[g], m, fresh, agreed, FALSE))
        /\ cipher' = [cipher EXCEPT ![g] = AfterDecrypt(@, m, fresh, agreed, FALSE)]
  BY DecryptNoticeEffect
<1> HIDE DEF m
<1>10. \A h \in Gateway : up'[h] => up[h]
  BY <1>1, <1>2 DEF TypeOK
<1>11. plc' = plc \/ plc' = 0
  BY <1>2 DEF Abandoned
<1>12. Outstanding' <= 1
  <2>1. Outstanding <= 1 /\ plc \in Nat
    BY <1>1 DEF LocallySafe, TypeOK
  <2> DEFINE x == Len(chan["client"])
             y == Len(chan["server"])
  <2>2. x \in Nat /\ y \in Nat /\ x + plc + y <= 1
    BY <1>1, <2>1, Lengths DEF Outstanding
  <2>3. Outstanding' = x + plc' + y
    BY <1>1 DEF Outstanding
  <2> HIDE DEF x, y
  <2> QED
    BY <1>11, <2>1, <2>2, <2>3
<1>13. \A h \in Gateway : Sound(cipher'[h])
  BY <1>1, <1>3 DEF TypeOK, LocallySafe
<1>14. \A h \in Gateway : h # g => cipher'[h] = cipher[h]
  BY <1>3 DEF TypeOK
<1>15. \A h \in Gateway :
         up'[h] /\ chan'[h] # <<>> => SafelyOpens(cipher'[h], Head(chan'[h]))
  BY <1>1, <1>10, <1>14 DEF LocallySafe
<1>16. \A h \in Gateway : notice'[h] # None =>
         notice'[h].flag = "NONE" /\ notice'[h].secret = None /\ ~up'[Peer(h)]
  BY <1>1, <1>10, Gateways DEF TypeOK, LocallySafe
<1>17. LocallySafe'
  <2>1. ThreadsSurvive'
    BY <1>1, <1>10, ThreadsStep DEF LocallySafe
  <2> QED
    BY <1>1, <1>12, <1>13, <1>15, <1>16, <2>1 DEF LocallySafe
<1>18. MovesInStep'
  <2>1. ~up'[Peer(g)] /\ Peer(g) \in Gateway
    BY <1>1, <1>10, Gateways
  <2> QED
    BY <2>1 DEF MovesInStep, BothUp
<1> QED
  BY <1>17, <1>18

\* A gateway that leaves the session, announced or not.
LEMMA LeaveStep ==
    ASSUME InStepInv, NEW g \in Gateway, Disconnect(g) \/ End(g)
    PROVE  LocallySafe' /\ MovesInStep'
<1> DEFINE h == Peer(g)
           m == Encrypted(cipher[g], Reset, TRUE)
<1>1. h \in Gateway /\ h # g /\ Peer(h) = g /\ \A k \in Gateway : k = g \/ k = h
  BY Gateways
<1>2. /\ TypeOK /\ LocallySafe
      /\ cipher[g] \in CipherState /\ Sound(cipher[g])
  BY DEF InStepInv, LocallySafe, TypeOK
<1>3. /\ up' = [up EXCEPT ![g] = FALSE] /\ plc' = Abandoned(g)
      /\ UNCHANGED <<chan, alive>>
      /\ \/ UNCHANGED <<cipher, notice>>
         \/ /\ cipher' = [cipher EXCEPT ![g] = AfterEncrypt(@, TRUE)]
            /\ notice' = [notice EXCEPT ![h] = m]
  BY LeaveEffect
<1>4. m.flag = "NONE" /\ m.secret = None /\ Sound(AfterEncrypt(cipher[g], TRUE))
  BY <1>2, ResetSound
<1> HIDE DEF h, m
<1>5. ~up'[g] /\ up'[h] = up[h] /\ cipher'[h] = cipher[h]
  BY <1>1, <1>2, <1>3 DEF TypeOK
<1>6. Sound(cipher'[g])
  BY <1>2, <1>3, <1>4 DEF TypeOK
<1>7. Outstanding' <= 1
  <2>1. Outstanding <= 1 /\ plc \in Nat
    BY <1>2 DEF LocallySafe, TypeOK
  <2> DEFINE x == Len(chan["client"])
             y == Len(chan["server"])
  <2>2. x \in Nat /\ y \in Nat /\ x + plc + y <= 1
    BY <1>2, <2>1, Lengths DEF Outstanding
  <2>3. Outstanding' = x + plc' + y
    BY <1>3 DEF Outstanding
  <2>4. plc' = plc \/ plc' = 0
    BY <1>3 DEF Abandoned
  <2> HIDE DEF x, y
  <2> QED
    BY <2>1, <2>2, <2>3, <2>4
<1>8. \A k \in Gateway : notice'[k] # None =>
        notice'[k].flag = "NONE" /\ notice'[k].secret = None /\ ~up'[Peer(k)]
  <2>1. CASE UNCHANGED notice
    BY <1>1, <1>2, <1>5, <2>1 DEF LocallySafe, h
  <2>2. CASE notice' = [notice EXCEPT ![h] = m]
    <3>1. notice'[h] = m /\ notice'[g] = notice[g]
      BY <1>1, <1>2, <2>2 DEF TypeOK
    <3>2. notice[g] # None =>
            notice[g].flag = "NONE" /\ notice[g].secret = None /\ ~up[h]
      BY <1>2 DEF LocallySafe, h
    <3>3. notice'[g] # None =>
            notice'[g].flag = "NONE" /\ notice'[g].secret = None /\ ~up'[Peer(g)]
      BY <1>5, <3>1, <3>2 DEF h
    <3>4. notice'[h].flag = "NONE" /\ notice'[h].secret = None /\ ~up'[Peer(h)]
      BY <1>1, <1>4, <1>5, <3>1
    <3> QED
      BY <1>1, <3>3, <3>4
  <2> QED
    BY <1>3, <2>1, <2>2
<1>9. LocallySafe'
  <2>1. \A k \in Gateway : Sound(cipher'[k])
    BY <1>1, <1>2, <1>5, <1>6 DEF LocallySafe
  <2>2. \A k \in Gateway :
          up'[k] /\ chan'[k] # <<>> => SafelyOpens(cipher'[k], Head(chan'[k]))
    BY <1>1, <1>2, <1>3, <1>5 DEF LocallySafe
  <2>3. ThreadsSurvive'
    <3>1. \A k \in Gateway : up'[k] => up[k]
      BY <1>1, <1>5
    <3> QED
      BY <1>2, <1>3, <3>1, ThreadsStep DEF LocallySafe
  <2> QED
    BY <1>2, <1>3, <1>7, <1>8, <2>1, <2>2, <2>3 DEF LocallySafe
<1>10. MovesInStep'
  BY <1>5 DEF MovesInStep, BothUp
<1> QED
  BY <1>9, <1>10

\* The rekeying interval passes at one gateway.
LEMMA ExpireStep ==
    ASSUME InStepInv, NEW g \in Gateway, Expire(g)
    PROVE  LocallySafe' /\ MovesInStep'
<1> DEFINE h == Peer(g)
<1>1. h \in Gateway /\ h # g /\ Peer(h) = g /\ \A k \in Gateway : k = g \/ k = h
  BY Gateways
<1>2. /\ TypeOK /\ LocallySafe /\ MovesInStep
      /\ UNCHANGED <<chan, notice, plc, up, alive>>
      /\ cipher' = [cipher EXCEPT ![g] = Due(@)]
  BY DEF InStepInv, Expire
<1> HIDE DEF h
<1>3. cipher[g] \in CipherState /\ cipher[h] \in CipherState
  BY <1>1, <1>2 DEF TypeOK
<1>4. cipher'[g] = Due(cipher[g]) /\ cipher'[h] = cipher[h]
  BY <1>1, <1>2 DEF TypeOK
<1>5. LocallySafe'
  <2>1. \A k \in Gateway : Sound(cipher'[k])
    BY <1>1, <1>2, <1>3, <1>4, DueSound DEF LocallySafe
  <2>2. \A k \in Gateway :
          up'[k] /\ chan'[k] # <<>> => SafelyOpens(cipher'[k], Head(chan'[k]))
    BY <1>1, <1>2, <1>3, <1>4, DueSafelyOpens DEF LocallySafe
  <2>3. Outstanding' = Outstanding
    BY <1>2 DEF Outstanding
  <2>4. ThreadsSurvive'
    BY <1>2, ThreadsStep DEF LocallySafe
  <2> QED
    BY <1>2, <2>1, <2>2, <2>3, <2>4 DEF LocallySafe
<1>6. MovesInStep'
  <2> SUFFICES ASSUME BothUp'
      PROVE  /\ \A k \in Gateway :
                   chan'[k] # <<>> => Sent(cipher'[Peer(k)], cipher'[k], Head(chan'[k]))
             /\ (\A k \in Gateway : chan'[k] = <<>>) =>
                   IF plc' = 0 THEN Turn(cipher'["client"], cipher'["server"])
                               ELSE Turn(cipher'["server"], cipher'["client"])
    BY DEF MovesInStep
  <2>1. BothUp
    BY <1>2 DEF BothUp
  <2>2. \A k \in Gateway : chan[k] # <<>> => Sent(cipher[Peer(k)], cipher[k], Head(chan[k]))
    BY <1>2, <2>1 DEF MovesInStep
  <2>3. chan[g] # <<>> => Sent(cipher'[h], cipher'[g], Head(chan[g]))
    BY <1>3, <1>4, <2>2, DueSent DEF h
  <2>4. chan[h] # <<>> => Sent(cipher'[g], cipher'[h], Head(chan[h]))
    BY <1>1, <1>3, <1>4, <2>2, DueSent
  <2>5. \A k \in Gateway :
          chan'[k] # <<>> => Sent(cipher'[Peer(k)], cipher'[k], Head(chan'[k]))
    BY <1>1, <1>2, <2>3, <2>4 DEF h
  <2>6. (\A k \in Gateway : chan'[k] = <<>>) =>
          IF plc' = 0 THEN Turn(cipher'["client"], cipher'["server"])
                      ELSE Turn(cipher'["server"], cipher'["client"])
    <3>1. \A a, b \in CipherState : Turn(a, b) => Turn(Due(a), b) /\ Turn(a, Due(b))
      BY DueTurn
    <3>2. (\A k \in Gateway : chan[k] = <<>>) =>
            IF plc = 0 THEN Turn(cipher["client"], cipher["server"])
                       ELSE Turn(cipher["server"], cipher["client"])
      BY <1>2, <2>1 DEF MovesInStep
    <3>3. CASE g = "client"
      <4>1. h = "server"
        BY <3>3 DEF h, Peer
      <4> QED
        BY <1>2, <1>3, <1>4, <3>1, <3>2, <3>3, <4>1
    <3>4. CASE g = "server"
      <4>1. h = "client"
        BY <3>4 DEF h, Peer
      <4> QED
        BY <1>2, <1>3, <1>4, <3>1, <3>2, <3>4, <4>1
    <3> QED
      BY <3>3, <3>4 DEF Gateway
  <2> QED
    BY <2>5, <2>6
<1> QED
  BY <1>5, <1>6

Fresh ==
    /\ \E rekeying \in SUBSET Gateway : cipher = NewCiphers(rekeying)
    /\ chan = [g \in Gateway |-> <<>>]
    /\ notice = [g \in Gateway |-> None]
    /\ plc = 0
    /\ alive = [g \in Gateway |-> Thread]

\* A session starts with the turn at the client gateway.
LEMMA FreshSession == Fresh => LocallySafe /\ MovesInStep
<1> SUFFICES ASSUME Fresh PROVE LocallySafe /\ MovesInStep
  OBVIOUS
<1> USE DEF Fresh
<1>1. \A g \in Gateway : Sound(cipher[g])
  BY NewTurn
<1>2. Outstanding = 0
  BY DEF Outstanding, Gateway
<1>3. \A g \in Gateway : chan[g] = <<>>
  OBVIOUS
<1>4. Turn(cipher["client"], cipher["server"])
  BY NewTurn DEF Gateway
<1>5. LocallySafe
  BY <1>1, <1>2, <1>3 DEF LocallySafe, ThreadsSurvive, Thread
<1>6. MovesInStep
  BY <1>3, <1>4 DEF MovesInStep
<1> QED
  BY <1>5, <1>6

\* Every step keeps the invariant: one case per action.
LEMMA LockstepStep ==
    ASSUME LockstepTraffic, InStepInv, [Next]_vars
    PROVE  InStepInv'
<1>1. TypeOK /\ LocallySafe /\ MovesInStep /\ Outstanding <= 1
  BY DEF InStepInv, LocallySafe
<1>2. TypeOK'
  BY <1>1, TypeStep
<1>3. ASSUME NEW p \in Payload, Request(p) PROVE LocallySafe' /\ MovesInStep'
  <2>1. (\A g \in Gateway : chan[g] = <<>>) /\ plc = 0
    BY <1>1, <1>3, NothingOpen DEF Request, LockstepTraffic
  <2>2. BothUp => Turn(cipher["client"], cipher["server"])
    BY <1>1, <2>1 DEF MovesInStep
  <2>3. /\ up["client"] /\ EncryptAndSend("client", p)
        /\ UNCHANGED <<notice, up>> /\ plc' = 0
    BY <1>3, <2>1 DEF Request
  <2>4. "client" \in Gateway /\ Peer("client") = "server"
    BY DEF Gateway, Peer
  <2> QED
    BY <2>1, <2>2, <2>3, <2>4, SendStep
<1>4. ASSUME NEW p \in Payload, NEW whole \in BOOLEAN, Response(p, whole)
      PROVE  LocallySafe' /\ MovesInStep'
  <2>1. (\A g \in Gateway : chan[g] = <<>>) /\ plc = 1
    BY <1>1, <1>4, PlcBusy DEF Response
  <2>2. BothUp => Turn(cipher["server"], cipher["client"])
    BY <1>1, <2>1 DEF MovesInStep
  <2>3. whole /\ plc' = 0
    BY <1>4, <2>1 DEF Response, LockstepTraffic
  <2>4. up["server"] /\ EncryptAndSend("server", p) /\ UNCHANGED <<notice, up>>
    BY <1>4 DEF Response
  <2>5. "server" \in Gateway /\ Peer("server") = "client"
    BY DEF Gateway, Peer
  <2> QED
    BY <2>1, <2>2, <2>3, <2>4, <2>5, SendStep
<1>5. ASSUME NEW g \in Gateway, Decrypt(g) PROVE LocallySafe' /\ MovesInStep'
  BY <1>5, DecryptStep
<1>6. ASSUME NEW g \in Gateway, DecryptNotice(g) PROVE LocallySafe' /\ MovesInStep'
  BY <1>6, DecryptNoticeStep
<1>7. ASSUME NEW g \in Gateway, Disconnect(g) \/ End(g) PROVE LocallySafe' /\ MovesInStep'
  BY <1>7, LeaveStep
<1>8. ASSUME NEW g \in Gateway, Expire(g) PROVE LocallySafe' /\ MovesInStep'
  BY <1>8, ExpireStep
<1>9. ASSUME Reconnect PROVE LocallySafe' /\ MovesInStep'
  <2>1. Fresh'
    BY <1>9 DEF Reconnect, Fresh
  <2> QED
    BY <2>1, FreshSession, PTL
<1>10. ASSUME UNCHANGED vars PROVE LocallySafe' /\ MovesInStep'
  BY <1>1, <1>10 DEF vars, LocallySafe, MovesInStep, BothUp, Outstanding, ThreadsSurvive
<1> QED
  BY <1>2, <1>3, <1>4, <1>5, <1>6, <1>7, <1>8, <1>9, <1>10 DEF Next, InStepInv

----------------------------------------------------------------------------
(* What a gateway forgets                                                  *)

\* Forgets, of a rekeyer beside the key k.
Forgotten(r, k) ==
    r.role = "idle" /\ ~r.fail =>
        /\ r.own = None /\ r.peer = None
        /\ r.send = "NONE" => {r.old, r.new} \subseteq {None, k}

LEMMA ResetForgotten ==
    ASSUME NEW r \in RekeyerState, NEW k
    PROVE  Forgotten(ResetAll(r), k)
BY DEF Forgotten, ResetAll, ResetMost, ResetSym, RekeyerState

\* __update_key moves on to a key that the rekeyer may hold, or reports a failure.
LEMMA UpdateForgets ==
    ASSUME NEW c \in CipherState, NEW beforeSend \in BOOLEAN, Forgotten(c.rek, c.key)
    PROVE  LET u == UpdateKey(c, beforeSend) IN Forgotten(u.rek, u.key)
<1> DEFINE u == UpdateKey(c, beforeSend)
           r == c.rek
<1>1. r \in RekeyerState
  BY DEF CipherState
<1>2. /\ u.key = IF NewKey(r, beforeSend) # None THEN NewKey(r, beforeSend) ELSE c.key
      /\ u.rek = IF r.enabled /\ r.fail THEN ResetAll(r) ELSE r
  BY DEF UpdateKey, AfterNewKey
<1> HIDE DEF u, r
<1>3. CASE r.enabled /\ r.fail
  BY <1>1, <1>2, <1>3, ResetForgotten DEF u
<1>4. CASE ~(r.enabled /\ r.fail)
  <2>1. u.rek = r /\ (u.key = c.key \/ (u.key = r.new /\ r.new # None))
    BY <1>1, <1>2, <1>4 DEF NewKey, RekeyerState
  <2>2. Forgotten(r, c.key)
    BY DEF r
  <2> QED
    BY <2>1, <2>2 DEF Forgotten, u
<1> QED
  BY <1>3, <1>4

\* handle_rekey drops what an exchange leaves behind when it ends, in whatever way.
LEMMA HandleForgets ==
    ASSUME NEW r \in RekeyerState, NEW k \in Key, NEW flag \in RekeyStates,
           NEW secret \in Secret \cup {None}, NEW fresh \in Secret, NEW agreed \in BOOLEAN,
           ~HandleRekeyRaises(r, flag, secret), Forgotten(r, k)
    PROVE  Forgotten(HandleRekey(r, k, flag, secret, fresh, agreed), k)
<1> DEFINE s == Noted(r, k, flag, secret)
<1>1. /\ s \in RekeyerState /\ s.enabled = r.enabled /\ s.role = r.role /\ s.fail = r.fail
      /\ s.own = r.own /\ s.new = r.new
      /\ flag \notin SHARED_SECRET_FLAGS => s.peer = r.peer
  BY NotedType DEF Noted, RekeyerState
<1> HIDE DEF s
<1>2. CASE ~r.enabled
  <2>1. HandleRekey(r, k, flag, secret, fresh, agreed) = r
    BY <1>2 DEF HandleRekey
  <2> QED
    BY <2>1
<1>3. CASE r.enabled
  <2>1. SecretMatchesFlag(flag, secret)
    BY <1>3 DEF HandleRekeyRaises
  <2>2. CASE flag = "NONE"
    <3> DEFINE h == OnNone(s, fresh)
    <3>1. /\ s.due => h.role = "initiator"
          /\ ~s.due => /\ h.role = s.role /\ h.fail = s.fail /\ h.own = s.own
                       /\ h.peer = s.peer /\ h.old = None /\ h.new = None
      BY <1>1 DEF OnNone, ResetSym, RekeyerState
    <3>2. s.peer = r.peer
      BY <1>1, <2>2 DEF SHARED_SECRET_FLAGS
    <3>3. HandleRekey(r, k, flag, secret, fresh, agreed) = h
      BY <1>3, <2>1, <2>2 DEF HandleRekey, s
    <3> HIDE DEF h
    <3>4. Forgotten(h, k)
      BY <1>1, <3>1, <3>2 DEF Forgotten, RekeyerState
    <3> QED
      BY <3>3, <3>4
  <2>3. CASE flag = "INIT"
    <3> DEFINE h == OnInit(s, fresh, agreed)
               t == [s EXCEPT !.role = "replier", !.own = fresh]
    <3>1. t \in RekeyerState /\ t.role = "replier"
      BY <1>1 DEF RekeyerState, Roles
    <3>2. [t EXCEPT !.send = "FAIL"] \in RekeyerState
      BY <3>1 DEF RekeyerState, RekeyStates
    <3>3. [t EXCEPT !.send = "REPLY", !.new = Generated(t)].role = "replier"
      BY <3>1 DEF RekeyerState
    <3>4. h = IF CanGenerate(t, agreed) THEN [t EXCEPT !.send = "REPLY", !.new = Generated(t)]
              ELSE ResetAll([t EXCEPT !.send = "FAIL"])
      BY DEF OnInit
    <3>5. HandleRekey(r, k, flag, secret, fresh, agreed) = h
      BY <1>3, <2>1, <2>3 DEF HandleRekey, s
    <3> HIDE DEF h, t
    <3>6. Forgotten(h, k)
      <4>1. CASE CanGenerate(t, agreed)
        BY <3>3, <3>4, <4>1 DEF Forgotten
      <4>2. CASE ~CanGenerate(t, agreed)
        BY <3>2, <3>4, <4>2, ResetForgotten
      <4> QED
        BY <4>1, <4>2
    <3> QED
      BY <3>5, <3>6
  <2>4. [s EXCEPT !.send = "NONE"] \in RekeyerState /\ [s EXCEPT !.send = "FAIL"] \in RekeyerState
    BY <1>1 DEF RekeyerState, RekeyStates
  <2>5. CASE flag = "FAIL"
    <3>1. HandleRekey(r, k, flag, secret, fresh, agreed) = ResetAll([s EXCEPT !.send = "NONE"])
      BY <1>3, <2>1, <2>5 DEF HandleRekey, s
    <3> QED
      BY <2>4, <3>1, ResetForgotten
  <2>6. CASE flag \in {"REPLY", "SWITCH", "SWITCH_ACK"}
    <3>1. HandleRekey(r, k, flag, secret, fresh, agreed) = OnProgress(s, flag, agreed)
      BY <1>3, <2>1, <2>6 DEF HandleRekey, s
    <3>2. ~s.fail => s.role # "idle" /\ (s.role = "replier" /\ flag = "SWITCH" => s.new # None)
      BY <1>1, <1>3, <2>6 DEF HandleRekeyRaises
    <3>3. CASE s.fail
      <4>1. OnProgress(s, flag, agreed) = ResetAll([s EXCEPT !.send = "NONE"])
        BY <3>3 DEF OnProgress
      <4> QED
        BY <2>4, <3>1, <4>1, ResetForgotten
    <3>4. CASE ~s.fail /\ s.role = "initiator" /\ flag = "REPLY"
      <4>1. OnProgress(s, flag, agreed) = OnReply(s, agreed)
        BY <3>4 DEF OnProgress
      <4>2. OnReply(s, agreed).role = "initiator"
        BY <1>1, <3>4 DEF OnReply, RekeyerState
      <4> QED
        BY <3>1, <4>1, <4>2 DEF Forgotten
    <3>5. CASE ~s.fail /\ s.role = "initiator" /\ flag = "SWITCH_ACK"
      <4>1. OnProgress(s, flag, agreed) = ResetAll([s EXCEPT !.send = "NONE", !.due = FALSE])
        BY <3>5 DEF OnProgress, OnSwitchAck
      <4>2. [s EXCEPT !.send = "NONE", !.due = FALSE] \in RekeyerState
        BY <1>1 DEF RekeyerState, RekeyStates
      <4> QED
        BY <3>1, <4>1, <4>2, ResetForgotten
    <3>6. CASE ~s.fail /\ s.role = "replier" /\ flag = "SWITCH"
      <4> DEFINE t == [s EXCEPT !.send = "SWITCH_ACK", !.clear = TRUE, !.due = FALSE]
      <4>1. OnProgress(s, flag, agreed) = ResetMost(t)
        BY <3>2, <3>6 DEF OnProgress, OnSwitch
      <4>2. t \in RekeyerState /\ t.send = "SWITCH_ACK"
        BY <1>1 DEF RekeyerState, RekeyStates
      <4> HIDE DEF t
      <4>3. Forgotten(ResetMost(t), k)
        BY <4>2 DEF Forgotten, ResetMost, RekeyerState
      <4> QED
        BY <3>1, <4>1, <4>3
    <3>7. CASE /\ ~s.fail /\ ~(s.role = "initiator" /\ flag = "REPLY")
               /\ ~(s.role = "initiator" /\ flag = "SWITCH_ACK")
               /\ ~(s.role = "replier" /\ flag = "SWITCH")
      <4>1. OnProgress(s, flag, agreed) = s
        BY <3>7 DEF OnProgress
      <4> QED
        BY <3>1, <3>2, <3>7, <4>1 DEF Forgotten
    <3> QED
      BY <3>3, <3>4, <3>5, <3>6, <3>7
  <2> QED
    BY <2>2, <2>3, <2>5, <2>6 DEF RekeyStates
<1> QED
  BY <1>2, <1>3 DEF RekeyerState

\* encrypt_and_digest forgets, of a payload as of a reset message.
LEMMA SendForgets ==
    ASSUME NEW c \in CipherState, NEW isReset \in BOOLEAN, Forgets(c)
    PROVE  Forgets(AfterEncrypt(c, isReset))
<1> DEFINE u == UpdateKey(c, TRUE)
           d == AfterEncrypt(c, isReset)
<1>1. u \in CipherState /\ Forgotten(u.rek, u.key)
  BY UpdateKeyType, UpdateForgets DEF Forgets, Forgotten
<1>2. d.key = u.key /\ d.rek = AfterSendState(u.rek, isReset)
  BY DEF AfterEncrypt
<1> HIDE DEF u, d
<1>3. u.rek \in RekeyerState /\ [u.rek EXCEPT !.send = "NONE"] \in RekeyerState
  BY <1>1 DEF CipherState, RekeyerState, RekeyStates
<1>4. d.rek = ResetAll([u.rek EXCEPT !.send = "NONE"]) \/ d.rek = u.rek
  BY <1>2 DEF AfterSendState
<1>5. Forgotten(d.rek, d.key)
  BY <1>1, <1>2, <1>3, <1>4, ResetForgotten
<1> QED
  BY <1>5 DEF Forgets, Forgotten, d

\* decrypt_and_verify forgets, unless it reports a flag it cannot handle.
LEMMA ReceiveForgets ==
    ASSUME NEW c \in CipherState, NEW Body, NEW m \in PacketOf(Body), NEW replayed \in BOOLEAN,
           NEW fresh \in Secret, NEW agreed \in BOOLEAN,
           ~HandleRekeyRaises(c.rek, m.flag, m.secret), Forgets(c)
    PROVE  Forgets(AfterDecrypt(c, m, fresh, agreed, replayed))
<1> DEFINE r == HandleRekey(c.rek, c.key, m.flag, m.secret, fresh, agreed)
           h == [c EXCEPT !.rek = r]
           p == Prepared(c, m, fresh, agreed)
           d == AfterDecrypt(c, m, fresh, agreed, replayed)
<1>1. /\ c.rek \in RekeyerState /\ c.key \in Key
      /\ m.flag \in RekeyStates /\ m.secret \in Secret \cup {None}
  BY DEF CipherState, PacketOf
<1>2. r \in RekeyerState /\ Forgotten(r, c.key)
  BY <1>1, HandleRekeyType, HandleForgets DEF Forgets, Forgotten
<1>3. p = UpdateKey(h, FALSE)
  BY DEF Prepared
<1> HIDE DEF r
<1>4. h \in CipherState /\ h.rek = r /\ h.key = c.key
  BY <1>1, <1>2 DEF CipherState
<1> HIDE DEF h
<1>5. p \in CipherState /\ Forgotten(p.rek, p.key)
  BY <1>2, <1>3, <1>4, UpdateKeyType, UpdateForgets
<1>6. d = [key |-> m.key, rek |-> SetFailFlag(p.rek)] \/ d = p
  BY DEF AfterDecrypt
<1> HIDE DEF p, d
<1>7. CASE d = p
  BY <1>5, <1>7 DEF Forgets, Forgotten, d
<1>8. CASE d = [key |-> m.key, rek |-> SetFailFlag(p.rek)]
  <2>1. SetFailFlag(p.rek).fail
    BY <1>5 DEF SetFailFlag, CipherState, RekeyerState
  <2> QED
    BY <1>8, <2>1 DEF Forgets, d
<1> QED
  BY <1>6, <1>7, <1>8

LEMMA DueForgets ==
    ASSUME NEW c \in CipherState, Forgets(c)
    PROVE  Forgets(Due(c))
<1>1. c.rek \in RekeyerState
  BY DEF CipherState
<1> DEFINE r == [c.rek EXCEPT !.due = TRUE]
<1>2. /\ r.role = c.rek.role /\ r.fail = c.rek.fail /\ r.own = c.rek.own /\ r.peer = c.rek.peer
      /\ r.send = c.rek.send /\ r.old = c.rek.old /\ r.new = c.rek.new
  BY <1>1 DEF RekeyerState
<1>3. Due(c).rek = r /\ Due(c).key = c.key
  BY DEF Due
<1> HIDE DEF r
<1> QED
  BY <1>2, <1>3 DEF Forgets

LEMMA ForgetStep ==
    ASSUME LockstepTraffic, InStepInv, \A g \in Gateway : Forgets(cipher[g]), [Next]_vars
    PROVE  \A g \in Gateway : Forgets(cipher'[g])
<1>1. TypeOK /\ \A g \in Gateway : cipher[g] \in CipherState
  BY DEF InStepInv, TypeOK
<1>2. ASSUME NEW g \in Gateway, NEW c, Forgets(c), cipher' = [cipher EXCEPT ![g] = c]
      PROVE  \A k \in Gateway : Forgets(cipher'[k])
  BY <1>1, <1>2 DEF TypeOK
<1>3. ASSUME NEW g \in Gateway, NEW p \in Payload, EncryptAndSend(g, p)
      PROVE  \A k \in Gateway : Forgets(cipher'[k])
  <2>1. cipher' = [cipher EXCEPT ![g] = AfterEncrypt(cipher[g], FALSE)]
    BY <1>3, SendEffect
  <2>2. Forgets(AfterEncrypt(cipher[g], FALSE))
    BY <1>1, SendForgets
  <2> QED
    BY <1>2, <2>1, <2>2
<1>4. ASSUME NEW g \in Gateway, Decrypt(g) PROVE \A k \in Gateway : Forgets(cipher'[k])
  <2>1. PICK fresh \in Secret, agreed \in BOOLEAN :
          /\ Verdict(cipher[g], Head(chan[g]), fresh, agreed, FALSE) = "accepted"
          /\ cipher' = [cipher EXCEPT ![g] =
                          AfterDecrypt(cipher[g], Head(chan[g]), fresh, agreed, FALSE)]
    BY <1>4, DecryptEffect
  <2>2. Head(chan[g]) \in PacketOf(Payload)
    BY <1>4, DecryptEffect DEF DataPacket
  <2>3. ~HandleRekeyRaises(cipher[g].rek, Head(chan[g]).flag, Head(chan[g]).secret)
    BY <2>1 DEF Verdict
  <2>4. Forgets(AfterDecrypt(cipher[g], Head(chan[g]), fresh, agreed, FALSE))
    BY <1>1, <2>2, <2>3, ReceiveForgets
  <2> QED
    BY <1>2, <2>1, <2>4
<1>5. ASSUME NEW g \in Gateway, DecryptNotice(g) PROVE \A k \in Gateway : Forgets(cipher'[k])
  <2>1. PICK fresh \in Secret, agreed \in BOOLEAN :
          cipher' = [cipher EXCEPT ![g] = AfterDecrypt(cipher[g], notice[g], fresh, agreed, FALSE)]
    BY <1>5, DecryptNoticeEffect
  <2>2. notice[g] \in PacketOf({Reset}) /\ notice[g].flag = "NONE" /\ notice[g].secret = None
    BY <1>5, DecryptNoticeEffect DEF ResetPacket
  <2>3. ~HandleRekeyRaises(cipher[g].rek, notice[g].flag, notice[g].secret)
    BY <2>2 DEF HandleRekeyRaises, SecretMatchesFlag, SHARED_SECRET_FLAGS
  <2>4. Forgets(AfterDecrypt(cipher[g], notice[g], fresh, agreed, FALSE))
    BY <1>1, <2>2, <2>3, ReceiveForgets
  <2> QED
    BY <1>2, <2>1, <2>4
<1>6. ASSUME NEW g \in Gateway, Disconnect(g) \/ End(g)
      PROVE  \A k \in Gateway : Forgets(cipher'[k])
  <2>1. \/ UNCHANGED cipher
        \/ cipher' = [cipher EXCEPT ![g] = AfterEncrypt(cipher[g], TRUE)]
    BY <1>6, LeaveEffect
  <2>2. Forgets(AfterEncrypt(cipher[g], TRUE))
    BY <1>1, SendForgets
  <2> QED
    BY <1>2, <2>1, <2>2
<1>7. ASSUME NEW g \in Gateway, Expire(g) PROVE \A k \in Gateway : Forgets(cipher'[k])
  <2>1. cipher' = [cipher EXCEPT ![g] = Due(cipher[g])]
    BY <1>7 DEF Expire
  <2>2. Forgets(Due(cipher[g]))
    BY <1>1, DueForgets
  <2> QED
    BY <1>2, <2>1, <2>2
<1>8. ASSUME Reconnect PROVE \A k \in Gateway : Forgets(cipher'[k])
  BY <1>8 DEF Reconnect, NewCiphers, NewCipher, NewRekeyer, Forgets
<1> QED
  BY <1>3, <1>4, <1>5, <1>6, <1>7, <1>8 DEF Next, Request, Response, vars, Gateway

----------------------------------------------------------------------------
(* The reset message at the end of a session                               *)

\* It is sealed with the key that a payload would be sealed with.
LEMMA NoticeKey ==
    ASSUME NEW c \in CipherState, Sound(c)
    PROVE  Encrypted(c, Reset, TRUE).key =
             IF c.rek.enabled /\ c.rek.clear /\ c.rek.role = "initiator" /\ c.rek.new # None
             THEN c.rek.new ELSE c.key
<1>1. Encrypted(c, Reset, TRUE).key = AfterEncrypt(c, FALSE).key
  BY DEF Encrypted, AfterEncrypt
<1> QED
  BY <1>1, EncryptEffect DEF Sound

\* While a sends in its turn, b waits for it or has just been sent to by it, a
\* reset message of either end is one that the other reads, or it has a new key.
LEMMA TurnNotice ==
    ASSUME NEW a \in CipherState, NEW b \in CipherState, Turn(a, b)
    PROVE  /\ ReadsOrSwitches(b, Encrypted(a, Reset, TRUE).key)
           /\ ReadsOrSwitches(a, Encrypted(b, Reset, TRUE).key)
<1>1. InStep(a, b) /\ a.key = b.key /\ Sound(a) /\ Sound(b)
  BY InStepSound DEF Turn
<1>2. Encrypted(b, Reset, TRUE).key = b.key
  BY <1>1, NoticeKey DEF InStep, Settled
<1>3. ReadsOrSwitches(b, Encrypted(a, Reset, TRUE).key)
  <2>1. CASE a.rek.send = "SWITCH"
    <3>1. a.rek.new \in Key /\ a.rek.new = b.rek.new
      BY <1>1, <2>1 DEF InStep
    <3> QED
      BY <3>1, NoneAssumption DEF ReadsOrSwitches, NoneAssumption
  <2>2. CASE a.rek.send # "SWITCH"
    <3>1. a.rek.clear /\ a.rek.role = "initiator" => a.rek.new = a.key
      BY <1>1, <2>2 DEF InStep, Settled
    <3>2. Encrypted(a, Reset, TRUE).key = a.key
      BY <1>1, <3>1, NoticeKey
    <3> QED
      BY <1>1, <3>2 DEF ReadsOrSwitches
  <2> QED
    BY <2>1, <2>2
<1> QED
  BY <1>1, <1>2, <1>3 DEF ReadsOrSwitches

\* The receiver of a packet under way leaves.
LEMMA ReceiverNotice ==
    ASSUME NEW a \in CipherState, NEW b \in CipherState, NEW m, Sent(a, b, m)
    PROVE  ReadsOrSwitches(a, Encrypted(b, Reset, TRUE).key)
<1>1. InStep(a, b) /\ Sound(b)
  BY InStepSound DEF Sent
<1>2. Encrypted(b, Reset, TRUE).key = b.key
  BY <1>1, NoticeKey DEF InStep, Settled
<1>3. CASE a.rek.send = "SWITCH"
  <2>1. a.rek.new \in Key
    BY <1>1, <1>3 DEF InStep
  <2> QED
    BY <2>1, NoneAssumption DEF ReadsOrSwitches, NoneAssumption
<1>4. CASE a.rek.send # "SWITCH"
  BY <1>2, <1>4 DEF Sent, ReadsOrSwitches
<1> QED
  BY <1>3, <1>4

\* The sender of a packet under way leaves: its reset message follows the packet.
LEMMA SenderNotice ==
    ASSUME NEW a \in CipherState, NEW b \in CipherState, NEW Body, NEW m \in PacketOf(Body),
           Sent(a, b, m), NEW d \in {b, Due(b)}, NEW fresh \in Secret, NEW agreed \in BOOLEAN
    PROVE  ReadsOrSwitches(AfterDecrypt(d, m, fresh, agreed, FALSE), Encrypted(a, Reset, TRUE).key)
<1>1. InStep(a, b) /\ Sound(a)
  BY InStepSound DEF Sent
<1>2. d \in CipherState /\ Sent(a, d, m)
  <2>1. Due(b) \in CipherState
    BY DueFields
  <2>2. Sent(a, Due(b), m)
    BY DueSent
  <2> QED
    BY <2>1, <2>2
<1>3. Turn(AfterDecrypt(d, m, fresh, agreed, FALSE), a)
  BY <1>2, Receive
<1>4. AfterDecrypt(d, m, fresh, agreed, FALSE).key = a.key
  BY <1>3 DEF Turn
<1>5. a.rek.clear /\ a.rek.role = "initiator" => a.rek.new = a.key
  <2>1. CASE a.rek.send = "SWITCH"
    BY <2>1 DEF Sent
  <2>2. CASE a.rek.send # "SWITCH"
    BY <1>1, <2>2 DEF InStep, Settled
  <2> QED
    BY <2>1, <2>2
<1>6. Encrypted(a, Reset, TRUE).key = a.key
  BY <1>1, <1>5, NoticeKey
<1> QED
  BY <1>4, <1>6 DEF ReadsOrSwitches

NoticesFollow == \A g \in Gateway : NoticeFollows(g)

\* Whoever leaves, and whenever.
LEMMA LeaveNotice ==
    ASSUME InStepInv, NEW g \in Gateway, Disconnect(g) \/ End(g)
    PROVE  NoticesFollow'
<1> DEFINE h == Peer(g)
           k == Encrypted(cipher[g], Reset, TRUE).key
<1>1. h \in Gateway /\ h # g /\ Peer(h) = g /\ \A x \in Gateway : x = g \/ x = h
  BY Gateways
<1>2. TypeOK /\ LocallySafe /\ MovesInStep /\ cipher[g] \in CipherState /\ cipher[h] \in CipherState
  BY <1>1 DEF InStepInv, TypeOK
<1>3. /\ up[g] /\ up' = [up EXCEPT ![g] = FALSE] /\ UNCHANGED chan
      /\ \/ UNCHANGED <<cipher, notice>>
         \/ /\ cipher' = [cipher EXCEPT ![g] = AfterEncrypt(@, TRUE)]
            /\ notice' = [notice EXCEPT ![h] = Encrypted(cipher[g], Reset, TRUE)]
  BY LeaveEffect
<1> HIDE DEF h, k
<1>4. ~up'[g] /\ up'[h] = up[h] /\ cipher'[h] = cipher[h]
  BY <1>1, <1>2, <1>3 DEF TypeOK
<1>5. notice'[h] # None => notice'[h].key = k
  <2>1. notice[h] = None
    BY <1>1, <1>2, <1>3 DEF LocallySafe
  <2> QED
    BY <1>1, <1>2, <1>3, <2>1 DEF TypeOK, k
<1>6. up[h] => IF chan[h] = <<>> THEN ReadsOrSwitches(cipher[h], k)
               ELSE \A d \in {cipher[h], Due(cipher[h])}, fresh \in Secret, agreed \in BOOLEAN :
                        ReadsOrSwitches(AfterDecrypt(d, Head(chan[h]), fresh, agreed, FALSE), k)
  <2> SUFFICES ASSUME up[h]
               PROVE  IF chan[h] = <<>> THEN ReadsOrSwitches(cipher[h], k)
                      ELSE \A d \in {cipher[h], Due(cipher[h])}, fresh \in Secret, agreed \in BOOLEAN :
                             ReadsOrSwitches(AfterDecrypt(d, Head(chan[h]), fresh, agreed, FALSE), k)
    OBVIOUS
  <2>1. BothUp
    BY <1>1, <1>3, Gateways DEF h
  <2>2. \A x \in Gateway : chan[x] # <<>> => Sent(cipher[Peer(x)], cipher[x], Head(chan[x]))
    BY <1>2, <2>1 DEF MovesInStep
  <2>3. CASE chan[h] # <<>>
    <3>1. Sent(cipher[g], cipher[h], Head(chan[h]))
      BY <1>1, <2>2, <2>3
    <3>2. Head(chan[h]) \in PacketOf(Payload)
      BY <1>1, <1>2, <2>3, PacketOpen DEF LocallySafe, DataPacket
    <3> QED
      BY <1>2, <2>3, <3>1, <3>2, SenderNotice DEF k
  <2>4. CASE chan[h] = <<>> /\ chan[g] # <<>>
    <3>1. Sent(cipher[h], cipher[g], Head(chan[g]))
      BY <2>2, <2>4 DEF h
    <3> QED
      BY <1>2, <2>4, <3>1, ReceiverNotice DEF k
  <2>5. CASE chan[h] = <<>> /\ chan[g] = <<>>
    <3>1. Turn(cipher[g], cipher[h]) \/ Turn(cipher[h], cipher[g])
      <4>1. Turn(cipher["client"], cipher["server"]) \/ Turn(cipher["server"], cipher["client"])
        BY <1>1, <1>2, <2>1, <2>5 DEF MovesInStep
      <4>2. (g = "client" /\ h = "server") \/ (g = "server" /\ h = "client")
        BY DEF h, Peer, Gateway
      <4> QED
        BY <4>1, <4>2
    <3> QED
      BY <1>2, <2>5, <3>1, TurnNotice DEF k
  <2> QED
    BY <2>3, <2>4, <2>5
<1>7. NoticeFollows(h)'
  <2>1. up'[h] /\ notice'[h] # None =>
          IF chan'[h] = <<>> THEN ReadsOrSwitches(cipher'[h], notice'[h].key)
          ELSE \A d \in {cipher'[h], Due(cipher'[h])}, fresh \in Secret, agreed \in BOOLEAN :
                 ReadsOrSwitches(AfterDecrypt(d, Head(chan'[h]), fresh, agreed, FALSE), notice'[h].key)
    BY <1>3, <1>4, <1>5, <1>6
  <2> QED
    BY <2>1 DEF NoticeFollows
<1>8. NoticeFollows(g)'
  BY <1>4 DEF NoticeFollows
<1> QED
  BY <1>1, <1>7, <1>8 DEF NoticesFollow

\* A gateway that nobody has left has no reset message before it; one that reads or
\* sends on its own keeps what it has.
LEMMA AloneNotice ==
    ASSUME InStepInv, NoticesFollow, NEW g \in Gateway, NEW c, up[g], UNCHANGED up,
           cipher' = [cipher EXCEPT ![g] = c],
           up[g] /\ notice'[g] # None => chan'[g] = <<>> /\ ReadsOrSwitches(c, notice'[g].key),
           notice'[Peer(g)] = notice[Peer(g)]
    PROVE  NoticesFollow'
<1> DEFINE h == Peer(g)
<1>1. h \in Gateway /\ h # g /\ Peer(h) = g /\ \A x \in Gateway : x = g \/ x = h
  BY Gateways
<1>2. TypeOK /\ notice[h] = None
  BY <1>1 DEF InStepInv, LocallySafe
<1>3. cipher'[g] = c /\ notice'[h] = None
  BY <1>2 DEF TypeOK, h
<1> HIDE DEF h
<1>4. NoticeFollows(g)' /\ NoticeFollows(h)'
  BY <1>3 DEF NoticeFollows
<1> QED
  BY <1>1, <1>4 DEF NoticesFollow

LEMMA NoticeStep ==
    ASSUME LockstepTraffic, InStepInv, NoticesFollow, [Next]_vars
    PROVE  NoticesFollow'
<1>1. /\ TypeOK /\ LocallySafe /\ Outstanding <= 1
      /\ \A g \in Gateway : cipher[g] \in CipherState /\ Sound(cipher[g])
  BY DEF InStepInv, TypeOK, LocallySafe
<1>2. ASSUME NEW g \in Gateway, NEW p \in Payload, EncryptAndSend(g, p), up[g],
             UNCHANGED <<notice, up>>, \A k \in Gateway : chan[k] = <<>>
      PROVE  NoticesFollow'
  <2> DEFINE c == AfterEncrypt(cipher[g], FALSE)
  <2>1. /\ cipher' = [cipher EXCEPT ![g] = c]
        /\ chan' = [chan EXCEPT ![Peer(g)] = Append(@, Encrypted(cipher[g], p, FALSE))] \/ chan' = chan
    BY <1>2, SendEffect
  <2>2. chan'[g] = <<>>
    BY <1>1, <1>2, <2>1, Gateways DEF TypeOK
  <2>3. notice[g] # None => ReadsOrSwitches(cipher[g], notice[g].key)
    BY <1>2 DEF NoticesFollow, NoticeFollows
  <2>4. notice[g] # None => ReadsOrSwitches(c, notice[g].key)
    <3>1. /\ c.rek = cipher[g].rek
          /\ c.key = cipher[g].key \/ cipher[g].rek.new # None
      BY <1>1, EncryptEffect DEF Sound
    <3> QED
      BY <2>3, <3>1 DEF ReadsOrSwitches
  <2> HIDE DEF c
  <2> QED
    BY <1>2, <2>1, <2>2, <2>4, AloneNotice
<1>3. ASSUME NEW p \in Payload, Request(p) PROVE NoticesFollow'
  <2>1. \A g \in Gateway : chan[g] = <<>>
    BY <1>1, <1>3, NothingOpen DEF Request, LockstepTraffic
  <2> QED
    BY <1>2, <1>3, <2>1 DEF Request, Gateway
<1>4. ASSUME NEW p \in Payload, NEW whole \in BOOLEAN, Response(p, whole) PROVE NoticesFollow'
  <2>1. \A g \in Gateway : chan[g] = <<>>
    BY <1>1, <1>4, PlcBusy DEF Response
  <2> QED
    BY <1>2, <1>4, <2>1 DEF Response, Gateway
<1>5. ASSUME NEW g \in Gateway, Decrypt(g) PROVE NoticesFollow'
  <2>1. PICK fresh \in Secret, agreed \in BOOLEAN :
          cipher' = [cipher EXCEPT ![g] =
                       AfterDecrypt(cipher[g], Head(chan[g]), fresh, agreed, FALSE)]
    BY <1>5, DecryptEffect
  <2>2. up[g] /\ chan[g] # <<>> /\ UNCHANGED <<notice, up>> /\ chan'[g] = <<>>
    BY <1>5, DecryptEffect
  <2> DEFINE c == AfterDecrypt(cipher[g], Head(chan[g]), fresh, agreed, FALSE)
  <2>3. notice[g] # None => ReadsOrSwitches(c, notice[g].key)
    BY <2>2 DEF NoticesFollow, NoticeFollows
  <2> HIDE DEF c
  <2>4. cipher' = [cipher EXCEPT ![g] = c]
    BY <2>1 DEF c
  <2> QED
    BY <2>2, <2>3, <2>4, AloneNotice
<1>6. ASSUME NEW g \in Gateway, DecryptNotice(g) PROVE NoticesFollow'
  <2>1. /\ up[g] /\ ~up[Peer(g)] /\ notice' = [notice EXCEPT ![g] = None]
        /\ up' = [up EXCEPT ![g] = FALSE] \/ UNCHANGED up
    BY <1>6, DecryptNoticeEffect
  <2>2. notice'[g] = None /\ ~up'[Peer(g)]
    BY <1>1, <2>1, Gateways DEF TypeOK
  <2>3. NoticeFollows(g)' /\ NoticeFollows(Peer(g))'
    BY <2>2 DEF NoticeFollows
  <2> QED
    BY <2>3, Gateways DEF NoticesFollow
<1>7. ASSUME NEW g \in Gateway, Disconnect(g) \/ End(g) PROVE NoticesFollow'
  BY <1>7, LeaveNotice
<1>8. ASSUME NEW g \in Gateway, Expire(g) PROVE NoticesFollow'
  <2>1. /\ UNCHANGED <<chan, notice, up>>
        /\ cipher' = [cipher EXCEPT ![g] = Due(cipher[g])]
    BY <1>8 DEF Expire
  <2>2. cipher'[g] = Due(cipher[g]) /\ \A k \in Gateway : k # g => cipher'[k] = cipher[k]
    BY <1>1, <2>1 DEF TypeOK
  <2>3. Due(Due(cipher[g])) = Due(cipher[g])
    BY <1>1, DueFields
  <2>5. NoticeFollows(g)'
    <3> SUFFICES ASSUME up'[g], notice'[g] # None
                 PROVE  IF chan'[g] = <<>> THEN ReadsOrSwitches(cipher'[g], notice'[g].key)
                        ELSE \A d \in {cipher'[g], Due(cipher'[g])}, fresh \in Secret, agreed \in BOOLEAN :
                               ReadsOrSwitches(AfterDecrypt(d, Head(chan'[g]), fresh, agreed, FALSE),
                                               notice'[g].key)
      BY DEF NoticeFollows
    <3>1. up[g] /\ notice[g] # None /\ NoticeFollows(g)
      BY <2>1 DEF NoticesFollow
    <3>2. CASE chan[g] = <<>>
      <4>1. ReadsOrSwitches(cipher[g], notice[g].key)
        BY <3>1, <3>2 DEF NoticeFollows
      <4>2. ReadsOrSwitches(Due(cipher[g]), notice[g].key)
        BY <1>1, <4>1, DueFields DEF ReadsOrSwitches
      <4> QED
        BY <2>1, <2>2, <3>2, <4>2
    <3>3. CASE chan[g] # <<>>
      <4>1. \A fresh \in Secret, agreed \in BOOLEAN :
              ReadsOrSwitches(AfterDecrypt(Due(cipher[g]), Head(chan[g]), fresh, agreed, FALSE),
                              notice[g].key)
        BY <3>1, <3>3 DEF NoticeFollows
      <4> QED
        BY <2>1, <2>2, <2>3, <3>3, <4>1
    <3> QED
      BY <3>2, <3>3
  <2>6. \A k \in Gateway : k # g => NoticeFollows(k)'
    BY <2>1, <2>2 DEF NoticesFollow, NoticeFollows
  <2> QED
    BY <2>5, <2>6 DEF NoticesFollow
<1>9. ASSUME Reconnect PROVE NoticesFollow'
  BY <1>9 DEF Reconnect, NoticesFollow, NoticeFollows
<1>10. ASSUME UNCHANGED vars PROVE NoticesFollow'
  BY <1>10 DEF vars, NoticesFollow, NoticeFollows
<1> QED
  BY <1>3, <1>4, <1>5, <1>6, <1>7, <1>8, <1>9, <1>10 DEF Next

----------------------------------------------------------------------------
(* Switching                                                               *)

FollowsPeer(g) ==
    up[Peer(g)] /\ up'[g] /\ cipher'[g].key # cipher[g].key =>
        cipher'[g].key \in {cipher'[Peer(g)].key, cipher'[Peer(g)].rek.new}

\* The initiator switches when it announces it; the replier holds that key ready.
LEMMA TurnSwitch ==
    ASSUME NEW a \in CipherState, NEW b \in CipherState, Turn(a, b)
    PROVE  AfterEncrypt(a, FALSE).key \in {a.key, b.rek.new}
<1>1. InStep(a, b) /\ Sound(a)
  BY InStepSound DEF Turn
<1>2. a.rek.clear /\ a.rek.role = "initiator" => a.rek.new \in {a.key, b.rek.new}
  BY <1>1 DEF InStep, Settled
<1> QED
  BY <1>1, <1>2, EncryptEffect DEF Sound

LEMMA SwitchStep ==
    ASSUME LockstepTraffic, InStepInv, [Next]_vars
    PROVE  \A g \in Gateway : FollowsPeer(g)
<1>1. /\ TypeOK /\ LocallySafe /\ MovesInStep /\ Outstanding <= 1
      /\ \A g \in Gateway : cipher[g] \in CipherState
  BY DEF InStepInv, TypeOK, LocallySafe
<1>2. ASSUME NEW g \in Gateway, NEW c, cipher' = [cipher EXCEPT ![g] = c],
             up[g], up[Peer(g)] => c.key \in {cipher[g].key, cipher[Peer(g)].key, cipher[Peer(g)].rek.new}
      PROVE  \A k \in Gateway : FollowsPeer(k)
  <2> DEFINE h == Peer(g)
  <2>1. h \in Gateway /\ h # g /\ \A k \in Gateway : k = g \/ k = h
    BY Gateways
  <2> HIDE DEF h
  <2>2. cipher'[g] = c /\ cipher'[h] = cipher[h]
    BY <1>1, <1>2, <2>1 DEF TypeOK
  <2>3. FollowsPeer(g)
    BY <1>2, <2>2 DEF FollowsPeer, h
  <2>4. FollowsPeer(h)
    BY <2>2 DEF FollowsPeer
  <2> QED
    BY <2>1, <2>3, <2>4
<1>3. ASSUME NEW g \in Gateway, NEW p \in Payload, EncryptAndSend(g, p), up[g],
             BothUp => Turn(cipher[g], cipher[Peer(g)])
      PROVE  \A k \in Gateway : FollowsPeer(k)
  <2>1. cipher' = [cipher EXCEPT ![g] = AfterEncrypt(cipher[g], FALSE)]
    BY <1>3, SendEffect
  <2>2. up[Peer(g)] => AfterEncrypt(cipher[g], FALSE).key \in {cipher[g].key, cipher[Peer(g)].rek.new}
    BY <1>1, <1>3, TurnSwitch, Gateways DEF BothUp
  <2> QED
    BY <1>2, <1>3, <2>1, <2>2
<1>4. ASSUME NEW p \in Payload, Request(p) PROVE \A k \in Gateway : FollowsPeer(k)
  <2>1. (\A g \in Gateway : chan[g] = <<>>) /\ plc = 0
    BY <1>1, <1>4, NothingOpen DEF Request, LockstepTraffic
  <2>2. BothUp => Turn(cipher["client"], cipher["server"])
    BY <1>1, <2>1 DEF MovesInStep
  <2> QED
    BY <1>3, <1>4, <2>2 DEF Request, Gateway, Peer
<1>5. ASSUME NEW p \in Payload, NEW whole \in BOOLEAN, Response(p, whole)
      PROVE  \A k \in Gateway : FollowsPeer(k)
  <2>1. (\A g \in Gateway : chan[g] = <<>>) /\ plc = 1
    BY <1>1, <1>5, PlcBusy DEF Response
  <2>2. BothUp => Turn(cipher["server"], cipher["client"])
    BY <1>1, <2>1 DEF MovesInStep
  <2> QED
    BY <1>3, <1>5, <2>2 DEF Response, Gateway, Peer
<1>6. ASSUME NEW g \in Gateway, Decrypt(g) PROVE \A k \in Gateway : FollowsPeer(k)
  <2> DEFINE m == Head(chan[g])
  <2>1. up[g] /\ chan[g] # <<>> /\ m \in PacketOf(Payload)
    BY <1>6, DecryptEffect DEF DataPacket
  <2>2. PICK fresh \in Secret, agreed \in BOOLEAN :
          cipher' = [cipher EXCEPT ![g] = AfterDecrypt(cipher[g], m, fresh, agreed, FALSE)]
    BY <1>6, DecryptEffect
  <2>3. Peer(g) \in Gateway
    BY Gateways
  <2>4. up[Peer(g)] => Sent(cipher[Peer(g)], cipher[g], m)
    BY <1>1, <2>1, Gateways DEF MovesInStep, BothUp
  <2> HIDE DEF m
  <2>5. up[Peer(g)] => Turn(AfterDecrypt(cipher[g], m, fresh, agreed, FALSE), cipher[Peer(g)])
    BY <1>1, <2>1, <2>3, <2>4, Receive
  <2>6. up[Peer(g)] => AfterDecrypt(cipher[g], m, fresh, agreed, FALSE).key = cipher[Peer(g)].key
    BY <2>5 DEF Turn
  <2> QED
    BY <1>2, <2>1, <2>2, <2>6
<1>7. ASSUME NEW g \in Gateway, DecryptNotice(g) PROVE \A k \in Gateway : FollowsPeer(k)
  <2>1. up[g] /\ ~up[Peer(g)]
    BY <1>7, DecryptNoticeEffect
  <2>2. PICK c : cipher' = [cipher EXCEPT ![g] = c]
    BY <1>7, DecryptNoticeEffect
  <2> QED
    BY <1>2, <2>1, <2>2
<1>8. ASSUME NEW g \in Gateway, Disconnect(g) \/ End(g) PROVE \A k \in Gateway : FollowsPeer(k)
  <2>1. /\ up' = [up EXCEPT ![g] = FALSE]
        /\ UNCHANGED cipher \/ cipher' = [cipher EXCEPT ![g] = AfterEncrypt(cipher[g], TRUE)]
    BY <1>8, LeaveEffect
  <2>2. ~up'[g] /\ \A k \in Gateway : k # g => cipher'[k] = cipher[k]
    BY <1>1, <2>1 DEF TypeOK
  <2> QED
    BY <2>2 DEF FollowsPeer
<1>9. ASSUME NEW g \in Gateway, Expire(g) PROVE \A k \in Gateway : FollowsPeer(k)
  <2>1. up[g] /\ cipher' = [cipher EXCEPT ![g] = Due(cipher[g])] /\ Due(cipher[g]).key = cipher[g].key
    BY <1>9 DEF Expire, Due
  <2> QED
    BY <1>2, <2>1
<1>10. Reconnect => \A k \in Gateway : FollowsPeer(k)
  BY Gateways DEF Reconnect, FollowsPeer
<1>11. UNCHANGED vars => \A k \in Gateway : FollowsPeer(k)
  BY DEF vars, FollowsPeer
<1> QED
  BY <1>4, <1>5, <1>6, <1>7, <1>8, <1>9, <1>10, <1>11 DEF Next

----------------------------------------------------------------------------
(* The link as a tunnel: what travels to a gateway                         *)

Content == Payload \cup {Reset}

Bodies(s) == [i \in DOMAIN s |-> s[i].body]

Ending(n) == IF n = None THEN <<>> ELSE <<Reset>>

Queue(g) == Bodies(chan[g]) \o Ending(notice[g])

LEMMA BodiesType ==
    ASSUME NEW s \in Seq(DataPacket)
    PROVE  /\ Bodies(s) \in Seq(Content) /\ Len(Bodies(s)) = Len(s)
           /\ \A i \in 1 .. Len(s) : Bodies(s)[i] = s[i].body /\ s[i].body \in Payload
<1>1. DOMAIN s = 1 .. Len(s) /\ Len(s) \in Nat
  OBVIOUS
<1>2. \A i \in 1 .. Len(s) : s[i].body \in Payload
  <2>1. \A i \in 1 .. Len(s) : s[i] \in DataPacket
    BY ElementOfSeq
  <2> QED
    BY <2>1 DEF DataPacket, PacketOf
<1>3. \A i \in 1 .. Len(s) : s[i].body \in Content
  BY <1>2 DEF Content
<1>4. [i \in 1 .. Len(s) |-> s[i].body] \in Seq(Content)
  BY <1>1, <1>3
<1> QED
  BY <1>1, <1>2, <1>4 DEF Bodies

LEMMA BodiesAppend ==
    ASSUME NEW s \in Seq(DataPacket), NEW m \in DataPacket
    PROVE  Bodies(Append(s, m)) = Append(Bodies(s), m.body)
<1> DEFINE t == Append(s, m)
<1>1. /\ t \in Seq(DataPacket) /\ Len(s) \in Nat /\ Len(t) = Len(s) + 1
      /\ \A i \in 1 .. Len(s) : t[i] = s[i]
      /\ t[Len(s) + 1] = m
  BY AppendProperties
<1> HIDE DEF t
<1>2. m.body \in Content
  BY DEF DataPacket, PacketOf, Content
<1>3. /\ Bodies(s) \in Seq(Content) /\ Len(Bodies(s)) = Len(s)
      /\ \A i \in 1 .. Len(s) : Bodies(s)[i] = s[i].body
  BY BodiesType
<1>4. /\ Bodies(t) \in Seq(Content) /\ Len(Bodies(t)) = Len(s) + 1
      /\ \A i \in 1 .. Len(s) + 1 : Bodies(t)[i] = t[i].body
  BY <1>1, BodiesType
<1> DEFINE u == Append(Bodies(s), m.body)
<1>5. /\ u \in Seq(Content) /\ Len(u) = Len(s) + 1
      /\ \A i \in 1 .. Len(s) : u[i] = Bodies(s)[i]
      /\ u[Len(s) + 1] = m.body
  BY <1>2, <1>3, AppendProperties
<1> HIDE DEF u
<1>6. \A i \in 1 .. Len(s) + 1 : Bodies(t)[i] = u[i]
  <2> TAKE i \in 1 .. Len(s) + 1
  <2>1. CASE i = Len(s) + 1
    BY <1>1, <1>4, <1>5, <2>1
  <2>2. CASE i \in 1 .. Len(s)
    BY <1>1, <1>3, <1>4, <1>5, <2>2
  <2> QED
    BY <1>1, <2>1, <2>2
<1>7. Bodies(t) = u
  BY <1>4, <1>5, <1>6, SeqEqual
<1> QED
  BY <1>7 DEF t, u

LEMMA BodiesTail ==
    ASSUME NEW s \in Seq(DataPacket), s # <<>>
    PROVE  /\ Bodies(s) # <<>> /\ Head(Bodies(s)) = Head(s).body /\ Head(s).body \in Payload
           /\ Bodies(Tail(s)) = Tail(Bodies(s))
<1>1. /\ Bodies(s) \in Seq(Content) /\ Len(Bodies(s)) = Len(s) /\ Len(s) \in Nat /\ Len(s) > 0
      /\ \A i \in 1 .. Len(s) : Bodies(s)[i] = s[i].body /\ s[i].body \in Payload
  BY BodiesType, EmptySeq
<1>2. Bodies(s) # <<>>
  BY <1>1
<1>3. Head(Bodies(s)) = Head(s).body /\ Head(s).body \in Payload
  BY <1>1, <1>2
<1>4. /\ Tail(s) \in Seq(DataPacket) /\ Len(Tail(s)) = Len(s) - 1
      /\ \A i \in 1 .. Len(Tail(s)) : Tail(s)[i] = s[i + 1]
  BY HeadTailProperties
<1>5. /\ Tail(Bodies(s)) \in Seq(Content) /\ Len(Tail(Bodies(s))) = Len(s) - 1
      /\ \A i \in 1 .. Len(s) - 1 : Tail(Bodies(s))[i] = Bodies(s)[i + 1]
  BY <1>1, <1>2, HeadTailProperties
<1>6. /\ Bodies(Tail(s)) \in Seq(Content) /\ Len(Bodies(Tail(s))) = Len(s) - 1
      /\ \A i \in 1 .. Len(s) - 1 : Bodies(Tail(s))[i] = Tail(s)[i].body
  BY <1>4, BodiesType
<1>7. \A i \in 1 .. Len(s) - 1 : Bodies(Tail(s))[i] = Tail(Bodies(s))[i]
  <2> TAKE i \in 1 .. Len(s) - 1
  <2>1. i + 1 \in 1 .. Len(s)
    BY <1>1
  <2>2. Bodies(Tail(s))[i] = s[i + 1].body
    BY <1>4, <1>6
  <2> QED
    BY <1>1, <1>5, <2>1, <2>2
<1>8. Bodies(Tail(s)) = Tail(Bodies(s))
  BY <1>5, <1>6, <1>7, SeqEqual
<1> QED
  BY <1>2, <1>3, <1>8

LEMMA EndingType ==
    ASSUME NEW n
    PROVE  Ending(n) \in Seq(Content)
BY DEF Ending, Content

\* What travels, by what is under way.
LEMMA QueueEffect ==
    ASSUME NEW s \in Seq(DataPacket), NEW n
    PROVE  /\ n = None => Bodies(s) \o Ending(n) = Bodies(s)
           /\ n # None => Bodies(s) \o Ending(n) = Append(Bodies(s), Reset)
           /\ s # <<>> => /\ Bodies(s) \o Ending(n) # <<>>
                          /\ Head(Bodies(s) \o Ending(n)) = Head(s).body
                          /\ Tail(Bodies(s) \o Ending(n)) = Bodies(Tail(s)) \o Ending(n)
           /\ s = <<>> => Bodies(s) \o Ending(n) = Ending(n)
<1>1. Bodies(s) \in Seq(Content) /\ Ending(n) \in Seq(Content)
  BY BodiesType, EndingType
<1>2. n = None => Bodies(s) \o Ending(n) = Bodies(s)
  BY <1>1, ConcatEmptySeq DEF Ending
<1>3. n # None => Bodies(s) \o Ending(n) = Append(Bodies(s), Reset)
  BY <1>1, AppendIsConcat DEF Ending, Content
<1>4. ASSUME s # <<>>
      PROVE  /\ Bodies(s) \o Ending(n) # <<>>
             /\ Head(Bodies(s) \o Ending(n)) = Head(s).body
             /\ Tail(Bodies(s) \o Ending(n)) = Bodies(Tail(s)) \o Ending(n)
  <2>1. /\ Bodies(s) # <<>> /\ Head(Bodies(s)) = Head(s).body
        /\ Bodies(Tail(s)) = Tail(Bodies(s))
    BY <1>4, BodiesTail
  <2>2. CASE n = None
    <3>1. Tail(Bodies(s)) \o Ending(n) = Tail(Bodies(s))
      BY <1>1, <2>1, <2>2, HeadTailProperties, ConcatEmptySeq DEF Ending
    <3> QED
      BY <1>2, <2>1, <2>2, <3>1
  <2>3. CASE n # None
    <3>1. Bodies(s) \o Ending(n) = Append(Bodies(s), Reset) /\ Reset \in Content
      BY <1>3, <2>3 DEF Content
    <3>2. /\ Append(Bodies(s), Reset) # <<>>
          /\ Head(Append(Bodies(s), Reset)) = Head(Bodies(s))
          /\ Tail(Append(Bodies(s), Reset)) = Append(Tail(Bodies(s)), Reset)
      BY <1>1, <2>1, <3>1, AppendProperties, HeadTailAppend
    <3>3. Tail(Bodies(s)) \o Ending(n) = Append(Tail(Bodies(s)), Reset)
      BY <1>1, <2>1, <2>3, <3>1, HeadTailProperties, AppendIsConcat DEF Ending
    <3> QED
      BY <2>1, <3>1, <3>2, <3>3
  <2> QED
    BY <2>2, <2>3
<1>5. ASSUME s = <<>> PROVE Bodies(s) \o Ending(n) = Ending(n)
  <2>1. Bodies(s) = <<>>
    BY <1>1, <1>5, BodiesType, EmptySeq
  <2> QED
    BY <1>1, <2>1, ConcatEmptySeq
<1> QED
  BY <1>2, <1>3, <1>4, <1>5

InFlight == [g \in Gateway |-> Queue(g)]

\* A step that changes what travels to one gateway.
LEMMA FlightUpdate ==
    ASSUME NEW g \in Gateway, NEW q, Bodies(chan'[g]) \o Ending(notice'[g]) = q,
           \A k \in Gateway : k # g => chan'[k] = chan[k] /\ notice'[k] = notice[k]
    PROVE  InFlight' = [InFlight EXCEPT ![g] = q]
<1>1. Queue(g)' = q
  BY DEF Queue
<1>2. \A k \in Gateway : k # g => Queue(k)' = Queue(k)
  BY DEF Queue
<1>3. InFlight' = [k \in Gateway |-> Queue(k)']
  BY DEF InFlight
<1>4. [InFlight EXCEPT ![g] = q] = [k \in Gateway |-> IF k = g THEN q ELSE Queue(k)]
  BY DEF InFlight
<1>5. \A k \in Gateway : Queue(k)' = IF k = g THEN q ELSE Queue(k)
  BY <1>1, <1>2
<1> QED
  BY <1>3, <1>4, <1>5

LEMMA TunnelPut ==
    ASSUME InStepInv, NEW g \in Gateway, NEW p \in Payload, EncryptAndSend(g, p), up[g],
           UNCHANGED notice, chan' # chan
    PROVE  InFlight' = [InFlight EXCEPT ![Peer(g)] = Append(InFlight[Peer(g)], p)]
<1> DEFINE h == Peer(g)
           m == Encrypted(cipher[g], p, FALSE)
<1>1. h \in Gateway /\ h # g /\ Peer(h) = g
  BY Gateways
<1>2. m \in DataPacket /\ chan' = [chan EXCEPT ![h] = Append(@, m)]
  BY SendEffect
<1>3. chan[h] \in Seq(DataPacket) /\ notice[h] = None
  BY <1>1 DEF InStepInv, TypeOK, LocallySafe
<1>4. m.body = p
  BY DEF Encrypted
<1> HIDE DEF h, m
<1>5. chan'[h] = Append(chan[h], m) /\ \A k \in Gateway : k # h => chan'[k] = chan[k]
  BY <1>1, <1>2 DEF InStepInv, TypeOK
<1>6. chan'[h] \in Seq(DataPacket)
  BY <1>2, <1>3, <1>5, AppendProperties
<1>7. Bodies(chan'[h]) \o Ending(notice'[h]) = Bodies(chan'[h])
  BY <1>3, <1>6, QueueEffect
<1>8. Bodies(chan'[h]) = Append(Bodies(chan[h]), p)
  BY <1>2, <1>3, <1>4, <1>5, BodiesAppend
<1>9. InFlight[h] = Bodies(chan[h])
  BY <1>1, <1>3, QueueEffect DEF InFlight, Queue
<1>10. Bodies(chan'[h]) \o Ending(notice'[h]) = Append(InFlight[h], p)
  BY <1>7, <1>8, <1>9
<1>11. InFlight' = [InFlight EXCEPT ![h] = Append(InFlight[h], p)]
  BY <1>1, <1>5, <1>10, FlightUpdate
<1> QED
  BY <1>11 DEF h

LEMMA TunnelTake ==
    ASSUME LockstepTraffic, InStepInv, NEW g \in Gateway, Decrypt(g)
    PROVE  /\ InFlight[g] # <<>> /\ Head(InFlight[g]) \in Payload
           /\ delivered' = [delivered EXCEPT ![g] = Head(InFlight[g])]
           /\ InFlight' = [InFlight EXCEPT ![g] = Tail(InFlight[g])]
<1>1. /\ chan[g] # <<>> /\ chan' = [chan EXCEPT ![g] = Tail(@)] /\ UNCHANGED notice
      /\ delivered' = [delivered EXCEPT ![g] = Head(chan[g]).body]
  BY DecryptEffect
<1>2. chan \in [Gateway -> Seq(DataPacket)] /\ chan[g] \in Seq(DataPacket)
  BY DEF InStepInv, TypeOK
<1>3. InFlight[g] = Bodies(chan[g]) \o Ending(notice[g])
  BY DEF InFlight, Queue
<1>4. /\ InFlight[g] # <<>> /\ Head(InFlight[g]) = Head(chan[g]).body
      /\ Tail(InFlight[g]) = Bodies(Tail(chan[g])) \o Ending(notice[g])
  <2> DEFINE q == Bodies(chan[g]) \o Ending(notice[g])
  <2>1. /\ q # <<>> /\ Head(q) = Head(chan[g]).body
        /\ Tail(q) = Bodies(Tail(chan[g])) \o Ending(notice[g])
    BY <1>1, <1>2, QueueEffect
  <2> HIDE DEF q
  <2>2. InFlight[g] = q
    BY <1>3 DEF q
  <2> QED
    BY <2>1, <2>2
<1>5. Head(chan[g]).body \in Payload
  BY <1>1, <1>2, BodiesTail
<1>6. chan'[g] = Tail(chan[g]) /\ \A k \in Gateway : k # g => chan'[k] = chan[k]
  BY <1>1, <1>2
<1>7. Bodies(chan'[g]) \o Ending(notice'[g]) = Tail(InFlight[g])
  BY <1>1, <1>4, <1>6
<1>8. InFlight' = [InFlight EXCEPT ![g] = Tail(InFlight[g])]
  BY <1>1, <1>6, <1>7, FlightUpdate
<1> QED
  BY <1>1, <1>4, <1>5, <1>8

LEMMA TunnelNotice ==
    ASSUME LockstepTraffic, InStepInv, NEW g \in Gateway, DecryptNotice(g)
    PROVE  /\ InFlight[g] # <<>> /\ Head(InFlight[g]) = Reset
           /\ InFlight' = [InFlight EXCEPT ![g] = Tail(InFlight[g])]
<1>1. /\ chan[g] = <<>> /\ notice[g] # None /\ UNCHANGED chan
      /\ notice' = [notice EXCEPT ![g] = None]
  BY DEF DecryptNotice
<1>2. chan[g] \in Seq(DataPacket) /\ notice'[g] = None
  BY <1>1 DEF InStepInv, TypeOK
<1>3. InFlight[g] = Ending(notice[g]) /\ Ending(notice[g]) = <<Reset>>
  BY <1>1, <1>2, QueueEffect DEF InFlight, Queue, Ending
<1>4. InFlight[g] # <<>> /\ Head(InFlight[g]) = Reset /\ Tail(InFlight[g]) = <<>>
  BY <1>3
<1>5. Bodies(chan'[g]) \o Ending(notice'[g]) = Ending(notice'[g]) /\ Ending(notice'[g]) = <<>>
  BY <1>1, <1>2, QueueEffect DEF Ending
<1>6. \A k \in Gateway : k # g => chan'[k] = chan[k] /\ notice'[k] = notice[k]
  BY <1>1 DEF InStepInv, TypeOK
<1>7. Bodies(chan'[g]) \o Ending(notice'[g]) = Tail(InFlight[g])
  BY <1>4, <1>5
<1>8. InFlight' = [InFlight EXCEPT ![g] = Tail(InFlight[g])]
  BY <1>6, <1>7, FlightUpdate
<1> QED
  BY <1>4, <1>8

LEMMA TunnelLeave ==
    ASSUME InStepInv, NEW g \in Gateway, Disconnect(g) \/ End(g)
    PROVE  \/ InFlight' = [InFlight EXCEPT ![Peer(g)] = Append(InFlight[Peer(g)], Reset)]
           \/ UNCHANGED InFlight
<1> DEFINE h == Peer(g)
           m == Encrypted(cipher[g], Reset, TRUE)
<1>1. h \in Gateway /\ h # g /\ Peer(h) = g
  BY Gateways
<1>2. /\ up[g] /\ UNCHANGED chan
      /\ UNCHANGED notice \/ notice' = [notice EXCEPT ![h] = m]
  BY LeaveEffect
<1>3. UNCHANGED notice => UNCHANGED InFlight
  BY <1>2 DEF InFlight, Queue
<1>4. ASSUME notice' = [notice EXCEPT ![h] = m]
      PROVE  \/ InFlight' = [InFlight EXCEPT ![h] = Append(InFlight[h], Reset)]
             \/ UNCHANGED InFlight
  <2> HIDE DEF h, m
  <2>1. CASE m = None
    <3>1. \A k \in Gateway : notice'[k] = notice[k]
      BY <1>1, <1>2, <1>4, <2>1 DEF InStepInv, TypeOK, LocallySafe
    <3> QED
      BY <1>2, <3>1 DEF InFlight, Queue
  <2>2. chan[h] \in Seq(DataPacket) /\ notice[h] = None /\ notice'[h] = m
    BY <1>1, <1>2, <1>4 DEF InStepInv, TypeOK, LocallySafe
  <2>3. m # None => Bodies(chan'[h]) \o Ending(notice'[h]) = Append(Bodies(chan[h]), Reset)
    BY <1>2, <2>2, QueueEffect
  <2>4. InFlight[h] = Bodies(chan[h])
    BY <1>1, <2>2, QueueEffect DEF InFlight, Queue
  <2>5. \A k \in Gateway : k # h => chan'[k] = chan[k] /\ notice'[k] = notice[k]
    BY <1>2, <1>4 DEF InStepInv, TypeOK
  <2>6. m # None => InFlight' = [InFlight EXCEPT ![h] = Append(InFlight[h], Reset)]
    BY <1>1, <2>3, <2>4, <2>5, FlightUpdate
  <2> QED
    BY <2>1, <2>6
<1> QED
  BY <1>2, <1>3, <1>4

LEMMA TunnelStep ==
    ASSUME LockstepTraffic, InStepInv, Next
    PROVE  T!TunnelNext \/ UNCHANGED <<InFlight, delivered, up>>
<1>1. ASSUME NEW g \in Gateway, NEW p \in Payload, EncryptAndSend(g, p), up[g],
             UNCHANGED <<notice, up, delivered>>
      PROVE  T!Put(g, Peer(g), p) \/ UNCHANGED <<InFlight, delivered, up>>
  <2>1. CASE chan' # chan
    <3>1. InFlight' = [InFlight EXCEPT ![Peer(g)] = Append(InFlight[Peer(g)], p)]
      BY <1>1, <2>1, TunnelPut
    <3> QED
      BY <1>1, <3>1, Gateways DEF T!Put, InFlight, Queue, Bodies, Ending
  <2>2. CASE chan' = chan
    BY <1>1, <2>2 DEF InFlight, Queue
  <2> QED
    BY <2>1, <2>2
<1>2. ASSUME NEW g \in Gateway, Decrypt(g) PROVE T!Take(g)
  <2>1. /\ InFlight[g] # <<>> /\ Head(InFlight[g]) \in Payload
        /\ delivered' = [delivered EXCEPT ![g] = Head(InFlight[g])]
        /\ InFlight' = [InFlight EXCEPT ![g] = Tail(InFlight[g])]
    BY <1>2, TunnelTake
  <2>2. up[g] /\ UNCHANGED up
    BY <1>2, DecryptEffect
  <2> QED
    BY <2>1, <2>2 DEF T!Take, InFlight, Queue, Bodies, Ending
<1>3. ASSUME NEW g \in Gateway, DecryptNotice(g) PROVE T!LoseReset(g) \/ T!Close(g, Peer(g))
  <2>1. /\ InFlight[g] # <<>> /\ Head(InFlight[g]) = Reset
        /\ InFlight' = [InFlight EXCEPT ![g] = Tail(InFlight[g])]
    BY <1>3, TunnelNotice
  <2>2. /\ up[g] /\ UNCHANGED delivered
        /\ up' = [up EXCEPT ![g] = FALSE] \/ UNCHANGED up
    BY <1>3, DecryptNoticeEffect
  <2> QED
    BY <2>1, <2>2, Gateways DEF T!LoseReset, T!Close, InFlight, Queue, Bodies, Ending
<1>4. ASSUME NEW g \in Gateway, Disconnect(g) \/ End(g) PROVE T!Close(g, Peer(g))
  <2>1. \/ InFlight' = [InFlight EXCEPT ![Peer(g)] = Append(InFlight[Peer(g)], Reset)]
        \/ UNCHANGED InFlight
    BY <1>4, TunnelLeave
  <2>2. up[g] /\ up' = [up EXCEPT ![g] = FALSE] /\ UNCHANGED delivered
    BY <1>4, LeaveEffect
  <2> QED
    BY <2>1, <2>2, Gateways DEF T!Close, InFlight, Queue, Bodies, Ending
<1>5. ASSUME NEW g \in Gateway, Expire(g) PROVE UNCHANGED <<InFlight, delivered, up>>
  BY <1>5 DEF Expire, InFlight, Queue
<1>6. ASSUME Reconnect PROVE T!Reopen
  <2>1. \A g \in Gateway : Queue(g)' = <<>>
    BY <1>6 DEF Reconnect, Queue, Bodies, Ending
  <2>2. InFlight' = [g \in Gateway |-> <<>>]
    BY <2>1 DEF InFlight
  <2> QED
    BY <1>6, <2>2 DEF Reconnect, T!Reopen, InFlight, Queue, Bodies, Ending
<1>7. \A g \in Gateway : Peer(g) \in Gateway
  BY Gateways
<1> QED
  BY <1>1, <1>2, <1>3, <1>4, <1>5, <1>6, <1>7 DEF Next, Request, Response, Gateway, T!TunnelNext

----------------------------------------------------------------------------
(* Theorems                                                                *)

LEMMA InStepInvariant ==
    ASSUME LockstepTraffic
    PROVE  Spec => []InStepInv
<1>1. Init => InStepInv
  <2>1. Init => Fresh
    BY LinkAssumption DEF Init, Fresh, LinkAssumption
  <2> QED
    BY <2>1, TypeInit, FreshSession DEF InStepInv
<1>2. InStepInv /\ [Next]_vars => InStepInv'
  BY LockstepStep
<1> QED
  BY <1>1, <1>2, PTL DEF Spec

\* The two ciphers move in step, whatever the key agreement and the timers do
\* and whoever leaves the session when, as long as there is one transaction at
\* a time and nothing is late.  What an exchange leaves behind is known too.
THEOREM LockstepInvariant ==
    ASSUME LockstepTraffic
    PROVE  Spec => []LockstepInv
<1> DEFINE Kept == (\A g \in Gateway : Forgets(cipher[g])) /\ NoticesFollow
<1>1. Init => Kept
  <2> SUFFICES ASSUME Init PROVE Kept
    OBVIOUS
  <2>1. \A g \in Gateway : Forgets(cipher[g])
    BY DEF Init, NewCiphers, NewCipher, NewRekeyer, Forgets
  <2>2. NoticesFollow
    BY DEF Init, NoticesFollow, NoticeFollows
  <2> QED
    BY <2>1, <2>2
<1>2. InStepInv /\ Kept /\ [Next]_vars => Kept'
  BY ForgetStep, NoticeStep
<1>3. LockstepInv <=> InStepInv /\ Kept
  BY DEF LockstepInv, NoticesFollow
<1> HIDE DEF Kept
<1> QED
  BY <1>1, <1>2, <1>3, InStepInvariant, PTL DEF Spec

\* A gateway at rest holds no ephemeral secret and no key besides the one in use.
THEOREM ForwardSecrecy ==
    ASSUME LockstepTraffic
    PROVE  Spec => []AtRestForgets
<1>1. LockstepInv => AtRestForgets
  BY DEF LockstepInv, Forgets, AtRestForgets
<1> QED
  BY <1>1, LockstepInvariant, PTL

\* The reset message at the end of a session is read, unless the switch to a new
\* key lies between the two ends.
THEOREM NoticeReadable ==
    ASSUME LockstepTraffic
    PROVE  Spec => []ResetReadable
<1>1. LockstepInv => ResetReadable
  <2> SUFFICES ASSUME LockstepInv, NEW g \in Gateway, up[g], chan[g] = <<>>, notice[g] # None,
                      notice[g].key = cipher[g].key \/ cipher[g].rek.new = None
               PROVE  Opens(g, notice[g])
    BY DEF ResetReadable
  <2>1. /\ cipher[g] \in CipherState /\ notice[g] \in PacketOf({Reset}) /\ Sound(cipher[g])
        /\ notice[g].flag = "NONE" /\ notice[g].secret = None
    BY DEF LockstepInv, InStepInv, TypeOK, LocallySafe, ResetPacket
  <2>2. notice[g].key = cipher[g].key
    BY DEF LockstepInv, NoticeFollows, ReadsOrSwitches
  <2>3. FreshSecrets \subseteq Secret /\ AgreementOutcomes \subseteq BOOLEAN
    BY FreshSecretsType, LinkAssumption DEF LinkAssumption
  <2> QED
    BY <2>1, <2>2, <2>3, NoticeSound DEF Opens
<1> QED
  BY <1>1, LockstepInvariant, PTL

\* A packet is never opened by the second attempt, with the key of a rekeying
\* that failed: the attempt would leave the cipher unsound.
THEOREM FallbackNeverUsed ==
    ASSUME LockstepTraffic
    PROVE  Spec => []FallbackUnused
<1>1. InStepInv => FallbackUnused
  <2> SUFFICES ASSUME InStepInv, NEW g \in Gateway, up[g], chan[g] # <<>>,
                      NEW fresh \in FreshSecrets, NEW agreed \in AgreementOutcomes,
                      ~HandleRekeyRaises(cipher[g].rek, Head(chan[g]).flag, Head(chan[g]).secret),
                      OpensWithOld(Prepared(cipher[g], Head(chan[g]), fresh, agreed), Head(chan[g]))
               PROVE  FALSE
    BY DEF FallbackUnused
  <2> DEFINE c == cipher[g]
             m == Head(chan[g])
             p == Prepared(c, m, fresh, agreed)
  <2>1. fresh \in Secret /\ agreed \in BOOLEAN /\ c \in CipherState /\ m \in PacketOf(Payload)
    BY FreshSecretsType, LinkAssumption, HeadTailProperties
    DEF LinkAssumption, InStepInv, TypeOK, DataPacket
  <2>2. Sound(AfterDecrypt(c, m, fresh, agreed, FALSE))
    BY <2>1 DEF InStepInv, LocallySafe, SafelyOpens
  <2> HIDE DEF c, m
  <2>3. AfterDecrypt(c, m, fresh, agreed, FALSE).rek = SetFailFlag(p.rek)
    BY DEF AfterDecrypt, c, m
  <2>4. p \in CipherState
    BY <2>1, PreparedType
  <2> HIDE DEF p
  <2>5. SetFailFlag(p.rek).fail
    BY <2>4 DEF CipherState, RekeyerState, SetFailFlag
  <2> QED
    BY <2>2, <2>3, <2>5 DEF Sound
<1> QED
  BY <1>1, InStepInvariant, PTL

\* No gateway ever moves to a key that its live peer neither uses nor holds ready.
THEOREM SwitchedTogether ==
    ASSUME LockstepTraffic
    PROVE  Spec => SwitchTogether
<1> DEFINE Together ==
             \A g \in Gateway :
                 up[Peer(g)] /\ up'[g] /\ cipher'[g].key # cipher[g].key =>
                     LET k == cipher'[g].key
                         c == cipher'[Peer(g)]
                     IN  k = c.key \/ k = c.rek.new
<1>1. InStepInv /\ [Next]_vars => [Together]_vars
  BY SwitchStep DEF FollowsPeer
<1> QED
  BY <1>1, InStepInvariant, PTL DEF Spec, SwitchTogether

\* decrypt_and_verify then reports no honest data packet as tampered.
THEOREM AlwaysReadable ==
    ASSUME LockstepTraffic
    PROVE  Spec => []DataReadable
<1>1. InStepInv => DataReadable
  <2> SUFFICES ASSUME InStepInv, NEW g \in Gateway, up[g], chan[g] # <<>>,
                      NEW fresh \in FreshSecrets, NEW agreed \in AgreementOutcomes
               PROVE  Verdict(cipher[g], Head(chan[g]), fresh, agreed, FALSE) = "accepted"
    BY DEF DataReadable, Opens
  <2>1. fresh \in Secret /\ agreed \in BOOLEAN
    BY FreshSecretsType, LinkAssumption DEF LinkAssumption
  <2>2. SafelyOpens(cipher[g], Head(chan[g]))
    BY DEF InStepInv, LocallySafe
  <2> QED
    BY <2>1, <2>2 DEF SafelyOpens
<1> QED
  BY <1>1, InStepInvariant, PTL

\* The two handlers of a rekeying never run at both ends at once.
THEOREM NeverBothInitiate ==
    ASSUME LockstepTraffic
    PROVE  Spec => []OneInitiator
<1>1. \A a, b \in CipherState :
        InStep(a, b) => a.rek.role # "initiator" \/ b.rek.role # "initiator"
  BY DEF InStep, Initiating
<1>2. InStepInv => OneInitiator
  <2> SUFFICES ASSUME InStepInv, BothUp
               PROVE  cipher["client"].rek.role # "initiator" \/ cipher["server"].rek.role # "initiator"
    BY DEF OneInitiator, BothUp, Gateway
  <2>1. cipher["client"] \in CipherState /\ cipher["server"] \in CipherState
    BY DEF InStepInv, TypeOK, Gateway
  <2>2. InStep(cipher["client"], cipher["server"]) \/ InStep(cipher["server"], cipher["client"])
    <3>1. CASE \A g \in Gateway : chan[g] = <<>>
      BY <3>1 DEF InStepInv, MovesInStep, Turn
    <3>2. CASE \E g \in Gateway : chan[g] # <<>>
      BY <3>2 DEF InStepInv, MovesInStep, Sent, Gateway, Peer
    <3> QED
      BY <3>1, <3>2
  <2> QED
    BY <1>1, <2>1, <2>2
<1> QED
  BY <1>2, InStepInvariant, PTL

\* With nothing under way the two gateways hold the same key.
THEOREM SameKeyAtRest ==
    ASSUME LockstepTraffic
    PROVE  Spec => []KeysAgree
<1>1. InStepInv => KeysAgree
  BY DEF InStepInv, MovesInStep, BothUp, Turn, KeysAgree
<1> QED
  BY <1>1, InStepInvariant, PTL

\* No exception ends a forwarding thread.
THEOREM NoThreadDies ==
    ASSUME LockstepTraffic
    PROVE  Spec => []ThreadsSurvive
<1>1. InStepInv => ThreadsSurvive
  BY DEF InStepInv, LocallySafe
<1> QED
  BY <1>1, InStepInvariant, PTL

\* The link keeps what a tunnel promises: every payload is handed on exactly once,
\* unchanged and in order, and only the notice that a session ends may get lost.
THEOREM LinkImplementsTunnel ==
    ASSUME LockstepTraffic
    PROVE  Spec => TunnelImplemented
<1>1. Init => T!TunnelInit
  <2> SUFFICES ASSUME Init PROVE T!TunnelInit
    OBVIOUS
  <2>1. \A g \in Gateway : Queue(g) = <<>>
    BY DEF Init, Queue, Bodies, Ending
  <2>2. InFlight = [g \in Gateway |-> <<>>]
    BY <2>1 DEF InFlight
  <2> QED
    BY <2>2 DEF Init, T!TunnelInit, InFlight, Queue, Bodies, Ending
<1>2. InStepInv /\ [Next]_vars => [T!TunnelNext]_(T!tunnelVars)
  <2> SUFFICES ASSUME InStepInv, [Next]_vars
               PROVE  T!TunnelNext \/ UNCHANGED <<InFlight, delivered, up>>
    BY DEF T!tunnelVars, InFlight, Queue, Bodies, Ending
  <2>1. CASE Next
    BY <2>1, TunnelStep
  <2>2. CASE UNCHANGED vars
    BY <2>2 DEF vars, InFlight, Queue
  <2> QED
    BY <2>1, <2>2
<1> QED
  BY <1>1, <1>2, InStepInvariant, PTL DEF Spec, TunnelImplemented, T!TunnelSpec
=============================================================================
