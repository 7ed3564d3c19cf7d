------------------------- MODULE ThreadedLinkProofs -------------------------
(***************************************************************************)
(* One transaction at a time, nobody needs the lock that SymCipher does    *)
(* not have: the two threads of a gateway are never in a call at once.     *)
(*                                                                         *)
(* There is one token, Outstanding: a packet under way or a request at the *)
(* PLC.  A call of decrypt_and_verify works on a packet that stays under   *)
(* way until the call ends, a response is sealed while its request is      *)
(* still counted, and a request is sealed only where there is no token.    *)
(*                                                                         *)
(* So a call finds the cipher to itself, and is what SecureLink takes it   *)
(* for: a step of a thread that ends a call is SecureLink's step, and any  *)
(* other changes nothing that SecureLink sees.  For this each call keeps   *)
(* what it began with (Sealing, Opening), and how far it has got from      *)
(* there (Reached).  What is proved of SecureLink's ciphers between calls  *)
(* then holds within them.                                                 *)
(***************************************************************************)
EXTENDS ThreadedLink, TLAPS

\* A sequence, of whatever it contains.
IsSequence(s) == s \in Seq({s[i] : i \in DOMAIN s})

Channels == \A g \in Gateway : IsSequence(chan[g])

TokenInv ==
    /\ chan = [g \in Gateway |-> chan[g]] /\ Channels /\ plc \in Nat
    /\ seal = [g \in Gateway |-> seal[g]] /\ open = [g \in Gateway |-> open[g]]
    /\ Outstanding <= Window
    /\ seal["client"].pc # "idle" => Outstanding < Window
    /\ seal["server"].pc # "idle" => plc > 0
    /\ \A g \in Gateway : open[g].pc # "idle" => chan[g] # <<>>

LEMMA EmptyFacts == IsSequence(<<>>) /\ Len(<<>>) = 0
BY DEF IsSequence

LEMMA LenFacts ==
    ASSUME NEW s, IsSequence(s)
    PROVE  Len(s) \in Nat /\ (s # <<>> <=> Len(s) > 0)
<1> DEFINE C == {s[i] : i \in DOMAIN s}
<1>1. s \in Seq(C)
  BY DEF IsSequence
<1> HIDE DEF C
<1> QED
  BY <1>1

LEMMA IsSequenceOf ==
    ASSUME NEW S, NEW s \in Seq(S)
    PROVE  IsSequence(s)
<1>1. s = [i \in 1 .. Len(s) |-> s[i]] /\ Len(s) \in Nat /\ DOMAIN s = 1 .. Len(s)
  OBVIOUS
<1> DEFINE C == {s[i] : i \in DOMAIN s}
<1>2. \A i \in 1 .. Len(s) : s[i] \in C
  BY <1>1
<1> HIDE DEF C
<1>3. s \in Seq(C)
  BY <1>1, <1>2
<1> QED
  BY <1>3 DEF C, IsSequence

LEMMA AppendFacts ==
    ASSUME NEW s, IsSequence(s), NEW m
    PROVE  IsSequence(Append(s, m)) /\ Len(Append(s, m)) = Len(s) + 1
<1> DEFINE C == {s[i] : i \in DOMAIN s}
<1>1. s \in Seq(C)
  BY DEF IsSequence
<1> HIDE DEF C
<1>2. s \in Seq(C \cup {m}) /\ m \in C \cup {m}
  BY <1>1
<1>3. Append(s, m) \in Seq(C \cup {m}) /\ Len(Append(s, m)) = Len(s) + 1
  BY <1>2
<1> QED
  BY <1>3, IsSequenceOf

LEMMA TailFacts ==
    ASSUME NEW s, IsSequence(s), s # <<>>
    PROVE  IsSequence(Tail(s)) /\ Len(Tail(s)) = Len(s) - 1
<1> DEFINE C == {s[i] : i \in DOMAIN s}
<1>1. s \in Seq(C)
  BY DEF IsSequence
<1> HIDE DEF C
<1>2. Tail(s) \in Seq(C) /\ Len(Tail(s)) = Len(s) - 1
  BY <1>1
<1> QED
  BY <1>2, IsSequenceOf

----------------------------------------------------------------------------

\* Where the token is, and who works on it.
LEMMA TokenFacts ==
    ASSUME TokenInv
    PROVE  /\ \A g \in Gateway : Len(chan[g]) \in Nat /\ (chan[g] # <<>> <=> Len(chan[g]) > 0)
           /\ plc \in Nat /\ Window \in Nat /\ Outstanding \in Nat
           /\ Outstanding = Len(chan["client"]) + plc + Len(chan["server"])
<1>1. \A g \in Gateway : Len(chan[g]) \in Nat /\ (chan[g] # <<>> <=> Len(chan[g]) > 0)
  BY LenFacts DEF TokenInv, Channels
<1> QED
  BY <1>1, LinkAssumption DEF LinkAssumption, Gateway, TokenInv, Outstanding

LEMMA TokenInit == ThreadedInit => TokenInv
BY EmptyFacts, LinkAssumption DEF ThreadedInit, Init, TokenInv, Channels, Outstanding, Gateway,
   NoSeal, NoOpen, LinkAssumption

\* A step that moves no token and begins no call.
LEMMA NothingMoves ==
    ASSUME TokenInv, UNCHANGED <<chan, plc>>,
           seal' = [g \in Gateway |-> seal'[g]], open' = [g \in Gateway |-> open'[g]],
           \A g \in Gateway : /\ seal'[g].pc # "idle" => seal[g].pc # "idle"
                              /\ open'[g].pc # "idle" => open[g].pc # "idle"
    PROVE  TokenInv'
<1>1. Outstanding' = Outstanding /\ Channels'
  BY DEF Outstanding, TokenInv, Channels
<1>2. /\ seal'["client"].pc # "idle" => Outstanding' < Window
      /\ seal'["server"].pc # "idle" => plc' > 0
  BY <1>1 DEF TokenInv, Gateway
<1>3. \A g \in Gateway : open'[g].pc # "idle" => chan'[g] # <<>>
  BY DEF TokenInv
<1> QED
  BY <1>1, <1>2, <1>3 DEF TokenInv

LEMMA SealStep ==
    ASSUME TokenInv, NEW g \in Gateway,
           (\E p \in Payload : StartSeal(g, p)) \/ SealBody(g) \/ AskFlag(g) \/ AskSecret(g)
    PROVE  TokenInv'
<1>1. ASSUME NEW p \in Payload, StartSeal(g, p) PROVE TokenInv'
  BY <1>1 DEF StartSeal, TokenInv, Channels, Outstanding, Gateway
<1>2. CASE SealBody(g)
  BY <1>2, NothingMoves DEF SealBody, TokenInv
<1>3. CASE AskFlag(g)
  BY <1>3, NothingMoves DEF AskFlag, TokenInv
<1>4. CASE AskSecret(g)
  <2> DEFINE m == [flag |-> seal[g].flag, secret |-> OwnPublicSecret(cipher[g].rek),
                   key  |-> seal[g].key, body |-> seal[g].body]
  <2>1. /\ open' = open /\ seal' = [seal EXCEPT ![g] = NoSeal] /\ seal[g].pc = "secret"
        /\ plc' = IF g = "server" THEN plc - 1 ELSE plc
        /\ chan' = chan \/ chan' = [chan EXCEPT ![Peer(g)] = Append(@, m)]
    BY <1>4 DEF AskSecret
  <2>2. /\ Peer(g) \in Gateway /\ IsSequence(chan[Peer(g)]) /\ IsSequence(Append(chan[Peer(g)], m))
        /\ Len(Append(chan[Peer(g)], m)) = Len(chan[Peer(g)]) + 1
    BY AppendFacts DEF Peer, Gateway, TokenInv, Channels
  <2> HIDE DEF m
  <2>3. \A h \in Gateway : IsSequence(chan'[h]) /\ (chan[h] # <<>> => chan'[h] # <<>>)
    <3>1. Append(chan[Peer(g)], m) # <<>>
      BY <2>2, LenFacts
    <3>2. \A h \in Gateway : chan'[h] = chan[h] \/ (h = Peer(g) /\ chan'[h] = Append(chan[h], m))
      BY <2>1, <2>2 DEF TokenInv
    <3> QED
      BY <2>2, <3>1, <3>2 DEF TokenInv, Channels
  <2>4. chan' = [h \in Gateway |-> chan'[h]] /\ seal' = [h \in Gateway |-> seal'[h]]
    BY <2>1 DEF TokenInv
  <2>5. plc' \in Nat /\ Outstanding' <= Window
    BY <2>1, <2>2, TokenFacts DEF TokenInv, Outstanding, Gateway, Peer
  <2>6. /\ seal'["client"].pc # "idle" => Outstanding' < Window
        /\ seal'["server"].pc # "idle" => plc' > 0
    BY <2>1, <2>2, TokenFacts DEF TokenInv, Outstanding, Gateway, Peer, NoSeal
  <2> QED
    BY <2>1, <2>3, <2>4, <2>5, <2>6 DEF TokenInv, Channels
<1> QED
  BY <1>1, <1>2, <1>3, <1>4

\* The end of a call of decrypt_and_verify: its packet is gone, and at the server
\* gateway its request may be at the PLC instead.
LEMMA OpenEnds ==
    ASSUME TokenInv, NEW g \in Gateway, chan[g] # <<>>, seal' = seal,
           NEW accepted, EndOpen(g, accepted)
    PROVE  TokenInv'
<1>1. /\ chan' = [chan EXCEPT ![g] = Tail(@)] /\ open' = [open EXCEPT ![g] = NoOpen]
      /\ plc' = plc \/ (g = "server" /\ plc' = plc + 1)
  BY DEF EndOpen
<1>2. IsSequence(Tail(chan[g])) /\ Len(Tail(chan[g])) = Len(chan[g]) - 1
  BY TailFacts DEF TokenInv, Channels
<1>3. /\ chan' = [h \in Gateway |-> chan'[h]] /\ open' = [h \in Gateway |-> open'[h]]
      /\ \A h \in Gateway : IsSequence(chan'[h])
  BY <1>1, <1>2 DEF TokenInv, Channels
<1>4. plc' \in Nat /\ plc' >= plc /\ Outstanding' <= Outstanding /\ Outstanding' \in Nat
  BY <1>1, <1>2, TokenFacts DEF TokenInv, Outstanding, Gateway
<1>5. \A h \in Gateway : open'[h].pc # "idle" => chan'[h] # <<>>
  BY <1>1 DEF TokenInv, NoOpen
<1> QED
  BY <1>3, <1>4, <1>5, TokenFacts DEF TokenInv, Channels

LEMMA OpenStep ==
    ASSUME TokenInv, NEW g \in Gateway,
           StartOpen(g) \/ MakeOwn(g) \/ Agree(g) \/ UpdateOpen(g) \/ OpenBody(g)
    PROVE  TokenInv'
<1>1. CASE StartOpen(g)
  <2>1. chan[g] # <<>> /\ seal' = seal
    BY <1>1 DEF StartOpen
  <2>2. CASE EndOpen(g, FALSE)
    BY <2>1, <2>2, OpenEnds
  <2>3. ASSUME UNCHANGED <<chan, plc>>, NEW call, open' = [open EXCEPT ![g] = call]
        PROVE  TokenInv'
    BY <2>1, <2>3 DEF TokenInv, Channels, Outstanding, Gateway
  <2> QED
    BY <1>1, <2>2, <2>3 DEF StartOpen
<1>2. ASSUME NEW pc, open[g].pc # "idle", open' = [open EXCEPT ![g].pc = pc],
             seal' = seal, UNCHANGED <<chan, plc>>
      PROVE  TokenInv'
  BY <1>2, NothingMoves DEF TokenInv
<1>3. CASE MakeOwn(g)
  BY <1>2, <1>3 DEF MakeOwn, InCall
<1>4. CASE Agree(g)
  BY <1>2, <1>4 DEF Agree, InCall
<1>5. CASE UpdateOpen(g)
  BY <1>2, <1>5 DEF UpdateOpen, InCall
<1>6. CASE OpenBody(g)
  <2>1. chan[g] # <<>> /\ seal' = seal
    BY <1>6 DEF OpenBody, TokenInv
  <2>2. \E accepted : EndOpen(g, accepted)
    BY <1>6 DEF OpenBody
  <2> QED
    BY <2>1, <2>2, OpenEnds
<1> QED
  BY <1>1, <1>3, <1>4, <1>5, <1>6

LEMMA TokenStep == TokenInv /\ [ThreadedNext]_threadedVars => TokenInv'
<1> SUFFICES ASSUME TokenInv, [ThreadedNext]_threadedVars PROVE TokenInv'
  OBVIOUS
<1>1. ASSUME NEW g \in Gateway, ExpireIdle(g) PROVE TokenInv'
  BY <1>1, NothingMoves DEF ExpireIdle, Expire, TokenInv
<1>2. CASE UNCHANGED threadedVars
  BY <1>2, NothingMoves DEF threadedVars, TokenInv
<1> QED
  BY <1>1, <1>2, SealStep, OpenStep DEF ThreadedNext

\* The two calls need the token, or the absence of it, each for itself.
LEMMA OneToken == Window = 1 /\ TokenInv => OneCall
<1> SUFFICES ASSUME Window = 1, TokenInv PROVE OneCall
  OBVIOUS
<1> DEFINE a == Len(chan["client"])
           b == Len(chan["server"])
<1>1. a \in Nat /\ b \in Nat /\ plc \in Nat
  BY TokenFacts DEF Gateway
<1>2. /\ a + plc + b <= 1
      /\ seal["client"].pc # "idle" => a + plc + b < 1
      /\ seal["server"].pc # "idle" => plc > 0
  BY TokenFacts DEF TokenInv
<1>3. /\ open["client"].pc # "idle" => a > 0
      /\ open["server"].pc # "idle" => b > 0
  BY TokenFacts DEF TokenInv, Gateway
<1> HIDE DEF a, b
<1>4. open["client"].pc # "idle" => seal["client"].pc = "idle" /\ Idle("server")
  BY <1>1, <1>2, <1>3 DEF Idle
<1>5. open["server"].pc # "idle" => seal["server"].pc = "idle" /\ Idle("client")
  BY <1>1, <1>2, <1>3 DEF Idle
<1>6. ~(seal["client"].pc # "idle" /\ seal["server"].pc # "idle")
  BY <1>1, <1>2
<1> QED
  BY <1>4, <1>5, <1>6 DEF OneCall, Idle, Gateway

----------------------------------------------------------------------------
(* One call of SymCipher, taken apart                                      *)

\* The cipher s of a call of decrypt_and_verify on m that found c, by where it is.
Reached(s, c, m, pc, fresh, agreed) ==
    LET begin == Begun(Noted(c.rek, c.key, m.flag, m.secret), m.flag)
        rek   == CASE pc = "own"    -> begin
                   [] pc = "agree"  -> IF m.flag = "INIT" THEN [begin EXCEPT !.own = fresh] ELSE begin
                   [] pc = "update" -> HandleRekey(c.rek, c.key, m.flag, m.secret, fresh, agreed)
    IN  /\ ~HandleRekeyRaises(c.rek, m.flag, m.secret)
        /\ pc \in {"own", "agree", "update", "open"}
        /\ pc = "own" => c.rek.enabled /\ (m.flag = "INIT" \/ (m.flag = "NONE" /\ c.rek.due))
        /\ pc = "agree" => /\ c.rek.enabled
                           /\ \/ m.flag = "INIT"
                              \/ m.flag = "REPLY" /\ c.rek.role = "initiator" /\ ~c.rek.fail
        /\ s = IF pc = "open" THEN Prepared(c, m, fresh, agreed) ELSE [key |-> c.key, rek |-> rek]

LEMMA CallBegins ==
    ASSUME NEW c \in CipherState, NEW m \in DataPacket, NEW fresh, NEW agreed,
           ~HandleRekeyRaises(c.rek, m.flag, m.secret)
    PROVE  LET next == SlowStep(c.rek, m.flag)
           IN  Reached([key |-> c.key,
                        rek |-> IF next = "update"
                                THEN HandleRekey(c.rek, c.key, m.flag, m.secret, fresh, agreed)
                                ELSE Begun(Noted(c.rek, c.key, m.flag, m.secret), m.flag)],
                       c, m, next, fresh, agreed)
<1> DEFINE next == SlowStep(c.rek, m.flag)
<1>1. c.rek.enabled \in BOOLEAN /\ c.rek.due \in BOOLEAN /\ m.flag \in RekeyStates
  BY DEF CipherState, RekeyerState, DataPacket, PacketOf
<1>2. /\ next \in {"own", "agree", "update"}
      /\ next = "own" => c.rek.enabled /\ (m.flag = "INIT" \/ (m.flag = "NONE" /\ c.rek.due))
      /\ next = "agree" => c.rek.enabled /\ m.flag = "REPLY" /\ c.rek.role = "initiator" /\ ~c.rek.fail
  BY <1>1 DEF SlowStep, RekeyStates
<1> HIDE DEF next
<1>3. Reached([key |-> c.key,
               rek |-> IF next = "update"
                       THEN HandleRekey(c.rek, c.key, m.flag, m.secret, fresh, agreed)
                       ELSE Begun(Noted(c.rek, c.key, m.flag, m.secret), m.flag)],
               c, m, next, fresh, agreed)
  BY <1>2 DEF Reached
<1> QED
  BY <1>3 DEF next

\* What the calls of handle_rekey come to.
LEMMA CallAgrees ==
    ASSUME NEW c \in CipherState, NEW m \in DataPacket, NEW fresh, NEW agreed,
           NEW s, Reached(s, c, m, "own", fresh, agreed)
    PROVE  LET pc == IF m.flag = "INIT" THEN "agree" ELSE "update"
           IN  Reached([s EXCEPT !.rek.own = fresh], c, m, pc, fresh, agreed)
<1> DEFINE r == Noted(c.rek, c.key, m.flag, m.secret)
           b == Begun(r, m.flag)
           t == [s EXCEPT !.rek.own = fresh]
<1>1. /\ s = [key |-> c.key, rek |-> b] /\ c.rek.enabled
      /\ ~HandleRekeyRaises(c.rek, m.flag, m.secret)
      /\ m.flag = "INIT" \/ (m.flag = "NONE" /\ c.rek.due)
  BY DEF Reached
<1>2. t = [key |-> c.key, rek |-> [b EXCEPT !.own = fresh]]
  BY <1>1
<1>3. CASE m.flag = "INIT"
  BY <1>1, <1>2, <1>3 DEF Reached
<1>4. CASE m.flag = "NONE" /\ c.rek.due
  <2>1. r.due /\ SecretMatchesFlag(m.flag, m.secret)
    BY <1>1, <1>4 DEF Noted, HandleRekeyRaises, CipherState, RekeyerState
  <2>2. [b EXCEPT !.own = fresh] = OnNone(r, fresh)
    BY <1>4, <2>1 DEF Begun, OnNone, Noted, CipherState, RekeyerState
  <2>3. HandleRekey(c.rek, c.key, m.flag, m.secret, fresh, agreed) = OnNone(r, fresh)
    BY <1>1, <1>4, <2>1 DEF HandleRekey
  <2> QED
    BY <1>1, <1>2, <1>4, <2>2, <2>3 DEF Reached
<1> QED
  BY <1>1, <1>3, <1>4

LEMMA CallAnswers ==
    ASSUME NEW c \in CipherState, NEW m \in DataPacket, NEW fresh \in Secret, NEW agreed \in BOOLEAN,
           NEW s, Reached(s, c, m, "agree", fresh, agreed)
    PROVE  Reached([s EXCEPT !.rek =
                      IF CanGenerate(s.rek, agreed)
                      THEN [s.rek EXCEPT !.new = Generated(s.rek), !.clear = @ \/ m.flag # "INIT"]
                      ELSE IF m.flag = "INIT" THEN ResetAll([s.rek EXCEPT !.send = "FAIL"])
                           ELSE [s.rek EXCEPT !.send = "FAIL", !.fail = TRUE]],
                   c, m, "update", fresh, agreed)
<1> DEFINE r == Noted(c.rek, c.key, m.flag, m.secret)
           b == Begun(r, m.flag)
           q == IF m.flag = "INIT" THEN [b EXCEPT !.own = fresh] ELSE b
           x == IF CanGenerate(q, agreed)
                THEN [q EXCEPT !.new = Generated(q), !.clear = q.clear \/ m.flag # "INIT"]
                ELSE IF m.flag = "INIT" THEN ResetAll([q EXCEPT !.send = "FAIL"])
                     ELSE [q EXCEPT !.send = "FAIL", !.fail = TRUE]
<1>1. /\ s = [key |-> c.key, rek |-> q] /\ c.rek.enabled
      /\ ~HandleRekeyRaises(c.rek, m.flag, m.secret)
      /\ m.flag = "INIT" \/ (m.flag = "REPLY" /\ c.rek.role = "initiator" /\ ~c.rek.fail)
  BY DEF Reached
<1>2. SecretMatchesFlag(m.flag, m.secret)
  BY <1>1 DEF HandleRekeyRaises
<1>3. r \in RekeyerState /\ r.role = c.rek.role /\ r.fail = c.rek.fail
  BY DEF Noted, CipherState, RekeyerState, DataPacket, PacketOf
<1>4. [s EXCEPT !.rek = x] = [key |-> c.key, rek |-> x] /\ s.rek = q
  BY <1>1
<1> HIDE DEF r
<1>5. CASE m.flag = "INIT"
  <2> DEFINE t == [r EXCEPT !.role = "replier", !.own = fresh]
  <2>1. q = [t EXCEPT !.send = "REPLY"] /\ t \in RekeyerState
    BY <1>3, <1>5 DEF Begun, RekeyerState, Roles
  <2> HIDE DEF t, q
  <2>2. /\ CanGenerate(q, agreed) <=> CanGenerate(t, agreed)
        /\ Generated(q) = Generated(t)
    BY <2>1 DEF CanGenerate, Generated, RekeyerState
  <2>3. x = IF CanGenerate(t, agreed) THEN [t EXCEPT !.send = "REPLY", !.new = Generated(t)]
            ELSE ResetAll([t EXCEPT !.send = "FAIL"])
    <3>1. CASE CanGenerate(t, agreed)
      <4>1. x = [q EXCEPT !.new = Generated(t), !.clear = q.clear]
        BY <1>5, <2>1, <2>2, <3>1 DEF RekeyerState
      <4>2. [q EXCEPT !.new = Generated(t), !.clear = q.clear] =
            [t EXCEPT !.send = "REPLY", !.new = Generated(t)]
        <5> DEFINE k == Generated(t)
        <5>1. DOMAIN q = DOMAIN t /\ \A i \in DOMAIN t : q[i] = IF i = "send" THEN "REPLY" ELSE t[i]
          BY <2>1 DEF RekeyerState
        <5> HIDE DEF k
        <5>2. [q EXCEPT !.new = k, !.clear = q.clear] = [t EXCEPT !.send = "REPLY", !.new = k]
          BY <2>1, <5>1 DEF RekeyerState
        <5> QED
          BY <5>2 DEF k
      <4> HIDE DEF x
      <4> QED
        BY <3>1, <4>1, <4>2
    <3>2. CASE ~CanGenerate(t, agreed)
      <4>1. x = ResetAll([q EXCEPT !.send = "FAIL"])
        BY <1>5, <2>2, <3>2
      <4>2. [q EXCEPT !.send = "FAIL"] = [t EXCEPT !.send = "FAIL"]
        BY <2>1 DEF RekeyerState
      <4> QED
        BY <3>2, <4>1, <4>2
    <3> QED
      BY <3>1, <3>2
  <2>4. x = OnInit(r, fresh, agreed)
    BY <2>3 DEF OnInit, t
  <2>5. HandleRekey(c.rek, c.key, m.flag, m.secret, fresh, agreed) = OnInit(r, fresh, agreed)
    BY <1>1, <1>2, <1>5 DEF HandleRekey, r
  <2> HIDE DEF x
  <2>6. Reached([s EXCEPT !.rek = x], c, m, "update", fresh, agreed)
    BY <1>1, <1>4, <2>4, <2>5 DEF Reached
  <2> QED
    BY <1>4, <2>6 DEF x
<1>6. CASE m.flag = "REPLY" /\ c.rek.role = "initiator" /\ ~c.rek.fail
  <2>1. q = [r EXCEPT !.send = "SWITCH"]
    BY <1>6 DEF Begun
  <2> HIDE DEF q
  <2>2. /\ CanGenerate(q, agreed) <=> CanGenerate(r, agreed)
        /\ Generated(q) = Generated(r)
    BY <1>3, <2>1 DEF CanGenerate, Generated, RekeyerState
  <2>3. x = OnReply(r, agreed)
    <3>1. CASE CanGenerate(r, agreed)
      <4>1. x = [q EXCEPT !.new = Generated(r), !.clear = TRUE]
        BY <1>6, <2>2, <3>1
      <4> QED
        BY <1>3, <2>1, <3>1, <4>1 DEF OnReply, RekeyerState
    <3>2. CASE ~CanGenerate(r, agreed)
      <4>1. x = [q EXCEPT !.send = "FAIL", !.fail = TRUE]
        BY <1>6, <2>2, <3>2
      <4> QED
        BY <1>3, <2>1, <3>2, <4>1 DEF OnReply, RekeyerState
    <3> QED
      BY <3>1, <3>2
  <2>4. HandleRekey(c.rek, c.key, m.flag, m.secret, fresh, agreed) = OnReply(r, agreed)
    BY <1>1, <1>2, <1>3, <1>6 DEF HandleRekey, OnProgress, r
  <2> HIDE DEF x
  <2>5. Reached([s EXCEPT !.rek = x], c, m, "update", fresh, agreed)
    BY <1>1, <1>4, <2>3, <2>4 DEF Reached
  <2> QED
    BY <1>4, <2>5 DEF x
<1> QED
  BY <1>1, <1>5, <1>6

LEMMA CallUpdates ==
    ASSUME NEW c \in CipherState, NEW m, NEW fresh, NEW agreed,
           NEW s, Reached(s, c, m, "update", fresh, agreed)
    PROVE  Reached(UpdateKey(s, FALSE), c, m, "open", fresh, agreed)
<1> DEFINE x == HandleRekey(c.rek, c.key, m.flag, m.secret, fresh, agreed)
<1>1. s = [key |-> c.key, rek |-> x] /\ ~HandleRekeyRaises(c.rek, m.flag, m.secret)
  BY DEF Reached
<1>2. [c EXCEPT !.rek = x] = [key |-> c.key, rek |-> x]
  BY DEF CipherState
<1>3. Prepared(c, m, fresh, agreed) = UpdateKey(s, FALSE)
  BY <1>1, <1>2 DEF Prepared
<1> QED
  BY <1>1, <1>3 DEF Reached

LEMMA CallEnds ==
    ASSUME NEW c, NEW m, NEW fresh, NEW agreed,
           NEW s, Reached(s, c, m, "open", fresh, agreed)
    PROVE  /\ AfterDecrypt(c, m, fresh, agreed, FALSE) =
                  IF OpensWithOld(s, m) THEN [key |-> m.key, rek |-> SetFailFlag(s.rek)] ELSE s
           /\ Verdict(c, m, fresh, agreed, FALSE) =
                  IF m.key = s.key \/ OpensWithOld(s, m) THEN "accepted" ELSE "rejected"
<1>1. s = Prepared(c, m, fresh, agreed) /\ ~HandleRekeyRaises(c.rek, m.flag, m.secret)
  BY DEF Reached
<1> QED
  BY <1>1 DEF AfterDecrypt, Verdict

LEMMA CallRaises ==
    ASSUME NEW c \in CipherState, NEW m, NEW fresh, NEW agreed,
           HandleRekeyRaises(c.rek, m.flag, m.secret)
    PROVE  /\ AfterDecrypt(c, m, fresh, agreed, FALSE) =
                  [c EXCEPT !.rek = HandleRekey(@, c.key, m.flag, m.secret, fresh, agreed)]
           /\ Verdict(c, m, fresh, agreed, FALSE) = "rejected"
BY DEF AfterDecrypt, Verdict, Prepared

LEMMA SealEnds ==
    ASSUME NEW c, NEW p, NEW s, s = UpdateKey(c, TRUE)
    PROVE  /\ AfterEncrypt(c, FALSE) = s
           /\ EncryptRaises(c, FALSE) <=> OwnPublicSecretRaises(s.rek)
           /\ Encrypted(c, p, FALSE) = [flag |-> SendState(s.rek), secret |-> OwnPublicSecret(s.rek),
                                        key |-> s.key, body |-> p]
<1>1. AfterEncrypt(c, FALSE) = [key |-> s.key, rek |-> s.rek]
  BY DEF AfterEncrypt, AfterSendState
<1>2. s = [key |-> s.key, rek |-> s.rek]
  BY DEF UpdateKey
<1> QED
  BY <1>1, <1>2 DEF EncryptRaises, Encrypted

----------------------------------------------------------------------------
(* SecureLink twice: L, which ThreadedLink promises, and the one that is   *)
(* proved about.  Neither splits nor delays have a part in ThreadedLink.   *)
(* The operators on one cipher are the same in all three places.           *)

Link == INSTANCE LockstepProofs WITH
           cipher <- BetweenCalls, SplitResponses <- FALSE, MaxDelays <- 0, delays <- 0

\* What Link takes for granted.
LEMMA Assumed ==
    /\ None \notin Secret /\ None \notin Link!Key
    /\ Reset \notin Payload /\ None \notin Payload
    /\ Rekeying \subseteq SUBSET Link!Gateway
    /\ Window \in Nat /\ Window > 0
    /\ FALSE \in BOOLEAN
    /\ AgreementOutcomes \subseteq BOOLEAN
    /\ 0 \in Nat
BY LinkAssumption, NoneAssumption
   DEF LinkAssumption, NoneAssumption, Key, Link!Key, SessionKey, Link!SessionKey, Gateway, Link!Gateway

LEMMA SameTypes == Link!CipherState = CipherState /\ Link!DataPacket = DataPacket
BY DEF CipherState, Link!CipherState, RekeyerState, Link!RekeyerState, Key, Link!Key,
       SessionKey, Link!SessionKey, RekeyStates, Link!RekeyStates, Roles, Link!Roles,
       DataPacket, Link!DataPacket, PacketOf, Link!PacketOf

LEMMA SameSealing ==
    ASSUME NEW c, NEW p, NEW isReset
    PROVE  /\ L!AfterEncrypt(c, isReset) = AfterEncrypt(c, isReset)
           /\ L!EncryptRaises(c, isReset) <=> EncryptRaises(c, isReset)
           /\ L!Encrypted(c, p, isReset) = Encrypted(c, p, isReset)
           /\ Link!AfterEncrypt(c, isReset) = AfterEncrypt(c, isReset)
           /\ Link!EncryptRaises(c, isReset) <=> EncryptRaises(c, isReset)
           /\ Link!Encrypted(c, p, isReset) = Encrypted(c, p, isReset)
BY DEF AfterEncrypt, UpdateKey, NewKey, AfterNewKey, AfterSendState, ResetAll, ResetMost,
       ResetSym, SendState, OwnPublicSecret, OwnPublicSecretRaises, SHARED_SECRET_FLAGS,
       Encrypted, EncryptRaises, L!AfterEncrypt, L!UpdateKey, L!NewKey, L!AfterNewKey,
       L!AfterSendState, L!ResetAll, L!ResetMost, L!ResetSym, L!SendState,
       L!OwnPublicSecret, L!OwnPublicSecretRaises, L!SHARED_SECRET_FLAGS, L!Encrypted,
       L!EncryptRaises, Link!AfterEncrypt, Link!UpdateKey, Link!NewKey, Link!AfterNewKey,
       Link!AfterSendState, Link!ResetAll, Link!ResetMost, Link!ResetSym, Link!SendState,
       Link!OwnPublicSecret, Link!OwnPublicSecretRaises, Link!SHARED_SECRET_FLAGS,
       Link!Encrypted, Link!EncryptRaises

LEMMA SamePrepared ==
    ASSUME NEW c, NEW m, NEW fresh, NEW agreed
    PROVE  /\ L!Prepared(c, m, fresh, agreed) = Prepared(c, m, fresh, agreed)
           /\ Link!Prepared(c, m, fresh, agreed) = Prepared(c, m, fresh, agreed)
BY DEF HandleRekey, Noted, OnNone, OnInit, OnProgress, OnReply, OnSwitch, OnSwitchAck,
       CanGenerate, Generated, ECDHE_key_agreement, SecretMatchesFlag, SHARED_SECRET_FLAGS,
       ResetAll, ResetMost, ResetSym, Prepared, HandleRekeyRaises, UpdateKey, NewKey,
       AfterNewKey, L!HandleRekey, L!Noted, L!OnNone, L!OnInit, L!OnProgress, L!OnReply,
       L!OnSwitch, L!OnSwitchAck, L!CanGenerate, L!Generated, L!ECDHE_key_agreement,
       L!SecretMatchesFlag, L!SHARED_SECRET_FLAGS, L!ResetAll, L!ResetMost, L!ResetSym,
       L!Prepared, L!HandleRekeyRaises, L!UpdateKey, L!NewKey, L!AfterNewKey,
       Link!HandleRekey, Link!Noted, Link!OnNone, Link!OnInit, Link!OnProgress,
       Link!OnReply, Link!OnSwitch, Link!OnSwitchAck, Link!CanGenerate, Link!Generated,
       Link!ECDHE_key_agreement, Link!SecretMatchesFlag, Link!SHARED_SECRET_FLAGS,
       Link!ResetAll, Link!ResetMost, Link!ResetSym, Link!Prepared, Link!HandleRekeyRaises,
       Link!UpdateKey, Link!NewKey, Link!AfterNewKey

LEMMA SameOpening ==
    ASSUME NEW c, NEW m, NEW fresh, NEW agreed, NEW replayed
    PROVE  /\ L!AfterDecrypt(c, m, fresh, agreed, replayed) = AfterDecrypt(c, m, fresh, agreed, replayed)
           /\ L!Verdict(c, m, fresh, agreed, replayed) = Verdict(c, m, fresh, agreed, replayed)
           /\ Link!AfterDecrypt(c, m, fresh, agreed, replayed) = AfterDecrypt(c, m, fresh, agreed, replayed)
           /\ Link!Verdict(c, m, fresh, agreed, replayed) = Verdict(c, m, fresh, agreed, replayed)
<1>1. /\ L!HandleRekeyRaises(c.rek, m.flag, m.secret) <=> HandleRekeyRaises(c.rek, m.flag, m.secret)
      /\ Link!HandleRekeyRaises(c.rek, m.flag, m.secret) <=> HandleRekeyRaises(c.rek, m.flag, m.secret)
  BY DEF HandleRekeyRaises, SecretMatchesFlag, SHARED_SECRET_FLAGS, L!HandleRekeyRaises,
       L!SecretMatchesFlag, L!SHARED_SECRET_FLAGS, Link!HandleRekeyRaises,
       Link!SecretMatchesFlag, Link!SHARED_SECRET_FLAGS
<1>2. ASSUME NEW p
      PROVE  /\ L!OpensWithOld(p, m) <=> OpensWithOld(p, m)
             /\ Link!OpensWithOld(p, m) <=> OpensWithOld(p, m)
             /\ L!SetFailFlag(p.rek) = SetFailFlag(p.rek)
             /\ Link!SetFailFlag(p.rek) = SetFailFlag(p.rek)
  BY DEF OpensWithOld, OldKey, SetFailFlag, L!OpensWithOld, L!OldKey, L!SetFailFlag,
       Link!OpensWithOld, Link!OldKey, Link!SetFailFlag
<1>3. /\ L!AfterDecrypt(c, m, fresh, agreed, replayed) = AfterDecrypt(c, m, fresh, agreed, replayed)
      /\ Link!AfterDecrypt(c, m, fresh, agreed, replayed) = AfterDecrypt(c, m, fresh, agreed, replayed)
  BY <1>1, <1>2, SamePrepared DEF AfterDecrypt, L!AfterDecrypt, Link!AfterDecrypt
<1>4. /\ L!Verdict(c, m, fresh, agreed, replayed) = Verdict(c, m, fresh, agreed, replayed)
      /\ Link!Verdict(c, m, fresh, agreed, replayed) = Verdict(c, m, fresh, agreed, replayed)
  BY <1>1, <1>2, SamePrepared DEF Verdict, L!Verdict, Link!Verdict
<1> QED
  BY <1>3, <1>4

LEMMA SameTimer == ASSUME NEW c PROVE L!Due(c) = Due(c) /\ Link!Due(c) = Due(c)
BY DEF Due, L!Due, Link!Due

LEMMA SameStart == ASSUME NEW r PROVE L!NewCiphers(r) = NewCiphers(r) /\ Link!NewCiphers(r) = NewCiphers(r)
BY DEF NewCiphers, NewCipher, NewRekeyer, SessionKey, Gateway, L!NewCiphers, L!NewCipher,
       L!NewRekeyer, L!SessionKey, L!Gateway, Link!NewCiphers, Link!NewCipher,
       Link!NewRekeyer, Link!SessionKey, Link!Gateway

LEMMA SamePlaces ==
    /\ L!Gateway = Gateway /\ L!Thread = Thread /\ L!Outstanding = Outstanding
    /\ Link!Gateway = Gateway /\ Link!Thread = Thread /\ Link!Outstanding = Outstanding
    /\ \A g : L!Peer(g) = Peer(g) /\ Link!Peer(g) = Peer(g)
BY DEF Gateway, Thread, Outstanding, Peer, L!Gateway, L!Thread, L!Outstanding, L!Peer,
       Link!Gateway, Link!Thread, Link!Outstanding, Link!Peer

LEMMA SameSecrets == L!LiveSecrets = Link!LiveSecrets /\ L!FreshSecrets = Link!FreshSecrets
<1>1. L!LiveSecrets = Link!LiveSecrets
  BY DEF L!LiveSecrets, L!SecretsOf, L!SecretsIn, L!Gateway, Link!LiveSecrets,
       Link!SecretsOf, Link!SecretsIn, Link!Gateway
<1> QED
  BY <1>1 DEF L!FreshSecrets, Link!FreshSecrets

LEMMA SameSends ==
    ASSUME NEW p
    PROVE  /\ L!Request(p) => Link!Request(p)
           /\ L!Response(p, TRUE) => Link!Response(p, TRUE)
<1>1. ASSUME NEW g PROVE L!EncryptAndSend(g, p) <=> Link!EncryptAndSend(g, p)
  <2>1. /\ L!AfterEncrypt(BetweenCalls[g], FALSE) = Link!AfterEncrypt(BetweenCalls[g], FALSE)
        /\ L!EncryptRaises(BetweenCalls[g], FALSE) <=> Link!EncryptRaises(BetweenCalls[g], FALSE)
        /\ L!Encrypted(BetweenCalls[g], p, FALSE) = Link!Encrypted(BetweenCalls[g], p, FALSE)
    BY SameSealing
  <2> QED
    BY <2>1, SamePlaces DEF L!EncryptAndSend, L!Hand, Link!EncryptAndSend, Link!Hand
<1>2. L!Request(p) => Link!Request(p)
  BY <1>1, SamePlaces DEF L!Request, Link!Request
<1>3. L!Response(p, TRUE) => Link!Response(p, TRUE)
  BY <1>1, SamePlaces DEF L!Response, Link!Response
<1> QED
  BY <1>2, <1>3

LEMMA SameExpiry ==
    ASSUME NEW g
    PROVE  L!Expire(g) => Link!Expire(g)
BY SameTimer DEF L!Expire, Link!Expire

----------------------------------------------------------------------------
(* The calls, between their steps                                          *)

\* encrypt_and_digest has updated the key that it found, and holds what it has
\* asked for so far.
Sealing(g) ==
    /\ seal[g] = [pc |-> seal[g].pc, body |-> seal[g].body, key |-> seal[g].key, flag |-> seal[g].flag]
    /\ seal[g].pc # "idle" =>
        /\ seal[g].pc \in {"seal", "flag", "secret"}
        /\ "enc" \in alive[g] /\ seal[g].body \in Payload
        /\ cipher[g] = UpdateKey(begun[g], TRUE)
        /\ seal[g].pc # "seal" => seal[g].key = cipher[g].key
        /\ seal[g].pc = "secret" => seal[g].flag = SendState(cipher[g].rek)

\* decrypt_and_verify works on the packet it began with; the pair that it may
\* generate is still in use nowhere else.
Opening(g) ==
    /\ open[g] = [pc |-> open[g].pc, fresh |-> open[g].fresh, agreed |-> open[g].agreed]
    /\ IF open[g].pc = "idle" THEN open[g].fresh = None
       ELSE
         /\ "dec" \in alive[g]
         /\ open[g].fresh \in L!FreshSecrets /\ open[g].agreed \in AgreementOutcomes
         /\ Reached(cipher[g], begun[g], Packet(g), open[g].pc, open[g].fresh, open[g].agreed)

CallsInv ==
    /\ cipher = [g \in Gateway |-> cipher[g]] /\ begun = [g \in Gateway |-> begun[g]]
    /\ up = [g \in Gateway |-> TRUE] /\ notice = [g \in Gateway |-> None]
    /\ \A g \in Gateway : Sealing(g) /\ Opening(g)

ThreadsInv == TokenInv /\ Link!TypeOK /\ CallsInv

\* What a step is to SecureLink.
Simulates == (L!Next /\ Link!Next) \/ UNCHANGED L!vars

LEMMA TwoGateways ==
    ASSUME NEW g \in Gateway
    PROVE  Peer(g) \in Gateway /\ Peer(g) # g /\ \A h \in Gateway : h = g \/ h = Peer(g)
BY DEF Gateway, Peer

LEMMA ThreadTypes ==
    ASSUME Link!TypeOK
    PROVE  /\ BetweenCalls \in [Gateway -> CipherState] /\ chan \in [Gateway -> Seq(DataPacket)]
           /\ alive \in [Gateway -> SUBSET Thread]
           /\ \A g \in Gateway : /\ BetweenCalls[g] \in CipherState /\ chan[g] \in Seq(DataPacket)
                                 /\ chan[g] # <<>> => Packet(g) \in DataPacket
<1>1. /\ BetweenCalls \in [Gateway -> CipherState] /\ chan \in [Gateway -> Seq(DataPacket)]
      /\ alive \in [Gateway -> SUBSET Thread]
  BY SameTypes, SamePlaces DEF Link!TypeOK
<1> QED
  BY <1>1 DEF Packet

\* The cipher that SecureLink sees.
LEMMA Found ==
    ASSUME NEW g \in Gateway
    PROVE  BetweenCalls[g] = IF Idle(g) THEN cipher[g] ELSE begun[g]
BY DEF BetweenCalls

LEMMA FreshKept ==
    ASSUME BetweenCalls' = BetweenCalls, chan' = chan, notice' = notice
    PROVE  L!FreshSecrets' = L!FreshSecrets
BY DEF L!FreshSecrets, L!LiveSecrets

LEMMA FreshTypes == L!FreshSecrets \subseteq Secret
BY DEF L!FreshSecrets

\* Where nobody is in a call, ECC_key_gen returns what it would in SecureLink.
LEMMA FreshBetweenCalls ==
    ASSUME CallsInv, \A g \in Gateway : Idle(g)
    PROVE  BetweenCalls = cipher /\ FreshPairs = L!FreshSecrets
<1>1. BetweenCalls = cipher
  BY DEF CallsInv, BetweenCalls
<1>2. L!LiveSecrets = LiveSecrets
  BY <1>1 DEF L!LiveSecrets, LiveSecrets, L!SecretsOf, SecretsOf, L!SecretsIn, SecretsIn, L!Gateway, Gateway
<1>3. {open[g].fresh : g \in Gateway} \ {None} = {}
  BY DEF CallsInv, Opening, Idle
<1>4. LiveSecrets \cup ({open[g].fresh : g \in Gateway} \ {None}) = L!LiveSecrets
  BY <1>2, <1>3
<1> QED
  BY <1>1, <1>4 DEF FreshPairs, L!FreshSecrets

\* A gateway that is in no call and takes no step.
LEMMA OtherKept ==
    ASSUME NEW h \in Gateway, CallsInv, Idle(h), seal'[h] = seal[h], open'[h] = open[h]
    PROVE  Sealing(h)' /\ Opening(h)'
BY DEF CallsInv, Idle, Sealing, Opening

\* A step of one gateway while the other is in no call.
LEMMA CallsKept ==
    ASSUME CallsInv, NEW g \in Gateway, Idle(Peer(g)),
           seal'[Peer(g)] = seal[Peer(g)], open'[Peer(g)] = open[Peer(g)],
           cipher' = [h \in Gateway |-> cipher'[h]], begun' = [h \in Gateway |-> begun'[h]],
           up' = up, notice' = notice, Sealing(g)', Opening(g)'
    PROVE  CallsInv'
<1>1. \A h \in Gateway : Sealing(h)' /\ Opening(h)'
  BY TwoGateways, OtherKept
<1> QED
  BY <1>1 DEF CallsInv

\* Who holds the token is alone.
LEMMA Alone ==
    ASSUME Window = 1, TokenInv, NEW g \in Gateway
    PROVE  /\ ~Idle(g) => Idle(Peer(g)) /\ (seal[g].pc = "idle" \/ open[g].pc = "idle")
           /\ chan[g] # <<>> => \A h \in Gateway : seal[h].pc = "idle" /\ (h # g => Idle(h))
           /\ (g = "client" /\ Outstanding < Window) \/ (g = "server" /\ plc > 0) =>
                 Idle(Peer(g)) /\ open[g].pc = "idle"
<1> DEFINE a == Len(chan["client"])
           b == Len(chan["server"])
<1>1. a \in Nat /\ b \in Nat /\ plc \in Nat
  BY TokenFacts DEF Gateway
<1>2. /\ a + plc + b <= 1 /\ Outstanding = a + plc + b
      /\ seal["client"].pc # "idle" => a + plc + b < 1
      /\ seal["server"].pc # "idle" => plc > 0
  BY TokenFacts DEF TokenInv
<1>3. /\ open["client"].pc # "idle" => chan["client"] # <<>>
      /\ open["server"].pc # "idle" => chan["server"] # <<>>
      /\ chan["client"] # <<>> <=> a > 0
      /\ chan["server"] # <<>> <=> b > 0
  BY TokenFacts DEF TokenInv, Gateway
<1> HIDE DEF a, b
<1>4. CASE g = "client"
  BY <1>1, <1>2, <1>3, <1>4 DEF Idle, Gateway, Peer
<1>5. CASE g = "server"
  BY <1>1, <1>2, <1>3, <1>5 DEF Idle, Gateway, Peer
<1> QED
  BY <1>4, <1>5 DEF Gateway

----------------------------------------------------------------------------
(* Their steps                                                             *)

LEMMA StartSealStep ==
    ASSUME Window = 1, ThreadsInv, NEW g \in Gateway, NEW p \in Payload, StartSeal(g, p)
    PROVE  CallsInv' /\ Simulates
<1>1. /\ seal[g].pc = "idle" /\ "enc" \in alive[g]
      /\ cipher' = [cipher EXCEPT ![g] = UpdateKey(cipher[g], TRUE)]
      /\ seal' = [seal EXCEPT ![g].pc = "seal", ![g].body = p]
      /\ begun' = [begun EXCEPT ![g] = cipher[g]]
      /\ UNCHANGED <<chan, plc, alive, delivered, open, notice, up, delays>>
  BY DEF StartSeal, session
<1>2. open[g].pc = "idle" /\ Idle(Peer(g)) /\ Peer(g) \in Gateway /\ Peer(g) # g
  BY Alone, TwoGateways DEF StartSeal, ThreadsInv, Gateway
<1>3. /\ seal'[g] = [seal[g] EXCEPT !.pc = "seal", !.body = p] /\ seal'[Peer(g)] = seal[Peer(g)]
      /\ cipher'[g] = UpdateKey(cipher[g], TRUE) /\ cipher' = [h \in Gateway |-> cipher'[h]]
      /\ begun'[g] = cipher[g] /\ begun' = [h \in Gateway |-> begun'[h]]
      /\ begun'[Peer(g)] = begun[Peer(g)] /\ cipher'[Peer(g)] = cipher[Peer(g)]
  BY <1>1, <1>2 DEF ThreadsInv, TokenInv, CallsInv
<1>4. Sealing(g)' /\ seal'[g].pc = "seal"
  <2>1. seal[g] = [pc |-> seal[g].pc, body |-> seal[g].body, key |-> seal[g].key, flag |-> seal[g].flag]
    BY DEF Sealing, ThreadsInv, CallsInv
  <2>2. seal'[g] = [pc |-> "seal", body |-> p, key |-> seal[g].key, flag |-> seal[g].flag]
    BY <1>3, <2>1
  <2>3. /\ seal'[g].pc = "seal" /\ seal'[g].body = p
        /\ seal'[g].key = seal[g].key /\ seal'[g].flag = seal[g].flag
    BY <2>2
  <2>4. /\ seal'[g] = [pc |-> seal'[g].pc, body |-> seal'[g].body, key |-> seal'[g].key, flag |-> seal'[g].flag]
        /\ alive' = alive /\ cipher'[g] = UpdateKey(begun'[g], TRUE)
    BY <1>1, <1>3, <2>2, <2>3
  <2> QED
    BY <1>1, <2>3, <2>4 DEF Sealing
<1>5. Opening(g)'
  BY <1>1, <1>2 DEF Opening, ThreadsInv, CallsInv
<1>6. CallsInv'
  BY <1>1, <1>2, <1>3, <1>4, <1>5, CallsKept DEF ThreadsInv
<1>7. BetweenCalls' = BetweenCalls
  <2>1. ~Idle(g)' /\ Idle(g) /\ Idle(Peer(g))'
    BY <1>1, <1>2, <1>3, <1>4 DEF Idle
  <2>2. \A h \in Gateway : (IF Idle(h)' THEN cipher'[h] ELSE begun'[h]) = IF Idle(h) THEN cipher[h] ELSE begun[h]
    BY <1>2, <1>3, <2>1, TwoGateways
  <2> QED
    BY <2>2 DEF BetweenCalls
<1> QED
  BY <1>1, <1>6, <1>7 DEF Simulates, L!vars

\* A step within a call of encrypt_and_digest.
LEMMA SealKept ==
    ASSUME Window = 1, ThreadsInv, NEW g \in Gateway, seal[g].pc # "idle",
           seal'[g].pc # "idle", seal'[Peer(g)] = seal[Peer(g)], Sealing(g)',
           UNCHANGED <<cipher, chan, plc, alive, delivered, open, begun, notice, up, delays>>
    PROVE  CallsInv' /\ Simulates
<1>1. open[g].pc = "idle" /\ Idle(Peer(g)) /\ Peer(g) \in Gateway /\ Peer(g) # g
  BY Alone, TwoGateways DEF ThreadsInv, Idle
<1>2. Opening(g)'
  BY <1>1 DEF Opening, ThreadsInv, CallsInv
<1>3. CallsInv'
  BY <1>1, <1>2, CallsKept DEF ThreadsInv, CallsInv
<1>4. BetweenCalls' = BetweenCalls
  <2>1. \A h \in Gateway : Idle(h)' <=> Idle(h)
    BY <1>1, TwoGateways DEF Idle
  <2>2. \A h \in Gateway : (IF Idle(h)' THEN cipher'[h] ELSE begun'[h]) = IF Idle(h) THEN cipher[h] ELSE begun[h]
    BY <2>1
  <2> QED
    BY <2>2 DEF BetweenCalls
<1> QED
  BY <1>3, <1>4 DEF Simulates, L!vars

LEMMA SealBodyStep ==
    ASSUME Window = 1, ThreadsInv, NEW g \in Gateway, SealBody(g) \/ AskFlag(g)
    PROVE  CallsInv' /\ Simulates
<1>1. Sealing(g) /\ seal = [h \in Gateway |-> seal[h]] /\ Peer(g) \in Gateway /\ Peer(g) # g
  BY TwoGateways DEF ThreadsInv, CallsInv, TokenInv
<1>2. CASE SealBody(g)
  <2>1. /\ seal' = [seal EXCEPT ![g].pc = "flag", ![g].key = cipher[g].key] /\ seal[g].pc = "seal"
        /\ UNCHANGED <<cipher, chan, plc, alive, delivered, open, begun, notice, up, delays>>
    BY <1>2 DEF SealBody, session
  <2>2. /\ seal'[g] = [seal[g] EXCEPT !.pc = "flag", !.key = cipher[g].key]
        /\ seal'[Peer(g)] = seal[Peer(g)]
    BY <1>1, <2>1
  <2>3. Sealing(g)' /\ seal'[g].pc # "idle"
    BY <1>1, <2>1, <2>2 DEF Sealing
  <2> QED
    BY <2>1, <2>2, <2>3, SealKept
<1>3. CASE AskFlag(g)
  <2>1. /\ seal' = [seal EXCEPT ![g].pc = "secret", ![g].flag = SendState(cipher[g].rek)]
        /\ seal[g].pc = "flag"
        /\ UNCHANGED <<cipher, chan, plc, alive, delivered, open, begun, notice, up, delays>>
    BY <1>3 DEF AskFlag, session
  <2>2. /\ seal'[g] = [seal[g] EXCEPT !.pc = "secret", !.flag = SendState(cipher[g].rek)]
        /\ seal'[Peer(g)] = seal[Peer(g)]
    BY <1>1, <2>1
  <2>3. Sealing(g)' /\ seal'[g].pc # "idle"
    BY <1>1, <2>1, <2>2 DEF Sealing
  <2> QED
    BY <2>1, <2>2, <2>3, SealKept
<1> QED
  BY <1>2, <1>3

\* The end of encrypt_and_digest is the call, as SecureLink has it.
LEMMA AskSecretStep ==
    ASSUME Window = 1, ThreadsInv, NEW g \in Gateway, AskSecret(g)
    PROVE  CallsInv' /\ Simulates
<1> DEFINE r == cipher[g].rek
           p == seal[g].body
           c == begun[g]
           m == [flag |-> seal[g].flag, secret |-> OwnPublicSecret(r),
                 key  |-> seal[g].key, body |-> p]
<1>1. /\ seal[g].pc = "secret" /\ seal' = [seal EXCEPT ![g] = NoSeal]
      /\ IF OwnPublicSecretRaises(r)
         THEN alive' = [alive EXCEPT ![g] = @ \ {"enc"}] /\ chan' = chan
         ELSE chan' = [chan EXCEPT ![Peer(g)] = Append(@, m)] /\ alive' = alive
      /\ plc' = IF g = "server" THEN plc - 1 ELSE plc
      /\ UNCHANGED <<cipher, delivered, open, begun, notice, up, delays>>
  BY DEF AskSecret, session
<1>2. open[g].pc = "idle" /\ Idle(Peer(g)) /\ Peer(g) \in Gateway /\ Peer(g) # g
  BY <1>1, Alone, TwoGateways DEF ThreadsInv, Idle
<1>3. seal'[g] = NoSeal /\ seal'[Peer(g)] = seal[Peer(g)]
  BY <1>1, <1>2 DEF ThreadsInv, TokenInv
<1>4. /\ "enc" \in alive[g] /\ p \in Payload /\ cipher[g] = UpdateKey(c, TRUE)
      /\ seal[g].key = cipher[g].key /\ seal[g].flag = SendState(r)
      /\ ~Idle(g) /\ Idle(g)' /\ Idle(Peer(g))'
  <2>1. Sealing(g) /\ seal[g].pc # "idle" /\ seal[g].pc # "seal"
    BY <1>1 DEF ThreadsInv, CallsInv
  <2>2. NoSeal.pc = "idle"
    BY DEF NoSeal
  <2>3. ~Idle(g) /\ Idle(g)' /\ Idle(Peer(g))'
    BY <1>1, <1>2, <1>3, <2>1, <2>2 DEF Idle
  <2> QED
    BY <1>1, <2>1, <2>3 DEF Sealing
<1>5. CallsInv'
  <2>1. Sealing(g)' /\ Opening(g)'
    <3>1. /\ NoSeal.pc = "idle"
          /\ NoSeal = [pc |-> NoSeal.pc, body |-> NoSeal.body, key |-> NoSeal.key, flag |-> NoSeal.flag]
      BY DEF NoSeal
    <3>2. Sealing(g)'
      BY <1>3, <3>1 DEF Sealing
    <3>3. Opening(g)'
      BY <1>1, <1>2 DEF Opening, ThreadsInv, CallsInv
    <3> QED
      BY <3>2, <3>3
  <2> QED
    BY <1>1, <1>2, <1>3, <2>1, CallsKept DEF ThreadsInv, CallsInv
<1>6. BetweenCalls[g] = c /\ BetweenCalls' = [BetweenCalls EXCEPT ![g] = cipher[g]]
  <2>1. \A h \in Gateway : (IF Idle(h)' THEN cipher'[h] ELSE begun'[h]) =
                           IF h = g THEN cipher[g] ELSE IF Idle(h) THEN cipher[h] ELSE begun[h]
    BY <1>1, <1>2, <1>4, TwoGateways
  <2> QED
    BY <1>4, <2>1 DEF BetweenCalls
<1>7. /\ L!AfterEncrypt(c, FALSE) = cipher[g]
      /\ L!EncryptRaises(c, FALSE) <=> OwnPublicSecretRaises(r)
      /\ L!Encrypted(c, p, FALSE) = m
  <2>1. /\ AfterEncrypt(c, FALSE) = cipher[g]
        /\ EncryptRaises(c, FALSE) <=> OwnPublicSecretRaises(r)
        /\ Encrypted(c, p, FALSE) = [flag |-> SendState(r), secret |-> OwnPublicSecret(r),
                                     key |-> cipher[g].key, body |-> p]
    BY <1>4, SealEnds
  <2>2. /\ L!AfterEncrypt(c, FALSE) = AfterEncrypt(c, FALSE)
        /\ L!EncryptRaises(c, FALSE) <=> EncryptRaises(c, FALSE)
        /\ L!Encrypted(c, p, FALSE) = Encrypted(c, p, FALSE)
    BY SameSealing
  <2> QED
    BY <1>4, <2>1, <2>2
<1>8. L!EncryptAndSend(g, p)
  BY <1>1, <1>4, <1>6, <1>7, SamePlaces DEF L!EncryptAndSend, L!Hand
<1>9. L!Next /\ Link!Next
  <2>1. CASE g = "client"
    <3>1. Outstanding < Window
      BY <1>1, <2>1 DEF ThreadsInv, TokenInv
    <3>2. up["client"]
      BY DEF ThreadsInv, CallsInv, Gateway
    <3>3. L!Request(p)
      BY <1>1, <1>8, <2>1, <3>1, <3>2, SamePlaces DEF L!Request
    <3>4. Link!Request(p)
      BY <3>3, SameSends
    <3> QED
      BY <1>4, <3>3, <3>4 DEF L!Next, Link!Next
  <2>2. CASE g = "server"
    <3>1. plc > 0
      BY <1>1, <2>2 DEF ThreadsInv, TokenInv
    <3>2. up["server"]
      BY DEF ThreadsInv, CallsInv, Gateway
    <3>3. L!Response(p, TRUE)
      BY <1>1, <1>8, <2>2, <3>1, <3>2, SamePlaces DEF L!Response
    <3>4. Link!Response(p, TRUE)
      BY <3>3, SameSends
    <3> QED
      BY <1>4, <3>3, <3>4 DEF L!Next, Link!Next
  <2> QED
    BY <2>1, <2>2 DEF Gateway
<1> QED
  BY <1>5, <1>9 DEF Simulates

\* A step within a call of decrypt_and_verify.
LEMMA OpenKept ==
    ASSUME Window = 1, ThreadsInv, NEW g \in Gateway, open[g].pc # "idle",
           NEW pc, NEW s, pc # "idle",
           cipher' = [cipher EXCEPT ![g] = s], open' = [open EXCEPT ![g].pc = pc],
           UNCHANGED <<chan, plc, alive, delivered, seal, begun, notice, up, delays>>,
           Reached(s, begun[g], Packet(g), pc, open[g].fresh, open[g].agreed)
    PROVE  CallsInv' /\ Simulates
<1>1. seal[g].pc = "idle" /\ Idle(Peer(g)) /\ Peer(g) \in Gateway /\ Peer(g) # g
  BY Alone, TwoGateways DEF ThreadsInv, Idle
<1>2. /\ open'[g] = [open[g] EXCEPT !.pc = pc] /\ open'[Peer(g)] = open[Peer(g)]
      /\ cipher'[g] = s /\ cipher'[Peer(g)] = cipher[Peer(g)]
      /\ cipher' = [h \in Gateway |-> cipher'[h]]
  BY <1>1 DEF ThreadsInv, TokenInv, CallsInv
<1>3. /\ open[g] = [pc |-> open[g].pc, fresh |-> open[g].fresh, agreed |-> open[g].agreed]
      /\ "dec" \in alive[g] /\ open[g].fresh \in L!FreshSecrets /\ open[g].agreed \in AgreementOutcomes
  BY DEF ThreadsInv, CallsInv, Opening
<1>4. open'[g] = [pc |-> pc, fresh |-> open[g].fresh, agreed |-> open[g].agreed]
  BY <1>2, <1>3
<1>5. BetweenCalls' = BetweenCalls
  <2>1. ~Idle(g)' /\ ~Idle(g) /\ Idle(Peer(g))'
    BY <1>1, <1>2, <1>4 DEF Idle
  <2>2. \A h \in Gateway : (IF Idle(h)' THEN cipher'[h] ELSE begun'[h]) = IF Idle(h) THEN cipher[h] ELSE begun[h]
    BY <1>1, <1>2, <2>1, TwoGateways
  <2> QED
    BY <2>2 DEF BetweenCalls
<1>6. Opening(g)'
  <2>1. L!FreshSecrets' = L!FreshSecrets
    BY <1>5, FreshKept
  <2>2. Packet(g)' = Packet(g)
    BY DEF Packet
  <2>3. /\ open'[g].pc = pc /\ open'[g].fresh = open[g].fresh /\ open'[g].agreed = open[g].agreed
        /\ open'[g] = [pc |-> open'[g].pc, fresh |-> open'[g].fresh, agreed |-> open'[g].agreed]
    BY <1>4
  <2> QED
    BY <1>2, <1>3, <2>1, <2>2, <2>3 DEF Opening
<1>7. Sealing(g)'
  BY <1>1 DEF Sealing, ThreadsInv, CallsInv
<1>8. CallsInv'
  BY <1>1, <1>2, <1>6, <1>7, CallsKept DEF ThreadsInv, CallsInv
<1> QED
  BY <1>5, <1>8 DEF Simulates, L!vars

LEMMA InCallStep ==
    ASSUME Window = 1, ThreadsInv, NEW g \in Gateway, MakeOwn(g) \/ Agree(g) \/ UpdateOpen(g)
    PROVE  CallsInv' /\ Simulates
<1> DEFINE c == begun[g]
           m == Packet(g)
           x == open[g].fresh
           y == open[g].agreed
<1>1. /\ open[g].pc # "idle" /\ ~Idle(g) /\ chan[g] # <<>>
      /\ cipher = [h \in Gateway |-> cipher[h]]
  BY DEF MakeOwn, Agree, UpdateOpen, Idle, ThreadsInv, TokenInv, CallsInv
<1>2. /\ Reached(cipher[g], c, m, open[g].pc, x, y)
      /\ x \in Secret /\ y \in BOOLEAN
  BY <1>1, FreshTypes, LinkAssumption DEF ThreadsInv, CallsInv, Opening, LinkAssumption
<1>3. c \in CipherState /\ m \in DataPacket
  BY <1>1, ThreadTypes, Found DEF ThreadsInv
<1> HIDE DEF c, m, x, y
<1>4. CASE MakeOwn(g)
  <2> DEFINE pc == IF m.flag = "INIT" THEN "agree" ELSE "update"
             s == [cipher[g] EXCEPT !.rek.own = x]
  <2>1. /\ open[g].pc = "own" /\ cipher' = [cipher EXCEPT ![g] = s] /\ open' = [open EXCEPT ![g].pc = pc]
        /\ UNCHANGED <<chan, plc, alive, delivered, seal, begun, notice, up, delays>>
    BY <1>4 DEF MakeOwn, InCall, session, x, m
  <2>2. Reached(s, c, m, pc, x, y)
    BY <1>2, <1>3, <2>1, CallAgrees
  <2>3. pc # "idle"
    OBVIOUS
  <2> HIDE DEF pc, s
  <2> QED
    BY <1>1, <2>1, <2>2, <2>3, OpenKept DEF c, m, x, y
<1>5. CASE Agree(g)
  <2> DEFINE r == cipher[g].rek
             s == [cipher[g] EXCEPT !.rek =
                      IF CanGenerate(r, y)
                      THEN [r EXCEPT !.new = Generated(r), !.clear = @ \/ m.flag # "INIT"]
                      ELSE IF m.flag = "INIT" THEN ResetAll([r EXCEPT !.send = "FAIL"])
                           ELSE [r EXCEPT !.send = "FAIL", !.fail = TRUE]]
  <2>1. /\ open[g].pc = "agree" /\ cipher' = [cipher EXCEPT ![g] = s] /\ open' = [open EXCEPT ![g].pc = "update"]
        /\ UNCHANGED <<chan, plc, alive, delivered, seal, begun, notice, up, delays>>
    BY <1>5 DEF Agree, InCall, session, y, m
  <2>2. Reached(s, c, m, "update", x, y)
    BY <1>2, <1>3, <2>1, CallAnswers
  <2> HIDE DEF s
  <2> QED
    BY <1>1, <2>1, <2>2, OpenKept DEF c, m, x, y
<1>6. CASE UpdateOpen(g)
  <2> DEFINE s == UpdateKey(cipher[g], FALSE)
  <2>1. /\ open[g].pc = "update" /\ cipher' = [cipher EXCEPT ![g] = s] /\ open' = [open EXCEPT ![g].pc = "open"]
        /\ UNCHANGED <<chan, plc, alive, delivered, seal, begun, notice, up, delays>>
    BY <1>6 DEF UpdateOpen, InCall, session
  <2>2. Reached(s, c, m, "open", x, y)
    BY <1>2, <1>3, <2>1, CallUpdates
  <2> HIDE DEF s
  <2> QED
    BY <1>1, <2>1, <2>2, OpenKept DEF c, m, x, y
<1> QED
  BY <1>4, <1>5, <1>6

\* The step that ends a call of decrypt_and_verify is the call.
LEMMA DecryptSimulated ==
    ASSUME ThreadsInv, NEW g \in Gateway, "dec" \in alive[g], chan[g] # <<>>,
           NEW fresh \in L!FreshSecrets, NEW agreed \in AgreementOutcomes,
           NEW c, c = BetweenCalls[g], NEW m, m = Packet(g), NEW accepted \in BOOLEAN,
           Verdict(c, m, fresh, agreed, FALSE) = IF accepted THEN "accepted" ELSE "rejected",
           BetweenCalls' = [BetweenCalls EXCEPT ![g] = AfterDecrypt(c, m, fresh, agreed, FALSE)],
           EndOpen(g, accepted), UNCHANGED <<alive, notice, up, delays>>
    PROVE  L!Next /\ Link!Next
<1>1. /\ L!Verdict(c, m, fresh, agreed, FALSE) = IF accepted THEN "accepted" ELSE "rejected"
      /\ L!AfterDecrypt(c, m, fresh, agreed, FALSE) = AfterDecrypt(c, m, fresh, agreed, FALSE)
      /\ Link!Verdict(c, m, fresh, agreed, FALSE) = IF accepted THEN "accepted" ELSE "rejected"
      /\ Link!AfterDecrypt(c, m, fresh, agreed, FALSE) = AfterDecrypt(c, m, fresh, agreed, FALSE)
  BY SameOpening
<1>2. up[g]
  BY DEF ThreadsInv, CallsInv
<1>3. L!DecryptAndVerify(g, m, fresh, agreed, FALSE) /\ Link!DecryptAndVerify(g, m, fresh, agreed, FALSE)
  BY <1>1, <1>2 DEF L!DecryptAndVerify, Link!DecryptAndVerify
<1>4. /\ chan' = [chan EXCEPT ![g] = Tail(chan[g])] /\ m = Head(chan[g])
      /\ IF L!Verdict(c, m, fresh, agreed, FALSE) = "accepted"
         THEN /\ delivered' = [delivered EXCEPT ![g] = m.body]
              /\ plc' = IF g = "server" THEN plc + 1 ELSE plc
         ELSE UNCHANGED <<delivered, plc>>
  BY <1>1 DEF EndOpen, Packet
<1>5. L!Decrypt(g)
  BY <1>3, <1>4 DEF L!Decrypt
<1>6. Link!Decrypt(g)
  BY <1>1, <1>3, <1>4, SameSecrets DEF Link!Decrypt
<1> QED
  BY <1>5, <1>6, SamePlaces DEF L!Next, Link!Next

LEMMA StartOpenStep ==
    ASSUME Window = 1, ThreadsInv, NEW g \in Gateway, StartOpen(g)
    PROVE  CallsInv' /\ Simulates
<1> DEFINE c == cipher[g]
           m == Packet(g)
           next == SlowStep(c.rek, m.flag)
           handled(fresh, agreed) == HandleRekey(c.rek, c.key, m.flag, m.secret, fresh, agreed)
           rek(fresh, agreed) == IF next = "update" \/ HandleRekeyRaises(c.rek, m.flag, m.secret)
                                 THEN handled(fresh, agreed)
                                 ELSE Begun(Noted(c.rek, c.key, m.flag, m.secret), m.flag)
<1>1. /\ "dec" \in alive[g] /\ open[g].pc = "idle" /\ chan[g] # <<>>
      /\ begun' = [begun EXCEPT ![g] = c]
      /\ UNCHANGED <<alive, seal, notice, up, delays>>
  BY DEF StartOpen, session
<1>2. PICK fresh \in FreshPairs, agreed \in AgreementOutcomes :
          /\ cipher' = [cipher EXCEPT ![g].rek = rek(fresh, agreed)]
          /\ IF HandleRekeyRaises(c.rek, m.flag, m.secret)
             THEN EndOpen(g, FALSE)
             ELSE /\ open' = [open EXCEPT ![g] = [pc |-> next, fresh |-> fresh, agreed |-> agreed]]
                  /\ UNCHANGED <<chan, delivered, plc>>
  BY DEF StartOpen
<1>3. /\ \A h \in Gateway : Idle(h) /\ seal[h].pc = "idle" /\ open[h].pc = "idle"
      /\ Peer(g) \in Gateway /\ Peer(g) # g
  BY <1>1, Alone, TwoGateways DEF ThreadsInv, Idle
<1>4. BetweenCalls = cipher /\ FreshPairs = L!FreshSecrets /\ fresh \in Secret
  BY <1>3, FreshBetweenCalls, FreshTypes DEF ThreadsInv
<1>5. c \in CipherState /\ m \in DataPacket /\ BetweenCalls \in [Gateway -> CipherState]
  BY <1>1, <1>4, ThreadTypes DEF ThreadsInv
<1>6. /\ cipher'[g] = [key |-> c.key, rek |-> rek(fresh, agreed)] /\ cipher'[Peer(g)] = cipher[Peer(g)]
      /\ cipher' = [h \in Gateway |-> cipher'[h]]
      /\ begun'[g] = c /\ begun'[Peer(g)] = begun[Peer(g)] /\ begun' = [h \in Gateway |-> begun'[h]]
  <2>1. cipher = [h \in Gateway |-> cipher[h]] /\ begun = [h \in Gateway |-> begun[h]]
    BY DEF ThreadsInv, CallsInv
  <2>2. [c EXCEPT !.rek = rek(fresh, agreed)] = [key |-> c.key, rek |-> rek(fresh, agreed)]
    BY <1>5 DEF CipherState
  <2> HIDE DEF rek
  <2> QED
    BY <1>1, <1>2, <1>3, <2>1, <2>2
<1>7. Sealing(g)'
  BY <1>1, <1>3 DEF Sealing, ThreadsInv, CallsInv
<1>8. CASE HandleRekeyRaises(c.rek, m.flag, m.secret)
  <2>1. /\ EndOpen(g, FALSE) /\ open' = [open EXCEPT ![g] = NoOpen]
        /\ rek(fresh, agreed) = handled(fresh, agreed)
    BY <1>2, <1>8 DEF EndOpen
  <2>2. open'[g] = NoOpen /\ open'[Peer(g)] = open[Peer(g)] /\ Idle(g)' /\ Idle(Peer(g))'
    <3>1. open'[g] = NoOpen /\ open'[Peer(g)] = open[Peer(g)]
      BY <1>3, <2>1 DEF ThreadsInv, TokenInv
    <3> QED
      BY <1>1, <1>3, <3>1 DEF Idle, NoOpen
  <2>3. Opening(g)'
    <3>1. /\ NoOpen.pc = "idle" /\ NoOpen.fresh = None
          /\ NoOpen = [pc |-> NoOpen.pc, fresh |-> NoOpen.fresh, agreed |-> NoOpen.agreed]
      BY DEF NoOpen
    <3> QED
      BY <2>2, <3>1 DEF Opening
  <2>4. CallsInv'
    BY <1>1, <1>3, <1>6, <1>7, <2>2, <2>3, CallsKept DEF ThreadsInv
  <2>5. BetweenCalls' = [BetweenCalls EXCEPT ![g] = cipher'[g]]
    <3>1. \A h \in Gateway : (IF Idle(h)' THEN cipher'[h] ELSE begun'[h]) = IF h = g THEN cipher'[g] ELSE cipher[h]
      BY <1>3, <1>6, <2>2, TwoGateways
    <3>2. BetweenCalls' = [h \in Gateway |-> IF h = g THEN cipher'[g] ELSE cipher[h]]
      BY <3>1 DEF BetweenCalls
    <3> QED
      BY <1>4, <1>5, <3>2
  <2>6. /\ AfterDecrypt(c, m, fresh, agreed, FALSE) = cipher'[g]
        /\ Verdict(c, m, fresh, agreed, FALSE) = "rejected"
    <3>1. [c EXCEPT !.rek = handled(fresh, agreed)] = [key |-> c.key, rek |-> handled(fresh, agreed)]
      BY <1>5 DEF CipherState
    <3>2. /\ AfterDecrypt(c, m, fresh, agreed, FALSE) = [c EXCEPT !.rek = handled(fresh, agreed)]
          /\ Verdict(c, m, fresh, agreed, FALSE) = "rejected"
      BY <1>5, <1>8, CallRaises
    <3> HIDE DEF handled, rek
    <3> QED
      BY <1>6, <2>1, <3>1, <3>2
  <2>7. L!Next /\ Link!Next
    <3> DEFINE accepted == FALSE
    <3>1. accepted \in BOOLEAN /\ EndOpen(g, accepted)
      BY <2>1
    <3>2. Verdict(c, m, fresh, agreed, FALSE) = IF accepted THEN "accepted" ELSE "rejected"
      BY <2>6
    <3>3. BetweenCalls' = [BetweenCalls EXCEPT ![g] = AfterDecrypt(c, m, fresh, agreed, FALSE)] /\ c = BetweenCalls[g]
      BY <1>4, <2>5, <2>6
    <3> HIDE DEF accepted, c
    <3> QED
      BY <1>1, <1>4, <3>1, <3>2, <3>3, DecryptSimulated
  <2> QED
    BY <2>4, <2>7 DEF Simulates
<1>9. CASE ~HandleRekeyRaises(c.rek, m.flag, m.secret)
  <2>1. /\ open' = [open EXCEPT ![g] = [pc |-> next, fresh |-> fresh, agreed |-> agreed]]
        /\ UNCHANGED <<chan, delivered, plc>>
    BY <1>2, <1>9
  <2>2. Reached([key |-> c.key, rek |-> rek(fresh, agreed)], c, m, next, fresh, agreed)
    BY <1>5, <1>9, CallBegins
  <2>3. Reached(cipher'[g], c, m, next, fresh, agreed) /\ next \in {"own", "agree", "update", "open"}
    <3>1. Reached(cipher'[g], c, m, next, fresh, agreed)
      BY <1>6, <2>2
    <3> QED
      BY <3>1 DEF Reached
  <2> HIDE DEF next, rek
  <2>4. /\ open'[g] = [pc |-> next, fresh |-> fresh, agreed |-> agreed] /\ open'[Peer(g)] = open[Peer(g)]
        /\ open'[g].pc = next /\ open'[g].fresh = fresh /\ open'[g].agreed = agreed
    BY <1>3, <2>1 DEF ThreadsInv, TokenInv
  <2>5. BetweenCalls' = BetweenCalls
    <3>1. ~Idle(g)' /\ Idle(Peer(g))'
      BY <1>1, <1>3, <2>3, <2>4 DEF Idle
    <3>2. \A h \in Gateway : (IF Idle(h)' THEN cipher'[h] ELSE begun'[h]) = IF Idle(h) THEN cipher[h] ELSE begun[h]
      BY <1>3, <1>6, <3>1, TwoGateways
    <3> QED
      BY <3>2 DEF BetweenCalls
  <2>6. Opening(g)'
    <3>1. L!FreshSecrets' = L!FreshSecrets
      BY <1>1, <2>1, <2>5, FreshKept
    <3>2. Packet(g)' = m
      BY <2>1 DEF Packet
    <3> HIDE DEF m, c
    <3>3. Reached(cipher'[g], begun'[g], m, open'[g].pc, open'[g].fresh, open'[g].agreed)
      BY <1>6, <2>3, <2>4
    <3>4. open'[g].pc # "idle"
      BY <2>3, <2>4
    <3>5. /\ open'[g] = [pc |-> open'[g].pc, fresh |-> open'[g].fresh, agreed |-> open'[g].agreed]
          /\ "dec" \in alive'[g] /\ open'[g].fresh \in L!FreshSecrets' /\ open'[g].agreed \in AgreementOutcomes
      BY <1>1, <1>4, <2>4, <3>1
    <3> QED
      BY <3>2, <3>3, <3>4, <3>5 DEF Opening
  <2>7. CallsInv'
    BY <1>1, <1>3, <1>6, <1>7, <2>4, <2>6, CallsKept DEF ThreadsInv
  <2> QED
    BY <1>1, <2>1, <2>5, <2>7 DEF Simulates, L!vars
<1> QED
  BY <1>8, <1>9

LEMMA OpenBodyStep ==
    ASSUME Window = 1, ThreadsInv, NEW g \in Gateway, OpenBody(g)
    PROVE  CallsInv' /\ Simulates
<1> DEFINE c == begun[g]
           m == Packet(g)
           s == cipher[g]
           x == open[g].fresh
           y == open[g].agreed
           again == OpensWithOld(s, m)
           accepted == m.key = s.key \/ again
           d == IF again THEN [key |-> m.key, rek |-> SetFailFlag(s.rek)] ELSE s
<1>1. /\ open[g].pc = "open" /\ EndOpen(g, accepted)
      /\ open' = [open EXCEPT ![g] = NoOpen]
      /\ cipher' = [cipher EXCEPT ![g] = d]
      /\ UNCHANGED <<alive, seal, begun, notice, up, delays>>
  BY DEF OpenBody, EndOpen, session
<1>2. /\ seal[g].pc = "idle" /\ ~Idle(g) /\ Idle(Peer(g)) /\ Peer(g) \in Gateway /\ Peer(g) # g
      /\ chan[g] # <<>>
  BY <1>1, Alone, TwoGateways DEF ThreadsInv, TokenInv, Idle
<1>3. /\ "dec" \in alive[g] /\ x \in L!FreshSecrets /\ y \in AgreementOutcomes
      /\ Reached(s, c, m, "open", x, y)
  BY <1>1 DEF ThreadsInv, CallsInv, Opening
<1>4. /\ open'[g] = NoOpen /\ open'[Peer(g)] = open[Peer(g)]
      /\ cipher'[g] = d /\ cipher'[Peer(g)] = cipher[Peer(g)] /\ cipher' = [h \in Gateway |-> cipher'[h]]
  <2> HIDE DEF d
  <2> QED
    BY <1>1, <1>2 DEF ThreadsInv, TokenInv, CallsInv
<1>5. Idle(g)' /\ Idle(Peer(g))'
  BY <1>1, <1>2, <1>4 DEF Idle, NoOpen
<1>6. Opening(g)' /\ Sealing(g)'
  <2>1. /\ NoOpen.pc = "idle" /\ NoOpen.fresh = None
        /\ NoOpen = [pc |-> NoOpen.pc, fresh |-> NoOpen.fresh, agreed |-> NoOpen.agreed]
    BY DEF NoOpen
  <2>2. Opening(g)'
    BY <1>4, <2>1 DEF Opening
  <2>3. Sealing(g)'
    BY <1>1, <1>2 DEF Sealing, ThreadsInv, CallsInv
  <2> QED
    BY <2>2, <2>3
<1>7. CallsInv'
  BY <1>1, <1>2, <1>4, <1>6, CallsKept DEF ThreadsInv, CallsInv
<1>8. BetweenCalls[g] = c /\ BetweenCalls' = [BetweenCalls EXCEPT ![g] = d]
  <2> HIDE DEF d
  <2>1. \A h \in Gateway : (IF Idle(h)' THEN cipher'[h] ELSE begun'[h]) =
                           IF h = g THEN d ELSE IF Idle(h) THEN cipher[h] ELSE begun[h]
    BY <1>1, <1>2, <1>4, <1>5, TwoGateways
  <2> QED
    BY <1>2, <2>1 DEF BetweenCalls
<1>9. /\ AfterDecrypt(c, m, x, y, FALSE) = d
      /\ Verdict(c, m, x, y, FALSE) = IF accepted THEN "accepted" ELSE "rejected"
      /\ accepted \in BOOLEAN
  <2>1. /\ AfterDecrypt(c, m, x, y, FALSE) = d
        /\ Verdict(c, m, x, y, FALSE) = IF accepted THEN "accepted" ELSE "rejected"
    <3> HIDE DEF c, m, x, y, s
    <3> QED
      BY <1>3, CallEnds
  <2>2. accepted \in BOOLEAN
    BY DEF OpensWithOld
  <2> QED
    BY <2>1, <2>2
<1>10. L!Next /\ Link!Next
  <2> HIDE DEF accepted, d, c, m, x, y
  <2>1. m = Packet(g) /\ c = BetweenCalls[g]
    BY <1>8 DEF m
  <2> QED
    BY <1>1, <1>2, <1>3, <1>8, <1>9, <2>1, DecryptSimulated
<1> QED
  BY <1>7, <1>10 DEF Simulates

LEMMA ExpireIdleStep ==
    ASSUME Window = 1, ThreadsInv, NEW g \in Gateway, ExpireIdle(g)
    PROVE  CallsInv' /\ Simulates
<1> DEFINE h == Peer(g)
           c == cipher[g]
<1>1. /\ Idle(g) /\ up[g] /\ c.rek.enabled /\ ~c.rek.due
      /\ cipher' = [cipher EXCEPT ![g] = Due(c)]
      /\ UNCHANGED <<chan, notice, plc, up, alive, delivered, delays, seal, open, begun>>
  BY DEF ExpireIdle, Expire
<1>2. h \in Gateway /\ h # g /\ \A k \in Gateway : k = g \/ k = h
  BY TwoGateways
<1> HIDE DEF h
<1>3. /\ cipher'[g] = Due(c) /\ cipher'[h] = cipher[h] /\ cipher' = [k \in Gateway |-> cipher'[k]]
      /\ \A k \in Gateway : Idle(k)' <=> Idle(k)
  BY <1>1, <1>2 DEF ThreadsInv, CallsInv, Idle
<1>4. BetweenCalls[g] = c /\ BetweenCalls' = [BetweenCalls EXCEPT ![g] = Due(c)]
  <2>1. \A k \in Gateway : (IF Idle(k)' THEN cipher'[k] ELSE begun'[k]) =
                           IF k = g THEN Due(c) ELSE IF Idle(k) THEN cipher[k] ELSE begun[k]
    BY <1>1, <1>2, <1>3
  <2> QED
    BY <1>1, <2>1 DEF BetweenCalls
<1>5. L!Expire(g)
  BY <1>1, <1>4, SameTimer DEF L!Expire
<1>6. L!FreshSecrets' = L!FreshSecrets
  <2>1. L!SecretsOf(Due(c)) = L!SecretsOf(c)
    <3>1. c \in CipherState
      BY <1>4, ThreadTypes DEF ThreadsInv
    <3>2. /\ Due(c).key = c.key /\ Due(c).rek.own = c.rek.own /\ Due(c).rek.peer = c.rek.peer
          /\ Due(c).rek.old = c.rek.old /\ Due(c).rek.new = c.rek.new
      BY <3>1 DEF Due, CipherState, RekeyerState
    <3> QED
      BY <3>2 DEF L!SecretsOf
  <2>2. \A k \in Gateway : L!SecretsOf(BetweenCalls'[k]) = L!SecretsOf(BetweenCalls[k])
    BY <1>2, <1>4, <2>1, ThreadTypes DEF ThreadsInv
  <2>3. L!LiveSecrets' = L!LiveSecrets
    BY <1>1, <2>2, SamePlaces DEF L!LiveSecrets
  <2> QED
    BY <2>3 DEF L!FreshSecrets
<1>7. CallsInv'
  <2>1. Sealing(g)' /\ Opening(g)'
    BY <1>1 DEF Sealing, Opening, ThreadsInv, CallsInv, Idle
  <2>2. Sealing(h)'
    BY <1>1, <1>2, <1>3 DEF Sealing, ThreadsInv, CallsInv
  <2>3. Opening(h)'
    <3>1. Opening(h) /\ Packet(h)' = Packet(h)
      BY <1>1, <1>2 DEF ThreadsInv, CallsInv, Packet
    <3> QED
      BY <1>1, <1>2, <1>3, <1>6, <3>1 DEF Opening
  <2> QED
    BY <1>1, <1>2, <1>3, <2>1, <2>2, <2>3 DEF ThreadsInv, CallsInv
<1>8. Link!Expire(g)
  BY <1>5, SameExpiry
<1> QED
  BY <1>5, <1>7, <1>8, SamePlaces DEF Simulates, L!Next, Link!Next

LEMMA CallStep ==
    ASSUME Window = 1, ThreadsInv, [ThreadedNext]_threadedVars
    PROVE  CallsInv' /\ Simulates
<1>1. CASE UNCHANGED threadedVars
  <2>1. /\ UNCHANGED <<cipher, chan, plc, alive, delivered, seal, open, begun, notice, up, delays>>
    BY <1>1 DEF threadedVars
  <2>2. BetweenCalls' = BetweenCalls
    BY <2>1 DEF BetweenCalls, Idle
  <2>3. L!FreshSecrets' = L!FreshSecrets
    BY <2>1, <2>2, FreshKept
  <2>4. CallsInv'
    BY <2>1, <2>3 DEF ThreadsInv, CallsInv, Sealing, Opening, Packet
  <2> QED
    BY <2>1, <2>2, <2>4 DEF Simulates, L!vars
<1> QED
  BY <1>1, StartSealStep, SealBodyStep, AskSecretStep, StartOpenStep, InCallStep, OpenBodyStep,
     ExpireIdleStep DEF ThreadedNext

----------------------------------------------------------------------------

\* For any payloads, rekeying or not and whatever key agreements do: while the
\* Modbus client waits for each answer, the encrypting and the decrypting thread
\* are never in their SymCipher at once, at either gateway.
THEOREM OneCallAtATime ==
    ASSUME Window = 1
    PROVE  ThreadedSpec => []OneCall
<1>1. TokenInv => OneCall
  BY OneToken
<1> QED
  BY <1>1, TokenInit, TokenStep, PTL DEF ThreadedSpec

LEMMA ThreadsInit == ThreadedInit => ThreadsInv /\ L!Init /\ Link!Init
<1> SUFFICES ASSUME ThreadedInit PROVE ThreadsInv /\ L!Init /\ Link!Init
  OBVIOUS
<1>1. TokenInv
  BY TokenInit
<1>2. /\ Init /\ begun = cipher
      /\ \A g \in Gateway : seal[g] = NoSeal /\ open[g] = NoOpen
  BY DEF ThreadedInit
<1>3. PICK rekeying \in Rekeying : cipher = NewCiphers(rekeying)
  BY <1>2 DEF Init
<1>4. cipher = [g \in Gateway |-> cipher[g]]
  BY <1>3 DEF NewCiphers
<1>5. \A g \in Gateway : Sealing(g) /\ Opening(g) /\ Idle(g)
  <2>1. /\ NoSeal.pc = "idle" /\ NoOpen.pc = "idle" /\ NoOpen.fresh = None
        /\ NoSeal = [pc |-> NoSeal.pc, body |-> NoSeal.body, key |-> NoSeal.key, flag |-> NoSeal.flag]
        /\ NoOpen = [pc |-> NoOpen.pc, fresh |-> NoOpen.fresh, agreed |-> NoOpen.agreed]
    BY DEF NoSeal, NoOpen
  <2> QED
    BY <1>2, <2>1 DEF Sealing, Opening, Idle
<1>6. CallsInv
  BY <1>2, <1>4, <1>5 DEF CallsInv, Init
<1>7. BetweenCalls = cipher
  BY <1>5, <1>6, FreshBetweenCalls
<1>8. L!Init
  BY <1>2, <1>3, <1>7, SameStart, SamePlaces DEF Init, L!Init
<1>9. Link!Init
  BY <1>8, SameStart, SamePlaces DEF L!Init, Link!Init
<1>10. Link!TypeOK
  BY <1>9, Link!TypeInit, Assumed
<1> QED
  BY <1>1, <1>6, <1>8, <1>9, <1>10 DEF ThreadsInv

LEMMA ThreadsStep ==
    Window = 1 /\ ThreadsInv /\ [ThreadedNext]_threadedVars => ThreadsInv' /\ [L!Next]_L!vars /\ [Link!Next]_Link!vars
<1> SUFFICES ASSUME Window = 1, ThreadsInv, [ThreadedNext]_threadedVars
             PROVE  ThreadsInv' /\ [L!Next]_L!vars /\ [Link!Next]_Link!vars
  OBVIOUS
<1>1. CallsInv' /\ Simulates
  BY CallStep
<1>2. [L!Next]_L!vars /\ [Link!Next]_Link!vars
  BY <1>1 DEF Simulates, L!vars, Link!vars
<1>3. Link!TypeOK'
  BY <1>2, Link!TypeStep, Assumed DEF ThreadsInv
<1>4. TokenInv'
  BY TokenStep DEF ThreadsInv
<1> QED
  BY <1>1, <1>2, <1>3, <1>4 DEF ThreadsInv

\* While the Modbus client waits for each answer, the calls that the threads take
\* apart do what SecureLink's calls do in one step: every step of a thread is such
\* a call, if it is the one that ends it, and nothing otherwise.
THEOREM ThreadsImplementLink ==
    ASSUME Window = 1
    PROVE  ThreadedSpec => LinkImplemented
<1>1. ThreadedInit => ThreadsInv /\ L!Init /\ Link!Init
  BY ThreadsInit
<1>2. ThreadsInv /\ [ThreadedNext]_threadedVars => ThreadsInv' /\ [L!Next]_L!vars /\ [Link!Next]_Link!vars
  BY ThreadsStep
<1> QED
  BY <1>1, <1>2, PTL DEF ThreadedSpec, LinkImplemented, L!Spec

\* Then get_own_public_secret finds the pair that it announces: what is known of
\* SecureLink's ciphers between calls holds of the one that the call found.
THEOREM OwnSecretIsThere ==
    ASSUME Window = 1
    PROVE  ThreadedSpec => []OwnSecretThere
<1>1. Link!LockstepTraffic
  BY DEF Link!LockstepTraffic
<1>2. ThreadedInit => ThreadsInv /\ L!Init /\ Link!Init
  BY ThreadsInit
<1>3. ThreadsInv /\ [ThreadedNext]_threadedVars => ThreadsInv' /\ [L!Next]_L!vars /\ [Link!Next]_Link!vars
  BY ThreadsStep
<1>4. ThreadedSpec => []ThreadsInv /\ Link!Spec
  BY <1>2, <1>3, PTL DEF ThreadedSpec, Link!Spec
<1>5. Link!Spec => []Link!LockstepInv
  BY <1>1, Link!LockstepInvariant, Assumed
<1>6. ThreadsInv /\ Link!LockstepInv => OwnSecretThere
  <2> SUFFICES ASSUME ThreadsInv, Link!LockstepInv, NEW g \in Gateway, seal[g].pc = "secret"
               PROVE  ~OwnPublicSecretRaises(cipher[g].rek)
    BY DEF OwnSecretThere
  <2> DEFINE c == begun[g]
  <2>1. cipher[g] = UpdateKey(c, TRUE) /\ BetweenCalls[g] = c
    <3>1. Sealing(g)
      BY DEF ThreadsInv, CallsInv
    <3> QED
      BY <3>1, Found DEF Sealing, Idle
  <2>2. c \in Link!CipherState /\ Link!Sound(c)
    BY <2>1, SamePlaces DEF Link!LockstepInv, Link!InStepInv, Link!LocallySafe, Link!TypeOK
  <2>3. ~Link!EncryptRaises(c, FALSE)
    BY <2>2, Link!EncryptSound, Assumed
  <2> QED
    BY <2>1, <2>3, SealEnds, SameSealing
<1> QED
  BY <1>4, <1>5, <1>6, PTL
=============================================================================
