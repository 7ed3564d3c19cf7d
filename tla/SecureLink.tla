----------------------------- MODULE SecureLink -----------------------------
(***************************************************************************)
(* The client gateway and the server gateway joined by one TCP connection. *)
(* Each has an encrypting thread (plain side to tunnel) and a decrypting   *)
(* thread (tunnel to plain side) that share one SymCipher.  Here a call of *)
(* encrypt_and_digest or decrypt_and_verify is one step.                   *)
(*                                                                         *)
(* Rekeying travels in the headers of the Modbus traffic, so what it does  *)
(* depends on the traffic.  The Modbus client keeps at most Window         *)
(* requests unanswered: Window = 1 is one transaction at a time, a larger  *)
(* Window a client that pipelines or repeats a request it gave up on.      *)
(***************************************************************************)
EXTENDS SymCipher, Naturals, Sequences

CONSTANTS
    Payload,            \* Modbus payloads
    Reset,              \* gateway_common.SOCKET_RESET_MESSAGE
    Rekeying,           \* the sets of gateways that may be started without --disable-rekeying
    Window,             \* requests the Modbus client leaves unanswered
    SplitResponses,     \* TRUE if recv may hand a response over in two parts
    AgreementOutcomes,  \* {TRUE}, or BOOLEAN if ECDHE_key_agreement may raise
    MaxDelays           \* bound: packets that arrive too old in one session

Gateway == {"client", "server"}

ASSUME LinkAssumption ==
    /\ Reset \notin Payload /\ None \notin Payload
    /\ Rekeying \subseteq SUBSET Gateway
    /\ Window \in Nat /\ Window > 0
    /\ SplitResponses \in BOOLEAN
    /\ AgreementOutcomes \subseteq BOOLEAN
    /\ MaxDelays \in Nat

VARIABLES
    cipher,     \* [Gateway -> CipherState]
    chan,       \* [Gateway -> Seq(DataPacket)]: the data packets under way to each gateway
    notice,     \* [Gateway -> ResetPacket or None]: the reset message behind them, which
                \* is the last packet its sender seals in a session
    plc,        \* requests handed to the PLC that it has not answered
    up,         \* [Gateway -> BOOLEAN]: handle_transfer runs, and its reset is not sealed yet
    alive,      \* [Gateway -> SUBSET Thread]: forwarding threads that no exception has ended
    delivered,  \* [Gateway -> the payload last handed to the plain side]
    delays      \* packets that may still arrive too old

vars == <<cipher, chan, notice, plc, up, alive, delivered, delays>>

Thread == {"enc", "dec"}

DataPacket == PacketOf(Payload)

ResetPacket == PacketOf({Reset})

Peer(g) == IF g = "client" THEN "server" ELSE "client"

TypeOK ==
    /\ cipher \in [Gateway -> CipherState]
    /\ chan \in [Gateway -> Seq(DataPacket)]
    /\ notice \in [Gateway -> ResetPacket \cup {None}]
    /\ plc \in Nat
    /\ up \in [Gateway -> BOOLEAN]
    /\ alive \in [Gateway -> SUBSET Thread]
    /\ delivered \in [Gateway -> Payload \cup {None}]
    /\ delays \in 0 .. MaxDelays

\* handle_transfer: new cipher objects on the key of the signed exchange, by
\* the arguments each gateway was started with.
NewCiphers(rekeying) == [g \in Gateway |-> NewCipher(g \in rekeying)]

Init ==
    /\ \E rekeying \in Rekeying : cipher = NewCiphers(rekeying)
    /\ chan = [g \in Gateway |-> <<>>]
    /\ notice = [g \in Gateway |-> None]
    /\ plc = 0
    /\ up = [g \in Gateway |-> TRUE]
    /\ alive = [g \in Gateway |-> Thread]
    /\ delivered = [g \in Gateway |-> None]
    /\ delays = MaxDelays

----------------------------------------------------------------------------

\* Every secret that is still referred to, on either side or under way.
SecretsIn(m) == m.key \cup ({m.secret} \ {None})

LiveSecrets ==
    UNION {SecretsOf(cipher[g])
             \cup UNION {SecretsIn(chan[g][i]) : i \in DOMAIN chan[g]}
             \cup (IF notice[g] = None THEN {} ELSE SecretsIn(notice[g])) : g \in Gateway}

\* ECC_key_gen: a pair in use nowhere (one of them: which one cannot matter).
FreshSecrets ==
    IF Secret \subseteq LiveSecrets THEN {} ELSE {CHOOSE s \in Secret : s \notin LiveSecrets}

\* Requests and responses the Modbus client is waiting for.
Outstanding == Len(chan["client"]) + plc + Len(chan["server"])

\* communicator.send.  When the peer has closed the connection the packet may
\* still go into the socket, or raise: a BrokenPipeError sets reset_flag (see
\* Disconnect), any other exception (ConnectionResetError) ends the thread.
Hand(g, m) ==
    \/ /\ chan' = [chan EXCEPT ![Peer(g)] = Append(@, m)]
       /\ UNCHANGED alive
    \/ /\ ~up[Peer(g)]
       /\ alive' = [alive EXCEPT ![g] = @ \ {"enc"}]
       /\ UNCHANGED chan

\* The encrypting thread of g on one payload: encrypt_and_digest, then
\* communicator.send.  An exception out of encrypt_and_digest ends the thread.
EncryptAndSend(g, p) ==
    /\ "enc" \in alive[g]
    /\ cipher' = [cipher EXCEPT ![g] = AfterEncrypt(@, FALSE)]
    /\ IF EncryptRaises(cipher[g], FALSE)
       THEN /\ alive' = [alive EXCEPT ![g] = @ \ {"enc"}]
            /\ UNCHANGED chan
       ELSE Hand(g, Encrypted(cipher[g], p, FALSE))

\* forward_source_dest of the client gateway, one round of its loop.
Request(p) ==
    /\ up["client"]
    /\ Outstanding < Window
    /\ EncryptAndSend("client", p)
    /\ UNCHANGED <<notice, plc, up, delivered, delays>>

\* forward_dest_source of the server gateway, one round: a whole response, or
\* a first part of one when recv may split it.
Response(p, whole) ==
    /\ up["server"]
    /\ plc > 0
    /\ ~whole => SplitResponses /\ chan["client"] = <<>>
    /\ EncryptAndSend("server", p)
    /\ plc' = IF whole THEN plc - 1 ELSE plc
    /\ UNCHANGED <<notice, up, delivered, delays>>

\* The plain side's work that a gateway at the end of its session abandons.
Abandoned(g) == IF g = "server" THEN 0 ELSE plc

\* decrypt_and_verify in the decrypting thread of g, on the packet m.  replayed
\* is the outcome of the replay check; a thread that it ends reads no further.
DecryptAndVerify(g, m, fresh, agreed, replayed) ==
    /\ up[g] /\ "dec" \in alive[g]
    /\ replayed => delays > 0
    /\ cipher' = [cipher EXCEPT ![g] = AfterDecrypt(@, m, fresh, agreed, replayed)]
    /\ alive' = IF Verdict(cipher[g], m, fresh, agreed, replayed) = "crashed"
                THEN [alive EXCEPT ![g] = @ \ {"dec"}] ELSE alive
    /\ delays' = IF replayed THEN delays - 1 ELSE delays

\* One round of the decrypting thread's loop on a data packet: the payload is
\* handed to the plain side, or the packet is reported and dropped.
Decrypt(g) ==
    /\ chan[g] # <<>>
    /\ chan' = [chan EXCEPT ![g] = Tail(@)]
    /\ \E fresh \in FreshSecrets, agreed \in AgreementOutcomes, replayed \in BOOLEAN :
        LET m == Head(chan[g])
        IN  /\ DecryptAndVerify(g, m, fresh, agreed, replayed)
            /\ IF Verdict(cipher[g], m, fresh, agreed, replayed) = "accepted"
               THEN /\ delivered' = [delivered EXCEPT ![g] = m.body]
                    /\ plc' = IF g = "server" THEN plc + 1 ELSE plc
               ELSE UNCHANGED <<delivered, plc>>
    /\ UNCHANGED <<notice, up>>

\* The same on a reset message: a readable one sets reset_flag.  (The reset
\* that g then sends in return meets a socket its peer has closed already.)
DecryptNotice(g) ==
    /\ chan[g] = <<>> /\ notice[g] # None
    /\ notice' = [notice EXCEPT ![g] = None]
    /\ \E fresh \in FreshSecrets, agreed \in AgreementOutcomes, replayed \in BOOLEAN :
        /\ DecryptAndVerify(g, notice[g], fresh, agreed, replayed)
        /\ IF Verdict(cipher[g], notice[g], fresh, agreed, replayed) = "accepted"
           THEN /\ up' = [up EXCEPT ![g] = FALSE]
                /\ plc' = Abandoned(g)
           ELSE UNCHANGED <<up, plc>>
    /\ UNCHANGED <<chan, delivered>>

\* The plain side of g went away, the operator stopped it or its connection is
\* broken: reset_flag is set, by whichever thread meets it first, and the
\* encrypting thread, if it still runs, seals the reset message at the end of
\* its round.  The step stands for that sealing: the round that each thread is
\* in when the flag is set comes before it.  (A decrypting thread that ends its
\* round, or dies of the plain side's socket, after it changes nothing that is
\* sent any more.)
Disconnect(g) ==
    /\ up[g]
    /\ up' = [up EXCEPT ![g] = FALSE]
    /\ plc' = Abandoned(g)
    /\ IF "enc" \in alive[g]
       THEN /\ cipher' = [cipher EXCEPT ![g] = AfterEncrypt(@, TRUE)]
            /\ notice' = [notice EXCEPT ![Peer(g)] = Encrypted(cipher[g], Reset, TRUE)]
       ELSE UNCHANGED <<cipher, notice>>
    /\ UNCHANGED <<chan, alive, delivered, delays>>

\* The peer has closed its socket, so that the decrypting thread reads the end
\* of the stream (or, without one, the encrypting thread's send fails); or no
\* thread is left and handle_transfer returns.
SessionOver(g) ==
    \/ /\ ~up[Peer(g)]
       /\ "dec" \in alive[g] => chan[g] = <<>> /\ notice[g] = None
    \/ alive[g] = {}

End(g) ==
    /\ up[g] /\ SessionOver(g)
    /\ up' = [up EXCEPT ![g] = FALSE]
    /\ plc' = Abandoned(g)
    /\ UNCHANGED <<cipher, chan, notice, alive, delivered, delays>>

\* Both main loops come round: connect, key exchange, handle_transfer.
Reconnect ==
    /\ \A g \in Gateway : ~up[g]
    /\ cipher' = NewCiphers({g \in Gateway : cipher[g].rek.enabled})
    /\ chan' = [g \in Gateway |-> <<>>]
    /\ notice' = [g \in Gateway |-> None]
    /\ plc' = 0
    /\ up' = [g \in Gateway |-> TRUE]
    /\ alive' = [g \in Gateway |-> Thread]
    /\ delivered' = [g \in Gateway |-> None]
    /\ delays' = MaxDelays

\* set_rekey_interval seconds have passed since the last rekeying at g.
Expire(g) ==
    /\ up[g] /\ cipher[g].rek.enabled
    /\ ~cipher[g].rek.due
    /\ cipher' = [cipher EXCEPT ![g] = Due(@)]
    /\ UNCHANGED <<chan, notice, plc, up, alive, delivered, delays>>

Next ==
    \/ \E p \in Payload : Request(p) \/ \E whole \in BOOLEAN : Response(p, whole)
    \/ \E g \in Gateway :
          Decrypt(g) \/ DecryptNotice(g) \/ Disconnect(g) \/ End(g) \/ Expire(g)
    \/ Reconnect

Spec == Init /\ [][Next]_vars

\* The threads and the main loops keep running, the Modbus client keeps
\* polling and the PLC keeps answering.  Nobody has to disconnect, and no
\* timer has to expire.
Fairness ==
    /\ WF_vars(\E p \in Payload : Request(p))
    /\ WF_vars(\E p \in Payload : Response(p, TRUE))
    /\ \A g \in Gateway : WF_vars(Decrypt(g) \/ DecryptNotice(g)) /\ WF_vars(End(g))
    /\ WF_vars(Reconnect)

FairSpec == Spec /\ Fairness

----------------------------------------------------------------------------
(* Properties                                                              *)

\* g opens m whatever its key agreement and its random generator do.
Opens(g, m) ==
    \A fresh \in FreshSecrets, agreed \in AgreementOutcomes :
        Verdict(cipher[g], m, fresh, agreed, FALSE) = "accepted"

\* decrypt_and_verify returns a plaintext for every data packet that is next
\* in line at a gateway, however the agreement and the timers turn out: no
\* honest message is ever reported as "tampered or key is incorrect".
DataReadable ==
    \A g \in Gateway : up[g] /\ chan[g] # <<>> => Opens(g, Head(chan[g]))

\* The same for the message that ends a session (SOCKET_RESET_MESSAGE), for which
\* encrypt_and_digest updates the key and then abandons a rekeying that is under
\* way.  It is lost only where the two ends have the switch between them: the
\* initiator that has REPLY seals with the new key what it flags NONE, and the
\* replier that meets SWITCH on its way out has sealed with the old one.
ResetReadable ==
    \A g \in Gateway :
        up[g] /\ chan[g] = <<>> /\ notice[g] # None =>
            \/ Opens(g, notice[g])
            \/ cipher[g].rek.new # None /\ notice[g].key # cipher[g].key

\* While the session lasts the gateways never both think that they started the
\* rekeying: each would wait for the other's REPLY.
OneInitiator ==
    (\A g \in Gateway : up[g]) => \E g \in Gateway : cipher[g].rek.role # "initiator"

\* handle_rekey raises on a running exchange's flag only if it has no part in
\* that exchange; for a packet of the live peer that is never the case.
RoleKnown ==
    \A g \in Gateway :
        (up[g] /\ chan[g] # <<>>) =>
            ~HandleRekeyRaises(cipher[g].rek, Head(chan[g]).flag, Head(chan[g]).secret)

\* No call of encrypt_and_digest or decrypt_and_verify ends a forwarding thread
\* with an exception, and a send into the tunnel only where the peer has left
\* the session: as long as both gateways are in it, both forward both ways.
ThreadsSurvive ==
    \A g \in Gateway : "dec" \in alive[g] /\ (up[Peer(g)] => "enc" \in alive[g])

\* A gateway that rekeys alone, against one started with --disable-rekeying, is
\* never answered, and that harms nothing, whatever is split or arrives late.
RekeyingAloneHarmless ==
    (\E g \in Gateway : ~cipher[g].rek.enabled) =>
        DataReadable /\ ThreadsSurvive

\* Forward secrecy: a rekeyer at rest holds no ephemeral secret and no key
\* besides the one in use, so a replaced key is gone once both are at rest.
AtRestForgets ==
    \A g \in Gateway :
        LET r == cipher[g].rek
        IN  r.role = "idle" /\ r.send = "NONE" /\ ~r.fail =>
                /\ r.own = None /\ r.peer = None
                /\ {r.old, r.new} \subseteq {None, cipher[g].key}

\* With nothing under way and no switch pending the two ends use one key.
KeysAgree ==
    (/\ \A g \in Gateway : up[g] /\ chan[g] = <<>>
     /\ plc = 0) => cipher["client"].key = cipher["server"].key

\* A gateway switches only to a key that its peer uses or holds ready: it never
\* moves to a key on its own, nor back to one the peer has forgotten.
SwitchTogether ==
    [][\A g \in Gateway :
         up[Peer(g)] /\ up'[g] /\ cipher'[g].key # cipher[g].key =>
             LET k == cipher'[g].key
                 c == cipher'[Peer(g)]
             IN  k = c.key \/ k = c.rek.new]_vars

\* The second decryption attempt, with the key the packet may have been sealed
\* with before a failed rekeying, is never what opens a packet: where the peer
\* is honest and nothing arrives late, every failure is announced by REKEY_FAIL.
FallbackUnused ==
    \A g \in Gateway : up[g] /\ chan[g] # <<>> =>
        LET m == Head(chan[g])
        IN  \A fresh \in FreshSecrets, agreed \in AgreementOutcomes :
                HandleRekeyRaises(cipher[g].rek, m.flag, m.secret)
                  \/ ~OpensWithOld(Prepared(cipher[g], m, fresh, agreed), m)

\* A rekeying that has become due is carried out, or a key agreement fails and
\* REKEY_FAIL announces it, or the session ends.
RekeyCarriedOut ==
    \A g \in Gateway :
        []<>(~cipher[g].rek.due \/ \E h \in Gateway : cipher[h].rek.send = "FAIL")

\* Traffic does not stop for good: as long as the Modbus client keeps polling
\* in this session, its requests keep reaching the PLC.
RequestsGetThrough == []<>(plc > 0 \/ ~up["client"])

\* The link, one transaction at a time, is a tunnel.
T == INSTANCE Tunnel WITH
        inFlight <- [g \in Gateway |->
                       [i \in DOMAIN chan[g] |-> chan[g][i].body]
                         \o (IF notice[g] = None THEN <<>> ELSE <<Reset>>)]

TunnelImplemented == T!TunnelSpec
=============================================================================
