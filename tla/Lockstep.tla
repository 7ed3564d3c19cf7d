------------------------------ MODULE Lockstep ------------------------------
(***************************************************************************)
(* Why rekeying works when the Modbus client keeps one transaction at a    *)
(* time and nothing arrives late: the inductive invariant of SecureLink    *)
(* under that assumption.  The two ciphers move in step, and InStep says   *)
(* which states they can be in together.                                   *)
(***************************************************************************)
EXTENDS SecureLink

LockstepTraffic == Window = 1 /\ ~SplitResponses /\ MaxDelays = 0

\* A gateway that waits for a packet holds no key it has yet to switch to.
Settled(c) == c.rek.clear => c.rek.new = c.key

\* The initiator, from its INIT to the SWITCH_ACK; only a due one is.
Initiating(c) == c.rek.enabled /\ c.rek.role = "initiator" /\ c.rek.own # None /\ c.rek.due

\* a is about to send, or has sent and waits; b sent the packet before that.
\* By what a announces:
InStep(a, b) ==
    /\ ~a.rek.fail /\ ~b.rek.fail
    /\ Settled(b)
    /\ \/ /\ a.rek.send = "NONE" /\ a.rek.role = "idle" /\ ~a.rek.clear
          /\ \/ b.rek.role = "idle" /\ b.rek.send = "NONE" /\ ~b.rek.clear
             \/ b.rek.role = "idle" /\ b.rek.send \in {"FAIL", "SWITCH_ACK"} /\ b.rek.enabled
             \/ Initiating(b) /\ b.rek.send = "INIT" /\ ~a.rek.enabled
       \/ /\ a.rek.send = "INIT" /\ Initiating(a) /\ Settled(a)
          /\ b.rek.send = "NONE" /\ b.rek.role = "idle" /\ ~b.rek.clear
       \/ /\ a.rek.send = "REPLY" /\ a.rek.enabled /\ a.rek.role = "replier" /\ ~a.rek.clear
          /\ a.rek.own # None /\ a.rek.new = {a.rek.own, b.rek.own}
          /\ b.rek.send = "INIT" /\ Initiating(b)
       \/ /\ a.rek.send = "SWITCH" /\ Initiating(a) /\ a.rek.clear
          /\ a.rek.new \in Key /\ a.rek.new = b.rek.new
          /\ b.rek.send = "REPLY" /\ b.rek.enabled /\ b.rek.role = "replier" /\ ~b.rek.clear
          /\ b.rek.own # None
       \/ /\ a.rek.send = "SWITCH_ACK" /\ a.rek.enabled /\ a.rek.role = "idle" /\ Settled(a)
          /\ b.rek.send = "SWITCH" /\ Initiating(b)
       \/ /\ a.rek.send = "FAIL" /\ a.rek.enabled /\ a.rek.role = "idle" /\ ~a.rek.clear
          /\ \/ b.rek.send = "INIT" /\ Initiating(b)
             \/ /\ b.rek.send = "REPLY" /\ b.rek.enabled /\ b.rek.role = "replier"
                /\ b.rek.own # None

\* It is a's turn to send.
Turn(a, b) == InStep(a, b) /\ a.key = b.key

\* a has sent m, which is on its way to b.
Sent(a, b, m) ==
    /\ InStep(a, b)
    /\ a.key = IF a.rek.send = "SWITCH" THEN a.rek.new ELSE b.key
    /\ m.flag = SendState(a.rek) /\ m.secret = OwnPublicSecret(a.rek) /\ m.key = a.key

\* encrypt_and_digest will not raise.
Sound(c) == ~c.rek.fail /\ ~OwnPublicSecretRaises(c.rek)

\* c opens m, before and after its timer expires, and is sound afterwards.
SafelyOpens(c, m) ==
    \A d \in {c, Due(c)}, fresh \in Secret, agreed \in BOOLEAN :
        /\ Verdict(d, m, fresh, agreed, FALSE) = "accepted"
        /\ Sound(AfterDecrypt(d, m, fresh, agreed, FALSE))

BothUp == \A g \in Gateway : up[g]

\* At most one transaction is open, no thread has died while it had a peer, and what is still to
\* be read is readable even after its sender is gone.
LocallySafe ==
    /\ Outstanding <= 1 /\ ThreadsSurvive
    /\ \A g \in Gateway :
        /\ Sound(cipher[g])
        /\ notice[g] # None => notice[g].flag = "NONE" /\ notice[g].secret = None /\ ~up[Peer(g)]
        /\ up[g] /\ chan[g] # <<>> => SafelyOpens(cipher[g], Head(chan[g]))

\* While both gateways are up, one of them has the turn.
MovesInStep ==
    BothUp =>
        /\ \A g \in Gateway : chan[g] # <<>> => Sent(cipher[Peer(g)], cipher[g], Head(chan[g]))
        /\ (\A g \in Gateway : chan[g] = <<>>) =>
               IF plc = 0 THEN Turn(cipher["client"], cipher["server"])
                          ELSE Turn(cipher["server"], cipher["client"])

InStepInv == TypeOK /\ LocallySafe /\ MovesInStep

\* A rekeyer without a role holds no ephemeral pair, and no key besides the one in
\* use once its last exchange is over.
Forgets(c) ==
    c.rek.role = "idle" /\ ~c.rek.fail =>
        /\ c.rek.own = None /\ c.rek.peer = None
        /\ c.rek.send = "NONE" => {c.rek.old, c.rek.new} \subseteq {None, c.key}

\* c uses the key of the reset message, or has a new key of its own.
ReadsOrSwitches(c, k) == c.key = k \/ c.rek.new # None

\* The same of the reset message on its way to g, once what is before it is read.
NoticeFollows(g) ==
    up[g] /\ notice[g] # None =>
        IF chan[g] = <<>> THEN ReadsOrSwitches(cipher[g], notice[g].key)
        ELSE \A d \in {cipher[g], Due(cipher[g])}, fresh \in Secret, agreed \in BOOLEAN :
                 ReadsOrSwitches(AfterDecrypt(d, Head(chan[g]), fresh, agreed, FALSE), notice[g].key)

LockstepInv == InStepInv /\ \A g \in Gateway : Forgets(cipher[g]) /\ NoticeFollows(g)
=============================================================================
