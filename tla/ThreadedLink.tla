---------------------------- MODULE ThreadedLink ----------------------------
(***************************************************************************)
(* SecureLink with the calls of encrypt_and_digest and decrypt_and_verify  *)
(* taken apart into the method calls they consist of, and handle_rekey at  *)
(* its calls of ECC_key_gen and ECDHE_key_agreement, which take long: the  *)
(* two threads of a gateway share its SymCipher, and nothing keeps one     *)
(* from running between two steps of the other.  A run of attribute        *)
(* assignments without such a call is one step.                            *)
(*                                                                         *)
(* One session, as long as it lasts: nobody disconnects.                   *)
(***************************************************************************)
EXTENDS SecureLink

VARIABLES
    seal,       \* [Gateway -> SealCall]: the encrypting thread in encrypt_and_digest
    open,       \* [Gateway -> OpenCall]: the decrypting thread in decrypt_and_verify
    begun       \* [Gateway -> CipherState]: history, the cipher as the last call found it

threadedVars == <<cipher, chan, notice, plc, up, alive, delivered, delays, seal, open, begun>>

session == <<notice, up, delays>>

SealCall ==
    [pc   : {"idle", "seal", "flag", "secret"},
     body : Payload \cup {None},
     key  : Key \cup {None},            \* the key in the cipher object
     flag : RekeyStates]                \* what get_send_state returned

OpenCall ==
    [pc     : {"idle", "own", "agree", "update", "open"},
     fresh  : Secret \cup {None},       \* what ECC_key_gen returns in this call
     agreed : BOOLEAN]                  \* whether ECDHE_key_agreement does

NoSeal == [pc |-> "idle", body |-> None, key |-> None, flag |-> "NONE"]

NoOpen == [pc |-> "idle", fresh |-> None, agreed |-> FALSE]

ThreadedInit ==
    /\ Init
    /\ seal = [g \in Gateway |-> NoSeal]
    /\ open = [g \in Gateway |-> NoOpen]
    /\ begun = cipher

----------------------------------------------------------------------------
(* encrypt_and_digest                                                      *)

\* Plaintext is read, and the key updated.
StartSeal(g, p) ==
    /\ "enc" \in alive[g] /\ seal[g].pc = "idle"
    /\ IF g = "client" THEN Outstanding < Window ELSE plc > 0
    /\ cipher' = [cipher EXCEPT ![g] = UpdateKey(@, TRUE)]
    /\ seal' = [seal EXCEPT ![g].pc = "seal", ![g].body = p]
    /\ begun' = [begun EXCEPT ![g] = cipher[g]]
    /\ UNCHANGED <<chan, plc, alive, delivered, open, session>>

\* The private __encrypt_and_digest: the key as it is now.
SealBody(g) ==
    /\ seal[g].pc = "seal"
    /\ seal' = [seal EXCEPT ![g].pc = "flag", ![g].key = cipher[g].key]
    /\ UNCHANGED <<cipher, chan, plc, alive, delivered, open, begun, session>>

\* get_send_state.
AskFlag(g) ==
    /\ seal[g].pc = "flag"
    /\ seal' = [seal EXCEPT ![g].pc = "secret", ![g].flag = SendState(cipher[g].rek)]
    /\ UNCHANGED <<cipher, chan, plc, alive, delivered, open, begun, session>>

\* get_own_public_secret, which looks at the state again; pack and send.
AskSecret(g) ==
    LET r == cipher[g].rek
        m == [flag |-> seal[g].flag, secret |-> OwnPublicSecret(r),
              key  |-> seal[g].key, body |-> seal[g].body]
    IN  /\ seal[g].pc = "secret"
        /\ IF OwnPublicSecretRaises(r)
           THEN /\ alive' = [alive EXCEPT ![g] = @ \ {"enc"}]
                /\ UNCHANGED chan
           ELSE /\ chan' = [chan EXCEPT ![Peer(g)] = Append(@, m)]
                /\ UNCHANGED alive
        /\ plc' = IF g = "server" THEN plc - 1 ELSE plc
        /\ seal' = [seal EXCEPT ![g] = NoSeal]
        /\ UNCHANGED <<cipher, delivered, open, begun, session>>

----------------------------------------------------------------------------
(* decrypt_and_verify, on the packet at the head of the channel            *)

Packet(g) == Head(chan[g])

\* The call ends with a plaintext, or with a ValueError.
EndOpen(g, accepted) ==
    /\ chan' = [chan EXCEPT ![g] = Tail(@)]
    /\ open' = [open EXCEPT ![g] = NoOpen]
    /\ IF accepted
       THEN /\ delivered' = [delivered EXCEPT ![g] = Packet(g).body]
            /\ plc' = IF g = "server" THEN plc + 1 ELSE plc
       ELSE UNCHANGED <<delivered, plc>>

\* ECC_key_gen: a pair that no thread holds either.
FreshPairs ==
    LET held == LiveSecrets \cup ({open[g].fresh : g \in Gateway} \ {None})
    IN  IF Secret \subseteq held THEN {} ELSE {CHOOSE s \in Secret : s \notin held}

\* handle_rekey as far as its first slow call, and the step that makes it.  A
\* flag that needs none is handled at once.
Begun(s, flag) ==
    CASE flag = "NONE" /\ s.due -> [s EXCEPT !.role = "initiator", !.send = "INIT"]
      [] flag = "INIT"          -> [s EXCEPT !.role = "replier", !.send = "REPLY"]
      [] flag = "REPLY"         -> [s EXCEPT !.send = "SWITCH"]

SlowStep(r, flag) ==
    CASE ~r.enabled                 -> "update"
      [] r.enabled /\ flag = "INIT" -> "own"
      [] r.enabled /\ flag = "NONE" -> IF r.due THEN "own" ELSE "update"
      [] r.enabled /\ flag = "REPLY" ->
            IF r.role = "initiator" /\ ~r.fail THEN "agree" ELSE "update"
      [] OTHER -> "update"

StartOpen(g) ==
    LET m == Packet(g)
        c == cipher[g]
        next == SlowStep(c.rek, m.flag)
    IN  /\ "dec" \in alive[g] /\ open[g].pc = "idle" /\ chan[g] # <<>>
        /\ begun' = [begun EXCEPT ![g] = c]
        /\ \E fresh \in FreshPairs, agreed \in AgreementOutcomes :
              /\ cipher' = [cipher EXCEPT ![g].rek =
                    IF next = "update" \/ HandleRekeyRaises(@, m.flag, m.secret)
                    THEN HandleRekey(@, c.key, m.flag, m.secret, fresh, agreed)
                    ELSE Begun(Noted(@, c.key, m.flag, m.secret), m.flag)]
              /\ IF HandleRekeyRaises(c.rek, m.flag, m.secret)
                 THEN EndOpen(g, FALSE)
                 ELSE /\ open' = [open EXCEPT ![g] = [pc |-> next, fresh |-> fresh, agreed |-> agreed]]
                      /\ UNCHANGED <<chan, delivered, plc>>
        /\ UNCHANGED <<alive, seal, session>>

InCall == <<chan, plc, alive, delivered, seal, begun, session>>

\* Faulty start of a rekeying: only the replier makes a pair.
MakeOwnAtInit(g) ==
    /\ open[g].pc = "own"
    /\ cipher' = [cipher EXCEPT ![g].rek.own = IF Packet(g).flag = "INIT" THEN open[g].fresh ELSE @]
    /\ open' = [open EXCEPT ![g].pc = IF Packet(g).flag = "INIT" THEN "agree" ELSE "update"]
    /\ UNCHANGED InCall

\* The own pair is there.
MakeOwn(g) ==
    /\ open[g].pc = "own"
    /\ cipher' = [cipher EXCEPT ![g].rek.own = open[g].fresh]
    /\ open' = [open EXCEPT ![g].pc = IF Packet(g).flag = "INIT" THEN "agree" ELSE "update"]
    /\ UNCHANGED InCall

\* Faulty agreement: the replier is clear to switch as soon as it has the key.
AgreeClearing(g) ==
    LET r == cipher[g].rek
        isInit == Packet(g).flag = "INIT"
    IN  /\ open[g].pc = "agree"
        /\ cipher' = [cipher EXCEPT ![g].rek =
              IF CanGenerate(r, open[g].agreed)
              THEN [r EXCEPT !.new = Generated(r), !.clear = TRUE]
              ELSE IF isInit THEN ResetAll([r EXCEPT !.send = "FAIL"])
                             ELSE [r EXCEPT !.send = "FAIL", !.fail = TRUE]]
        /\ open' = [open EXCEPT ![g].pc = "update"]
        /\ UNCHANGED InCall

\* The new key is there, or ValueError is caught.
Agree(g) ==
    LET r == cipher[g].rek
        isInit == Packet(g).flag = "INIT"
    IN  /\ open[g].pc = "agree"
        /\ cipher' = [cipher EXCEPT ![g].rek =
              IF CanGenerate(r, open[g].agreed)
              THEN [r EXCEPT !.new = Generated(r), !.clear = @ \/ ~isInit]
              ELSE IF isInit THEN ResetAll([r EXCEPT !.send = "FAIL"])
                             ELSE [r EXCEPT !.send = "FAIL", !.fail = TRUE]]
        /\ open' = [open EXCEPT ![g].pc = "update"]
        /\ UNCHANGED InCall

\* Faulty thread: the payload is handed on before the call has ended.
UpdateOpenHandingOn(g) ==
    /\ open[g].pc = "update"
    /\ cipher' = [cipher EXCEPT ![g] = UpdateKey(@, FALSE)]
    /\ open' = [open EXCEPT ![g].pc = "open"]
    /\ plc' = IF g = "server" THEN plc + 1 ELSE plc
    /\ UNCHANGED <<chan, alive, delivered, seal, begun, session>>

\* The key is updated.
UpdateOpen(g) ==
    /\ open[g].pc = "update"
    /\ cipher' = [cipher EXCEPT ![g] = UpdateKey(@, FALSE)]
    /\ open' = [open EXCEPT ![g].pc = "open"]
    /\ UNCHANGED InCall

\* Decrypted, if need be with the old key.
OpenBody(g) ==
    LET m == Packet(g)
        again == OpensWithOld(cipher[g], m)
    IN  /\ open[g].pc = "open"
        /\ EndOpen(g, m.key = cipher[g].key \/ again)
        /\ cipher' = [cipher EXCEPT ![g] = IF again THEN [key |-> m.key, rek |-> SetFailFlag(@.rek)] ELSE @]
        /\ UNCHANGED <<alive, seal, begun, session>>

Idle(g) == seal[g].pc = "idle" /\ open[g].pc = "idle"

\* The timer is read in one step of a call only: between calls is enough.
ExpireIdle(g) ==
    /\ Idle(g)
    /\ Expire(g)
    /\ UNCHANGED <<seal, open, begun>>

ThreadedNext ==
    \E g \in Gateway :
        \/ \E p \in Payload : StartSeal(g, p)
        \/ SealBody(g) \/ AskFlag(g) \/ AskSecret(g)
        \/ StartOpen(g) \/ MakeOwn(g) \/ Agree(g) \/ UpdateOpen(g) \/ OpenBody(g)
        \/ ExpireIdle(g)

ThreadedSpec == ThreadedInit /\ [][ThreadedNext]_threadedVars

----------------------------------------------------------------------------
(* Properties                                                              *)

\* One transaction at a time, a SymCipher is in one call at a time, though the two
\* threads that handle_transfer starts share it without a lock, and the other
\* gateway's is in none: a thread hands its payload on only when its call is over.
OneCall ==
    /\ \A g \in Gateway : seal[g].pc = "idle" \/ open[g].pc = "idle"
    /\ \E g \in Gateway : Idle(g)

\* get_own_public_secret never raises "self.__own_secret is None when it should
\* have been EccKey", which would end the encrypting thread: no handle_rekey of the
\* other thread is between the flag it has set and the pair it is generating.
OwnSecretThere ==
    \A g \in Gateway : seal[g].pc = "secret" => ~OwnPublicSecretRaises(cipher[g].rek)

\* The cipher of a gateway in a call is what the call found, until the call ends.
BetweenCalls == [g \in Gateway |-> IF Idle(g) THEN cipher[g] ELSE begun[g]]

\* SecureLink, whose calls are one step each.
L == INSTANCE SecureLink WITH cipher <- BetweenCalls

\* With one transaction at a time every interleaving of the calls' steps does what
\* the calls would do one after the other: a packet carries the flag, the secret
\* and the key of one moment, so what SecureLink is checked for holds of it.
LinkImplemented == L!Spec
=============================================================================
