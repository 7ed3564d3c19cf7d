------------------------------ MODULE Rekeyer ------------------------------
(***************************************************************************)
(* The rekeying state machine of rekeyer.py, class Rekeyer and its no-op   *)
(* subclass RekeyerDisabler.  Each gateway owns one Rekeyer object; the    *)
(* object is a record here and each method an operator from the record     *)
(* before the call to the record after it.  The module has no variables:   *)
(* the modules that use it decide which thread calls which method when.    *)
(*                                                                         *)
(* An X25519 key pair is its identity, a member of Secret: the private     *)
(* half is what own holds and the public half what travels.  A symmetric   *)
(* key is the set of the two secrets it was agreed from, so that both      *)
(* peers compute the same key and only they do; the key a session starts   *)
(* with, from the signed exchange before it, is the empty set.             *)
(***************************************************************************)
CONSTANTS
    Secret,     \* the ECC key pairs ECC_key_gen can return
    None        \* Python's None, and the absent shared secret b''

SessionKey == {}

Key == {SessionKey} \cup {{a, b} : a, b \in Secret}

ASSUME NoneAssumption == None \notin Secret /\ None \notin Key

\* ECDHE_key_agreement: the same key from either side of the exchange.
ECDHE_key_agreement(own, peer) == {own, peer}

RekeyStates == {"NONE", "INIT", "REPLY", "SWITCH", "SWITCH_ACK", "FAIL"}

SHARED_SECRET_FLAGS == {"INIT", "REPLY"}

\* __is_initiator: None, True and False.
Roles == {"idle", "initiator", "replier"}

RekeyerState ==
    [enabled : BOOLEAN,                 \* FALSE for a RekeyerDisabler
     send    : RekeyStates,             \* __send_state
     peer    : Secret \cup {None},      \* __peer_shared_secret
     own     : Secret \cup {None},      \* __own_secret
     old     : Key \cup {None},         \* __old_sym_key
     new     : Key \cup {None},         \* __new_sym_key
     role    : Roles,                   \* __is_initiator
     fail    : BOOLEAN,                 \* __fail_flag
     clear   : BOOLEAN,                 \* __rekey_clear
     due     : BOOLEAN]                 \* rekey_time passed since __rekey_switch_time

NewRekeyer(enabled) ==
    [enabled |-> enabled, send |-> "NONE", peer |-> None, own |-> None,
     old |-> None, new |-> None, role |-> "idle", fail |-> FALSE,
     clear |-> FALSE, due |-> FALSE]

\* Faulty __reset_most: the private half of the pair is kept.
ResetMostKeepingSecret(r) == [r EXCEPT !.peer = None, !.role = "idle", !.fail = FALSE]

ResetMost(r) ==
    [r EXCEPT !.peer = None, !.own = None, !.role = "idle", !.fail = FALSE]

ResetSym(r) == [r EXCEPT !.old = None, !.new = None, !.clear = FALSE]

ResetAll(r) == ResetSym(ResetMost(r))

----------------------------------------------------------------------------
(* Receiving: handle_rekey and the two role handlers it dispatches to.     *)
(* fresh is the pair ECC_key_gen would return in this call, agreed whether *)
(* ECDHE_key_agreement succeeds rather than raising ValueError.            *)

\* The entries of handle_rekey that precede every check and branch.
Noted(r, current, flag, secret) ==
    [r EXCEPT !.old = current,
              !.peer = IF flag \in SHARED_SECRET_FLAGS /\ secret # None THEN secret ELSE @]

\* A flag carries a shared secret exactly when it is INIT or REPLY.
SecretMatchesFlag(flag, secret) ==
    flag \in SHARED_SECRET_FLAGS <=> secret # None

\* The try blocks around __generate_new_key: the agreed key, or no key.
CanGenerate(r, agreed) == agreed /\ r.own # None /\ r.peer # None

Generated(r) == ECDHE_key_agreement(r.own, r.peer)

\* Faulty REKEY_NONE, no reset_sym: the next exchange finds its switch cleared.
OnNoneKeepingKeys(r, fresh) ==
    IF r.due
    THEN [r EXCEPT !.role = "initiator", !.send = "INIT", !.own = fresh]
    ELSE [r EXCEPT !.send = "NONE"]

\* REKEY_NONE: start a rekeying when the interval has passed, else be at rest.
OnNone(r, fresh) ==
    IF r.due
    THEN [r EXCEPT !.role = "initiator", !.send = "INIT", !.own = fresh]
    ELSE ResetSym([r EXCEPT !.send = "NONE"])

\* Faulty REKEY_INIT: the agreed key is not stored.
OnInitForgettingKey(r, fresh, agreed) ==
    LET s == [r EXCEPT !.role = "replier", !.own = fresh]
    IN  IF CanGenerate(s, agreed)
        THEN [s EXCEPT !.send = "REPLY"]
        ELSE ResetAll([s EXCEPT !.send = "FAIL"])

\* REKEY_INIT makes its receiver the replier, whatever it was before.
OnInit(r, fresh, agreed) ==
    LET s == [r EXCEPT !.role = "replier", !.own = fresh]
    IN  IF CanGenerate(s, agreed)
        THEN [s EXCEPT !.send = "REPLY", !.new = Generated(s)]
        ELSE ResetAll([s EXCEPT !.send = "FAIL"])

\* REKEY_REPLY at the initiator.
OnReply(r, agreed) ==
    IF CanGenerate(r, agreed)
    THEN [r EXCEPT !.send = "SWITCH", !.new = Generated(r), !.clear = TRUE]
    ELSE [r EXCEPT !.send = "FAIL", !.fail = TRUE]

\* Faulty REKEY_SWITCH: acknowledged, but the switch is not cleared.
OnSwitchNotClear(r) ==
    IF r.new # None
    THEN ResetMost([r EXCEPT !.send = "SWITCH_ACK", !.due = FALSE])
    ELSE ResetAll([r EXCEPT !.send = "FAIL"])

\* REKEY_SWITCH at the replier; without a new key it fails and raises.
OnSwitch(r) ==
    IF r.new # None
    THEN ResetMost([r EXCEPT !.send = "SWITCH_ACK", !.clear = TRUE, !.due = FALSE])
    ELSE ResetAll([r EXCEPT !.send = "FAIL"])

\* Faulty REKEY_SWITCH_ACK: the role or the timer is not reset.
OnSwitchAckKeepingRole(r) == ResetSym([r EXCEPT !.send = "NONE", !.due = FALSE])

OnSwitchAckKeepingTimer(r) == ResetAll([r EXCEPT !.send = "NONE"])

\* REKEY_SWITCH_ACK at the initiator.
OnSwitchAck(r) == ResetAll([r EXCEPT !.send = "NONE", !.due = FALSE])

\* REPLY, SWITCH and SWITCH_ACK: abandoned after a local failure, otherwise
\* handled by the role the flag is meant for and ignored by the other role.
OnProgress(r, flag, agreed) ==
    CASE r.fail                                       -> ResetAll([r EXCEPT !.send = "NONE"])
      [] ~r.fail /\ r.role = "initiator" /\ flag = "REPLY"      -> OnReply(r, agreed)
      [] ~r.fail /\ r.role = "initiator" /\ flag = "SWITCH_ACK" -> OnSwitchAck(r)
      [] ~r.fail /\ r.role = "replier"   /\ flag = "SWITCH"     -> OnSwitch(r)
      [] OTHER                                        -> r

\* Faulty RekeyerDisabler: it refuses to take part instead of ignoring.
HandleRekeyRefuses(r, flag, secret) == ~r.enabled /\ flag # "NONE"

\* handle_rekey raises ValueError, and decrypt_and_verify with it: for a
\* secret that does not match its flag, for a flag of a running exchange in
\* a rekeyer that has no role, and for a SWITCH without a new key.
HandleRekeyRaises(r, flag, secret) ==
    /\ r.enabled
    /\ \/ ~SecretMatchesFlag(flag, secret)
       \/ /\ flag \in {"REPLY", "SWITCH", "SWITCH_ACK"}
          /\ ~r.fail
          /\ r.role = "idle" \/ (r.role = "replier" /\ flag = "SWITCH" /\ r.new = None)

HandleRekey(r, current, flag, secret, fresh, agreed) ==
    LET s == Noted(r, current, flag, secret)
    IN  CASE ~r.enabled                       -> r
          [] r.enabled /\ ~SecretMatchesFlag(flag, secret) -> s
          [] r.enabled /\ SecretMatchesFlag(flag, secret)  ->
               CASE flag = "NONE" -> OnNone(s, fresh)
                 [] flag = "INIT" -> OnInit(s, fresh, agreed)
                 [] flag = "FAIL" -> ResetAll([s EXCEPT !.send = "NONE"])
                 [] OTHER         -> OnProgress(s, flag, agreed)

----------------------------------------------------------------------------
(* What SymCipher asks for around each message it seals or opens.          *)

\* Faulty get_new_key: the role is not asked for when the switch is due.
NewKeyBeforeSendOnly(r, beforeSend) ==
    CASE ~r.enabled           -> None
      [] r.enabled /\ r.fail  -> r.old
      [] r.enabled /\ ~r.fail -> IF r.clear /\ beforeSend THEN r.new ELSE None

NewKeyAtOnce(r, beforeSend) ==
    CASE ~r.enabled           -> None
      [] r.enabled /\ r.fail  -> r.old
      [] r.enabled /\ ~r.fail -> IF r.clear THEN r.new ELSE None

\* get_new_key, its result: the old key after a failure, the new key once the
\* switch is clear -- at the initiator before it sends, at the replier (or a
\* rekeyer already back at rest) before it decrypts -- and None otherwise.
NewKey(r, beforeSend) ==
    CASE ~r.enabled              -> None
      [] r.enabled /\ r.fail     -> r.old
      [] r.enabled /\ ~r.fail    ->
           IF r.clear /\ (r.role = "initiator" <=> beforeSend) THEN r.new ELSE None

\* get_new_key, its effect: reporting a failure resets everything.
AfterNewKey(r) == IF r.enabled /\ r.fail THEN ResetAll(r) ELSE r

\* Faulty get_send_state: the flag of the abandoned exchange is announced.
AfterSendStateKeepingFlag(r, isReset) ==
    IF r.enabled /\ isReset THEN ResetAll(r) ELSE r

\* get_send_state: a reset message abandons the exchange and carries NONE.
AfterSendState(r, isReset) ==
    IF r.enabled /\ isReset THEN ResetAll([r EXCEPT !.send = "NONE"]) ELSE r

SendState(r) == IF r.enabled THEN r.send ELSE "NONE"

\* get_own_public_secret, which raises when an announced secret is missing.
OwnPublicSecret(r) ==
    IF r.enabled /\ r.send \in SHARED_SECRET_FLAGS THEN r.own ELSE None

OwnPublicSecretRaises(r) ==
    r.enabled /\ r.send \in SHARED_SECRET_FLAGS /\ r.own = None

SetFailFlag(r) == [r EXCEPT !.fail = TRUE]

OldKey(r) == IF r.enabled THEN r.old ELSE None
============================================================================
