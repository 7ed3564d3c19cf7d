---------------------------- MODULE Association ----------------------------
(***************************************************************************)
(* The programs under auth_handshake that an operator runs by hand, one at *)
(* a time on each device: the handshake, as client or as server, by which  *)
(* two devices learn and seal each other's public key, and the deletion of *)
(* the keys.  A device may crash between any two steps.                    *)
(*                                                                         *)
(* The peer is honest, so a signature fails only when the key it is        *)
(* checked with is not the key that made it.                               *)
(***************************************************************************)
EXTENDS TpmStore, Sequences

VARIABLES
    store,      \* [Gateway -> Store]
    tool,       \* [Gateway -> Tool]: the program running on each device
    wire,       \* [Gateway -> Seq(Signed)]: handshake messages under way to each
    report      \* [Gateway -> Reports]: history, how the last program of each ended

vars == <<store, tool, wire, report>>

\* "PEER DEVICE IS NOW ASSOCIATED WITH THIS DEVICE", printed before the file is
\* written; the end of that program ("complete"); or the end of auth_delete_keys.
\* A deletion, on either device, takes back what was reported before.
Reports == {"none", "associated", "complete", "deleted"}

Success == {"associated", "complete"}

\* A message of the handshake: a public key (or none) and who signed.
Signed == [pub : SignKey \cup {None}, signer : SignKey]

Handshaking == {"create", "key", "proof"}

ToolStates == {"off", "listen", "seal", "write", "delSign", "delSeal", "delFile"} \cup Handshaking

Tool ==
    [pc   : ToolStates,
     own  : SignKey \cup {None},    \* own_pub_key
     peer : SignKey \cup {None},    \* peer_public_key
     eof  : BOOLEAN,                \* the peer's end of the connection is closed
     left : SUBSET {"sign", "seal"}]  \* auth_delete_keys said "could NOT be deleted" of these

ToolAt(pc) == [pc |-> pc, own |-> None, peer |-> None, eof |-> FALSE, left |-> {}]

Init ==
    /\ store = [d \in Gateway |-> NoStore]
    /\ tool = [d \in Gateway |-> ToolAt("off")]
    /\ wire = [d \in Gateway |-> <<>>]
    /\ report = [d \in Gateway |-> "none"]

----------------------------------------------------------------------------

\* The program of d ends, by itself, by an exception or by a crash, and the
\* operating system closes its connection.
Ended(d) ==
    /\ tool' = [tool EXCEPT ![d] = ToolAt("off"),
                            ![Peer(d)].eof = @ \/ {tool[d].pc, tool[Peer(d)].pc} \subseteq Handshaking]
    /\ wire' = [wire EXCEPT ![d] = <<>>]

\* auth_handshake_server, as far as accept.
Listen ==
    /\ tool["server"].pc = "off"
    /\ tool' = [tool EXCEPT !["server"] = ToolAt("listen")]
    /\ report' = [report EXCEPT !["server"] = "none"]
    /\ UNCHANGED <<store, wire>>

\* auth_handshake_client: connect.  A server program that is busy leaves the
\* connection in its backlog and sooner or later closes it unserved.
Connect ==
    LET busy == tool["server"].pc # "listen"
    IN  /\ tool["client"].pc = "off"
        /\ tool["server"].pc \in Handshaking \cup {"listen", "seal", "write"}
        /\ tool' = [d \in Gateway |->
                      IF d = "client" THEN [ToolAt("create") EXCEPT !.eof = busy]
                      ELSE IF busy THEN tool[d] ELSE ToolAt("create")]
        /\ report' = [report EXCEPT !["client"] = "none"]
        /\ UNCHANGED <<store, wire>>

\* create_key, sign_data; the client sends its key first.
Create(d, fresh) ==
    LET s == CreateKey(store[d], fresh)
    IN  /\ tool[d].pc = "create"
        /\ store' = [store EXCEPT ![d] = s]
        /\ tool' = [tool EXCEPT ![d].pc = "key", ![d].own = s.sign]
        /\ wire' = IF d = "client" /\ ~tool[d].eof
                   THEN [wire EXCEPT ![Peer(d)] = Append(@, [pub |-> s.sign, signer |-> s.sign])]
                   ELSE wire
        /\ UNCHANGED report

\* What d sends on, unless the peer's end is closed.
Passed(d, m) ==
    [wire EXCEPT ![d] = Tail(@),
                 ![Peer(d)] = IF tool[d].eof THEN @ ELSE Append(@, m)]

\* The key that the message d waits for must be signed with, and the answers
\* that d itself has to sign (the server sends its key as it signed it before).
Signer(d) == IF tool[d].pc = "key" THEN Head(wire[d]).pub ELSE tool[d].peer

MustSign(d) == tool[d].pc = IF d = "client" THEN "key" ELSE "proof"

Received(d) ==
    /\ tool[d].pc \in {"key", "proof"} /\ wire[d] # <<>>
    /\ VerifyRsaSignature(Signer(d), Head(wire[d]).signer)
    /\ MustSign(d) => CanSign(store[d])

\* Faulty order: the server sends its key only after the client's proof.
ReceiveKeySilently(d) ==
    /\ tool[d].pc = "key" /\ Received(d)
    /\ tool' = [tool EXCEPT ![d].pc = "proof", ![d].peer = Head(wire[d]).pub]
    /\ wire' = IF d = "server" THEN [wire EXCEPT ![d] = Tail(@)]
               ELSE Passed(d, [pub |-> None, signer |-> store[d].sign])
    /\ UNCHANGED <<store, report>>

\* The peer's key: the server answers with its own, the client with a proof.
ReceiveKey(d) ==
    /\ tool[d].pc = "key" /\ Received(d)
    /\ tool' = [tool EXCEPT ![d].pc = "proof", ![d].peer = Head(wire[d]).pub]
    /\ wire' = Passed(d, IF d = "server" THEN [pub |-> tool[d].own, signer |-> tool[d].own]
                                         ELSE [pub |-> None, signer |-> store[d].sign])
    /\ UNCHANGED <<store, report>>

\* Faulty receive: the key that comes with the second message, which carries
\* none, takes the place of the first.
ReceiveProofAndKey(d) ==
    /\ tool[d].pc = "proof" /\ Received(d)
    /\ tool' = [tool EXCEPT ![d].pc = "seal", ![d].peer = Head(wire[d]).pub]
    /\ wire' = IF d = "server" THEN Passed(d, [pub |-> None, signer |-> store[d].sign])
                               ELSE [wire EXCEPT ![d] = Tail(@)]
    /\ UNCHANGED <<store, report>>

\* The own number, signed by the peer: the server answers in kind.
ReceiveProof(d) ==
    /\ tool[d].pc = "proof" /\ Received(d)
    /\ tool' = [tool EXCEPT ![d].pc = "seal"]
    /\ wire' = IF d = "server" THEN Passed(d, [pub |-> None, signer |-> store[d].sign])
                               ELSE [wire EXCEPT ![d] = Tail(@)]
    /\ UNCHANGED <<store, report>>

\* receive raises ConnectionError, sign_data raises RuntimeError, or a signature
\* is not valid: the program ends.
BreakOff(d) ==
    /\ tool[d].pc \in {"key", "proof"}
    /\ IF wire[d] = <<>> THEN tool[d].eof ELSE ~Received(d)
    /\ Ended(d)
    /\ UNCHANGED <<store, report>>

\* Faulty order: the file is written, and then the key is sealed.
SealAfterWriting(d) ==
    /\ tool[d].pc = "seal"
    /\ IF CanSeal(store[d])
       THEN /\ store' = [store EXCEPT ![d] = [LinkWithSeal(@, tool[d].peer) EXCEPT !.file = tool[d].peer]]
            /\ tool' = [tool EXCEPT ![d].pc = "write"]
            /\ report' = [report EXCEPT ![d] = "associated"]
            /\ UNCHANGED wire
       ELSE /\ store' = [store EXCEPT ![d].file = tool[d].peer]
            /\ Ended(d)
            /\ UNCHANGED report

\* Faulty seal: the result of link_with_seal is not looked at.
SealUnasked(d) ==
    /\ tool[d].pc = "seal"
    /\ store' = [store EXCEPT ![d] = IF CanSeal(@) THEN LinkWithSeal(@, tool[d].peer) ELSE @]
    /\ tool' = [tool EXCEPT ![d].pc = "write"]
    /\ report' = [report EXCEPT ![d] = "associated"]
    /\ UNCHANGED wire

\* link_with_seal: an existing seal means "Peer device was NOT associated", and
\* success is reported at once.
Seal(d) ==
    /\ tool[d].pc = "seal"
    /\ IF CanSeal(store[d])
       THEN /\ store' = [store EXCEPT ![d] = LinkWithSeal(@, tool[d].peer)]
            /\ tool' = [tool EXCEPT ![d].pc = "write"]
            /\ report' = [report EXCEPT ![d] = "associated"]
            /\ UNCHANGED wire
       ELSE /\ Ended(d)
            /\ UNCHANGED <<store, report>>

\* The peer's key is written to the file.
Write(d) ==
    /\ tool[d].pc = "write"
    /\ store' = [store EXCEPT ![d].file = tool[d].peer]
    /\ Ended(d)
    /\ report' = [report EXCEPT ![d] = "complete"]

----------------------------------------------------------------------------
(* auth_delete_keys: three deletions, none of which stops at an error.     *)

StartDelete(d) ==
    /\ tool[d].pc = "off"
    /\ tool' = [tool EXCEPT ![d] = ToolAt("delSign")]
    /\ report' = [g \in Gateway |-> "none"]
    /\ UNCHANGED <<store, wire>>

\* An exception of delete_obj is swallowed by a bare except and reported, as that of
\* get_obj_tpm_path for what is not there is, which needs no record.
Left(d, name, s) == tool[d].left \cup (IF name # "file" /\ s[name] # None THEN {name} ELSE {})

\* Faulty auth_delete_keys: it ends at the first object that is not deleted.
DeleteOrStop(d, at, name, next) ==
    /\ tool[d].pc = at
    /\ \E s \in DeleteOutcomes(store[d], name) :
          LET end == IF s = store[d] THEN "off" ELSE next
          IN  /\ store' = [store EXCEPT ![d] = s]
              /\ tool' = [tool EXCEPT ![d] = [ToolAt(end) EXCEPT !.left = Left(d, name, s)]]
              /\ report' = [report EXCEPT ![d] = IF end = "off" THEN "deleted" ELSE @]
    /\ UNCHANGED wire

Delete(d, at, name, next) ==
    /\ tool[d].pc = at
    /\ \E s \in DeleteOutcomes(store[d], name) :
          /\ store' = [store EXCEPT ![d] = s]
          /\ tool' = [tool EXCEPT ![d] = [ToolAt(next) EXCEPT !.left = Left(d, name, s)]]
    /\ report' = [report EXCEPT ![d] = IF next = "off" THEN "deleted" ELSE @]
    /\ UNCHANGED wire

DeleteKeys(d) ==
    \/ Delete(d, "delSign", "sign", "delSeal")
    \/ Delete(d, "delSeal", "seal", "delFile")
    \/ Delete(d, "delFile", "file", "off")

\* A crash while the file is open for writing may leave it empty.
CrashTool(d) ==
    /\ tool[d].pc # "off"
    /\ Ended(d)
    /\ store' \in {store, [store EXCEPT ![d].file = IF tool[d].pc = "write" THEN Empty ELSE @]}
    /\ UNCHANGED report

\* Every key that anything still refers to; fapi.create_key makes another.
LiveKeys ==
    UNION {{store[d].sign, store[d].seal, store[d].file, tool[d].own, tool[d].peer}
             \cup {wire[d][i].pub : i \in DOMAIN wire[d]} : d \in Gateway}

FreshKeys(d) ==
    IF KeysOf[d] \subseteq LiveKeys THEN {} ELSE {CHOOSE k \in KeysOf[d] : k \notin LiveKeys}

\* One step of the program that runs on d.
Step(d) ==
    \/ tool[d].pc = "create" /\ \E fresh \in FreshKeys(d) : Create(d, fresh)
    \/ ReceiveKey(d) \/ ReceiveProof(d) \/ BreakOff(d) \/ Seal(d) \/ Write(d) \/ DeleteKeys(d)

Next ==
    \/ Listen \/ Connect
    \/ \E d \in Gateway : Step(d) \/ StartDelete(d) \/ CrashTool(d)

Spec == Init /\ [][Next]_vars

\* A program that runs goes on; nobody has to start one.
FairSpec == Spec /\ \A d \in Gateway : WF_vars(Step(d))

----------------------------------------------------------------------------
(* Properties                                                              *)

\* The type invariant.  From the first message on, a handshake has a key of its
\* peer to check with and to seal: peer_public_key is never empty.
TypeOK ==
    /\ store \in [Gateway -> Store]
    /\ tool \in [Gateway -> Tool]
    /\ wire \in [Gateway -> Seq(Signed)]
    /\ report \in [Gateway -> Reports]
    /\ \A d \in Gateway : tool[d].pc \in {"proof", "seal", "write"} => tool[d].peer \in KeysOf[Peer(d)]

\* d would accept its peer in DH_key_exchange: the file is what was sealed.
Trusts(d) == store[d].seal # None /\ store[d].file = store[d].seal

\* When auth_key_exchange has reported success on both devices, what each has
\* sealed is the key that the other signs with, however many handshakes were
\* refused or broke off before and whatever an earlier association left.  It trusts
\* its peer once its program has come to its end as well: the report comes before
\* the file is written, and a crash between them leaves success without trust.
BothAssociated ==
    (\A d \in Gateway : report[d] \in Success) =>
        \A d \in Gateway : /\ store[d].seal # None /\ store[d].seal = store[Peer(d)].sign
                           /\ report[d] = "complete" => Trusts(d)

\* A device's trust in its peer is never lost to a handshake that is refused,
\* breaks off or is interrupted: auth_key_exchange does not touch the file before
\* link_with_seal has succeeded.  It is lost only to auth_delete_keys, and to a
\* crash while the file is written that goes with a new seal.
TrustKept ==
    [][\A d \in Gateway : Trusts(d) /\ ~Trusts(d)' =>
         tool[d].pc \in {"delSeal", "delFile", "write"}]_vars

\* auth_delete_keys that came to its end leaves nothing but what it has said could
\* not be deleted, whatever handshakes and deletions crashed or failed before it:
\* no step of it depends on the one before.
DeletedIsClean ==
    \A d \in Gateway : report[d] = "deleted" =>
        \A name \in {"sign", "seal", "file"} : store[d][name] = None \/ name \in tool[d].left

\* Nobody waits for ever in a receive of auth_key_exchange, which has no timeout,
\* for a peer that has given up or waits as well.
HandshakeEnds == \A d \in Gateway : []<>(tool[d].pc \notin {"key", "proof"})

T == INSTANCE Trust

\* What the programs of both devices and their crashes do to the keys, seals and
\* files is what Trust allows: a key or a seal is never replaced, and the file is
\* written only with what is sealed.  The gateways are checked over Trust.
TrustImplemented == T!TrustSpec
=============================================================================
