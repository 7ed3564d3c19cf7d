----------------------------- MODULE Deployment -----------------------------
(***************************************************************************)
(* The two gateways in operation, over the TPMs and key files of their     *)
(* devices.  Either these were associated once and everything is left      *)
(* alone (calm), or the devices are new, their keys are made, sealed and   *)
(* deleted at any time, also under a gateway that is in use (Trust), the   *)
(* gateway programs are started and stopped or crash at any step, and the  *)
(* PLC may refuse a connection.                                            *)
(*                                                                         *)
(* A host that vanishes without closing its connections is not covered:    *)
(* the key exchange has no timeout, and the peer would wait for ever.      *)
(***************************************************************************)
EXTENDS Sessions, Trust

VARIABLE calm

vars == <<store, gw, pipe, closed, backlog, address, measure, calm>>

\* What a completed association leaves.
Pairing ==
    [g \in Gateway |-> LET own(d) == CHOOSE k \in KeysOf[d] : TRUE
                       IN  [sign |-> own(g), seal |-> own(Peer(g)), file |-> own(Peer(g))]]

\* Bound: where anything may happen, a network is considered that puts the client
\* first; the others are considered where it is calm.
InOrder ==
    {a \in Addresses : a["client"].source < a["client"].dest /\ a["server"].source > a["server"].dest}

ASSUME DeploymentAssumption ==
    /\ \A g \in Gateway : KeysOf[g] # {}
    /\ Measures \subseteq SUBSET Gateway
    /\ InOrder # {}

Init ==
    \/ calm = TRUE /\ store = Pairing /\ LoopInit(AtLoop) /\ measure \in Measures
    \/ /\ calm = FALSE /\ store = [d \in Gateway |-> NoStore] /\ LoopInit(Off) /\ measure = {}
       /\ address = CHOOSE a \in InOrder : TRUE

\* The program of g takes a step.
Gateways(g) ==
    /\ GatewayStep(g, store[g])
    /\ UNCHANGED <<store, address, measure, calm>>

\* What nobody has to do: the plain sides and, unless it is calm, the operators.
Environment(g) ==
    /\ \/ Traffic(g) \/ Disconnect(g)
       \/ ~calm /\ (Start(g) \/ Stop(g) \/ (g = "server" /\ PlcRefuses))
    /\ UNCHANGED <<store, address, measure, calm>>

KeysChange ==
    /\ ~calm /\ TrustNext
    /\ UNCHANGED <<loopVars, calm>>

Next == KeysChange \/ \E g \in Gateway : Gateways(g) \/ Environment(g)

Spec == Init /\ [][Next]_vars

\* Programs that run go on, the Modbus client connects and the PLC accepts.
FairSpec == Spec /\ \A g \in Gateway : WF_vars(Gateways(g))

----------------------------------------------------------------------------
(* Properties                                                              *)

\* The type invariant.  A gateway has a connection except between two of them,
\* waits for its peer's key only once it has signed its own, and forwards only
\* with a key.
TypeOK ==
    /\ store \in [Gateway -> Store]
    /\ gw \in [Gateway -> Program]
    /\ pipe \in [Conn -> [Gateway -> Seq(Message)]]
    /\ closed \in [Conn -> SUBSET Gateway]
    /\ backlog \in Seq(Conn)
    /\ address \in Addresses /\ measure \in SUBSET Gateway
    /\ \A g \in Gateway : /\ gw[g].conn = None <=> gw[g].pc \in {"off", "loop"}
                          /\ gw[g].pc = "receive" => gw[g].signer # None
                          /\ gw[g].pc = "transfer" => gw[g].key # None

\* A session has two ends that agree: gateways that both forward do so over the
\* same connection and with the same key, and each has checked the other's
\* exchange with the key that the other signed it with, whatever was deleted,
\* associated anew, stopped or broken off meanwhile.
OneSession ==
    (\A g \in Gateway : gw[g].pc = "transfer") =>
        /\ gw["client"].conn = gw["server"].conn
        /\ gw["client"].key = gw["server"].key
        /\ \A g \in Gateway : gw[g].pub = gw[Peer(g)].signer

\* Between associated gateways that are left alone DH_key_exchange always returns
\* a key: the runs that measure_latency adds, which may meet a peer that has begun
\* its session, cost nobody the key of the first run.
MeasuringHarmless ==
    calm => \A g \in Gateway : gw[g].pc = "plain" => gw[g].key # None

\* Address translation shows each gateway a lower address than its own.  Both come
\* second then, and wait in receive, without a timeout, for the other to begin.
NobodyFirst == \A g \in Gateway : address[g].source > address[g].dest

\* Nobody waits for ever in DH_key_exchange (run once), which has no timeout, for
\* a peer that has given up, or that waits as well since it also thinks that it
\* comes second.  NobodyFirst is the one network where both do.
NobodyWaitsForever ==
    \A g \in Gateway : []<>(gw[g].pc # "receive" \/ measure # {} \/ NobodyFirst)

\* Associated gateways that are left alone have one session after another: the
\* end of a session in one main loop ends it in the other, and the connection
\* that waits in the backlog meanwhile is served.  With NobodyFirst there is none.
SessionsResume ==
    \A g \in Gateway : []<>(gw[g].pc = "transfer" \/ ~calm \/ measure # {} \/ NobodyFirst)
=============================================================================
