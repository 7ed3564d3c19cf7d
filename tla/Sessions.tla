------------------------------ MODULE Sessions ------------------------------
(***************************************************************************)
(* The main loops of the two gateways: accept or connect, the signed key   *)
(* exchange of key_exchange.py, the connection to the plain side, and a    *)
(* session of forwarding, which is one state here and taken apart in       *)
(* SecureLink.  With --measure-perf the exchange is repeated.              *)
(*                                                                         *)
(* The ephemeral pair of a gateway is told by the run of the exchange that *)
(* made it; an agreed key is the two runs it comes from, so that both      *)
(* sides compute the same key from the same two pairs and only then.       *)
(***************************************************************************)
EXTENDS TpmStore, Naturals, Sequences

CONSTANTS
    Conn,       \* bound: connections between the gateways at a time
    MaxRuns,    \* bound: runs of the key exchange on one connection
    Addresses,  \* what the gateways may see: sets of [Gateway -> [source, dest]]
    Measures    \* the sets of gateways that may be started with --measure-perf

VARIABLES
    gw,         \* [Gateway -> Program]
    pipe,       \* [Conn -> [Gateway -> Seq(Message)]]: under way to each gateway
    closed,     \* [Conn -> SUBSET Gateway]: the ends that are closed
    backlog,    \* connections the server gateway has not accepted yet
    address,    \* [Gateway -> [source, dest]]: the addresses each gateway sees
    measure     \* the gateways started with --measure-perf

loopVars == <<gw, pipe, closed, backlog, address, measure>>

Runs == 1 .. MaxRuns

SessionKey == [Gateway -> Runs]

ASSUME SessionsAssumption ==
    MaxRuns \in Nat /\ MaxRuns > 0 /\ None \notin Conn /\ None \notin SessionKey

\* A signed ephemeral key, or Modbus traffic (of a session).
Message == [run : Runs, signer : SignKey] \cup {[run |-> 0, signer |-> None]}

IsTraffic(m) == m.run = 0

Program ==
    [pc     : {"off", "loop", "check", "sign", "receive", "plain", "transfer"},
     conn   : Conn \cup {None},
     run    : Runs,
     pub    : SignKey \cup {None, Empty},   \* file_peer_auth_pub_key
     signer : SignKey \cup {None},          \* who signed the own ephemeral key
     key    : SessionKey \cup {None}]       \* sym_key

AtLoop == [pc |-> "loop", conn |-> None, run |-> 1, pub |-> None, signer |-> None, key |-> None]

Off == [AtLoop EXCEPT !.pc = "off"]

LoopInit(program) ==
    /\ gw = [g \in Gateway |-> program]
    /\ pipe = [c \in Conn |-> [g \in Gateway |-> <<>>]]
    /\ closed = [c \in Conn |-> Gateway]
    /\ backlog = <<>>
    /\ address \in Addresses

----------------------------------------------------------------------------

\* The connections g is party to: for the server those in the backlog too.
Held(g) ==
    {gw[g].conn} \cup IF g = "server" THEN {backlog[i] : i \in DOMAIN backlog} ELSE {}

FreeConns == Conn \ UNION {Held(g) : g \in Gateway}

Inbox(g) == pipe[gw[g].conn][g]

PeerClosed(g) == Peer(g) \in closed[gw[g].conn]

\* The program of g ends: an exception in main, Ctrl+C, a crash.  The operating
\* system closes its connections and the listening socket.
EndProgram(g) ==
    /\ gw' = [gw EXCEPT ![g] = Off]
    /\ closed' = [c \in Conn |-> IF c \in Held(g) THEN closed[c] \cup {g} ELSE closed[c]]
    /\ pipe' = [c \in Conn |-> IF c \in Held(g) THEN [pipe[c] EXCEPT ![g] = <<>>] ELSE pipe[c]]
    /\ backlog' = IF g = "server" THEN <<>> ELSE backlog

\* Faulty end: the connection stays open and its end is not seen by the peer.
LeaveOpen(g) ==
    /\ gw' = [gw EXCEPT ![g] = AtLoop]
    /\ UNCHANGED <<pipe, closed, backlog>>

\* Shut the sockets down, close them, and come round.
Leave(g) ==
    /\ gw' = [gw EXCEPT ![g] = AtLoop]
    /\ closed' = [closed EXCEPT ![gw[g].conn] = @ \cup {g}]
    /\ pipe' = [pipe EXCEPT ![gw[g].conn][g] = <<>>]
    /\ UNCHANGED backlog

\* connect: the server gateway need not be ready to accept, only to listen.
Dial ==
    /\ gw["client"].pc = "loop"
    /\ IF gw["server"].pc = "off"
       THEN EndProgram("client")
       ELSE \E c \in IF FreeConns = {} THEN {} ELSE {CHOOSE c \in FreeConns : TRUE} :
              /\ gw' = [gw EXCEPT !["client"] = [AtLoop EXCEPT !.pc = "check", !.conn = c]]
              /\ pipe' = [pipe EXCEPT ![c] = [g \in Gateway |-> <<>>]]
              /\ closed' = [closed EXCEPT ![c] = {}]
              /\ backlog' = Append(backlog, c)

Accept ==
    /\ gw["server"].pc = "loop" /\ backlog # <<>>
    /\ gw' = [gw EXCEPT !["server"] = [AtLoop EXCEPT !.pc = "check", !.conn = Head(backlog)]]
    /\ backlog' = Tail(backlog)
    /\ UNCHANGED <<pipe, closed>>

----------------------------------------------------------------------------
(* DH_key_exchange                                                         *)

\* Faulty order: on one host both have the same address, and both wait.
SendsFirstStrictly(g) == address[g].source < address[g].dest

\* source_address <= dest_address, as g sees them.
SendsFirst(g) == address[g].source <= address[g].dest

\* Faulty measure_latency: it returns what the last run returned.
FinishedLast(g, p, key) ==
    {[p EXCEPT !.pc = "plain", !.key = key]}
      \cup IF g \in measure /\ p.run < MaxRuns
           THEN {[p EXCEPT !.pc = "check", !.run = @ + 1, !.key = key]} ELSE {}

\* A run returns key or None.  measure_latency returns what the first one
\* returned and decides by the clock whether there is another.
Finished(g, p, key) ==
    LET q == IF p.run = 1 THEN [p EXCEPT !.key = key] ELSE p
    IN  {[q EXCEPT !.pc = "plain"]}
          \cup IF g \in measure /\ p.run < MaxRuns
               THEN {[q EXCEPT !.pc = "check", !.run = @ + 1]} ELSE {}

Finish(g, p, key) ==
    \E q \in Finished(g, p, key) : gw' = [gw EXCEPT ![g] = q]

\* The file against the seal.  Without a file or a seal it raises.
Check(g, s) ==
    LET p == [gw[g] EXCEPT !.pub = s.file]
    IN  /\ gw[g].pc = "check"
        /\ IF s.file = None \/ ~CanUnseal(s) THEN EndProgram(g)
           ELSE /\ IF VerifyWithSeal(s, s.file)
                   THEN gw' = [gw EXCEPT ![g] = [p EXCEPT !.pc = "sign"]]
                   ELSE Finish(g, p, None)
                /\ UNCHANGED <<pipe, closed, backlog>>

\* What is under way to the peer of g once g has sent its key.
WithKey(g, signer) ==
    IF PeerClosed(g) THEN pipe[gw[g].conn][Peer(g)]
    ELSE Append(pipe[gw[g].conn][Peer(g)], [run |-> gw[g].run, signer |-> signer])

\* The own ephemeral key is signed; who comes first sends it at once.
Sign(g, s) ==
    /\ gw[g].pc = "sign"
    /\ IF ~CanSign(s) THEN EndProgram(g)
       ELSE /\ gw' = [gw EXCEPT ![g] = [@ EXCEPT !.pc = "receive", !.signer = s.sign]]
            /\ pipe' = IF SendsFirst(g)
                       THEN [pipe EXCEPT ![gw[g].conn][Peer(g)] = WithKey(g, s.sign)]
                       ELSE pipe
            /\ UNCHANGED <<closed, backlog>>

\* Faulty exchange: the signature of the peer's key is not looked at.
AgreedUnchecked(g, m) == [h \in Gateway |-> IF h = g THEN gw[g].run ELSE m.run]

\* The key agreed with the peer's message, None if its signature is not valid.
Agreed(g, m) ==
    IF VerifyRsaSignature(gw[g].pub, m.signer)
    THEN [h \in Gateway |-> IF h = g THEN gw[g].run ELSE m.run] ELSE None

\* The peer's ephemeral key; who comes second answers before verifying.
Receive(g) ==
    /\ gw[g].pc = "receive" /\ Inbox(g) # <<>> /\ ~IsTraffic(Head(Inbox(g)))
    /\ pipe' = [pipe EXCEPT ![gw[g].conn][g] = Tail(@),
                            ![gw[g].conn][Peer(g)] = IF SendsFirst(g) THEN @ ELSE WithKey(g, gw[g].signer)]
    /\ Finish(g, gw[g], Agreed(g, Head(Inbox(g))))
    /\ UNCHANGED <<closed, backlog>>

\* Traffic where a repeated exchange expects a key: unpack raises, or what it
\* makes of it does not verify.
ReceiveTraffic(g) ==
    /\ gw[g].pc = "receive" /\ Inbox(g) # <<>> /\ IsTraffic(Head(Inbox(g)))
    /\ \/ EndProgram(g)
       \/ /\ Finish(g, gw[g], None)
          /\ pipe' = [pipe EXCEPT ![gw[g].conn][g] = Tail(@)]
          /\ UNCHANGED <<closed, backlog>>

\* receive raises ConnectionError, which nothing catches.
LosePeer(g) ==
    /\ gw[g].pc = "receive" /\ Inbox(g) = <<>> /\ PeerClosed(g)
    /\ EndProgram(g)

----------------------------------------------------------------------------
(* The plain side and the session                                          *)

\* Faulty main: the key is not looked at.
PlainUnasked(g) ==
    /\ gw[g].pc = "plain"
    /\ gw' = [gw EXCEPT ![g].pc = "transfer"]
    /\ UNCHANGED <<pipe, closed, backlog>>

\* The client gateway accepts the Modbus client, the server gateway connects to
\* the PLC; then a session, or "Key exchange error".
Plain(g) ==
    /\ gw[g].pc = "plain"
    /\ IF gw[g].key = None THEN Leave(g)
       ELSE /\ gw' = [gw EXCEPT ![g].pc = "transfer"]
            /\ UNCHANGED <<pipe, closed, backlog>>

\* The PLC refuses the connection, which nothing catches.
PlcRefuses ==
    /\ gw["server"].pc = "plain"
    /\ EndProgram("server")

\* A session sends (where it matters: while the peer still exchanges keys) and
\* reads whatever arrives.
Traffic(g) ==
    /\ gw[g].pc = "transfer" /\ ~PeerClosed(g)
    /\ measure # {} /\ pipe[gw[g].conn][Peer(g)] = <<>>
    /\ pipe' = [pipe EXCEPT ![gw[g].conn][Peer(g)] = <<[run |-> 0, signer |-> None]>>]
    /\ UNCHANGED <<gw, closed, backlog>>

Consume(g) ==
    /\ gw[g].pc = "transfer" /\ Inbox(g) # <<>>
    /\ pipe' = [pipe EXCEPT ![gw[g].conn][g] = Tail(@)]
    /\ UNCHANGED <<gw, closed, backlog>>

\* The peer has closed, or the plain side goes away.
SessionEnds(g) ==
    /\ gw[g].pc = "transfer" /\ Inbox(g) = <<>> /\ PeerClosed(g)
    /\ Leave(g)

Disconnect(g) == gw[g].pc = "transfer" /\ Leave(g)

\* Ctrl+C in a session, or anything that kills the program.
Stop(g) == gw[g].pc # "off" /\ EndProgram(g)

\* An operator starts the program.
Start(g) ==
    /\ gw[g].pc = "off"
    /\ gw' = [gw EXCEPT ![g] = AtLoop]
    /\ UNCHANGED <<pipe, closed, backlog>>

\* One step of the program of g.
GatewayStep(g, s) ==
    \/ g = "client" /\ Dial
    \/ g = "server" /\ Accept
    \/ Check(g, s) \/ Sign(g, s) \/ Receive(g) \/ ReceiveTraffic(g) \/ LosePeer(g)
    \/ Plain(g) \/ Consume(g) \/ SessionEnds(g)
=============================================================================
