--------------------------- MODULE SequenceNumbers ---------------------------
(***************************************************************************)
(* SequenceNumbersReplayProcessor of sym_cipher.py at the two gateways,    *)
(* for the life of one session: the counters that number the packets, the  *)
(* nonces made from them and the check of what arrives.  A nonce is the    *)
(* session salt followed by the number; both ends have the same salt, and  *)
(* rekeying changes neither salt nor counters, so here a nonce is the      *)
(* number and must not be used twice in the session.  The check is on      *)
(* (--disable-replay-resistance lets every number pass).                   *)
(*                                                                         *)
(* Numbering a packet (get_replay_resistance_data) and making its nonce    *)
(* (get_cipher) are two calls of __encrypt_and_digest, each of which reads *)
(* the shared counter; a thread may run between them.                      *)
(***************************************************************************)
EXTENDS Integers, Sequences, Functions

CONSTANTS
    ClientMask,     \* 2^63: the first bit of an 8 byte number
    Sealers,        \* [Gateway -> SUBSET Thread]: threads that encrypt
    MaxPackets,     \* bound: packets numbered by one gateway in one session
    None

Gateway == {"client", "server"}

Thread == {"enc", "dec"}

\* A server that numbers ClientMask packets enters the numbers of the client.
ASSUME NumbersAssumption ==
    /\ ClientMask \in Nat /\ MaxPackets \in Nat /\ MaxPackets < ClientMask
    /\ Sealers \in [Gateway -> SUBSET Thread]
    /\ None \notin Nat

VARIABLES
    send_seq_num,       \* [Gateway -> Nat]
    expected_seq_num,   \* [Gateway -> Nat]
    drawn,              \* [Gateway -> [Thread -> number drawn, nonce not yet made]]
    wire,               \* [Gateway -> Seq(Packet)]: packets under way to each gateway
    past,               \* [Gateway -> SUBSET Packet]: packets it has been given before
    sealed,             \* the nonces used, in the order of their use
    accepted            \* [Gateway -> Seq(Nat)]: the numbers that passed the check

vars == <<send_seq_num, expected_seq_num, drawn, wire, past, sealed, accepted>>

Packet == [number : Nat, nonce : Nat]

Peer(g) == IF g = "client" THEN "server" ELSE "client"

\* Faulty client_mask: both gateways number from the start of the range.
FirstWithoutMask(g) == 0

\* The number a gateway starts from; its first bit tells the gateways apart.
First(g) == IF g = "client" THEN ClientMask ELSE 0

TypeOK ==
    /\ send_seq_num \in [Gateway -> Nat]
    /\ expected_seq_num \in [Gateway -> Nat]
    /\ drawn \in [Gateway -> [Thread -> Nat \cup {None}]]
    /\ wire \in [Gateway -> Seq(Packet)]
    /\ past \in [Gateway -> SUBSET Packet]
    /\ sealed \in Seq(Nat)
    /\ accepted \in [Gateway -> Seq(Nat)]

Init ==
    /\ send_seq_num = [g \in Gateway |-> First(g)]
    /\ expected_seq_num = [g \in Gateway |-> First(Peer(g))]
    /\ drawn = [g \in Gateway |-> [t \in Thread |-> None]]
    /\ wire = [g \in Gateway |-> <<>>]
    /\ past = [g \in Gateway |-> {}]
    /\ sealed = <<>>
    /\ accepted = [g \in Gateway |-> <<>>]

\* get_replay_resistance_data: the counter moves on and its value is sent.
Number(g, t) ==
    /\ t \in Sealers[g] /\ drawn[g][t] = None
    /\ send_seq_num[g] < First(g) + MaxPackets
    /\ send_seq_num' = [send_seq_num EXCEPT ![g] = @ + 1]
    /\ drawn' = [drawn EXCEPT ![g][t] = send_seq_num[g] + 1]
    /\ UNCHANGED <<expected_seq_num, wire, past, sealed, accepted>>

\* Faulty get_cipher: the nonce is made before the counter has moved on.
SealWithPrevious(g, t) ==
    /\ drawn[g][t] # None
    /\ sealed' = Append(sealed, send_seq_num[g] - 1)
    /\ wire' = [wire EXCEPT ![Peer(g)] =
                   Append(@, [number |-> drawn[g][t], nonce |-> send_seq_num[g] - 1])]
    /\ drawn' = [drawn EXCEPT ![g][t] = None]
    /\ UNCHANGED <<send_seq_num, expected_seq_num, past, accepted>>

\* get_cipher, on the counter's value by then, and the packet goes out.
Seal(g, t) ==
    /\ drawn[g][t] # None
    /\ sealed' = Append(sealed, send_seq_num[g])
    /\ wire' = [wire EXCEPT ![Peer(g)] =
                   Append(@, [number |-> drawn[g][t], nonce |-> send_seq_num[g]])]
    /\ drawn' = [drawn EXCEPT ![g][t] = None]
    /\ UNCHANGED <<send_seq_num, expected_seq_num, past, accepted>>

\* Faulty verify_replay_data: the number expected again is let through.
PassesAgain(g, m) == m.nonce = m.number /\ m.number >= expected_seq_num[g]

\* The packet opens under the nonce rebuilt from its number, and
\* verify_replay_data finds that number above the last.
Passes(g, m) == m.nonce = m.number /\ m.number > expected_seq_num[g]

Verify(g, m) ==
    IF Passes(g, m)
    THEN /\ accepted' = [accepted EXCEPT ![g] = Append(@, m.number)]
         /\ expected_seq_num' = [expected_seq_num EXCEPT ![g] = m.number]
    ELSE UNCHANGED <<accepted, expected_seq_num>>

\* decrypt_and_verify on the next packet from the peer.
Receive(g) ==
    /\ wire[g] # <<>>
    /\ Verify(g, Head(wire[g]))
    /\ wire' = [wire EXCEPT ![g] = Tail(@)]
    /\ past' = [past EXCEPT ![g] = @ \cup {Head(wire[g])}]
    /\ UNCHANGED <<send_seq_num, drawn, sealed>>

\* decrypt_and_verify on a packet that has been there before.
ReceiveAgain(g) ==
    /\ \E m \in past[g] : Verify(g, m)
    /\ UNCHANGED <<send_seq_num, drawn, wire, past, sealed>>

Next ==
    \E g \in Gateway :
        \/ \E t \in Thread : Number(g, t) \/ Seal(g, t)
        \/ Receive(g) \/ ReceiveAgain(g)

Spec == Init /\ [][Next]_vars

----------------------------------------------------------------------------

\* No nonce is used twice in a session, by one gateway or by both: their
\* numbers differ in the first bit ("sent nonces will start with ...").
NoncesUnique == IsInjective(sealed)

\* "Reconstruct the nonce from the salt and sequence number": the number that
\* travels is the one that the nonce was made from.
NonceRebuilt ==
    \A g \in Gateway : \A i \in DOMAIN wire[g] : wire[g][i].nonce = wire[g][i].number

\* No packet is accepted twice, nor after a later one.
AcceptedOnce ==
    \A g \in Gateway : \A i, j \in DOMAIN accepted[g] :
        i < j => accepted[g][i] < accepted[g][j]

\* What arrives in order and for the first time is never refused.
NothingRefused ==
    [][\A g \in Gateway :
         wire[g] # <<>> /\ wire'[g] = Tail(wire[g]) =>
             accepted'[g] = Append(accepted[g], Head(wire[g]).number)]_vars

----------------------------------------------------------------------------
(* The inductive invariant, with one sealing thread in each gateway.       *)

OneSealerEach == \A g \in Gateway : \A t, u \in Sealers[g] : t = u

Mine(g, n) == First(g) < n /\ n <= First(g) + MaxPackets

\* What g has sealed with is behind its counter, and strictly behind it while
\* a number is drawn that no nonce was made from yet.
BehindCounter(g) ==
    \A i \in DOMAIN sealed : Mine(g, sealed[i]) =>
        /\ sealed[i] <= send_seq_num[g]
        /\ (\E t \in Thread : drawn[g][t] # None) => sealed[i] < send_seq_num[g]

NumbersInv ==
    /\ TypeOK
    /\ NoncesUnique /\ AcceptedOnce
    /\ \A i \in DOMAIN sealed : \E g \in Gateway : Mine(g, sealed[i])
    /\ \A g \in Gateway :
          /\ First(g) <= send_seq_num[g] /\ send_seq_num[g] <= First(g) + MaxPackets
          /\ \A t \in Thread : drawn[g][t] # None =>
                t \in Sealers[g] /\ drawn[g][t] = send_seq_num[g] /\ First(g) < send_seq_num[g]
          /\ BehindCounter(g)
          /\ \A i \in DOMAIN wire[g] : wire[g][i].nonce = wire[g][i].number
          /\ \A i \in DOMAIN accepted[g] : accepted[g][i] <= expected_seq_num[g]
==============================================================================
