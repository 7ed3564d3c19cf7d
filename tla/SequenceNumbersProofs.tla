------------------------ MODULE SequenceNumbersProofs ------------------------
(***************************************************************************)
(* Sequence numbers for any number width and any number of packets that    *)
(* does not use up half the range: nonces are unique, packets pass once,   *)
(* and none is refused that arrives in order.                              *)
(***************************************************************************)
EXTENDS SequenceNumbers, SequenceTheorems, TLAPS

LEMMA Peers ==
    ASSUME NEW g \in Gateway
    PROVE  Peer(g) \in Gateway /\ Peer(g) # g /\ \A h \in Gateway : h = g \/ h = Peer(g)
BY DEF Peer, Gateway

\* The two gateways number from disjoint ranges.
LEMMA Halves ==
    ASSUME NEW g \in Gateway, NEW h \in Gateway, NEW n \in Nat, Mine(g, n), Mine(h, n)
    PROVE  g = h
<1>1. ClientMask \in Nat /\ MaxPackets \in Nat /\ MaxPackets < ClientMask
  BY NumbersAssumption DEF NumbersAssumption
<1>2. First("client") = ClientMask /\ First("server") = 0
  BY DEF First
<1>3. ~(Mine("client", n) /\ Mine("server", n))
  BY <1>1, <1>2 DEF Mine
<1> QED
  BY <1>3 DEF Gateway

LEMMA FirstType == \A g \in Gateway : First(g) \in Nat
BY NumbersAssumption DEF NumbersAssumption, First

\* A sequence that grows by one element.
LEMMA AppendFacts ==
    ASSUME NEW S, NEW q \in Seq(S), NEW x \in S
    PROVE  /\ Append(q, x) \in Seq(S)
           /\ DOMAIN Append(q, x) = 1 .. Len(q) + 1 /\ DOMAIN q = 1 .. Len(q) /\ Len(q) \in Nat
           /\ Append(q, x)[Len(q) + 1] = x
           /\ \A i \in DOMAIN q : Append(q, x)[i] = q[i]
BY AppendProperties, LenProperties

\* verify_replay_data lets a number through only above all the others.
LEMMA VerifyStep ==
    ASSUME NumbersInv, NEW g \in Gateway, NEW m \in Packet, Verify(g, m)
    PROVE  /\ expected_seq_num' \in [Gateway -> Nat]
           /\ accepted' \in [Gateway -> Seq(Nat)]
           /\ AcceptedOnce'
           /\ \A h \in Gateway : \A i \in DOMAIN accepted'[h] :
                 accepted'[h][i] <= expected_seq_num'[h]
<1>1. /\ accepted \in [Gateway -> Seq(Nat)] /\ expected_seq_num \in [Gateway -> Nat]
      /\ m.number \in Nat /\ AcceptedOnce
      /\ \A h \in Gateway : \A i \in DOMAIN accepted[h] : accepted[h][i] <= expected_seq_num[h]
  BY DEF NumbersInv, TypeOK, Packet
<1>2. CASE ~Passes(g, m)
  BY <1>1, <1>2 DEF Verify, AcceptedOnce
<1>3. CASE Passes(g, m)
  <2> DEFINE q == accepted[g]
             r == Append(q, m.number)
             e == expected_seq_num[g]
  <2>1. /\ accepted' = [accepted EXCEPT ![g] = r]
        /\ expected_seq_num' = [expected_seq_num EXCEPT ![g] = m.number]
        /\ m.number > e
    BY <1>3 DEF Verify, Passes
  <2>2. /\ q \in Seq(Nat) /\ e \in Nat
        /\ \A i \in DOMAIN q : q[i] <= e
        /\ \A i, j \in DOMAIN q : i < j => q[i] < q[j]
    BY <1>1 DEF AcceptedOnce
  <2>3. /\ accepted'[g] = r /\ expected_seq_num'[g] = m.number
        /\ \A h \in Gateway : h # g =>
              accepted'[h] = accepted[h] /\ expected_seq_num'[h] = expected_seq_num[h]
        /\ accepted' \in [Gateway -> Seq(Nat)] /\ expected_seq_num' \in [Gateway -> Nat]
    BY <1>1, <2>1, <2>2, AppendFacts
  <2>4. /\ DOMAIN r = 1 .. Len(q) + 1 /\ DOMAIN q = 1 .. Len(q) /\ Len(q) \in Nat
        /\ r[Len(q) + 1] = m.number
        /\ \A i \in DOMAIN q : r[i] = q[i] /\ q[i] \in Nat
    BY <1>1, <2>2, AppendFacts, ElementOfSeq
  <2> HIDE DEF q, r, e
  <2>5. \A i \in DOMAIN r : r[i] <= m.number /\ (i \in DOMAIN q => r[i] < m.number)
    BY <1>1, <2>1, <2>2, <2>4
  <2>6. \A i, j \in DOMAIN r : i < j => r[i] < r[j]
    BY <2>2, <2>4, <2>5
  <2>7. AcceptedOnce'
    <3> SUFFICES ASSUME NEW h \in Gateway, NEW i \in DOMAIN accepted'[h],
                        NEW j \in DOMAIN accepted'[h], i < j
                 PROVE  accepted'[h][i] < accepted'[h][j]
      BY DEF AcceptedOnce
    <3>1. CASE h = g
      BY <2>3, <2>6, <3>1
    <3>2. CASE h # g
      BY <1>1, <2>3, <3>2 DEF AcceptedOnce
    <3> QED
      BY <3>1, <3>2
  <2>8. \A h \in Gateway : \A i \in DOMAIN accepted'[h] : accepted'[h][i] <= expected_seq_num'[h]
    <3> SUFFICES ASSUME NEW h \in Gateway, NEW i \in DOMAIN accepted'[h]
                 PROVE  accepted'[h][i] <= expected_seq_num'[h]
      OBVIOUS
    <3>1. CASE h = g
      BY <2>3, <2>5, <3>1
    <3>2. CASE h # g
      BY <1>1, <2>3, <3>2
    <3> QED
      BY <3>1, <3>2
  <2> QED
    BY <2>3, <2>7, <2>8
<1> QED
  BY <1>2, <1>3

\* get_replay_resistance_data: only the counter of the thread's gateway moves.
LEMMA NumberStep ==
    ASSUME OneSealerEach, NumbersInv, NEW g \in Gateway, NEW t \in Thread, Number(g, t)
    PROVE  NumbersInv'
<1> DEFINE n == send_seq_num[g] + 1
<1>1. /\ t \in Sealers[g] /\ drawn[g][t] = None /\ send_seq_num[g] < First(g) + MaxPackets
      /\ send_seq_num' = [send_seq_num EXCEPT ![g] = n]
      /\ drawn' = [drawn EXCEPT ![g][t] = n]
      /\ UNCHANGED <<expected_seq_num, wire, past, sealed, accepted>>
  BY DEF Number
<1>2. /\ TypeOK /\ NoncesUnique /\ AcceptedOnce
      /\ \A i \in DOMAIN sealed : \E h \in Gateway : Mine(h, sealed[i])
  BY DEF NumbersInv
<1>3. /\ send_seq_num[g] \in Nat /\ n \in Nat /\ First(g) \in Nat /\ MaxPackets \in Nat
      /\ First(g) <= send_seq_num[g]
  BY <1>2, FirstType, NumbersAssumption DEF TypeOK, NumbersInv, NumbersAssumption
<1>4. First(g) < n /\ First(g) <= n /\ n <= First(g) + MaxPackets
  BY <1>1, <1>3
<1>5. send_seq_num[g] < n
  BY <1>3
<1> HIDE DEF n
<1>6. /\ send_seq_num'[g] = n /\ drawn'[g][t] = n
      /\ \A h \in Gateway : h # g => send_seq_num'[h] = send_seq_num[h] /\ drawn'[h] = drawn[h]
      /\ \A u \in Thread : u # t => drawn'[g][u] = drawn[g][u]
  BY <1>1, <1>2 DEF TypeOK
<1>7. TypeOK'
  BY <1>1, <1>2, <1>3 DEF TypeOK
<1>8. \A u \in Thread : drawn'[g][u] # None => u = t
  <2>1. \A u \in Sealers[g] : u = t
    BY <1>1 DEF OneSealerEach
  <2> QED
    BY <1>6, <2>1 DEF NumbersInv
<1>9. BehindCounter(g)'
  <2> SUFFICES ASSUME NEW i \in DOMAIN sealed, Mine(g, sealed[i])
               PROVE  sealed[i] <= n /\ sealed[i] < n
    BY <1>1, <1>6 DEF BehindCounter
  <2>1. sealed[i] \in Nat
    BY <1>2, ElementOfSeq DEF TypeOK
  <2>2. sealed[i] <= send_seq_num[g]
    BY DEF NumbersInv, BehindCounter
  <2> QED
    BY <1>3, <1>5, <2>1, <2>2
<1>10. \A h \in Gateway :
         /\ First(h) <= send_seq_num'[h] /\ send_seq_num'[h] <= First(h) + MaxPackets
         /\ \A u \in Thread : drawn'[h][u] # None =>
               u \in Sealers[h] /\ drawn'[h][u] = send_seq_num'[h] /\ First(h) < send_seq_num'[h]
         /\ BehindCounter(h)'
  <2> SUFFICES ASSUME NEW h \in Gateway
               PROVE  /\ First(h) <= send_seq_num'[h] /\ send_seq_num'[h] <= First(h) + MaxPackets
                      /\ \A u \in Thread : drawn'[h][u] # None =>
                            /\ u \in Sealers[h] /\ drawn'[h][u] = send_seq_num'[h]
                            /\ First(h) < send_seq_num'[h]
                      /\ BehindCounter(h)'
    OBVIOUS
  <2>1. CASE h = g
    BY <1>1, <1>4, <1>6, <1>8, <1>9, <2>1
  <2>2. CASE h # g
    BY <1>1, <1>6, <2>2 DEF NumbersInv, BehindCounter
  <2> QED
    BY <2>1, <2>2
<1> QED
  BY <1>1, <1>2, <1>7, <1>10 DEF NumbersInv, NoncesUnique, AcceptedOnce

\* get_cipher: the nonce is the drawn number, ahead of all that were used.
LEMMA SealStep ==
    ASSUME OneSealerEach, NumbersInv, NEW g \in Gateway, NEW t \in Thread, Seal(g, t)
    PROVE  NumbersInv'
<1> DEFINE n == send_seq_num[g]
           h == Peer(g)
           m == [number |-> drawn[g][t], nonce |-> n]
<1>1. /\ drawn[g][t] # None
      /\ sealed' = Append(sealed, n)
      /\ wire' = [wire EXCEPT ![h] = Append(@, m)]
      /\ drawn' = [drawn EXCEPT ![g][t] = None]
      /\ UNCHANGED <<send_seq_num, expected_seq_num, past, accepted>>
  BY DEF Seal
<1>2. /\ TypeOK /\ NoncesUnique /\ AcceptedOnce
      /\ \A i \in DOMAIN sealed : \E k \in Gateway : Mine(k, sealed[i])
  BY DEF NumbersInv
<1>3. h \in Gateway /\ h # g /\ \A k \in Gateway : k = g \/ k = h
  BY Peers
<1>4. t \in Sealers[g] /\ drawn[g][t] = n /\ n \in Nat /\ Mine(g, n)
  BY <1>1, <1>2 DEF NumbersInv, TypeOK, Mine
<1>5. m \in Packet /\ m.nonce = m.number
  BY <1>4 DEF Packet
<1> HIDE DEF n, h, m
<1>6. \A i \in DOMAIN sealed : sealed[i] # n
  <2> SUFFICES ASSUME NEW i \in DOMAIN sealed, sealed[i] = n PROVE FALSE
    OBVIOUS
  <2>1. sealed[i] < send_seq_num[g]
    BY <1>1, <1>4 DEF NumbersInv, BehindCounter
  <2> QED
    BY <1>4, <2>1 DEF n
<1>7. /\ sealed' \in Seq(Nat) /\ DOMAIN sealed' = 1 .. Len(sealed) + 1
      /\ DOMAIN sealed = 1 .. Len(sealed) /\ Len(sealed) \in Nat
      /\ sealed'[Len(sealed) + 1] = n
      /\ \A i \in DOMAIN sealed : sealed'[i] = sealed[i]
  BY <1>1, <1>2, <1>4, AppendFacts DEF TypeOK
<1>8. \A i \in DOMAIN sealed' : i \in DOMAIN sealed \/ i = Len(sealed) + 1
  BY <1>7
<1>9. NoncesUnique'
  BY <1>2, <1>6, <1>7, <1>8 DEF NoncesUnique, IsInjective
<1>10. \A i \in DOMAIN sealed' : \E k \in Gateway : Mine(k, sealed'[i])
  BY <1>2, <1>4, <1>7, <1>8
<1>11. wire[h] \in Seq(Packet)
  BY <1>2, <1>3 DEF TypeOK
<1>12. /\ wire'[h] = Append(wire[h], m) /\ wire' \in [Gateway -> Seq(Packet)]
       /\ \A k \in Gateway : k # h => wire'[k] = wire[k]
  BY <1>1, <1>2, <1>3, <1>5, <1>11, AppendFacts DEF TypeOK
<1>13. \A k \in Gateway : \A i \in DOMAIN wire'[k] : wire'[k][i].nonce = wire'[k][i].number
  <2>1. /\ DOMAIN wire'[h] = 1 .. Len(wire[h]) + 1 /\ DOMAIN wire[h] = 1 .. Len(wire[h])
        /\ Len(wire[h]) \in Nat /\ wire'[h][Len(wire[h]) + 1] = m
        /\ \A i \in DOMAIN wire[h] : wire'[h][i] = wire[h][i]
    BY <1>5, <1>11, <1>12, AppendFacts
  <2>2. \A i \in DOMAIN wire'[h] : i \in DOMAIN wire[h] \/ i = Len(wire[h]) + 1
    BY <2>1
  <2>3. \A i \in DOMAIN wire'[h] : wire'[h][i].nonce = wire'[h][i].number
    BY <1>3, <1>5, <2>1, <2>2 DEF NumbersInv
  <2>4. \A k \in Gateway : k # h =>
          wire'[k] = wire[k] /\ \A i \in DOMAIN wire[k] : wire[k][i].nonce = wire[k][i].number
    BY <1>12 DEF NumbersInv
  <2> QED
    BY <2>3, <2>4
<1>14. TypeOK'
  BY <1>1, <1>2, <1>7, <1>12 DEF TypeOK
<1>15. \A k \in Gateway : \A u \in Thread :
         drawn'[k][u] # None => drawn[k][u] # None /\ drawn'[k][u] = drawn[k][u]
  BY <1>1, <1>2 DEF TypeOK
<1>16. \A u \in Thread : drawn'[g][u] = None
  <2>1. \A u \in Sealers[g] : u = t
    BY <1>4 DEF OneSealerEach
  <2>2. drawn'[g][t] = None
    BY <1>1, <1>2 DEF TypeOK
  <2> QED
    BY <1>15, <2>1, <2>2 DEF NumbersInv
<1>17. \A k \in Gateway : BehindCounter(k)'
  <2> SUFFICES ASSUME NEW k \in Gateway, NEW i \in DOMAIN sealed', Mine(k, sealed'[i])
               PROVE  /\ sealed'[i] <= send_seq_num[k]
                      /\ (\E u \in Thread : drawn'[k][u] # None) => sealed'[i] < send_seq_num[k]
    BY <1>1 DEF BehindCounter, Mine
  <2>1. CASE i \in DOMAIN sealed
    BY <1>7, <1>15, <2>1 DEF NumbersInv, BehindCounter
  <2>2. CASE i = Len(sealed) + 1
    <3>1. sealed'[i] = n /\ k = g
      BY <1>4, <1>7, <2>2, Halves
    <3> QED
      BY <1>4, <1>16, <3>1 DEF n
  <2> QED
    BY <1>8, <2>1, <2>2
<1>18. \A k \in Gateway : \A u \in Thread : drawn'[k][u] # None =>
         u \in Sealers[k] /\ drawn'[k][u] = send_seq_num'[k] /\ First(k) < send_seq_num'[k]
  BY <1>1, <1>15 DEF NumbersInv
<1> QED
  BY <1>1, <1>9, <1>10, <1>13, <1>14, <1>17, <1>18 DEF NumbersInv, AcceptedOnce

\* decrypt_and_verify: only the receiver's record of what it accepted changes.
LEMMA ReceiveStep ==
    ASSUME NumbersInv, NEW g \in Gateway, Receive(g) \/ ReceiveAgain(g)
    PROVE  NumbersInv'
<1>1. TypeOK /\ UNCHANGED <<send_seq_num, drawn, sealed>>
  BY DEF NumbersInv, Receive, ReceiveAgain
<1>2. \E m \in Packet : Verify(g, m)
  <2>1. CASE Receive(g)
    BY <1>1, <2>1, HeadTailProperties DEF Receive, TypeOK
  <2>2. CASE ReceiveAgain(g)
    BY <1>1, <2>2 DEF ReceiveAgain, TypeOK
  <2> QED
    BY <2>1, <2>2
<1>3. /\ expected_seq_num' \in [Gateway -> Nat] /\ accepted' \in [Gateway -> Seq(Nat)]
      /\ AcceptedOnce'
      /\ \A h \in Gateway : \A i \in DOMAIN accepted'[h] :
            accepted'[h][i] <= expected_seq_num'[h]
  BY <1>2, VerifyStep
<1>4. /\ wire' \in [Gateway -> Seq(Packet)] /\ past' \in [Gateway -> SUBSET Packet]
      /\ \A h \in Gateway : \A i \in DOMAIN wire'[h] : wire'[h][i].nonce = wire'[h][i].number
  <2>1. CASE Receive(g)
    <3>1. /\ wire[g] \in Seq(Packet) /\ wire[g] # <<>>
          /\ wire' = [wire EXCEPT ![g] = Tail(@)]
          /\ past' = [past EXCEPT ![g] = @ \cup {Head(wire[g])}]
      BY <1>1, <2>1 DEF Receive, TypeOK
    <3>2. /\ Head(wire[g]) \in Packet /\ Tail(wire[g]) \in Seq(Packet)
          /\ DOMAIN wire[g] = 1 .. Len(wire[g]) /\ Len(wire[g]) \in Nat
          /\ DOMAIN Tail(wire[g]) = 1 .. Len(wire[g]) - 1
          /\ \A i \in 1 .. Len(wire[g]) - 1 : Tail(wire[g])[i] = wire[g][i + 1]
      BY <3>1, HeadTailProperties, LenProperties
    <3>3. \A i \in DOMAIN Tail(wire[g]) : Tail(wire[g])[i].nonce = Tail(wire[g])[i].number
      <4> SUFFICES ASSUME NEW i \in DOMAIN Tail(wire[g])
                   PROVE  Tail(wire[g])[i].nonce = Tail(wire[g])[i].number
        OBVIOUS
      <4>1. i + 1 \in DOMAIN wire[g] /\ Tail(wire[g])[i] = wire[g][i + 1]
        BY <3>2
      <4> QED
        BY <4>1 DEF NumbersInv
    <3> QED
      BY <1>1, <3>1, <3>2, <3>3 DEF TypeOK, NumbersInv
  <2>2. CASE ReceiveAgain(g)
    BY <1>1, <2>2 DEF ReceiveAgain, NumbersInv, TypeOK
  <2> QED
    BY <2>1, <2>2
<1>5. \A h \in Gateway : BehindCounter(h)'
  BY <1>1 DEF NumbersInv, BehindCounter
<1> QED
  BY <1>1, <1>3, <1>4, <1>5 DEF NumbersInv, TypeOK, NoncesUnique

LEMMA NumbersInit ==
    ASSUME Init
    PROVE  NumbersInv
<1>1. \A g \in Gateway : First(g) \in Nat /\ First(g) <= First(g) + MaxPackets
  BY FirstType, NumbersAssumption DEF NumbersAssumption
<1>2. TypeOK
  BY <1>1, Peers, EmptySeq DEF Init, TypeOK
<1> QED
  BY <1>1, <1>2 DEF Init, NumbersInv, NoncesUnique, AcceptedOnce, IsInjective, BehindCounter

LEMMA NumbersStep ==
    ASSUME OneSealerEach, NumbersInv, [Next]_vars
    PROVE  NumbersInv'
<1>1. ASSUME NEW g \in Gateway, NEW t \in Thread, Number(g, t) PROVE NumbersInv'
  BY <1>1, NumberStep
<1>2. ASSUME NEW g \in Gateway, NEW t \in Thread, Seal(g, t) PROVE NumbersInv'
  BY <1>2, SealStep
<1>3. ASSUME NEW g \in Gateway, Receive(g) \/ ReceiveAgain(g) PROVE NumbersInv'
  BY <1>3, ReceiveStep
<1>4. CASE UNCHANGED vars
  BY <1>4 DEF vars, NumbersInv, TypeOK, NoncesUnique, AcceptedOnce, BehindCounter
<1> QED
  BY <1>1, <1>2, <1>3, <1>4 DEF Next

\* With one sealing thread in each gateway (the __send_seq_num that
\* get_replay_resistance_data draws and get_cipher reads is not touched between the
\* two) the counters stay ahead of every number in use, in its gateway's half.
THEOREM NumbersInvariant ==
    ASSUME OneSealerEach
    PROVE  Spec => []NumbersInv
<1>1. Init => NumbersInv
  BY NumbersInit
<1>2. NumbersInv /\ [Next]_vars => NumbersInv'
  BY NumbersStep
<1> QED
  BY <1>1, <1>2, PTL DEF Spec

\* Then no nonce is ever used twice, by either gateway, for any width of the
\* numbers, while neither uses up its half of them.
THEOREM NoncesStayUnique ==
    ASSUME OneSealerEach
    PROVE  Spec => []NoncesUnique
<1>1. NumbersInv => NoncesUnique
  BY DEF NumbersInv
<1> QED
  BY <1>1, NumbersInvariant, PTL

\* Then verify_replay_data accepts no packet twice, nor behind a later one.
THEOREM PacketsAcceptedOnce ==
    ASSUME OneSealerEach
    PROVE  Spec => []AcceptedOnce
<1>1. NumbersInv => AcceptedOnce
  BY DEF NumbersInv
<1> QED
  BY <1>1, NumbersInvariant, PTL

----------------------------------------------------------------------------
(* Nothing in order is refused                                             *)

\* h has numbered a packet with n, and used it up if it has drawn another since.
Behind(h, n) ==
    /\ n <= send_seq_num[h]
    /\ (\E t \in Thread : drawn[h][t] # None) => n < send_seq_num[h]

\* What travels to g has ever higher numbers, all above what g accepted last; and
\* nothing that g has been given before is above that.
InSequence(g) ==
    /\ Behind(Peer(g), expected_seq_num[g])
    /\ \A i \in DOMAIN wire[g] :
          expected_seq_num[g] < wire[g][i].number /\ Behind(Peer(g), wire[g][i].number)
    /\ \A i, j \in DOMAIN wire[g] : i < j => wire[g][i].number < wire[g][j].number
    /\ \A m \in past[g] : m.number <= expected_seq_num[g]

SequenceInv == NumbersInv /\ \A g \in Gateway : InSequence(g)

\* What g has received changes nothing for its peer.
LEMMA InSequenceKept ==
    ASSUME NEW g \in Gateway, InSequence(g),
           expected_seq_num'[g] = expected_seq_num[g], wire'[g] = wire[g], past'[g] = past[g],
           send_seq_num'[Peer(g)] = send_seq_num[Peer(g)], drawn'[Peer(g)] = drawn[Peer(g)]
    PROVE  InSequence(g)'
BY DEF InSequence, Behind

LEMMA Numbers ==
    ASSUME NumbersInv, NEW g \in Gateway
    PROVE  /\ send_seq_num[g] \in Nat /\ expected_seq_num[g] \in Nat /\ wire[g] \in Seq(Packet)
           /\ \A i \in DOMAIN wire[g] : wire[g][i] \in Packet /\ wire[g][i].number \in Nat
           /\ \A m \in past[g] : m \in Packet /\ m.number \in Nat
<1>1. send_seq_num[g] \in Nat /\ expected_seq_num[g] \in Nat /\ wire[g] \in Seq(Packet) /\ past[g] \subseteq Packet
  BY DEF NumbersInv, TypeOK
<1>2. \A m \in Packet : m.number \in Nat
  BY DEF Packet
<1> QED
  BY <1>1, <1>2, ElementOfSeq

LEMMA NumberInSequence ==
    ASSUME SequenceInv, NEW g \in Gateway, NEW t \in Thread, Number(g, t), NEW h \in Gateway
    PROVE  InSequence(h)'
<1>1. /\ send_seq_num' = [send_seq_num EXCEPT ![g] = @ + 1]
      /\ UNCHANGED <<expected_seq_num, wire, past>>
      /\ \A k \in Gateway : k # g => drawn'[k] = drawn[k]
  BY DEF Number, SequenceInv, NumbersInv, TypeOK
<1>2. InSequence(h) /\ NumbersInv /\ Peer(h) \in Gateway
  BY Peers DEF SequenceInv
<1>3. CASE Peer(h) # g
  BY <1>1, <1>2, <1>3, InSequenceKept DEF NumbersInv, TypeOK
<1>4. CASE Peer(h) = g
  <2>1. send_seq_num[g] \in Nat /\ send_seq_num'[g] = send_seq_num[g] + 1
    BY <1>1, <1>2, Numbers DEF NumbersInv, TypeOK
  <2>2. \A n \in Nat : Behind(g, n) => Behind(g, n)'
    BY <2>1 DEF Behind
  <2> QED
    BY <1>1, <1>2, <1>4, <2>2, Numbers DEF InSequence
<1> QED
  BY <1>3, <1>4

LEMMA SealInSequence ==
    ASSUME OneSealerEach, SequenceInv, NEW g \in Gateway, NEW t \in Thread, Seal(g, t), NEW h \in Gateway
    PROVE  InSequence(h)'
<1> DEFINE n == send_seq_num[g]
           q == wire[h]
           m == [number |-> drawn[g][t], nonce |-> n]
<1>1. /\ drawn[g][t] # None
      /\ wire' = [wire EXCEPT ![Peer(g)] = Append(@, m)]
      /\ UNCHANGED <<send_seq_num, expected_seq_num, past>>
      /\ drawn' = [drawn EXCEPT ![g][t] = None]
  BY DEF Seal
<1>2. InSequence(h) /\ NumbersInv /\ TypeOK /\ Peer(h) \in Gateway /\ Peer(g) \in Gateway
  BY Peers DEF SequenceInv, NumbersInv
<1>3. t \in Sealers[g] /\ drawn[g][t] = n /\ n \in Nat
  BY <1>1, <1>2 DEF NumbersInv, TypeOK
<1>4. CASE Peer(h) # g
  <2>1. h # Peer(g)
    BY <1>4 DEF Peer, Gateway
  <2> QED
    BY <1>1, <1>2, <1>4, <2>1, InSequenceKept DEF TypeOK
<1>5. CASE Peer(h) = g
  <2>1. h = Peer(g)
    BY <1>5, Peers DEF Peer, Gateway
  <2>2. \A k \in Nat : Behind(g, k) => k < n
    BY <1>1 DEF Behind
  <2>3. /\ send_seq_num'[g] = n
        /\ \A u \in Thread : drawn'[g][u] = None
    <3>1. \A u \in Thread : drawn'[g][u] = None
      <4>1. drawn'[g][t] = None /\ \A u \in Thread : u # t => drawn'[g][u] = drawn[g][u]
        BY <1>1, <1>2 DEF TypeOK
      <4>2. \A u \in Thread : drawn[g][u] # None => u \in Sealers[g]
        BY <1>2 DEF NumbersInv
      <4> QED
        BY <1>3, <4>1, <4>2 DEF OneSealerEach
    <3> QED
      BY <1>1, <3>1
  <2>4. m \in Packet /\ m.number = n
    BY <1>3 DEF Packet
  <2>5. q \in Seq(Packet) /\ wire'[h] = Append(q, m)
    BY <1>1, <1>2, <2>1 DEF TypeOK
  <2> HIDE DEF n, q, m
  <2>6. /\ DOMAIN wire'[h] = 1 .. Len(q) + 1 /\ DOMAIN q = 1 .. Len(q) /\ Len(q) \in Nat
        /\ wire'[h][Len(q) + 1] = m
        /\ \A i \in DOMAIN q : wire'[h][i] = q[i]
    BY <2>4, <2>5, AppendFacts
  <2>7. expected_seq_num'[h] = expected_seq_num[h] /\ expected_seq_num[h] \in Nat /\ past' = past
    BY <1>1, <1>2, Numbers
  <2>8. \A i \in DOMAIN q : q[i].number \in Nat /\ expected_seq_num[h] < q[i].number /\ q[i].number < n
    BY <1>2, <1>5, <2>2, Numbers DEF InSequence, q
  <2>9. expected_seq_num[h] < n
    BY <1>2, <1>5, <2>2, <2>7 DEF InSequence
  <2>10. \A i \in DOMAIN wire'[h] :
            /\ wire'[h][i].number \in Nat /\ wire'[h][i].number <= n
            /\ expected_seq_num[h] < wire'[h][i].number
            /\ i \in DOMAIN q \/ i = Len(q) + 1
    BY <1>3, <2>4, <2>6, <2>7, <2>8, <2>9
  <2>11. \A i, j \in DOMAIN wire'[h] : i < j => wire'[h][i].number < wire'[h][j].number
    <3> SUFFICES ASSUME NEW i \in DOMAIN wire'[h], NEW j \in DOMAIN wire'[h], i < j
                 PROVE  wire'[h][i].number < wire'[h][j].number
      OBVIOUS
    <3>1. i \in DOMAIN q
      BY <2>6
    <3>2. CASE j \in DOMAIN q
      BY <1>2, <2>6, <3>1, <3>2 DEF InSequence, q
    <3>3. CASE j = Len(q) + 1
      BY <2>4, <2>6, <2>8, <3>1, <3>3
    <3> QED
      BY <2>10, <3>2, <3>3
  <2>12. expected_seq_num[h] <= n
    BY <1>3, <2>7, <2>9
  <2> QED
    BY <1>2, <1>5, <2>3, <2>7, <2>10, <2>11, <2>12 DEF InSequence, Behind
<1> QED
  BY <1>4, <1>5

\* The next packet passes the check.
LEMMA HeadPasses ==
    ASSUME SequenceInv, NEW g \in Gateway, Receive(g)
    PROVE  /\ Head(wire[g]) = wire[g][1] /\ 1 \in DOMAIN wire[g]
           /\ accepted' = [accepted EXCEPT ![g] = Append(@, Head(wire[g]).number)]
           /\ expected_seq_num' = [expected_seq_num EXCEPT ![g] = Head(wire[g]).number]
<1>1. NumbersInv /\ InSequence(g) /\ wire[g] \in Seq(Packet) /\ wire[g] # <<>>
  BY Numbers DEF SequenceInv, Receive
<1>2. Head(wire[g]) = wire[g][1] /\ 1 \in DOMAIN wire[g]
  BY <1>1, HeadTailProperties, LenProperties, EmptySeq
<1>3. /\ wire[g][1].nonce = wire[g][1].number
      /\ expected_seq_num[g] < wire[g][1].number
  BY <1>1, <1>2 DEF NumbersInv, InSequence
<1>4. Passes(g, Head(wire[g]))
  BY <1>1, <1>2, <1>3, Numbers DEF Passes
<1> QED
  BY <1>2, <1>4 DEF Receive, Verify

LEMMA ReceiveInSequence ==
    ASSUME SequenceInv, NEW g \in Gateway, Receive(g), NEW h \in Gateway
    PROVE  InSequence(h)'
<1> DEFINE q == wire[g]
           n == Head(q).number
<1>1. /\ wire' = [wire EXCEPT ![g] = Tail(q)] /\ past' = [past EXCEPT ![g] = @ \cup {Head(q)}]
      /\ UNCHANGED <<send_seq_num, drawn>> /\ q # <<>>
  BY DEF Receive
<1>2. InSequence(h) /\ InSequence(g) /\ NumbersInv /\ TypeOK
  BY DEF SequenceInv, NumbersInv
<1>3. Head(q) = q[1] /\ 1 \in DOMAIN q /\ expected_seq_num' = [expected_seq_num EXCEPT ![g] = n]
  BY HeadPasses
<1>4. CASE h # g
  BY <1>1, <1>2, <1>3, <1>4, InSequenceKept DEF TypeOK
<1>5. CASE h = g
  <2>1. wire'[g] = Tail(q) /\ past'[g] = past[g] \cup {Head(q)} /\ expected_seq_num'[g] = n
    BY <1>1, <1>2, <1>3 DEF TypeOK
  <2>2. /\ DOMAIN q = 1 .. Len(q) /\ Len(q) \in Nat /\ DOMAIN Tail(q) = 1 .. Len(q) - 1
        /\ \A i \in 1 .. Len(q) - 1 : Tail(q)[i] = q[i + 1]
    BY <1>1, <1>2, Numbers, HeadTailProperties, LenProperties
  <2>3. \A i \in DOMAIN Tail(q) : i \in Nat /\ i + 1 \in DOMAIN q /\ 1 < i + 1 /\ Tail(q)[i] = q[i + 1]
    BY <2>2
  <2>4. /\ \A i \in DOMAIN q : Behind(Peer(g), q[i].number)
        /\ \A i, j \in DOMAIN q : i < j => q[i].number < q[j].number
        /\ n \in Nat /\ expected_seq_num[g] \in Nat /\ expected_seq_num[g] < n
        /\ \A m \in past[g] : m.number \in Nat /\ m.number <= expected_seq_num[g]
    BY <1>2, <1>3, Numbers DEF InSequence
  <2>5. Head(q).number = n /\ q[1].number = n
    BY <1>3
  <2> HIDE DEF q, n
  <2>6. \A k : Behind(Peer(g), k) => Behind(Peer(g), k)'
    BY <1>1 DEF Behind
  <2>7. \A m \in past'[g] : m.number <= n
    BY <2>1, <2>4, <2>5
  <2>8. \A i \in DOMAIN Tail(q) : n < Tail(q)[i].number /\ Behind(Peer(g), Tail(q)[i].number)
    BY <1>3, <2>3, <2>4, <2>5
  <2>9. \A i, j \in DOMAIN Tail(q) : i < j => Tail(q)[i].number < Tail(q)[j].number
    BY <2>3, <2>4
  <2>10. Behind(Peer(g), n)
    BY <1>3, <2>4, <2>5
  <2> QED
    BY <1>5, <2>1, <2>6, <2>7, <2>8, <2>9, <2>10 DEF InSequence
<1> QED
  BY <1>4, <1>5

LEMMA SequenceStep ==
    ASSUME OneSealerEach, SequenceInv, [Next]_vars
    PROVE  SequenceInv'
<1>1. NumbersInv'
  BY NumbersStep DEF SequenceInv
<1>2. ASSUME NEW g \in Gateway, NEW t \in Thread, Number(g, t) \/ Seal(g, t) PROVE SequenceInv'
  BY <1>1, <1>2, NumberInSequence, SealInSequence DEF SequenceInv
<1>3. ASSUME NEW g \in Gateway, Receive(g) PROVE SequenceInv'
  BY <1>1, <1>3, ReceiveInSequence DEF SequenceInv
<1>4. ASSUME NEW g \in Gateway, ReceiveAgain(g) PROVE SequenceInv'
  <2>1. PICK m \in past[g] : Verify(g, m)
    BY <1>4 DEF ReceiveAgain
  <2>2. ~Passes(g, m)
    BY <2>1, Numbers DEF SequenceInv, InSequence, Passes
  <2> QED
    BY <1>1, <1>4, <2>1, <2>2, InSequenceKept DEF SequenceInv, ReceiveAgain, Verify
<1>5. CASE UNCHANGED vars
  BY <1>1, <1>5, InSequenceKept DEF SequenceInv, vars
<1> QED
  BY <1>2, <1>3, <1>4, <1>5 DEF Next

LEMMA SequenceInit ==
    ASSUME Init
    PROVE  SequenceInv
<1>1. \A g \in Gateway : InSequence(g)
  BY Peers, FirstType DEF Init, InSequence, Behind
<1> QED
  BY <1>1, NumbersInit DEF SequenceInv

\* A packet that is not the next one stays where it is.
LEMMA OnlyReceiveTakes ==
    ASSUME SequenceInv, [Next]_vars, NEW g \in Gateway, wire[g] # <<>>, wire'[g] = Tail(wire[g])
    PROVE  Receive(g)
<1>1. /\ wire \in [Gateway -> Seq(Packet)] /\ wire[g] \in Seq(Packet)
      /\ drawn \in [Gateway -> [Thread -> Nat \cup {None}]] /\ send_seq_num \in [Gateway -> Nat]
  BY DEF SequenceInv, NumbersInv, TypeOK
<1>2. Len(wire'[g]) < Len(wire[g]) /\ Len(wire[g]) \in Nat
  BY <1>1, HeadTailProperties, LenProperties
<1>3. ASSUME NEW h \in Gateway, NEW t \in Thread, Seal(h, t) PROVE FALSE
  <2> DEFINE m == [number |-> drawn[h][t], nonce |-> send_seq_num[h]]
  <2>1. wire' = [wire EXCEPT ![Peer(h)] = Append(@, m)] /\ m \in Packet
    BY <1>1, <1>3 DEF Seal, Packet
  <2> HIDE DEF m
  <2>2. wire'[g] = wire[g] \/ wire'[g] = Append(wire[g], m)
    BY <1>1, <2>1
  <2> QED
    BY <1>1, <1>2, <2>1, <2>2, AppendProperties
<1>4. ASSUME NEW h \in Gateway, h # g, Receive(h) PROVE FALSE
  BY <1>1, <1>2, <1>4 DEF Receive
<1>5. wire' # wire
  <2>1. wire'[g] # wire[g]
    BY <1>1, <1>2, HeadTailProperties, LenProperties
  <2> QED
    BY <2>1
<1>6. ASSUME NEW h \in Gateway, NEW t \in Thread, Number(h, t) PROVE FALSE
  BY <1>5, <1>6 DEF Number
<1>7. ASSUME NEW h \in Gateway, ReceiveAgain(h) PROVE FALSE
  BY <1>5, <1>7 DEF ReceiveAgain
<1> QED
  BY <1>3, <1>4, <1>5, <1>6, <1>7 DEF Next, vars

\* And what arrives in order and for the first time is never refused, however many
\* packets are under way and whatever is replayed in between: the check costs an
\* honest peer nothing.
THEOREM NothingIsRefused ==
    ASSUME OneSealerEach
    PROVE  Spec => NothingRefused
<1>1. Init => SequenceInv
  BY SequenceInit
<1>2. SequenceInv /\ [Next]_vars => SequenceInv'
  BY SequenceStep
<1>3. SequenceInv /\ [Next]_vars =>
        [\A g \in Gateway : wire[g] # <<>> /\ wire'[g] = Tail(wire[g]) =>
            accepted'[g] = Append(accepted[g], Head(wire[g]).number)]_vars
  <2> SUFFICES ASSUME SequenceInv, [Next]_vars, NEW g \in Gateway,
                      wire[g] # <<>>, wire'[g] = Tail(wire[g])
               PROVE  accepted'[g] = Append(accepted[g], Head(wire[g]).number)
    OBVIOUS
  <2> QED
    BY OnlyReceiveTakes, HeadPasses DEF SequenceInv, NumbersInv, TypeOK
<1> QED
  BY <1>1, <1>2, <1>3, PTL DEF Spec, NothingRefused
==============================================================================
