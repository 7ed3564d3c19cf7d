------------------------- MODULE AssociationProofs -------------------------
(***************************************************************************)
(* What the association programs do to the keys, seals and files of two    *)
(* devices, proved for any supply of keys and any number of handshakes,    *)
(* deletions and crashes.                                                  *)
(*                                                                         *)
(* The argument follows a key: everything on the way to d is signed by a   *)
(* key of its peer, so a key that passes verify_RSA_signature is one, so   *)
(* what d seals is, and what d writes to the file is what it has sealed.   *)
(***************************************************************************)
EXTENDS Association, SequenceTheorems, TLAPS

MessageTo(d) == [pub : SignKey \cup {None}, signer : KeysOf[Peer(d)]]

DeviceInv(d) ==
    /\ wire[d] \in Seq(MessageTo(d))
    /\ store[d].sign \in KeysOf[d] \cup {None}
    /\ tool[d].pc \in {"key", "proof"} => tool[d].own \in KeysOf[d]
    /\ tool[d].pc \in {"proof", "seal", "write"} => tool[d].peer \in KeysOf[Peer(d)]
    /\ tool[d].pc = "write" => store[d].seal = tool[d].peer
    /\ tool[d].pc \in {"delSeal", "delFile"} => store[d].sign = None \/ "sign" \in tool[d].left
    /\ tool[d].pc = "delFile" => store[d].seal = None \/ "seal" \in tool[d].left
    /\ report[d] = "deleted" =>
          /\ tool[d].pc = "off" /\ store[d].file = None
          /\ store[d].sign = None \/ "sign" \in tool[d].left
          /\ store[d].seal = None \/ "seal" \in tool[d].left

KeyInv ==
    /\ store \in [Gateway -> Store]
    /\ tool \in [Gateway -> Tool]
    /\ wire = [d \in Gateway |-> wire[d]]
    /\ report \in [Gateway -> Reports]
    /\ \A d \in Gateway : DeviceInv(d)

LEMMA KeyTypes == \A d \in Gateway : KeysOf[d] \subseteq SignKey /\ Peer(d) \in Gateway /\ Peer(d) # d
BY DEF SignKey, Gateway, Peer

LEMMA ToolAtType == \A pc \in ToolStates : ToolAt(pc) \in Tool
BY DEF ToolAt, Tool

LEMMA TypeFromKeyInv == KeyInv => TypeOK
<1> SUFFICES ASSUME KeyInv PROVE TypeOK
  OBVIOUS
<1>1. \A d \in Gateway : wire[d] \in Seq(Signed)
  <2> SUFFICES ASSUME NEW d \in Gateway PROVE wire[d] \in Seq(Signed)
    OBVIOUS
  <2>1. wire[d] \in Seq(MessageTo(d)) /\ MessageTo(d) \subseteq Signed
    BY KeyTypes DEF KeyInv, DeviceInv, MessageTo, Signed
  <2> QED
    BY <2>1
<1> QED
  BY <1>1 DEF KeyInv, DeviceInv, TypeOK

LEMMA KeyInit == Init => KeyInv
BY ToolAtType DEF Init, KeyInv, DeviceInv, NoStore, Store, ToolAt, ToolStates, Reports, MessageTo

\* Nothing changes at g but messages.
LEMMA Undisturbed ==
    ASSUME NEW g \in Gateway, DeviceInv(g), store'[g] = store[g], report'[g] = report[g],
           tool'[g].pc = tool[g].pc, tool'[g].own = tool[g].own, tool'[g].peer = tool[g].peer,
           tool'[g].left = tool[g].left, wire'[g] \in Seq(MessageTo(g))
    PROVE  DeviceInv(g)'
BY DEF DeviceInv, MessageTo

\* The end of a program, with the store as it was but perhaps for the file.
LEMMA EndedStep ==
    ASSUME KeyInv, NEW d \in Gateway, tool[d].pc # "off", Ended(d),
           NEW x \in SignKey \cup {None, Empty},
           store' = store \/ store' = [store EXCEPT ![d].file = x],
           report' = report \/ report' = [report EXCEPT ![d] = "complete"]
    PROVE  KeyInv'
<1>1. /\ store' \in [Gateway -> Store]
      /\ \A g \in Gateway : store'[g].sign = store[g].sign /\ store'[g].seal = store[g].seal
  <2>1. store \in [Gateway -> Store]
    BY DEF KeyInv
  <2>2. CASE store' = [store EXCEPT ![d].file = x]
    <3>1. [store[d] EXCEPT !.file = x] \in Store
      BY <2>1 DEF Store
    <3>2. store' \in [Gateway -> Store] /\ store'[d] = [store[d] EXCEPT !.file = x]
      BY <2>1, <2>2, <3>1
    <3>3. store'[d].sign = store[d].sign /\ store'[d].seal = store[d].seal
      BY <2>1, <3>2 DEF Store
    <3> QED
      BY <2>1, <2>2, <3>2, <3>3
  <2> QED
    BY <2>1, <2>2
<1>2. report' \in [Gateway -> Reports]
  BY DEF KeyInv, Reports
<1>3. wire' = [g \in Gateway |-> wire'[g]] /\ \A g \in Gateway : wire'[g] \in Seq(MessageTo(g))
  BY DEF Ended, KeyInv, DeviceInv
<1>4. /\ tool' \in [Gateway -> Tool]
      /\ tool'[d] = ToolAt("off")
      /\ \A g \in Gateway : g # d => /\ tool'[g].pc = tool[g].pc /\ tool'[g].own = tool[g].own
                                     /\ tool'[g].peer = tool[g].peer
                                     /\ tool'[g].left = tool[g].left
  <2> DEFINE p == Peer(d)
             b == tool[p].eof \/ {tool[d].pc, tool[p].pc} \subseteq Handshaking
  <2>1. p \in Gateway /\ p # d /\ \A g \in Gateway : g = d \/ g = p
    BY KeyTypes DEF Gateway
  <2>2. tool' = [tool EXCEPT ![d] = ToolAt("off"), ![p].eof = b] /\ tool \in [Gateway -> Tool]
    BY DEF Ended, KeyInv
  <2>3. ToolAt("off") \in Tool /\ b \in BOOLEAN
    BY <2>1, <2>2, ToolAtType DEF ToolStates, Tool
  <2> HIDE DEF p, b
  <2>4. [tool[p] EXCEPT !.eof = b] \in Tool
    BY <2>1, <2>2, <2>3 DEF Tool
  <2>5. tool'[d] = ToolAt("off") /\ tool'[p] = [tool[p] EXCEPT !.eof = b] /\ tool' \in [Gateway -> Tool]
    BY <2>1, <2>2, <2>3, <2>4
  <2>6. /\ tool'[p].pc = tool[p].pc /\ tool'[p].own = tool[p].own /\ tool'[p].peer = tool[p].peer
        /\ tool'[p].left = tool[p].left
    BY <2>1, <2>2, <2>5 DEF Tool
  <2> QED
    BY <2>1, <2>5, <2>6
<1>5. tool'[d].pc = "off" /\ report'[d] # "deleted"
  BY <1>4 DEF ToolAt, KeyInv, DeviceInv
<1>6. \A g \in Gateway : g # d => store'[g] = store[g] /\ report'[g] = report[g]
  BY DEF KeyInv
<1>7. DeviceInv(d)'
  BY <1>1, <1>3, <1>5 DEF DeviceInv, KeyInv
<1>8. ASSUME NEW g \in Gateway, g # d PROVE DeviceInv(g)'
  BY <1>3, <1>4, <1>6, <1>8, Undisturbed DEF KeyInv
<1> QED
  BY <1>1, <1>2, <1>3, <1>4, <1>7, <1>8 DEF KeyInv

\* A step of the program on d, which the other device sees in messages only.
LEMMA StepOfOne ==
    ASSUME KeyInv, NEW d \in Gateway, NEW t \in Tool, NEW s \in Store, NEW r \in Reports,
           tool' = [tool EXCEPT ![d] = t], store' = [store EXCEPT ![d] = s],
           report' = [report EXCEPT ![d] = r],
           wire' = [g \in Gateway |-> wire'[g]], \A g \in Gateway : wire'[g] \in Seq(MessageTo(g)),
           DeviceInv(d)'
    PROVE  KeyInv'
<1>1. /\ store' \in [Gateway -> Store] /\ tool' \in [Gateway -> Tool] /\ report' \in [Gateway -> Reports]
      /\ \A g \in Gateway : g # d => store'[g] = store[g] /\ tool'[g] = tool[g] /\ report'[g] = report[g]
  BY DEF KeyInv
<1>2. ASSUME NEW g \in Gateway, g # d PROVE DeviceInv(g)'
  BY <1>1, <1>2, Undisturbed DEF KeyInv
<1> QED
  BY <1>1, <1>2 DEF KeyInv

\* What d sends is signed by a key of its own.
LEMMA Sends ==
    ASSUME KeyInv, NEW d \in Gateway, NEW m \in MessageTo(Peer(d)),
           \/ wire' = [wire EXCEPT ![Peer(d)] = Append(@, m)]
           \/ wire[d] # <<>> /\ wire' = Passed(d, m)
           \/ wire[d] # <<>> /\ wire' = [wire EXCEPT ![d] = Tail(@)]
           \/ UNCHANGED wire
    PROVE  wire' = [g \in Gateway |-> wire'[g]] /\ \A g \in Gateway : wire'[g] \in Seq(MessageTo(g))
<1>1. \A g \in Gateway : wire[g] \in Seq(MessageTo(g))
  BY DEF KeyInv, DeviceInv
<1>2. Append(wire[Peer(d)], m) \in Seq(MessageTo(Peer(d)))
  BY <1>1, KeyTypes
<1>3. wire[d] # <<>> => Tail(wire[d]) \in Seq(MessageTo(d))
  BY <1>1
<1> QED
  BY <1>1, <1>2, <1>3, KeyTypes DEF Passed, KeyInv

LEMMA StartSteps ==
    ASSUME KeyInv, Listen \/ Connect \/ \E d \in Gateway : StartDelete(d)
    PROVE  KeyInv'
<1>1. CASE Listen
  <2>1. /\ "server" \in Gateway /\ ToolAt("listen") \in Tool /\ store["server"] \in Store
        /\ "none" \in Reports /\ store' = [store EXCEPT !["server"] = store["server"]]
        /\ tool' = [tool EXCEPT !["server"] = ToolAt("listen")]
        /\ report' = [report EXCEPT !["server"] = "none"] /\ wire' = wire
    BY <1>1, ToolAtType DEF Listen, KeyInv, Gateway, ToolStates, Reports
  <2>2. DeviceInv("server")'
    BY <2>1 DEF DeviceInv, KeyInv, ToolAt, MessageTo
  <2> QED
    BY <2>1, <2>2, StepOfOne DEF KeyInv, DeviceInv
<1>2. CASE Connect
  <2> DEFINE t == [ToolAt("create") EXCEPT !.eof = (tool["server"].pc # "listen")]
  <2>1. /\ t \in Tool /\ t.pc = "create" /\ ToolAt("create") \in Tool /\ ToolAt("create").pc = "create"
    BY ToolAtType DEF ToolAt, Tool, ToolStates, Handshaking
  <2>2. /\ tool'["client"] = t /\ tool'["server"] \in {tool["server"], ToolAt("create")}
        /\ tool["server"].pc # "off"
        /\ tool' = [g \in Gateway |-> tool'[g]]
        /\ report' = [report EXCEPT !["client"] = "none"] /\ store' = store /\ wire' = wire
    BY <1>2 DEF Connect, Gateway, Handshaking
  <2> HIDE DEF t
  <2>3. tool' \in [Gateway -> Tool] /\ report' \in [Gateway -> Reports] /\ report'["client"] = "none"
    BY <2>1, <2>2 DEF KeyInv, Gateway, Reports
  <2>4. DeviceInv("client")'
    BY <2>1, <2>2, <2>3 DEF DeviceInv, KeyInv, Gateway, MessageTo
  <2>5. DeviceInv("server")'
    BY <2>1, <2>2, <2>3 DEF DeviceInv, KeyInv, Gateway, MessageTo
  <2> QED
    BY <2>2, <2>3, <2>4, <2>5 DEF KeyInv, Gateway
<1>3. ASSUME NEW d \in Gateway, StartDelete(d) PROVE KeyInv'
  <2>1. /\ ToolAt("delSign") \in Tool /\ ToolAt("delSign").pc = "delSign"
        /\ tool' = [tool EXCEPT ![d] = ToolAt("delSign")]
        /\ report' = [g \in Gateway |-> "none"] /\ store' = store /\ wire' = wire
    BY <1>3, ToolAtType DEF StartDelete, ToolStates, ToolAt
  <2>2. /\ tool' \in [Gateway -> Tool] /\ report' \in [Gateway -> Reports]
        /\ tool'[d].pc = "delSign" /\ \A g \in Gateway : report'[g] = "none"
        /\ \A g \in Gateway : g # d => tool'[g] = tool[g]
    BY <2>1 DEF KeyInv, Reports
  <2>3. ASSUME NEW g \in Gateway PROVE DeviceInv(g)'
    BY <2>1, <2>2, <2>3 DEF KeyInv, DeviceInv, MessageTo
  <2> QED
    BY <2>1, <2>2, <2>3 DEF KeyInv
<1> QED
  BY <1>1, <1>2, <1>3

\* What a device that is handshaking has and what it is sent.
LEMMA ReceivedFacts ==
    ASSUME KeyInv, NEW d \in Gateway, Received(d)
    PROVE  /\ tool[d].pc \in {"key", "proof"} /\ wire[d] # <<>>
           /\ Head(wire[d]) \in MessageTo(d)
           /\ Signer(d) = Head(wire[d]).signer /\ Signer(d) \in KeysOf[Peer(d)]
           /\ MustSign(d) => store[d].sign \in KeysOf[d]
<1>1. wire[d] # <<>> /\ wire[d] \in Seq(MessageTo(d)) /\ tool[d].pc \in {"key", "proof"}
  BY DEF Received, KeyInv, DeviceInv
<1>2. Head(wire[d]) \in MessageTo(d)
  BY <1>1
<1>3. Signer(d) = Head(wire[d]).signer
  BY DEF Received, VerifyRsaSignature
<1>4. MustSign(d) => store[d].sign \in KeysOf[d]
  BY DEF Received, CanSign, KeyInv, DeviceInv
<1> QED
  BY <1>1, <1>2, <1>3, <1>4 DEF MessageTo

LEMMA CreateStep ==
    ASSUME KeyInv, NEW d \in Gateway, NEW fresh \in KeysOf[d], Create(d, fresh)
    PROVE  KeyInv'
<1> DEFINE s == CreateKey(store[d], fresh)
           m == [pub |-> s.sign, signer |-> s.sign]
           t == [tool[d] EXCEPT !.pc = "key", !.own = s.sign]
<1>1. /\ store[d] \in Store /\ tool[d] \in Tool /\ tool[d].pc = "create"
      /\ report' = report /\ store' = [store EXCEPT ![d] = s] /\ tool' = [tool EXCEPT ![d] = t]
      /\ wire' = [wire EXCEPT ![Peer(d)] = Append(@, m)] \/ UNCHANGED wire
  BY DEF Create, KeyInv
<1>2. s \in Store /\ s.sign \in KeysOf[d]
  BY <1>1, KeyTypes DEF CreateKey, Store, KeyInv, DeviceInv
<1>3. t \in Tool /\ t.pc = "key" /\ t.own \in KeysOf[d]
  BY <1>1, <1>2, KeyTypes DEF Tool, ToolStates, Handshaking
<1>4. m \in MessageTo(Peer(d))
  BY <1>2, KeyTypes DEF MessageTo, Gateway, Peer
<1> HIDE DEF s, m, t
<1>5. wire' = [g \in Gateway |-> wire'[g]] /\ \A g \in Gateway : wire'[g] \in Seq(MessageTo(g))
  BY <1>1, <1>4, Sends
<1>6. report[d] # "deleted" /\ report[d] \in Reports /\ report' = [report EXCEPT ![d] = report[d]]
  BY <1>1 DEF KeyInv, DeviceInv
<1>7. store'[d] = s /\ tool'[d] = t /\ report'[d] = report[d]
  BY <1>1 DEF KeyInv
<1>8. DeviceInv(d)'
  BY <1>2, <1>3, <1>5, <1>6, <1>7 DEF DeviceInv, MessageTo
<1> QED
  BY <1>1, <1>2, <1>3, <1>5, <1>6, <1>8, StepOfOne

\* A step of d that leaves its store and report alone.
LEMMA HandshakeStep ==
    ASSUME KeyInv, NEW d \in Gateway, tool[d].pc \in {"key", "proof"},
           NEW t \in Tool, tool' = [tool EXCEPT ![d] = t], UNCHANGED <<store, report>>,
           t.pc \in {"proof", "seal"}, t.pc = "proof" => t.own \in KeysOf[d], t.peer \in KeysOf[Peer(d)],
           wire' = [g \in Gateway |-> wire'[g]], \A g \in Gateway : wire'[g] \in Seq(MessageTo(g))
    PROVE  KeyInv'
<1>1. /\ store[d] \in Store /\ store' = [store EXCEPT ![d] = store[d]]
      /\ report[d] \in Reports /\ report' = [report EXCEPT ![d] = report[d]]
      /\ tool'[d] = t /\ report[d] # "deleted"
  BY DEF KeyInv, DeviceInv
<1>2. DeviceInv(d)'
  BY <1>1 DEF DeviceInv, KeyInv, MessageTo
<1> QED
  BY <1>1, <1>2, StepOfOne

LEMMA ReceiveStep ==
    ASSUME KeyInv, NEW d \in Gateway, ReceiveKey(d) \/ ReceiveProof(d)
    PROVE  KeyInv'
<1>1. tool[d] \in Tool /\ Peer(Peer(d)) = d
  BY DEF KeyInv, Gateway, Peer
<1>2. ASSUME NEW k \in KeysOf[d], NEW pub \in {k, None}
      PROVE  [pub |-> pub, signer |-> k] \in MessageTo(Peer(d))
  BY <1>1, <1>2, KeyTypes DEF MessageTo
<1>3. CASE ReceiveKey(d)
  <2> DEFINE t == [tool[d] EXCEPT !.pc = "proof", !.peer = Head(wire[d]).pub]
             m == IF d = "server" THEN [pub |-> tool[d].own, signer |-> tool[d].own]
                                  ELSE [pub |-> None, signer |-> store[d].sign]
  <2>1. /\ tool[d].pc = "key" /\ Received(d) /\ wire' = Passed(d, m) /\ UNCHANGED <<store, report>>
        /\ tool' = [tool EXCEPT ![d] = t]
    BY <1>3, <1>1 DEF ReceiveKey, KeyInv
  <2>2. /\ Head(wire[d]).pub \in KeysOf[Peer(d)] /\ wire[d] # <<>>
        /\ d # "server" => store[d].sign \in KeysOf[d]
    BY <2>1, ReceivedFacts DEF Signer, MustSign, Gateway
  <2>3. m \in MessageTo(Peer(d)) /\ tool[d].own \in KeysOf[d]
    BY <1>2, <2>1, <2>2 DEF KeyInv, DeviceInv
  <2>4. t \in Tool /\ t.pc = "proof" /\ t.own = tool[d].own /\ t.peer = Head(wire[d]).pub
    BY <1>1, <2>2, KeyTypes DEF Tool, ToolStates, Handshaking
  <2> HIDE DEF t, m
  <2>5. wire' = [g \in Gateway |-> wire'[g]] /\ \A g \in Gateway : wire'[g] \in Seq(MessageTo(g))
    BY <2>1, <2>2, <2>3, Sends
  <2> QED
    BY <2>1, <2>2, <2>3, <2>4, <2>5, HandshakeStep
<1>4. CASE ReceiveProof(d)
  <2> DEFINE t == [tool[d] EXCEPT !.pc = "seal"]
             m == [pub |-> None, signer |-> store[d].sign]
  <2>1. /\ tool[d].pc = "proof" /\ Received(d) /\ UNCHANGED <<store, report>>
        /\ wire' = IF d = "server" THEN Passed(d, m) ELSE [wire EXCEPT ![d] = Tail(@)]
        /\ tool' = [tool EXCEPT ![d] = t]
    BY <1>4, <1>1 DEF ReceiveProof, KeyInv
  <2>2. wire[d] # <<>> /\ (d = "server" => store[d].sign \in KeysOf[d])
    BY <2>1, ReceivedFacts DEF MustSign
  <2>3. \E x \in MessageTo(Peer(d)) : d = "server" => x = m
    BY <1>2, <2>1, <2>2, ReceivedFacts DEF KeyInv, DeviceInv
  <2>4. t \in Tool /\ t.pc = "seal" /\ t.peer = tool[d].peer /\ tool[d].peer \in KeysOf[Peer(d)]
    BY <1>1, <2>1 DEF Tool, ToolStates, KeyInv, DeviceInv
  <2> HIDE DEF t, m
  <2>5. wire' = [g \in Gateway |-> wire'[g]] /\ \A g \in Gateway : wire'[g] \in Seq(MessageTo(g))
    BY <2>1, <2>2, <2>3, Sends
  <2> QED
    BY <2>1, <2>4, <2>5, HandshakeStep
<1> QED
  BY <1>3, <1>4

LEMMA BreakOffStep ==
    ASSUME KeyInv, NEW d \in Gateway, BreakOff(d)
    PROVE  KeyInv'
BY EndedStep DEF BreakOff

LEMMA SealStep ==
    ASSUME KeyInv, NEW d \in Gateway, Seal(d)
    PROVE  KeyInv'
<1>1. CASE ~CanSeal(store[d])
  BY <1>1, EndedStep DEF Seal
<1>2. CASE CanSeal(store[d])
  <2> DEFINE s == LinkWithSeal(store[d], tool[d].peer)
             t == [tool[d] EXCEPT !.pc = "write"]
  <2>1. /\ tool[d].pc = "seal" /\ tool[d] \in Tool /\ store[d] \in Store
        /\ tool' = [tool EXCEPT ![d] = t] /\ store' = [store EXCEPT ![d] = s]
        /\ wire' = wire /\ report' = [report EXCEPT ![d] = "associated"]
    BY <1>2 DEF Seal, KeyInv
  <2>2. tool[d].peer \in KeysOf[Peer(d)] /\ tool[d].peer \in SignKey
    BY <2>1, KeyTypes DEF KeyInv, DeviceInv
  <2>3. /\ s \in Store /\ s.seal = tool[d].peer /\ s.sign = store[d].sign
        /\ t \in Tool /\ t.pc = "write" /\ t.peer = tool[d].peer
    BY <2>1, <2>2 DEF LinkWithSeal, Store, Tool, ToolStates
  <2> HIDE DEF s, t
  <2>4. store'[d] = s /\ tool'[d] = t /\ report'[d] = "associated" /\ "associated" \in Reports
    BY <2>1 DEF KeyInv, Reports
  <2>5. DeviceInv(d)'
    BY <2>1, <2>2, <2>3, <2>4 DEF DeviceInv, KeyInv, MessageTo
  <2>6. wire' = [g \in Gateway |-> wire'[g]] /\ \A g \in Gateway : wire'[g] \in Seq(MessageTo(g))
    BY <2>1 DEF KeyInv, DeviceInv
  <2> QED
    BY <2>1, <2>3, <2>4, <2>5, <2>6, StepOfOne
<1> QED
  BY <1>1, <1>2

LEMMA WriteStep ==
    ASSUME KeyInv, NEW d \in Gateway, Write(d)
    PROVE  KeyInv'
<1>1. tool[d].peer \in SignKey
  BY KeyTypes DEF Write, KeyInv, DeviceInv
<1> QED
  BY <1>1, EndedStep DEF Write

LEMMA CrashStep ==
    ASSUME KeyInv, NEW d \in Gateway, CrashTool(d)
    PROVE  KeyInv'
<1>1. store' = store \/ store' = [store EXCEPT ![d].file = Empty]
  BY DEF CrashTool, KeyInv, Store
<1> QED
  BY <1>1, EndedStep DEF CrashTool

LEMMA DeleteStep ==
    ASSUME KeyInv, NEW d \in Gateway, DeleteKeys(d)
    PROVE  KeyInv'
<1>1. PICK at \in {"delSign", "delSeal", "delFile"}, name \in {"sign", "seal", "file"},
           next \in {"delSeal", "delFile", "off"} :
        /\ Delete(d, at, name, next)
        /\ <<at, name, next>> \in {<<"delSign", "sign", "delSeal">>, <<"delSeal", "seal", "delFile">>,
                                   <<"delFile", "file", "off">>}
  BY DEF DeleteKeys
<1>0. PICK s \in DeleteOutcomes(store[d], name) :
        /\ store' = [store EXCEPT ![d] = s]
        /\ tool' = [tool EXCEPT ![d] = [ToolAt(next) EXCEPT !.left = Left(d, name, s)]]
  BY <1>1 DEF Delete
<1> DEFINE t == [ToolAt(next) EXCEPT !.left = Left(d, name, s)]
           r == IF next = "off" THEN "deleted" ELSE report[d]
<1>2. /\ tool[d].pc = at /\ wire' = wire /\ store[d] \in Store /\ report[d] \in Reports /\ tool[d] \in Tool
      /\ tool' = [tool EXCEPT ![d] = t] /\ store' = [store EXCEPT ![d] = s]
      /\ report' = [report EXCEPT ![d] = r]
  BY <1>0, <1>1 DEF Delete, KeyInv
<1>3. /\ Left(d, name, s) \in SUBSET {"sign", "seal"} /\ tool[d].left \subseteq Left(d, name, s)
      /\ name # "file" => s[name] = None \/ name \in Left(d, name, s)
  BY <1>2 DEF Left, Tool
<1>4. t \in Tool /\ t.pc = next /\ t.left = Left(d, name, s)
  BY <1>3, ToolAtType DEF ToolAt, ToolStates, Tool
<1>5. /\ s \in Store
      /\ name = "seal" => s.sign = store[d].sign
      /\ name = "file" => s.sign = store[d].sign /\ s.seal = store[d].seal /\ s.file = None
  <2>1. s \in {DeleteObj(store[d], name), store[d]} /\ (name = "file" => s = DeleteObj(store[d], name))
    BY DEF DeleteOutcomes
  <2>2. DeleteObj(store[d], name) = [store[d] EXCEPT ![name] = None]
    BY DEF DeleteObj
  <2> QED
    BY <1>2, <2>1, <2>2 DEF Store
<1>6. /\ name = "sign" => s.sign = None \/ "sign" \in t.left
      /\ name = "seal" => s.seal = None \/ "seal" \in t.left
  BY <1>3, <1>4
<1>7. /\ at = "delSeal" => store[d].sign = None \/ "sign" \in t.left
      /\ at = "delFile" => /\ store[d].sign = None \/ "sign" \in t.left
                           /\ store[d].seal = None \/ "seal" \in t.left
      /\ store[d].sign \in KeysOf[d] \cup {None} /\ report[d] # "deleted"
  BY <1>2, <1>3, <1>4 DEF KeyInv, DeviceInv
<1>8. s.sign \in KeysOf[d] \cup {None}
  <2>1. s.sign = store[d].sign \/ s.sign = None
    <3>1. s \in {DeleteObj(store[d], name), store[d]}
      BY DEF DeleteOutcomes
    <3> QED
      BY <1>2, <3>1 DEF DeleteObj, Store
  <2> QED
    BY <1>7, <2>1
<1>9. r \in Reports /\ (r = "deleted" => next = "off")
  BY <1>2, <1>7 DEF Reports
<1>10. store'[d] = s /\ tool'[d] = t /\ report'[d] = r
  BY <1>2 DEF KeyInv
<1> HIDE DEF t, r
<1>11. wire' = [g \in Gateway |-> wire'[g]] /\ \A g \in Gateway : wire'[g] \in Seq(MessageTo(g))
  BY <1>2 DEF KeyInv, DeviceInv
<1>12. DeviceInv(d)'
  BY <1>1, <1>4, <1>5, <1>6, <1>7, <1>8, <1>9, <1>10, <1>11 DEF DeviceInv, MessageTo
<1> QED
  BY <1>2, <1>4, <1>5, <1>9, <1>11, <1>12, StepOfOne

LEMMA KeyStep == KeyInv /\ [Next]_vars => KeyInv'
<1> SUFFICES ASSUME KeyInv, [Next]_vars PROVE KeyInv'
  OBVIOUS
<1>1. CASE UNCHANGED vars
  BY <1>1 DEF vars, KeyInv, DeviceInv, MessageTo
<1>2. ASSUME NEW d \in Gateway, NEW fresh \in FreshKeys(d), Create(d, fresh) PROVE KeyInv'
  BY <1>2, CreateStep DEF FreshKeys
<1> QED
  BY <1>1, <1>2, StartSteps, ReceiveStep, BreakOffStep, SealStep, WriteStep, DeleteStep, CrashStep
     DEF Next, Step

LEMMA KeysFollowed == Spec => []KeyInv
BY KeyInit, KeyStep, PTL DEF Spec

\* The types, for any supply of keys: what auth_key_exchange seals and writes is
\* a key of the peer's.
THEOREM TypeCorrect == Spec => []TypeOK
BY KeysFollowed, TypeFromKeyInv, PTL

\* auth_delete_keys that came to its end leaves nothing but what it has said could
\* not be deleted, whatever crashed or failed before.
THEOREM CleanAfterDeletion == Spec => []DeletedIsClean
<1>1. KeyInv => DeletedIsClean
  BY DEF KeyInv, DeviceInv, DeletedIsClean
<1> QED
  BY <1>1, KeysFollowed, PTL

\* How a step of d changes its store, and at which of its steps.
StoreChange(d, s) ==
    \/ \E k \in KeysOf[d] : ~CanSign(store[d]) /\ s = CreateKey(store[d], k)
    \/ \E k \in KeysOf[Peer(d)] : CanSeal(store[d]) /\ s = LinkWithSeal(store[d], k)
    \/ /\ CanUnseal(store[d]) /\ tool[d].pc = "write"
       /\ \E c \in {store[d].seal, Empty} : s = [store[d] EXCEPT !.file = c]
    \/ tool[d].pc = "delSign" /\ s = DeleteObj(store[d], "sign")
    \/ tool[d].pc = "delSeal" /\ s = DeleteObj(store[d], "seal")
    \/ tool[d].pc = "delFile" /\ s = DeleteObj(store[d], "file")

LEMMA StoreChanges ==
    ASSUME KeyInv, Next, store' # store
    PROVE  \E d \in Gateway : \E s : store' = [store EXCEPT ![d] = s] /\ StoreChange(d, s)
<1>1. PICK d \in Gateway : Step(d) \/ CrashTool(d)
  BY DEF Next, Listen, Connect, StartDelete
<1>2. /\ store \in [Gateway -> Store]
      /\ tool[d].pc \in {"seal", "write"} => tool[d].peer \in KeysOf[Peer(d)]
      /\ tool[d].pc = "write" => store[d].seal = tool[d].peer
  BY DEF KeyInv, DeviceInv
<1>3. tool[d].pc = "write" => CanUnseal(store[d])
  BY <1>2, KeyTypes, StoreAssumption DEF CanUnseal
<1>4. ASSUME NEW fresh \in KeysOf[d], Create(d, fresh)
      PROVE  store' = [store EXCEPT ![d] = CreateKey(store[d], fresh)] /\ ~CanSign(store[d])
  <2>1. store' = [store EXCEPT ![d] = CreateKey(store[d], fresh)]
    BY <1>4 DEF Create
  <2>2. CanSign(store[d]) => CreateKey(store[d], fresh) = store[d]
    BY DEF CanSign, CreateKey
  <2> QED
    BY <1>2, <2>1, <2>2
<1>5. CASE \E fresh \in FreshKeys(d) : Create(d, fresh)
  BY <1>4, <1>5 DEF FreshKeys, StoreChange
<1>6. CASE Seal(d)
  BY <1>2, <1>6 DEF Seal, StoreChange
<1>7. CASE Write(d) \/ CrashTool(d)
  <2>1. CASE Write(d)
    <3>1. tool[d].pc = "write" /\ store' = [store EXCEPT ![d] = [store[d] EXCEPT !.file = store[d].seal]]
      BY <1>2, <2>1 DEF Write
    <3> QED
      BY <1>3, <3>1 DEF StoreChange
  <2>2. CASE CrashTool(d)
    <3>1. store' = [store EXCEPT ![d] = [store[d] EXCEPT !.file = IF tool[d].pc = "write" THEN Empty ELSE @]]
      BY <1>2, <2>2 DEF CrashTool
    <3>2. tool[d].pc = "write"
      BY <1>2, <3>1 DEF Store
    <3>3. store' = [store EXCEPT ![d] = [store[d] EXCEPT !.file = Empty]]
      BY <3>1, <3>2
    <3> QED
      BY <1>3, <3>2, <3>3 DEF StoreChange
  <2> QED
    BY <1>7, <2>1, <2>2
<1>8. CASE DeleteKeys(d)
  <2>1. PICK at \in ToolStates, name \in {"sign", "seal", "file"}, next \in ToolStates :
            /\ Delete(d, at, name, next)
            /\ <<at, name>> \in {<<"delSign", "sign">>, <<"delSeal", "seal">>, <<"delFile", "file">>}
    BY <1>8 DEF DeleteKeys, ToolStates
  <2>2. PICK s \in DeleteOutcomes(store[d], name) : store' = [store EXCEPT ![d] = s]
    BY <2>1 DEF Delete
  <2>3. s # store[d]
    BY <1>2, <2>2
  <2>4. s = DeleteObj(store[d], name)
    BY <2>3 DEF DeleteOutcomes
  <2>5. tool[d].pc = at
    BY <2>1 DEF Delete
  <2> QED
    BY <2>1, <2>2, <2>4, <2>5 DEF StoreChange
<1> QED
  BY <1>1, <1>5, <1>6, <1>7, <1>8 DEF Step, ReceiveKey, ReceiveProof, BreakOff

\* No handshake that is refused, breaks off or crashes loses a device's trust in
\* its peer: what create_key and link_with_seal add is never a replacement, and
\* the file is written only after link_with_seal.
THEOREM TrustIsKept == Spec => TrustKept
<1> DEFINE Kept == \A d \in Gateway : Trusts(d) /\ ~Trusts(d)' => tool[d].pc \in {"delSeal", "delFile", "write"}
<1>1. KeyInv /\ [Next]_vars => [Kept]_vars
  <2> SUFFICES ASSUME KeyInv, Next, store' # store, NEW d \in Gateway, Trusts(d), ~Trusts(d)'
               PROVE  tool[d].pc \in {"delSeal", "delFile", "write"}
    BY DEF vars, Trusts
  <2>0. PICK g \in Gateway : \E s : store' = [store EXCEPT ![g] = s] /\ StoreChange(g, s)
    BY StoreChanges
  <2>1. PICK s : store' = [store EXCEPT ![g] = s] /\ StoreChange(g, s)
    BY <2>0
  <2>2. store \in [Gateway -> Store]
    BY DEF KeyInv
  <2>3. g = d /\ store'[d] = s
    BY <2>1, <2>2 DEF Trusts
  <2>4. (s.seal # None /\ s.file = s.seal) = FALSE /\ store[d].seal # None /\ store[d].file = store[d].seal
    BY <2>3 DEF Trusts
  <2> QED
    BY <2>1, <2>2, <2>3, <2>4 DEF StoreChange, CreateKey, CanSeal, DeleteObj, Store
<1> QED
  BY <1>1, KeysFollowed, PTL DEF Spec, TrustKept

\* The programs of both devices do nothing to what they keep that Trust does not
\* allow, and the gateways, which are checked over Trust, may count on that.
THEOREM AssociationImplementsTrust == Spec => TrustImplemented
<1>1. Init => store = [d \in Gateway |-> T!NoStore]
  BY DEF Init, T!NoStore, NoStore
<1>2. KeyInv /\ [Next]_vars => [T!TrustNext]_store
  <2> SUFFICES ASSUME KeyInv, Next, store' # store PROVE T!TrustNext
    BY DEF vars
  <2>0. PICK d \in Gateway : \E s : store' = [store EXCEPT ![d] = s] /\ StoreChange(d, s)
    BY StoreChanges
  <2>1. PICK s : store' = [store EXCEPT ![d] = s] /\ StoreChange(d, s)
    BY <2>0
  <2>2. T!MakeKey(d) \/ T!SealPeer(d) \/ T!WriteFile(d) \/ T!Forget(d)
    BY <2>1 DEF StoreChange, T!MakeKey, T!SealPeer, T!WriteFile, T!Forget, T!Change, T!CanSign, T!CreateKey,
       T!CanSeal, T!LinkWithSeal, T!CanUnseal, T!DeleteObj, T!Peer, CanSign, CreateKey, CanSeal,
       LinkWithSeal, CanUnseal, DeleteObj, Peer
  <2> QED
    BY <2>2 DEF T!TrustNext, T!Gateway, Gateway
<1> QED
  BY <1>1, <1>2, KeysFollowed, PTL DEF Spec, TrustImplemented, T!TrustSpec, T!Gateway, Gateway

----------------------------------------------------------------------------
(* That two devices which both report success trust each other's present   *)
(* key.  What a device was told of its peer's key stays true of a peer     *)
(* that can still succeed: the key is made once and deleted only by a      *)
(* program that takes every report of success back.  A peer that cannot is *)
(* Gone.                                                                   *)

Idle == {"off", "listen", "delSign", "delSeal", "delFile"}

\* d has not reported success, and will not before its next program.
Gone(d) ==
    /\ report[d] \notin Success
    /\ \/ tool[d].pc \in Idle
       \/ tool[d].pc \in {"create", "key"} /\ tool[d].eof /\ wire[d] = <<>>

Knows(d, k) == k = store[Peer(d)].sign \/ Gone(Peer(d))

Known(d) == {m \in MessageTo(d) : m.pub # None => Knows(d, m.pub)}

KnowledgeInv(d) ==
    /\ tool[d].pc = "key" => tool[d].own = store[d].sign
    /\ tool[d].pc \in {"proof", "seal", "write"} => Knows(d, tool[d].peer)
    /\ wire[d] \in Seq(Known(d))
    /\ tool[d].pc \in Idle => wire[d] = <<>>
    /\ report[d] \in Success =>
          tool[d].pc \in {"off", "write"} /\ store[d].seal # None /\ Knows(d, store[d].seal)
    /\ report[d] = "complete" => tool[d].pc = "off" /\ Trusts(d)

\* d is in a handshake and its peer's end is open.
Linked(d) == tool[d].pc \in Handshaking /\ ~tool[d].eof

\* How far the two ends of one connection may be, and what is between them.
Phase ==
    LET c == tool["client"].pc
        s == tool["server"].pc
    IN  \/ c = "create" /\ s \in {"create", "key"} /\ wire["server"] = <<>> /\ wire["client"] = <<>>
        \/ c = "key" /\ s \in {"create", "key"} /\ Len(wire["server"]) = 1 /\ wire["client"] = <<>>
        \/ c = "key" /\ s = "proof" /\ wire["server"] = <<>> /\ Len(wire["client"]) = 1
        \/ c = "proof" /\ s = "proof" /\ wire["client"] = <<>>

LinkInv ==
    /\ Linked("server") => Linked("client") /\ Phase
    /\ Linked("client") /\ tool["client"].pc \in {"create", "key"} => Linked("server")

PairInv == KeyInv /\ LinkInv /\ \A d \in Gateway : KnowledgeInv(d)

LEMMA PairInit == Init => PairInv
BY KeyInit DEF Init, PairInv, LinkInv, Linked, Handshaking, KnowledgeInv, Idle, ToolAt, Trusts, Gateway,
   Success

LEMMA Peers == \A d \in Gateway : Peer(d) \in Gateway /\ Peer(d) # d /\ Peer(Peer(d)) = d
                                  /\ \A g \in Gateway : g = d \/ g = Peer(d)
BY DEF Gateway, Peer

\* What d knows it goes on knowing, unless its peer changes its key or starts anew.
Kept(d) ==
    /\ Gone(Peer(d)) => Gone(Peer(d))'
    /\ store'[Peer(d)].sign = store[Peer(d)].sign \/ store[Peer(d)].sign = None \/ Gone(Peer(d))

LEMMA KnowledgeKept ==
    ASSUME NEW d \in Gateway, Kept(d)
    PROVE  /\ \A k \in SignKey : Knows(d, k) => Knows(d, k)'
           /\ Known(d) \subseteq Known(d)'
           /\ wire[d] \in Seq(Known(d)) => wire[d] \in Seq(Known(d)')
<1>1. \A k \in SignKey : Knows(d, k) => Knows(d, k)'
  BY StoreAssumption DEF Kept, Knows
<1>2. Known(d) \subseteq Known(d)'
  BY <1>1 DEF Known, MessageTo
<1> QED
  BY <1>1, <1>2

\* d sees nothing of a step but messages and the end of the connection.
LEMMA OnlyMessages ==
    ASSUME PairInv, NEW d \in Gateway, Kept(d),
           store'[d] = store[d], report'[d] \in {report[d], "none"},
           tool'[d].pc = tool[d].pc, tool'[d].own = tool[d].own, tool'[d].peer = tool[d].peer,
           wire'[d] \in Seq(Known(d)'), tool[d].pc \in Idle => wire'[d] = wire[d]
    PROVE  KnowledgeInv(d)'
<1>1. KnowledgeInv(d) /\ DeviceInv(d) /\ store \in [Gateway -> Store]
  BY DEF PairInv, KeyInv
<1>2. tool[d].pc \in {"proof", "seal", "write"} => Knows(d, tool[d].peer)'
  <2>1. tool[d].pc \in {"proof", "seal", "write"} => tool[d].peer \in SignKey
    BY <1>1, KeyTypes, Peers DEF DeviceInv
  <2> QED
    BY <1>1, <2>1, KnowledgeKept DEF KnowledgeInv, Knows
<1>3. report[d] \in Success => Knows(d, store[d].seal)'
  <2>1. report[d] \in Success => store[d].seal \in SignKey
    BY <1>1 DEF KnowledgeInv, Store
  <2> QED
    BY <1>1, <2>1, KnowledgeKept DEF KnowledgeInv, Knows
<1> QED
  BY <1>1, <1>2, <1>3 DEF KnowledgeInv, Trusts, Idle, Success

\* Who sends is in a handshake with a peer that still is.
LEMMA SenderLinked ==
    ASSUME PairInv, NEW d \in Gateway, ~tool[d].eof,
           tool[d].pc \in {"create", "key"} \/ (d = "server" /\ tool[d].pc = "proof")
    PROVE  Linked(Peer(d)) /\ ~Gone(Peer(d)) /\ tool[Peer(d)].pc \notin Idle
<1>1. Linked(Peer(d))
  BY DEF PairInv, LinkInv, Linked, Handshaking, Gateway, Peer
<1> QED
  BY <1>1 DEF Linked, Gone, Handshaking, Idle

\* The other side of a step of d that may send a message.
LEMMA PeerSees ==
    ASSUME PairInv, NEW d \in Gateway, Kept(Peer(d)),
           tool'[Peer(d)] = tool[Peer(d)], store'[Peer(d)] = store[Peer(d)], report'[Peer(d)] = report[Peer(d)],
           \/ wire'[Peer(d)] = wire[Peer(d)]
           \/ /\ ~Gone(Peer(d)) /\ tool[Peer(d)].pc \notin Idle
              /\ \E m \in Known(Peer(d))' : wire'[Peer(d)] = Append(wire[Peer(d)], m)
    PROVE  Kept(d) /\ KnowledgeInv(Peer(d))'
<1> DEFINE p == Peer(d)
<1>1. p \in Gateway /\ p # d
  BY Peers
<1> HIDE DEF p
<1>2. wire[p] \in Seq(Known(p)) /\ wire[p] \in Seq(Known(p)')
  BY <1>1, KnowledgeKept DEF PairInv, KnowledgeInv, p
<1>3. wire'[p] \in Seq(Known(p)')
  <2>1. ASSUME NEW m \in Known(p)' PROVE Append(wire[p], m) \in Seq(Known(p)')
    BY <1>2, <2>1
  <2> QED
    BY <1>2, <2>1 DEF p
<1>4. Kept(d)
  BY DEF Kept, Gone
<1>5. tool[p].pc \in Idle => wire'[p] = wire[p]
  BY DEF p
<1>6. KnowledgeInv(p)'
  BY <1>1, <1>3, <1>5, OnlyMessages DEF p
<1> QED
  BY <1>4, <1>6 DEF p

\* The end of a program closes the connection, and nobody is linked any more.
LEMMA EndedLinks ==
    ASSUME PairInv, NEW d \in Gateway, tool[d].pc # "off", Ended(d)
    PROVE  /\ tool'[d].pc = "off" /\ wire'[d] = <<>> /\ wire'[Peer(d)] = wire[Peer(d)]
           /\ tool'[Peer(d)].pc = tool[Peer(d)].pc /\ tool'[Peer(d)].own = tool[Peer(d)].own
           /\ tool'[Peer(d)].peer = tool[Peer(d)].peer
           /\ tool[Peer(d)].eof => tool'[Peer(d)].eof
           /\ LinkInv'
<1> DEFINE p == Peer(d)
           b == tool[p].eof \/ {tool[d].pc, tool[p].pc} \subseteq Handshaking
<1>1. p \in Gateway /\ p # d /\ {"client", "server"} = {d, p}
  BY DEF Gateway, Peer
<1>2. /\ tool' = [tool EXCEPT ![d] = ToolAt("off"), ![p].eof = b] /\ tool \in [Gateway -> Tool]
      /\ wire' = [wire EXCEPT ![d] = <<>>] /\ wire = [g \in Gateway |-> wire[g]]
  BY DEF Ended, PairInv, KeyInv
<1>3. b = (tool[p].eof \/ (tool[d].pc \in Handshaking /\ tool[p].pc \in Handshaking))
  OBVIOUS
<1> HIDE DEF p, b
<1>4. tool'[d] = ToolAt("off") /\ tool'[p] = [tool[p] EXCEPT !.eof = b] /\ wire'[d] = <<>> /\ wire'[p] = wire[p]
  BY <1>1, <1>2
<1>5. tool[p] \in Tool
  BY <1>1, <1>2
<1>6. /\ tool'[d].pc = "off"
      /\ tool'[p].pc = tool[p].pc /\ tool'[p].own = tool[p].own /\ tool'[p].peer = tool[p].peer
      /\ tool'[p].eof = b
  BY <1>4, <1>5 DEF ToolAt, Tool
<1>7. ~Linked(d)' /\ (Linked(p)' => Linked(p) /\ tool[d].pc \notin Handshaking)
  BY <1>3, <1>6 DEF Linked, Handshaking
<1>8. LinkInv'
  <2>1. CASE d = "client"
    <3>1. p = "server" /\ ~Linked("server")'
      BY <1>1, <1>7, <2>1 DEF PairInv, LinkInv, Linked
    <3> QED
      BY <1>6, <2>1, <3>1 DEF LinkInv
  <2>2. CASE d = "server"
    <3>1. p = "client" /\ ~(Linked("client")' /\ tool["client"].pc \in {"create", "key"})
      BY <1>1, <1>7, <2>2 DEF PairInv, LinkInv, Linked
    <3> QED
      BY <1>6, <1>7, <2>2, <3>1 DEF LinkInv
  <2> QED
    BY <2>1, <2>2 DEF Gateway
<1> QED
  BY <1>3, <1>4, <1>6, <1>8 DEF p

\* What the end of a program of d leaves true.
LEMMA EndedPair ==
    ASSUME PairInv, KeyInv', NEW d \in Gateway, tool[d].pc # "off", Ended(d),
           store'[Peer(d)] = store[Peer(d)], store'[d].sign = store[d].sign,
           report'[Peer(d)] = report[Peer(d)],
           \/ report'[d] = report[d]
           \/ /\ tool[d].pc = "write" /\ report'[d] = "complete"
              /\ Trusts(d)' /\ store'[d].seal = tool[d].peer,
           store'[d].seal = store[d].seal
    PROVE  PairInv'
<1> DEFINE p == Peer(d)
<1>1. p \in Gateway /\ p # d /\ Peer(p) = d /\ \A g \in Gateway : g = d \/ g = p
  BY Peers
<1>2. /\ KnowledgeInv(d) /\ KnowledgeInv(p) /\ report[d] # "complete" /\ DeviceInv(d)
      /\ report[d] = "associated" => tool[d].pc = "write"
  BY <1>1 DEF PairInv, KnowledgeInv, KeyInv, DeviceInv, Success
<1>3. Kept(p)
  BY <1>1, <1>2, EndedLinks DEF Kept, Gone, Idle, Success
<1>4. Kept(d)
  BY <1>1, EndedLinks DEF Kept, Gone, Idle
<1>5. KnowledgeInv(p)'
  <2>1. wire[p] \in Seq(Known(p)')
    BY <1>1, <1>2, <1>3, KnowledgeKept DEF KnowledgeInv
  <2> QED
    BY <1>1, <1>3, <2>1, EndedLinks, OnlyMessages
<1>6. KnowledgeInv(d)'
  <2>1. tool'[d].pc = "off" /\ wire'[d] = <<>> /\ <<>> \in Seq(Known(d)')
    BY EndedLinks
  <2>2. report'[d] \in Success => store'[d].seal # None /\ Knows(d, store[d].seal)'
    <3>1. tool[d].pc = "write" =>
              /\ tool[d].peer \in SignKey /\ Knows(d, tool[d].peer) /\ tool[d].peer # None
              /\ store'[d].seal = tool[d].peer
      BY <1>1, <1>2, KeyTypes, StoreAssumption DEF KnowledgeInv, DeviceInv
    <3>2. report'[d] \in Success => tool[d].pc = "write"
      BY <1>2 DEF Success
    <3> QED
      BY <1>2, <1>4, <3>1, <3>2, KnowledgeKept DEF Knows
  <2>3. report'[d] = "complete" => Trusts(d)'
    BY <1>2
  <2> QED
    BY <2>1, <2>2, <2>3 DEF KnowledgeInv
<1> QED
  BY <1>1, <1>5, <1>6, EndedLinks DEF PairInv

LEMMA EndingSteps ==
    ASSUME PairInv, KeyInv', NEW d \in Gateway, BreakOff(d) \/ Write(d) \/ CrashTool(d)
    PROVE  PairInv'
<1>1. /\ store \in [Gateway -> Store] /\ report = [g \in Gateway |-> report[g]]
      /\ tool[d].pc = "write" => store[d].seal = tool[d].peer /\ tool[d].peer \in SignKey
      /\ Peer(d) \in Gateway /\ Peer(d) # d
  BY KeyTypes, Peers DEF PairInv, KeyInv, DeviceInv
<1>2. CASE BreakOff(d)
  BY <1>1, <1>2, EndedPair DEF BreakOff
<1>3. CASE Write(d)
  <2>1. /\ tool[d].pc = "write" /\ Ended(d) /\ report' = [report EXCEPT ![d] = "complete"]
        /\ store' = [store EXCEPT ![d] = [store[d] EXCEPT !.file = tool[d].peer]]
    BY <1>1, <1>3 DEF Write
  <2>2. /\ store'[d].sign = store[d].sign /\ store'[d].seal = tool[d].peer
        /\ store'[d].file = tool[d].peer /\ store'[Peer(d)] = store[Peer(d)]
    BY <1>1, <2>1 DEF Store
  <2>3. Trusts(d)'
    BY <1>1, <2>1, <2>2, StoreAssumption DEF Trusts
  <2> QED
    BY <1>1, <2>1, <2>2, <2>3, EndedPair
<1>4. CASE CrashTool(d)
  <2>1. /\ Ended(d) /\ tool[d].pc # "off" /\ report' = report
        /\ \/ store' = store
           \/ \E x : store' = [store EXCEPT ![d] = [store[d] EXCEPT !.file = x]]
    BY <1>1, <1>4 DEF CrashTool
  <2>2. /\ store'[d].sign = store[d].sign /\ store'[d].seal = store[d].seal
        /\ store'[Peer(d)] = store[Peer(d)]
    BY <1>1, <2>1 DEF Store
  <2> QED
    BY <1>1, <2>1, <2>2, EndedPair
<1> QED
  BY <1>2, <1>3, <1>4

LEMMA ListenPair ==
    ASSUME PairInv, KeyInv', Listen
    PROVE  PairInv'
<1>1. /\ tool' = [tool EXCEPT !["server"] = ToolAt("listen")] /\ tool["server"].pc = "off"
      /\ report' = [report EXCEPT !["server"] = "none"] /\ store' = store /\ wire' = wire
      /\ tool \in [Gateway -> Tool] /\ report = [g \in Gateway |-> report[g]]
      /\ KnowledgeInv("server") /\ KnowledgeInv("client")
  BY DEF Listen, PairInv, KeyInv, Gateway
<1>2. /\ tool'["server"].pc = "listen" /\ report'["server"] = "none"
      /\ tool'["client"] = tool["client"] /\ report'["client"] = report["client"]
  BY <1>1 DEF Gateway, ToolAt
<1>3. Kept("client") /\ Kept("server") /\ Peer("server") = "client" /\ Peer("client") = "server"
  BY <1>1, <1>2 DEF Kept, Gone, Idle, Peer, Success
<1>4. KnowledgeInv("client")'
  BY <1>1, <1>2, <1>3, KnowledgeKept, OnlyMessages DEF Gateway, KnowledgeInv
<1>5. KnowledgeInv("server")'
  <2>1. wire'["server"] = <<>> /\ <<>> \in Seq(Known("server")')
    BY <1>1 DEF KnowledgeInv, Idle
  <2> QED
    BY <1>2, <2>1 DEF KnowledgeInv, Success
<1>6. LinkInv'
  BY <1>1, <1>2 DEF PairInv, LinkInv, Linked, Handshaking
<1> QED
  BY <1>4, <1>5, <1>6 DEF PairInv, Gateway

LEMMA ConnectPair ==
    ASSUME PairInv, KeyInv', Connect
    PROVE  PairInv'
<1> DEFINE busy == tool["server"].pc # "listen"
           t == [ToolAt("create") EXCEPT !.eof = busy]
<1>1. /\ t.pc = "create" /\ t.eof = busy /\ ToolAt("create").pc = "create" /\ ToolAt("create").eof = FALSE
  BY DEF ToolAt
<1>2. /\ tool'["client"] = t /\ tool["client"].pc = "off"
      /\ tool'["server"] = IF busy THEN tool["server"] ELSE ToolAt("create")
      /\ report' = [report EXCEPT !["client"] = "none"] /\ store' = store /\ wire' = wire
      /\ report = [g \in Gateway |-> report[g]]
      /\ KnowledgeInv("server") /\ KnowledgeInv("client")
  BY DEF Connect, PairInv, KeyInv, Gateway
<1> HIDE DEF t
<1>3. wire["client"] = <<>> /\ (~busy => wire["server"] = <<>> /\ report["server"] \notin Success)
  BY <1>2 DEF KnowledgeInv, Idle
<1>4. report'["client"] = "none" /\ report'["server"] = report["server"]
  BY <1>2 DEF Gateway
<1>5. KnowledgeInv("client")'
  <2>1. <<>> \in Seq(Known("client")')
    OBVIOUS
  <2> QED
    BY <1>1, <1>2, <1>3, <1>4, <2>1 DEF KnowledgeInv, Idle, Success
<1>6. CASE busy
  <2>1. Kept("server")
    BY <1>1, <1>2, <1>3, <1>4, <1>6 DEF Kept, Gone, Idle, Peer, Success
  <2>2. KnowledgeInv("server")'
    BY <1>2, <1>4, <1>6, <2>1, KnowledgeKept, OnlyMessages DEF Gateway, KnowledgeInv
  <2>3. LinkInv'
    BY <1>1, <1>2, <1>6 DEF PairInv, LinkInv, Linked, Handshaking
  <2> QED
    BY <1>5, <2>2, <2>3 DEF PairInv, Gateway
<1>7. CASE ~busy
  <2>1. <<>> \in Seq(Known("server")')
    OBVIOUS
  <2>2. KnowledgeInv("server")'
    BY <1>1, <1>2, <1>3, <1>4, <1>7, <2>1 DEF KnowledgeInv, Idle
  <2>3. LinkInv'
    BY <1>1, <1>2, <1>3, <1>7 DEF LinkInv, Linked, Handshaking, Phase
  <2> QED
    BY <1>5, <2>2, <2>3 DEF PairInv, Gateway
<1> QED
  BY <1>6, <1>7

\* auth_delete_keys starts, or deletes one thing.
LEMMA DeletePair ==
    ASSUME PairInv, KeyInv', NEW d \in Gateway, StartDelete(d) \/ DeleteKeys(d)
    PROVE  PairInv'
<1> DEFINE p == Peer(d)
<1>1. p \in Gateway /\ p # d /\ Peer(p) = d /\ \A g \in Gateway : g = d \/ g = p
  BY Peers
<1>2. KnowledgeInv(d) /\ KnowledgeInv(p) /\ tool \in [Gateway -> Tool] /\ store \in [Gateway -> Store]
      /\ report = [g \in Gateway |-> report[g]]
  BY <1>1 DEF PairInv, KeyInv
<1> HIDE DEF p
<1>3. /\ tool[d].pc \in Idle /\ tool'[d].pc \in Idle /\ tool'[p] = tool[p] /\ store'[p] = store[p]
      /\ wire' = wire /\ report'[d] \notin Success /\ report'[p] \in {report[p], "none"}
      /\ tool[d].pc = "off" => store'[d].sign = store[d].sign
  <2>1. CASE StartDelete(d)
    <3>1. tool' = [tool EXCEPT ![d] = ToolAt("delSign")] /\ report' = [g \in Gateway |-> "none"]
          /\ store' = store /\ wire' = wire /\ tool[d].pc = "off" /\ ToolAt("delSign").pc = "delSign"
      BY <2>1 DEF StartDelete, ToolAt
    <3>2. tool'[d] = ToolAt("delSign") /\ tool'[p] = tool[p] /\ report'[d] = "none" /\ report'[p] = "none"
      BY <1>1, <1>2, <3>1
    <3> QED
      BY <3>1, <3>2 DEF Idle, Success
  <2>2. CASE DeleteKeys(d)
    <3>1. PICK at \in {"delSign", "delSeal", "delFile"}, name \in {"sign", "seal", "file"},
               next \in {"delSeal", "delFile", "off"} : Delete(d, at, name, next)
      BY <2>2 DEF DeleteKeys
    <3>2. PICK s, left :
          /\ tool[d].pc = at /\ wire' = wire
          /\ tool' = [tool EXCEPT ![d] = [ToolAt(next) EXCEPT !.left = left]]
          /\ store' = [store EXCEPT ![d] = s] /\ [ToolAt(next) EXCEPT !.left = left].pc = next
          /\ report' = [report EXCEPT ![d] = IF next = "off" THEN "deleted" ELSE @]
      BY <3>1 DEF Delete, ToolAt
    <3>3. tool'[d].pc = next /\ tool'[p] = tool[p] /\ store'[p] = store[p] /\ report'[p] = report[p]
          /\ report'[d] \in {"deleted", report[d]}
      BY <1>1, <1>2, <3>2
    <3> QED
      BY <1>2, <3>2, <3>3 DEF Idle, KnowledgeInv, Success
  <2> QED
    BY <2>1, <2>2
<1>4. Kept(p)
  <2>1. Gone(d)'
    BY <1>3 DEF Gone
  <2>2. tool[d].pc # "off" => report[d] \notin Success
    BY <1>2, <1>3 DEF KnowledgeInv, Idle
  <2>3. store'[d].sign = store[d].sign \/ Gone(d)
    BY <1>3, <2>2 DEF Gone
  <2> QED
    BY <1>1, <2>1, <2>3 DEF Kept
<1>5. KnowledgeInv(p)'
  <2>1. wire'[p] \in Seq(Known(p)')
    BY <1>1, <1>2, <1>3, <1>4, KnowledgeKept DEF KnowledgeInv
  <2> QED
    BY <1>1, <1>3, <1>4, <2>1, OnlyMessages
<1>6. KnowledgeInv(d)'
  <2>1. wire'[d] = <<>> /\ <<>> \in Seq(Known(d)')
    BY <1>2, <1>3 DEF KnowledgeInv
  <2> QED
    BY <1>3, <2>1 DEF KnowledgeInv, Idle, Success
<1>7. LinkInv'
  <2>1. {d, p} = {"client", "server"} /\ ~Linked(d) /\ ~Linked(d)' /\ (Linked(p)' <=> Linked(p))
    BY <1>1, <1>3 DEF Gateway, Linked, Handshaking, Idle
  <2>2. tool'[p].pc = tool[p].pc
    BY <1>3
  <2> QED
    BY <1>1, <2>1, <2>2 DEF PairInv, LinkInv, Gateway
<1> QED
  BY <1>1, <1>5, <1>6, <1>7 DEF PairInv

LEMMA SealPair ==
    ASSUME PairInv, KeyInv', NEW d \in Gateway, Seal(d)
    PROVE  PairInv'
<1> DEFINE p == Peer(d)
<1>1. p \in Gateway /\ p # d /\ Peer(p) = d /\ \A g \in Gateway : g = d \/ g = p
  BY Peers
<1>2. KnowledgeInv(d) /\ KnowledgeInv(p) /\ tool \in [Gateway -> Tool] /\ store \in [Gateway -> Store]
      /\ tool[d].pc = "seal" /\ DeviceInv(d)
  BY <1>1 DEF PairInv, KeyInv, Seal
<1> HIDE DEF p
<1>3. CASE CanSeal(store[d])
  <2>1. /\ store' = [store EXCEPT ![d] = LinkWithSeal(store[d], tool[d].peer)]
        /\ tool' = [tool EXCEPT ![d] = [tool[d] EXCEPT !.pc = "write"]]
        /\ wire' = wire /\ report' = [report EXCEPT ![d] = "associated"]
    BY <1>2, <1>3 DEF Seal
  <2>2. /\ tool'[d].pc = "write" /\ tool'[d].peer = tool[d].peer /\ tool'[p] = tool[p]
        /\ store'[p] = store[p] /\ store'[d].sign = store[d].sign /\ store'[d].seal = tool[d].peer
        /\ report'[p] = report[p] /\ report'[d] = "associated"
    BY <1>1, <1>2, <2>1 DEF LinkWithSeal, Store, Tool, PairInv, KeyInv
  <2>3. Kept(p) /\ Kept(d) /\ KnowledgeInv(p)'
    <3>1. Kept(p)
      BY <1>1, <1>2, <2>2 DEF Kept, Gone, Idle
    <3> QED
      BY <1>1, <2>1, <2>2, <3>1, PeerSees DEF p
  <2>4. KnowledgeInv(d)'
    <3>1. tool[d].peer \in SignKey /\ Knows(d, tool[d].peer) /\ tool[d].peer # None
      BY <1>1, <1>2, KeyTypes, StoreAssumption DEF KnowledgeInv, DeviceInv, p
    <3>2. Knows(d, tool[d].peer)'
      BY <2>2, <2>3, <3>1, KnowledgeKept DEF Knows
    <3>3. wire'[d] \in Seq(Known(d)')
      BY <1>2, <2>1, <2>3, KnowledgeKept DEF KnowledgeInv
    <3> QED
      BY <2>1, <2>2, <3>1, <3>2, <3>3 DEF KnowledgeInv, Idle
  <2>5. LinkInv'
    <3>1. {d, p} = {"client", "server"} /\ ~Linked(d) /\ ~Linked(d)' /\ (Linked(p)' <=> Linked(p))
      BY <1>1, <1>2, <2>2 DEF Gateway, Linked, Handshaking
    <3>2. tool'[p].pc = tool[p].pc
      BY <2>2
    <3> QED
      BY <1>1, <3>1, <3>2 DEF PairInv, LinkInv, Gateway
  <2> QED
    BY <1>1, <2>3, <2>4, <2>5 DEF PairInv
<1>4. CASE ~CanSeal(store[d])
  BY <1>1, <1>2, <1>4, EndedPair DEF Seal
<1> QED
  BY <1>3, <1>4

LEMMA CreatePair ==
    ASSUME PairInv, KeyInv', NEW d \in Gateway, NEW fresh \in KeysOf[d], Create(d, fresh)
    PROVE  PairInv'
<1> DEFINE p == Peer(d)
           s == CreateKey(store[d], fresh)
           m == [pub |-> s.sign, signer |-> s.sign]
<1>1. p \in Gateway /\ p # d /\ Peer(p) = d /\ \A g \in Gateway : g = d \/ g = p
  BY Peers
<1>2. KnowledgeInv(d) /\ KnowledgeInv(p) /\ tool \in [Gateway -> Tool] /\ store \in [Gateway -> Store]
      /\ wire = [g \in Gateway |-> wire[g]] /\ tool[d].pc = "create"
  BY <1>1 DEF PairInv, KeyInv, Create
<1>3. /\ report' = report /\ store' = [store EXCEPT ![d] = s]
      /\ tool' = [tool EXCEPT ![d] = [tool[d] EXCEPT !.pc = "key", !.own = s.sign]]
      /\ wire' = IF d = "client" /\ ~tool[d].eof THEN [wire EXCEPT ![p] = Append(wire[p], m)] ELSE wire
  BY <1>2 DEF Create
<1>4. store[d].sign = s.sign \/ store[d].sign = None
  BY DEF CreateKey
<1>5. m.pub = s.sign /\ m.signer = s.sign
  OBVIOUS
<1> HIDE DEF p, s
<1>6. /\ tool'[d].pc = "key" /\ tool'[d].own = s.sign /\ tool'[d].eof = tool[d].eof /\ tool'[p] = tool[p]
      /\ store'[d] = s /\ store'[p] = store[p] /\ wire'[d] = wire[d]
      /\ wire'[p] = IF d = "client" /\ ~tool[d].eof THEN Append(wire[p], m) ELSE wire[p]
  BY <1>1, <1>2, <1>3 DEF Tool
<1>7. m \in Known(p)'
  <2>1. s.sign \in KeysOf[d]
    BY <1>6 DEF KeyInv, DeviceInv
  <2>2. m \in MessageTo(p)
    BY <1>1, <2>1, KeyTypes DEF MessageTo
  <2> QED
    BY <1>1, <1>5, <1>6, <2>2 DEF Known, Knows, MessageTo
<1> HIDE DEF m
<1>8. Kept(p)
  BY <1>1, <1>2, <1>3, <1>4, <1>6 DEF Kept, Gone, Idle
<1>9. Kept(d) /\ KnowledgeInv(p)'
  <2>1. ~tool[d].eof => ~Gone(p) /\ tool[p].pc \notin Idle
    BY <1>2, SenderLinked DEF p
  <2>2. \/ wire'[p] = wire[p]
        \/ ~Gone(p) /\ tool[p].pc \notin Idle /\ \E x \in Known(p)' : wire'[p] = Append(wire[p], x)
    BY <1>6, <1>7, <2>1
  <2>3. report'[p] = report[p]
    BY <1>3
  <2> QED
    BY <1>6, <1>8, <2>2, <2>3, PeerSees DEF p
<1>10. KnowledgeInv(d)'
  <2>1. wire'[d] \in Seq(Known(d)')
    BY <1>2, <1>6, <1>9, KnowledgeKept DEF KnowledgeInv
  <2> QED
    BY <1>2, <1>3, <1>6, <2>1 DEF KnowledgeInv, Idle
<1>11. LinkInv'
  <2>1. CASE d = "client"
    <3>1. p = "server" /\ wire[p] \in Seq(Known(p))
      BY <1>2, <2>1 DEF p, Peer, KnowledgeInv
    <3>2. wire[p] = <<>> => Len(Append(wire[p], m)) = 1
      OBVIOUS
    <3> QED
      BY <1>2, <1>6, <2>1, <3>1, <3>2 DEF PairInv, LinkInv, Linked, Handshaking, Phase
  <2>2. CASE d = "server"
    <3>1. p = "client"
      BY <2>2 DEF p, Peer
    <3> QED
      BY <1>2, <1>6, <2>2, <3>1 DEF PairInv, LinkInv, Linked, Handshaking, Phase
  <2> QED
    BY <2>1, <2>2 DEF Gateway
<1> QED
  BY <1>1, <1>9, <1>10, <1>11 DEF PairInv

\* A message taken, and perhaps one sent, in a step that leaves store and report.
LEMMA TakenPair ==
    ASSUME PairInv, NEW d \in Gateway, Received(d), store' = store, report' = report,
           tool'[d].pc \in {"proof", "seal"}, tool'[Peer(d)] = tool[Peer(d)],
           wire'[d] = Tail(wire[d]), Knows(d, tool'[d].peer), tool'[d].peer \in SignKey,
           \/ wire'[Peer(d)] = wire[Peer(d)]
           \/ /\ ~Gone(Peer(d)) /\ tool[Peer(d)].pc \notin Idle
              /\ \E m \in Known(Peer(d))' : wire'[Peer(d)] = Append(wire[Peer(d)], m)
    PROVE  KnowledgeInv(d)' /\ KnowledgeInv(Peer(d))'
<1>1. KnowledgeInv(d) /\ tool[d].pc \in {"key", "proof"} /\ wire[d] # <<>>
  BY DEF PairInv, Received
<1>2. Kept(Peer(d))
  BY <1>1, Peers DEF Kept, Gone, Idle
<1>3. Kept(d) /\ KnowledgeInv(Peer(d))'
  BY <1>2, PeerSees
<1>4. Knows(d, tool[d].peer)'
  BY <1>3, KnowledgeKept DEF Knows
<1>5. wire'[d] \in Seq(Known(d)')
  <2>1. wire[d] \in Seq(Known(d)')
    BY <1>1, <1>3, KnowledgeKept DEF KnowledgeInv
  <2> QED
    BY <1>1, <2>1
<1> QED
  BY <1>1, <1>3, <1>4, <1>5 DEF KnowledgeInv, Idle

LEMMA ReceiveKeyPair ==
    ASSUME PairInv, KeyInv', NEW d \in Gateway, ReceiveKey(d)
    PROVE  PairInv'
<1> DEFINE p == Peer(d)
           m == IF d = "server" THEN [pub |-> tool[d].own, signer |-> tool[d].own]
                                ELSE [pub |-> None, signer |-> store[d].sign]
<1>1. p \in Gateway /\ p # d /\ Peer(p) = d /\ \A g \in Gateway : g = d \/ g = p
  BY Peers
<1>2. /\ KnowledgeInv(d) /\ tool \in [Gateway -> Tool] /\ wire = [g \in Gateway |-> wire[g]]
      /\ tool[d].pc = "key" /\ Received(d) /\ store' = store /\ report' = report
      /\ tool' = [tool EXCEPT ![d] = [tool[d] EXCEPT !.pc = "proof", !.peer = Head(wire[d]).pub]]
      /\ wire' = Passed(d, m) /\ wire[d] # <<>> /\ wire[d] \in Seq(Known(d))
  BY DEF PairInv, KeyInv, ReceiveKey, KnowledgeInv, Received
<1>3. /\ Head(wire[d]).pub \in KeysOf[p] /\ Head(wire[d]).pub \in SignKey
      /\ d # "server" => store[d].sign \in KeysOf[d]
  BY <1>1, <1>2, KeyTypes, ReceivedFacts DEF Signer, MustSign, Gateway, PairInv
<1>4. Knows(d, Head(wire[d]).pub)
  <2>1. Head(wire[d]) \in Known(d)
    BY <1>2
  <2> QED
    BY <1>3, <2>1, StoreAssumption DEF Known
<1>5. m \in Known(p)'
  <2>1. CASE d = "server"
    <3>1. m = [pub |-> tool[d].own, signer |-> tool[d].own]
          /\ tool[d].own \in KeysOf[d] /\ tool[d].own = store[d].sign
      BY <1>2, <2>1 DEF KnowledgeInv, PairInv, KeyInv, DeviceInv
    <3>2. m \in MessageTo(p) /\ m.pub = store'[d].sign
      BY <1>1, <1>2, <3>1, KeyTypes DEF MessageTo
    <3> QED
      BY <1>1, <3>2 DEF Known, Knows, MessageTo
  <2>2. CASE d # "server"
    <3>1. m = [pub |-> None, signer |-> store[d].sign]
      BY <2>2
    <3>2. m \in MessageTo(p) /\ m.pub = None
      BY <1>1, <1>3, <2>2, <3>1 DEF MessageTo
    <3> QED
      BY <3>2 DEF Known, MessageTo
  <2> QED
    BY <2>1, <2>2
<1> HIDE DEF p, m
<1>6. /\ tool'[d].pc = "proof" /\ tool'[d].peer = Head(wire[d]).pub /\ tool'[d].eof = tool[d].eof
      /\ tool'[p] = tool[p] /\ wire'[d] = Tail(wire[d])
      /\ wire'[p] = IF tool[d].eof THEN wire[p] ELSE Append(wire[p], m)
  BY <1>1, <1>2 DEF Tool, Passed, p
<1>7. KnowledgeInv(d)' /\ KnowledgeInv(p)'
  <2>1. ~tool[d].eof => ~Gone(p) /\ tool[p].pc \notin Idle
    BY <1>2, SenderLinked DEF p
  <2>2. \/ wire'[p] = wire[p]
        \/ ~Gone(p) /\ tool[p].pc \notin Idle /\ \E x \in Known(p)' : wire'[p] = Append(wire[p], x)
    BY <1>5, <1>6, <2>1
  <2> QED
    BY <1>2, <1>3, <1>4, <1>6, <2>2, TakenPair DEF p
<1>8. wire[p] = <<>> => Len(Append(wire[p], m)) = 1
  OBVIOUS
<1>9. Len(wire[d]) = 1 => Tail(wire[d]) = <<>>
  <2>1. Tail(wire[d]) \in Seq(Known(d)) /\ Len(Tail(wire[d])) = Len(wire[d]) - 1
    BY <1>2, HeadTailProperties
  <2>2. ASSUME NEW S, NEW q \in Seq(S), Len(q) = 0 PROVE q = <<>>
    BY <2>2, EmptySeq
  <2>3. Len(wire[d]) = 1 => Len(Tail(wire[d])) = 0
    BY <2>1
  <2> QED
    BY <2>1, <2>2, <2>3
<1>10. LinkInv'
  <2>1. CASE d = "client"
    <3>1. p = "server"
      BY <2>1 DEF p, Peer
    <3> QED
      BY <1>2, <1>6, <1>8, <1>9, <2>1, <3>1 DEF PairInv, LinkInv, Linked, Handshaking, Phase
  <2>2. CASE d = "server"
    <3>1. p = "client"
      BY <2>2 DEF p, Peer
    <3>2. tool'["client"] = tool["client"]
      BY <1>6, <3>1
    <3> QED
      BY <1>2, <1>6, <1>8, <1>9, <2>2, <3>1, <3>2 DEF PairInv, LinkInv, Linked, Handshaking, Phase
  <2> QED
    BY <2>1, <2>2 DEF Gateway
<1> QED
  BY <1>1, <1>7, <1>10 DEF PairInv

LEMMA ReceiveProofPair ==
    ASSUME PairInv, KeyInv', NEW d \in Gateway, ReceiveProof(d)
    PROVE  PairInv'
<1> DEFINE p == Peer(d)
           m == [pub |-> None, signer |-> store[d].sign]
<1>1. p \in Gateway /\ p # d /\ Peer(p) = d /\ \A g \in Gateway : g = d \/ g = p
  BY Peers
<1>2. /\ KnowledgeInv(d) /\ tool \in [Gateway -> Tool] /\ wire = [g \in Gateway |-> wire[g]]
      /\ tool[d].pc = "proof" /\ Received(d) /\ store' = store /\ report' = report
      /\ tool' = [tool EXCEPT ![d] = [tool[d] EXCEPT !.pc = "seal"]]
      /\ wire' = IF d = "server" THEN Passed(d, m) ELSE [wire EXCEPT ![d] = Tail(@)]
      /\ wire[d] # <<>> /\ Knows(d, tool[d].peer) /\ tool[d].peer \in SignKey
  <2>1. KnowledgeInv(d) /\ DeviceInv(d) /\ tool \in [Gateway -> Tool] /\ wire = [g \in Gateway |-> wire[g]]
    BY DEF PairInv, KeyInv
  <2>2. tool[d].pc = "proof" /\ wire[d] # <<>>
    BY DEF ReceiveProof, Received
  <2>3. Knows(d, tool[d].peer) /\ tool[d].peer \in SignKey
    BY <1>1, <2>1, <2>2, KeyTypes DEF DeviceInv, KnowledgeInv
  <2> QED
    BY <2>1, <2>2, <2>3 DEF ReceiveProof
<1>3. d = "server" => m \in Known(p)'
  <2>1. d = "server" => store[d].sign \in KeysOf[d]
    BY <1>2, ReceivedFacts DEF MustSign, PairInv
  <2>2. d = "server" => m \in MessageTo(p) /\ m.pub = None
    BY <1>1, <2>1 DEF MessageTo
  <2> QED
    BY <2>2 DEF Known, MessageTo
<1> HIDE DEF p, m
<1>4. /\ tool'[d].pc = "seal" /\ tool'[d].peer = tool[d].peer /\ tool'[p] = tool[p]
      /\ wire'[d] = Tail(wire[d])
      /\ wire'[p] = IF d = "server" /\ ~tool[d].eof THEN Append(wire[p], m) ELSE wire[p]
  BY <1>1, <1>2 DEF Tool, Passed, p
<1>5. KnowledgeInv(d)' /\ KnowledgeInv(p)'
  <2>1. d = "server" /\ ~tool[d].eof => ~Gone(p) /\ tool[p].pc \notin Idle
    BY <1>2, SenderLinked DEF p
  <2>2. \/ wire'[p] = wire[p]
        \/ ~Gone(p) /\ tool[p].pc \notin Idle /\ \E x \in Known(p)' : wire'[p] = Append(wire[p], x)
    BY <1>3, <1>4, <2>1
  <2> QED
    BY <1>2, <1>4, <2>2, TakenPair DEF p
<1>6. LinkInv'
  <2>1. CASE d = "client"
    <3>1. p = "server" /\ ~Linked("server")
      BY <1>2, <2>1 DEF p, Peer, PairInv, LinkInv, Phase, Linked
    <3> QED
      BY <1>4, <2>1, <3>1 DEF LinkInv, Linked, Handshaking
  <2>2. CASE d = "server"
    <3>1. p = "client" /\ (Linked("client") => tool["client"].pc \notin {"create", "key"})
      BY <1>2, <2>2 DEF p, Peer, PairInv, LinkInv, Phase, Linked
    <3> QED
      BY <1>4, <2>2, <3>1 DEF LinkInv, Linked, Handshaking
  <2> QED
    BY <2>1, <2>2 DEF Gateway
<1> QED
  BY <1>1, <1>5, <1>6 DEF PairInv

LEMMA PairStep == PairInv /\ [Next]_vars => PairInv'
<1> SUFFICES ASSUME PairInv, [Next]_vars PROVE PairInv'
  OBVIOUS
<1>1. KeyInv'
  BY KeyStep DEF PairInv
<1>2. CASE UNCHANGED vars
  BY <1>1, <1>2 DEF vars, PairInv, LinkInv, Linked, Phase, KnowledgeInv, Trusts, Known, Knows, Gone, MessageTo
<1>3. ASSUME NEW d \in Gateway, NEW fresh \in FreshKeys(d), Create(d, fresh) PROVE PairInv'
  BY <1>1, <1>3, CreatePair DEF FreshKeys
<1> QED
  BY <1>1, <1>2, <1>3, ListenPair, ConnectPair, DeletePair, ReceiveKeyPair, ReceiveProofPair, SealPair,
     EndingSteps DEF Next, Step

\* Two devices that both report success have sealed each other's present key,
\* whatever broke off, crashed or was deleted before: auth_key_exchange seals a key
\* only after both of its receives, and neither end can have given its key up since.
\* One whose program came to its end has written that key to the file.
THEOREM AssociatedTogether == Spec => []BothAssociated
<1>1. PairInv => BothAssociated
  <2> SUFFICES ASSUME PairInv, \A d \in Gateway : report[d] \in Success, NEW d \in Gateway
               PROVE  /\ store[d].seal # None /\ store[d].seal = store[Peer(d)].sign
                      /\ report[d] = "complete" => Trusts(d)
    BY DEF BothAssociated
  <2> QED
    BY Peers DEF PairInv, KnowledgeInv, Knows, Gone
<1> QED
  BY <1>1, PairInit, PairStep, PTL DEF Spec
==============================================================================
