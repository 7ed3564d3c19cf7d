-------------------------- MODULE DeploymentProofs --------------------------
(***************************************************************************)
(* That a session has two ends which agree, whatever the operators do, and *)
(* that repeating the key exchange for a measurement harms nobody: the     *)
(* inductive invariant of Deployment and its consequences.                 *)
(***************************************************************************)
EXTENDS Deployment, SequenceTheorems, TLAPS

----------------------------------------------------------------------------
(* Types                                                                   *)

LEMMA TwoGateways ==
    ASSUME NEW g \in Gateway
    PROVE  /\ Peer(g) \in Gateway /\ Peer(g) # g /\ Peer(Peer(g)) = g
           /\ \A k \in Gateway : k = g \/ k = Peer(g)
<1>1. CASE g = "client"
  BY <1>1 DEF Gateway, Peer
<1>2. CASE g = "server"
  BY <1>2 DEF Gateway, Peer
<1> QED
  BY <1>1, <1>2 DEF Gateway

\* A program that has the connection it should have.
FitProgram ==
    {p \in Program : /\ p.conn = None <=> p.pc \in {"off", "loop"}
                     /\ p.pc = "receive" => p.signer # None
                     /\ p.pc = "transfer" => p.key # None}

LoopTypeOK ==
    /\ gw \in [Gateway -> FitProgram]
    /\ pipe \in [Conn -> [Gateway -> Seq(Message)]]
    /\ closed \in [Conn -> SUBSET Gateway]
    /\ backlog \in Seq(Conn)

LEMMA TypeSplit ==
    TypeOK <=> /\ store \in [Gateway -> Store] /\ LoopTypeOK
               /\ address \in Addresses /\ measure \in SUBSET Gateway
<1>1. gw \in [Gateway -> FitProgram] <=>
        /\ gw \in [Gateway -> Program]
        /\ \A g \in Gateway : /\ gw[g].conn = None <=> gw[g].pc \in {"off", "loop"}
                              /\ gw[g].pc = "receive" => gw[g].signer # None
                              /\ gw[g].pc = "transfer" => gw[g].key # None
  BY DEF FitProgram
<1> QED
  BY <1>1 DEF TypeOK, LoopTypeOK

LEMMA ProgramsType == AtLoop \in FitProgram /\ Off \in FitProgram
<1>1. 1 \in Runs
  BY SessionsAssumption DEF SessionsAssumption, Runs
<1> QED
  BY <1>1 DEF AtLoop, Off, FitProgram, Program

LEMMA EndProgramType ==
    ASSUME LoopTypeOK, NEW g \in Gateway, EndProgram(g)
    PROVE  LoopTypeOK'
<1>1. gw' \in [Gateway -> FitProgram]
  BY ProgramsType DEF LoopTypeOK, EndProgram
<1>2. closed' \in [Conn -> SUBSET Gateway]
  BY DEF LoopTypeOK, EndProgram
<1>3. pipe' \in [Conn -> [Gateway -> Seq(Message)]]
  <2>1. \A c \in Conn : [pipe[c] EXCEPT ![g] = <<>>] \in [Gateway -> Seq(Message)]
    BY DEF LoopTypeOK
  <2> QED
    BY <2>1 DEF LoopTypeOK, EndProgram
<1>4. backlog' \in Seq(Conn)
  BY DEF LoopTypeOK, EndProgram
<1> QED
  BY <1>1, <1>2, <1>3, <1>4 DEF LoopTypeOK

LEMMA LeaveType ==
    ASSUME LoopTypeOK, NEW g \in Gateway, Leave(g)
    PROVE  LoopTypeOK'
<1> DEFINE c == gw[g].conn
<1>1. /\ gw' = [gw EXCEPT ![g] = AtLoop] /\ UNCHANGED backlog
      /\ closed' = [closed EXCEPT ![c] = closed[c] \cup {g}]
      /\ pipe' = [pipe EXCEPT ![c][g] = <<>>]
  BY DEF Leave
<1> HIDE DEF c
<1>2. closed' \in [Conn -> SUBSET Gateway]
  BY <1>1 DEF LoopTypeOK
<1>3. pipe' \in [Conn -> [Gateway -> Seq(Message)]]
  <2>1. [pipe[c] EXCEPT ![g] = <<>>] \in [Gateway -> Seq(Message)] \/ c \notin Conn
    BY DEF LoopTypeOK
  <2>2. pipe' = [pipe EXCEPT ![c] = [pipe[c] EXCEPT ![g] = <<>>]]
    BY <1>1
  <2> QED
    BY <2>1, <2>2 DEF LoopTypeOK
<1> QED
  BY <1>1, <1>2, <1>3, ProgramsType DEF LoopTypeOK

LEMMA FreeConnsType == FreeConns \subseteq Conn
BY DEF FreeConns

\* A program at a new connection.
AtCheck(c) == [AtLoop EXCEPT !.pc = "check", !.conn = c]

LEMMA AtCheckType ==
    ASSUME NEW c \in Conn
    PROVE  AtCheck(c) \in FitProgram
<1>1. 1 \in Runs /\ c # None
  BY SessionsAssumption DEF SessionsAssumption, Runs
<1> QED
  BY <1>1 DEF AtCheck, AtLoop, FitProgram, Program

\* The client gateway connects, unless nobody listens.
LEMMA DialEffect ==
    ASSUME Dial
    PROVE  \/ EndProgram("client")
           \/ /\ gw["client"].pc = "loop" /\ gw["server"].pc # "off"
              /\ \E c \in FreeConns :
                    /\ gw' = [gw EXCEPT !["client"] = AtCheck(c)]
                    /\ pipe' = [pipe EXCEPT ![c] = [g \in Gateway |-> <<>>]]
                    /\ closed' = [closed EXCEPT ![c] = {}]
                    /\ backlog' = Append(backlog, c)
BY DEF Dial, AtCheck

LEMMA DialType ==
    ASSUME LoopTypeOK, Dial
    PROVE  LoopTypeOK'
<1>1. CASE EndProgram("client")
  BY <1>1, EndProgramType DEF Gateway
<1>2. CASE \E c \in FreeConns :
             /\ gw' = [gw EXCEPT !["client"] = AtCheck(c)]
             /\ pipe' = [pipe EXCEPT ![c] = [g \in Gateway |-> <<>>]]
             /\ closed' = [closed EXCEPT ![c] = {}]
             /\ backlog' = Append(backlog, c)
  <2>1. PICK c \in FreeConns :
             /\ gw' = [gw EXCEPT !["client"] = AtCheck(c)]
             /\ pipe' = [pipe EXCEPT ![c] = [g \in Gateway |-> <<>>]]
             /\ closed' = [closed EXCEPT ![c] = {}]
             /\ backlog' = Append(backlog, c)
    BY <1>2
  <2>2. c \in Conn /\ AtCheck(c) \in FitProgram
    BY FreeConnsType, AtCheckType
  <2>3. [g \in Gateway |-> <<>>] \in [Gateway -> Seq(Message)]
    OBVIOUS
  <2>4. gw' \in [Gateway -> FitProgram]
    BY <2>1, <2>2 DEF LoopTypeOK, Gateway
  <2>5. pipe' \in [Conn -> [Gateway -> Seq(Message)]]
    BY <2>1, <2>3 DEF LoopTypeOK
  <2>6. closed' \in [Conn -> SUBSET Gateway] /\ backlog' \in Seq(Conn)
    BY <2>1, <2>2, AppendProperties DEF LoopTypeOK
  <2> QED
    BY <2>4, <2>5, <2>6 DEF LoopTypeOK
<1> QED
  BY <1>1, <1>2, DialEffect

LEMMA AcceptType ==
    ASSUME LoopTypeOK, Accept
    PROVE  LoopTypeOK'
<1>1. Head(backlog) \in Conn /\ Tail(backlog) \in Seq(Conn)
  BY HeadTailProperties DEF LoopTypeOK, Accept
<1>2. gw' = [gw EXCEPT !["server"] = AtCheck(Head(backlog))] /\ backlog' = Tail(backlog)
      /\ UNCHANGED <<pipe, closed>>
  BY DEF Accept, AtCheck
<1> QED
  BY <1>1, <1>2, AtCheckType DEF LoopTypeOK

----------------------------------------------------------------------------
(* What a program does over the connection it has                          *)

Outbox(g) == pipe[gw[g].conn][Peer(g)]

\* What is under way over the connection of g.
Ends(g, in, out) == [k \in Gateway |-> IF k = g THEN in ELSE out]

\* g goes on as q; in and out are what is left under way to g and to its peer.
Goes(g, q, in, out) ==
    /\ gw[g].conn # None /\ q \in FitProgram /\ q.conn = gw[g].conn
    /\ gw' = [gw EXCEPT ![g] = q]
    /\ pipe' = [pipe EXCEPT ![gw[g].conn] = Ends(g, in, out)]
    /\ UNCHANGED <<closed, backlog>>

LEMMA GoesType ==
    ASSUME LoopTypeOK, NEW g \in Gateway, NEW q, NEW in \in Seq(Message), NEW out \in Seq(Message),
           Goes(g, q, in, out)
    PROVE  LoopTypeOK'
<1>1. Ends(g, in, out) \in [Gateway -> Seq(Message)]
  BY DEF Ends
<1> QED
  BY <1>1 DEF LoopTypeOK, Goes

LEMMA ConnType ==
    ASSUME LoopTypeOK, NEW g \in Gateway
    PROVE  /\ gw[g] \in FitProgram /\ gw[g] \in Program
           /\ gw[g].conn = None <=> gw[g].pc \in {"off", "loop"}
           /\ gw[g].conn # None =>
                 /\ gw[g].conn \in Conn
                 /\ Inbox(g) \in Seq(Message) /\ Outbox(g) \in Seq(Message)
<1>1. gw[g] \in FitProgram
  BY DEF LoopTypeOK
<1>2. gw[g] \in Program /\ (gw[g].conn = None <=> gw[g].pc \in {"off", "loop"})
  BY <1>1 DEF FitProgram
<1>3. gw[g].conn # None => gw[g].conn \in Conn
  BY <1>2 DEF Program
<1> QED
  BY <1>1, <1>2, <1>3, TwoGateways DEF LoopTypeOK, Inbox, Outbox

\* The pipes in another form.
BothEnds(g, in, out) == [pipe EXCEPT ![gw[g].conn][g] = in, ![gw[g].conn][Peer(g)] = out]

LEMMA PipeUpdate ==
    ASSUME LoopTypeOK, NEW g \in Gateway, gw[g].conn # None, NEW in, NEW out
    PROVE  BothEnds(g, in, out) = [pipe EXCEPT ![gw[g].conn] = Ends(g, in, out)]
<1> DEFINE c == gw[g].conn
           f == Ends(g, in, out)
<1>1. c \in Conn /\ pipe[c] \in [Gateway -> Seq(Message)]
  BY ConnType DEF LoopTypeOK
<1>2. Peer(g) \in Gateway /\ Peer(g) # g /\ \A k \in Gateway : k = g \/ k = Peer(g)
  BY TwoGateways
<1>3. [[pipe[c] EXCEPT ![g] = in] EXCEPT ![Peer(g)] = out] = f
  BY <1>1, <1>2 DEF Ends
<1> HIDE DEF c, f
<1>4. BothEnds(g, in, out) = [pipe EXCEPT ![c] = [[pipe[c] EXCEPT ![g] = in] EXCEPT ![Peer(g)] = out]]
  BY <1>1 DEF LoopTypeOK, BothEnds, c
<1> QED
  BY <1>3, <1>4 DEF c, f

LEMMA PipeKept ==
    ASSUME LoopTypeOK, NEW g \in Gateway, gw[g].conn # None
    PROVE  pipe = [pipe EXCEPT ![gw[g].conn] = Ends(g, Inbox(g), Outbox(g))]
<1>1. gw[g].conn \in Conn /\ pipe[gw[g].conn] \in [Gateway -> Seq(Message)]
  BY ConnType DEF LoopTypeOK
<1>2. pipe[gw[g].conn] = Ends(g, Inbox(g), Outbox(g))
  BY <1>1, TwoGateways DEF Inbox, Outbox, Ends
<1> QED
  BY <1>1, <1>2 DEF LoopTypeOK

\* A run of the exchange that returns key.
Recorded(p, key) == IF p.run = 1 THEN [p EXCEPT !.key = key] ELSE p

GoesOn(g, p, r, q) ==
    \/ q = [r EXCEPT !.pc = "plain"]
    \/ g \in measure /\ p.run + 1 \in Runs /\ q = [r EXCEPT !.pc = "check", !.run = p.run + 1]

LEMMA FinishedCases ==
    ASSUME NEW g, NEW p \in Program, NEW key \in SessionKey \cup {None},
           NEW q \in Finished(g, p, key)
    PROVE  \E r \in Program : r = Recorded(p, key) /\ GoesOn(g, p, r, q)
<1> DEFINE r == Recorded(p, key)
<1>1. r \in Program /\ r.run = p.run
  BY DEF Program, Recorded
<1>2. \/ q = [r EXCEPT !.pc = "plain"]
      \/ g \in measure /\ p.run < MaxRuns /\ q = [r EXCEPT !.pc = "check", !.run = r.run + 1]
  BY DEF Finished, Recorded
<1>3. p.run < MaxRuns => p.run + 1 \in Runs
  BY SessionsAssumption DEF SessionsAssumption, Runs, Program
<1> HIDE DEF r
<1>4. GoesOn(g, p, r, q)
  BY <1>1, <1>2, <1>3 DEF GoesOn
<1> QED
  BY <1>1, <1>4 DEF r

LEMMA FinishedType ==
    ASSUME NEW g, NEW p \in Program, p.conn # None, NEW key \in SessionKey \cup {None},
           NEW q \in Finished(g, p, key)
    PROVE  q \in FitProgram /\ q.conn = p.conn /\ q.pub = p.pub /\ q.signer = p.signer
<1>1. PICK r \in Program : r = Recorded(p, key) /\ GoesOn(g, p, r, q)
  BY FinishedCases
<1>2. r.conn = p.conn /\ r.pub = p.pub /\ r.signer = p.signer
  BY <1>1 DEF Program, Recorded
<1> QED
  BY <1>1, <1>2 DEF Program, FitProgram, GoesOn

LEMMA FinishedKey ==
    ASSUME NEW g, NEW p \in Program, NEW key \in SessionKey \cup {None},
           NEW q \in Finished(g, p, key)
    PROVE  (p.run = 1 => q.key = key) /\ (p.run # 1 => q.key = p.key)
<1>1. PICK r \in Program : r = Recorded(p, key) /\ GoesOn(g, p, r, q)
  BY FinishedCases
<1>2. q.key = r.key
  BY <1>1 DEF Program, GoesOn
<1> QED
  BY <1>1, <1>2 DEF Program, Recorded

\* What comes next: the plain side, or a run that is not the first.
LEMMA FinishedNext ==
    ASSUME NEW g, NEW p \in Program, NEW key \in SessionKey \cup {None},
           NEW q \in Finished(g, p, key)
    PROVE  \/ q.pc = "plain" /\ q.run = p.run
           \/ q.pc = "check" /\ q.run # 1 /\ g \in measure
<1>1. PICK r \in Program : r = Recorded(p, key) /\ GoesOn(g, p, r, q)
  BY FinishedCases
<1>2. r.run = p.run
  BY <1>1 DEF Program, Recorded
<1>3. p.run + 1 # 1
  BY SessionsAssumption DEF SessionsAssumption, Runs, Program
<1> QED
  BY <1>1, <1>2, <1>3 DEF Program, GoesOn

Checks(g, q) ==
    /\ gw[g].pc = "check" /\ Goes(g, q, Inbox(g), Outbox(g))
    /\ LET p == [gw[g] EXCEPT !.pub = store[g].file]
       IN  IF store[g].file = store[g].seal THEN q = [p EXCEPT !.pc = "sign"]
           ELSE q \in Finished(g, p, None)

LEMMA CheckEffect ==
    ASSUME LoopTypeOK, store \in [Gateway -> Store], NEW g \in Gateway, Check(g, store[g])
    PROVE  EndProgram(g) \/ \E q \in FitProgram : Checks(g, q)
<1> DEFINE p == [gw[g] EXCEPT !.pub = store[g].file]
<1>1. SUFFICES ASSUME ~EndProgram(g) PROVE \E q \in FitProgram : Checks(g, q)
  OBVIOUS
<1>2. /\ gw[g].pc = "check" /\ store[g].file # None /\ UNCHANGED <<pipe, closed, backlog>>
      /\ IF store[g].file = store[g].seal THEN gw' = [gw EXCEPT ![g] = [p EXCEPT !.pc = "sign"]]
         ELSE \E q \in Finished(g, p, None) : gw' = [gw EXCEPT ![g] = q]
  BY <1>1 DEF Check, VerifyWithSeal, Finish
<1>3. gw[g].conn # None /\ gw[g] \in Program
  BY <1>2, ConnType
<1>4. store[g].file \in SignKey \cup {None, Empty}
  BY DEF Store
<1>5. p \in Program /\ p.conn = gw[g].conn
  BY <1>2, <1>3, <1>4 DEF Program
<1> HIDE DEF p
<1>6. PICK q : /\ gw' = [gw EXCEPT ![g] = q]
               /\ IF store[g].file = store[g].seal THEN q = [p EXCEPT !.pc = "sign"]
                  ELSE q \in Finished(g, p, None)
  BY <1>2
<1>7. q \in FitProgram /\ q.conn = gw[g].conn
  <2>1. CASE q = [p EXCEPT !.pc = "sign"]
    BY <1>3, <1>5, <2>1 DEF Program, FitProgram
  <2>2. CASE q \in Finished(g, p, None)
    <3>1. p.conn # None /\ None \in SessionKey \cup {None}
      BY <1>3, <1>5
    <3>2. q \in FitProgram /\ q.conn = p.conn
      BY <1>5, <2>2, <3>1, FinishedType
    <3> QED
      BY <1>5, <3>2
  <2> QED
    BY <1>6, <2>1, <2>2
<1>8. Goes(g, q, Inbox(g), Outbox(g))
  BY <1>2, <1>3, <1>6, <1>7, PipeKept DEF Goes
<1> QED
  BY <1>2, <1>6, <1>7, <1>8 DEF Checks, p

Signs(g, q) ==
    /\ gw[g].pc = "sign" /\ CanSign(store[g])
    /\ q = [gw[g] EXCEPT !.pc = "receive", !.signer = store[g].sign]
    /\ Goes(g, q, Inbox(g), IF SendsFirst(g) THEN WithKey(g, store[g].sign) ELSE Outbox(g))

LEMMA SignEffect ==
    ASSUME LoopTypeOK, store \in [Gateway -> Store], NEW g \in Gateway, Sign(g, store[g])
    PROVE  EndProgram(g) \/ \E q \in FitProgram : Signs(g, q)
<1> DEFINE q == [gw[g] EXCEPT !.pc = "receive", !.signer = store[g].sign]
           out == IF SendsFirst(g) THEN WithKey(g, store[g].sign) ELSE Outbox(g)
<1>1. SUFFICES ASSUME ~EndProgram(g) PROVE \E r \in FitProgram : Signs(g, r)
  OBVIOUS
<1>2. /\ gw[g].pc = "sign" /\ CanSign(store[g]) /\ gw' = [gw EXCEPT ![g] = q]
      /\ pipe' = IF SendsFirst(g)
                 THEN [pipe EXCEPT ![gw[g].conn][Peer(g)] = WithKey(g, store[g].sign)]
                 ELSE pipe
      /\ UNCHANGED <<closed, backlog>>
  BY <1>1 DEF Sign
<1>3. gw[g].conn # None /\ gw[g] \in Program
  BY <1>2, ConnType
<1>4. store[g].sign \in SignKey /\ None \notin SignKey
  BY <1>2, StoreAssumption DEF Store, CanSign, StoreAssumption
<1>5. q \in FitProgram /\ q.conn = gw[g].conn
  BY <1>3, <1>4 DEF Program, FitProgram
<1> HIDE DEF q
<1>6. pipe' = [pipe EXCEPT ![gw[g].conn] = Ends(g, Inbox(g), out)]
  <2>1. CASE SendsFirst(g)
    <3>1. [pipe EXCEPT ![gw[g].conn][Peer(g)] = out] = BothEnds(g, Inbox(g), out)
      <4>1. gw[g].conn \in Conn /\ pipe[gw[g].conn] \in [Gateway -> Seq(Message)]
        BY <1>3, ConnType DEF LoopTypeOK
      <4>2. [pipe EXCEPT ![gw[g].conn][g] = Inbox(g)] = pipe
        BY <4>1 DEF LoopTypeOK, Inbox
      <4> QED
        BY <4>2 DEF BothEnds
    <3>2. pipe' = [pipe EXCEPT ![gw[g].conn][Peer(g)] = out]
      BY <1>2, <2>1
    <3> HIDE DEF out
    <3>3. pipe' = BothEnds(g, Inbox(g), out)
      BY <3>1, <3>2
    <3> QED
      BY <1>3, <3>3, PipeUpdate
  <2>2. CASE ~SendsFirst(g)
    BY <1>2, <1>3, <2>2, PipeKept
  <2> QED
    BY <2>1, <2>2
<1>7. Goes(g, q, Inbox(g), out)
  BY <1>2, <1>3, <1>5, <1>6 DEF Goes
<1> QED
  BY <1>2, <1>5, <1>7 DEF Signs, q

Receives(g, q) ==
    /\ gw[g].pc = "receive" /\ Inbox(g) # <<>> /\ ~IsTraffic(Head(Inbox(g)))
    /\ q \in Finished(g, gw[g], Agreed(g, Head(Inbox(g))))
    /\ Goes(g, q, Tail(Inbox(g)), IF SendsFirst(g) THEN Outbox(g) ELSE WithKey(g, gw[g].signer))

LEMMA AgreedType ==
    ASSUME NEW g \in Gateway, gw[g].run \in Runs, NEW m \in Message, ~IsTraffic(m)
    PROVE  Agreed(g, m) \in SessionKey \cup {None}
<1>1. m.run \in Runs
  BY DEF Message, IsTraffic
<1> QED
  BY <1>1 DEF Agreed, SessionKey

LEMMA ReceiveEffect ==
    ASSUME LoopTypeOK, NEW g \in Gateway, Receive(g)
    PROVE  \E q \in FitProgram : Receives(g, q)
<1> DEFINE out == IF SendsFirst(g) THEN Outbox(g) ELSE WithKey(g, gw[g].signer)
           key == Agreed(g, Head(Inbox(g)))
<1>1. /\ gw[g].pc = "receive" /\ Inbox(g) # <<>> /\ ~IsTraffic(Head(Inbox(g)))
      /\ pipe' = [pipe EXCEPT ![gw[g].conn][g] = Tail(@),
                              ![gw[g].conn][Peer(g)] = IF SendsFirst(g) THEN @ ELSE WithKey(g, gw[g].signer)]
      /\ UNCHANGED <<closed, backlog>>
  BY DEF Receive
<1>2. PICK q \in Finished(g, gw[g], key) : gw' = [gw EXCEPT ![g] = q]
  BY DEF Receive, Finish
<1>3. /\ gw[g].conn # None /\ gw[g] \in Program /\ gw[g].conn \in Conn /\ Inbox(g) \in Seq(Message)
      /\ gw[g].run \in Runs
  BY <1>1, ConnType DEF Program
<1>4. key \in SessionKey \cup {None}
  BY <1>1, <1>3, HeadTailProperties, AgreedType
<1> HIDE DEF key
<1>5. q \in FitProgram /\ q.conn = gw[g].conn
  BY <1>2, <1>3, <1>4, FinishedType
<1>6. pipe' = BothEnds(g, Tail(Inbox(g)), out)
  BY <1>1 DEF Inbox, Outbox, BothEnds
<1> HIDE DEF out
<1>7. pipe' = [pipe EXCEPT ![gw[g].conn] = Ends(g, Tail(Inbox(g)), out)]
  BY <1>3, <1>6, PipeUpdate
<1>8. Goes(g, q, Tail(Inbox(g)), out)
  BY <1>1, <1>2, <1>3, <1>5, <1>7 DEF Goes
<1> QED
  BY <1>1, <1>2, <1>5, <1>8 DEF Receives, out, key

\* What is left of the pipes when g has read a message.
LEMMA PipeRead ==
    ASSUME LoopTypeOK, NEW g \in Gateway, gw[g].conn # None,
           pipe' = [pipe EXCEPT ![gw[g].conn][g] = Tail(@)]
    PROVE  pipe' = [pipe EXCEPT ![gw[g].conn] = Ends(g, Tail(Inbox(g)), Outbox(g))]
<1> DEFINE c == gw[g].conn
<1>1. c \in Conn /\ pipe[c] \in [Gateway -> Seq(Message)]
  BY ConnType DEF LoopTypeOK
<1>2. [pipe[c] EXCEPT ![g] = Tail(Inbox(g))] = Ends(g, Tail(Inbox(g)), Outbox(g))
  BY <1>1, TwoGateways DEF Ends, Outbox
<1>3. pipe' = [pipe EXCEPT ![c] = [pipe[c] EXCEPT ![g] = Tail(Inbox(g))]]
  BY DEF Inbox
<1> QED
  BY <1>2, <1>3

Misreads(g, q) ==
    /\ gw[g].pc = "receive" /\ Inbox(g) # <<>> /\ IsTraffic(Head(Inbox(g)))
    /\ q \in Finished(g, gw[g], None)
    /\ Goes(g, q, Tail(Inbox(g)), Outbox(g))

LEMMA ReceiveTrafficEffect ==
    ASSUME LoopTypeOK, NEW g \in Gateway, ReceiveTraffic(g)
    PROVE  EndProgram(g) \/ \E q \in FitProgram : Misreads(g, q)
<1>1. SUFFICES ASSUME ~EndProgram(g) PROVE \E q \in FitProgram : Misreads(g, q)
  OBVIOUS
<1>2. /\ gw[g].pc = "receive" /\ Inbox(g) # <<>> /\ IsTraffic(Head(Inbox(g)))
      /\ pipe' = [pipe EXCEPT ![gw[g].conn][g] = Tail(@)] /\ UNCHANGED <<closed, backlog>>
  BY <1>1 DEF ReceiveTraffic
<1>3. PICK q \in Finished(g, gw[g], None) : gw' = [gw EXCEPT ![g] = q]
  BY <1>1 DEF ReceiveTraffic, Finish
<1>4. gw[g].conn # None /\ gw[g] \in Program /\ None \in SessionKey \cup {None}
  BY <1>2, ConnType
<1>5. q \in FitProgram /\ q.conn = gw[g].conn
  BY <1>3, <1>4, FinishedType
<1>6. Goes(g, q, Tail(Inbox(g)), Outbox(g))
  BY <1>2, <1>3, <1>4, <1>5, PipeRead DEF Goes
<1> QED
  BY <1>2, <1>3, <1>5, <1>6 DEF Misreads

Opens(g, q) ==
    /\ gw[g].pc = "plain" /\ gw[g].key # None
    /\ q = [gw[g] EXCEPT !.pc = "transfer"]
    /\ Goes(g, q, Inbox(g), Outbox(g))

LEMMA PlainEffect ==
    ASSUME LoopTypeOK, NEW g \in Gateway, Plain(g)
    PROVE  Leave(g) \/ \E q \in FitProgram : Opens(g, q)
<1>1. SUFFICES ASSUME ~Leave(g) PROVE \E q \in FitProgram : Opens(g, q)
  OBVIOUS
<1> DEFINE q == [gw[g] EXCEPT !.pc = "transfer"]
<1>2. /\ gw[g].pc = "plain" /\ gw[g].key # None
      /\ gw' = [gw EXCEPT ![g] = q] /\ UNCHANGED <<pipe, closed, backlog>>
  BY <1>1 DEF Plain
<1>3. gw[g].conn # None /\ gw[g] \in Program
  BY <1>2, ConnType
<1>4. q \in FitProgram /\ q.conn = gw[g].conn
  BY <1>2, <1>3 DEF Program, FitProgram
<1> HIDE DEF q
<1>5. Goes(g, q, Inbox(g), Outbox(g))
  BY <1>2, <1>3, <1>4, PipeKept DEF Goes
<1> QED
  BY <1>2, <1>4, <1>5 DEF Opens, q

\* In a session: something is sent or read.
Forwards(g, q) ==
    /\ gw[g].pc = "transfer" /\ q = gw[g]
    /\ \/ measure # {} /\ Outbox(g) = <<>> /\ Goes(g, q, Inbox(g), <<[run |-> 0, signer |-> None]>>)
       \/ Inbox(g) # <<>> /\ Goes(g, q, Tail(Inbox(g)), Outbox(g))

LEMMA ForwardEffect ==
    ASSUME LoopTypeOK, NEW g \in Gateway, Traffic(g) \/ Consume(g)
    PROVE  \E q \in FitProgram : Forwards(g, q)
<1>1. gw[g].pc = "transfer" /\ UNCHANGED <<gw, closed, backlog>>
  BY DEF Traffic, Consume
<1>2. gw[g].conn # None /\ gw[g] \in FitProgram
  BY <1>1, ConnType
<1>3. gw' = [gw EXCEPT ![g] = gw[g]]
  BY <1>1 DEF LoopTypeOK
<1>4. CASE Consume(g)
  <2>1. Inbox(g) # <<>> /\ pipe' = [pipe EXCEPT ![gw[g].conn][g] = Tail(@)]
    BY <1>4 DEF Consume
  <2>2. Goes(g, gw[g], Tail(Inbox(g)), Outbox(g))
    BY <1>1, <1>2, <1>3, <2>1, PipeRead DEF Goes
  <2> QED
    BY <1>1, <1>2, <2>1, <2>2 DEF Forwards
<1>5. CASE Traffic(g)
  <2> DEFINE c == gw[g].conn
             out == <<[run |-> 0, signer |-> None]>>
  <2>1. measure # {} /\ Outbox(g) = <<>> /\ pipe' = [pipe EXCEPT ![c][Peer(g)] = out]
    BY <1>5 DEF Traffic, Outbox
  <2> HIDE DEF out
  <2>2. c \in Conn /\ pipe[c] \in [Gateway -> Seq(Message)]
    BY <1>2, ConnType DEF LoopTypeOK
  <2>3. [pipe[c] EXCEPT ![Peer(g)] = out] = Ends(g, Inbox(g), out)
    BY <2>2, TwoGateways DEF Ends, Inbox
  <2>4. pipe' = [pipe EXCEPT ![c] = [pipe[c] EXCEPT ![Peer(g)] = out]]
    BY <2>1
  <2>5. Goes(g, gw[g], Inbox(g), out)
    BY <1>1, <1>2, <1>3, <2>3, <2>4 DEF Goes
  <2> QED
    BY <1>1, <1>2, <2>1, <2>5 DEF Forwards, out
<1> QED
  BY <1>4, <1>5

\* The programs' own steps, and those of the environment.
Works(g, q) ==
    Checks(g, q) \/ Signs(g, q) \/ Receives(g, q) \/ Misreads(g, q) \/ Opens(g, q) \/ Forwards(g, q)

Starts(g) == gw[g].pc = "off" /\ gw' = [gw EXCEPT ![g] = AtLoop] /\ UNCHANGED <<pipe, closed, backlog>>

LoopStep(g) ==
    \/ (g = "client" /\ Dial) \/ (g = "server" /\ Accept)
    \/ EndProgram(g) \/ (gw[g].conn # None /\ Leave(g)) \/ Starts(g)
    \/ \E q \in FitProgram : Works(g, q)

LEMMA NextEffect ==
    ASSUME TypeOK, Next
    PROVE  \/ ~calm /\ TrustNext /\ UNCHANGED <<loopVars, calm>>
           \/ /\ UNCHANGED <<store, address, measure, calm>>
              /\ \E g \in Gateway : LoopStep(g)
<1>1. store \in [Gateway -> Store] /\ LoopTypeOK
  BY TypeSplit
<1>2. ASSUME NEW g \in Gateway, GatewayStep(g, store[g]) PROVE LoopStep(g)
  <2>1. CASE (g = "client" /\ Dial) \/ (g = "server" /\ Accept)
    BY <2>1 DEF LoopStep
  <2>2. CASE Check(g, store[g])
    BY <1>1, <2>2, CheckEffect DEF LoopStep, Works
  <2>3. CASE Sign(g, store[g])
    BY <1>1, <2>3, SignEffect DEF LoopStep, Works
  <2>4. CASE Receive(g)
    BY <1>1, <2>4, ReceiveEffect DEF LoopStep, Works
  <2>5. CASE ReceiveTraffic(g)
    BY <1>1, <2>5, ReceiveTrafficEffect DEF LoopStep, Works
  <2>6. CASE LosePeer(g)
    BY <2>6 DEF LosePeer, LoopStep
  <2>7. CASE Plain(g)
    <3>1. gw[g].conn # None
      BY <1>1, <2>7, ConnType DEF Plain
    <3> QED
      BY <1>1, <2>7, <3>1, PlainEffect DEF LoopStep, Works
  <2>8. CASE Consume(g)
    BY <1>1, <2>8, ForwardEffect DEF LoopStep, Works
  <2>9. CASE SessionEnds(g)
    BY <1>1, <2>9, ConnType DEF SessionEnds, LoopStep
  <2> QED
    BY <1>2, <2>1, <2>2, <2>3, <2>4, <2>5, <2>6, <2>7, <2>8, <2>9 DEF GatewayStep
<1>3. ASSUME NEW g \in Gateway, Environment(g) PROVE LoopStep(g)
  <2>1. CASE Traffic(g)
    BY <1>1, <2>1, ForwardEffect DEF LoopStep, Works
  <2>2. CASE Disconnect(g)
    BY <1>1, <2>2, ConnType DEF Disconnect, LoopStep
  <2>3. CASE Start(g)
    BY <2>3 DEF Start, LoopStep, Starts
  <2>4. CASE Stop(g) \/ (g = "server" /\ PlcRefuses)
    BY <2>4 DEF Stop, PlcRefuses, LoopStep
  <2> QED
    BY <1>3, <2>1, <2>2, <2>3, <2>4 DEF Environment
<1> QED
  BY <1>2, <1>3 DEF Next, KeysChange, Gateways, Environment

LEMMA WithKeyType ==
    ASSUME LoopTypeOK, NEW g \in Gateway, gw[g].conn # None, NEW signer \in SignKey
    PROVE  /\ WithKey(g, signer) \in Seq(Message)
           /\ WithKey(g, signer) = IF PeerClosed(g) THEN Outbox(g)
                                  ELSE Append(Outbox(g), [run |-> gw[g].run, signer |-> signer])
<1>1. gw[g].run \in Runs /\ Outbox(g) \in Seq(Message)
  BY ConnType DEF Program
<1>2. [run |-> gw[g].run, signer |-> signer] \in Message
  BY <1>1 DEF Message
<1> QED
  BY <1>1, <1>2, AppendProperties DEF WithKey, Outbox

\* What g puts under way: nothing, its signed key, or traffic once nothing is left.
Sends(g, out) ==
    \/ out = Outbox(g)
    \/ \E signer \in SignKey : out = WithKey(g, signer)
    \/ gw[g].pc = "transfer" /\ measure # {} /\ out = <<[run |-> 0, signer |-> None]>>

LEMMA WorksGoes ==
    ASSUME LoopTypeOK, store \in [Gateway -> Store], NEW g \in Gateway, NEW q, Works(g, q)
    PROVE  /\ gw[g].conn # None /\ q \in FitProgram
           /\ \E in, out : /\ Goes(g, q, in, out) /\ Sends(g, out)
                           /\ in = Inbox(g) \/ (Inbox(g) # <<>> /\ in = Tail(Inbox(g)))
<1>1. gw[g] \in Program
  BY ConnType
<1>2. CASE Signs(g, q)
  <2>1. store[g].sign \in SignKey
    BY <1>2 DEF Signs, CanSign, Store
  <2> QED
    BY <1>2, <2>1 DEF Signs, Goes, Sends
<1>3. CASE Receives(g, q)
  <2>1. gw[g].signer \in SignKey
    BY <1>1, <1>3 DEF Receives, Program, LoopTypeOK, FitProgram
  <2> QED
    BY <1>3, <2>1 DEF Receives, Goes, Sends
<1>4. CASE Checks(g, q)
  BY <1>4 DEF Checks, Goes, Sends
<1>5. CASE Misreads(g, q)
  BY <1>5 DEF Misreads, Goes, Sends
<1>6. CASE Opens(g, q)
  BY <1>6 DEF Opens, Goes, Sends
<1>7. CASE Forwards(g, q)
  BY <1>7 DEF Forwards, Goes, Sends
<1> QED
  BY <1>2, <1>3, <1>4, <1>5, <1>6, <1>7 DEF Works

LEMMA WorksType ==
    ASSUME LoopTypeOK, store \in [Gateway -> Store], NEW g \in Gateway, NEW q, Works(g, q)
    PROVE  LoopTypeOK'
<1>1. PICK in, out : /\ Goes(g, q, in, out) /\ Sends(g, out)
                     /\ in = Inbox(g) \/ (Inbox(g) # <<>> /\ in = Tail(Inbox(g)))
  BY WorksGoes
<1>2. gw[g].conn # None /\ Inbox(g) \in Seq(Message) /\ Outbox(g) \in Seq(Message)
  BY <1>1, ConnType DEF Goes
<1>3. in \in Seq(Message)
  BY <1>1, <1>2, HeadTailProperties
<1>4. out \in Seq(Message)
  <2>1. CASE out = Outbox(g)
    BY <1>2, <2>1
  <2>2. CASE \E signer \in SignKey : out = WithKey(g, signer)
    BY <1>2, <2>2, WithKeyType
  <2>3. CASE out = <<[run |-> 0, signer |-> None]>>
    BY <2>3 DEF Message
  <2> QED
    BY <1>1, <2>1, <2>2, <2>3 DEF Sends
<1> QED
  BY <1>1, <1>3, <1>4, GoesType

LEMMA TrustType ==
    ASSUME store \in [Gateway -> Store], TrustNext
    PROVE  store' \in [Gateway -> Store]
<1>1. ASSUME NEW d \in Gateway, NEW s \in Store, Change(d, s)
      PROVE  store' \in [Gateway -> Store]
  BY <1>1 DEF Change
<1>2. \A d \in Gateway : store[d] \in Store /\ KeysOf[d] \subseteq SignKey /\ KeysOf[Peer(d)] \subseteq SignKey
  BY TwoGateways DEF SignKey
<1>3. PICK d \in Gateway : MakeKey(d) \/ SealPeer(d) \/ WriteFile(d) \/ Forget(d)
  BY DEF TrustNext
<1>4. CASE MakeKey(d)
  <2>1. PICK k \in KeysOf[d] : Change(d, CreateKey(store[d], k))
    BY <1>4 DEF MakeKey
  <2>2. CreateKey(store[d], k) \in Store
    BY <1>2 DEF CreateKey, Store
  <2> QED
    BY <1>1, <2>1, <2>2
<1>5. CASE SealPeer(d)
  <2>1. PICK k \in KeysOf[Peer(d)] : Change(d, LinkWithSeal(store[d], k))
    BY <1>5 DEF SealPeer
  <2>2. LinkWithSeal(store[d], k) \in Store
    BY <1>2 DEF LinkWithSeal, Store
  <2> QED
    BY <1>1, <2>1, <2>2
<1>6. CASE WriteFile(d)
  <2>1. PICK contents \in {store[d].seal, Empty} : Change(d, [store[d] EXCEPT !.file = contents])
    BY <1>6 DEF WriteFile
  <2>2. [store[d] EXCEPT !.file = contents] \in Store
    BY <1>2 DEF Store
  <2> QED
    BY <1>1, <2>1, <2>2
<1>7. CASE Forget(d)
  <2>1. PICK name \in {"sign", "seal", "file"} : Change(d, DeleteObj(store[d], name))
    BY <1>7 DEF Forget
  <2>2. DeleteObj(store[d], name) \in Store
    BY <1>2 DEF DeleteObj, Store
  <2> QED
    BY <1>1, <2>1, <2>2
<1> QED
  BY <1>3, <1>4, <1>5, <1>6, <1>7

LEMMA TypeStep ==
    ASSUME TypeOK, [Next]_vars
    PROVE  TypeOK'
<1>1. LoopTypeOK /\ store \in [Gateway -> Store] /\ address \in Addresses /\ measure \in SUBSET Gateway
  BY TypeSplit
<1>2. CASE ~calm /\ TrustNext /\ UNCHANGED <<loopVars, calm>>
  <2>1. store' \in [Gateway -> Store]
    BY <1>1, <1>2, TrustType
  <2>2. UNCHANGED <<gw, pipe, closed, backlog, address, measure>>
    BY <1>2 DEF loopVars
  <2> QED
    BY <2>1, <2>2 DEF TypeOK
<1>3. ASSUME NEW g \in Gateway, LoopStep(g) PROVE LoopTypeOK'
  <2>1. CASE g = "client" /\ Dial
    BY <1>1, <2>1, DialType
  <2>2. CASE g = "server" /\ Accept
    BY <1>1, <2>2, AcceptType
  <2>3. CASE EndProgram(g)
    BY <1>1, <2>3, EndProgramType
  <2>4. CASE Leave(g)
    BY <1>1, <2>4, LeaveType
  <2>5. CASE Starts(g)
    BY <1>1, <2>5, ProgramsType DEF Starts, LoopTypeOK
  <2>6. CASE \E q \in FitProgram : Works(g, q)
    BY <1>1, <2>6, WorksType
  <2> QED
    BY <1>3, <2>1, <2>2, <2>3, <2>4, <2>5, <2>6 DEF LoopStep
<1>4. CASE UNCHANGED <<store, address, measure, calm>> /\ \E g \in Gateway : LoopStep(g)
  <2>1. LoopTypeOK'
    BY <1>3, <1>4
  <2>2. store' \in [Gateway -> Store] /\ address' \in Addresses /\ measure' \in SUBSET Gateway
    BY <1>1, <1>4
  <2>3. gw' \in [Gateway -> Program]
        /\ \A g \in Gateway : /\ gw'[g].conn = None <=> gw'[g].pc \in {"off", "loop"}
                              /\ gw'[g].pc = "receive" => gw'[g].signer # None
                              /\ gw'[g].pc = "transfer" => gw'[g].key # None
    BY <2>1 DEF LoopTypeOK, FitProgram
  <2> QED
    BY <2>1, <2>2, <2>3 DEF TypeOK, LoopTypeOK
<1>5. CASE UNCHANGED vars
  BY <1>5 DEF vars, TypeOK
<1> QED
  BY <1>2, <1>4, <1>5, NextEffect

\* What an association leaves at a device.
LEMMA PairingFields ==
    ASSUME NEW g \in Gateway
    PROVE  /\ Pairing \in [Gateway -> Store]
           /\ Pairing[g].sign \in SignKey /\ Pairing[g].seal \in SignKey
           /\ Pairing[g].file = Pairing[g].seal /\ Pairing[g].seal = Pairing[Peer(g)].sign
<1> DEFINE own(d) == CHOOSE k \in KeysOf[d] : TRUE
<1>1. \A d \in Gateway : own(d) \in SignKey
  <2> SUFFICES ASSUME NEW d \in Gateway PROVE own(d) \in SignKey
    OBVIOUS
  <2>1. PICK k : k \in KeysOf[d]
    BY DeploymentAssumption DEF DeploymentAssumption
  <2>2. own(d) \in KeysOf[d]
    BY <2>1
  <2> QED
    BY <2>2 DEF SignKey
<1>2. \A d \in Gateway :
         Pairing[d] = [sign |-> own(d), seal |-> own(Peer(d)), file |-> own(Peer(d))]
  BY DEF Pairing
<1> HIDE DEF own
<1>3. \A d \in Gateway : [sign |-> own(d), seal |-> own(Peer(d)), file |-> own(Peer(d))] \in Store
  BY <1>1, TwoGateways DEF Store
<1>4. Pairing \in [Gateway -> Store]
  <2>1. Pairing = [d \in Gateway |-> Pairing[d]]
    BY DEF Pairing
  <2> QED
    BY <1>2, <1>3, <2>1
<1> QED
  BY <1>1, <1>2, <1>4, TwoGateways

LEMMA TypeInit == Init => TypeOK
<1> SUFFICES ASSUME Init PROVE TypeOK
  OBVIOUS
<1>1. store \in [Gateway -> Store] /\ address \in Addresses /\ measure \in SUBSET Gateway
  <2>1. [d \in Gateway |-> NoStore] \in [Gateway -> Store]
    BY DEF NoStore, Store
  <2>2. "client" \in Gateway
    BY DEF Gateway
  <2>3. store \in [Gateway -> Store]
    BY <2>1, <2>2, PairingFields DEF Init
  <2>4. address \in Addresses
    BY DEF Init, LoopInit
  <2>5. measure \in SUBSET Gateway
    BY DeploymentAssumption DEF Init, DeploymentAssumption
  <2> QED
    BY <2>3, <2>4, <2>5
<1>2. PICK p \in {AtLoop, Off} : LoopInit(p)
  BY DEF Init
<1>3. LoopTypeOK
  <2>1. gw \in [Gateway -> FitProgram]
    BY <1>2, ProgramsType DEF LoopInit
  <2>2. pipe \in [Conn -> [Gateway -> Seq(Message)]]
    BY <1>2 DEF LoopInit
  <2> QED
    BY <1>2, <2>1, <2>2 DEF LoopInit, LoopTypeOK
<1> QED
  BY <1>1, <1>3, TypeSplit

\* A gateway has a connection except between two of them, waits for its peer's key
\* only once it has signed its own, and forwards only with a key.
THEOREM TypeCorrect == Spec => []TypeOK
<1>1. TypeOK /\ [Next]_vars => TypeOK'
  BY TypeStep
<1> QED
  BY TypeInit, <1>1, PTL DEF Spec

----------------------------------------------------------------------------
(* The invariant                                                           *)

\* Both first runs of the exchange: what every session key is made of.
FirstRuns == [g \in Gateway |-> 1]

Waiting == {backlog[i] : i \in DOMAIN backlog}

\* Which connections there are.  The client gateway's is the last one that waits
\* for the server gateway, which has then told it nothing yet; or none waits, and
\* the server gateway is at the other end or has left it.
Connected ==
    /\ \A i, j \in DOMAIN backlog : i # j => backlog[i] # backlog[j]
    /\ gw["server"].conn \notin Waiting
    /\ \A c \in Waiting : "server" \notin closed[c] /\ pipe[c]["client"] = <<>>
    /\ \A g \in Gateway : gw[g].conn # None => g \notin closed[gw[g].conn]
    /\ gw["client"].conn # None =>
           IF backlog = <<>> THEN gw["server"].conn \in {gw["client"].conn, None}
           ELSE backlog[Len(backlog)] = gw["client"].conn /\ gw["client"].key = None

\* A program that has signed in this run, and keeps its signature for the run.
Signed(p) == p.pc \in {"receive", "plain", "transfer"}

\* Without measurements there is one run of the exchange, and what g has sent in
\* it is signed as g remembers.  A gateway with a key has looked at that.
Exchanged(g) ==
    /\ gw[g].run = 1
    /\ gw[g].conn # None =>
           /\ pipe[gw[g].conn][Peer(g)] \in Seq({[run |-> 1, signer |-> gw[g].signer]})
           /\ pipe[gw[g].conn][Peer(g)] # <<>> => Signed(gw[g])
    /\ gw[g].key # None => gw[g].pc \in {"plain", "transfer"}
    /\ gw[g].key # None /\ gw[g].conn = gw[Peer(g)].conn =>
           gw[g].pub = gw[Peer(g)].signer /\ Signed(gw[Peer(g)])

UnmeasuredInv ==
    /\ measure = {}
    /\ \A c \in Conn, g \in Gateway : pipe[c][g] \in Seq([run : {1}, signer : SignKey])
    /\ \A g \in Gateway : Exchanged(g)

\* A program of g is in its first run and has received nothing; nor sent anything.
First(p) == p.run = 1 /\ p.pc \in {"check", "sign", "receive"}

Silent(g, p) ==
    p.run = 1 /\ (p.pc \in {"check", "sign"} \/ (p.pc = "receive" /\ ~SendsFirst(g)))

\* g has still to receive its first message over c, or will if it accepts c.
Awaits(g, c) == (gw[g].conn = c /\ First(gw[g])) \/ (g = "server" /\ c \in Waiting)

\* What g holds is what the association has left.
Kept(g) ==
    /\ gw[g].pc \in {"sign", "receive", "plain", "transfer"} => gw[g].pub = Pairing[g].seal
    /\ Signed(gw[g]) => gw[g].signer = Pairing[g].sign
    /\ gw[g].conn # None /\ ~First(gw[g]) => gw[g].key # None
    /\ Silent(g, gw[g]) => pipe[gw[g].conn][Peer(g)] = <<>>

\* Nothing but the signed key of the peer's first run comes first.
FirstComes(g, c) ==
    Awaits(g, c) =>
        IF pipe[c][g] = <<>> THEN gw[Peer(g)].conn = c => Silent(Peer(g), gw[Peer(g)])
        ELSE Head(pipe[c][g]) = [run |-> 1, signer |-> Pairing[g].seal]

CalmInv ==
    /\ store = Pairing
    /\ \A g \in Gateway : Kept(g)
    /\ \A g \in Gateway, c \in Conn : FirstComes(g, c)

\* Whatever is measured, the key of a session is that of the first runs.
FirstKeys == \A g \in Gateway : gw[g].key \in {None, FirstRuns}

DeploymentInv ==
    /\ TypeOK
    /\ Connected
    /\ FirstKeys
    /\ IF calm THEN CalmInv ELSE UnmeasuredInv

----------------------------------------------------------------------------
(* What the steps do, place by place                                       *)

\* A program leaves its connection, ends or starts.
Quits(g) ==
    /\ \E p \in {AtLoop, Off} : gw' = [gw EXCEPT ![g] = p]
    /\ backlog' \in {backlog, <<>>} /\ (g = "client" => backlog' = backlog)
    /\ \A c \in Conn :
          /\ closed'[c] \subseteq closed[c] \cup {g}
          /\ pipe'[c][Peer(g)] = pipe[c][Peer(g)] /\ pipe'[c][g] \in {pipe[c][g], <<>>}
          /\ c # gw[g].conn /\ backlog' = backlog => closed'[c] = closed[c] /\ pipe'[c] = pipe[c]

LEMMA QuitsEffect ==
    ASSUME LoopTypeOK, NEW g \in Gateway,
           EndProgram(g) \/ (gw[g].conn # None /\ Leave(g)) \/ Starts(g)
    PROVE  Quits(g)
<1>1. /\ Peer(g) # g /\ \A c \in Conn : pipe[c] \in [Gateway -> Seq(Message)]
      /\ g = "client" \/ g = "server"
  BY TwoGateways DEF LoopTypeOK, Gateway
<1>2. CASE EndProgram(g)
  <2>1. \A c \in Conn : c # gw[g].conn /\ backlog' = backlog => c \notin Held(g)
    <3>1. backlog = <<>> => DOMAIN backlog = {}
      OBVIOUS
    <3> QED
      BY <1>2, <3>1 DEF EndProgram, Held
  <2>2. ASSUME NEW c \in Conn
        PROVE  /\ closed'[c] = IF c \in Held(g) THEN closed[c] \cup {g} ELSE closed[c]
               /\ pipe'[c] = IF c \in Held(g) THEN [pipe[c] EXCEPT ![g] = <<>>] ELSE pipe[c]
    BY <1>2 DEF EndProgram
  <2>3. \A c \in Conn :
          /\ closed'[c] \subseteq closed[c] \cup {g}
          /\ pipe'[c][Peer(g)] = pipe[c][Peer(g)] /\ pipe'[c][g] \in {pipe[c][g], <<>>}
    <3> SUFFICES ASSUME NEW c \in Conn
                 PROVE  /\ closed'[c] \subseteq closed[c] \cup {g}
                        /\ pipe'[c][Peer(g)] = pipe[c][Peer(g)] /\ pipe'[c][g] \in {pipe[c][g], <<>>}
      OBVIOUS
    <3>1. closed'[c] \subseteq closed[c] \cup {g}
      BY <2>2
    <3>2. /\ [pipe[c] EXCEPT ![g] = <<>>][Peer(g)] = pipe[c][Peer(g)]
          /\ [pipe[c] EXCEPT ![g] = <<>>][g] = <<>>
      BY <1>1, TwoGateways
    <3>3. pipe'[c] \in {pipe[c], [pipe[c] EXCEPT ![g] = <<>>]}
      BY <2>2
    <3> QED
      BY <3>1, <3>2, <3>3
  <2>4. backlog' \in {backlog, <<>>} /\ (g = "client" => backlog' = backlog)
    BY <1>2 DEF EndProgram
  <2>5. gw' = [gw EXCEPT ![g] = Off]
    BY <1>2 DEF EndProgram
  <2> QED
    BY <2>1, <2>2, <2>3, <2>4, <2>5 DEF Quits
<1>3. CASE gw[g].conn # None /\ Leave(g)
  <2> DEFINE d == gw[g].conn
  <2>1. d \in Conn
    BY <1>3, ConnType
  <2>2. /\ closed' = [closed EXCEPT ![d] = closed[d] \cup {g}]
        /\ pipe' = [pipe EXCEPT ![d] = [pipe[d] EXCEPT ![g] = <<>>]]
        /\ backlog' = backlog /\ gw' = [gw EXCEPT ![g] = AtLoop]
    BY <1>3 DEF Leave
  <2> HIDE DEF d
  <2>3. ASSUME NEW c \in Conn
        PROVE  /\ closed'[c] = IF c = d THEN closed[c] \cup {g} ELSE closed[c]
               /\ pipe'[c] = IF c = d THEN [pipe[c] EXCEPT ![g] = <<>>] ELSE pipe[c]
    BY <2>1, <2>2 DEF LoopTypeOK
  <2>4. \A c \in Conn :
          /\ closed'[c] \subseteq closed[c] \cup {g}
          /\ pipe'[c][Peer(g)] = pipe[c][Peer(g)] /\ pipe'[c][g] \in {pipe[c][g], <<>>}
    <3> SUFFICES ASSUME NEW c \in Conn
                 PROVE  /\ closed'[c] \subseteq closed[c] \cup {g}
                        /\ pipe'[c][Peer(g)] = pipe[c][Peer(g)] /\ pipe'[c][g] \in {pipe[c][g], <<>>}
      OBVIOUS
    <3>1. closed'[c] \subseteq closed[c] \cup {g}
      BY <2>3
    <3>2. /\ [pipe[c] EXCEPT ![g] = <<>>][Peer(g)] = pipe[c][Peer(g)]
          /\ [pipe[c] EXCEPT ![g] = <<>>][g] = <<>>
      BY <1>1, TwoGateways
    <3>3. pipe'[c] \in {pipe[c], [pipe[c] EXCEPT ![g] = <<>>]}
      BY <2>3
    <3> QED
      BY <3>1, <3>2, <3>3
  <2> QED
    BY <2>2, <2>3, <2>4 DEF Quits, d
<1>4. CASE Starts(g)
  BY <1>4 DEF Starts, Quits
<1> QED
  BY <1>2, <1>3, <1>4

\* A program goes on over its connection.
LEMMA GoesEffect ==
    ASSUME LoopTypeOK, NEW g \in Gateway, NEW q, NEW in, NEW out, Goes(g, q, in, out)
    PROVE  /\ gw[g].conn \in Conn /\ gw[g].conn # None /\ q.conn = gw[g].conn
           /\ gw'[g] = q /\ gw'[Peer(g)] = gw[Peer(g)]
           /\ pipe'[gw[g].conn][g] = in /\ pipe'[gw[g].conn][Peer(g)] = out
           /\ \A c \in Conn : c # gw[g].conn => pipe'[c] = pipe[c]
           /\ closed' = closed /\ backlog' = backlog
<1> DEFINE c == gw[g].conn
<1>1. c # None /\ c \in Conn
  BY ConnType DEF Goes
<1>2. pipe' = [pipe EXCEPT ![c] = Ends(g, in, out)]
  BY DEF Goes
<1>3. gw' = [gw EXCEPT ![g] = q] /\ q.conn = c /\ UNCHANGED <<closed, backlog>>
  BY DEF Goes
<1> HIDE DEF c
<1>4. pipe'[c] = Ends(g, in, out) /\ \A d \in Conn : d # c => pipe'[d] = pipe[d]
  BY <1>1, <1>2 DEF LoopTypeOK
<1>5. Ends(g, in, out)[g] = in /\ Ends(g, in, out)[Peer(g)] = out
  BY TwoGateways DEF Ends
<1>6. gw'[g] = q /\ gw'[Peer(g)] = gw[Peer(g)]
  BY <1>3, TwoGateways DEF LoopTypeOK
<1> QED
  BY <1>1, <1>3, <1>4, <1>5, <1>6 DEF c

\* The client gateway at a new connection.
Dials(c) ==
    /\ gw["client"].conn = None /\ c \in Conn
    /\ c \notin Waiting /\ gw["server"].conn # c
    /\ gw' = [gw EXCEPT !["client"] = AtCheck(c)]
    /\ pipe' = [pipe EXCEPT ![c] = [g \in Gateway |-> <<>>]]
    /\ closed' = [closed EXCEPT ![c] = {}]
    /\ backlog' = Append(backlog, c)

LEMMA DialsEffect ==
    ASSUME LoopTypeOK, Dial
    PROVE  EndProgram("client") \/ \E c \in Conn : Dials(c)
<1>1. CASE EndProgram("client")
  BY <1>1
<1>2. CASE /\ gw["client"].pc = "loop"
           /\ \E c \in FreeConns :
                    /\ gw' = [gw EXCEPT !["client"] = AtCheck(c)]
                    /\ pipe' = [pipe EXCEPT ![c] = [g \in Gateway |-> <<>>]]
                    /\ closed' = [closed EXCEPT ![c] = {}]
                    /\ backlog' = Append(backlog, c)
  <2>1. gw["client"].conn = None
    BY <1>2, ConnType DEF Gateway
  <2>2. \A c \in FreeConns : c \in Conn /\ c \notin Waiting /\ gw["server"].conn # c
    BY DEF FreeConns, Held, Waiting, Gateway
  <2> QED
    BY <1>2, <2>1, <2>2 DEF Dials
<1> QED
  BY <1>1, <1>2, DialEffect

\* The kinds of steps that the programs and their environment take.
LEMMA StepKinds ==
    ASSUME LoopTypeOK, NEW g \in Gateway, LoopStep(g)
    PROVE  \/ \E c \in Conn : Dials(c)
           \/ Accept
           \/ \E h \in Gateway : Quits(h)
           \/ \E q \in FitProgram : Works(g, q)
<1>1. CASE g = "client" /\ Dial
  BY <1>1, DialsEffect, QuitsEffect
<1>2. CASE EndProgram(g) \/ (gw[g].conn # None /\ Leave(g)) \/ Starts(g)
  BY <1>2, QuitsEffect
<1> QED
  BY <1>1, <1>2 DEF LoopStep
----------------------------------------------------------------------------
(* Which connections there are                                             *)

LEMMA WaitingType ==
    ASSUME LoopTypeOK
    PROVE  /\ Waiting \subseteq Conn /\ None \notin Waiting
           /\ backlog = <<>> => Waiting = {}
           /\ backlog # <<>> => /\ Head(backlog) \in Waiting /\ backlog[Len(backlog)] \in Waiting
                               /\ Head(backlog) = backlog[1]
<1>1. backlog \in Seq(Conn) /\ None \notin Conn
  BY SessionsAssumption DEF LoopTypeOK, SessionsAssumption
<1>2. backlog # <<>> => 1 \in DOMAIN backlog /\ Len(backlog) \in DOMAIN backlog /\ Head(backlog) = backlog[1]
  BY <1>1
<1>3. \A i \in DOMAIN backlog : backlog[i] \in Conn
  BY <1>1, ElementOfSeq
<1>4. backlog = <<>> => DOMAIN backlog = {}
  OBVIOUS
<1> QED
  BY <1>1, <1>2, <1>3, <1>4 DEF Waiting

LEMMA ConnectedQuits ==
    ASSUME LoopTypeOK, Connected, NEW g \in Gateway, Quits(g)
    PROVE  Connected'
<1>1. PICK p \in {AtLoop, Off} : gw' = [gw EXCEPT ![g] = p]
  BY DEF Quits
<1>2. gw'[g] = p /\ p.conn = None /\ \A h \in Gateway : h # g => gw'[h] = gw[h]
  BY <1>1 DEF LoopTypeOK, AtLoop, Off
<1>3. Waiting' \subseteq Waiting /\ (g = "server" \/ backlog' = backlog) /\ backlog' \in {backlog, <<>>}
  <2>1. DOMAIN <<>> = {}
    OBVIOUS
  <2> QED
    BY <2>1 DEF Waiting, Quits, Gateway
<1>4. \A i, j \in DOMAIN backlog' : i # j => backlog'[i] # backlog'[j]
  <2>1. DOMAIN <<>> = {}
    OBVIOUS
  <2> QED
    BY <1>3, <2>1 DEF Connected
<1>5. gw'["server"].conn \notin Waiting'
  BY <1>2, <1>3, WaitingType DEF Connected, Gateway
<1>6. ASSUME NEW c \in Waiting' PROVE "server" \notin closed'[c] /\ pipe'[c]["client"] = <<>>
  <2>1. c \in Waiting /\ c \in Conn /\ backlog' = backlog
    <3>1. Waiting' # {} => backlog' # <<>>
      BY DEF Waiting
    <3> QED
      BY <1>3, <1>6, <3>1, WaitingType
  <2>2. "server" \notin closed[c] /\ pipe[c]["client"] = <<>>
    BY <2>1 DEF Connected
  <2>3. CASE g = "client"
    BY <2>1, <2>2, <2>3 DEF Quits
  <2>4. CASE g = "server"
    BY <2>1, <2>2, <2>4 DEF Quits, Connected
  <2> QED
    BY <2>3, <2>4 DEF Gateway
<1>7. ASSUME NEW h \in Gateway, gw'[h].conn # None PROVE h \notin closed'[gw'[h].conn]
  <2>1. h # g /\ gw'[h] = gw[h] /\ gw[h].conn \in Conn
    BY <1>2, <1>7, ConnType
  <2> QED
    BY <1>7, <2>1 DEF Connected, Quits
<1>8. gw'["client"].conn # None =>
           IF backlog' = <<>> THEN gw'["server"].conn \in {gw'["client"].conn, None}
           ELSE backlog'[Len(backlog')] = gw'["client"].conn /\ gw'["client"].key = None
  <2>1. CASE g = "client"
    BY <1>2, <2>1
  <2>2. CASE g = "server"
    BY <1>2, <1>3, <2>2 DEF Connected, Gateway
  <2> QED
    BY <2>1, <2>2 DEF Gateway
<1> QED
  BY <1>4, <1>5, <1>6, <1>7, <1>8 DEF Connected

LEMMA ConnectedAccept ==
    ASSUME LoopTypeOK, Connected, Accept
    PROVE  Connected'
<1> DEFINE c == Head(backlog)
<1>1. /\ backlog # <<>> /\ backlog \in Seq(Conn) /\ c \in Conn /\ c \in Waiting /\ c = backlog[1]
      /\ gw["server"].pc = "loop"
      /\ gw' = [gw EXCEPT !["server"] = AtCheck(c)] /\ backlog' = Tail(backlog)
      /\ pipe' = pipe /\ closed' = closed
  <2>1. backlog # <<>> /\ gw["server"].pc = "loop"
    BY DEF Accept
  <2>2. c \in Waiting /\ c \in Conn /\ c = backlog[1]
    BY <2>1, WaitingType
  <2> QED
    BY <2>1, <2>2 DEF Accept, AtCheck, LoopTypeOK
<1> HIDE DEF c
<1>2. gw'["server"].conn = c /\ gw'["client"] = gw["client"]
  BY <1>1 DEF LoopTypeOK, Gateway, AtCheck, AtLoop
<1>3. /\ Len(backlog) \in Nat \ {0} /\ DOMAIN backlog = 1 .. Len(backlog)
      /\ Len(backlog') = Len(backlog) - 1 /\ DOMAIN backlog' = 1 .. (Len(backlog) - 1)
      /\ \A i \in 1 .. (Len(backlog) - 1) : backlog'[i] = backlog[i + 1]
  BY <1>1
<1>4. \A i \in DOMAIN backlog' : i + 1 \in DOMAIN backlog /\ i + 1 # 1 /\ backlog'[i] = backlog[i + 1]
  BY <1>3
<1>5. \A i, j \in DOMAIN backlog' : i # j => backlog'[i] # backlog'[j]
  <2>1. \A i, j \in DOMAIN backlog' : i # j => i + 1 # j + 1
    BY <1>3
  <2> QED
    BY <1>4, <2>1 DEF Connected
<1>6. Waiting' \subseteq Waiting /\ c \notin Waiting'
  <2>1. \A i \in DOMAIN backlog' : backlog[i + 1] # backlog[1]
    <3>1. 1 \in DOMAIN backlog
      BY <1>3
    <3> QED
      BY <1>4, <3>1 DEF Connected
  <2> QED
    BY <1>1, <1>4, <2>1 DEF Waiting
<1>7. \A d \in Waiting' : "server" \notin closed'[d] /\ pipe'[d]["client"] = <<>>
  BY <1>1, <1>6 DEF Connected
<1>8. \A h \in Gateway : gw'[h].conn # None => h \notin closed'[gw'[h].conn]
  BY <1>1, <1>2 DEF Connected, Gateway
<1>9. ASSUME gw'["client"].conn # None
      PROVE  IF backlog' = <<>> THEN gw'["server"].conn \in {gw'["client"].conn, None}
             ELSE backlog'[Len(backlog')] = gw'["client"].conn /\ gw'["client"].key = None
  <2>1. backlog[Len(backlog)] = gw["client"].conn /\ gw["client"].key = None
    BY <1>1, <1>2, <1>9 DEF Connected
  <2>2. CASE backlog' = <<>>
    <3>0. Len(backlog') = 0
      BY <2>2
    <3>1. Len(backlog) = 1
      BY <1>3, <3>0
    <3> QED
      BY <1>1, <1>2, <2>1, <2>2, <3>1
  <2>3. CASE backlog' # <<>>
    <3>1. backlog' \in Seq(Conn)
      BY <1>1
    <3>2. Len(backlog') # 0
      BY <2>3, <3>1, EmptySeq
    <3>3. backlog'[Len(backlog')] = backlog[Len(backlog)]
      BY <1>3, <3>2
    <3> QED
      BY <1>2, <2>1, <2>3, <3>3
  <2> QED
    BY <2>2, <2>3
<1> QED
  BY <1>2, <1>5, <1>6, <1>7, <1>8, <1>9 DEF Connected

LEMMA ConnectedDials ==
    ASSUME LoopTypeOK, Connected, NEW c \in Conn, Dials(c)
    PROVE  Connected'
<1>1. gw'["client"].conn = c /\ gw'["client"].key = None /\ gw'["server"] = gw["server"]
  BY DEF LoopTypeOK, Gateway, AtCheck, AtLoop, Dials
<1>2. /\ pipe'[c]["client"] = <<>> /\ closed'[c] = {}
      /\ \A d \in Conn : d # c => pipe'[d] = pipe[d] /\ closed'[d] = closed[d]
  BY DEF LoopTypeOK, Gateway, Dials
<1>3. /\ backlog \in Seq(Conn) /\ Len(backlog) \in Nat
      /\ DOMAIN backlog = 1 .. Len(backlog) /\ DOMAIN backlog' = 1 .. (Len(backlog) + 1)
      /\ Len(backlog') = Len(backlog) + 1 /\ backlog'[Len(backlog) + 1] = c
      /\ \A i \in 1 .. Len(backlog) : backlog'[i] = backlog[i]
  BY AppendProperties DEF LoopTypeOK, Dials
<1>4. \A i \in DOMAIN backlog' : IF i = Len(backlog) + 1 THEN backlog'[i] = c
                               ELSE i \in DOMAIN backlog /\ backlog'[i] = backlog[i]
  BY <1>3
<1>5. \A i \in DOMAIN backlog : backlog[i] # c
  BY DEF Dials, Waiting
<1>6. \A i, j \in DOMAIN backlog' : i # j => backlog'[i] # backlog'[j]
  BY <1>4, <1>5 DEF Connected
<1>7. \A d \in Waiting' : d = c \/ d \in Waiting
  BY <1>4 DEF Waiting
<1>8. gw'["server"].conn \notin Waiting'
  BY <1>1, <1>7 DEF Connected, Dials
<1>9. \A d \in Waiting' : "server" \notin closed'[d] /\ pipe'[d]["client"] = <<>>
  BY <1>2, <1>7, WaitingType DEF Connected
<1>10. ASSUME NEW h \in Gateway, gw'[h].conn # None PROVE h \notin closed'[gw'[h].conn]
  <2>1. CASE h = "client"
    BY <1>1, <1>2, <2>1
  <2>2. CASE h = "server"
    <3>1. gw["server"].conn \in Conn /\ gw["server"].conn # c /\ gw["server"].conn # None
      BY <1>1, <1>10, <2>2, ConnType DEF Dials, Gateway
    <3> QED
      BY <1>1, <1>2, <2>2, <3>1 DEF Connected, Gateway
  <2> QED
    BY <2>1, <2>2 DEF Gateway
<1>11. backlog' # <<>> /\ backlog'[Len(backlog')] = c
  BY <1>3
<1> QED
  BY <1>1, <1>6, <1>8, <1>9, <1>10, <1>11 DEF Connected

LEMMA ConnectedWorks ==
    ASSUME LoopTypeOK, store \in [Gateway -> Store], Connected,
           NEW g \in Gateway, NEW q, Works(g, q)
    PROVE  Connected'
<1> DEFINE c == gw[g].conn
<1>1. PICK in, out : /\ Goes(g, q, in, out) /\ Sends(g, out)
                     /\ in = Inbox(g) \/ (Inbox(g) # <<>> /\ in = Tail(Inbox(g)))
  BY WorksGoes
<1>2. /\ c \in Conn /\ c # None /\ q.conn = c /\ gw'[g] = q /\ gw'[Peer(g)] = gw[Peer(g)]
      /\ pipe'[c][g] = in /\ pipe'[c][Peer(g)] = out
      /\ \A d \in Conn : d # c => pipe'[d] = pipe[d]
      /\ closed' = closed /\ backlog' = backlog
  BY <1>1, GoesEffect
<1>3. c \in Waiting => g = "client" /\ Inbox(g) = <<>>
  BY DEF Connected, Gateway, Inbox
<1>4. \A h \in Gateway : gw'[h].conn = gw[h].conn
  BY <1>2, TwoGateways
<1> HIDE DEF c
<1>5. Waiting' = Waiting
  BY <1>2 DEF Waiting
<1>6. \A d \in Waiting' : "server" \notin closed'[d] /\ pipe'[d]["client"] = <<>>
  BY <1>1, <1>2, <1>3, <1>5, WaitingType DEF Connected
<1>7. gw["client"].conn # None /\ backlog # <<>> => gw'["client"].key = None
  <2>1. SUFFICES ASSUME gw["client"].conn # None, backlog # <<>> PROVE gw'["client"].key = None
    OBVIOUS
  <2>2. gw["client"].conn \in Waiting /\ gw["client"].key = None
    BY <2>1, WaitingType DEF Connected
  <2>3. CASE g = "server"
    BY <1>2, <2>2, <2>3 DEF Peer
  <2>4. CASE g = "client"
    <3>1. Inbox(g) = <<>> /\ gw[g].key = None /\ gw[g] \in Program
      BY <1>3, <2>2, <2>4, ConnType DEF c
    <3>2. CASE Checks(g, q)
      <4> DEFINE p == [gw[g] EXCEPT !.pub = store[g].file]
      <4>1. p \in Program /\ p.key = None /\ p.conn # None
        BY <1>2, <3>1 DEF Program, Store, c
      <4>2. q = [p EXCEPT !.pc = "sign"] \/ q \in Finished(g, p, None)
        BY <3>2 DEF Checks
      <4> HIDE DEF p
      <4>3. ASSUME q \in Finished(g, p, None) PROVE q.key = None
        <5>1. None \in SessionKey \cup {None}
          OBVIOUS
        <5>2. (p.run = 1 => q.key = None) /\ (p.run # 1 => q.key = p.key)
          BY <4>1, <4>3, <5>1, FinishedKey
        <5> QED
          BY <4>1, <5>2
      <4>4. q = [p EXCEPT !.pc = "sign"] => q.key = None
        BY <4>1 DEF Program
      <4> QED
        BY <1>2, <2>4, <4>2, <4>3, <4>4
    <3>3. CASE Signs(g, q)
      BY <1>2, <2>4, <3>1, <3>3 DEF Signs, Program
    <3>4. CASE Opens(g, q)
      BY <3>1, <3>4 DEF Opens
    <3>5. CASE Forwards(g, q)
      BY <1>2, <2>4, <3>1, <3>5 DEF Forwards
    <3> QED
      BY <3>1, <3>2, <3>3, <3>4, <3>5 DEF Works, Receives, Misreads
  <2> QED
    BY <2>3, <2>4 DEF Gateway
<1> QED
  BY <1>2, <1>4, <1>5, <1>6, <1>7 DEF Connected, Gateway

LEMMA ConnectedStep ==
    ASSUME LoopTypeOK, store \in [Gateway -> Store], Connected, NEW g \in Gateway, LoopStep(g)
    PROVE  Connected'
<1>1. ASSUME NEW c \in Conn, Dials(c) PROVE Connected'
  BY <1>1, ConnectedDials
<1>2. ASSUME NEW h \in Gateway, Quits(h) PROVE Connected'
  BY <1>2, ConnectedQuits
<1>3. ASSUME NEW q \in FitProgram, Works(g, q) PROVE Connected'
  BY <1>3, ConnectedWorks
<1> QED
  BY <1>1, <1>2, <1>3, ConnectedAccept, StepKinds

----------------------------------------------------------------------------
(* Anything may happen, but nothing is measured                            *)

LEMMA AgreedKey ==
    ASSUME NEW g \in Gateway, NEW m, gw[g].run = 1, m.run = 1
    PROVE  /\ FirstRuns # None
           /\ Agreed(g, m) \in {None, FirstRuns}
           /\ Agreed(g, m) # None <=> gw[g].pub = m.signer
<1>1. FirstRuns \in SessionKey
  BY SessionsAssumption DEF SessionsAssumption, FirstRuns, SessionKey, Runs
<1>2. FirstRuns # None
  BY <1>1, SessionsAssumption DEF SessionsAssumption
<1>3. [h \in Gateway |-> IF h = g THEN gw[g].run ELSE m.run] = FirstRuns
  BY DEF FirstRuns
<1> HIDE DEF FirstRuns
<1> QED
  BY <1>2, <1>3 DEF Agreed, VerifyRsaSignature

\* What a program does in its one run of the exchange and afterwards.
OneRun(g, q, out) ==
    /\ q.run = 1 /\ q.key \in {None, FirstRuns}
    /\ \/ out = Outbox(g)
       \/ Signed(q) /\ q.signer \in SignKey /\ out = Append(Outbox(g), [run |-> 1, signer |-> q.signer])
    /\ Signed(gw[g]) => Signed(q) /\ q.signer = gw[g].signer
    /\ q.key # None => /\ q.pc \in {"plain", "transfer"} /\ q.pub = gw[g].pub
                       /\ gw[g].key # None \/ (Inbox(g) # <<>> /\ q.pub = Head(Inbox(g)).signer)

LEMMA OneRunWorks ==
    ASSUME LoopTypeOK, store \in [Gateway -> Store], FirstKeys, UnmeasuredInv,
           NEW g \in Gateway, NEW q, Works(g, q)
    PROVE  \E in, out : /\ Goes(g, q, in, out) /\ OneRun(g, q, out)
                        /\ in = Inbox(g) \/ (Inbox(g) # <<>> /\ in = Tail(Inbox(g)))
<1>1. /\ gw[g].run = 1 /\ gw[g].key \in {None, FirstRuns} /\ measure = {} /\ gw[g].conn # None
      /\ gw[g] \in Program /\ Inbox(g) \in Seq(Message)
      /\ gw[g].key # None => gw[g].pc \in {"plain", "transfer"}
  <2>1. gw[g].conn # None
    BY WorksGoes
  <2> QED
    BY <2>1, ConnType DEF UnmeasuredInv, Exchanged, FirstKeys
<1>2. Inbox(g) # <<>> => Head(Inbox(g)).run = 1
  <2>1. gw[g].conn \in Conn
    BY <1>1, ConnType
  <2>2. Inbox(g) \in Seq([run : {1}, signer : SignKey])
    BY <2>1 DEF UnmeasuredInv, Inbox
  <2>3. Inbox(g) # <<>> => Head(Inbox(g)) \in [run : {1}, signer : SignKey]
    BY <2>2, HeadTailProperties
  <2> QED
    BY <2>3
<1>3. CASE Checks(g, q)
  <2> DEFINE p == [gw[g] EXCEPT !.pub = store[g].file]
  <2>1. p \in Program /\ p.key = None /\ p.conn # None /\ p.run = 1 /\ gw[g].pc = "check"
    BY <1>1, <1>3 DEF Program, Store, Checks
  <2>2. q = [p EXCEPT !.pc = "sign"] \/ q \in Finished(g, p, None)
    BY <1>3 DEF Checks
  <2> HIDE DEF p
  <2>3. ASSUME q \in Finished(g, p, None) PROVE q.key = None /\ q.run = 1
    <3>1. None \in SessionKey \cup {None}
      OBVIOUS
    <3>2. q.key = None
      BY <2>1, <2>3, <3>1, FinishedKey
    <3>3. q.run = 1
      BY <1>1, <2>1, <2>3, <3>1, FinishedNext
    <3> QED
      BY <3>2, <3>3
  <2>4. q = [p EXCEPT !.pc = "sign"] => q.key = None /\ q.run = 1
    BY <2>1 DEF Program
  <2>5. OneRun(g, q, Outbox(g))
    BY <2>1, <2>2, <2>3, <2>4 DEF OneRun, Signed
  <2> QED
    BY <1>3, <2>5 DEF Checks
<1>4. CASE Signs(g, q)
  <2> DEFINE out == IF SendsFirst(g) THEN WithKey(g, store[g].sign) ELSE Outbox(g)
  <2>1. /\ gw[g].pc = "sign" /\ store[g].sign \in SignKey
        /\ q = [gw[g] EXCEPT !.pc = "receive", !.signer = store[g].sign]
        /\ Goes(g, q, Inbox(g), out)
    BY <1>4 DEF Signs, CanSign, Store
  <2>2. out \in {Outbox(g), Append(Outbox(g), [run |-> 1, signer |-> store[g].sign])}
    BY <1>1, <2>1, WithKeyType
  <2>3. q.pc = "receive" /\ q.signer = store[g].sign /\ q.key = None /\ q.run = 1
    BY <1>1, <2>1 DEF Program
  <2> HIDE DEF out
  <2>4. OneRun(g, q, out)
    BY <2>1, <2>2, <2>3 DEF OneRun, Signed
  <2> QED
    BY <2>1, <2>4
<1>5. CASE Receives(g, q)
  <2> DEFINE out == IF SendsFirst(g) THEN Outbox(g) ELSE WithKey(g, gw[g].signer)
             key == Agreed(g, Head(Inbox(g)))
  <2>1. /\ gw[g].pc = "receive" /\ Inbox(g) # <<>> /\ ~IsTraffic(Head(Inbox(g)))
        /\ q \in Finished(g, gw[g], key) /\ Goes(g, q, Tail(Inbox(g)), out)
    BY <1>5 DEF Receives
  <2>2. gw[g].signer \in SignKey
    BY <1>1, <2>1 DEF Program, LoopTypeOK, FitProgram
  <2>3. out \in {Outbox(g), Append(Outbox(g), [run |-> 1, signer |-> gw[g].signer])}
    BY <1>1, <2>2, WithKeyType
  <2> HIDE DEF out
  <2>4. key \in {None, FirstRuns} /\ (key # None => gw[g].pub = Head(Inbox(g)).signer)
    BY <1>1, <1>2, <2>1, AgreedKey
  <2>5. key \in SessionKey \cup {None}
    <3>1. gw[g].run \in Runs /\ Head(Inbox(g)) \in Message
      BY <1>1, <2>1, HeadTailProperties DEF Program
    <3> QED
      BY <2>1, <3>1, AgreedType
  <2> HIDE DEF key
  <2>6. q.key = key
    BY <1>1, <2>1, <2>5, FinishedKey
  <2>7. q.pc = "plain" /\ q.run = 1
    BY <1>1, <2>1, <2>5, FinishedNext
  <2>8. q.pub = gw[g].pub /\ q.signer = gw[g].signer
    BY <1>1, <2>1, <2>5, FinishedType
  <2>9. OneRun(g, q, out)
    BY <2>1, <2>2, <2>3, <2>4, <2>6, <2>7, <2>8 DEF OneRun, Signed
  <2> QED
    BY <2>1, <2>9
<1>6. CASE Misreads(g, q)
  BY <1>2, <1>6 DEF Misreads, IsTraffic
<1>7. CASE Opens(g, q)
  <2>1. q = [gw[g] EXCEPT !.pc = "transfer"] /\ gw[g].key # None /\ Goes(g, q, Inbox(g), Outbox(g))
    BY <1>7 DEF Opens
  <2>2. q.pc = "transfer" /\ q.key = gw[g].key /\ q.pub = gw[g].pub /\ q.signer = gw[g].signer /\ q.run = 1
    BY <1>1, <2>1 DEF Program
  <2>3. OneRun(g, q, Outbox(g))
    BY <1>1, <2>1, <2>2 DEF OneRun, Signed
  <2> QED
    BY <2>1, <2>3
<1>8. CASE Forwards(g, q)
  <2>1. q = gw[g] /\ Inbox(g) # <<>> /\ Goes(g, q, Tail(Inbox(g)), Outbox(g))
    BY <1>1, <1>8 DEF Forwards
  <2>2. OneRun(g, q, Outbox(g))
    BY <1>1, <2>1 DEF OneRun
  <2> QED
    BY <2>1, <2>2
<1> QED
  BY <1>3, <1>4, <1>5, <1>6, <1>7, <1>8 DEF Works

Sent(signer) == Seq({[run |-> 1, signer |-> signer]})

LEMMA SentProperties ==
    ASSUME NEW signer, NEW s \in Sent(signer)
    PROVE  /\ <<>> \in Sent(signer)
           /\ Append(s, [run |-> 1, signer |-> signer]) \in Sent(signer)
           /\ s # <<>> => Tail(s) \in Sent(signer) /\ Head(s).signer = signer
<1> DEFINE S == {[run |-> 1, signer |-> signer]}
<1>1. [run |-> 1, signer |-> signer] \in S /\ s \in Seq(S)
  BY DEF Sent
<1> HIDE DEF S
<1>2. <<>> \in Seq(S) /\ Append(s, [run |-> 1, signer |-> signer]) \in Seq(S)
  BY <1>1, AppendProperties
<1>3. s # <<>> => Tail(s) \in Seq(S) /\ Head(s) \in S
  BY <1>1, HeadTailProperties
<1> QED
  BY <1>2, <1>3 DEF Sent, S

LEMMA UnmeasuredWorks ==
    ASSUME LoopTypeOK, store \in [Gateway -> Store], FirstKeys, UnmeasuredInv,
           measure' = measure, NEW g \in Gateway, NEW q, Works(g, q)
    PROVE  FirstKeys' /\ UnmeasuredInv'
<1> DEFINE h == Peer(g)
           c == gw[g].conn
<1>1. PICK in, out : /\ Goes(g, q, in, out) /\ OneRun(g, q, out)
                     /\ in = Inbox(g) \/ (Inbox(g) # <<>> /\ in = Tail(Inbox(g)))
  BY OneRunWorks
<1>2. /\ c \in Conn /\ c # None /\ q.conn = c /\ gw'[g] = q /\ gw'[h] = gw[h]
      /\ pipe'[c][g] = in /\ pipe'[c][h] = out
      /\ \A d \in Conn : d # c => pipe'[d] = pipe[d]
  BY <1>1, GoesEffect
<1>3. /\ h \in Gateway /\ h # g /\ Peer(h) = g /\ Peer(g) = h
      /\ \A k \in Gateway : k = g \/ k = h
  BY TwoGateways
<1>4. Inbox(g) = pipe[c][g] /\ Outbox(g) = pipe[c][h]
  BY DEF Inbox, Outbox
<1>5. Exchanged(g) /\ Exchanged(h) /\ measure = {}
  BY <1>3 DEF UnmeasuredInv
<1>6. gw[h].conn # None => gw[h].conn \in Conn
  BY <1>3, ConnType
<1> HIDE DEF h, c
<1>7. FirstKeys'
  BY <1>1, <1>2, <1>3 DEF FirstKeys, OneRun
<1>8. \A d \in Conn, k \in Gateway : pipe'[d][k] \in Seq([run : {1}, signer : SignKey])
  <2> DEFINE M == [run : {1}, signer : SignKey]
  <2>1. Inbox(g) \in Seq(M) /\ Outbox(g) \in Seq(M) /\ \A d \in Conn, k \in Gateway : pipe[d][k] \in Seq(M)
    BY <1>2, <1>3, <1>4 DEF UnmeasuredInv
  <2>2. q.signer \in SignKey => [run |-> 1, signer |-> q.signer] \in M
    OBVIOUS
  <2> HIDE DEF M
  <2>3. in \in Seq(M)
    BY <1>1, <2>1, HeadTailProperties
  <2>4. out \in Seq(M)
    BY <1>1, <2>1, <2>2, AppendProperties DEF OneRun
  <2>5. \A d \in Conn, k \in Gateway : pipe'[d][k] \in Seq(M)
    BY <1>2, <1>3, <2>1, <2>3, <2>4
  <2> QED
    BY <2>5 DEF M
<1>9. Exchanged(g)'
  <2>1. out \in Sent(q.signer) /\ (out # <<>> => Signed(q))
    <3>1. Outbox(g) \in Sent(gw[g].signer) /\ (Outbox(g) # <<>> => Signed(gw[g]))
      BY <1>2, <1>3, <1>4, <1>5 DEF Exchanged, Sent, c
    <3>2. Outbox(g) \in Sent(q.signer)
      <4>1. Signed(gw[g]) => q.signer = gw[g].signer
        BY <1>1 DEF OneRun
      <4>2. <<>> \in Sent(q.signer)
        BY DEF Sent
      <4> QED
        BY <3>1, <4>1, <4>2
    <3>3. CASE out = Outbox(g)
      BY <1>1, <3>1, <3>2, <3>3 DEF OneRun
    <3>4. CASE Signed(q) /\ out = Append(Outbox(g), [run |-> 1, signer |-> q.signer])
      BY <3>2, <3>4, SentProperties
    <3> QED
      BY <1>1, <3>3, <3>4 DEF OneRun
  <2>2. q.key # None => q.pc \in {"plain", "transfer"} /\ q.run = 1
    BY <1>1 DEF OneRun
  <2>3. q.run = 1
    BY <1>1 DEF OneRun
  <2>4. q.key # None /\ q.conn = gw[h].conn => q.pub = gw[h].signer /\ Signed(gw[h])
    <3>1. SUFFICES ASSUME q.key # None, gw[h].conn = c PROVE q.pub = gw[h].signer /\ Signed(gw[h])
      BY <1>2
    <3>2. q.pub = gw[g].pub /\ (gw[g].key # None \/ (Inbox(g) # <<>> /\ q.pub = Head(Inbox(g)).signer))
      BY <1>1, <3>1 DEF OneRun
    <3>3. CASE gw[g].key # None
      BY <1>3, <1>5, <3>1, <3>2, <3>3 DEF Exchanged, c
    <3>4. CASE Inbox(g) # <<>> /\ q.pub = Head(Inbox(g)).signer
      <4>1. Inbox(g) \in Sent(gw[h].signer) /\ Signed(gw[h])
        BY <1>2, <1>3, <1>4, <1>5, <3>1, <3>4 DEF Exchanged, Sent
      <4> QED
        BY <3>4, <4>1, SentProperties
    <3> QED
      BY <3>2, <3>3, <3>4
  <2> QED
    BY <1>2, <1>3, <2>1, <2>2, <2>3, <2>4 DEF Exchanged, Sent
<1>10. Exchanged(h)'
  <2>1. gw[h].conn = c => in \in Sent(gw[h].signer) /\ (in # <<>> => Signed(gw[h]))
    <3>1. gw[h].conn = c => Inbox(g) \in Sent(gw[h].signer) /\ (Inbox(g) # <<>> => Signed(gw[h]))
      BY <1>2, <1>3, <1>4, <1>5 DEF Exchanged, Sent
    <3>2. gw[h].conn = c /\ Inbox(g) # <<>> => Tail(Inbox(g)) \in Sent(gw[h].signer)
      BY <3>1, SentProperties
    <3> QED
      BY <1>1, <3>1, <3>2
  <2>2. gw[h].conn # None =>
           /\ pipe'[gw[h].conn][g] \in Sent(gw[h].signer)
           /\ pipe'[gw[h].conn][g] # <<>> => Signed(gw[h])
    <3>1. CASE gw[h].conn = c
      BY <1>2, <2>1, <3>1
    <3>2. CASE gw[h].conn # c
      BY <1>2, <1>3, <1>5, <1>6, <3>2 DEF Exchanged, Sent
    <3> QED
      BY <3>1, <3>2
  <2>3. gw[h].key # None /\ gw[h].conn = q.conn => gw[h].pub = q.signer /\ Signed(q)
    BY <1>1, <1>2, <1>3, <1>5 DEF Exchanged, OneRun, c
  <2> QED
    BY <1>2, <1>3, <1>5, <2>2, <2>3 DEF Exchanged, Sent
<1> QED
  BY <1>3, <1>5, <1>7, <1>8, <1>9, <1>10 DEF UnmeasuredInv

LEMMA AtCheckFields ==
    ASSUME NEW c
    PROVE  /\ AtCheck(c).run = 1 /\ AtCheck(c).key = None /\ AtCheck(c).pc = "check"
           /\ AtCheck(c).conn = c
BY DEF AtLoop, AtCheck

LEMMA UnmeasuredQuits ==
    ASSUME LoopTypeOK, FirstKeys, UnmeasuredInv, measure' = measure, NEW g \in Gateway, Quits(g)
    PROVE  FirstKeys' /\ UnmeasuredInv'
<1> DEFINE h == Peer(g)
<1>1. /\ h \in Gateway /\ h # g /\ Peer(h) = g /\ Peer(g) = h
      /\ \A k \in Gateway : k = g \/ k = h
  BY TwoGateways
<1>2. PICK p \in {AtLoop, Off} : gw' = [gw EXCEPT ![g] = p]
  BY DEF Quits
<1>3. gw'[g] = p /\ gw'[h] = gw[h] /\ p.run = 1 /\ p.key = None /\ p.conn = None
  BY <1>1, <1>2 DEF LoopTypeOK, AtLoop, Off
<1>4. \A c \in Conn : pipe'[c][h] = pipe[c][h] /\ pipe'[c][g] \in {pipe[c][g], <<>>}
  BY DEF Quits
<1>5. Exchanged(g) /\ Exchanged(h) /\ measure = {}
  BY <1>1 DEF UnmeasuredInv
<1>6. gw[h] \in Program /\ (gw[h].conn # None => gw[h].conn \in Conn)
      /\ (gw[h].conn = None <=> gw[h].pc \in {"off", "loop"})
  BY <1>1, ConnType
<1> HIDE DEF h
<1>7. FirstKeys'
  BY <1>1, <1>3 DEF FirstKeys
<1>8. \A d \in Conn, k \in Gateway : pipe'[d][k] \in Seq([run : {1}, signer : SignKey])
  <2>1. <<>> \in Seq([run : {1}, signer : SignKey])
    OBVIOUS
  <2> QED
    BY <1>1, <1>4, <2>1 DEF UnmeasuredInv
<1>9. Exchanged(g)'
  BY <1>3 DEF Exchanged
<1>10. Exchanged(h)'
  <2>1. gw[h].conn # None =>
           /\ pipe'[gw[h].conn][g] \in Sent(gw[h].signer)
           /\ pipe'[gw[h].conn][g] # <<>> => Signed(gw[h])
    BY <1>1, <1>4, <1>5, <1>6, SentProperties DEF Exchanged, Sent
  <2>2. gw[h].key # None => gw[h].conn # None
    BY <1>5, <1>6 DEF Exchanged
  <2> QED
    BY <1>1, <1>3, <1>5, <2>1, <2>2 DEF Exchanged, Sent
<1> QED
  BY <1>1, <1>5, <1>7, <1>8, <1>9, <1>10 DEF UnmeasuredInv

LEMMA UnmeasuredDials ==
    ASSUME LoopTypeOK, FirstKeys, UnmeasuredInv, measure' = measure, NEW c \in Conn, Dials(c)
    PROVE  FirstKeys' /\ UnmeasuredInv'
<1>1. gw'["client"] = AtCheck(c) /\ gw'["server"] = gw["server"] /\ gw["server"].conn # c
  BY DEF LoopTypeOK, Gateway, Dials
<1>2. AtCheck(c).run = 1 /\ AtCheck(c).key = None /\ AtCheck(c).conn = c
  BY AtCheckFields
<1>3. /\ pipe'[c]["client"] = <<>> /\ pipe'[c]["server"] = <<>>
      /\ \A d \in Conn : d # c => pipe'[d] = pipe[d]
  BY DEF LoopTypeOK, Gateway, Dials
<1>4. Exchanged("server") /\ measure = {} /\ (gw["server"].conn # None => gw["server"].conn \in Conn)
  BY ConnType DEF UnmeasuredInv, Gateway
<1>5. FirstKeys'
  BY <1>1, <1>2 DEF FirstKeys, Gateway
<1>6. \A d \in Conn, k \in Gateway : pipe'[d][k] \in Seq([run : {1}, signer : SignKey])
  <2>1. <<>> \in Seq([run : {1}, signer : SignKey])
    OBVIOUS
  <2> QED
    BY <1>3, <2>1 DEF UnmeasuredInv, Gateway
<1>7. Exchanged("client")'
  <2>1. <<>> \in Seq({[run |-> 1, signer |-> AtCheck(c).signer]})
    OBVIOUS
  <2> QED
    BY <1>1, <1>2, <1>3, <2>1 DEF Exchanged, Peer
<1>8. Exchanged("server")'
  BY <1>1, <1>2, <1>3, <1>4 DEF Exchanged, Peer
<1> QED
  BY <1>4, <1>5, <1>6, <1>7, <1>8 DEF UnmeasuredInv, Gateway

LEMMA UnmeasuredAccept ==
    ASSUME LoopTypeOK, Connected, FirstKeys, UnmeasuredInv, measure' = measure, Accept
    PROVE  FirstKeys' /\ UnmeasuredInv'
<1> DEFINE c == Head(backlog)
<1>1. /\ c \in Waiting /\ c \in Conn /\ backlog # <<>> /\ pipe' = pipe
      /\ gw' = [gw EXCEPT !["server"] = AtCheck(c)]
  BY WaitingType DEF Accept, AtCheck
<1> HIDE DEF c
<1>2. gw'["server"] = AtCheck(c) /\ gw'["client"] = gw["client"]
  BY <1>1 DEF LoopTypeOK, Gateway
<1>3. AtCheck(c).run = 1 /\ AtCheck(c).key = None /\ AtCheck(c).conn = c
  BY AtCheckFields
<1>4. pipe[c]["client"] = <<>> /\ (gw["client"].conn # None => gw["client"].key = None)
  BY <1>1 DEF Connected
<1>5. /\ Exchanged("client") /\ measure = {} /\ (gw["client"].conn # None => gw["client"].conn \in Conn)
      /\ gw["client"].conn = None <=> gw["client"].pc \in {"off", "loop"}
  BY ConnType DEF UnmeasuredInv, Gateway
<1>6. gw["client"].key = None
  BY <1>4, <1>5 DEF Exchanged
<1>7. FirstKeys'
  BY <1>2, <1>3 DEF FirstKeys, Gateway
<1>8. Exchanged("server")'
  <2>1. <<>> \in Seq({[run |-> 1, signer |-> AtCheck(c).signer]})
    OBVIOUS
  <2> QED
    BY <1>1, <1>2, <1>3, <1>4, <2>1 DEF Exchanged, Peer
<1>9. Exchanged("client")'
  BY <1>1, <1>2, <1>5, <1>6 DEF Exchanged, Peer
<1> QED
  BY <1>1, <1>5, <1>7, <1>8, <1>9 DEF UnmeasuredInv, Gateway

LEMMA UnmeasuredStep ==
    ASSUME LoopTypeOK, store \in [Gateway -> Store], Connected, FirstKeys, UnmeasuredInv,
           measure' = measure, NEW g \in Gateway, LoopStep(g)
    PROVE  FirstKeys' /\ UnmeasuredInv'
<1>1. ASSUME NEW c \in Conn, Dials(c) PROVE FirstKeys' /\ UnmeasuredInv'
  BY <1>1, UnmeasuredDials
<1>2. ASSUME NEW h \in Gateway, Quits(h) PROVE FirstKeys' /\ UnmeasuredInv'
  BY <1>2, UnmeasuredQuits
<1>3. ASSUME NEW q \in FitProgram, Works(g, q) PROVE FirstKeys' /\ UnmeasuredInv'
  BY <1>3, UnmeasuredWorks
<1> QED
  BY <1>1, <1>2, <1>3, UnmeasuredAccept, StepKinds

----------------------------------------------------------------------------
(* The deployment is calm                                                  *)

\* What comes first over the connection of a gateway that waits for it.
LEMMA CalmHead ==
    ASSUME LoopTypeOK, CalmInv, NEW g \in Gateway, gw[g].conn # None, First(gw[g]), Inbox(g) # <<>>
    PROVE  Head(Inbox(g)) = [run |-> 1, signer |-> Pairing[g].seal]
<1>1. gw[g].conn \in Conn /\ Awaits(g, gw[g].conn) /\ pipe[gw[g].conn][g] # <<>>
  BY ConnType DEF Awaits, Inbox
<1> QED
  BY <1>1 DEF CalmInv, FirstComes, Inbox

\* The program q of g holds what the association has left.
Paired(g, q) ==
    /\ q.pc \in {"sign", "receive", "plain", "transfer"} => q.pub = Pairing[g].seal
    /\ Signed(q) => q.signer = Pairing[g].sign
    /\ ~First(q) => q.key # None
    /\ q.key \in {None, FirstRuns}

\* What a program does there.
CalmRun(g, q, in, out) ==
    /\ Paired(g, q)
    /\ First(q) => First(gw[g]) /\ in = Inbox(g)
    /\ in = Inbox(g) \/ Inbox(g) # <<>>
    /\ Silent(g, q) => Silent(g, gw[g]) /\ out = Outbox(g)
    /\ \/ out = Outbox(g) /\ (Silent(g, gw[g]) => Silent(g, q) \/ PeerClosed(g))
       \/ out = Append(Outbox(g), [run |-> gw[g].run, signer |-> Pairing[g].sign])
       \/ Outbox(g) = <<>> /\ ~Silent(g, gw[g])

LEMMA CalmRunWorks ==
    ASSUME LoopTypeOK, FirstKeys, CalmInv, NEW g \in Gateway, NEW q, Works(g, q)
    PROVE  \E in, out : Goes(g, q, in, out) /\ CalmRun(g, q, in, out)
<1>0. store = Pairing /\ store \in [Gateway -> Store] /\ Pairing[g].sign \in SignKey
      /\ store[g].file = Pairing[g].seal /\ store[g].seal = Pairing[g].seal
  BY PairingFields DEF CalmInv
<1>1. /\ gw[g].key \in {None, FirstRuns} /\ gw[g].conn # None /\ gw[g].conn \in Conn
      /\ gw[g] \in Program /\ Inbox(g) \in Seq(Message)
      /\ gw[g].pc \in {"sign", "receive", "plain", "transfer"} => gw[g].pub = Pairing[g].seal
      /\ Signed(gw[g]) => gw[g].signer = Pairing[g].sign
      /\ ~First(gw[g]) => gw[g].key # None
  <2>1. gw[g].conn # None
    BY <1>0, WorksGoes
  <2> QED
    BY <2>1, ConnType DEF CalmInv, Kept, FirstKeys
<1>2. CASE Checks(g, q)
  <2> DEFINE p == [gw[g] EXCEPT !.pub = store[g].file]
  <2>1. q = [p EXCEPT !.pc = "sign"] /\ gw[g].pc = "check" /\ Goes(g, q, Inbox(g), Outbox(g))
    BY <1>0, <1>2 DEF Checks
  <2>2. /\ q.pc = "sign" /\ q.run = gw[g].run /\ q.pub = Pairing[g].seal /\ q.key = gw[g].key
    BY <1>0, <1>1, <2>1 DEF Program, Store
  <2> HIDE DEF p
  <2>3. Paired(g, q)
    BY <1>1, <2>1, <2>2 DEF Paired, Signed, First
  <2>4. First(q) => First(gw[g])
    BY <2>1, <2>2 DEF First
  <2>5. Silent(g, q) <=> Silent(g, gw[g])
    BY <2>1, <2>2 DEF Silent
  <2>6. CalmRun(g, q, Inbox(g), Outbox(g))
    BY <2>3, <2>4, <2>5 DEF CalmRun
  <2> QED
    BY <2>1, <2>6
<1>3. CASE Signs(g, q)
  <2> DEFINE out == IF SendsFirst(g) THEN WithKey(g, store[g].sign) ELSE Outbox(g)
  <2>1. /\ gw[g].pc = "sign" /\ q = [gw[g] EXCEPT !.pc = "receive", !.signer = store[g].sign]
        /\ Goes(g, q, Inbox(g), out)
    BY <1>3 DEF Signs
  <2>2. /\ q.pc = "receive" /\ q.run = gw[g].run /\ q.pub = gw[g].pub /\ q.key = gw[g].key
        /\ q.signer = Pairing[g].sign
    BY <1>0, <1>1, <2>1 DEF Program
  <2>3. \/ ~SendsFirst(g) /\ out = Outbox(g)
        \/ PeerClosed(g) /\ out = Outbox(g)
        \/ SendsFirst(g) /\ out = Append(Outbox(g), [run |-> gw[g].run, signer |-> Pairing[g].sign])
    BY <1>0, <1>1, WithKeyType
  <2>4. SendsFirst(g) \/ out = Outbox(g)
    OBVIOUS
  <2> HIDE DEF out
  <2>5. Paired(g, q)
    BY <1>1, <2>1, <2>2 DEF Paired, Signed, First
  <2>6. First(q) => First(gw[g])
    BY <2>1, <2>2 DEF First
  <2>7. /\ Silent(g, q) => Silent(g, gw[g]) /\ ~SendsFirst(g)
        /\ ~SendsFirst(g) /\ Silent(g, gw[g]) => Silent(g, q)
    BY <2>1, <2>2 DEF Silent
  <2>8. CalmRun(g, q, Inbox(g), out)
    BY <2>3, <2>4, <2>5, <2>6, <2>7 DEF CalmRun
  <2> QED
    BY <2>1, <2>8
<1>4. CASE Receives(g, q)
  <2> DEFINE out == IF SendsFirst(g) THEN Outbox(g) ELSE WithKey(g, gw[g].signer)
             key == Agreed(g, Head(Inbox(g)))
  <2>1. /\ gw[g].pc = "receive" /\ Inbox(g) # <<>> /\ ~IsTraffic(Head(Inbox(g)))
        /\ q \in Finished(g, gw[g], key) /\ Goes(g, q, Tail(Inbox(g)), out)
    BY <1>4 DEF Receives
  <2>2. gw[g].signer = Pairing[g].sign /\ gw[g].pub = Pairing[g].seal
    BY <1>1, <2>1 DEF Signed
  <2>3. key \in SessionKey \cup {None}
    <3>1. gw[g].run \in Runs /\ Head(Inbox(g)) \in Message
      BY <1>1, <2>1, HeadTailProperties DEF Program
    <3> QED
      BY <2>1, <3>1, AgreedType
  <2>4. gw[g].run = 1 => key = FirstRuns /\ FirstRuns # None
    <3>1. SUFFICES ASSUME gw[g].run = 1 PROVE key = FirstRuns /\ FirstRuns # None
      OBVIOUS
    <3>2. First(gw[g])
      BY <2>1, <3>1 DEF First
    <3>3. Head(Inbox(g)) = [run |-> 1, signer |-> Pairing[g].seal]
      BY <1>1, <2>1, <3>2, CalmHead
    <3>4. Head(Inbox(g)).run = 1 /\ Head(Inbox(g)).signer = Pairing[g].seal
      BY <3>3
    <3> QED
      BY <2>2, <3>1, <3>4, AgreedKey
  <2>5. /\ out = Outbox(g) /\ (SendsFirst(g) \/ PeerClosed(g))
        \/ out = Append(Outbox(g), [run |-> gw[g].run, signer |-> Pairing[g].sign])
    BY <1>0, <1>1, <2>2, WithKeyType
  <2> HIDE DEF out, key
  <2>6. q.key \in {None, FirstRuns} /\ q.key # None
    <3>1. gw[g].run = 1 => q.key = key
      BY <1>1, <2>1, <2>3, FinishedKey
    <3>2. gw[g].run # 1 => q.key = gw[g].key
      BY <1>1, <2>1, <2>3, FinishedKey
    <3>3. gw[g].run # 1 => gw[g].key # None
      BY <1>1 DEF First
    <3> QED
      BY <1>1, <2>4, <3>1, <3>2, <3>3
  <2>7. q.pc = "plain" \/ (q.pc = "check" /\ q.run # 1)
    BY <1>1, <2>1, <2>3, FinishedNext
  <2>8. q.pub = gw[g].pub /\ q.signer = gw[g].signer
    BY <1>1, <2>1, <2>3, FinishedType
  <2>9. Paired(g, q)
    BY <2>2, <2>6, <2>7, <2>8 DEF Paired, Signed
  <2>10. ~First(q) /\ ~Silent(g, q) /\ (SendsFirst(g) => ~Silent(g, gw[g]))
    BY <2>1, <2>7 DEF First, Silent
  <2>11. CalmRun(g, q, Tail(Inbox(g)), out)
    BY <2>1, <2>5, <2>9, <2>10 DEF CalmRun
  <2> QED
    BY <2>1, <2>11
<1>5. CASE Misreads(g, q)
  <2>1. /\ gw[g].pc = "receive" /\ Inbox(g) # <<>> /\ IsTraffic(Head(Inbox(g)))
        /\ q \in Finished(g, gw[g], None) /\ Goes(g, q, Tail(Inbox(g)), Outbox(g))
        /\ None \in SessionKey \cup {None}
    BY <1>5 DEF Misreads
  <2>2. gw[g].run # 1
    <3>1. SUFFICES ASSUME gw[g].run = 1 PROVE FALSE
      OBVIOUS
    <3>2. First(gw[g])
      BY <2>1, <3>1 DEF First
    <3>3. Head(Inbox(g)) = [run |-> 1, signer |-> Pairing[g].seal]
      BY <1>1, <2>1, <3>2, CalmHead
    <3> QED
      BY <2>1, <3>3 DEF IsTraffic
  <2>3. ~First(gw[g]) /\ ~Silent(g, gw[g])
    BY <2>2 DEF First, Silent
  <2>4. q.key = gw[g].key
    BY <1>1, <2>1, <2>2, FinishedKey
  <2>5. q.pc = "plain" \/ (q.pc = "check" /\ q.run # 1)
    BY <1>1, <2>1, FinishedNext
  <2>6. q.pub = gw[g].pub /\ q.signer = gw[g].signer
    BY <1>1, <2>1, FinishedType
  <2>7. Paired(g, q)
    BY <1>1, <2>1, <2>3, <2>4, <2>5, <2>6 DEF Paired, Signed
  <2>8. ~First(q) /\ ~Silent(g, q)
    BY <2>5 DEF First, Silent
  <2>9. CalmRun(g, q, Tail(Inbox(g)), Outbox(g))
    BY <2>1, <2>3, <2>7, <2>8 DEF CalmRun
  <2> QED
    BY <2>1, <2>9
<1>6. CASE Opens(g, q)
  <2>1. /\ q = [gw[g] EXCEPT !.pc = "transfer"] /\ gw[g].pc = "plain" /\ gw[g].key # None
        /\ Goes(g, q, Inbox(g), Outbox(g))
    BY <1>6 DEF Opens
  <2>2. q.pc = "transfer" /\ q.key = gw[g].key /\ q.pub = gw[g].pub /\ q.signer = gw[g].signer
    BY <1>1, <2>1 DEF Program
  <2>3. Paired(g, q) /\ ~First(q) /\ ~Silent(g, q) /\ ~Silent(g, gw[g])
    BY <1>1, <2>1, <2>2 DEF Paired, Signed, First, Silent
  <2>4. CalmRun(g, q, Inbox(g), Outbox(g))
    BY <2>3 DEF CalmRun
  <2> QED
    BY <2>1, <2>4
<1>7. CASE Forwards(g, q)
  <2>1. q = gw[g] /\ gw[g].pc = "transfer"
    BY <1>7 DEF Forwards
  <2>2. Paired(g, q) /\ ~First(q) /\ ~Silent(g, q)
    BY <1>1, <2>1 DEF Paired, Signed, First, Silent
  <2>3. CASE Inbox(g) # <<>> /\ Goes(g, q, Tail(Inbox(g)), Outbox(g))
    <3>1. CalmRun(g, q, Tail(Inbox(g)), Outbox(g))
      BY <2>1, <2>2, <2>3 DEF CalmRun
    <3> QED
      BY <2>3, <3>1
  <2>4. CASE Outbox(g) = <<>> /\ Goes(g, q, Inbox(g), <<[run |-> 0, signer |-> None]>>)
    <3>1. CalmRun(g, q, Inbox(g), <<[run |-> 0, signer |-> None]>>)
      BY <2>1, <2>2, <2>4 DEF CalmRun
    <3> QED
      BY <2>4, <3>1
  <2> QED
    BY <1>7, <2>3, <2>4 DEF Forwards
<1> QED
  BY <1>2, <1>3, <1>4, <1>5, <1>6, <1>7 DEF Works

LEMMA CalmWorks ==
    ASSUME LoopTypeOK, Connected, FirstKeys, CalmInv, UNCHANGED <<store, address, measure>>,
           NEW g \in Gateway, NEW q, Works(g, q)
    PROVE  FirstKeys' /\ CalmInv'
<1> DEFINE h == Peer(g)
           c == gw[g].conn
<1>1. PICK in, out : Goes(g, q, in, out) /\ CalmRun(g, q, in, out)
  BY CalmRunWorks
<1>2. /\ c \in Conn /\ c # None /\ q.conn = c /\ gw'[g] = q /\ gw'[h] = gw[h]
      /\ pipe'[c][g] = in /\ pipe'[c][h] = out
      /\ \A d \in Conn : d # c => pipe'[d] = pipe[d]
      /\ backlog' = backlog
  BY <1>1, GoesEffect
<1>3. /\ h \in Gateway /\ h # g /\ Peer(h) = g /\ Peer(g) = h
      /\ \A k \in Gateway : k = g \/ k = h
  BY TwoGateways
<1>4. Inbox(g) = pipe[c][g] /\ Outbox(g) = pipe[c][h] /\ (PeerClosed(g) <=> h \in closed[c])
  BY DEF Inbox, Outbox, PeerClosed
<1>5. Kept(g) /\ Kept(h) /\ store' = Pairing
  BY <1>3 DEF CalmInv
<1>6. /\ gw[h].conn # None => gw[h].conn \in Conn
      /\ gw[h].conn = None <=> gw[h].pc \in {"off", "loop"}
      /\ Outbox(g) \in Seq(Message)
  BY <1>2, <1>3, ConnType
<1>7. Waiting' = Waiting /\ (g = "server" => c \notin Waiting)
  BY <1>2 DEF Waiting, Connected
<1>8. \A k, p : Silent(k, p)' <=> Silent(k, p)
  BY DEF Silent, SendsFirst
<1>9. gw[g].conn = c /\ Pairing[h].seal = Pairing[g].sign
  BY <1>3, PairingFields
<1> HIDE DEF h, c
<1>10. FirstKeys'
  BY <1>1, <1>2, <1>3 DEF FirstKeys, CalmRun, Paired
<1>11. Kept(g)'
  <2>1. Silent(g, q) => out = <<>>
    BY <1>1, <1>3, <1>4, <1>5, <1>9 DEF CalmRun, Kept
  <2> QED
    BY <1>1, <1>2, <1>3, <1>8, <2>1 DEF CalmRun, Paired, Kept, First, Signed, Silent, SendsFirst
<1>12. Kept(h)'
  <2>1. Silent(h, gw[h]) => pipe'[gw[h].conn][g] = <<>>
    <3>1. SUFFICES ASSUME Silent(h, gw[h]) PROVE pipe'[gw[h].conn][g] = <<>>
      OBVIOUS
    <3>2. gw[h].conn \in Conn /\ pipe[gw[h].conn][g] = <<>>
      BY <1>3, <1>5, <1>6, <3>1 DEF Kept, Silent
    <3>3. CASE gw[h].conn = c
      BY <1>1, <1>2, <1>4, <3>2, <3>3 DEF CalmRun
    <3>4. CASE gw[h].conn # c
      BY <1>2, <3>2, <3>4
    <3> QED
      BY <3>3, <3>4
  <2> QED
    BY <1>2, <1>3, <1>5, <1>8, <2>1 DEF Kept, First, Signed, Silent, SendsFirst
<1>13. ASSUME NEW d \in Conn PROVE FirstComes(g, d)'
  <2>1. SUFFICES ASSUME Awaits(g, d)'
                 PROVE  IF pipe'[d][g] = <<>> THEN gw[h].conn = d => Silent(h, gw[h])
                        ELSE Head(pipe'[d][g]) = [run |-> 1, signer |-> Pairing[g].seal]
    BY <1>2, <1>3, <1>8 DEF FirstComes, Silent, SendsFirst
  <2>2. (d = c /\ First(q)) \/ (g = "server" /\ d \in Waiting)
    BY <1>2, <1>7, <2>1 DEF Awaits, First
  <2>3. Awaits(g, d) /\ pipe'[d][g] = pipe[d][g]
    <3>1. CASE d = c /\ First(q)
      BY <1>1, <1>2, <1>4, <1>9, <3>1 DEF CalmRun, Awaits
    <3>2. CASE g = "server" /\ d \in Waiting
      BY <1>2, <1>7, <3>2 DEF Awaits
    <3> QED
      BY <2>2, <3>1, <3>2
  <2>4. FirstComes(g, d)
    BY DEF CalmInv
  <2> QED
    BY <1>3, <2>3, <2>4 DEF FirstComes
<1>14. ASSUME NEW d \in Conn PROVE FirstComes(h, d)'
  <2>1. SUFFICES ASSUME Awaits(h, d)'
                 PROVE  IF pipe'[d][h] = <<>> THEN c = d => Silent(g, q)
                        ELSE Head(pipe'[d][h]) = [run |-> 1, signer |-> Pairing[h].seal]
    BY <1>2, <1>3, <1>8 DEF FirstComes, Silent, SendsFirst
  <2>2. Awaits(h, d)
    BY <1>2, <1>7, <2>1 DEF Awaits, First
  <2>3. FirstComes(h, d)
    BY <1>3 DEF CalmInv
  <2>4. CASE d # c
    BY <1>2, <1>3, <1>9, <2>2, <2>3, <2>4 DEF FirstComes
  <2>5. CASE d = c
    <3>1. ~PeerClosed(g)
      BY <1>3, <1>4, <1>6, <2>2, <2>5 DEF Awaits, Connected, First
    <3>2. IF Outbox(g) = <<>> THEN Silent(g, gw[g])
          ELSE Head(Outbox(g)) = [run |-> 1, signer |-> Pairing[h].seal]
      BY <1>3, <1>4, <1>9, <2>2, <2>3, <2>5 DEF FirstComes
    <3>3. CASE out = Outbox(g) /\ (Silent(g, gw[g]) => Silent(g, q) \/ PeerClosed(g))
      BY <1>2, <2>5, <3>1, <3>2, <3>3
    <3>4. CASE out = Append(Outbox(g), [run |-> gw[g].run, signer |-> Pairing[g].sign])
      <4> DEFINE m == [run |-> gw[g].run, signer |-> Pairing[g].sign]
      <4>1. Outbox(g) = <<>> => m = [run |-> 1, signer |-> Pairing[h].seal]
        BY <1>9, <3>2 DEF Silent
      <4> HIDE DEF m
      <4>2. /\ Append(Outbox(g), m) # <<>>
            /\ Outbox(g) = <<>> => Head(Append(Outbox(g), m)) = m
            /\ Outbox(g) # <<>> => Head(Append(Outbox(g), m)) = Head(Outbox(g))
        BY <1>6
      <4>3. out = Append(Outbox(g), m)
        BY <3>4 DEF m
      <4> QED
        BY <1>2, <2>5, <3>2, <4>1, <4>2, <4>3
    <3>5. CASE Outbox(g) = <<>> /\ ~Silent(g, gw[g])
      BY <3>2, <3>5
    <3> QED
      BY <1>1, <3>3, <3>4, <3>5 DEF CalmRun
  <2> QED
    BY <2>4, <2>5
<1> QED
  BY <1>3, <1>5, <1>10, <1>11, <1>12, <1>13, <1>14 DEF CalmInv

LEMMA CalmQuits ==
    ASSUME LoopTypeOK, Connected, FirstKeys, CalmInv, UNCHANGED <<store, address, measure>>,
           NEW g \in Gateway, Quits(g)
    PROVE  FirstKeys' /\ CalmInv'
<1> DEFINE h == Peer(g)
<1>1. /\ h \in Gateway /\ h # g /\ Peer(h) = g /\ Peer(g) = h
      /\ \A k \in Gateway : k = g \/ k = h
  BY TwoGateways
<1>2. PICK p \in {AtLoop, Off} : gw' = [gw EXCEPT ![g] = p]
  BY DEF Quits
<1>3. /\ gw'[g] = p /\ gw'[h] = gw[h]
      /\ p.run = 1 /\ p.key = None /\ p.conn = None /\ p.pc \in {"loop", "off"}
  BY <1>1, <1>2 DEF LoopTypeOK, AtLoop, Off
<1>4. \A c \in Conn : pipe'[c][h] = pipe[c][h] /\ pipe'[c][g] \in {pipe[c][g], <<>>}
  BY DEF Quits
<1>5. Kept(h) /\ store' = Pairing
  BY <1>1 DEF CalmInv
<1>6. /\ gw[h].conn # None => gw[h].conn \in Conn
      /\ gw[h].conn = None <=> gw[h].pc \in {"off", "loop"}
  BY <1>1, ConnType
<1>7. \A k, r : Silent(k, r)' <=> Silent(k, r)
  BY DEF Silent, SendsFirst
<1>8. /\ \A d \in Waiting' : d \in Waiting /\ backlog' = backlog
      /\ g = "client" => Waiting' = Waiting
  <2>1. Waiting' # {} => backlog' # <<>>
    BY DEF Waiting
  <2> QED
    BY <2>1 DEF Waiting, Quits
<1>9. None \notin Conn
  BY SessionsAssumption DEF SessionsAssumption
<1> HIDE DEF h
<1>10. FirstKeys'
  BY <1>1, <1>3 DEF FirstKeys
<1>11. Kept(g)'
  BY <1>3 DEF Kept, First, Signed, Silent
<1>12. Kept(h)'
  <2>1. Silent(h, gw[h]) => pipe'[gw[h].conn][g] = <<>>
    BY <1>1, <1>4, <1>5, <1>6 DEF Kept, Silent
  <2> QED
    BY <1>1, <1>3, <1>5, <2>1 DEF Kept, First, Signed, Silent, SendsFirst
<1>13. ASSUME NEW d \in Conn PROVE FirstComes(g, d)'
  <2>1. SUFFICES ASSUME Awaits(g, d)'
                 PROVE  IF pipe'[d][g] = <<>> THEN gw[h].conn = d => Silent(h, gw[h])
                        ELSE Head(pipe'[d][g]) = [run |-> 1, signer |-> Pairing[g].seal]
    BY <1>1, <1>3 DEF FirstComes, Silent, SendsFirst
  <2>2. g = "server" /\ d \in Waiting /\ backlog' = backlog
    BY <1>3, <1>8, <1>9, <2>1 DEF Awaits
  <2>3. pipe'[d] = pipe[d]
    BY <2>2 DEF Connected, Quits
  <2>4. FirstComes(g, d) /\ Awaits(g, d)
    BY <2>2 DEF CalmInv, Awaits
  <2> QED
    BY <1>1, <2>3, <2>4 DEF FirstComes
<1>14. ASSUME NEW d \in Conn PROVE FirstComes(h, d)'
  <2>1. SUFFICES ASSUME Awaits(h, d)', pipe'[d][h] # <<>>
                 PROVE  Head(pipe'[d][h]) = [run |-> 1, signer |-> Pairing[h].seal]
    BY <1>1, <1>3, <1>9 DEF FirstComes
  <2>2. Awaits(h, d)
    BY <1>3, <1>8, <2>1 DEF Awaits, First
  <2>3. FirstComes(h, d)
    BY <1>1 DEF CalmInv
  <2> QED
    BY <1>4, <2>1, <2>2, <2>3 DEF FirstComes
<1> QED
  BY <1>1, <1>5, <1>10, <1>11, <1>12, <1>13, <1>14 DEF CalmInv

LEMMA CalmDials ==
    ASSUME LoopTypeOK, Connected, FirstKeys, CalmInv, UNCHANGED <<store, address, measure>>,
           NEW c \in Conn, Dials(c)
    PROVE  FirstKeys' /\ CalmInv'
<1>1. gw'["client"] = AtCheck(c) /\ gw'["server"] = gw["server"] /\ gw["server"].conn # c
      /\ c \notin Waiting
  BY DEF LoopTypeOK, Gateway, Dials
<1>2. AtCheck(c).run = 1 /\ AtCheck(c).key = None /\ AtCheck(c).conn = c /\ AtCheck(c).pc = "check"
  BY AtCheckFields
<1>3. /\ pipe'[c]["client"] = <<>> /\ pipe'[c]["server"] = <<>>
      /\ \A d \in Conn : d # c => pipe'[d] = pipe[d]
  BY DEF LoopTypeOK, Gateway, Dials
<1>4. /\ gw["server"].conn # None => gw["server"].conn \in Conn
      /\ gw["server"].conn = None <=> gw["server"].pc \in {"off", "loop"}
      /\ Kept("server") /\ store' = Pairing
  BY ConnType DEF CalmInv, Gateway
<1>5. \A d \in Waiting' : d = c \/ d \in Waiting
  <2>1. backlog \in Seq(Conn) /\ backlog' = Append(backlog, c)
    BY DEF LoopTypeOK, Dials
  <2>2. \A i \in DOMAIN backlog' : backlog'[i] = c \/ (i \in DOMAIN backlog /\ backlog'[i] = backlog[i])
    BY <2>1, AppendProperties
  <2> QED
    BY <2>2 DEF Waiting
<1>6. FirstKeys'
  BY <1>1, <1>2 DEF FirstKeys, Gateway
<1>7. Kept("client")'
  BY <1>1, <1>2, <1>3 DEF Kept, First, Signed, Peer
<1>8. Kept("server")'
  BY <1>1, <1>3, <1>4 DEF Kept, First, Signed, Silent, SendsFirst, Peer
<1>9. ASSUME NEW d \in Conn PROVE FirstComes("client", d)'
  <2>1. Awaits("client", d)' => d = c
    BY <1>1, <1>2 DEF Awaits
  <2> QED
    BY <1>1, <1>3, <2>1 DEF FirstComes, Peer
<1>10. ASSUME NEW d \in Conn PROVE FirstComes("server", d)'
  <2>1. CASE d = c
    <3>1. Silent("client", AtCheck(c))'
      BY <1>2 DEF Silent
    <3> QED
      BY <1>1, <1>2, <1>3, <2>1, <3>1 DEF FirstComes, Peer, Silent
  <2>2. CASE d # c
    <3>1. Awaits("server", d)' => Awaits("server", d)
      BY <1>1, <1>5, <2>2 DEF Awaits, First
    <3>2. FirstComes("server", d) /\ pipe'[d] = pipe[d]
      BY <1>3, <2>2 DEF CalmInv, Gateway
    <3> QED
      BY <1>1, <1>2, <2>2, <3>1, <3>2 DEF FirstComes, Peer
  <2> QED
    BY <2>1, <2>2
<1> QED
  BY <1>4, <1>6, <1>7, <1>8, <1>9, <1>10 DEF CalmInv, Gateway

LEMMA CalmAccept ==
    ASSUME LoopTypeOK, Connected, FirstKeys, CalmInv, UNCHANGED <<store, address, measure>>, Accept
    PROVE  FirstKeys' /\ CalmInv'
<1> DEFINE c == Head(backlog)
<1>1. /\ c \in Waiting /\ c \in Conn /\ backlog # <<>> /\ pipe' = pipe
      /\ gw' = [gw EXCEPT !["server"] = AtCheck(c)] /\ backlog' = Tail(backlog)
  BY WaitingType DEF Accept, AtCheck
<1> HIDE DEF c
<1>2. gw'["server"] = AtCheck(c) /\ gw'["client"] = gw["client"]
  BY <1>1 DEF LoopTypeOK, Gateway
<1>3. AtCheck(c).run = 1 /\ AtCheck(c).key = None /\ AtCheck(c).conn = c /\ AtCheck(c).pc = "check"
  BY AtCheckFields
<1>4. pipe[c]["client"] = <<>> /\ Kept("client") /\ store' = Pairing
  BY <1>1 DEF Connected, CalmInv, Gateway
<1>5. Waiting' \subseteq Waiting
  <2>1. backlog \in Seq(Conn) /\ backlog # <<>> /\ backlog' = Tail(backlog)
    BY <1>1 DEF LoopTypeOK
  <2>2. \A i \in DOMAIN backlog' : i + 1 \in DOMAIN backlog /\ backlog'[i] = backlog[i + 1]
    BY <2>1
  <2> QED
    BY <2>2 DEF Waiting
<1>6. FirstKeys'
  BY <1>2, <1>3 DEF FirstKeys, Gateway
<1>7. Kept("server")'
  BY <1>1, <1>2, <1>3, <1>4 DEF Kept, First, Signed, Peer
<1>8. Kept("client")'
  BY <1>1, <1>2, <1>4 DEF Kept, First, Signed, Silent, SendsFirst, Peer
<1>9. ASSUME NEW d \in Conn PROVE FirstComes("client", d)'
  <2>1. Awaits("client", d)' => Awaits("client", d)
    BY <1>2 DEF Awaits, First
  <2>2. FirstComes("client", d)
    BY DEF CalmInv, Gateway
  <2>3. Silent("server", AtCheck(c))
    BY <1>3 DEF Silent
  <2> QED
    BY <1>1, <1>2, <1>3, <2>1, <2>2, <2>3 DEF FirstComes, Peer, Silent
<1>10. ASSUME NEW d \in Conn PROVE FirstComes("server", d)'
  <2>1. Awaits("server", d)' => Awaits("server", d)
    BY <1>1, <1>2, <1>3, <1>5 DEF Awaits
  <2>2. FirstComes("server", d)
    BY DEF CalmInv, Gateway
  <2> QED
    BY <1>1, <1>2, <2>1, <2>2 DEF FirstComes, Peer, Silent, SendsFirst
<1> QED
  BY <1>4, <1>6, <1>7, <1>8, <1>9, <1>10 DEF CalmInv, Gateway

LEMMA CalmStep ==
    ASSUME LoopTypeOK, Connected, FirstKeys, CalmInv, UNCHANGED <<store, address, measure>>,
           NEW g \in Gateway, LoopStep(g)
    PROVE  FirstKeys' /\ CalmInv'
<1>1. ASSUME NEW c \in Conn, Dials(c) PROVE FirstKeys' /\ CalmInv'
  BY <1>1, CalmDials
<1>2. ASSUME NEW h \in Gateway, Quits(h) PROVE FirstKeys' /\ CalmInv'
  BY <1>2, CalmQuits
<1>3. ASSUME NEW q \in FitProgram, Works(g, q) PROVE FirstKeys' /\ CalmInv'
  BY <1>3, CalmWorks
<1> QED
  BY <1>1, <1>2, <1>3, CalmAccept, StepKinds

----------------------------------------------------------------------------
(* Results                                                                 *)

LEMMA InitInv == Init => DeploymentInv
<1> SUFFICES ASSUME Init PROVE DeploymentInv
  OBVIOUS
<1>1. TypeOK
  BY TypeInit
<1>2. PICK p \in {AtLoop, Off} : LoopInit(p)
  BY DEF Init
<1>3. /\ \A g \in Gateway : gw[g] = p
      /\ p.run = 1 /\ p.key = None /\ p.conn = None /\ p.pc \in {"loop", "off"}
      /\ \A c \in Conn, g \in Gateway : pipe[c][g] = <<>>
      /\ Waiting = {} /\ DOMAIN backlog = {}
  BY <1>2 DEF LoopInit, AtLoop, Off, Waiting
<1>4. Connected
  BY <1>3 DEF Connected, Gateway
<1>5. FirstKeys
  BY <1>3 DEF FirstKeys
<1>6. ASSUME calm PROVE CalmInv
  <2>1. store = Pairing
    BY <1>6 DEF Init
  <2>2. \A g \in Gateway : Kept(g)
    BY <1>3 DEF Kept, Signed, Silent
  <2>3. \A g \in Gateway, c \in Conn : FirstComes(g, c)
    <3>1. None \notin Conn
      BY SessionsAssumption DEF SessionsAssumption
    <3> QED
      BY <1>3, <3>1 DEF FirstComes, Awaits
  <2> QED
    BY <2>1, <2>2, <2>3 DEF CalmInv
<1>7. ASSUME ~calm PROVE UnmeasuredInv
  <2>1. measure = {}
    BY <1>7 DEF Init
  <2>2. \A c \in Conn, g \in Gateway : pipe[c][g] \in Seq([run : {1}, signer : SignKey])
    <3>1. <<>> \in Seq([run : {1}, signer : SignKey])
      OBVIOUS
    <3> QED
      BY <1>3, <3>1
  <2>3. \A g \in Gateway : Exchanged(g)
    BY <1>3 DEF Exchanged
  <2> QED
    BY <2>1, <2>2, <2>3 DEF UnmeasuredInv
<1> QED
  BY <1>1, <1>4, <1>5, <1>6, <1>7 DEF DeploymentInv

LEMMA StepInv ==
    ASSUME DeploymentInv, [Next]_vars
    PROVE  DeploymentInv'
<1>1. TypeOK' /\ LoopTypeOK /\ store \in [Gateway -> Store]
  BY TypeStep, TypeSplit DEF DeploymentInv
<1>2. Connected /\ FirstKeys /\ IF calm THEN CalmInv ELSE UnmeasuredInv
  BY DEF DeploymentInv
<1>3. CASE ~calm /\ TrustNext /\ UNCHANGED <<loopVars, calm>>
  <2>1. UNCHANGED <<gw, pipe, closed, backlog, address, measure, calm>> /\ UnmeasuredInv
    BY <1>2, <1>3 DEF loopVars
  <2>2. Connected' /\ FirstKeys'
    BY <1>2, <2>1 DEF Connected, FirstKeys, Waiting
  <2>3. UnmeasuredInv'
    BY <2>1 DEF UnmeasuredInv, Exchanged, Signed
  <2> QED
    BY <1>1, <1>3, <2>1, <2>2, <2>3 DEF DeploymentInv
<1>4. CASE UNCHANGED <<store, address, measure, calm>> /\ \E g \in Gateway : LoopStep(g)
  <2>1. PICK g \in Gateway : LoopStep(g)
    BY <1>4
  <2>2. Connected'
    BY <1>1, <1>2, <2>1, ConnectedStep
  <2>3. CASE calm
    <3>1. FirstKeys' /\ CalmInv'
      BY <1>1, <1>2, <1>4, <2>1, <2>3, CalmStep
    <3> QED
      BY <1>1, <1>4, <2>2, <2>3, <3>1 DEF DeploymentInv
  <2>4. CASE ~calm
    <3>1. FirstKeys' /\ UnmeasuredInv'
      BY <1>1, <1>2, <1>4, <2>1, <2>4, UnmeasuredStep
    <3> QED
      BY <1>1, <1>4, <2>2, <2>4, <3>1 DEF DeploymentInv
  <2> QED
    BY <2>3, <2>4
<1>5. CASE UNCHANGED vars
  <2>1. UNCHANGED <<store, gw, pipe, closed, backlog, address, measure, calm>>
    BY <1>5 DEF vars
  <2>2. Connected' /\ FirstKeys'
    BY <1>2, <2>1 DEF Connected, FirstKeys, Waiting
  <2>3. CalmInv => CalmInv'
    BY <2>1 DEF CalmInv, Kept, FirstComes, Awaits, Waiting, First, Signed, Silent, SendsFirst
  <2>4. UnmeasuredInv => UnmeasuredInv'
    BY <2>1 DEF UnmeasuredInv, Exchanged, Signed
  <2> QED
    BY <1>1, <1>2, <2>1, <2>2, <2>3, <2>4 DEF DeploymentInv
<1>6. TypeOK
  BY DEF DeploymentInv
<1> QED
  BY <1>3, <1>4, <1>5, <1>6, NextEffect

\* What holds of the two gateways and all that is under way between them, in a
\* calm deployment and in one where anything may happen.
THEOREM DeploymentInvariant == Spec => []DeploymentInv
<1>1. DeploymentInv /\ [Next]_vars => DeploymentInv'
  BY StepInv
<1> QED
  BY InitInv, <1>1, PTL DEF Spec

\* Gateways that both forward share the connection and the key, and each has
\* checked what the other sent with the key the other signed it with, whatever
\* was deleted, associated anew, stopped or broken off meanwhile.
THEOREM SessionsAgree == Spec => []OneSession
<1>1. DeploymentInv => OneSession
  <2> SUFFICES ASSUME DeploymentInv, \A g \in Gateway : gw[g].pc = "transfer"
               PROVE  /\ gw["client"].conn = gw["server"].conn
                      /\ gw["client"].key = gw["server"].key
                      /\ \A g \in Gateway : gw[g].pub = gw[Peer(g)].signer
    BY DEF OneSession
  <2>1. Connected /\ FirstKeys /\ (IF calm THEN CalmInv ELSE UnmeasuredInv)
        /\ \A g \in Gateway : gw[g].conn # None /\ gw[g].key # None
    BY DEF DeploymentInv, TypeOK
  <2>2. gw["client"].conn = gw["server"].conn
    BY <2>1 DEF Connected, Gateway
  <2>3. gw["client"].key = gw["server"].key
    BY <2>1 DEF FirstKeys, Gateway
  <2>4. ASSUME NEW g \in Gateway PROVE gw[g].pub = gw[Peer(g)].signer
    <3>1. Peer(g) \in Gateway /\ gw[g].conn = gw[Peer(g)].conn
      BY <2>2, TwoGateways DEF Gateway, Peer
    <3>2. CASE calm
      <4>1. gw[g].pub = Pairing[g].seal /\ gw[Peer(g)].signer = Pairing[Peer(g)].sign
        BY <2>1, <3>1, <3>2 DEF CalmInv, Kept, Signed
      <4> QED
        BY <4>1, PairingFields
    <3>3. CASE ~calm
      BY <2>1, <3>1, <3>3 DEF UnmeasuredInv, Exchanged
    <3> QED
      BY <3>2, <3>3
  <2> QED
    BY <2>2, <2>3, <2>4
<1> QED
  BY DeploymentInvariant, <1>1, PTL

\* Between associated gateways that are left alone DH_key_exchange always returns
\* a key, whichever of them repeats it to measure the latency.
THEOREM MeasuringIsHarmless == Spec => []MeasuringHarmless
<1>1. DeploymentInv => MeasuringHarmless
  <2> SUFFICES ASSUME DeploymentInv, calm, NEW g \in Gateway, gw[g].pc = "plain"
               PROVE  gw[g].key # None
    BY DEF MeasuringHarmless
  <2>1. Kept(g) /\ gw[g].conn # None
    BY DEF DeploymentInv, CalmInv, TypeOK
  <2> QED
    BY <2>1 DEF Kept, First
<1> QED
  BY DeploymentInvariant, <1>1, PTL

=============================================================================
