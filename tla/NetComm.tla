------------------------------- MODULE NetComm -------------------------------
(***************************************************************************)
(* netcomm.py: messages framed by a two byte length over one direction of  *)
(* a TCP connection, from the NetComm of one gateway to that of the other. *)
(* A byte is a number below Base (256 in the program); the socket keeps    *)
(* the bytes in order and hands them over in chunks of its own choosing.   *)
(*                                                                         *)
(* The sockets have a timeout of gateway_common.SOCKET_TIMEOUT seconds.    *)
(* When it expires in the middle of a frame the connection is out of step  *)
(* from then on (torn); between two frames it changes nothing, the         *)
(* gateways just call receive again.                                       *)
(***************************************************************************)
EXTENDS Integers, Sequences, SequencesExt

CONSTANTS
    Base,           \* byte values
    Message,        \* messages the sender may be given: sequences of bytes
    Capacity,       \* bound: bytes the connection holds
    MaxMessages     \* bound: messages of one connection

HeaderLength == 2

\* encrypt_and_digest never returns an empty packet, and a plain chunk of
\* BLIND_RECV_BUFFER_SIZE bytes with its overhead fits the header.
ASSUME NetCommAssumption ==
    /\ Base \in Nat /\ Base > 1 /\ Capacity \in Nat \ {0} /\ MaxMessages \in Nat
    /\ \A m \in Message : /\ m \in Seq(0 .. Base - 1)
                          /\ Len(m) > 0 /\ Len(m) < Base * Base

VARIABLES
    sent,       \* messages given to send
    unsent,     \* bytes that sendall has still to hand to the socket
    writer,     \* "open", "closed", or "failed" once sendall timed out
    socket,     \* bytes under way
    part,       \* "header" or "payload": which __recv_exact is running
    num,        \* its argument
    segments,   \* the bytes it has so far
    received,   \* messages that receive returned
    reader,     \* "open", "closed" by the end of the connection, or "failed" by what was received
    torn        \* a timeout has expired within a frame

vars == <<sent, unsent, writer, socket, part, num, segments, received, reader, torn>>

TypeOK ==
    /\ sent \in Seq(Message)
    /\ unsent \in Seq(0 .. Base - 1) /\ socket \in Seq(0 .. Base - 1)
    /\ segments \in Seq(0 .. Base - 1) /\ received \in Seq(Seq(0 .. Base - 1))
    /\ writer \in {"open", "closed", "failed"} /\ reader \in {"open", "closed", "failed"}
    /\ part \in {"header", "payload"} /\ num \in 0 .. Base * Base - 1
    /\ part = "header" => num = HeaderLength
    /\ Len(segments) <= num /\ Len(socket) <= Capacity
    /\ torn \in BOOLEAN

Init ==
    /\ sent = <<>> /\ unsent = <<>> /\ writer = "open"
    /\ socket = <<>>
    /\ part = "header" /\ num = HeaderLength /\ segments = <<>>
    /\ received = <<>> /\ reader = "open"
    /\ torn = FALSE

----------------------------------------------------------------------------
(* send                                                                    *)

\* struct.pack("!H", n) and struct.unpack.
Header(n) == <<n \div Base, n % Base>>

LengthIn(header) == header[1] * Base + header[2]

Send(m) ==
    /\ writer = "open" /\ unsent = <<>>
    /\ Len(sent) < MaxMessages
    /\ unsent' = Header(Len(m)) \o m
    /\ sent' = Append(sent, m)
    /\ UNCHANGED <<writer, socket, part, num, segments, received, reader, torn>>

\* sendall, as the socket takes the next k bytes.
Transmit(k) ==
    /\ k <= Len(unsent) /\ Len(socket) + k <= Capacity
    /\ socket' = socket \o SubSeq(unsent, 1, k)
    /\ unsent' = SubSeq(unsent, k + 1, Len(unsent))
    /\ UNCHANGED <<sent, writer, part, num, segments, received, reader, torn>>

\* The socket takes nothing for the whole timeout: the TimeoutError leaves
\* send, and the thread that called it, with a part of the frame sent.
SendTimeout ==
    /\ unsent # <<>> /\ Len(socket) = Capacity
    /\ unsent' = <<>> /\ writer' = "failed"
    /\ torn' = TRUE
    /\ UNCHANGED <<sent, socket, part, num, segments, received, reader>>

\* main closes the connection, once no thread is sending.
Close ==
    /\ writer # "closed" /\ unsent = <<>>
    /\ writer' = "closed"
    /\ UNCHANGED <<sent, unsent, socket, part, num, segments, received, reader, torn>>

----------------------------------------------------------------------------
(* receive                                                                 *)

\* unpack_encrypted_data, on what receive returned: pieces of frames may be too
\* short for it, and struct.error ends the thread that called receive.
Unpacked == reader' \in {"open"} \cup (IF torn THEN {"failed"} ELSE {})

\* __recv_exact has its num bytes: the header's say how many come next, the
\* payload's are the message.
Complete(bytes) ==
    /\ segments' = <<>>
    /\ IF part = "header"
       THEN part' = "payload" /\ num' = LengthIn(bytes) /\ UNCHANGED <<received, reader>>
       ELSE /\ part' = "header" /\ num' = HeaderLength
            /\ received' = Append(received, bytes)
            /\ Unpacked

\* Faulty __recv_exact: recv(num) in every round, whatever is there already.
RecvOver(k) ==
    /\ reader = "open"
    /\ k <= num /\ k <= Len(socket)
    /\ socket' = SubSeq(socket, k + 1, Len(socket))
    /\ LET bytes == segments \o SubSeq(socket, 1, k)
       IN  IF Len(bytes) < num
           THEN segments' = bytes /\ UNCHANGED <<part, num, received, reader>>
           ELSE Complete(bytes)
    /\ UNCHANGED <<sent, unsent, writer, torn>>

\* One round of __recv_exact: recv(num - received) returns k bytes.
Recv(k) ==
    /\ reader = "open"
    /\ k <= num - Len(segments) /\ k <= Len(socket)
    /\ socket' = SubSeq(socket, k + 1, Len(socket))
    /\ LET bytes == segments \o SubSeq(socket, 1, k)
       IN  IF Len(bytes) < num
           THEN segments' = bytes /\ UNCHANGED <<part, num, received, reader>>
           ELSE Complete(bytes)
    /\ UNCHANGED <<sent, unsent, writer, torn>>

\* Faulty end of stream: the connection counts as closed while bytes are left.
EarlyEndOfStream ==
    /\ reader = "open" /\ writer = "closed"
    /\ reader' = "closed"
    /\ UNCHANGED <<sent, unsent, writer, socket, part, num, segments, received, torn>>

\* Faulty end of stream: only noticed where a frame would start.
EndBetweenFrames ==
    /\ reader = "open" /\ part = "header" /\ segments = <<>>
    /\ socket = <<>> /\ writer = "closed"
    /\ reader' = "closed"
    /\ UNCHANGED <<sent, unsent, writer, socket, part, num, segments, received, torn>>

\* recv returns b'': ConnectionError, from which the gateways do not return to
\* receive.
EndOfStream ==
    /\ reader = "open"
    /\ socket = <<>> /\ writer = "closed"
    /\ reader' = "closed"
    /\ UNCHANGED <<sent, unsent, writer, socket, part, num, segments, received, torn>>

\* An empty payload is returned without a recv; the gateways take it for the
\* end of the stream.
EmptyMessage ==
    /\ reader = "open"
    /\ part = "payload" /\ num = 0
    /\ reader' = "closed"
    /\ UNCHANGED <<sent, unsent, writer, socket, part, num, segments, received, torn>>

\* Faulty timeout: the next call waits for as many bytes as this one did.
RecvTimeoutKeepingNum ==
    /\ reader = "open"
    /\ socket = <<>> /\ writer # "closed"
    /\ part = "payload" \/ segments # <<>>
    /\ part' = "header" /\ segments' = <<>>
    /\ torn' = TRUE
    /\ UNCHANGED <<sent, unsent, writer, num, socket, received, reader>>

\* recv raises TimeoutError within a frame: what was read of it is gone, and
\* the next call of receive starts with a header.
RecvTimeout ==
    /\ reader = "open"
    /\ socket = <<>> /\ writer # "closed"
    /\ part = "payload" \/ segments # <<>>
    /\ part' = "header" /\ num' = HeaderLength /\ segments' = <<>>
    /\ torn' = TRUE
    /\ UNCHANGED <<sent, unsent, writer, socket, received, reader>>

Next ==
    \/ \E m \in Message : Send(m)
    \/ \E k \in 1 .. Base * Base : Transmit(k) \/ Recv(k)
    \/ SendTimeout \/ Close \/ EndOfStream \/ EmptyMessage \/ RecvTimeout

Spec == Init /\ [][Next]_vars

\* TCP delivers what was sent, and both threads keep running, the reading one
\* until its connection is closed or unpack has raised.
Fairness ==
    /\ WF_vars(\E k \in 1 .. Base * Base : Transmit(k))
    /\ WF_vars(\E k \in 1 .. Base * Base : Recv(k))
    /\ WF_vars(EndOfStream \/ EmptyMessage)

FairSpec == Spec /\ Fairness

----------------------------------------------------------------------------
(* Properties                                                              *)

\* receive returns the messages that send was given, whole and in order, in
\* whatever chunks the bytes arrive.
InOrder == ~torn => IsPrefix(received, sent)

\* What is sent arrives, whatever ends the connection regularly behind it.
Arrives == \A n \in 1 .. MaxMessages : Len(sent) >= n ~> Len(received) >= n \/ torn

\* The end of the connection is noticed wherever in a frame it is met.  Only a
\* thread that pieces of a torn frame have ended before is not there to notice it.
CloseNoticed == writer = "closed" ~> (reader = "closed" \/ (torn /\ reader = "failed"))

\* What is unpacked as a header is the header of the next message: its
\* "byte(s) showing the remaining packet size".
HeaderTrue ==
    part = "payload" =>
        /\ Len(received) < Len(sent)
        /\ num = Len(sent[Len(received) + 1])
==============================================================================
