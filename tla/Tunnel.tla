------------------------------- MODULE Tunnel -------------------------------
(***************************************************************************)
(* What the pair of gateways promises the Modbus client and the PLC: a     *)
(* duplex tunnel that hands every payload on exactly once, unchanged and   *)
(* in the order it was given in, for as long as the session lasts.  Only   *)
(* the notice that a session ends may get lost (the end of the connection  *)
(* follows it), and what is under way when an end goes down.               *)
(***************************************************************************)
EXTENDS Sequences

CONSTANTS
    Gateway,    \* the two ends
    Payload,    \* Modbus payloads
    Reset,      \* the end-of-session notice
    None

VARIABLES
    inFlight,   \* [Gateway -> Seq]: what travels towards each end
    delivered,  \* [Gateway -> Payload or None]: the last payload handed on
    up          \* [Gateway -> BOOLEAN]

tunnelVars == <<inFlight, delivered, up>>

TunnelInit ==
    /\ inFlight = [g \in Gateway |-> <<>>]
    /\ delivered = [g \in Gateway |-> None]
    /\ up = [g \in Gateway |-> TRUE]

Put(g, h, p) ==
    /\ up[g] /\ g # h
    /\ inFlight' = [inFlight EXCEPT ![h] = Append(@, p)]
    /\ UNCHANGED <<delivered, up>>

Take(g) ==
    /\ up[g]
    /\ inFlight[g] # <<>> /\ Head(inFlight[g]) \in Payload
    /\ delivered' = [delivered EXCEPT ![g] = Head(inFlight[g])]
    /\ inFlight' = [inFlight EXCEPT ![g] = Tail(@)]
    /\ UNCHANGED up

LoseReset(g) ==
    /\ inFlight[g] # <<>> /\ Head(inFlight[g]) = Reset
    /\ inFlight' = [inFlight EXCEPT ![g] = Tail(@)]
    /\ UNCHANGED <<delivered, up>>

\* An end goes down by itself, or on a notice at the head of its queue.
Close(g, h) ==
    /\ up[g] /\ g # h
    /\ up' = [up EXCEPT ![g] = FALSE]
    /\ \/ inFlight' = [inFlight EXCEPT ![h] = Append(@, Reset)]
       \/ UNCHANGED inFlight
       \/ /\ inFlight[g] # <<>> /\ Head(inFlight[g]) = Reset
          /\ inFlight' = [inFlight EXCEPT ![g] = Tail(@)]
    /\ UNCHANGED delivered

Reopen ==
    /\ \A g \in Gateway : ~up[g]
    /\ inFlight' = [g \in Gateway |-> <<>>]
    /\ delivered' = [g \in Gateway |-> None]
    /\ up' = [g \in Gateway |-> TRUE]

TunnelNext ==
    \/ \E g, h \in Gateway : Close(g, h) \/ \E p \in Payload : Put(g, h, p)
    \/ \E g \in Gateway : Take(g) \/ LoseReset(g)
    \/ Reopen

TunnelSpec == TunnelInit /\ [][TunnelNext]_tunnelVars
=============================================================================
