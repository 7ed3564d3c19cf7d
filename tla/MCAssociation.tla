--------------------------- MODULE MCAssociation ---------------------------
EXTENDS Association, Naturals

Keys == [d \in Gateway |-> IF d = "client" THEN 1 .. 4 ELSE 5 .. 8]

KeysSuffice ==
    \A d \in Gateway : tool[d].pc = "create" /\ ~CanSign(store[d]) => FreshKeys(d) # {}
=============================================================================
