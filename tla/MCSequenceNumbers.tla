-------------------------- MODULE MCSequenceNumbers --------------------------
EXTENDS SequenceNumbers

\* The client's decrypting thread seals a packet only as its connection ends.
OneSealer == [g \in Gateway |-> {"enc"}]

BothSealAtClient == [g \in Gateway |-> IF g = "client" THEN Thread ELSE {"enc"}]
==============================================================================
