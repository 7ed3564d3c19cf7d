------------------------------ MODULE MCNetComm ------------------------------
EXTENDS NetComm

\* Two byte values, so that a length takes both bytes of the header and any
\* byte of a message can be taken for one.
ShortMessages == {<<1>>, <<0, 1>>, <<1, 1, 0>>}
==============================================================================
