--------------------------- MODULE MCThreadedLink ---------------------------
EXTENDS ThreadedLink

AnyOutcome == BOOLEAN
SomeRekey == {Gateway, {"client"}, {"server"}}
FewPairs == 1 .. 8
OnlySuccess == {TRUE}
BothRekey == {Gateway}
=============================================================================
