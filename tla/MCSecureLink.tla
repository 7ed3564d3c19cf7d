---------------------------- MODULE MCSecureLink ----------------------------
EXTENDS Lockstep

AnyOutcome == BOOLEAN
OnlySuccess == {TRUE}
BothRekey == {Gateway}
SomeRekey == {Gateway, {"client"}, {"server"}}
Pairs == 1 .. 8
FewPairs == 1 .. 6

\* Enough ECC key pairs: a fresh one is always left, so no step is cut off.
PairsSuffice == FreshSecrets # {}
=============================================================================
