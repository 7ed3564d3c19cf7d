------------------------------- MODULE Trust -------------------------------
(***************************************************************************)
(* How what the devices keep may change, whatever programs run by hand and *)
(* crash: the abstract specification of Association, and what the gateways *)
(* may count on while they run.                                            *)
(***************************************************************************)
EXTENDS TpmStore

VARIABLE store      \* [Gateway -> Store]

Change(d, s) == store' = [store EXCEPT ![d] = s]

MakeKey(d) ==
    \E k \in KeysOf[d] : ~CanSign(store[d]) /\ Change(d, CreateKey(store[d], k))

\* Some key is sealed, never over another.
SealPeer(d) ==
    \E k \in KeysOf[Peer(d)] : CanSeal(store[d]) /\ Change(d, LinkWithSeal(store[d], k))

\* The file is written with what is sealed, or spoiled on the way.
WriteFile(d) ==
    /\ CanUnseal(store[d])
    /\ \E contents \in {store[d].seal, Empty} : Change(d, [store[d] EXCEPT !.file = contents])

Forget(d) == \E name \in {"sign", "seal", "file"} : Change(d, DeleteObj(store[d], name))

TrustNext == \E d \in Gateway : MakeKey(d) \/ SealPeer(d) \/ WriteFile(d) \/ Forget(d)

TrustSpec == store = [d \in Gateway |-> NoStore] /\ [][TrustNext]_store
=============================================================================
