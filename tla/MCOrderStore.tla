---------------------------- MODULE MCOrderStore ----------------------------
(***************************************************************************)
(* A small instance of OrderStore for TLC.                                 *)
(***************************************************************************)
EXTENDS OrderStore, TLC

CONSTANTS c1, c2, c3, i1, i2, quota, volume

MCClients == {c1, c2, c3}
MCTwoClients == {c1, c2}
MCIds == {i1, i2}
MCOneId == {i1}
MCSlots == {quota, volume}
MCOneSlot == {quota}
MCNamed == {volume}
MCKinds == {"new", "renew", "switch"}
MCTwoKinds == {"new", "renew"}
Symm == Permutations(MCClients) \cup Permutations(MCIds)
Symm2 == Permutations(MCTwoClients) \cup Permutations(MCIds)
=============================================================================
