----------------------------- MODULE MCBilling ------------------------------
(***************************************************************************)
(* Small instances of Billing for TLC.                                     *)
(***************************************************************************)
EXTENDS Billing, TLC

CONSTANTS u1, u2, m, i1, i2, i3, quota, volume

MCUsers == {u1, u2}
MCOneUser == {u1}
MCIds == {i1, i2}
MCThreeIds == {i1, i2, i3}
MCQuota == {quota}
MCVolume == {volume}
MCSlots == {quota, volume}
MCNone == {}
MCAllFaults == {"db", "payment", "resource", "crash"}
MCResource == {"resource"}
Symm == Permutations(MCUsers) \cup Permutations(MCThreeIds)
Symm2 == Permutations(MCUsers) \cup Permutations(MCIds)
=============================================================================
