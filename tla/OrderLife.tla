----------------------------- MODULE OrderLife ------------------------------
(***************************************************************************)
(* What package usage promises of one purchase order, with every operation *)
(* atomic: it is placed once, charged one cycle at a time without gaps or  *)
(* repetitions, and ended once, after which nothing happens to it.         *)
(***************************************************************************)
EXTENDS Integers

CONSTANTS
    Ids,
    MaxConsume  \* bound: cycles charged to one order

VARIABLES
    phase,      \* where the order is in its life
    charged     \* the numbers of the consumes its ledger holds

lifeVars == <<phase, charged>>

LifeInit ==
    /\ phase = [i \in Ids |-> "absent"]
    /\ charged = [i \in Ids |-> {}]

\* CreateOrder
Place(i) ==
    /\ phase[i] = "absent"
    /\ phase' = [phase EXCEPT ![i] = "pending"]
    /\ UNCHANGED charged

\* RenewOrder
Charge(i) ==
    /\ phase[i] \in {"pending", "consuming"}
    /\ phase' = [phase EXCEPT ![i] = "consuming"]
    /\ \E n \in 0 .. (MaxConsume - 1) :
          /\ charged[i] = 1 .. n
          /\ charged' = [charged EXCEPT ![i] = 1 .. (n + 1)]

\* EndOrder
Finish(i) ==
    /\ phase[i] = "consuming"
    /\ phase' = [phase EXCEPT ![i] = "ended"]
    /\ UNCHANGED charged

LifeNext == \E i \in Ids : Place(i) \/ Charge(i) \/ Finish(i)

LifeSpec == LifeInit /\ [][LifeNext]_lifeVars
=============================================================================
