----------------------------- MODULE MCRenewal ------------------------------
(***************************************************************************)
(* Small instances of Renewal for TLC: an hour of two ticks, a day of two  *)
(* hours, margins and a month of a day or so, and batches of one order.    *)
(***************************************************************************)
EXTENDS Renewal

CONSTANTS i1, i2

MCIds == {i1, i2}
MCAll == {"db", "plan", "payment", "resource"}
MCPlan == {"plan"}
MCNone == {}
=============================================================================
