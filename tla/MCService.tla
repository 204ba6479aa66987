------------------------------ MODULE MCService ------------------------------
(***************************************************************************)
(* Two instances of the release after this one (Latest = 2, so that there  *)
(* is an upgrade to run) start on one database; a request comes to either. *)
(***************************************************************************)
EXTENDS Service

CONSTANTS i1, i2, r1

MCInstances == {i1, i2}
MCRequests == {r1}
=============================================================================
