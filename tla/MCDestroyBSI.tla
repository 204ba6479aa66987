----------------------------- MODULE MCDestroyBSI -----------------------------
(***************************************************************************)
(* One deployment config that is bound again during the call, a channel of *)
(* one, and a line that is neither.                                        *)
(***************************************************************************)
EXTENDS DestroyBSI

CONSTANTS d1

MCDcs == {d1}
=============================================================================
