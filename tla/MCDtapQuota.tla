---------------------------- MODULE MCDtapQuota ----------------------------
(***************************************************************************)
(* Instances of DtapQuota for TLC.                                         *)
(***************************************************************************)
EXTENDS DtapQuota

CONSTANTS l1, l2, l3

ThreeLinks == <<l1, l2, l3>>
=============================================================================
