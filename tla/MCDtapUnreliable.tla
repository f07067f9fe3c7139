-------------------------- MODULE MCDtapUnreliable --------------------------
(***************************************************************************)
(* Instances of DtapUnreliable for TLC.                                    *)
(***************************************************************************)
EXTENDS DtapUnreliable
=============================================================================
