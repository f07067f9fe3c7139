--------------------------- MODULE MCTransportSend ---------------------------
(***************************************************************************)
(* Instances of TransportSend for TLC.                                     *)
(***************************************************************************)
EXTENDS TransportSend
=============================================================================
