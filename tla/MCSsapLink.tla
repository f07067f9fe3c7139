----------------------------- MODULE MCSsapLink -----------------------------
(***************************************************************************)
(* Instances of SsapLink for TLC.                                          *)
(***************************************************************************)
EXTENDS SsapLink
=============================================================================
