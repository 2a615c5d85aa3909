------------------------------- MODULE MCAudit -------------------------------
(***************************************************************************)
(* Audit for TLC.                                                          *)
(***************************************************************************)
EXTENDS Audit
=============================================================================
