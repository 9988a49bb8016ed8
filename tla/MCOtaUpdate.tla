---------------------------- MODULE MCOtaUpdate -----------------------------
(***************************************************************************)
(* An instance of OtaUpdate: the release a device is flashed with and one  *)
(* more, which forced updates write over either partition.                 *)
(***************************************************************************)
EXTENDS OtaUpdate
=============================================================================
