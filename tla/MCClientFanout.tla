--------------------------- MODULE MCClientFanout ---------------------------
(***************************************************************************)
(* Small instances of ClientFanout for TLC.                                *)
(***************************************************************************)
EXTENDS ClientFanout
=============================================================================
