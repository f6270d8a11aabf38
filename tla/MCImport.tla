------------------------------ MODULE MCImport ------------------------------
(***************************************************************************)
(* Small instances of Import for TLC.                                      *)
(***************************************************************************)
EXTENDS Import, TLC

Perms == Permutations(Jobs) \union Permutations(Requests) \union Permutations(Contents)
=============================================================================
