---------------------------- MODULE MCStoreUnit ----------------------------
(***************************************************************************)
(* The store unit with the depths of ariane_pkg.sv (two and two), two      *)
(* stores and two transaction ids.                                         *)
(***************************************************************************)
EXTENDS StoreUnit
=============================================================================
