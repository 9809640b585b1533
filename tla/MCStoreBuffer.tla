--------------------------- MODULE MCStoreBuffer ---------------------------
(***************************************************************************)
(* The store buffer at the depths of ariane_pkg (2 and 2), with two        *)
(* distinguishable stores besides the reset payload.                       *)
(***************************************************************************)
EXTENDS StoreBuffer

CONSTANTS s0, s1, s2
MCStore == {s0, s1, s2}
=============================================================================
