---------------------------- MODULE MCScoreboard ----------------------------
(***************************************************************************)
(* The scoreboard with the sizes of the core (four entries, two commit     *)
(* ports) and one instruction of each sort: ordinary, marked with an       *)
(* exception by the decoder, and without functional unit.                  *)
(***************************************************************************)
EXTENDS Scoreboard
=============================================================================
