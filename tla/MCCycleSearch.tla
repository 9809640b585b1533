---------------------------- MODULE MCCycleSearch ----------------------------
(***************************************************************************)
(* CycleSearch with the script's own limits (70 and 10) and designs whose  *)
(* longest stay is each value from 1 to past the upper end of the search.  *)
(***************************************************************************)
EXTENDS CycleSearch

\* A PL that is always left after m cycles, or after any number up to m.
MCStays == {{m} : m \in 1 .. 73} \cup {1 .. m : m \in {2, 5, 65}}
=============================================================================
