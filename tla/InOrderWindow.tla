--------------------------- MODULE InOrderWindow ---------------------------
(***************************************************************************)
(* What a scoreboard promises: the instructions in flight form a window in *)
(* program order.  Instructions enter at the end, finish in any order,     *)
(* retire from the front and only when finished, several in one step, and  *)
(* a flush empties the window.                                             *)
(***************************************************************************)
EXTENDS Integers, Sequences

CONSTANTS
    Instr,      \* the instructions
    Ports       \* how many may retire in one step

VARIABLE window     \* records of an instruction and its done flag

Init == window = <<>>

\* fin: positions that finish; n: how many retire; new: what enters (a
\* sequence of at most one record).
Finish(fin) == [k \in 1..Len(window) |->
                   [window[k] EXCEPT !.done = @ \/ k \in fin]]

Step(fin, n, new, flush) ==
    /\ n <= Len(window)
    /\ \A k \in 1..n : window[k].done
    /\ window' = IF flush THEN <<>>
                 ELSE SubSeq(Finish(fin), n + 1, Len(window)) \o new

Entering == {<<>>} \union {<<[instr |-> i, done |-> d]>> : i \in Instr, d \in BOOLEAN}

Next == \E fin \in SUBSET (1..Len(window)), n \in 0..Ports,
           new \in Entering, flush \in BOOLEAN : Step(fin, n, new, flush)

Spec == Init /\ [][Next]_window
=============================================================================
