-------------------------------- MODULE Ring --------------------------------
(***************************************************************************)
(* Index arithmetic of the circular buffers of the core: pointers and      *)
(* counters of $clog2(depth) bits that wrap by themselves.                 *)
(***************************************************************************)
EXTENDS Integers

\* The next index.
IncrNoWrap(ptr, depth) == ptr + 1

Incr(ptr, depth) == IF ptr + 1 = depth THEN 0 ELSE ptr + 1

\* The index reached from ptr after n steps (n at most depth), and the number
\* of steps from ptr to index i.
Wrap(ptr, n, depth) == IF ptr + n < depth THEN ptr + n ELSE ptr + n - depth
Dist(ptr, i, depth) == IF ptr <= i THEN i - ptr ELSE i - ptr + depth

\* What a register of $clog2(depth) bits keeps of a value in -depth..2*depth-1.
Narrow(x, depth) == IF x < 0 THEN x + depth
                    ELSE IF x >= depth THEN x - depth ELSE x
=============================================================================
