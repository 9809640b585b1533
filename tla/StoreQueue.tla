----------------------------- MODULE StoreQueue -----------------------------
(***************************************************************************)
(* What the store buffer promises to the rest of the core: two FIFO queues *)
(* without pointers, valid bits or counters.  Stores enter spec at its     *)
(* tail, the oldest one moves to committed when it is retired, and stores  *)
(* leave committed for memory oldest first.  A flush drops exactly the     *)
(* stores that were not retired.                                           *)
(***************************************************************************)
EXTENDS Naturals, Sequences

CONSTANTS Store, DEPTH_SPEC, DEPTH_COMMIT

VARIABLES
    spec,        \* posted, not retired; oldest first
    committed    \* retired, not yet written to memory; oldest first

vars == <<spec, committed>>

Init == spec = <<>> /\ committed = <<>>

\* What one cycle may do to the queues.  post is the sequence of stores
\* posted in this cycle (none or one).
Step(post, commit, flush, write) ==
    /\ commit => spec # <<>> /\ Len(committed) < DEPTH_COMMIT /\ ~flush
    /\ post # <<>> => Len(spec) < DEPTH_SPEC
    /\ write => committed # <<>>
    /\ spec' = IF flush THEN <<>>
               ELSE (IF commit THEN Tail(spec) ELSE spec) \o post
    /\ committed' = (IF write THEN Tail(committed) ELSE committed)
                    \o (IF commit THEN <<Head(spec)>> ELSE <<>>)

Next == \E post \in {<<>>} \union {<<st>> : st \in Store},
           commit, flush, write \in BOOLEAN : Step(post, commit, flush, write)

Spec == Init /\ [][Next]_vars
=============================================================================
