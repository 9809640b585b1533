---------------------------- MODULE StoreBuffer ----------------------------
(***************************************************************************)
(* The two-part store queue of the core under verification                 *)
(* (cva6/core/store_buffer.sv).  A store is first posted to the            *)
(* speculative queue; when the commit stage retires it, it moves to the    *)
(* commit queue, from where it is written to memory in order.  A flush     *)
(* empties the speculative queue and leaves the commit queue alone.        *)
(*                                                                         *)
(* One step is one clock edge.  The combinational processes core_if and    *)
(* store_if read the registers and the inputs of the cycle and give the    *)
(* next values of the registers (the operators named as the _n signals); a *)
(* step latches them all.  The payload of a store (address, data, byte     *)
(* enables, size, pc) is one member of Store.                              *)
(***************************************************************************)
EXTENDS Integers, Sequences, Ring

CONSTANTS
    Store,          \* the stores the core can post
    ResetStore,     \* the payload the registers hold after reset
    DEPTH_SPEC,     \* entries of the speculative queue
    DEPTH_COMMIT    \* entries of the commit queue

ASSUME StoreAssumption == ResetStore \in Store
ASSUME DepthAssumption == DEPTH_SPEC \in Nat \ {0} /\ DEPTH_COMMIT \in Nat \ {0}

VARIABLES
    speculative_queue,          \* entries: payload and valid bit
    speculative_read_pointer,
    speculative_write_pointer,
    speculative_status_cnt,
    commit_queue,
    commit_read_pointer,
    commit_write_pointer,
    commit_status_cnt

specVars == <<speculative_queue, speculative_read_pointer,
              speculative_write_pointer, speculative_status_cnt>>
commitVars == <<commit_queue, commit_read_pointer, commit_write_pointer,
                commit_status_cnt>>
bufferVars == <<specVars, commitVars>>

QueueEntry == [st : Store, valid : BOOLEAN]
EmptyEntry == [st |-> ResetStore, valid |-> FALSE]

-----------------------------------------------------------------------------
\* Reset values of both register processes.
BufferInit ==
    /\ speculative_queue = [i \in 0..DEPTH_SPEC-1 |-> EmptyEntry]
    /\ speculative_read_pointer = 0
    /\ speculative_write_pointer = 0
    /\ speculative_status_cnt = 0
    /\ commit_queue = [i \in 0..DEPTH_COMMIT-1 |-> EmptyEntry]
    /\ commit_read_pointer = 0
    /\ commit_write_pointer = 0
    /\ commit_status_cnt = 0

\* Outputs of the buffer that depend on the registers (and on commit_i).
ReadyWhileNotFull(commit_i) == speculative_status_cnt < DEPTH_SPEC \/ commit_i

ready_o(commit_i) == speculative_status_cnt < DEPTH_SPEC - 1 \/ commit_i
commit_ready_o == commit_status_cnt < DEPTH_COMMIT
no_st_pending_o == commit_status_cnt = 0
store_buffer_empty_o == speculative_status_cnt = 0 /\ no_st_pending_o
data_req_o == commit_queue[commit_read_pointer].valid
CommitHead == commit_queue[commit_read_pointer].st

\* Valid entries of either queue: what the address checker looks at.
Pending == {speculative_queue[i].st : i \in {j \in 0..DEPTH_SPEC-1 : speculative_queue[j].valid}}
           \union {commit_queue[i].st : i \in {j \in 0..DEPTH_COMMIT-1 : commit_queue[j].valid}}

\* core_if: a push writes at the write pointer, a commit invalidates the entry
\* at the read pointer, a flush clears every valid bit, moves the write pointer
\* back to the read pointer and overrides the count.
Pushed(valid_i, st) ==
    IF valid_i
    THEN [speculative_queue EXCEPT ![speculative_write_pointer] = [st |-> st, valid |-> TRUE]]
    ELSE speculative_queue

Retired(valid_i, st, commit_i) ==
    IF commit_i
    THEN [Pushed(valid_i, st) EXCEPT ![speculative_read_pointer].valid = FALSE]
    ELSE Pushed(valid_i, st)

speculative_queue_n(valid_i, st, commit_i, flush_i) ==
    IF flush_i
    THEN [i \in 0..DEPTH_SPEC-1 |-> [Retired(valid_i, st, commit_i)[i] EXCEPT !.valid = FALSE]]
    ELSE Retired(valid_i, st, commit_i)

FlushKeepsWritePointer(valid_i, flush_i) ==
    IF valid_i THEN Incr(speculative_write_pointer, DEPTH_SPEC)
               ELSE speculative_write_pointer

speculative_write_pointer_n(valid_i, flush_i) ==
    IF flush_i THEN speculative_read_pointer
    ELSE IF valid_i THEN Incr(speculative_write_pointer, DEPTH_SPEC)
    ELSE speculative_write_pointer

speculative_read_pointer_n(commit_i) ==
    IF commit_i THEN Incr(speculative_read_pointer, DEPTH_SPEC)
                ELSE speculative_read_pointer

speculative_status_cnt_n(valid_i, commit_i, flush_i) ==
    IF flush_i THEN 0
    ELSE speculative_status_cnt + (IF valid_i THEN 1 ELSE 0)
                                - (IF commit_i THEN 1 ELSE 0)

\* store_if: the entry at the read pointer requests the memory port and leaves
\* when it is granted; a commit copies the oldest speculative entry (with its
\* valid bit) to the write pointer, after the eviction, so that the copy wins.
pop(data_gnt) == data_req_o /\ data_gnt

Evicted(data_gnt) ==
    IF pop(data_gnt) THEN [commit_queue EXCEPT ![commit_read_pointer].valid = FALSE]
                     ELSE commit_queue

CommitDropsValid(commit_i, data_gnt) ==
    IF commit_i
    THEN [Evicted(data_gnt) EXCEPT ![commit_write_pointer] =
              [speculative_queue[speculative_read_pointer] EXCEPT !.valid = FALSE]]
    ELSE Evicted(data_gnt)

CommitTakesNewest(commit_i, data_gnt) ==
    LET newest == IF speculative_write_pointer = 0 THEN DEPTH_SPEC - 1
                                                   ELSE speculative_write_pointer - 1
    IN  IF commit_i
        THEN [Evicted(data_gnt) EXCEPT ![commit_write_pointer] = speculative_queue[newest]]
        ELSE Evicted(data_gnt)

commit_queue_n(commit_i, data_gnt) ==
    IF commit_i
    THEN [Evicted(data_gnt) EXCEPT ![commit_write_pointer] =
              speculative_queue[speculative_read_pointer]]
    ELSE Evicted(data_gnt)

commit_read_pointer_n(data_gnt) ==
    IF pop(data_gnt) THEN Incr(commit_read_pointer, DEPTH_COMMIT)
                     ELSE commit_read_pointer

commit_write_pointer_n(commit_i) ==
    IF commit_i THEN Incr(commit_write_pointer, DEPTH_COMMIT)
                ELSE commit_write_pointer

commit_status_cnt_n(commit_i, data_gnt) ==
    commit_status_cnt - (IF pop(data_gnt) THEN 1 ELSE 0)
                      + (IF commit_i THEN 1 ELSE 0)

\* The register processes p_spec and p_commit.
CoreIf(valid_i, st, commit_i, flush_i) ==
    /\ speculative_queue' = speculative_queue_n(valid_i, st, commit_i, flush_i)
    /\ speculative_write_pointer' = speculative_write_pointer_n(valid_i, flush_i)
    /\ speculative_read_pointer' = speculative_read_pointer_n(commit_i)
    /\ speculative_status_cnt' = speculative_status_cnt_n(valid_i, commit_i, flush_i)

StoreIf(commit_i, data_gnt) ==
    /\ commit_queue' = commit_queue_n(commit_i, data_gnt)
    /\ commit_read_pointer' = commit_read_pointer_n(data_gnt)
    /\ commit_write_pointer' = commit_write_pointer_n(commit_i)
    /\ commit_status_cnt' = commit_status_cnt_n(commit_i, data_gnt)

-----------------------------------------------------------------------------
\* The four assumptions the file hands to the property checker (FVT block).
commit_and_flush(commit_i, flush_i) == flush_i => ~commit_i
speculative_buffer_overflow(valid_i) ==
    speculative_status_cnt = DEPTH_SPEC => ~valid_i
speculative_buffer_underflow(commit_i) ==
    speculative_status_cnt = 0 => ~commit_i
commit_buffer_overflow(commit_i) ==
    commit_status_cnt = DEPTH_COMMIT => ~commit_i

\* One clock edge under those assumptions.
BufferCycle(valid_i, st, commit_i, flush_i, data_gnt) ==
    /\ commit_and_flush(commit_i, flush_i)
    /\ speculative_buffer_overflow(valid_i)
    /\ speculative_buffer_underflow(commit_i)
    /\ commit_buffer_overflow(commit_i)
    /\ CoreIf(valid_i, st, commit_i, flush_i)
    /\ StoreIf(commit_i, data_gnt)

BufferNext == \E st \in Store, valid_i, commit_i, flush_i, data_gnt \in BOOLEAN :
                  BufferCycle(valid_i, st, commit_i, flush_i, data_gnt)

StoreBufferSpec == BufferInit /\ [][BufferNext]_bufferVars

-----------------------------------------------------------------------------
\* The registers hold entries, pointers in range and counts up to the depth.
BufferTypeOK ==
    /\ speculative_queue \in [0..DEPTH_SPEC-1 -> QueueEntry]
    /\ speculative_read_pointer \in 0..DEPTH_SPEC-1
    /\ speculative_write_pointer \in 0..DEPTH_SPEC-1
    /\ speculative_status_cnt \in 0..DEPTH_SPEC
    /\ commit_queue \in [0..DEPTH_COMMIT-1 -> QueueEntry]
    /\ commit_read_pointer \in 0..DEPTH_COMMIT-1
    /\ commit_write_pointer \in 0..DEPTH_COMMIT-1
    /\ commit_status_cnt \in 0..DEPTH_COMMIT

\* The valid bits of a queue mark exactly the cnt entries from the read
\* pointer on, and the write pointer is the first entry after them.  Valid
\* bits, pointers and counts are updated by separate assignments of core_if
\* and store_if, two of which may hit the same entry in one cycle.
QueueWindow(queue, read, write, cnt, depth) ==
    /\ write = Wrap(read, cnt, depth)
    /\ \A i \in 0..depth-1 : queue[i].valid <=> Dist(read, i, depth) < cnt

\* The speculative queue is a window, also across commit, push and flush in
\* any combination the assumptions allow.
SpecWindow == QueueWindow(speculative_queue, speculative_read_pointer,
                          speculative_write_pointer, speculative_status_cnt, DEPTH_SPEC)

\* The commit queue is a window; this needs SpecWindow, because a commit
\* copies the valid bit of the speculative entry along with the payload.
CommitWindow == QueueWindow(commit_queue, commit_read_pointer,
                            commit_write_pointer, commit_status_cnt, DEPTH_COMMIT)

\* The inductive invariant.
BufferInv == BufferTypeOK /\ SpecWindow /\ CommitWindow

-----------------------------------------------------------------------------
\* The stores of a queue, oldest first.
Contents(queue, read, cnt, depth) ==
    [k \in 1..cnt |-> queue[Wrap(read, k - 1, depth)].st]

Queue == INSTANCE StoreQueue WITH
    spec <- Contents(speculative_queue, speculative_read_pointer,
                     speculative_status_cnt, DEPTH_SPEC),
    committed <- Contents(commit_queue, commit_read_pointer,
                          commit_status_cnt, DEPTH_COMMIT)

\* The buffer implements the two FIFO queues: no store is lost, duplicated or
\* reordered between posting and its memory write, and a flush drops exactly
\* the stores that were not retired (core_if and store_if together).
RefinesStoreQueue == Queue!Spec
=============================================================================
