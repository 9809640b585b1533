---------------------------- MODULE RingProofs -----------------------------
(***************************************************************************)
(* The two rings of the backend, for every size.                           *)
(*                                                                         *)
(* The store buffer keeps its window invariant and implements StoreQueue   *)
(* for every depth and every set of stores.  The store unit never offers   *)
(* it a store it has no room for; with the unit in front, the buffer's own *)
(* overflow assumption holds, and the buffer behaves as module StoreBuffer *)
(* says.                                                                   *)
(*                                                                         *)
(* The scoreboard's entries in issue form a window and no instruction is   *)
(* shown to two commit ports, for every number of entries and of commit    *)
(* ports.                                                                  *)
(***************************************************************************)
EXTENDS Scoreboard, StoreUnit, SequenceTheorems, TLAPS

-----------------------------------------------------------------------------
(***************************************************************************)
(* The store buffer, on its own.                                           *)
(***************************************************************************)
\* Advancing a pointer in range keeps it in range, and is one step of Wrap.
LEMMA IncrWrap ==
    ASSUME NEW depth \in Nat \ {0}, NEW ptr \in 0..depth-1, NEW n \in 0..depth-1
    PROVE  /\ Incr(ptr, depth) \in 0..depth-1
           /\ Wrap(ptr, n, depth) \in 0..depth-1
           /\ Incr(Wrap(ptr, n, depth), depth) = Wrap(ptr, n + 1, depth)
           /\ Wrap(Incr(ptr, depth), n, depth) = Wrap(ptr, n + 1, depth)
           /\ Wrap(ptr, 0, depth) = ptr
BY DEF Incr, Wrap

\* Reset establishes the invariant.
LEMMA BufferInitInv == BufferInit => BufferInv
BY StoreAssumption, DepthAssumption
   DEF BufferInit, BufferInv, BufferTypeOK, SpecWindow, CommitWindow, QueueWindow, Wrap,
       Dist, QueueEntry, EmptyEntry

\* Every cycle keeps the registers in range.
LEMMA CycleType ==
    ASSUME BufferInv,
           NEW st \in Store, NEW valid_i \in BOOLEAN, NEW commit_i \in BOOLEAN,
           NEW flush_i \in BOOLEAN, NEW data_gnt \in BOOLEAN,
           BufferCycle(valid_i, st, commit_i, flush_i, data_gnt)
    PROVE  BufferTypeOK'
<1> USE StoreAssumption, DepthAssumption
<1>1. speculative_queue' \in [0..DEPTH_SPEC-1 -> QueueEntry]
  <2>1. Pushed(valid_i, st) \in [0..DEPTH_SPEC-1 -> QueueEntry]
    BY DEF BufferInv, BufferTypeOK, Pushed, QueueEntry
  <2>2. Retired(valid_i, st, commit_i) \in [0..DEPTH_SPEC-1 -> QueueEntry]
    BY <2>1, ZenonT(30) DEF BufferInv, BufferTypeOK, Retired, QueueEntry
  <2> QED BY <2>2, ZenonT(30) DEF BufferCycle, CoreIf, speculative_queue_n, QueueEntry
<1>2. speculative_read_pointer' \in 0..DEPTH_SPEC-1
  BY DEF BufferInv, BufferTypeOK, BufferCycle, CoreIf, speculative_read_pointer_n, Incr
<1>3. speculative_write_pointer' \in 0..DEPTH_SPEC-1
  BY DEF BufferInv, BufferTypeOK, BufferCycle, CoreIf, speculative_write_pointer_n, Incr
<1>4. speculative_status_cnt' \in 0..DEPTH_SPEC
  BY DEF BufferInv, BufferTypeOK, BufferCycle, CoreIf, speculative_status_cnt_n,
         speculative_buffer_overflow, speculative_buffer_underflow
<1>5. commit_queue' \in [0..DEPTH_COMMIT-1 -> QueueEntry]
  <2>1. Evicted(data_gnt) \in [0..DEPTH_COMMIT-1 -> QueueEntry]
    BY ZenonT(30) DEF BufferInv, BufferTypeOK, Evicted, QueueEntry
  <2> QED BY <2>1 DEF BufferInv, BufferTypeOK, BufferCycle, StoreIf, commit_queue_n
<1>6. commit_read_pointer' \in 0..DEPTH_COMMIT-1
  BY DEF BufferInv, BufferTypeOK, BufferCycle, StoreIf, commit_read_pointer_n, Incr
<1>7. commit_write_pointer' \in 0..DEPTH_COMMIT-1
  BY DEF BufferInv, BufferTypeOK, BufferCycle, StoreIf, commit_write_pointer_n, Incr
<1>8. commit_status_cnt' \in 0..DEPTH_COMMIT
  <2>1. pop(data_gnt) => commit_status_cnt > 0
    BY DEF BufferInv, BufferTypeOK, CommitWindow, QueueWindow, Dist, pop, data_req_o
  <2> QED BY <2>1 DEF BufferInv, BufferTypeOK, BufferCycle, StoreIf, commit_status_cnt_n,
                      commit_buffer_overflow
<1> QED BY <1>1, <1>2, <1>3, <1>4, <1>5, <1>6, <1>7, <1>8, SMTT(30) DEF BufferTypeOK

\* The valid bits after a cycle of core_if, entry by entry.
LEMMA SpecValid ==
    ASSUME BufferInv,
           NEW st \in Store, NEW valid_i \in BOOLEAN, NEW commit_i \in BOOLEAN,
           NEW flush_i \in BOOLEAN, NEW i \in 0..DEPTH_SPEC-1,
           CoreIf(valid_i, st, commit_i, flush_i)
    PROVE  speculative_queue'[i].valid <=>
              /\ ~flush_i
              /\ ~(commit_i /\ i = speculative_read_pointer)
              /\ \/ valid_i /\ i = speculative_write_pointer
                 \/ speculative_queue[i].valid
<1>1. Pushed(valid_i, st) \in [0..DEPTH_SPEC-1 -> QueueEntry]
  BY DEF BufferInv, BufferTypeOK, Pushed, QueueEntry
<1>2. Pushed(valid_i, st)[i].valid <=> \/ valid_i /\ i = speculative_write_pointer
                                       \/ speculative_queue[i].valid
  BY DEF BufferInv, BufferTypeOK, Pushed, QueueEntry
<1>3. Retired(valid_i, st, commit_i) \in [0..DEPTH_SPEC-1 -> QueueEntry]
  BY <1>1, ZenonT(30) DEF BufferInv, BufferTypeOK, Retired, QueueEntry
<1>4. Retired(valid_i, st, commit_i)[i].valid <=>
          ~(commit_i /\ i = speculative_read_pointer) /\ Pushed(valid_i, st)[i].valid
  BY <1>1 DEF BufferInv, BufferTypeOK, Retired, QueueEntry
<1> QED BY <1>2, <1>3, <1>4 DEF CoreIf, speculative_queue_n, QueueEntry

\* A cycle keeps the speculative queue a window.
LEMMA CycleSpecWindow ==
    ASSUME BufferInv,
           NEW st \in Store, NEW valid_i \in BOOLEAN, NEW commit_i \in BOOLEAN,
           NEW flush_i \in BOOLEAN, NEW data_gnt \in BOOLEAN,
           BufferCycle(valid_i, st, commit_i, flush_i, data_gnt)
    PROVE  SpecWindow'
<1> USE StoreAssumption, DepthAssumption
<1>1. speculative_write_pointer' = Wrap(speculative_read_pointer', speculative_status_cnt', DEPTH_SPEC)
  BY DEF BufferInv, BufferTypeOK, SpecWindow, QueueWindow, BufferCycle, CoreIf, Wrap, Incr,
         commit_and_flush, speculative_buffer_overflow,
         speculative_buffer_underflow, speculative_write_pointer_n,
         speculative_read_pointer_n, speculative_status_cnt_n
<1>2. ASSUME NEW i \in 0..DEPTH_SPEC-1
      PROVE  speculative_queue'[i].valid <=>
                Dist(speculative_read_pointer', i, DEPTH_SPEC) < speculative_status_cnt'
  <2>1. speculative_queue'[i].valid <=>
              /\ ~flush_i
              /\ ~(commit_i /\ i = speculative_read_pointer)
              /\ \/ valid_i /\ i = speculative_write_pointer
                 \/ speculative_queue[i].valid
    BY SpecValid DEF BufferCycle
  <2>2. speculative_queue[i].valid <=>
           Dist(speculative_read_pointer, i, DEPTH_SPEC) < speculative_status_cnt
    BY DEF BufferInv, SpecWindow, QueueWindow
  <2> QED BY <2>1, <2>2 DEF BufferInv, BufferTypeOK, SpecWindow, QueueWindow, BufferCycle,
                            CoreIf, Wrap, Dist, Incr, commit_and_flush,
                            speculative_buffer_overflow, speculative_buffer_underflow,
                            speculative_read_pointer_n, speculative_status_cnt_n
<1> QED BY <1>1, <1>2 DEF SpecWindow, QueueWindow

\* A cycle keeps the commit queue a window: the entry it takes over from the
\* speculative queue is valid because that queue is a nonempty window.
LEMMA CycleCommitWindow ==
    ASSUME BufferInv,
           NEW st \in Store, NEW valid_i \in BOOLEAN, NEW commit_i \in BOOLEAN,
           NEW flush_i \in BOOLEAN, NEW data_gnt \in BOOLEAN,
           BufferCycle(valid_i, st, commit_i, flush_i, data_gnt)
    PROVE  CommitWindow'
<1> USE StoreAssumption, DepthAssumption
<1>1. pop(data_gnt) => commit_status_cnt > 0
  BY DEF BufferInv, BufferTypeOK, CommitWindow, QueueWindow, Dist, pop, data_req_o
<1>2. commit_i => speculative_queue[speculative_read_pointer].valid
  BY DEF BufferInv, BufferTypeOK, SpecWindow, QueueWindow, Dist, BufferCycle,
         speculative_buffer_underflow
<1>3. commit_write_pointer' = Wrap(commit_read_pointer', commit_status_cnt', DEPTH_COMMIT)
  BY <1>1 DEF BufferInv, BufferTypeOK, CommitWindow, QueueWindow, BufferCycle, StoreIf, Wrap, Incr,
         commit_buffer_overflow, commit_write_pointer_n, commit_read_pointer_n, commit_status_cnt_n
<1>4. ASSUME NEW i \in 0..DEPTH_COMMIT-1
      PROVE  commit_queue'[i].valid <=>
                Dist(commit_read_pointer', i, DEPTH_COMMIT) < commit_status_cnt'
  <2>1. /\ Evicted(data_gnt) \in [0..DEPTH_COMMIT-1 -> QueueEntry]
        /\ Evicted(data_gnt)[i].valid <=>
              commit_queue[i].valid /\ ~(pop(data_gnt) /\ i = commit_read_pointer)
    BY ZenonT(30) DEF BufferInv, BufferTypeOK, Evicted, QueueEntry
  <2>2. commit_queue'[i].valid <=>
           \/ commit_i /\ i = commit_write_pointer
           \/ commit_queue[i].valid /\ ~(pop(data_gnt) /\ i = commit_read_pointer)
    BY <1>2, <2>1 DEF BufferInv, BufferTypeOK, BufferCycle, StoreIf, commit_queue_n
  <2>3. commit_queue[i].valid <=> Dist(commit_read_pointer, i, DEPTH_COMMIT) < commit_status_cnt
    BY DEF BufferInv, CommitWindow, QueueWindow
  <2> QED BY <1>1, <2>2, <2>3 DEF BufferInv, BufferTypeOK, CommitWindow, QueueWindow, BufferCycle,
                                  StoreIf, Wrap, Dist, Incr,
                                  commit_buffer_overflow, commit_read_pointer_n,
                                  commit_status_cnt_n
<1> QED BY <1>3, <1>4 DEF CommitWindow, QueueWindow

\* One cycle preserves the invariant.
LEMMA BufferCycleInv ==
    ASSUME BufferInv,
           NEW st \in Store, NEW valid_i \in BOOLEAN, NEW commit_i \in BOOLEAN,
           NEW flush_i \in BOOLEAN, NEW data_gnt \in BOOLEAN,
           BufferCycle(valid_i, st, commit_i, flush_i, data_gnt)
    PROVE  BufferInv'
BY CycleType, CycleSpecWindow, CycleCommitWindow DEF BufferInv

\* Spec => []Inv: types and both windows hold in every reachable state, for
\* every set of stores and all depths.
THEOREM BufferInvariance == StoreBufferSpec => []BufferInv
<1>1. BufferInv /\ [BufferNext]_(bufferVars) => BufferInv'
  <2>1. ASSUME BufferInv, BufferNext PROVE BufferInv'
    BY <2>1, BufferCycleInv DEF BufferNext
  <2>2. ASSUME BufferInv, UNCHANGED bufferVars PROVE BufferInv'
    BY <2>2 DEF bufferVars, specVars, commitVars, BufferInv, BufferTypeOK, SpecWindow,
                CommitWindow, QueueWindow
  <2> QED BY <2>1, <2>2
<1> QED BY BufferInitInv, <1>1, PTL DEF StoreBufferSpec

\* The pointers stay in range and the counts never pass the depths, although the
\* counters of store_buffer.sv are wide enough to do so.
THEOREM BufferTypeCorrect == StoreBufferSpec => []BufferTypeOK
BY BufferInvariance, PTL DEF BufferInv

\* The properties the run checks follow.
THEOREM SpecWindowHolds == StoreBufferSpec => []SpecWindow
BY BufferInvariance, PTL DEF BufferInv

\* The same for the commit queue.
THEOREM CommitWindowHolds == StoreBufferSpec => []CommitWindow
BY BufferInvariance, PTL DEF BufferInv

-----------------------------------------------------------------------------
\* C lists the stores of the window of q, oldest first.
IsContents(C, q, read, cnt, depth) ==
    /\ C \in Seq(Store) /\ Len(C) = cnt
    /\ \A k \in 1..cnt : C[k] = q[Wrap(read, k - 1, depth)].st

\* The contents of a queue are a sequence of stores as long as the count.
LEMMA ContentsSeq ==
    ASSUME NEW depth \in Nat \ {0}, NEW q \in [0..depth-1 -> QueueEntry],
           NEW read \in 0..depth-1, NEW cnt \in 0..depth
    PROVE  IsContents(Contents(q, read, cnt, depth), q, read, cnt, depth)
<1> DEFINE C == Contents(q, read, cnt, depth)
<1>1. ASSUME NEW k \in 1..cnt PROVE Wrap(read, k - 1, depth) \in 0..depth-1
  BY DEF Wrap
<1>2. C \in [1..cnt -> Store]
  BY <1>1 DEF Contents, QueueEntry
<1>3. C \in Seq(Store)
  BY <1>2, SeqDef
<1>4. Len(C) = cnt
  BY <1>2, <1>3, LenProperties
<1>5. \A k \in 1..cnt : C[k] = q[Wrap(read, k - 1, depth)].st
  BY DEF Contents
<1> QED BY <1>3, <1>4, <1>5 DEF IsContents

\* The elements of a concatenation.
LEMMA ConcatElements ==
    ASSUME NEW r \in Seq(Store), NEW p \in Seq(Store)
    PROVE  /\ r \o p \in Seq(Store) /\ Len(r \o p) = Len(r) + Len(p)
           /\ \A k \in 1 .. Len(r) + Len(p) :
                 (r \o p)[k] = IF k <= Len(r) THEN r[k] ELSE p[k - Len(r)]
BY ConcatProperties

\* Sequences of stores with the same elements are equal.
LEMMA SameElements ==
    ASSUME NEW r \in Seq(Store), NEW p \in Seq(Store), NEW n, Len(r) = n, Len(p) = n,
           \A k \in 1..n : r[k] = p[k]
    PROVE  r = p
BY SeqEqual

\* q2 is q with the stores of post (none or one) written behind the newest
\* one, and m (none or one) entries popped.
WritesBehind(q2, q, read, cnt, depth, post) ==
    \A i \in 0..depth-1 :
       q2[i].st = IF Len(post) = 1 /\ i = Wrap(read, cnt, depth) THEN post[1] ELSE q[i].st

QueueStep(q2, q, read, cnt, depth, m, n, post) ==
    /\ depth \in Nat \ {0}
    /\ q \in [0..depth-1 -> QueueEntry] /\ q2 \in [0..depth-1 -> QueueEntry]
    /\ read \in 0..depth-1 /\ cnt \in 0..depth /\ m \in {0, 1} /\ n \in {0, 1}
    /\ post \in Seq(Store) /\ Len(post) = n
    /\ m <= cnt /\ (n = 1 => cnt < depth)
    /\ WritesBehind(q2, q, read, cnt, depth, post)

\* Such a step is Tail and append on the contents.
LEMMA ContentsStep ==
    ASSUME NEW q2, NEW q, NEW read, NEW cnt, NEW depth, NEW m, NEW n, NEW post,
           QueueStep(q2, q, read, cnt, depth, m, n, post)
    PROVE  Contents(q2, Wrap(read, m, depth), cnt + n - m, depth)
             = (IF m = 1 THEN Tail(Contents(q, read, cnt, depth)) ELSE Contents(q, read, cnt, depth))
               \o post
<1> DEFINE C == Contents(q, read, cnt, depth)
           R == IF m = 1 THEN Tail(C) ELSE C
           read2 == Wrap(read, m, depth)
           cnt2 == cnt + n - m
           D == Contents(q2, read2, cnt2, depth)
<1>a. /\ depth \in Nat \ {0} /\ read \in 0..depth-1 /\ cnt \in 0..depth
      /\ m \in {0, 1} /\ n \in {0, 1} /\ m <= cnt /\ (n = 1 => cnt < depth)
  BY DEF QueueStep
<1>b. q \in [0..depth-1 -> QueueEntry] /\ q2 \in [0..depth-1 -> QueueEntry]
  BY DEF QueueStep
<1>c. post \in Seq(Store) /\ Len(post) = n
  BY DEF QueueStep
<1>d. WritesBehind(q2, q, read, cnt, depth, post)
  BY DEF QueueStep
<1>2. read2 \in 0..depth-1 /\ cnt2 \in 0..depth
  BY <1>a DEF Wrap
<1>1. IsContents(C, q, read, cnt, depth)
  BY <1>a, <1>b, ContentsSeq
<1>3. IsContents(D, q2, read2, cnt2, depth)
  <2> HIDE DEF read2, cnt2
  <2> QED BY <1>a, <1>b, <1>2, ContentsSeq
<1> HIDE DEF C, D
<1>4. /\ R \in Seq(Store) /\ Len(R) = cnt - m
      /\ \A k \in 1..(cnt - m) : R[k] = C[k + m]
  <2>h. C \in Seq(Store) /\ Len(C) = cnt
    BY <1>1 DEF IsContents
  <2>1. CASE m = 1
    <3>1. C # <<>>
      BY <1>a, <2>h, <2>1
    <3>2. /\ Tail(C) \in Seq(Store) /\ Len(Tail(C)) = Len(C) - 1
          /\ \A k \in 1 .. Len(Tail(C)) : Tail(C)[k] = C[k + 1]
      BY <2>h, <3>1, HeadTailProperties
    <3> QED BY <2>h, <2>1, <3>2
  <2>2. CASE m = 0
    <3>1. R = C
      BY <2>2
    <3>2. \A k \in 1 .. (cnt - m) : k + m = k
      BY <1>a, <2>2
    <3>3. cnt - m = cnt
      BY <1>a, <2>2
    <3> QED BY <2>h, <3>1, <3>2, <3>3
  <2> QED BY <1>a, <2>1, <2>2
<1> HIDE DEF R
<1>5. /\ R \o post \in Seq(Store) /\ Len(R \o post) = cnt2
      /\ \A k \in 1..cnt2 : (R \o post)[k] = IF k <= cnt - m THEN R[k] ELSE post[k - (cnt - m)]
  <2>1. Len(R) + Len(post) = cnt2 /\ Len(R) = cnt - m
    BY <1>a, <1>c, <1>4
  <2>2. /\ R \o post \in Seq(Store) /\ Len(R \o post) = Len(R) + Len(post)
        /\ \A k \in 1 .. Len(R) + Len(post) :
              (R \o post)[k] = IF k <= Len(R) THEN R[k] ELSE post[k - Len(R)]
    BY <1>c, <1>4, ConcatElements
  <2> HIDE DEF cnt2
  <2> QED BY <2>1, <2>2
<1>6. ASSUME NEW k \in 1..cnt2 PROVE D[k] = (R \o post)[k]
  <2> DEFINE i == Wrap(read, k + m - 1, depth)
  <2>1. /\ i \in 0..depth-1 /\ Wrap(read2, k - 1, depth) = i
        /\ k <= cnt - m => /\ k \in 1..(cnt - m)
                           /\ k + m \in 1..cnt /\ (k + m) - 1 = k + m - 1
                           /\ n = 1 => i # Wrap(read, cnt, depth)
        /\ k > cnt - m => n = 1 /\ k - (cnt - m) = 1 /\ i = Wrap(read, cnt, depth)
    BY <1>a DEF Wrap
  <2>2. D[k] = q2[i].st
    BY <1>3, <2>1 DEF IsContents
  <2>3. CASE k <= cnt - m
    <3>1. (R \o post)[k] = C[k + m]
      <4>1. (R \o post)[k] = R[k]
        BY <1>5, <2>3
      <4> QED BY <1>4, <2>1, <2>3, <4>1
    <3>2. C[k + m] = q[i].st
      BY <1>1, <2>1, <2>3 DEF IsContents
    <3> HIDE DEF i
    <3>3. q2[i].st = q[i].st
      BY <1>a, <1>c, <1>d, <2>1, <2>3, SMTT(30) DEF WritesBehind
    <3> QED BY <2>2, <3>1, <3>2, <3>3
  <2>4. CASE k > cnt - m
    <3>1. ~(k <= cnt - m)
      BY <1>a, <2>4
    <3>2. (R \o post)[k] = post[1]
      <4>1. (R \o post)[k] = post[k - (cnt - m)]
        BY <1>5, <3>1
      <4> QED BY <2>1, <2>4, <4>1
    <3> HIDE DEF i
    <3>3. q2[i].st = post[1]
      BY <1>c, <1>d, <2>1, <2>4 DEF WritesBehind
    <3> QED BY <2>2, <3>2, <3>3
  <2>5. k <= cnt - m \/ k > cnt - m
    BY <1>a
  <2> QED BY <2>3, <2>4, <2>5, ZenonT(30)
<1>7. D = R \o post
  <2>1. D \in Seq(Store) /\ Len(D) = cnt2
    BY <1>3 DEF IsContents
  <2> HIDE DEF cnt2
  <2> QED BY <1>5, <1>6, <2>1, SameElements
<1> QED BY <1>7 DEF C, R, D

SpecSeq == Contents(speculative_queue, speculative_read_pointer,
                    speculative_status_cnt, DEPTH_SPEC)
CommitSeq == Contents(commit_queue, commit_read_pointer, commit_status_cnt, DEPTH_COMMIT)

\* Types of the registers, queue by queue.
LEMMA SpecTypes ==
    ASSUME BufferInv
    PROVE  /\ DEPTH_SPEC \in Nat \ {0}
           /\ speculative_queue \in [0..DEPTH_SPEC-1 -> QueueEntry]
           /\ speculative_read_pointer \in 0..DEPTH_SPEC-1
           /\ speculative_status_cnt \in 0..DEPTH_SPEC
           /\ speculative_write_pointer =
                 Wrap(speculative_read_pointer, speculative_status_cnt, DEPTH_SPEC)
           /\ IsContents(SpecSeq, speculative_queue, speculative_read_pointer,
                         speculative_status_cnt, DEPTH_SPEC)
<1>1. /\ DEPTH_SPEC \in Nat \ {0}
      /\ speculative_queue \in [0..DEPTH_SPEC-1 -> QueueEntry]
      /\ speculative_read_pointer \in 0..DEPTH_SPEC-1
      /\ speculative_status_cnt \in 0..DEPTH_SPEC
  BY StoreAssumption, DepthAssumption DEF BufferInv, BufferTypeOK
<1>2. speculative_write_pointer = Wrap(speculative_read_pointer, speculative_status_cnt, DEPTH_SPEC)
  BY DEF BufferInv, SpecWindow, QueueWindow
<1>3. IsContents(SpecSeq, speculative_queue, speculative_read_pointer,
                 speculative_status_cnt, DEPTH_SPEC)
  BY <1>1, ContentsSeq DEF SpecSeq
<1> QED BY <1>1, <1>2, <1>3

LEMMA CommitTypes ==
    ASSUME BufferInv
    PROVE  /\ DEPTH_COMMIT \in Nat \ {0}
           /\ commit_queue \in [0..DEPTH_COMMIT-1 -> QueueEntry]
           /\ commit_read_pointer \in 0..DEPTH_COMMIT-1
           /\ commit_status_cnt \in 0..DEPTH_COMMIT
           /\ commit_write_pointer = Wrap(commit_read_pointer, commit_status_cnt, DEPTH_COMMIT)
           /\ IsContents(CommitSeq, commit_queue, commit_read_pointer,
                         commit_status_cnt, DEPTH_COMMIT)
           /\ \A g \in BOOLEAN : pop(g) => commit_status_cnt > 0
<1>1. /\ DEPTH_COMMIT \in Nat \ {0}
      /\ commit_queue \in [0..DEPTH_COMMIT-1 -> QueueEntry]
      /\ commit_read_pointer \in 0..DEPTH_COMMIT-1
      /\ commit_status_cnt \in 0..DEPTH_COMMIT
  BY StoreAssumption, DepthAssumption DEF BufferInv, BufferTypeOK
<1>2. commit_write_pointer = Wrap(commit_read_pointer, commit_status_cnt, DEPTH_COMMIT)
  BY DEF BufferInv, CommitWindow, QueueWindow
<1>3. IsContents(CommitSeq, commit_queue, commit_read_pointer, commit_status_cnt, DEPTH_COMMIT)
  BY <1>1, ContentsSeq DEF CommitSeq
<1>4. ASSUME NEW g \in BOOLEAN, pop(g) PROVE commit_status_cnt > 0
  <2>1. Dist(commit_read_pointer, commit_read_pointer, DEPTH_COMMIT) < commit_status_cnt
    BY <1>1, <1>4 DEF BufferInv, CommitWindow, QueueWindow, pop, data_req_o
  <2> QED BY <1>1, <2>1 DEF Dist
<1> QED BY <1>1, <1>2, <1>3, <1>4

\* A cycle acts on the speculative contents as StoreQueue says.
LEMMA CycleSpecSeq ==
    ASSUME BufferInv, BufferInv',
           NEW st \in Store, NEW valid_i \in BOOLEAN, NEW commit_i \in BOOLEAN,
           NEW flush_i \in BOOLEAN, NEW data_gnt \in BOOLEAN,
           BufferCycle(valid_i, st, commit_i, flush_i, data_gnt)
    PROVE  SpecSeq' = IF flush_i THEN <<>>
                      ELSE (IF commit_i THEN Tail(SpecSeq) ELSE SpecSeq)
                           \o (IF valid_i /\ ~flush_i THEN <<st>> ELSE <<>>)
<1>t. /\ DEPTH_SPEC \in Nat \ {0}
      /\ speculative_queue \in [0..DEPTH_SPEC-1 -> QueueEntry]
      /\ speculative_read_pointer \in 0..DEPTH_SPEC-1
      /\ speculative_status_cnt \in 0..DEPTH_SPEC
      /\ speculative_write_pointer =
            Wrap(speculative_read_pointer, speculative_status_cnt, DEPTH_SPEC)
  BY SpecTypes
<1>u. speculative_queue' \in [0..DEPTH_SPEC-1 -> QueueEntry]
  BY DEF BufferInv, BufferTypeOK
<1>c. CoreIf(valid_i, st, commit_i, flush_i)
  BY DEF BufferCycle
<1>1. CASE flush_i
  <2>1. speculative_status_cnt' = 0
    BY <1>1, <1>c DEF CoreIf, speculative_status_cnt_n
  <2>2. SpecSeq' = Contents(speculative_queue', speculative_read_pointer', 0, DEPTH_SPEC)
    BY <2>1 DEF SpecSeq
  <2>3. speculative_read_pointer' \in 0..DEPTH_SPEC-1 /\ 0 \in 0..DEPTH_SPEC
    BY <1>t DEF BufferInv, BufferTypeOK
  <2>4. IsContents(SpecSeq', speculative_queue', speculative_read_pointer', 0, DEPTH_SPEC)
    BY <1>t, <1>u, <2>2, <2>3, ContentsSeq
  <2>5. SpecSeq' \in Seq(Store) /\ Len(SpecSeq') = 0
    BY <2>4 DEF IsContents
  <2> QED BY <1>1, <2>5, EmptySeq
<1>2. CASE ~flush_i
  <2> DEFINE m == IF commit_i THEN 1 ELSE 0
             n == IF valid_i THEN 1 ELSE 0
             post == IF valid_i THEN <<st>> ELSE <<>>
  <2>1. m \in {0, 1} /\ n \in {0, 1} /\ post \in Seq(Store) /\ Len(post) = n
        /\ (m = 1 <=> commit_i) /\ (n = 1 => post[1] = st) /\ (n = 1 <=> valid_i)
    OBVIOUS
  <2> HIDE DEF m, n, post
  <2>2. m <= speculative_status_cnt /\ (n = 1 => speculative_status_cnt < DEPTH_SPEC)
    <3>1. speculative_buffer_overflow(valid_i) /\ speculative_buffer_underflow(commit_i)
      BY DEF BufferCycle
    <3> QED BY <1>t, <2>1, <3>1 DEF speculative_buffer_overflow, speculative_buffer_underflow
  <2>3. /\ speculative_read_pointer' = Wrap(speculative_read_pointer, m, DEPTH_SPEC)
        /\ speculative_status_cnt' = speculative_status_cnt + n - m
    <3>1. speculative_read_pointer' = IF commit_i THEN Incr(speculative_read_pointer, DEPTH_SPEC)
                                      ELSE speculative_read_pointer
      BY <1>c DEF CoreIf, speculative_read_pointer_n
    <3>2. speculative_status_cnt' = speculative_status_cnt + (IF valid_i THEN 1 ELSE 0)
                                                           - (IF commit_i THEN 1 ELSE 0)
      BY <1>2, <1>c DEF CoreIf, speculative_status_cnt_n
    <3>3. speculative_read_pointer' = Wrap(speculative_read_pointer, m, DEPTH_SPEC)
      BY <1>t, <2>1, <3>1 DEF Incr, Wrap
    <3> QED BY <1>t, <2>1, <3>2, <3>3
  <2>4. WritesBehind(speculative_queue', speculative_queue, speculative_read_pointer,
                     speculative_status_cnt, DEPTH_SPEC, post)
    <3> SUFFICES ASSUME NEW i \in 0..DEPTH_SPEC-1
                 PROVE  speculative_queue'[i].st =
                           IF Len(post) = 1 /\ i = Wrap(speculative_read_pointer,
                                                        speculative_status_cnt, DEPTH_SPEC)
                           THEN post[1] ELSE speculative_queue[i].st
      BY DEF WritesBehind
    <3>0. speculative_write_pointer \in 0..DEPTH_SPEC-1
      BY DEF BufferInv, BufferTypeOK
    <3>1. Pushed(valid_i, st) \in [0..DEPTH_SPEC-1 -> QueueEntry]
      BY <1>t, <3>0 DEF Pushed, QueueEntry
    <3>2. Pushed(valid_i, st)[i].st = IF valid_i /\ i = speculative_write_pointer
                                      THEN st ELSE speculative_queue[i].st
      BY <1>t, <3>0 DEF Pushed, QueueEntry
    <3>3. Retired(valid_i, st, commit_i)[i].st = Pushed(valid_i, st)[i].st
      BY <1>t, <3>1 DEF Retired, QueueEntry
    <3>4. speculative_queue'[i].st = Pushed(valid_i, st)[i].st
      BY <1>2, <1>c, <3>3 DEF CoreIf, speculative_queue_n
    <3> QED BY <1>t, <2>1, <3>2, <3>4
  <2>5. SpecSeq' = (IF m = 1 THEN Tail(SpecSeq) ELSE SpecSeq) \o post
    <3>1. QueueStep(speculative_queue', speculative_queue, speculative_read_pointer,
                    speculative_status_cnt, DEPTH_SPEC, m, n, post)
      BY <1>t, <1>u, <2>1, <2>2, <2>4, SMTT(30) DEF QueueStep
    <3>2. Contents(speculative_queue', Wrap(speculative_read_pointer, m, DEPTH_SPEC),
                   speculative_status_cnt + n - m, DEPTH_SPEC)
            = (IF m = 1 THEN Tail(SpecSeq) ELSE SpecSeq) \o post
      BY <3>1, ContentsStep DEF SpecSeq
    <3>3. SpecSeq' = Contents(speculative_queue', speculative_read_pointer',
                              speculative_status_cnt', DEPTH_SPEC)
      BY DEF SpecSeq
    <3> QED BY <2>3, <3>2, <3>3
  <2> QED BY <1>2, <2>1, <2>5, ZenonT(30) DEF post
<1> QED BY <1>1, <1>2, ZenonT(30)

\* A cycle acts on the committed contents as StoreQueue says.
LEMMA CycleCommitSeq ==
    ASSUME BufferInv, BufferInv',
           NEW st \in Store, NEW valid_i \in BOOLEAN, NEW commit_i \in BOOLEAN,
           NEW flush_i \in BOOLEAN, NEW data_gnt \in BOOLEAN,
           BufferCycle(valid_i, st, commit_i, flush_i, data_gnt)
    PROVE  CommitSeq' = (IF pop(data_gnt) THEN Tail(CommitSeq) ELSE CommitSeq)
                        \o (IF commit_i THEN <<Head(SpecSeq)>> ELSE <<>>)
<1> DEFINE e == speculative_queue[speculative_read_pointer].st
           m == IF pop(data_gnt) THEN 1 ELSE 0
           n == IF commit_i THEN 1 ELSE 0
           post == IF commit_i THEN <<e>> ELSE <<>>
<1>s. /\ DEPTH_SPEC \in Nat \ {0}
      /\ speculative_queue \in [0..DEPTH_SPEC-1 -> QueueEntry]
      /\ speculative_read_pointer \in 0..DEPTH_SPEC-1
      /\ speculative_status_cnt \in 0..DEPTH_SPEC
      /\ IsContents(SpecSeq, speculative_queue, speculative_read_pointer,
                    speculative_status_cnt, DEPTH_SPEC)
  BY SpecTypes
<1>t. /\ DEPTH_COMMIT \in Nat \ {0}
      /\ commit_queue \in [0..DEPTH_COMMIT-1 -> QueueEntry]
      /\ commit_read_pointer \in 0..DEPTH_COMMIT-1
      /\ commit_status_cnt \in 0..DEPTH_COMMIT
      /\ commit_write_pointer = Wrap(commit_read_pointer, commit_status_cnt, DEPTH_COMMIT)
      /\ pop(data_gnt) => commit_status_cnt > 0
  BY CommitTypes
<1>u. commit_queue' \in [0..DEPTH_COMMIT-1 -> QueueEntry]
  BY DEF BufferInv, BufferTypeOK
<1>c. StoreIf(commit_i, data_gnt)
  BY DEF BufferCycle
<1>1. speculative_queue[speculative_read_pointer] \in QueueEntry /\ e \in Store
  BY <1>s DEF QueueEntry
<1>2. commit_i => e = Head(SpecSeq)
  <2> SUFFICES ASSUME commit_i PROVE e = Head(SpecSeq)
    OBVIOUS
  <2>0. speculative_buffer_underflow(commit_i)
    BY DEF BufferCycle
  <2>1. speculative_status_cnt > 0 /\ 1 \in 1..speculative_status_cnt
    BY <1>s, <2>0 DEF speculative_buffer_underflow
  <2>2. /\ SpecSeq \in Seq(Store) /\ Len(SpecSeq) = speculative_status_cnt
        /\ SpecSeq[1] = speculative_queue[Wrap(speculative_read_pointer, 1 - 1, DEPTH_SPEC)].st
    BY <1>s, <2>1 DEF IsContents
  <2>3. Wrap(speculative_read_pointer, 1 - 1, DEPTH_SPEC) = speculative_read_pointer
    BY <1>s DEF Wrap
  <2> QED BY <2>1, <2>2, <2>3
<1>3. m \in {0, 1} /\ n \in {0, 1} /\ post \in Seq(Store) /\ Len(post) = n
      /\ (m = 1 <=> pop(data_gnt)) /\ (n = 1 => post[1] = e) /\ (n = 1 <=> commit_i)
  <2> HIDE DEF e
  <2> QED BY <1>1
<1> HIDE DEF m, n, post
<1>4. m <= commit_status_cnt /\ (n = 1 => commit_status_cnt < DEPTH_COMMIT)
  <2>1. commit_buffer_overflow(commit_i)
    BY DEF BufferCycle
  <2> QED BY <1>t, <1>3, <2>1 DEF commit_buffer_overflow
<1>5. /\ commit_read_pointer' = Wrap(commit_read_pointer, m, DEPTH_COMMIT)
      /\ commit_status_cnt' = commit_status_cnt + n - m
  <2>1. commit_read_pointer' = IF pop(data_gnt) THEN Incr(commit_read_pointer, DEPTH_COMMIT)
                               ELSE commit_read_pointer
    BY <1>c DEF StoreIf, commit_read_pointer_n
  <2>2. commit_status_cnt' = commit_status_cnt - (IF pop(data_gnt) THEN 1 ELSE 0)
                                               + (IF commit_i THEN 1 ELSE 0)
    BY <1>c DEF StoreIf, commit_status_cnt_n
  <2>3. commit_read_pointer' = Wrap(commit_read_pointer, m, DEPTH_COMMIT)
    BY <1>t, <1>3, <2>1 DEF Incr, Wrap
  <2> QED BY <1>t, <1>3, <2>2, <2>3
<1>6. WritesBehind(commit_queue', commit_queue, commit_read_pointer,
                   commit_status_cnt, DEPTH_COMMIT, post)
  <2> SUFFICES ASSUME NEW i \in 0..DEPTH_COMMIT-1
               PROVE  commit_queue'[i].st =
                         IF Len(post) = 1 /\ i = Wrap(commit_read_pointer,
                                                      commit_status_cnt, DEPTH_COMMIT)
                         THEN post[1] ELSE commit_queue[i].st
    BY DEF WritesBehind
  <2>1. /\ Evicted(data_gnt) \in [0..DEPTH_COMMIT-1 -> QueueEntry]
        /\ Evicted(data_gnt)[i].st = commit_queue[i].st
    BY <1>t, ZenonT(30) DEF Evicted, QueueEntry
  <2>2. commit_queue' = commit_queue_n(commit_i, data_gnt)
    BY <1>c DEF StoreIf
  <2>3. commit_queue'[i].st = IF commit_i /\ i = commit_write_pointer THEN e ELSE commit_queue[i].st
    BY <2>1, <2>2 DEF commit_queue_n
  <2> QED BY <1>t, <1>3, <2>3
<1>7. QueueStep(commit_queue', commit_queue, commit_read_pointer,
                commit_status_cnt, DEPTH_COMMIT, m, n, post)
  BY <1>t, <1>u, <1>3, <1>4, <1>6 DEF QueueStep
<1>8. Contents(commit_queue', Wrap(commit_read_pointer, m, DEPTH_COMMIT),
               commit_status_cnt + n - m, DEPTH_COMMIT)
        = (IF m = 1 THEN Tail(CommitSeq) ELSE CommitSeq) \o post
  BY <1>7, ContentsStep DEF CommitSeq
<1>9. CommitSeq' = Contents(commit_queue', commit_read_pointer', commit_status_cnt', DEPTH_COMMIT)
  BY DEF CommitSeq
<1> HIDE DEF e
<1>10. CommitSeq' = (IF m = 1 THEN Tail(CommitSeq) ELSE CommitSeq) \o post
  BY <1>5, <1>8, <1>9
<1>11. post = IF commit_i THEN <<Head(SpecSeq)>> ELSE <<>>
  BY <1>2 DEF post
<1> QED BY <1>3, <1>10, <1>11, ZenonT(30)

\* Every cycle is a step of StoreQueue.
LEMMA BufferCycleRefines ==
    ASSUME BufferInv, BufferInv',
           NEW st \in Store, NEW valid_i \in BOOLEAN, NEW commit_i \in BOOLEAN,
           NEW flush_i \in BOOLEAN, NEW data_gnt \in BOOLEAN,
           BufferCycle(valid_i, st, commit_i, flush_i, data_gnt)
    PROVE  Queue!Next
<1> DEFINE post == IF valid_i /\ ~flush_i THEN <<st>> ELSE <<>>
<1>1. /\ SpecSeq \in Seq(Store) /\ Len(SpecSeq) = speculative_status_cnt
      /\ CommitSeq \in Seq(Store) /\ Len(CommitSeq) = commit_status_cnt
  <2>1. /\ IsContents(SpecSeq, speculative_queue, speculative_read_pointer,
                      speculative_status_cnt, DEPTH_SPEC)
        /\ IsContents(CommitSeq, commit_queue, commit_read_pointer,
                      commit_status_cnt, DEPTH_COMMIT)
    BY SpecTypes, CommitTypes
  <2> QED BY <2>1 DEF IsContents
<1>t. /\ DEPTH_SPEC \in Nat \ {0} /\ speculative_status_cnt \in 0..DEPTH_SPEC
      /\ DEPTH_COMMIT \in Nat \ {0} /\ commit_status_cnt \in 0..DEPTH_COMMIT
  BY SpecTypes, CommitTypes
<1>a. /\ commit_and_flush(commit_i, flush_i) /\ speculative_buffer_overflow(valid_i)
      /\ speculative_buffer_underflow(commit_i) /\ commit_buffer_overflow(commit_i)
  BY DEF BufferCycle
<1>2. commit_i => SpecSeq # <<>> /\ Len(CommitSeq) < DEPTH_COMMIT /\ ~flush_i
  BY <1>1, <1>t, <1>a DEF commit_and_flush, speculative_buffer_underflow,
                          commit_buffer_overflow
<1>3. post # <<>> => Len(SpecSeq) < DEPTH_SPEC
  BY <1>1, <1>t, <1>a DEF speculative_buffer_overflow
<1>4. pop(data_gnt) => CommitSeq # <<>>
  <2>1. pop(data_gnt) => commit_status_cnt > 0
    BY CommitTypes
  <2> QED BY <1>1, <1>t, <2>1
<1>5. SpecSeq' = IF flush_i THEN <<>>
                 ELSE (IF commit_i THEN Tail(SpecSeq) ELSE SpecSeq) \o post
  BY CycleSpecSeq, ZenonT(30)
<1>6. CommitSeq' = (IF pop(data_gnt) THEN Tail(CommitSeq) ELSE CommitSeq)
                   \o (IF commit_i THEN <<Head(SpecSeq)>> ELSE <<>>)
  BY CycleCommitSeq, ZenonT(30)
<1>7. post \in {<<>>} \union {<<x>> : x \in Store}
  OBVIOUS
<1>8. pop(data_gnt) \in BOOLEAN
  BY CommitTypes DEF pop, data_req_o, QueueEntry
<1> HIDE DEF post
<1>9. Queue!Step(post, commit_i, flush_i, pop(data_gnt))
  <2> USE DEF SpecSeq, CommitSeq
  <2> QED BY <1>2, <1>3, <1>4, <1>5, <1>6, Zenon DEF Queue!Step
<1> QED BY <1>7, <1>8, <1>9, Zenon DEF Queue!Next

\* The buffer implements StoreQueue for every set of stores and all depths.
THEOREM QueueRefinement == StoreBufferSpec => RefinesStoreQueue
<1>1. BufferInit => Queue!Init
  <2> SUFFICES ASSUME BufferInit PROVE SpecSeq = <<>> /\ CommitSeq = <<>>
    BY DEF Queue!Init, SpecSeq, CommitSeq
  <2>1. BufferInv
    BY BufferInitInv
  <2>2. /\ SpecSeq \in Seq(Store) /\ Len(SpecSeq) = 0
        /\ CommitSeq \in Seq(Store) /\ Len(CommitSeq) = 0
    <3>1. speculative_status_cnt = 0 /\ commit_status_cnt = 0
      BY DEF BufferInit
    <3>2. /\ IsContents(SpecSeq, speculative_queue, speculative_read_pointer,
                        speculative_status_cnt, DEPTH_SPEC)
          /\ IsContents(CommitSeq, commit_queue, commit_read_pointer,
                        commit_status_cnt, DEPTH_COMMIT)
      BY <2>1, SpecTypes, CommitTypes
    <3> QED BY <3>1, <3>2 DEF IsContents
  <2> QED BY <2>2, EmptySeq
<1>2. BufferInv /\ BufferInv' /\ [BufferNext]_(bufferVars) => [Queue!Next]_(Queue!vars)
  <2>1. ASSUME BufferInv, BufferInv', BufferNext PROVE Queue!Next
    BY <2>1, BufferCycleRefines DEF BufferNext
  <2>2. ASSUME UNCHANGED bufferVars PROVE UNCHANGED Queue!vars
    BY <2>2 DEF bufferVars, specVars, commitVars, Queue!vars, Contents
  <2> QED BY <2>1, <2>2
<1> QED BY BufferInvariance, <1>1, <1>2, PTL DEF StoreBufferSpec, RefinesStoreQueue, Queue!Spec

-----------------------------------------------------------------------------
(***************************************************************************)
(* The store unit in front of it.                                          *)
(***************************************************************************)
\* The reset state satisfies the invariant.
LEMMA UnitInitInv == UnitInit => UnitInv
  BY StoreAssumption, DepthAssumption DEF UnitInit, UnitInv, RoomWhenPosted, BufferInit

\* What a cycle does to the count of the speculative queue.
LEMMA CountStep ==
  ASSUME NEW st \in Store, NEW tid \in TransId, NEW valid_i \in BOOLEAN,
         NEW commit_i \in BOOLEAN, NEW flush_i \in BOOLEAN, NEW data_gnt \in BOOLEAN,
         UnitCycle(valid_i, st, tid, commit_i, flush_i, data_gnt)
  PROVE  speculative_status_cnt' =
             IF flush_i THEN 0
             ELSE speculative_status_cnt
                      + (IF st_state = "VALID_STORE" THEN 1 ELSE 0)
                      - (IF commit_i THEN 1 ELSE 0)
  BY DEF UnitCycle, UnitLatch, CoreIf, speculative_status_cnt_n, st_valid

\* The unit enters VALID_STORE only if the buffer signalled room.
LEMMA AcceptStep ==
  ASSUME NEW st \in Store, NEW tid \in TransId, NEW valid_i \in BOOLEAN,
         NEW commit_i \in BOOLEAN, NEW flush_i \in BOOLEAN, NEW data_gnt \in BOOLEAN,
         UnitCycle(valid_i, st, tid, commit_i, flush_i, data_gnt)
  PROVE  /\ st_state' \in {"IDLE", "VALID_STORE", "WAIT_STORE_READY"}
         /\ st_state' = "VALID_STORE" =>
                ~flush_i /\ (speculative_status_cnt < DEPTH_SPEC - 1 \/ commit_i)
  <1>1. st_state' = state_d(valid_i, commit_i, flush_i)
    BY DEF UnitCycle, UnitLatch
  <1>2. CASE flush_i
    BY <1>1, <1>2 DEF state_d
  <1>3. CASE ~flush_i /\ st_state = "WAIT_STORE_READY"
    BY <1>1, <1>3 DEF state_d
  <1>4. CASE ~flush_i /\ st_state # "WAIT_STORE_READY"
    BY <1>1, <1>4 DEF state_d, pop_st_o, st_ready, ready_o
  <1> QED BY <1>2, <1>3, <1>4

\* One cycle preserves the invariant.
LEMMA UnitCycleInv ==
  ASSUME UnitInv,
         NEW st \in Store, NEW tid \in TransId, NEW valid_i \in BOOLEAN,
         NEW commit_i \in BOOLEAN, NEW flush_i \in BOOLEAN, NEW data_gnt \in BOOLEAN,
         UnitCycle(valid_i, st, tid, commit_i, flush_i, data_gnt)
  PROVE  UnitInv'
  <1>1. st_q' \in Store
    BY StoreAssumption, DepthAssumption DEF UnitCycle, UnitLatch
  <1>2. commit_i => speculative_status_cnt > 0
    BY StoreAssumption, DepthAssumption DEF UnitInv, UnitCycle, speculative_buffer_underflow
  <1>3. speculative_status_cnt' \in 0..DEPTH_SPEC /\ RoomWhenPosted'
    BY <1>2, CountStep, AcceptStep, StoreAssumption, DepthAssumption, SMTT(30) DEF UnitInv, RoomWhenPosted
  <1> QED BY <1>1, <1>3, AcceptStep DEF UnitInv

\* The inductive invariant holds in every reachable state.
THEOREM UnitInvariance == UnitSpec => []UnitInv
  <1>1. UnitInv /\ [UnitNext]_storeUnitVars => UnitInv'
    <2>1. ASSUME UnitInv, UnitNext PROVE UnitInv'
      BY <2>1, UnitCycleInv DEF UnitNext
    <2>2. ASSUME UnitInv, UNCHANGED storeUnitVars PROVE UnitInv'
      BY <2>2 DEF UnitInv, RoomWhenPosted, storeUnitVars, unitVars, bufferVars, specVars
    <2> QED BY <2>1, <2>2
  <1> QED BY UnitInitInv, <1>1, PTL DEF UnitSpec

\* A store accepted on last cycle's ready finds room when it is posted.
THEOREM RoomWhenPostedHolds == UnitSpec => []RoomWhenPosted
  <1>1. UnitInv => RoomWhenPosted
    BY DEF UnitInv
  <1> QED BY UnitInvariance, <1>1, PTL

\* The buffer behaves as specified in StoreBuffer, overflow assumption included.
THEOREM BufferRefinement == UnitSpec => BufferSpec
  <1>1. UnitInit => BufferInit
    BY DEF UnitInit
  <1>2. UnitInv /\ [UnitNext]_storeUnitVars => [BufferNext]_(bufferVars)
    <2>1. ASSUME UnitInv, UnitNext PROVE BufferNext
      <3>1. PICK valid_i, commit_i, flush_i, data_gnt \in BOOLEAN, st \in Store, tid \in TransId :
                UnitCycle(valid_i, st, tid, commit_i, flush_i, data_gnt)
        BY <2>1 DEF UnitNext
      <3>2. speculative_buffer_overflow(st_valid(flush_i))
        BY <2>1, StoreAssumption, DepthAssumption DEF UnitInv, RoomWhenPosted, st_valid, speculative_buffer_overflow
      <3>3. BufferCycle(st_valid(flush_i), st_q, commit_i, flush_i, data_gnt)
        BY <3>1, <3>2 DEF UnitCycle, UnitLatch, BufferCycle
      <3>4. st_valid(flush_i) \in BOOLEAN /\ st_q \in Store
        BY <2>1 DEF st_valid, UnitInv
      <3> QED BY <3>3, <3>4 DEF BufferNext
    <2>2. UNCHANGED storeUnitVars => UNCHANGED bufferVars
      BY DEF storeUnitVars
    <2> QED BY <2>1, <2>2
  <1> QED BY UnitInvariance, <1>1, <1>2, PTL DEF UnitSpec, BufferSpec, StoreBufferSpec

-----------------------------------------------------------------------------
(***************************************************************************)
(* The scoreboard.                                                         *)
(***************************************************************************)
USE SizeAssumption DEF Id, Port

\* Moving the start of the window by n takes n off the distance.
LEMMA WrapRange ==
  ASSUME NEW p \in Id, NEW n \in 0..NR_ENTRIES
  PROVE  Wrap(p, n, NR_ENTRIES) \in Id
  BY DEF Wrap

LEMMA DistRange ==
  ASSUME NEW p \in Id, NEW i \in Id
  PROVE  Dist(p, i, NR_ENTRIES) \in Id
  BY DEF Dist

LEMMA DistWrap ==
  ASSUME NEW p \in Id, NEW n \in 0..NR_ENTRIES-1
  PROVE  Dist(p, Wrap(p, n, NR_ENTRIES), NR_ENTRIES) = n
  BY DEF Wrap, Dist

LEMMA WrapDist ==
  ASSUME NEW p \in Id, NEW i \in Id
  PROVE  Wrap(p, Dist(p, i, NR_ENTRIES), NR_ENTRIES) = i
  BY DEF Wrap, Dist

LEMMA DistShift ==
  ASSUME NEW p \in Id, NEW i \in Id, NEW n \in 0..NR_ENTRIES-1
  PROVE  Dist(Wrap(p, n, NR_ENTRIES), i, NR_ENTRIES)
           = IF Dist(p, i, NR_ENTRIES) >= n THEN Dist(p, i, NR_ENTRIES) - n
                                            ELSE Dist(p, i, NR_ENTRIES) - n + NR_ENTRIES
  BY DEF Wrap, Dist

LEMMA WrapWrap ==
  ASSUME NEW p \in Id, NEW n \in 0..NR_ENTRIES-1, NEW m \in 0..NR_ENTRIES-1,
         NEW k \in 0..NR_ENTRIES-1, m = n + k
  PROVE  Wrap(Wrap(p, n, NR_ENTRIES), k, NR_ENTRIES) = Wrap(p, m, NR_ENTRIES)
  BY DEF Wrap

-----------------------------------------------------------------------------
\* The reset state satisfies the invariant.
LEMMA InitInv == Init => Inv
  <1> SUFFICES ASSUME Init PROVE Inv
    OBVIOUS
  <1>1. TypeOK
    BY InstrAssumption DEF Init, TypeOK, Entry
  <1>2. IssueWindow
    BY DEF Init, IssueWindow, Wrap, Dist
  <1>3. PortsConsecutive
    BY DEF Init, PortsConsecutive
  <1> QED BY <1>1, <1>2, <1>3 DEF Inv

\* The acknowledged entries are the num_commit oldest ones, all in issue.
LEMMA ReleasedOldest ==
  ASSUME Inv, NEW num_commit \in 0..NR_COMMIT_PORTS, commit_ack_valid(num_commit)
  PROVE  /\ num_commit <= issue_cnt
         /\ \A i \in Id : i \in Released(num_commit)
                              <=> Dist(commit_pointer[0], i, NR_ENTRIES) < num_commit
  <1>t. commit_pointer[0] \in Id /\ issue_cnt \in Id
    BY DEF Inv, TypeOK
  <1>1. CASE num_commit = 0
    <2>1. \A i \in Id : Dist(commit_pointer[0], i, NR_ENTRIES) \in Nat
      BY <1>t DEF Dist
    <2>2. Released(num_commit) = {}
      BY <1>1 DEF Released
    <2> QED BY <1>1, <1>t, <2>1, <2>2
  <1>2. CASE num_commit # 0
    <2>1. mem[commit_pointer[0]].valid
      BY <1>2 DEF commit_ack_valid, commit_instr_valid
    <2>2. Dist(commit_pointer[0], commit_pointer[0], NR_ENTRIES) < issue_cnt
      BY <2>1, <1>t DEF Inv, IssueWindow
    <2>3. issue_cnt # 0
      BY <2>2, <1>t DEF Dist
    <2>4. \A k \in Port : commit_pointer[k] = Wrap(commit_pointer[0], k, NR_ENTRIES)
      BY <2>3 DEF Inv, PortsConsecutive
    <2>5. \A k \in 0..num_commit-1 : /\ k \in Port /\ k \in 0..NR_ENTRIES-1
                                     /\ Dist(commit_pointer[0], commit_pointer[k], NR_ENTRIES) = k
      BY <2>4, <1>t, DistWrap
    <2>6. num_commit <= issue_cnt
      <3>1. num_commit - 1 \in 0..num_commit-1
        BY <1>2
      <3>2. mem[commit_pointer[num_commit-1]].valid
        BY <3>1 DEF commit_ack_valid, commit_instr_valid
      <3>3. commit_pointer[num_commit-1] \in Id
        BY <3>1, <2>5 DEF Inv, TypeOK
      <3>4. Dist(commit_pointer[0], commit_pointer[num_commit-1], NR_ENTRIES) < issue_cnt
        BY <3>2, <3>3 DEF Inv, IssueWindow
      <3> QED BY <3>1, <3>4, <2>5, <1>t
    <2>7. ASSUME NEW i \in Id
          PROVE  i \in Released(num_commit)
                     <=> Dist(commit_pointer[0], i, NR_ENTRIES) < num_commit
      <3>1. ASSUME i \in Released(num_commit)
            PROVE  Dist(commit_pointer[0], i, NR_ENTRIES) < num_commit
        BY <3>1, <2>5 DEF Released
      <3>2. ASSUME Dist(commit_pointer[0], i, NR_ENTRIES) < num_commit
            PROVE  i \in Released(num_commit)
        <4> DEFINE k == Dist(commit_pointer[0], i, NR_ENTRIES)
        <4>1. k \in 0..num_commit-1
          BY <3>2, <1>t DEF Dist
        <4>2. commit_pointer[k] = Wrap(commit_pointer[0], k, NR_ENTRIES)
          BY <4>1, <2>4, <2>5
        <4>3. commit_pointer[k] = i
          BY <4>2, <1>t, WrapDist
        <4> QED BY <4>1, <4>3 DEF Released
      <3> QED BY <3>1, <3>2
    <2> QED BY <2>6, <2>7
  <1> QED BY <1>1, <1>2

\* A cycle keeps counter and pointers in step; the counter does not wrap.
LEMMA CycleCount ==
  ASSUME Inv, NEW issue \in BOOLEAN, NEW flush_i \in BOOLEAN, NEW instr \in Instr,
         NEW wb \in SUBSET Id, NEW num_commit \in 0..NR_COMMIT_PORTS,
         Cycle(issue, instr, wb, num_commit, flush_i), ~flush_i
  PROVE  /\ issue_cnt' = issue_cnt - num_commit + (IF issue THEN 1 ELSE 0)
         /\ issue_cnt' \in Id
         /\ commit_pointer'[0] = Wrap(commit_pointer[0], num_commit, NR_ENTRIES)
         /\ issue_pointer' = Wrap(commit_pointer'[0], issue_cnt', NR_ENTRIES)
  <1>t. commit_pointer[0] \in Id /\ issue_cnt \in Id /\ issue_pointer \in Id
    BY DEF Inv, TypeOK
  <1>1. num_commit <= issue_cnt
    BY ReleasedOldest DEF Cycle
  <1>2. issue => issue_cnt < NR_ENTRIES - 1
    BY <1>t DEF Cycle, issue_ack_valid, issue_full
  <1>3. /\ issue_cnt' = issue_cnt - num_commit + (IF issue THEN 1 ELSE 0)
        /\ issue_cnt' \in Id
    BY <1>1, <1>2, <1>t DEF Cycle, Latch, issue_cnt_n, Narrow
  <1>4. commit_pointer'[0] = Wrap(commit_pointer[0], num_commit, NR_ENTRIES)
    BY <1>t, <1>1, WrapRange DEF Cycle, Latch, commit_pointer_n, Wrap
  <1>5. issue_pointer = Wrap(commit_pointer[0], issue_cnt, NR_ENTRIES)
    BY DEF Inv, IssueWindow
  <1>6. issue_pointer' = IF issue THEN Incr(issue_pointer, NR_ENTRIES) ELSE issue_pointer
    BY DEF Cycle, Latch, issue_pointer_n
  <1>7. issue_pointer' = Wrap(commit_pointer'[0], issue_cnt', NR_ENTRIES)
    BY <1>t, <1>1, <1>2, <1>3, <1>4, <1>5, <1>6 DEF Wrap, Incr
  <1> QED BY <1>3, <1>4, <1>7

\* The bits of an entry after a cycle.
LEMMA CycleEntry ==
  ASSUME Inv, NEW issue \in BOOLEAN, NEW flush_i \in BOOLEAN, NEW instr \in Instr,
         NEW wb \in SUBSET Id, NEW num_commit \in 0..NR_COMMIT_PORTS,
         Cycle(issue, instr, wb, num_commit, flush_i), NEW i \in Id
  PROVE  /\ mem'[i].issued <=> /\ mem[i].issued \/ (issue /\ i = issue_pointer)
                               /\ ~flush_i /\ i \notin Released(num_commit)
         /\ mem'[i].valid => mem'[i].issued
         /\ mem'[i] \in Entry
  <1>t. mem \in [Id -> Entry] /\ issue_pointer \in Id
    BY DEF Inv, TypeOK
  <1>1. mem' = mem_n(issue, instr, wb, num_commit, flush_i)
    BY DEF Cycle, Latch
  <1> DEFINE e == Issued(issue, instr)[i]
  <1>2. /\ e.issued <=> mem[i].issued \/ (issue /\ i = issue_pointer)
        /\ e \in Entry
    BY <1>t DEF Issued, Entry
  <1>3. mem[i].valid => mem[i].issued
    BY DEF Inv, IssueWindow
  <1>4. e.valid => e.issued
    BY <1>t, <1>3 DEF Issued, Entry
  <1>5. i \in Finishing(wb) => mem[i].issued
    BY DEF Finishing
  <1>6. mem'[i] = [issued |-> e.issued /\ ~(flush_i \/ i \in Released(num_commit)),
                   valid |-> (e.valid \/ i \in Finishing(wb))
                                 /\ ~(flush_i \/ i \in Released(num_commit)),
                   instr |-> e.instr]
    BY <1>1 DEF mem_n
  <1> HIDE DEF e
  <1>7. /\ mem'[i].issued = (e.issued /\ ~(flush_i \/ i \in Released(num_commit)))
        /\ mem'[i].valid = ((e.valid \/ i \in Finishing(wb))
                               /\ ~(flush_i \/ i \in Released(num_commit)))
        /\ mem'[i].instr = e.instr
    BY <1>6
  <1>8. mem'[i] \in Entry
    BY <1>2, <1>6 DEF Entry
  <1> QED BY <1>2, <1>4, <1>5, <1>7, <1>8

\* One cycle preserves the invariant.
LEMMA CycleInv ==
  ASSUME Inv, NEW issue \in BOOLEAN, NEW flush_i \in BOOLEAN, NEW instr \in Instr,
         NEW wb \in SUBSET Id, NEW num_commit \in 0..NR_COMMIT_PORTS,
         Cycle(issue, instr, wb, num_commit, flush_i)
  PROVE  Inv'
  <1>t. /\ commit_pointer[0] \in Id /\ issue_cnt \in Id /\ issue_pointer \in Id
        /\ mem \in [Id -> Entry]
    BY DEF Inv, TypeOK
  <1>c. /\ commit_pointer' = commit_pointer_n(num_commit, flush_i)
        /\ mem' = mem_n(issue, instr, wb, num_commit, flush_i)
        /\ issue_cnt' = issue_cnt_n(issue, num_commit, flush_i)
        /\ issue_pointer' = issue_pointer_n(issue, flush_i)
    BY DEF Cycle, Latch
  <1>1. commit_pointer' \in [Port -> Id]
    <2>1. Wrap(commit_pointer[0], num_commit, NR_ENTRIES) \in Id
      BY <1>t DEF Wrap
    <2>2. \A k \in Port : Wrap(Wrap(commit_pointer[0], num_commit, NR_ENTRIES), k, NR_ENTRIES) \in Id
      BY <2>1, WrapRange
    <2> QED BY <1>c, <2>2 DEF commit_pointer_n
  <1>2. mem' \in [Id -> Entry]
    BY <1>c, CycleEntry DEF mem_n
  <1>3. CASE flush_i
    <2>1. issue_cnt' = 0 /\ issue_pointer' = 0 /\ commit_pointer'[0] = 0
      BY <1>3, <1>c DEF issue_cnt_n, issue_pointer_n, commit_pointer_n
    <2>2. \A i \in Id : ~mem'[i].issued /\ ~mem'[i].valid
      BY <1>3, CycleEntry
    <2>3. \A i \in Id : ~(Dist(0, i, NR_ENTRIES) < 0)
      BY DEF Dist
    <2> QED BY <2>1, <2>2, <2>3, <1>1, <1>2, SMTT(30) DEF Inv, TypeOK, IssueWindow, PortsConsecutive, Wrap
  <1>4. CASE ~flush_i
    <2>1. /\ issue_cnt' = issue_cnt - num_commit + (IF issue THEN 1 ELSE 0)
          /\ issue_cnt' \in Id
          /\ commit_pointer'[0] = Wrap(commit_pointer[0], num_commit, NR_ENTRIES)
          /\ issue_pointer' = Wrap(commit_pointer'[0], issue_cnt', NR_ENTRIES)
      BY <1>4, CycleCount
    <2>2. num_commit <= issue_cnt /\ num_commit \in 0..NR_ENTRIES-1
      BY <1>t, ReleasedOldest DEF Cycle
    <2>3. ASSUME NEW i \in Id
          PROVE  mem'[i].issued <=> Dist(commit_pointer'[0], i, NR_ENTRIES) < issue_cnt'
      <3> DEFINE d == Dist(commit_pointer[0], i, NR_ENTRIES)
      <3>1. mem[i].issued <=> d < issue_cnt
        BY DEF Inv, IssueWindow
      <3>2. i = issue_pointer <=> d = issue_cnt
        <4>1. issue_pointer = Wrap(commit_pointer[0], issue_cnt, NR_ENTRIES)
          BY DEF Inv, IssueWindow
        <4> QED BY <4>1, <1>t, DistWrap, WrapDist
      <3>3. i \in Released(num_commit) <=> d < num_commit
        BY ReleasedOldest DEF Cycle
      <3>4. d \in Id
        BY <1>t, DistRange
      <3>5. Dist(commit_pointer'[0], i, NR_ENTRIES)
              = IF d >= num_commit THEN d - num_commit ELSE d - num_commit + NR_ENTRIES
        BY <2>1, <2>2, <1>t, DistShift
      <3>6. mem'[i].issued <=> /\ mem[i].issued \/ (issue /\ i = issue_pointer)
                               /\ i \notin Released(num_commit)
        BY <1>4, CycleEntry
      <3>7. issue => issue_cnt < NR_ENTRIES - 1
        BY <1>t DEF Cycle, issue_ack_valid, issue_full
      <3> HIDE DEF d
      <3>8. mem'[i].issued <=> (d < issue_cnt \/ (issue /\ d = issue_cnt)) /\ ~(d < num_commit)
        BY <3>1, <3>2, <3>3, <3>6
      <3> QED BY <3>4, <3>5, <3>7, <3>8, <2>1, <2>2, <1>t
    <2>4. IssueWindow'
      BY <2>1, <2>3, CycleEntry DEF IssueWindow
    <2>5. PortsConsecutive'
      BY <1>4, <1>c, <2>1 DEF PortsConsecutive, commit_pointer_n
    <2>6. issue_pointer' \in Id
      <3>1. commit_pointer'[0] \in Id
        BY <1>1
      <3> QED BY <2>1, <3>1, WrapRange
    <2> QED BY <2>1, <2>4, <2>5, <2>6, <1>1, <1>2 DEF Inv, TypeOK
  <1> QED BY <1>3, <1>4

\* What a cycle does to the window.
LEMMA WindowStep ==
  ASSUME Inv, NEW issue \in BOOLEAN, NEW flush_i \in BOOLEAN, NEW instr \in Instr,
         NEW wb \in SUBSET Id, NEW num_commit \in 0..NR_COMMIT_PORTS,
         Cycle(issue, instr, wb, num_commit, flush_i)
  PROVE  WindowMoves(issue, instr, wb, num_commit, flush_i)
  <1>t. /\ commit_pointer[0] \in Id /\ issue_cnt \in Id /\ issue_pointer \in Id
        /\ mem \in [Id -> Entry]
        /\ issue_pointer = Wrap(commit_pointer[0], issue_cnt, NR_ENTRIES)
        /\ \A i \in Id : mem[i].issued <=> Dist(commit_pointer[0], i, NR_ENTRIES) < issue_cnt
    BY DEF Inv, TypeOK, IssueWindow
  <1>d. \A i \in Id : Dist(commit_pointer[0], i, NR_ENTRIES) \in Id
    BY <1>t, DistRange
  <1>1. /\ num_commit <= issue_cnt
        /\ \A i \in Id : i \in Released(num_commit)
                             <=> Dist(commit_pointer[0], i, NR_ENTRIES) < num_commit
    BY ReleasedOldest DEF Cycle
  <1>r. \A i \in Id : i \notin Released(num_commit)
                          <=> Dist(commit_pointer[0], i, NR_ENTRIES) >= num_commit
    BY <1>1, <1>d
  <1>2. flush_i => issue_cnt' = 0
    BY DEF Cycle, Latch, issue_cnt_n
  <1>p. issue_pointer \notin Released(num_commit) /\ ~mem[issue_pointer].issued
    <2>1. Dist(commit_pointer[0], issue_pointer, NR_ENTRIES) = issue_cnt
      BY <1>t, DistWrap
    <2> QED BY <1>1, <1>t, <2>1
  <1>3. ASSUME ~flush_i
        PROVE  /\ issue_cnt' = issue_cnt - num_commit + (IF issue THEN 1 ELSE 0)
               /\ commit_pointer'[0] = Wrap(commit_pointer[0], num_commit, NR_ENTRIES)
    BY <1>3, CycleCount
  <1>4. ASSUME ~flush_i, NEW i \in Id
        PROVE  mem'[i].issued <=> /\ mem[i].issued \/ (issue /\ i = issue_pointer)
                                  /\ Dist(commit_pointer[0], i, NR_ENTRIES) >= num_commit
    BY <1>4, <1>r, CycleEntry
  <1>5. ASSUME ~flush_i, NEW i \in Id, Dist(commit_pointer[0], i, NR_ENTRIES) >= num_commit
        PROVE  Dist(commit_pointer'[0], i, NR_ENTRIES)
                   = Dist(commit_pointer[0], i, NR_ENTRIES) - num_commit
    <2>1. num_commit \in 0..NR_ENTRIES-1
      BY <1>1, <1>t
    <2> QED BY <1>3, <1>5, <1>t, <2>1, DistShift
  <1>6. ASSUME ~flush_i, NEW i \in Id, i \notin Released(num_commit)
        PROVE  /\ mem'[i].valid <=> Issued(issue, instr)[i].valid \/ i \in Finishing(wb)
               /\ mem'[i].instr = Issued(issue, instr)[i].instr
    <2>1. mem' = mem_n(issue, instr, wb, num_commit, flush_i)
      BY DEF Cycle, Latch
    <2> QED BY <2>1, <1>6 DEF mem_n
  <1>7. ASSUME ~flush_i, NEW i \in Id, mem[i].issued,
               Dist(commit_pointer[0], i, NR_ENTRIES) >= num_commit
        PROVE  /\ mem'[i].instr = mem[i].instr
               /\ mem'[i].valid <=> mem[i].valid \/ mem[i].instr \in NoUnit \/ i \in wb
    <2>1. Issued(issue, instr)[i] = mem[i]
      BY <1>7, <1>p, <1>t DEF Issued
    <2>2. i \in Finishing(wb) <=> mem[i].instr \in NoUnit \/ i \in wb
      BY <1>7 DEF Finishing
    <2> QED BY <1>6, <1>7, <1>r, <2>1, <2>2
  <1>8. ASSUME ~flush_i, issue
        PROVE  /\ mem'[issue_pointer].instr = instr
               /\ mem'[issue_pointer].valid <=> instr \in Faulty
    <2> DEFINE e == [issued |-> TRUE, valid |-> instr \in Faulty, instr |-> instr]
    <2>1. Issued(issue, instr)[issue_pointer] = e
      BY <1>8, <1>t DEF Issued
    <2>2. e.instr = instr /\ (e.valid <=> instr \in Faulty)
      OBVIOUS
    <2> HIDE DEF e
    <2>3. issue_pointer \notin Finishing(wb)
      BY <1>p DEF Finishing
    <2>4. /\ mem'[issue_pointer].valid <=> Issued(issue, instr)[issue_pointer].valid
          /\ mem'[issue_pointer].instr = Issued(issue, instr)[issue_pointer].instr
      BY <1>6, <1>8, <1>p, <1>t, <2>3
    <2> QED BY <2>1, <2>2, <2>4
  <1>9. Inv'
    BY CycleInv
  <1> QED BY <1>1, <1>2, <1>3, <1>4, <1>5, <1>7, <1>8, <1>9 DEF WindowMoves

\* The inductive invariant holds in every reachable state.
THEOREM Invariance == Spec => []Inv
  <1>1. Inv /\ [Next]_vars => Inv'
    <2>1. ASSUME Inv, Next PROVE Inv'
      BY <2>1, CycleInv DEF Next
    <2>2. ASSUME Inv, UNCHANGED vars PROVE Inv'
      BY <2>2 DEF Inv, TypeOK, IssueWindow, PortsConsecutive, vars
    <2> QED BY <2>1, <2>2
  <1> QED BY InitInv, <1>1, PTL DEF Spec

\* Every pointer of the ring stays in range and the count below the depth,
\* although issue_cnt is updated by an addition and a subtraction in one cycle.
THEOREM TypeCorrect == Spec => []TypeOK
  <1>1. Inv => TypeOK
    BY DEF Inv
  <1> QED BY Invariance, <1>1, PTL

\* The entries in issue are exactly the counted ones: no overwrite, no wrap of
\* the narrow counter, no revival by a late write back.
THEOREM IssueWindowHolds == Spec => []IssueWindow
  BY Invariance, PTL DEF Inv

\* No instruction is shown to two commit ports.
THEOREM NoDoubleRetireHolds == Spec => []NoDoubleRetire
  <1>1. Inv => NoDoubleRetire
    <2> SUFFICES ASSUME Inv, NEW j \in Port, NEW k \in Port, j # k,
                        commit_pointer[j] = commit_pointer[k], commit_instr_valid(j)
                 PROVE  FALSE
      BY DEF NoDoubleRetire
    <2>t. commit_pointer[0] \in Id /\ commit_pointer[j] \in Id /\ issue_cnt \in Id
      BY DEF Inv, TypeOK
    <2>1. Dist(commit_pointer[0], commit_pointer[j], NR_ENTRIES) < issue_cnt
      BY <2>t DEF Inv, IssueWindow, commit_instr_valid
    <2>2. Dist(commit_pointer[0], commit_pointer[j], NR_ENTRIES) \in Nat
      BY <2>t DEF Dist
    <2>3. \A m \in Port : commit_pointer[m] = Wrap(commit_pointer[0], m, NR_ENTRIES)
      BY <2>1, <2>2, <2>t DEF Inv, PortsConsecutive
    <2>4. j \in 0..NR_ENTRIES-1 /\ k \in 0..NR_ENTRIES-1
      OBVIOUS
    <2>5. j = Dist(commit_pointer[0], commit_pointer[j], NR_ENTRIES)
      BY <2>3, <2>4, <2>t, DistWrap
    <2>6. k = Dist(commit_pointer[0], commit_pointer[k], NR_ENTRIES)
      BY <2>3, <2>4, <2>t, DistWrap
    <2> QED BY <2>5, <2>6
  <1> QED BY Invariance, <1>1, PTL

-----------------------------------------------------------------------------
(***************************************************************************)
(* The entries in issue, read from the first commit pointer on, are the    *)
(* window of InOrderWindow.                                                *)
(***************************************************************************)
Rec == [instr : Instr, done : BOOLEAN]

\* The entry k places behind the first commit pointer.
Slot(k) == Wrap(commit_pointer[0], k - 1, NR_ENTRIES)

LEMMA SameRec ==
  ASSUME NEW r \in Rec, NEW s \in Rec, r.instr = s.instr, r.done <=> s.done
  PROVE  r = s
  <1>1. /\ r = [instr |-> r.instr, done |-> r.done] /\ s = [instr |-> s.instr, done |-> s.done]
        /\ r.done \in BOOLEAN /\ s.done \in BOOLEAN
    BY DEF Rec
  <1>2. r.done = s.done
    BY <1>1
  <1> QED BY <1>1, <1>2

\* What the window holds.
WindowHolds ==
  /\ issue_cnt \in Id /\ commit_pointer[0] \in Id
  /\ Window \in Seq(Rec) /\ Len(Window) = issue_cnt
  /\ \A k \in 1..issue_cnt : /\ Slot(k) \in Id /\ Window[k] \in Rec
                             /\ mem[Slot(k)].issued
                             /\ Window[k].instr = mem[Slot(k)].instr
                             /\ Window[k].done <=> mem[Slot(k)].valid

LEMMA WindowSeq == Inv => WindowHolds
  <1> SUFFICES ASSUME Inv PROVE WindowHolds
    OBVIOUS
  <1>1. issue_cnt \in Id /\ commit_pointer[0] \in Id /\ mem \in [Id -> Entry]
    BY DEF Inv, TypeOK
  <1>2. ASSUME NEW k \in 1..issue_cnt
        PROVE  /\ Slot(k) \in Id /\ mem[Slot(k)].issued
               /\ Dist(commit_pointer[0], Slot(k), NR_ENTRIES) = k - 1
    <2>1. k - 1 \in 0..NR_ENTRIES-1
      BY <1>1
    <2>2. Slot(k) \in Id /\ Dist(commit_pointer[0], Slot(k), NR_ENTRIES) = k - 1
      BY <1>1, <2>1 DEF Slot, Wrap, Dist
    <2> QED BY <1>1, <2>2 DEF Inv, IssueWindow
  <1>3. ASSUME NEW k \in 1..issue_cnt
        PROVE  /\ Window[k] \in Rec
               /\ Window[k].instr = mem[Slot(k)].instr
               /\ Window[k].done <=> mem[Slot(k)].valid
    <2>1. mem[Slot(k)].instr \in Instr /\ mem[Slot(k)].valid \in BOOLEAN
      BY <1>1, <1>2 DEF Entry
    <2>2. Window[k] = [instr |-> mem[Slot(k)].instr, done |-> mem[Slot(k)].valid]
      BY DEF Window, Slot
    <2> QED BY <2>1, <2>2 DEF Rec
  <1>4. Window \in [1..issue_cnt -> Rec]
    BY <1>3 DEF Window
  <1>5. Window \in Seq(Rec)
    BY <1>1, <1>4, SeqDef
  <1>6. Len(Window) = issue_cnt
    BY <1>1, <1>4, <1>5, LenProperties
  <1> QED BY <1>1, <1>2, <1>3, <1>5, <1>6 DEF WindowHolds

\* Every cycle is a step of InOrderWindow.
LEMMA CycleRefines ==
  ASSUME Inv, NEW issue \in BOOLEAN, NEW flush_i \in BOOLEAN, NEW instr \in Instr,
         NEW wb \in SUBSET Id, NEW num_commit \in 0..NR_COMMIT_PORTS,
         Cycle(issue, instr, wb, num_commit, flush_i)
  PROVE  InOrder!Next
  <1> DEFINE n == num_commit
             fin == {k \in 1..issue_cnt : Slot(k) \in Finishing(wb)}
             rec == [instr |-> instr, done |-> instr \in Faulty]
             new == IF issue THEN <<rec>> ELSE <<>>
             F == InOrder!Finish(fin)
             S == SubSeq(F, n + 1, issue_cnt)
  <1>t. /\ issue_cnt \in Id /\ commit_pointer[0] \in Id
        /\ Window \in Seq(Rec) /\ Len(Window) = issue_cnt
    BY WindowSeq DEF WindowHolds
  <1>w. \A k \in 1..issue_cnt : /\ Slot(k) \in Id /\ Window[k] \in Rec
                                /\ mem[Slot(k)].issued
                                /\ Window[k].instr = mem[Slot(k)].instr
                                /\ Window[k].done <=> mem[Slot(k)].valid
    BY WindowSeq DEF WindowHolds
  <1>m. WindowMoves(issue, instr, wb, n, flush_i)
    BY WindowStep
  <1>0. Inv' /\ n <= issue_cnt
    BY <1>m DEF WindowMoves
  <1>h. WindowHolds'
    BY <1>0, WindowSeq, PTL
  <1>r. /\ rec \in Rec /\ rec.instr = instr /\ (rec.done <=> instr \in Faulty)
    <2>1. (instr \in Faulty) \in BOOLEAN
      OBVIOUS
    <2> QED BY <2>1, Zenon DEF Rec
  <1> HIDE DEF rec
  <1>1. ASSUME NEW k \in 1..n PROVE Window[k].done
    <2>1. k - 1 \in 0..n-1 /\ k - 1 \in Port /\ k \in 1..issue_cnt /\ issue_cnt # 0
      BY <1>0, <1>t
    <2>2. mem[commit_pointer[k - 1]].valid
      BY <2>1 DEF Cycle, commit_ack_valid, commit_instr_valid
    <2>3. commit_pointer[k - 1] = Slot(k)
      BY <2>1 DEF Inv, PortsConsecutive, Slot
    <2> QED BY <1>w, <2>1, <2>2, <2>3
  <1>2. \A k \in 1..issue_cnt :
           /\ F[k] \in Rec /\ F[k].instr = mem[Slot(k)].instr
           /\ F[k].done <=> mem[Slot(k)].valid \/ k \in fin
    <2> SUFFICES ASSUME NEW k \in 1..issue_cnt
                 PROVE  /\ F[k] \in Rec /\ F[k].instr = mem[Slot(k)].instr
                        /\ F[k].done <=> mem[Slot(k)].valid \/ k \in fin
      OBVIOUS
    <2>1. F[k] = [Window[k] EXCEPT !.done = Window[k].done \/ k \in fin]
      BY <1>t DEF InOrder!Finish
    <2> HIDE DEF fin, F
    <2>2. /\ F[k].instr = Window[k].instr /\ F[k] \in Rec
          /\ F[k].done = (Window[k].done \/ k \in fin)
      BY <1>w, <2>1 DEF Rec
    <2> QED BY <1>w, <2>2
  <1> HIDE DEF F
  <1>3. /\ S \in Seq(Rec) /\ Len(S) = issue_cnt - n
        /\ \A k \in 1..(issue_cnt - n) : S[k] = F[n + k]
    <2>1. n + 1 \in Int /\ issue_cnt \in Int /\ \A i \in n + 1 .. issue_cnt : F[i] \in Rec
      BY <1>t, <1>2
    <2>2. /\ S \in Seq(Rec)
          /\ Len(S) = IF n + 1 <= issue_cnt THEN issue_cnt - (n + 1) + 1 ELSE 0
          /\ \A i \in 1 .. issue_cnt - (n + 1) + 1 : S[i] = F[(n + 1) + i - 1]
      BY <2>1, SubSeqProperties
    <2>3. issue_cnt - (n + 1) + 1 = issue_cnt - n
      BY <1>t
    <2>4. \A k \in 1..(issue_cnt - n) : (n + 1) + k - 1 = n + k
      BY <1>t
    <2> HIDE DEF S
    <2>5. Len(S) = issue_cnt - n
      BY <1>0, <1>t, <2>2
    <2> QED BY <2>2, <2>3, <2>4, <2>5
  <1> HIDE DEF S
  <1>4. /\ new \in Seq(Rec) /\ Len(new) = IF issue THEN 1 ELSE 0
        /\ issue => new[1] = rec
    BY <1>r
  <1>5. new \in InOrder!Entering
    <2>1. \E i \in Instr, d \in BOOLEAN : rec = [instr |-> i, done |-> d]
      <3>1. rec.instr \in Instr /\ rec.done \in BOOLEAN
            /\ rec = [instr |-> rec.instr, done |-> rec.done]
        BY <1>r DEF Rec
      <3> QED BY <3>1
    <2>2. CASE issue
      <3>1. new = <<rec>>
        BY <2>2
      <3>2. <<rec>> \in {<<[instr |-> i, done |-> d]>> : i \in Instr, d \in BOOLEAN}
        BY <2>1
      <3> QED BY <3>1, <3>2 DEF InOrder!Entering
    <2>3. CASE ~issue
      BY <2>3 DEF InOrder!Entering
    <2> QED BY <2>2, <2>3
  <1> HIDE DEF new
  <1>6. ASSUME flush_i PROVE Window' = <<>>
    <2>1. issue_cnt' = 0
      BY <1>6, <1>m DEF WindowMoves
    <2>2. Window' \in Seq(Rec) /\ Len(Window') = 0
      BY <1>h, <2>1 DEF WindowHolds
    <2> QED BY <2>2, EmptySeq
  <1>7. ASSUME ~flush_i PROVE Window' = S \o new
    <2>1. /\ S \o new \in Seq(Rec) /\ Len(S \o new) = Len(S) + Len(new)
          /\ \A k \in 1 .. Len(S) + Len(new) :
                (S \o new)[k] = IF k <= Len(S) THEN S[k] ELSE new[k - Len(S)]
      BY <1>3, <1>4, ConcatProperties
    <2>2. issue_cnt' = issue_cnt - n + (IF issue THEN 1 ELSE 0)
      BY <1>7, <1>m DEF WindowMoves
    <2>3. Len(S) + Len(new) = issue_cnt'
      BY <1>3, <1>4, <2>2
    <2>4. /\ Window' \in Seq(Rec) /\ Len(Window') = issue_cnt'
      BY <1>h DEF WindowHolds
    <2>w. \A k \in 1..issue_cnt' : /\ Slot(k)' \in Id /\ Window'[k] \in Rec
                                   /\ Window'[k].instr = mem'[Slot(k)'].instr
                                   /\ Window'[k].done <=> mem'[Slot(k)'].valid
      BY <1>h DEF WindowHolds
    <2>5. ASSUME NEW k \in 1..issue_cnt' PROVE Window'[k] = (S \o new)[k]
      <3> DEFINE i == Wrap(commit_pointer[0], n + k - 1, NR_ENTRIES)
      <3>1. n + k - 1 \in 0..NR_ENTRIES-1 /\ n \in 0..NR_ENTRIES-1 /\ k - 1 \in 0..NR_ENTRIES-1
            /\ n + k - 1 = n + (k - 1) /\ n + k - 1 >= n
        <4>1. issue_cnt' \in Id
          BY <1>0 DEF Inv, TypeOK
        <4>2. issue => issue_cnt < NR_ENTRIES - 1
          BY <1>t DEF Cycle, issue_ack_valid, issue_full
        <4> QED BY <1>t, <1>0, <2>2, <4>1, <4>2
      <3>2. i \in Id /\ Dist(commit_pointer[0], i, NR_ENTRIES) = n + k - 1
        BY <1>t, <3>1 DEF Wrap, Dist
      <3>3. Slot(k)' = i
        <4>1. commit_pointer'[0] = Wrap(commit_pointer[0], n, NR_ENTRIES)
          BY <1>7, CycleCount
        <4>2. Wrap(Wrap(commit_pointer[0], n, NR_ENTRIES), k - 1, NR_ENTRIES) = i
          BY <1>t, <3>1 DEF Wrap
        <4> QED BY <4>1, <4>2 DEF Slot
      <3>4. CASE k <= issue_cnt - n
        <4>1. n + k \in 1..issue_cnt /\ k \in 1..(issue_cnt - n) /\ (n + k) - 1 = n + k - 1
          BY <1>t, <3>4
        <4>2. Slot(n + k) = i
          BY <4>1 DEF Slot
        <4> HIDE DEF i
        <4>3. (S \o new)[k] = F[n + k]
          BY <1>3, <2>1, <2>3, <3>4, <4>1
        <4>4. /\ mem'[i].instr = mem[i].instr
              /\ mem'[i].valid <=> mem[i].valid \/ mem[i].instr \in NoUnit \/ i \in wb
          BY <1>7, <1>m, <1>w, <3>1, <3>2, <4>1, <4>2 DEF WindowMoves
        <4>5. n + k \in fin <=> mem[i].instr \in NoUnit \/ i \in wb
          BY <1>w, <3>2, <4>1, <4>2 DEF Finishing
        <4> HIDE DEF fin
        <4>6. /\ F[n + k] \in Rec /\ F[n + k].instr = mem[i].instr
              /\ F[n + k].done <=> mem[i].valid \/ n + k \in fin
          BY <1>2, <4>1, <4>2
        <4>7. /\ Window'[k] \in Rec /\ Window'[k].instr = mem'[i].instr
              /\ Window'[k].done <=> mem'[i].valid
          BY <2>w, <3>3
        <4>8. Window'[k] = F[n + k]
          BY <4>4, <4>5, <4>6, <4>7, SameRec
        <4> QED BY <4>3, <4>8
      <3>5. CASE ~(k <= issue_cnt - n)
        <4>1. issue /\ k - (issue_cnt - n) = 1 /\ n + k - 1 = issue_cnt
          BY <1>t, <1>0, <2>2, <3>5
        <4>2. i = issue_pointer
          BY <4>1 DEF Inv, IssueWindow
        <4> HIDE DEF i
        <4>3. (S \o new)[k] = rec
          BY <1>3, <1>4, <2>1, <2>3, <3>5, <4>1
        <4>4. mem'[i].instr = instr /\ (mem'[i].valid <=> instr \in Faulty)
          BY <1>7, <1>m, <4>1, <4>2 DEF WindowMoves
        <4>5. /\ Window'[k] \in Rec /\ Window'[k].instr = mem'[i].instr
              /\ Window'[k].done <=> mem'[i].valid
          BY <2>w, <3>3
        <4>6. Window'[k] = rec
          BY <1>r, <4>4, <4>5, SameRec
        <4> QED BY <4>3, <4>6
      <3> QED BY <3>4, <3>5
    <2> QED BY <2>1, <2>3, <2>4, <2>5, SeqEqual
  <1>8. InOrder!Step(fin, n, new, flush_i)
    <2>1. n <= Len(Window) /\ \A k \in 1..n : Window[k].done
      BY <1>0, <1>1, <1>t
    <2>2. Window' = IF flush_i THEN <<>> ELSE SubSeq(InOrder!Finish(fin), n + 1, Len(Window)) \o new
      BY <1>6, <1>7, <1>t DEF S, F
    <2> HIDE DEF fin
    <2> QED BY <2>1, <2>2, Zenon DEF InOrder!Step
  <1>9. fin \in SUBSET (1..Len(Window)) /\ n \in 0..NR_COMMIT_PORTS
    BY <1>t
  <1> HIDE DEF fin
  <1> QED BY <1>5, <1>8, <1>9 DEF InOrder!Next

\* The scoreboard implements the in-order window, for every number of entries
\* and of commit ports: instructions retire in program order, each once, and
\* only when finished.
THEOREM Refinement == Spec => RefinesInOrderWindow
  <1>1. Init => InOrder!Init
    <2> SUFFICES ASSUME Init PROVE Window = <<>>
      BY DEF InOrder!Init
    <2>1. Window \in Seq(Rec) /\ Len(Window) = 0
      BY InitInv, WindowSeq DEF Init, WindowHolds
    <2> QED BY <2>1, EmptySeq
  <1>2. Inv /\ [Next]_vars => [InOrder!Next]_Window
    <2>1. ASSUME Inv, Next PROVE InOrder!Next
      BY <2>1, CycleRefines DEF Next
    <2>2. ASSUME UNCHANGED vars PROVE UNCHANGED Window
      BY <2>2 DEF vars, Window
    <2> QED BY <2>1, <2>2
  <1> QED BY Invariance, <1>1, <1>2, PTL DEF Spec, RefinesInOrderWindow, InOrder!Spec

=============================================================================
