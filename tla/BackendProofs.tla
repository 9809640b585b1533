---------------------------- MODULE BackendProofs ----------------------------
(***************************************************************************)
(* The back end of the core, for every number of scoreboard entries, every *)
(* depth of the store buffer and every set of addresses, data and          *)
(* instructions.  The argument follows each memory instruction from the    *)
(* issue register through the request queue and its unit to the            *)
(* scoreboard: Inv of Backend says where the instructions in flight are    *)
(* and in which order, and one cycle preserves it.                         *)
(***************************************************************************)
EXTENDS BackendSteps

-----------------------------------------------------------------------------
(***************************************************************************)
(* Reset, and cycles in which nothing changes.                             *)
(***************************************************************************)

\* After reset nothing waits and nothing is in flight.
LEMMA ResetState ==
  ASSUME Init
  PROVE  /\ BypassInv /\ WaitingInv /\ StoresInOrder /\ WaitingLoad /\ LoadsServed
         /\ FinishedStores = {} /\ speculative_status_cnt = 0
  <1>1. InFlight = {}
    BY DEF Init, Sb!Init, Sb!Id, InFlight, TransId
  <1>2. /\ lsu_mem = [i \in 0..1 |-> [valid |-> FALSE, req |-> L!NoReq]]
        /\ lsu_read_pointer = 0 /\ lsu_write_pointer = 0 /\ lsu_status_cnt = 0
        /\ lsu_valid = FALSE /\ csr_valid = FALSE /\ fu_data = L!NoReq
        /\ issue_cnt = 0
        /\ ld_state = "IDLE" /\ load_data = 0
        /\ st_state = "IDLE" /\ st_q = ResetStore
        /\ speculative_status_cnt = 0
        /\ ram \in [Addr -> Data] /\ raddr = ResetStore.addr /\ ld_serve_prev = FALSE
        /\ load_pipe = [valid |-> FALSE, tid |-> 0, data |-> ResetStore.data]
    BY DEF Init, Sb!Init, L!Init, L!LU!Init, L!SU!UnitInit, L!SU!BufferInit
  <1>3. Waits = 0
    BY <1>2 DEF Waits
  <1>4. ResetStore \in L!Store /\ ResetStore.addr \in Addr /\ 0 \in TransId
    BY InstrsAssumption, EntriesAssumption DEF L!Store, TransId
  <1>5. BypassInv
    <2>1. lsu_mem \in [0..1 -> [valid : BOOLEAN, req : L!Req \union {L!NoReq}]]
      BY <1>2
    <2>2. \A k \in 0..1 : /\ lsu_mem[(lsu_read_pointer + k) % 2].valid = FALSE
                          /\ ~(k < lsu_status_cnt)
      BY <1>2
    <2>3. lsu_write_pointer = (lsu_read_pointer + lsu_status_cnt) % 2
      BY <1>2
    <2>4. \A k \in 0..1 : lsu_mem[(lsu_read_pointer + k) % 2].valid <=> k < lsu_status_cnt
      BY <2>2
    <2>5. /\ lsu_read_pointer \in 0..1 /\ lsu_write_pointer \in 0..1 /\ lsu_status_cnt \in 0..2
          /\ Waits <= 2
      BY <1>2, <1>3
    <2>6. lsu_valid \in BOOLEAN
      BY <1>2, Zenon
    <2> QED BY <2>1, <2>3, <2>4, <2>5, <2>6 DEF BypassInv
  <1>6. WaitingInv
    <2>1. fu_data \in [fu : {"LOAD", "STORE", "CSR", "NONE"}, st : L!Store, tid : TransId]
      BY <1>2, <1>4 DEF L!NoReq
    <2>2. \A k : k \notin 0..Waits-1
      BY <1>3
    <2>3. ~lsu_valid /\ ~csr_valid /\ csr_valid \in BOOLEAN
      BY <1>2, Zenon
    <2>4. Waits # 2
      BY <1>3
    <2> QED BY <2>1, <2>2, <2>3, <2>4 DEF WaitingInv
  <1>7. FinishedStores = {}
    BY <1>1 DEF FinishedStores
  <1>8. StoresInOrder
    BY <1>1, <1>2, <1>4, <1>7, DepthsAssumption DEF StoresInOrder
  <1>9. WaitingLoad
    BY <1>2 DEF WaitingLoad
  <1>10. LoadsServed
    <2>1. load_pipe.tid = 0 /\ load_pipe.valid = FALSE
      BY <1>2
    <2> QED BY <1>2, <1>4, <2>1, Zenon DEF LoadsServed
  <1> QED BY <1>2, <1>5, <1>6, <1>7, <1>8, <1>9, <1>10

\* A step that changes no register keeps the invariant.
LEMMA Stutter ==
  ASSUME Inv, UNCHANGED vars
  PROVE  Inv'
  <1>1. UNCHANGED <<mem, issue_cnt, issue_pointer, commit_pointer>>
    BY DEF vars, Sb!vars
  <1>2. UNCHANGED <<lsu_valid, csr_valid, fu_data>>
    BY DEF vars, issueVars
  <1>3. /\ UNCHANGED <<lsu_mem, lsu_read_pointer, lsu_write_pointer, lsu_status_cnt>>
        /\ UNCHANGED <<ld_state, load_data, st_state, st_q, st_trans_id>>
        /\ UNCHANGED <<ram, raddr, ld_serve_prev, load_pipe>>
    BY DEF vars, L!vars, L!bypassVars, L!memVars, L!LU!unitVars, L!SU!storeUnitVars, L!SU!unitVars
  <1>4. /\ UNCHANGED <<speculative_queue, speculative_read_pointer, speculative_write_pointer,
                       speculative_status_cnt>>
        /\ UNCHANGED <<commit_queue, commit_read_pointer, commit_write_pointer, commit_status_cnt>>
    BY DEF vars, L!vars, L!SU!storeUnitVars, L!SU!bufferVars, L!SU!specVars, L!SU!commitVars
  <1>5. Sb!Inv'
    BY <1>1 DEF Inv, Sb!Inv, Sb!TypeOK, Sb!IssueWindow, Sb!PortsConsecutive
  <1>6. L!SU!BufferInv'
    BY <1>4 DEF Inv, L!SU!BufferInv, L!SU!BufferTypeOK, L!SU!SpecWindow, L!SU!CommitWindow,
                L!SU!QueueWindow
  <1>7. BypassInv'
    BY <1>2, <1>3 DEF Inv, BypassInv, Waits
  <1>8. WaitingInv'
    BY <1>1, <1>2, <1>3, Zenon DEF Inv, WaitingInv, Waits, Waiting, Unfinished, InFlight, Age
  <1>9. StoresInOrder'
    <2>1. FinishedStores' = FinishedStores /\ InFlight' = InFlight
      BY <1>1 DEF FinishedStores, InFlight
    <2>2. Waits' = Waits /\ Unfinished(Posting)' = Unfinished(Posting)
      BY <1>1, <1>2, <1>3, <2>1, Zenon DEF Waits, Unfinished, Posting
    <2>3. ASSUME NEW i PROVE AheadOfWaiting(i)' = AheadOfWaiting(i) /\ Age(i)' = Age(i)
      BY <1>1, <1>2, <1>3, <2>2, Zenon DEF AheadOfWaiting, Age, Waiting
    <2>4. AheadOfWaiting(st_trans_id)' = AheadOfWaiting(st_trans_id)
      BY <1>1, <1>2, <1>3, <2>2, Zenon DEF AheadOfWaiting, Age, Waiting
    <2>5. Age(st_trans_id)' = Age(st_trans_id)
      BY <1>1, <1>3, Zenon DEF Age
    <2>6. ASSUME NEW k PROVE Waiting(k)' = Waiting(k)
      BY <1>2, <1>3, Zenon DEF Waiting
    <2> QED BY <1>1, <1>3, <1>4, <2>1, <2>2, <2>3, <2>4, <2>5, <2>6, Zenon
            DEF Inv, StoresInOrder
  <1>10. CommitsOwnStore'
    BY <1>1, <1>4, Zenon DEF Inv, CommitsOwnStore, InFlight, Age, FinishedStores
  <1>11. WaitingLoad'
    BY <1>2, <1>3, <1>4
       DEF Inv, WaitingLoad, Waiting, L!SU!PossibleMatches, L!SU!Pending,
           L!SU!st_valid_without_flush
  <1>12. LoadsServed'
    BY <1>1, <1>2, <1>3, <1>4, Zenon
       DEF Inv, LoadsServed, Served, NoStoreAhead, InFlightStores, Older, InFlight, Age,
           AheadOfWaiting, Waits, Waiting
  <1> QED BY <1>5, <1>6, <1>7, <1>8, <1>9, <1>10, <1>11, <1>12 DEF Inv

-----------------------------------------------------------------------------
(***************************************************************************)
(* The finished stores and the speculative queue: counting them.  The      *)
(* facts about finite sets that this takes are Counting; CountingHolds, at *)
(* the end of the module, derives them from the theorems of the library.   *)
(***************************************************************************)
Counts(S) ==
  /\ Cardinality(S) \in Nat
  /\ \A R \in SUBSET S : /\ IsFiniteSet(R) /\ Cardinality(R) <= Cardinality(S)
                         /\ Cardinality(R) = Cardinality(S) => R = S
  /\ \A x \in S : /\ IsFiniteSet(S \ {x})
                  /\ Cardinality(S \ {x}) = Cardinality(S) - 1
  /\ \A x : x \notin S => /\ IsFiniteSet(S \cup {x})
                          /\ Cardinality(S \cup {x}) = Cardinality(S) + 1

Sums ==
  \A S, R : IsFiniteSet(S) /\ IsFiniteSet(R) /\ S \cap R = {} =>
    IsFiniteSet(S \cup R) /\ Cardinality(S \cup R) = Cardinality(S) + Cardinality(R)

Counting ==
  /\ IsFiniteSet(TransId)
  /\ IsFiniteSet({}) /\ Cardinality({}) = 0
  /\ \A x : IsFiniteSet({x}) /\ Cardinality({x}) = 1
  /\ \A S : IsFiniteSet(S) => Counts(S)
  /\ Sums

OlderFinished(i) == {j \in FinishedStores : Age(j) < Age(i)}

\* CommitsOwnStore with the stores that are ahead of one named.
LEMMA OwnStores ==
  /\ CommitsOwnStore <=>
       /\ Cardinality(FinishedStores) = speculative_status_cnt
       /\ \A i \in FinishedStores :
            speculative_queue[L!SU!Wrap(speculative_read_pointer, Cardinality(OlderFinished(i)),
                                       DEPTH_SPEC)].st = mem[i].instr.st
  /\ CommitsOwnStore' <=>
       /\ Cardinality(FinishedStores') = speculative_status_cnt'
       /\ \A i \in FinishedStores' :
            speculative_queue'[L!SU!Wrap(speculative_read_pointer', Cardinality(OlderFinished(i)'),
                                        DEPTH_SPEC)].st = mem'[i].instr.st
  BY Zenon DEF CommitsOwnStore, OlderFinished

\* There are finitely many, and fewer ahead of one of them than there are.
LEMMA Ranks ==
  ASSUME Counting, Inv
  PROVE  /\ IsFiniteSet(FinishedStores)
         /\ FinishedStores \subseteq TransId
         /\ Cardinality(FinishedStores) = speculative_status_cnt
         /\ speculative_status_cnt \in 0..DEPTH_SPEC
         /\ \A i \in FinishedStores : /\ IsFiniteSet(OlderFinished(i))
                                      /\ Cardinality(OlderFinished(i)) \in Nat
                                      /\ Cardinality(OlderFinished(i)) < speculative_status_cnt
  <1>1. FinishedStores \subseteq TransId
    BY DEF FinishedStores, InFlight
  <1>2. IsFiniteSet(FinishedStores)
    BY <1>1 DEF Counting, Counts
  <1>3. Cardinality(FinishedStores) = speculative_status_cnt
    BY OwnStores DEF Inv
  <1>4. speculative_status_cnt \in 0..DEPTH_SPEC
    BY DEF Inv, L!SU!BufferInv, L!SU!BufferTypeOK
  <1>5. ASSUME NEW i \in FinishedStores
        PROVE  /\ IsFiniteSet(OlderFinished(i))
               /\ Cardinality(OlderFinished(i)) \in Nat
               /\ Cardinality(OlderFinished(i)) < speculative_status_cnt
    <2>1. OlderFinished(i) \subseteq FinishedStores
      BY DEF OlderFinished
    <2>2. i \notin OlderFinished(i)
      <3>1. Age(i) \in 0..NR_ENTRIES-1
        BY <1>1, Ages DEF Inv
      <3> QED BY <3>1 DEF OlderFinished
    <2>3. IsFiniteSet(OlderFinished(i)) /\ Cardinality(OlderFinished(i)) \in Nat
      BY <1>2, <2>1 DEF Counting, Counts
    <2>4. Cardinality(OlderFinished(i)) < Cardinality(FinishedStores)
      <3>1. OlderFinished(i) # FinishedStores
        BY <2>2
      <3>2. /\ Cardinality(OlderFinished(i)) <= Cardinality(FinishedStores)
            /\ Cardinality(OlderFinished(i)) # Cardinality(FinishedStores)
        BY <1>2, <2>1, <3>1 DEF Counting, Counts
      <3> QED BY <1>3, <1>4, <2>3, <3>2
    <2> QED BY <1>3, <2>3, <2>4
  <1> QED BY <1>1, <1>2, <1>3, <1>4, <1>5

\* What the commit pulse moves to the commit queue is the retiring store, and
\* every finished store is in the speculative queue.
LEMMA InvStoresInBuffer ==
  ASSUME Counting, Inv
  PROVE  /\ StoresInBuffer
         /\ commit_lsu => speculative_status_cnt > 0
  <1>1. /\ speculative_read_pointer \in 0..DEPTH_SPEC-1
        /\ speculative_status_cnt \in 0..DEPTH_SPEC
    BY DEF Inv, L!SU!BufferInv, L!SU!BufferTypeOK
  <1>2. ASSUME NEW i \in FinishedStores
        PROVE  mem[i].instr.st \in L!SU!Pending
    <2> DEFINE n == Cardinality(OlderFinished(i))
               j == L!SU!Wrap(speculative_read_pointer, n, DEPTH_SPEC)
    <2>1. n \in Nat /\ n < speculative_status_cnt
      BY Ranks
    <2>2. speculative_queue[j].st = mem[i].instr.st
      BY OwnStores DEF Inv
    <2> HIDE DEF n
    <2>3. /\ j \in 0..DEPTH_SPEC-1
          /\ L!SU!Dist(speculative_read_pointer, j, DEPTH_SPEC) < speculative_status_cnt
      BY <1>1, <2>1, DepthsAssumption DEF L!SU!Wrap, L!SU!Dist
    <2> HIDE DEF j
    <2>4. speculative_queue[j].valid
      BY <2>3 DEF Inv, L!SU!BufferInv, L!SU!SpecWindow, L!SU!QueueWindow
    <2> QED BY <2>2, <2>3, <2>4 DEF L!SU!Pending
  <1>3. ASSUME commit_lsu
        PROVE  /\ speculative_queue[speculative_read_pointer].st = Oldest.st
               /\ speculative_status_cnt > 0
    <2> DEFINE i == commit_pointer[0]
    <2>1. i \in TransId /\ Age(i) = 0
      BY Ages DEF Inv
    <2>2. i \in FinishedStores
      BY <1>3, <2>1, Ages
         DEF Inv, commit_lsu, Retirable, FinishedStores, Oldest, Sb!commit_instr_valid,
             Sb!commit_instr
    <2>3. OlderFinished(i) = {}
      <3> SUFFICES ASSUME NEW j \in FinishedStores PROVE ~(Age(j) < Age(i))
        BY DEF OlderFinished
      <3>1. Age(j) \in 0..NR_ENTRIES-1
        BY Ranks, Ages DEF Inv
      <3> QED BY <2>1, <3>1
    <2>4. Cardinality(OlderFinished(i)) = 0
      BY <2>3 DEF Counting, Counts
    <2>5. speculative_status_cnt > 0
      BY <2>2, <2>4, Ranks
    <2>6. speculative_queue[L!SU!Wrap(speculative_read_pointer, 0, DEPTH_SPEC)].st = mem[i].instr.st
      BY <2>2, <2>4, OwnStores DEF Inv
    <2>7. L!SU!Wrap(speculative_read_pointer, 0, DEPTH_SPEC) = speculative_read_pointer
      BY <1>1, DepthsAssumption DEF L!SU!Wrap
    <2> QED BY <2>5, <2>6, <2>7 DEF Oldest, Sb!commit_instr
  <1> QED BY <1>2, <1>3 DEF StoresInBuffer

\* The number of elements that are left when r is taken if c.
LEMMA CountWithout ==
  ASSUME Counting, NEW F, IsFiniteSet(F), NEW r, NEW c \in 0..1, c = 1 => r \in F, NEW G,
         \A x : x \in G <=> x \in F /\ ~(c = 1 /\ x = r)
  PROVE  IsFiniteSet(G) /\ Cardinality(G) \in Nat /\ Cardinality(G) = Cardinality(F) - c
  <1>0. Cardinality(F) \in Nat
    BY DEF Counting, Counts
  <1>1. CASE c = 1
    <2>1. G = F \ {r} /\ r \in F
      BY <1>1
    <2>2. IsFiniteSet(F \ {r}) /\ Cardinality(F \ {r}) = Cardinality(F) - 1
      BY <2>1 DEF Counting, Counts
    <2>3. Cardinality(F \ {r}) \in Nat
      BY <2>2 DEF Counting, Counts
    <2> QED BY <1>1, <2>1, <2>2, <2>3
  <1>2. CASE c = 0
    <2>1. G = F
      BY <1>2
    <2> QED BY <1>0, <1>2, <2>1
  <1> QED BY <1>1, <1>2

\* Every finished store keeps its place in the queue when others are posted or
\* retire, and a posted one takes the place behind the others.
LEMMA OwnStoreStep ==
  ASSUME Counting, Inv, NEW issue \in BOOLEAN, NEW instr \in Instr, NEW w \in BOOLEAN,
         Cycle(issue, instr, w), ScoreboardStep(issue, instr, w), ~flush(w)
  PROVE  CommitsOwnStore'
  <1> DEFINE F == FinishedStores
             r == commit_pointer[0]
             a == st_trans_id
             adds == st_state = "VALID_STORE"
             cnt == speculative_status_cnt
             rp == speculative_read_pointer
             wp == speculative_write_pointer
  <1>1. /\ IsFiniteSet(F) /\ F \subseteq TransId
        /\ Cardinality(F) = cnt /\ cnt \in 0..DEPTH_SPEC
        /\ \A i \in F : /\ IsFiniteSet(OlderFinished(i))
                        /\ Cardinality(OlderFinished(i)) \in Nat
                        /\ Cardinality(OlderFinished(i)) < cnt
    BY Ranks
  <1>2. /\ adds => /\ a \in TransId /\ a \notin F /\ cnt < DEPTH_SPEC
                   /\ mem[a].instr.st = st_q
                   /\ \A i \in F : Age(i) < Age(a)
        /\ rp \in 0..DEPTH_SPEC-1 /\ wp = L!SU!Wrap(rp, cnt, DEPTH_SPEC)
    <2>1. adds => /\ a \in TransId /\ a \notin F
                  /\ mem[a].instr.st = st_q
                  /\ \A i \in F : Age(i) < Age(a)
      BY Zenon DEF Inv, StoresInOrder, Unfinished, Posting, FinishedStores, InFlight
    <2>2. adds => cnt < DEPTH_SPEC
      <3>1. cnt + (IF adds THEN 1 ELSE 0) <= DEPTH_SPEC
        BY Zenon DEF Inv, StoresInOrder
      <3>2. cnt \in Nat /\ DEPTH_SPEC \in Nat
        BY <1>1, DepthsAssumption
      <3> QED BY <3>1, <3>2
    <2> QED BY <2>1, <2>2 DEF Inv, L!SU!BufferInv, L!SU!BufferTypeOK, L!SU!SpecWindow, L!SU!QueueWindow
  <1>3. /\ commit_lsu => r \in F
        /\ \A i \in F : Age(i) >= num_commit(w) <=> ~(commit_lsu /\ i = r)
        /\ \A i \in TransId : i \in FinishedStores' <=> \/ i \in F /\ ~(commit_lsu /\ i = r)
                                                        \/ adds /\ i = a
        /\ \A i \in FinishedStores' : /\ i \in InFlight /\ Age(i) >= num_commit(w)
                                      /\ mem'[i].instr = mem[i].instr
    <2>1. \A i \in F : Age(i) >= num_commit(w) <=> ~(commit_lsu /\ i = r)
      BY FinishedStep, Zenon
    <2> QED BY <2>1, FinishedStep
  <1>4. \A i : i \in FinishedStores' <=> \/ i \in F /\ ~(commit_lsu /\ i = r)
                                         \/ adds /\ i = a
    <2>1. \A i \in FinishedStores' : i \in TransId
      BY <1>3 DEF InFlight
    <2> QED BY <1>1, <1>2, <1>3, <2>1
  <1> DEFINE c == IF commit_lsu THEN 1 ELSE 0
             R == {i \in F : ~(c = 1 /\ i = r)}
  <1>5. /\ c \in 0..1 /\ (c = 1 <=> commit_lsu)
        /\ IsFiniteSet(R) /\ Cardinality(R) = cnt - c
    <2>1. c \in 0..1 /\ (c = 1 <=> commit_lsu)
      OBVIOUS
    <2> HIDE DEF c
    <2>2. c = 1 => r \in F
      BY <1>3, <2>1
    <2>3. \A x : x \in R <=> x \in F /\ ~(c = 1 /\ x = r)
      OBVIOUS
    <2> HIDE DEF R
    <2>4. IsFiniteSet(R) /\ Cardinality(R) = Cardinality(F) - c
      BY <1>1, <2>1, <2>2, <2>3, CountWithout
    <2> QED BY <1>1, <2>1, <2>4
  <1>c. speculative_status_cnt' = cnt + (IF adds THEN 1 ELSE 0) - c
    BY RoomStep
  <1> HIDE DEF c
  <1>6. Cardinality(FinishedStores') = speculative_status_cnt'
    <2>1. CASE adds
      <3>1. FinishedStores' = R \union {a} /\ a \notin R
        BY <1>2, <1>4, <1>5, <2>1
      <3>2. Cardinality(R \union {a}) = Cardinality(R) + 1
        BY <1>5, <3>1 DEF Counting, Counts
      <3> QED BY <1>1, <1>5, <1>c, <2>1, <3>1, <3>2
    <2>2. CASE ~adds
      <3>1. FinishedStores' = R
        BY <1>4, <1>5, <2>2
      <3> QED BY <1>1, <1>5, <1>c, <2>2, <3>1
    <2> QED BY <2>1, <2>2
  <1>7. \A j \in FinishedStores' : /\ Age(j)' = Age(j) - num_commit(w)
                                   /\ Age(j) \in Int /\ num_commit(w) \in Int
    <2>1. num_commit(w) \in Int /\ \A j \in TransId : Age(j) \in Int
      BY CommitStage, Ages DEF Inv
    <2>2. \A j \in FinishedStores' : j \in TransId /\ Age(j) >= num_commit(w)
      BY <1>3 DEF InFlight
    <2> QED BY <2>1, <2>2 DEF ScoreboardStep
  <1>8. \A i, j \in FinishedStores' : j \in OlderFinished(i)' <=> Age(j) < Age(i)
    <2> SUFFICES ASSUME NEW i \in FinishedStores', NEW j \in FinishedStores'
                 PROVE  j \in OlderFinished(i)' <=> Age(j) < Age(i)
      OBVIOUS
    <2>1. j \in OlderFinished(i)' <=> Age(j)' < Age(i)'
      BY DEF OlderFinished
    <2>2. Age(j)' < Age(i)' <=> Age(j) < Age(i)
      BY <1>7
    <2> QED BY <2>1, <2>2
  <1>9. \A i, j : j \in OlderFinished(i)' => j \in FinishedStores'
    BY DEF OlderFinished
  \* The place of the entry that is n behind the read pointer.
  <1>10. ASSUME NEW n \in 0..cnt, commit_lsu => n > 0, n = cnt => cnt < DEPTH_SPEC
         PROVE  /\ L!SU!Wrap(rp', n - c, DEPTH_SPEC)
                     = L!SU!Wrap(rp, n, DEPTH_SPEC)
                /\ L!SU!Wrap(rp, n, DEPTH_SPEC) \in 0..DEPTH_SPEC-1
                /\ n < cnt /\ cnt < DEPTH_SPEC => L!SU!Wrap(rp, n, DEPTH_SPEC) # wp
    <2>1. rp' = IF commit_lsu THEN L!SU!Incr(rp, DEPTH_SPEC) ELSE rp
      BY PayloadStep
    <2>2. c \in 0..1 /\ (c = 1 => n > 0) /\ rp' = IF c = 1 THEN L!SU!Incr(rp, DEPTH_SPEC) ELSE rp
      BY <1>5, <1>10, <2>1
    <2> QED BY <1>1, <1>2, <1>10, <2>2, DepthsAssumption DEF L!SU!Wrap, L!SU!Incr
  <1>11. ASSUME NEW i \in F, ~(commit_lsu /\ i = r)
         PROVE  speculative_queue'[L!SU!Wrap(rp', Cardinality(OlderFinished(i)'), DEPTH_SPEC)].st
                    = mem'[i].instr.st
    <2> DEFINE n == Cardinality(OlderFinished(i))
    <2>1. i \in FinishedStores'
      BY <1>4, <1>11
    <2>2. \A j : j \in OlderFinished(i)' <=> j \in OlderFinished(i) /\ ~(commit_lsu /\ j = r)
      <3> SUFFICES ASSUME NEW j
                   PROVE  j \in OlderFinished(i)' <=> j \in OlderFinished(i) /\ ~(commit_lsu /\ j = r)
        OBVIOUS
      <3>1. j \in OlderFinished(i) <=> j \in F /\ Age(j) < Age(i)
        BY DEF OlderFinished
      <3>2. j \in OlderFinished(i)' <=> j \in FinishedStores' /\ Age(j) < Age(i)
        BY <1>8, <1>9, <2>1
      <3>3. adds /\ j = a => ~(Age(j) < Age(i))
        <4>1. adds => Age(i) < Age(a) /\ a \in TransId /\ i \in TransId
          BY <1>1, <1>2
        <4>2. \A x \in TransId : Age(x) \in Int
          BY Ages DEF Inv
        <4> QED BY <4>1, <4>2
      <3> QED BY <1>4, <3>1, <3>2, <3>3
    <2>3. commit_lsu => r \in OlderFinished(i)
      <3>1. ASSUME commit_lsu PROVE Age(r) < Age(i)
        <4>1. r \in TransId /\ i \in TransId /\ i # r
          BY <1>1, <1>3, <1>11, <3>1
        <4>2. Age(r) = 0 /\ Age(i) \in 0..NR_ENTRIES-1 /\ Age(i) # Age(r)
          BY <4>1, Ages DEF Inv
        <4> QED BY <4>2
      <3> QED BY <1>3, <3>1 DEF OlderFinished
    <2>4. /\ IsFiniteSet(OlderFinished(i)) /\ n \in Nat /\ n < cnt
          /\ speculative_queue[L!SU!Wrap(rp, n, DEPTH_SPEC)].st = mem[i].instr.st
      BY <1>1, OwnStores DEF Inv
    <2>5. Cardinality(OlderFinished(i)') = n - c
      <3>1. \A j : j \in OlderFinished(i)' <=> j \in OlderFinished(i) /\ ~(c = 1 /\ j = r)
        BY <1>5, <2>2
      <3>2. c \in 0..1 /\ (c = 1 => r \in OlderFinished(i))
        BY <1>5, <2>3
      <3> DEFINE O == OlderFinished(i)
                 G == {j \in O : ~(c = 1 /\ j = r)}
      <3>3. OlderFinished(i)' = G
        BY <3>1
      <3>4. \A j : j \in G <=> j \in O /\ ~(c = 1 /\ j = r)
        OBVIOUS
      <3>5. IsFiniteSet(O)
        BY <2>4, Zenon
      <3> HIDE DEF G, O
      <3>6. Cardinality(G) = Cardinality(O) - c
        BY <3>2, <3>4, <3>5, CountWithout DEF O
      <3> QED BY <3>3, <3>6 DEF O
    <2>6. commit_lsu => n > 0
      BY <2>3, <2>4 DEF Counting, Counts
    <2> HIDE DEF n
    <2>7. /\ L!SU!Wrap(rp', n - c, DEPTH_SPEC) = L!SU!Wrap(rp, n, DEPTH_SPEC)
          /\ L!SU!Wrap(rp, n, DEPTH_SPEC) \in 0..DEPTH_SPEC-1
          /\ adds => L!SU!Wrap(rp, n, DEPTH_SPEC) # wp
      <3>1. cnt \in 0..DEPTH_SPEC /\ (adds => cnt < DEPTH_SPEC)
        BY <1>1, <1>2
      <3>2. n \in 0..cnt /\ n < cnt
        BY <2>4, <3>1
      <3> QED BY <1>10, <2>6, <3>1, <3>2
    <2>8. speculative_queue'[L!SU!Wrap(rp, n, DEPTH_SPEC)].st
             = speculative_queue[L!SU!Wrap(rp, n, DEPTH_SPEC)].st
      BY <2>7, PayloadStep
    <2>9. mem'[i].instr = mem[i].instr
      BY <1>3, <2>1
    <2> QED BY <2>4, <2>5, <2>7, <2>8, <2>9
  <1>12. ASSUME adds, NEW i, i = a
         PROVE  speculative_queue'[L!SU!Wrap(rp', Cardinality(OlderFinished(i)'), DEPTH_SPEC)].st
                    = mem'[i].instr.st
    <2>1. i \in FinishedStores' /\ i \notin F /\ i \in TransId
      BY <1>2, <1>4, <1>12
    <2>2. \A j : j \in OlderFinished(i)' <=> j \in F /\ ~(commit_lsu /\ j = r)
      <3> SUFFICES ASSUME NEW j
                   PROVE  j \in OlderFinished(i)' <=> j \in F /\ ~(commit_lsu /\ j = r)
        OBVIOUS
      <3>1. j \in OlderFinished(i)' <=> j \in FinishedStores' /\ Age(j) < Age(i)
        BY <1>8, <1>9, <2>1
      <3>2. ~(Age(i) < Age(i))
        <4>1. Age(i) \in Int
          BY <2>1, Ages DEF Inv
        <4> QED BY <4>1
      <3>3. j \in F => Age(j) < Age(i)
        BY <1>2, <1>12
      <3> QED BY <1>4, <1>12, <3>1, <3>2, <3>3
    <2>3. Cardinality(OlderFinished(i)') = cnt - c
      <3>1. OlderFinished(i)' = R
        BY <1>5, <2>2
      <3> QED BY <1>5, <3>1
    <2>4. commit_lsu => cnt > 0
      BY InvStoresInBuffer
    <2>5. /\ L!SU!Wrap(rp', cnt - c, DEPTH_SPEC) = wp
          /\ wp \in 0..DEPTH_SPEC-1
      <3>1. cnt \in 0..cnt
        BY <1>1
      <3> QED BY <1>2, <1>10, <1>12, <2>4, <3>1
    <2>6. speculative_queue'[wp].st = st_q
      BY <1>12, <2>5, PayloadStep
    <2>7. mem'[i].instr = mem[i].instr
      BY <1>3, <2>1
    <2> QED BY <1>2, <1>12, <2>3, <2>5, <2>6, <2>7
  <1>13. \A i \in FinishedStores' :
            speculative_queue'[L!SU!Wrap(rp', Cardinality(OlderFinished(i)'), DEPTH_SPEC)].st
                = mem'[i].instr.st
    BY <1>4, <1>11, <1>12
  <1> QED BY <1>6, <1>13, OwnStores

\* After a flush there is nothing to commit.
LEMMA FlushedOwnStores ==
  ASSUME Counting, Inv, NEW issue \in BOOLEAN, NEW instr \in Instr, NEW w \in BOOLEAN,
         Cycle(issue, instr, w), ScoreboardStep(issue, instr, w), flush(w)
  PROVE  CommitsOwnStore'
  <1>1. FinishedStores' = {} /\ speculative_status_cnt' = 0
    BY FlushedStores
  <1>2. Cardinality(FinishedStores') = 0
    BY <1>1 DEF Counting, Counts
  <1> QED BY <1>1, <1>2, OwnStores

\* The write backs of a cycle, counted.
LEMMA CountWriteBacks ==
  ASSUME Counting, Inv
  PROVE  Cardinality(wb_ids) = (IF L!load_valid_o THEN 1 ELSE 0)
             + (IF L!store_valid_o THEN 1 ELSE 0) + (IF csr_valid THEN 1 ELSE 0)
  <1> DEFINE A == IF load_pipe.valid THEN {load_pipe.tid} ELSE {}
             B == IF st_state = "VALID_STORE" THEN {st_trans_id} ELSE {}
             C == IF csr_valid THEN {fu_data.tid} ELSE {}
  <1>1. wb_ids = (A \union B) \union C
    BY DEF wb_ids, L!load_valid_o, L!store_valid_o, L!store_trans_id_o, L!SU!valid_o
  <1>2. A \intersect B = {} /\ (A \union B) \intersect C = {}
    BY WriteBacksDiffer
  <1>3. /\ IsFiniteSet(A) /\ Cardinality(A) = IF load_pipe.valid THEN 1 ELSE 0
        /\ IsFiniteSet(B) /\ Cardinality(B) = IF st_state = "VALID_STORE" THEN 1 ELSE 0
        /\ IsFiniteSet(C) /\ Cardinality(C) = IF csr_valid THEN 1 ELSE 0
    BY DEF Counting, Counts
  <1> HIDE DEF A, B, C
  <1>s. Sums
    BY DEF Counting
  <1>4. IsFiniteSet(A \union B) /\ Cardinality(A \union B) = Cardinality(A) + Cardinality(B)
    BY <1>2, <1>3, <1>s DEF Sums
  <1>5. Cardinality((A \union B) \union C) = Cardinality(A \union B) + Cardinality(C)
    BY <1>2, <1>3, <1>4, <1>s DEF Sums
  <1> QED BY <1>1, <1>3, <1>4, <1>5 DEF L!load_valid_o, L!store_valid_o, L!SU!valid_o

\* What the files of the components assume holds.
LEMMA InvAssumptionsHold ==
  ASSUME Counting, Inv
  PROVE  AssumptionsHold
  <1> SUFFICES ASSUME NEW w \in BOOLEAN
               PROVE  /\ L!SU!commit_and_flush(commit_lsu, flush(w))
                      /\ L!SU!speculative_buffer_overflow(L!SU!st_valid(flush(w)))
                      /\ L!SU!speculative_buffer_underflow(commit_lsu)
                      /\ L!SU!commit_buffer_overflow(commit_lsu)
                      /\ Sb!commit_ack_valid(num_commit(w))
                      /\ Cardinality(wb_ids) = (IF L!load_valid_o THEN 1 ELSE 0)
                             + (IF L!store_valid_o THEN 1 ELSE 0) + (IF csr_valid THEN 1 ELSE 0)
    BY DEF AssumptionsHold
  <1>1. L!SU!commit_and_flush(commit_lsu, flush(w))
    BY CommitStage DEF L!SU!commit_and_flush
  <1>2. L!SU!speculative_buffer_overflow(L!SU!st_valid(flush(w)))
    <2>1. st_state = "VALID_STORE" => speculative_status_cnt + 1 <= DEPTH_SPEC
      BY DEF Inv, StoresInOrder
    <2> QED BY <2>1, DepthsAssumption DEF L!SU!speculative_buffer_overflow, L!SU!st_valid
  <1>3. L!SU!speculative_buffer_underflow(commit_lsu)
    BY InvStoresInBuffer DEF L!SU!speculative_buffer_underflow
  <1>4. L!SU!commit_buffer_overflow(commit_lsu)
    <2>1. commit_lsu => commit_status_cnt < DEPTH_COMMIT
      BY CommitStage
    <2> QED BY <2>1, DepthsAssumption DEF L!SU!commit_buffer_overflow
  <1>5. Sb!commit_ack_valid(num_commit(w))
    BY CommitStage
  <1> QED BY <1>1, <1>2, <1>3, <1>4, <1>5, CountWriteBacks

-----------------------------------------------------------------------------
(***************************************************************************)
(* A cycle of the back end is a cycle of its scoreboard and a cycle of its *)
(* store buffer.                                                           *)
(***************************************************************************)

LEMMA ScoreboardCycle ==
  ASSUME Inv, NEW issue \in BOOLEAN, NEW instr \in Instr, NEW w \in BOOLEAN,
         Cycle(issue, instr, w)
  PROVE  /\ Sb!Inv /\ instr \in Instr \union {ResetInstr} /\ wb_ids \in SUBSET Sb!Id
         /\ num_commit(w) \in 0..NR_COMMIT_PORTS /\ flush(w) \in BOOLEAN
         /\ Sb!Cycle(issue, instr, wb_ids, num_commit(w), flush(w))
  <1>1. wb_ids \in SUBSET Sb!Id
    BY WriteBackIds DEF Sb!Id, TransId
  <1>2. /\ num_commit(w) \in 0..NR_COMMIT_PORTS /\ flush(w) \in BOOLEAN
        /\ Sb!commit_ack_valid(num_commit(w))
    BY CommitStage, CommitPortsAssumption
  <1>3. Sb!issue_ack_valid(issue)
    BY DEF Cycle, issue_ack, Sb!issue_ack_valid
  <1>4. Sb!Latch(issue, instr, wb_ids, num_commit(w), flush(w))
    BY DEF Cycle
  <1> QED BY <1>1, <1>2, <1>3, <1>4 DEF Inv, Sb!Cycle

\* What the cycle of the scoreboard is to the instructions in flight.
LEMMA ScoreboardMoves ==
  ASSUME Inv, NEW issue \in BOOLEAN, NEW instr \in Instr, NEW w \in BOOLEAN,
         Sb!WindowMoves(issue, instr, wb_ids, num_commit(w), flush(w))
  PROVE  ScoreboardStep(issue, instr, w)
  <1>1. instr \in Faulty <=> instr.ex
    BY DEF Faulty
  <1> QED BY <1>1
          DEF Sb!WindowMoves, ScoreboardStep, InFlight, Sb!Id, TransId, NoUnit, Age

LEMMA BufferCycle ==
  ASSUME Counting, Inv, NEW issue \in BOOLEAN, NEW instr \in Instr, NEW w \in BOOLEAN,
         Cycle(issue, instr, w)
  PROVE  /\ L!SU!BufferInv
         /\ L!SU!st_valid(flush(w)) \in BOOLEAN /\ st_q \in L!Store
         /\ commit_lsu \in BOOLEAN /\ flush(w) \in BOOLEAN /\ L!sel_lsu(ctrl) \in BOOLEAN
         /\ L!SU!BufferCycle(L!SU!st_valid(flush(w)), st_q, commit_lsu, flush(w), L!sel_lsu(ctrl))
  <1> DEFINE v == L!SU!st_valid(flush(w))
             g == L!sel_lsu(ctrl)
  <1>1. /\ v \in BOOLEAN /\ st_q \in L!Store
        /\ commit_lsu \in BOOLEAN /\ flush(w) \in BOOLEAN /\ g \in BOOLEAN
    BY CommitStage DEF Inv, StoresInOrder, L!SU!st_valid, L!sel_lsu
  <1>2. /\ L!SU!commit_and_flush(commit_lsu, flush(w))
        /\ L!SU!speculative_buffer_overflow(v)
        /\ L!SU!speculative_buffer_underflow(commit_lsu)
        /\ L!SU!commit_buffer_overflow(commit_lsu)
    BY InvAssumptionsHold DEF AssumptionsHold
  <1>3. /\ L!SU!CoreIf(v, st_q, commit_lsu, flush(w))
        /\ L!SU!StoreIf(commit_lsu, g)
    BY DEF Cycle, L!Latch, L!SU!UnitLatch, ctrl
  <1> HIDE DEF v, g
  <1>4. L!SU!BufferCycle(v, st_q, commit_lsu, flush(w), g)
    BY <1>2, <1>3 DEF L!SU!BufferCycle
  <1> QED BY <1>1, <1>4 DEF Inv, v, g

\* The reset of the back end resets its components; the rest follows.
LEMMA InitParts ==
  ASSUME Init
  PROVE  Sb!Init /\ L!SU!BufferInit
  BY DEF Init, L!Init, L!SU!UnitInit, L!SU!BufferInit, L!SU!EmptyEntry

LEMMA InitFrom ==
  ASSUME Counting, Init, Sb!Inv, L!SU!BufferInv
  PROVE  Inv
  <1>1. /\ BypassInv /\ WaitingInv /\ StoresInOrder /\ WaitingLoad /\ LoadsServed
        /\ FinishedStores = {} /\ speculative_status_cnt = 0
    BY ResetState
  <1>2. Cardinality(FinishedStores) = 0
    BY <1>1 DEF Counting, Counts
  <1>3. CommitsOwnStore
    BY <1>1, <1>2, OwnStores
  <1> QED BY <1>1, <1>3 DEF Inv

\* One cycle preserves the invariant, with and without a flush.
LEMMA CycleFrom ==
  ASSUME Counting, Inv, NEW issue \in BOOLEAN, NEW instr \in Instr, NEW w \in BOOLEAN,
         Cycle(issue, instr, w), ScoreboardStep(issue, instr, w), L!SU!BufferInv'
  PROVE  Inv'
  <1>1. StoresInBuffer
    BY InvStoresInBuffer
  <1>2. Sb!Inv'
    BY DEF ScoreboardStep
  <1>3. BypassInv' /\ WaitingInv'
    BY QueueStep, WaitingStep, FlushStep
  <1>4. StoresInOrder'
    BY StoresStep, FlushedStores
  <1>5. CommitsOwnStore'
    BY OwnStoreStep, FlushedOwnStores
  <1>6. WaitingLoad' /\ LoadsServed'
    BY <1>1, WaitingLoadStep, LoadsStep
  <1> QED BY <1>2, <1>3, <1>4, <1>5, <1>6 DEF Inv

\* The assumptions of the components' theorems hold here.
LEMMA ComponentAssumptions ==
  /\ ResetInstr \in Instr \union {ResetInstr}
  /\ NR_ENTRIES \in Nat /\ NR_ENTRIES >= 2 /\ NR_COMMIT_PORTS \in 1..NR_ENTRIES
  /\ ResetStore \in L!Store
  /\ DEPTH_SPEC \in Nat \ {0} /\ DEPTH_COMMIT \in Nat \ {0} /\ 0 \in TransId
  BY CommitPortsAssumption, EntriesAssumption, DepthsAssumption, InstrsAssumption
     DEF L!Store, TransId

-----------------------------------------------------------------------------
(***************************************************************************)
(* The theorems about finite sets and about the components, for the        *)
(* components of the back end.                                             *)
(***************************************************************************)
INSTANCE FiniteSetTheorems

LEMMA CountingHolds == Counting
  <1>1. IsFiniteSet(TransId)
    BY FS_Interval, EntriesAssumption DEF TransId
  <1>2. ASSUME NEW S, IsFiniteSet(S)
        PROVE  Counts(S)
    <2>1. \A R \in SUBSET S : /\ IsFiniteSet(R) /\ Cardinality(R) <= Cardinality(S)
                              /\ Cardinality(R) = Cardinality(S) => R = S
      BY <1>2, FS_Subset
    <2>2. \A x \in S : /\ IsFiniteSet(S \ {x})
                       /\ Cardinality(S \ {x}) = Cardinality(S) - 1
      BY <1>2, FS_RemoveElement
    <2>3. \A x : x \notin S => /\ IsFiniteSet(S \cup {x})
                               /\ Cardinality(S \cup {x}) = Cardinality(S) + 1
      BY <1>2, FS_AddElement
    <2> QED BY <1>2, <2>1, <2>2, <2>3, FS_CardinalityType DEF Counts
  <1>3. Sums
    <2>1. ASSUME NEW S, NEW R, IsFiniteSet(S), IsFiniteSet(R), S \cap R = {}
          PROVE  IsFiniteSet(S \cup R) /\ Cardinality(S \cup R) = Cardinality(S) + Cardinality(R)
      <3>1. /\ IsFiniteSet(S \cup R)
            /\ Cardinality(S \cup R) = Cardinality(S) + Cardinality(R) - Cardinality(S \cap R)
            /\ Cardinality(S \cap R) = 0
        BY <2>1, FS_Union, FS_EmptySet
      <3> QED BY <2>1, <3>1, FS_CardinalityType
    <2> QED BY <2>1, Zenon DEF Sums
  <1> QED BY <1>1, <1>2, <1>3, FS_EmptySet, FS_Singleton, Zenon DEF Counting

RP == INSTANCE RingProofs WITH Instr <- Instr \union {ResetInstr}, Store <- L!Store

\* Both instances of a component speak of the same state.
LEMMA SameScoreboard == Sb!Inv <=> RP!Inv
  BY DEF Sb!Inv, RP!Inv, Sb!TypeOK, RP!TypeOK, Sb!IssueWindow, RP!IssueWindow,
         Sb!PortsConsecutive, RP!PortsConsecutive, Sb!Id, RP!Id, Sb!Entry, RP!Entry,
         Sb!Port, RP!Port, Sb!Wrap, RP!Wrap, Sb!Dist, RP!Dist

LEMMA SameBuffer == L!SU!BufferInv <=> RP!BufferInv
  BY DEF L!SU!BufferInv, RP!BufferInv, L!SU!BufferTypeOK, RP!BufferTypeOK, L!SU!SpecWindow,
         RP!SpecWindow, L!SU!CommitWindow, RP!CommitWindow, L!SU!QueueWindow, RP!QueueWindow,
         L!SU!QueueEntry, RP!QueueEntry, L!SU!Wrap, RP!Wrap, L!SU!Dist, RP!Dist

LEMMA ScoreboardStepHolds ==
  ASSUME Inv, NEW issue \in BOOLEAN, NEW instr \in Instr, NEW w \in BOOLEAN,
         Cycle(issue, instr, w)
  PROVE  ScoreboardStep(issue, instr, w)
  <1> DEFINE n == num_commit(w)
             f == flush(w)
  <1>1. /\ Sb!Inv /\ instr \in Instr \union {ResetInstr} /\ wb_ids \in SUBSET Sb!Id
        /\ n \in 0..NR_COMMIT_PORTS /\ f \in BOOLEAN
        /\ Sb!Cycle(issue, instr, wb_ids, n, f)
    BY ScoreboardCycle
  <1> HIDE DEF n, f
  <1>2. RP!Cycle(issue, instr, wb_ids, n, f) /\ wb_ids \in SUBSET RP!Id
    BY <1>1
       DEF Sb!Cycle, Sb!issue_ack_valid, Sb!issue_full, Sb!commit_ack_valid,
           Sb!commit_instr_valid, Sb!Latch, Sb!mem_n, Sb!Issued, Sb!Finishing, Sb!Released,
           Sb!Id, Sb!issue_cnt_n, Sb!Narrow, Sb!issue_pointer_n, Sb!Incr, Sb!commit_pointer_n,
           Sb!Wrap, Sb!Port, RP!Cycle, RP!issue_ack_valid, RP!issue_full,
           RP!commit_ack_valid, RP!commit_instr_valid, RP!Latch, RP!mem_n, RP!Issued,
           RP!Finishing, RP!Released, RP!Id, RP!issue_cnt_n, RP!Narrow,
           RP!issue_pointer_n, RP!Incr, RP!commit_pointer_n, RP!Wrap, RP!Port
  <1>3. RP!WindowMoves(issue, instr, wb_ids, n, f)
    BY <1>1, <1>2, SameScoreboard, ComponentAssumptions, RP!WindowStep
  <1>4. RP!Inv' => Sb!Inv'
    BY SameScoreboard, PTL
  <1>5. Sb!WindowMoves(issue, instr, wb_ids, n, f)
    BY <1>3, <1>4 DEF Sb!WindowMoves, RP!WindowMoves, Sb!Id, RP!Id, Sb!Dist, RP!Dist
  <1> QED BY <1>5, ScoreboardMoves DEF n, f

LEMMA BufferStep ==
  ASSUME Inv, NEW issue \in BOOLEAN, NEW instr \in Instr, NEW w \in BOOLEAN,
         Cycle(issue, instr, w)
  PROVE  L!SU!BufferInv'
  <1> DEFINE v == L!SU!st_valid(flush(w))
             f == flush(w)
             g == L!sel_lsu(ctrl)
  <1>1. /\ L!SU!BufferInv /\ v \in BOOLEAN /\ st_q \in L!Store
        /\ commit_lsu \in BOOLEAN /\ f \in BOOLEAN /\ g \in BOOLEAN
        /\ L!SU!BufferCycle(v, st_q, commit_lsu, f, g)
    BY CountingHolds, BufferCycle
  <1> HIDE DEF v, f, g
  <1>2. RP!BufferCycle(v, st_q, commit_lsu, f, g)
    BY <1>1
       DEF L!SU!BufferCycle, L!SU!CoreIf, L!SU!speculative_queue_n, L!SU!Retired,
           L!SU!Pushed, L!SU!speculative_write_pointer_n,
           L!SU!speculative_read_pointer_n, L!SU!speculative_status_cnt_n, L!SU!Incr,
           L!SU!StoreIf, L!SU!commit_queue_n, L!SU!Evicted, L!SU!pop,
           L!SU!data_req_o, L!SU!commit_read_pointer_n, L!SU!commit_write_pointer_n,
           L!SU!commit_status_cnt_n, L!SU!commit_and_flush,
           L!SU!speculative_buffer_overflow, L!SU!speculative_buffer_underflow,
           L!SU!commit_buffer_overflow, RP!BufferCycle, RP!CoreIf, RP!speculative_queue_n,
           RP!Retired, RP!Pushed, RP!speculative_write_pointer_n,
           RP!speculative_read_pointer_n, RP!speculative_status_cnt_n, RP!Incr,
           RP!StoreIf, RP!commit_queue_n, RP!Evicted, RP!pop, RP!data_req_o,
           RP!commit_read_pointer_n, RP!commit_write_pointer_n, RP!commit_status_cnt_n,
           RP!commit_and_flush, RP!speculative_buffer_overflow,
           RP!speculative_buffer_underflow, RP!commit_buffer_overflow
  <1>3. RP!BufferInv'
    BY <1>1, <1>2, SameBuffer, ComponentAssumptions, RP!BufferCycleInv
  <1>4. RP!BufferInv' => L!SU!BufferInv'
    BY SameBuffer, PTL
  <1> QED BY <1>3, <1>4

LEMMA InitInv == Init => Inv
  <1> SUFFICES ASSUME Init PROVE Inv
    OBVIOUS
  <1>1. RP!Init /\ RP!BufferInit
    BY InitParts DEF Sb!Init, RP!Init, Sb!Id, RP!Id, Sb!Port, RP!Port,
                     L!SU!BufferInit, RP!BufferInit, L!SU!EmptyEntry, RP!EmptyEntry
  <1>2. RP!Inv /\ RP!BufferInv
    BY <1>1, ComponentAssumptions, RP!InitInv, RP!BufferInitInv
  <1> QED BY <1>2, SameScoreboard, SameBuffer, CountingHolds, InitFrom

LEMMA CycleInv ==
  ASSUME Inv, NEW issue \in BOOLEAN, NEW instr \in Instr, NEW w \in BOOLEAN,
         Cycle(issue, instr, w)
  PROVE  Inv'
  BY CountingHolds, ScoreboardStepHolds, BufferStep, CycleFrom

-----------------------------------------------------------------------------
(***************************************************************************)
(* The invariant, and the properties it gives.                             *)
(***************************************************************************)

\* The inductive invariant holds in every reachable state of the back end.
THEOREM Invariance == Spec => []Inv
  <1>1. Inv /\ [Next]_vars => Inv'
    <2>1. ASSUME Inv, Next PROVE Inv'
      BY <2>1, CycleInv DEF Next
    <2> QED BY <2>1, Stutter
  <1> QED BY InitInv, <1>1, PTL DEF Spec

\* The assumptions of store_buffer.sv and scoreboard.sv rule out no behaviour of
\* the composed design.
THEOREM AssumptionsHoldAlways == Spec => []AssumptionsHold
  BY Invariance, CountingHolds, InvAssumptionsHold, PTL

\* Every load that writes back has the value of the youngest older store.
THEOREM LoadsReadLatestStoreAlways == Spec => []LoadsReadLatestStore
  BY Invariance, InvLoadsReadLatestStore, PTL

\* The store that commit_lsu moves to the commit queue is the one that retires.
THEOREM CommitsOwnStoreAlways == Spec => []CommitsOwnStore
  <1>1. Inv => CommitsOwnStore
    BY DEF Inv
  <1> QED BY Invariance, <1>1, PTL

\* The request queue never overflows and is never popped twice in a cycle.
THEOREM BypassRoomAlways == Spec => []BypassRoom
  BY Invariance, InvBypassRoom, PTL

\* The load unit never requests memory for a load that matches a pending store.
THEOREM RequestsNeverMatchAlways == Spec => []RequestsNeverMatch
  BY Invariance, InvRequestsNeverMatch, PTL

\* A fence retires only with every older store in memory, and leaves no younger
\* one posted.
THEOREM FenceDrainsAlways == Spec => FenceDrains
  <1> DEFINE Drained == /\ L!SU!store_buffer_empty_o'
                        /\ st_state' # "VALID_STORE" /\ ~lsu_valid' /\ lsu_status_cnt' = 0
  <1>1. Inv /\ [Next]_vars => [FenceRetires => Drained]_vars
    <2>1. ASSUME Inv, Next, FenceRetires PROVE Drained
      <3>1. PICK issue \in BOOLEAN, w \in BOOLEAN, instr \in Instr : Cycle(issue, instr, w)
        BY <2>1 DEF Next
      <3>2. ScoreboardStep(issue, instr, w)
        BY <2>1, <3>1, ScoreboardStepHolds
      <3> QED BY <2>1, <3>1, <3>2, FenceStep
    <2> QED BY <2>1
  <1>2. [][FenceRetires => Drained]_vars <=> FenceDrains
    BY PTL DEF FenceDrains
  <1> QED BY Invariance, <1>1, <1>2, PTL DEF Spec
=============================================================================
