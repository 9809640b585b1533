# SynthLC: a verification development in TLA+

SynthLC derives, from the RTL of a processor, the paths an instruction can take
through the performing locations (PLs) of a design (RTL2MuPATH) and from them a
leakage contract. The repository holds two things that can go wrong on their
own, and this development models both:

* **the core under verification**, a modified CVA6 (`cva6/core`), whose memory
  path was rewritten for this work: a small store buffer, a scoreboard with a
  narrow counter, and a single-port memory in place of the cache;
* **the tool**, Python, Tcl and shell scripts (`fv/`, `synthlc_full/`) that
  generate properties, run JasperGold on them in batches and combine the
  verdicts.

The two meet in the FVT blocks of the core: sanity conditions of the RTL are
handed to JasperGold as *assumptions*. If the core could break one, every
verdict of the tool about the behaviours behind it would be vacuous
(`AssumptionsHold`).

Every definition is translated from the source; `PROJECT.json` maps each one to
the lines it stands for.

## 1. Inventory

### The core

| part | state | operations | what is hard |
|---|---|---|---|
| store buffer (`store_buffer.sv`) | two circular queues: entries with valid bit, read and write pointer, counter | push, commit (move between queues), memory grant, flush, all in one cycle | separate assignments to the same registers; two-entry queues |
| store unit (`store_unit.sv`) | state machine, payload register | accept, post, wait for room, flush | room is signalled one cycle before it is used |
| load unit (`load_unit.sv`) | state machine, id of the load being served | request, wait for grant, wait for a matching store, answer, flush | the address comparison is not repeated in every state |
| load-store unit (`load_store_unit.sv`) | request queue of two, memory array, arbiter register, output register | dispatch, arbitration, read and write | one memory port; answers one cycle later; a register that a flush does not clear |
| scoreboard (`scoreboard.sv`) | entries, issue counter, issue pointer, one pointer per commit port | issue, write back in any order, commit up to two, flush | the counter has one bit less than the number of entries needs; coinciding pointers after a flush |
| issue, CSR buffer, commit, controller | valid registers, CSR buffer flag | issue, retire, exception, fence | retirement and flush decided in one cycle from state of four units |

### The tool

| part | state | operations | what is hard |
|---|---|---|---|
| batch runner (`host_batch_run_template_*.py`, `RUN_JG.sh`) | run directories and reports in the file system; a pool of NNN workers | list, take, claim, prove, return | several workers; repeated batches; a crash at any point; JasperGold ending without a report |
| PL sets (steps 1 to 3) | text files with PLs, pairs, sets | cover, always, pairwise, combine, cover sets | time-outs ("undetermined") at every step; pruning that relies on the order of a list; facts shared between instructions |
| cycle counts (steps 5 and 11) | interval, round counter, report | probe, report, enumerate | time-outs treated as refutations; a round limit |
| happens-before edges (steps 4 and 6) | files of proven, weak and concurrent edges, of entries and of final cycles | ask, prove in two batches, classify | verdicts on one edge from separate files; time-outs and lost reports; assertions that look one cycle back |
| orders and paths (steps 7 to 9) | graphs with entry and final nodes; files of covered orders | graph and solver per set, cover, product of covered orders, graph and solver per combination, cover again | orders are covered one by one and then multiplied; covers and assumptions of one order are different formulas; three variants of one solver |
| summary (step 10) | follower sets and decisions | aggregate | its contents are not modelled; which inputs it insists on is, in `Driver` |
| driver (`run_an_instn_demo.sh`) | step directories | run the steps in order, skip what exists | restart on half-finished directories; scripts that miss an input leave with status 0 |
| leakage steps (`synthlc_full/src`) | tables per decision | staged queries, pruning | not modelled yet |

What correctness means here: the core returns the right data and loses no store;
its sanity conditions hold; the tool neither loses a behaviour of the design
without leaving a trace nor reports one that does not exist; a batch does each
proof once.

## 2. Modules

```
Ring  StoreQueue  InOrderWindow            index arithmetic; abstract specifications
  |       |            |
StoreBuffer        Scoreboard              components of the core
  |                    |
StoreUnit  LoadUnit    |
  \        /           |
     LSU --------- Backend                 compositions
PLSets  CycleSearch  BatchRun  Driver      components of the tool
HBTemplates - HBEnter - HBLeave - Orders - Paths    steps 4 to 9, each extending the one before
MC<X> + cfg                                instances for TLC

RingProofs                                 store buffer, store unit, scoreboard
BackendSteps - BackendProofs               the composed back end
PipelineProofs                             PL sets, cycle counts, batch runner
HBProofs                                   steps 4 and 6
GraphProofs - FilesProofs - OrdersProofs   steps 7 and 8
```

### Core

One step is one clock edge. The combinational processes of the RTL are
operators over the registers and the inputs of the cycle, named as the signals
they compute (`commit_queue_n`, `sel_lsu`, `state_d`); `Latch` or `Cycle` assigns
all registers from them. That keeps the RTL's order of assignments visible: in
`commit_queue_n` the copy wins over the eviction because it comes later in
`store_if`.

* `StoreBuffer` — `speculative_*` and `commit_*` as in the source. `BufferCycle`
  takes push, commit, flush and grant freely under the four FVT assumptions of the
  file. `StoreQueue` is what it promises: two FIFO sequences.
* `StoreUnit` — `st_state` is `state_q`, `st_q` the payload register; it extends
  `StoreBuffer`, the buffer the unit contains. The overflow assumption is no longer assumed
  but discharged here (`BufferSpec`).
* `LoadUnit`, `LSU` — the load state machine; the request queue (`Bypass`), the
  dispatch, the arbiter (`sel_lsu`), the memory (`Sram`) and the output register
  (`LoadPipe`). An address stands for the double word by which page offsets are
  compared; data is a small set of values.
* `Scoreboard` — `mem`, `issue_cnt`, `issue_pointer`, `commit_pointer`. Pointers
  wrap and the counter is narrowed as a register of `$clog2(NR_ENTRIES)` bits
  does. `InOrderWindow` is what it promises.
* `Backend` — all of the above with the issue registers, the CSR buffer, the two
  commit ports, exceptions and the flush. The decoder is free: it offers any
  instruction or none in every cycle, which also covers operand stalls. Fences
  wait for `no_st_pending` and for `dcache_commit_wbuffer_empty`, which nothing
  drives since the cache was removed (`ariane.sv`) and which is therefore any
  value.

### Tool

* `PLSets` — a design is a set of executions, an execution the cycle of the first
  visit to each PL. `CoverIndividual`, `AlwaysReach`, `PairwiseDep`,
  `get_all_combination` (one PL per step, all partial sets at once) and
  `CoverSets` are the generating and post-processing scripts of steps 1 to 3.
  Each may leave any of its properties undetermined. `common` are the `xCommon`
  files, relations proven once per pair of instruction-identifier registers.
  `pruned` and `pruned_based_undet_pairwise` are `plset_cnt`, the script's own
  brute-force count over the power set, used as the reference.
* `CycleSearch` — `min`, `max`, `cnt` are the variables of `template.tcl`;
  `MaxCycle` is the post-processing in `proc`; `Enumerate` is one round of
  `template_iterloop.tcl`. `stays` are the lengths of stay the design can make.
* `BatchRun` — `rundir` and `csv` are what the file system shows; `tasks`, `at`,
  `job` are the pool; the look at the file system (`Take`), `mkdir` (`Mkdir`), the
  start (`RunJG`) and the end (`Finish`) of a proof are separate steps. `tcl`
  selects the variant whose listing looks for run directories in another place.
* `Driver` — `run_an_instn_demo.sh` as a whole. `dir` are the step directories,
  `rep` the reports of each batch of each step (a hole is `ready`, if the step still
  runs its batch, or `cut`, if it does not), `txt` the text files steps hand to each other.
  `Enter` is the directory guard, `Gen` a generator, `Batch` the batch runner seen
  from outside (its outcomes are those of `BatchRun`), `PP` the post-processing.
  `Imports` are the files a script insists on with status 0 (`check_file`),
  `GenRaises` and `PPRaises` what makes it raise. `CutGen` is what a generator leaves
  that is cut (`RaisedGen`: that raises): some property files, and a list that was
  opened and holds none or some of its lines. Steps 4 to 6 write their property files
  first and the list last (`ListLast`), in steps 3, 7 and 8 the list comes first or
  grows along. A cut post-processing needs no state of its own: every restart repeats
  it before anything reads its results.

* `HBTemplates` — the assertions, covers and assumptions of `HB_template.py` as
  predicates on one execution, cycle by cycle. An execution gives the occupied PLs
  of each of `T` cycles; `hpn` is the template's "happened before" register.
* `HBEnter` — step 4. `out`, `report` are the property and csv files; `pp` sorts
  edges into the six files. `Faults` bounds time-outs and lost reports together.
* `HBLeave` — step 6 on the files of step 4 (`TC_per_set`, a closure that networkx
  computes, is `TransitiveClosure` of `Relation`), for relations `<<f1, s1, f2, s2>>`
  between an entry (0) or final cycle (1) of s1 and one of s2. Verdict and
  precondition are separate answers. `max_cycle_per_pl` are the counts of step 5: exact
  (`max_cyc`), or, for a PL with a probe that timed out, any of `Estimates`, shorter or
  longer than the truth; `over1cyc_pl` and the stays of `Orders` are read off them. Python's lists and tuples, which are never
  equal, stay apart (`PyList`, `PyTuple`).
* `Orders` — the second phase of step 5, step 7 and the first half of step 8, for
  one reachable set. The record `files` is what the scripts read for that set, the
  concurrent pairs in the order of `aws_concurrent.txt`: those proven both ways, those
  of `WHB_CONCUR` alone, then those of step 6 (`InFiles`). A PL counted as 0 ends step 5
  without its result (`cycle_count_gt1`), because its report was never asked for.
  `Graph`, `TR`, `TC` are the networkx graphs, `Passes` goes over the concurrent pairs in
  file order with `Propagate` for each, both loops written as recursive functions on the
  position in the list; `add_constraints` is `MySolver`, every
  constraint a lower bound on a difference, and `Solve` what cvc5 derives from
  them. `Product` is the product of the covered orders.
* `Paths` — the second half of step 8 and step 9, for one combination of entering
  orders: open orders of final cycles, their covers, their product, and the last
  cover of each path under assumptions. `PathSpec` runs steps 4 to 9 in sequence.

JasperGold is external: it answers a property correctly, or leaves it
undetermined, or ends without a report.

## 3. Runs

| run | properties | states | shows |
|---|---|---|---|
| `store_buffer` | `BufferTypeOK` `SpecWindow` `CommitWindow` `RefinesStoreQueue` | 1458 | valid bits, pointers and counters of both queues agree whatever coincides in a cycle; no store is lost, duplicated or reordered |
| `store_unit` | `RoomWhenPosted` `BufferSpec` | 1248 | room promised a cycle early is there when it is used |
| `scoreboard` | `TypeOK` `IssueWindow` `NoDoubleRetire` `RefinesInOrderWindow` | 2625 | the narrow counter never wraps, late write backs revive nothing, in-order retirement, each instruction once |
| `backend` | `AssumptionsHold` `LoadsReadLatestStore` `CommitsOwnStore` `BypassRoom` `RequestsNeverMatch` `FenceDrains` | 105 852 | memory consistency of the composed core, and that the assumptions given to JasperGold rule out none of its behaviours |
| `backend_live` | `InstructionsLeave` `RetiredStoresReachMemory` | 29 115 | no wait is for ever |
| `cycle_search` | `BudgetSuffices` `ShortfallIsVisible` `EstimateUnrefuted` | 136 213 | the search is exact without time-outs, and with them its report shows what may be missing |
| `cycle_enum` (violation) | `ListedStaysExist` | | `res.txt` lists lengths that the design cannot make |
| `pl_sets` | `NothingLost` `CandidatesConsistent` `EveryCandidateClassified` | 141 978 | no execution is lost silently; GenComb agrees with the brute-force reference |
| `batch_run` | `TypeOK` `ProvedAtMostOnce` `CrashCostsAtMostNNN` `StrandedForGood` `BatchReturns` | 10 577 | each proof at most once; what a crash costs, and that it is never recovered |
| `driver` | `FinishedReports` `FinishedFiles` `LeavingBeforeOrders` | 6 752 289 | which holes can reach the end of the driver script, and that no other can |
| `paths` | `EnterSound` `NoSilentLoss` `LeavingSound` `NoLeavingLost` `OrdersKept` `StopsOnlyOnContradiction` `PathsKept` `PathSound` | 286 410 | what each of steps 4 to 9 writes is true of the design, and what it leaves out it leaves out for a stated reason |
| `exit_orders` (violation) | `ExitOrdersExplored` | | an entry just after a final cycle gets no path |

What `paths` shows in words. The files of step 4 are sound and complete up to lost
reports; those of step 6 are sound for the executions each of its files speaks of.
Steps 7 and 8 keep the entering order of every execution that the files allow, and
step 9 a path for every order of final cycles, up to time-outs, one-way edges of the
data flow graph and the case of `exit_orders`. A path that the last cover confirms is
the order of an execution. The scripts raise only where the files contradict every
execution of the set with the stays step 5 reports (which after a time-out may be
shorter or longer than the real ones), or where orders covered one by one
have no common execution. "That the files allow" (`Fits`) is a real restriction: steps
7 and 8 require neighbouring states of one FSM to follow each other at once, and take
the leaving orders of step 6 to hold beyond the executions they were proven for; an
execution outside is not claimed to be kept. So are one-way edges (`AgainstFlow`,
`FinalsAgainstFlow`): steps 7 and 8 ask for the order e1 before e2 only where
`dfg_e.txt` has the edge from e1 to e2, and 172 of the 1284 edges of the file in the
repository have no opposite. An execution that enters two PLs against such an edge has
an order that is never asked for.

What `driver` shows in words. A cut or failed batch is never repaired by a restart
that keeps the directory: the step is skipped, and the scripts behind it either
raise or leave quietly, so that every restart gets one step further. What stops
this is that step 8 is never skipped and asks for all earlier results again. The
holes that nothing stops are the phases in `Unread`: the always-visited PLs of step
1, the first edge reports of step 4 (a missing one drops the edge), the reports of
steps 8 and 9, and the decisions of step 10, if that step was itself cut or raised
once and is skipped later. The other way past a hole is a list that was opened and not
filled (`Forgotten`): `potential_subset.txt` of step 3, with which the driver reaches its
end without any path, `whb_todo.txt` of step 4, `check_e.txt` of step 6 and the lists of
entering orders of step 7. Later scripts ask for the reports a list names, and an empty
one names none. A list with only some of its lines does not hide anything, since the
batch behind it never ran and the first line makes a script raise.

**Bounds.** The core runs with the sizes of `ariane_pkg.sv` (four scoreboard entries,
two commit ports, queues of two and two), so nothing is scaled down there; two
addresses and two data values are enough to tell a match from a mismatch and a stale
value from a fresh one. `backend` explores states up to the payload of unused entries
(`VIEW Observable`), which no signal reads. `cycle_search` uses the script's own 70
and 10 and a family of stay sets with gaps. `pl_sets` has three PLs on two registers,
all designs of up to two executions with visits in two cycles, a family of shared
files, and up to two time-outs: three PLs are the fewest in which an implication and
an exclusion can interact across the list order. `batch_run` has three jobs, two
workers and two crashes (`MaxCrashes`): more jobs than workers, and a crash of a batch
that already follows a crash. `driver` has no bound: crashes and restarts are not
counted, and the state space is finite. `paths` has three PLs, two of them of one FSM,
five cycles (`T`), designs of up to two executions with stays of one to three cycles
that share two PLs, and one time-out or lost report (`Faults`) anywhere in steps 4 to
9 or in a count of step 5, which is then 0, 1, 2 or 4 (`Estimates`: nothing, a single
cycle, more than one, more than any real stay), on a data flow graph with all edges and on one with a one-way edge. Every execution
visits the first PL, which keeps the number of designs down. Two executions are what
it takes to have one order covered by each; stays of two cycles separate entry from
final cycle, and the cycles chosen include coinciding, adjacent and separated ones.
The instance reaches the error of step 7 but not that of step 8, and no PL is entered
twice; the proofs of `StopsOnlyOnContradiction` and `EnterSound` cover these. `exit_orders` has no time-outs. Each behaviour takes one reachable set and one
combination; all of them are explored, and the scripts treat them independently except
that an error in one stops the step.

**Fairness.** `backend_live` assumes weak fairness of the clock and nothing else.
Fences are left out of it because they wait for a signal that nothing drives.
`batch_run` assumes that the operating system runs the listing, the pool and
its end, and that a proof ends, which JasperGold's time limit guarantees;
generating further files and crashes are not fair.

**Deadlock** is checked in all runs. `PLSets` and `CycleSearch` have an explicit `Stop`
step for the end of a script, `Paths` has `Done`; the driver can always be started again.

## 4. Disagreements with the repository's own statements

Checked by a run:

1. `cycle_enum`. `xEnumCycleCnt/gen.py:57` lists an enumerated length whatever its
   verdict; `05-5instn-isa.md:34` reads the list as the lengths that are possible.
   The two agree only for a design without gaps below its longest stay.
2. `exit_orders`. `C_final_hb_enter` (`HB_template.py:28`) leaves out an e1 entered in
   the cycle right after the final cycle of e0, and `C_final_concur_enter` wants the
   same cycle. If another order of the pair is covered, step 9 combines only that
   one. The assumption of the same name and `HB_LEAVING` of step 6 count the case as
   before. `xCollectReEvalLeaveOrder/README.md:1` and `run_an_instn_demo.sh:409`
   promise all combinations.

Met while reading; no run checks them:

3. `NO_LOAD_STORE_UNIT_SIMULT` (`load_store_unit.sv:359`) asserts that load and store
   unit never request the memory together. They do; the arbiter in front of it is
   written for that case, and `LoadsReadLatestStore` shows that it does the right
   thing.
4. `xPerfLocSubsetDiv.py:35` says "we treat undetermined as unreachable". When the
   implied PL comes first in the list the set is still proposed. The effect is more
   candidates, never fewer: `NothingLost` is not affected.
5. `$past(!s1_hpn) && s1` in the leaving templates (`HB_template.py:253`) also holds in
   the second cycle of a stay. An entry of s1 in leaving_concur_proven.txt is
   therefore not always concurrent, which step 8
   (`xCollectReEvalLeaveOrder/aggregate_cyccnt_comp.py:362`) takes it to be;
   `LeavingSound` leaves exactly this case out.
6. `xHBPerfG_leaving.py:159` and `:186` look for a tuple in a list of lists, which never
   succeeds, so that concurrent pairs are asked about all the same (`PyTuple` in
   `HBLeave`); `:146-150` takes a set without edges for agreement.
7. Step 8 ends with an assertion on a combination that has no solution
   (`xCollectReEvalLeaveOrder/solver.py:153`), where the solver of step 9 returns False and
   passes it over.
8. Step 10 (`aggregate_cyccnt_stats_iso_follower_set_decision_regen_v2.py:556-609`)
   tests a combination without open finals for being "in here already" with the
   reduction `TR` of the combination before. Of the orders ">", "=", "<" of two
   otherwise unordered PLs the third is then taken for the first and dropped. Lines
   331-332 override one verdict by hand.

## 5. Proofs

TLAPS proves the following for every value of the constants that satisfies the named
`ASSUME`s of the modules; a run evaluates each of those on its instance. TLC finds the
inductive invariants named below to hold on the instances of the runs, too.

### Store buffer, store unit and scoreboard: `RingProofs`

* `BufferInv` = types and both windows. `CommitWindow` alone is not inductive: a commit
  copies the valid bit of the oldest speculative entry, which is set only because the
  speculative queue is a nonempty window (`speculative_buffer_underflow`).
  `QueueRefinement` shows that every cycle is a step of `StoreQueue`: a lemma on one
  circular queue (`ContentsStep`: the read pointer moves by zero or one, writes happen
  behind the window) is applied to both. Assumed: positive depths.
* `UnitInv`: `RoomWhenPosted` with the type of the counter is inductive, because the unit
  enters `VALID_STORE` only on `ready_o`, which leaves a spare place or comes with a
  commit in the same cycle. `BufferRefinement` follows: the unit's steps satisfy the
  buffer's specification with its overflow assumption.
* `Inv` of the scoreboard adds to `IssueWindow` that the commit pointers are consecutive
  *unless nothing is in flight* (`PortsConsecutive`), which is what makes the flush
  state harmless; `NoDoubleRetire` follows. `WindowStep` says how one cycle moves the
  window (released at the front, issued at the back, finished in between), and from it
  `Refinement` shows that the circular scoreboard implements `InOrderWindow`. Assumed:
  at least two entries, and at least one and at most as many ports.

### The back end: `BackendSteps`, `BackendProofs`

All six safety properties of the run follow from `Inv` of `Backend`, for every number of
entries from two, every depth of both queues, and any addresses, data and instructions;
two commit ports, as in `ariane_pkg.sv`. None of them is inductive. `Inv` says where each
memory instruction in flight is and in which order:

* the request queue is a window of at most two, and what waits in it or in the issue
  register is unfinished and in program order (`BypassInv`, `WaitingInv`);
* stores finish in program order: the finished ones are the speculative queue, entry by
  entry, then comes the one being posted, then those that wait, and there are no others
  (`StoresInOrder`, `CommitsOwnStore`);
* a load that waits is the head of the queue, and once it may ask for memory it matches
  no pending store (`WaitingLoad`);
* a load on its way from memory is older than all that wait and has no store ahead of it
  outside the memory; in `WAIT_FLUSH`, where an answer belongs to no one, nothing is in
  flight (`LoadsServed`).

`BackendSteps` has one lemma per part of `Inv` and cycle, from two facts about the
components: how a cycle moves the scoreboard's window and the buffer's queues. The
facts on cardinalities that it needs are one hypothesis there (`Counting`).
`BackendProofs` proves that hypothesis from the theorems on finite sets, obtains the two
facts by instantiating `RingProofs`, and puts the parts together. It also discharges the
assumptions of the FVT blocks (`InvAssumptionsHold`), so that the component theorems,
which rest on these assumptions, hold of the composition.

### PL sets, cycle counts, batches: `PipelineProofs`

* The facts written by steps 1 and 2 hold of the design (those read off a register only
  for executions without undetermined PLs); the partial sets of GenComb contain the part
  of every kept set decided so far (`Complete`) and respect every proven relation among
  decided PLs (`Consistent`). Three theorems follow, for any number of PLs, any designs
  and time-outs. Assumed of designs: an execution visits some PL.
* The bracket invariant of the binary search (`min - 1` is covered, everything above
  `max` was refuted or timed out) and the halving of the interval give `BudgetSuffices`
  and `ShortfallIsVisible`, for intervals up to 127 and at least nine rounds.
  `EstimateUnrefuted` needs in addition that no length has two verdicts and that the
  lengths not refuted have a greatest one (`Verdicts`). Assumed: a design has a longest
  stay.
* Where a worker is tells what the file system says of its job, and a job is with one
  worker (`BatchInv`). What a crash costs is a count (`Cost`): while the pool runs, every
  property file waits, is held, or is marked by a run directory or a report, and the
  marked ones that nobody holds and that have not ended are at most NNN per crash,
  because workers hold at most NNN jobs. For any number of jobs, workers, batches and
  crashes.

### Steps 4 and 6: `HBProofs`

A refuted assertion has a witness in the design and a proven one none (`ReportsTrue`);
with the first cycle of a visit (`FirstIsEntry`, from the well-foundedness of the
naturals) this gives `EnterSound` and `NoSilentLoss` as one inductive invariant. For
step 6, `Stay` says what the template's registers are in each cycle of a stay, and
`LeavingOrder`, `RefutedLeaving` what a proven or refuted assertion of each of the three
kinds then says of entry and final cycles; `LInv` carries this through the two batches.
For any PLs, horizon, designs, data flow graphs and faults.

The theorems on step 6 have a hypothesis, `SingleStays`: an execution occupies a PL in
one stay, which begins and ends within the horizon. A PL that is left and entered again
has several final cycles, of which a relation means the last and the templates every one.

### Steps 7 and 8: `GraphProofs`, `FilesProofs`, `OrdersProofs`

`OrdersKept` and `StopsOnlyOnContradiction` for the specification of the `paths` run,
with any PLs, names, horizon, designs, data flow graphs and faults. The argument goes
from the algorithms to the files to the scripts:

* `GraphProofs`: a pass over concurrent pairs commutes with unions of graphs and stays
  inside every set of edges that is closed under sharing; `TC` is the least transitive
  set; the reduction of a graph without cycles loses no order (an edge that is dropped
  for good would give a smaller one, by the number of nodes in between); and `Solve`
  derives only bounds that every solution satisfies. The loops are recursive functions,
  so that each of these is an induction on the position in a list, over a set
  of positions instead of an operator.
* `FilesProofs`: the times of an execution order the nodes of its set in two ways,
  strictly, and with an entry before a final cycle of the same cycle. The first order
  contains what the files say, the second also the stays; both are closed under sharing
  between nodes of one cycle, and so contain the graph. Hence the graph of an execution
  that the files are right about has no cycle, and its times solve the constraints.
* `OrdersProofs`: `OInv` says that the counts of step 5 are numbers for the PLs of every
  execution (`Counts`; of estimates only `EstimateAssumption`) and ties `todo`, `com`, `comb_edges` and the error states to what
  graph and solver say of the files. The order of an execution that fits is either
  already decided the right way or asked for; if no cover of it timed out it is covered,
  so that the product contains the combination of the execution's own orders, which by
  the second step has no cycle and no contradiction.

Hypotheses: `SingleStays`, and `OneStatePerFSM`, that PLs of one FSM are not occupied in
the same cycle, which is what makes them states of one FSM.

### Only model-checked

* `InstructionsLeave`, `RetiredStoresReachMemory`, `BatchReturns`: liveness under fairness
  is outside the prover's reach.
* The properties of `Driver`: it has no constants and no bound, so its run is already
  exhaustive.
* `PathsKept`: steps 8 and 9 require neighbouring states of one FSM to follow each other
  at once, in several variants of one solver. For designs that do not do so, the times of
  an execution that fits step 7 need not solve the constraints of step 9; the run says
  that on its instance they do.
* `PathSound`: `A_enter_hb_final` also admits the same cycle if the entered PL was not
  there before, so that with several open pairs a covered path need not be the order of
  one execution for arbitrary designs. The run has at most the pairs that three PLs give.
* `ListedStaysExist`, `ExitOrdersExplored`: refuted by their runs.

## 6. Not modelled

* MMU, atomic operations and their buffer, halt, debug and interrupts, CSR side
  effects, misprediction after issue, ALU, multiplier, divider, FPU, front end,
  byte enables and sign extension.
* Step 10, which multiplies the orders of step 9 once more over the whole reachable
  set and turns paths into follower sets and decisions; see section 4, item 8.
* In steps 7 to 9, the lists of cycle counts per path and the drawing of graphs.
  The sets and the combinations of one run of a script side by side: each behaviour
  follows one.
* The leakage steps (`synthlc_full/src`) and the information flow steps of one
  instruction: their verdicts come from taint properties of the RTL, which need a
  model of the instrumented design.
* The extraction of PLs and data flow graphs: text generation without state.
* Verilator output and the vendored instruction set simulators, by far the most C
  and C++ in the repository: generated or upstream code. The RTL it is generated from
  is modelled instead, so that a share counted over those files is close to none.
* In `Driver`, the contents of reports and results: only whether they are complete.
  The exit before step 1 when the data flow graph is missing. The variants
  `run_an_instn_demo_subset.sh` and `run_an_instn_demo_ift.sh`.

## 7. Plan

1. Step 10 as a specification over the paths of `Paths`: whether each covered path
   reaches a follower set.
2. The staged queries of `synthlc_full` and whether pruning between the stages loses
   a dependency.
3. The number of iterations of the divider against the documented range.
4. `PathsKept` and `PathSound` under hypotheses on the design that make them provable: FSM
   states that follow each other at once, and the strict form of `A_enter_hb_final`.
