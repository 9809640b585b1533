----------------------------- MODULE Scoreboard -----------------------------
(***************************************************************************)
(* The scoreboard of the core (cva6/core/scoreboard.sv): a circular buffer *)
(* of the instructions in flight.  An issued instruction gets the index of *)
(* its entry as transaction id, functional units write back by transaction *)
(* id in any order, and the commit stage acknowledges the oldest entries   *)
(* through NR_COMMIT_PORTS pointers.                                       *)
(*                                                                         *)
(* One step is one clock edge; operators named as the _n signals give the  *)
(* next register values.  The counter has $clog2(NR_ENTRIES) bits, as in   *)
(* this repository's version of the file, so that at most NR_ENTRIES - 1   *)
(* instructions are in flight.                                             *)
(***************************************************************************)
EXTENDS Integers, Sequences, Ring

CONSTANTS
    Instr,              \* decoded instructions
    Faulty,             \* those the decoder marks with an exception
    NoUnit,             \* those with functional unit NONE
    ResetInstr,         \* what the entries hold after reset
    NR_ENTRIES,
    NR_COMMIT_PORTS

ASSUME InstrAssumption == ResetInstr \in Instr
ASSUME SizeAssumption == /\ NR_ENTRIES \in Nat /\ NR_ENTRIES >= 2
                         /\ NR_COMMIT_PORTS \in 1..NR_ENTRIES

VARIABLES
    mem,                \* mem_q: issued and valid bits, and the instruction
    issue_cnt,
    issue_pointer,
    commit_pointer      \* one pointer per commit port

vars == <<mem, issue_cnt, issue_pointer, commit_pointer>>

Id == 0..NR_ENTRIES-1
Port == 0..NR_COMMIT_PORTS-1
Entry == [issued : BOOLEAN, valid : BOOLEAN, instr : Instr]

Init ==
    /\ mem = [i \in Id |-> [issued |-> FALSE, valid |-> FALSE, instr |-> ResetInstr]]
    /\ issue_cnt = 0
    /\ issue_pointer = 0
    /\ commit_pointer = [k \in Port |-> 0]

\* The counter is all ones.
issue_full == issue_cnt = NR_ENTRIES - 1

\* What a commit port shows the commit stage.
commit_instr_valid(k) == mem[commit_pointer[k]].valid
commit_instr(k) == mem[commit_pointer[k]].instr

-----------------------------------------------------------------------------
\* issue_fifo: the issued instruction is written at the issue pointer (valid
\* at once if the decoder found an exception), ...
Issued(issue, instr) ==
    IF issue
    THEN [mem EXCEPT ![issue_pointer] =
              [issued |-> TRUE, valid |-> instr \in Faulty, instr |-> instr]]
    ELSE mem

\* ... an entry without functional unit and the entries that are written back
\* become valid if they were in issue before this cycle, ...
FinishAny(wb) == {i \in Id : mem[i].instr \in NoUnit \/ i \in wb}

Finishing(wb) == {i \in Id : mem[i].issued /\ (mem[i].instr \in NoUnit \/ i \in wb)}

\* ... the first num_commit ports release their entries, ...
Released(num_commit) == {commit_pointer[k] : k \in 0..num_commit-1}

\* ... and a flush releases all.
mem_n(issue, instr, wb, num_commit, flush_i) ==
    [i \in Id |->
        LET leaves == flush_i \/ i \in Released(num_commit)
        IN  [issued |-> Issued(issue, instr)[i].issued /\ ~leaves,
             valid  |-> (Issued(issue, instr)[i].valid \/ i \in Finishing(wb)) /\ ~leaves,
             instr  |-> Issued(issue, instr)[i].instr]]

issue_cnt_n(issue, num_commit, flush_i) ==
    IF flush_i THEN 0
    ELSE Narrow(issue_cnt - num_commit + (IF issue THEN 1 ELSE 0), NR_ENTRIES)

PointerNoWrap(issue, flush_i) ==
    IF flush_i THEN 0 ELSE IF issue THEN issue_pointer + 1 ELSE issue_pointer

issue_pointer_n(issue, flush_i) ==
    IF flush_i THEN 0 ELSE IF issue THEN Incr(issue_pointer, NR_ENTRIES) ELSE issue_pointer

\* Port 0 moves by the number of acknowledges, the others follow it; a flush
\* sets all of them to the same entry for one cycle.
StalePorts(num_commit, flush_i) ==
    [k \in Port |-> IF flush_i THEN 0
                    ELSE IF k = 0 THEN Wrap(commit_pointer[0], num_commit, NR_ENTRIES)
                    ELSE Wrap(commit_pointer[0], k, NR_ENTRIES)]

commit_pointer_n(num_commit, flush_i) ==
    [k \in Port |-> IF flush_i THEN 0
                    ELSE Wrap(Wrap(commit_pointer[0], num_commit, NR_ENTRIES), k, NR_ENTRIES)]

\* The register process.
Latch(issue, instr, wb, num_commit, flush_i) ==
    /\ mem' = mem_n(issue, instr, wb, num_commit, flush_i)
    /\ issue_cnt' = issue_cnt_n(issue, num_commit, flush_i)
    /\ issue_pointer' = issue_pointer_n(issue, flush_i)
    /\ commit_pointer' = commit_pointer_n(num_commit, flush_i)

\* The assumptions of the FVT block: an acknowledged instruction is valid, and
\* the issue acknowledge needs room.
commit_ack_valid(num_commit) == \A k \in 0..num_commit-1 : commit_instr_valid(k)

IssueWhenFull(issue) == TRUE

issue_ack_valid(issue) == issue => ~issue_full

Cycle(issue, instr, wb, num_commit, flush_i) ==
    /\ issue_ack_valid(issue)
    /\ commit_ack_valid(num_commit)
    /\ Latch(issue, instr, wb, num_commit, flush_i)

Next == \E issue, flush_i \in BOOLEAN, instr \in Instr, wb \in SUBSET Id,
           num_commit \in 0..NR_COMMIT_PORTS :
               Cycle(issue, instr, wb, num_commit, flush_i)

Spec == Init /\ [][Next]_vars

-----------------------------------------------------------------------------
\* Entries, counter and pointers have their widths.
TypeOK ==
    /\ mem \in [Id -> Entry]
    /\ issue_cnt \in Id
    /\ issue_pointer \in Id
    /\ commit_pointer \in [Port -> Id]

\* The entries in issue are exactly the issue_cnt entries from the first commit
\* pointer on, the issue pointer is the one after them, and only entries in
\* issue are valid: the narrowed counter never wraps, a late write back never
\* revives a released entry, and issue never overwrites one in flight.
IssueWindow ==
    /\ issue_pointer = Wrap(commit_pointer[0], issue_cnt, NR_ENTRIES)
    /\ \A i \in Id : mem[i].issued <=> Dist(commit_pointer[0], i, NR_ENTRIES) < issue_cnt
    /\ \A i \in Id : mem[i].valid => mem[i].issued

\* Two commit ports never show the commit stage the same valid instruction,
\* which would retire it twice (commit_pointer_n, lines 211 to 218, after a
\* flush makes all the pointers equal).
NoDoubleRetire ==
    \A j, k \in Port : j # k /\ commit_pointer[j] = commit_pointer[k]
                           => ~commit_instr_valid(j)

\* The commit ports show consecutive entries whenever something is in flight.
PortsConsecutive ==
    issue_cnt = 0 \/ \A k \in Port : commit_pointer[k] = Wrap(commit_pointer[0], k, NR_ENTRIES)

\* The inductive invariant.
Inv == TypeOK /\ IssueWindow /\ PortsConsecutive

\* One cycle seen by the entries in issue: a flush releases them all; otherwise
\* the num_commit oldest leave, the others keep their instruction, become valid
\* when they are written back, and move num_commit places towards the front.
WindowMoves(issue, instr, wb, num_commit, flush_i) ==
  /\ Inv' /\ num_commit <= issue_cnt
  /\ flush_i => issue_cnt' = 0
  /\ ~flush_i =>
       /\ issue_cnt' = issue_cnt - num_commit + (IF issue THEN 1 ELSE 0)
       /\ \A i \in Id :
            mem'[i].issued <=> /\ mem[i].issued \/ (issue /\ i = issue_pointer)
                               /\ Dist(commit_pointer[0], i, NR_ENTRIES) >= num_commit
       /\ \A i \in Id : Dist(commit_pointer[0], i, NR_ENTRIES) >= num_commit =>
            Dist(commit_pointer'[0], i, NR_ENTRIES)
                = Dist(commit_pointer[0], i, NR_ENTRIES) - num_commit
       /\ \A i \in Id :
            mem[i].issued /\ Dist(commit_pointer[0], i, NR_ENTRIES) >= num_commit =>
                /\ mem'[i].instr = mem[i].instr
                /\ mem'[i].valid <=> mem[i].valid \/ mem[i].instr \in NoUnit \/ i \in wb
       /\ issue => /\ mem'[issue_pointer].instr = instr
                   /\ mem'[issue_pointer].valid <=> instr \in Faulty

-----------------------------------------------------------------------------
\* The instructions in flight, oldest first.
Window == [k \in 1..issue_cnt |->
              LET e == mem[Wrap(commit_pointer[0], k - 1, NR_ENTRIES)]
              IN  [instr |-> e.instr, done |-> e.valid]]

InOrder == INSTANCE InOrderWindow WITH window <- Window, Ports <- NR_COMMIT_PORTS

\* The scoreboard implements the in-order window: instructions retire in
\* program order, each once, and only when finished, whatever the order of the
\* write backs and whatever coincides in a cycle (issue_fifo and the counters).
RefinesInOrderWindow == InOrder!Spec
=============================================================================
