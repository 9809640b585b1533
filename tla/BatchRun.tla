------------------------------ MODULE BatchRun -------------------------------
(***************************************************************************)
(* The batch runner: host_batch_run_template_v2.py and its Tcl variant.    *)
(*                                                                         *)
(* A batch lists the property files of a directory, leaves out the ones    *)
(* that have a run directory or a report already, and gives the others to  *)
(* a pool of NNN workers.  A worker looks at the file system again, makes  *)
(* the run directory and starts JasperGold (RUN_JG.sh), which writes the   *)
(* report or ends without one.  The run may be cut at any point (a crash,  *)
(* an interrupt) and the same command issued again, or issued again after  *)
(* more property files were generated (gen_s2).                            *)
(***************************************************************************)
EXTENDS Integers, FiniteSets

CONSTANTS
  Job,        \* prefixes of property files
  NNN,        \* size of the pool
  NoJob

ASSUME PoolAssumption == NNN \in Nat \ {0} /\ NoJob \notin Job /\ IsFiniteSet(Job)

Worker == 1 .. NNN

VARIABLES
  tcl,        \* the Tcl variant, whose listing looks for the run directory elsewhere
  out,        \* the property files present
  rundir,     \* jobs with <prefix>_rundir
  csv,        \* jobs with <prefix>.csv
  batch,      \* "list", "map" (inside p.map), "returned"
  tasks,      \* tasks no worker has taken
  at, job,    \* per worker: where in foo, and on which job
  starts,     \* history: times JasperGold was started on a job
  failed,     \* history: jobs whose JasperGold run ended without a report
  crashes     \* history

files == <<rundir, csv>>
pool == <<tasks, at, job>>
history == <<starts, failed, crashes>>
batchVars == <<tcl, out, files, batch, pool, history>>

BatchInit ==
  /\ tcl \in BOOLEAN
  /\ out \in SUBSET Job
  /\ rundir = {} /\ csv = {}
  /\ batch = "list" /\ tasks = {}
  /\ at = [w \in Worker |-> "idle"] /\ job = [w \in Worker |-> NoJob]
  /\ starts = [j \in Job |-> 0] /\ failed = {} /\ crashes = 0

\* The listing.  The Tcl variant builds the run directory's path from another job
\* directory (JOB + "_" + prefix), so that only the report counts.
Listed == {j \in out : j \notin csv /\ (tcl \/ j \notin rundir)}

\* Mutant: claim the tasks while listing them.
ListAndClaim ==
  /\ batch = "list"
  /\ tasks' = Listed /\ rundir' = rundir \cup Listed
  /\ batch' = "map"
  /\ UNCHANGED <<tcl, out, csv, at, job, history>>

List ==
  /\ batch = "list"
  /\ tasks' = Listed
  /\ batch' = "map"
  /\ UNCHANGED <<tcl, out, files, at, job, history>>

\* Mutant: only a report stops foo.
RunningIfReported(j) == j \in csv

running(j) == j \in rundir \/ j \in csv

\* Mutant: a running job is put back.
PutBackRunning(j) == IF running(j) THEN tasks ELSE tasks \ {j}

Untaken(j) == tasks \ {j}

\* foo, up to `if not running`.
Take(w) ==
  \E j \in tasks :
    /\ batch = "map" /\ at[w] = "idle"
    /\ tasks' = Untaken(j)
    /\ IF running(j)
       THEN UNCHANGED <<at, job>>
       ELSE at' = [at EXCEPT ![w] = "claim"] /\ job' = [job EXCEPT ![w] = j]
    /\ UNCHANGED <<tcl, out, files, batch, history>>

\* `mkdir -p <prefix>_rundir`
Mkdir(w) ==
  /\ at[w] = "claim"
  /\ rundir' = rundir \cup {job[w]}
  /\ at' = [at EXCEPT ![w] = "made"]
  /\ UNCHANGED <<tcl, out, csv, batch, tasks, job, history>>

\* `subprocess.call(cmd)`: RUN_JG.sh starts JasperGold.
RunJG(w) ==
  /\ at[w] = "made"
  /\ starts' = [starts EXCEPT ![job[w]] = @ + 1]
  /\ at' = [at EXCEPT ![w] = "prove"]
  /\ UNCHANGED <<tcl, out, files, batch, tasks, job, failed, crashes>>

\* Mutant: the worker keeps its job.
ReleaseKeepsJob(w) == at' = [at EXCEPT ![w] = "idle"] /\ UNCHANGED job

Release(w) == at' = [at EXCEPT ![w] = "idle"] /\ job' = [job EXCEPT ![w] = NoJob]

\* JasperGold ends with `report -csv`, or RUN_JG.sh exits without a report, with
\* status 0 as well.
Finish(w) ==
  /\ at[w] = "prove" /\ Release(w)
  /\ \/ csv' = csv \cup {job[w]} /\ UNCHANGED failed
     \/ failed' = failed \cup {job[w]} /\ UNCHANGED csv
  /\ UNCHANGED <<tcl, out, rundir, batch, tasks, starts, crashes>>

\* p.map returns when foo has returned for every task.
MapDone == tasks = {} /\ \A w \in Worker : at[w] = "idle"

Return ==
  /\ batch = "map" /\ MapDone
  /\ batch' = "returned"
  /\ UNCHANGED <<tcl, out, files, pool, history>>

\* The driver generates further property files and issues the command again.
Generate ==
  \E more \in SUBSET Job :
    /\ batch = "returned"
    /\ out' = out \cup more
    /\ batch' = "list"
    /\ UNCHANGED <<tcl, files, pool, history>>

\* All processes end, and the command is issued again.
Crash ==
  /\ batch = "map"
  /\ batch' = "list" /\ tasks' = {}
  /\ at' = [w \in Worker |-> "idle"] /\ job' = [w \in Worker |-> NoJob]
  /\ crashes' = crashes + 1
  /\ UNCHANGED <<tcl, out, files, starts, failed>>

Work(w) == Take(w) \/ Mkdir(w) \/ RunJG(w) \/ Finish(w)

BatchNext == List \/ Return \/ Generate \/ Crash \/ \E w \in Worker : Work(w)

BatchSpec == BatchInit /\ [][BatchNext]_batchVars

-----------------------------------------------------------------------------
\* Jobs and workers; a worker has a job exactly while it is inside foo, and the tasks
\* still to be taken are property files of the listed directory.
TypeOK ==
  /\ tcl \in BOOLEAN /\ out \subseteq Job
  /\ rundir \subseteq Job /\ csv \subseteq Job
  /\ batch \in {"list", "map", "returned"}
  /\ tasks \subseteq out
  /\ at \in [Worker -> {"idle", "claim", "made", "prove"}]
  /\ job \in [Worker -> Job \cup {NoJob}]
  /\ \A w \in Worker : at[w] = "idle" <=> job[w] = NoJob
  /\ starts \in [Job -> Nat]
  /\ failed \subseteq Job /\ crashes \in Nat

\* JasperGold is started on a property file at most once, whatever the workers, the
\* further batches on the same directory and the crashes: the file system is the only
\* memory, and a run directory is made before the start.
ProvedAtMostOnce == \A j \in Job : starts[j] <= 1

Held == {job[w] : w \in Worker} \ {NoJob}

\* A job whose run directory exists although nobody works on it and its run did not end.
Stranded == rundir \ (csv \cup failed \cup Held)

\* A batch that returns has obtained a report, or seen JasperGold end without one, for
\* every property file, except for the jobs a crash cut: at most one per worker of the
\* pool and crash.
CrashCostsAtMostNNN ==
  batch = "returned" => Cardinality(out \ (csv \cup failed)) <= NNN * crashes

\* What a crash strands stays stranded: the run directory that keeps a proof from being
\* started twice also keeps a cut one from ever being started again, in every later
\* batch on the directory.
StrandedForGood ==
  [][\A j \in Stranded : j \in Stranded' /\ starts'[j] = starts[j]]_batchVars
=============================================================================
