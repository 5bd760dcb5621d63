---------------------------- MODULE IngestQueue ----------------------------
(***************************************************************************)
(* The asynchronous ingest of artmind: jobs and their file rows in the     *)
(* registry database (jobs.py), the background worker that drains them     *)
(* (worker.py), the flock that keeps workers apart (worker_pid.py), and    *)
(* the commands that submit, retry and repair (cli.py, ingest.py).         *)
(*                                                                         *)
(* Every database call is one step: each opens its own connection and      *)
(* commits before it returns, so other processes run between any two, and  *)
(* the worker may die between any two.  What ingesting a file does to the  *)
(* vault and to the graph is kept only as far as the queue depends on it.  *)
(***************************************************************************)
EXTENDS Naturals, FiniteSets

CONSTANTS
  Workers,         \* worker processes, running or not
  Clients,         \* processes that submit, retry or repair
  Jobs,            \* a set of naturals: the order of queued_at
  Files,           \* the documents
  Batch,           \* Batch[j]: the files of job j
  Domains,
  Domain,          \* Domain[f]: the domain file f is ingested under
  Inodes,          \* inodes the pid file's path may name
  StageOnly,       \* jobs submitted with --stage-only
  Reextract,       \* jobs submitted with --reextract
  Oversized,       \* images docling refuses to convert
  None,
  RetryFrom,       \* the job statuses from which somebody asks for a retry
  Failures,        \* may extraction, commit and rebuild fail?
  DebtMayFail,     \* may the write of what a job owes fail?
  MaxCrashes,      \* bound: how often a worker dies
  MaxRetries,      \* bound: how often a client starts a retry-job
  MaxRepairs       \* bound: how often one runs `projection rebuild --sweep`

ASSUME JobsAssumption == Jobs \subseteq Nat
ASSUME BatchAssumption == Batch \in [Jobs -> SUBSET Files]
ASSUME FilesAssumption == IsFiniteSet(Files)
ASSUME DomainAssumption == Domain \in [Files -> Domains]
ASSUME FlagAssumption == /\ StageOnly \subseteq Jobs /\ Reextract \subseteq Jobs
                         /\ Oversized \subseteq Files
                         /\ RetryFrom \subseteq {"queued", "processing", "completed", "failed"}
                         /\ Failures \in BOOLEAN /\ DebtMayFail \in BOOLEAN
ASSUME NoneAssumption == None \notin Workers \cup Clients \cup Inodes \cup Jobs \cup Files
ASSUME ProcessAssumption == Workers \cap Clients = {}
ASSUME BoundAssumption == MaxCrashes \in Nat /\ MaxRetries \in Nat /\ MaxRepairs \in Nat

VARIABLES
  (* the registry database                                                 *)
  job,       \* ingestion_jobs.status ("none": no such row yet)
  file,      \* ingestion_job_files.status of each file of each job
  count,     \* ingestion_jobs.processed_count
  owed,      \* ingestion_jobs.finalize_domains
  fin,       \* ingestion_jobs.finalize_state
  (* what ingesting leaves behind                                          *)
  staged,    \* files whose present body has a staged extraction
  inGraph,   \* files whose observations are in the graph
  unbuilt,   \* of those, the ones no projection rebuild has covered yet
  (* the pid file                                                          *)
  path,      \* the inode its path names
  lock,      \* the process holding the flock of each inode
  (* each worker: where it is, and its local variables                     *)
  wpc, wfd, wjob, wtodo, wtally, wdefer, wfile, wresult, wleft, werror,
  (* each client                                                           *)
  cpc, cjob, cnames,
  (* how much of each bound is used up                                     *)
  crashes, retries, repairs

registry == <<job, file, count, owed, fin>>
stores == <<staged, inGraph, unbuilt>>
pidfile == <<path, lock>>
wlocal == <<wfd, wjob, wtodo, wtally, wdefer, wfile, wresult, wleft, werror>>
client == <<cpc, cjob, cnames>>
used == <<crashes, retries, repairs>>
vars == <<registry, stores, pidfile, wpc, wlocal, client, used>>

(* Points of the worker at which it is running _process_job on wjob.       *)
Processing == {"next", "plan", "extract", "commit", "owe", "settle", "tally",
               "finalize", "rebuild", "finish"}
(* Points at which it holds the lock.                                      *)
Holding == {"poll", "files", "mark", "leave"} \cup Processing

TypeOK ==
  /\ job \in [Jobs -> {"none", "queued", "processing", "completed", "failed"}]
  /\ file \in [Jobs -> [Files -> {"none", "queued", "processing", "completed", "failed"}]]
  /\ count \in [Jobs -> Nat]
  /\ owed \in [Jobs -> SUBSET Domains]
  /\ fin \in [Jobs -> {"none", "pending", "done", "failed"}]
  /\ staged \subseteq Files /\ inGraph \subseteq Files /\ unbuilt \subseteq inGraph
  /\ path \in Inodes \cup {None}
  /\ lock \in [Inodes -> Workers \cup Clients \cup {None}]
  /\ wpc \in [Workers -> {"off", "open", "lock"} \cup Holding]
  /\ wfd \in [Workers -> Inodes \cup {None}]
  /\ wjob \in [Workers -> Jobs \cup {None}]
  /\ wtodo \in [Workers -> SUBSET Files]
  /\ wtally \in [Workers -> Nat]
  /\ wdefer \in [Workers -> BOOLEAN]
  /\ wfile \in [Workers -> Files \cup {None}]
  /\ wresult \in [Workers -> {"completed", "failed"}]
  /\ wleft \in [Workers -> SUBSET Domains]
  /\ werror \in [Workers -> BOOLEAN]
  /\ cpc \in [Clients -> {"idle", "ensure", "spawn", "probe", "probed", "failed", "stalled",
                       "reset", "resolve"}]
  /\ cjob \in [Clients -> Jobs \cup {None}]
  /\ cnames \in [Clients -> SUBSET Files]
  /\ crashes \in Nat /\ retries \in Nat /\ repairs \in Nat

Init ==
  /\ job = [j \in Jobs |-> "none"]
  /\ file = [j \in Jobs |-> [f \in Files |-> "none"]]
  /\ count = [j \in Jobs |-> 0]
  /\ owed = [j \in Jobs |-> {}]
  /\ fin = [j \in Jobs |-> "none"]
  /\ staged = {} /\ inGraph = {} /\ unbuilt = {}
  /\ path = None
  /\ lock = [i \in Inodes |-> None]
  /\ wpc = [w \in Workers |-> "off"]
  /\ wfd = [w \in Workers |-> None]
  /\ wjob = [w \in Workers |-> None]
  /\ wtodo = [w \in Workers |-> {}]
  /\ wtally = [w \in Workers |-> 0]
  /\ wdefer = [w \in Workers |-> FALSE]
  /\ wfile = [w \in Workers |-> None]
  /\ wresult = [w \in Workers |-> "completed"]
  /\ wleft = [w \in Workers |-> {}]
  /\ werror = [w \in Workers |-> FALSE]
  /\ cpc = [c \in Clients |-> "idle"]
  /\ cjob = [c \in Clients |-> None]
  /\ cnames = [c \in Clients |-> {}]
  /\ crashes = 0 /\ retries = 0 /\ repairs = 0

Goto(w, from, to) == wpc[w] = from /\ wpc' = [wpc EXCEPT ![w] = to]
CGoto(c, from, to) == cpc[c] = from /\ cpc' = [cpc EXCEPT ![c] = to]

FilesOf(j, statuses) == {f \in Files : file[j][f] \in statuses}

-----------------------------------------------------------------------------
(***************************************************************************)
(* The pid file.  A worker opens it ("a+" creates it) and takes its flock; *)
(* whoever asks live_pid takes the flock too, for an instant, and believes *)
(* a worker is alive when it is refused.                                   *)
(***************************************************************************)
NeverAlive == FALSE   \* seeded fault: a probe that misses the lock
LiveWorker == path # None /\ lock[path] # None

(* A probe that is not refused: it holds the lock until Unprobe.           *)
Probe(c) == lock' = IF path = None THEN lock ELSE [lock EXCEPT ![path] = c]
Unprobe(c) == lock' = [i \in Inodes |-> IF lock[i] = c THEN None ELSE lock[i]]

OpenPidFile(w) ==
  /\ Goto(w, "open", "lock")
  /\ IF path = None
     THEN \E i \in {i \in Inodes : lock[i] = None /\ \A v \in Workers : wfd[v] # i} :
            path' = i /\ wfd' = [wfd EXCEPT ![w] = i]
     ELSE wfd' = [wfd EXCEPT ![w] = path] /\ UNCHANGED path
  /\ UNCHANGED <<registry, stores, lock, wjob, wtodo, wtally, wdefer, wfile, wresult,
                 wleft, werror, client, used>>

(* A refused lock is tried again for longer than any probe holds it.       *)
TakeLock(w) ==
  /\ wpc[w] = "lock"
  /\ \/ /\ lock[wfd[w]] = None
        /\ lock' = [lock EXCEPT ![wfd[w]] = w]
        /\ Goto(w, "lock", "poll")
        /\ UNCHANGED wfd
     \/ /\ lock[wfd[w]] \in Workers
        /\ Goto(w, "lock", "off")
        /\ wfd' = [wfd EXCEPT ![w] = None]
        /\ UNCHANGED lock
  /\ UNCHANGED <<registry, stores, path, wjob, wtodo, wtally, wdefer, wfile, wresult,
                 wleft, werror, client, used>>

(* The path after a worker is done with the pid file: left in place.       *)
Unlinking == None   \* seeded fault: the pid file is removed on the way out
PathAfterRelease == path

(* The process is gone: its descriptors are closed, its memory is lost.    *)
Ended(w) ==
  /\ lock' = [i \in Inodes |-> IF lock[i] = w THEN None ELSE lock[i]]
  /\ wfd' = [wfd EXCEPT ![w] = None]
  /\ wjob' = [wjob EXCEPT ![w] = None]
  /\ wtodo' = [wtodo EXCEPT ![w] = {}]
  /\ wtally' = [wtally EXCEPT ![w] = 0]
  /\ wdefer' = [wdefer EXCEPT ![w] = FALSE]
  /\ wfile' = [wfile EXCEPT ![w] = None]
  /\ wresult' = [wresult EXCEPT ![w] = "completed"]
  /\ wleft' = [wleft EXCEPT ![w] = {}]
  /\ werror' = [werror EXCEPT ![w] = FALSE]

(***************************************************************************)
(* The worker's loop.                                                      *)
(***************************************************************************)
NeverRun == {j \in Jobs : job[j] = "queued" /\ count[j] = 0}   \* seeded fault
Queued == {j \in Jobs : job[j] = "queued"}
Oldest(js) == CHOOSE j \in js : \A k \in js : j <= k

Poll(w) ==
  /\ IF Queued = {}
     THEN Goto(w, "poll", "leave") /\ UNCHANGED wjob
     ELSE Goto(w, "poll", "files") /\ wjob' = [wjob EXCEPT ![w] = Oldest(Queued)]
  /\ UNCHANGED <<registry, stores, pidfile, wfd, wtodo, wtally, wdefer, wfile, wresult,
                 wleft, werror, client, used>>

Leave(w) ==
  /\ Goto(w, "leave", "off")
  /\ Ended(w)
  /\ path' = PathAfterRelease
  /\ UNCHANGED <<registry, stores, client, used>>

(* _get_queued_files and _count_processed, before the job is marked.       *)
ReadFiles(w) ==
  /\ Goto(w, "files", "mark")
  /\ wtodo' = [wtodo EXCEPT ![w] = FilesOf(wjob[w], {"queued"})]
  /\ wtally' = [wtally EXCEPT ![w] = count[wjob[w]]]
  /\ UNCHANGED <<registry, stores, pidfile, wfd, wjob, wdefer, wfile, wresult, wleft,
                 werror, client, used>>

(* A job of several files defers its rebuild to one per domain at the end. *)
Defers(j, todo) == Cardinality(todo) > 1 /\ j \notin StageOnly

Mark(w) ==
  /\ Goto(w, "mark", "next")
  /\ job' = [job EXCEPT ![wjob[w]] = "processing"]
  /\ wdefer' = [wdefer EXCEPT ![w] = Defers(wjob[w], wtodo[w])]
  /\ UNCHANGED <<file, count, owed, fin, stores, pidfile, wfd, wjob, wtodo, wtally, wfile,
                 wresult, wleft, werror, client, used>>

NextFile(w) ==
  /\ Goto(w, "next", "plan")
  /\ \E f \in wtodo[w] : /\ wfile' = [wfile EXCEPT ![w] = f]
                         /\ wtodo' = [wtodo EXCEPT ![w] = @ \ {f}]
  /\ UNCHANGED <<registry, stores, pidfile, wfd, wjob, wtally, wdefer, wresult, wleft,
                 werror, client, used>>

NoMoreFiles(w) ==
  /\ Goto(w, "next", "finalize")
  /\ wtodo[w] = {}
  /\ UNCHANGED <<registry, stores, pidfile, wlocal, client, used>>

(***************************************************************************)
(* One file.  plan_vault_native reads the staged extraction as the         *)
(* baseline: a body it already covers takes the metadata_only (a binary,   *)
(* the no_op) tier, for which ingest_to_kg returns at once.                *)
(***************************************************************************)
StagedAtAll(j, f) == f \in staged   \* seeded fault: --reextract does not reach the plan
AlreadyStaged(j, f) == f \in staged /\ j \notin Reextract

(* The value kg_ok or an error gives the file's row, once settled.         *)
Outcome(w, s) == wresult' = [wresult EXCEPT ![w] = s]

Plan(w) ==
  LET j == wjob[w]  f == wfile[w] IN
  /\ wpc[w] = "plan"
  /\ \/ /\ Failures    \* a note that cannot be planned: its row stays queued
        /\ Goto(w, "plan", "settle") /\ Outcome(w, "failed") /\ UNCHANGED file
     \/ /\ file' = [file EXCEPT ![j][f] = "processing"]
        /\ IF f \in Oversized
           THEN Goto(w, "plan", "tally") /\ UNCHANGED wresult
           ELSE IF AlreadyStaged(j, f)
           THEN Goto(w, "plan", "settle") /\ Outcome(w, "completed")
           ELSE Goto(w, "plan", "extract") /\ UNCHANGED wresult
  /\ UNCHANGED <<job, count, owed, fin, stores, pidfile, wfd, wjob, wtodo, wtally, wdefer,
                 wfile, wleft, werror, client, used>>

Extract(w) ==
  /\ wpc[w] = "extract"
  /\ \/ /\ Failures
        /\ Goto(w, "extract", "settle") /\ Outcome(w, "failed") /\ UNCHANGED staged
     \/ /\ staged' = staged \cup {wfile[w]}
        /\ IF wjob[w] \in StageOnly
           THEN Goto(w, "extract", "settle") /\ Outcome(w, "completed")
           ELSE Goto(w, "extract", "commit") /\ UNCHANGED wresult
  /\ UNCHANGED <<registry, inGraph, unbuilt, pidfile, wfd, wjob, wtodo, wtally, wdefer,
                 wfile, wleft, werror, client, used>>

(* commit_to_graph: one transaction, which rebuilds what the file touched  *)
(* unless the job defers that.                                             *)
Commit(w) ==
  /\ wpc[w] = "commit"
  /\ \/ /\ Failures
        /\ Goto(w, "commit", "settle") /\ Outcome(w, "failed")
        /\ UNCHANGED <<inGraph, unbuilt>>
     \/ /\ inGraph' = inGraph \cup {wfile[w]}
        /\ Outcome(w, "completed")
        /\ IF wdefer[w]
           THEN unbuilt' = unbuilt \cup {wfile[w]} /\ Goto(w, "commit", "owe")
           ELSE unbuilt' = unbuilt \ {wfile[w]} /\ Goto(w, "commit", "settle")
  /\ UNCHANGED <<registry, staged, pidfile, wfd, wjob, wtodo, wtally, wdefer, wfile,
                 wleft, werror, client, used>>

(* _add_finalize_domain, with the file's own domain, not the batch's.  An  *)
(* error of the registry there (locked, disk full) fails the file, which   *)
(* is committed by then: the worker lives on and the debt is lost.         *)
SomeDomain(w) == Domain[CHOOSE f \in Batch[wjob[w]] : TRUE]   \* seeded fault
OwedDomain(w) == Domain[wfile[w]]

Owe(w) ==
  /\ Goto(w, "owe", "settle")
  /\ \/ /\ owed' = [owed EXCEPT ![wjob[w]] = @ \cup {OwedDomain(w)}]
        /\ fin' = [fin EXCEPT ![wjob[w]] = "pending"]
        /\ UNCHANGED wresult
     \/ /\ DebtMayFail
        /\ Outcome(w, "failed") /\ UNCHANGED <<owed, fin>>
  /\ UNCHANGED <<job, file, count, stores, pidfile, wfd, wjob, wtodo, wtally, wdefer,
                 wfile, wleft, werror, client, used>>

Settle(w) ==
  /\ Goto(w, "settle", "tally")
  /\ file' = [file EXCEPT ![wjob[w]][wfile[w]] = wresult[w]]
  /\ UNCHANGED <<job, count, owed, fin, stores, pidfile, wlocal, client, used>>

Tally(w) ==
  /\ Goto(w, "tally", "next")
  /\ wtally' = [wtally EXCEPT ![w] = @ + 1]
  /\ count' = [count EXCEPT ![wjob[w]] = wtally[w] + 1]
  /\ UNCHANGED <<job, file, owed, fin, stores, pidfile, wfd, wjob, wtodo, wdefer, wfile,
                 wresult, wleft, werror, client, used>>

(***************************************************************************)
(* _finalize_job, then the job's own status.                               *)
(***************************************************************************)
Finalize(w) ==
  LET j == wjob[w] IN
  /\ wpc[w] = "finalize"
  /\ IF owed[j] # {} /\ fin[j] \in {"pending", "failed"}
     THEN /\ Goto(w, "finalize", "rebuild")
          /\ fin' = [fin EXCEPT ![j] = "pending"]
          /\ wleft' = [wleft EXCEPT ![w] = owed[j]]
          /\ werror' = [werror EXCEPT ![w] = FALSE]
     ELSE Goto(w, "finalize", "finish") /\ UNCHANGED <<fin, wleft, werror>>
  /\ UNCHANGED <<job, file, count, owed, stores, pidfile, wfd, wjob, wtodo, wtally, wdefer,
                 wfile, wresult, client, used>>

(* rebuild_projection of one domain, in full.                              *)
Rebuild(w, d) ==
  /\ wpc[w] = "rebuild" /\ d \in wleft[w]
  /\ wleft' = [wleft EXCEPT ![w] = @ \ {d}]
  /\ \/ unbuilt' = {f \in unbuilt : Domain[f] # d} /\ UNCHANGED werror
     \/ Failures /\ werror' = [werror EXCEPT ![w] = TRUE] /\ UNCHANGED unbuilt
  /\ UNCHANGED <<registry, staged, inGraph, pidfile, wpc, wfd, wjob, wtodo, wtally, wdefer,
                 wfile, wresult, client, used>>

AlwaysDone(w) == "done"   \* seeded fault: a skipped sweep is no failure
FinalState(w) == IF werror[w] THEN "failed" ELSE "done"

Finalized(w) ==
  /\ Goto(w, "rebuild", "finish") /\ wleft[w] = {}
  /\ fin' = [fin EXCEPT ![wjob[w]] = FinalState(w)]
  /\ UNCHANGED <<job, file, count, owed, stores, pidfile, wlocal, client, used>>

FinalStatus(j) == IF FilesOf(j, {"failed"}) # {} THEN "failed" ELSE "completed"

Finish(w) ==
  /\ Goto(w, "finish", "poll")
  /\ job' = [job EXCEPT ![wjob[w]] = FinalStatus(wjob[w])]
  /\ UNCHANGED <<file, count, owed, fin, stores, pidfile, wlocal, client, used>>

(* The worker is killed, or an exception of the database ends it.          *)
Crash(w) ==
  /\ wpc[w] # "off" /\ crashes < MaxCrashes
  /\ wpc' = [wpc EXCEPT ![w] = "off"]
  /\ Ended(w)
  /\ crashes' = crashes + 1
  /\ UNCHANGED <<registry, stores, path, client, retries, repairs>>

(***************************************************************************)
(* Clients: ingest async, ingest retry-job, projection rebuild --sweep.    *)
(***************************************************************************)
Submit(c, j) ==
  /\ CGoto(c, "idle", "ensure")
  /\ job[j] = "none" /\ \A k \in Jobs : k < j => job[k] # "none"
  /\ job' = [job EXCEPT ![j] = "queued"]
  /\ file' = [file EXCEPT ![j] = [f \in Files |-> IF f \in Batch[j] THEN "queued" ELSE "none"]]
  /\ UNCHANGED <<count, owed, fin, stores, pidfile, wpc, wlocal, cjob, cnames, used>>

EnsureWorkerRunning(c) ==
  /\ IF LiveWorker
     THEN CGoto(c, "ensure", "idle") /\ UNCHANGED lock
     ELSE CGoto(c, "ensure", "spawn") /\ Probe(c)
  /\ UNCHANGED <<registry, stores, path, wpc, wlocal, cjob, cnames, used>>

Spawn(c) ==
  /\ CGoto(c, "spawn", "idle")
  /\ Unprobe(c)
  /\ \E w \in Workers : Goto(w, "off", "open")
  /\ UNCHANGED <<registry, stores, path, wlocal, cjob, cnames, used>>

(* _retry_job reads the job's status, probes the worker only for a job     *)
(* marked processing, and then selects the rows it will reset.             *)
RetryRead(c, j) ==
  /\ retries < MaxRetries /\ retries' = retries + 1
  /\ job[j] \in RetryFrom
  /\ CGoto(c, "idle", IF job[j] = "processing" THEN "probe" ELSE "failed")
  /\ cjob' = [cjob EXCEPT ![c] = j]
  /\ UNCHANGED <<registry, stores, pidfile, wpc, wlocal, cnames, crashes, repairs>>

RetryProbe(c) ==
  /\ IF LiveWorker
     THEN CGoto(c, "probe", "idle") /\ UNCHANGED lock   \* "still running": refused
     ELSE CGoto(c, "probe", "probed") /\ Probe(c)
  /\ UNCHANGED <<registry, stores, path, wpc, wlocal, cjob, cnames, used>>

RetryStalled(c) ==
  /\ CGoto(c, "probed", "stalled")
  /\ Unprobe(c)
  /\ UNCHANGED <<registry, stores, path, wpc, wlocal, cjob, cnames, used>>

OnlyFailed(j, stalled) == FilesOf(j, {"failed"})   \* seeded fault
ToReset(j, stalled) == FilesOf(j, {"failed"} \cup IF stalled THEN {"processing"} ELSE {})

SelectRows(c) ==
  LET stalled == cpc[c] = "stalled"
      names == ToReset(cjob[c], stalled) IN
  /\ cpc[c] \in {"failed", "stalled"}
  /\ CGoto(c, cpc[c], IF names = {} /\ ~stalled THEN "idle" ELSE "reset")
  /\ cnames' = [cnames EXCEPT ![c] = names]
  /\ UNCHANGED <<registry, stores, pidfile, wpc, wlocal, cjob, used>>

Requeued(j, names) == [f \in Files |-> IF f \in names THEN "queued" ELSE file[j][f]]

(* processed_count after a retry: what stays done and is not re-queued.    *)
FromZero(rows) == 0   \* seeded fault: the count restarts with the job
DoneCount(rows) == Cardinality({f \in Files : rows[f] = "completed"})

RetryReset(c) ==
  LET j == cjob[c] IN
  /\ CGoto(c, "reset", "ensure")
  /\ file' = [file EXCEPT ![j] = Requeued(j, cnames[c])]
  /\ count' = [count EXCEPT ![j] = DoneCount(Requeued(j, cnames[c]))]
  /\ job' = [job EXCEPT ![j] = "queued"]
  /\ UNCHANGED <<owed, fin, stores, pidfile, wpc, wlocal, cjob, cnames, used>>

(* rebuild_and_sweep_all: a full rebuild of every domain, then, when no    *)
(* sweep failed, _resolve_failed_finalizes.                                *)
Repair(c) ==
  /\ repairs < MaxRepairs /\ repairs' = repairs + 1
  /\ unbuilt' = {}
  /\ CGoto(c, "idle", "resolve")
  /\ UNCHANGED <<registry, staged, inGraph, pidfile, wpc, wlocal, cjob, cnames, crashes,
                 retries>>

Resolve(c) ==
  /\ CGoto(c, "resolve", "idle")
  /\ fin' = [j \in Jobs |-> IF fin[j] = "failed" THEN "done" ELSE fin[j]]
  /\ UNCHANGED <<job, file, count, owed, stores, pidfile, wpc, wlocal, cjob, cnames, used>>

-----------------------------------------------------------------------------
Step(w) ==   \* what the worker does of its own accord
  \/ OpenPidFile(w) \/ TakeLock(w) \/ Poll(w) \/ Leave(w)
  \/ ReadFiles(w) \/ Mark(w) \/ NextFile(w) \/ NoMoreFiles(w)
  \/ Plan(w) \/ Extract(w) \/ Commit(w) \/ Owe(w) \/ Settle(w) \/ Tally(w)
  \/ Finalize(w) \/ (\E d \in Domains : Rebuild(w, d)) \/ Finalized(w) \/ Finish(w)

Begin(c) ==  \* a command somebody gives
  \/ \E j \in Jobs : Submit(c, j) \/ RetryRead(c, j)
  \/ Repair(c)

Continue(c) ==   \* the rest of a command already given
  \/ EnsureWorkerRunning(c) \/ Spawn(c)
  \/ RetryProbe(c) \/ RetryStalled(c) \/ SelectRows(c) \/ RetryReset(c)
  \/ Resolve(c)

Next ==
  \/ \E w \in Workers : Step(w) \/ Crash(w)
  \/ \E c \in Clients : Begin(c) \/ Continue(c)

(* A process that is running keeps running; nobody has to give a command.  *)
Fairness ==
  /\ \A w \in Workers : WF_vars(Step(w))
  /\ \A c \in Clients : WF_vars(Continue(c))

Spec == Init /\ [][Next]_vars
FairSpec == Spec /\ Fairness

-----------------------------------------------------------------------------
(***************************************************************************)
(* Properties.                                                             *)
(***************************************************************************)

(* worker.py:77-86, _release_pid_file.  At most one worker is past the     *)
(* lock, whichever inode it holds and however many were spawned.           *)
OneWorker ==
  \A v, w \in Workers : wpc[v] \in Holding /\ wpc[w] \in Holding => v = w

Finished(j) == job[j] \in {"completed", "failed"}

(* jobs.py:684-695, worker.py:303-304.  The processed_count of a finished  *)
(* job is the number of its files, after any crashes, retries and partial  *)
(* runs: no file is counted twice and none is forgotten.                   *)
CountMatches == \A j \in Jobs : Finished(j) => count[j] = Cardinality(Batch[j])

(* worker.py:211-311, jobs.py:627-628.  A finished job has settled every   *)
(* one of its files, those a worker died on and those a retry reset.       *)
NoFileLeftBehind ==
  \A j \in Jobs : Finished(j) =>
    \A f \in Batch[j] : file[j][f] \in {"completed", "failed"}

(* jobs.py:629-630, _retry_job.  A live worker's job is never reset under  *)
(* it: no row returns to queued while a worker is processing its job.      *)
(* Holds while one client retries, and not a job still queued (RetryFrom): *)
(* for that status jobs.py:641 does not ask whether a worker is alive, and *)
(* one may have claimed the job by the time its rows are reset.            *)
RetryNeverRacesWorker ==
  [][\A j \in Jobs, w \in Workers : wpc[w] \in Processing /\ wjob[w] = j =>
       /\ job'[j] # "queued"
       /\ \A f \in Files : file'[j][f] = "queued" => file[j][f] = "queued"]_vars

(* A job on which the deferred rebuild of domain d is still recorded.      *)
Owing(d) == \E j \in Jobs : d \in owed[j] /\ fin[j] \in {"pending", "failed"}

(* worker.py:176-184, jobs.py:195-198.  Observations committed without     *)
(* their rebuild are owed on the row of some job, or are about to be.      *)
(* Not so when the worker dies in between (MaxCrashes), or the write of    *)
(* the debt fails (DebtMayFail): see CompletedIsRebuilt.                   *)
OwedOrAboutToBe ==
  \A f \in unbuilt : \/ Owing(Domain[f])
                     \/ \E w \in Workers : wpc[w] = "owe" /\ wfile[w] = f

(* worker.py:128-158, _finalize_job.  When a job's finalize is done, no    *)
(* file of any domain it owed is left without a rebuild, whichever run of  *)
(* whichever job committed that file.                                      *)
DoneMeansRebuilt ==
  [][\A j \in Jobs : fin[j] # "done" /\ fin'[j] = "done" =>
       \A f \in unbuilt : Domain[f] \notin owed[j]]_vars

(* worker.py:315-334.  A worker that is polling takes every job it finds   *)
(* queued to its end before it leaves, whatever fails on the way.          *)
QueueDrains ==
  \A j \in Jobs :
    (job[j] = "queued" /\ \E w \in Workers : wpc[w] = "poll") ~> Finished(j)

(* cli.py:1303, _submit_job: "Create the job, make sure a worker runs it". *)
SubmittedJobRuns == \A j \in Jobs : job[j] = "queued" ~> job[j] # "queued"

(* worker.py:181-183: "What the job owes is persisted on its row           *)
(* (`_add_finalize_domain`), not kept in this run, so a retried job with 0 *)
(* queued files still finishes it (`_finalize_job`)."                      *)
CompletedIsRebuilt ==
  \A j \in Jobs : job[j] = "completed" =>
    \A f \in Batch[j] \cap unbuilt :
      \/ Owing(Domain[f])
      \/ \E w \in Workers : wpc[w] = "owe" /\ wfile[w] = f

(* cli.py:1446, retry-job: "Re-queue failed files in a job for             *)
(* reprocessing".  A completed file of a job that commits is in the graph. *)
CompletedIsInGraph ==
  \A j \in Jobs \ StageOnly, f \in Files : file[j][f] = "completed" => f \in inGraph

-----------------------------------------------------------------------------
(***************************************************************************)
(* The inductive invariant behind OneWorker, DoneMeansRebuilt and          *)
(* OwedOrAboutToBe.                                                        *)
(***************************************************************************)

(* The path never leaves its first inode, so all the locks are on it, and  *)
(* a worker past TakeLock has it.                                          *)
Locked ==
  /\ \A i \in Inodes : lock[i] # None => i = path
  /\ \A w \in Workers :
       /\ wpc[w] = "lock" => path # None /\ wfd[w] = path
       /\ wpc[w] \in Holding => path # None /\ lock[path] = w

(* What a running finalize has rebuilt so far stays built.                 *)
Rebuilding ==
  \A w \in Workers : wpc[w] = "rebuild" /\ ~werror[w] =>
    \A f \in unbuilt : Domain[f] \in owed[wjob[w]] => Domain[f] \in wleft[w]

(* A worker processing a job knows which, and which file; so does a retry. *)
Knows ==
  /\ \A w \in Workers :
       /\ wpc[w] \in {"files", "mark"} \cup Processing => wjob[w] # None
       /\ wpc[w] \in {"plan", "extract", "commit", "owe", "settle"} => wfile[w] # None
  /\ \A c \in Clients :
       cpc[c] \in {"probe", "probed", "failed", "stalled", "reset"} => cjob[c] # None

IInv == TypeOK /\ Locked /\ Knows /\ Rebuilding
=============================================================================
