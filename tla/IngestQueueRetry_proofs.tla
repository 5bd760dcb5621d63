------------------------ MODULE IngestQueueRetry_proofs ------------------------
(***************************************************************************)
(* Theorems about IngestQueue where one client retries at a time, nobody   *)
(* retries a job that is still queued, and no file is one docling refuses, *)
(* for any workers, jobs, files and batches and any bounds on crashes and  *)
(* retries: the count of a finished job, that it leaves no file behind,    *)
(* and that a retry never resets a job under its worker.                   *)
(*                                                                         *)
(* The invariant follows a job through the hands of the one worker that    *)
(* may have it and of the one retry that may reset it.                     *)
(***************************************************************************)
EXTENDS IngestQueue_proofs

(* Points at which a worker is at a file it has taken from its list.       *)
InFile == {"plan", "extract", "commit", "owe", "settle", "tally"}

(* A worker has a job from the poll that finds it to its finish.           *)
Has(w, j) == wpc[w] \in {"files", "mark"} \cup Processing /\ wjob[w] = j

(* The job's own status says how far its worker is.                        *)
Taken ==
  \A w \in Workers :
    /\ wpc[w] \in {"files", "mark"} => job[wjob[w]] = "queued"
    /\ wpc[w] \in Processing => job[wjob[w]] = "processing"

(* A retry past its probe is of a job that no worker has.                  *)
Retrying ==
  \A c \in Clients :
    /\ cpc[c] \in {"probe", "probed", "failed", "stalled", "reset"} =>
         job[cjob[c]] \in {"processing", "completed", "failed"}
    /\ cpc[c] = "failed" => job[cjob[c]] # "processing"
    /\ cpc[c] \in {"probed", "failed", "stalled", "reset"} =>
         \A w \in Workers : ~Has(w, cjob[c])

(* A job that has been submitted has a row for each file of its batch.     *)
Listed == \A j \in Jobs, f \in Files :
            file[j][f] # "none" <=> f \in Batch[j] /\ job[j] # "none"

(* What a worker has on its list is queued, what it has left behind it is  *)
(* settled.                                                                *)
WorkingOn(w) ==
  /\ wpc[w] \in {"mark"} \cup Processing =>
       /\ wtodo[w] \subseteq Batch[wjob[w]]
       /\ \A f \in wtodo[w] : file[wjob[w]][f] = "queued"
       /\ \A f \in Batch[wjob[w]] \ wtodo[w] :
            \/ wpc[w] \in InFile /\ f = wfile[w]
            \/ file[wjob[w]][f] \in {"completed", "failed"}
  /\ wpc[w] \in InFile => wfile[w] \in Batch[wjob[w]] \ wtodo[w]
  /\ wpc[w] = "tally" => file[wjob[w]][wfile[w]] \in {"completed", "failed"}
  /\ wpc[w] \in {"finalize", "rebuild", "finish"} => wtodo[w] = {}

Working == \A w \in Workers : WorkingOn(w)

(* ... and is counted.                                                     *)
TallyOf(w) ==
  wpc[w] \in {"mark"} \cup Processing =>
    /\ count[wjob[w]] = wtally[w]
    /\ wtally[w] + Cardinality(wtodo[w]) + (IF wpc[w] \in InFile THEN 1 ELSE 0)
         = Cardinality(Batch[wjob[w]])

Tallied == \A w \in Workers : TallyOf(w)

(* What has not been submitted has nothing counted.                        *)
Unused == \A j \in Jobs : job[j] = "none" => count[j] = 0

(* A queued job has nothing but queued and completed files, the latter     *)
(* counted.                                                                *)
Ready ==
  \A j \in Jobs : job[j] = "queued" =>
    /\ \A f \in Batch[j] : file[j][f] \in {"queued", "completed"}
    /\ count[j] = DoneCount(file[j])

(* A retry has selected every row that is neither completed nor queued.    *)
Selected ==
  \A c \in Clients : cpc[c] = "reset" =>
    \A f \in Files :
      /\ f \in cnames[c] => file[cjob[c]][f] \in {"failed", "processing"}
      /\ f \in Batch[cjob[c]] \ cnames[c] => file[cjob[c]][f] \in {"queued", "completed"}

Course == Taken /\ Retrying
Counts == /\ Unused /\ Listed /\ Working /\ Tallied /\ Ready /\ Selected
          /\ CountMatches /\ NoFileLeftBehind

-----------------------------------------------------------------------------
(* One client, which never retries a job that is still queued.             *)
OneRetry == (\A c, d \in Clients : c = d) /\ "queued" \notin RetryFrom

(* What a worker polls is one of the queued jobs.                          *)
LEMMA Found == ASSUME Queued # {} PROVE Oldest(Queued) \in Queued
  <1>1. Queued \in SUBSET Jobs
    BY DEF Queued
  <1>2. QED
    BY <1>1, OldestIsOne

(* Setting one row of one job leaves the others as they are.               *)
LEMMA OneRow ==
    ASSUME NEW S, NEW T, NEW V, NEW g \in [S -> [T -> V]], NEW a \in S, NEW b \in T, NEW v,
           NEW h, h = [g EXCEPT ![a][b] = v], NEW s \in S, NEW t \in T
    PROVE  h[s][t] = IF s = a /\ t = b THEN v ELSE g[s][t]
  OBVIOUS

(* A job is marked by the worker that has it, and put back in the queue    *)
(* only by a retry of a job no worker has.                                 *)
LEMMA TakenStep ==
    ASSUME TypeOK, Knows, OneWorker, Taken, Retrying, [Next]_vars
    PROVE  Taken'
  <1> USE DEF Goto, CGoto, registry, stores, pidfile, client, used, Processing, TypeOK,
      Knows, Taken, Has, Holding, OneWorker
  <1>1. ASSUME NEW w \in Workers, OpenPidFile(w) PROVE Taken'
    BY <1>1 DEF OpenPidFile
  <1>2. ASSUME NEW w \in Workers, TakeLock(w) PROVE Taken'
    BY <1>2 DEF TakeLock
  <1>3. ASSUME NEW w \in Workers, Poll(w) PROVE Taken'
    <2>1. \/ wjob' = wjob /\ wpc' = [wpc EXCEPT ![w] = "leave"]
          \/ \E j \in Queued : wjob' = [wjob EXCEPT ![w] = j] /\ wpc' = [wpc EXCEPT ![w] = "files"]
      BY <1>3, Found DEF Poll
    <2>2. QED
      BY <1>3, <2>1 DEF Poll, Queued
  <1>4. ASSUME NEW w \in Workers, Leave(w) PROVE Taken'
    BY <1>4 DEF Leave, Ended, PathAfterRelease
  <1>5. ASSUME NEW w \in Workers, ReadFiles(w) PROVE Taken'
    BY <1>5 DEF ReadFiles, FilesOf
  <1>6. ASSUME NEW w \in Workers, Mark(w) PROVE Taken'
    BY <1>6 DEF Mark, Defers
  <1>7. ASSUME NEW w \in Workers, NextFile(w) PROVE Taken'
    BY <1>7 DEF NextFile
  <1>8. ASSUME NEW w \in Workers, NoMoreFiles(w) PROVE Taken'
    BY <1>8 DEF NoMoreFiles, wlocal
  <1>9. ASSUME NEW w \in Workers, Plan(w) PROVE Taken'
    BY <1>9 DEF Plan, Outcome
  <1>10. ASSUME NEW w \in Workers, Extract(w) PROVE Taken'
    BY <1>10 DEF Extract, Outcome
  <1>11. ASSUME NEW w \in Workers, Commit(w) PROVE Taken'
    BY <1>11 DEF Commit, Outcome
  <1>12. ASSUME NEW w \in Workers, Owe(w) PROVE Taken'
    BY <1>12 DEF Owe, OwedDomain, Outcome, wlocal
  <1>13. ASSUME NEW w \in Workers, Settle(w) PROVE Taken'
    BY <1>13 DEF Settle, wlocal
  <1>14. ASSUME NEW w \in Workers, Tally(w) PROVE Taken'
    BY <1>14 DEF Tally
  <1>15. ASSUME NEW w \in Workers, Finalize(w) PROVE Taken'
    BY <1>15 DEF Finalize
  <1>16. ASSUME NEW w \in Workers, Finalized(w) PROVE Taken'
    BY <1>16 DEF Finalized, FinalState, wlocal
  <1>17. ASSUME NEW w \in Workers, Finish(w) PROVE Taken'
    BY <1>17 DEF Finish, FinalStatus, wlocal
  <1>18. ASSUME NEW w \in Workers, Crash(w) PROVE Taken'
    BY <1>18 DEF Crash, Ended
  <1>19. ASSUME NEW w \in Workers, NEW d \in Domains, Rebuild(w, d) PROVE Taken'
    BY <1>19 DEF Rebuild
  <1>20. ASSUME NEW c \in Clients, NEW j \in Jobs, Submit(c, j) PROVE Taken'
    BY <1>20 DEF Submit, wlocal
  <1>21. ASSUME NEW c \in Clients, NEW j \in Jobs, RetryRead(c, j) PROVE Taken'
    BY <1>21 DEF RetryRead, wlocal
  <1>22. ASSUME NEW c \in Clients, EnsureWorkerRunning(c) PROVE Taken'
    BY <1>22 DEF EnsureWorkerRunning, Probe, LiveWorker, wlocal
  <1>23. ASSUME NEW c \in Clients, Spawn(c) PROVE Taken'
    BY <1>23 DEF Spawn, Unprobe, wlocal
  <1>24. ASSUME NEW c \in Clients, RetryProbe(c) PROVE Taken'
    BY <1>24 DEF RetryProbe, Probe, LiveWorker, wlocal
  <1>25. ASSUME NEW c \in Clients, RetryStalled(c) PROVE Taken'
    BY <1>25 DEF RetryStalled, Unprobe, wlocal
  <1>26. ASSUME NEW c \in Clients, SelectRows(c) PROVE Taken'
    BY <1>26 DEF SelectRows, ToReset, FilesOf, wlocal
  <1>27. ASSUME NEW c \in Clients, RetryReset(c) PROVE Taken'
    <2>1. /\ job' = [job EXCEPT ![cjob[c]] = "queued"]
          /\ \A w \in Workers : ~Has(w, cjob[c])
          /\ UNCHANGED <<wpc, wjob>>
      BY <1>27 DEF RetryReset, Retrying, wlocal
    <2>2. QED
      BY <2>1
  <1>28. ASSUME NEW c \in Clients, Repair(c) PROVE Taken'
    BY <1>28 DEF Repair, wlocal
  <1>29. ASSUME NEW c \in Clients, Resolve(c) PROVE Taken'
    BY <1>29 DEF Resolve, wlocal
  <1>30. CASE UNCHANGED vars
    BY <1>30 DEF vars, wlocal
  <1>31. QED
    BY <1>1, <1>2, <1>3, <1>4, <1>5, <1>6, <1>7, <1>8, <1>9, <1>10, <1>11,
       <1>12, <1>13, <1>14, <1>15, <1>16, <1>17, <1>18, <1>19, <1>20, <1>21,
       <1>22, <1>23, <1>24, <1>25, <1>26, <1>27, <1>28, <1>29, <1>30
    DEF Next, Step, Begin, Continue

(* A retry that is not refused finds no worker holding the lock, and no    *)
(* worker takes the job before it is queued again.                         *)
LEMMA RetryingStep ==
    ASSUME OneRetry, TypeOK, Knows, Locked, OneWorker, Taken, Retrying, [Next]_vars
    PROVE  Retrying'
  <1> USE DEF Goto, CGoto, registry, stores, pidfile, client, used, Processing, TypeOK,
      Knows, OneRetry, Retrying, Has
  <1>1. ASSUME NEW w \in Workers, OpenPidFile(w) PROVE Retrying'
    BY <1>1 DEF OpenPidFile
  <1>2. ASSUME NEW w \in Workers, TakeLock(w) PROVE Retrying'
    BY <1>2 DEF TakeLock
  <1>3. ASSUME NEW w \in Workers, Poll(w) PROVE Retrying'
    <2>1. \/ wjob' = wjob /\ wpc' = [wpc EXCEPT ![w] = "leave"]
          \/ \E j \in Queued : wjob' = [wjob EXCEPT ![w] = j] /\ wpc' = [wpc EXCEPT ![w] = "files"]
      BY <1>3, Found DEF Poll
    <2>2. QED
      BY <1>3, <2>1 DEF Poll, Queued
  <1>4. ASSUME NEW w \in Workers, Leave(w) PROVE Retrying'
    BY <1>4 DEF Leave, Ended, PathAfterRelease
  <1>5. ASSUME NEW w \in Workers, ReadFiles(w) PROVE Retrying'
    BY <1>5 DEF ReadFiles, FilesOf
  <1>6. ASSUME NEW w \in Workers, Mark(w) PROVE Retrying'
    BY <1>6 DEF Mark, Defers
  <1>7. ASSUME NEW w \in Workers, NextFile(w) PROVE Retrying'
    BY <1>7 DEF NextFile
  <1>8. ASSUME NEW w \in Workers, NoMoreFiles(w) PROVE Retrying'
    BY <1>8 DEF NoMoreFiles, wlocal
  <1>9. ASSUME NEW w \in Workers, Plan(w) PROVE Retrying'
    BY <1>9 DEF Plan, Outcome
  <1>10. ASSUME NEW w \in Workers, Extract(w) PROVE Retrying'
    BY <1>10 DEF Extract, Outcome
  <1>11. ASSUME NEW w \in Workers, Commit(w) PROVE Retrying'
    BY <1>11 DEF Commit, Outcome
  <1>12. ASSUME NEW w \in Workers, Owe(w) PROVE Retrying'
    BY <1>12 DEF Owe, OwedDomain, Outcome, wlocal
  <1>13. ASSUME NEW w \in Workers, Settle(w) PROVE Retrying'
    BY <1>13 DEF Settle, wlocal
  <1>14. ASSUME NEW w \in Workers, Tally(w) PROVE Retrying'
    BY <1>14 DEF Tally
  <1>15. ASSUME NEW w \in Workers, Finalize(w) PROVE Retrying'
    BY <1>15 DEF Finalize
  <1>16. ASSUME NEW w \in Workers, Finalized(w) PROVE Retrying'
    BY <1>16 DEF Finalized, FinalState, wlocal
  <1>17. ASSUME NEW w \in Workers, Finish(w) PROVE Retrying'
    BY <1>17 DEF Finish, FinalStatus, wlocal
  <1>18. ASSUME NEW w \in Workers, Crash(w) PROVE Retrying'
    BY <1>18 DEF Crash, Ended
  <1>19. ASSUME NEW w \in Workers, NEW d \in Domains, Rebuild(w, d) PROVE Retrying'
    BY <1>19 DEF Rebuild
  <1>20. ASSUME NEW c \in Clients, NEW j \in Jobs, Submit(c, j) PROVE Retrying'
    BY <1>20 DEF Submit, wlocal
  <1>21. ASSUME NEW c \in Clients, NEW j \in Jobs, RetryRead(c, j) PROVE Retrying'
    <2>1. /\ job[j] \in {"processing", "completed", "failed"}
          /\ cpc' = [cpc EXCEPT ![c] = IF job[j] = "processing" THEN "probe" ELSE "failed"]
          /\ cjob' = [cjob EXCEPT ![c] = j]
          /\ UNCHANGED <<job, wpc, wjob>>
      BY <1>21, FlagAssumption DEF RetryRead, wlocal
    <2>2. job[j] # "processing" => \A w \in Workers : ~Has(w, j)
      BY <2>1 DEF Taken
    <2>3. QED
      BY <2>1, <2>2
  <1>22. ASSUME NEW c \in Clients, EnsureWorkerRunning(c) PROVE Retrying'
    BY <1>22 DEF EnsureWorkerRunning, Probe, LiveWorker, wlocal
  <1>23. ASSUME NEW c \in Clients, Spawn(c) PROVE Retrying'
    BY <1>23 DEF Spawn, Unprobe, wlocal
  <1>24. ASSUME NEW c \in Clients, RetryProbe(c) PROVE Retrying'
    <2>1. /\ UNCHANGED <<job, wpc, wjob, cjob>>
          /\ \/ cpc' = [cpc EXCEPT ![c] = "idle"]
             \/ cpc[c] = "probe" /\ cpc' = [cpc EXCEPT ![c] = "probed"] /\ ~LiveWorker
      BY <1>24 DEF RetryProbe, wlocal
    <2>2. ~LiveWorker => \A w \in Workers : wpc[w] \notin Holding
      BY NoneAssumption DEF LiveWorker, Locked
    <2>3. QED
      BY <2>1, <2>2 DEF Holding
  <1>25. ASSUME NEW c \in Clients, RetryStalled(c) PROVE Retrying'
    BY <1>25 DEF RetryStalled, Unprobe, wlocal
  <1>26. ASSUME NEW c \in Clients, SelectRows(c) PROVE Retrying'
    BY <1>26 DEF SelectRows, ToReset, FilesOf, wlocal
  <1>27. ASSUME NEW c \in Clients, RetryReset(c) PROVE Retrying'
    BY <1>27 DEF RetryReset, Requeued, wlocal
  <1>28. ASSUME NEW c \in Clients, Repair(c) PROVE Retrying'
    BY <1>28 DEF Repair, wlocal
  <1>29. ASSUME NEW c \in Clients, Resolve(c) PROVE Retrying'
    BY <1>29 DEF Resolve, wlocal
  <1>30. CASE UNCHANGED vars
    BY <1>30 DEF vars, wlocal
  <1>31. QED
    BY <1>1, <1>2, <1>3, <1>4, <1>5, <1>6, <1>7, <1>8, <1>9, <1>10, <1>11,
       <1>12, <1>13, <1>14, <1>15, <1>16, <1>17, <1>18, <1>19, <1>20, <1>21,
       <1>22, <1>23, <1>24, <1>25, <1>26, <1>27, <1>28, <1>29, <1>30
    DEF Next, Step, Begin, Continue

-----------------------------------------------------------------------------
(* Where every job is and who has it.                                      *)
LEMMA AlwaysCourse == ASSUME OneRetry PROVE Spec => [](IInv /\ Course)
  <1>1. Init => Course
    BY DEF Init, Course, Taken, Retrying, Processing
  <1>2. IInv /\ Course /\ [Next]_vars => Course'
    BY OneAtATime, TakenStep, RetryingStep DEF IInv, Course
  <1>3. QED
    BY <1>1, <1>2, AlwaysIInv, PTL DEF Spec

NoRace ==
  \A j \in Jobs, w \in Workers : wpc[w] \in Processing /\ wjob[w] = j =>
       /\ job'[j] # "queued"
       /\ \A f \in Files : file'[j][f] = "queued" => file[j][f] = "queued"

(* A worker's job is queued again by nobody: who submits takes a new one,  *)
(* who retries one that no worker has.                                     *)
LEMMA RaceStep ==
    ASSUME TypeOK, Knows, OneWorker, Taken, Retrying, [Next]_vars
    PROVE  NoRace
  <1> USE DEF Goto, CGoto, registry, stores, pidfile, client, used, Processing, TypeOK,
      Knows, Taken, Retrying, Has, NoRace
  <1>1. ASSUME NEW w \in Workers, OpenPidFile(w) PROVE NoRace
    BY <1>1 DEF OpenPidFile
  <1>2. ASSUME NEW w \in Workers, TakeLock(w) PROVE NoRace
    BY <1>2 DEF TakeLock
  <1>3. ASSUME NEW w \in Workers, Poll(w) PROVE NoRace
    BY <1>3 DEF Poll
  <1>4. ASSUME NEW w \in Workers, Leave(w) PROVE NoRace
    BY <1>4 DEF Leave, Ended, PathAfterRelease
  <1>5. ASSUME NEW w \in Workers, ReadFiles(w) PROVE NoRace
    BY <1>5 DEF ReadFiles, FilesOf
  <1>6. ASSUME NEW w \in Workers, Mark(w) PROVE NoRace
    BY <1>6 DEF Mark, Defers
  <1>7. ASSUME NEW w \in Workers, NextFile(w) PROVE NoRace
    BY <1>7 DEF NextFile
  <1>8. ASSUME NEW w \in Workers, NoMoreFiles(w) PROVE NoRace
    BY <1>8 DEF NoMoreFiles, wlocal
  <1>9. ASSUME NEW w \in Workers, Plan(w) PROVE NoRace
    <2>1. /\ job' = job /\ wjob[w] \in Jobs /\ wfile[w] \in Files
          /\ \/ file' = file
             \/ \E x \in {"processing", "completed", "failed"} :
                  file' = [file EXCEPT ![wjob[w]][wfile[w]] = x]
      BY <1>9 DEF Plan
    <2>2. file \in [Jobs -> [Files -> {"none", "queued", "processing", "completed", "failed"}]]
      OBVIOUS
    <2>3. CASE file' = file
      BY <2>1, <2>3
    <2>4. ASSUME NEW x \in {"processing", "completed", "failed"},
                 file' = [file EXCEPT ![wjob[w]][wfile[w]] = x]
          PROVE  \A j \in Jobs, f \in Files : file'[j][f] = "queued" => file[j][f] = "queued"
      <3> HIDE DEF TypeOK
      <3>1. \A j \in Jobs, f \in Files :
              file'[j][f] = IF j = wjob[w] /\ f = wfile[w] THEN x ELSE file[j][f]
        BY <2>1, <2>2, <2>4, OneRow
      <3>2. QED
        BY <3>1
    <2>5. QED
      BY <2>1, <2>3, <2>4
  <1>10. ASSUME NEW w \in Workers, Extract(w) PROVE NoRace
    BY <1>10 DEF Extract, Outcome
  <1>11. ASSUME NEW w \in Workers, Commit(w) PROVE NoRace
    BY <1>11 DEF Commit, Outcome
  <1>12. ASSUME NEW w \in Workers, Owe(w) PROVE NoRace
    BY <1>12 DEF Owe, OwedDomain, Outcome, wlocal
  <1>13. ASSUME NEW w \in Workers, Settle(w) PROVE NoRace
    <2>1. /\ job' = job /\ wjob[w] \in Jobs /\ wfile[w] \in Files
          /\ \/ file' = file
             \/ \E x \in {"processing", "completed", "failed"} :
                  file' = [file EXCEPT ![wjob[w]][wfile[w]] = x]
      <3>1. wresult[w] \in {"completed", "failed"} /\ wjob[w] \in Jobs /\ wfile[w] \in Files
        BY <1>13 DEF Settle
      <3>2. file' = [file EXCEPT ![wjob[w]][wfile[w]] = wresult[w]] /\ job' = job
        BY <1>13 DEF Settle
      <3>3. QED
        BY <3>1, <3>2
    <2>2. file \in [Jobs -> [Files -> {"none", "queued", "processing", "completed", "failed"}]]
      OBVIOUS
    <2>3. CASE file' = file
      BY <2>1, <2>3
    <2>4. ASSUME NEW x \in {"processing", "completed", "failed"},
                 file' = [file EXCEPT ![wjob[w]][wfile[w]] = x]
          PROVE  \A j \in Jobs, f \in Files : file'[j][f] = "queued" => file[j][f] = "queued"
      <3> HIDE DEF TypeOK
      <3>1. \A j \in Jobs, f \in Files :
              file'[j][f] = IF j = wjob[w] /\ f = wfile[w] THEN x ELSE file[j][f]
        BY <2>1, <2>2, <2>4, OneRow
      <3>2. QED
        BY <3>1
    <2>5. QED
      BY <2>1, <2>3, <2>4
  <1>14. ASSUME NEW w \in Workers, Tally(w) PROVE NoRace
    BY <1>14 DEF Tally
  <1>15. ASSUME NEW w \in Workers, Finalize(w) PROVE NoRace
    BY <1>15 DEF Finalize
  <1>16. ASSUME NEW w \in Workers, Finalized(w) PROVE NoRace
    BY <1>16 DEF Finalized, FinalState, wlocal
  <1>17. ASSUME NEW w \in Workers, Finish(w) PROVE NoRace
    <2>1. file' = file /\ job' = [job EXCEPT ![wjob[w]] = FinalStatus(wjob[w])]
      BY <1>17 DEF Finish
    <2>2. FinalStatus(wjob[w]) # "queued"
      BY DEF FinalStatus
    <2>3. QED
      BY <2>1, <2>2
  <1>18. ASSUME NEW w \in Workers, Crash(w) PROVE NoRace
    BY <1>18 DEF Crash, Ended
  <1>19. ASSUME NEW w \in Workers, NEW d \in Domains, Rebuild(w, d) PROVE NoRace
    BY <1>19 DEF Rebuild
  <1>20. ASSUME NEW c \in Clients, NEW j \in Jobs, Submit(c, j) PROVE NoRace
    <2>1. /\ job[j] = "none" /\ job' = [job EXCEPT ![j] = "queued"]
          /\ \A k \in Jobs \ {j} : file'[k] = file[k]
      BY <1>20 DEF Submit
    <2>2. QED
      BY <2>1
  <1>21. ASSUME NEW c \in Clients, NEW j \in Jobs, RetryRead(c, j) PROVE NoRace
    BY <1>21 DEF RetryRead, wlocal
  <1>22. ASSUME NEW c \in Clients, EnsureWorkerRunning(c) PROVE NoRace
    BY <1>22 DEF EnsureWorkerRunning, Probe, LiveWorker, wlocal
  <1>23. ASSUME NEW c \in Clients, Spawn(c) PROVE NoRace
    BY <1>23 DEF Spawn, Unprobe, wlocal
  <1>24. ASSUME NEW c \in Clients, RetryProbe(c) PROVE NoRace
    BY <1>24 DEF RetryProbe, Probe, LiveWorker, wlocal
  <1>25. ASSUME NEW c \in Clients, RetryStalled(c) PROVE NoRace
    BY <1>25 DEF RetryStalled, Unprobe, wlocal
  <1>26. ASSUME NEW c \in Clients, SelectRows(c) PROVE NoRace
    BY <1>26 DEF SelectRows, ToReset, FilesOf, wlocal
  <1>27. ASSUME NEW c \in Clients, RetryReset(c) PROVE NoRace
    <2>1. /\ job' = [job EXCEPT ![cjob[c]] = "queued"]
          /\ \A k \in Jobs \ {cjob[c]} : file'[k] = file[k]
          /\ \A w \in Workers : ~Has(w, cjob[c])
      BY <1>27 DEF RetryReset
    <2>2. QED
      BY <2>1
  <1>28. ASSUME NEW c \in Clients, Repair(c) PROVE NoRace
    BY <1>28 DEF Repair, wlocal
  <1>29. ASSUME NEW c \in Clients, Resolve(c) PROVE NoRace
    BY <1>29 DEF Resolve, wlocal
  <1>30. CASE UNCHANGED vars
    BY <1>30 DEF vars, wlocal
  <1>31. QED
    BY <1>1, <1>2, <1>3, <1>4, <1>5, <1>6, <1>7, <1>8, <1>9, <1>10, <1>11,
       <1>12, <1>13, <1>14, <1>15, <1>16, <1>17, <1>18, <1>19, <1>20, <1>21,
       <1>22, <1>23, <1>24, <1>25, <1>26, <1>27, <1>28, <1>29, <1>30
    DEF Next, Step, Begin, Continue

(* jobs.py:629-630.  Where one client retries at a time, a retry never     *)
(* puts a job or a row of it back in the queue while a worker is at it.    *)
THEOREM RetryKeepsOff == ASSUME OneRetry PROVE Spec => RetryNeverRacesWorker
  <1>1. IInv /\ Course /\ [Next]_vars => [NoRace]_vars
    BY OneAtATime, RaceStep DEF IInv, Course
  <1>2. QED
    BY <1>1, AlwaysCourse, PTL DEF Spec, RetryNeverRacesWorker, NoRace

-----------------------------------------------------------------------------
(* No file that docling refuses.                                           *)
NoneRefused == Oversized = {}

FileStatus == {"none", "queued", "processing", "completed", "failed"}

(* What a step does to the rows and to the count and status of the jobs.   *)
RowSet(w, s) ==
  /\ wjob[w] \in Jobs /\ wfile[w] \in Files
  /\ \A j \in Jobs, f \in Files :
       file'[j][f] = IF j = wjob[w] /\ f = wfile[w] THEN s ELSE file[j][f]

(* A plan leaves the row alone or marks it processing.                     *)
LEMMA PlanRow ==
    ASSUME TypeOK, Knows, NoneRefused, NEW w \in Workers, Plan(w)
    PROVE  /\ UNCHANGED <<job, count, wjob, wtodo, wtally, wfile, cpc, cjob, cnames>>
           /\ wpc[w] = "plan" /\ wpc' \in {[wpc EXCEPT ![w] = "settle"], [wpc EXCEPT ![w] = "extract"]}
           /\ file' = file \/ RowSet(w, "processing")
  <1>1. wpc[w] = "plan" /\ wjob[w] \in Jobs /\ wfile[w] \in Files
    BY DEF Plan, Knows, TypeOK, Processing
  <1>2. file' = file \/ file' = [file EXCEPT ![wjob[w]][wfile[w]] = "processing"]
    BY DEF Plan
  <1>3. file \in [Jobs -> [Files -> FileStatus]]
    BY DEF TypeOK, FileStatus
  <1>4. file' = file \/ RowSet(w, "processing")
    BY <1>1, <1>2, <1>3, OneRow DEF RowSet
  <1>5. QED
    BY <1>1, <1>4 DEF Plan, Goto, Outcome, NoneRefused, client, used

(* A settled file's row says completed or failed.                          *)
LEMMA SettleRow ==
    ASSUME TypeOK, Knows, NEW w \in Workers, Settle(w)
    PROVE  /\ UNCHANGED <<job, count, wjob, wtodo, wtally, wfile, cpc, cjob, cnames>>
           /\ wpc[w] = "settle" /\ wpc' = [wpc EXCEPT ![w] = "tally"]
           /\ \E s \in {"completed", "failed"} : RowSet(w, s)
  <1>1. /\ wpc[w] = "settle" /\ wjob[w] \in Jobs /\ wfile[w] \in Files
        /\ wresult[w] \in {"completed", "failed"}
    BY DEF Settle, Goto, Knows, TypeOK, Processing
  <1>2. file' = [file EXCEPT ![wjob[w]][wfile[w]] = wresult[w]]
    BY DEF Settle
  <1>3. file \in [Jobs -> [Files -> FileStatus]]
    BY DEF TypeOK, FileStatus
  <1>4. RowSet(w, wresult[w])
    BY <1>1, <1>2, <1>3, OneRow DEF RowSet
  <1>5. \E s \in {"completed", "failed"} : RowSet(w, s)
    BY <1>1, <1>4
  <1>6. QED
    BY <1>1, <1>5 DEF Settle, Goto, wlocal, client, used

(* A submitted job has one queued row for each file of its batch.          *)
LEMMA SubmitRows ==
    ASSUME TypeOK, NEW c \in Clients, NEW j \in Jobs, Submit(c, j)
    PROVE  /\ UNCHANGED <<count, wpc, wjob, wtodo, wtally, wfile, cjob, cnames>>
           /\ cpc[c] = "idle" /\ cpc' = [cpc EXCEPT ![c] = "ensure"]
           /\ job[j] = "none" /\ job' = [job EXCEPT ![j] = "queued"]
           /\ \A k \in Jobs, f \in Files :
                file'[k][f] = IF k = j THEN IF f \in Batch[j] THEN "queued" ELSE "none"
                              ELSE file[k][f]
  BY DEF Submit, CGoto, wlocal, used, TypeOK

(* A retry queues the rows it selected and counts the completed ones.      *)
LEMMA ResetRows ==
    ASSUME TypeOK, Knows, Retrying, NEW c \in Clients, RetryReset(c)
    PROVE  /\ UNCHANGED <<wpc, wjob, wtodo, wtally, wfile, cjob, cnames>>
           /\ cpc[c] = "reset" /\ cpc' = [cpc EXCEPT ![c] = "ensure"]
           /\ cjob[c] \in Jobs /\ \A w \in Workers : ~Has(w, cjob[c])
           /\ job[cjob[c]] \in {"processing", "completed", "failed"}
           /\ job' = [job EXCEPT ![cjob[c]] = "queued"]
           /\ count' = [count EXCEPT ![cjob[c]] = DoneCount(file'[cjob[c]])]
           /\ \A k \in Jobs, f \in Files :
                file'[k][f] = IF k = cjob[c] /\ f \in cnames[c] THEN "queued" ELSE file[k][f]
  <1>1. /\ cjob[c] \in Jobs /\ cpc[c] = "reset"
        /\ \A w \in Workers : ~Has(w, cjob[c])
        /\ job[cjob[c]] \in {"processing", "completed", "failed"}
    BY DEF RetryReset, CGoto, Knows, Retrying, TypeOK
  <1>2. file' = [file EXCEPT ![cjob[c]] = Requeued(cjob[c], cnames[c])]
    BY DEF RetryReset
  <1>3. file'[cjob[c]] = Requeued(cjob[c], cnames[c])
    BY <1>1, <1>2 DEF TypeOK
  <1>4. \A k \in Jobs, f \in Files :
          file'[k][f] = IF k = cjob[c] /\ f \in cnames[c] THEN "queued" ELSE file[k][f]
    BY <1>1, <1>2 DEF Requeued, TypeOK
  <1>5. QED
    BY <1>1, <1>3, <1>4 DEF RetryReset, CGoto, wlocal, used

(* Rows are created with their job, and never removed.                     *)
LEMMA ListedStep ==
    ASSUME NoneRefused, TypeOK, Knows, OneWorker, Taken, Retrying, Listed, Working,
           Selected, [Next]_vars
    PROVE  Listed'
  <1> USE DEF Goto, CGoto, registry, stores, pidfile, client, used, Processing, TypeOK,
      Knows, Listed, InFile, Taken
  <1>1. ASSUME NEW w \in Workers, OpenPidFile(w) PROVE Listed'
    BY <1>1 DEF OpenPidFile
  <1>2. ASSUME NEW w \in Workers, TakeLock(w) PROVE Listed'
    BY <1>2 DEF TakeLock
  <1>3. ASSUME NEW w \in Workers, Poll(w) PROVE Listed'
    BY <1>3 DEF Poll
  <1>4. ASSUME NEW w \in Workers, Leave(w) PROVE Listed'
    BY <1>4 DEF Leave, Ended, PathAfterRelease
  <1>5. ASSUME NEW w \in Workers, ReadFiles(w) PROVE Listed'
    BY <1>5 DEF ReadFiles, FilesOf
  <1>6. ASSUME NEW w \in Workers, Mark(w) PROVE Listed'
    BY <1>6 DEF Mark, Defers
  <1>7. ASSUME NEW w \in Workers, NextFile(w) PROVE Listed'
    BY <1>7 DEF NextFile
  <1>8. ASSUME NEW w \in Workers, NoMoreFiles(w) PROVE Listed'
    BY <1>8 DEF NoMoreFiles, wlocal
  <1>9. ASSUME NEW w \in Workers, Plan(w) PROVE Listed'
    <2>1. /\ wjob[w] \in Jobs /\ wfile[w] \in Files /\ job[wjob[w]] = "processing"
          /\ wfile[w] \in Batch[wjob[w]] /\ job' = job
      BY <1>9, PlanRow DEF RowSet, Working, WorkingOn
    <2>2. file[wjob[w]][wfile[w]] # "none"
      BY <2>1
    <2>3. file' = file \/ \E s \in {"processing", "completed", "failed"} : RowSet(w, s)
      BY <1>9, PlanRow
    <2> HIDE DEF TypeOK, Knows
    <2>4. \A j \in Jobs, f \in Files : file'[j][f] # "none" <=> file[j][f] # "none"
      BY <2>2, <2>3 DEF RowSet
    <2>5. QED
      BY <2>1, <2>4
  <1>10. ASSUME NEW w \in Workers, Extract(w) PROVE Listed'
    BY <1>10 DEF Extract, Outcome
  <1>11. ASSUME NEW w \in Workers, Commit(w) PROVE Listed'
    BY <1>11 DEF Commit, Outcome
  <1>12. ASSUME NEW w \in Workers, Owe(w) PROVE Listed'
    BY <1>12 DEF Owe, OwedDomain, Outcome, wlocal
  <1>13. ASSUME NEW w \in Workers, Settle(w) PROVE Listed'
    <2>1. /\ wjob[w] \in Jobs /\ wfile[w] \in Files /\ job[wjob[w]] = "processing"
          /\ wfile[w] \in Batch[wjob[w]] /\ job' = job
      BY <1>13, SettleRow DEF RowSet, Working, WorkingOn
    <2>2. file[wjob[w]][wfile[w]] # "none"
      BY <2>1
    <2>3. file' = file \/ \E s \in {"processing", "completed", "failed"} : RowSet(w, s)
      BY <1>13, SettleRow
    <2> HIDE DEF TypeOK, Knows
    <2>4. \A j \in Jobs, f \in Files : file'[j][f] # "none" <=> file[j][f] # "none"
      BY <2>2, <2>3 DEF RowSet
    <2>5. QED
      BY <2>1, <2>4
  <1>14. ASSUME NEW w \in Workers, Tally(w) PROVE Listed'
    BY <1>14 DEF Tally
  <1>15. ASSUME NEW w \in Workers, Finalize(w) PROVE Listed'
    BY <1>15 DEF Finalize
  <1>16. ASSUME NEW w \in Workers, Finalized(w) PROVE Listed'
    BY <1>16 DEF Finalized, FinalState, wlocal
  <1>17. ASSUME NEW w \in Workers, Finish(w) PROVE Listed'
    <2>1. file' = file /\ job' = [job EXCEPT ![wjob[w]] = FinalStatus(wjob[w])]
      BY <1>17 DEF Finish
    <2>2. FinalStatus(wjob[w]) # "none" /\ job[wjob[w]] = "processing"
      BY <1>17 DEF FinalStatus, Finish
    <2>3. QED
      BY <2>1, <2>2
  <1>18. ASSUME NEW w \in Workers, Crash(w) PROVE Listed'
    BY <1>18 DEF Crash, Ended
  <1>19. ASSUME NEW w \in Workers, NEW d \in Domains, Rebuild(w, d) PROVE Listed'
    BY <1>19 DEF Rebuild
  <1>20. ASSUME NEW c \in Clients, NEW j \in Jobs, Submit(c, j) PROVE Listed'
    <2>1. /\ job[j] = "none" /\ job'[j] = "queued" /\ \A k \in Jobs \ {j} : job'[k] = job[k]
          /\ \A k \in Jobs, f \in Files :
                file'[k][f] = IF k = j THEN IF f \in Batch[j] THEN "queued" ELSE "none"
                              ELSE file[k][f]
      BY <1>20, SubmitRows
    <2> HIDE DEF TypeOK, Knows
    <2>2. QED
      BY <2>1
  <1>21. ASSUME NEW c \in Clients, NEW j \in Jobs, RetryRead(c, j) PROVE Listed'
    BY <1>21 DEF RetryRead, wlocal
  <1>22. ASSUME NEW c \in Clients, EnsureWorkerRunning(c) PROVE Listed'
    BY <1>22 DEF EnsureWorkerRunning, Probe, LiveWorker, wlocal
  <1>23. ASSUME NEW c \in Clients, Spawn(c) PROVE Listed'
    BY <1>23 DEF Spawn, Unprobe, wlocal
  <1>24. ASSUME NEW c \in Clients, RetryProbe(c) PROVE Listed'
    BY <1>24 DEF RetryProbe, Probe, LiveWorker, wlocal
  <1>25. ASSUME NEW c \in Clients, RetryStalled(c) PROVE Listed'
    BY <1>25 DEF RetryStalled, Unprobe, wlocal
  <1>26. ASSUME NEW c \in Clients, SelectRows(c) PROVE Listed'
    BY <1>26 DEF SelectRows, ToReset, FilesOf, wlocal
  <1>27. ASSUME NEW c \in Clients, RetryReset(c) PROVE Listed'
    <2>1. /\ \A k \in Jobs, f \in Files :
                file'[k][f] = IF k = cjob[c] /\ f \in cnames[c] THEN "queued" ELSE file[k][f]
          /\ \A f \in Files : f \in cnames[c] => file[cjob[c]][f] # "none"
      BY <1>27, ResetRows DEF Selected
    <2>2. cjob[c] \in Jobs /\ job[cjob[c]] # "none" /\ job' = [job EXCEPT ![cjob[c]] = "queued"]
      BY <1>27, ResetRows
    <2>3. \A k \in Jobs : job'[k] # "none" <=> job[k] # "none"
      BY <2>2
    <2> HIDE DEF TypeOK, Knows
    <2>4. \A k \in Jobs, f \in Files : file'[k][f] # "none" <=> file[k][f] # "none"
      BY <2>1
    <2>5. QED
      BY <2>3, <2>4
  <1>28. ASSUME NEW c \in Clients, Repair(c) PROVE Listed'
    BY <1>28 DEF Repair, wlocal
  <1>29. ASSUME NEW c \in Clients, Resolve(c) PROVE Listed'
    BY <1>29 DEF Resolve, wlocal
  <1>30. CASE UNCHANGED vars
    BY <1>30 DEF vars, wlocal
  <1>31. QED
    BY <1>1, <1>2, <1>3, <1>4, <1>5, <1>6, <1>7, <1>8, <1>9, <1>10, <1>11,
       <1>12, <1>13, <1>14, <1>15, <1>16, <1>17, <1>18, <1>19, <1>20, <1>21,
       <1>22, <1>23, <1>24, <1>25, <1>26, <1>27, <1>28, <1>29, <1>30
    DEF Next, Step, Begin, Continue

(* Who else is past the lock when w is.                                    *)
LEMMA Alone ==
    ASSUME OneWorker, NEW w \in Workers, NEW v \in Workers, NEW p,
           wpc[w] \in Holding, wpc' = [wpc EXCEPT ![w] = p], wpc'[v] \in Holding
    PROVE  v = w
  BY DEF OneWorker

(* Nobody but its worker touches the rows of a job a worker has.           *)
LEMMA WorkingStep ==
    ASSUME NoneRefused, TypeOK, Knows, OneWorker, Taken, Retrying, Listed, Working,
           Ready, [Next]_vars
    PROVE  Working'
  <1> USE DEF Goto, CGoto, registry, stores, pidfile, client, used, Processing, TypeOK,
      Knows
  <1>1. ASSUME NEW w \in Workers, OpenPidFile(w) PROVE Working'
    BY <1>1 DEF OpenPidFile, Working, WorkingOn, InFile
  <1>2. ASSUME NEW w \in Workers, TakeLock(w) PROVE Working'
    BY <1>2 DEF TakeLock, Working, WorkingOn, InFile
  <1>3. ASSUME NEW w \in Workers, Poll(w) PROVE Working'
    BY <1>3 DEF Poll, Working, WorkingOn, InFile
  <1>4. ASSUME NEW w \in Workers, Leave(w) PROVE Working'
    BY <1>4 DEF Leave, Ended, PathAfterRelease, Working, WorkingOn, InFile
  <1>5. ASSUME NEW w \in Workers, ReadFiles(w) PROVE Working'
    <2>1. /\ wjob[w] \in Jobs /\ job[wjob[w]] = "queued" /\ wpc[w] = "files"
          /\ wtodo' = [wtodo EXCEPT ![w] = FilesOf(wjob[w], {"queued"})]
          /\ wpc' = [wpc EXCEPT ![w] = "mark"]
          /\ UNCHANGED <<file, wjob, wfile>>
      BY <1>5 DEF ReadFiles, Taken
    <2>2. /\ FilesOf(wjob[w], {"queued"}) \subseteq Batch[wjob[w]]
          /\ \A f \in Batch[wjob[w]] : file[wjob[w]][f] \in {"queued", "completed"}
      BY <2>1, BatchAssumption DEF Listed, Ready, FilesOf
    <2>3. ASSUME NEW v \in Workers PROVE WorkingOn(v)'
      <3>1. CASE v # w
        BY <2>1, <3>1 DEF Working, WorkingOn, InFile
      <3>2. CASE v = w
        <4>1. wtodo'[w] = FilesOf(wjob[w], {"queued"}) /\ wpc'[w] = "mark"
          BY <2>1
        <4>2. \A f \in Batch[wjob[w]] \ wtodo'[w] : file[wjob[w]][f] = "completed"
          BY <2>1, <2>2, <4>1, BatchAssumption DEF FilesOf
        <4> HIDE DEF TypeOK, Knows
        <4>3. QED
          BY <2>1, <2>2, <3>2, <4>1, <4>2 DEF WorkingOn, InFile, FilesOf
      <3>3. QED
        BY <3>1, <3>2
    <2>4. QED
      BY <2>3 DEF Working
  <1>6. ASSUME NEW w \in Workers, Mark(w) PROVE Working'
    BY <1>6 DEF Mark, Defers, Working, WorkingOn, InFile
  <1>7. ASSUME NEW w \in Workers, NextFile(w) PROVE Working'
    BY <1>7 DEF NextFile, Working, WorkingOn, InFile
  <1>8. ASSUME NEW w \in Workers, NoMoreFiles(w) PROVE Working'
    BY <1>8 DEF NoMoreFiles, wlocal, Working, WorkingOn, InFile
  <1>9. ASSUME NEW w \in Workers, Plan(w) PROVE Working'
    <2>1. /\ wpc[w] = "plan" /\ (wpc' = [wpc EXCEPT ![w] = "settle"] \/ wpc' = [wpc EXCEPT ![w] = "extract"])
          /\ UNCHANGED <<wjob, wtodo, wfile>>
          /\ file' = file \/ RowSet(w, "processing")
      BY <1>9, PlanRow
    <2>2. wpc[w] \in Holding /\ wpc[w] \in InFile /\ wjob[w] \in Jobs
      BY <2>1 DEF Holding, InFile
    <2>3. ASSUME NEW v \in Workers PROVE WorkingOn(v)'
      <3>1. CASE wpc'[v] \notin {"mark"} \cup Processing
        BY <3>1 DEF WorkingOn, InFile
      <3>2. CASE wpc'[v] \in {"mark"} \cup Processing
        <4>1. v = w
          BY <2>1, <2>2, <3>2, Alone DEF Holding
        <4>2. WorkingOn(w) /\ wtodo[w] \subseteq Files /\ Batch[wjob[w]] \subseteq Files
          BY <2>2, BatchAssumption DEF Working
        <4>3. wpc'[w] \in {"settle", "extract"}
          BY <2>1
        <4> HIDE DEF TypeOK, Knows
        <4>4. CASE file' = file
          BY <2>1, <2>2, <4>1, <4>2, <4>3, <4>4 DEF WorkingOn, InFile
        <4>5. CASE RowSet(w, "processing")
          BY <2>1, <2>2, <4>1, <4>2, <4>3, <4>5 DEF WorkingOn, RowSet, InFile
        <4>6. QED
          BY <2>1, <4>4, <4>5
      <3>3. QED
        BY <3>1, <3>2
    <2>4. QED
      BY <2>3 DEF Working
  <1>10. ASSUME NEW w \in Workers, Extract(w) PROVE Working'
    BY <1>10 DEF Extract, Outcome, Working, WorkingOn, InFile
  <1>11. ASSUME NEW w \in Workers, Commit(w) PROVE Working'
    BY <1>11 DEF Commit, Outcome, Working, WorkingOn, InFile
  <1>12. ASSUME NEW w \in Workers, Owe(w) PROVE Working'
    BY <1>12 DEF Owe, OwedDomain, Outcome, wlocal, Working, WorkingOn, InFile
  <1>13. ASSUME NEW w \in Workers, Settle(w) PROVE Working'
    <2>1. /\ wpc[w] = "settle" /\ wpc' = [wpc EXCEPT ![w] = "tally"]
          /\ UNCHANGED <<wjob, wtodo, wfile>>
          /\ \E s \in {"completed", "failed"} : RowSet(w, s)
      BY <1>13, SettleRow
    <2>2. wpc[w] \in Holding /\ wpc[w] \in InFile /\ wjob[w] \in Jobs
      BY <2>1 DEF Holding, InFile
    <2>3. ASSUME NEW v \in Workers PROVE WorkingOn(v)'
      <3>1. CASE wpc'[v] \notin {"mark"} \cup Processing
        BY <3>1 DEF WorkingOn, InFile
      <3>2. CASE wpc'[v] \in {"mark"} \cup Processing
        <4>1. v = w
          BY <2>1, <2>2, <3>2, Alone DEF Holding
        <4>2. WorkingOn(w) /\ wtodo[w] \subseteq Files /\ Batch[wjob[w]] \subseteq Files
          BY <2>2, BatchAssumption DEF Working
        <4> HIDE DEF TypeOK, Knows
        <4>3. QED
          BY <2>1, <2>2, <4>1, <4>2 DEF WorkingOn, RowSet, InFile
      <3>3. QED
        BY <3>1, <3>2
    <2>4. QED
      BY <2>3 DEF Working
  <1>14. ASSUME NEW w \in Workers, Tally(w) PROVE Working'
    BY <1>14 DEF Tally, Working, WorkingOn, InFile
  <1>15. ASSUME NEW w \in Workers, Finalize(w) PROVE Working'
    BY <1>15 DEF Finalize, Working, WorkingOn, InFile
  <1>16. ASSUME NEW w \in Workers, Finalized(w) PROVE Working'
    BY <1>16 DEF Finalized, FinalState, wlocal, Working, WorkingOn, InFile
  <1>17. ASSUME NEW w \in Workers, Finish(w) PROVE Working'
    BY <1>17 DEF Finish, FinalStatus, wlocal, Working, WorkingOn, InFile
  <1>18. ASSUME NEW w \in Workers, Crash(w) PROVE Working'
    BY <1>18 DEF Crash, Ended, Working, WorkingOn, InFile
  <1>19. ASSUME NEW w \in Workers, NEW d \in Domains, Rebuild(w, d) PROVE Working'
    BY <1>19 DEF Rebuild, Working, WorkingOn, InFile
  <1>20. ASSUME NEW c \in Clients, NEW j \in Jobs, Submit(c, j) PROVE Working'
    <2>1. /\ UNCHANGED <<wpc, wjob, wtodo, wfile>> /\ job[j] = "none"
          /\ \A k \in Jobs \ {j}, f \in Files : file'[k][f] = file[k][f]
      BY <1>20, SubmitRows
    <2>2. ASSUME NEW v \in Workers PROVE WorkingOn(v)'
      <3>1. wpc[v] \in {"mark"} \cup Processing =>
              wjob[v] \in Jobs \ {j} /\ Batch[wjob[v]] \subseteq Files /\ wtodo[v] \subseteq Files
        BY <2>1, BatchAssumption DEF Taken
      <3>2. WorkingOn(v)
        BY DEF Working
      <3> HIDE DEF TypeOK, Knows
      <3>3. QED
        BY <2>1, <3>1, <3>2 DEF WorkingOn, InFile
    <2>3. QED
      BY <2>2 DEF Working
  <1>21. ASSUME NEW c \in Clients, NEW j \in Jobs, RetryRead(c, j) PROVE Working'
    BY <1>21 DEF RetryRead, wlocal, Working, WorkingOn, InFile
  <1>22. ASSUME NEW c \in Clients, EnsureWorkerRunning(c) PROVE Working'
    BY <1>22 DEF EnsureWorkerRunning, Probe, LiveWorker, wlocal, Working, WorkingOn, InFile
  <1>23. ASSUME NEW c \in Clients, Spawn(c) PROVE Working'
    BY <1>23 DEF Spawn, Unprobe, wlocal, Working, WorkingOn, InFile
  <1>24. ASSUME NEW c \in Clients, RetryProbe(c) PROVE Working'
    BY <1>24 DEF RetryProbe, Probe, LiveWorker, wlocal, Working, WorkingOn, InFile
  <1>25. ASSUME NEW c \in Clients, RetryStalled(c) PROVE Working'
    BY <1>25 DEF RetryStalled, Unprobe, wlocal, Working, WorkingOn, InFile
  <1>26. ASSUME NEW c \in Clients, SelectRows(c) PROVE Working'
    BY <1>26 DEF SelectRows, ToReset, FilesOf, wlocal, Working, WorkingOn, InFile
  <1>27. ASSUME NEW c \in Clients, RetryReset(c) PROVE Working'
    <2>1. /\ UNCHANGED <<wpc, wjob, wtodo, wfile>> /\ \A w \in Workers : ~Has(w, cjob[c])
          /\ \A k \in Jobs \ {cjob[c]}, f \in Files : file'[k][f] = file[k][f]
      BY <1>27, ResetRows
    <2>2. ASSUME NEW v \in Workers PROVE WorkingOn(v)'
      <3>1. wpc[v] \in {"mark"} \cup Processing =>
              wjob[v] \in Jobs \ {cjob[c]} /\ Batch[wjob[v]] \subseteq Files /\ wtodo[v] \subseteq Files
        BY <2>1, BatchAssumption DEF Has
      <3>2. WorkingOn(v)
        BY DEF Working
      <3> HIDE DEF TypeOK, Knows
      <3>3. QED
        BY <2>1, <3>1, <3>2 DEF WorkingOn, InFile
    <2>3. QED
      BY <2>2 DEF Working
  <1>28. ASSUME NEW c \in Clients, Repair(c) PROVE Working'
    BY <1>28 DEF Repair, wlocal, Working, WorkingOn, InFile
  <1>29. ASSUME NEW c \in Clients, Resolve(c) PROVE Working'
    BY <1>29 DEF Resolve, wlocal, Working, WorkingOn, InFile
  <1>30. CASE UNCHANGED vars
    BY <1>30 DEF vars, wlocal, Working, WorkingOn, InFile
  <1>31. QED
    BY <1>1, <1>2, <1>3, <1>4, <1>5, <1>6, <1>7, <1>8, <1>9, <1>10, <1>11,
       <1>12, <1>13, <1>14, <1>15, <1>16, <1>17, <1>18, <1>19, <1>20, <1>21,
       <1>22, <1>23, <1>24, <1>25, <1>26, <1>27, <1>28, <1>29, <1>30
    DEF Next, Step, Begin, Continue

-----------------------------------------------------------------------------
(* A batch is finite, and so is what is left of it.                        *)
LEMMA Finite ==
    ASSUME NEW S \in SUBSET Files
    PROVE  IsFiniteSet(S) /\ Cardinality(S) \in Nat
  BY FilesAssumption, FS_Subset, FS_CardinalityType

(* A worker starts on a job with what is done counted, and the rest listed.*)
LEMMA Split ==
    ASSUME NEW j \in Jobs, Listed, Ready, job[j] = "queued"
    PROVE  count[j] + Cardinality(FilesOf(j, {"queued"})) = Cardinality(Batch[j])
  <1> DEFINE D == {f \in Files : file[j][f] = "completed"}
             Q == FilesOf(j, {"queued"})
  <1>1. D \cup Q = Batch[j] /\ D \cap Q = {}
    BY BatchAssumption DEF Listed, Ready, FilesOf
  <1>2. count[j] = Cardinality(D)
    BY DEF Ready, DoneCount
  <1>3. D \subseteq Files /\ Q \subseteq Files
    BY DEF FilesOf
  <1> HIDE DEF D, Q
  <1>4. /\ IsFiniteSet(D) /\ IsFiniteSet(Q)
        /\ Cardinality(D) \in Nat /\ Cardinality(Q) \in Nat
    BY <1>3, Finite
  <1>5. Cardinality(D \cup Q) = Cardinality(D) + Cardinality(Q) - Cardinality(D \cap Q)
    BY <1>4, FS_Union
  <1>6. Cardinality(D \cap Q) = 0
    BY <1>1, FS_EmptySet
  <1>7. Cardinality(D \cup Q) = Cardinality(D) + Cardinality(Q)
    BY <1>4, <1>5, <1>6
  <1>8. Cardinality(D \cup Q) = Cardinality(Batch[j])
    BY <1>1, Zenon
  <1>9. count[j] + Cardinality(Q) = Cardinality(Batch[j])
    BY <1>2, <1>7, <1>8
  <1>10. QED
    BY <1>9 DEF Q

(* Rows that are the same have as many completed among them.               *)
LEMMA SameRows ==
    ASSUME NEW j \in Jobs, \A f \in Files : file'[j][f] = file[j][f]
    PROVE  DoneCount(file'[j]) = DoneCount(file[j])
  <1> DEFINE D(rows) == {f \in Files : rows[f] = "completed"}
  <1>1. D(file'[j]) = D(file[j])
    OBVIOUS
  <1> HIDE DEF D
  <1>2. Cardinality(D(file'[j])) = Cardinality(D(file[j]))
    BY <1>1
  <1>3. QED
    BY <1>2 DEF DoneCount, D

(* What a worker has done and what is left on its list make up the batch.  *)
LEMMA TalliedStep ==
    ASSUME NoneRefused, TypeOK, Knows, OneWorker, Taken, Retrying, Listed, Working,
           Tallied, Ready, [Next]_vars
    PROVE  Tallied'
  <1> USE DEF Goto, CGoto, registry, stores, pidfile, client, used, Processing, TypeOK,
      Knows
  <1>1. ASSUME NEW w \in Workers, OpenPidFile(w) PROVE Tallied'
    BY <1>1 DEF OpenPidFile, Tallied, TallyOf, InFile
  <1>2. ASSUME NEW w \in Workers, TakeLock(w) PROVE Tallied'
    BY <1>2 DEF TakeLock, Tallied, TallyOf, InFile
  <1>3. ASSUME NEW w \in Workers, Poll(w) PROVE Tallied'
    BY <1>3 DEF Poll, Tallied, TallyOf, InFile
  <1>4. ASSUME NEW w \in Workers, Leave(w) PROVE Tallied'
    BY <1>4 DEF Leave, Ended, PathAfterRelease, Tallied, TallyOf, InFile
  <1>5. ASSUME NEW w \in Workers, ReadFiles(w) PROVE Tallied'
    <2>1. /\ wjob[w] \in Jobs /\ job[wjob[w]] = "queued" /\ wpc[w] = "files"
          /\ wtodo' = [wtodo EXCEPT ![w] = FilesOf(wjob[w], {"queued"})]
          /\ wtally' = [wtally EXCEPT ![w] = count[wjob[w]]]
          /\ wpc' = [wpc EXCEPT ![w] = "mark"]
          /\ UNCHANGED <<count, wjob>>
      BY <1>5 DEF ReadFiles, Taken
    <2>2. ASSUME NEW v \in Workers PROVE TallyOf(v)'
      <3>1. CASE v # w
        BY <2>1, <3>1 DEF Tallied, TallyOf, InFile
      <3>2. CASE v = w
        <4>1. wtodo'[w] = FilesOf(wjob[w], {"queued"}) /\ wtally'[w] = count[wjob[w]] /\ wpc'[w] = "mark"
          BY <2>1
        <4>2. count[wjob[w]] + Cardinality(FilesOf(wjob[w], {"queued"})) = Cardinality(Batch[wjob[w]])
          BY <2>1, Split
        <4>3. count[wjob[w]] \in Nat /\ Cardinality(FilesOf(wjob[w], {"queued"})) \in Nat
          BY <2>1, Finite DEF FilesOf
        <4>4. count' = count /\ wjob' = wjob
          BY <2>1
        <4>5. wtally'[w] + Cardinality(wtodo'[w]) = Cardinality(Batch[wjob'[w]])
          BY <4>1, <4>2, <4>4
        <4> HIDE DEF TypeOK, Knows
        <4>6. QED
          BY <3>2, <4>1, <4>3, <4>4, <4>5 DEF TallyOf, InFile
      <3>3. QED
        BY <3>1, <3>2
    <2>3. QED
      BY <2>2 DEF Tallied
  <1>6. ASSUME NEW w \in Workers, Mark(w) PROVE Tallied'
    BY <1>6 DEF Mark, Defers, Tallied, TallyOf, InFile
  <1>7. ASSUME NEW w \in Workers, NextFile(w) PROVE Tallied'
    <2>1. PICK f \in wtodo[w] :
            /\ wtodo' = [wtodo EXCEPT ![w] = wtodo[w] \ {f}]
            /\ wpc[w] = "next" /\ wpc' = [wpc EXCEPT ![w] = "plan"]
            /\ UNCHANGED <<count, wjob, wtally>>
      BY <1>7 DEF NextFile
    <2>2. ASSUME NEW v \in Workers PROVE TallyOf(v)'
      <3>1. CASE v # w
        BY <2>1, <3>1 DEF Tallied, TallyOf, InFile
      <3>2. CASE v = w
        <4>1. wtodo'[w] = wtodo[w] \ {f} /\ wpc'[w] = "plan" /\ wtodo[w] \in SUBSET Files
          BY <2>1
        <4>2. IsFiniteSet(wtodo[w]) /\ Cardinality(wtodo[w]) \in Nat /\ wtally[w] \in Nat
          BY <4>1, Finite
        <4>t. TallyOf(w) /\ wpc[w] = "next"
          BY <2>1 DEF Tallied
        <4> HIDE DEF TypeOK, Knows
        <4>3. Cardinality(wtodo[w] \ {f}) = Cardinality(wtodo[w]) - 1
          <5>1. f \in wtodo[w]
            OBVIOUS
          <5>2. QED
            BY <4>2, <5>1, FS_RemoveElement
        <4>4. /\ count[wjob[w]] = wtally[w]
              /\ wtally[w] + Cardinality(wtodo[w]) = Cardinality(Batch[wjob[w]])
          <5>1. /\ count[wjob[w]] = wtally[w]
                /\ wtally[w] + Cardinality(wtodo[w]) + 0 = Cardinality(Batch[wjob[w]])
            BY <4>t DEF TallyOf, InFile
          <5>2. QED
            BY <4>2, <5>1
        <4>5. wtally[w] + Cardinality(wtodo[w] \ {f}) + 1 = Cardinality(Batch[wjob[w]])
          BY <4>2, <4>3, <4>4
        <4>6. /\ wtally'[w] + Cardinality(wtodo'[w]) + 1 = Cardinality(Batch[wjob'[w]])
              /\ count'[wjob'[w]] = wtally'[w] /\ wpc'[w] = "plan"
          BY <2>1, <4>1, <4>4, <4>5
        <4>7. QED
          BY <3>2, <4>6 DEF TallyOf, InFile
      <3>3. QED
        BY <3>1, <3>2
    <2>3. QED
      BY <2>2 DEF Tallied
  <1>8. ASSUME NEW w \in Workers, NoMoreFiles(w) PROVE Tallied'
    BY <1>8 DEF NoMoreFiles, wlocal, Tallied, TallyOf, InFile
  <1>9. ASSUME NEW w \in Workers, Plan(w) PROVE Tallied'
    <2>1. /\ wpc[w] = "plan" /\ wpc'[w] \in {"settle", "extract"}
          /\ \A v \in Workers \ {w} : wpc'[v] = wpc[v]
          /\ UNCHANGED <<count, wjob, wtodo, wtally>>
      BY <1>9, PlanRow
    <2>2. QED
      BY <2>1 DEF Tallied, TallyOf, InFile
  <1>10. ASSUME NEW w \in Workers, Extract(w) PROVE Tallied'
    BY <1>10 DEF Extract, Outcome, Tallied, TallyOf, InFile
  <1>11. ASSUME NEW w \in Workers, Commit(w) PROVE Tallied'
    BY <1>11 DEF Commit, Outcome, Tallied, TallyOf, InFile
  <1>12. ASSUME NEW w \in Workers, Owe(w) PROVE Tallied'
    BY <1>12 DEF Owe, OwedDomain, Outcome, wlocal, Tallied, TallyOf, InFile
  <1>13. ASSUME NEW w \in Workers, Settle(w) PROVE Tallied'
    <2>1. /\ wpc[w] = "settle" /\ wpc'[w] = "tally"
          /\ \A v \in Workers \ {w} : wpc'[v] = wpc[v]
          /\ UNCHANGED <<count, wjob, wtodo, wtally>>
      BY <1>13, SettleRow
    <2>2. QED
      BY <2>1 DEF Tallied, TallyOf, InFile
  <1>14. ASSUME NEW w \in Workers, Tally(w) PROVE Tallied'
    <2>1. /\ wjob[w] \in Jobs /\ wpc[w] = "tally"
          /\ wpc' = [wpc EXCEPT ![w] = "next"]
          /\ wtally' = [wtally EXCEPT ![w] = wtally[w] + 1]
          /\ count' = [count EXCEPT ![wjob[w]] = wtally[w] + 1]
          /\ UNCHANGED <<wjob, wtodo>>
      BY <1>14 DEF Tally
    <2>2. ASSUME NEW v \in Workers PROVE TallyOf(v)'
      <3>1. CASE v # w
        <4>1. wpc'[v] \notin {"mark"} \cup Processing
          BY <2>1, <3>1, Alone DEF Holding
        <4>2. QED
          BY <4>1 DEF TallyOf
      <3>2. CASE v = w
        <4>1. wpc'[w] = "next" /\ wtally'[w] = wtally[w] + 1 /\ count'[wjob[w]] = wtally[w] + 1
          BY <2>1
        <4>2. wtally[w] \in Nat /\ Cardinality(wtodo[w]) \in Nat
          BY Finite
        <4>3. QED
          BY <2>1, <3>2, <4>1, <4>2 DEF Tallied, TallyOf, InFile
      <3>3. QED
        BY <3>1, <3>2
    <2>3. QED
      BY <2>2 DEF Tallied
  <1>15. ASSUME NEW w \in Workers, Finalize(w) PROVE Tallied'
    BY <1>15 DEF Finalize, Tallied, TallyOf, InFile
  <1>16. ASSUME NEW w \in Workers, Finalized(w) PROVE Tallied'
    BY <1>16 DEF Finalized, FinalState, wlocal, Tallied, TallyOf, InFile
  <1>17. ASSUME NEW w \in Workers, Finish(w) PROVE Tallied'
    BY <1>17 DEF Finish, FinalStatus, wlocal, Tallied, TallyOf, InFile
  <1>18. ASSUME NEW w \in Workers, Crash(w) PROVE Tallied'
    BY <1>18 DEF Crash, Ended, Tallied, TallyOf, InFile
  <1>19. ASSUME NEW w \in Workers, NEW d \in Domains, Rebuild(w, d) PROVE Tallied'
    BY <1>19 DEF Rebuild, Tallied, TallyOf, InFile
  <1>20. ASSUME NEW c \in Clients, NEW j \in Jobs, Submit(c, j) PROVE Tallied'
    BY <1>20, SubmitRows DEF Tallied, TallyOf, InFile
  <1>21. ASSUME NEW c \in Clients, NEW j \in Jobs, RetryRead(c, j) PROVE Tallied'
    BY <1>21 DEF RetryRead, wlocal, Tallied, TallyOf, InFile
  <1>22. ASSUME NEW c \in Clients, EnsureWorkerRunning(c) PROVE Tallied'
    BY <1>22 DEF EnsureWorkerRunning, Probe, LiveWorker, wlocal, Tallied, TallyOf, InFile
  <1>23. ASSUME NEW c \in Clients, Spawn(c) PROVE Tallied'
    BY <1>23 DEF Spawn, Unprobe, wlocal, Tallied, TallyOf, InFile
  <1>24. ASSUME NEW c \in Clients, RetryProbe(c) PROVE Tallied'
    BY <1>24 DEF RetryProbe, Probe, LiveWorker, wlocal, Tallied, TallyOf, InFile
  <1>25. ASSUME NEW c \in Clients, RetryStalled(c) PROVE Tallied'
    BY <1>25 DEF RetryStalled, Unprobe, wlocal, Tallied, TallyOf, InFile
  <1>26. ASSUME NEW c \in Clients, SelectRows(c) PROVE Tallied'
    BY <1>26 DEF SelectRows, ToReset, FilesOf, wlocal, Tallied, TallyOf, InFile
  <1>27. ASSUME NEW c \in Clients, RetryReset(c) PROVE Tallied'
    <2>1. /\ UNCHANGED <<wpc, wjob, wtodo, wtally>> /\ \A w \in Workers : ~Has(w, cjob[c])
          /\ \A k \in Jobs \ {cjob[c]} : count'[k] = count[k]
      BY <1>27, ResetRows
    <2>2. ASSUME NEW v \in Workers PROVE TallyOf(v)'
      <3>1. wpc[v] \in {"mark"} \cup Processing => wjob[v] \in Jobs \ {cjob[c]}
        BY <2>1 DEF Has
      <3>2. QED
        BY <2>1, <3>1 DEF Tallied, TallyOf, InFile
    <2>3. QED
      BY <2>2 DEF Tallied
  <1>28. ASSUME NEW c \in Clients, Repair(c) PROVE Tallied'
    BY <1>28 DEF Repair, wlocal, Tallied, TallyOf, InFile
  <1>29. ASSUME NEW c \in Clients, Resolve(c) PROVE Tallied'
    BY <1>29 DEF Resolve, wlocal, Tallied, TallyOf, InFile
  <1>30. CASE UNCHANGED vars
    BY <1>30 DEF vars, wlocal, Tallied, TallyOf, InFile
  <1>31. QED
    BY <1>1, <1>2, <1>3, <1>4, <1>5, <1>6, <1>7, <1>8, <1>9, <1>10, <1>11,
       <1>12, <1>13, <1>14, <1>15, <1>16, <1>17, <1>18, <1>19, <1>20, <1>21,
       <1>22, <1>23, <1>24, <1>25, <1>26, <1>27, <1>28, <1>29, <1>30
    DEF Next, Step, Begin, Continue

(* Neither rows nor count of a queued job change while it is queued.       *)
LEMMA ReadyStep ==
    ASSUME NoneRefused, TypeOK, Knows, OneWorker, Taken, Retrying, Unused, Listed,
           Ready, Selected, [Next]_vars
    PROVE  Ready'
  <1> USE DEF Goto, CGoto, registry, stores, pidfile, client, used, Processing, TypeOK,
      Knows
  <1>1. ASSUME NEW w \in Workers, OpenPidFile(w) PROVE Ready'
    BY <1>1 DEF OpenPidFile, Ready
  <1>2. ASSUME NEW w \in Workers, TakeLock(w) PROVE Ready'
    BY <1>2 DEF TakeLock, Ready
  <1>3. ASSUME NEW w \in Workers, Poll(w) PROVE Ready'
    BY <1>3 DEF Poll, Ready
  <1>4. ASSUME NEW w \in Workers, Leave(w) PROVE Ready'
    BY <1>4 DEF Leave, Ended, PathAfterRelease, Ready
  <1>5. ASSUME NEW w \in Workers, ReadFiles(w) PROVE Ready'
    BY <1>5 DEF ReadFiles, FilesOf, Ready
  <1>6. ASSUME NEW w \in Workers, Mark(w) PROVE Ready'
    <2>1. /\ \A j \in Jobs : job'[j] = "queued" => job[j] = "queued"
          /\ UNCHANGED <<file, count>>
      BY <1>6 DEF Mark
    <2>2. QED
      BY <2>1 DEF Ready
  <1>7. ASSUME NEW w \in Workers, NextFile(w) PROVE Ready'
    BY <1>7 DEF NextFile, Ready
  <1>8. ASSUME NEW w \in Workers, NoMoreFiles(w) PROVE Ready'
    BY <1>8 DEF NoMoreFiles, wlocal, Ready
  <1>9. ASSUME NEW w \in Workers, Plan(w) PROVE Ready'
    <2>a. /\ UNCHANGED <<job, count>> /\ wpc[w] \in Processing
          /\ file' = file \/ \E s \in {"processing", "completed", "failed"} : RowSet(w, s)
      BY <1>9, PlanRow
    <2>b. job[wjob[w]] = "processing"
      BY <2>a DEF Taken
    <2>c. \A j \in Jobs \ {wjob[w]}, f \in Files : file'[j][f] = file[j][f]
      BY <2>a DEF RowSet
    <2>1. /\ \A j \in Jobs \ {wjob[w]}, f \in Files : file'[j][f] = file[j][f]
          /\ job[wjob[w]] = "processing" /\ UNCHANGED <<job, count>>
      BY <2>a, <2>b, <2>c
    <2> HIDE DEF TypeOK, Knows
    <2>2. ASSUME NEW k \in Jobs, job'[k] = "queued"
          PROVE  /\ \A f \in Batch[k] : file'[k][f] \in {"queued", "completed"}
                 /\ count'[k] = DoneCount(file'[k])
      <3>1. k # wjob[w] /\ job[k] = "queued" /\ count'[k] = count[k]
        BY <2>1, <2>2
      <3>2. DoneCount(file'[k]) = DoneCount(file[k])
        BY <2>1, <3>1, SameRows
      <3>3. QED
        BY <2>1, <3>1, <3>2, BatchAssumption DEF Ready
    <2>3. QED
      BY <2>2 DEF Ready
  <1>10. ASSUME NEW w \in Workers, Extract(w) PROVE Ready'
    BY <1>10 DEF Extract, Outcome, Ready
  <1>11. ASSUME NEW w \in Workers, Commit(w) PROVE Ready'
    BY <1>11 DEF Commit, Outcome, Ready
  <1>12. ASSUME NEW w \in Workers, Owe(w) PROVE Ready'
    BY <1>12 DEF Owe, OwedDomain, Outcome, wlocal, Ready
  <1>13. ASSUME NEW w \in Workers, Settle(w) PROVE Ready'
    <2>a. /\ UNCHANGED <<job, count>> /\ wpc[w] \in Processing
          /\ file' = file \/ \E s \in {"processing", "completed", "failed"} : RowSet(w, s)
      BY <1>13, SettleRow
    <2>b. job[wjob[w]] = "processing"
      BY <2>a DEF Taken
    <2>c. \A j \in Jobs \ {wjob[w]}, f \in Files : file'[j][f] = file[j][f]
      BY <2>a DEF RowSet
    <2>1. /\ \A j \in Jobs \ {wjob[w]}, f \in Files : file'[j][f] = file[j][f]
          /\ job[wjob[w]] = "processing" /\ UNCHANGED <<job, count>>
      BY <2>a, <2>b, <2>c
    <2> HIDE DEF TypeOK, Knows
    <2>2. ASSUME NEW k \in Jobs, job'[k] = "queued"
          PROVE  /\ \A f \in Batch[k] : file'[k][f] \in {"queued", "completed"}
                 /\ count'[k] = DoneCount(file'[k])
      <3>1. k # wjob[w] /\ job[k] = "queued" /\ count'[k] = count[k]
        BY <2>1, <2>2
      <3>2. DoneCount(file'[k]) = DoneCount(file[k])
        BY <2>1, <3>1, SameRows
      <3>3. QED
        BY <2>1, <3>1, <3>2, BatchAssumption DEF Ready
    <2>3. QED
      BY <2>2 DEF Ready
  <1>14. ASSUME NEW w \in Workers, Tally(w) PROVE Ready'
    <2>1. /\ \A j \in Jobs \ {wjob[w]} : count'[j] = count[j]
          /\ job[wjob[w]] = "processing" /\ UNCHANGED <<job, file>>
      BY <1>14 DEF Tally, Taken
    <2>2. QED
      BY <2>1 DEF Ready
  <1>15. ASSUME NEW w \in Workers, Finalize(w) PROVE Ready'
    BY <1>15 DEF Finalize, Ready
  <1>16. ASSUME NEW w \in Workers, Finalized(w) PROVE Ready'
    BY <1>16 DEF Finalized, FinalState, wlocal, Ready
  <1>17. ASSUME NEW w \in Workers, Finish(w) PROVE Ready'
    <2>1. /\ \A j \in Jobs : job'[j] = "queued" => job[j] = "queued"
          /\ UNCHANGED <<file, count>>
      BY <1>17 DEF Finish, FinalStatus
    <2>2. QED
      BY <2>1 DEF Ready
  <1>18. ASSUME NEW w \in Workers, Crash(w) PROVE Ready'
    BY <1>18 DEF Crash, Ended, Ready
  <1>19. ASSUME NEW w \in Workers, NEW d \in Domains, Rebuild(w, d) PROVE Ready'
    BY <1>19 DEF Rebuild, Ready
  <1>20. ASSUME NEW c \in Clients, NEW j \in Jobs, Submit(c, j) PROVE Ready'
    <2>1. /\ job[j] = "none" /\ UNCHANGED count /\ \A k \in Jobs \ {j} : job'[k] = job[k]
          /\ \A k \in Jobs, f \in Files :
                file'[k][f] = IF k = j THEN IF f \in Batch[j] THEN "queued" ELSE "none"
                              ELSE file[k][f]
      BY <1>20, SubmitRows
    <2>2. count[j] = 0
      BY <2>1 DEF Unused
    <2> HIDE DEF TypeOK, Knows
    <2>3. {f \in Files : file'[j][f] = "completed"} = {}
      BY <2>1
    <2>4. DoneCount(file'[j]) = 0
      BY <2>3, FS_EmptySet DEF DoneCount
    <2>5. ASSUME NEW k \in Jobs \ {j}, job'[k] = "queued"
          PROVE  /\ \A f \in Batch[k] : file'[k][f] \in {"queued", "completed"}
                 /\ count'[k] = DoneCount(file'[k])
      BY <2>1, <2>5, SameRows, BatchAssumption DEF Ready
    <2>6. QED
      BY <2>1, <2>2, <2>4, <2>5, BatchAssumption DEF Ready
  <1>21. ASSUME NEW c \in Clients, NEW j \in Jobs, RetryRead(c, j) PROVE Ready'
    BY <1>21 DEF RetryRead, wlocal, Ready
  <1>22. ASSUME NEW c \in Clients, EnsureWorkerRunning(c) PROVE Ready'
    BY <1>22 DEF EnsureWorkerRunning, Probe, LiveWorker, wlocal, Ready
  <1>23. ASSUME NEW c \in Clients, Spawn(c) PROVE Ready'
    BY <1>23 DEF Spawn, Unprobe, wlocal, Ready
  <1>24. ASSUME NEW c \in Clients, RetryProbe(c) PROVE Ready'
    BY <1>24 DEF RetryProbe, Probe, LiveWorker, wlocal, Ready
  <1>25. ASSUME NEW c \in Clients, RetryStalled(c) PROVE Ready'
    BY <1>25 DEF RetryStalled, Unprobe, wlocal, Ready
  <1>26. ASSUME NEW c \in Clients, SelectRows(c) PROVE Ready'
    BY <1>26 DEF SelectRows, ToReset, FilesOf, wlocal, Ready
  <1>27. ASSUME NEW c \in Clients, RetryReset(c) PROVE Ready'
    <2>1. /\ cjob[c] \in Jobs /\ cpc[c] = "reset" /\ \A k \in Jobs \ {cjob[c]} : job'[k] = job[k]
          /\ count'[cjob[c]] = DoneCount(file'[cjob[c]])
          /\ \A k \in Jobs \ {cjob[c]} : count'[k] = count[k]
          /\ \A k \in Jobs, f \in Files :
                file'[k][f] = IF k = cjob[c] /\ f \in cnames[c] THEN "queued" ELSE file[k][f]
      BY <1>27, ResetRows
    <2> HIDE DEF TypeOK, Knows
    <2>2. \A f \in Batch[cjob[c]] : file'[cjob[c]][f] \in {"queued", "completed"}
      BY <2>1, BatchAssumption DEF Selected
    <2>3. ASSUME NEW k \in Jobs \ {cjob[c]}, job'[k] = "queued"
          PROVE  /\ \A f \in Batch[k] : file'[k][f] \in {"queued", "completed"}
                 /\ count'[k] = DoneCount(file'[k])
      BY <2>1, <2>3, SameRows, BatchAssumption DEF Ready
    <2>4. QED
      BY <2>1, <2>2, <2>3 DEF Ready
  <1>28. ASSUME NEW c \in Clients, Repair(c) PROVE Ready'
    BY <1>28 DEF Repair, wlocal, Ready
  <1>29. ASSUME NEW c \in Clients, Resolve(c) PROVE Ready'
    BY <1>29 DEF Resolve, wlocal, Ready
  <1>30. CASE UNCHANGED vars
    BY <1>30 DEF vars, wlocal, Ready
  <1>31. QED
    BY <1>1, <1>2, <1>3, <1>4, <1>5, <1>6, <1>7, <1>8, <1>9, <1>10, <1>11,
       <1>12, <1>13, <1>14, <1>15, <1>16, <1>17, <1>18, <1>19, <1>20, <1>21,
       <1>22, <1>23, <1>24, <1>25, <1>26, <1>27, <1>28, <1>29, <1>30
    DEF Next, Step, Begin, Continue

(* A retry resets the rows it has selected, and nobody touches them before.*)
LEMMA SelectedStep ==
    ASSUME OneRetry, NoneRefused, TypeOK, Knows, OneWorker, Taken, Retrying, Listed,
           Selected, NoFileLeftBehind, [Next]_vars
    PROVE  Selected'
  <1> USE DEF Goto, CGoto, registry, stores, pidfile, client, used, Processing, TypeOK,
      Knows
  <1>1. ASSUME NEW w \in Workers, OpenPidFile(w) PROVE Selected'
    BY <1>1 DEF OpenPidFile, Selected
  <1>2. ASSUME NEW w \in Workers, TakeLock(w) PROVE Selected'
    BY <1>2 DEF TakeLock, Selected
  <1>3. ASSUME NEW w \in Workers, Poll(w) PROVE Selected'
    BY <1>3 DEF Poll, Selected
  <1>4. ASSUME NEW w \in Workers, Leave(w) PROVE Selected'
    BY <1>4 DEF Leave, Ended, PathAfterRelease, Selected
  <1>5. ASSUME NEW w \in Workers, ReadFiles(w) PROVE Selected'
    BY <1>5 DEF ReadFiles, FilesOf, Selected
  <1>6. ASSUME NEW w \in Workers, Mark(w) PROVE Selected'
    BY <1>6 DEF Mark, Defers, Selected
  <1>7. ASSUME NEW w \in Workers, NextFile(w) PROVE Selected'
    BY <1>7 DEF NextFile, Selected
  <1>8. ASSUME NEW w \in Workers, NoMoreFiles(w) PROVE Selected'
    BY <1>8 DEF NoMoreFiles, wlocal, Selected
  <1>9. ASSUME NEW w \in Workers, Plan(w) PROVE Selected'
    <2>a. /\ UNCHANGED <<cpc, cjob, cnames>> /\ wpc[w] \in Processing
          /\ file' = file \/ \E s \in {"processing", "completed", "failed"} : RowSet(w, s)
      BY <1>9, PlanRow
    <2>1. /\ \A j \in Jobs \ {wjob[w]}, f \in Files : file'[j][f] = file[j][f]
          /\ Has(w, wjob[w]) /\ UNCHANGED <<cpc, cjob, cnames>>
      BY <2>a DEF RowSet, Has
    <2> HIDE DEF TypeOK
    <2>2. \A c \in Clients : cpc[c] = "reset" => cjob[c] \in Jobs \ {wjob[w]}
      BY <2>1 DEF Retrying, Knows, TypeOK
    <2> HIDE DEF Knows
    <2>3. QED
      BY <2>1, <2>2, BatchAssumption DEF Selected
  <1>10. ASSUME NEW w \in Workers, Extract(w) PROVE Selected'
    BY <1>10 DEF Extract, Outcome, Selected
  <1>11. ASSUME NEW w \in Workers, Commit(w) PROVE Selected'
    BY <1>11 DEF Commit, Outcome, Selected
  <1>12. ASSUME NEW w \in Workers, Owe(w) PROVE Selected'
    BY <1>12 DEF Owe, OwedDomain, Outcome, wlocal, Selected
  <1>13. ASSUME NEW w \in Workers, Settle(w) PROVE Selected'
    <2>a. /\ UNCHANGED <<cpc, cjob, cnames>> /\ wpc[w] \in Processing
          /\ file' = file \/ \E s \in {"processing", "completed", "failed"} : RowSet(w, s)
      BY <1>13, SettleRow
    <2>1. /\ \A j \in Jobs \ {wjob[w]}, f \in Files : file'[j][f] = file[j][f]
          /\ Has(w, wjob[w]) /\ UNCHANGED <<cpc, cjob, cnames>>
      BY <2>a DEF RowSet, Has
    <2> HIDE DEF TypeOK
    <2>2. \A c \in Clients : cpc[c] = "reset" => cjob[c] \in Jobs \ {wjob[w]}
      BY <2>1 DEF Retrying, Knows, TypeOK
    <2> HIDE DEF Knows
    <2>3. QED
      BY <2>1, <2>2, BatchAssumption DEF Selected
  <1>14. ASSUME NEW w \in Workers, Tally(w) PROVE Selected'
    BY <1>14 DEF Tally, Selected
  <1>15. ASSUME NEW w \in Workers, Finalize(w) PROVE Selected'
    BY <1>15 DEF Finalize, Selected
  <1>16. ASSUME NEW w \in Workers, Finalized(w) PROVE Selected'
    BY <1>16 DEF Finalized, FinalState, wlocal, Selected
  <1>17. ASSUME NEW w \in Workers, Finish(w) PROVE Selected'
    BY <1>17 DEF Finish, FinalStatus, wlocal, Selected
  <1>18. ASSUME NEW w \in Workers, Crash(w) PROVE Selected'
    BY <1>18 DEF Crash, Ended, Selected
  <1>19. ASSUME NEW w \in Workers, NEW d \in Domains, Rebuild(w, d) PROVE Selected'
    BY <1>19 DEF Rebuild, Selected
  <1>20. ASSUME NEW c \in Clients, NEW j \in Jobs, Submit(c, j) PROVE Selected'
    <2>1. cpc' = [cpc EXCEPT ![c] = "ensure"]
      BY <1>20, SubmitRows
    <2>2. \A d \in Clients : cpc'[d] # "reset"
      BY <2>1 DEF OneRetry
    <2>3. QED
      BY <2>2 DEF Selected
  <1>21. ASSUME NEW c \in Clients, NEW j \in Jobs, RetryRead(c, j) PROVE Selected'
    BY <1>21 DEF RetryRead, wlocal, Selected
  <1>22. ASSUME NEW c \in Clients, EnsureWorkerRunning(c) PROVE Selected'
    BY <1>22 DEF EnsureWorkerRunning, Probe, LiveWorker, wlocal, Selected
  <1>23. ASSUME NEW c \in Clients, Spawn(c) PROVE Selected'
    BY <1>23 DEF Spawn, Unprobe, wlocal, Selected
  <1>24. ASSUME NEW c \in Clients, RetryProbe(c) PROVE Selected'
    BY <1>24 DEF RetryProbe, Probe, LiveWorker, wlocal, Selected
  <1>25. ASSUME NEW c \in Clients, RetryStalled(c) PROVE Selected'
    BY <1>25 DEF RetryStalled, Unprobe, wlocal, Selected
  <1>26. ASSUME NEW c \in Clients, SelectRows(c) PROVE Selected'
    <2> DEFINE names == ToReset(cjob[c], cpc[c] = "stalled")
    <2>1. /\ cpc[c] \in {"failed", "stalled"} /\ cnames' = [cnames EXCEPT ![c] = names]
          /\ UNCHANGED <<file, cjob>> /\ cjob[c] \in Jobs
      BY <1>26 DEF SelectRows, wlocal
    <2>2. cpc[c] = "failed" => job[cjob[c]] \in {"completed", "failed"}
      BY DEF Retrying
    <2>3. ASSUME NEW f \in Files
          PROVE  /\ f \in names => file[cjob[c]][f] \in {"failed", "processing"}
                 /\ f \in Batch[cjob[c]] \ names => file[cjob[c]][f] \in {"queued", "completed"}
      <3>1. f \in names => file[cjob[c]][f] \in {"failed", "processing"}
        BY <2>1 DEF ToReset, FilesOf
      <3>2. f \in Batch[cjob[c]] => file[cjob[c]][f] # "none"
        BY <2>1 DEF Listed, Retrying
      <3>3. f \in Batch[cjob[c]] \ names => file[cjob[c]][f] \in {"queued", "completed"}
        <4>1. file[cjob[c]][f] \in FileStatus
          BY <2>1 DEF FileStatus
        <4>2. cpc[c] = "failed" /\ f \in Batch[cjob[c]] => file[cjob[c]][f] \in {"completed", "failed"}
          BY <2>1, <2>2 DEF NoFileLeftBehind, Finished
        <4>3. f \notin names =>
                /\ file[cjob[c]][f] # "failed"
                /\ cpc[c] = "stalled" => file[cjob[c]][f] # "processing"
          BY DEF ToReset, FilesOf
        <4>4. QED
          BY <2>1, <3>2, <4>1, <4>2, <4>3 DEF FileStatus
      <3>4. QED
        BY <3>1, <3>3
    <2>4. cnames'[c] = names
      BY <2>1
    <2>5. \A d \in Clients : d = c
      BY DEF OneRetry
    <2> HIDE DEF names, TypeOK, Knows
    <2>6. QED
      BY <2>1, <2>3, <2>4, <2>5 DEF Selected
  <1>27. ASSUME NEW c \in Clients, RetryReset(c) PROVE Selected'
    <2>1. cpc' = [cpc EXCEPT ![c] = "ensure"]
      BY <1>27, ResetRows
    <2>2. \A d \in Clients : cpc'[d] # "reset"
      BY <2>1 DEF OneRetry
    <2>3. QED
      BY <2>2 DEF Selected
  <1>28. ASSUME NEW c \in Clients, Repair(c) PROVE Selected'
    BY <1>28 DEF Repair, wlocal, Selected
  <1>29. ASSUME NEW c \in Clients, Resolve(c) PROVE Selected'
    BY <1>29 DEF Resolve, wlocal, Selected
  <1>30. CASE UNCHANGED vars
    BY <1>30 DEF vars, wlocal, Selected
  <1>31. QED
    BY <1>1, <1>2, <1>3, <1>4, <1>5, <1>6, <1>7, <1>8, <1>9, <1>10, <1>11,
       <1>12, <1>13, <1>14, <1>15, <1>16, <1>17, <1>18, <1>19, <1>20, <1>21,
       <1>22, <1>23, <1>24, <1>25, <1>26, <1>27, <1>28, <1>29, <1>30
    DEF Next, Step, Begin, Continue

(* Nothing is counted of a job before it is submitted.                     *)
LEMMA UnusedStep ==
    ASSUME NoneRefused, TypeOK, Knows, OneWorker, Taken, Retrying, Unused, [Next]_vars
    PROVE  Unused'
  <1> USE DEF Goto, CGoto, registry, stores, pidfile, client, used, Processing, TypeOK,
      Knows
  <1>1. ASSUME NEW w \in Workers, OpenPidFile(w) PROVE Unused'
    BY <1>1 DEF OpenPidFile, Unused
  <1>2. ASSUME NEW w \in Workers, TakeLock(w) PROVE Unused'
    BY <1>2 DEF TakeLock, Unused
  <1>3. ASSUME NEW w \in Workers, Poll(w) PROVE Unused'
    BY <1>3 DEF Poll, Unused
  <1>4. ASSUME NEW w \in Workers, Leave(w) PROVE Unused'
    BY <1>4 DEF Leave, Ended, PathAfterRelease, Unused
  <1>5. ASSUME NEW w \in Workers, ReadFiles(w) PROVE Unused'
    BY <1>5 DEF ReadFiles, FilesOf, Unused
  <1>6. ASSUME NEW w \in Workers, Mark(w) PROVE Unused'
    <2>1. count' = count /\ \A j \in Jobs : job'[j] = "none" => job[j] = "none"
      BY <1>6 DEF Mark
    <2>2. QED
      BY <2>1 DEF Unused
  <1>7. ASSUME NEW w \in Workers, NextFile(w) PROVE Unused'
    BY <1>7 DEF NextFile, Unused
  <1>8. ASSUME NEW w \in Workers, NoMoreFiles(w) PROVE Unused'
    BY <1>8 DEF NoMoreFiles, wlocal, Unused
  <1>9. ASSUME NEW w \in Workers, Plan(w) PROVE Unused'
    BY <1>9, PlanRow DEF Unused
  <1>10. ASSUME NEW w \in Workers, Extract(w) PROVE Unused'
    BY <1>10 DEF Extract, Outcome, Unused
  <1>11. ASSUME NEW w \in Workers, Commit(w) PROVE Unused'
    BY <1>11 DEF Commit, Outcome, Unused
  <1>12. ASSUME NEW w \in Workers, Owe(w) PROVE Unused'
    BY <1>12 DEF Owe, OwedDomain, Outcome, wlocal, Unused
  <1>13. ASSUME NEW w \in Workers, Settle(w) PROVE Unused'
    BY <1>13, SettleRow DEF Unused
  <1>14. ASSUME NEW w \in Workers, Tally(w) PROVE Unused'
    <2>1. /\ job' = job /\ job[wjob[w]] = "processing"
          /\ \A j \in Jobs \ {wjob[w]} : count'[j] = count[j]
      BY <1>14 DEF Tally, Taken
    <2>2. QED
      BY <2>1 DEF Unused
  <1>15. ASSUME NEW w \in Workers, Finalize(w) PROVE Unused'
    BY <1>15 DEF Finalize, Unused
  <1>16. ASSUME NEW w \in Workers, Finalized(w) PROVE Unused'
    BY <1>16 DEF Finalized, FinalState, wlocal, Unused
  <1>17. ASSUME NEW w \in Workers, Finish(w) PROVE Unused'
    <2>1. job' = [job EXCEPT ![wjob[w]] = FinalStatus(wjob[w])] /\ count' = count
      BY <1>17 DEF Finish
    <2>2. FinalStatus(wjob[w]) # "none"
      BY DEF FinalStatus
    <2>3. QED
      BY <2>1, <2>2 DEF Unused
  <1>18. ASSUME NEW w \in Workers, Crash(w) PROVE Unused'
    BY <1>18 DEF Crash, Ended, Unused
  <1>19. ASSUME NEW w \in Workers, NEW d \in Domains, Rebuild(w, d) PROVE Unused'
    BY <1>19 DEF Rebuild, Unused
  <1>20. ASSUME NEW c \in Clients, NEW j \in Jobs, Submit(c, j) PROVE Unused'
    BY <1>20, SubmitRows DEF Unused
  <1>21. ASSUME NEW c \in Clients, NEW j \in Jobs, RetryRead(c, j) PROVE Unused'
    BY <1>21 DEF RetryRead, wlocal, Unused
  <1>22. ASSUME NEW c \in Clients, EnsureWorkerRunning(c) PROVE Unused'
    BY <1>22 DEF EnsureWorkerRunning, Probe, LiveWorker, wlocal, Unused
  <1>23. ASSUME NEW c \in Clients, Spawn(c) PROVE Unused'
    BY <1>23 DEF Spawn, Unprobe, wlocal, Unused
  <1>24. ASSUME NEW c \in Clients, RetryProbe(c) PROVE Unused'
    BY <1>24 DEF RetryProbe, Probe, LiveWorker, wlocal, Unused
  <1>25. ASSUME NEW c \in Clients, RetryStalled(c) PROVE Unused'
    BY <1>25 DEF RetryStalled, Unprobe, wlocal, Unused
  <1>26. ASSUME NEW c \in Clients, SelectRows(c) PROVE Unused'
    BY <1>26 DEF SelectRows, ToReset, FilesOf, wlocal, Unused
  <1>27. ASSUME NEW c \in Clients, RetryReset(c) PROVE Unused'
    <2>1. /\ job' = [job EXCEPT ![cjob[c]] = "queued"] /\ cjob[c] \in Jobs
          /\ \A k \in Jobs \ {cjob[c]} : count'[k] = count[k]
      BY <1>27, ResetRows
    <2>2. QED
      BY <2>1 DEF Unused
  <1>28. ASSUME NEW c \in Clients, Repair(c) PROVE Unused'
    BY <1>28 DEF Repair, wlocal, Unused
  <1>29. ASSUME NEW c \in Clients, Resolve(c) PROVE Unused'
    BY <1>29 DEF Resolve, wlocal, Unused
  <1>30. CASE UNCHANGED vars
    BY <1>30 DEF vars, wlocal, Unused
  <1>31. QED
    BY <1>1, <1>2, <1>3, <1>4, <1>5, <1>6, <1>7, <1>8, <1>9, <1>10, <1>11,
       <1>12, <1>13, <1>14, <1>15, <1>16, <1>17, <1>18, <1>19, <1>20, <1>21,
       <1>22, <1>23, <1>24, <1>25, <1>26, <1>27, <1>28, <1>29, <1>30
    DEF Next, Step, Begin, Continue

(* A job that is finished, and a whole batch settled and counted.          *)
Whole(j) == /\ count[j] = Cardinality(Batch[j])
            /\ \A f \in Batch[j] : file[j][f] \in {"completed", "failed"}

Settled == \A j \in Jobs : Finished(j) => Whole(j)

(* A job that no step has finished or put back is as it was.               *)
LEMMA AsItWas ==
    ASSUME CountMatches, NoFileLeftBehind, NEW j \in Jobs, job[j] \in {"completed",
           "failed"},
           count'[j] = count[j], \A f \in Files : file'[j][f] = file[j][f]
    PROVE  Whole(j)'
  BY BatchAssumption DEF CountMatches, NoFileLeftBehind, Finished, Whole

(* A job is finished by the worker that has settled and counted its batch, *)
(* and a finished job is changed by nothing but a retry.                   *)
LEMMA SettledStep ==
    ASSUME NoneRefused, TypeOK, Knows, OneWorker, Taken, Retrying, Working, Tallied,
           CountMatches, NoFileLeftBehind, [Next]_vars
    PROVE  Settled'
  <1> USE DEF Goto, CGoto, registry, stores, pidfile, client, used, Processing, TypeOK,
      Knows
  <1>1. ASSUME NEW w \in Workers, OpenPidFile(w) PROVE Settled'
    BY <1>1 DEF OpenPidFile, Settled, Whole, CountMatches, NoFileLeftBehind, Finished
  <1>2. ASSUME NEW w \in Workers, TakeLock(w) PROVE Settled'
    BY <1>2 DEF TakeLock, Settled, Whole, CountMatches, NoFileLeftBehind, Finished
  <1>3. ASSUME NEW w \in Workers, Poll(w) PROVE Settled'
    BY <1>3 DEF Poll, Settled, Whole, CountMatches, NoFileLeftBehind, Finished
  <1>4. ASSUME NEW w \in Workers, Leave(w) PROVE Settled'
    BY <1>4 DEF Leave, Ended, PathAfterRelease, Settled, Whole, CountMatches, NoFileLeftBehind, Finished
  <1>5. ASSUME NEW w \in Workers, ReadFiles(w) PROVE Settled'
    BY <1>5 DEF ReadFiles, FilesOf, Settled, Whole, CountMatches, NoFileLeftBehind, Finished
  <1>6. ASSUME NEW w \in Workers, Mark(w) PROVE Settled'
    <2>1. /\ UNCHANGED <<file, count>>
          /\ \A k \in Jobs : job'[k] \in {"completed", "failed"} => job[k] = job'[k]
      BY <1>6 DEF Mark
    <2>2. QED
      BY <2>1, AsItWas DEF Settled, Finished
  <1>7. ASSUME NEW w \in Workers, NextFile(w) PROVE Settled'
    BY <1>7 DEF NextFile, Settled, Whole, CountMatches, NoFileLeftBehind, Finished
  <1>8. ASSUME NEW w \in Workers, NoMoreFiles(w) PROVE Settled'
    BY <1>8 DEF NoMoreFiles, wlocal, Settled, Whole, CountMatches, NoFileLeftBehind, Finished
  <1>9. ASSUME NEW w \in Workers, Plan(w) PROVE Settled'
    <2>1. /\ UNCHANGED <<job, count>> /\ wpc[w] \in Processing
          /\ file' = file \/ \E s \in {"processing", "completed", "failed"} : RowSet(w, s)
      BY <1>9, PlanRow
    <2>2. job[wjob[w]] = "processing"
      BY <2>1 DEF Taken
    <2>3. ASSUME NEW j \in Jobs, job'[j] \in {"completed", "failed"} PROVE Whole(j)'
      <3>1. j # wjob[w] /\ job[j] \in {"completed", "failed"} /\ count'[j] = count[j]
        BY <2>1, <2>2, <2>3
      <3>2. \A f \in Files : file'[j][f] = file[j][f]
        BY <2>1, <3>1 DEF RowSet
      <3>3. QED
        BY <3>1, <3>2, AsItWas
    <2>4. QED
      BY <2>3 DEF Settled, Finished
  <1>10. ASSUME NEW w \in Workers, Extract(w) PROVE Settled'
    BY <1>10 DEF Extract, Outcome, Settled, Whole, CountMatches, NoFileLeftBehind, Finished
  <1>11. ASSUME NEW w \in Workers, Commit(w) PROVE Settled'
    BY <1>11 DEF Commit, Outcome, Settled, Whole, CountMatches, NoFileLeftBehind, Finished
  <1>12. ASSUME NEW w \in Workers, Owe(w) PROVE Settled'
    BY <1>12 DEF Owe, OwedDomain, Outcome, wlocal, Settled, Whole, CountMatches, NoFileLeftBehind, Finished
  <1>13. ASSUME NEW w \in Workers, Settle(w) PROVE Settled'
    <2>1. /\ UNCHANGED <<job, count>> /\ wpc[w] \in Processing
          /\ file' = file \/ \E s \in {"processing", "completed", "failed"} : RowSet(w, s)
      BY <1>13, SettleRow
    <2>2. job[wjob[w]] = "processing"
      BY <2>1 DEF Taken
    <2>3. ASSUME NEW j \in Jobs, job'[j] \in {"completed", "failed"} PROVE Whole(j)'
      <3>1. j # wjob[w] /\ job[j] \in {"completed", "failed"} /\ count'[j] = count[j]
        BY <2>1, <2>2, <2>3
      <3>2. \A f \in Files : file'[j][f] = file[j][f]
        BY <2>1, <3>1 DEF RowSet
      <3>3. QED
        BY <3>1, <3>2, AsItWas
    <2>4. QED
      BY <2>3 DEF Settled, Finished
  <1>14. ASSUME NEW w \in Workers, Tally(w) PROVE Settled'
    <2>1. /\ UNCHANGED <<job, file>> /\ job[wjob[w]] = "processing"
          /\ \A k \in Jobs \ {wjob[w]} : count'[k] = count[k]
      BY <1>14 DEF Tally, Taken
    <2>2. ASSUME NEW k \in Jobs, job'[k] \in {"completed", "failed"} PROVE Whole(k)'
      <3>1. k # wjob[w] /\ job[k] \in {"completed", "failed"}
        BY <2>1, <2>2
      <3>2. QED
        BY <2>1, <3>1, AsItWas
    <2>3. QED
      BY <2>2 DEF Settled, Finished
  <1>15. ASSUME NEW w \in Workers, Finalize(w) PROVE Settled'
    BY <1>15 DEF Finalize, Settled, Whole, CountMatches, NoFileLeftBehind, Finished
  <1>16. ASSUME NEW w \in Workers, Finalized(w) PROVE Settled'
    BY <1>16 DEF Finalized, FinalState, wlocal, Settled, Whole, CountMatches, NoFileLeftBehind, Finished
  <1>17. ASSUME NEW w \in Workers, Finish(w) PROVE Settled'
    <2>1. /\ wpc[w] = "finish" /\ wjob[w] \in Jobs /\ UNCHANGED <<file, count>>
          /\ job' = [job EXCEPT ![wjob[w]] = FinalStatus(wjob[w])]
      BY <1>17 DEF Finish
    <2>2. WorkingOn(w) /\ TallyOf(w) /\ wtally[w] \in Nat
      BY DEF Working, Tallied
    <2> HIDE DEF TypeOK, Knows
    <2>3. /\ wtodo[w] = {} /\ count[wjob[w]] = wtally[w]
          /\ wtally[w] + Cardinality(wtodo[w]) + 0 = Cardinality(Batch[wjob[w]])
          /\ \A f \in Batch[wjob[w]] : file[wjob[w]][f] \in {"completed", "failed"}
      BY <2>1, <2>2 DEF WorkingOn, TallyOf, InFile
    <2>4. count[wjob[w]] = Cardinality(Batch[wjob[w]])
      BY <2>2, <2>3, FS_EmptySet
    <2>5. ASSUME NEW j \in Jobs, job'[j] \in {"completed", "failed"} PROVE Whole(j)'
      <3>1. CASE j = wjob[w]
        BY <2>1, <2>3, <2>4, <3>1 DEF Whole
      <3>2. CASE j # wjob[w]
        <4>1. job[j] \in {"completed", "failed"}
          BY <2>1, <2>5, <3>2
        <4>2. QED
          BY <2>1, <4>1, AsItWas
      <3>3. QED
        BY <3>1, <3>2
    <2>6. QED
      BY <2>5 DEF Settled, Finished
  <1>18. ASSUME NEW w \in Workers, Crash(w) PROVE Settled'
    BY <1>18 DEF Crash, Ended, Settled, Whole, CountMatches, NoFileLeftBehind, Finished
  <1>19. ASSUME NEW w \in Workers, NEW d \in Domains, Rebuild(w, d) PROVE Settled'
    BY <1>19 DEF Rebuild, Settled, Whole, CountMatches, NoFileLeftBehind, Finished
  <1>20. ASSUME NEW c \in Clients, NEW j \in Jobs, Submit(c, j) PROVE Settled'
    <2>1. /\ count' = count /\ job' = [job EXCEPT ![j] = "queued"]
          /\ \A k \in Jobs \ {j}, f \in Files : file'[k][f] = file[k][f]
      BY <1>20, SubmitRows
    <2>2. ASSUME NEW k \in Jobs, job'[k] \in {"completed", "failed"} PROVE Whole(k)'
      <3>1. k # j /\ job[k] \in {"completed", "failed"}
        BY <2>1, <2>2
      <3>2. QED
        BY <2>1, <3>1, AsItWas
    <2>3. QED
      BY <2>2 DEF Settled, Finished
  <1>21. ASSUME NEW c \in Clients, NEW j \in Jobs, RetryRead(c, j) PROVE Settled'
    BY <1>21 DEF RetryRead, wlocal, Settled, Whole, CountMatches, NoFileLeftBehind, Finished
  <1>22. ASSUME NEW c \in Clients, EnsureWorkerRunning(c) PROVE Settled'
    BY <1>22 DEF EnsureWorkerRunning, Probe, LiveWorker, wlocal, Settled, Whole, CountMatches, NoFileLeftBehind, Finished
  <1>23. ASSUME NEW c \in Clients, Spawn(c) PROVE Settled'
    BY <1>23 DEF Spawn, Unprobe, wlocal, Settled, Whole, CountMatches, NoFileLeftBehind, Finished
  <1>24. ASSUME NEW c \in Clients, RetryProbe(c) PROVE Settled'
    BY <1>24 DEF RetryProbe, Probe, LiveWorker, wlocal, Settled, Whole, CountMatches, NoFileLeftBehind, Finished
  <1>25. ASSUME NEW c \in Clients, RetryStalled(c) PROVE Settled'
    BY <1>25 DEF RetryStalled, Unprobe, wlocal, Settled, Whole, CountMatches, NoFileLeftBehind, Finished
  <1>26. ASSUME NEW c \in Clients, SelectRows(c) PROVE Settled'
    BY <1>26 DEF SelectRows, ToReset, FilesOf, wlocal, Settled, Whole, CountMatches, NoFileLeftBehind, Finished
  <1>27. ASSUME NEW c \in Clients, RetryReset(c) PROVE Settled'
    <2>1. /\ job' = [job EXCEPT ![cjob[c]] = "queued"] /\ cjob[c] \in Jobs
          /\ \A k \in Jobs \ {cjob[c]}, f \in Files : file'[k][f] = file[k][f]
          /\ \A k \in Jobs \ {cjob[c]} : count'[k] = count[k]
      BY <1>27, ResetRows
    <2>2. ASSUME NEW k \in Jobs, job'[k] \in {"completed", "failed"} PROVE Whole(k)'
      <3>1. k # cjob[c] /\ job[k] \in {"completed", "failed"}
        BY <2>1, <2>2
      <3>2. QED
        BY <2>1, <3>1, AsItWas
    <2>3. QED
      BY <2>2 DEF Settled, Finished
  <1>28. ASSUME NEW c \in Clients, Repair(c) PROVE Settled'
    BY <1>28 DEF Repair, wlocal, Settled, Whole, CountMatches, NoFileLeftBehind, Finished
  <1>29. ASSUME NEW c \in Clients, Resolve(c) PROVE Settled'
    BY <1>29 DEF Resolve, wlocal, Settled, Whole, CountMatches, NoFileLeftBehind, Finished
  <1>30. CASE UNCHANGED vars
    BY <1>30 DEF vars, wlocal, Settled, Whole, CountMatches, NoFileLeftBehind, Finished
  <1>31. QED
    BY <1>1, <1>2, <1>3, <1>4, <1>5, <1>6, <1>7, <1>8, <1>9, <1>10, <1>11,
       <1>12, <1>13, <1>14, <1>15, <1>16, <1>17, <1>18, <1>19, <1>20, <1>21,
       <1>22, <1>23, <1>24, <1>25, <1>26, <1>27, <1>28, <1>29, <1>30
    DEF Next, Step, Begin, Continue

(* All that is kept of rows and counts.                                    *)
LEMMA AlwaysCounts == ASSUME OneRetry, NoneRefused PROVE Spec => []Counts
  <1>1. Init => Counts
    <2> SUFFICES ASSUME Init PROVE Counts
      OBVIOUS
    <2>1. Unused /\ Listed /\ Ready /\ CountMatches /\ NoFileLeftBehind
      BY DEF Init, Unused, Listed, Ready, CountMatches, NoFileLeftBehind, Finished
    <2>2. Working /\ Tallied /\ Selected
      BY DEF Init, Working, WorkingOn, Tallied, TallyOf, Selected, InFile, Processing
    <2>3. QED
      BY <2>1, <2>2 DEF Counts
  <1>2. IInv /\ Course /\ Counts /\ [Next]_vars => Counts'
    <2> SUFFICES ASSUME IInv, Course, Counts, [Next]_vars PROVE Counts'
      OBVIOUS
    <2>1. TypeOK /\ Knows /\ OneWorker /\ Taken /\ Retrying
      BY OneAtATime DEF IInv, Course
    <2>2. Unused' /\ Listed' /\ Working' /\ Tallied'
      BY <2>1, UnusedStep, ListedStep, WorkingStep, TalliedStep DEF Counts
    <2>3. Ready' /\ Selected'
      BY <2>1, ReadyStep, SelectedStep DEF Counts
    <2>4. Settled'
      BY <2>1, SettledStep DEF Counts
    <2>5. CountMatches' /\ NoFileLeftBehind'
      BY <2>4 DEF Settled, Whole, CountMatches, NoFileLeftBehind
    <2>6. QED
      BY <2>2, <2>3, <2>5 DEF Counts
  <1>3. QED
    BY <1>1, <1>2, AlwaysCourse, PTL DEF Spec

(* worker.py:303-304, jobs.py:684-695.  Where one client retries at a time *)
(* and docling refuses no file, a finished job has counted each file of    *)
(* its batch once, through any crashes and retries.                        *)
THEOREM CountsMatch == ASSUME OneRetry, NoneRefused PROVE Spec => []CountMatches
  <1>1. Counts => CountMatches
    BY DEF Counts
  <1>2. QED
    BY <1>1, AlwaysCounts, PTL

(* worker.py:211-311, jobs.py:627-628.  Under the same assumptions a       *)
(* finished job has settled every file of its batch: no row is left        *)
(* queued or processing for nobody.                                        *)
THEOREM NoneLeftBehind == ASSUME OneRetry, NoneRefused PROVE Spec => []NoFileLeftBehind
  <1>1. Counts => NoFileLeftBehind
    BY DEF Counts
  <1>2. QED
    BY <1>1, AlwaysCounts, PTL

=============================================================================
