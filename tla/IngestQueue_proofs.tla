------------------------- MODULE IngestQueue_proofs -------------------------
(***************************************************************************)
(* Theorems about IngestQueue, for any number of workers, clients, jobs,   *)
(* files and domains, any batches, and any bounds on retries:              *)
(*   - its inductive invariant, and with it that two workers never run;    *)
(*   - a finalize marked done has rebuilt every domain its job owed;       *)
(*   - without crashes and repairs, what is committed but not rebuilt is   *)
(*     owed on some job's row;                                             *)
(*   - where only --reextract jobs commit, what is completed is committed. *)
(* The invariant is shown to hold conjunct by conjunct, each over the      *)
(* actions of Next.                                                        *)
(***************************************************************************)
EXTENDS IngestQueue, FiniteSetTheorems, WellFoundedInduction, TLAPS

(* The number of completed rows is a natural number: a batch is finite.    *)
LEMMA CountedInNat == ASSUME NEW rows PROVE DoneCount(rows) \in Nat
  <1> DEFINE S == {f \in Files : rows[f] = "completed"}
  <1>1. IsFiniteSet(S)
    BY FilesAssumption, FS_Subset
  <1>2. QED
    BY <1>1, FS_CardinalityType DEF DoneCount

(* The worker's query returns one of the queued jobs, when there is one.   *)
LEMMA OldestIsOne == ASSUME NEW js \in SUBSET Jobs, js # {} PROVE Oldest(js) \in js
  <1> DEFINE R == OpToRel(<, Nat)
  <1>1. js \subseteq Nat
    BY JobsAssumption
  <1>2. \E j \in js : \A k \in js : <<k, j>> \notin R
    <2> HIDE DEF R
    <2> QED
      BY <1>1, NatLessThanWellFounded, WFMin DEF R
  <1>3. \E j \in js : \A k \in js : j <= k
    <2>1. PICK j \in js : \A k \in js : <<k, j>> \notin R
      BY <1>2
    <2>2. ASSUME NEW k \in js PROVE <<k, j>> \in R <=> k < j
      <3>1. <<k, j>> \in Nat \X Nat /\ <<k, j>>[1] = k /\ <<k, j>>[2] = j
        BY <1>1
      <3>2. QED
        BY <3>1, Zenon DEF OpToRel
    <2>3. \A k \in js : ~ (k < j)
      BY <2>1, <2>2, Zenon
    <2>4. QED
      BY <1>1, <2>3
  <1>4. QED
    BY <1>3 DEF Oldest

(* Two workers past the lock would both hold the flock of the one inode.   *)
LEMMA OneAtATime == Locked => OneWorker
  BY DEF Locked, OneWorker

(* A write to one entry of a table leaves it a table of the same kind.     *)
LEMMA FieldType ==
  ASSUME NEW S, NEW V, NEW g \in [S -> V], NEW a, NEW v \in V
  PROVE  [g EXCEPT ![a] = v] \in [S -> V]
  OBVIOUS

(* The same, for a table of tables.                                        *)
LEMMA EntryType ==
  ASSUME NEW S, NEW T, NEW V, NEW g \in [S -> [T -> V]], NEW a, NEW b, NEW v \in V
  PROVE  [g EXCEPT ![a][b] = v] \in [S -> [T -> V]]
  OBVIOUS

-----------------------------------------------------------------------------
(* Every step keeps every variable in its type.                            *)
LEMMA TypeStep == ASSUME TypeOK, Knows, [Next]_vars PROVE TypeOK'
  <1> USE DEF Goto, CGoto, registry, stores, pidfile, client, used, Holding, Processing, TypeOK
  <1>1. ASSUME NEW w \in Workers, OpenPidFile(w) PROVE TypeOK'
    BY <1>1 DEF OpenPidFile
  <1>2. ASSUME NEW w \in Workers, TakeLock(w) PROVE TypeOK'
    <2>1. PICK p \in {"poll", "off"} : wpc' = [wpc EXCEPT ![w] = p]
      BY <1>2 DEF TakeLock
    <2>2. /\ lock' = lock \/ lock' = [lock EXCEPT ![wfd[w]] = w]
          /\ wfd' = wfd \/ wfd' = [wfd EXCEPT ![w] = None]
          /\ UNCHANGED <<registry, stores, path, wjob, wtodo, wtally, wdefer, wfile, wresult,
                 wleft, werror, client, used>>
      BY <1>2 DEF TakeLock
    <2>3. QED
      BY <2>1, <2>2
  <1>3. ASSUME NEW w \in Workers, Poll(w) PROVE TypeOK'
    <2>1. Queued # {} => Oldest(Queued) \in Jobs
      <3>1. Queued \in SUBSET Jobs
        BY DEF Queued
      <3>2. QED
        BY <3>1, OldestIsOne
    <2>2. QED
      <3>1. PICK p \in {"leave", "files"} : wpc' = [wpc EXCEPT ![w] = p]
        BY <1>3 DEF Poll
      <3>2. PICK j \in Jobs \cup {None} : wjob' = wjob \/ wjob' = [wjob EXCEPT ![w] = j]
        BY <1>3, <2>1 DEF Poll
      <3>3. QED
        BY <1>3, <3>1, <3>2 DEF Poll
  <1>4. ASSUME NEW w \in Workers, Leave(w) PROVE TypeOK'
    BY <1>4 DEF Leave, Ended, PathAfterRelease
  <1>5. ASSUME NEW w \in Workers, ReadFiles(w) PROVE TypeOK'
    <2>1. wjob[w] \in Jobs
      BY <1>5 DEF ReadFiles, Knows
    <2>2. QED
      BY <1>5, <2>1 DEF ReadFiles, FilesOf
  <1>6. ASSUME NEW w \in Workers, Mark(w) PROVE TypeOK'
    BY <1>6 DEF Mark, Defers
  <1>7. ASSUME NEW w \in Workers, NextFile(w) PROVE TypeOK'
    BY <1>7 DEF NextFile
  <1>8. ASSUME NEW w \in Workers, NoMoreFiles(w) PROVE TypeOK'
    BY <1>8 DEF NoMoreFiles, wlocal
  <1>9. ASSUME NEW w \in Workers, Plan(w) PROVE TypeOK'
    <2>1. wjob[w] \in Jobs /\ wfile[w] \in Files
      BY <1>9 DEF Plan, Knows
    <2>2. QED
      <3>1. PICK p \in {"settle", "tally", "extract"} : wpc' = [wpc EXCEPT ![w] = p]
        BY <1>9 DEF Plan
      <3>2. PICK o \in {"completed", "failed"} :
              wresult' = wresult \/ wresult' = [wresult EXCEPT ![w] = o]
        BY <1>9 DEF Plan, Outcome
      <3>3. file' = file \/ file' = [file EXCEPT ![wjob[w]][wfile[w]] = "processing"]
        BY <1>9 DEF Plan
      <3>4. file' \in [Jobs -> [Files -> {"none", "queued", "processing", "completed", "failed"}]]
        <4>1. file \in [Jobs -> [Files -> {"none", "queued", "processing", "completed", "failed"}]]
          OBVIOUS
        <4> HIDE DEF TypeOK
        <4>2. QED
          BY <4>1, <3>3, EntryType
      <3>5. UNCHANGED <<job, count, owed, fin, stores, pidfile, wfd, wjob, wtodo, wtally, wdefer,
                 wfile, wleft, werror, client, used>>
        BY <1>9 DEF Plan
      <3>6. QED
        BY <3>1, <3>2, <3>4, <3>5
  <1>10. ASSUME NEW w \in Workers, Extract(w) PROVE TypeOK'
    <2>1. wjob[w] \in Jobs /\ wfile[w] \in Files
      BY <1>10 DEF Extract, Knows
    <2>2. QED
      <3>1. PICK p \in {"settle", "commit"} : wpc' = [wpc EXCEPT ![w] = p]
        BY <1>10 DEF Extract
      <3>2. PICK o \in {"completed", "failed"} :
              wresult' = wresult \/ wresult' = [wresult EXCEPT ![w] = o]
        BY <1>10 DEF Extract, Outcome
      <3>3. UNCHANGED <<registry, inGraph, unbuilt, pidfile, wfd, wjob, wtodo, wtally,
                 wdefer, wfile, wleft, werror, client, used>> /\ staged' \subseteq Files
        BY <1>10, <2>1 DEF Extract
      <3>4. QED
        BY <3>1, <3>2, <3>3
  <1>11. ASSUME NEW w \in Workers, Commit(w) PROVE TypeOK'
    <2>1. wjob[w] \in Jobs /\ wfile[w] \in Files
      BY <1>11 DEF Commit, Knows
    <2>2. QED
      <3>1. PICK p \in {"settle", "owe"} : wpc' = [wpc EXCEPT ![w] = p]
        BY <1>11 DEF Commit
      <3>3. PICK o \in {"completed", "failed"} : wresult' = [wresult EXCEPT ![w] = o]
        BY <1>11 DEF Commit, Outcome
      <3>2. inGraph' \subseteq Files /\ unbuilt' \subseteq inGraph'
        BY <1>11, <2>1 DEF Commit
      <3>4. QED
        BY <1>11, <3>1, <3>2, <3>3 DEF Commit
  <1>12. ASSUME NEW w \in Workers, Owe(w) PROVE TypeOK'
    <2>1. wjob[w] \in Jobs /\ wfile[w] \in Files
      BY <1>12 DEF Owe, Knows
    <2>2. CASE UNCHANGED <<owed, fin>>
      <3>1. PICK o \in {"completed", "failed"} : wresult' = [wresult EXCEPT ![w] = o]
        BY <1>12, <2>2 DEF Owe, Outcome
      <3>2. QED
        BY <1>12, <2>2, <3>1 DEF Owe
    <2>3. CASE /\ UNCHANGED wresult
               /\ owed' = [owed EXCEPT ![wjob[w]] = @ \cup {OwedDomain(w)}]
               /\ fin' = [fin EXCEPT ![wjob[w]] = "pending"]
      <3>1. OwedDomain(w) \in Domains
        BY <2>1, DomainAssumption DEF OwedDomain
      <3>2. QED
        BY <1>12, <2>1, <2>3, <3>1 DEF Owe
    <2>4. QED
      BY <1>12, <2>2, <2>3 DEF Owe
  <1>13. ASSUME NEW w \in Workers, Settle(w) PROVE TypeOK'
    BY <1>13 DEF Settle, wlocal
  <1>14. ASSUME NEW w \in Workers, Tally(w) PROVE TypeOK'
    <2>1. wtally[w] + 1 \in Nat
      OBVIOUS
    <2>2. QED
      BY <1>14, <2>1 DEF Tally
  <1>15. ASSUME NEW w \in Workers, Finalize(w) PROVE TypeOK'
    <2>1. wjob[w] \in Jobs
      BY <1>15 DEF Finalize, Knows
    <2>2. QED
      <3>1. /\ wpc' = [wpc EXCEPT ![w] = "rebuild"] \/ wpc' = [wpc EXCEPT ![w] = "finish"]
            /\ fin' = fin \/ fin' = [fin EXCEPT ![wjob[w]] = "pending"]
        BY <1>15 DEF Finalize
      <3>2. /\ wleft' = wleft \/ wleft' = [wleft EXCEPT ![w] = owed[wjob[w]]]
            /\ werror' = werror \/ werror' = [werror EXCEPT ![w] = FALSE]
        BY <1>15 DEF Finalize
      <3>3. UNCHANGED <<job, file, count, owed, stores, pidfile, wfd, wjob, wtodo, wtally,
                 wdefer, wfile, wresult, client, used>>
        BY <1>15 DEF Finalize
      <3>4. wleft' \in [Workers -> SUBSET Domains] /\ werror' \in [Workers -> BOOLEAN]
        <4>1. /\ wleft \in [Workers -> SUBSET Domains] /\ werror \in [Workers -> BOOLEAN]
              /\ owed[wjob[w]] \in SUBSET Domains
          BY <2>1
        <4> HIDE DEF TypeOK
        <4>2. QED
          BY <4>1, <3>2, FieldType
      <3>5. QED
        BY <3>1, <3>3, <3>4
  <1>16. ASSUME NEW w \in Workers, Finalized(w) PROVE TypeOK'
    BY <1>16 DEF Finalized, FinalState, wlocal
  <1>17. ASSUME NEW w \in Workers, Finish(w) PROVE TypeOK'
    BY <1>17 DEF Finish, FinalStatus, wlocal
  <1>18. ASSUME NEW w \in Workers, Crash(w) PROVE TypeOK'
    BY <1>18 DEF Crash, Ended
  <1>19. ASSUME NEW w \in Workers, NEW d \in Domains, Rebuild(w, d) PROVE TypeOK'
    BY <1>19 DEF Rebuild
  <1>20. ASSUME NEW c \in Clients, NEW j \in Jobs, Submit(c, j) PROVE TypeOK'
    BY <1>20 DEF Submit, wlocal
  <1>21. ASSUME NEW c \in Clients, NEW j \in Jobs, RetryRead(c, j) PROVE TypeOK'
    BY <1>21 DEF RetryRead, wlocal
  <1>22. ASSUME NEW c \in Clients, EnsureWorkerRunning(c) PROVE TypeOK'
    <2>1. PICK p \in {"idle", "spawn"} : cpc' = [cpc EXCEPT ![c] = p]
      BY <1>22 DEF EnsureWorkerRunning
    <2>2. lock' = lock \/ lock' = [lock EXCEPT ![path] = c]
      BY <1>22 DEF EnsureWorkerRunning, Probe
    <2>3. UNCHANGED <<registry, stores, path, wpc, wlocal, cjob, cnames, used>>
      BY <1>22 DEF EnsureWorkerRunning
    <2>4. QED
      BY <2>1, <2>2, <2>3 DEF wlocal
  <1>23. ASSUME NEW c \in Clients, Spawn(c) PROVE TypeOK'
    BY <1>23 DEF Spawn, Unprobe, wlocal
  <1>24. ASSUME NEW c \in Clients, RetryProbe(c) PROVE TypeOK'
    <2>1. PICK p \in {"idle", "probed"} : cpc' = [cpc EXCEPT ![c] = p]
      BY <1>24 DEF RetryProbe
    <2>2. lock' = lock \/ lock' = [lock EXCEPT ![path] = c]
      BY <1>24 DEF RetryProbe, Probe
    <2>3. UNCHANGED <<registry, stores, path, wpc, wlocal, cjob, cnames, used>>
      BY <1>24 DEF RetryProbe
    <2>4. QED
      BY <2>1, <2>2, <2>3 DEF wlocal
  <1>25. ASSUME NEW c \in Clients, RetryStalled(c) PROVE TypeOK'
    BY <1>25 DEF RetryStalled, Unprobe, wlocal
  <1>26. ASSUME NEW c \in Clients, SelectRows(c) PROVE TypeOK'
    BY <1>26 DEF SelectRows, ToReset, FilesOf, wlocal
  <1>27. ASSUME NEW c \in Clients, RetryReset(c) PROVE TypeOK'
    <2>1. count' \in [Jobs -> Nat]
      <3> DEFINE n == DoneCount(Requeued(cjob[c], cnames[c]))
      <3>1. n \in Nat
        BY CountedInNat
      <3>2. count' = [count EXCEPT ![cjob[c]] = n]
        BY <1>27 DEF RetryReset
      <3> HIDE DEF n
      <3>3. QED
        BY <3>1, <3>2
    <2>2. file' \in [Jobs -> [Files -> {"none", "queued", "processing", "completed", "failed"}]]
      <3> DEFINE rows == Requeued(cjob[c], cnames[c])
      <3>0. cpc[c] = "reset" /\ cjob[c] \in Jobs
        BY <1>27 DEF RetryReset, Knows
      <3>1. rows \in [Files -> {"none", "queued", "processing", "completed", "failed"}]
        BY <3>0 DEF Requeued
      <3>2. file' = [file EXCEPT ![cjob[c]] = rows]
        BY <1>27 DEF RetryReset
      <3> HIDE DEF rows
      <3>3. QED
        BY <3>1, <3>2
    <2>3. QED
      BY <1>27, <2>1, <2>2 DEF RetryReset, wlocal
  <1>28. ASSUME NEW c \in Clients, Repair(c) PROVE TypeOK'
    BY <1>28 DEF Repair, wlocal
  <1>29. ASSUME NEW c \in Clients, Resolve(c) PROVE TypeOK'
    BY <1>29 DEF Resolve, wlocal
  <1>30. CASE UNCHANGED vars
    BY <1>30 DEF vars, wlocal
  <1>31. QED
    BY <1>1, <1>2, <1>3, <1>4, <1>5, <1>6, <1>7, <1>8, <1>9, <1>10, <1>11, <1>12, <1>13, <1>14, <1>15, <1>16, <1>17, <1>18, <1>19, <1>20, <1>21, <1>22, <1>23, <1>24, <1>25, <1>26, <1>27, <1>28, <1>29, <1>30 DEF Next, Step, Begin, Continue

(* No step moves the path or gives a held lock away: a probe takes only a  *)
(* free lock, a process gives up only its own.                             *)
LEMMA LockedStep == ASSUME TypeOK, Locked, [Next]_vars PROVE Locked'
  <1> USE DEF Goto, CGoto, registry, stores, pidfile, client, used, Holding, Processing, TypeOK, Locked
  <1>1. ASSUME NEW w \in Workers, OpenPidFile(w) PROVE Locked'
    BY <1>1, NoneAssumption, ProcessAssumption DEF OpenPidFile
  <1>2. ASSUME NEW w \in Workers, TakeLock(w) PROVE Locked'
    BY <1>2, NoneAssumption, ProcessAssumption DEF TakeLock
  <1>3. ASSUME NEW w \in Workers, Poll(w) PROVE Locked'
    BY <1>3 DEF Poll
  <1>4. ASSUME NEW w \in Workers, Leave(w) PROVE Locked'
    BY <1>4, NoneAssumption, ProcessAssumption DEF Leave, Ended, PathAfterRelease
  <1>5. ASSUME NEW w \in Workers, ReadFiles(w) PROVE Locked'
    BY <1>5 DEF ReadFiles, FilesOf
  <1>6. ASSUME NEW w \in Workers, Mark(w) PROVE Locked'
    BY <1>6 DEF Mark, Defers
  <1>7. ASSUME NEW w \in Workers, NextFile(w) PROVE Locked'
    BY <1>7 DEF NextFile
  <1>8. ASSUME NEW w \in Workers, NoMoreFiles(w) PROVE Locked'
    BY <1>8 DEF NoMoreFiles, wlocal
  <1>9. ASSUME NEW w \in Workers, Plan(w) PROVE Locked'
    BY <1>9 DEF Plan, Outcome
  <1>10. ASSUME NEW w \in Workers, Extract(w) PROVE Locked'
    BY <1>10 DEF Extract, Outcome
  <1>11. ASSUME NEW w \in Workers, Commit(w) PROVE Locked'
    BY <1>11 DEF Commit, Outcome
  <1>12. ASSUME NEW w \in Workers, Owe(w) PROVE Locked'
    BY <1>12 DEF Owe, OwedDomain, Outcome, wlocal
  <1>13. ASSUME NEW w \in Workers, Settle(w) PROVE Locked'
    BY <1>13 DEF Settle, wlocal
  <1>14. ASSUME NEW w \in Workers, Tally(w) PROVE Locked'
    BY <1>14 DEF Tally
  <1>15. ASSUME NEW w \in Workers, Finalize(w) PROVE Locked'
    BY <1>15 DEF Finalize
  <1>16. ASSUME NEW w \in Workers, Finalized(w) PROVE Locked'
    BY <1>16 DEF Finalized, FinalState, wlocal
  <1>17. ASSUME NEW w \in Workers, Finish(w) PROVE Locked'
    BY <1>17 DEF Finish, FinalStatus, wlocal
  <1>18. ASSUME NEW w \in Workers, Crash(w) PROVE Locked'
    BY <1>18, NoneAssumption, ProcessAssumption DEF Crash, Ended
  <1>19. ASSUME NEW w \in Workers, NEW d \in Domains, Rebuild(w, d) PROVE Locked'
    BY <1>19 DEF Rebuild
  <1>20. ASSUME NEW c \in Clients, NEW j \in Jobs, Submit(c, j) PROVE Locked'
    BY <1>20 DEF Submit, wlocal
  <1>21. ASSUME NEW c \in Clients, NEW j \in Jobs, RetryRead(c, j) PROVE Locked'
    BY <1>21 DEF RetryRead, wlocal
  <1>22. ASSUME NEW c \in Clients, EnsureWorkerRunning(c) PROVE Locked'
    BY <1>22, NoneAssumption, ProcessAssumption DEF EnsureWorkerRunning, Probe, LiveWorker, wlocal
  <1>23. ASSUME NEW c \in Clients, Spawn(c) PROVE Locked'
    BY <1>23, NoneAssumption, ProcessAssumption DEF Spawn, Unprobe, wlocal
  <1>24. ASSUME NEW c \in Clients, RetryProbe(c) PROVE Locked'
    BY <1>24, NoneAssumption, ProcessAssumption DEF RetryProbe, Probe, LiveWorker, wlocal
  <1>25. ASSUME NEW c \in Clients, RetryStalled(c) PROVE Locked'
    BY <1>25, NoneAssumption, ProcessAssumption DEF RetryStalled, Unprobe, wlocal
  <1>26. ASSUME NEW c \in Clients, SelectRows(c) PROVE Locked'
    BY <1>26 DEF SelectRows, ToReset, FilesOf, wlocal
  <1>27. ASSUME NEW c \in Clients, RetryReset(c) PROVE Locked'
    BY <1>27 DEF RetryReset, Requeued, DoneCount, wlocal
  <1>28. ASSUME NEW c \in Clients, Repair(c) PROVE Locked'
    BY <1>28 DEF Repair, wlocal
  <1>29. ASSUME NEW c \in Clients, Resolve(c) PROVE Locked'
    BY <1>29 DEF Resolve, wlocal
  <1>30. CASE UNCHANGED vars
    BY <1>30 DEF vars, wlocal
  <1>31. QED
    BY <1>1, <1>2, <1>3, <1>4, <1>5, <1>6, <1>7, <1>8, <1>9, <1>10, <1>11, <1>12, <1>13, <1>14, <1>15, <1>16, <1>17, <1>18, <1>19, <1>20, <1>21, <1>22, <1>23, <1>24, <1>25, <1>26, <1>27, <1>28, <1>29, <1>30 DEF Next, Step, Begin, Continue

(* A worker has its job before it processes it, its file before it uses it.*)
LEMMA KnowsStep == ASSUME TypeOK, Knows, [Next]_vars PROVE Knows'
  <1> USE DEF Goto, CGoto, registry, stores, pidfile, client, used, Holding, Processing, TypeOK, Knows
  <1>1. ASSUME NEW w \in Workers, OpenPidFile(w) PROVE Knows'
    BY <1>1 DEF OpenPidFile
  <1>2. ASSUME NEW w \in Workers, TakeLock(w) PROVE Knows'
    BY <1>2 DEF TakeLock
  <1>3. ASSUME NEW w \in Workers, Poll(w) PROVE Knows'
    <2>1. Queued # {} => Oldest(Queued) \in Jobs
      <3>1. Queued \in SUBSET Jobs
        BY DEF Queued
      <3>2. QED
        BY <3>1, OldestIsOne
    <2>2. QED
      BY <1>3, <2>1, NoneAssumption DEF Poll
  <1>4. ASSUME NEW w \in Workers, Leave(w) PROVE Knows'
    BY <1>4 DEF Leave, Ended, PathAfterRelease
  <1>5. ASSUME NEW w \in Workers, ReadFiles(w) PROVE Knows'
    BY <1>5 DEF ReadFiles, FilesOf
  <1>6. ASSUME NEW w \in Workers, Mark(w) PROVE Knows'
    BY <1>6 DEF Mark, Defers
  <1>7. ASSUME NEW w \in Workers, NextFile(w) PROVE Knows'
    BY <1>7, NoneAssumption DEF NextFile
  <1>8. ASSUME NEW w \in Workers, NoMoreFiles(w) PROVE Knows'
    BY <1>8 DEF NoMoreFiles, wlocal
  <1>9. ASSUME NEW w \in Workers, Plan(w) PROVE Knows'
    BY <1>9 DEF Plan, Outcome
  <1>10. ASSUME NEW w \in Workers, Extract(w) PROVE Knows'
    BY <1>10 DEF Extract, Outcome
  <1>11. ASSUME NEW w \in Workers, Commit(w) PROVE Knows'
    BY <1>11 DEF Commit, Outcome
  <1>12. ASSUME NEW w \in Workers, Owe(w) PROVE Knows'
    BY <1>12 DEF Owe, OwedDomain, Outcome, wlocal
  <1>13. ASSUME NEW w \in Workers, Settle(w) PROVE Knows'
    BY <1>13 DEF Settle, wlocal
  <1>14. ASSUME NEW w \in Workers, Tally(w) PROVE Knows'
    BY <1>14 DEF Tally
  <1>15. ASSUME NEW w \in Workers, Finalize(w) PROVE Knows'
    BY <1>15 DEF Finalize
  <1>16. ASSUME NEW w \in Workers, Finalized(w) PROVE Knows'
    BY <1>16 DEF Finalized, FinalState, wlocal
  <1>17. ASSUME NEW w \in Workers, Finish(w) PROVE Knows'
    BY <1>17 DEF Finish, FinalStatus, wlocal
  <1>18. ASSUME NEW w \in Workers, Crash(w) PROVE Knows'
    BY <1>18 DEF Crash, Ended
  <1>19. ASSUME NEW w \in Workers, NEW d \in Domains, Rebuild(w, d) PROVE Knows'
    BY <1>19 DEF Rebuild
  <1>20. ASSUME NEW c \in Clients, NEW j \in Jobs, Submit(c, j) PROVE Knows'
    BY <1>20 DEF Submit, wlocal
  <1>21. ASSUME NEW c \in Clients, NEW j \in Jobs, RetryRead(c, j) PROVE Knows'
    BY <1>21, NoneAssumption DEF RetryRead, wlocal
  <1>22. ASSUME NEW c \in Clients, EnsureWorkerRunning(c) PROVE Knows'
    BY <1>22 DEF EnsureWorkerRunning, Probe, LiveWorker, wlocal
  <1>23. ASSUME NEW c \in Clients, Spawn(c) PROVE Knows'
    BY <1>23 DEF Spawn, Unprobe, wlocal
  <1>24. ASSUME NEW c \in Clients, RetryProbe(c) PROVE Knows'
    BY <1>24 DEF RetryProbe, Probe, LiveWorker, wlocal
  <1>25. ASSUME NEW c \in Clients, RetryStalled(c) PROVE Knows'
    BY <1>25 DEF RetryStalled, Unprobe, wlocal
  <1>26. ASSUME NEW c \in Clients, SelectRows(c) PROVE Knows'
    BY <1>26 DEF SelectRows, ToReset, FilesOf, wlocal
  <1>27. ASSUME NEW c \in Clients, RetryReset(c) PROVE Knows'
    BY <1>27 DEF RetryReset, Requeued, DoneCount, wlocal
  <1>28. ASSUME NEW c \in Clients, Repair(c) PROVE Knows'
    BY <1>28 DEF Repair, wlocal
  <1>29. ASSUME NEW c \in Clients, Resolve(c) PROVE Knows'
    BY <1>29 DEF Resolve, wlocal
  <1>30. CASE UNCHANGED vars
    BY <1>30 DEF vars, wlocal
  <1>31. QED
    BY <1>1, <1>2, <1>3, <1>4, <1>5, <1>6, <1>7, <1>8, <1>9, <1>10, <1>11, <1>12, <1>13, <1>14, <1>15, <1>16, <1>17, <1>18, <1>19, <1>20, <1>21, <1>22, <1>23, <1>24, <1>25, <1>26, <1>27, <1>28, <1>29, <1>30 DEF Next, Step, Begin, Continue

(* While a worker rebuilds, nobody commits: committing takes the lock.     *)
LEMMA RebuildingStep == ASSUME IInv, [Next]_vars PROVE Rebuilding'
  <1> USE DEF Goto, CGoto, registry, stores, pidfile, client, used, Holding, Processing, IInv, TypeOK, Rebuilding, Knows
  <1>1. ASSUME NEW w \in Workers, OpenPidFile(w) PROVE Rebuilding'
    BY <1>1 DEF OpenPidFile
  <1>2. ASSUME NEW w \in Workers, TakeLock(w) PROVE Rebuilding'
    BY <1>2 DEF TakeLock
  <1>3. ASSUME NEW w \in Workers, Poll(w) PROVE Rebuilding'
    BY <1>3 DEF Poll
  <1>4. ASSUME NEW w \in Workers, Leave(w) PROVE Rebuilding'
    BY <1>4 DEF Leave, Ended, PathAfterRelease
  <1>5. ASSUME NEW w \in Workers, ReadFiles(w) PROVE Rebuilding'
    BY <1>5 DEF ReadFiles, FilesOf
  <1>6. ASSUME NEW w \in Workers, Mark(w) PROVE Rebuilding'
    BY <1>6 DEF Mark, Defers
  <1>7. ASSUME NEW w \in Workers, NextFile(w) PROVE Rebuilding'
    BY <1>7 DEF NextFile
  <1>8. ASSUME NEW w \in Workers, NoMoreFiles(w) PROVE Rebuilding'
    BY <1>8 DEF NoMoreFiles, wlocal
  <1>9. ASSUME NEW w \in Workers, Plan(w) PROVE Rebuilding'
    BY <1>9 DEF Plan, Outcome
  <1>10. ASSUME NEW w \in Workers, Extract(w) PROVE Rebuilding'
    BY <1>10 DEF Extract, Outcome
  <1>11. ASSUME NEW w \in Workers, Commit(w) PROVE Rebuilding'
    <2>1. \A v \in Workers : wpc[v] = "rebuild" => v # w
      BY <1>11 DEF Commit
    <2>2. \A v \in Workers : wpc[v] # "rebuild" /\ wpc'[v] # "rebuild"
      BY <1>11, <2>1, OneAtATime DEF OneWorker, Commit
    <2>3. QED
      BY <2>2
  <1>12. ASSUME NEW w \in Workers, Owe(w) PROVE Rebuilding'
    BY <1>12, OneAtATime DEF OneWorker, Owe, OwedDomain, Outcome, wlocal
  <1>13. ASSUME NEW w \in Workers, Settle(w) PROVE Rebuilding'
    BY <1>13 DEF Settle, wlocal
  <1>14. ASSUME NEW w \in Workers, Tally(w) PROVE Rebuilding'
    BY <1>14 DEF Tally
  <1>15. ASSUME NEW w \in Workers, Finalize(w) PROVE Rebuilding'
    BY <1>15 DEF Finalize
  <1>16. ASSUME NEW w \in Workers, Finalized(w) PROVE Rebuilding'
    BY <1>16 DEF Finalized, FinalState, wlocal
  <1>17. ASSUME NEW w \in Workers, Finish(w) PROVE Rebuilding'
    BY <1>17 DEF Finish, FinalStatus, wlocal
  <1>18. ASSUME NEW w \in Workers, Crash(w) PROVE Rebuilding'
    BY <1>18 DEF Crash, Ended
  <1>19. ASSUME NEW w \in Workers, NEW d \in Domains, Rebuild(w, d) PROVE Rebuilding'
    BY <1>19 DEF Rebuild
  <1>20. ASSUME NEW c \in Clients, NEW j \in Jobs, Submit(c, j) PROVE Rebuilding'
    BY <1>20 DEF Submit, wlocal
  <1>21. ASSUME NEW c \in Clients, NEW j \in Jobs, RetryRead(c, j) PROVE Rebuilding'
    BY <1>21 DEF RetryRead, wlocal
  <1>22. ASSUME NEW c \in Clients, EnsureWorkerRunning(c) PROVE Rebuilding'
    BY <1>22 DEF EnsureWorkerRunning, Probe, LiveWorker, wlocal
  <1>23. ASSUME NEW c \in Clients, Spawn(c) PROVE Rebuilding'
    BY <1>23 DEF Spawn, Unprobe, wlocal
  <1>24. ASSUME NEW c \in Clients, RetryProbe(c) PROVE Rebuilding'
    BY <1>24 DEF RetryProbe, Probe, LiveWorker, wlocal
  <1>25. ASSUME NEW c \in Clients, RetryStalled(c) PROVE Rebuilding'
    BY <1>25 DEF RetryStalled, Unprobe, wlocal
  <1>26. ASSUME NEW c \in Clients, SelectRows(c) PROVE Rebuilding'
    BY <1>26 DEF SelectRows, ToReset, FilesOf, wlocal
  <1>27. ASSUME NEW c \in Clients, RetryReset(c) PROVE Rebuilding'
    BY <1>27 DEF RetryReset, Requeued, DoneCount, wlocal
  <1>28. ASSUME NEW c \in Clients, Repair(c) PROVE Rebuilding'
    BY <1>28 DEF Repair, wlocal
  <1>29. ASSUME NEW c \in Clients, Resolve(c) PROVE Rebuilding'
    BY <1>29 DEF Resolve, wlocal
  <1>30. CASE UNCHANGED vars
    BY <1>30 DEF vars, wlocal
  <1>31. QED
    BY <1>1, <1>2, <1>3, <1>4, <1>5, <1>6, <1>7, <1>8, <1>9, <1>10, <1>11, <1>12, <1>13, <1>14, <1>15, <1>16, <1>17, <1>18, <1>19, <1>20, <1>21, <1>22, <1>23, <1>24, <1>25, <1>26, <1>27, <1>28, <1>29, <1>30 DEF Next, Step, Begin, Continue

(* The initial state satisfies the invariant.                              *)
LEMMA InitIInv == Init => IInv
  BY JobsAssumption, BoundAssumption, NoneAssumption
  DEF Init, IInv, TypeOK, Locked, Knows, Rebuilding, Holding, Processing

(* A step from a state of the invariant leads to one.                      *)
LEMMA StepIInv == IInv /\ [Next]_vars => IInv'
  BY TypeStep, LockedStep, KnowsStep, RebuildingStep DEF IInv

(* The inductive invariant: types, the lock, and what a rebuild covered.   *)
THEOREM AlwaysIInv == Spec => []IInv
  BY InitIInv, StepIInv, PTL DEF Spec

(* worker.py:77-86.  However many workers are spawned, crash or leave, and *)
(* whoever probes the pid file meanwhile, one at most is past the lock.    *)
THEOREM WorkersExclude == Spec => []OneWorker
  <1>1. IInv => OneWorker
    BY OneAtATime DEF IInv
  <1>2. QED
    BY <1>1, AlwaysIInv, PTL

-----------------------------------------------------------------------------
(* Nobody runs the repair command.                                         *)
NoRepair == repairs = 0 /\ \A c \in Clients : cpc[c] # "resolve"

LEMMA NoRepairStep ==
  ASSUME MaxRepairs = 0, TypeOK, NoRepair, [Next]_vars PROVE NoRepair'
  <1> USE DEF Goto, CGoto, registry, stores, pidfile, client, used, Holding, Processing, TypeOK, NoRepair
  <1>1. ASSUME NEW w \in Workers, OpenPidFile(w) PROVE NoRepair'
    BY <1>1 DEF OpenPidFile
  <1>2. ASSUME NEW w \in Workers, TakeLock(w) PROVE NoRepair'
    BY <1>2 DEF TakeLock
  <1>3. ASSUME NEW w \in Workers, Poll(w) PROVE NoRepair'
    BY <1>3 DEF Poll
  <1>4. ASSUME NEW w \in Workers, Leave(w) PROVE NoRepair'
    BY <1>4 DEF Leave, Ended, PathAfterRelease
  <1>5. ASSUME NEW w \in Workers, ReadFiles(w) PROVE NoRepair'
    BY <1>5 DEF ReadFiles, FilesOf
  <1>6. ASSUME NEW w \in Workers, Mark(w) PROVE NoRepair'
    BY <1>6 DEF Mark, Defers
  <1>7. ASSUME NEW w \in Workers, NextFile(w) PROVE NoRepair'
    BY <1>7 DEF NextFile
  <1>8. ASSUME NEW w \in Workers, NoMoreFiles(w) PROVE NoRepair'
    BY <1>8 DEF NoMoreFiles, wlocal
  <1>9. ASSUME NEW w \in Workers, Plan(w) PROVE NoRepair'
    BY <1>9 DEF Plan, Outcome
  <1>10. ASSUME NEW w \in Workers, Extract(w) PROVE NoRepair'
    BY <1>10 DEF Extract, Outcome
  <1>11. ASSUME NEW w \in Workers, Commit(w) PROVE NoRepair'
    BY <1>11 DEF Commit, Outcome
  <1>12. ASSUME NEW w \in Workers, Owe(w) PROVE NoRepair'
    BY <1>12 DEF Owe, OwedDomain, Outcome, wlocal
  <1>13. ASSUME NEW w \in Workers, Settle(w) PROVE NoRepair'
    BY <1>13 DEF Settle, wlocal
  <1>14. ASSUME NEW w \in Workers, Tally(w) PROVE NoRepair'
    BY <1>14 DEF Tally
  <1>15. ASSUME NEW w \in Workers, Finalize(w) PROVE NoRepair'
    BY <1>15 DEF Finalize
  <1>16. ASSUME NEW w \in Workers, Finalized(w) PROVE NoRepair'
    BY <1>16 DEF Finalized, FinalState, wlocal
  <1>17. ASSUME NEW w \in Workers, Finish(w) PROVE NoRepair'
    BY <1>17 DEF Finish, FinalStatus, wlocal
  <1>18. ASSUME NEW w \in Workers, Crash(w) PROVE NoRepair'
    BY <1>18 DEF Crash, Ended
  <1>19. ASSUME NEW w \in Workers, NEW d \in Domains, Rebuild(w, d) PROVE NoRepair'
    BY <1>19 DEF Rebuild
  <1>20. ASSUME NEW c \in Clients, NEW j \in Jobs, Submit(c, j) PROVE NoRepair'
    BY <1>20 DEF Submit, wlocal
  <1>21. ASSUME NEW c \in Clients, NEW j \in Jobs, RetryRead(c, j) PROVE NoRepair'
    BY <1>21 DEF RetryRead, wlocal
  <1>22. ASSUME NEW c \in Clients, EnsureWorkerRunning(c) PROVE NoRepair'
    BY <1>22 DEF EnsureWorkerRunning, Probe, LiveWorker, wlocal
  <1>23. ASSUME NEW c \in Clients, Spawn(c) PROVE NoRepair'
    BY <1>23 DEF Spawn, Unprobe, wlocal
  <1>24. ASSUME NEW c \in Clients, RetryProbe(c) PROVE NoRepair'
    BY <1>24 DEF RetryProbe, Probe, LiveWorker, wlocal
  <1>25. ASSUME NEW c \in Clients, RetryStalled(c) PROVE NoRepair'
    BY <1>25 DEF RetryStalled, Unprobe, wlocal
  <1>26. ASSUME NEW c \in Clients, SelectRows(c) PROVE NoRepair'
    BY <1>26 DEF SelectRows, ToReset, FilesOf, wlocal
  <1>27. ASSUME NEW c \in Clients, RetryReset(c) PROVE NoRepair'
    BY <1>27 DEF RetryReset, Requeued, DoneCount, wlocal
  <1>28. ASSUME NEW c \in Clients, Repair(c) PROVE NoRepair'
    BY <1>28 DEF Repair, wlocal
  <1>29. ASSUME NEW c \in Clients, Resolve(c) PROVE NoRepair'
    BY <1>29 DEF Resolve, wlocal
  <1>30. CASE UNCHANGED vars
    BY <1>30 DEF vars, wlocal
  <1>31. QED
    BY <1>1, <1>2, <1>3, <1>4, <1>5, <1>6, <1>7, <1>8, <1>9, <1>10, <1>11, <1>12, <1>13, <1>14, <1>15, <1>16, <1>17, <1>18, <1>19, <1>20, <1>21, <1>22, <1>23, <1>24, <1>25, <1>26, <1>27, <1>28, <1>29, <1>30 DEF Next, Step, Begin, Continue

(* Finalized is the step that marks a finalize done, and it comes when     *)
(* every owed domain has been rebuilt.                                     *)
LEMMA DoneStep ==
  ASSUME IInv, NoRepair, [Next]_vars, NEW j \in Jobs, fin[j] # "done", fin'[j] = "done"
  PROVE  \A f \in unbuilt : Domain[f] \notin owed[j]
  <1> USE DEF Goto, CGoto, registry, stores, pidfile, client, used, Holding, Processing, IInv, TypeOK, NoRepair
  <1>1. ASSUME NEW w \in Workers, OpenPidFile(w) PROVE FALSE
    BY <1>1 DEF OpenPidFile
  <1>2. ASSUME NEW w \in Workers, TakeLock(w) PROVE FALSE
    BY <1>2 DEF TakeLock
  <1>3. ASSUME NEW w \in Workers, Poll(w) PROVE FALSE
    BY <1>3 DEF Poll
  <1>4. ASSUME NEW w \in Workers, Leave(w) PROVE FALSE
    BY <1>4 DEF Leave, Ended, PathAfterRelease
  <1>5. ASSUME NEW w \in Workers, ReadFiles(w) PROVE FALSE
    BY <1>5 DEF ReadFiles, FilesOf
  <1>6. ASSUME NEW w \in Workers, Mark(w) PROVE FALSE
    BY <1>6 DEF Mark, Defers
  <1>7. ASSUME NEW w \in Workers, NextFile(w) PROVE FALSE
    BY <1>7 DEF NextFile
  <1>8. ASSUME NEW w \in Workers, NoMoreFiles(w) PROVE FALSE
    BY <1>8 DEF NoMoreFiles, wlocal
  <1>9. ASSUME NEW w \in Workers, Plan(w) PROVE FALSE
    BY <1>9 DEF Plan, Outcome
  <1>10. ASSUME NEW w \in Workers, Extract(w) PROVE FALSE
    BY <1>10 DEF Extract, Outcome
  <1>11. ASSUME NEW w \in Workers, Commit(w) PROVE FALSE
    BY <1>11 DEF Commit, Outcome
  <1>12. ASSUME NEW w \in Workers, Owe(w) PROVE FALSE
    BY <1>12 DEF Owe, OwedDomain, Outcome, wlocal
  <1>13. ASSUME NEW w \in Workers, Settle(w) PROVE FALSE
    BY <1>13 DEF Settle, wlocal
  <1>14. ASSUME NEW w \in Workers, Tally(w) PROVE FALSE
    BY <1>14 DEF Tally
  <1>15. ASSUME NEW w \in Workers, Finalize(w) PROVE FALSE
    BY <1>15 DEF Finalize
  <1>16. ASSUME NEW w \in Workers, Finalized(w)
         PROVE  \A f \in unbuilt : Domain[f] \notin owed[j]
    <2>1. j = wjob[w] /\ ~werror[w] /\ wleft[w] = {}
      BY <1>16 DEF Finalized, FinalState
    <2>2. QED
      BY <1>16, <2>1 DEF Finalized, Rebuilding
  <1>17. ASSUME NEW w \in Workers, Finish(w) PROVE FALSE
    BY <1>17 DEF Finish, FinalStatus, wlocal
  <1>18. ASSUME NEW w \in Workers, Crash(w) PROVE FALSE
    BY <1>18 DEF Crash, Ended
  <1>19. ASSUME NEW w \in Workers, NEW d \in Domains, Rebuild(w, d) PROVE FALSE
    BY <1>19 DEF Rebuild
  <1>20. ASSUME NEW c \in Clients, NEW k \in Jobs, Submit(c, k) PROVE FALSE
    BY <1>20 DEF Submit, wlocal
  <1>21. ASSUME NEW c \in Clients, NEW k \in Jobs, RetryRead(c, k) PROVE FALSE
    BY <1>21 DEF RetryRead, wlocal
  <1>22. ASSUME NEW c \in Clients, EnsureWorkerRunning(c) PROVE FALSE
    BY <1>22 DEF EnsureWorkerRunning, Probe, LiveWorker, wlocal
  <1>23. ASSUME NEW c \in Clients, Spawn(c) PROVE FALSE
    BY <1>23 DEF Spawn, Unprobe, wlocal
  <1>24. ASSUME NEW c \in Clients, RetryProbe(c) PROVE FALSE
    BY <1>24 DEF RetryProbe, Probe, LiveWorker, wlocal
  <1>25. ASSUME NEW c \in Clients, RetryStalled(c) PROVE FALSE
    BY <1>25 DEF RetryStalled, Unprobe, wlocal
  <1>26. ASSUME NEW c \in Clients, SelectRows(c) PROVE FALSE
    BY <1>26 DEF SelectRows, ToReset, FilesOf, wlocal
  <1>27. ASSUME NEW c \in Clients, RetryReset(c) PROVE FALSE
    BY <1>27 DEF RetryReset, Requeued, DoneCount, wlocal
  <1>28. ASSUME NEW c \in Clients, Repair(c) PROVE FALSE
    BY <1>28 DEF Repair, wlocal
  <1>29. ASSUME NEW c \in Clients, Resolve(c) PROVE FALSE
    BY <1>29 DEF Resolve, wlocal
  <1>30. CASE UNCHANGED vars
    BY <1>30 DEF vars, wlocal
  <1>31. QED
    BY <1>1, <1>2, <1>3, <1>4, <1>5, <1>6, <1>7, <1>8, <1>9, <1>10, <1>11, <1>12, <1>13, <1>14, <1>15, <1>16, <1>17, <1>18, <1>19, <1>20, <1>21, <1>22, <1>23, <1>24, <1>25, <1>26, <1>27, <1>28, <1>29, <1>30 DEF Next, Step, Begin, Continue

(* worker.py:128-158.  With no repair running beside the worker, a job's   *)
(* finalize is done only when nothing in the domains it owed is unbuilt,   *)
(* through any crashes, retries and failures.                              *)
THEOREM FinalizeCovers ==
  ASSUME MaxRepairs = 0 PROVE Spec => DoneMeansRebuilt
  <1> DEFINE Covered == \A j \in Jobs : fin[j] # "done" /\ fin'[j] = "done" =>
                          \A f \in unbuilt : Domain[f] \notin owed[j]
  <1>1. Init => IInv /\ NoRepair
    BY InitIInv DEF Init, NoRepair
  <1>2. (IInv /\ NoRepair) /\ [Next]_vars => (IInv /\ NoRepair)'
    BY StepIInv, NoRepairStep DEF IInv
  <1>3. (IInv /\ NoRepair) /\ [Next]_vars => [Covered]_vars
    BY DoneStep
  <1> HIDE DEF Covered
  <1>4. Spec => [][Covered]_vars
    BY <1>1, <1>2, <1>3, PTL DEF Spec
  <1>5. QED
    BY <1>4 DEF DoneMeansRebuilt, Covered

-----------------------------------------------------------------------------
(* A committed file is owed from the moment Commit defers it until a       *)
(* rebuild of its domain: only Owe and Finalized touch the record of it.   *)
LEMMA DebtStep ==
  ASSUME MaxCrashes = 0, ~DebtMayFail, IInv, NoRepair, OwedOrAboutToBe, [Next]_vars
  PROVE  OwedOrAboutToBe'
  <1> USE DEF Goto, CGoto, registry, stores, pidfile, client, used, Holding, Processing, IInv, TypeOK, Knows, NoRepair, OwedOrAboutToBe, Owing
  <1>1. ASSUME NEW w \in Workers, OpenPidFile(w) PROVE OwedOrAboutToBe'
    BY <1>1 DEF OpenPidFile
  <1>2. ASSUME NEW w \in Workers, TakeLock(w) PROVE OwedOrAboutToBe'
    BY <1>2 DEF TakeLock
  <1>3. ASSUME NEW w \in Workers, Poll(w) PROVE OwedOrAboutToBe'
    BY <1>3 DEF Poll
  <1>4. ASSUME NEW w \in Workers, Leave(w) PROVE OwedOrAboutToBe'
    BY <1>4 DEF Leave, Ended, PathAfterRelease
  <1>5. ASSUME NEW w \in Workers, ReadFiles(w) PROVE OwedOrAboutToBe'
    BY <1>5 DEF ReadFiles, FilesOf
  <1>6. ASSUME NEW w \in Workers, Mark(w) PROVE OwedOrAboutToBe'
    BY <1>6 DEF Mark, Defers
  <1>7. ASSUME NEW w \in Workers, NextFile(w) PROVE OwedOrAboutToBe'
    BY <1>7 DEF NextFile
  <1>8. ASSUME NEW w \in Workers, NoMoreFiles(w) PROVE OwedOrAboutToBe'
    BY <1>8 DEF NoMoreFiles, wlocal
  <1>9. ASSUME NEW w \in Workers, Plan(w) PROVE OwedOrAboutToBe'
    BY <1>9 DEF Plan, Outcome
  <1>10. ASSUME NEW w \in Workers, Extract(w) PROVE OwedOrAboutToBe'
    BY <1>10 DEF Extract, Outcome
  <1>11. ASSUME NEW w \in Workers, Commit(w) PROVE OwedOrAboutToBe'
    BY <1>11 DEF Commit, Outcome
  <1>12. ASSUME NEW w \in Workers, Owe(w) PROVE OwedOrAboutToBe'
    <2>1. wjob[w] \in Jobs
      BY <1>12 DEF Owe
    <2>2. /\ owed' = [owed EXCEPT ![wjob[w]] = @ \cup {Domain[wfile[w]]}]
          /\ fin' = [fin EXCEPT ![wjob[w]] = "pending"]
          /\ unbuilt' = unbuilt /\ wfile' = wfile
          /\ wpc' = [wpc EXCEPT ![w] = "settle"]
      BY <1>12 DEF Owe, OwedDomain, Outcome, wlocal
    <2>3. Domain[wfile[w]] \in owed'[wjob[w]] /\ fin'[wjob[w]] = "pending"
      BY <2>1, <2>2
    <2>4. \A d, k : k \in Jobs /\ d \in owed[k] /\ fin[k] \in {"pending", "failed"} =>
                      d \in owed'[k] /\ fin'[k] \in {"pending", "failed"}
      BY <2>1, <2>2
    <2>5. QED
      BY <2>1, <2>2, <2>3, <2>4
  <1>13. ASSUME NEW w \in Workers, Settle(w) PROVE OwedOrAboutToBe'
    BY <1>13 DEF Settle, wlocal
  <1>14. ASSUME NEW w \in Workers, Tally(w) PROVE OwedOrAboutToBe'
    BY <1>14 DEF Tally
  <1>15. ASSUME NEW w \in Workers, Finalize(w) PROVE OwedOrAboutToBe'
    <2>1. UNCHANGED <<unbuilt, owed, wfile>>
      BY <1>15 DEF Finalize
    <2>2. \A v \in Workers : wpc[v] = "owe" => wpc'[v] = "owe"
      BY <1>15 DEF Finalize
    <2>3. \A k \in Jobs : fin[k] \in {"pending", "failed"} => fin'[k] \in {"pending", "failed"}
      BY <1>15 DEF Finalize
    <2>4. QED
      BY <2>1, <2>2, <2>3
  <1>16. ASSUME NEW w \in Workers, Finalized(w) PROVE OwedOrAboutToBe'
    BY <1>16, DomainAssumption DEF Finalized, FinalState, wlocal, Rebuilding
  <1>17. ASSUME NEW w \in Workers, Finish(w) PROVE OwedOrAboutToBe'
    BY <1>17 DEF Finish, FinalStatus, wlocal
  <1>18. ASSUME NEW w \in Workers, Crash(w) PROVE OwedOrAboutToBe'
    BY <1>18 DEF Crash, Ended
  <1>19. ASSUME NEW w \in Workers, NEW d \in Domains, Rebuild(w, d) PROVE OwedOrAboutToBe'
    BY <1>19 DEF Rebuild
  <1>20. ASSUME NEW c \in Clients, NEW j \in Jobs, Submit(c, j) PROVE OwedOrAboutToBe'
    BY <1>20 DEF Submit, wlocal
  <1>21. ASSUME NEW c \in Clients, NEW j \in Jobs, RetryRead(c, j) PROVE OwedOrAboutToBe'
    BY <1>21 DEF RetryRead, wlocal
  <1>22. ASSUME NEW c \in Clients, EnsureWorkerRunning(c) PROVE OwedOrAboutToBe'
    BY <1>22 DEF EnsureWorkerRunning, Probe, LiveWorker, wlocal
  <1>23. ASSUME NEW c \in Clients, Spawn(c) PROVE OwedOrAboutToBe'
    BY <1>23 DEF Spawn, Unprobe, wlocal
  <1>24. ASSUME NEW c \in Clients, RetryProbe(c) PROVE OwedOrAboutToBe'
    BY <1>24 DEF RetryProbe, Probe, LiveWorker, wlocal
  <1>25. ASSUME NEW c \in Clients, RetryStalled(c) PROVE OwedOrAboutToBe'
    BY <1>25 DEF RetryStalled, Unprobe, wlocal
  <1>26. ASSUME NEW c \in Clients, SelectRows(c) PROVE OwedOrAboutToBe'
    BY <1>26 DEF SelectRows, ToReset, FilesOf, wlocal
  <1>27. ASSUME NEW c \in Clients, RetryReset(c) PROVE OwedOrAboutToBe'
    BY <1>27 DEF RetryReset, Requeued, DoneCount, wlocal
  <1>28. ASSUME NEW c \in Clients, Repair(c) PROVE OwedOrAboutToBe'
    BY <1>28 DEF Repair, wlocal
  <1>29. ASSUME NEW c \in Clients, Resolve(c) PROVE OwedOrAboutToBe'
    BY <1>29 DEF Resolve, wlocal
  <1>30. CASE UNCHANGED vars
    BY <1>30 DEF vars, wlocal
  <1>31. QED
    BY <1>1, <1>2, <1>3, <1>4, <1>5, <1>6, <1>7, <1>8, <1>9, <1>10, <1>11, <1>12, <1>13, <1>14, <1>15, <1>16, <1>17, <1>18, <1>19, <1>20, <1>21, <1>22, <1>23, <1>24, <1>25, <1>26, <1>27, <1>28, <1>29, <1>30 DEF Next, Step, Begin, Continue

(* worker.py:176-184.  With no crash, no repair and no error of the        *)
(* registry in _add_finalize_domain, whatever has been committed without   *)
(* its rebuild is recorded on the row of some job, or is about to be by    *)
(* the worker that committed it.  Each assumption is one the code needs    *)
(* (MCIngestQueueLostDebt, MCIngestQueueDebtFails).                        *)
THEOREM DebtIsRecorded ==
  ASSUME MaxCrashes = 0, MaxRepairs = 0, ~DebtMayFail PROVE Spec => []OwedOrAboutToBe
  <1> DEFINE Inv == IInv /\ NoRepair /\ OwedOrAboutToBe
  <1>1. Init => Inv
    BY InitIInv DEF Init, NoRepair, OwedOrAboutToBe
  <1>2. Inv /\ [Next]_vars => Inv'
    BY StepIInv, NoRepairStep, DebtStep DEF IInv
  <1>3. QED
    BY <1>1, <1>2, PTL DEF Spec
-----------------------------------------------------------------------------
(* The jobs that commit re-extract: a staged file is no reason for them    *)
(* to call a row completed, as it is for others (MCIngestQueueNotInGraph). *)
CommitsReextract == Jobs \ StageOnly \subseteq Reextract

(* A file about to be called completed by a job that commits is committed. *)
Committed ==
  \A w \in Workers :
    /\ wpc[w] = "owe" => wfile[w] \in inGraph
    /\ wpc[w] = "settle" /\ wresult[w] = "completed" /\ wjob[w] \notin StageOnly => wfile[w] \in inGraph

LEMMA CommittedStep ==
  ASSUME CommitsReextract, TypeOK, Knows, Committed, CompletedIsInGraph, [Next]_vars
  PROVE  (Committed /\ CompletedIsInGraph)'
  <1> USE DEF Goto, CGoto, registry, stores, pidfile, client, used, Processing, TypeOK, Knows, CommitsReextract, Committed, CompletedIsInGraph
  <1>1. ASSUME NEW w \in Workers, OpenPidFile(w) PROVE (Committed /\ CompletedIsInGraph)'
    BY <1>1 DEF OpenPidFile
  <1>2. ASSUME NEW w \in Workers, TakeLock(w) PROVE (Committed /\ CompletedIsInGraph)'
    BY <1>2 DEF TakeLock
  <1>3. ASSUME NEW w \in Workers, Poll(w) PROVE (Committed /\ CompletedIsInGraph)'
    BY <1>3 DEF Poll
  <1>4. ASSUME NEW w \in Workers, Leave(w) PROVE (Committed /\ CompletedIsInGraph)'
    BY <1>4 DEF Leave, Ended, PathAfterRelease
  <1>5. ASSUME NEW w \in Workers, ReadFiles(w) PROVE (Committed /\ CompletedIsInGraph)'
    BY <1>5 DEF ReadFiles, FilesOf
  <1>6. ASSUME NEW w \in Workers, Mark(w) PROVE (Committed /\ CompletedIsInGraph)'
    BY <1>6 DEF Mark, Defers
  <1>7. ASSUME NEW w \in Workers, NextFile(w) PROVE (Committed /\ CompletedIsInGraph)'
    BY <1>7 DEF NextFile
  <1>8. ASSUME NEW w \in Workers, NoMoreFiles(w) PROVE (Committed /\ CompletedIsInGraph)'
    BY <1>8 DEF NoMoreFiles, wlocal
  <1>9. ASSUME NEW w \in Workers, Plan(w) PROVE (Committed /\ CompletedIsInGraph)'
    <2>1. /\ UNCHANGED <<inGraph, wjob, wfile>> /\ wpc[w] = "plan" /\ w \in Workers
          /\ \A v \in Workers : v # w => wpc'[v] = wpc[v] /\ wresult'[v] = wresult[v]
      BY <1>9 DEF Plan, Outcome, stores
    <2>2. wjob[w] \in Jobs /\ wfile[w] \in Files
      BY <2>1
    <2>3. wpc'[w] = "settle" /\ wresult'[w] = "completed" => wjob[w] \in StageOnly
      BY <1>9, <2>1, <2>2 DEF Plan, Outcome, AlreadyStaged
    <2>4. wpc'[w] \in {"settle", "tally", "extract"}
      BY <1>9, <2>1 DEF Plan
    <2>5. Committed'
      BY <2>1, <2>3, <2>4
    <2>6. \A j \in Jobs, f \in Files : file'[j][f] = "completed" => file[j][f] = "completed"
      <3>1. file' = file \/ file' = [file EXCEPT ![wjob[w]][wfile[w]] = "processing"]
        BY <1>9 DEF Plan
      <3>2. file' = [file EXCEPT ![wjob[w]][wfile[w]] = "processing"] =>
              \A j \in Jobs, f \in Files : file'[j][f] = "completed" => file[j][f] = "completed"
        BY <2>2
      <3>3. QED
        BY <3>1, <3>2
    <2>7. QED
      BY <2>1, <2>5, <2>6
  <1>10. ASSUME NEW w \in Workers, Extract(w) PROVE (Committed /\ CompletedIsInGraph)'
    BY <1>10 DEF Extract, Outcome
  <1>11. ASSUME NEW w \in Workers, Commit(w) PROVE (Committed /\ CompletedIsInGraph)'
    BY <1>11 DEF Commit, Outcome
  <1>12. ASSUME NEW w \in Workers, Owe(w) PROVE (Committed /\ CompletedIsInGraph)'
    BY <1>12 DEF Owe, Outcome, wlocal
  <1>13. ASSUME NEW w \in Workers, Settle(w) PROVE (Committed /\ CompletedIsInGraph)'
    BY <1>13 DEF Settle, wlocal
  <1>14. ASSUME NEW w \in Workers, Tally(w) PROVE (Committed /\ CompletedIsInGraph)'
    BY <1>14 DEF Tally
  <1>15. ASSUME NEW w \in Workers, Finalize(w) PROVE (Committed /\ CompletedIsInGraph)'
    BY <1>15 DEF Finalize
  <1>16. ASSUME NEW w \in Workers, Finalized(w) PROVE (Committed /\ CompletedIsInGraph)'
    BY <1>16 DEF Finalized, wlocal
  <1>17. ASSUME NEW w \in Workers, Finish(w) PROVE (Committed /\ CompletedIsInGraph)'
    BY <1>17 DEF Finish, FinalStatus, wlocal
  <1>18. ASSUME NEW w \in Workers, Crash(w) PROVE (Committed /\ CompletedIsInGraph)'
    BY <1>18 DEF Crash, Ended
  <1>19. ASSUME NEW w \in Workers, NEW d \in Domains, Rebuild(w, d) PROVE (Committed /\ CompletedIsInGraph)'
    BY <1>19 DEF Rebuild
  <1>20. ASSUME NEW c \in Clients, NEW j \in Jobs, Submit(c, j) PROVE (Committed /\ CompletedIsInGraph)'
    BY <1>20 DEF Submit, wlocal
  <1>21. ASSUME NEW c \in Clients, NEW j \in Jobs, RetryRead(c, j) PROVE (Committed /\ CompletedIsInGraph)'
    BY <1>21 DEF RetryRead, wlocal
  <1>22. ASSUME NEW c \in Clients, EnsureWorkerRunning(c) PROVE (Committed /\ CompletedIsInGraph)'
    BY <1>22 DEF EnsureWorkerRunning, Probe, LiveWorker, wlocal
  <1>23. ASSUME NEW c \in Clients, Spawn(c) PROVE (Committed /\ CompletedIsInGraph)'
    BY <1>23 DEF Spawn, Unprobe, wlocal
  <1>24. ASSUME NEW c \in Clients, RetryProbe(c) PROVE (Committed /\ CompletedIsInGraph)'
    BY <1>24 DEF RetryProbe, Probe, LiveWorker, wlocal
  <1>25. ASSUME NEW c \in Clients, RetryStalled(c) PROVE (Committed /\ CompletedIsInGraph)'
    BY <1>25 DEF RetryStalled, Unprobe, wlocal
  <1>26. ASSUME NEW c \in Clients, SelectRows(c) PROVE (Committed /\ CompletedIsInGraph)'
    BY <1>26 DEF SelectRows, ToReset, FilesOf, wlocal
  <1>27. ASSUME NEW c \in Clients, RetryReset(c) PROVE (Committed /\ CompletedIsInGraph)'
    BY <1>27 DEF RetryReset, Requeued, DoneCount, wlocal
  <1>28. ASSUME NEW c \in Clients, Repair(c) PROVE (Committed /\ CompletedIsInGraph)'
    BY <1>28 DEF Repair, wlocal
  <1>29. ASSUME NEW c \in Clients, Resolve(c) PROVE (Committed /\ CompletedIsInGraph)'
    BY <1>29 DEF Resolve, wlocal
  <1>30. CASE UNCHANGED vars
    BY <1>30 DEF vars, wlocal
  <1>31. QED
    BY <1>1, <1>2, <1>3, <1>4, <1>5, <1>6, <1>7, <1>8, <1>9, <1>10, <1>11, <1>12, <1>13, <1>14, <1>15, <1>16, <1>17, <1>18, <1>19, <1>20, <1>21, <1>22, <1>23, <1>24, <1>25, <1>26, <1>27, <1>28, <1>29, <1>30 DEF Next, Step, Begin, Continue

(* cli.py:1446.  Where only --reextract jobs commit, a completed row of    *)
(* one is of a file that is in the graph, for any clients that submit and  *)
(* retry at the same time, any failures and any deaths.                    *)
THEOREM CompletedIsCommitted ==
  ASSUME CommitsReextract PROVE Spec => []CompletedIsInGraph
  <1> DEFINE Inv == IInv /\ Committed /\ CompletedIsInGraph
  <1>1. Init => Inv
    BY InitIInv DEF Init, Committed, CompletedIsInGraph
  <1>2. Inv /\ [Next]_vars => Inv'
    BY StepIInv, CommittedStep DEF IInv
  <1>3. QED
    BY <1>1, <1>2, PTL DEF Spec
=============================================================================
