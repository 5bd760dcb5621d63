-------------------------- MODULE VaultSync_proofs --------------------------
(***************************************************************************)
(* Proofs about VaultSync, for any machines, graphs, documents, folders,   *)
(* versions and bounds, in four parts: what is always so (Base), that a    *)
(* bookmark advances over a rebuilt graph (Rebuilt), that no ghost is left *)
(* behind (GhostsGone), and that a graph reflects its bookmark (Reflects). *)
(* Most lemmas say what one step does, action by action; the invariants    *)
(* then follow from a few of them.  An ...At lemma says what an action     *)
(* leaves at each machine, folder or document.                             *)
(***************************************************************************)
EXTENDS VaultSync, SequenceTheorems, TLAPS

Commits == 0 .. Len(log)

(* Which versions there can be: no more than were ever extracted, in the   *)
(* working trees, the commits and the graphs.                              *)
Extracted ==
    /\ \A d \in Docs : made[d] <= Len(Asserts[d])
    /\ \A f \in Folders : /\ \A m \in Machines : work[m][f] <= made[DocOf[f]]
                          /\ \A c \in Commits : Tree(c)[f] <= made[DocOf[f]]
    /\ \A g \in Graphs, d \in Docs : /\ history[g][d] \subseteq 1 .. made[d]
                                     /\ live[g][d] \in history[g][d] \cup {0}

(* How far an ingest and a sync are, by what they have in memory.          *)
Underway ==
    \A m \in Machines :
       /\ ipc[m] # "idle" => ifolder[m] \in Folders
       /\ shead[m] <= pos[m]
       /\ spc[m] = "idle" => shead[m] = 0 /\ smark[m] = 0
       /\ spc[m] = "mark" => smark[m] = 0
       /\ spc[m] \notin {"apply", "rebuild"} => skeys[m] = {}
       /\ spc[m] # "apply" => sreplay[m] = {} /\ sretract[m] = {}

(* A sync replays what its head has and retracts what it has not.          *)
Planned ==
    \A m \in Machines : /\ \A f \in sreplay[m] : Tree(shead[m])[f] # 0
                        /\ \A d \in sretract[m] : At(shead[m], d) = {} /\ At(smark[m], d) # {}

Base == TypeOK /\ Extracted /\ Underway /\ Planned

-----------------------------------------------------------------------------

(* Every commit is a tree of versions.                                     *)
LEMMA TreeType == ASSUME TypeOK PROVE \A c \in Commits : Tree(c) \in [Folders -> Nat]
  <1> TAKE c \in Commits
  <1>1. CASE c = 0
    BY <1>1 DEF Tree, NoFolders
  <1>2. CASE c # 0
    <2>1. c \in 1 .. Len(log)
      BY <1>2 DEF Commits, TypeOK
    <2>2. QED
      BY <1>2, <2>1 DEF Tree, TypeOK
  <1>3. QED
    BY <1>1, <1>2

(* A commit is appended.                                                   *)
LEMMA TreeAppended ==
    ASSUME TypeOK, NEW t \in [Folders -> Nat], log' = Append(log, t)
    PROVE  /\ Len(log') = Len(log) + 1 /\ log' \in Seq([Folders -> Nat])
           /\ \A c \in Nat : c = Len(log) + 1 => Tree(c)' = t
           /\ \A c \in Commits : Tree(c)' = Tree(c)
  <1>1. /\ log \in Seq([Folders -> Nat]) /\ Len(log) \in Nat
    BY DEF TypeOK
  <1>2. /\ Len(log') = Len(log) + 1 /\ log' \in Seq([Folders -> Nat])
        /\ log'[Len(log) + 1] = t
        /\ \A c \in 1 .. Len(log) : log'[c] = log[c]
    BY <1>1, AppendProperties
  <1>3. \A c \in Nat : c = Len(log) + 1 => Tree(c)' = t
    BY <1>1, <1>2 DEF Tree
  <1>4. ASSUME NEW c \in Commits PROVE Tree(c)' = Tree(c)
    <2>1. c = 0 \/ c \in 1 .. Len(log)
      BY <1>1 DEF Commits
    <2>2. QED
      BY <1>2, <2>1 DEF Tree, NoFolders
  <1>5. QED
    BY <1>2, <1>3, <1>4

(* History is never rewritten.                                             *)
LEMMA HistoryKept ==
    ASSUME TypeOK, [Next]_vars
    PROVE  /\ Len(log) <= Len(log') /\ Len(log') \in Nat
           /\ \A c \in Commits : /\ c \in Commits' /\ Tree(c)' = Tree(c)
                                 /\ \A d \in Docs : At(c, d)' = At(c, d)
  <1>1. Len(log) \in Nat
    BY DEF TypeOK
  <1>2. \/ log' = log
        \/ \E m \in Machines : log' = Append(log, work[m])
    BY DEF Next, vars, vault, AutoCommit, Pull, RemoveSuperseded, CommitIngest, IngestDies,
      ReadBookmark, Plan, Applied, Advance, Fail, Remove, Stage, Replay, Begin, Retract, Rebuild
  <1>3. /\ Len(log) <= Len(log') /\ Len(log') \in Nat
        /\ \A c \in Commits : Tree(c)' = Tree(c)
    <2>1. CASE log' = log
      BY <1>1, <2>1 DEF Tree, NoFolders
    <2>2. ASSUME NEW m \in Machines, log' = Append(log, work[m])
          PROVE  /\ Len(log) <= Len(log') /\ Len(log') \in Nat
                 /\ \A c \in Commits : Tree(c)' = Tree(c)
      <3>1. work[m] \in [Folders -> Nat]
        BY DEF TypeOK
      <3>2. QED
        BY <1>1, <2>2, <3>1, TreeAppended
    <2>3. QED
      BY <1>2, <2>1, <2>2
  <1>4. ASSUME NEW c \in Commits, NEW d \in Docs PROVE At(c, d)' = At(c, d)
    BY <1>3 DEF At
  <1>5. \A c \in Commits : c \in Commits'
    BY <1>1, <1>3 DEF Commits
  <1>6. QED
    BY <1>3, <1>4, <1>5

(* What versions speak of are keys.                                        *)
LEMMA KeysOfKeys ==
    ASSUME NEW d \in Docs, NEW vs, vs \subseteq 1 .. Len(Asserts[d])
    PROVE  KeysOf(d, vs) \in SUBSET Keys
  <1>1. Asserts[d] \in Seq(SUBSET Keys)
    BY AssertsAssumption
  <1>2. \A v \in vs : Asserts[d][v] \in SUBSET Keys
    BY <1>1
  <1>3. QED
    BY <1>2 DEF KeysOf

(* Where no commit is made.                                                *)
LEMMA TreesKept ==
    ASSUME log' = log
    PROVE  Commits' = Commits /\ \A c : Tree(c)' = Tree(c) /\ \A d : At(c, d)' = At(c, d)
  BY DEF Commits, Tree, NoFolders, At

(* What the operations on a vault do, place by place.                      *)
LEMMA AutoCommitAt ==
    ASSUME TypeOK, NEW m \in Machines, AutoCommit(m)
    PROVE  /\ Len(log') = Len(log) + 1 /\ log' \in Seq([Folders -> Nat])
           /\ \A c \in Nat : c = Len(log) + 1 => Tree(c)' = work[m]
           /\ \A c \in Commits : Tree(c)' = Tree(c)
           /\ \A n \in Machines : pos'[n] = IF n = m THEN Len(log) + 1 ELSE pos[n]
           /\ work' = work /\ made' = made
  <1>1. work[m] \in [Folders -> Nat] /\ log' = Append(log, work[m])
    BY DEF TypeOK, AutoCommit
  <1>2. /\ work' = work /\ made' = made
        /\ \A n \in Machines : pos'[n] = IF n = m THEN Len(log) + 1 ELSE pos[n]
    BY DEF TypeOK, AutoCommit
  <1>3. QED
    BY <1>1, <1>2, TreeAppended

(* Pull.                                                                   *)
LEMMA PullAt ==
    ASSUME TypeOK, NEW m \in Machines, Pull(m)
    PROVE  /\ log' = log /\ made' = made
           /\ \A n \in Machines : /\ pos'[n] = IF n = m THEN Len(log) ELSE pos[n]
                                  /\ work'[n] = IF n = m THEN Tree(Len(log)) ELSE work[n]
  BY DEF TypeOK, Pull

(* Stage: the one place that gets a new version.                           *)
LEMMA StageAt ==
    ASSUME TypeOK, NEW m \in Machines, NEW f \in Folders, Stage(m, f)
    PROVE  /\ log' = log /\ pos' = pos
           /\ \A d \in Docs : made'[d] = IF d = DocOf[f] THEN made[d] + 1 ELSE made[d]
           /\ \A n \in Machines, h \in Folders :
                 work'[n][h] = IF n = m /\ h = f THEN made[DocOf[f]] + 1 ELSE work[n][h]
           /\ \A n \in Machines : ipc'[n] = IF n = m THEN "supersede" ELSE ipc[n]
           /\ \A n \in Machines : ifolder'[n] = IF n = m THEN f ELSE ifolder[n]
  BY DEF TypeOK, Stage

(* RemoveSuperseded: the other folders of the document.                    *)
LEMMA RemoveSupersededAt ==
    ASSUME TypeOK, NEW m \in Machines, RemoveSuperseded(m)
    PROVE  /\ log' = log /\ pos' = pos /\ made' = made /\ ifolder' = ifolder
           /\ \A n \in Machines, h \in Folders :
                 work'[n][h] = IF n = m /\ DocOf[h] = Doc(m) /\ h # ifolder[m]
                               THEN 0 ELSE work[n][h]
           /\ \A n \in Machines : ipc'[n] = IF n = m THEN "commit" ELSE ipc[n]
  <1>1. \A n \in Machines : work'[n] =
           IF n = m THEN [h \in Folders |-> IF DocOf[h] = Doc(m) /\ h # ifolder[m]
                                            THEN 0 ELSE work[m][h]]
                    ELSE work[n]
    BY DEF TypeOK, RemoveSuperseded
  <1>2. /\ log' = log /\ pos' = pos /\ made' = made /\ ifolder' = ifolder
        /\ \A n \in Machines : ipc'[n] = IF n = m THEN "commit" ELSE ipc[n]
    BY DEF TypeOK, RemoveSuperseded
  <1>3. \A h \in Folders : work'[m][h] = IF DocOf[h] = Doc(m) /\ h # ifolder[m]
                                        THEN 0 ELSE work[m][h]
    BY <1>1
  <1>4. QED
    BY <1>1, <1>2, <1>3

(* Remove.                                                                 *)
LEMMA RemoveAt ==
    ASSUME TypeOK, NEW m \in Machines, NEW f \in Folders, Remove(m, f)
    PROVE  /\ log' = log /\ pos' = pos /\ made' = made /\ ipc' = ipc /\ ifolder' = ifolder
           /\ \A n \in Machines, h \in Folders :
                 work'[n][h] = IF n = m /\ h = f THEN 0 ELSE work[n][h]
  BY DEF TypeOK, Remove, ingest

(* The vault's variables have their types.                                 *)
VaultType ==
    /\ log \in Seq([Folders -> Nat]) /\ Len(log) \in Nat
    /\ pos \in [Machines -> Commits]
    /\ work \in [Machines -> [Folders -> Nat]]
    /\ made \in [Docs -> Nat]

(* They have, and no tree or version is outside them.                      *)
LEMMA VaultTyped ==
    ASSUME TypeOK
    PROVE  /\ VaultType /\ Len(log) \in Commits
           /\ \A c \in Commits : Tree(c) \in [Folders -> Nat]
  BY TreeType DEF TypeOK, VaultType, Commits

(* Extracted, the working trees.                                           *)
LEMMA ExtractedWork ==
    ASSUME TypeOK, Extracted, [Next]_vars
    PROVE  \A n \in Machines, h \in Folders : work'[n][h] <= made'[DocOf[h]]
  <1> USE FolderAssumption, VaultTyped DEF VaultType, Extracted, Commits
  <1>1. ASSUME NEW m \in Machines, AutoCommit(m) PROVE \A n \in Machines, h
    \in Folders : work'[n][h] <= made'[DocOf[h]]
    BY <1>1, AutoCommitAt, VaultTyped DEF AutoCommit
  <1>2. ASSUME NEW m \in Machines, Pull(m) PROVE \A n \in Machines, h \in
    Folders : work'[n][h] <= made'[DocOf[h]]
    BY <1>2, PullAt, VaultTyped
  <1>3. ASSUME NEW m \in Machines, RemoveSuperseded(m) PROVE \A n \in
    Machines, h \in Folders : work'[n][h] <= made'[DocOf[h]]
    BY <1>3, RemoveSupersededAt, VaultTyped DEF RemoveSuperseded
  <1>4. ASSUME NEW m \in Machines, CommitIngest(m) PROVE \A n \in Machines, h
    \in Folders : work'[n][h] <= made'[DocOf[h]]
    BY <1>4 DEF CommitIngest, Replaced, IngestOver, vault, graph, ingest,
      slocal
  <1>5. ASSUME NEW m \in Machines, IngestDies(m) PROVE \A n \in Machines, h
    \in Folders : work'[n][h] <= made'[DocOf[h]]
    BY <1>5 DEF IngestDies, IngestOver, vault, graph, ingest, slocal
  <1>6. ASSUME NEW m \in Machines, ReadBookmark(m) PROVE \A n \in Machines, h
    \in Folders : work'[n][h] <= made'[DocOf[h]]
    BY <1>6 DEF ReadBookmark, SGoto, Over, IsAncestor, vault, graph, ingest,
      slocal
  <1>7. ASSUME NEW m \in Machines, Plan(m) PROVE \A n \in Machines, h \in
    Folders : work'[n][h] <= made'[DocOf[h]]
    BY <1>7 DEF Plan, SGoto, vault, graph, ingest, slocal
  <1>8. ASSUME NEW m \in Machines, Applied(m) PROVE \A n \in Machines, h \in
    Folders : work'[n][h] <= made'[DocOf[h]]
    BY <1>8 DEF Applied, SGoto, vault, graph, ingest, slocal
  <1>9. ASSUME NEW m \in Machines, Advance(m) PROVE \A n \in Machines, h \in
    Folders : work'[n][h] <= made'[DocOf[h]]
    BY <1>9 DEF Advance, Over, NewBookmark, vault, graph, ingest, slocal
  <1>10. ASSUME NEW m \in Machines, Fail(m) PROVE \A n \in Machines, h \in
    Folders : work'[n][h] <= made'[DocOf[h]]
    BY <1>10 DEF Fail, Over, vault, graph, ingest, slocal
  <1>11. ASSUME NEW m \in Machines, NEW f \in Folders, Remove(m, f) PROVE \A n
    \in Machines, h \in Folders : work'[n][h] <= made'[DocOf[h]]
    BY <1>11, RemoveAt, VaultTyped DEF Remove
  <1>12. ASSUME NEW m \in Machines, NEW f \in Folders, Stage(m, f) PROVE \A n
    \in Machines, h \in Folders : work'[n][h] <= made'[DocOf[h]]
    BY <1>12, StageAt, VaultTyped DEF Stage
  <1>13. ASSUME NEW m \in Machines, NEW f \in Folders, Replay(m, f) PROVE \A n
    \in Machines, h \in Folders : work'[n][h] <= made'[DocOf[h]]
    BY <1>13 DEF Replay, Replaced, Owe, Collect, vault, graph, ingest, slocal
  <1>14. ASSUME NEW m \in Machines, NEW scope \in Scopes, Begin(m, scope)
    PROVE \A n \in Machines, h \in Folders : work'[n][h] <= made'[DocOf[h]]
    BY <1>14 DEF Begin, SGoto, Turn, vault, graph, ingest, slocal
  <1>15. ASSUME NEW m \in Machines, NEW d \in Docs, Retract(m, d) PROVE \A n
    \in Machines, h \in Folders : work'[n][h] <= made'[DocOf[h]]
    BY <1>15 DEF Retract, Replaced, Owe, Collect, vault, graph, ingest, slocal
  <1>16. ASSUME NEW m \in Machines, NEW k \in Keys, Rebuild(m, k) PROVE \A n
    \in Machines, h \in Folders : work'[n][h] <= made'[DocOf[h]]
    BY <1>16 DEF Rebuild, vault, graph, ingest, slocal
  <1>17. CASE UNCHANGED vars
    BY <1>17 DEF vars, vault, graph, ingest, slocal
  <1>18. QED
    BY <1>1, <1>2, <1>3, <1>4, <1>5, <1>6, <1>7, <1>8, <1>9, <1>10, <1>11,
      <1>12, <1>13, <1>14, <1>15, <1>16, <1>17 DEF Next

(* A tree after the step is a tree before it or the one committed.         *)
TreeIs(c) == \/ c \in Commits /\ Tree(c)' = Tree(c)
             \/ \E m \in Machines : AutoCommit(m) /\ c = Len(log) + 1 /\ Tree(c)' = work[m]

(* TreeIs.                                                                 *)
LEMMA TreeStep ==
    ASSUME TypeOK, [Next]_vars
    PROVE  \A c \in Commits' : TreeIs(c)
  <1> USE TreesKept, VaultTyped DEF TreeIs
  <1>1. ASSUME NEW m \in Machines, AutoCommit(m) PROVE \A c \in Commits' :
    TreeIs(c)
    <2>1. Len(log') = Len(log) + 1 /\ Commits' = 0 .. Len(log')
      BY <1>1, AutoCommitAt DEF Commits
    <2>2. ASSUME NEW c \in Commits' PROVE TreeIs(c)
      <3>1. CASE c \in Commits
        BY <1>1, <3>1, AutoCommitAt
      <3>2. CASE c \notin Commits
        <4>1. c = Len(log) + 1 /\ c \in Nat
          BY <2>1, <2>2, <3>2 DEF Commits, VaultType
        <4>2. QED
          BY <1>1, <4>1, AutoCommitAt
      <3>3. QED
        BY <3>1, <3>2
    <2>3. QED
      BY <2>2
  <1>2. ASSUME NEW m \in Machines, Pull(m) PROVE \A c \in Commits' : TreeIs(c)
    BY <1>2 DEF Pull, vault, graph, ingest, slocal
  <1>3. ASSUME NEW m \in Machines, RemoveSuperseded(m) PROVE \A c \in Commits'
    : TreeIs(c)
    BY <1>3 DEF RemoveSuperseded, vault, graph, ingest, slocal
  <1>4. ASSUME NEW m \in Machines, CommitIngest(m) PROVE \A c \in Commits' :
    TreeIs(c)
    BY <1>4 DEF CommitIngest, Replaced, IngestOver, vault, graph, ingest,
      slocal
  <1>5. ASSUME NEW m \in Machines, IngestDies(m) PROVE \A c \in Commits' :
    TreeIs(c)
    BY <1>5 DEF IngestDies, IngestOver, vault, graph, ingest, slocal
  <1>6. ASSUME NEW m \in Machines, ReadBookmark(m) PROVE \A c \in Commits' :
    TreeIs(c)
    BY <1>6 DEF ReadBookmark, SGoto, Over, IsAncestor, vault, graph, ingest,
      slocal
  <1>7. ASSUME NEW m \in Machines, Plan(m) PROVE \A c \in Commits' : TreeIs(c)
    BY <1>7 DEF Plan, SGoto, vault, graph, ingest, slocal
  <1>8. ASSUME NEW m \in Machines, Applied(m) PROVE \A c \in Commits' :
    TreeIs(c)
    BY <1>8 DEF Applied, SGoto, vault, graph, ingest, slocal
  <1>9. ASSUME NEW m \in Machines, Advance(m) PROVE \A c \in Commits' :
    TreeIs(c)
    BY <1>9 DEF Advance, Over, NewBookmark, vault, graph, ingest, slocal
  <1>10. ASSUME NEW m \in Machines, Fail(m) PROVE \A c \in Commits' :
    TreeIs(c)
    BY <1>10 DEF Fail, Over, vault, graph, ingest, slocal
  <1>11. ASSUME NEW m \in Machines, NEW f \in Folders, Remove(m, f) PROVE \A c
    \in Commits' : TreeIs(c)
    BY <1>11 DEF Remove, AtTip, vault, graph, ingest, slocal
  <1>12. ASSUME NEW m \in Machines, NEW f \in Folders, Stage(m, f) PROVE \A c
    \in Commits' : TreeIs(c)
    BY <1>12 DEF Stage, AtTip, Turn, vault, graph, ingest, slocal
  <1>13. ASSUME NEW m \in Machines, NEW f \in Folders, Replay(m, f) PROVE \A c
    \in Commits' : TreeIs(c)
    BY <1>13 DEF Replay, Replaced, Owe, Collect, vault, graph, ingest, slocal
  <1>14. ASSUME NEW m \in Machines, NEW scope \in Scopes, Begin(m, scope)
    PROVE \A c \in Commits' : TreeIs(c)
    BY <1>14 DEF Begin, SGoto, Turn, vault, graph, ingest, slocal
  <1>15. ASSUME NEW m \in Machines, NEW d \in Docs, Retract(m, d) PROVE \A c
    \in Commits' : TreeIs(c)
    BY <1>15 DEF Retract, Replaced, Owe, Collect, vault, graph, ingest, slocal
  <1>16. ASSUME NEW m \in Machines, NEW k \in Keys, Rebuild(m, k) PROVE \A c
    \in Commits' : TreeIs(c)
    BY <1>16 DEF Rebuild, vault, graph, ingest, slocal
  <1>17. CASE UNCHANGED vars
    BY <1>17 DEF vars, vault, graph, ingest, slocal
  <1>18. QED
    BY <1>1, <1>2, <1>3, <1>4, <1>5, <1>6, <1>7, <1>8, <1>9, <1>10, <1>11,
      <1>12, <1>13, <1>14, <1>15, <1>16, <1>17 DEF Next

(* A version of a document is made live in a graph, or 0 for none.         *)
LEMMA ReplacedAt ==
    ASSUME TypeOK, NEW g \in Graphs, NEW d \in Docs, NEW v, Replaced(g, d, v)
    PROVE  /\ live'[g][d] = v /\ history'[g][d] = history[g][d] \cup ({v} \ {0})
           /\ \A g1 \in Graphs, d1 \in Docs :
                 g1 # g \/ d1 # d => /\ live'[g1][d1] = live[g1][d1]
                                    /\ history'[g1][d1] = history[g1][d1]
  <1>1. live \in [Graphs -> [Docs -> Nat]] /\ history \in [Graphs -> [Docs -> SUBSET Nat]]
    BY DEF TypeOK
  <1>2. QED
    BY <1>1 DEF Replaced

(* What is written comes from the vault.                                   *)
Writes(m, d, v) == Replaced(GraphOf[m], d, v) /\ v \in 0 .. made[d] /\ made' = made
Written == \/ live' = live /\ history' = history
           \/ \E m \in Machines, d \in Docs, v \in Nat : Writes(m, d, v)

(* Which actions write to a graph, and what.                               *)
LEMMA WritesStep ==
    ASSUME TypeOK, Extracted, Underway, Planned, [Next]_vars
    PROVE  Written
  <1> USE FolderAssumption DEF vault, graph, ingest, slocal, Written
  <1>1. ASSUME NEW m \in Machines, AutoCommit(m) PROVE Written
    BY <1>1 DEF AutoCommit, Dirty
  <1>2. ASSUME NEW m \in Machines, Pull(m) PROVE Written
    BY <1>2 DEF Pull
  <1>3. ASSUME NEW m \in Machines, RemoveSuperseded(m) PROVE Written
    BY <1>3 DEF RemoveSuperseded
  <1>4. ASSUME NEW m \in Machines, CommitIngest(m) PROVE Written
    <2>1. /\ Doc(m) \in Docs /\ work[m][ifolder[m]] \in 0 .. made[Doc(m)]
          /\ made' = made /\ Replaced(GraphOf[m], Doc(m), work[m][ifolder[m]])
      BY <1>4, VaultTyped DEF CommitIngest, Doc, Underway, Extracted, VaultType
    <2>2. QED
      BY <2>1, <1>4 DEF Writes
  <1>5. ASSUME NEW m \in Machines, IngestDies(m) PROVE Written
    BY <1>5 DEF IngestDies, IngestOver
  <1>6. ASSUME NEW m \in Machines, ReadBookmark(m) PROVE Written
    BY <1>6 DEF ReadBookmark, SGoto, Over, IsAncestor
  <1>7. ASSUME NEW m \in Machines, Plan(m) PROVE Written
    BY <1>7 DEF Plan, SGoto
  <1>8. ASSUME NEW m \in Machines, Applied(m) PROVE Written
    BY <1>8 DEF Applied, SGoto
  <1>9. ASSUME NEW m \in Machines, Advance(m) PROVE Written
    BY <1>9 DEF Advance, Over, NewBookmark
  <1>10. ASSUME NEW m \in Machines, Fail(m) PROVE Written
    BY <1>10 DEF Fail, Over
  <1>11. ASSUME NEW m \in Machines, NEW f \in Folders, Remove(m, f) PROVE
    Written
    BY <1>11 DEF Remove, AtTip
  <1>12. ASSUME NEW m \in Machines, NEW f \in Folders, Stage(m, f) PROVE
    Written
    BY <1>12 DEF Stage, AtTip, Turn
  <1>13. ASSUME NEW m \in Machines, NEW f \in Folders, Replay(m, f) PROVE
    Written
    <2>1. /\ DocOf[f] \in Docs /\ Tree(shead[m])[f] \in 0 .. made[DocOf[f]]
          /\ made' = made /\ Replaced(GraphOf[m], DocOf[f], Tree(shead[m])[f])
      <3>1. shead[m] \in Commits
        BY DEF TypeOK, Commits
      <3>2. QED
        BY <1>13, <3>1, VaultTyped DEF Replay, Extracted, VaultType
    <2>2. QED
      BY <2>1, <1>13 DEF Writes
  <1>14. ASSUME NEW m \in Machines, NEW scope \in Scopes, Begin(m, scope)
    PROVE Written
    BY <1>14 DEF Begin, SGoto, Turn
  <1>15. ASSUME NEW m \in Machines, NEW d \in Docs, Retract(m, d) PROVE
    Written
    <2>1. 0 \in 0 .. made[d] /\ made' = made /\ Replaced(GraphOf[m], d, 0)
      BY <1>15, VaultTyped DEF Retract, VaultType
    <2>2. QED
      BY <2>1, <1>15 DEF Writes
  <1>16. ASSUME NEW m \in Machines, NEW k \in Keys, Rebuild(m, k) PROVE
    Written
    BY <1>16 DEF Rebuild
  <1>17. CASE UNCHANGED vars
    BY <1>17 DEF vars
  <1>18. QED
    BY <1>1, <1>2, <1>3, <1>4, <1>5, <1>6, <1>7, <1>8, <1>9, <1>10, <1>11,
      <1>12, <1>13, <1>14, <1>15, <1>16, <1>17 DEF Next

(* Versions are only ever added.                                           *)
LEMMA MadeGrows ==
    ASSUME TypeOK, [Next]_vars
    PROVE  \A d \in Docs : made[d] <= made'[d] /\ made'[d] \in Nat
  <1> USE VaultTyped DEF VaultType
  <1>1. ASSUME NEW m \in Machines, AutoCommit(m) PROVE \A d \in Docs : made[d]
    <= made'[d] /\ made'[d] \in Nat
    BY <1>1, AutoCommitAt, VaultTyped DEF AutoCommit
  <1>2. ASSUME NEW m \in Machines, Pull(m) PROVE \A d \in Docs : made[d] <=
    made'[d] /\ made'[d] \in Nat
    BY <1>2, PullAt, VaultTyped
  <1>3. ASSUME NEW m \in Machines, RemoveSuperseded(m) PROVE \A d \in Docs :
    made[d] <= made'[d] /\ made'[d] \in Nat
    BY <1>3, RemoveSupersededAt, VaultTyped DEF RemoveSuperseded
  <1>4. ASSUME NEW m \in Machines, CommitIngest(m) PROVE \A d \in Docs :
    made[d] <= made'[d] /\ made'[d] \in Nat
    BY <1>4 DEF CommitIngest, Replaced, IngestOver, vault, graph, ingest,
      slocal
  <1>5. ASSUME NEW m \in Machines, IngestDies(m) PROVE \A d \in Docs : made[d]
    <= made'[d] /\ made'[d] \in Nat
    BY <1>5 DEF IngestDies, IngestOver, vault, graph, ingest, slocal
  <1>6. ASSUME NEW m \in Machines, ReadBookmark(m) PROVE \A d \in Docs :
    made[d] <= made'[d] /\ made'[d] \in Nat
    BY <1>6 DEF ReadBookmark, SGoto, Over, IsAncestor, vault, graph, ingest,
      slocal
  <1>7. ASSUME NEW m \in Machines, Plan(m) PROVE \A d \in Docs : made[d] <=
    made'[d] /\ made'[d] \in Nat
    BY <1>7 DEF Plan, SGoto, vault, graph, ingest, slocal
  <1>8. ASSUME NEW m \in Machines, Applied(m) PROVE \A d \in Docs : made[d] <=
    made'[d] /\ made'[d] \in Nat
    BY <1>8 DEF Applied, SGoto, vault, graph, ingest, slocal
  <1>9. ASSUME NEW m \in Machines, Advance(m) PROVE \A d \in Docs : made[d] <=
    made'[d] /\ made'[d] \in Nat
    BY <1>9 DEF Advance, Over, NewBookmark, vault, graph, ingest, slocal
  <1>10. ASSUME NEW m \in Machines, Fail(m) PROVE \A d \in Docs : made[d] <=
    made'[d] /\ made'[d] \in Nat
    BY <1>10 DEF Fail, Over, vault, graph, ingest, slocal
  <1>11. ASSUME NEW m \in Machines, NEW f \in Folders, Remove(m, f) PROVE \A d
    \in Docs : made[d] <= made'[d] /\ made'[d] \in Nat
    BY <1>11, RemoveAt, VaultTyped DEF Remove
  <1>12. ASSUME NEW m \in Machines, NEW f \in Folders, Stage(m, f) PROVE \A d
    \in Docs : made[d] <= made'[d] /\ made'[d] \in Nat
    BY <1>12, StageAt, VaultTyped DEF Stage
  <1>13. ASSUME NEW m \in Machines, NEW f \in Folders, Replay(m, f) PROVE \A d
    \in Docs : made[d] <= made'[d] /\ made'[d] \in Nat
    BY <1>13 DEF Replay, Replaced, Owe, Collect, vault, graph, ingest, slocal
  <1>14. ASSUME NEW m \in Machines, NEW scope \in Scopes, Begin(m, scope)
    PROVE \A d \in Docs : made[d] <= made'[d] /\ made'[d] \in Nat
    BY <1>14 DEF Begin, SGoto, Turn, vault, graph, ingest, slocal
  <1>15. ASSUME NEW m \in Machines, NEW e \in Docs, Retract(m, e) PROVE \A d
    \in Docs : made[d] <= made'[d] /\ made'[d] \in Nat
    BY <1>15 DEF Retract, Replaced, Owe, Collect, vault, graph, ingest, slocal
  <1>16. ASSUME NEW m \in Machines, NEW k \in Keys, Rebuild(m, k) PROVE \A d
    \in Docs : made[d] <= made'[d] /\ made'[d] \in Nat
    BY <1>16 DEF Rebuild, vault, graph, ingest, slocal
  <1>17. CASE UNCHANGED vars
    BY <1>17 DEF vars, vault, graph, ingest, slocal
  <1>18. QED
    BY <1>1, <1>2, <1>3, <1>4, <1>5, <1>6, <1>7, <1>8, <1>9, <1>10, <1>11,
      <1>12, <1>13, <1>14, <1>15, <1>16, <1>17 DEF Next

(* Extracted.                                                              *)
LEMMA ExtractedStep ==
    ASSUME TypeOK, Extracted, Underway, Planned, [Next]_vars
    PROVE  Extracted'
  <1>1. \A d \in Docs : made'[d] <= Len(Asserts[d])
    <2>1. ASSUME NEW m \in Machines, NEW f \in Folders, Stage(m, f)
          PROVE  \A d \in Docs : made'[d] <= Len(Asserts[d])
      BY <2>1, StageAt, VaultTyped, AssertsAssumption DEF Stage, Extracted, VaultType
    <2>2. CASE made' = made
      BY <2>2 DEF Extracted
    <2>3. made' = made \/ \E m \in Machines, f \in Folders : Stage(m, f)
      BY DEF Next, vars, vault, AutoCommit, Pull, RemoveSuperseded, CommitIngest,
        IngestDies,
        ReadBookmark, Plan, Applied, Advance, Fail, Remove, Replay, Begin, Retract, Rebuild
    <2>4. QED
      BY <2>1, <2>2, <2>3
  <1>2. \A f \in Folders, c \in Commits' : Tree(c)'[f] <= made'[DocOf[f]]
    <2> SUFFICES ASSUME NEW f \in Folders, NEW c \in Commits'
                 PROVE  Tree(c)'[f] <= made'[DocOf[f]]
      OBVIOUS
    <2>1. /\ made[DocOf[f]] \in Nat /\ made[DocOf[f]] <= made'[DocOf[f]]
          /\ made'[DocOf[f]] \in Nat
      BY MadeGrows, VaultTyped, FolderAssumption DEF VaultType
    <2>2. CASE c \in Commits /\ Tree(c)' = Tree(c)
      BY <2>1, <2>2, VaultTyped DEF Extracted
    <2>3. ASSUME NEW m \in Machines, Tree(c)' = work[m]
          PROVE  Tree(c)'[f] <= made'[DocOf[f]]
      BY <2>1, <2>3, VaultTyped DEF Extracted, VaultType
    <2>4. QED
      BY <2>2, <2>3, TreeStep DEF TreeIs
  <1>3. \A g \in Graphs, d \in Docs : /\ history'[g][d] \subseteq 1 .. made'[d]
                                      /\ live'[g][d] \in history'[g][d] \cup {0}
    <2> SUFFICES ASSUME NEW g \in Graphs, NEW d \in Docs
                 PROVE  /\ history'[g][d] \subseteq 1 .. made'[d]
                        /\ live'[g][d] \in history'[g][d] \cup {0}
      OBVIOUS
    <2>1. /\ made[d] \in Nat /\ made[d] <= made'[d] /\ made'[d] \in Nat
          /\ history[g][d] \subseteq 1 .. made[d] /\ live[g][d] \in history[g][d] \cup {0}
      BY MadeGrows, VaultTyped DEF VaultType, Extracted
    <2>2. CASE live' = live /\ history' = history
      BY <2>1, <2>2
    <2>3. ASSUME NEW m \in Machines, NEW e \in Docs, NEW v \in Nat, Writes(m, e, v)
          PROVE  /\ history'[g][d] \subseteq 1 .. made'[d]
                 /\ live'[g][d] \in history'[g][d] \cup {0}
      <3>1. GraphOf[m] \in Graphs /\ v \in 0 .. made[e] /\ made' = made
            /\ Replaced(GraphOf[m], e, v)
        BY <2>3, GraphAssumption DEF Writes
      <3>3. CASE g = GraphOf[m] /\ d = e
        <4>1. live'[g][d] = v /\ history'[g][d] = history[g][d] \cup ({v} \ {0})
          BY <3>1, <3>3, ReplacedAt
        <4>2. QED
          BY <2>1, <3>1, <3>3, <4>1
      <3>4. CASE ~(g = GraphOf[m] /\ d = e)
        BY <2>1, <3>1, <3>4, ReplacedAt
      <3>5. QED
        BY <3>3, <3>4
    <2>4. QED
      BY <2>2, <2>3, WritesStep DEF Written
  <1>4. QED
    BY <1>1, <1>2, <1>3, ExtractedWork DEF Extracted

(* The ingests.                                                            *)
LEMMA IngestsStep ==
    ASSUME TypeOK, Underway, [Next]_vars
    PROVE  \A n \in Machines : ipc'[n] # "idle" => ifolder'[n] \in Folders
  <1>1. ASSUME NEW m \in Machines, AutoCommit(m) PROVE \A n \in Machines :
    ipc'[n] # "idle" => ifolder'[n] \in Folders
    BY <1>1 DEF AutoCommit, Dirty, vault, graph, ingest, slocal, TypeOK,
      Underway
  <1>2. ASSUME NEW m \in Machines, Pull(m) PROVE \A n \in Machines : ipc'[n] #
    "idle" => ifolder'[n] \in Folders
    BY <1>2 DEF Pull, vault, graph, ingest, slocal, TypeOK, Underway
  <1>3. ASSUME NEW m \in Machines, RemoveSuperseded(m) PROVE \A n \in Machines
    : ipc'[n] # "idle" => ifolder'[n] \in Folders
    BY <1>3 DEF RemoveSuperseded, vault, graph, ingest, slocal, TypeOK,
      Underway
  <1>4. ASSUME NEW m \in Machines, CommitIngest(m) PROVE \A n \in Machines :
    ipc'[n] # "idle" => ifolder'[n] \in Folders
    BY <1>4 DEF CommitIngest, Replaced, IngestOver, vault, graph, ingest,
      slocal, TypeOK, Underway
  <1>5. ASSUME NEW m \in Machines, IngestDies(m) PROVE \A n \in Machines :
    ipc'[n] # "idle" => ifolder'[n] \in Folders
    BY <1>5 DEF IngestDies, IngestOver, vault, graph, ingest, slocal, TypeOK,
      Underway
  <1>6. ASSUME NEW m \in Machines, ReadBookmark(m) PROVE \A n \in Machines :
    ipc'[n] # "idle" => ifolder'[n] \in Folders
    BY <1>6 DEF ReadBookmark, SGoto, Over, IsAncestor, vault, graph, ingest,
      slocal, TypeOK, Underway
  <1>7. ASSUME NEW m \in Machines, Plan(m) PROVE \A n \in Machines : ipc'[n] #
    "idle" => ifolder'[n] \in Folders
    BY <1>7 DEF Plan, SGoto, vault, graph, ingest, slocal, TypeOK, Underway
  <1>8. ASSUME NEW m \in Machines, Applied(m) PROVE \A n \in Machines :
    ipc'[n] # "idle" => ifolder'[n] \in Folders
    BY <1>8 DEF Applied, SGoto, vault, graph, ingest, slocal, TypeOK, Underway
  <1>9. ASSUME NEW m \in Machines, Advance(m) PROVE \A n \in Machines :
    ipc'[n] # "idle" => ifolder'[n] \in Folders
    BY <1>9 DEF Advance, Over, NewBookmark, vault, graph, ingest, slocal,
      TypeOK, Underway
  <1>10. ASSUME NEW m \in Machines, Fail(m) PROVE \A n \in Machines : ipc'[n]
    # "idle" => ifolder'[n] \in Folders
    BY <1>10 DEF Fail, Over, vault, graph, ingest, slocal, TypeOK, Underway
  <1>11. ASSUME NEW m \in Machines, NEW f \in Folders, Remove(m, f) PROVE \A n
    \in Machines : ipc'[n] # "idle" => ifolder'[n] \in Folders
    BY <1>11 DEF Remove, AtTip, vault, graph, ingest, slocal, TypeOK, Underway
  <1>12. ASSUME NEW m \in Machines, NEW f \in Folders, Stage(m, f) PROVE \A n
    \in Machines : ipc'[n] # "idle" => ifolder'[n] \in Folders
    BY <1>12 DEF Stage, AtTip, Turn, vault, graph, ingest, slocal, TypeOK,
      Underway
  <1>13. ASSUME NEW m \in Machines, NEW f \in Folders, Replay(m, f) PROVE \A n
    \in Machines : ipc'[n] # "idle" => ifolder'[n] \in Folders
    BY <1>13 DEF Replay, Replaced, Owe, Collect, vault, graph, ingest, slocal,
      TypeOK, Underway
  <1>14. ASSUME NEW m \in Machines, NEW scope \in Scopes, Begin(m, scope)
    PROVE \A n \in Machines : ipc'[n] # "idle" => ifolder'[n] \in Folders
    BY <1>14 DEF Begin, SGoto, Turn, vault, graph, ingest, slocal, TypeOK,
      Underway
  <1>15. ASSUME NEW m \in Machines, NEW d \in Docs, Retract(m, d) PROVE \A n
    \in Machines : ipc'[n] # "idle" => ifolder'[n] \in Folders
    BY <1>15 DEF Retract, Replaced, Owe, Collect, vault, graph, ingest,
      slocal, TypeOK, Underway
  <1>16. ASSUME NEW m \in Machines, NEW k \in Keys, Rebuild(m, k) PROVE \A n
    \in Machines : ipc'[n] # "idle" => ifolder'[n] \in Folders
    BY <1>16 DEF Rebuild, vault, graph, ingest, slocal, TypeOK, Underway
  <1>17. CASE UNCHANGED vars
    BY <1>17 DEF vars, vault, graph, ingest, slocal, TypeOK, Underway
  <1>18. QED
    BY <1>1, <1>2, <1>3, <1>4, <1>5, <1>6, <1>7, <1>8, <1>9, <1>10, <1>11,
      <1>12, <1>13, <1>14, <1>15, <1>16, <1>17 DEF Next

(* Heads only move forward.                                                *)
LEMMA HeadsStep ==
    ASSUME TypeOK, [Next]_vars
    PROVE  \A n \in Machines : pos[n] <= pos'[n]
  <1> USE DEF VaultType, Commits
  <1>1. ASSUME NEW m \in Machines, AutoCommit(m) PROVE \A n \in Machines :
    pos[n] <= pos'[n]
    BY <1>1, AutoCommitAt, VaultTyped DEF AutoCommit
  <1>2. ASSUME NEW m \in Machines, Pull(m) PROVE \A n \in Machines : pos[n] <=
    pos'[n]
    <2>1. \A n \in Machines : pos'[n] = IF n = m THEN Len(log) ELSE pos[n]
      BY <1>2, PullAt
    <2>2. \A n \in Machines : pos[n] \in Nat /\ Len(log) \in Nat /\ pos[n] <= Len(log)
      BY VaultTyped
    <2>3. QED
      BY <2>1, <2>2
  <1>3. ASSUME NEW m \in Machines, RemoveSuperseded(m) PROVE \A n \in Machines
    : pos[n] <= pos'[n]
    BY <1>3, RemoveSupersededAt, VaultTyped DEF RemoveSuperseded
  <1>4. ASSUME NEW m \in Machines, CommitIngest(m) PROVE \A n \in Machines :
    pos[n] <= pos'[n]
    BY <1>4, VaultTyped DEF CommitIngest, Replaced, IngestOver, vault, graph,
      ingest, slocal
  <1>5. ASSUME NEW m \in Machines, IngestDies(m) PROVE \A n \in Machines :
    pos[n] <= pos'[n]
    BY <1>5, VaultTyped DEF IngestDies, IngestOver, vault, graph, ingest,
      slocal
  <1>6. ASSUME NEW m \in Machines, ReadBookmark(m) PROVE \A n \in Machines :
    pos[n] <= pos'[n]
    BY <1>6, VaultTyped DEF ReadBookmark, SGoto, Over, IsAncestor, vault,
      graph, ingest, slocal
  <1>7. ASSUME NEW m \in Machines, Plan(m) PROVE \A n \in Machines : pos[n] <=
    pos'[n]
    BY <1>7, VaultTyped DEF Plan, SGoto, vault, graph, ingest, slocal
  <1>8. ASSUME NEW m \in Machines, Applied(m) PROVE \A n \in Machines : pos[n]
    <= pos'[n]
    BY <1>8, VaultTyped DEF Applied, SGoto, vault, graph, ingest, slocal
  <1>9. ASSUME NEW m \in Machines, Advance(m) PROVE \A n \in Machines : pos[n]
    <= pos'[n]
    BY <1>9, VaultTyped DEF Advance, Over, NewBookmark, vault, graph, ingest,
      slocal
  <1>10. ASSUME NEW m \in Machines, Fail(m) PROVE \A n \in Machines : pos[n]
    <= pos'[n]
    BY <1>10, VaultTyped DEF Fail, Over, vault, graph, ingest, slocal
  <1>11. ASSUME NEW m \in Machines, NEW f \in Folders, Remove(m, f) PROVE \A n
    \in Machines : pos[n] <= pos'[n]
    BY <1>11, RemoveAt, VaultTyped DEF Remove
  <1>12. ASSUME NEW m \in Machines, NEW f \in Folders, Stage(m, f) PROVE \A n
    \in Machines : pos[n] <= pos'[n]
    BY <1>12, StageAt, VaultTyped DEF Stage
  <1>13. ASSUME NEW m \in Machines, NEW f \in Folders, Replay(m, f) PROVE \A n
    \in Machines : pos[n] <= pos'[n]
    BY <1>13, VaultTyped DEF Replay, Replaced, Owe, Collect, vault, graph,
      ingest, slocal
  <1>14. ASSUME NEW m \in Machines, NEW scope \in Scopes, Begin(m, scope)
    PROVE \A n \in Machines : pos[n] <= pos'[n]
    BY <1>14, VaultTyped DEF Begin, SGoto, Turn, vault, graph, ingest, slocal
  <1>15. ASSUME NEW m \in Machines, NEW d \in Docs, Retract(m, d) PROVE \A n
    \in Machines : pos[n] <= pos'[n]
    BY <1>15, VaultTyped DEF Retract, Replaced, Owe, Collect, vault, graph,
      ingest, slocal
  <1>16. ASSUME NEW m \in Machines, NEW k \in Keys, Rebuild(m, k) PROVE \A n
    \in Machines : pos[n] <= pos'[n]
    BY <1>16, VaultTyped DEF Rebuild, vault, graph, ingest, slocal
  <1>17. CASE UNCHANGED vars
    BY <1>17, VaultTyped DEF vars, vault, graph, ingest, slocal
  <1>18. QED
    BY <1>1, <1>2, <1>3, <1>4, <1>5, <1>6, <1>7, <1>8, <1>9, <1>10, <1>11,
      <1>12, <1>13, <1>14, <1>15, <1>16, <1>17 DEF Next

(* The syncs.                                                              *)
LEMMA SyncsStep ==
    ASSUME TypeOK, Underway, [Next]_vars
    PROVE  \A n \in Machines : shead'[n] <= pos'[n]
  <1> USE HeadsStep, VaultTyped DEF VaultType, Commits, Underway
  <1>1. ASSUME NEW m \in Machines, AutoCommit(m) PROVE \A n \in Machines :
    shead'[n] <= pos'[n]
    BY <1>1, HeadsStep DEF AutoCommit, slocal, TypeOK
  <1>2. ASSUME NEW m \in Machines, Pull(m) PROVE \A n \in Machines : shead'[n]
    <= pos'[n]
    BY <1>2, HeadsStep DEF Pull, slocal, TypeOK
  <1>3. ASSUME NEW m \in Machines, RemoveSuperseded(m) PROVE \A n \in Machines
    : shead'[n] <= pos'[n]
    BY <1>3 DEF RemoveSuperseded, vault, graph, ingest, slocal, TypeOK
  <1>4. ASSUME NEW m \in Machines, CommitIngest(m) PROVE \A n \in Machines :
    shead'[n] <= pos'[n]
    BY <1>4 DEF CommitIngest, Replaced, IngestOver, vault, graph, ingest,
      slocal, TypeOK
  <1>5. ASSUME NEW m \in Machines, IngestDies(m) PROVE \A n \in Machines :
    shead'[n] <= pos'[n]
    BY <1>5 DEF IngestDies, IngestOver, vault, graph, ingest, slocal, TypeOK
  <1>6. ASSUME NEW m \in Machines, ReadBookmark(m) PROVE \A n \in Machines :
    shead'[n] <= pos'[n]
    <2>1. CASE IsAncestor(m, bookmark[GraphOf[m]])
      BY <1>6, <2>1 DEF ReadBookmark, SGoto, slocal, vault
    <2>2. CASE ~IsAncestor(m, bookmark[GraphOf[m]])
      <3>1. shead' = [shead EXCEPT ![m] = 0] /\ pos' = pos
        BY <1>6, <2>2 DEF ReadBookmark, Over, vault
      <3>2. QED
        BY <3>1 DEF TypeOK
    <2>3. QED
      BY <2>1, <2>2
  <1>7. ASSUME NEW m \in Machines, Plan(m) PROVE \A n \in Machines : shead'[n]
    <= pos'[n]
    BY <1>7 DEF Plan, SGoto, vault, graph, ingest, slocal, TypeOK
  <1>8. ASSUME NEW m \in Machines, Applied(m) PROVE \A n \in Machines :
    shead'[n] <= pos'[n]
    BY <1>8 DEF Applied, SGoto, vault, graph, ingest, slocal, TypeOK
  <1>9. ASSUME NEW m \in Machines, Advance(m) PROVE \A n \in Machines :
    shead'[n] <= pos'[n]
    BY <1>9 DEF Advance, Over, NewBookmark, vault, graph, ingest, slocal,
      TypeOK
  <1>10. ASSUME NEW m \in Machines, Fail(m) PROVE \A n \in Machines :
    shead'[n] <= pos'[n]
    BY <1>10 DEF Fail, Over, vault, graph, ingest, slocal, TypeOK
  <1>11. ASSUME NEW m \in Machines, NEW f \in Folders, Remove(m, f) PROVE \A n
    \in Machines : shead'[n] <= pos'[n]
    BY <1>11 DEF Remove, AtTip, vault, graph, ingest, slocal, TypeOK
  <1>12. ASSUME NEW m \in Machines, NEW f \in Folders, Stage(m, f) PROVE \A n
    \in Machines : shead'[n] <= pos'[n]
    BY <1>12 DEF Stage, AtTip, Turn, vault, graph, ingest, slocal, TypeOK
  <1>13. ASSUME NEW m \in Machines, NEW f \in Folders, Replay(m, f) PROVE \A n
    \in Machines : shead'[n] <= pos'[n]
    BY <1>13 DEF Replay, Replaced, Owe, Collect, vault, graph, ingest, slocal,
      TypeOK
  <1>14. ASSUME NEW m \in Machines, NEW scope \in Scopes, Begin(m, scope)
    PROVE \A n \in Machines : shead'[n] <= pos'[n]
    BY <1>14 DEF Begin, SGoto, Turn, vault, graph, ingest, slocal, TypeOK
  <1>15. ASSUME NEW m \in Machines, NEW d \in Docs, Retract(m, d) PROVE \A n
    \in Machines : shead'[n] <= pos'[n]
    BY <1>15 DEF Retract, Replaced, Owe, Collect, vault, graph, ingest,
      slocal, TypeOK
  <1>16. ASSUME NEW m \in Machines, NEW k \in Keys, Rebuild(m, k) PROVE \A n
    \in Machines : shead'[n] <= pos'[n]
    BY <1>16 DEF Rebuild, vault, graph, ingest, slocal, TypeOK
  <1>17. CASE UNCHANGED vars
    BY <1>17 DEF vars, vault, graph, ingest, slocal, TypeOK
  <1>18. QED
    BY <1>1, <1>2, <1>3, <1>4, <1>5, <1>6, <1>7, <1>8, <1>9, <1>10, <1>11,
      <1>12, <1>13, <1>14, <1>15, <1>16, <1>17 DEF Next

(* Underway.                                                               *)
Locals(n) == /\ spc[n] = "idle" => shead[n] = 0 /\ smark[n] = 0
             /\ spc[n] = "mark" => smark[n] = 0
             /\ spc[n] \notin {"apply", "rebuild"} => skeys[n] = {}
             /\ spc[n] # "apply" => sreplay[n] = {} /\ sretract[n] = {}

(* Locals.                                                                 *)
LEMMA LocalsStep ==
    ASSUME TypeOK, Underway, [Next]_vars
    PROVE  \A n \in Machines : Locals(n)'
  <1> USE DEF Underway, Locals
  <1>1. ASSUME NEW m \in Machines, AutoCommit(m) PROVE \A n \in Machines :
    Locals(n)'
    BY <1>1 DEF AutoCommit, Dirty, vault, graph, ingest, slocal, TypeOK
  <1>2. ASSUME NEW m \in Machines, Pull(m) PROVE \A n \in Machines :
    Locals(n)'
    BY <1>2 DEF Pull, vault, graph, ingest, slocal, TypeOK
  <1>3. ASSUME NEW m \in Machines, RemoveSuperseded(m) PROVE \A n \in Machines
    : Locals(n)'
    BY <1>3 DEF RemoveSuperseded, vault, graph, ingest, slocal, TypeOK
  <1>4. ASSUME NEW m \in Machines, CommitIngest(m) PROVE \A n \in Machines :
    Locals(n)'
    BY <1>4 DEF CommitIngest, Replaced, IngestOver, vault, graph, ingest,
      slocal, TypeOK
  <1>5. ASSUME NEW m \in Machines, IngestDies(m) PROVE \A n \in Machines :
    Locals(n)'
    BY <1>5 DEF IngestDies, IngestOver, vault, graph, ingest, slocal, TypeOK
  <1>6. ASSUME NEW m \in Machines, ReadBookmark(m) PROVE \A n \in Machines :
    Locals(n)'
    <2>1. CASE IsAncestor(m, bookmark[GraphOf[m]])
      BY <1>6, <2>1 DEF ReadBookmark, SGoto, slocal, TypeOK
    <2>2. CASE ~IsAncestor(m, bookmark[GraphOf[m]])
      BY <1>6, <2>2 DEF ReadBookmark, Over, slocal, TypeOK
    <2>3. QED
      BY <2>1, <2>2
  <1>7. ASSUME NEW m \in Machines, Plan(m) PROVE \A n \in Machines :
    Locals(n)'
    BY <1>7 DEF Plan, SGoto, vault, graph, ingest, slocal, TypeOK
  <1>8. ASSUME NEW m \in Machines, Applied(m) PROVE \A n \in Machines :
    Locals(n)'
    BY <1>8 DEF Applied, SGoto, vault, graph, ingest, slocal, TypeOK
  <1>9. ASSUME NEW m \in Machines, Advance(m) PROVE \A n \in Machines :
    Locals(n)'
    BY <1>9 DEF Advance, Over, NewBookmark, vault, graph, ingest, slocal,
      TypeOK
  <1>10. ASSUME NEW m \in Machines, Fail(m) PROVE \A n \in Machines :
    Locals(n)'
    BY <1>10 DEF Fail, Over, vault, graph, ingest, slocal, TypeOK
  <1>11. ASSUME NEW m \in Machines, NEW f \in Folders, Remove(m, f) PROVE \A n
    \in Machines : Locals(n)'
    BY <1>11 DEF Remove, AtTip, vault, graph, ingest, slocal, TypeOK
  <1>12. ASSUME NEW m \in Machines, NEW f \in Folders, Stage(m, f) PROVE \A n
    \in Machines : Locals(n)'
    BY <1>12 DEF Stage, AtTip, Turn, vault, graph, ingest, slocal, TypeOK
  <1>13. ASSUME NEW m \in Machines, NEW f \in Folders, Replay(m, f) PROVE \A n
    \in Machines : Locals(n)'
    BY <1>13 DEF Replay, Replaced, Owe, Collect, vault, graph, ingest, slocal,
      TypeOK
  <1>14. ASSUME NEW m \in Machines, NEW scope \in Scopes, Begin(m, scope)
    PROVE \A n \in Machines : Locals(n)'
    BY <1>14 DEF Begin, SGoto, Turn, vault, graph, ingest, slocal, TypeOK
  <1>15. ASSUME NEW m \in Machines, NEW d \in Docs, Retract(m, d) PROVE \A n
    \in Machines : Locals(n)'
    BY <1>15 DEF Retract, Replaced, Owe, Collect, vault, graph, ingest,
      slocal, TypeOK
  <1>16. ASSUME NEW m \in Machines, NEW k \in Keys, Rebuild(m, k) PROVE \A n
    \in Machines : Locals(n)'
    BY <1>16 DEF Rebuild, vault, graph, ingest, slocal, TypeOK
  <1>17. CASE UNCHANGED vars
    BY <1>17 DEF vars, vault, graph, ingest, slocal, TypeOK
  <1>18. QED
    BY <1>1, <1>2, <1>3, <1>4, <1>5, <1>6, <1>7, <1>8, <1>9, <1>10, <1>11,
      <1>12, <1>13, <1>14, <1>15, <1>16, <1>17 DEF Next

(* Underway.                                                               *)
LEMMA UnderwayStep == ASSUME TypeOK, Underway, [Next]_vars PROVE Underway'
  BY IngestsStep, SyncsStep, LocalsStep DEF Underway, Locals

(* What a sync is about to apply is what its plan found, or less.          *)
Applies(n) ==
    \/ /\ sreplay'[n] \subseteq sreplay[n] /\ sretract'[n] \subseteq sretract[n]
       /\ shead'[n] = shead[n] /\ smark'[n] = smark[n]
    \/ sreplay'[n] = {} /\ sretract'[n] = {}
    \/ /\ Plan(n) /\ sreplay'[n] = Replays(n) /\ sretract'[n] = Retracts(n)
       /\ shead'[n] = shead[n] /\ smark'[n] = smark[n]

(* Applies.                                                                *)
LEMMA AppliesStep ==
    ASSUME TypeOK, Underway, [Next]_vars
    PROVE  \A n \in Machines : Applies(n)
  <1> USE DEF Underway, Applies
  <1>1. ASSUME NEW m \in Machines, AutoCommit(m) PROVE \A n \in Machines :
    Applies(n)
    BY <1>1 DEF AutoCommit, Dirty, vault, graph, ingest, slocal, TypeOK
  <1>2. ASSUME NEW m \in Machines, Pull(m) PROVE \A n \in Machines :
    Applies(n)
    BY <1>2 DEF Pull, vault, graph, ingest, slocal, TypeOK
  <1>3. ASSUME NEW m \in Machines, RemoveSuperseded(m) PROVE \A n \in Machines
    : Applies(n)
    BY <1>3 DEF RemoveSuperseded, vault, graph, ingest, slocal, TypeOK
  <1>4. ASSUME NEW m \in Machines, CommitIngest(m) PROVE \A n \in Machines :
    Applies(n)
    BY <1>4 DEF CommitIngest, Replaced, IngestOver, vault, graph, ingest,
      slocal, TypeOK
  <1>5. ASSUME NEW m \in Machines, IngestDies(m) PROVE \A n \in Machines :
    Applies(n)
    BY <1>5 DEF IngestDies, IngestOver, vault, graph, ingest, slocal, TypeOK
  <1>6. ASSUME NEW m \in Machines, ReadBookmark(m) PROVE \A n \in Machines :
    Applies(n)
    <2>1. CASE IsAncestor(m, bookmark[GraphOf[m]])
      BY <1>6, <2>1 DEF ReadBookmark, SGoto, slocal, TypeOK
    <2>2. CASE ~IsAncestor(m, bookmark[GraphOf[m]])
      BY <1>6, <2>2 DEF ReadBookmark, Over, slocal, TypeOK
    <2>3. QED
      BY <2>1, <2>2
  <1>7. ASSUME NEW m \in Machines, Plan(m) PROVE \A n \in Machines :
    Applies(n)
    BY <1>7 DEF Plan, SGoto, vault, graph, ingest, slocal, TypeOK
  <1>8. ASSUME NEW m \in Machines, Applied(m) PROVE \A n \in Machines :
    Applies(n)
    BY <1>8 DEF Applied, SGoto, vault, graph, ingest, slocal, TypeOK
  <1>9. ASSUME NEW m \in Machines, Advance(m) PROVE \A n \in Machines :
    Applies(n)
    BY <1>9 DEF Advance, Over, NewBookmark, vault, graph, ingest, slocal,
      TypeOK
  <1>10. ASSUME NEW m \in Machines, Fail(m) PROVE \A n \in Machines :
    Applies(n)
    BY <1>10 DEF Fail, Over, vault, graph, ingest, slocal, TypeOK
  <1>11. ASSUME NEW m \in Machines, NEW f \in Folders, Remove(m, f) PROVE \A n
    \in Machines : Applies(n)
    BY <1>11 DEF Remove, AtTip, vault, graph, ingest, slocal, TypeOK
  <1>12. ASSUME NEW m \in Machines, NEW f \in Folders, Stage(m, f) PROVE \A n
    \in Machines : Applies(n)
    BY <1>12 DEF Stage, AtTip, Turn, vault, graph, ingest, slocal, TypeOK
  <1>13. ASSUME NEW m \in Machines, NEW f \in Folders, Replay(m, f) PROVE \A n
    \in Machines : Applies(n)
    BY <1>13 DEF Replay, Replaced, Owe, Collect, vault, graph, ingest, slocal,
      TypeOK
  <1>14. ASSUME NEW m \in Machines, NEW scope \in Scopes, Begin(m, scope)
    PROVE \A n \in Machines : Applies(n)
    BY <1>14 DEF Begin, SGoto, Turn, vault, graph, ingest, slocal, TypeOK
  <1>15. ASSUME NEW m \in Machines, NEW d \in Docs, Retract(m, d) PROVE \A n
    \in Machines : Applies(n)
    BY <1>15 DEF Retract, Replaced, Owe, Collect, vault, graph, ingest,
      slocal, TypeOK
  <1>16. ASSUME NEW m \in Machines, NEW k \in Keys, Rebuild(m, k) PROVE \A n
    \in Machines : Applies(n)
    BY <1>16 DEF Rebuild, vault, graph, ingest, slocal, TypeOK
  <1>17. CASE UNCHANGED vars
    BY <1>17 DEF vars, vault, graph, ingest, slocal, TypeOK
  <1>18. QED
    BY <1>1, <1>2, <1>3, <1>4, <1>5, <1>6, <1>7, <1>8, <1>9, <1>10, <1>11,
      <1>12, <1>13, <1>14, <1>15, <1>16, <1>17 DEF Next

(* Planned.                                                                *)
LEMMA PlannedStep ==
    ASSUME TypeOK, Underway, Planned, [Next]_vars
    PROVE  Planned'
  <1> SUFFICES ASSUME NEW n \in Machines
               PROVE  /\ \A f \in sreplay'[n] : (Tree(shead[n])[f] # 0)'
                      /\ \A d \in sretract'[n] : (At(shead[n], d) = {} /\ At(smark[n], d) # {})'
    BY DEF Planned
  <1>1. CASE sreplay'[n] = {} /\ sretract'[n] = {}
    BY <1>1
  <1>2. CASE /\ sreplay'[n] \subseteq sreplay[n] \cup Replays(n)
             /\ sretract'[n] \subseteq sretract[n] \cup Retracts(n)
             /\ shead'[n] = shead[n] /\ smark'[n] = smark[n]
    <2>1. shead[n] \in Commits /\ smark[n] \in Commits
      BY DEF TypeOK, Commits
    <2>2. /\ \A f \in Folders : (Tree(shead[n])[f])' = Tree(shead[n])[f]
          /\ \A d \in Docs : /\ At(shead[n], d)' = At(shead[n], d)
                             /\ At(smark[n], d)' = At(smark[n], d)
      BY <1>2, <2>1, HistoryKept
    <2>3. /\ sreplay[n] \subseteq Folders /\ sretract[n] \subseteq Docs
          /\ Replays(n) \subseteq Folders /\ Retracts(n) \subseteq Docs
      BY ScopeAssumption, FolderAssumption DEF TypeOK, Replays, Retracts, DiffOf
    <2>4. \A f \in Replays(n) : Tree(shead[n])[f] # 0
      BY DEF Replays
    <2>5. ASSUME NEW d \in Retracts(n) PROVE At(shead[n], d) = {} /\ At(smark[n], d) # {}
      <3>1. PICK f \in DiffOf(n) : /\ DocOf[f] = d /\ At(shead[n], d) = {}
                                   /\ Tree(shead[n])[f] = 0
        BY DEF Retracts
      <3>2. f \in Folders /\ Tree(smark[n])[f] # 0
        BY <3>1, ScopeAssumption DEF DiffOf, TypeOK
      <3>3. QED
        BY <3>1, <3>2 DEF At
    <2>6. QED
      BY <1>2, <2>2, <2>3, <2>4, <2>5 DEF Planned
  <1>3. QED
    BY <1>1, <1>2, AppliesStep DEF Applies

(* The keys a change of a document is about are among those it collects.   *)
LEMMA ChangedKeys ==
    ASSUME TypeOK, Extracted, NEW g \in Graphs, NEW d \in Docs, NEW v \in 0 .. made[d]
    PROVE  /\ PriorKeys(g, d) \in SUBSET Keys /\ KeysOf(d, {v} \ {0}) \in SUBSET Keys
           /\ Changed(g, d, v) \subseteq PriorKeys(g, d) \cup KeysOf(d, {v} \ {0})
  <1>1. /\ made[d] \in Nat /\ made[d] <= Len(Asserts[d]) /\ Len(Asserts[d]) \in Nat
        /\ history[g][d] \subseteq 1 .. made[d] /\ live[g][d] \in history[g][d] \cup {0}
    BY VaultTyped, AssertsAssumption DEF VaultType, Extracted
  <1>2. /\ history[g][d] \subseteq 1 .. Len(Asserts[d])
        /\ {v} \ {0} \subseteq 1 .. Len(Asserts[d])
    BY <1>1
  <1>3. PriorKeys(g, d) \in SUBSET Keys /\ KeysOf(d, {v} \ {0}) \in SUBSET Keys
    BY <1>2, KeysOfKeys DEF PriorKeys
  <1>4. {live[g][d], v} \ {0} \subseteq history[g][d] \cup ({v} \ {0})
    BY <1>1
  <1>5. Changed(g, d, v) \subseteq PriorKeys(g, d) \cup KeysOf(d, {v} \ {0})
    BY <1>4 DEF Changed, PriorKeys, KeysOf
  <1>6. QED
    BY <1>3, <1>5

(* What a graph is told.                                                   *)
GraphType ==
    /\ bookmark \in [Graphs -> Commits]
    /\ live \in [Graphs -> [Docs -> Nat]]
    /\ history \in [Graphs -> [Docs -> SUBSET Nat]]
    /\ stale \in [Graphs -> SUBSET (Docs \X Keys)]

(* What the processes have in memory.                                      *)
MemoryType ==
    /\ ipc \in [Machines -> {"idle", "supersede", "commit"}]
    /\ ifolder \in [Machines -> Folders \cup {NoFolder}]
    /\ spc \in [Machines -> {"idle", "mark", "plan", "apply", "rebuild"}]
    /\ sscope \in [Machines -> Scopes]
    /\ sreplay \in [Machines -> SUBSET Folders]
    /\ sretract \in [Machines -> SUBSET Docs]
HeadsType ==
    /\ shead \in [Machines -> Commits]
    /\ smark \in [Machines -> Commits]
    /\ \A m \in Machines : smark[m] <= shead[m]
KeysType == skeys \in [Machines -> SUBSET Keys]

(* They have these types.                                                  *)
LEMMA Typed == ASSUME TypeOK PROVE GraphType /\ MemoryType /\ HeadsType /\ KeysType
  BY DEF TypeOK, GraphType, MemoryType, HeadsType, KeysType, Commits

(* What the head of a sync has of a folder is a version of its document.   *)
LEMMA HeadVersion ==
    ASSUME TypeOK, Extracted, NEW m \in Machines, NEW f \in Folders
    PROVE  /\ DocOf[f] \in Docs /\ Tree(shead[m])[f] \in 0 .. made[DocOf[f]]
           /\ GraphOf[m] \in Graphs /\ made[DocOf[f]] \in Nat
  <1>1. shead[m] \in Commits /\ DocOf[f] \in Docs /\ GraphOf[m] \in Graphs
    BY Typed, FolderAssumption, GraphAssumption DEF HeadsType
  <1>2. QED
    BY <1>1, VaultTyped DEF VaultType, Extracted

(* The vault is what its type says.                                        *)
LEMMA VaultTypeStep ==
    ASSUME TypeOK, [Next]_vars
    PROVE  VaultType'
  <1> USE DEF VaultType, Commits
  <1>1. ASSUME NEW m \in Machines, AutoCommit(m) PROVE VaultType'
    <2>1. /\ Len(log') = Len(log) + 1 /\ log' \in Seq([Folders -> Nat])
          /\ work' = work /\ made' = made /\ pos' = [pos EXCEPT ![m] = Len(log) + 1]
      BY <1>1, AutoCommitAt DEF AutoCommit
    <2>2. QED
      BY <2>1, VaultTyped
  <1>2. ASSUME NEW m \in Machines, Pull(m) PROVE VaultType'
    BY <1>2, VaultTyped, FolderAssumption DEF Pull, vault, graph, ingest,
      slocal
  <1>3. ASSUME NEW m \in Machines, RemoveSuperseded(m) PROVE VaultType'
    BY <1>3, VaultTyped, FolderAssumption DEF RemoveSuperseded, vault, graph,
      ingest, slocal
  <1>4. ASSUME NEW m \in Machines, CommitIngest(m) PROVE VaultType'
    BY <1>4, VaultTyped, FolderAssumption DEF CommitIngest, Replaced,
      IngestOver, vault, graph, ingest, slocal
  <1>5. ASSUME NEW m \in Machines, IngestDies(m) PROVE VaultType'
    BY <1>5, VaultTyped, FolderAssumption DEF IngestDies, IngestOver, vault,
      graph, ingest, slocal
  <1>6. ASSUME NEW m \in Machines, ReadBookmark(m) PROVE VaultType'
    BY <1>6, VaultTyped, FolderAssumption DEF ReadBookmark, SGoto, Over,
      IsAncestor, vault, graph, ingest, slocal
  <1>7. ASSUME NEW m \in Machines, Plan(m) PROVE VaultType'
    BY <1>7, VaultTyped, FolderAssumption DEF Plan, SGoto, vault, graph,
      ingest, slocal
  <1>8. ASSUME NEW m \in Machines, Applied(m) PROVE VaultType'
    BY <1>8, VaultTyped, FolderAssumption DEF Applied, SGoto, vault, graph,
      ingest, slocal
  <1>9. ASSUME NEW m \in Machines, Advance(m) PROVE VaultType'
    BY <1>9, VaultTyped, FolderAssumption DEF Advance, Over, NewBookmark,
      vault, graph, ingest, slocal
  <1>10. ASSUME NEW m \in Machines, Fail(m) PROVE VaultType'
    BY <1>10, VaultTyped, FolderAssumption DEF Fail, Over, vault, graph,
      ingest, slocal
  <1>11. ASSUME NEW m \in Machines, NEW f \in Folders, Remove(m, f) PROVE
    VaultType'
    BY <1>11, VaultTyped, FolderAssumption DEF Remove, AtTip, vault, graph,
      ingest, slocal
  <1>12. ASSUME NEW m \in Machines, NEW f \in Folders, Stage(m, f) PROVE
    VaultType'
    BY <1>12, VaultTyped, FolderAssumption DEF Stage, AtTip, Turn, vault,
      graph, ingest, slocal
  <1>13. ASSUME NEW m \in Machines, NEW f \in Folders, Replay(m, f) PROVE
    VaultType'
    BY <1>13, VaultTyped, FolderAssumption DEF Replay, Replaced, Owe, Collect,
      vault, graph, ingest, slocal
  <1>14. ASSUME NEW m \in Machines, NEW scope \in Scopes, Begin(m, scope)
    PROVE VaultType'
    BY <1>14, VaultTyped, FolderAssumption DEF Begin, SGoto, Turn, vault,
      graph, ingest, slocal
  <1>15. ASSUME NEW m \in Machines, NEW d \in Docs, Retract(m, d) PROVE
    VaultType'
    BY <1>15, VaultTyped, FolderAssumption DEF Retract, Replaced, Owe,
      Collect, vault, graph, ingest, slocal
  <1>16. ASSUME NEW m \in Machines, NEW k \in Keys, Rebuild(m, k) PROVE
    VaultType'
    BY <1>16, VaultTyped, FolderAssumption DEF Rebuild, vault, graph, ingest,
      slocal
  <1>17. CASE UNCHANGED vars
    BY <1>17, VaultTyped, FolderAssumption DEF vars, vault, graph, ingest,
      slocal
  <1>18. QED
    BY <1>1, <1>2, <1>3, <1>4, <1>5, <1>6, <1>7, <1>8, <1>9, <1>10, <1>11,
      <1>12, <1>13, <1>14, <1>15, <1>16, <1>17 DEF Next

(* A document's change is owed to the entities of its keys.                *)
LEMMA OweAt ==
    ASSUME TypeOK, NEW g \in Graphs, NEW d \in Docs, NEW v, Owe(g, d, v),
           Changed(g, d, v) \in SUBSET Keys
    PROVE  /\ stale' \in [Graphs -> SUBSET (Docs \X Keys)]
           /\ stale'[g] = stale[g] \cup ({d} \X Changed(g, d, v))
           /\ \A h \in Graphs : h # g => stale'[h] = stale[h]
  <1> DEFINE New == {d} \X Changed(g, d, v)
  <1>1. New \in SUBSET (Docs \X Keys)
    OBVIOUS
  <1>2. stale' = [stale EXCEPT ![g] = @ \cup New]
    BY DEF Owe
  <1>3. stale \in [Graphs -> SUBSET (Docs \X Keys)]
    BY Typed DEF GraphType
  <1> HIDE DEF New
  <1>4. /\ stale' \in [Graphs -> SUBSET (Docs \X Keys)]
        /\ stale'[g] = stale[g] \cup New
        /\ \A h \in Graphs : h # g => stale'[h] = stale[h]
    BY <1>1, <1>2, <1>3
  <1>5. QED
    BY <1>4 DEF New

(* GraphType.                                                              *)
LEMMA GraphTypeStep ==
    ASSUME TypeOK, Extracted, Underway, [Next]_vars
    PROVE  GraphType'
  <1> USE DEF GraphType
  <1>1. ASSUME NEW m \in Machines, AutoCommit(m) PROVE GraphType'
    <2>1. \A c \in Commits : c \in Commits'
      BY HistoryKept
    <2>2. QED
      BY <1>1, <2>1, Typed DEF AutoCommit, graph
  <1>2. ASSUME NEW m \in Machines, Pull(m) PROVE GraphType'
    BY <1>2, Typed, TreesKept DEF Pull, vault, graph, ingest, slocal
  <1>3. ASSUME NEW m \in Machines, RemoveSuperseded(m) PROVE GraphType'
    BY <1>3, Typed, TreesKept DEF RemoveSuperseded, vault, graph, ingest,
      slocal
  <1>4. ASSUME NEW m \in Machines, CommitIngest(m) PROVE GraphType'
    <2>1. /\ Doc(m) \in Docs /\ work[m][ifolder[m]] \in Nat /\ GraphOf[m] \in Graphs
      BY <1>4, FolderAssumption, GraphAssumption, VaultTyped DEF Underway, Doc,
        CommitIngest, VaultType
    <2>2. /\ Replaced(GraphOf[m], Doc(m), work[m][ifolder[m]]) /\ bookmark' = bookmark
          /\ log' = log
      BY <1>4 DEF CommitIngest, vault
    <2>3. live' \in [Graphs -> [Docs -> Nat]] /\ history' \in [Graphs -> [Docs -> SUBSET Nat]]
      BY <2>1, <2>2, Typed DEF Replaced
    <2>4. stale' \in [Graphs -> SUBSET (Docs \X Keys)]
      BY <1>4, <2>1, Typed DEF CommitIngest
    <2>5. QED
      BY <2>2, <2>3, <2>4, Typed, TreesKept
  <1>5. ASSUME NEW m \in Machines, IngestDies(m) PROVE GraphType'
    BY <1>5, Typed, TreesKept DEF IngestDies, IngestOver, vault, graph,
      ingest, slocal
  <1>6. ASSUME NEW m \in Machines, ReadBookmark(m) PROVE GraphType'
    BY <1>6, Typed, TreesKept DEF ReadBookmark, vault, graph
  <1>7. ASSUME NEW m \in Machines, Plan(m) PROVE GraphType'
    BY <1>7, Typed, TreesKept DEF Plan, SGoto, vault, graph, ingest, slocal
  <1>8. ASSUME NEW m \in Machines, Applied(m) PROVE GraphType'
    BY <1>8, Typed, TreesKept DEF Applied, SGoto, vault, graph, ingest, slocal
  <1>9. ASSUME NEW m \in Machines, Advance(m) PROVE GraphType'
    <2>1. shead[m] \in Commits /\ bookmark \in [Graphs -> Commits]
      BY Typed DEF HeadsType
    <2>2. bookmark' \in [Graphs -> Commits]
      BY <1>9, <2>1 DEF Advance, NewBookmark
    <2>3. QED
      BY <1>9, <2>2, Typed, TreesKept DEF Advance, vault
  <1>10. ASSUME NEW m \in Machines, Fail(m) PROVE GraphType'
    BY <1>10, Typed, TreesKept DEF Fail, Over, vault, graph, ingest, slocal
  <1>11. ASSUME NEW m \in Machines, NEW f \in Folders, Remove(m, f) PROVE
    GraphType'
    BY <1>11, Typed, TreesKept DEF Remove, AtTip, vault, graph, ingest, slocal
  <1>12. ASSUME NEW m \in Machines, NEW f \in Folders, Stage(m, f) PROVE
    GraphType'
    BY <1>12, Typed, TreesKept DEF Stage, AtTip, Turn, vault, graph, ingest,
      slocal
  <1>13. ASSUME NEW m \in Machines, NEW f \in Folders, Replay(m, f) PROVE
    GraphType'
    <2>1. /\ DocOf[f] \in Docs /\ Tree(shead[m])[f] \in 0 .. made[DocOf[f]]
          /\ GraphOf[m] \in Graphs
          /\ made[DocOf[f]] \in Nat
      BY HeadVersion
    <2>2. Changed(GraphOf[m], DocOf[f], Tree(shead[m])[f]) \in SUBSET Keys
      BY <2>1, ChangedKeys
    <2>3. /\ Replaced(GraphOf[m], DocOf[f], Tree(shead[m])[f])
          /\ bookmark' = bookmark /\ log' = log
          /\ Owe(GraphOf[m], DocOf[f], Tree(shead[m])[f])
      BY <1>13 DEF Replay, vault
    <2>4. stale' \in [Graphs -> SUBSET (Docs \X Keys)]
      BY <2>1, <2>2, <2>3, OweAt
    <2>5. live' \in [Graphs -> [Docs -> Nat]] /\ history' \in [Graphs -> [Docs -> SUBSET Nat]]
      BY <2>1, <2>3, Typed DEF GraphType, Replaced
    <2>6. QED
      BY <2>3, <2>4, <2>5, Typed, TreesKept DEF GraphType
  <1>14. ASSUME NEW m \in Machines, NEW scope \in Scopes, Begin(m, scope)
    PROVE GraphType'
    BY <1>14, Typed, TreesKept DEF Begin, SGoto, Turn, vault, graph, ingest,
      slocal
  <1>15. ASSUME NEW m \in Machines, NEW d \in Docs, Retract(m, d) PROVE
    GraphType'
    <2>1. /\ d \in Docs /\ 0 \in 0 .. made[d] /\ GraphOf[m] \in Graphs
          /\ made[d] \in Nat
      BY VaultTyped, GraphAssumption DEF VaultType
    <2>2. Changed(GraphOf[m], d, 0) \in SUBSET Keys
      BY <2>1, ChangedKeys
    <2>3. /\ Replaced(GraphOf[m], d, 0) /\ bookmark' = bookmark /\ log' = log
          /\ Owe(GraphOf[m], d, 0)
      BY <1>15 DEF Retract, vault
    <2>4. stale' \in [Graphs -> SUBSET (Docs \X Keys)]
      BY <2>1, <2>2, <2>3, OweAt
    <2>5. live' \in [Graphs -> [Docs -> Nat]] /\ history' \in [Graphs -> [Docs -> SUBSET Nat]]
      BY <2>1, <2>3, Typed DEF GraphType, Replaced
    <2>6. QED
      BY <2>3, <2>4, <2>5, Typed, TreesKept DEF GraphType
  <1>16. ASSUME NEW m \in Machines, NEW k \in Keys, Rebuild(m, k) PROVE
    GraphType'
    BY <1>16, Typed, TreesKept DEF Rebuild, vault, graph, ingest, slocal
  <1>17. CASE UNCHANGED vars
    BY <1>17, Typed, TreesKept DEF vars, vault, graph, ingest, slocal
  <1>18. QED
    BY <1>1, <1>2, <1>3, <1>4, <1>5, <1>6, <1>7, <1>8, <1>9, <1>10, <1>11,
      <1>12, <1>13, <1>14, <1>15, <1>16, <1>17 DEF Next

(* MemoryType.                                                             *)
LEMMA MemoryTypeStep ==
    ASSUME TypeOK, [Next]_vars
    PROVE  MemoryType'
  <1> USE DEF MemoryType
  <1>1. ASSUME NEW m \in Machines, AutoCommit(m) PROVE MemoryType'
    BY <1>1, Typed DEF AutoCommit, Dirty, vault, graph, ingest, slocal
  <1>2. ASSUME NEW m \in Machines, Pull(m) PROVE MemoryType'
    BY <1>2, Typed DEF Pull, vault, graph, ingest, slocal
  <1>3. ASSUME NEW m \in Machines, RemoveSuperseded(m) PROVE MemoryType'
    BY <1>3, Typed DEF RemoveSuperseded, vault, graph, ingest, slocal
  <1>4. ASSUME NEW m \in Machines, CommitIngest(m) PROVE MemoryType'
    BY <1>4, Typed DEF CommitIngest, Replaced, IngestOver, vault, graph,
      ingest, slocal
  <1>5. ASSUME NEW m \in Machines, IngestDies(m) PROVE MemoryType'
    BY <1>5, Typed DEF IngestDies, IngestOver, vault, graph, ingest, slocal
  <1>6. ASSUME NEW m \in Machines, ReadBookmark(m) PROVE MemoryType'
    <2>1. CASE IsAncestor(m, bookmark[GraphOf[m]])
      BY <1>6, <2>1, Typed DEF ReadBookmark, SGoto, ingest
    <2>2. CASE ~IsAncestor(m, bookmark[GraphOf[m]])
      <3>1. Over(m) /\ ipc' = ipc /\ ifolder' = ifolder
        BY <1>6, <2>2 DEF ReadBookmark, ingest
      <3>2. QED
        BY <3>1, Typed, ScopeAssumption DEF Over
    <2>3. QED
      BY <2>1, <2>2
  <1>7. ASSUME NEW m \in Machines, Plan(m) PROVE MemoryType'
    <2>1. Replays(m) \subseteq Folders /\ Retracts(m) \subseteq Docs
      BY Typed, ScopeAssumption, FolderAssumption DEF Replays, Retracts, DiffOf
    <2>2. QED
      BY <1>7, <2>1, Typed DEF Plan, SGoto, ingest
  <1>8. ASSUME NEW m \in Machines, Applied(m) PROVE MemoryType'
    BY <1>8, Typed DEF Applied, SGoto, vault, graph, ingest, slocal
  <1>9. ASSUME NEW m \in Machines, Advance(m) PROVE MemoryType'
    BY <1>9, Typed, ScopeAssumption DEF Advance, Over, ingest
  <1>10. ASSUME NEW m \in Machines, Fail(m) PROVE MemoryType'
    BY <1>10, Typed, ScopeAssumption DEF Fail, Over, ingest
  <1>11. ASSUME NEW m \in Machines, NEW f \in Folders, Remove(m, f) PROVE
    MemoryType'
    BY <1>11, Typed DEF Remove, AtTip, vault, graph, ingest, slocal
  <1>12. ASSUME NEW m \in Machines, NEW f \in Folders, Stage(m, f) PROVE
    MemoryType'
    BY <1>12, Typed DEF Stage, AtTip, Turn, vault, graph, ingest, slocal
  <1>13. ASSUME NEW m \in Machines, NEW f \in Folders, Replay(m, f) PROVE
    MemoryType'
    BY <1>13, Typed DEF Replay, Replaced, Owe, Collect, vault, graph, ingest,
      slocal
  <1>14. ASSUME NEW m \in Machines, NEW scope \in Scopes, Begin(m, scope)
    PROVE MemoryType'
    BY <1>14, Typed DEF Begin, SGoto, Turn, vault, graph, ingest, slocal
  <1>15. ASSUME NEW m \in Machines, NEW d \in Docs, Retract(m, d) PROVE
    MemoryType'
    BY <1>15, Typed DEF Retract, Replaced, Owe, Collect, vault, graph, ingest,
      slocal
  <1>16. ASSUME NEW m \in Machines, NEW k \in Keys, Rebuild(m, k) PROVE
    MemoryType'
    BY <1>16, Typed DEF Rebuild, vault, graph, ingest, slocal
  <1>17. CASE UNCHANGED vars
    BY <1>17, Typed DEF vars, vault, graph, ingest, slocal
  <1>18. QED
    BY <1>1, <1>2, <1>3, <1>4, <1>5, <1>6, <1>7, <1>8, <1>9, <1>10, <1>11,
      <1>12, <1>13, <1>14, <1>15, <1>16, <1>17 DEF Next

(* A process that is over has no heads.                                    *)
LEMMA HeadsOver ==
    ASSUME TypeOK, NEW m \in Machines, Over(m), log' = log PROVE HeadsType'
  <1>1. /\ shead' = [shead EXCEPT ![m] = 0] /\ smark' = [smark EXCEPT ![m] = 0]
        /\ Commits' = Commits /\ 0 \in Commits
    BY TreesKept, VaultTyped DEF Over, Commits, VaultType
  <1>2. QED
    BY <1>1, Typed DEF HeadsType

(* HeadsType.                                                              *)
LEMMA HeadsTypeStep ==
    ASSUME TypeOK, Underway, [Next]_vars
    PROVE  HeadsType'
  <1> USE DEF HeadsType
  <1>1. ASSUME NEW m \in Machines, AutoCommit(m) PROVE HeadsType'
    <2>1. \A c \in Commits : c \in Commits'
      BY HistoryKept
    <2>2. QED
      BY <1>1, <2>1, Typed DEF AutoCommit, slocal
  <1>2. ASSUME NEW m \in Machines, Pull(m) PROVE HeadsType'
    BY <1>2, Typed, TreesKept DEF Pull, vault, graph, ingest, slocal
  <1>3. ASSUME NEW m \in Machines, RemoveSuperseded(m) PROVE HeadsType'
    BY <1>3, Typed, TreesKept DEF RemoveSuperseded, vault, graph, ingest,
      slocal
  <1>4. ASSUME NEW m \in Machines, CommitIngest(m) PROVE HeadsType'
    BY <1>4, Typed, TreesKept DEF CommitIngest, Replaced, IngestOver, vault,
      graph, ingest, slocal
  <1>5. ASSUME NEW m \in Machines, IngestDies(m) PROVE HeadsType'
    BY <1>5, Typed, TreesKept DEF IngestDies, IngestOver, vault, graph,
      ingest, slocal
  <1>6. ASSUME NEW m \in Machines, ReadBookmark(m) PROVE HeadsType'
    <2>1. CASE IsAncestor(m, bookmark[GraphOf[m]])
      <3>1. /\ shead' = shead /\ smark' = [smark EXCEPT ![m] = bookmark[GraphOf[m]]]
            /\ Commits' = Commits
        BY <1>6, <2>1, TreesKept DEF ReadBookmark, SGoto, vault
      <3>2. bookmark[GraphOf[m]] \in Commits /\ bookmark[GraphOf[m]] <= shead[m]
        BY <2>1, Typed, GraphAssumption DEF GraphType, IsAncestor
      <3>3. QED
        BY <3>1, <3>2, Typed
    <2>2. CASE ~IsAncestor(m, bookmark[GraphOf[m]])
      BY <1>6, <2>2, HeadsOver DEF ReadBookmark, vault
    <2>3. QED
      BY <2>1, <2>2
  <1>7. ASSUME NEW m \in Machines, Plan(m) PROVE HeadsType'
    BY <1>7, Typed, TreesKept DEF Plan, SGoto, vault, graph, ingest, slocal
  <1>8. ASSUME NEW m \in Machines, Applied(m) PROVE HeadsType'
    BY <1>8, Typed, TreesKept DEF Applied, SGoto, vault, graph, ingest, slocal
  <1>9. ASSUME NEW m \in Machines, Advance(m) PROVE HeadsType'
    BY <1>9, HeadsOver DEF Advance, vault
  <1>10. ASSUME NEW m \in Machines, Fail(m) PROVE HeadsType'
    BY <1>10, HeadsOver DEF Fail, vault
  <1>11. ASSUME NEW m \in Machines, NEW f \in Folders, Remove(m, f) PROVE
    HeadsType'
    BY <1>11, Typed, TreesKept DEF Remove, AtTip, vault, graph, ingest, slocal
  <1>12. ASSUME NEW m \in Machines, NEW f \in Folders, Stage(m, f) PROVE
    HeadsType'
    BY <1>12, Typed, TreesKept DEF Stage, AtTip, Turn, vault, graph, ingest,
      slocal
  <1>13. ASSUME NEW m \in Machines, NEW f \in Folders, Replay(m, f) PROVE
    HeadsType'
    BY <1>13, Typed, TreesKept DEF Replay, Replaced, Owe, Collect, vault,
      graph, ingest, slocal
  <1>14. ASSUME NEW m \in Machines, NEW scope \in Scopes, Begin(m, scope)
    PROVE HeadsType'
    <2>1. /\ shead' = [shead EXCEPT ![m] = pos[m]] /\ smark' = smark
          /\ Commits' = Commits
      BY <1>14, TreesKept DEF Begin, vault
    <2>2. pos[m] \in Commits /\ smark[m] <= pos[m]
      BY <1>14, VaultTyped DEF VaultType, Commits, Begin, SGoto, Underway
    <2>3. QED
      BY <2>1, <2>2, Typed
  <1>15. ASSUME NEW m \in Machines, NEW d \in Docs, Retract(m, d) PROVE
    HeadsType'
    BY <1>15, Typed, TreesKept DEF Retract, Replaced, Owe, Collect, vault,
      graph, ingest, slocal
  <1>16. ASSUME NEW m \in Machines, NEW k \in Keys, Rebuild(m, k) PROVE
    HeadsType'
    BY <1>16, Typed, TreesKept DEF Rebuild, vault, graph, ingest, slocal
  <1>17. CASE UNCHANGED vars
    BY <1>17, Typed, TreesKept DEF vars, vault, graph, ingest, slocal
  <1>18. QED
    BY <1>1, <1>2, <1>3, <1>4, <1>5, <1>6, <1>7, <1>8, <1>9, <1>10, <1>11,
      <1>12, <1>13, <1>14, <1>15, <1>16, <1>17 DEF Next

(* KeysType.                                                               *)
LEMMA KeysTypeStep ==
    ASSUME TypeOK, Extracted, [Next]_vars
    PROVE  KeysType'
  <1> USE DEF KeysType
  <1>1. ASSUME NEW m \in Machines, AutoCommit(m) PROVE KeysType'
    BY <1>1, Typed DEF AutoCommit, Dirty, vault, graph, ingest, slocal
  <1>2. ASSUME NEW m \in Machines, Pull(m) PROVE KeysType'
    BY <1>2, Typed DEF Pull, vault, graph, ingest, slocal
  <1>3. ASSUME NEW m \in Machines, RemoveSuperseded(m) PROVE KeysType'
    BY <1>3, Typed DEF RemoveSuperseded, vault, graph, ingest, slocal
  <1>4. ASSUME NEW m \in Machines, CommitIngest(m) PROVE KeysType'
    BY <1>4, Typed DEF CommitIngest, Replaced, IngestOver, vault, graph,
      ingest, slocal
  <1>5. ASSUME NEW m \in Machines, IngestDies(m) PROVE KeysType'
    BY <1>5, Typed DEF IngestDies, IngestOver, vault, graph, ingest, slocal
  <1>6. ASSUME NEW m \in Machines, ReadBookmark(m) PROVE KeysType'
    <2>1. CASE IsAncestor(m, bookmark[GraphOf[m]])
      BY <1>6, <2>1, Typed DEF ReadBookmark
    <2>2. CASE ~IsAncestor(m, bookmark[GraphOf[m]])
      BY <1>6, <2>2, Typed DEF ReadBookmark, Over
    <2>3. QED
      BY <2>1, <2>2
  <1>7. ASSUME NEW m \in Machines, Plan(m) PROVE KeysType'
    BY <1>7, Typed DEF Plan, SGoto, vault, graph, ingest, slocal
  <1>8. ASSUME NEW m \in Machines, Applied(m) PROVE KeysType'
    BY <1>8, Typed DEF Applied, SGoto, vault, graph, ingest, slocal
  <1>9. ASSUME NEW m \in Machines, Advance(m) PROVE KeysType'
    BY <1>9, Typed DEF Advance, Over, NewBookmark, vault, graph, ingest,
      slocal
  <1>10. ASSUME NEW m \in Machines, Fail(m) PROVE KeysType'
    BY <1>10, Typed DEF Fail, Over, vault, graph, ingest, slocal
  <1>11. ASSUME NEW m \in Machines, NEW f \in Folders, Remove(m, f) PROVE
    KeysType'
    BY <1>11, Typed DEF Remove, AtTip, vault, graph, ingest, slocal
  <1>12. ASSUME NEW m \in Machines, NEW f \in Folders, Stage(m, f) PROVE
    KeysType'
    BY <1>12, Typed DEF Stage, AtTip, Turn, vault, graph, ingest, slocal
  <1>13. ASSUME NEW m \in Machines, NEW f \in Folders, Replay(m, f) PROVE
    KeysType'
    <2>1. /\ DocOf[f] \in Docs /\ Tree(shead[m])[f] \in 0 .. made[DocOf[f]]
          /\ GraphOf[m] \in Graphs
      BY HeadVersion
    <2>2. /\ PriorKeys(GraphOf[m], DocOf[f]) \in SUBSET Keys
          /\ KeysOf(DocOf[f], {Tree(shead[m])[f]} \ {0}) \in SUBSET Keys
      BY <2>1, ChangedKeys
    <2>3. QED
      BY <1>13, <2>1, <2>2, Typed DEF Replay, Collect
  <1>14. ASSUME NEW m \in Machines, NEW scope \in Scopes, Begin(m, scope)
    PROVE KeysType'
    BY <1>14, Typed DEF Begin, SGoto, Turn, vault, graph, ingest, slocal
  <1>15. ASSUME NEW m \in Machines, NEW d \in Docs, Retract(m, d) PROVE
    KeysType'
    <2>1. /\ d \in Docs /\ 0 \in 0 .. made[d] /\ GraphOf[m] \in Graphs
      BY VaultTyped, GraphAssumption DEF VaultType
    <2>2. /\ PriorKeys(GraphOf[m], d) \in SUBSET Keys
          /\ KeysOf(d, {0} \ {0}) \in SUBSET Keys
      BY <2>1, ChangedKeys
    <2>3. QED
      BY <1>15, <2>1, <2>2, Typed DEF Retract, Collect
  <1>16. ASSUME NEW m \in Machines, NEW k \in Keys, Rebuild(m, k) PROVE
    KeysType'
    BY <1>16, Typed DEF Rebuild, vault, graph, ingest, slocal
  <1>17. CASE UNCHANGED vars
    BY <1>17, Typed DEF vars, vault, graph, ingest, slocal
  <1>18. QED
    BY <1>1, <1>2, <1>3, <1>4, <1>5, <1>6, <1>7, <1>8, <1>9, <1>10, <1>11,
      <1>12, <1>13, <1>14, <1>15, <1>16, <1>17 DEF Next

(* The base of every proof here.                                           *)
LEMMA BaseStep == ASSUME Base, [Next]_vars PROVE Base'
  <1>1. TypeOK /\ Extracted /\ Underway /\ Planned
    BY DEF Base
  <1>2. VaultType' /\ GraphType' /\ MemoryType' /\ HeadsType' /\ KeysType'
    BY <1>1, VaultTypeStep, GraphTypeStep, MemoryTypeStep, HeadsTypeStep, KeysTypeStep
  <1>3. TypeOK'
    BY <1>2 DEF TypeOK, VaultType, GraphType, MemoryType, HeadsType, KeysType, Commits
  <1>4. QED
    BY <1>1, <1>3, ExtractedStep, UnderwayStep, PlannedStep DEF Base

(* And at the start.                                                       *)
LEMMA BaseInit == ASSUME Init PROVE Base
  <1>1. <<>> \in Seq([Folders -> Nat]) /\ Len(<<>>) = 0
    OBVIOUS
  <1>2. TypeOK
    BY <1>1, ScopeAssumption DEF Init, TypeOK, NoFolders
  <1>3. \A d \in Docs : Len(Asserts[d]) \in Nat
    BY AssertsAssumption
  <1>4. Extracted
    BY <1>1, <1>3, FolderAssumption DEF Init, Extracted, NoFolders, Tree, Commits
  <1>5. Underway /\ Planned
    BY DEF Init, Underway, Planned
  <1>6. QED
    BY <1>2, <1>4, <1>5 DEF Base

(* For any machines, graphs, documents and folders, whatever fails,        *)
(* renames half-way or races: the clones, bookmarks and plans stay within  *)
(* the history of the vault, and the debts within the documents and keys.  *)
THEOREM TypeCorrect == Spec => []TypeOK
  <1>1. Base /\ [Next]_vars => Base'
    BY BaseStep
  <1>2. Base => TypeOK
    BY DEF Base
  <1>3. QED
    BY <1>1, <1>2, BaseInit, PTL DEF Spec

(* And its keys are collected.                                             *)
LEMMA CollectAt ==
    ASSUME TypeOK, NEW m \in Machines, NEW g, NEW d, NEW v, Collect(m, g, d, v)
    PROVE  /\ skeys'[m] = skeys[m] \cup PriorKeys(g, d) \cup KeysOf(d, {v} \ {0})
           /\ \A n \in Machines : n # m => skeys'[n] = skeys[n]
  <1> DEFINE Old == PriorKeys(g, d)  Brought == KeysOf(d, {v} \ {0})
  <1>1. skeys' = [skeys EXCEPT ![m] = @ \cup Old \cup Brought]
    BY DEF Collect
  <1> HIDE DEF Old, Brought
  <1>2. /\ skeys'[m] = skeys[m] \cup Old \cup Brought
        /\ \A n \in Machines : n # m => skeys'[n] = skeys[n]
    BY <1>1, Typed DEF KeysType
  <1>3. QED
    BY <1>2 DEF Old, Brought

-----------------------------------------------------------------------------
(***************************************************************************)
(* AdvancedIsRebuilt, where syncs of one graph wait for each other and no  *)
(* sync fails.                                                             *)
(***************************************************************************)

(* The hypotheses, of what the machines' users do.                         *)
OwnGraphs == \A m, n \in Machines : GraphOf[m] = GraphOf[n] => m = n
SyncsInTurn == OwnGraphs \/ "sync" \in InTurn

(* So no graph has two syncs,                                              *)
OneSync ==
    \A m, n \in Machines :
       GraphOf[m] = GraphOf[n] /\ spc[m] # "idle" /\ spc[n] # "idle" => m = n

(* and whatever an entity has yet to see, a sync has yet to rebuild.       *)
OwedTo(g, k) == \E m \in Machines : GraphOf[m] = g /\ k \in skeys[m]
Owed == \A g \in Graphs : \A p \in stale[g] : OwedTo(g, p[2])

(* Which sync begins, and that no other does.                              *)
LEMMA BeginsStep ==
    ASSUME TypeOK, [Next]_vars
    PROVE  \A n \in Machines : spc'[n] # "idle" => spc[n] # "idle" \/ \E s \in Scopes : Begin(n, s)
  <1> USE DEF MemoryType
  <1>1. ASSUME NEW m \in Machines, AutoCommit(m) PROVE \A n \in Machines :
    spc'[n] # "idle" => spc[n] # "idle" \/ \E s \in Scopes : Begin(n, s)
    BY <1>1, Typed DEF AutoCommit, Dirty, vault, graph, ingest, slocal
  <1>2. ASSUME NEW m \in Machines, Pull(m) PROVE \A n \in Machines : spc'[n] #
    "idle" => spc[n] # "idle" \/ \E s \in Scopes : Begin(n, s)
    BY <1>2, Typed DEF Pull, vault, graph, ingest, slocal
  <1>3. ASSUME NEW m \in Machines, RemoveSuperseded(m) PROVE \A n \in Machines
    : spc'[n] # "idle" => spc[n] # "idle" \/ \E s \in Scopes : Begin(n, s)
    BY <1>3, Typed DEF RemoveSuperseded, vault, graph, ingest, slocal
  <1>4. ASSUME NEW m \in Machines, CommitIngest(m) PROVE \A n \in Machines :
    spc'[n] # "idle" => spc[n] # "idle" \/ \E s \in Scopes : Begin(n, s)
    BY <1>4, Typed DEF CommitIngest, Replaced, IngestOver, vault, graph,
      ingest, slocal
  <1>5. ASSUME NEW m \in Machines, IngestDies(m) PROVE \A n \in Machines :
    spc'[n] # "idle" => spc[n] # "idle" \/ \E s \in Scopes : Begin(n, s)
    BY <1>5, Typed DEF IngestDies, IngestOver, vault, graph, ingest, slocal
  <1>6. ASSUME NEW m \in Machines, ReadBookmark(m) PROVE \A n \in Machines :
    spc'[n] # "idle" => spc[n] # "idle" \/ \E s \in Scopes : Begin(n, s)
    <2>1. CASE IsAncestor(m, bookmark[GraphOf[m]])
      BY <1>6, <2>1, Typed DEF ReadBookmark, SGoto
    <2>2. CASE ~IsAncestor(m, bookmark[GraphOf[m]])
      BY <1>6, <2>2, Typed DEF ReadBookmark, Over
    <2>3. QED
      BY <2>1, <2>2
  <1>7. ASSUME NEW m \in Machines, Plan(m) PROVE \A n \in Machines : spc'[n] #
    "idle" => spc[n] # "idle" \/ \E s \in Scopes : Begin(n, s)
    BY <1>7, Typed DEF Plan, SGoto, vault, graph, ingest, slocal
  <1>8. ASSUME NEW m \in Machines, Applied(m) PROVE \A n \in Machines :
    spc'[n] # "idle" => spc[n] # "idle" \/ \E s \in Scopes : Begin(n, s)
    BY <1>8, Typed DEF Applied, SGoto, vault, graph, ingest, slocal
  <1>9. ASSUME NEW m \in Machines, Advance(m) PROVE \A n \in Machines :
    spc'[n] # "idle" => spc[n] # "idle" \/ \E s \in Scopes : Begin(n, s)
    BY <1>9, Typed DEF Advance, Over, NewBookmark, vault, graph, ingest,
      slocal
  <1>10. ASSUME NEW m \in Machines, Fail(m) PROVE \A n \in Machines : spc'[n]
    # "idle" => spc[n] # "idle" \/ \E s \in Scopes : Begin(n, s)
    BY <1>10, Typed DEF Fail, Over, vault, graph, ingest, slocal
  <1>11. ASSUME NEW m \in Machines, NEW f \in Folders, Remove(m, f) PROVE \A n
    \in Machines : spc'[n] # "idle" => spc[n] # "idle" \/ \E s \in Scopes :
    Begin(n, s)
    BY <1>11, Typed DEF Remove, AtTip, vault, graph, ingest, slocal
  <1>12. ASSUME NEW m \in Machines, NEW f \in Folders, Stage(m, f) PROVE \A n
    \in Machines : spc'[n] # "idle" => spc[n] # "idle" \/ \E s \in Scopes :
    Begin(n, s)
    BY <1>12, Typed DEF Stage, AtTip, Turn, vault, graph, ingest, slocal
  <1>13. ASSUME NEW m \in Machines, NEW f \in Folders, Replay(m, f) PROVE \A n
    \in Machines : spc'[n] # "idle" => spc[n] # "idle" \/ \E s \in Scopes :
    Begin(n, s)
    BY <1>13, Typed DEF Replay, Replaced, Owe, Collect, vault, graph, ingest,
      slocal
  <1>14. ASSUME NEW m \in Machines, NEW scope \in Scopes, Begin(m, scope)
    PROVE \A n \in Machines : spc'[n] # "idle" => spc[n] # "idle" \/ \E s \in
    Scopes : Begin(n, s)
    BY <1>14, Typed DEF Begin, SGoto, Turn, vault, graph, ingest, slocal
  <1>15. ASSUME NEW m \in Machines, NEW d \in Docs, Retract(m, d) PROVE \A n
    \in Machines : spc'[n] # "idle" => spc[n] # "idle" \/ \E s \in Scopes :
    Begin(n, s)
    BY <1>15, Typed DEF Retract, Replaced, Owe, Collect, vault, graph, ingest,
      slocal
  <1>16. ASSUME NEW m \in Machines, NEW k \in Keys, Rebuild(m, k) PROVE \A n
    \in Machines : spc'[n] # "idle" => spc[n] # "idle" \/ \E s \in Scopes :
    Begin(n, s)
    BY <1>16, Typed DEF Rebuild, vault, graph, ingest, slocal
  <1>17. CASE UNCHANGED vars
    BY <1>17, Typed DEF vars, vault, graph, ingest, slocal
  <1>18. QED
    BY <1>1, <1>2, <1>3, <1>4, <1>5, <1>6, <1>7, <1>8, <1>9, <1>10, <1>11,
      <1>12, <1>13, <1>14, <1>15, <1>16, <1>17 DEF Next

(* OneSync.                                                                *)
LEMMA OneSyncStep ==
    ASSUME TypeOK, OneSync, SyncsInTurn, [Next]_vars
    PROVE  OneSync'
  <1> SUFFICES ASSUME NEW m \in Machines, NEW n \in Machines, GraphOf[m] = GraphOf[n],
                      spc'[m] # "idle", spc'[n] # "idle", m # n
               PROVE  FALSE
    BY DEF OneSync
  <1>1. "sync" \in InTurn
    BY DEF SyncsInTurn, OwnGraphs
  <1>2. ASSUME NEW x \in Machines, NEW y \in Machines, NEW s \in Scopes, Begin(x, s),
               GraphOf[x] = GraphOf[y], x # y, spc'[y] # "idle"
        PROVE  FALSE
    <2>1. spc[y] = "idle"
      BY <1>1, <1>2 DEF Begin, Turn
    <2>2. spc' = [spc EXCEPT ![x] = "mark"]
      BY <1>2 DEF Begin, SGoto
    <2>3. QED
      BY <1>2, <2>1, <2>2, Typed DEF MemoryType
  <1>3. ~(spc[m] # "idle" /\ spc[n] # "idle")
    BY DEF OneSync
  <1>4. QED
    BY <1>2, <1>3, BeginsStep

(* Owed.                                                                   *)
LEMMA OwedStep ==
    ASSUME TypeOK, Extracted, Underway, Owed, ~MayFail, [Next]_vars
    PROVE  Owed'
  <1> USE DEF Owed, OwedTo
  <1>1. ASSUME NEW m \in Machines, AutoCommit(m) PROVE Owed'
    BY <1>1, Typed DEF AutoCommit, Dirty, vault, graph, ingest, slocal
  <1>2. ASSUME NEW m \in Machines, Pull(m) PROVE Owed'
    BY <1>2, Typed DEF Pull, vault, graph, ingest, slocal
  <1>3. ASSUME NEW m \in Machines, RemoveSuperseded(m) PROVE Owed'
    BY <1>3, Typed DEF RemoveSuperseded, vault, graph, ingest, slocal
  <1>4. ASSUME NEW m \in Machines, CommitIngest(m) PROVE Owed'
    <2>1. skeys' = skeys /\ \A g \in Graphs : stale'[g] \subseteq stale[g]
      BY <1>4, Typed DEF CommitIngest, slocal, GraphType
    <2>2. QED
      BY <2>1
  <1>5. ASSUME NEW m \in Machines, IngestDies(m) PROVE Owed'
    BY <1>5, Typed DEF IngestDies, IngestOver, vault, graph, ingest, slocal
  <1>6. ASSUME NEW m \in Machines, ReadBookmark(m) PROVE Owed'
    <2>1. stale' = stale /\ \A n \in Machines : skeys[n] # {} => skeys'[n] = skeys[n]
      <3>1. skeys[m] = {} /\ stale' = stale
        BY <1>6 DEF ReadBookmark, graph, Underway
      <3>2. skeys' = skeys \/ skeys' = [skeys EXCEPT ![m] = {}]
        BY <1>6 DEF ReadBookmark, Over
      <3>3. QED
        BY <3>1, <3>2, Typed DEF KeysType
    <2>2. QED
      BY <2>1
  <1>7. ASSUME NEW m \in Machines, Plan(m) PROVE Owed'
    <2>1. stale' = stale /\ \A n \in Machines : skeys[n] # {} => skeys'[n] = skeys[n]
      BY <1>7, Typed DEF Plan, SGoto, graph, Underway, KeysType
    <2>2. QED
      BY <2>1
  <1>8. ASSUME NEW m \in Machines, Applied(m) PROVE Owed'
    BY <1>8, Typed DEF Applied, SGoto, vault, graph, ingest, slocal
  <1>9. ASSUME NEW m \in Machines, Advance(m) PROVE Owed'
    <2>1. stale' = stale /\ \A n \in Machines : skeys[n] # {} => skeys'[n] = skeys[n]
      BY <1>9, Typed DEF Advance, Over, KeysType
    <2>2. QED
      BY <2>1
  <1>10. ASSUME NEW m \in Machines, Fail(m) PROVE Owed'
    BY <1>10 DEF Fail
  <1>11. ASSUME NEW m \in Machines, NEW f \in Folders, Remove(m, f) PROVE
    Owed'
    BY <1>11, Typed DEF Remove, AtTip, vault, graph, ingest, slocal
  <1>12. ASSUME NEW m \in Machines, NEW f \in Folders, Stage(m, f) PROVE Owed'
    BY <1>12, Typed DEF Stage, AtTip, Turn, vault, graph, ingest, slocal
  <1>13. ASSUME NEW m \in Machines, NEW f \in Folders, Replay(m, f) PROVE
    Owed'
    <2>1. /\ DocOf[f] \in Docs /\ Tree(shead[m])[f] \in 0 .. made[DocOf[f]]
          /\ GraphOf[m] \in Graphs
      BY HeadVersion
    <2> DEFINE new == PriorKeys(GraphOf[m], DocOf[f]) \cup KeysOf(DocOf[f], {Tree(shead[m])[f]} \ {0})
    <2>2. /\ Changed(GraphOf[m], DocOf[f], Tree(shead[m])[f]) \in SUBSET Keys
          /\ Changed(GraphOf[m], DocOf[f], Tree(shead[m])[f]) \subseteq new
      BY <2>1, ChangedKeys
    <2>3. /\ Owe(GraphOf[m], DocOf[f], Tree(shead[m])[f])
          /\ Collect(m, GraphOf[m], DocOf[f], Tree(shead[m])[f])
      BY <1>13 DEF Replay
    <2>4. /\ stale'[GraphOf[m]] =
               stale[GraphOf[m]] \cup ({DocOf[f]} \X Changed(GraphOf[m], DocOf[f], Tree(shead[m])[f]))
          /\ \A h \in Graphs : h # GraphOf[m] => stale'[h] = stale[h]
      BY <2>1, <2>2, <2>3, OweAt
    <2>5. new \subseteq skeys'[m] /\ \A n \in Machines : skeys[n] \subseteq skeys'[n]
      <3>1. /\ skeys'[m] = skeys[m] \cup PriorKeys(GraphOf[m], DocOf[f])
                             \cup KeysOf(DocOf[f], {Tree(shead[m])[f]} \ {0})
            /\ \A n \in Machines : n # m => skeys'[n] = skeys[n]
        BY <2>3, CollectAt
      <3>2. new \subseteq skeys'[m] /\ skeys[m] \subseteq skeys'[m]
        BY <3>1
      <3>3. QED
        BY <3>1, <3>2
    <2> HIDE DEF new
    <2>6. ASSUME NEW g \in Graphs, NEW p \in stale'[g] PROVE OwedTo(g, p[2])'
      <3>1. CASE p \in stale[g]
        BY <2>5, <3>1
      <3>2. CASE p \notin stale[g]
        <4>1. /\ g = GraphOf[m]
              /\ p \in {DocOf[f]} \X Changed(GraphOf[m], DocOf[f], Tree(shead[m])[f])
          BY <2>4, <2>6, <3>2
        <4>2. p[2] \in skeys'[m]
          BY <2>2, <2>5, <4>1
        <4>3. QED
          BY <4>1, <4>2
      <3>3. QED
        BY <3>1, <3>2
    <2>7. QED
      BY <2>6
  <1>14. ASSUME NEW m \in Machines, NEW scope \in Scopes, Begin(m, scope)
    PROVE Owed'
    BY <1>14, Typed DEF Begin, SGoto, Turn, vault, graph, ingest, slocal
  <1>15. ASSUME NEW m \in Machines, NEW d \in Docs, Retract(m, d) PROVE Owed'
    <2>1. /\ d \in Docs /\ 0 \in 0 .. made[d] /\ GraphOf[m] \in Graphs
      BY VaultTyped, GraphAssumption DEF VaultType
    <2> DEFINE new == PriorKeys(GraphOf[m], d) \cup KeysOf(d, {0} \ {0})
    <2>2. /\ Changed(GraphOf[m], d, 0) \in SUBSET Keys
          /\ Changed(GraphOf[m], d, 0) \subseteq new
      BY <2>1, ChangedKeys
    <2>3. Owe(GraphOf[m], d, 0) /\ Collect(m, GraphOf[m], d, 0)
      BY <1>15 DEF Retract
    <2>4. /\ stale'[GraphOf[m]] =
               stale[GraphOf[m]] \cup ({d} \X Changed(GraphOf[m], d, 0))
          /\ \A h \in Graphs : h # GraphOf[m] => stale'[h] = stale[h]
      BY <2>1, <2>2, <2>3, OweAt
    <2>5. new \subseteq skeys'[m] /\ \A n \in Machines : skeys[n] \subseteq skeys'[n]
      <3>1. /\ skeys'[m] = skeys[m] \cup PriorKeys(GraphOf[m], d) \cup KeysOf(d, {0} \ {0})
            /\ \A n \in Machines : n # m => skeys'[n] = skeys[n]
        BY <2>3, CollectAt
      <3>2. new \subseteq skeys'[m] /\ skeys[m] \subseteq skeys'[m]
        BY <3>1
      <3>3. QED
        BY <3>1, <3>2
    <2> HIDE DEF new
    <2>6. ASSUME NEW g \in Graphs, NEW p \in stale'[g] PROVE OwedTo(g, p[2])'
      <3>1. CASE p \in stale[g]
        BY <2>5, <3>1
      <3>2. CASE p \notin stale[g]
        <4>1. g = GraphOf[m] /\ p \in {d} \X Changed(GraphOf[m], d, 0)
          BY <2>4, <2>6, <3>2
        <4>2. p[2] \in skeys'[m]
          BY <2>2, <2>5, <4>1
        <4>3. QED
          BY <4>1, <4>2
      <3>3. QED
        BY <3>1, <3>2
    <2>7. QED
      BY <2>6
  <1>16. ASSUME NEW m \in Machines, NEW k \in Keys, Rebuild(m, k) PROVE Owed'
    <2>1. /\ GraphOf[m] \in Graphs
          /\ stale'[GraphOf[m]] = {p \in stale[GraphOf[m]] : p[2] # k}
          /\ \A h \in Graphs : h # GraphOf[m] => stale'[h] = stale[h]
          /\ skeys'[m] = skeys[m] \ {k} /\ \A n \in Machines : n # m => skeys'[n] = skeys[n]
      BY <1>16, Typed, GraphAssumption DEF Rebuild, GraphType, KeysType
    <2>2. ASSUME NEW g \in Graphs, NEW p \in stale'[g] PROVE OwedTo(g, p[2])'
      <3>1. p \in stale[g] /\ (g = GraphOf[m] => p[2] # k)
        BY <2>1, <2>2
      <3>2. PICK n \in Machines : GraphOf[n] = g /\ p[2] \in skeys[n]
        BY <3>1
      <3>3. p[2] \in skeys'[n]
        BY <2>1, <3>1, <3>2
      <3>4. QED
        BY <3>2, <3>3
    <2>3. QED
      BY <2>2
  <1>17. CASE UNCHANGED vars
    BY <1>17, Typed DEF vars, vault, graph, ingest, slocal
  <1>18. QED
    BY <1>1, <1>2, <1>3, <1>4, <1>5, <1>6, <1>7, <1>8, <1>9, <1>10, <1>11,
      <1>12, <1>13, <1>14, <1>15, <1>16, <1>17 DEF Next

(* Who moves a bookmark.                                                   *)
LEMMA BookmarkMoved ==
    ASSUME TypeOK, [Next]_vars, NEW g \in Graphs, bookmark'[g] # bookmark[g]
    PROVE  \E m \in Machines : /\ Advance(m) /\ g = GraphOf[m] /\ sscope[m] = Folders
                               /\ bookmark'[g] = shead[m] /\ smark[m] # shead[m]
  <1>1. ASSUME ~\E m \in Machines : Advance(m)
        PROVE  bookmark' = bookmark
    BY <1>1 DEF Next, vars, graph, AutoCommit, Pull, RemoveSuperseded, CommitIngest,
      IngestDies,
      ReadBookmark, Plan, Applied, Fail, Remove, Stage, Replay, Begin, Retract, Rebuild
  <1>2. PICK m \in Machines : Advance(m)
    BY <1>1
  <1>3. bookmark' = [bookmark EXCEPT ![GraphOf[m]] =
                       IF smark[m] = shead[m] THEN @ ELSE NewBookmark(m)]
    BY <1>2 DEF Advance
  <1>4. QED
    BY <1>2, <1>3, Typed DEF GraphType, NewBookmark

(* At the start.                                                           *)
LEMMA OwedInit == ASSUME Init PROVE Owed /\ OneSync
  BY DEF Init, Owed, OneSync

(* For any machines, graphs, documents and folders, where each machine has *)
(* a graph of its own or syncs of one graph wait for each other, and no    *)
(* sync fails: once a bookmark advances, every change up to it has reached *)
(* the projection, whatever ingests and half-committed renames there were  *)
(* meanwhile.                                                              *)
THEOREM Rebuilt == ASSUME ~MayFail, SyncsInTurn PROVE Spec => AdvancedIsRebuilt
  <1> DEFINE Inv == Base /\ Owed /\ OneSync
  <1>1. Inv /\ [Next]_vars => Inv'
    BY BaseStep, OwedStep, OneSyncStep DEF Base
  <1>2. ASSUME Inv, [Next]_vars, NEW g \in Graphs, bookmark'[g] # bookmark[g]
        PROVE  stale[g] = {}
    <2>1. PICK m \in Machines : Advance(m) /\ g = GraphOf[m]
      BY <1>2, BookmarkMoved DEF Base
    <2>2. spc[m] # "idle" /\ skeys[m] = {}
      BY <2>1 DEF Advance
    <2>3. ASSUME NEW p \in stale[g] PROVE FALSE
      <3>1. PICK n \in Machines : GraphOf[n] = g /\ p[2] \in skeys[n]
        BY <1>2, <2>3 DEF Owed, OwedTo
      <3>2. spc[n] # "idle"
        BY <1>2, <3>1 DEF Base, Underway
      <3>3. n = m
        BY <1>2, <2>1, <2>2, <3>1, <3>2 DEF OneSync
      <3>4. QED
        BY <2>2, <3>1, <3>3
    <2>4. QED
      BY <2>3
  <1>3. Inv /\ [Next]_vars =>
          [\A g \in Graphs : bookmark'[g] # bookmark[g] => stale[g] = {}]_vars
    BY <1>2
  <1>4. Init => Inv
    BY BaseInit, OwedInit
  <1>5. QED
    BY <1>1, <1>3, <1>4, PTL DEF Spec, AdvancedIsRebuilt

-----------------------------------------------------------------------------
(***************************************************************************)
(* The history of the vault.                                               *)
(***************************************************************************)

(* No commit has a version of the document as new as v.                    *)
Newest(d, v) == \A c \in Commits, h \in Folders : DocOf[h] = d => Tree(c)[h] < v

(* At the tip, what a working tree has of a folder is what the last commit *)
(* has of it, or nothing, or newer than the whole history.                 *)
Fresh ==
    \A m \in Machines, f \in Folders :
       pos[m] = Len(log) =>
         work[m][f] \in {0, Tree(Len(log))[f]} \/ Newest(DocOf[f], work[m][f])

(* So a folder never gets back a version it has lost.                      *)
NoReturn ==
    \A x, y, z \in Commits, f \in Folders :
       x <= y /\ y <= z /\ Tree(x)[f] # 0 /\ Tree(x)[f] = Tree(z)[f] => Tree(y)[f] = Tree(x)[f]

(* Fresh.                                                                  *)
LEMMA FreshStep ==
    ASSUME TypeOK, Extracted, Fresh, [Next]_vars
    PROVE  Fresh'
  <1> USE DEF Fresh
  <1>1. ASSUME NEW m \in Machines, AutoCommit(m) PROVE Fresh'
    <2> SUFFICES ASSUME NEW n \in Machines, NEW f \in Folders, pos'[n] = Len(log')
                 PROVE  work'[n][f] = (Tree(Len(log))[f])'
      OBVIOUS
    <2>1. /\ Len(log') = Len(log) + 1 /\ Len(log) \in Nat /\ work' = work
          /\ \A c \in Nat : c = Len(log) + 1 => Tree(c)' = work[m]
      BY <1>1, AutoCommitAt, VaultTyped DEF VaultType
    <2>2. n = m
      BY <1>1, <2>1, AutoCommitAt, VaultTyped DEF VaultType, Commits
    <2>3. Tree(Len(log))' = work[m]
      BY <2>1
    <2>4. QED
      BY <2>1, <2>2, <2>3
  <1>2. ASSUME NEW m \in Machines, Pull(m) PROVE Fresh'
    <2> SUFFICES ASSUME NEW n \in Machines, NEW f \in Folders, pos'[n] = Len(log')
                 PROVE  \/ work'[n][f] \in {0, (Tree(Len(log))[f])'}
                        \/ Newest(DocOf[f], work[n][f])'
      OBVIOUS
    <2>1. log' = log /\ Tree(Len(log))' = Tree(Len(log))
      BY <1>2, PullAt, TreesKept
    <2>2. CASE n = m
      BY <1>2, <2>1, <2>2, PullAt
    <2>3. CASE n # m
      <3>1. pos'[n] = pos[n] /\ work'[n] = work[n]
        BY <1>2, <2>3, PullAt
      <3>2. QED
        BY <2>1, <3>1, TreesKept DEF Newest
    <2>4. QED
      BY <2>2, <2>3
  <1>3. ASSUME NEW m \in Machines, RemoveSuperseded(m) PROVE Fresh'
    <2>1. \A n \in Machines, h \in Folders : work'[n][h] \in {0, work[n][h]}
      BY <1>3, RemoveSupersededAt
    <2>2. log' = log /\ pos' = pos
      BY <1>3, RemoveSupersededAt
    <2>3. QED
      BY <1>3, <2>1, <2>2, TreesKept DEF Newest
  <1>4. ASSUME NEW m \in Machines, CommitIngest(m) PROVE Fresh'
    BY <1>4, TreesKept DEF CommitIngest, Replaced, IngestOver, vault, graph,
      ingest, slocal, Newest
  <1>5. ASSUME NEW m \in Machines, IngestDies(m) PROVE Fresh'
    BY <1>5, TreesKept DEF IngestDies, IngestOver, vault, graph, ingest,
      slocal, Newest
  <1>6. ASSUME NEW m \in Machines, ReadBookmark(m) PROVE Fresh'
    BY <1>6, TreesKept DEF ReadBookmark, SGoto, Over, IsAncestor, vault,
      graph, ingest, slocal, Newest
  <1>7. ASSUME NEW m \in Machines, Plan(m) PROVE Fresh'
    BY <1>7, TreesKept DEF Plan, SGoto, vault, graph, ingest, slocal, Newest
  <1>8. ASSUME NEW m \in Machines, Applied(m) PROVE Fresh'
    BY <1>8, TreesKept DEF Applied, SGoto, vault, graph, ingest, slocal,
      Newest
  <1>9. ASSUME NEW m \in Machines, Advance(m) PROVE Fresh'
    BY <1>9, TreesKept DEF Advance, Over, NewBookmark, vault, graph, ingest,
      slocal, Newest
  <1>10. ASSUME NEW m \in Machines, Fail(m) PROVE Fresh'
    BY <1>10, TreesKept DEF Fail, Over, vault, graph, ingest, slocal, Newest
  <1>11. ASSUME NEW m \in Machines, NEW f \in Folders, Remove(m, f) PROVE
    Fresh'
    <2>1. \A n \in Machines, h \in Folders : work'[n][h] \in {0, work[n][h]}
      BY <1>11, RemoveAt
    <2>2. log' = log /\ pos' = pos
      BY <1>11, RemoveAt
    <2>3. QED
      BY <1>11, <2>1, <2>2, TreesKept DEF Newest
  <1>12. ASSUME NEW m \in Machines, NEW f \in Folders, Stage(m, f) PROVE
    Fresh'
    <2> SUFFICES ASSUME NEW n \in Machines, NEW h \in Folders, pos'[n] = Len(log')
                 PROVE  \/ work'[n][h] \in {0, (Tree(Len(log))[h])'}
                        \/ Newest(DocOf[h], work[n][h])'
      OBVIOUS
    <2>1. /\ log' = log /\ pos' = pos /\ Tree(Len(log))' = Tree(Len(log))
          /\ work'[n][h] = IF n = m /\ h = f THEN made[DocOf[f]] + 1 ELSE work[n][h]
      BY <1>12, StageAt, TreesKept
    <2>2. CASE n = m /\ h = f
      <3>1. Newest(DocOf[h], made[DocOf[f]] + 1)
        BY <2>2, VaultTyped, FolderAssumption DEF Newest, Extracted, VaultType
      <3>2. QED
        BY <2>1, <2>2, <3>1, TreesKept DEF Newest
    <2>3. CASE ~(n = m /\ h = f)
      BY <2>1, <2>3, TreesKept DEF Newest
    <2>4. QED
      BY <2>2, <2>3
  <1>13. ASSUME NEW m \in Machines, NEW f \in Folders, Replay(m, f) PROVE
    Fresh'
    BY <1>13, TreesKept DEF Replay, Replaced, Owe, Collect, vault, graph,
      ingest, slocal, Newest
  <1>14. ASSUME NEW m \in Machines, NEW scope \in Scopes, Begin(m, scope)
    PROVE Fresh'
    BY <1>14, TreesKept DEF Begin, SGoto, Turn, vault, graph, ingest, slocal,
      Newest
  <1>15. ASSUME NEW m \in Machines, NEW d \in Docs, Retract(m, d) PROVE Fresh'
    BY <1>15, TreesKept DEF Retract, Replaced, Owe, Collect, vault, graph,
      ingest, slocal, Newest
  <1>16. ASSUME NEW m \in Machines, NEW k \in Keys, Rebuild(m, k) PROVE Fresh'
    BY <1>16, TreesKept DEF Rebuild, vault, graph, ingest, slocal, Newest
  <1>17. CASE UNCHANGED vars
    BY <1>17, TreesKept DEF vars, vault, graph, ingest, slocal, Newest
  <1>18. QED
    BY <1>1, <1>2, <1>3, <1>4, <1>5, <1>6, <1>7, <1>8, <1>9, <1>10, <1>11,
      <1>12, <1>13, <1>14, <1>15, <1>16, <1>17 DEF Next

(* NoReturn.                                                               *)
LEMMA NoReturnStep ==
    ASSUME TypeOK, Fresh, NoReturn, [Next]_vars
    PROVE  NoReturn'
  <1> SUFFICES ASSUME NEW x \in Commits', NEW y \in Commits', NEW z \in Commits',
                      NEW f \in Folders, x <= y, y <= z,
                      Tree(x)'[f] # 0, Tree(x)'[f] = Tree(z)'[f]
               PROVE  Tree(y)'[f] = Tree(x)'[f]
    BY DEF NoReturn
  <1>1. x \in Nat /\ y \in Nat /\ z \in Nat /\ Len(log) \in Nat
    BY VaultTyped, HistoryKept DEF Commits, VaultType
  <1>2. CASE z \in Commits
    <2>1. x \in Commits /\ y \in Commits
      BY <1>1, <1>2 DEF Commits
    <2>2. Tree(x)' = Tree(x) /\ Tree(y)' = Tree(y) /\ Tree(z)' = Tree(z)
      BY <1>2, <2>1, HistoryKept
    <2>3. QED
      BY <1>2, <2>1, <2>2 DEF NoReturn
  <1>3. ASSUME NEW m \in Machines, AutoCommit(m), z = Len(log) + 1, Tree(z)' = work[m]
        PROVE  Tree(y)'[f] = Tree(x)'[f]
    <2>1. CASE x = z \/ y = z
      BY <1>1, <1>3, <2>1
    <2>2. CASE x # z /\ y # z
      <3>1. x \in Commits /\ y \in Commits /\ Len(log) \in Commits /\ y <= Len(log)
        BY <1>1, <1>3, <2>2 DEF Commits
      <3>2. Tree(x)' = Tree(x) /\ Tree(y)' = Tree(y)
        BY <3>1, HistoryKept
      <3>3. pos[m] = Len(log) /\ work[m][f] = Tree(x)[f] /\ Tree(x)[f] # 0
        BY <1>3, <3>2 DEF AutoCommit
      <3>4. Tree(x)[f] \in Nat
        BY <3>1, VaultTyped
      <3>5. ~Newest(DocOf[f], work[m][f])
        BY <3>1, <3>3, <3>4 DEF Newest
      <3>6. Tree(x)[f] = Tree(Len(log))[f]
        BY <3>3, <3>5 DEF Fresh
      <3>7. QED
        BY <3>1, <3>2, <3>3, <3>6 DEF NoReturn
    <2>3. QED
      BY <2>1, <2>2
  <1>4. QED
    BY <1>2, <1>3, TreeStep DEF TreeIs

-----------------------------------------------------------------------------
(***************************************************************************)
(* NoGhosts, where each machine has a graph of its own.                    *)
(***************************************************************************)

(* A sync works from the bookmark it has read.                             *)
Pinned ==
    \A m \in Machines :
       spc[m] \in {"plan", "apply", "rebuild"} => smark[m] = bookmark[GraphOf[m]]

(* An entity that has yet to see a change is one the graph's history of    *)
(* the document speaks of.                                                 *)
Known == \A g \in Graphs : \A p \in stale[g] : p[2] \in PriorKeys(g, p[1])

(* The debts to a document that is not live, and what a sync still has to  *)
(* do about a document.                                                    *)
Ghosts(g) == {p \in stale[g] : live[g][p[1]] = 0}
Pending(m, d) == d \in sretract[m] \/ \E f \in sreplay[m] : DocOf[f] = d

(* The document is in commit c, and not in some later one up to h.         *)
GoneBy(d, c, h) == At(c, d) # {} /\ \E x \in Commits : c < x /\ x <= h /\ At(x, d) = {}

(* A ghost's document went after the bookmark, so the next sync's diff     *)
(* shows it;                                                               *)
GhostGone ==
    \A m \in Machines : \A p \in Ghosts(GraphOf[m]) :
       /\ GoneBy(p[1], bookmark[GraphOf[m]], pos[m])
       /\ spc[m] # "idle" => GoneBy(p[1], bookmark[GraphOf[m]], shead[m])

(* and a sync of the whole vault that has its plan rebuilds every ghost.   *)
GhostPending ==
    \A m \in Machines :
       spc[m] \in {"apply", "rebuild"} /\ sscope[m] = Folders =>
          \A p \in Ghosts(GraphOf[m]) : p[2] \in skeys[m] \/ Pending(m, p[1])

(* A sync under way keeps its bookmark, and reads it when it has none.     *)
LEMMA MarksStep ==
    ASSUME TypeOK, [Next]_vars
    PROVE  \A n \in Machines : spc'[n] \in {"plan", "apply", "rebuild"} =>
              \/ /\ spc[n] # "idle" /\ smark'[n] = smark[n]
                 /\ spc[n] \in {"plan", "apply", "rebuild"}
              \/ smark'[n] = bookmark[GraphOf[n]] /\ bookmark' = bookmark
  <1> USE DEF MemoryType, HeadsType
  <1>1. ASSUME NEW m \in Machines, AutoCommit(m) PROVE \A n \in Machines :
    spc'[n] \in {"plan", "apply", "rebuild"} => (spc[n] # "idle" /\ smark'[n]
    = smark[n] /\ spc[n] \in {"plan", "apply", "rebuild"}) \/ (smark'[n] =
    bookmark[GraphOf[n]] /\ bookmark' = bookmark)
    BY <1>1, Typed DEF AutoCommit, Dirty, vault, graph, ingest, slocal
  <1>2. ASSUME NEW m \in Machines, Pull(m) PROVE \A n \in Machines : spc'[n]
    \in {"plan", "apply", "rebuild"} => (spc[n] # "idle" /\ smark'[n] =
    smark[n] /\ spc[n] \in {"plan", "apply", "rebuild"}) \/ (smark'[n] =
    bookmark[GraphOf[n]] /\ bookmark' = bookmark)
    BY <1>2, Typed DEF Pull, vault, graph, ingest, slocal
  <1>3. ASSUME NEW m \in Machines, RemoveSuperseded(m) PROVE \A n \in Machines
    : spc'[n] \in {"plan", "apply", "rebuild"} => (spc[n] # "idle" /\
    smark'[n] = smark[n] /\ spc[n] \in {"plan", "apply", "rebuild"}) \/
    (smark'[n] = bookmark[GraphOf[n]] /\ bookmark' = bookmark)
    BY <1>3, Typed DEF RemoveSuperseded, vault, graph, ingest, slocal
  <1>4. ASSUME NEW m \in Machines, CommitIngest(m) PROVE \A n \in Machines :
    spc'[n] \in {"plan", "apply", "rebuild"} => (spc[n] # "idle" /\ smark'[n]
    = smark[n] /\ spc[n] \in {"plan", "apply", "rebuild"}) \/ (smark'[n] =
    bookmark[GraphOf[n]] /\ bookmark' = bookmark)
    BY <1>4, Typed DEF CommitIngest, Replaced, IngestOver, vault, graph,
      ingest, slocal
  <1>5. ASSUME NEW m \in Machines, IngestDies(m) PROVE \A n \in Machines :
    spc'[n] \in {"plan", "apply", "rebuild"} => (spc[n] # "idle" /\ smark'[n]
    = smark[n] /\ spc[n] \in {"plan", "apply", "rebuild"}) \/ (smark'[n] =
    bookmark[GraphOf[n]] /\ bookmark' = bookmark)
    BY <1>5, Typed DEF IngestDies, IngestOver, vault, graph, ingest, slocal
  <1>6. ASSUME NEW m \in Machines, ReadBookmark(m) PROVE \A n \in Machines :
    spc'[n] \in {"plan", "apply", "rebuild"} => (spc[n] # "idle" /\ smark'[n]
    = smark[n] /\ spc[n] \in {"plan", "apply", "rebuild"}) \/ (smark'[n] =
    bookmark[GraphOf[n]] /\ bookmark' = bookmark)
    <2>1. CASE IsAncestor(m, bookmark[GraphOf[m]])
      BY <1>6, <2>1, Typed DEF ReadBookmark, SGoto, graph
    <2>2. CASE ~IsAncestor(m, bookmark[GraphOf[m]])
      BY <1>6, <2>2, Typed DEF ReadBookmark, Over
    <2>3. QED
      BY <2>1, <2>2
  <1>7. ASSUME NEW m \in Machines, Plan(m) PROVE \A n \in Machines : spc'[n]
    \in {"plan", "apply", "rebuild"} => (spc[n] # "idle" /\ smark'[n] =
    smark[n] /\ spc[n] \in {"plan", "apply", "rebuild"}) \/ (smark'[n] =
    bookmark[GraphOf[n]] /\ bookmark' = bookmark)
    BY <1>7, Typed DEF Plan, SGoto, vault, graph, ingest, slocal
  <1>8. ASSUME NEW m \in Machines, Applied(m) PROVE \A n \in Machines :
    spc'[n] \in {"plan", "apply", "rebuild"} => (spc[n] # "idle" /\ smark'[n]
    = smark[n] /\ spc[n] \in {"plan", "apply", "rebuild"}) \/ (smark'[n] =
    bookmark[GraphOf[n]] /\ bookmark' = bookmark)
    BY <1>8, Typed DEF Applied, SGoto, vault, graph, ingest, slocal
  <1>9. ASSUME NEW m \in Machines, Advance(m) PROVE \A n \in Machines :
    spc'[n] \in {"plan", "apply", "rebuild"} => (spc[n] # "idle" /\ smark'[n]
    = smark[n] /\ spc[n] \in {"plan", "apply", "rebuild"}) \/ (smark'[n] =
    bookmark[GraphOf[n]] /\ bookmark' = bookmark)
    BY <1>9, Typed DEF Advance, Over, NewBookmark, vault, graph, ingest,
      slocal
  <1>10. ASSUME NEW m \in Machines, Fail(m) PROVE \A n \in Machines : spc'[n]
    \in {"plan", "apply", "rebuild"} => (spc[n] # "idle" /\ smark'[n] =
    smark[n] /\ spc[n] \in {"plan", "apply", "rebuild"}) \/ (smark'[n] =
    bookmark[GraphOf[n]] /\ bookmark' = bookmark)
    BY <1>10, Typed DEF Fail, Over, vault, graph, ingest, slocal
  <1>11. ASSUME NEW m \in Machines, NEW f \in Folders, Remove(m, f) PROVE \A n
    \in Machines : spc'[n] \in {"plan", "apply", "rebuild"} => (spc[n] #
    "idle" /\ smark'[n] = smark[n] /\ spc[n] \in {"plan", "apply", "rebuild"})
    \/ (smark'[n] = bookmark[GraphOf[n]] /\ bookmark' = bookmark)
    BY <1>11, Typed DEF Remove, AtTip, vault, graph, ingest, slocal
  <1>12. ASSUME NEW m \in Machines, NEW f \in Folders, Stage(m, f) PROVE \A n
    \in Machines : spc'[n] \in {"plan", "apply", "rebuild"} => (spc[n] #
    "idle" /\ smark'[n] = smark[n] /\ spc[n] \in {"plan", "apply", "rebuild"})
    \/ (smark'[n] = bookmark[GraphOf[n]] /\ bookmark' = bookmark)
    BY <1>12, Typed DEF Stage, AtTip, Turn, vault, graph, ingest, slocal
  <1>13. ASSUME NEW m \in Machines, NEW f \in Folders, Replay(m, f) PROVE \A n
    \in Machines : spc'[n] \in {"plan", "apply", "rebuild"} => (spc[n] #
    "idle" /\ smark'[n] = smark[n] /\ spc[n] \in {"plan", "apply", "rebuild"})
    \/ (smark'[n] = bookmark[GraphOf[n]] /\ bookmark' = bookmark)
    BY <1>13, Typed DEF Replay, Replaced, Owe, Collect, vault, graph, ingest,
      slocal
  <1>14. ASSUME NEW m \in Machines, NEW scope \in Scopes, Begin(m, scope)
    PROVE \A n \in Machines : spc'[n] \in {"plan", "apply", "rebuild"} =>
    (spc[n] # "idle" /\ smark'[n] = smark[n] /\ spc[n] \in {"plan", "apply",
    "rebuild"}) \/ (smark'[n] = bookmark[GraphOf[n]] /\ bookmark' = bookmark)
    BY <1>14, Typed DEF Begin, SGoto, Turn, vault, graph, ingest, slocal
  <1>15. ASSUME NEW m \in Machines, NEW d \in Docs, Retract(m, d) PROVE \A n
    \in Machines : spc'[n] \in {"plan", "apply", "rebuild"} => (spc[n] #
    "idle" /\ smark'[n] = smark[n] /\ spc[n] \in {"plan", "apply", "rebuild"})
    \/ (smark'[n] = bookmark[GraphOf[n]] /\ bookmark' = bookmark)
    BY <1>15, Typed DEF Retract, Replaced, Owe, Collect, vault, graph, ingest,
      slocal
  <1>16. ASSUME NEW m \in Machines, NEW k \in Keys, Rebuild(m, k) PROVE \A n
    \in Machines : spc'[n] \in {"plan", "apply", "rebuild"} => (spc[n] #
    "idle" /\ smark'[n] = smark[n] /\ spc[n] \in {"plan", "apply", "rebuild"})
    \/ (smark'[n] = bookmark[GraphOf[n]] /\ bookmark' = bookmark)
    BY <1>16, Typed DEF Rebuild, vault, graph, ingest, slocal
  <1>17. CASE UNCHANGED vars
    BY <1>17, Typed DEF vars, vault, graph, ingest, slocal
  <1>18. QED
    BY <1>1, <1>2, <1>3, <1>4, <1>5, <1>6, <1>7, <1>8, <1>9, <1>10, <1>11,
      <1>12, <1>13, <1>14, <1>15, <1>16, <1>17 DEF Next

(* Pinned.                                                                 *)
LEMMA PinnedStep ==
    ASSUME TypeOK, OneSync, Pinned, [Next]_vars
    PROVE  Pinned'
  <1> SUFFICES ASSUME NEW n \in Machines, spc'[n] \in {"plan", "apply", "rebuild"}
               PROVE  smark'[n] = bookmark'[GraphOf[n]]
    BY DEF Pinned
  <1>1. CASE smark'[n] = bookmark[GraphOf[n]] /\ bookmark' = bookmark
    BY <1>1
  <1>2. CASE /\ spc[n] # "idle" /\ smark'[n] = smark[n]
             /\ spc[n] \in {"plan", "apply", "rebuild"}
    <2>1. smark'[n] = bookmark[GraphOf[n]]
      BY <1>2 DEF Pinned
    <2>2. ASSUME bookmark'[GraphOf[n]] # bookmark[GraphOf[n]] PROVE FALSE
      <3>1. PICK m \in Machines : Advance(m) /\ GraphOf[n] = GraphOf[m]
        BY <2>2, BookmarkMoved, GraphAssumption
      <3>2. m = n
        BY <1>2, <3>1 DEF OneSync, Advance
      <3>3. spc'[n] = "idle"
        BY <3>1, <3>2, Typed DEF Advance, Over, MemoryType
      <3>4. QED
        BY <3>3
    <2>3. QED
      BY <2>1, <2>2
  <1>3. QED
    BY <1>1, <1>2, MarksStep

(* What a graph is owed grows with the change of a document only.          *)
Debts(g) ==
    \/ stale'[g] \subseteq stale[g]
    \/ \E m \in Machines, d \in Docs, v \in Nat :
          /\ GraphOf[m] = g /\ Writes(m, d, v)
          /\ stale'[g] = stale[g] \cup ({d} \X Changed(g, d, v))

(* Debts.                                                                  *)
LEMMA DebtsStep ==
    ASSUME TypeOK, Extracted, [Next]_vars
    PROVE  \A g \in Graphs : Debts(g)
  <1> USE DEF GraphType, Debts
  <1>1. ASSUME NEW m \in Machines, AutoCommit(m) PROVE \A g \in Graphs :
    Debts(g)
    BY <1>1, Typed DEF AutoCommit, Dirty, vault, graph, ingest, slocal
  <1>2. ASSUME NEW m \in Machines, Pull(m) PROVE \A g \in Graphs : Debts(g)
    BY <1>2, Typed DEF Pull, vault, graph, ingest, slocal
  <1>3. ASSUME NEW m \in Machines, RemoveSuperseded(m) PROVE \A g \in Graphs :
    Debts(g)
    BY <1>3, Typed DEF RemoveSuperseded, vault, graph, ingest, slocal
  <1>4. ASSUME NEW m \in Machines, CommitIngest(m) PROVE \A g \in Graphs :
    Debts(g)
    BY <1>4, Typed DEF CommitIngest, Replaced, IngestOver, vault, graph,
      ingest, slocal
  <1>5. ASSUME NEW m \in Machines, IngestDies(m) PROVE \A g \in Graphs :
    Debts(g)
    BY <1>5, Typed DEF IngestDies, IngestOver, vault, graph, ingest, slocal
  <1>6. ASSUME NEW m \in Machines, ReadBookmark(m) PROVE \A g \in Graphs :
    Debts(g)
    BY <1>6 DEF ReadBookmark, graph
  <1>7. ASSUME NEW m \in Machines, Plan(m) PROVE \A g \in Graphs : Debts(g)
    BY <1>7, Typed DEF Plan, SGoto, vault, graph, ingest, slocal
  <1>8. ASSUME NEW m \in Machines, Applied(m) PROVE \A g \in Graphs : Debts(g)
    BY <1>8, Typed DEF Applied, SGoto, vault, graph, ingest, slocal
  <1>9. ASSUME NEW m \in Machines, Advance(m) PROVE \A g \in Graphs : Debts(g)
    BY <1>9, Typed DEF Advance, Over, NewBookmark, vault, graph, ingest,
      slocal
  <1>10. ASSUME NEW m \in Machines, Fail(m) PROVE \A g \in Graphs : Debts(g)
    BY <1>10, Typed DEF Fail, Over, vault, graph, ingest, slocal
  <1>11. ASSUME NEW m \in Machines, NEW f \in Folders, Remove(m, f) PROVE \A g
    \in Graphs : Debts(g)
    BY <1>11, Typed DEF Remove, AtTip, vault, graph, ingest, slocal
  <1>12. ASSUME NEW m \in Machines, NEW f \in Folders, Stage(m, f) PROVE \A g
    \in Graphs : Debts(g)
    BY <1>12, Typed DEF Stage, AtTip, Turn, vault, graph, ingest, slocal
  <1>13. ASSUME NEW m \in Machines, NEW f \in Folders, Replay(m, f) PROVE \A g
    \in Graphs : Debts(g)
    <2>1. /\ DocOf[f] \in Docs /\ Tree(shead[m])[f] \in 0 .. made[DocOf[f]]
          /\ GraphOf[m] \in Graphs
          /\ Tree(shead[m])[f] \in Nat
      BY HeadVersion
    <2>2. /\ Replaced(GraphOf[m], DocOf[f], Tree(shead[m])[f])
          /\ Owe(GraphOf[m], DocOf[f], Tree(shead[m])[f])
          /\ made' = made
      BY <1>13 DEF Replay, vault
    <2>3. /\ stale'[GraphOf[m]] =
               stale[GraphOf[m]] \cup ({DocOf[f]} \X Changed(GraphOf[m], DocOf[f], Tree(shead[m])[f]))
          /\ \A h \in Graphs : h # GraphOf[m] => stale'[h] = stale[h]
      <3>1. Changed(GraphOf[m], DocOf[f], Tree(shead[m])[f]) \in SUBSET Keys
        BY <2>1, ChangedKeys
      <3>2. QED
        BY <2>1, <2>2, <3>1, OweAt
    <2>4. Writes(m, DocOf[f], Tree(shead[m])[f])
      BY <2>1, <2>2 DEF Writes
    <2>5. QED
      BY <2>1, <2>3, <2>4
  <1>14. ASSUME NEW m \in Machines, NEW scope \in Scopes, Begin(m, scope)
    PROVE \A g \in Graphs : Debts(g)
    BY <1>14, Typed DEF Begin, SGoto, Turn, vault, graph, ingest, slocal
  <1>15. ASSUME NEW m \in Machines, NEW d \in Docs, Retract(m, d) PROVE \A g
    \in Graphs : Debts(g)
    <2>1. /\ d \in Docs /\ 0 \in 0 .. made[d] /\ GraphOf[m] \in Graphs
          /\ 0 \in Nat
      BY VaultTyped, GraphAssumption DEF VaultType
    <2>2. /\ Replaced(GraphOf[m], d, 0) /\ Owe(GraphOf[m], d, 0)
          /\ made' = made
      BY <1>15 DEF Retract, vault
    <2>3. /\ stale'[GraphOf[m]] =
               stale[GraphOf[m]] \cup ({d} \X Changed(GraphOf[m], d, 0))
          /\ \A h \in Graphs : h # GraphOf[m] => stale'[h] = stale[h]
      <3>1. Changed(GraphOf[m], d, 0) \in SUBSET Keys
        BY <2>1, ChangedKeys
      <3>2. QED
        BY <2>1, <2>2, <3>1, OweAt
    <2>4. Writes(m, d, 0)
      BY <2>1, <2>2 DEF Writes
    <2>5. QED
      BY <2>1, <2>3, <2>4
  <1>16. ASSUME NEW m \in Machines, NEW k \in Keys, Rebuild(m, k) PROVE \A g
    \in Graphs : Debts(g)
    BY <1>16, Typed DEF Rebuild, vault, graph, ingest, slocal
  <1>17. CASE UNCHANGED vars
    BY <1>17, Typed DEF vars, vault, graph, ingest, slocal
  <1>18. QED
    BY <1>1, <1>2, <1>3, <1>4, <1>5, <1>6, <1>7, <1>8, <1>9, <1>10, <1>11,
      <1>12, <1>13, <1>14, <1>15, <1>16, <1>17 DEF Next

(* What a graph's history speaks of, it always will.                       *)
LEMMA PriorKept ==
    ASSUME TypeOK, Extracted, Underway, Planned, [Next]_vars, NEW g \in Graphs, NEW d \in Docs
    PROVE  PriorKeys(g, d) \subseteq PriorKeys(g, d)'
  <1>1. history[g][d] \subseteq history'[g][d]
    <2>1. ASSUME NEW m \in Machines, NEW e \in Docs, NEW v \in Nat, Writes(m, e, v)
          PROVE  history[g][d] \subseteq history'[g][d]
      <3>1. GraphOf[m] \in Graphs /\ Replaced(GraphOf[m], e, v)
        BY <2>1, GraphAssumption DEF Writes
      <3>2. CASE g = GraphOf[m] /\ d = e
        BY <3>1, <3>2, ReplacedAt
      <3>3. CASE ~(g = GraphOf[m] /\ d = e)
        BY <3>1, <3>3, ReplacedAt
      <3>4. QED
        BY <3>2, <3>3
    <2>2. QED
      BY <2>1, WritesStep DEF Written
  <1>2. QED
    BY <1>1 DEF PriorKeys, KeysOf

(* Known.                                                                  *)
LEMMA KnownStep ==
    ASSUME TypeOK, Extracted, Underway, Planned, Known, [Next]_vars
    PROVE  Known'
  <1> SUFFICES ASSUME NEW g \in Graphs, NEW p \in stale'[g]
               PROVE  p[2] \in PriorKeys(g, p[1])'
    BY DEF Known
  <1>1. stale[g] \subseteq Docs \X Keys
    BY Typed DEF GraphType
  <1>2. CASE p \in stale[g]
    BY <1>1, <1>2, PriorKept DEF Known
  <1>3. ASSUME NEW m \in Machines, NEW d \in Docs, NEW v \in Nat, GraphOf[m] = g,
               Writes(m, d, v), p \in {d} \X Changed(g, d, v)
        PROVE  p[2] \in PriorKeys(g, p[1])'
    <2>1. p[1] = d /\ p[2] \in PriorKeys(g, d) \cup KeysOf(d, {v} \ {0})
      BY <1>3, ChangedKeys DEF Writes
    <2>2. history'[g][d] = history[g][d] \cup ({v} \ {0})
      BY <1>3, ReplacedAt DEF Writes
    <2>3. QED
      BY <2>1, <2>2 DEF PriorKeys, KeysOf
  <1>4. QED
    BY <1>2, <1>3, DebtsStep DEF Debts

(* Later heads see no less.                                                *)
LEMMA GoneLater ==
    ASSUME TypeOK, [Next]_vars, NEW d \in Docs, NEW c \in Commits,
           NEW h \in Nat, NEW i \in Nat, h <= i, GoneBy(d, c, h)
    PROVE  GoneBy(d, c, i)'
  <1>1. PICK x \in Commits : c < x /\ x <= h /\ At(x, d) = {}
    BY DEF GoneBy
  <1>2. x \in Commits' /\ At(x, d)' = {} /\ At(c, d)' = At(c, d) /\ x \in Nat
    BY <1>1, HistoryKept DEF Commits
  <1>3. x <= i
    BY <1>1, <1>2
  <1>4. QED
    BY <1>1, <1>2, <1>3 DEF GoneBy

(* A document becomes a ghost's by its retraction.                         *)
GhostIs(n, p) ==
    \/ p \in Ghosts(GraphOf[n])
    \/ Retract(n, p[1])

(* A ghost is of a document.                                               *)
LEMMA GhostTyped ==
    ASSUME Base, [Next]_vars, NEW n \in Machines, NEW p \in Ghosts(GraphOf[n])'
    PROVE  p[1] \in Docs /\ p[2] \in Keys
  <1>1. TypeOK'
    BY BaseStep DEF Base
  <1>2. QED
    BY <1>1, GraphAssumption DEF TypeOK, Ghosts

(* GhostIs.                                                                *)
LEMMA GhostIsStep ==
    ASSUME Base, OwnGraphs, [Next]_vars
    PROVE  \A n \in Machines : \A p \in Ghosts(GraphOf[n])' : GhostIs(n, p)
  <1> USE GraphAssumption DEF Base, GhostIs
  <1>1. ASSUME NEW m \in Machines, AutoCommit(m) PROVE \A n \in Machines : \A
    p \in Ghosts(GraphOf[n])' : GhostIs(n, p)
    BY <1>1, Typed DEF AutoCommit, Dirty, vault, graph, ingest, slocal, Ghosts
  <1>2. ASSUME NEW m \in Machines, Pull(m) PROVE \A n \in Machines : \A p \in
    Ghosts(GraphOf[n])' : GhostIs(n, p)
    BY <1>2, Typed DEF Pull, vault, graph, ingest, slocal, Ghosts
  <1>3. ASSUME NEW m \in Machines, RemoveSuperseded(m) PROVE \A n \in Machines
    : \A p \in Ghosts(GraphOf[n])' : GhostIs(n, p)
    BY <1>3, Typed DEF RemoveSuperseded, vault, graph, ingest, slocal, Ghosts
  <1>4. ASSUME NEW m \in Machines, CommitIngest(m) PROVE \A n \in Machines :
    \A p \in Ghosts(GraphOf[n])' : GhostIs(n, p)
    <2> SUFFICES ASSUME NEW n \in Machines, NEW p \in Ghosts(GraphOf[n])'
                 PROVE  GhostIs(n, p)
      OBVIOUS
    <2>1. /\ Doc(m) \in Docs /\ work[m][ifolder[m]] # 0
          /\ Replaced(GraphOf[m], Doc(m), work[m][ifolder[m]])
      BY <1>4, FolderAssumption DEF CommitIngest, Underway, Doc
    <2>2. p[1] \in Docs /\ GraphOf[n] \in Graphs /\ GraphOf[m] \in Graphs
      BY GhostTyped, GraphAssumption
    <2>3. p \in stale'[GraphOf[n]] /\ live'[GraphOf[n]][p[1]] = 0
      BY DEF Ghosts
    <2>4. ~(GraphOf[n] = GraphOf[m] /\ p[1] = Doc(m))
      BY <2>1, <2>2, <2>3, ReplacedAt
    <2>5. live[GraphOf[n]][p[1]] = 0
      BY <2>1, <2>2, <2>3, <2>4, ReplacedAt
    <2>6. p \in stale[GraphOf[n]]
      <3>1. \A g \in Graphs : stale'[g] \subseteq stale[g]
        BY <1>4, Typed DEF CommitIngest, GraphType
      <3>2. QED
        BY <2>2, <2>3, <3>1
    <2>7. QED
      BY <2>5, <2>6 DEF Ghosts, GhostIs
  <1>5. ASSUME NEW m \in Machines, IngestDies(m) PROVE \A n \in Machines : \A
    p \in Ghosts(GraphOf[n])' : GhostIs(n, p)
    BY <1>5, Typed DEF IngestDies, IngestOver, vault, graph, ingest, slocal,
      Ghosts
  <1>6. ASSUME NEW m \in Machines, ReadBookmark(m) PROVE \A n \in Machines :
    \A p \in Ghosts(GraphOf[n])' : GhostIs(n, p)
    BY <1>6 DEF ReadBookmark, graph, Ghosts
  <1>7. ASSUME NEW m \in Machines, Plan(m) PROVE \A n \in Machines : \A p \in
    Ghosts(GraphOf[n])' : GhostIs(n, p)
    BY <1>7, Typed DEF Plan, SGoto, vault, graph, ingest, slocal, Ghosts
  <1>8. ASSUME NEW m \in Machines, Applied(m) PROVE \A n \in Machines : \A p
    \in Ghosts(GraphOf[n])' : GhostIs(n, p)
    BY <1>8, Typed DEF Applied, SGoto, vault, graph, ingest, slocal, Ghosts
  <1>9. ASSUME NEW m \in Machines, Advance(m) PROVE \A n \in Machines : \A p
    \in Ghosts(GraphOf[n])' : GhostIs(n, p)
    BY <1>9, Typed DEF Advance, Over, NewBookmark, vault, graph, ingest,
      slocal, Ghosts
  <1>10. ASSUME NEW m \in Machines, Fail(m) PROVE \A n \in Machines : \A p \in
    Ghosts(GraphOf[n])' : GhostIs(n, p)
    BY <1>10, Typed DEF Fail, Over, vault, graph, ingest, slocal, Ghosts
  <1>11. ASSUME NEW m \in Machines, NEW f \in Folders, Remove(m, f) PROVE \A n
    \in Machines : \A p \in Ghosts(GraphOf[n])' : GhostIs(n, p)
    BY <1>11, Typed DEF Remove, AtTip, vault, graph, ingest, slocal, Ghosts
  <1>12. ASSUME NEW m \in Machines, NEW f \in Folders, Stage(m, f) PROVE \A n
    \in Machines : \A p \in Ghosts(GraphOf[n])' : GhostIs(n, p)
    BY <1>12, Typed DEF Stage, AtTip, Turn, vault, graph, ingest, slocal,
      Ghosts
  <1>13. ASSUME NEW m \in Machines, NEW f \in Folders, Replay(m, f) PROVE \A n
    \in Machines : \A p \in Ghosts(GraphOf[n])' : GhostIs(n, p)
    <2> SUFFICES ASSUME NEW n \in Machines, NEW p \in Ghosts(GraphOf[n])'
                 PROVE  GhostIs(n, p)
      OBVIOUS
    <2>1. /\ DocOf[f] \in Docs /\ Tree(shead[m])[f] # 0
          /\ Replaced(GraphOf[m], DocOf[f], Tree(shead[m])[f])
      BY <1>13, HeadVersion DEF Replay, Planned
    <2>2. p[1] \in Docs /\ GraphOf[n] \in Graphs /\ GraphOf[m] \in Graphs
      BY GhostTyped, GraphAssumption
    <2>3. p \in stale'[GraphOf[n]] /\ live'[GraphOf[n]][p[1]] = 0
      BY DEF Ghosts
    <2>4. ~(GraphOf[n] = GraphOf[m] /\ p[1] = DocOf[f])
      BY <2>1, <2>2, <2>3, ReplacedAt
    <2>5. live[GraphOf[n]][p[1]] = 0
      BY <2>1, <2>2, <2>3, <2>4, ReplacedAt
    <2>6. p \in stale[GraphOf[n]]
      <3>1. /\ Owe(GraphOf[m], DocOf[f], Tree(shead[m])[f])
            /\ Changed(GraphOf[m], DocOf[f], Tree(shead[m])[f]) \in SUBSET Keys
        BY <1>13, ChangedKeys, HeadVersion DEF Replay
      <3>2. CASE GraphOf[n] = GraphOf[m]
        BY <2>1, <2>2, <2>3, <2>4, <3>1, <3>2, OweAt
      <3>3. CASE GraphOf[n] # GraphOf[m]
        BY <2>1, <2>2, <2>3, <3>1, <3>3, OweAt
      <3>4. QED
        BY <3>2, <3>3
    <2>7. QED
      BY <2>5, <2>6 DEF Ghosts, GhostIs
  <1>14. ASSUME NEW m \in Machines, NEW scope \in Scopes, Begin(m, scope)
    PROVE \A n \in Machines : \A p \in Ghosts(GraphOf[n])' : GhostIs(n, p)
    BY <1>14, Typed DEF Begin, SGoto, Turn, vault, graph, ingest, slocal,
      Ghosts
  <1>15. ASSUME NEW m \in Machines, NEW d \in Docs, Retract(m, d) PROVE \A n
    \in Machines : \A p \in Ghosts(GraphOf[n])' : GhostIs(n, p)
    <2> SUFFICES ASSUME NEW n \in Machines, NEW p \in Ghosts(GraphOf[n])', p[1] # d \/ n # m
                 PROVE  p \in Ghosts(GraphOf[n])
      BY <1>15 DEF GhostIs
    <2>1. /\ Replaced(GraphOf[m], d, 0) /\ Owe(GraphOf[m], d, 0)
          /\ 0 \in 0 .. made[d]
      BY <1>15, VaultTyped DEF Retract, VaultType
    <2>2. p[1] \in Docs /\ GraphOf[n] \in Graphs /\ GraphOf[m] \in Graphs
      BY GhostTyped, GraphAssumption
    <2>3. p \in stale'[GraphOf[n]] /\ live'[GraphOf[n]][p[1]] = 0
      BY DEF Ghosts
    <2>4. n # m => GraphOf[n] # GraphOf[m]
      BY DEF OwnGraphs
    <2>5. live[GraphOf[n]][p[1]] = 0
      BY <2>1, <2>2, <2>3, <2>4, ReplacedAt
    <2>6. p \in stale[GraphOf[n]]
      <3>1. Changed(GraphOf[m], d, 0) \in SUBSET Keys
        BY <2>1, <2>2, ChangedKeys
      <3>2. CASE n = m
        BY <2>1, <2>2, <2>3, <3>1, <3>2, OweAt
      <3>3. CASE n # m
        BY <2>1, <2>2, <2>3, <2>4, <3>1, <3>3, OweAt
      <3>4. QED
        BY <3>2, <3>3
    <2>7. QED
      BY <2>5, <2>6 DEF Ghosts
  <1>16. ASSUME NEW m \in Machines, NEW k \in Keys, Rebuild(m, k) PROVE \A n
    \in Machines : \A p \in Ghosts(GraphOf[n])' : GhostIs(n, p)
    <2>1. live' = live /\ \A g \in Graphs : stale'[g] \subseteq stale[g]
      BY <1>16, Typed DEF Rebuild, GraphType
    <2>2. QED
      BY <2>1 DEF Ghosts
  <1>17. CASE UNCHANGED vars
    BY <1>17, Typed DEF vars, vault, graph, ingest, slocal, Ghosts
  <1>18. QED
    BY <1>1, <1>2, <1>3, <1>4, <1>5, <1>6, <1>7, <1>8, <1>9, <1>10, <1>11,
      <1>12, <1>13, <1>14, <1>15, <1>16, <1>17 DEF Next

(* The head of a sync is the clone's when it began.                        *)
HeadIs(n) == \/ spc[n] # "idle" /\ shead'[n] = shead[n]
             \/ shead'[n] = pos[n] /\ \E s \in Scopes : Begin(n, s)

(* HeadIs.                                                                 *)
LEMMA HeadIsStep ==
    ASSUME TypeOK, [Next]_vars
    PROVE  \A n \in Machines : spc'[n] # "idle" => HeadIs(n)
  <1> USE DEF MemoryType, HeadsType, HeadIs
  <1>1. ASSUME NEW m \in Machines, AutoCommit(m) PROVE \A n \in Machines :
    spc'[n] # "idle" => HeadIs(n)
    BY <1>1, Typed DEF AutoCommit, Dirty, vault, graph, ingest, slocal
  <1>2. ASSUME NEW m \in Machines, Pull(m) PROVE \A n \in Machines : spc'[n] #
    "idle" => HeadIs(n)
    BY <1>2, Typed DEF Pull, vault, graph, ingest, slocal
  <1>3. ASSUME NEW m \in Machines, RemoveSuperseded(m) PROVE \A n \in Machines
    : spc'[n] # "idle" => HeadIs(n)
    BY <1>3, Typed DEF RemoveSuperseded, vault, graph, ingest, slocal
  <1>4. ASSUME NEW m \in Machines, CommitIngest(m) PROVE \A n \in Machines :
    spc'[n] # "idle" => HeadIs(n)
    BY <1>4, Typed DEF CommitIngest, Replaced, IngestOver, vault, graph,
      ingest, slocal
  <1>5. ASSUME NEW m \in Machines, IngestDies(m) PROVE \A n \in Machines :
    spc'[n] # "idle" => HeadIs(n)
    BY <1>5, Typed DEF IngestDies, IngestOver, vault, graph, ingest, slocal
  <1>6. ASSUME NEW m \in Machines, ReadBookmark(m) PROVE \A n \in Machines :
    spc'[n] # "idle" => HeadIs(n)
    <2>1. CASE IsAncestor(m, bookmark[GraphOf[m]])
      BY <1>6, <2>1, Typed DEF ReadBookmark, SGoto
    <2>2. CASE ~IsAncestor(m, bookmark[GraphOf[m]])
      BY <1>6, <2>2, Typed DEF ReadBookmark, Over
    <2>3. QED
      BY <2>1, <2>2
  <1>7. ASSUME NEW m \in Machines, Plan(m) PROVE \A n \in Machines : spc'[n] #
    "idle" => HeadIs(n)
    BY <1>7, Typed DEF Plan, SGoto, vault, graph, ingest, slocal
  <1>8. ASSUME NEW m \in Machines, Applied(m) PROVE \A n \in Machines :
    spc'[n] # "idle" => HeadIs(n)
    BY <1>8, Typed DEF Applied, SGoto, vault, graph, ingest, slocal
  <1>9. ASSUME NEW m \in Machines, Advance(m) PROVE \A n \in Machines :
    spc'[n] # "idle" => HeadIs(n)
    BY <1>9, Typed DEF Advance, Over, NewBookmark, vault, graph, ingest,
      slocal
  <1>10. ASSUME NEW m \in Machines, Fail(m) PROVE \A n \in Machines : spc'[n]
    # "idle" => HeadIs(n)
    BY <1>10, Typed DEF Fail, Over, vault, graph, ingest, slocal
  <1>11. ASSUME NEW m \in Machines, NEW f \in Folders, Remove(m, f) PROVE \A n
    \in Machines : spc'[n] # "idle" => HeadIs(n)
    BY <1>11, Typed DEF Remove, AtTip, vault, graph, ingest, slocal
  <1>12. ASSUME NEW m \in Machines, NEW f \in Folders, Stage(m, f) PROVE \A n
    \in Machines : spc'[n] # "idle" => HeadIs(n)
    BY <1>12, Typed DEF Stage, AtTip, Turn, vault, graph, ingest, slocal
  <1>13. ASSUME NEW m \in Machines, NEW f \in Folders, Replay(m, f) PROVE \A n
    \in Machines : spc'[n] # "idle" => HeadIs(n)
    BY <1>13, Typed DEF Replay, Replaced, Owe, Collect, vault, graph, ingest,
      slocal
  <1>14. ASSUME NEW m \in Machines, NEW scope \in Scopes, Begin(m, scope)
    PROVE \A n \in Machines : spc'[n] # "idle" => HeadIs(n)
    BY <1>14, Typed DEF Begin, SGoto, Turn, vault, graph, ingest, slocal
  <1>15. ASSUME NEW m \in Machines, NEW d \in Docs, Retract(m, d) PROVE \A n
    \in Machines : spc'[n] # "idle" => HeadIs(n)
    BY <1>15, Typed DEF Retract, Replaced, Owe, Collect, vault, graph, ingest,
      slocal
  <1>16. ASSUME NEW m \in Machines, NEW k \in Keys, Rebuild(m, k) PROVE \A n
    \in Machines : spc'[n] # "idle" => HeadIs(n)
    BY <1>16, Typed DEF Rebuild, vault, graph, ingest, slocal
  <1>17. CASE UNCHANGED vars
    BY <1>17, Typed DEF vars, vault, graph, ingest, slocal
  <1>18. QED
    BY <1>1, <1>2, <1>3, <1>4, <1>5, <1>6, <1>7, <1>8, <1>9, <1>10, <1>11,
      <1>12, <1>13, <1>14, <1>15, <1>16, <1>17 DEF Next

(* GhostGone.                                                              *)
LEMMA GhostGoneStep ==
    ASSUME Base, OwnGraphs, Pinned, GhostGone, GhostPending, [Next]_vars
    PROVE  GhostGone'
  <1> SUFFICES ASSUME NEW n \in Machines, NEW p \in Ghosts(GraphOf[n])'
               PROVE  /\ GoneBy(p[1], bookmark[GraphOf[n]], pos[n])'
                      /\ spc'[n] # "idle" => GoneBy(p[1], bookmark[GraphOf[n]], shead[n])'
    BY DEF GhostGone
  <1> DEFINE g == GraphOf[n]  d == p[1]
  <1>1. /\ TypeOK /\ g \in Graphs /\ d \in Docs /\ pos[n] \in Nat /\ shead[n] \in Nat
        /\ bookmark[g] \in Commits /\ shead[n] \in Commits
    BY GhostTyped, GraphAssumption, VaultTyped, Typed
      DEF Base, VaultType, HeadsType, GraphType, Commits
  <1>2. pos[n] <= pos'[n] /\ pos'[n] \in Nat
    BY <1>1, HeadsStep, VaultTypeStep, HistoryKept DEF VaultType, Commits
  <1>3. CASE p \in Ghosts(g) /\ bookmark'[g] = bookmark[g]
    <2>1. PICK c \in Commits : c = bookmark[g]
      BY <1>1
    <2>2. ASSUME NEW i \in Nat, pos[n] <= i PROVE GoneBy(d, c, i)'
      BY <1>1, <1>3, <2>1, <2>2, GoneLater DEF GhostGone
    <2>3. GoneBy(d, bookmark[g], pos[n])'
      <3>1. PICK i \in Nat : i = pos'[n]
        BY <1>2
      <3>2. GoneBy(d, c, i)'
        BY <1>1, <1>2, <2>2, <3>1
      <3>3. QED
        BY <1>3, <2>1, <3>1, <3>2
    <2>4. ASSUME spc'[n] # "idle" PROVE GoneBy(d, bookmark[g], shead[n])'
      <3>1. PICK i \in Nat : i = shead'[n]
        BY <1>1, <2>4, HeadIsStep DEF HeadIs
      <3>2. CASE spc[n] # "idle" /\ shead'[n] = shead[n]
        <4>1. GoneBy(d, c, i)'
          BY <1>1, <1>3, <2>1, <3>1, <3>2, GoneLater DEF GhostGone
        <4>2. QED
          BY <1>3, <2>1, <3>1, <4>1
      <3>3. CASE shead'[n] = pos[n]
        <4>1. GoneBy(d, c, i)'
          BY <1>1, <2>2, <3>1, <3>3
        <4>2. QED
          BY <1>3, <2>1, <3>1, <4>1
      <3>4. QED
        BY <1>1, <2>4, <3>2, <3>3, HeadIsStep DEF HeadIs
    <2>5. QED
      BY <2>3, <2>4
  <1>4. CASE Retract(n, d)
    <2>1. /\ spc[n] = "apply" /\ d \in sretract[n] /\ bookmark' = bookmark
          /\ shead' = shead /\ pos' = pos /\ log' = log
      BY <1>4 DEF Retract, vault
    <2>2. /\ At(shead[n], d) = {} /\ At(smark[n], d) # {} /\ shead[n] <= pos[n]
      BY <2>1 DEF Base, Planned, Underway
    <2>3. smark[n] = bookmark[g] /\ smark[n] <= shead[n] /\ smark[n] \in Nat
      BY <1>1, <2>1, Typed DEF Pinned, HeadsType, Commits
    <2>4. smark[n] < shead[n]
      BY <1>1, <2>2, <2>3
    <2>5. GoneBy(d, bookmark[g], shead[n]) /\ GoneBy(d, bookmark[g], pos[n])
      BY <1>1, <2>2, <2>3, <2>4 DEF GoneBy
    <2>6. QED
      BY <2>1, <2>5, TreesKept DEF GoneBy
  <1>5. ASSUME bookmark'[g] # bookmark[g] PROVE FALSE
    <2>1. PICK m \in Machines : Advance(m) /\ g = GraphOf[m] /\ sscope[m] = Folders
      BY <1>1, <1>5, BookmarkMoved
    <2>2. m = n
      BY <2>1 DEF OwnGraphs
    <2>3. spc[n] = "rebuild" /\ skeys[n] = {} /\ stale' = stale /\ live' = live
      BY <2>1, <2>2 DEF Advance
    <2>4. sreplay[n] = {} /\ sretract[n] = {}
      BY <2>3 DEF Base, Underway
    <2>5. p \in Ghosts(g)
      BY <2>3 DEF Ghosts
    <2>6. QED
      BY <2>1, <2>2, <2>3, <2>4, <2>5 DEF GhostPending, Pending
  <1>6. QED
    BY <1>3, <1>4, <1>5, GhostIsStep DEF GhostIs

(* The diff from the bookmark shows what became of a ghost's document.     *)
LEMMA PlanSees ==
    ASSUME TypeOK, NoReturn, NEW m \in Machines, NEW d \in Docs, sscope[m] = Folders,
           live[GraphOf[m]][d] = 0, GoneBy(d, smark[m], shead[m])
    PROVE  d \in Retracts(m) \/ \E f \in Replays(m) : DocOf[f] = d
  <1>1. shead[m] \in Commits /\ smark[m] \in Commits /\ shead[m] \in Nat /\ smark[m] \in Nat
    BY Typed DEF HeadsType, Commits
  <1>2. PICK x \in Commits : smark[m] < x /\ x <= shead[m] /\ At(x, d) = {}
    BY DEF GoneBy
  <1>3. PICK f \in Folders : DocOf[f] = d /\ Tree(smark[m])[f] # 0
    BY DEF GoneBy, At
  <1>4. \A h \in Folders : DocOf[h] = d => Tree(x)[h] = 0
    BY <1>2 DEF At
  <1>5. ASSUME NEW h \in Folders, DocOf[h] = d, Tree(shead[m])[h] # 0
        PROVE  h \in Replays(m)
    <2>1. Tree(smark[m])[h] # Tree(shead[m])[h]
      BY <1>1, <1>2, <1>4, <1>5 DEF NoReturn, Commits
    <2>2. QED
      BY <1>5, <2>1 DEF Replays, DiffOf, Unchanged
  <1>6. CASE At(shead[m], d) = {}
    <2>1. Tree(shead[m])[f] = 0
      BY <1>3, <1>6 DEF At
    <2>2. f \in DiffOf(m)
      BY <1>3, <2>1 DEF DiffOf
    <2>3. QED
      BY <1>3, <1>6, <2>1, <2>2 DEF Retracts
  <1>7. CASE At(shead[m], d) # {}
    <2>1. PICK h \in Folders : DocOf[h] = d /\ Tree(shead[m])[h] # 0
      BY <1>7 DEF At
    <2>2. QED
      BY <1>5, <2>1
  <1>8. QED
    BY <1>6, <1>7

(* What a sync that has its plan has just done.                            *)
Proceeds(n) ==
    /\ sscope'[n] = sscope[n] /\ shead'[n] = shead[n] /\ smark'[n] = smark[n]
    /\ \/ Plan(n)
       \/ /\ spc[n] \in {"apply", "rebuild"}
          /\ \/ \E f \in Folders : Replay(n, f)
             \/ \E d \in Docs : Retract(n, d)
             \/ \E k \in Keys : Rebuild(n, k)
             \/ /\ sreplay'[n] = sreplay[n] /\ sretract'[n] = sretract[n]
                /\ skeys'[n] = skeys[n]

(* Proceeds.                                                               *)
LEMMA ProceedsStep ==
    ASSUME TypeOK, [Next]_vars
    PROVE  \A n \in Machines : spc'[n] \in {"apply", "rebuild"} => Proceeds(n)
  <1> USE DEF MemoryType, HeadsType, KeysType, Proceeds
  <1>1. ASSUME NEW m \in Machines, AutoCommit(m) PROVE \A n \in Machines :
    spc'[n] \in {"apply", "rebuild"} => Proceeds(n)
    BY <1>1, Typed DEF AutoCommit, Dirty, vault, graph, ingest, slocal
  <1>2. ASSUME NEW m \in Machines, Pull(m) PROVE \A n \in Machines : spc'[n]
    \in {"apply", "rebuild"} => Proceeds(n)
    BY <1>2, Typed DEF Pull, vault, graph, ingest, slocal
  <1>3. ASSUME NEW m \in Machines, RemoveSuperseded(m) PROVE \A n \in Machines
    : spc'[n] \in {"apply", "rebuild"} => Proceeds(n)
    BY <1>3, Typed DEF RemoveSuperseded, vault, graph, ingest, slocal
  <1>4. ASSUME NEW m \in Machines, CommitIngest(m) PROVE \A n \in Machines :
    spc'[n] \in {"apply", "rebuild"} => Proceeds(n)
    BY <1>4, Typed DEF CommitIngest, Replaced, IngestOver, vault, graph,
      ingest, slocal
  <1>5. ASSUME NEW m \in Machines, IngestDies(m) PROVE \A n \in Machines :
    spc'[n] \in {"apply", "rebuild"} => Proceeds(n)
    BY <1>5, Typed DEF IngestDies, IngestOver, vault, graph, ingest, slocal
  <1>6. ASSUME NEW m \in Machines, ReadBookmark(m) PROVE \A n \in Machines :
    spc'[n] \in {"apply", "rebuild"} => Proceeds(n)
    <2>1. CASE IsAncestor(m, bookmark[GraphOf[m]])
      BY <1>6, <2>1, Typed DEF ReadBookmark, SGoto
    <2>2. CASE ~IsAncestor(m, bookmark[GraphOf[m]])
      BY <1>6, <2>2, Typed DEF ReadBookmark, Over
    <2>3. QED
      BY <2>1, <2>2
  <1>7. ASSUME NEW m \in Machines, Plan(m) PROVE \A n \in Machines : spc'[n]
    \in {"apply", "rebuild"} => Proceeds(n)
    <2>1. ASSUME NEW n \in Machines, n # m, spc'[n] \in {"apply", "rebuild"} PROVE Proceeds(n)
      BY <1>7, <2>1, Typed DEF Plan, SGoto, Proceeds, Collect
    <2>2. ASSUME spc'[m] \in {"apply", "rebuild"} PROVE Proceeds(m)
      BY <1>7, <2>2 DEF Plan, SGoto, Proceeds
    <2>3. QED
      BY <2>1, <2>2
  <1>8. ASSUME NEW m \in Machines, Applied(m) PROVE \A n \in Machines :
    spc'[n] \in {"apply", "rebuild"} => Proceeds(n)
    BY <1>8, Typed DEF Applied, SGoto, vault, graph, ingest, slocal
  <1>9. ASSUME NEW m \in Machines, Advance(m) PROVE \A n \in Machines :
    spc'[n] \in {"apply", "rebuild"} => Proceeds(n)
    BY <1>9, Typed DEF Advance, Over, NewBookmark, vault, graph, ingest,
      slocal
  <1>10. ASSUME NEW m \in Machines, Fail(m) PROVE \A n \in Machines : spc'[n]
    \in {"apply", "rebuild"} => Proceeds(n)
    BY <1>10, Typed DEF Fail, Over, vault, graph, ingest, slocal
  <1>11. ASSUME NEW m \in Machines, NEW f \in Folders, Remove(m, f) PROVE \A n
    \in Machines : spc'[n] \in {"apply", "rebuild"} => Proceeds(n)
    BY <1>11, Typed DEF Remove, AtTip, vault, graph, ingest, slocal
  <1>12. ASSUME NEW m \in Machines, NEW f \in Folders, Stage(m, f) PROVE \A n
    \in Machines : spc'[n] \in {"apply", "rebuild"} => Proceeds(n)
    BY <1>12, Typed DEF Stage, AtTip, Turn, vault, graph, ingest, slocal
  <1>13. ASSUME NEW m \in Machines, NEW f \in Folders, Replay(m, f) PROVE \A n
    \in Machines : spc'[n] \in {"apply", "rebuild"} => Proceeds(n)
    <2>1. ASSUME NEW n \in Machines, n # m, spc'[n] \in {"apply", "rebuild"} PROVE Proceeds(n)
      BY <1>13, <2>1, Typed DEF Replay, Proceeds, Collect
    <2>2. ASSUME spc'[m] \in {"apply", "rebuild"} PROVE Proceeds(m)
      BY <1>13, <2>2 DEF Replay, Proceeds
    <2>3. QED
      BY <2>1, <2>2
  <1>14. ASSUME NEW m \in Machines, NEW scope \in Scopes, Begin(m, scope)
    PROVE \A n \in Machines : spc'[n] \in {"apply", "rebuild"} => Proceeds(n)
    BY <1>14, Typed DEF Begin, SGoto, Turn, vault, graph, ingest, slocal
  <1>15. ASSUME NEW m \in Machines, NEW d \in Docs, Retract(m, d) PROVE \A n
    \in Machines : spc'[n] \in {"apply", "rebuild"} => Proceeds(n)
    <2>1. ASSUME NEW n \in Machines, n # m, spc'[n] \in {"apply", "rebuild"} PROVE Proceeds(n)
      BY <1>15, <2>1, Typed DEF Retract, Proceeds, Collect
    <2>2. ASSUME spc'[m] \in {"apply", "rebuild"} PROVE Proceeds(m)
      BY <1>15, <2>2 DEF Retract, Proceeds
    <2>3. QED
      BY <2>1, <2>2
  <1>16. ASSUME NEW m \in Machines, NEW k \in Keys, Rebuild(m, k) PROVE \A n
    \in Machines : spc'[n] \in {"apply", "rebuild"} => Proceeds(n)
    <2>1. ASSUME NEW n \in Machines, n # m, spc'[n] \in {"apply", "rebuild"} PROVE Proceeds(n)
      BY <1>16, <2>1, Typed DEF Rebuild, Proceeds, Collect
    <2>2. ASSUME spc'[m] \in {"apply", "rebuild"} PROVE Proceeds(m)
      BY <1>16, <2>2 DEF Rebuild, Proceeds
    <2>3. QED
      BY <2>1, <2>2
  <1>17. CASE UNCHANGED vars
    BY <1>17, Typed DEF vars, vault, graph, ingest, slocal
  <1>18. QED
    BY <1>1, <1>2, <1>3, <1>4, <1>5, <1>6, <1>7, <1>8, <1>9, <1>10, <1>11,
      <1>12, <1>13, <1>14, <1>15, <1>16, <1>17 DEF Next

(* GhostPending.                                                           *)
LEMMA GhostPendingStep ==
    ASSUME Base, OwnGraphs, Pinned, Known, NoReturn, GhostGone, GhostPending, [Next]_vars
    PROVE  GhostPending'
  <1> SUFFICES ASSUME NEW n \in Machines, spc'[n] \in {"apply", "rebuild"}, sscope'[n] = Folders,
                      NEW p \in Ghosts(GraphOf[n])'
               PROVE  p[2] \in skeys'[n] \/ Pending(n, p[1])'
    BY DEF GhostPending
  <1> DEFINE g == GraphOf[n]  d == p[1]
  <1>1. /\ TypeOK /\ Extracted /\ g \in Graphs /\ d \in Docs
    BY GhostTyped, GraphAssumption DEF Base
  <1>2. sscope[n] = Folders /\ Proceeds(n)
    BY <1>1, ProceedsStep DEF Proceeds
  <1>3. CASE Plan(n)
    <2>1. p \in Ghosts(g)
      BY <1>3 DEF Plan, graph, Ghosts
    <2>2. smark[n] = bookmark[g] /\ spc[n] # "idle"
      BY <1>3 DEF Pinned, Plan, SGoto
    <2>3. GoneBy(d, smark[n], shead[n]) /\ live[g][d] = 0
      BY <2>1, <2>2 DEF GhostGone, Ghosts
    <2>4. d \in Retracts(n) \/ \E f \in Replays(n) : DocOf[f] = d
      BY <1>1, <1>2, <2>3, PlanSees
    <2>5. sreplay'[n] = Replays(n) /\ sretract'[n] = Retracts(n)
      BY <1>1, <1>3, Typed DEF Plan, MemoryType
    <2>6. QED
      BY <2>4, <2>5 DEF Pending
  <1>4. ASSUME p \in Ghosts(g), spc[n] \in {"apply", "rebuild"}
        PROVE  p[2] \in skeys[n] \/ Pending(n, d)
    BY <1>2, <1>4 DEF GhostPending
  <1>5. ASSUME NEW f \in Folders, Replay(n, f) PROVE p[2] \in skeys'[n] \/ Pending(n, d)'
    <2>1. /\ spc[n] = "apply" /\ f \in sreplay[n] /\ sretract' = sretract
          /\ sreplay'[n] = sreplay[n] \ {f} /\ skeys[n] \subseteq skeys'[n]
      <3>1. Collect(n, g, DocOf[f], Tree(shead[n])[f])
        BY <1>5 DEF Replay
      <3>2. skeys[n] \subseteq skeys'[n]
        BY <1>1, <3>1, CollectAt
      <3>3. QED
        BY <1>1, <1>5, <3>2, Typed DEF Replay, MemoryType
    <2>2. d # DocOf[f]
      <3>1. /\ Tree(shead[n])[f] # 0 /\ Replaced(g, DocOf[f], Tree(shead[n])[f])
            /\ DocOf[f] \in Docs
        BY <1>5, <2>1, FolderAssumption DEF Base, Planned, Replay
      <3>2. live'[g][DocOf[f]] # 0
        BY <1>1, <3>1, ReplacedAt
      <3>3. QED
        BY <3>2 DEF Ghosts
    <2>3. p \in Ghosts(g)
      BY <1>5, <2>1, GhostIsStep DEF GhostIs, Replay, Retract
    <2>4. p[2] \in skeys[n] \/ Pending(n, d)
      BY <1>4, <2>1, <2>3
    <2>5. QED
      BY <2>1, <2>2, <2>4 DEF Pending
  <1>6. ASSUME NEW e \in Docs, Retract(n, e) PROVE p[2] \in skeys'[n] \/ Pending(n, d)'
    <2>1. /\ spc[n] = "apply" /\ sreplay[n] = {} /\ sreplay' = sreplay
          /\ sretract'[n] = sretract[n] \ {e}
          /\ Owe(g, e, 0) /\ Collect(n, g, e, 0) /\ Replaced(g, e, 0)
      BY <1>1, <1>6, Typed DEF Retract, MemoryType
    <2>2. skeys'[n] = skeys[n] \cup PriorKeys(g, e) \cup KeysOf(e, {0} \ {0})
      BY <1>1, <2>1, CollectAt
    <2>3. CASE d = e
      <3>1. 0 \in 0 .. made[e]
        BY <1>1, VaultTyped DEF VaultType
      <3>2. Changed(g, e, 0) \in SUBSET Keys /\ Changed(g, e, 0) \subseteq skeys'[n]
        BY <1>1, <2>2, <3>1, ChangedKeys
      <3>3. stale'[g] = stale[g] \cup ({e} \X Changed(g, e, 0))
        BY <1>1, <2>1, <3>2, OweAt
      <3>4. CASE p \in stale[g]
        BY <1>1, <2>2, <2>3, <3>4 DEF Known
      <3>5. CASE p \notin stale[g]
        BY <3>2, <3>3, <3>5 DEF Ghosts
      <3>6. QED
        BY <3>4, <3>5
    <2>4. CASE d # e
      <3>1. p \in stale[g]
        <4>1. 0 \in 0 .. made[e]
          BY <1>1, VaultTyped DEF VaultType
        <4>2. Changed(g, e, 0) \in SUBSET Keys
          BY <1>1, <4>1, ChangedKeys
        <4>3. stale'[g] = stale[g] \cup ({e} \X Changed(g, e, 0))
          BY <1>1, <2>1, <4>2, OweAt
        <4>4. QED
          BY <2>4, <4>3 DEF Ghosts
      <3>2. live[g][d] = 0
        BY <1>1, <2>1, <2>4, ReplacedAt DEF Ghosts
      <3>3. p[2] \in skeys[n] \/ Pending(n, d)
        BY <1>4, <2>1, <3>1, <3>2 DEF Ghosts
      <3>4. QED
        BY <2>1, <2>2, <2>4, <3>3 DEF Pending
    <2>5. QED
      BY <2>3, <2>4
  <1>7. ASSUME NEW k \in Keys, Rebuild(n, k) PROVE p[2] \in skeys'[n] \/ Pending(n, d)'
    <2>1. /\ spc[n] = "rebuild" /\ skeys'[n] = skeys[n] \ {k} /\ live' = live
          /\ stale'[g] = {q \in stale[g] : q[2] # k}
          /\ sreplay' = sreplay /\ sretract' = sretract
      BY <1>1, <1>7, Typed DEF Rebuild, KeysType, GraphType
    <2>2. p \in Ghosts(g) /\ p[2] # k
      BY <2>1 DEF Ghosts
    <2>3. QED
      BY <1>4, <2>1, <2>2 DEF Pending
  <1>8. CASE /\ spc[n] \in {"apply", "rebuild"}
             /\ sreplay'[n] = sreplay[n] /\ sretract'[n] = sretract[n] /\ skeys'[n] = skeys[n]
    <2>1. CASE p \in Ghosts(g)
      BY <1>4, <1>8, <2>1 DEF Pending
    <2>2. CASE Retract(n, d)
      BY <1>1, <1>6, <2>2
    <2>3. QED
      BY <2>1, <2>2, GhostIsStep DEF GhostIs
  <1>9. QED
    BY <1>2, <1>3, <1>5, <1>6, <1>7, <1>8 DEF Proceeds

(* At the start.                                                           *)
LEMMA GhostInit ==
    ASSUME Init
    PROVE  Fresh /\ NoReturn /\ Pinned /\ Known /\ GhostGone /\ GhostPending
  <1>1. Commits = {0} /\ Tree(0) = NoFolders
    BY DEF Init, Commits, Tree
  <1>2. Fresh /\ NoReturn
    BY <1>1 DEF Init, NoFolders, Fresh, NoReturn
  <1>3. Pinned /\ GhostPending
    BY DEF Init, Pinned, GhostPending
  <1>4. Known /\ GhostGone
    BY GraphAssumption DEF Init, Known, GhostGone, Ghosts
  <1>5. QED
    BY <1>2, <1>3, <1>4

(* For any machines with a graph each, any documents, folders and scopes,  *)
(* whatever fails, is renamed half-way, is removed or is ingested while a  *)
(* sync runs: once a bookmark advances, no entity still speaks for a       *)
(* document that is not live.                                              *)
THEOREM GhostsGone == ASSUME OwnGraphs PROVE Spec => NoGhosts
  <1> DEFINE Inv == /\ Base /\ Fresh /\ NoReturn /\ Pinned /\ Known
                    /\ GhostGone /\ GhostPending
  <1>1. OneSync
    BY DEF OneSync, OwnGraphs
  <1>2. Inv /\ [Next]_vars => Inv'
    BY <1>1, BaseStep, FreshStep, NoReturnStep, PinnedStep, KnownStep, GhostGoneStep,
      GhostPendingStep DEF Base
  <1>3. ASSUME Inv, [Next]_vars, NEW g \in Graphs, bookmark'[g] # bookmark[g],
               NEW p \in stale[g]
        PROVE  live[g][p[1]] # 0
    <2>1. PICK m \in Machines : Advance(m) /\ g = GraphOf[m] /\ sscope[m] = Folders
      BY <1>3, BookmarkMoved DEF Base
    <2>2. spc[m] = "rebuild" /\ skeys[m] = {}
      BY <2>1 DEF Advance
    <2>3. sreplay[m] = {} /\ sretract[m] = {}
      BY <1>3, <2>2 DEF Base, Underway
    <2>4. p \notin Ghosts(g)
      BY <1>3, <2>1, <2>2, <2>3 DEF GhostPending, Pending
    <2>5. QED
      BY <1>3, <2>4 DEF Ghosts
  <1>4. Inv /\ [Next]_vars =>
          [\A g \in Graphs : bookmark'[g] # bookmark[g] =>
             \A p \in stale[g] : live[g][p[1]] # 0]_vars
    BY <1>3
  <1>5. Init => Inv
    BY BaseInit, GhostInit
  <1>6. QED
    BY <1>2, <1>4, <1>5, PTL DEF Spec, NoGhosts

-----------------------------------------------------------------------------
(***************************************************************************)
(* BookmarkReflects, where a rename is never split, no version is removed  *)
(* before every graph has it, and the machines of a graph write in turn.   *)
(***************************************************************************)
WritesInTurn == OwnGraphs \/ {"ingest", "sync"} \subseteq InTurn
Careful == ~HalfRenames /\ ~RemoveEarly /\ WritesInTurn

(* So no graph has two writers.                                            *)
Busy(m) == spc[m] # "idle" \/ ipc[m] # "idle"
OneBusy == \A m, n \in Machines : GraphOf[m] = GraphOf[n] /\ Busy(m) /\ Busy(n) => m = n

(* A document has one folder in every commit, and in every working tree    *)
(* that is not in the middle of a rename of it.                            *)
Single ==
    \A f, h \in Folders : DocOf[f] = DocOf[h] /\ f # h =>
       /\ \A c \in Commits : Tree(c)[f] = 0 \/ Tree(c)[h] = 0
       /\ \A m \in Machines : \/ work[m][f] = 0 \/ work[m][h] = 0
                              \/ ipc[m] = "supersede" /\ Doc(m) = DocOf[f]

(* A version has one folder in the whole history.                          *)
OneFolder ==
    \A x, y \in Commits, f, h \in Folders :
       DocOf[f] = DocOf[h] /\ Tree(x)[f] # 0 /\ Tree(x)[f] = Tree(y)[h] => f = h

(* Only a vault at the tip is changed, and one at a time.                  *)
OneDirty == \A m \in Machines : Dirty(m) => AtTip(m)

(* In the middle of a rename the new folder is there, and not committed.   *)
Half ==
    \A m \in Machines : ipc[m] = "supersede" =>
       /\ pos[m] = Len(log) /\ work[m][ifolder[m]] # 0
       /\ Newest(Doc(m), work[m][ifolder[m]])

(* Which ingest begins, and that no other does.                            *)
LEMMA StagesStep ==
    ASSUME TypeOK, [Next]_vars
    PROVE  \A n \in Machines : ipc'[n] # "idle" => ipc[n] # "idle" \/ \E h \in Folders : Stage(n, h)
  <1> USE DEF MemoryType
  <1>1. ASSUME NEW m \in Machines, AutoCommit(m) PROVE \A n \in Machines :
    ipc'[n] # "idle" => ipc[n] # "idle" \/ \E h \in Folders : Stage(n, h)
    BY <1>1, Typed DEF AutoCommit, Dirty, vault, graph, ingest, slocal
  <1>2. ASSUME NEW m \in Machines, Pull(m) PROVE \A n \in Machines : ipc'[n] #
    "idle" => ipc[n] # "idle" \/ \E h \in Folders : Stage(n, h)
    BY <1>2, Typed DEF Pull, vault, graph, ingest, slocal
  <1>3. ASSUME NEW m \in Machines, RemoveSuperseded(m) PROVE \A n \in Machines
    : ipc'[n] # "idle" => ipc[n] # "idle" \/ \E h \in Folders : Stage(n, h)
    BY <1>3, Typed DEF RemoveSuperseded, vault, graph, ingest, slocal
  <1>4. ASSUME NEW m \in Machines, CommitIngest(m) PROVE \A n \in Machines :
    ipc'[n] # "idle" => ipc[n] # "idle" \/ \E h \in Folders : Stage(n, h)
    BY <1>4, Typed DEF CommitIngest, Replaced, IngestOver, vault, graph,
      ingest, slocal
  <1>5. ASSUME NEW m \in Machines, IngestDies(m) PROVE \A n \in Machines :
    ipc'[n] # "idle" => ipc[n] # "idle" \/ \E h \in Folders : Stage(n, h)
    BY <1>5, Typed DEF IngestDies, IngestOver, vault, graph, ingest, slocal
  <1>6. ASSUME NEW m \in Machines, ReadBookmark(m) PROVE \A n \in Machines :
    ipc'[n] # "idle" => ipc[n] # "idle" \/ \E h \in Folders : Stage(n, h)
    BY <1>6 DEF ReadBookmark, ingest
  <1>7. ASSUME NEW m \in Machines, Plan(m) PROVE \A n \in Machines : ipc'[n] #
    "idle" => ipc[n] # "idle" \/ \E h \in Folders : Stage(n, h)
    BY <1>7, Typed DEF Plan, SGoto, vault, graph, ingest, slocal
  <1>8. ASSUME NEW m \in Machines, Applied(m) PROVE \A n \in Machines :
    ipc'[n] # "idle" => ipc[n] # "idle" \/ \E h \in Folders : Stage(n, h)
    BY <1>8, Typed DEF Applied, SGoto, vault, graph, ingest, slocal
  <1>9. ASSUME NEW m \in Machines, Advance(m) PROVE \A n \in Machines :
    ipc'[n] # "idle" => ipc[n] # "idle" \/ \E h \in Folders : Stage(n, h)
    BY <1>9, Typed DEF Advance, Over, NewBookmark, vault, graph, ingest,
      slocal
  <1>10. ASSUME NEW m \in Machines, Fail(m) PROVE \A n \in Machines : ipc'[n]
    # "idle" => ipc[n] # "idle" \/ \E h \in Folders : Stage(n, h)
    BY <1>10, Typed DEF Fail, Over, vault, graph, ingest, slocal
  <1>11. ASSUME NEW m \in Machines, NEW f \in Folders, Remove(m, f) PROVE \A n
    \in Machines : ipc'[n] # "idle" => ipc[n] # "idle" \/ \E h \in Folders :
    Stage(n, h)
    BY <1>11, Typed DEF Remove, AtTip, vault, graph, ingest, slocal
  <1>12. ASSUME NEW m \in Machines, NEW f \in Folders, Stage(m, f) PROVE \A n
    \in Machines : ipc'[n] # "idle" => ipc[n] # "idle" \/ \E h \in Folders :
    Stage(n, h)
    BY <1>12, Typed DEF Stage, AtTip, Turn, vault, graph, ingest, slocal
  <1>13. ASSUME NEW m \in Machines, NEW f \in Folders, Replay(m, f) PROVE \A n
    \in Machines : ipc'[n] # "idle" => ipc[n] # "idle" \/ \E h \in Folders :
    Stage(n, h)
    BY <1>13, Typed DEF Replay, Replaced, Owe, Collect, vault, graph, ingest,
      slocal
  <1>14. ASSUME NEW m \in Machines, NEW scope \in Scopes, Begin(m, scope)
    PROVE \A n \in Machines : ipc'[n] # "idle" => ipc[n] # "idle" \/ \E h \in
    Folders : Stage(n, h)
    BY <1>14, Typed DEF Begin, SGoto, Turn, vault, graph, ingest, slocal
  <1>15. ASSUME NEW m \in Machines, NEW d \in Docs, Retract(m, d) PROVE \A n
    \in Machines : ipc'[n] # "idle" => ipc[n] # "idle" \/ \E h \in Folders :
    Stage(n, h)
    BY <1>15, Typed DEF Retract, Replaced, Owe, Collect, vault, graph, ingest,
      slocal
  <1>16. ASSUME NEW m \in Machines, NEW k \in Keys, Rebuild(m, k) PROVE \A n
    \in Machines : ipc'[n] # "idle" => ipc[n] # "idle" \/ \E h \in Folders :
    Stage(n, h)
    BY <1>16, Typed DEF Rebuild, vault, graph, ingest, slocal
  <1>17. CASE UNCHANGED vars
    BY <1>17, Typed DEF vars, vault, graph, ingest, slocal
  <1>18. QED
    BY <1>1, <1>2, <1>3, <1>4, <1>5, <1>6, <1>7, <1>8, <1>9, <1>10, <1>11,
      <1>12, <1>13, <1>14, <1>15, <1>16, <1>17 DEF Next

(* OneBusy.                                                                *)
LEMMA OneBusyStep ==
    ASSUME TypeOK, OneBusy, WritesInTurn, [Next]_vars
    PROVE  OneBusy'
  <1> SUFFICES ASSUME NEW m \in Machines, NEW n \in Machines, GraphOf[m] = GraphOf[n],
                      Busy(m)', Busy(n)', m # n
               PROVE  FALSE
    BY DEF OneBusy
  <1>1. "ingest" \in InTurn /\ "sync" \in InTurn
    BY DEF WritesInTurn, OwnGraphs
  <1>2. ASSUME NEW x \in Machines, NEW y \in Machines, NEW s \in Scopes, Begin(x, s),
               GraphOf[x] = GraphOf[y], x # y, Busy(y)'
        PROVE  FALSE
    <2>1. spc[y] = "idle" /\ ipc[y] = "idle"
      BY <1>1, <1>2 DEF Begin, Turn
    <2>2. spc'[y] = spc[y] /\ ipc' = ipc
      BY <1>2, Typed DEF Begin, SGoto, ingest, MemoryType
    <2>3. QED
      BY <1>2, <2>1, <2>2 DEF Busy
  <1>3. ASSUME NEW x \in Machines, NEW y \in Machines, NEW f \in Folders, Stage(x, f),
               GraphOf[x] = GraphOf[y], x # y, Busy(y)'
        PROVE  FALSE
    <2>1. spc[y] = "idle" /\ ipc[y] = "idle"
      BY <1>1, <1>3 DEF Stage, Turn
    <2>2. spc' = spc /\ ipc'[y] = ipc[y]
      BY <1>3, StageAt DEF Stage
    <2>3. QED
      BY <1>3, <2>1, <2>2 DEF Busy
  <1>4. ASSUME NEW x \in Machines, Busy(x)'
        PROVE  \/ Busy(x) \/ \E s \in Scopes : Begin(x, s)
               \/ \E f \in Folders : Stage(x, f)
    BY <1>4, BeginsStep, StagesStep DEF Busy
  <1>5. ~(Busy(m) /\ Busy(n))
    BY DEF OneBusy
  <1>6. QED
    BY <1>2, <1>3, <1>4, <1>5

(* Single, the commits.                                                    *)
LEMMA SingleTrees ==
    ASSUME TypeOK, ~HalfRenames, Single, [Next]_vars,
           NEW f \in Folders, NEW h \in Folders, DocOf[f] = DocOf[h], f # h, NEW c \in Commits'
    PROVE  Tree(c)'[f] = 0 \/ Tree(c)'[h] = 0
  <1>1. CASE c \in Commits /\ Tree(c)' = Tree(c)
    BY <1>1 DEF Single
  <1>2. ASSUME NEW m \in Machines, AutoCommit(m), Tree(c)' = work[m]
        PROVE  Tree(c)'[f] = 0 \/ Tree(c)'[h] = 0
    <2>1. ipc[m] # "supersede"
      BY <1>2 DEF AutoCommit
    <2>2. QED
      BY <1>2, <2>1 DEF Single
  <1>3. QED
    BY <1>1, <1>2, TreeStep DEF TreeIs

(* At most one of two folders.                                             *)
OneOf(m, f, h) == \/ work[m][f] = 0 \/ work[m][h] = 0
                  \/ ipc[m] = "supersede" /\ Doc(m) = DocOf[f]
Works == \A f, h \in Folders : DocOf[f] = DocOf[h] /\ f # h =>
            \A m \in Machines : OneOf(m, f, h)

(* Single, the working trees.                                              *)
LEMMA SingleWorks ==
    ASSUME TypeOK, Underway, ~HalfRenames, Single, [Next]_vars
    PROVE  Works'
  <1> USE DEF Doc, Works
  <1>1. ASSUME NEW m \in Machines, AutoCommit(m) PROVE Works'
    <2> SUFFICES ASSUME NEW f \in Folders, NEW h \in Folders, DocOf[f] = DocOf[h], f # h,
                        NEW n \in Machines
                 PROVE  OneOf(n, f, h)'
      BY DEF Works
    <2>1. OneOf(n, f, h)
      BY DEF Single, OneOf
    <2>2. QED
      BY <1>1, <2>1 DEF OneOf, AutoCommit, ingest
  <1>2. ASSUME NEW m \in Machines, Pull(m) PROVE Works'
    <2> SUFFICES ASSUME NEW f \in Folders, NEW h \in Folders, DocOf[f] = DocOf[h], f # h,
                        NEW n \in Machines
                 PROVE  OneOf(n, f, h)'
      BY DEF Works
    <2>1. OneOf(n, f, h)
      BY DEF Single, OneOf
    <2>2. work'[n] = IF n = m THEN Tree(Len(log)) ELSE work[n]
      BY <1>2, PullAt
    <2>3. Tree(Len(log))[f] = 0 \/ Tree(Len(log))[h] = 0
      BY VaultTyped DEF Single
    <2>4. ipc' = ipc /\ ifolder' = ifolder
      BY <1>2 DEF Pull, ingest
    <2>5. QED
      BY <2>1, <2>2, <2>3, <2>4 DEF OneOf
  <1>3. ASSUME NEW m \in Machines, RemoveSuperseded(m) PROVE Works'
    <2> SUFFICES ASSUME NEW f \in Folders, NEW h \in Folders, DocOf[f] = DocOf[h], f # h,
                        NEW n \in Machines
                 PROVE  OneOf(n, f, h)'
      BY DEF Works
    <2>1. OneOf(n, f, h)
      BY DEF Single, OneOf
    <2>2. /\ \A x \in Folders : work'[n][x] = IF n = m /\ DocOf[x] = Doc(m) /\ x # ifolder[m]
                                             THEN 0 ELSE work[n][x]
          /\ ipc'[n] = IF n = m THEN "commit" ELSE ipc[n]
          /\ ifolder' = ifolder
      BY <1>3, RemoveSupersededAt
    <2>3. CASE n = m /\ DocOf[f] = Doc(m)
      BY <2>2, <2>3 DEF OneOf
    <2>4. CASE ~(n = m /\ DocOf[f] = Doc(m))
      BY <1>3, <2>1, <2>2, <2>4 DEF OneOf, RemoveSuperseded
    <2>5. QED
      BY <2>3, <2>4
  <1>4. ASSUME NEW m \in Machines, CommitIngest(m) PROVE Works'
    <2> SUFFICES ASSUME NEW f \in Folders, NEW h \in Folders, DocOf[f] = DocOf[h], f # h,
                        NEW n \in Machines
                 PROVE  OneOf(n, f, h)'
      BY DEF Works
    <2>1. OneOf(n, f, h)
      BY DEF Single, OneOf
    <2>2. /\ work' = work /\ ipc[m] = "commit"
          /\ \A x \in Machines : x # m => ipc'[x] = ipc[x] /\ ifolder'[x] = ifolder[x]
      BY <1>4, Typed DEF CommitIngest, IngestOver, vault, MemoryType
    <2>3. QED
      BY <2>1, <2>2 DEF OneOf
  <1>5. ASSUME NEW m \in Machines, IngestDies(m) PROVE Works'
    <2> SUFFICES ASSUME NEW f \in Folders, NEW h \in Folders, DocOf[f] = DocOf[h], f # h,
                        NEW n \in Machines
                 PROVE  OneOf(n, f, h)'
      BY DEF Works
    <2>1. OneOf(n, f, h)
      BY DEF Single, OneOf
    <2>2. /\ work' = work /\ ipc[m] = "commit"
          /\ \A x \in Machines : x # m => ipc'[x] = ipc[x] /\ ifolder'[x] = ifolder[x]
      BY <1>5, Typed DEF IngestDies, IngestOver, vault, MemoryType
    <2>3. QED
      BY <2>1, <2>2 DEF OneOf
  <1>6. ASSUME NEW m \in Machines, ReadBookmark(m) PROVE Works'
    BY <1>6, Typed DEF ReadBookmark, SGoto, Over, IsAncestor, vault, graph,
      ingest, slocal, Single, OneOf
  <1>7. ASSUME NEW m \in Machines, Plan(m) PROVE Works'
    BY <1>7, Typed DEF Plan, SGoto, vault, graph, ingest, slocal, Single,
      OneOf
  <1>8. ASSUME NEW m \in Machines, Applied(m) PROVE Works'
    BY <1>8, Typed DEF Applied, SGoto, vault, graph, ingest, slocal, Single,
      OneOf
  <1>9. ASSUME NEW m \in Machines, Advance(m) PROVE Works'
    BY <1>9, Typed DEF Advance, Over, NewBookmark, vault, graph, ingest,
      slocal, Single, OneOf
  <1>10. ASSUME NEW m \in Machines, Fail(m) PROVE Works'
    BY <1>10, Typed DEF Fail, Over, vault, graph, ingest, slocal, Single,
      OneOf
  <1>11. ASSUME NEW m \in Machines, NEW f \in Folders, Remove(m, f) PROVE
    Works'
    <2> SUFFICES ASSUME NEW x \in Folders, NEW h \in Folders, DocOf[x] = DocOf[h], x # h,
                        NEW n \in Machines
                 PROVE  OneOf(n, x, h)'
      BY DEF Works
    <2>1. OneOf(n, x, h)
      BY DEF Single, OneOf
    <2>2. /\ \A y \in Folders : work'[n][y] = IF n = m /\ y = f THEN 0 ELSE work[n][y]
          /\ ipc' = ipc /\ ifolder' = ifolder
      BY <1>11, RemoveAt
    <2>3. QED
      BY <2>1, <2>2 DEF OneOf
  <1>12. ASSUME NEW m \in Machines, NEW f \in Folders, Stage(m, f) PROVE
    Works'
    <2> SUFFICES ASSUME NEW x \in Folders, NEW h \in Folders, DocOf[x] = DocOf[h], x # h,
                        NEW n \in Machines
                 PROVE  OneOf(n, x, h)'
      BY DEF Works
    <2>1. OneOf(n, x, h)
      BY DEF Single, OneOf
    <2>2. /\ \A y \in Folders :
                work'[n][y] = IF n = m /\ y = f THEN made[DocOf[f]] + 1 ELSE work[n][y]
          /\ ipc'[n] = IF n = m THEN "supersede" ELSE ipc[n]
          /\ ifolder'[n] = IF n = m THEN f ELSE ifolder[n]
      BY <1>12, StageAt
    <2>6. ipc[m] = "idle"
      BY <1>12 DEF Stage
    <2>3. CASE n = m /\ DocOf[x] = DocOf[f]
      BY <2>2, <2>3 DEF OneOf
    <2>4. CASE ~(n = m /\ DocOf[x] = DocOf[f])
      BY <2>1, <2>2, <2>4, <2>6 DEF OneOf
    <2>5. QED
      BY <2>3, <2>4
  <1>13. ASSUME NEW m \in Machines, NEW f \in Folders, Replay(m, f) PROVE
    Works'
    BY <1>13, Typed DEF Replay, Replaced, Owe, Collect, vault, graph, ingest,
      slocal, Single, OneOf
  <1>14. ASSUME NEW m \in Machines, NEW scope \in Scopes, Begin(m, scope)
    PROVE Works'
    BY <1>14, Typed DEF Begin, SGoto, Turn, vault, graph, ingest, slocal,
      Single, OneOf
  <1>15. ASSUME NEW m \in Machines, NEW d \in Docs, Retract(m, d) PROVE Works'
    BY <1>15, Typed DEF Retract, Replaced, Owe, Collect, vault, graph, ingest,
      slocal, Single, OneOf
  <1>16. ASSUME NEW m \in Machines, NEW k \in Keys, Rebuild(m, k) PROVE Works'
    BY <1>16, Typed DEF Rebuild, vault, graph, ingest, slocal, Single, OneOf
  <1>17. CASE UNCHANGED vars
    BY <1>17, Typed DEF vars, vault, graph, ingest, slocal, Single, OneOf
  <1>18. QED
    BY <1>1, <1>2, <1>3, <1>4, <1>5, <1>6, <1>7, <1>8, <1>9, <1>10, <1>11,
      <1>12, <1>13, <1>14, <1>15, <1>16, <1>17 DEF Next

(* Single.                                                                 *)
LEMMA SingleStep ==
    ASSUME TypeOK, Underway, ~HalfRenames, Single, [Next]_vars
    PROVE  Single'
  BY SingleTrees, SingleWorks DEF Single, Works, OneOf

(* OneFolder.                                                              *)
LEMMA OneFolderStep ==
    ASSUME TypeOK, Underway, ~HalfRenames, Fresh, Single, OneFolder, [Next]_vars
    PROVE  OneFolder'
  <1> SUFFICES ASSUME NEW x \in Commits', NEW y \in Commits', NEW f \in Folders, NEW h \in Folders,
                      DocOf[f] = DocOf[h], Tree(x)'[f] # 0, Tree(x)'[f] = Tree(y)'[h]
               PROVE  f = h
    BY DEF OneFolder
  <1>1. ASSUME NEW s \in Folders, NEW t \in Folders, DocOf[s] = DocOf[t],
               NEW z \in Commits, NEW m \in Machines, AutoCommit(m),
               work[m][s] # 0, work[m][s] = Tree(z)[t]
        PROVE  s = t
    <2>1. pos[m] = Len(log) /\ Tree(z)[t] \in Nat
      BY <1>1, VaultTyped DEF AutoCommit
    <2>2. ~Newest(DocOf[s], work[m][s])
      BY <1>1, <2>1 DEF Newest
    <2>3. work[m][s] = Tree(Len(log))[s] /\ Len(log) \in Commits
      BY <1>1, <2>1, <2>2, VaultTyped DEF Fresh
    <2>4. QED
      BY <1>1, <2>3 DEF OneFolder
  <1>2. CASE x \in Commits /\ Tree(x)' = Tree(x) /\ y \in Commits /\ Tree(y)' = Tree(y)
    BY <1>2 DEF OneFolder
  <1>3. CASE x = y
    BY <1>3, SingleTrees
  <1>4. QED
    BY <1>1, <1>2, <1>3, TreeStep DEF TreeIs

(* Half a rename is dirty.                                                 *)
LEMMA HalfIsDirty ==
    ASSUME TypeOK, Underway, Half, NEW m \in Machines, ipc[m] = "supersede"
    PROVE  Dirty(m) /\ pos[m] = Len(log)
  <1>1. /\ pos[m] = Len(log) /\ ifolder[m] \in Folders /\ Len(log) \in Commits
        /\ Newest(Doc(m), work[m][ifolder[m]])
    BY VaultTyped DEF Half, Underway
  <1>2. Tree(Len(log))[ifolder[m]] < work[m][ifolder[m]] /\ Tree(Len(log))[ifolder[m]] \in Nat
    BY <1>1, VaultTyped DEF Newest, Doc
  <1>3. Tree(Len(log)) # work[m]
    BY <1>2
  <1>4. QED
    BY <1>1, <1>3 DEF Dirty

(* A vault at the tip is changed while no other is.                        *)
LEMMA TouchedAtTip ==
    ASSUME TypeOK, NEW m \in Machines, AtTip(m), log' = log, pos' = pos,
           \A n \in Machines : n # m => work'[n] = work[n]
    PROVE  OneDirty'
  <1>1. \A n \in Machines : n # m => ~Dirty(n)'
    BY TreesKept DEF Dirty, AtTip
  <1>2. AtTip(m)'
    BY <1>1 DEF AtTip
  <1>3. QED
    BY <1>1, <1>2 DEF OneDirty

(* OneDirty.                                                               *)
LEMMA OneDirtyStep ==
    ASSUME TypeOK, Underway, ~HalfRenames, Half, OneDirty, [Next]_vars
    PROVE  OneDirty'
  <1> USE DEF OneDirty
  <1>1. ASSUME NEW m \in Machines, AutoCommit(m) PROVE OneDirty'
    <2>1. AtTip(m) /\ pos[m] = Len(log)
      BY <1>1 DEF AutoCommit
    <2>2. ASSUME NEW n \in Machines, n # m PROVE ~Dirty(n)'
      <3>1. work[n] = Tree(pos[n]) /\ pos[n] \in Commits /\ pos'[n] = pos[n]
        BY <1>1, <2>1, <2>2, AutoCommitAt, VaultTyped DEF AtTip, Dirty, VaultType
      <3>2. work' = work /\ Tree(pos[n])' = Tree(pos[n])
        <4>1. PICK c \in Commits : c = pos[n]
          BY <3>1
        <4>2. Tree(c)' = Tree(c)
          BY <4>1, <1>1, AutoCommitAt
        <4>3. QED
          BY <1>1, <3>1, <4>1, <4>2, AutoCommitAt
      <3>3. QED
        BY <3>1, <3>2 DEF Dirty
    <2>3. ~Dirty(m)'
      <3>1. PICK c \in Nat : c = Len(log) + 1
        BY VaultTyped DEF VaultType
      <3>2. Tree(c)' = work[m] /\ pos'[m] = c /\ work' = work
        BY <1>1, <3>1, AutoCommitAt
      <3>3. QED
        BY <3>2 DEF Dirty
    <2>4. QED
      BY <2>2, <2>3
  <1>2. ASSUME NEW m \in Machines, Pull(m) PROVE OneDirty'
    <2>1. ~Dirty(m)'
      BY <1>2, PullAt, TreesKept DEF Dirty
    <2>2. ASSUME NEW n \in Machines, n # m PROVE /\ Dirty(n)' = Dirty(n) /\ pos'[n] = pos[n]
      BY <1>2, <2>2, PullAt, TreesKept DEF Dirty
    <2>3. log' = log
      BY <1>2, PullAt
    <2>4. QED
      BY <2>1, <2>2, <2>3 DEF AtTip
  <1>3. ASSUME NEW m \in Machines, RemoveSuperseded(m) PROVE OneDirty'
    <2>1. /\ log' = log /\ pos' = pos /\ \A n \in Machines : n # m => work'[n] = work[n]
      BY <1>3, VaultTyped DEF RemoveSuperseded, VaultType
    <2>2. AtTip(m)
      <3>1. ipc[m] = "supersede"
        BY <1>3 DEF RemoveSuperseded
      <3>2. QED
        BY <3>1, HalfIsDirty
    <2>3. QED
      BY <2>1, <2>2, TouchedAtTip
  <1>4. ASSUME NEW m \in Machines, CommitIngest(m) PROVE OneDirty'
    BY <1>4, TreesKept DEF CommitIngest, Replaced, IngestOver, vault, graph,
      ingest, slocal, Dirty, AtTip
  <1>5. ASSUME NEW m \in Machines, IngestDies(m) PROVE OneDirty'
    BY <1>5, TreesKept DEF IngestDies, IngestOver, vault, graph, ingest,
      slocal, Dirty, AtTip
  <1>6. ASSUME NEW m \in Machines, ReadBookmark(m) PROVE OneDirty'
    BY <1>6, TreesKept DEF ReadBookmark, SGoto, Over, IsAncestor, vault,
      graph, ingest, slocal, Dirty, AtTip
  <1>7. ASSUME NEW m \in Machines, Plan(m) PROVE OneDirty'
    BY <1>7, TreesKept DEF Plan, SGoto, vault, graph, ingest, slocal, Dirty,
      AtTip
  <1>8. ASSUME NEW m \in Machines, Applied(m) PROVE OneDirty'
    BY <1>8, TreesKept DEF Applied, SGoto, vault, graph, ingest, slocal,
      Dirty, AtTip
  <1>9. ASSUME NEW m \in Machines, Advance(m) PROVE OneDirty'
    BY <1>9, TreesKept DEF Advance, Over, NewBookmark, vault, graph, ingest,
      slocal, Dirty, AtTip
  <1>10. ASSUME NEW m \in Machines, Fail(m) PROVE OneDirty'
    BY <1>10, TreesKept DEF Fail, Over, vault, graph, ingest, slocal, Dirty,
      AtTip
  <1>11. ASSUME NEW m \in Machines, NEW f \in Folders, Remove(m, f) PROVE
    OneDirty'
    <2>1. /\ log' = log /\ pos' = pos /\ \A n \in Machines : n # m => work'[n] = work[n]
      BY <1>11, VaultTyped DEF Remove, VaultType
    <2>2. AtTip(m)
      BY <1>11 DEF Remove
    <2>3. QED
      BY <2>1, <2>2, TouchedAtTip
  <1>12. ASSUME NEW m \in Machines, NEW f \in Folders, Stage(m, f) PROVE
    OneDirty'
    <2>1. /\ log' = log /\ pos' = pos /\ \A n \in Machines : n # m => work'[n] = work[n]
      BY <1>12, VaultTyped DEF Stage, VaultType
    <2>2. AtTip(m)
      BY <1>12 DEF Stage
    <2>3. QED
      BY <2>1, <2>2, TouchedAtTip
  <1>13. ASSUME NEW m \in Machines, NEW f \in Folders, Replay(m, f) PROVE
    OneDirty'
    BY <1>13, TreesKept DEF Replay, Replaced, Owe, Collect, vault, graph,
      ingest, slocal, Dirty, AtTip
  <1>14. ASSUME NEW m \in Machines, NEW scope \in Scopes, Begin(m, scope)
    PROVE OneDirty'
    BY <1>14, TreesKept DEF Begin, SGoto, Turn, vault, graph, ingest, slocal,
      Dirty, AtTip
  <1>15. ASSUME NEW m \in Machines, NEW d \in Docs, Retract(m, d) PROVE
    OneDirty'
    BY <1>15, TreesKept DEF Retract, Replaced, Owe, Collect, vault, graph,
      ingest, slocal, Dirty, AtTip
  <1>16. ASSUME NEW m \in Machines, NEW k \in Keys, Rebuild(m, k) PROVE
    OneDirty'
    BY <1>16, TreesKept DEF Rebuild, vault, graph, ingest, slocal, Dirty,
      AtTip
  <1>17. CASE UNCHANGED vars
    BY <1>17, TreesKept DEF vars, vault, graph, ingest, slocal, Dirty, AtTip
  <1>18. QED
    BY <1>1, <1>2, <1>3, <1>4, <1>5, <1>6, <1>7, <1>8, <1>9, <1>10, <1>11,
      <1>12, <1>13, <1>14, <1>15, <1>16, <1>17 DEF Next

(* A rename that is half done on n.                                        *)
HalfOf(n) == ipc[n] = "supersede" =>
    /\ pos[n] = Len(log) /\ work[n][ifolder[n]] # 0
    /\ Newest(Doc(n), work[n][ifolder[n]])

(* Half.                                                                   *)
LEMMA HalfStep ==
    ASSUME TypeOK, Extracted, Underway, ~HalfRenames, OneDirty, Half,
      [Next]_vars
    PROVE  \A n \in Machines : HalfOf(n)'
  <1> USE DEF Half, HalfOf
  <1>1. ASSUME NEW m \in Machines, AutoCommit(m) PROVE \A n \in Machines :
    HalfOf(n)'
    <2> SUFFICES ASSUME NEW n \in Machines, ipc'[n] = "supersede" PROVE HalfOf(n)'
      BY DEF HalfOf
    <2>1. ifolder[n] \in Folders \/ ipc[n] # "supersede"
      BY DEF Underway
    <2>2. ipc[n] = "supersede" /\ ipc[m] # "supersede" /\ Dirty(m)
      BY <1>1 DEF AutoCommit, ingest
    <2>3. QED
      BY <2>2, HalfIsDirty DEF OneDirty, AtTip
  <1>2. ASSUME NEW m \in Machines, Pull(m) PROVE \A n \in Machines :
    HalfOf(n)'
    <2> SUFFICES ASSUME NEW n \in Machines, ipc'[n] = "supersede" PROVE HalfOf(n)'
      BY DEF HalfOf
    <2>1. ifolder[n] \in Folders \/ ipc[n] # "supersede"
      BY DEF Underway
    <2>2. ipc[n] = "supersede" /\ ifolder' = ifolder /\ pos[m] < Len(log)
      BY <1>2 DEF Pull, ingest
    <2>3. n # m
      BY <2>2, VaultTyped DEF Half, VaultType
    <2>4. log' = log /\ pos'[n] = pos[n] /\ work'[n] = work[n]
      BY <1>2, <2>3, PullAt
    <2>5. QED
      BY <2>2, <2>4, TreesKept DEF Half, Newest, Doc
  <1>3. ASSUME NEW m \in Machines, RemoveSuperseded(m) PROVE \A n \in Machines
    : HalfOf(n)'
    <2> SUFFICES ASSUME NEW n \in Machines, ipc'[n] = "supersede" PROVE HalfOf(n)'
      BY DEF HalfOf
    <2>1. ifolder[n] \in Folders \/ ipc[n] # "supersede"
      BY DEF Underway
    <2>2. ipc'[n] = IF n = m THEN "commit" ELSE ipc[n]
      BY <1>3, RemoveSupersededAt
    <2>3. n # m /\ ipc[n] = "supersede"
      BY <2>2
    <2>4. /\ work'[n][ifolder[n]] = work[n][ifolder[n]] /\ ifolder' = ifolder /\ log' = log
          /\ pos' = pos
      BY <1>3, <2>1, <2>3, RemoveSupersededAt
    <2>5. QED
      BY <2>3, <2>4, TreesKept DEF Half, Newest, Doc
  <1>4. ASSUME NEW m \in Machines, CommitIngest(m) PROVE \A n \in Machines :
    HalfOf(n)'
    <2> SUFFICES ASSUME NEW n \in Machines, ipc'[n] = "supersede" PROVE HalfOf(n)'
      BY DEF HalfOf
    <2>1. ifolder[n] \in Folders \/ ipc[n] # "supersede"
      BY DEF Underway
    <2>2. n # m /\ ipc[n] = "supersede" /\ ifolder'[n] = ifolder[n]
      BY <1>4, Typed DEF CommitIngest, IngestOver, MemoryType
    <2>3. work' = work /\ log' = log /\ pos' = pos
      BY <1>4 DEF CommitIngest, vault
    <2>4. QED
      BY <2>2, <2>3, TreesKept DEF Half, Newest, Doc
  <1>5. ASSUME NEW m \in Machines, IngestDies(m) PROVE \A n \in Machines :
    HalfOf(n)'
    <2> SUFFICES ASSUME NEW n \in Machines, ipc'[n] = "supersede" PROVE HalfOf(n)'
      BY DEF HalfOf
    <2>1. ifolder[n] \in Folders \/ ipc[n] # "supersede"
      BY DEF Underway
    <2>2. n # m /\ ipc[n] = "supersede" /\ ifolder'[n] = ifolder[n]
      BY <1>5, Typed DEF IngestDies, IngestOver, MemoryType
    <2>3. work' = work /\ log' = log /\ pos' = pos
      BY <1>5 DEF IngestDies, vault
    <2>4. QED
      BY <2>2, <2>3, TreesKept DEF Half, Newest, Doc
  <1>6. ASSUME NEW m \in Machines, ReadBookmark(m) PROVE \A n \in Machines :
    HalfOf(n)'
    BY <1>6, TreesKept DEF ReadBookmark, SGoto, Over, IsAncestor, vault,
      graph, ingest, slocal, Newest, Doc
  <1>7. ASSUME NEW m \in Machines, Plan(m) PROVE \A n \in Machines :
    HalfOf(n)'
    BY <1>7, TreesKept DEF Plan, SGoto, vault, graph, ingest, slocal, Newest,
      Doc
  <1>8. ASSUME NEW m \in Machines, Applied(m) PROVE \A n \in Machines :
    HalfOf(n)'
    BY <1>8, TreesKept DEF Applied, SGoto, vault, graph, ingest, slocal,
      Newest, Doc
  <1>9. ASSUME NEW m \in Machines, Advance(m) PROVE \A n \in Machines :
    HalfOf(n)'
    BY <1>9, TreesKept DEF Advance, Over, NewBookmark, vault, graph, ingest,
      slocal, Newest, Doc
  <1>10. ASSUME NEW m \in Machines, Fail(m) PROVE \A n \in Machines :
    HalfOf(n)'
    BY <1>10, TreesKept DEF Fail, Over, vault, graph, ingest, slocal, Newest,
      Doc
  <1>11. ASSUME NEW m \in Machines, NEW f \in Folders, Remove(m, f) PROVE \A n
    \in Machines : HalfOf(n)'
    <2> SUFFICES ASSUME NEW n \in Machines, ipc'[n] = "supersede" PROVE HalfOf(n)'
      BY DEF HalfOf
    <2>1. ifolder[n] \in Folders \/ ipc[n] # "supersede"
      BY DEF Underway
    <2>2. /\ ipc[m] = "idle" /\ ipc' = ipc /\ ifolder' = ifolder /\ log' = log /\ pos' = pos
      BY <1>11, RemoveAt DEF Remove
    <2>3. n # m
      BY <2>2
    <2>4. work'[n][ifolder[n]] = work[n][ifolder[n]]
      BY <1>11, <2>1, <2>2, <2>3, RemoveAt
    <2>5. QED
      BY <2>2, <2>4, TreesKept DEF Half, Newest, Doc
  <1>12. ASSUME NEW m \in Machines, NEW f \in Folders, Stage(m, f) PROVE \A n
    \in Machines : HalfOf(n)'
    <2> SUFFICES ASSUME NEW n \in Machines, ipc'[n] = "supersede" PROVE HalfOf(n)'
      BY DEF HalfOf
    <2>1. ifolder[n] \in Folders \/ ipc[n] # "supersede"
      BY DEF Underway
    <2>2. log' = log /\ pos' = pos /\ pos[m] = Len(log)
      BY <1>12, StageAt DEF Stage, AtTip
    <2>3. CASE n = m
      <3>1. ifolder'[n] = f /\ work'[n][f] = made[DocOf[f]] + 1 /\ made[DocOf[f]] \in Nat
        BY <1>12, <2>3, StageAt, VaultTyped, FolderAssumption DEF VaultType
      <3>2. Newest(DocOf[f], made[DocOf[f]] + 1)
        BY <3>1, VaultTyped, FolderAssumption DEF Newest, Extracted, VaultType
      <3>3. PICK v \in Nat : v = made[DocOf[f]] + 1
        BY <3>1
      <3>4. Newest(DocOf[f], v)'
        BY <2>2, <3>2, <3>3, TreesKept DEF Newest
      <3>5. QED
        BY <2>2, <2>3, <3>1, <3>3, <3>4 DEF Doc
    <2>4. CASE n # m
      <3>1. ipc[n] = "supersede" /\ ifolder'[n] = ifolder[n]
        BY <1>12, <2>4, StageAt
      <3>2. work'[n][ifolder[n]] = work[n][ifolder[n]]
        BY <1>12, <2>1, <2>4, <3>1, StageAt
      <3>3. QED
        BY <2>2, <3>1, <3>2, TreesKept DEF Half, Newest, Doc
    <2>5. QED
      BY <2>3, <2>4
  <1>13. ASSUME NEW m \in Machines, NEW f \in Folders, Replay(m, f) PROVE \A n
    \in Machines : HalfOf(n)'
    BY <1>13, TreesKept DEF Replay, Replaced, Owe, Collect, vault, graph,
      ingest, slocal, Newest, Doc
  <1>14. ASSUME NEW m \in Machines, NEW scope \in Scopes, Begin(m, scope)
    PROVE \A n \in Machines : HalfOf(n)'
    BY <1>14, TreesKept DEF Begin, SGoto, Turn, vault, graph, ingest, slocal,
      Newest, Doc
  <1>15. ASSUME NEW m \in Machines, NEW d \in Docs, Retract(m, d) PROVE \A n
    \in Machines : HalfOf(n)'
    BY <1>15, TreesKept DEF Retract, Replaced, Owe, Collect, vault, graph,
      ingest, slocal, Newest, Doc
  <1>16. ASSUME NEW m \in Machines, NEW k \in Keys, Rebuild(m, k) PROVE \A n
    \in Machines : HalfOf(n)'
    BY <1>16, TreesKept DEF Rebuild, vault, graph, ingest, slocal, Newest, Doc
  <1>17. CASE UNCHANGED vars
    BY <1>17, TreesKept DEF vars, vault, graph, ingest, slocal, Newest, Doc
  <1>18. QED
    BY <1>1, <1>2, <1>3, <1>4, <1>5, <1>6, <1>7, <1>8, <1>9, <1>10, <1>11,
      <1>12, <1>13, <1>14, <1>15, <1>16, <1>17 DEF Next

(* The commits that the graph of an ingesting machine may get to have      *)
(* before the ingest is through,                                           *)
Reach(m, b) == b <= bookmark[GraphOf[m]] \/ (spc[m] # "idle" /\ b <= shead[m])

(* the versions the ingest may find in the folder it commits,              *)
Coming(m, v) ==
    \/ v = work[m][ifolder[m]]
    \/ \E c \in Commits : pos[m] < c /\ v = Tree(c)[ifolder[m]]

(* and that every such version is newer than what the graph may have.      *)
NewTo(m, v) ==
    \A b \in Commits, h \in Folders : Reach(m, b) /\ DocOf[h] = Doc(m) => Tree(b)[h] < v
Ahead ==
    \A m \in Machines : ipc[m] # "idle" =>
       \A v \in Nat \ {0} : Coming(m, v) => NewTo(m, v)

(* What may come next was to come, or is newer than the history.           *)
ComesTo(n) ==
    /\ ifolder'[n] = ifolder[n]
    /\ \A v \in Nat \ {0} : Coming(n, v)' => Coming(n, v) \/ Newest(Doc(n), v)

(* ComesTo.                                                                *)
LEMMA ComingStep ==
    ASSUME TypeOK, Underway, ~HalfRenames, Fresh, OneDirty, [Next]_vars
    PROVE  \A n \in Machines : ipc[n] # "idle" /\ ipc'[n] # "idle" => ComesTo(n)
  <1> USE DEF ComesTo, Coming
  <1>1. ASSUME NEW m \in Machines, AutoCommit(m) PROVE \A n \in Machines :
    ipc[n] # "idle" /\ ipc'[n] # "idle" => ComesTo(n)
    <2> SUFFICES ASSUME NEW n \in Machines, ipc[n] # "idle", ipc'[n] # "idle" PROVE ComesTo(n)
      OBVIOUS
    <2>1. ifolder[n] \in Folders
      BY DEF Underway
    <2>2. ifolder' = ifolder /\ work' = work /\ Len(log') = Len(log) + 1 /\ Len(log) \in Nat
      BY <1>1, AutoCommitAt, VaultTyped DEF AutoCommit, ingest, VaultType
    <2>3. SUFFICES ASSUME NEW v \in Nat \ {0}, Coming(n, v)'
                   PROVE  Coming(n, v) \/ Newest(Doc(n), v)
      BY <2>2 DEF ComesTo
    <2>4. CASE v = work[n][ifolder[n]]
      BY <2>4 DEF Coming
    <2>5. ASSUME NEW c \in Commits', pos'[n] < c, v = Tree(c)'[ifolder[n]]
          PROVE  Coming(n, v) \/ Newest(Doc(n), v)
      <3>1. c \in Nat /\ c <= Len(log) + 1 /\ pos[n] \in Commits
        BY <2>2, VaultTyped DEF Commits, VaultType
      <3>2. n # m /\ pos'[n] = pos[n]
        BY <1>1, <2>5, <3>1, AutoCommitAt
      <3>3. CASE c \in Commits
        BY <1>1, <2>5, <3>2, <3>3, AutoCommitAt DEF Coming
      <3>4. CASE c \notin Commits
        <4>1. c = Len(log) + 1
          BY <2>2, <3>1, <3>4 DEF Commits
        <4>2. v = work[m][ifolder[n]] /\ pos[m] = Len(log) /\ AtTip(m)
          BY <1>1, <2>5, <3>1, <4>1, AutoCommitAt DEF AutoCommit, OneDirty
        <4>3. v = Tree(Len(log))[ifolder[n]] \/ Newest(Doc(n), v)
          BY <2>1, <4>2 DEF Fresh, Doc
        <4>4. ASSUME v = Tree(Len(log))[ifolder[n]] PROVE Coming(n, v)
          <5>1. CASE pos[n] = Len(log)
            BY <3>2, <4>2, <4>4, <5>1 DEF AtTip, Dirty, Coming
          <5>2. CASE pos[n] # Len(log)
            <6>1. pos[n] < Len(log) /\ Len(log) \in Commits
              BY <2>2, <3>1, <5>2 DEF Commits
            <6>2. QED
              BY <4>4, <6>1 DEF Coming
          <5>3. QED
            BY <5>1, <5>2
        <4>5. QED
          BY <4>3, <4>4
      <3>5. QED
        BY <3>3, <3>4
    <2>6. QED
      BY <2>2, <2>3, <2>4, <2>5 DEF Coming
  <1>2. ASSUME NEW m \in Machines, Pull(m) PROVE \A n \in Machines : ipc[n] #
    "idle" /\ ipc'[n] # "idle" => ComesTo(n)
    <2> SUFFICES ASSUME NEW n \in Machines, ipc[n] # "idle", ipc'[n] # "idle" PROVE ComesTo(n)
      OBVIOUS
    <2>1. ifolder[n] \in Folders
      BY DEF Underway
    <2>2. ifolder' = ifolder /\ log' = log /\ pos[m] < Len(log)
      BY <1>2 DEF Pull, ingest
    <2>3. CASE n # m
      <3>1. pos'[n] = pos[n] /\ work'[n] = work[n]
        BY <1>2, <2>3, PullAt
      <3>2. QED
        BY <2>2, <3>1, TreesKept DEF ComesTo, Coming
    <2>4. CASE n = m
      <3>1. pos'[n] = Len(log) /\ work'[n] = Tree(Len(log)) /\ Len(log) \in Commits
        BY <1>2, <2>4, PullAt, VaultTyped
      <3>2. ~\E c \in Commits : Len(log) < c
        BY VaultTyped DEF Commits, VaultType
      <3>3. QED
        BY <2>2, <2>4, <3>1, <3>2, TreesKept DEF ComesTo, Coming
    <2>5. QED
      BY <2>3, <2>4
  <1>3. ASSUME NEW m \in Machines, RemoveSuperseded(m) PROVE \A n \in Machines
    : ipc[n] # "idle" /\ ipc'[n] # "idle" => ComesTo(n)
    <2> SUFFICES ASSUME NEW n \in Machines, ipc[n] # "idle", ipc'[n] # "idle" PROVE ComesTo(n)
      OBVIOUS
    <2>1. ifolder[n] \in Folders
      BY DEF Underway
    <2>2. /\ log' = log /\ pos' = pos /\ ifolder' = ifolder
          /\ work'[n][ifolder[n]] = work[n][ifolder[n]]
      BY <1>3, <2>1, RemoveSupersededAt
    <2>3. QED
      BY <2>2, TreesKept DEF ComesTo, Coming
  <1>4. ASSUME NEW m \in Machines, CommitIngest(m) PROVE \A n \in Machines :
    ipc[n] # "idle" /\ ipc'[n] # "idle" => ComesTo(n)
    <2> SUFFICES ASSUME NEW n \in Machines, ipc[n] # "idle", ipc'[n] # "idle" PROVE ComesTo(n)
      OBVIOUS
    <2>1. ifolder[n] \in Folders
      BY DEF Underway
    <2>2. /\ n # m /\ log' = log /\ pos'[n] = pos[n] /\ ifolder'[n] = ifolder[n]
          /\ work'[n][ifolder[n]] = work[n][ifolder[n]]
      BY <1>4, <2>1, Typed DEF CommitIngest, IngestOver, vault, MemoryType
    <2>3. QED
      BY <2>2, TreesKept DEF ComesTo, Coming
  <1>5. ASSUME NEW m \in Machines, IngestDies(m) PROVE \A n \in Machines :
    ipc[n] # "idle" /\ ipc'[n] # "idle" => ComesTo(n)
    <2> SUFFICES ASSUME NEW n \in Machines, ipc[n] # "idle", ipc'[n] # "idle" PROVE ComesTo(n)
      OBVIOUS
    <2>1. ifolder[n] \in Folders
      BY DEF Underway
    <2>2. /\ n # m /\ log' = log /\ pos'[n] = pos[n] /\ ifolder'[n] = ifolder[n]
          /\ work'[n][ifolder[n]] = work[n][ifolder[n]]
      BY <1>5, <2>1, Typed DEF IngestDies, IngestOver, vault, MemoryType
    <2>3. QED
      BY <2>2, TreesKept DEF ComesTo, Coming
  <1>6. ASSUME NEW m \in Machines, ReadBookmark(m) PROVE \A n \in Machines :
    ipc[n] # "idle" /\ ipc'[n] # "idle" => ComesTo(n)
    BY <1>6, TreesKept DEF ReadBookmark, SGoto, Over, IsAncestor, vault,
      graph, ingest, slocal
  <1>7. ASSUME NEW m \in Machines, Plan(m) PROVE \A n \in Machines : ipc[n] #
    "idle" /\ ipc'[n] # "idle" => ComesTo(n)
    BY <1>7, TreesKept DEF Plan, SGoto, vault, graph, ingest, slocal
  <1>8. ASSUME NEW m \in Machines, Applied(m) PROVE \A n \in Machines : ipc[n]
    # "idle" /\ ipc'[n] # "idle" => ComesTo(n)
    BY <1>8, TreesKept DEF Applied, SGoto, vault, graph, ingest, slocal
  <1>9. ASSUME NEW m \in Machines, Advance(m) PROVE \A n \in Machines : ipc[n]
    # "idle" /\ ipc'[n] # "idle" => ComesTo(n)
    BY <1>9, TreesKept DEF Advance, Over, NewBookmark, vault, graph, ingest,
      slocal
  <1>10. ASSUME NEW m \in Machines, Fail(m) PROVE \A n \in Machines : ipc[n] #
    "idle" /\ ipc'[n] # "idle" => ComesTo(n)
    BY <1>10, TreesKept DEF Fail, Over, vault, graph, ingest, slocal
  <1>11. ASSUME NEW m \in Machines, NEW f \in Folders, Remove(m, f) PROVE \A n
    \in Machines : ipc[n] # "idle" /\ ipc'[n] # "idle" => ComesTo(n)
    <2> SUFFICES ASSUME NEW n \in Machines, ipc[n] # "idle", ipc'[n] # "idle" PROVE ComesTo(n)
      OBVIOUS
    <2>1. ifolder[n] \in Folders
      BY DEF Underway
    <2>2. n # m
      BY <1>11 DEF Remove
    <2>3. /\ log' = log /\ pos' = pos /\ ifolder' = ifolder
          /\ work'[n][ifolder[n]] = work[n][ifolder[n]]
      BY <1>11, <2>1, <2>2, RemoveAt
    <2>4. QED
      BY <2>3, TreesKept DEF ComesTo, Coming
  <1>12. ASSUME NEW m \in Machines, NEW f \in Folders, Stage(m, f) PROVE \A n
    \in Machines : ipc[n] # "idle" /\ ipc'[n] # "idle" => ComesTo(n)
    <2> SUFFICES ASSUME NEW n \in Machines, ipc[n] # "idle", ipc'[n] # "idle" PROVE ComesTo(n)
      OBVIOUS
    <2>1. ifolder[n] \in Folders
      BY DEF Underway
    <2>2. /\ n # m /\ log' = log /\ pos'[n] = pos[n] /\ ifolder'[n] = ifolder[n]
          /\ work'[n][ifolder[n]] = work[n][ifolder[n]]
      BY <1>12, <2>1, StageAt DEF Stage
    <2>3. QED
      BY <2>2, TreesKept DEF ComesTo, Coming
  <1>13. ASSUME NEW m \in Machines, NEW f \in Folders, Replay(m, f) PROVE \A n
    \in Machines : ipc[n] # "idle" /\ ipc'[n] # "idle" => ComesTo(n)
    BY <1>13, TreesKept DEF Replay, Replaced, Owe, Collect, vault, graph,
      ingest, slocal
  <1>14. ASSUME NEW m \in Machines, NEW scope \in Scopes, Begin(m, scope)
    PROVE \A n \in Machines : ipc[n] # "idle" /\ ipc'[n] # "idle" =>
    ComesTo(n)
    BY <1>14, TreesKept DEF Begin, SGoto, Turn, vault, graph, ingest, slocal
  <1>15. ASSUME NEW m \in Machines, NEW d \in Docs, Retract(m, d) PROVE \A n
    \in Machines : ipc[n] # "idle" /\ ipc'[n] # "idle" => ComesTo(n)
    BY <1>15, TreesKept DEF Retract, Replaced, Owe, Collect, vault, graph,
      ingest, slocal
  <1>16. ASSUME NEW m \in Machines, NEW k \in Keys, Rebuild(m, k) PROVE \A n
    \in Machines : ipc[n] # "idle" /\ ipc'[n] # "idle" => ComesTo(n)
    BY <1>16, TreesKept DEF Rebuild, vault, graph, ingest, slocal
  <1>17. CASE UNCHANGED vars
    BY <1>17, TreesKept DEF vars, vault, graph, ingest, slocal
  <1>18. QED
    BY <1>1, <1>2, <1>3, <1>4, <1>5, <1>6, <1>7, <1>8, <1>9, <1>10, <1>11,
      <1>12, <1>13, <1>14, <1>15, <1>16, <1>17 DEF Next

(* The graph's reach does not grow meanwhile, but by what the sync of the  *)
(* machine itself was to reach.                                            *)
LEMMA ReachStep ==
    ASSUME TypeOK, OneBusy, [Next]_vars, NEW n \in Machines, ipc[n] # "idle",
           NEW b \in Nat, Reach(n, b)'
    PROVE  Reach(n, b) /\ b \in Commits
  <1>1. bookmark[GraphOf[n]] \in Commits /\ shead[n] \in Commits /\ GraphOf[n] \in Graphs
    BY Typed, GraphAssumption DEF GraphType, HeadsType
  <1>2. ASSUME b <= bookmark'[GraphOf[n]] PROVE Reach(n, b)
    <2>1. CASE bookmark'[GraphOf[n]] = bookmark[GraphOf[n]]
      BY <1>2, <2>1 DEF Reach
    <2>2. CASE bookmark'[GraphOf[n]] # bookmark[GraphOf[n]]
      <3>1. PICK m \in Machines : /\ Advance(m) /\ GraphOf[n] = GraphOf[m]
                                  /\ bookmark'[GraphOf[n]] = shead[m]
        BY <1>1, <2>2, BookmarkMoved
      <3>2. spc[m] # "idle"
        BY <3>1 DEF Advance
      <3>3. m = n
        BY <3>1, <3>2 DEF OneBusy, Busy
      <3>4. QED
        BY <1>2, <3>1, <3>2, <3>3 DEF Reach
    <2>3. QED
      BY <2>1, <2>2
  <1>3. ASSUME spc'[n] # "idle", b <= shead'[n] PROVE Reach(n, b)
    <2>1. ~\E s \in Scopes : Begin(n, s)
      BY DEF Begin
    <2>2. spc[n] # "idle" /\ shead'[n] = shead[n]
      BY <1>3, <2>1, HeadIsStep DEF HeadIs
    <2>3. QED
      BY <1>3, <2>2 DEF Reach
  <1>4. Reach(n, b)
    BY <1>2, <1>3 DEF Reach
  <1>5. QED
    BY <1>1, <1>4 DEF Reach, Commits

(* Ahead.                                                                  *)
LEMMA AheadStep ==
    ASSUME TypeOK, Extracted, Underway, ~HalfRenames, Fresh, OneDirty, OneBusy, Ahead, [Next]_vars
    PROVE  Ahead'
  <1> SUFFICES ASSUME NEW n \in Machines, ipc'[n] # "idle", NEW v \in Nat \ {0}, Coming(n, v)',
                      NEW b \in Commits', NEW h \in Folders, Reach(n, b)', DocOf[h] = Doc(n)'
               PROVE  Tree(b)'[h] < v
    BY DEF Ahead, NewTo
  <1>1. b \in Nat
    BY HistoryKept DEF Commits
  <1>2. CASE ipc[n] # "idle"
    <2>1. ComesTo(n) /\ Doc(n)' = Doc(n)
      BY <1>2, ComingStep DEF ComesTo, Doc
    <2>2. Reach(n, b) /\ b \in Commits
      BY <1>1, <1>2, ReachStep
    <2>3. Tree(b)' = Tree(b)
      BY <2>2, HistoryKept
    <2>4. CASE Coming(n, v)
      BY <1>2, <2>1, <2>2, <2>3, <2>4 DEF Ahead, NewTo
    <2>5. CASE Newest(Doc(n), v)
      BY <2>1, <2>2, <2>3, <2>5 DEF Newest
    <2>6. QED
      BY <2>1, <2>4, <2>5 DEF ComesTo
  <1>3. ASSUME NEW f \in Folders, Stage(n, f) PROVE Tree(b)'[h] < v
    <2>1. /\ log' = log /\ pos'[n] = Len(log) /\ ifolder'[n] = f
          /\ work'[n][f] = made[DocOf[f]] + 1
      <3>1. pos[n] = Len(log)
        BY <1>3 DEF Stage, AtTip
      <3>2. QED
        BY <1>3, <3>1, StageAt
    <2>2. ~\E c \in Commits : Len(log) < c
      BY VaultTyped DEF Commits, VaultType
    <2>3. v = made[DocOf[f]] + 1
      BY <2>1, <2>2, TreesKept DEF Coming
    <2>4. DocOf[h] = DocOf[f] /\ b \in Commits /\ Tree(b)' = Tree(b)
      BY <2>1, TreesKept DEF Doc
    <2>5. QED
      BY <2>3, <2>4, VaultTyped, FolderAssumption DEF Extracted, VaultType
  <1>4. QED
    BY <1>2, <1>3, StagesStep

(* What a commit has of a document.                                        *)
LEMMA AtIs ==
    ASSUME NEW c, NEW d
    PROVE  \A v : v \in At(c, d) <=> v # 0 /\ \E f \in Folders : DocOf[f] = d /\ v = Tree(c)[f]
  BY DEF At

(* No two versions of a document in one commit,                            *)
LEMMA Alone ==
    ASSUME Single, NEW c \in Commits, NEW d, NEW v \in At(c, d), NEW w \in At(c, d)
    PROVE  v = w
  <1>1. PICK f \in Folders : DocOf[f] = d /\ v = Tree(c)[f] /\ v # 0
    BY AtIs
  <1>2. PICK h \in Folders : DocOf[h] = d /\ w = Tree(c)[h] /\ w # 0
    BY AtIs
  <1>3. f = h
    BY <1>1, <1>2 DEF Single
  <1>4. QED
    BY <1>1, <1>2, <1>3

(* and none that goes and comes back.                                      *)
LEMMA Convex ==
    ASSUME NoReturn, OneFolder, NEW x \in Commits, NEW y \in Commits, NEW z \in Commits,
           x <= y, y <= z, NEW d, NEW v \in At(x, d), v \in At(z, d)
    PROVE  v \in At(y, d)
  <1>1. PICK f \in Folders : DocOf[f] = d /\ v = Tree(x)[f] /\ v # 0
    BY AtIs
  <1>2. PICK h \in Folders : DocOf[h] = d /\ v = Tree(z)[h] /\ v # 0
    BY AtIs
  <1>3. Tree(x)[f] # 0 /\ Tree(x)[f] = Tree(z)[h] /\ DocOf[f] = DocOf[h]
    BY <1>1, <1>2
  <1>4. f = h
    BY <1>3 DEF OneFolder
  <1>5. Tree(y)[f] = Tree(x)[f]
    BY <1>3, <1>4 DEF NoReturn
  <1>6. QED
    BY <1>1, <1>5, AtIs

(* Bookmarks only move forward.                                            *)
LEMMA BookmarkStep ==
    ASSUME TypeOK, Pinned, [Next]_vars, NEW g \in Graphs
    PROVE  /\ bookmark[g] <= bookmark'[g] /\ bookmark[g] \in Commits
           /\ bookmark'[g] \in Commits /\ bookmark'[g] \in Nat
  <1>1. bookmark[g] \in Commits /\ bookmark[g] \in Nat
    BY Typed DEF GraphType, Commits
  <1>2. ASSUME bookmark'[g] # bookmark[g]
        PROVE  bookmark[g] <= bookmark'[g] /\ bookmark'[g] \in Commits /\ bookmark'[g] \in Nat
    <2>1. PICK m \in Machines : Advance(m) /\ g = GraphOf[m] /\ bookmark'[g] = shead[m]
      BY <1>2, BookmarkMoved
    <2>2. smark[m] = bookmark[g]
      BY <2>1 DEF Advance, Pinned
    <2>3. QED
      BY <2>1, <2>2, Typed DEF HeadsType, Commits
  <1>3. QED
    BY <1>1, <1>2

(* A version that has been in what every graph has applied.                *)
Synced(d, v) ==
    \A g \in Graphs : \E c \in Commits : c <= bookmark[g] /\ v \in At(c, d)

(* That stays so.                                                          *)
LEMMA SyncedStep ==
    ASSUME TypeOK, Pinned, [Next]_vars, NEW d \in Docs, NEW v, Synced(d, v)
    PROVE  Synced(d, v)'
  <1> SUFFICES ASSUME NEW g \in Graphs
               PROVE  \E c \in Commits' : c <= bookmark'[g] /\ v \in At(c, d)'
    BY DEF Synced
  <1>1. PICK c \in Commits : c <= bookmark[g] /\ v \in At(c, d)
    BY DEF Synced
  <1>2. c \in Commits' /\ v \in At(c, d)'
    BY <1>1, HistoryKept
  <1>3. c <= bookmark'[g]
    BY <1>1, BookmarkStep DEF Commits
  <1>4. QED
    BY <1>2, <1>3

(* A working tree has no folder of the document.                           *)
Without(m, d) == \A f \in Folders : DocOf[f] = d => work[m][f] = 0

(* A version of a document that has no folder any more is one that every   *)
(* graph has had.                                                          *)
RemovedLate ==
    \A d \in Docs, b \in Commits : \A v \in At(b, d) :
       /\ \A c \in Commits : b <= c /\ At(c, d) = {} => Synced(d, v)
       /\ \A m \in Machines : pos[m] = Len(log) /\ Without(m, d) => Synced(d, v)

(* It is so of what somebody has just removed.                             *)
LEMMA RemovedSynced ==
    ASSUME TypeOK, ~RemoveEarly, NoReturn, OneFolder, Single,
           NEW m \in Machines, NEW f \in Folders, Remove(m, f),
           NEW b \in Commits, NEW v \in At(b, DocOf[f])
    PROVE  Synced(DocOf[f], v)
  <1> DEFINE d == DocOf[f]  w == work[m][f]  tip == Len(log)
  <1>1. /\ w # 0 /\ work[m] = Tree(tip) /\ tip \in Commits /\ b \in Nat /\ b <= tip
        /\ \A g \in Graphs : w \in At(bookmark[g], d)
    BY VaultTyped DEF Remove, AtTip, Dirty, VaultType, Commits
  <1>2. w \in At(tip, d)
    BY <1>1, AtIs
  <1>3. ASSUME NEW g \in Graphs
        PROVE  \E c \in Commits : c <= bookmark[g] /\ v \in At(c, d)
    <2>1. bookmark[g] \in Commits /\ bookmark[g] \in Nat
      BY Typed DEF GraphType, Commits
    <2>2. CASE b <= bookmark[g]
      BY <2>2
    <2>3. CASE ~(b <= bookmark[g])
      <3>1. bookmark[g] <= b /\ w \in At(bookmark[g], d)
        BY <1>1, <2>1, <2>3
      <3>2. w \in At(b, d)
        BY <1>1, <1>2, <2>1, <3>1, Convex
      <3>3. v = w
        BY <3>2, Alone
      <3>4. QED
        BY <2>1, <3>1, <3>3
    <2>4. QED
      BY <2>2, <2>3
  <1>4. QED
    BY <1>3 DEF Synced

(* A clone at the tip without the document was so before the step, or the  *)
(* tip is, or the document has just been removed.                          *)
Loses(n, d) ==
    \/ pos[n] = Len(log) /\ Without(n, d)
    \/ At(Len(log), d) = {}
    \/ \E f \in Folders : DocOf[f] = d /\ Remove(n, f)

(* Loses.                                                                  *)
LEMMA LosesStep ==
    ASSUME TypeOK, Underway, Half, [Next]_vars
    PROVE  \A n \in Machines, e \in Docs : pos'[n] = Len(log') /\ Without(n, e)' => Loses(n, e)
  <1> USE DEF Without, Loses
  <1>1. ASSUME NEW m \in Machines, AutoCommit(m) PROVE \A n \in Machines, e
    \in Docs : pos'[n] = Len(log') /\ Without(n, e)' => Loses(n, e)
    <2> SUFFICES ASSUME NEW n \in Machines, NEW e \in Docs, pos'[n] = Len(log'), Without(n, e)'
                 PROVE  Loses(n, e)
      OBVIOUS
    <2>1. pos[m] = Len(log) /\ work' = work /\ Len(log') = Len(log) + 1 /\ Len(log) \in Nat
      BY <1>1, AutoCommitAt, VaultTyped DEF AutoCommit, VaultType
    <2>2. n = m
      BY <1>1, <2>1, AutoCommitAt, VaultTyped DEF VaultType, Commits
    <2>3. QED
      BY <2>1, <2>2
  <1>2. ASSUME NEW m \in Machines, Pull(m) PROVE \A n \in Machines, e \in Docs
    : pos'[n] = Len(log') /\ Without(n, e)' => Loses(n, e)
    <2> SUFFICES ASSUME NEW n \in Machines, NEW e \in Docs, pos'[n] = Len(log'), Without(n, e)'
                 PROVE  Loses(n, e)
      OBVIOUS
    <2>1. CASE n = m
      <3>1. work'[n] = Tree(Len(log))
        BY <1>2, <2>1, PullAt
      <3>2. QED
        BY <3>1, AtIs
    <2>2. CASE n # m
      BY <1>2, <2>2, PullAt
    <2>3. QED
      BY <2>1, <2>2
  <1>3. ASSUME NEW m \in Machines, RemoveSuperseded(m) PROVE \A n \in
    Machines, e \in Docs : pos'[n] = Len(log') /\ Without(n, e)' => Loses(n,
    e)
    <2> SUFFICES ASSUME NEW n \in Machines, NEW e \in Docs, pos'[n] = Len(log'), Without(n, e)'
                 PROVE  Loses(n, e)
      OBVIOUS
    <2>1. CASE n = m /\ e = Doc(m)
      <3>1. ifolder[m] \in Folders /\ work[m][ifolder[m]] # 0 /\ DocOf[ifolder[m]] = e
        BY <1>3, <2>1 DEF Half, Underway, RemoveSuperseded, Doc
      <3>2. work'[m][ifolder[m]] = work[m][ifolder[m]]
        BY <1>3, <3>1, RemoveSupersededAt
      <3>3. QED
        BY <2>1, <3>1, <3>2
    <2>2. CASE ~(n = m /\ e = Doc(m))
      <3>1. \A h \in Folders : DocOf[h] = e => work'[n][h] = work[n][h]
        BY <1>3, <2>2, RemoveSupersededAt
      <3>2. QED
        BY <1>3, <3>1, RemoveSupersededAt
    <2>3. QED
      BY <2>1, <2>2
  <1>4. ASSUME NEW m \in Machines, CommitIngest(m) PROVE \A n \in Machines, e
    \in Docs : pos'[n] = Len(log') /\ Without(n, e)' => Loses(n, e)
    BY <1>4, TreesKept DEF CommitIngest, Replaced, IngestOver, vault, graph,
      ingest, slocal
  <1>5. ASSUME NEW m \in Machines, IngestDies(m) PROVE \A n \in Machines, e
    \in Docs : pos'[n] = Len(log') /\ Without(n, e)' => Loses(n, e)
    BY <1>5, TreesKept DEF IngestDies, IngestOver, vault, graph, ingest,
      slocal
  <1>6. ASSUME NEW m \in Machines, ReadBookmark(m) PROVE \A n \in Machines, e
    \in Docs : pos'[n] = Len(log') /\ Without(n, e)' => Loses(n, e)
    BY <1>6, TreesKept DEF ReadBookmark, SGoto, Over, IsAncestor, vault,
      graph, ingest, slocal
  <1>7. ASSUME NEW m \in Machines, Plan(m) PROVE \A n \in Machines, e \in Docs
    : pos'[n] = Len(log') /\ Without(n, e)' => Loses(n, e)
    BY <1>7, TreesKept DEF Plan, SGoto, vault, graph, ingest, slocal
  <1>8. ASSUME NEW m \in Machines, Applied(m) PROVE \A n \in Machines, e \in
    Docs : pos'[n] = Len(log') /\ Without(n, e)' => Loses(n, e)
    BY <1>8, TreesKept DEF Applied, SGoto, vault, graph, ingest, slocal
  <1>9. ASSUME NEW m \in Machines, Advance(m) PROVE \A n \in Machines, e \in
    Docs : pos'[n] = Len(log') /\ Without(n, e)' => Loses(n, e)
    BY <1>9, TreesKept DEF Advance, Over, NewBookmark, vault, graph, ingest,
      slocal
  <1>10. ASSUME NEW m \in Machines, Fail(m) PROVE \A n \in Machines, e \in
    Docs : pos'[n] = Len(log') /\ Without(n, e)' => Loses(n, e)
    BY <1>10, TreesKept DEF Fail, Over, vault, graph, ingest, slocal
  <1>11. ASSUME NEW m \in Machines, NEW f \in Folders, Remove(m, f) PROVE \A n
    \in Machines, e \in Docs : pos'[n] = Len(log') /\ Without(n, e)' =>
    Loses(n, e)
    <2> SUFFICES ASSUME NEW n \in Machines, NEW e \in Docs, pos'[n] = Len(log'), Without(n, e)'
                 PROVE  Loses(n, e)
      OBVIOUS
    <2>1. CASE n = m /\ e = DocOf[f]
      BY <1>11, <2>1
    <2>2. CASE ~(n = m /\ e = DocOf[f])
      <3>1. \A h \in Folders : DocOf[h] = e => work'[n][h] = work[n][h]
        BY <1>11, <2>2, RemoveAt
      <3>2. QED
        BY <1>11, <3>1, RemoveAt
    <2>3. QED
      BY <2>1, <2>2
  <1>12. ASSUME NEW m \in Machines, NEW f \in Folders, Stage(m, f) PROVE \A n
    \in Machines, e \in Docs : pos'[n] = Len(log') /\ Without(n, e)' =>
    Loses(n, e)
    <2> SUFFICES ASSUME NEW n \in Machines, NEW e \in Docs, pos'[n] = Len(log'), Without(n, e)'
                 PROVE  Loses(n, e)
      OBVIOUS
    <2>1. \A h \in Folders : work'[n][h] = IF n = m /\ h = f THEN made[DocOf[f]] + 1
                                           ELSE work[n][h]
      BY <1>12, StageAt
    <2>2. ~(n = m /\ e = DocOf[f])
      <3>1. made[DocOf[f]] + 1 # 0
        BY VaultTyped, FolderAssumption DEF VaultType
      <3>2. QED
        BY <2>1, <3>1
    <2>3. \A h \in Folders : DocOf[h] = e => work'[n][h] = work[n][h]
      BY <2>1, <2>2
    <2>4. QED
      BY <1>12, <2>3, StageAt
  <1>13. ASSUME NEW m \in Machines, NEW f \in Folders, Replay(m, f) PROVE \A n
    \in Machines, e \in Docs : pos'[n] = Len(log') /\ Without(n, e)' =>
    Loses(n, e)
    BY <1>13, TreesKept DEF Replay, Replaced, Owe, Collect, vault, graph,
      ingest, slocal
  <1>14. ASSUME NEW m \in Machines, NEW scope \in Scopes, Begin(m, scope)
    PROVE \A n \in Machines, e \in Docs : pos'[n] = Len(log') /\ Without(n,
    e)' => Loses(n, e)
    BY <1>14, TreesKept DEF Begin, SGoto, Turn, vault, graph, ingest, slocal
  <1>15. ASSUME NEW m \in Machines, NEW d \in Docs, Retract(m, d) PROVE \A n
    \in Machines, e \in Docs : pos'[n] = Len(log') /\ Without(n, e)' =>
    Loses(n, e)
    BY <1>15, TreesKept DEF Retract, Replaced, Owe, Collect, vault, graph,
      ingest, slocal
  <1>16. ASSUME NEW m \in Machines, NEW k \in Keys, Rebuild(m, k) PROVE \A n
    \in Machines, e \in Docs : pos'[n] = Len(log') /\ Without(n, e)' =>
    Loses(n, e)
    BY <1>16, TreesKept DEF Rebuild, vault, graph, ingest, slocal
  <1>17. CASE UNCHANGED vars
    BY <1>17, TreesKept DEF vars, vault, graph, ingest, slocal
  <1>18. QED
    BY <1>1, <1>2, <1>3, <1>4, <1>5, <1>6, <1>7, <1>8, <1>9, <1>10, <1>11,
      <1>12, <1>13, <1>14, <1>15, <1>16, <1>17 DEF Next

(* RemovedLate.                                                            *)
LEMMA RemovedLateStep ==
    ASSUME TypeOK, Underway, ~RemoveEarly, Pinned, NoReturn, OneFolder, Single, Half,
           RemovedLate, [Next]_vars
    PROVE  RemovedLate'
  <1> SUFFICES ASSUME NEW d \in Docs, NEW b \in Commits', NEW v \in At(b, d)'
               PROVE  /\ \A c \in Commits' : b <= c /\ At(c, d)' = {} => Synced(d, v)'
                      /\ \A m \in Machines :
                            pos'[m] = Len(log') /\ Without(m, d)' => Synced(d, v)'
    BY DEF RemovedLate
  <1>1. /\ Len(log) \in Commits /\ Len(log) \in Nat /\ Commits = 0 .. Len(log)
        /\ Len(log) <= Len(log') /\ Len(log') \in Nat /\ Commits' = 0 .. Len(log')
    BY VaultTyped, HistoryKept DEF VaultType, Commits
  <1>2. ASSUME b \in Commits PROVE v \in At(b, d)
    BY <1>2, HistoryKept
  <1>3. ASSUME NEW m \in Machines, b \in Commits, Loses(m, d) PROVE Synced(d, v)
    <2>1. CASE pos[m] = Len(log) /\ Without(m, d)
      BY <1>2, <1>3, <2>1 DEF RemovedLate
    <2>2. CASE At(Len(log), d) = {}
      BY <1>1, <1>2, <1>3, <2>2 DEF RemovedLate
    <2>3. ASSUME NEW f \in Folders, DocOf[f] = d, Remove(m, f) PROVE Synced(d, v)
      BY <1>2, <1>3, <2>3, RemovedSynced
    <2>4. QED
      BY <1>3, <2>1, <2>2, <2>3 DEF Loses
  <1>4. ASSUME NEW c \in Commits', b <= c, At(c, d)' = {} PROVE Synced(d, v)'
    <2>1. b # c
      BY <1>4
    <2>2. CASE c \in Commits
      <3>1. b \in Commits /\ At(c, d) = {}
        BY <1>1, <1>4, <2>2, HistoryKept
      <3>2. Synced(d, v)
        BY <1>2, <1>4, <2>2, <3>1 DEF RemovedLate
      <3>3. QED
        BY <3>2, SyncedStep
    <2>3. ASSUME NEW m \in Machines, AutoCommit(m), c = Len(log) + 1, Tree(c)' = work[m]
          PROVE  Synced(d, v)'
      <3>1. b \in Commits /\ pos[m] = Len(log)
        BY <1>1, <1>4, <2>1, <2>3 DEF AutoCommit
      <3>2. Without(m, d)
        BY <1>4, <2>3 DEF At, Without
      <3>3. Synced(d, v)
        BY <1>2, <3>1, <3>2 DEF RemovedLate
      <3>4. QED
        BY <3>3, SyncedStep
    <2>4. QED
      BY <2>2, <2>3, TreeStep DEF TreeIs
  <1>5. ASSUME NEW m \in Machines, pos'[m] = Len(log'), Without(m, d)' PROVE Synced(d, v)'
    <2>1. Loses(m, d)
      BY <1>5, LosesStep
    <2>2. CASE b \in Commits
      BY <1>3, <2>1, <2>2, SyncedStep
    <2>3. ASSUME NEW n \in Machines, AutoCommit(n), b = Len(log) + 1, Tree(b)' = work[n]
          PROVE  FALSE
      <3>1. m = n /\ work' = work
        BY <1>1, <1>5, <2>3, AutoCommitAt, VaultTyped DEF VaultType
      <3>2. QED
        BY <1>5, <2>3, <3>1 DEF At, Without
    <2>4. QED
      BY <2>2, <2>3, TreeStep DEF TreeIs
  <1>6. QED
    BY <1>4, <1>5

-----------------------------------------------------------------------------

(* A document of a graph is as commit c says: not older, and not absent    *)
(* where c and every later commit have it.                                 *)
Good(c, d, v) == ~Outdated(c, d, v) /\ ~Missing(c, d, v)

(* A sync of the whole vault that has its plan leaves every document as    *)
(* its head says, or still has to.                                         *)
Settled ==
    \A m \in Machines : spc[m] \in {"apply", "rebuild"} /\ sscope[m] = Folders =>
       \A d \in Docs : Good(shead[m], d, live[GraphOf[m]][d]) \/ Pending(m, d)

(* What is good stays good.                                                *)
LEMMA GoodStep ==
    ASSUME TypeOK, [Next]_vars, NEW c \in Commits, NEW d \in Docs, NEW v, Good(c, d, v)
    PROVE  Good(c, d, v)'
  <1>1. /\ c \in Nat /\ Len(log) \in Nat /\ Len(log') \in Nat /\ Len(log) <= Len(log')
        /\ c <= Len(log) /\ \A b \in 0 .. Len(log) : At(b, d)' = At(b, d)
    BY VaultTyped, HistoryKept DEF VaultType, Commits
  <1>2. ~Outdated(c, d, v)'
    BY <1>1 DEF Good, Outdated
  <1>3. ~Missing(c, d, v)'
    BY <1>1 DEF Good, Missing
  <1>4. QED
    BY <1>2, <1>3 DEF Good

(* What a commit has is good there.                                        *)
LEMMA GoodThere ==
    ASSUME NEW c, NEW d, NEW v \in At(c, d) PROVE Good(c, d, v)
  BY AtIs DEF Good, Outdated, Missing

(* So is nothing, of a document that a commit from c on has not.           *)
LEMMA GoodAbsent ==
    ASSUME TypeOK, NEW c \in Commits, NEW h \in Commits, c <= h, NEW d, At(h, d) = {}
    PROVE  Good(c, d, 0)
  <1>1. h \in c .. Len(log)
    BY VaultTyped DEF Commits, VaultType
  <1>2. \A b : 0 \notin At(b, d)
    BY AtIs
  <1>3. QED
    BY <1>1, <1>2 DEF Good, Outdated, Missing

(* And what is newer than every commit up to c.                            *)
LEMMA GoodNewer ==
    ASSUME TypeOK, NEW c \in Commits, NEW d, NEW v \in Nat \ {0},
           \A b \in Commits, h \in Folders : b <= c /\ DocOf[h] = d => Tree(b)[h] < v
    PROVE  Good(c, d, v)
  <1>1. ASSUME NEW b \in 1 .. c, v \in At(b, d) PROVE FALSE
    <2>1. b \in Commits /\ b <= c
      BY VaultTyped DEF VaultType, Commits
    <2>2. PICK f \in Folders : DocOf[f] = d /\ v = Tree(b)[f]
      BY <1>1, AtIs
    <2>3. v < v
      BY <2>1, <2>2
    <2>4. QED
      BY <2>3
  <1>2. QED
    BY <1>1 DEF Good, Outdated, Missing

(* A plan made from what the bookmark says covers what its head says: a    *)
(* document that is neither replayed nor retracted is as the head has it.  *)
LEMMA PlanCovers ==
    ASSUME TypeOK, NoReturn, OneFolder, Single, RemovedLate, BookmarkReflects,
           NEW m \in Machines, NEW d \in Docs, sscope[m] = Folders,
           smark[m] = bookmark[GraphOf[m]],
           d \notin Retracts(m), \A f \in Replays(m) : DocOf[f] # d
    PROVE  Good(shead[m], d, live[GraphOf[m]][d])
  <1> DEFINE h == shead[m]  c == smark[m]  v == live[GraphOf[m]][d]
  <1>1. /\ h \in Commits /\ c \in Commits /\ c <= h /\ h \in Nat /\ c \in Nat
        /\ GraphOf[m] \in Graphs /\ Len(log) \in Nat /\ h <= Len(log)
    BY Typed, VaultTyped, GraphAssumption DEF HeadsType, VaultType, Commits
  <1>2. c # 0 => Good(c, d, v)
    BY <1>1 DEF BookmarkReflects, Good
  <1>3. ASSUME NEW f \in Folders, DocOf[f] = d, Tree(h)[f] # 0, Tree(h)[f] # v
        PROVE  Tree(c)[f] = Tree(h)[f] /\ c # 0
    <2>1. Tree(c)[f] = Tree(h)[f]
      BY <1>3 DEF Replays, DiffOf, Unchanged
    <2>2. QED
      BY <1>3, <2>1 DEF Tree, NoFolders
  <1>4. ASSUME Missing(h, d, v) PROVE FALSE
    <2>1. v = 0 /\ \A b \in h .. Len(log) : At(b, d) # {}
      BY <1>4 DEF Missing
    <2>2. At(h, d) # {}
      BY <1>1, <2>1
    <2>3. PICK f \in Folders : DocOf[f] = d /\ Tree(h)[f] # 0
      BY <2>2 DEF At
    <2>4. Tree(c)[f] = Tree(h)[f] /\ c # 0
      BY <1>3, <2>1, <2>3
    <2>5. PICK b \in c .. Len(log) : At(b, d) = {}
      BY <1>2, <2>1, <2>4 DEF Good, Missing
    <2>6. b \in Commits /\ b \in Nat /\ ~(h <= b)
      BY <1>1, <2>1, <2>5 DEF Commits
    <2>7. Tree(h)[f] \in At(h, d) /\ Tree(h)[f] \in At(c, d)
      BY <2>3, <2>4, AtIs
    <2>8. c <= b /\ b <= h
      BY <1>1, <2>5, <2>6
    <2>9. Tree(h)[f] \in At(b, d)
      BY <1>1, <2>6, <2>7, <2>8, Convex
    <2>10. QED
      BY <2>5, <2>9
  <1>5. ASSUME Outdated(h, d, v) PROVE FALSE
    <2>1. PICK b \in 1 .. h : v \in At(b, d) /\ v \notin At(h, d)
      BY <1>5 DEF Outdated
    <2>2. b \in Commits /\ b \in Nat /\ b <= h /\ b # h
      BY <1>1, <2>1 DEF Commits
    <2>3. ASSUME At(h, d) # {} PROVE FALSE
      <3>1. PICK f \in Folders : DocOf[f] = d /\ Tree(h)[f] # 0
        BY <2>3 DEF At
      <3>2. Tree(h)[f] \in At(h, d) /\ Tree(h)[f] # v
        BY <2>1, <3>1, AtIs
      <3>3. Tree(c)[f] = Tree(h)[f] /\ c # 0
        BY <1>3, <3>1, <3>2
      <3>4. Tree(h)[f] \in At(c, d)
        BY <3>1, <3>3, AtIs
      <3>5. v \notin At(c, d)
        BY <1>1, <3>2, <3>4, Alone
      <3>6. ~(b <= c)
        BY <1>1, <1>2, <2>1, <3>3, <3>5 DEF Good, Outdated
      <3>7. Tree(h)[f] \in At(b, d)
        <4>1. c <= b
          BY <1>1, <2>2, <3>6
        <4>2. QED
          BY <1>1, <2>2, <3>2, <3>4, <4>1, Convex
      <3>8. QED
        BY <2>1, <2>2, <3>2, <3>7, Alone
    <2>4. CASE At(h, d) = {}
      <3>1. ASSUME At(c, d) # {} PROVE FALSE
        <4>1. PICK f \in Folders : DocOf[f] = d /\ Tree(c)[f] # 0
          BY <3>1 DEF At
        <4>2. Tree(h)[f] = 0
          BY <2>4, <4>1 DEF At
        <4>3. f \in DiffOf(m)
          BY <4>1, <4>2 DEF DiffOf
        <4>4. QED
          BY <2>4, <4>1, <4>2, <4>3 DEF Retracts
      <3>2. Synced(d, v)
        BY <1>1, <2>1, <2>2, <2>4 DEF RemovedLate
      <3>3. PICK x \in Commits : x <= c /\ v \in At(x, d)
        BY <1>1, <3>2 DEF Synced
      <3>4. x # 0
        BY <3>3, AtIs DEF Tree, NoFolders
      <3>5. x \in 1 .. c /\ c # 0
        BY <1>1, <3>3, <3>4 DEF Commits
      <3>6. v \notin At(c, d)
        BY <3>1
      <3>7. QED
        BY <1>2, <3>3, <3>5, <3>6 DEF Good, Outdated
    <2>5. QED
      BY <2>3, <2>4
  <1>6. QED
    BY <1>4, <1>5 DEF Good


(* Who made another version of a document the live one, and which.         *)
WrittenBy(m, d, v) ==
    \/ CommitIngest(m) /\ d = Doc(m) /\ v = work[m][ifolder[m]]
    \/ \E f \in Folders : Replay(m, f) /\ d = DocOf[f] /\ v = Tree(shead[m])[f]
    \/ Retract(m, d) /\ v = 0
LiveIs(g, d) ==
    \/ live'[g][d] = live[g][d]
    \/ \E m \in Machines : GraphOf[m] = g /\ WrittenBy(m, d, live'[g][d])

(* LiveIs.                                                                 *)
LEMMA LiveStep ==
    ASSUME TypeOK, Underway, [Next]_vars
    PROVE  \A g \in Graphs, e \in Docs : LiveIs(g, e)
  <1> USE DEF LiveIs
  <1>1. ASSUME NEW m \in Machines, AutoCommit(m) PROVE \A g \in Graphs, e \in
    Docs : LiveIs(g, e)
    BY <1>1 DEF AutoCommit, Dirty, vault, graph, ingest, slocal
  <1>2. ASSUME NEW m \in Machines, Pull(m) PROVE \A g \in Graphs, e \in Docs :
    LiveIs(g, e)
    BY <1>2 DEF Pull, vault, graph, ingest, slocal
  <1>3. ASSUME NEW m \in Machines, RemoveSuperseded(m) PROVE \A g \in Graphs,
    e \in Docs : LiveIs(g, e)
    BY <1>3 DEF RemoveSuperseded, vault, graph, ingest, slocal
  <1>4. ASSUME NEW m \in Machines, CommitIngest(m) PROVE \A g \in Graphs, e
    \in Docs : LiveIs(g, e)
    <2> SUFFICES ASSUME NEW g \in Graphs, NEW e \in Docs PROVE LiveIs(g, e)
      OBVIOUS
    <2>1. /\ Replaced(GraphOf[m], Doc(m), work[m][ifolder[m]])
          /\ GraphOf[m] \in Graphs /\ Doc(m) \in Docs
      BY <1>4, GraphAssumption, FolderAssumption DEF CommitIngest, Underway, Doc
    <2>2. CASE g = GraphOf[m] /\ e = Doc(m)
      BY <1>4, <2>1, <2>2, ReplacedAt DEF WrittenBy
    <2>3. CASE ~(g = GraphOf[m] /\ e = Doc(m))
      BY <2>1, <2>3, ReplacedAt
    <2>4. QED
      BY <2>2, <2>3
  <1>5. ASSUME NEW m \in Machines, IngestDies(m) PROVE \A g \in Graphs, e \in
    Docs : LiveIs(g, e)
    BY <1>5 DEF IngestDies, IngestOver, vault, graph, ingest, slocal
  <1>6. ASSUME NEW m \in Machines, ReadBookmark(m) PROVE \A g \in Graphs, e
    \in Docs : LiveIs(g, e)
    BY <1>6 DEF ReadBookmark, SGoto, Over, IsAncestor, vault, graph, ingest,
      slocal
  <1>7. ASSUME NEW m \in Machines, Plan(m) PROVE \A g \in Graphs, e \in Docs :
    LiveIs(g, e)
    BY <1>7 DEF Plan, SGoto, vault, graph, ingest, slocal
  <1>8. ASSUME NEW m \in Machines, Applied(m) PROVE \A g \in Graphs, e \in
    Docs : LiveIs(g, e)
    BY <1>8 DEF Applied, SGoto, vault, graph, ingest, slocal
  <1>9. ASSUME NEW m \in Machines, Advance(m) PROVE \A g \in Graphs, e \in
    Docs : LiveIs(g, e)
    BY <1>9 DEF Advance, Over, NewBookmark, vault, graph, ingest, slocal
  <1>10. ASSUME NEW m \in Machines, Fail(m) PROVE \A g \in Graphs, e \in Docs
    : LiveIs(g, e)
    BY <1>10 DEF Fail, Over, vault, graph, ingest, slocal
  <1>11. ASSUME NEW m \in Machines, NEW f \in Folders, Remove(m, f) PROVE \A g
    \in Graphs, e \in Docs : LiveIs(g, e)
    BY <1>11 DEF Remove, AtTip, vault, graph, ingest, slocal
  <1>12. ASSUME NEW m \in Machines, NEW f \in Folders, Stage(m, f) PROVE \A g
    \in Graphs, e \in Docs : LiveIs(g, e)
    BY <1>12 DEF Stage, AtTip, Turn, vault, graph, ingest, slocal
  <1>13. ASSUME NEW m \in Machines, NEW f \in Folders, Replay(m, f) PROVE \A g
    \in Graphs, e \in Docs : LiveIs(g, e)
    <2> SUFFICES ASSUME NEW g \in Graphs, NEW e \in Docs PROVE LiveIs(g, e)
      OBVIOUS
    <2>1. /\ Replaced(GraphOf[m], DocOf[f], Tree(shead[m])[f])
          /\ GraphOf[m] \in Graphs /\ DocOf[f] \in Docs
      BY <1>13, GraphAssumption, FolderAssumption DEF Replay
    <2>2. CASE g = GraphOf[m] /\ e = DocOf[f]
      BY <1>13, <2>1, <2>2, ReplacedAt DEF WrittenBy
    <2>3. CASE ~(g = GraphOf[m] /\ e = DocOf[f])
      BY <2>1, <2>3, ReplacedAt
    <2>4. QED
      BY <2>2, <2>3
  <1>14. ASSUME NEW m \in Machines, NEW scope \in Scopes, Begin(m, scope)
    PROVE \A g \in Graphs, e \in Docs : LiveIs(g, e)
    BY <1>14 DEF Begin, SGoto, Turn, vault, graph, ingest, slocal
  <1>15. ASSUME NEW m \in Machines, NEW d \in Docs, Retract(m, d) PROVE \A g
    \in Graphs, e \in Docs : LiveIs(g, e)
    <2> SUFFICES ASSUME NEW g \in Graphs, NEW e \in Docs PROVE LiveIs(g, e)
      OBVIOUS
    <2>1. Replaced(GraphOf[m], d, 0) /\ GraphOf[m] \in Graphs /\ d \in Docs
      BY <1>15, GraphAssumption, FolderAssumption DEF Retract
    <2>2. CASE g = GraphOf[m] /\ e = d
      BY <1>15, <2>1, <2>2, ReplacedAt DEF WrittenBy
    <2>3. CASE ~(g = GraphOf[m] /\ e = d)
      BY <2>1, <2>3, ReplacedAt
    <2>4. QED
      BY <2>2, <2>3
  <1>16. ASSUME NEW m \in Machines, NEW k \in Keys, Rebuild(m, k) PROVE \A g
    \in Graphs, e \in Docs : LiveIs(g, e)
    BY <1>16 DEF Rebuild, vault, graph, ingest, slocal
  <1>17. CASE UNCHANGED vars
    BY <1>17 DEF vars, vault, graph, ingest, slocal
  <1>18. QED
    BY <1>1, <1>2, <1>3, <1>4, <1>5, <1>6, <1>7, <1>8, <1>9, <1>10, <1>11,
      <1>12, <1>13, <1>14, <1>15, <1>16, <1>17 DEF Next

(* What a sync replays is good for its head,                               *)
LEMMA GoodReplayed ==
    ASSUME Base, NEW m \in Machines, NEW f \in Folders, Replay(m, f)
    PROVE  Good(shead[m], DocOf[f], Tree(shead[m])[f])
  <1>1. Tree(shead[m])[f] # 0
    BY DEF Base, Planned, Replay
  <1>2. Tree(shead[m])[f] \in At(shead[m], DocOf[f])
    BY <1>1 DEF At
  <1>3. QED
    BY <1>2, GoodThere

(* and for the bookmark it started from;                                   *)
LEMMA GoodEarlier ==
    ASSUME Base, NoReturn, OneFolder, NEW m \in Machines, NEW f \in Folders, Replay(m, f)
    PROVE  Good(smark[m], DocOf[f], Tree(shead[m])[f])
  <1> DEFINE c == smark[m]  h == shead[m]  d == DocOf[f]  v == Tree(shead[m])[f]
  <1>1. TypeOK /\ v # 0
    BY DEF Base, Planned, Replay
  <1>2. c \in Commits /\ h \in Commits /\ c <= h /\ c \in Nat /\ Len(log) \in Nat
    BY <1>1, Typed, VaultTyped DEF HeadsType, Commits, VaultType
  <1>3. v \in At(h, d)
    BY <1>1 DEF At
  <1>4. ASSUME NEW b \in 1 .. c, v \in At(b, d) PROVE v \in At(c, d)
    <2>1. b \in Commits /\ b <= c
      BY <1>2 DEF Commits
    <2>2. QED
      BY <1>2, <1>3, <1>4, <2>1, Convex
  <1>5. QED
    BY <1>1, <1>4 DEF Good, Outdated, Missing

(* what it retracts is good for every commit up to its head;               *)
LEMMA GoodRetracted ==
    ASSUME Base, NEW m \in Machines, NEW d \in Docs, Retract(m, d),
           NEW c \in Commits, c <= shead[m]
    PROVE  Good(c, d, 0)
  <1>1. At(shead[m], d) = {}
    BY DEF Base, Planned, Retract
  <1>2. TypeOK /\ shead[m] \in Commits
    BY Typed DEF Base, HeadsType, Commits
  <1>3. QED
    BY <1>1, <1>2, GoodAbsent

(* and what an ingest commits, for every commit the graph may get to have. *)
LEMMA GoodIngested ==
    ASSUME Base, Ahead, NEW m \in Machines, CommitIngest(m),
           NEW c \in Commits, Reach(m, c)
    PROVE  Good(c, Doc(m), work[m][ifolder[m]])
  <1> DEFINE v == work[m][ifolder[m]]
  <1>1. TypeOK /\ ipc[m] # "idle" /\ v # 0 /\ ifolder[m] \in Folders /\ GraphOf[m] \in Graphs
    BY GraphAssumption DEF Base, Underway, CommitIngest
  <1>2. v \in Nat \ {0}
    BY <1>1, VaultTyped DEF VaultType
  <1>3. Coming(m, v)
    BY DEF Coming
  <1>4. NewTo(m, v)
    BY <1>1, <1>2, <1>3 DEF Ahead
  <1>5. /\ bookmark[GraphOf[m]] \in Nat /\ shead[m] \in Nat /\ c \in Nat
        /\ \A b \in Commits : b \in Nat
    BY <1>1, Typed, VaultTyped DEF GraphType, HeadsType, Commits, VaultType
  <1>6. \A b \in Commits : b <= c => Reach(m, b)
    BY <1>5 DEF Reach
  <1>7. \A b \in Commits, h \in Folders : b <= c /\ DocOf[h] = Doc(m) => Tree(b)[h] < v
    BY <1>4, <1>6 DEF NewTo
  <1>8. QED
    BY <1>1, <1>2, <1>7, GoodNewer

(* A plan that is carried out leaves what it covers good.                  *)
LEMMA SettledNext ==
    ASSUME Base, OneBusy, Ahead, NEW n \in Machines, NEW d \in Docs, [Next]_vars,
           Proceeds(n), spc[n] \in {"apply", "rebuild"},
           Good(shead[n], d, live[GraphOf[n]][d]) \/ Pending(n, d)
    PROVE  Good(shead[n], d, live'[GraphOf[n]][d]) \/ Pending(n, d)'
  <1> DEFINE g == GraphOf[n]
  <1>1. /\ TypeOK /\ Underway /\ g \in Graphs /\ spc[n] # "idle" /\ shead[n] \in Commits
        /\ shead[n] \in Nat
    BY GraphAssumption, Typed DEF Base, HeadsType, Commits
  <1>2. ASSUME NEW f \in Folders, Replay(n, f), DocOf[f] = d
        PROVE  Good(shead[n], d, live'[g][d])
    <2>1. Replaced(g, d, Tree(shead[n])[f])
      BY <1>2 DEF Replay
    <2>2. live'[g][d] = Tree(shead[n])[f]
      BY <1>1, <2>1, ReplacedAt
    <2>3. QED
      BY <1>2, <2>2, GoodReplayed
  <1>3. ASSUME Retract(n, d) PROVE Good(shead[n], d, live'[g][d])
    <2>1. Replaced(g, d, 0)
      BY <1>3 DEF Retract
    <2>2. live'[g][d] = 0
      BY <1>1, <2>1, ReplacedAt
    <2>3. QED
      BY <1>1, <1>3, <2>2, GoodRetracted
  <1>4. ASSUME live'[g][d] # live[g][d] PROVE Good(shead[n], d, live'[g][d])
    <2>1. PICK m \in Machines : GraphOf[m] = g /\ WrittenBy(m, d, live'[g][d])
      BY <1>1, <1>4, LiveStep DEF LiveIs
    <2>2. Busy(m) /\ Busy(n)
      BY <1>1, <2>1 DEF WrittenBy, Busy, CommitIngest, Replay, Retract
    <2>3. m = n
      BY <2>1, <2>2 DEF OneBusy
    <2>4. CASE CommitIngest(n) /\ d = Doc(n) /\ live'[g][d] = work[n][ifolder[n]]
      <3>1. Reach(n, shead[n])
        BY <1>1 DEF Reach
      <3>2. QED
        BY <1>1, <2>4, <3>1, GoodIngested
    <2>5. QED
      BY <1>2, <1>3, <2>1, <2>3, <2>4 DEF WrittenBy
  <1>5. ASSUME live'[g][d] = live[g][d], Pending(n, d)
        PROVE  Good(shead[n], d, live'[g][d]) \/ Pending(n, d)'
    <2>1. ASSUME NEW f \in Folders, Replay(n, f), DocOf[f] # d PROVE Pending(n, d)'
      <3>1. sreplay'[n] = sreplay[n] \ {f} /\ sretract'[n] = sretract[n]
        BY <1>1, <2>1, Typed DEF Replay, MemoryType
      <3>2. QED
        BY <1>5, <2>1, <3>1 DEF Pending
    <2>2. ASSUME NEW e \in Docs, Retract(n, e), e # d PROVE Pending(n, d)'
      <3>1. sreplay'[n] = sreplay[n] /\ sretract'[n] = sretract[n] \ {e}
        BY <1>1, <2>2, Typed DEF Retract, MemoryType
      <3>2. QED
        BY <1>5, <2>2, <3>1 DEF Pending
    <2>3. ASSUME NEW k \in Keys, Rebuild(n, k) PROVE Pending(n, d)'
      BY <1>5, <2>3 DEF Rebuild, Pending
    <2>4. CASE sreplay'[n] = sreplay[n] /\ sretract'[n] = sretract[n]
      BY <1>5, <2>4 DEF Pending
    <2>5. ~Plan(n)
      BY <1>1 DEF Plan, SGoto
    <2>6. QED
      BY <1>2, <1>3, <2>1, <2>2, <2>3, <2>4, <2>5 DEF Proceeds
  <1>6. QED
    BY <1>4, <1>5

(* Settled.                                                                *)
LEMMA SettledStep ==
    ASSUME Base, NoReturn, OneFolder, Single, RemovedLate, Pinned, OneBusy, Ahead, Settled,
           BookmarkReflects, [Next]_vars
    PROVE  Settled'
  <1> SUFFICES ASSUME NEW n \in Machines, spc'[n] \in {"apply", "rebuild"}, sscope'[n] = Folders,
                      NEW d \in Docs
               PROVE  Good(shead[n], d, live[GraphOf[n]][d])' \/ Pending(n, d)'
    BY DEF Settled
  <1> DEFINE g == GraphOf[n]
  <1>1. TypeOK /\ g \in Graphs /\ shead[n] \in Commits
    BY GraphAssumption, Typed DEF Base, HeadsType, Commits
  <1>2. sscope[n] = Folders /\ shead'[n] = shead[n] /\ Proceeds(n)
    BY <1>1, ProceedsStep DEF Proceeds
  <1>3. ASSUME Plan(n) PROVE Good(shead[n], d, live'[g][d]) \/ Pending(n, d)'
    <2>1. smark[n] = bookmark[g] /\ live' = live
      BY <1>3 DEF Pinned, Plan, SGoto, graph
    <2>2. sreplay'[n] = Replays(n) /\ sretract'[n] = Retracts(n)
      BY <1>1, <1>3, Typed DEF Plan, MemoryType
    <2>3. ASSUME d \in Retracts(n) \/ \E f \in Replays(n) : DocOf[f] = d PROVE Pending(n, d)'
      BY <2>2, <2>3 DEF Pending
    <2>4. ASSUME d \notin Retracts(n), \A f \in Replays(n) : DocOf[f] # d
          PROVE  Good(shead[n], d, live[g][d])
      BY <1>1, <1>2, <2>1, <2>4, PlanCovers
    <2>5. QED
      BY <2>1, <2>3, <2>4
  <1>4. Good(shead[n], d, live'[g][d]) \/ Pending(n, d)'
    <2>1. CASE spc[n] \in {"apply", "rebuild"}
      <3>1. Good(shead[n], d, live[g][d]) \/ Pending(n, d)
        BY <1>2, <2>1 DEF Settled
      <3>2. QED
        BY <1>2, <2>1, <3>1, SettledNext
    <2>2. QED
      BY <1>2, <1>3, <2>1 DEF Proceeds
  <1>5. PICK c \in Commits : c = shead[n]
    BY <1>1
  <1>6. PICK v : v = live'[g][d]
    OBVIOUS
  <1>7. Good(c, d, v) => Good(c, d, v)'
    BY <1>1, GoodStep
  <1>8. QED
    BY <1>2, <1>4, <1>5, <1>6, <1>7

(* BookmarkReflects.                                                       *)
LEMMA BookmarkReflectsStep ==
    ASSUME Base, NoReturn, OneFolder, Pinned, Ahead, Settled, BookmarkReflects, [Next]_vars
    PROVE  BookmarkReflects'
  <1> SUFFICES ASSUME NEW g \in Graphs, bookmark'[g] # 0, NEW d \in Docs
               PROVE  Good(bookmark[g], d, live[g][d])'
    BY DEF BookmarkReflects, Good
  <1>1. TypeOK /\ Underway /\ bookmark[g] \in Commits /\ bookmark[g] \in Nat
    BY Typed DEF Base, GraphType, Commits
  <1>2. ASSUME bookmark'[g] # bookmark[g]
        PROVE  bookmark'[g] \in Commits /\ Good(bookmark'[g], d, live'[g][d])
    <2>1. PICK m \in Machines : /\ Advance(m) /\ g = GraphOf[m] /\ sscope[m] = Folders
                                /\ bookmark'[g] = shead[m]
      BY <1>1, <1>2, BookmarkMoved
    <2>2. spc[m] = "rebuild" /\ live' = live
      BY <2>1 DEF Advance
    <2>3. ~Pending(m, d)
      BY <1>1, <2>2 DEF Underway, Pending
    <2>4. Good(shead[m], d, live[g][d])
      BY <2>1, <2>2, <2>3 DEF Settled
    <2>5. shead[m] \in Commits
      BY <1>1, Typed DEF HeadsType, Commits
    <2>6. QED
      BY <2>1, <2>2, <2>4, <2>5
  <1>3. ASSUME bookmark'[g] = bookmark[g] PROVE Good(bookmark[g], d, live'[g][d])
    <2>1. CASE live'[g][d] = live[g][d]
      BY <1>3, <2>1 DEF BookmarkReflects, Good
    <2>2. ASSUME NEW m \in Machines, GraphOf[m] = g, CommitIngest(m), d = Doc(m),
                 live'[g][d] = work[m][ifolder[m]]
          PROVE  Good(bookmark[g], d, live'[g][d])
      <3>1. Reach(m, bookmark[g])
        BY <1>1, <2>2 DEF Reach
      <3>2. QED
        BY <1>1, <2>2, <3>1, GoodIngested
    <2>3. ASSUME NEW m \in Machines, GraphOf[m] = g, NEW f \in Folders, Replay(m, f),
                 d = DocOf[f], live'[g][d] = Tree(shead[m])[f]
          PROVE  Good(bookmark[g], d, live'[g][d])
      <3>1. smark[m] = bookmark[g]
        BY <2>3 DEF Replay, Pinned
      <3>2. QED
        BY <2>3, <3>1, GoodEarlier
    <2>4. ASSUME NEW m \in Machines, GraphOf[m] = g, Retract(m, d), live'[g][d] = 0
          PROVE  Good(bookmark[g], d, live'[g][d])
      <3>1. smark[m] = bookmark[g] /\ smark[m] <= shead[m]
        BY <1>1, <2>4, Typed DEF Retract, Pinned, HeadsType
      <3>2. QED
        BY <1>1, <2>4, <3>1, GoodRetracted
    <2>5. QED
      BY <1>1, <2>1, <2>2, <2>3, <2>4, LiveStep DEF LiveIs, WrittenBy
  <1>4. PICK c \in Commits : c = bookmark'[g] /\ Good(c, d, live'[g][d])
    BY <1>1, <1>2, <1>3
  <1>5. PICK v : v = live'[g][d]
    OBVIOUS
  <1>6. Good(c, d, v)'
    BY <1>1, <1>4, <1>5, GoodStep
  <1>7. QED
    BY <1>4, <1>5, <1>6

(* At the start.                                                           *)
LEMMA ReflectsInit ==
    ASSUME Init
    PROVE  /\ OneBusy /\ Single /\ OneFolder /\ OneDirty /\ Half /\ Ahead /\ RemovedLate
           /\ Settled /\ BookmarkReflects
  <1>1. Commits = {0} /\ Tree(0) = NoFolders
    BY DEF Init, Commits, Tree
  <1>2. OneBusy /\ Half /\ Ahead /\ Settled
    BY DEF Init, OneBusy, Busy, Half, Ahead, Settled
  <1>3. Single /\ OneFolder
    BY <1>1 DEF Init, NoFolders, Single, OneFolder
  <1>4. OneDirty
    BY <1>1 DEF Init, OneDirty, Dirty
  <1>5. \A d : At(0, d) = {}
    BY <1>1 DEF At, NoFolders
  <1>6. RemovedLate
    BY <1>1, <1>5 DEF RemovedLate
  <1>7. BookmarkReflects
    BY DEF Init, BookmarkReflects
  <1>8. QED
    BY <1>2, <1>3, <1>4, <1>6, <1>7

(* For any machines, graphs, documents, folders, scopes and bounds, where  *)
(* no rename is committed half-way, no version is removed before every     *)
(* graph has had it, and the machines of a graph ingest and sync in turn:  *)
(* whatever syncs, ingests, pulls and failures led there, no document of a *)
(* graph is older than its bookmark says, and none the bookmark has is     *)
(* absent.                                                                 *)
THEOREM Reflects == ASSUME Careful PROVE Spec => []BookmarkReflects
  <1> DEFINE Inv == /\ Base /\ Fresh /\ NoReturn /\ OneBusy /\ Pinned /\ Single /\ OneFolder
                    /\ OneDirty /\ Half /\ Ahead /\ RemovedLate /\ Settled /\ BookmarkReflects
  <1>1. ~HalfRenames /\ ~RemoveEarly /\ WritesInTurn
    BY DEF Careful
  <1>2. ASSUME Inv, [Next]_vars PROVE Inv'
    <2>1. TypeOK /\ Extracted /\ Underway
      BY <1>2 DEF Base
    <2>2. Base' /\ Fresh' /\ NoReturn' /\ OneBusy'
      BY <1>1, <1>2, <2>1, BaseStep, FreshStep, NoReturnStep, OneBusyStep
    <2>3. OneSync
      BY <1>2 DEF OneBusy, OneSync, Busy
    <2>4. Pinned'
      BY <1>2, <2>1, <2>3, PinnedStep
    <2>5. Single' /\ OneFolder'
      BY <1>1, <1>2, <2>1, SingleStep, OneFolderStep
    <2>6. OneDirty' /\ Half'
      BY <1>1, <1>2, <2>1, OneDirtyStep, HalfStep DEF Half, HalfOf
    <2>7. Ahead'
      BY <1>1, <1>2, <2>1, AheadStep
    <2>8. RemovedLate'
      BY <1>1, <1>2, <2>1, RemovedLateStep
    <2>9. Settled' /\ BookmarkReflects'
      BY <1>2, SettledStep, BookmarkReflectsStep
    <2>10. QED
      BY <2>2, <2>4, <2>5, <2>6, <2>7, <2>8, <2>9
  <1>3. Init => Inv
    BY BaseInit, GhostInit, ReflectsInit
  <1>4. QED
    BY <1>2, <1>3, PTL DEF Spec
=============================================================================
