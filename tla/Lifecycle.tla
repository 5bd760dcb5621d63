------------------------------ MODULE Lifecycle ------------------------------
(***************************************************************************)
(* The retirement of a document, and how it travels between machines: the  *)
(* `lifecycle` curation records (lifecycle_records.py), `docs retire` and  *)
(* `docs restore` (lifecycle.py), and what an ingest and `vault sync`      *)
(* (track C) make of them.                                                 *)
(*                                                                         *)
(* There is one document: records of different documents never meet.  A    *)
(* tree of the vault is its staging folder, as the version it holds, and   *)
(* whether there is a record retiring it.  Unlike in VaultSync, clones     *)
(* diverge: Obsidian Git commits on each and merges file by file.  Of a    *)
(* graph are kept the label of the document's node, the version whose      *)
(* fingerprint it has and whether it carries the mark of the record.       *)
(***************************************************************************)
EXTENDS Naturals, Sequences, FiniteSetsExt, Functions

CONSTANTS
  Machines, Graphs,
  GraphOf,         \* the graph of each machine
  Unsynced,        \* may a clone that is not where its graph is commit the document to it?
  RestoreGone,     \* may `docs restore` bring back a document that has no folder?
  RetireGone,      \* may a document without a folder be retired, or a retired one removed?
  MayFail,         \* may a graph write of retire or restore, or a sync, fail?
  Overtake,        \* may a clone pull while it syncs, or commit before a sync that failed is run again?
  Crossed,         \* may the document be retired, restored or removed while another machine
                   \* has work to sync, or commits this one has not pulled?
  Regret,          \* may a retirement fail that takes back a restoration no sync has seen?
  MaxVersions,     \* bound: versions ever extracted
  MaxCommits,      \* bound: commits in the vault
  MaxCommands      \* bound: retirements and restorations asked for

Tree == [folder : 0..MaxVersions, record : BOOLEAN]
\* What a sync does to a graph, in its order: track A, track C, the bookmark.
Stages == <<{"replay", "retract"}, {"apply", "remove"}, {"advance"}>>
Steps == UNION Range(Stages)
Place(step) == CHOOSE i \in DOMAIN Stages : step \in Stages[i]

ASSUME ConstantsAssumption ==
  /\ GraphOf \in [Machines -> Graphs]
  /\ {Unsynced, RestoreGone, RetireGone, MayFail, Overtake, Crossed, Regret} \subseteq BOOLEAN
  /\ MaxVersions \in Nat \ {0} /\ MaxCommits \in Nat \ {0} /\ MaxCommands \in Nat

VARIABLES
  log,        \* every commit: its tree and its ancestors, itself included
  head,       \* HEAD of each clone
  tip,        \* the head of the shared remote
  work,       \* each working tree
  made,       \* versions extracted so far
  label,      \* [Graphs -> label of the document's node]
  version,    \* [Graphs -> version it was committed from]
  mark,       \* [Graphs -> does it carry the record's mark?]
  bookmark,   \* [Graphs -> last_applied_commit]
  sync,       \* the sync of each machine: the steps left of it, base and head
  raised,     \* machines whose last `docs restore` raised
  commands

vault == <<log, head, tip, work, made>>
graph == <<label, version, mark, bookmark>>
vars == <<vault, graph, sync, raised, commands>>

Idle == [todo |-> <<>>, base |-> 1, head |-> 1]
At(c) == log[c].tree
Dirty(m) == work[m] # At(head[m])
Synced(m) == ~Dirty(m) /\ head[m] = bookmark[GraphOf[m]]
Failed(m) == sync[m].todo = <<>> /\ sync[m] # Idle
MovesOn(m) == Overtake \/ ~Failed(m)
First == [folder |-> 1, record |-> FALSE]

TypeOK ==
  /\ log \in Seq([tree : Tree, before : SUBSET Nat]) /\ Len(log) \in 1..MaxCommits
  /\ \A c \in DOMAIN log :
       /\ c \in log[c].before /\ log[c].before \subseteq 1..c
       /\ \A b \in log[c].before : log[b].before \subseteq log[c].before
  /\ head \in [Machines -> DOMAIN log] /\ tip \in DOMAIN log
  /\ work \in [Machines -> Tree] /\ made \in 1..MaxVersions
  /\ label \in [Graphs -> {"live", "history"}]
  /\ version \in [Graphs -> 1..made]
  /\ mark \in [Graphs -> BOOLEAN]
  /\ bookmark \in [Graphs -> DOMAIN log]
  /\ sync \in [Machines -> [todo : Seq(Steps), base : Nat, head : Nat]]
  /\ \A m \in Machines :
       /\ sync[m].base \in log[sync[m].head].before
       /\ sync[m].head \in log[head[m]].before
       /\ \A i \in DOMAIN sync[m].todo : \A j \in 1..(i - 1) :
            Place(sync[m].todo[j]) < Place(sync[m].todo[i])
  /\ raised \subseteq Machines /\ commands \in 0..MaxCommands

\* Every machine has the first version, synced into its graph.
Init ==
  /\ log = <<[tree |-> First, before |-> {1}]>>
  /\ head = [m \in Machines |-> 1] /\ tip = 1
  /\ work = [m \in Machines |-> First] /\ made = 1
  /\ label = [g \in Graphs |-> "live"] /\ version = [g \in Graphs |-> 1]
  /\ mark = [g \in Graphs |-> FALSE] /\ bookmark = [g \in Graphs |-> 1]
  /\ sync = [m \in Machines |-> Idle]
  /\ raised = {} /\ commands = 0

----------------------------------------------------------------------------
\* The vault: Obsidian Git, and a user who removes the document.

NewCommit(m, t, before) ==
  /\ Len(log) < MaxCommits
  /\ log' = Append(log, [tree |-> t, before |-> before \union {Len(log) + 1}])
  /\ head' = [head EXCEPT ![m] = Len(log) + 1]

AutoCommit(m) ==
  /\ Dirty(m) /\ MovesOn(m)
  /\ NewCommit(m, work[m], log[head[m]].before)
  /\ UNCHANGED <<tip, work, made, graph, sync, raised, commands>>

\* One file of a merge: the side that changed it since the merge base wins,
\* and two different changes are a conflict.
Mergeable(base, ours, theirs) == ours = theirs \/ ours = base \/ theirs = base
MergedFile(base, ours, theirs) == IF ours = base THEN theirs ELSE ours

\* Pull, merge and push, of a clone with nothing uncommitted.
Exchange(m) ==
  LET ours   == At(head[m])
      theirs == At(tip)
      base   == At(Max(log[head[m]].before \intersect log[tip].before))
      merged == [folder |-> MergedFile(base.folder, ours.folder, theirs.folder),
                 record |-> MergedFile(base.record, ours.record, theirs.record)]
  IN  /\ ~Dirty(m) /\ head[m] # tip
      /\ Overtake \/ sync[m] = Idle
      /\ UNCHANGED <<made, graph, sync, raised, commands>>
      /\ \/ /\ head[m] \in log[tip].before
            /\ head' = [head EXCEPT ![m] = tip]
            /\ work' = [work EXCEPT ![m] = theirs]
            /\ UNCHANGED <<log, tip>>
         \/ /\ tip \in log[head[m]].before
            /\ tip' = head[m]
            /\ UNCHANGED <<log, head, work>>
         \/ /\ head[m] \notin log[tip].before /\ tip \notin log[head[m]].before
            /\ Mergeable(base.folder, ours.folder, theirs.folder)
            /\ NewCommit(m, merged, log[head[m]].before \union log[tip].before)
            /\ work' = [work EXCEPT ![m] = merged]
            /\ tip' = Len(log) + 1

Alone(m) == \A n \in Machines \ {m} : Synced(n) /\ head[n] \in log[head[m]].before

\* A document is removed only once every graph's bookmark has it: VaultSync
\* says why (RemoveEarly).
Remove(m) ==
  /\ work[m].folder # 0 /\ Synced(m)
  /\ Crossed \/ Alone(m)
  /\ RetireGone \/ ~work[m].record
  /\ \A g \in Graphs : At(bookmark[g]).folder # 0
  /\ work' = [work EXCEPT ![m].folder = 0]
  /\ UNCHANGED <<log, head, tip, made, graph, sync, raised, commands>>

----------------------------------------------------------------------------
\* The graph's side of one transaction each.

ToHistory(g) == label' = [label EXCEPT ![g] = "history"]
ToLatest(g) == label' = [label EXCEPT ![g] = "live"]

\* _commit_document_tx on machine m: the node is revived and keeps its
\* properties, and goes back to history when m's working tree, which need not
\* be what is committed, has the record.
CommitsDocument(m, v) ==
  /\ IF work[m].record THEN ToHistory(GraphOf[m]) ELSE ToLatest(GraphOf[m])
  /\ version' = [version EXCEPT ![GraphOf[m]] = v]

\* lifecycle_records.apply, and the second half of `docs retire`.
Retires(g) == ToHistory(g) /\ mark' = [mark EXCEPT ![g] = TRUE]

\* lifecycle_records.remove: only what this record retired comes back.
Unretires(g) ==
  IF label[g] = "history" /\ mark[g]
  THEN ToLatest(g) /\ mark' = [mark EXCEPT ![g] = FALSE]
  ELSE UNCHANGED <<label, mark>>

\* retract_document: what is retracted is no longer retired by a record.
\* Seeded fault: the mark stays.
RetractsMarked(g) == ToHistory(g) /\ UNCHANGED mark
Retracts(g) == ToHistory(g) /\ mark' = [mark EXCEPT ![g] = FALSE]

----------------------------------------------------------------------------
\* Commands.

\* An ingest stages a new version; committing it to the graph is a step of its
\* own, that may fail and that `ingest write-to-graph` repeats.
Stage(m) ==
  /\ made < MaxVersions
  /\ made' = made + 1
  /\ work' = [work EXCEPT ![m].folder = made + 1]
  /\ UNCHANGED <<log, head, tip, graph, sync, raised, commands>>

CommitDocument(m) ==
  /\ work[m].folder # 0
  /\ Unsynced \/ bookmark[GraphOf[m]] = head[m]
  /\ CommitsDocument(m, work[m].folder)
  /\ UNCHANGED <<vault, mark, bookmark, sync, raised, commands>>

Command(m) ==
  /\ commands < MaxCommands /\ commands' = commands + 1
  /\ Crossed \/ Alone(m)

\* The record is written first: if the graph write fails, the next sync has it,
\* unless what it compares with has it too.
Retire(m) ==
  /\ Command(m)
  /\ RetireGone \/ work[m].folder # 0
  /\ work' = [work EXCEPT ![m].record = TRUE]
  /\ \/ Retires(GraphOf[m]) /\ raised' = raised \ {m}
     \/ /\ MayFail /\ UNCHANGED <<label, mark, raised>>
        /\ Regret \/ \A c \in {bookmark[GraphOf[m]], sync[m].head} : ~At(c).record
  /\ UNCHANGED <<log, head, tip, made, version, bookmark, sync>>

\* The folder in m's working tree, and in the commits m has synced or is to sync.
Folders(m) ==
  {work[m].folder} \union {At(c).folder : c \in {head[m], bookmark[GraphOf[m]], sync[m].head}}

\* The record is deleted first: a restore whose graph write fails has to be
\* given again, because a record that was never committed shows in no diff.
Restore(m) ==
  /\ Command(m)
  /\ RestoreGone \/ 0 \notin Folders(m)
  /\ work' = [work EXCEPT ![m].record = FALSE]
  /\ \/ /\ ToLatest(GraphOf[m]) /\ mark' = [mark EXCEPT ![GraphOf[m]] = FALSE]
        /\ raised' = raised \ {m}
     \/ MayFail /\ raised' = raised \union {m} /\ UNCHANGED <<label, mark>>
  /\ UNCHANGED <<log, head, tip, made, version, bookmark, sync>>

----------------------------------------------------------------------------
\* `vault sync`.

\* Does the graph's live Document have this version's fingerprint?
Unchanged(g, v) == label[g] = "live" /\ version[g] = v

DocumentSteps(g, old, new) ==
  CASE new.folder = 0 /\ old.folder # 0 -> <<"retract">>
    [] new.folder # 0 /\ new.folder # old.folder /\ ~Unchanged(g, new.folder) -> <<"replay">>
    [] OTHER -> <<>>

\* A replay revives the node: the record at head is applied again, whether it
\* changed or not.
CurationSteps(old, new, documents) ==
  CASE new.record /\ (~old.record \/ documents = <<"replay">>) -> <<"apply">>
    [] old.record /\ ~new.record -> <<"remove">>
    [] OTHER -> <<>>

\* Seeded fault: the records are applied before the documents are replayed.
RecordsFirst(documents, records) == records \o documents \o <<"advance">>
Plan(documents, records) == documents \o records \o <<"advance">>

\* The checks, the diff and what the graph already has, read once.
BeginSync(m) ==
  LET g == GraphOf[m]
      old == At(bookmark[g])
      new == At(head[m])
      documents == DocumentSteps(g, old, new)
  IN  /\ sync[m].todo = <<>> /\ bookmark[g] # head[m] /\ bookmark[g] \in log[head[m]].before
      /\ sync' = [sync EXCEPT ![m] =
           [todo |-> Plan(documents, CurationSteps(old, new, documents)),
            base |-> bookmark[g], head |-> head[m]]]
      /\ UNCHANGED <<vault, graph, raised, commands>>

Doing(m, step) ==
  /\ sync[m].todo # <<>> /\ Head(sync[m].todo) = step
  /\ sync' = [sync EXCEPT ![m] = IF step = "advance" THEN Idle ELSE [sync[m] EXCEPT !.todo = Tail(sync[m].todo)]]
  /\ UNCHANGED <<vault, raised, commands>>

Replay(m) ==
  /\ Doing(m, "replay")
  /\ CommitsDocument(m, At(sync[m].head).folder)
  /\ UNCHANGED <<mark, bookmark>>

Retract(m) == Doing(m, "retract") /\ Retracts(GraphOf[m]) /\ UNCHANGED <<version, bookmark>>
ApplyRecord(m) == Doing(m, "apply") /\ Retires(GraphOf[m]) /\ UNCHANGED <<version, bookmark>>
RemoveRecord(m) == Doing(m, "remove") /\ Unretires(GraphOf[m]) /\ UNCHANGED <<version, bookmark>>

Advance(m) ==
  /\ Doing(m, "advance")
  /\ bookmark' = [bookmark EXCEPT ![GraphOf[m]] = sync[m].head]
  /\ UNCHANGED <<label, version, mark>>

\* Nothing is rolled back: what a failed sync wrote stays, below the bookmark.
FailSync(m) ==
  /\ MayFail /\ sync[m].todo # <<>>
  /\ Overtake \/ head[m] = sync[m].head
  /\ sync' = [sync EXCEPT ![m].todo = <<>>]
  /\ UNCHANGED <<vault, graph, raised, commands>>

Next ==
  \E m \in Machines :
    \/ AutoCommit(m) \/ Exchange(m) \/ Remove(m)
    \/ Stage(m) \/ CommitDocument(m) \/ Retire(m) \/ Restore(m)
    \/ BeginSync(m) \/ Replay(m) \/ Retract(m) \/ ApplyRecord(m) \/ RemoveRecord(m)
    \/ Advance(m) \/ FailSync(m)

Spec == Init /\ [][Next]_vars

----------------------------------------------------------------------------
\* Properties.

\* No clone of graph g has anything uncommitted or unsynced, or a restore to
\* give again.
Settled(g) ==
  \A m \in Machines : GraphOf[m] = g =>
    Synced(m) /\ sync[m].todo = <<>> /\ m \notin raised

\* "A retired document therefore stays retired until `docs restore`, whatever
\* order machines ingest, replay and sync in" (lifecycle_records.py:20-22): in a
\* graph whose clones have nothing left to commit or to sync, the document is
\* live, in the version of its folder, exactly when the vault has the folder
\* and no record.
RecordDecides ==
  \A g \in Graphs : Settled(g) =>
    LET t == At(bookmark[g]) IN
    /\ label[g] = "live" <=> t.folder # 0 /\ ~t.record
    /\ label[g] = "live" => version[g] = t.folder
=============================================================================
