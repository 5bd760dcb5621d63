----------------------------- MODULE VaultSync -----------------------------
(***************************************************************************)
(* artmind/vault_sync.py: applying the committed changes of a vault to a   *)
(* graph.  Every machine has a clone of the vault and a graph, which it    *)
(* may share with other machines; the graph keeps the bookmark, the commit *)
(* it reflects, and of each document the fingerprint it was committed from.*)
(*                                                                         *)
(* The vault's history is one line of commits: Obsidian Git merges, and    *)
(* conflicts under .artmind/ are for `vault resolve`, so a machine changes *)
(* its vault only at the tip.  A commit is kept as the staging folders it  *)
(* holds, a folder as the version of its document.  Of the four tracks of  *)
(* a sync this is track A, the documents; same-as groups, curation, tables *)
(* and the structured store are left out.                                  *)
(***************************************************************************)
EXTENDS Naturals, Sequences

CONSTANTS
  Machines, Graphs,
  GraphOf,        \* the graph of each machine
  Docs, Folders, NoFolder,
  DocOf,          \* a staging folder is named after the path of one document
  Scopes,         \* sets of folders: the whole vault, or --domain's
  Keys,           \* aggregate keys, each the projection of one entity
  Asserts,        \* Asserts[d][v]: the keys version v of document d speaks of;
                  \* bound: how many versions of it are ever extracted
  RemoveEarly,    \* may a document be removed before every graph has that version?
  HalfRenames,    \* may the timer commit, or a crash, split a rename?
  MayFail,        \* may a sync fail half-way?
  InTurn,         \* what waits for the other machines of a shared graph
  MaxCommits      \* bound: commits in the vault

ASSUME GraphAssumption == GraphOf \in [Machines -> Graphs]
ASSUME FolderAssumption == DocOf \in [Folders -> Docs]
ASSUME NoFolderAssumption == NoFolder \notin Folders
ASSUME ScopeAssumption == Scopes \subseteq SUBSET Folders /\ Folders \in Scopes
ASSUME AssertsAssumption == Asserts \in [Docs -> Seq(SUBSET Keys)]
ASSUME FlagsAssumption ==
  /\ {RemoveEarly, HalfRenames, MayFail} \subseteq BOOLEAN
  /\ InTurn \subseteq {"ingest", "sync"}
ASSUME BoundAssumption == MaxCommits \in Nat

VARIABLES
  (* the vault                                                             *)
  log,        \* the trees of its commits, oldest first
  pos,        \* HEAD of each clone: how many commits it has
  work,       \* the staging folders in each working tree
  made,       \* how many versions of each document were ever extracted
  (* the graphs                                                            *)
  bookmark,   \* last_applied_commit, 0 while there is none
  live,       \* the version of each document that is :latest, 0 for none
  history,    \* the versions whose observations the graph has, live or not
  stale,      \* <<d, k>>: the entity of k has yet to see document d change
  (* an ingest on each machine, and the folder it writes                   *)
  ipc, ifolder,
  (* a sync on each machine, and its local variables                       *)
  spc, shead, smark, sscope, sreplay, sretract, skeys

vault == <<log, pos, work, made>>
graph == <<bookmark, live, history, stale>>
ingest == <<ipc, ifolder>>
slocal == <<shead, smark, sscope, sreplay, sretract, skeys>>
vars == <<vault, graph, ingest, spc, slocal>>

NoFolders == [f \in Folders |-> 0]
Tree(c) == IF c = 0 THEN NoFolders ELSE log[c]   \* 0: EMPTY_TREE_SHA
At(c, d) == {Tree(c)[f] : f \in {f \in Folders : DocOf[f] = d}} \ {0}
KeysOf(d, vs) == UNION {Asserts[d][v] : v \in vs}
Doc(m) == DocOf[ifolder[m]]
Dirty(m) == work[m] # Tree(pos[m])

TypeOK ==
  /\ log \in Seq([Folders -> Nat])
  /\ pos \in [Machines -> 0..Len(log)]
  /\ work \in [Machines -> [Folders -> Nat]]
  /\ made \in [Docs -> Nat]
  /\ bookmark \in [Graphs -> 0..Len(log)]
  /\ live \in [Graphs -> [Docs -> Nat]]
  /\ history \in [Graphs -> [Docs -> SUBSET Nat]]
  /\ stale \in [Graphs -> SUBSET (Docs \X Keys)]
  /\ ipc \in [Machines -> {"idle", "supersede", "commit"}]
  /\ ifolder \in [Machines -> Folders \cup {NoFolder}]
  /\ spc \in [Machines -> {"idle", "mark", "plan", "apply", "rebuild"}]
  /\ shead \in [Machines -> 0..Len(log)]
  /\ smark \in [Machines -> 0..Len(log)]
  /\ \A m \in Machines : smark[m] <= shead[m]
  /\ sscope \in [Machines -> Scopes]
  /\ sreplay \in [Machines -> SUBSET Folders]
  /\ sretract \in [Machines -> SUBSET Docs]
  /\ skeys \in [Machines -> SUBSET Keys]

Init ==
  /\ log = <<>>
  /\ pos = [m \in Machines |-> 0]
  /\ work = [m \in Machines |-> NoFolders]
  /\ made = [d \in Docs |-> 0]
  /\ bookmark = [g \in Graphs |-> 0]
  /\ live = [g \in Graphs |-> [d \in Docs |-> 0]]
  /\ history = [g \in Graphs |-> [d \in Docs |-> {}]]
  /\ stale = [g \in Graphs |-> {}]
  /\ ipc = [m \in Machines |-> "idle"]
  /\ ifolder = [m \in Machines |-> NoFolder]
  /\ spc = [m \in Machines |-> "idle"]
  /\ shead = [m \in Machines |-> 0]
  /\ smark = [m \in Machines |-> 0]
  /\ sscope = [m \in Machines |-> Folders]
  /\ sreplay = [m \in Machines |-> {}]
  /\ sretract = [m \in Machines |-> {}]
  /\ skeys = [m \in Machines |-> {}]

-----------------------------------------------------------------------------
(***************************************************************************)
(* The vault.                                                              *)
(***************************************************************************)
AtTip(m) == pos[m] = Len(log) /\ \A n \in Machines \ {m} : ~Dirty(n)

(* Nothing in the code makes machines take turns: it is up to their users. *)
Turn(m, what) ==
  what \in InTurn => \A n \in Machines \ {m} :
                       GraphOf[n] = GraphOf[m] => spc[n] = "idle" /\ ipc[n] = "idle"

(* Obsidian Git's timer: whatever is in the working tree is committed.     *)
AutoCommit(m) ==
  /\ Dirty(m) /\ pos[m] = Len(log)
  /\ HalfRenames \/ ipc[m] # "supersede"
  /\ Len(log) < MaxCommits
  /\ log' = Append(log, work[m])
  /\ pos' = [pos EXCEPT ![m] = Len(log) + 1]
  /\ UNCHANGED <<work, made, graph, ingest, spc, slocal>>

Pull(m) ==
  /\ pos[m] < Len(log)
  /\ pos' = [pos EXCEPT ![m] = Len(log)]
  /\ work' = [work EXCEPT ![m] = Tree(Len(log))]
  /\ UNCHANGED <<log, made, graph, ingest, spc, slocal>>

(* Somebody removes the staging folder of a document: unless RemoveEarly,  *)
(* only once the bookmark of every graph has the very version it holds.    *)
Remove(m, f) ==
  /\ AtTip(m) /\ ipc[m] = "idle" /\ work[m][f] # 0 /\ ~Dirty(m)
  /\ RemoveEarly \/ \A g \in Graphs : work[m][f] \in At(bookmark[g], DocOf[f])
  /\ work' = [work EXCEPT ![m][f] = 0]
  /\ UNCHANGED <<log, pos, made, graph, ingest, spc, slocal>>

(***************************************************************************)
(* Ingest: the new version is staged under the name its path has now, the  *)
(* folder it had under another name is removed, and it is committed to the *)
(* graph with its own rebuild.                                             *)
(***************************************************************************)
Stage(m, f) ==
  LET d == DocOf[f] IN
  /\ AtTip(m) /\ Turn(m, "ingest") /\ ipc[m] = "idle" /\ made[d] < Len(Asserts[d])
  /\ made' = [made EXCEPT ![d] = @ + 1]
  /\ work' = [work EXCEPT ![m][f] = made[d] + 1]
  /\ ipc' = [ipc EXCEPT ![m] = "supersede"]
  /\ ifolder' = [ifolder EXCEPT ![m] = f]
  /\ UNCHANGED <<log, pos, graph, spc, slocal>>

RemoveSuperseded(m) ==
  /\ ipc[m] = "supersede"
  /\ work' = [work EXCEPT ![m] =
       [f \in Folders |-> IF DocOf[f] = Doc(m) /\ f # ifolder[m] THEN 0 ELSE @[f]]]
  /\ ipc' = [ipc EXCEPT ![m] = "commit"]
  /\ UNCHANGED <<log, pos, made, graph, ifolder, spc, slocal>>

IngestOver(m) ==
  /\ ipc' = [ipc EXCEPT ![m] = "idle"]
  /\ ifolder' = [ifolder EXCEPT ![m] = NoFolder]

(* What a document's commit and its rebuild are about: the observations it *)
(* brings, and those of every earlier version (keys_for_document).         *)
LatestKeys(g, d) == KeysOf(d, {live[g][d]} \ {0})   \* seeded fault: only what is live
NoPrior(g, d) == {}                                 \* seeded fault: the prior keys missed
PriorKeys(g, d) == KeysOf(d, history[g][d])

(* _commit_document_tx: demote the prior version, write this one.          *)
Replaced(g, d, v) ==
  /\ live' = [live EXCEPT ![g][d] = v]
  /\ history' = [history EXCEPT ![g][d] = @ \cup ({v} \ {0})]

Changed(g, d, v) ==   \* the keys for which that makes a difference
  IF live[g][d] = v THEN {} ELSE KeysOf(d, {live[g][d], v} \ {0})

CommitIngest(m) ==
  LET g == GraphOf[m]  d == Doc(m)  v == work[m][ifolder[m]] IN
  /\ ipc[m] = "commit" /\ v # 0
  /\ Replaced(g, d, v)
  /\ stale' = [stale EXCEPT ![g] =
       {p \in @ : p[2] \notin PriorKeys(g, d) \cup Asserts[d][v]}]
  /\ IngestOver(m)
  /\ UNCHANGED <<vault, bookmark, spc, slocal>>

IngestDies(m) ==
  /\ ipc[m] = "commit" \/ (ipc[m] = "supersede" /\ HalfRenames)
  /\ IngestOver(m)
  /\ UNCHANGED <<vault, graph, spc, slocal>>

-----------------------------------------------------------------------------
(***************************************************************************)
(* One sync.                                                               *)
(***************************************************************************)
SGoto(m, from, to) == spc[m] = from /\ spc' = [spc EXCEPT ![m] = to]

(* The process ends, and with it everything it had in memory.              *)
Over(m) ==
  /\ spc' = [spc EXCEPT ![m] = "idle"]
  /\ shead' = [shead EXCEPT ![m] = 0]
  /\ smark' = [smark EXCEPT ![m] = 0]
  /\ sscope' = [sscope EXCEPT ![m] = Folders]
  /\ sreplay' = [sreplay EXCEPT ![m] = {}]
  /\ sretract' = [sretract EXCEPT ![m] = {}]
  /\ skeys' = [skeys EXCEPT ![m] = {}]

(* head_sha, then preflight: it refuses while an ingest is running.        *)
Begin(m, scope) ==
  /\ SGoto(m, "idle", "mark")
  /\ pos[m] # 0 /\ ipc[m] = "idle"
  /\ Turn(m, "sync")
  /\ shead' = [shead EXCEPT ![m] = pos[m]]
  /\ sscope' = [sscope EXCEPT ![m] = scope]
  /\ UNCHANGED <<vault, graph, ingest, smark, sreplay, sretract, skeys>>

NotAhead(m, c) == TRUE   \* seeded fault: the bookmark is taken as it is
IsAncestor(m, c) == c <= shead[m]

(* The bookmark is where the diff starts: with none recorded, the operator *)
(* passes --bootstrapEmpty and it starts from the empty tree; one that is  *)
(* not in this clone's history is refused.                                 *)
ReadBookmark(m) ==
  LET c == bookmark[GraphOf[m]] IN
  /\ spc[m] = "mark"
  /\ IF IsAncestor(m, c)
     THEN /\ SGoto(m, "mark", "plan")
          /\ smark' = [smark EXCEPT ![m] = c]
          /\ UNCHANGED <<shead, sscope, sreplay, sretract, skeys>>
     ELSE Over(m)
  /\ UNCHANGED <<vault, graph, ingest>>

(***************************************************************************)
(* _classify_kg_diff and drop_unchanged.  A folder that changed is         *)
(* replayed when it is still there, unless the graph has its fingerprint;  *)
(* the document of one that is gone is retracted, unless another folder at *)
(* head still carries it.                                                  *)
(***************************************************************************)
DiffOf(m) ==
  {f \in sscope[m] : Tree(smark[m])[f] # Tree(shead[m])[f]}

Unchanged(m, f) == live[GraphOf[m]][DocOf[f]] = Tree(shead[m])[f]

Replays(m) == {f \in DiffOf(m) : Tree(shead[m])[f] # 0 /\ ~Unchanged(m, f)}

EveryGone(m) == {DocOf[f] : f \in {f \in DiffOf(m) : Tree(shead[m])[f] = 0}}   \* seeded fault
Retracts(m) == {DocOf[f] : f \in {f \in DiffOf(m) :
                  Tree(shead[m])[f] = 0 /\ At(shead[m], DocOf[f]) = {}}}

Plan(m) ==
  /\ SGoto(m, "plan", "apply")
  /\ sreplay' = [sreplay EXCEPT ![m] = Replays(m)]
  /\ sretract' = [sretract EXCEPT ![m] = Retracts(m)]
  /\ skeys' = [skeys EXCEPT ![m] = {}]
  /\ UNCHANGED <<vault, graph, ingest, shead, smark, sscope>>

(* What a deferred commit adds to the union rebuild.                       *)
Collect(m, g, d, v) ==
  skeys' = [skeys EXCEPT ![m] = @ \cup PriorKeys(g, d) \cup KeysOf(d, {v} \ {0})]

Owe(g, d, v) ==
  stale' = [stale EXCEPT ![g] = @ \cup ({d} \X Changed(g, d, v))]

(* Folders are replayed in the order of their names.                       *)
Replay(m, f) ==
  LET g == GraphOf[m]  d == DocOf[f]  v == Tree(shead[m])[f] IN
  /\ spc[m] = "apply" /\ f \in sreplay[m]
  /\ sreplay' = [sreplay EXCEPT ![m] = @ \ {f}]
  /\ Replaced(g, d, v) /\ Owe(g, d, v) /\ Collect(m, g, d, v)
  /\ UNCHANGED <<vault, bookmark, ingest, spc, shead, smark, sscope, sretract>>

(* retract_document: the version that is live goes to history.             *)
Retract(m, d) ==
  LET g == GraphOf[m] IN
  /\ spc[m] = "apply" /\ sreplay[m] = {} /\ d \in sretract[m]
  /\ sretract' = [sretract EXCEPT ![m] = @ \ {d}]
  /\ Replaced(g, d, 0) /\ Owe(g, d, 0) /\ Collect(m, g, d, 0)
  /\ UNCHANGED <<vault, bookmark, ingest, spc, shead, smark, sscope, sreplay>>

Applied(m) ==
  /\ SGoto(m, "apply", "rebuild")
  /\ sreplay[m] = {} /\ sretract[m] = {}
  /\ UNCHANGED <<vault, graph, ingest, slocal>>

(* One batch of the union rebuild.                                         *)
Rebuild(m, k) ==
  LET g == GraphOf[m] IN
  /\ spc[m] = "rebuild" /\ k \in skeys[m]
  /\ skeys' = [skeys EXCEPT ![m] = @ \ {k}]
  /\ stale' = [stale EXCEPT ![g] = {p \in @ : p[2] # k}]
  /\ UNCHANGED <<vault, bookmark, live, history, ingest, spc, shead, smark, sscope,
                 sreplay, sretract>>

Always(m) == shead[m]   \* seeded fault: a --domain run advances too
NewBookmark(m) ==
  IF sscope[m] = Folders THEN shead[m] ELSE bookmark[GraphOf[m]]

Advance(m) ==
  LET g == GraphOf[m] IN
  /\ spc[m] = "rebuild" /\ skeys[m] = {}
  /\ Over(m)
  /\ bookmark' = [bookmark EXCEPT ![g] = IF smark[m] = shead[m] THEN @ ELSE NewBookmark(m)]
  /\ UNCHANGED <<vault, live, history, stale, ingest>>

Fail(m) ==   \* an exception, or a crash
  /\ MayFail /\ spc[m] # "idle"
  /\ Over(m)
  /\ UNCHANGED <<vault, graph, ingest>>

Next ==
  \E m \in Machines :
    \/ AutoCommit(m) \/ Pull(m)
    \/ RemoveSuperseded(m) \/ CommitIngest(m) \/ IngestDies(m)
    \/ ReadBookmark(m) \/ Plan(m) \/ Applied(m) \/ Advance(m) \/ Fail(m)
    \/ \E f \in Folders : Remove(m, f) \/ Stage(m, f) \/ Replay(m, f)
    \/ \E scope \in Scopes : Begin(m, scope)
    \/ \E d \in Docs : Retract(m, d)
    \/ \E k \in Keys : Rebuild(m, k)

Spec == Init /\ [][Next]_vars

-----------------------------------------------------------------------------
(* The graph has version v of d although commit c is past it.              *)
Outdated(c, d, v) == v \notin At(c, d) /\ \E b \in 1..c : v \in At(b, d)

(* A version that c has, or 0 for a document c or a later commit has not.  *)
Missing(c, d, v) == v = 0 /\ \A b \in c..Len(log) : At(b, d) # {}

(* docs/vault.md:523, sync_state.py:7: "this graph reflects that vault's   *)
(* commits up to `last_applied_commit`".  Whatever syncs, ingests, pulls   *)
(* and failures led there, no document of a graph is older than its        *)
(* bookmark says, and none the bookmark has is absent.                     *)
BookmarkReflects ==
  \A g \in Graphs : bookmark[g] # 0 =>
    \A d \in Docs : LET v == live[g][d] IN
      ~Outdated(bookmark[g], d, v) /\ ~Missing(bookmark[g], d, v)

(* vault_sync.py:1436-1438, projection.py:1519-1520: "Every batch is       *)
(* idempotent, so the repair is to run the same command again".  Once the  *)
(* bookmark advances, every change up to it has reached the projection.    *)
AdvancedIsRebuilt ==
  [][\A g \in Graphs : bookmark'[g] # bookmark[g] => stale[g] = {}]_vars

(* projection.py:1596-1604, keys_for_document reads history too.  Once the *)
(* bookmark advances, no entity still speaks for a document that is not    *)
(* live, even if the sync that first retracted it never got to its rebuild.*)
NoGhosts ==
  [][\A g \in Graphs : bookmark'[g] # bookmark[g] =>
       \A p \in stale[g] : live[g][p[1]] # 0]_vars
=============================================================================
