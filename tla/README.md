# artmind in TLA+

artmind turns the notes, binaries and tables of an Obsidian vault into a
knowledge graph (Neo4j), a structured store (DuckDB) and the files under
`.artmind/` that travel between machines in git. This directory models the parts
of it in which processes, crashes, git and two databases meet, checks the models
with TLC and proves the main results with TLAPS.

## The system

| Component | State it keeps | Operations | Hard behaviours |
|---|---|---|---|
| **Atomic staging folders**, `atomic_dir.py` | a folder, its `.artmind-tmp`, its `.artmind-old`, the inodes they share | `write_dir_atomic`, `recover` | death at any system call, power loss, readers with open files, failure half-way |
| **Ingest queue and worker**, `jobs.py`, `worker.py`, `worker_pid.py`, the ingest commands of `cli.py` | SQLite rows of jobs and files, `finalize_domains`/`finalize_state`, the pid file and its flock, the worker's locals | submit, spawn, poll, process a file, finalize, leave, retry, repair | every DB call commits on its own; worker death; two users; probes that take the lock they probe; debts in one database for work done in another |
| **Vault sync**, `vault_sync.py`, `sync_state.py` | the clone's `HEAD`, the graph's bookmark, document fingerprints; DuckDB's bookmark and the legacy cursor in `state.json` | classify a diff, replay, retract, union rebuild, advance | several machines, one shared graph or one each; timer commits at any moment; failure between any two steps; stale clones |
| **Document ingest**, `ingest.py`, `document_identity.py` | staging folders, chunk rows and chunk caches, the note's identity | plan, convert, extract by chunk, stage, supersede, commit | resume after partial failure, `--reextract` stash, threads over one document, staging and graph written one after the other |
| **Projection**, `projection.py` | aggregate entities and edges derived from observations, `:ProjectionState` | affected keys, rebuild of a key, batches, drift | renames strand keys; batches are visible half-done; same-as groups |
| **Curation**, `*_records.py`, `lifecycle.py`, `conflicts.py`, `same_as.py` | record files and what they did to the graph | retire, restore, supersede, resolve, group | replay order against documents, removal of a record |
| **Updates**, `update.py`, `delta.py`, `retime.py` | proposed and confirmed user statements | propose, confirm, move, metadata | the confirm writes a staging folder and the graph |
| **Structured store**, `structured/`, `table2graph.py` | DuckDB tables (SCD2), parquet, the registry, text exports | import, merge, export, project | SCD2 windows, restore by fingerprint |
| **Vault resolve**, `vault_resolve.py`, `kg_pull.py` | conflicted generated files | three-way resolve, pull | merges of files that derive from each other |
| **Embeddings and synthesis**, `embed_sweep.py`, `synthesize.py` | vectors and texts not yet computed | sweep | costs and failures of remote calls |
| **Reading side**: `graph_query.py`, `vector_query.py`, `query_plan/`, `text2*`, `temporal.py` | none | plan, route, rank, answer | pure or read-only |
| **Web UI**, `webui/app.py`, `webui/sessions.py`, `webui/backends/`, `conversations/` | the claim on each conversation, a registry of live agents under one lock, each agent's event queue, the stored turns | post a turn, close, refresh, delete, sweep | a browser may leave at any await; agents and the server die; a long wait for a lock separates a check from its use |
| **Around it**: `topics/`, `catalogue/`, `traces/`, `reviews/`, `insights/`, `kg_views/`, `archive.py`, `*snapshot*.py`, `setup.py`, the Obsidian plugin | derived files, logs | report, record, render, serve | I/O, LLM and UI |

How they meet: the CLI and the plugin create jobs and spawn the worker; the
worker converts and extracts a document, writes its staging folder through
`write_dir_atomic` and commits it to the graph in one transaction, with its own
rebuild or with one owed at the end of the batch; Obsidian Git commits whatever is
in the working tree whenever its timer fires, pulls and merges; `vault sync` diffs
the commits since the graph's bookmark and replays them on other machines.

What makes each part correct: a folder is replaced as a whole or not at all; a
job runs once, under one worker, to the end of each of its files; what is staged is
the whole of one body of a note; observations in the graph reach the projection, and
nothing else does; a bookmark never claims more than the graph has; a retirement
holds in every graph that has seen its record; a turn of a conversation reaches
an agent that knows the turns before it, and ends.

## Modules

| Module | What it is |
|---|---|
| `AtomicFolder` | abstract: a folder whose contents are replaced in one step, by a call that returns, raises or dies |
| `AtomicDir` | `write_dir_atomic` and `recover` at the level of links, unlinks, opens, writes, fsyncs and renames |
| `AtomicDir_proofs` | its invariant, what is fsynced, what readers see, and the refinement of `AtomicFolder` |
| `IngestQueue` | registry, pid file, workers, clients |
| `IngestQueue_proofs` | its invariant, mutual exclusion, finalize, debts and commits |
| `IngestQueueRetry_proofs` | counts, settled files and retries, with one client |
| `VaultSync` | vault history, clones, ingests, graphs and syncs; documents only (track A) |
| `VaultSync_proofs` | its types, the bookmark, ghosts, rebuilt keys |
| `Extraction` | the resumable extraction of one note, from its body to its staging folder |
| `Extraction_proofs` | its types; an ok row has its answer; what is staged; a refused re-extraction restores; a clean run is staged |
| `Projection` | observations, same-as groups, and the rebuild of entities and edges from them |
| `Projection_proofs` | what a rebuild leaves; how it is cut into batches; settled entities, edges and links |
| `Lifecycle` | the retirement of a document across diverging clones and their graphs |
| `Lifecycle_proofs` | its types, and that folder and record decide what a settled graph shows |
| `ChatSessions` | the turns of a conversation, the registry of agents, both agent backends |
| `ChatSessions_proofs` | its invariant, and its safety properties |
| `MC...` | values for TLC, one cfg per question |

Operators commented *seeded fault* are used by no specification: each is the form
a plausible mistake would give the definition after it.

### AtomicDir

A folder maps names to inodes, so that a hard-linked carry-over shares the inode
with the folder in use: that sharing is what the unlink before each open
(atomic_dir.py:97) is for. `disk` is what an inode holds, `Torn` after a crash cut
it off; `synced` what fsync has secured. A `Crash` keeps the names and the synced
content; with `PowerLoss` any other content may be torn, without it only the
process dies. Renames are taken to be durable in the order they are made; the code
fsyncs the new folder before the first of them (atomic_dir.py:57-65, 103). One process writes a
folder at a time; what git checks out into it is left out.

Between calls the extraction uses the folder: `MakeFolder` (ingest.py:3771), and `EditFile`/`EditDone`, the
`write_text` of a chunk's JSON (ingest.py:4140-4143), which truncates a file in place and never fsyncs it.
`InPlace` is the set of names it does this to. `CarryOver` hard-links whatever it finds, so a file of the chunk cache reaches the
new folder unsynced; `OpenFile` to `Built` fsync what the call itself writes. `Unrecovered` says whether an
extraction may make the folder anew while a swap that was cut short waits for `recover()`.

The refinement mapping shows what recovery would find (`Surviving`) as the abstract
content: the swap takes effect at the first rename, or at the second if no folder
was there before.

### IngestQueue

Every call of `jobs.py` opens a connection, commits and closes, so each is one
action, and the worker's program counter names the points between them: `files`
and `mark` are separate because `_process_job` reads the queued rows before it
marks the job. What ingest does to documents is three sets: `staged`, `inGraph`,
`unbuilt`. `Plan` is the tier decision: a body the staged extraction covers is
not extracted again, unless the job says `--reextract`.

The pid file is modelled by inode, so that a worker can hold a lock on a file the
path no longer names; `_release_pid_file` leaves the path in place and that is why
`OneWorker` holds. `Probe`/`Unprobe` are two steps because `live_pid` holds the
lock in between. A starting worker's retries outlast every probe, so `TakeLock`
waits for a client's probe and gives up only on a worker's lock.

`Owe` is the write of a debt, inside the per-file `try` (worker.py:262-301): with `DebtMayFail` the registry may
refuse it, and the file, whose commit is done, is marked failed by a worker that lives on.

`RetryFrom` says from which job statuses somebody asks for a retry. A job read as `queued` is reset without asking
whether a worker is alive (jobs.py:641), and a worker may claim it between that read and the reset: `MCIngestQueueRetryQueued`
has `"queued"` in `RetryFrom` and shows it; the passing runs and the proofs that depend on it leave it out. Not modelled: job deletion,
listing.

### VaultSync

The history is a line of commits, each the versions in the staging folders; a
version is a number, what it says a set of aggregate keys (`Asserts`). Two folders
may carry one document: it has been renamed, and `Stage` writes the new folder
before `RemoveSuperseded` deletes the old. Of a graph are kept the live version of
each document (its fingerprint), the versions in history, and `stale`: pairs of a
document and a key whose entity has not been rebuilt since that document changed
what it says of it. `CommitIngest` is `_commit_document_tx` with its rebuild,
`Replay` and `Retract` are the deferred form, whose keys are only in memory until
`Rebuild` runs, one batch at a time.

Machines change the vault at its tip only: diverging branches and merges are
outside the model. Four constants turn assumptions about users into parameters:
`RemoveEarly` (a document may be removed before each graph's bookmark has it: the very
version that is removed, since a bookmark with an older one does not help if the document was removed
and added again since then),
`HalfRenames` (a timer commit or a crash may split a rename), `MayFail`, and
`InTurn` (which operations wait until the other machines of a shared graph are
idle). The code enforces none of them; the passing runs say under which the
bookmark is right, the violated ones what happens without each.

### Extraction

One note, whose bodies are numbered; `CutInto` says how many chunks a body gives
at a chunk size. The chunk files (`cut`, with the hash the sidecar claims), the rows of
`kg_chunk_status` and the chunk JSONs are separate, because the code writes them at
separate moments: a thread asks its three steps (`AskChunk`), writes the JSON
(`WriteChunk`), then each status in a transaction of its own (`MarkStep`). The write is a `write_text`: it
truncates, then writes, also over the JSON of a chunk whose rows are ok already. Nobody else looks at the file meanwhile, so the two
are one step unless the run ends between them; for the bodies of `TornIn` it may, and `Truncate` leaves a file that is there and
holds no JSON (`Torn`). A resume takes such a file for an empty one (ingest.py:3975-3979); the merge raises on it. Of an answer
the model keeps which text it is about, whether it has entities, and whether properties and
relationships were asked about the entities now beside them (`current`) or about earlier
ones (`stale`). Pass 1 runs in `Workers` threads, pass 2 alone, then `Judge`, `Merged`
and `Stage` or a refusal. `Merged` keeps of the chunks cut those with a JSON, each under its number. `stash` is what `--reextract` set aside; it lives in the memory
of the run, so a death or an unexpected error loses it. `muddled` remembers chunks that
raised after one of their steps was settled.

Chunks-only domains, PDF conversion and what the prompts ask are left out. Rows and
JSONs are keyed by the hash of the note and not by the chunk size
(ingest.py:3773-3778), which is why `Sizes` is a constant.

### Projection

An observation is one document asserting one aggregate key; `latest` and `history` are
its two labels, `asserted` the `ASSERTS_RELATION` edges, which outlive the version that
made them. An entity is the set of observations last merged into it, so that
"the merge of exactly these" can be said without modelling the merge. `Rebuilt` is
`projection.rebuild` as one operator over the raw layer: units, feeds, the edges and links
it deletes and draws. `BatchKeys` is `batch_keys`, a recursion over the sorted keys in which each unit (a group, or a key in none) is placed where its
first key is. Whatever commits,
retracts, retires, restores, archives, edits groups or approves is an action with the
affected keys that code path computes; a rebuild in batches is one action per batch,
with everything else between two of them. `behind` holds the keys some caller still owes a
rebuild, and the properties speak of keys that are not behind.

Left out: how properties of observations merge, embeddings, conflict nodes, synthesis,
the catalogue counter, the schema hash, the prefix roll-up of domains and the
restore of an archive. `RetireGrouped` says whether a document whose key is in a merge
group may be retired.

### Lifecycle

One document, since records of different documents never meet. Unlike in `VaultSync` clones
diverge: a commit has its ancestors, `Exchange` fast-forwards, pushes or merges file by file
from the merge base. A sync is planned once from the trees at bookmark and head, and runs its steps in
the code's order (documents, then records, then the bookmark), each of which may be the last before a failure.
`docs retire` and `docs restore` write the record and then the graph, and the second write may fail.

Six constants are what the code does not prevent, and the passing run excludes: each breaks `RecordDecides` by
itself. `Unsynced`: a document is committed from a clone that is not where its graph is. `RestoreGone`: a
document without a folder is restored. `RetireGone`: a retired document loses its folder, or one without a folder is
retired. `Overtake`: a clone pulls while it syncs, or moves on past the commit of a sync that failed before that is run again.
`Crossed`: the document is retired, restored or removed while another machine has work to sync or commits
this one has not pulled. `Regret`: the graph write fails of a retirement that takes back a restoration no sync
has seen. Failures (`MayFail`) are allowed otherwise, at every write, and the clones diverge freely in what is
not such a command: ingests, commits, merges, syncs.

### ChatSessions

One conversation. A turn is a program counter over the awaits of `stream()` in
`app.py` and the locals it carries between them (`mine`); the claim, the registry's entry, the lock's queue and
the stored rows are shared. The lock is asyncio's: first come, first served, its head holds
it. An agent has a queue of events, a list of prompts it has not finished, and what it
knows of the conversation; events carry a ghost label saying which turn they belong to. ACP ends a turn with
`turn_done` and a separate mark, the Claude SDK with its result message. The prompts an ACP agent had when it
died fail one by one (`Answer` of a dead client), because each has a task of its own that waits on its future. A browser
leaves at the points in `LeaveAt`; faults are in `FailAt`, each at its own step. Other tabs
close, refresh and delete; the sweep and other conversations take the lock too. Starlette's
shielded end of a turn is `Closing`, `Drop`, `Finish`, `Unclaim`.

Three `disconnect()` calls can be cut short: that of a connect the browser leaves (`LeaveRegistry`,
sessions.py:60), that of the other backend's agent in a switch (`LeaveSwitch`, sessions.py:50-51), and that of a drop whose
10 seconds run out after the lock was taken (`DropCutShort`, app.py:352). `Abandon` is what they leave: a
process that exits by itself because its pipe is closed (`gone`), or, under `CutShort`, one that does not and that
nothing refers to (`stray`); a restart of the server does not end it.

The SDK's `receive_events` waits on after a result while background tasks run, and gives up after a timeout
(claude_sdk.py:123-165). Under `LateOutput` an agent may start such a task, or give a first reply while one runs
(`Parts`); `Receive` remembers it (`waits`), and `GivesUp` ends the turn, completed if a reply was held back (`Settled`). The
agent is not told: its last result comes when it comes, to whoever reads.

One profile; no attachments; a replay is told to the agent whole (the code has a budget, and leaves
out answers without text); of several background tasks the model keeps that there is one.

## Runs

| Run | Instance | Question | Result |
|---|---|---|---|
| `atomic_dir` | a staged file and a chunk's file, 2 contents, 4 inodes, hard links, power loss | atomic, what is staged is durable, readers undisturbed | holds |
| `queue` | a `--stage-only` job, then a `--reextract` job of the same 2 files in 2 domains; 2 workers, failures (of a debt's write too), 1 crash, 1 retry, 1 repair | one worker, counts, no file left behind, completed is in the graph, retry and worker apart | holds |
| `queue_live` | 2 overlapping jobs of 3 files in 2 domains, one refused by the converter; failures (but of a debt's write), 1 retry, no crash; fair | debts recorded, finalize covers them, queue drains | holds |
| `sync` | 2 machines, 2 graphs, a note of 2 versions and 2 names, 4 commits, failures | bookmark, no ghosts | holds |
| `sync_shared` | 2 machines, 1 graph, in turn, `--domain` runs | bookmark, old clones, partial runs, rebuilt | holds |
| `extraction` | 2 bodies in 2 chunks, 2 threads, 2 runs of any of 4 commands, 2 faults, deaths everywhere but in a restore, inside the write of a JSON for the first body only | what is staged is of one body and consistent, a refused re-extraction costs nothing, a clean run is staged; for the second body moreover an ok row has its answer and what is staged is whole | holds |
| `chat` | 3 turns on 2 backends, 1 operation beside them, 1 fault, browsers leaving; without `CutShort` and `LateOutput` | own events only, known history, no leaked or stolen agent, rows, deletion | holds |
| `chat_live` | 2 turns, 2 operations, 1 fault, every point of leaving, `CutShort` and `LateOutput`; fair | every turn ends | holds |
| `projection` | 2 documents and an update over 4 keys in 2 domains, 4 sets of groups, batches of 2, 4 operations | entities, edges and links of settled keys are what observations and groups imply | holds |
| `projection_revived_relation` | same | is every edge a relation of a current version? | no |
| `lifecycle` | 2 machines with a graph each, 2 versions, 6 commits, 3 commands, failures | the record and the folder decide what a settled graph shows | holds |
| `lifecycle_crossed` | same with 4 commits, without failures; commands cross | same | violated |

`PROJECT.json` quotes for each violated run the line of the code or of the docs that
says otherwise:

- `projection_revived_relation`: version 2 of a document keeps two entities and drops the relation
  between them. An observation with the same id is the same node, so the version 1
  edge between the two is visible again and is aggregated.
- `lifecycle_crossed`: a machine retires a document and, before it syncs, pulls the restoration
  another machine made. The record appears and disappears inside one diff; the graph keeps the retirement.

### Further configurations

These check one property each, which TLC finds violated; they show where the
assumptions of the runs above come from and are to be run by hand.

| Configuration | Property | What happens |
|---|---|---|
| `MCAtomicDirUnsynced` | `PromotedIsSynced` | the extraction writes a chunk's JSON, the next call carries it over by hard link and fsyncs only its own files: at the first rename the folder to be promoted holds a file a loss of power can still tear, unlike what atomic_dir.py:39-40 says ("only renamed after it is complete and fsynced") |
| `MCAtomicDirLostSwap` | `OldBesideTargetIsSpent` | a crash between the two renames, then an ingest of the document that makes its folder anew (ingest.py:3771), then a call of `write_dir_atomic`: `recover()` takes the `.artmind-old` beside a folder for a crash before cleanup (atomic_dir.py:41-42) and removes both complete versions. kg_pull.py:154-159 calls `recover()` first for this reason |
| `MCIngestQueueDebtFails` | `CompletedIsRebuilt` | the registry refuses the write of a debt (worker.py:263), the file is marked failed after its commit and the worker lives on; its retry finds the body staged, owes nothing and completes, although worker.py:181-183 says that a retried job with no queued files still finishes what it owes |
| `MCIngestQueueRetryQueued` | `RetryNeverRacesWorker` | a client reads a job as queued; a worker claims it and a file fails; the client, which was never asked whether a worker is alive (jobs.py:641), resets the row and the job. jobs.py:629-630 says that this "would race the worker, so that refuses" |
| `MCIngestQueueLostWakeup` | `SubmittedJobRuns` | the worker has read an empty queue and not yet released its lock; a submit creates its job, sees the lock held and spawns nobody |
| `MCIngestQueueTwoRetries` | `RetryNeverRacesWorker` | two users read a job as stalled; one resets it and spawns a worker, which takes it; the other resets it again |
| `MCIngestQueueLostDebt` | `CompletedIsRebuilt` | the commit is in Neo4j, its debt was next to be written to SQLite, and the worker dies; the retry finds the staged body and owes nothing |
| `MCIngestQueueNotInGraph` | `CompletedIsInGraph` | staging succeeded, the commit failed; the retry finds the staged body and calls the file done |
| `MCVaultSyncConcurrent` | `BookmarkReflects` | a sync with an older head writes old versions after another's newer ones |
| `MCVaultSyncHalfRename` | `BookmarkReflects` | a timer commit holds both folders of a renamed note; the sync replays the old one last, and the removal then changes nothing |
| `MCVaultSyncForgotten` | `BookmarkReflects` | a document its own ingest committed, removed before any sync had it in its base, is in no diff and stays |
| `MCExtractionLostCache` | `FailedReextractCostsNothing` | an error after the passes of a re-extraction (a merge that raises) is outside the `try` that restores: the previous answers are lost |
| `MCExtractionTornStaged` | `TornStagedWhole` | the second run of a note rewrites the JSON of a chunk that is done and dies in the write, so that an ok row stands beside a torn file; the third run reads it as empty, takes the first step for done because its row is ok, has no entities to ask the later steps about, and stages the chunk without its answers: what ingest.py:4009-4012 says must not happen |
| `MCExtractionMuddled` | `StagedAgrees` | a chunk raises after its properties were settled; only its entities step is marked failed (ingest.py:4148-4150), so the resume asks for new entities and keeps properties about the old |
| `MCExtractionRestore` | `OkRowHasAnswer` | the process dies between the two halves of a restore |
| `MCExtractionSizes` | `StagedIsWhole` | a failed run is repeated with another chunk size and takes rows and answers of the first |
| `MCProjectionUnrelated` | `EdgesAsserted` | an update retracts a relation of two keys it does not observe: `apply_retractions` (projection.py:1183) deletes the assertion and returns no key for it, unlike what its docstring says (projection.py:1155-1158), so neither end is rebuilt. The candidates offered are relations of the entity the user is talking about; an id given by hand need not be |
| `MCLifecycleRetireGone` | `RecordDecides` | a document is retired and its folder removed; a machine that sees both in one diff retracts it and then applies the record, which marks it (lifecycle_records.py:98-113). When the record goes, the mark brings the document back live, without a folder, although `remove` says that a retracted one is left where it is (lifecycle_records.py:118-120) |
| `MCLifecycleOvertake` | `RecordDecides` | a replay obeys the record of the working tree (ingest.py:4857-4878), which a pull in the middle of the sync brought; a second pull takes it back before the next sync, whose diff shows nothing, and the document stays in history |
| `MCChatSessionsSwept` | `EveryTurnEnds` | the sweep disconnects the agent of a turn that outlasts the idle timeout; `receive_events` then waits on a queue nobody writes to |
| `MCChatSessionsLeftover` | `OwnEventsOnly` | the browser leaves after `turn_done` and before the end mark; the next turn reads that mark as its own |
| `MCChatSessionsCutShort` | `NoLeakedAgent` | the browser leaves while its agent connects, or in the switch of backends: Starlette cancels every await again (app.py:338-339), the disconnect is not shielded (sessions.py:60, 50-51) and stops at its first await, before `terminate()` (acp.py:202-210): a process that does not exit by itself stays, and nothing refers to it. The 10 seconds of app.py:352 can run out in the same place |
| `MCChatSessionsLateOutput` | `OwnEventsOnly` | a turn on the SDK stops waiting for a background task after a first reply; it counts as completed, its agent is kept, and the next turn ends on the result that comes late, as claude_sdk.py:138-141 says of late output; app.py:345-348 drops an agent for just that reason when a turn ends otherwise |

With other values of the constants the models show more of the same kind, without a
configuration of their own:

- `Extraction` with `EditWhile`: an edit between the cut and the staging breaks `StagedIsClaimed` and `StagedIsWhole`.
- `ChatSessions` with `"query"` in `LeaveAt`: a browser that leaves inside `query()` can leave a prompt
  whose events nobody expects (acp.py:264-270). A drop that times out waiting for the lock keeps an unsafe agent
  (`spoiled`). A dead ACP agent stays registered, since its error ends in a regular `turn_done`.
- `Projection`, `RetireGrouped = TRUE`: `RetiredIsGone` is violated, because `_transition` rebuilds
  the document's own keys and not the canonical they were merged under (lifecycle.py:97).
  `NoDriftMeansCurrent`: `same_as.yaml` changes and changes back while a full rebuild runs, and drift
  compares two equal hashes (projection.py:1778). An edge is lost whose other endpoint is
  a folded alias outside the batch (projection.py:1512), and a canonical nobody observes
  is not among `all_keys`; `AssertionsDrawn` and `EntitiesMatch` are stated around both.
  `docs restore` revives superseded observations too (lifecycle.py:196). A retraction holds
  from its own commit only until the document it names is committed again.
  An approval beside a batched rebuild that read the old groups is undone by it.
- `Lifecycle`: `Regret`: retired and synced, restored, and retired again before a sync, with a failed graph write: the record is
  as at the bookmark, no diff shows it, and the document stays live. `Overtake` with failures: a sync fails after it applied a record, head moves on before the
  retry, and the document stays retired (vault_sync.py:1440-1442). `Unsynced`: a
  `write-to-graph` in a tree with a pulled record puts the document in history without the
  mark, and the removal of the record does not bring it back. `RestoreGone`: a restored document without a folder
  is live until it is retired again. With one graph
  for both machines the property is violated too (an ingest in the middle of another's sync; a
  document committed again after its retraction; an unchanged folder skipped although its record is past the
  bookmark), so the runs have a graph each. A `docs restore` whose graph write failed has to be given again (`raised`).

In `AtomicDir`, `IngestQueue` and `VaultSync` three more disagreements limit
what the properties say: an image docling refuses stays `processing` (worker.py:279 expects
`skipped`); a full repair resolves the finalize of a job that committed behind its back
(jobs.py:248-250); without hard links carried-over files are copied and not fsynced
(atomic_dir.py:40). A sync that fails between a replay and its rebuild leaves keys no retry
rebuilds, which vault_sync.py:446-450 says itself.

**Bounds.** Two contents and two files are enough to tell an old folder, a new one
and a mixture apart, and a written file from a carried-over one, and one of them is in the chunk cache; four inodes hold two
folders that share nothing. Two workers and two inodes give every race of two holders of
the pid file's lock; a second job is submitted while the worker of the first starts, runs
or leaves. Two domains distinguish a job's domain from a file's. Two versions of a document,
two names and three commits are the shortest history with a rename, a change after
it, and a base that is neither empty nor head; a fourth lets a document be removed, added again and removed
while a sync has an older head. Two chunks and two
threads give a chunk settled while another fails and a row beside one that is missing; two
runs give every resume of every failure; two bodies an edit between them. Three turns give a
turn that leaves something behind, one that meets it and one on the other backend; `chat` has
one operation beside them, `chat_live` two over two turns, so that a sweep and a close or two lock waits
meet. Four keys in two domains give a merge group of two, a group with a linked member, a key outside
every group and an edge between two batches; two versions of a document differ in a key or in a relation only.
Two machines, two versions and six commits give a divergence, its merge, and a record that comes and goes around both; three
commands retire, restore and retire again. The largest runs have 2.1 million
states (`queue`), 1.8 million (`extraction`), 1.7 million (`lifecycle`), 800,000 (`chat`), 640,000
(`sync`), 470,000 (`chat_live`), 190,000 (`atomic_dir`) and 120,000 (`projection`). Crashes, retries and repairs are
bounded by `Max...` constants in guards, commits by `MaxCommits`, versions by the
length of `Asserts[d]`. No state constraint is used. Inodes, values, names and workers are
interchangeable where a cfg gives a SYMMETRY, and no run with a liveness property does.

**Deadlock.** `AtomicDir` and `VaultSync` never stop, and TLC checks it. The queue
does, when everybody is done and the bounds are used up, and so do the models of
later sections, whose commands, operations and commits are counted; their runs say
`CHECK_DEADLOCK FALSE`. That they do not stop too soon is what `QueueDrains`, `CleanRunIsStaged` (together with
an extraction that has an action at every point) and `EveryTurnEnds` show.

**Fairness.** `FairSpec` has weak fairness on a worker's own steps and on a command
that has been given: a process that runs keeps running, every call it makes returns
or fails, and a lock it waits for is released by a process that runs too. Giving a
command, and a crash, have none. It is used in `queue_live` and
`MCIngestQueueLostWakeup`. `QueueDrains` needs no fairness on failures: a failing file
is settled like any other. In `ChatSessions` it has weak fairness on the steps of each turn (the event loop
runs what is ready), on the operations that wait for or hold the lock (asyncio hands it on in
order), and on an agent that is up and has a prompt. That an agent finishes what it was asked
is an assumption the code shares: it has no timeout of its own on a turn. Posting, leaving, asking for an operation and faults have none.

## Proofs

`AtomicDir_proofs`, for any names, values and inodes, from the assumptions that the
special values differ, and that a disk that may lose power has hard links:

- `AlwaysIInv`: the invariant says, for each point of the code, which of the three
  siblings exist (`Siblings`), that the folder in use is whole but for its chunk cache and no two of its names share an
  inode (`Apart`), how far the one being built has got (`Progress`), and
  that a file open for writing is linked under no other name (`Opening`). The
  properties are not inductive without it: whether the renames preserve the old or
  the new contents depends on what each earlier link and write did.
- `StagedSynced`: every file staged through `write_dir_atomic` is fsynced in whatever folder recovery leaves. Nothing of the kind
  is claimed of the chunk cache, where it is false (`MCAtomicDirUnsynced`).
- `ReadersUndisturbed`: a folder in use changes only in its chunk cache, by the extraction's own writes or by a loss of power.
- `ImplementsAtomicFolder`, in which each step maps to a step of `AtomicFolder` or a stutter. It
  assumes `~Unrecovered` (`MCAtomicDirLostSwap` is why).

`IngestQueue_proofs`, for any finite set of files, any workers, clients and jobs and any
bounds:

- `AlwaysIInv`: types; `Locked`, that the path never leaves its first inode and
  that all locks are on it; `Knows`, that a worker or a retry in the middle of a job knows
  which; `Rebuilding`, that a finalize under way has left nothing unbuilt in a domain it is
  past. `Rebuilding` needs `Locked`: no other worker may commit meanwhile.
- `WorkersExclude`; `FinalizeCovers`, for systems in which nobody runs a repair
  (see above); `DebtIsRecorded`, also without crashes (`MCIngestQueueLostDebt` is why) and where the
  write of a debt does not fail (`~DebtMayFail`; `MCIngestQueueDebtFails` is why).
- `CompletedIsCommitted`, for systems in which the jobs that commit are `--reextract` jobs
  (`MCIngestQueueNotInGraph` is why): only such a job is sure to reach its commit. It needs no order between
  clients, and no bound on deaths: the row is written after the commit, by the worker that made it.

`IngestQueueRetry_proofs`, for one client (several race, as `MCIngestQueueTwoRetries` shows) that does
not retry a job still queued (`MCIngestQueueRetryQueued` shows what one that does may break); the counts moreover where docling refuses no file (a refused one keeps its row
`processing` in a finished job, see the hazards). The invariant follows a job through its owners:

- `Taken` and `Retrying`: whether a job has a worker or a retry, and that never both have it.
  A retry that passed its probe keeps that true until it resets, because nobody else
  queues the job meanwhile. `RetryKeepsOff` (of `RetryNeverRacesWorker`) follows, step by step.
- `Listed`, `Working`: which rows exist, and that what a worker has on its list is queued and what it
  has left behind is settled, but for the file in its hands. `Working` needs `Taken`: nobody
  else writes those rows.
- `Tallied`: done, in hand and to do make up the batch. `Ready`: a queued job has
  counted its completed rows, so that the next worker starts from the right number.
  `Selected`: a retry's rows are all that is neither completed nor queued.
- `CountsMatch` and `NoneLeftBehind`: a worker finishes with an empty list, so `Tallied` and `Working`
  give the whole batch, and nothing but a retry touches a finished job.

`Extraction_proofs`, for any bodies, cuts, threads and bounds:

- `AlwaysHolds`: the shapes of rows, JSONs and threads; `Restoring`, that a restore is
  of a stash that is held, and the folder goes back before the rows; `Threads`, that a
  thread has written what it is about to mark, and that what it will write has everything
  that was answered before.
- `OkIsAnswered`, from `Kept`: rows are backed by JSONs in use and in the stash alike.
  It assumes that the process does not die in `putback` or `relist`
  (`MCExtractionRestore` is why), and nothing about where else it dies or raises. It is about the bodies outside `TornIn`, those
  no write of whose JSONs is cut short (`MCExtractionTornStaged` is why); those in it may be extracted before, between and after.
- `RefusalRestores`, an action property from `Restoring`, without assumptions.
- `TypeCorrect`, from `Sorts`: what the cut, the run and its threads hold at each point.
- `Claimed`: `Following` (a run extracts the note as it stands, and the chunk files are of that body once
  their stamp has been looked at) and `Texts` (an answer is about a chunk of the body it is kept
  under, in use, set aside or in a thread). It assumes that nobody edits the note during a run
  (`EditWhile` shows why), and nothing about sizes, errors or deaths.
- `Whole` assumes moreover one chunk size (`MCExtractionSizes`), and no death inside a restore, and is about the same
  bodies as `OkIsAnswered`: `Texts` then names one text
  for each chunk, `RowsKnown` says that every chunk has a row and that none is incomplete when the
  answers are merged, and `Kept` that an ok row has its answer.
- `AgreesUnlessMuddled` needs to follow each chunk: `AllAgreed` (an ok row of a later step is about the entities
  in the JSON, in use and set aside), `Going` (a thread's marks will leave it so, and the pass
  has read the rows of what it has not started as they are) and `Rested` (a chunk no thread is at is done).
  `muddled` excludes the chunks `MCExtractionMuddled` is about.
- `CleanIsStaged` assumes that nobody edits the note during a run and one chunk size, and nothing about earlier runs: they may have
  been refused, raised or died anywhere, inside a restore too. `Fitting` (no row past a body's last
  chunk, in use or set aside) is what a change of size breaks; `Clearing` says that while nothing fails, whatever still
  waits is in the first pass's list or with a thread whose marks will settle it, so that the second pass finds
  nothing to do and the judgement nothing to object to.

`VaultSync_proofs`, for any machines, graphs, documents, folders, versions and scopes and any number of
commits. What is assumed is said of the constants, and the `MCVaultSync...` configurations show what each
assumption excludes:

- `TypeCorrect`, from `Base`: what an ingest and a sync have in memory at each point, and that a plan
  replays what its head has and retracts what it has not.
- `Rebuilt`, if no sync fails and the syncs of a graph take turns: `Owed`, that each entity yet to be
  rebuilt is among the keys of a sync. The code says itself that a failure may leave keys behind.
- `GhostsGone`, if each machine has a graph of its own, with failures, split renames and early removals:
  `GhostGone` says that a document whose entity is left over went between the bookmark and the tree in use, so that the next
  diff shows it, and `GhostPending` that a sync that has planned still retracts it or rebuilds its
  key. Both need `NoReturn`: a folder never gets back a version it has lost, which follows
  from `Fresh` (what a working tree has is the last commit's, nothing, or newer than the history).
- `Reflects`, under `Careful`: no commit splits a rename, a version is removed only once every
  bookmark has it, and the ingests and syncs of one graph take turns. Syncs and ingests may fail anywhere, and run
  on any part of the vault. `Settled` is the core: a sync of the whole vault that has its plan leaves each document
  as its head says or still has to. That the diff finds what has changed is `NoReturn`; that
  nothing is found twice is `Single` and `OneFolder` (a version has one folder in all of
  history); that an ingest beside it does no harm is `Ahead` (what it will commit is newer than what any sync of
  that graph may replay) with `OneBusy`; that a removed document is in some diff is `RemovedLate`.

`Projection_proofs`, for any keys, domains, classes, documents, contents, choices of groups and batch sizes. A group
file is assumed to be what `validate_groups` accepts (`GroupsAssumption`: no key in two groups).

- `RebuiltIs` says what `Rebuilt` leaves, key by key, edge by edge and link by link (`Leaves`); everything below
  uses that and not the definition. Nothing is assumed of what a batch contains.
- `Sound` is the invariant. It says of each key by itself that it is late or right, where the properties ask
  of all keys it is grouped with not to be late: one key of a group may be rebuilt in one batch and the next in another,
  so the properties are not inductive. Edges and links moreover have entities at both ends
  (`Ended`), since a rebuild that removes an entity must find its edges.
- Three lemmas carry it. `RawSound`: a change of observations and assertions makes late only the keys
  it is about, if they are closed under "feeds" (`Sealed`, which affected keys are). `RegroupSound`: a change of the
  group file makes late only members of groups that changed. `RebuildSound`: a rebuild of some keys
  makes them right, unless the groups it was planned with have changed where they touch them. `LateSound` adds
  that what `all_keys` leaves out has nothing to rebuild. Every action is a combination of these.
- `EntitiesAlwaysMatch`, `EdgesAlwaysAsserted`, `AssertionsAlwaysDrawn` and `LinksAlwaysMatch` follow. They assume
  `~RetireGrouped` (retiring a folded document leaves the canonical as it was, see above) and
  `RetractsItsOwn`: a retracted relation has an end among the observed keys of what retracts it
  (`MCProjectionUnrelated` is why). A relation of an alias, retracted by an update about its canonical,
  is rebuilt too, since their group is affected; `RetractsItsOwn` leaves that case out.
- `BatchesPartition`, of `batch_keys` for any keys and groups: the batches share no key, leave none out, split no
  group (what its docstring promises) and keep to the batch size, but where one group alone does not. The library's
  induction theorems cannot be used, since they are about an operator; `EveryPlace` is induction
  over a sequence for one set of its places, from the well-foundedness of `<`. It is used three times: `FillingIs` shows first
  that the recursion defines a function and then that its values are batches, and `PlacedBatched`
  is the step that keeps `Batched`: a key that is not placed first has its group's batch already.
- `TypeCorrect` assumes nothing: `Typed` adds the edges, the links and the batches to `Held`, the part of the types the
  theorems above need.

`Lifecycle_proofs`, for any machines, graphs, versions, commits and commands:

- `TypeCorrect` assumes nothing. Its invariant `Base` says moreover that a clone and the remote have one newest
  common ancestor (`Forks`), which holds because whatever two clones share has been pushed, and that what a sync has left
  fits the trees it goes between (`Plans`).
- `RecordCorrect` (of `RecordDecides`) assumes `Apart`: a graph for each machine, and none of the six constants above, each of
  which has a counterexample. `MayFail` is free. Its invariant `Consistent` adds to `Base`:
  - `Shape`: a graph's bookmark is an ancestor of its clone's head, and a sync, under way or failed, starts from it.
  - `Versions`: a version has one commit it comes from (`Origin`), a line of commits that leaves a version never
    returns to it (`NoReturn`), and one that only a working tree has is nowhere else (`Fresh`). The three need each other
    through merges. A version the graph is past is thus never found again in a diff that would show no change.
  - `Owned`: a machine that has the record, or the lack of a folder, otherwise than at its fork is the only one, and the remote has
    nothing newer (`Single`); a removal finds the folder in every tree of the others (`Removal`); no tree
    has a record and no folder (`Whole`). So a merge never changes the record under the machine
    whose graph is ahead of its bookmark.
  - `Agrees`: between syncs (`IdleGraph`) the node disagrees with the record applied only if the working tree
    does too, and its machine is the owner, and a document in history for a record is marked; in a sync (`SyncGraph`) the same
    holds of the target once nothing about it is pending. A failed sync keeps what the second
    says of the tree applied, and the next begins from there.
- The same assumptions give a graph that has no machine nothing to do (`Orphans`).

`ChatSessions_proofs`, for any turns, backends, points of leaving, faults and bounds. The
invariant `IInv` is made of parts, each with a lemma that says every step keeps it:

- `Claims`: at most one turn is under way, the one with the claim; a deletion holds it too.
- `Locked`: who says it waits for the lock is in its queue once, and a turn that
  connects or a refresh that restarts is its head.
- `Fifo`: a close or refresh that was asked for when a turn was posted is ahead of it in that
  queue, and none is left once the turn has its agent; then the agent is not stale
  either, if turns are short.
- `Alive`: a process that is up or starting is the registered one or is being
  connected, and the registry is empty while one is. `NoneLeaks` is this part; it assumes `~CutShort` (`MCChatSessionsCutShort` is why), so that there is no stray.
  The other theorems have strays and do not need that.
- `Stored`: running rows, the claim and the row number each turn remembers. `NoneRunsForever` follows.
- `Forgotten`: the registered agent, and whatever the turn with the claim may yet tell
  it, know no deleted turn. `DeletionForgets` follows; it needs `Claims`, since no turn may
  have read the rows before a deletion and tell them after it.
- `NobodyCutsOff` assumes `~LongTurns` and follows from `Locked` and `Fifo`: whoever holds
  the lock while a turn has its agent has no business with it.
- `TypeCorrect` collects what relates the locals of turns to the shared state.
- `HistoryKnown` assumes nothing. `Placed`, `Refreshing`, `Wired` and `Unread` follow a turn and
  its agent: nobody registers another under it, a refresh has the lock until the agent is up again, an agent that
  is down is asked nothing, and a turn has heard nothing before it asks. `Known` says that the registered agent
  knows every answered turn, or a turn that has it will tell it or drop it; `Taught` says the same of each turn's own.
- `OwnEvents` assumes `Orderly`: no browser leaves inside `query()` or between `turn_done` and the end
  mark, and no turn gives up waiting for background tasks. All three are points the code does leave open (`MCChatSessionsLeftover` shows the
  second, `MCChatSessionsLateOutput` the third), so this is what holds beside them.
  `Accounted` says that a registered agent owes nothing, or to the turn that has it and will drop it; `Streamed` that what is pending and queued
  belongs to the turn that reads, the end last. Agents that die with prompts pending, drops that time out and turns
  left at any other point are all in it.

Only model-checked: liveness (`QueueDrains`, `EveryTurnEnds`), which is out of the prover's reach, as is
anything that needs ENABLED. Every invariant and every action property of a passing run is
a theorem, some of them for the constants their section names.

One convention is the prover's: tlapm 1.4.5 translates an `EXCEPT` with two updates of the same index, or with an `@`
inside a nested `EXCEPT`, to something other than what it means, and can then prove what is false. So where several fields of a record change
at once, `ChatSessions` writes `[f EXCEPT ![c] = [f[c] EXCEPT !.at = ..., !.pend = ...]]`.

## Not modelled

`PROJECT.json` lists every component with its reason. What only reads (query planning,
retrieval, temporal parsing, answers), what asks an LLM and stores the result, I/O and formatting (archives,
snapshots, views, traces, setup, the plugin) keep no state that two steps could disagree on, or keep it in one
sequential command. They are most of the lines of the program (the CLI, the
query side and the setup alone are more than a third), which is why the models cover a small share of it.
Within modelled components are left out: job deletion and listing, chunks-only domains, supersession and
conflict records (they have no `reapply_for`, unlike what supersession_records.py:129-131 says), the structured
store's part of a sync, and the read-only routes and attachments of the web UI.

## Plan

1. Done: `AtomicFolder`, `AtomicDir`, `IngestQueue`, `VaultSync`, `Extraction`, `Projection`,
   `Lifecycle`, `ChatSessions`, and the proofs above.
2. `SyncStores`: the two bookmarks, the legacy cursor, `--store`, `--bootstrapEmpty`,
   `--bootstrapSynced` and the order in which they are written (vault_sync.py:1219-1486).
3. Supersession and conflict records in `Lifecycle`; proposals and confirmations of updates.
4. `Scd2`: the merge of a table against a reference over bounded inputs (structured/scd2.py).
5. `AtomicDir` composed with `VaultSync`: a timer commit between the two renames; two writers of a folder.
