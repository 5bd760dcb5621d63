----------------------------- MODULE Extraction -----------------------------
(***************************************************************************)
(* artmind/ingest.py: the resumable extraction of one note.  Its body is   *)
(* cut into chunks; threads ask three LLM steps of each; the answers go to *)
(* a JSON per chunk and the statuses to a row per chunk, both kept under   *)
(* the hash of the note; when no step is failed or pending the answers are *)
(* merged and staged.  --reextract sets answers and rows aside first and   *)
(* puts them back when the new extraction is refused.                      *)
(*                                                                         *)
(* One process extracts the note at a time; it may die at any point, and   *)
(* somebody may run it again, with the same command or another one.        *)
(***************************************************************************)
EXTENDS Naturals, Sequences, FiniteSets

CONSTANTS
  LastBody,   \* bound: the note's bodies are 1..LastBody, each edit a new one
  Sizes,      \* the --chunkSize of a run
  CutInto,    \* CutInto[b][s]: how many chunks body b gives at size s
  Workers,    \* how many threads ask at once
  EditWhile,  \* may the note be edited while it is extracted?
  RaiseIn,    \* where an error nobody expects is raised: the places below
  CrashIn,    \* at which points of the run the process may die
  TornIn,     \* of which bodies: may it die, or raise, inside the write of a chunk's JSON?
  MaxChunks,  \* bound: chunks of a body
  MaxRuns,    \* bound: how often somebody runs a command
  MaxFaults   \* bound: steps that fail, deaths, interrupts, errors nobody expects

Bodies == 1..LastBody
Steps == {"entities", "properties", "relationships"}
Points == {"split", "stamp", "check", "forget", "setaside", "prepare",
           "pass1", "pass2", "judge", "merge", "discard", "putback", "relist"}

ASSUME BoundsAssumption ==
  LastBody \in Nat \ {0} /\ MaxChunks \in Nat \ {0}
  /\ MaxRuns \in Nat /\ MaxFaults \in Nat
ASSUME CutAssumption == CutInto \in [Bodies -> [Sizes -> 1..MaxChunks]]
ASSUME WorkersAssumption == Workers \in Nat \ {0}
ASSUME FaultsAssumption ==
  /\ EditWhile \in BOOLEAN /\ TornIn \subseteq Bodies
  /\ RaiseIn \subseteq {"setaside", "prepare", "chunk", "merge"}
  /\ CrashIn \subseteq Points

VARIABLES
  body,     \* the note, as it stands in the vault
  cut,      \* the chunk files: of which body and size, and what the stamp says
  rows,     \* kg_chunk_status, by the hash of the note and the chunk's number
  cache,    \* the chunk JSONs, by the same
  staged,   \* the staging folder: what chunk i answered, and its claim
  runs, faults,
  pc, mode, size, sha,   \* the run, its command and its locals
  statuses, \* the rows a pass has read
  todo,     \* the chunks a pass has not started
  thread,   \* what the thread of each chunk has in memory
  stash,    \* what --reextract has set aside
  clean,    \* auxiliary: no call of this run has failed, nor answered nothing at all
  outcome,  \* auxiliary: how the last run ended
  muddled   \* auxiliary: chunks that raised after a step of theirs was settled,
            \* or whose failure could not be recorded

note == <<body, cut, staged>>
run == <<mode, size, sha, stash>>
aux == <<clean, muddled>>
vars == <<note, rows, cache, runs, faults, pc, run, statuses, todo, thread, outcome, aux>>

Count(b, s) == CutInto[b][s]
Seqs == 1..MaxChunks
Text(b, s, i) == <<b, s, i>>

Status == {"absent", "pending", "ok", "failed", "skipped"}
Absent == [st \in Steps |-> "absent"]
Pending == [st \in Steps |-> "pending"]

(* A chunk JSON: of its properties and relationships is kept whether they  *)
(* were asked about the entities that stand beside them.                   *)
NoText == <<0, 0, 0>>
Answers == [text : Bodies \X Sizes \X Seqs, entities : {"unasked", "none", "some"},
            properties : {"unasked", "current", "stale"},
            relationships : {"unasked", "current", "stale"}]
NoAnswers == [text |-> NoText, entities |-> "unasked",
              properties |-> "unasked", relationships |-> "unasked"]
NoCache == [i \in Seqs |-> NoAnswers]

(* A file write_text has truncated and not yet written: it is there, and   *)
(* holds no JSON.                                                          *)
TornText == <<0, 0, 1>>
Torn == [NoAnswers EXCEPT !.text = TornText]

Idle == [at |-> "idle", data |-> NoAnswers, marks |-> <<>>]
NoStash == [held |-> FALSE, rows |-> [i \in Seqs |-> Absent], cache |-> NoCache]
NothingStaged == [of |-> 0, chunks |-> <<>>]

TypeOK ==
  /\ body \in Bodies
  /\ cut \in [of : 0..LastBody, size : Sizes, whole : BOOLEAN,
              stamp : 0..LastBody, listed : Nat]
  /\ rows \in [Bodies -> [Seqs -> [Steps -> Status]]]
  /\ cache \in [Bodies -> [Seqs -> Answers \cup {NoAnswers, Torn}]]
  /\ staged.of \in 0..LastBody
  /\ DOMAIN staged.chunks \subseteq Seqs
  /\ \A i \in DOMAIN staged.chunks : staged.chunks[i] \in Answers
  /\ runs \in 0..MaxRuns /\ faults \in 0..MaxFaults
  /\ pc \in Points \cup {"idle"}
  /\ mode \in {"ingest", "reextract", "extract-kg", "redo"}
  /\ size \in Sizes /\ sha \in Bodies
  /\ statuses \in [Seqs -> [Steps -> Status]]
  /\ todo \subseteq Seqs
  /\ \A i \in Seqs : /\ thread[i].at \in {"idle", "asked", "marking"}
                     /\ thread[i].data \in Answers \cup {NoAnswers}
                     /\ thread[i].marks \in Seq(Steps \X Status)
  /\ stash.held \in BOOLEAN
  /\ stash.rows \in [Seqs -> [Steps -> Status]]
  /\ stash.cache \in [Seqs -> Answers \cup {NoAnswers, Torn}]
  /\ clean \in BOOLEAN
  /\ outcome \in {"none", "staged", "refused", "interrupted", "raised", "died"}
  /\ muddled \subseteq Bodies \X Seqs

Init ==
  /\ body = 1
  /\ \E s \in Sizes :
       /\ size = s
       /\ cut = [of |-> 0, size |-> s, whole |-> FALSE, stamp |-> 0, listed |-> 0]
  /\ rows = [b \in Bodies |-> [i \in Seqs |-> Absent]]
  /\ cache = [b \in Bodies |-> NoCache]
  /\ staged = NothingStaged
  /\ runs = 0 /\ faults = 0
  /\ pc = "idle" /\ mode = "ingest" /\ sha = 1
  /\ statuses = [i \in Seqs |-> Absent]
  /\ todo = {}
  /\ thread = [i \in Seqs |-> Idle]
  /\ stash = NoStash
  /\ clean = TRUE /\ outcome = "none" /\ muddled = {}

-----------------------------------------------------------------------------
(***************************************************************************)
(* The commands that extract a note.                                       *)
(***************************************************************************)
Edit ==
  /\ EditWhile \/ pc = "idle"
  /\ body < LastBody
  /\ body' = body + 1
  /\ UNCHANGED <<cut, staged, rows, cache, runs, faults, pc, run, statuses, todo, thread, outcome, aux>>

Begin(m, s, p) ==
  /\ pc = "idle" /\ runs < MaxRuns
  /\ runs' = runs + 1
  /\ pc' = p /\ mode' = m /\ size' = s /\ sha' = body
  /\ stash' = NoStash /\ clean' = TRUE /\ outcome' = "none"
  /\ UNCHANGED <<note, cache, faults, statuses, todo, thread, muddled>>

(* `ingest sync` and the worker: a body the staging folder already has is  *)
(* not extracted again, unless --reextract says so.                        *)
Ingest(s) ==
  /\ body # staged.of
  /\ Begin("ingest", s, "split")
  /\ UNCHANGED rows

Reextract(s) == Begin("reextract", s, "split") /\ UNCHANGED rows

(* `ingest extract-kg`: the chunk files are taken as they are.             *)
ExtractKg(s) ==
  /\ cut.of # 0
  /\ Begin("extract-kg", s, "check")
  /\ UNCHANGED rows

(* `ingest retime --redoProperties`: the properties step alone, and only   *)
(* of a document whose answers are all on this machine.                    *)
HasCompleteCache(b) ==
  /\ \E i \in Seqs : rows[b][i] # Absent
  /\ \A i \in Seqs : rows[b][i] # Absent =>
       rows[b][i]["entities"] = "ok" /\ cache[b][i] # NoAnswers

RedoProperties(s) ==
  /\ staged.of # 0
  /\ HasCompleteCache(body)
  /\ Begin("redo", s, "check")
  /\ rows' = [rows EXCEPT ![body] = [i \in Seqs |->
                IF @[i]["entities"] = "ok" THEN [@[i] EXCEPT !["properties"] = "pending"]
                                           ELSE @[i]]]

Fault == faults < MaxFaults /\ faults' = faults + 1

Goto(p) ==
  /\ pc' = p
  /\ UNCHANGED <<runs, faults, mode, size, sha>>

(* _persist_chunks: the chunk files first, then the sidecar with the hash  *)
(* of the body they were cut from.                                         *)
SplitNote ==
  /\ pc = "split"
  /\ cut' = [cut EXCEPT !.of = body, !.size = size, !.whole = TRUE]
  /\ Goto("stamp")
  /\ UNCHANGED <<body, staged, rows, cache, stash, statuses, todo, thread, outcome, aux>>

StampSplit ==
  /\ pc = "stamp"
  /\ cut' = [cut EXCEPT !.stamp = cut.of, !.listed = Count(cut.of, cut.size)]
  /\ Goto("check")
  /\ UNCHANGED <<body, staged, rows, cache, stash, statuses, todo, thread, outcome, aux>>

(* Seeded fault: the stamp of the sidecar is not looked at.                *)
AnyStampMatches == cut.whole /\ cut.listed = Count(cut.of, cut.size)

ChunkCacheMatches ==
  /\ cut.whole
  /\ cut.stamp = body
  /\ cut.listed = Count(cut.of, cut.size)

CheckChunks ==
  /\ pc = "check"
  /\ Goto(CASE ~ChunkCacheMatches -> "split"
            [] ChunkCacheMatches /\ mode = "reextract" -> "forget"
            [] OTHER -> "prepare")
  /\ UNCHANGED <<note, rows, cache, stash, statuses, todo, thread, outcome, aux>>

-----------------------------------------------------------------------------
(***************************************************************************)
(* _reset_extraction_cache: the rows go first, then the folder.            *)
(***************************************************************************)
(* Seeded fault: the rows are read but not deleted.                        *)
KeepRows ==
  /\ pc = "forget"
  /\ stash' = [stash EXCEPT !.held = TRUE, !.rows = rows[sha]]
  /\ Goto("setaside")
  /\ UNCHANGED <<note, rows, cache, statuses, todo, thread, outcome, aux>>

ForgetRows ==
  /\ pc = "forget"
  /\ stash' = [stash EXCEPT !.held = TRUE, !.rows = rows[sha]]
  /\ rows' = [rows EXCEPT ![sha] = [i \in Seqs |-> Absent]]
  /\ Goto("setaside")
  /\ UNCHANGED <<note, cache, statuses, todo, thread, outcome, aux>>

SetAside ==
  /\ pc = "setaside"
  /\ stash' = [stash EXCEPT !.cache = cache[sha]]
  /\ cache' = [cache EXCEPT ![sha] = NoCache]
  /\ Goto("prepare")
  /\ UNCHANGED <<note, rows, statuses, todo, thread, outcome, aux>>

ChunkCount == Count(cut.of, cut.size)

(* INSERT OR IGNORE: a row that is there keeps its statuses.               *)
Prepared == [i \in Seqs |-> IF i <= ChunkCount /\ rows[sha][i] = Absent
                            THEN Pending ELSE rows[sha][i]]

(* Seeded fault: chunks counted from zero.                                 *)
PrepareFromZero ==
  /\ pc = "prepare"
  /\ rows' = [rows EXCEPT ![sha] = Prepared]
  /\ statuses' = Prepared
  /\ todo' = 0..(ChunkCount - 1)
  /\ Goto("pass1")
  /\ UNCHANGED <<note, cache, stash, thread, outcome, aux>>

Prepare ==
  /\ pc = "prepare"
  /\ rows' = [rows EXCEPT ![sha] = Prepared]
  /\ statuses' = Prepared
  /\ todo' = 1..ChunkCount
  /\ Goto("pass1")
  /\ UNCHANGED <<note, cache, stash, thread, outcome, aux>>

-----------------------------------------------------------------------------
(***************************************************************************)
(* _process_chunk.  What the three steps answer depends on nothing other   *)
(* threads write, so they are one action; what follows them, the JSON and  *)
(* then each status in a transaction of its own, is not.                   *)
(***************************************************************************)
Busy == {i \in Seqs : thread[i].at # "idle"}
InPass == pc \in {"pass1", "pass2"}

(* The entities a step of this pass will speak of, or speaks of already.   *)
(* A JSON that cannot be read is taken for one that is not there.          *)
Redone(i, e) == [cache[sha][i] EXCEPT
  !.text = IF @ \in {NoText, TornText} THEN Text(cut.of, cut.size, i) ELSE @,
  !.entities = IF e \in {"none", "some"} THEN e ELSE @,
  !.properties = IF e \in {"none", "some"} /\ @ # "unasked" THEN "stale" ELSE @,
  !.relationships = IF e \in {"none", "some"} /\ @ # "unasked" THEN "stale" ELSE @]

(* Seeded fault: a skipped step counts as done.                            *)
KeepSkipped(i, step, has, answer) ==
  IF ~has THEN "skipped" ELSE IF statuses[i][step] \in {"ok", "skipped"} THEN "kept" ELSE answer

(* Seeded fault: only a pending step is asked.                             *)
AskPending(i, step, has, answer) ==
  IF ~has THEN "skipped" ELSE IF statuses[i][step] # "pending" THEN "kept" ELSE answer

(* What a step that depends on the entities is marked, "kept" for a step   *)
(* that is not run and keeps its mark.                                     *)
Depends(i, step, has, answer) ==
  IF ~has THEN "skipped" ELSE IF statuses[i][step] = "ok" THEN "kept" ELSE answer

(* e, p and r are what the model answers if it is asked: "failed", or a    *)
(* list ("none" when it is empty).                                         *)
Asked(i, e, p, r) ==
  LET askE == statuses[i]["entities"] # "ok"
      data == Redone(i, IF askE THEN e ELSE "kept")
      has == (askE => e # "failed") /\ data.entities = "some"
      pm == Depends(i, "properties", has, p)
      rm == Depends(i, "relationships", has, r)
      Mark(step, m) == IF m = "kept" THEN <<>> ELSE <<<<step, m>>>>
  IN [at |-> "asked",
      data |-> [data EXCEPT !.properties = IF pm = "ok" THEN "current" ELSE @,
                            !.relationships = IF rm = "ok" THEN "current" ELSE @],
      marks |-> Mark("entities", IF ~askE THEN "kept" ELSE IF e = "failed" THEN e ELSE "ok")
                \o Mark("properties", pm) \o Mark("relationships", rm)]

Failures(marks) == {k \in DOMAIN marks : marks[k][2] = "failed"}

Next1(i) == i \in todo /\ \A j \in todo : i <= j

AskChunk(i) ==
  /\ InPass /\ Next1(i)
  /\ Cardinality(Busy) < (IF pc = "pass1" THEN Workers ELSE 1)
  /\ i <= ChunkCount
  /\ todo' = todo \ {i}
  /\ \E e \in {"failed", "none", "some"}, p, r \in {"failed", "ok"} :
       /\ thread' = [thread EXCEPT ![i] = Asked(i, e, p, r)]
       /\ faults' = faults + Cardinality(Failures(thread'[i].marks))
       /\ clean' = (clean /\ Failures(thread'[i].marks) = {})
  /\ faults' <= MaxFaults
  /\ UNCHANGED <<note, rows, cache, runs, pc, run, statuses, outcome, muddled>>

(* write_text truncates the file and then writes it.  Only this thread     *)
(* looks at a chunk's JSON, so the two are one step (WriteChunk) unless    *)
(* the thread or the process ends between them, which TornIn allows:       *)
(* Truncate is then a step of its own.                                     *)
Truncate(i) ==
  /\ sha \in TornIn
  /\ thread[i].at = "asked" /\ cache[sha][i] # Torn
  /\ cache' = [cache EXCEPT ![sha][i] = Torn]
  /\ UNCHANGED <<note, rows, runs, faults, pc, run, statuses, todo, thread, outcome, aux>>

WriteChunk(i) ==
  /\ thread[i].at = "asked"
  /\ cache' = [cache EXCEPT ![sha][i] = thread[i].data]
  /\ thread' = [thread EXCEPT ![i].at = "marking"]
  /\ UNCHANGED <<note, rows, runs, faults, pc, run, statuses, todo, outcome, aux>>

(* _update_chunk_step: an UPDATE, which finds no row where there is none.  *)
Updated(i, step, status) ==
  IF rows[sha][i] = Absent THEN rows
  ELSE [rows EXCEPT ![sha][i][step] = status]

MarkStep(i) ==
  /\ thread[i].at = "marking"
  /\ IF thread[i].marks = <<>>
     THEN thread' = [thread EXCEPT ![i] = Idle] /\ UNCHANGED rows
     ELSE LET m == Head(thread[i].marks) IN
          /\ rows' = Updated(i, m[1], m[2])
          /\ thread' = [thread EXCEPT ![i] =
               IF Len(thread[i].marks) = 1 THEN Idle
               ELSE [thread[i] EXCEPT !.marks = Tail(thread[i].marks)]]
  /\ UNCHANGED <<note, cache, runs, faults, pc, run, statuses, todo, outcome, aux>>

(* _process_chunk_isolated: whatever a chunk raises fails its entities     *)
(* step; recording that may fail as well.  A row of a chunk that no longer *)
(* exists raises when its file is read.                                    *)
Settled(row) == "ok" \in {row["properties"], row["relationships"]}

RaiseChunk(i) ==
  /\ InPass
  /\ \/ "chunk" \in RaiseIn /\ i \in Busy /\ Fault
     \/ Next1(i) /\ i > ChunkCount /\ UNCHANGED faults
  /\ todo' = todo \ {i}
  /\ thread' = [thread EXCEPT ![i] = Idle]
  /\ \/ /\ rows' = Updated(i, "entities", "failed")
        /\ muddled' = IF Settled(rows[sha][i]) THEN muddled \cup {<<sha, i>>} ELSE muddled
     \/ /\ "chunk" \in RaiseIn
        /\ UNCHANGED rows
        /\ muddled' = muddled \cup {<<sha, i>>}
  /\ clean' = (clean /\ i > ChunkCount)
  /\ UNCHANGED <<note, cache, runs, pc, run, statuses, outcome>>

-----------------------------------------------------------------------------
(***************************************************************************)
(* The end of a pass, the judgement, and the merge.                        *)
(***************************************************************************)
(* Seeded fault: a step that was never asked does not count.               *)
FailedOnly(rs) == {i \in Seqs : "failed" \in {rs[i][st] : st \in Steps}}

Incomplete(rs) == {i \in Seqs : {"failed", "pending"} \cap {rs[i][st] : st \in Steps} # {}}

PassOver == todo = {} /\ Busy = {}

Retry ==
  /\ pc = "pass1" /\ PassOver
  /\ statuses' = rows[sha]
  /\ todo' = Incomplete(rows[sha])
  /\ Goto("pass2")
  /\ UNCHANGED <<note, rows, cache, stash, thread, outcome, aux>>

Judge ==
  /\ pc = "pass2" /\ PassOver
  /\ Goto("judge")
  /\ UNCHANGED <<note, rows, cache, stash, statuses, todo, thread, outcome, aux>>

(* The run is over and its locals with it.                                 *)
Forgotten == [i \in Seqs |-> Absent]

End(how) ==
  /\ pc' = "idle" /\ outcome' = how
  /\ mode' = "ingest" /\ statuses' = Forgotten
  /\ UNCHANGED <<runs, size, sha>>

(* A refusal puts back what --reextract has set aside, if it has.          *)
GiveUp(how) ==
  \/ ~stash.held /\ End(how)
  \/ /\ stash.held
     /\ pc' = "discard" /\ outcome' = how
     /\ UNCHANGED <<runs, mode, size, sha, statuses>>

Refuse ==
  /\ pc = "judge" /\ Incomplete(rows[sha]) # {}
  /\ GiveUp("refused")
  /\ UNCHANGED <<faults, note, rows, cache, stash, todo, thread, aux>>

Accept ==
  /\ pc = "judge" /\ Incomplete(rows[sha]) = {}
  /\ Goto("merge")
  /\ UNCHANGED <<note, rows, cache, stash, statuses, todo, thread, outcome, aux>>

(* A chunk without a JSON is skipped with a warning, one whose JSON cannot *)
(* be read raises (RaiseOutside).                                          *)
Readable == \A i \in 1..ChunkCount : cache[sha][i] # Torn
Merged == [i \in {j \in 1..ChunkCount : cache[sha][j] # NoAnswers} |-> cache[sha][i]]
Observations(chunks) == {k \in DOMAIN chunks : chunks[k].entities = "some"}

(* An unchanged note may not shrink to nothing.                            *)
ShrankToNothing ==
  stash.held /\ Observations(Merged) = {} /\ Observations(staged.chunks) # {}

Stage ==
  /\ pc = "merge" /\ Readable /\ ~ShrankToNothing
  /\ staged' = [of |-> sha, chunks |-> Merged]
  /\ End("staged")
  /\ stash' = NoStash
  /\ UNCHANGED <<faults, body, cut, rows, cache, todo, thread, aux>>

RefuseEmpty ==
  /\ pc = "merge" /\ Readable /\ ShrankToNothing
  /\ GiveUp("refused")
  /\ clean' = FALSE
  /\ UNCHANGED <<faults, note, rows, cache, stash, todo, thread, muddled>>

(* _restore_extraction_cache: drop what this run wrote, move the folder    *)
(* back, then the rows in one transaction.                                 *)
Discard ==
  /\ pc = "discard"
  /\ cache' = [cache EXCEPT ![sha] = NoCache]
  /\ Goto("putback")
  /\ UNCHANGED <<note, rows, stash, statuses, todo, thread, outcome, aux>>

PutBack ==
  /\ pc = "putback"
  /\ cache' = [cache EXCEPT ![sha] = stash.cache]
  /\ Goto("relist")
  /\ UNCHANGED <<note, rows, stash, statuses, todo, thread, outcome, aux>>

(* Seeded fault: rows this run has written are left.                       *)
RelistMissing ==
  /\ pc = "relist"
  /\ rows' = [rows EXCEPT ![sha] = [i \in Seqs |-> IF @[i] = Absent THEN stash.rows[i] ELSE @[i]]]
  /\ End(outcome)
  /\ stash' = NoStash
  /\ UNCHANGED <<faults, note, cache, todo, thread, aux>>

Relist ==
  /\ pc = "relist"
  /\ rows' = [rows EXCEPT ![sha] = stash.rows]
  /\ End(outcome)
  /\ stash' = NoStash
  /\ UNCHANGED <<faults, note, cache, todo, thread, aux>>

(* Ctrl-C and the like end a pass: the pool lets its threads finish, the   *)
(* sequential loop does not.                                               *)
Interrupt ==
  /\ Fault
  /\ InPass
  /\ PassOver \/ pc = "pass2" \/ Workers = 1
  /\ todo' = {}
  /\ thread' = [i \in Seqs |-> Idle]
  /\ GiveUp("interrupted")
  /\ clean' = FALSE
  /\ UNCHANGED <<note, rows, cache, stash, muddled>>

(* Everything before the passes and after them is outside the try.         *)
RaiseOutside ==
  /\ \/ pc \in RaiseIn /\ Fault
     \/ pc = "merge" /\ ~Readable /\ UNCHANGED faults
  /\ End("raised")
  /\ clean' = FALSE
  /\ stash' = NoStash
  /\ UNCHANGED <<note, rows, cache, todo, thread, muddled>>

(* The process dies: its memory is gone, and with it which folder of the   *)
(* stash was whose.  Chunk files are written one by one.                   *)
Crash ==
  /\ Fault
  /\ pc \in CrashIn
  /\ \/ UNCHANGED cut
     \/ pc = "split" /\ cut' = [cut EXCEPT !.of = body, !.size = size, !.whole = FALSE]
  /\ End("died")
  /\ todo' = {}
  /\ thread' = [i \in Seqs |-> Idle]
  /\ stash' = NoStash
  /\ clean' = FALSE
  /\ UNCHANGED <<body, staged, rows, cache, muddled>>

Next ==
  \/ Edit
  \/ \E s \in Sizes : Ingest(s) \/ Reextract(s) \/ ExtractKg(s) \/ RedoProperties(s)
  \/ SplitNote \/ StampSplit \/ CheckChunks
  \/ ForgetRows \/ SetAside \/ Prepare
  \/ \E i \in Seqs : AskChunk(i) \/ Truncate(i) \/ WriteChunk(i) \/ MarkStep(i) \/ RaiseChunk(i)
  \/ Retry \/ Judge \/ Refuse \/ Accept \/ Stage \/ RefuseEmpty
  \/ Discard \/ PutBack \/ Relist
  \/ Interrupt \/ RaiseOutside \/ Crash

Spec == Init /\ [][Next]_vars

-----------------------------------------------------------------------------
(***************************************************************************)
(* Properties.                                                             *)
(***************************************************************************)
(* "an `ok` row must never point at a JSON a crash kept from being         *)
(* written" (ingest.py:4009): whatever a row says is answered is in the    *)
(* chunk's JSON, at every point at which the process may die, but for a    *)
(* restore and the bodies of TornIn, whose rows are ok beside a torn JSON.     *)
Answered(a, step) ==
  CASE step = "entities" -> a.entities # "unasked"
    [] step = "properties" -> a.properties # "unasked"
    [] OTHER -> a.relationships # "unasked"

OkRowHasAnswer ==
  pc \notin {"putback", "relist"} =>
    \A b \in Bodies \ TornIn, i \in Seqs, step \in Steps :
      rows[b][i][step] = "ok" => Answered(cache[b][i], step)

(* What is staged is the whole of one body, cut once: chunk i is the i-th  *)
(* chunk of it, every chunk is there, and each was asked.                  *)
StagedWhole ==
  \E b \in Bodies, s \in Sizes :
    /\ DOMAIN staged.chunks = 1..Count(b, s)
    /\ \A i \in DOMAIN staged.chunks :
         /\ staged.chunks[i].text = Text(b, s, i)
         /\ staged.chunks[i].entities # "unasked"

(* "the resume would skip the chunk and the merge would silently drop it"  *)
(* (ingest.py:4011) is what must not happen.  It does not where no write   *)
(* of a JSON is cut short (TornIn); see TornStagedWhole.                   *)
StagedIsWhole == staged.of \notin TornIn \cup {0} => StagedWhole

(* False: a pass rewrites the JSON of a chunk whose row is ok and ends in  *)
(* the middle; the next run takes the torn file for an empty one           *)
(* (ingest.py:3975-3979) beside that row, and stages the chunk without     *)
(* its answers.                                                            *)
TornStagedWhole == staged.of # 0 => StagedWhole

(* document.json's content_sha256 is the next ingest's baseline: what it   *)
(* claims is the body whose chunks are staged.                             *)
StagedIsClaimed ==
  \A i \in DOMAIN staged.chunks : staged.chunks[i].text[1] = staged.of

(* Properties and relationships name entities by the ids the entities step *)
(* gave them: "its entities step `failed`, so a resume redoes it and the   *)
(* steps after it" (ingest.py:4149).                                       *)
StagedAgrees ==
  \A i \in DOMAIN staged.chunks :
    staged.chunks[i].entities = "some" =>
      staged.chunks[i].properties = "current" /\ staged.chunks[i].relationships = "current"

(* The same, but for a chunk that raised after a step had been settled or  *)
(* whose failure could not be recorded.                                    *)
StagedAgreesUnlessMuddled ==
  \A i \in DOMAIN staged.chunks :
    <<staged.of, i>> \notin muddled /\ staged.chunks[i].entities = "some" =>
      staged.chunks[i].properties = "current" /\ staged.chunks[i].relationships = "current"

(* "a failed `--reextract` never costs the previous answers"               *)
(* (ingest.py:201): a re-extraction that ends without being staged, other  *)
(* than by the death of its process, leaves the rows and the JSONs that    *)
(* were there when it began.                                               *)
CostsNothing(how) ==
  stash.held /\ pc' = "idle" /\ outcome' \in how
    => rows'[sha] = stash.rows /\ cache'[sha] = stash.cache

FailedReextractCostsNothing ==
  [][CostsNothing({"refused", "interrupted", "raised"})]_vars

(* The same, but for an error outside the passes and the judgement.        *)
RefusedReextractCostsNothing ==
  [][CostsNothing({"refused", "interrupted"})]_vars

(* A run none of whose calls fails is staged, whatever runs before it      *)
(* failed, raised or died: nothing an earlier run left is in its way.      *)
CleanRunIsStaged == [][pc # "idle" /\ pc' = "idle" /\ clean' => outcome' = "staged"]_vars
=============================================================================
