------------------------- MODULE Extraction_proofs -------------------------
(***************************************************************************)
(* Proofs about Extraction, for any bodies, sizes, threads and bounds:     *)
(* TypeOK; OkRowHasAnswer, where the process does not die between the two  *)
(* halves of putting back what --reextract has set aside, for the bodies   *)
(* no write of whose JSONs is cut short; whatever dies and raises, RefusedReextractCostsNothing;*)
(* and of what is staged, under the hypotheses each theorem states, that   *)
(* it is the body it claims, that it is whole, and that it agrees with     *)
(* itself.                                                                 *)
(***************************************************************************)
EXTENDS Extraction, SequenceTheorems, FiniteSetTheorems, TLAPS

(* The invariant, in parts.  First the shapes of what is written.          *)
Parts == {"text", "entities", "properties", "relationships"}

Places == body \in Bodies /\ sha \in Bodies /\ DOMAIN stash = {"held", "rows", "cache"}

RowsShape ==
  /\ rows \in [Bodies -> [Seqs -> [Steps -> Status]]]
  /\ stash.rows \in [Seqs -> [Steps -> Status]]

CacheShape ==
  /\ DOMAIN cache = Bodies
  /\ \A b \in Bodies : DOMAIN cache[b] = Seqs /\ \A i \in Seqs : DOMAIN cache[b][i] = Parts
  /\ DOMAIN stash.cache = Seqs /\ \A i \in Seqs : DOMAIN stash.cache[i] = Parts

ThreadShape ==
  /\ DOMAIN thread = Seqs
  /\ \A i \in Seqs : /\ DOMAIN thread[i] = {"at", "data", "marks"}
                     /\ DOMAIN thread[i].data = Parts
                     /\ thread[i].marks \in Seq(Steps \X Status)

Shapes == Places /\ RowsShape /\ CacheShape /\ ThreadShape

(* A restore is under way only of a stash that is held, and the rows go    *)
(* back once the folder has.                                               *)
Restoring ==
  /\ pc = "idle" => ~stash.held
  /\ pc = "relist" => cache[sha] = stash.cache
  /\ pc \in {"discard", "putback", "relist"} => stash.held

(* Whatever rows r say is answered, the JSONs c answer.                    *)
Backed(r, c) == \A i \in Seqs, step \in Steps : r[i][step] = "ok" => Answered(c[i], step)

(* Whatever a thread will mark as answered, the data answer.               *)
Good(data, marks) ==
  \A k \in DOMAIN marks : marks[k][2] = "ok" => Answered(data, marks[k][1])

(* Threads: the JSON is written before the first mark of it, and answers   *)
(* all the one before it did.                                              *)
Threads ==
  \A i \in Seqs :
    /\ thread[i].at \in {"idle", "asked", "marking"}
    /\ thread[i].at # "idle" => pc \in {"pass1", "pass2"}
    /\ thread[i].at = "asked" =>
         /\ Good(thread[i].data, thread[i].marks)
         /\ \A step \in Steps : Answered(cache[sha][i], step) => Answered(thread[i].data, step)
    /\ thread[i].at = "marking" => Good(cache[sha][i], thread[i].marks)

(* What is in use is backed, and what has been set aside, of the bodies no *)
(* write of whose JSONs is cut short.                                      *)
Kept ==
  /\ \A b \in Bodies \ TornIn : (b = sha /\ pc \in {"putback", "relist"}) \/ Backed(rows[b], cache[b])
  /\ stash.held /\ sha \notin TornIn => Backed(stash.rows, IF pc = "setaside" THEN cache[sha] ELSE stash.cache)
  /\ pc = "setaside" => stash.held /\ \A i \in Seqs, step \in Steps : rows[sha][i][step] # "ok"

-----------------------------------------------------------------------------

(* Two lists of marks that the data answer, one after the other.           *)
LEMMA MarksOfBoth ==
    ASSUME NEW data, NEW s \in Seq(Steps \X Status), NEW t \in Seq(Steps \X Status),
           Good(data, s), Good(data, t)
    PROVE  s \o t \in Seq(Steps \X Status) /\ Good(data, s \o t)
  <1>1. /\ s \o t \in Seq(Steps \X Status) /\ Len(s \o t) = Len(s) + Len(t)
        /\ \A k \in 1 .. Len(s) + Len(t) : (s \o t)[k] = IF k <= Len(s) THEN s[k] ELSE t[k - Len(s)]
    BY ConcatProperties
  <1>2. ASSUME NEW k \in DOMAIN (s \o t), (s \o t)[k][2] = "ok"
        PROVE  Answered(data, (s \o t)[k][1])
    <2>1. k \in 1 .. Len(s) + Len(t)
      BY <1>1
    <2>2. CASE k <= Len(s)
      BY <1>1, <1>2, <2>1, <2>2 DEF Good
    <2>3. CASE ~(k <= Len(s))
      <3>1. k - Len(s) \in DOMAIN t
        BY <2>1, <2>3
      <3>2. QED
        BY <1>1, <1>2, <2>1, <2>3, <3>1 DEF Good
    <2>4. QED
      BY <2>2, <2>3
  <1>3. QED
    BY <1>1, <1>2 DEF Good

(* A thread has asked: what it will mark as answered it has in its data,   *)
(* and nothing that was answered before is missing there.                  *)
LEMMA AskedIsGood ==
    ASSUME Shapes, NEW i \in Seqs, NEW e \in {"failed", "none", "some"},
           NEW p \in {"failed", "ok"}, NEW r \in {"failed", "ok"}
    PROVE  /\ DOMAIN Asked(i, e, p, r) = {"at", "data", "marks"}
           /\ Asked(i, e, p, r).at = "asked"
           /\ DOMAIN Asked(i, e, p, r).data = Parts
           /\ Asked(i, e, p, r).marks \in Seq(Steps \X Status)
           /\ Good(Asked(i, e, p, r).data, Asked(i, e, p, r).marks)
           /\ \A step \in Steps : Answered(cache[sha][i], step)
                                    => Answered(Asked(i, e, p, r).data, step)
  <1> DEFINE askE == statuses[i]["entities"] # "ok"
             d == Redone(i, IF askE THEN e ELSE "kept")
             has == (askE => e # "failed") /\ d.entities = "some"
             pm == Depends(i, "properties", has, p)
             rm == Depends(i, "relationships", has, r)
             em == IF ~askE THEN "kept" ELSE IF e = "failed" THEN e ELSE "ok"
             Mark(step, m) == IF m = "kept" THEN <<>> ELSE <<<<step, m>>>>
             data == [d EXCEPT !.properties = IF pm = "ok" THEN "current" ELSE @,
                               !.relationships = IF rm = "ok" THEN "current" ELSE @]
             c == cache[sha][i]
  <1>1. Asked(i, e, p, r) = [at |-> "asked", data |-> data,
            marks |-> Mark("entities", em) \o Mark("properties", pm) \o Mark("relationships", rm)]
    BY DEF Asked
  <1>2. DOMAIN c = Parts
    BY DEF Shapes, Places, CacheShape
  <1>3. /\ DOMAIN d = Parts
        /\ askE /\ e # "failed" => d.entities = e
        /\ ~(askE /\ e # "failed") => d.entities = c.entities
        /\ d.properties \in {c.properties, "stale"} /\ d.relationships \in {c.relationships, "stale"}
    BY <1>2 DEF Redone, Parts
  <1>4. pm \in {"skipped", "kept", "failed", "ok"} /\ rm \in {"skipped", "kept", "failed", "ok"}
    BY DEF Depends
  <1>5. em \in {"kept", "failed", "ok"} /\ (em = "ok" => d.entities \in {"none", "some"})
    BY <1>3
  <1> HIDE DEF d, pm, rm, em, c
  <1>6. /\ DOMAIN data = Parts
        /\ data.entities = d.entities
        /\ data.properties = IF pm = "ok" THEN "current" ELSE d.properties
        /\ data.relationships = IF rm = "ok" THEN "current" ELSE d.relationships
    BY <1>3 DEF Parts
  <1> HIDE DEF data
  <1>7. ASSUME NEW step \in Steps, NEW m \in {"skipped", "kept", "failed", "ok"},
               m = "ok" => Answered(data, step)
        PROVE  Mark(step, m) \in Seq(Steps \X Status) /\ Good(data, Mark(step, m))
    <2>1. CASE m = "kept"
      BY <2>1 DEF Good
    <2>2. CASE m # "kept"
      <3>1. <<step, m>> \in Steps \X Status
        BY <2>2 DEF Status
      <3>2. Mark(step, m) = <<<<step, m>>>>
        BY <2>2
      <3>3. QED
        BY <1>7, <3>1, <3>2 DEF Good
    <2>3. QED
      BY <2>1, <2>2
  <1>8. /\ em = "ok" => Answered(data, "entities")
        /\ pm = "ok" => Answered(data, "properties")
        /\ rm = "ok" => Answered(data, "relationships")
    BY <1>5, <1>6 DEF Answered
  <1>9. {"entities", "properties", "relationships"} = Steps
    BY DEF Steps
  <1> HIDE DEF Mark
  <1>10. LET ms == Mark("entities", em) \o Mark("properties", pm) \o Mark("relationships", rm)
         IN  ms \in Seq(Steps \X Status) /\ Good(data, ms)
    BY <1>4, <1>5, <1>7, <1>8, <1>9, MarksOfBoth
  <1>11. \A step \in Steps : Answered(c, step) => Answered(data, step)
    BY <1>3, <1>6, <1>9 DEF Answered
  <1>12. QED
    BY <1>1, <1>6, <1>10, <1>11 DEF c

(* An UPDATE of one status of a row, or of no row.                         *)
LEMMA OneMark ==
    ASSUME Places, RowsShape, NEW i \in Seqs, NEW step \in Steps, NEW status \in Status
    PROVE  Updated(i, step, status) \in [Bodies -> [Seqs -> [Steps -> Status]]]
  <1>1. rows[sha] \in [Seqs -> [Steps -> Status]] /\ rows[sha][i] \in [Steps -> Status]
    BY DEF Places, RowsShape
  <1>2. [rows[sha][i] EXCEPT ![step] = status] \in [Steps -> Status]
    BY <1>1
  <1>3. [rows[sha] EXCEPT ![i] = [rows[sha][i] EXCEPT ![step] = status]] \in [Seqs -> [Steps -> Status]]
    BY <1>1, <1>2
  <1>4. [rows EXCEPT ![sha][i][step] = status] =
          [rows EXCEPT ![sha] = [rows[sha] EXCEPT ![i] = [rows[sha][i] EXCEPT ![step] = status]]]
    BY DEF RowsShape
  <1>5. QED
    BY <1>3, <1>4 DEF Updated, RowsShape, Places

(* A thread goes to its next mark, or is done.                             *)
LEMMA MarkedThread ==
    ASSUME ThreadShape, NEW i \in Seqs, MarkStep(i)
    PROVE  \/ thread' = [thread EXCEPT ![i] = Idle]
           \/ /\ thread[i].marks # <<>>
              /\ thread' = [thread EXCEPT ![i] = [thread[i] EXCEPT !.marks = Tail(thread[i].marks)]]
  <1>1. CASE thread[i].marks = <<>>
    BY <1>1 DEF MarkStep
  <1>2. CASE thread[i].marks # <<>>
    <2>1. thread' = [thread EXCEPT ![i] = IF Len(thread[i].marks) = 1 THEN Idle
                                          ELSE [thread[i] EXCEPT !.marks = Tail(thread[i].marks)]]
      BY <1>2 DEF MarkStep, ThreadShape
    <2>2. QED
      BY <1>2, <2>1
  <1>3. QED
    BY <1>1, <1>2

(* Every step keeps Places.                                                *)
LEMMA PlacesStep == ASSUME Places, [Next]_vars PROVE Places'
  <1> USE BoundsAssumption DEF note, run, aux, Places
  <1>1. CASE Edit
    BY <1>1 DEF Edit, Bodies
  <1>2. ASSUME NEW s \in Sizes, Ingest(s) PROVE Places'
    BY <1>2 DEF Ingest, Begin, NoStash
  <1>3. ASSUME NEW s \in Sizes, Reextract(s) PROVE Places'
    BY <1>3 DEF Reextract, Begin, NoStash
  <1>4. ASSUME NEW s \in Sizes, ExtractKg(s) PROVE Places'
    BY <1>4 DEF ExtractKg, Begin, NoStash
  <1>5. ASSUME NEW s \in Sizes, RedoProperties(s) PROVE Places'
    BY <1>5 DEF RedoProperties, Begin, NoStash
  <1>6. CASE SplitNote
    BY <1>6 DEF SplitNote, Goto, NoStash
  <1>7. CASE StampSplit
    BY <1>7 DEF StampSplit, Goto, NoStash
  <1>8. CASE CheckChunks
    BY <1>8 DEF CheckChunks, Goto, NoStash
  <1>9. CASE ForgetRows
    BY <1>9 DEF ForgetRows, Goto, NoStash
  <1>10. CASE SetAside
    BY <1>10 DEF SetAside, Goto, NoStash
  <1>11. CASE Prepare
    BY <1>11 DEF Prepare, Goto, NoStash
  <1>12. ASSUME NEW i \in Seqs, AskChunk(i) PROVE Places'
    BY <1>12 DEF AskChunk, InPass, NoStash
  <1>13. ASSUME NEW i \in Seqs, WriteChunk(i) PROVE Places'
    BY <1>13 DEF WriteChunk, NoStash
  <1>13a. ASSUME NEW i \in Seqs, Truncate(i) PROVE Places'
    BY <1>13a DEF Truncate, NoStash
  <1>14. ASSUME NEW i \in Seqs, MarkStep(i) PROVE Places'
    BY <1>14 DEF MarkStep, Updated, NoStash
  <1>15. ASSUME NEW i \in Seqs, RaiseChunk(i) PROVE Places'
    BY <1>15 DEF RaiseChunk, InPass, Updated, Fault, NoStash
  <1>16. CASE Retry
    BY <1>16 DEF Retry, Goto, NoStash
  <1>17. CASE Judge
    BY <1>17 DEF Judge, Goto, PassOver, NoStash
  <1>18. CASE Refuse
    BY <1>18 DEF Refuse, GiveUp, End, NoStash
  <1>19. CASE Accept
    BY <1>19 DEF Accept, Goto, NoStash
  <1>20. CASE Stage
    BY <1>20 DEF Stage, End, NoStash
  <1>21. CASE RefuseEmpty
    BY <1>21 DEF RefuseEmpty, GiveUp, End, NoStash
  <1>22. CASE Discard
    BY <1>22 DEF Discard, Goto, NoStash
  <1>23. CASE PutBack
    BY <1>23 DEF PutBack, Goto, NoStash
  <1>24. CASE Relist
    BY <1>24 DEF Relist, End, NoStash
  <1>25. CASE Interrupt
    BY <1>25 DEF Interrupt, GiveUp, End, InPass, NoStash
  <1>26. CASE RaiseOutside
    BY <1>26 DEF RaiseOutside, End, NoStash
  <1>27. CASE Crash
    BY <1>27 DEF Crash, End, NoStash
  <1>28. CASE UNCHANGED vars
    BY <1>28 DEF vars, NoStash
  <1>29. QED
    BY <1>1, <1>2, <1>3, <1>4, <1>5, <1>6, <1>7, <1>8, <1>9, <1>10, <1>11,
       <1>12, <1>13, <1>13a, <1>14, <1>15, <1>16, <1>17, <1>18, <1>19, <1>20, <1>21,
       <1>22, <1>23, <1>24, <1>25, <1>26, <1>27, <1>28
    DEF Next

(* Every step keeps RowsShape.                                             *)
LEMMA RowsStep == ASSUME Places, RowsShape, ThreadShape, [Next]_vars PROVE RowsShape'
  <1> USE DEF note, run, aux, Places, RowsShape
  <1>1. CASE Edit
    BY <1>1 DEF Edit, NoStash, Absent, Status
  <1>2. ASSUME NEW s \in Sizes, Ingest(s) PROVE RowsShape'
    BY <1>2 DEF Ingest, Begin, NoStash, Absent, Status
  <1>3. ASSUME NEW s \in Sizes, Reextract(s) PROVE RowsShape'
    BY <1>3 DEF Reextract, Begin, NoStash, Absent, Status
  <1>4. ASSUME NEW s \in Sizes, ExtractKg(s) PROVE RowsShape'
    BY <1>4 DEF ExtractKg, Begin, NoStash, Absent, Status
  <1>5. ASSUME NEW s \in Sizes, RedoProperties(s) PROVE RowsShape'
    <2> DEFINE new(i) == IF rows[body][i]["entities"] = "ok"
                         THEN [rows[body][i] EXCEPT !["properties"] = "pending"]
                         ELSE rows[body][i]
    <2>1. ASSUME NEW i \in Seqs PROVE new(i) \in [Steps -> Status]
      <3>1. rows[body][i] \in [Steps -> Status] /\ "pending" \in Status
        BY DEF Status
      <3>2. [rows[body][i] EXCEPT !["properties"] = "pending"] \in [Steps -> Status]
        BY <3>1
      <3>3. QED
        BY <3>1, <3>2
    <2>2. rows' = [rows EXCEPT ![body] = [i \in Seqs |-> new(i)]]
      BY <1>5 DEF RedoProperties
    <2>3. stash' = NoStash
      BY <1>5 DEF RedoProperties, Begin
    <2> HIDE DEF new
    <2>4. rows' \in [Bodies -> [Seqs -> [Steps -> Status]]]
      BY <2>1, <2>2
    <2>5. QED
      BY <2>3, <2>4 DEF NoStash, Absent, Status
  <1>6. CASE SplitNote
    BY <1>6 DEF SplitNote, Goto, NoStash, Absent, Status
  <1>7. CASE StampSplit
    BY <1>7 DEF StampSplit, Goto, NoStash, Absent, Status
  <1>8. CASE CheckChunks
    BY <1>8 DEF CheckChunks, Goto, NoStash, Absent, Status
  <1>9. CASE ForgetRows
    BY <1>9 DEF ForgetRows, Goto, NoStash, Absent, Status
  <1>10. CASE SetAside
    BY <1>10 DEF SetAside, Goto, NoStash, Absent, Status
  <1>11. CASE Prepare
    <2>1. \A i \in Seqs : Prepared[i] \in [Steps -> Status]
      BY DEF Prepared, Pending, Status
    <2>2. Prepared \in [Seqs -> [Steps -> Status]]
      BY <2>1 DEF Prepared
    <2>3. rows' = [rows EXCEPT ![sha] = Prepared] /\ UNCHANGED stash
      BY <1>11 DEF Prepare
    <2>4. QED
      BY <2>2, <2>3
  <1>12. ASSUME NEW i \in Seqs, AskChunk(i) PROVE RowsShape'
    BY <1>12 DEF AskChunk, InPass, NoStash, Absent, Status
  <1>13. ASSUME NEW i \in Seqs, WriteChunk(i) PROVE RowsShape'
    BY <1>13 DEF WriteChunk, NoStash, Absent, Status
  <1>13a. ASSUME NEW i \in Seqs, Truncate(i) PROVE RowsShape'
    BY <1>13a DEF Truncate, NoStash, Absent, Status
  <1>14. ASSUME NEW i \in Seqs, MarkStep(i) PROVE RowsShape'
    <2>1. CASE rows' = rows
      BY <1>14, <2>1 DEF MarkStep
    <2>2. CASE thread[i].marks # <<>>
               /\ rows' = Updated(i, Head(thread[i].marks)[1], Head(thread[i].marks)[2])
      <3>1. Head(thread[i].marks) \in Steps \X Status
        BY <2>2 DEF ThreadShape
      <3>2. rows' \in [Bodies -> [Seqs -> [Steps -> Status]]]
        BY <2>2, <3>1, OneMark
      <3>3. QED
        BY <1>14, <3>2 DEF MarkStep
    <2>3. QED
      BY <1>14, <2>1, <2>2 DEF MarkStep
  <1>15. ASSUME NEW i \in Seqs, RaiseChunk(i) PROVE RowsShape'
    <2>1. "entities" \in Steps /\ "failed" \in Status
      BY DEF Steps, Status
    <2>2. rows' \in [Bodies -> [Seqs -> [Steps -> Status]]]
      <3>1. rows' = rows \/ rows' = Updated(i, "entities", "failed")
        BY <1>15 DEF RaiseChunk
      <3>2. QED
        BY <2>1, <3>1, OneMark
    <2>3. QED
      BY <1>15, <2>2 DEF RaiseChunk
  <1>16. CASE Retry
    BY <1>16 DEF Retry, Goto, NoStash, Absent, Status
  <1>17. CASE Judge
    BY <1>17 DEF Judge, Goto, PassOver, NoStash, Absent, Status
  <1>18. CASE Refuse
    BY <1>18 DEF Refuse, GiveUp, End, NoStash, Absent, Status
  <1>19. CASE Accept
    BY <1>19 DEF Accept, Goto, NoStash, Absent, Status
  <1>20. CASE Stage
    BY <1>20 DEF Stage, End, NoStash, Absent, Status
  <1>21. CASE RefuseEmpty
    BY <1>21 DEF RefuseEmpty, GiveUp, End, NoStash, Absent, Status
  <1>22. CASE Discard
    BY <1>22 DEF Discard, Goto, NoStash, Absent, Status
  <1>23. CASE PutBack
    BY <1>23 DEF PutBack, Goto, NoStash, Absent, Status
  <1>24. CASE Relist
    BY <1>24 DEF Relist, End, NoStash, Absent, Status
  <1>25. CASE Interrupt
    BY <1>25 DEF Interrupt, GiveUp, End, InPass, NoStash, Absent, Status
  <1>26. CASE RaiseOutside
    BY <1>26 DEF RaiseOutside, End, NoStash, Absent, Status
  <1>27. CASE Crash
    BY <1>27 DEF Crash, End, NoStash, Absent, Status
  <1>28. CASE UNCHANGED vars
    BY <1>28 DEF vars, NoStash, Absent, Status
  <1>29. QED
    BY <1>1, <1>2, <1>3, <1>4, <1>5, <1>6, <1>7, <1>8, <1>9, <1>10, <1>11,
       <1>12, <1>13, <1>13a, <1>14, <1>15, <1>16, <1>17, <1>18, <1>19, <1>20, <1>21,
       <1>22, <1>23, <1>24, <1>25, <1>26, <1>27, <1>28
    DEF Next

(* Every step keeps CacheShape.                                            *)
LEMMA CacheStep ==
    ASSUME Places, CacheShape, ThreadShape, [Next]_vars
    PROVE  CacheShape'
  <1> USE DEF note, run, aux, Places, CacheShape, ThreadShape
  <1>a. DOMAIN NoCache = Seqs /\ \A i \in Seqs : DOMAIN NoCache[i] = Parts
    BY DEF NoCache, NoAnswers, Parts
  <1> USE <1>a
  <1>1. CASE Edit
    BY <1>1 DEF Edit, NoStash
  <1>2. ASSUME NEW s \in Sizes, Ingest(s) PROVE CacheShape'
    BY <1>2 DEF Ingest, Begin, NoStash
  <1>3. ASSUME NEW s \in Sizes, Reextract(s) PROVE CacheShape'
    BY <1>3 DEF Reextract, Begin, NoStash
  <1>4. ASSUME NEW s \in Sizes, ExtractKg(s) PROVE CacheShape'
    BY <1>4 DEF ExtractKg, Begin, NoStash
  <1>5. ASSUME NEW s \in Sizes, RedoProperties(s) PROVE CacheShape'
    BY <1>5 DEF RedoProperties, Begin, NoStash
  <1>6. CASE SplitNote
    BY <1>6 DEF SplitNote, Goto, NoStash
  <1>7. CASE StampSplit
    BY <1>7 DEF StampSplit, Goto, NoStash
  <1>8. CASE CheckChunks
    BY <1>8 DEF CheckChunks, Goto, NoStash
  <1>9. CASE ForgetRows
    BY <1>9 DEF ForgetRows, Goto, NoStash
  <1>10. CASE SetAside
    BY <1>10 DEF SetAside, Goto, NoStash
  <1>11. CASE Prepare
    BY <1>11 DEF Prepare, Goto, NoStash
  <1>12. ASSUME NEW i \in Seqs, AskChunk(i) PROVE CacheShape'
    BY <1>12 DEF AskChunk, InPass, NoStash
  <1>13. ASSUME NEW i \in Seqs, WriteChunk(i) PROVE CacheShape'
    BY <1>13 DEF WriteChunk, NoStash
  <1>13a. ASSUME NEW i \in Seqs, Truncate(i) PROVE CacheShape'
    BY <1>13a DEF Truncate, NoStash, Torn, NoAnswers, Parts
  <1>14. ASSUME NEW i \in Seqs, MarkStep(i) PROVE CacheShape'
    BY <1>14 DEF MarkStep, Updated, NoStash
  <1>15. ASSUME NEW i \in Seqs, RaiseChunk(i) PROVE CacheShape'
    BY <1>15 DEF RaiseChunk, InPass, Updated, Fault, NoStash
  <1>16. CASE Retry
    BY <1>16 DEF Retry, Goto, NoStash
  <1>17. CASE Judge
    BY <1>17 DEF Judge, Goto, PassOver, NoStash
  <1>18. CASE Refuse
    BY <1>18 DEF Refuse, GiveUp, End, NoStash
  <1>19. CASE Accept
    BY <1>19 DEF Accept, Goto, NoStash
  <1>20. CASE Stage
    BY <1>20 DEF Stage, End, NoStash
  <1>21. CASE RefuseEmpty
    BY <1>21 DEF RefuseEmpty, GiveUp, End, NoStash
  <1>22. CASE Discard
    BY <1>22 DEF Discard, Goto, NoStash
  <1>23. CASE PutBack
    BY <1>23 DEF PutBack, Goto, NoStash
  <1>24. CASE Relist
    BY <1>24 DEF Relist, End, NoStash
  <1>25. CASE Interrupt
    BY <1>25 DEF Interrupt, GiveUp, End, InPass, NoStash
  <1>26. CASE RaiseOutside
    BY <1>26 DEF RaiseOutside, End, NoStash
  <1>27. CASE Crash
    BY <1>27 DEF Crash, End, NoStash
  <1>28. CASE UNCHANGED vars
    BY <1>28 DEF vars, NoStash
  <1>29. QED
    BY <1>1, <1>2, <1>3, <1>4, <1>5, <1>6, <1>7, <1>8, <1>9, <1>10, <1>11,
       <1>12, <1>13, <1>13a, <1>14, <1>15, <1>16, <1>17, <1>18, <1>19, <1>20, <1>21,
       <1>22, <1>23, <1>24, <1>25, <1>26, <1>27, <1>28
    DEF Next

(* Every step keeps ThreadShape.                                           *)
LEMMA ThreadStep == ASSUME Shapes, ThreadShape, [Next]_vars PROVE ThreadShape'
  <1> USE DEF note, run, aux, ThreadShape
  <1>a. DOMAIN Idle = {"at", "data", "marks"} /\ DOMAIN Idle.data = Parts
        /\ Idle.marks \in Seq(Steps \X Status)
    BY DEF Idle, NoAnswers, Parts
  <1> USE <1>a
  <1>1. CASE Edit
    BY <1>1 DEF Edit
  <1>2. ASSUME NEW s \in Sizes, Ingest(s) PROVE ThreadShape'
    BY <1>2 DEF Ingest, Begin
  <1>3. ASSUME NEW s \in Sizes, Reextract(s) PROVE ThreadShape'
    BY <1>3 DEF Reextract, Begin
  <1>4. ASSUME NEW s \in Sizes, ExtractKg(s) PROVE ThreadShape'
    BY <1>4 DEF ExtractKg, Begin
  <1>5. ASSUME NEW s \in Sizes, RedoProperties(s) PROVE ThreadShape'
    BY <1>5 DEF RedoProperties, Begin
  <1>6. CASE SplitNote
    BY <1>6 DEF SplitNote, Goto
  <1>7. CASE StampSplit
    BY <1>7 DEF StampSplit, Goto
  <1>8. CASE CheckChunks
    BY <1>8 DEF CheckChunks, Goto
  <1>9. CASE ForgetRows
    BY <1>9 DEF ForgetRows, Goto
  <1>10. CASE SetAside
    BY <1>10 DEF SetAside, Goto
  <1>11. CASE Prepare
    BY <1>11 DEF Prepare, Goto
  <1>12. ASSUME NEW i \in Seqs, AskChunk(i) PROVE ThreadShape'
    <2>1. PICK e \in {"failed", "none", "some"}, p \in {"failed", "ok"}, r \in {"failed", "ok"} :
             thread' = [thread EXCEPT ![i] = Asked(i, e, p, r)]
      BY <1>12 DEF AskChunk
    <2> DEFINE A == Asked(i, e, p, r)
    <2>2. /\ DOMAIN A = {"at", "data", "marks"} /\ DOMAIN A.data = Parts
          /\ A.marks \in Seq(Steps \X Status)
      BY ONLY Shapes, i \in Seqs, e \in {"failed", "none", "some"}, p \in {"failed", "ok"},
              r \in {"failed", "ok"}, AskedIsGood
    <2> HIDE DEF A
    <2>3. thread' = [thread EXCEPT ![i] = A]
      BY <2>1 DEF A
    <2>4. QED
      BY <2>2, <2>3
  <1>13. ASSUME NEW i \in Seqs, WriteChunk(i) PROVE ThreadShape'
    BY <1>13 DEF WriteChunk
  <1>13a. ASSUME NEW i \in Seqs, Truncate(i) PROVE ThreadShape'
    BY <1>13a DEF Truncate
  <1>14. ASSUME NEW i \in Seqs, MarkStep(i) PROVE ThreadShape'
    <2>1. CASE thread' = [thread EXCEPT ![i] = Idle]
      BY <2>1
    <2> DEFINE m == thread[i].marks
               next == [thread[i] EXCEPT !.marks = Tail(m)]
    <2>2. CASE m # <<>> /\ thread' = [thread EXCEPT ![i] = next]
      <3>1. m \in Seq(Steps \X Status)
        OBVIOUS
      <3>2. Tail(m) \in Seq(Steps \X Status)
        BY <2>2, <3>1, HeadTailProperties
      <3>3. /\ DOMAIN next = {"at", "data", "marks"} /\ next.data = thread[i].data
            /\ next.marks = Tail(m)
        OBVIOUS
      <3> HIDE DEF m, next
      <3>4. QED
        BY <2>2, <3>2, <3>3
    <2>3. thread' = [thread EXCEPT ![i] = Idle] \/ (m # <<>> /\ thread' = [thread EXCEPT ![i] = next])
      BY <1>14, MarkedThread
    <2>4. QED
      BY <2>1, <2>2, <2>3
  <1>15. ASSUME NEW i \in Seqs, RaiseChunk(i) PROVE ThreadShape'
    BY <1>15 DEF RaiseChunk, InPass, Updated, Fault
  <1>16. CASE Retry
    BY <1>16 DEF Retry, Goto
  <1>17. CASE Judge
    BY <1>17 DEF Judge, Goto, PassOver
  <1>18. CASE Refuse
    BY <1>18 DEF Refuse, GiveUp, End
  <1>19. CASE Accept
    BY <1>19 DEF Accept, Goto
  <1>20. CASE Stage
    BY <1>20 DEF Stage, End
  <1>21. CASE RefuseEmpty
    BY <1>21 DEF RefuseEmpty, GiveUp, End
  <1>22. CASE Discard
    BY <1>22 DEF Discard, Goto
  <1>23. CASE PutBack
    BY <1>23 DEF PutBack, Goto
  <1>24. CASE Relist
    BY <1>24 DEF Relist, End
  <1>25. CASE Interrupt
    BY <1>25 DEF Interrupt, GiveUp, End, InPass
  <1>26. CASE RaiseOutside
    BY <1>26 DEF RaiseOutside, End
  <1>27. CASE Crash
    BY <1>27 DEF Crash, End
  <1>28. CASE UNCHANGED vars
    BY <1>28 DEF vars
  <1>29. QED
    BY <1>1, <1>2, <1>3, <1>4, <1>5, <1>6, <1>7, <1>8, <1>9, <1>10, <1>11,
       <1>12, <1>13, <1>13a, <1>14, <1>15, <1>16, <1>17, <1>18, <1>19, <1>20, <1>21,
       <1>22, <1>23, <1>24, <1>25, <1>26, <1>27, <1>28
    DEF Next

(* Every step keeps Restoring: outside a run nothing is set aside, and the *)
(* folder is back before the rows are.                                     *)
LEMMA RestoringStep ==
    ASSUME Places, CacheShape, Threads, Restoring, [Next]_vars
    PROVE  Restoring'
  <1> USE DEF note, run, aux, Places, CacheShape, Restoring
  <1>1. CASE Edit
    BY <1>1 DEF Edit, NoStash
  <1>2. ASSUME NEW s \in Sizes, Ingest(s) PROVE Restoring'
    BY <1>2 DEF Ingest, Begin, NoStash
  <1>3. ASSUME NEW s \in Sizes, Reextract(s) PROVE Restoring'
    BY <1>3 DEF Reextract, Begin, NoStash
  <1>4. ASSUME NEW s \in Sizes, ExtractKg(s) PROVE Restoring'
    BY <1>4 DEF ExtractKg, Begin, NoStash
  <1>5. ASSUME NEW s \in Sizes, RedoProperties(s) PROVE Restoring'
    BY <1>5 DEF RedoProperties, Begin, NoStash
  <1>6. CASE SplitNote
    BY <1>6 DEF SplitNote, Goto, NoStash
  <1>7. CASE StampSplit
    BY <1>7 DEF StampSplit, Goto, NoStash
  <1>8. CASE CheckChunks
    BY <1>8 DEF CheckChunks, Goto, NoStash
  <1>9. CASE ForgetRows
    BY <1>9 DEF ForgetRows, Goto, NoStash
  <1>10. CASE SetAside
    BY <1>10 DEF SetAside, Goto, NoStash
  <1>11. CASE Prepare
    BY <1>11 DEF Prepare, Goto, NoStash
  <1>12. ASSUME NEW i \in Seqs, AskChunk(i) PROVE Restoring'
    BY <1>12 DEF AskChunk, InPass, NoStash
  <1>13. ASSUME NEW i \in Seqs, WriteChunk(i) PROVE Restoring'
    <2>1. pc \in {"pass1", "pass2"}
      BY <1>13 DEF WriteChunk, Threads
    <2>2. QED
      BY <1>13, <2>1 DEF WriteChunk
  <1>13a. ASSUME NEW i \in Seqs, Truncate(i) PROVE Restoring'
    <2>1. pc \in {"pass1", "pass2"}
      BY <1>13a DEF Truncate, Threads
    <2>2. QED
      BY <1>13a, <2>1 DEF Truncate
  <1>14. ASSUME NEW i \in Seqs, MarkStep(i) PROVE Restoring'
    BY <1>14 DEF MarkStep, Updated, NoStash
  <1>15. ASSUME NEW i \in Seqs, RaiseChunk(i) PROVE Restoring'
    BY <1>15 DEF RaiseChunk, InPass, Updated, Fault, NoStash
  <1>16. CASE Retry
    BY <1>16 DEF Retry, Goto, NoStash
  <1>17. CASE Judge
    BY <1>17 DEF Judge, Goto, PassOver, NoStash
  <1>18. CASE Refuse
    BY <1>18 DEF Refuse, GiveUp, End, NoStash
  <1>19. CASE Accept
    BY <1>19 DEF Accept, Goto, NoStash
  <1>20. CASE Stage
    BY <1>20 DEF Stage, End, NoStash
  <1>21. CASE RefuseEmpty
    BY <1>21 DEF RefuseEmpty, GiveUp, End, NoStash
  <1>22. CASE Discard
    BY <1>22 DEF Discard, Goto, NoStash
  <1>23. CASE PutBack
    BY <1>23 DEF PutBack, Goto, NoStash
  <1>24. CASE Relist
    BY <1>24 DEF Relist, End, NoStash
  <1>25. CASE Interrupt
    BY <1>25 DEF Interrupt, GiveUp, End, InPass, NoStash
  <1>26. CASE RaiseOutside
    BY <1>26 DEF RaiseOutside, End, NoStash
  <1>27. CASE Crash
    BY <1>27 DEF Crash, End, NoStash
  <1>28. CASE UNCHANGED vars
    BY <1>28 DEF vars, NoStash
  <1>29. QED
    BY <1>1, <1>2, <1>3, <1>4, <1>5, <1>6, <1>7, <1>8, <1>9, <1>10, <1>11,
       <1>12, <1>13, <1>13a, <1>14, <1>15, <1>16, <1>17, <1>18, <1>19, <1>20, <1>21,
       <1>22, <1>23, <1>24, <1>25, <1>26, <1>27, <1>28
    DEF Next

(* Every step keeps Threads: a thread works on its own JSON, within a pass.*)
LEMMA ThreadsStep == ASSUME Shapes, Threads, [Next]_vars PROVE Threads'
  <1> USE DEF note, run, aux, Threads
  <1>a. Places /\ CacheShape /\ ThreadShape
    BY DEF Shapes
  <1> USE <1>a DEF Places, CacheShape, ThreadShape
  <1>1. CASE Edit
    BY <1>1 DEF Edit, Idle
  <1>2. ASSUME NEW s \in Sizes, Ingest(s) PROVE Threads'
    BY <1>2 DEF Ingest, Begin, Idle
  <1>3. ASSUME NEW s \in Sizes, Reextract(s) PROVE Threads'
    BY <1>3 DEF Reextract, Begin, Idle
  <1>4. ASSUME NEW s \in Sizes, ExtractKg(s) PROVE Threads'
    BY <1>4 DEF ExtractKg, Begin, Idle
  <1>5. ASSUME NEW s \in Sizes, RedoProperties(s) PROVE Threads'
    BY <1>5 DEF RedoProperties, Begin, Idle
  <1>6. CASE SplitNote
    BY <1>6 DEF SplitNote, Goto, Idle
  <1>7. CASE StampSplit
    BY <1>7 DEF StampSplit, Goto, Idle
  <1>8. CASE CheckChunks
    BY <1>8 DEF CheckChunks, Goto, Idle
  <1>9. CASE ForgetRows
    BY <1>9 DEF ForgetRows, Goto, Idle
  <1>10. CASE SetAside
    BY <1>10 DEF SetAside, Goto, Idle
  <1>11. CASE Prepare
    BY <1>11 DEF Prepare, Goto, Idle
  <1>12. ASSUME NEW i \in Seqs, AskChunk(i) PROVE Threads'
    <2>1. PICK e \in {"failed", "none", "some"}, p \in {"failed", "ok"}, r \in {"failed", "ok"} :
             thread' = [thread EXCEPT ![i] = Asked(i, e, p, r)]
      BY <1>12 DEF AskChunk
    <2> DEFINE A == Asked(i, e, p, r)
    <2>2. /\ A.at = "asked" /\ Good(A.data, A.marks)
          /\ \A step \in Steps : Answered(cache[sha][i], step) => Answered(A.data, step)
      BY ONLY Shapes, i \in Seqs, e \in {"failed", "none", "some"}, p \in {"failed", "ok"},
              r \in {"failed", "ok"}, AskedIsGood
    <2> HIDE DEF A
    <2>3. thread' = [thread EXCEPT ![i] = A]
      BY <2>1 DEF A
    <2>4. UNCHANGED <<pc, sha, cache>> /\ pc \in {"pass1", "pass2"}
      BY <1>12 DEF AskChunk, InPass
    <2>5. QED
      BY <2>2, <2>3, <2>4
  <1>13. ASSUME NEW i \in Seqs, WriteChunk(i) PROVE Threads'
    BY <1>13 DEF WriteChunk, Idle
  <1>13a. ASSUME NEW i \in Seqs, Truncate(i) PROVE Threads'
    <2>1. /\ UNCHANGED <<thread, sha, pc>> /\ thread[i].at = "asked"
          /\ cache' = [cache EXCEPT ![sha][i] = Torn]
      BY <1>13a DEF Truncate
    <2>2. \A j \in Seqs \ {i} : cache'[sha][j] = cache[sha][j]
      BY <2>1 DEF Shapes, Places, CacheShape
    <2>3. cache'[sha][i] = Torn
      BY <2>1 DEF Shapes, Places, CacheShape
    <2>4. \A step \in Steps : ~Answered(Torn, step)
      BY DEF Answered, Torn, NoAnswers
    <2>5. QED
      BY <2>1, <2>2, <2>3, <2>4
  <1>14. ASSUME NEW i \in Seqs, MarkStep(i) PROVE Threads'
    <2>1. UNCHANGED <<pc, sha, cache>> /\ thread[i].at = "marking"
      BY <1>14 DEF MarkStep
    <2>2. \/ thread' = [thread EXCEPT ![i] = Idle]
          \/ /\ thread[i].marks # <<>>
             /\ thread' = [thread EXCEPT ![i] = [thread[i] EXCEPT !.marks = Tail(thread[i].marks)]]
      BY <1>14, MarkedThread
    <2>3. CASE thread' = [thread EXCEPT ![i] = Idle]
      BY <2>1, <2>3 DEF Idle
    <2> DEFINE m == thread[i].marks
               next == [thread[i] EXCEPT !.marks = Tail(m)]
    <2>4. CASE m # <<>> /\ thread' = [thread EXCEPT ![i] = next]
      <3>1. Good(cache[sha][i], m) /\ m \in Seq(Steps \X Status)
        BY <2>1
      <3>2. Good(cache[sha][i], Tail(m))
        BY <2>4, <3>1 DEF Good
      <3>3. next.at = "marking" /\ next.marks = Tail(m)
        BY <2>1
      <3> HIDE DEF m, next
      <3>4. QED
        BY <2>1, <2>4, <3>2, <3>3
    <2>5. QED
      BY <2>2, <2>3, <2>4
  <1>15. ASSUME NEW i \in Seqs, RaiseChunk(i) PROVE Threads'
    BY <1>15 DEF RaiseChunk, InPass, Updated, Fault, Idle
  <1>16. CASE Retry
    BY <1>16 DEF Retry, Goto, Idle
  <1>17. CASE Judge
    BY <1>17 DEF Judge, Goto, PassOver, Busy
  <1>18. CASE Refuse
    BY <1>18 DEF Refuse, GiveUp, End, Idle
  <1>19. CASE Accept
    BY <1>19 DEF Accept, Goto, Idle
  <1>20. CASE Stage
    BY <1>20 DEF Stage, End, Idle
  <1>21. CASE RefuseEmpty
    BY <1>21 DEF RefuseEmpty, GiveUp, End, Idle
  <1>22. CASE Discard
    BY <1>22 DEF Discard, Goto, Idle
  <1>23. CASE PutBack
    BY <1>23 DEF PutBack, Goto, Idle
  <1>24. CASE Relist
    BY <1>24 DEF Relist, End, Idle
  <1>25. CASE Interrupt
    BY <1>25 DEF Interrupt, GiveUp, End, InPass, Idle
  <1>26. CASE RaiseOutside
    BY <1>26, FaultsAssumption DEF RaiseOutside, End
  <1>27. CASE Crash
    BY <1>27 DEF Crash, End, Idle
  <1>28. CASE UNCHANGED vars
    BY <1>28 DEF vars, Idle
  <1>29. QED
    BY <1>1, <1>2, <1>3, <1>4, <1>5, <1>6, <1>7, <1>8, <1>9, <1>10, <1>11,
       <1>12, <1>13, <1>13a, <1>14, <1>15, <1>16, <1>17, <1>18, <1>19, <1>20, <1>21,
       <1>22, <1>23, <1>24, <1>25, <1>26, <1>27, <1>28
    DEF Next

(* Every step keeps Kept: what a thread marks as answered it has written   *)
(* before, and what is set aside is put back before the rows that speak of it.*)
LEMMA KeptStep ==
    ASSUME Shapes, Threads, Restoring, Kept, CrashIn \cap {"putback", "relist"} = {}, [Next]_vars
    PROVE  Kept'
  <1> USE DEF note, run, aux, Kept
  <1>a. Places /\ RowsShape /\ CacheShape /\ ThreadShape
    BY DEF Shapes
  <1> USE <1>a DEF Places, CacheShape, RowsShape
  <1>1. CASE Edit
    BY <1>1 DEF Edit, Backed, NoStash
  <1>2. ASSUME NEW s \in Sizes, Ingest(s) PROVE Kept'
    BY <1>2 DEF Ingest, Begin, Backed, NoStash
  <1>3. ASSUME NEW s \in Sizes, Reextract(s) PROVE Kept'
    BY <1>3 DEF Reextract, Begin, Backed, NoStash
  <1>4. ASSUME NEW s \in Sizes, ExtractKg(s) PROVE Kept'
    BY <1>4 DEF ExtractKg, Begin, Backed, NoStash
  <1>5. ASSUME NEW s \in Sizes, RedoProperties(s) PROVE Kept'
    BY <1>5 DEF RedoProperties, Begin, Backed, NoStash
  <1>6. CASE SplitNote
    BY <1>6 DEF SplitNote, Goto, Backed, NoStash
  <1>7. CASE StampSplit
    BY <1>7 DEF StampSplit, Goto, Backed, NoStash
  <1>8. CASE CheckChunks
    BY <1>8 DEF CheckChunks, Goto, Backed, NoStash
  <1>9. CASE ForgetRows
    BY <1>9 DEF ForgetRows, Goto, Backed, Absent
  <1>10. CASE SetAside
    BY <1>10 DEF SetAside, Goto, Backed, NoStash
  <1>11. CASE Prepare
    <2>1. pc = "prepare" /\ pc' = "pass1" /\ UNCHANGED <<cache, sha, stash>>
          /\ rows' = [rows EXCEPT ![sha] = Prepared]
      BY <1>11 DEF Prepare, Goto
    <2>2. \A i \in Seqs, step \in Steps : Prepared[i][step] = "ok" => rows[sha][i][step] = "ok"
      BY DEF Prepared, Pending
    <2>3. sha \notin TornIn => Backed(Prepared, cache[sha])
      BY <2>1, <2>2 DEF Backed
    <2>4. \A b \in Bodies : rows'[b] = IF b = sha THEN Prepared ELSE rows[b]
      BY <2>1
    <2>5. QED
      BY <2>1, <2>3, <2>4
  <1>12. ASSUME NEW i \in Seqs, AskChunk(i) PROVE Kept'
    BY <1>12 DEF AskChunk, InPass, Backed, NoStash
  <1>13. ASSUME NEW i \in Seqs, WriteChunk(i) PROVE Kept'
    <2>1. /\ pc \in {"pass1", "pass2"} /\ UNCHANGED <<pc, rows, sha, stash>>
          /\ \A step \in Steps : Answered(cache[sha][i], step) => Answered(thread[i].data, step)
      BY <1>13 DEF WriteChunk, Threads
    <2>2. cache' = [cache EXCEPT ![sha][i] = thread[i].data]
      BY <1>13 DEF WriteChunk
    <2>3. \A j \in Seqs, step \in Steps : Answered(cache[sha][j], step) => Answered(cache'[sha][j], step)
      BY <2>1, <2>2
    <2>4. \A b \in Bodies : b # sha => cache'[b] = cache[b]
      BY <2>2
    <2>5. \A b \in Bodies : Backed(rows[b], cache[b]) => Backed(rows'[b], cache'[b])
      BY <2>1, <2>3, <2>4 DEF Backed
    <2>6. QED
      BY <2>1, <2>5
  <1>13a. ASSUME NEW i \in Seqs, Truncate(i) PROVE Kept'
    <2>1. /\ sha \in TornIn /\ UNCHANGED <<pc, rows, sha, stash>> /\ pc \in {"pass1", "pass2"}
          /\ \A b \in Bodies : b # sha => cache'[b] = cache[b]
      BY <1>13a DEF Truncate, Threads
    <2>2. QED
      BY <2>1
  <1>14. ASSUME NEW i \in Seqs, MarkStep(i) PROVE Kept'
    <2>1. pc \in {"pass1", "pass2"} /\ UNCHANGED <<pc, cache, sha, stash>>
      BY <1>14 DEF MarkStep, Threads
    <2>2. CASE rows' = rows
      BY <2>1, <2>2
    <2> DEFINE h == Head(thread[i].marks)
    <2>3. CASE thread[i].marks # <<>> /\ rows' = Updated(i, h[1], h[2])
      <3>1. h \in Steps \X Status /\ (h[2] = "ok" => Answered(cache[sha][i], h[1]))
        BY <1>14, <2>3 DEF MarkStep, Threads, ThreadShape, Good
      <3> HIDE DEF h
      <3>2. sha \notin TornIn => Backed(rows'[sha], cache[sha])
        BY <2>1, <2>3, <3>1 DEF Updated, Backed
      <3>3. \A b \in Bodies : b # sha => rows'[b] = rows[b]
        BY <2>3 DEF Updated
      <3>4. QED
        BY <2>1, <3>2, <3>3
    <2>4. QED
      BY <1>14, <2>2, <2>3 DEF MarkStep
  <1>15. ASSUME NEW i \in Seqs, RaiseChunk(i) PROVE Kept'
    <2>1. /\ UNCHANGED <<cache, stash, sha, pc>> /\ pc \in {"pass1", "pass2"}
          /\ rows' = rows \/ rows' = Updated(i, "entities", "failed")
      BY <1>15 DEF RaiseChunk, InPass
    <2>2. ASSUME NEW b \in Bodies, Backed(rows[b], cache[b]) PROVE Backed(rows'[b], cache'[b])
      <3>1. \A j \in Seqs, st \in Steps : rows'[b][j][st] = "ok" => rows[b][j][st] = "ok"
        <4>1. CASE rows' = rows
          BY <4>1
        <4>2. CASE rows' = Updated(i, "entities", "failed")
          BY ONLY <4>2, RowsShape, sha \in Bodies, b \in Bodies, i \in Seqs DEF Updated, RowsShape
        <4>3. QED
          BY <2>1, <4>1, <4>2
      <3>2. QED
        BY <2>1, <2>2, <3>1 DEF Backed
    <2>3. QED
      BY <2>1, <2>2
  <1>16. CASE Retry
    BY <1>16 DEF Retry, Goto, Backed, NoStash
  <1>17. CASE Judge
    BY <1>17 DEF Judge, Goto, PassOver, Backed, NoStash
  <1>18. CASE Refuse
    BY <1>18 DEF Refuse, GiveUp, End, Backed, NoStash
  <1>19. CASE Accept
    BY <1>19 DEF Accept, Goto, Backed, NoStash
  <1>20. CASE Stage
    BY <1>20 DEF Stage, End, Backed, NoStash
  <1>21. CASE RefuseEmpty
    BY <1>21 DEF RefuseEmpty, GiveUp, End, Backed, NoStash
  <1>22. CASE Discard
    BY <1>22 DEF Discard, Goto, Backed, NoStash
  <1>23. CASE PutBack
    BY <1>23 DEF PutBack, Goto, Backed, NoStash
  <1>24. CASE Relist
    <2>1. pc = "relist" /\ pc' = "idle" /\ stash' = NoStash /\ UNCHANGED <<cache, sha>>
          /\ rows' = [rows EXCEPT ![sha] = stash.rows]
      BY <1>24 DEF Relist, End
    <2>2. sha \notin TornIn => Backed(stash.rows, cache[sha])
      BY <2>1 DEF Restoring
    <2>3. \A b \in Bodies : rows'[b] = IF b = sha THEN stash.rows ELSE rows[b]
      BY <2>1
    <2>4. QED
      BY <2>1, <2>2, <2>3 DEF NoStash
  <1>25. CASE Interrupt
    BY <1>25 DEF Interrupt, GiveUp, End, InPass, Backed, NoStash
  <1>26. CASE RaiseOutside
    BY <1>26, FaultsAssumption DEF RaiseOutside, End, Backed, NoStash
  <1>27. CASE Crash
    BY <1>27 DEF Crash, End, Backed, NoStash
  <1>28. CASE UNCHANGED vars
    BY <1>28 DEF vars, Backed, NoStash
  <1>29. QED
    BY <1>1, <1>2, <1>3, <1>4, <1>5, <1>6, <1>7, <1>8, <1>9, <1>10, <1>11,
       <1>12, <1>13, <1>13a, <1>14, <1>15, <1>16, <1>17, <1>18, <1>19, <1>20, <1>21,
       <1>22, <1>23, <1>24, <1>25, <1>26, <1>27, <1>28
    DEF Next

(* A run that has set something aside ends refused or interrupted only by  *)
(* putting the rows back, after the folder.                                *)
LEMMA CostsStep ==
    ASSUME Shapes, Restoring, [Next]_vars
    PROVE  CostsNothing({"refused", "interrupted"})
  <1> USE DEF note, run, aux, Restoring, CostsNothing, Places, CacheShape, RowsShape
  <1>a. Places /\ CacheShape /\ RowsShape
    BY DEF Shapes
  <1> USE <1>a
  <1>1. CASE Edit
    BY <1>1 DEF Edit, NoStash
  <1>2. ASSUME NEW s \in Sizes, Ingest(s) PROVE CostsNothing({"refused", "interrupted"})
    BY <1>2 DEF Ingest, Begin, NoStash
  <1>3. ASSUME NEW s \in Sizes, Reextract(s) PROVE CostsNothing({"refused", "interrupted"})
    BY <1>3 DEF Reextract, Begin, NoStash
  <1>4. ASSUME NEW s \in Sizes, ExtractKg(s) PROVE CostsNothing({"refused", "interrupted"})
    BY <1>4 DEF ExtractKg, Begin, NoStash
  <1>5. ASSUME NEW s \in Sizes, RedoProperties(s) PROVE CostsNothing({"refused", "interrupted"})
    BY <1>5 DEF RedoProperties, Begin, NoStash
  <1>6. CASE SplitNote
    BY <1>6 DEF SplitNote, Goto, NoStash
  <1>7. CASE StampSplit
    BY <1>7 DEF StampSplit, Goto, NoStash
  <1>8. CASE CheckChunks
    BY <1>8 DEF CheckChunks, Goto, NoStash
  <1>9. CASE ForgetRows
    BY <1>9 DEF ForgetRows, Goto, NoStash
  <1>10. CASE SetAside
    BY <1>10 DEF SetAside, Goto, NoStash
  <1>11. CASE Prepare
    BY <1>11 DEF Prepare, Goto, NoStash
  <1>12. ASSUME NEW i \in Seqs, AskChunk(i) PROVE CostsNothing({"refused", "interrupted"})
    BY <1>12 DEF AskChunk, InPass, NoStash
  <1>13. ASSUME NEW i \in Seqs, WriteChunk(i) PROVE CostsNothing({"refused", "interrupted"})
    BY <1>13 DEF WriteChunk, NoStash
  <1>13a. ASSUME NEW i \in Seqs, Truncate(i) PROVE CostsNothing({"refused", "interrupted"})
    BY <1>13a DEF Truncate, NoStash
  <1>14. ASSUME NEW i \in Seqs, MarkStep(i) PROVE CostsNothing({"refused", "interrupted"})
    BY <1>14 DEF MarkStep, Updated, NoStash
  <1>15. ASSUME NEW i \in Seqs, RaiseChunk(i) PROVE CostsNothing({"refused", "interrupted"})
    BY <1>15 DEF RaiseChunk, InPass, Updated, Fault, NoStash
  <1>16. CASE Retry
    BY <1>16 DEF Retry, Goto, NoStash
  <1>17. CASE Judge
    BY <1>17 DEF Judge, Goto, PassOver, NoStash
  <1>18. CASE Refuse
    BY <1>18 DEF Refuse, GiveUp, End, NoStash
  <1>19. CASE Accept
    BY <1>19 DEF Accept, Goto, NoStash
  <1>20. CASE Stage
    BY <1>20 DEF Stage, End, NoStash
  <1>21. CASE RefuseEmpty
    BY <1>21 DEF RefuseEmpty, GiveUp, End, NoStash
  <1>22. CASE Discard
    BY <1>22 DEF Discard, Goto, NoStash
  <1>23. CASE PutBack
    BY <1>23 DEF PutBack, Goto, NoStash
  <1>24. CASE Relist
    BY <1>24 DEF Relist, End, NoStash
  <1>25. CASE Interrupt
    BY <1>25 DEF Interrupt, GiveUp, End, InPass, NoStash
  <1>26. CASE RaiseOutside
    BY <1>26 DEF RaiseOutside, End, NoStash
  <1>27. CASE Crash
    BY <1>27 DEF Crash, End, NoStash
  <1>28. CASE UNCHANGED vars
    BY <1>28 DEF vars, NoStash
  <1>29. QED
    BY <1>1, <1>2, <1>3, <1>4, <1>5, <1>6, <1>7, <1>8, <1>9, <1>10, <1>11,
       <1>12, <1>13, <1>13a, <1>14, <1>15, <1>16, <1>17, <1>18, <1>19, <1>20, <1>21,
       <1>22, <1>23, <1>24, <1>25, <1>26, <1>27, <1>28
    DEF Next

-----------------------------------------------------------------------------

Always == Shapes /\ Threads /\ Restoring

(* A machine that has extracted nothing: no row, no JSON, no run.          *)
LEMMA AlwaysStarts == Init => Always /\ Kept
  <1> SUFFICES ASSUME Init PROVE Always /\ Kept
    OBVIOUS
  <1> USE BoundsAssumption DEF Init
  <1>1. Places
    BY DEF Places, NoStash, Bodies
  <1>2. RowsShape
    BY DEF RowsShape, NoStash, Absent, Status
  <1>3. CacheShape
    BY DEF CacheShape, NoStash, NoCache, NoAnswers, Parts
  <1>4. ThreadShape
    <2>1. <<>> \in Seq(Steps \X Status)
      BY EmptySeq
    <2>2. QED
      BY <2>1 DEF ThreadShape, Idle, NoAnswers, Parts
  <1>5. Threads /\ Restoring
    BY DEF Threads, Restoring, Idle, NoStash
  <1>6. Kept
    BY DEF Kept, Backed, Absent, NoStash
  <1>7. QED
    BY <1>1, <1>2, <1>3, <1>4, <1>5, <1>6 DEF Always, Shapes

(* Every step keeps what always holds.                                     *)
LEMMA AlwaysSteps == Always /\ [Next]_vars => Always'
  BY PlacesStep, RowsStep, CacheStep, ThreadStep, ThreadsStep, RestoringStep DEF Always, Shapes

(* The shapes, and what a thread or a restore under way leaves where, hold *)
(* whatever is raised and whenever the process dies.                       *)
THEOREM AlwaysHolds == Spec => []Always
  BY AlwaysStarts, AlwaysSteps, PTL DEF Spec

(* What a row says is answered is in the chunk's JSON at every point, as   *)
(* long as the process does not die in the middle of putting back what     *)
(* --reextract had set aside (ingest.py:4009: an "ok" row must never point *)
(* at a JSON that was not written), for the bodies no write of whose JSONs *)
(* is cut short: that write is not atomic (ingest.py:4140).                *)
THEOREM OkIsAnswered ==
    ASSUME CrashIn \cap {"putback", "relist"} = {}
    PROVE  Spec => []OkRowHasAnswer
  <1>1. Init => Kept
    BY AlwaysStarts
  <1>2. Always /\ Kept /\ [Next]_vars => Kept'
    BY KeptStep DEF Always
  <1>3. Kept => OkRowHasAnswer
    BY DEF Kept, Backed, OkRowHasAnswer
  <1>4. QED
    BY <1>1, <1>2, <1>3, AlwaysHolds, PTL DEF Spec

(* A re-extraction that is refused or interrupted leaves the rows and the  *)
(* JSONs it had set aside, whatever it wrote in between and whatever       *)
(* failed (ingest.py:201).                                                 *)
THEOREM RefusalRestores == Spec => RefusedReextractCostsNothing
  <1>1. Always /\ [Next]_vars => [CostsNothing({"refused", "interrupted"})]_vars
    BY CostsStep DEF Always
  <1>2. QED
    BY <1>1, AlwaysHolds, PTL DEF Spec, RefusedReextractCostsNothing

-----------------------------------------------------------------------------
(***************************************************************************)
(* TypeOK.                                                                 *)
(***************************************************************************)

(* Once there is a run past the cutting, or anything staged, chunk files   *)
(* have been written.                                                      *)
HasCut == pc \notin {"idle", "split"} \/ staged.of # 0 => cut.of # 0

(* The parts of TypeOK: the note and its chunk files, the run,             *)
CutType ==
  /\ body \in Bodies /\ size \in Sizes /\ sha \in Bodies
  /\ cut \in [of : 0..LastBody, size : Sizes, whole : BOOLEAN, stamp : 0..LastBody, listed : Nat]
  /\ staged.of \in 0..LastBody
  /\ HasCut

RunType ==
  /\ runs \in 0..MaxRuns /\ faults \in 0..MaxFaults
  /\ pc \in Points \cup {"idle"}
  /\ mode \in {"ingest", "reextract", "extract-kg", "redo"}
  /\ todo \subseteq Seqs
  /\ clean \in BOOLEAN
  /\ outcome \in {"none", "staged", "refused", "interrupted", "raised", "died"}
  /\ muddled \subseteq Bodies \X Seqs
  /\ stash.held \in BOOLEAN
  /\ statuses \in [Seqs -> [Steps -> Status]]

(* and what was answered.                                                  *)
Given == Answers \cup {NoAnswers, Torn}
DataType ==
  /\ cache \in [Bodies -> [Seqs -> Given]]
  /\ stash.cache \in [Seqs -> Given]
  /\ \A i \in Seqs : thread[i].data \in Answers \cup {NoAnswers}
  /\ DOMAIN staged.chunks \subseteq Seqs
  /\ \A i \in DOMAIN staged.chunks : staged.chunks[i] \in Answers

(* How many chunks there are.                                              *)
LEMMA Counted == ASSUME CutType, cut.of # 0 PROVE ChunkCount \in 1..MaxChunks /\ cut.of \in Bodies
  <1>1. cut.of \in Bodies /\ cut.size \in Sizes
    BY BoundsAssumption DEF CutType, Bodies
  <1>2. QED
    BY <1>1, CutAssumption DEF ChunkCount, Count

(* Every step keeps CutType.                                               *)
LEMMA CutTypeStep == ASSUME CutType, [Next]_vars PROVE CutType'
  <1> USE BoundsAssumption DEF note, run, aux, CutType, HasCut
  <1>1. CASE Edit
    BY <1>1 DEF Edit, Bodies
  <1>2. ASSUME NEW s \in Sizes, Ingest(s) PROVE CutType'
    BY <1>2 DEF Ingest, Begin
  <1>3. ASSUME NEW s \in Sizes, Reextract(s) PROVE CutType'
    BY <1>3 DEF Reextract, Begin
  <1>4. ASSUME NEW s \in Sizes, ExtractKg(s) PROVE CutType'
    BY <1>4 DEF ExtractKg, Begin
  <1>5. ASSUME NEW s \in Sizes, RedoProperties(s) PROVE CutType'
    BY <1>5 DEF RedoProperties, Begin
  <1>6. CASE SplitNote
    <2>1. cut' = [cut EXCEPT !.of = body, !.size = size, !.whole = TRUE]
          /\ UNCHANGED <<body, size, sha, staged>>
      BY <1>6 DEF SplitNote, Goto
    <2>2. body \in 0..LastBody /\ body # 0
      BY DEF Bodies
    <2>3. QED
      BY <2>1, <2>2
  <1>7. CASE StampSplit
    <2>1. cut' = [cut EXCEPT !.stamp = cut.of, !.listed = Count(cut.of, cut.size)]
          /\ UNCHANGED <<body, size, sha, staged>> /\ cut.of # 0
      BY <1>7 DEF StampSplit, Goto
    <2>2. Count(cut.of, cut.size) \in Nat
      BY <2>1, Counted DEF ChunkCount
    <2>3. QED
      BY <2>1, <2>2
  <1>8. CASE CheckChunks
    BY <1>8 DEF CheckChunks, Goto
  <1>9. CASE ForgetRows
    BY <1>9 DEF ForgetRows, Goto
  <1>10. CASE SetAside
    BY <1>10 DEF SetAside, Goto
  <1>11. CASE Prepare
    BY <1>11 DEF Prepare, Goto
  <1>12. ASSUME NEW i \in Seqs, AskChunk(i) PROVE CutType'
    BY <1>12 DEF AskChunk, InPass
  <1>13. ASSUME NEW i \in Seqs, WriteChunk(i) PROVE CutType'
    BY <1>13 DEF WriteChunk
  <1>13a. ASSUME NEW i \in Seqs, Truncate(i) PROVE CutType'
    BY <1>13a DEF Truncate
  <1>14. ASSUME NEW i \in Seqs, MarkStep(i) PROVE CutType'
    BY <1>14 DEF MarkStep, Updated
  <1>15. ASSUME NEW i \in Seqs, RaiseChunk(i) PROVE CutType'
    BY <1>15 DEF RaiseChunk, InPass, Updated, Fault
  <1>16. CASE Retry
    BY <1>16 DEF Retry, Goto
  <1>17. CASE Judge
    BY <1>17 DEF Judge, Goto, PassOver
  <1>18. CASE Refuse
    BY <1>18 DEF Refuse, GiveUp, End
  <1>19. CASE Accept
    BY <1>19 DEF Accept, Goto
  <1>20. CASE Stage
    <2>1. sha \in 0..LastBody /\ cut.of # 0
      BY <1>20 DEF Stage, Bodies
    <2>2. staged'.of = sha /\ cut' = cut /\ body' = body /\ size' = size /\ sha' = sha
      BY <1>20 DEF Stage, End
    <2>3. QED
      BY <2>1, <2>2
  <1>21. CASE RefuseEmpty
    BY <1>21 DEF RefuseEmpty, GiveUp, End
  <1>22. CASE Discard
    BY <1>22 DEF Discard, Goto
  <1>23. CASE PutBack
    BY <1>23 DEF PutBack, Goto
  <1>24. CASE Relist
    BY <1>24 DEF Relist, End
  <1>25. CASE Interrupt
    BY <1>25 DEF Interrupt, GiveUp, End, InPass
  <1>26. CASE RaiseOutside
    BY <1>26 DEF RaiseOutside, End
  <1>27. CASE Crash
    <2>1. UNCHANGED <<body, size, sha, staged>> /\ pc' = "idle"
      BY <1>27 DEF Crash, End
    <2>2. CASE cut' = cut
      <3>1. pc # "idle" /\ (staged.of # 0 => cut.of # 0)
        BY <1>27, FaultsAssumption DEF Crash, Points
      <3>2. QED
        BY <2>1, <2>2, <3>1
    <2>3. CASE cut' = [cut EXCEPT !.of = body, !.size = size, !.whole = FALSE]
      <3>1. body \in 0..LastBody /\ body # 0
        BY DEF Bodies
      <3>2. QED
        BY <2>1, <2>3, <3>1
    <2>4. QED
      BY <1>27, <2>2, <2>3 DEF Crash
  <1>28. CASE UNCHANGED vars
    BY <1>28 DEF vars
  <1>29. QED
    BY <1>1, <1>2, <1>3, <1>4, <1>5, <1>6, <1>7, <1>8, <1>9, <1>10, <1>11,
       <1>12, <1>13, <1>13a, <1>14, <1>15, <1>16, <1>17, <1>18, <1>19, <1>20, <1>21,
       <1>22, <1>23, <1>24, <1>25, <1>26, <1>27, <1>28
    DEF Next

(* No step fails more calls than a chunk has marks.                        *)
LEMMA FailuresCounted == ASSUME NEW m \in Seq(Steps \X Status) PROVE Cardinality(Failures(m)) \in Nat
  <1>1. IsFiniteSet(1 .. Len(m)) /\ Failures(m) \subseteq 1 .. Len(m)
    <2>1. DOMAIN m = 1 .. Len(m) /\ Len(m) \in Nat
      OBVIOUS
    <2>2. IsFiniteSet(1 .. Len(m))
      BY <2>1, FS_Interval
    <2>3. QED
      BY <2>1, <2>2 DEF Failures
  <1>2. IsFiniteSet(Failures(m))
    BY <1>1, FS_Subset
  <1>3. QED
    BY <1>2, FS_CardinalityType

(* The locals of a run that is over.                                       *)
LEMMA ForgottenType == Forgotten \in [Seqs -> [Steps -> Status]]
  <1>1. Absent \in [Steps -> Status]
    BY DEF Absent, Status
  <1>2. QED
    BY <1>1 DEF Forgotten

(* Every step keeps RunType.                                               *)
LEMMA RunTypeStep ==
    ASSUME CutType, RowsShape, ThreadShape, ThreadShape', RunType, [Next]_vars
    PROVE  RunType'
  <1> USE BoundsAssumption DEF note, run, aux, RunType
  <1>1. CASE Edit
    BY <1>1 DEF Edit, Points, NoStash
  <1>2. ASSUME NEW s \in Sizes, Ingest(s) PROVE RunType'
    BY <1>2 DEF Ingest, Begin, Points, NoStash
  <1>3. ASSUME NEW s \in Sizes, Reextract(s) PROVE RunType'
    BY <1>3 DEF Reextract, Begin, Points, NoStash
  <1>4. ASSUME NEW s \in Sizes, ExtractKg(s) PROVE RunType'
    BY <1>4 DEF ExtractKg, Begin, Points, NoStash
  <1>5. ASSUME NEW s \in Sizes, RedoProperties(s) PROVE RunType'
    BY <1>5 DEF RedoProperties, Begin, Points, NoStash
  <1>6. CASE SplitNote
    BY <1>6 DEF SplitNote, Goto, Points, NoStash
  <1>7. CASE StampSplit
    BY <1>7 DEF StampSplit, Goto, Points, NoStash
  <1>8. CASE CheckChunks
    BY <1>8 DEF CheckChunks, Goto, Points, NoStash
  <1>9. CASE ForgetRows
    BY <1>9 DEF ForgetRows, Goto, Points, NoStash
  <1>10. CASE SetAside
    BY <1>10 DEF SetAside, Goto, Points, NoStash
  <1>11. CASE Prepare
    <2>1. ChunkCount \in 1..MaxChunks
      BY <1>11, Counted DEF Prepare, CutType, HasCut
    <2>2. \A i \in Seqs : Prepared[i] \in [Steps -> Status]
      BY DEF Prepared, Pending, Status, RowsShape, CutType
    <2>3. Prepared \in [Seqs -> [Steps -> Status]] /\ 1..ChunkCount \subseteq Seqs
      BY <2>1, <2>2 DEF Prepared, Seqs
    <2>4. QED
      BY <1>11, <2>3 DEF Prepare, Goto, Points
  <1>12. ASSUME NEW i \in Seqs, AskChunk(i) PROVE RunType'
    <2>1. thread'[i].marks \in Seq(Steps \X Status)
      BY DEF ThreadShape
    <2>2. Cardinality(Failures(thread'[i].marks)) \in Nat
      BY <2>1, FailuresCounted
    <2>3. faults' \in 0..MaxFaults
      BY <1>12, <2>2 DEF AskChunk
    <2>4. clean' \in BOOLEAN /\ todo' \subseteq todo
      BY <1>12 DEF AskChunk
    <2>5. QED
      BY <1>12, <2>3, <2>4 DEF AskChunk
  <1>13. ASSUME NEW i \in Seqs, WriteChunk(i) PROVE RunType'
    BY <1>13 DEF WriteChunk, Points, NoStash
  <1>13a. ASSUME NEW i \in Seqs, Truncate(i) PROVE RunType'
    BY <1>13a DEF Truncate, Points, NoStash
  <1>14. ASSUME NEW i \in Seqs, MarkStep(i) PROVE RunType'
    BY <1>14 DEF MarkStep, Updated, Points, NoStash
  <1>15. ASSUME NEW i \in Seqs, RaiseChunk(i) PROVE RunType'
    <2>1. faults' \in 0..MaxFaults /\ clean' \in BOOLEAN /\ todo' \subseteq todo
      BY <1>15 DEF RaiseChunk, Fault
    <2>2. muddled' \subseteq Bodies \X Seqs
      BY <1>15 DEF RaiseChunk, CutType
    <2>3. QED
      BY <1>15, <2>1, <2>2 DEF RaiseChunk
  <1>16. CASE Retry
    <2>1. rows[sha] \in [Seqs -> [Steps -> Status]] /\ Incomplete(rows[sha]) \subseteq Seqs
      BY DEF RowsShape, CutType, Incomplete
    <2>2. QED
      BY <1>16, <2>1 DEF Retry, Goto, Points
  <1>17. CASE Judge
    BY <1>17 DEF Judge, Goto, PassOver, Points, NoStash
  <1>18. CASE Refuse
    BY <1>18, ForgottenType DEF Refuse, GiveUp, End, Points, NoStash
  <1>19. CASE Accept
    BY <1>19 DEF Accept, Goto, Points, NoStash
  <1>20. CASE Stage
    BY <1>20, ForgottenType DEF Stage, End, Points, NoStash
  <1>21. CASE RefuseEmpty
    BY <1>21, ForgottenType DEF RefuseEmpty, GiveUp, End, Points, NoStash
  <1>22. CASE Discard
    BY <1>22 DEF Discard, Goto, Points, NoStash
  <1>23. CASE PutBack
    BY <1>23 DEF PutBack, Goto, Points, NoStash
  <1>24. CASE Relist
    BY <1>24, ForgottenType DEF Relist, End, Points, NoStash
  <1>25. CASE Interrupt
    <2>1. faults' \in 0..MaxFaults /\ todo' = {} /\ clean' = FALSE /\ GiveUp("interrupted")
      BY <1>25 DEF Interrupt, Fault
    <2>2. UNCHANGED <<runs, muddled, stash>>
      BY <1>25 DEF Interrupt, GiveUp, End
    <2>3. /\ pc' \in {"idle", "discard"} /\ mode' \in {mode, "ingest"}
          /\ outcome' = "interrupted" /\ statuses' \in {statuses, Forgotten}
      BY <2>1 DEF GiveUp, End
    <2>4. QED
      BY <2>1, <2>2, <2>3, ForgottenType DEF Points
  <1>26. CASE RaiseOutside
    <2>1. faults' \in 0..MaxFaults
      BY <1>26 DEF RaiseOutside, Fault
    <2>2. QED
      BY <1>26, <2>1, ForgottenType DEF RaiseOutside, End, Points, NoStash
  <1>27. CASE Crash
    <2>1. faults' \in 0..MaxFaults
      BY <1>27 DEF Crash, Fault
    <2>2. QED
      BY <1>27, <2>1, ForgottenType DEF Crash, End, Points, NoStash
  <1>28. CASE UNCHANGED vars
    BY <1>28 DEF vars, Points, NoStash
  <1>29. QED
    BY <1>1, <1>2, <1>3, <1>4, <1>5, <1>6, <1>7, <1>8, <1>9, <1>10, <1>11,
       <1>12, <1>13, <1>13a, <1>14, <1>15, <1>16, <1>17, <1>18, <1>19, <1>20, <1>21,
       <1>22, <1>23, <1>24, <1>25, <1>26, <1>27, <1>28
    DEF Next

(* What a thread has asked answers for the text its chunk had, or for the  *)
(* one that has been cut.                                                  *)
LEMMA AskedText ==
    ASSUME CutType, DataType, cut.of # 0, NEW i \in Seqs, NEW e \in {"failed", "none", "some"},
           NEW p \in {"failed", "ok"}, NEW r \in {"failed", "ok"}
    PROVE  /\ Asked(i, e, p, r).data \in Answers
           /\ Asked(i, e, p, r).data.text = IF cache[sha][i] \in {NoAnswers, Torn}
                THEN Text(cut.of, cut.size, i) ELSE cache[sha][i].text
  <1> DEFINE c == cache[sha][i]
             k == IF statuses[i]["entities"] # "ok" THEN e ELSE "kept"
             d == Redone(i, k)
             text == IF c.text \in {NoText, TornText} THEN Text(cut.of, cut.size, i) ELSE c.text
  <1>1. \E q, w \in BOOLEAN : Asked(i, e, p, r).data =
          [d EXCEPT !.properties = IF q THEN "current" ELSE @,
                    !.relationships = IF w THEN "current" ELSE @]
    BY Zenon DEF Asked
  <1>2. PICK q \in BOOLEAN, w \in BOOLEAN : Asked(i, e, p, r).data =
          [d EXCEPT !.properties = IF q THEN "current" ELSE @,
                    !.relationships = IF w THEN "current" ELSE @]
    BY <1>1
  <1>3. c \in Given
    BY DEF DataType, CutType
  <1>4. Text(cut.of, cut.size, i) \in Bodies \X Sizes \X Seqs
    BY Counted DEF CutType, Text
  <1>5. NoText \notin Bodies \X Sizes \X Seqs /\ TornText \notin Bodies \X Sizes \X Seqs
    BY DEF NoText, TornText, Bodies
  <1>6. /\ c \in Answers => c.text \in Bodies \X Sizes \X Seqs /\ c \notin {NoAnswers, Torn}
        /\ c.text \in {NoText, TornText} <=> c \in {NoAnswers, Torn}
    <2>1. Torn.text = TornText /\ NoAnswers.text = NoText
      BY DEF Torn, NoAnswers
    <2>2. c \in Answers => c.text \in Bodies \X Sizes \X Seqs
      BY DEF Answers
    <2>3. QED
      BY <1>3, <1>5, <2>1, <2>2 DEF Given
  <1>7. text \in Bodies \X Sizes \X Seqs
    BY <1>3, <1>4, <1>6 DEF Given
  <1> DEFINE o(f) == IF k \in {"none", "some"} /\ f # "unasked" THEN "stale" ELSE f
             ent == IF k \in {"none", "some"} THEN k ELSE c.entities
  <1>8. /\ c = [text |-> c.text, entities |-> c.entities,
                properties |-> c.properties, relationships |-> c.relationships]
        /\ c.entities \in {"unasked", "none", "some"}
        /\ c.properties \in {"unasked", "current", "stale"}
        /\ c.relationships \in {"unasked", "current", "stale"}
    BY <1>3 DEF Given, Answers, NoAnswers, Torn
  <1>9. d = [text |-> text, entities |-> ent,
             properties |-> o(c.properties), relationships |-> o(c.relationships)]
    <2> HIDE DEF c, k, text
    <2>1. d = [c EXCEPT !.text = IF @ \in {NoText, TornText} THEN Text(cut.of, cut.size, i) ELSE @,
                        !.entities = ent, !.properties = o(@), !.relationships = o(@)]
      BY DEF d, Redone, ent, o, c
    <2>2. DOMAIN c = {"text", "entities", "properties", "relationships"}
      BY <1>8
    <2>3. DOMAIN d = DOMAIN c
      BY <2>1
    <2>4. d.text = text /\ d.entities = ent
      BY <2>1, <2>2 DEF text
    <2>5. d.properties = o(c.properties) /\ d.relationships = o(c.relationships)
      BY <2>1, <2>2
    <2> HIDE DEF o, ent, d
    <2>6. QED
      BY <2>1, <2>2, <2>3, <2>4, <2>5
  <1>10. ent \in {"unasked", "none", "some"}
    BY <1>8
  <1>11. \A f \in {"unasked", "current", "stale"} : o(f) \in {"unasked", "current", "stale"}
    OBVIOUS
  <1> HIDE DEF ent, o, text, d
  <1>12. Asked(i, e, p, r).data = [text |-> text, entities |-> ent,
             properties |-> IF q THEN "current" ELSE o(c.properties),
             relationships |-> IF w THEN "current" ELSE o(c.relationships)]
    BY <1>2, <1>9
  <1>13. Asked(i, e, p, r).data \in Answers
    BY <1>7, <1>8, <1>10, <1>11, <1>12 DEF Answers
  <1>14. QED
    BY <1>6, <1>12, <1>13 DEF text

(* Every step keeps DataType.                                              *)
LEMMA DataTypeStep ==
    ASSUME CutType, CacheShape, ThreadShape, DataType, [Next]_vars
    PROVE  DataType'
  <1> USE DEF note, run, aux, DataType
  <1>1. CASE Edit
    BY <1>1 DEF Edit, Given, NoStash, NoCache, Idle
  <1>2. ASSUME NEW s \in Sizes, Ingest(s) PROVE DataType'
    BY <1>2 DEF Ingest, Begin, Given, NoStash, NoCache, Idle
  <1>3. ASSUME NEW s \in Sizes, Reextract(s) PROVE DataType'
    BY <1>3 DEF Reextract, Begin, Given, NoStash, NoCache, Idle
  <1>4. ASSUME NEW s \in Sizes, ExtractKg(s) PROVE DataType'
    BY <1>4 DEF ExtractKg, Begin, Given, NoStash, NoCache, Idle
  <1>5. ASSUME NEW s \in Sizes, RedoProperties(s) PROVE DataType'
    BY <1>5 DEF RedoProperties, Begin, Given, NoStash, NoCache, Idle
  <1>6. CASE SplitNote
    BY <1>6 DEF SplitNote, Goto, Given, NoStash, NoCache, Idle
  <1>7. CASE StampSplit
    BY <1>7 DEF StampSplit, Goto, Given, NoStash, NoCache, Idle
  <1>8. CASE CheckChunks
    BY <1>8 DEF CheckChunks, Goto, Given, NoStash, NoCache, Idle
  <1>9. CASE ForgetRows
    <2>1. stash'.cache = stash.cache
      BY <1>9 DEF ForgetRows
    <2>2. QED
      BY <1>9, <2>1 DEF ForgetRows
  <1>10. CASE SetAside
    <2>1. stash' = [stash EXCEPT !.cache = cache[sha]] /\ cache' = [cache EXCEPT ![sha] = NoCache]
          /\ UNCHANGED <<thread, staged>>
      BY <1>10 DEF SetAside
    <2>2. NoCache \in [Seqs -> Given]
      BY DEF NoCache, Given
    <2>3. stash'.cache \in [Seqs -> Given]
      <3>1. stash'.cache \in {cache[sha], stash.cache}
        BY <2>1
      <3>2. QED
        BY <3>1 DEF CutType
    <2>4. QED
      BY <2>1, <2>2, <2>3 DEF CutType
  <1>11. CASE Prepare
    BY <1>11 DEF Prepare, Goto, Given, NoStash, NoCache, Idle
  <1>12. ASSUME NEW i \in Seqs, AskChunk(i) PROVE DataType'
    <2>1. PICK e \in {"failed", "none", "some"}, p \in {"failed", "ok"}, r \in {"failed", "ok"} :
             thread' = [thread EXCEPT ![i] = Asked(i, e, p, r)]
      BY <1>12 DEF AskChunk
    <2>2. cut.of # 0
      BY <1>12 DEF AskChunk, InPass, CutType, HasCut
    <2>3. Asked(i, e, p, r).data \in Answers
      BY <2>2, AskedText DEF DataType
    <2>4. \A j \in Seqs : thread'[j].data \in Answers \cup {NoAnswers}
      BY <2>1, <2>3 DEF ThreadShape
    <2>5. QED
      BY <1>12, <2>4 DEF AskChunk
  <1>13. ASSUME NEW i \in Seqs, WriteChunk(i) PROVE DataType'
    <2>1. cache' = [cache EXCEPT ![sha][i] = thread[i].data]
      BY <1>13 DEF WriteChunk
    <2>2. cache' \in [Bodies -> [Seqs -> Given]]
      BY <2>1 DEF CutType, Given
    <2>3. \A j \in Seqs : thread'[j].data = thread[j].data
      BY <1>13 DEF WriteChunk, ThreadShape
    <2>4. QED
      BY <1>13, <2>2, <2>3 DEF WriteChunk
  <1>13a. ASSUME NEW i \in Seqs, Truncate(i) PROVE DataType'
    <2>1. cache' = [cache EXCEPT ![sha][i] = Torn] /\ UNCHANGED <<thread, stash, staged>>
      BY <1>13a DEF Truncate
    <2>2. cache' \in [Bodies -> [Seqs -> Given]]
      BY <2>1 DEF CutType, Given
    <2>3. QED
      BY <2>1, <2>2
  <1>14. ASSUME NEW i \in Seqs, MarkStep(i) PROVE DataType'
    <2>1. \A j \in Seqs : thread'[j].data \in {thread[j].data, NoAnswers}
      <3>1. CASE thread' = [thread EXCEPT ![i] = Idle]
        BY <3>1 DEF ThreadShape, Idle
      <3>2. CASE thread' = [thread EXCEPT ![i] = [thread[i] EXCEPT !.marks = Tail(thread[i].marks)]]
        BY <3>2 DEF ThreadShape
      <3>3. QED
        BY <1>14, <3>1, <3>2, MarkedThread
    <2>2. QED
      BY <1>14, <2>1 DEF MarkStep, Given
  <1>15. ASSUME NEW i \in Seqs, RaiseChunk(i) PROVE DataType'
    <2>1. \A j \in Seqs : thread'[j].data \in {thread[j].data, NoAnswers}
      BY <1>15 DEF RaiseChunk, ThreadShape, Idle
    <2>2. QED
      BY <1>15, <2>1 DEF RaiseChunk, Given
  <1>16. CASE Retry
    BY <1>16 DEF Retry, Goto, Given, NoStash, NoCache, Idle
  <1>17. CASE Judge
    BY <1>17 DEF Judge, Goto, PassOver, Given, NoStash, NoCache, Idle
  <1>18. CASE Refuse
    BY <1>18 DEF Refuse, GiveUp, End, Given, NoStash, NoCache, Idle
  <1>19. CASE Accept
    BY <1>19 DEF Accept, Goto, Given, NoStash, NoCache, Idle
  <1>20. CASE Stage
    <2>1. ChunkCount \in 1..MaxChunks
      BY <1>20, Counted DEF Stage, CutType, HasCut
    <2>2. staged'.chunks = Merged /\ stash' = NoStash /\ UNCHANGED <<cache, thread>>
      BY <1>20 DEF Stage
    <2>3. DOMAIN Merged \subseteq Seqs
      BY <2>1, BoundsAssumption DEF Merged, Seqs
    <2>4. \A j \in DOMAIN Merged : Merged[j] \in Answers
      BY <1>20, <2>3 DEF Stage, Readable, Merged, Given, CutType
    <2>5. QED
      BY <2>2, <2>3, <2>4 DEF NoStash, NoCache, Given
  <1>21. CASE RefuseEmpty
    BY <1>21 DEF RefuseEmpty, GiveUp, End, Given, NoStash, NoCache, Idle
  <1>22. CASE Discard
    <2>1. NoCache \in [Seqs -> Given]
      BY DEF NoCache, Given
    <2>2. QED
      BY <1>22, <2>1 DEF Discard, CutType
  <1>23. CASE PutBack
    BY <1>23 DEF PutBack, Goto, Given, NoStash, NoCache, Idle
  <1>24. CASE Relist
    BY <1>24 DEF Relist, End, Given, NoStash, NoCache, Idle
  <1>25. CASE Interrupt
    BY <1>25 DEF Interrupt, GiveUp, End, InPass, Given, NoStash, NoCache, Idle
  <1>26. CASE RaiseOutside
    BY <1>26 DEF RaiseOutside, End, Given, NoStash, NoCache, Idle
  <1>27. CASE Crash
    BY <1>27 DEF Crash, End, Given, NoStash, NoCache, Idle
  <1>28. CASE UNCHANGED vars
    BY <1>28 DEF vars, Given, NoStash, NoCache, Idle
  <1>29. QED
    BY <1>1, <1>2, <1>3, <1>4, <1>5, <1>6, <1>7, <1>8, <1>9, <1>10, <1>11,
       <1>12, <1>13, <1>13a, <1>14, <1>15, <1>16, <1>17, <1>18, <1>19, <1>20, <1>21,
       <1>22, <1>23, <1>24, <1>25, <1>26, <1>27, <1>28
    DEF Next

(* TypeOK, and what its steps stand on.                                    *)
Sorts == CutType /\ RunType /\ DataType

LEMMA SortsStart == Init => Sorts
  <1> SUFFICES ASSUME Init PROVE Sorts
    OBVIOUS
  <1>1. CutType
    BY BoundsAssumption DEF Init, CutType, HasCut, Bodies, NothingStaged
  <1>2. RunType
    <2>1. [i \in Seqs |-> Absent] \in [Seqs -> [Steps -> Status]]
      BY ForgottenType DEF Forgotten
    <2>2. QED
      BY <2>1, BoundsAssumption DEF Init, RunType, NoStash
  <1>3. DataType
    BY DEF Init, DataType, Given, NoCache, NoStash, Idle, NothingStaged
  <1>4. QED
    BY <1>1, <1>2, <1>3 DEF Sorts

LEMMA SortsStep == Always /\ Sorts /\ [Next]_vars => Sorts'
  <1> SUFFICES ASSUME Always, Sorts, [Next]_vars PROVE Sorts'
    OBVIOUS
  <1>1. CutType'
    BY CutTypeStep DEF Sorts
  <1>2. RunType'
    BY AlwaysSteps, RunTypeStep DEF Sorts, Always, Shapes
  <1>3. DataType'
    BY DataTypeStep DEF Sorts, Always, Shapes
  <1>4. QED
    BY <1>1, <1>2, <1>3 DEF Sorts

(* Every value is of its type, in every state.                             *)
THEOREM TypeCorrect == Spec => []TypeOK
  <1>1. Init => Always /\ Sorts
    BY AlwaysStarts, SortsStart
  <1>2. Always /\ Sorts /\ [Next]_vars => (Always /\ Sorts)'
    BY AlwaysSteps, SortsStep
  <1>3. Always /\ Sorts => TypeOK
    BY DEF Always, Shapes, RowsShape, ThreadShape, Threads, Sorts, CutType, RunType, DataType, Given, TypeOK
  <1>4. QED
    BY <1>1, <1>2, <1>3, PTL DEF Spec

-----------------------------------------------------------------------------
(***************************************************************************)
(* StagedIsClaimed and StagedIsWhole.                                      *)
(***************************************************************************)

(* While nobody edits it, a run extracts the note as it stands; the chunk  *)
(* files are of that body once their stamp has been looked at.             *)
Checked == Points \ {"split", "stamp", "check"}
Following ==
  /\ pc # "idle" => sha = body
  /\ cut.stamp <= cut.of /\ cut.of <= body
  /\ pc \in Checked => cut.of = sha

(* Every step keeps Following.                                             *)
LEMMA FollowingStep ==
    ASSUME ~EditWhile, CutType, Following, [Next]_vars
    PROVE  Following'
  <1> USE FaultsAssumption, BoundsAssumption DEF note, run, aux, Following, CutType, Bodies, Checked
  <1>1. CASE Edit
    BY <1>1 DEF Edit, Points
  <1>2. ASSUME NEW s \in Sizes, Ingest(s) PROVE Following'
    BY <1>2 DEF Ingest, Begin, Points
  <1>3. ASSUME NEW s \in Sizes, Reextract(s) PROVE Following'
    BY <1>3 DEF Reextract, Begin, Points
  <1>4. ASSUME NEW s \in Sizes, ExtractKg(s) PROVE Following'
    BY <1>4 DEF ExtractKg, Begin, Points
  <1>5. ASSUME NEW s \in Sizes, RedoProperties(s) PROVE Following'
    BY <1>5 DEF RedoProperties, Begin, Points
  <1>6. CASE SplitNote
    <2>1. cut' = [cut EXCEPT !.of = body, !.size = size, !.whole = TRUE] /\ pc' = "stamp"
          /\ UNCHANGED <<body, sha>> /\ pc = "split"
      BY <1>6 DEF SplitNote, Goto
    <2>2. cut'.of = body /\ cut'.stamp = cut.stamp
      BY <2>1
    <2>3. QED
      BY <2>1, <2>2
  <1>7. CASE StampSplit
    <2>1. cut'.of = cut.of /\ cut'.stamp = cut.of
      BY <1>7 DEF StampSplit
    <2>2. QED
      BY <1>7, <2>1 DEF StampSplit, Goto
  <1>8. CASE CheckChunks
    BY <1>8 DEF CheckChunks, Goto, ChunkCacheMatches, Points
  <1>9. CASE ForgetRows
    BY <1>9 DEF ForgetRows, Goto, Points
  <1>10. CASE SetAside
    BY <1>10 DEF SetAside, Goto, Points
  <1>11. CASE Prepare
    BY <1>11 DEF Prepare, Goto, Points
  <1>12. ASSUME NEW i \in Seqs, AskChunk(i) PROVE Following'
    BY <1>12 DEF AskChunk, InPass, Points
  <1>13. ASSUME NEW i \in Seqs, WriteChunk(i) PROVE Following'
    BY <1>13 DEF WriteChunk, Points
  <1>13a. ASSUME NEW i \in Seqs, Truncate(i) PROVE Following'
    BY <1>13a DEF Truncate, Points
  <1>14. ASSUME NEW i \in Seqs, MarkStep(i) PROVE Following'
    BY <1>14 DEF MarkStep, Updated, Points
  <1>15. ASSUME NEW i \in Seqs, RaiseChunk(i) PROVE Following'
    BY <1>15 DEF RaiseChunk, InPass, Updated, Fault, Points
  <1>16. CASE Retry
    BY <1>16 DEF Retry, Goto, Points
  <1>17. CASE Judge
    BY <1>17 DEF Judge, Goto, PassOver, Points
  <1>18. CASE Refuse
    BY <1>18 DEF Refuse, GiveUp, End, Points
  <1>19. CASE Accept
    BY <1>19 DEF Accept, Goto, Points
  <1>20. CASE Stage
    BY <1>20 DEF Stage, End, Points
  <1>21. CASE RefuseEmpty
    BY <1>21 DEF RefuseEmpty, GiveUp, End, Points
  <1>22. CASE Discard
    BY <1>22 DEF Discard, Goto, Points
  <1>23. CASE PutBack
    BY <1>23 DEF PutBack, Goto, Points
  <1>24. CASE Relist
    BY <1>24 DEF Relist, End, Points
  <1>25. CASE Interrupt
    BY <1>25 DEF Interrupt, GiveUp, End, InPass, Points
  <1>26. CASE RaiseOutside
    BY <1>26 DEF RaiseOutside, End, Points
  <1>27. CASE Crash
    <2>1. UNCHANGED <<body, sha>> /\ pc' = "idle"
      BY <1>27 DEF Crash, End
    <2>2. cut' = cut \/ cut' = [cut EXCEPT !.of = body, !.size = size, !.whole = FALSE]
      BY <1>27 DEF Crash
    <2>3. cut'.stamp = cut.stamp /\ cut'.of \in {cut.of, body}
      BY <2>2
    <2>4. QED
      BY <2>1, <2>3, FaultsAssumption DEF Points
  <1>28. CASE UNCHANGED vars
    BY <1>28 DEF vars, Points
  <1>29. QED
    BY <1>1, <1>2, <1>3, <1>4, <1>5, <1>6, <1>7, <1>8, <1>9, <1>10, <1>11,
       <1>12, <1>13, <1>13a, <1>14, <1>15, <1>16, <1>17, <1>18, <1>19, <1>20, <1>21,
       <1>22, <1>23, <1>24, <1>25, <1>26, <1>27, <1>28
    DEF Next

(* Answers a for chunk i of body b, or for no chunk.                       *)
Named(b, i, a) == a \in {NoAnswers, Torn} \/ \E s \in Sizes : a.text = Text(b, s, i)

(* The answers kept, set aside and held by threads are for the chunk and   *)
(* the body they are kept under.                                           *)
Texts ==
  /\ \A b \in Bodies, i \in Seqs : Named(b, i, cache[b][i])
  /\ \A i \in Seqs : Named(sha, i, stash.cache[i])
  /\ \A i \in Seqs : thread[i].at = "asked" => Named(sha, i, thread[i].data)

LEMMA NothingNamed == ASSUME NEW b, NEW i \in Seqs PROVE Named(b, i, NoStash.cache[i]) /\ Named(b, i, NoCache[i])
  BY DEF Named, NoStash, NoCache

(* Every step keeps Texts.                                                 *)
LEMMA TextsStep ==
    ASSUME Shapes, Threads, Sorts, Following, Texts, [Next]_vars
    PROVE  Texts'
  <1> USE DEF note, run, aux, Shapes, Sorts, Texts
  <1>1. CASE Edit
    BY <1>1 DEF Edit
  <1>2. ASSUME NEW s \in Sizes, Ingest(s) PROVE Texts'
    <2>1. pc = "idle" /\ stash' = NoStash /\ UNCHANGED <<cache, thread>>
      BY <1>2 DEF Ingest, Begin
    <2>2. \A i \in Seqs : thread'[i].at # "asked"
      BY <2>1 DEF Threads
    <2>3. QED
      BY <2>1, <2>2, NothingNamed
  <1>3. ASSUME NEW s \in Sizes, Reextract(s) PROVE Texts'
    <2>1. pc = "idle" /\ stash' = NoStash /\ UNCHANGED <<cache, thread>>
      BY <1>3 DEF Reextract, Begin
    <2>2. \A i \in Seqs : thread'[i].at # "asked"
      BY <2>1 DEF Threads
    <2>3. QED
      BY <2>1, <2>2, NothingNamed
  <1>4. ASSUME NEW s \in Sizes, ExtractKg(s) PROVE Texts'
    <2>1. pc = "idle" /\ stash' = NoStash /\ UNCHANGED <<cache, thread>>
      BY <1>4 DEF ExtractKg, Begin
    <2>2. \A i \in Seqs : thread'[i].at # "asked"
      BY <2>1 DEF Threads
    <2>3. QED
      BY <2>1, <2>2, NothingNamed
  <1>5. ASSUME NEW s \in Sizes, RedoProperties(s) PROVE Texts'
    <2>1. pc = "idle" /\ stash' = NoStash /\ UNCHANGED <<cache, thread>>
      BY <1>5 DEF RedoProperties, Begin
    <2>2. \A i \in Seqs : thread'[i].at # "asked"
      BY <2>1 DEF Threads
    <2>3. QED
      BY <2>1, <2>2, NothingNamed
  <1>6. CASE SplitNote
    BY <1>6 DEF SplitNote, Goto
  <1>7. CASE StampSplit
    BY <1>7 DEF StampSplit, Goto
  <1>8. CASE CheckChunks
    BY <1>8 DEF CheckChunks, Goto
  <1>9. CASE ForgetRows
    <2>1. stash'.cache = stash.cache /\ UNCHANGED <<cache, thread, sha>>
      BY <1>9 DEF ForgetRows, Goto
    <2>2. QED
      BY <2>1
  <1>10. CASE SetAside
    <2>1. stash' = [stash EXCEPT !.cache = cache[sha]] /\ cache' = [cache EXCEPT ![sha] = NoCache]
          /\ UNCHANGED <<thread, sha>>
      BY <1>10 DEF SetAside, Goto
    <2>2. stash'.cache = cache[sha]
      BY <2>1 DEF Places
    <2>3. \A b \in Bodies : cache'[b] = IF b = sha THEN NoCache ELSE cache[b]
      BY <2>1 DEF CacheShape
    <2>4. QED
      BY <2>1, <2>2, <2>3, NothingNamed DEF Places
  <1>11. CASE Prepare
    BY <1>11 DEF Prepare, Goto
  <1>12. ASSUME NEW i \in Seqs, AskChunk(i) PROVE Texts'
    <2>1. PICK e \in {"failed", "none", "some"}, p \in {"failed", "ok"}, r \in {"failed", "ok"} :
             thread' = [thread EXCEPT ![i] = Asked(i, e, p, r)]
      BY <1>12 DEF AskChunk
    <2>2. cut.of = sha /\ cut.of # 0 /\ cut.size \in Sizes
      BY <1>12 DEF AskChunk, InPass, Following, Checked, Points, CutType, Bodies
    <2>3. Named(sha, i, Asked(i, e, p, r).data)
      BY <2>2, AskedText DEF Named, Places
    <2>4. UNCHANGED <<cache, stash, sha>> /\ \A j \in Seqs \ {i} : thread'[j] = thread[j]
      BY <1>12, <2>1 DEF AskChunk, ThreadShape
    <2>5. thread'[i].data = Asked(i, e, p, r).data
      BY <2>1 DEF ThreadShape
    <2>6. QED
      BY <2>3, <2>4, <2>5
  <1>13. ASSUME NEW i \in Seqs, WriteChunk(i) PROVE Texts'
    <2>1. \A b \in Bodies, j \in Seqs : cache'[b][j] = IF b = sha /\ j = i THEN thread[i].data ELSE cache[b][j]
      BY <1>13 DEF WriteChunk, CacheShape
    <2>2. \A j \in Seqs : thread'[j].at = "asked" => thread'[j] = thread[j]
      BY <1>13 DEF WriteChunk, ThreadShape
    <2>3. QED
      BY <1>13, <2>1, <2>2 DEF WriteChunk
  <1>13a. ASSUME NEW i \in Seqs, Truncate(i) PROVE Texts'
    <2>1. \A b \in Bodies, j \in Seqs : cache'[b][j] = IF b = sha /\ j = i THEN Torn ELSE cache[b][j]
      BY <1>13a DEF Truncate, CacheShape
    <2>2. QED
      BY <1>13a, <2>1 DEF Truncate, Named
  <1>14. ASSUME NEW i \in Seqs, MarkStep(i) PROVE Texts'
    <2>1. \A j \in Seqs : thread'[j].at = "asked" => thread'[j] = thread[j]
      <3>1. CASE thread' = [thread EXCEPT ![i] = Idle]
        BY <3>1 DEF ThreadShape, Idle
      <3>2. CASE thread' = [thread EXCEPT ![i] = [thread[i] EXCEPT !.marks = Tail(thread[i].marks)]]
        BY <1>14, <3>2 DEF ThreadShape, MarkStep
      <3>3. QED
        BY <1>14, <3>1, <3>2, MarkedThread
    <2>2. QED
      BY <1>14, <2>1 DEF MarkStep
  <1>15. ASSUME NEW i \in Seqs, RaiseChunk(i) PROVE Texts'
    <2>1. UNCHANGED <<cache, stash, sha>> /\ \A j \in Seqs : thread'[j] \in {thread[j], Idle}
      BY <1>15 DEF RaiseChunk, ThreadShape
    <2>2. \A j \in Seqs : thread'[j].at = "asked" => thread'[j].data = thread[j].data
      BY <2>1 DEF Idle
    <2>3. \A j \in Seqs : thread'[j].at = "asked" => thread[j].at = "asked"
      BY <2>1 DEF Idle
    <2>4. QED
      BY <2>1, <2>2, <2>3
  <1>16. CASE Retry
    BY <1>16 DEF Retry, Goto
  <1>17. CASE Judge
    BY <1>17 DEF Judge, Goto, PassOver
  <1>18. CASE Refuse
    BY <1>18 DEF Refuse, GiveUp, End
  <1>19. CASE Accept
    BY <1>19 DEF Accept, Goto
  <1>20. CASE Stage
    <2>1. stash' = NoStash /\ UNCHANGED <<cache, sha>> /\ \A i \in Seqs : thread'[i].at \in {thread[i].at, "idle"}
      BY <1>20 DEF Stage, End, Idle
    <2>2. \A i \in Seqs : thread'[i].at = "asked" => thread'[i].data = thread[i].data
      BY <1>20 DEF Stage, Idle
    <2>3. QED
      BY <2>1, <2>2, NothingNamed
  <1>21. CASE RefuseEmpty
    BY <1>21 DEF RefuseEmpty, GiveUp, End
  <1>22. CASE Discard
    <2>1. \A b \in Bodies : cache'[b] = IF b = sha THEN NoCache ELSE cache[b]
      BY <1>22 DEF Discard, CacheShape
    <2>2. QED
      BY <1>22, <2>1, NothingNamed DEF Discard, Goto
  <1>23. CASE PutBack
    <2>1. \A b \in Bodies : cache'[b] = IF b = sha THEN stash.cache ELSE cache[b]
      BY <1>23 DEF PutBack, CacheShape
    <2>2. QED
      BY <1>23, <2>1 DEF PutBack, Goto
  <1>24. CASE Relist
    <2>1. stash' = NoStash /\ UNCHANGED <<cache, sha>> /\ \A i \in Seqs : thread'[i].at \in {thread[i].at, "idle"}
      BY <1>24 DEF Relist, End, Idle
    <2>2. \A i \in Seqs : thread'[i].at = "asked" => thread'[i].data = thread[i].data
      BY <1>24 DEF Relist, Idle
    <2>3. QED
      BY <2>1, <2>2, NothingNamed
  <1>25. CASE Interrupt
    <2>1. UNCHANGED <<cache, stash, sha>> /\ \A j \in Seqs : thread'[j] \in {thread[j], Idle}
      BY <1>25 DEF Interrupt, GiveUp, End, ThreadShape
    <2>2. \A j \in Seqs : thread'[j].at = "asked" => thread'[j].data = thread[j].data
      BY <2>1 DEF Idle
    <2>3. \A j \in Seqs : thread'[j].at = "asked" => thread[j].at = "asked"
      BY <2>1 DEF Idle
    <2>4. QED
      BY <2>1, <2>2, <2>3
  <1>26. CASE RaiseOutside
    <2>1. stash' = NoStash /\ UNCHANGED <<cache, sha>> /\ \A i \in Seqs : thread'[i].at \in {thread[i].at, "idle"}
      BY <1>26 DEF RaiseOutside, End, Idle
    <2>2. \A i \in Seqs : thread'[i].at = "asked" => thread'[i].data = thread[i].data
      BY <1>26 DEF RaiseOutside, Idle
    <2>3. QED
      BY <2>1, <2>2, NothingNamed
  <1>27. CASE Crash
    <2>1. stash' = NoStash /\ UNCHANGED <<cache, sha>> /\ \A i \in Seqs : thread'[i].at \in {thread[i].at, "idle"}
      BY <1>27 DEF Crash, End, Idle
    <2>2. \A i \in Seqs : thread'[i].at = "asked" => thread'[i].data = thread[i].data
      BY <1>27 DEF Crash, Idle
    <2>3. QED
      BY <2>1, <2>2, NothingNamed
  <1>28. CASE UNCHANGED vars
    BY <1>28 DEF vars
  <1>29. QED
    BY <1>1, <1>2, <1>3, <1>4, <1>5, <1>6, <1>7, <1>8, <1>9, <1>10, <1>11,
       <1>12, <1>13, <1>13a, <1>14, <1>15, <1>16, <1>17, <1>18, <1>19, <1>20, <1>21,
       <1>22, <1>23, <1>24, <1>25, <1>26, <1>27, <1>28
    DEF Next

(* What is staged is of the body document.json claims, whatever sizes the  *)
(* runs have, dies and raises, while nobody edits the note meanwhile.      *)
Stands == Always /\ Sorts /\ Following /\ Texts

LEMMA StandsStarts == Init => Stands /\ StagedIsClaimed
  <1> SUFFICES ASSUME Init PROVE Stands /\ StagedIsClaimed
    OBVIOUS
  <1>1. Following
    BY BoundsAssumption DEF Init, Following, Checked, Points
  <1>2. Texts
    BY DEF Init, Texts, Named, NoStash, NoCache, Idle
  <1>3. StagedIsClaimed
    BY DEF Init, StagedIsClaimed, NothingStaged
  <1>4. QED
    BY <1>1, <1>2, <1>3, AlwaysStarts, SortsStart DEF Stands

LEMMA StandsStep == ASSUME ~EditWhile, Stands, [Next]_vars PROVE Stands'
  <1>1. Always' /\ Sorts'
    BY AlwaysSteps, SortsStep DEF Stands
  <1>2. Following' /\ Texts'
    BY FollowingStep, TextsStep DEF Stands, Always, Sorts
  <1>3. QED
    BY <1>1, <1>2 DEF Stands

(* Every step keeps StagedIsClaimed.                                       *)
LEMMA ClaimedStep ==
    ASSUME Stands, StagedIsClaimed, [Next]_vars
    PROVE  StagedIsClaimed'
  <1> USE DEF note, run, aux, StagedIsClaimed
  <1>1. CASE Edit
    BY <1>1 DEF Edit
  <1>2. ASSUME NEW s \in Sizes, Ingest(s) PROVE StagedIsClaimed'
    BY <1>2 DEF Ingest, Begin
  <1>3. ASSUME NEW s \in Sizes, Reextract(s) PROVE StagedIsClaimed'
    BY <1>3 DEF Reextract, Begin
  <1>4. ASSUME NEW s \in Sizes, ExtractKg(s) PROVE StagedIsClaimed'
    BY <1>4 DEF ExtractKg, Begin
  <1>5. ASSUME NEW s \in Sizes, RedoProperties(s) PROVE StagedIsClaimed'
    BY <1>5 DEF RedoProperties, Begin
  <1>6. CASE SplitNote
    BY <1>6 DEF SplitNote, Goto
  <1>7. CASE StampSplit
    BY <1>7 DEF StampSplit, Goto
  <1>8. CASE CheckChunks
    BY <1>8 DEF CheckChunks, Goto
  <1>9. CASE ForgetRows
    BY <1>9 DEF ForgetRows, Goto
  <1>10. CASE SetAside
    BY <1>10 DEF SetAside, Goto
  <1>11. CASE Prepare
    BY <1>11 DEF Prepare, Goto
  <1>12. ASSUME NEW i \in Seqs, AskChunk(i) PROVE StagedIsClaimed'
    BY <1>12 DEF AskChunk, InPass
  <1>13. ASSUME NEW i \in Seqs, WriteChunk(i) PROVE StagedIsClaimed'
    BY <1>13 DEF WriteChunk
  <1>13a. ASSUME NEW i \in Seqs, Truncate(i) PROVE StagedIsClaimed'
    BY <1>13a DEF Truncate
  <1>14. ASSUME NEW i \in Seqs, MarkStep(i) PROVE StagedIsClaimed'
    BY <1>14 DEF MarkStep, Updated
  <1>15. ASSUME NEW i \in Seqs, RaiseChunk(i) PROVE StagedIsClaimed'
    BY <1>15 DEF RaiseChunk, InPass, Updated, Fault
  <1>16. CASE Retry
    BY <1>16 DEF Retry, Goto
  <1>17. CASE Judge
    BY <1>17 DEF Judge, Goto, PassOver
  <1>18. CASE Refuse
    BY <1>18 DEF Refuse, GiveUp, End
  <1>19. CASE Accept
    BY <1>19 DEF Accept, Goto
  <1>20. CASE Stage
    <2>1. staged'.of = sha /\ staged'.chunks = Merged
      BY <1>20 DEF Stage
    <2>2. ChunkCount \in 1..MaxChunks /\ sha \in Bodies
      BY <1>20, Counted DEF Stage, Stands, Sorts, CutType, HasCut
    <2>3. ASSUME NEW j \in DOMAIN Merged PROVE Merged[j].text[1] = sha
      <3>1. j \in Seqs /\ cache[sha][j] \notin {NoAnswers, Torn} /\ Merged[j] = cache[sha][j]
        BY <1>20, <2>2, BoundsAssumption DEF Stage, Readable, Merged, Seqs
      <3>2. PICK s \in Sizes : Merged[j].text = Text(sha, s, j)
        BY <2>2, <3>1 DEF Stands, Texts, Named
      <3>3. QED
        BY <3>2 DEF Text
    <2>4. QED
      BY <2>1, <2>3
  <1>21. CASE RefuseEmpty
    BY <1>21 DEF RefuseEmpty, GiveUp, End
  <1>22. CASE Discard
    BY <1>22 DEF Discard, Goto
  <1>23. CASE PutBack
    BY <1>23 DEF PutBack, Goto
  <1>24. CASE Relist
    BY <1>24 DEF Relist, End
  <1>25. CASE Interrupt
    BY <1>25 DEF Interrupt, GiveUp, End, InPass
  <1>26. CASE RaiseOutside
    BY <1>26 DEF RaiseOutside, End
  <1>27. CASE Crash
    BY <1>27 DEF Crash, End
  <1>28. CASE UNCHANGED vars
    BY <1>28 DEF vars
  <1>29. QED
    BY <1>1, <1>2, <1>3, <1>4, <1>5, <1>6, <1>7, <1>8, <1>9, <1>10, <1>11,
       <1>12, <1>13, <1>13a, <1>14, <1>15, <1>16, <1>17, <1>18, <1>19, <1>20, <1>21,
       <1>22, <1>23, <1>24, <1>25, <1>26, <1>27, <1>28
    DEF Next

THEOREM Claimed == ASSUME ~EditWhile PROVE Spec => []StagedIsClaimed
  <1>1. Init => Stands /\ StagedIsClaimed
    BY StandsStarts
  <1>2. Stands /\ StagedIsClaimed /\ [Next]_vars => (Stands /\ StagedIsClaimed)'
    BY StandsStep, ClaimedStep
  <1>3. QED
    BY <1>1, <1>2, PTL DEF Spec

(* The marks of one asking, one after the other.                           *)
MarkOf(step, m) == IF m = "kept" THEN <<>> ELSE <<<<step, m>>>>
Width(m) == IF m = "kept" THEN 0 ELSE 1
Outcomes == {"kept", "skipped", "failed", "ok"}

LEMMA MarkAdded ==
    ASSUME NEW s \in Seq(Steps \X Status), NEW step \in Steps, NEW m \in Outcomes
    PROVE  /\ s \o MarkOf(step, m) \in Seq(Steps \X Status)
           /\ Len(s \o MarkOf(step, m)) = Len(s) + Width(m)
           /\ \A k \in 1 .. Len(s) : (s \o MarkOf(step, m))[k] = s[k]
           /\ m # "kept" => (s \o MarkOf(step, m))[Len(s) + 1] = <<step, m>>
  <1>1. CASE m = "kept"
    BY <1>1 DEF MarkOf, Width
  <1>2. CASE m # "kept"
    <2>1. <<step, m>> \in Steps \X Status
      BY <1>2 DEF Outcomes, Status
    <2>2. MarkOf(step, m) = <<<<step, m>>>> /\ Width(m) = 1
      BY <1>2 DEF MarkOf, Width
    <2>3. <<<<step, m>>>> \in Seq(Steps \X Status) /\ Len(<<<<step, m>>>>) = 1
          /\ <<<<step, m>>>>[1] = <<step, m>>
      BY <2>1
    <2>4. /\ s \o <<<<step, m>>>> \in Seq(Steps \X Status)
          /\ Len(s \o <<<<step, m>>>>) = Len(s) + 1
          /\ \A k \in 1 .. Len(s) + 1 : (s \o <<<<step, m>>>>)[k] =
               IF k <= Len(s) THEN s[k] ELSE <<<<step, m>>>>[k - Len(s)]
      BY <2>3, ConcatProperties
    <2>5. QED
      BY <2>2, <2>3, <2>4
  <1>3. QED
    BY <1>1, <1>2

(* M is the marks em of the entities, pm of the properties and rm of the   *)
(* relationships, those that there are, in this order.                     *)
Lists(M, em, pm, rm) ==
  /\ M \in Seq(Steps \X Status)
  /\ Len(M) = Width(em) + Width(pm) + Width(rm)
  /\ em # "kept" => M[1] = <<"entities", em>>
  /\ pm # "kept" => M[Width(em) + 1] = <<"properties", pm>>
  /\ rm # "kept" => M[Width(em) + Width(pm) + 1] = <<"relationships", rm>>

LEMMA MarksAre ==
    ASSUME NEW em \in Outcomes, NEW pm \in Outcomes, NEW rm \in Outcomes
    PROVE  Lists(MarkOf("entities", em) \o MarkOf("properties", pm) \o MarkOf("relationships", rm), em, pm, rm)
  <1> DEFINE s == MarkOf("entities", em)
             t == s \o MarkOf("properties", pm)
             u == t \o MarkOf("relationships", rm)
  <1>1. "entities" \in Steps /\ "properties" \in Steps /\ "relationships" \in Steps
    BY DEF Steps
  <1>2. s \in Seq(Steps \X Status) /\ Len(s) = Width(em) /\ (em # "kept" => s[1] = <<"entities", em>>)
    <2>1. CASE em = "kept"
      BY <2>1 DEF MarkOf, Width
    <2>2. CASE em # "kept"
      <3>1. <<"entities", em>> \in Steps \X Status
        BY <1>1, <2>2 DEF Outcomes, Status
      <3>2. QED
        BY <2>2, <3>1 DEF MarkOf, Width
    <2>3. QED
      BY <2>1, <2>2
  <1>3. \A x \in Outcomes : Width(x) \in {0, 1} /\ (x # "kept" => Width(x) = 1)
    BY DEF Width
  <1> HIDE DEF s
  <1>4. /\ t \in Seq(Steps \X Status) /\ Len(t) = Width(em) + Width(pm)
        /\ \A k \in 1 .. Len(s) : t[k] = s[k]
        /\ pm # "kept" => t[Width(em) + 1] = <<"properties", pm>>
    <2>1. /\ t \in Seq(Steps \X Status) /\ Len(t) = Len(s) + Width(pm)
          /\ \A k \in 1 .. Len(s) : t[k] = s[k]
          /\ pm # "kept" => t[Len(s) + 1] = <<"properties", pm>>
      BY <1>1, <1>2, MarkAdded
    <2>2. QED
      BY <1>2, <2>1
  <1> HIDE DEF t
  <1>5. /\ u \in Seq(Steps \X Status) /\ Len(u) = Len(t) + Width(rm)
        /\ \A k \in 1 .. Len(t) : u[k] = t[k]
        /\ rm # "kept" => u[Len(t) + 1] = <<"relationships", rm>>
    BY <1>1, <1>4, MarkAdded
  <1> HIDE DEF u
  <1>6. em # "kept" => u[1] = <<"entities", em>>
    BY <1>2, <1>3, <1>4, <1>5
  <1>7. pm # "kept" => u[Width(em) + 1] = <<"properties", pm>>
    BY <1>3, <1>4, <1>5
  <1>8. Lists(u, em, pm, rm)
    BY <1>3, <1>4, <1>5, <1>6, <1>7 DEF Lists
  <1>9. QED
    BY <1>8 DEF s, t, u

(* Each mark is of one of the three, and comes where it should.            *)
LEMMA MarksOnly ==
    ASSUME NEW M, NEW em \in Outcomes, NEW pm \in Outcomes, NEW rm \in Outcomes,
           Lists(M, em, pm, rm), NEW k \in DOMAIN M
    PROVE  \/ em # "kept" /\ k = 1 /\ M[k] = <<"entities", em>>
           \/ pm # "kept" /\ k = Width(em) + 1 /\ M[k] = <<"properties", pm>>
           \/ rm # "kept" /\ k = Width(em) + Width(pm) + 1 /\ M[k] = <<"relationships", rm>>
  <1>1. k \in 1 .. Len(M)
    BY DEF Lists
  <1>2. \A x \in Outcomes : Width(x) = IF x = "kept" THEN 0 ELSE 1
    BY DEF Width
  <1>3. QED
    BY <1>1, <1>2 DEF Lists

(* What one asking of chunk i comes to: its marks, and which of its        *)
(* answers are of the entities that stand beside them.                     *)
LEMMA AskedIs ==
    ASSUME CutType, DataType, cut.of # 0, NEW i \in Seqs, NEW e \in {"failed", "none", "some"},
           NEW p \in {"failed", "ok"}, NEW r \in {"failed", "ok"}
    PROVE  LET A == Asked(i, e, p, r)
               c == cache[sha][i]
               em == IF statuses[i]["entities"] = "ok" THEN "kept"
                     ELSE IF e = "failed" THEN "failed" ELSE "ok"
               has == em # "failed" /\ A.data.entities = "some"
               pm == Depends(i, "properties", has, p)
               rm == Depends(i, "relationships", has, r)
           IN  /\ em \in Outcomes \ {"skipped"} /\ pm \in Outcomes /\ rm \in Outcomes
               /\ Lists(A.marks, em, pm, rm)
               /\ em # "ok" => A.data.entities = c.entities
               /\ A.data.properties = IF pm = "ok" THEN "current"
                    ELSE IF em = "ok" /\ c.properties # "unasked" THEN "stale" ELSE c.properties
               /\ A.data.relationships = IF rm = "ok" THEN "current"
                    ELSE IF em = "ok" /\ c.relationships # "unasked" THEN "stale" ELSE c.relationships
  <1> DEFINE c == cache[sha][i]
             askE == statuses[i]["entities"] # "ok"
             d == Redone(i, IF askE THEN e ELSE "kept")
             em == IF ~askE THEN "kept" ELSE IF e = "failed" THEN e ELSE "ok"
             has == (askE => e # "failed") /\ d.entities = "some"
             pm == Depends(i, "properties", has, p)
             rm == Depends(i, "relationships", has, r)
             D == [d EXCEPT !.properties = IF pm = "ok" THEN "current" ELSE @,
                            !.relationships = IF rm = "ok" THEN "current" ELSE @]
             M == MarkOf("entities", em) \o MarkOf("properties", pm) \o MarkOf("relationships", rm)
  <1>1. Asked(i, e, p, r) = [at |-> "asked", data |-> D, marks |-> M]
    BY DEF Asked, MarkOf
  <1>2. DOMAIN c = Parts
    BY DEF CutType, DataType, Given, Answers, NoAnswers, Torn, Parts
  <1>3. /\ DOMAIN d = Parts
        /\ em = "ok" => d.entities = e
        /\ em # "ok" => d.entities = c.entities
        /\ d.properties = IF em = "ok" /\ c.properties # "unasked" THEN "stale" ELSE c.properties
        /\ d.relationships = IF em = "ok" /\ c.relationships # "unasked" THEN "stale" ELSE c.relationships
    BY <1>2 DEF Redone, Parts
  <1>4. pm \in Outcomes /\ rm \in Outcomes
    BY DEF Depends, Outcomes
  <1>5. em \in Outcomes \ {"skipped"} /\ (em # "failed" <=> (askE => e # "failed"))
    BY DEF Outcomes
  <1> DEFINE A == Asked(i, e, p, r)
  <1> HIDE DEF d, pm, rm, c
  <1>6. /\ D.entities = d.entities
        /\ D.properties = IF pm = "ok" THEN "current" ELSE d.properties
        /\ D.relationships = IF rm = "ok" THEN "current" ELSE d.relationships
    BY <1>3 DEF Parts
  <1>7. Lists(M, em, pm, rm)
    BY <1>4, <1>5, MarksAre
  <1> HIDE DEF D, M
  <1>8. A.data = D /\ A.marks = M
    BY <1>1
  <1>9. has <=> em # "failed" /\ A.data.entities = "some"
    BY <1>5, <1>6, <1>8
  <1> HIDE DEF A
  <1>10. /\ em # "ok" => A.data.entities = c.entities
         /\ A.data.properties = IF pm = "ok" THEN "current"
              ELSE IF em = "ok" /\ c.properties # "unasked" THEN "stale" ELSE c.properties
         /\ A.data.relationships = IF rm = "ok" THEN "current"
              ELSE IF em = "ok" /\ c.relationships # "unasked" THEN "stale" ELSE c.relationships
    BY <1>3, <1>6, <1>8
  <1>11. Lists(A.marks, em, pm, rm)
    BY <1>7, <1>8
  <1> DEFINE has2 == em # "failed" /\ A.data.entities = "some"
  <1>12. pm = Depends(i, "properties", has2, p) /\ rm = Depends(i, "relationships", has2, r)
    BY <1>9 DEF Depends, pm, rm
  <1>13. em = IF statuses[i]["entities"] = "ok" THEN "kept" ELSE IF e = "failed" THEN "failed" ELSE "ok"
    OBVIOUS
  <1> HIDE DEF em, has2
  <1>14. QED
    BY <1>4, <1>5, <1>10, <1>11, <1>12, <1>13 DEF A, c, has2

-----------------------------------------------------------------------------

(* Past Prepare every chunk has a row; a row is there with all its steps   *)
(* or not at all, and its entities are never skipped.                      *)
Working == pc \in {"pass1", "pass2", "judge", "merge"}
Rowed(row) == row = Absent \/ ((\A st \in Steps : row[st] # "absent") /\ row["entities"] # "skipped")
Mark(m) == m[2] \in {"ok", "failed", "skipped"} /\ (m[1] = "entities" => m[2] # "skipped")
Marked(marks) == \A k \in DOMAIN marks : Mark(marks[k])

RowsKnown ==
  /\ \A b \in Bodies, i \in Seqs : Rowed(rows[b][i])
  /\ \A i \in Seqs : Rowed(stash.rows[i])
  /\ \A i \in Seqs : Marked(thread[i].marks)
  /\ Working => \A i \in 1..ChunkCount : rows[sha][i] # Absent
  /\ pc = "merge" => Incomplete(rows[sha]) = {}

(* What an UPDATE of one status comes to, row by row.                      *)
LEMMA UpdatedIs ==
    ASSUME Places, RowsShape, NEW i \in Seqs, NEW step \in Steps, NEW status \in Status,
           NEW b \in Bodies, NEW j \in Seqs
    PROVE  Updated(i, step, status)[b][j] =
             IF b = sha /\ j = i /\ rows[sha][i] # Absent
             THEN [rows[sha][i] EXCEPT ![step] = status] ELSE rows[b][j]
  <1>1. rows[sha] \in [Seqs -> [Steps -> Status]] /\ rows[sha][i] \in [Steps -> Status]
    BY DEF Places, RowsShape
  <1>2. [rows EXCEPT ![sha][i][step] = status] =
          [rows EXCEPT ![sha] = [rows[sha] EXCEPT ![i] = [rows[sha][i] EXCEPT ![step] = status]]]
    BY DEF RowsShape
  <1>3. QED
    BY <1>1, <1>2 DEF Updated, RowsShape, Places

LEMMA RowedUpdated ==
    ASSUME NEW row \in [Steps -> Status], row # Absent, Rowed(row), NEW step \in Steps, NEW status \in Status,
           Mark(<<step, status>>)
    PROVE  LET new == [row EXCEPT ![step] = status] IN Rowed(new) /\ new # Absent
  BY DEF Rowed, Mark, Absent, Steps

LEMMA AskedMarked ==
    ASSUME CutType, DataType, cut.of # 0, NEW i \in Seqs, NEW e \in {"failed", "none", "some"},
           NEW p \in {"failed", "ok"}, NEW r \in {"failed", "ok"}
    PROVE  Marked(Asked(i, e, p, r).marks)
  <1>1. PICK em \in Outcomes \ {"skipped"}, pm \in Outcomes, rm \in Outcomes :
          Lists(Asked(i, e, p, r).marks, em, pm, rm)
    BY AskedIs
  <1>2. ASSUME NEW k \in DOMAIN Asked(i, e, p, r).marks PROVE Mark(Asked(i, e, p, r).marks[k])
    BY <1>1, MarksOnly DEF Mark, Outcomes
  <1>3. QED
    BY <1>2 DEF Marked

(* A thread's first mark is one, and so are those after it.                *)
LEMMA MarkedTail ==
    ASSUME NEW marks \in Seq(Steps \X Status), marks # <<>>, Marked(marks)
    PROVE  /\ marks[1] \in Steps \X Status /\ Mark(marks[1]) /\ marks[1] = <<marks[1][1], marks[1][2]>>
           /\ Marked(Tail(marks))
  <1>1. Len(marks) \in Nat \ {0} /\ DOMAIN marks = 1 .. Len(marks)
    OBVIOUS
  <1>2. /\ DOMAIN Tail(marks) = 1 .. Len(marks) - 1
        /\ \A k \in 1 .. Len(marks) - 1 : Tail(marks)[k] = marks[k + 1]
    BY <1>1
  <1>3. 1 \in DOMAIN marks /\ \A k \in 1 .. Len(marks) - 1 : k + 1 \in DOMAIN marks
    BY <1>1
  <1>4. marks[1] \in Steps \X Status
    BY <1>3
  <1>5. QED
    BY <1>2, <1>3, <1>4 DEF Marked

(* No marks, no rows.                                                      *)
LEMMA NothingKnown == Marked(Idle.marks) /\ Rowed(Absent) /\ Rowed(Pending) /\ Pending # Absent
                      /\ \A i \in Seqs : Rowed(NoStash.rows[i])
  BY DEF Marked, Idle, Rowed, Absent, Pending, NoStash, Steps

(* Every step keeps RowsKnown.                                             *)
LEMMA RowsKnownStep ==
    ASSUME Shapes, Threads, Sorts, RowsKnown, [Next]_vars
    PROVE  RowsKnown'
  <1> USE DEF note, run, aux, Shapes, Places, RowsKnown, Working
  <1>1. CASE Edit
    BY <1>1 DEF Edit, ChunkCount
  <1>2. ASSUME NEW s \in Sizes, Ingest(s) PROVE RowsKnown'
    <2>1. pc = "idle" /\ stash' = NoStash /\ UNCHANGED <<rows, thread>> /\ pc' \in {"split", "check"}
      BY <1>2 DEF Ingest, Begin
    <2>2. QED
      BY <2>1, NothingKnown
  <1>3. ASSUME NEW s \in Sizes, Reextract(s) PROVE RowsKnown'
    <2>1. pc = "idle" /\ stash' = NoStash /\ UNCHANGED <<rows, thread>> /\ pc' \in {"split", "check"}
      BY <1>3 DEF Reextract, Begin
    <2>2. QED
      BY <2>1, NothingKnown
  <1>4. ASSUME NEW s \in Sizes, ExtractKg(s) PROVE RowsKnown'
    <2>1. pc = "idle" /\ stash' = NoStash /\ UNCHANGED <<rows, thread>> /\ pc' \in {"split", "check"}
      BY <1>4 DEF ExtractKg, Begin
    <2>2. QED
      BY <2>1, NothingKnown
  <1>5. ASSUME NEW s \in Sizes, RedoProperties(s) PROVE RowsKnown'
    <2>1. stash' = NoStash /\ UNCHANGED thread /\ pc' = "check"
      BY <1>5 DEF RedoProperties, Begin
    <2> DEFINE new(j) == IF rows[body][j]["entities"] = "ok"
                         THEN [rows[body][j] EXCEPT !["properties"] = "pending"] ELSE rows[body][j]
    <2>2. rows' = [rows EXCEPT ![body] = [j \in Seqs |-> new(j)]]
      BY <1>5 DEF RedoProperties
    <2>3. ASSUME NEW j \in Seqs PROVE Rowed(new(j))
      <3>1. CASE rows[body][j]["entities"] = "ok"
        BY <3>1 DEF Rowed, Absent, Steps, RowsShape
      <3>2. CASE rows[body][j]["entities"] # "ok"
        BY <3>2
      <3>3. QED
        BY <3>1, <3>2
    <2> HIDE DEF new
    <2>4. \A b \in Bodies, j \in Seqs : Rowed(rows'[b][j])
      BY <2>2, <2>3 DEF RowsShape
    <2>5. QED
      BY <2>1, <2>4, NothingKnown
  <1>6. CASE SplitNote
    BY <1>6 DEF SplitNote, Goto
  <1>7. CASE StampSplit
    BY <1>7 DEF StampSplit, Goto, ChunkCount
  <1>8. CASE CheckChunks
    BY <1>8 DEF CheckChunks, Goto, ChunkCount
  <1>9. CASE ForgetRows
    <2>1. /\ \A b \in Bodies, j \in Seqs : rows'[b][j] = IF b = sha THEN Absent ELSE rows[b][j]
          /\ \A j \in Seqs : stash'.rows[j] = rows[sha][j]
          /\ UNCHANGED thread /\ pc' = "setaside"
      BY <1>9 DEF ForgetRows, Goto, RowsShape
    <2>2. QED
      BY <2>1, NothingKnown
  <1>10. CASE SetAside
    <2>1. stash'.rows = stash.rows
      BY <1>10 DEF SetAside
    <2>2. QED
      BY <1>10, <2>1 DEF SetAside, Goto
  <1>11. CASE Prepare
    <2>1. ChunkCount \in 1..MaxChunks /\ UNCHANGED <<stash, thread, cut, sha>> /\ pc' = "pass1"
      BY <1>11, Counted DEF Prepare, Goto, Sorts, CutType, HasCut
    <2>2. \A b \in Bodies, j \in Seqs : rows'[b][j] = IF b = sha THEN Prepared[j] ELSE rows[b][j]
      BY <1>11 DEF Prepare, RowsShape
    <2>3. \A j \in Seqs : Rowed(Prepared[j]) /\ (j <= ChunkCount => Prepared[j] # Absent)
      BY NothingKnown DEF Prepared
    <2>4. \A j \in 1 .. ChunkCount : j \in Seqs
      BY <2>1, BoundsAssumption DEF Seqs
    <2>5. QED
      BY <2>1, <2>2, <2>3, <2>4 DEF Seqs, ChunkCount
  <1>12. ASSUME NEW i \in Seqs, AskChunk(i) PROVE RowsKnown'
    <2>1. PICK e \in {"failed", "none", "some"}, p \in {"failed", "ok"}, r \in {"failed", "ok"} :
             thread' = [thread EXCEPT ![i] = Asked(i, e, p, r)]
      BY <1>12 DEF AskChunk
    <2>2. cut.of # 0
      BY <1>12 DEF AskChunk, InPass, Sorts, CutType, HasCut
    <2>3. Marked(Asked(i, e, p, r).marks)
      BY <2>2, AskedMarked DEF Sorts
    <2>4. \A j \in Seqs : Marked(thread'[j].marks)
      BY <2>1, <2>3 DEF ThreadShape
    <2>5. QED
      BY <1>12, <2>4 DEF AskChunk, ChunkCount
  <1>13. ASSUME NEW i \in Seqs, WriteChunk(i) PROVE RowsKnown'
    <2>1. \A j \in Seqs : thread'[j].marks = thread[j].marks
      BY <1>13 DEF WriteChunk, ThreadShape
    <2>2. QED
      BY <1>13, <2>1 DEF WriteChunk, ChunkCount
  <1>13a. ASSUME NEW i \in Seqs, Truncate(i) PROVE RowsKnown'
    BY <1>13a DEF Truncate, ChunkCount
  <1>14. ASSUME NEW i \in Seqs, MarkStep(i) PROVE RowsKnown'
    <2>1. UNCHANGED <<pc, sha, cut, stash>> /\ pc \in {"pass1", "pass2"}
      BY <1>14 DEF MarkStep, Threads
    <2>2. \A j \in Seqs : Marked(thread'[j].marks)
      <3>1. CASE thread' = [thread EXCEPT ![i] = Idle]
        BY <3>1, NothingKnown DEF ThreadShape
      <3>2. CASE thread[i].marks # <<>> /\ thread' = [thread EXCEPT ![i] = [thread[i] EXCEPT !.marks = Tail(thread[i].marks)]]
        <4>1. Marked(Tail(thread[i].marks))
          BY <3>2, MarkedTail DEF ThreadShape
        <4>2. QED
          BY <3>2, <4>1 DEF ThreadShape
      <3>3. QED
        BY <1>14, <3>1, <3>2, MarkedThread
    <2>3. ASSUME NEW b \in Bodies, NEW j \in Seqs
          PROVE Rowed(rows'[b][j]) /\ (rows[b][j] # Absent => rows'[b][j] # Absent)
      <3>1. CASE rows' = rows
        BY <3>1
      <3>2. CASE thread[i].marks # <<>> /\ rows' = Updated(i, thread[i].marks[1][1], thread[i].marks[1][2])
        <4>1. thread[i].marks[1] \in Steps \X Status /\ Mark(<<thread[i].marks[1][1], thread[i].marks[1][2]>>)
          BY <3>2, MarkedTail DEF ThreadShape
        <4>2. rows'[b][j] = IF b = sha /\ j = i /\ rows[sha][i] # Absent
                THEN [rows[sha][i] EXCEPT ![thread[i].marks[1][1]] = thread[i].marks[1][2]] ELSE rows[b][j]
          <5>1. PICK x \in Steps, y \in Status : x = thread[i].marks[1][1] /\ y = thread[i].marks[1][2]
            BY <4>1
          <5>2. Updated(i, x, y)[b][j] = IF b = sha /\ j = i /\ rows[sha][i] # Absent
                  THEN [rows[sha][i] EXCEPT ![x] = y] ELSE rows[b][j]
            BY UpdatedIs
          <5>3. QED
            BY <3>2, <5>1, <5>2
        <4>3. rows[b][j] \in [Steps -> Status]
          BY DEF RowsShape
        <4>4. QED
          BY <4>1, <4>2, <4>3, RowedUpdated
      <3>3. QED
        BY <1>14, <3>1, <3>2 DEF MarkStep
    <2>4. \A b \in Bodies, j \in Seqs : Rowed(rows'[b][j]) /\ (rows[b][j] # Absent => rows'[b][j] # Absent)
      BY <2>3
    <2>5. \A j \in 1 .. ChunkCount : j \in Seqs
      BY <2>1, Counted, BoundsAssumption DEF Sorts, CutType, HasCut, Seqs
    <2>6. QED
      BY <2>1, <2>2, <2>4, <2>5 DEF ChunkCount
  <1>15. ASSUME NEW i \in Seqs, RaiseChunk(i) PROVE RowsKnown'
    <2>1. UNCHANGED <<pc, sha, cut, stash>> /\ pc \in {"pass1", "pass2"}
      BY <1>15 DEF RaiseChunk, InPass
    <2>2. \A j \in Seqs : Marked(thread'[j].marks)
      BY <1>15, NothingKnown DEF RaiseChunk, ThreadShape
    <2>3. ASSUME NEW b \in Bodies, NEW j \in Seqs
          PROVE Rowed(rows'[b][j]) /\ (rows[b][j] # Absent => rows'[b][j] # Absent)
      <3>1. CASE rows' = rows
        BY <3>1
      <3>2. CASE rows' = Updated(i, "entities", "failed")
        <4>1. "entities" \in Steps /\ "failed" \in Status /\ Mark(<<"entities", "failed">>)
          BY DEF Steps, Status, Mark
        <4>2. rows'[b][j] = IF b = sha /\ j = i /\ rows[sha][i] # Absent
                THEN [rows[sha][i] EXCEPT !["entities"] = "failed"] ELSE rows[b][j]
          BY <3>2, <4>1, UpdatedIs
        <4>3. rows[b][j] \in [Steps -> Status]
          BY DEF RowsShape
        <4>4. QED
          BY <4>1, <4>2, <4>3, RowedUpdated
      <3>3. QED
        BY <1>15, <3>1, <3>2 DEF RaiseChunk
    <2>4. \A b \in Bodies, j \in Seqs : Rowed(rows'[b][j]) /\ (rows[b][j] # Absent => rows'[b][j] # Absent)
      BY <2>3
    <2>5. \A j \in 1 .. ChunkCount : j \in Seqs
      BY <2>1, Counted, BoundsAssumption DEF Sorts, CutType, HasCut, Seqs
    <2>6. QED
      BY <2>1, <2>2, <2>4, <2>5 DEF ChunkCount
  <1>16. CASE Retry
    BY <1>16 DEF Retry, Goto, ChunkCount
  <1>17. CASE Judge
    BY <1>17 DEF Judge, Goto, ChunkCount
  <1>18. CASE Refuse
    BY <1>18 DEF Refuse, GiveUp, End, ChunkCount
  <1>19. CASE Accept
    BY <1>19 DEF Accept, Goto, ChunkCount
  <1>20. CASE Stage
    <2>1. UNCHANGED <<rows, thread>> /\ pc' = "idle" /\ stash' = NoStash
      BY <1>20 DEF Stage, End
    <2>2. QED
      BY <2>1, NothingKnown
  <1>21. CASE RefuseEmpty
    BY <1>21 DEF RefuseEmpty, GiveUp, End, ChunkCount
  <1>22. CASE Discard
    BY <1>22 DEF Discard, Goto, ChunkCount
  <1>23. CASE PutBack
    BY <1>23 DEF PutBack, Goto, ChunkCount
  <1>24. CASE Relist
    <2>1. /\ \A b \in Bodies, j \in Seqs : rows'[b][j] = IF b = sha THEN stash.rows[j] ELSE rows[b][j]
          /\ UNCHANGED thread /\ pc' = "idle" /\ stash' = NoStash
      BY <1>24 DEF Relist, End, RowsShape
    <2>2. QED
      BY <2>1, NothingKnown
  <1>25. CASE Interrupt
    <2>1. UNCHANGED <<rows, stash>> /\ pc' \in {"idle", "discard"} /\ \A j \in Seqs : thread'[j] = Idle
      BY <1>25 DEF Interrupt, GiveUp, End
    <2>2. QED
      BY <2>1, NothingKnown
  <1>26. CASE RaiseOutside
    <2>1. UNCHANGED <<rows, thread>> /\ pc' = "idle" /\ stash' = NoStash
      BY <1>26 DEF RaiseOutside, End
    <2>2. QED
      BY <2>1, NothingKnown
  <1>27. CASE Crash
    <2>1. UNCHANGED rows /\ pc' = "idle" /\ stash' = NoStash /\ \A j \in Seqs : thread'[j] = Idle
      BY <1>27 DEF Crash, End
    <2>2. QED
      BY <2>1, NothingKnown
  <1>28. CASE UNCHANGED vars
    BY <1>28 DEF vars, ChunkCount
  <1>29. QED
    BY <1>1, <1>2, <1>3, <1>4, <1>5, <1>6, <1>7, <1>8, <1>9, <1>10, <1>11,
       <1>12, <1>13, <1>13a, <1>14, <1>15, <1>16, <1>17, <1>18, <1>19, <1>20, <1>21,
       <1>22, <1>23, <1>24, <1>25, <1>26, <1>27, <1>28
    DEF Next

(* Every run cuts the note with the same --chunkSize.                      *)
OneSize == \A s, t \in Sizes : s = t
WholeInv == Stands /\ Kept /\ RowsKnown

(* A chunk that is merged has no step left that should have been asked.    *)
LEMMA AcceptedRow ==
    ASSUME Always, Sorts, RowsKnown, pc = "merge", NEW j \in 1 .. ChunkCount
    PROVE  /\ j \in Seqs /\ sha \in Bodies /\ rows[sha][j]["entities"] = "ok"
           /\ \A st \in Steps : rows[sha][j][st] \in {"ok", "skipped"}
  <1>1. ChunkCount \in 1..MaxChunks /\ sha \in Bodies
    BY Counted DEF Sorts, CutType, HasCut
  <1>2. j \in Seqs
    BY <1>1, BoundsAssumption DEF Seqs
  <1>3. rows[sha][j] # Absent /\ Rowed(rows[sha][j]) /\ rows[sha][j] \in [Steps -> Status] /\ "entities" \in Steps
    BY <1>1, <1>2 DEF RowsKnown, Working, Always, Shapes, RowsShape, Steps
  <1>4. j \notin Incomplete(rows[sha])
    BY DEF RowsKnown
  <1>5. \A st \in Steps : rows[sha][j][st] \notin {"failed", "pending"}
    BY <1>2, <1>3, <1>4 DEF Incomplete
  <1>6. QED
    BY <1>1, <1>2, <1>3, <1>5 DEF Rowed, Status

(* A chunk that is merged is there, and was asked.                         *)
LEMMA MergedIs ==
    ASSUME WholeInv, pc = "merge", sha \notin TornIn
    PROVE  /\ DOMAIN Merged = 1 .. ChunkCount
           /\ \A j \in 1 .. ChunkCount : /\ j \in Seqs /\ Merged[j] = cache[sha][j] /\ Merged[j] # NoAnswers
                                         /\ Merged[j].entities # "unasked"
  <1>1. ChunkCount \in 1..MaxChunks /\ sha \in Bodies
    BY Counted DEF WholeInv, Stands, Sorts, CutType, HasCut
  <1>2. ASSUME NEW j \in 1 .. ChunkCount
        PROVE  j \in Seqs /\ cache[sha][j].entities # "unasked"
    <2>1. j \in Seqs /\ rows[sha][j]["entities"] = "ok" /\ "entities" \in Steps
      BY AcceptedRow DEF WholeInv, Stands, Steps
    <2>2. Answered(cache[sha][j], "entities")
      BY <1>1, <2>1 DEF WholeInv, Kept, Backed
    <2>3. QED
      BY <2>1, <2>2 DEF Answered
  <1>3. \A j \in 1 .. ChunkCount : cache[sha][j] # NoAnswers
    BY <1>2 DEF NoAnswers
  <1>4. DOMAIN Merged = 1 .. ChunkCount
    BY <1>3 DEF Merged
  <1>5. QED
    BY <1>2, <1>3, <1>4 DEF Merged

(* Every step keeps StagedIsWhole.                                         *)
LEMMA WholeStep ==
    ASSUME OneSize, WholeInv, StagedIsWhole, [Next]_vars
    PROVE  StagedIsWhole'
  <1> USE DEF note, run, aux, StagedIsWhole, StagedWhole
  <1>1. CASE Edit
    BY <1>1 DEF Edit
  <1>2. ASSUME NEW s \in Sizes, Ingest(s) PROVE StagedIsWhole'
    BY <1>2 DEF Ingest, Begin
  <1>3. ASSUME NEW s \in Sizes, Reextract(s) PROVE StagedIsWhole'
    BY <1>3 DEF Reextract, Begin
  <1>4. ASSUME NEW s \in Sizes, ExtractKg(s) PROVE StagedIsWhole'
    BY <1>4 DEF ExtractKg, Begin
  <1>5. ASSUME NEW s \in Sizes, RedoProperties(s) PROVE StagedIsWhole'
    BY <1>5 DEF RedoProperties, Begin
  <1>6. CASE SplitNote
    BY <1>6 DEF SplitNote, Goto
  <1>7. CASE StampSplit
    BY <1>7 DEF StampSplit, Goto
  <1>8. CASE CheckChunks
    BY <1>8 DEF CheckChunks, Goto
  <1>9. CASE ForgetRows
    BY <1>9 DEF ForgetRows, Goto
  <1>10. CASE SetAside
    BY <1>10 DEF SetAside, Goto
  <1>11. CASE Prepare
    BY <1>11 DEF Prepare, Goto
  <1>12. ASSUME NEW i \in Seqs, AskChunk(i) PROVE StagedIsWhole'
    BY <1>12 DEF AskChunk, InPass
  <1>13. ASSUME NEW i \in Seqs, WriteChunk(i) PROVE StagedIsWhole'
    BY <1>13 DEF WriteChunk
  <1>13a. ASSUME NEW i \in Seqs, Truncate(i) PROVE StagedIsWhole'
    BY <1>13a DEF Truncate
  <1>14. ASSUME NEW i \in Seqs, MarkStep(i) PROVE StagedIsWhole'
    BY <1>14 DEF MarkStep, Updated
  <1>15. ASSUME NEW i \in Seqs, RaiseChunk(i) PROVE StagedIsWhole'
    BY <1>15 DEF RaiseChunk, InPass, Updated, Fault
  <1>16. CASE Retry
    BY <1>16 DEF Retry, Goto
  <1>17. CASE Judge
    BY <1>17 DEF Judge, Goto, PassOver
  <1>18. CASE Refuse
    BY <1>18 DEF Refuse, GiveUp, End
  <1>19. CASE Accept
    BY <1>19 DEF Accept, Goto
  <1>20. CASE Stage
    <2>1. staged'.of = sha /\ staged'.chunks = Merged
      BY <1>20 DEF Stage
    <2>2. pc = "merge"
      BY <1>20 DEF Stage
    <2>3. cut.of = sha /\ cut.size \in Sizes /\ sha \in Bodies
      BY <2>2 DEF WholeInv, Stands, Following, Checked, Points, Sorts, CutType
    <2>a. CASE sha \in TornIn
      BY <2>1, <2>a
    <2>b. ASSUME sha \notin TornIn PROVE StagedIsWhole'
      <3>1. DOMAIN Merged = 1 .. Count(sha, cut.size)
        BY <2>b, <2>2, <2>3, MergedIs DEF ChunkCount
      <3>2. ASSUME NEW j \in DOMAIN Merged
            PROVE  Merged[j].text = Text(sha, cut.size, j) /\ Merged[j].entities # "unasked"
        <4>1. /\ j \in Seqs /\ Merged[j] = cache[sha][j] /\ Merged[j].entities # "unasked"
              /\ Merged[j] \notin {NoAnswers, Torn}
          BY <1>20, <2>b, <2>2, MergedIs DEF Stage, Readable
        <4>2. PICK s \in Sizes : Merged[j].text = Text(sha, s, j)
          BY <2>3, <4>1 DEF WholeInv, Stands, Texts, Named
        <4>3. s = cut.size
          BY <2>3 DEF OneSize
        <4>4. QED
          BY <4>1, <4>2, <4>3
      <3>3. QED
        BY <2>1, <2>3, <3>1, <3>2
    <2>4. QED
      BY <2>a, <2>b
  <1>21. CASE RefuseEmpty
    BY <1>21 DEF RefuseEmpty, GiveUp, End
  <1>22. CASE Discard
    BY <1>22 DEF Discard, Goto
  <1>23. CASE PutBack
    BY <1>23 DEF PutBack, Goto
  <1>24. CASE Relist
    BY <1>24 DEF Relist, End
  <1>25. CASE Interrupt
    BY <1>25 DEF Interrupt, GiveUp, End, InPass
  <1>26. CASE RaiseOutside
    BY <1>26 DEF RaiseOutside, End
  <1>27. CASE Crash
    BY <1>27 DEF Crash, End
  <1>28. CASE UNCHANGED vars
    BY <1>28 DEF vars
  <1>29. QED
    BY <1>1, <1>2, <1>3, <1>4, <1>5, <1>6, <1>7, <1>8, <1>9, <1>10, <1>11,
       <1>12, <1>13, <1>13a, <1>14, <1>15, <1>16, <1>17, <1>18, <1>19, <1>20, <1>21,
       <1>22, <1>23, <1>24, <1>25, <1>26, <1>27, <1>28
    DEF Next

(* What is staged is the whole of one body, cut once, where nobody edits   *)
(* the note during a run, its chunks have one size, and no process dies    *)
(* while it puts back what --reextract set aside; but for the bodies a     *)
(* write of whose JSONs is cut short (ingest.py:4140), of which a resume   *)
(* may stage a chunk without its answers.                                  *)
THEOREM Whole ==
    ASSUME ~EditWhile, OneSize, CrashIn \cap {"putback", "relist"} = {}
    PROVE  Spec => []StagedIsWhole
  <1>1. Init => WholeInv /\ StagedIsWhole
    <2> SUFFICES ASSUME Init PROVE WholeInv /\ StagedIsWhole
      OBVIOUS
    <2>1. Stands /\ Kept
      BY StandsStarts, AlwaysStarts
    <2>2. RowsKnown
      BY NothingKnown DEF Init, RowsKnown, Working
    <2>3. StagedIsWhole
      BY DEF Init, StagedIsWhole, StagedWhole, NothingStaged
    <2>4. QED
      BY <2>1, <2>2, <2>3 DEF WholeInv
  <1>2. WholeInv /\ StagedIsWhole /\ [Next]_vars => (WholeInv /\ StagedIsWhole)'
    BY StandsStep, KeptStep, RowsKnownStep, WholeStep DEF WholeInv, Stands, Always
  <1>3. QED
    BY <1>1, <1>2, PTL DEF Spec

-----------------------------------------------------------------------------
(***************************************************************************)
(* StagedAgreesUnlessMuddled.                                              *)
(***************************************************************************)

(* The steps that speak of the entities.  A row and its answers agree when *)
(* whatever is ok was asked about the entities there are; they are done    *)
(* when, besides, nothing was skipped that there are entities for.         *)
Later == {"properties", "relationships"}
Agreed(row, a) ==
  \A st \in Later : row[st] = "ok" => row["entities"] = "ok" /\ (a.entities = "some" => a[st] = "current")
Done(row, a) ==
  \A st \in Later : row["entities"] = "ok" /\ a.entities = "some" => row[st] # "skipped"

(* The marks M that are still to come bring row and answers a there: the   *)
(* entities' is the first, and no other is made ok without it.             *)
Ordered(M) == \A j, k \in DOMAIN M : j < k => M[j][1] # M[k][1] /\ M[k][1] # "entities"
Will(row, M, k) == row["entities"] = "ok" \/ \E j \in DOMAIN M : j < k /\ M[j] = <<"entities", "ok">>

Backs(row, a, M) ==
  \A k \in DOMAIN M : M[k][1] \in Later /\ M[k][2] = "ok" =>
    Will(row, M, k) /\ (a.entities = "some" => a[M[k][1]] = "current")
Finishes(row, a, M) ==
  a.entities = "some" /\ Will(row, M, Len(M) + 1) =>
    \A st \in Later : /\ row[st] # "skipped" \/ \E k \in DOMAIN M : M[k][1] = st
                      /\ \A k \in DOMAIN M : M[k][1] = st => M[k][2] # "skipped"
Ends(row, a, M) ==
  /\ Ordered(M) /\ Agreed(row, a)
  /\ \A k \in DOMAIN M : M[k][1] = "entities" => row["entities"] # "ok"
  /\ Backs(row, a, M)
  /\ Finishes(row, a, M)

(* What is asked of a row and answers that agree ends well.                *)
LEMMA AskedEnds ==
    ASSUME NEW row \in [Steps -> Status], NEW c, NEW D, NEW M, Agreed(row, c),
           NEW em \in Outcomes \ {"skipped"}, NEW pm \in Outcomes, NEW rm \in Outcomes,
           Lists(M, em, pm, rm),
           em = "kept" <=> row["entities"] = "ok",
           pm = "kept" => row["properties"] = "ok",
           rm = "kept" => row["relationships"] = "ok",
           em # "failed" /\ D.entities = "some" => pm # "skipped" /\ rm # "skipped",
           ~(em # "failed" /\ D.entities = "some") => pm = "skipped" /\ rm = "skipped",
           em # "ok" => D.entities = c.entities,
           pm = "ok" => D["properties"] = "current",
           rm = "ok" => D["relationships"] = "current",
           em # "ok" /\ pm # "ok" => D["properties"] = c["properties"],
           em # "ok" /\ rm # "ok" => D["relationships"] = c["relationships"]
    PROVE  Ends(row, D, M)
  <1>1. \A x \in Outcomes : Width(x) = IF x = "kept" THEN 0 ELSE 1
    BY DEF Width
  <1>2. \A k \in DOMAIN M :
          \/ em # "kept" /\ k = 1 /\ M[k] = <<"entities", em>>
          \/ pm # "kept" /\ k = Width(em) + 1 /\ M[k] = <<"properties", pm>>
          \/ rm # "kept" /\ k = Width(em) + Width(pm) + 1 /\ M[k] = <<"relationships", rm>>
    BY MarksOnly
  <1>3. DOMAIN M = 1 .. Len(M) /\ Len(M) = Width(em) + Width(pm) + Width(rm)
    BY DEF Lists
  <1>4. Ordered(M)
    BY <1>1, <1>2, <1>3 DEF Ordered
  <1>5. Agreed(row, D)
    BY DEF Agreed, Later, Outcomes
  <1>6. \A k \in DOMAIN M : M[k][1] = "entities" => row["entities"] # "ok"
    BY <1>2
  <1>7. em = "ok" => 1 \in DOMAIN M /\ M[1] = <<"entities", "ok">> /\ Width(em) = 1
    BY <1>1, <1>3 DEF Lists, Outcomes
  <1>8. ASSUME NEW k \in DOMAIN M, M[k][1] \in Later, M[k][2] = "ok"
        PROVE  Will(row, M, k) /\ (D.entities = "some" => D[M[k][1]] = "current")
    <2>1. \/ pm = "ok" /\ k = Width(em) + 1 /\ M[k][1] = "properties"
          \/ rm = "ok" /\ k = Width(em) + Width(pm) + 1 /\ M[k][1] = "relationships"
      BY <1>2, <1>8 DEF Later
    <2>2. D[M[k][1]] = "current"
      BY <2>1
    <2>3. em \in {"kept", "ok"}
      BY <2>1 DEF Outcomes
    <2>4. em = "ok" => 1 < k
      BY <1>1, <1>7, <2>1
    <2>5. QED
      BY <1>7, <2>2, <2>3, <2>4 DEF Will
  <1>9. ASSUME D.entities = "some", Will(row, M, Len(M) + 1), NEW st \in Later
        PROVE  /\ row[st] # "skipped" \/ \E k \in DOMAIN M : M[k][1] = st
               /\ \A k \in DOMAIN M : M[k][1] = st => M[k][2] # "skipped"
    <2>1. em # "failed"
      <3>1. ASSUME NEW j \in DOMAIN M, M[j] = <<"entities", "ok">> PROVE em # "failed"
        BY <1>2, <3>1
      <3>2. QED
        BY <1>9, <3>1 DEF Will
    <2>2. pm # "skipped" /\ rm # "skipped"
      BY <1>9, <2>1
    <2>3. \A k \in DOMAIN M : M[k][1] = st => M[k][2] # "skipped"
      BY <1>2, <2>1, <2>2 DEF Later
    <2>4. pm # "kept" => Width(em) + 1 \in DOMAIN M /\ M[Width(em) + 1][1] = "properties"
      BY <1>1, <1>3 DEF Lists
    <2>5. rm # "kept" => Width(em) + Width(pm) + 1 \in DOMAIN M /\ M[Width(em) + Width(pm) + 1][1] = "relationships"
      BY <1>1, <1>3 DEF Lists
    <2>6. QED
      BY <2>3, <2>4, <2>5 DEF Later
  <1>10. QED
    BY <1>4, <1>5, <1>6, <1>8, <1>9 DEF Ends, Backs, Finishes

(* The first of the marks is made, and the rest end as well.               *)
LEMMA EndsTail ==
    ASSUME NEW row \in [Steps -> Status], NEW a, NEW M \in Seq(Steps \X Status), M # <<>>, Ends(row, a, M)
    PROVE  Ends([row EXCEPT ![M[1][1]] = M[1][2]], a, Tail(M))
  <1> DEFINE new == [row EXCEPT ![M[1][1]] = M[1][2]]
             T == Tail(M)
  <1>1. Len(M) \in Nat \ {0} /\ DOMAIN M = 1 .. Len(M) /\ 1 \in DOMAIN M
    OBVIOUS
  <1>2. Len(T) = Len(M) - 1 /\ DOMAIN T = 1 .. Len(M) - 1 /\ \A k \in DOMAIN T : T[k] = M[k + 1]
    BY <1>1
  <1>3. M[1] = <<M[1][1], M[1][2]>> /\ M[1][1] \in Steps
    BY <1>1
  <1>4. \A st \in Steps : new[st] = IF st = M[1][1] THEN M[1][2] ELSE row[st]
    OBVIOUS
  <1>5. Later \subseteq Steps /\ "entities" \in Steps /\ "entities" \notin Later
    BY DEF Later, Steps
  <1>6. \A k \in DOMAIN T : k + 1 \in DOMAIN M /\ 1 < k + 1 /\ M[k + 1][1] # M[1][1] /\ M[k + 1][1] # "entities"
    BY <1>1, <1>2 DEF Ends, Ordered
  <1> HIDE DEF new, T
  <1>7. Ordered(T)
    BY <1>1, <1>2, <1>6 DEF Ends, Ordered
  <1>8. row["entities"] = "ok" => new["entities"] = "ok"
    BY <1>1, <1>4, <1>5 DEF Ends
  <1>9. ASSUME NEW st \in Later, new[st] = "ok"
        PROVE  new["entities"] = "ok" /\ (a.entities = "some" => a[st] = "current")
    <2>1. CASE st = M[1][1]
      <3>1. Will(row, M, 1) /\ (a.entities = "some" => a[st] = "current")
        BY <1>1, <1>4, <1>5, <1>9, <2>1 DEF Ends, Backs
      <3>2. \A j \in DOMAIN M : ~(j < 1)
        BY <1>1
      <3>3. QED
        BY <1>8, <3>1, <3>2 DEF Will
    <2>2. CASE st # M[1][1]
      <3>1. row[st] = "ok"
        BY <1>4, <1>5, <1>9, <2>2
      <3>2. QED
        BY <1>8, <3>1 DEF Ends, Agreed
    <2>3. QED
      BY <2>1, <2>2
  <1>10. Agreed(new, a)
    BY <1>9 DEF Agreed
  <1>11. \A k \in DOMAIN T : T[k][1] = "entities" => new["entities"] # "ok"
    BY <1>2, <1>6
  <1>12. ASSUME NEW k \in DOMAIN T, T[k][1] \in Later, T[k][2] = "ok"
         PROVE  Will(new, T, k) /\ (a.entities = "some" => a[T[k][1]] = "current")
    <2>1. T[k] = M[k + 1] /\ k + 1 \in DOMAIN M
      BY <1>2, <1>6
    <2>2. Will(row, M, k + 1) /\ (a.entities = "some" => a[T[k][1]] = "current")
      BY <1>12, <2>1 DEF Ends, Backs
    <2>3. ASSUME NEW j \in DOMAIN M, M[j] = <<"entities", "ok">> PROVE new["entities"] = "ok"
      <3>1. j = 1
        <4>1. M[j][1] = "entities"
          BY <2>3
        <4>2. 1 < j => M[j][1] # "entities"
          BY <1>1 DEF Ends, Ordered
        <4>3. QED
          BY <1>1, <4>1, <4>2
      <3>2. QED
        BY <1>3, <1>4, <1>5, <2>3, <3>1
    <2>4. QED
      BY <1>8, <2>2, <2>3 DEF Will
  <1>13. ASSUME a.entities = "some", Will(new, T, Len(T) + 1), NEW st \in Later
         PROVE  /\ new[st] # "skipped" \/ \E k \in DOMAIN T : T[k][1] = st
                /\ \A k \in DOMAIN T : T[k][1] = st => T[k][2] # "skipped"
    <2>1. new["entities"] = "ok"
      BY <1>2, <1>6, <1>13 DEF Will
    <2>2. Will(row, M, Len(M) + 1)
      <3>1. CASE M[1][1] = "entities"
        <4>1. M[1] = <<"entities", "ok">> /\ 1 < Len(M) + 1
          BY <1>1, <1>3, <1>4, <1>5, <2>1, <3>1
        <4>2. QED
          BY <1>1, <4>1 DEF Will
      <3>2. CASE M[1][1] # "entities"
        BY <1>4, <1>5, <2>1, <3>2 DEF Will
      <3>3. QED
        BY <3>1, <3>2
    <2>3. /\ row[st] # "skipped" \/ \E k \in DOMAIN M : M[k][1] = st
          /\ \A k \in DOMAIN M : M[k][1] = st => M[k][2] # "skipped"
      BY <1>13, <2>2 DEF Ends, Finishes
    <2>4. \A k \in DOMAIN T : T[k][1] = st => T[k][2] # "skipped"
      BY <1>2, <1>6, <2>3
    <2>5. CASE st = M[1][1]
      <3>1. new[st] # "skipped"
        BY <1>1, <1>4, <1>5, <2>3, <2>5
      <3>2. QED
        BY <2>4, <3>1
    <2>6. CASE st # M[1][1]
      <3>1. ASSUME NEW k \in DOMAIN M, M[k][1] = st PROVE \E l \in DOMAIN T : T[l][1] = st
        <4>1. k # 1 /\ k \in 1 .. Len(M)
          BY <1>1, <2>6, <3>1
        <4>2. k - 1 \in DOMAIN T /\ T[k - 1] = M[k]
          BY <1>1, <1>2, <4>1
        <4>3. QED
          BY <3>1, <4>2
      <3>2. new[st] = row[st]
        BY <1>4, <1>5, <2>6
      <3>3. QED
        BY <2>3, <2>4, <3>1, <3>2
    <2>7. QED
      BY <2>5, <2>6
  <1>14. Ends(new, a, T)
    BY <1>7, <1>10, <1>11, <1>12, <1>13 DEF Ends, Backs, Finishes
  <1>15. QED
    BY <1>14 DEF new, T

(* With no mark left a row is done.                                        *)
LEMMA EndsDone == ASSUME NEW row, NEW a, Ends(row, a, <<>>) PROVE Agreed(row, a) /\ Done(row, a)
  <1>1. DOMAIN <<>> = {} /\ Len(<<>>) = 0
    OBVIOUS
  <1>2. QED
    BY <1>1 DEF Ends, Finishes, Will, Done

-----------------------------------------------------------------------------

(* Leaving out the chunks that raised after a step was settled, or whose   *)
(* failure could not be recorded: rows and answers agree, those in use and *)
(* those set aside;                                                        *)
Clear(b, i) == <<b, i>> \notin muddled

AllAgreed ==
  /\ \A b \in Bodies, i \in Seqs : Clear(b, i) =>
       (b = sha /\ pc \in {"putback", "relist"}) \/ Agreed(rows[b][i], cache[b][i])
  /\ stash.held => \A i \in Seqs : Clear(sha, i) =>
       Agreed(stash.rows[i], IF pc = "setaside" THEN cache[sha][i] ELSE stash.cache[i])
  /\ pc = "setaside" => \A i \in Seqs : rows[sha][i] = Absent

(* a thread's marks end well, and a pass has read the rows of what it has  *)
(* not started as they are;                                                *)
Held(i) == IF thread[i].at = "asked" THEN thread[i].data ELSE cache[sha][i]

Going ==
  \A i \in Seqs :
    /\ thread[i].at # "idle" => i \in 1..ChunkCount /\ i \notin todo
    /\ thread[i].at # "idle" /\ Clear(sha, i) => Ends(rows[sha][i], Held(i), thread[i].marks)
    /\ InPass /\ i \in todo => statuses[i] = rows[sha][i]

(* and a chunk nobody is at is done, once it has been asked.               *)
Rested ==
  Working => \A i \in 1..ChunkCount :
    Clear(sha, i) /\ thread[i].at = "idle" /\ (pc = "pass1" => i \notin todo) => Done(rows[sha][i], cache[sha][i])

Agreeing == AllAgreed /\ Going /\ Rested
Based == Always /\ Sorts /\ RowsKnown

(* A row with no later step ok agrees with anything, and one whose         *)
(* entities are not ok has nothing left to do.                             *)
LEMMA NoneAgreed ==
  /\ \A a : Agreed(Absent, a) /\ Agreed(Pending, a)
  /\ \A row, a : (\A st \in Later : row[st] # "ok") => Agreed(row, a)
  /\ \A row, a : row["entities"] # "ok" => Done(row, a)
  BY DEF Agreed, Done, Absent, Pending, Later, Steps

(* The steps of a thread, but for their own chunk's row leave the rest.    *)
LEMMA AskIs ==
    ASSUME Based, AllAgreed, Going, NEW i \in Seqs, AskChunk(i)
    PROVE  /\ UNCHANGED <<pc, cut, sha, rows, cache, stash, muddled, statuses>> /\ InPass
           /\ todo' = todo \ {i} /\ i \in todo /\ i \in 1..ChunkCount
           /\ thread'[i].at = "asked" /\ \A j \in Seqs \ {i} : thread'[j] = thread[j]
           /\ Clear(sha, i) => Ends(rows[sha][i], thread'[i].data, thread'[i].marks)
  <1>1. /\ UNCHANGED <<pc, cut, sha, rows, cache, stash, muddled, statuses>> /\ InPass
        /\ todo' = todo \ {i} /\ i \in todo /\ i <= ChunkCount
    BY DEF AskChunk, note, run, Next1
  <1>2. PICK e \in {"failed", "none", "some"}, p \in {"failed", "ok"}, r \in {"failed", "ok"} :
           thread' = [thread EXCEPT ![i] = Asked(i, e, p, r)]
    BY DEF AskChunk
  <1>3. CutType /\ DataType /\ cut.of # 0 /\ sha \in Bodies /\ DOMAIN thread = Seqs
        /\ DOMAIN Asked(i, e, p, r) = {"at", "data", "marks"} /\ Asked(i, e, p, r).at = "asked"
    <2>1. CutType /\ DataType /\ Shapes
      BY DEF Based, Sorts, Always
    <2>2. cut.of # 0 /\ sha \in Bodies
      BY <1>1, <2>1 DEF CutType, HasCut, InPass
    <2>3. DOMAIN thread = Seqs
      BY <2>1 DEF Shapes, ThreadShape
    <2>4. DOMAIN Asked(i, e, p, r) = {"at", "data", "marks"} /\ Asked(i, e, p, r).at = "asked"
      BY <2>1, AskedIsGood
    <2>5. QED
      BY <2>1, <2>2, <2>3, <2>4
  <1>4. thread'[i] = Asked(i, e, p, r) /\ \A j \in Seqs \ {i} : thread'[j] = thread[j]
    BY <1>2, <1>3
  <1>5. i \in 1..ChunkCount
    BY <1>1, <1>3, Counted DEF Seqs
  <1>6. ASSUME Clear(sha, i) PROVE Ends(rows[sha][i], thread'[i].data, thread'[i].marks)
    <2> DEFINE A == Asked(i, e, p, r)
               row == rows[sha][i]
               c == cache[sha][i]
               em == IF statuses[i]["entities"] = "ok" THEN "kept" ELSE IF e = "failed" THEN "failed" ELSE "ok"
               has == em # "failed" /\ A.data.entities = "some"
               pm == Depends(i, "properties", has, p)
               rm == Depends(i, "relationships", has, r)
    <2>1. row \in [Steps -> Status] /\ statuses[i] = row /\ Agreed(row, c)
      <3>1. statuses[i] = row
        BY <1>1 DEF Going
      <3>2. Agreed(row, c)
        BY <1>1, <1>3, <1>6 DEF AllAgreed, InPass
      <3>3. QED
        BY <1>3, <3>1, <3>2 DEF Based, Always, Shapes, RowsShape
    <2>2. /\ em \in Outcomes \ {"skipped"} /\ pm \in Outcomes /\ rm \in Outcomes
          /\ Lists(A.marks, em, pm, rm)
          /\ em # "ok" => A.data.entities = c.entities
          /\ A.data.properties = IF pm = "ok" THEN "current"
               ELSE IF em = "ok" /\ c.properties # "unasked" THEN "stale" ELSE c.properties
          /\ A.data.relationships = IF rm = "ok" THEN "current"
               ELSE IF em = "ok" /\ c.relationships # "unasked" THEN "stale" ELSE c.relationships
      BY <1>3, AskedIs
    <2>3. em = "kept" <=> row["entities"] = "ok"
      BY <2>1
    <2>4. /\ pm = "kept" => row["properties"] = "ok"
          /\ rm = "kept" => row["relationships"] = "ok"
          /\ has => pm # "skipped" /\ rm # "skipped"
          /\ ~has => pm = "skipped" /\ rm = "skipped"
      BY <2>1 DEF Depends
    <2> HIDE DEF A, row, c, em, pm, rm
    <2>5. Ends(row, A.data, A.marks)
      BY <2>1, <2>2, <2>3, <2>4, AskedEnds
    <2>6. QED
      BY <1>4, <2>5 DEF A, row
  <1>7. QED
    BY <1>1, <1>3, <1>4, <1>5, <1>6

LEMMA MarkIs ==
    ASSUME Based, Going, NEW i \in Seqs, MarkStep(i)
    PROVE  /\ UNCHANGED <<pc, cut, sha, cache, stash, muddled, statuses, todo>> /\ InPass
           /\ \A b \in Bodies, j \in Seqs : ~(b = sha /\ j = i) => rows'[b][j] = rows[b][j]
           /\ thread[i].at = "marking" /\ i \in 1..ChunkCount /\ i \notin todo
           /\ thread'[i].at \in {"idle", "marking"} /\ \A j \in Seqs \ {i} : thread'[j] = thread[j]
           /\ Clear(sha, i) =>
                /\ Agreed(rows'[sha][i], cache[sha][i])
                /\ thread'[i].at = "idle" => Done(rows'[sha][i], cache[sha][i])
                /\ thread'[i].at = "marking" => Ends(rows'[sha][i], cache[sha][i], thread'[i].marks)
  <1>1. UNCHANGED <<pc, cut, sha, cache, stash, muddled, statuses, todo>> /\ thread[i].at = "marking"
    BY DEF MarkStep, note, run, aux
  <1>2. InPass /\ i \in 1..ChunkCount /\ i \notin todo
    BY <1>1 DEF Based, Always, Threads, Going, InPass
  <1>3. /\ sha \in Bodies /\ rows[sha][i] \in [Steps -> Status] /\ rows[sha][i] # Absent
        /\ Places /\ RowsShape /\ DOMAIN thread = Seqs
        /\ DOMAIN thread[i] = {"at", "data", "marks"} /\ thread[i].marks \in Seq(Steps \X Status)
    BY <1>2 DEF Based, Always, Shapes, Places, RowsShape, ThreadShape, RowsKnown, Working, InPass
  <1>4. Clear(sha, i) => Ends(rows[sha][i], cache[sha][i], thread[i].marks)
    BY <1>1 DEF Going, Held
  <1> DEFINE M == thread[i].marks
  <1>5. CASE M = <<>>
    <2>1. UNCHANGED rows /\ thread' = [thread EXCEPT ![i] = Idle]
      BY <1>5 DEF MarkStep
    <2>2. thread'[i].at = "idle" /\ \A j \in Seqs \ {i} : thread'[j] = thread[j]
      BY <1>3, <2>1 DEF Idle
    <2>3. Clear(sha, i) => Agreed(rows[sha][i], cache[sha][i]) /\ Done(rows[sha][i], cache[sha][i])
      BY <1>4, <1>5, EndsDone
    <2>4. QED
      BY <1>1, <1>2, <2>1, <2>2, <2>3
  <1>6. CASE M # <<>>
    <2> DEFINE new == [rows[sha][i] EXCEPT ![M[1][1]] = M[1][2]]
    <2>1. M[1] \in Steps \X Status
      BY <1>3, <1>6
    <2>2. /\ rows' = Updated(i, M[1][1], M[1][2])
          /\ thread' = [thread EXCEPT ![i] = IF Len(M) = 1 THEN Idle ELSE [thread[i] EXCEPT !.marks = Tail(M)]]
      BY <1>6 DEF MarkStep
    <2>3. ASSUME NEW b \in Bodies, NEW j \in Seqs
          PROVE  rows'[b][j] = IF b = sha /\ j = i THEN new ELSE rows[b][j]
      <3>1. M[1][1] \in Steps /\ M[1][2] \in Status
        BY <2>1
      <3>2. rows'[b][j] = IF b = sha /\ j = i /\ rows[sha][i] # Absent THEN new ELSE rows[b][j]
        <4>1. PICK x \in Steps, y \in Status : x = M[1][1] /\ y = M[1][2]
          BY <3>1
        <4>2. Updated(i, x, y)[b][j] = IF b = sha /\ j = i /\ rows[sha][i] # Absent
                THEN [rows[sha][i] EXCEPT ![x] = y] ELSE rows[b][j]
          BY <1>3, UpdatedIs
        <4>3. QED
          BY <2>2, <4>1, <4>2
      <3>3. QED
        BY <1>3, <3>2
    <2>4. Clear(sha, i) => Ends(new, cache[sha][i], Tail(M))
      BY <1>3, <1>4, <1>6, EndsTail
    <2>5. \A j \in Seqs \ {i} : thread'[j] = thread[j]
      BY <1>3, <2>2
    <2> HIDE DEF new
    <2>6. CASE Len(M) = 1
      <3>1. Tail(M) = <<>>
        <4>1. Tail(M) \in Seq(Steps \X Status) /\ Len(Tail(M)) = 0
          BY <1>3, <1>6, <2>6, HeadTailProperties
        <4>2. QED
          BY <4>1, EmptySeq
      <3>2. thread'[i].at = "idle"
        BY <1>3, <2>2, <2>6 DEF Idle
      <3>3. Clear(sha, i) => Agreed(new, cache[sha][i]) /\ Done(new, cache[sha][i])
        BY <2>4, <3>1, EndsDone
      <3>4. QED
        BY <1>1, <1>2, <1>3, <2>3, <2>5, <3>2, <3>3
    <2>7. CASE Len(M) # 1
      <3>1. thread'[i].at = "marking" /\ thread'[i].marks = Tail(M)
        BY <1>1, <1>3, <2>2, <2>7
      <3>2. Clear(sha, i) => Agreed(new, cache[sha][i])
        BY <2>4 DEF Ends
      <3>3. QED
        BY <1>1, <1>2, <1>3, <2>3, <2>4, <2>5, <3>1, <3>2
    <2>8. QED
      BY <2>6, <2>7
  <1>7. QED
    BY <1>5, <1>6

LEMMA RaiseIs ==
    ASSUME Based, Going, NEW i \in Seqs, RaiseChunk(i)
    PROVE  /\ UNCHANGED <<pc, cut, sha, cache, stash, statuses>> /\ InPass
           /\ todo' = todo \ {i} /\ muddled \subseteq muddled'
           /\ \A b \in Bodies, j \in Seqs : ~(b = sha /\ j = i) => rows'[b][j] = rows[b][j]
           /\ thread'[i].at = "idle" /\ \A j \in Seqs \ {i} : thread'[j] = thread[j]
           /\ <<sha, i>> \notin muddled' =>
                /\ \A a : Agreed(rows'[sha][i], a)
                /\ i \in 1..ChunkCount => \A a : Done(rows'[sha][i], a)
  <1>1. /\ UNCHANGED <<pc, cut, sha, cache, stash, statuses>> /\ InPass
        /\ todo' = todo \ {i} /\ muddled \subseteq muddled' /\ thread' = [thread EXCEPT ![i] = Idle]
    BY DEF RaiseChunk, note, run
  <1>2. /\ sha \in Bodies /\ rows[sha][i] \in [Steps -> Status]
        /\ Places /\ RowsShape /\ DOMAIN thread = Seqs /\ (i \in 1..ChunkCount => rows[sha][i] # Absent)
    BY <1>1 DEF Based, Always, Shapes, Places, RowsShape, ThreadShape, RowsKnown, Working, InPass
  <1>3. thread'[i].at = "idle" /\ \A j \in Seqs \ {i} : thread'[j] = thread[j]
    BY <1>1, <1>2 DEF Idle
  <1>4. CASE UNCHANGED rows /\ muddled' = muddled \cup {<<sha, i>>}
    BY <1>1, <1>3, <1>4
  <1>5. CASE /\ rows' = Updated(i, "entities", "failed")
             /\ muddled' = IF Settled(rows[sha][i]) THEN muddled \cup {<<sha, i>>} ELSE muddled
    <2>1. "entities" \in Steps /\ "failed" \in Status
      BY DEF Steps, Status
    <2>2. ASSUME NEW b \in Bodies, NEW j \in Seqs
          PROVE  rows'[b][j] = IF b = sha /\ j = i /\ rows[sha][i] # Absent
                               THEN [rows[sha][i] EXCEPT !["entities"] = "failed"] ELSE rows[b][j]
      BY <1>2, <1>5, <2>1, UpdatedIs
    <2>3. ASSUME <<sha, i>> \notin muddled', NEW st \in Later PROVE rows'[sha][i][st] # "ok"
      <3>1. rows[sha][i][st] # "ok"
        BY <1>5, <2>3 DEF Settled, Later
      <3>2. QED
        BY <1>2, <2>2, <3>1 DEF Later, Steps
    <2>4. i \in 1..ChunkCount => rows'[sha][i]["entities"] = "failed"
      BY <1>2, <2>1, <2>2
    <2>5. QED
      BY <1>1, <1>2, <1>3, <2>2, <2>3, <2>4, NoneAgreed
  <1>6. QED
    BY <1>4, <1>5 DEF RaiseChunk

(* A torn JSON agrees with every row whose later steps are not ahead of    *)
(* its entities.                                                           *)
LEMMA TornAgrees == \A row, a : Agreed(row, a) => Agreed(row, Torn)
  BY DEF Agreed, Torn, NoAnswers

LEMMA TruncateIs ==
    ASSUME Based, NEW i \in Seqs, Truncate(i)
    PROVE  /\ UNCHANGED <<pc, cut, sha, rows, stash, muddled, statuses, todo, thread>> /\ InPass
           /\ \A b \in Bodies, j \in Seqs : cache'[b][j] = IF b = sha /\ j = i THEN Torn ELSE cache[b][j]
           /\ thread[i].at = "asked" /\ sha \in Bodies
  <1>1. /\ UNCHANGED <<pc, cut, sha, rows, stash, muddled, statuses, todo, thread>>
        /\ thread[i].at = "asked" /\ cache' = [cache EXCEPT ![sha][i] = Torn]
    BY DEF Truncate, note, run, aux
  <1>2. InPass /\ sha \in Bodies
    BY <1>1 DEF Based, Always, Shapes, Places, Threads, InPass
  <1>3. DOMAIN cache = Bodies /\ \A b \in Bodies : DOMAIN cache[b] = Seqs
    BY DEF Based, Always, Shapes, CacheShape
  <1>4. QED
    BY <1>1, <1>2, <1>3

LEMMA WriteIs ==
    ASSUME Based, Going, NEW i \in Seqs, WriteChunk(i)
    PROVE  /\ UNCHANGED <<pc, cut, sha, rows, stash, muddled, statuses, todo>> /\ InPass
           /\ \A b \in Bodies, j \in Seqs : cache'[b][j] = IF b = sha /\ j = i THEN thread[i].data ELSE cache[b][j]
           /\ thread[i].at = "asked" /\ i \in 1..ChunkCount /\ i \notin todo
           /\ thread'[i].at = "marking" /\ thread'[i].marks = thread[i].marks
           /\ \A j \in Seqs \ {i} : thread'[j] = thread[j]
           /\ Clear(sha, i) => Ends(rows[sha][i], thread[i].data, thread[i].marks)
  <1>1. /\ UNCHANGED <<pc, cut, sha, rows, stash, muddled, statuses, todo>> /\ thread[i].at = "asked"
        /\ cache' = [cache EXCEPT ![sha][i] = thread[i].data] /\ thread' = [thread EXCEPT ![i].at = "marking"]
    BY DEF WriteChunk, note, run, aux
  <1>2. InPass /\ i \in 1..ChunkCount /\ i \notin todo
    BY <1>1 DEF Based, Always, Threads, Going, InPass
  <1>3. DOMAIN thread = Seqs /\ DOMAIN thread[i] = {"at", "data", "marks"}
        /\ DOMAIN cache = Bodies /\ \A b \in Bodies : DOMAIN cache[b] = Seqs
    BY DEF Based, Always, Shapes, CacheShape, ThreadShape
  <1>4. Clear(sha, i) => Ends(rows[sha][i], thread[i].data, thread[i].marks)
    BY <1>1 DEF Going, Held
  <1>5. \A b \in Bodies, j \in Seqs : cache'[b][j] = IF b = sha /\ j = i THEN thread[i].data ELSE cache[b][j]
    BY <1>1, <1>3
  <1>6. /\ thread'[i].at = "marking" /\ thread'[i].marks = thread[i].marks
        /\ \A j \in Seqs \ {i} : thread'[j] = thread[j]
    BY <1>1, <1>3
  <1>7. QED
    BY <1>1, <1>2, <1>4, <1>5, <1>6

(* Every step keeps AllAgreed.                                             *)
LEMMA AllAgreedStep ==
    ASSUME Based, Agreeing, CrashIn \cap {"putback", "relist"} = {}, [Next]_vars
    PROVE  AllAgreed'
  <1> USE DEF note, run, aux, Agreeing, AllAgreed, Clear
  <1>1. CASE Edit
    BY <1>1 DEF Edit, NoStash
  <1>2. ASSUME NEW s \in Sizes, Ingest(s) PROVE AllAgreed'
    BY <1>2 DEF Ingest, Begin, NoStash
  <1>3. ASSUME NEW s \in Sizes, Reextract(s) PROVE AllAgreed'
    BY <1>3 DEF Reextract, Begin, NoStash
  <1>4. ASSUME NEW s \in Sizes, ExtractKg(s) PROVE AllAgreed'
    BY <1>4 DEF ExtractKg, Begin, NoStash
  <1>5. ASSUME NEW s \in Sizes, RedoProperties(s) PROVE AllAgreed'
    <2>1. pc = "idle" /\ stash' = NoStash /\ UNCHANGED <<cache, muddled>> /\ pc' = "check"
      BY <1>5 DEF RedoProperties, Begin
    <2> DEFINE new(j) == IF rows[body][j]["entities"] = "ok"
                         THEN [rows[body][j] EXCEPT !["properties"] = "pending"] ELSE rows[body][j]
    <2>2. rows' = [rows EXCEPT ![body] = [j \in Seqs |-> new(j)]]
      BY <1>5 DEF RedoProperties
    <2>3. ASSUME NEW j \in Seqs, NEW a, Agreed(rows[body][j], a) PROVE Agreed(new(j), a)
      <3>1. rows[body][j] \in [Steps -> Status] /\ body \in Bodies
        BY DEF Based, Always, Shapes, RowsShape, Places
      <3>2. \A st \in Steps : new(j)[st] = rows[body][j][st] \/ (st = "properties" /\ new(j)[st] = "pending")
        BY <3>1
      <3> HIDE DEF new
      <3>3. QED
        BY <2>3, <3>2 DEF Agreed, Later, Steps
    <2> HIDE DEF new
    <2>4. \A b \in Bodies, j \in Seqs : rows'[b][j] = IF b = body THEN new(j) ELSE rows[b][j]
      BY <2>2 DEF Based, Always, Shapes, RowsShape
    <2>5. QED
      BY <2>1, <2>3, <2>4 DEF NoStash
  <1>6. CASE SplitNote
    BY <1>6 DEF SplitNote, Goto, NoStash
  <1>7. CASE StampSplit
    BY <1>7 DEF StampSplit, Goto, NoStash
  <1>8. CASE CheckChunks
    BY <1>8 DEF CheckChunks, Goto, NoStash
  <1>9. CASE ForgetRows
    <2>1. /\ \A b \in Bodies, j \in Seqs : rows'[b][j] = IF b = sha THEN Absent ELSE rows[b][j]
          /\ \A j \in Seqs : stash'.rows[j] = rows[sha][j]
          /\ UNCHANGED <<cache, muddled, sha>> /\ pc = "forget" /\ pc' = "setaside" /\ sha \in Bodies
      BY <1>9 DEF ForgetRows, Goto, Based, Always, Shapes, RowsShape, Places
    <2>2. QED
      BY <2>1, NoneAgreed
  <1>10. CASE SetAside
    <2>1. /\ \A b \in Bodies, j \in Seqs : cache'[b][j] = IF b = sha THEN NoAnswers ELSE cache[b][j]
          /\ stash'.cache = cache[sha] /\ stash'.rows = stash.rows /\ stash'.held = stash.held
          /\ UNCHANGED <<rows, muddled, sha>> /\ pc = "setaside" /\ pc' = "prepare"
      BY <1>10 DEF SetAside, Goto, NoCache, Based, Always, Shapes, CacheShape, Places
    <2>2. QED
      BY <2>1, NoneAgreed
  <1>11. CASE Prepare
    <2>1. /\ \A b \in Bodies, j \in Seqs : rows'[b][j] = rows[b][j] \/ rows'[b][j] = Pending
          /\ UNCHANGED <<cache, muddled, sha, stash>> /\ pc = "prepare" /\ pc' = "pass1"
      BY <1>11 DEF Prepare, Prepared, Goto, Based, Always, Shapes, RowsShape, Places
    <2>2. QED
      BY <2>1, NoneAgreed
  <1>12. ASSUME NEW i \in Seqs, AskChunk(i) PROVE AllAgreed'
    <2>1. UNCHANGED <<pc, sha, rows, cache, stash, muddled>>
      BY <1>12, AskIs
    <2>2. QED
      BY <2>1
  <1>13. ASSUME NEW i \in Seqs, WriteChunk(i) PROVE AllAgreed'
    <2>1. Agreed(rows[sha][i], thread[i].data) \/ ~Clear(sha, i)
      BY <1>13, WriteIs DEF Ends
    <2>2. /\ UNCHANGED <<pc, sha, rows, stash, muddled>> /\ InPass
          /\ \A b \in Bodies, j \in Seqs : cache'[b][j] = IF b = sha /\ j = i THEN thread[i].data ELSE cache[b][j]
      BY <1>13, WriteIs
    <2>3. QED
      BY <2>1, <2>2 DEF InPass
  <1>13a. ASSUME NEW i \in Seqs, Truncate(i) PROVE AllAgreed'
    <2>1. UNCHANGED <<pc, sha, rows, stash, muddled>> /\ InPass
      BY <1>13a, TruncateIs
    <2>2. \A b \in Bodies, j \in Seqs : cache'[b][j] = IF b = sha /\ j = i THEN Torn ELSE cache[b][j]
      BY <1>13a, TruncateIs
    <2>3. \A row, a : Agreed(row, a) => Agreed(row, Torn)
      BY TornAgrees
    <2>4. QED
      BY <2>1, <2>2, <2>3 DEF InPass
  <1>14. ASSUME NEW i \in Seqs, MarkStep(i) PROVE AllAgreed'
    <2>1. /\ UNCHANGED <<pc, sha, cache, stash, muddled>> /\ InPass
          /\ \A b \in Bodies, j \in Seqs : ~(b = sha /\ j = i) => rows'[b][j] = rows[b][j]
          /\ Clear(sha, i) => Agreed(rows'[sha][i], cache[sha][i])
      BY <1>14, MarkIs
    <2>2. QED
      BY <2>1 DEF InPass
  <1>15. ASSUME NEW i \in Seqs, RaiseChunk(i) PROVE AllAgreed'
    <2>1. /\ UNCHANGED <<pc, sha, cache, stash>> /\ InPass /\ muddled \subseteq muddled'
          /\ \A b \in Bodies, j \in Seqs : ~(b = sha /\ j = i) => rows'[b][j] = rows[b][j]
          /\ <<sha, i>> \notin muddled' => \A a : Agreed(rows'[sha][i], a)
      BY <1>15, RaiseIs
    <2>2. QED
      BY <2>1 DEF InPass
  <1>16. CASE Retry
    BY <1>16 DEF Retry, Goto, NoStash
  <1>17. CASE Judge
    BY <1>17 DEF Judge, Goto, PassOver, NoStash
  <1>18. CASE Refuse
    BY <1>18 DEF Refuse, GiveUp, End, NoStash
  <1>19. CASE Accept
    BY <1>19 DEF Accept, Goto, NoStash
  <1>20. CASE Stage
    BY <1>20 DEF Stage, End, NoStash
  <1>21. CASE RefuseEmpty
    BY <1>21 DEF RefuseEmpty, GiveUp, End, NoStash
  <1>22. CASE Discard
    <2>1. /\ \A b \in Bodies \ {sha} : cache'[b] = cache[b]
          /\ UNCHANGED <<rows, muddled, sha, stash>> /\ pc' = "putback" /\ pc # "setaside"
      BY <1>22 DEF Discard, Goto, Based, Always, Shapes, CacheShape
    <2>2. QED
      BY <2>1
  <1>23. CASE PutBack
    <2>1. /\ \A b \in Bodies \ {sha} : cache'[b] = cache[b]
          /\ UNCHANGED <<rows, muddled, sha, stash>> /\ pc' = "relist" /\ pc # "setaside"
      BY <1>23 DEF PutBack, Goto, Based, Always, Shapes, CacheShape
    <2>2. QED
      BY <2>1
  <1>24. CASE Relist
    <2>1. /\ \A b \in Bodies, j \in Seqs : rows'[b][j] = IF b = sha THEN stash.rows[j] ELSE rows[b][j]
          /\ UNCHANGED <<cache, muddled, sha>> /\ pc = "relist" /\ pc' = "idle" /\ stash' = NoStash
      BY <1>24 DEF Relist, End, Based, Always, Shapes, RowsShape
    <2>2. cache[sha] = stash.cache /\ stash.held
      BY <2>1 DEF Based, Always, Restoring
    <2>3. QED
      BY <2>1, <2>2 DEF NoStash
  <1>25. CASE Interrupt
    <2>1. UNCHANGED <<rows, cache, muddled, sha, stash>> /\ pc' \in {"idle", "discard"} /\ pc \in {"pass1", "pass2"}
      BY <1>25 DEF Interrupt, GiveUp, End, InPass
    <2>2. QED
      BY <2>1
  <1>26. CASE RaiseOutside
    <2>1. UNCHANGED <<rows, cache, muddled, sha>> /\ pc' = "idle" /\ stash' = NoStash
          /\ pc \in RaiseIn \cup {"merge"}
      BY <1>26 DEF RaiseOutside, End
    <2>2. QED
      BY <2>1, FaultsAssumption DEF NoStash
  <1>27. CASE Crash
    <2>1. UNCHANGED <<rows, cache, muddled, sha>> /\ pc' = "idle" /\ stash' = NoStash /\ pc \in CrashIn
      BY <1>27 DEF Crash, End
    <2>2. pc \notin {"putback", "relist"}
      BY <2>1
    <2>3. QED
      BY <2>1, <2>2 DEF NoStash
  <1>28. CASE UNCHANGED vars
    BY <1>28 DEF vars, NoStash
  <1>29. QED
    BY <1>1, <1>2, <1>3, <1>4, <1>5, <1>6, <1>7, <1>8, <1>9, <1>10, <1>11,
       <1>12, <1>13, <1>13a, <1>14, <1>15, <1>16, <1>17, <1>18, <1>19, <1>20, <1>21,
       <1>22, <1>23, <1>24, <1>25, <1>26, <1>27, <1>28
    DEF Next

(* Every step keeps Going.                                                 *)
LEMMA GoingStep == ASSUME Based, Agreeing, [Next]_vars PROVE Going'
  <1> USE DEF note, run, aux, Agreeing, Going, Clear
  <1>1. CASE Edit
    BY <1>1 DEF Edit, ChunkCount, Held, InPass
  <1>2. ASSUME NEW s \in Sizes, Ingest(s) PROVE Going'
    <2>1. \A j \in Seqs : thread'[j].at = "idle"
      BY <1>2 DEF Ingest, PassOver, Busy, InPass, Begin, Goto, GiveUp, End, Idle, Based, Always, Threads
    <2>2. pc' \notin {"pass1", "pass2"}
      BY <1>2 DEF Ingest, Begin, Goto, GiveUp, End
    <2>3. QED
      BY <2>1, <2>2 DEF InPass
  <1>3. ASSUME NEW s \in Sizes, Reextract(s) PROVE Going'
    <2>1. \A j \in Seqs : thread'[j].at = "idle"
      BY <1>3 DEF Reextract, PassOver, Busy, InPass, Begin, Goto, GiveUp, End, Idle, Based, Always, Threads
    <2>2. pc' \notin {"pass1", "pass2"}
      BY <1>3 DEF Reextract, Begin, Goto, GiveUp, End
    <2>3. QED
      BY <2>1, <2>2 DEF InPass
  <1>4. ASSUME NEW s \in Sizes, ExtractKg(s) PROVE Going'
    <2>1. \A j \in Seqs : thread'[j].at = "idle"
      BY <1>4 DEF ExtractKg, PassOver, Busy, InPass, Begin, Goto, GiveUp, End, Idle, Based, Always, Threads
    <2>2. pc' \notin {"pass1", "pass2"}
      BY <1>4 DEF ExtractKg, Begin, Goto, GiveUp, End
    <2>3. QED
      BY <2>1, <2>2 DEF InPass
  <1>5. ASSUME NEW s \in Sizes, RedoProperties(s) PROVE Going'
    <2>1. \A j \in Seqs : thread'[j].at = "idle"
      BY <1>5 DEF RedoProperties, PassOver, Busy, InPass, Begin, Goto, GiveUp, End, Idle, Based, Always, Threads
    <2>2. pc' \notin {"pass1", "pass2"}
      BY <1>5 DEF RedoProperties, Begin, Goto, GiveUp, End
    <2>3. QED
      BY <2>1, <2>2 DEF InPass
  <1>6. CASE SplitNote
    <2>1. \A j \in Seqs : thread'[j].at = "idle"
      BY <1>6 DEF SplitNote, PassOver, Busy, InPass, Begin, Goto, GiveUp, End, Idle, Based, Always, Threads
    <2>2. pc' \notin {"pass1", "pass2"}
      BY <1>6 DEF SplitNote, Begin, Goto, GiveUp, End
    <2>3. QED
      BY <2>1, <2>2 DEF InPass
  <1>7. CASE StampSplit
    <2>1. \A j \in Seqs : thread'[j].at = "idle"
      BY <1>7 DEF StampSplit, PassOver, Busy, InPass, Begin, Goto, GiveUp, End, Idle, Based, Always, Threads
    <2>2. pc' \notin {"pass1", "pass2"}
      BY <1>7 DEF StampSplit, Begin, Goto, GiveUp, End
    <2>3. QED
      BY <2>1, <2>2 DEF InPass
  <1>8. CASE CheckChunks
    <2>1. \A j \in Seqs : thread'[j].at = "idle"
      BY <1>8 DEF CheckChunks, PassOver, Busy, InPass, Begin, Goto, GiveUp, End, Idle, Based, Always, Threads
    <2>2. pc' \notin {"pass1", "pass2"}
      BY <1>8 DEF CheckChunks, Begin, Goto, GiveUp, End
    <2>3. QED
      BY <2>1, <2>2 DEF InPass
  <1>9. CASE ForgetRows
    <2>1. \A j \in Seqs : thread'[j].at = "idle"
      BY <1>9 DEF ForgetRows, PassOver, Busy, InPass, Begin, Goto, GiveUp, End, Idle, Based, Always, Threads
    <2>2. pc' \notin {"pass1", "pass2"}
      BY <1>9 DEF ForgetRows, Begin, Goto, GiveUp, End
    <2>3. QED
      BY <2>1, <2>2 DEF InPass
  <1>10. CASE SetAside
    <2>1. \A j \in Seqs : thread'[j].at = "idle"
      BY <1>10 DEF SetAside, PassOver, Busy, InPass, Begin, Goto, GiveUp, End, Idle, Based, Always, Threads
    <2>2. pc' \notin {"pass1", "pass2"}
      BY <1>10 DEF SetAside, Begin, Goto, GiveUp, End
    <2>3. QED
      BY <2>1, <2>2 DEF InPass
  <1>11. CASE Prepare
    <2>1. rows'[sha] = Prepared /\ statuses' = Prepared /\ UNCHANGED <<sha, thread>>
      BY <1>11 DEF Prepare, Goto, Based, Always, Shapes, RowsShape, Places
    <2>2. \A j \in Seqs : thread'[j].at = "idle"
      BY <1>11 DEF Prepare, Based, Always, Threads
    <2>3. QED
      BY <2>1, <2>2
  <1>12. ASSUME NEW i \in Seqs, AskChunk(i) PROVE Going'
    <2>1. /\ UNCHANGED <<pc, cut, sha, rows, cache, muddled, statuses>>
          /\ todo' = todo \ {i} /\ i \in 1..ChunkCount
          /\ thread'[i].at = "asked" /\ \A j \in Seqs \ {i} : thread'[j] = thread[j]
          /\ Clear(sha, i) => Ends(rows[sha][i], thread'[i].data, thread'[i].marks)
      BY <1>12, AskIs
    <2>2. QED
      BY <2>1 DEF Held, ChunkCount, InPass
  <1>13. ASSUME NEW i \in Seqs, WriteChunk(i) PROVE Going'
    <2>1. /\ UNCHANGED <<pc, cut, sha, rows, muddled, statuses, todo>> /\ sha \in Bodies
          /\ \A b \in Bodies, j \in Seqs : cache'[b][j] = IF b = sha /\ j = i THEN thread[i].data ELSE cache[b][j]
          /\ i \in 1..ChunkCount /\ i \notin todo
          /\ thread'[i].at = "marking" /\ thread'[i].marks = thread[i].marks
          /\ \A j \in Seqs \ {i} : thread'[j] = thread[j]
          /\ Clear(sha, i) => Ends(rows[sha][i], thread[i].data, thread[i].marks)
      BY <1>13, WriteIs DEF Based, Always, Shapes, Places
    <2>2. cache'[sha][i] = thread[i].data /\ \A j \in Seqs \ {i} : cache'[sha][j] = cache[sha][j]
      BY <2>1
    <2>3. QED
      BY <2>1, <2>2 DEF Held, ChunkCount, InPass
  <1>13a. ASSUME NEW i \in Seqs, Truncate(i) PROVE Going'
    <2>1. /\ UNCHANGED <<pc, cut, sha, rows, muddled, statuses, todo, thread>> /\ sha \in Bodies
          /\ \A b \in Bodies, j \in Seqs : cache'[b][j] = IF b = sha /\ j = i THEN Torn ELSE cache[b][j]
          /\ thread[i].at = "asked"
      BY <1>13a, TruncateIs
    <2>2. \A j \in Seqs : Held(j)' = Held(j)
      BY <2>1 DEF Held
    <2>3. QED
      BY <2>1, <2>2 DEF ChunkCount, InPass
  <1>14. ASSUME NEW i \in Seqs, MarkStep(i) PROVE Going'
    <2>1. /\ UNCHANGED <<pc, cut, sha, cache, muddled, statuses, todo>> /\ sha \in Bodies
          /\ \A b \in Bodies, j \in Seqs : ~(b = sha /\ j = i) => rows'[b][j] = rows[b][j]
          /\ i \in 1..ChunkCount /\ i \notin todo
          /\ thread'[i].at \in {"idle", "marking"} /\ \A j \in Seqs \ {i} : thread'[j] = thread[j]
          /\ Clear(sha, i) /\ thread'[i].at = "marking" => Ends(rows'[sha][i], cache[sha][i], thread'[i].marks)
      BY <1>14, MarkIs DEF Based, Always, Shapes, Places
    <2>2. \A j \in Seqs \ {i} : rows'[sha][j] = rows[sha][j]
      BY <2>1
    <2>3. QED
      BY <2>1, <2>2 DEF Held, ChunkCount, InPass
  <1>15. ASSUME NEW i \in Seqs, RaiseChunk(i) PROVE Going'
    <2>1. /\ UNCHANGED <<pc, cut, sha, cache, statuses>> /\ sha \in Bodies
          /\ todo' = todo \ {i} /\ muddled \subseteq muddled'
          /\ \A b \in Bodies, j \in Seqs : ~(b = sha /\ j = i) => rows'[b][j] = rows[b][j]
          /\ thread'[i].at = "idle" /\ \A j \in Seqs \ {i} : thread'[j] = thread[j]
      BY <1>15, RaiseIs DEF Based, Always, Shapes, Places
    <2>2. \A j \in Seqs \ {i} : rows'[sha][j] = rows[sha][j]
      BY <2>1
    <2>3. QED
      BY <2>1, <2>2 DEF Held, ChunkCount, InPass
  <1>16. CASE Retry
    <2>1. rows'[sha'] = statuses'
      BY <1>16 DEF Retry, Goto
    <2>2. \A j \in Seqs : thread'[j].at = "idle"
      BY <1>16 DEF Retry, PassOver, Busy
    <2>3. QED
      BY <2>1, <2>2
  <1>17. CASE Judge
    <2>1. \A j \in Seqs : thread'[j].at = "idle"
      BY <1>17 DEF Judge, PassOver, Busy, InPass, Begin, Goto, GiveUp, End, Idle, Based, Always, Threads
    <2>2. pc' \notin {"pass1", "pass2"}
      BY <1>17 DEF Judge, Begin, Goto, GiveUp, End
    <2>3. QED
      BY <2>1, <2>2 DEF InPass
  <1>18. CASE Refuse
    <2>1. \A j \in Seqs : thread'[j].at = "idle"
      BY <1>18 DEF Refuse, PassOver, Busy, InPass, Begin, Goto, GiveUp, End, Idle, Based, Always, Threads
    <2>2. pc' \notin {"pass1", "pass2"}
      BY <1>18 DEF Refuse, Begin, Goto, GiveUp, End
    <2>3. QED
      BY <2>1, <2>2 DEF InPass
  <1>19. CASE Accept
    <2>1. \A j \in Seqs : thread'[j].at = "idle"
      BY <1>19 DEF Accept, PassOver, Busy, InPass, Begin, Goto, GiveUp, End, Idle, Based, Always, Threads
    <2>2. pc' \notin {"pass1", "pass2"}
      BY <1>19 DEF Accept, Begin, Goto, GiveUp, End
    <2>3. QED
      BY <2>1, <2>2 DEF InPass
  <1>20. CASE Stage
    <2>1. \A j \in Seqs : thread'[j].at = "idle"
      BY <1>20 DEF Stage, PassOver, Busy, InPass, Begin, Goto, GiveUp, End, Idle, Based, Always, Threads
    <2>2. pc' \notin {"pass1", "pass2"}
      BY <1>20 DEF Stage, Begin, Goto, GiveUp, End
    <2>3. QED
      BY <2>1, <2>2 DEF InPass
  <1>21. CASE RefuseEmpty
    <2>1. \A j \in Seqs : thread'[j].at = "idle"
      BY <1>21 DEF RefuseEmpty, PassOver, Busy, InPass, Begin, Goto, GiveUp, End, Idle, Based, Always, Threads
    <2>2. pc' \notin {"pass1", "pass2"}
      BY <1>21 DEF RefuseEmpty, Begin, Goto, GiveUp, End
    <2>3. QED
      BY <2>1, <2>2 DEF InPass
  <1>22. CASE Discard
    <2>1. \A j \in Seqs : thread'[j].at = "idle"
      BY <1>22 DEF Discard, PassOver, Busy, InPass, Begin, Goto, GiveUp, End, Idle, Based, Always, Threads
    <2>2. pc' \notin {"pass1", "pass2"}
      BY <1>22 DEF Discard, Begin, Goto, GiveUp, End
    <2>3. QED
      BY <2>1, <2>2 DEF InPass
  <1>23. CASE PutBack
    <2>1. \A j \in Seqs : thread'[j].at = "idle"
      BY <1>23 DEF PutBack, PassOver, Busy, InPass, Begin, Goto, GiveUp, End, Idle, Based, Always, Threads
    <2>2. pc' \notin {"pass1", "pass2"}
      BY <1>23 DEF PutBack, Begin, Goto, GiveUp, End
    <2>3. QED
      BY <2>1, <2>2 DEF InPass
  <1>24. CASE Relist
    <2>1. \A j \in Seqs : thread'[j].at = "idle"
      BY <1>24 DEF Relist, PassOver, Busy, InPass, Begin, Goto, GiveUp, End, Idle, Based, Always, Threads
    <2>2. pc' \notin {"pass1", "pass2"}
      BY <1>24 DEF Relist, Begin, Goto, GiveUp, End
    <2>3. QED
      BY <2>1, <2>2 DEF InPass
  <1>25. CASE Interrupt
    <2>1. \A j \in Seqs : thread'[j].at = "idle"
      BY <1>25 DEF Interrupt, PassOver, Busy, InPass, Begin, Goto, GiveUp, End, Idle, Based, Always, Threads
    <2>2. pc' \notin {"pass1", "pass2"}
      BY <1>25 DEF Interrupt, Begin, Goto, GiveUp, End
    <2>3. QED
      BY <2>1, <2>2 DEF InPass
  <1>26. CASE RaiseOutside
    <2>1. \A j \in Seqs : thread'[j].at = "idle"
      BY <1>26, FaultsAssumption DEF RaiseOutside, PassOver, Busy, InPass, Begin, Goto, GiveUp, End, Idle, Based, Always, Threads
    <2>2. pc' \notin {"pass1", "pass2"}
      BY <1>26 DEF RaiseOutside, Begin, Goto, GiveUp, End
    <2>3. QED
      BY <2>1, <2>2 DEF InPass
  <1>27. CASE Crash
    <2>1. \A j \in Seqs : thread'[j].at = "idle"
      BY <1>27 DEF Crash, PassOver, Busy, InPass, Begin, Goto, GiveUp, End, Idle, Based, Always, Threads
    <2>2. pc' \notin {"pass1", "pass2"}
      BY <1>27 DEF Crash, Begin, Goto, GiveUp, End
    <2>3. QED
      BY <2>1, <2>2 DEF InPass
  <1>28. CASE UNCHANGED vars
    BY <1>28 DEF vars, Held, ChunkCount, InPass
  <1>29. QED
    BY <1>1, <1>2, <1>3, <1>4, <1>5, <1>6, <1>7, <1>8, <1>9, <1>10, <1>11,
       <1>12, <1>13, <1>13a, <1>14, <1>15, <1>16, <1>17, <1>18, <1>19, <1>20, <1>21,
       <1>22, <1>23, <1>24, <1>25, <1>26, <1>27, <1>28
    DEF Next

(* Every step keeps Rested.                                                *)
LEMMA RestedStep == ASSUME Based, Agreeing, [Next]_vars PROVE Rested'
  <1> USE DEF note, run, aux, Agreeing, Rested, Working, Clear
  <1>1. CASE Edit
    BY <1>1 DEF Edit, ChunkCount
  <1>2. ASSUME NEW s \in Sizes, Ingest(s) PROVE Rested'
    <2>1. pc' \notin {"pass1", "pass2", "judge", "merge"}
      BY <1>2 DEF Ingest, Begin, Goto, GiveUp, End
    <2>2. QED
      BY <2>1
  <1>3. ASSUME NEW s \in Sizes, Reextract(s) PROVE Rested'
    <2>1. pc' \notin {"pass1", "pass2", "judge", "merge"}
      BY <1>3 DEF Reextract, Begin, Goto, GiveUp, End
    <2>2. QED
      BY <2>1
  <1>4. ASSUME NEW s \in Sizes, ExtractKg(s) PROVE Rested'
    <2>1. pc' \notin {"pass1", "pass2", "judge", "merge"}
      BY <1>4 DEF ExtractKg, Begin, Goto, GiveUp, End
    <2>2. QED
      BY <2>1
  <1>5. ASSUME NEW s \in Sizes, RedoProperties(s) PROVE Rested'
    <2>1. pc' \notin {"pass1", "pass2", "judge", "merge"}
      BY <1>5 DEF RedoProperties, Begin, Goto, GiveUp, End
    <2>2. QED
      BY <2>1
  <1>6. CASE SplitNote
    <2>1. pc' \notin {"pass1", "pass2", "judge", "merge"}
      BY <1>6 DEF SplitNote, Begin, Goto, GiveUp, End
    <2>2. QED
      BY <2>1
  <1>7. CASE StampSplit
    <2>1. pc' \notin {"pass1", "pass2", "judge", "merge"}
      BY <1>7 DEF StampSplit, Begin, Goto, GiveUp, End
    <2>2. QED
      BY <2>1
  <1>8. CASE CheckChunks
    <2>1. pc' \notin {"pass1", "pass2", "judge", "merge"}
      BY <1>8 DEF CheckChunks, Begin, Goto, GiveUp, End
    <2>2. QED
      BY <2>1
  <1>9. CASE ForgetRows
    <2>1. pc' \notin {"pass1", "pass2", "judge", "merge"}
      BY <1>9 DEF ForgetRows, Begin, Goto, GiveUp, End
    <2>2. QED
      BY <2>1
  <1>10. CASE SetAside
    <2>1. pc' \notin {"pass1", "pass2", "judge", "merge"}
      BY <1>10 DEF SetAside, Begin, Goto, GiveUp, End
    <2>2. QED
      BY <2>1
  <1>11. CASE Prepare
    <2>1. todo' = 1..ChunkCount /\ UNCHANGED cut /\ pc' = "pass1"
      BY <1>11 DEF Prepare, Goto
    <2>2. QED
      BY <2>1 DEF ChunkCount
  <1>12. ASSUME NEW i \in Seqs, AskChunk(i) PROVE Rested'
    <2>1. /\ UNCHANGED <<pc, cut, sha, rows, cache, muddled>> /\ InPass
          /\ todo' = todo \ {i} /\ i \in 1..ChunkCount
          /\ thread'[i].at = "asked" /\ \A j \in Seqs \ {i} : thread'[j] = thread[j]
      BY <1>12, AskIs
    <2>2. \A j \in 1..ChunkCount : j \in Seqs
      BY <2>1, Counted, BoundsAssumption DEF InPass, Based, Sorts, CutType, HasCut, Seqs
    <2>3. QED
      BY <2>1, <2>2 DEF ChunkCount, InPass
  <1>13. ASSUME NEW i \in Seqs, WriteChunk(i) PROVE Rested'
    <2>1. /\ UNCHANGED <<pc, cut, sha, rows, muddled, todo>> /\ InPass /\ sha \in Bodies
          /\ \A b \in Bodies, j \in Seqs : cache'[b][j] = IF b = sha /\ j = i THEN thread[i].data ELSE cache[b][j]
          /\ thread'[i].at = "marking" /\ \A j \in Seqs \ {i} : thread'[j] = thread[j]
      BY <1>13, WriteIs DEF Based, Always, Shapes, Places
    <2>2. \A j \in 1..ChunkCount : j \in Seqs
      BY <2>1, Counted, BoundsAssumption DEF InPass, Based, Sorts, CutType, HasCut, Seqs
    <2>3. \A j \in Seqs \ {i} : cache'[sha][j] = cache[sha][j]
      BY <2>1
    <2>4. QED
      BY <2>1, <2>2, <2>3 DEF ChunkCount, InPass
  <1>13a. ASSUME NEW i \in Seqs, Truncate(i) PROVE Rested'
    <2>1. /\ UNCHANGED <<pc, cut, sha, rows, muddled, todo, thread>> /\ InPass /\ sha \in Bodies
          /\ \A b \in Bodies, j \in Seqs : cache'[b][j] = IF b = sha /\ j = i THEN Torn ELSE cache[b][j]
          /\ thread[i].at = "asked"
      BY <1>13a, TruncateIs
    <2>2. \A j \in 1..ChunkCount : j \in Seqs
      BY <2>1, Counted, BoundsAssumption DEF InPass, Based, Sorts, CutType, HasCut, Seqs
    <2>3. QED
      BY <2>1, <2>2 DEF ChunkCount, InPass, Working
  <1>14. ASSUME NEW i \in Seqs, MarkStep(i) PROVE Rested'
    <2>1. /\ UNCHANGED <<pc, cut, sha, cache, muddled, todo>> /\ InPass /\ sha \in Bodies
          /\ \A b \in Bodies, j \in Seqs : ~(b = sha /\ j = i) => rows'[b][j] = rows[b][j]
          /\ \A j \in Seqs \ {i} : thread'[j] = thread[j]
          /\ Clear(sha, i) /\ thread'[i].at = "idle" => Done(rows'[sha][i], cache[sha][i])
      BY <1>14, MarkIs DEF Based, Always, Shapes, Places
    <2>2. \A j \in 1..ChunkCount : j \in Seqs
      BY <2>1, Counted, BoundsAssumption DEF InPass, Based, Sorts, CutType, HasCut, Seqs
    <2>3. \A j \in Seqs \ {i} : rows'[sha][j] = rows[sha][j]
      BY <2>1
    <2>4. QED
      BY <2>1, <2>2, <2>3 DEF ChunkCount, InPass
  <1>15. ASSUME NEW i \in Seqs, RaiseChunk(i) PROVE Rested'
    <2>1. /\ UNCHANGED <<pc, cut, sha, cache>> /\ InPass /\ sha \in Bodies
          /\ todo' = todo \ {i} /\ muddled \subseteq muddled'
          /\ \A b \in Bodies, j \in Seqs : ~(b = sha /\ j = i) => rows'[b][j] = rows[b][j]
          /\ \A j \in Seqs \ {i} : thread'[j] = thread[j]
          /\ <<sha, i>> \notin muddled' /\ i \in 1..ChunkCount => \A a : Done(rows'[sha][i], a)
      BY <1>15, RaiseIs DEF Based, Always, Shapes, Places
    <2>2. \A j \in 1..ChunkCount : j \in Seqs
      BY <2>1, Counted, BoundsAssumption DEF InPass, Based, Sorts, CutType, HasCut, Seqs
    <2>3. \A j \in Seqs \ {i} : rows'[sha][j] = rows[sha][j]
      BY <2>1
    <2>4. QED
      BY <2>1, <2>2, <2>3 DEF ChunkCount, InPass
  <1>16. CASE Retry
    BY <1>16 DEF Retry, Goto, PassOver, ChunkCount
  <1>17. CASE Judge
    BY <1>17 DEF Judge, Goto, ChunkCount
  <1>18. CASE Refuse
    <2>1. pc' \notin {"pass1", "pass2", "judge", "merge"}
      BY <1>18 DEF Refuse, Begin, Goto, GiveUp, End
    <2>2. QED
      BY <2>1
  <1>19. CASE Accept
    BY <1>19 DEF Accept, Goto, ChunkCount
  <1>20. CASE Stage
    <2>1. pc' \notin {"pass1", "pass2", "judge", "merge"}
      BY <1>20 DEF Stage, Begin, Goto, GiveUp, End
    <2>2. QED
      BY <2>1
  <1>21. CASE RefuseEmpty
    <2>1. pc' \notin {"pass1", "pass2", "judge", "merge"}
      BY <1>21 DEF RefuseEmpty, Begin, Goto, GiveUp, End
    <2>2. QED
      BY <2>1
  <1>22. CASE Discard
    <2>1. pc' \notin {"pass1", "pass2", "judge", "merge"}
      BY <1>22 DEF Discard, Begin, Goto, GiveUp, End
    <2>2. QED
      BY <2>1
  <1>23. CASE PutBack
    <2>1. pc' \notin {"pass1", "pass2", "judge", "merge"}
      BY <1>23 DEF PutBack, Begin, Goto, GiveUp, End
    <2>2. QED
      BY <2>1
  <1>24. CASE Relist
    <2>1. pc' \notin {"pass1", "pass2", "judge", "merge"}
      BY <1>24 DEF Relist, Begin, Goto, GiveUp, End
    <2>2. QED
      BY <2>1
  <1>25. CASE Interrupt
    <2>1. pc' \notin {"pass1", "pass2", "judge", "merge"}
      BY <1>25 DEF Interrupt, Begin, Goto, GiveUp, End
    <2>2. QED
      BY <2>1
  <1>26. CASE RaiseOutside
    <2>1. pc' \notin {"pass1", "pass2", "judge", "merge"}
      BY <1>26 DEF RaiseOutside, Begin, Goto, GiveUp, End
    <2>2. QED
      BY <2>1
  <1>27. CASE Crash
    <2>1. pc' \notin {"pass1", "pass2", "judge", "merge"}
      BY <1>27 DEF Crash, Begin, Goto, GiveUp, End
    <2>2. QED
      BY <2>1
  <1>28. CASE UNCHANGED vars
    BY <1>28 DEF vars, ChunkCount
  <1>29. QED
    BY <1>1, <1>2, <1>3, <1>4, <1>5, <1>6, <1>7, <1>8, <1>9, <1>10, <1>11,
       <1>12, <1>13, <1>13a, <1>14, <1>15, <1>16, <1>17, <1>18, <1>19, <1>20, <1>21,
       <1>22, <1>23, <1>24, <1>25, <1>26, <1>27, <1>28
    DEF Next

(* Every step keeps StagedAgreesUnlessMuddled.                             *)
LEMMA AgreesStep ==
    ASSUME Based, Agreeing, StagedAgreesUnlessMuddled, [Next]_vars
    PROVE  StagedAgreesUnlessMuddled'
  <1> USE DEF note, run, aux, StagedAgreesUnlessMuddled
  <1>1. CASE Edit
    BY <1>1 DEF Edit
  <1>2. ASSUME NEW s \in Sizes, Ingest(s) PROVE StagedAgreesUnlessMuddled'
    BY <1>2 DEF Ingest, Begin
  <1>3. ASSUME NEW s \in Sizes, Reextract(s) PROVE StagedAgreesUnlessMuddled'
    BY <1>3 DEF Reextract, Begin
  <1>4. ASSUME NEW s \in Sizes, ExtractKg(s) PROVE StagedAgreesUnlessMuddled'
    BY <1>4 DEF ExtractKg, Begin
  <1>5. ASSUME NEW s \in Sizes, RedoProperties(s) PROVE StagedAgreesUnlessMuddled'
    BY <1>5 DEF RedoProperties, Begin
  <1>6. CASE SplitNote
    BY <1>6 DEF SplitNote, Goto
  <1>7. CASE StampSplit
    BY <1>7 DEF StampSplit, Goto
  <1>8. CASE CheckChunks
    BY <1>8 DEF CheckChunks, Goto
  <1>9. CASE ForgetRows
    BY <1>9 DEF ForgetRows, Goto
  <1>10. CASE SetAside
    BY <1>10 DEF SetAside, Goto
  <1>11. CASE Prepare
    BY <1>11 DEF Prepare, Goto
  <1>12. ASSUME NEW i \in Seqs, AskChunk(i) PROVE StagedAgreesUnlessMuddled'
    BY <1>12 DEF AskChunk, InPass
  <1>13. ASSUME NEW i \in Seqs, WriteChunk(i) PROVE StagedAgreesUnlessMuddled'
    BY <1>13 DEF WriteChunk
  <1>13a. ASSUME NEW i \in Seqs, Truncate(i) PROVE StagedAgreesUnlessMuddled'
    BY <1>13a DEF Truncate
  <1>14. ASSUME NEW i \in Seqs, MarkStep(i) PROVE StagedAgreesUnlessMuddled'
    BY <1>14 DEF MarkStep, Updated
  <1>15. ASSUME NEW i \in Seqs, RaiseChunk(i) PROVE StagedAgreesUnlessMuddled'
    <2>1. UNCHANGED staged /\ muddled \subseteq muddled'
      BY <1>15 DEF RaiseChunk
    <2>2. QED
      BY <2>1
  <1>16. CASE Retry
    BY <1>16 DEF Retry, Goto
  <1>17. CASE Judge
    BY <1>17 DEF Judge, Goto, PassOver
  <1>18. CASE Refuse
    BY <1>18 DEF Refuse, GiveUp, End
  <1>19. CASE Accept
    BY <1>19 DEF Accept, Goto
  <1>20. CASE Stage
    <2>1. staged'.of = sha /\ staged'.chunks = Merged /\ muddled' = muddled /\ pc = "merge"
      BY <1>20 DEF Stage
    <2>2. ASSUME NEW j \in DOMAIN Merged, Clear(sha, j), Merged[j].entities = "some"
          PROVE  Merged[j].properties = "current" /\ Merged[j].relationships = "current"
      <3>1. j \in 1..ChunkCount /\ Merged[j] = cache[sha][j]
        BY DEF Merged
      <3>2. /\ j \in Seqs /\ sha \in Bodies /\ rows[sha][j]["entities"] = "ok"
            /\ \A st \in Steps : rows[sha][j][st] \in {"ok", "skipped"}
        BY <2>1, <3>1, AcceptedRow DEF Based
      <3>3. Done(rows[sha][j], cache[sha][j])
        BY <2>1, <2>2, <3>1, <3>2 DEF Agreeing, Rested, Working, Based, Always, Threads
      <3>4. Agreed(rows[sha][j], cache[sha][j])
        BY <2>1, <2>2, <3>2 DEF Agreeing, AllAgreed
      <3>5. \A st \in Later : rows[sha][j][st] = "ok"
        BY <2>2, <3>1, <3>2, <3>3 DEF Done, Later, Steps
      <3>6. \A st \in Later : cache[sha][j][st] = "current"
        BY <2>2, <3>1, <3>4, <3>5 DEF Agreed
      <3>7. QED
        BY <3>1, <3>6 DEF Later
    <2>3. QED
      BY <2>1, <2>2 DEF Clear
  <1>21. CASE RefuseEmpty
    BY <1>21 DEF RefuseEmpty, GiveUp, End
  <1>22. CASE Discard
    BY <1>22 DEF Discard, Goto
  <1>23. CASE PutBack
    BY <1>23 DEF PutBack, Goto
  <1>24. CASE Relist
    BY <1>24 DEF Relist, End
  <1>25. CASE Interrupt
    BY <1>25 DEF Interrupt, GiveUp, End, InPass
  <1>26. CASE RaiseOutside
    BY <1>26 DEF RaiseOutside, End
  <1>27. CASE Crash
    BY <1>27 DEF Crash, End
  <1>28. CASE UNCHANGED vars
    BY <1>28 DEF vars
  <1>29. QED
    BY <1>1, <1>2, <1>3, <1>4, <1>5, <1>6, <1>7, <1>8, <1>9, <1>10, <1>11,
       <1>12, <1>13, <1>13a, <1>14, <1>15, <1>16, <1>17, <1>18, <1>19, <1>20, <1>21,
       <1>22, <1>23, <1>24, <1>25, <1>26, <1>27, <1>28
    DEF Next

(* What is staged agrees: the properties and relationships of a chunk were *)
(* asked about the entities staged beside them.  For any edits, sizes and  *)
(* errors raised, but for the chunks that are muddled, and a process that  *)
(* does not die in the middle of putting back what --reextract set aside.  *)
THEOREM AgreesUnlessMuddled ==
    ASSUME CrashIn \cap {"putback", "relist"} = {}
    PROVE  Spec => []StagedAgreesUnlessMuddled
  <1>1. Init => Based /\ Agreeing /\ StagedAgreesUnlessMuddled
    <2> SUFFICES ASSUME Init PROVE Based /\ Agreeing /\ StagedAgreesUnlessMuddled
      OBVIOUS
    <2>1. Always /\ Kept /\ Sorts
      BY AlwaysStarts, SortsStart
    <2>2. RowsKnown
      BY NothingKnown DEF Init, RowsKnown, Working
    <2>3. AllAgreed
      BY NoneAgreed DEF Init, AllAgreed, NoStash
    <2>4. Going /\ Rested
      BY DEF Init, Going, Rested, Idle, InPass, Working
    <2>5. StagedAgreesUnlessMuddled
      BY DEF Init, StagedAgreesUnlessMuddled, NothingStaged
    <2>6. QED
      BY <2>1, <2>2, <2>3, <2>4, <2>5 DEF Based, Agreeing
  <1>2. Based /\ [Next]_vars => Based'
    BY AlwaysSteps, SortsStep, RowsKnownStep DEF Based, Always
  <1>3. Based /\ Agreeing /\ [Next]_vars => Agreeing'
    BY AllAgreedStep, GoingStep, RestedStep DEF Agreeing
  <1>4. Based /\ Agreeing /\ StagedAgreesUnlessMuddled /\ [Next]_vars => StagedAgreesUnlessMuddled'
    BY AgreesStep
  <1>5. QED
    BY <1>1, <1>2, <1>3, <1>4, PTL DEF Spec


-----------------------------------------------------------------------------
(***************************************************************************)
(* CleanRunIsStaged, while nobody edits the note and its chunks have one   *)
(* size.                                                                   *)
(***************************************************************************)

(* There is no row past a body's last chunk.                               *)
Fits(b, r) == \A i \in Seqs : r[i] # Absent => \A s \in Sizes : i <= Count(b, s)
Fitting == (\A b \in Bodies : Fits(b, rows[b])) /\ Fits(sha, stash.rows)

(* A row that keeps nobody waiting, and the marks that make a row one.     *)
Over(row) == \A st \in Steps : row[st] \notin {"failed", "pending"}
Closes(row, M) ==
  /\ \A k \in DOMAIN M : M[k][2] \notin {"failed", "pending"}
  /\ \A st \in Steps : row[st] \notin {"failed", "pending"} \/ \E k \in DOMAIN M : M[k][1] = st

(* While nothing has failed, what is waiting is in the first pass's list   *)
(* or in the hands of a thread that will settle it: the second pass has    *)
(* nothing to do and the judgement nothing to object to.                   *)
Clearing == clean =>
  /\ pc \notin {"discard", "putback", "relist"}
  /\ InPass => \A i \in Seqs :
       /\ i \in todo => pc = "pass1" /\ i \in 1..ChunkCount /\ thread[i].at = "idle" /\ statuses[i] = rows[sha][i]
       /\ thread[i].at # "idle" => i \in 1..ChunkCount /\ Closes(rows[sha][i], thread[i].marks)
       /\ thread[i].at = "idle" /\ i \notin todo => Over(rows[sha][i])
  /\ pc \in {"judge", "merge"} => \A i \in Seqs : Over(rows[sha][i])

(* A row that is over is not incomplete.                                   *)
LEMMA OverIs ==
    ASSUME NEW rs
    PROVE  Incomplete(rs) = {} <=> \A i \in Seqs : Over(rs[i])
  BY DEF Incomplete, Over

(* What is asked, when nothing fails, closes the row.                      *)
LEMMA AskedCloses ==
    ASSUME NEW row \in [Steps -> Status], NEW M,
           NEW em \in Outcomes \ {"skipped"}, NEW pm \in Outcomes, NEW rm \in Outcomes,
           Lists(M, em, pm, rm), Failures(M) = {},
           em = "kept" => row["entities"] = "ok",
           pm = "kept" => row["properties"] = "ok",
           rm = "kept" => row["relationships"] = "ok"
    PROVE  Closes(row, M)
  <1>1. \A x \in Outcomes : Width(x) = IF x = "kept" THEN 0 ELSE 1
    BY DEF Width
  <1>2. DOMAIN M = 1 .. Len(M) /\ Len(M) = Width(em) + Width(pm) + Width(rm)
    BY DEF Lists
  <1>3. \A k \in DOMAIN M : M[k][2] # "failed"
    BY DEF Failures
  <1>4. \A k \in DOMAIN M : M[k][2] \in Outcomes
    <2>1. em \in Outcomes
      OBVIOUS
    <2>2. ASSUME NEW k \in DOMAIN M
          PROVE  \/ em # "kept" /\ M[k] = <<"entities", em>>
                 \/ pm # "kept" /\ M[k] = <<"properties", pm>>
                 \/ rm # "kept" /\ M[k] = <<"relationships", rm>>
      <3>1. Lists(M, em, pm, rm)
        OBVIOUS
      <3>2. QED
        BY ONLY <2>1, <2>2, <3>1, MarksOnly, pm \in Outcomes, rm \in Outcomes
    <2>3. QED
      BY <2>1, <2>2
  <1>5. em # "kept" => 1 \in DOMAIN M /\ M[1][1] = "entities"
    BY <1>1, <1>2 DEF Lists
  <1>6. pm # "kept" => Width(em) + 1 \in DOMAIN M /\ M[Width(em) + 1][1] = "properties"
    BY <1>1, <1>2 DEF Lists
  <1>7. rm # "kept" => Width(em) + Width(pm) + 1 \in DOMAIN M /\ M[Width(em) + Width(pm) + 1][1] = "relationships"
    BY <1>1, <1>2 DEF Lists
  <1>8. \A st \in Steps : row[st] \notin {"failed", "pending"} \/ \E k \in DOMAIN M : M[k][1] = st
    BY <1>5, <1>6, <1>7 DEF Steps
  <1>9. QED
    BY <1>3, <1>4, <1>8 DEF Closes, Outcomes

(* One mark less.                                                          *)
LEMMA ClosesTail ==
    ASSUME NEW row \in [Steps -> Status], NEW M \in Seq(Steps \X Status), M # <<>>, Closes(row, M)
    PROVE  Closes([row EXCEPT ![M[1][1]] = M[1][2]], Tail(M))
  <1> DEFINE new == [row EXCEPT ![M[1][1]] = M[1][2]]
             T == Tail(M)
  <1>1. Len(M) \in Nat \ {0} /\ DOMAIN M = 1 .. Len(M) /\ 1 \in DOMAIN M
    OBVIOUS
  <1>2. DOMAIN T = 1 .. Len(M) - 1 /\ \A k \in DOMAIN T : T[k] = M[k + 1] /\ k + 1 \in DOMAIN M
    BY <1>1
  <1>3. \A st \in Steps : new[st] = IF st = M[1][1] THEN M[1][2] ELSE row[st]
    OBVIOUS
  <1> HIDE DEF new, T
  <1>4. ASSUME NEW st \in Steps, new[st] \in {"failed", "pending"} PROVE \E k \in DOMAIN T : T[k][1] = st
    <2>1. st # M[1][1] /\ row[st] \in {"failed", "pending"}
      BY <1>1, <1>3, <1>4 DEF Closes
    <2>2. PICK k \in DOMAIN M : M[k][1] = st
      BY <2>1 DEF Closes
    <2>3. k - 1 \in DOMAIN T /\ T[k - 1] = M[k]
      BY <1>1, <1>2, <2>1, <2>2
    <2>4. QED
      BY <2>2, <2>3
  <1>5. \A k \in DOMAIN T : T[k][2] \notin {"failed", "pending"}
    BY <1>2 DEF Closes
  <1>6. Closes(new, T)
    BY <1>4, <1>5 DEF Closes
  <1>7. QED
    BY <1>6 DEF new, T

(* With no mark left the row is over.                                      *)
LEMMA ClosesOver == ASSUME NEW row, Closes(row, <<>>) PROVE Over(row)
  <1>1. DOMAIN <<>> = {}
    OBVIOUS
  <1>2. QED
    BY <1>1 DEF Closes, Over

(* No stash, no rows.                                                      *)
LEMMA NothingFits == \A b : Fits(b, NoStash.rows)
  BY DEF Fits, NoStash

(* A mark is an UPDATE: it makes no row.                                   *)
LEMMA MarkedRows ==
    ASSUME Places, RowsShape, ThreadShape, NEW i \in Seqs, MarkStep(i), NEW b \in Bodies, NEW j \in Seqs,
           rows'[b][j] # Absent
    PROVE  rows[b][j] # Absent
  <1>1. CASE thread[i].marks = <<>>
    BY <1>1 DEF MarkStep
  <1>2. CASE thread[i].marks # <<>>
    <2>1. thread[i].marks[1] \in Steps \X Status
      BY <1>2 DEF ThreadShape
    <2>2. PICK x \in Steps, y \in Status : x = thread[i].marks[1][1] /\ y = thread[i].marks[1][2]
      BY <2>1
    <2>3. rows' = Updated(i, x, y)
      BY <1>2, <2>2 DEF MarkStep
    <2>4. Updated(i, x, y)[b][j] =
            IF b = sha /\ j = i /\ rows[sha][i] # Absent THEN [rows[sha][i] EXCEPT ![x] = y] ELSE rows[b][j]
      BY UpdatedIs
    <2>5. QED
      BY <2>3, <2>4
  <1>3. QED
    BY <1>1, <1>2

(* Every step keeps Fitting.                                               *)
LEMMA FittingStep ==
    ASSUME OneSize, Shapes, Sorts, Following, Fitting, [Next]_vars
    PROVE  Fitting'
  <1> USE DEF note, run, aux, Shapes, Places, RowsShape, Fitting
  <1>1. CASE Edit
    BY <1>1 DEF Edit, Fits
  <1>2. ASSUME NEW s \in Sizes, Ingest(s) PROVE Fitting'
    <2>1. UNCHANGED rows /\ stash' = NoStash
      BY <1>2 DEF Ingest, Begin
    <2>2. QED
      BY <2>1, NothingFits DEF Fits
  <1>3. ASSUME NEW s \in Sizes, Reextract(s) PROVE Fitting'
    <2>1. UNCHANGED rows /\ stash' = NoStash
      BY <1>3 DEF Reextract, Begin
    <2>2. QED
      BY <2>1, NothingFits DEF Fits
  <1>4. ASSUME NEW s \in Sizes, ExtractKg(s) PROVE Fitting'
    <2>1. UNCHANGED rows /\ stash' = NoStash
      BY <1>4 DEF ExtractKg, Begin
    <2>2. QED
      BY <2>1, NothingFits DEF Fits
  <1>5. ASSUME NEW s \in Sizes, RedoProperties(s) PROVE Fitting'
    <2>1. /\ rows' = [rows EXCEPT ![body] = [i \in Seqs |->
                 IF rows[body][i]["entities"] = "ok" THEN [rows[body][i] EXCEPT !["properties"] = "pending"]
                                                     ELSE rows[body][i]]]
          /\ stash' = NoStash
      BY <1>5 DEF RedoProperties, Begin
    <2>2. ASSUME NEW b \in Bodies, NEW j \in Seqs, rows'[b][j] # Absent PROVE rows[b][j] # Absent
      BY <2>1, <2>2 DEF Absent, Steps
    <2>3. QED
      BY <2>1, <2>2, NothingFits DEF Fits
  <1>6. CASE SplitNote
    <2>1. UNCHANGED rows /\ sha' = sha /\ stash' \in {stash, NoStash}
      BY <1>6 DEF SplitNote, Goto, GiveUp, End, Begin
    <2>2. QED
      BY <2>1, NothingFits DEF Fits
  <1>7. CASE StampSplit
    <2>1. UNCHANGED rows /\ sha' = sha /\ stash' \in {stash, NoStash}
      BY <1>7 DEF StampSplit, Goto, GiveUp, End, Begin
    <2>2. QED
      BY <2>1, NothingFits DEF Fits
  <1>8. CASE CheckChunks
    <2>1. UNCHANGED rows /\ sha' = sha /\ stash' \in {stash, NoStash}
      BY <1>8 DEF CheckChunks, Goto, GiveUp, End, Begin
    <2>2. QED
      BY <2>1, NothingFits DEF Fits
  <1>9. CASE ForgetRows
    <2>1. /\ \A b \in Bodies, j \in Seqs : rows'[b][j] = IF b = sha THEN Absent ELSE rows[b][j]
          /\ stash'.rows = rows[sha] /\ sha' = sha /\ sha \in Bodies
      BY <1>9 DEF ForgetRows, Goto
    <2>2. QED
      BY <2>1 DEF Fits
  <1>10. CASE SetAside
    <2>1. UNCHANGED rows /\ sha' = sha /\ stash'.rows = stash.rows
      BY <1>10 DEF SetAside, Goto
    <2>2. QED
      BY <2>1 DEF Fits
  <1>11. CASE Prepare
    <2>1. /\ \A b \in Bodies, j \in Seqs : rows'[b][j] = rows[b][j] \/ (b = sha /\ j <= ChunkCount)
          /\ UNCHANGED stash /\ sha' = sha /\ pc = "prepare"
      BY <1>11 DEF Prepare, Prepared, Goto
    <2>2. \A s \in Sizes : ChunkCount = Count(sha, s)
      <3>1. cut.of = sha
        BY <2>1 DEF Following, Checked, Points
      <3>2. cut.size \in Sizes
        BY DEF Sorts, CutType
      <3>3. QED
        BY <3>1, <3>2 DEF OneSize, ChunkCount
    <2>3. QED
      BY <2>1, <2>2 DEF Fits
  <1>12. ASSUME NEW i \in Seqs, AskChunk(i) PROVE Fitting'
    <2>1. UNCHANGED rows /\ sha' = sha /\ stash' \in {stash, NoStash}
      BY <1>12 DEF AskChunk, Goto, GiveUp, End, Begin
    <2>2. QED
      BY <2>1, NothingFits DEF Fits
  <1>13. ASSUME NEW i \in Seqs, WriteChunk(i) PROVE Fitting'
    <2>1. UNCHANGED rows /\ sha' = sha /\ stash' \in {stash, NoStash}
      BY <1>13 DEF WriteChunk, Goto, GiveUp, End, Begin
    <2>2. QED
      BY <2>1, NothingFits DEF Fits
  <1>13a. ASSUME NEW i \in Seqs, Truncate(i) PROVE Fitting'
    <2>1. UNCHANGED rows /\ sha' = sha /\ stash' \in {stash, NoStash}
      BY <1>13a DEF Truncate, Goto, GiveUp, End, Begin
    <2>2. QED
      BY <2>1, NothingFits DEF Fits
  <1>14. ASSUME NEW i \in Seqs, MarkStep(i) PROVE Fitting'
    <2>1. UNCHANGED stash /\ sha' = sha
      BY <1>14 DEF MarkStep
    <2>2. ASSUME NEW b \in Bodies, NEW j \in Seqs, rows'[b][j] # Absent PROVE rows[b][j] # Absent
      BY <1>14, <2>2, MarkedRows
    <2>3. QED
      BY <2>1, <2>2 DEF Fits
  <1>15. ASSUME NEW i \in Seqs, RaiseChunk(i) PROVE Fitting'
    <2>1. UNCHANGED stash /\ sha' = sha /\ (rows' = rows \/ rows' = Updated(i, "entities", "failed"))
      BY <1>15 DEF RaiseChunk
    <2>2. ASSUME NEW b \in Bodies, NEW j \in Seqs, rows'[b][j] # Absent PROVE rows[b][j] # Absent
      <3>1. "entities" \in Steps /\ "failed" \in Status
        BY DEF Steps, Status
      <3>2. Updated(i, "entities", "failed")[b][j] =
              IF b = sha /\ j = i /\ rows[sha][i] # Absent
              THEN [rows[sha][i] EXCEPT !["entities"] = "failed"] ELSE rows[b][j]
        BY <3>1, UpdatedIs
      <3>3. QED
        BY <2>1, <2>2, <3>2
    <2>3. QED
      BY <2>1, <2>2 DEF Fits
  <1>16. CASE Retry
    <2>1. UNCHANGED rows /\ sha' = sha /\ stash' \in {stash, NoStash}
      BY <1>16 DEF Retry, Goto, GiveUp, End, Begin
    <2>2. QED
      BY <2>1, NothingFits DEF Fits
  <1>17. CASE Judge
    <2>1. UNCHANGED rows /\ sha' = sha /\ stash' \in {stash, NoStash}
      BY <1>17 DEF Judge, Goto, GiveUp, End, Begin
    <2>2. QED
      BY <2>1, NothingFits DEF Fits
  <1>18. CASE Refuse
    <2>1. UNCHANGED rows /\ sha' = sha /\ stash' \in {stash, NoStash}
      BY <1>18 DEF Refuse, Goto, GiveUp, End, Begin
    <2>2. QED
      BY <2>1, NothingFits DEF Fits
  <1>19. CASE Accept
    <2>1. UNCHANGED rows /\ sha' = sha /\ stash' \in {stash, NoStash}
      BY <1>19 DEF Accept, Goto, GiveUp, End, Begin
    <2>2. QED
      BY <2>1, NothingFits DEF Fits
  <1>20. CASE Stage
    <2>1. UNCHANGED rows /\ sha' = sha /\ stash' \in {stash, NoStash}
      BY <1>20 DEF Stage, Goto, GiveUp, End, Begin
    <2>2. QED
      BY <2>1, NothingFits DEF Fits
  <1>21. CASE RefuseEmpty
    <2>1. UNCHANGED rows /\ sha' = sha /\ stash' \in {stash, NoStash}
      BY <1>21 DEF RefuseEmpty, Goto, GiveUp, End, Begin
    <2>2. QED
      BY <2>1, NothingFits DEF Fits
  <1>22. CASE Discard
    <2>1. UNCHANGED rows /\ sha' = sha /\ stash' \in {stash, NoStash}
      BY <1>22 DEF Discard, Goto, GiveUp, End, Begin
    <2>2. QED
      BY <2>1, NothingFits DEF Fits
  <1>23. CASE PutBack
    <2>1. UNCHANGED rows /\ sha' = sha /\ stash' \in {stash, NoStash}
      BY <1>23 DEF PutBack, Goto, GiveUp, End, Begin
    <2>2. QED
      BY <2>1, NothingFits DEF Fits
  <1>24. CASE Relist
    <2>1. /\ \A b \in Bodies, j \in Seqs : rows'[b][j] = IF b = sha THEN stash.rows[j] ELSE rows[b][j]
          /\ stash' = NoStash /\ sha' = sha
      BY <1>24 DEF Relist, End
    <2>2. QED
      BY <2>1, NothingFits DEF Fits
  <1>25. CASE Interrupt
    <2>1. UNCHANGED rows /\ sha' = sha /\ stash' \in {stash, NoStash}
      BY <1>25 DEF Interrupt, Goto, GiveUp, End, Begin
    <2>2. QED
      BY <2>1, NothingFits DEF Fits
  <1>26. CASE RaiseOutside
    <2>1. UNCHANGED rows /\ sha' = sha /\ stash' \in {stash, NoStash}
      BY <1>26 DEF RaiseOutside, Goto, GiveUp, End, Begin
    <2>2. QED
      BY <2>1, NothingFits DEF Fits
  <1>27. CASE Crash
    <2>1. UNCHANGED rows /\ sha' = sha /\ stash' \in {stash, NoStash}
      BY <1>27 DEF Crash, Goto, GiveUp, End, Begin
    <2>2. QED
      BY <2>1, NothingFits DEF Fits
  <1>28. CASE UNCHANGED vars
    BY <1>28 DEF vars, Fits
  <1>29. QED
    BY <1>1, <1>2, <1>3, <1>4, <1>5, <1>6, <1>7, <1>8, <1>9, <1>10, <1>11,
       <1>12, <1>13, <1>13a, <1>14, <1>15, <1>16, <1>17, <1>18, <1>19, <1>20, <1>21,
       <1>22, <1>23, <1>24, <1>25, <1>26, <1>27, <1>28
    DEF Next

(* Every step keeps Clearing.                                              *)
LEMMA ClearingStep ==
    ASSUME ~EditWhile, Shapes, Threads, Sorts, Following, RowsKnown, Fitting, Clearing, [Next]_vars
    PROVE  Clearing'
  <1> USE DEF note, run, aux, Clearing
  <1>1. CASE Edit
    BY <1>1 DEF Edit, ChunkCount, InPass
  <1>2. ASSUME NEW s \in Sizes, Ingest(s) PROVE Clearing'
    <2>1. pc' \notin {"pass1", "pass2", "judge", "merge", "discard", "putback", "relist"}
      BY <1>2 DEF Ingest, Begin, Goto
    <2>2. QED
      BY <2>1 DEF InPass
  <1>3. ASSUME NEW s \in Sizes, Reextract(s) PROVE Clearing'
    <2>1. pc' \notin {"pass1", "pass2", "judge", "merge", "discard", "putback", "relist"}
      BY <1>3 DEF Reextract, Begin, Goto
    <2>2. QED
      BY <2>1 DEF InPass
  <1>4. ASSUME NEW s \in Sizes, ExtractKg(s) PROVE Clearing'
    <2>1. pc' \notin {"pass1", "pass2", "judge", "merge", "discard", "putback", "relist"}
      BY <1>4 DEF ExtractKg, Begin, Goto
    <2>2. QED
      BY <2>1 DEF InPass
  <1>5. ASSUME NEW s \in Sizes, RedoProperties(s) PROVE Clearing'
    <2>1. pc' \notin {"pass1", "pass2", "judge", "merge", "discard", "putback", "relist"}
      BY <1>5 DEF RedoProperties, Begin, Goto
    <2>2. QED
      BY <2>1 DEF InPass
  <1>6. CASE SplitNote
    <2>1. pc' \notin {"pass1", "pass2", "judge", "merge", "discard", "putback", "relist"}
      BY <1>6 DEF SplitNote, Begin, Goto
    <2>2. QED
      BY <2>1 DEF InPass
  <1>7. CASE StampSplit
    <2>1. pc' \notin {"pass1", "pass2", "judge", "merge", "discard", "putback", "relist"}
      BY <1>7 DEF StampSplit, Begin, Goto
    <2>2. QED
      BY <2>1 DEF InPass
  <1>8. CASE CheckChunks
    <2>1. pc' \notin {"pass1", "pass2", "judge", "merge", "discard", "putback", "relist"}
      BY <1>8 DEF CheckChunks, Begin, Goto
    <2>2. QED
      BY <2>1 DEF InPass
  <1>9. CASE ForgetRows
    <2>1. pc' \notin {"pass1", "pass2", "judge", "merge", "discard", "putback", "relist"}
      BY <1>9 DEF ForgetRows, Begin, Goto
    <2>2. QED
      BY <2>1 DEF InPass
  <1>10. CASE SetAside
    <2>1. pc' \notin {"pass1", "pass2", "judge", "merge", "discard", "putback", "relist"}
      BY <1>10 DEF SetAside, Begin, Goto
    <2>2. QED
      BY <2>1 DEF InPass
  <1>11. CASE Prepare
    <2>1. /\ pc = "prepare" /\ pc' = "pass1" /\ todo' = 1..ChunkCount /\ statuses' = Prepared
          /\ rows' = [rows EXCEPT ![sha] = Prepared] /\ UNCHANGED <<sha, thread, cut>>
      BY <1>11 DEF Prepare, Goto
    <2>2. rows'[sha] = Prepared /\ statuses' = rows'[sha]
      BY <2>1 DEF Shapes, Places, RowsShape
    <2>3. \A i \in Seqs : thread[i].at = "idle"
      BY <2>1 DEF Threads
    <2>4. ASSUME NEW i \in Seqs, i \notin 1..ChunkCount PROVE Over(rows'[sha][i])
      <3>1. cut.of = sha /\ cut.of # 0 /\ cut.size \in Sizes
        BY <2>1 DEF Following, Checked, Points, Sorts, CutType, HasCut
      <3>2. i > ChunkCount
        BY <2>4, <3>1, Counted, BoundsAssumption DEF Sorts, Seqs
      <3>3. Fits(sha, rows[sha]) /\ ChunkCount = Count(sha, cut.size) /\ ChunkCount \in Nat
        BY <3>1, Counted DEF Fitting, ChunkCount, Shapes, Places, Sorts
      <3>4. ~(i <= ChunkCount) /\ rows[sha][i] = Absent
        <4>1. ~(i <= ChunkCount)
          BY <3>2, <3>3 DEF Seqs
        <4>2. rows[sha][i] # Absent => i <= Count(sha, cut.size)
          BY <3>1, <3>3 DEF Fits
        <4>3. QED
          BY <3>3, <4>1, <4>2
      <3>5. Prepared[i] = Absent
        BY <3>4 DEF Prepared
      <3>6. QED
        BY <2>2, <3>5 DEF Over, Absent
    <2>5. QED
      BY <2>1, <2>2, <2>3, <2>4 DEF ChunkCount, InPass
  <1>12. ASSUME NEW i \in Seqs, AskChunk(i) PROVE Clearing'
    <2>1. /\ UNCHANGED <<pc, cut, sha, rows, statuses>> /\ InPass /\ todo' = todo \ {i} /\ i \in todo
          /\ (clean' => clean)
      BY <1>12 DEF AskChunk, Next1
    <2>2. PICK e \in {"failed", "none", "some"}, p \in {"failed", "ok"}, r \in {"failed", "ok"} :
            thread' = [thread EXCEPT ![i] = Asked(i, e, p, r)] /\ clean' = (clean /\ Failures(thread'[i].marks) = {})
      BY <1>12 DEF AskChunk
    <2>3. CutType /\ DataType /\ cut.of # 0 /\ DOMAIN thread = Seqs /\ Asked(i, e, p, r).at = "asked"
      <3>1. CutType /\ DataType
        BY DEF Sorts
      <3>2. cut.of # 0
        BY <2>1, <3>1 DEF CutType, HasCut, InPass
      <3>3. DOMAIN thread = Seqs
        BY DEF Shapes, ThreadShape
      <3>4. Asked(i, e, p, r).at = "asked"
        BY AskedIsGood
      <3>5. QED
        BY <3>1, <3>2, <3>3, <3>4
    <2>4. thread'[i] = Asked(i, e, p, r) /\ \A j \in Seqs \ {i} : thread'[j] = thread[j]
      BY <2>2, <2>3
    <2>5. ASSUME clean' PROVE i \in 1..ChunkCount /\ Closes(rows[sha][i], thread'[i].marks)
      <3> DEFINE A == Asked(i, e, p, r)
                 row == rows[sha][i]
                 em == IF statuses[i]["entities"] = "ok" THEN "kept" ELSE IF e = "failed" THEN "failed" ELSE "ok"
                 has == em # "failed" /\ A.data.entities = "some"
                 pm == Depends(i, "properties", has, p)
                 rm == Depends(i, "relationships", has, r)
      <3>1. i \in 1..ChunkCount /\ statuses[i] = row
        BY <2>1, <2>5
      <3>2. em \in Outcomes \ {"skipped"} /\ pm \in Outcomes /\ rm \in Outcomes /\ Lists(A.marks, em, pm, rm)
        BY <2>3, AskedIs
      <3>3. Failures(A.marks) = {}
        BY <2>2, <2>4, <2>5
      <3>4. em = "kept" => row["entities"] = "ok"
        BY <3>1
      <3>5. (pm = "kept" => row["properties"] = "ok") /\ (rm = "kept" => row["relationships"] = "ok")
        BY <3>1 DEF Depends
      <3>6. row \in [Steps -> Status]
        BY DEF Shapes, Places, RowsShape
      <3> HIDE DEF A, row, em, pm, rm
      <3>7. Closes(row, A.marks)
        BY <3>2, <3>3, <3>4, <3>5, <3>6, AskedCloses
      <3>8. QED
        BY <2>4, <3>1, <3>7 DEF A, row
    <2>6. thread'[i].at = "asked"
      BY <2>3, <2>4
    <2>7. QED
      BY <2>1, <2>4, <2>5, <2>6 DEF ChunkCount, InPass
  <1>13. ASSUME NEW i \in Seqs, WriteChunk(i) PROVE Clearing'
    <2>1. /\ UNCHANGED <<pc, cut, sha, rows, todo, statuses, clean>> /\ thread[i].at = "asked"
          /\ thread'[i].at = "marking" /\ thread'[i].marks = thread[i].marks
          /\ \A j \in Seqs \ {i} : thread'[j] = thread[j]
      BY <1>13 DEF WriteChunk, Shapes, ThreadShape
    <2>2. InPass
      BY <2>1 DEF Threads, InPass
    <2>3. QED
      BY <2>1, <2>2 DEF ChunkCount, InPass
  <1>13a. ASSUME NEW i \in Seqs, Truncate(i) PROVE Clearing'
    <2>1. UNCHANGED <<pc, cut, sha, rows, todo, statuses, clean, thread>>
      BY <1>13a DEF Truncate
    <2>2. QED
      BY <2>1 DEF ChunkCount, InPass
  <1>14. ASSUME NEW i \in Seqs, MarkStep(i) PROVE Clearing'
    <2> DEFINE M == thread[i].marks
    <2>1. UNCHANGED <<pc, cut, sha, todo, statuses, clean>> /\ thread[i].at = "marking"
      BY <1>14 DEF MarkStep
    <2>2. /\ InPass /\ sha \in Bodies /\ Places /\ RowsShape /\ DOMAIN thread = Seqs
          /\ DOMAIN thread[i] = {"at", "data", "marks"} /\ M \in Seq(Steps \X Status)
          /\ rows[sha][i] \in [Steps -> Status]
      BY <2>1 DEF Shapes, Places, RowsShape, ThreadShape, Threads, InPass
    <2>3. CASE ~clean
      BY <2>1, <2>3
    <2>4. CASE clean /\ M = <<>>
      <3>1. UNCHANGED rows /\ thread' = [thread EXCEPT ![i] = Idle]
        BY <1>14, <2>4 DEF MarkStep
      <3>2. thread'[i].at = "idle" /\ \A j \in Seqs \ {i} : thread'[j] = thread[j]
        BY <2>2, <3>1 DEF Idle
      <3>3. Over(rows[sha][i])
        BY <2>1, <2>2, <2>4, ClosesOver
      <3>4. QED
        BY <2>1, <2>2, <2>4, <3>1, <3>2, <3>3 DEF ChunkCount, InPass
    <2>5. CASE clean /\ M # <<>>
      <3> DEFINE new == [rows[sha][i] EXCEPT ![M[1][1]] = M[1][2]]
      <3>1. M[1] \in Steps \X Status
        BY <2>2, <2>5
      <3>2. PICK x \in Steps, y \in Status : x = M[1][1] /\ y = M[1][2]
        BY <3>1
      <3>3. /\ rows' = Updated(i, x, y)
            /\ thread' = [thread EXCEPT ![i] = IF Len(M) = 1 THEN Idle ELSE [thread[i] EXCEPT !.marks = Tail(M)]]
        BY <1>14, <2>5, <3>2 DEF MarkStep
      <3>4. i \in 1..ChunkCount /\ Closes(rows[sha][i], M) /\ rows[sha][i] # Absent
        BY <2>1, <2>2, <2>5 DEF RowsKnown, Working, InPass
      <3>5. Closes(new, Tail(M))
        BY <2>2, <2>5, <3>4, ClosesTail
      <3>6. \A j \in Seqs : rows'[sha][j] = IF j = i THEN new ELSE rows[sha][j]
        <4> TAKE j \in Seqs
        <4>1. Updated(i, x, y)[sha][j] = IF sha = sha /\ j = i /\ rows[sha][i] # Absent
                THEN [rows[sha][i] EXCEPT ![x] = y] ELSE rows[sha][j]
          BY <2>2, UpdatedIs
        <4>2. QED
          BY <3>2, <3>3, <3>4, <4>1
      <3>7. \A j \in Seqs \ {i} : thread'[j] = thread[j]
        BY <2>2, <3>3
      <3> HIDE DEF new
      <3>8. thread'[i].at = "idle" \/ (thread'[i].at # "idle" /\ thread'[i].marks = Tail(M))
        BY <2>1, <2>2, <3>3 DEF Idle
      <3>9. thread'[i].at = "idle" => Over(new)
        <4>1. CASE Len(M) = 1
          <5>1. Tail(M) \in Seq(Steps \X Status) /\ Len(Tail(M)) = 0
            BY <2>2, <2>5, <4>1, HeadTailProperties
          <5>2. QED
            BY <3>5, <5>1, EmptySeq, ClosesOver
        <4>2. CASE Len(M) # 1
          BY <2>1, <2>2, <3>3, <4>2
        <4>3. QED
          BY <4>1, <4>2
      <3>10. i \notin todo
        BY <2>1, <2>2, <2>5
      <3>11. QED
        BY <2>1, <2>2, <2>5, <3>4, <3>5, <3>6, <3>7, <3>8, <3>9, <3>10 DEF ChunkCount, InPass
    <2>6. QED
      BY <2>3, <2>4, <2>5
  <1>15. ASSUME NEW i \in Seqs, RaiseChunk(i) PROVE Clearing'
    <2>1. InPass /\ (clean' => clean /\ i > ChunkCount) /\ (thread[i].at # "idle" \/ i \in todo)
      BY <1>15 DEF RaiseChunk, Busy, Next1
    <2>2. cut.of # 0 /\ ChunkCount \in 1..MaxChunks
      BY <2>1, Counted DEF Sorts, CutType, HasCut, InPass
    <2>3. clean => i \in 1..ChunkCount
      BY <2>1
    <2>4. ~clean'
      BY <2>1, <2>2, <2>3 DEF Seqs
    <2>5. QED
      BY <2>4
  <1>16. CASE Retry
    <2>1. /\ pc = "pass1" /\ pc' = "pass2" /\ todo = {} /\ \A i \in Seqs : thread[i].at = "idle"
          /\ UNCHANGED <<rows, sha, clean, thread, cut>> /\ todo' = Incomplete(rows[sha])
      BY <1>16 DEF Retry, Goto, PassOver, Busy
    <2>2. clean => \A i \in Seqs : Over(rows[sha][i])
      BY <2>1 DEF InPass
    <2>3. clean => todo' = {}
      BY <2>1, <2>2, OverIs
    <2>4. QED
      BY <2>1, <2>2, <2>3 DEF InPass
  <1>17. CASE Judge
    <2>1. /\ pc = "pass2" /\ pc' = "judge" /\ todo = {} /\ \A i \in Seqs : thread[i].at = "idle"
          /\ UNCHANGED <<rows, sha, clean>>
      BY <1>17 DEF Judge, Goto, PassOver, Busy
    <2>2. QED
      BY <2>1 DEF InPass
  <1>18. CASE Refuse
    <2>1. ~clean
      BY <1>18, OverIs DEF Refuse
    <2>2. QED
      BY <1>18, <2>1 DEF Refuse, InPass
  <1>19. CASE Accept
    BY <1>19 DEF Accept, Goto, InPass
  <1>20. CASE Stage
    <2>1. pc' = "idle"
      BY <1>20 DEF Stage, End
    <2>2. QED
      BY <2>1 DEF InPass
  <1>21. CASE RefuseEmpty
    BY <1>21 DEF RefuseEmpty
  <1>22. CASE Discard
    <2>1. ~clean
      BY <1>22 DEF Discard
    <2>2. QED
      BY <1>22, <2>1 DEF Discard
  <1>23. CASE PutBack
    <2>1. ~clean
      BY <1>23 DEF PutBack
    <2>2. QED
      BY <1>23, <2>1 DEF PutBack
  <1>24. CASE Relist
    <2>1. ~clean
      BY <1>24 DEF Relist
    <2>2. QED
      BY <1>24, <2>1 DEF Relist
  <1>25. CASE Interrupt
    BY <1>25 DEF Interrupt
  <1>26. CASE RaiseOutside
    BY <1>26 DEF RaiseOutside
  <1>27. CASE Crash
    BY <1>27 DEF Crash
  <1>28. CASE UNCHANGED vars
    BY <1>28 DEF vars, ChunkCount, InPass
  <1>29. QED
    BY <1>1, <1>2, <1>3, <1>4, <1>5, <1>6, <1>7, <1>8, <1>9, <1>10, <1>11,
       <1>12, <1>13, <1>13a, <1>14, <1>15, <1>16, <1>17, <1>18, <1>19, <1>20, <1>21,
       <1>22, <1>23, <1>24, <1>25, <1>26, <1>27, <1>28
    DEF Next

Clean == pc # "idle" /\ pc' = "idle" /\ clean' => outcome' = "staged"

(* A clean run ends at Stage.                                              *)
LEMMA CleanStep == ASSUME Clearing, [Next]_vars PROVE Clean
  <1> USE DEF note, run, aux, Clean
  <1>1. CASE Edit
    BY <1>1 DEF Edit
  <1>2. ASSUME NEW s \in Sizes, Ingest(s) PROVE Clean
    <2>1. pc' # "idle" \/ pc = "idle" \/ ~clean'
      BY <1>2 DEF Ingest, Begin
    <2>2. QED
      BY <2>1
  <1>3. ASSUME NEW s \in Sizes, Reextract(s) PROVE Clean
    <2>1. pc' # "idle" \/ pc = "idle" \/ ~clean'
      BY <1>3 DEF Reextract, Begin
    <2>2. QED
      BY <2>1
  <1>4. ASSUME NEW s \in Sizes, ExtractKg(s) PROVE Clean
    <2>1. pc' # "idle" \/ pc = "idle" \/ ~clean'
      BY <1>4 DEF ExtractKg, Begin
    <2>2. QED
      BY <2>1
  <1>5. ASSUME NEW s \in Sizes, RedoProperties(s) PROVE Clean
    <2>1. pc' # "idle" \/ pc = "idle" \/ ~clean'
      BY <1>5 DEF RedoProperties, Begin
    <2>2. QED
      BY <2>1
  <1>6. CASE SplitNote
    <2>1. pc' # "idle" \/ pc = "idle" \/ ~clean'
      BY <1>6 DEF SplitNote, Goto
    <2>2. QED
      BY <2>1
  <1>7. CASE StampSplit
    <2>1. pc' # "idle" \/ pc = "idle" \/ ~clean'
      BY <1>7 DEF StampSplit, Goto
    <2>2. QED
      BY <2>1
  <1>8. CASE CheckChunks
    <2>1. pc' # "idle" \/ pc = "idle" \/ ~clean'
      BY <1>8 DEF CheckChunks, Goto
    <2>2. QED
      BY <2>1
  <1>9. CASE ForgetRows
    <2>1. pc' # "idle" \/ pc = "idle" \/ ~clean'
      BY <1>9 DEF ForgetRows, Goto
    <2>2. QED
      BY <2>1
  <1>10. CASE SetAside
    <2>1. pc' # "idle" \/ pc = "idle" \/ ~clean'
      BY <1>10 DEF SetAside, Goto
    <2>2. QED
      BY <2>1
  <1>11. CASE Prepare
    <2>1. pc' # "idle" \/ pc = "idle" \/ ~clean'
      BY <1>11 DEF Prepare, Goto
    <2>2. QED
      BY <2>1
  <1>12. ASSUME NEW i \in Seqs, AskChunk(i) PROVE Clean
    BY <1>12 DEF AskChunk
  <1>13. ASSUME NEW i \in Seqs, WriteChunk(i) PROVE Clean
    BY <1>13 DEF WriteChunk
  <1>13a. ASSUME NEW i \in Seqs, Truncate(i) PROVE Clean
    BY <1>13a DEF Truncate
  <1>14. ASSUME NEW i \in Seqs, MarkStep(i) PROVE Clean
    BY <1>14 DEF MarkStep
  <1>15. ASSUME NEW i \in Seqs, RaiseChunk(i) PROVE Clean
    BY <1>15 DEF RaiseChunk
  <1>16. CASE Retry
    <2>1. pc' # "idle" \/ pc = "idle" \/ ~clean'
      BY <1>16 DEF Retry, Goto
    <2>2. QED
      BY <2>1
  <1>17. CASE Judge
    <2>1. pc' # "idle" \/ pc = "idle" \/ ~clean'
      BY <1>17 DEF Judge, Goto
    <2>2. QED
      BY <2>1
  <1>18. CASE Refuse
    <2>1. ~clean /\ clean' = clean
      BY <1>18, OverIs DEF Refuse, Clearing
    <2>2. QED
      BY <2>1
  <1>19. CASE Accept
    <2>1. pc' # "idle" \/ pc = "idle" \/ ~clean'
      BY <1>19 DEF Accept, Goto
    <2>2. QED
      BY <2>1
  <1>20. CASE Stage
    BY <1>20 DEF Stage, End
  <1>21. CASE RefuseEmpty
    <2>1. pc' # "idle" \/ pc = "idle" \/ ~clean'
      BY <1>21 DEF RefuseEmpty
    <2>2. QED
      BY <2>1
  <1>22. CASE Discard
    <2>1. pc' # "idle" \/ pc = "idle" \/ ~clean'
      BY <1>22 DEF Discard, Goto
    <2>2. QED
      BY <2>1
  <1>23. CASE PutBack
    <2>1. pc' # "idle" \/ pc = "idle" \/ ~clean'
      BY <1>23 DEF PutBack, Goto
    <2>2. QED
      BY <2>1
  <1>24. CASE Relist
    <2>1. ~clean /\ clean' = clean
      BY <1>24 DEF Relist, Clearing
    <2>2. QED
      BY <2>1
  <1>25. CASE Interrupt
    <2>1. pc' # "idle" \/ pc = "idle" \/ ~clean'
      BY <1>25 DEF Interrupt
    <2>2. QED
      BY <2>1
  <1>26. CASE RaiseOutside
    <2>1. pc' # "idle" \/ pc = "idle" \/ ~clean'
      BY <1>26 DEF RaiseOutside
    <2>2. QED
      BY <2>1
  <1>27. CASE Crash
    <2>1. pc' # "idle" \/ pc = "idle" \/ ~clean'
      BY <1>27 DEF Crash
    <2>2. QED
      BY <2>1
  <1>28. CASE UNCHANGED vars
    BY <1>28 DEF vars
  <1>29. QED
    BY <1>1, <1>2, <1>3, <1>4, <1>5, <1>6, <1>7, <1>8, <1>9, <1>10, <1>11,
       <1>12, <1>13, <1>13a, <1>14, <1>15, <1>16, <1>17, <1>18, <1>19, <1>20, <1>21,
       <1>22, <1>23, <1>24, <1>25, <1>26, <1>27, <1>28
    DEF Next

(* ingest.py:274-286.  A run none of whose calls fails is staged: whatever *)
(* rows, answers and stashes earlier runs left behind, failed, raised or   *)
(* died, in the middle of a restore too, nothing of it is in its way.      *)
THEOREM CleanIsStaged == ASSUME ~EditWhile, OneSize PROVE Spec => CleanRunIsStaged
  <1> DEFINE Inv == Stands /\ RowsKnown /\ Fitting /\ Clearing
  <1>1. Init => Inv
    <2> SUFFICES ASSUME Init PROVE Inv
      OBVIOUS
    <2>1. Stands
      BY StandsStarts
    <2>2. RowsKnown
      BY NothingKnown DEF Init, RowsKnown, Working
    <2>3. Fitting
      BY NothingFits DEF Init, Fitting, Fits
    <2>4. Clearing
      BY DEF Init, Clearing, InPass
    <2>5. QED
      BY <2>1, <2>2, <2>3, <2>4
  <1>2. Inv /\ [Next]_vars => Inv'
    BY StandsStep, RowsKnownStep, FittingStep, ClearingStep DEF Stands, Always
  <1>3. Inv /\ [Next]_vars => [Clean]_vars
    BY CleanStep
  <1> HIDE DEF Inv
  <1>4. QED
    BY <1>1, <1>2, <1>3, PTL DEF Spec, CleanRunIsStaged, Clean
=============================================================================
