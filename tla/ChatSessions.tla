---------------------------- MODULE ChatSessions ----------------------------
(***************************************************************************)
(* One conversation of the chat web UI: the turns posted to it             *)
(* (webui/app.py), the registry of live agents with its one lock           *)
(* (webui/sessions.py), the two agent backends (webui/backends/acp.py and  *)
(* claude_sdk.py) and the stored turns (conversations/store.py).           *)
(*                                                                         *)
(* A turn claims the conversation, records itself, gets an agent from the  *)
(* registry, tells a new agent the stored history, delivers the prompt and *)
(* streams what the agent says until the agent ends the turn.  The browser *)
(* may leave at any await that is not shielded.  Around it other tabs      *)
(* close, refresh and delete the conversation, the registry sweeps idle    *)
(* agents, other conversations hold the registry's lock, an agent dies     *)
(* and the server restarts.                                                *)
(*                                                                         *)
(* An agent is named by the request whose turn created it.  What it writes *)
(* waits in a queue, each item labelled with the turn it belongs to; the   *)
(* code has no such label, which is what OwnEventsOnly is about.  All      *)
(* prompts, answers and block contents are abstracted to those labels.     *)
(***************************************************************************)
EXTENDS Naturals, FiniteSets, Sequences, SequencesExt

CONSTANTS Requests,     \* the POSTs to /api/chat of this conversation
          BackendOf,    \* the backend each of them asks for: "acp" or "claude-sdk"
          NoOne,        \* the claim's and the registry's "absent"
          LeaveAt,      \* the points at which a browser may leave
          FailAt,       \* the steps that may fail
          LongTurns,    \* whether a turn may outlast IDLE_TIMEOUT_S
          CutShort,     \* whether an agent may outlive a disconnect() that is cut short
          LateOutput,   \* whether an SDK agent may have background tasks, and a
                        \* turn that waits for them may give up
          MaxOps,       \* bound: operations of other tabs, sweeps, other conversations
          MaxFaults     \* bound: failures of FailAt, agent deaths, server restarts

Ops == {"close", "refresh", "delete", "sweep", "other"}
Leaving == {"start", "queued", "connecting", "replay", "deliver", "query", "stream", "end"}
Failing == {"record", "connect", "replay", "drop", "finish", "refresh", "delete",
            "agent", "server", "sweep_running"}

ASSUME ChatAssumption ==
    /\ BackendOf \in [Requests -> {"acp", "claude-sdk"}]
    /\ NoOne \notin Requests /\ NoOne \notin Ops /\ Requests \cap Ops = {}
    /\ LeaveAt \subseteq Leaving /\ FailAt \subseteq Failing
    /\ LongTurns \in BOOLEAN /\ CutShort \in BOOLEAN /\ LateOutput \in BOOLEAN
    /\ MaxOps \in Nat /\ MaxFaults \in Nat

VARIABLES claim,      \* in_flight: the turn, or the deletion, that owns the conversation
          lockq,      \* SessionRegistry._lock: its head holds it, the rest wait in order
          opc,        \* where each operation stands
          reg,        \* SessionRegistry._sessions: the agent of this conversation
          stale,      \* its last_used lies more than IDLE_TIMEOUT_S back
          client,     \* the agents
          rows,       \* conversation_turns, in seq order
          pc, mine,   \* where each turn stands, and the locals of its stream()
          ops, faults,
          heard,      \* whose events each turn has passed on to its browser
          spoiled,    \* agents that a timed-out drop left registered
          unwritten,  \* turns whose row the database refused to finish
          deleted     \* turns of a deleted conversation

vars == <<claim, lockq, opc, reg, stale, client, rows, pc, mine, ops, faults,
          heard, spoiled, unwritten, deleted>>
ghosts == <<heard, spoiled, unwritten, deleted>>

-----------------------------------------------------------------------------
\* The registry's lock.

Holds(x) == lockq # <<>> /\ Head(lockq) = x
Enqueue(x) == lockq' = Append(lockq, x)
Release == lockq' = Tail(lockq)
Without(q, x) == RemoveAt(q, CHOOSE i \in DOMAIN q : q[i] = x)

\* A failure the run allows at this point.
Fault(at) == at \in FailAt /\ faults < MaxFaults /\ faults' = faults + 1

-----------------------------------------------------------------------------
\* Agents.

NoAgent == [at |-> "none", pend |-> <<>>, queue |-> <<>>, knows |-> {}, refreshed |-> FALSE]
Item(r, what) == [of |-> r, what |-> what]
IsAcp(c) == BackendOf[c] = "acp"

\* disconnect(): the process goes, and with it ACP's turn task, so no end of
\* turn is written for what was under way.
Disconnected(cs, c) ==
    IF c = NoOne THEN cs ELSE [cs EXCEPT ![c] = [cs[c] EXCEPT !.at = "gone", !.pend = <<>>]]

\* disconnect() in a task that is cancelled stops at its first await: the pipe
\* is closed, terminate() and kill() are not reached.  The process goes by
\* itself or stays, a stray that nothing refers to.
Abandon(c) ==
    \E at \in {"gone"} \cup {x \in {"stray"} : CutShort /\ client[c].at \in {"up", "starting"}} :
        client' = [client EXCEPT ![c] = [client[c] EXCEPT !.at = at, !.pend = <<>>]]

\* How a turn ends in the queue.  ACP: turn_done, then the _TURN_END mark that
\* receive_events() stops at.  Claude SDK: the result itself stops it.
Ending(c, r) ==
    IF IsAcp(c) THEN <<Item(r, "done"), Item(r, "end")>> ELSE <<Item(r, "done")>>

\* What an agent can write before it ends its turn: text, and on the SDK the
\* start of a background task, alone or with the result of a first reply that
\* is not the last ("reply": a result read while tasks run is held back).
Parts(c) == {"text"} \cup {x \in {"task", "reply"} : LateOutput /\ ~IsAcp(c)}

\* The agent writes part of its answer.
Say(c) ==
    LET p == client[c].pend IN
    /\ client[c].at = "up" /\ p # <<>> /\ ~p[1].said
    /\ \E part \in Parts(c) :
          client' = [client EXCEPT ![c] =
                        [client[c] EXCEPT !.queue = Append(@, Item(p[1].of, part)),
                                          !.pend[1].said = TRUE]]
    /\ UNCHANGED <<claim, lockq, opc, reg, stale, rows, pc, mine, ops, faults, ghosts>>

\* ... and ends its turn; for an agent that died its read loop has failed the
\* prompt, which then ends with an error.  A prompt whose future was withdrawn
\* (quiet) has nobody to resolve, so no end of turn is written for it.
Answer(c) ==
    LET p == client[c].pend IN
    /\ p # <<>>
    /\ client[c].at = "dead" \/ (client[c].at = "up" /\ p[1].said)
    /\ client' = [client EXCEPT ![c] =
                    [client[c] EXCEPT !.pend = Tail(@),
                                      !.queue = IF p[1].quiet THEN @
                                                ELSE IF client[c].at = "up" THEN @ \o Ending(c, p[1].of)
                                                ELSE @ \o <<Item(p[1].of, "failed")>> \o Ending(c, p[1].of)]]
    /\ UNCHANGED <<claim, lockq, opc, reg, stale, rows, pc, mine, ops, faults, ghosts>>

\* Seeded fault: the pending prompts of a dead process are not failed.
DiesSilently(c) ==
    /\ client[c].at = "up" /\ Fault("agent")
    /\ client' = [client EXCEPT ![c] = [client[c] EXCEPT !.at = "dead", !.pend = <<>>]]
    /\ UNCHANGED <<claim, lockq, opc, reg, stale, rows, pc, mine, ops, ghosts>>

\* The process dies.  ACP's pending prompts fail, each in its own time; the
\* SDK's stream just ends.
Dies(c) ==
    /\ client[c].at = "up" /\ Fault("agent")
    /\ client' = [client EXCEPT ![c] = [client[c] EXCEPT !.at = "dead",
                                                         !.pend = IF IsAcp(c) THEN @ ELSE <<>>]]
    /\ UNCHANGED <<claim, lockq, opc, reg, stale, rows, pc, mine, ops, ghosts>>

-----------------------------------------------------------------------------
\* A turn: POST /api/chat.

NewTurn == [row |-> 0, on |-> NoOne, fresh |-> FALSE, told |-> {}, delivered |-> FALSE,
            completed |-> FALSE, waits |-> "no", unsure |-> FALSE, error |-> "none"]

DoneTurns == {rows[i].by : i \in {j \in DOMAIN rows : rows[j].status = "done"}}

Go(r, at) == pc' = [pc EXCEPT ![r] = at]

\* Checked and claimed without an await in between; a POST that finds the
\* conversation claimed gets 409 and changes nothing.
Post(r) ==
    /\ pc[r] = "idle" /\ claim = NoOne
    /\ claim' = r /\ Go(r, "start")
    /\ UNCHANGED <<lockq, opc, reg, stale, client, rows, mine, ops, faults, ghosts>>

\* ConversationRecorder.start, shielded, then straight on to the registry's
\* lock.  A database that fails only disables the recording.
Record(r) ==
    /\ pc[r] = "start"
    /\ \/ /\ rows' = Append(rows, [by |-> r, status |-> "running"])
          /\ mine' = [mine EXCEPT ![r].row = Len(rows) + 1]
          /\ UNCHANGED faults
       \/ Fault("record") /\ UNCHANGED <<rows, mine>>
    /\ Enqueue(r) /\ Go(r, "queued")
    /\ UNCHANGED <<claim, opc, reg, stale, client, ops, ghosts>>

Reusable(r) == reg # NoOne /\ BackendOf[reg] = BackendOf[r]

\* get_or_create finds the conversation's agent.
Reuse(r) ==
    /\ pc[r] = "queued" /\ Holds(r) /\ Reusable(r)
    /\ mine' = [mine EXCEPT ![r].on = reg]
    /\ stale' = FALSE /\ Release /\ Go(r, "deliver")
    /\ UNCHANGED <<claim, opc, reg, client, rows, ops, faults, ghosts>>

\* get_or_create finds none, or one of the other backend, which it removes.
Connect(r) ==
    /\ pc[r] = "queued" /\ Holds(r) /\ ~Reusable(r)
    /\ client' = [Disconnected(client, reg) EXCEPT ![r].at = "starting"]
    /\ reg' = NoOne /\ stale' = FALSE /\ Go(r, "connecting")
    /\ UNCHANGED <<claim, lockq, opc, rows, mine, ops, faults, ghosts>>

Connected(r) ==
    /\ pc[r] = "connecting"
    /\ client' = [client EXCEPT ![r].at = "up"]
    /\ reg' = r /\ Release
    /\ mine' = [mine EXCEPT ![r] = [mine[r] EXCEPT !.on = r, !.fresh = TRUE]] /\ Go(r, "replay")
    /\ UNCHANGED <<claim, opc, stale, rows, ops, faults, ghosts>>

ConnectFails(r) ==
    /\ pc[r] = "connecting" /\ Fault("connect")
    /\ client' = Disconnected(client, r) /\ Release
    /\ mine' = [mine EXCEPT ![r].error = "error"] /\ Go(r, "closing")
    /\ UNCHANGED <<claim, opc, reg, stale, rows, ops, ghosts>>

\* A fresh agent is told the turns that were answered.
Replay(r) ==
    /\ pc[r] = "replay"
    /\ \/ mine' = [mine EXCEPT ![r].told = DoneTurns] /\ UNCHANGED faults
       \/ Fault("replay") /\ mine' = [mine EXCEPT ![r].unsure = TRUE]
    /\ Go(r, "deliver")
    /\ UNCHANGED <<claim, lockq, opc, reg, stale, client, rows, ops, ghosts>>

Prompt(r, quiet) == [of |-> r, said |-> FALSE, quiet |-> quiet]
Sent(r, quiet) ==
    [client EXCEPT ![mine[r].on] = [client[mine[r].on] EXCEPT !.pend = Append(@, Prompt(r, quiet)),
                                                              !.knows = @ \cup mine[r].told \cup {r}]]

\* client.query(): raises when the agent is not there.
Deliver(r) ==
    /\ pc[r] = "deliver"
    /\ IF client[mine[r].on].at = "up"
       THEN /\ client' = Sent(r, FALSE)
            /\ mine' = [mine EXCEPT ![r].delivered = TRUE] /\ Go(r, "stream")
       ELSE /\ mine' = [mine EXCEPT ![r].error = "error"] /\ Go(r, "closing")
            /\ UNCHANGED client
    /\ UNCHANGED <<claim, lockq, opc, reg, stale, rows, ops, faults, ghosts>>

\* The next event of the agent, whoever's it is, is observed and passed on.
Receive(r) ==
    LET c == mine[r].on
        e == Head(client[c].queue)
    IN
    /\ pc[r] = "stream" /\ client[c].queue # <<>>
    /\ client' = [client EXCEPT ![c].queue = Tail(@)]
    /\ heard' = [heard EXCEPT ![r] = @ \cup {e.of}]
    /\ mine' = [mine EXCEPT ![r] =
                   [mine[r] EXCEPT !.completed = @ \/ e.what = "done",
                                   !.waits = IF e.what \in {"task", "reply"} THEN e.what ELSE @,
                                   !.error = IF e.what = "failed" THEN "error" ELSE @]]
    /\ IF e.what = "end" \/ (e.what = "done" /\ ~IsAcp(c)) THEN Go(r, "closing")
                                                           ELSE UNCHANGED pc
    /\ UNCHANGED <<claim, lockq, opc, reg, stale, rows, ops, faults, spoiled, unwritten, deleted>>

\* A wait that is over without the last result passes on the turn_done of the
\* reply it held back, if there was one.
Settled(r) == mine[r].completed \/ mine[r].waits = "reply"

\* The SDK's message stream ends with its process, with an error or without.
StreamBreaks(r) ==
    LET c == mine[r].on IN
    /\ pc[r] = "stream" /\ ~IsAcp(c)
    /\ client[c].at # "up" /\ client[c].queue = <<>>
    /\ \/ mine' = [mine EXCEPT ![r].error = "error"]
       \/ mine' = [mine EXCEPT ![r].completed = Settled(r)]
    /\ Go(r, "closing")
    /\ UNCHANGED <<claim, lockq, opc, reg, stale, client, rows, ops, faults, ghosts>>

\* Nothing came for TASK_IDLE_TIMEOUT_S with tasks running, or for
\* TASK_FOLLOWUP_GRACE_S after them: the turn ends, the agent is not told, and
\* what it writes later waits in its queue.
GivesUp(r) ==
    LET c == mine[r].on IN
    /\ LateOutput /\ pc[r] = "stream" /\ mine[r].waits # "no"
    /\ client[c].at = "up" /\ client[c].queue = <<>>
    /\ mine' = [mine EXCEPT ![r].completed = Settled(r)]
    /\ Go(r, "closing")
    /\ UNCHANGED <<claim, lockq, opc, reg, stale, client, rows, ops, faults, ghosts>>

-----------------------------------------------------------------------------
\* The browser leaves: Starlette cancels the task at its next await.

Interrupted(r) == mine' = [mine EXCEPT ![r].error = "interrupted"] /\ Go(r, "closing")

\* Before the generator started: only on_close runs.
LeaveUnstarted(r) ==
    /\ pc[r] = "start" /\ "start" \in LeaveAt
    /\ claim' = NoOne /\ Go(r, "over")
    /\ UNCHANGED <<lockq, opc, reg, stale, client, rows, mine, ops, faults, ghosts>>

\* Seeded fault: a cancelled connect() gives up the lock but not the process.
LeavesProcess(r) ==
    /\ pc[r] \in {"queued", "connecting"} \cap LeaveAt
    /\ lockq' = Without(lockq, r)
    /\ Interrupted(r)
    /\ UNCHANGED <<claim, opc, reg, stale, client, rows, ops, faults, ghosts>>

\* Seeded fault: a cancelled waiter keeps its place in the lock's queue.
LeavesItsPlace(r) ==
    /\ pc[r] \in {"queued", "connecting"} \cap LeaveAt
    /\ client' = IF pc[r] = "connecting" THEN Disconnected(client, r) ELSE client
    /\ Interrupted(r)
    /\ UNCHANGED <<claim, lockq, opc, reg, stale, rows, ops, faults, ghosts>>

\* While waiting for the lock, or while connecting under it.
LeaveRegistry(r) ==
    /\ pc[r] \in {"queued", "connecting"} \cap LeaveAt
    /\ lockq' = Without(lockq, r)
    /\ IF pc[r] = "connecting" THEN Abandon(r) ELSE UNCHANGED client
    /\ Interrupted(r)
    /\ UNCHANGED <<claim, opc, reg, stale, rows, ops, faults, ghosts>>

\* While the agent of the other backend, no longer registered, is disconnected.
LeaveSwitch(r) ==
    /\ pc[r] = "queued" /\ Holds(r) /\ reg # NoOne /\ ~Reusable(r)
    /\ "connecting" \in LeaveAt
    /\ Abandon(reg) /\ reg' = NoOne /\ stale' = FALSE
    /\ lockq' = Without(lockq, r)
    /\ Interrupted(r)
    /\ UNCHANGED <<claim, opc, rows, ops, faults, ghosts>>

LeavePoint(r) == IF pc[r] = "stream" /\ mine[r].completed THEN "end" ELSE pc[r]

\* With an agent at hand: before the prompt, in mid-answer, or ("end") after
\* turn_done and before the mark that ends the stream.
LeaveAgent(r) ==
    /\ pc[r] \in {"replay", "deliver", "stream"} /\ LeavePoint(r) \in LeaveAt
    /\ Interrupted(r)
    /\ UNCHANGED <<claim, lockq, opc, reg, stale, client, rows, ops, faults, ghosts>>

\* With the prompt on its way: the agent has it, query() has not returned.
LeaveQuery(r) ==
    /\ pc[r] = "deliver" /\ "query" \in LeaveAt /\ client[mine[r].on].at = "up"
    /\ client' = Sent(r, TRUE)
    /\ Interrupted(r)
    /\ UNCHANGED <<claim, lockq, opc, reg, stale, rows, ops, faults, ghosts>>

-----------------------------------------------------------------------------
\* The end of a turn, shielded: drop an unsafe agent, write the row, let go.

\* Seeded faults: an agent in mid-answer is kept; a new one without its replay.
UnsafeUntold(m) == (m.fresh /\ ~m.delivered) \/ m.unsure
UnsafeUnfinished(m) == m.delivered /\ ~m.completed

Unsafe(m) == (m.fresh /\ ~m.delivered) \/ (m.delivered /\ ~m.completed) \/ m.unsure

\* Seeded fault: a cancelled turn is not seen to its end.
ClosingUnlessCancelled(r) ==
    /\ pc[r] = "closing"
    /\ IF mine[r].error = "interrupted" THEN UNCHANGED lockq /\ Go(r, "release")
       ELSE IF Unsafe(mine[r]) THEN Enqueue(r) /\ Go(r, "dropping")
                          ELSE UNCHANGED lockq /\ Go(r, "finish")
    /\ UNCHANGED <<claim, opc, reg, stale, client, rows, mine, ops, faults, ghosts>>

Closing(r) ==
    /\ pc[r] = "closing"
    /\ IF Unsafe(mine[r]) THEN Enqueue(r) /\ Go(r, "dropping")
                          ELSE UNCHANGED lockq /\ Go(r, "finish")
    /\ UNCHANGED <<claim, opc, reg, stale, client, rows, mine, ops, faults, ghosts>>

\* The registered agent leaves the registry and is disconnected.
Evict == client' = Disconnected(client, reg) /\ reg' = NoOne /\ stale' = FALSE

Drop(r) ==
    /\ pc[r] = "dropping" /\ Holds(r)
    /\ Evict /\ Release /\ Go(r, "finish")
    /\ UNCHANGED <<claim, opc, rows, mine, ops, faults, ghosts>>

\* move_on_after(10): the lock was not to be had in time.
DropTimesOut(r) ==
    /\ pc[r] = "dropping" /\ ~Holds(r) /\ Fault("drop")
    /\ lockq' = Without(lockq, r) /\ spoiled' = spoiled \cup ({reg} \ {NoOne})
    /\ Go(r, "finish")
    /\ UNCHANGED <<claim, opc, reg, stale, client, rows, mine, ops, heard, unwritten, deleted>>

\* ... or the agent, out of the registry already, was not gone in time.
DropCutShort(r) ==
    /\ pc[r] = "dropping" /\ Holds(r) /\ reg # NoOne /\ Fault("drop")
    /\ Abandon(reg) /\ reg' = NoOne /\ stale' = FALSE
    /\ Release /\ Go(r, "finish")
    /\ UNCHANGED <<claim, opc, rows, mine, ops, ghosts>>

StatusOf(m) == IF m.error # "none" THEN m.error
               ELSE IF m.completed THEN "done" ELSE "interrupted"

\* conv.finish(): a failing database leaves the row as it is.
Finish(r) ==
    /\ pc[r] = "finish" /\ Go(r, "release")
    /\ \/ /\ rows' = IF mine[r].row \in DOMAIN rows
                     THEN [rows EXCEPT ![mine[r].row].status = StatusOf(mine[r])] ELSE rows
          /\ UNCHANGED <<faults, unwritten>>
       \/ Fault("finish") /\ unwritten' = unwritten \cup {r} /\ UNCHANGED rows
    /\ UNCHANGED <<claim, lockq, opc, reg, stale, client, mine, ops, heard, spoiled, deleted>>

\* The generator ends, and its locals with it.
Unclaim(r) ==
    /\ pc[r] = "release" /\ Go(r, "over")
    /\ claim' = NoOne
    /\ mine' = [mine EXCEPT ![r] = NewTurn] /\ heard' = [heard EXCEPT ![r] = {}]
    /\ UNCHANGED <<lockq, opc, reg, stale, client, rows, ops, faults, spoiled, unwritten, deleted>>

-----------------------------------------------------------------------------
\* Other tabs, the sweep and the other conversations.

At(o, where) == opc' = [opc EXCEPT ![o] = where]
Begin(o) == opc[o] = "idle" /\ ops < MaxOps /\ ops' = ops + 1 /\ Enqueue(o) /\ At(o, "queued")
HasLock(o, where) == opc[o] = where /\ Holds(o)

\* Seeded faults: a close that does not look at the claim; a delete that takes none.
AskCloseAnytime == Begin("close")
                   /\ UNCHANGED <<claim, reg, stale, client, rows, pc, mine, faults, ghosts>>
AskDeleteUnclaimed ==
    /\ Begin("delete") /\ claim = NoOne /\ rows # <<>>
    /\ UNCHANGED <<claim, reg, stale, client, rows, pc, mine, faults, ghosts>>

\* DELETE /api/session and POST .../refresh: refused while a turn is under way.
AskClose == Begin("close") /\ claim = NoOne
            /\ UNCHANGED <<claim, reg, stale, client, rows, pc, mine, faults, ghosts>>
AskRefresh == Begin("refresh") /\ claim = NoOne
              /\ UNCHANGED <<claim, reg, stale, client, rows, pc, mine, faults, ghosts>>

CloseSession ==
    /\ HasLock("close", "queued")
    /\ Evict /\ Release /\ At("close", "idle")
    /\ UNCHANGED <<claim, rows, pc, mine, ops, faults, ghosts>>

\* restart(): the connection goes down first, the registry entry stays.
RefreshStarts ==
    /\ HasLock("refresh", "queued")
    /\ IF reg = NoOne THEN Release /\ At("refresh", "idle") /\ UNCHANGED client
       ELSE /\ client' = [client EXCEPT ![reg] = [client[reg] EXCEPT !.at = "starting",
                                                                     !.pend = <<>>]]
            /\ At("refresh", "busy") /\ UNCHANGED lockq
    /\ UNCHANGED <<claim, reg, stale, rows, pc, mine, ops, faults, ghosts>>

\* The SDK resumes its session, ACP starts a new one; a restart that fails
\* raises and leaves the entry.  ACP's event queue outlives all of it.
RefreshEnds ==
    /\ HasLock("refresh", "busy") /\ Release /\ At("refresh", "idle")
    /\ \/ /\ client' = [client EXCEPT ![reg] =
                           [client[reg] EXCEPT !.at = "up",
                                               !.refreshed = TRUE,
                                               !.knows = IF IsAcp(reg) THEN {} ELSE @,
                                               !.queue = IF IsAcp(reg) THEN @ ELSE <<>>]]
          /\ stale' = FALSE /\ UNCHANGED faults
       \/ Fault("refresh") /\ client' = [client EXCEPT ![reg].at = "dead"] /\ UNCHANGED stale
    /\ UNCHANGED <<claim, reg, rows, pc, mine, ops, ghosts>>

\* DELETE /api/conversations: claims the conversation like a turn.
AskDelete ==
    /\ Begin("delete") /\ claim = NoOne /\ rows # <<>>
    /\ claim' = "delete"
    /\ UNCHANGED <<reg, stale, client, rows, pc, mine, faults, ghosts>>

DeleteDrops ==
    /\ HasLock("delete", "queued")
    /\ Evict /\ Release /\ At("delete", "busy")
    /\ UNCHANGED <<claim, rows, pc, mine, ops, faults, ghosts>>

DeleteRows ==
    /\ opc["delete"] = "busy" /\ At("delete", "idle")
    /\ \/ /\ deleted' = deleted \cup {rows[i].by : i \in DOMAIN rows}
          /\ rows' = <<>> /\ UNCHANGED faults
       \/ Fault("delete") /\ UNCHANGED <<rows, deleted>>
    /\ claim' = NoOne
    /\ UNCHANGED <<lockq, reg, stale, client, pc, mine, ops, heard, spoiled, unwritten>>

\* Every SWEEP_INTERVAL_S, whoever is using the agent.
AskSweep == Begin("sweep") /\ UNCHANGED <<claim, reg, stale, client, rows, pc, mine, faults, ghosts>>

Sweep ==
    /\ HasLock("sweep", "queued")
    /\ IF stale THEN Evict ELSE UNCHANGED <<client, reg, stale>>
    /\ Release /\ At("sweep", "idle")
    /\ UNCHANGED <<claim, rows, pc, mine, ops, faults, ghosts>>

\* Another conversation connects or disconnects its agent under the lock.
OtherLocks == Begin("other") /\ UNCHANGED <<claim, reg, stale, client, rows, pc, mine, faults, ghosts>>
OtherUnlocks ==
    /\ HasLock("other", "queued") /\ Release /\ At("other", "idle")
    /\ UNCHANGED <<claim, reg, stale, client, rows, pc, mine, ops, faults, ghosts>>

\* Half an hour without a new turn.
TimePasses ==
    /\ reg # NoOne /\ ~stale /\ (claim = NoOne \/ LongTurns)
    /\ stale' = TRUE
    /\ UNCHANGED <<claim, lockq, opc, reg, client, rows, pc, mine, ops, faults, ghosts>>

\* The server stops, at any point, and is started again: what was in memory
\* is gone, the agents are gone but for the strays, and lifespan marks what was
\* running.
ServerRestarts ==
    /\ Fault("server")
    /\ claim' = NoOne /\ lockq' = <<>> /\ opc' = [o \in Ops |-> "idle"]
    /\ reg' = NoOne /\ stale' = FALSE
    /\ client' = [c \in Requests |->
                    IF client[c].at \in {"none", "stray"} THEN client[c]
                                                         ELSE Disconnected(client, c)[c]]
    /\ pc' = [r \in Requests |-> IF pc[r] = "idle" THEN "idle" ELSE "over"]
    /\ mine' = [r \in Requests |-> NewTurn] /\ heard' = [r \in Requests |-> {}]
    /\ \/ /\ rows' = [i \in DOMAIN rows |->
                        IF rows[i].status = "running" THEN [rows[i] EXCEPT !.status = "interrupted"]
                                                      ELSE rows[i]]
          /\ UNCHANGED unwritten
       \/ /\ "sweep_running" \in FailAt
          /\ unwritten' = unwritten \cup {rows[i].by : i \in DOMAIN rows} /\ UNCHANGED rows
    /\ UNCHANGED <<ops, spoiled, deleted>>

-----------------------------------------------------------------------------

Init ==
    /\ claim = NoOne /\ lockq = <<>> /\ opc = [o \in Ops |-> "idle"]
    /\ reg = NoOne /\ stale = FALSE /\ client = [c \in Requests |-> NoAgent]
    /\ rows = <<>>
    /\ pc = [r \in Requests |-> "idle"] /\ mine = [r \in Requests |-> NewTurn]
    /\ ops = 0 /\ faults = 0
    /\ heard = [r \in Requests |-> {}]
    /\ spoiled = {} /\ unwritten = {} /\ deleted = {}

Agent(c) == Say(c) \/ Answer(c)
Turn(r) == \/ Record(r) \/ Reuse(r) \/ Connect(r) \/ Connected(r) \/ ConnectFails(r)
           \/ Replay(r) \/ Deliver(r) \/ Receive(r) \/ StreamBreaks(r) \/ GivesUp(r)
           \/ Closing(r) \/ Drop(r) \/ DropTimesOut(r) \/ DropCutShort(r)
           \/ Finish(r) \/ Unclaim(r)
Leave(r) == \/ LeaveUnstarted(r) \/ LeaveRegistry(r) \/ LeaveSwitch(r)
            \/ LeaveAgent(r) \/ LeaveQuery(r)
Asks == AskClose \/ AskRefresh \/ AskDelete \/ AskSweep \/ OtherLocks
Serves == \/ CloseSession \/ RefreshStarts \/ RefreshEnds \/ DeleteDrops \/ DeleteRows
          \/ Sweep \/ OtherUnlocks

Next == \/ \E r \in Requests : Post(r) \/ Turn(r) \/ Leave(r) \/ Agent(r) \/ Dies(r)
        \/ Asks \/ Serves \/ TimePasses \/ ServerRestarts

\* The event loop runs whatever is ready, the lock is handed on in order, and
\* an agent that is up finishes the prompt it was given.  Nobody has to post,
\* to leave or to ask for anything.
Fairness == /\ \A r \in Requests : WF_vars(Turn(r)) /\ WF_vars(Agent(r))
            /\ WF_vars(Serves)

Spec == Init /\ [][Next]_vars
FairSpec == Spec /\ Fairness

-----------------------------------------------------------------------------

TurnPoints == {"idle", "start", "queued", "connecting", "replay", "deliver",
               "stream", "closing", "dropping", "finish", "release", "over"}
Statuses == {"running", "done", "error", "interrupted"}

\* Types, and what ties the locals of a turn to the shared state: only the
\* turn that holds the claim is under way, only it can be told anything, and
\* the lock is held or awaited by exactly the turns and operations that say so.
TypeOK ==
    /\ claim \in Requests \cup {"delete", NoOne}
    /\ lockq \in Seq(Requests \cup Ops) /\ IsInjective(lockq)
    /\ reg \in Requests \cup {NoOne} /\ stale \in BOOLEAN
    /\ rows \in Seq([by : Requests, status : Statuses])
    /\ \A r \in Requests :
          /\ pc[r] \in TurnPoints
          /\ (pc[r] \notin {"idle", "over"}) <=> claim = r
          /\ (r \in ToSet(lockq)) <=> pc[r] \in {"queued", "connecting", "dropping"}
          /\ client[r].at \in {"none", "starting", "up", "dead", "gone", "stray"}
          /\ mine[r].row \in 0 .. Len(rows) /\ mine[r].told \subseteq DoneTurns
          /\ pc[r] \in {"idle", "start", "over"} => mine[r] = NewTurn
    /\ \A o \in Ops : /\ opc[o] \in {"idle", "queued", "busy"}
                      /\ (o \in ToSet(lockq)) <=> (opc[o] # "idle" /\ ~(o = "delete" /\ opc[o] = "busy"))
    /\ (claim = "delete") <=> opc["delete"] # "idle"
    /\ ops \in 0 .. MaxOps /\ faults \in 0 .. MaxFaults

\* A browser is shown events of its own turn only: what an earlier turn left
\* in the agent's queue never reaches a later one (app.py, the comment on
\* dropping an agent that "keeps producing this turn's remaining events").
\* The exceptions are an agent the code logs that it could not drop and, under
\* LateOutput, one whose background tasks a turn gave up waiting for.
OwnEventsOnly ==
    \A r \in Requests : mine[r].on \notin spoiled => heard[r] \subseteq {r}

\* When a prompt has been delivered the agent knows every answered turn of the
\* conversation, however the agent came to be there: reused, replaced after a
\* backend switch, connected after a close, a sweep, a crash or a failure.
\* Except after a replay that failed, on an agent that could not be dropped,
\* and after a refresh, which starts ACP without its memory (ADR 0007).
AgentKnowsHistory ==
    \A r \in Requests :
        (/\ pc[r] = "stream" /\ ~mine[r].unsure
         /\ mine[r].on \notin spoiled /\ ~client[mine[r].on].refreshed)
        => DoneTurns \subseteq client[mine[r].on].knows

\* No agent process is left behind: each one that runs is the registered one
\* or is being connected by the turn that will register it (sessions.py: the
\* lock is there because concurrent calls "can leak connections").  Under
\* CutShort one is: the disconnect() of a cancelled turn does not wait for it.
NoLeakedAgent ==
    \A c \in Requests :
        client[c].at \in {"up", "starting", "stray"} => reg = c \/ pc[c] = "connecting"

\* Nobody but the turn itself, or the end of the server, takes the agent away
\* from under a turn that has it (close and refresh "would cut it off").
NotCutOff ==
    [][\A r \in Requests :
         (/\ pc[r] \in {"replay", "deliver", "stream"} /\ pc'[r] = pc[r]
          /\ client[mine[r].on].at = "up")
         => client'[mine[r].on].at \in {"up", "dead"}]_vars

\* A stored turn says "running" only while its request is under way, so that
\* no reader waits for a turn that is over -- unless the database refused the
\* write that would have said so.
RunningRowHasTurn ==
    \A i \in DOMAIN rows :
        rows[i].status = "running" => claim = rows[i].by \/ rows[i].by \in unwritten

\* After a deletion no agent remembers the deleted turns: neither one that was
\* connected meanwhile nor one that was reused.
DeletedIsForgotten ==
    (reg # NoOne /\ claim # "delete") => client[reg].knows \cap deleted = {}

\* Every turn lets go of the conversation, whatever fails on the way.
EveryTurnEnds == \A r \in Requests : (claim = r) ~> (claim # r)
=============================================================================
