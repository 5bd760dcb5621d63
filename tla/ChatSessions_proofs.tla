------------------------ MODULE ChatSessions_proofs ------------------------
(***************************************************************************)
(* Proofs about ChatSessions, for any turns, backends and bounds, at all   *)
(* points of leaving and of failing: TypeOK, RunningRowHasTurn,            *)
(* DeletedIsForgotten, AgentKnowsHistory; where no agent outlives a        *)
(* disconnect that is cut short, NoLeakedAgent; where no turn outlasts the *)
(* idle timeout, NotCutOff; and where no browser leaves at the two points  *)
(* that lose the end of a turn and no turn gives up waiting for background *)
(* tasks, OwnEventsOnly.  Each inductive invariant is made of parts, each  *)
(* with a lemma that says that every step keeps it: IInv of who holds what,*)
(* KInv adds what the agents know, EInv what they have still to say.       *)
(***************************************************************************)
EXTENDS ChatSessions, SequenceTheorems, TLAPS

(* Joining the queue of the lock, for one who does not wait in it.         *)
LEMMA Waiting ==
    ASSUME NEW S, NEW q \in Seq(S), NEW x \in S, IsInjective(q), x \notin ToSet(q)
    PROVE  /\ Append(q, x) \in Seq(S) /\ IsInjective(Append(q, x))
           /\ ToSet(Append(q, x)) = ToSet(q) \cup {x}
           /\ Append(q, x) # <<>>
           /\ q # <<>> => Head(Append(q, x)) = Head(q)
  <1> DEFINE a == Append(q, x)
  <1>1. /\ a \in Seq(S) /\ Len(a) = Len(q) + 1 /\ a[Len(q) + 1] = x
        /\ \A i \in 1 .. Len(q) : a[i] = q[i]
    BY AppendProperties
  <1>2. a # <<>> /\ (q # <<>> => Head(a) = Head(q))
    BY <1>1
  <1> HIDE DEF a
  <1>3. \A i \in 1 .. Len(q) : q[i] # x
    BY DEF ToSet
  <1>4. IsInjective(a)
    BY <1>1, <1>3 DEF IsInjective
  <1>5. ToSet(a) = ToSet(q) \cup {x}
    BY <1>1 DEF ToSet
  <1>6. QED
    BY <1>1, <1>2, <1>4, <1>5 DEF a

(* The head leaves the queue: whoever was next has the lock.               *)
LEMMA Served ==
    ASSUME NEW S, NEW q \in Seq(S), q # <<>>, IsInjective(q)
    PROVE  /\ Tail(q) \in Seq(S) /\ IsInjective(Tail(q))
           /\ ToSet(Tail(q)) = ToSet(q) \ {Head(q)}
  <1>1. Len(q) \in Nat \ {0} /\ Head(q) = q[1] /\ Head(q) \in S
    OBVIOUS
  <1>2. Tail(q) \in Seq(S) /\ Len(Tail(q)) = Len(q) - 1
        /\ \A i \in 1 .. (Len(q) - 1) : Tail(q)[i] = q[i + 1]
    BY HeadTailProperties
  <1>3. IsInjective(Tail(q))
    BY <1>1, <1>2 DEF IsInjective
  <1>4. ToSet(Tail(q)) \subseteq ToSet(q) \ {Head(q)}
    BY <1>1, <1>2 DEF IsInjective, ToSet
  <1>5. ASSUME NEW y \in ToSet(q) \ {Head(q)} PROVE y \in ToSet(Tail(q))
    <2>1. PICK i \in 1 .. Len(q) : q[i] = y
      BY DEF ToSet
    <2>2. i # 1
      BY <1>1, <2>1, <1>5
    <2>3. i - 1 \in 1 .. (Len(q) - 1) /\ i = (i - 1) + 1
      BY <1>1, <2>2
    <2>4. i - 1 \in DOMAIN Tail(q) /\ Tail(q)[i - 1] = y
      BY <1>1, <1>2, <2>1, <2>3
    <2>5. QED
      BY <2>4 DEF ToSet
  <1>6. QED
    BY <1>2, <1>3, <1>4, <1>5

(* A cancelled or timed-out waiter leaves its place and no other.          *)
LEMMA LeftTheQueue ==
    ASSUME NEW S, NEW q \in Seq(S), IsInjective(q), NEW x \in ToSet(q)
    PROVE  /\ Without(q, x) \in Seq(S) /\ IsInjective(Without(q, x))
           /\ ToSet(Without(q, x)) = ToSet(q) \ {x}
           /\ Without(q, x) # <<>> /\ Head(q) # x => Head(Without(q, x)) = Head(q)
           /\ \E k \in 1 .. Len(q) :
                /\ q[k] = x /\ Len(Without(q, x)) = Len(q) - 1
                /\ \A i \in 1 .. (Len(q) - 1) : Without(q, x)[i] = q[IF i < k THEN i ELSE i + 1]
  <1> DEFINE k == CHOOSE i \in DOMAIN q : q[i] = x
             w == SubSeq(q, 1, k - 1) \o SubSeq(q, k + 1, Len(q))
  <1>1. k \in DOMAIN q /\ q[k] = x
    BY DEF ToSet
  <1>a. Without(q, x) = w
    BY DEF Without, RemoveAt
  <1> HIDE DEF k
  <1>b. k \in 1 .. Len(q) /\ Len(q) \in Nat
    BY <1>1
  <1>2. /\ SubSeq(q, 1, k - 1) \in Seq(S) /\ Len(SubSeq(q, 1, k - 1)) = k - 1
        /\ \A i \in 1 .. (k - 1) : SubSeq(q, 1, k - 1)[i] = q[i]
    BY <1>b, SubSeqProperties
  <1>3. /\ SubSeq(q, k + 1, Len(q)) \in Seq(S) /\ Len(SubSeq(q, k + 1, Len(q))) = Len(q) - k
        /\ \A i \in 1 .. (Len(q) - k) : SubSeq(q, k + 1, Len(q))[i] = q[k + i]
    BY <1>b, SubSeqProperties
  <1>4. w \in Seq(S) /\ Len(w) = Len(q) - 1
        /\ \A i \in 1 .. (Len(q) - 1) : w[i] = q[IF i < k THEN i ELSE i + 1]
    <2> DEFINE u == SubSeq(q, 1, k - 1)
               v == SubSeq(q, k + 1, Len(q))
    <2>1. w = u \o v /\ u \in Seq(S) /\ v \in Seq(S) /\ Len(u) = k - 1 /\ Len(v) = Len(q) - k
      BY <1>2, <1>3
    <2>2. \A i \in 1 .. (k - 1) : u[i] = q[i]
      BY <1>2
    <2>3. \A i \in 1 .. (Len(q) - k) : v[i] = q[k + i]
      BY <1>3
    <2> HIDE DEF u, v, w
    <2>4. w \in Seq(S) /\ Len(w) = Len(q) - 1
      BY <1>b, <2>1
    <2>5. ASSUME NEW i \in 1 .. (Len(q) - 1) PROVE w[i] = q[IF i < k THEN i ELSE i + 1]
      <3>1. CASE i < k
        BY <1>b, <2>1, <2>2, <3>1
      <3>2. CASE ~(i < k)
        <4>1. i - (k - 1) \in 1 .. (Len(q) - k) /\ k + (i - (k - 1)) = i + 1
          BY <1>b, <3>2
        <4>2. w[i] = v[i - (k - 1)]
          BY <1>b, <2>1, <3>2
        <4>3. QED
          BY <2>3, <3>2, <4>1, <4>2
      <3>3. QED
        BY <3>1, <3>2
    <2>6. QED
      BY <2>4, <2>5
  <1> HIDE DEF w
  <1>5. IsInjective(w)
    BY <1>1, <1>b, <1>4 DEF IsInjective
  <1>6. ToSet(w) \subseteq ToSet(q) \ {x}
    BY <1>1, <1>b, <1>4 DEF IsInjective, ToSet
  <1>7. ASSUME NEW y \in ToSet(q) \ {x} PROVE y \in ToSet(w)
    <2>1. PICK i \in 1 .. Len(q) : q[i] = y
      BY DEF ToSet
    <2>2. CASE i < k
      BY <1>1, <1>b, <1>4, <2>1, <2>2 DEF ToSet
    <2>3. CASE i > k
      <3>1. i - 1 \in 1 .. Len(w) /\ w[i - 1] = y
        BY <1>1, <1>b, <1>4, <2>1, <2>3
      <3>2. QED
        BY <3>1, <1>4 DEF ToSet
    <2>4. QED
      BY <2>1, <2>2, <2>3, <1>1, <1>7
  <1>8. w # <<>> /\ Head(q) # x => Head(w) = Head(q)
    BY <1>1, <1>b, <1>4
  <1>9. QED
    BY <1>1, <1>a, <1>b, <1>4, <1>5, <1>6, <1>7, <1>8

-----------------------------------------------------------------------------
(* The invariant, in parts.  First the domains, as far as the rest of the  *)
(* proof looks into them: of what an agent has been asked and what it has  *)
(* written nothing is said.                                                *)

Flags ==
    /\ claim \in Requests \cup {"delete", NoOne}
    /\ DOMAIN opc = Ops /\ DOMAIN pc = Requests
    /\ reg \in Requests \cup {NoOne}

Agents ==
    /\ DOMAIN client = Requests
    /\ \A c \in Requests : DOMAIN client[c] = {"at", "pend", "queue", "knows", "refreshed"}

Turns ==
    /\ DOMAIN mine = Requests
    /\ \A r \in Requests :
          /\ DOMAIN mine[r] = {"row", "on", "fresh", "told", "delivered", "completed",
                               "waits", "unsure", "error"}
          /\ mine[r].error \in {"none", "error", "interrupted"}

(* A turn holds the claim from its post to its end, a deletion from its    *)
(* start to its end.                                                       *)
Claims ==
    /\ \A r \in Requests : (pc[r] \notin {"idle", "over"}) <=> claim = r
    /\ (claim = "delete") <=> opc["delete"] # "idle"

(* A turn that reads an event changes none of the locals it was begun with. *)
LEMMA ReceiveKeeps ==
    ASSUME Flags, Turns, NEW r \in Requests, Receive(r)
    PROVE  /\ \A q \in Requests \ {r} : mine'[q] = mine[q] /\ pc'[q] = pc[q]
           /\ \A q \in Requests :
                 /\ mine'[q].on = mine[q].on /\ mine'[q].row = mine[q].row
                 /\ mine'[q].told = mine[q].told
           /\ pc[r] = "stream" /\ (pc' = pc \/ pc' = [pc EXCEPT ![r] = "closing"])
           /\ \A c \in Requests : client'[c].knows = client[c].knows /\ client'[c].at = client[c].at
           /\ UNCHANGED <<claim, lockq, opc, reg, stale, rows, ops, faults, spoiled, unwritten, deleted>>
  <1> DEFINE e == Head(client[mine[r].on].queue)
  <1>1. mine' = [mine EXCEPT ![r] =
                    [mine[r] EXCEPT !.completed = @ \/ e.what = "done",
                                    !.waits = IF e.what \in {"task", "reply"} THEN e.what ELSE @,
                                    !.error = IF e.what = "failed" THEN "error" ELSE @]]
    BY DEF Receive
  <1>2. pc[r] = "stream" /\ (pc' = pc \/ pc' = [pc EXCEPT ![r] = "closing"])
        /\ UNCHANGED <<claim, lockq, opc, reg, stale, rows, ops, faults, spoiled, unwritten, deleted>>
    BY DEF Receive, Go
  <1>3. \A c \in Requests : client'[c].knows = client[c].knows /\ client'[c].at = client[c].at
    BY DEF Receive
  <1> HIDE DEF e
  <1>4. \A q \in Requests \ {r} : mine'[q] = mine[q]
    BY <1>1 DEF Turns
  <1>5. \A q \in Requests :
            mine'[q].on = mine[q].on /\ mine'[q].row = mine[q].row /\ mine'[q].told = mine[q].told
    BY <1>1 DEF Turns
  <1>6. QED
    BY <1>2, <1>3, <1>4, <1>5 DEF Flags

(* An agent whose disconnect is cut short is asked nothing any more.       *)
LEMMA Abandoned ==
    ASSUME Agents, NEW x \in Requests, Abandon(x)
    PROVE  /\ \A c \in Requests \ {x} : client'[c] = client[c]
           /\ client'[x].at \in {"gone", "stray"} /\ (client'[x].at = "stray" => CutShort)
           /\ client'[x].pend = <<>> /\ client'[x].queue = client[x].queue
           /\ client'[x].knows = client[x].knows /\ client'[x].refreshed = client[x].refreshed
  <1>1. PICK at \in {"gone", "stray"} :
           /\ at = "stray" => CutShort
           /\ client' = [client EXCEPT ![x] = [client[x] EXCEPT !.at = at, !.pend = <<>>]]
    BY DEF Abandon
  <1>2. QED
    BY <1>1 DEF Agents

(* Taking an agent down costs it what it was asked, and nothing else.      *)
LEMMA SparedAll ==
    ASSUME Flags, Agents, NEW x \in Requests \cup {NoOne}, NEW cs, cs = Disconnected(client, x)
    PROVE  /\ DOMAIN cs = Requests
           /\ \A c \in Requests : DOMAIN cs[c] = {"at", "pend", "queue", "knows", "refreshed"}
           /\ \A c \in Requests \ {x} : cs[c] = client[c]
           /\ x # NoOne => /\ cs[x].at = "gone" /\ cs[x].pend = <<>>
                           /\ cs[x].queue = client[x].queue /\ cs[x].knows = client[x].knows
                           /\ cs[x].refreshed = client[x].refreshed
  <1>1. CASE x = NoOne
    BY <1>1, ChatAssumption DEF Disconnected, Agents
  <1>2. CASE x # NoOne
    <2>1. cs = [client EXCEPT ![x] = [client[x] EXCEPT !.at = "gone", !.pend = <<>>]]
      BY <1>2 DEF Disconnected
    <2>2. QED
      BY <1>2, <2>1, ChatAssumption DEF Agents
  <1>3. QED
    BY <1>1, <1>2

(* A refresh takes the connection of the agent down and keeps the rest.    *)
LEMMA RefreshBegins ==
    ASSUME Flags, Agents, RefreshStarts
    PROVE  \A c \in Requests :
             /\ client'[c].knows = client[c].knows /\ client'[c].queue = client[c].queue
             /\ client'[c].refreshed = client[c].refreshed
             /\ \/ client'[c].pend = client[c].pend /\ client'[c].at = client[c].at
                \/ c = reg /\ client'[c].pend = <<>> /\ client'[c].at = "starting"
  <1>1. CASE reg = NoOne
    BY <1>1 DEF RefreshStarts
  <1>2. CASE reg # NoOne
    <2> DEFINE x == [client[reg] EXCEPT !.at = "starting", !.pend = <<>>]
    <2>1. reg \in Requests /\ client' = [client EXCEPT ![reg] = x]
      BY <1>2 DEF Flags, RefreshStarts
    <2>2. DOMAIN client[reg] = {"at", "pend", "queue", "knows", "refreshed"}
      BY <2>1 DEF Agents
    <2>3. /\ x.at = "starting" /\ x.pend = <<>> /\ x.knows = client[reg].knows
          /\ x.queue = client[reg].queue /\ x.refreshed = client[reg].refreshed
      BY <2>2
    <2> HIDE DEF x
    <2>4. client'[reg] = x /\ \A c \in Requests \ {reg} : client'[c] = client[c]
      BY <2>1 DEF Agents
    <2>5. QED
      BY <2>1, <2>3, <2>4
  <1>3. QED
    BY <1>1, <1>2

(* A restarted agent has lost its memory or not, and says so.              *)
LEMMA RefreshIs ==
    ASSUME Flags, Agents, RefreshEnds
    PROVE  \A c \in Requests :
             /\ c # reg => client'[c] = client[c]
             /\ c = reg => client'[c].at \in {"up", "dead"}
             /\ client'[c].pend = client[c].pend
             /\ client'[c].queue \in {client[c].queue, <<>>}
             /\ client'[c].knows \in {{}, client[c].knows}
             /\ \/ client'[c].knows = client[c].knows /\ client'[c].refreshed = client[c].refreshed
                \/ client'[c].refreshed = TRUE
  <1>1. CASE reg = NoOne
    BY <1>1, ChatAssumption DEF RefreshEnds, Agents
  <1>2. CASE reg # NoOne
    <2>1. reg \in Requests
      BY <1>2 DEF Flags
    <2>2. CASE client' = [client EXCEPT ![reg].at = "dead"]
      BY <2>1, <2>2 DEF Agents
    <2>3. CASE client' # [client EXCEPT ![reg].at = "dead"]
      <3> DEFINE x == [client[reg] EXCEPT !.at = "up", !.refreshed = TRUE,
                                          !.knows = IF IsAcp(reg) THEN {} ELSE @,
                                          !.queue = IF IsAcp(reg) THEN @ ELSE <<>>]
      <3>1. client' = [client EXCEPT ![reg] = x]
        BY <2>3 DEF RefreshEnds
      <3>2. DOMAIN client[reg] = {"at", "pend", "queue", "knows", "refreshed"}
        BY <2>1 DEF Agents
      <3>3. /\ x.at = "up" /\ x.refreshed = TRUE /\ x.pend = client[reg].pend
            /\ x.knows \in {{}, client[reg].knows} /\ x.queue \in {client[reg].queue, <<>>}
        BY <3>2
      <3> HIDE DEF x
      <3>4. client'[reg] = x /\ \A c \in Requests \ {reg} : client'[c] = client[c]
        BY <2>1, <3>1 DEF Agents
      <3>5. QED
        BY <2>1, <3>3, <3>4
    <2>4. QED
      BY <2>2, <2>3
  <1>3. QED
    BY <1>1, <1>2

(* A prompt goes to the agent the turn has, with what the turn was told.   *)
LEMMA PromptSent ==
    ASSUME Agents, NEW r \in Requests, NEW quiet \in BOOLEAN, client' = Sent(r, quiet)
    PROVE  \A c \in Requests :
             /\ c # mine[r].on => client'[c] = client[c]
             /\ c = mine[r].on =>
                  /\ client'[c].at = client[c].at /\ client'[c].queue = client[c].queue
                  /\ client'[c].refreshed = client[c].refreshed
                  /\ client'[c].knows = client[c].knows \cup mine[r].told \cup {r}
                  /\ client'[c].pend = Append(client[c].pend, Prompt(r, quiet))
  <1> TAKE c \in Requests
  <1> DEFINE a == mine[r].on
             p == Append(client[a].pend, Prompt(r, quiet))
             k == client[a].knows \cup mine[r].told \cup {r}
             x == [client[a] EXCEPT !.pend = p, !.knows = k]
  <1>1. client' = [client EXCEPT ![a] = x]
    BY DEF Sent
  <1> HIDE DEF p, k
  <1>2. ASSUME c = a
        PROVE  /\ x.at = client[c].at /\ x.queue = client[c].queue
               /\ x.refreshed = client[c].refreshed /\ x.knows = k /\ x.pend = p
    <2>1. DOMAIN client[a] = {"at", "pend", "queue", "knows", "refreshed"}
      BY <1>2 DEF Agents
    <2>2. QED
      BY <1>2, <2>1
  <1> HIDE DEF x, a
  <1>3. client'[c] = IF c = a THEN x ELSE client[c]
    BY <1>1 DEF Agents
  <1>4. QED
    BY <1>2, <1>3 DEF a, p, k

(* Every step keeps Flags: who may claim, which operations and points there*)
(* are, and what the registry holds.                                       *)
LEMMA FlagsStep == ASSUME Flags, [Next]_vars PROVE Flags'
  <1> USE ChatAssumption DEF Go, ghosts, Flags
  <1>1. ASSUME NEW r \in Requests, Post(r) PROVE Flags'
    BY <1>1 DEF Post
  <1>2. ASSUME NEW r \in Requests, Record(r) PROVE Flags'
    BY <1>2 DEF Record, Enqueue, Fault
  <1>3. ASSUME NEW r \in Requests, Reuse(r) PROVE Flags'
    BY <1>3 DEF Reuse, Reusable, Release, Holds
  <1>4. ASSUME NEW r \in Requests, Connect(r) PROVE Flags'
    BY <1>4 DEF Connect, Reusable, Holds
  <1>5. ASSUME NEW r \in Requests, Connected(r) PROVE Flags'
    BY <1>5 DEF Connected, Release
  <1>6. ASSUME NEW r \in Requests, ConnectFails(r) PROVE Flags'
    BY <1>6 DEF ConnectFails, Fault, Disconnected, Release
  <1>7. ASSUME NEW r \in Requests, Replay(r) PROVE Flags'
    BY <1>7 DEF Replay, Fault, DoneTurns
  <1>8. ASSUME NEW r \in Requests, Deliver(r) PROVE Flags'
    BY <1>8 DEF Deliver, Sent, Prompt
  <1>9. ASSUME NEW r \in Requests, Receive(r) PROVE Flags'
    BY <1>9 DEF Receive
  <1>10. ASSUME NEW r \in Requests, StreamBreaks(r) PROVE Flags'
    BY <1>10 DEF StreamBreaks
  <1>10a. ASSUME NEW r \in Requests, GivesUp(r) PROVE Flags'
    BY <1>10a DEF GivesUp
  <1>11. ASSUME NEW r \in Requests, Closing(r) PROVE Flags'
    BY <1>11 DEF Closing, Unsafe, Enqueue
  <1>12. ASSUME NEW r \in Requests, Drop(r) PROVE Flags'
    BY <1>12 DEF Drop, Evict, Disconnected, Release, Holds
  <1>13. ASSUME NEW r \in Requests, DropTimesOut(r) PROVE Flags'
    BY <1>13 DEF DropTimesOut, Fault, Holds
  <1>13a. ASSUME NEW r \in Requests, DropCutShort(r) PROVE Flags'
    BY <1>13a DEF DropCutShort, Abandon, Fault, Release, Holds
  <1>14. ASSUME NEW r \in Requests, Finish(r) PROVE Flags'
    BY <1>14 DEF Finish, Fault, StatusOf
  <1>15. ASSUME NEW r \in Requests, Unclaim(r) PROVE Flags'
    BY <1>15 DEF Unclaim, NewTurn
  <1>16. ASSUME NEW r \in Requests, LeaveUnstarted(r) PROVE Flags'
    BY <1>16 DEF LeaveUnstarted
  <1>17. ASSUME NEW r \in Requests, LeaveRegistry(r) PROVE Flags'
    BY <1>17 DEF LeaveRegistry, Interrupted, Abandon
  <1>17a. ASSUME NEW r \in Requests, LeaveSwitch(r) PROVE Flags'
    BY <1>17a DEF LeaveSwitch, Interrupted, Abandon, Holds, Reusable
  <1>18. ASSUME NEW r \in Requests, LeaveAgent(r) PROVE Flags'
    BY <1>18 DEF LeaveAgent, Interrupted
  <1>19. ASSUME NEW r \in Requests, LeaveQuery(r) PROVE Flags'
    BY <1>19 DEF LeaveQuery, Interrupted, Sent, Prompt
  <1>20. ASSUME NEW r \in Requests, Say(r) PROVE Flags'
    BY <1>20 DEF Say, Item
  <1>21. ASSUME NEW r \in Requests, Answer(r) PROVE Flags'
    BY <1>21 DEF Answer
  <1>22. ASSUME NEW r \in Requests, Dies(r) PROVE Flags'
    BY <1>22 DEF Dies, Fault
  <1>23. CASE AskClose
    BY <1>23 DEF AskClose, Begin, Enqueue, At
  <1>24. CASE AskRefresh
    BY <1>24 DEF AskRefresh, Begin, Enqueue, At
  <1>25. CASE CloseSession
    BY <1>25 DEF CloseSession, HasLock, Holds, Evict, Disconnected, Release, At
  <1>26. CASE RefreshStarts
    BY <1>26 DEF RefreshStarts, HasLock, Holds, Release, At
  <1>27. CASE RefreshEnds
    BY <1>27 DEF RefreshEnds, HasLock, Holds, Release, Fault, At
  <1>28. CASE AskDelete
    BY <1>28 DEF AskDelete, Begin, Enqueue, At
  <1>29. CASE DeleteDrops
    BY <1>29 DEF DeleteDrops, HasLock, Holds, Evict, Disconnected, Release, At
  <1>30. CASE DeleteRows
    BY <1>30 DEF DeleteRows, Fault, At
  <1>31. CASE AskSweep
    BY <1>31 DEF AskSweep, Begin, Enqueue, At
  <1>32. CASE Sweep
    BY <1>32 DEF Sweep, HasLock, Holds, Evict, Disconnected, Release, At
  <1>33. CASE OtherLocks
    BY <1>33 DEF OtherLocks, Begin, Enqueue, At
  <1>34. CASE OtherUnlocks
    BY <1>34 DEF OtherUnlocks, HasLock, Holds, Release, At
  <1>35. CASE TimePasses
    BY <1>35 DEF TimePasses
  <1>36. CASE ServerRestarts
    BY <1>36 DEF ServerRestarts, Fault, Disconnected, NoAgent, NewTurn
  <1>37. CASE UNCHANGED vars
    BY <1>37 DEF vars
  <1>38. QED
    BY <1>1, <1>2, <1>3, <1>4, <1>5, <1>6, <1>7, <1>8, <1>9, <1>10, <1>10a, <1>11,
       <1>12, <1>13, <1>13a, <1>14, <1>15, <1>16, <1>17, <1>17a, <1>18, <1>19, <1>20, <1>21,
       <1>22, <1>23, <1>24, <1>25, <1>26, <1>27, <1>28, <1>29, <1>30, <1>31,
       <1>32, <1>33, <1>34, <1>35, <1>36, <1>37
    DEF Next, Turn, Leave, Agent, Asks, Serves

(* Every step keeps Agents: there is a record of every agent, whatever     *)
(* became of it.                                                           *)
LEMMA AgentsStep == ASSUME Flags, Agents, [Next]_vars PROVE Agents'
  <1> USE ChatAssumption DEF Go, ghosts, Flags, Agents
  <1>1. ASSUME NEW r \in Requests, Post(r) PROVE Agents'
    BY <1>1 DEF Post
  <1>2. ASSUME NEW r \in Requests, Record(r) PROVE Agents'
    BY <1>2 DEF Record, Enqueue, Fault
  <1>3. ASSUME NEW r \in Requests, Reuse(r) PROVE Agents'
    BY <1>3 DEF Reuse, Reusable, Release, Holds
  <1>4. ASSUME NEW r \in Requests, Connect(r) PROVE Agents'
    <2> DEFINE cs == Disconnected(client, reg)
    <2>1. client' = [cs EXCEPT ![r].at = "starting"]
      BY <1>4 DEF Connect
    <2> HIDE DEF cs
    <2>2. /\ DOMAIN cs = Requests
          /\ \A c \in Requests : DOMAIN cs[c] = {"at", "pend", "queue", "knows", "refreshed"}
      BY SparedAll DEF cs
    <2>3. QED
      BY <2>1, <2>2
  <1>5. ASSUME NEW r \in Requests, Connected(r) PROVE Agents'
    BY <1>5 DEF Connected, Release
  <1>6. ASSUME NEW r \in Requests, ConnectFails(r) PROVE Agents'
    BY <1>6 DEF ConnectFails, Fault, Disconnected, Release
  <1>7. ASSUME NEW r \in Requests, Replay(r) PROVE Agents'
    BY <1>7 DEF Replay, Fault, DoneTurns
  <1>8. ASSUME NEW r \in Requests, Deliver(r) PROVE Agents'
    BY <1>8 DEF Deliver, Sent, Prompt
  <1>9. ASSUME NEW r \in Requests, Receive(r) PROVE Agents'
    BY <1>9 DEF Receive
  <1>10. ASSUME NEW r \in Requests, StreamBreaks(r) PROVE Agents'
    BY <1>10 DEF StreamBreaks
  <1>10a. ASSUME NEW r \in Requests, GivesUp(r) PROVE Agents'
    BY <1>10a DEF GivesUp
  <1>11. ASSUME NEW r \in Requests, Closing(r) PROVE Agents'
    BY <1>11 DEF Closing, Unsafe, Enqueue
  <1>12. ASSUME NEW r \in Requests, Drop(r) PROVE Agents'
    BY <1>12 DEF Drop, Evict, Disconnected, Release, Holds
  <1>13. ASSUME NEW r \in Requests, DropTimesOut(r) PROVE Agents'
    BY <1>13 DEF DropTimesOut, Fault, Holds
  <1>13a. ASSUME NEW r \in Requests, DropCutShort(r) PROVE Agents'
    BY <1>13a DEF DropCutShort, Abandon, Fault, Release, Holds
  <1>14. ASSUME NEW r \in Requests, Finish(r) PROVE Agents'
    BY <1>14 DEF Finish, Fault, StatusOf
  <1>15. ASSUME NEW r \in Requests, Unclaim(r) PROVE Agents'
    BY <1>15 DEF Unclaim, NewTurn
  <1>16. ASSUME NEW r \in Requests, LeaveUnstarted(r) PROVE Agents'
    BY <1>16 DEF LeaveUnstarted
  <1>17. ASSUME NEW r \in Requests, LeaveRegistry(r) PROVE Agents'
    BY <1>17 DEF LeaveRegistry, Interrupted, Abandon
  <1>17a. ASSUME NEW r \in Requests, LeaveSwitch(r) PROVE Agents'
    BY <1>17a DEF LeaveSwitch, Interrupted, Abandon, Holds, Reusable
  <1>18. ASSUME NEW r \in Requests, LeaveAgent(r) PROVE Agents'
    BY <1>18 DEF LeaveAgent, Interrupted
  <1>19. ASSUME NEW r \in Requests, LeaveQuery(r) PROVE Agents'
    BY <1>19 DEF LeaveQuery, Interrupted, Sent, Prompt
  <1>20. ASSUME NEW r \in Requests, Say(r) PROVE Agents'
    BY <1>20 DEF Say, Item
  <1>21. ASSUME NEW r \in Requests, Answer(r) PROVE Agents'
    BY <1>21 DEF Answer
  <1>22. ASSUME NEW r \in Requests, Dies(r) PROVE Agents'
    BY <1>22 DEF Dies, Fault
  <1>23. CASE AskClose
    BY <1>23 DEF AskClose, Begin, Enqueue, At
  <1>24. CASE AskRefresh
    BY <1>24 DEF AskRefresh, Begin, Enqueue, At
  <1>25. CASE CloseSession
    BY <1>25 DEF CloseSession, HasLock, Holds, Evict, Disconnected, Release, At
  <1>26. CASE RefreshStarts
    BY <1>26 DEF RefreshStarts, HasLock, Holds, Release, At
  <1>27. CASE RefreshEnds
    BY <1>27 DEF RefreshEnds, HasLock, Holds, Release, Fault, At
  <1>28. CASE AskDelete
    BY <1>28 DEF AskDelete, Begin, Enqueue, At
  <1>29. CASE DeleteDrops
    BY <1>29 DEF DeleteDrops, HasLock, Holds, Evict, Disconnected, Release, At
  <1>30. CASE DeleteRows
    BY <1>30 DEF DeleteRows, Fault, At
  <1>31. CASE AskSweep
    BY <1>31 DEF AskSweep, Begin, Enqueue, At
  <1>32. CASE Sweep
    BY <1>32 DEF Sweep, HasLock, Holds, Evict, Disconnected, Release, At
  <1>33. CASE OtherLocks
    BY <1>33 DEF OtherLocks, Begin, Enqueue, At
  <1>34. CASE OtherUnlocks
    BY <1>34 DEF OtherUnlocks, HasLock, Holds, Release, At
  <1>35. CASE TimePasses
    BY <1>35 DEF TimePasses
  <1>36. CASE ServerRestarts
    BY <1>36 DEF ServerRestarts, Fault, Disconnected, NoAgent, NewTurn
  <1>37. CASE UNCHANGED vars
    BY <1>37 DEF vars
  <1>38. QED
    BY <1>1, <1>2, <1>3, <1>4, <1>5, <1>6, <1>7, <1>8, <1>9, <1>10, <1>10a, <1>11,
       <1>12, <1>13, <1>13a, <1>14, <1>15, <1>16, <1>17, <1>17a, <1>18, <1>19, <1>20, <1>21,
       <1>22, <1>23, <1>24, <1>25, <1>26, <1>27, <1>28, <1>29, <1>30, <1>31,
       <1>32, <1>33, <1>34, <1>35, <1>36, <1>37
    DEF Next, Turn, Leave, Agent, Asks, Serves

(* Every step keeps Turns: there are locals for every turn, and an error is*)
(* one the code sets.                                                      *)
LEMMA TurnsStep == ASSUME Turns, [Next]_vars PROVE Turns'
  <1> USE ChatAssumption DEF Go, ghosts, Turns
  <1>1. ASSUME NEW r \in Requests, Post(r) PROVE Turns'
    BY <1>1 DEF Post
  <1>2. ASSUME NEW r \in Requests, Record(r) PROVE Turns'
    BY <1>2 DEF Record, Enqueue, Fault
  <1>3. ASSUME NEW r \in Requests, Reuse(r) PROVE Turns'
    BY <1>3 DEF Reuse, Reusable, Release, Holds
  <1>4. ASSUME NEW r \in Requests, Connect(r) PROVE Turns'
    BY <1>4 DEF Connect, Reusable, Holds
  <1>5. ASSUME NEW r \in Requests, Connected(r) PROVE Turns'
    BY <1>5 DEF Connected, Release
  <1>6. ASSUME NEW r \in Requests, ConnectFails(r) PROVE Turns'
    BY <1>6 DEF ConnectFails, Fault, Disconnected, Release
  <1>7. ASSUME NEW r \in Requests, Replay(r) PROVE Turns'
    BY <1>7 DEF Replay, Fault, DoneTurns
  <1>8. ASSUME NEW r \in Requests, Deliver(r) PROVE Turns'
    BY <1>8 DEF Deliver, Sent, Prompt
  <1>9. ASSUME NEW r \in Requests, Receive(r) PROVE Turns'
    <2> DEFINE e == Head(client[mine[r].on].queue)
               a == mine[r].completed \/ e.what = "done"
               w == IF e.what \in {"task", "reply"} THEN e.what ELSE mine[r].waits
               f == IF e.what = "failed" THEN "error" ELSE mine[r].error
               x == [mine[r] EXCEPT !.completed = a, !.waits = w, !.error = f]
    <2>1. mine' = [mine EXCEPT ![r] = x]
      BY <1>9 DEF Receive
    <2>2. f \in {"none", "error", "interrupted"}
      OBVIOUS
    <2> HIDE DEF e, a, w, f
    <2>3. DOMAIN x = DOMAIN mine[r] /\ x.error = f
      OBVIOUS
    <2> HIDE DEF x
    <2>4. QED
      BY <2>1, <2>2, <2>3
  <1>10. ASSUME NEW r \in Requests, StreamBreaks(r) PROVE Turns'
    BY <1>10 DEF StreamBreaks
  <1>10a. ASSUME NEW r \in Requests, GivesUp(r) PROVE Turns'
    BY <1>10a DEF GivesUp
  <1>11. ASSUME NEW r \in Requests, Closing(r) PROVE Turns'
    BY <1>11 DEF Closing, Unsafe, Enqueue
  <1>12. ASSUME NEW r \in Requests, Drop(r) PROVE Turns'
    BY <1>12 DEF Drop, Evict, Disconnected, Release, Holds
  <1>13. ASSUME NEW r \in Requests, DropTimesOut(r) PROVE Turns'
    BY <1>13 DEF DropTimesOut, Fault, Holds
  <1>13a. ASSUME NEW r \in Requests, DropCutShort(r) PROVE Turns'
    BY <1>13a DEF DropCutShort, Abandon, Fault, Release, Holds
  <1>14. ASSUME NEW r \in Requests, Finish(r) PROVE Turns'
    BY <1>14 DEF Finish, Fault, StatusOf
  <1>15. ASSUME NEW r \in Requests, Unclaim(r) PROVE Turns'
    BY <1>15 DEF Unclaim, NewTurn
  <1>16. ASSUME NEW r \in Requests, LeaveUnstarted(r) PROVE Turns'
    BY <1>16 DEF LeaveUnstarted
  <1>17. ASSUME NEW r \in Requests, LeaveRegistry(r) PROVE Turns'
    BY <1>17 DEF LeaveRegistry, Interrupted, Abandon
  <1>17a. ASSUME NEW r \in Requests, LeaveSwitch(r) PROVE Turns'
    BY <1>17a DEF LeaveSwitch, Interrupted, Abandon, Holds, Reusable
  <1>18. ASSUME NEW r \in Requests, LeaveAgent(r) PROVE Turns'
    BY <1>18 DEF LeaveAgent, Interrupted
  <1>19. ASSUME NEW r \in Requests, LeaveQuery(r) PROVE Turns'
    BY <1>19 DEF LeaveQuery, Interrupted, Sent, Prompt
  <1>20. ASSUME NEW r \in Requests, Say(r) PROVE Turns'
    BY <1>20 DEF Say, Item
  <1>21. ASSUME NEW r \in Requests, Answer(r) PROVE Turns'
    BY <1>21 DEF Answer
  <1>22. ASSUME NEW r \in Requests, Dies(r) PROVE Turns'
    BY <1>22 DEF Dies, Fault
  <1>23. CASE AskClose
    BY <1>23 DEF AskClose, Begin, Enqueue, At
  <1>24. CASE AskRefresh
    BY <1>24 DEF AskRefresh, Begin, Enqueue, At
  <1>25. CASE CloseSession
    BY <1>25 DEF CloseSession, HasLock, Holds, Evict, Disconnected, Release, At
  <1>26. CASE RefreshStarts
    BY <1>26 DEF RefreshStarts, HasLock, Holds, Release, At
  <1>27. CASE RefreshEnds
    BY <1>27 DEF RefreshEnds, HasLock, Holds, Release, Fault, At
  <1>28. CASE AskDelete
    BY <1>28 DEF AskDelete, Begin, Enqueue, At
  <1>29. CASE DeleteDrops
    BY <1>29 DEF DeleteDrops, HasLock, Holds, Evict, Disconnected, Release, At
  <1>30. CASE DeleteRows
    BY <1>30 DEF DeleteRows, Fault, At
  <1>31. CASE AskSweep
    BY <1>31 DEF AskSweep, Begin, Enqueue, At
  <1>32. CASE Sweep
    BY <1>32 DEF Sweep, HasLock, Holds, Evict, Disconnected, Release, At
  <1>33. CASE OtherLocks
    BY <1>33 DEF OtherLocks, Begin, Enqueue, At
  <1>34. CASE OtherUnlocks
    BY <1>34 DEF OtherUnlocks, HasLock, Holds, Release, At
  <1>35. CASE TimePasses
    BY <1>35 DEF TimePasses
  <1>36. CASE ServerRestarts
    BY <1>36 DEF ServerRestarts, Fault, Disconnected, NoAgent, NewTurn
  <1>37. CASE UNCHANGED vars
    BY <1>37 DEF vars
  <1>38. QED
    BY <1>1, <1>2, <1>3, <1>4, <1>5, <1>6, <1>7, <1>8, <1>9, <1>10, <1>10a, <1>11,
       <1>12, <1>13, <1>13a, <1>14, <1>15, <1>16, <1>17, <1>17a, <1>18, <1>19, <1>20, <1>21,
       <1>22, <1>23, <1>24, <1>25, <1>26, <1>27, <1>28, <1>29, <1>30, <1>31,
       <1>32, <1>33, <1>34, <1>35, <1>36, <1>37
    DEF Next, Turn, Leave, Agent, Asks, Serves

(* Every step keeps Claims: a post and a deletion take the claim only when *)
(* it is free, and each gives it up at its own end.                        *)
LEMMA ClaimsStep == ASSUME Flags, Claims, [Next]_vars PROVE Claims'
  <1> USE ChatAssumption DEF Go, ghosts, Flags, Claims, Ops
  <1>1. ASSUME NEW r \in Requests, Post(r) PROVE Claims'
    BY <1>1 DEF Post
  <1>2. ASSUME NEW r \in Requests, Record(r) PROVE Claims'
    BY <1>2 DEF Record, Enqueue, Fault
  <1>3. ASSUME NEW r \in Requests, Reuse(r) PROVE Claims'
    BY <1>3 DEF Reuse, Reusable, Release, Holds
  <1>4. ASSUME NEW r \in Requests, Connect(r) PROVE Claims'
    BY <1>4 DEF Connect, Reusable, Holds
  <1>5. ASSUME NEW r \in Requests, Connected(r) PROVE Claims'
    BY <1>5 DEF Connected, Release
  <1>6. ASSUME NEW r \in Requests, ConnectFails(r) PROVE Claims'
    BY <1>6 DEF ConnectFails, Fault, Disconnected, Release
  <1>7. ASSUME NEW r \in Requests, Replay(r) PROVE Claims'
    BY <1>7 DEF Replay, Fault, DoneTurns
  <1>8. ASSUME NEW r \in Requests, Deliver(r) PROVE Claims'
    BY <1>8 DEF Deliver, Sent, Prompt
  <1>9. ASSUME NEW r \in Requests, Receive(r) PROVE Claims'
    BY <1>9 DEF Receive
  <1>10. ASSUME NEW r \in Requests, StreamBreaks(r) PROVE Claims'
    BY <1>10 DEF StreamBreaks
  <1>10a. ASSUME NEW r \in Requests, GivesUp(r) PROVE Claims'
    BY <1>10a DEF GivesUp
  <1>11. ASSUME NEW r \in Requests, Closing(r) PROVE Claims'
    BY <1>11 DEF Closing, Unsafe, Enqueue
  <1>12. ASSUME NEW r \in Requests, Drop(r) PROVE Claims'
    BY <1>12 DEF Drop, Evict, Disconnected, Release, Holds
  <1>13. ASSUME NEW r \in Requests, DropTimesOut(r) PROVE Claims'
    BY <1>13 DEF DropTimesOut, Fault, Holds
  <1>13a. ASSUME NEW r \in Requests, DropCutShort(r) PROVE Claims'
    BY <1>13a DEF DropCutShort, Abandon, Fault, Release, Holds
  <1>14. ASSUME NEW r \in Requests, Finish(r) PROVE Claims'
    BY <1>14 DEF Finish, Fault, StatusOf
  <1>15. ASSUME NEW r \in Requests, Unclaim(r) PROVE Claims'
    BY <1>15 DEF Unclaim, NewTurn
  <1>16. ASSUME NEW r \in Requests, LeaveUnstarted(r) PROVE Claims'
    BY <1>16 DEF LeaveUnstarted
  <1>17. ASSUME NEW r \in Requests, LeaveRegistry(r) PROVE Claims'
    BY <1>17 DEF LeaveRegistry, Interrupted, Abandon
  <1>17a. ASSUME NEW r \in Requests, LeaveSwitch(r) PROVE Claims'
    BY <1>17a DEF LeaveSwitch, Interrupted, Abandon, Holds, Reusable
  <1>18. ASSUME NEW r \in Requests, LeaveAgent(r) PROVE Claims'
    BY <1>18 DEF LeaveAgent, Interrupted
  <1>19. ASSUME NEW r \in Requests, LeaveQuery(r) PROVE Claims'
    BY <1>19 DEF LeaveQuery, Interrupted, Sent, Prompt
  <1>20. ASSUME NEW r \in Requests, Say(r) PROVE Claims'
    BY <1>20 DEF Say, Item
  <1>21. ASSUME NEW r \in Requests, Answer(r) PROVE Claims'
    BY <1>21 DEF Answer
  <1>22. ASSUME NEW r \in Requests, Dies(r) PROVE Claims'
    BY <1>22 DEF Dies, Fault
  <1>23. CASE AskClose
    BY <1>23 DEF AskClose, Begin, Enqueue, At
  <1>24. CASE AskRefresh
    BY <1>24 DEF AskRefresh, Begin, Enqueue, At
  <1>25. CASE CloseSession
    BY <1>25 DEF CloseSession, HasLock, Holds, Evict, Disconnected, Release, At
  <1>26. CASE RefreshStarts
    BY <1>26 DEF RefreshStarts, HasLock, Holds, Release, At
  <1>27. CASE RefreshEnds
    BY <1>27 DEF RefreshEnds, HasLock, Holds, Release, Fault, At
  <1>28. CASE AskDelete
    BY <1>28 DEF AskDelete, Begin, Enqueue, At
  <1>29. CASE DeleteDrops
    BY <1>29 DEF DeleteDrops, HasLock, Holds, Evict, Disconnected, Release, At
  <1>30. CASE DeleteRows
    BY <1>30 DEF DeleteRows, Fault, At
  <1>31. CASE AskSweep
    BY <1>31 DEF AskSweep, Begin, Enqueue, At
  <1>32. CASE Sweep
    BY <1>32 DEF Sweep, HasLock, Holds, Evict, Disconnected, Release, At
  <1>33. CASE OtherLocks
    BY <1>33 DEF OtherLocks, Begin, Enqueue, At
  <1>34. CASE OtherUnlocks
    BY <1>34 DEF OtherUnlocks, HasLock, Holds, Release, At
  <1>35. CASE TimePasses
    BY <1>35 DEF TimePasses
  <1>36. CASE ServerRestarts
    BY <1>36 DEF ServerRestarts, Fault, Disconnected, NoAgent, NewTurn
  <1>37. CASE UNCHANGED vars
    BY <1>37 DEF vars
  <1>38. QED
    BY <1>1, <1>2, <1>3, <1>4, <1>5, <1>6, <1>7, <1>8, <1>9, <1>10, <1>10a, <1>11,
       <1>12, <1>13, <1>13a, <1>14, <1>15, <1>16, <1>17, <1>17a, <1>18, <1>19, <1>20, <1>21,
       <1>22, <1>23, <1>24, <1>25, <1>26, <1>27, <1>28, <1>29, <1>30, <1>31,
       <1>32, <1>33, <1>34, <1>35, <1>36, <1>37
    DEF Next, Turn, Leave, Agent, Asks, Serves

-----------------------------------------------------------------------------
(* Agents: who connects has found the registry empty or has emptied it.    *)

Alive ==
    /\ \A c \in Requests : client[c].at \in {"up", "starting"} => reg = c \/ pc[c] = "connecting"
    /\ \A r \in Requests : pc[r] = "connecting" => reg = NoOne

(* Only a turn that is connecting, and there is at most one, registers an  *)
(* agent, and what leaves the registry is disconnected in the same step.   *)
LEMMA AliveStep ==
    ASSUME Flags, Agents, Claims, Alive, [Next]_vars
    PROVE  Alive'
  <1> USE ChatAssumption DEF Go, ghosts, Flags, Agents, Claims, Alive, Ops
  <1>1. ASSUME NEW r \in Requests, Post(r) PROVE Alive'
    BY <1>1 DEF Post
  <1>2. ASSUME NEW r \in Requests, Record(r) PROVE Alive'
    BY <1>2 DEF Record, Enqueue, Fault
  <1>3. ASSUME NEW r \in Requests, Reuse(r) PROVE Alive'
    BY <1>3 DEF Reuse, Reusable, Release, Holds
  <1>4. ASSUME NEW r \in Requests, Connect(r) PROVE Alive'
    <2> DEFINE cs == Disconnected(client, reg)
    <2>1. client' = [cs EXCEPT ![r].at = "starting"] /\ reg' = NoOne
          /\ pc[r] = "queued" /\ pc' = [pc EXCEPT ![r] = "connecting"] /\ UNCHANGED claim
      BY <1>4 DEF Connect
    <2> HIDE DEF cs
    <2>2. DOMAIN cs = Requests /\ (\A c \in Requests \ {reg} : cs[c] = client[c])
          /\ (reg # NoOne => cs[reg].at = "gone")
      BY SparedAll DEF cs
    <2>3. \A c \in Requests \ {r} : client'[c] = cs[c]
      BY <2>1, <2>2
    <2>4. QED
      BY <2>1, <2>2, <2>3
  <1>5. ASSUME NEW r \in Requests, Connected(r) PROVE Alive'
    BY <1>5 DEF Connected, Release
  <1>6. ASSUME NEW r \in Requests, ConnectFails(r) PROVE Alive'
    BY <1>6 DEF ConnectFails, Fault, Disconnected, Release
  <1>7. ASSUME NEW r \in Requests, Replay(r) PROVE Alive'
    BY <1>7 DEF Replay, Fault, DoneTurns
  <1>8. ASSUME NEW r \in Requests, Deliver(r) PROVE Alive'
    BY <1>8 DEF Deliver, Sent, Prompt
  <1>9. ASSUME NEW r \in Requests, Receive(r) PROVE Alive'
    BY <1>9 DEF Receive
  <1>10. ASSUME NEW r \in Requests, StreamBreaks(r) PROVE Alive'
    BY <1>10 DEF StreamBreaks
  <1>10a. ASSUME NEW r \in Requests, GivesUp(r) PROVE Alive'
    BY <1>10a DEF GivesUp
  <1>11. ASSUME NEW r \in Requests, Closing(r) PROVE Alive'
    BY <1>11 DEF Closing, Unsafe, Enqueue
  <1>12. ASSUME NEW r \in Requests, Drop(r) PROVE Alive'
    BY <1>12 DEF Drop, Evict, Disconnected, Release, Holds
  <1>13. ASSUME NEW r \in Requests, DropTimesOut(r) PROVE Alive'
    BY <1>13 DEF DropTimesOut, Fault, Holds
  <1>13a. ASSUME NEW r \in Requests, DropCutShort(r) PROVE Alive'
    <2>1. reg \in Requests /\ Abandon(reg) /\ reg' = NoOne /\ pc[r] = "dropping"
          /\ pc' = [pc EXCEPT ![r] = "finish"] /\ UNCHANGED <<claim, opc>>
      BY <1>13a DEF DropCutShort
    <2>2. client'[reg].at \in {"gone", "stray"} /\ \A c \in Requests \ {reg} : client'[c] = client[c]
      BY <2>1, Abandoned
    <2>3. QED
      BY <2>1, <2>2
  <1>14. ASSUME NEW r \in Requests, Finish(r) PROVE Alive'
    BY <1>14 DEF Finish, Fault, StatusOf
  <1>15. ASSUME NEW r \in Requests, Unclaim(r) PROVE Alive'
    BY <1>15 DEF Unclaim, NewTurn
  <1>16. ASSUME NEW r \in Requests, LeaveUnstarted(r) PROVE Alive'
    BY <1>16 DEF LeaveUnstarted
  <1>17. ASSUME NEW r \in Requests, LeaveRegistry(r) PROVE Alive'
    <2>1. \A c \in Requests \ {r} : client'[c] = client[c]
      BY <1>17, Abandoned DEF LeaveRegistry
    <2>2. pc[r] = "connecting" => client'[r].at \in {"gone", "stray"}
      BY <1>17, Abandoned DEF LeaveRegistry
    <2>3. pc[r] = "queued" => client'[r] = client[r]
      BY <1>17 DEF LeaveRegistry
    <2>4. pc[r] \in {"queued", "connecting"} /\ pc' = [pc EXCEPT ![r] = "closing"] /\ UNCHANGED <<reg, claim, opc>>
      BY <1>17 DEF LeaveRegistry, Interrupted
    <2>5. QED
      BY <2>1, <2>2, <2>3, <2>4
  <1>17a. ASSUME NEW r \in Requests, LeaveSwitch(r) PROVE Alive'
    <2>1. reg \in Requests /\ Abandon(reg) /\ reg' = NoOne /\ pc[r] = "queued"
          /\ pc' = [pc EXCEPT ![r] = "closing"] /\ UNCHANGED <<claim, opc>>
      BY <1>17a DEF LeaveSwitch, Interrupted
    <2>2. client'[reg].at \in {"gone", "stray"} /\ \A c \in Requests \ {reg} : client'[c] = client[c]
      BY <2>1, Abandoned
    <2>3. QED
      BY <2>1, <2>2
  <1>18. ASSUME NEW r \in Requests, LeaveAgent(r) PROVE Alive'
    BY <1>18 DEF LeaveAgent, Interrupted
  <1>19. ASSUME NEW r \in Requests, LeaveQuery(r) PROVE Alive'
    BY <1>19 DEF LeaveQuery, Interrupted, Sent, Prompt
  <1>20. ASSUME NEW r \in Requests, Say(r) PROVE Alive'
    BY <1>20 DEF Say, Item
  <1>21. ASSUME NEW r \in Requests, Answer(r) PROVE Alive'
    BY <1>21 DEF Answer
  <1>22. ASSUME NEW r \in Requests, Dies(r) PROVE Alive'
    BY <1>22 DEF Dies, Fault
  <1>23. CASE AskClose
    BY <1>23 DEF AskClose, Begin, Enqueue, At
  <1>24. CASE AskRefresh
    BY <1>24 DEF AskRefresh, Begin, Enqueue, At
  <1>25. CASE CloseSession
    BY <1>25 DEF CloseSession, HasLock, Holds, Evict, Disconnected, Release, At
  <1>26. CASE RefreshStarts
    BY <1>26 DEF RefreshStarts, HasLock, Holds, Release, At
  <1>27. CASE RefreshEnds
    BY <1>27 DEF RefreshEnds, HasLock, Holds, Release, Fault, At
  <1>28. CASE AskDelete
    BY <1>28 DEF AskDelete, Begin, Enqueue, At
  <1>29. CASE DeleteDrops
    BY <1>29 DEF DeleteDrops, HasLock, Holds, Evict, Disconnected, Release, At
  <1>30. CASE DeleteRows
    BY <1>30 DEF DeleteRows, Fault, At
  <1>31. CASE AskSweep
    BY <1>31 DEF AskSweep, Begin, Enqueue, At
  <1>32. CASE Sweep
    <2>1. CASE UNCHANGED <<client, reg>>
      BY <1>32, <2>1 DEF Sweep, HasLock, At
    <2>2. CASE client' = Disconnected(client, reg) /\ reg' = NoOne
      <3>1. /\ \A c \in Requests \ {reg} : client'[c] = client[c]
            /\ reg # NoOne => client'[reg].at = "gone" /\ client'[reg].knows = client[reg].knows
        BY <2>2, SparedAll
      <3>2. \A c \in Requests :
               \/ c # reg /\ client'[c] = client[c]
               \/ c = reg /\ client'[c].at = "gone" /\ client'[c].knows = client[c].knows
        BY <3>1
      <3>3. opc["sweep"] = "queued" /\ opc' = [opc EXCEPT !["sweep"] = "idle"]
            /\ UNCHANGED <<claim, rows, pc, mine, deleted>>
        BY <1>32 DEF Sweep, HasLock, At
      <3>4. \A c \in Requests : client'[c].at \in {"up", "starting"} => pc'[c] = "connecting"
        BY <3>2, <3>3
      <3>5. QED
        BY <2>2, <3>3, <3>4
    <2>3. QED
      BY <1>32, <2>1, <2>2 DEF Sweep, Evict
  <1>33. CASE OtherLocks
    BY <1>33 DEF OtherLocks, Begin, Enqueue, At
  <1>34. CASE OtherUnlocks
    BY <1>34 DEF OtherUnlocks, HasLock, Holds, Release, At
  <1>35. CASE TimePasses
    BY <1>35 DEF TimePasses
  <1>36. CASE ServerRestarts
    <2>1. \A c \in Requests : client'[c].at \in {"none", "gone", "stray"}
      <3> TAKE c \in Requests
      <3>1. client'[c] = IF client[c].at \in {"none", "stray"} THEN client[c]
                                                            ELSE Disconnected(client, c)[c]
        BY <1>36 DEF ServerRestarts
      <3>2. QED
        BY <3>1 DEF Disconnected
    <2>2. \A r \in Requests : pc'[r] = IF pc[r] = "idle" THEN "idle" ELSE "over"
      BY <1>36 DEF ServerRestarts
    <2>3. QED
      BY <2>1, <2>2
  <1>37. CASE UNCHANGED vars
    BY <1>37 DEF vars
  <1>38. QED
    BY <1>1, <1>2, <1>3, <1>4, <1>5, <1>6, <1>7, <1>8, <1>9, <1>10, <1>10a, <1>11,
       <1>12, <1>13, <1>13a, <1>14, <1>15, <1>16, <1>17, <1>17a, <1>18, <1>19, <1>20, <1>21,
       <1>22, <1>23, <1>24, <1>25, <1>26, <1>27, <1>28, <1>29, <1>30, <1>31,
       <1>32, <1>33, <1>34, <1>35, <1>36, <1>37
    DEF Next, Turn, Leave, Agent, Asks, Serves

-----------------------------------------------------------------------------
(* Stored turns: a row that says "running" is the one its turn will finish.*)

Row == [by : Requests, status : Statuses]
RowsTyped == rows \in Seq(Row)

Stored ==
    \A i \in DOMAIN rows :
        /\ pc[rows[i].by] \notin {"idle", "start"}
        /\ rows[i].status = "running" /\ rows[i].by \notin unwritten =>
              claim = rows[i].by /\ mine[rows[i].by].row = i /\ pc[rows[i].by] # "release"

(* Every step keeps RowsTyped: rows are appended by Record, rewritten by   *)
(* Finish and the sweep at start-up, and removed all at once.              *)
LEMMA RowsStep == ASSUME Flags, Turns, RowsTyped, [Next]_vars PROVE RowsTyped'
  <1> USE ChatAssumption DEF Go, ghosts, Flags, Turns, RowsTyped
  <1>1. ASSUME NEW r \in Requests, Post(r) PROVE RowsTyped'
    BY <1>1 DEF Post
  <1>2. ASSUME NEW r \in Requests, Record(r) PROVE RowsTyped'
    <2> DEFINE x == [by |-> r, status |-> "running"]
    <2>1. x \in Row
      BY DEF Row, Statuses
    <2>2. rows' = Append(rows, x) \/ rows' = rows
      BY <1>2 DEF Record
    <2>3. QED
      BY <2>1, <2>2
  <1>3. ASSUME NEW r \in Requests, Reuse(r) PROVE RowsTyped'
    BY <1>3 DEF Reuse, Reusable, Release, Holds
  <1>4. ASSUME NEW r \in Requests, Connect(r) PROVE RowsTyped'
    BY <1>4 DEF Connect, Reusable, Holds
  <1>5. ASSUME NEW r \in Requests, Connected(r) PROVE RowsTyped'
    BY <1>5 DEF Connected, Release
  <1>6. ASSUME NEW r \in Requests, ConnectFails(r) PROVE RowsTyped'
    BY <1>6 DEF ConnectFails, Fault, Disconnected, Release
  <1>7. ASSUME NEW r \in Requests, Replay(r) PROVE RowsTyped'
    BY <1>7 DEF Replay, Fault, DoneTurns
  <1>8. ASSUME NEW r \in Requests, Deliver(r) PROVE RowsTyped'
    BY <1>8 DEF Deliver, Sent, Prompt
  <1>9. ASSUME NEW r \in Requests, Receive(r) PROVE RowsTyped'
    BY <1>9 DEF Receive
  <1>10. ASSUME NEW r \in Requests, StreamBreaks(r) PROVE RowsTyped'
    BY <1>10 DEF StreamBreaks
  <1>10a. ASSUME NEW r \in Requests, GivesUp(r) PROVE RowsTyped'
    BY <1>10a DEF GivesUp
  <1>11. ASSUME NEW r \in Requests, Closing(r) PROVE RowsTyped'
    BY <1>11 DEF Closing, Unsafe, Enqueue
  <1>12. ASSUME NEW r \in Requests, Drop(r) PROVE RowsTyped'
    BY <1>12 DEF Drop, Evict, Disconnected, Release, Holds
  <1>13. ASSUME NEW r \in Requests, DropTimesOut(r) PROVE RowsTyped'
    BY <1>13 DEF DropTimesOut, Fault, Holds
  <1>13a. ASSUME NEW r \in Requests, DropCutShort(r) PROVE RowsTyped'
    BY <1>13a DEF DropCutShort, Abandon, Fault, Release, Holds
  <1>14. ASSUME NEW r \in Requests, Finish(r) PROVE RowsTyped'
    <2>1. CASE rows' = rows
      BY <2>1
    <2>2. CASE /\ mine[r].row \in DOMAIN rows
               /\ rows' = [rows EXCEPT ![mine[r].row].status = StatusOf(mine[r])]
      <3> DEFINE k == mine[r].row
                 s == StatusOf(mine[r])
      <3>1. s \in Statuses
        BY DEF StatusOf, Statuses
      <3>2. rows[k] \in Row /\ k \in 1 .. Len(rows)
        BY <2>2
      <3>3. [rows[k] EXCEPT !.status = s] \in Row
        BY <3>1, <3>2 DEF Row
      <3>4. rows' = [rows EXCEPT ![k] = [rows[k] EXCEPT !.status = s]]
        BY <2>2
      <3> HIDE DEF k, s
      <3>5. QED
        BY <3>2, <3>3, <3>4
    <2>3. QED
      BY <1>14, <2>1, <2>2 DEF Finish
  <1>15. ASSUME NEW r \in Requests, Unclaim(r) PROVE RowsTyped'
    BY <1>15 DEF Unclaim, NewTurn
  <1>16. ASSUME NEW r \in Requests, LeaveUnstarted(r) PROVE RowsTyped'
    BY <1>16 DEF LeaveUnstarted
  <1>17. ASSUME NEW r \in Requests, LeaveRegistry(r) PROVE RowsTyped'
    BY <1>17 DEF LeaveRegistry, Interrupted, Abandon
  <1>17a. ASSUME NEW r \in Requests, LeaveSwitch(r) PROVE RowsTyped'
    BY <1>17a DEF LeaveSwitch, Interrupted, Abandon, Holds, Reusable
  <1>18. ASSUME NEW r \in Requests, LeaveAgent(r) PROVE RowsTyped'
    BY <1>18 DEF LeaveAgent, Interrupted
  <1>19. ASSUME NEW r \in Requests, LeaveQuery(r) PROVE RowsTyped'
    BY <1>19 DEF LeaveQuery, Interrupted, Sent, Prompt
  <1>20. ASSUME NEW r \in Requests, Say(r) PROVE RowsTyped'
    BY <1>20 DEF Say, Item
  <1>21. ASSUME NEW r \in Requests, Answer(r) PROVE RowsTyped'
    BY <1>21 DEF Answer
  <1>22. ASSUME NEW r \in Requests, Dies(r) PROVE RowsTyped'
    BY <1>22 DEF Dies, Fault
  <1>23. CASE AskClose
    BY <1>23 DEF AskClose, Begin, Enqueue, At
  <1>24. CASE AskRefresh
    BY <1>24 DEF AskRefresh, Begin, Enqueue, At
  <1>25. CASE CloseSession
    BY <1>25 DEF CloseSession, HasLock, Holds, Evict, Disconnected, Release, At
  <1>26. CASE RefreshStarts
    BY <1>26 DEF RefreshStarts, HasLock, Holds, Release, At
  <1>27. CASE RefreshEnds
    BY <1>27 DEF RefreshEnds, HasLock, Holds, Release, Fault, At
  <1>28. CASE AskDelete
    BY <1>28 DEF AskDelete, Begin, Enqueue, At
  <1>29. CASE DeleteDrops
    BY <1>29 DEF DeleteDrops, HasLock, Holds, Evict, Disconnected, Release, At
  <1>30. CASE DeleteRows
    <2>1. CASE rows' = <<>>
      BY <2>1
    <2>2. CASE rows' = rows
      BY <2>2
    <2>3. QED
      BY <1>30, <2>1, <2>2 DEF DeleteRows
  <1>31. CASE AskSweep
    BY <1>31 DEF AskSweep, Begin, Enqueue, At
  <1>32. CASE Sweep
    BY <1>32 DEF Sweep, HasLock, Holds, Evict, Disconnected, Release, At
  <1>33. CASE OtherLocks
    BY <1>33 DEF OtherLocks, Begin, Enqueue, At
  <1>34. CASE OtherUnlocks
    BY <1>34 DEF OtherUnlocks, HasLock, Holds, Release, At
  <1>35. CASE TimePasses
    BY <1>35 DEF TimePasses
  <1>36. CASE ServerRestarts
    <2> DEFINE new(i) == IF rows[i].status = "running"
                         THEN [rows[i] EXCEPT !.status = "interrupted"] ELSE rows[i]
    <2>1. ASSUME NEW i \in DOMAIN rows PROVE new(i) \in Row
      <3>1. rows[i] \in Row /\ "interrupted" \in Statuses
        BY DEF Statuses
      <3>2. [rows[i] EXCEPT !.status = "interrupted"] \in Row
        BY <3>1 DEF Row
      <3>3. QED
        BY <3>1, <3>2
    <2>2. rows' = rows \/ rows' = [i \in DOMAIN rows |-> new(i)]
      BY <1>36 DEF ServerRestarts
    <2>3. DOMAIN rows = 1 .. Len(rows) /\ Len(rows) \in Nat
      OBVIOUS
    <2> HIDE DEF new
    <2>4. QED
      BY <2>1, <2>2, <2>3
  <1>37. CASE UNCHANGED vars
    BY <1>37 DEF vars
  <1>38. QED
    BY <1>1, <1>2, <1>3, <1>4, <1>5, <1>6, <1>7, <1>8, <1>9, <1>10, <1>10a, <1>11,
       <1>12, <1>13, <1>13a, <1>14, <1>15, <1>16, <1>17, <1>17a, <1>18, <1>19, <1>20, <1>21,
       <1>22, <1>23, <1>24, <1>25, <1>26, <1>27, <1>28, <1>29, <1>30, <1>31,
       <1>32, <1>33, <1>34, <1>35, <1>36, <1>37
    DEF Next, Turn, Leave, Agent, Asks, Serves

(* A row is written by its own turn, which holds the claim until it has    *)
(* finished the row, failed to, or the server has restarted.               *)
LEMMA StoredStep ==
    ASSUME Flags, Turns, Claims, RowsTyped, Stored, [Next]_vars
    PROVE  Stored'
  <1> USE ChatAssumption DEF Go, ghosts, Flags, Turns, Claims, Stored, Ops
  <1>a. /\ DOMAIN rows = 1 .. Len(rows) /\ Len(rows) \in Nat
        /\ \A i \in DOMAIN rows : rows[i].by \in Requests
    <2>1. rows \in Seq(Row)
      BY DEF RowsTyped
    <2>2. DOMAIN rows = 1 .. Len(rows) /\ Len(rows) \in Nat /\ \A i \in DOMAIN rows : rows[i] \in Row
      BY <2>1
    <2>3. QED
      BY <2>2 DEF Row
  <1> USE <1>a
  <1>1. ASSUME NEW r \in Requests, Post(r) PROVE Stored'
    BY <1>1 DEF Post
  <1>2. ASSUME NEW r \in Requests, Record(r) PROVE Stored'
    <2> DEFINE x == [by |-> r, status |-> "running"]
    <2>1. CASE /\ rows' = Append(rows, x)
               /\ mine' = [mine EXCEPT ![r].row = Len(rows) + 1]
      <3>1. /\ DOMAIN rows' = 1 .. (Len(rows) + 1) /\ rows'[Len(rows) + 1] = x
            /\ \A i \in DOMAIN rows : rows'[i] = rows[i]
        BY <2>1 DEF RowsTyped
      <3>2. \A i \in DOMAIN rows : rows[i].status = "running" => rows[i].by \in unwritten
        BY <1>2 DEF Record
      <3>3. /\ pc[r] = "start" /\ pc' = [pc EXCEPT ![r] = "queued"]
            /\ UNCHANGED <<claim, unwritten>>
        BY <1>2 DEF Record
      <3>4. ASSUME NEW i \in DOMAIN rows
            PROVE /\ pc'[rows'[i].by] \notin {"idle", "start"}
                  /\ rows'[i].status = "running" => rows'[i].by \in unwritten'
        BY <3>1, <3>2, <3>3
      <3>5. LET i == Len(rows) + 1
            IN  /\ rows'[i].by = r /\ claim' = r /\ mine'[r].row = i /\ pc'[r] = "queued"
        BY <2>1, <3>1, <3>3
      <3>6. QED
        BY <3>1, <3>4, <3>5
    <2>2. CASE UNCHANGED <<rows, mine>>
      BY <1>2, <2>2 DEF Record
    <2>3. QED
      BY <1>2, <2>1, <2>2 DEF Record
  <1>3. ASSUME NEW r \in Requests, Reuse(r) PROVE Stored'
    BY <1>3 DEF Reuse, Reusable, Release, Holds
  <1>4. ASSUME NEW r \in Requests, Connect(r) PROVE Stored'
    BY <1>4 DEF Connect, Reusable, Holds
  <1>5. ASSUME NEW r \in Requests, Connected(r) PROVE Stored'
    BY <1>5 DEF Connected, Release
  <1>6. ASSUME NEW r \in Requests, ConnectFails(r) PROVE Stored'
    BY <1>6 DEF ConnectFails, Fault, Disconnected, Release
  <1>7. ASSUME NEW r \in Requests, Replay(r) PROVE Stored'
    BY <1>7 DEF Replay, Fault, DoneTurns
  <1>8. ASSUME NEW r \in Requests, Deliver(r) PROVE Stored'
    BY <1>8 DEF Deliver, Sent, Prompt
  <1>9. ASSUME NEW r \in Requests, Receive(r) PROVE Stored'
    <2>1. UNCHANGED <<claim, opc, rows, unwritten>> /\ pc[r] = "stream"
          /\ (pc' = pc \/ pc' = [pc EXCEPT ![r] = "closing"])
      BY <1>9, ReceiveKeeps
    <2>2. \A q \in Requests : mine'[q].row = mine[q].row
      BY <1>9, ReceiveKeeps
    <2>3. QED
      BY <2>1, <2>2
  <1>10. ASSUME NEW r \in Requests, StreamBreaks(r) PROVE Stored'
    BY <1>10 DEF StreamBreaks
  <1>10a. ASSUME NEW r \in Requests, GivesUp(r) PROVE Stored'
    BY <1>10a DEF GivesUp
  <1>11. ASSUME NEW r \in Requests, Closing(r) PROVE Stored'
    BY <1>11 DEF Closing, Unsafe, Enqueue
  <1>12. ASSUME NEW r \in Requests, Drop(r) PROVE Stored'
    BY <1>12 DEF Drop, Evict, Disconnected, Release, Holds
  <1>13. ASSUME NEW r \in Requests, DropTimesOut(r) PROVE Stored'
    BY <1>13 DEF DropTimesOut, Fault, Holds
  <1>13a. ASSUME NEW r \in Requests, DropCutShort(r) PROVE Stored'
    BY <1>13a DEF DropCutShort, Fault, Release, Holds
  <1>14. ASSUME NEW r \in Requests, Finish(r) PROVE Stored'
    <2> DEFINE k == mine[r].row
               s == StatusOf(mine[r])
    <2>1. s # "running"
      BY DEF StatusOf
    <2>2. CASE rows' = rows /\ unwritten' = unwritten \cup {r}
      BY <1>14, <2>2 DEF Finish
    <2>3. CASE k \notin DOMAIN rows /\ rows' = rows /\ unwritten' = unwritten
      BY <1>14, <2>3 DEF Finish
    <2>4. CASE k \in DOMAIN rows /\ rows' = [rows EXCEPT ![k].status = s] /\ unwritten' = unwritten
      <3>1. DOMAIN rows' = DOMAIN rows /\ \A i \in DOMAIN rows \ {k} : rows'[i] = rows[i]
        BY <2>4
      <3>2. rows'[k].by = rows[k].by /\ rows'[k].status = s
        BY <2>4 DEF RowsTyped, Row
      <3> HIDE DEF s
      <3>3. QED
        BY <1>14, <2>1, <2>4, <3>1, <3>2 DEF Finish
    <2>5. QED
      BY <1>14, <2>2, <2>3, <2>4 DEF Finish
  <1>15. ASSUME NEW r \in Requests, Unclaim(r) PROVE Stored'
    BY <1>15 DEF Unclaim, NewTurn
  <1>16. ASSUME NEW r \in Requests, LeaveUnstarted(r) PROVE Stored'
    BY <1>16 DEF LeaveUnstarted
  <1>17. ASSUME NEW r \in Requests, LeaveRegistry(r) PROVE Stored'
    BY <1>17 DEF LeaveRegistry, Interrupted
  <1>17a. ASSUME NEW r \in Requests, LeaveSwitch(r) PROVE Stored'
    BY <1>17a DEF LeaveSwitch, Interrupted, Holds, Reusable
  <1>18. ASSUME NEW r \in Requests, LeaveAgent(r) PROVE Stored'
    BY <1>18 DEF LeaveAgent, Interrupted
  <1>19. ASSUME NEW r \in Requests, LeaveQuery(r) PROVE Stored'
    BY <1>19 DEF LeaveQuery, Interrupted, Sent, Prompt
  <1>20. ASSUME NEW r \in Requests, Say(r) PROVE Stored'
    BY <1>20 DEF Say, Item
  <1>21. ASSUME NEW r \in Requests, Answer(r) PROVE Stored'
    BY <1>21 DEF Answer
  <1>22. ASSUME NEW r \in Requests, Dies(r) PROVE Stored'
    BY <1>22 DEF Dies, Fault
  <1>23. CASE AskClose
    BY <1>23 DEF AskClose, Begin, Enqueue, At
  <1>24. CASE AskRefresh
    BY <1>24 DEF AskRefresh, Begin, Enqueue, At
  <1>25. CASE CloseSession
    BY <1>25 DEF CloseSession, HasLock, Holds, Evict, Disconnected, Release, At
  <1>26. CASE RefreshStarts
    BY <1>26 DEF RefreshStarts, HasLock, Holds, Release, At
  <1>27. CASE RefreshEnds
    BY <1>27 DEF RefreshEnds, HasLock, Holds, Release, Fault, At
  <1>28. CASE AskDelete
    BY <1>28 DEF AskDelete, Begin, Enqueue, At
  <1>29. CASE DeleteDrops
    BY <1>29 DEF DeleteDrops, HasLock, Holds, Evict, Disconnected, Release, At
  <1>30. CASE DeleteRows
    <2>1. CASE rows' = <<>>
      BY <2>1
    <2>2. CASE rows' = rows
      BY <1>30, <2>2 DEF DeleteRows, At
    <2>3. QED
      BY <1>30, <2>1, <2>2 DEF DeleteRows
  <1>31. CASE AskSweep
    BY <1>31 DEF AskSweep, Begin, Enqueue, At
  <1>32. CASE Sweep
    BY <1>32 DEF Sweep, HasLock, Holds, Evict, Disconnected, Release, At
  <1>33. CASE OtherLocks
    BY <1>33 DEF OtherLocks, Begin, Enqueue, At
  <1>34. CASE OtherUnlocks
    BY <1>34 DEF OtherUnlocks, HasLock, Holds, Release, At
  <1>35. CASE TimePasses
    BY <1>35 DEF TimePasses
  <1>36. CASE ServerRestarts
    <2>1. \A r \in Requests : pc'[r] = IF pc[r] = "idle" THEN "idle" ELSE "over"
      BY <1>36 DEF ServerRestarts
    <2>2. CASE UNCHANGED rows /\ unwritten' = unwritten \cup {rows[i].by : i \in DOMAIN rows}
      BY <2>1, <2>2
    <2>3. CASE rows' = [i \in DOMAIN rows |->
                          IF rows[i].status = "running"
                          THEN [rows[i] EXCEPT !.status = "interrupted"] ELSE rows[i]]
      <3>1. \A i \in DOMAIN rows : rows'[i].by = rows[i].by /\ rows'[i].status # "running"
        BY <2>3 DEF RowsTyped, Row
      <3>2. DOMAIN rows' = DOMAIN rows
        BY <2>3
      <3>3. QED
        BY <2>1, <3>1, <3>2
    <2>4. QED
      BY <1>36, <2>2, <2>3 DEF ServerRestarts
  <1>37. CASE UNCHANGED vars
    BY <1>37 DEF vars
  <1>38. QED
    BY <1>1, <1>2, <1>3, <1>4, <1>5, <1>6, <1>7, <1>8, <1>9, <1>10, <1>10a, <1>11,
       <1>12, <1>13, <1>13a, <1>14, <1>15, <1>16, <1>17, <1>17a, <1>18, <1>19, <1>20, <1>21,
       <1>22, <1>23, <1>24, <1>25, <1>26, <1>27, <1>28, <1>29, <1>30, <1>31,
       <1>32, <1>33, <1>34, <1>35, <1>36, <1>37
    DEF Next, Turn, Leave, Agent, Asks, Serves

-----------------------------------------------------------------------------
(* Memory: what a deletion has removed is known to no agent that can still *)
(* be asked, because the deletion empties the registry before it removes   *)
(* the rows and holds the claim in between.                                *)

Early == {"idle", "start", "queued", "connecting"}

Forgotten ==
    /\ opc["delete"] = "busy" => reg = NoOne
    /\ reg # NoOne => pc[reg] \notin Early /\ client[reg].knows \cap deleted = {}
    /\ \A i \in DOMAIN rows : rows[i].by \notin deleted
    /\ \A r \in Requests :
          /\ r \in deleted => pc[r] = "over"
          /\ pc[r] \in {"idle", "start", "over"} => mine[r].told = {}
          /\ mine[r].told \cap deleted = {}
          /\ pc[r] \in Early => client[r].knows = {}

(* Nobody registers an agent while the deletion has the claim, and a new   *)
(* agent knows nothing.                                                    *)
LEMMA ForgottenStep ==
    ASSUME Flags, Agents, Turns, Claims, Alive, RowsTyped, Stored, Forgotten, [Next]_vars
    PROVE  Forgotten'
  <1> USE ChatAssumption DEF Go, ghosts, Flags, Agents, Turns, Claims, Forgotten, Early, Ops
  <1>a. /\ DOMAIN rows = 1 .. Len(rows) /\ Len(rows) \in Nat
        /\ \A i \in DOMAIN rows : rows[i].by \in Requests
    <2>1. rows \in Seq(Row)
      BY DEF RowsTyped
    <2>2. DOMAIN rows = 1 .. Len(rows) /\ Len(rows) \in Nat /\ \A i \in DOMAIN rows : rows[i] \in Row
      BY <2>1
    <2>3. QED
      BY <2>2 DEF Row
  <1> USE <1>a
  <1>1. ASSUME NEW r \in Requests, Post(r) PROVE Forgotten'
    BY <1>1 DEF Post
  <1>2. ASSUME NEW r \in Requests, Record(r) PROVE Forgotten'
    <2>1. /\ pc[r] = "start" /\ pc' = [pc EXCEPT ![r] = "queued"]
          /\ UNCHANGED <<reg, opc, client, deleted>>
      BY <1>2 DEF Record
    <2>2. \A q \in Requests : mine'[q].told = mine[q].told
      BY <1>2 DEF Record, Fault
    <2>3. rows' = Append(rows, [by |-> r, status |-> "running"]) \/ rows' = rows
      BY <1>2 DEF Record
    <2>4. \A i \in DOMAIN rows' : rows'[i].by \notin deleted
      <3> DEFINE x == [by |-> r, status |-> "running"]
      <3>1. CASE rows' = Append(rows, x)
        <4>1. /\ DOMAIN rows' = 1 .. (Len(rows) + 1) /\ rows'[Len(rows) + 1] = x
              /\ \A i \in DOMAIN rows : rows'[i] = rows[i]
          BY <3>1 DEF RowsTyped
        <4>2. r \notin deleted /\ x.by = r
          BY <2>1
        <4> HIDE DEF x
        <4>3. QED
          BY <4>1, <4>2
      <3>2. QED
        BY <2>3, <3>1
    <2>5. QED
      BY <2>1, <2>2, <2>4
  <1>3. ASSUME NEW r \in Requests, Reuse(r) PROVE Forgotten'
    BY <1>3 DEF Reuse, Reusable, Release, Holds
  <1>4. ASSUME NEW r \in Requests, Connect(r) PROVE Forgotten'
    <2> DEFINE cs == Disconnected(client, reg)
    <2>1. client' = [cs EXCEPT ![r].at = "starting"]
      BY <1>4 DEF Connect
    <2> HIDE DEF cs
    <2>2. /\ DOMAIN cs = Requests /\ DOMAIN cs[r] = {"at", "pend", "queue", "knows", "refreshed"}
          /\ \A c \in Requests \ {reg} : cs[c] = client[c]
          /\ reg # NoOne => cs[reg].knows = client[reg].knows
      BY SparedAll DEF cs
    <2>3. \A c \in Requests : client'[c].knows = client[c].knows
      BY <2>1, <2>2
    <2>4. /\ pc[r] = "queued" /\ pc' = [pc EXCEPT ![r] = "connecting"] /\ reg' = NoOne
          /\ UNCHANGED <<opc, rows, mine, deleted>>
      BY <1>4 DEF Connect
    <2>5. QED
      BY <2>3, <2>4
  <1>5. ASSUME NEW r \in Requests, Connected(r) PROVE Forgotten'
    BY <1>5 DEF Connected, Release
  <1>6. ASSUME NEW r \in Requests, ConnectFails(r) PROVE Forgotten'
    BY <1>6 DEF ConnectFails, Fault, Disconnected, Release
  <1>7. ASSUME NEW r \in Requests, Replay(r) PROVE Forgotten'
    BY <1>7 DEF Replay, Fault, DoneTurns
  <1>8. ASSUME NEW r \in Requests, Deliver(r) PROVE Forgotten'
    <2>0. CASE client[mine[r].on].at # "up"
      <3>1. /\ pc[r] = "deliver" /\ pc' = [pc EXCEPT ![r] = "closing"]
            /\ mine' = [mine EXCEPT ![r].error = "error"]
            /\ UNCHANGED <<opc, rows, deleted, reg, client>>
        BY <1>8, <2>0 DEF Deliver
      <3>2. QED
        BY <3>1
    <2> SUFFICES ASSUME client[mine[r].on].at = "up" PROVE Forgotten'
      BY <2>0
    <2>1. /\ pc[r] = "deliver" /\ pc' = [pc EXCEPT ![r] = "stream"]
          /\ UNCHANGED <<opc, rows, deleted, reg>> /\ client' = Sent(r, FALSE)
          /\ client[mine[r].on].at = "up"
      BY <1>8 DEF Deliver
    <2>q. PICK quiet \in BOOLEAN : client' = Sent(r, quiet)
      BY <2>1
    <2>2. \A c \in Requests :
            /\ c # mine[r].on => client'[c].knows = client[c].knows
            /\ c = mine[r].on => client'[c].knows = client[c].knows \cup mine[r].told \cup {r}
      BY <2>q, PromptSent
    <2>3. r \notin deleted /\ mine[r].told \cap deleted = {}
      BY <2>1
    <2>4. \A q \in Requests : mine'[q].told = mine[q].told
      BY <1>8 DEF Deliver, Turns
    <2>5. reg # NoOne => client'[reg].knows \cap deleted = {}
      BY <2>2, <2>3
    <2>6. mine[r].on \in Requests => pc[mine[r].on] \notin Early
      BY <2>1 DEF Alive
    <2>7. \A q \in Requests : pc'[q] \in Early => client'[q].knows = {}
      BY <2>1, <2>2, <2>6
    <2>8. QED
      BY <2>1, <2>4, <2>5, <2>7
  <1>9. ASSUME NEW r \in Requests, Receive(r) PROVE Forgotten'
    <2>1. UNCHANGED <<reg, opc, rows, deleted>>
      BY <1>9, ReceiveKeeps
    <2>2. \A q \in Requests : mine'[q].told = mine[q].told /\ client'[q].knows = client[q].knows
      BY <1>9, ReceiveKeeps
    <2>3. pc[r] = "stream" /\ (pc' = pc \/ pc' = [pc EXCEPT ![r] = "closing"])
      BY <1>9, ReceiveKeeps
    <2>4. QED
      BY <2>1, <2>2, <2>3
  <1>10. ASSUME NEW r \in Requests, StreamBreaks(r) PROVE Forgotten'
    BY <1>10 DEF StreamBreaks
  <1>10a. ASSUME NEW r \in Requests, GivesUp(r) PROVE Forgotten'
    BY <1>10a DEF GivesUp
  <1>11. ASSUME NEW r \in Requests, Closing(r) PROVE Forgotten'
    BY <1>11 DEF Closing, Unsafe, Enqueue
  <1>12. ASSUME NEW r \in Requests, Drop(r) PROVE Forgotten'
    BY <1>12 DEF Drop, Evict, Disconnected, Release, Holds
  <1>13. ASSUME NEW r \in Requests, DropTimesOut(r) PROVE Forgotten'
    BY <1>13 DEF DropTimesOut, Fault, Holds
  <1>13a. ASSUME NEW r \in Requests, DropCutShort(r) PROVE Forgotten'
    BY <1>13a DEF DropCutShort, Abandon, Fault, Release, Holds
  <1>14. ASSUME NEW r \in Requests, Finish(r) PROVE Forgotten'
    <2>1. pc[r] = "finish" /\ pc' = [pc EXCEPT ![r] = "release"]
          /\ UNCHANGED <<reg, opc, client, mine, deleted>>
      BY <1>14 DEF Finish
    <2>2. DOMAIN rows' = DOMAIN rows /\ \A i \in DOMAIN rows : rows'[i].by = rows[i].by
      <3>1. CASE rows' = rows
        BY <3>1
      <3>2. CASE /\ mine[r].row \in DOMAIN rows
                 /\ rows' = [rows EXCEPT ![mine[r].row].status = StatusOf(mine[r])]
        BY <3>2 DEF RowsTyped, Row
      <3>3. QED
        BY <1>14, <3>1, <3>2 DEF Finish
    <2>3. QED
      BY <2>1, <2>2
  <1>15. ASSUME NEW r \in Requests, Unclaim(r) PROVE Forgotten'
    BY <1>15 DEF Unclaim, NewTurn
  <1>16. ASSUME NEW r \in Requests, LeaveUnstarted(r) PROVE Forgotten'
    BY <1>16 DEF LeaveUnstarted
  <1>17. ASSUME NEW r \in Requests, LeaveRegistry(r) PROVE Forgotten'
    <2>1. \A c \in Requests : client'[c].knows = client[c].knows
      BY <1>17, Abandoned DEF LeaveRegistry
    <2>2. /\ UNCHANGED <<claim, opc, rows, deleted>> /\ pc[r] \in {"queued", "connecting"}
          /\ pc' = [pc EXCEPT ![r] = "closing"] /\ mine' = [mine EXCEPT ![r].error = "interrupted"]
          /\ UNCHANGED reg
      BY <1>17 DEF LeaveRegistry, Interrupted
    <2>3. QED
      BY <2>1, <2>2
  <1>17a. ASSUME NEW r \in Requests, LeaveSwitch(r) PROVE Forgotten'
    <2>1. \A c \in Requests : client'[c].knows = client[c].knows
      BY <1>17a, Abandoned DEF LeaveSwitch
    <2>2. /\ UNCHANGED <<claim, opc, rows, deleted>> /\ pc[r] \in {"queued", "connecting"}
          /\ pc' = [pc EXCEPT ![r] = "closing"] /\ mine' = [mine EXCEPT ![r].error = "interrupted"]
          /\ reg' = NoOne
      BY <1>17a DEF LeaveSwitch, Interrupted
    <2>3. QED
      BY <2>1, <2>2
  <1>18. ASSUME NEW r \in Requests, LeaveAgent(r) PROVE Forgotten'
    BY <1>18 DEF LeaveAgent, Interrupted
  <1>19. ASSUME NEW r \in Requests, LeaveQuery(r) PROVE Forgotten'
    <2>1. /\ pc[r] = "deliver" /\ pc' = [pc EXCEPT ![r] = "closing"]
          /\ UNCHANGED <<opc, rows, deleted, reg>> /\ client' = Sent(r, TRUE)
          /\ client[mine[r].on].at = "up"
      BY <1>19 DEF LeaveQuery, Interrupted
    <2>q. PICK quiet \in BOOLEAN : client' = Sent(r, quiet)
      BY <2>1
    <2>2. \A c \in Requests :
            /\ c # mine[r].on => client'[c].knows = client[c].knows
            /\ c = mine[r].on => client'[c].knows = client[c].knows \cup mine[r].told \cup {r}
      BY <2>q, PromptSent
    <2>3. r \notin deleted /\ mine[r].told \cap deleted = {}
      BY <2>1
    <2>4. \A q \in Requests : mine'[q].told = mine[q].told
      BY <1>19 DEF LeaveQuery, Interrupted, Turns
    <2>5. reg # NoOne => client'[reg].knows \cap deleted = {}
      BY <2>2, <2>3
    <2>6. mine[r].on \in Requests => pc[mine[r].on] \notin Early
      BY <2>1 DEF Alive
    <2>7. \A q \in Requests : pc'[q] \in Early => client'[q].knows = {}
      BY <2>1, <2>2, <2>6
    <2>8. QED
      BY <2>1, <2>4, <2>5, <2>7
  <1>20. ASSUME NEW r \in Requests, Say(r) PROVE Forgotten'
    BY <1>20 DEF Say, Item
  <1>21. ASSUME NEW r \in Requests, Answer(r) PROVE Forgotten'
    BY <1>21 DEF Answer
  <1>22. ASSUME NEW r \in Requests, Dies(r) PROVE Forgotten'
    BY <1>22 DEF Dies, Fault
  <1>23. CASE AskClose
    BY <1>23 DEF AskClose, Begin, Enqueue, At
  <1>24. CASE AskRefresh
    BY <1>24 DEF AskRefresh, Begin, Enqueue, At
  <1>25. CASE CloseSession
    BY <1>25 DEF CloseSession, HasLock, Holds, Evict, Disconnected, Release, At
  <1>26. CASE RefreshStarts
    <2>1. \A c \in Requests : client'[c].knows = client[c].knows
      BY <1>26, RefreshBegins
    <2>2. opc["refresh"] = "queued" /\ UNCHANGED <<reg, rows, pc, mine, deleted>>
          /\ opc'["delete"] = opc["delete"]
      BY <1>26 DEF RefreshStarts, HasLock, At
    <2>3. QED
      BY <2>1, <2>2
  <1>27. CASE RefreshEnds
    <2>1. opc["refresh"] = "busy" /\ opc' = [opc EXCEPT !["refresh"] = "idle"]
          /\ UNCHANGED <<reg, rows, pc, mine, deleted>>
      BY <1>27 DEF RefreshEnds, HasLock, At
    <2>2. \A c \in Requests : client'[c].knows \in {{}, client[c].knows}
      BY <1>27, RefreshIs
    <2>3. QED
      BY <2>1, <2>2
  <1>28. CASE AskDelete
    BY <1>28 DEF AskDelete, Begin, Enqueue, At
  <1>29. CASE DeleteDrops
    BY <1>29 DEF DeleteDrops, HasLock, Holds, Evict, Disconnected, Release, At
  <1>30. CASE DeleteRows
    <2>1. opc["delete"] = "busy" /\ opc' = [opc EXCEPT !["delete"] = "idle"]
          /\ UNCHANGED <<reg, client, pc, mine>>
      BY <1>30 DEF DeleteRows, At
    <2>2. claim = "delete" /\ reg = NoOne
      BY <2>1
    <2>3. CASE rows' = rows /\ deleted' = deleted
      BY <2>1, <2>3
    <2>4. CASE /\ rows' = <<>> /\ deleted' = deleted \cup {rows[i].by : i \in DOMAIN rows}
      <3>1. \A r \in Requests : pc[r] \in {"idle", "over"} /\ mine[r].told = {}
        BY <2>2
      <3>2. \A r \in Requests : r \in deleted' => pc[r] = "over"
        BY <2>4, <3>1 DEF Stored
      <3>3. QED
        BY <2>1, <2>2, <2>4, <3>1, <3>2
    <2>5. QED
      BY <1>30, <2>3, <2>4 DEF DeleteRows
  <1>31. CASE AskSweep
    BY <1>31 DEF AskSweep, Begin, Enqueue, At
  <1>32. CASE Sweep
    <2>1. CASE UNCHANGED <<client, reg>>
      BY <1>32, <2>1 DEF Sweep, HasLock, At
    <2>2. CASE client' = Disconnected(client, reg) /\ reg' = NoOne
      <3>1. /\ \A c \in Requests \ {reg} : client'[c] = client[c]
            /\ reg # NoOne => client'[reg].at = "gone" /\ client'[reg].knows = client[reg].knows
        BY <2>2, SparedAll
      <3>2. \A c \in Requests :
               \/ c # reg /\ client'[c] = client[c]
               \/ c = reg /\ client'[c].at = "gone" /\ client'[c].knows = client[c].knows
        BY <3>1
      <3>3. opc["sweep"] = "queued" /\ opc' = [opc EXCEPT !["sweep"] = "idle"]
            /\ UNCHANGED <<claim, rows, pc, mine, deleted>>
        BY <1>32 DEF Sweep, HasLock, At
      <3>4. QED
        BY <2>2, <3>2, <3>3
    <2>3. QED
      BY <1>32, <2>1, <2>2 DEF Sweep, Evict
  <1>33. CASE OtherLocks
    BY <1>33 DEF OtherLocks, Begin, Enqueue, At
  <1>34. CASE OtherUnlocks
    BY <1>34 DEF OtherUnlocks, HasLock, Holds, Release, At
  <1>35. CASE TimePasses
    BY <1>35 DEF TimePasses
  <1>36. CASE ServerRestarts
    <2>1. /\ \A r \in Requests : pc'[r] = IF pc[r] = "idle" THEN "idle" ELSE "over"
          /\ \A r \in Requests : mine'[r].told = {}
          /\ opc' = [o \in Ops |-> "idle"] /\ reg' = NoOne /\ UNCHANGED deleted
      BY <1>36 DEF ServerRestarts, NewTurn
    <2>2. \A c \in Requests : client'[c].knows \in {{}, client[c].knows}
      <3> TAKE c \in Requests
      <3>1. client'[c] = IF client[c].at \in {"none", "stray"} THEN client[c]
                                                            ELSE Disconnected(client, c)[c]
        BY <1>36 DEF ServerRestarts
      <3>2. QED
        BY <3>1 DEF Disconnected
    <2>3. DOMAIN rows' = DOMAIN rows /\ \A i \in DOMAIN rows : rows'[i].by = rows[i].by
      <3>1. CASE rows' = rows
        BY <3>1
      <3>2. CASE rows' = [i \in DOMAIN rows |->
                            IF rows[i].status = "running"
                            THEN [rows[i] EXCEPT !.status = "interrupted"] ELSE rows[i]]
        BY <3>2 DEF RowsTyped, Row
      <3>3. QED
        BY <1>36, <3>1, <3>2 DEF ServerRestarts
    <2>4. QED
      BY <2>1, <2>2, <2>3
  <1>37. CASE UNCHANGED vars
    BY <1>37 DEF vars
  <1>38. QED
    BY <1>1, <1>2, <1>3, <1>4, <1>5, <1>6, <1>7, <1>8, <1>9, <1>10, <1>10a, <1>11,
       <1>12, <1>13, <1>13a, <1>14, <1>15, <1>16, <1>17, <1>17a, <1>18, <1>19, <1>20, <1>21,
       <1>22, <1>23, <1>24, <1>25, <1>26, <1>27, <1>28, <1>29, <1>30, <1>31,
       <1>32, <1>33, <1>34, <1>35, <1>36, <1>37
    DEF Next, Turn, Leave, Agent, Asks, Serves

-----------------------------------------------------------------------------
(* The registry's lock: its queue holds those who say they wait or hold,   *)
(* each once.                                                              *)

Locked ==
    /\ lockq \in Seq(Requests \cup Ops) /\ IsInjective(lockq)
    /\ \A r \in Requests : (r \in ToSet(lockq)) <=> pc[r] \in {"queued", "connecting", "dropping"}
    /\ \A o \in Ops : (o \in ToSet(lockq)) <=> (opc[o] # "idle" /\ ~(o = "delete" /\ opc[o] = "busy"))
    /\ \A r \in Requests : pc[r] = "connecting" => Holds(r)
    /\ opc["refresh"] = "busy" => Holds("refresh")

Before(q, a, b) == \E i, j \in DOMAIN q : i < j /\ q[i] = a /\ q[j] = b

(* Who comes last waits behind all the others.                             *)
LEMMA Enqueued ==
    ASSUME Locked, NEW x \in Requests \cup Ops, x \notin ToSet(lockq), lockq' = Append(lockq, x)
    PROVE  /\ lockq' \in Seq(Requests \cup Ops) /\ IsInjective(lockq')
           /\ \A y : y \in ToSet(lockq') <=> y \in ToSet(lockq) \/ y = x
           /\ \A y : Holds(y) => Holds(y)'
           /\ \A a, b : Before(lockq, a, b) => Before(lockq', a, b)
           /\ \A a \in ToSet(lockq) : Before(lockq', a, x)
  <1>1. /\ lockq' \in Seq(Requests \cup Ops) /\ IsInjective(lockq')
        /\ ToSet(lockq') = ToSet(lockq) \cup {x}
        /\ lockq' # <<>> /\ (lockq # <<>> => Head(lockq') = Head(lockq))
    BY Waiting DEF Locked
  <1>2. /\ Len(lockq) \in Nat /\ DOMAIN lockq = 1 .. Len(lockq)
        /\ DOMAIN lockq' = 1 .. (Len(lockq) + 1) /\ lockq'[Len(lockq) + 1] = x
        /\ \A i \in DOMAIN lockq : lockq'[i] = lockq[i]
    BY DEF Locked
  <1>3. \A a, b : Before(lockq, a, b) => Before(lockq', a, b)
    BY <1>2 DEF Before
  <1>4. \A a \in ToSet(lockq) : Before(lockq', a, x)
    BY <1>2 DEF Before, ToSet
  <1>5. QED
    BY <1>1, <1>3, <1>4 DEF Holds

(* The head leaves; the order of the others stays.                         *)
LEMMA Released ==
    ASSUME Locked, NEW x, Holds(x), lockq' = Tail(lockq)
    PROVE  /\ lockq' \in Seq(Requests \cup Ops) /\ IsInjective(lockq')
           /\ \A y : y \in ToSet(lockq') <=> y \in ToSet(lockq) /\ y # x
           /\ \A y : Holds(y) => y = x
           /\ \A a, b : Before(lockq, a, b) => b # x /\ (a # x => Before(lockq', a, b))
  <1>1. /\ lockq' \in Seq(Requests \cup Ops) /\ IsInjective(lockq')
        /\ ToSet(lockq') = ToSet(lockq) \ {x}
    BY Served DEF Locked, Holds
  <1>2. /\ Len(lockq) \in Nat \ {0} /\ DOMAIN lockq = 1 .. Len(lockq) /\ lockq[1] = x
        /\ DOMAIN lockq' = 1 .. (Len(lockq) - 1)
        /\ \A i \in 1 .. (Len(lockq) - 1) : lockq'[i] = lockq[i + 1]
    BY HeadTailProperties DEF Locked, Holds
  <1>3. ASSUME NEW a, NEW b, Before(lockq, a, b) PROVE b # x /\ (a # x => Before(lockq', a, b))
    <2>1. PICK i \in DOMAIN lockq, j \in DOMAIN lockq : i < j /\ lockq[i] = a /\ lockq[j] = b
      BY <1>3 DEF Before
    <2>2. b # x
      BY <1>2, <2>1 DEF Locked, IsInjective
    <2>3. CASE a # x
      <3>1. i - 1 \in DOMAIN lockq' /\ j - 1 \in DOMAIN lockq' /\ i - 1 < j - 1
        BY <1>2, <2>1, <2>3
      <3>2. lockq'[i - 1] = a /\ lockq'[j - 1] = b
        BY <1>2, <2>1, <3>1
      <3>3. QED
        BY <2>2, <3>1, <3>2 DEF Before
    <2>4. QED
      BY <2>2, <2>3
  <1>4. QED
    BY <1>1, <1>3 DEF Holds

(* One that gives up leaves the others in their order.                     *)
LEMMA Withdrawn ==
    ASSUME Locked, NEW x \in ToSet(lockq), lockq' = Without(lockq, x)
    PROVE  /\ lockq' \in Seq(Requests \cup Ops) /\ IsInjective(lockq')
           /\ \A y : y \in ToSet(lockq') <=> y \in ToSet(lockq) /\ y # x
           /\ \A y : Holds(y) /\ y # x => Holds(y)'
  <1>1. /\ lockq' \in Seq(Requests \cup Ops) /\ IsInjective(lockq')
        /\ ToSet(lockq') = ToSet(lockq) \ {x}
        /\ (lockq' # <<>> /\ Head(lockq) # x) => Head(lockq') = Head(lockq)
    BY LeftTheQueue DEF Locked
  <1>2. ASSUME NEW y, Holds(y), y # x PROVE lockq' # <<>>
    <2>1. y \in ToSet(lockq)
      BY <1>2 DEF Holds, Locked, ToSet
    <2>2. ToSet(<<>>) = {}
      BY DEF ToSet
    <2>3. QED
      BY <1>1, <1>2, <2>1, <2>2
  <1>3. QED
    BY <1>1, <1>2 DEF Holds

(* Every step keeps Locked: whoever joins the queue of the lock did not wait*)
(* already, and whoever leaves it held the lock or gave up its place.      *)
LEMMA LockedStep == ASSUME Flags, Claims, Locked, [Next]_vars PROVE Locked'
  <1> USE ChatAssumption DEF Go, ghosts, Flags, Claims, Locked, Ops
  <1>1. ASSUME NEW r \in Requests, Post(r) PROVE Locked'
    BY <1>1 DEF Post, Holds
  <1>2. ASSUME NEW r \in Requests, Record(r) PROVE Locked'
    <2>1. r \notin ToSet(lockq) /\ r \in Requests \cup Ops
      BY <1>2 DEF Locked, Record, Enqueue
    <2>2. lockq' = Append(lockq, r)
      BY <1>2 DEF Record, Enqueue
    <2>3. QED
      BY <1>2, <2>1, <2>2, Enqueued DEF Record, Enqueue
  <1>3. ASSUME NEW r \in Requests, Reuse(r) PROVE Locked'
    <2>1. Holds(r) /\ lockq' = Tail(lockq)
      BY <1>3 DEF Locked, Reuse, Release
    <2>2. QED
      BY <1>3, <2>1, Released DEF Reuse, Release
  <1>4. ASSUME NEW r \in Requests, Connect(r) PROVE Locked'
    BY <1>4 DEF Connect, Reusable, Holds, Holds
  <1>5. ASSUME NEW r \in Requests, Connected(r) PROVE Locked'
    <2>1. Holds(r) /\ lockq' = Tail(lockq)
      BY <1>5 DEF Locked, Connected, Release
    <2>2. QED
      BY <1>5, <2>1, Released DEF Connected, Release
  <1>6. ASSUME NEW r \in Requests, ConnectFails(r) PROVE Locked'
    <2>1. Holds(r) /\ lockq' = Tail(lockq)
      BY <1>6 DEF Locked, ConnectFails, Release
    <2>2. QED
      BY <1>6, <2>1, Released DEF ConnectFails, Release
  <1>7. ASSUME NEW r \in Requests, Replay(r) PROVE Locked'
    BY <1>7 DEF Replay, Fault, DoneTurns, Holds
  <1>8. ASSUME NEW r \in Requests, Deliver(r) PROVE Locked'
    <2>1. pc[r] = "deliver" /\ UNCHANGED <<lockq, opc>>
          /\ (pc' = [pc EXCEPT ![r] = "stream"] \/ pc' = [pc EXCEPT ![r] = "closing"])
      BY <1>8 DEF Deliver
    <2>2. QED
      BY <2>1 DEF Holds
  <1>9. ASSUME NEW r \in Requests, Receive(r) PROVE Locked'
    <2>1. UNCHANGED <<lockq, opc>>
      BY <1>9 DEF Receive
    <2>2. pc[r] = "stream" /\ (pc' = pc \/ pc' = [pc EXCEPT ![r] = "closing"])
      BY <1>9 DEF Receive
    <2>3. QED
      BY <2>1, <2>2 DEF Holds
  <1>10. ASSUME NEW r \in Requests, StreamBreaks(r) PROVE Locked'
    BY <1>10 DEF StreamBreaks, Holds
  <1>10a. ASSUME NEW r \in Requests, GivesUp(r) PROVE Locked'
    BY <1>10a DEF GivesUp, Holds
  <1>11. ASSUME NEW r \in Requests, Closing(r) PROVE Locked'
    <2>1. r \notin ToSet(lockq) /\ r \in Requests \cup Ops /\ pc[r] = "closing"
      BY <1>11 DEF Closing
    <2>2. CASE lockq' = Append(lockq, r) /\ pc' = [pc EXCEPT ![r] = "dropping"]
      BY <1>11, <2>1, <2>2, Enqueued DEF Closing
    <2>3. CASE UNCHANGED lockq /\ pc' = [pc EXCEPT ![r] = "finish"]
      BY <1>11, <2>1, <2>3 DEF Closing, Holds
    <2>4. QED
      BY <1>11, <2>2, <2>3 DEF Closing, Enqueue
  <1>12. ASSUME NEW r \in Requests, Drop(r) PROVE Locked'
    <2>1. Holds(r) /\ lockq' = Tail(lockq)
      BY <1>12 DEF Locked, Drop, Release
    <2>2. QED
      BY <1>12, <2>1, Released DEF Drop, Release
  <1>13. ASSUME NEW r \in Requests, DropTimesOut(r) PROVE Locked'
    <2>1. r \in ToSet(lockq) /\ lockq' = Without(lockq, r)
      BY <1>13 DEF Locked, DropTimesOut
    <2>2. QED
      BY <1>13, <2>1, Withdrawn DEF DropTimesOut
  <1>13a. ASSUME NEW r \in Requests, DropCutShort(r) PROVE Locked'
    <2>1. Holds(r) /\ lockq' = Tail(lockq)
      BY <1>13a DEF DropCutShort, Release
    <2>2. QED
      BY <1>13a, <2>1, Released DEF DropCutShort, Release
  <1>14. ASSUME NEW r \in Requests, Finish(r) PROVE Locked'
    BY <1>14 DEF Finish, Fault, StatusOf, Holds
  <1>15. ASSUME NEW r \in Requests, Unclaim(r) PROVE Locked'
    BY <1>15 DEF Unclaim, NewTurn, Holds
  <1>16. ASSUME NEW r \in Requests, LeaveUnstarted(r) PROVE Locked'
    BY <1>16 DEF LeaveUnstarted, Holds
  <1>17. ASSUME NEW r \in Requests, LeaveRegistry(r) PROVE Locked'
    <2>1. r \in ToSet(lockq) /\ lockq' = Without(lockq, r)
      BY <1>17 DEF Locked, LeaveRegistry, Interrupted
    <2>2. QED
      BY <1>17, <2>1, Withdrawn DEF LeaveRegistry, Interrupted
  <1>17a. ASSUME NEW r \in Requests, LeaveSwitch(r) PROVE Locked'
    <2>1. r \in ToSet(lockq) /\ lockq' = Without(lockq, r)
      BY <1>17a DEF Locked, LeaveSwitch, Interrupted
    <2>2. QED
      BY <1>17a, <2>1, Withdrawn DEF LeaveSwitch, Interrupted
  <1>18. ASSUME NEW r \in Requests, LeaveAgent(r) PROVE Locked'
    BY <1>18 DEF LeaveAgent, Interrupted, Holds
  <1>19. ASSUME NEW r \in Requests, LeaveQuery(r) PROVE Locked'
    BY <1>19 DEF LeaveQuery, Interrupted, Sent, Prompt, Holds
  <1>20. ASSUME NEW r \in Requests, Say(r) PROVE Locked'
    BY <1>20 DEF Say, Item, Holds
  <1>21. ASSUME NEW r \in Requests, Answer(r) PROVE Locked'
    BY <1>21 DEF Answer, Holds
  <1>22. ASSUME NEW r \in Requests, Dies(r) PROVE Locked'
    BY <1>22 DEF Dies, Fault, Holds
  <1>23. CASE AskClose
    <2>1. "close" \notin ToSet(lockq) /\ "close" \in Requests \cup Ops
      BY <1>23 DEF Locked, AskClose, Begin, Enqueue, At
    <2>2. lockq' = Append(lockq, "close")
      BY <1>23 DEF AskClose, Begin, Enqueue, At
    <2>3. QED
      BY <1>23, <2>1, <2>2, Enqueued DEF AskClose, Begin, Enqueue, At
  <1>24. CASE AskRefresh
    <2>1. "refresh" \notin ToSet(lockq) /\ "refresh" \in Requests \cup Ops
      BY <1>24 DEF Locked, AskRefresh, Begin, Enqueue, At
    <2>2. lockq' = Append(lockq, "refresh")
      BY <1>24 DEF AskRefresh, Begin, Enqueue, At
    <2>3. QED
      BY <1>24, <2>1, <2>2, Enqueued DEF AskRefresh, Begin, Enqueue, At
  <1>25. CASE CloseSession
    <2>1. Holds("close") /\ lockq' = Tail(lockq)
      BY <1>25 DEF Locked, CloseSession, HasLock, Release, At
    <2>2. QED
      BY <1>25, <2>1, Released DEF CloseSession, HasLock, Release, At
  <1>26. CASE RefreshStarts
    <2>1. opc["refresh"] = "queued" /\ Holds("refresh") /\ UNCHANGED pc
      BY <1>26 DEF RefreshStarts, HasLock
    <2>2. CASE lockq' = Tail(lockq) /\ opc' = [opc EXCEPT !["refresh"] = "idle"]
      BY <2>1, <2>2, Released
    <2>3. CASE UNCHANGED lockq /\ opc' = [opc EXCEPT !["refresh"] = "busy"]
      BY <2>1, <2>3 DEF Holds
    <2>4. QED
      BY <1>26, <2>2, <2>3 DEF RefreshStarts, Release, At
  <1>27. CASE RefreshEnds
    <2>1. Holds("refresh") /\ lockq' = Tail(lockq)
      BY <1>27 DEF Locked, RefreshEnds, HasLock, Release, At
    <2>2. QED
      BY <1>27, <2>1, Released DEF RefreshEnds, HasLock, Release, At
  <1>28. CASE AskDelete
    <2>1. "delete" \notin ToSet(lockq) /\ "delete" \in Requests \cup Ops
      BY <1>28 DEF Locked, AskDelete, Begin, Enqueue, At
    <2>2. lockq' = Append(lockq, "delete")
      BY <1>28 DEF AskDelete, Begin, Enqueue, At
    <2>3. QED
      BY <1>28, <2>1, <2>2, Enqueued DEF AskDelete, Begin, Enqueue, At
  <1>29. CASE DeleteDrops
    <2>1. Holds("delete") /\ lockq' = Tail(lockq)
      BY <1>29 DEF Locked, DeleteDrops, HasLock, Release, At
    <2>2. QED
      BY <1>29, <2>1, Released DEF DeleteDrops, HasLock, Release, At
  <1>30. CASE DeleteRows
    BY <1>30 DEF DeleteRows, Fault, At, Holds
  <1>31. CASE AskSweep
    <2>1. "sweep" \notin ToSet(lockq) /\ "sweep" \in Requests \cup Ops
      BY <1>31 DEF Locked, AskSweep, Begin, Enqueue, At
    <2>2. lockq' = Append(lockq, "sweep")
      BY <1>31 DEF AskSweep, Begin, Enqueue, At
    <2>3. QED
      BY <1>31, <2>1, <2>2, Enqueued DEF AskSweep, Begin, Enqueue, At
  <1>32. CASE Sweep
    <2>1. Holds("sweep") /\ lockq' = Tail(lockq)
      BY <1>32 DEF Locked, Sweep, HasLock, Release, At
    <2>2. QED
      BY <1>32, <2>1, Released DEF Sweep, HasLock, Release, At
  <1>33. CASE OtherLocks
    <2>1. "other" \notin ToSet(lockq) /\ "other" \in Requests \cup Ops
      BY <1>33 DEF Locked, OtherLocks, Begin, Enqueue, At
    <2>2. lockq' = Append(lockq, "other")
      BY <1>33 DEF OtherLocks, Begin, Enqueue, At
    <2>3. QED
      BY <1>33, <2>1, <2>2, Enqueued DEF OtherLocks, Begin, Enqueue, At
  <1>34. CASE OtherUnlocks
    <2>1. Holds("other") /\ lockq' = Tail(lockq)
      BY <1>34 DEF Locked, OtherUnlocks, HasLock, Release, At
    <2>2. QED
      BY <1>34, <2>1, Released DEF OtherUnlocks, HasLock, Release, At
  <1>35. CASE TimePasses
    BY <1>35 DEF TimePasses, Holds
  <1>36. CASE ServerRestarts
    <2>1. lockq' = <<>> /\ opc' = [o \in Ops |-> "idle"]
          /\ \A r \in Requests : pc'[r] \in {"idle", "over"}
      BY <1>36 DEF ServerRestarts
    <2>2. ToSet(<<>>) = {}
      BY DEF ToSet
    <2>3. lockq' \in Seq(Requests \cup Ops) /\ IsInjective(lockq')
      BY <2>1 DEF IsInjective
    <2>4. QED
      BY <2>1, <2>2, <2>3
  <1>37. CASE UNCHANGED vars
    BY <1>37 DEF vars, Holds
  <1>38. QED
    BY <1>1, <1>2, <1>3, <1>4, <1>5, <1>6, <1>7, <1>8, <1>9, <1>10, <1>10a, <1>11,
       <1>12, <1>13, <1>13a, <1>14, <1>15, <1>16, <1>17, <1>17a, <1>18, <1>19, <1>20, <1>21,
       <1>22, <1>23, <1>24, <1>25, <1>26, <1>27, <1>28, <1>29, <1>30, <1>31,
       <1>32, <1>33, <1>34, <1>35, <1>36, <1>37
    DEF Next, Turn, Leave, Agent, Asks, Serves

-----------------------------------------------------------------------------
(* Who may take the agent away: a close or a refresh was asked for before  *)
(* the turn was posted, and is served before the turn gets its agent.      *)

Working == {"connecting", "replay", "deliver", "stream"}

Fifo ==
    \A r \in Requests :
        /\ pc[r] \in Working /\ ~LongTurns => ~stale
        /\ pc[r] \in {"replay", "deliver", "stream"} => mine[r].on \in Requests
        /\ \A o \in {"close", "refresh"} :
              /\ pc[r] = "queued" /\ opc[o] # "idle" => Before(lockq, o, r)
              /\ pc[r] \in Working => opc[o] = "idle"

(* A turn is posted when nothing is claimed, and until it has its agent    *)
(* nothing that was asked for later is served before it.                   *)
LEMMA FifoStep ==
    ASSUME Flags, Turns, Claims, Locked, Fifo, [Next]_vars
    PROVE  Fifo'
  <1> USE ChatAssumption DEF Go, ghosts, Flags, Turns, Claims, Fifo, Working, Ops
  <1>1. ASSUME NEW r \in Requests, Post(r) PROVE Fifo'
    BY <1>1 DEF Post
  <1>2. ASSUME NEW r \in Requests, Record(r) PROVE Fifo'
    <2>1. r \notin ToSet(lockq) /\ r \in Requests \cup Ops
      BY <1>2 DEF Record, Locked
    <2>2. lockq' = Append(lockq, r)
      BY <1>2 DEF Record, Enqueue
    <2>3. \A o \in {"close", "refresh"} : opc[o] # "idle" => Before(lockq', o, r)
      BY <2>1, <2>2, Enqueued DEF Locked
    <2>4. pc' = [pc EXCEPT ![r] = "queued"] /\ claim = r /\ UNCHANGED <<opc, stale>>
      BY <1>2 DEF Record
    <2>5. \A q \in Requests : q # r => pc[q] \in {"idle", "over"}
      BY <2>4
    <2>6. QED
      BY <2>3, <2>4, <2>5
  <1>3. ASSUME NEW r \in Requests, Reuse(r) PROVE Fifo'
    <2>1. Holds(r) /\ lockq' = Tail(lockq)
      BY <1>3 DEF Reuse, Release
    <2>2. \A o \in {"close", "refresh"} : opc[o] = "idle"
      BY <1>3, <2>1, Released DEF Reuse
    <2>3. QED
      BY <1>3, <2>2 DEF Reuse, Reusable
  <1>4. ASSUME NEW r \in Requests, Connect(r) PROVE Fifo'
    <2>1. \A o \in {"close", "refresh"} : opc[o] = "idle"
      <3>1. Holds(r) /\ lockq # <<>>
        BY <1>4 DEF Connect, Holds
      <3>2. \A o : ~Before(lockq, o, r)
        BY <3>1 DEF Before, Holds, Locked, IsInjective
      <3>3. QED
        BY <1>4, <3>2 DEF Connect
    <2>2. QED
      BY <1>4, <2>1 DEF Connect
  <1>5. ASSUME NEW r \in Requests, Connected(r) PROVE Fifo'
    BY <1>5 DEF Connected, Release
  <1>6. ASSUME NEW r \in Requests, ConnectFails(r) PROVE Fifo'
    BY <1>6 DEF ConnectFails, Fault, Disconnected, Release
  <1>7. ASSUME NEW r \in Requests, Replay(r) PROVE Fifo'
    BY <1>7 DEF Replay, Fault, DoneTurns
  <1>8. ASSUME NEW r \in Requests, Deliver(r) PROVE Fifo'
    BY <1>8 DEF Deliver, Sent, Prompt
  <1>9. ASSUME NEW r \in Requests, Receive(r) PROVE Fifo'
    <2>1. UNCHANGED <<lockq, opc, stale>>
      BY <1>9, ReceiveKeeps
    <2>2. pc[r] = "stream" /\ (pc' = pc \/ pc' = [pc EXCEPT ![r] = "closing"])
      BY <1>9, ReceiveKeeps
    <2>3. \A q \in Requests : mine'[q].on = mine[q].on
      BY <1>9, ReceiveKeeps
    <2>4. QED
      BY <2>1, <2>2, <2>3
  <1>10. ASSUME NEW r \in Requests, StreamBreaks(r) PROVE Fifo'
    BY <1>10 DEF StreamBreaks
  <1>10a. ASSUME NEW r \in Requests, GivesUp(r) PROVE Fifo'
    BY <1>10a DEF GivesUp
  <1>11. ASSUME NEW r \in Requests, Closing(r) PROVE Fifo'
    BY <1>11 DEF Closing, Unsafe, Enqueue
  <1>12. ASSUME NEW r \in Requests, Drop(r) PROVE Fifo'
    BY <1>12 DEF Drop, Evict, Disconnected, Release, Holds
  <1>13. ASSUME NEW r \in Requests, DropTimesOut(r) PROVE Fifo'
    BY <1>13 DEF DropTimesOut, Fault, Holds
  <1>13a. ASSUME NEW r \in Requests, DropCutShort(r) PROVE Fifo'
    BY <1>13a DEF DropCutShort, Fault, Release, Holds
  <1>14. ASSUME NEW r \in Requests, Finish(r) PROVE Fifo'
    BY <1>14 DEF Finish, Fault, StatusOf
  <1>15. ASSUME NEW r \in Requests, Unclaim(r) PROVE Fifo'
    BY <1>15 DEF Unclaim, NewTurn
  <1>16. ASSUME NEW r \in Requests, LeaveUnstarted(r) PROVE Fifo'
    BY <1>16 DEF LeaveUnstarted
  <1>17. ASSUME NEW r \in Requests, LeaveRegistry(r) PROVE Fifo'
    BY <1>17 DEF LeaveRegistry, Interrupted
  <1>17a. ASSUME NEW r \in Requests, LeaveSwitch(r) PROVE Fifo'
    BY <1>17a DEF LeaveSwitch, Interrupted, Holds, Reusable
  <1>18. ASSUME NEW r \in Requests, LeaveAgent(r) PROVE Fifo'
    BY <1>18 DEF LeaveAgent, Interrupted
  <1>19. ASSUME NEW r \in Requests, LeaveQuery(r) PROVE Fifo'
    BY <1>19 DEF LeaveQuery, Interrupted, Sent, Prompt
  <1>20. ASSUME NEW r \in Requests, Say(r) PROVE Fifo'
    BY <1>20 DEF Say, Item
  <1>21. ASSUME NEW r \in Requests, Answer(r) PROVE Fifo'
    BY <1>21 DEF Answer
  <1>22. ASSUME NEW r \in Requests, Dies(r) PROVE Fifo'
    BY <1>22 DEF Dies, Fault
  <1>23. CASE AskClose
    <2>1. "close" \notin ToSet(lockq) /\ "close" \in Requests \cup Ops
      BY <1>23 DEF Locked, AskClose, Begin
    <2>2. lockq' = Append(lockq, "close")
      BY <1>23 DEF AskClose, Begin, Enqueue
    <2>3. QED
      BY <1>23, <2>1, <2>2, Enqueued DEF AskClose, Begin, At
  <1>24. CASE AskRefresh
    <2>1. "refresh" \notin ToSet(lockq) /\ "refresh" \in Requests \cup Ops
      BY <1>24 DEF Locked, AskRefresh, Begin
    <2>2. lockq' = Append(lockq, "refresh")
      BY <1>24 DEF AskRefresh, Begin, Enqueue
    <2>3. QED
      BY <1>24, <2>1, <2>2, Enqueued DEF AskRefresh, Begin, At
  <1>25. CASE CloseSession
    <2>1. Holds("close") /\ lockq' = Tail(lockq)
      BY <1>25 DEF CloseSession, HasLock, Release
    <2>2. QED
      BY <1>25, <2>1, Released DEF CloseSession, HasLock, At, Evict
  <1>26. CASE RefreshStarts
    <2>1. HasLock("refresh", "queued") /\ UNCHANGED <<pc, mine, stale>>
      BY <1>26 DEF RefreshStarts
    <2>2. CASE lockq' = Tail(lockq) /\ opc' = [opc EXCEPT !["refresh"] = "idle"]
      BY <2>1, <2>2, Released DEF HasLock
    <2>3. CASE UNCHANGED lockq /\ opc' = [opc EXCEPT !["refresh"] = "busy"]
      BY <2>1, <2>3 DEF HasLock
    <2>4. QED
      BY <1>26, <2>2, <2>3 DEF RefreshStarts, Release, At
  <1>27. CASE RefreshEnds
    <2>1. Holds("refresh") /\ lockq' = Tail(lockq)
      BY <1>27 DEF RefreshEnds, HasLock, Release
    <2>2. QED
      BY <1>27, <2>1, Released DEF RefreshEnds, HasLock, At
  <1>28. CASE AskDelete
    <2>1. "delete" \notin ToSet(lockq) /\ "delete" \in Requests \cup Ops
      BY <1>28 DEF Locked, AskDelete, Begin
    <2>2. lockq' = Append(lockq, "delete")
      BY <1>28 DEF AskDelete, Begin, Enqueue
    <2>3. QED
      BY <1>28, <2>1, <2>2, Enqueued DEF AskDelete, Begin, At
  <1>29. CASE DeleteDrops
    <2>1. Holds("delete") /\ lockq' = Tail(lockq)
      BY <1>29 DEF DeleteDrops, HasLock, Release
    <2>2. QED
      BY <1>29, <2>1, Released DEF DeleteDrops, HasLock, At, Evict
  <1>30. CASE DeleteRows
    BY <1>30 DEF DeleteRows, Fault, At
  <1>31. CASE AskSweep
    <2>1. "sweep" \notin ToSet(lockq) /\ "sweep" \in Requests \cup Ops
      BY <1>31 DEF Locked, AskSweep, Begin
    <2>2. lockq' = Append(lockq, "sweep")
      BY <1>31 DEF AskSweep, Begin, Enqueue
    <2>3. QED
      BY <1>31, <2>1, <2>2, Enqueued DEF AskSweep, Begin, At
  <1>32. CASE Sweep
    <2>1. Holds("sweep") /\ lockq' = Tail(lockq)
      BY <1>32 DEF Sweep, HasLock, Release
    <2>2. QED
      BY <1>32, <2>1, Released DEF Sweep, HasLock, At, Evict
  <1>33. CASE OtherLocks
    <2>1. "other" \notin ToSet(lockq) /\ "other" \in Requests \cup Ops
      BY <1>33 DEF Locked, OtherLocks, Begin
    <2>2. lockq' = Append(lockq, "other")
      BY <1>33 DEF OtherLocks, Begin, Enqueue
    <2>3. QED
      BY <1>33, <2>1, <2>2, Enqueued DEF OtherLocks, Begin, At
  <1>34. CASE OtherUnlocks
    <2>1. Holds("other") /\ lockq' = Tail(lockq)
      BY <1>34 DEF OtherUnlocks, HasLock, Release
    <2>2. QED
      BY <1>34, <2>1, Released DEF OtherUnlocks, HasLock, At
  <1>35. CASE TimePasses
    BY <1>35 DEF TimePasses
  <1>36. CASE ServerRestarts
    <2>1. opc' = [o \in Ops |-> "idle"] /\ \A r \in Requests : pc'[r] \in {"idle", "over"}
      BY <1>36 DEF ServerRestarts
    <2>2. QED
      BY <2>1 DEF Working
  <1>37. CASE UNCHANGED vars
    BY <1>37 DEF vars
  <1>38. QED
    BY <1>1, <1>2, <1>3, <1>4, <1>5, <1>6, <1>7, <1>8, <1>9, <1>10, <1>10a, <1>11,
       <1>12, <1>13, <1>13a, <1>14, <1>15, <1>16, <1>17, <1>17a, <1>18, <1>19, <1>20, <1>21,
       <1>22, <1>23, <1>24, <1>25, <1>26, <1>27, <1>28, <1>29, <1>30, <1>31,
       <1>32, <1>33, <1>34, <1>35, <1>36, <1>37
    DEF Next, Turn, Leave, Agent, Asks, Serves


AgentStays ==
    \A q \in Requests :
        (/\ pc[q] \in {"replay", "deliver", "stream"} /\ pc'[q] = pc[q]
         /\ client[mine[q].on].at = "up")
        => client'[mine[q].on].at \in {"up", "dead"}

(* While a turn has its agent no close, refresh or deletion is under way, and*)
(* without a turn of half an hour nothing for the sweep to evict.          *)
LEMMA StaysStep ==
    ASSUME Flags, Agents, Claims, Locked, Fifo, ~LongTurns, [Next]_vars
    PROVE  AgentStays
  <1> USE ChatAssumption DEF Go, ghosts, Flags, Agents, Claims, Fifo, Working, AgentStays, Ops
  <1>1. ASSUME NEW r \in Requests, Post(r) PROVE AgentStays
    BY <1>1 DEF Post
  <1>2. ASSUME NEW r \in Requests, Record(r) PROVE AgentStays
    BY <1>2 DEF Record, Enqueue, Fault
  <1>3. ASSUME NEW r \in Requests, Reuse(r) PROVE AgentStays
    BY <1>3 DEF Reuse, Reusable, Release, Holds
  <1>4. ASSUME NEW r \in Requests, Connect(r) PROVE AgentStays
    BY <1>4 DEF Connect, Reusable, Holds
  <1>5. ASSUME NEW r \in Requests, Connected(r) PROVE AgentStays
    BY <1>5 DEF Connected, Release
  <1>6. ASSUME NEW r \in Requests, ConnectFails(r) PROVE AgentStays
    BY <1>6 DEF ConnectFails, Fault, Disconnected, Release
  <1>7. ASSUME NEW r \in Requests, Replay(r) PROVE AgentStays
    BY <1>7 DEF Replay, Fault, DoneTurns
  <1>8. ASSUME NEW r \in Requests, Deliver(r) PROVE AgentStays
    BY <1>8 DEF Deliver, Sent, Prompt
  <1>9. ASSUME NEW r \in Requests, Receive(r) PROVE AgentStays
    BY <1>9 DEF Receive
  <1>10. ASSUME NEW r \in Requests, StreamBreaks(r) PROVE AgentStays
    BY <1>10 DEF StreamBreaks
  <1>10a. ASSUME NEW r \in Requests, GivesUp(r) PROVE AgentStays
    BY <1>10a DEF GivesUp
  <1>11. ASSUME NEW r \in Requests, Closing(r) PROVE AgentStays
    BY <1>11 DEF Closing, Unsafe, Enqueue
  <1>12. ASSUME NEW r \in Requests, Drop(r) PROVE AgentStays
    BY <1>12 DEF Drop, Evict, Disconnected, Release, Holds
  <1>13. ASSUME NEW r \in Requests, DropTimesOut(r) PROVE AgentStays
    BY <1>13 DEF DropTimesOut, Fault, Holds
  <1>13a. ASSUME NEW r \in Requests, DropCutShort(r) PROVE AgentStays
    BY <1>13a DEF DropCutShort, Abandon, Fault, Release, Holds
  <1>14. ASSUME NEW r \in Requests, Finish(r) PROVE AgentStays
    BY <1>14 DEF Finish, Fault, StatusOf
  <1>15. ASSUME NEW r \in Requests, Unclaim(r) PROVE AgentStays
    BY <1>15 DEF Unclaim, NewTurn
  <1>16. ASSUME NEW r \in Requests, LeaveUnstarted(r) PROVE AgentStays
    BY <1>16 DEF LeaveUnstarted
  <1>17. ASSUME NEW r \in Requests, LeaveRegistry(r) PROVE AgentStays
    BY <1>17 DEF LeaveRegistry, Interrupted, Abandon
  <1>17a. ASSUME NEW r \in Requests, LeaveSwitch(r) PROVE AgentStays
    BY <1>17a DEF LeaveSwitch, Interrupted, Abandon, Holds, Reusable
  <1>18. ASSUME NEW r \in Requests, LeaveAgent(r) PROVE AgentStays
    BY <1>18 DEF LeaveAgent, Interrupted
  <1>19. ASSUME NEW r \in Requests, LeaveQuery(r) PROVE AgentStays
    BY <1>19 DEF LeaveQuery, Interrupted, Sent, Prompt
  <1>20. ASSUME NEW r \in Requests, Say(r) PROVE AgentStays
    BY <1>20 DEF Say, Item
  <1>21. ASSUME NEW r \in Requests, Answer(r) PROVE AgentStays
    BY <1>21 DEF Answer
  <1>22. ASSUME NEW r \in Requests, Dies(r) PROVE AgentStays
    BY <1>22 DEF Dies, Fault
  <1>23. CASE AskClose
    BY <1>23 DEF AskClose, Begin, Enqueue, At
  <1>24. CASE AskRefresh
    BY <1>24 DEF AskRefresh, Begin, Enqueue, At
  <1>25. CASE CloseSession
    BY <1>25 DEF CloseSession, HasLock, Holds, Evict, Disconnected, Release, At
  <1>26. CASE RefreshStarts
    BY <1>26 DEF RefreshStarts, HasLock, Holds, Release, At
  <1>27. CASE RefreshEnds
    BY <1>27 DEF RefreshEnds, HasLock, Holds, Release, Fault, At
  <1>28. CASE AskDelete
    BY <1>28 DEF AskDelete, Begin, Enqueue, At
  <1>29. CASE DeleteDrops
    BY <1>29 DEF DeleteDrops, HasLock, Holds, Evict, Disconnected, Release, At
  <1>30. CASE DeleteRows
    BY <1>30 DEF DeleteRows, Fault, At
  <1>31. CASE AskSweep
    BY <1>31 DEF AskSweep, Begin, Enqueue, At
  <1>32. CASE Sweep
    BY <1>32 DEF Sweep, HasLock, Holds, Evict, Disconnected, Release, At
  <1>33. CASE OtherLocks
    BY <1>33 DEF OtherLocks, Begin, Enqueue, At
  <1>34. CASE OtherUnlocks
    BY <1>34 DEF OtherUnlocks, HasLock, Holds, Release, At
  <1>35. CASE TimePasses
    BY <1>35 DEF TimePasses
  <1>36. CASE ServerRestarts
    <2>1. \A q \in Requests : pc'[q] \in {"idle", "over"}
      BY <1>36 DEF ServerRestarts
    <2>2. QED
      BY <2>1
  <1>37. CASE UNCHANGED vars
    BY <1>37 DEF vars
  <1>38. QED
    BY <1>1, <1>2, <1>3, <1>4, <1>5, <1>6, <1>7, <1>8, <1>9, <1>10, <1>10a, <1>11,
       <1>12, <1>13, <1>13a, <1>14, <1>15, <1>16, <1>17, <1>17a, <1>18, <1>19, <1>20, <1>21,
       <1>22, <1>23, <1>24, <1>25, <1>26, <1>27, <1>28, <1>29, <1>30, <1>31,
       <1>32, <1>33, <1>34, <1>35, <1>36, <1>37
    DEF Next, Turn, Leave, Agent, Asks, Serves

-----------------------------------------------------------------------------
(* The rest of TypeOK.                                                     *)

Points ==
    /\ stale \in BOOLEAN /\ ops \in 0 .. MaxOps /\ faults \in 0 .. MaxFaults
    /\ \A r \in Requests : pc[r] \in TurnPoints
    /\ \A o \in Ops : opc[o] \in {"idle", "queued", "busy"}

States == \A c \in Requests :
              /\ client[c].at \in {"none", "starting", "up", "dead", "gone", "stray"}
              /\ client[c].at = "stray" => CutShort

(* Every step keeps Points: turns, operations and bounds stay in range.    *)
LEMMA PointsStep == ASSUME Flags, Points, [Next]_vars PROVE Points'
  <1> USE ChatAssumption DEF Go, ghosts, Flags, Points, Ops, TurnPoints
  <1>1. ASSUME NEW r \in Requests, Post(r) PROVE Points'
    BY <1>1 DEF Post
  <1>2. ASSUME NEW r \in Requests, Record(r) PROVE Points'
    BY <1>2 DEF Record, Enqueue, Fault
  <1>3. ASSUME NEW r \in Requests, Reuse(r) PROVE Points'
    BY <1>3 DEF Reuse, Reusable, Release, Holds
  <1>4. ASSUME NEW r \in Requests, Connect(r) PROVE Points'
    BY <1>4 DEF Connect, Reusable, Holds
  <1>5. ASSUME NEW r \in Requests, Connected(r) PROVE Points'
    BY <1>5 DEF Connected, Release
  <1>6. ASSUME NEW r \in Requests, ConnectFails(r) PROVE Points'
    BY <1>6 DEF ConnectFails, Fault, Disconnected, Release
  <1>7. ASSUME NEW r \in Requests, Replay(r) PROVE Points'
    BY <1>7 DEF Replay, Fault, DoneTurns
  <1>8. ASSUME NEW r \in Requests, Deliver(r) PROVE Points'
    BY <1>8 DEF Deliver, Sent, Prompt
  <1>9. ASSUME NEW r \in Requests, Receive(r) PROVE Points'
    BY <1>9 DEF Receive
  <1>10. ASSUME NEW r \in Requests, StreamBreaks(r) PROVE Points'
    BY <1>10 DEF StreamBreaks
  <1>10a. ASSUME NEW r \in Requests, GivesUp(r) PROVE Points'
    BY <1>10a DEF GivesUp
  <1>11. ASSUME NEW r \in Requests, Closing(r) PROVE Points'
    BY <1>11 DEF Closing, Unsafe, Enqueue
  <1>12. ASSUME NEW r \in Requests, Drop(r) PROVE Points'
    BY <1>12 DEF Drop, Evict, Disconnected, Release, Holds
  <1>13. ASSUME NEW r \in Requests, DropTimesOut(r) PROVE Points'
    BY <1>13 DEF DropTimesOut, Fault, Holds
  <1>13a. ASSUME NEW r \in Requests, DropCutShort(r) PROVE Points'
    <2>1. faults \in Nat /\ faults < MaxFaults /\ faults' = faults + 1
      BY <1>13a DEF DropCutShort, Fault
    <2>2. faults' \in 0 .. MaxFaults
      BY <2>1
    <2>3. stale' = FALSE /\ pc' = [pc EXCEPT ![r] = "finish"] /\ UNCHANGED <<opc, ops>>
      BY <1>13a DEF DropCutShort
    <2>4. \A q \in Requests : pc'[q] \in TurnPoints
      BY <2>3
    <2>5. QED
      BY <2>2, <2>3, <2>4
  <1>14. ASSUME NEW r \in Requests, Finish(r) PROVE Points'
    BY <1>14 DEF Finish, Fault, StatusOf
  <1>15. ASSUME NEW r \in Requests, Unclaim(r) PROVE Points'
    BY <1>15 DEF Unclaim, NewTurn
  <1>16. ASSUME NEW r \in Requests, LeaveUnstarted(r) PROVE Points'
    BY <1>16 DEF LeaveUnstarted
  <1>17. ASSUME NEW r \in Requests, LeaveRegistry(r) PROVE Points'
    BY <1>17 DEF LeaveRegistry, Interrupted, Abandon
  <1>17a. ASSUME NEW r \in Requests, LeaveSwitch(r) PROVE Points'
    BY <1>17a DEF LeaveSwitch, Interrupted, Abandon, Holds, Reusable
  <1>18. ASSUME NEW r \in Requests, LeaveAgent(r) PROVE Points'
    BY <1>18 DEF LeaveAgent, Interrupted
  <1>19. ASSUME NEW r \in Requests, LeaveQuery(r) PROVE Points'
    BY <1>19 DEF LeaveQuery, Interrupted, Sent, Prompt
  <1>20. ASSUME NEW r \in Requests, Say(r) PROVE Points'
    BY <1>20 DEF Say, Item
  <1>21. ASSUME NEW r \in Requests, Answer(r) PROVE Points'
    BY <1>21 DEF Answer
  <1>22. ASSUME NEW r \in Requests, Dies(r) PROVE Points'
    BY <1>22 DEF Dies, Fault
  <1>23. CASE AskClose
    BY <1>23 DEF AskClose, Begin, Enqueue, At
  <1>24. CASE AskRefresh
    BY <1>24 DEF AskRefresh, Begin, Enqueue, At
  <1>25. CASE CloseSession
    BY <1>25 DEF CloseSession, HasLock, Holds, Evict, Disconnected, Release, At
  <1>26. CASE RefreshStarts
    BY <1>26 DEF RefreshStarts, HasLock, Holds, Release, At
  <1>27. CASE RefreshEnds
    <2>1. UNCHANGED <<ops, pc>> /\ stale' \in {FALSE, stale}
      BY <1>27 DEF RefreshEnds
    <2>2. faults' \in 0 .. MaxFaults
      BY <1>27 DEF RefreshEnds, Fault
    <2>3. opc' = [opc EXCEPT !["refresh"] = "idle"]
      BY <1>27 DEF RefreshEnds, At
    <2>4. QED
      BY <2>1, <2>2, <2>3
  <1>28. CASE AskDelete
    BY <1>28 DEF AskDelete, Begin, Enqueue, At
  <1>29. CASE DeleteDrops
    BY <1>29 DEF DeleteDrops, HasLock, Holds, Evict, Disconnected, Release, At
  <1>30. CASE DeleteRows
    BY <1>30 DEF DeleteRows, Fault, At
  <1>31. CASE AskSweep
    BY <1>31 DEF AskSweep, Begin, Enqueue, At
  <1>32. CASE Sweep
    BY <1>32 DEF Sweep, HasLock, Holds, Evict, Disconnected, Release, At
  <1>33. CASE OtherLocks
    BY <1>33 DEF OtherLocks, Begin, Enqueue, At
  <1>34. CASE OtherUnlocks
    BY <1>34 DEF OtherUnlocks, HasLock, Holds, Release, At
  <1>35. CASE TimePasses
    BY <1>35 DEF TimePasses
  <1>36. CASE ServerRestarts
    <2>1. UNCHANGED ops /\ stale' = FALSE /\ opc' = [o \in Ops |-> "idle"]
          /\ pc' = [r \in Requests |-> IF pc[r] = "idle" THEN "idle" ELSE "over"]
      BY <1>36 DEF ServerRestarts
    <2>2. faults' \in 0 .. MaxFaults
      BY <1>36 DEF ServerRestarts, Fault
    <2>3. QED
      BY <2>1, <2>2
  <1>37. CASE UNCHANGED vars
    BY <1>37 DEF vars
  <1>38. QED
    BY <1>1, <1>2, <1>3, <1>4, <1>5, <1>6, <1>7, <1>8, <1>9, <1>10, <1>10a, <1>11,
       <1>12, <1>13, <1>13a, <1>14, <1>15, <1>16, <1>17, <1>17a, <1>18, <1>19, <1>20, <1>21,
       <1>22, <1>23, <1>24, <1>25, <1>26, <1>27, <1>28, <1>29, <1>30, <1>31,
       <1>32, <1>33, <1>34, <1>35, <1>36, <1>37
    DEF Next, Turn, Leave, Agent, Asks, Serves

(* Every step keeps States: an agent is in one of the five states.         *)
LEMMA StatesStep == ASSUME Flags, Agents, States, [Next]_vars PROVE States'
  <1> USE ChatAssumption DEF Go, ghosts, Flags, Agents, States
  <1>1. ASSUME NEW r \in Requests, Post(r) PROVE States'
    BY <1>1 DEF Post
  <1>2. ASSUME NEW r \in Requests, Record(r) PROVE States'
    BY <1>2 DEF Record, Enqueue, Fault
  <1>3. ASSUME NEW r \in Requests, Reuse(r) PROVE States'
    BY <1>3 DEF Reuse, Reusable, Release, Holds
  <1>4. ASSUME NEW r \in Requests, Connect(r) PROVE States'
    <2> DEFINE cs == Disconnected(client, reg)
    <2>1. client' = [cs EXCEPT ![r].at = "starting"]
      BY <1>4 DEF Connect
    <2> HIDE DEF cs
    <2>2. /\ DOMAIN cs = Requests /\ DOMAIN cs[r] = {"at", "pend", "queue", "knows", "refreshed"}
          /\ \A c \in Requests \ {reg} : cs[c] = client[c]
          /\ reg # NoOne => cs[reg].at = "gone"
      BY SparedAll DEF cs
    <2>3. \A c \in Requests : client'[c].at \in {"starting", "gone", client[c].at}
      BY <2>1, <2>2
    <2>4. QED
      BY <2>3
  <1>5. ASSUME NEW r \in Requests, Connected(r) PROVE States'
    BY <1>5 DEF Connected, Release
  <1>6. ASSUME NEW r \in Requests, ConnectFails(r) PROVE States'
    BY <1>6 DEF ConnectFails, Fault, Disconnected, Release
  <1>7. ASSUME NEW r \in Requests, Replay(r) PROVE States'
    BY <1>7 DEF Replay, Fault, DoneTurns
  <1>8. ASSUME NEW r \in Requests, Deliver(r) PROVE States'
    <2>1. CASE UNCHANGED client
      BY <2>1
    <2>2. ASSUME NEW quiet \in BOOLEAN, client' = Sent(r, quiet) PROVE States'
      <3>1. \A c \in Requests : client'[c].at = client[c].at
        BY <2>2, PromptSent
      <3>2. QED
        BY <3>1
    <2>3. QED
      BY <1>8, <2>1, <2>2 DEF Deliver
  <1>9. ASSUME NEW r \in Requests, Receive(r) PROVE States'
    BY <1>9 DEF Receive
  <1>10. ASSUME NEW r \in Requests, StreamBreaks(r) PROVE States'
    BY <1>10 DEF StreamBreaks
  <1>10a. ASSUME NEW r \in Requests, GivesUp(r) PROVE States'
    BY <1>10a DEF GivesUp
  <1>11. ASSUME NEW r \in Requests, Closing(r) PROVE States'
    BY <1>11 DEF Closing, Unsafe, Enqueue
  <1>12. ASSUME NEW r \in Requests, Drop(r) PROVE States'
    BY <1>12 DEF Drop, Evict, Disconnected, Release, Holds
  <1>13. ASSUME NEW r \in Requests, DropTimesOut(r) PROVE States'
    BY <1>13 DEF DropTimesOut, Fault, Holds
  <1>13a. ASSUME NEW r \in Requests, DropCutShort(r) PROVE States'
    <2>1. reg \in Requests /\ Abandon(reg)
      BY <1>13a DEF DropCutShort
    <2>2. QED
      BY <2>1, Abandoned
  <1>14. ASSUME NEW r \in Requests, Finish(r) PROVE States'
    BY <1>14 DEF Finish, Fault, StatusOf
  <1>15. ASSUME NEW r \in Requests, Unclaim(r) PROVE States'
    BY <1>15 DEF Unclaim, NewTurn
  <1>16. ASSUME NEW r \in Requests, LeaveUnstarted(r) PROVE States'
    BY <1>16 DEF LeaveUnstarted
  <1>17. ASSUME NEW r \in Requests, LeaveRegistry(r) PROVE States'
    <2>1. UNCHANGED client \/ Abandon(r)
      BY <1>17 DEF LeaveRegistry
    <2>2. QED
      BY <2>1, Abandoned
  <1>17a. ASSUME NEW r \in Requests, LeaveSwitch(r) PROVE States'
    <2>1. reg \in Requests /\ Abandon(reg)
      BY <1>17a DEF LeaveSwitch
    <2>2. QED
      BY <2>1, Abandoned
  <1>18. ASSUME NEW r \in Requests, LeaveAgent(r) PROVE States'
    BY <1>18 DEF LeaveAgent, Interrupted
  <1>19. ASSUME NEW r \in Requests, LeaveQuery(r) PROVE States'
    <2>1. CASE UNCHANGED client
      BY <2>1
    <2>2. ASSUME NEW quiet \in BOOLEAN, client' = Sent(r, quiet) PROVE States'
      <3>1. \A c \in Requests : client'[c].at = client[c].at
        BY <2>2, PromptSent
      <3>2. QED
        BY <3>1
    <2>3. QED
      BY <1>19, <2>1, <2>2 DEF LeaveQuery
  <1>20. ASSUME NEW r \in Requests, Say(r) PROVE States'
    BY <1>20 DEF Say, Item
  <1>21. ASSUME NEW r \in Requests, Answer(r) PROVE States'
    BY <1>21 DEF Answer
  <1>22. ASSUME NEW r \in Requests, Dies(r) PROVE States'
    BY <1>22 DEF Dies, Fault
  <1>23. CASE AskClose
    BY <1>23 DEF AskClose, Begin, Enqueue, At
  <1>24. CASE AskRefresh
    BY <1>24 DEF AskRefresh, Begin, Enqueue, At
  <1>25. CASE CloseSession
    BY <1>25 DEF CloseSession, HasLock, Holds, Evict, Disconnected, Release, At
  <1>26. CASE RefreshStarts
    <2>1. \A c \in Requests : client'[c].at = client[c].at \/ client'[c].at = "starting"
      BY <1>26, RefreshBegins
    <2>2. QED
      BY <2>1
  <1>27. CASE RefreshEnds
    <2>1. \A c \in Requests : client'[c] = client[c] \/ client'[c].at \in {"up", "dead"}
      BY <1>27, RefreshIs
    <2>2. QED
      BY <2>1
  <1>28. CASE AskDelete
    BY <1>28 DEF AskDelete, Begin, Enqueue, At
  <1>29. CASE DeleteDrops
    BY <1>29 DEF DeleteDrops, HasLock, Holds, Evict, Disconnected, Release, At
  <1>30. CASE DeleteRows
    BY <1>30 DEF DeleteRows, Fault, At
  <1>31. CASE AskSweep
    BY <1>31 DEF AskSweep, Begin, Enqueue, At
  <1>32. CASE Sweep
    <2>1. CASE UNCHANGED client
      BY <2>1
    <2>2. CASE client' = Disconnected(client, reg)
      <3>1. /\ \A c \in Requests \ {reg} : client'[c] = client[c]
            /\ reg # NoOne => client'[reg].at = "gone"
        BY <2>2, SparedAll
      <3>2. QED
        BY <3>1
    <2>3. QED
      BY <1>32, <2>1, <2>2 DEF Sweep, Evict
  <1>33. CASE OtherLocks
    BY <1>33 DEF OtherLocks, Begin, Enqueue, At
  <1>34. CASE OtherUnlocks
    BY <1>34 DEF OtherUnlocks, HasLock, Holds, Release, At
  <1>35. CASE TimePasses
    BY <1>35 DEF TimePasses
  <1>36. CASE ServerRestarts
    <2> SUFFICES ASSUME NEW c \in Requests
                 PROVE  client'[c].at = "gone" \/ client'[c] = client[c]
      BY DEF States
    <2>1. client'[c] = IF client[c].at \in {"none", "stray"} THEN client[c]
                                                          ELSE Disconnected(client, c)[c]
      BY <1>36 DEF ServerRestarts
    <2>2. QED
      BY <2>1 DEF Disconnected
  <1>37. CASE UNCHANGED vars
    BY <1>37 DEF vars
  <1>38. QED
    BY <1>1, <1>2, <1>3, <1>4, <1>5, <1>6, <1>7, <1>8, <1>9, <1>10, <1>10a, <1>11,
       <1>12, <1>13, <1>13a, <1>14, <1>15, <1>16, <1>17, <1>17a, <1>18, <1>19, <1>20, <1>21,
       <1>22, <1>23, <1>24, <1>25, <1>26, <1>27, <1>28, <1>29, <1>30, <1>31,
       <1>32, <1>33, <1>34, <1>35, <1>36, <1>37
    DEF Next, Turn, Leave, Agent, Asks, Serves

(* What Append does, position by position.                                 *)
LEMMA Appended ==
    ASSUME NEW S, NEW q \in Seq(S), NEW x \in S, NEW p, p = Append(q, x)
    PROVE  /\ DOMAIN p = 1 .. (Len(q) + 1) /\ p[Len(q) + 1] = x /\ Len(p) = Len(q) + 1
           /\ DOMAIN q = 1 .. Len(q) /\ \A i \in DOMAIN q : p[i] = q[i]
  BY AppendProperties

Own ==
    \A r \in Requests :
        /\ mine[r].row \in 0 .. Len(rows) /\ mine[r].told \subseteq DoneTurns
        /\ mine[r].row # 0 /\ pc[r] # "release" => rows[mine[r].row].status = "running"
        /\ pc[r] \in {"idle", "start", "over"} => mine[r] = NewTurn

(* What a turn was told stays answered: a turn finishes a row that was     *)
(* running, and rows go only when no turn is under way.                    *)
LEMMA OwnStep ==
    ASSUME Flags, Turns, Claims, RowsTyped, Own, [Next]_vars
    PROVE  Own'
  <1> USE ChatAssumption DEF Go, ghosts, Flags, Turns, Claims, Own, Ops
  <1>a. /\ DOMAIN rows = 1 .. Len(rows) /\ Len(rows) \in Nat
        /\ \A i \in DOMAIN rows : rows[i].by \in Requests
    <2>1. rows \in Seq(Row)
      BY DEF RowsTyped
    <2>2. DOMAIN rows = 1 .. Len(rows) /\ Len(rows) \in Nat /\ \A i \in DOMAIN rows : rows[i] \in Row
      BY <2>1
    <2>3. QED
      BY <2>2 DEF Row
  <1> USE <1>a
  <1>b. UNCHANGED rows => DoneTurns' = DoneTurns
    BY DEF DoneTurns
  <1>c. NewTurn.row = 0 /\ NewTurn.told = {}
    BY DEF NewTurn
  <1> USE <1>b, <1>c
  <1>1. ASSUME NEW r \in Requests, Post(r) PROVE Own'
    BY <1>1 DEF Post
  <1>2. ASSUME NEW r \in Requests, Record(r) PROVE Own'
    <2> DEFINE x == [by |-> r, status |-> "running"]
    <2>1. /\ pc[r] = "start" /\ pc' = [pc EXCEPT ![r] = "queued"]
          /\ \A q \in Requests \ {r} : mine'[q] = mine[q]
      BY <1>2 DEF Record, Fault
    <2>2. mine[r].row = 0 /\ mine[r].told = {}
      BY <2>1 DEF NewTurn
    <2>3. CASE rows' = rows /\ mine' = mine
      BY <2>1, <2>2, <2>3 DEF DoneTurns
    <2>4. CASE rows' = Append(rows, x) /\ mine' = [mine EXCEPT ![r].row = Len(rows) + 1]
      <3>a. rows \in Seq(Row) /\ rows' = Append(rows, x)
        BY <2>4 DEF RowsTyped
      <3> HIDE DEF Own
      <3>1. /\ DOMAIN rows' = 1 .. (Len(rows) + 1) /\ rows'[Len(rows) + 1] = x
            /\ Len(rows') = Len(rows) + 1 /\ \A i \in DOMAIN rows : rows'[i] = rows[i]
        <4>1. x \in Row
          BY DEF Row, Statuses
        <4> HIDE DEF x
        <4>2. QED
          BY ONLY <3>a, <4>1, Appended
      <3>2. DoneTurns \subseteq DoneTurns'
        BY <3>1 DEF DoneTurns
      <3>3. mine'[r].row = Len(rows) + 1 /\ mine'[r].told = {}
        <4>1. DOMAIN mine = Requests /\ {"row", "told"} \subseteq DOMAIN mine[r]
          BY DEF Turns
        <4>2. mine'[r] = [mine[r] EXCEPT !.row = Len(rows) + 1]
          BY <2>4, <4>1
        <4>3. QED
          BY <2>2, <4>1, <4>2
      <3>4. \A q \in Requests \ {r} : pc[q] \in {"idle", "over"}
        BY <2>1
      <3>5. \A q \in Requests \ {r} : mine'[q] = NewTurn
        BY <2>1, <3>4 DEF Own
      <3>6. rows'[Len(rows) + 1].status = "running"
        BY <3>1 DEF x
      <3>7. QED
        BY <2>1, <3>1, <3>3, <3>5, <3>6 DEF Own
    <2>5. QED
      BY <1>2, <2>3, <2>4 DEF Record
  <1>3. ASSUME NEW r \in Requests, Reuse(r) PROVE Own'
    BY <1>3 DEF Reuse, Reusable, Release, Holds
  <1>4. ASSUME NEW r \in Requests, Connect(r) PROVE Own'
    BY <1>4 DEF Connect, Reusable, Holds
  <1>5. ASSUME NEW r \in Requests, Connected(r) PROVE Own'
    <2>1. /\ pc[r] = "connecting" /\ pc'[r] = "replay"
          /\ UNCHANGED <<rows, claim>>
      BY <1>5 DEF Connected
    <2>2. \A q \in Requests \ {r} : mine'[q] = mine[q] /\ pc'[q] = pc[q]
      BY <1>5 DEF Connected
    <2>3. mine'[r].row = mine[r].row /\ mine'[r].told \subseteq DoneTurns
      BY <1>5 DEF Connected
    <2>4. DoneTurns' = DoneTurns
      BY <2>1 DEF DoneTurns
    <2>5. QED
      BY <2>1, <2>2, <2>3, <2>4
  <1>6. ASSUME NEW r \in Requests, ConnectFails(r) PROVE Own'
    BY <1>6 DEF ConnectFails, Fault, Disconnected, Release
  <1>7. ASSUME NEW r \in Requests, Replay(r) PROVE Own'
    <2>1. pc[r] = "replay" /\ pc' = [pc EXCEPT ![r] = "deliver"] /\ UNCHANGED <<rows, claim>>
      BY <1>7 DEF Replay
    <2>2. CASE mine' = [mine EXCEPT ![r].told = DoneTurns]
      <3>1. /\ mine'[r].row = mine[r].row /\ mine'[r].told = DoneTurns
            /\ \A q \in Requests \ {r} : mine'[q] = mine[q]
        BY <2>2
      <3>2. QED
        BY <2>1, <3>1
    <2>3. CASE mine' = [mine EXCEPT ![r].unsure = TRUE]
      BY <2>1, <2>3
    <2>4. QED
      BY <1>7, <2>2, <2>3 DEF Replay
  <1>8. ASSUME NEW r \in Requests, Deliver(r) PROVE Own'
    <2>1. /\ pc[r] = "deliver" /\ UNCHANGED <<rows, claim>>
          /\ pc' = [pc EXCEPT ![r] = "stream"] \/ pc' = [pc EXCEPT ![r] = "closing"]
      BY <1>8 DEF Deliver
    <2>2. CASE mine' = [mine EXCEPT ![r].delivered = TRUE]
      BY <2>1, <2>2
    <2>3. CASE mine' = [mine EXCEPT ![r].error = "error"]
      BY <2>1, <2>3
    <2>4. QED
      BY <1>8, <2>2, <2>3 DEF Deliver
  <1>9. ASSUME NEW r \in Requests, Receive(r) PROVE Own'
    <2>1. /\ pc[r] = "stream" /\ (pc' = pc \/ pc' = [pc EXCEPT ![r] = "closing"])
          /\ UNCHANGED <<rows, claim>>
      BY <1>9, ReceiveKeeps
    <2>2. \A q \in Requests \ {r} : mine'[q] = mine[q] /\ pc'[q] = pc[q]
      BY <1>9, ReceiveKeeps
    <2>3. mine'[r].row = mine[r].row /\ mine'[r].told = mine[r].told
      BY <1>9, ReceiveKeeps
    <2>4. DoneTurns' = DoneTurns
      BY <2>1 DEF DoneTurns
    <2>5. QED
      BY <2>1, <2>2, <2>3, <2>4
  <1>10. ASSUME NEW r \in Requests, StreamBreaks(r) PROVE Own'
    <2>1. /\ pc[r] = "stream" /\ pc' = [pc EXCEPT ![r] = "closing"] /\ UNCHANGED <<rows, claim>>
      BY <1>10 DEF StreamBreaks
    <2>2. CASE mine' = [mine EXCEPT ![r].completed = Settled(r)]
      BY <2>1, <2>2
    <2>3. CASE mine' = [mine EXCEPT ![r].error = "error"]
      BY <2>1, <2>3
    <2>4. QED
      BY <1>10, <2>2, <2>3 DEF StreamBreaks
  <1>10a. ASSUME NEW r \in Requests, GivesUp(r) PROVE Own'
    BY <1>10a DEF GivesUp
  <1>11. ASSUME NEW r \in Requests, Closing(r) PROVE Own'
    BY <1>11 DEF Closing, Unsafe, Enqueue
  <1>12. ASSUME NEW r \in Requests, Drop(r) PROVE Own'
    BY <1>12 DEF Drop, Evict, Disconnected, Release, Holds
  <1>13. ASSUME NEW r \in Requests, DropTimesOut(r) PROVE Own'
    BY <1>13 DEF DropTimesOut, Fault, Holds
  <1>13a. ASSUME NEW r \in Requests, DropCutShort(r) PROVE Own'
    BY <1>13a DEF DropCutShort, Fault, Release, Holds
  <1>14. ASSUME NEW r \in Requests, Finish(r) PROVE Own'
    <2> DEFINE k == mine[r].row
               s == StatusOf(mine[r])
    <2>1. pc[r] = "finish" /\ pc' = [pc EXCEPT ![r] = "release"] /\ UNCHANGED <<claim, mine>>
      BY <1>14 DEF Finish
    <2>2. \A q \in Requests \ {r} : mine[q] = NewTurn
      BY <2>1
    <2>3. CASE rows' = rows
      BY <2>1, <2>3 DEF DoneTurns
    <2>4. CASE k \in DOMAIN rows /\ rows' = [rows EXCEPT ![k].status = s]
      <3>1. rows[k].status = "running"
        BY <2>1, <2>4
      <3>2. DOMAIN rows' = DOMAIN rows /\ \A i \in DOMAIN rows \ {k} : rows'[i] = rows[i]
        BY <2>4
      <3>3. Len(rows') = Len(rows)
        BY <2>4, <3>2 DEF RowsTyped
      <3>4. DoneTurns \subseteq DoneTurns'
        BY <3>1, <3>2 DEF DoneTurns
      <3>5. QED
        BY <2>1, <2>2, <3>3, <3>4 DEF NewTurn
    <2>5. QED
      BY <1>14, <2>3, <2>4 DEF Finish
  <1>15. ASSUME NEW r \in Requests, Unclaim(r) PROVE Own'
    BY <1>15 DEF Unclaim, NewTurn
  <1>16. ASSUME NEW r \in Requests, LeaveUnstarted(r) PROVE Own'
    BY <1>16 DEF LeaveUnstarted
  <1>17. ASSUME NEW r \in Requests, LeaveRegistry(r) PROVE Own'
    BY <1>17 DEF LeaveRegistry, Interrupted
  <1>17a. ASSUME NEW r \in Requests, LeaveSwitch(r) PROVE Own'
    BY <1>17a DEF LeaveSwitch, Interrupted, Holds, Reusable
  <1>18. ASSUME NEW r \in Requests, LeaveAgent(r) PROVE Own'
    BY <1>18 DEF LeaveAgent, Interrupted
  <1>19. ASSUME NEW r \in Requests, LeaveQuery(r) PROVE Own'
    BY <1>19 DEF LeaveQuery, Interrupted, Sent, Prompt
  <1>20. ASSUME NEW r \in Requests, Say(r) PROVE Own'
    BY <1>20 DEF Say, Item
  <1>21. ASSUME NEW r \in Requests, Answer(r) PROVE Own'
    BY <1>21 DEF Answer
  <1>22. ASSUME NEW r \in Requests, Dies(r) PROVE Own'
    BY <1>22 DEF Dies, Fault
  <1>23. CASE AskClose
    BY <1>23 DEF AskClose, Begin, Enqueue, At
  <1>24. CASE AskRefresh
    BY <1>24 DEF AskRefresh, Begin, Enqueue, At
  <1>25. CASE CloseSession
    BY <1>25 DEF CloseSession, HasLock, Holds, Evict, Disconnected, Release, At
  <1>26. CASE RefreshStarts
    BY <1>26 DEF RefreshStarts, HasLock, Holds, Release, At
  <1>27. CASE RefreshEnds
    BY <1>27 DEF RefreshEnds, HasLock, Holds, Release, Fault, At
  <1>28. CASE AskDelete
    BY <1>28 DEF AskDelete, Begin, Enqueue, At
  <1>29. CASE DeleteDrops
    BY <1>29 DEF DeleteDrops, HasLock, Holds, Evict, Disconnected, Release, At
  <1>30. CASE DeleteRows
    BY <1>30 DEF DeleteRows, Fault, At
  <1>31. CASE AskSweep
    BY <1>31 DEF AskSweep, Begin, Enqueue, At
  <1>32. CASE Sweep
    BY <1>32 DEF Sweep, HasLock, Holds, Evict, Disconnected, Release, At
  <1>33. CASE OtherLocks
    BY <1>33 DEF OtherLocks, Begin, Enqueue, At
  <1>34. CASE OtherUnlocks
    BY <1>34 DEF OtherUnlocks, HasLock, Holds, Release, At
  <1>35. CASE TimePasses
    BY <1>35 DEF TimePasses
  <1>36. CASE ServerRestarts
    <2>1. \A q \in Requests : mine'[q] = NewTurn
      BY <1>36 DEF ServerRestarts
    <2>2. Len(rows') = Len(rows)
      <3>1. CASE rows' = rows
        BY <3>1
      <3>2. CASE rows' = [i \in DOMAIN rows |->
                            IF rows[i].status = "running"
                            THEN [rows[i] EXCEPT !.status = "interrupted"] ELSE rows[i]]
        BY <3>2
      <3>3. QED
        BY <1>36, <3>1, <3>2 DEF ServerRestarts
    <2>3. Len(rows') \in Nat /\ {} \subseteq DoneTurns'
      BY <2>2
    <2> HIDE DEF Own
    <2>4. QED
      BY <2>1, <2>3 DEF Own
  <1>37. CASE UNCHANGED vars
    BY <1>37 DEF vars
  <1>38. QED
    BY <1>1, <1>2, <1>3, <1>4, <1>5, <1>6, <1>7, <1>8, <1>9, <1>10, <1>10a, <1>11,
       <1>12, <1>13, <1>13a, <1>14, <1>15, <1>16, <1>17, <1>17a, <1>18, <1>19, <1>20, <1>21,
       <1>22, <1>23, <1>24, <1>25, <1>26, <1>27, <1>28, <1>29, <1>30, <1>31,
       <1>32, <1>33, <1>34, <1>35, <1>36, <1>37
    DEF Next, Turn, Leave, Agent, Asks, Serves

-----------------------------------------------------------------------------

IInv == Flags /\ Agents /\ Turns /\ Claims /\ Alive /\ RowsTyped /\ Stored /\ Forgotten
        /\ Locked /\ Fifo /\ Points /\ States /\ Own

(* The server starts with no claim, no lock, no agent and no turn.        *)
LEMMA Starts == Init => IInv
  <1> SUFFICES ASSUME Init PROVE IInv
    OBVIOUS
  <1> USE ChatAssumption DEF Init
  <1>1. Flags
    BY DEF Flags
  <1>2. Agents
    BY DEF Agents, NoAgent
  <1>3. Turns
    BY DEF Turns, NewTurn
  <1>4. Claims
    BY DEF Claims, Ops
  <1>5. Alive
    BY DEF Alive, NoAgent
  <1>6. RowsTyped /\ Stored
    BY EmptySeq DEF RowsTyped, Stored
  <1>7. Forgotten
    BY DEF Forgotten, NoAgent, NewTurn, Ops
  <1>8. Locked
    <2>1. ToSet(<<>>) = {} /\ IsInjective(<<>>) /\ <<>> \in Seq(Requests \cup Ops)
      BY EmptySeq DEF ToSet, IsInjective
    <2>2. QED
      BY <2>1 DEF Locked, Ops
  <1>9. Fifo
    BY DEF Fifo, Working
  <1>10. Points /\ States
    <2>1. Points
      <3>1. \A r \in Requests : pc[r] \in TurnPoints
        BY DEF TurnPoints
      <3>2. 0 \in 0 .. MaxOps /\ 0 \in 0 .. MaxFaults
        OBVIOUS
      <3>3. QED
        BY <3>1, <3>2 DEF Points
    <2>2. States
      BY DEF States, NoAgent
    <2>3. QED
      BY <2>1, <2>2
  <1>11. Own
    BY DEF Own, NewTurn
  <1>12. QED
    BY <1>1, <1>2, <1>3, <1>4, <1>5, <1>6, <1>7, <1>8, <1>9, <1>10, <1>11 DEF IInv

(* Every step keeps the invariant, part by part.                           *)
LEMMA Steps == IInv /\ [Next]_vars => IInv'
  BY FlagsStep, AgentsStep, TurnsStep, ClaimsStep, AliveStep, RowsStep, StoredStep,
     ForgottenStep, LockedStep, FifoStep,
     PointsStep, StatesStep, OwnStep DEF IInv

(* The invariant holds in every reachable state of the chat server.        *)
THEOREM Invariance == Spec => []IInv
  BY Starts, Steps, PTL DEF Spec

(* Where a disconnect() that is cut short takes the process with it all the*)
(* same, no agent process is left behind, whatever turns, tabs, sweeps,    *)
(* crashes and restarts come between (sessions.py: concurrent calls "can   *)
(* leak connections").                                                     *)
THEOREM NoneLeaks == ASSUME ~CutShort PROVE Spec => []NoLeakedAgent
  <1>1. IInv => NoLeakedAgent
    BY DEF IInv, Alive, States, NoLeakedAgent
  <1>2. QED
    BY <1>1, Invariance, PTL

(* A stored turn says "running" only while its request has the claim,      *)
(* unless the database refused the write that ends it.                     *)
THEOREM NoneRunsForever == Spec => []RunningRowHasTurn
  <1>1. IInv => RunningRowHasTurn
    BY DEF IInv, Stored, RunningRowHasTurn
  <1>2. QED
    BY <1>1, Invariance, PTL

(* After a deletion no registered agent knows a deleted turn, however many *)
(* turns and agents there are.                                             *)
THEOREM DeletionForgets == Spec => []DeletedIsForgotten
  <1>1. IInv => DeletedIsForgotten
    BY DEF IInv, Forgotten, DeletedIsForgotten
  <1>2. QED
    BY <1>1, Invariance, PTL

(* Where no turn outlasts the idle timeout, nothing but the turn itself,   *)
(* the agent's own death or the end of the server takes the agent from a   *)
(* turn that has it: not a close, a refresh, a deletion or the sweep,      *)
(* whichever way they wait for the lock (app.py: they "would cut it off"). *)
THEOREM NobodyCutsOff == ASSUME ~LongTurns PROVE Spec => NotCutOff
  <1>1. IInv /\ [Next]_vars =>
          [\A r \in Requests :
              (/\ pc[r] \in {"replay", "deliver", "stream"} /\ pc'[r] = pc[r]
               /\ client[mine[r].on].at = "up")
              => client'[mine[r].on].at \in {"up", "dead"}]_vars
    BY StaysStep DEF IInv, AgentStays
  <1>2. QED
    BY <1>1, Invariance, PTL DEF Spec, NotCutOff

(* The type invariant, with what ties the locals of a turn to the shared   *)
(* state, the queue of the lock included.                                  *)
THEOREM TypeCorrect == Spec => []TypeOK
  <1>1. IInv => TypeOK
    BY DEF IInv, TypeOK, Flags, Claims, RowsTyped, Row, Locked, Points, States, Own
  <1>2. QED
    BY <1>1, Invariance, PTL

-----------------------------------------------------------------------------
(* What the agents have been asked and what they have written, step by     *)
(* step: only Sent and Answer change what is asked, only Say, Answer and   *)
(* Receive what is written, and an agent that is taken down or whose stream*)
(* has broken is asked nothing any more.                                   *)

Asked == [of : Requests, said : BOOLEAN, quiet : BOOLEAN]
Written == [of : Requests, what : {"text", "task", "reply", "done", "end", "failed"}]

Wired ==
    \A c \in Requests :
        /\ client[c].pend \in Seq(Asked) /\ client[c].queue \in Seq(Written)
        /\ client[c].at # "up" /\ (client[c].at = "dead" => ~IsAcp(c)) => client[c].pend = <<>>

Closes(e, c) == e.what = "end" \/ (e.what = "done" /\ ~IsAcp(c))

(* What a step leaves of an agent it does not talk to.                     *)
Spared(c) == /\ client'[c].queue = client[c].queue /\ client'[c].knows = client[c].knows
             /\ client'[c].refreshed = client[c].refreshed
             /\ \/ client'[c].pend = client[c].pend /\ client'[c].at = client[c].at
                \/ client'[c].pend = <<>> /\ client'[c].at \in {"gone", "starting", "stray"}

(* Connecting takes down the agent of the other backend, if there is one.  *)
LEMMA ConnectIs ==
    ASSUME Flags, Agents, Wired, Alive, NEW r \in Requests, Connect(r), client[r].pend = <<>>
    PROVE  \A c \in Requests : Spared(c)
  <1> DEFINE cs == Disconnected(client, reg)
  <1>1. client' = [cs EXCEPT ![r].at = "starting"]
    BY DEF Connect
  <1>2. reg \in Requests \cup {NoOne}
    BY DEF Flags
  <1> HIDE DEF cs
  <1>3. /\ DOMAIN cs = Requests
        /\ \A c \in Requests : DOMAIN cs[c] = {"at", "pend", "queue", "knows", "refreshed"}
        /\ \A c \in Requests \ {reg} : cs[c] = client[c]
        /\ reg # NoOne => /\ cs[reg].at = "gone" /\ cs[reg].pend = <<>>
                          /\ cs[reg].queue = client[reg].queue /\ cs[reg].knows = client[reg].knows
                          /\ cs[reg].refreshed = client[reg].refreshed
    BY <1>2, SparedAll DEF cs
  <1>4. QED
    BY <1>1, <1>2, <1>3, ChatAssumption DEF Spared

(* Whoever is taken down, the others are not touched.                      *)
LEMMA ReleaseIs ==
    ASSUME Flags, Agents, NEW x \in Requests \cup {NoOne}, client' = Disconnected(client, x)
    PROVE  \A c \in Requests : Spared(c)
  <1>1. /\ \A c \in Requests \ {x} : client'[c] = client[c]
        /\ x # NoOne => /\ client'[x].at = "gone" /\ client'[x].pend = <<>>
                        /\ client'[x].queue = client[x].queue /\ client'[x].knows = client[x].knows
                        /\ client'[x].refreshed = client[x].refreshed
    BY SparedAll
  <1>2. QED
    BY <1>1, ChatAssumption DEF Spared

(* Drop, a close, a deletion, the sweep, a connection that fails or is left.*)
LEMMA EvictIs ==
    ASSUME Flags, Agents,
           \/ \E r \in Requests : \/ Drop(r) \/ DropCutShort(r) \/ ConnectFails(r)
                                \/ LeaveRegistry(r) \/ LeaveSwitch(r)
           \/ CloseSession \/ DeleteDrops \/ Sweep \/ RefreshStarts
    PROVE  \A c \in Requests : Spared(c)
  <1>0. reg \in Requests \cup {NoOne}
    BY DEF Flags
  <1>1. CASE client' = Disconnected(client, reg)
    BY <1>0, <1>1, ReleaseIs
  <1>2. CASE client' = client
    BY <1>2 DEF Spared
  <1>3. ASSUME NEW r \in Requests, client' = Disconnected(client, r) PROVE \A c \in Requests : Spared(c)
    BY <1>3, ReleaseIs
  <1>4. CASE RefreshStarts
    <2>1. CASE reg = NoOne
      BY <1>4, <2>1, <1>2 DEF RefreshStarts
    <2>2. CASE reg # NoOne
      <3>1. client' = [client EXCEPT ![reg] = [client[reg] EXCEPT !.at = "starting",
                                                                  !.pend = <<>>]] /\ reg \in Requests
        BY <1>0, <1>4, <2>2 DEF RefreshStarts
      <3>2. QED
        BY <3>1 DEF Spared, Agents
    <2>3. QED
      BY <2>1, <2>2
  <1>a. ASSUME NEW x \in Requests, Abandon(x) PROVE \A c \in Requests : Spared(c)
    <2>1. PICK at \in {"gone", "stray"} :
             client' = [client EXCEPT ![x] = [client[x] EXCEPT !.at = at, !.pend = <<>>]]
      BY <1>a DEF Abandon
    <2>2. QED
      BY <2>1 DEF Spared, Agents
  <1>b. ASSUME NEW r \in Requests, DropCutShort(r) \/ LeaveRegistry(r) \/ LeaveSwitch(r)
        PROVE  \A c \in Requests : Spared(c)
    BY <1>0, <1>2, <1>a, <1>b DEF DropCutShort, LeaveRegistry, LeaveSwitch
  <1>5. ASSUME NEW r \in Requests, Drop(r) \/ ConnectFails(r)
        PROVE  \A c \in Requests : Spared(c)
    BY <1>1, <1>2, <1>3, <1>5 DEF Drop, Evict, ConnectFails
  <1>6. CASE CloseSession \/ DeleteDrops \/ Sweep
    BY <1>1, <1>2, <1>6 DEF CloseSession, DeleteDrops, Sweep, Evict
  <1>7. QED
    BY <1>4, <1>5, <1>6, <1>b

(* The first prompt is marked as answered in part, and a piece is written. *)
LEMMA SayIs ==
    ASSUME Agents, Wired, NEW c \in Requests, Say(c)
    PROVE  /\ \A d \in Requests \ {c} : client'[d] = client[d]
           /\ client[c].pend # <<>> /\ client[c].at = "up" /\ client[c].pend[1] \in Asked
           /\ client'[c].at = client[c].at /\ client'[c].knows = client[c].knows
           /\ client'[c].refreshed = client[c].refreshed
           /\ client'[c].pend \in Seq(Asked) /\ Len(client'[c].pend) = Len(client[c].pend)
           /\ \A i \in DOMAIN client'[c].pend :
                 i \in DOMAIN client[c].pend /\ client'[c].pend[i].of = client[c].pend[i].of
           /\ \E part \in {"text", "task", "reply"} :
                 client'[c].queue = Append(client[c].queue, Item(client[c].pend[1].of, part))
           /\ client'[c].queue \in Seq(Written)
  <1>0. PICK part \in {"text", "task", "reply"} :
           client' = [client EXCEPT ![c] =
                         [client[c] EXCEPT !.queue = Append(@, Item(client[c].pend[1].of, part)),
                                           !.pend[1].said = TRUE]]
    BY DEF Say, Parts
  <1> DEFINE p == client[c].pend
             t == [p[1] EXCEPT !.said = TRUE]
             z == Item(p[1].of, part)
  <1>1. /\ client[c].at = "up" /\ p # <<>>
        /\ client' = [client EXCEPT ![c] = [client[c] EXCEPT !.queue = Append(@, z),
                                                             !.pend[1].said = TRUE]]
    BY <1>0 DEF Say
  <1>2. p \in Seq(Asked) /\ client[c].queue \in Seq(Written)
    BY DEF Wired
  <1>3. 1 \in 1 .. Len(p) /\ p[1] \in Asked /\ DOMAIN p = 1 .. Len(p) /\ Len(p) \in Nat
    BY <1>1, <1>2
  <1>4. t \in Asked /\ t.of = p[1].of /\ z \in Written
    BY <1>3 DEF Asked, Written, Item
  <1>5. /\ client'[c].pend = [p EXCEPT ![1] = t]
        /\ client'[c].queue = Append(client[c].queue, z)
        /\ client'[c].at = client[c].at /\ client'[c].knows = client[c].knows
        /\ client'[c].refreshed = client[c].refreshed
        /\ \A d \in Requests \ {c} : client'[d] = client[d]
    <2> DEFINE q == Append(client[c].queue, z)
               l == [p EXCEPT ![1] = t]
               x == [client[c] EXCEPT !.queue = q, !.pend = l]
    <2>1. l = [p EXCEPT ![1].said = TRUE]
      OBVIOUS
    <2>2. client' = [client EXCEPT ![c] = x]
      BY <1>1, <2>1
    <2> HIDE DEF q, l
    <2>3. DOMAIN client[c] = {"at", "pend", "queue", "knows", "refreshed"}
      BY DEF Agents
    <2>4. /\ x.queue = q /\ x.pend = l /\ x.at = client[c].at /\ x.knows = client[c].knows
          /\ x.refreshed = client[c].refreshed
      BY <2>3
    <2> HIDE DEF x
    <2>5. client'[c] = x /\ \A d \in Requests \ {c} : client'[d] = client[d]
      BY <2>2 DEF Agents
    <2>6. QED
      BY <2>4, <2>5 DEF q, l
  <1> HIDE DEF p, t, z
  <1>8. /\ [p EXCEPT ![1] = t] \in Seq(Asked) /\ Len([p EXCEPT ![1] = t]) = Len(p)
        /\ \A j \in 1 .. Len(p) : [p EXCEPT ![1] = t][j] = IF j = 1 THEN t ELSE p[j]
    BY <1>2, <1>3, <1>4, ExceptSeq
  <1>9. DOMAIN [p EXCEPT ![1] = t] = DOMAIN p
    OBVIOUS
  <1>10. Append(client[c].queue, z) \in Seq(Written)
    BY <1>2, <1>4, AppendProperties
  <1>11. QED
    BY <1>1, <1>3, <1>4, <1>5, <1>8, <1>9, <1>10 DEF p, z

(* The first prompt is over; the mark that ends its turn is written last,  *)
(* or none is.                                                             *)
LEMMA AnswerIs ==
    ASSUME Agents, Wired, NEW c \in Requests, Answer(c)
    PROVE  /\ \A d \in Requests \ {c} : client'[d] = client[d]
           /\ client[c].pend # <<>> /\ client[c].pend[1] \in Asked
           /\ client'[c].at = client[c].at /\ client'[c].knows = client[c].knows
           /\ client'[c].refreshed = client[c].refreshed
           /\ client'[c].pend = Tail(client[c].pend) /\ client'[c].pend \in Seq(Asked)
           /\ \E s \in Seq(Written) :
                 /\ client'[c].queue = client[c].queue \o s
                 /\ \A i \in DOMAIN s :
                       s[i].of = client[c].pend[1].of /\ (Closes(s[i], c) => i = Len(s))
  <1> DEFINE p == client[c].pend
             o == p[1].of
             e == Ending(c, o)
             f == <<Item(o, "failed")>> \o e
             s == IF p[1].quiet THEN <<>> ELSE IF client[c].at = "up" THEN e ELSE f
  <1>1. /\ p # <<>>
        /\ client' = [client EXCEPT ![c] =
                        [client[c] EXCEPT !.pend = Tail(@),
                                          !.queue = IF p[1].quiet THEN @
                                                    ELSE IF client[c].at = "up" THEN @ \o Ending(c, p[1].of)
                                                    ELSE @ \o <<Item(p[1].of, "failed")>> \o Ending(c, p[1].of)]]
    BY DEF Answer
  <1>2. p \in Seq(Asked) /\ client[c].queue \in Seq(Written)
    BY DEF Wired
  <1>3. p[1] \in Asked /\ o \in Requests /\ Tail(p) \in Seq(Asked)
    <2>1. p[1] \in Asked
      BY <1>1, <1>2
    <2>2. Tail(p) \in Seq(Asked)
      BY <1>1, <1>2, HeadTailProperties
    <2>3. o \in Requests
      <3> HIDE DEF p
      <3>1. QED
        BY <2>1 DEF Asked
    <2>4. QED
      BY <2>1, <2>2, <2>3
  <1>4. /\ client'[c].pend = Tail(p) /\ client'[c].at = client[c].at
        /\ client'[c].knows = client[c].knows /\ client'[c].refreshed = client[c].refreshed
        /\ \A d \in Requests \ {c} : client'[d] = client[d]
        /\ client'[c].queue = IF p[1].quiet THEN client[c].queue
                              ELSE IF client[c].at = "up" THEN client[c].queue \o e
                              ELSE client[c].queue \o <<Item(o, "failed")>> \o e
    <2> DEFINE q == IF p[1].quiet THEN client[c].queue
                    ELSE IF client[c].at = "up" THEN client[c].queue \o e
                    ELSE client[c].queue \o <<Item(o, "failed")>> \o e
               l == Tail(p)
               x == [client[c] EXCEPT !.pend = l, !.queue = q]
    <2>1. client' = [client EXCEPT ![c] = x]
      BY <1>1
    <2> HIDE DEF q, l
    <2>2. DOMAIN client[c] = {"at", "pend", "queue", "knows", "refreshed"}
      BY DEF Agents
    <2>3. /\ x.queue = q /\ x.pend = l /\ x.at = client[c].at /\ x.knows = client[c].knows
          /\ x.refreshed = client[c].refreshed
      BY <2>2
    <2> HIDE DEF x
    <2>4. client'[c] = x /\ \A d \in Requests \ {c} : client'[d] = client[d]
      BY <2>1 DEF Agents
    <2>5. QED
      BY <2>3, <2>4 DEF q, l
  <1>5. /\ Item(o, "done") \in Written /\ Item(o, "end") \in Written /\ Item(o, "failed") \in Written
        /\ Item(o, "done").of = o /\ Item(o, "end").of = o /\ Item(o, "failed").of = o
        /\ ~Closes(Item(o, "failed"), c)
        /\ IsAcp(c) => ~Closes(Item(o, "done"), c)
    BY <1>3 DEF Item, Written, Closes
  <1>6. /\ e \in Seq(Written)
        /\ \A i \in DOMAIN e : e[i].of = o /\ (Closes(e[i], c) => i = Len(e))
    <2>1. CASE IsAcp(c)
      <3>1. e = <<Item(o, "done"), Item(o, "end")>>
        BY <2>1 DEF Ending
      <3>2. QED
        BY <1>5, <2>1, <3>1
    <2>2. CASE ~IsAcp(c)
      <3>1. e = <<Item(o, "done")>>
        BY <2>2 DEF Ending
      <3>2. QED
        BY <1>5, <3>1
    <2>3. QED
      BY <2>1, <2>2
  <1> HIDE DEF p, o, e
  <1>7. /\ f \in Seq(Written)
        /\ \A i \in DOMAIN f : f[i].of = o /\ (Closes(f[i], c) => i = Len(f))
    <2> DEFINE h == <<Item(o, "failed")>>
    <2>1. h \in Seq(Written) /\ Len(h) = 1 /\ h[1] = Item(o, "failed")
      BY <1>5
    <2> HIDE DEF h
    <2>2. /\ h \o e \in Seq(Written) /\ Len(h \o e) = 1 + Len(e) /\ Len(e) \in Nat
          /\ DOMAIN (h \o e) = 1 .. (1 + Len(e)) /\ DOMAIN e = 1 .. Len(e)
          /\ \A i \in 1 .. (1 + Len(e)) : (h \o e)[i] = IF i <= 1 THEN h[i] ELSE e[i - 1]
      <3>1. /\ h \o e \in Seq(Written) /\ Len(h \o e) = Len(h) + Len(e)
            /\ \A i \in 1 .. (Len(h) + Len(e)) :
                  (h \o e)[i] = IF i <= Len(h) THEN h[i] ELSE e[i - Len(h)]
        BY <1>6, <2>1, ConcatProperties
      <3>2. Len(e) \in Nat /\ DOMAIN e = 1 .. Len(e)
        BY <1>6
      <3>3. DOMAIN (h \o e) = 1 .. Len(h \o e)
        BY <3>1
      <3>4. QED
        BY <2>1, <3>1, <3>2, <3>3
    <2>3. ASSUME NEW i \in 1 .. (1 + Len(e))
          PROVE  (h \o e)[i].of = o /\ (Closes((h \o e)[i], c) => i = 1 + Len(e))
      <3>1. CASE i = 1
        BY <1>5, <2>1, <2>2, <3>1
      <3>2. CASE i # 1
        <4>1. i - 1 \in DOMAIN e /\ (h \o e)[i] = e[i - 1]
          BY <2>2, <3>2
        <4>2. QED
          BY <1>6, <2>2, <4>1
      <3>3. QED
        BY <3>1, <3>2
    <2>4. QED
      BY <2>2, <2>3 DEF h
  <1> HIDE DEF f
  <1>8. /\ s \in Seq(Written)
        /\ \A i \in DOMAIN s : s[i].of = o /\ (Closes(s[i], c) => i = Len(s))
    BY <1>6, <1>7
  <1>9. client'[c].queue = client[c].queue \o s
    <2>1. CASE p[1].quiet
      BY <1>2, <1>4, <2>1, ConcatEmptySeq
    <2>2. CASE ~p[1].quiet /\ client[c].at = "up"
      BY <1>4, <2>2
    <2>3. CASE ~p[1].quiet /\ client[c].at # "up"
      <3>1. <<Item(o, "failed")>> \in Seq(Written)
        BY <1>5
      <3>2. (client[c].queue \o <<Item(o, "failed")>>) \o e
               = client[c].queue \o (<<Item(o, "failed")>> \o e)
        <4> DEFINE h == <<Item(o, "failed")>>
                   q == client[c].queue
        <4>1. h \in Seq(Written) /\ q \in Seq(Written) /\ e \in Seq(Written)
          BY <1>2, <1>6, <3>1
        <4> HIDE DEF h, q
        <4>2. (q \o h) \o e = q \o (h \o e)
          BY <4>1, ConcatAssociative
        <4>3. QED
          BY <4>2 DEF h, q
      <3>3. QED
        BY <1>4, <2>3, <3>2 DEF f
    <2>4. QED
      BY <2>1, <2>2, <2>3
  <1> HIDE DEF s
  <1>10. QED
    BY <1>1, <1>3, <1>4, <1>8, <1>9 DEF p, o

(* A prompt goes out with the history, if the agent is to be told.         *)
LEMMA SentIs ==
    ASSUME Agents, Wired, NEW r \in Requests, NEW quiet \in BOOLEAN, mine[r].on \in Requests,
           client' = Sent(r, quiet)
    PROVE  LET c == mine[r].on IN
           /\ \A d \in Requests \ {c} : client'[d] = client[d]
           /\ client'[c].at = client[c].at /\ client'[c].queue = client[c].queue
           /\ client'[c].refreshed = client[c].refreshed
           /\ client'[c].knows = client[c].knows \cup mine[r].told \cup {r}
           /\ client'[c].pend = Append(client[c].pend, Prompt(r, quiet))
           /\ client'[c].pend \in Seq(Asked)
           /\ Prompt(r, quiet).of = r /\ Prompt(r, quiet) \in Asked
  <1> DEFINE c == mine[r].on
             x == Prompt(r, quiet)
  <1>2. x \in Asked /\ x.of = r /\ client[c].pend \in Seq(Asked)
    BY DEF Prompt, Asked, Wired
  <1>3. c \in Requests
    OBVIOUS
  <1> HIDE DEF x, c
  <1>4. Append(client[c].pend, x) \in Seq(Asked)
    BY <1>2, AppendProperties
  <1>5. /\ \A d \in Requests \ {c} : client'[d] = client[d]
        /\ client'[c].at = client[c].at /\ client'[c].queue = client[c].queue
        /\ client'[c].refreshed = client[c].refreshed
        /\ client'[c].knows = client[c].knows \cup mine[r].told \cup {r}
        /\ client'[c].pend = Append(client[c].pend, x)
    BY <1>3, PromptSent DEF x, c
  <1>6. QED
    BY <1>2, <1>4, <1>5 DEF x, c

(* The turn reads the next event.                                          *)
LEMMA ReceiveIs ==
    ASSUME Agents, Turns, Wired, NEW r \in Requests, Receive(r), mine[r].on \in Requests,
           DOMAIN heard = Requests
    PROVE  LET c == mine[r].on
               e == client[c].queue[1]
           IN
           /\ \A d \in Requests \ {c} : client'[d] = client[d]
           /\ client'[c].at = client[c].at /\ client'[c].knows = client[c].knows
           /\ client'[c].refreshed = client[c].refreshed /\ client'[c].pend = client[c].pend
           /\ client[c].queue # <<>> /\ client'[c].queue = Tail(client[c].queue)
           /\ client'[c].queue \in Seq(Written)
           /\ heard'[r] = heard[r] \cup {e.of}
           /\ \A q \in Requests \ {r} : heard'[q] = heard[q]
           /\ \A q \in Requests :
                 /\ mine'[q].on = mine[q].on /\ mine'[q].fresh = mine[q].fresh
                 /\ mine'[q].told = mine[q].told /\ mine'[q].delivered = mine[q].delivered
                 /\ mine'[q].unsure = mine[q].unsure /\ mine'[q].row = mine[q].row
                 /\ q # r => mine'[q] = mine[q]
           /\ pc[r] = "stream"
           /\ IF Closes(e, c) THEN pc' = [pc EXCEPT ![r] = "closing"] ELSE pc' = pc
           /\ UNCHANGED <<claim, lockq, opc, reg, stale, rows, ops, faults, spoiled, unwritten, deleted>>
  <1> DEFINE c == mine[r].on
             e == client[c].queue[1]
  <1>1. client[c].queue \in Seq(Written) /\ client[c].queue # <<>>
    BY DEF Wired, Receive
  <1>2. Head(client[c].queue) = e /\ Tail(client[c].queue) \in Seq(Written)
    BY <1>1, HeadTailProperties
  <1>3. /\ client' = [client EXCEPT ![c].queue = Tail(@)]
        /\ heard' = [heard EXCEPT ![r] = @ \cup {e.of}]
        /\ mine' = [mine EXCEPT ![r] =
                       [mine[r] EXCEPT !.completed = @ \/ e.what = "done",
                                       !.waits = IF e.what \in {"task", "reply"} THEN e.what ELSE @,
                                       !.error = IF e.what = "failed" THEN "error" ELSE @]]
        /\ IF e.what = "end" \/ (e.what = "done" /\ ~IsAcp(c)) THEN Go(r, "closing") ELSE UNCHANGED pc
        /\ pc[r] = "stream"
        /\ UNCHANGED <<claim, lockq, opc, reg, stale, rows, ops, faults, spoiled, unwritten, deleted>>
    BY <1>2 DEF Receive
  <1>4. IF Closes(e, c) THEN pc' = [pc EXCEPT ![r] = "closing"] ELSE pc' = pc
    BY <1>3 DEF Closes, Go
  <1>5. heard'[r] = heard[r] \cup {e.of} /\ \A q \in Requests \ {r} : heard'[q] = heard[q]
    BY <1>3
  <1>6. \A q \in Requests :
             /\ mine'[q].on = mine[q].on /\ mine'[q].fresh = mine[q].fresh
             /\ mine'[q].told = mine[q].told /\ mine'[q].delivered = mine[q].delivered
             /\ mine'[q].unsure = mine[q].unsure /\ mine'[q].row = mine[q].row
             /\ q # r => mine'[q] = mine[q]
    BY <1>3 DEF Turns
  <1>7. /\ \A d \in Requests \ {c} : client'[d] = client[d]
        /\ client'[c].at = client[c].at /\ client'[c].knows = client[c].knows
        /\ client'[c].refreshed = client[c].refreshed /\ client'[c].pend = client[c].pend
        /\ client'[c].queue = Tail(client[c].queue)
    BY <1>3 DEF Agents
  <1>8. QED
    BY <1>1, <1>2, <1>3, <1>4, <1>5, <1>6, <1>7

(* Nothing that was asked or known outlives the server.                    *)
LEMMA RestartIs ==
    ASSUME Agents, Wired, ServerRestarts
    PROVE  /\ \A c \in Requests :
                 /\ client'[c].pend = <<>> /\ client'[c].queue \in {client[c].queue, <<>>}
                 /\ client'[c].at \in {"none", "gone", "stray"}
           /\ \A r \in Requests : /\ pc'[r] = IF pc[r] = "idle" THEN "idle" ELSE "over"
                                  /\ mine'[r] = NewTurn /\ heard'[r] = {}
           /\ DOMAIN heard' = Requests
           /\ reg' = NoOne /\ opc' = [o \in Ops |-> "idle"] /\ UNCHANGED <<spoiled, deleted>>
  <1>1. \A c \in Requests :
            client'[c] = IF client[c].at \in {"none", "stray"} THEN client[c]
                                                              ELSE Disconnected(client, c)[c]
    BY DEF ServerRestarts
  <1>2. ASSUME NEW c \in Requests
        PROVE  /\ client'[c].pend = <<>> /\ client'[c].queue \in {client[c].queue, <<>>}
               /\ client'[c].at \in {"none", "gone", "stray"}
    <2>1. CASE client[c].at \in {"none", "stray"}
      BY <1>1, <2>1 DEF Wired
    <2>2. CASE client[c].at \notin {"none", "stray"}
      <3>1. client'[c] = [client EXCEPT ![c] = [client[c] EXCEPT !.at = "gone", !.pend = <<>>]][c]
        BY <1>1, <2>2, ChatAssumption DEF Disconnected
      <3>2. QED
        BY <3>1 DEF Agents
    <2>3. QED
      BY <2>1, <2>2
  <1>3. QED
    BY <1>2 DEF ServerRestarts

(* A dead agent has nothing more to write than the failures of what it was *)
(* asked.                                                                  *)
LEMMA DiesIs ==
    ASSUME Agents, NEW c \in Requests, Dies(c)
    PROVE  /\ \A d \in Requests \ {c} : client'[d] = client[d]
           /\ client'[c].at = "dead" /\ client'[c].queue = client[c].queue
           /\ client'[c].knows = client[c].knows /\ client'[c].refreshed = client[c].refreshed
           /\ client'[c].pend = IF IsAcp(c) THEN client[c].pend ELSE <<>>
  <1> DEFINE p == IF IsAcp(c) THEN client[c].pend ELSE <<>>
             x == [client[c] EXCEPT !.at = "dead", !.pend = p]
  <1>1. client' = [client EXCEPT ![c] = x]
    BY DEF Dies
  <1> HIDE DEF p
  <1>2. /\ x.at = "dead" /\ x.pend = p /\ x.queue = client[c].queue
        /\ x.knows = client[c].knows /\ x.refreshed = client[c].refreshed
    BY DEF Agents
  <1> HIDE DEF x
  <1>3. client'[c] = x /\ \A d \in Requests \ {c} : client'[d] = client[d]
    BY <1>1 DEF Agents
  <1>4. QED
    BY <1>2, <1>3 DEF p

(* A new agent comes up; nothing else about it changes.                    *)
LEMMA ConnectedIs ==
    ASSUME Agents, NEW c \in Requests, Connected(c)
    PROVE  /\ \A d \in Requests \ {c} : client'[d] = client[d]
           /\ client'[c].at = "up" /\ client'[c].queue = client[c].queue
           /\ client'[c].knows = client[c].knows /\ client'[c].refreshed = client[c].refreshed
           /\ client'[c].pend = client[c].pend
  BY DEF Connected, Agents

-----------------------------------------------------------------------------
(* A turn and its agent: what a turn has is what is registered, or nothing *)
(* is; before it has an agent none has been asked anything in its name.    *)

Placed ==
    \A r \in Requests :
        /\ mine[r].on \in Requests \cup {NoOne}
        /\ mine[r].on # NoOne => pc[mine[r].on] \notin Early /\ reg \in {mine[r].on, NoOne}
        /\ pc[r] \in Early => mine[r].on = NoOne

(* A turn takes what is registered, or registers what it connected; nobody *)
(* else registers anything while the turn is under way.                    *)
LEMMA PlacedStep ==
    ASSUME Flags, Turns, Claims, Own, Alive, Forgotten, Placed, [Next]_vars
    PROVE  Placed'
  <1> USE ChatAssumption DEF Go, ghosts, Flags, Turns, Claims, Placed, Early, Ops
  <1>1. ASSUME NEW r \in Requests, Post(r) PROVE Placed'
    BY <1>1 DEF Post
  <1>2. ASSUME NEW r \in Requests, Record(r) PROVE Placed'
    BY <1>2 DEF Record, Enqueue, Fault
  <1>3. ASSUME NEW r \in Requests, Reuse(r) PROVE Placed'
    <2>1. /\ mine' = [mine EXCEPT ![r].on = reg] /\ reg \in Requests /\ reg' = reg
          /\ pc[r] = "queued" /\ pc' = [pc EXCEPT ![r] = "deliver"]
      BY <1>3 DEF Reuse, Reusable
    <2>2. \A q \in Requests \ {r} : mine[q].on = NoOne
      BY <2>1 DEF Own, NewTurn
    <2>3. pc[reg] \notin Early
      BY <2>1 DEF Forgotten
    <2>4. QED
      BY <2>1, <2>2, <2>3
  <1>4. ASSUME NEW r \in Requests, Connect(r) PROVE Placed'
    BY <1>4 DEF Connect, Reusable, Holds
  <1>5. ASSUME NEW r \in Requests, Connected(r) PROVE Placed'
    <2>1. /\ mine' = [mine EXCEPT ![r] = [mine[r] EXCEPT !.on = r, !.fresh = TRUE]] /\ reg' = r
          /\ pc[r] = "connecting" /\ pc' = [pc EXCEPT ![r] = "replay"]
      BY <1>5 DEF Connected
    <2>2. \A q \in Requests \ {r} : mine[q].on = NoOne
      BY <2>1 DEF Own, NewTurn
    <2>3. QED
      BY <2>1, <2>2
  <1>6. ASSUME NEW r \in Requests, ConnectFails(r) PROVE Placed'
    BY <1>6 DEF ConnectFails, Fault, Disconnected, Release
  <1>7. ASSUME NEW r \in Requests, Replay(r) PROVE Placed'
    BY <1>7 DEF Replay, Fault, DoneTurns
  <1>8. ASSUME NEW r \in Requests, Deliver(r) PROVE Placed'
    BY <1>8 DEF Deliver, Sent, Prompt
  <1>9. ASSUME NEW r \in Requests, Receive(r) PROVE Placed'
    <2>1. pc[r] = "stream" /\ (pc' = pc \/ pc' = [pc EXCEPT ![r] = "closing"]) /\ reg' = reg
      BY <1>9, ReceiveKeeps
    <2>2. \A q \in Requests : mine'[q].on = mine[q].on
      BY <1>9, ReceiveKeeps
    <2>3. QED
      BY <2>1, <2>2
  <1>10. ASSUME NEW r \in Requests, StreamBreaks(r) PROVE Placed'
    BY <1>10 DEF StreamBreaks
  <1>10a. ASSUME NEW r \in Requests, GivesUp(r) PROVE Placed'
    BY <1>10a DEF GivesUp
  <1>11. ASSUME NEW r \in Requests, Closing(r) PROVE Placed'
    BY <1>11 DEF Closing, Unsafe, Enqueue
  <1>12. ASSUME NEW r \in Requests, Drop(r) PROVE Placed'
    BY <1>12 DEF Drop, Evict, Disconnected, Release, Holds
  <1>13. ASSUME NEW r \in Requests, DropTimesOut(r) PROVE Placed'
    BY <1>13 DEF DropTimesOut, Fault, Holds
  <1>13a. ASSUME NEW r \in Requests, DropCutShort(r) PROVE Placed'
    BY <1>13a DEF DropCutShort, Fault, Release, Holds
  <1>14. ASSUME NEW r \in Requests, Finish(r) PROVE Placed'
    BY <1>14 DEF Finish, Fault, StatusOf
  <1>15. ASSUME NEW r \in Requests, Unclaim(r) PROVE Placed'
    BY <1>15 DEF Unclaim, NewTurn
  <1>16. ASSUME NEW r \in Requests, LeaveUnstarted(r) PROVE Placed'
    BY <1>16 DEF LeaveUnstarted
  <1>17. ASSUME NEW r \in Requests, LeaveRegistry(r) PROVE Placed'
    BY <1>17 DEF LeaveRegistry, Interrupted
  <1>17a. ASSUME NEW r \in Requests, LeaveSwitch(r) PROVE Placed'
    BY <1>17a DEF LeaveSwitch, Interrupted, Holds, Reusable
  <1>18. ASSUME NEW r \in Requests, LeaveAgent(r) PROVE Placed'
    BY <1>18 DEF LeaveAgent, Interrupted
  <1>19. ASSUME NEW r \in Requests, LeaveQuery(r) PROVE Placed'
    BY <1>19 DEF LeaveQuery, Interrupted, Sent, Prompt
  <1>20. ASSUME NEW r \in Requests, Say(r) PROVE Placed'
    BY <1>20 DEF Say, Item
  <1>21. ASSUME NEW r \in Requests, Answer(r) PROVE Placed'
    BY <1>21 DEF Answer
  <1>22. ASSUME NEW r \in Requests, Dies(r) PROVE Placed'
    BY <1>22 DEF Dies, Fault
  <1>23. CASE AskClose
    BY <1>23 DEF AskClose, Begin, Enqueue, At
  <1>24. CASE AskRefresh
    BY <1>24 DEF AskRefresh, Begin, Enqueue, At
  <1>25. CASE CloseSession
    BY <1>25 DEF CloseSession, HasLock, Holds, Evict, Disconnected, Release, At
  <1>26. CASE RefreshStarts
    BY <1>26 DEF RefreshStarts, HasLock, Holds, Release, At
  <1>27. CASE RefreshEnds
    BY <1>27 DEF RefreshEnds, HasLock, Holds, Release, Fault, At
  <1>28. CASE AskDelete
    BY <1>28 DEF AskDelete, Begin, Enqueue, At
  <1>29. CASE DeleteDrops
    BY <1>29 DEF DeleteDrops, HasLock, Holds, Evict, Disconnected, Release, At
  <1>30. CASE DeleteRows
    BY <1>30 DEF DeleteRows, Fault, At
  <1>31. CASE AskSweep
    BY <1>31 DEF AskSweep, Begin, Enqueue, At
  <1>32. CASE Sweep
    BY <1>32 DEF Sweep, HasLock, Holds, Evict, Disconnected, Release, At
  <1>33. CASE OtherLocks
    BY <1>33 DEF OtherLocks, Begin, Enqueue, At
  <1>34. CASE OtherUnlocks
    BY <1>34 DEF OtherUnlocks, HasLock, Holds, Release, At
  <1>35. CASE TimePasses
    BY <1>35 DEF TimePasses
  <1>36. CASE ServerRestarts
    <2>1. reg' = NoOne /\ \A r \in Requests : mine'[r] = NewTurn
      BY <1>36 DEF ServerRestarts
    <2>2. QED
      BY <2>1 DEF NewTurn
  <1>37. CASE UNCHANGED vars
    BY <1>37 DEF vars
  <1>38. QED
    BY <1>1, <1>2, <1>3, <1>4, <1>5, <1>6, <1>7, <1>8, <1>9, <1>10, <1>10a, <1>11,
       <1>12, <1>13, <1>13a, <1>14, <1>15, <1>16, <1>17, <1>17a, <1>18, <1>19, <1>20, <1>21,
       <1>22, <1>23, <1>24, <1>25, <1>26, <1>27, <1>28, <1>29, <1>30, <1>31,
       <1>32, <1>33, <1>34, <1>35, <1>36, <1>37
    DEF Next, Turn, Leave, Agent, Asks, Serves


(* Under a refresh the agent is down, and the refresh has the lock.        *)
Refreshing == opc["refresh"] = "busy" => reg # NoOne /\ client[reg].at = "starting"

(* The refresh has the lock until the agent is up again: nobody else takes it*)
(* down or registers another.                                              *)
LEMMA RefreshingStep ==
    ASSUME Flags, Agents, Claims, Locked, Fifo, Wired, Placed, Refreshing, [Next]_vars
    PROVE  Refreshing'
  <1> USE ChatAssumption DEF Go, ghosts, Flags, Refreshing, Ops
  <1>1. ASSUME NEW r \in Requests, Post(r) PROVE Refreshing'
    BY <1>1 DEF Post
  <1>2. ASSUME NEW r \in Requests, Record(r) PROVE Refreshing'
    BY <1>2 DEF Record, Enqueue, Fault
  <1>3. ASSUME NEW r \in Requests, Reuse(r) PROVE Refreshing'
    BY <1>3 DEF Reuse, Reusable, Release, Holds
  <1>4. ASSUME NEW r \in Requests, Connect(r) PROVE Refreshing'
    <2>1. Holds(r) /\ r # "refresh"
      BY <1>4 DEF Connect, Locked
    <2>2. opc["refresh"] # "busy"
      BY <2>1 DEF Locked, Holds
    <2>3. opc'["refresh"] = opc["refresh"]
      BY <1>4 DEF Connect
    <2>4. QED
      BY <2>2, <2>3
  <1>5. ASSUME NEW r \in Requests, Connected(r) PROVE Refreshing'
    <2>1. Holds(r) /\ r # "refresh"
      BY <1>5 DEF Connected, Locked
    <2>2. opc["refresh"] # "busy"
      BY <2>1 DEF Locked, Holds
    <2>3. opc'["refresh"] = opc["refresh"]
      BY <1>5 DEF Connected
    <2>4. QED
      BY <2>2, <2>3
  <1>6. ASSUME NEW r \in Requests, ConnectFails(r) PROVE Refreshing'
    <2>1. Holds(r) /\ r # "refresh"
      BY <1>6 DEF ConnectFails, Locked
    <2>2. opc["refresh"] # "busy"
      BY <2>1 DEF Locked, Holds
    <2>3. opc'["refresh"] = opc["refresh"]
      BY <1>6 DEF ConnectFails
    <2>4. QED
      BY <2>2, <2>3
  <1>7. ASSUME NEW r \in Requests, Replay(r) PROVE Refreshing'
    BY <1>7 DEF Replay, Fault, DoneTurns
  <1>8. ASSUME NEW r \in Requests, Deliver(r) PROVE Refreshing'
    <2>1. CASE client[mine[r].on].at = "up"
      <3>1. client' = Sent(r, FALSE) /\ mine[r].on \in Requests /\ UNCHANGED <<opc, reg>>
        BY <1>8, <2>1 DEF Deliver, Fifo
      <3> DEFINE d == mine[r].on
      <3>a. /\ \A c \in Requests \ {d} : client'[c] = client[c]
            /\ client'[d].at = client[d].at
        BY <3>1, SentIs
      <3>2. \A c \in Requests : client'[c].at = client[c].at
        BY <3>1, <3>a
      <3>3. QED
        BY <3>1, <3>2
    <2>2. CASE client[mine[r].on].at # "up"
      BY <1>8, <2>2 DEF Deliver
    <2>3. QED
      BY <2>1, <2>2
  <1>9. ASSUME NEW r \in Requests, Receive(r) PROVE Refreshing'
    <2>1. UNCHANGED <<opc, reg>> /\ \A c \in Requests : client'[c].at = client[c].at
      BY <1>9 DEF Receive, Agents
    <2>2. QED
      BY <2>1
  <1>10. ASSUME NEW r \in Requests, StreamBreaks(r) PROVE Refreshing'
    BY <1>10 DEF StreamBreaks
  <1>10a. ASSUME NEW r \in Requests, GivesUp(r) PROVE Refreshing'
    BY <1>10a DEF GivesUp
  <1>11. ASSUME NEW r \in Requests, Closing(r) PROVE Refreshing'
    BY <1>11 DEF Closing, Unsafe, Enqueue
  <1>12. ASSUME NEW r \in Requests, Drop(r) PROVE Refreshing'
    <2>1. Holds(r) /\ r # "refresh"
      BY <1>12 DEF Drop, Locked
    <2>2. opc["refresh"] # "busy"
      BY <2>1 DEF Locked, Holds
    <2>3. opc'["refresh"] = opc["refresh"]
      BY <1>12 DEF Drop
    <2>4. QED
      BY <2>2, <2>3
  <1>13. ASSUME NEW r \in Requests, DropTimesOut(r) PROVE Refreshing'
    BY <1>13 DEF DropTimesOut, Fault, Holds
  <1>13a. ASSUME NEW r \in Requests, DropCutShort(r) PROVE Refreshing'
    <2>1. Holds(r) /\ r # "refresh"
      BY <1>13a DEF DropCutShort, Locked
    <2>2. opc["refresh"] # "busy"
      BY <2>1 DEF Locked, Holds
    <2>3. opc'["refresh"] = opc["refresh"]
      BY <1>13a DEF DropCutShort
    <2>4. QED
      BY <2>2, <2>3
  <1>14. ASSUME NEW r \in Requests, Finish(r) PROVE Refreshing'
    BY <1>14 DEF Finish, Fault, StatusOf
  <1>15. ASSUME NEW r \in Requests, Unclaim(r) PROVE Refreshing'
    BY <1>15 DEF Unclaim, NewTurn
  <1>16. ASSUME NEW r \in Requests, LeaveUnstarted(r) PROVE Refreshing'
    BY <1>16 DEF LeaveUnstarted
  <1>17. ASSUME NEW r \in Requests, LeaveRegistry(r) PROVE Refreshing'
    <2>1. CASE pc[r] = "connecting"
      <3>1. opc["refresh"] # "busy"
        BY <2>1 DEF Locked, Holds
      <3>2. QED
        BY <1>17, <3>1 DEF LeaveRegistry
    <2>2. CASE pc[r] # "connecting"
      BY <1>17, <2>2 DEF LeaveRegistry
    <2>3. QED
      BY <2>1, <2>2
  <1>17a. ASSUME NEW r \in Requests, LeaveSwitch(r) PROVE Refreshing'
    <2>1. opc["refresh"] # "busy" /\ UNCHANGED opc
      BY <1>17a DEF LeaveSwitch, Locked, Holds
    <2>2. QED
      BY <2>1
  <1>18. ASSUME NEW r \in Requests, LeaveAgent(r) PROVE Refreshing'
    BY <1>18 DEF LeaveAgent, Interrupted
  <1>19. ASSUME NEW r \in Requests, LeaveQuery(r) PROVE Refreshing'
    <2>1. client' = Sent(r, TRUE) /\ mine[r].on \in Requests /\ UNCHANGED <<opc, reg>>
      BY <1>19 DEF LeaveQuery, Fifo
    <2> DEFINE d == mine[r].on
    <2>a. /\ \A c \in Requests \ {d} : client'[c] = client[c]
          /\ client'[d].at = client[d].at
      BY <2>1, SentIs
    <2>2. \A c \in Requests : client'[c].at = client[c].at
      BY <2>1, <2>a
    <2>3. QED
      BY <2>1, <2>2
  <1>20. ASSUME NEW r \in Requests, Say(r) PROVE Refreshing'
    <2>1. UNCHANGED <<opc, reg>> /\ \A c \in Requests : client'[c].at = client[c].at
      BY <1>20, SayIs DEF Say
    <2>2. QED
      BY <2>1
  <1>21. ASSUME NEW r \in Requests, Answer(r) PROVE Refreshing'
    <2>1. UNCHANGED <<opc, reg>> /\ \A c \in Requests : client'[c].at = client[c].at
      <3>1. UNCHANGED <<opc, reg>>
        BY <1>21 DEF Answer
      <3>2. \A c \in Requests : client'[c].at = client[c].at
        BY <1>21, AnswerIs
      <3>3. QED
        BY <3>1, <3>2
    <2>2. QED
      BY <2>1
  <1>22. ASSUME NEW r \in Requests, Dies(r) PROVE Refreshing'
    <2>1. client[r].at = "up" /\ UNCHANGED <<opc, reg>>
      BY <1>22 DEF Dies
    <2>2. \A d \in Requests \ {r} : client'[d] = client[d]
      BY <1>22, DiesIs
    <2>3. QED
      BY <2>1, <2>2 DEF Flags
  <1>23. CASE AskClose
    BY <1>23 DEF AskClose, Begin, Enqueue, At
  <1>24. CASE AskRefresh
    BY <1>24 DEF AskRefresh, Begin, Enqueue, At
  <1>25. CASE CloseSession
    <2>1. Holds("close") /\ "close" # "refresh"
      BY <1>25 DEF CloseSession, HasLock, At, Locked
    <2>2. opc["refresh"] # "busy"
      BY <2>1 DEF Locked, Holds
    <2>3. opc'["refresh"] = opc["refresh"]
      BY <1>25 DEF CloseSession, HasLock, At
    <2>4. QED
      BY <2>2, <2>3
  <1>26. CASE RefreshStarts
    <2>1. CASE reg = NoOne
      BY <1>26, <2>1 DEF RefreshStarts, HasLock, At, Locked
    <2>2. CASE reg # NoOne
      <3>1. client' = [client EXCEPT ![reg] = [client[reg] EXCEPT !.at = "starting",
                                                                  !.pend = <<>>]] /\ reg' = reg
        BY <1>26, <2>2 DEF RefreshStarts
      <3>2. QED
        BY <2>2, <3>1 DEF Agents
    <2>3. QED
      BY <2>1, <2>2
  <1>27. CASE RefreshEnds
    BY <1>27 DEF RefreshEnds, At, HasLock, Locked
  <1>28. CASE AskDelete
    BY <1>28 DEF AskDelete, Begin, Enqueue, At
  <1>29. CASE DeleteDrops
    <2>1. Holds("delete") /\ "delete" # "refresh"
      BY <1>29 DEF DeleteDrops, HasLock, At, Locked
    <2>2. opc["refresh"] # "busy"
      BY <2>1 DEF Locked, Holds
    <2>3. opc'["refresh"] = opc["refresh"]
      BY <1>29 DEF DeleteDrops, HasLock, At
    <2>4. QED
      BY <2>2, <2>3
  <1>30. CASE DeleteRows
    BY <1>30 DEF DeleteRows, Fault, At
  <1>31. CASE AskSweep
    BY <1>31 DEF AskSweep, Begin, Enqueue, At
  <1>32. CASE Sweep
    <2>1. Holds("sweep") /\ "sweep" # "refresh"
      BY <1>32 DEF Sweep, HasLock, At, Locked
    <2>2. opc["refresh"] # "busy"
      BY <2>1 DEF Locked, Holds
    <2>3. opc'["refresh"] = opc["refresh"]
      BY <1>32 DEF Sweep, HasLock, At
    <2>4. QED
      BY <2>2, <2>3
  <1>33. CASE OtherLocks
    BY <1>33 DEF OtherLocks, Begin, Enqueue, At
  <1>34. CASE OtherUnlocks
    BY <1>34 DEF OtherUnlocks, HasLock, Holds, Release, At
  <1>35. CASE TimePasses
    BY <1>35 DEF TimePasses
  <1>36. CASE ServerRestarts
    BY <1>36 DEF ServerRestarts
  <1>37. CASE UNCHANGED vars
    BY <1>37 DEF vars
  <1>38. QED
    BY <1>1, <1>2, <1>3, <1>4, <1>5, <1>6, <1>7, <1>8, <1>9, <1>10, <1>10a, <1>11,
       <1>12, <1>13, <1>13a, <1>14, <1>15, <1>16, <1>17, <1>17a, <1>18, <1>19, <1>20, <1>21,
       <1>22, <1>23, <1>24, <1>25, <1>26, <1>27, <1>28, <1>29, <1>30, <1>31,
       <1>32, <1>33, <1>34, <1>35, <1>36, <1>37
    DEF Next, Turn, Leave, Agent, Asks, Serves


Unread ==
    /\ DOMAIN heard = Requests
    /\ \A r \in Requests :
          /\ pc[r] \in Early => client[r].pend = <<>> /\ client[r].queue = <<>>
          /\ pc[r] \in Early \cup {"replay", "deliver"} => heard[r] = {} /\ ~mine[r].delivered
          /\ pc[r] = "stream" => mine[r].delivered

(* Every step keeps Wired: what is asked and written are sequences, and     *)
(* nothing is asked of an agent that is down or whose stream has broken.   *)
LEMMA WiredStep ==
    ASSUME Flags, Agents, Turns, Claims, Alive, Fifo, Wired, Refreshing, Unread, [Next]_vars
    PROVE  Wired'
  <1> USE ChatAssumption DEF Go, ghosts, Wired
  <1>1. ASSUME NEW r \in Requests, Post(r) PROVE Wired'
    BY <1>1 DEF Post
  <1>2. ASSUME NEW r \in Requests, Record(r) PROVE Wired'
    BY <1>2 DEF Record, Enqueue, Fault
  <1>3. ASSUME NEW r \in Requests, Reuse(r) PROVE Wired'
    BY <1>3 DEF Reuse, Reusable, Release, Holds
  <1>4. ASSUME NEW r \in Requests, Connect(r) PROVE Wired'
    <2>1. \A c \in Requests : Spared(c)
      <3>1. client[r].pend = <<>>
        BY <1>4 DEF Connect, Unread, Early
      <3>2. QED
        BY <1>4, <3>1, ConnectIs
    <2>2. <<>> \in Seq(Asked)
      OBVIOUS
    <2>3. QED
      BY <2>1, <2>2 DEF Spared
  <1>5. ASSUME NEW r \in Requests, Connected(r) PROVE Wired'
    BY <1>5, ConnectedIs
  <1>6. ASSUME NEW r \in Requests, ConnectFails(r) PROVE Wired'
    <2>1. \A c \in Requests : Spared(c)
      BY <1>6, EvictIs
    <2>2. <<>> \in Seq(Asked)
      OBVIOUS
    <2>3. QED
      BY <2>1, <2>2 DEF Spared
  <1>7. ASSUME NEW r \in Requests, Replay(r) PROVE Wired'
    BY <1>7 DEF Replay, Fault, DoneTurns
  <1>8. ASSUME NEW r \in Requests, Deliver(r) PROVE Wired'
    <2>1. CASE client[mine[r].on].at = "up"
      <3>1. client' = Sent(r, FALSE) /\ mine[r].on \in Requests
        BY <1>8, <2>1 DEF Deliver, Fifo
      <3> DEFINE d == mine[r].on
      <3>2. /\ \A c \in Requests \ {d} : client'[c] = client[c]
            /\ client'[d].at = client[d].at /\ client'[d].queue = client[d].queue
            /\ client'[d].pend \in Seq(Asked)
        BY <3>1, SentIs
      <3>3. QED
        BY <2>1, <3>1, <3>2
    <2>2. CASE client[mine[r].on].at # "up"
      BY <1>8, <2>2 DEF Deliver
    <2>3. QED
      BY <2>1, <2>2
  <1>9. ASSUME NEW r \in Requests, Receive(r) PROVE Wired'
    <2>1. mine[r].on \in Requests
      BY <1>9 DEF Receive, Fifo
    <2> DEFINE d == mine[r].on
    <2>2. /\ \A c \in Requests \ {d} : client'[c] = client[c]
          /\ client'[d].at = client[d].at /\ client'[d].pend = client[d].pend
          /\ client'[d].queue \in Seq(Written)
      BY <1>9, <2>1, ReceiveIs DEF Unread
    <2>3. QED
      BY <2>1, <2>2
  <1>10. ASSUME NEW r \in Requests, StreamBreaks(r) PROVE Wired'
    BY <1>10 DEF StreamBreaks
  <1>10a. ASSUME NEW r \in Requests, GivesUp(r) PROVE Wired'
    BY <1>10a DEF GivesUp
  <1>11. ASSUME NEW r \in Requests, Closing(r) PROVE Wired'
    BY <1>11 DEF Closing, Unsafe, Enqueue
  <1>12. ASSUME NEW r \in Requests, Drop(r) PROVE Wired'
    <2>1. \A c \in Requests : Spared(c)
      BY <1>12, EvictIs
    <2>2. <<>> \in Seq(Asked)
      OBVIOUS
    <2>3. QED
      BY <2>1, <2>2 DEF Spared
  <1>13. ASSUME NEW r \in Requests, DropTimesOut(r) PROVE Wired'
    BY <1>13 DEF DropTimesOut, Fault, Holds
  <1>13a. ASSUME NEW r \in Requests, DropCutShort(r) PROVE Wired'
    <2>1. \A c \in Requests : Spared(c)
      BY <1>13a, EvictIs
    <2>2. <<>> \in Seq(Asked)
      OBVIOUS
    <2>3. QED
      BY <2>1, <2>2 DEF Spared
  <1>14. ASSUME NEW r \in Requests, Finish(r) PROVE Wired'
    BY <1>14 DEF Finish, Fault, StatusOf
  <1>15. ASSUME NEW r \in Requests, Unclaim(r) PROVE Wired'
    BY <1>15 DEF Unclaim, NewTurn
  <1>16. ASSUME NEW r \in Requests, LeaveUnstarted(r) PROVE Wired'
    BY <1>16 DEF LeaveUnstarted
  <1>17. ASSUME NEW r \in Requests, LeaveRegistry(r) PROVE Wired'
    <2>1. \A c \in Requests : Spared(c)
      BY <1>17, EvictIs
    <2>2. <<>> \in Seq(Asked)
      OBVIOUS
    <2>3. QED
      BY <2>1, <2>2 DEF Spared
  <1>17a. ASSUME NEW r \in Requests, LeaveSwitch(r) PROVE Wired'
    <2>1. \A c \in Requests : Spared(c)
      BY <1>17a, EvictIs
    <2>2. <<>> \in Seq(Asked)
      OBVIOUS
    <2>3. QED
      BY <2>1, <2>2 DEF Spared
  <1>18. ASSUME NEW r \in Requests, LeaveAgent(r) PROVE Wired'
    BY <1>18 DEF LeaveAgent, Interrupted
  <1>19. ASSUME NEW r \in Requests, LeaveQuery(r) PROVE Wired'
    <2>1. client' = Sent(r, TRUE) /\ mine[r].on \in Requests /\ client[mine[r].on].at = "up"
      BY <1>19 DEF LeaveQuery, Fifo
    <2> DEFINE d == mine[r].on
    <2>2. /\ \A c \in Requests \ {d} : client'[c] = client[c]
          /\ client'[d].at = client[d].at /\ client'[d].queue = client[d].queue
          /\ client'[d].pend \in Seq(Asked)
      BY <2>1, SentIs
    <2>3. QED
      BY <2>1, <2>2
  <1>20. ASSUME NEW r \in Requests, Say(r) PROVE Wired'
    BY <1>20, SayIs
  <1>21. ASSUME NEW r \in Requests, Answer(r) PROVE Wired'
    <2>1. /\ \A d \in Requests \ {r} : client'[d] = client[d]
          /\ client'[r].at = client[r].at /\ client[r].pend # <<>>
          /\ client'[r].pend \in Seq(Asked)
      BY <1>21, AnswerIs
    <2>2. client'[r].queue \in Seq(Written)
      <3>1. PICK s \in Seq(Written) : client'[r].queue = client[r].queue \o s
        BY <1>21, AnswerIs
      <3>2. QED
        BY <3>1, ConcatProperties
    <2>3. QED
      BY <2>1, <2>2
  <1>22. ASSUME NEW r \in Requests, Dies(r) PROVE Wired'
    <2>1. <<>> \in Seq(Asked)
      OBVIOUS
    <2>2. QED
      BY <1>22, <2>1, DiesIs
  <1>23. CASE AskClose
    BY <1>23 DEF AskClose, Begin, Enqueue, At
  <1>24. CASE AskRefresh
    BY <1>24 DEF AskRefresh, Begin, Enqueue, At
  <1>25. CASE CloseSession
    <2>1. \A c \in Requests : Spared(c)
      BY <1>25, EvictIs
    <2>2. <<>> \in Seq(Asked)
      OBVIOUS
    <2>3. QED
      BY <2>1, <2>2 DEF Spared
  <1>26. CASE RefreshStarts
    <2>1. \A c \in Requests : Spared(c)
      BY <1>26, EvictIs
    <2>2. <<>> \in Seq(Asked)
      OBVIOUS
    <2>3. QED
      BY <2>1, <2>2 DEF Spared
  <1>27. CASE RefreshEnds
    <2>1. \A c \in Requests :
             /\ c # reg => client'[c] = client[c]
             /\ c = reg => client[c].at = "starting"
             /\ client'[c].pend = client[c].pend /\ client'[c].queue \in {client[c].queue, <<>>}
      BY <1>27, RefreshIs DEF RefreshEnds, HasLock, Refreshing
    <2>2. <<>> \in Seq(Written)
      OBVIOUS
    <2>3. QED
      BY <2>1, <2>2
  <1>28. CASE AskDelete
    BY <1>28 DEF AskDelete, Begin, Enqueue, At
  <1>29. CASE DeleteDrops
    <2>1. \A c \in Requests : Spared(c)
      BY <1>29, EvictIs
    <2>2. <<>> \in Seq(Asked)
      OBVIOUS
    <2>3. QED
      BY <2>1, <2>2 DEF Spared
  <1>30. CASE DeleteRows
    BY <1>30 DEF DeleteRows, Fault, At
  <1>31. CASE AskSweep
    BY <1>31 DEF AskSweep, Begin, Enqueue, At
  <1>32. CASE Sweep
    <2>1. \A c \in Requests : Spared(c)
      BY <1>32, EvictIs
    <2>2. <<>> \in Seq(Asked)
      OBVIOUS
    <2>3. QED
      BY <2>1, <2>2 DEF Spared
  <1>33. CASE OtherLocks
    BY <1>33 DEF OtherLocks, Begin, Enqueue, At
  <1>34. CASE OtherUnlocks
    BY <1>34 DEF OtherUnlocks, HasLock, Holds, Release, At
  <1>35. CASE TimePasses
    BY <1>35 DEF TimePasses
  <1>36. CASE ServerRestarts
    <2>1. \A c \in Requests : client'[c].pend = <<>> /\ client'[c].queue \in {client[c].queue, <<>>}
      BY <1>36, RestartIs
    <2>2. <<>> \in Seq(Written) /\ <<>> \in Seq(Asked)
      OBVIOUS
    <2>3. QED
      BY <2>1, <2>2
  <1>37. CASE UNCHANGED vars
    BY <1>37 DEF vars
  <1>38. QED
    BY <1>1, <1>2, <1>3, <1>4, <1>5, <1>6, <1>7, <1>8, <1>9, <1>10, <1>10a, <1>11,
       <1>12, <1>13, <1>13a, <1>14, <1>15, <1>16, <1>17, <1>17a, <1>18, <1>19, <1>20, <1>21,
       <1>22, <1>23, <1>24, <1>25, <1>26, <1>27, <1>28, <1>29, <1>30, <1>31,
       <1>32, <1>33, <1>34, <1>35, <1>36, <1>37
    DEF Next, Turn, Leave, Agent, Asks, Serves

(* Every step keeps Unread: an agent that is not yet connected was asked   *)
(* nothing, and a turn hears nothing before its prompt is delivered.       *)
LEMMA UnreadStep ==
    ASSUME Flags, Agents, Turns, Alive, Fifo, Wired, Placed, Own, Unread, [Next]_vars
    PROVE  Unread'
  <1> USE ChatAssumption DEF Go, ghosts, Flags, Turns, Unread, Early
  <1>1. ASSUME NEW r \in Requests, Post(r) PROVE Unread'
    BY <1>1 DEF Post
  <1>2. ASSUME NEW r \in Requests, Record(r) PROVE Unread'
    BY <1>2 DEF Record, Enqueue, Fault
  <1>3. ASSUME NEW r \in Requests, Reuse(r) PROVE Unread'
    BY <1>3 DEF Reuse, Reusable, Release, Holds
  <1>4. ASSUME NEW r \in Requests, Connect(r) PROVE Unread'
    <2>1. \A c \in Requests : Spared(c)
      BY <1>4, ConnectIs DEF Connect
    <2>2. \A c \in Requests : pc[c] \in Early => client'[c].pend = <<>> /\ client'[c].queue = <<>>
      BY <2>1 DEF Spared
    <2>3. pc[r] = "queued" /\ pc' = [pc EXCEPT ![r] = "connecting"] /\ UNCHANGED <<mine, heard>>
      BY <1>4 DEF Connect
    <2>4. QED
      BY <2>2, <2>3
  <1>5. ASSUME NEW r \in Requests, Connected(r) PROVE Unread'
    <2>1. \A c \in Requests : pc[c] \in Early => client'[c].pend = <<>> /\ client'[c].queue = <<>>
      BY <1>5, ConnectedIs
    <2>2. /\ pc[r] = "connecting" /\ pc' = [pc EXCEPT ![r] = "replay"] /\ UNCHANGED heard
          /\ mine' = [mine EXCEPT ![r] = [mine[r] EXCEPT !.on = r, !.fresh = TRUE]]
      BY <1>5 DEF Connected
    <2>3. QED
      BY <2>1, <2>2
  <1>6. ASSUME NEW r \in Requests, ConnectFails(r) PROVE Unread'
    <2>1. \A c \in Requests : Spared(c)
      BY <1>6, EvictIs
    <2>2. \A c \in Requests : pc[c] \in Early => client'[c].pend = <<>> /\ client'[c].queue = <<>>
      BY <2>1 DEF Spared
    <2>3. /\ pc' = [pc EXCEPT ![r] = "closing"] /\ UNCHANGED heard
          /\ mine' = [mine EXCEPT ![r].error = "error"]
      BY <1>6 DEF ConnectFails
    <2>4. QED
      BY <2>2, <2>3
  <1>7. ASSUME NEW r \in Requests, Replay(r) PROVE Unread'
    BY <1>7 DEF Replay, Fault, DoneTurns
  <1>8. ASSUME NEW r \in Requests, Deliver(r) PROVE Unread'
    <2>1. CASE client[mine[r].on].at = "up"
      <3>1. /\ client' = Sent(r, FALSE) /\ mine[r].on \in Requests /\ pc[mine[r].on] \notin Early
            /\ pc' = [pc EXCEPT ![r] = "stream"] /\ mine' = [mine EXCEPT ![r].delivered = TRUE]
            /\ pc[r] = "deliver" /\ UNCHANGED heard
        BY <1>8, <2>1 DEF Deliver, Fifo, Placed
      <3> DEFINE d == mine[r].on
      <3>2. \A c \in Requests \ {d} : client'[c] = client[c]
        BY <3>1, SentIs
      <3>3. QED
        BY <3>1, <3>2
    <2>2. CASE client[mine[r].on].at # "up"
      BY <1>8, <2>2 DEF Deliver
    <2>3. QED
      BY <2>1, <2>2
  <1>9. ASSUME NEW r \in Requests, Receive(r) PROVE Unread'
    <2>1. mine[r].on \in Requests /\ pc[mine[r].on] \notin Early
      BY <1>9 DEF Receive, Fifo, Placed
    <2> DEFINE d == mine[r].on
    <2>a. \A c \in Requests \ {d} : client'[c] = client[c]
      BY <1>9, <2>1, ReceiveIs
    <2>b. \A q \in Requests : mine'[q].delivered = mine[q].delivered
      BY <1>9, <2>1, ReceiveIs
    <2>c. \A q \in Requests \ {r} : heard'[q] = heard[q]
      BY <1>9 DEF Receive
    <2>2. pc[r] = "stream" /\ (pc' = pc \/ pc' = [pc EXCEPT ![r] = "closing"])
      BY <1>9 DEF Receive
    <2>3. DOMAIN heard' = Requests
      BY <1>9 DEF Receive
    <2>4. QED
      BY <2>1, <2>a, <2>b, <2>c, <2>2, <2>3
  <1>10. ASSUME NEW r \in Requests, StreamBreaks(r) PROVE Unread'
    BY <1>10 DEF StreamBreaks
  <1>10a. ASSUME NEW r \in Requests, GivesUp(r) PROVE Unread'
    BY <1>10a DEF GivesUp
  <1>11. ASSUME NEW r \in Requests, Closing(r) PROVE Unread'
    BY <1>11 DEF Closing, Unsafe, Enqueue
  <1>12. ASSUME NEW r \in Requests, Drop(r) PROVE Unread'
    <2>1. \A c \in Requests : Spared(c)
      BY <1>12, EvictIs
    <2>2. \A c \in Requests : pc[c] \in Early => client'[c].pend = <<>> /\ client'[c].queue = <<>>
      BY <2>1 DEF Spared
    <2>3. pc[r] = "dropping" /\ pc' = [pc EXCEPT ![r] = "finish"] /\ UNCHANGED <<mine, heard>>
      BY <1>12 DEF Drop
    <2>4. QED
      BY <2>2, <2>3
  <1>13. ASSUME NEW r \in Requests, DropTimesOut(r) PROVE Unread'
    BY <1>13 DEF DropTimesOut, Fault, Holds
  <1>13a. ASSUME NEW r \in Requests, DropCutShort(r) PROVE Unread'
    <2>1. \A c \in Requests : Spared(c)
      BY <1>13a, EvictIs
    <2>2. \A c \in Requests : pc[c] \in Early => client'[c].pend = <<>> /\ client'[c].queue = <<>>
      BY <2>1 DEF Spared
    <2>3. pc[r] = "dropping" /\ pc' = [pc EXCEPT ![r] = "finish"] /\ UNCHANGED <<mine, heard>>
      BY <1>13a DEF DropCutShort
    <2>4. QED
      BY <2>2, <2>3
  <1>14. ASSUME NEW r \in Requests, Finish(r) PROVE Unread'
    BY <1>14 DEF Finish, Fault, StatusOf
  <1>15. ASSUME NEW r \in Requests, Unclaim(r) PROVE Unread'
    BY <1>15 DEF Unclaim, NewTurn
  <1>16. ASSUME NEW r \in Requests, LeaveUnstarted(r) PROVE Unread'
    BY <1>16 DEF LeaveUnstarted
  <1>17. ASSUME NEW r \in Requests, LeaveRegistry(r) PROVE Unread'
    <2>1. \A c \in Requests : Spared(c)
      BY <1>17, EvictIs
    <2>2. \A c \in Requests : pc[c] \in Early => client'[c].pend = <<>> /\ client'[c].queue = <<>>
      BY <2>1 DEF Spared
    <2>3. /\ pc' = [pc EXCEPT ![r] = "closing"] /\ UNCHANGED heard
          /\ mine' = [mine EXCEPT ![r].error = "interrupted"]
      BY <1>17 DEF LeaveRegistry, Interrupted
    <2>4. QED
      BY <2>2, <2>3
  <1>17a. ASSUME NEW r \in Requests, LeaveSwitch(r) PROVE Unread'
    <2>1. \A c \in Requests : Spared(c)
      BY <1>17a, EvictIs
    <2>2. \A c \in Requests : pc[c] \in Early => client'[c].pend = <<>> /\ client'[c].queue = <<>>
      BY <2>1 DEF Spared
    <2>3. /\ pc' = [pc EXCEPT ![r] = "closing"] /\ UNCHANGED heard
          /\ mine' = [mine EXCEPT ![r].error = "interrupted"]
      BY <1>17a DEF LeaveSwitch, Interrupted
    <2>4. QED
      BY <2>2, <2>3
  <1>18. ASSUME NEW r \in Requests, LeaveAgent(r) PROVE Unread'
    BY <1>18 DEF LeaveAgent, Interrupted
  <1>19. ASSUME NEW r \in Requests, LeaveQuery(r) PROVE Unread'
    <2>1. /\ client' = Sent(r, TRUE) /\ mine[r].on \in Requests /\ pc[mine[r].on] \notin Early
          /\ pc' = [pc EXCEPT ![r] = "closing"] /\ mine' = [mine EXCEPT ![r].error = "interrupted"]
          /\ pc[r] = "deliver" /\ UNCHANGED heard
      BY <1>19 DEF LeaveQuery, Interrupted, Fifo, Placed
    <2> DEFINE d == mine[r].on
    <2>2. \A c \in Requests \ {d} : client'[c] = client[c]
      BY <2>1, SentIs
    <2>3. QED
      BY <2>1, <2>2
  <1>20. ASSUME NEW r \in Requests, Say(r) PROVE Unread'
    <2>1. \A c \in Requests : pc[c] \in Early => client'[c].pend = <<>> /\ client'[c].queue = <<>>
      BY <1>20, SayIs
    <2>2. UNCHANGED <<pc, mine, heard>>
      BY <1>20 DEF Say
    <2>3. QED
      BY <2>1, <2>2
  <1>21. ASSUME NEW r \in Requests, Answer(r) PROVE Unread'
    <2>1. client[r].pend # <<>> /\ \A c \in Requests \ {r} : client'[c] = client[c]
      BY <1>21, AnswerIs
    <2>2. UNCHANGED <<pc, mine, heard>>
      BY <1>21 DEF Answer
    <2>3. QED
      BY <2>1, <2>2
  <1>22. ASSUME NEW r \in Requests, Dies(r) PROVE Unread'
    <2>1. \A c \in Requests : pc[c] \in Early => client'[c].pend = <<>> /\ client'[c].queue = <<>>
      BY <1>22, DiesIs
    <2>2. UNCHANGED <<pc, mine, heard>>
      BY <1>22 DEF Dies
    <2>3. QED
      BY <2>1, <2>2
  <1>23. CASE AskClose
    BY <1>23 DEF AskClose, Begin, Enqueue, At
  <1>24. CASE AskRefresh
    BY <1>24 DEF AskRefresh, Begin, Enqueue, At
  <1>25. CASE CloseSession
    <2>1. \A c \in Requests : Spared(c)
      BY <1>25, EvictIs
    <2>2. \A c \in Requests : pc[c] \in Early => client'[c].pend = <<>> /\ client'[c].queue = <<>>
      BY <2>1 DEF Spared
    <2>3. UNCHANGED <<pc, mine, heard>>
      BY <1>25 DEF CloseSession
    <2>4. QED
      BY <2>2, <2>3
  <1>26. CASE RefreshStarts
    <2>1. \A c \in Requests : Spared(c)
      BY <1>26, EvictIs
    <2>2. \A c \in Requests : pc[c] \in Early => client'[c].pend = <<>> /\ client'[c].queue = <<>>
      BY <2>1 DEF Spared
    <2>3. UNCHANGED <<pc, mine, heard>>
      BY <1>26 DEF RefreshStarts
    <2>4. QED
      BY <2>2, <2>3
  <1>27. CASE RefreshEnds
    <2>1. \A c \in Requests : pc[c] \in Early => client'[c].pend = <<>> /\ client'[c].queue = <<>>
      BY <1>27, RefreshIs
    <2>2. UNCHANGED <<pc, mine, heard>>
      BY <1>27 DEF RefreshEnds
    <2>3. QED
      BY <2>1, <2>2
  <1>28. CASE AskDelete
    BY <1>28 DEF AskDelete, Begin, Enqueue, At
  <1>29. CASE DeleteDrops
    <2>1. \A c \in Requests : Spared(c)
      BY <1>29, EvictIs
    <2>2. \A c \in Requests : pc[c] \in Early => client'[c].pend = <<>> /\ client'[c].queue = <<>>
      BY <2>1 DEF Spared
    <2>3. UNCHANGED <<pc, mine, heard>>
      BY <1>29 DEF DeleteDrops
    <2>4. QED
      BY <2>2, <2>3
  <1>30. CASE DeleteRows
    BY <1>30 DEF DeleteRows, Fault, At
  <1>31. CASE AskSweep
    BY <1>31 DEF AskSweep, Begin, Enqueue, At
  <1>32. CASE Sweep
    <2>1. \A c \in Requests : Spared(c)
      BY <1>32, EvictIs
    <2>2. \A c \in Requests : pc[c] \in Early => client'[c].pend = <<>> /\ client'[c].queue = <<>>
      BY <2>1 DEF Spared
    <2>3. UNCHANGED <<pc, mine, heard>>
      BY <1>32 DEF Sweep
    <2>4. QED
      BY <2>2, <2>3
  <1>33. CASE OtherLocks
    BY <1>33 DEF OtherLocks, Begin, Enqueue, At
  <1>34. CASE OtherUnlocks
    BY <1>34 DEF OtherUnlocks, HasLock, Holds, Release, At
  <1>35. CASE TimePasses
    BY <1>35 DEF TimePasses
  <1>36. CASE ServerRestarts
    <2>1. \A c \in Requests : client'[c].pend = <<>> /\ client'[c].queue \in {client[c].queue, <<>>}
      BY <1>36, RestartIs
    <2>2. /\ \A q \in Requests : /\ pc'[q] = IF pc[q] = "idle" THEN "idle" ELSE "over"
                                 /\ mine'[q] = NewTurn /\ heard'[q] = {}
          /\ DOMAIN heard' = Requests
      BY <1>36, RestartIs
    <2>3. QED
      BY <2>1, <2>2 DEF NewTurn
  <1>37. CASE UNCHANGED vars
    BY <1>37 DEF vars
  <1>38. QED
    BY <1>1, <1>2, <1>3, <1>4, <1>5, <1>6, <1>7, <1>8, <1>9, <1>10, <1>10a, <1>11,
       <1>12, <1>13, <1>13a, <1>14, <1>15, <1>16, <1>17, <1>17a, <1>18, <1>19, <1>20, <1>21,
       <1>22, <1>23, <1>24, <1>25, <1>26, <1>27, <1>28, <1>29, <1>30, <1>31,
       <1>32, <1>33, <1>34, <1>35, <1>36, <1>37
    DEF Next, Turn, Leave, Agent, Asks, Serves

-----------------------------------------------------------------------------
(* Whose events an agent still has.  Where no browser leaves while its     *)
(* prompt is on its way, or between the last event of its turn and the mark*)
(* that ends the stream, and no turn gives up waiting for background tasks,*)
(* a registered agent that was not kept by a drop that timed out has none  *)
(* left, but for the turn that is still to drop it.                        *)

Orderly == {"query", "end"} \cap LeaveAt = {} /\ ~LateOutput

Quiet(c) == client[c].pend = <<>> /\ client[c].queue = <<>>
Holding(r) == pc[r] = "stream" \/ (pc[r] \in {"closing", "dropping"} /\ Unsafe(mine[r]))
Accounted ==
    reg # NoOne /\ reg \notin spoiled =>
        Quiet(reg) \/ \E r \in Requests : mine[r].on = reg /\ Holding(r)

OneTurn(r, c) ==
    /\ Len(client[c].pend) <= 1
    /\ \A i \in DOMAIN client[c].pend : client[c].pend[i].of = r
    /\ \A i \in DOMAIN client[c].queue :
          /\ client[c].queue[i].of = r
          /\ Closes(client[c].queue[i], c) => i = Len(client[c].queue) /\ client[c].pend = <<>>
Streamed ==
    \A r \in Requests : pc[r] = "stream" /\ mine[r].on \notin spoiled => OneTurn(r, mine[r].on)

(* An agent that nobody talks to, that goes down, dies, or comes up again  *)
(* is still quiet, and what it has still belongs to one turn.              *)
LEMMA SparedKeeps ==
    ASSUME Wired, NEW c \in Requests, NEW r,
           /\ client'[c].pend \in {client[c].pend, <<>>}
           /\ client'[c].queue \in {client[c].queue, <<>>}
    PROVE  (Quiet(c) => Quiet(c)') /\ (OneTurn(r, c) => OneTurn(r, c)')
  <1>1. Len(<<>>) = 0 /\ DOMAIN <<>> = {}
    OBVIOUS
  <1>2. Quiet(c) => Quiet(c)'
    BY DEF Quiet
  <1>3. ASSUME OneTurn(r, c) PROVE OneTurn(r, c)'
    <2>1. Len(client'[c].pend) <= 1 /\ \A i \in DOMAIN client'[c].pend : client'[c].pend[i].of = r
      BY <1>1, <1>3 DEF OneTurn
    <2>2. ASSUME NEW i \in DOMAIN client'[c].queue
          PROVE  /\ client'[c].queue[i].of = r
                 /\ Closes(client'[c].queue[i], c) =>
                       i = Len(client'[c].queue) /\ client'[c].pend = <<>>
      <3>1. client'[c].queue = client[c].queue
        BY <1>1
      <3>2. QED
        BY <1>3, <3>1 DEF OneTurn
    <2>3. QED
      BY <2>1, <2>2 DEF OneTurn, Closes
  <1>4. QED
    BY <1>2, <1>3

(* An agent that writes part of its answer.                                *)
LEMMA SayKeeps ==
    ASSUME Agents, Wired, NEW a \in Requests, Say(a), NEW c \in Requests, NEW r
    PROVE  (Quiet(c) => Quiet(c)') /\ (OneTurn(r, c) => OneTurn(r, c)')
  <1>1. CASE c # a
    <2>1. client'[c] = client[c]
      BY <1>1, SayIs
    <2>2. QED
      BY <2>1, SparedKeeps
  <1>2. CASE c = a
    <2>0. PICK part \in {"text", "task", "reply"} :
             client'[a].queue = Append(client[a].queue, Item(client[a].pend[1].of, part))
      BY SayIs
    <2> DEFINE p == client[a].pend
               q == client[a].queue
               z == Item(p[1].of, part)
    <2>1. /\ p # <<>> /\ client'[a].pend \in Seq(Asked) /\ Len(client'[a].pend) = Len(p)
          /\ \A i \in DOMAIN client'[a].pend : i \in DOMAIN p /\ client'[a].pend[i].of = p[i].of
          /\ client'[a].queue = Append(q, z) /\ p[1] \in Asked
      BY <2>0, SayIs
    <2>2. q \in Seq(Written) /\ p \in Seq(Asked)
      BY DEF Wired
    <2>3. z \in Written /\ z.of = p[1].of /\ ~Closes(z, a)
      <3>1. p[1].of \in Requests
        <4> HIDE DEF p
        <4>1. QED
          BY <2>1 DEF Asked
      <3> HIDE DEF p
      <3>2. QED
        BY <3>1 DEF Item, Written, Closes
    <2> HIDE DEF p, q, z
    <2>4. 1 \in DOMAIN p
      BY <2>1, <2>2
    <2>5. ASSUME OneTurn(r, a) PROVE OneTurn(r, a)'
      <3>0. /\ Len(p) <= 1 /\ \A i \in DOMAIN p : p[i].of = r
            /\ \A i \in DOMAIN q : q[i].of = r /\ (Closes(q[i], a) => i = Len(q) /\ p = <<>>)
        BY <2>5 DEF OneTurn, p, q
      <3>1. \A i \in DOMAIN client'[a].pend : client'[a].pend[i].of = r
        BY <2>1, <3>0
      <3>2. /\ DOMAIN client'[a].queue = 1 .. (Len(q) + 1) /\ client'[a].queue[Len(q) + 1] = z
            /\ DOMAIN q = 1 .. Len(q) /\ \A i \in DOMAIN q : client'[a].queue[i] = q[i]
        BY <2>1, <2>2, <2>3, Appended
      <3>3. ASSUME NEW i \in DOMAIN client'[a].queue
            PROVE  client'[a].queue[i].of = r /\ ~Closes(client'[a].queue[i], a)
        <4>1. CASE i \in DOMAIN q
          BY <2>1, <3>0, <3>2, <4>1
        <4>2. CASE i \notin DOMAIN q
          <5>1. i = Len(q) + 1
            BY <2>2, <3>2, <4>2
          <5>2. QED
            BY <2>3, <2>4, <3>0, <3>2, <5>1
        <4>3. QED
          BY <4>1, <4>2
      <3>4. QED
        BY <2>1, <3>0, <3>1, <3>3 DEF OneTurn, Closes
    <2>6. ~Quiet(a)
      BY <2>1 DEF Quiet, p
    <2>7. QED
      BY <1>2, <2>5, <2>6
  <1>3. QED
    BY <1>1, <1>2

(* An agent that ends its turn: the mark that ends it comes last, and      *)
(* nothing is asked any more.                                              *)
LEMMA AnswerKeeps ==
    ASSUME Agents, Wired, NEW a \in Requests, Answer(a), NEW c \in Requests, NEW r
    PROVE  (Quiet(c) => Quiet(c)') /\ (OneTurn(r, c) => OneTurn(r, c)')
  <1>1. CASE c # a
    <2>1. client'[c] = client[c]
      BY <1>1, AnswerIs
    <2>2. QED
      BY <2>1, SparedKeeps
  <1>2. CASE c = a
    <2> DEFINE p == client[a].pend
               q == client[a].queue
    <2>1. p # <<>> /\ client'[a].pend = Tail(p)
      BY AnswerIs
    <2>2. PICK s \in Seq(Written) :
             /\ client'[a].queue = q \o s
             /\ \A i \in DOMAIN s : s[i].of = p[1].of /\ (Closes(s[i], a) => i = Len(s))
      BY AnswerIs
    <2>3. q \in Seq(Written) /\ p \in Seq(Asked)
      BY DEF Wired
    <2> HIDE DEF p, q
    <2>4. 1 \in DOMAIN p
      BY <2>1, <2>3
    <2>5. ASSUME OneTurn(r, a) PROVE OneTurn(r, a)'
      <3>0. /\ Len(p) <= 1 /\ \A i \in DOMAIN p : p[i].of = r
            /\ \A i \in DOMAIN q : q[i].of = r /\ (Closes(q[i], a) => i = Len(q) /\ p = <<>>)
        BY <2>5 DEF OneTurn, p, q
      <3>1. client'[a].pend = <<>>
        <4>0. Len(p) \in Nat /\ DOMAIN p = 1 .. Len(p)
          BY <2>3
        <4>1. Len(p) = 1
          <5>1. Len(p) <= 1 /\ 1 \in 1 .. Len(p)
            BY <2>4, <3>0, <4>0
          <5>2. QED
            BY <4>0, <5>1
        <4>2. Len(Tail(p)) = 0 /\ Tail(p) \in Seq(Asked)
          BY <2>1, <2>3, <4>1, HeadTailProperties
        <4>3. QED
          BY <2>1, <4>2
      <3>2. /\ DOMAIN (q \o s) = 1 .. (Len(q) + Len(s)) /\ Len(q \o s) = Len(q) + Len(s)
            /\ Len(q) \in Nat /\ Len(s) \in Nat
            /\ \A i \in 1 .. (Len(q) + Len(s)) :
                  (q \o s)[i] = IF i <= Len(q) THEN q[i] ELSE s[i - Len(q)]
        <4>1. /\ q \o s \in Seq(Written) /\ Len(q \o s) = Len(q) + Len(s)
              /\ \A i \in 1 .. Len(q) + Len(s) :
                    (q \o s)[i] = IF i <= Len(q) THEN q[i] ELSE s[i - Len(q)]
          BY <2>3, ConcatProperties
        <4>2. QED
          BY <2>3, <4>1
      <3>3. ASSUME NEW i \in DOMAIN (q \o s)
            PROVE  (q \o s)[i].of = r /\ (Closes((q \o s)[i], a) => i = Len(q \o s))
        <4>1. CASE i <= Len(q)
          <5>1. i \in DOMAIN q /\ (q \o s)[i] = q[i]
            BY <2>3, <3>2, <4>1
          <5>2. QED
            BY <2>1, <3>0, <5>1
        <4>2. CASE ~(i <= Len(q))
          <5>1. i - Len(q) \in DOMAIN s /\ (q \o s)[i] = s[i - Len(q)]
            BY <3>2, <4>2
          <5>2. s[i - Len(q)].of = r /\ (Closes(s[i - Len(q)], a) => i - Len(q) = Len(s))
            BY <2>2, <2>4, <3>0, <5>1
          <5>3. i - Len(q) = Len(s) => i = Len(q \o s)
            BY <3>2
          <5>4. QED
            BY <5>1, <5>2, <5>3
        <4>3. QED
          BY <4>1, <4>2
      <3>4. QED
        BY <2>2, <3>1, <3>3 DEF OneTurn, Closes
    <2>6. ~Quiet(a)
      BY <2>1 DEF Quiet, p
    <2>7. QED
      BY <1>2, <2>5, <2>6
  <1>3. QED
    BY <1>1, <1>2


(* Who holds the conversation's agent goes on doing so while nobody ends   *)
(* its turn.                                                               *)
LEMMA AccountedKept ==
    ASSUME Flags, Accounted, UNCHANGED reg, spoiled \subseteq spoiled',
           \A c \in Requests : Quiet(c) => Quiet(c)',
           \A q \in Requests : Holding(q) => Holding(q)' /\ mine'[q].on = mine[q].on
    PROVE  Accounted'
  BY DEF Flags, Accounted

(* A turn that is left in mid-answer drops its agent or spoils it; one that *)
(* read its answer to the end leaves nothing behind.                       *)
LEMMA AccountedStep ==
    ASSUME Orderly, Flags, Agents, Turns, Claims, Fifo, Wired, Placed, Unread,
           Accounted, Streamed, [Next]_vars
    PROVE  Accounted'
  <1> USE DEF Go, ghosts, Flags, Turns
  <1>1. ASSUME NEW r \in Requests, Post(r) PROVE Accounted'
    <2>1. \A c \in Requests : Quiet(c) => Quiet(c)'
      BY <1>1 DEF Post, Quiet
    <2>2. \A q \in Requests : Holding(q) => Holding(q)' /\ mine'[q].on = mine[q].on
      BY <1>1 DEF Post, Holding
    <2>3. UNCHANGED reg /\ spoiled \subseteq spoiled'
      BY <1>1 DEF Post
    <2>4. QED
      BY <2>1, <2>2, <2>3, AccountedKept
  <1>2. ASSUME NEW r \in Requests, Record(r) PROVE Accounted'
    <2>1. \A c \in Requests : Quiet(c) => Quiet(c)'
      BY <1>2 DEF Record, Quiet
    <2>2. \A q \in Requests : Holding(q) => Holding(q)' /\ mine'[q].on = mine[q].on
      BY <1>2 DEF Record, Enqueue, Fault, Holding
    <2>3. UNCHANGED reg /\ spoiled \subseteq spoiled'
      BY <1>2 DEF Record, Enqueue, Fault
    <2>4. QED
      BY <2>1, <2>2, <2>3, AccountedKept
  <1>3. ASSUME NEW r \in Requests, Reuse(r) PROVE Accounted'
    <2>1. \A c \in Requests : Quiet(c) => Quiet(c)'
      BY <1>3 DEF Reuse, Quiet
    <2>2. \A q \in Requests : Holding(q) => Holding(q)' /\ mine'[q].on = mine[q].on
      BY <1>3 DEF Reuse, Reusable, Holding
    <2>3. UNCHANGED reg /\ spoiled \subseteq spoiled'
      BY <1>3 DEF Reuse, Reusable
    <2>4. QED
      BY <2>1, <2>2, <2>3, AccountedKept
  <1>4. ASSUME NEW r \in Requests, Connect(r) PROVE Accounted'
    <2>1. reg' = NoOne
      BY <1>4 DEF Connect, Evict
    <2>2. QED
      BY <2>1 DEF Accounted
  <1>5. ASSUME NEW r \in Requests, Connected(r) PROVE Accounted'
    <2>1. reg' = r /\ pc[r] = "connecting"
      BY <1>5 DEF Connected
    <2>2. client[r].pend = <<>> /\ client[r].queue = <<>>
      BY <2>1 DEF Unread, Early
    <2>3. client'[r].pend = <<>> /\ client'[r].queue = <<>>
      BY <1>5, <2>2, ConnectedIs
    <2>4. QED
      BY <2>1, <2>3 DEF Accounted, Quiet
  <1>6. ASSUME NEW r \in Requests, ConnectFails(r) PROVE Accounted'
    <2>1. \A c \in Requests : Quiet(c) => Quiet(c)'
      <3>1. \A c \in Requests : Spared(c)
        BY <1>6, EvictIs
      <3>2. QED
        BY <3>1, SparedKeeps DEF Spared
    <2>2. \A q \in Requests : Holding(q) => Holding(q)' /\ mine'[q].on = mine[q].on
      BY <1>6 DEF ConnectFails, Fault, Holding
    <2>3. UNCHANGED reg /\ spoiled \subseteq spoiled'
      BY <1>6 DEF ConnectFails, Fault
    <2>4. QED
      BY <2>1, <2>2, <2>3, AccountedKept
  <1>7. ASSUME NEW r \in Requests, Replay(r) PROVE Accounted'
    <2>1. \A c \in Requests : Quiet(c) => Quiet(c)'
      BY <1>7 DEF Replay, Quiet
    <2>2. \A q \in Requests : Holding(q) => Holding(q)' /\ mine'[q].on = mine[q].on
      BY <1>7 DEF Replay, Fault, Holding
    <2>3. UNCHANGED reg /\ spoiled \subseteq spoiled'
      BY <1>7 DEF Replay, Fault
    <2>4. QED
      BY <2>1, <2>2, <2>3, AccountedKept
  <1>8. ASSUME NEW r \in Requests, Deliver(r) PROVE Accounted'
    <2>1. CASE client[mine[r].on].at = "up"
      <3>1. /\ pc' = [pc EXCEPT ![r] = "stream"] /\ mine' = [mine EXCEPT ![r].delivered = TRUE]
            /\ UNCHANGED reg /\ mine[r].on \in Requests
        BY <1>8, <2>1 DEF Deliver, Fifo
      <3>2. reg # NoOne => mine'[r].on = reg /\ pc'[r] = "stream"
        BY <3>1, ChatAssumption DEF Placed
      <3>3. QED
        BY <3>1, <3>2 DEF Accounted, Holding
    <2>2. CASE client[mine[r].on].at # "up"
      <3>1. /\ pc[r] = "deliver" /\ pc' = [pc EXCEPT ![r] = "closing"]
            /\ mine' = [mine EXCEPT ![r].error = "error"] /\ UNCHANGED <<client, reg, spoiled>>
        BY <1>8, <2>2 DEF Deliver
      <3>2. \A c \in Requests : Quiet(c) => Quiet(c)'
        BY <3>1 DEF Quiet
      <3>3. \A q \in Requests : Holding(q) => Holding(q)' /\ mine'[q].on = mine[q].on
        BY <3>1 DEF Holding
      <3>4. QED
        BY <3>1, <3>2, <3>3, AccountedKept
    <2>3. QED
      BY <2>1, <2>2
  <1>9. ASSUME NEW r \in Requests, Receive(r) PROVE Accounted'
    <2>0. pc[r] = "stream" /\ mine[r].on \in Requests /\ DOMAIN heard = Requests
      BY <1>9 DEF Receive, Fifo, Unread
    <2> DEFINE c == mine[r].on
               e == client[c].queue[1]
    <2>1. UNCHANGED <<reg, spoiled>> /\ mine'[r].on = c
      BY <1>9, <2>0, ReceiveIs
    <2>2. CASE reg \in {NoOne} \cup spoiled
      BY <2>1, <2>2 DEF Accounted
    <2>3. CASE reg \notin {NoOne} \cup spoiled
      <3>1. c = reg
        BY <2>0, <2>3, ChatAssumption DEF Placed
      <3>2. CASE ~Closes(e, c)
        <4>1. pc' = pc
          BY <1>9, <2>0, <3>2, ReceiveIs
        <4>2. QED
          BY <2>0, <2>1, <3>1, <4>1 DEF Accounted, Holding
      <3>3. CASE Closes(e, c)
        <4>1. OneTurn(r, c)
          BY <2>0, <2>3, <3>1 DEF Streamed
        <4>2. /\ client[c].queue # <<>> /\ client'[c].queue = Tail(client[c].queue)
              /\ client'[c].pend = client[c].pend
          BY <1>9, <2>0, ReceiveIs
        <4>3. client[c].queue \in Seq(Written)
          BY <2>0 DEF Wired
        <4>4. 1 \in DOMAIN client[c].queue
          BY <4>2, <4>3
        <4>5. Len(client[c].queue) = 1 /\ client[c].pend = <<>>
          BY <3>3, <4>1, <4>4 DEF OneTurn
        <4>7. Tail(client[c].queue) = <<>>
          <5> DEFINE q == client[c].queue
          <5>1. q # <<>> /\ q \in Seq(Written) /\ Len(q) = 1
            BY <4>2, <4>3, <4>5
          <5> HIDE DEF q
          <5>2. Len(Tail(q)) = 0 /\ Tail(q) \in Seq(Written)
            BY <5>1, HeadTailProperties
          <5>3. Tail(q) = <<>>
            BY <5>2, EmptySeq
          <5>4. QED
            BY <5>3 DEF q
        <4>8. client'[reg].pend = <<>> /\ client'[reg].queue = <<>>
          BY <3>1, <4>2, <4>5, <4>7
        <4>9. QED
          BY <2>1, <4>8 DEF Accounted, Quiet
      <3>4. QED
        BY <3>2, <3>3
    <2>4. QED
      BY <2>2, <2>3
  <1>10. ASSUME NEW r \in Requests, StreamBreaks(r) PROVE Accounted'
    <2>1. /\ pc[r] = "stream" /\ mine[r].on \in Requests /\ UNCHANGED <<client, reg, spoiled>>
          /\ ~IsAcp(mine[r].on) /\ client[mine[r].on].at # "up" /\ client[mine[r].on].queue = <<>>
      BY <1>10 DEF StreamBreaks, Fifo
    <2>2. Quiet(mine[r].on)
      BY <2>1 DEF Wired, Quiet
    <2>3. reg # NoOne => reg = mine[r].on
      BY <2>1, ChatAssumption DEF Placed
    <2>4. reg # NoOne => Quiet(reg)'
      BY <2>1, <2>2, <2>3 DEF Quiet
    <2>5. QED
      BY <2>1, <2>4 DEF Accounted
  <1>10a. ASSUME NEW r \in Requests, GivesUp(r) PROVE Accounted'
    BY <1>10a DEF GivesUp, Orderly
  <1>11. ASSUME NEW r \in Requests, Closing(r) PROVE Accounted'
    <2>1. /\ pc[r] = "closing" /\ UNCHANGED <<mine, client, reg, spoiled>>
          /\ \/ Unsafe(mine[r]) /\ pc' = [pc EXCEPT ![r] = "dropping"]
             \/ ~Unsafe(mine[r]) /\ pc' = [pc EXCEPT ![r] = "finish"]
      BY <1>11 DEF Closing
    <2>2. \A c \in Requests : Quiet(c) => Quiet(c)'
      BY <2>1 DEF Quiet
    <2>3. \A q \in Requests : Holding(q) => Holding(q)' /\ mine'[q].on = mine[q].on
      BY <2>1 DEF Holding
    <2>4. QED
      BY <2>1, <2>2, <2>3, AccountedKept
  <1>12. ASSUME NEW r \in Requests, Drop(r) PROVE Accounted'
    <2>1. reg' = NoOne
      BY <1>12 DEF Drop, Evict
    <2>2. QED
      BY <2>1 DEF Accounted
  <1>13. ASSUME NEW r \in Requests, DropTimesOut(r) PROVE Accounted'
    <2>1. reg' = reg /\ (reg # NoOne => reg \in spoiled')
      BY <1>13 DEF DropTimesOut
    <2>2. QED
      BY <2>1 DEF Accounted
  <1>13a. ASSUME NEW r \in Requests, DropCutShort(r) PROVE Accounted'
    <2>1. reg' = NoOne
      BY <1>13a DEF DropCutShort
    <2>2. QED
      BY <2>1 DEF Accounted
  <1>14. ASSUME NEW r \in Requests, Finish(r) PROVE Accounted'
    <2>1. \A c \in Requests : Quiet(c) => Quiet(c)'
      BY <1>14 DEF Finish, Quiet
    <2>2. \A q \in Requests : Holding(q) => Holding(q)' /\ mine'[q].on = mine[q].on
      BY <1>14 DEF Finish, Fault, Holding
    <2>3. UNCHANGED reg /\ spoiled \subseteq spoiled'
      BY <1>14 DEF Finish, Fault
    <2>4. QED
      BY <2>1, <2>2, <2>3, AccountedKept
  <1>15. ASSUME NEW r \in Requests, Unclaim(r) PROVE Accounted'
    <2>1. \A c \in Requests : Quiet(c) => Quiet(c)'
      BY <1>15 DEF Unclaim, Quiet
    <2>2. \A q \in Requests : Holding(q) => Holding(q)' /\ mine'[q].on = mine[q].on
      BY <1>15 DEF Unclaim, NewTurn, Holding
    <2>3. UNCHANGED reg /\ spoiled \subseteq spoiled'
      BY <1>15 DEF Unclaim, NewTurn
    <2>4. QED
      BY <2>1, <2>2, <2>3, AccountedKept
  <1>16. ASSUME NEW r \in Requests, LeaveUnstarted(r) PROVE Accounted'
    <2>1. \A c \in Requests : Quiet(c) => Quiet(c)'
      BY <1>16 DEF LeaveUnstarted, Quiet
    <2>2. \A q \in Requests : Holding(q) => Holding(q)' /\ mine'[q].on = mine[q].on
      BY <1>16 DEF LeaveUnstarted, Holding
    <2>3. UNCHANGED reg /\ spoiled \subseteq spoiled'
      BY <1>16 DEF LeaveUnstarted
    <2>4. QED
      BY <2>1, <2>2, <2>3, AccountedKept
  <1>17. ASSUME NEW r \in Requests, LeaveRegistry(r) PROVE Accounted'
    <2>1. \A c \in Requests : Quiet(c) => Quiet(c)'
      <3>1. \A c \in Requests : Spared(c)
        BY <1>17, EvictIs
      <3>2. QED
        BY <3>1, SparedKeeps DEF Spared
    <2>2. \A q \in Requests : Holding(q) => Holding(q)' /\ mine'[q].on = mine[q].on
      BY <1>17 DEF LeaveRegistry, Interrupted, Holding
    <2>3. UNCHANGED reg /\ spoiled \subseteq spoiled'
      BY <1>17 DEF LeaveRegistry, Interrupted
    <2>4. QED
      BY <2>1, <2>2, <2>3, AccountedKept
  <1>17a. ASSUME NEW r \in Requests, LeaveSwitch(r) PROVE Accounted'
    <2>1. reg' = NoOne
      BY <1>17a DEF LeaveSwitch
    <2>2. QED
      BY <2>1 DEF Accounted
  <1>18. ASSUME NEW r \in Requests, LeaveAgent(r) PROVE Accounted'
    <2>1. /\ pc' = [pc EXCEPT ![r] = "closing"] /\ mine' = [mine EXCEPT ![r].error = "interrupted"]
          /\ UNCHANGED <<client, reg, spoiled>> /\ LeavePoint(r) \in LeaveAt
      BY <1>18 DEF LeaveAgent, Interrupted
    <2>2. \A c \in Requests : Quiet(c) => Quiet(c)'
      BY <2>1 DEF Quiet
    <2>3. pc[r] = "stream" => Unsafe(mine'[r])
      <3>1. SUFFICES ASSUME pc[r] = "stream" PROVE Unsafe(mine'[r])
        OBVIOUS
      <3>2. mine[r].delivered /\ ~mine[r].completed
        BY <2>1, <3>1 DEF Unread, LeavePoint, Orderly
      <3>3. mine'[r].delivered = mine[r].delivered /\ mine'[r].completed = mine[r].completed
        BY <2>1
      <3>4. QED
        BY <3>2, <3>3 DEF Unsafe
    <2>4. pc[r] \in {"replay", "deliver", "stream"}
      BY <1>18 DEF LeaveAgent
    <2>5. \A q \in Requests : Holding(q) => Holding(q)' /\ mine'[q].on = mine[q].on
      BY <2>1, <2>3, <2>4 DEF Holding
    <2>6. QED
      BY <2>1, <2>2, <2>5, AccountedKept
  <1>19. ASSUME NEW r \in Requests, LeaveQuery(r) PROVE Accounted'
    BY <1>19 DEF LeaveQuery, Orderly
  <1>20. ASSUME NEW r \in Requests, Say(r) PROVE Accounted'
    <2>1. \A c \in Requests : Quiet(c) => Quiet(c)'
      BY <1>20, SayKeeps
    <2>2. \A q \in Requests : Holding(q) => Holding(q)' /\ mine'[q].on = mine[q].on
      BY <1>20 DEF Say, Holding
    <2>3. UNCHANGED reg /\ spoiled \subseteq spoiled'
      BY <1>20 DEF Say
    <2>4. QED
      BY <2>1, <2>2, <2>3, AccountedKept
  <1>21. ASSUME NEW r \in Requests, Answer(r) PROVE Accounted'
    <2>1. \A c \in Requests : Quiet(c) => Quiet(c)'
      BY <1>21, AnswerKeeps
    <2>2. \A q \in Requests : Holding(q) => Holding(q)' /\ mine'[q].on = mine[q].on
      BY <1>21 DEF Answer, Holding
    <2>3. UNCHANGED reg /\ spoiled \subseteq spoiled'
      BY <1>21 DEF Answer
    <2>4. QED
      BY <2>1, <2>2, <2>3, AccountedKept
  <1>22. ASSUME NEW r \in Requests, Dies(r) PROVE Accounted'
    <2>1. \A c \in Requests : Quiet(c) => Quiet(c)'
      BY <1>22, DiesIs, SparedKeeps
    <2>2. \A q \in Requests : Holding(q) => Holding(q)' /\ mine'[q].on = mine[q].on
      BY <1>22 DEF Dies, Holding
    <2>3. UNCHANGED reg /\ spoiled \subseteq spoiled'
      BY <1>22 DEF Dies
    <2>4. QED
      BY <2>1, <2>2, <2>3, AccountedKept
  <1>23. CASE AskClose
    <2>1. \A c \in Requests : Quiet(c) => Quiet(c)'
      BY <1>23 DEF AskClose, Quiet
    <2>2. \A q \in Requests : Holding(q) => Holding(q)' /\ mine'[q].on = mine[q].on
      BY <1>23 DEF AskClose, Begin, Holding
    <2>3. UNCHANGED reg /\ spoiled \subseteq spoiled'
      BY <1>23 DEF AskClose
    <2>4. QED
      BY <2>1, <2>2, <2>3, AccountedKept
  <1>24. CASE AskRefresh
    <2>1. \A c \in Requests : Quiet(c) => Quiet(c)'
      BY <1>24 DEF AskRefresh, Quiet
    <2>2. \A q \in Requests : Holding(q) => Holding(q)' /\ mine'[q].on = mine[q].on
      BY <1>24 DEF AskRefresh, Begin, Holding
    <2>3. UNCHANGED reg /\ spoiled \subseteq spoiled'
      BY <1>24 DEF AskRefresh
    <2>4. QED
      BY <2>1, <2>2, <2>3, AccountedKept
  <1>25. CASE CloseSession
    <2>1. reg' = NoOne
      BY <1>25 DEF CloseSession, Evict
    <2>2. QED
      BY <2>1 DEF Accounted
  <1>26. CASE RefreshStarts
    <2>1. \A c \in Requests : Quiet(c) => Quiet(c)'
      <3>1. \A c \in Requests : Spared(c)
        BY <1>26, EvictIs
      <3>2. QED
        BY <3>1, SparedKeeps DEF Spared
    <2>2. \A q \in Requests : Holding(q) => Holding(q)' /\ mine'[q].on = mine[q].on
      BY <1>26 DEF RefreshStarts, Holding
    <2>3. UNCHANGED reg /\ spoiled \subseteq spoiled'
      BY <1>26 DEF RefreshStarts
    <2>4. QED
      BY <2>1, <2>2, <2>3, AccountedKept
  <1>27. CASE RefreshEnds
    <2>1. \A c \in Requests : Quiet(c) => Quiet(c)'
      BY <1>27, RefreshIs, SparedKeeps
    <2>2. \A q \in Requests : Holding(q) => Holding(q)' /\ mine'[q].on = mine[q].on
      BY <1>27 DEF RefreshEnds, Holding
    <2>3. UNCHANGED reg /\ spoiled \subseteq spoiled'
      BY <1>27 DEF RefreshEnds
    <2>4. QED
      BY <2>1, <2>2, <2>3, AccountedKept
  <1>28. CASE AskDelete
    <2>1. \A c \in Requests : Quiet(c) => Quiet(c)'
      BY <1>28 DEF AskDelete, Quiet
    <2>2. \A q \in Requests : Holding(q) => Holding(q)' /\ mine'[q].on = mine[q].on
      BY <1>28 DEF AskDelete, Begin, Holding
    <2>3. UNCHANGED reg /\ spoiled \subseteq spoiled'
      BY <1>28 DEF AskDelete
    <2>4. QED
      BY <2>1, <2>2, <2>3, AccountedKept
  <1>29. CASE DeleteDrops
    <2>1. reg' = NoOne
      BY <1>29 DEF DeleteDrops, Evict
    <2>2. QED
      BY <2>1 DEF Accounted
  <1>30. CASE DeleteRows
    <2>1. \A c \in Requests : Quiet(c) => Quiet(c)'
      BY <1>30 DEF DeleteRows, Quiet
    <2>2. \A q \in Requests : Holding(q) => Holding(q)' /\ mine'[q].on = mine[q].on
      BY <1>30 DEF DeleteRows, Fault, At, Holding
    <2>3. UNCHANGED reg /\ spoiled \subseteq spoiled'
      BY <1>30 DEF DeleteRows, Fault, At
    <2>4. QED
      BY <2>1, <2>2, <2>3, AccountedKept
  <1>31. CASE AskSweep
    <2>1. \A c \in Requests : Quiet(c) => Quiet(c)'
      BY <1>31 DEF AskSweep, Quiet
    <2>2. \A q \in Requests : Holding(q) => Holding(q)' /\ mine'[q].on = mine[q].on
      BY <1>31 DEF AskSweep, Begin, Holding
    <2>3. UNCHANGED reg /\ spoiled \subseteq spoiled'
      BY <1>31 DEF AskSweep
    <2>4. QED
      BY <2>1, <2>2, <2>3, AccountedKept
  <1>32. CASE Sweep
    <2>1. CASE reg' = NoOne
      BY <2>1 DEF Accounted
    <2>2. CASE UNCHANGED <<client, reg>>
      BY <1>32, <2>2 DEF Sweep, Accounted, Quiet, Holding
    <2>3. QED
      BY <1>32, <2>1, <2>2 DEF Sweep, Evict
  <1>33. CASE OtherLocks
    <2>1. \A c \in Requests : Quiet(c) => Quiet(c)'
      BY <1>33 DEF OtherLocks, Quiet
    <2>2. \A q \in Requests : Holding(q) => Holding(q)' /\ mine'[q].on = mine[q].on
      BY <1>33 DEF OtherLocks, Begin, Holding
    <2>3. UNCHANGED reg /\ spoiled \subseteq spoiled'
      BY <1>33 DEF OtherLocks
    <2>4. QED
      BY <2>1, <2>2, <2>3, AccountedKept
  <1>34. CASE OtherUnlocks
    <2>1. \A c \in Requests : Quiet(c) => Quiet(c)'
      BY <1>34 DEF OtherUnlocks, Quiet
    <2>2. \A q \in Requests : Holding(q) => Holding(q)' /\ mine'[q].on = mine[q].on
      BY <1>34 DEF OtherUnlocks, HasLock, At, Holding
    <2>3. UNCHANGED reg /\ spoiled \subseteq spoiled'
      BY <1>34 DEF OtherUnlocks, HasLock, At
    <2>4. QED
      BY <2>1, <2>2, <2>3, AccountedKept
  <1>35. CASE TimePasses
    <2>1. \A c \in Requests : Quiet(c) => Quiet(c)'
      BY <1>35 DEF TimePasses, Quiet
    <2>2. \A q \in Requests : Holding(q) => Holding(q)' /\ mine'[q].on = mine[q].on
      BY <1>35 DEF TimePasses, Holding
    <2>3. UNCHANGED reg /\ spoiled \subseteq spoiled'
      BY <1>35 DEF TimePasses
    <2>4. QED
      BY <2>1, <2>2, <2>3, AccountedKept
  <1>36. CASE ServerRestarts
    <2>1. reg' = NoOne
      BY <1>36 DEF ServerRestarts
    <2>2. QED
      BY <2>1 DEF Accounted
  <1>37. CASE UNCHANGED vars
    BY <1>37 DEF vars, Accounted, Quiet, Holding
  <1>38. QED
    BY <1>1, <1>2, <1>3, <1>4, <1>5, <1>6, <1>7, <1>8, <1>9, <1>10, <1>10a, <1>11,
       <1>12, <1>13, <1>13a, <1>14, <1>15, <1>16, <1>17, <1>17a, <1>18, <1>19, <1>20, <1>21,
       <1>22, <1>23, <1>24, <1>25, <1>26, <1>27, <1>28, <1>29, <1>30, <1>31,
       <1>32, <1>33, <1>34, <1>35, <1>36, <1>37
    DEF Next, Turn, Leave, Agent, Asks, Serves


(* A stream is about its own turn while nobody else talks to its agent.    *)
LEMMA StreamedKept ==
    ASSUME Flags, Fifo, Streamed, spoiled \subseteq spoiled',
           \A c \in Requests, q \in Requests : OneTurn(q, c) => OneTurn(q, c)',
           \A q \in Requests : pc'[q] = "stream" => pc[q] = "stream" /\ mine'[q].on = mine[q].on
    PROVE  Streamed'
  <1>1. SUFFICES ASSUME NEW q \in Requests, pc'[q] = "stream", mine'[q].on \notin spoiled'
                 PROVE  OneTurn(q, mine[q].on)'
    BY DEF Streamed
  <1>2. PICK c \in Requests : c = mine[q].on
    BY <1>1 DEF Fifo
  <1>3. OneTurn(q, c)
    BY <1>1, <1>2 DEF Streamed
  <1>4. OneTurn(q, c)' /\ mine'[q].on = c
    BY <1>1, <1>2, <1>3
  <1>5. QED
    BY <1>4

(* A prompt is delivered to an agent that has nothing left to say.         *)
LEMMA StreamedStep ==
    ASSUME Orderly, Flags, Agents, Turns, Claims, Alive, Fifo, Wired, Placed,
           Unread, Accounted, Streamed, [Next]_vars
    PROVE  Streamed'
  <1> USE DEF Go, ghosts, Flags, Turns
  <1>1. ASSUME NEW r \in Requests, Post(r) PROVE Streamed'
    <2>1. \A c \in Requests, q \in Requests : OneTurn(q, c) => OneTurn(q, c)'
      BY <1>1 DEF Post, OneTurn
    <2>2. \A q \in Requests : pc'[q] = "stream" => pc[q] = "stream" /\ mine'[q].on = mine[q].on
      BY <1>1 DEF Post
    <2>3. spoiled \subseteq spoiled'
      BY <1>1 DEF Post
    <2>4. QED
      BY <2>1, <2>2, <2>3, StreamedKept
  <1>2. ASSUME NEW r \in Requests, Record(r) PROVE Streamed'
    <2>1. \A c \in Requests, q \in Requests : OneTurn(q, c) => OneTurn(q, c)'
      BY <1>2 DEF Record, OneTurn
    <2>2. \A q \in Requests : pc'[q] = "stream" => pc[q] = "stream" /\ mine'[q].on = mine[q].on
      BY <1>2 DEF Record, Enqueue, Fault
    <2>3. spoiled \subseteq spoiled'
      BY <1>2 DEF Record, Enqueue, Fault
    <2>4. QED
      BY <2>1, <2>2, <2>3, StreamedKept
  <1>3. ASSUME NEW r \in Requests, Reuse(r) PROVE Streamed'
    <2>1. \A c \in Requests, q \in Requests : OneTurn(q, c) => OneTurn(q, c)'
      BY <1>3 DEF Reuse, OneTurn
    <2>2. \A q \in Requests : pc'[q] = "stream" => pc[q] = "stream" /\ mine'[q].on = mine[q].on
      BY <1>3 DEF Reuse, Reusable
    <2>3. spoiled \subseteq spoiled'
      BY <1>3 DEF Reuse, Reusable
    <2>4. QED
      BY <2>1, <2>2, <2>3, StreamedKept
  <1>4. ASSUME NEW r \in Requests, Connect(r) PROVE Streamed'
    <2>1. \A c \in Requests, q \in Requests : OneTurn(q, c) => OneTurn(q, c)'
      <3>1. \A c \in Requests : Spared(c)
        BY <1>4, ConnectIs DEF Connect, Unread, Early
      <3>2. QED
        BY <3>1, SparedKeeps DEF Spared
    <2>2. \A q \in Requests : pc'[q] = "stream" => pc[q] = "stream" /\ mine'[q].on = mine[q].on
      BY <1>4 DEF Connect
    <2>3. spoiled \subseteq spoiled'
      BY <1>4 DEF Connect
    <2>4. QED
      BY <2>1, <2>2, <2>3, StreamedKept
  <1>5. ASSUME NEW r \in Requests, Connected(r) PROVE Streamed'
    <2>1. \A c \in Requests, q \in Requests : OneTurn(q, c) => OneTurn(q, c)'
      BY <1>5, ConnectedIs, SparedKeeps
    <2>2. \A q \in Requests : pc'[q] = "stream" => pc[q] = "stream" /\ mine'[q].on = mine[q].on
      BY <1>5 DEF Connected
    <2>3. spoiled \subseteq spoiled'
      BY <1>5 DEF Connected
    <2>4. QED
      BY <2>1, <2>2, <2>3, StreamedKept
  <1>6. ASSUME NEW r \in Requests, ConnectFails(r) PROVE Streamed'
    <2>1. \A c \in Requests, q \in Requests : OneTurn(q, c) => OneTurn(q, c)'
      <3>1. \A c \in Requests : Spared(c)
        BY <1>6, EvictIs
      <3>2. QED
        BY <3>1, SparedKeeps DEF Spared
    <2>2. \A q \in Requests : pc'[q] = "stream" => pc[q] = "stream" /\ mine'[q].on = mine[q].on
      BY <1>6 DEF ConnectFails, Fault
    <2>3. spoiled \subseteq spoiled'
      BY <1>6 DEF ConnectFails, Fault
    <2>4. QED
      BY <2>1, <2>2, <2>3, StreamedKept
  <1>7. ASSUME NEW r \in Requests, Replay(r) PROVE Streamed'
    <2>1. \A c \in Requests, q \in Requests : OneTurn(q, c) => OneTurn(q, c)'
      BY <1>7 DEF Replay, OneTurn
    <2>2. \A q \in Requests : pc'[q] = "stream" => pc[q] = "stream" /\ mine'[q].on = mine[q].on
      BY <1>7 DEF Replay, Fault
    <2>3. spoiled \subseteq spoiled'
      BY <1>7 DEF Replay, Fault
    <2>4. QED
      BY <2>1, <2>2, <2>3, StreamedKept
  <1>8. ASSUME NEW r \in Requests, Deliver(r) PROVE Streamed'
    <2>0. pc[r] = "deliver" /\ \A q \in Requests \ {r} : pc[q] \in {"idle", "over"}
      BY <1>8 DEF Deliver, Claims
    <2>1. CASE client[mine[r].on].at = "up"
      <3>1. PICK c \in Requests : c = mine[r].on
        BY <1>8 DEF Deliver, Fifo
      <3>2. /\ client' = Sent(r, FALSE) /\ pc' = [pc EXCEPT ![r] = "stream"] /\ UNCHANGED spoiled
            /\ mine' = [mine EXCEPT ![r].delivered = TRUE]
        BY <1>8, <2>1 DEF Deliver
      <3>3. SUFFICES ASSUME c \notin spoiled PROVE OneTurn(r, c)'
        <4>1. mine'[r].on = c
          BY <3>1, <3>2
        <4>2. \A q \in Requests \ {r} : pc'[q] # "stream"
          BY <2>0, <3>2
        <4>3. QED
          BY <3>2, <4>1, <4>2 DEF Streamed
      <3>4. reg = c /\ reg # NoOne
        <4>1. pc[c] # "connecting"
          BY <3>1, ChatAssumption DEF Placed, Early
        <4>2. QED
          BY <2>1, <3>1, <4>1, ChatAssumption DEF Alive
      <3>5. \A q \in Requests : ~Holding(q)
        BY <2>0 DEF Holding
      <3>6. client[c].pend = <<>> /\ client[c].queue = <<>>
        BY <3>3, <3>4, <3>5 DEF Accounted, Quiet
      <3> DEFINE x == Prompt(r, FALSE)
      <3>7. /\ client'[c].queue = client[c].queue /\ client'[c].pend = Append(client[c].pend, x)
            /\ x.of = r
        BY <3>1, <3>2, SentIs
      <3> HIDE DEF x
      <3>8. client'[c].queue = <<>> /\ client'[c].pend = <<x>>
        BY <3>6, <3>7
      <3>9. Len(<<x>>) = 1 /\ DOMAIN <<x>> = {1} /\ <<x>>[1] = x /\ DOMAIN <<>> = {}
        OBVIOUS
      <3>10. QED
        BY <3>7, <3>8, <3>9 DEF OneTurn
    <2>2. CASE client[mine[r].on].at # "up"
      <3>1. pc' = [pc EXCEPT ![r] = "closing"]
        BY <1>8, <2>2 DEF Deliver
      <3>2. \A q \in Requests : pc'[q] # "stream"
        BY <2>0, <3>1
      <3>3. QED
        BY <3>2 DEF Streamed
    <2>3. QED
      BY <2>1, <2>2
  <1>9. ASSUME NEW r \in Requests, Receive(r) PROVE Streamed'
    <2>0. /\ pc[r] = "stream" /\ mine[r].on \in Requests /\ DOMAIN heard = Requests
          /\ \A q \in Requests \ {r} : pc[q] \in {"idle", "over"}
      BY <1>9 DEF Receive, Fifo, Unread, Claims
    <2>1. PICK c \in Requests : c = mine[r].on
      BY <2>0
    <2> DEFINE e == client[c].queue[1]
               q == client[c].queue
    <2>2. UNCHANGED spoiled /\ mine'[r].on = c
      BY <1>9, <2>0, <2>1, ReceiveIs
    <2>3. pc' = pc \/ pc' = [pc EXCEPT ![r] = "closing"]
      BY <1>9 DEF Receive
    <2>4. \A s \in Requests \ {r} : pc'[s] # "stream"
      BY <2>0, <2>3
    <2>5. SUFFICES ASSUME c \notin spoiled PROVE OneTurn(r, c)'
      BY <2>2, <2>4 DEF Streamed
    <2>6. OneTurn(r, c)
      BY <2>0, <2>1, <2>5 DEF Streamed
    <2>7. /\ q # <<>> /\ client'[c].queue = Tail(q) /\ client'[c].pend = client[c].pend
      BY <1>9, <2>0, <2>1, ReceiveIs
    <2>8. q \in Seq(Written)
      BY DEF Wired
    <2> HIDE DEF q
    <2>9. /\ DOMAIN Tail(q) = 1 .. (Len(q) - 1) /\ Len(Tail(q)) = Len(q) - 1
          /\ DOMAIN q = 1 .. Len(q) /\ Len(q) \in Nat
          /\ \A i \in 1 .. (Len(q) - 1) : Tail(q)[i] = q[i + 1]
      <3>1. /\ Tail(q) \in Seq(Written) /\ Len(Tail(q)) = Len(q) - 1
            /\ \A i \in 1 .. Len(Tail(q)) : Tail(q)[i] = q[i + 1]
        BY <2>7, <2>8, HeadTailProperties
      <3>2. QED
        BY <2>8, <3>1
    <2>10. /\ Len(client[c].pend) <= 1 /\ \A i \in DOMAIN client[c].pend : client[c].pend[i].of = r
           /\ \A i \in DOMAIN q :
                 q[i].of = r /\ (Closes(q[i], c) => i = Len(q) /\ client[c].pend = <<>>)
      BY <2>6 DEF OneTurn, q
    <2>11. ASSUME NEW i \in DOMAIN Tail(q)
           PROVE  /\ Tail(q)[i].of = r
                  /\ Closes(Tail(q)[i], c) => i = Len(Tail(q)) /\ client[c].pend = <<>>
      <3>1. i + 1 \in DOMAIN q /\ Tail(q)[i] = q[i + 1] /\ (i + 1 = Len(q) => i = Len(Tail(q)))
        BY <2>9
      <3>2. QED
        BY <2>10, <3>1
    <2>12. QED
      BY <2>7, <2>10, <2>11 DEF OneTurn, Closes
  <1>10. ASSUME NEW r \in Requests, StreamBreaks(r) PROVE Streamed'
    <2>1. \A c \in Requests, q \in Requests : OneTurn(q, c) => OneTurn(q, c)'
      BY <1>10 DEF StreamBreaks, OneTurn
    <2>2. \A q \in Requests : pc'[q] = "stream" => pc[q] = "stream" /\ mine'[q].on = mine[q].on
      BY <1>10 DEF StreamBreaks
    <2>3. spoiled \subseteq spoiled'
      BY <1>10 DEF StreamBreaks
    <2>4. QED
      BY <2>1, <2>2, <2>3, StreamedKept
  <1>10a. ASSUME NEW r \in Requests, GivesUp(r) PROVE Streamed'
    <2>1. \A c \in Requests, q \in Requests : OneTurn(q, c) => OneTurn(q, c)'
      BY <1>10a DEF GivesUp, OneTurn
    <2>2. \A q \in Requests : pc'[q] = "stream" => pc[q] = "stream" /\ mine'[q].on = mine[q].on
      BY <1>10a DEF GivesUp
    <2>3. spoiled \subseteq spoiled'
      BY <1>10a DEF GivesUp
    <2>4. QED
      BY <2>1, <2>2, <2>3, StreamedKept
  <1>11. ASSUME NEW r \in Requests, Closing(r) PROVE Streamed'
    <2>1. \A c \in Requests, q \in Requests : OneTurn(q, c) => OneTurn(q, c)'
      BY <1>11 DEF Closing, OneTurn
    <2>2. \A q \in Requests : pc'[q] = "stream" => pc[q] = "stream" /\ mine'[q].on = mine[q].on
      BY <1>11 DEF Closing
    <2>3. spoiled \subseteq spoiled'
      BY <1>11 DEF Closing
    <2>4. QED
      BY <2>1, <2>2, <2>3, StreamedKept
  <1>12. ASSUME NEW r \in Requests, Drop(r) PROVE Streamed'
    <2>1. \A c \in Requests, q \in Requests : OneTurn(q, c) => OneTurn(q, c)'
      <3>1. \A c \in Requests : Spared(c)
        BY <1>12, EvictIs
      <3>2. QED
        BY <3>1, SparedKeeps DEF Spared
    <2>2. \A q \in Requests : pc'[q] = "stream" => pc[q] = "stream" /\ mine'[q].on = mine[q].on
      BY <1>12 DEF Drop
    <2>3. spoiled \subseteq spoiled'
      BY <1>12 DEF Drop
    <2>4. QED
      BY <2>1, <2>2, <2>3, StreamedKept
  <1>13. ASSUME NEW r \in Requests, DropTimesOut(r) PROVE Streamed'
    <2>1. \A c \in Requests, q \in Requests : OneTurn(q, c) => OneTurn(q, c)'
      BY <1>13 DEF DropTimesOut, OneTurn
    <2>2. \A q \in Requests : pc'[q] = "stream" => pc[q] = "stream" /\ mine'[q].on = mine[q].on
      BY <1>13 DEF DropTimesOut
    <2>3. spoiled \subseteq spoiled'
      BY <1>13 DEF DropTimesOut
    <2>4. QED
      BY <2>1, <2>2, <2>3, StreamedKept
  <1>13a. ASSUME NEW r \in Requests, DropCutShort(r) PROVE Streamed'
    <2>1. \A c \in Requests, q \in Requests : OneTurn(q, c) => OneTurn(q, c)'
      <3>1. \A c \in Requests : Spared(c)
        BY <1>13a, EvictIs
      <3>2. QED
        BY <3>1, SparedKeeps DEF Spared
    <2>2. \A q \in Requests : pc'[q] = "stream" => pc[q] = "stream" /\ mine'[q].on = mine[q].on
      BY <1>13a DEF DropCutShort
    <2>3. spoiled \subseteq spoiled'
      BY <1>13a DEF DropCutShort
    <2>4. QED
      BY <2>1, <2>2, <2>3, StreamedKept
  <1>14. ASSUME NEW r \in Requests, Finish(r) PROVE Streamed'
    <2>1. \A c \in Requests, q \in Requests : OneTurn(q, c) => OneTurn(q, c)'
      BY <1>14 DEF Finish, OneTurn
    <2>2. \A q \in Requests : pc'[q] = "stream" => pc[q] = "stream" /\ mine'[q].on = mine[q].on
      BY <1>14 DEF Finish, Fault
    <2>3. spoiled \subseteq spoiled'
      BY <1>14 DEF Finish, Fault
    <2>4. QED
      BY <2>1, <2>2, <2>3, StreamedKept
  <1>15. ASSUME NEW r \in Requests, Unclaim(r) PROVE Streamed'
    <2>1. \A c \in Requests, q \in Requests : OneTurn(q, c) => OneTurn(q, c)'
      BY <1>15 DEF Unclaim, OneTurn
    <2>2. \A q \in Requests : pc'[q] = "stream" => pc[q] = "stream" /\ mine'[q].on = mine[q].on
      BY <1>15 DEF Unclaim, NewTurn
    <2>3. spoiled \subseteq spoiled'
      BY <1>15 DEF Unclaim, NewTurn
    <2>4. QED
      BY <2>1, <2>2, <2>3, StreamedKept
  <1>16. ASSUME NEW r \in Requests, LeaveUnstarted(r) PROVE Streamed'
    <2>1. \A c \in Requests, q \in Requests : OneTurn(q, c) => OneTurn(q, c)'
      BY <1>16 DEF LeaveUnstarted, OneTurn
    <2>2. \A q \in Requests : pc'[q] = "stream" => pc[q] = "stream" /\ mine'[q].on = mine[q].on
      BY <1>16 DEF LeaveUnstarted
    <2>3. spoiled \subseteq spoiled'
      BY <1>16 DEF LeaveUnstarted
    <2>4. QED
      BY <2>1, <2>2, <2>3, StreamedKept
  <1>17. ASSUME NEW r \in Requests, LeaveRegistry(r) PROVE Streamed'
    <2>1. \A c \in Requests, q \in Requests : OneTurn(q, c) => OneTurn(q, c)'
      <3>1. \A c \in Requests : Spared(c)
        BY <1>17, EvictIs
      <3>2. QED
        BY <3>1, SparedKeeps DEF Spared
    <2>2. \A q \in Requests : pc'[q] = "stream" => pc[q] = "stream" /\ mine'[q].on = mine[q].on
      BY <1>17 DEF LeaveRegistry, Interrupted
    <2>3. spoiled \subseteq spoiled'
      BY <1>17 DEF LeaveRegistry, Interrupted
    <2>4. QED
      BY <2>1, <2>2, <2>3, StreamedKept
  <1>17a. ASSUME NEW r \in Requests, LeaveSwitch(r) PROVE Streamed'
    <2>1. \A c \in Requests, q \in Requests : OneTurn(q, c) => OneTurn(q, c)'
      <3>1. \A c \in Requests : Spared(c)
        BY <1>17a, EvictIs
      <3>2. QED
        BY <3>1, SparedKeeps DEF Spared
    <2>2. \A q \in Requests : pc'[q] = "stream" => pc[q] = "stream" /\ mine'[q].on = mine[q].on
      BY <1>17a DEF LeaveSwitch, Interrupted
    <2>3. spoiled \subseteq spoiled'
      BY <1>17a DEF LeaveSwitch, Interrupted
    <2>4. QED
      BY <2>1, <2>2, <2>3, StreamedKept
  <1>18. ASSUME NEW r \in Requests, LeaveAgent(r) PROVE Streamed'
    <2>1. \A c \in Requests, q \in Requests : OneTurn(q, c) => OneTurn(q, c)'
      BY <1>18 DEF LeaveAgent, OneTurn
    <2>2. \A q \in Requests : pc'[q] = "stream" => pc[q] = "stream" /\ mine'[q].on = mine[q].on
      BY <1>18 DEF LeaveAgent, Interrupted
    <2>3. spoiled \subseteq spoiled'
      BY <1>18 DEF LeaveAgent, Interrupted
    <2>4. QED
      BY <2>1, <2>2, <2>3, StreamedKept
  <1>19. ASSUME NEW r \in Requests, LeaveQuery(r) PROVE Streamed'
    BY <1>19 DEF LeaveQuery, Orderly
  <1>20. ASSUME NEW r \in Requests, Say(r) PROVE Streamed'
    <2>1. \A c \in Requests, q \in Requests : OneTurn(q, c) => OneTurn(q, c)'
      BY <1>20, SayKeeps
    <2>2. \A q \in Requests : pc'[q] = "stream" => pc[q] = "stream" /\ mine'[q].on = mine[q].on
      BY <1>20 DEF Say
    <2>3. spoiled \subseteq spoiled'
      BY <1>20 DEF Say
    <2>4. QED
      BY <2>1, <2>2, <2>3, StreamedKept
  <1>21. ASSUME NEW r \in Requests, Answer(r) PROVE Streamed'
    <2>1. \A c \in Requests, q \in Requests : OneTurn(q, c) => OneTurn(q, c)'
      BY <1>21, AnswerKeeps
    <2>2. \A q \in Requests : pc'[q] = "stream" => pc[q] = "stream" /\ mine'[q].on = mine[q].on
      BY <1>21 DEF Answer
    <2>3. spoiled \subseteq spoiled'
      BY <1>21 DEF Answer
    <2>4. QED
      BY <2>1, <2>2, <2>3, StreamedKept
  <1>22. ASSUME NEW r \in Requests, Dies(r) PROVE Streamed'
    <2>1. \A c \in Requests, q \in Requests : OneTurn(q, c) => OneTurn(q, c)'
      BY <1>22, DiesIs, SparedKeeps
    <2>2. \A q \in Requests : pc'[q] = "stream" => pc[q] = "stream" /\ mine'[q].on = mine[q].on
      BY <1>22 DEF Dies
    <2>3. spoiled \subseteq spoiled'
      BY <1>22 DEF Dies
    <2>4. QED
      BY <2>1, <2>2, <2>3, StreamedKept
  <1>23. CASE AskClose
    <2>1. \A c \in Requests, q \in Requests : OneTurn(q, c) => OneTurn(q, c)'
      BY <1>23 DEF AskClose, OneTurn
    <2>2. \A q \in Requests : pc'[q] = "stream" => pc[q] = "stream" /\ mine'[q].on = mine[q].on
      BY <1>23 DEF AskClose, Begin
    <2>3. spoiled \subseteq spoiled'
      BY <1>23 DEF AskClose
    <2>4. QED
      BY <2>1, <2>2, <2>3, StreamedKept
  <1>24. CASE AskRefresh
    <2>1. \A c \in Requests, q \in Requests : OneTurn(q, c) => OneTurn(q, c)'
      BY <1>24 DEF AskRefresh, OneTurn
    <2>2. \A q \in Requests : pc'[q] = "stream" => pc[q] = "stream" /\ mine'[q].on = mine[q].on
      BY <1>24 DEF AskRefresh, Begin
    <2>3. spoiled \subseteq spoiled'
      BY <1>24 DEF AskRefresh
    <2>4. QED
      BY <2>1, <2>2, <2>3, StreamedKept
  <1>25. CASE CloseSession
    <2>1. \A c \in Requests, q \in Requests : OneTurn(q, c) => OneTurn(q, c)'
      <3>1. \A c \in Requests : Spared(c)
        BY <1>25, EvictIs
      <3>2. QED
        BY <3>1, SparedKeeps DEF Spared
    <2>2. \A q \in Requests : pc'[q] = "stream" => pc[q] = "stream" /\ mine'[q].on = mine[q].on
      BY <1>25 DEF CloseSession
    <2>3. spoiled \subseteq spoiled'
      BY <1>25 DEF CloseSession
    <2>4. QED
      BY <2>1, <2>2, <2>3, StreamedKept
  <1>26. CASE RefreshStarts
    <2>1. \A c \in Requests, q \in Requests : OneTurn(q, c) => OneTurn(q, c)'
      <3>1. \A c \in Requests : Spared(c)
        BY <1>26, EvictIs
      <3>2. QED
        BY <3>1, SparedKeeps DEF Spared
    <2>2. \A q \in Requests : pc'[q] = "stream" => pc[q] = "stream" /\ mine'[q].on = mine[q].on
      BY <1>26 DEF RefreshStarts
    <2>3. spoiled \subseteq spoiled'
      BY <1>26 DEF RefreshStarts
    <2>4. QED
      BY <2>1, <2>2, <2>3, StreamedKept
  <1>27. CASE RefreshEnds
    <2>1. \A c \in Requests, q \in Requests : OneTurn(q, c) => OneTurn(q, c)'
      BY <1>27, RefreshIs, SparedKeeps
    <2>2. \A q \in Requests : pc'[q] = "stream" => pc[q] = "stream" /\ mine'[q].on = mine[q].on
      BY <1>27 DEF RefreshEnds
    <2>3. spoiled \subseteq spoiled'
      BY <1>27 DEF RefreshEnds
    <2>4. QED
      BY <2>1, <2>2, <2>3, StreamedKept
  <1>28. CASE AskDelete
    <2>1. \A c \in Requests, q \in Requests : OneTurn(q, c) => OneTurn(q, c)'
      BY <1>28 DEF AskDelete, OneTurn
    <2>2. \A q \in Requests : pc'[q] = "stream" => pc[q] = "stream" /\ mine'[q].on = mine[q].on
      BY <1>28 DEF AskDelete, Begin
    <2>3. spoiled \subseteq spoiled'
      BY <1>28 DEF AskDelete
    <2>4. QED
      BY <2>1, <2>2, <2>3, StreamedKept
  <1>29. CASE DeleteDrops
    <2>1. \A c \in Requests, q \in Requests : OneTurn(q, c) => OneTurn(q, c)'
      <3>1. \A c \in Requests : Spared(c)
        BY <1>29, EvictIs
      <3>2. QED
        BY <3>1, SparedKeeps DEF Spared
    <2>2. \A q \in Requests : pc'[q] = "stream" => pc[q] = "stream" /\ mine'[q].on = mine[q].on
      BY <1>29 DEF DeleteDrops
    <2>3. spoiled \subseteq spoiled'
      BY <1>29 DEF DeleteDrops
    <2>4. QED
      BY <2>1, <2>2, <2>3, StreamedKept
  <1>30. CASE DeleteRows
    <2>1. \A c \in Requests, q \in Requests : OneTurn(q, c) => OneTurn(q, c)'
      BY <1>30 DEF DeleteRows, OneTurn
    <2>2. \A q \in Requests : pc'[q] = "stream" => pc[q] = "stream" /\ mine'[q].on = mine[q].on
      BY <1>30 DEF DeleteRows, Fault, At
    <2>3. spoiled \subseteq spoiled'
      BY <1>30 DEF DeleteRows, Fault, At
    <2>4. QED
      BY <2>1, <2>2, <2>3, StreamedKept
  <1>31. CASE AskSweep
    <2>1. \A c \in Requests, q \in Requests : OneTurn(q, c) => OneTurn(q, c)'
      BY <1>31 DEF AskSweep, OneTurn
    <2>2. \A q \in Requests : pc'[q] = "stream" => pc[q] = "stream" /\ mine'[q].on = mine[q].on
      BY <1>31 DEF AskSweep, Begin
    <2>3. spoiled \subseteq spoiled'
      BY <1>31 DEF AskSweep
    <2>4. QED
      BY <2>1, <2>2, <2>3, StreamedKept
  <1>32. CASE Sweep
    <2>1. \A c \in Requests, q \in Requests : OneTurn(q, c) => OneTurn(q, c)'
      <3>1. \A c \in Requests : Spared(c)
        BY <1>32, EvictIs
      <3>2. QED
        BY <3>1, SparedKeeps DEF Spared
    <2>2. \A q \in Requests : pc'[q] = "stream" => pc[q] = "stream" /\ mine'[q].on = mine[q].on
      BY <1>32 DEF Sweep
    <2>3. spoiled \subseteq spoiled'
      BY <1>32 DEF Sweep
    <2>4. QED
      BY <2>1, <2>2, <2>3, StreamedKept
  <1>33. CASE OtherLocks
    <2>1. \A c \in Requests, q \in Requests : OneTurn(q, c) => OneTurn(q, c)'
      BY <1>33 DEF OtherLocks, OneTurn
    <2>2. \A q \in Requests : pc'[q] = "stream" => pc[q] = "stream" /\ mine'[q].on = mine[q].on
      BY <1>33 DEF OtherLocks, Begin
    <2>3. spoiled \subseteq spoiled'
      BY <1>33 DEF OtherLocks
    <2>4. QED
      BY <2>1, <2>2, <2>3, StreamedKept
  <1>34. CASE OtherUnlocks
    <2>1. \A c \in Requests, q \in Requests : OneTurn(q, c) => OneTurn(q, c)'
      BY <1>34 DEF OtherUnlocks, OneTurn
    <2>2. \A q \in Requests : pc'[q] = "stream" => pc[q] = "stream" /\ mine'[q].on = mine[q].on
      BY <1>34 DEF OtherUnlocks, HasLock, At
    <2>3. spoiled \subseteq spoiled'
      BY <1>34 DEF OtherUnlocks, HasLock, At
    <2>4. QED
      BY <2>1, <2>2, <2>3, StreamedKept
  <1>35. CASE TimePasses
    <2>1. \A c \in Requests, q \in Requests : OneTurn(q, c) => OneTurn(q, c)'
      BY <1>35 DEF TimePasses, OneTurn
    <2>2. \A q \in Requests : pc'[q] = "stream" => pc[q] = "stream" /\ mine'[q].on = mine[q].on
      BY <1>35 DEF TimePasses
    <2>3. spoiled \subseteq spoiled'
      BY <1>35 DEF TimePasses
    <2>4. QED
      BY <2>1, <2>2, <2>3, StreamedKept
  <1>36. CASE ServerRestarts
    <2>1. \A r \in Requests : pc'[r] # "stream"
      BY <1>36 DEF ServerRestarts
    <2>2. QED
      BY <2>1 DEF Streamed
  <1>37. CASE UNCHANGED vars
    BY <1>37 DEF vars, Streamed, OneTurn
  <1>38. QED
    BY <1>1, <1>2, <1>3, <1>4, <1>5, <1>6, <1>7, <1>8, <1>9, <1>10, <1>10a, <1>11,
       <1>12, <1>13, <1>13a, <1>14, <1>15, <1>16, <1>17, <1>17a, <1>18, <1>19, <1>20, <1>21,
       <1>22, <1>23, <1>24, <1>25, <1>26, <1>27, <1>28, <1>29, <1>30, <1>31,
       <1>32, <1>33, <1>34, <1>35, <1>36, <1>37
    DEF Next, Turn, Leave, Agent, Asks, Serves


(* What was heard so far is the turn's own, and what it hears next is.     *)
LEMMA HeardKept ==
    ASSUME OwnEventsOnly, spoiled \subseteq spoiled',
           \A q \in Requests : heard'[q] = {} \/ (heard'[q] = heard[q] /\ mine'[q].on = mine[q].on)
    PROVE  OwnEventsOnly'
  BY DEF OwnEventsOnly

(* The next event a turn passes on is its own.                             *)
LEMMA HeardStep ==
    ASSUME Orderly, Flags, Agents, Turns, Fifo, Wired, Unread, Streamed, OwnEventsOnly, [Next]_vars
    PROVE  OwnEventsOnly'
  <1> USE DEF Go, ghosts, Flags, Turns
  <1>1. ASSUME NEW r \in Requests, Post(r) PROVE OwnEventsOnly'
    <2>1. \A q \in Requests : heard'[q] = {} \/ (heard'[q] = heard[q] /\ mine'[q].on = mine[q].on)
      BY <1>1 DEF Post
    <2>2. spoiled \subseteq spoiled'
      BY <1>1 DEF Post
    <2>3. QED
      BY <2>1, <2>2, HeardKept
  <1>2. ASSUME NEW r \in Requests, Record(r) PROVE OwnEventsOnly'
    <2>1. \A q \in Requests : heard'[q] = {} \/ (heard'[q] = heard[q] /\ mine'[q].on = mine[q].on)
      BY <1>2 DEF Record
    <2>2. spoiled \subseteq spoiled'
      BY <1>2 DEF Record
    <2>3. QED
      BY <2>1, <2>2, HeardKept
  <1>3. ASSUME NEW r \in Requests, Reuse(r) PROVE OwnEventsOnly'
    <2>1. \A q \in Requests : heard'[q] = {} \/ (heard'[q] = heard[q] /\ mine'[q].on = mine[q].on)
      BY <1>3 DEF Reuse, Unread, Early
    <2>2. spoiled \subseteq spoiled'
      BY <1>3 DEF Reuse
    <2>3. QED
      BY <2>1, <2>2, HeardKept
  <1>4. ASSUME NEW r \in Requests, Connect(r) PROVE OwnEventsOnly'
    <2>1. \A q \in Requests : heard'[q] = {} \/ (heard'[q] = heard[q] /\ mine'[q].on = mine[q].on)
      BY <1>4 DEF Connect
    <2>2. spoiled \subseteq spoiled'
      BY <1>4 DEF Connect
    <2>3. QED
      BY <2>1, <2>2, HeardKept
  <1>5. ASSUME NEW r \in Requests, Connected(r) PROVE OwnEventsOnly'
    <2>1. \A q \in Requests : heard'[q] = {} \/ (heard'[q] = heard[q] /\ mine'[q].on = mine[q].on)
      BY <1>5 DEF Connected, Unread, Early
    <2>2. spoiled \subseteq spoiled'
      BY <1>5 DEF Connected
    <2>3. QED
      BY <2>1, <2>2, HeardKept
  <1>6. ASSUME NEW r \in Requests, ConnectFails(r) PROVE OwnEventsOnly'
    <2>1. \A q \in Requests : heard'[q] = {} \/ (heard'[q] = heard[q] /\ mine'[q].on = mine[q].on)
      BY <1>6 DEF ConnectFails, Fault
    <2>2. spoiled \subseteq spoiled'
      BY <1>6 DEF ConnectFails, Fault
    <2>3. QED
      BY <2>1, <2>2, HeardKept
  <1>7. ASSUME NEW r \in Requests, Replay(r) PROVE OwnEventsOnly'
    <2>1. \A q \in Requests : heard'[q] = {} \/ (heard'[q] = heard[q] /\ mine'[q].on = mine[q].on)
      BY <1>7 DEF Replay, Fault
    <2>2. spoiled \subseteq spoiled'
      BY <1>7 DEF Replay, Fault
    <2>3. QED
      BY <2>1, <2>2, HeardKept
  <1>8. ASSUME NEW r \in Requests, Deliver(r) PROVE OwnEventsOnly'
    <2>1. spoiled' = spoiled /\ heard' = heard
      BY <1>8 DEF Deliver
    <2>2. \/ mine' = [mine EXCEPT ![r].delivered = TRUE]
          \/ mine' = [mine EXCEPT ![r].error = "error"]
      BY <1>8 DEF Deliver
    <2>3. \A q \in Requests : mine'[q].on = mine[q].on
      BY <2>2
    <2>4. QED
      BY <2>1, <2>3, HeardKept
  <1>9. ASSUME NEW r \in Requests, Receive(r) PROVE OwnEventsOnly'
    <2>0. pc[r] = "stream" /\ mine[r].on \in Requests /\ DOMAIN heard = Requests
      BY <1>9 DEF Receive, Fifo, Unread
    <2>1. PICK c \in Requests : c = mine[r].on
      BY <2>0
    <2> DEFINE e == client[c].queue[1]
    <2>2. UNCHANGED spoiled /\ \A q \in Requests : mine'[q].on = mine[q].on
      BY <1>9, <2>0, <2>1, ReceiveIs
    <2>3. heard'[r] = heard[r] \cup {e.of} /\ \A q \in Requests \ {r} : heard'[q] = heard[q]
      <3>1. heard'[r] = heard[r] \cup {e.of}
        BY <1>9, <2>0, <2>1, ReceiveIs
      <3>2. \A q \in Requests \ {r} : heard'[q] = heard[q]
        BY <1>9 DEF Receive
      <3>3. QED
        BY <3>1, <3>2
    <2>4. ASSUME c \notin spoiled PROVE e.of = r
      <3>1. OneTurn(r, c)
        BY <2>0, <2>1, <2>4 DEF Streamed
      <3>2. client[c].queue # <<>> /\ client[c].queue \in Seq(Written)
        BY <1>9, <2>1 DEF Receive, Wired
      <3>3. 1 \in DOMAIN client[c].queue
        BY <3>2
      <3>4. QED
        BY <3>1, <3>3 DEF OneTurn
    <2>5. QED
      BY <2>1, <2>2, <2>3, <2>4 DEF OwnEventsOnly
  <1>10. ASSUME NEW r \in Requests, StreamBreaks(r) PROVE OwnEventsOnly'
    <2>1. \A q \in Requests : heard'[q] = {} \/ (heard'[q] = heard[q] /\ mine'[q].on = mine[q].on)
      BY <1>10 DEF StreamBreaks
    <2>2. spoiled \subseteq spoiled'
      BY <1>10 DEF StreamBreaks
    <2>3. QED
      BY <2>1, <2>2, HeardKept
  <1>10a. ASSUME NEW r \in Requests, GivesUp(r) PROVE OwnEventsOnly'
    <2>1. \A q \in Requests : heard'[q] = {} \/ (heard'[q] = heard[q] /\ mine'[q].on = mine[q].on)
      BY <1>10a DEF GivesUp
    <2>2. spoiled \subseteq spoiled'
      BY <1>10a DEF GivesUp
    <2>3. QED
      BY <2>1, <2>2, HeardKept
  <1>11. ASSUME NEW r \in Requests, Closing(r) PROVE OwnEventsOnly'
    <2>1. \A q \in Requests : heard'[q] = {} \/ (heard'[q] = heard[q] /\ mine'[q].on = mine[q].on)
      BY <1>11 DEF Closing
    <2>2. spoiled \subseteq spoiled'
      BY <1>11 DEF Closing
    <2>3. QED
      BY <2>1, <2>2, HeardKept
  <1>12. ASSUME NEW r \in Requests, Drop(r) PROVE OwnEventsOnly'
    <2>1. \A q \in Requests : heard'[q] = {} \/ (heard'[q] = heard[q] /\ mine'[q].on = mine[q].on)
      BY <1>12 DEF Drop
    <2>2. spoiled \subseteq spoiled'
      BY <1>12 DEF Drop
    <2>3. QED
      BY <2>1, <2>2, HeardKept
  <1>13. ASSUME NEW r \in Requests, DropTimesOut(r) PROVE OwnEventsOnly'
    <2>1. \A q \in Requests : heard'[q] = {} \/ (heard'[q] = heard[q] /\ mine'[q].on = mine[q].on)
      BY <1>13 DEF DropTimesOut
    <2>2. spoiled \subseteq spoiled'
      BY <1>13 DEF DropTimesOut
    <2>3. QED
      BY <2>1, <2>2, HeardKept
  <1>13a. ASSUME NEW r \in Requests, DropCutShort(r) PROVE OwnEventsOnly'
    <2>1. \A q \in Requests : heard'[q] = {} \/ (heard'[q] = heard[q] /\ mine'[q].on = mine[q].on)
      BY <1>13a DEF DropCutShort
    <2>2. spoiled \subseteq spoiled'
      BY <1>13a DEF DropCutShort
    <2>3. QED
      BY <2>1, <2>2, HeardKept
  <1>14. ASSUME NEW r \in Requests, Finish(r) PROVE OwnEventsOnly'
    <2>1. \A q \in Requests : heard'[q] = {} \/ (heard'[q] = heard[q] /\ mine'[q].on = mine[q].on)
      BY <1>14 DEF Finish, Fault
    <2>2. spoiled \subseteq spoiled'
      BY <1>14 DEF Finish, Fault
    <2>3. QED
      BY <2>1, <2>2, HeardKept
  <1>15. ASSUME NEW r \in Requests, Unclaim(r) PROVE OwnEventsOnly'
    <2>1. \A q \in Requests : heard'[q] = {} \/ (heard'[q] = heard[q] /\ mine'[q].on = mine[q].on)
      BY <1>15 DEF Unclaim, NewTurn, Unread
    <2>2. spoiled \subseteq spoiled'
      BY <1>15 DEF Unclaim, NewTurn
    <2>3. QED
      BY <2>1, <2>2, HeardKept
  <1>16. ASSUME NEW r \in Requests, LeaveUnstarted(r) PROVE OwnEventsOnly'
    <2>1. \A q \in Requests : heard'[q] = {} \/ (heard'[q] = heard[q] /\ mine'[q].on = mine[q].on)
      BY <1>16 DEF LeaveUnstarted
    <2>2. spoiled \subseteq spoiled'
      BY <1>16 DEF LeaveUnstarted
    <2>3. QED
      BY <2>1, <2>2, HeardKept
  <1>17. ASSUME NEW r \in Requests, LeaveRegistry(r) PROVE OwnEventsOnly'
    <2>1. \A q \in Requests : heard'[q] = {} \/ (heard'[q] = heard[q] /\ mine'[q].on = mine[q].on)
      BY <1>17 DEF LeaveRegistry, Interrupted
    <2>2. spoiled \subseteq spoiled'
      BY <1>17 DEF LeaveRegistry, Interrupted
    <2>3. QED
      BY <2>1, <2>2, HeardKept
  <1>17a. ASSUME NEW r \in Requests, LeaveSwitch(r) PROVE OwnEventsOnly'
    <2>1. \A q \in Requests : heard'[q] = {} \/ (heard'[q] = heard[q] /\ mine'[q].on = mine[q].on)
      BY <1>17a DEF LeaveSwitch, Interrupted
    <2>2. spoiled \subseteq spoiled'
      BY <1>17a DEF LeaveSwitch, Interrupted
    <2>3. QED
      BY <2>1, <2>2, HeardKept
  <1>18. ASSUME NEW r \in Requests, LeaveAgent(r) PROVE OwnEventsOnly'
    <2>1. \A q \in Requests : heard'[q] = {} \/ (heard'[q] = heard[q] /\ mine'[q].on = mine[q].on)
      BY <1>18 DEF LeaveAgent, Interrupted
    <2>2. spoiled \subseteq spoiled'
      BY <1>18 DEF LeaveAgent, Interrupted
    <2>3. QED
      BY <2>1, <2>2, HeardKept
  <1>19. ASSUME NEW r \in Requests, LeaveQuery(r) PROVE OwnEventsOnly'
    <2>1. \A q \in Requests : heard'[q] = {} \/ (heard'[q] = heard[q] /\ mine'[q].on = mine[q].on)
      BY <1>19 DEF LeaveQuery, Interrupted
    <2>2. spoiled \subseteq spoiled'
      BY <1>19 DEF LeaveQuery, Interrupted
    <2>3. QED
      BY <2>1, <2>2, HeardKept
  <1>20. ASSUME NEW r \in Requests, Say(r) PROVE OwnEventsOnly'
    <2>1. \A q \in Requests : heard'[q] = {} \/ (heard'[q] = heard[q] /\ mine'[q].on = mine[q].on)
      BY <1>20 DEF Say
    <2>2. spoiled \subseteq spoiled'
      BY <1>20 DEF Say
    <2>3. QED
      BY <2>1, <2>2, HeardKept
  <1>21. ASSUME NEW r \in Requests, Answer(r) PROVE OwnEventsOnly'
    <2>1. \A q \in Requests : heard'[q] = {} \/ (heard'[q] = heard[q] /\ mine'[q].on = mine[q].on)
      BY <1>21 DEF Answer
    <2>2. spoiled \subseteq spoiled'
      BY <1>21 DEF Answer
    <2>3. QED
      BY <2>1, <2>2, HeardKept
  <1>22. ASSUME NEW r \in Requests, Dies(r) PROVE OwnEventsOnly'
    <2>1. \A q \in Requests : heard'[q] = {} \/ (heard'[q] = heard[q] /\ mine'[q].on = mine[q].on)
      BY <1>22 DEF Dies
    <2>2. spoiled \subseteq spoiled'
      BY <1>22 DEF Dies
    <2>3. QED
      BY <2>1, <2>2, HeardKept
  <1>23. CASE AskClose
    <2>1. \A q \in Requests : heard'[q] = {} \/ (heard'[q] = heard[q] /\ mine'[q].on = mine[q].on)
      BY <1>23 DEF AskClose, Begin
    <2>2. spoiled \subseteq spoiled'
      BY <1>23 DEF AskClose, Begin
    <2>3. QED
      BY <2>1, <2>2, HeardKept
  <1>24. CASE AskRefresh
    <2>1. \A q \in Requests : heard'[q] = {} \/ (heard'[q] = heard[q] /\ mine'[q].on = mine[q].on)
      BY <1>24 DEF AskRefresh, Begin
    <2>2. spoiled \subseteq spoiled'
      BY <1>24 DEF AskRefresh, Begin
    <2>3. QED
      BY <2>1, <2>2, HeardKept
  <1>25. CASE CloseSession
    <2>1. \A q \in Requests : heard'[q] = {} \/ (heard'[q] = heard[q] /\ mine'[q].on = mine[q].on)
      BY <1>25 DEF CloseSession
    <2>2. spoiled \subseteq spoiled'
      BY <1>25 DEF CloseSession
    <2>3. QED
      BY <2>1, <2>2, HeardKept
  <1>26. CASE RefreshStarts
    <2>1. \A q \in Requests : heard'[q] = {} \/ (heard'[q] = heard[q] /\ mine'[q].on = mine[q].on)
      BY <1>26 DEF RefreshStarts
    <2>2. spoiled \subseteq spoiled'
      BY <1>26 DEF RefreshStarts
    <2>3. QED
      BY <2>1, <2>2, HeardKept
  <1>27. CASE RefreshEnds
    <2>1. \A q \in Requests : heard'[q] = {} \/ (heard'[q] = heard[q] /\ mine'[q].on = mine[q].on)
      BY <1>27 DEF RefreshEnds
    <2>2. spoiled \subseteq spoiled'
      BY <1>27 DEF RefreshEnds
    <2>3. QED
      BY <2>1, <2>2, HeardKept
  <1>28. CASE AskDelete
    <2>1. \A q \in Requests : heard'[q] = {} \/ (heard'[q] = heard[q] /\ mine'[q].on = mine[q].on)
      BY <1>28 DEF AskDelete, Begin
    <2>2. spoiled \subseteq spoiled'
      BY <1>28 DEF AskDelete, Begin
    <2>3. QED
      BY <2>1, <2>2, HeardKept
  <1>29. CASE DeleteDrops
    <2>1. \A q \in Requests : heard'[q] = {} \/ (heard'[q] = heard[q] /\ mine'[q].on = mine[q].on)
      BY <1>29 DEF DeleteDrops
    <2>2. spoiled \subseteq spoiled'
      BY <1>29 DEF DeleteDrops
    <2>3. QED
      BY <2>1, <2>2, HeardKept
  <1>30. CASE DeleteRows
    <2>1. \A q \in Requests : heard'[q] = {} \/ (heard'[q] = heard[q] /\ mine'[q].on = mine[q].on)
      BY <1>30 DEF DeleteRows
    <2>2. spoiled \subseteq spoiled'
      BY <1>30 DEF DeleteRows
    <2>3. QED
      BY <2>1, <2>2, HeardKept
  <1>31. CASE AskSweep
    <2>1. \A q \in Requests : heard'[q] = {} \/ (heard'[q] = heard[q] /\ mine'[q].on = mine[q].on)
      BY <1>31 DEF AskSweep, Begin
    <2>2. spoiled \subseteq spoiled'
      BY <1>31 DEF AskSweep, Begin
    <2>3. QED
      BY <2>1, <2>2, HeardKept
  <1>32. CASE Sweep
    <2>1. \A q \in Requests : heard'[q] = {} \/ (heard'[q] = heard[q] /\ mine'[q].on = mine[q].on)
      BY <1>32 DEF Sweep
    <2>2. spoiled \subseteq spoiled'
      BY <1>32 DEF Sweep
    <2>3. QED
      BY <2>1, <2>2, HeardKept
  <1>33. CASE OtherLocks
    <2>1. \A q \in Requests : heard'[q] = {} \/ (heard'[q] = heard[q] /\ mine'[q].on = mine[q].on)
      BY <1>33 DEF OtherLocks, Begin
    <2>2. spoiled \subseteq spoiled'
      BY <1>33 DEF OtherLocks, Begin
    <2>3. QED
      BY <2>1, <2>2, HeardKept
  <1>34. CASE OtherUnlocks
    <2>1. \A q \in Requests : heard'[q] = {} \/ (heard'[q] = heard[q] /\ mine'[q].on = mine[q].on)
      BY <1>34 DEF OtherUnlocks
    <2>2. spoiled \subseteq spoiled'
      BY <1>34 DEF OtherUnlocks
    <2>3. QED
      BY <2>1, <2>2, HeardKept
  <1>35. CASE TimePasses
    <2>1. \A q \in Requests : heard'[q] = {} \/ (heard'[q] = heard[q] /\ mine'[q].on = mine[q].on)
      BY <1>35 DEF TimePasses
    <2>2. spoiled \subseteq spoiled'
      BY <1>35 DEF TimePasses
    <2>3. QED
      BY <2>1, <2>2, HeardKept
  <1>36. CASE ServerRestarts
    <2>1. \A q \in Requests : heard'[q] = {} \/ (heard'[q] = heard[q] /\ mine'[q].on = mine[q].on)
      BY <1>36 DEF ServerRestarts
    <2>2. spoiled \subseteq spoiled'
      BY <1>36 DEF ServerRestarts
    <2>3. QED
      BY <2>1, <2>2, HeardKept
  <1>37. CASE UNCHANGED vars
    BY <1>37 DEF vars, OwnEventsOnly
  <1>38. QED
    BY <1>1, <1>2, <1>3, <1>4, <1>5, <1>6, <1>7, <1>8, <1>9, <1>10, <1>10a, <1>11,
       <1>12, <1>13, <1>13a, <1>14, <1>15, <1>16, <1>17, <1>17a, <1>18, <1>19, <1>20, <1>21,
       <1>22, <1>23, <1>24, <1>25, <1>26, <1>27, <1>28, <1>29, <1>30, <1>31,
       <1>32, <1>33, <1>34, <1>35, <1>36, <1>37
    DEF Next, Turn, Leave, Agent, Asks, Serves

-----------------------------------------------------------------------------
(* What an agent knows.  A turn that was answered was delivered to the     *)
(* agent it had, and an agent that was connected later was told of it, or  *)
(* goes with the turn that could not tell it.                              *)

TaughtOne(r) ==
    /\ pc[r] \in {"queued", "connecting"} => ~mine[r].fresh /\ ~mine[r].unsure
    /\ pc[r] = "deliver" /\ mine[r].fresh /\ ~mine[r].unsure => DoneTurns \subseteq mine[r].told
    /\ mine[r].delivered =>
          /\ mine[r].on \in Requests
          /\ client[mine[r].on].refreshed = TRUE \/ r \in client[mine[r].on].knows
    /\ mine[r].completed => mine[r].delivered
    /\ mine[r].row # 0 => rows[mine[r].row].by = r
    /\ (/\ pc[r] = "stream" /\ ~mine[r].unsure
        /\ mine[r].on \notin spoiled /\ ~client[mine[r].on].refreshed)
       => DoneTurns \subseteq client[mine[r].on].knows
Taught == \A r \in Requests : TaughtOne(r)

Untold(r) == /\ pc[r] \in {"replay", "deliver", "stream", "closing", "dropping"}
             /\ mine[r].unsure \/ (mine[r].fresh /\ ~mine[r].delivered)
Known ==
    reg # NoOne /\ reg \notin spoiled /\ client[reg].refreshed # TRUE =>
        DoneTurns \subseteq client[reg].knows \/ \E r \in Requests : mine[r].on = reg /\ Untold(r)

(* A step forgets nothing, or says that it did.                            *)
Remembers ==
    \A c \in Requests : \/ client[c].knows \subseteq client'[c].knows
                           /\ client'[c].refreshed = client[c].refreshed
                        \/ client'[c].refreshed = TRUE

(* A turn that stays where it is, or goes on to its end, as it is.         *)
GoesOn(q) ==
    /\ mine'[q].on = mine[q].on /\ mine'[q].fresh = mine[q].fresh /\ mine'[q].told = mine[q].told
    /\ mine'[q].delivered = mine[q].delivered /\ mine'[q].unsure = mine[q].unsure
    /\ mine'[q].row = mine[q].row /\ (mine'[q].completed => mine[q].completed \/ mine[q].delivered)
    /\ \/ pc'[q] = pc[q]
       \/ pc'[q] \notin {"queued", "connecting", "deliver", "stream"}
       \/ pc[q] = "queued" /\ pc'[q] = "connecting"

(* A step that answers nothing and forgets nothing keeps what each turn that*)
(* goes on was told, and what its agent knows.                             *)
LEMMA TaughtKept ==
    ASSUME Flags, Fifo, Own, Taught, Remembers, spoiled \subseteq spoiled',
           DoneTurns' \subseteq DoneTurns,
           \A i \in 1 .. Len(rows) : rows'[i].by = rows[i].by,
           \A q \in Requests : GoesOn(q) \/ TaughtOne(q)'
    PROVE  Taught'
  <1>1. SUFFICES ASSUME NEW q \in Requests, GoesOn(q) PROVE TaughtOne(q)'
    BY DEF Taught
  <1>2. TaughtOne(q)
    BY DEF Taught
  <1>3. /\ pc'[q] \in {"queued", "connecting"} => ~mine'[q].fresh /\ ~mine'[q].unsure
        /\ pc'[q] = "deliver" /\ mine'[q].fresh /\ ~mine'[q].unsure => DoneTurns' \subseteq mine'[q].told
        /\ mine'[q].completed => mine'[q].delivered
    BY <1>1, <1>2 DEF GoesOn, TaughtOne
  <1>4. mine'[q].delivered =>
           /\ mine'[q].on \in Requests
           /\ client'[mine'[q].on].refreshed = TRUE \/ q \in client'[mine'[q].on].knows
    BY <1>1, <1>2 DEF GoesOn, TaughtOne, Remembers
  <1>5. mine'[q].row # 0 => rows'[mine'[q].row].by = q
    <2>1. mine[q].row \in 0 .. Len(rows) /\ mine'[q].row = mine[q].row
      BY <1>1 DEF GoesOn, Own
    <2>2. mine[q].row # 0 => mine[q].row \in 1 .. Len(rows)
      BY <2>1
    <2>3. QED
      BY <1>2, <2>1, <2>2 DEF TaughtOne
  <1>6. ASSUME pc'[q] = "stream", ~mine'[q].unsure, mine'[q].on \notin spoiled',
               ~client'[mine'[q].on].refreshed
        PROVE  DoneTurns' \subseteq client'[mine'[q].on].knows
    <2>1. pc[q] = "stream" /\ ~mine[q].unsure /\ mine[q].on \notin spoiled /\ mine[q].on \in Requests
          /\ mine'[q].on = mine[q].on
      BY <1>1, <1>6 DEF GoesOn, Fifo
    <2>2. client[mine[q].on].knows \subseteq client'[mine[q].on].knows
          /\ client'[mine[q].on].refreshed = client[mine[q].on].refreshed
      BY <1>6, <2>1 DEF Remembers
    <2>3. ~client[mine[q].on].refreshed
      BY <1>6, <2>1, <2>2
    <2>4. DoneTurns \subseteq client[mine[q].on].knows
      BY <1>2, <2>1, <2>3 DEF TaughtOne
    <2>5. QED
      BY <2>1, <2>2, <2>4
  <1>7. QED
    BY <1>3, <1>4, <1>5, <1>6 DEF TaughtOne

(* A turn that is over, and one that has not begun, has nothing to say.    *)
LEMMA Blank ==
    ASSUME NEW q \in Requests, mine'[q] = NewTurn, pc'[q] \in {"idle", "over"}
    PROVE  TaughtOne(q)'
  BY DEF TaughtOne, NewTurn

(* The registered agent goes on knowing what was answered.                 *)
LEMMA KnownKept ==
    ASSUME Flags, Known, Remembers, UNCHANGED reg, spoiled \subseteq spoiled',
           DoneTurns' \subseteq DoneTurns,
           \A q \in Requests : Untold(q) => Untold(q)' /\ mine'[q].on = mine[q].on
    PROVE  Known'
  <1>1. SUFFICES ASSUME reg # NoOne, reg \notin spoiled', client'[reg].refreshed # TRUE
                 PROVE  \/ DoneTurns' \subseteq client'[reg].knows
                        \/ \E r \in Requests : mine'[r].on = reg /\ Untold(r)'
    BY DEF Known
  <1>2. reg \in Requests /\ reg \notin spoiled
    BY <1>1 DEF Flags
  <1>3. client[reg].knows \subseteq client'[reg].knows /\ client[reg].refreshed # TRUE
    BY <1>1, <1>2 DEF Remembers
  <1>4. CASE DoneTurns \subseteq client[reg].knows
    BY <1>3, <1>4
  <1>5. ASSUME NEW r \in Requests, mine[r].on = reg, Untold(r)
        PROVE  \E q \in Requests : mine'[q].on = reg /\ Untold(q)'
    BY <1>5
  <1>6. QED
    BY <1>1, <1>2, <1>3, <1>4, <1>5 DEF Known

(* Who takes an agent down does not make it forget.                        *)
LEMMA SparedRemember == ASSUME \A c \in Requests : Spared(c) PROVE Remembers
  BY DEF Spared, Remembers

(* A new row is not an answer yet, and the others stay what they are.      *)
LEMMA RecordIs ==
    ASSUME RowsTyped, NEW r \in Requests, NEW x, x = [by |-> r, status |-> "running"],
           rows' = Append(rows, x)
    PROVE  /\ DoneTurns' = DoneTurns /\ rows'[Len(rows) + 1].by = r
           /\ \A i \in 1 .. Len(rows) : rows'[i].by = rows[i].by
  <1>1. x.status # "done" /\ x \in Row /\ x.by = r
    BY DEF Row, Statuses
  <1>2. rows \in Seq(Row)
    BY DEF RowsTyped
  <1>3. /\ DOMAIN rows' = 1 .. (Len(rows) + 1) /\ rows'[Len(rows) + 1] = x
        /\ DOMAIN rows = 1 .. Len(rows) /\ \A i \in DOMAIN rows : rows'[i] = rows[i]
    BY <1>1, <1>2, Appended
  <1>4. Len(rows) \in Nat
    BY <1>2
  <1> HIDE DEF RowsTyped
  <1>5. DoneTurns' = DoneTurns
    <2>1. \A i \in DOMAIN rows' : i \in DOMAIN rows \/ i = Len(rows) + 1
      BY <1>3, <1>4
    <2>2. ASSUME NEW y \in DoneTurns' PROVE y \in DoneTurns
      <3>1. PICK i \in DOMAIN rows' : rows'[i].status = "done" /\ y = rows'[i].by
        BY <2>2 DEF DoneTurns
      <3>2. i \in DOMAIN rows
        BY <1>1, <1>3, <2>1, <3>1
      <3>3. QED
        BY <1>3, <3>1, <3>2 DEF DoneTurns
    <2>3. ASSUME NEW y \in DoneTurns PROVE y \in DoneTurns'
      <3>1. PICK i \in DOMAIN rows : rows[i].status = "done" /\ y = rows[i].by
        BY <2>3 DEF DoneTurns
      <3>2. i \in DOMAIN rows' /\ rows'[i] = rows[i]
        BY <1>3, <1>4, <3>1
      <3>3. QED
        BY <3>1, <3>2 DEF DoneTurns
    <2>4. QED
      BY <2>2, <2>3
  <1>6. QED
    BY <1>1, <1>3, <1>5

(* A turn whose row is finished is answered only if it was completed.      *)
LEMMA FinishIs ==
    ASSUME Flags, Turns, RowsTyped, Own, Taught, NEW r \in Requests, Finish(r)
    PROVE  /\ DoneTurns' \subseteq DoneTurns \cup {r}
           /\ ~mine[r].completed => DoneTurns' \subseteq DoneTurns
           /\ \A i \in 1 .. Len(rows) : rows'[i].by = rows[i].by
  <1> DEFINE k == mine[r].row
             s == StatusOf(mine[r])
  <1>1. /\ DOMAIN rows = 1 .. Len(rows) /\ Len(rows) \in Nat
        /\ \A i \in DOMAIN rows : DOMAIN rows[i] = {"by", "status"}
    <2>1. rows \in Seq(Row)
      BY DEF RowsTyped
    <2>2. DOMAIN rows = 1 .. Len(rows) /\ Len(rows) \in Nat /\ \A i \in DOMAIN rows : rows[i] \in Row
      BY <2>1
    <2>3. QED
      BY <2>2 DEF Row
  <1>2. CASE rows' = rows
    BY <1>2 DEF DoneTurns
  <1>3. CASE k \in DOMAIN rows /\ rows' = [rows EXCEPT ![k].status = s]
    <2>1. k # 0 /\ rows[k].by = r
      BY <1>1, <1>3 DEF Taught, TaughtOne
    <2>2. s = "done" => mine[r].completed
      BY DEF StatusOf, Turns
    <2> HIDE DEF k, s
    <2>3. /\ DOMAIN rows' = DOMAIN rows /\ rows'[k].status = s /\ rows'[k].by = rows[k].by
          /\ \A i \in DOMAIN rows \ {k} : rows'[i] = rows[i]
      BY <1>1, <1>3
    <2>4. ASSUME NEW y \in DoneTurns' PROVE y \in DoneTurns \/ (y = r /\ mine[r].completed)
      <3>1. PICK i \in DOMAIN rows' : rows'[i].status = "done" /\ y = rows'[i].by
        BY <2>4 DEF DoneTurns
      <3>2. CASE i = k
        BY <2>1, <2>2, <2>3, <3>1, <3>2
      <3>3. CASE i # k
        BY <2>3, <3>1, <3>3 DEF DoneTurns
      <3>4. QED
        BY <3>2, <3>3
    <2>5. \A i \in 1 .. Len(rows) : rows'[i].by = rows[i].by
      BY <1>1, <2>3
    <2>6. QED
      BY <2>4, <2>5
  <1>4. QED
    BY <1>2, <1>3 DEF Finish

(* A prompt adds to what its agent knows.                                  *)
LEMMA SentRemembers ==
    ASSUME Agents, Wired, NEW r \in Requests, NEW quiet \in BOOLEAN, mine[r].on \in Requests,
           client' = Sent(r, quiet)
    PROVE  Remembers
  <1> DEFINE c == mine[r].on
  <1>1. /\ \A d \in Requests \ {c} : client'[d] = client[d]
        /\ client'[c].refreshed = client[c].refreshed
        /\ client'[c].knows = client[c].knows \cup mine[r].told \cup {r}
    BY SentIs
  <1>2. QED
    BY <1>1 DEF Remembers

(* A prompt that is delivered finds, or brings, what was answered before.  *)
LEMMA TaughtStep ==
    ASSUME Flags, Agents, Turns, Claims, Alive, RowsTyped, Fifo, Wired, Own,
           Placed, Unread, Taught, Known, [Next]_vars
    PROVE  Taught'
  <1> USE DEF Go, ghosts, Flags, Turns
  <1>1. ASSUME NEW r \in Requests, Post(r) PROVE Taught'
    <2>1. Remembers
      BY <1>1 DEF Post, Remembers
    <2>2. spoiled \subseteq spoiled' /\ rows' = rows
      BY <1>1 DEF Post
    <2>3. DoneTurns' \subseteq DoneTurns
      BY <2>2 DEF DoneTurns
    <2>4. \A q \in Requests : GoesOn(q)
      BY <1>1 DEF Post, GoesOn
    <2>5. QED
      BY <2>1, <2>2, <2>3, <2>4, TaughtKept
  <1>2. ASSUME NEW r \in Requests, Record(r) PROVE Taught'
    <2>1. Remembers
      BY <1>2 DEF Record, Remembers
    <2>2. spoiled \subseteq spoiled'
      BY <1>2 DEF Record
    <2>a. rows' = rows \/ rows' = Append(rows, [by |-> r, status |-> "running"])
      BY <1>2 DEF Record
    <2>3. DoneTurns' \subseteq DoneTurns /\ \A i \in 1 .. Len(rows) : rows'[i].by = rows[i].by
      <3>1. CASE rows' = rows
        BY <3>1 DEF DoneTurns
      <3>2. CASE rows' = Append(rows, [by |-> r, status |-> "running"])
        BY <3>2, RecordIs
      <3>3. QED
        BY <2>a, <3>1, <3>2
    <2>4. \A q \in Requests \ {r} : GoesOn(q)
      BY <1>2 DEF Record, GoesOn
    <2>5. TaughtOne(r)'
      <3>1. mine[r] = NewTurn /\ pc'[r] = "queued"
        BY <1>2 DEF Record, Own
      <3>2. \/ mine'[r] = mine[r]
            \/ mine'[r] = [NewTurn EXCEPT !.row = Len(rows) + 1] /\ rows'[Len(rows) + 1].by = r
        BY <1>2, <2>a, <3>1, RecordIs DEF Record
      <3>3. QED
        BY <3>1, <3>2 DEF TaughtOne, NewTurn
    <2>6. QED
      BY <2>1, <2>2, <2>3, <2>4, <2>5, TaughtKept
  <1>3. ASSUME NEW r \in Requests, Reuse(r) PROVE Taught'
    <2>1. Remembers
      BY <1>3 DEF Reuse, Remembers
    <2>2. spoiled \subseteq spoiled' /\ rows' = rows
      BY <1>3 DEF Reuse
    <2>3. DoneTurns' \subseteq DoneTurns
      BY <2>2 DEF DoneTurns
    <2>4. \A q \in Requests \ {r} : GoesOn(q)
      BY <1>3 DEF Reuse, GoesOn
    <2>5. TaughtOne(r)'
      <3>1. /\ pc[r] = "queued" /\ pc' = [pc EXCEPT ![r] = "deliver"]
            /\ mine' = [mine EXCEPT ![r].on = reg]
        BY <1>3 DEF Reuse
      <3>2. ~mine[r].fresh /\ ~mine[r].delivered /\ ~mine[r].completed
            /\ (mine[r].row # 0 => rows[mine[r].row].by = r)
        BY <3>1 DEF Taught, TaughtOne, Unread, Early
      <3>3. pc'[r] = "deliver" /\ ~mine'[r].fresh /\ ~mine'[r].delivered /\ ~mine'[r].completed
            /\ mine'[r].row = mine[r].row
        BY <3>1, <3>2
      <3>4. QED
        BY <2>2, <3>2, <3>3 DEF TaughtOne
    <2>6. QED
      BY <2>1, <2>2, <2>3, <2>4, <2>5, TaughtKept
  <1>4. ASSUME NEW r \in Requests, Connect(r) PROVE Taught'
    <2>1. Remembers
      BY <1>4, ConnectIs, SparedRemember DEF Connect, Unread, Early
    <2>2. spoiled \subseteq spoiled' /\ rows' = rows
      BY <1>4 DEF Connect
    <2>3. DoneTurns' \subseteq DoneTurns
      BY <2>2 DEF DoneTurns
    <2>4. \A q \in Requests : GoesOn(q)
      BY <1>4 DEF Connect, GoesOn
    <2>5. QED
      BY <2>1, <2>2, <2>3, <2>4, TaughtKept
  <1>5. ASSUME NEW r \in Requests, Connected(r) PROVE Taught'
    <2>1. Remembers
      BY <1>5, ConnectedIs DEF Remembers
    <2>2. spoiled \subseteq spoiled' /\ rows' = rows
      BY <1>5 DEF Connected
    <2>3. DoneTurns' \subseteq DoneTurns
      BY <2>2 DEF DoneTurns
    <2>4. \A q \in Requests \ {r} : GoesOn(q)
      BY <1>5 DEF Connected, GoesOn
    <2>5. TaughtOne(r)'
      <3>1. /\ pc[r] = "connecting" /\ pc' = [pc EXCEPT ![r] = "replay"]
            /\ mine' = [mine EXCEPT ![r] = [mine[r] EXCEPT !.on = r, !.fresh = TRUE]]
        BY <1>5 DEF Connected
      <3>2. ~mine[r].delivered /\ ~mine[r].completed /\ (mine[r].row # 0 => rows[mine[r].row].by = r)
        BY <3>1 DEF Taught, TaughtOne, Unread, Early
      <3>3. pc'[r] = "replay" /\ ~mine'[r].delivered /\ ~mine'[r].completed
            /\ mine'[r].row = mine[r].row
        BY <3>1, <3>2
      <3>4. QED
        BY <2>2, <3>2, <3>3 DEF TaughtOne
    <2>6. QED
      BY <2>1, <2>2, <2>3, <2>4, <2>5, TaughtKept
  <1>6. ASSUME NEW r \in Requests, ConnectFails(r) PROVE Taught'
    <2>1. Remembers
      BY <1>6, EvictIs, SparedRemember
    <2>2. spoiled \subseteq spoiled' /\ rows' = rows
      BY <1>6 DEF ConnectFails, Fault
    <2>3. DoneTurns' \subseteq DoneTurns
      BY <2>2 DEF DoneTurns
    <2>4. \A q \in Requests : GoesOn(q)
      BY <1>6 DEF ConnectFails, Fault, GoesOn
    <2>5. QED
      BY <2>1, <2>2, <2>3, <2>4, TaughtKept
  <1>7. ASSUME NEW r \in Requests, Replay(r) PROVE Taught'
    <2>1. Remembers
      BY <1>7 DEF Replay, Remembers
    <2>2. spoiled \subseteq spoiled' /\ rows' = rows
      BY <1>7 DEF Replay, Fault
    <2>3. DoneTurns' \subseteq DoneTurns
      BY <2>2 DEF DoneTurns
    <2>4. \A q \in Requests \ {r} : GoesOn(q)
      BY <1>7 DEF Replay, Fault, GoesOn
    <2>5. TaughtOne(r)'
      <3>1. pc[r] = "replay" /\ pc' = [pc EXCEPT ![r] = "deliver"]
        BY <1>7 DEF Replay
      <3>2. ~mine[r].delivered /\ ~mine[r].completed /\ (mine[r].row # 0 => rows[mine[r].row].by = r)
        BY <3>1 DEF Taught, TaughtOne, Unread, Early
      <3>3. mine' = [mine EXCEPT ![r].told = DoneTurns] \/ mine' = [mine EXCEPT ![r].unsure = TRUE]
        BY <1>7 DEF Replay
      <3>4. /\ pc'[r] = "deliver" /\ ~mine'[r].delivered /\ ~mine'[r].completed
            /\ mine'[r].row = mine[r].row
            /\ mine'[r].unsure = TRUE \/ DoneTurns' \subseteq mine'[r].told
        BY <2>3, <3>1, <3>2, <3>3
      <3>5. QED
        BY <2>2, <3>2, <3>4 DEF TaughtOne
    <2>6. QED
      BY <2>1, <2>2, <2>3, <2>4, <2>5, TaughtKept
  <1>8. ASSUME NEW r \in Requests, Deliver(r) PROVE Taught'
    <2>2. spoiled \subseteq spoiled' /\ rows' = rows /\ pc[r] = "deliver"
      BY <1>8 DEF Deliver
    <2>3. DoneTurns' = DoneTurns
      BY <2>2 DEF DoneTurns
    <2>a. CASE client[mine[r].on].at # "up"
      <3>1. client' = client /\ mine' = [mine EXCEPT ![r].error = "error"]
            /\ pc' = [pc EXCEPT ![r] = "closing"]
        BY <1>8, <2>a DEF Deliver
      <3>2. Remembers /\ \A q \in Requests : GoesOn(q)
        BY <3>1 DEF Remembers, GoesOn
      <3>3. QED
        BY <2>2, <2>3, <3>2, TaughtKept
    <2>b. CASE client[mine[r].on].at = "up"
      <3>1. PICK c \in Requests : c = mine[r].on
        BY <1>8 DEF Deliver, Fifo
      <3>2. /\ client' = Sent(r, FALSE) /\ mine' = [mine EXCEPT ![r].delivered = TRUE]
            /\ pc' = [pc EXCEPT ![r] = "stream"]
        BY <1>8, <2>b DEF Deliver
      <3>3. Remembers
        BY <3>1, <3>2, SentRemembers
      <3>4. \A q \in Requests \ {r} : GoesOn(q)
        BY <3>2 DEF GoesOn
      <3>5. /\ client'[c].knows = client[c].knows \cup mine[r].told \cup {r}
            /\ client'[c].refreshed = client[c].refreshed
        BY <3>1, <3>2, SentIs
      <3>6. /\ mine'[r].on = c /\ mine'[r].row = mine[r].row /\ mine'[r].delivered = TRUE
            /\ pc'[r] = "stream" /\ mine'[r].unsure = mine[r].unsure
        BY <3>1, <3>2
      <3>7. ASSUME ~mine[r].unsure, c \notin spoiled, ~client[c].refreshed
            PROVE  DoneTurns \subseteq client[c].knows \cup mine[r].told
        <4>1. reg = c /\ reg # NoOne
          <5>1. pc[c] # "connecting"
            BY <3>1, ChatAssumption DEF Placed, Early
          <5>2. QED
            BY <2>b, <3>1, <5>1, ChatAssumption DEF Alive
        <4>2. \A q \in Requests : Untold(q) => q = r
          BY <2>2 DEF Untold, Claims
        <4>3. CASE DoneTurns \subseteq client[c].knows
          BY <4>3
        <4>4. CASE ~(DoneTurns \subseteq client[c].knows)
          <5>1. Untold(r)
            BY <3>7, <4>1, <4>2, <4>4 DEF Known
          <5>2. mine[r].fresh
            BY <3>7, <5>1 DEF Untold
          <5>3. DoneTurns \subseteq mine[r].told
            BY <2>2, <3>7, <5>2 DEF Taught, TaughtOne
          <5>4. QED
            BY <5>3
        <4>5. QED
          BY <4>3, <4>4
      <3>8. TaughtOne(r)'
        <4>1. mine[r].row # 0 => rows[mine[r].row].by = r
          BY DEF Taught, TaughtOne
        <4>2. r \in client'[c].knows
          BY <3>5
        <4>3. (~mine'[r].unsure /\ c \notin spoiled' /\ ~client'[c].refreshed)
                 => DoneTurns' \subseteq client'[c].knows
          BY <2>2, <2>3, <3>5, <3>6, <3>7
        <4>4. QED
          BY <2>2, <3>6, <4>1, <4>2, <4>3 DEF TaughtOne
      <3>9. QED
        BY <2>2, <2>3, <3>3, <3>4, <3>8, TaughtKept
    <2>4. QED
      BY <2>a, <2>b
  <1>9. ASSUME NEW r \in Requests, Receive(r) PROVE Taught'
    <2>0. pc[r] = "stream" /\ mine[r].on \in Requests /\ DOMAIN heard = Requests /\ mine[r].delivered
      BY <1>9 DEF Receive, Fifo, Unread
    <2> DEFINE d == mine[r].on
    <2>a. /\ \A c \in Requests \ {d} : client'[c] = client[c]
          /\ client'[d].knows = client[d].knows /\ client'[d].refreshed = client[d].refreshed
      BY <1>9, <2>0, ReceiveIs
    <2>1. Remembers
      BY <2>0, <2>a DEF Remembers
    <2>2. spoiled \subseteq spoiled' /\ rows' = rows
      BY <1>9 DEF Receive
    <2>3. DoneTurns' \subseteq DoneTurns
      BY <2>2 DEF DoneTurns
    <2>b. /\ \A q \in Requests :
                /\ mine'[q].on = mine[q].on /\ mine'[q].fresh = mine[q].fresh
                /\ mine'[q].told = mine[q].told /\ mine'[q].delivered = mine[q].delivered
                /\ mine'[q].unsure = mine[q].unsure /\ mine'[q].row = mine[q].row
                /\ q # r => mine'[q] = mine[q]
      BY <1>9, <2>0, ReceiveIs
    <2>c. pc' = pc \/ pc' = [pc EXCEPT ![r] = "closing"]
      BY <1>9 DEF Receive
    <2>4. \A q \in Requests : GoesOn(q)
      BY <2>0, <2>b, <2>c DEF GoesOn
    <2>5. QED
      BY <2>1, <2>2, <2>3, <2>4, TaughtKept
  <1>10. ASSUME NEW r \in Requests, StreamBreaks(r) PROVE Taught'
    <2>1. Remembers
      BY <1>10 DEF StreamBreaks, Remembers
    <2>2. spoiled \subseteq spoiled' /\ rows' = rows
      BY <1>10 DEF StreamBreaks
    <2>3. DoneTurns' \subseteq DoneTurns
      BY <2>2 DEF DoneTurns
    <2>4. \A q \in Requests : GoesOn(q)
      <3>1. pc[r] = "stream" /\ pc' = [pc EXCEPT ![r] = "closing"] /\ mine[r].delivered
        BY <1>10 DEF StreamBreaks, Unread
      <3>2. CASE mine' = [mine EXCEPT ![r].completed = Settled(r)]
        BY <3>1, <3>2 DEF GoesOn
      <3>3. CASE mine' = [mine EXCEPT ![r].error = "error"]
        BY <3>1, <3>3 DEF GoesOn
      <3>4. QED
        BY <1>10, <3>2, <3>3 DEF StreamBreaks
    <2>5. QED
      BY <2>1, <2>2, <2>3, <2>4, TaughtKept
  <1>10a. ASSUME NEW r \in Requests, GivesUp(r) PROVE Taught'
    <2>1. Remembers
      BY <1>10a DEF GivesUp, Remembers
    <2>2. spoiled \subseteq spoiled' /\ rows' = rows
      BY <1>10a DEF GivesUp
    <2>3. DoneTurns' \subseteq DoneTurns
      BY <2>2 DEF DoneTurns
    <2>4. \A q \in Requests : GoesOn(q)
      <3>1. pc[r] = "stream" /\ pc' = [pc EXCEPT ![r] = "closing"] /\ mine[r].delivered
        BY <1>10a DEF GivesUp, Unread
      <3>2. CASE mine' = [mine EXCEPT ![r].completed = Settled(r)]
        BY <3>1, <3>2 DEF GoesOn
      <3>3. CASE mine' = [mine EXCEPT ![r].error = "error"]
        BY <3>1, <3>3 DEF GoesOn
      <3>4. QED
        BY <1>10a, <3>2, <3>3 DEF GivesUp
    <2>5. QED
      BY <2>1, <2>2, <2>3, <2>4, TaughtKept
  <1>11. ASSUME NEW r \in Requests, Closing(r) PROVE Taught'
    <2>1. Remembers
      BY <1>11 DEF Closing, Remembers
    <2>2. spoiled \subseteq spoiled' /\ rows' = rows
      BY <1>11 DEF Closing
    <2>3. DoneTurns' \subseteq DoneTurns
      BY <2>2 DEF DoneTurns
    <2>4. \A q \in Requests : GoesOn(q)
      BY <1>11 DEF Closing, GoesOn
    <2>5. QED
      BY <2>1, <2>2, <2>3, <2>4, TaughtKept
  <1>12. ASSUME NEW r \in Requests, Drop(r) PROVE Taught'
    <2>1. Remembers
      BY <1>12, EvictIs, SparedRemember
    <2>2. spoiled \subseteq spoiled' /\ rows' = rows
      BY <1>12 DEF Drop
    <2>3. DoneTurns' \subseteq DoneTurns
      BY <2>2 DEF DoneTurns
    <2>4. \A q \in Requests : GoesOn(q)
      BY <1>12 DEF Drop, GoesOn
    <2>5. QED
      BY <2>1, <2>2, <2>3, <2>4, TaughtKept
  <1>13. ASSUME NEW r \in Requests, DropTimesOut(r) PROVE Taught'
    <2>1. Remembers
      BY <1>13 DEF DropTimesOut, Remembers
    <2>2. spoiled \subseteq spoiled' /\ rows' = rows
      BY <1>13 DEF DropTimesOut
    <2>3. DoneTurns' \subseteq DoneTurns
      BY <2>2 DEF DoneTurns
    <2>4. \A q \in Requests : GoesOn(q)
      BY <1>13 DEF DropTimesOut, GoesOn
    <2>5. QED
      BY <2>1, <2>2, <2>3, <2>4, TaughtKept
  <1>13a. ASSUME NEW r \in Requests, DropCutShort(r) PROVE Taught'
    <2>1. Remembers
      BY <1>13a, EvictIs, SparedRemember
    <2>2. spoiled \subseteq spoiled' /\ rows' = rows
      BY <1>13a DEF DropCutShort
    <2>3. DoneTurns' \subseteq DoneTurns
      BY <2>2 DEF DoneTurns
    <2>4. \A q \in Requests : GoesOn(q)
      BY <1>13a DEF DropCutShort, GoesOn
    <2>5. QED
      BY <2>1, <2>2, <2>3, <2>4, TaughtKept
  <1>14. ASSUME NEW r \in Requests, Finish(r) PROVE Taught'
    <2>1. pc[r] = "finish" /\ pc' = [pc EXCEPT ![r] = "release"] /\ UNCHANGED <<mine, client>>
      BY <1>14 DEF Finish
    <2>2. ASSUME NEW q \in Requests \ {r} PROVE TaughtOne(q)'
      <3>1. pc[q] \in {"idle", "over"}
        BY <2>1 DEF Claims
      <3>2. mine'[q] = NewTurn /\ pc'[q] \in {"idle", "over"}
        BY <2>1, <3>1 DEF Own
      <3>3. QED
        BY <3>2, Blank
    <2>3. TaughtOne(r)'
      <3>1. TaughtOne(r) /\ mine[r].row \in 0 .. Len(rows)
        BY DEF Taught, Own
      <3>2. mine[r].row # 0 => mine[r].row \in 1 .. Len(rows)
        BY <3>1
      <3>3. \A i \in 1 .. Len(rows) : rows'[i].by = rows[i].by
        BY <1>14, FinishIs
      <3>4. pc'[r] = "release"
        BY <2>1
      <3>5. QED
        BY <2>1, <3>1, <3>2, <3>3, <3>4 DEF TaughtOne
    <2>4. QED
      BY <2>2, <2>3 DEF Taught
  <1>15. ASSUME NEW r \in Requests, Unclaim(r) PROVE Taught'
    <2>1. Remembers
      BY <1>15 DEF Unclaim, Remembers
    <2>2. spoiled \subseteq spoiled' /\ rows' = rows
      BY <1>15 DEF Unclaim
    <2>3. DoneTurns' \subseteq DoneTurns
      BY <2>2 DEF DoneTurns
    <2>4. \A q \in Requests \ {r} : GoesOn(q)
      BY <1>15 DEF Unclaim, GoesOn
    <2>5. TaughtOne(r)'
      <3>1. mine'[r] = NewTurn /\ pc'[r] = "over"
        BY <1>15 DEF Unclaim
      <3>2. QED
        BY <3>1, Blank
    <2>6. QED
      BY <2>1, <2>2, <2>3, <2>4, <2>5, TaughtKept
  <1>16. ASSUME NEW r \in Requests, LeaveUnstarted(r) PROVE Taught'
    <2>1. Remembers
      BY <1>16 DEF LeaveUnstarted, Remembers
    <2>2. spoiled \subseteq spoiled' /\ rows' = rows
      BY <1>16 DEF LeaveUnstarted
    <2>3. DoneTurns' \subseteq DoneTurns
      BY <2>2 DEF DoneTurns
    <2>4. \A q \in Requests : GoesOn(q)
      BY <1>16 DEF LeaveUnstarted, GoesOn
    <2>5. QED
      BY <2>1, <2>2, <2>3, <2>4, TaughtKept
  <1>17. ASSUME NEW r \in Requests, LeaveRegistry(r) PROVE Taught'
    <2>1. Remembers
      BY <1>17, EvictIs, SparedRemember
    <2>2. spoiled \subseteq spoiled' /\ rows' = rows
      BY <1>17 DEF LeaveRegistry, Interrupted
    <2>3. DoneTurns' \subseteq DoneTurns
      BY <2>2 DEF DoneTurns
    <2>4. \A q \in Requests : GoesOn(q)
      BY <1>17 DEF LeaveRegistry, Interrupted, GoesOn
    <2>5. QED
      BY <2>1, <2>2, <2>3, <2>4, TaughtKept
  <1>17a. ASSUME NEW r \in Requests, LeaveSwitch(r) PROVE Taught'
    <2>1. Remembers
      BY <1>17a, EvictIs, SparedRemember
    <2>2. spoiled \subseteq spoiled' /\ rows' = rows
      BY <1>17a DEF LeaveSwitch, Interrupted
    <2>3. DoneTurns' \subseteq DoneTurns
      BY <2>2 DEF DoneTurns
    <2>4. \A q \in Requests : GoesOn(q)
      BY <1>17a DEF LeaveSwitch, Interrupted, GoesOn
    <2>5. QED
      BY <2>1, <2>2, <2>3, <2>4, TaughtKept
  <1>18. ASSUME NEW r \in Requests, LeaveAgent(r) PROVE Taught'
    <2>1. Remembers
      BY <1>18 DEF LeaveAgent, Remembers
    <2>2. spoiled \subseteq spoiled' /\ rows' = rows
      BY <1>18 DEF LeaveAgent, Interrupted
    <2>3. DoneTurns' \subseteq DoneTurns
      BY <2>2 DEF DoneTurns
    <2>4. \A q \in Requests : GoesOn(q)
      BY <1>18 DEF LeaveAgent, Interrupted, GoesOn
    <2>5. QED
      BY <2>1, <2>2, <2>3, <2>4, TaughtKept
  <1>19. ASSUME NEW r \in Requests, LeaveQuery(r) PROVE Taught'
    <2>1. Remembers
      BY <1>19, SentRemembers DEF LeaveQuery, Fifo
    <2>2. spoiled \subseteq spoiled' /\ rows' = rows
      BY <1>19 DEF LeaveQuery, Interrupted
    <2>3. DoneTurns' \subseteq DoneTurns
      BY <2>2 DEF DoneTurns
    <2>4. \A q \in Requests : GoesOn(q)
      BY <1>19 DEF LeaveQuery, Interrupted, GoesOn
    <2>5. QED
      BY <2>1, <2>2, <2>3, <2>4, TaughtKept
  <1>20. ASSUME NEW r \in Requests, Say(r) PROVE Taught'
    <2>1. Remembers
      BY <1>20, SayIs DEF Remembers
    <2>2. spoiled \subseteq spoiled' /\ rows' = rows
      BY <1>20 DEF Say
    <2>3. DoneTurns' \subseteq DoneTurns
      BY <2>2 DEF DoneTurns
    <2>4. \A q \in Requests : GoesOn(q)
      BY <1>20 DEF Say, GoesOn
    <2>5. QED
      BY <2>1, <2>2, <2>3, <2>4, TaughtKept
  <1>21. ASSUME NEW r \in Requests, Answer(r) PROVE Taught'
    <2>1. Remembers
      BY <1>21, AnswerIs DEF Remembers
    <2>2. spoiled \subseteq spoiled' /\ rows' = rows
      BY <1>21 DEF Answer
    <2>3. DoneTurns' \subseteq DoneTurns
      BY <2>2 DEF DoneTurns
    <2>4. \A q \in Requests : GoesOn(q)
      BY <1>21 DEF Answer, GoesOn
    <2>5. QED
      BY <2>1, <2>2, <2>3, <2>4, TaughtKept
  <1>22. ASSUME NEW r \in Requests, Dies(r) PROVE Taught'
    <2>1. Remembers
      BY <1>22, DiesIs DEF Remembers
    <2>2. spoiled \subseteq spoiled' /\ rows' = rows
      BY <1>22 DEF Dies
    <2>3. DoneTurns' \subseteq DoneTurns
      BY <2>2 DEF DoneTurns
    <2>4. \A q \in Requests : GoesOn(q)
      BY <1>22 DEF Dies, GoesOn
    <2>5. QED
      BY <2>1, <2>2, <2>3, <2>4, TaughtKept
  <1>23. CASE AskClose
    <2>1. Remembers
      BY <1>23 DEF AskClose, Remembers
    <2>2. spoiled \subseteq spoiled' /\ rows' = rows
      BY <1>23 DEF AskClose, Begin
    <2>3. DoneTurns' \subseteq DoneTurns
      BY <2>2 DEF DoneTurns
    <2>4. \A q \in Requests : GoesOn(q)
      BY <1>23 DEF AskClose, Begin, GoesOn
    <2>5. QED
      BY <2>1, <2>2, <2>3, <2>4, TaughtKept
  <1>24. CASE AskRefresh
    <2>1. Remembers
      BY <1>24 DEF AskRefresh, Remembers
    <2>2. spoiled \subseteq spoiled' /\ rows' = rows
      BY <1>24 DEF AskRefresh, Begin
    <2>3. DoneTurns' \subseteq DoneTurns
      BY <2>2 DEF DoneTurns
    <2>4. \A q \in Requests : GoesOn(q)
      BY <1>24 DEF AskRefresh, Begin, GoesOn
    <2>5. QED
      BY <2>1, <2>2, <2>3, <2>4, TaughtKept
  <1>25. CASE CloseSession
    <2>1. Remembers
      BY <1>25, EvictIs, SparedRemember
    <2>2. spoiled \subseteq spoiled' /\ rows' = rows
      BY <1>25 DEF CloseSession
    <2>3. DoneTurns' \subseteq DoneTurns
      BY <2>2 DEF DoneTurns
    <2>4. \A q \in Requests : GoesOn(q)
      BY <1>25 DEF CloseSession, GoesOn
    <2>5. QED
      BY <2>1, <2>2, <2>3, <2>4, TaughtKept
  <1>26. CASE RefreshStarts
    <2>1. Remembers
      BY <1>26, EvictIs, SparedRemember
    <2>2. spoiled \subseteq spoiled' /\ rows' = rows
      BY <1>26 DEF RefreshStarts
    <2>3. DoneTurns' \subseteq DoneTurns
      BY <2>2 DEF DoneTurns
    <2>4. \A q \in Requests : GoesOn(q)
      BY <1>26 DEF RefreshStarts, GoesOn
    <2>5. QED
      BY <2>1, <2>2, <2>3, <2>4, TaughtKept
  <1>27. CASE RefreshEnds
    <2>1. Remembers
      BY <1>27, RefreshIs DEF Remembers
    <2>2. spoiled \subseteq spoiled' /\ rows' = rows
      BY <1>27 DEF RefreshEnds
    <2>3. DoneTurns' \subseteq DoneTurns
      BY <2>2 DEF DoneTurns
    <2>4. \A q \in Requests : GoesOn(q)
      BY <1>27 DEF RefreshEnds, GoesOn
    <2>5. QED
      BY <2>1, <2>2, <2>3, <2>4, TaughtKept
  <1>28. CASE AskDelete
    <2>1. Remembers
      BY <1>28 DEF AskDelete, Remembers
    <2>2. spoiled \subseteq spoiled' /\ rows' = rows
      BY <1>28 DEF AskDelete, Begin
    <2>3. DoneTurns' \subseteq DoneTurns
      BY <2>2 DEF DoneTurns
    <2>4. \A q \in Requests : GoesOn(q)
      BY <1>28 DEF AskDelete, Begin, GoesOn
    <2>5. QED
      BY <2>1, <2>2, <2>3, <2>4, TaughtKept
  <1>29. CASE DeleteDrops
    <2>1. Remembers
      BY <1>29, EvictIs, SparedRemember
    <2>2. spoiled \subseteq spoiled' /\ rows' = rows
      BY <1>29 DEF DeleteDrops
    <2>3. DoneTurns' \subseteq DoneTurns
      BY <2>2 DEF DoneTurns
    <2>4. \A q \in Requests : GoesOn(q)
      BY <1>29 DEF DeleteDrops, GoesOn
    <2>5. QED
      BY <2>1, <2>2, <2>3, <2>4, TaughtKept
  <1>30. CASE DeleteRows
    <2>1. \A q \in Requests : pc[q] \in {"idle", "over"}
      BY <1>30, ChatAssumption DEF DeleteRows, Claims, Ops
    <2>2. \A q \in Requests : mine'[q] = NewTurn /\ pc'[q] \in {"idle", "over"}
      BY <1>30, <2>1 DEF DeleteRows, Own
    <2>3. QED
      BY <2>2, Blank DEF Taught
  <1>31. CASE AskSweep
    <2>1. Remembers
      BY <1>31 DEF AskSweep, Remembers
    <2>2. spoiled \subseteq spoiled' /\ rows' = rows
      BY <1>31 DEF AskSweep, Begin
    <2>3. DoneTurns' \subseteq DoneTurns
      BY <2>2 DEF DoneTurns
    <2>4. \A q \in Requests : GoesOn(q)
      BY <1>31 DEF AskSweep, Begin, GoesOn
    <2>5. QED
      BY <2>1, <2>2, <2>3, <2>4, TaughtKept
  <1>32. CASE Sweep
    <2>1. Remembers
      BY <1>32, EvictIs, SparedRemember
    <2>2. spoiled \subseteq spoiled' /\ rows' = rows
      BY <1>32 DEF Sweep
    <2>3. DoneTurns' \subseteq DoneTurns
      BY <2>2 DEF DoneTurns
    <2>4. \A q \in Requests : GoesOn(q)
      BY <1>32 DEF Sweep, GoesOn
    <2>5. QED
      BY <2>1, <2>2, <2>3, <2>4, TaughtKept
  <1>33. CASE OtherLocks
    <2>1. Remembers
      BY <1>33 DEF OtherLocks, Remembers
    <2>2. spoiled \subseteq spoiled' /\ rows' = rows
      BY <1>33 DEF OtherLocks, Begin
    <2>3. DoneTurns' \subseteq DoneTurns
      BY <2>2 DEF DoneTurns
    <2>4. \A q \in Requests : GoesOn(q)
      BY <1>33 DEF OtherLocks, Begin, GoesOn
    <2>5. QED
      BY <2>1, <2>2, <2>3, <2>4, TaughtKept
  <1>34. CASE OtherUnlocks
    <2>1. Remembers
      BY <1>34 DEF OtherUnlocks, Remembers
    <2>2. spoiled \subseteq spoiled' /\ rows' = rows
      BY <1>34 DEF OtherUnlocks
    <2>3. DoneTurns' \subseteq DoneTurns
      BY <2>2 DEF DoneTurns
    <2>4. \A q \in Requests : GoesOn(q)
      BY <1>34 DEF OtherUnlocks, GoesOn
    <2>5. QED
      BY <2>1, <2>2, <2>3, <2>4, TaughtKept
  <1>35. CASE TimePasses
    <2>1. Remembers
      BY <1>35 DEF TimePasses, Remembers
    <2>2. spoiled \subseteq spoiled' /\ rows' = rows
      BY <1>35 DEF TimePasses
    <2>3. DoneTurns' \subseteq DoneTurns
      BY <2>2 DEF DoneTurns
    <2>4. \A q \in Requests : GoesOn(q)
      BY <1>35 DEF TimePasses, GoesOn
    <2>5. QED
      BY <2>1, <2>2, <2>3, <2>4, TaughtKept
  <1>36. CASE ServerRestarts
    <2>1. \A q \in Requests : mine'[q] = NewTurn /\ pc'[q] \in {"idle", "over"}
      BY <1>36 DEF ServerRestarts
    <2>2. QED
      BY <2>1, Blank DEF Taught
  <1>37. CASE UNCHANGED vars
    BY <1>37 DEF vars, Taught, TaughtOne, DoneTurns
  <1>38. QED
    BY <1>1, <1>2, <1>3, <1>4, <1>5, <1>6, <1>7, <1>8, <1>9, <1>10, <1>10a, <1>11,
       <1>12, <1>13, <1>13a, <1>14, <1>15, <1>16, <1>17, <1>17a, <1>18, <1>19, <1>20, <1>21,
       <1>22, <1>23, <1>24, <1>25, <1>26, <1>27, <1>28, <1>29, <1>30, <1>31,
       <1>32, <1>33, <1>34, <1>35, <1>36, <1>37
    DEF Next, Turn, Leave, Agent, Asks, Serves

(* The registered agent knows what was answered, or the turn that could not *)
(* tell it is still to drop it.                                            *)
LEMMA KnownStep ==
    ASSUME Flags, Agents, Turns, Claims, Alive, RowsTyped, Fifo, Wired, Own,
           Placed, Unread, Taught, Known, [Next]_vars
    PROVE  Known'
  <1> USE DEF Go, ghosts, Flags, Turns
  <1>1. ASSUME NEW r \in Requests, Post(r) PROVE Known'
    <2>1. Remembers
      BY <1>1 DEF Post, Remembers
    <2>2. spoiled \subseteq spoiled' /\ UNCHANGED <<rows, reg>>
      BY <1>1 DEF Post
    <2>3. DoneTurns' \subseteq DoneTurns
      BY <2>2 DEF DoneTurns
    <2>4. \A q \in Requests : Untold(q) => Untold(q)' /\ mine'[q].on = mine[q].on
      BY <1>1 DEF Post, Untold
    <2>5. QED
      BY <2>1, <2>2, <2>3, <2>4, KnownKept
  <1>2. ASSUME NEW r \in Requests, Record(r) PROVE Known'
    <2>1. Remembers
      BY <1>2 DEF Record, Remembers
    <2>2. spoiled \subseteq spoiled' /\ UNCHANGED reg
      BY <1>2 DEF Record
    <2>3. DoneTurns' \subseteq DoneTurns
      <3>1. CASE rows' = rows
        BY <3>1 DEF DoneTurns
      <3>2. CASE rows' = Append(rows, [by |-> r, status |-> "running"])
        BY <3>2, RecordIs
      <3>3. QED
        BY <1>2, <3>1, <3>2 DEF Record
    <2>4. \A q \in Requests : Untold(q) => Untold(q)' /\ mine'[q].on = mine[q].on
      BY <1>2 DEF Record, Untold
    <2>5. QED
      BY <2>1, <2>2, <2>3, <2>4, KnownKept
  <1>3. ASSUME NEW r \in Requests, Reuse(r) PROVE Known'
    <2>1. Remembers
      BY <1>3 DEF Reuse, Remembers
    <2>2. spoiled \subseteq spoiled' /\ UNCHANGED <<rows, reg>>
      BY <1>3 DEF Reuse
    <2>3. DoneTurns' \subseteq DoneTurns
      BY <2>2 DEF DoneTurns
    <2>4. \A q \in Requests : Untold(q) => Untold(q)' /\ mine'[q].on = mine[q].on
      BY <1>3 DEF Reuse, Untold
    <2>5. QED
      BY <2>1, <2>2, <2>3, <2>4, KnownKept
  <1>4. ASSUME NEW r \in Requests, Connect(r) PROVE Known'
    <2>1. reg' = NoOne
      BY <1>4 DEF Connect, Evict
    <2>2. QED
      BY <2>1 DEF Known
  <1>5. ASSUME NEW r \in Requests, Connected(r) PROVE Known'
    <2>1. /\ pc[r] = "connecting" /\ pc' = [pc EXCEPT ![r] = "replay"] /\ reg' = r
          /\ mine' = [mine EXCEPT ![r] = [mine[r] EXCEPT !.on = r, !.fresh = TRUE]]
      BY <1>5 DEF Connected
    <2>2. ~mine[r].delivered
      BY <2>1 DEF Unread, Early
    <2>3. mine'[r].on = r /\ Untold(r)'
      BY <2>1, <2>2 DEF Untold
    <2>4. QED
      BY <2>1, <2>3 DEF Known
  <1>6. ASSUME NEW r \in Requests, ConnectFails(r) PROVE Known'
    <2>1. Remembers
      BY <1>6, EvictIs, SparedRemember
    <2>2. spoiled \subseteq spoiled' /\ UNCHANGED <<rows, reg>>
      BY <1>6 DEF ConnectFails, Fault
    <2>3. DoneTurns' \subseteq DoneTurns
      BY <2>2 DEF DoneTurns
    <2>4. \A q \in Requests : Untold(q) => Untold(q)' /\ mine'[q].on = mine[q].on
      BY <1>6 DEF ConnectFails, Fault, Untold
    <2>5. QED
      BY <2>1, <2>2, <2>3, <2>4, KnownKept
  <1>7. ASSUME NEW r \in Requests, Replay(r) PROVE Known'
    <2>1. Remembers
      BY <1>7 DEF Replay, Remembers
    <2>2. spoiled \subseteq spoiled' /\ UNCHANGED <<rows, reg>>
      BY <1>7 DEF Replay, Fault
    <2>3. DoneTurns' \subseteq DoneTurns
      BY <2>2 DEF DoneTurns
    <2>4. \A q \in Requests : Untold(q) => Untold(q)' /\ mine'[q].on = mine[q].on
      BY <1>7 DEF Replay, Fault, Untold
    <2>5. QED
      BY <2>1, <2>2, <2>3, <2>4, KnownKept
  <1>8. ASSUME NEW r \in Requests, Deliver(r) PROVE Known'
    <2>2. UNCHANGED <<spoiled, rows, reg>> /\ pc[r] = "deliver"
      BY <1>8 DEF Deliver
    <2>3. DoneTurns' = DoneTurns
      BY <2>2 DEF DoneTurns
    <2>a. CASE client[mine[r].on].at # "up"
      <3>1. client' = client /\ mine' = [mine EXCEPT ![r].error = "error"]
            /\ pc' = [pc EXCEPT ![r] = "closing"]
        BY <1>8, <2>a DEF Deliver
      <3>2. Remembers
        BY <3>1 DEF Remembers
      <3>3. \A q \in Requests : Untold(q) => Untold(q)' /\ mine'[q].on = mine[q].on
        BY <2>2, <3>1 DEF Untold
      <3>4. QED
        BY <2>2, <2>3, <3>2, <3>3, KnownKept
    <2>b. CASE client[mine[r].on].at = "up"
      <3>1. PICK c \in Requests : c = mine[r].on
        BY <1>8 DEF Deliver, Fifo
      <3>2. /\ client' = Sent(r, FALSE) /\ mine' = [mine EXCEPT ![r].delivered = TRUE]
            /\ pc' = [pc EXCEPT ![r] = "stream"]
        BY <1>8, <2>b DEF Deliver
      <3>3. reg = c
        <4>1. pc[c] # "connecting"
          BY <3>1, ChatAssumption DEF Placed, Early
        <4>2. QED
          BY <2>b, <3>1, <4>1, ChatAssumption DEF Alive
      <3>4. SUFFICES ASSUME c \notin spoiled, client'[c].refreshed # TRUE
                     PROVE  \/ DoneTurns \subseteq client'[c].knows
                            \/ \E q \in Requests : mine'[q].on = c /\ Untold(q)'
        BY <2>2, <2>3, <3>3 DEF Known
      <3>5. /\ client'[c].knows = client[c].knows \cup mine[r].told \cup {r}
            /\ client'[c].refreshed = client[c].refreshed
        BY <3>1, <3>2, SentIs
      <3>6. mine'[r].on = c /\ pc'[r] = "stream" /\ mine'[r].unsure = mine[r].unsure
        BY <3>1, <3>2
      <3>7. CASE DoneTurns \subseteq client[c].knows
        BY <3>5, <3>7
      <3>8. CASE ~(DoneTurns \subseteq client[c].knows)
        <4>1. \A q \in Requests : Untold(q) => q = r
          BY <2>2 DEF Untold, Claims
        <4>2. Untold(r)
          BY <3>3, <3>4, <3>5, <3>8, <4>1, ChatAssumption DEF Known
        <4>3. CASE mine[r].unsure
          BY <3>6, <4>3 DEF Untold
        <4>4. CASE ~mine[r].unsure
          <5>1. mine[r].fresh
            BY <4>2, <4>4 DEF Untold
          <5>2. DoneTurns \subseteq mine[r].told
            BY <2>2, <4>4, <5>1 DEF Taught, TaughtOne
          <5>3. QED
            BY <3>5, <5>2
        <4>5. QED
          BY <4>3, <4>4
      <3>9. QED
        BY <3>7, <3>8
    <2>4. QED
      BY <2>a, <2>b
  <1>9. ASSUME NEW r \in Requests, Receive(r) PROVE Known'
    <2>0. pc[r] = "stream" /\ mine[r].on \in Requests /\ DOMAIN heard = Requests
      BY <1>9 DEF Receive, Fifo, Unread
    <2> DEFINE d == mine[r].on
    <2>a. /\ \A c \in Requests \ {d} : client'[c] = client[c]
          /\ client'[d].knows = client[d].knows /\ client'[d].refreshed = client[d].refreshed
      BY <1>9, <2>0, ReceiveIs
    <2>1. Remembers
      BY <2>0, <2>a DEF Remembers
    <2>2. spoiled \subseteq spoiled' /\ UNCHANGED <<rows, reg>>
      BY <1>9 DEF Receive
    <2>3. DoneTurns' \subseteq DoneTurns
      BY <2>2 DEF DoneTurns
    <2>b. \A q \in Requests :
             /\ mine'[q].on = mine[q].on /\ mine'[q].fresh = mine[q].fresh
             /\ mine'[q].delivered = mine[q].delivered /\ mine'[q].unsure = mine[q].unsure
      BY <1>9, <2>0, ReceiveIs
    <2>c. pc' = pc \/ pc' = [pc EXCEPT ![r] = "closing"]
      BY <1>9 DEF Receive
    <2>4. \A q \in Requests : Untold(q) => Untold(q)' /\ mine'[q].on = mine[q].on
      BY <2>0, <2>b, <2>c DEF Untold
    <2>5. QED
      BY <2>1, <2>2, <2>3, <2>4, KnownKept
  <1>10. ASSUME NEW r \in Requests, StreamBreaks(r) PROVE Known'
    <2>1. Remembers
      BY <1>10 DEF StreamBreaks, Remembers
    <2>2. spoiled \subseteq spoiled' /\ UNCHANGED <<rows, reg>>
      BY <1>10 DEF StreamBreaks
    <2>3. DoneTurns' \subseteq DoneTurns
      BY <2>2 DEF DoneTurns
    <2>4. \A q \in Requests : Untold(q) => Untold(q)' /\ mine'[q].on = mine[q].on
      BY <1>10 DEF StreamBreaks, Untold
    <2>5. QED
      BY <2>1, <2>2, <2>3, <2>4, KnownKept
  <1>10a. ASSUME NEW r \in Requests, GivesUp(r) PROVE Known'
    <2>1. Remembers
      BY <1>10a DEF GivesUp, Remembers
    <2>2. spoiled \subseteq spoiled' /\ UNCHANGED <<rows, reg>>
      BY <1>10a DEF GivesUp
    <2>3. DoneTurns' \subseteq DoneTurns
      BY <2>2 DEF DoneTurns
    <2>4. \A q \in Requests : Untold(q) => Untold(q)' /\ mine'[q].on = mine[q].on
      BY <1>10a DEF GivesUp, Untold
    <2>5. QED
      BY <2>1, <2>2, <2>3, <2>4, KnownKept
  <1>11. ASSUME NEW r \in Requests, Closing(r) PROVE Known'
    <2>1. Remembers
      BY <1>11 DEF Closing, Remembers
    <2>2. spoiled \subseteq spoiled' /\ UNCHANGED <<rows, reg>>
      BY <1>11 DEF Closing
    <2>3. DoneTurns' \subseteq DoneTurns
      BY <2>2 DEF DoneTurns
    <2>4. \A q \in Requests : Untold(q) => Untold(q)' /\ mine'[q].on = mine[q].on
      <3>1. /\ pc[r] = "closing" /\ UNCHANGED mine
            /\ \/ Unsafe(mine[r]) /\ pc' = [pc EXCEPT ![r] = "dropping"]
               \/ ~Unsafe(mine[r]) /\ pc' = [pc EXCEPT ![r] = "finish"]
        BY <1>11 DEF Closing
      <3>2. Untold(r) => Unsafe(mine[r])
        BY DEF Untold, Unsafe
      <3>3. QED
        BY <3>1, <3>2 DEF Untold
    <2>5. QED
      BY <2>1, <2>2, <2>3, <2>4, KnownKept
  <1>12. ASSUME NEW r \in Requests, Drop(r) PROVE Known'
    <2>1. reg' = NoOne
      BY <1>12 DEF Drop, Evict
    <2>2. QED
      BY <2>1 DEF Known
  <1>13. ASSUME NEW r \in Requests, DropTimesOut(r) PROVE Known'
    <2>1. reg' = reg /\ (reg # NoOne => reg \in spoiled')
      BY <1>13 DEF DropTimesOut
    <2>2. QED
      BY <2>1 DEF Known
  <1>13a. ASSUME NEW r \in Requests, DropCutShort(r) PROVE Known'
    <2>1. reg' = NoOne
      BY <1>13a DEF DropCutShort
    <2>2. QED
      BY <2>1 DEF Known
  <1>14. ASSUME NEW r \in Requests, Finish(r) PROVE Known'
    <2>1. /\ pc[r] = "finish" /\ pc' = [pc EXCEPT ![r] = "release"]
          /\ UNCHANGED <<mine, client, reg, spoiled>>
      BY <1>14 DEF Finish
    <2>2. Remembers
      BY <2>1 DEF Remembers
    <2>3. \A q \in Requests : Untold(q) => Untold(q)' /\ mine'[q].on = mine[q].on
      BY <2>1 DEF Untold
    <2>4. CASE ~mine[r].completed
      BY <1>14, <2>1, <2>2, <2>3, <2>4, FinishIs, KnownKept
    <2>5. CASE mine[r].completed
      <3>1. DoneTurns' \subseteq DoneTurns \cup {r}
        BY <1>14, FinishIs
      <3>2. PICK c \in Requests :
               c = mine[r].on /\ (client[c].refreshed = TRUE \/ r \in client[c].knows)
        BY <2>5 DEF Taught, TaughtOne
      <3>3. reg \in {c, NoOne}
        BY <3>2, ChatAssumption DEF Placed
      <3>4. SUFFICES ASSUME reg = c, c \notin spoiled, client[c].refreshed # TRUE
                     PROVE  DoneTurns' \subseteq client[c].knows \/ \E q \in Requests : mine[q].on = c /\ Untold(q)'
        BY <2>1, <3>3 DEF Known
      <3>5. DoneTurns \subseteq client[c].knows \/ \E q \in Requests : mine[q].on = c /\ Untold(q)
        BY <3>2, <3>4, ChatAssumption DEF Known
      <3>6. QED
        BY <2>3, <3>1, <3>2, <3>4, <3>5
    <2>6. QED
      BY <2>4, <2>5
  <1>15. ASSUME NEW r \in Requests, Unclaim(r) PROVE Known'
    <2>1. Remembers
      BY <1>15 DEF Unclaim, Remembers
    <2>2. spoiled \subseteq spoiled' /\ UNCHANGED <<rows, reg>>
      BY <1>15 DEF Unclaim, NewTurn
    <2>3. DoneTurns' \subseteq DoneTurns
      BY <2>2 DEF DoneTurns
    <2>4. \A q \in Requests : Untold(q) => Untold(q)' /\ mine'[q].on = mine[q].on
      BY <1>15 DEF Unclaim, NewTurn, Untold
    <2>5. QED
      BY <2>1, <2>2, <2>3, <2>4, KnownKept
  <1>16. ASSUME NEW r \in Requests, LeaveUnstarted(r) PROVE Known'
    <2>1. Remembers
      BY <1>16 DEF LeaveUnstarted, Remembers
    <2>2. spoiled \subseteq spoiled' /\ UNCHANGED <<rows, reg>>
      BY <1>16 DEF LeaveUnstarted
    <2>3. DoneTurns' \subseteq DoneTurns
      BY <2>2 DEF DoneTurns
    <2>4. \A q \in Requests : Untold(q) => Untold(q)' /\ mine'[q].on = mine[q].on
      BY <1>16 DEF LeaveUnstarted, Untold
    <2>5. QED
      BY <2>1, <2>2, <2>3, <2>4, KnownKept
  <1>17. ASSUME NEW r \in Requests, LeaveRegistry(r) PROVE Known'
    <2>1. Remembers
      BY <1>17, EvictIs, SparedRemember
    <2>2. spoiled \subseteq spoiled' /\ UNCHANGED <<rows, reg>>
      BY <1>17 DEF LeaveRegistry, Interrupted
    <2>3. DoneTurns' \subseteq DoneTurns
      BY <2>2 DEF DoneTurns
    <2>4. \A q \in Requests : Untold(q) => Untold(q)' /\ mine'[q].on = mine[q].on
      BY <1>17 DEF LeaveRegistry, Interrupted, Untold
    <2>5. QED
      BY <2>1, <2>2, <2>3, <2>4, KnownKept
  <1>17a. ASSUME NEW r \in Requests, LeaveSwitch(r) PROVE Known'
    <2>1. reg' = NoOne
      BY <1>17a DEF LeaveSwitch
    <2>2. QED
      BY <2>1 DEF Known
  <1>18. ASSUME NEW r \in Requests, LeaveAgent(r) PROVE Known'
    <2>1. Remembers
      BY <1>18 DEF LeaveAgent, Remembers
    <2>2. spoiled \subseteq spoiled' /\ UNCHANGED <<rows, reg>>
      BY <1>18 DEF LeaveAgent, Interrupted
    <2>3. DoneTurns' \subseteq DoneTurns
      BY <2>2 DEF DoneTurns
    <2>4. \A q \in Requests : Untold(q) => Untold(q)' /\ mine'[q].on = mine[q].on
      BY <1>18 DEF LeaveAgent, Interrupted, Untold
    <2>5. QED
      BY <2>1, <2>2, <2>3, <2>4, KnownKept
  <1>19. ASSUME NEW r \in Requests, LeaveQuery(r) PROVE Known'
    <2>1. Remembers
      BY <1>19, SentRemembers DEF LeaveQuery, Fifo
    <2>2. spoiled \subseteq spoiled' /\ UNCHANGED <<rows, reg>>
      BY <1>19 DEF LeaveQuery, Interrupted
    <2>3. DoneTurns' \subseteq DoneTurns
      BY <2>2 DEF DoneTurns
    <2>4. \A q \in Requests : Untold(q) => Untold(q)' /\ mine'[q].on = mine[q].on
      BY <1>19 DEF LeaveQuery, Interrupted, Untold
    <2>5. QED
      BY <2>1, <2>2, <2>3, <2>4, KnownKept
  <1>20. ASSUME NEW r \in Requests, Say(r) PROVE Known'
    <2>1. Remembers
      BY <1>20, SayIs DEF Remembers
    <2>2. spoiled \subseteq spoiled' /\ UNCHANGED <<rows, reg>>
      BY <1>20 DEF Say
    <2>3. DoneTurns' \subseteq DoneTurns
      BY <2>2 DEF DoneTurns
    <2>4. \A q \in Requests : Untold(q) => Untold(q)' /\ mine'[q].on = mine[q].on
      BY <1>20 DEF Say, Untold
    <2>5. QED
      BY <2>1, <2>2, <2>3, <2>4, KnownKept
  <1>21. ASSUME NEW r \in Requests, Answer(r) PROVE Known'
    <2>1. Remembers
      BY <1>21, AnswerIs DEF Remembers
    <2>2. spoiled \subseteq spoiled' /\ UNCHANGED <<rows, reg>>
      BY <1>21 DEF Answer
    <2>3. DoneTurns' \subseteq DoneTurns
      BY <2>2 DEF DoneTurns
    <2>4. \A q \in Requests : Untold(q) => Untold(q)' /\ mine'[q].on = mine[q].on
      BY <1>21 DEF Answer, Untold
    <2>5. QED
      BY <2>1, <2>2, <2>3, <2>4, KnownKept
  <1>22. ASSUME NEW r \in Requests, Dies(r) PROVE Known'
    <2>1. Remembers
      BY <1>22, DiesIs DEF Remembers
    <2>2. spoiled \subseteq spoiled' /\ UNCHANGED <<rows, reg>>
      BY <1>22 DEF Dies
    <2>3. DoneTurns' \subseteq DoneTurns
      BY <2>2 DEF DoneTurns
    <2>4. \A q \in Requests : Untold(q) => Untold(q)' /\ mine'[q].on = mine[q].on
      BY <1>22 DEF Dies, Untold
    <2>5. QED
      BY <2>1, <2>2, <2>3, <2>4, KnownKept
  <1>23. CASE AskClose
    <2>1. Remembers
      BY <1>23 DEF AskClose, Remembers
    <2>2. spoiled \subseteq spoiled' /\ UNCHANGED <<rows, reg>>
      BY <1>23 DEF AskClose, Begin
    <2>3. DoneTurns' \subseteq DoneTurns
      BY <2>2 DEF DoneTurns
    <2>4. \A q \in Requests : Untold(q) => Untold(q)' /\ mine'[q].on = mine[q].on
      BY <1>23 DEF AskClose, Begin, Untold
    <2>5. QED
      BY <2>1, <2>2, <2>3, <2>4, KnownKept
  <1>24. CASE AskRefresh
    <2>1. Remembers
      BY <1>24 DEF AskRefresh, Remembers
    <2>2. spoiled \subseteq spoiled' /\ UNCHANGED <<rows, reg>>
      BY <1>24 DEF AskRefresh, Begin
    <2>3. DoneTurns' \subseteq DoneTurns
      BY <2>2 DEF DoneTurns
    <2>4. \A q \in Requests : Untold(q) => Untold(q)' /\ mine'[q].on = mine[q].on
      BY <1>24 DEF AskRefresh, Begin, Untold
    <2>5. QED
      BY <2>1, <2>2, <2>3, <2>4, KnownKept
  <1>25. CASE CloseSession
    <2>1. reg' = NoOne
      BY <1>25 DEF CloseSession, Evict
    <2>2. QED
      BY <2>1 DEF Known
  <1>26. CASE RefreshStarts
    <2>1. Remembers
      BY <1>26, EvictIs, SparedRemember
    <2>2. spoiled \subseteq spoiled' /\ UNCHANGED <<rows, reg>>
      BY <1>26 DEF RefreshStarts
    <2>3. DoneTurns' \subseteq DoneTurns
      BY <2>2 DEF DoneTurns
    <2>4. \A q \in Requests : Untold(q) => Untold(q)' /\ mine'[q].on = mine[q].on
      BY <1>26 DEF RefreshStarts, Untold
    <2>5. QED
      BY <2>1, <2>2, <2>3, <2>4, KnownKept
  <1>27. CASE RefreshEnds
    <2>1. Remembers
      BY <1>27, RefreshIs DEF Remembers
    <2>2. spoiled \subseteq spoiled' /\ UNCHANGED <<rows, reg>>
      BY <1>27 DEF RefreshEnds
    <2>3. DoneTurns' \subseteq DoneTurns
      BY <2>2 DEF DoneTurns
    <2>4. \A q \in Requests : Untold(q) => Untold(q)' /\ mine'[q].on = mine[q].on
      BY <1>27 DEF RefreshEnds, Untold
    <2>5. QED
      BY <2>1, <2>2, <2>3, <2>4, KnownKept
  <1>28. CASE AskDelete
    <2>1. Remembers
      BY <1>28 DEF AskDelete, Remembers
    <2>2. spoiled \subseteq spoiled' /\ UNCHANGED <<rows, reg>>
      BY <1>28 DEF AskDelete, Begin
    <2>3. DoneTurns' \subseteq DoneTurns
      BY <2>2 DEF DoneTurns
    <2>4. \A q \in Requests : Untold(q) => Untold(q)' /\ mine'[q].on = mine[q].on
      BY <1>28 DEF AskDelete, Begin, Untold
    <2>5. QED
      BY <2>1, <2>2, <2>3, <2>4, KnownKept
  <1>29. CASE DeleteDrops
    <2>1. reg' = NoOne
      BY <1>29 DEF DeleteDrops, Evict
    <2>2. QED
      BY <2>1 DEF Known
  <1>30. CASE DeleteRows
    <2>1. Remembers /\ UNCHANGED <<reg, spoiled, pc, mine>>
      BY <1>30 DEF DeleteRows, Remembers
    <2>2. DoneTurns' \subseteq DoneTurns
      <3>1. CASE rows' = rows
        BY <3>1 DEF DoneTurns
      <3>2. CASE rows' = <<>>
        BY <3>2 DEF DoneTurns
      <3>3. QED
        BY <1>30, <3>1, <3>2 DEF DeleteRows
    <2>3. \A q \in Requests : Untold(q) => Untold(q)' /\ mine'[q].on = mine[q].on
      BY <2>1 DEF Untold
    <2>4. QED
      BY <2>1, <2>2, <2>3, KnownKept
  <1>31. CASE AskSweep
    <2>1. Remembers
      BY <1>31 DEF AskSweep, Remembers
    <2>2. spoiled \subseteq spoiled' /\ UNCHANGED <<rows, reg>>
      BY <1>31 DEF AskSweep, Begin
    <2>3. DoneTurns' \subseteq DoneTurns
      BY <2>2 DEF DoneTurns
    <2>4. \A q \in Requests : Untold(q) => Untold(q)' /\ mine'[q].on = mine[q].on
      BY <1>31 DEF AskSweep, Begin, Untold
    <2>5. QED
      BY <2>1, <2>2, <2>3, <2>4, KnownKept
  <1>32. CASE Sweep
    <2>1. CASE reg' = NoOne
      BY <2>1 DEF Known
    <2>2. CASE UNCHANGED <<client, reg>>
      BY <1>32, <2>2 DEF Sweep, Known, Untold, DoneTurns
    <2>3. QED
      BY <1>32, <2>1, <2>2 DEF Sweep, Evict
  <1>33. CASE OtherLocks
    <2>1. Remembers
      BY <1>33 DEF OtherLocks, Remembers
    <2>2. spoiled \subseteq spoiled' /\ UNCHANGED <<rows, reg>>
      BY <1>33 DEF OtherLocks, Begin
    <2>3. DoneTurns' \subseteq DoneTurns
      BY <2>2 DEF DoneTurns
    <2>4. \A q \in Requests : Untold(q) => Untold(q)' /\ mine'[q].on = mine[q].on
      BY <1>33 DEF OtherLocks, Begin, Untold
    <2>5. QED
      BY <2>1, <2>2, <2>3, <2>4, KnownKept
  <1>34. CASE OtherUnlocks
    <2>1. Remembers
      BY <1>34 DEF OtherUnlocks, Remembers
    <2>2. spoiled \subseteq spoiled' /\ UNCHANGED <<rows, reg>>
      BY <1>34 DEF OtherUnlocks
    <2>3. DoneTurns' \subseteq DoneTurns
      BY <2>2 DEF DoneTurns
    <2>4. \A q \in Requests : Untold(q) => Untold(q)' /\ mine'[q].on = mine[q].on
      BY <1>34 DEF OtherUnlocks, Untold
    <2>5. QED
      BY <2>1, <2>2, <2>3, <2>4, KnownKept
  <1>35. CASE TimePasses
    <2>1. Remembers
      BY <1>35 DEF TimePasses, Remembers
    <2>2. spoiled \subseteq spoiled' /\ UNCHANGED <<rows, reg>>
      BY <1>35 DEF TimePasses
    <2>3. DoneTurns' \subseteq DoneTurns
      BY <2>2 DEF DoneTurns
    <2>4. \A q \in Requests : Untold(q) => Untold(q)' /\ mine'[q].on = mine[q].on
      BY <1>35 DEF TimePasses, Untold
    <2>5. QED
      BY <2>1, <2>2, <2>3, <2>4, KnownKept
  <1>36. CASE ServerRestarts
    <2>1. reg' = NoOne
      BY <1>36 DEF ServerRestarts, Evict
    <2>2. QED
      BY <2>1 DEF Known
  <1>37. CASE UNCHANGED vars
    BY <1>37 DEF vars, Known, Untold, DoneTurns
  <1>38. QED
    BY <1>1, <1>2, <1>3, <1>4, <1>5, <1>6, <1>7, <1>8, <1>9, <1>10, <1>10a, <1>11,
       <1>12, <1>13, <1>13a, <1>14, <1>15, <1>16, <1>17, <1>17a, <1>18, <1>19, <1>20, <1>21,
       <1>22, <1>23, <1>24, <1>25, <1>26, <1>27, <1>28, <1>29, <1>30, <1>31,
       <1>32, <1>33, <1>34, <1>35, <1>36, <1>37
    DEF Next, Turn, Leave, Agent, Asks, Serves

-----------------------------------------------------------------------------

Talk == IInv /\ Placed /\ Refreshing /\ Wired /\ Unread
KInv == Talk /\ Taught /\ Known
EInv == Talk /\ Accounted /\ Streamed /\ OwnEventsOnly

(* No agent has been asked anything when the server starts.                *)
LEMMA TalkStarts == Init => KInv /\ EInv
  <1> SUFFICES ASSUME Init PROVE KInv /\ EInv
    OBVIOUS
  <1> USE ChatAssumption DEF Init
  <1>1. IInv
    BY Starts
  <1>2. Placed /\ Refreshing /\ Unread
    BY DEF Placed, Refreshing, Unread, NewTurn, NoAgent, Early, Ops
  <1>3. Wired
    <2>1. <<>> \in Seq(Asked) /\ <<>> \in Seq(Written)
      OBVIOUS
    <2>2. QED
      BY <2>1 DEF Wired, NoAgent
  <1>4. Taught /\ Known
    BY DEF Taught, TaughtOne, Known, NewTurn
  <1>5. Accounted /\ Streamed /\ OwnEventsOnly
    BY DEF Accounted, Streamed, OwnEventsOnly
  <1>6. QED
    BY <1>1, <1>2, <1>3, <1>4, <1>5 DEF Talk, KInv, EInv

(* Every step keeps what the two invariants share.                         *)
LEMMA TalkStep == Talk /\ [Next]_vars => Talk'
  BY Steps, PlacedStep, RefreshingStep, WiredStep, UnreadStep DEF Talk, IInv

(* A prompt is delivered to an agent that knows every answered turn of the *)
(* conversation, for any turns, backends, leaving browsers, failures and   *)
(* restarts -- unless the replay failed, the drop timed out or the agent   *)
(* was refreshed, which starts ACP without its memory (ADR 0007).          *)
THEOREM HistoryKnown == Spec => []AgentKnowsHistory
  <1>1. Init => KInv
    BY TalkStarts
  <1>2. KInv /\ [Next]_vars => KInv'
    BY TalkStep, TaughtStep, KnownStep DEF KInv, Talk, IInv
  <1>3. KInv => AgentKnowsHistory
    BY DEF KInv, Taught, TaughtOne, AgentKnowsHistory
  <1>4. QED
    BY <1>1, <1>2, <1>3, PTL DEF Spec

(* Where no browser leaves with its prompt on the way or between the last  *)
(* event and the mark that ends the stream, and no turn gives up waiting   *)
(* for background tasks, no turn passes on an event of another, unless the *)
(* code has logged that it could not drop the agent.                       *)
THEOREM OwnEvents == ASSUME Orderly PROVE Spec => []OwnEventsOnly
  <1>1. Init => EInv
    BY TalkStarts
  <1>2. EInv /\ [Next]_vars => EInv'
    BY TalkStep, AccountedStep, StreamedStep, HeardStep DEF EInv, Talk, IInv
  <1>3. EInv => OwnEventsOnly
    BY DEF EInv
  <1>4. QED
    BY <1>1, <1>2, <1>3, PTL DEF Spec

=============================================================================
