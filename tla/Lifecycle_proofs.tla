-------------------------- MODULE Lifecycle_proofs --------------------------
(***************************************************************************)
(* Proofs about Lifecycle, for any machines, graphs and bounds: its types, *)
(* and that the records decide.                                            *)
(*                                                                         *)
(* The invariant has four layers.  Base: types, and that a clone and the   *)
(* remote fork at one commit, which is the base of their merge.  Versions: *)
(* a line of commits never returns to a version of the folder.  Owned: of  *)
(* the record, and of a removal, only one machine at a time has a newer    *)
(* word than the remote.  Agrees: what a graph holds, in and between       *)
(* syncs, against the tree it has applied, the one its sync goes to and    *)
(* the working tree.  Only the last is about the graphs; the others say    *)
(* what a pull may bring under them.                                       *)
(***************************************************************************)
EXTENDS Lifecycle, SequenceTheorems, TLAPS

(* What a sync has left to do, as Stages orders it.                        *)
Planned(s) ==
    /\ s \in Seq(Steps)
    /\ \A i \in DOMAIN s : \A j \in 1 .. (i - 1) : Place(s[j]) < Place(s[i])
    /\ s # <<>> => s[Len(s)] = "advance"

LEMMA StagesOrder ==
    /\ Steps = {"replay", "retract", "apply", "remove", "advance"}
    /\ Place("replay") = 1 /\ Place("retract") = 1
    /\ Place("apply") = 2 /\ Place("remove") = 2 /\ Place("advance") = 3
  <1>1. /\ DOMAIN Stages = {1, 2, 3} /\ Stages[1] = {"replay", "retract"}
        /\ Stages[2] = {"apply", "remove"} /\ Stages[3] = {"advance"}
    BY DEF Stages
  <1>2. Steps = {"replay", "retract", "apply", "remove", "advance"}
    BY <1>1 DEF Steps, Range
  <1>3. \A s : (\E i \in {1, 2, 3} : s \in Stages[i]) =>
          Place(s) \in {1, 2, 3} /\ s \in Stages[Place(s)]
    BY <1>1 DEF Place
  <1>4. QED
    BY <1>1, <1>2, <1>3

(* A plan is in order, and does the documents and the records it is given. *)
LEMMA PlanPlanned ==
    ASSUME NEW d \in {<<>>, <<"retract">>, <<"replay">>},
           NEW r \in {<<>>, <<"apply">>, <<"remove">>}
    PROVE  /\ Planned(Plan(d, r)) /\ Plan(d, r) # <<>>
           /\ "retract" \in Range(Plan(d, r)) <=> d = <<"retract">>
           /\ "replay" \in Range(Plan(d, r)) <=> d = <<"replay">>
           /\ "apply" \in Range(Plan(d, r)) <=> r = <<"apply">>
           /\ "remove" \in Range(Plan(d, r)) <=> r = <<"remove">>
  <1> DEFINE p == Plan(d, r)
  <1>1. p = d \o r \o <<"advance">>
    BY DEF Plan
  <1>2. /\ d \in Seq(Steps) /\ r \in Seq(Steps) /\ <<"advance">> \in Seq(Steps)
        /\ Len(d) \in {0, 1} /\ Len(r) \in {0, 1}
        /\ \A i \in 1 .. Len(d) : d[i] \in {"retract", "replay"}
        /\ \A i \in 1 .. Len(r) : r[i] \in {"apply", "remove"}
    <2>1. /\ d \in Seq(Steps) /\ Len(d) \in {0, 1}
          /\ \A i \in 1 .. Len(d) : d[i] \in {"retract", "replay"}
      <3>1. CASE d = <<>>
        BY <3>1, StagesOrder
      <3>2. CASE d = <<"retract">>
        BY <3>2, StagesOrder
      <3>3. CASE d = <<"replay">>
        BY <3>3, StagesOrder
      <3>4. QED
        BY <3>1, <3>2, <3>3
    <2>2. /\ r \in Seq(Steps) /\ Len(r) \in {0, 1}
          /\ \A i \in 1 .. Len(r) : r[i] \in {"apply", "remove"}
      <3>1. CASE r = <<>>
        BY <3>1, StagesOrder
      <3>2. CASE r = <<"apply">>
        BY <3>2, StagesOrder
      <3>3. CASE r = <<"remove">>
        BY <3>3, StagesOrder
      <3>4. QED
        BY <3>1, <3>2, <3>3
    <2>3. QED
      BY <2>1, <2>2, StagesOrder
  <1>3. /\ p \in Seq(Steps) /\ Len(p) = Len(d) + Len(r) + 1
        /\ \A i \in 1 .. Len(d) : p[i] = d[i]
        /\ \A i \in 1 .. Len(r) : p[Len(d) + i] = r[i]
        /\ p[Len(p)] = "advance"
    <2> DEFINE q == d \o r
    <2>1. /\ q \in Seq(Steps) /\ Len(q) = Len(d) + Len(r)
          /\ \A i \in 1 .. Len(d) : q[i] = d[i]
          /\ \A i \in 1 .. Len(r) : q[Len(d) + i] = r[i]
      BY <1>2
    <2> HIDE DEF q
    <2>2. p = q \o <<"advance">>
      BY <1>1 DEF q
    <2>3. /\ p \in Seq(Steps) /\ Len(p) = Len(q) + 1 /\ p[Len(q) + 1] = "advance"
          /\ \A i \in 1 .. Len(q) : p[i] = q[i]
      BY <2>1, <2>2, <1>2
    <2> HIDE DEF p
    <2>4. QED
      BY <2>1, <2>3, <1>2
  <1>4. /\ DOMAIN p = 1 .. Len(p) /\ Len(p) \in 1 .. 3
        /\ \A i \in 1 .. Len(p) : i \in 1 .. Len(d) \/ i - Len(d) \in 1 .. Len(r) \/ i = Len(p)
    BY <1>2, <1>3
  <1>5. \A i \in DOMAIN p : \A j \in 1 .. (i - 1) : Place(p[j]) < Place(p[i])
    BY <1>2, <1>3, <1>4, StagesOrder
  <1>6. \A x : x \in Range(p) <=> x \in Range(d) \/ x \in Range(r) \/ x = "advance"
    <2>1. \A x : x \in Range(p) <=> \E i \in 1 .. Len(p) : p[i] = x
      BY <1>4 DEF Range
    <2>2. \A x : /\ x \in Range(d) <=> \E i \in 1 .. Len(d) : d[i] = x
                 /\ x \in Range(r) <=> \E i \in 1 .. Len(r) : r[i] = x
      BY <1>2 DEF Range
    <2>3. ASSUME NEW x PROVE x \in Range(p) => x \in Range(d) \/ x \in Range(r) \/ x = "advance"
      BY <2>1, <2>2, <1>2, <1>3, <1>4
    <2>4. ASSUME NEW x PROVE x \in Range(d) \/ x \in Range(r) \/ x = "advance" => x \in Range(p)
      BY <2>1, <2>2, <1>2, <1>3
    <2>5. QED
      BY <2>3, <2>4
  <1>7. /\ "retract" \in Range(d) <=> d = <<"retract">>
        /\ "replay" \in Range(d) <=> d = <<"replay">>
        /\ "apply" \notin Range(d) /\ "remove" \notin Range(d)
    BY <1>2 DEF Range
  <1>8. /\ "apply" \in Range(r) <=> r = <<"apply">>
        /\ "remove" \in Range(r) <=> r = <<"remove">>
        /\ "retract" \notin Range(r) /\ "replay" \notin Range(r)
    BY <1>2 DEF Range
  <1>9. QED
    BY <1>3, <1>4, <1>5, <1>6, <1>7, <1>8 DEF Planned

(* The rest of a plan once its first step is done.                         *)
LEMMA TailPlanned ==
    ASSUME NEW s, Planned(s), s # <<>>
    PROVE  /\ Planned(Tail(s)) /\ Head(s) \in Steps
           /\ Range(Tail(s)) = Range(s) \ {Head(s)} /\ Head(s) \in Range(s)
           /\ \A x \in Range(Tail(s)) : Place(Head(s)) < Place(x) /\ x \in Steps
           /\ Tail(s) = <<>> <=> Head(s) = "advance"
  <1>1. /\ s \in Seq(Steps) /\ Len(s) \in Nat \ {0} /\ DOMAIN s = 1 .. Len(s)
        /\ \A i \in 1 .. Len(s) : s[i] \in Steps
        /\ \A i \in 1 .. Len(s) : \A j \in 1 .. (i - 1) : Place(s[j]) < Place(s[i])
        /\ s[Len(s)] = "advance"
    BY DEF Planned
  <1>2. /\ Head(s) = s[1] /\ Tail(s) \in Seq(Steps) /\ Len(Tail(s)) = Len(s) - 1
        /\ \A i \in 1 .. (Len(s) - 1) : Tail(s)[i] = s[i + 1]
    BY <1>1
  <1>3. \A x \in Steps : Place(x) \in {1, 2, 3} /\ (Place(x) = 3 <=> x = "advance")
    BY StagesOrder
  <1>4. Planned(Tail(s))
    BY <1>1, <1>2 DEF Planned
  <1>5. \A x : x \in Range(s) <=> \E i \in 1 .. Len(s) : s[i] = x
    BY <1>1 DEF Range
  <1>6. \A x : x \in Range(Tail(s)) <=> \E i \in 2 .. Len(s) : s[i] = x
    <2>1. \A x : x \in Range(Tail(s)) <=> \E i \in 1 .. (Len(s) - 1) : Tail(s)[i] = x
      <3>1. DOMAIN Tail(s) = 1 .. (Len(s) - 1)
        BY <1>1, <1>2
      <3>2. QED
        BY <3>1 DEF Range
    <2>2. ASSUME NEW x PROVE x \in Range(Tail(s)) => \E i \in 2 .. Len(s) : s[i] = x
      BY <2>1, <1>1, <1>2
    <2>3. ASSUME NEW x, NEW i \in 2 .. Len(s), s[i] = x PROVE x \in Range(Tail(s))
      <3>1. i - 1 \in 1 .. (Len(s) - 1) /\ Tail(s)[i - 1] = s[i]
        BY <1>1, <1>2, <2>3
      <3>2. QED
        BY <2>1, <2>3, <3>1
    <2>4. QED
      BY <2>2, <2>3
  <1>7. \A x \in Range(Tail(s)) : Place(Head(s)) < Place(x) /\ x \in Steps
    BY <1>1, <1>2, <1>6
  <1>8. Range(Tail(s)) = Range(s) \ {Head(s)} /\ Head(s) \in Range(s)
    BY <1>1, <1>2, <1>3, <1>5, <1>6, <1>7
  <1>9. Tail(s) = <<>> <=> Head(s) = "advance"
    <2>1. CASE Len(s) = 1
      <3>1. Tail(s) = <<>>
        <4>1. Tail(s) \in Seq(Steps) /\ Len(Tail(s)) = 0
          BY <1>2, <2>1
        <4>2. QED
          BY <4>1, EmptySeq
      <3>2. Head(s) = "advance"
        BY <1>1, <1>2, <2>1
      <3>3. QED
        BY <3>1, <3>2
    <2>2. CASE Len(s) # 1
      <3>1. Place(s[1]) < Place(s[Len(s)])
        BY <1>1, <2>2
      <3>2. QED
        BY <1>1, <1>2, <1>3, <2>2, <3>1
    <2>3. QED
      BY <2>1, <2>2
  <1>10. QED
    BY <1>1, <1>2, <1>4, <1>7, <1>8, <1>9

-----------------------------------------------------------------------------

(* The parts of TypeOK: the vault, the graphs and the syncs.               *)
VaultType ==
    /\ log \in Seq([tree : Tree, before : SUBSET Nat]) /\ Len(log) \in 1 .. MaxCommits
    /\ \A c \in DOMAIN log :
         /\ c \in log[c].before /\ log[c].before \subseteq 1 .. c
         /\ \A b \in log[c].before : log[b].before \subseteq log[c].before
    /\ head \in [Machines -> DOMAIN log] /\ tip \in DOMAIN log
    /\ work \in [Machines -> Tree] /\ made \in 1 .. MaxVersions
GraphType ==
    /\ label \in [Graphs -> {"live", "history"}] /\ version \in [Graphs -> 1 .. made]
    /\ mark \in [Graphs -> BOOLEAN] /\ bookmark \in [Graphs -> DOMAIN log]
SyncType ==
    /\ sync \in [Machines -> [todo : Seq(Steps), base : Nat, head : Nat]]
    /\ \A m \in Machines : /\ sync[m].base \in log[sync[m].head].before
                           /\ sync[m].head \in log[head[m]].before
                           /\ \A i \in DOMAIN sync[m].todo : \A j \in 1 .. (i - 1) :
                                Place(sync[m].todo[j]) < Place(sync[m].todo[i])

(* Every history begins with the first version.                            *)
Rooted == log[1].tree = First /\ \A c \in DOMAIN log : 1 \in log[c].before

(* No tree holds a version that was never extracted.                       *)
Extracted ==
    /\ \A c \in DOMAIN log : log[c].tree.folder <= made
    /\ \A m \in Machines : work[m].folder <= made

(* What is left of a sync fits the trees it goes between.                  *)
Fits(s, old, new) ==
    /\ Planned(s)
    /\ "retract" \in Range(s) => new.folder = 0
    /\ "replay" \in Range(s) => new.folder # 0 /\ (new.record => "apply" \in Range(s))
    /\ "apply" \in Range(s) => new.record
    /\ "remove" \in Range(s) => ~new.record /\ old.record
Plans == \A m \in Machines : Fits(sync[m].todo, At(sync[m].base), At(sync[m].head))

(* A clone and the remote fork at one commit, which is what a merge takes  *)
(* for its base, because whatever two clones share is pushed.              *)
Fork(m) == Max(log[head[m]].before \cap log[tip].before)
Forks ==
    /\ \A m \in Machines : \E c \in DOMAIN log :
         log[head[m]].before \cap log[tip].before = log[c].before
    /\ \A m \in Machines : \A n \in Machines \ {m} :
         log[head[m]].before \cap log[head[n]].before \subseteq log[tip].before
    /\ Machines # {} => \E m \in Machines : tip \in log[head[m]].before

Base == TypeOK /\ Rooted /\ Extracted /\ Forks /\ Plans

LEMMA TypeParts ==
    TypeOK <=> /\ VaultType /\ GraphType /\ SyncType
               /\ raised \subseteq Machines /\ commands \in 0 .. MaxCommands
  BY DEF TypeOK, VaultType, GraphType, SyncType

(* A commit c of tree t, whose ancestors are b, is appended to the log.    *)
CommitLeaves(m, t, b, c) ==
    /\ log' \in Seq([tree : Tree, before : SUBSET Nat]) /\ Len(log') = c
    /\ Len(log') \in 1 .. MaxCommits
    /\ DOMAIN log = 1 .. Len(log) /\ DOMAIN log' = DOMAIN log \cup {c}
    /\ c \notin DOMAIN log
    /\ \A d \in DOMAIN log : log'[d] = log[d] /\ c \notin log[d].before
    /\ log'[c].tree = t /\ log'[c].before = b \cup {c} /\ c \notin b
    /\ \A d \in DOMAIN log' :
         /\ d \in log'[d].before /\ log'[d].before \subseteq 1 .. d
         /\ \A a \in log'[d].before : log'[a].before \subseteq log'[d].before
    /\ head' \in [Machines -> DOMAIN log'] /\ head'[m] = c
    /\ \A n \in Machines \ {m} : head'[n] = head[n]

LEMMA Committed ==
    ASSUME VaultType, NEW m \in Machines, NEW t \in Tree, NEW b \in SUBSET Nat,
           b \subseteq DOMAIN log, \A a \in b : log[a].before \subseteq b, NewCommit(m, t, b),
           NEW c, c = Len(log) + 1
    PROVE  CommitLeaves(m, t, b, c)
  <1> DEFINE e == [tree |-> t, before |-> b \cup {c}]
  <1>1. /\ log \in Seq([tree : Tree, before : SUBSET Nat]) /\ Len(log) \in 1 .. MaxCommits
        /\ DOMAIN log = 1 .. Len(log) /\ MaxCommits \in Nat /\ Len(log) < MaxCommits
        /\ log' = Append(log, e) /\ c \in Nat
        /\ head' = [head EXCEPT ![m] = c] /\ head \in [Machines -> DOMAIN log]
    BY ConstantsAssumption DEF VaultType, NewCommit
  <1>2. e \in [tree : Tree, before : SUBSET Nat]
    BY <1>1
  <1>3. /\ log' \in Seq([tree : Tree, before : SUBSET Nat]) /\ Len(log') = c
        /\ log'[c] = e /\ \A d \in 1 .. Len(log) : log'[d] = log[d]
    BY <1>1, <1>2, AppendProperties
  <1>4. /\ DOMAIN log' = DOMAIN log \cup {c} /\ c \notin DOMAIN log /\ c \notin b
    BY <1>1, <1>3
  <1>5. \A d \in DOMAIN log : /\ d \in log[d].before /\ log[d].before \subseteq 1 .. d
                              /\ log[d].before \subseteq DOMAIN log
                              /\ \A a \in log[d].before : log[a].before \subseteq log[d].before
    <2>1. \A d \in DOMAIN log : /\ d \in log[d].before /\ log[d].before \subseteq 1 .. d
                                /\ \A a \in log[d].before : log[a].before \subseteq log[d].before
      BY DEF VaultType
    <2>2. QED
      BY <1>1, <2>1
  <1>6. ASSUME NEW d \in DOMAIN log'
        PROVE  /\ d \in log'[d].before /\ log'[d].before \subseteq 1 .. d
               /\ \A a \in log'[d].before : log'[a].before \subseteq log'[d].before
    <2>1. CASE d \in DOMAIN log
      <3>1. /\ log'[d] = log[d] /\ \A a \in log[d].before : log'[a] = log[a]
        BY <1>1, <1>3, <1>5, <2>1
      <3>2. QED
        BY <1>5, <2>1, <3>1
    <2>2. CASE d = c
      <3>1. log'[d].before = b \cup {c} /\ \A a \in b : log'[a].before \subseteq b
        BY <1>1, <1>3, <2>2
      <3>2. b \subseteq 1 .. c /\ c \in 1 .. c
        BY <1>1
      <3>3. \A a \in log'[d].before : log'[a].before \subseteq log'[d].before
        BY <2>2, <3>1
      <3>4. QED
        BY <2>2, <3>1, <3>2, <3>3
    <2>3. QED
      BY <1>4, <2>1, <2>2
  <1>7. /\ head' \in [Machines -> DOMAIN log'] /\ head'[m] = c
        /\ \A n \in Machines \ {m} : head'[n] = head[n]
    BY <1>1, <1>4
  <1>8. QED
    BY <1>1, <1>3, <1>4, <1>5, <1>6, <1>7 DEF CommitLeaves

(* The three ways in which a clone and the remote come together.           *)
Merged(base, ours, theirs) ==
    [folder |-> MergedFile(base.folder, ours.folder, theirs.folder),
     record |-> MergedFile(base.record, ours.record, theirs.record)]
Pulls(m) ==
    /\ head[m] \in log[tip].before
    /\ head' = [head EXCEPT ![m] = tip] /\ work' = [work EXCEPT ![m] = At(tip)]
    /\ UNCHANGED <<log, tip>>
Pushes(m) ==
    /\ tip \in log[head[m]].before
    /\ tip' = head[m] /\ UNCHANGED <<log, head, work>>
Merges(m) ==
    LET base == At(Fork(m))
        t == Merged(base, At(head[m]), At(tip))
    IN  /\ Mergeable(base.folder, At(head[m]).folder, At(tip).folder)
        /\ NewCommit(m, t, log[head[m]].before \cup log[tip].before)
        /\ work' = [work EXCEPT ![m] = t] /\ tip' = Len(log) + 1

LEMMA ExchangeCases ==
    ASSUME NEW m \in Machines, Exchange(m)
    PROVE  /\ ~Dirty(m) /\ (Overtake \/ sync[m] = Idle)
           /\ UNCHANGED <<made, graph, sync, raised, commands>>
           /\ Pulls(m) \/ Pushes(m) \/ Merges(m)
  BY DEF Exchange, Pulls, Pushes, Merges, Merged, Fork

LEMMA MergedType ==
    ASSUME NEW b \in Tree, NEW o \in Tree, NEW t \in Tree
    PROVE  /\ Merged(b, o, t) \in Tree
           /\ \A k \in Nat : o.folder <= k /\ t.folder <= k => Merged(b, o, t).folder <= k
  BY ConstantsAssumption DEF Merged, MergedFile, Tree

LEMMA ForkIs ==
    ASSUME VaultType, NEW m \in Machines, NEW c \in DOMAIN log,
           log[head[m]].before \cap log[tip].before = log[c].before
    PROVE  Fork(m) = c
  <1>1. c \in log[c].before /\ log[c].before \subseteq 1 .. c /\ c \in Nat
    BY DEF VaultType
  <1>2. QED
    BY <1>1 DEF Fork, Max

LEMMA ForkType ==
    ASSUME VaultType, Forks, NEW m \in Machines
    PROVE  /\ Fork(m) \in DOMAIN log
           /\ log[head[m]].before \cap log[tip].before = log[Fork(m)].before
           /\ Fork(m) \in log[head[m]].before /\ Fork(m) \in log[tip].before
  <1>1. PICK c \in DOMAIN log : log[head[m]].before \cap log[tip].before = log[c].before
    BY DEF Forks
  <1>2. Fork(m) = c
    BY <1>1, ForkIs
  <1>3. c \in log[c].before
    BY DEF VaultType
  <1>4. QED
    BY <1>1, <1>2, <1>3

-----------------------------------------------------------------------------
(* What each step of the vault does to the clones, the remote and their    *)
(* forks.                                                                  *)

(* The log only grows.                                                     *)
Grown ==
    /\ DOMAIN log \subseteq DOMAIN log'
    /\ \A c \in DOMAIN log : log'[c] = log[c]

(* Every clone but m, its fork and its working tree stay.                  *)
OthersStay(m) ==
    \A n \in Machines \ {m} : /\ head'[n] = head[n] /\ work'[n] = work[n]
                              /\ Fork(n)' = Fork(n)

VaultInv == VaultType /\ Rooted /\ Extracted /\ Forks

LEMMA VaultFacts ==
    ASSUME VaultInv
    PROVE  /\ VaultType /\ Rooted /\ Extracted /\ Forks
           /\ Len(log) \in Nat /\ DOMAIN log = 1 .. Len(log) /\ 1 \in DOMAIN log
           /\ tip \in DOMAIN log /\ head \in [Machines -> DOMAIN log] /\ work \in [Machines -> Tree]
           /\ made \in Nat /\ MaxVersions \in Nat
           /\ \A c \in DOMAIN log :
                /\ c \in Nat /\ log[c].tree \in Tree /\ log[c].tree.folder \in 0 .. made
                /\ log[c].tree.record \in BOOLEAN
                /\ log[c].before \in SUBSET Nat /\ log[c].before \subseteq DOMAIN log
                /\ log[c].before \subseteq 1 .. c /\ c \in log[c].before
                /\ \A a \in log[c].before : log[a].before \subseteq log[c].before
           /\ \A m \in Machines : /\ head[m] \in DOMAIN log /\ work[m] \in Tree
                                  /\ work[m].folder \in 0 .. made /\ work[m].record \in BOOLEAN
  <1>1. VaultType /\ Rooted /\ Extracted /\ Forks
    BY DEF VaultInv
  <1>2. /\ log \in Seq([tree : Tree, before : SUBSET Nat]) /\ Len(log) \in 1 .. MaxCommits
        /\ head \in [Machines -> DOMAIN log] /\ tip \in DOMAIN log
        /\ work \in [Machines -> Tree] /\ made \in 1 .. MaxVersions
        /\ MaxCommits \in Nat /\ MaxVersions \in Nat
    BY <1>1, ConstantsAssumption DEF VaultType
  <1>3. Len(log) \in Nat /\ DOMAIN log = 1 .. Len(log) /\ 1 \in DOMAIN log /\ made \in Nat
    BY <1>2
  <1>4. ASSUME NEW c \in DOMAIN log
        PROVE  /\ c \in Nat /\ log[c].tree \in Tree /\ log[c].tree.folder \in 0 .. made
               /\ log[c].tree.record \in BOOLEAN
               /\ log[c].before \in SUBSET Nat /\ log[c].before \subseteq DOMAIN log
               /\ log[c].before \subseteq 1 .. c /\ c \in log[c].before
               /\ \A a \in log[c].before : log[a].before \subseteq log[c].before
    <2>0. c \in 1 .. Len(log) /\ c \in Nat
      BY <1>3
    <2>1. /\ log[c] \in [tree : Tree, before : SUBSET Nat] /\ c \in 1 .. Len(log)
      BY <1>2, <2>0, ElementOfSeq
    <2>2. /\ log[c].before \subseteq 1 .. c /\ c \in log[c].before
          /\ \A a \in log[c].before : log[a].before \subseteq log[c].before
      BY <1>1 DEF VaultType
    <2>3. log[c].tree.folder <= made
      BY <1>1 DEF Extracted
    <2>4. /\ log[c].tree \in Tree /\ log[c].tree.folder \in Nat /\ log[c].tree.record \in BOOLEAN
      BY <2>1, <1>2 DEF Tree
    <2>5. log[c].before \subseteq DOMAIN log
      BY <2>1, <2>2, <1>3
    <2>6. QED
      BY <2>1, <2>2, <2>3, <2>4, <2>5, <2>0, <1>3
  <1>5. ASSUME NEW m \in Machines
        PROVE  /\ head[m] \in DOMAIN log /\ work[m] \in Tree
               /\ work[m].folder \in 0 .. made /\ work[m].record \in BOOLEAN
    <2>1. work[m].folder <= made
      BY <1>1 DEF Extracted
    <2>2. QED
      BY <1>2, <1>3, <2>1 DEF Tree
  <1>6. QED
    BY <1>1, <1>2, <1>3, <1>4, <1>5

(* Forks that every clone keeps, or that step to the new tip.              *)
LEMMA ForksKept ==
    ASSUME Forks, Grown,
           \A n \in Machines :
              \/ log'[head'[n]].before \cap log'[tip'].before = log[head[n]].before \cap log[tip].before
              \/ tip' \in DOMAIN log' /\ log'[head'[n]].before \cap log'[tip'].before = log'[tip'].before
    PROVE  \A n \in Machines : \E d \in DOMAIN log' :
             log'[head'[n]].before \cap log'[tip'].before = log'[d].before
  <1> TAKE n \in Machines
  <1>1. PICK d \in DOMAIN log : log[head[n]].before \cap log[tip].before = log[d].before
    BY DEF Forks
  <1>2. d \in DOMAIN log' /\ log'[d].before = log[d].before
    BY DEF Grown
  <1>3. CASE log'[head'[n]].before \cap log'[tip'].before = log[head[n]].before \cap log[tip].before
    BY <1>1, <1>2, <1>3
  <1>4. CASE tip' \in DOMAIN log' /\ log'[head'[n]].before \cap log'[tip'].before = log'[tip'].before
    BY <1>4
  <1>5. QED
    BY <1>3, <1>4

LEMMA AutoCommitStep ==
    ASSUME VaultInv, NEW m \in Machines, AutoCommit(m)
    PROVE  /\ VaultInv' /\ Grown /\ OthersStay(m)
           /\ head'[m] \in DOMAIN log' \ DOMAIN log /\ DOMAIN log' = DOMAIN log \cup {head'[m]}
           /\ log'[head'[m]].tree = work[m]
           /\ log'[head'[m]].before = log[head[m]].before \cup {head'[m]}
           /\ Fork(m)' = Fork(m) /\ tip' = tip /\ work' = work
  <1>1. PICK c : c = Len(log) + 1
    OBVIOUS
  <1>2. /\ DOMAIN log = 1 .. Len(log) /\ Len(log) \in Nat /\ tip \in DOMAIN log
        /\ work[m] \in Tree /\ head \in [Machines -> DOMAIN log]
        /\ \A d \in DOMAIN log : log[d].before \in SUBSET Nat /\ log[d].before \subseteq DOMAIN log
    BY VaultFacts
  <1>3. /\ NewCommit(m, work[m], log[head[m]].before)
        /\ UNCHANGED <<tip, work, made>>
    BY DEF AutoCommit
  <1>4. \A a \in log[head[m]].before : log[a].before \subseteq log[head[m]].before
    BY <1>2 DEF VaultInv, VaultType
  <1>5. /\ log' \in Seq([tree : Tree, before : SUBSET Nat]) /\ Len(log') = c
        /\ Len(log') \in 1 .. MaxCommits
        /\ DOMAIN log' = DOMAIN log \cup {c} /\ c \notin DOMAIN log
        /\ \A d \in DOMAIN log : log'[d] = log[d] /\ c \notin log[d].before
        /\ log'[c].tree = work[m] /\ log'[c].before = log[head[m]].before \cup {c}
        /\ \A d \in DOMAIN log' :
             /\ d \in log'[d].before /\ log'[d].before \subseteq 1 .. d
             /\ \A a \in log'[d].before : log'[a].before \subseteq log'[d].before
        /\ head' \in [Machines -> DOMAIN log'] /\ head'[m] = c
        /\ \A n \in Machines \ {m} : head'[n] = head[n]
    <2>1. VaultType /\ work[m] \in Tree /\ log[head[m]].before \in SUBSET Nat
          /\ log[head[m]].before \subseteq DOMAIN log
      BY <1>2, VaultFacts
    <2>2. CommitLeaves(m, work[m], log[head[m]].before, c)
      BY <1>1, <1>3, <1>4, <2>1, Committed
    <2>3. QED
      BY <2>2 DEF CommitLeaves
  <1>6. VaultType'
    BY <1>3, <1>5 DEF VaultInv, VaultType
  <1>7. Rooted' /\ Extracted'
    BY <1>2, <1>3, <1>5 DEF VaultInv, Rooted, Extracted
  <1>8. ASSUME NEW n \in Machines
        PROVE  log'[head'[n]].before \cap log'[tip'].before = log[head[n]].before \cap log[tip].before
    <2>1. CASE n = m
      BY <1>2, <1>3, <1>5, <2>1
    <2>2. CASE n # m
      BY <1>2, <1>3, <1>5, <2>2
    <2>3. QED
      BY <2>1, <2>2
  <1>9. ASSUME NEW n \in Machines PROVE Fork(n)' = Fork(n)
    BY <1>8 DEF Fork
  <1>10. Forks'
    <2>1. \A n \in Machines : \E d \in DOMAIN log' :
            log'[head'[n]].before \cap log'[tip'].before = log'[d].before
      <3>1. Forks /\ Grown
        BY <1>5, VaultFacts DEF Grown
      <3>2. QED
        BY <1>8, <3>1, ForksKept
    <2>2. ASSUME NEW n \in Machines, NEW p \in Machines \ {n}
          PROVE  log'[head'[n]].before \cap log'[head'[p]].before \subseteq log'[tip'].before
      <3>1. log[head[n]].before \cap log[head[p]].before \subseteq log[tip].before
        BY DEF VaultInv, Forks
      <3>2. /\ log'[tip'].before = log[tip].before /\ c \notin log[head[n]].before
            /\ c \notin log[head[p]].before
        BY <1>2, <1>3, <1>5
      <3>3. \A q \in Machines : log'[head'[q]].before = IF q = m THEN log[head[m]].before \cup {c}
                                                               ELSE log[head[q]].before
        BY <1>2, <1>5
      <3>4. QED
        BY <3>1, <3>2, <3>3
    <2>3. \E n \in Machines : tip' \in log'[head'[n]].before
      <3>1. PICK n \in Machines : tip \in log[head[n]].before
        BY DEF VaultInv, Forks
      <3>2. log[head[n]].before \subseteq log'[head'[n]].before
        BY <1>2, <1>5
      <3>3. QED
        BY <1>3, <3>1, <3>2
    <2>4. QED
      BY <2>1, <2>2, <2>3 DEF Forks
  <1>11. QED
    BY <1>2, <1>3, <1>5, <1>6, <1>7, <1>9, <1>10 DEF VaultInv, Grown, OthersStay

LEMMA PullsStep ==
    ASSUME VaultInv, NEW m \in Machines, Pulls(m), made' = made
    PROVE  /\ VaultInv' /\ Grown /\ OthersStay(m)
           /\ log' = log /\ head'[m] = tip /\ tip' = tip /\ work'[m] = log[tip].tree
           /\ Fork(m) = head[m] /\ Fork(m)' = tip
           /\ log[head[m]].before \subseteq log[tip].before
  <1>1. /\ DOMAIN log = 1 .. Len(log) /\ Len(log) \in Nat /\ tip \in DOMAIN log
        /\ work \in [Machines -> Tree] /\ head \in [Machines -> DOMAIN log] /\ log[tip].tree \in Tree
    BY VaultFacts
  <1>2. /\ log' = log /\ tip' = tip /\ head[m] \in log[tip].before
        /\ head' = [head EXCEPT ![m] = tip] /\ work' = [work EXCEPT ![m] = log[tip].tree]
    BY DEF Pulls, At
  <1>3. log[head[m]].before \subseteq log[tip].before
    BY <1>1, <1>2 DEF VaultInv, VaultType
  <1>4. VaultType'
    BY <1>1, <1>2 DEF VaultInv, VaultType
  <1>5. Rooted' /\ Extracted'
    BY <1>1, <1>2 DEF VaultInv, Rooted, Extracted
  <1>6. Fork(m) = head[m]
    BY <1>1, <1>3, ForkIs DEF VaultInv
  <1>7. Forks'
    <2>1. \A n \in Machines : \E d \in DOMAIN log' :
            log'[head'[n]].before \cap log'[tip'].before = log'[d].before
      <3>1. Forks /\ Grown
        BY <1>2, VaultFacts DEF Grown
      <3>2. QED
        BY <1>1, <1>2, <3>1, ForksKept
    <2>2. \A n \in Machines : \A p \in Machines \ {n} :
            log'[head'[n]].before \cap log'[head'[p]].before \subseteq log'[tip'].before
      BY <1>1, <1>2 DEF VaultInv, Forks
    <2>3. tip' \in log'[head'[m]].before
      BY <1>1, <1>2, VaultFacts
    <2>4. QED
      BY <2>1, <2>2, <2>3 DEF Forks
  <1>8. Fork(m)' = tip
    <2>1. /\ VaultType' /\ tip \in DOMAIN log' /\ head'[m] = tip
      BY <1>1, <1>2, <1>4
    <2>2. log'[head'[m]].before \cap log'[tip'].before = log'[tip].before
      BY <1>2, <2>1
    <2>3. tip \in log'[tip].before /\ log'[tip].before \subseteq 1 .. tip /\ tip \in Nat
      BY <1>1, <2>1 DEF VaultType
    <2>4. QED
      BY <2>2, <2>3 DEF Fork, Max
  <1>9. \A n \in Machines \ {m} : Fork(n)' = Fork(n) /\ head'[n] = head[n] /\ work'[n] = work[n]
    BY <1>1, <1>2 DEF Fork
  <1>10. QED
    BY <1>1, <1>2, <1>3, <1>4, <1>5, <1>6, <1>7, <1>8, <1>9 DEF VaultInv, Grown, OthersStay

LEMMA PushesStep ==
    ASSUME VaultInv, NEW m \in Machines, Pushes(m), made' = made
    PROVE  /\ VaultInv' /\ Grown /\ OthersStay(m)
           /\ log' = log /\ head' = head /\ tip' = head[m] /\ work' = work
           /\ Fork(m) = tip /\ Fork(m)' = head[m]
  <1>1. /\ DOMAIN log = 1 .. Len(log) /\ Len(log) \in Nat /\ tip \in DOMAIN log
        /\ head \in [Machines -> DOMAIN log]
    BY VaultFacts
  <1>2. /\ log' = log /\ tip' = head[m] /\ head' = head /\ work' = work
        /\ tip \in log[head[m]].before
    BY DEF Pushes
  <1>3. log[tip].before \subseteq log[head[m]].before
    BY <1>1, <1>2 DEF VaultInv, VaultType
  <1>4. VaultType' /\ Rooted' /\ Extracted'
    BY <1>1, <1>2 DEF VaultInv, VaultType, Rooted, Extracted
  <1>5. Fork(m) = tip
    BY <1>1, <1>3, ForkIs DEF VaultInv
  <1>6. ASSUME NEW n \in Machines \ {m}
        PROVE  log'[head'[n]].before \cap log'[tip'].before = log[head[n]].before \cap log[tip].before
    BY <1>2, <1>3 DEF VaultInv, Forks
  <1>7. Forks'
    <2>1. \A n \in Machines : \E d \in DOMAIN log' :
            log'[head'[n]].before \cap log'[tip'].before = log'[d].before
      BY <1>1, <1>2, <1>6 DEF VaultInv, Forks
    <2>2. \A n \in Machines : \A p \in Machines \ {n} :
            log'[head'[n]].before \cap log'[head'[p]].before \subseteq log'[tip'].before
      BY <1>2, <1>3 DEF VaultInv, Forks
    <2>3. head[m] \in log[head[m]].before
      BY <1>1 DEF VaultInv, VaultType
    <2>4. QED
      BY <1>2, <2>1, <2>2, <2>3 DEF Forks
  <1>8. Fork(m)' = head[m]
    <2>1. /\ head[m] \in log[head[m]].before /\ log[head[m]].before \subseteq 1 .. head[m]
          /\ head[m] \in Nat
      BY <1>1 DEF VaultInv, VaultType
    <2>2. QED
      BY <1>2, <2>1 DEF Fork, Max
  <1>9. \A n \in Machines \ {m} : Fork(n)' = Fork(n)
    BY <1>6 DEF Fork
  <1>10. QED
    BY <1>2, <1>4, <1>5, <1>7, <1>8, <1>9 DEF VaultInv, Grown, OthersStay

LEMMA MergesStep ==
    ASSUME VaultInv, NEW m \in Machines, Merges(m), made' = made
    PROVE  /\ VaultInv' /\ Grown /\ OthersStay(m)
           /\ tip' \in DOMAIN log' \ DOMAIN log /\ DOMAIN log' = DOMAIN log \cup {tip'}
           /\ head'[m] = tip' /\ Fork(m)' = tip'
           /\ log'[tip'].tree = Merged(At(Fork(m)), At(head[m]), At(tip))
           /\ log'[tip'].before = log[head[m]].before \cup log[tip].before \cup {tip'}
           /\ work'[m] = log'[tip'].tree
           /\ Mergeable(At(Fork(m)).folder, At(head[m]).folder, At(tip).folder)
  <1> DEFINE t == Merged(At(Fork(m)), At(head[m]), At(tip))
             b == log[head[m]].before \cup log[tip].before
  <1>1. PICK c : c = Len(log) + 1
    OBVIOUS
  <1>2. /\ DOMAIN log = 1 .. Len(log) /\ Len(log) \in Nat /\ tip \in DOMAIN log
        /\ work \in [Machines -> Tree] /\ head \in [Machines -> DOMAIN log]
        /\ \A d \in DOMAIN log : /\ log[d].before \in SUBSET Nat /\ log[d].before \subseteq DOMAIN log
                                 /\ log[d].tree \in Tree
                                 /\ \A a \in log[d].before : log[a].before \subseteq log[d].before
    BY VaultFacts
  <1>3. /\ Mergeable(At(Fork(m)).folder, At(head[m]).folder, At(tip).folder)
        /\ NewCommit(m, t, b) /\ work' = [work EXCEPT ![m] = t] /\ tip' = c
    BY <1>1 DEF Merges
  <1>4. Fork(m) \in DOMAIN log
    BY ForkType DEF VaultInv
  <1>5. t \in Tree /\ t.folder <= made
    <2>1. /\ At(Fork(m)) \in Tree /\ At(head[m]) \in Tree /\ At(tip) \in Tree
          /\ At(head[m]).folder <= made /\ At(tip).folder <= made /\ made \in Nat
      BY <1>2, <1>4, ConstantsAssumption DEF At, VaultInv, Extracted, VaultType
    <2>2. QED
      BY <2>1, MergedType
  <1> HIDE DEF t
  <1>6. b \in SUBSET Nat /\ b \subseteq DOMAIN log /\ \A a \in b : log[a].before \subseteq b
    BY <1>2
  <1>7. /\ log' \in Seq([tree : Tree, before : SUBSET Nat]) /\ Len(log') = c
        /\ Len(log') \in 1 .. MaxCommits
        /\ DOMAIN log' = DOMAIN log \cup {c} /\ c \notin DOMAIN log
        /\ \A d \in DOMAIN log : log'[d] = log[d] /\ c \notin log[d].before
        /\ log'[c].tree = t /\ log'[c].before = b \cup {c}
        /\ \A d \in DOMAIN log' :
             /\ d \in log'[d].before /\ log'[d].before \subseteq 1 .. d
             /\ \A a \in log'[d].before : log'[a].before \subseteq log'[d].before
        /\ head' \in [Machines -> DOMAIN log'] /\ head'[m] = c
        /\ \A n \in Machines \ {m} : head'[n] = head[n]
    <2>1. VaultType
      BY VaultFacts
    <2>2. CommitLeaves(m, t, b, c)
      BY <1>1, <1>3, <1>5, <1>6, <2>1, Committed
    <2>3. QED
      BY <2>2 DEF CommitLeaves
  <1>8. VaultType'
    BY <1>2, <1>3, <1>5, <1>7 DEF VaultInv, VaultType
  <1>9. Rooted' /\ Extracted'
    BY <1>2, <1>3, <1>5, <1>7 DEF VaultInv, Rooted, Extracted
  <1>10. ASSUME NEW n \in Machines \ {m}
         PROVE  log'[head'[n]].before \cap log'[tip'].before = log[head[n]].before \cap log[tip].before
    <2>1. log[head[n]].before \cap log[head[m]].before \subseteq log[tip].before
      BY DEF VaultInv, Forks
    <2>2. /\ log'[head'[n]].before = log[head[n]].before /\ c \notin log[head[n]].before
          /\ log'[tip'].before = b \cup {c}
      BY <1>2, <1>3, <1>7
    <2>3. QED
      BY <2>1, <2>2
  <1>11. Forks'
    <2>1. \A n \in Machines : \E d \in DOMAIN log' :
            log'[head'[n]].before \cap log'[tip'].before = log'[d].before
      <3>1. Forks /\ Grown
        BY <1>7, VaultFacts DEF Grown
      <3>2. log'[head'[m]].before \cap log'[tip'].before = log'[tip'].before /\ tip' \in DOMAIN log'
        BY <1>3, <1>7
      <3>3. QED
        BY <1>10, <3>1, <3>2, ForksKept
    <2>2. \A n \in Machines : \A p \in Machines \ {n} :
            log'[head'[n]].before \cap log'[head'[p]].before \subseteq log'[tip'].before
      <3>1. ASSUME NEW n \in Machines, NEW p \in Machines \ {n}, n # m, p # m
            PROVE  log'[head'[n]].before \cap log'[head'[p]].before \subseteq log'[tip'].before
        <4>1. log[head[n]].before \cap log[head[p]].before \subseteq log[tip].before
          BY <3>1 DEF VaultInv, Forks
        <4>2. /\ head'[n] = head[n] /\ head'[p] = head[p]
              /\ head[n] \in DOMAIN log /\ head[p] \in DOMAIN log
          BY <1>2, <1>7, <3>1
        <4>3. /\ log'[head'[n]] = log[head[n]] /\ log'[head'[p]] = log[head[p]]
              /\ log[tip].before \subseteq log'[tip'].before
          BY <1>3, <1>7, <4>2
        <4>4. QED
          BY <4>1, <4>3
      <3>2. log'[head'[m]].before = log'[tip'].before
        BY <1>3, <1>7
      <3>3. QED
        BY <3>1, <3>2
    <2>3. tip' \in log'[head'[m]].before
      BY <1>3, <1>7
    <2>4. QED
      BY <2>1, <2>2, <2>3 DEF Forks
  <1>12. Fork(m)' = c
    <2>1. /\ c \in log'[c].before /\ log'[c].before \subseteq 1 .. c /\ c \in Nat
      BY <1>1, <1>2, <1>7
    <2>2. QED
      BY <1>3, <1>7, <2>1 DEF Fork, Max
  <1>13. \A n \in Machines \ {m} : Fork(n)' = Fork(n)
    BY <1>10 DEF Fork
  <1>14. QED
    BY <1>2, <1>3, <1>7, <1>8, <1>9, <1>11, <1>12, <1>13 DEF VaultInv, Grown, OthersStay, t

(* A step that changes no more of the vault than m's working tree.         *)
LEMMA WorkStep ==
    ASSUME VaultInv, NEW m \in Machines, NEW t \in Tree, UNCHANGED <<log, head, tip>>,
           work' = [work EXCEPT ![m] = t], made' \in made .. MaxVersions, t.folder <= made'
    PROVE  /\ VaultInv' /\ Grown /\ OthersStay(m) /\ work'[m] = t /\ Fork(m)' = Fork(m)
  <1>1. /\ made \in Nat /\ made' \in 1 .. MaxVersions /\ made <= made' /\ MaxVersions \in Nat
        /\ work \in [Machines -> Tree] /\ DOMAIN log = 1 .. Len(log)
        /\ \A c \in DOMAIN log : log[c].tree.folder \in 0 .. made
        /\ \A n \in Machines : work[n].folder \in 0 .. made
    <2>1. made \in 1 .. MaxVersions
      BY DEF VaultInv, VaultType
    <2>2. QED
      BY <2>1, VaultFacts
  <1>2. VaultType'
    BY <1>1 DEF VaultInv, VaultType
  <1>3. Extracted'
    BY <1>1 DEF VaultInv, Extracted
  <1>4. Rooted' /\ Forks' /\ Grown
    BY DEF VaultInv, Rooted, Forks, Grown
  <1>5. \A n \in Machines : Fork(n)' = Fork(n) /\ head'[n] = head[n] /\ (n # m => work'[n] = work[n])
    BY <1>1 DEF Fork
  <1>6. QED
    BY <1>1, <1>2, <1>3, <1>4, <1>5 DEF VaultInv, OthersStay

LEMMA VaultSame ==
    ASSUME VaultInv, UNCHANGED vault
    PROVE  VaultInv' /\ Grown /\ \A n \in Machines : Fork(n)' = Fork(n)
  BY DEF VaultInv, vault, VaultType, Rooted, Extracted, Forks, Grown, Fork

-----------------------------------------------------------------------------
(* Type correctness.                                                       *)

(* What a plan does, from the trees it goes between.                       *)
LEMMA DocumentStepsAre ==
    ASSUME NEW g, NEW old \in Tree, NEW new \in Tree
    PROVE  /\ DocumentSteps(g, old, new) \in {<<>>, <<"retract">>, <<"replay">>}
           /\ DocumentSteps(g, old, new) = <<"retract">> <=> new.folder = 0 /\ old.folder # 0
           /\ DocumentSteps(g, old, new) = <<"replay">> <=>
                new.folder # 0 /\ new.folder # old.folder /\ ~Unchanged(g, new.folder)
  <1>1. <<"retract">> # <<"replay">> /\ <<>> # <<"retract">> /\ <<>> # <<"replay">>
    <2>1. <<"retract">>[1] = "retract" /\ <<"replay">>[1] = "replay"
      OBVIOUS
    <2>2. QED
      BY <2>1
  <1>2. CASE new.folder = 0 /\ old.folder # 0
    BY <1>1, <1>2 DEF DocumentSteps
  <1>3. CASE new.folder # 0 /\ new.folder # old.folder /\ ~Unchanged(g, new.folder)
    BY <1>1, <1>3 DEF DocumentSteps
  <1>4. CASE /\ ~(new.folder = 0 /\ old.folder # 0)
             /\ ~(new.folder # 0 /\ new.folder # old.folder /\ ~Unchanged(g, new.folder))
    BY <1>1, <1>4 DEF DocumentSteps
  <1>5. QED
    BY <1>2, <1>3, <1>4

LEMMA CurationStepsAre ==
    ASSUME NEW old \in Tree, NEW new \in Tree, NEW d
    PROVE  /\ CurationSteps(old, new, d) \in {<<>>, <<"apply">>, <<"remove">>}
           /\ CurationSteps(old, new, d) = <<"apply">> <=>
                new.record /\ (~old.record \/ d = <<"replay">>)
           /\ CurationSteps(old, new, d) = <<"remove">> <=> old.record /\ ~new.record
  <1>1. <<"apply">> # <<"remove">> /\ <<>> # <<"apply">> /\ <<>> # <<"remove">>
    <2>1. <<"apply">>[1] = "apply" /\ <<"remove">>[1] = "remove"
      OBVIOUS
    <2>2. QED
      BY <2>1
  <1>2. CASE new.record /\ (~old.record \/ d = <<"replay">>)
    BY <1>1, <1>2 DEF CurationSteps
  <1>3. CASE old.record /\ ~new.record
    BY <1>1, <1>3 DEF CurationSteps
  <1>4. CASE ~(new.record /\ (~old.record \/ d = <<"replay">>)) /\ ~(old.record /\ ~new.record)
    BY <1>1, <1>4 DEF CurationSteps
  <1>5. QED
    BY <1>2, <1>3, <1>4

(* The plan of a sync between two trees, and what it has to do.            *)
PlanOf(g, old, new) ==
    Plan(DocumentSteps(g, old, new), CurationSteps(old, new, DocumentSteps(g, old, new)))

LEMMA PlanFits ==
    ASSUME NEW g, NEW old \in Tree, NEW new \in Tree
    PROVE  /\ Fits(PlanOf(g, old, new), old, new) /\ PlanOf(g, old, new) # <<>>
           /\ "retract" \in Range(PlanOf(g, old, new)) <=> new.folder = 0 /\ old.folder # 0
           /\ "replay" \in Range(PlanOf(g, old, new)) <=>
                new.folder # 0 /\ new.folder # old.folder /\ ~Unchanged(g, new.folder)
           /\ new.record /\ ~old.record => "apply" \in Range(PlanOf(g, old, new))
           /\ "remove" \in Range(PlanOf(g, old, new)) <=> old.record /\ ~new.record
  <1> DEFINE d == DocumentSteps(g, old, new)
             r == CurationSteps(old, new, d)
  <1>1. /\ d \in {<<>>, <<"retract">>, <<"replay">>}
        /\ d = <<"retract">> <=> new.folder = 0 /\ old.folder # 0
        /\ d = <<"replay">> <=> new.folder # 0 /\ new.folder # old.folder /\ ~Unchanged(g, new.folder)
    BY DocumentStepsAre
  <1> HIDE DEF d
  <1>2. /\ r \in {<<>>, <<"apply">>, <<"remove">>}
        /\ r = <<"apply">> <=> new.record /\ (~old.record \/ d = <<"replay">>)
        /\ r = <<"remove">> <=> old.record /\ ~new.record
    BY CurationStepsAre
  <1> HIDE DEF r
  <1>3. PlanOf(g, old, new) = Plan(d, r)
    BY DEF PlanOf, d, r
  <1>4. /\ Planned(Plan(d, r)) /\ Plan(d, r) # <<>>
        /\ "retract" \in Range(Plan(d, r)) <=> d = <<"retract">>
        /\ "replay" \in Range(Plan(d, r)) <=> d = <<"replay">>
        /\ "apply" \in Range(Plan(d, r)) <=> r = <<"apply">>
        /\ "remove" \in Range(Plan(d, r)) <=> r = <<"remove">>
    BY <1>1, <1>2, PlanPlanned
  <1>5. QED
    BY <1>1, <1>2, <1>3, <1>4 DEF Fits

(* Nothing of a sync is lost when the log grows under it.                  *)
LEMMA SyncKept ==
    ASSUME Base, VaultInv', Grown, sync' = sync,
           \A n \in Machines : log[head[n]].before \subseteq log'[head'[n]].before
    PROVE  SyncType' /\ Plans'
  <1>1. VaultInv
    BY TypeParts DEF Base, VaultInv
  <1>2. ASSUME NEW n \in Machines
        PROVE  /\ sync[n].head \in DOMAIN log /\ sync[n].base \in DOMAIN log
               /\ sync[n].head \in log'[head'[n]].before
    <2>1. /\ sync[n].head \in log[head[n]].before /\ sync[n].base \in log[sync[n].head].before
      BY DEF Base, TypeOK
    <2>2. sync[n].head \in DOMAIN log
      BY <1>1, <2>1, VaultFacts
    <2>3. QED
      BY <1>1, <2>1, <2>2, VaultFacts
  <1>3. SyncType
    BY TypeParts DEF Base
  <1>4. SyncType'
    BY <1>2, <1>3 DEF SyncType, Grown
  <1>5. Plans'
    BY <1>2 DEF Base, Plans, Grown, At
  <1>6. QED
    BY <1>4, <1>5

LEMMA GraphKept ==
    ASSUME Base, VaultInv', Grown, made' >= made, UNCHANGED graph
    PROVE  GraphType'
  <1>1. GraphType /\ made \in Nat /\ made' \in Nat
    BY TypeParts, VaultFacts, ConstantsAssumption DEF Base, VaultInv, VaultType
  <1>2. 1 .. made \subseteq 1 .. made' /\ DOMAIN log \subseteq DOMAIN log'
    BY <1>1 DEF Grown
  <1>3. QED
    BY <1>1, <1>2 DEF GraphType, graph

(* A step of a sync, and what is left after it.                            *)
Done(m, step) ==
    /\ Planned(sync[m].todo) /\ sync[m].todo # <<>> /\ step \in Range(sync[m].todo)
    /\ \A x \in Range(sync[m].todo) \ {step} : Place(step) < Place(x)
    /\ step = "advance" => sync'[m] = Idle
    /\ step # "advance" =>
         /\ sync'[m].todo # <<>> /\ sync'[m].base = sync[m].base /\ sync'[m].head = sync[m].head
         /\ Range(sync'[m].todo) = Range(sync[m].todo) \ {step}
    /\ \A n \in Machines \ {m} : sync'[n] = sync[n]

LEMMA DoingDone ==
    ASSUME Base, NEW m \in Machines, NEW step, Doing(m, step)
    PROVE  Done(m, step) /\ SyncType' /\ Plans'
  <1> DEFINE s == sync[m].todo
  <1>1. /\ s # <<>> /\ Head(s) = step /\ UNCHANGED vault
        /\ sync' = [sync EXCEPT ![m] = IF step = "advance" THEN Idle ELSE [sync[m] EXCEPT !.todo = Tail(s)]]
    BY DEF Doing
  <1>2. /\ SyncType /\ VaultInv
    BY TypeParts DEF Base, VaultInv
  <1>3. Planned(s)
    BY DEF Base, Plans, Fits
  <1>4. /\ Planned(Tail(s)) /\ Head(s) \in Steps
        /\ Range(Tail(s)) = Range(s) \ {Head(s)} /\ Head(s) \in Range(s)
        /\ \A x \in Range(Tail(s)) : Place(Head(s)) < Place(x) /\ x \in Steps
        /\ Tail(s) = <<>> <=> Head(s) = "advance"
    BY <1>1, <1>3, TailPlanned
  <1> HIDE DEF s
  <1>5. /\ sync[m] \in [todo : Seq(Steps), base : Nat, head : Nat]
        /\ sync \in [Machines -> [todo : Seq(Steps), base : Nat, head : Nat]]
    BY <1>2 DEF SyncType
  <1>6. CASE step = "advance"
    <2>1. sync' = [sync EXCEPT ![m] = Idle]
      BY <1>1, <1>6
    <2>2. /\ Idle \in [todo : Seq(Steps), base : Nat, head : Nat] /\ Idle.todo = <<>>
          /\ Idle.base = 1 /\ Idle.head = 1 /\ Planned(<<>>) /\ Range(<<>>) = {}
      BY DEF Idle, Planned, Range
    <2>3. \A n \in Machines : sync'[n] = IF n = m THEN Idle ELSE sync[n]
      BY <1>5, <2>1
    <2>4. Done(m, step)
      BY <1>1, <1>3, <1>4, <1>6, <2>3 DEF Done, s
    <2>5. /\ 1 \in log[1].before /\ 1 \in log[head[m]].before
      BY <1>2, VaultFacts DEF Rooted
    <2>6. log' = log /\ head' = head
      BY <1>1 DEF vault
    <2>7. SyncType'
      <3>1. sync' \in [Machines -> [todo : Seq(Steps), base : Nat, head : Nat]]
        BY <1>5, <2>1, <2>2
      <3>2. ASSUME NEW n \in Machines
            PROVE  /\ sync'[n].base \in log[sync'[n].head].before
                   /\ sync'[n].head \in log[head[n]].before
                   /\ \A i \in DOMAIN sync'[n].todo : \A j \in 1 .. (i - 1) :
                        Place(sync'[n].todo[j]) < Place(sync'[n].todo[i])
        <4>1. CASE n = m
          BY <2>2, <2>3, <2>5, <4>1
        <4>2. CASE n # m
          BY <1>2, <2>3, <4>2 DEF SyncType
        <4>3. QED
          BY <4>1, <4>2
      <3>3. QED
        BY <2>6, <3>1, <3>2 DEF SyncType
    <2>8. Plans'
      BY <2>2, <2>3, <2>6 DEF Base, Plans, Fits, At
    <2>9. QED
      BY <2>4, <2>7, <2>8
  <1>7. CASE step # "advance"
    <2> DEFINE e == [sync[m] EXCEPT !.todo = Tail(s)]
    <2>1. sync' = [sync EXCEPT ![m] = e]
      BY <1>1, <1>7 DEF s
    <2>2. e.todo = Tail(s) /\ e.base = sync[m].base /\ e.head = sync[m].head
      BY <1>5
    <2>3. /\ e \in [todo : Seq(Steps), base : Nat, head : Nat]
      BY <1>4, <1>5 DEF Planned
    <2> HIDE DEF e
    <2>4. \A n \in Machines : sync'[n] = IF n = m THEN e ELSE sync[n]
      BY <1>5, <2>1
    <2>5. Done(m, step)
      BY <1>1, <1>3, <1>4, <1>7, <2>2, <2>4 DEF Done, s
    <2>6. log' = log /\ head' = head
      BY <1>1 DEF vault
    <2>7. SyncType'
      <3>1. sync' \in [Machines -> [todo : Seq(Steps), base : Nat, head : Nat]]
        BY <1>5, <2>1, <2>3
      <3>2. \A n \in Machines : /\ sync'[n].base = sync[n].base /\ sync'[n].head = sync[n].head
                                /\ (n # m => sync'[n].todo = sync[n].todo)
        BY <2>2, <2>4
      <3>3. \A i \in DOMAIN sync'[m].todo : \A j \in 1 .. (i - 1) :
              Place(sync'[m].todo[j]) < Place(sync'[m].todo[i])
        BY <1>4, <2>2, <2>4 DEF Planned
      <3>4. QED
        BY <1>2, <2>6, <3>1, <3>2, <3>3 DEF SyncType
    <2>8. Plans'
      <3>1. Fits(s, At(sync[m].base), At(sync[m].head))
        BY DEF Base, Plans, s
      <3>2. "replay" \in Range(Tail(s)) => "apply" # step
        BY <1>1, <1>4, StagesOrder
      <3>3. Fits(Tail(s), At(sync[m].base), At(sync[m].head))
        BY <1>1, <1>4, <3>1, <3>2 DEF Fits
      <3>4. \A c : At(c)' = At(c)
        BY <2>6 DEF At
      <3>5. QED
        BY <2>2, <2>4, <3>3, <3>4 DEF Base, Plans
    <2>9. QED
      BY <2>5, <2>7, <2>8
  <1>8. QED
    BY <1>6, <1>7

LEMMA BeginSyncBegins ==
    ASSUME Base, NEW m \in Machines, BeginSync(m), NEW b, b = bookmark[GraphOf[m]]
    PROVE  /\ SyncType' /\ Plans' /\ b \in DOMAIN log /\ b \in log[head[m]].before /\ b # head[m]
           /\ sync'[m].todo = PlanOf(GraphOf[m], At(b), At(head[m])) /\ sync'[m].todo # <<>>
           /\ sync'[m].base = b /\ sync'[m].head = head[m]
           /\ \A n \in Machines \ {m} : sync'[n] = sync[n]
  <1> DEFINE p == PlanOf(GraphOf[m], At(b), At(head[m]))
             e == [todo |-> p, base |-> b, head |-> head[m]]
  <1>1. /\ SyncType /\ GraphType /\ VaultInv /\ GraphOf[m] \in Graphs
    BY TypeParts, ConstantsAssumption DEF Base, VaultInv
  <1>2. /\ sync' = [sync EXCEPT ![m] = e] /\ UNCHANGED <<vault, graph>>
        /\ b \in log[head[m]].before /\ b # head[m]
    BY DEF BeginSync, PlanOf
  <1>3. /\ b \in DOMAIN log /\ b \in Nat /\ head[m] \in DOMAIN log /\ head[m] \in Nat
        /\ At(b) \in Tree /\ At(head[m]) \in Tree /\ head[m] \in log[head[m]].before
    BY <1>1, <1>2, VaultFacts DEF At
  <1>4. Fits(p, At(b), At(head[m])) /\ p # <<>>
    BY <1>3, PlanFits
  <1> HIDE DEF p
  <1>5. Planned(p)
    BY <1>4 DEF Fits
  <1>6. e \in [todo : Seq(Steps), base : Nat, head : Nat]
    BY <1>3, <1>5 DEF Planned
  <1>7. e.todo = p /\ e.base = b /\ e.head = head[m]
    OBVIOUS
  <1> HIDE DEF e
  <1>8. /\ sync \in [Machines -> [todo : Seq(Steps), base : Nat, head : Nat]]
        /\ \A n \in Machines : sync'[n] = IF n = m THEN e ELSE sync[n]
    BY <1>1, <1>2 DEF SyncType
  <1>9. log' = log /\ head' = head /\ \A c : At(c)' = At(c)
    BY <1>2 DEF vault, At
  <1>10. SyncType'
    <2>1. sync' \in [Machines -> [todo : Seq(Steps), base : Nat, head : Nat]]
      BY <1>2, <1>6, <1>8
    <2>2. \A i \in DOMAIN e.todo : \A j \in 1 .. (i - 1) : Place(e.todo[j]) < Place(e.todo[i])
      BY <1>5, <1>7 DEF Planned
    <2>3. \A n \in Machines : /\ sync'[n].base \in log[sync'[n].head].before
                              /\ sync'[n].head \in log[head[n]].before
                              /\ \A i \in DOMAIN sync'[n].todo : \A j \in 1 .. (i - 1) :
                                   Place(sync'[n].todo[j]) < Place(sync'[n].todo[i])
      BY <1>1, <1>2, <1>3, <1>7, <1>8, <2>2 DEF SyncType
    <2>4. QED
      BY <1>9, <2>1, <2>3 DEF SyncType
  <1>11. Plans'
    BY <1>4, <1>7, <1>8, <1>9 DEF Base, Plans
  <1>12. QED
    BY <1>2, <1>3, <1>4, <1>7, <1>8, <1>10, <1>11 DEF p

LEMMA FailSyncFails ==
    ASSUME Base, NEW m \in Machines, FailSync(m)
    PROVE  /\ SyncType' /\ Plans' /\ sync[m].todo # <<>> /\ sync'[m].todo = <<>>
           /\ sync'[m].base = sync[m].base /\ sync'[m].head = sync[m].head
           /\ \A n \in Machines \ {m} : sync'[n] = sync[n]
  <1> DEFINE e == [sync[m] EXCEPT !.todo = <<>>]
  <1>1. /\ SyncType /\ sync[m] \in [todo : Seq(Steps), base : Nat, head : Nat]
    BY TypeParts DEF Base, SyncType
  <1>2. /\ sync' = [sync EXCEPT ![m] = e] /\ UNCHANGED vault /\ sync[m].todo # <<>>
    BY DEF FailSync
  <1>3. /\ e \in [todo : Seq(Steps), base : Nat, head : Nat]
        /\ e.todo = <<>> /\ e.base = sync[m].base /\ e.head = sync[m].head
    <2>1. <<>> \in Seq(Steps)
      OBVIOUS
    <2>2. QED
      BY <1>1, <2>1
  <1> HIDE DEF e
  <1>4. /\ sync \in [Machines -> [todo : Seq(Steps), base : Nat, head : Nat]]
        /\ \A n \in Machines : sync'[n] = IF n = m THEN e ELSE sync[n]
    BY <1>1, <1>2 DEF SyncType
  <1>5. log' = log /\ head' = head /\ \A c : At(c)' = At(c)
    BY <1>2 DEF vault, At
  <1>6. SyncType'
    BY <1>1, <1>2, <1>3, <1>4, <1>5 DEF SyncType
  <1>7. Fits(<<>>, At(sync[m].base), At(sync[m].head))
    BY DEF Fits, Planned, Range
  <1>8. Plans'
    BY <1>3, <1>4, <1>5, <1>7 DEF Base, Plans
  <1>9. QED
    BY <1>2, <1>3, <1>4, <1>6, <1>8

LEMMA BaseParts ==
    Base <=> /\ VaultInv /\ GraphType /\ SyncType /\ Plans
             /\ raised \subseteq Machines /\ commands \in 0 .. MaxCommands
  BY TypeParts DEF Base, VaultInv

LEMMA BaseNext ==
    ASSUME VaultInv', GraphType', SyncType', Plans', raised' \subseteq Machines, commands' \in 0 .. MaxCommands
    PROVE  Base'
  <1>1. TypeOK'
    BY DEF TypeOK, VaultInv, VaultType, GraphType, SyncType
  <1>2. QED
    BY <1>1 DEF Base, VaultInv

LEMMA BaseInit == Init => Base
  <1> SUFFICES ASSUME Init PROVE Base
    OBVIOUS
  <1>1. /\ Len(log) = 1 /\ DOMAIN log = {1} /\ log[1].tree = First /\ log[1].before = {1}
        /\ log[1] = [tree |-> First, before |-> {1}] /\ log = <<log[1]>>
    BY DEF Init
  <1>2. First \in Tree /\ First.folder = 1 /\ MaxVersions \in Nat \ {0} /\ MaxCommits \in Nat \ {0}
    BY ConstantsAssumption DEF First, Tree
  <1>3. log \in Seq([tree : Tree, before : SUBSET Nat])
    <2> DEFINE e == [tree |-> First, before |-> {1}]
    <2>1. e \in [tree : Tree, before : SUBSET Nat] /\ log = <<e>>
      BY <1>2 DEF Init
    <2> HIDE DEF e
    <2>2. QED
      BY <2>1
  <1>4. VaultType
    BY <1>1, <1>2, <1>3 DEF VaultType, Init
  <1>5. Rooted /\ Extracted
    BY <1>1, <1>2 DEF Rooted, Extracted, Init
  <1>6. Forks
    <2>1. /\ \A m \in Machines : head[m] = 1
          /\ tip = 1 /\ log[1].before = {1} /\ 1 \in DOMAIN log
      BY <1>1 DEF Init
    <2>2. QED
      BY <2>1 DEF Forks
  <1>7. GraphType
    BY <1>1 DEF GraphType, Init
  <1>8. /\ Idle \in [todo : Seq(Steps), base : Nat, head : Nat] /\ Idle.todo = <<>>
        /\ Idle.base = 1 /\ Idle.head = 1 /\ \A a, b : Fits(<<>>, a, b)
    BY DEF Idle, Fits, Planned, Range
  <1>9. SyncType /\ Plans
    BY <1>1, <1>8 DEF SyncType, Plans, Init
  <1>10. QED
    BY <1>4, <1>5, <1>6, <1>7, <1>9, ConstantsAssumption, BaseParts DEF Init, VaultInv

(* A step that leaves the graphs and the syncs alone.                      *)
LEMMA BaseVault ==
    ASSUME Base, VaultInv', Grown, made' >= made, UNCHANGED <<graph, sync>>,
           \A n \in Machines : log[head[n]].before \subseteq log'[head'[n]].before,
           raised' \subseteq Machines, commands' \in 0 .. MaxCommands
    PROVE  Base'
  <1>1. GraphType'
    BY GraphKept
  <1>2. SyncType' /\ Plans'
    BY SyncKept
  <1>3. QED
    BY <1>1, <1>2, BaseNext

LEMMA BaseAutoCommit == ASSUME Base, NEW m \in Machines, AutoCommit(m) PROVE Base'
  <1>1. VaultInv /\ raised \subseteq Machines /\ commands \in 0 .. MaxCommands
    BY BaseParts
  <1>2. UNCHANGED <<made, graph, sync, raised, commands>>
    BY DEF AutoCommit
  <1>3. /\ VaultInv' /\ Grown /\ OthersStay(m)
        /\ log'[head'[m]].before = log[head[m]].before \cup {head'[m]}
    BY <1>1, AutoCommitStep
  <1>4. \A n \in Machines : log[head[n]].before \subseteq log'[head'[n]].before
    BY <1>1, <1>3, VaultFacts DEF OthersStay, Grown
  <1>5. made' >= made
    BY <1>1, <1>2, VaultFacts
  <1>6. QED
    BY <1>1, <1>2, <1>3, <1>4, <1>5, BaseVault

LEMMA BaseExchange == ASSUME Base, NEW m \in Machines, Exchange(m) PROVE Base'
  <1>1. VaultInv /\ raised \subseteq Machines /\ commands \in 0 .. MaxCommands
    BY BaseParts
  <1>2. /\ UNCHANGED <<made, graph, sync, raised, commands>>
        /\ Pulls(m) \/ Pushes(m) \/ Merges(m)
    BY ExchangeCases
  <1>3. /\ VaultInv' /\ Grown /\ OthersStay(m)
        /\ log[head[m]].before \subseteq log'[head'[m]].before
    <2>1. CASE Pulls(m)
      BY <1>1, <1>2, <2>1, PullsStep
    <2>2. CASE Pushes(m)
      BY <1>1, <1>2, <2>2, PushesStep
    <2>3. CASE Merges(m)
      BY <1>1, <1>2, <2>3, MergesStep
    <2>4. QED
      BY <1>2, <2>1, <2>2, <2>3
  <1>4. \A n \in Machines : log[head[n]].before \subseteq log'[head'[n]].before
    BY <1>1, <1>3, VaultFacts DEF OthersStay, Grown
  <1>5. made' >= made
    BY <1>1, <1>2, VaultFacts
  <1>6. QED
    BY <1>1, <1>2, <1>3, <1>4, <1>5, BaseVault

(* What the commands make of the working tree.                             *)
LEMMA Rewritten ==
    ASSUME Base, NEW m \in Machines
    PROVE  /\ Remove(m) => /\ work' = [work EXCEPT ![m] = [folder |-> 0, record |-> work[m].record]]
                           /\ made' = made
           /\ Stage(m) =>
                /\ work' = [work EXCEPT ![m] = [folder |-> made + 1, record |-> work[m].record]]
                /\ made' = made + 1 /\ made < MaxVersions
           /\ Retire(m) => /\ work' = [work EXCEPT ![m] = [folder |-> work[m].folder, record |-> TRUE]]
                           /\ made' = made
           /\ Restore(m) =>
                /\ work' = [work EXCEPT ![m] = [folder |-> work[m].folder, record |-> FALSE]]
                /\ made' = made
           /\ Remove(m) \/ Stage(m) \/ Retire(m) \/ Restore(m) => UNCHANGED <<log, head, tip, sync, bookmark>>
  <1>1. work[m] \in [folder : 0 .. MaxVersions, record : BOOLEAN] /\ work \in [Machines -> Tree]
    BY BaseParts, VaultFacts DEF Tree
  <1>2. /\ \A k : [work[m] EXCEPT !.folder = k] = [folder |-> k, record |-> work[m].record]
        /\ \A k : [work[m] EXCEPT !.record = k] = [folder |-> work[m].folder, record |-> k]
    BY <1>1
  <1>3. Remove(m) => /\ work' = [work EXCEPT ![m] = [work[m] EXCEPT !.folder = 0]] /\ made' = made
                     /\ UNCHANGED <<log, head, tip, sync, bookmark>>
    BY DEF Remove, graph
  <1>4. Stage(m) => /\ work' = [work EXCEPT ![m] = [work[m] EXCEPT !.folder = made + 1]]
                    /\ made' = made + 1 /\ made < MaxVersions
                    /\ UNCHANGED <<log, head, tip, sync, bookmark>>
    BY DEF Stage, graph
  <1>5. Retire(m) => /\ work' = [work EXCEPT ![m] = [work[m] EXCEPT !.record = TRUE]] /\ made' = made
                     /\ UNCHANGED <<log, head, tip, sync, bookmark>>
    BY DEF Retire
  <1>6. Restore(m) => /\ work' = [work EXCEPT ![m] = [work[m] EXCEPT !.record = FALSE]] /\ made' = made
                      /\ UNCHANGED <<log, head, tip, sync, bookmark>>
    BY DEF Restore
  <1>7. QED
    BY <1>2, <1>3, <1>4, <1>5, <1>6

LEMMA RewriteStep ==
    ASSUME Base, NEW m \in Machines, Remove(m) \/ Stage(m) \/ Retire(m) \/ Restore(m)
    PROVE  /\ VaultInv' /\ Grown /\ OthersStay(m) /\ Fork(m)' = Fork(m) /\ made' >= made
           /\ UNCHANGED <<log, head, tip, sync, bookmark>>
  <1>1. /\ VaultInv /\ work[m] \in Tree /\ work[m].folder \in 0 .. made /\ work[m].record \in BOOLEAN
        /\ made \in Nat /\ made \in 1 .. MaxVersions /\ MaxVersions \in Nat
    BY BaseParts, VaultFacts DEF VaultInv, VaultType
  <1>2. PICK f, r : /\ work' = [work EXCEPT ![m] = [folder |-> f, record |-> r]] /\ r \in BOOLEAN
                    /\ \/ f = made + 1 /\ made' = made + 1 /\ made < MaxVersions
                       \/ f \in {0, work[m].folder} /\ made' = made
    BY <1>1, Rewritten
  <1> DEFINE t == [folder |-> f, record |-> r]
  <1>3. t \in Tree /\ t.folder <= made' /\ made' \in made .. MaxVersions /\ made' >= made
    <2>1. f \in 0 .. MaxVersions /\ f <= made' /\ made' \in made .. MaxVersions /\ made' >= made
      BY <1>1, <1>2
    <2>2. QED
      BY <1>2, <2>1 DEF Tree
  <1>4. UNCHANGED <<log, head, tip, sync, bookmark>>
    BY Rewritten
  <1>5. QED
    BY <1>1, <1>2, <1>3, <1>4, WorkStep

LEMMA BaseRewrite ==
    ASSUME Base, NEW m \in Machines, Remove(m) \/ Stage(m) \/ Retire(m) \/ Restore(m)
    PROVE  Base'
  <1>1. /\ VaultInv /\ GraphType /\ SyncType /\ Plans
        /\ raised \subseteq Machines /\ commands \in 0 .. MaxCommands
        /\ GraphOf[m] \in Graphs /\ MaxCommands \in Nat
    BY BaseParts, ConstantsAssumption
  <1>2. /\ VaultInv' /\ Grown /\ made' >= made /\ UNCHANGED <<log, head, tip, sync, bookmark>>
    BY RewriteStep
  <1>3. SyncType' /\ Plans'
    BY <1>2, SyncKept
  <1>4. raised' \subseteq Machines /\ commands' \in 0 .. MaxCommands
    BY <1>1 DEF Remove, Stage, Retire, Restore, Command
  <1>5. /\ label' \in [Graphs -> {"live", "history"}] /\ mark' \in [Graphs -> BOOLEAN]
        /\ version' = version
    BY <1>1 DEF GraphType, Remove, Stage, Retire, Restore, graph, Retires, ToHistory, ToLatest
  <1>6. GraphType'
    <2>1. made \in Nat /\ made' \in Nat
      BY <1>1, <1>2, VaultFacts DEF VaultInv, VaultType
    <2>2. 1 .. made \subseteq 1 .. made'
      BY <1>2, <2>1
    <2>3. QED
      BY <1>1, <1>2, <1>5, <2>2 DEF GraphType
  <1>7. QED
    BY <1>2, <1>3, <1>4, <1>6, BaseNext

LEMMA BaseCommitDocument == ASSUME Base, NEW m \in Machines, CommitDocument(m) PROVE Base'
  <1>1. /\ raised \subseteq Machines /\ commands \in 0 .. MaxCommands
        /\ VaultInv /\ GraphType /\ GraphOf[m] \in Graphs /\ UNCHANGED <<vault, sync, raised, commands>>
    BY BaseParts, ConstantsAssumption DEF CommitDocument
  <1>2. VaultInv' /\ Grown /\ work[m].folder \in 1 .. made
    BY <1>1, VaultSame, VaultFacts DEF CommitDocument
  <1>3. GraphType'
    BY <1>1, <1>2 DEF GraphType, CommitDocument, CommitsDocument, ToHistory, ToLatest, vault
  <1>4. SyncType' /\ Plans'
    BY <1>1, <1>2, SyncKept DEF vault
  <1>5. QED
    BY <1>1, <1>2, <1>3, <1>4, BaseNext

LEMMA BaseDoing ==
    ASSUME Base, NEW m \in Machines,
           Replay(m) \/ Retract(m) \/ ApplyRecord(m) \/ RemoveRecord(m) \/ Advance(m)
    PROVE  Base'
  <1>1. PICK step : Doing(m, step) /\ (Replay(m) => step = "replay")
    BY DEF Replay, Retract, ApplyRecord, RemoveRecord, Advance
  <1>2. /\ raised \subseteq Machines /\ commands \in 0 .. MaxCommands
        /\ VaultInv /\ GraphType /\ SyncType /\ GraphOf[m] \in Graphs
        /\ UNCHANGED <<vault, raised, commands>>
    BY <1>1, BaseParts, ConstantsAssumption DEF Doing
  <1>3. Done(m, step) /\ SyncType' /\ Plans'
    BY <1>1, DoingDone
  <1>4. sync[m].head \in DOMAIN log
    <2>1. sync[m].head \in log[head[m]].before
      BY <1>2 DEF SyncType
    <2>2. QED
      BY <1>2, <2>1, VaultFacts
  <1>5. Replay(m) => At(sync[m].head).folder \in 1 .. made
    <2>1. Replay(m) => "replay" \in Range(sync[m].todo)
      BY <1>1, <1>3 DEF Done
    <2>2. Replay(m) => At(sync[m].head).folder # 0
      BY <2>1 DEF Base, Plans, Fits
    <2>3. At(sync[m].head).folder \in 0 .. made
      BY <1>2, <1>4, VaultFacts DEF At
    <2>4. QED
      BY <2>2, <2>3
  <1>6. GraphType'
    <2>1. CASE Replay(m)
      BY <1>2, <1>5, <2>1 DEF GraphType, Replay, CommitsDocument, ToHistory, ToLatest, vault
    <2>2. CASE Retract(m)
      BY <1>2, <2>2 DEF GraphType, Retract, Retracts, ToHistory, vault
    <2>3. CASE ApplyRecord(m)
      BY <1>2, <2>3 DEF GraphType, ApplyRecord, Retires, ToHistory, vault
    <2>4. CASE RemoveRecord(m)
      BY <1>2, <2>4 DEF GraphType, RemoveRecord, Unretires, ToLatest, vault
    <2>5. CASE Advance(m)
      BY <1>2, <1>4, <2>5 DEF GraphType, Advance, vault
    <2>6. QED
      BY <2>1, <2>2, <2>3, <2>4, <2>5
  <1>7. VaultInv'
    BY <1>2, VaultSame
  <1>8. QED
    BY <1>2, <1>3, <1>6, <1>7, BaseNext

LEMMA BaseSync == ASSUME Base, NEW m \in Machines, BeginSync(m) \/ FailSync(m) PROVE Base'
  <1>1. /\ UNCHANGED <<vault, graph, raised, commands>>
        /\ raised \subseteq Machines /\ commands \in 0 .. MaxCommands
    BY BaseParts DEF BeginSync, FailSync
  <1>2. SyncType' /\ Plans'
    BY BeginSyncBegins, FailSyncFails
  <1>3. VaultInv' /\ Grown /\ made' >= made
    BY <1>1, BaseParts, VaultSame, VaultFacts DEF vault
  <1>4. GraphType'
    BY <1>1, <1>3, GraphKept
  <1>5. QED
    BY <1>1, <1>2, <1>3, <1>4, BaseNext

LEMMA BaseStep == Base /\ [Next]_vars => Base'
  <1> SUFFICES ASSUME Base, [Next]_vars PROVE Base'
    OBVIOUS
  <1>1. CASE UNCHANGED vars
    BY <1>1 DEF Base, vars, vault, graph, TypeOK, Rooted, Extracted, Forks, Plans, At
  <1>2. CASE Next
    <2>1. PICK m \in Machines :
            \/ AutoCommit(m) \/ Exchange(m) \/ Remove(m)
            \/ Stage(m) \/ CommitDocument(m) \/ Retire(m) \/ Restore(m)
            \/ BeginSync(m) \/ Replay(m) \/ Retract(m) \/ ApplyRecord(m) \/ RemoveRecord(m)
            \/ Advance(m) \/ FailSync(m)
      BY <1>2 DEF Next
    <2>2. QED
      BY <2>1, BaseAutoCommit, BaseExchange, BaseRewrite, BaseCommitDocument, BaseDoing, BaseSync
  <1>3. QED
    BY <1>1, <1>2

LEMMA BaseAlways == Spec => []Base
  BY BaseInit, BaseStep, PTL DEF Spec

(* TypeOK, in every reachable state: for any machines and graphs, shared   *)
(* or not, and whatever the constants let happen.                          *)
THEOREM TypeCorrect == Spec => []TypeOK
  <1>1. Base => TypeOK
    BY DEF Base
  <1>2. QED
    BY <1>1, BaseAlways, PTL

-----------------------------------------------------------------------------
(* The versions of the folder.                                             *)

Folder(c) == log[c].tree.folder

(* A version is extracted once: two commits that have it have it from a    *)
(* common ancestor, ...                                                    *)
Origin ==
    \A c, d \in DOMAIN log : Folder(c) = Folder(d) /\ Folder(c) # 0 =>
      \E o \in log[c].before \cap log[d].before : Folder(o) = Folder(c)

(* ... a line of commits that leaves a version does not return to it, ...  *)
NoReturn ==
    \A c \in DOMAIN log : \A d \in log[c].before : \A a \in log[d].before :
      Folder(a) = Folder(c) /\ Folder(a) # 0 => Folder(d) = Folder(a)

(* ... and one that a working tree has and its head has not is nowhere else. *)
FreshAt(m) ==
    \/ work[m].folder = 0 \/ work[m].folder = Folder(head[m])
    \/ /\ \A c \in DOMAIN log : Folder(c) # work[m].folder
       /\ \A n \in Machines \ {m} : work[n].folder # work[m].folder
Fresh == \A m \in Machines : FreshAt(m)

Versions == Origin /\ NoReturn /\ Fresh

LEMMA AppendedVersions ==
    ASSUME VaultInv, Origin, NoReturn, Grown, NEW c, c \notin DOMAIN log, NEW X, X \subseteq DOMAIN log,
           DOMAIN log' = DOMAIN log \cup {c}, log'[c].before = X \cup {c},
           \A d \in DOMAIN log : Folder(d) = log'[c].tree.folder /\ Folder(d) # 0 =>
             \E o \in X \cap log[d].before : Folder(o) = Folder(d),
           \A d \in X : \A a \in log[d].before :
             Folder(a) = log'[c].tree.folder /\ Folder(a) # 0 => Folder(d) = Folder(a)
    PROVE  Origin' /\ NoReturn'
  <1>1. /\ \A d \in DOMAIN log : /\ log'[d] = log[d] /\ log[d].before \subseteq DOMAIN log
                                 /\ log'[d].tree.folder = Folder(d)
    BY VaultFacts DEF Grown, Folder
  <1>2. ASSUME NEW d \in DOMAIN log', NEW e \in DOMAIN log',
               log'[d].tree.folder = log'[e].tree.folder, log'[d].tree.folder # 0
        PROVE  \E o \in log'[d].before \cap log'[e].before : log'[o].tree.folder = log'[d].tree.folder
    <2>1. CASE d \in DOMAIN log /\ e \in DOMAIN log
      <3>1. PICK o \in log[d].before \cap log[e].before : Folder(o) = Folder(d)
        BY <1>1, <1>2, <2>1 DEF Origin
      <3>2. QED
        BY <1>1, <2>1, <3>1
    <2>2. CASE d = c /\ e = c
      BY <2>2
    <2>3. CASE d = c /\ e \in DOMAIN log
      <3>1. PICK o \in X \cap log[e].before : Folder(o) = Folder(e)
        BY <1>1, <1>2, <2>3
      <3>2. QED
        BY <1>1, <1>2, <2>3, <3>1
    <2>4. CASE e = c /\ d \in DOMAIN log
      <3>1. PICK o \in X \cap log[d].before : Folder(o) = Folder(d)
        BY <1>1, <1>2, <2>4
      <3>2. QED
        BY <1>1, <1>2, <2>4, <3>1
    <2>5. QED
      BY <2>1, <2>2, <2>3, <2>4
  <1>3. ASSUME NEW e \in DOMAIN log', NEW d \in log'[e].before, NEW a \in log'[d].before,
               log'[a].tree.folder = log'[e].tree.folder, log'[a].tree.folder # 0
        PROVE  log'[d].tree.folder = log'[a].tree.folder
    <2>1. CASE e \in DOMAIN log
      <3>1. d \in log[e].before /\ d \in DOMAIN log /\ a \in log[d].before /\ a \in DOMAIN log
        BY <1>1, <1>3, <2>1
      <3>2. Folder(d) = Folder(a)
        BY <1>1, <1>3, <2>1, <3>1 DEF NoReturn
      <3>3. QED
        BY <1>1, <3>1, <3>2
    <2>2. CASE e = c /\ d = c
      BY <1>3, <2>2
    <2>3. CASE e = c /\ d # c
      <3>1. d \in X /\ d \in DOMAIN log /\ a \in log[d].before /\ a \in DOMAIN log
        BY <1>1, <1>3, <2>3
      <3>2. Folder(d) = Folder(a)
        BY <1>1, <1>3, <2>3, <3>1
      <3>3. QED
        BY <1>1, <3>1, <3>2
    <2>4. QED
      BY <2>1, <2>2, <2>3
  <1>4. Origin'
    BY <1>2 DEF Origin, Folder
  <1>5. NoReturn'
    BY <1>3 DEF NoReturn, Folder
  <1>6. QED
    BY <1>4, <1>5

LEMMA SameLogVersions ==
    ASSUME Origin, NoReturn, log' = log
    PROVE  Origin' /\ NoReturn' /\ \A c : Folder(c)' = Folder(c)
  BY DEF Origin, NoReturn, Folder

LEMMA VersionsAutoCommit ==
    ASSUME Base, Versions, NEW m \in Machines, AutoCommit(m)
    PROVE  Versions'
  <1>1. VaultInv
    BY BaseParts
  <1>2. PICK c : c = head'[m]
    OBVIOUS
  <1> DEFINE h == head[m]
             X == log[h].before
             v == work[m].folder
  <1>3. /\ Grown /\ OthersStay(m) /\ c \notin DOMAIN log /\ DOMAIN log' = DOMAIN log \cup {c}
        /\ log'[c].tree.folder = v /\ log'[c].before = X \cup {c} /\ work' = work
    BY <1>1, <1>2, AutoCommitStep
  <1>4. /\ h \in DOMAIN log /\ X \subseteq DOMAIN log /\ h \in X
        /\ \A d \in DOMAIN log : log[d].before \subseteq DOMAIN log
    BY <1>1, VaultFacts
  <1>5. v = 0 \/ v = Folder(h) \/ (\A d \in DOMAIN log : Folder(d) # v)
    BY DEF Versions, Fresh, FreshAt
  <1>6. ASSUME NEW d \in DOMAIN log, Folder(d) = v, Folder(d) # 0
        PROVE  \E o \in X \cap log[d].before : Folder(o) = Folder(d)
    BY <1>4, <1>5, <1>6 DEF Versions, Origin
  <1>7. ASSUME NEW d \in X, NEW a \in log[d].before, Folder(a) = v, Folder(a) # 0
        PROVE  Folder(d) = Folder(a)
    <2>1. d \in DOMAIN log /\ a \in DOMAIN log
      BY <1>4
    <2>2. v = Folder(h)
      BY <1>5, <1>7, <2>1
    <2>3. QED
      BY <1>4, <1>7, <2>2 DEF Versions, NoReturn
  <1>8. Origin' /\ NoReturn'
    <2>1. /\ \A d \in DOMAIN log : Folder(d) = log'[c].tree.folder /\ Folder(d) # 0 =>
               \E o \in X \cap log[d].before : Folder(o) = Folder(d)
          /\ \A d \in X : \A a \in log[d].before :
               Folder(a) = log'[c].tree.folder /\ Folder(a) # 0 => Folder(d) = Folder(a)
      BY <1>3, <1>6, <1>7
    <2>2. QED
      BY <1>1, <1>3, <1>4, <2>1, AppendedVersions DEF Versions
  <1>9. ASSUME NEW n \in Machines PROVE FreshAt(n)'
    <2>1. CASE n = m
      BY <1>2, <1>3, <2>1 DEF FreshAt, Folder
    <2>2. CASE n # m
      <3>1. /\ head'[n] = head[n] /\ head[n] \in DOMAIN log /\ work'[n] = work[n]
            /\ \A d \in DOMAIN log : log'[d].tree.folder = Folder(d)
        BY <1>1, <1>3, <2>2, VaultFacts DEF OthersStay, Grown, Folder
      <3>2. FreshAt(n)
        BY DEF Versions, Fresh
      <3>3. QED
        BY <1>3, <2>2, <3>1, <3>2 DEF FreshAt, Folder
    <2>3. QED
      BY <2>1, <2>2
  <1>10. QED
    BY <1>8, <1>9 DEF Versions, Fresh

LEMMA VersionsMerges ==
    ASSUME Base, Versions, NEW m \in Machines, Merges(m), made' = made
    PROVE  Versions'
  <1>1. VaultInv
    BY BaseParts
  <1>2. PICK c : c = tip'
    OBVIOUS
  <1> DEFINE h == head[m]
             x == Fork(m)
             X == log[h].before \cup log[tip].before
             v == log'[c].tree.folder
  <1>3. /\ Grown /\ OthersStay(m) /\ c \notin DOMAIN log /\ DOMAIN log' = DOMAIN log \cup {c}
        /\ head'[m] = c /\ log'[c].tree = Merged(At(x), At(h), At(tip)) /\ work'[m] = log'[c].tree
        /\ log'[c].before = X \cup {c}
        /\ Mergeable(At(x).folder, At(h).folder, At(tip).folder)
    BY <1>1, <1>2, MergesStep
  <1>4. /\ h \in DOMAIN log /\ tip \in DOMAIN log /\ X \subseteq DOMAIN log
        /\ h \in log[h].before /\ tip \in log[tip].before
        /\ \A d \in DOMAIN log : /\ log[d].before \subseteq DOMAIN log
                                 /\ \A a \in log[d].before : log[a].before \subseteq log[d].before
    BY <1>1, VaultFacts
  <1>5. /\ x \in DOMAIN log /\ x \in log[h].before /\ x \in log[tip].before
        /\ log[h].before \cap log[tip].before = log[x].before
    BY <1>1, ForkType DEF VaultInv
  <1>6. /\ v = Folder(h) \/ v = Folder(tip)
        /\ v # Folder(h) => Folder(h) = Folder(x)
        /\ v # Folder(tip) => Folder(tip) = Folder(x)
    BY <1>3 DEF Merged, MergedFile, Mergeable, At, Folder
  <1>7. ASSUME NEW d \in DOMAIN log, Folder(d) = v, Folder(d) # 0
        PROVE  \E o \in X \cap log[d].before : Folder(o) = Folder(d)
    <2>1. PICK e \in {h, tip} : v = Folder(e)
      BY <1>6
    <2>2. PICK o \in log[e].before \cap log[d].before : Folder(o) = Folder(e)
      BY <1>4, <1>7, <2>1 DEF Versions, Origin
    <2>3. QED
      BY <1>7, <2>1, <2>2
  <1>8. ASSUME NEW d \in X, NEW a \in log[d].before, Folder(a) = v, Folder(a) # 0
        PROVE  Folder(d) = Folder(a)
    <2>1. PICK e \in {h, tip} : d \in log[e].before
      OBVIOUS
    <2>2. a \in DOMAIN log /\ d \in DOMAIN log /\ e \in DOMAIN log /\ a \in log[e].before
      BY <1>4, <2>1
    <2>3. CASE v = Folder(e)
      BY <1>8, <2>1, <2>2, <2>3 DEF Versions, NoReturn
    <2>4. CASE v # Folder(e)
      <3>1. PICK i \in {h, tip} : v = Folder(i) /\ Folder(e) = Folder(x) /\ i # e
        BY <1>6, <2>4
      <3>2. i \in DOMAIN log
        BY <1>4
      <3>3. PICK o \in log[a].before \cap log[i].before : Folder(o) = Folder(a)
        BY <1>8, <2>2, <3>1, <3>2 DEF Versions, Origin
      <3>4. o \in log[e].before
        BY <1>4, <2>2, <3>3
      <3>5. o \in log[x].before
        BY <1>5, <2>1, <3>1, <3>3, <3>4
      <3>6. x \in log[i].before
        BY <1>5, <3>1
      <3>7. Folder(o) = Folder(i) /\ Folder(o) # 0
        BY <1>8, <3>1, <3>3
      <3>8. Folder(x) = Folder(o)
        BY <3>2, <3>5, <3>6, <3>7 DEF Versions, NoReturn
      <3>9. QED
        BY <2>4, <3>1, <3>7, <3>8
    <2>5. QED
      BY <2>3, <2>4
  <1>9. Origin' /\ NoReturn'
    <2>1. /\ \A d \in DOMAIN log : Folder(d) = log'[c].tree.folder /\ Folder(d) # 0 =>
               \E o \in X \cap log[d].before : Folder(o) = Folder(d)
          /\ \A d \in X : \A a \in log[d].before :
               Folder(a) = log'[c].tree.folder /\ Folder(a) # 0 => Folder(d) = Folder(a)
      BY <1>7, <1>8
    <2> HIDE DEF X
    <2>2. QED
      BY <1>1, <1>3, <1>4, <2>1, AppendedVersions DEF Versions
  <1>10. ASSUME NEW n \in Machines PROVE FreshAt(n)'
    <2>1. CASE n = m
      BY <1>3, <2>1 DEF FreshAt, Folder
    <2>2. CASE n # m
      <3>1. /\ head'[n] = head[n] /\ head[n] \in DOMAIN log /\ work'[n] = work[n]
            /\ \A d \in DOMAIN log : log'[d].tree.folder = Folder(d)
            /\ \A p \in Machines \ {m} : work'[p] = work[p]
        BY <1>1, <1>3, <2>2, VaultFacts DEF OthersStay, Grown, Folder
      <3>2. FreshAt(n)
        BY DEF Versions, Fresh
      <3>3. work'[m].folder = v /\ (v = Folder(h) \/ v = Folder(tip))
        BY <1>3, <1>6
      <3>4. QED
        BY <1>3, <1>4, <2>2, <3>1, <3>2, <3>3 DEF FreshAt, Folder
    <2>3. QED
      BY <2>1, <2>2
  <1>11. QED
    BY <1>9, <1>10 DEF Versions, Fresh

LEMMA VersionsExchange ==
    ASSUME Base, Versions, NEW m \in Machines, Exchange(m)
    PROVE  Versions'
  <1>1. VaultInv /\ made' = made /\ (Pulls(m) \/ Pushes(m) \/ Merges(m))
    BY BaseParts, ExchangeCases
  <1>2. CASE Pulls(m)
    <2>1. /\ log' = log /\ OthersStay(m) /\ head'[m] = tip /\ work'[m] = log[tip].tree
      BY <1>1, <1>2, PullsStep
    <2>2. Origin' /\ NoReturn'
      BY <2>1, SameLogVersions DEF Versions
    <2>3. ASSUME NEW n \in Machines PROVE FreshAt(n)'
      <3>1. FreshAt(n) /\ tip \in DOMAIN log
        BY <1>1, VaultFacts DEF Versions, Fresh
      <3>2. CASE n = m
        BY <2>1, <3>2 DEF FreshAt, Folder
      <3>3. CASE n # m
        BY <2>1, <3>1, <3>3 DEF FreshAt, Folder, OthersStay
      <3>4. QED
        BY <3>2, <3>3
    <2>4. QED
      BY <2>2, <2>3 DEF Versions, Fresh
  <1>3. CASE Pushes(m)
    BY <1>3, SameLogVersions DEF Pushes, Versions, Fresh, FreshAt, Folder
  <1>4. CASE Merges(m)
    BY <1>1, <1>4, VersionsMerges
  <1>5. QED
    BY <1>1, <1>2, <1>3, <1>4

LEMMA VersionsRewrite ==
    ASSUME Base, Versions, NEW m \in Machines, Remove(m) \/ Stage(m) \/ Retire(m) \/ Restore(m)
    PROVE  Versions'
  <1>1. /\ VaultInv /\ UNCHANGED <<log, head>> /\ OthersStay(m)
    BY BaseParts, RewriteStep
  <1>2. /\ work'[m].folder \in {0, made + 1, work[m].folder}
        /\ made \in Nat /\ work \in [Machines -> Tree]
        /\ \A c \in DOMAIN log : Folder(c) <= made /\ Folder(c) \in Nat
        /\ \A n \in Machines : work[n].folder <= made /\ work[n].folder \in Nat
    <2>1. /\ made \in Nat /\ work \in [Machines -> Tree]
          /\ \A c \in DOMAIN log : Folder(c) \in 0 .. made
          /\ \A n \in Machines : work[n].folder \in 0 .. made
      BY <1>1, VaultFacts DEF Folder
    <2>2. work'[m].folder \in {0, made + 1, work[m].folder}
      BY <2>1, Rewritten
    <2>3. QED
      BY <2>1, <2>2
  <1>3. Origin' /\ NoReturn' /\ \A c : Folder(c)' = Folder(c)
    BY <1>1, SameLogVersions DEF Versions
  <1>4. ASSUME NEW n \in Machines PROVE FreshAt(n)'
    <2>1. FreshAt(n)
      BY DEF Versions, Fresh
    <2>2. \A p \in Machines \ {m} : work'[p] = work[p]
      BY <1>1 DEF OthersStay
    <2>3. QED
      BY <1>1, <1>2, <2>1, <2>2 DEF FreshAt, Folder
  <1>5. QED
    BY <1>3, <1>4 DEF Versions, Fresh

-----------------------------------------------------------------------------
(* Who has a retirement, a restoration or a removal the others have not.   *)

(* m has the record otherwise than its fork, or no folder where that has   *)
(* one; the remote has removed the folder since m's fork.                  *)
Recorded(m) ==
    work[m].record # At(Fork(m)).record \/ At(head[m]).record # At(Fork(m)).record
Removed(m) == At(Fork(m)).folder # 0 /\ (work[m].folder = 0 \/ At(head[m]).folder = 0)
Private(m) == Recorded(m) \/ Removed(m)
Behind(m) == At(Fork(m)).folder # 0 /\ At(tip).folder = 0

(* Only m may have such a change, and the remote has none m lacks.         *)
Owner(m) ==
    /\ \A n \in Machines \ {m} : ~Private(n)
    /\ At(tip).record = At(Fork(m)).record
    /\ ~Behind(m)
Single == \A m \in Machines : Private(m) => Owner(m)

(* A removal under way finds the folder in every tree of the others.       *)
RemovedAt(m) ==
    /\ Removed(m) => /\ At(tip).folder # 0
                     /\ \A n \in Machines \ {m} : 0 \notin Folders(n)
    /\ Behind(m) => 0 \notin Folders(m)
Removal == \A m \in Machines : RemovedAt(m)

(* No tree has a record and no folder.                                     *)
Whole ==
    /\ \A c \in DOMAIN log : At(c).folder = 0 => ~At(c).record
    /\ \A m \in Machines : work[m].folder = 0 => ~work[m].record

Owned == Single /\ Removal /\ Whole

(* What there is of the vault, as trees.                                   *)
LEMMA Trees ==
    ASSUME Base
    PROVE  /\ At(tip) \in Tree
           /\ \A c \in DOMAIN log : At(c) \in Tree /\ At(c).folder \in Nat /\ At(c).record \in BOOLEAN
           /\ \A m \in Machines :
                /\ At(head[m]) \in Tree /\ At(Fork(m)) \in Tree /\ work[m] \in Tree
                /\ head[m] \in DOMAIN log /\ Fork(m) \in DOMAIN log
                /\ bookmark[GraphOf[m]] \in DOMAIN log /\ At(bookmark[GraphOf[m]]) \in Tree
                /\ sync[m].head \in DOMAIN log /\ At(sync[m].head) \in Tree
  <1>1. VaultInv /\ GraphType /\ SyncType
    BY BaseParts
  <1>2. /\ tip \in DOMAIN log
        /\ \A c \in DOMAIN log : At(c) \in Tree /\ At(c).folder \in Nat /\ At(c).record \in BOOLEAN
    BY <1>1, VaultFacts DEF At
  <1>3. ASSUME NEW m \in Machines
        PROVE  /\ head[m] \in DOMAIN log /\ Fork(m) \in DOMAIN log /\ work[m] \in Tree
               /\ bookmark[GraphOf[m]] \in DOMAIN log /\ sync[m].head \in DOMAIN log
    <2>1. /\ head[m] \in DOMAIN log /\ work[m] \in Tree
          /\ log[head[m]].before \subseteq DOMAIN log
      BY <1>1, VaultFacts
    <2>2. Fork(m) \in DOMAIN log
      BY <1>1, ForkType DEF VaultInv
    <2>3. GraphOf[m] \in Graphs
      BY ConstantsAssumption
    <2>4. QED
      BY <1>1, <2>1, <2>2, <2>3 DEF GraphType, SyncType
  <1>4. QED
    BY <1>2, <1>3

(* Coming together: m and the remote have the merge of the two, and the    *)
(* other clones, and what they have forked from, stay.                     *)
ExchangeLeaves(m, t) ==
    /\ ~Dirty(m) /\ work[m] = At(head[m])
    /\ t = Merged(At(Fork(m)), At(head[m]), At(tip)) /\ t \in Tree
    /\ Mergeable(At(Fork(m)).folder, At(head[m]).folder, At(tip).folder)
    /\ work'[m] = t /\ At(head[m])' = t /\ At(Fork(m))' = t /\ At(tip)' = t
    /\ \A n \in Machines \ {m} : /\ work'[n] = work[n] /\ At(head[n])' = At(head[n])
                                 /\ At(Fork(n))' = At(Fork(n))
    /\ DOMAIN log \subseteq DOMAIN log'
    /\ \A c \in DOMAIN log : At(c)' = At(c)
    /\ \A c \in DOMAIN log' : c \in DOMAIN log \/ At(c)' = t
    /\ UNCHANGED <<made, graph, sync, raised, commands>>

LEMMA ExchangeStep ==
    ASSUME Base, NEW m \in Machines, Exchange(m)
    PROVE  \E t : ExchangeLeaves(m, t)
  <1>1. /\ VaultInv /\ ~Dirty(m) /\ UNCHANGED <<made, graph, sync, raised, commands>>
        /\ Pulls(m) \/ Pushes(m) \/ Merges(m)
    BY BaseParts, ExchangeCases
  <1>2. work[m] = At(head[m])
    BY <1>1 DEF Dirty
  <1>3. PICK x : x = At(Fork(m))
    OBVIOUS
  <1>4. PICK h : h = At(head[m])
    OBVIOUS
  <1>5. PICK r : r = At(tip)
    OBVIOUS
  <1>6. x \in Tree /\ h \in Tree /\ r \in Tree
    BY <1>3, <1>4, <1>5, Trees
  <1>7. Merged(x, x, r) = r /\ Merged(x, h, x) = h
    BY <1>6 DEF Merged, MergedFile, Tree
  <1>8. ASSUME Grown, OthersStay(m)
        PROVE  /\ \A n \in Machines \ {m} : /\ work'[n] = work[n] /\ At(head[n])' = At(head[n])
                                            /\ At(Fork(n))' = At(Fork(n))
               /\ DOMAIN log \subseteq DOMAIN log' /\ \A c \in DOMAIN log : At(c)' = At(c)
    BY <1>8, Trees DEF Grown, OthersStay, At
  <1>9. CASE Pulls(m)
    <2>1. /\ Grown /\ OthersStay(m) /\ log' = log
          /\ head'[m] = tip /\ tip' = tip /\ work'[m] = log[tip].tree
          /\ Fork(m) = head[m] /\ Fork(m)' = tip
      BY <1>1, <1>9, PullsStep
    <2>2. /\ x = h /\ Merged(x, h, r) = r
      BY <1>3, <1>4, <1>7, <2>1
    <2>3. /\ work'[m] = r /\ At(head[m])' = r /\ At(Fork(m))' = r /\ At(tip)' = r
          /\ DOMAIN log' = DOMAIN log
      BY <1>5, <2>1 DEF At
    <2>4. Mergeable(x.folder, h.folder, r.folder)
      BY <2>2 DEF Mergeable
    <2>5. ExchangeLeaves(m, r)
      BY <1>1, <1>2, <1>3, <1>4, <1>5, <1>6, <1>8, <2>1, <2>2, <2>3, <2>4 DEF ExchangeLeaves
    <2>6. QED
      BY <2>5
  <1>10. CASE Pushes(m)
    <2>1. /\ Grown /\ OthersStay(m) /\ log' = log /\ head' = head /\ tip' = head[m] /\ work' = work
          /\ Fork(m) = tip /\ Fork(m)' = head[m]
      BY <1>1, <1>10, PushesStep
    <2>2. /\ x = r /\ Merged(x, h, r) = h
      BY <1>3, <1>5, <1>7, <2>1
    <2>3. /\ work'[m] = h /\ At(head[m])' = h /\ At(Fork(m))' = h /\ At(tip)' = h
          /\ DOMAIN log' = DOMAIN log
      BY <1>2, <1>4, <2>1 DEF At
    <2>4. Mergeable(x.folder, h.folder, r.folder)
      BY <2>2 DEF Mergeable
    <2>5. ExchangeLeaves(m, h)
      BY <1>1, <1>2, <1>3, <1>4, <1>5, <1>6, <1>8, <2>1, <2>2, <2>3, <2>4 DEF ExchangeLeaves
    <2>6. QED
      BY <2>5
  <1>11. CASE Merges(m)
    <2>1. PICK c : c = tip'
      OBVIOUS
    <2>2. /\ Grown /\ OthersStay(m) /\ c \in DOMAIN log' /\ DOMAIN log' = DOMAIN log \cup {c}
          /\ head'[m] = c /\ Fork(m)' = c /\ log'[c].tree = Merged(x, h, r) /\ work'[m] = log'[c].tree
          /\ Mergeable(x.folder, h.folder, r.folder)
      BY <1>1, <1>3, <1>4, <1>5, <1>11, <2>1, MergesStep
    <2>3. PICK t : t = Merged(x, h, r)
      OBVIOUS
    <2>4. /\ work'[m] = t /\ At(head[m])' = t /\ At(Fork(m))' = t /\ At(tip)' = t
          /\ \A d \in DOMAIN log' : d \in DOMAIN log \/ At(d)' = t
      BY <2>1, <2>2, <2>3 DEF At
    <2>5. t \in Tree
      BY <1>6, <2>3, MergedType
    <2>6. ExchangeLeaves(m, t)
      BY <1>1, <1>2, <1>3, <1>4, <1>5, <1>8, <2>2, <2>3, <2>4, <2>5 DEF ExchangeLeaves
    <2>7. QED
      BY <2>6
  <1>12. QED
    BY <1>1, <1>9, <1>10, <1>11

(* A commit of m's working tree.                                           *)
CommitTrees(m) ==
    /\ At(head[m])' = work[m] /\ work' = work
    /\ \A n \in Machines \ {m} : At(head[n])' = At(head[n])
    /\ \A n \in Machines : At(Fork(n))' = At(Fork(n))
    /\ At(tip)' = At(tip)
    /\ DOMAIN log \subseteq DOMAIN log'
    /\ \A c \in DOMAIN log : At(c)' = At(c)
    /\ \A c \in DOMAIN log' : c \in DOMAIN log \/ At(c)' = work[m]
    /\ UNCHANGED <<made, graph, sync, raised, commands>>

LEMMA AutoCommitTrees ==
    ASSUME Base, NEW m \in Machines, AutoCommit(m)
    PROVE  CommitTrees(m)
  <1>1. PICK c : c = head'[m]
    OBVIOUS
  <1>2. /\ Grown /\ OthersStay(m) /\ DOMAIN log' = DOMAIN log \cup {c} /\ log'[c].tree = work[m]
        /\ Fork(m)' = Fork(m) /\ tip' = tip /\ work' = work
    BY <1>1, BaseParts, AutoCommitStep
  <1>3. UNCHANGED <<made, graph, sync, raised, commands>>
    BY DEF AutoCommit
  <1>4. /\ \A d \in DOMAIN log : At(d)' = At(d) /\ At(head[m])' = work[m]
        /\ \A d \in DOMAIN log' : d \in DOMAIN log \/ At(d)' = work[m]
    BY <1>1, <1>2 DEF Grown, At
  <1>5. /\ At(tip)' = At(tip)
        /\ \A n \in Machines \ {m} : At(head[n])' = At(head[n])
        /\ \A n \in Machines : At(Fork(n))' = At(Fork(n))
    <2>1. /\ tip \in DOMAIN log /\ \A n \in Machines : head[n] \in DOMAIN log /\ Fork(n) \in DOMAIN log
      BY BaseParts, VaultFacts, Trees
    <2>2. QED
      BY <1>2, <2>1 DEF Grown, OthersStay, At
  <1>6. At(head[m])' = work[m]
    BY <1>1, <1>2 DEF At
  <1>7. QED
    BY <1>2, <1>3, <1>4, <1>5, <1>6 DEF CommitTrees, Grown

(* A command or an ingest of m, as trees.                                  *)
RewriteTrees(m) ==
    /\ \A n \in Machines \ {m} : work'[n] = work[n]
    /\ \A n \in Machines : At(head[n])' = At(head[n]) /\ At(Fork(n))' = At(Fork(n))
    /\ At(tip)' = At(tip) /\ log' = log /\ \A c : At(c)' = At(c)
    /\ UNCHANGED <<log, head, tip, sync, bookmark>>

LEMMA RewritesTrees ==
    ASSUME Base, NEW m \in Machines, Remove(m) \/ Stage(m) \/ Retire(m) \/ Restore(m)
    PROVE  RewriteTrees(m)
  <1>1. /\ OthersStay(m) /\ Fork(m)' = Fork(m) /\ UNCHANGED <<log, head, tip, sync, bookmark>>
    BY RewriteStep
  <1>2. QED
    BY <1>1 DEF OthersStay, RewriteTrees, At

(* All that is left of other machines when m gives a command: m is at or   *)
(* past every clone, and the remote.                                       *)
LEMMA AloneTrees ==
    ASSUME Base, NEW m \in Machines, Alone(m)
    PROVE  /\ Fork(m) = tip
           /\ \A n \in Machines \ {m} : /\ Fork(n) = head[n] /\ work[n] = At(head[n])
                                        /\ head[n] = bookmark[GraphOf[n]]
  <1>1. VaultInv
    BY BaseParts
  <1>2. \A n \in Machines \ {m} : Synced(n) /\ head[n] \in log[head[m]].before
    BY DEF Alone
  <1>3. /\ \A c \in DOMAIN log : /\ c \in log[c].before
                                 /\ \A a \in log[c].before : log[a].before \subseteq log[c].before
        /\ \A n \in Machines : head[n] \in DOMAIN log
        /\ tip \in DOMAIN log
    BY <1>1, VaultFacts
  <1>4. tip \in log[head[m]].before
    <2>1. PICK p \in Machines : tip \in log[head[p]].before
      BY <1>1 DEF VaultInv, Forks
    <2>2. QED
      BY <1>2, <1>3, <2>1
  <1>5. Fork(m) = tip
    <2>1. log[head[m]].before \cap log[tip].before = log[tip].before
      BY <1>3, <1>4
    <2>2. QED
      BY <1>1, <1>3, <2>1, ForkIs DEF VaultInv
  <1>6. ASSUME NEW n \in Machines \ {m} PROVE Fork(n) = head[n]
    <2>1. log[head[m]].before \cap log[head[n]].before \subseteq log[tip].before
      BY <1>1 DEF VaultInv, Forks
    <2>2. head[n] \in log[tip].before
      BY <1>2, <1>3, <2>1
    <2>3. log[head[n]].before \cap log[tip].before = log[head[n]].before
      BY <1>3, <2>2
    <2>4. QED
      BY <1>1, <1>3, <2>3, ForkIs DEF VaultInv
  <1>7. QED
    BY <1>2, <1>5, <1>6 DEF Synced, Dirty

-----------------------------------------------------------------------------
(* The regime of RecordDecides: every machine has a graph of its own,      *)
(* nothing is committed to a graph its clone is not at, no command is      *)
(* given across another's, and no clone moves under a sync.                *)
Apart ==
    /\ \A m, n \in Machines : GraphOf[m] = GraphOf[n] => m = n
    /\ ~Unsynced /\ ~RestoreGone /\ ~RetireGone /\ ~Overtake /\ ~Crossed /\ ~Regret

Step(m) ==
    \/ AutoCommit(m) \/ Exchange(m) \/ Remove(m)
    \/ Stage(m) \/ CommitDocument(m) \/ Retire(m) \/ Restore(m)
    \/ BeginSync(m) \/ Replay(m) \/ Retract(m) \/ ApplyRecord(m) \/ RemoveRecord(m)
    \/ Advance(m) \/ FailSync(m)

(* A step of m leaves the other machines as they are.                      *)
Left(n) ==
    /\ work'[n] = work[n] /\ head'[n] = head[n] /\ sync'[n] = sync[n]
    /\ n \in raised' <=> n \in raised
    /\ label'[GraphOf[n]] = label[GraphOf[n]] /\ version'[GraphOf[n]] = version[GraphOf[n]]
    /\ mark'[GraphOf[n]] = mark[GraphOf[n]] /\ bookmark'[GraphOf[n]] = bookmark[GraphOf[n]]

LEMMA StepLeaves ==
    ASSUME Apart, Base, NEW m \in Machines, Step(m), NEW n \in Machines \ {m}
    PROVE  Left(n) /\ log'[bookmark[GraphOf[n]]] = log[bookmark[GraphOf[n]]]
           /\ \A c \in DOMAIN log : At(c)' = At(c)
  <1>1. /\ VaultInv /\ GraphType /\ GraphOf[m] \in Graphs /\ GraphOf[n] \in Graphs
        /\ GraphOf[n] # GraphOf[m] /\ SyncType
    BY BaseParts, ConstantsAssumption DEF Apart
  <1>2. Grown /\ OthersStay(m)
    <2>1. CASE AutoCommit(m)
      BY <1>1, <2>1, AutoCommitStep
    <2>2. CASE Exchange(m)
      BY <1>1, <2>2, ExchangeCases, PullsStep, PushesStep, MergesStep
    <2>3. CASE Remove(m) \/ Stage(m) \/ Retire(m) \/ Restore(m)
      BY <2>3, RewriteStep
    <2>4. CASE ~AutoCommit(m) /\ ~Exchange(m) /\ ~(Remove(m) \/ Stage(m) \/ Retire(m) \/ Restore(m))
      <3>1. UNCHANGED vault
        BY <2>4 DEF Step, CommitDocument, BeginSync, FailSync, Replay, Retract, ApplyRecord,
          RemoveRecord, Advance, Doing
      <3>2. QED
        BY <1>1, <3>1, VaultSame DEF OthersStay, vault
    <2>5. QED
      BY <2>1, <2>2, <2>3, <2>4
  <1>3. sync'[n] = sync[n]
    <2>1. CASE BeginSync(m)
      BY <2>1, BeginSyncBegins
    <2>2. CASE FailSync(m)
      BY <2>2, FailSyncFails
    <2>3. CASE Replay(m) \/ Retract(m) \/ ApplyRecord(m) \/ RemoveRecord(m) \/ Advance(m)
      <3>1. PICK step : Doing(m, step)
        BY <2>3 DEF Replay, Retract, ApplyRecord, RemoveRecord, Advance
      <3>2. QED
        BY <3>1, DoingDone DEF Done
    <2>4. CASE /\ ~BeginSync(m) /\ ~FailSync(m)
               /\ ~(Replay(m) \/ Retract(m) \/ ApplyRecord(m) \/ RemoveRecord(m) \/ Advance(m))
      BY <2>4 DEF Step, AutoCommit, Exchange, Remove, Stage, CommitDocument, Retire, Restore
    <2>5. QED
      BY <2>1, <2>2, <2>3, <2>4
  <1>4. n \in raised' <=> n \in raised
    BY DEF Step, AutoCommit, Exchange, Remove, Stage, CommitDocument, Retire, Restore,
      BeginSync, FailSync, Replay, Retract, ApplyRecord, RemoveRecord, Advance, Doing
  <1>5. /\ label'[GraphOf[n]] = label[GraphOf[n]] /\ mark'[GraphOf[n]] = mark[GraphOf[n]]
    BY <1>1 DEF Step, AutoCommit, Exchange, Remove, Stage, CommitDocument, Retire, Restore,
      BeginSync, FailSync, Replay, Retract, ApplyRecord, RemoveRecord, Advance, graph,
      CommitsDocument, Retires, Unretires, Retracts, ToHistory, ToLatest, GraphType
  <1>6. /\ version'[GraphOf[n]] = version[GraphOf[n]] /\ bookmark'[GraphOf[n]] = bookmark[GraphOf[n]]
    BY <1>1 DEF Step, AutoCommit, Exchange, Remove, Stage, CommitDocument, Retire, Restore,
      BeginSync, FailSync, Replay, Retract, ApplyRecord, RemoveRecord, Advance, graph,
      CommitsDocument, GraphType
  <1>7. bookmark[GraphOf[n]] \in DOMAIN log
    BY Trees
  <1>8. QED
    BY <1>2, <1>3, <1>4, <1>5, <1>6, <1>7 DEF Left, Grown, OthersStay, At

(* How a sync stands to its clone and its graph.                           *)
Syncing(m) == sync[m] # Idle
ShapeAt(m) ==
    /\ bookmark[GraphOf[m]] \in log[head[m]].before
    /\ Syncing(m) => /\ sync[m].base = bookmark[GraphOf[m]] /\ sync[m].base # sync[m].head
                     /\ sync[m].todo = <<>> => sync[m].head = head[m]
Shape == \A m \in Machines : ShapeAt(m)

LEMMA ShapeOther ==
    ASSUME Apart, Base, NEW m \in Machines, Step(m), NEW n \in Machines \ {m}, ShapeAt(n)
    PROVE  ShapeAt(n)'
  <1>1. Left(n) /\ head[n] \in DOMAIN log
    BY StepLeaves, Trees
  <1>2. log'[head[n]] = log[head[n]]
    <2>1. CASE AutoCommit(m)
      BY <1>1, <2>1, BaseParts, AutoCommitStep DEF Grown
    <2>2. CASE Exchange(m)
      BY <1>1, <2>2, BaseParts, ExchangeCases, PullsStep, PushesStep, MergesStep DEF Grown
    <2>3. CASE ~AutoCommit(m) /\ ~Exchange(m)
      BY <2>3 DEF Step, Remove, Stage, CommitDocument, Retire, Restore, vault,
        BeginSync, FailSync, Replay, Retract, ApplyRecord, RemoveRecord, Advance, Doing
    <2>4. QED
      BY <2>1, <2>2, <2>3
  <1>3. QED
    BY <1>1, <1>2 DEF ShapeAt, Left, Syncing, Idle

LEMMA ShapeOwn ==
    ASSUME Apart, Base, Base', NEW m \in Machines, Step(m), ShapeAt(m)
    PROVE  ShapeAt(m)'
  <1>1. /\ VaultInv /\ SyncType /\ GraphType /\ GraphOf[m] \in Graphs /\ ~Overtake
        /\ Idle.todo = <<>> /\ Idle.base = 1 /\ Idle.head = 1
    BY BaseParts, ConstantsAssumption DEF Apart, Idle
  <1>2. /\ head[m] \in DOMAIN log /\ bookmark[GraphOf[m]] \in log[head[m]].before
        /\ sync[m].head \in log[head[m]].before
    BY <1>1, VaultFacts DEF ShapeAt, SyncType
  <1>3. CASE AutoCommit(m)
    <2>1. /\ UNCHANGED <<graph, sync>> /\ (sync[m].todo = <<>> => sync[m] = Idle)
      BY <1>1, <1>3 DEF AutoCommit, MovesOn, Failed
    <2>2. log[head[m]].before \subseteq log'[head'[m]].before
      BY <1>1, <1>3, AutoCommitStep
    <2>3. QED
      BY <1>2, <2>1, <2>2 DEF ShapeAt, Syncing, graph, Idle
  <1>4. CASE Exchange(m)
    <2>1. UNCHANGED <<graph, sync>> /\ sync[m] = Idle
      BY <1>1, <1>4, ExchangeCases
    <2>2. log[head[m]].before \subseteq log'[head'[m]].before
      BY <1>1, <1>4, ExchangeCases, PullsStep, PushesStep, MergesStep, VaultFacts
    <2>3. QED
      BY <1>2, <2>1, <2>2 DEF ShapeAt, Syncing, graph, Idle
  <1>5. CASE Remove(m) \/ Stage(m) \/ Retire(m) \/ Restore(m)
    <2>1. UNCHANGED <<log, head, sync, bookmark>>
      BY <1>5, RewriteStep
    <2>2. QED
      BY <2>1 DEF ShapeAt, Syncing, Idle
  <1>6. CASE CommitDocument(m)
    BY <1>6 DEF CommitDocument, vault, ShapeAt, Syncing, Idle
  <1>7. CASE BeginSync(m)
    <2>1. PICK b : b = bookmark[GraphOf[m]]
      OBVIOUS
    <2>2. /\ b # head[m] /\ sync'[m].todo # <<>> /\ sync'[m].base = b /\ sync'[m].head = head[m]
          /\ UNCHANGED <<vault, graph>>
      BY <1>7, <2>1, BeginSyncBegins DEF BeginSync
    <2>3. QED
      BY <1>2, <2>1, <2>2 DEF ShapeAt, Syncing, Idle, vault, graph
  <1>8. CASE FailSync(m)
    <2>1. /\ sync[m].todo # <<>> /\ sync'[m].base = sync[m].base /\ sync'[m].head = sync[m].head
      BY <1>8, FailSyncFails
    <2>2. UNCHANGED <<vault, graph>> /\ head[m] = sync[m].head /\ Syncing(m)
      BY <1>1, <1>8, <2>1 DEF FailSync, Syncing
    <2>3. QED
      BY <1>2, <2>1, <2>2 DEF ShapeAt, Syncing, vault, graph, Idle
  <1>9. CASE Advance(m)
    <2>1. Done(m, "advance")
      BY <1>9, DoingDone DEF Advance
    <2>2. /\ sync'[m] = Idle /\ UNCHANGED vault /\ bookmark'[GraphOf[m]] = sync[m].head
      BY <1>1, <1>9, <2>1 DEF Done, Advance, Doing, GraphType
    <2>3. QED
      BY <1>2, <2>2 DEF ShapeAt, Syncing, vault, Idle
  <1>10. CASE Replay(m) \/ Retract(m) \/ ApplyRecord(m) \/ RemoveRecord(m)
    <2>1. PICK step \in {"replay", "retract", "apply", "remove"} : Doing(m, step)
      BY <1>10 DEF Replay, Retract, ApplyRecord, RemoveRecord
    <2>2. /\ sync'[m].todo # <<>> /\ sync'[m].base = sync[m].base /\ sync'[m].head = sync[m].head
          /\ sync[m].todo # <<>>
      BY <2>1, DoingDone DEF Done
    <2>3. UNCHANGED <<vault, bookmark>>
      BY <1>10, <2>1 DEF Doing, Replay, Retract, ApplyRecord, RemoveRecord
    <2>4. QED
      BY <1>1, <2>2, <2>3 DEF ShapeAt, Syncing, vault, Idle
  <1>11. QED
    BY <1>3, <1>4, <1>5, <1>6, <1>7, <1>8, <1>9, <1>10 DEF Step

LEMMA ShapeStep ==
    ASSUME Apart, Base, Base', NEW m \in Machines, Step(m), Shape
    PROVE  Shape'
  BY ShapeOther, ShapeOwn DEF Shape

(* A sync under way, or one that failed, is not done.                      *)
LEMMA SyncingNotSynced ==
    ASSUME Base, Shape, NEW m \in Machines
    PROVE  /\ Syncing(m) => bookmark[GraphOf[m]] # head[m] /\ ~Synced(m)
           /\ ~Syncing(m) => At(sync[m].head) = First
  <1>1. ASSUME Syncing(m) PROVE bookmark[GraphOf[m]] # head[m]
    <2> DEFINE b == sync[m].base
               s == sync[m].head
               h == head[m]
    <2>1. /\ b = bookmark[GraphOf[m]] /\ b # s
      BY <1>1 DEF Shape, ShapeAt
    <2>2. /\ b \in log[s].before /\ s \in log[h].before
      BY BaseParts DEF SyncType
    <2>3. h \in DOMAIN log /\ s \in DOMAIN log
      BY Trees
    <2>4. /\ log[s].before \subseteq 1 .. s /\ log[h].before \subseteq 1 .. h
          /\ h \in Nat /\ s \in Nat
      BY <2>3, BaseParts, VaultFacts
    <2>5. b \in 1 .. s /\ s \in 1 .. h
      BY <2>2, <2>4
    <2>6. QED
      BY <2>1, <2>4, <2>5
  <1>2. ~Syncing(m) => At(sync[m].head) = First
    BY BaseParts, VaultFacts DEF Syncing, Idle, Rooted, At
  <1>3. QED
    BY <1>1, <1>2 DEF Synced

-----------------------------------------------------------------------------
(* The record and the folder have one owner at a time.                     *)

LEMMA OwnedAutoCommit ==
    ASSUME Base, Owned, NEW m \in Machines, AutoCommit(m)
    PROVE  Owned' /\ \A p \in Machines : Owner(p) => Owner(p)'
  <1>1. CommitTrees(m)
    BY AutoCommitTrees
  <1>2. ASSUME NEW p \in Machines PROVE Private(p)' => Private(p)
    BY <1>1 DEF CommitTrees, Private, Recorded, Removed
  <1>3. \A p \in Machines : Behind(p)' <=> Behind(p)
    BY <1>1 DEF CommitTrees, Behind
  <1>4. ASSUME NEW p \in Machines, Owner(p) PROVE Owner(p)'
    BY <1>1, <1>2, <1>3, <1>4 DEF CommitTrees, Owner
  <1>5. Single'
    BY <1>2, <1>4 DEF Owned, Single
  <1>6. ASSUME NEW p \in Machines, 0 \notin Folders(p) PROVE (0 \notin Folders(p))'
    <2>1. /\ At(bookmark[GraphOf[p]])' = At(bookmark[GraphOf[p]]) /\ At(sync[p].head)' = At(sync[p].head)
      BY <1>1, Trees DEF CommitTrees, graph
    <2>2. /\ work[p].folder # 0 /\ At(head[p]).folder # 0 /\ At(bookmark[GraphOf[p]]).folder # 0
          /\ At(sync[p].head).folder # 0
      BY <1>6 DEF Folders
    <2>3. /\ work'[p].folder # 0 /\ At(head[p])'.folder # 0
      BY <1>1, <2>2 DEF CommitTrees
    <2>4. QED
      BY <2>1, <2>2, <2>3 DEF Folders
  <1>7. \A p \in Machines : Removed(p)' => Removed(p)
    BY <1>1 DEF CommitTrees, Removed
  <1>8. Removal'
    BY <1>1, <1>3, <1>6, <1>7 DEF Owned, Removal, RemovedAt, CommitTrees
  <1>9. Whole'
    BY <1>1 DEF Owned, Whole, CommitTrees
  <1>10. QED
    BY <1>4, <1>5, <1>8, <1>9 DEF Owned

(* What a merge is, part by part.                                          *)
LEMMA MergedParts ==
    ASSUME NEW x, NEW h, NEW r, NEW t, t = Merged(x, h, r)
    PROVE  /\ t.record = IF h.record = x.record THEN r.record ELSE h.record
           /\ t.folder = IF h.folder = x.folder THEN r.folder ELSE h.folder
  BY DEF Merged, MergedFile

LEMMA OwnedExchange ==
    ASSUME Base, Owned, NEW m \in Machines, NEW t, ExchangeLeaves(m, t)
    PROVE  /\ Owned' /\ \A p \in Machines : Owner(p) => Owner(p)'
           /\ Owner(m) => work'[m].record = work[m].record
           /\ ~Private(m)'
  <1>1. PICK x : x = At(Fork(m))
    OBVIOUS
  <1>2. PICK h : h = At(head[m])
    OBVIOUS
  <1>3. PICK r : r = At(tip)
    OBVIOUS
  <1>4. /\ x \in Tree /\ h \in Tree /\ r \in Tree
        /\ h.folder = 0 => ~h.record
        /\ r.folder = 0 => ~r.record
    <2>1. head[m] \in DOMAIN log /\ tip \in DOMAIN log /\ At(Fork(m)) \in Tree
          /\ At(head[m]) \in Tree /\ At(tip) \in Tree
      BY Trees, BaseParts, VaultFacts
    <2>2. QED
      BY <1>1, <1>2, <1>3, <2>1 DEF Owned, Whole
  <1>5. /\ x.record \in BOOLEAN /\ h.record \in BOOLEAN /\ r.record \in BOOLEAN
    BY <1>4 DEF Tree
  <1>6. /\ t.record = IF h.record = x.record THEN r.record ELSE h.record
        /\ t.folder = IF h.folder = x.folder THEN r.folder ELSE h.folder
    BY <1>1, <1>2, <1>3, MergedParts DEF ExchangeLeaves
  <1>7. /\ work[m] = h /\ work'[m] = t /\ At(head[m])' = t /\ At(Fork(m))' = t /\ At(tip)' = t
        /\ \A n \in Machines \ {m} : /\ work'[n] = work[n] /\ At(head[n])' = At(head[n])
                                     /\ At(Fork(n))' = At(Fork(n))
    BY <1>2 DEF ExchangeLeaves
  <1>8. /\ Recorded(m) <=> h.record # x.record
        /\ Removed(m) <=> x.folder # 0 /\ h.folder = 0
        /\ Behind(m) <=> x.folder # 0 /\ r.folder = 0
    BY <1>1, <1>2, <1>3, <1>7 DEF Recorded, Removed, Behind
  <1>9. ~Private(m)' /\ ~Behind(m)'
    BY <1>7 DEF Private, Recorded, Removed, Behind
  <1>10. \A n \in Machines \ {m} : /\ Private(n)' <=> Private(n)
                                   /\ Removed(n)' <=> Removed(n)
    BY <1>7 DEF Private, Recorded, Removed
  <1>11. ASSUME NEW p \in Machines \ {m}, t.folder = 0, At(Fork(p)).folder # 0, ~Removed(m)
         PROVE  Behind(p)
    BY <1>3, <1>6, <1>8, <1>11 DEF Behind
  <1>12. ASSUME NEW p \in Machines, Owner(p) PROVE Owner(p)'
    <2>1. CASE p = m
      <3>1. At(tip)'.record = At(Fork(m))'.record
        BY <1>7
      <3>2. QED
        BY <1>9, <1>10, <1>12, <2>1, <3>1 DEF Owner
    <2>2. CASE p # m
      <3>1. ~Private(m) /\ r.record = At(Fork(p)).record /\ ~Behind(p)
        BY <1>3, <1>12, <2>2 DEF Owner
      <3>2. t.record = r.record
        BY <1>6, <1>8, <3>1 DEF Private
      <3>3. ~Behind(p)'
        BY <1>7, <1>11, <2>2, <3>1 DEF Behind, Private
      <3>4. At(tip)'.record = At(Fork(p))'.record
        BY <1>7, <2>2, <3>1, <3>2
      <3>5. \A n \in Machines \ {p} : ~Private(n)'
        BY <1>9, <1>10, <1>12 DEF Owner
      <3>6. QED
        BY <3>3, <3>4, <3>5 DEF Owner
    <2>3. QED
      BY <2>1, <2>2
  <1>13. Single'
    BY <1>9, <1>10, <1>12 DEF Owned, Single
  <1>14. ASSUME NEW p \in Machines \ {m}, 0 \notin Folders(p) PROVE (0 \notin Folders(p))'
    <2>1. /\ At(bookmark[GraphOf[p]])' = At(bookmark[GraphOf[p]]) /\ At(sync[p].head)' = At(sync[p].head)
      BY Trees DEF ExchangeLeaves, graph
    <2>2. QED
      BY <1>7, <1>14, <2>1 DEF Folders
  <1>15. ASSUME 0 \notin Folders(m), r.folder # 0 PROVE (0 \notin Folders(m))' /\ t.folder # 0
    <2>1. /\ At(bookmark[GraphOf[m]])' = At(bookmark[GraphOf[m]]) /\ At(sync[m].head)' = At(sync[m].head)
      BY Trees DEF ExchangeLeaves, graph
    <2>2. h.folder # 0 /\ At(bookmark[GraphOf[m]]).folder # 0 /\ At(sync[m].head).folder # 0
      BY <1>2, <1>15 DEF Folders
    <2>3. t.folder # 0
      BY <1>6, <1>15, <2>2
    <2>4. QED
      BY <1>7, <2>1, <2>2, <2>3 DEF Folders
  <1>16. ASSUME NEW p \in Machines PROVE RemovedAt(p)'
    <2>1. CASE p = m
      BY <1>9, <2>1 DEF RemovedAt, Private
    <2>2. CASE p # m
      <3>1. ASSUME Removed(p) PROVE At(tip)'.folder # 0 /\ \A n \in Machines \ {p} : (0 \notin Folders(n))'
        <4>1. r.folder # 0 /\ \A n \in Machines \ {p} : 0 \notin Folders(n)
          BY <1>3, <3>1 DEF Owned, Removal, RemovedAt
        <4>2. QED
          BY <1>7, <1>14, <1>15, <2>2, <4>1
      <3>2. ASSUME Behind(p)' PROVE (0 \notin Folders(p))'
        <4>1. t.folder = 0 /\ At(Fork(p)).folder # 0
          BY <1>7, <2>2, <3>2 DEF Behind
        <4>2. 0 \notin Folders(p)
          BY <1>11, <2>2, <4>1 DEF Owned, Removal, RemovedAt
        <4>3. QED
          BY <1>14, <2>2, <4>2
      <3>3. QED
        BY <1>10, <2>2, <3>1, <3>2 DEF RemovedAt
    <2>3. QED
      BY <2>1, <2>2
  <1>17. ASSUME t.folder = 0 PROVE ~t.record
    <2>1. CASE h.folder = x.folder
      <3>1. r.folder = 0 /\ ~r.record
        BY <1>4, <1>6, <1>17, <2>1
      <3>2. ASSUME t.record PROVE FALSE
        <4>1. Recorded(m)
          BY <1>6, <1>8, <3>1, <3>2
        <4>2. ~Behind(m)
          BY <4>1 DEF Owned, Single, Private, Owner
        <4>3. h.folder = 0
          BY <1>8, <2>1, <3>1, <4>2
        <4>4. QED
          BY <1>4, <1>6, <3>1, <3>2, <4>3
      <3>3. QED
        BY <3>2
    <2>2. CASE h.folder # x.folder
      <3>1. h.folder = 0 /\ ~h.record /\ x.folder # 0
        BY <1>4, <1>6, <1>17, <2>2
      <3>2. r.record = x.record
        BY <1>1, <1>3, <1>8, <3>1 DEF Owned, Single, Private, Owner
      <3>3. QED
        BY <1>5, <1>6, <3>1, <3>2
    <2>3. QED
      BY <2>1, <2>2
  <1>18. Whole'
    BY <1>7, <1>17 DEF Owned, Whole, ExchangeLeaves
  <1>19. Owner(m) => work'[m].record = work[m].record
    BY <1>1, <1>3, <1>5, <1>6, <1>7 DEF Owner
  <1>20. QED
    BY <1>9, <1>12, <1>13, <1>16, <1>18, <1>19 DEF Owned, Removal

LEMMA OwnedStage ==
    ASSUME Base, Owned, NEW m \in Machines, Stage(m)
    PROVE  Owned' /\ \A p \in Machines : Owner(p) => Owner(p)'
  <1>1. RewriteTrees(m)
    BY RewritesTrees
  <1>2. /\ work'[m].folder = made + 1 /\ made + 1 # 0 /\ work'[m].record = work[m].record
    <2>1. made \in Nat /\ work \in [Machines -> Tree]
      BY BaseParts, VaultFacts
    <2>2. QED
      BY <2>1, Rewritten
  <1>3. \A p \in Machines : /\ Private(p)' => Private(p)
                            /\ Removed(p)' => Removed(p)
                            /\ Behind(p)' <=> Behind(p)
    BY <1>1, <1>2 DEF RewriteTrees, Private, Recorded, Removed, Behind
  <1>4. ASSUME NEW p \in Machines, Owner(p) PROVE Owner(p)'
    BY <1>1, <1>3, <1>4 DEF RewriteTrees, Owner
  <1>5. Single'
    BY <1>3, <1>4 DEF Owned, Single
  <1>6. ASSUME NEW p \in Machines, 0 \notin Folders(p) PROVE (0 \notin Folders(p))'
    BY <1>1, <1>2, <1>6 DEF RewriteTrees, Folders
  <1>7. Removal'
    BY <1>1, <1>3, <1>6 DEF Owned, Removal, RemovedAt, RewriteTrees
  <1>8. Whole'
    BY <1>1, <1>2 DEF Owned, Whole, RewriteTrees
  <1>9. QED
    BY <1>4, <1>5, <1>7, <1>8 DEF Owned

(* A command makes its machine the owner.                                  *)
LEMMA OwnedCommand ==
    ASSUME Apart, Base, Shape, Owned, NEW m \in Machines, Remove(m) \/ Retire(m) \/ Restore(m)
    PROVE  /\ Owned' /\ Owner(m)'
           /\ \A p \in Machines \ {m} : Synced(p) /\ ~Private(p)
  <1>1. RewriteTrees(m)
    BY RewritesTrees
  <1>2. Alone(m)
    BY DEF Apart, Remove, Retire, Restore, Command
  <1>3. /\ Fork(m) = tip
        /\ \A n \in Machines \ {m} : /\ Fork(n) = head[n] /\ work[n] = At(head[n])
                                     /\ head[n] = bookmark[GraphOf[n]]
    BY <1>2, AloneTrees
  <1>4. /\ work \in [Machines -> Tree]
        /\ Remove(m) => /\ work'[m].folder = 0 /\ work'[m].record = work[m].record
                        /\ work[m].folder # 0 /\ ~work[m].record
                        /\ \A g \in Graphs : At(bookmark[g]).folder # 0
        /\ Retire(m) => /\ work'[m].folder = work[m].folder /\ work[m].folder # 0
        /\ Restore(m) => /\ work'[m].folder = work[m].folder /\ ~work'[m].record
    <2>1. work \in [Machines -> Tree]
      BY BaseParts, VaultFacts
    <2>2. QED
      BY <2>1, Rewritten DEF Apart, Remove, Retire
  <1>5. \A p \in Machines \ {m} : ~Private(p) /\ ~Private(p)' /\ ~Removed(p)'
    BY <1>1, <1>3 DEF RewriteTrees, Private, Recorded, Removed
  <1>6. At(tip) = At(Fork(m)) /\ ~Behind(m)'
    BY <1>1, <1>3 DEF RewriteTrees, Behind
  <1>7. Owner(m)'
    BY <1>1, <1>5, <1>6 DEF RewriteTrees, Owner
  <1>8. Single'
    BY <1>5, <1>7 DEF Single
  <1>9. ASSUME Removed(m)' PROVE At(tip)'.folder # 0 /\ \A n \in Machines \ {m} : (0 \notin Folders(n))'
    <2>1. At(tip)'.folder # 0
      BY <1>1, <1>6, <1>9 DEF RewriteTrees, Removed
    <2>2. ASSUME NEW n \in Machines \ {m} PROVE 0 \notin Folders(n)
      <3>1. CASE Remove(m)
        <4>1. At(bookmark[GraphOf[n]]).folder # 0
          BY <1>4, <3>1, ConstantsAssumption
        <4>2. work[n].folder # 0 /\ At(head[n]).folder # 0
          BY <1>3, <4>1
        <4>3. At(sync[n].head).folder # 0
          BY <1>3, SyncingNotSynced DEF First
        <4>4. QED
          BY <4>1, <4>2, <4>3 DEF Folders
      <3>2. CASE ~Remove(m)
        <4>1. Removed(m)
          BY <1>1, <1>4, <1>9, <3>2 DEF RewriteTrees, Removed
        <4>2. QED
          BY <4>1 DEF Owned, Removal, RemovedAt
      <3>3. QED
        BY <3>1, <3>2
    <2>3. QED
      BY <1>1, <2>1, <2>2 DEF RewriteTrees, Folders
  <1>10. ASSUME NEW p \in Machines \ {m}, Behind(p)' PROVE (0 \notin Folders(p))'
    <2>1. Behind(p)
      BY <1>1, <1>10 DEF RewriteTrees, Behind
    <2>2. 0 \notin Folders(p)
      BY <2>1 DEF Owned, Removal, RemovedAt
    <2>3. QED
      BY <1>1, <2>2 DEF RewriteTrees, Folders
  <1>11. Removal'
    BY <1>5, <1>6, <1>9, <1>10 DEF Removal, RemovedAt
  <1>12. Whole'
    BY <1>1, <1>4 DEF Owned, Whole, RewriteTrees
  <1>13. QED
    BY <1>2, <1>5, <1>7, <1>8, <1>11, <1>12 DEF Owned, Alone

(* The steps of an ingest and of a sync on the graph.                      *)
LEMMA OwnedGraph ==
    ASSUME Apart, Base, Owned, NEW m \in Machines,
           \/ CommitDocument(m) \/ BeginSync(m) \/ Replay(m) \/ Retract(m) \/ ApplyRecord(m)
           \/ RemoveRecord(m) \/ Advance(m) \/ FailSync(m)
    PROVE  UNCHANGED vault /\ Owned' /\ \A p \in Machines : Owner(p) <=> Owner(p)'
  <1>1. UNCHANGED vault
    BY DEF CommitDocument, BeginSync, FailSync, Replay, Retract, ApplyRecord, RemoveRecord, Advance, Doing
  <1>2. /\ \A c : At(c)' = At(c) /\ \A p \in Machines : Fork(p)' = Fork(p)
        /\ head' = head /\ tip' = tip /\ work' = work /\ log' = log
    BY <1>1 DEF At, Fork, vault
  <1>3. \A p \in Machines : /\ Private(p)' <=> Private(p)
                            /\ Removed(p)' <=> Removed(p)
                            /\ Behind(p)' <=> Behind(p)
    BY <1>2 DEF Private, Recorded, Removed, Behind
  <1>4. \A p \in Machines : Owner(p) <=> Owner(p)'
    BY <1>2, <1>3 DEF Owner
  <1>5. ASSUME NEW p \in Machines, 0 \notin Folders(p) PROVE (0 \notin Folders(p))'
    <2>1. CASE p # m
      <3>1. Left(p)
        BY <2>1, StepLeaves DEF Step
      <3>2. QED
        BY <1>2, <1>5, <3>1 DEF Left, Folders
    <2>2. CASE p = m
      <3>1. /\ work[m].folder # 0 /\ At(head[m]).folder # 0 /\ At(bookmark[GraphOf[m]]).folder # 0
            /\ At(sync[m].head).folder # 0
        BY <1>5, <2>2 DEF Folders
      <3>2. At(1).folder # 0 /\ Idle.head = 1
        BY BaseParts, VaultFacts DEF Rooted, At, First, Idle
      <3>3. sync'[m].head \in {sync[m].head, head[m], 1}
        <4>1. CASE CommitDocument(m)
          BY <4>1 DEF CommitDocument
        <4>2. CASE BeginSync(m)
          BY <4>2, BeginSyncBegins
        <4>3. CASE FailSync(m)
          BY <4>3, FailSyncFails
        <4>4. CASE Replay(m) \/ Retract(m) \/ ApplyRecord(m) \/ RemoveRecord(m) \/ Advance(m)
          <5>1. PICK step : Doing(m, step)
            BY <4>4 DEF Replay, Retract, ApplyRecord, RemoveRecord, Advance
          <5>2. QED
            BY <3>2, <5>1, DoingDone DEF Done
        <4>5. QED
          BY <4>1, <4>2, <4>3, <4>4
      <3>4. bookmark'[GraphOf[m]] \in {bookmark[GraphOf[m]], sync[m].head}
        <4>1. GraphOf[m] \in Graphs /\ bookmark \in [Graphs -> DOMAIN log]
          BY BaseParts, ConstantsAssumption DEF GraphType
        <4>2. QED
          BY <4>1 DEF CommitDocument, BeginSync, FailSync, Replay, Retract, ApplyRecord, RemoveRecord,
            Advance, graph
      <3>5. \A c : c = sync'[m].head \/ c = bookmark'[GraphOf[m]] => At(c).folder # 0
        BY <3>1, <3>2, <3>3, <3>4
      <3>6. QED
        BY <1>2, <2>2, <3>1, <3>5 DEF Folders, At
    <2>3. QED
      BY <2>1, <2>2
  <1>6. Single' /\ Whole'
    BY <1>2, <1>3, <1>4 DEF Owned, Single, Whole
  <1>7. Removal'
    BY <1>2, <1>3, <1>5 DEF Owned, Removal, RemovedAt
  <1>8. QED
    BY <1>1, <1>4, <1>6, <1>7 DEF Owned

LEMMA OwnedStep ==
    ASSUME Apart, Base, Shape, Owned, NEW m \in Machines, Step(m)
    PROVE  /\ Owned'
           /\ \A p \in Machines : Owner(p) /\ (p = m \/ Private(p) \/ ~Synced(p)) => Owner(p)'
  <1>1. CASE AutoCommit(m) \/ Stage(m)
    BY <1>1, OwnedAutoCommit, OwnedStage
  <1>2. CASE Exchange(m)
    BY <1>2, ExchangeStep, OwnedExchange
  <1>3. CASE Remove(m) \/ Retire(m) \/ Restore(m)
    BY <1>3, OwnedCommand
  <1>4. CASE \/ CommitDocument(m) \/ BeginSync(m) \/ Replay(m) \/ Retract(m) \/ ApplyRecord(m)
             \/ RemoveRecord(m) \/ Advance(m) \/ FailSync(m)
    BY <1>4, OwnedGraph
  <1>5. QED
    BY <1>1, <1>2, <1>3, <1>4 DEF Step

LEMMA VersionsStep ==
    ASSUME Base, Versions, NEW m \in Machines, Step(m)
    PROVE  Versions'
  <1>1. CASE AutoCommit(m)
    BY <1>1, VersionsAutoCommit
  <1>2. CASE Exchange(m)
    BY <1>2, VersionsExchange
  <1>3. CASE Remove(m) \/ Stage(m) \/ Retire(m) \/ Restore(m)
    BY <1>3, VersionsRewrite
  <1>4. CASE \/ CommitDocument(m) \/ BeginSync(m) \/ Replay(m) \/ Retract(m) \/ ApplyRecord(m)
             \/ RemoveRecord(m) \/ Advance(m) \/ FailSync(m)
    <2>1. log' = log /\ head' = head /\ work' = work
      BY <1>4 DEF CommitDocument, BeginSync, FailSync, Replay, Retract, ApplyRecord, RemoveRecord,
        Advance, Doing, vault
    <2>2. Origin' /\ NoReturn' /\ Fresh'
      BY <2>1 DEF Versions, Origin, NoReturn, Fresh, FreshAt, Folder
    <2>3. QED
      BY <2>2 DEF Versions
  <1>5. QED
    BY <1>1, <1>2, <1>3, <1>4 DEF Step

LEMMA VaultInit ==
    ASSUME Init
    PROVE  Versions /\ Owned /\ Shape
  <1>1. /\ Base /\ tip = 1 /\ log = <<[tree |-> First, before |-> {1}]>>
        /\ First.folder = 1 /\ First.record = FALSE /\ DOMAIN log = {1}
        /\ At(1) = First /\ log[1].before = {1}
    <2>1. Base /\ tip = 1 /\ log = <<[tree |-> First, before |-> {1}]>>
      BY BaseInit DEF Init
    <2>2. First.folder = 1 /\ First.record = FALSE
      BY DEF First
    <2>3. DOMAIN log = {1} /\ log[1] = [tree |-> First, before |-> {1}]
      BY <2>1
    <2>4. QED
      BY <2>1, <2>2, <2>3 DEF At
  <1>2. \A m \in Machines : /\ head[m] = 1 /\ work[m] = First /\ sync[m] = Idle
                            /\ bookmark[GraphOf[m]] = 1
    BY ConstantsAssumption DEF Init
  <1>3. \A m \in Machines : Fork(m) = 1
    BY <1>1, Trees
  <1>4. Versions
    <2>1. Folder(1) = 1 /\ \A m \in Machines : work[m].folder = Folder(head[m])
      BY <1>1, <1>2 DEF Folder
    <2>2. Origin /\ NoReturn
      BY <1>1 DEF Origin, NoReturn
    <2>3. QED
      BY <2>1, <2>2 DEF Versions, Fresh, FreshAt
  <1>5. \A m \in Machines : ~Private(m) /\ ~Removed(m) /\ ~Behind(m)
    BY <1>1, <1>2, <1>3 DEF Private, Recorded, Removed, Behind
  <1>6. Owned
    BY <1>1, <1>2, <1>5 DEF Owned, Single, Removal, RemovedAt, Whole
  <1>7. Shape
    BY <1>1, <1>2 DEF Shape, ShapeAt, Syncing
  <1>8. QED
    BY <1>4, <1>6, <1>7

-----------------------------------------------------------------------------
(* What a graph may hold, against the tree it has applied, the one its     *)
(* sync goes to, and the working tree of its machine.                      *)

Applied(m) == At(bookmark[GraphOf[m]])
Target(m) == At(sync[m].head)
Live(m) == label[GraphOf[m]] = "live"
Marked(m) == mark[GraphOf[m]]
Shelved(m) == ~Live(m) /\ m \notin raised
Running(m) == sync[m].todo # <<>>
Pending(m, step) == step \in Range(sync[m].todo)

(* The graph has version f, or the machine is on its way past it.          *)
VersionAt(m, f) == version[GraphOf[m]] = f \/ work[m].folder # f
AppliedVersion(m) == Live(m) \/ Applied(m).folder # 0 => VersionAt(m, Applied(m).folder)

(* Between syncs the node disagrees with the record applied only when the  *)
(* working tree has a newer word that no other machine can contradict.     *)
IdleGraph(m) ==
    /\ Live(m) /\ Applied(m).record => ~work[m].record /\ Owner(m)
    /\ Shelved(m) /\ ~Applied(m).record /\ Applied(m).folder # 0 => work[m].record /\ Owner(m)
    /\ Shelved(m) /\ Applied(m).record => Marked(m)
    /\ AppliedVersion(m)

(* In a sync, or after one that failed, what was true of the tree applied  *)
(* or is, once nothing is left to do about it, true of the target.         *)
SyncGraph(m) ==
    /\ work[m].record # Target(m).record => Owner(m)
    /\ Target(m).record /\ (Applied(m).record \/ (Running(m) /\ ~Pending(m, "apply"))) =>
         /\ Live(m) => ~work[m].record
         /\ Shelved(m) => Marked(m)
    /\ ~Target(m).record /\ Target(m).folder # 0 /\ Shelved(m) =>
         /\ Running(m) /\ ~Pending(m, "replay") /\ ~Pending(m, "remove") => work[m].record
         /\ Applied(m).record => Marked(m) \/ work[m].record
         /\ ~Applied(m).record /\ Applied(m).folder # 0 => work[m].record
    /\ /\ Running(m) /\ Target(m).folder = 0 /\ ~Pending(m, "retract")
       /\ Live(m) \/ (Marked(m) /\ Pending(m, "remove"))
       => work[m].folder # 0
    /\ Running(m) /\ Target(m).folder # 0 /\ ~Pending(m, "replay") => VersionAt(m, Target(m).folder)
    /\ Target(m).folder = Applied(m).folder => AppliedVersion(m)

GraphAt(m) ==
    /\ ~Syncing(m) => IdleGraph(m)
    /\ Syncing(m) => SyncGraph(m)
Agrees == \A m \in Machines : GraphAt(m)

LEMMA GraphFacts ==
    ASSUME Base, NEW m \in Machines
    PROVE  /\ GraphOf[m] \in Graphs
           /\ Applied(m).record \in BOOLEAN /\ Target(m).record \in BOOLEAN /\ work[m].record \in BOOLEAN
           /\ Applied(m).folder \in 0 .. made /\ Target(m).folder \in 0 .. made /\ work[m].folder \in 0 .. made
           /\ made \in Nat /\ version[GraphOf[m]] \in 1 .. made
           /\ label[GraphOf[m]] \in {"live", "history"} /\ mark[GraphOf[m]] \in BOOLEAN
           /\ Fits(sync[m].todo, At(sync[m].base), Target(m))
  <1>1. VaultInv /\ GraphType /\ Plans /\ GraphOf[m] \in Graphs
    BY BaseParts, ConstantsAssumption
  <1>2. /\ bookmark[GraphOf[m]] \in DOMAIN log /\ sync[m].head \in DOMAIN log /\ work[m] \in Tree
        /\ \A c \in DOMAIN log : log[c].tree.folder \in 0 .. made /\ log[c].tree.record \in BOOLEAN
        /\ made \in Nat
    BY <1>1, Trees, VaultFacts
  <1>3. work[m].folder \in 0 .. made /\ work[m].record \in BOOLEAN
    BY <1>1, <1>2, VaultFacts DEF Tree, VaultInv, Extracted
  <1>4. QED
    BY <1>1, <1>2, <1>3 DEF Applied, Target, At, GraphType, Plans

(* What a step leaves alone, the invariant of m too.                       *)
Unseen(m) ==
    /\ work'[m] = work[m] /\ sync'[m] = sync[m] /\ (m \in raised' <=> m \in raised)
    /\ Applied(m)' = Applied(m) /\ Target(m)' = Target(m)
    /\ label'[GraphOf[m]] = label[GraphOf[m]] /\ version'[GraphOf[m]] = version[GraphOf[m]]
    /\ mark'[GraphOf[m]] = mark[GraphOf[m]]

LEMMA GraphUnseen ==
    ASSUME NEW m, GraphAt(m), Unseen(m), Syncing(m) => (Owner(m) => Owner(m)'),
           work[m].record # Applied(m).record => (Owner(m) => Owner(m)'),
           work[m].record \in BOOLEAN, Applied(m).record \in BOOLEAN
    PROVE  GraphAt(m)'
  <1>1. /\ Live(m)' <=> Live(m)
        /\ Marked(m)' <=> Marked(m)
        /\ Shelved(m)' <=> Shelved(m)
        /\ Running(m)' <=> Running(m)
        /\ Syncing(m)' <=> Syncing(m)
        /\ \A s : Pending(m, s)' <=> Pending(m, s)
        /\ AppliedVersion(m)' <=> AppliedVersion(m)
        /\ VersionAt(m, Target(m).folder)' <=> VersionAt(m, Target(m).folder)
        /\ work'[m].record = work[m].record /\ work'[m].folder = work[m].folder
        /\ Applied(m)' = Applied(m) /\ Target(m)' = Target(m)
    BY DEF Unseen, Live, Marked, Shelved, Running, Syncing, Idle, Pending, AppliedVersion, VersionAt, Range
  <1>2. ~Syncing(m) /\ IdleGraph(m) => IdleGraph(m)'
    BY <1>1 DEF IdleGraph
  <1>3. Syncing(m) /\ SyncGraph(m) => SyncGraph(m)'
    BY <1>1 DEF SyncGraph
  <1>4. QED
    BY <1>1, <1>2, <1>3 DEF GraphAt

(* The steps of other machines.                                            *)
LEMMA GraphOther ==
    ASSUME Apart, Base, Shape, Owned, Agrees, NEW m \in Machines, Step(m), NEW n \in Machines \ {m}
    PROVE  GraphAt(n)'
  <1>1. /\ Left(n) /\ \A c \in DOMAIN log : At(c)' = At(c)
        /\ bookmark[GraphOf[n]] \in DOMAIN log /\ sync[n].head \in DOMAIN log
    BY StepLeaves, Trees
  <1>2. Applied(n)' = Applied(n) /\ Target(n)' = Target(n)
    BY <1>1 DEF Left, Applied, Target, At
  <1>3. Unseen(n)
    BY <1>1, <1>2 DEF Left, Unseen
  <1>4. Syncing(n) \/ work[n].record # Applied(n).record => ~Synced(n)
    BY SyncingNotSynced DEF Synced, Dirty, Applied
  <1>5. Syncing(n) \/ work[n].record # Applied(n).record => (Owner(n) => Owner(n)')
    BY <1>4, OwnedStep
  <1>6. work[n].record \in BOOLEAN /\ Applied(n).record \in BOOLEAN
    BY GraphFacts
  <1>7. QED
    BY <1>3, <1>5, <1>6, GraphUnseen DEF Agrees

(* The steps of m that change the working tree.                            *)
LEMMA GraphAutoCommit ==
    ASSUME Apart, Base, Shape, Owned, Agrees, NEW m \in Machines, AutoCommit(m)
    PROVE  GraphAt(m)'
  <1>1. /\ CommitTrees(m) /\ bookmark[GraphOf[m]] \in DOMAIN log /\ sync[m].head \in DOMAIN log
    BY AutoCommitTrees, Trees
  <1>2. Applied(m)' = Applied(m) /\ Target(m)' = Target(m)
    BY <1>1 DEF CommitTrees, Applied, Target, At, graph
  <1>3. Unseen(m)
    BY <1>1, <1>2 DEF CommitTrees, Unseen, graph
  <1>4. (Owner(m) => Owner(m)') /\ GraphAt(m)
    BY OwnedAutoCommit DEF Agrees
  <1>5. QED
    BY <1>3, <1>4, GraphFacts, GraphUnseen

LEMMA GraphExchange ==
    ASSUME Apart, Base, Base', Shape, Owned, Versions, Agrees, NEW m \in Machines, Exchange(m)
    PROVE  GraphAt(m)'
  <1>1. PICK t : ExchangeLeaves(m, t)
    BY ExchangeStep
  <1>2. PICK b : b = Applied(m)
    OBVIOUS
  <1>3. /\ sync[m] = Idle /\ sync' = sync /\ graph' = graph /\ raised' = raised
        /\ work[m] = At(head[m]) /\ work'[m] = t /\ At(head[m])' = t
    BY <1>1, ExchangeCases DEF Apart, ExchangeLeaves
  <1>4. b = Applied(m)'
    BY <1>1, <1>2, Trees DEF ExchangeLeaves, Applied, At, graph
  <1>5. /\ (Owner(m) => Owner(m)') /\ (Owner(m) => t.record = work[m].record)
    BY <1>1, <1>3, OwnedExchange
  <1>6. /\ Live(m)' <=> Live(m)
        /\ Marked(m)' <=> Marked(m)
        /\ Shelved(m)' <=> Shelved(m)
        /\ version'[GraphOf[m]] = version[GraphOf[m]]
    BY <1>3 DEF graph, Live, Marked, Shelved
  <1>7. IdleGraph(m) /\ ~Syncing(m)'
    BY <1>3 DEF Agrees, GraphAt, Syncing, Idle
  <1>8. ASSUME t.folder = b.folder, b.folder # 0 PROVE work[m].folder = b.folder
    <2>1. /\ NoReturn' /\ Grown /\ log[head[m]].before \subseteq log'[head'[m]].before
          /\ head[m] \in log[head[m]].before /\ head[m] \in DOMAIN log /\ bookmark[GraphOf[m]] \in log[head[m]].before
          /\ bookmark[GraphOf[m]] \in DOMAIN log
      <3>1. Grown /\ log[head[m]].before \subseteq log'[head'[m]].before /\ VaultInv
        BY BaseParts, ExchangeCases, PullsStep, PushesStep, MergesStep, VaultFacts
      <3>2. QED
        BY <3>1, VersionsExchange, VaultFacts, Trees DEF Versions, Shape, ShapeAt
    <2>2. head'[m] \in DOMAIN log'
      BY BaseParts DEF Base, TypeOK
    <2>3. PICK c : c = head'[m]
      OBVIOUS
    <2>4. /\ log'[head[m]] = log[head[m]] /\ log'[bookmark[GraphOf[m]]] = log[bookmark[GraphOf[m]]]
      BY <2>1 DEF Grown
    <2>5. /\ log'[c].tree.folder = b.folder /\ log'[bookmark[GraphOf[m]]].tree.folder = b.folder
      BY <1>2, <1>3, <1>8, <2>3, <2>4 DEF At, Applied
    <2>6. log'[head[m]].tree.folder = b.folder
      <3> DEFINE d == head[m]
                 a == bookmark[GraphOf[m]]
      <3>1. c \in DOMAIN log' /\ d \in log'[c].before /\ a \in log'[d].before
        BY <2>1, <2>2, <2>3, <2>4
      <3>2. \A x \in DOMAIN log' : \A y \in log'[x].before : \A z \in log'[y].before :
              log'[z].tree.folder = log'[x].tree.folder /\ log'[z].tree.folder # 0
                => log'[y].tree.folder = log'[z].tree.folder
        BY <2>1 DEF NoReturn, Folder
      <3>3. QED
        BY <1>8, <2>5, <3>1, <3>2
    <2>7. QED
      BY <1>3, <2>4, <2>6 DEF At
  <1>9. ASSUME t.folder = 0, b.folder = 0 PROVE work[m].folder = 0
    <2>1. t.folder = IF At(head[m]).folder = At(Fork(m)).folder THEN At(tip).folder ELSE At(head[m]).folder
      BY <1>1, MergedParts DEF ExchangeLeaves
    <2>2. 0 \in Folders(m)
      BY <1>2, <1>9 DEF Folders, Applied
    <2>3. ~Behind(m)
      BY <2>2 DEF Owned, Removal, RemovedAt
    <2>4. QED
      BY <1>3, <1>9, <2>1, <2>3 DEF Behind
  <1>10. AppliedVersion(m)'
    <2>1. AppliedVersion(m)
      BY <1>7 DEF IdleGraph
    <2>2. QED
      BY <1>2, <1>3, <1>4, <1>6, <1>8, <1>9, <2>1 DEF AppliedVersion, VersionAt
  <1>11. IdleGraph(m)'
    BY <1>2, <1>3, <1>4, <1>5, <1>6, <1>7, <1>10 DEF IdleGraph
  <1>12. QED
    BY <1>7, <1>11 DEF GraphAt

(* What a command or an ingest of m does not touch.                        *)
LEMMA RewriteViews ==
    ASSUME Base, NEW m \in Machines, Remove(m) \/ Stage(m) \/ Retire(m) \/ Restore(m)
    PROVE  /\ Applied(m)' = Applied(m) /\ Target(m)' = Target(m)
           /\ Running(m)' <=> Running(m)
           /\ Syncing(m)' <=> Syncing(m)
           /\ \A s : Pending(m, s)' <=> Pending(m, s)
           /\ version'[GraphOf[m]] = version[GraphOf[m]]
  <1>1. UNCHANGED <<log, sync, bookmark>>
    BY RewriteStep
  <1>2. version' = version
    BY DEF Remove, Stage, Retire, Restore, graph
  <1>3. QED
    BY <1>1, <1>2 DEF Applied, Target, At, Running, Syncing, Idle, Pending, Range

LEMMA GraphRemove ==
    ASSUME Apart, Base, Shape, Owned, Agrees, NEW m \in Machines, Remove(m)
    PROVE  GraphAt(m)'
  <1>1. /\ work'[m].folder = 0 /\ work'[m].record = work[m].record
        /\ Synced(m) /\ ~work[m].record /\ work[m].folder # 0
        /\ label' = label /\ mark' = mark /\ raised' = raised
    <2>1. work \in [Machines -> Tree]
      BY BaseParts, VaultFacts
    <2>2. QED
      BY <2>1, Rewritten DEF Apart, Remove, graph
  <1>2. work[m] = Applied(m) /\ ~Syncing(m) /\ IdleGraph(m)
    BY <1>1, SyncingNotSynced DEF Synced, Dirty, Applied, Agrees, GraphAt
  <1>3. Owner(m)'
    BY OwnedCommand
  <1>4. /\ Live(m)' <=> Live(m)
        /\ Marked(m)' <=> Marked(m)
        /\ Shelved(m)' <=> Shelved(m)
    BY <1>1 DEF Live, Marked, Shelved
  <1>5. AppliedVersion(m)'
    BY <1>1, <1>2, RewriteViews DEF AppliedVersion, VersionAt
  <1>6. IdleGraph(m)'
    BY <1>1, <1>2, <1>3, <1>4, <1>5, RewriteViews DEF IdleGraph
  <1>7. QED
    BY <1>2, <1>6, RewriteViews DEF GraphAt

LEMMA GraphStage ==
    ASSUME Apart, Base, Shape, Owned, Agrees, NEW m \in Machines, Stage(m)
    PROVE  GraphAt(m)'
  <1>1. /\ work'[m].folder = made + 1 /\ work'[m].record = work[m].record
        /\ label' = label /\ mark' = mark /\ raised' = raised
    <2>1. work \in [Machines -> Tree]
      BY BaseParts, VaultFacts
    <2>2. QED
      BY <2>1, Rewritten DEF Stage, graph
  <1>2. /\ Live(m)' <=> Live(m)
        /\ Marked(m)' <=> Marked(m)
        /\ Shelved(m)' <=> Shelved(m)
    BY <1>1 DEF Live, Marked, Shelved
  <1>3. /\ \A f \in 0 .. made : work'[m].folder # f
        /\ Applied(m).folder \in 0 .. made /\ Target(m).folder \in 0 .. made /\ 0 \in 0 .. made
    BY <1>1, GraphFacts
  <1>4. (Owner(m) => Owner(m)') /\ GraphAt(m)
    BY OwnedStage DEF Agrees
  <1>5. AppliedVersion(m)' /\ VersionAt(m, Target(m).folder)'
    BY <1>3, RewriteViews DEF AppliedVersion, VersionAt
  <1>6. IdleGraph(m) => IdleGraph(m)'
    BY <1>1, <1>2, <1>4, <1>5, RewriteViews DEF IdleGraph
  <1>7. SyncGraph(m) => SyncGraph(m)'
    BY <1>1, <1>2, <1>3, <1>4, <1>5, RewriteViews DEF SyncGraph
  <1>8. QED
    BY <1>4, <1>6, <1>7, RewriteViews DEF GraphAt

LEMMA GraphRetire ==
    ASSUME Apart, Base, Shape, Owned, Agrees, NEW m \in Machines, Retire(m)
    PROVE  GraphAt(m)'
  <1>1. /\ work'[m].folder = work[m].folder /\ work'[m].record = TRUE /\ work[m].folder # 0
    <2>1. work \in [Machines -> Tree]
      BY BaseParts, VaultFacts
    <2>2. QED
      BY <2>1, Rewritten DEF Apart, Retire
  <1>2. Owner(m)' /\ GraphAt(m)
    BY OwnedCommand DEF Agrees
  <1>3. \/ ~Live(m)' /\ Marked(m)'
        \/ /\ Live(m)' <=> Live(m)
           /\ Marked(m)' <=> Marked(m)
           /\ Shelved(m)' <=> Shelved(m)
           /\ ~Applied(m).record /\ ~Target(m).record
    <2>1. CASE Retires(GraphOf[m])
      <3>1. label \in [Graphs -> {"live", "history"}] /\ mark \in [Graphs -> BOOLEAN] /\ GraphOf[m] \in Graphs
        BY BaseParts, GraphFacts DEF GraphType
      <3>2. QED
        BY <2>1, <3>1 DEF Retires, ToHistory, Live, Marked
    <2>2. CASE ~Retires(GraphOf[m])
      <3>1. UNCHANGED <<label, mark, raised>>
        BY <2>2 DEF Retire
      <3>2. ~Applied(m).record /\ ~Target(m).record
        BY <2>2 DEF Retire, Apart, Applied, Target
      <3>3. QED
        BY <3>1, <3>2 DEF Live, Marked, Shelved
    <2>3. QED
      BY <2>1, <2>2
  <1>4. Shelved(m)' => ~Live(m)'
    BY DEF Shelved
  <1>5. AppliedVersion(m) => AppliedVersion(m)'
    BY <1>1, <1>3, RewriteViews DEF AppliedVersion, VersionAt
  <1>6. VersionAt(m, Target(m).folder) => VersionAt(m, Target(m).folder)'
    BY <1>1, RewriteViews DEF VersionAt
  <1>7. IdleGraph(m) => IdleGraph(m)'
    BY <1>1, <1>2, <1>3, <1>4, <1>5, RewriteViews DEF IdleGraph
  <1>8. SyncGraph(m) => SyncGraph(m)'
    BY <1>1, <1>2, <1>3, <1>4, <1>5, <1>6, RewriteViews DEF SyncGraph
  <1>9. QED
    BY <1>2, <1>7, <1>8, RewriteViews DEF GraphAt

LEMMA GraphRestore ==
    ASSUME Apart, Base, Shape, Owned, Agrees, NEW m \in Machines, Restore(m)
    PROVE  GraphAt(m)'
  <1>1. /\ work'[m].folder = work[m].folder /\ work'[m].record = FALSE
        /\ Applied(m).folder # 0 /\ Target(m).folder # 0
    <2>1. work \in [Machines -> Tree]
      BY BaseParts, VaultFacts
    <2>2. 0 \notin Folders(m)
      BY DEF Apart, Restore
    <2>3. QED
      BY <2>1, <2>2, Rewritten DEF Folders, Applied, Target
  <1>2. Owner(m)' /\ GraphAt(m)
    BY OwnedCommand DEF Agrees
  <1>3. ~Shelved(m)'
    <2>1. CASE ToLatest(GraphOf[m])
      <3>1. label \in [Graphs -> {"live", "history"}] /\ GraphOf[m] \in Graphs
        BY BaseParts, GraphFacts DEF GraphType
      <3>2. QED
        BY <2>1, <3>1 DEF ToLatest, Live, Shelved
    <2>2. CASE ~ToLatest(GraphOf[m])
      BY <2>2 DEF Restore, Shelved
    <2>3. QED
      BY <2>1, <2>2
  <1>4. AppliedVersion(m) => AppliedVersion(m)'
    BY <1>1, RewriteViews DEF AppliedVersion, VersionAt
  <1>5. VersionAt(m, Target(m).folder) => VersionAt(m, Target(m).folder)'
    BY <1>1, RewriteViews DEF VersionAt
  <1>6. IdleGraph(m) => IdleGraph(m)'
    BY <1>1, <1>2, <1>3, <1>4, RewriteViews DEF IdleGraph
  <1>7. SyncGraph(m) => SyncGraph(m)'
    BY <1>1, <1>2, <1>3, <1>4, <1>5, RewriteViews DEF SyncGraph
  <1>8. QED
    BY <1>2, <1>6, <1>7, RewriteViews DEF GraphAt

(* What a step on the graph does not touch: the trees.                     *)
LEMMA TreesSame ==
    ASSUME UNCHANGED <<vault, bookmark>>, NEW m
    PROVE  work' = work /\ Applied(m)' = Applied(m)
  BY DEF vault, Applied, At

(* A document is committed where its clone is: at the bookmark.            *)
LEMMA GraphCommitDocument ==
    ASSUME Apart, Base, Shape, Owned, Agrees, NEW m \in Machines, CommitDocument(m)
    PROVE  GraphAt(m)'
  <1>1. /\ bookmark[GraphOf[m]] = head[m] /\ UNCHANGED <<vault, mark, bookmark, sync, raised>>
        /\ CommitsDocument(m, work[m].folder)
    BY DEF CommitDocument, Apart
  <1>2. /\ ~Syncing(m) /\ ~Syncing(m)' /\ IdleGraph(m)
    BY <1>1, SyncingNotSynced DEF Agrees, GraphAt, Syncing, Idle
  <1>3. /\ label \in [Graphs -> {"live", "history"}] /\ version \in [Graphs -> 1 .. made]
        /\ GraphOf[m] \in Graphs
    BY BaseParts, GraphFacts DEF GraphType
  <1>4. /\ Live(m)' <=> ~work[m].record
        /\ version'[GraphOf[m]] = work[m].folder
    BY <1>1, <1>3 DEF CommitsDocument, ToHistory, ToLatest, Live
  <1>5. /\ Marked(m)' <=> Marked(m)
        /\ m \in raised' <=> m \in raised
        /\ work' = work /\ Applied(m)' = Applied(m)
    BY <1>1, TreesSame DEF Marked
  <1>6. Shelved(m)' <=> work[m].record /\ m \notin raised
    BY <1>1, <1>4 DEF Shelved
  <1>7. /\ work[m].record \in BOOLEAN /\ Applied(m).record \in BOOLEAN
        /\ version[GraphOf[m]] \in 1 .. made
    BY GraphFacts
  <1>8. work[m].record # Applied(m).record => Owner(m)'
    <2>1. Applied(m) = At(head[m])
      BY <1>1 DEF Applied
    <2>2. work[m].record # Applied(m).record => Private(m)
      BY <1>7, <2>1 DEF Private, Recorded
    <2>3. Owner(m) => Owner(m)'
      BY OwnedGraph
    <2>4. QED
      BY <2>2, <2>3 DEF Owned, Single
  <1>9. AppliedVersion(m)'
    BY <1>4, <1>5 DEF AppliedVersion, VersionAt
  <1>10. Applied(m).record /\ work[m].record /\ m \notin raised => Marked(m)
    BY <1>2 DEF IdleGraph, Shelved
  <1>11. IdleGraph(m)'
    BY <1>4, <1>5, <1>6, <1>7, <1>8, <1>9, <1>10 DEF IdleGraph
  <1>12. QED
    BY <1>2, <1>11 DEF GraphAt

(* A sync begins with the graph as the bookmark, or the sync that failed,  *)
(* left it.                                                                *)
LEMMA GraphBeginSync ==
    ASSUME Apart, Base, Shape, Owned, Agrees, NEW m \in Machines, BeginSync(m)
    PROVE  GraphAt(m)'
  <1>1. PICK b : b = bookmark[GraphOf[m]]
    OBVIOUS
  <1>2. PICK h : h = head[m]
    OBVIOUS
  <1>3. /\ sync[m].todo = <<>> /\ UNCHANGED <<vault, graph, raised>>
    BY DEF BeginSync
  <1>4. /\ b \in DOMAIN log /\ b # h /\ sync'[m].base = b /\ sync'[m].head = h
        /\ sync'[m].todo = PlanOf(GraphOf[m], At(b), At(h)) /\ sync'[m].todo # <<>>
    BY <1>1, <1>2, BeginSyncBegins
  <1>5. h \in DOMAIN log /\ At(b) \in Tree /\ At(h) \in Tree /\ Applied(m) = At(b)
    BY <1>1, <1>2, <1>4, Trees DEF Applied
  <1>6. PICK t : t = At(h)
    OBVIOUS
  <1>7. /\ Applied(m)' = Applied(m) /\ Target(m)' = t /\ Running(m)' /\ Syncing(m)'
        /\ work' = work /\ t \in Tree
    BY <1>2, <1>3, <1>4, <1>5, <1>6, TreesSame DEF graph, vault, Target, At, Running, Syncing, Idle
  <1>8. /\ Live(m)' <=> Live(m)
        /\ Marked(m)' <=> Marked(m)
        /\ Shelved(m)' <=> Shelved(m)
        /\ version' = version
    BY <1>3 DEF graph, Live, Marked, Shelved
  <1>9. /\ Pending(m, "retract")' <=> t.folder = 0 /\ Applied(m).folder # 0
        /\ Pending(m, "replay")' <=>
             t.folder # 0 /\ t.folder # Applied(m).folder /\ ~Unchanged(GraphOf[m], t.folder)
        /\ t.record /\ ~Applied(m).record => Pending(m, "apply")'
        /\ Pending(m, "remove")' <=> Applied(m).record /\ ~t.record
    <2>1. PICK p : p = PlanOf(GraphOf[m], At(b), At(h))
      OBVIOUS
    <2>2. \A s : Pending(m, s)' <=> s \in Range(p)
      BY <1>4, <2>1 DEF Pending, Range
    <2>3. QED
      BY <1>5, <1>6, <2>1, <2>2, PlanFits
  <1>10. \/ ~Syncing(m) /\ IdleGraph(m)
         \/ Syncing(m) /\ SyncGraph(m) /\ Target(m) = t
    BY <1>2, <1>3, <1>6 DEF Agrees, GraphAt, Shape, ShapeAt, Target
  <1>11. /\ Live(m) /\ Applied(m).record /\ t.record => ~work[m].record
         /\ Shelved(m) /\ Applied(m).record /\ t.record => Marked(m)
         /\ ~t.record /\ t.folder # 0 /\ Shelved(m) =>
              /\ Applied(m).record => Marked(m) \/ work[m].record
              /\ ~Applied(m).record /\ Applied(m).folder # 0 => work[m].record
         /\ t.folder = Applied(m).folder => AppliedVersion(m)
    BY <1>10 DEF IdleGraph, SyncGraph
  <1>12. work[m].record # t.record => Owner(m)'
    <2>1. t.record \in BOOLEAN /\ work[m].record \in BOOLEAN
      BY <1>7, GraphFacts DEF Tree
    <2>2. work[m].record # t.record => Private(m)
      BY <1>2, <1>6, <2>1 DEF Private, Recorded
    <2>3. Owner(m) => Owner(m)'
      BY OwnedGraph
    <2>4. QED
      BY <2>2, <2>3 DEF Owned, Single
  <1>13. AppliedVersion(m) => AppliedVersion(m)'
    BY <1>7, <1>8 DEF AppliedVersion, VersionAt
  <1>14. /\ version[GraphOf[m]] # 0 /\ (Applied(m).folder = 0 => ~Applied(m).record)
    BY <1>4, <1>5, GraphFacts DEF Owned, Whole
  <1>15. t.folder = 0 /\ ~Pending(m, "retract")' /\ (Live(m) \/ (Marked(m) /\ Pending(m, "remove")'))
           => work[m].folder # 0
    BY <1>9, <1>11, <1>14 DEF AppliedVersion, VersionAt
  <1>16. t.folder # 0 /\ ~Pending(m, "replay")' => VersionAt(m, Target(m).folder)'
    <2>1. ASSUME t.folder # 0, ~Pending(m, "replay")'
          PROVE  version[GraphOf[m]] = t.folder \/ work[m].folder # t.folder
      <3>1. CASE t.folder = Applied(m).folder
        BY <1>11, <2>1, <3>1 DEF AppliedVersion, VersionAt
      <3>2. CASE Unchanged(GraphOf[m], t.folder)
        BY <3>2 DEF Unchanged
      <3>3. QED
        BY <1>9, <2>1, <3>1, <3>2
    <2>2. QED
      BY <1>7, <1>8, <2>1 DEF VersionAt
  <1>17. ~t.record /\ t.folder # 0 /\ Shelved(m) /\ ~Pending(m, "replay")' /\ ~Pending(m, "remove")'
           => work[m].record
    <2>1. Shelved(m) => ~Unchanged(GraphOf[m], t.folder)
      BY DEF Shelved, Live, Unchanged
    <2>2. Applied(m).record \in BOOLEAN
      BY GraphFacts
    <2>3. QED
      BY <1>9, <1>11, <2>1, <2>2
  <1>18. SyncGraph(m)'
    BY <1>7, <1>8, <1>9, <1>11, <1>12, <1>13, <1>15, <1>16, <1>17 DEF SyncGraph
  <1>19. QED
    BY <1>7, <1>18 DEF GraphAt

(* A step of a sync of m that is not the last: what it leaves.             *)
LEMMA StepViews ==
    ASSUME Base, Shape, NEW m \in Machines,
           NEW step \in {"replay", "retract", "apply", "remove"}, Doing(m, step), bookmark' = bookmark
    PROVE  /\ work' = work /\ Applied(m)' = Applied(m) /\ Target(m)' = Target(m)
           /\ Running(m) /\ Running(m)' /\ Syncing(m) /\ Syncing(m)'
           /\ Pending(m, step) /\ ~Pending(m, step)'
           /\ \A s : s # step => (Pending(m, s)' <=> Pending(m, s))
           /\ step \in {"apply", "remove"} => ~Pending(m, "replay") /\ ~Pending(m, "retract")
           /\ Fits(sync[m].todo, At(sync[m].base), Target(m)) /\ sync[m].base = bookmark[GraphOf[m]]
           /\ m \in raised' <=> m \in raised
  <1>1. Done(m, step) /\ UNCHANGED <<vault, raised>> /\ step # "advance"
    BY DoingDone DEF Doing
  <1>2. /\ work' = work /\ Applied(m)' = Applied(m)
    BY <1>1, TreesSame
  <1>3. Target(m)' = Target(m)
    BY <1>1 DEF Done, Target, At, vault
  <1>4. Running(m) /\ Running(m)' /\ Syncing(m) /\ Syncing(m)'
    BY <1>1 DEF Done, Running, Syncing, Idle
  <1>5. /\ Pending(m, step) /\ \A s : Pending(m, s)' <=> Pending(m, s) /\ s # step
    <2>1. Range(sync'[m].todo) = Range(sync[m].todo) \ {step} /\ step \in Range(sync[m].todo)
      BY <1>1 DEF Done
    <2>2. PICK r : r = Range(sync'[m].todo)
      OBVIOUS
    <2>3. \A s : Pending(m, s)' <=> s \in r
      BY <2>2 DEF Pending, Range
    <2>4. QED
      BY <2>1, <2>2, <2>3 DEF Pending
  <1>6. step \in {"apply", "remove"} => ~Pending(m, "replay") /\ ~Pending(m, "retract")
    BY <1>1, StagesOrder DEF Done, Pending
  <1>7. QED
    BY <1>1, <1>2, <1>3, <1>4, <1>5, <1>6, GraphFacts DEF Shape, ShapeAt

LEMMA GraphReplay ==
    ASSUME Apart, Base, Shape, Owned, Agrees, NEW m \in Machines, Replay(m)
    PROVE  GraphAt(m)'
  <1>1. /\ Doing(m, "replay") /\ CommitsDocument(m, Target(m).folder) /\ UNCHANGED <<mark, bookmark>>
    BY DEF Replay, Target
  <1>2. /\ label \in [Graphs -> {"live", "history"}] /\ version \in [Graphs -> 1 .. made]
        /\ GraphOf[m] \in Graphs
    BY BaseParts, GraphFacts DEF GraphType
  <1>3. /\ Live(m)' <=> ~work[m].record
        /\ version'[GraphOf[m]] = Target(m).folder
        /\ Marked(m)' <=> Marked(m)
    BY <1>1, <1>2 DEF CommitsDocument, ToHistory, ToLatest, Live, Marked
  <1>4. /\ work' = work /\ Applied(m)' = Applied(m) /\ Target(m)' = Target(m)
        /\ Running(m) /\ Running(m)' /\ Syncing(m) /\ Syncing(m)'
        /\ Pending(m, "replay") /\ (Pending(m, "apply")' <=> Pending(m, "apply"))
        /\ Fits(sync[m].todo, At(sync[m].base), Target(m))
        /\ m \in raised' <=> m \in raised
    BY <1>1, StepViews
  <1>5. Target(m).folder # 0 /\ (Target(m).record => Pending(m, "apply"))
    BY <1>4 DEF Fits, Pending
  <1>6. /\ Shelved(m)' <=> work[m].record /\ m \notin raised
        /\ Shelved(m) <=> ~Live(m) /\ m \notin raised
    BY <1>3, <1>4 DEF Shelved
  <1>7. SyncGraph(m) /\ (Owner(m) => Owner(m)')
    BY <1>4, OwnedGraph DEF Agrees, GraphAt
  <1>8. VersionAt(m, Target(m).folder)'
    BY <1>3, <1>4 DEF VersionAt
  <1>9. Target(m).folder = Applied(m).folder => AppliedVersion(m)'
    BY <1>3, <1>4 DEF AppliedVersion, VersionAt
  <1>10. SyncGraph(m)'
    BY <1>3, <1>4, <1>5, <1>6, <1>7, <1>8, <1>9 DEF SyncGraph
  <1>11. QED
    BY <1>4, <1>10 DEF GraphAt

LEMMA GraphRetract ==
    ASSUME Apart, Base, Shape, Owned, Agrees, NEW m \in Machines, Retract(m)
    PROVE  GraphAt(m)'
  <1>1. Doing(m, "retract") /\ Retracts(GraphOf[m]) /\ UNCHANGED <<version, bookmark>>
    BY DEF Retract
  <1>2. /\ label \in [Graphs -> {"live", "history"}] /\ mark \in [Graphs -> BOOLEAN]
        /\ GraphOf[m] \in Graphs
    BY BaseParts, GraphFacts DEF GraphType
  <1>3. ~Live(m)' /\ ~Marked(m)'
    BY <1>1, <1>2 DEF Retracts, ToHistory, Live, Marked
  <1>4. /\ work' = work /\ Applied(m)' = Applied(m) /\ Target(m)' = Target(m)
        /\ Running(m) /\ Running(m)' /\ Syncing(m) /\ Syncing(m)'
        /\ Pending(m, "retract") /\ Fits(sync[m].todo, At(sync[m].base), Target(m))
    BY <1>1, StepViews
  <1>5. Target(m).folder = 0
    BY <1>4 DEF Fits, Pending
  <1>6. ~Target(m).record
    BY <1>5, Trees DEF Owned, Whole, Target
  <1>7. SyncGraph(m) /\ (Owner(m) => Owner(m)')
    BY <1>4, OwnedGraph DEF Agrees, GraphAt
  <1>8. Target(m).folder = Applied(m).folder => AppliedVersion(m)'
    BY <1>3, <1>4, <1>5 DEF AppliedVersion
  <1>9. SyncGraph(m)'
    BY <1>3, <1>4, <1>5, <1>6, <1>7, <1>8 DEF SyncGraph
  <1>10. QED
    BY <1>4, <1>9 DEF GraphAt

LEMMA GraphApply ==
    ASSUME Apart, Base, Shape, Owned, Agrees, NEW m \in Machines, ApplyRecord(m)
    PROVE  GraphAt(m)'
  <1>1. Doing(m, "apply") /\ Retires(GraphOf[m]) /\ UNCHANGED <<version, bookmark>>
    BY DEF ApplyRecord
  <1>2. /\ label \in [Graphs -> {"live", "history"}] /\ mark \in [Graphs -> BOOLEAN]
        /\ GraphOf[m] \in Graphs
    BY BaseParts, GraphFacts DEF GraphType
  <1>3. ~Live(m)' /\ Marked(m)'
    BY <1>1, <1>2 DEF Retires, ToHistory, Live, Marked
  <1>4. /\ work' = work /\ Applied(m)' = Applied(m) /\ Target(m)' = Target(m)
        /\ Running(m) /\ Running(m)' /\ Syncing(m) /\ Syncing(m)'
        /\ Pending(m, "apply") /\ ~Pending(m, "replay") /\ ~Pending(m, "retract")
        /\ ~Pending(m, "replay")' /\ (Pending(m, "remove")' <=> Pending(m, "remove"))
        /\ Fits(sync[m].todo, At(sync[m].base), Target(m))
    BY <1>1, StepViews
  <1>5. Target(m).record /\ ~Pending(m, "remove")
    BY <1>4 DEF Fits, Pending
  <1>6. SyncGraph(m) /\ (Owner(m) => Owner(m)')
    BY <1>4, OwnedGraph DEF Agrees, GraphAt
  <1>7. AppliedVersion(m) => AppliedVersion(m)'
    BY <1>1, <1>3, <1>4 DEF AppliedVersion, VersionAt
  <1>8. VersionAt(m, Target(m).folder) => VersionAt(m, Target(m).folder)'
    BY <1>1, <1>4 DEF VersionAt
  <1>9. SyncGraph(m)'
    BY <1>3, <1>4, <1>5, <1>6, <1>7, <1>8 DEF SyncGraph
  <1>10. QED
    BY <1>4, <1>9 DEF GraphAt

LEMMA GraphRemoveRecord ==
    ASSUME Apart, Base, Shape, Owned, Agrees, NEW m \in Machines, RemoveRecord(m)
    PROVE  GraphAt(m)'
  <1>1. Doing(m, "remove") /\ Unretires(GraphOf[m]) /\ UNCHANGED <<version, bookmark>>
    BY DEF RemoveRecord
  <1>2. /\ label \in [Graphs -> {"live", "history"}] /\ mark \in [Graphs -> BOOLEAN]
        /\ GraphOf[m] \in Graphs
    BY BaseParts, GraphFacts DEF GraphType
  <1>3. \/ Live(m)' /\ ~Live(m) /\ Marked(m)
        \/ /\ Live(m)' <=> Live(m)
           /\ Marked(m)' <=> Marked(m)
           /\ Live(m) \/ ~Marked(m)
    BY <1>1, <1>2 DEF Unretires, ToLatest, Live, Marked
  <1>4. /\ work' = work /\ Applied(m)' = Applied(m) /\ Target(m)' = Target(m)
        /\ Running(m) /\ Running(m)' /\ Syncing(m) /\ Syncing(m)'
        /\ Pending(m, "remove") /\ ~Pending(m, "replay") /\ ~Pending(m, "retract")
        /\ ~Pending(m, "replay")' /\ ~Pending(m, "remove")'
        /\ Fits(sync[m].todo, At(sync[m].base), Target(m)) /\ sync[m].base = bookmark[GraphOf[m]]
        /\ m \in raised' <=> m \in raised
    BY <1>1, StepViews
  <1>5. ~Target(m).record /\ Applied(m).record
    BY <1>4 DEF Fits, Pending, Applied
  <1>6. Applied(m).folder # 0
    BY <1>5, Trees DEF Owned, Whole, Applied
  <1>7. /\ Shelved(m) <=> ~Live(m) /\ m \notin raised
        /\ Shelved(m)' <=> ~Live(m)' /\ m \notin raised
    BY <1>4 DEF Shelved
  <1>8. SyncGraph(m) /\ (Owner(m) => Owner(m)')
    BY <1>4, OwnedGraph DEF Agrees, GraphAt
  <1>9. AppliedVersion(m) => AppliedVersion(m)'
    BY <1>1, <1>4, <1>6 DEF AppliedVersion, VersionAt
  <1>10. VersionAt(m, Target(m).folder) => VersionAt(m, Target(m).folder)'
    BY <1>1, <1>4 DEF VersionAt
  <1>11. Target(m).folder = 0 /\ Live(m)' => work[m].folder # 0
    BY <1>3, <1>4, <1>8 DEF SyncGraph
  <1>12. Target(m).folder # 0 /\ Shelved(m)' => work[m].record
    BY <1>3, <1>5, <1>7, <1>8 DEF SyncGraph
  <1>13. SyncGraph(m)'
    BY <1>4, <1>5, <1>8, <1>9, <1>10, <1>11, <1>12 DEF SyncGraph
  <1>14. QED
    BY <1>4, <1>13 DEF GraphAt

(* The bookmark moves with nothing left to do.                             *)
LEMMA GraphAdvance ==
    ASSUME Apart, Base, Shape, Owned, Agrees, NEW m \in Machines, Advance(m)
    PROVE  GraphAt(m)'
  <1>1. /\ Doing(m, "advance") /\ UNCHANGED <<label, version, mark>>
        /\ bookmark' = [bookmark EXCEPT ![GraphOf[m]] = sync[m].head]
        /\ UNCHANGED <<vault, raised>>
    BY DEF Advance, Doing
  <1>2. Done(m, "advance")
    BY <1>1, DoingDone
  <1>3. /\ Running(m) /\ Syncing(m) /\ ~Syncing(m)'
        /\ \A s \in {"replay", "retract", "apply", "remove"} : ~Pending(m, s)
    BY <1>2, StagesOrder DEF Done, Running, Syncing, Idle, Pending
  <1>4. bookmark'[GraphOf[m]] = sync[m].head
    BY <1>1, GraphFacts, BaseParts DEF GraphType
  <1>5. PICK c : c = sync[m].head
    OBVIOUS
  <1>6. Applied(m)' = Target(m) /\ work' = work
    BY <1>1, <1>4, <1>5 DEF Applied, Target, At, vault
  <1>7. /\ Live(m)' <=> Live(m)
        /\ Marked(m)' <=> Marked(m)
        /\ Shelved(m)' <=> Shelved(m)
    BY <1>1 DEF Live, Marked, Shelved
  <1>8. SyncGraph(m) /\ (Owner(m) => Owner(m)')
    BY <1>3, OwnedGraph DEF Agrees, GraphAt
  <1>9. /\ Live(m) /\ Target(m).record => ~work[m].record
        /\ Shelved(m) /\ Target(m).record => Marked(m)
        /\ Shelved(m) /\ ~Target(m).record /\ Target(m).folder # 0 => work[m].record
        /\ Target(m).folder = 0 /\ Live(m) => work[m].folder # 0
        /\ Target(m).folder # 0 => VersionAt(m, Target(m).folder)
    BY <1>3, <1>8 DEF SyncGraph
  <1>10. AppliedVersion(m)'
    BY <1>1, <1>6, <1>7, <1>9 DEF AppliedVersion, VersionAt
  <1>11. /\ work[m].record \in BOOLEAN /\ Target(m).record \in BOOLEAN
         /\ work[m].record # Target(m).record => Owner(m)'
    BY <1>8, GraphFacts DEF SyncGraph
  <1>12. IdleGraph(m)'
    BY <1>6, <1>7, <1>9, <1>10, <1>11 DEF IdleGraph
  <1>13. QED
    BY <1>3, <1>12 DEF GraphAt

LEMMA GraphFailSync ==
    ASSUME Apart, Base, Shape, Owned, Agrees, NEW m \in Machines, FailSync(m)
    PROVE  GraphAt(m)'
  <1>1. /\ UNCHANGED <<vault, graph, raised>> /\ sync[m].todo # <<>> /\ sync'[m].todo = <<>>
        /\ sync'[m].base = sync[m].base /\ sync'[m].head = sync[m].head
    BY FailSyncFails DEF FailSync
  <1>2. Syncing(m) /\ ~Running(m)'
    BY <1>1 DEF Syncing, Idle, Running
  <1>3. Syncing(m)'
    BY <1>1, <1>2 DEF Shape, ShapeAt, Syncing, Idle
  <1>4. work' = work /\ Applied(m)' = Applied(m)
    BY <1>1, TreesSame DEF graph
  <1>5. Target(m)' = Target(m)
    BY <1>1 DEF Target, At, vault
  <1>6. /\ Live(m)' <=> Live(m)
        /\ Marked(m)' <=> Marked(m)
        /\ Shelved(m)' <=> Shelved(m)
        /\ version' = version
    BY <1>1 DEF Live, Marked, Shelved, graph
  <1>7. SyncGraph(m) /\ (Owner(m) => Owner(m)')
    BY <1>2, OwnedGraph DEF Agrees, GraphAt
  <1>8. AppliedVersion(m) => AppliedVersion(m)'
    BY <1>4, <1>6 DEF AppliedVersion, VersionAt
  <1>9. SyncGraph(m)'
    BY <1>2, <1>4, <1>5, <1>6, <1>7, <1>8 DEF SyncGraph
  <1>10. QED
    BY <1>3, <1>9 DEF GraphAt

LEMMA GraphStep ==
    ASSUME Apart, Base, Base', Shape, Owned, Versions, Agrees, NEW m \in Machines, Step(m)
    PROVE  Agrees'
  <1>1. GraphAt(m)'
    BY GraphAutoCommit, GraphExchange, GraphRemove, GraphStage, GraphRetire, GraphRestore,
      GraphCommitDocument, GraphBeginSync, GraphReplay, GraphRetract, GraphApply,
      GraphRemoveRecord, GraphAdvance, GraphFailSync DEF Step
  <1>2. QED
    BY <1>1, GraphOther DEF Agrees

(* A graph without a machine stays as it was made.                         *)
Orphans ==
    \A g \in Graphs : (\A m \in Machines : GraphOf[m] # g) =>
      label[g] = "live" /\ version[g] = 1 /\ bookmark[g] = 1

LEMMA OrphansStep ==
    ASSUME Base, Orphans, NEW m \in Machines, Step(m)
    PROVE  Orphans'
  <1>1. /\ label \in [Graphs -> {"live", "history"}] /\ version \in [Graphs -> 1 .. made]
        /\ bookmark \in [Graphs -> DOMAIN log] /\ GraphOf[m] \in Graphs
    BY BaseParts, GraphFacts DEF GraphType
  <1>2. ASSUME NEW g \in Graphs, GraphOf[m] # g
        PROVE  label'[g] = label[g] /\ version'[g] = version[g] /\ bookmark'[g] = bookmark[g]
    <2>1. label'[g] = label[g]
      BY <1>1, <1>2 DEF Step, AutoCommit, Exchange, Remove, Stage, CommitDocument, Retire, Restore,
        BeginSync, FailSync, Replay, Retract, ApplyRecord, RemoveRecord, Advance, graph,
        CommitsDocument, Retires, Unretires, Retracts, ToHistory, ToLatest
    <2>2. version'[g] = version[g] /\ bookmark'[g] = bookmark[g]
      BY <1>1, <1>2 DEF Step, AutoCommit, Exchange, Remove, Stage, CommitDocument, Retire, Restore,
        BeginSync, FailSync, Replay, Retract, ApplyRecord, RemoveRecord, Advance, graph, CommitsDocument
    <2>3. QED
      BY <2>1, <2>2
  <1>3. QED
    BY <1>2 DEF Orphans

-----------------------------------------------------------------------------

(* The inductive invariant of RecordDecides.                               *)
Consistent == Base /\ Shape /\ Versions /\ Owned /\ Agrees /\ Orphans

LEMMA ConsistentInit == Init => Consistent
  <1> SUFFICES ASSUME Init PROVE Consistent
    OBVIOUS
  <1>1. Base /\ Shape /\ Versions /\ Owned
    BY BaseInit, VaultInit
  <1>2. /\ log = <<[tree |-> First, before |-> {1}]>> /\ At(1) = First /\ First.folder = 1
        /\ First.record = FALSE
    BY DEF Init, At, First
  <1>3. \A m \in Machines : /\ label[GraphOf[m]] = "live" /\ version[GraphOf[m]] = 1
                            /\ bookmark[GraphOf[m]] = 1 /\ work[m] = First /\ sync[m] = Idle
    BY ConstantsAssumption DEF Init
  <1>4. Agrees
    BY <1>2, <1>3 DEF Agrees, GraphAt, Syncing, IdleGraph, Live, Shelved, Applied, AppliedVersion, VersionAt
  <1>5. Orphans
    BY DEF Init, Orphans
  <1>6. QED
    BY <1>1, <1>4, <1>5 DEF Consistent

LEMMA ConsistentStep ==
    ASSUME Apart
    PROVE  Consistent /\ [Next]_vars => Consistent'
  <1> SUFFICES ASSUME Consistent, [Next]_vars PROVE Consistent'
    OBVIOUS
  <1> USE DEF Consistent
  <1>1. CASE Next
    <2>1. PICK m \in Machines : Step(m)
      BY <1>1 DEF Next, Step
    <2>2. Base'
      BY <1>1, BaseStep
    <2>3. QED
      BY <2>1, <2>2, ShapeStep, VersionsStep, OwnedStep, GraphStep, OrphansStep
  <1>2. CASE UNCHANGED vars
    <2>1. Base'
      BY <1>2, BaseStep
    <2>2. /\ \A c : At(c)' = At(c)
          /\ \A m : Fork(m)' = Fork(m)
          /\ log' = log /\ head' = head /\ tip' = tip /\ work' = work /\ made' = made
          /\ label' = label /\ version' = version /\ mark' = mark /\ bookmark' = bookmark
          /\ sync' = sync /\ raised' = raised
      BY <1>2 DEF vars, vault, graph, At, Fork
    <2>3. Shape' /\ Versions' /\ Orphans'
      BY <2>2 DEF Shape, ShapeAt, Syncing, Idle, Versions, Origin, NoReturn, Fresh, FreshAt, Folder, Orphans
    <2>4. /\ \A m : Recorded(m)' <=> Recorded(m)
          /\ \A m : Removed(m)' <=> Removed(m)
          /\ \A m : Behind(m)' <=> Behind(m)
          /\ \A m : Folders(m)' = Folders(m)
      BY <2>2 DEF Recorded, Removed, Behind, Folders, At
    <2>5. \A m : Owner(m)' <=> Owner(m)
      BY <2>2, <2>4 DEF Owner, Private
    <2>6. Owned'
      BY <2>2, <2>4, <2>5 DEF Owned, Single, Private, Removal, RemovedAt, Whole
    <2>7. ASSUME NEW m \in Machines PROVE GraphAt(m)'
      <3>1. Unseen(m)
        BY <2>2 DEF Unseen, Applied, Target, At
      <3>2. QED
        BY <2>5, <3>1, GraphUnseen, GraphFacts DEF Agrees
    <2>8. QED
      BY <2>1, <2>3, <2>6, <2>7 DEF Agrees
  <1>3. QED
    BY <1>1, <1>2

(* What the invariant says of a graph whose machines are done.             *)
LEMMA Settles == Consistent => RecordDecides
  <1> SUFFICES ASSUME Consistent, NEW g \in Graphs, Settled(g), NEW t, t = At(bookmark[g])
               PROVE  /\ label[g] = "live" <=> t.folder # 0 /\ ~t.record
                      /\ label[g] = "live" => version[g] = t.folder
    BY DEF RecordDecides
  <1> USE DEF Consistent
  <1>1. CASE \A m \in Machines : GraphOf[m] # g
    <2>1. label[g] = "live" /\ version[g] = 1 /\ bookmark[g] = 1
      BY <1>1 DEF Orphans
    <2>2. At(1) = First
      BY BaseParts, VaultFacts DEF Rooted, At
    <2>3. QED
      BY <2>1, <2>2 DEF First
  <1>2. CASE \E m \in Machines : GraphOf[m] = g
    <2>1. PICK m \in Machines : GraphOf[m] = g
      BY <1>2
    <2>2. Synced(m) /\ m \notin raised
      BY <2>1 DEF Settled
    <2>3. ~Syncing(m) /\ work[m] = t /\ Applied(m) = t
      BY <2>1, <2>2, SyncingNotSynced DEF Synced, Dirty, Applied
    <2>4. IdleGraph(m)
      BY <2>3 DEF Agrees, GraphAt
    <2>5. /\ version[g] \in 1 .. made /\ label[g] \in {"live", "history"} /\ t.record \in BOOLEAN
      BY <2>1, <2>3, GraphFacts
    <2>6. Live(m) <=> label[g] = "live"
      BY <2>1 DEF Live
    <2>7. Shelved(m) <=> ~Live(m)
      BY <2>2 DEF Shelved
    <2>8. label[g] = "live" => version[g] = t.folder
      BY <2>1, <2>3, <2>4, <2>6 DEF IdleGraph, AppliedVersion, VersionAt
    <2>9. label[g] = "live" => t.folder # 0 /\ ~t.record
      BY <2>3, <2>4, <2>5, <2>6, <2>8 DEF IdleGraph
    <2>10. t.folder # 0 /\ ~t.record => label[g] = "live"
      BY <2>3, <2>4, <2>6, <2>7 DEF IdleGraph
    <2>11. QED
      BY <2>8, <2>9, <2>10
  <1>3. QED
    BY <1>1, <1>2

(* A retired document stays retired, and one that is not is live in its    *)
(* version, in every graph whose machines have nothing left to commit or   *)
(* to sync: for any number of machines, each with a graph of its own,      *)
(* whatever fails, in the regime Apart.                                    *)
THEOREM RecordCorrect ==
    ASSUME Apart
    PROVE  Spec => []RecordDecides
  <1>1. Init => Consistent
    BY ConsistentInit
  <1>2. Consistent /\ [Next]_vars => Consistent'
    BY ConsistentStep
  <1>3. Consistent => RecordDecides
    BY Settles
  <1>4. QED
    BY <1>1, <1>2, <1>3, PTL DEF Spec
=============================================================================
