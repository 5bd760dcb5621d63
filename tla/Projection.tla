----------------------------- MODULE Projection -----------------------------
(***************************************************************************)
(* The projection: the graph's :Entity layer, derived from the raw layer   *)
(* of :Observation nodes and ASSERTS_RELATION edges that documents and     *)
(* updates commit.                                                         *)
(*                                                                         *)
(* An aggregate key is name|class|domain.  An observation is one document  *)
(* asserting one key (its chunks are folded together), latest or in        *)
(* history.  An entity is the set of observations last merged into it:     *)
(* what the merge computes from them is not modelled.  A same-as group is  *)
(* a sequence of keys, canonical first: members of the canonical's class   *)
(* and domain are merged into its entity, the others are linked to it.     *)
(*                                                                         *)
(* Every transaction is one step.  A rebuild in batches is one step per    *)
(* batch, and everything else may happen between two of them.              *)
(***************************************************************************)
EXTENDS Naturals, Sequences, SequencesExt, FiniteSets

CONSTANTS
  Keys, KeyOrder,     \* aggregate keys, and a sequence of all of them: sorted(keys)
  DomainOf,           \* [Keys -> domain]
  ClassOf,            \* [Keys -> entity class]
  Docs,               \* committed things, documents and updates
  Updates,            \* those that are updates (:UserChat)
  ContentsOf,         \* [Docs -> set of staged contents], see Content
  GroupChoices,       \* the sets of same-as groups same_as.yaml may hold
  Proposals,          \* groups that `sameas approve` may add
  BatchSize,          \* REBUILD_BATCH
  RetireGrouped,      \* may a document whose keys are in a merge group be retired?
  MaxOps              \* bound: operations besides the steps of a rebuild

Domains == {DomainOf[k] : k \in Keys}

\* A staged folder: its observations' keys, its relationships, and the
\* observations and relationships its `retracts` fields name.
Content == [keys : SUBSET Keys, rels : SUBSET (Keys \X Keys),
            retracts : SUBSET (Docs \X Keys), unrelates : SUBSET (Docs \X Keys \X Keys)]

Nothing == [keys |-> {}, rels |-> {}, retracts |-> {}, unrelates |-> {}]

ASSUME ConstantsAssumption ==
  /\ KeyOrder \in Seq(Keys) /\ ToSet(KeyOrder) = Keys
  /\ Updates \subseteq Docs
  /\ \A d \in Docs : ContentsOf[d] \subseteq Content
  /\ \A d \in Docs : \A c \in ContentsOf[d] :
       \A r \in c.rels : r[1] \in c.keys /\ r[2] \in c.keys /\ r[1] # r[2]
  /\ BatchSize \in Nat \ {0} /\ MaxOps \in Nat /\ RetireGrouped \in BOOLEAN

\* validate_groups: a group has its canonical first, and no key is in two groups.
ASSUME GroupsAssumption ==
  \A gs \in GroupChoices : \A g \in gs :
    /\ g \in Seq(Keys) /\ Len(g) > 1
    /\ \A h \in gs : ToSet(g) \intersect ToSet(h) # {} => g = h

VARIABLES
  committed,   \* [Docs -> content]: the version last committed, Nothing when the graph has none
  latest,      \* <<doc, key>> of every :Observation
  history,     \* <<doc, key>> of every :ObservationHistory
  asserted,    \* <<doc, source, target>> of every ASSERTS_RELATION
  retired,     \* documents with a lifecycle record
  groups,      \* same_as.yaml
  entity,      \* [Keys -> observations merged into its :Entity], {} when it has none
  related,     \* RELATES_TO edges, <<source, target>>
  linked,      \* SAME_AS edges, {member, canonical}
  plan,        \* the rebuild in batches under way: what is left of it
  recorded,    \* the groups :ProjectionState's same_as_hash stands for
  behind,      \* keys whose rebuild is left to a later rebuild
  ops

raw == <<committed, latest, history, asserted, retired>>
projected == <<entity, related, linked>>
vars == <<raw, projected, groups, plan, recorded, behind, ops>>

NoPlan == [todo |-> <<>>, groups |-> {}, kind |-> "none"]
Unrecorded == {<<>>}     \* no :ProjectionState yet: equal to no set of groups

TypeOK ==
  /\ committed \in [Docs -> Content]
  /\ latest \subseteq Docs \X Keys /\ history \subseteq Docs \X Keys
  /\ latest \intersect history = {}
  /\ asserted \subseteq Docs \X Keys \X Keys
  /\ retired \subseteq Docs \ Updates
  /\ groups \in GroupChoices
  /\ entity \in [Keys -> SUBSET (Docs \X Keys)]
  /\ related \subseteq Keys \X Keys
  /\ linked \subseteq SUBSET Keys
  /\ plan.groups \in GroupChoices \union {{}}
  /\ plan.kind \in {"none", "keys", "domain", "all"}
  /\ \A i \in DOMAIN plan.todo : plan.todo[i] \subseteq Keys
  /\ recorded \in GroupChoices \union {Unrecorded}
  /\ behind \subseteq Keys /\ ops \in 0..MaxOps

----------------------------------------------------------------------------
\* Same-as groups.

Mergeable(k, g) == ClassOf[k] = ClassOf[g[1]] /\ DomainOf[k] = DomainOf[g[1]]
Merged(g) == {k \in ToSet(g) : Mergeable(k, g)}
Touching(keys, gs) == {g \in gs : ToSet(g) \intersect keys # {}}

\* The key whose entity k's observations feed, by the groups gs.
UnitOf(k, gs) ==
  IF \E g \in gs : k \in Merged(g)
  THEN (CHOOSE g \in gs : k \in Merged(g))[1]
  ELSE k

Links(gs) == UNION {{{k, g[1]} : k \in ToSet(g) \ Merged(g)} : g \in gs}

\* affected_keys: keys, and every member of a group that touches one of them.
AffectedKeys(keys, gs) == keys \union UNION {ToSet(g) : g \in Touching(keys, gs)}

\* keys, and every key whose observations are read with theirs.
MergedWith(keys, gs) == keys \union UNION {Merged(g) : g \in {h \in gs : Merged(h) \intersect keys # {}}}

\* Keys of the groups that are in only one of two versions of the file.
Regrouped(old, new) == UNION {ToSet(g) : g \in (old \ new) \union (new \ old)}

----------------------------------------------------------------------------
\* One rebuild transaction, over the raw layer it finds.

KeysOf(d) == {o[2] : o \in {p \in latest \union history : p[1] = d}}

Visible(obs, rels) == {r \in rels : <<r[1], r[2]>> \in obs /\ <<r[1], r[3]>> \in obs}

\* The RELATES_TO edges a rebuild of keys leaves alone.
\* Seeded fault: only the outgoing edges are deleted.
KeptOutgoing(edges, keys) == {e \in edges : e[1] \notin keys}
KeptEdges(edges, keys) == {e \in edges : e[1] \notin keys /\ e[2] \notin keys}

\* An edge is resolved from either end that was written.
\* Seeded fault: from its source only.
FromSource(e, written) == e[1] \in written
FromEitherEnd(e, written) == e[1] \in written \/ e[2] \in written

\* Seeded fault: SAME_AS edges are not cleared first.
AllLinks(links, keys) == links
KeptLinks(links, keys) == {l \in links : l \intersect keys = {}}

\* rebuild(keys) with the groups gs: the projection it leaves.  Only groups
\* that touch a key are planned, so that an endpoint outside keys is resolved
\* as if it were in no other group.
Rebuilt(proj, keys, gs, obs, rels) ==
  LET near       == Touching(keys, gs)
      unit       == [k \in Keys |-> UnitOf(k, near)]
      feed(k)    == {o \in obs : unit[o[2]] = k}
      written    == {k \in keys : unit[k] = k /\ feed(k) # {}}
      entities   == [k \in Keys |-> CASE k \in written -> feed(k)
                                       [] k \in keys \ written -> {}
                                       [] OTHER -> proj.entity[k]]
      exists(k)  == entities[k] # {}
      edges      == {<<unit[r[2]], unit[r[3]]>> : r \in Visible(obs, rels)}
      drawn      == {e \in edges : e[1] # e[2] /\ FromEitherEnd(e, written)
                                   /\ exists(e[1]) /\ exists(e[2])}
  IN  [entity  |-> entities,
       related |-> KeptEdges(proj.related, keys) \union drawn,
       linked  |-> KeptLinks(proj.linked, keys)
                     \union {l \in Links(near) : \A k \in l : exists(k)}]

Rebuild(keys, gs) ==
  LET new == Rebuilt([entity |-> entity, related |-> related, linked |-> linked],
                     keys, gs, latest', asserted')
  IN  entity' = new.entity /\ related' = new.related /\ linked' = new.linked

\* all_keys: every key with a latest observation or with an entity.
AllKeys(domains) ==
  {k \in Keys : DomainOf[k] \in domains /\ (entity[k] # {} \/ \E d \in Docs : <<d, k>> \in latest)}

\* batch_keys: the keys in sorted order, each group whole where its first key
\* is.  Filling is the batches after each key of that order.
BatchUnit(k, keys, gs) == AffectedKeys({k}, gs) \intersect keys
Leads(i, keys, gs) ==
  /\ KeyOrder[i] \in keys
  /\ \A j \in 1..(i - 1) : KeyOrder[j] \notin BatchUnit(KeyOrder[i], keys, gs)
\* A unit goes into the last batch if there is room, else into one of its own.
Filled(batches, unit) ==
  IF batches # <<>> /\ Cardinality(batches[Len(batches)]) + Cardinality(unit) <= BatchSize
  THEN [batches EXCEPT ![Len(batches)] = @ \union unit]
  ELSE Append(batches, unit)
Filling(keys, gs) ==
  LET fill[i \in 0..Len(KeyOrder)] ==
        IF i = 0 THEN <<>>
        ELSE IF Leads(i, keys, gs) THEN Filled(fill[i - 1], BatchUnit(KeyOrder[i], keys, gs))
        ELSE fill[i - 1]
  IN  fill
BatchKeys(keys, gs) == Filling(keys, gs)[Len(KeyOrder)]

----------------------------------------------------------------------------
\* Operations on the raw layer.

Counted == ops < MaxOps /\ ops' = ops + 1

Init ==
  /\ committed = [d \in Docs |-> Nothing]
  /\ latest = {} /\ history = {} /\ asserted = {} /\ retired = {}
  /\ groups \in GroupChoices
  /\ entity = [k \in Keys |-> {}] /\ related = {} /\ linked = {}
  /\ plan = NoPlan /\ recorded = Unrecorded /\ behind = {} /\ ops = 0

\* Seeded fault: an observation written again keeps its history label.
WriteTwoLabels(d, c) ==
  LET own == {o \in latest : o[1] = d}
  IN  /\ latest' = (latest \ own) \union ({d} \X c.keys)
      /\ history' = history \union own
      /\ asserted' = (asserted \ c.unrelates) \union {<<d, r[1], r[2]>> : r \in c.rels}
      /\ committed' = [committed EXCEPT ![d] = c]

\* _commit_document_tx, up to its rebuild: the version before goes to
\* history, the new one is latest, then its retractions, then its
\* relationships.  A document with a lifecycle record goes straight back to
\* history.  Nothing takes away an ASSERTS_RELATION of the version before.
WriteVersion(d, c) ==
  LET own   == {o \in latest : o[1] = d}
      new   == {d} \X c.keys
      wrote == (latest \ own) \union new
      hit   == c.retracts \intersect wrote
      kept  == {o \in wrote \ hit : o[1] # d \/ d \notin retired}
  IN  /\ latest' = kept
      /\ history' = (history \union latest \union new) \ kept
      /\ asserted' = (asserted \ c.unrelates) \union {<<d, r[1], r[2]>> : r \in c.rels}
      /\ committed' = [committed EXCEPT ![d] = c]

\* Seeded fault: the keys of the version before are not rebuilt.
IncomingKeys(d, c) ==
  AffectedKeys(c.keys \union {o[2] : o \in {p \in c.retracts : p \in latest}}, groups)

\* The union of affected_keys: incoming, retracted and prior keys, and their
\* groups.
CommitKeys(d, c) ==
  LET hit == {o \in c.retracts : o \in latest /\ o[1] # d}
  IN  AffectedKeys(c.keys \union KeysOf(d) \union {o[2] : o \in hit}, groups)

Commit(d, c) ==
  /\ Counted
  /\ WriteVersion(d, c)
  /\ Rebuild(CommitKeys(d, c), groups)
  /\ behind' = behind \ CommitKeys(d, c)
  /\ UNCHANGED <<retired, groups, plan, recorded>>

\* commit_to_graph(defer_rebuild=True): the keys are the caller's to rebuild.
CommitDeferred(d, c) ==
  /\ Counted
  /\ WriteVersion(d, c)
  /\ behind' = behind \union CommitKeys(d, c)
  /\ UNCHANGED <<retired, groups, plan, recorded, projected>>

\* retract_document: everything goes to history, the rebuild of its keys, with
\* their groups, is the caller's.
Retract(d) ==
  /\ Counted /\ committed[d] # Nothing
  /\ latest' = {o \in latest : o[1] # d}
  /\ history' = history \union (latest \ latest')
  /\ behind' = behind \union AffectedKeys(KeysOf(d), groups)
  /\ UNCHANGED <<committed, asserted, retired, groups, plan, recorded, projected>>

\* May a lifecycle operation touch these keys (RetireGrouped)?
Movable(keys) == RetireGrouped \/ \A k \in keys : UnitOf(k, groups) = k /\ \A g \in groups : g[1] # k \/ Merged(g) = {k}

\* _transition and its rebuild: of the document's own keys, whatever groups
\* they are in.
RebuildOwn(keys) == Rebuild(keys, groups) /\ behind' = behind \ keys

Retire(d) ==
  /\ Counted /\ committed[d] # Nothing /\ d \notin Updates
  /\ Movable(KeysOf(d))
  /\ retired' = retired \union {d}
  /\ latest' = {o \in latest : o[1] # d}
  /\ history' = history \union (latest \ latest')
  /\ UNCHANGED <<committed, asserted, groups, plan, recorded>>
  /\ RebuildOwn(KeysOf(d))

\* `docs restore` takes any document the graph still has: it brings back every
\* observation of every version.
Restore(d) ==
  /\ Counted /\ committed[d] # Nothing /\ d \notin Updates
  /\ Movable(KeysOf(d))
  /\ retired' = retired \ {d}
  /\ history' = {o \in history : o[1] # d}
  /\ latest' = latest \union (history \ history')
  /\ UNCHANGED <<committed, asserted, groups, plan, recorded>>
  /\ RebuildOwn(KeysOf(d))

\* archive._delete_document_tx: the document leaves the graph altogether.
Archive(d) ==
  /\ Counted /\ committed[d] # Nothing /\ d \notin Updates
  /\ Movable(KeysOf(d))
  /\ latest' = {o \in latest : o[1] # d}
  /\ history' = {o \in history : o[1] # d}
  /\ asserted' = {r \in asserted : r[1] # d}
  /\ committed' = [committed EXCEPT ![d] = Nothing]
  /\ UNCHANGED <<retired, groups, plan, recorded>>
  /\ RebuildOwn(KeysOf(d))

----------------------------------------------------------------------------
\* Curation, and the rebuilds that catch up.

\* A hand edit of same_as.yaml, or a pull of one: nothing rebuilds.
EditGroups(gs) ==
  /\ Counted /\ gs # groups
  /\ groups' = gs
  /\ behind' = behind \union Regrouped(groups, gs)
  /\ UNCHANGED <<raw, projected, plan, recorded>>

\* approve_many: the file, then full_rebuild of the domains the group
\* touches, in one transaction.  A scoped rebuild records nothing.
Approve(g) ==
  LET domains == {DomainOf[k] : k \in ToSet(g)}
  IN  /\ Counted
      /\ Touching(ToSet(g), groups) = {} /\ groups \union {g} \in GroupChoices
      /\ groups' = groups \union {g}
      /\ UNCHANGED <<raw, plan, recorded>>
      /\ Rebuild(AllKeys(domains), groups')
      /\ behind' = {k \in behind : DomainOf[k] \notin domains}

\* full_rebuild_batched of one domain (a finalize) or of every domain
\* (`projection rebuild`): the file and the keys are read once, here.  A key
\* with no observation and no entity, alone or in its group, has nothing to
\* rebuild.
StartRebuild(kind, domains) ==
  /\ plan = NoPlan
  /\ plan' = [todo |-> BatchKeys(AllKeys(domains), groups), groups |-> groups, kind |-> kind]
  /\ behind' = {k \in behind : DomainOf[k] \in domains => MergedWith({k}, groups) \intersect AllKeys(domains) # {}}
  /\ Counted
  /\ UNCHANGED <<raw, projected, groups, recorded>>

\* The union rebuild of `vault sync` and `update retract`: the keys their
\* deferred commits, retractions and changed groups left behind.
StartUnionRebuild ==
  LET keys == AffectedKeys(behind, groups)
  IN  /\ plan = NoPlan /\ behind # {}
      /\ plan' = [todo |-> BatchKeys(keys, groups), groups |-> groups, kind |-> "keys"]
      /\ Counted
      /\ UNCHANGED <<raw, projected, groups, recorded, behind>>

\* One batch of rebuild_in_batches, with the groups the rebuild started with.
\* Members of a group edited since are behind again.
RunBatch ==
  /\ plan.todo # <<>>
  /\ UNCHANGED <<raw, groups, recorded, ops>>
  /\ Rebuild(Head(plan.todo), plan.groups)
  /\ plan' = [plan EXCEPT !.todo = Tail(@)]
  /\ behind' = (behind \ (Head(plan.todo) \union (MergedWith(Head(plan.todo), plan.groups) \ AllKeys(Domains))))
                 \union (AffectedKeys(Head(plan.todo), plan.groups \union groups)
                           \intersect Regrouped(plan.groups, groups))

\* A batch fails, or the process dies: what is left is given up.
FailRebuild ==
  /\ plan # NoPlan
  /\ plan' = NoPlan
  /\ UNCHANGED <<raw, projected, groups, recorded, behind, ops>>

\* The last write of full_rebuild_batched, or the end of a smaller rebuild.
FinishRebuild ==
  /\ plan # NoPlan /\ plan.todo = <<>>
  /\ plan' = NoPlan
  /\ recorded' = IF plan.kind = "all" THEN plan.groups ELSE recorded
  /\ UNCHANGED <<raw, projected, groups, behind, ops>>

Next ==
  \/ \E d \in Docs : \E c \in ContentsOf[d] : Commit(d, c) \/ CommitDeferred(d, c)
  \/ \E d \in Docs : Retract(d) \/ Retire(d) \/ Restore(d) \/ Archive(d)
  \/ \E gs \in GroupChoices : EditGroups(gs)
  \/ \E g \in Proposals : Approve(g)
  \/ \E D \in Domains : StartRebuild("domain", {D})
  \/ StartRebuild("all", Domains)
  \/ StartUnionRebuild \/ RunBatch \/ FailRebuild \/ FinishRebuild

Spec == Init /\ [][Next]_vars

----------------------------------------------------------------------------
\* Properties.  Settled(k): no rebuild is owed to k's entity or to a key it
\* is grouped with.

Settled(k) == AffectedKeys({k}, groups) \intersect behind = {}
Unit(k) == UnitOf(k, groups)
Feeding(k) == {o \in latest : Unit(o[2]) = k}
InMerge(k) == \E g \in groups : k \in Merged(g) /\ Merged(g) # {k}

\* Whatever commits, retirements, group edits and batches came in whatever
\* order, an entity no rebuild is owed to is made of exactly the latest
\* observations of its keys, and an alias has none of its own.  (A canonical
\* that nothing observes may be missing: all_keys does not know of it.)
EntitiesMatch ==
  \A k \in Keys : Settled(k) =>
    \/ entity[k] = IF Unit(k) = k THEN Feeding(k) ELSE {}
    \/ entity[k] = {} /\ InMerge(k) /\ ~ \E d \in Docs : <<d, k>> \in latest

\* A RELATES_TO edge between settled entities is asserted by an edge between
\* latest observations of their keys: nothing outlives the assertions of a
\* document that was retracted, retired or archived.
EdgesAsserted ==
  \A e \in related : Settled(e[1]) /\ Settled(e[2]) =>
    \E r \in Visible(latest, asserted) : Unit(r[2]) = e[1] /\ Unit(r[3]) = e[2]

\* A relation the latest observations assert between two keys that are in no
\* merge group is an edge, however many batches, commits and retirements
\* deleted and rewrote the edges of either end.
AssertionsDrawn ==
  \A r \in Visible(latest, asserted) :
    Settled(r[2]) /\ Settled(r[3]) /\ ~InMerge(r[2]) /\ ~InMerge(r[3])
      => <<r[2], r[3]>> \in related

\* SAME_AS joins exactly the linked members of the groups in force and their
\* canonicals, where both have entities.
LinksMatch ==
  \A m, c \in Keys : m # c /\ Settled(m) /\ Settled(c) =>
    ({m, c} \in linked <=> {m, c} \in Links(groups) /\ entity[m] # {} /\ entity[c] # {})

\* An edge between settled entities is a relation of the version some
\* document was last committed with: none of an earlier version.
OnlyCurrentRelations ==
  \A e \in related : Settled(e[1]) /\ Settled(e[2]) =>
    \E d \in Docs : \E r \in committed[d].rels : Unit(r[1]) = e[1] /\ Unit(r[2]) = e[2]

\* Nothing a retired document said is left in an entity no rebuild is owed to.
RetiredIsGone ==
  \A k \in Keys : Settled(k) => \A o \in entity[k] : o[1] \notin retired

\* When no rebuild runs, no commit was deferred and `projection status` sees
\* no drift, the entities follow the groups in the file.
NoDriftMeansCurrent ==
  plan = NoPlan /\ recorded = groups =>
    \A k \in Keys : Unit(k) # k => entity[k] = {}
=============================================================================
