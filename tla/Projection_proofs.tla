-------------------------- MODULE Projection_proofs --------------------------
(***************************************************************************)
(* Proofs about Projection.                                                *)
(*                                                                         *)
(* Every rebuild is Rebuilt, of some keys, with some groups, over some raw *)
(* layer.  Sound says of a projection, groups and a raw layer what the     *)
(* properties say, of each key that is not late by itself.  What follows   *)
(* is, for each of the things that may change, which keys it makes late:   *)
(* none outside those a change of the raw layer touches (RawSound), none   *)
(* outside the groups that change (RegroupSound), and none of those a      *)
(* rebuild is of (RebuildSound).                                           *)
(*                                                                         *)
(* batch_keys is a recursion over the sorted keys.  What it computes is    *)
(* proved by induction over the places of that order, each time for one    *)
(* set of them (EveryPlace): Partition says what becomes of the keys.      *)
(***************************************************************************)
EXTENDS Projection, TLAPS, WellFoundedInduction, FiniteSetTheorems

\* What a group file holds.
Parted(G) ==
  \A g \in G : /\ g \in Seq(Keys) /\ Len(g) > 1
               /\ \A h \in G : ToSet(g) \intersect ToSet(h) # {} => g = h

\* What the raw layer holds.
Raw(obs, rels) ==
  /\ obs \subseteq Docs \X Keys
  /\ rels \subseteq Docs \X Keys \X Keys /\ \A r \in rels : r[2] # r[3]

Feeds(k, G, obs) == {o \in obs : UnitOf(o[2], G) = k}
Merges(k, G) == \E g \in G : k \in Merged(g) /\ Merged(g) # {k}

Fed(p, k, G, obs) ==
  \/ p.entity[k] = IF UnitOf(k, G) = k THEN Feeds(k, G, obs) ELSE {}
  \/ p.entity[k] = {} /\ Merges(k, G) /\ \A o \in obs : o[2] # k

Backed(e, G, obs, rels) ==
  \E r \in Visible(obs, rels) : UnitOf(r[2], G) = e[1] /\ UnitOf(r[3], G) = e[2]

\* Edges and links are between entities.
Ended(p) ==
  /\ p.related \subseteq Keys \X Keys /\ p.linked \subseteq SUBSET Keys
  /\ \A e \in p.related : p.entity[e[1]] # {} /\ p.entity[e[2]] # {}
  /\ \A l \in p.linked : \A k \in l : p.entity[k] # {}

Sound(p, G, obs, rels, late) ==
  /\ \A k \in Keys \ late : Fed(p, k, G, obs)
  /\ \A e \in p.related : e[1] \notin late /\ e[2] \notin late => Backed(e, G, obs, rels)
  /\ \A r \in Visible(obs, rels) :
       r[2] \notin late /\ r[3] \notin late /\ ~Merges(r[2], G) /\ ~Merges(r[3], G)
         => <<r[2], r[3]>> \in p.related
  /\ \A m, c \in Keys \ late : m # c =>
       ({m, c} \in p.linked <=> {m, c} \in Links(G) /\ p.entity[m] # {} /\ p.entity[c] # {})

-----------------------------------------------------------------------------
\* Groups.

LEMMA Canonical ==
    ASSUME NEW g \in Seq(Keys), Len(g) > 1
    PROVE  g[1] \in Keys /\ g[1] \in ToSet(g) /\ g[1] \in Merged(g) /\ ToSet(g) \subseteq Keys
  <1>1. DOMAIN g = 1 .. Len(g) /\ Len(g) \in Nat /\ \A i \in DOMAIN g : g[i] \in Keys
    OBVIOUS
  <1>2. 1 \in DOMAIN g
    BY <1>1
  <1>3. g[1] \in ToSet(g) /\ ToSet(g) \subseteq Keys
    BY <1>1, <1>2 DEF ToSet
  <1>4. QED
    BY <1>1, <1>2, <1>3 DEF Merged, Mergeable

\* A key's unit is the canonical of the group that merges it, or the key.
LEMMA UnitIn ==
    ASSUME NEW G, Parted(G), NEW g \in G, NEW k \in Merged(g)
    PROVE  UnitOf(k, G) = g[1]
  <1>1. \A h \in G : k \in Merged(h) => h = g
    BY DEF Parted, Merged
  <1>2. (CHOOSE h \in G : k \in Merged(h)) = g
    BY <1>1
  <1>3. QED
    BY <1>2 DEF UnitOf

LEMMA UnitOut ==
    ASSUME NEW G, NEW k, \A g \in G : k \notin Merged(g)
    PROVE  UnitOf(k, G) = k
  BY DEF UnitOf

\* Either a group merges a key under another one, or it is its own unit.
LEMMA UnitCases ==
    ASSUME NEW G, Parted(G), NEW k, UnitOf(k, G) # k
    PROVE  \E g \in G : k \in Merged(g) /\ k \in ToSet(g) /\ UnitOf(k, G) = g[1] /\ g[1] \in ToSet(g) /\ Merged(g) # {k}
  <1>1. PICK g \in G : k \in Merged(g)
    BY UnitOut
  <1>2. UnitOf(k, G) = g[1]
    BY <1>1, UnitIn
  <1>3. g[1] \in ToSet(g) /\ g[1] \in Merged(g)
    BY Canonical DEF Parted
  <1>4. QED
    BY <1>1, <1>2, <1>3 DEF Merged

LEMMA UnitIsKey == ASSUME NEW G, Parted(G), NEW k \in Keys PROVE UnitOf(k, G) \in Keys
  <1>1. CASE UnitOf(k, G) = k
    BY <1>1
  <1>2. CASE UnitOf(k, G) # k
    <2>1. PICK g \in G : UnitOf(k, G) = g[1]
      BY <1>2, UnitCases
    <2>2. QED
      BY <2>1, Canonical DEF Parted
  <1>3. QED
    BY <1>1, <1>2

\* A key that is not merged with another is its own unit.
LEMMA UnmergedUnit == ASSUME NEW G, Parted(G), NEW k, ~Merges(k, G) PROVE UnitOf(k, G) = k
  BY UnitCases DEF Merges

LEMMA TouchingParted == ASSUME NEW G, Parted(G), NEW K PROVE Parted(Touching(K, G))
  BY DEF Parted, Touching

-----------------------------------------------------------------------------
\* What a rebuild does, entity by entity, edge by edge and link by link.
Old(e, p, K) == e \in p.related /\ e[1] \notin K /\ e[2] \notin K
Leaves(new, p, K, near, obs, rels) ==
  /\ new.entity = [k \in Keys |-> new.entity[k]]
  /\ \A k \in Keys : new.entity[k] =
       IF k \in K THEN IF UnitOf(k, near) = k THEN Feeds(k, near, obs) ELSE {}
                  ELSE p.entity[k]
  /\ \A e : Old(e, p, K) => e \in new.related
  /\ \A e \in new.related : Old(e, p, K) \/
       /\ new.entity[e[1]] # {} /\ new.entity[e[2]] # {}
       /\ \E r \in Visible(obs, rels) : e = <<UnitOf(r[2], near), UnitOf(r[3], near)>>
  /\ \A r \in Visible(obs, rels) :
       LET s == UnitOf(r[2], near)
           t == UnitOf(r[3], near)
       IN  s # t /\ (s \in K \/ t \in K) /\ new.entity[s] # {} /\ new.entity[t] # {}
             => <<s, t>> \in new.related
  /\ \A l : l \in new.linked <=>
       \/ l \in p.linked /\ l \intersect K = {}
       \/ l \in Links(near) /\ \A k \in l : new.entity[k] # {}

LEMMA RebuiltIs ==
    ASSUME NEW p, NEW K, NEW gs, Parted(gs), NEW obs, NEW rels, Raw(obs, rels)
    PROVE  Leaves(Rebuilt(p, K, gs, obs, rels), p, K, Touching(K, gs), obs, rels)
  <1> DEFINE near      == Touching(K, gs)
             unit      == [k \in Keys |-> UnitOf(k, near)]
             feed(k)   == {o \in obs : unit[o[2]] = k}
             written   == {k \in K : unit[k] = k /\ feed(k) # {}}
             entities  == [k \in Keys |-> CASE k \in written -> feed(k)
                                             [] k \in K \ written -> {}
                                             [] OTHER -> p.entity[k]]
             edges     == {<<unit[r[2]], unit[r[3]]>> : r \in Visible(obs, rels)}
             drawn     == {e \in edges : e[1] # e[2] /\ FromEitherEnd(e, written)
                                   /\ entities[e[1]] # {} /\ entities[e[2]] # {}}
             links     == KeptLinks(p.linked, K) \union {l \in Links(near) : \A k \in l : entities[k] # {}}
             new       == Rebuilt(p, K, gs, obs, rels)
  <1>1. new.entity = entities /\ new.related = KeptEdges(p.related, K) \union drawn /\ new.linked = links
    BY DEF Rebuilt
  <1>2. \A k \in Keys : unit[k] = UnitOf(k, near) /\ unit[k] \in Keys
    BY TouchingParted, UnitIsKey
  <1>3. \A k \in Keys : feed(k) = Feeds(k, near, obs)
    BY <1>2 DEF Raw, Feeds
  <1>4. \A r \in Visible(obs, rels) : r[2] \in Keys /\ r[3] \in Keys
    BY DEF Visible, Raw
  <1> HIDE DEF new, near, unit, feed
  <1>5. \A k \in Keys : entities[k] =
          IF k \in K THEN IF unit[k] = k THEN feed(k) ELSE {} ELSE p.entity[k]
    OBVIOUS
  <1> HIDE DEF entities
  <1>6. \A e : Old(e, p, K) => e \in new.related
    BY <1>1 DEF KeptEdges, Old
  <1>7. \A e \in new.related : Old(e, p, K) \/
          /\ new.entity[e[1]] # {} /\ new.entity[e[2]] # {}
          /\ \E r \in Visible(obs, rels) : e = <<UnitOf(r[2], near), UnitOf(r[3], near)>>
    <2> TAKE e \in new.related
    <2>1. CASE e \in KeptEdges(p.related, K)
      BY <2>1 DEF KeptEdges, Old
    <2>2. CASE e \in drawn
      <3>1. entities[e[1]] # {} /\ entities[e[2]] # {}
        BY <2>2
      <3>2. PICK r \in Visible(obs, rels) : e = <<unit[r[2]], unit[r[3]]>>
        BY <2>2
      <3>3. e = <<UnitOf(r[2], near), UnitOf(r[3], near)>>
        BY <1>2, <1>4, <3>2
      <3>4. QED
        BY <1>1, <3>1, <3>3
    <2>3. QED
      BY <1>1, <2>1, <2>2
  <1>8. ASSUME NEW r \in Visible(obs, rels),
               NEW s, s = UnitOf(r[2], near), NEW t, t = UnitOf(r[3], near),
               s # t, s \in K \/ t \in K, new.entity[s] # {}, new.entity[t] # {}
        PROVE  <<s, t>> \in new.related
    <2>1. s = unit[r[2]] /\ t = unit[r[3]] /\ s \in Keys /\ t \in Keys
      BY <1>2, <1>4, <1>8
    <2>2. \A k \in Keys : k \in K /\ entities[k] # {} => k \in written
      BY <1>5
    <2>3. FromEitherEnd(<<s, t>>, written)
      BY <1>1, <1>8, <2>1, <2>2 DEF FromEitherEnd
    <2>4. <<s, t>> \in edges
      BY <2>1
    <2>5. <<s, t>> \in drawn
      BY <1>1, <1>8, <2>3, <2>4
    <2>6. QED
      BY <1>1, <2>5
  <1>9. \A l : l \in new.linked <=>
          \/ l \in p.linked /\ l \intersect K = {}
          \/ l \in Links(near) /\ \A k \in l : new.entity[k] # {}
    BY <1>1 DEF KeptLinks
  <1>10. \A k \in Keys : new.entity[k] =
           IF k \in K THEN IF UnitOf(k, near) = k THEN Feeds(k, near, obs) ELSE {} ELSE p.entity[k]
    BY <1>1, <1>2, <1>3, <1>5
  <1>11. new.entity = [k \in Keys |-> new.entity[k]]
    BY <1>1 DEF entities
  <1>12. Leaves(new, p, K, near, obs, rels)
    BY <1>6, <1>7, <1>8, <1>9, <1>10, <1>11 DEF Leaves
  <1>13. QED
    BY <1>12 DEF near, new

-----------------------------------------------------------------------------
\* A key that has nothing may be late or not.
LEMMA LateSound ==
    ASSUME NEW p, NEW G, Parted(G), NEW obs, NEW rels, Raw(obs, rels), Ended(p),
           NEW late, Sound(p, G, obs, rels, late),
           NEW late2, \A k \in Keys : k \in late /\ k \notin late2 => p.entity[k] = {} /\ \A o \in obs : o[2] # k
    PROVE  Sound(p, G, obs, rels, late2)
  <1>1. \A k \in Keys \ late2 : Fed(p, k, G, obs)
    <2> TAKE k \in Keys \ late2
    <2>1. CASE k \notin late
      BY <2>1 DEF Sound
    <2>2. CASE k \in late
      <3>1. p.entity[k] = {} /\ \A o \in obs : o[2] # k
        BY <2>2
      <3>2. CASE Feeds(k, G, obs) = {}
        BY <3>1, <3>2 DEF Fed
      <3>3. CASE Feeds(k, G, obs) # {}
        <4>1. PICK o \in obs : UnitOf(o[2], G) = k /\ o[2] # k
          BY <3>1, <3>3 DEF Feeds
        <4>2. PICK g \in G : g[1] = k /\ o[2] \in Merged(g)
          BY <4>1, UnitCases
        <4>3. k \in Merged(g)
          BY <4>2, Canonical DEF Parted
        <4>4. Merges(k, G)
          BY <4>1, <4>2, <4>3 DEF Merges
        <4>5. QED
          BY <3>1, <4>4 DEF Fed
      <3>4. QED
        BY <3>2, <3>3
    <2>3. QED
      BY <2>1, <2>2
  <1>2. ASSUME NEW e \in p.related, e[1] \notin late2, e[2] \notin late2 PROVE Backed(e, G, obs, rels)
    <2>1. e[1] \in Keys /\ e[2] \in Keys /\ p.entity[e[1]] # {} /\ p.entity[e[2]] # {}
      BY DEF Ended
    <2>2. e[1] \notin late /\ e[2] \notin late
      BY <1>2, <2>1
    <2>3. QED
      BY <2>2 DEF Sound
  <1>3. ASSUME NEW r \in Visible(obs, rels), r[2] \notin late2, r[3] \notin late2,
               ~Merges(r[2], G), ~Merges(r[3], G)
        PROVE  <<r[2], r[3]>> \in p.related
    <2>1. <<r[1], r[2]>> \in obs /\ <<r[1], r[3]>> \in obs /\ r[2] \in Keys /\ r[3] \in Keys
      BY DEF Visible, Raw
    <2>2. r[2] \notin late /\ r[3] \notin late
      BY <1>3, <2>1
    <2>3. QED
      BY <1>3, <2>2 DEF Sound
  <1>4. ASSUME NEW m \in Keys \ late2, NEW c \in Keys \ late2, m # c
        PROVE  {m, c} \in p.linked <=> {m, c} \in Links(G) /\ p.entity[m] # {} /\ p.entity[c] # {}
    <2>1. {m, c} \in p.linked => p.entity[m] # {} /\ p.entity[c] # {}
      BY DEF Ended
    <2>2. CASE m \notin late /\ c \notin late
      BY <1>4, <2>2 DEF Sound
    <2>3. CASE ~(m \notin late /\ c \notin late)
      BY <2>1, <2>3
    <2>4. QED
      BY <2>2, <2>3
  <1>5. QED
    BY <1>1, <1>2, <1>3, <1>4 DEF Sound

\* A change of the raw layer makes late only the keys T that it touches, if
\* their units are among them.
Sealed(T, G) == \A j \in Keys \cap T : UnitOf(j, G) \in T

LEMMA RawSound ==
    ASSUME NEW p, NEW G, Parted(G), NEW obs, NEW rels, Raw(obs, rels), NEW late, Sound(p, G, obs, rels, late),
           NEW obs2, NEW rels2, Raw(obs2, rels2), NEW T, Sealed(T, G),
           \A o : o[2] \notin T => (o \in obs <=> o \in obs2),
           \A r \in Visible(obs, rels) : r[2] \notin T /\ r[3] \notin T => r \in rels2,
           \A r \in rels2 : r[2] \notin T /\ r[3] \notin T => r \in rels
    PROVE  Sound(p, G, obs2, rels2, late \union T)
  <1>1. ASSUME NEW k \in Keys \ (late \union T) PROVE Fed(p, k, G, obs2)
    <2>1. Fed(p, k, G, obs)
      BY DEF Sound
    <2>2. \A o \in obs \union obs2 : o[2] \in Keys
      BY DEF Raw
    <2>3. Feeds(k, G, obs) = Feeds(k, G, obs2)
      BY <2>2 DEF Feeds, Sealed
    <2>4. QED
      BY <2>1, <2>3 DEF Fed
  <1>2. ASSUME NEW e \in p.related, e[1] \notin late \union T, e[2] \notin late \union T
        PROVE  Backed(e, G, obs2, rels2)
    <2>1. PICK r \in Visible(obs, rels) : UnitOf(r[2], G) = e[1] /\ UnitOf(r[3], G) = e[2]
      BY <1>2 DEF Sound, Backed
    <2>2. <<r[1], r[2]>> \in obs /\ <<r[1], r[3]>> \in obs /\ r[2] \in Keys /\ r[3] \in Keys
      BY DEF Visible, Raw
    <2>3. r[2] \notin T /\ r[3] \notin T
      BY <1>2, <2>1, <2>2 DEF Sealed
    <2>4. r \in Visible(obs2, rels2)
      BY <2>2, <2>3 DEF Visible
    <2>5. QED
      BY <2>1, <2>4 DEF Backed
  <1>3. ASSUME NEW r \in Visible(obs2, rels2), r[2] \notin late \union T, r[3] \notin late \union T,
               ~Merges(r[2], G), ~Merges(r[3], G)
        PROVE  <<r[2], r[3]>> \in p.related
    <2>1. r \in rels2 /\ <<r[1], r[2]>> \in obs2 /\ <<r[1], r[3]>> \in obs2
      BY DEF Visible
    <2>2. r \in Visible(obs, rels)
      BY <1>3, <2>1 DEF Visible
    <2>3. QED
      BY <1>3, <2>2 DEF Sound
  <1>4. ASSUME NEW m \in Keys \ (late \union T), NEW c \in Keys \ (late \union T), m # c
        PROVE  {m, c} \in p.linked <=> {m, c} \in Links(G) /\ p.entity[m] # {} /\ p.entity[c] # {}
    BY <1>4 DEF Sound
  <1>5. QED
    BY <1>1, <1>2, <1>3, <1>4 DEF Sound

\* What is said of a key whose groups are not among those that change is said
\* of it afterwards.
LEMMA SameUnit ==
    ASSUME NEW G, Parted(G), NEW H, Parted(H), NEW k, k \notin Regrouped(G, H)
    PROVE  /\ \A j : UnitOf(j, G) = k <=> UnitOf(j, H) = k
           /\ Merges(k, G) <=> Merges(k, H)
  <1>1. \A g \in G \union H : k \in ToSet(g) => g \in G /\ g \in H
    BY DEF Regrouped
  <1>2. ASSUME NEW A, NEW B, Parted(A), Parted(B), \A g \in A \union B : k \in ToSet(g) => g \in A /\ g \in B,
               NEW j, UnitOf(j, A) = k
        PROVE  UnitOf(j, B) = k
    <2>1. CASE j # k
      <3>1. PICK g \in A : j \in Merged(g) /\ g[1] = k /\ k \in ToSet(g)
        BY <1>2, <2>1, UnitCases
      <3>2. QED
        BY <1>2, <3>1, UnitIn
    <2>2. CASE j = k /\ UnitOf(k, B) # k
      <3>1. PICK g \in B : k \in Merged(g) /\ k \in ToSet(g) /\ g[1] = UnitOf(k, B)
        BY <1>2, <2>2, UnitCases
      <3>2. UnitOf(k, A) = g[1]
        BY <1>2, <3>1, UnitIn
      <3>3. QED
        BY <1>2, <2>2, <3>1, <3>2
    <2>3. QED
      BY <2>1, <2>2
  <1>3. \A j : UnitOf(j, G) = k => UnitOf(j, H) = k
    BY <1>1, <1>2
  <1>4. \A j : UnitOf(j, H) = k => UnitOf(j, G) = k
    BY <1>1, <1>2
  <1>5. Merges(k, G) <=> Merges(k, H)
    BY <1>1 DEF Merges, Merged
  <1>6. QED
    BY <1>3, <1>4, <1>5

LEMMA RegroupSound ==
    ASSUME NEW p, NEW G, Parted(G), NEW H, Parted(H), NEW obs, NEW rels, Raw(obs, rels),
           NEW late, Sound(p, G, obs, rels, late)
    PROVE  Sound(p, H, obs, rels, late \union Regrouped(G, H))
  <1> DEFINE R == Regrouped(G, H)
  <1>1. ASSUME NEW k \in Keys \ (late \union R) PROVE Fed(p, k, H, obs)
    <2>1. Fed(p, k, G, obs)
      BY DEF Sound
    <2>2. UnitOf(k, G) = k <=> UnitOf(k, H) = k
      BY SameUnit
    <2>3. Feeds(k, G, obs) = Feeds(k, H, obs) /\ (Merges(k, G) <=> Merges(k, H))
      BY SameUnit DEF Feeds
    <2>4. QED
      BY <2>1, <2>2, <2>3 DEF Fed
  <1>2. ASSUME NEW e \in p.related, e[1] \notin late \union R, e[2] \notin late \union R
        PROVE  Backed(e, H, obs, rels)
    <2>1. Backed(e, G, obs, rels)
      BY <1>2 DEF Sound
    <2>2. \A j : UnitOf(j, G) = e[1] => UnitOf(j, H) = e[1]
      BY <1>2, SameUnit
    <2>3. \A j : UnitOf(j, G) = e[2] => UnitOf(j, H) = e[2]
      BY <1>2, SameUnit
    <2>4. QED
      BY <2>1, <2>2, <2>3 DEF Backed
  <1>3. ASSUME NEW r \in Visible(obs, rels), r[2] \notin late \union R, r[3] \notin late \union R,
               ~Merges(r[2], H), ~Merges(r[3], H)
        PROVE  <<r[2], r[3]>> \in p.related
    <2>1. ~Merges(r[2], G) /\ ~Merges(r[3], G)
      BY <1>3, SameUnit
    <2>2. QED
      BY <1>3, <2>1 DEF Sound
  <1>4. ASSUME NEW m \in Keys \ (late \union R), NEW c \in Keys \ (late \union R), m # c
        PROVE  {m, c} \in p.linked <=> {m, c} \in Links(H) /\ p.entity[m] # {} /\ p.entity[c] # {}
    <2>1. \A g \in G \union H : m \in ToSet(g) \/ c \in ToSet(g) => g \in G /\ g \in H
      BY DEF Regrouped
    <2>2. \A g \in G \union H : \A k \in ToSet(g) \ Merged(g) : {k, g[1]} = {m, c} => m \in ToSet(g) \/ c \in ToSet(g)
      OBVIOUS
    <2>3. {m, c} \in Links(G) <=> {m, c} \in Links(H)
      BY <2>1, <2>2 DEF Links
    <2>4. QED
      BY <1>4, <2>3 DEF Sound
  <1>5. QED
    BY <1>1, <1>2, <1>3, <1>4 DEF Sound

-----------------------------------------------------------------------------
\* What a rebuild of the keys K with the groups gs leaves is sound for the
\* groups G in force, of all that is late but K, if gs and G are the same for
\* the groups of a key that is not late.
LEMMA RebuildSound ==
    ASSUME NEW p, NEW K, NEW gs, Parted(gs), NEW G, Parted(G), NEW obs, NEW rels, Raw(obs, rels),
           NEW late, Sound(p, G, obs, rels, late \union K), Ended(p),
           \A m \in Keys \ late, h \in Touching(K, gs) : m \in ToSet(h) => h \in G,
           \A m \in (Keys \cap K) \ late, h \in G : m \in ToSet(h) => h \in gs
    PROVE  LET new == Rebuilt(p, K, gs, obs, rels) IN Sound(new, G, obs, rels, late) /\ Ended(new)
  <1> DEFINE near == Touching(K, gs)
             new  == Rebuilt(p, K, gs, obs, rels)
  <1>a. Parted(near)
    BY TouchingParted
  <1>b. Leaves(new, p, K, near, obs, rels)
    BY RebuiltIs
  <1>c. \A m \in Keys \ late, h \in near : m \in ToSet(h) => h \in G
    OBVIOUS
  <1>d. \A m \in (Keys \cap K) \ late, h \in G : m \in ToSet(h) => h \in near
    BY DEF Touching
  <1>e. \A r \in Visible(obs, rels) : r[2] \in Keys /\ r[3] \in Keys /\ r[2] # r[3]
                                      /\ <<r[1], r[2]>> \in obs /\ <<r[1], r[3]>> \in obs
    BY DEF Visible, Raw
  <1> HIDE DEF near, new
  <1>f. \A k \in Keys : new.entity[k] =
          IF k \in K THEN IF UnitOf(k, near) = k THEN Feeds(k, near, obs) ELSE {} ELSE p.entity[k]
    BY <1>b DEF Leaves
  <1>g. \A e \in new.related : Old(e, p, K) \/
          /\ new.entity[e[1]] # {} /\ new.entity[e[2]] # {}
          /\ \E r \in Visible(obs, rels) : e = <<UnitOf(r[2], near), UnitOf(r[3], near)>>
    BY <1>b DEF Leaves
  (* The unit the rebuild gives to a key, or that is the unit of a key, *)
  (* which is not late.                                                 *)
  <1>1. ASSUME NEW j \in Keys, UnitOf(j, near) # j, j \notin late \/ UnitOf(j, near) \notin late
        PROVE  UnitOf(j, G) = UnitOf(j, near)
    <2>1. PICK h \in near : j \in Merged(h) /\ j \in ToSet(h) /\ UnitOf(j, near) = h[1] /\ h[1] \in ToSet(h)
      BY <1>a, <1>1, UnitCases
    <2>2. h[1] \in Keys
      BY <1>a, Canonical DEF Parted
    <2>3. h \in G
      BY <1>c, <1>1, <2>1, <2>2
    <2>4. QED
      BY <2>1, <2>3, UnitIn
  <1>2. ASSUME NEW k \in (Keys \cap K) \ late, NEW j \in Keys, UnitOf(j, G) = k
        PROVE  UnitOf(j, near) = k
    <2>1. CASE j # k
      <3>1. PICK h \in G : j \in Merged(h) /\ h[1] = k /\ k \in ToSet(h)
        BY <1>2, <2>1, UnitCases
      <3>2. QED
        BY <1>a, <1>d, <3>1, UnitIn
    <2>2. CASE j = k
      BY <1>1, <1>2, <2>2
    <2>3. QED
      BY <2>1, <2>2
  <1>3. ASSUME NEW k \in (Keys \cap K) \ late, NEW j \in Keys, UnitOf(j, near) = k
        PROVE  UnitOf(j, G) = k
    <2>1. CASE j # k
      BY <1>1, <1>3, <2>1
    <2>2. CASE j = k /\ UnitOf(k, G) # k
      <3>1. PICK h \in G : k \in Merged(h) /\ k \in ToSet(h) /\ h[1] = UnitOf(k, G)
        BY <2>2, UnitCases
      <3>2. UnitOf(k, near) = h[1]
        BY <1>a, <1>d, <3>1, UnitIn
      <3>3. QED
        BY <1>3, <2>2, <3>1, <3>2
    <2>3. QED
      BY <2>1, <2>2
  <1>4. \A k \in Keys \ (late \union K) : Fed(p, k, G, obs)
    BY DEF Sound
  <1>5. \A k \in Keys \ late : Fed(new, k, G, obs)
    <2> TAKE k \in Keys \ late
    <2>1. CASE k \in K
      <3>1. \A o \in obs : o[2] \in Keys
        BY DEF Raw
      <3>2. UnitOf(k, near) = k <=> UnitOf(k, G) = k
        BY <1>2, <1>3, <2>1
      <3>3. Feeds(k, near, obs) = Feeds(k, G, obs)
        BY <1>2, <1>3, <2>1, <3>1 DEF Feeds
      <3>4. QED
        BY <1>f, <2>1, <3>2, <3>3 DEF Fed
    <2>2. CASE k \notin K
      <3>1. Fed(p, k, G, obs) /\ new.entity[k] = p.entity[k]
        BY <1>4, <1>f, <2>2
      <3>2. QED
        BY <3>1 DEF Fed
    <2>3. QED
      BY <2>1, <2>2
  (* An entity that is there and not late is no alias. *)
  <1>6. \A j \in Keys \ late : new.entity[j] # {} => UnitOf(j, G) = j
    BY <1>5 DEF Fed
  <1>7. ASSUME NEW j \in Keys, NEW u, u = UnitOf(j, near), u \notin late, new.entity[u] # {}
        PROVE  UnitOf(j, G) = u
    <2>1. CASE u # j
      BY <1>1, <1>7, <2>1
    <2>2. CASE u = j
      BY <1>6, <1>7, <2>2
    <2>3. QED
      BY <2>1, <2>2
  <1>8. ASSUME NEW e \in new.related, e[1] \notin late, e[2] \notin late PROVE Backed(e, G, obs, rels)
    <2>1. CASE Old(e, p, K)
      BY <1>8, <2>1 DEF Sound, Old
    <2>2. CASE new.entity[e[1]] # {} /\ new.entity[e[2]] # {}
               /\ \E r \in Visible(obs, rels) : e = <<UnitOf(r[2], near), UnitOf(r[3], near)>>
      <3>1. PICK r \in Visible(obs, rels) : e = <<UnitOf(r[2], near), UnitOf(r[3], near)>>
        BY <2>2
      <3>2. e[1] = UnitOf(r[2], near) /\ e[2] = UnitOf(r[3], near)
        BY <3>1
      <3>3. UnitOf(r[2], G) = e[1] /\ UnitOf(r[3], G) = e[2]
        BY <1>e, <1>7, <1>8, <2>2, <3>2
      <3>4. QED
        BY <3>3 DEF Backed
    <2>3. QED
      BY <1>g, <2>1, <2>2
  <1>9. ASSUME NEW j \in Keys \ late, ~Merges(j, G), NEW d, <<d, j>> \in obs
        PROVE  UnitOf(j, near) = j /\ new.entity[j] # {}
    <2>1. UnitOf(j, G) = j
      BY <1>9, UnmergedUnit
    <2>2. UnitOf(j, near) = j
      BY <1>1, <2>1
    <2>3. <<d, j>> \in Feeds(j, G, obs)
      BY <1>9, <2>1 DEF Feeds
    <2>4. QED
      BY <1>5, <1>9, <2>1, <2>2, <2>3 DEF Fed
  <1>10. ASSUME NEW r \in Visible(obs, rels), r[2] \notin late, r[3] \notin late,
                ~Merges(r[2], G), ~Merges(r[3], G)
         PROVE  <<r[2], r[3]>> \in new.related
    <2>1. UnitOf(r[2], near) = r[2] /\ UnitOf(r[3], near) = r[3] /\ new.entity[r[2]] # {} /\ new.entity[r[3]] # {}
      BY <1>e, <1>9, <1>10
    <2>2. CASE r[2] \in K \/ r[3] \in K
      <3>1. PICK s, t : s = r[2] /\ t = r[3]
        OBVIOUS
      <3>2. s = UnitOf(r[2], near) /\ t = UnitOf(r[3], near) /\ s # t /\ (s \in K \/ t \in K)
            /\ new.entity[s] # {} /\ new.entity[t] # {}
        BY <1>e, <2>1, <2>2, <3>1
      <3>3. <<s, t>> \in new.related
        BY <1>b, <3>2 DEF Leaves
      <3>4. QED
        BY <3>1, <3>3
    <2>3. CASE r[2] \notin K /\ r[3] \notin K
      <3>1. <<r[2], r[3]>> \in p.related
        BY <1>10, <2>3 DEF Sound
      <3>2. QED
        BY <1>b, <2>3, <3>1 DEF Leaves, Old
    <2>4. QED
      BY <2>2, <2>3
  <1>11. ASSUME NEW m \in Keys \ late, NEW c \in Keys \ late, m # c
         PROVE  {m, c} \in new.linked <=> {m, c} \in Links(G) /\ new.entity[m] # {} /\ new.entity[c] # {}
    <2>1. {m, c} \in new.linked <=>
            \/ {m, c} \in p.linked /\ m \notin K /\ c \notin K
            \/ {m, c} \in Links(near) /\ new.entity[m] # {} /\ new.entity[c] # {}
      BY <1>b DEF Leaves
    <2>2. ASSUME NEW A PROVE {m, c} \in Links(A) <=>
            \E g \in A : \/ g[1] = m /\ c \in ToSet(g) \ Merged(g)
                         \/ g[1] = c /\ m \in ToSet(g) \ Merged(g)
      BY <1>11 DEF Links
    <2>3. {m, c} \in Links(near) => {m, c} \in Links(G)
      BY <1>c, <2>2
    <2>4. ASSUME m \in K \/ c \in K, {m, c} \in Links(G) PROVE {m, c} \in Links(near)
      <3>1. PICK g \in G : \/ g[1] = m /\ c \in ToSet(g) \ Merged(g)
                           \/ g[1] = c /\ m \in ToSet(g) \ Merged(g)
        BY <2>2, <2>4
      <3>2. m \in ToSet(g) /\ c \in ToSet(g)
        BY <3>1, Canonical DEF Parted
      <3>3. g \in near
        BY <1>d, <2>4, <3>2
      <3>4. QED
        BY <2>2, <3>1, <3>3
    <2>5. CASE m \in K \/ c \in K
      BY <2>1, <2>3, <2>4, <2>5
    <2>6. CASE m \notin K /\ c \notin K
      <3>1. {m, c} \in p.linked <=> {m, c} \in Links(G) /\ p.entity[m] # {} /\ p.entity[c] # {}
        BY <1>11, <2>6 DEF Sound
      <3>2. p.entity[m] = new.entity[m] /\ p.entity[c] = new.entity[c]
        BY <1>f, <2>6
      <3>3. QED
        BY <2>1, <2>3, <2>6, <3>1, <3>2
    <2>7. QED
      BY <2>5, <2>6
  <1>12. Sound(new, G, obs, rels, late)
    BY <1>5, <1>8, <1>10, <1>11 DEF Sound
  <1>13. Ended(new)
    <2>1. ASSUME NEW e \in new.related PROVE e \in Keys \X Keys /\ new.entity[e[1]] # {} /\ new.entity[e[2]] # {}
      <3>1. CASE Old(e, p, K)
        BY <1>f, <3>1 DEF Ended, Old
      <3>2. CASE new.entity[e[1]] # {} /\ new.entity[e[2]] # {}
                 /\ \E r \in Visible(obs, rels) : e = <<UnitOf(r[2], near), UnitOf(r[3], near)>>
        <4>1. PICK r \in Visible(obs, rels) : e = <<UnitOf(r[2], near), UnitOf(r[3], near)>>
          BY <3>2
        <4>2. UnitOf(r[2], near) \in Keys /\ UnitOf(r[3], near) \in Keys
          BY <1>a, <1>e, UnitIsKey
        <4>3. QED
          BY <3>2, <4>1, <4>2
      <3>3. QED
        BY <1>g, <3>1, <3>2
    <2>2. ASSUME NEW l \in new.linked PROVE l \subseteq Keys /\ \A k \in l : new.entity[k] # {}
      <3>1. CASE l \in p.linked /\ l \intersect K = {}
        <4>1. l \subseteq Keys /\ \A k \in l : p.entity[k] # {}
          BY <3>1 DEF Ended
        <4>2. QED
          BY <1>f, <3>1, <4>1
      <3>2. CASE l \in Links(near) /\ \A k \in l : new.entity[k] # {}
        <4>1. PICK g \in near : \E k \in ToSet(g) \ Merged(g) : l = {k, g[1]}
          BY <3>2 DEF Links
        <4>2. ToSet(g) \subseteq Keys /\ g[1] \in Keys
          BY <1>a, Canonical DEF Parted
        <4>3. QED
          BY <3>2, <4>1, <4>2
      <3>3. QED
        BY <1>b, <2>2, <3>1, <3>2 DEF Leaves
    <2>3. QED
      BY <2>1, <2>2 DEF Ended
  <1>14. QED
    BY <1>12, <1>13 DEF new

-----------------------------------------------------------------------------
\* The invariant.

\* The types, but for the batches of a plan.
Held ==
  /\ committed \in [Docs -> Content]
  /\ Raw(latest, asserted)
  /\ history \subseteq Docs \X Keys /\ latest \intersect history = {}
  /\ retired \subseteq Docs \ Updates
  /\ groups \in GroupChoices
  /\ entity \in [Keys -> SUBSET (Docs \X Keys)]
  /\ DOMAIN plan = {"todo", "groups", "kind"}
  /\ plan.groups \in GroupChoices \union {{}}
  /\ plan.kind \in {"none", "keys", "domain", "all"}
  /\ plan.kind # "none" => plan.groups \in GroupChoices
  /\ recorded \in GroupChoices \union {Unrecorded}
  /\ behind \subseteq Keys /\ ops \in 0..MaxOps

Now == [entity |-> entity, related |-> related, linked |-> linked]
Current == Ended(Now) /\ Sound(Now, groups, latest, asserted, behind)
Inv == Held /\ Current

\* A relation that is retracted has an end among the keys of what retracts it.
RetractsItsOwn ==
  \A d \in Docs : \A c \in ContentsOf[d] : \A r \in c.unrelates : r[2] \in c.keys \/ r[3] \in c.keys

LEMMA PartedGroups == Held => Parted(groups) /\ Parted(plan.groups)
  BY GroupsAssumption DEF Held, Parted

\* The keys affected by some are keys, and sealed.
LEMMA AffectedSealed ==
    ASSUME NEW keys \in SUBSET Keys, NEW G, Parted(G)
    PROVE  /\ AffectedKeys(keys, G) \subseteq Keys
           /\ keys \subseteq AffectedKeys(keys, G)
           /\ Sealed(AffectedKeys(keys, G), G)
  <1> DEFINE A == AffectedKeys(keys, G)
  <1>1. A \subseteq Keys /\ keys \subseteq A
    BY Canonical DEF AffectedKeys, Touching, Parted
  <1>2. ASSUME NEW j \in Keys \cap A PROVE UnitOf(j, G) \in A
    <2>1. CASE UnitOf(j, G) = j
      BY <2>1
    <2>2. CASE UnitOf(j, G) # j
      <3>1. PICK g \in G : j \in ToSet(g) /\ UnitOf(j, G) = g[1] /\ g[1] \in ToSet(g)
        BY <2>2, UnitCases
      <3>2. g \in Touching(keys, G)
        <4>1. CASE j \in keys
          BY <3>1, <4>1 DEF Touching
        <4>2. CASE j \notin keys
          <5>1. PICK h \in Touching(keys, G) : j \in ToSet(h)
            BY <4>2 DEF AffectedKeys
          <5>2. h = g
            BY <3>1, <5>1 DEF Touching, Parted
          <5>3. QED
            BY <5>1, <5>2
        <4>3. QED
          BY <4>1, <4>2
      <3>3. QED
        BY <3>1, <3>2 DEF AffectedKeys
    <2>3. QED
      BY <2>1, <2>2
  <1>3. QED
    BY <1>1, <1>2 DEF Sealed

\* What an operation on the raw layer touches of it.
Changes(T) ==
  /\ Raw(latest', asserted')
  /\ \A o : o[2] \notin T => (o \in latest <=> o \in latest')
  /\ \A r \in Visible(latest, asserted) : r[2] \notin T /\ r[3] \notin T => r \in asserted'
  /\ \A r \in asserted' : r[2] \notin T /\ r[3] \notin T => r \in asserted

LEMMA RebuildIs ==
    ASSUME NEW K, NEW gs, Rebuild(K, gs)
    PROVE  Now' = Rebuilt(Now, K, gs, latest', asserted')
  BY DEF Rebuild, Rebuilt, Now

\* An operation whose rebuild is left to a later one.
LEMMA AfterChange ==
    ASSUME Inv, NEW T, Sealed(T, groups), Changes(T), UNCHANGED <<projected, groups>>, behind' = behind \union T
    PROVE  Current'
  <1>1. PICK p, G, obs, rels, late, obs2, rels2 :
          p = Now /\ G = groups /\ obs = latest /\ rels = asserted /\ late = behind
          /\ obs2 = latest' /\ rels2 = asserted'
    OBVIOUS
  <1>2. Parted(G) /\ Raw(obs, rels) /\ Sound(p, G, obs, rels, late) /\ Ended(p)
    BY <1>1, PartedGroups DEF Inv, Held, Current
  <1>3. Sound(p, G, obs2, rels2, late \union T)
    BY <1>1, <1>2, RawSound DEF Changes
  <1>4. Now' = p /\ groups' = G /\ latest' = obs2 /\ asserted' = rels2 /\ behind' = late \union T
    BY <1>1 DEF Now, projected
  <1>5. QED
    BY <1>2, <1>3, <1>4 DEF Current

\* An operation that rebuilds what it touches.
LEMMA AfterRebuild ==
    ASSUME Inv, NEW T, Sealed(T, groups), Changes(T), Rebuild(T, groups), UNCHANGED groups, behind' = behind \ T
    PROVE  Current'
  <1>1. PICK p, G, obs, rels, late, obs2, rels2 :
          p = Now /\ G = groups /\ obs = latest /\ rels = asserted /\ late = behind
          /\ obs2 = latest' /\ rels2 = asserted'
    OBVIOUS
  <1>2. Parted(G) /\ Raw(obs, rels) /\ Sound(p, G, obs, rels, late) /\ Ended(p) /\ Raw(obs2, rels2)
    BY <1>1, PartedGroups DEF Inv, Held, Current, Changes
  <1>3. Sound(p, G, obs2, rels2, late \union T)
    BY <1>1, <1>2, RawSound DEF Changes
  <1>4. late \union T = (late \ T) \union T
    OBVIOUS
  <1>5. PICK new : new = Rebuilt(p, T, G, obs2, rels2)
    OBVIOUS
  <1>6. Sound(new, G, obs2, rels2, late \ T) /\ Ended(new)
    BY <1>2, <1>3, <1>4, <1>5, RebuildSound DEF Touching
  <1>7. Now' = new /\ groups' = G /\ latest' = obs2 /\ asserted' = rels2 /\ behind' = late \ T
    BY <1>1, <1>5, RebuildIs
  <1>8. QED
    BY <1>6, <1>7 DEF Current


-----------------------------------------------------------------------------
\* Every step keeps the types.

LEMMA RebuildTyped ==
    ASSUME Held, NEW K, NEW gs, Parted(gs), Raw(latest', asserted'), Rebuild(K, gs)
    PROVE  entity' \in [Keys -> SUBSET (Docs \X Keys)]
  <1>1. PICK p, obs, rels : p = Now /\ obs = latest' /\ rels = asserted'
    OBVIOUS
  <1>2. PICK near, new : near = Touching(K, gs) /\ new = Rebuilt(p, K, gs, obs, rels)
    OBVIOUS
  <1>3. Leaves(new, p, K, near, obs, rels)
    BY <1>1, <1>2, RebuiltIs
  <1>4. entity' = new.entity
    BY <1>1, <1>2 DEF Rebuild, Now
  <1>5. \A k \in Keys : new.entity[k] \subseteq Docs \X Keys
    <2> TAKE k \in Keys
    <2>1. new.entity[k] = Feeds(k, near, obs) \/ new.entity[k] = {} \/ new.entity[k] = p.entity[k]
      BY <1>3 DEF Leaves
    <2>2. Feeds(k, near, obs) \subseteq obs /\ obs \subseteq Docs \X Keys
      BY <1>1 DEF Feeds, Raw
    <2>3. p.entity[k] \subseteq Docs \X Keys
      BY <1>1 DEF Held, Now
    <2>4. QED
      BY <2>1, <2>2, <2>3
  <1>6. new.entity = [k \in Keys |-> new.entity[k]]
    BY <1>3 DEF Leaves
  <1>7. QED
    BY <1>4, <1>5, <1>6

LEMMA KeysOfKeys == Held => \A d : KeysOf(d) \subseteq Keys
  BY DEF Held, Raw, KeysOf

LEMMA CommitKeysIs ==
    ASSUME Held, NEW d \in Docs, NEW c \in ContentsOf[d]
    PROVE  /\ CommitKeys(d, c) \subseteq Keys /\ Sealed(CommitKeys(d, c), groups)
           /\ c.keys \subseteq CommitKeys(d, c) /\ KeysOf(d) \subseteq CommitKeys(d, c)
           /\ \A o \in c.retracts : o \in latest => o[2] \in CommitKeys(d, c)
  <1> DEFINE hit == {o \in c.retracts : o \in latest /\ o[1] # d}
             own == c.keys \union KeysOf(d) \union {o[2] : o \in hit}
  <1>1. c \in Content
    BY ConstantsAssumption
  <1>2. KeysOf(d) \subseteq Keys /\ \A o \in hit : o[2] \in Keys
    BY KeysOfKeys DEF Held, Raw
  <1>3. own \in SUBSET Keys
    BY <1>1, <1>2 DEF Content
  <1>4. CommitKeys(d, c) = AffectedKeys(own, groups)
    BY DEF CommitKeys
  <1>5. \A o \in c.retracts : o \in latest => o[2] \in own
    BY DEF KeysOf
  <1> HIDE DEF own
  <1>6. /\ CommitKeys(d, c) \subseteq Keys /\ Sealed(CommitKeys(d, c), groups)
        /\ own \subseteq CommitKeys(d, c)
    BY <1>3, <1>4, AffectedSealed, PartedGroups
  <1>7. c.keys \subseteq own /\ KeysOf(d) \subseteq own
    BY DEF own
  <1>8. QED
    BY <1>5, <1>6, <1>7

LEMMA WriteRaw ==
    ASSUME Held, NEW d \in Docs, NEW c \in ContentsOf[d], WriteVersion(d, c)
    PROVE  /\ Raw(latest', asserted') /\ history' \subseteq Docs \X Keys /\ latest' \intersect history' = {}
           /\ committed' \in [Docs -> Content]
  <1>1. c \in Content /\ \A r \in c.rels : r[1] \in c.keys /\ r[2] \in c.keys /\ r[1] # r[2]
    BY ConstantsAssumption
  <1>2. c.keys \subseteq Keys /\ c.rels \subseteq Keys \X Keys
    BY <1>1 DEF Content
  <1>3. {d} \X c.keys \subseteq Docs \X Keys
    BY <1>2
  <1>4. latest' \subseteq Docs \X Keys /\ history' \subseteq Docs \X Keys /\ latest' \intersect history' = {}
    BY <1>3 DEF WriteVersion, Held, Raw
  <1>5. asserted' = (asserted \ c.unrelates) \union {<<d, r[1], r[2]>> : r \in c.rels}
    BY DEF WriteVersion
  <1>6. \A r \in c.rels : <<d, r[1], r[2]>> \in Docs \X Keys \X Keys
    BY <1>2
  <1>7. asserted' \subseteq Docs \X Keys \X Keys
    BY <1>5, <1>6 DEF Held, Raw
  <1>8. \A r \in asserted' : r[2] # r[3]
    BY <1>1, <1>5 DEF Held, Raw
  <1>9. committed' \in [Docs -> Content]
    BY <1>1 DEF WriteVersion, Held
  <1>10. QED
    BY <1>4, <1>7, <1>8, <1>9 DEF Raw

LEMMA HeldCommit ==
    ASSUME Held, NEW d \in Docs, NEW c \in ContentsOf[d], Commit(d, c) \/ CommitDeferred(d, c)
    PROVE  Held'
  <1>1. WriteVersion(d, c) /\ Counted /\ UNCHANGED <<retired, groups, plan, recorded>>
    BY DEF Commit, CommitDeferred
  <1>2. /\ Raw(latest', asserted') /\ history' \subseteq Docs \X Keys /\ latest' \intersect history' = {}
        /\ committed' \in [Docs -> Content]
    BY <1>1, WriteRaw
  <1>3. entity' \in [Keys -> SUBSET (Docs \X Keys)]
    <2>1. CASE Commit(d, c)
      <3>1. PICK K : K = CommitKeys(d, c) /\ Rebuild(K, groups)
        BY <2>1 DEF Commit
      <3>2. QED
        BY <1>2, <3>1, RebuildTyped, PartedGroups
    <2>2. CASE CommitDeferred(d, c)
      BY <2>2 DEF CommitDeferred, projected, Held
    <2>3. QED
      BY <2>1, <2>2
  <1>4. behind' \subseteq Keys
    BY CommitKeysIs DEF Commit, CommitDeferred, Held
  <1>5. ops' \in 0 .. MaxOps
    BY <1>1, ConstantsAssumption DEF Counted, Held
  <1>6. QED
    BY <1>1, <1>2, <1>3, <1>4, <1>5 DEF Held

LEMMA HeldMove ==
    ASSUME Held, NEW d \in Docs, Retract(d) \/ Retire(d) \/ Restore(d) \/ Archive(d)
    PROVE  Held'
  <1>1. Counted /\ UNCHANGED <<groups, plan, recorded>>
    BY DEF Retract, Retire, Restore, Archive
  <1>2. /\ latest' \subseteq Docs \X Keys /\ history' \subseteq Docs \X Keys
        /\ latest' \intersect history' = {}
    BY DEF Retract, Retire, Restore, Archive, Held, Raw
  <1>3. asserted' \subseteq asserted
    BY DEF Retract, Retire, Restore, Archive
  <1>4. Raw(latest', asserted')
    BY <1>2, <1>3 DEF Held, Raw
  <1>5. committed' \in [Docs -> Content]
    <2>1. Nothing \in Content
      BY DEF Nothing, Content
    <2>2. QED
      BY <2>1 DEF Retract, Retire, Restore, Archive, Held
  <1>6. retired' \subseteq Docs \ Updates
    BY DEF Retract, Retire, Restore, Archive, Held
  <1>7. entity' \in [Keys -> SUBSET (Docs \X Keys)]
    <2>1. CASE Retract(d)
      BY <2>1 DEF Retract, projected, Held
    <2>2. CASE Retire(d) \/ Restore(d) \/ Archive(d)
      <3>1. PICK K : K = KeysOf(d) /\ Rebuild(K, groups)
        BY <2>2 DEF Retire, Restore, Archive, RebuildOwn
      <3>2. QED
        BY <1>4, <3>1, RebuildTyped, PartedGroups
    <2>3. QED
      BY <2>1, <2>2
  <1>8. behind' \subseteq Keys
    <2>1. CASE Retract(d)
      BY <2>1, AffectedSealed, KeysOfKeys, PartedGroups DEF Retract, Held
    <2>2. CASE Retire(d) \/ Restore(d) \/ Archive(d)
      BY <2>2 DEF Retire, Restore, Archive, RebuildOwn, Held
    <2>3. QED
      BY <2>1, <2>2
  <1>9. ops' \in 0 .. MaxOps
    BY <1>1, ConstantsAssumption DEF Counted, Held
  <1>10. QED
    BY <1>1, <1>2, <1>4, <1>5, <1>6, <1>7, <1>8, <1>9 DEF Held

LEMMA GroupKeys == ASSUME NEW G, Parted(G), NEW H, Parted(H) PROVE Regrouped(G, H) \subseteq Keys
  <1>1. \A g \in G \union H : ToSet(g) \subseteq Keys
    BY Canonical DEF Parted
  <1>2. QED
    BY <1>1 DEF Regrouped

LEMMA ChoiceParted == \A G \in GroupChoices : Parted(G)
  BY GroupsAssumption DEF Parted

LEMMA HeldEdit == ASSUME Held, NEW gs \in GroupChoices, EditGroups(gs) PROVE Held'
  <1>1. behind' \subseteq Keys
    BY GroupKeys, ChoiceParted, PartedGroups DEF EditGroups, Held
  <1>2. ops' \in 0 .. MaxOps
    BY ConstantsAssumption DEF EditGroups, Counted, Held
  <1>3. UNCHANGED <<raw, projected, plan, recorded>> /\ groups' \in GroupChoices
    BY DEF EditGroups
  <1>4. QED
    BY <1>1, <1>2, <1>3 DEF Held, raw, projected

LEMMA HeldApprove == ASSUME Held, NEW g \in Proposals, Approve(g) PROVE Held'
  <1>1. UNCHANGED <<raw, plan, recorded>> /\ groups' \in GroupChoices
    BY DEF Approve
  <1>2. Raw(latest', asserted')
    BY <1>1 DEF raw, Held
  <1>3. entity' \in [Keys -> SUBSET (Docs \X Keys)]
    <2>1. PICK K, gs : gs = groups' /\ Rebuild(K, gs)
      BY DEF Approve
    <2>2. QED
      BY <1>1, <1>2, <2>1, RebuildTyped, ChoiceParted
  <1>4. behind' \subseteq Keys
    BY DEF Approve, Held
  <1>5. ops' \in 0 .. MaxOps
    BY ConstantsAssumption DEF Approve, Counted, Held
  <1>6. QED
    BY <1>1, <1>2, <1>3, <1>4, <1>5 DEF Held, raw

LEMMA HeldStart ==
    ASSUME Held, NEW kind \in {"domain", "all"}, NEW ds, StartRebuild(kind, ds)
    PROVE  Held'
  <1>1. /\ DOMAIN plan' = {"todo", "groups", "kind"} /\ plan'.groups = groups /\ plan'.kind = kind
        /\ behind' \subseteq behind /\ Counted
        /\ UNCHANGED <<raw, projected, groups, recorded>>
    BY DEF StartRebuild
  <1>2. ops' \in 0 .. MaxOps
    BY <1>1, ConstantsAssumption DEF Counted, Held
  <1>3. QED
    BY <1>1, <1>2 DEF Held, raw, projected

LEMMA HeldStartUnion == ASSUME Held, StartUnionRebuild PROVE Held'
  <1>1. /\ DOMAIN plan' = {"todo", "groups", "kind"} /\ plan'.groups = groups /\ plan'.kind = "keys"
        /\ Counted /\ UNCHANGED <<raw, projected, groups, recorded, behind>>
    BY DEF StartUnionRebuild
  <1>2. ops' \in 0 .. MaxOps
    BY <1>1, ConstantsAssumption DEF Counted, Held
  <1>3. QED
    BY <1>1, <1>2 DEF Held, raw, projected

LEMMA HeldBatch == ASSUME Held, RunBatch PROVE Held'
  <1>1. UNCHANGED <<raw, groups, recorded, ops>>
    BY DEF RunBatch
  <1>2. /\ DOMAIN plan' = {"todo", "groups", "kind"} /\ plan'.groups = plan.groups /\ plan'.kind = plan.kind
    BY DEF RunBatch, Held
  <1>3. entity' \in [Keys -> SUBSET (Docs \X Keys)]
    <2>1. PICK K, gs : gs = plan.groups /\ Rebuild(K, gs)
      BY DEF RunBatch
    <2>2. Raw(latest', asserted')
      BY <1>1 DEF raw, Held
    <2>3. QED
      BY <2>1, <2>2, RebuildTyped, PartedGroups
  <1>4. behind' \subseteq Keys
    BY GroupKeys, PartedGroups DEF RunBatch, Held
  <1>5. QED
    BY <1>1, <1>2, <1>3, <1>4 DEF Held, raw

LEMMA HeldEnd == ASSUME Held, FailRebuild \/ FinishRebuild PROVE Held'
  <1>1. /\ DOMAIN plan' = {"todo", "groups", "kind"} /\ plan'.groups = {} /\ plan'.kind = "none"
        /\ UNCHANGED <<raw, projected, groups, behind, ops>>
    BY DEF FailRebuild, FinishRebuild, NoPlan
  <1>2. recorded' \in GroupChoices \union {Unrecorded}
    BY DEF FailRebuild, FinishRebuild, Held
  <1>3. QED
    BY <1>1, <1>2 DEF Held, raw, projected

-----------------------------------------------------------------------------
\* Every step keeps the projection sound.

\* A commit changes nothing of the raw layer but at the keys it counts as its own.
LEMMA CommitChanges ==
    ASSUME Held, RetractsItsOwn, NEW d \in Docs, NEW c \in ContentsOf[d], WriteVersion(d, c)
    PROVE  Changes(CommitKeys(d, c))
  <1>1. PICK T : T = CommitKeys(d, c)
    OBVIOUS
  <1>2. /\ c.keys \subseteq T /\ KeysOf(d) \subseteq T
        /\ \A o \in c.retracts : o \in latest => o[2] \in T
    BY <1>1, CommitKeysIs
  <1>3. Raw(latest', asserted')
    BY WriteRaw
  <1>4. \A r \in c.rels : r[1] \in c.keys /\ r[2] \in c.keys
    BY ConstantsAssumption
  <1>5. \A r \in c.unrelates : r[2] \in T \/ r[3] \in T
    BY <1>2 DEF RetractsItsOwn
  <1>6. \A o \in latest : o[1] = d => o[2] \in T
    BY <1>2 DEF KeysOf
  <1>7. ASSUME NEW o, o[2] \notin T PROVE o \in latest <=> o \in latest'
    BY <1>2, <1>6, <1>7 DEF WriteVersion
  <1>8. asserted' = (asserted \ c.unrelates) \union {<<d, r[1], r[2]>> : r \in c.rels}
    BY DEF WriteVersion
  <1>9. \A r \in Visible(latest, asserted) : r[2] \notin T /\ r[3] \notin T => r \in asserted'
    BY <1>5, <1>8 DEF Visible
  <1>10. \A r \in asserted' : r[2] \notin T /\ r[3] \notin T => r \in asserted
    BY <1>2, <1>4, <1>8
  <1>11. Changes(T)
    BY <1>3, <1>7, <1>9, <1>10 DEF Changes
  <1>12. QED
    BY <1>1, <1>11

LEMMA CommitCurrent ==
    ASSUME Inv, RetractsItsOwn, NEW d \in Docs, NEW c \in ContentsOf[d], Commit(d, c) \/ CommitDeferred(d, c)
    PROVE  Current'
  <1>1. WriteVersion(d, c) /\ UNCHANGED groups /\ Held
    BY DEF Commit, CommitDeferred, Inv
  <1>2. PICK T : T = CommitKeys(d, c)
    OBVIOUS
  <1>3. Changes(T) /\ Sealed(T, groups)
    BY <1>1, <1>2, CommitChanges, CommitKeysIs
  <1>4. CASE Commit(d, c)
    <2>1. Rebuild(T, groups) /\ behind' = behind \ T
      BY <1>2, <1>4 DEF Commit
    <2>2. QED
      BY <1>1, <1>3, <2>1, AfterRebuild
  <1>5. CASE CommitDeferred(d, c)
    <2>1. UNCHANGED <<projected, groups>> /\ behind' = behind \union T
      BY <1>2, <1>5 DEF CommitDeferred
    <2>2. QED
      BY <1>3, <2>1, AfterChange
  <1>6. QED
    BY <1>4, <1>5

\* A document that leaves or comes back changes nothing but at its own keys.
LEMMA MoveChanges ==
    ASSUME Held, NEW d \in Docs, Retract(d) \/ Retire(d) \/ Restore(d) \/ Archive(d),
           NEW T, KeysOf(d) \subseteq T
    PROVE  Changes(T)
  <1>1. \A o \in latest \union history : o[1] = d => o[2] \in T
    BY DEF KeysOf
  <1>2. \A o : o[1] # d => (o \in latest <=> o \in latest')
    BY DEF Retract, Retire, Restore, Archive
  <1>3. latest' \subseteq latest \union history
    BY DEF Retract, Retire, Restore, Archive
  <1>4. \A o : o[2] \notin T => (o \in latest <=> o \in latest')
    BY <1>1, <1>2, <1>3
  <1>5. asserted' \subseteq asserted /\ \A r \in asserted : r[1] # d => r \in asserted'
    BY DEF Retract, Retire, Restore, Archive
  <1>6. ASSUME NEW r \in Visible(latest, asserted), r[2] \notin T
        PROVE  r \in asserted'
    <2>1. <<r[1], r[2]>> \in latest /\ r \in asserted
      BY DEF Visible
    <2>2. r[1] # d
      BY <1>1, <1>6, <2>1
    <2>3. QED
      BY <1>5, <2>1, <2>2
  <1>7. Raw(latest', asserted')
    BY <1>3, <1>5 DEF Held, Raw
  <1>8. QED
    BY <1>4, <1>5, <1>6, <1>7 DEF Changes

LEMMA MoveCurrent ==
    ASSUME Inv, ~RetireGrouped, NEW d \in Docs, Retract(d) \/ Retire(d) \/ Restore(d) \/ Archive(d)
    PROVE  Current'
  <1>1. UNCHANGED groups /\ Held
    BY DEF Retract, Retire, Restore, Archive, Inv
  <1>2. PICK K : K = KeysOf(d)
    OBVIOUS
  <1>3. K \in SUBSET Keys
    BY <1>1, <1>2, KeysOfKeys
  <1>4. CASE Retract(d)
    <2>1. PICK T : T = AffectedKeys(K, groups)
      OBVIOUS
    <2>2. K \subseteq T /\ Sealed(T, groups)
      BY <1>1, <1>3, <2>1, AffectedSealed, PartedGroups
    <2>3. Changes(T)
      BY <1>1, <1>2, <1>4, <2>2, MoveChanges
    <2>4. UNCHANGED <<projected, groups>> /\ behind' = behind \union T
      BY <1>2, <1>4, <2>1 DEF Retract
    <2>5. QED
      BY <2>2, <2>3, <2>4, AfterChange
  <1>5. CASE Retire(d) \/ Restore(d) \/ Archive(d)
    <2>1. Movable(K) /\ Rebuild(K, groups) /\ behind' = behind \ K
      BY <1>2, <1>5 DEF Retire, Restore, Archive, RebuildOwn
    <2>2. Sealed(K, groups)
      BY <2>1 DEF Movable, Sealed
    <2>3. Changes(K)
      BY <1>1, <1>2, <1>5, MoveChanges
    <2>4. QED
      BY <1>1, <2>1, <2>2, <2>3, AfterRebuild
  <1>6. QED
    BY <1>4, <1>5

\* A hand edit makes the keys of the groups it changes late.
LEMMA EditCurrent == ASSUME Inv, NEW gs \in GroupChoices, EditGroups(gs) PROVE Current'
  <1>1. PICK p, G, obs, rels, late :
          p = Now /\ G = groups /\ obs = latest /\ rels = asserted /\ late = behind
    OBVIOUS
  <1>2. Parted(G) /\ Raw(obs, rels) /\ Sound(p, G, obs, rels, late) /\ Ended(p)
    BY <1>1, PartedGroups DEF Inv, Held, Current
  <1>3. Sound(p, gs, obs, rels, late \union Regrouped(G, gs))
    BY <1>2, ChoiceParted, RegroupSound
  <1>4. Now' = p /\ groups' = gs /\ latest' = obs /\ asserted' = rels /\ behind' = late \union Regrouped(G, gs)
    BY <1>1 DEF EditGroups, Now, projected, raw
  <1>5. QED
    BY <1>2, <1>3, <1>4 DEF Current

\* What all_keys leaves out has no entity and no latest observation.
LEMMA NotAllKeys ==
    ASSUME Held, NEW ds, NEW k \in Keys, DomainOf[k] \in ds, k \notin AllKeys(ds)
    PROVE  entity[k] = {} /\ \A o \in latest : o[2] # k
  <1>1. entity[k] = {} /\ \A d \in Docs : <<d, k>> \notin latest
    BY DEF AllKeys
  <1>2. \A o \in latest : o[1] \in Docs /\ o = <<o[1], o[2]>>
    BY DEF Held, Raw
  <1>3. QED
    BY <1>1, <1>2

\* An approved group: its domains are rebuilt by the new groups.
LEMMA ApproveCurrent == ASSUME Inv, NEW g \in Proposals, Approve(g) PROVE Current'
  <1>1. PICK p, G, H, obs, rels, late, late2, ds, K :
          /\ p = Now /\ G = groups /\ H = groups' /\ obs = latest /\ rels = asserted /\ late = behind
          /\ late2 = behind' /\ ds = {DomainOf[k] : k \in ToSet(g)} /\ K = AllKeys(ds)
    OBVIOUS
  <1>2. /\ Parted(G) /\ Raw(obs, rels) /\ Sound(p, G, obs, rels, late) /\ Ended(p) /\ Held
        /\ p.entity = entity
    BY <1>1, PartedGroups DEF Inv, Held, Current, Now
  <1>3. /\ H = G \union {g} /\ Rebuild(K, H) /\ late2 = {k \in late : DomainOf[k] \notin ds}
        /\ UNCHANGED <<latest, asserted>>
    BY <1>1 DEF Approve, raw
  <1>4. Parted(H)
    BY <1>1, ChoiceParted DEF Approve
  <1>5. Sound(p, H, obs, rels, late \union Regrouped(G, H))
    BY <1>2, <1>4, RegroupSound
  <1>6. \A k \in Regrouped(G, H) : DomainOf[k] \in ds
    <2>1. Regrouped(G, H) \subseteq ToSet(g)
      BY <1>3 DEF Regrouped
    <2>2. QED
      BY <1>1, <2>1
  <1>7. ASSUME NEW k \in Keys, k \in late \union Regrouped(G, H), k \notin late2 \union K
        PROVE  p.entity[k] = {} /\ \A o \in obs : o[2] # k
    <2>1. DomainOf[k] \in ds
      BY <1>3, <1>6, <1>7
    <2>2. QED
      BY <1>1, <1>2, <1>7, <2>1, NotAllKeys
  <1>8. Sound(p, H, obs, rels, late2 \union K)
    BY <1>2, <1>4, <1>5, <1>7, LateSound
  <1>9. PICK new : new = Rebuilt(p, K, H, obs, rels)
    OBVIOUS
  <1>10. Sound(new, H, obs, rels, late2) /\ Ended(new)
    BY <1>2, <1>4, <1>8, <1>9, RebuildSound DEF Touching
  <1>11. Now' = new /\ groups' = H /\ latest' = obs /\ asserted' = rels /\ behind' = late2
    BY <1>1, <1>3, <1>9, RebuildIs
  <1>12. QED
    BY <1>10, <1>11 DEF Current

\* The keys a full rebuild has no batch for have nothing to rebuild.
LEMMA StartCurrent == ASSUME Inv, NEW kind, NEW ds, StartRebuild(kind, ds) PROVE Current'
  <1>1. PICK p, G, obs, rels, late, late2 :
          p = Now /\ G = groups /\ obs = latest /\ rels = asserted /\ late = behind /\ late2 = behind'
    OBVIOUS
  <1>2. /\ Parted(G) /\ Raw(obs, rels) /\ Sound(p, G, obs, rels, late) /\ Ended(p) /\ Held
        /\ p.entity = entity
    BY <1>1, PartedGroups DEF Inv, Held, Current, Now
  <1>3. ASSUME NEW k \in Keys, k \in late, k \notin late2
        PROVE  p.entity[k] = {} /\ \A o \in obs : o[2] # k
    <2>1. DomainOf[k] \in ds /\ MergedWith({k}, groups) \intersect AllKeys(ds) = {}
      BY <1>1, <1>3 DEF StartRebuild
    <2>2. k \notin AllKeys(ds)
      BY <2>1 DEF MergedWith
    <2>3. QED
      BY <1>1, <1>2, <2>1, <2>2, NotAllKeys
  <1>4. Sound(p, G, obs, rels, late2)
    BY <1>2, <1>3, LateSound
  <1>5. Now' = p /\ groups' = G /\ latest' = obs /\ asserted' = rels /\ behind' = late2
    BY <1>1 DEF StartRebuild, Now, projected, raw
  <1>6. QED
    BY <1>2, <1>4, <1>5 DEF Current

\* A batch, by groups that may have been edited since they were read: the
\* members of those that were are late again.
LEMMA BatchCurrent == ASSUME Inv, RunBatch PROVE Current'
  <1>1. PICK p, G, gs, obs, rels, late, late2, K :
          /\ p = Now /\ G = groups /\ gs = plan.groups /\ obs = latest /\ rels = asserted
          /\ late = behind /\ late2 = behind' /\ K = Head(plan.todo)
    OBVIOUS
  <1>2. /\ Parted(G) /\ Parted(gs) /\ Raw(obs, rels) /\ Sound(p, G, obs, rels, late) /\ Ended(p) /\ Held
        /\ p.entity = entity
    BY <1>1, PartedGroups DEF Inv, Held, Current, Now
  <1>3. /\ Rebuild(K, gs)
        /\ late2 = (late \ (K \union (MergedWith(K, gs) \ AllKeys(Domains))))
                     \union (AffectedKeys(K, gs \union G) \intersect Regrouped(gs, G))
        /\ UNCHANGED <<latest, asserted, groups>>
    BY <1>1 DEF RunBatch, raw
  <1>4. ASSUME NEW k \in Keys, k \in late, k \notin late2 \union K
        PROVE  p.entity[k] = {} /\ \A o \in obs : o[2] # k
    <2>1. k \notin AllKeys(Domains)
      BY <1>3, <1>4
    <2>2. DomainOf[k] \in Domains
      BY DEF Domains
    <2>3. QED
      BY <1>1, <1>2, <2>1, <2>2, NotAllKeys
  <1>5. Sound(p, G, obs, rels, late2 \union K)
    BY <1>2, <1>4, LateSound
  <1>6. ASSUME NEW m \in Keys \ late2, NEW h \in Touching(K, gs), m \in ToSet(h) PROVE h \in G
    <2>1. SUFFICES ASSUME h \notin G PROVE FALSE
      OBVIOUS
    <2>2. m \in Regrouped(gs, G)
      BY <1>6, <2>1 DEF Regrouped, Touching
    <2>3. m \in AffectedKeys(K, gs \union G)
      BY <1>6 DEF AffectedKeys, Touching
    <2>4. QED
      BY <1>3, <2>2, <2>3
  <1>7. ASSUME NEW m \in (Keys \cap K) \ late2, NEW h \in G, m \in ToSet(h) PROVE h \in gs
    <2>1. SUFFICES ASSUME h \notin gs PROVE FALSE
      OBVIOUS
    <2>2. m \in Regrouped(gs, G)
      BY <1>7, <2>1 DEF Regrouped
    <2>3. m \in AffectedKeys(K, gs \union G)
      BY DEF AffectedKeys
    <2>4. QED
      BY <1>3, <2>2, <2>3
  <1>8. PICK new : new = Rebuilt(p, K, gs, obs, rels)
    OBVIOUS
  <1>9. Sound(new, G, obs, rels, late2) /\ Ended(new)
    BY <1>2, <1>5, <1>6, <1>7, <1>8, RebuildSound
  <1>10. Now' = new /\ groups' = G /\ latest' = obs /\ asserted' = rels /\ behind' = late2
    BY <1>1, <1>3, <1>8, RebuildIs
  <1>11. QED
    BY <1>9, <1>10 DEF Current

-----------------------------------------------------------------------------
\* The invariant holds, and the properties follow from it.

LEMMA InitInv == Init => Inv
  <1> SUFFICES ASSUME Init PROVE Inv
    OBVIOUS
  <1>1. Nothing \in Content
    BY DEF Nothing, Content
  <1>2. Held
    BY <1>1, ConstantsAssumption DEF Init, Held, Raw, NoPlan
  <1>3. Now.entity = [k \in Keys |-> {}] /\ Now.related = {} /\ Now.linked = {}
    BY DEF Init, Now
  <1>4. latest = {} /\ asserted = {} /\ Visible(latest, asserted) = {}
    BY DEF Init, Visible
  <1>5. \A k \in Keys : Fed(Now, k, groups, latest)
    BY <1>3, <1>4 DEF Fed, Feeds
  <1>6. Ended(Now)
    BY <1>3 DEF Ended
  <1>7. Sound(Now, groups, latest, asserted, behind)
    BY <1>3, <1>4, <1>5 DEF Sound
  <1>8. QED
    BY <1>2, <1>6, <1>7 DEF Inv, Current

LEMMA StutterInv == ASSUME Inv, UNCHANGED vars PROVE Inv'
  <1>1. UNCHANGED <<committed, latest, history, asserted, retired, entity, related, linked,
                    groups, plan, recorded, behind, ops>>
    BY DEF vars, raw, projected
  <1>2. PICK p, G, obs, rels, late :
          p = Now /\ G = groups /\ obs = latest /\ rels = asserted /\ late = behind
    OBVIOUS
  <1>3. Now' = p /\ groups' = G /\ latest' = obs /\ asserted' = rels /\ behind' = late
    BY <1>1, <1>2 DEF Now
  <1>4. Current'
    BY <1>2, <1>3 DEF Inv, Current
  <1>5. Held'
    BY <1>1 DEF Inv, Held
  <1>6. QED
    BY <1>4, <1>5 DEF Inv

LEMMA StepInv == ASSUME ~RetireGrouped, RetractsItsOwn, Inv, Next PROVE Inv'
  <1>1. Held
    BY DEF Inv
  <1>2. ASSUME NEW d \in Docs, NEW c \in ContentsOf[d], Commit(d, c) \/ CommitDeferred(d, c) PROVE Inv'
    BY <1>1, <1>2, HeldCommit, CommitCurrent DEF Inv
  <1>3. ASSUME NEW d \in Docs, Retract(d) \/ Retire(d) \/ Restore(d) \/ Archive(d) PROVE Inv'
    BY <1>1, <1>3, HeldMove, MoveCurrent DEF Inv
  <1>4. ASSUME NEW gs \in GroupChoices, EditGroups(gs) PROVE Inv'
    BY <1>1, <1>4, HeldEdit, EditCurrent DEF Inv
  <1>5. ASSUME NEW g \in Proposals, Approve(g) PROVE Inv'
    BY <1>1, <1>5, HeldApprove, ApproveCurrent DEF Inv
  <1>6. ASSUME NEW kind \in {"domain", "all"}, NEW ds, StartRebuild(kind, ds) PROVE Inv'
    BY <1>1, <1>6, HeldStart, StartCurrent DEF Inv
  <1>7. CASE StartUnionRebuild \/ FailRebuild \/ FinishRebuild
    <2>1. UNCHANGED <<raw, projected, groups, behind>>
      BY <1>7 DEF StartUnionRebuild, FailRebuild, FinishRebuild
    <2>2. UNCHANGED <<latest, asserted, entity, related, linked, groups, behind>>
      BY <2>1 DEF raw, projected
    <2>3. PICK p, G, obs, rels, late :
            p = Now /\ G = groups /\ obs = latest /\ rels = asserted /\ late = behind
      OBVIOUS
    <2>4. Now' = p /\ groups' = G /\ latest' = obs /\ asserted' = rels /\ behind' = late
      BY <2>2, <2>3 DEF Now
    <2>5. Current'
      BY <2>3, <2>4 DEF Inv, Current
    <2>6. Held'
      BY <1>1, <1>7, HeldStartUnion, HeldEnd
    <2>7. QED
      BY <2>5, <2>6 DEF Inv
  <1>8. CASE RunBatch
    BY <1>1, <1>8, HeldBatch, BatchCurrent DEF Inv
  <1>9. QED
    BY <1>2, <1>3, <1>4, <1>5, <1>6, <1>7, <1>8 DEF Next

THEOREM Invariant == ASSUME ~RetireGrouped, RetractsItsOwn PROVE Spec => []Inv
  <1>1. Inv /\ [Next]_vars => Inv'
    BY StepInv, StutterInv
  <1>2. QED
    BY <1>1, InitInv, PTL DEF Spec

LEMMA SettledOnTime == ASSUME NEW k, Settled(k) PROVE k \notin behind
  BY DEF Settled, AffectedKeys

\* Whatever commits, retractions, retirements, archives, group edits and
\* batches came in whatever order, with rebuilds given up half way and started
\* with groups that were edited since, an entity no rebuild is owed to is made
\* of exactly the latest observations of its keys.
THEOREM EntitiesAlwaysMatch == ASSUME ~RetireGrouped, RetractsItsOwn PROVE Spec => []EntitiesMatch
  <1>1. Inv => EntitiesMatch
    <2> SUFFICES ASSUME Inv, NEW k \in Keys, Settled(k)
                 PROVE  \/ entity[k] = IF Unit(k) = k THEN Feeding(k) ELSE {}
                        \/ entity[k] = {} /\ InMerge(k) /\ ~ \E d \in Docs : <<d, k>> \in latest
      BY DEF EntitiesMatch
    <2>1. Fed(Now, k, groups, latest)
      BY SettledOnTime DEF Inv, Current, Sound
    <2>2. Now.entity = entity /\ Feeds(k, groups, latest) = Feeding(k) /\ UnitOf(k, groups) = Unit(k)
          /\ (Merges(k, groups) <=> InMerge(k))
      BY DEF Now, Feeds, Feeding, Unit, Merges, InMerge
    <2>3. QED
      BY <2>1, <2>2 DEF Fed
  <1>2. QED
    BY <1>1, Invariant, PTL

\* A relation in the graph between settled entities is asserted by the latest
\* observations of some document.
THEOREM EdgesAlwaysAsserted == ASSUME ~RetireGrouped, RetractsItsOwn PROVE Spec => []EdgesAsserted
  <1>1. Inv => EdgesAsserted
    <2> SUFFICES ASSUME Inv, NEW e \in related, Settled(e[1]), Settled(e[2])
                 PROVE  \E r \in Visible(latest, asserted) : Unit(r[2]) = e[1] /\ Unit(r[3]) = e[2]
      BY DEF EdgesAsserted
    <2>1. Backed(e, groups, latest, asserted)
      BY SettledOnTime DEF Inv, Current, Sound, Now
    <2>2. QED
      BY <2>1 DEF Backed, Unit
  <1>2. QED
    BY <1>1, Invariant, PTL

\* A relation the latest observations assert between settled entities that
\* are in no merge group is in the graph.
THEOREM AssertionsAlwaysDrawn == ASSUME ~RetireGrouped, RetractsItsOwn PROVE Spec => []AssertionsDrawn
  <1>1. Inv => AssertionsDrawn
    <2> SUFFICES ASSUME Inv, NEW r \in Visible(latest, asserted),
                        Settled(r[2]), Settled(r[3]), ~InMerge(r[2]), ~InMerge(r[3])
                 PROVE  <<r[2], r[3]>> \in related
      BY DEF AssertionsDrawn
    <2>1. r[2] \notin behind /\ r[3] \notin behind /\ ~Merges(r[2], groups) /\ ~Merges(r[3], groups)
      BY SettledOnTime DEF InMerge, Merges
    <2>2. <<r[2], r[3]>> \in Now.related
      BY <2>1 DEF Inv, Current, Sound
    <2>3. QED
      BY <2>2 DEF Now
  <1>2. QED
    BY <1>1, Invariant, PTL

\* SAME_AS joins, between settled entities, exactly the linked members of the
\* groups in force and their canonicals.
THEOREM LinksAlwaysMatch == ASSUME ~RetireGrouped, RetractsItsOwn PROVE Spec => []LinksMatch
  <1>1. Inv => LinksMatch
    <2> SUFFICES ASSUME Inv, NEW m \in Keys, NEW c \in Keys, m # c, Settled(m), Settled(c)
                 PROVE  {m, c} \in linked <=> {m, c} \in Links(groups) /\ entity[m] # {} /\ entity[c] # {}
      BY DEF LinksMatch
    <2>1. m \in Keys \ behind /\ c \in Keys \ behind
      BY SettledOnTime
    <2>2. {m, c} \in Now.linked <=> {m, c} \in Links(groups) /\ Now.entity[m] # {} /\ Now.entity[c] # {}
      BY <2>1 DEF Inv, Current, Sound
    <2>3. QED
      BY <2>2 DEF Now
  <1>2. QED
    BY <1>1, Invariant, PTL

-----------------------------------------------------------------------------
\* The batches of a rebuild.

\* Induction over the places of a sequence, for one set of them.
LEMMA EveryPlace ==
    ASSUME NEW n \in Nat, NEW S, 0 \in S, \A i \in 1..n : i - 1 \in S => i \in S
    PROVE  0..n \subseteq S
  <1> DEFINE R == OpToRel(<, Nat)
             T == (0..n) \ S
  <1> SUFFICES ASSUME T # {} PROVE FALSE
    OBVIOUS
  <1>1. \E i \in T : \A j \in T : <<j, i>> \notin R
    <2>1. T \subseteq Nat
      OBVIOUS
    <2> HIDE DEF R, T
    <2>2. QED
      BY <2>1, NatLessThanWellFounded, WFMin DEF R
  <1>2. PICK i \in T : \A j \in T : <<j, i>> \notin R
    BY <1>1
  <1>3. i \in 1..n /\ i - 1 \in 0..n
    OBVIOUS
  <1>4. i - 1 \in T
    BY <1>3
  <1>5. <<i - 1, i>> \in R
    <2>1. i - 1 < i /\ i - 1 \in Nat /\ i \in Nat
      BY <1>3
    <2>2. <<i - 1, i>> \in Nat \X Nat /\ <<i - 1, i>>[1] = i - 1 /\ <<i - 1, i>>[2] = i
      BY <2>1
    <2>3. QED
      BY <2>1, <2>2, Zenon DEF OpToRel
  <1>6. QED
    BY <1>2, <1>4, <1>5

\* One place of Filling.
Placed(i, keys, gs, batches) ==
  IF Leads(i, keys, gs) THEN Filled(batches, BatchUnit(KeyOrder[i], keys, gs)) ELSE batches

LEMMA FilledTyped ==
    ASSUME NEW S, NEW b \in Seq(SUBSET S), NEW u \in SUBSET S
    PROVE  Filled(b, u) \in Seq(SUBSET S)
  <1>1. CASE b # <<>> /\ Cardinality(b[Len(b)]) + Cardinality(u) <= BatchSize
    <2>1. Len(b) \in DOMAIN b
      BY <1>1
    <2>2. b[Len(b)] \union u \in SUBSET S
      BY <2>1
    <2>3. QED
      BY <1>1, <2>1, <2>2 DEF Filled
  <1>2. CASE ~(b # <<>> /\ Cardinality(b[Len(b)]) + Cardinality(u) <= BatchSize)
    BY <1>2 DEF Filled
  <1>3. QED
    BY <1>1, <1>2

LEMMA PlacedTyped ==
    ASSUME NEW keys, NEW gs, NEW i, NEW b \in Seq(SUBSET keys)
    PROVE  Placed(i, keys, gs, b) \in Seq(SUBSET keys)
  <1>1. BatchUnit(KeyOrder[i], keys, gs) \in SUBSET keys
    BY DEF BatchUnit
  <1>2. QED
    BY <1>1, FilledTyped DEF Placed

LEMMA OrderLen == Len(KeyOrder) \in Nat /\ DOMAIN KeyOrder = 1..Len(KeyOrder)
  BY ConstantsAssumption

\* The recursion is well defined, and its batches are sets of the keys.
LEMMA FillingIs ==
    ASSUME NEW keys, NEW gs
    PROVE  /\ Filling(keys, gs)[0] = <<>>
           /\ \A i \in 1..Len(KeyOrder) : Filling(keys, gs)[i] = Placed(i, keys, gs, Filling(keys, gs)[i - 1])
           /\ \A i \in 0..Len(KeyOrder) : Filling(keys, gs)[i] \in Seq(SUBSET keys)
  <1> DEFINE N == Len(KeyOrder)
             V == Seq(SUBSET keys)
             At(f, i) == IF i = 0 THEN <<>> ELSE Placed(i, keys, gs, f[i - 1])
             S == {n \in 0..N : \E f \in [0..n -> V] : \A i \in 0..n : f[i] = At(f, i)}
             F == Filling(keys, gs)
  <1>1. N \in Nat
    BY OrderLen
  <1>2. <<>> \in V
    OBVIOUS
  <1>3. 0 \in S
    <2> DEFINE g == [i \in 0..0 |-> <<>>]
    <2>1. g \in [0..0 -> V] /\ \A i \in 0..0 : g[i] = At(g, i)
      BY <1>2
    <2>2. \E f \in [0..0 -> V] : \A i \in 0..0 : f[i] = At(f, i)
      <3> HIDE DEF g, V, At
      <3> QED
        BY <2>1
    <2>3. QED
      BY <1>1, <2>2
  <1>4. ASSUME NEW n \in 1..N, n - 1 \in S PROVE n \in S
    <2>1. PICK f \in [0..(n - 1) -> V] : \A i \in 0..(n - 1) : f[i] = At(f, i)
      BY <1>4
    <2>2. n - 1 \in 0..(n - 1) /\ n \in Nat
      BY <1>1
    <2>3. PICK v : v = Placed(n, keys, gs, f[n - 1])
      OBVIOUS
    <2>4. v \in V
      BY <2>1, <2>2, <2>3, PlacedTyped
    <2> DEFINE g == [i \in 0..n |-> IF i = n THEN v ELSE f[i]]
    <2>5. g \in [0..n -> V]
      BY <2>1, <2>2, <2>4
    <2>6. \A i \in 0..(n - 1) : g[i] = f[i]
      BY <2>2
    <2>7. ASSUME NEW i \in 0..n PROVE g[i] = At(g, i)
      <3>1. CASE i = n
        BY <3>1, <2>2, <2>3, <2>6
      <3>2. CASE i # n
        <4>1. i \in 0..(n - 1) /\ (i # 0 => i - 1 \in 0..(n - 1))
          BY <3>2, <2>2
        <4>2. QED
          BY <4>1, <2>1, <2>6
      <3>3. QED
        BY <3>1, <3>2
    <2>8. \E h \in [0..n -> V] : \A i \in 0..n : h[i] = At(h, i)
      <3> HIDE DEF g, V, At
      <3> QED
        BY <2>5, <2>7
    <2>9. n \in 0..N
      BY <1>1
    <2>10. QED
      <3> HIDE DEF V, At, N
      <3> QED
        BY <2>8, <2>9
  <1>5. N \in S
    <2> HIDE DEF S, N
    <2>1. 0..N \subseteq S
      BY <1>1, <1>3, <1>4, EveryPlace
    <2>2. QED
      BY <1>1, <2>1
  <1>6. PICK f \in [0..N -> V] : \A i \in 0..N : f[i] = At(f, i)
    BY <1>5
  <1>7. f = [i \in 0..N |-> At(f, i)]
    BY <1>6
  <1>8. F = [i \in 0..N |-> At(F, i)]
    <2>1. F = CHOOSE fill : fill = [i \in 0..N |-> At(fill, i)]
      BY DEF Filling, Placed
    <2>2. QED
      BY <1>7, <2>1
  <1>9. /\ F[0] = <<>>
        /\ \A i \in 1..N : F[i] = Placed(i, keys, gs, F[i - 1])
    <2> HIDE DEF F
    <2>1. QED
      BY <1>1, <1>8
  <1>10. \A i \in 0..N : F[i] \in V
    <2> DEFINE T == {i \in 0..N : F[i] \in V}
    <2>1. 0 \in T
      BY <1>1, <1>2, <1>9
    <2>2. ASSUME NEW i \in 1..N, i - 1 \in T PROVE i \in T
      <3>1. PICK b : b = F[i - 1]
        OBVIOUS
      <3>2. b \in V
        BY <2>2, <3>1
      <3>3. Placed(i, keys, gs, b) \in V
        BY <3>2, PlacedTyped
      <3>4. F[i] = Placed(i, keys, gs, b) /\ i \in 0..N
        BY <1>1, <1>9, <3>1
      <3>5. QED
        BY <3>3, <3>4
    <2>3. 0..N \subseteq T
      <3> HIDE DEF T, N
      <3> QED
        BY <1>1, <2>1, <2>2, EveryPlace
    <2>4. QED
      BY <2>3
  <1>11. QED
    BY <1>9, <1>10

\* A key's unit is its group, or the key alone.
LEMMA UnitMembers ==
    ASSUME NEW keys, NEW gs, NEW k, NEW m
    PROVE  m \in BatchUnit(k, keys, gs) <=>
             m \in keys /\ (m = k \/ \E g \in gs : k \in ToSet(g) /\ m \in ToSet(g))
  BY DEF BatchUnit, AffectedKeys, Touching

LEMMA UnitShared ==
    ASSUME NEW keys, NEW gs, Parted(gs), NEW k \in keys, NEW m \in BatchUnit(k, keys, gs)
    PROVE  BatchUnit(m, keys, gs) = BatchUnit(k, keys, gs)
  <1>1. CASE m = k
    BY <1>1
  <1>2. CASE m # k
    <2>1. PICK g \in gs : k \in ToSet(g) /\ m \in ToSet(g)
      BY <1>2, UnitMembers
    <2>2. \A h \in gs : k \in ToSet(h) \/ m \in ToSet(h) => h = g
      BY <2>1 DEF Parted
    <2>3. ASSUME NEW n PROVE n \in BatchUnit(m, keys, gs) <=> n \in BatchUnit(k, keys, gs)
      BY <2>1, <2>2, UnitMembers
    <2>4. QED
      BY <2>3
  <1>3. QED
    BY <1>1, <1>2

\* A unit joins the last batch, or follows it.
Joined(f, b, u) ==
  \E l : /\ \A x \in DOMAIN b : x # l => f[x] = b[x]
         /\ DOMAIN f = DOMAIN b \union {l}
         /\ \/ /\ l \in DOMAIN b /\ f[l] = b[l] \union u
               /\ Cardinality(b[l]) + Cardinality(u) <= BatchSize
            \/ l \notin DOMAIN b /\ f[l] = u

LEMMA FilledIs ==
    ASSUME NEW S, NEW b \in Seq(SUBSET S), NEW u \in SUBSET S
    PROVE  Joined(Filled(b, u), b, u)
  <1>1. Len(b) \in Nat /\ DOMAIN b = 1..Len(b)
    OBVIOUS
  <1>2. CASE b # <<>> /\ Cardinality(b[Len(b)]) + Cardinality(u) <= BatchSize
    <2>1. Len(b) \in DOMAIN b
      BY <1>1, <1>2
    <2>2. Filled(b, u) = [b EXCEPT ![Len(b)] = b[Len(b)] \union u]
      BY <1>2 DEF Filled
    <2>3. QED
      BY <1>2, <2>1, <2>2 DEF Joined
  <1>3. CASE ~(b # <<>> /\ Cardinality(b[Len(b)]) + Cardinality(u) <= BatchSize)
    <2>1. Filled(b, u) = Append(b, u)
      BY <1>3 DEF Filled
    <2>2. /\ DOMAIN Append(b, u) = 1..(Len(b) + 1) /\ Append(b, u)[Len(b) + 1] = u
          /\ \A x \in 1..Len(b) : Append(b, u)[x] = b[x]
      BY <1>1
    <2>3. Len(b) + 1 \notin DOMAIN b /\ 1..(Len(b) + 1) = DOMAIN b \union {Len(b) + 1}
      BY <1>1
    <2>4. QED
      BY <1>1, <2>1, <2>2, <2>3 DEF Joined
  <1>4. QED
    BY <1>2, <1>3

\* What the batches are after place i.
Batched(b, i, keys, gs) ==
  /\ \A x, y \in DOMAIN b : x # y => b[x] \intersect b[y] = {}
  /\ \A x \in DOMAIN b : \A k \in b[x] :
       /\ BatchUnit(k, keys, gs) \subseteq b[x]
       /\ \E j \in 1..i : KeyOrder[j] \in BatchUnit(k, keys, gs)
  /\ \A j \in 1..i : KeyOrder[j] \in keys => \E x \in DOMAIN b : KeyOrder[j] \in b[x]
  /\ \A x \in DOMAIN b : Cardinality(b[x]) <= BatchSize \/ \E k \in keys : b[x] = BatchUnit(k, keys, gs)

LEMMA KeysFinite == IsFiniteSet(Keys)
  <1>1. Keys = {KeyOrder[i] : i \in 1..Len(KeyOrder)}
    BY ConstantsAssumption DEF ToSet
  <1>2. IsFiniteSet(1..Len(KeyOrder))
    BY OrderLen, FS_Interval
  <1> DEFINE f == [i \in 1..Len(KeyOrder) |-> KeyOrder[i]]
  <1>3. f \in Surjection(1..Len(KeyOrder), Keys)
    BY <1>1 DEF Surjection
  <1>4. QED
    BY <1>2, <1>3, FS_Surjection

LEMMA PlacedBatched ==
    ASSUME NEW keys \in SUBSET Keys, NEW gs, Parted(gs), NEW i \in 1..Len(KeyOrder),
           NEW b \in Seq(SUBSET keys), Batched(b, i - 1, keys, gs)
    PROVE  Batched(Placed(i, keys, gs, b), i, keys, gs)
  <1> DEFINE U(k) == BatchUnit(k, keys, gs)
             k0 == KeyOrder[i]
  <1>1. 1..i = (1..(i - 1)) \union {i} /\ i \notin 1..(i - 1)
    BY OrderLen
  <1>2. CASE ~Leads(i, keys, gs)
    <2>1. Placed(i, keys, gs, b) = b
      BY <1>2 DEF Placed
    <2>2. ASSUME k0 \in keys PROVE \E x \in DOMAIN b : k0 \in b[x]
      <3>1. PICK j \in 1..(i - 1) : KeyOrder[j] \in U(k0)
        BY <1>2, <2>2 DEF Leads
      <3>2. KeyOrder[j] \in keys
        BY <3>1, UnitMembers
      <3>3. PICK x \in DOMAIN b : KeyOrder[j] \in b[x]
        BY <3>1, <3>2 DEF Batched
      <3>4. U(KeyOrder[j]) \subseteq b[x]
        BY <3>3 DEF Batched
      <3>5. k0 \in U(KeyOrder[j])
        BY <2>2, <3>1, UnitMembers
      <3>6. QED
        BY <3>4, <3>5
    <2>3. QED
      BY <1>1, <2>1, <2>2 DEF Batched
  <1>3. CASE Leads(i, keys, gs)
    <2>1. PICK u : u = U(k0)
      OBVIOUS
    <2>2. k0 \in keys /\ k0 \in u /\ u \in SUBSET keys
      BY <1>3, <2>1, UnitMembers DEF Leads
    <2>3. \A m \in u : U(m) = u
      BY <2>1, <2>2, UnitShared
    <2>4. PICK f : f = Placed(i, keys, gs, b)
      OBVIOUS
    <2>5. f = Filled(b, u)
      BY <1>3, <2>1, <2>4 DEF Placed
    <2>6. PICK l : /\ \A x \in DOMAIN b : x # l => f[x] = b[x]
                   /\ DOMAIN f = DOMAIN b \union {l}
                   /\ \/ /\ l \in DOMAIN b /\ f[l] = b[l] \union u
                         /\ Cardinality(b[l]) + Cardinality(u) <= BatchSize
                      \/ l \notin DOMAIN b /\ f[l] = u
      <3>1. Joined(f, b, u)
        BY <2>2, <2>5, FilledIs
      <3>2. QED
        BY <3>1 DEF Joined
    <2>7. ASSUME NEW x \in DOMAIN b PROVE b[x] \intersect u = {}
      <3> SUFFICES ASSUME NEW m \in b[x] \intersect u PROVE FALSE
        OBVIOUS
      <3>1. PICK j \in 1..(i - 1) : KeyOrder[j] \in U(m)
        BY DEF Batched
      <3>2. KeyOrder[j] \in u
        BY <2>3, <3>1
      <3>3. QED
        BY <1>3, <2>1, <3>1, <3>2 DEF Leads
    <2>8. \A x, y \in DOMAIN f : x # y => f[x] \intersect f[y] = {}
      <3>1. \A x, y \in DOMAIN b : x # y => b[x] \intersect b[y] = {}
        BY DEF Batched
      <3>2. QED
        BY <2>6, <2>7, <3>1
    <2>9. ASSUME NEW x \in DOMAIN f, NEW k \in f[x]
          PROVE  U(k) \subseteq f[x] /\ \E j \in 1..i : KeyOrder[j] \in U(k)
      <3>1. CASE k \in u
        <4>1. x = l
          BY <2>6, <2>7, <3>1
        <4>2. QED
          BY <1>1, <2>2, <2>3, <2>6, <3>1, <4>1
      <3>2. CASE k \notin u
        <4>1. x \in DOMAIN b /\ k \in b[x] /\ b[x] \subseteq f[x]
          BY <2>6, <3>2
        <4>2. U(k) \subseteq b[x] /\ \E j \in 1..(i - 1) : KeyOrder[j] \in U(k)
          BY <4>1 DEF Batched
        <4>3. QED
          BY <1>1, <4>1, <4>2
      <3>3. QED
        BY <3>1, <3>2
    <2>10. ASSUME NEW j \in 1..i, KeyOrder[j] \in keys PROVE \E x \in DOMAIN f : KeyOrder[j] \in f[x]
      <3>1. CASE j = i
        BY <2>2, <2>6, <3>1
      <3>2. CASE j # i
        <4>1. PICK x \in DOMAIN b : KeyOrder[j] \in b[x]
          BY <1>1, <2>10, <3>2 DEF Batched
        <4>2. QED
          BY <2>6, <4>1
      <3>3. QED
        BY <3>1, <3>2
    <2>11. ASSUME NEW x \in DOMAIN f
           PROVE  Cardinality(f[x]) <= BatchSize \/ \E k \in keys : f[x] = U(k)
      <3>1. CASE x # l
        <4>1. x \in DOMAIN b /\ f[x] = b[x]
          BY <2>6, <3>1
        <4>2. QED
          BY <4>1 DEF Batched
      <3>2. CASE x = l /\ l \notin DOMAIN b
        BY <2>1, <2>2, <2>6, <3>2
      <3>3. CASE x = l /\ l \in DOMAIN b
        <4>1. f[x] = b[l] \union u /\ Cardinality(b[l]) + Cardinality(u) <= BatchSize
          BY <2>6, <3>3
        <4>2. b[l] \subseteq Keys /\ u \subseteq Keys
          BY <2>2, <3>3
        <4>3. IsFiniteSet(b[l]) /\ IsFiniteSet(u)
          BY <4>2, KeysFinite, FS_Subset
        <4>4. /\ Cardinality(b[l] \union u) = Cardinality(b[l]) + Cardinality(u) - Cardinality(b[l] \intersect u)
              /\ Cardinality(b[l]) \in Nat /\ Cardinality(u) \in Nat
          BY <4>3, FS_Union, FS_CardinalityType
        <4>5. b[l] \intersect u = {} /\ Cardinality({}) = 0
          BY <2>7, <3>3, FS_EmptySet
        <4>6. Cardinality(b[l] \intersect u) = 0
          BY ONLY <4>5
        <4>7. Cardinality(b[l] \union u) = Cardinality(b[l]) + Cardinality(u)
          <5> DEFINE c == Cardinality(b[l] \union u)
                     n == Cardinality(b[l] \intersect u)
          <5>1. c = Cardinality(b[l]) + Cardinality(u) - n /\ n = 0
            BY <4>4, <4>6
          <5> HIDE DEF c, n
          <5>2. c = Cardinality(b[l]) + Cardinality(u)
            BY <4>4, <5>1
          <5>3. QED
            BY <5>2 DEF c
        <4>8. Cardinality(f[x]) <= BatchSize
          BY <4>1, <4>7, Zenon
        <4>9. QED
          BY <4>8
      <3>4. QED
        BY <3>1, <3>2, <3>3
    <2>12. QED
      BY <2>4, <2>8, <2>9, <2>10, <2>11 DEF Batched
  <1>4. QED
    BY <1>2, <1>3

\* What batches of keys are to be.
Partition(b, keys, gs) ==
  /\ b \in Seq(SUBSET keys)
  /\ UNION {b[x] : x \in DOMAIN b} = keys
  /\ \A x, y \in DOMAIN b : x # y => b[x] \intersect b[y] = {}
  /\ \A x \in DOMAIN b : \A g \in gs :
       ToSet(g) \intersect b[x] # {} => ToSet(g) \intersect keys \subseteq b[x]
  /\ \A x \in DOMAIN b :
       Cardinality(b[x]) <= BatchSize \/ \E k \in keys : b[x] = BatchUnit(k, keys, gs)

\* The batches of a rebuild share no key and leave none out, split no group,
\* and are within the batch size but where one group is not.
THEOREM BatchesPartition ==
    ASSUME NEW keys \in SUBSET Keys, NEW gs, Parted(gs)
    PROVE  Partition(BatchKeys(keys, gs), keys, gs)
  <1> DEFINE N == Len(KeyOrder)
             F == Filling(keys, gs)
             S == {i \in 0..N : Batched(F[i], i, keys, gs)}
  <1>1. N \in Nat /\ DOMAIN KeyOrder = 1..N
    BY OrderLen
  <1>2. F[0] = <<>> /\ \A i \in 0..N : F[i] \in Seq(SUBSET keys)
    BY FillingIs
  <1>3. 0 \in S
    <2>1. DOMAIN F[0] = {}
      BY <1>2
    <2>2. 1..0 = {}
      OBVIOUS
    <2>3. QED
      BY <1>1, <2>1, <2>2 DEF Batched
  <1>4. ASSUME NEW i \in 1..N, i - 1 \in S PROVE i \in S
    <2>1. PICK b : b = F[i - 1]
      OBVIOUS
    <2>2. i - 1 \in 0..N /\ i \in 0..N
      BY <1>1
    <2>3. b \in Seq(SUBSET keys) /\ Batched(b, i - 1, keys, gs)
      BY <1>2, <1>4, <2>1, <2>2
    <2>4. F[i] = Placed(i, keys, gs, b)
      BY <2>1, FillingIs
    <2>5. Batched(Placed(i, keys, gs, b), i, keys, gs)
      BY <2>3, PlacedBatched
    <2>6. QED
      BY <2>2, <2>4, <2>5
  <1>5. N \in S
    <2> HIDE DEF S, N
    <2>1. 0..N \subseteq S
      BY <1>1, <1>3, <1>4, EveryPlace
    <2>2. QED
      BY <1>1, <2>1
  <1>6. PICK b : b = BatchKeys(keys, gs)
    OBVIOUS
  <1>7. b \in Seq(SUBSET keys) /\ Batched(b, N, keys, gs)
    BY <1>1, <1>2, <1>5, <1>6 DEF BatchKeys
  <1>8. UNION {b[x] : x \in DOMAIN b} = keys
    <2>1. ASSUME NEW k \in keys PROVE \E x \in DOMAIN b : k \in b[x]
      <3>1. PICK j \in 1..N : KeyOrder[j] = k
        BY <1>1, ConstantsAssumption DEF ToSet
      <3>2. QED
        BY <1>7, <3>1 DEF Batched
    <2>2. \A x \in DOMAIN b : b[x] \subseteq keys
      BY <1>7
    <2>3. QED
      BY <2>1, <2>2
  <1>9. ASSUME NEW x \in DOMAIN b, NEW g \in gs, ToSet(g) \intersect b[x] # {}
        PROVE  ToSet(g) \intersect keys \subseteq b[x]
    <2>1. PICK k \in b[x] : k \in ToSet(g)
      BY <1>9
    <2>2. BatchUnit(k, keys, gs) \subseteq b[x]
      BY <1>7 DEF Batched
    <2>3. ToSet(g) \intersect keys \subseteq BatchUnit(k, keys, gs)
      BY <2>1, UnitMembers
    <2>4. QED
      BY <2>2, <2>3
  <1>10. QED
    BY <1>6, <1>7, <1>8, <1>9 DEF Batched, Partition

-----------------------------------------------------------------------------
\* The types of edges, links and batches, which assume nothing of the contents.

Typed ==
  /\ Held
  /\ related \subseteq Keys \X Keys /\ linked \subseteq SUBSET Keys
  /\ plan.todo \in Seq(SUBSET Keys)

LEMMA RebuildEnds ==
    ASSUME Typed, NEW K, NEW gs, Parted(gs), Raw(latest', asserted'), Rebuild(K, gs)
    PROVE  related' \subseteq Keys \X Keys /\ linked' \subseteq SUBSET Keys
  <1>1. PICK p, obs, rels : p = Now /\ obs = latest' /\ rels = asserted'
    OBVIOUS
  <1>2. PICK near, new : near = Touching(K, gs) /\ new = Rebuilt(p, K, gs, obs, rels)
    OBVIOUS
  <1>3. Leaves(new, p, K, near, obs, rels)
    BY <1>1, <1>2, RebuiltIs
  <1>4. related' = new.related /\ linked' = new.linked
    BY <1>1, <1>2 DEF Rebuild, Now
  <1>5. Parted(near)
    BY <1>2, TouchingParted
  <1>6. ASSUME NEW e \in new.related PROVE e \in Keys \X Keys
    <2>1. CASE Old(e, p, K)
      BY <1>1, <2>1 DEF Old, Typed, Now
    <2>2. CASE ~Old(e, p, K)
      <3>1. PICK r \in Visible(obs, rels) : e = <<UnitOf(r[2], near), UnitOf(r[3], near)>>
        BY <1>3, <2>2 DEF Leaves
      <3>2. r[2] \in Keys /\ r[3] \in Keys
        BY <1>1, <3>1 DEF Visible, Raw
      <3>3. QED
        BY <1>5, <3>1, <3>2, UnitIsKey
    <2>3. QED
      BY <2>1, <2>2
  <1>7. ASSUME NEW l \in new.linked PROVE l \subseteq Keys
    <2>1. l \in p.linked \/ l \in Links(near)
      BY <1>3 DEF Leaves
    <2>2. CASE l \in p.linked
      BY <1>1, <2>2 DEF Typed, Now
    <2>3. CASE l \in Links(near)
      <3>1. PICK g \in near : \E k \in ToSet(g) : l = {k, g[1]}
        BY <2>3 DEF Links
      <3>2. QED
        BY <1>5, <3>1, Canonical DEF Parted
    <2>4. QED
      BY <2>1, <2>2, <2>3
  <1>8. QED
    BY <1>4, <1>6, <1>7

\* What each step does to the edges and links.
LEMMA TypedEnds == ASSUME Typed, Held', Next PROVE related' \subseteq Keys \X Keys /\ linked' \subseteq SUBSET Keys
  <1>1. Parted(groups) /\ Parted(plan.groups)
    BY PartedGroups DEF Typed
  <1>2. Parted(groups') /\ Raw(latest', asserted')
    BY ChoiceParted DEF Held
  <1>3. (\E K, gs : Parted(gs) /\ Rebuild(K, gs)) \/ UNCHANGED <<related, linked>>
    BY <1>1, <1>2 DEF Next, Commit, CommitDeferred, Retract, Retire, Restore, Archive, RebuildOwn, EditGroups,
       Approve, StartRebuild, StartUnionRebuild, RunBatch, FailRebuild, FinishRebuild, projected
  <1>4. QED
    BY <1>2, <1>3, RebuildEnds DEF Typed

\* What each step does to the batches.
LEMMA TypedBatches == ASSUME Typed, Next PROVE plan'.todo \in Seq(SUBSET Keys)
  <1>1. Parted(groups) /\ behind \subseteq Keys /\ DOMAIN plan = {"todo", "groups", "kind"}
    BY PartedGroups DEF Typed, Held
  <1>2. \/ UNCHANGED plan
        \/ plan' = NoPlan
        \/ \E keys \in SUBSET Keys : plan'.todo = BatchKeys(keys, groups)
        \/ RunBatch
    <2>1. ASSUME NEW kind, NEW ds, StartRebuild(kind, ds)
          PROVE  \E keys \in SUBSET Keys : plan'.todo = BatchKeys(keys, groups)
      <3>1. AllKeys(ds) \subseteq Keys
        BY DEF AllKeys
      <3>2. plan'.todo = BatchKeys(AllKeys(ds), groups)
        BY <2>1 DEF StartRebuild
      <3>3. QED
        BY <3>1, <3>2
    <2>2. ASSUME StartUnionRebuild
          PROVE  \E keys \in SUBSET Keys : plan'.todo = BatchKeys(keys, groups)
      <3>1. AffectedKeys(behind, groups) \subseteq Keys
        BY <1>1, AffectedSealed
      <3>2. plan'.todo = BatchKeys(AffectedKeys(behind, groups), groups)
        BY <2>2 DEF StartUnionRebuild
      <3>3. QED
        BY <3>1, <3>2
    <2>3. QED
      BY <2>1, <2>2 DEF Next, Commit, CommitDeferred, Retract, Retire, Restore, Archive, EditGroups,
         Approve, FailRebuild, FinishRebuild
  <1>3. CASE UNCHANGED plan
    BY <1>3 DEF Typed
  <1>4. CASE plan' = NoPlan
    BY <1>4 DEF NoPlan
  <1>5. CASE \E keys \in SUBSET Keys : plan'.todo = BatchKeys(keys, groups)
    <2>1. PICK keys \in SUBSET Keys : plan'.todo = BatchKeys(keys, groups)
      BY <1>5
    <2>2. BatchKeys(keys, groups) \in Seq(SUBSET keys)
      BY <1>1, BatchesPartition DEF Partition
    <2>3. QED
      BY <2>1, <2>2
  <1>6. CASE RunBatch
    BY <1>1, <1>6 DEF RunBatch, Typed
  <1>7. QED
    BY <1>2, <1>3, <1>4, <1>5, <1>6

LEMMA TypedStep == ASSUME Typed, [Next]_vars PROVE Typed'
  <1>1. CASE Next
    <2>1. Held
      BY DEF Typed
    <2>2. Held'
      BY <1>1, <2>1, HeldCommit, HeldMove, HeldEdit, HeldApprove, HeldStart, HeldStartUnion, HeldBatch, HeldEnd DEF Next
    <2>3. QED
      BY <1>1, <2>2, TypedEnds, TypedBatches DEF Typed
  <1>2. CASE UNCHANGED vars
    BY <1>2 DEF vars, raw, projected, Typed, Held
  <1>3. QED
    BY <1>1, <1>2

LEMMA TypedInit == Init => Typed
  <1> SUFFICES ASSUME Init PROVE Typed
    OBVIOUS
  <1>1. Held
    BY InitInv DEF Inv
  <1>2. plan.todo = <<>> /\ related = {} /\ linked = {}
    BY DEF Init, NoPlan
  <1>3. QED
    BY <1>1, <1>2 DEF Typed

LEMMA AlwaysTyped == Spec => []Typed
  <1>1. QED
    BY TypedInit, TypedStep, PTL DEF Spec

\* Every variable keeps its type, a document that is latest is nowhere in
\* history, and the batches of a rebuild are sets of keys, for all contents.
THEOREM TypeCorrect == Spec => []TypeOK
  <1>1. Typed => TypeOK
    <2> SUFFICES ASSUME Typed PROVE TypeOK
      OBVIOUS
    <2>1. \A i \in DOMAIN plan.todo : plan.todo[i] \subseteq Keys
      BY DEF Typed
    <2>2. QED
      BY <2>1 DEF Typed, Held, Raw, TypeOK
  <1>2. QED
    BY <1>1, AlwaysTyped, PTL
=============================================================================
