--------------------------- MODULE MCProjection ---------------------------
EXTENDS Projection

CONSTANTS a, b, c, l, d1, d2, u1, D1, D2

MCKeys == {a, b, c, l}
MCKeyOrder == <<a, b, c, l>>
MCDomainOf == [k \in MCKeys |-> IF k = l THEN D2 ELSE D1]
MCClassOf == [k \in MCKeys |-> "X"]
Says(keys, rels) == [keys |-> keys, rels |-> rels, retracts |-> {}, unrelates |-> {}]
MCContentsOf ==
  [d \in {d1, d2, u1} |->
     CASE d = d1 -> {Says({a, b}, {<<a, b>>}), Says({a, b}, {})}
       [] d = d2 -> {Says({b}, {}), Says({a, c}, {<<a, c>>}), Says({l}, {})}
       [] d = u1 -> {[keys |-> {b}, rels |-> {}, retracts |-> {<<d1, b>>}, unrelates |-> {<<d1, a, b>>}]}]
\* An update about another key that retracts a relation of d1's.
UnrelatedContentsOf ==
  [d \in {d1, d2, u1} |->
     IF d = u1 THEN {[keys |-> {c}, rels |-> {}, retracts |-> {}, unrelates |-> {<<d1, a, b>>}]}
               ELSE MCContentsOf[d]]
MCGroupChoices == {{}, {<<c, b>>}, {<<c, b, l>>}, {<<a, l>>}}
MCProposals == {<<c, b>>, <<a, l>>}
=============================================================================
