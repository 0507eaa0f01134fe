----------------------------- MODULE MCContainer -----------------------------
(* An instance of Container for TLC: programs over three ids in which a class *)
(* idA depends on idB and idC, with cyclic, incomplete and aliased ones.      *)
EXTENDS Container, TLC

CONSTANTS idA, idB, idC

P(id, optional, transform) == [id |-> id, optional |-> optional, transform |-> transform]
Class(scope, params) == [type |-> "INSTANCE", scope |-> scope, params |-> params, gap |-> FALSE]
Constant == [type |-> "CONSTANT"]
AliasOf(id) == [type |-> "ALIAS", to |-> id]

Programs(X, Y, Z) ==
  {[i \in Id |-> CASE i = idA -> x [] i = idB -> y [] i = idC -> z] : x \in X, y \in Y, z \in Z}

MCProgram ==
  Programs({Class("SINGLETON", <<P(idB, FALSE, TRUE), P(idC, FALSE, FALSE)>>)},
           {AliasOf(idC), Class("SINGLETON", <<P(idC, FALSE, FALSE)>>),
            Class("TRANSIENT", <<P(idC, TRUE, FALSE)>>)},
           {Class("SESSION", <<>>), Class("SESSION", <<P(idA, FALSE, FALSE)>>), AliasOf(idB)})
  \cup
  Programs({Class("SESSION", <<P(idB, TRUE, FALSE), P(idC, FALSE, FALSE)>>)},
           {None, Class("SESSION", <<P(idC, TRUE, TRUE)>>)},
           {None, Constant, Class("SESSION", <<P(idA, FALSE, FALSE)>>)})
  \cup
  Programs({Class("SESSION", <<P(idC, TRUE, FALSE), P(idB, FALSE, FALSE), P(idC, TRUE, FALSE)>>)},
           {None}, {None, Constant})
  \cup
  Programs({[Class("SESSION", <<P(idC, FALSE, FALSE)>>) EXCEPT !.gap = TRUE]}, {None}, {Constant})

MCParents == [i \in Id |-> IF i = idA THEN <<idB>> ELSE <<>>]
MCProxyParams == <<P(idA, FALSE, FALSE), P(idC, TRUE, FALSE)>>

Sessions == Permutations(ResolveSession)
==============================================================================
