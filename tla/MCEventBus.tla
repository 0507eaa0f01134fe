----------------------------- MODULE MCEventBus -----------------------------
(* An instance of EventBus for TLC: two events on one channel.  Of the      *)
(* subscribers one has a middleware, one listens to another channel, one     *)
(* belongs to a controller without the label and one to a module that the    *)
(* entry module does not reach; a module is required on two ways.            *)
EXTENDS EventBus

CONSTANTS e1, e2, guarded, bare, other, unlabelled, apart, orders, context, label,
          root, feature, shared, remote, C1, C2, C3, C4, service

MCCall == Event \X Subscriber
MCChannel == [x \in Event \cup Subscriber |-> IF x = other THEN other ELSE orders]

MCRequires ==
  [m \in Mod |-> CASE m = root -> <<shared, feature>>
                   [] m \in {feature, remote} -> <<shared>>
                   [] OTHER -> <<>>]
MCComponents ==
  [m \in Mod |-> CASE m = root -> <<C3>>
                   [] m = feature -> <<service, C1>>
                   [] m = shared -> <<C2>>
                   [] m = remote -> <<C4>>]
MCControllerLabels == [c \in {C1, C2, C3, C4} |-> IF c = C3 THEN {} ELSE {label}]
MCMethods ==
  [c \in {C1, C2, C3, C4} |-> CASE c = C1 -> <<guarded, other>>
                                [] c = C2 -> <<bare>>
                                [] c = C3 -> <<unlabelled>>
                                [] c = C4 -> <<apart>>]

Lvl(needs, provides) == [needs |-> needs, provides |-> provides]
MCChains ==
  [c \in Call |-> IF c[2] = guarded THEN {<<Lvl({}, {}), Lvl({context}, {})>>}
                  ELSE {<<Lvl({context}, {})>>}]
=============================================================================
