-------------------------- MODULE MCMessageConsumer --------------------------
(* An instance of MessageConsumer for TLC: two partitions of one topic, for   *)
(* which the application has a method for messages and, when a create hook    *)
(* adds a component, one for batches, which is found later.                   *)
EXTENDS MessageConsumer

CONSTANTS p1, p2, orders, each, whole, label, root, feature, C1, C2

MCTopic == [x \in Partition \cup {each, whole} |-> orders]
MCRequires == [m \in Mod |-> IF m = root THEN <<feature>> ELSE <<>>]
MCComponents == [m \in Mod |-> IF m = feature THEN <<C1>> ELSE <<>>]
MCDynamic == {[m \in Mod |-> <<>>], [m \in Mod |-> IF m = feature THEN <<C2>> ELSE <<>>]}
MCControllerLabels == [c \in {C1, C2} |-> {label}]
MCMethods == [c \in {C1, C2} |-> IF c = C1 THEN <<each>> ELSE <<whole>>]
==============================================================================
