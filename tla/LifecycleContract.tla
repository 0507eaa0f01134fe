-------------------------- MODULE LifecycleContract --------------------------
(***************************************************************************)
(* What the framework promises about the graph of modules: a module is     *)
(* created after the modules it requires, nothing starts before everything *)
(* is created, a module starts after the modules it requires, and it is    *)
(* destroyed after the modules that require it.  When a creation fails the *)
(* order of destruction is no longer promised.                             *)
(***************************************************************************)
CONSTANTS Module, Requires   \* Requires[m]: the set of modules m requires

VARIABLES created, broken, started, destroyed

vars == <<created, broken, started, destroyed>>

Init == created = {} /\ broken = {} /\ started = {} /\ destroyed = {}

Create(m) ==
  /\ m \notin created \cup broken
  /\ Requires[m] \subseteq created
  /\ created' = created \cup {m}
  /\ UNCHANGED <<broken, started, destroyed>>

Break(m) ==
  /\ m \notin created \cup broken
  /\ Requires[m] \subseteq created
  /\ broken' = broken \cup {m}
  /\ UNCHANGED <<created, started, destroyed>>

Start(m) ==
  /\ created = Module
  /\ m \notin started \cup destroyed
  /\ Requires[m] \subseteq started
  /\ started' = started \cup {m}
  /\ UNCHANGED <<created, broken, destroyed>>

Destroy(m) ==
  /\ m \notin destroyed
  /\ broken # {} \/ created = Module
  /\ broken = {} => \A p \in Module : m \in Requires[p] => p \in destroyed
  /\ destroyed' = destroyed \cup {m}
  /\ UNCHANGED <<created, broken, started>>

Next == \E m \in Module : Create(m) \/ Break(m) \/ Start(m) \/ Destroy(m)

Spec == Init /\ [][Next]_vars
==============================================================================
