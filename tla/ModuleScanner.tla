---------------------------- MODULE ModuleScanner ----------------------------
(***************************************************************************)
(* packages/core/src/module-scanner.ts and utils/match-labels.ts: how the  *)
(* modules that serve requests, events or messages find the annotated      *)
(* methods of an application.  EventBus, HttpServer and MessageConsumer    *)
(* extend it.  The annotations themselves are constants: decorators have   *)
(* put them there when the program was loaded.                             *)
(***************************************************************************)
EXTENDS Naturals, Sequences, SequencesExt, FiniteSets

CONSTANTS
  Mod,              \* modules
  Entry,            \* the entry module
  Requires,         \* Requires[m]: metadata.requires
  Components,       \* Components[m]: metadata.components
  ControllerLabels, \* the labels of the components that are controllers
  Required,         \* option.matchLabels
  Methods           \* Methods[c]: the annotated methods of controller c

ASSUME ScannerAssumption ==
  /\ IsFiniteSet(Mod) /\ Entry \in Mod /\ Requires \in [Mod -> Seq(Mod)]
  /\ \A m \in Mod : Components[m] \in Seq(ToSet(Components[m]))
  /\ \A c \in DOMAIN ControllerLabels : Methods[c] \in Seq(ToSet(Methods[c]))

(* The modules that m requires and that are not visited.                   *)
Unvisited(m, visited) ==
  FlattenSeq([k \in DOMAIN Requires[m] |->
                IF Requires[m][k] \in visited THEN <<>> ELSE <<Requires[m][k]>>])

(* scanModule() holds a stack of modules, perhaps one twice, and a set of  *)
(* visited ones.  One turn of its loop pops a module: what is on the stack *)
(* and visited after it, and for what the turn calls back.                 *)
Turn(queue, visited) ==
  LET m == Last(queue)
  IN  IF m \in visited THEN <<Front(queue), visited>>
      ELSE <<Front(queue) \o Unvisited(m, visited), visited \cup {m}>>

Called(queue, visited) == IF Last(queue) \in visited THEN <<>> ELSE <<Last(queue)>>

(* The modules for which the loop calls back from there on.                *)
Visiting[at \in Seq(Mod) \X SUBSET Mod] ==
  IF at[1] = <<>> THEN <<>>
  ELSE Called(at[1], at[2]) \o Visiting[Turn(at[1], at[2])]

(* The modules in the order in which scanModule() calls back for them.     *)
ScanModule == Visiting[<< <<Entry>>, {} >>]

(* matchLabels(): every label asked for is there.                          *)
MatchLabels(labels) == Required \subseteq labels

IsMatching(c) == c \in DOMAIN ControllerLabels /\ MatchLabels(ControllerLabels[c])

(* The annotated methods of the matching controllers among the components  *)
(* of the modules, in the order of the scan.                               *)
Found(components) ==
  FlattenSeq([i \in DOMAIN ScanModule |->
    FlattenSeq([k \in DOMAIN components[ScanModule[i]] |->
                  LET c == components[ScanModule[i]][k]
                  IN  IF IsMatching(c) THEN Methods[c] ELSE <<>>])])

-----------------------------------------------------------------------------
(* For the properties: what a reader of the annotations expects, whatever  *)
(* the scan does.                                                          *)

Reachable ==
  {m \in Mod : \A S \in SUBSET Mod :
     Entry \in S /\ (\A x \in S : ToSet(Requires[x]) \subseteq S) => m \in S}

Expected(components) ==
  UNION {ToSet(Methods[c]) : c \in {d \in UNION {ToSet(components[m]) : m \in Reachable} :
                                      IsMatching(d)}}

(* The scan misses no such method and finds no other: the decisions of the *)
(* programs that route by it rest on this.                                 *)
ScanIsComplete(components) == ToSet(Found(components)) = Expected(components)
==============================================================================
