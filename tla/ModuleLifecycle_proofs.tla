------------------------ MODULE ModuleLifecycle_proofs ------------------------
(***************************************************************************)
(* Theorems about ModuleLifecycle for every graph of modules, every number *)
(* of hooks and every choice of hooks that reject.                         *)
(***************************************************************************)
EXTENDS ModuleLifecycle, TLAPS, FiniteSetTheorems, SequenceTheorems

-----------------------------------------------------------------------------
(* Sequences and the sets of references.                                   *)

(* The last element of a non-empty sequence, and what is left without it.  *)
LEMMA FrontLast ==
  ASSUME NEW S, NEW s \in Seq(S), s # <<>>
  PROVE  /\ Len(s) \in Nat \ {0}
         /\ Last(s) = s[Len(s)] /\ Last(s) \in S
         /\ Front(s) \in Seq(S) /\ Len(Front(s)) = Len(s) - 1
         /\ \A i \in 1 .. Len(s) - 1 : Front(s)[i] = s[i]
  <1>1. Len(s) \in Nat \ {0}
    BY EmptySeq
  <1>2. \A i \in 1 .. Len(s) : s[i] \in S
    BY ElementOfSeq
  <1>3. Last(s) = s[Len(s)] /\ Last(s) \in S
    BY <1>1, <1>2 DEF Last
  <1> DEFINE n == Len(s) - 1
             t == SubSeq(s, 1, n)
  <1>4. n \in Nat /\ \A i \in 1 .. n : s[i] \in S
    BY <1>1, <1>2
  <1> HIDE DEF n
  <1>5. /\ t \in Seq(S)
        /\ Len(t) = IF 1 <= n THEN n - 1 + 1 ELSE 0
        /\ \A i \in 1 .. n - 1 + 1 : t[i] = s[1 + i - 1]
    BY <1>4, SubSeqProperties
  <1>6. Len(t) = n /\ \A i \in 1 .. n : t[i] = s[i]
    BY <1>4, <1>5
  <1>7. Front(s) = t
    BY DEF Front, n
  <1> QED
    BY <1>1, <1>3, <1>5, <1>6, <1>7 DEF n

(* The caller's frame is the same but for the place it has reached.        *)
LEMMA AdvancedFrames ==
  ASSUME NEW fs \in Seq(Frames), fs # <<>>
  PROVE  /\ Advanced(fs) \in Seq(Frames) /\ Len(Advanced(fs)) = Len(fs)
         /\ \A i \in 1 .. Len(fs) - 1 : Advanced(fs)[i] = fs[i]
         /\ Advanced(fs)[Len(fs)] = [fs[Len(fs)] EXCEPT !.next = fs[Len(fs)].next + 1]
  <1> DEFINE e == [Last(fs) EXCEPT !.next = Last(fs).next + 1]
  <1>1. /\ Last(fs) \in Frames /\ Last(fs) = fs[Len(fs)] /\ Len(fs) \in Nat \ {0}
        /\ Front(fs) \in Seq(Frames) /\ Len(Front(fs)) = Len(fs) - 1
        /\ \A i \in 1 .. Len(fs) - 1 : Front(fs)[i] = fs[i]
    BY FrontLast
  <1>2. e \in Frames
    BY <1>1 DEF Frames
  <1>3. Advanced(fs) = Append(Front(fs), e)
    BY DEF Advanced
  <1> HIDE DEF e
  <1>4. /\ Append(Front(fs), e) \in Seq(Frames)
        /\ Len(Append(Front(fs), e)) = Len(Front(fs)) + 1
        /\ \A i \in 1 .. Len(Front(fs)) : Append(Front(fs), e)[i] = Front(fs)[i]
        /\ Append(Front(fs), e)[Len(Front(fs)) + 1] = e
    BY <1>1, <1>2, AppendProperties
  <1>5. Advanced(fs)[Len(fs)] = e
    BY <1>1, <1>3, <1>4
  <1>6. \A i \in 1 .. Len(fs) - 1 : Advanced(fs)[i] = fs[i]
    BY <1>1, <1>3, <1>4
  <1> QED
    BY <1>1, <1>3, <1>4, <1>5, <1>6 DEF e

(* A finite graph has finitely many references to a module.                *)
LEMMA ReferencesFinite ==
  ASSUME NEW d \in Module, deps \in [Module -> Seq(Module)]
  PROVE  IsFiniteSet(References(d))
  <1> DEFINE PlacesIn(m) == {m} \X {i \in 1 .. Len(deps[m]) : deps[m][i] = d}
             f == [m \in Module |-> PlacesIn(m)]
             T == {PlacesIn(m) : m \in Module}
  <1>1. \A m \in Module : IsFiniteSet(PlacesIn(m))
    <2>1. SUFFICES ASSUME NEW m \in Module PROVE IsFiniteSet(PlacesIn(m))
      OBVIOUS
    <2>2. IsFiniteSet(1 .. Len(deps[m]))
      BY LenProperties, FS_Interval
    <2>3. IsFiniteSet({i \in 1 .. Len(deps[m]) : deps[m][i] = d})
      BY <2>2, FS_Subset
    <2> QED
      BY <2>3, FS_Singleton, FS_Product
  <1>2. f \in Surjection(Module, T)
    BY DEF Surjection
  <1>3. IsFiniteSet(T)
    BY <1>2, FS_Surjection, ModuleAssumption
  <1>4. IsFiniteSet(UNION T)
    BY <1>1, <1>3, FS_UNION
  <1> QED
    BY <1>4 DEF References

(* A reference is a module and a place of its remaining list.              *)
LEMMA ReferenceDef ==
  ASSUME NEW d, NEW e
  PROVE  e \in References(d) <=>
           \E m \in Module : \E i \in 1 .. Len(deps[m]) : e = <<m, i>> /\ deps[m][i] = d
  BY DEF References

(* Taking the last dependency of m off its list takes one reference off    *)
(* the module it names.                                                    *)
LEMMA ReferencesPopped ==
  ASSUME deps \in [Module -> Seq(Module)], NEW m \in Module, deps[m] # <<>>,
         deps' = [deps EXCEPT ![m] = Front(@)], NEW d \in Module
  PROVE  /\ References(d)' = References(d) \ {<<m, Len(deps[m])>>}
         /\ <<m, Len(deps[m])>> \in References(d) <=> d = Last(deps[m])
  <1> DEFINE n == Len(deps[m])
  <1>1. /\ n \in Nat \ {0} /\ Last(deps[m]) = deps[m][n]
        /\ Len(Front(deps[m])) = n - 1
        /\ \A i \in 1 .. n - 1 : Front(deps[m])[i] = deps[m][i]
    BY FrontLast
  <1>2. /\ Len(deps'[m]) = n - 1
        /\ \A i \in 1 .. n - 1 : deps'[m][i] = deps[m][i]
        /\ \A x \in Module \ {m} : deps'[x] = deps[x]
    BY <1>1
  <1> HIDE DEF n
  <1>3. <<m, n>> \in References(d) <=> d = Last(deps[m])
    BY <1>1, ReferenceDef DEF n
  <1>4. ASSUME NEW e PROVE e \in References(d)' <=> e \in References(d) \ {<<m, n>>}
    <2>1. e \in References(d)' <=>
            \E x \in Module : \E i \in 1 .. Len(deps'[x]) : e = <<x, i>> /\ deps'[x][i] = d
      BY DEF References
    <2>2. ASSUME NEW x \in Module, NEW i \in 1 .. Len(deps'[x]), e = <<x, i>>, deps'[x][i] = d
          PROVE  e \in References(d) \ {<<m, n>>}
      <3>1. CASE x = m
        <4>1. i \in 1 .. n - 1 /\ i \in 1 .. Len(deps[m]) /\ i # n
          BY <1>1, <1>2, <2>2, <3>1 DEF n
        <4> QED
          BY <1>2, <2>2, <3>1, <4>1, ReferenceDef
      <3>2. CASE x # m
        BY <1>2, <2>2, <3>2, ReferenceDef
      <3> QED
        BY <3>1, <3>2
    <2>3. ASSUME NEW x \in Module, NEW i \in 1 .. Len(deps[x]), e = <<x, i>>, deps[x][i] = d,
                 e # <<m, n>>
          PROVE  e \in References(d)'
      <3>1. i \in 1 .. Len(deps'[x]) /\ deps'[x][i] = d
        <4>1. CASE x = m
          <5>1. i \in 1 .. n - 1
            BY <1>1, <2>3, <4>1 DEF n
          <5> QED
            BY <1>2, <2>3, <4>1, <5>1
        <4>2. CASE x # m
          BY <1>2, <2>3, <4>2
        <4> QED
          BY <4>1, <4>2
      <3> QED
        BY <2>1, <2>3, <3>1
    <2> QED
      BY <2>1, <2>2, <2>3, ReferenceDef
  <1> QED
    BY <1>3, <1>4 DEF n

-----------------------------------------------------------------------------
(* Type correctness.                                                       *)

(* A call of #shutdownModule keeps the types.                              *)
LEMMA ShutdownModuleType ==
  ASSUME TypeOK, NEW w \in Walk, NEW d \in Module, NEW fs \in Seq(Frames),
         ShutdownModule(w, d, fs)
  PROVE  /\ refs' \in [Module -> Int]
         /\ stack' \in [Walk -> Seq(Frames)]
         /\ destroy' \in [Module -> {"none", "waiting", "hooks"} \cup Settled]
  <1>1. refs' \in [Module -> Int]
    BY DEF TypeOK, ShutdownModule
  <1>2. Frame("shutdown", d) \in Frames
    BY DEF Frame, Frames
  <1>3. Append(fs, Frame("shutdown", d)) \in Seq(Frames)
    BY <1>2, AppendProperties
  <1>4. stack' \in [Walk -> Seq(Frames)]
    BY <1>3 DEF TypeOK, ShutdownModule
  <1>5. destroy' \in [Module -> {"none", "waiting", "hooks"} \cup Settled]
    BY DEF TypeOK, ShutdownModule, DestroyCalled
  <1> QED
    BY <1>1, <1>4, <1>5

(* The constructor counts references in the naturals.                      *)
LEMMA TypeInit == Init => TypeOK
  <1> SUFFICES ASSUME Init PROVE TypeOK
    OBVIOUS
  <1>1. deps \in [Module -> Seq(Module)]
    BY ModuleAssumption DEF Init
  <1>2. refs \in [Module -> Int]
    BY <1>1, ReferencesFinite, FS_CardinalityType DEF Init
  <1>3. stack \in [Walk -> Seq(Frames)]
    BY DEF Init
  <1> QED
    BY <1>1, <1>2, <1>3 DEF Init, TypeOK

(* Every action keeps the types; the walks push and pop frames, the others *)
(* only change the states of promises.                                     *)
LEMMA TypeNext == TypeOK /\ [Next]_vars => TypeOK'
  <1> SUFFICES ASSUME TypeOK, [Next]_vars PROVE TypeOK'
    OBVIOUS
  <1> USE DEF Walk, Settled, Draining, vars, moduleVars, graphVars
  <1>1. \A fn \in {"bootstrap", "cleanup", "shutdown"}, m \in Module : Frame(fn, m) \in Frames
    BY DEF Frame, Frames
  <1>0. <<>> \in Seq(Frames)
    OBVIOUS
  <1>2. <<Frame("bootstrap", Root)>> \in Seq(Frames)
    BY <1>1, ModuleAssumption
  <1>3. ASSUME NEW w \in Walk, stack[w] # <<>>
        PROVE  /\ stack[w] \in Seq(Frames) /\ Len(stack[w]) \in Nat \ {0}
               /\ Last(stack[w]) \in Frames /\ Last(stack[w]).of \in Module
               /\ Last(stack[w]).next \in Nat \ {0}
               /\ Front(stack[w]) \in Seq(Frames)
               /\ Last(stack[w]) = stack[w][Len(stack[w])]
    <2>1. stack[w] \in Seq(Frames)
      BY DEF TypeOK
    <2>2. Last(stack[w]) \in Frames
      BY <1>3, <2>1, FrontLast
    <2>3. Last(stack[w]).of \in Module /\ Last(stack[w]).next \in Nat \ {0}
      BY <2>2 DEF Frames
    <2> QED
      BY <1>3, <2>1, <2>2, <2>3, FrontLast
  <1>4. ASSUME NEW fs \in Seq(Frames), fs # <<>>
        PROVE  Advanced(fs) \in Seq(Frames)
    <2>1. Last(fs) \in Frames /\ Front(fs) \in Seq(Frames)
      BY <1>4, FrontLast
    <2>2. [Last(fs) EXCEPT !.next = Last(fs).next + 1] \in Frames
      BY <2>1 DEF Frames
    <2> QED
      BY <2>1, <2>2, AppendProperties DEF Advanced
  <1>5. CASE CallBootstrap
    BY <1>2, <1>5 DEF CallBootstrap, TypeOK
  <1>6. CASE CallStart
    <2>0. stack' = stack \/ stack' = [stack EXCEPT !["bootstrap"] = <<Frame("bootstrap", Root)>>]
      BY <1>6 DEF CallStart
    <2>1. stack' \in [Walk -> Seq(Frames)]
      <3>1. CASE stack' = stack
        BY <3>1 DEF TypeOK
      <3>2. CASE stack' = [stack EXCEPT !["bootstrap"] = <<Frame("bootstrap", Root)>>]
        BY <1>2, <3>2 DEF TypeOK
      <3> QED
        BY <2>0, <3>1, <3>2
    <2>2. \/ entry' = [entry EXCEPT !.start = "waiting", !.bootstrap = "running"]
          \/ entry' = [entry EXCEPT !.start = "waiting"]
      BY <1>6 DEF CallStart
    <2> QED
      BY <1>6, <2>1, <2>2 DEF CallStart, TypeOK
  <1>7. CASE CallShutdown
    BY <1>7 DEF CallShutdown, TypeOK
  <1>8. CASE BootstrapDependency
    <2> DEFINE f == Last(stack["bootstrap"])
               d == deps[f.of][f.next]
    <2>1. stack["bootstrap"] # <<>> /\ f.next \in 1 .. Len(deps[f.of])
      BY <1>3, <1>8 DEF BootstrapDependency, At
    <2>2. d \in Module
      BY <1>3, <2>1, ElementOfSeq DEF TypeOK
    <2>3. Append(stack["bootstrap"], Frame("bootstrap", d)) \in Seq(Frames)
      BY <1>1, <1>3, <2>1, <2>2, AppendProperties
    <2> QED
      BY <1>8, <2>3 DEF BootstrapDependency, TypeOK
  <1>9. CASE ReleaseDependency
    <2> DEFINE fs == stack["bootstrap"]
               f == Last(fs)
    <2>1. fs # <<>> /\ f.next \in 1 .. Len(deps[f.of])
      BY <1>3, <1>9 DEF ReleaseDependency, At
    <2>2. deps[f.of][f.next] \in Module
      BY <1>3, <2>1, ElementOfSeq DEF TypeOK
    <2>3. Advanced(fs) \in Seq(Frames)
      BY <1>3, <1>4, <2>1
    <2>4. /\ refs' \in [Module -> Int] /\ stack' \in [Walk -> Seq(Frames)]
          /\ destroy' \in [Module -> {"none", "waiting", "hooks"} \cup Settled]
      BY <1>9, <2>2, <2>3, ShutdownModuleType DEF ReleaseDependency
    <2> QED
      BY <1>9, <2>4 DEF ReleaseDependency, TypeOK
  <1>10. CASE BootstrapRejects
    <2>1. stack' \in [Walk -> Seq(Frames)]
      BY <1>10, <1>0 DEF BootstrapRejects, TypeOK
    <2> QED
      BY <1>10, <2>1 DEF BootstrapRejects, TypeOK
  <1>11. ASSUME NEW w \in Walk, ShutdownDependency(w) PROVE TypeOK'
    <2> DEFINE m == Last(stack[w]).of
    <2>1. stack[w] # <<>> /\ m \in Module /\ deps[m] \in Seq(Module) /\ deps[m] # <<>>
      BY <1>3, <1>11 DEF ShutdownDependency, Destroyed, At, TypeOK
    <2>2. Front(deps[m]) \in Seq(Module) /\ Last(deps[m]) \in Module
      BY <2>1, FrontLast
    <2>3. /\ refs' \in [Module -> Int] /\ stack' \in [Walk -> Seq(Frames)]
          /\ destroy' \in [Module -> {"none", "waiting", "hooks"} \cup Settled]
      BY <1>11, <1>3, <2>1, <2>2, ShutdownModuleType DEF ShutdownDependency
    <2>4. deps' \in [Module -> Seq(Module)]
      BY <1>11, <2>2 DEF ShutdownDependency, TypeOK
    <2> QED
      BY <1>11, <2>3, <2>4 DEF ShutdownDependency, TypeOK
  <1>12. ASSUME NEW w \in Walk, ShutdownReturns(w) PROVE TypeOK'
    <2>1. stack' \in [Walk -> Seq(Frames)]
      BY <1>3, <1>12 DEF ShutdownReturns, Destroyed, At, TypeOK
    <2>2. \/ entry' = entry
          \/ entry' = [entry EXCEPT !.shutdown = "draining"]
          \/ entry' = [entry EXCEPT !.shutdown = "failing"]
      BY <1>12 DEF ShutdownReturns
    <2> QED
      BY <1>12, <2>1, <2>2 DEF ShutdownReturns, TypeOK
  <1>13. ASSUME NEW w \in Walk, ShutdownRejects(w) PROVE TypeOK'
    <2>1. stack' \in [Walk -> Seq(Frames)]
      BY <1>13, <1>0 DEF ShutdownRejects, TypeOK
    <2>2. \/ entry' = [entry EXCEPT !.bootstrap = "failed"]
          \/ entry' = [entry EXCEPT !.shutdown = "failing"]
      BY <1>13 DEF ShutdownRejects
    <2> QED
      BY <1>13, <2>1, <2>2 DEF ShutdownRejects, TypeOK
  <1>14. CASE EntryStarts
    BY <1>14 DEF EntryStarts, TypeOK
  <1>15. CASE EntryStartSettles
    BY <1>15 DEF EntryStartSettles, TypeOK
  <1>16. CASE EntryStops
    BY <1>16 DEF EntryStops, StopCalled, TypeOK
  <1>17. CASE EntryStopSettles \/ BackgroundTasksSettle
    BY <1>17 DEF EntryStopSettles, BackgroundTasksSettle, Draining, TypeOK
  <1>18. CASE EntryShutdown
    <2>1. <<>> \in Seq(Frames) /\ Root \in Module
      BY ModuleAssumption
    <2>2. /\ refs' \in [Module -> Int] /\ stack' \in [Walk -> Seq(Frames)]
          /\ destroy' \in [Module -> {"none", "waiting", "hooks"} \cup Settled]
      BY <1>18, <2>1, ShutdownModuleType DEF EntryShutdown
    <2> QED
      BY <1>18, <2>2 DEF EntryShutdown, TypeOK
  <1>19. ASSUME NEW m \in Module, InstanceStep(m) PROVE TypeOK'
    <2>1. CASE PerformBootstrap(m)
      BY <2>1 DEF PerformBootstrap, TypeOK
    <2>2. CASE BootstrapReturns(m)
      <3> DEFINE fs == Front(stack["bootstrap"])
      <3>1. fs \in Seq(Frames)
        BY <1>3, <2>2 DEF BootstrapReturns, Bootstrapping, At
      <3>2. fs # <<>> => Advanced(fs) \in Seq(Frames)
        BY <1>4, <3>1
      <3>3. \/ stack' = [stack EXCEPT !["bootstrap"] = <<>>]
            \/ fs # <<>> /\ stack' = [stack EXCEPT !["bootstrap"] = Advanced(fs)]
        BY <2>2 DEF BootstrapReturns
      <3>4. stack' \in [Walk -> Seq(Frames)]
        <4>1. CASE stack' = [stack EXCEPT !["bootstrap"] = <<>>]
          BY <1>0, <4>1 DEF TypeOK
        <4>2. CASE fs # <<>> /\ stack' = [stack EXCEPT !["bootstrap"] = Advanced(fs)]
          BY <3>2, <4>2 DEF TypeOK
        <4> QED
          BY <3>3, <4>1, <4>2
      <3>5. entry' = entry \/ entry' = [entry EXCEPT !.bootstrap = "ok"]
        BY <2>2 DEF BootstrapReturns
      <3> QED
        BY <2>2, <3>4, <3>5 DEF BootstrapReturns, TypeOK
    <2>3. CASE BootstrapFails(m)
      <3>1. Append(Front(stack["bootstrap"]), Frame("cleanup", m)) \in Seq(Frames)
        BY <1>1, <1>3, <2>3, AppendProperties DEF BootstrapFails, Bootstrapping, At
      <3> QED
        BY <2>3, <3>1 DEF BootstrapFails, TypeOK
    <2>4. CASE StartHooksBegin(m)
      BY <2>4, ModuleAssumption DEF StartHooksBegin, TypeOK
    <2>5. CASE StartRejects(m)
      BY <2>5 DEF StartRejects, TypeOK
    <2>6. CASE StopHooksBegin(m)
      <3>1. stopRunning' \in [Module -> Nat]
        <4>1. \/ stopRunning' = stopRunning
              \/ stopRunning' = [stopRunning EXCEPT ![m] = StopHooks[m]]
          BY <2>6 DEF StopHooksBegin
        <4> QED
          BY <4>1, ModuleAssumption DEF TypeOK
      <3>2. stop' \in [Module -> {"none", "waiting", "hooks", "deps"} \cup Settled]
        BY <2>6 DEF StopHooksBegin, TypeOK
      <3> QED
        BY <2>6, <3>1, <3>2 DEF StopHooksBegin, TypeOK
    <2>7. CASE StopDependencies(m)
      <3>1. {deps[m][i] : i \in 1 .. Len(deps[m])} \subseteq Module
        BY ElementOfSeq DEF TypeOK
      <3> QED
        BY <2>7, <3>1 DEF StopDependencies, StopCalled, TypeOK
    <2>8. CASE StopSettles(m)
      BY <2>8 DEF StopSettles, TypeOK
    <2>9. CASE PerformDestroy(m)
      BY <2>9 DEF PerformDestroy, TypeOK
    <2> QED
      BY <1>19, <2>1, <2>2, <2>3, <2>4, <2>5, <2>6, <2>7, <2>8, <2>9 DEF InstanceStep
  <1>20. ASSUME NEW m \in Module, HookStep(m) PROVE TypeOK'
    <2>1. CASE CreateHooksSettle(m)
      BY <2>1 DEF CreateHooksSettle, TypeOK
    <2>2. CASE StartHookSettles(m)
      <3>1. startRunning' \in [Module -> Nat]
        BY <2>2 DEF StartHookSettles, TypeOK
      <3>2. start' \in [Module -> {"none", "deps", "hooks"} \cup Settled]
        BY <2>2 DEF StartHookSettles, TypeOK
      <3> QED
        BY <2>2, <3>1, <3>2 DEF StartHookSettles, TypeOK
    <2>3. CASE StopHookSettles(m)
      <3>1. stopRunning' \in [Module -> Nat]
        BY <2>3 DEF StopHookSettles, TypeOK
      <3>2. stop' \in [Module -> {"none", "waiting", "hooks", "deps"} \cup Settled]
        BY <2>3 DEF StopHookSettles, TypeOK
      <3> QED
        BY <2>3, <3>1, <3>2 DEF StopHookSettles, TypeOK
    <2>4. CASE DestroyHooksSettle(m)
      BY <2>4 DEF DestroyHooksSettle, TypeOK
    <2> QED
      BY <1>20, <2>1, <2>2, <2>3, <2>4 DEF HookStep
  <1>21. CASE UNCHANGED vars
    BY <1>21 DEF TypeOK
  <1>22. CASE Exit
    BY <1>21, <1>22 DEF Exit
  <1> QED
    BY <1>5, <1>6, <1>7, <1>8, <1>9, <1>10, <1>11, <1>12, <1>13, <1>14, <1>15, <1>16,
       <1>17, <1>18, <1>19, <1>20, <1>21, <1>22 DEF Next, WalkStep, EntryStep

(* Every reachable state of every application has the declared types.      *)
THEOREM TypeCorrect == Spec => []TypeOK
  BY TypeInit, TypeNext, PTL DEF Spec

-----------------------------------------------------------------------------
(* The inductive invariant, part by part.                                  *)

(* Every module but the root is required by another one.                   *)
LEMMA Referenced ==
  ASSUME deps = Requires, NEW d \in Module \ {Root}
  PROVE  Cardinality(References(d)) > 0
  <1>1. PICK m \in Module : d \in RequiredBy(m)
    <2> DEFINE S == Module \ {d}
    <2>1. Root \in S /\ S \in SUBSET Module /\ S # Module
      BY ModuleAssumption
    <2>2. PICK m \in S : ~(RequiredBy(m) \subseteq S)
      BY <2>1, GraphAssumption
    <2> QED
      BY <2>2 DEF RequiredBy
  <1>2. PICK i \in 1 .. Len(Requires[m]) : Requires[m][i] = d
    BY <1>1 DEF RequiredBy
  <1>3. <<m, i>> \in References(d) /\ deps \in [Module -> Seq(Module)]
    BY <1>2, ModuleAssumption, ReferenceDef
  <1>4. IsFiniteSet(References(d))
    BY <1>3, ReferencesFinite
  <1>5. Cardinality(References(d)) \in Nat /\ Cardinality(References(d)) # 0
    BY <1>3, <1>4, FS_CardinalityType, FS_EmptySet
  <1> QED
    BY <1>5

(* In the initial state nothing is visited.                                *)
LEMMA VisitInit == Init => VisitInv
  <1> SUFFICES ASSUME Init PROVE VisitInv
    OBVIOUS
  <1>1. TypeOK
    BY TypeInit
  <1>2. /\ \A m \in Module : destroy[m] = "none"
        /\ deps = Requires /\ stack["bootstrap"] = <<>> /\ stack["shutdown"] = <<>>
        /\ entry.shutdown = "none" /\ \A m \in Module : refs[m] = Cardinality(References(m))
    BY DEF Init, Walk
  <1>3. Len(stack["bootstrap"]) = 0 /\ Len(stack["shutdown"]) = 0
    BY <1>2
  <1>4. FrameOrder
    BY <1>2, <1>3 DEF FrameOrder
  <1>5. \A m \in Module : refs[m] \in Int
    BY <1>1 DEF TypeOK
  <1>6. \A m \in Module : ~Visited(m)
    BY <1>2, <1>5, Referenced DEF Visited, Draining, Settled
  <1> QED
    BY <1>2, <1>4, <1>5, <1>6 DEF VisitInv

(* In the initial state nothing has run and nothing is consumed.           *)
LEMMA InvInit == Init => IInv
  <1> SUFFICES ASSUME Init PROVE IInv
    OBVIOUS
  <1>1. TypeOK
    BY TypeInit
  <1>2. /\ \A m \in Module : /\ boot[m] = "none" /\ start[m] = "none" /\ stop[m] = "none"
                             /\ destroy[m] = "none" /\ startRunning[m] = 0
                             /\ stopRunning[m] = 0
        /\ deps = Requires /\ stack["bootstrap"] = <<>> /\ stack["shutdown"] = <<>>
        /\ entry.bootstrap = "none" /\ entry.start = "none"
        /\ entry.stop = "none" /\ entry.shutdown = "none"
    BY DEF Init, Walk
  <1>3. Len(stack["bootstrap"]) = 0 /\ Len(stack["shutdown"]) = 0
    BY <1>2
  <1>4. BootInv
    BY <1>2, <1>3 DEF BootInv, NoCreationFailed, BootstrapPath
  <1>5. EntryInv
    BY <1>2 DEF EntryInv, Settled, Draining
  <1>6. StartInv
    BY <1>2, ModuleAssumption DEF StartInv
  <1>7. Consumed
    BY <1>2, ModuleAssumption, LenProperties DEF Consumed
  <1>8. \A d \in Module : refs[d] = Cardinality(References(d))
    BY DEF Init
  <1>9. ReleaseInv
    BY <1>2, <1>3, <1>8 DEF ReleaseInv, ReleaseOrder, NoCreationFailed
  <1>10. DestroyInv
    BY <1>2 DEF DestroyInv, Settled
  <1>11. StopInv
    BY <1>2, ModuleAssumption DEF StopInv, Settled
  <1>12. VisitInv
    BY VisitInit
  <1> QED
    BY <1>1, <1>4, <1>5, <1>6, <1>7, <1>9, <1>10, <1>11, <1>12 DEF IInv

(* While modules are being created and none has failed, no dependency list *)
(* has been consumed and nothing is being destroyed.                       *)
LEMMA NothingReleased ==
  ASSUME IInv, NoCreationFailed, entry.bootstrap \notin Settled
  PROVE  deps = Requires /\ \A m \in Module : destroy[m] = "none"
  BY DEF IInv, EntryInv, ReleaseInv, ReleaseOrder

(* A walk whose last frame still has a dependency to create, or a module   *)
(* that has not failed, has met no failure.                                *)
LEMMA NoFailureYet ==
  ASSUME IInv, NEW m \in Module, At("bootstrap", "bootstrap"), Last(stack["bootstrap"]).of = m,
         boot[m] # "failed" \/ Last(stack["bootstrap"]).next <= Len(deps[m])
  PROVE  NoCreationFailed /\ BootstrapPath /\ entry.bootstrap = "running" /\ deps = Requires
  <1>1. stack["bootstrap"] # <<>> /\ entry.bootstrap = "running"
    BY DEF At, IInv, BootInv
  <1>2. Len(deps[m]) \in Nat /\ Last(stack["bootstrap"]).next \in Nat
    <2>1. Last(stack["bootstrap"]) \in Frames
      BY <1>1, FrontLast DEF IInv, TypeOK, Walk
    <2> QED
      BY <2>1, LenProperties DEF IInv, TypeOK, Frames
  <1>3. NoCreationFailed /\ BootstrapPath
    BY <1>2 DEF IInv, BootInv, BootstrapUnwinds, Bootstrapping
  <1> QED
    BY <1>1, <1>3, NothingReleased DEF Settled

(* No frame of the creating walk releases anything before a failure.       *)
LEMMA OnlyCreating ==
  ASSUME IInv, NoCreationFailed
  PROVE  ~At("bootstrap", "cleanup") /\ ~At("bootstrap", "shutdown")
  <1>1. ASSUME stack["bootstrap"] # <<>> PROVE Last(stack["bootstrap"]).fn = "bootstrap"
    <2>1. stack["bootstrap"] \in Seq(Frames)
      BY DEF IInv, TypeOK, Walk
    <2>2. Len(stack["bootstrap"]) \in 1 .. Len(stack["bootstrap"])
      BY <1>1, <2>1, FrontLast
    <2>3. stack["bootstrap"][Len(stack["bootstrap"])].fn = "bootstrap"
      BY <2>2 DEF IInv, BootInv, BootstrapPath
    <2> QED
      BY <1>1, <2>1, <2>3, FrontLast
  <1> QED
    BY <1>1 DEF At

(* What the actions that do not move the creating walk leave of BootInv.   *)
LEMMA BootQuiet ==
  ASSUME IInv, boot' = boot, entry'.bootstrap = entry.bootstrap,
         stack'["bootstrap"] = stack["bootstrap"],
         deps' = deps \/ stack["bootstrap"] = <<>>
  PROVE  BootInv'
  <1> USE DEF IInv, BootInv, NoCreationFailed
  <1>1. NoCreationFailed' <=> NoCreationFailed
    OBVIOUS
  <1>2. NoCreationFailed => BootstrapPath'
    BY DEF BootstrapPath
  <1>3. \A m \in Module : Bootstrapping(m) => Bootstrapping(m)'
    BY DEF Bootstrapping, At
  <1>4. ~NoCreationFailed => BootstrapUnwinds'
    BY <1>3 DEF BootstrapUnwinds, At
  <1> QED
    BY <1>1, <1>2, <1>3, <1>4

(* The call of bootstrap() puts the root's frame on an empty stack.        *)
LEMMA BootCalled ==
  ASSUME IInv, entry.bootstrap = "none", boot' = boot, deps' = deps,
         entry'.bootstrap = "running",
         stack'["bootstrap"] = <<Frame("bootstrap", Root)>>
  PROVE  BootInv'
  <1>1. \A m \in Module : boot[m] = "none"
    BY DEF IInv, BootInv
  <1>2. /\ Len(stack'["bootstrap"]) = 1
        /\ stack'["bootstrap"][1] = [fn |-> "bootstrap", of |-> Root, next |-> 1]
    BY DEF Frame
  <1>3. BootstrapPath'
    BY <1>2, ModuleAssumption, LenProperties DEF BootstrapPath
  <1> QED
    BY <1>1, <1>3 DEF BootInv, NoCreationFailed

(* What is known of a creating walk with a frame on its stack.             *)
LEMMA BootStack ==
  ASSUME TypeOK, stack["bootstrap"] # <<>>
  PROVE  LET fs == stack["bootstrap"]
         IN /\ fs \in Seq(Frames) /\ Len(fs) \in Nat \ {0}
            /\ Last(fs) = fs[Len(fs)] /\ Last(fs) \in Frames
            /\ Last(fs).of \in Module /\ Last(fs).next \in Nat \ {0}
            /\ Front(fs) \in Seq(Frames) /\ Len(Front(fs)) = Len(fs) - 1
            /\ \A i \in 1 .. Len(fs) - 1 : Front(fs)[i] = fs[i]
            /\ \A i \in 1 .. Len(fs) : fs[i] \in Frames
  <1> DEFINE fs == stack["bootstrap"]
  <1>1. fs \in Seq(Frames)
    BY DEF TypeOK, Walk
  <1>2. /\ Len(fs) \in Nat \ {0} /\ Last(fs) = fs[Len(fs)] /\ Last(fs) \in Frames
        /\ Front(fs) \in Seq(Frames) /\ Len(Front(fs)) = Len(fs) - 1
        /\ \A i \in 1 .. Len(fs) - 1 : Front(fs)[i] = fs[i]
    BY <1>1, FrontLast
  <1>3. Last(fs).of \in Module /\ Last(fs).next \in Nat \ {0}
    BY <1>2 DEF Frames
  <1> QED
    BY <1>1, <1>2, <1>3, ElementOfSeq

(* The walk descends into a dependency.                                    *)
LEMMA BootDescends ==
  ASSUME IInv, BootstrapDependency
  PROVE  BootInv'
  <1> DEFINE fs == stack["bootstrap"]
             f == Last(fs)
             m == f.of
             d == deps[m][f.next]
             gs == stack'["bootstrap"]
  <1>1. TypeOK /\ fs # <<>> /\ At("bootstrap", "bootstrap") /\ f.next <= Len(deps[m])
    BY DEF IInv, BootstrapDependency, At
  <1>2. /\ fs \in Seq(Frames) /\ Len(fs) \in Nat \ {0} /\ f = fs[Len(fs)]
        /\ m \in Module /\ f.next \in Nat \ {0}
    BY <1>1, BootStack
  <1>3. NoCreationFailed /\ BootstrapPath /\ entry.bootstrap = "running" /\ deps = Requires
    BY <1>1, <1>2, NoFailureYet
  <1>4. d \in Module
    <2>1. deps[m] \in Seq(Module) /\ Len(deps[m]) \in Nat
      BY <1>1, <1>2, LenProperties DEF TypeOK
    <2>2. f.next \in 1 .. Len(deps[m])
      BY <1>1, <1>2, <2>1
    <2> QED
      BY <2>1, <2>2, ElementOfSeq
  <1>5. gs = Append(fs, Frame("bootstrap", d)) /\ boot' = boot /\ entry' = entry /\ deps' = deps
    BY <1>1 DEF BootstrapDependency, TypeOK, Walk, moduleVars, graphVars
  <1>6. Frame("bootstrap", d) \in Frames
    BY <1>4 DEF Frame, Frames
  <1>7. /\ Len(gs) = Len(fs) + 1 /\ gs[Len(fs) + 1] = [fn |-> "bootstrap", of |-> d, next |-> 1]
        /\ \A i \in 1 .. Len(fs) : gs[i] = fs[i]
    BY <1>2, <1>5, <1>6, AppendProperties DEF Frame
  <1> HIDE DEF fs, gs
  <1>8. \A x \in Module : boot[x] # "running"
    <2>1. Len(deps[m]) \in Nat
      BY <1>1, <1>2, LenProperties DEF TypeOK
    <2> QED
      BY <1>1, <1>2, <2>1 DEF IInv, BootInv, Bootstrapping, fs
  <1>9. BootstrapPath'
    <2>1. ASSUME NEW k \in 1 .. Len(fs)
          PROVE  /\ gs[k].fn = "bootstrap"
                 /\ k = 1 => gs[k].of = Root
                 /\ \A j \in 1 .. Len(Requires[gs[k].of]) :
                      j < gs[k].next => boot[Requires[gs[k].of][j]] = "ok"
                 /\ gs[k].next <= Len(Requires[gs[k].of])
                 /\ gs[k + 1].of = Requires[gs[k].of][gs[k].next]
      <3>1. gs[k] = fs[k]
        BY <1>7
      <3>2. CASE k < Len(fs)
        <4>1. gs[k + 1] = fs[k + 1]
          BY <1>2, <1>7, <3>2
        <4> QED
          BY <1>3, <3>1, <3>2, <4>1 DEF BootstrapPath, fs
      <3>3. CASE k = Len(fs)
        <4>1. gs[k + 1].of = d
          BY <1>7, <3>3
        <4>2. gs[k].of = m /\ gs[k].next = f.next
          BY <1>2, <3>1, <3>3
        <4>3. /\ fs[k].fn = "bootstrap"
              /\ k = 1 => fs[k].of = Root
              /\ \A j \in 1 .. Len(Requires[fs[k].of]) :
                   j < fs[k].next => boot[Requires[fs[k].of][j]] = "ok"
          BY <1>3 DEF BootstrapPath, fs
        <4> QED
          BY <1>1, <1>3, <3>1, <4>1, <4>2, <4>3
      <3> QED
        BY <1>2, <3>2, <3>3
    <2>2. /\ gs[Len(fs) + 1].fn = "bootstrap" /\ Len(fs) + 1 # 1
          /\ \A j \in 1 .. Len(Requires[d]) : ~(j < gs[Len(fs) + 1].next)
          /\ gs[Len(fs) + 1].of = d
      BY <1>2, <1>4, <1>7, ModuleAssumption, LenProperties
    <2>3. \A k \in 1 .. Len(gs) :
            /\ gs[k].fn = "bootstrap"
            /\ k = 1 => gs[k].of = Root
            /\ \A j \in 1 .. Len(Requires[gs[k].of]) :
                 j < gs[k].next => boot[Requires[gs[k].of][j]] = "ok"
            /\ k < Len(gs) => /\ gs[k].next <= Len(Requires[gs[k].of])
                              /\ gs[k + 1].of = Requires[gs[k].of][gs[k].next]
      <3>1. ASSUME NEW k \in 1 .. Len(gs)
            PROVE  k \in 1 .. Len(fs) \/ k = Len(fs) + 1
        BY <1>2, <1>7
      <3>2. ~(Len(fs) + 1 < Len(gs)) /\ gs[Len(fs) + 1].fn = "bootstrap"
        BY <1>2, <1>7
      <3> QED
        BY <2>1, <2>2, <3>1, <3>2
    <2> QED
      BY <1>5, <2>3 DEF BootstrapPath, gs
  <1> QED
    BY <1>3, <1>5, <1>8, <1>9 DEF IInv, BootInv, NoCreationFailed

(* The walk begins to create a module, all of whose dependencies exist.    *)
LEMMA BootPerforms ==
  ASSUME IInv, NEW m \in Module, PerformBootstrap(m)
  PROVE  BootInv'
  <1> DEFINE fs == stack["bootstrap"]
  <1>1. TypeOK /\ fs # <<>> /\ At("bootstrap", "bootstrap") /\ Last(fs).of = m
        /\ Last(fs).next > Len(deps[m]) /\ boot[m] = "none"
    BY DEF IInv, PerformBootstrap, Bootstrapping, At
  <1>2. Len(fs) \in 1 .. Len(fs) /\ Last(fs) = fs[Len(fs)] /\ Last(fs).next \in Nat
    BY <1>1, BootStack
  <1>3. NoCreationFailed /\ BootstrapPath /\ entry.bootstrap = "running" /\ deps = Requires
    BY <1>1, NoFailureYet
  <1>4. boot' = [boot EXCEPT ![m] = "running"] /\ deps' = deps /\ stack' = stack /\ entry' = entry
    BY DEF PerformBootstrap, graphVars
  <1>5. boot \in [Module -> {"none", "running"} \cup Settled]
    BY <1>1 DEF TypeOK
  <1>6. \A d \in RequiredBy(m) : boot[d] = "ok"
    <2>1. ASSUME NEW i \in 1 .. Len(Requires[m]) PROVE boot[Requires[m][i]] = "ok"
      <3>1. i < fs[Len(fs)].next
        <4>1. Len(Requires[m]) \in Nat
          BY LenProperties, ModuleAssumption
        <4>2. fs[Len(fs)].next > Len(Requires[m]) /\ fs[Len(fs)].next \in Nat
          BY <1>1, <1>2, <1>3
        <4> QED
          BY <4>1, <4>2
      <3> QED
        BY <1>1, <1>2, <1>3, <3>1 DEF BootstrapPath
    <2> QED
      BY <2>1 DEF RequiredBy
  <1>7. \A d \in Module : boot[d] = "ok" => boot'[d] = "ok"
    BY <1>1, <1>4, <1>5
  <1>8. BootstrapPath'
    <2>1. \A k \in 1 .. Len(fs), j \in Nat :
             j \in 1 .. Len(Requires[fs[k].of]) => Requires[fs[k].of][j] \in Module
      <3>1. ASSUME NEW k \in 1 .. Len(fs) PROVE Requires[fs[k].of] \in Seq(Module)
        <4>1. fs[k].of \in Module
          BY <1>1, BootStack DEF Frames
        <4> QED
          BY <4>1, ModuleAssumption
      <3> QED
        BY <3>1, ElementOfSeq
    <2>2. ASSUME NEW k \in 1 .. Len(fs)
          PROVE  /\ fs[k].fn = "bootstrap"
                 /\ k = 1 => fs[k].of = Root
                 /\ \A j \in 1 .. Len(Requires[fs[k].of]) :
                      j < fs[k].next => boot'[Requires[fs[k].of][j]] = "ok"
                 /\ k < Len(fs) => /\ fs[k].next <= Len(Requires[fs[k].of])
                                   /\ fs[k + 1].of = Requires[fs[k].of][fs[k].next]
      <3>1. \A j \in 1 .. Len(Requires[fs[k].of]) : Requires[fs[k].of][j] \in Module
        BY <2>1
      <3> QED
        BY <1>3, <1>7, <3>1 DEF BootstrapPath
    <2> QED
      BY <1>4, <2>2 DEF BootstrapPath
  <1>9. \A x \in Module : boot'[x] = "running" => Bootstrapping(x)'
    BY <1>1, <1>4, <1>5 DEF IInv, BootInv, Bootstrapping, At
  <1>10. \A x \in Module : boot'[x] # "none" => \A d \in RequiredBy(x) : boot'[d] = "ok"
    <2>1. \A x \in Module : RequiredBy(x) \subseteq Module
      BY DEF RequiredBy
    <2> QED
      BY <1>4, <1>5, <1>6, <1>7, <2>1 DEF IInv, BootInv
  <1>11. NoCreationFailed'
    BY <1>3, <1>4, <1>5 DEF NoCreationFailed
  <1> QED
    BY <1>3, <1>4, <1>8, <1>9, <1>10, <1>11 DEF BootInv

(* The creation that the walk awaits settles.                              *)
LEMMA BootSettles ==
  ASSUME IInv, NEW m \in Module, CreateHooksSettle(m)
  PROVE  BootInv'
  <1> DEFINE fs == stack["bootstrap"]
  <1>1. TypeOK /\ boot[m] = "running" /\ Bootstrapping(m)
    BY DEF IInv, BootInv, CreateHooksSettle
  <1>2. fs # <<>> /\ At("bootstrap", "bootstrap") /\ Last(fs).of = m
    BY <1>1 DEF Bootstrapping, At
  <1>3. NoCreationFailed /\ BootstrapPath /\ entry.bootstrap = "running" /\ deps = Requires
    BY <1>1, <1>2, NoFailureYet
  <1>4. /\ boot' = [boot EXCEPT ![m] = "ok"] \/ boot' = [boot EXCEPT ![m] = "failed"]
        /\ deps' = deps /\ stack' = stack /\ entry' = entry
    BY DEF CreateHooksSettle, graphVars
  <1>5. boot \in [Module -> {"none", "running"} \cup Settled]
    BY <1>1 DEF TypeOK
  <1>6. \A d \in Module : boot[d] = "ok" => boot'[d] = "ok"
    BY <1>1, <1>4, <1>5
  <1>7. \A x \in Module : boot'[x] = "running" => Bootstrapping(x)'
    BY <1>4, <1>5 DEF IInv, BootInv, Bootstrapping, At
  <1>8. \A x \in Module : boot'[x] # "none" => \A d \in RequiredBy(x) : boot'[d] = "ok"
    <2>1. \A x \in Module : RequiredBy(x) \subseteq Module
      BY DEF RequiredBy
    <2>2. \A x \in Module : boot'[x] # "none" => boot[x] # "none"
      BY <1>1, <1>4, <1>5
    <2> QED
      BY <1>6, <2>1, <2>2 DEF IInv, BootInv
  <1>9. CASE boot' = [boot EXCEPT ![m] = "ok"]
    <2>1. NoCreationFailed'
      BY <1>3, <1>5, <1>9 DEF NoCreationFailed
    <2>2. ASSUME NEW k \in 1 .. Len(fs)
          PROVE  /\ fs[k].fn = "bootstrap"
                 /\ k = 1 => fs[k].of = Root
                 /\ \A j \in 1 .. Len(Requires[fs[k].of]) :
                      j < fs[k].next => boot'[Requires[fs[k].of][j]] = "ok"
                 /\ k < Len(fs) => /\ fs[k].next <= Len(Requires[fs[k].of])
                                   /\ fs[k + 1].of = Requires[fs[k].of][fs[k].next]
      <3>1. fs[k].of \in Module
        BY <1>1, <1>2, BootStack DEF Frames
      <3>2. \A j \in 1 .. Len(Requires[fs[k].of]) : Requires[fs[k].of][j] \in Module
        BY <3>1, ModuleAssumption, ElementOfSeq
      <3> QED
        BY <1>3, <1>6, <3>2 DEF BootstrapPath
    <2>3. BootstrapPath'
      BY <1>4, <2>2 DEF BootstrapPath
    <2> QED
      BY <1>3, <1>4, <1>7, <1>8, <2>1, <2>3 DEF BootInv
  <1>10. CASE boot' = [boot EXCEPT ![m] = "failed"]
    <2>1. ~NoCreationFailed' /\ boot'[m] = "failed"
      BY <1>5, <1>10 DEF NoCreationFailed
    <2>2. \A k \in 1 .. Len(fs) : fs[k].fn = "bootstrap"
      BY <1>3 DEF BootstrapPath
    <2>3. Bootstrapping(m)'
      BY <1>1, <1>4 DEF Bootstrapping, At
    <2>4. BootstrapUnwinds'
      BY <1>4, <2>1, <2>2, <2>3 DEF BootstrapUnwinds
    <2> QED
      BY <1>3, <1>4, <1>7, <1>8, <2>1, <2>4 DEF BootInv
  <1> QED
    BY <1>4, <1>9, <1>10

(* A created module: its caller goes on to the next dependency, and when   *)
(* it is the root every module of the graph has been created.              *)
LEMMA BootReturns ==
  ASSUME IInv, NEW m \in Module, BootstrapReturns(m)
  PROVE  BootInv'
  <1> DEFINE fs == stack["bootstrap"]
             gs == Front(fs)
  <1>1. TypeOK /\ fs # <<>> /\ At("bootstrap", "bootstrap") /\ Last(fs).of = m
        /\ boot[m] = "ok" /\ Bootstrapping(m)
    BY DEF IInv, BootstrapReturns, Bootstrapping, At
  <1>2. /\ fs \in Seq(Frames) /\ Len(fs) \in Nat \ {0} /\ fs[Len(fs)].of = m
        /\ gs \in Seq(Frames) /\ Len(gs) = Len(fs) - 1
        /\ \A i \in 1 .. Len(gs) : gs[i] = fs[i]
    BY <1>1, BootStack
  <1>3. NoCreationFailed /\ BootstrapPath /\ entry.bootstrap = "running" /\ deps = Requires
    BY <1>1, NoFailureYet
  <1>4. boot' = boot /\ deps' = deps
    BY DEF BootstrapReturns, moduleVars, graphVars
  <1>5. \A x \in Module : boot[x] # "running"
    BY <1>1 DEF IInv, BootInv, Bootstrapping
  <1>6. CASE gs = <<>>
    <2>1. stack'["bootstrap"] = <<>> /\ entry'.bootstrap = "ok"
      BY <1>1, <1>6 DEF BootstrapReturns, TypeOK, Walk
    <2>2. Len(fs) = 1
      BY <1>2, <1>6
    <2>3. m = Root
      BY <1>2, <1>3, <2>2 DEF BootstrapPath
    <2>4. \A x \in Module : boot[x] = "ok"
      <3> DEFINE S == {x \in Module : boot[x] = "ok"}
      <3>1. \A x \in S : RequiredBy(x) \subseteq S
        BY DEF IInv, BootInv, RequiredBy
      <3>2. S = Module
        BY <1>1, <2>3, <3>1, GraphAssumption
      <3> QED
        BY <3>2
    <2>5. BootstrapPath'
      BY <2>1 DEF BootstrapPath
    <2>6. \A x \in Module : RequiredBy(x) \subseteq Module
      BY DEF RequiredBy
    <2> QED
      BY <1>3, <1>4, <1>5, <2>1, <2>4, <2>5, <2>6 DEF BootInv, NoCreationFailed
  <1>7. CASE gs # <<>>
    <2> DEFINE hs == Advanced(gs)
    <2>1. stack'["bootstrap"] = hs /\ entry' = entry
      BY <1>1, <1>7 DEF BootstrapReturns, TypeOK, Walk
    <2>2. /\ Len(gs) \in Nat \ {0} /\ Len(hs) = Len(gs)
          /\ \A i \in 1 .. Len(gs) - 1 : hs[i] = gs[i]
          /\ hs[Len(gs)] = [gs[Len(gs)] EXCEPT !.next = gs[Len(gs)].next + 1]
          /\ gs[Len(gs)] \in Frames
      BY <1>2, <1>7, AdvancedFrames, FrontLast
    <2> HIDE DEF gs, hs
    <2>3. /\ hs[Len(gs)].fn = fs[Len(gs)].fn /\ hs[Len(gs)].of = fs[Len(gs)].of
          /\ hs[Len(gs)].next = fs[Len(gs)].next + 1 /\ fs[Len(gs)].next \in Nat
          /\ fs[Len(gs)].of \in Module
      <3>0. Len(gs) \in 1 .. Len(gs)
        BY <2>2
      <3>1. gs[Len(gs)] = fs[Len(gs)]
        BY <1>2, <3>0
      <3>2. fs[Len(gs)] \in Frames /\ hs[Len(gs)] = [fs[Len(gs)] EXCEPT !.next = fs[Len(gs)].next + 1]
        BY <2>2, <3>1
      <3> HIDE DEF fs
      <3> QED
        BY <3>2 DEF Frames
    <2>4. ASSUME NEW k \in 1 .. Len(hs)
          PROVE  /\ hs[k].fn = "bootstrap"
                 /\ k = 1 => hs[k].of = Root
                 /\ \A j \in 1 .. Len(Requires[hs[k].of]) :
                      j < hs[k].next => boot[Requires[hs[k].of][j]] = "ok"
                 /\ k < Len(hs) => /\ hs[k].next <= Len(Requires[hs[k].of])
                                   /\ hs[k + 1].of = Requires[hs[k].of][hs[k].next]
      <3>1. /\ fs[k].fn = "bootstrap"
            /\ k = 1 => fs[k].of = Root
            /\ \A j \in 1 .. Len(Requires[fs[k].of]) :
                 j < fs[k].next => boot[Requires[fs[k].of][j]] = "ok"
            /\ fs[k].next <= Len(Requires[fs[k].of])
            /\ fs[k + 1].of = Requires[fs[k].of][fs[k].next]
        <4>1. k \in 1 .. Len(fs) /\ k < Len(fs)
          BY <1>2, <2>2
        <4> QED
          BY <1>3, <4>1 DEF BootstrapPath
      <3>2. CASE k = Len(hs)
        <4>1. /\ k + 1 = Len(fs) /\ hs[k].fn = fs[k].fn /\ hs[k].of = fs[k].of
              /\ hs[k].next = fs[k].next + 1 /\ fs[k].next \in Nat
          <5>1. k = Len(gs) /\ k + 1 = Len(fs)
            BY <1>2, <2>2, <3>2
          <5> QED
            BY <2>3, <5>1
        <4>2. Requires[fs[k].of][fs[k].next] = m
          BY <1>2, <3>1, <4>1
        <4>3. ASSUME NEW j \in 1 .. Len(Requires[fs[k].of]), j < hs[k].next
              PROVE  boot[Requires[fs[k].of][j]] = "ok"
          <5>1. j < fs[k].next \/ j = fs[k].next
            BY <4>1, <4>3
          <5> QED
            BY <1>1, <3>1, <4>2, <5>1
        <4>4. hs[k].fn = "bootstrap" /\ (k = 1 => hs[k].of = Root)
          BY <3>1, <4>1
        <4>5. \A j \in 1 .. Len(Requires[hs[k].of]) :
                j < hs[k].next => boot[Requires[hs[k].of][j]] = "ok"
          BY <4>1, <4>3
        <4>6. ~(k < Len(hs))
          BY <3>2, <2>2
        <4> QED
          BY <4>4, <4>5, <4>6
      <3>3. CASE k < Len(hs)
        <4>1. hs[k] = fs[k]
          BY <1>2, <2>2, <3>3
        <4>2. hs[k + 1].of = fs[k + 1].of
          <5>1. CASE k + 1 = Len(hs)
            BY <2>2, <2>3, <5>1
          <5>2. CASE k + 1 < Len(hs)
            BY <1>2, <2>2, <5>2
          <5> QED
            BY <2>2, <3>3, <5>1, <5>2
        <4> QED
          BY <3>1, <4>1, <4>2
      <3> QED
        BY <2>2, <3>2, <3>3
    <2>5. BootstrapPath'
      BY <1>4, <2>1, <2>4 DEF BootstrapPath
    <2> QED
      BY <1>3, <1>4, <1>5, <2>1, <2>5 DEF IInv, BootInv, NoCreationFailed
  <1> QED
    BY <1>6, <1>7

(* What the steps after a failed creation share: nothing is being created, *)
(* and whatever is left of the stack does not create anything any more.    *)
LEMMA BootUnwound ==
  ASSUME IInv, ~NoCreationFailed, boot' = boot,
         \A m \in Module : boot[m] # "running",
         \/ stack'["bootstrap"] = <<>> /\ entry'.bootstrap = "failed"
         \/ /\ entry'.bootstrap = "running"
            /\ stack'["bootstrap"] \in Seq(Frames)
            /\ stack'["bootstrap"] # <<>>
            /\ Last(stack'["bootstrap"]).fn \in {"cleanup", "shutdown"}
            /\ \A k \in 1 .. Len(stack'["bootstrap"]) :
                 stack'["bootstrap"][k].fn = "shutdown" =>
                   k > 1 /\ stack'["bootstrap"][k - 1].fn \in {"cleanup", "shutdown"}
  PROVE  BootInv'
  <1>1. BootstrapUnwinds'
    BY DEF BootstrapUnwinds, At
  <1>2. ~NoCreationFailed'
    BY DEF NoCreationFailed
  <1> QED
    BY <1>1, <1>2 DEF IInv, BootInv

(* The catch block takes the place of the frame of the module that failed. *)
LEMMA BootFails ==
  ASSUME IInv, NEW m \in Module, BootstrapFails(m)
  PROVE  BootInv'
  <1> DEFINE fs == stack["bootstrap"]
             gs == Append(Front(fs), Frame("cleanup", m))
  <1>1. TypeOK /\ fs # <<>> /\ At("bootstrap", "bootstrap") /\ Last(fs).of = m
        /\ boot[m] = "failed"
    BY DEF IInv, BootstrapFails, Bootstrapping, At
  <1>2. ~NoCreationFailed /\ BootstrapUnwinds /\ \A x \in Module : boot[x] # "running"
    BY <1>1 DEF IInv, BootInv, NoCreationFailed, Bootstrapping
  <1>3. /\ fs \in Seq(Frames) /\ Len(fs) \in Nat \ {0}
        /\ Front(fs) \in Seq(Frames) /\ Len(Front(fs)) = Len(fs) - 1
        /\ \A i \in 1 .. Len(fs) - 1 : Front(fs)[i] = fs[i]
    BY <1>1, BootStack
  <1>4. Frame("cleanup", m) \in Frames /\ Frame("cleanup", m).fn = "cleanup"
    BY DEF Frame, Frames
  <1>5. /\ gs \in Seq(Frames) /\ gs # <<>> /\ Len(gs) = Len(fs)
        /\ \A i \in 1 .. Len(fs) - 1 : gs[i] = fs[i]
        /\ gs[Len(fs)].fn = "cleanup"
    BY <1>3, <1>4, AppendProperties
  <1>6. stack'["bootstrap"] = gs /\ entry' = entry /\ boot' = boot
    BY <1>1 DEF BootstrapFails, TypeOK, Walk, moduleVars
  <1> HIDE DEF gs
  <1>7. Last(gs).fn = "cleanup"
    BY <1>5, FrontLast
  <1>8. ASSUME NEW k \in 1 .. Len(gs), gs[k].fn = "shutdown"
        PROVE  k > 1 /\ gs[k - 1].fn \in {"cleanup", "shutdown"}
    <2>1. k \in 1 .. Len(fs) - 1
      BY <1>3, <1>5, <1>8
    <2>2. fs[k].fn = "shutdown"
      BY <1>5, <1>8, <2>1
    <2>3. k > 1 /\ fs[k - 1].fn \in {"cleanup", "shutdown"}
      BY <1>2, <1>3, <2>1, <2>2 DEF BootstrapUnwinds
    <2> QED
      BY <1>5, <2>1, <2>3
  <1> QED
    BY <1>1, <1>2, <1>5, <1>6, <1>7, <1>8, BootUnwound DEF IInv, BootInv

(* The releasing frames of the creating walk: the frame under each of them *)
(* is a caller of #shutdownModule.                                         *)
LEMMA BootReleasing ==
  ASSUME IInv, At("bootstrap", "cleanup") \/ At("bootstrap", "shutdown")
  PROVE  LET fs == stack["bootstrap"]
         IN /\ ~NoCreationFailed /\ \A m \in Module : boot[m] # "running"
            /\ entry.bootstrap = "running"
            /\ fs \in Seq(Frames) /\ fs # <<>> /\ Len(fs) \in Nat \ {0}
            /\ fs[Len(fs)].fn \in {"cleanup", "shutdown"} /\ Last(fs) = fs[Len(fs)]
            /\ \A k \in 1 .. Len(fs) :
                 fs[k].fn = "shutdown" => k > 1 /\ fs[k - 1].fn \in {"cleanup", "shutdown"}
  <1> DEFINE fs == stack["bootstrap"]
  <1>1. TypeOK /\ ~NoCreationFailed /\ fs # <<>> /\ Last(fs).fn \in {"cleanup", "shutdown"}
    BY OnlyCreating DEF IInv, At
  <1>2. \A m \in Module : boot[m] # "running"
    BY <1>1 DEF IInv, BootInv, Bootstrapping, At
  <1>3. fs \in Seq(Frames) /\ Len(fs) \in Nat \ {0} /\ Last(fs) = fs[Len(fs)]
    BY <1>1, BootStack
  <1> QED
    BY <1>1, <1>2, <1>3 DEF IInv, BootInv, BootstrapUnwinds

(* A call of #shutdownModule from the creating walk, whose frames fs have  *)
(* kept their functions.                                                   *)
LEMMA BootShutdownModule ==
  ASSUME IInv, At("bootstrap", "cleanup") \/ At("bootstrap", "shutdown"),
         NEW fs \in Seq(Frames), Len(fs) = Len(stack["bootstrap"]),
         \A i \in 1 .. Len(fs) : fs[i].fn = stack["bootstrap"][i].fn,
         NEW d \in Module, ShutdownModule("bootstrap", d, fs), boot' = boot, entry' = entry
  PROVE  BootInv'
  <1> DEFINE os == stack["bootstrap"]
             gs == Append(fs, Frame("shutdown", d))
  <1>1. /\ ~NoCreationFailed /\ \A m \in Module : boot[m] # "running"
        /\ entry.bootstrap = "running" /\ Len(os) \in Nat \ {0}
        /\ os[Len(os)].fn \in {"cleanup", "shutdown"}
        /\ \A k \in 1 .. Len(os) :
             os[k].fn = "shutdown" => k > 1 /\ os[k - 1].fn \in {"cleanup", "shutdown"}
    BY BootReleasing
  <1>2. /\ Len(fs) \in Nat \ {0} /\ fs # <<>> /\ fs[Len(fs)].fn \in {"cleanup", "shutdown"}
        /\ \A k \in 1 .. Len(fs) :
             fs[k].fn = "shutdown" => k > 1 /\ fs[k - 1].fn \in {"cleanup", "shutdown"}
    <2>1. Len(fs) \in Nat \ {0} /\ fs # <<>> /\ fs[Len(fs)].fn \in {"cleanup", "shutdown"}
      BY <1>1
    <2>2. ASSUME NEW k \in 1 .. Len(fs), fs[k].fn = "shutdown"
          PROVE  k > 1 /\ fs[k - 1].fn \in {"cleanup", "shutdown"}
      <3>1. k > 1 /\ os[k - 1].fn \in {"cleanup", "shutdown"}
        BY <1>1, <2>2
      <3>2. k - 1 \in 1 .. Len(fs)
        BY <2>1, <3>1
      <3> QED
        BY <3>1, <3>2
    <2> QED
      BY <2>1, <2>2
  <1>3. Frame("shutdown", d) \in Frames /\ Frame("shutdown", d).fn = "shutdown"
    BY DEF Frame, Frames
  <1>4. /\ gs \in Seq(Frames) /\ gs # <<>> /\ Len(gs) = Len(fs) + 1
        /\ \A i \in 1 .. Len(fs) : gs[i] = fs[i]
        /\ gs[Len(fs) + 1].fn = "shutdown"
    BY <1>3, AppendProperties
  <1>5. stack'["bootstrap"] = fs \/ stack'["bootstrap"] = gs
    BY DEF ShutdownModule, IInv, TypeOK, Walk
  <1> HIDE DEF gs, os
  <1>6. CASE stack'["bootstrap"] = fs
    <2>1. Last(fs).fn \in {"cleanup", "shutdown"}
      BY <1>2, FrontLast
    <2> QED
      BY <1>1, <1>2, <1>6, <2>1, BootUnwound
  <1>7. CASE stack'["bootstrap"] = gs
    <2>1. Last(gs).fn = "shutdown"
      BY <1>2, <1>4, FrontLast
    <2>2. ASSUME NEW k \in 1 .. Len(gs), gs[k].fn = "shutdown"
          PROVE  k > 1 /\ gs[k - 1].fn \in {"cleanup", "shutdown"}
      <3>1. CASE k = Len(fs) + 1
        BY <1>2, <1>4, <3>1
      <3>2. CASE k \in 1 .. Len(fs)
        <4>1. k > 1 /\ fs[k - 1].fn \in {"cleanup", "shutdown"}
          BY <1>2, <1>4, <2>2, <3>2
        <4>2. k - 1 \in 1 .. Len(fs)
          BY <1>2, <3>2, <4>1
        <4> QED
          BY <1>4, <4>1, <4>2
      <3> QED
        BY <1>2, <1>4, <3>1, <3>2
    <2> QED
      BY <1>1, <1>4, <1>7, <2>1, <2>2, BootUnwound
  <1> QED
    BY <1>5, <1>6, <1>7

(* #shutdownModule from the catch block, and from itself.                  *)
LEMMA BootReleases ==
  ASSUME IInv, \/ ReleaseDependency \/ BootstrapRejects
               \/ ShutdownDependency("bootstrap") \/ ShutdownReturns("bootstrap")
               \/ ShutdownRejects("bootstrap")
  PROVE  BootInv'
  <1> DEFINE fs == stack["bootstrap"]
  <1>1. /\ ~NoCreationFailed /\ \A m \in Module : boot[m] # "running"
        /\ entry.bootstrap = "running"
        /\ fs \in Seq(Frames) /\ fs # <<>> /\ Len(fs) \in Nat \ {0}
        /\ fs[Len(fs)].fn \in {"cleanup", "shutdown"} /\ Last(fs) = fs[Len(fs)]
        /\ \A k \in 1 .. Len(fs) :
             fs[k].fn = "shutdown" => k > 1 /\ fs[k - 1].fn \in {"cleanup", "shutdown"}
        /\ At("bootstrap", "cleanup") \/ At("bootstrap", "shutdown")
    BY BootReleasing DEF ReleaseDependency, BootstrapRejects, ShutdownDependency,
       ShutdownReturns, ShutdownRejects, Destroyed
  <1>2. TypeOK /\ boot' = boot /\ Last(fs).of \in Module /\ Last(fs).next \in Nat \ {0}
    BY <1>1, BootStack DEF IInv, ReleaseDependency, BootstrapRejects, ShutdownDependency,
       ShutdownReturns, ShutdownRejects, moduleVars
  <1>3. ASSUME BootstrapRejects \/ ShutdownRejects("bootstrap") PROVE BootInv'
    <2>1. stack'["bootstrap"] = <<>>
      BY <1>2, <1>3 DEF BootstrapRejects, ShutdownRejects, TypeOK, Walk
    <2>2. entry'.bootstrap = "failed"
      BY <1>2, <1>3 DEF BootstrapRejects, ShutdownRejects, TypeOK
    <2> QED
      BY <1>1, <1>2, <2>1, <2>2, BootUnwound
  <1>4. ASSUME ReleaseDependency PROVE BootInv'
    <2> DEFINE m == Last(fs).of
               d == deps[m][Last(fs).next]
    <2>1. Last(fs).next <= Len(deps[m]) /\ ShutdownModule("bootstrap", d, Advanced(fs))
          /\ entry' = entry
      BY <1>4 DEF ReleaseDependency
    <2>2. d \in Module
      <3>1. deps[m] \in Seq(Module) /\ Len(deps[m]) \in Nat
        BY <1>2, LenProperties DEF TypeOK
      <3>2. Last(fs).next \in 1 .. Len(deps[m])
        BY <1>2, <2>1, <3>1
      <3> QED
        BY <3>1, <3>2, ElementOfSeq
    <2>3. /\ Advanced(fs) \in Seq(Frames) /\ Len(Advanced(fs)) = Len(fs)
          /\ \A i \in 1 .. Len(fs) - 1 : Advanced(fs)[i] = fs[i]
          /\ Advanced(fs)[Len(fs)] = [fs[Len(fs)] EXCEPT !.next = fs[Len(fs)].next + 1]
      BY <1>1, AdvancedFrames
    <2>4. Advanced(fs)[Len(fs)].fn = fs[Len(fs)].fn
      <3>1. fs[Len(fs)] \in Frames
        BY <1>1, ElementOfSeq
      <3> QED
        BY <2>3, <3>1 DEF Frames
    <2>5. \A i \in 1 .. Len(Advanced(fs)) : Advanced(fs)[i].fn = fs[i].fn
      <3>1. ASSUME NEW i \in 1 .. Len(Advanced(fs)) PROVE Advanced(fs)[i].fn = fs[i].fn
        <4>1. i \in 1 .. Len(fs) - 1 \/ i = Len(fs)
          BY <1>1, <2>3
        <4> QED
          BY <2>3, <2>4, <4>1
      <3> QED
        BY <3>1
    <2> HIDE DEF d
    <2> QED
      BY <1>1, <1>2, <2>1, <2>2, <2>3, <2>5, BootShutdownModule
  <1>5. ASSUME ShutdownDependency("bootstrap") PROVE BootInv'
    <2> DEFINE m == Last(fs).of
    <2>1. deps[m] # <<>> /\ ShutdownModule("bootstrap", Last(deps[m]), fs) /\ entry' = entry
      BY <1>5 DEF ShutdownDependency
    <2>2. Last(deps[m]) \in Module
      BY <1>2, <2>1, FrontLast DEF TypeOK
    <2> QED
      BY <1>1, <1>2, <2>1, <2>2, BootShutdownModule
  <1>6. ASSUME ShutdownReturns("bootstrap") PROVE BootInv'
    <2> DEFINE gs == Front(fs)
    <2>1. stack'["bootstrap"] = gs /\ entry' = entry
      BY <1>2, <1>6 DEF ShutdownReturns, TypeOK, Walk
    <2>2. /\ gs \in Seq(Frames) /\ Len(gs) = Len(fs) - 1
          /\ \A i \in 1 .. Len(fs) - 1 : gs[i] = fs[i]
      BY <1>1, FrontLast
    <2>3. Len(fs) > 1 /\ fs[Len(fs) - 1].fn \in {"cleanup", "shutdown"}
      <3>1. fs[Len(fs)].fn = "shutdown"
        BY <1>1, <1>6 DEF ShutdownReturns, Destroyed, At
      <3>2. Len(fs) \in 1 .. Len(fs)
        BY <1>1
      <3> QED
        BY <1>1, <3>1, <3>2
    <2> HIDE DEF gs
    <2>4. gs # <<>> /\ gs[Len(gs)].fn \in {"cleanup", "shutdown"}
      BY <1>1, <2>2, <2>3
    <2>5. Last(gs).fn \in {"cleanup", "shutdown"}
      BY <2>2, <2>4, FrontLast
    <2>6. ASSUME NEW k \in 1 .. Len(gs), gs[k].fn = "shutdown"
          PROVE  k > 1 /\ gs[k - 1].fn \in {"cleanup", "shutdown"}
      <3>1. k \in 1 .. Len(fs) /\ fs[k].fn = "shutdown"
        BY <1>1, <2>2, <2>6
      <3>2. k > 1 /\ fs[k - 1].fn \in {"cleanup", "shutdown"}
        BY <1>1, <3>1
      <3>3. gs[k - 1] = fs[k - 1]
        BY <1>1, <2>2, <3>2
      <3> QED
        BY <3>2, <3>3
    <2> QED
      BY <1>1, <1>2, <2>1, <2>2, <2>4, <2>5, <2>6, BootUnwound
  <1> QED
    BY <1>3, <1>4, <1>5, <1>6

(* The destroying walk has frames only once nothing is being created.      *)
LEMMA BootOver ==
  ASSUME IInv, stack["shutdown"] # <<>> \/ entry.stop \in {"stopping"} \cup Settled
                 \/ entry.bootstrap \in Settled
  PROVE  stack["bootstrap"] = <<>> /\ entry.bootstrap \in Settled
  BY DEF IInv, BootInv, EntryInv, Settled

(* The part of the invariant about creation is kept by every action.       *)
LEMMA BootNext ==
  ASSUME IInv, [Next]_vars
  PROVE  BootInv'
  <1> USE DEF vars, moduleVars, graphVars
  <1>1. TypeOK
    BY DEF IInv
  <1>2. stack \in [Walk -> Seq(Frames)]
    BY <1>1 DEF TypeOK
  <1>3. CASE CallBootstrap
    BY <1>1, <1>2, <1>3, BootCalled DEF CallBootstrap, Walk, TypeOK
  <1>4. CASE CallStart
    <2>1. CASE entry.bootstrap = "none"
      BY <1>1, <1>2, <1>4, <2>1, BootCalled DEF CallStart, Walk, TypeOK
    <2>2. CASE entry.bootstrap # "none"
      BY <1>1, <1>4, <2>2, BootQuiet DEF CallStart, TypeOK
    <2> QED
      BY <2>1, <2>2
  <1>5. CASE CallShutdown
    BY <1>1, <1>5, BootQuiet DEF CallShutdown, TypeOK
  <1>6. CASE BootstrapDependency
    BY <1>6, BootDescends
  <1>7. CASE ReleaseDependency \/ BootstrapRejects
    BY <1>7, BootReleases
  <1>8. ASSUME NEW w \in Walk,
               ShutdownDependency(w) \/ ShutdownReturns(w) \/ ShutdownRejects(w)
        PROVE  BootInv'
    <2>1. CASE w = "bootstrap"
      BY <1>8, <2>1, BootReleases
    <2>2. CASE w = "shutdown"
      <3>1. stack["bootstrap"] = <<>>
        BY <1>8, <2>2, BootOver DEF ShutdownDependency, ShutdownReturns, ShutdownRejects,
           Destroyed, At
      <3>2. stack'["bootstrap"] = stack["bootstrap"]
        BY <1>2, <1>8, <2>2 DEF ShutdownDependency, ShutdownReturns, ShutdownRejects,
           ShutdownModule, Walk
      <3>3. boot' = boot
        BY <1>8 DEF ShutdownDependency, ShutdownReturns, ShutdownRejects
      <3>4. entry'.bootstrap = entry.bootstrap
        BY <1>1, <1>8, <2>2 DEF ShutdownDependency, ShutdownReturns, ShutdownRejects, TypeOK
      <3> QED
        BY <3>1, <3>2, <3>3, <3>4, BootQuiet
    <2> QED
      BY <2>1, <2>2 DEF Walk
  <1>9. CASE EntryStep
    <2>1. boot' = boot /\ deps' = deps
      BY <1>9 DEF EntryStep, EntryStarts, EntryStartSettles, EntryStops, EntryStopSettles,
         BackgroundTasksSettle, EntryShutdown
    <2>2. entry'.bootstrap = entry.bootstrap
      BY <1>1, <1>9 DEF EntryStep, EntryStarts, EntryStartSettles, EntryStops,
         EntryStopSettles, EntryShutdown, BackgroundTasksSettle, TypeOK
    <2>3. stack'["bootstrap"] = stack["bootstrap"]
      BY <1>2, <1>9 DEF EntryStep, EntryStarts, EntryStartSettles, EntryStops,
         EntryStopSettles, EntryShutdown, BackgroundTasksSettle, ShutdownModule, Walk
    <2> QED
      BY <2>1, <2>2, <2>3, BootQuiet
  <1>10. ASSUME NEW m \in Module, InstanceStep(m) PROVE BootInv'
    <2>1. CASE PerformBootstrap(m)
      BY <2>1, BootPerforms
    <2>2. CASE BootstrapReturns(m)
      BY <2>2, BootReturns
    <2>3. CASE BootstrapFails(m)
      BY <2>3, BootFails
    <2>4. CASE \/ StartHooksBegin(m) \/ StartRejects(m) \/ StopHooksBegin(m)
               \/ StopDependencies(m) \/ StopSettles(m) \/ PerformDestroy(m)
      BY <2>4, BootQuiet DEF StartHooksBegin, StartRejects, StopHooksBegin,
         StopDependencies, StopSettles, PerformDestroy
    <2> QED
      BY <1>10, <2>1, <2>2, <2>3, <2>4 DEF InstanceStep
  <1>11. ASSUME NEW m \in Module, HookStep(m) PROVE BootInv'
    <2>1. CASE CreateHooksSettle(m)
      BY <2>1, BootSettles
    <2>2. CASE StartHookSettles(m) \/ StopHookSettles(m) \/ DestroyHooksSettle(m)
      BY <2>2, BootQuiet DEF StartHookSettles, StopHookSettles, DestroyHooksSettle
    <2> QED
      BY <1>11, <2>1, <2>2 DEF HookStep
  <1>12. CASE Exit \/ UNCHANGED vars
    BY <1>12, BootQuiet DEF Exit
  <1> QED
    BY <1>3, <1>4, <1>5, <1>6, <1>7, <1>8, <1>9, <1>10, <1>11, <1>12 DEF Next, WalkStep

(* The walks leave the phases of start() and stop() alone.                 *)
LEMMA WalkEntry ==
  ASSUME IInv, WalkStep
  PROVE  /\ entry'.start = entry.start /\ entry'.stop = entry.stop
         /\ start' = start /\ startRunning' = startRunning
         /\ entry.bootstrap \in Settled => entry'.bootstrap = entry.bootstrap
         /\ entry'.shutdown = "none" <=> entry.shutdown = "none"
         /\ \/ entry'.shutdown = entry.shutdown
            \/ stack["shutdown"] # <<>>
         /\ stack["shutdown"] = <<>> => stack'["shutdown"] = <<>>
  <1>1. TypeOK /\ stack \in [Walk -> Seq(Frames)]
    BY DEF IInv, TypeOK
  <1>2. stack["shutdown"] # <<>> => entry.shutdown # "none"
    BY DEF IInv, EntryInv, Settled
  <1>3. entry.bootstrap \in Settled => stack["bootstrap"] = <<>>
    BY BootOver
  <1>4. CASE BootstrapDependency
    BY <1>1, <1>4 DEF BootstrapDependency, moduleVars, TypeOK, Walk
  <1>5. CASE ReleaseDependency
    BY <1>1, <1>5 DEF ReleaseDependency, ShutdownModule, TypeOK, Walk
  <1>6. CASE BootstrapRejects
    BY <1>1, <1>3, <1>6 DEF BootstrapRejects, At, moduleVars, TypeOK, Walk
  <1>7. ASSUME NEW w \in Walk, ShutdownDependency(w)
        PROVE  /\ entry' = entry /\ start' = start /\ startRunning' = startRunning
               /\ stack["shutdown"] = <<>> => stack'["shutdown"] = <<>>
    BY <1>1, <1>7 DEF ShutdownDependency, ShutdownModule, Destroyed, At, Walk
  <1>8. ASSUME NEW w \in Walk, ShutdownReturns(w) \/ ShutdownRejects(w)
        PROVE  /\ entry'.start = entry.start /\ entry'.stop = entry.stop
               /\ start' = start /\ startRunning' = startRunning
               /\ w = "shutdown" => entry'.bootstrap = entry.bootstrap
               /\ w = "bootstrap" => entry'.shutdown = entry.shutdown
               /\ entry'.shutdown = entry.shutdown \/ entry'.shutdown # "none"
               /\ stack[w] # <<>>
               /\ stack["shutdown"] = <<>> => stack'["shutdown"] = <<>>
    BY <1>1, <1>8 DEF ShutdownReturns, ShutdownRejects, Destroyed, At, Walk, moduleVars, TypeOK
  <1>9. ASSUME NEW w \in Walk, ShutdownReturns(w) \/ ShutdownRejects(w)
        PROVE  /\ entry.bootstrap \in Settled => entry'.bootstrap = entry.bootstrap
               /\ entry'.shutdown = "none" <=> entry.shutdown = "none"
               /\ entry'.shutdown = entry.shutdown \/ stack["shutdown"] # <<>>
    BY <1>2, <1>3, <1>8, <1>9 DEF Walk
  <1> QED
    BY <1>4, <1>5, <1>6, <1>7, <1>8, <1>9 DEF WalkStep

(* The phases of EntryModule stay in their order.                          *)
LEMMA EntryNext ==
  ASSUME IInv, [Next]_vars, "run" \notin Impatient
  PROVE  EntryInv'
  <1> USE DEF vars, moduleVars, graphVars
  <1>1. TypeOK /\ EntryInv /\ stack \in [Walk -> Seq(Frames)]
    BY DEF IInv, TypeOK
  <1>2. CASE CallBootstrap
    BY <1>1, <1>2 DEF CallBootstrap, EntryInv, TypeOK, Walk, Settled
  <1>3. CASE CallStart
    <2>1. /\ entry'.start = "waiting" /\ entry'.stop = entry.stop
          /\ entry'.shutdown = entry.shutdown /\ entry.shutdown = "none"
          /\ entry.start = "none" /\ start' = start
          /\ stack'["shutdown"] = stack["shutdown"]
      BY <1>1, <1>3 DEF CallStart, TypeOK, Walk
    <2> QED
      BY <1>1, <2>1 DEF EntryInv, Settled
  <1>4. CASE CallShutdown
    <2>1. /\ entry'.bootstrap = entry.bootstrap /\ entry'.start = entry.start
          /\ entry'.shutdown = "stopping"
          /\ entry'.stop = IF entry.start = "none" THEN "ok" ELSE "waiting"
          /\ start' = start /\ stack' = stack /\ entry.stop = "none"
      BY <1>1, <1>4 DEF CallShutdown, EntryInv, TypeOK
    <2>2. entry.start = "none" => entry.bootstrap \in Settled
      BY <1>4 DEF CallShutdown
    <2>3. stack["shutdown"] = <<>>
      BY <1>1, <2>1 DEF EntryInv, Settled
    <2> QED
      BY <1>1, <2>1, <2>2, <2>3 DEF EntryInv, Settled, Draining
  <1>5. CASE WalkStep
    BY <1>1, <1>5, WalkEntry DEF EntryInv, Settled
  <1>6. CASE EntryStarts
    BY <1>1, <1>6 DEF EntryStarts, EntryInv, TypeOK, Walk, Settled
  <1>7. CASE EntryStartSettles
    BY <1>1, <1>7 DEF EntryStartSettles, EntryInv, TypeOK, Walk, Settled
  <1>8. CASE EntryStops
    BY <1>1, <1>8 DEF EntryStops, EntryInv, TypeOK, Walk, Settled
  <1>9. CASE EntryStopSettles \/ BackgroundTasksSettle
    BY <1>1, <1>9 DEF EntryStopSettles, BackgroundTasksSettle, Draining, EntryInv, TypeOK, Walk, Settled
  <1>10. CASE EntryShutdown
    BY <1>1, <1>10 DEF EntryShutdown, EntryInv, TypeOK, Walk, Settled
  <1>11. ASSUME NEW m \in Module, InstanceStep(m) PROVE EntryInv'
    <2>1. CASE BootstrapReturns(m)
      <3>1. stack["bootstrap"] # <<>> /\ entry.bootstrap = "running"
        BY <2>1 DEF BootstrapReturns, Bootstrapping, At, IInv, BootInv
      <3>2. /\ entry'.start = entry.start /\ entry'.stop = entry.stop
            /\ entry'.shutdown = entry.shutdown /\ start' = start
            /\ stack'["shutdown"] = stack["shutdown"]
        BY <1>1, <2>1 DEF BootstrapReturns, TypeOK, Walk
      <3> QED
        BY <1>1, <3>1, <3>2 DEF EntryInv, Settled
    <2>2. CASE PerformBootstrap(m) \/ BootstrapFails(m)
      BY <1>1, <2>2 DEF PerformBootstrap, BootstrapFails, EntryInv, Walk
    <2>3. CASE StartHooksBegin(m) \/ StartRejects(m)
      BY <1>1, <2>3 DEF StartHooksBegin, StartRejects, EntryInv, TypeOK
    <2>4. CASE StopHooksBegin(m) \/ StopDependencies(m) \/ StopSettles(m) \/ PerformDestroy(m)
      BY <1>1, <2>4 DEF StopHooksBegin, StopDependencies, StopSettles, PerformDestroy, EntryInv
    <2> QED
      BY <1>11, <2>1, <2>2, <2>3, <2>4 DEF InstanceStep
  <1>12. ASSUME NEW m \in Module, HookStep(m) PROVE EntryInv'
    <2>1. CASE StartHookSettles(m)
      <3>1. start[m] # "none"
        BY <2>1 DEF StartHookSettles, IInv, StartInv
      <3> QED
        BY <1>1, <2>1, <3>1 DEF StartHookSettles, EntryInv, TypeOK
    <2>2. CASE CreateHooksSettle(m) \/ StopHookSettles(m) \/ DestroyHooksSettle(m)
      BY <1>1, <2>2 DEF CreateHooksSettle, StopHookSettles, DestroyHooksSettle, EntryInv
    <2> QED
      BY <1>12, <2>1, <2>2 DEF HookStep
  <1>13. CASE Exit \/ UNCHANGED vars
    BY <1>1, <1>13 DEF Exit, EntryInv
  <1> QED
    BY <1>2, <1>3, <1>4, <1>5, <1>6, <1>7, <1>8, <1>9, <1>10, <1>11, <1>12, <1>13
       DEF Next, EntryStep

(* Hooks run over started dependencies.                                    *)
LEMMA StartNext ==
  ASSUME IInv, [Next]_vars
  PROVE  StartInv'
  <1> USE DEF vars, moduleVars, graphVars
  <1>1. TypeOK /\ StartInv /\ \A m \in Module : RequiredBy(m) \subseteq Module
    BY DEF IInv, RequiredBy
  <1>2. ASSUME start' = start, startRunning' = startRunning PROVE StartInv'
    BY <1>1, <1>2 DEF StartInv
  <1>3. CASE CallBootstrap \/ CallStart \/ CallShutdown \/ Exit \/ UNCHANGED vars
    BY <1>2, <1>3 DEF CallBootstrap, CallStart, CallShutdown, Exit
  <1>4. CASE WalkStep
    BY <1>2, <1>4, WalkEntry
  <1>5. CASE EntryStarts
    <2>1. \A m \in Module : start[m] = "none"
      BY <1>5 DEF EntryStarts, IInv, EntryInv
    <2>2. \A m \in Module : startRunning[m] \in Nat /\ ~(startRunning[m] > 0)
                            /\ startRunning[m] <= StartHooks[m]
      BY <1>1, <2>1 DEF StartInv, TypeOK
    <2>3. start' = start \/ start' = [m \in Module |-> "deps"]
      BY <1>5 DEF EntryStarts
    <2> QED
      BY <1>2, <1>5, <2>2, <2>3 DEF EntryStarts, StartInv
  <1>6. CASE EntryStartSettles \/ EntryStops \/ EntryStopSettles \/ EntryShutdown
               \/ BackgroundTasksSettle
    BY <1>2, <1>6 DEF EntryStartSettles, EntryStops, EntryStopSettles, EntryShutdown,
       BackgroundTasksSettle
  <1>7. ASSUME NEW m \in Module, InstanceStep(m) PROVE StartInv'
    <2>1. CASE StartHooksBegin(m)
      <3>1. /\ start[m] = "deps" /\ \A d \in RequiredBy(m) : start[d] = "ok"
            /\ start'[m] = IF StartHooks[m] = 0 THEN "ok" ELSE "hooks"
            /\ startRunning'[m] = StartHooks[m] /\ StartHooks[m] \in Nat
            /\ \A x \in Module \ {m} : start'[x] = start[x] /\ startRunning'[x] = startRunning[x]
        BY <1>1, <2>1, ModuleAssumption DEF StartHooksBegin, TypeOK
      <3>2. \A d \in Module : start[d] = "ok" => start'[d] = "ok"
        BY <3>1
      <3> QED
        BY <1>1, <3>1, <3>2 DEF StartInv
    <2>2. CASE StartRejects(m)
      <3>0. startRunning[m] \in Nat /\ ~(startRunning[m] > 0)
        BY <1>1, <2>2 DEF StartRejects, StartInv, TypeOK
      <3>1. /\ start[m] = "deps" /\ start'[m] = "failed" /\ startRunning' = startRunning
            /\ \A x \in Module \ {m} : start'[x] = start[x]
        BY <1>1, <2>2 DEF StartRejects, TypeOK
      <3>2. \A d \in Module : start[d] = "ok" => start'[d] = "ok"
        BY <3>1
      <3> QED
        BY <1>1, <3>0, <3>1, <3>2 DEF StartInv
    <2>3. CASE start' = start /\ startRunning' = startRunning
      BY <1>2, <2>3
    <2> QED
      BY <1>7, <2>1, <2>2, <2>3 DEF InstanceStep, PerformBootstrap, BootstrapReturns,
         BootstrapFails, StopHooksBegin, StopDependencies, StopSettles, PerformDestroy
  <1>8. ASSUME NEW m \in Module, HookStep(m) PROVE StartInv'
    <2>1. CASE StartHookSettles(m)
      <3>1. start[m] \in {"hooks", "failed"} /\ startRunning[m] \in Nat /\ startRunning[m] > 0
        BY <1>1, <2>1 DEF StartHookSettles, StartInv, TypeOK
      <3>2. /\ \/ start'[m] = "failed"
               \/ start'[m] = start[m]
               \/ start'[m] = "ok" /\ start[m] = "hooks" /\ startRunning[m] = 1
            /\ startRunning'[m] = startRunning[m] - 1
            /\ \A x \in Module \ {m} : start'[x] = start[x] /\ startRunning'[x] = startRunning[x]
        BY <1>1, <2>1 DEF StartHookSettles, TypeOK
      <3>3. \A d \in Module : start[d] = "ok" => start'[d] = "ok"
        BY <3>1, <3>2
      <3>4. /\ StartHooks[m] \in Nat /\ startRunning[m] <= StartHooks[m]
            /\ start[m] = "failed" => startRunning[m] = 0 \/ startRunning[m] < StartHooks[m]
        BY <1>1, ModuleAssumption DEF StartInv
      <3>5. /\ startRunning'[m] > 0 => start'[m] \in {"hooks", "failed"}
            /\ startRunning'[m] <= StartHooks[m]
            /\ start'[m] = "failed" => startRunning'[m] = 0 \/ startRunning'[m] < StartHooks[m]
        BY <3>1, <3>2, <3>4
      <3>6. start'[m] \in {"hooks", "ok"} => \A d \in RequiredBy(m) : start'[d] = "ok"
        BY <1>1, <3>1, <3>2, <3>3 DEF StartInv
      <3> QED
        BY <1>1, <3>2, <3>3, <3>5, <3>6 DEF StartInv
    <2>2. CASE start' = start /\ startRunning' = startRunning
      BY <1>2, <2>2
    <2> QED
      BY <1>8, <2>1, <2>2 DEF HookStep, CreateHooksSettle, StopHookSettles, DestroyHooksSettle
  <1> QED
    BY <1>3, <1>4, <1>5, <1>6, <1>7, <1>8 DEF Next, EntryStep

(* What the release of a module from a dependency list does to the lists.  *)
LEMMA ConsumedNext ==
  ASSUME IInv, [Next]_vars
  PROVE  Consumed'
  <1> USE DEF vars, moduleVars, graphVars
  <1>1. TypeOK /\ Consumed
    BY DEF IInv
  <1>2. ASSUME deps' = deps PROVE Consumed'
    BY <1>1, <1>2 DEF Consumed
  <1>3. ASSUME NEW w \in Walk, ShutdownDependency(w) PROVE Consumed'
    <2> DEFINE m == Last(stack[w]).of
    <2>1. m \in Module
      <3>1. stack[w] # <<>> /\ stack[w] \in Seq(Frames)
        BY <1>1, <1>3 DEF ShutdownDependency, Destroyed, At, TypeOK
      <3>2. Last(stack[w]) \in Frames
        BY <3>1, FrontLast
      <3> QED
        BY <3>2 DEF Frames
    <2>2. deps[m] \in Seq(Module) /\ deps[m] # <<>> /\ deps' = [deps EXCEPT ![m] = Front(@)]
      BY <1>1, <1>3, <2>1 DEF ShutdownDependency, TypeOK
    <2>3. /\ Len(deps[m]) \in Nat \ {0} /\ Len(Front(deps[m])) = Len(deps[m]) - 1
          /\ \A i \in 1 .. Len(deps[m]) - 1 : Front(deps[m])[i] = deps[m][i]
      BY <2>2, FrontLast
    <2>4. deps'[m] = Front(deps[m]) /\ \A x \in Module \ {m} : deps'[x] = deps[x]
      BY <1>1, <2>1, <2>2 DEF TypeOK
    <2>5. Len(Requires[m]) \in Nat
      BY <2>1, ModuleAssumption, LenProperties
    <2> HIDE DEF m
    <2>6. ASSUME NEW x \in Module
          PROVE  /\ Len(deps'[x]) <= Len(Requires[x])
                 /\ \A i \in 1 .. Len(deps'[x]) : deps'[x][i] = Requires[x][i]
      <3>1. CASE x = m
        <4>1. /\ Len(deps[m]) <= Len(Requires[m])
              /\ \A i \in 1 .. Len(deps[m]) : deps[m][i] = Requires[m][i]
          BY <1>1, <2>1 DEF Consumed
        <4> QED
          BY <2>3, <2>4, <2>5, <3>1, <4>1
      <3>2. CASE x # m
        BY <1>1, <2>4, <3>2 DEF Consumed
      <3> QED
        BY <3>1, <3>2
    <2> QED
      BY <2>6 DEF Consumed
  <1> QED
    BY <1>2, <1>3 DEF Next, WalkStep, EntryStep, InstanceStep, HookStep, Exit,
       CallBootstrap, CallStart, CallShutdown, BootstrapDependency, ReleaseDependency,
       BootstrapRejects, ShutdownReturns, ShutdownRejects, EntryStarts, EntryStartSettles,
       EntryStops, EntryStopSettles, EntryShutdown, BackgroundTasksSettle, PerformBootstrap, BootstrapReturns,
       BootstrapFails, StartHooksBegin, StartRejects, StopHooksBegin, StopDependencies,
       StopSettles, PerformDestroy, CreateHooksSettle, StartHookSettles, StopHookSettles,
       DestroyHooksSettle

(* Once the walk that destroys has begun without a failed creation, every  *)
(* module has been created.                                                *)
LEMMA AllCreated ==
  ASSUME IInv, NoCreationFailed, entry.stop \in Settled
  PROVE  /\ \A m \in Module : boot[m] = "ok"
         /\ stack["bootstrap"] = <<>>
  BY BootOver DEF IInv, BootInv, Settled

(* What the actions that release nothing leave of ReleaseInv.              *)
LEMMA ReleaseQuiet ==
  ASSUME IInv, deps' = deps, refs' = refs,
         \A m \in Module : boot'[m] # "failed" => boot[m] # "failed",
         \A m \in Module : /\ destroy[m] = "none" <=> destroy'[m] = "none"
                           /\ destroy[m] = "ok" => destroy'[m] = "ok",
         entry.stop \in Settled => entry'.stop \in Settled,
         Len(stack'["shutdown"]) \in Nat,
         Len(stack'["shutdown"]) <= Len(stack["shutdown"]),
         \A k \in 1 .. Len(stack'["shutdown"]) :
           stack'["shutdown"][k] = stack["shutdown"][k]
  PROVE  ReleaseInv'
  <1> SUFFICES ASSUME NoCreationFailed' PROVE ReleaseOrder'
    BY DEF ReleaseInv
  <1>1. NoCreationFailed
    BY DEF NoCreationFailed
  <1>2. TypeOK /\ ReleaseInv
    BY DEF IInv
  <1>3. \A d : References(d)' = References(d)
    BY DEF References
  <1>4. Len(stack["shutdown"]) \in Nat
    BY <1>2, LenProperties DEF TypeOK, Walk
  <1>5. \A k \in 1 .. Len(stack'["shutdown"]) : stack["shutdown"][k].of \in Module
    <2>1. ASSUME NEW k \in 1 .. Len(stack'["shutdown"]) PROVE stack["shutdown"][k].of \in Module
      <3>1. k \in 1 .. Len(stack["shutdown"])
        BY <1>4
      <3>2. stack["shutdown"][k] \in Frames
        BY <1>2, <3>1, ElementOfSeq DEF TypeOK, Walk
      <3> QED
        BY <3>2 DEF Frames
    <2> QED
      BY <2>1
  <1> QED
    BY <1>1, <1>2, <1>3, <1>4, <1>5 DEF ReleaseInv, ReleaseOrder

(* A call of #shutdownModule(d) by the walk that destroys: if it destroys  *)
(* d, nothing that requires d is left.                                     *)
LEMMA Released ==
  ASSUME IInv, NoCreationFailed, \A m \in Module : boot[m] = "ok", boot' = boot, start' = start,
         NEW d \in Module, NEW fs \in Seq(Frames), ShutdownModule("shutdown", d, fs),
         deps' \in [Module -> Seq(Module)],
         fs = <<>> \/ fs = stack["shutdown"], entry.stop \in Settled, entry'.stop = entry.stop,
         \A x \in Module \ {Root} : refs'[x] = Cardinality(References(x)'),
         \A x \in Module : Len(deps'[x]) < Len(Requires[x]) => destroy[x] = "ok",
         refs[d] <= 1 => \A x \in Module : d \in RequiredBy(x) => destroy[x] = "ok"
  PROVE  ReleaseInv'
  <1> DEFINE gs == Append(fs, Frame("shutdown", d))
  <1>1. TypeOK /\ ReleaseOrder
    BY DEF IInv, ReleaseInv
  <1>2. fs \in Seq(Frames) /\ gs \in Seq(Frames) /\ Len(fs) \in Nat
        /\ Len(gs) = Len(fs) + 1 /\ gs[Len(fs) + 1] = Frame("shutdown", d)
        /\ \A k \in 1 .. Len(fs) : gs[k] = fs[k]
    <2>1. Frame("shutdown", d) \in Frames
      BY DEF Frame, Frames
    <2> QED
      BY <2>1, AppendProperties, LenProperties
  <1>3. \A k \in 1 .. Len(fs) : fs[k].of \in Module /\ destroy[fs[k].of] # "none"
    <2>1. CASE fs = <<>>
      BY <2>1, LenProperties
    <2>2. CASE fs = stack["shutdown"]
      <3>1. \A k \in 1 .. Len(fs) : fs[k] \in Frames
        BY <1>2, ElementOfSeq
      <3> QED
        BY <1>1, <2>2, <3>1 DEF ReleaseOrder, Frames
    <2> QED
      BY <2>1, <2>2
  <1>4. \/ refs[d] > 1 /\ stack'["shutdown"] = fs /\ destroy' = destroy
        \/ /\ refs[d] <= 1 /\ stack'["shutdown"] = gs
           /\ destroy' = IF destroy[d] # "none" THEN destroy ELSE [destroy EXCEPT ![d] = "waiting"]
    <2>1. refs[d] \in Int
      BY <1>1 DEF TypeOK
    <2>2. boot[d] = "ok"
      OBVIOUS
    <2>3. stack'["shutdown"] = IF refs[d] > 1 THEN fs ELSE gs
      BY <1>1 DEF ShutdownModule, TypeOK, Walk
    <2>4. ~(refs[d] > 1) => refs[d] <= 1
      BY <2>1
    <2> QED
      BY <2>2, <2>3, <2>4 DEF ShutdownModule, DestroyCalled
  <1>5. \A x \in Module : /\ destroy[x] = "ok" => destroy'[x] = "ok"
                          /\ destroy[x] # "none" => destroy'[x] # "none"
                          /\ destroy'[x] # "none" => destroy[x] # "none" \/ (x = d /\ refs[d] <= 1)
    BY <1>1, <1>4 DEF TypeOK
  <1>6. refs[d] <= 1 => destroy'[d] # "none"
    BY <1>1, <1>4 DEF TypeOK
  <1> HIDE DEF gs
  <1>7. \A k \in 1 .. Len(stack'["shutdown"]) : destroy'[stack'["shutdown"][k].of] # "none"
    <2>1. CASE stack'["shutdown"] = fs
      BY <1>3, <1>5, <2>1
    <2>2. CASE stack'["shutdown"] = gs /\ refs[d] <= 1
      <3>1. ASSUME NEW k \in 1 .. Len(gs) PROVE destroy'[gs[k].of] # "none"
        <4>1. CASE k \in 1 .. Len(fs)
          BY <1>2, <1>3, <1>5, <4>1
        <4>2. CASE k = Len(fs) + 1
          BY <1>2, <1>6, <2>2, <4>2 DEF Frame
        <4> QED
          BY <1>2, <3>1, <4>1, <4>2
      <3> QED
        BY <2>2, <3>1
    <2> QED
      BY <1>4, <2>1, <2>2
  <1>8. \A x, y \in Module : y \in RequiredBy(x) /\ destroy'[y] # "none" => destroy'[x] = "ok"
    BY <1>1, <1>5 DEF ReleaseOrder
  <1> QED
    BY <1>5, <1>7, <1>8 DEF ReleaseInv, ReleaseOrder

(* The walk that destroys begins at the root, which nothing requires.      *)
LEMMA ReleaseBegins ==
  ASSUME IInv, EntryShutdown
  PROVE  ReleaseInv'
  <1>1. TypeOK /\ ReleaseInv /\ entry.stop \in Settled /\ entry'.stop = entry.stop
        /\ boot' = boot /\ start' = start /\ deps' = deps
    BY DEF IInv, EntryShutdown, TypeOK
  <1>2. CASE ~NoCreationFailed
    BY <1>1, <1>2 DEF ReleaseInv, NoCreationFailed
  <1>3. CASE NoCreationFailed
    <2>1. ReleaseOrder /\ \A m \in Module : boot[m] = "ok"
      BY <1>1, <1>3, AllCreated DEF ReleaseInv
    <2>2. <<>> \in Seq(Frames) /\ ShutdownModule("shutdown", Root, <<>>)
      BY DEF EntryShutdown
    <2>3. \A x \in Module \ {Root} : refs'[x] = Cardinality(References(x)')
      <3>1. \A x \in Module : References(x)' = References(x)
        BY <1>1 DEF References
      <3>2. \A x \in Module \ {Root} : refs'[x] = refs[x]
        BY <1>1, <2>2 DEF ShutdownModule, TypeOK
      <3> QED
        BY <2>1, <3>1, <3>2 DEF ReleaseOrder
    <2>4. \A x \in Module : Len(deps'[x]) < Len(Requires[x]) => destroy[x] = "ok"
      BY <1>1, <2>1 DEF ReleaseOrder
    <2>5. \A x \in Module : Root \in RequiredBy(x) => destroy[x] = "ok"
      BY GraphAssumption
    <2>6. deps' \in [Module -> Seq(Module)] /\ Root \in Module
      BY <1>1, ModuleAssumption DEF TypeOK
    <2> QED
      BY <1>1, <1>3, <2>1, <2>2, <2>3, <2>4, <2>5, <2>6, Released
  <1> QED
    BY <1>2, <1>3

(* The walk that destroys takes the last dependency of a destroyed module  *)
(* off its list.                                                           *)
LEMMA ReleasePops ==
  ASSUME IInv, ShutdownDependency("shutdown"), NEW m \in Module, NEW d \in Module,
         m = Last(stack["shutdown"]).of, d = Last(deps[m])
  PROVE  ReleaseInv'
  <1> DEFINE fs == stack["shutdown"]
  <1>1. /\ TypeOK /\ ReleaseInv /\ EntryInv /\ Consumed /\ boot' = boot /\ start' = start
        /\ entry' = entry /\ fs # <<>> /\ destroy[m] \in {"none", "ok"} /\ deps[m] # <<>>
        /\ deps' = [deps EXCEPT ![m] = Front(@)] /\ ShutdownModule("shutdown", d, fs)
    BY DEF IInv, ShutdownDependency, Destroyed, At
  <1>2. entry.stop \in Settled
    BY <1>1 DEF EntryInv
  <1>3. CASE ~NoCreationFailed
    BY <1>1, <1>3 DEF ReleaseInv, NoCreationFailed
  <1>4. CASE NoCreationFailed
    <2>1. ReleaseOrder /\ \A x \in Module : boot[x] = "ok"
      BY <1>1, <1>2, <1>4, AllCreated DEF ReleaseInv
    <2>2. fs \in Seq(Frames) /\ Last(fs) = fs[Len(fs)] /\ Last(fs) \in Frames
          /\ Len(fs) \in 1 .. Len(fs)
      <3>1. fs \in Seq(Frames)
        BY <1>1 DEF TypeOK, Walk
      <3>2. Len(fs) \in Nat \ {0} /\ Last(fs) = fs[Len(fs)] /\ Last(fs) \in Frames
        BY <1>1, <3>1, FrontLast
      <3> QED
        BY <3>1, <3>2
    <2>3. destroy[m] = "ok"
      BY <1>1, <2>1, <2>2 DEF ReleaseOrder, Frames
    <2>4. deps \in [Module -> Seq(Module)] /\ deps[m] \in Seq(Module)
      BY <1>1, <2>3 DEF TypeOK
    <2>5. /\ Len(deps[m]) \in Nat \ {0} /\ d = deps[m][Len(deps[m])]
          /\ Front(deps[m]) \in Seq(Module)
      BY <1>1, <2>4, FrontLast
    <2>6. deps' \in [Module -> Seq(Module)] /\ \A x \in Module \ {m} : deps'[x] = deps[x]
      BY <1>1, <2>3, <2>4, <2>5
    <2>7. d # Root /\ d \in RequiredBy(m)
      <3>1. Len(deps[m]) \in 1 .. Len(Requires[m]) /\ Requires[m][Len(deps[m])] = d
        <4>1. Len(Requires[m]) \in Nat /\ Len(deps[m]) \in 1 .. Len(deps[m])
          BY <2>3, <2>5, ModuleAssumption, LenProperties
        <4> QED
          BY <1>1, <2>3, <2>5, <4>1 DEF Consumed
      <3> QED
        BY <2>3, <2>5, <3>1, GraphAssumption DEF RequiredBy
    <2>8. \A x \in Module : /\ References(x)' = References(x) \ {<<m, Len(deps[m])>>}
                            /\ <<m, Len(deps[m])>> \in References(x) <=> x = d
      BY <1>1, <2>3, <2>4, ReferencesPopped
    <2>9. \A x \in Module : IsFiniteSet(References(x))
      BY <2>4, ReferencesFinite
    <2>10. /\ refs'[d] = refs[d] - 1 /\ refs[d] \in Int
           /\ \A x \in Module \ {d} : refs'[x] = refs[x]
      BY <1>1, <2>5 DEF ShutdownModule, TypeOK
    <2>11. refs[d] = Cardinality(References(d)) /\ refs'[d] = Cardinality(References(d)')
      <3>1. /\ References(d)' = References(d) \ {<<m, Len(deps[m])>>}
            /\ <<m, Len(deps[m])>> \in References(d) /\ IsFiniteSet(References(d))
        BY <2>5, <2>8, <2>9
      <3>2. Cardinality(References(d) \ {<<m, Len(deps[m])>>}) = Cardinality(References(d)) - 1
        BY <3>1, FS_RemoveElement
      <3>3. refs[d] = Cardinality(References(d))
        BY <2>1, <2>5, <2>7 DEF ReleaseOrder
      <3> QED
        BY <2>10, <3>1, <3>2, <3>3
    <2>12. \A x \in Module \ {Root} : refs'[x] = Cardinality(References(x)')
      <3>1. ASSUME NEW x \in Module \ {d} PROVE Cardinality(References(x)') = Cardinality(References(x))
        <4>1. /\ References(x)' = References(x) \ {<<m, Len(deps[m])>>}
              /\ <<m, Len(deps[m])>> \notin References(x)
          BY <2>8
        <4>2. References(x) \ {<<m, Len(deps[m])>>} = References(x)
          BY <4>1
        <4> QED
          BY <4>1, <4>2
      <3> QED
        BY <2>1, <2>10, <2>11, <3>1 DEF ReleaseOrder
    <2>13. \A x \in Module : Len(deps'[x]) < Len(Requires[x]) => destroy[x] = "ok"
      BY <2>1, <2>3, <2>6 DEF ReleaseOrder
    <2>14. ASSUME refs[d] <= 1, NEW x \in Module, d \in RequiredBy(x) PROVE destroy[x] = "ok"
      <3>1. References(d)' = {}
        <4>0. /\ References(d)' = References(d) \ {<<m, Len(deps[m])>>}
              /\ IsFiniteSet(References(d))
          BY <2>5, <2>8, <2>9
        <4>1. IsFiniteSet(References(d)')
          <5>1. IsFiniteSet(References(d) \ {<<m, Len(deps[m])>>})
            BY <4>0, FS_RemoveElement
          <5> QED
            BY <4>0, <5>1
        <4>2. Cardinality(References(d)') \in Nat
          BY <4>1, FS_CardinalityType
        <4>3. Cardinality(References(d)') = 0
          BY <2>10, <2>11, <2>14, <4>2
        <4> QED
          BY <4>1, <4>3, FS_EmptySet
      <3>2. PICK i \in 1 .. Len(Requires[x]) : Requires[x][i] = d
        BY <2>14 DEF RequiredBy
      <3>3. CASE x = m
        BY <2>3, <3>3
      <3>4. CASE x # m
        <4>1. deps'[x] = deps[x] /\ Len(deps[x]) \in Nat /\ Len(Requires[x]) \in Nat
          BY <2>4, <2>6, <3>4, ModuleAssumption, LenProperties
        <4>2. ~(i \in 1 .. Len(deps[x]))
          <5>1. ASSUME i \in 1 .. Len(deps[x]) PROVE FALSE
            <6>1. deps'[x][i] = d
              BY <1>1, <3>2, <4>1, <5>1 DEF Consumed
            <6>2. i \in 1 .. Len(deps'[x])
              BY <4>1, <5>1
            <6>3. <<x, i>> \in References(d)'
              BY <6>1, <6>2 DEF References
            <6> QED
              BY <3>1, <6>3
          <5> QED
            BY <5>1
        <4>3. Len(deps[x]) < Len(Requires[x])
          BY <3>2, <4>1, <4>2
        <4> QED
          BY <2>1, <4>3 DEF ReleaseOrder
      <3> QED
        BY <3>3, <3>4
    <2>15. ShutdownModule("shutdown", d, fs) /\ entry'.stop = entry.stop
      BY <1>1
    <2> QED
      BY <1>1, <1>2, <1>4, <2>1, <2>2, <2>5, <2>6, <2>12, <2>13, <2>14, <2>15, Released
  <1> QED
    BY <1>3, <1>4

(* The steps of the walks keep the order of release.                       *)
LEMMA ReleaseWalk ==
  ASSUME IInv, WalkStep
  PROVE  ReleaseInv'
  <1>1. TypeOK /\ stack \in [Walk -> Seq(Frames)] /\ stack["shutdown"] \in Seq(Frames)
        /\ Len(stack["shutdown"]) \in Nat
    BY LenProperties DEF IInv, TypeOK, Walk
  <1>2. ASSUME At("bootstrap", "cleanup") \/ At("bootstrap", "shutdown"), boot' = boot
        PROVE  ReleaseInv'
    BY <1>2, BootReleasing DEF ReleaseInv, NoCreationFailed
  <1>3. CASE BootstrapDependency
    <2>1. stack'["shutdown"] = stack["shutdown"]
      BY <1>1, <1>3 DEF BootstrapDependency, Walk
    <2> QED
      BY <1>1, <1>3, <2>1, ReleaseQuiet DEF BootstrapDependency, moduleVars, graphVars
  <1>4. CASE ReleaseDependency \/ BootstrapRejects
    BY <1>2, <1>4 DEF ReleaseDependency, BootstrapRejects, moduleVars
  <1>5. CASE ShutdownDependency("bootstrap") \/ ShutdownReturns("bootstrap")
               \/ ShutdownRejects("bootstrap")
    BY <1>2, <1>5 DEF ShutdownDependency, ShutdownReturns, ShutdownRejects, Destroyed, moduleVars
  <1>6. CASE ShutdownDependency("shutdown")
    <2> DEFINE m == Last(stack["shutdown"]).of
    <2>1. stack["shutdown"] # <<>> /\ deps[m] # <<>>
      BY <1>6 DEF ShutdownDependency, Destroyed, At
    <2>2. m \in Module
      <3>1. Last(stack["shutdown"]) \in Frames
        BY <1>1, <2>1, FrontLast
      <3> QED
        BY <3>1 DEF Frames
    <2>3. deps[m] \in Seq(Module)
      BY <1>1, <2>2 DEF TypeOK
    <2>4. Last(deps[m]) \in Module
      BY <2>1, <2>3, FrontLast
    <2> QED
      BY <1>6, <2>2, <2>4, ReleasePops
  <1>7. CASE ShutdownReturns("shutdown")
    <2>1. /\ Len(Front(stack["shutdown"])) = Len(stack["shutdown"]) - 1
          /\ Len(stack["shutdown"]) \in Nat \ {0}
          /\ \A i \in 1 .. Len(stack["shutdown"]) - 1 :
               Front(stack["shutdown"])[i] = stack["shutdown"][i]
      BY <1>1, <1>7, FrontLast DEF ShutdownReturns, Destroyed, At
    <2>2. stack'["shutdown"] = Front(stack["shutdown"])
      BY <1>1, <1>7 DEF ShutdownReturns, Walk
    <2>3. entry'.stop = entry.stop
      BY <1>5, WalkEntry
    <2> QED
      BY <1>7, <2>1, <2>2, <2>3, ReleaseQuiet DEF ShutdownReturns, moduleVars, graphVars
  <1>8. CASE ShutdownRejects("shutdown")
    <2>1. stack'["shutdown"] = <<>>
      BY <1>1, <1>8 DEF ShutdownRejects, Walk
    <2>2. entry'.stop = entry.stop
      BY <1>5, WalkEntry
    <2> QED
      BY <1>1, <1>8, <2>1, <2>2, ReleaseQuiet, LenProperties
         DEF ShutdownRejects, moduleVars, graphVars
  <1> QED
    BY <1>3, <1>4, <1>5, <1>6, <1>7, <1>8 DEF WalkStep, Walk

(* The part of the invariant about destruction is kept by every action.    *)
LEMMA ReleaseNext ==
  ASSUME IInv, [Next]_vars
  PROVE  ReleaseInv'
  <1> USE DEF vars, moduleVars, graphVars
  <1>1. TypeOK /\ stack \in [Walk -> Seq(Frames)] /\ Len(stack["shutdown"]) \in Nat
    BY LenProperties DEF IInv, TypeOK, Walk
  <1>2. ASSUME deps' = deps, refs' = refs, stack'["shutdown"] = stack["shutdown"],
               \A m \in Module : boot'[m] # "failed" => boot[m] # "failed",
               \A m \in Module : /\ destroy[m] = "none" <=> destroy'[m] = "none"
                                 /\ destroy[m] = "ok" => destroy'[m] = "ok",
               entry.stop \in Settled => entry'.stop \in Settled
        PROVE  ReleaseInv'
    BY <1>1, <1>2, ReleaseQuiet
  <1>3. CASE CallBootstrap \/ CallStart \/ CallShutdown
    <2>1. stack'["shutdown"] = stack["shutdown"]
      BY <1>1, <1>3 DEF CallBootstrap, CallStart, CallShutdown, Walk
    <2>2. entry.stop \in Settled => entry'.stop \in Settled
      <3>1. entry.shutdown = "none"
        BY <1>3 DEF CallBootstrap, CallStart, CallShutdown
      <3> QED
        BY <3>1 DEF IInv, EntryInv, Settled
    <2> QED
      BY <1>2, <1>3, <2>1, <2>2 DEF CallBootstrap, CallStart, CallShutdown
  <1>4. CASE WalkStep
    BY <1>4, ReleaseWalk
  <1>5. CASE EntryStarts \/ EntryStartSettles
    BY <1>1, <1>2, <1>5 DEF EntryStarts, EntryStartSettles, TypeOK
  <1>6. CASE EntryStops \/ EntryStopSettles \/ BackgroundTasksSettle
    BY <1>1, <1>2, <1>6 DEF EntryStops, EntryStopSettles, BackgroundTasksSettle, TypeOK, Settled
  <1>7. CASE EntryShutdown
    BY <1>7, ReleaseBegins
  <1>8. ASSUME NEW m \in Module, InstanceStep(m) PROVE ReleaseInv'
    <2>1. CASE PerformBootstrap(m)
      BY <1>1, <1>2, <2>1 DEF PerformBootstrap, TypeOK
    <2>2. CASE BootstrapReturns(m) \/ BootstrapFails(m)
      <3>1. stack'["shutdown"] = stack["shutdown"]
        BY <1>1, <2>2 DEF BootstrapReturns, BootstrapFails, Walk
      <3>2. entry'.stop = entry.stop
        BY <1>1, <2>2 DEF BootstrapReturns, BootstrapFails, TypeOK
      <3> QED
        BY <1>2, <2>2, <3>1, <3>2 DEF BootstrapReturns, BootstrapFails
    <2>3. CASE StartHooksBegin(m) \/ StartRejects(m) \/ StopHooksBegin(m)
                 \/ StopDependencies(m) \/ StopSettles(m)
      BY <1>2, <2>3 DEF StartHooksBegin, StartRejects, StopHooksBegin, StopDependencies,
         StopSettles
    <2>4. CASE PerformDestroy(m)
      <3>1. \A x \in Module : /\ destroy[x] = "none" <=> destroy'[x] = "none"
                              /\ destroy[x] = "ok" => destroy'[x] = "ok"
        BY <1>1, <2>4 DEF PerformDestroy, TypeOK
      <3> QED
        BY <1>2, <2>4, <3>1 DEF PerformDestroy
    <2> QED
      BY <1>8, <2>1, <2>2, <2>3, <2>4 DEF InstanceStep
  <1>9. ASSUME NEW m \in Module, HookStep(m) PROVE ReleaseInv'
    <2>1. CASE CreateHooksSettle(m)
      BY <1>1, <1>2, <2>1 DEF CreateHooksSettle, TypeOK
    <2>2. CASE StartHookSettles(m) \/ StopHookSettles(m)
      BY <1>2, <2>2 DEF StartHookSettles, StopHookSettles
    <2>3. CASE DestroyHooksSettle(m)
      <3>1. \A x \in Module : /\ destroy[x] = "none" <=> destroy'[x] = "none"
                              /\ destroy[x] = "ok" => destroy'[x] = "ok"
        BY <1>1, <2>3 DEF DestroyHooksSettle, TypeOK
      <3> QED
        BY <1>2, <2>3, <3>1 DEF DestroyHooksSettle
    <2> QED
      BY <1>9, <2>1, <2>2, <2>3 DEF HookStep
  <1>10. CASE Exit \/ UNCHANGED vars
    BY <1>2, <1>10 DEF Exit
  <1> QED
    BY <1>3, <1>4, <1>5, <1>6, <1>7, <1>8, <1>9, <1>10 DEF Next, EntryStep

(* What the steps of the walks and the calls of destroy() do to destroy.   *)
LEMMA OnlyWaiting ==
  ASSUME TypeOK, NEW w \in Walk, NEW d, NEW fs, ShutdownModule(w, d, fs)
  PROVE  \A m \in Module : destroy'[m] = destroy[m] \/ (destroy[m] = "none" /\ destroy'[m] = "waiting")
  BY DEF TypeOK, ShutdownModule, DestroyCalled

(* The walks set destroy() to waiting and do nothing else to it.           *)
LEMMA WalkDestroy ==
  ASSUME IInv, WalkStep \/ EntryShutdown
  PROVE  \A m \in Module : destroy'[m] = destroy[m] \/ (destroy[m] = "none" /\ destroy'[m] = "waiting")
  <1>1. TypeOK
    BY DEF IInv
  <1>2. CASE BootstrapDependency \/ BootstrapRejects
    BY <1>2 DEF BootstrapDependency, BootstrapRejects, moduleVars
  <1>3. CASE ReleaseDependency
    BY <1>1, <1>3, OnlyWaiting DEF ReleaseDependency, Walk
  <1>4. ASSUME NEW w \in Walk, ShutdownDependency(w)
        PROVE  \A m \in Module : destroy'[m] = destroy[m]
                               \/ (destroy[m] = "none" /\ destroy'[m] = "waiting")
    BY <1>1, <1>4, OnlyWaiting DEF ShutdownDependency
  <1>5. ASSUME NEW w \in Walk, ShutdownReturns(w) \/ ShutdownRejects(w) PROVE destroy' = destroy
    BY <1>5 DEF ShutdownReturns, ShutdownRejects, moduleVars
  <1>6. CASE EntryShutdown
    BY <1>1, <1>6, OnlyWaiting DEF EntryShutdown, Walk
  <1> QED
    BY <1>2, <1>3, <1>4, <1>5, <1>6 DEF WalkStep

(* Nothing has been destroyed when the start of the graph begins.          *)
LEMMA NothingDestroyed ==
  ASSUME IInv, EntryStarts
  PROVE  \A m \in Module : destroy[m] = "none"
  <1>1. entry.start = "waiting" /\ entry.bootstrap = "ok"
    BY DEF EntryStarts
  <1>2. NoCreationFailed
    BY <1>1 DEF IInv, BootInv, NoCreationFailed
  <1>3. entry.stop \notin Settled
    BY <1>1 DEF IInv, EntryInv, Settled
  <1> QED
    BY <1>2, <1>3 DEF IInv, ReleaseInv, ReleaseOrder

(* A module whose start is pending is not destroyed.                       *)
LEMMA DestroyNext ==
  ASSUME IInv, [Next]_vars
  PROVE  DestroyInv'
  <1> USE DEF vars, moduleVars, graphVars
  <1>1. TypeOK /\ DestroyInv /\ StartInv
    BY DEF IInv
  <1>2. ASSUME start' = start,
               \A m \in Module : destroy'[m] = destroy[m] \/ destroy'[m] \in {"none", "waiting"}
        PROVE  DestroyInv'
    BY <1>1, <1>2 DEF DestroyInv, Settled
  <1>3. CASE CallBootstrap \/ CallStart \/ CallShutdown \/ Exit \/ UNCHANGED vars
    BY <1>2, <1>3 DEF CallBootstrap, CallStart, CallShutdown, Exit
  <1>4. CASE WalkStep
    BY <1>2, <1>4, WalkDestroy, WalkEntry
  <1>5. CASE EntryShutdown
    BY <1>2, <1>5, WalkDestroy DEF EntryShutdown
  <1>6. CASE EntryStarts
    BY <1>6, NothingDestroyed DEF EntryStarts, DestroyInv, Settled
  <1>7. CASE EntryStartSettles \/ EntryStops \/ EntryStopSettles \/ BackgroundTasksSettle
    BY <1>2, <1>7 DEF EntryStartSettles, EntryStops, EntryStopSettles, BackgroundTasksSettle
  <1>8. ASSUME NEW m \in Module, InstanceStep(m) PROVE DestroyInv'
    <2>1. CASE StartHooksBegin(m) \/ StartRejects(m)
      <3>1. start[m] = "deps" /\ destroy' = destroy /\ \A x \in Module \ {m} : start'[x] = start[x]
        BY <1>1, <2>1 DEF StartHooksBegin, StartRejects, TypeOK
      <3>2. destroy[m] \notin {"hooks"} \cup Settled
        BY <1>1, <3>1 DEF DestroyInv, Settled
      <3> QED
        BY <1>1, <3>1, <3>2 DEF DestroyInv
    <2>2. CASE PerformDestroy(m)
      <3>1. start[m] \in {"none"} \cup Settled /\ start' = start
            /\ \A x \in Module \ {m} : destroy'[x] = destroy[x]
        BY <1>1, <2>2 DEF PerformDestroy, TypeOK
      <3> QED
        BY <1>1, <3>1 DEF DestroyInv
    <2>3. CASE start' = start /\ destroy' = destroy
      BY <1>2, <2>3
    <2> QED
      BY <1>8, <2>1, <2>2, <2>3 DEF InstanceStep, PerformBootstrap, BootstrapReturns,
         BootstrapFails, StopHooksBegin, StopDependencies, StopSettles
  <1>9. ASSUME NEW m \in Module, HookStep(m) PROVE DestroyInv'
    <2>1. CASE StartHookSettles(m)
      <3>1. /\ start[m] \in {"hooks", "failed"} /\ destroy' = destroy
            /\ start[m] = "failed" => start'[m] = "failed"
            /\ \A x \in Module \ {m} : start'[x] = start[x]
        BY <1>1, <2>1 DEF StartHookSettles, StartInv, TypeOK
      <3> QED
        BY <1>1, <3>1 DEF DestroyInv, Settled
    <2>2. CASE DestroyHooksSettle(m)
      <3>1. destroy[m] = "hooks" /\ start' = start
            /\ \A x \in Module \ {m} : destroy'[x] = destroy[x]
        BY <1>1, <2>2 DEF DestroyHooksSettle, TypeOK
      <3> QED
        BY <1>1, <3>1 DEF DestroyInv
    <2>3. CASE start' = start /\ destroy' = destroy
      BY <1>2, <2>3
    <2> QED
      BY <1>9, <2>1, <2>2, <2>3 DEF HookStep, CreateHooksSettle, StopHookSettles
  <1> QED
    BY <1>3, <1>4, <1>5, <1>6, <1>7, <1>8, <1>9 DEF Next, EntryStep

-----------------------------------------------------------------------------
(* Stopping.                                                               *)

(* A graph whose root has started has started altogether.                  *)
LEMMA AllStarted ==
  ASSUME IInv, start[Root] = "ok"
  PROVE  \A m \in Module : start[m] = "ok"
  <1> DEFINE S == {m \in Module : start[m] = "ok"}
  <1>1. Root \in S /\ \A m \in S : RequiredBy(m) \subseteq S
    BY ModuleAssumption DEF IInv, StartInv, RequiredBy
  <1>2. S \in SUBSET Module
    OBVIOUS
  <1>3. S = Module
    BY <1>1, <1>2, GraphAssumption
  <1> QED
    BY <1>3

(* A graph that had started and whose root has stopped has stopped         *)
(* altogether.                                                             *)
LEMMA AllStopped ==
  ASSUME IInv, start[Root] = "ok", stop[Root] = "ok"
  PROVE  \A m \in Module : stop[m] = "ok"
  <1> DEFINE S == {m \in Module : stop[m] = "ok"}
  <1>1. \A m \in Module : start[m] = "ok"
    BY AllStarted
  <1>2. Root \in S /\ \A m \in S : RequiredBy(m) \subseteq S
    BY <1>1, ModuleAssumption DEF IInv, StopInv, RequiredBy
  <1>3. S \in SUBSET Module
    OBVIOUS
  <1>4. S = Module
    BY <1>2, <1>3, GraphAssumption
  <1> QED
    BY <1>4

(* While a module still stops, stop() has not settled, unless a stop hook  *)
(* rejected the stop of the root; nothing is destroyed yet.                *)
LEMMA StillStopping ==
  ASSUME IInv, NEW m \in Module, stop[m] \in {"waiting", "hooks", "deps"}, start[m] = "ok",
         stop[Root] # "failed"
  PROVE  entry.stop \notin Settled /\ deps = Requires /\ \A x \in Module : start[x] = "ok"
  <1>1. start[Root] = "ok"
    BY DEF IInv, StopInv
  <1>2. \A x \in Module : start[x] = "ok"
    BY <1>1, AllStarted
  <1>3. stop[Root] # "ok"
    BY <1>1, AllStopped
  <1>4. entry.start # "none"
    BY DEF IInv, EntryInv
  <1>5. entry.stop \notin Settled
    BY <1>3, <1>4 DEF IInv, StopInv, Settled
  <1>6. NoCreationFailed
    BY DEF IInv, EntryInv, BootInv, NoCreationFailed
  <1> QED
    BY <1>2, <1>5, <1>6 DEF IInv, ReleaseInv, ReleaseOrder

(* What the actions that stop nothing leave of StopInv.                    *)
LEMMA StopQuiet ==
  ASSUME IInv, stop' = stop, stopRunning' = stopRunning, stopAwaits' = stopAwaits,
         \A m \in Module : start[m] \in Settled \/ (start[m] = "none" /\ stop[m] # "none")
                             => start'[m] = start[m],
         entry'.stop = entry.stop, entry'.start = "none" <=> entry.start = "none",
         entry'.shutdown \in {"draining", "ok"} => entry.stop = "ok"
  PROVE  StopInv'
  <1>1. StopInv /\ Root \in Module
    BY ModuleAssumption DEF IInv
  <1>2. \A m \in Module : start[m] = "ok" => start'[m] = "ok"
    BY DEF Settled
  <1>3. \A m \in Module : stop[m] = "ok" => start'[m] = start[m]
    BY <1>1 DEF StopInv
  <1> QED
    BY <1>1, <1>2, <1>3 DEF StopInv

(* The phases of start() and the hooks of a start change no module whose   *)
(* start has settled.                                                      *)
LEMMA StopWhileStarting ==
  ASSUME IInv, \/ EntryStarts \/ EntryStartSettles
               \/ \E m \in Module : StartHooksBegin(m) \/ StartRejects(m) \/ StartHookSettles(m)
  PROVE  StopInv'
  <1>1. TypeOK /\ StartInv /\ StopInv /\ EntryInv
    BY DEF IInv
  <1>2. CASE EntryStarts
    <2>1. /\ \A m \in Module : stop[m] = "none" /\ start[m] = "none"
          /\ stop' = stop /\ stopRunning' = stopRunning /\ stopAwaits' = stopAwaits
          /\ entry'.stop = entry.stop /\ entry'.shutdown = entry.shutdown
          /\ entry.start # "none" /\ entry'.start # "none"
      BY <1>1, <1>2 DEF EntryStarts, EntryInv, StopInv, Settled, TypeOK
    <2> QED
      BY <1>1, <2>1, StopQuiet DEF StopInv, Settled
  <1>3. CASE EntryStartSettles
    <2>1. /\ UNCHANGED moduleVars /\ entry'.stop = entry.stop
          /\ entry'.shutdown = entry.shutdown
          /\ entry.start # "none" /\ entry'.start # "none"
      BY <1>1, <1>3 DEF EntryStartSettles, TypeOK, Settled
    <2> QED
      BY <1>1, <2>1, StopQuiet DEF StopInv, moduleVars
  <1>4. ASSUME NEW m \in Module, StartHooksBegin(m) \/ StartRejects(m) PROVE StopInv'
    <2>1. /\ start[m] = "deps" /\ \A x \in Module \ {m} : start'[x] = start[x]
          /\ stop' = stop /\ stopRunning' = stopRunning /\ stopAwaits' = stopAwaits
          /\ entry' = entry
      BY <1>1, <1>4 DEF StartHooksBegin, StartRejects, TypeOK
    <2> QED
      BY <1>1, <2>1, StopQuiet DEF StopInv, Settled
  <1>5. ASSUME NEW m \in Module, StartHookSettles(m) PROVE StopInv'
    <2>1. /\ start[m] \in {"hooks", "failed"} /\ \A x \in Module \ {m} : start'[x] = start[x]
          /\ start[m] = "failed" => start'[m] = "failed"
          /\ stop' = stop /\ stopRunning' = stopRunning /\ stopAwaits' = stopAwaits
          /\ entry' = entry
      BY <1>1, <1>5 DEF StartHookSettles, StartInv, TypeOK
    <2> QED
      BY <1>1, <2>1, StopQuiet DEF StopInv, Settled
  <1> QED
    BY <1>2, <1>3, <1>4, <1>5

(* EntryModule.stop asks the root, and takes over its answer.              *)
LEMMA StopOfEntry ==
  ASSUME IInv, EntryStops \/ EntryStopSettles
  PROVE  StopInv'
  <1>1. TypeOK /\ StartInv /\ StopInv /\ EntryInv /\ Root \in Module
    BY ModuleAssumption DEF IInv
  <1>2. CASE EntryStops
    <2>1. /\ entry.stop = "waiting" /\ entry'.stop = "stopping" /\ entry'.start = entry.start
          /\ entry'.shutdown = entry.shutdown /\ start' = start /\ stopRunning' = stopRunning
          /\ entry.start \in Settled /\ \A m \in Module : stop[m] = "none"
          /\ stopAwaits' = stopAwaits /\ stop' = StopCalled({Root})
      BY <1>1, <1>2 DEF EntryStops, StopInv, TypeOK
    <2>2. /\ stop'[Root] = IF start[Root] = "none" THEN "ok" ELSE "waiting"
          /\ \A m \in Module \ {Root} : stop'[m] = "none"
      BY <1>1, <2>1 DEF StopCalled
    <2>3. \A m \in Module : ~(stopRunning[m] > 0)
      BY <1>1, <2>1 DEF StopInv
    <2>4. /\ entry'.stop = "stopping" /\ entry'.start # "none"
          /\ entry'.shutdown \notin {"draining", "ok"}
      BY <1>1, <2>1 DEF StopInv, Settled
    <2> QED
      BY <1>1, <2>1, <2>2, <2>3, <2>4 DEF StopInv, Settled
  <1>3. CASE EntryStopSettles
    <2>1. /\ UNCHANGED moduleVars /\ entry.stop = "stopping" /\ entry'.stop = stop[Root]
          /\ stop[Root] \in Settled
          /\ entry'.shutdown = entry.shutdown /\ entry'.start = entry.start
      BY <1>1, <1>3 DEF EntryStopSettles, TypeOK
    <2>2. entry'.shutdown \notin {"draining", "ok"}
      BY <1>1, <2>1 DEF StopInv
    <2> QED
      BY <1>1, <2>1, <2>2 DEF StopInv, moduleVars, Settled
  <1> QED
    BY <1>2, <1>3

(* The parts of StopInv about the modules, when the entry module's phases  *)
(* stay.                                                                   *)
LEMMA StopOfModules ==
  ASSUME IInv, start' = start, entry' = entry, NEW m \in Module, stop[m] # "none",
         \A x \in Module : stop'[x] # "none" /\ x # Root => start[Root] = "ok",
         stop'[Root] = stop[Root] \/ entry.stop \notin Settled,
         \A x \in Module :
           /\ stopRunning'[x] > 0 => stop'[x] \in {"hooks", "failed"}
           /\ stop'[x] \in {"hooks", "deps"} => start[x] = "ok"
           /\ stop'[x] = "ok" => start[x] \in {"none"} \cup Settled
           /\ stop'[Root] # "failed" =>
                /\ stop'[x] = "deps" => stopAwaits'[x] = RequiredBy(x)
                /\ stop'[x] = "ok" /\ start[x] = "ok" =>
                     \A d \in RequiredBy(x) : stop'[d] = "ok"
  PROVE  StopInv'
  <1>1. StopInv /\ ~(entry.stop \in {"none", "waiting"} \/ entry.start = "none")
    BY DEF IInv, StopInv
  <1> QED
    BY <1>1 DEF StopInv

(* The root's stop() has not settled while it still changes.               *)
LEMMA StopPending ==
  ASSUME IInv, stop[Root] \notin Settled, NEW m \in Module, stop[m] # "none"
  PROVE  entry.stop \notin Settled
  BY DEF IInv, StopInv

(* The stop of one module goes on.                                         *)
LEMMA StopOfModule ==
  ASSUME IInv, NEW m \in Module,
         StopHooksBegin(m) \/ StopDependencies(m) \/ StopSettles(m) \/ StopHookSettles(m)
  PROVE  StopInv'
  <1>1. TypeOK /\ StartInv /\ StopInv /\ EntryInv /\ Root \in Module
        /\ \A x \in Module : RequiredBy(x) \subseteq Module
    BY ModuleAssumption DEF IInv, RequiredBy
  <1>2. CASE StopHooksBegin(m)
    <2>1. /\ stop[m] = "waiting" /\ start[m] \in Settled /\ start' = start /\ entry' = entry
          /\ stopAwaits' = stopAwaits /\ \A x \in Module \ {m} : stop'[x] = stop[x]
          /\ stop'[m] = IF start[m] = "ok" THEN "hooks" ELSE "ok"
          /\ \A x \in Module \ {m} : stopRunning'[x] = stopRunning[x]
          /\ start[m] # "ok" => stopRunning'[m] = stopRunning[m]
      BY <1>1, <1>2 DEF StopHooksBegin, TypeOK
    <2>2. stop'[Root] = stop[Root] \/ entry.stop \notin Settled
      BY <1>1, <2>1, StopPending DEF Settled
    <2>3. ~(stopRunning[m] > 0)
      BY <1>1, <2>1 DEF StopInv
    <2> QED
      BY <1>1, <2>1, <2>2, <2>3, StopOfModules DEF StopInv
  <1>3. CASE StopDependencies(m)
    <2> DEFINE ds == {deps[m][i] : i \in 1 .. Len(deps[m])}
    <2>1. /\ stop[m] = "hooks" /\ start' = start /\ entry' = entry
          /\ stopRunning' = stopRunning /\ stopRunning[m] = 0
          /\ stopAwaits' = [stopAwaits EXCEPT ![m] = ds]
          /\ stop' = [StopCalled(ds) EXCEPT ![m] = "deps"] /\ start[m] = "ok"
      BY <1>1, <1>3 DEF StopDependencies, StopInv
    <2> HIDE DEF ds
    <2>2. stop'[m] = "deps" /\ stopAwaits'[m] = ds
          /\ \A x \in Module \ {m} : stopAwaits'[x] = stopAwaits[x]
      BY <1>1, <2>1 DEF StopCalled, TypeOK
    <2>3. start[Root] = "ok" /\ \A x \in Module : start[x] = "ok"
      BY <1>1, <2>1, AllStarted DEF StopInv
    <2>4. \A x \in Module \ {m} : stop'[x] = stop[x] \/ (stop[x] = "none" /\ stop'[x] = "waiting")
      BY <1>1, <2>1, <2>3 DEF StopCalled
    <2>5. stop[Root] # "failed" => entry.stop \notin Settled /\ ds = RequiredBy(m)
      <3>1. ASSUME stop[Root] # "failed" PROVE entry.stop \notin Settled /\ deps = Requires
        BY <2>1, <3>1, StillStopping
      <3>2. RequiredBy(m) = {Requires[m][i] : i \in 1 .. Len(Requires[m])}
        <4>1. \A i \in 1 .. Len(Requires[m]) : Requires[m][i] \in Module
          BY ModuleAssumption, ElementOfSeq
        <4> QED
          BY <4>1 DEF RequiredBy
      <3> QED
        BY <3>1, <3>2 DEF ds
    <2>6. stop[Root] = "failed" => stop'[Root] = "failed"
      BY <1>1, <2>1, <2>4
    <2>7. stop'[Root] = stop[Root] \/ entry.stop \notin Settled
      BY <1>1, <2>5, <2>6
    <2>8. \A x \in Module : stopRunning'[x] > 0 => stop'[x] \in {"hooks", "failed"}
      BY <1>1, <2>1, <2>4 DEF StopInv
    <2>9. ASSUME NEW x \in Module, stop'[Root] # "failed"
          PROVE  /\ stop'[x] = "deps" => stopAwaits'[x] = RequiredBy(x)
                 /\ stop'[x] = "ok" /\ start[x] = "ok" =>
                      \A d \in RequiredBy(x) : stop'[d] = "ok"
      <3>1. stop[Root] # "failed"
        BY <2>6, <2>9
      <3>2. stop'[x] = "deps" => stopAwaits'[x] = RequiredBy(x)
        BY <1>1, <2>2, <2>4, <2>5, <3>1 DEF StopInv
      <3>3. ASSUME stop'[x] = "ok", start[x] = "ok", NEW d \in RequiredBy(x) PROVE stop'[d] = "ok"
        <4>1. x # m /\ stop[x] = "ok"
          BY <2>2, <2>4, <3>3
        <4>2. stop[d] = "ok" /\ d \in Module
          BY <1>1, <3>1, <3>3, <4>1 DEF StopInv
        <4> QED
          BY <2>1, <2>4, <4>2
      <3> QED
        BY <3>2, <3>3
    <2>10. stop[m] # "none"
      BY <2>1
    <2> QED
      BY <2>1, <2>3, <2>7, <2>8, <2>9, <2>10, StopOfModules DEF Settled
  <1>4. CASE StopSettles(m)
    <2>1. /\ stop[m] = "deps" /\ start' = start /\ entry' = entry
          /\ stopRunning' = stopRunning /\ stopAwaits' = stopAwaits
          /\ \A x \in Module \ {m} : stop'[x] = stop[x]
          /\ \/ stop'[m] = "ok" /\ \A d \in stopAwaits[m] : stop[d] = "ok"
             \/ stop'[m] = "failed"
      BY <1>1, <1>4 DEF StopSettles, TypeOK
    <2>2. stop'[Root] = stop[Root] \/ entry.stop \notin Settled
      BY <1>1, <2>1, StopPending DEF Settled
    <2>3. ~(stopRunning[m] > 0)
      BY <1>1, <2>1 DEF StopInv
    <2>4. start[m] = "ok" /\ stop[m] # "none"
      BY <1>1, <2>1 DEF StopInv
    <2>5. \A x \in Module : stop'[Root] # "failed" =>
            /\ stop'[x] = "deps" => stopAwaits'[x] = RequiredBy(x)
            /\ stop'[x] = "ok" /\ start[x] = "ok" => \A d \in RequiredBy(x) : stop'[d] = "ok"
      <3>1. ASSUME NEW x \in Module, stop'[Root] # "failed"
            PROVE  /\ stop'[x] = "deps" => stopAwaits'[x] = RequiredBy(x)
                   /\ stop'[x] = "ok" /\ start[x] = "ok" => \A d \in RequiredBy(x) : stop'[d] = "ok"
        <4>1. stop[Root] # "failed" /\ stopAwaits[m] = RequiredBy(m)
          BY <1>1, <2>1, <3>1 DEF StopInv
        <4>2. \A d \in Module : stop[d] = "ok" => stop'[d] = "ok"
          BY <2>1
        <4> QED
          BY <1>1, <2>1, <4>1, <4>2 DEF StopInv
      <3> QED
        BY <3>1
    <2>6. \A x \in Module : stop'[x] # "none" /\ x # Root => start[Root] = "ok"
      BY <1>1, <2>1 DEF StopInv
    <2>7. \A x \in Module : /\ stopRunning'[x] > 0 => stop'[x] \in {"hooks", "failed"}
                            /\ stop'[x] \in {"hooks", "deps"} => start[x] = "ok"
                            /\ stop'[x] = "ok" => start[x] \in {"none"} \cup Settled
      BY <1>1, <2>1, <2>3, <2>4 DEF StopInv, Settled
    <2> QED
      BY <2>1, <2>2, <2>4, <2>5, <2>6, <2>7, StopOfModules
  <1>5. CASE StopHookSettles(m)
    <2>1. /\ stopRunning[m] > 0 /\ start' = start /\ entry' = entry /\ stopAwaits' = stopAwaits
          /\ \A x \in Module \ {m} : stop'[x] = stop[x] /\ stopRunning'[x] = stopRunning[x]
          /\ stop'[m] = stop[m] \/ stop'[m] = "failed"
          /\ stop[m] \in {"hooks", "failed"}
      BY <1>1, <1>5 DEF StopHookSettles, StopInv, TypeOK
    <2>2. stop'[Root] = stop[Root] \/ entry.stop \notin Settled
      BY <1>1, <2>1, StopPending DEF Settled
    <2>3. \A d \in Module : stop[d] = "ok" => stop'[d] = "ok"
      BY <2>1
    <2>4. \A x \in Module : stop'[Root] # "failed" =>
            /\ stop'[x] = "deps" => stopAwaits'[x] = RequiredBy(x)
            /\ stop'[x] = "ok" /\ start[x] = "ok" => \A d \in RequiredBy(x) : stop'[d] = "ok"
      <3>1. stop'[Root] # "failed" => stop[Root] # "failed"
        BY <1>1, <2>1
      <3> QED
        BY <1>1, <2>1, <2>3, <3>1 DEF StopInv
    <2>5. \A x \in Module : stop'[x] # "none" /\ x # Root => start[Root] = "ok"
      BY <1>1, <2>1 DEF StopInv
    <2>6. \A x \in Module : /\ stopRunning'[x] > 0 => stop'[x] \in {"hooks", "failed"}
                            /\ stop'[x] \in {"hooks", "deps"} => start[x] = "ok"
                            /\ stop'[x] = "ok" => start[x] \in {"none"} \cup Settled
      BY <1>1, <2>1 DEF StopInv, Settled
    <2> QED
      BY <2>1, <2>2, <2>4, <2>5, <2>6, StopOfModules
  <1> QED
    BY <1>2, <1>3, <1>4, <1>5

(* The part of the invariant about stop() is kept by every action.         *)
LEMMA StopNext ==
  ASSUME IInv, [Next]_vars
  PROVE  StopInv'
  <1> USE DEF vars, moduleVars, graphVars
  <1>1. TypeOK /\ StopInv /\ EntryInv
    BY DEF IInv
  <1>2. ASSUME stop' = stop, stopRunning' = stopRunning, stopAwaits' = stopAwaits,
               start' = start, entry'.stop = entry.stop, entry'.start = entry.start,
               entry'.shutdown \in {"draining", "ok"} => entry.stop = "ok"
        PROVE  StopInv'
    BY <1>2, StopQuiet
  <1>3. CASE CallBootstrap \/ Exit \/ UNCHANGED vars
    BY <1>1, <1>2, <1>3 DEF CallBootstrap, Exit, StopInv, TypeOK
  <1>4. CASE CallStart
    <2>1. /\ UNCHANGED moduleVars /\ entry'.stop = entry.stop /\ entry.shutdown = "none"
          /\ entry'.shutdown = entry.shutdown /\ entry'.start = "waiting" /\ entry.stop = "none"
      BY <1>1, <1>4 DEF CallStart, TypeOK, EntryInv
    <2> QED
      BY <1>1, <2>1 DEF StopInv, Settled
  <1>5. CASE CallShutdown
    <2>1. /\ UNCHANGED moduleVars /\ entry'.shutdown = "stopping" /\ entry'.start = entry.start
          /\ entry'.stop = IF entry.start = "none" THEN "ok" ELSE "waiting"
          /\ entry.stop = "none"
      BY <1>1, <1>5 DEF CallShutdown, TypeOK, EntryInv
    <2> QED
      BY <1>1, <2>1 DEF StopInv, Settled
  <1>6. CASE WalkStep
    <2>1. /\ entry'.start = entry.start /\ entry'.stop = entry.stop /\ start' = start
      BY <1>6, WalkEntry
    <2>2. stop' = stop /\ stopRunning' = stopRunning /\ stopAwaits' = stopAwaits
      BY <1>6 DEF WalkStep, BootstrapDependency, ReleaseDependency,
         BootstrapRejects, ShutdownDependency, ShutdownReturns, ShutdownRejects
    <2>3. entry'.shutdown \in {"draining", "ok"} =>
            entry.stop = "ok" \/ entry'.shutdown = entry.shutdown
      BY <1>1, <1>6 DEF WalkStep, BootstrapDependency, ReleaseDependency,
         BootstrapRejects, ShutdownDependency, ShutdownReturns, ShutdownRejects, TypeOK
    <2> QED
      BY <1>1, <1>2, <2>1, <2>2, <2>3 DEF StopInv
  <1>7. CASE EntryShutdown
    BY <1>1, <1>2, <1>7 DEF EntryShutdown, TypeOK
  <1>8. CASE BackgroundTasksSettle
    <2>1. /\ UNCHANGED moduleVars /\ entry'.stop = entry.stop /\ entry'.start = entry.start
          /\ entry'.shutdown = "ok" => entry.shutdown = "draining"
          /\ entry'.shutdown # "draining"
      BY <1>1, <1>8 DEF BackgroundTasksSettle, TypeOK
    <2> QED
      BY <1>1, <1>2, <2>1 DEF StopInv
  <1>9. CASE EntryStarts \/ EntryStartSettles
    BY <1>9, StopWhileStarting
  <1>10. CASE EntryStops \/ EntryStopSettles
    BY <1>10, StopOfEntry
  <1>11. ASSUME NEW m \in Module, InstanceStep(m) PROVE StopInv'
    <2>1. CASE StartHooksBegin(m) \/ StartRejects(m)
      BY <2>1, StopWhileStarting
    <2>2. CASE StopHooksBegin(m) \/ StopDependencies(m) \/ StopSettles(m)
      BY <2>2, StopOfModule
    <2>3. CASE BootstrapReturns(m)
      <3>1. entry'.stop = entry.stop /\ entry'.start = entry.start
            /\ entry'.shutdown = entry.shutdown
        BY <1>1, <2>3 DEF BootstrapReturns, TypeOK
      <3> QED
        BY <1>1, <1>2, <2>3, <3>1 DEF BootstrapReturns, StopInv
    <2>4. CASE PerformBootstrap(m) \/ BootstrapFails(m) \/ PerformDestroy(m)
      BY <1>1, <1>2, <2>4 DEF PerformBootstrap, BootstrapFails, PerformDestroy, StopInv
    <2> QED
      BY <1>11, <2>1, <2>2, <2>3, <2>4 DEF InstanceStep
  <1>12. ASSUME NEW m \in Module, HookStep(m) PROVE StopInv'
    <2>1. CASE StartHookSettles(m)
      BY <2>1, StopWhileStarting
    <2>2. CASE StopHookSettles(m)
      BY <2>2, StopOfModule
    <2>3. CASE CreateHooksSettle(m) \/ DestroyHooksSettle(m)
      BY <1>1, <1>2, <2>3 DEF CreateHooksSettle, DestroyHooksSettle, StopInv
    <2> QED
      BY <1>12, <2>1, <2>2, <2>3 DEF HookStep
  <1> QED
    BY <1>3, <1>4, <1>5, <1>6, <1>7, <1>8, <1>9, <1>10, <1>11, <1>12 DEF Next, EntryStep

-----------------------------------------------------------------------------
(* What the walks visit.                                                   *)

(* What is known of the frames of a walk.                                  *)
LEMMA WalkFrames ==
  ASSUME TypeOK, NEW w \in Walk
  PROVE  /\ stack[w] \in Seq(Frames) /\ Len(stack[w]) \in Nat
         /\ \A k \in 1 .. Len(stack[w]) : stack[w][k] \in Frames /\ stack[w][k].of \in Module
         /\ stack[w] # <<>> =>
              /\ Len(stack[w]) \in 1 .. Len(stack[w])
              /\ Last(stack[w]) = stack[w][Len(stack[w])] /\ Last(stack[w]).of \in Module
              /\ Front(stack[w]) \in Seq(Frames) /\ Len(Front(stack[w])) = Len(stack[w]) - 1
              /\ \A i \in 1 .. Len(stack[w]) - 1 : Front(stack[w])[i] = stack[w][i]
  <1>1. stack[w] \in Seq(Frames) /\ Len(stack[w]) \in Nat
    BY LenProperties DEF TypeOK
  <1>2. \A k \in 1 .. Len(stack[w]) : stack[w][k] \in Frames
    BY <1>1, ElementOfSeq
  <1>3. \A k \in 1 .. Len(stack[w]) : stack[w][k].of \in Module
    BY <1>2 DEF Frames
  <1>4. ASSUME stack[w] # <<>>
        PROVE  /\ Len(stack[w]) \in 1 .. Len(stack[w])
               /\ Last(stack[w]) = stack[w][Len(stack[w])] /\ Last(stack[w]) \in Frames
               /\ Front(stack[w]) \in Seq(Frames) /\ Len(Front(stack[w])) = Len(stack[w]) - 1
               /\ \A i \in 1 .. Len(stack[w]) - 1 : Front(stack[w])[i] = stack[w][i]
    <2>1. /\ Len(stack[w]) \in Nat \ {0}
          /\ Last(stack[w]) = stack[w][Len(stack[w])] /\ Last(stack[w]) \in Frames
          /\ Front(stack[w]) \in Seq(Frames) /\ Len(Front(stack[w])) = Len(stack[w]) - 1
          /\ \A i \in 1 .. Len(stack[w]) - 1 : Front(stack[w])[i] = stack[w][i]
      BY <1>1, <1>4, FrontLast
    <2>2. Len(stack[w]) \in 1 .. Len(stack[w])
      BY <2>1
    <2> QED
      BY <2>1, <2>2
  <1>5. stack[w] # <<>> => Last(stack[w]).of \in Module
    BY <1>4 DEF Frames
  <1> QED
    BY <1>1, <1>2, <1>3, <1>4, <1>5

(* What is left of a list is its beginning.                                *)
LEMMA Remaining ==
  ASSUME IInv, NEW m \in Module, NEW i \in 1 .. Len(deps[m])
  PROVE  i \in 1 .. Len(Requires[m]) /\ deps[m][i] = Requires[m][i]
  BY ModuleAssumption, LenProperties DEF IInv, Consumed, TypeOK

(* Nothing refers to the entry module.                                     *)
LEMMA RootUnreferenced ==
  ASSUME IInv
  PROVE  References(Root) = {} /\ \A m \in Module : \A i \in 1 .. Len(deps[m]) : deps[m][i] \in Module \ {Root}
  <1>1. ASSUME NEW m \in Module, NEW i \in 1 .. Len(deps[m])
        PROVE  deps[m][i] \in Module \ {Root}
    <2>1. i \in 1 .. Len(Requires[m]) /\ deps[m][i] = Requires[m][i]
      BY Remaining
    <2>2. deps[m][i] \in Module
      BY <2>1, ModuleAssumption, ElementOfSeq
    <2> QED
      BY <2>1, <2>2, GraphAssumption DEF RequiredBy
  <1>2. \A e : e \notin References(Root)
    BY <1>1, ReferenceDef, ModuleAssumption
  <1> QED
    BY <1>1, <1>2

(* What the actions that leave the walks where they are leave of VisitInv. *)
LEMMA VisitQuiet ==
  ASSUME IInv, stack' = stack, refs' = refs, deps' = deps,
         \A m \in Module : Visited(m) /\ boot[m] = "none" => boot'[m] = "none",
         \A m \in Module : \/ destroy'[m] = destroy[m]
                           \/ destroy[m] \in {"waiting", "hooks"} /\ destroy'[m] # "none",
         entry.bootstrap = "failed" => entry'.bootstrap = "failed",
         entry'.shutdown \in {"walking"} \cup Draining \cup Settled =>
           entry.shutdown \in {"walking"} \cup Draining \cup Settled,
         entry.shutdown = "walking" => entry'.shutdown = "walking",
         entry.shutdown \in {"failing", "failed"} => entry'.shutdown \in {"failing", "failed"}
  PROVE  VisitInv'
  <1>1. VisitInv /\ TypeOK
    BY DEF IInv
  <1>2. FrameOrder'
    BY <1>1 DEF VisitInv, FrameOrder
  <1>3. \A m \in Module : refs'[m] <= Cardinality(References(m))'
    BY <1>1 DEF VisitInv, References
  <1>4. \A m \in Module : Visited(m)' => Visited(m)
    BY DEF Visited
  <1>5. \A m \in Module : Walking(m)' <=> Walking(m)
    BY DEF Walking
  <1>6. \A m \in Module : \A w \in Walk : Awaits(w, m)' <=> Awaits(w, m)
    BY DEF Awaits, At
  <1>7. NoDestroyFailed' => NoDestroyFailed
    BY DEF NoDestroyFailed
  <1>8. \A m \in Module : Visited(m)' => boot'[m] = "none" \/ destroy'[m] # "none"
    BY <1>1, <1>4 DEF VisitInv
  <1>9. \A m \in Module : destroy'[m] \in {"waiting", "hooks", "failed"} =>
          destroy[m] \in {"waiting", "hooks", "failed"}
    OBVIOUS
  <1>10. \A m \in Module :
          /\ destroy'[m] \in {"waiting", "hooks"} => \E w \in Walk : Awaits(w, m)'
          /\ destroy'[m] = "failed" => \/ \E w \in Walk : Awaits(w, m)'
                                      \/ entry'.shutdown \in {"failing", "failed"}
                                      \/ entry'.bootstrap = "failed"
    BY <1>1, <1>6, <1>9 DEF VisitInv
  <1> QED
    BY <1>1, <1>2, <1>3, <1>4, <1>5, <1>7, <1>8, <1>10 DEF VisitInv

(* A call of #shutdownModule(d) from frames fs that differ from those of   *)
(* the walk in the places they have reached.                               *)
LEMMA VisitCall ==
  ASSUME IInv, NEW w \in Walk, NEW d \in Module, NEW fs \in Seq(Frames),
         ShutdownModule(w, d, fs), boot' = boot,
         Len(fs) = Len(stack[w]),
         \A k \in 1 .. Len(fs) : fs[k].fn = stack[w][k].fn /\ fs[k].of = stack[w][k].of,
         stack[w] = <<>> => w = "shutdown",
         ~At(w, "bootstrap"),
         \A m \in Module : Awaits(w, m) => destroy[m] \in {"none", "ok"},
         d = Root => refs[d] <= 1,
         \A m \in Module : /\ m # d /\ Visited(m)' => Visited(m)
                           /\ m # Root => (Visited(m)' <=> refs'[m] <= 0),
         \A m \in Module : refs'[m] <= Cardinality(References(m))',
         \A m \in Module : \/ deps'[m] = deps[m]
                           \/ \E k \in 1 .. Len(stack[w]) :
                                stack[w][k].fn = "shutdown" /\ stack[w][k].of = m,
         entry'.bootstrap = entry.bootstrap,
         stack'["shutdown"] # <<>> => entry'.shutdown = "walking",
         entry.shutdown \in {"failing", "failed"} => entry'.shutdown = entry.shutdown
  PROVE  VisitInv'
  <1> DEFINE g == Frame("shutdown", d)
             os == stack[w]
  <1>1. VisitInv /\ FrameOrder /\ TypeOK
    BY DEF IInv, VisitInv
  <1>2. g \in Frames /\ g.fn = "shutdown" /\ g.of = d
    BY DEF Frame, Frames
  <1>3. /\ os \in Seq(Frames) /\ Len(os) \in Nat
        /\ os # <<>> => Len(os) \in 1 .. Len(os) /\ Last(os) = os[Len(os)]
    BY <1>1, WalkFrames
  <1> HIDE DEF g
  <1>4. /\ Append(fs, g) \in Seq(Frames) /\ Len(Append(fs, g)) = Len(fs) + 1
        /\ \A k \in 1 .. Len(fs) : Append(fs, g)[k] = fs[k]
        /\ Append(fs, g)[Len(fs) + 1] = g
    BY <1>2, AppendProperties
  <1>5. /\ \A x \in Walk \ {w} : stack'[x] = stack[x]
        /\ refs'[d] = refs[d] - 1 /\ refs[d] \in Int
        /\ \A m \in Module \ {d} : refs'[m] = refs[m]
    BY <1>1 DEF ShutdownModule, TypeOK
  <1>6. \/ /\ refs[d] > 1 /\ stack'[w] = fs /\ destroy' = destroy
        \/ /\ refs[d] <= 1 /\ stack'[w] = Append(fs, g) /\ DestroyCalled(d)
    BY <1>1, <1>5 DEF ShutdownModule, TypeOK, g
  (* The frames are kept, and g may be on top of them. *)
  <1>7. /\ \A k \in 1 .. Len(os) : /\ k \in 1 .. Len(stack'[w])
                                   /\ stack'[w][k].fn = os[k].fn /\ stack'[w][k].of = os[k].of
        /\ Len(stack'[w]) \in Nat
        /\ \A k \in 1 .. Len(stack'[w]) : k \in 1 .. Len(os) \/ (k = Len(os) + 1 /\ stack'[w][k] = g)
    BY <1>3, <1>4, <1>6
  <1>8. FrameOrder'
    <2>1. \A k \in 1 .. Len(stack'["shutdown"]) : stack'["shutdown"][k].fn = "shutdown"
      <3>1. CASE w = "shutdown"
        BY <1>1, <1>2, <1>7, <3>1 DEF FrameOrder
      <3>2. CASE w # "shutdown"
        BY <1>1, <1>5, <3>2 DEF FrameOrder, Walk
      <3> QED
        BY <3>1, <3>2
    <2>2. ASSUME NEW k \in 1 .. Len(stack'["bootstrap"]),
                 stack'["bootstrap"][k].fn # "shutdown",
                 NEW j \in 1 .. k - 1
          PROVE  stack'["bootstrap"][j].fn = "bootstrap"
      <3>1. CASE w = "bootstrap"
        <4>1. k \in 1 .. Len(os) /\ os[k].fn # "shutdown" /\ j \in 1 .. Len(os)
          BY <1>2, <1>3, <1>7, <2>2, <3>1
        <4>2. os[j].fn = "bootstrap"
          BY <1>1, <2>2, <3>1, <4>1 DEF FrameOrder
        <4> QED
          BY <1>7, <3>1, <4>1, <4>2
      <3>2. CASE w # "bootstrap"
        BY <1>1, <1>5, <2>2, <3>2 DEF FrameOrder, Walk
      <3> QED
        BY <3>1, <3>2
    <2> QED
      BY <2>1, <2>2 DEF FrameOrder
  <1>9. /\ \A m \in Module \ {d} : destroy'[m] = destroy[m]
        /\ destroy'[d] = destroy[d] \/ (refs[d] <= 1 /\ destroy[d] = "none" /\ destroy'[d] = "waiting")
        /\ refs[d] <= 1 => boot[d] = "none" \/ destroy'[d] # "none"
    BY <1>1, <1>5, <1>6 DEF DestroyCalled, TypeOK
  <1>10. \A m \in Module : Visited(m)' /\ refs[m] > 1 => m # d
    <2>1. ASSUME Visited(d)', refs[d] > 1 PROVE FALSE
      <3>1. d # Root
        BY <1>5, <2>1
      <3>2. refs'[d] <= 0
        BY <2>1, <3>1
      <3> QED
        BY <1>5, <2>1, <3>2
    <2> QED
      BY <2>1
  <1>11. \A m \in Module : Visited(m)' => boot'[m] = "none" \/ destroy'[m] # "none"
    BY <1>1, <1>5, <1>9, <1>10 DEF VisitInv
  <1>12. \A m \in Module : Walking(m) => Walking(m)'
    <2>1. ASSUME NEW m \in Module, NEW x \in Walk, NEW k \in 1 .. Len(stack[x]),
                 stack[x][k].fn = "shutdown", stack[x][k].of = m
          PROVE  Walking(m)'
      <3>1. k \in 1 .. Len(stack'[x]) /\ stack'[x][k].fn = "shutdown" /\ stack'[x][k].of = m
        <4>1. CASE x = w
          BY <1>7, <2>1, <4>1
        <4>2. CASE x # w
          BY <1>5, <2>1, <4>2
        <4> QED
          BY <4>1, <4>2
      <3> QED
        BY <3>1 DEF Walking
    <2> QED
      BY <2>1 DEF Walking
  <1>13. refs[d] <= 1 => Walking(d)' /\ Awaits(w, d)'
    <2>1. SUFFICES ASSUME refs[d] <= 1 PROVE Walking(d)' /\ Awaits(w, d)'
      OBVIOUS
    <2>2. stack'[w] = Append(fs, g)
      BY <1>5, <1>6, <2>1
    <2>3. stack'[w] # <<>> /\ Last(stack'[w]) = g
      <3>1. /\ stack'[w] \in Seq(Frames) /\ Len(stack'[w]) = Len(fs) + 1 /\ Len(fs) \in Nat
            /\ stack'[w][Len(fs) + 1] = g
        BY <1>4, <2>2, LenProperties
      <3>2. stack'[w] # <<>>
        BY <3>1
      <3>3. Last(stack'[w]) = stack'[w][Len(stack'[w])]
        BY DEF Last
      <3> QED
        BY <3>1, <3>2, <3>3
    <2>4. Len(fs) + 1 \in 1 .. Len(stack'[w]) /\ stack'[w][Len(fs) + 1] = g
      BY <1>3, <1>4, <2>2
    <2> QED
      BY <1>2, <2>3, <2>4 DEF Walking, Awaits, At
  <1>14. NoDestroyFailed' => NoDestroyFailed
    BY <1>9 DEF NoDestroyFailed
  <1>15. ASSUME NEW m \in Module, Visited(m)', NoDestroyFailed'
         PROVE  Walking(m)' \/ deps'[m] = <<>>
    <2>1. CASE m = d
      BY <1>5, <1>10, <1>13, <1>15, <2>1
    <2>2. CASE m # d
      <3>1. Walking(m) \/ deps[m] = <<>>
        BY <1>1, <1>14, <1>15, <2>2 DEF VisitInv
      <3>2. deps'[m] = deps[m] \/ Walking(m)
        BY DEF Walking
      <3> QED
        BY <1>12, <3>1, <3>2
    <2> QED
      BY <2>1, <2>2
  <1>16. ASSUME NEW m \in Module, NEW x \in Walk, Awaits(x, m), destroy[m] \notin {"none", "ok"}
         PROVE  Awaits(x, m)'
    <2>1. x # w
      BY <1>16
    <2> QED
      BY <1>5, <1>16, <2>1 DEF Awaits, At
  <1>17. ASSUME NEW m \in Module
         PROVE  /\ destroy'[m] \in {"waiting", "hooks"} => \E x \in Walk : Awaits(x, m)'
                /\ destroy'[m] = "failed" => \/ \E x \in Walk : Awaits(x, m)'
                                            \/ entry'.shutdown \in {"failing", "failed"}
                                            \/ entry'.bootstrap = "failed"
    <2>1. CASE destroy'[m] = destroy[m]
      <3>1. destroy[m] \in {"waiting", "hooks"} => \E x \in Walk : Awaits(x, m)'
        BY <1>1, <1>16 DEF VisitInv
      <3>2. destroy[m] = "failed" => \/ \E x \in Walk : Awaits(x, m)'
                                     \/ entry.shutdown \in {"failing", "failed"}
                                     \/ entry.bootstrap = "failed"
        BY <1>1, <1>16 DEF VisitInv
      <3> QED
        BY <2>1, <3>1, <3>2
    <2>2. CASE m = d /\ refs[d] <= 1
      BY <1>9, <1>13, <2>2
    <2> QED
      BY <1>9, <2>1, <2>2
  <1> QED
    BY <1>8, <1>11, <1>15, <1>17 DEF VisitInv

(* A list that loses its last element refers once less to what it named.   *)
LEMMA ReferencesFewer ==
  ASSUME IInv, NEW m \in Module, deps[m] # <<>>, deps' = [deps EXCEPT ![m] = Front(@)],
         refs' = [refs EXCEPT ![Last(deps[m])] = @ - 1]
  PROVE  \A x \in Module : refs'[x] <= Cardinality(References(x))'
  <1> DEFINE p == <<m, Len(deps[m])>>
             d == Last(deps[m])
  <1>1. /\ deps \in [Module -> Seq(Module)] /\ refs \in [Module -> Int]
        /\ \A x \in Module : refs[x] <= Cardinality(References(x))
    BY DEF IInv, TypeOK, VisitInv
  <1>2. SUFFICES ASSUME NEW x \in Module PROVE refs'[x] <= Cardinality(References(x)')
    OBVIOUS
  <1>3. References(x)' = References(x) \ {p} /\ (p \in References(x) <=> x = d)
    BY <1>1, ReferencesPopped
  <1>4. IsFiniteSet(References(x)) /\ Cardinality(References(x)) \in Nat
    BY <1>1, ReferencesFinite, FS_CardinalityType
  <1> HIDE DEF p
  <1>5. CASE x = d
    <2>1. Cardinality(References(x) \ {p}) = Cardinality(References(x)) - 1
      BY <1>3, <1>4, <1>5, FS_RemoveElement
    <2>2. refs'[x] = refs[x] - 1
      BY <1>1, <1>5
    <2> QED
      BY <1>1, <1>3, <1>4, <2>1, <2>2
  <1>6. CASE x # d
    <2>1. References(x) \ {p} = References(x)
      BY <1>3, <1>6
    <2>2. refs'[x] = refs[x]
      BY <1>1, <1>6
    <2> QED
      BY <1>1, <1>3, <2>1, <2>2
  <1> QED
    BY <1>5, <1>6

(* The clean-up releases a dependency and leaves it in the list.           *)
LEMMA VisitReleases ==
  ASSUME IInv, ReleaseDependency
  PROVE  VisitInv'
  <1> DEFINE os == stack["bootstrap"]
             f  == Last(os)
             d  == deps[f.of][f.next]
             fs == Advanced(os)
  <1>1. /\ TypeOK /\ VisitInv /\ os # <<>> /\ f.fn = "cleanup" /\ boot' = boot /\ deps' = deps
        /\ entry' = entry /\ f.next <= Len(deps[f.of]) /\ ShutdownModule("bootstrap", d, fs)
        /\ "bootstrap" \in Walk
    BY DEF IInv, ReleaseDependency, At, Walk
  <1>2. os \in Seq(Frames) /\ f \in Frames /\ Len(os) \in 1 .. Len(os) /\ f = os[Len(os)]
    BY <1>1, WalkFrames
  <1>3. f.of \in Module /\ f.next \in Nat \ {0} /\ Len(deps[f.of]) \in Nat
    BY <1>1, <1>2, LenProperties DEF Frames, TypeOK
  <1>4. d \in Module \ {Root}
    BY <1>1, <1>3, RootUnreferenced
  <1>5. /\ fs \in Seq(Frames) /\ Len(fs) = Len(os)
        /\ \A k \in 1 .. Len(os) - 1 : fs[k] = os[k]
        /\ fs[Len(os)] = [os[Len(os)] EXCEPT !.next = os[Len(os)].next + 1]
    BY <1>1, <1>2, AdvancedFrames
  <1>6. \A k \in 1 .. Len(fs) : fs[k].fn = os[k].fn /\ fs[k].of = os[k].of
    <2>1. fs[Len(os)].fn = os[Len(os)].fn /\ fs[Len(os)].of = os[Len(os)].of
      BY <1>2, <1>5 DEF Frames
    <2>2. ASSUME NEW k \in 1 .. Len(fs), k # Len(os) PROVE fs[k] = os[k]
      <3>1. Len(os) \in Nat /\ k \in 1 .. Len(os) - 1
        BY <1>2, <1>5, <2>2, LenProperties
      <3> QED
        BY <1>5, <3>1
    <2> QED
      BY <2>1, <2>2
  <1>7. \A m \in Module : Awaits("bootstrap", m) => destroy[m] \in {"none", "ok"}
    BY <1>1 DEF Awaits, At
  <1>8. ~At("bootstrap", "bootstrap")
    BY <1>1 DEF At
  <1> HIDE DEF d, fs
  <1>9. /\ refs' = [refs EXCEPT ![d] = @ - 1] /\ stack'["shutdown"] = stack["shutdown"]
        /\ refs \in [Module -> Int]
    BY <1>1 DEF ShutdownModule, TypeOK, Walk
  <1>10. \A m \in Module : /\ m # d /\ Visited(m)' => Visited(m)
                           /\ m # Root => (Visited(m)' <=> refs'[m] <= 0)
    BY <1>1, <1>9 DEF Visited
  <1>11. ASSUME NEW m \in Module PROVE refs'[m] <= Cardinality(References(m))'
    <2>1. References(m)' = References(m)
      BY <1>1 DEF References
    <2>2. refs[m] <= Cardinality(References(m)) /\ Cardinality(References(m)) \in Nat
      BY <1>1, ReferencesFinite, FS_CardinalityType DEF VisitInv, TypeOK
    <2>3. refs'[m] <= refs[m] /\ refs'[m] \in Int /\ refs[m] \in Int
      BY <1>4, <1>9
    <2> QED
      BY <2>1, <2>2, <2>3
  <1>12. stack'["shutdown"] # <<>> => entry'.shutdown = "walking"
    BY <1>1, <1>9 DEF VisitInv, FrameOrder
  <1> QED
    BY <1>1, <1>2, <1>4, <1>5, <1>6, <1>7, <1>8, <1>10, <1>11, <1>12, VisitCall

(* A walk that destroys takes the next dependency.                         *)
LEMMA VisitPops ==
  ASSUME IInv, NEW w \in Walk, ShutdownDependency(w)
  PROVE  VisitInv'
  <1> DEFINE os == stack[w]
             m  == Last(os).of
             d  == Last(deps[m])
  <1>1. /\ TypeOK /\ VisitInv /\ os # <<>> /\ Last(os).fn = "shutdown" /\ boot' = boot
        /\ destroy[m] \in {"none", "ok"} /\ entry' = entry /\ deps[m] # <<>>
        /\ deps' = [deps EXCEPT ![m] = Front(@)] /\ ShutdownModule(w, d, os)
    BY DEF IInv, ShutdownDependency, Destroyed, At
  <1>2. os \in Seq(Frames) /\ m \in Module /\ Len(os) \in 1 .. Len(os) /\ Last(os) = os[Len(os)]
    BY <1>1, WalkFrames
  <1>3. deps[m] \in Seq(Module) /\ deps \in [Module -> Seq(Module)]
    BY <1>1, <1>2 DEF TypeOK
  <1>4. d \in Module \ {Root}
    <2>1. d = deps[m][Len(deps[m])] /\ Len(deps[m]) \in Nat \ {0}
      BY <1>1, <1>3, FrontLast
    <2>2. Len(deps[m]) \in 1 .. Len(deps[m])
      BY <2>1
    <2> QED
      BY <1>2, <2>1, <2>2, RootUnreferenced
  <1>5. \A x \in Module : Awaits(w, x) => destroy[x] \in {"none", "ok"}
    BY <1>1 DEF Awaits
  <1>6. ~At(w, "bootstrap")
    BY <1>1 DEF At
  <1>7. \A x \in Module : \/ deps'[x] = deps[x]
                          \/ \E k \in 1 .. Len(os) : os[k].fn = "shutdown" /\ os[k].of = x
    BY <1>1, <1>2, <1>3
  <1>8. refs' = [refs EXCEPT ![d] = @ - 1] /\ refs \in [Module -> Int]
    BY <1>1 DEF ShutdownModule, TypeOK
  <1>9. \A x \in Module : refs'[x] <= Cardinality(References(x))'
    BY <1>1, <1>2, <1>8, ReferencesFewer
  <1> HIDE DEF d, m
  <1>10. \A x \in Module : /\ x # d /\ Visited(x)' => Visited(x)
                           /\ x # Root => (Visited(x)' <=> refs'[x] <= 0)
    BY <1>1, <1>8 DEF Visited
  <1>11. stack'["shutdown"] # <<>> => entry'.shutdown = "walking"
    <2>1. CASE w = "shutdown"
      BY <1>1, <2>1 DEF VisitInv, FrameOrder
    <2>2. CASE w # "shutdown"
      BY <1>1, <2>2 DEF VisitInv, FrameOrder, ShutdownModule, TypeOK, Walk
    <2> QED
      BY <2>1, <2>2
  <1> QED
    BY <1>1, <1>2, <1>4, <1>5, <1>6, <1>7, <1>9, <1>10, <1>11, VisitCall

(* shutdown() begins its walk at the root.                                 *)
LEMMA VisitBegins ==
  ASSUME IInv, EntryShutdown
  PROVE  VisitInv'
  <1>1. /\ TypeOK /\ VisitInv /\ boot' = boot /\ deps' = deps /\ Root \in Module
        /\ entry.shutdown = "stopping" /\ entry'.shutdown = "walking"
        /\ entry'.bootstrap = entry.bootstrap
        /\ ShutdownModule("shutdown", Root, <<>>) /\ "shutdown" \in Walk
    BY ModuleAssumption DEF IInv, EntryShutdown, Walk, TypeOK
  <1>2. stack["shutdown"] = <<>> /\ Len(stack["shutdown"]) = 0
    BY <1>1 DEF VisitInv, FrameOrder
  <1>3. refs' = [refs EXCEPT ![Root] = @ - 1] /\ refs \in [Module -> Int]
    BY <1>1 DEF ShutdownModule, TypeOK
  <1>4. \A m \in Module : /\ References(m)' = References(m)
                          /\ refs[m] <= Cardinality(References(m))
                          /\ Cardinality(References(m)) \in Nat
    <2>1. ASSUME NEW m \in Module PROVE Cardinality(References(m)) \in Nat
      BY <1>1, ReferencesFinite, FS_CardinalityType DEF TypeOK
    <2>2. \A m \in Module : References(m)' = References(m)
      BY <1>1 DEF References
    <2> QED
      BY <1>1, <2>1, <2>2 DEF VisitInv
  <1>5. Cardinality(References(Root)) = 0
    BY RootUnreferenced, FS_EmptySet
  <1>6. \A m \in Module : refs'[m] <= Cardinality(References(m))'
    BY <1>1, <1>3, <1>4
  <1>7. \A m \in Module : /\ m # Root /\ Visited(m)' => Visited(m)
                          /\ m # Root => (Visited(m)' <=> refs'[m] <= 0)
    BY <1>1, <1>3 DEF Visited
  <1>8. /\ \A m \in Module : ~Awaits("shutdown", m)
        /\ ~At("shutdown", "bootstrap")
    BY <1>2 DEF Awaits, At
  <1>9. refs[Root] <= 1
    BY <1>1, <1>3, <1>4, <1>5
  <1>10. <<>> \in Seq(Frames) /\ Len(<<>>) = 0
    OBVIOUS
  <1> QED
    BY <1>1, <1>2, <1>6, <1>7, <1>8, <1>9, <1>10, VisitCall

(* What a step that moves the walk w, and calls nothing, leaves.           *)
LEMMA VisitMoves ==
  ASSUME IInv, NEW w \in Walk, boot' = boot, destroy' = destroy, refs' = refs, deps' = deps,
         \A x \in Walk \ {w} : stack'[x] = stack[x], FrameOrder',
         \A k \in 1 .. Len(stack[w]) :
           stack[w][k].fn = "shutdown" /\ NoDestroyFailed =>
             \/ deps[stack[w][k].of] = <<>>
             \/ \E j \in 1 .. Len(stack'[w]) :
                  stack'[w][j].fn = "shutdown" /\ stack'[w][j].of = stack[w][k].of,
         \A m \in Module : Awaits(w, m) /\ destroy[m] \notin {"none", "ok"} =>
           /\ destroy[m] = "failed"
           /\ entry'.shutdown \in {"failing", "failed"} \/ entry'.bootstrap = "failed",
         \A m \in Module : Visited(m)' => Visited(m),
         entry.bootstrap = "failed" => entry'.bootstrap = "failed",
         entry.shutdown \in {"failing", "failed"} => entry'.shutdown \in {"failing", "failed"}
  PROVE  VisitInv'
  <1>1. VisitInv /\ TypeOK
    BY DEF IInv
  <1>2. \A m \in Module : refs'[m] <= Cardinality(References(m))'
    BY <1>1 DEF VisitInv, References
  <1>3. \A m \in Module : Visited(m)' => boot'[m] = "none" \/ destroy'[m] # "none"
    BY <1>1 DEF VisitInv
  <1>4. ASSUME NEW m \in Module, Visited(m)', NoDestroyFailed'
        PROVE  Walking(m)' \/ deps'[m] = <<>>
    <2>1. Walking(m) \/ deps[m] = <<>>
      BY <1>1, <1>4 DEF VisitInv, NoDestroyFailed
    <2>2. ASSUME NEW x \in Walk, NEW k \in 1 .. Len(stack[x]), stack[x][k].fn = "shutdown",
                 stack[x][k].of = m
          PROVE  Walking(m)' \/ deps[m] = <<>>
      <3>1. CASE x = w
        BY <1>4, <2>2, <3>1 DEF Walking, NoDestroyFailed
      <3>2. CASE x # w
        BY <2>2, <3>2 DEF Walking
      <3> QED
        BY <3>1, <3>2
    <2> QED
      BY <2>1, <2>2 DEF Walking
  <1>5. ASSUME NEW m \in Module, destroy[m] \in {"waiting", "hooks", "failed"}, NEW x \in Walk, Awaits(x, m)
        PROVE  \/ Awaits(x, m)'
               \/ /\ destroy[m] = "failed"
                  /\ entry'.shutdown \in {"failing", "failed"} \/ entry'.bootstrap = "failed"
    <2>1. CASE x = w
      BY <1>5, <2>1
    <2>2. CASE x # w
      BY <1>5, <2>2 DEF Awaits, At
    <2> QED
      BY <2>1, <2>2
  <1>6. ASSUME NEW m \in Module
        PROVE  /\ destroy'[m] \in {"waiting", "hooks"} => \E x \in Walk : Awaits(x, m)'
               /\ destroy'[m] = "failed" => \/ \E x \in Walk : Awaits(x, m)'
                                           \/ entry'.shutdown \in {"failing", "failed"}
                                           \/ entry'.bootstrap = "failed"
    BY <1>1, <1>5 DEF VisitInv
  <1> QED
    BY <1>2, <1>3, <1>4, <1>6 DEF VisitInv

(* While the creating walk creates or releases, no frame of it destroys.   *)
LEMMA NoFrameDestroys ==
  ASSUME IInv, At("bootstrap", "bootstrap") \/ At("bootstrap", "cleanup")
  PROVE  LET os == stack["bootstrap"]
         IN /\ os # <<>> /\ os \in Seq(Frames) /\ Len(os) \in 1 .. Len(os)
            /\ \A j \in 1 .. Len(os) - 1 : os[j].fn = "bootstrap"
            /\ \A k \in 1 .. Len(os) : os[k].fn # "shutdown"
            /\ \A m \in Module : ~Awaits("bootstrap", m)
  <1> DEFINE os == stack["bootstrap"]
  <1>1. TypeOK /\ FrameOrder /\ os # <<>> /\ "bootstrap" \in Walk /\ Last(os).fn # "shutdown"
    BY DEF IInv, VisitInv, At, Walk
  <1>2. os \in Seq(Frames) /\ Len(os) \in 1 .. Len(os) /\ Last(os) = os[Len(os)] /\ Len(os) \in Nat
    BY <1>1, WalkFrames
  <1>3. \A j \in 1 .. Len(os) - 1 : os[j].fn = "bootstrap"
    BY <1>1, <1>2 DEF FrameOrder
  <1>4. \A k \in 1 .. Len(os) : k = Len(os) \/ k \in 1 .. Len(os) - 1
    BY <1>2
  <1>5. \A k \in 1 .. Len(os) : os[k].fn # "shutdown"
    BY <1>1, <1>2, <1>3, <1>4
  <1> QED
    BY <1>1, <1>2, <1>3, <1>5 DEF Awaits, At

(* The creating walk moves among frames that create, or ends.              *)
LEMMA VisitCreates ==
  ASSUME IInv, boot' = boot, destroy' = destroy, refs' = refs, deps' = deps,
         stack'["shutdown"] = stack["shutdown"], entry'.shutdown = entry.shutdown,
         entry.bootstrap = "failed" => entry'.bootstrap = "failed",
         stack["bootstrap"] = <<>> \/ At("bootstrap", "bootstrap") \/ At("bootstrap", "cleanup"),
         \A k \in 1 .. Len(stack'["bootstrap"]) :
           \A j \in 1 .. k - 1 : stack'["bootstrap"][j].fn = "bootstrap"
  PROVE  VisitInv'
  <1> DEFINE os == stack["bootstrap"]
  <1>1. /\ FrameOrder /\ "bootstrap" \in Walk
        /\ \A x \in Walk \ {"bootstrap"} : stack'[x] = stack[x]
    BY DEF IInv, VisitInv, Walk
  <1>2. FrameOrder'
    BY <1>1 DEF FrameOrder
  <1>3. /\ \A k \in 1 .. Len(os) : os[k].fn # "shutdown"
        /\ \A m \in Module : ~Awaits("bootstrap", m)
    <2>1. CASE os = <<>>
      BY <2>1 DEF Awaits, At
    <2>2. CASE At("bootstrap", "bootstrap") \/ At("bootstrap", "cleanup")
      BY <2>2, NoFrameDestroys
    <2> QED
      BY <2>1, <2>2
  <1>4. \A m \in Module : Visited(m)' => Visited(m)
    BY DEF Visited
  <1> QED
    BY <1>1, <1>2, <1>3, <1>4, VisitMoves

(* A walk that destroys returns from a module without dependencies left.   *)
LEMMA VisitReturns ==
  ASSUME IInv, NEW w \in Walk, ShutdownReturns(w)
  PROVE  VisitInv'
  <1> DEFINE os == stack[w]
             m  == Last(os).of
  <1>1. /\ TypeOK /\ VisitInv /\ FrameOrder /\ os # <<>> /\ Last(os).fn = "shutdown"
        /\ destroy[m] \in {"none", "ok"} /\ deps[m] = <<>>
        /\ stack' = [stack EXCEPT ![w] = Front(os)] /\ UNCHANGED <<moduleVars, graphVars>>
    BY DEF IInv, VisitInv, ShutdownReturns, Destroyed, At
  <1>2. /\ os \in Seq(Frames) /\ Len(os) \in 1 .. Len(os) /\ Last(os) = os[Len(os)]
        /\ Len(Front(os)) = Len(os) - 1 /\ Len(os) \in Nat
        /\ \A i \in 1 .. Len(os) - 1 : Front(os)[i] = os[i]
    BY <1>1, WalkFrames
  <1>3. /\ stack'[w] = Front(os) /\ \A x \in Walk \ {w} : stack'[x] = stack[x]
    BY <1>1 DEF TypeOK
  <1>4. ASSUME NEW k \in 1 .. Len(os), k # Len(os)
        PROVE  k \in 1 .. Len(stack'[w]) /\ stack'[w][k] = os[k]
    <2>1. k \in 1 .. Len(os) - 1
      BY <1>2, <1>4
    <2> QED
      BY <1>2, <1>3, <2>1
  <1>5. \A k \in 1 .. Len(stack'[w]) : k \in 1 .. Len(os) /\ stack'[w][k] = os[k]
    BY <1>2, <1>3
  <1>6. /\ w = "bootstrap" => entry' = entry
        /\ w = "shutdown" /\ Len(os) # 1 => entry' = entry
        /\ Len(os) = 1 => stack'[w] = <<>>
    <2>1. Len(os) = 1 => Front(os) = <<>>
      BY <1>2, EmptySeq DEF Front
    <2> QED
      BY <1>3, <2>1 DEF ShutdownReturns
  <1>7. /\ entry'.bootstrap = entry.bootstrap
        /\ \/ entry'.shutdown = entry.shutdown
           \/ w = "shutdown" /\ Len(os) = 1 /\ entry'.shutdown \in Draining
    BY <1>1 DEF ShutdownReturns, TypeOK, Draining
  <1>8. w = "shutdown" => entry.shutdown = "walking"
    BY <1>1 DEF FrameOrder
  <1>9. FrameOrder'
    <2>1. \A k \in 1 .. Len(stack'["shutdown"]) : stack'["shutdown"][k].fn = "shutdown"
      <3>1. CASE w = "shutdown"
        BY <1>1, <1>5, <3>1 DEF FrameOrder
      <3>2. CASE w # "shutdown"
        BY <1>1, <1>3, <3>2 DEF FrameOrder, Walk
      <3> QED
        BY <3>1, <3>2
    <2>2. ASSUME NEW k \in 1 .. Len(stack'["bootstrap"]), stack'["bootstrap"][k].fn # "shutdown",
                 NEW j \in 1 .. k - 1
          PROVE  stack'["bootstrap"][j].fn = "bootstrap"
      <3>1. CASE w = "bootstrap"
        <4>1. k \in 1 .. Len(os) /\ os[k].fn # "shutdown" /\ j \in 1 .. Len(stack'[w])
          BY <1>2, <1>3, <1>5, <2>2, <3>1
        <4> QED
          BY <1>1, <1>5, <2>2, <3>1, <4>1 DEF FrameOrder
      <3>2. CASE w # "bootstrap"
        BY <1>1, <1>3, <2>2, <3>2 DEF FrameOrder, Walk
      <3> QED
        BY <3>1, <3>2
    <2>3. stack'["shutdown"] # <<>> => entry'.shutdown = "walking"
      BY <1>1, <1>3, <1>6, <1>7 DEF FrameOrder, Walk
    <2> QED
      BY <2>1, <2>2, <2>3 DEF FrameOrder
  <1>10. \A k \in 1 .. Len(os) :
           os[k].fn = "shutdown" =>
             \/ deps[os[k].of] = <<>>
             \/ \E j \in 1 .. Len(stack'[w]) : stack'[w][j].fn = "shutdown" /\ stack'[w][j].of = os[k].of
    BY <1>1, <1>2, <1>4
  <1>11. \A x \in Module : Awaits(w, x) => destroy[x] \in {"none", "ok"}
    BY <1>1 DEF Awaits
  <1>12. \A x \in Module : Visited(x)' => Visited(x)
    BY <1>1, <1>7, <1>8 DEF Visited, graphVars
  <1>13. entry.shutdown \in {"failing", "failed"} => entry'.shutdown \in {"failing", "failed"}
    BY <1>7, <1>8
  <1> QED
    BY <1>1, <1>3, <1>7, <1>9, <1>10, <1>11, <1>12, <1>13, VisitMoves DEF moduleVars, graphVars

(* A destroy() that rejects ends its walk.                                 *)
LEMMA VisitRejects ==
  ASSUME IInv, NEW w \in Walk, ShutdownRejects(w)
  PROVE  VisitInv'
  <1> DEFINE os == stack[w]
  <1>1. /\ TypeOK /\ FrameOrder /\ os # <<>> /\ destroy[Last(os).of] = "failed"
        /\ Last(os).of \in Module
        /\ stack' = [stack EXCEPT ![w] = <<>>] /\ UNCHANGED <<moduleVars, graphVars>>
    BY WalkFrames DEF IInv, VisitInv, ShutdownRejects, At
  <1>2. /\ stack'[w] = <<>> /\ \A x \in Walk \ {w} : stack'[x] = stack[x]
    BY <1>1 DEF TypeOK
  <1>3. /\ w = "bootstrap" => entry'.bootstrap = "failed" /\ entry'.shutdown = entry.shutdown
        /\ w = "shutdown" => entry'.bootstrap = entry.bootstrap /\ entry'.shutdown = "failing"
                            /\ entry.shutdown = "walking"
    BY <1>1 DEF ShutdownRejects, TypeOK, FrameOrder
  <1>4. ~NoDestroyFailed
    BY <1>1 DEF NoDestroyFailed
  <1>5. Len(stack'[w]) = 0
    BY <1>2
  <1>6. FrameOrder'
    <2>1. CASE w = "shutdown"
      BY <1>1, <1>2, <1>5, <2>1 DEF FrameOrder, Walk
    <2>2. CASE w = "bootstrap"
      BY <1>1, <1>2, <1>3, <1>5, <2>2 DEF FrameOrder, Walk
    <2> QED
      BY <2>1, <2>2 DEF Walk
  <1>7. \A x \in Module : Awaits(w, x) => destroy[x] = "failed"
    BY <1>1 DEF Awaits
  <1>8. \A x \in Module : Visited(x)' => Visited(x)
    BY <1>1, <1>3 DEF Visited, graphVars, Walk
  <1>9. /\ entry'.shutdown \in {"failing", "failed"} \/ entry'.bootstrap = "failed"
        /\ entry.bootstrap = "failed" => entry'.bootstrap = "failed"
        /\ entry.shutdown \in {"failing", "failed"} => entry'.shutdown \in {"failing", "failed"}
    BY <1>3 DEF Walk
  <1> QED
    BY <1>1, <1>2, <1>4, <1>6, <1>7, <1>8, <1>9, VisitMoves DEF moduleVars, graphVars

(* The creating walk: its calls, its returns and the catch block.          *)
LEMMA VisitBoot ==
  ASSUME IInv, \/ BootstrapDependency \/ BootstrapRejects
               \/ \E m \in Module : BootstrapReturns(m) \/ BootstrapFails(m)
  PROVE  VisitInv'
  <1> DEFINE os == stack["bootstrap"]
  <1> USE DEF moduleVars, graphVars
  <1>1. TypeOK /\ stack \in [Walk -> Seq(Frames)]
    BY DEF IInv, TypeOK
  <1>2. At("bootstrap", "bootstrap") \/ At("bootstrap", "cleanup")
    BY DEF BootstrapDependency, BootstrapRejects, BootstrapReturns, BootstrapFails, Bootstrapping
  <1>3. /\ os # <<>> /\ os \in Seq(Frames) /\ Len(os) \in 1 .. Len(os) /\ Len(os) \in Nat
        /\ \A j \in 1 .. Len(os) - 1 : os[j].fn = "bootstrap"
        /\ entry.bootstrap = "running"
    BY <1>2, NoFrameDestroys, LenProperties DEF IInv, BootInv
  <1>4. /\ Last(os) = os[Len(os)] /\ Front(os) \in Seq(Frames) /\ Len(Front(os)) = Len(os) - 1
        /\ \A i \in 1 .. Len(os) - 1 : Front(os)[i] = os[i]
    BY <1>3, FrontLast
  <1>5. SUFFICES ASSUME NEW gs, stack'["bootstrap"] = gs,
                        \A k \in 1 .. Len(gs) : \A j \in 1 .. k - 1 : gs[j].fn = "bootstrap"
                 PROVE  VisitInv'
    <2>1. CASE BootstrapDependency
      <3> DEFINE d == deps[Last(os).of][Last(os).next]
                 gs == Append(os, Frame("bootstrap", d))
      <3>1. stack'["bootstrap"] = gs /\ os[Len(os)].fn = "bootstrap"
        BY <1>1, <1>4, <2>1 DEF BootstrapDependency, At, Walk
      <3>2. \A j \in 1 .. Len(os) : gs[j] = os[j]
        BY <1>3
      <3>3. Len(gs) = Len(os) + 1
        BY <1>3
      <3> HIDE DEF gs
      <3>4. \A k \in 1 .. Len(gs) : \A j \in 1 .. k - 1 : gs[j].fn = "bootstrap"
        <4>1. ASSUME NEW j \in 1 .. Len(os) PROVE gs[j].fn = "bootstrap"
          <5>1. j = Len(os) \/ j \in 1 .. Len(os) - 1
            BY <1>3
          <5> QED
            BY <1>3, <3>1, <3>2, <5>1
        <4> QED
          BY <1>3, <3>3, <4>1
      <3> QED
        BY <1>5, <3>1, <3>4
    <2>2. CASE BootstrapRejects
      <3>1. stack'["bootstrap"] = <<>>
        BY <1>1, <2>2 DEF BootstrapRejects, Walk
      <3> QED
        BY <1>5, <3>1
    <2>3. ASSUME NEW m \in Module, BootstrapReturns(m) PROVE VisitInv'
      <3> DEFINE gs == Advanced(Front(os))
      <3>1. \/ stack'["bootstrap"] = <<>>
            \/ Front(os) # <<>> /\ stack'["bootstrap"] = gs
        BY <1>1, <2>3 DEF BootstrapReturns, Walk
      <3>2. ASSUME Front(os) # <<>>
            PROVE  \A k \in 1 .. Len(gs) : \A j \in 1 .. k - 1 : gs[j].fn = "bootstrap"
        <4>1. Len(gs) = Len(os) - 1 /\ \A i \in 1 .. Len(os) - 1 - 1 : gs[i] = Front(os)[i]
          BY <1>4, <3>2, AdvancedFrames
        <4> HIDE DEF gs
        <4>2. ASSUME NEW k \in 1 .. Len(gs), NEW j \in 1 .. k - 1 PROVE gs[j].fn = "bootstrap"
          <5>1. j \in 1 .. Len(os) - 1 - 1 /\ j \in 1 .. Len(os) - 1
            BY <1>3, <4>1, <4>2
          <5> QED
            BY <1>3, <1>4, <4>1, <5>1
        <4> QED
          BY <4>2
      <3> HIDE DEF gs
      <3> QED
        BY <1>5, <3>1, <3>2
    <2>4. ASSUME NEW m \in Module, BootstrapFails(m) PROVE VisitInv'
      <3> DEFINE gs == Append(Front(os), Frame("cleanup", m))
      <3>1. stack'["bootstrap"] = gs
        BY <1>1, <2>4 DEF BootstrapFails, Walk
      <3>2. \A j \in 1 .. Len(os) - 1 : gs[j] = os[j]
        BY <1>3, <1>4
      <3>3. Len(gs) = Len(os)
        BY <1>3, <1>4
      <3> HIDE DEF gs
      <3>4. \A k \in 1 .. Len(gs) : \A j \in 1 .. k - 1 : gs[j].fn = "bootstrap"
        BY <1>3, <3>2, <3>3
      <3> QED
        BY <1>5, <3>1, <3>4
    <2> QED
      BY <2>1, <2>2, <2>3, <2>4
  <1>6. /\ boot' = boot /\ destroy' = destroy /\ refs' = refs /\ deps' = deps
        /\ stack'["shutdown"] = stack["shutdown"] /\ entry'.shutdown = entry.shutdown
    BY <1>1 DEF BootstrapDependency, BootstrapRejects, BootstrapReturns, BootstrapFails, Walk, TypeOK
  <1> QED
    BY <1>2, <1>3, <1>5, <1>6, VisitCreates

(* The calls of bootstrap() and start() put the root's frame on an empty   *)
(* stack.                                                                  *)
LEMMA VisitCalled ==
  ASSUME IInv, CallBootstrap \/ CallStart
  PROVE  VisitInv'
  <1> USE DEF moduleVars, graphVars
  <1>1. TypeOK
    BY DEF IInv
  <1>2. /\ boot' = boot /\ destroy' = destroy /\ refs' = refs /\ deps' = deps
        /\ stack'["shutdown"] = stack["shutdown"] /\ entry'.shutdown = entry.shutdown
        /\ entry.bootstrap = "failed" => entry'.bootstrap = "failed"
        /\ \/ stack' = stack
           \/ entry.bootstrap = "none" /\ stack'["bootstrap"] = <<Frame("bootstrap", Root)>>
    BY <1>1 DEF CallBootstrap, CallStart, TypeOK, Walk
  <1>3. CASE stack' = stack
    <2>1. entry'.shutdown = entry.shutdown
      BY <1>2
    <2> QED
      BY <1>2, <1>3, <2>1, VisitQuiet
  <1>4. CASE entry.bootstrap = "none" /\ stack'["bootstrap"] = <<Frame("bootstrap", Root)>>
    <2>1. stack["bootstrap"] = <<>>
      BY <1>4 DEF IInv, BootInv
    <2>2. Len(stack'["bootstrap"]) = 1
      BY <1>4
    <2> QED
      BY <1>2, <2>1, <2>2, VisitCreates
  <1> QED
    BY <1>2, <1>3, <1>4

(* What has been visited is not created any more.                          *)
LEMMA NotVisited ==
  ASSUME IInv, NEW m \in Module, PerformBootstrap(m)
  PROVE  ~Visited(m)
  <1>1. /\ At("bootstrap", "bootstrap") /\ Last(stack["bootstrap"]).of = m /\ boot[m] = "none"
        /\ stack["bootstrap"] # <<>>
    BY DEF PerformBootstrap, Bootstrapping, At
  <1>2. NoCreationFailed /\ deps = Requires
    BY <1>1, NoFailureYet
  <1>3. entry.stop \notin Settled /\ entry.shutdown \notin {"walking"} \cup Draining \cup Settled
    BY <1>1 DEF IInv, BootInv, EntryInv, Settled
  <1>4. CASE m = Root
    BY <1>3, <1>4 DEF Visited
  <1>5. CASE m # Root
    <2>1. refs[m] = Cardinality(References(m))
      BY <1>2, <1>5 DEF IInv, ReleaseInv, ReleaseOrder
    <2>2. refs[m] > 0 /\ refs[m] \in Int
      BY <1>2, <1>5, <2>1, Referenced DEF IInv, TypeOK
    <2> QED
      BY <1>5, <2>2 DEF Visited
  <1> QED
    BY <1>4, <1>5

(* The part of the invariant about what the walks have visited is kept by  *)
(* every action.                                                           *)
LEMMA VisitNext ==
  ASSUME IInv, [Next]_vars
  PROVE  VisitInv'
  <1> USE DEF vars, moduleVars, graphVars
  <1>1. TypeOK
    BY DEF IInv
  <1>2. ASSUME stack' = stack, refs' = refs, deps' = deps, boot' = boot,
               \A m \in Module : \/ destroy'[m] = destroy[m]
                                 \/ destroy[m] \in {"waiting", "hooks"} /\ destroy'[m] # "none",
               entry'.bootstrap = entry.bootstrap, entry'.shutdown = entry.shutdown
        PROVE  VisitInv'
    BY <1>2, VisitQuiet
  <1>3. CASE CallBootstrap \/ CallStart
    BY <1>3, VisitCalled
  <1>4. CASE Exit \/ UNCHANGED vars
    BY <1>2, <1>4 DEF Exit
  <1>5. CASE CallShutdown
    <2>1. /\ UNCHANGED <<moduleVars, graphVars, stack>> /\ entry'.bootstrap = entry.bootstrap
          /\ entry.shutdown = "none" /\ entry'.shutdown = "stopping"
      BY <1>1, <1>5 DEF CallShutdown, TypeOK
    <2> QED
      BY <2>1, VisitQuiet DEF Draining, Settled
  <1>6. CASE WalkStep
    <2>1. CASE BootstrapDependency \/ BootstrapRejects
      BY <2>1, VisitBoot
    <2>2. CASE ReleaseDependency
      BY <2>2, VisitReleases
    <2> QED
      BY <1>6, <2>1, <2>2, VisitPops, VisitReturns, VisitRejects DEF WalkStep
  <1>7. CASE EntryShutdown
    BY <1>7, VisitBegins
  <1>8. CASE BackgroundTasksSettle
    <2>1. /\ UNCHANGED <<moduleVars, graphVars, stack>> /\ entry'.bootstrap = entry.bootstrap
          /\ entry.shutdown \in Draining /\ entry'.shutdown \in Settled
          /\ entry.shutdown = "failing" => entry'.shutdown = "failed"
      BY <1>1, <1>8 DEF BackgroundTasksSettle, TypeOK, Draining, Settled
    <2> QED
      BY <2>1, VisitQuiet DEF Draining, Settled
  <1>9. CASE EntryStarts \/ EntryStartSettles \/ EntryStops \/ EntryStopSettles
    BY <1>1, <1>2, <1>9 DEF EntryStarts, EntryStartSettles, EntryStops, EntryStopSettles, TypeOK
  <1>10. ASSUME NEW m \in Module, InstanceStep(m) PROVE VisitInv'
    <2>1. CASE BootstrapReturns(m) \/ BootstrapFails(m)
      BY <2>1, VisitBoot
    <2>2. CASE PerformBootstrap(m)
      <3>1. /\ UNCHANGED <<destroy, graphVars, stack, entry>>
            /\ \A x \in Module \ {m} : boot'[x] = boot[x]
        BY <1>1, <2>2 DEF PerformBootstrap, TypeOK
      <3>2. \A x \in Module : Visited(x) /\ boot[x] = "none" => boot'[x] = "none"
        BY <2>2, <3>1, NotVisited
      <3> QED
        BY <3>1, <3>2, VisitQuiet
    <2>3. CASE PerformDestroy(m)
      <3>1. \A x \in Module : \/ destroy'[x] = destroy[x]
                              \/ destroy[x] \in {"waiting", "hooks"} /\ destroy'[x] # "none"
        BY <1>1, <2>3 DEF PerformDestroy, TypeOK
      <3> QED
        BY <1>2, <2>3, <3>1 DEF PerformDestroy
    <2>4. CASE \/ StartHooksBegin(m) \/ StartRejects(m)
               \/ StopHooksBegin(m) \/ StopDependencies(m) \/ StopSettles(m)
      BY <1>2, <2>4 DEF StartHooksBegin, StartRejects, StopHooksBegin, StopDependencies, StopSettles
    <2> QED
      BY <1>10, <2>1, <2>2, <2>3, <2>4 DEF InstanceStep
  <1>11. ASSUME NEW m \in Module, HookStep(m) PROVE VisitInv'
    <2>1. CASE CreateHooksSettle(m)
      <3>1. /\ UNCHANGED <<destroy, graphVars, stack, entry>>
            /\ \A x \in Module : boot[x] = "none" => boot'[x] = "none"
        BY <1>1, <2>1 DEF CreateHooksSettle, TypeOK
      <3> QED
        BY <3>1, VisitQuiet
    <2>2. CASE DestroyHooksSettle(m)
      <3>1. \A x \in Module : \/ destroy'[x] = destroy[x]
                              \/ destroy[x] \in {"waiting", "hooks"} /\ destroy'[x] # "none"
        BY <1>1, <2>2 DEF DestroyHooksSettle, TypeOK
      <3> QED
        BY <1>2, <2>2, <3>1 DEF DestroyHooksSettle
    <2>3. CASE StartHookSettles(m) \/ StopHookSettles(m)
      BY <1>2, <2>3 DEF StartHookSettles, StopHookSettles
    <2> QED
      BY <1>11, <2>1, <2>2, <2>3 DEF HookStep
  <1> QED
    BY <1>3, <1>4, <1>5, <1>6, <1>7, <1>8, <1>9, <1>10, <1>11 DEF Next, EntryStep

(* When both walks are over and no destroy() has rejected, everything has  *)
(* been visited: of the modules that have not, the one decorated last is   *)
(* in the list of a module that has not been visited either.               *)
LEMMA AllVisited ==
  ASSUME IInv, NoDestroyFailed, \A w \in Walk : stack[w] = <<>>, Visited(Root)
  PROVE  \A m \in Module : Visited(m)
  <1> DEFINE U == {m \in Module : ~Visited(m)}
  <1>1. TypeOK /\ VisitInv /\ Root \notin U
    BY DEF IInv
  <1>2. \A m \in Module : ~Walking(m)
    BY DEF Walking
  <1>3. \A m \in Module \ U : deps[m] = <<>>
    BY <1>1, <1>2 DEF VisitInv
  <1>4. SUFFICES ASSUME U # {} PROVE FALSE
    OBVIOUS
  <1>5. PICK d \in U : \A m \in U : d \notin RequiredBy(m)
    BY <1>4, DecorationAssumption
  <1>6. d \in Module /\ refs[d] > 0
    BY <1>1, <1>5 DEF Visited, TypeOK
  <1>7. References(d) # {}
    <2>1. Cardinality(References(d)) > 0
      <3>1. Cardinality(References(d)) \in Nat /\ refs[d] \in Int
        BY <1>1, <1>6, ReferencesFinite, FS_CardinalityType DEF TypeOK
      <3>2. refs[d] <= Cardinality(References(d))
        BY <1>1, <1>6 DEF VisitInv
      <3> QED
        BY <1>6, <3>1, <3>2
    <2> QED
      BY <2>1, FS_EmptySet
  <1>8. PICK m \in Module : \E i \in 1 .. Len(deps[m]) : deps[m][i] = d
    BY <1>6, <1>7, ReferenceDef
  <1>9. m \in U
    <2>1. deps[m] # <<>>
      BY <1>8
    <2> QED
      BY <1>3, <2>1
  <1>10. d \in RequiredBy(m)
    <2>1. PICK i \in 1 .. Len(deps[m]) : deps[m][i] = d
      BY <1>8
    <2>2. i \in 1 .. Len(Requires[m]) /\ deps[m][i] = Requires[m][i]
      BY <2>1, Remaining
    <2> QED
      BY <1>6, <2>1, <2>2 DEF RequiredBy
  <1> QED
    BY <1>5, <1>9, <1>10

(* No destroy hook runs beside a stop hook, unless a stop hook rejected:   *)
(* EntryModule.shutdown waits for stop(), and performStop for the stop of  *)
(* all dependencies (entry-module.ts, shutdown; module-instance.ts,        *)
(* performStop).                                                           *)
LEMMA StoppedThenDestroyed == IInv => DestroyAfterStop
  <1> SUFFICES ASSUME IInv, \A m \in Module : stop[m] # "failed",
                      NEW x \in Module, destroy[x] = "hooks", NEW m \in Module
               PROVE  stopRunning[m] = 0
    BY DEF DestroyAfterStop
  <1>1. stopRunning[m] \in Nat /\ Root \in Module
    BY ModuleAssumption DEF IInv, TypeOK
  <1>2. SUFFICES ASSUME stopRunning[m] > 0 PROVE FALSE
    BY <1>1
  <1>3. stop[m] = "hooks" /\ start[m] = "ok"
    BY <1>2 DEF IInv, StopInv
  <1>4. entry.stop \notin Settled
    BY <1>1, <1>3, StillStopping
  <1>5. NoCreationFailed
    BY <1>3 DEF IInv, EntryInv, BootInv, NoCreationFailed
  <1> QED
    BY <1>4, <1>5 DEF IInv, ReleaseInv, ReleaseOrder

(* A shutdown() that resolves leaves nothing behind.                       *)
LEMMA NothingLeft == IInv => NothingLeftBehind
  <1> SUFFICES ASSUME IInv, entry.shutdown = "ok" PROVE NothingLeftBehind
    BY DEF NothingLeftBehind
  <1>1. TypeOK /\ VisitInv /\ FrameOrder /\ EntryInv /\ StopInv /\ BootInv
    BY DEF IInv, VisitInv
  <1>2. entry.stop = "ok"
    BY <1>1 DEF StopInv
  <1>3. \A w \in Walk : stack[w] = <<>>
    BY <1>1, <1>2, BootOver DEF FrameOrder, Walk, Settled
  <1>4. \A w \in Walk, m \in Module : ~Awaits(w, m)
    BY <1>3 DEF Awaits, At
  <1>5. ASSUME NoCreationFailed PROVE NoDestroyFailed
    BY <1>1, <1>4, <1>5 DEF VisitInv, BootInv, NoDestroyFailed
  <1>6. ASSUME NoDestroyFailed, NEW m \in Module, boot[m] = "ok" PROVE destroy[m] = "ok"
    <2>1. Visited(Root)
      BY DEF Visited, Settled
    <2>2. Visited(m)
      BY <1>3, <1>6, <2>1, AllVisited
    <2>3. destroy[m] # "none" /\ destroy[m] \notin {"waiting", "hooks"}
      BY <1>1, <1>4, <1>6, <2>2 DEF VisitInv
    <2> QED
      BY <1>1, <1>6, <2>3 DEF NoDestroyFailed, TypeOK, Settled
  <1>7. ASSUME start[Root] = "ok" PROVE \A m \in Module : stop[m] = "ok"
    <2>1. entry.start # "none"
      BY <1>1, <1>7, ModuleAssumption DEF EntryInv
    <2>2. stop[Root] = "ok"
      BY <1>1, <1>2, <2>1 DEF StopInv, Settled
    <2> QED
      BY <1>7, <2>2, AllStopped
  <1> QED
    BY <1>5, <1>6, <1>7 DEF NothingLeftBehind

-----------------------------------------------------------------------------
(* The theorems.  shutdown() during a start-up by start() is allowed, and  *)
(* shutdown() while bootstrap() runs (EntryModule.run) is not: with it the *)
(* order of destruction really is lost.                                    *)

(* Every step of the lifecycle keeps the invariant.                        *)
LEMMA InvNext == "run" \notin Impatient => (IInv /\ [Next]_vars => IInv')
  BY TypeNext, BootNext, EntryNext, StartNext, ConsumedNext, ReleaseNext, DestroyNext,
     StopNext, VisitNext DEF IInv

(* The inductive invariant holds.                                          *)
THEOREM Invariance == "run" \notin Impatient => (Spec => []IInv)
  <1> SUFFICES ASSUME "run" \notin Impatient PROVE Spec => []IInv
    OBVIOUS
  <1>1. IInv /\ [Next]_vars => IInv'
    BY InvNext
  <1> QED
    BY <1>1, InvInit, PTL DEF Spec

(* No module starts before every module of the graph has been created      *)
(* (entry-module.ts, start and #bootstrapModule).                          *)
THEOREM CreationThenStart == "run" \notin Impatient => (Spec => []CreatedBeforeStarted)
  <1> SUFFICES ASSUME "run" \notin Impatient PROVE Spec => []CreatedBeforeStarted
    OBVIOUS
  <1>1. IInv => CreatedBeforeStarted
    BY DEF IInv, BootInv, EntryInv, CreatedBeforeStarted
  <1> QED
    BY <1>1, Invariance, PTL

(* The start hooks of a module run over started dependencies only          *)
(* (module-instance.ts, performStart).                                     *)
THEOREM StartOrder == "run" \notin Impatient => (Spec => []DependenciesStartFirst)
  <1> SUFFICES ASSUME "run" \notin Impatient PROVE Spec => []DependenciesStartFirst
    OBVIOUS
  <1>1. IInv => DependenciesStartFirst
    BY DEF IInv, StartInv, DependenciesStartFirst
  <1> QED
    BY <1>1, Invariance, PTL

(* The reference counts destroy a module after all that require it         *)
(* (entry-module.ts, #shutdownModule), unless a creation failed.           *)
THEOREM DestroyOrder == "run" \notin Impatient => (Spec => []DependentsDestroyedFirst)
  <1> SUFFICES ASSUME "run" \notin Impatient PROVE Spec => []DependentsDestroyedFirst
    OBVIOUS
  <1>1. IInv => DependentsDestroyedFirst
    BY DEF IInv, ReleaseInv, ReleaseOrder, DependentsDestroyedFirst
  <1> QED
    BY <1>1, Invariance, PTL

(* A shutdown() that overtakes a start waits for it: no destroy hook of a  *)
(* module, or of what it requires, runs beside its only start hook         *)
(* (module-instance.ts, performDestroy).                                   *)
THEOREM DestroyWaitsForStart == "run" \notin Impatient => (Spec => []NoDestroyDuringStart)
  <1> SUFFICES ASSUME "run" \notin Impatient PROVE Spec => []NoDestroyDuringStart
    OBVIOUS
  <1>1. ASSUME IInv PROVE NoDestroyDuringStart
    <2>1. SUFFICES ASSUME NoCreationFailed, NEW m \in Module, startRunning[m] > 0, StartHooks[m] = 1,
                          NEW d \in RequiredBy(m) \cup {m}
                   PROVE  destroy[d] \in {"none", "waiting"}
      BY DEF NoDestroyDuringStart
    <2>2. TypeOK /\ startRunning[m] \in Nat /\ d \in Module
      BY <1>1 DEF IInv, TypeOK, RequiredBy
    <2>3. start[m] = "hooks"
      BY <1>1, <2>1, <2>2 DEF IInv, StartInv
    <2>4. destroy[m] \in {"none", "waiting"}
      BY <1>1, <2>2, <2>3 DEF IInv, DestroyInv, TypeOK, Settled
    <2>5. CASE d # m
      BY <1>1, <2>1, <2>2, <2>4, <2>5 DEF IInv, ReleaseInv, ReleaseOrder
    <2> QED
      BY <2>4, <2>5
  <1> QED
    BY <1>1, Invariance, PTL

(* No destroy hook of any module runs beside a stop hook of any, unless a  *)
(* stop hook rejected: shutdown() waits for stop(), and the stop of a      *)
(* module for that of its dependencies (entry-module.ts, shutdown;         *)
(* module-instance.ts, performStop).                                       *)
THEOREM StopThenDestroy == "run" \notin Impatient => (Spec => []DestroyAfterStop)
  <1> SUFFICES ASSUME "run" \notin Impatient PROVE Spec => []DestroyAfterStop
    OBVIOUS
  <1> QED
    BY StoppedThenDestroyed, Invariance, PTL

(* A shutdown() that resolves has destroyed every module that was created, *)
(* unless a creation failed and a destroy hook rejected the clean-up, and  *)
(* after an orderly start it has stopped them all (entry-module.ts,        *)
(* shutdown and #shutdownModule).                                          *)
THEOREM CompleteShutdown == "run" \notin Impatient => (Spec => []NothingLeftBehind)
  <1> SUFFICES ASSUME "run" \notin Impatient PROVE Spec => []NothingLeftBehind
    OBVIOUS
  <1> QED
    BY NothingLeft, Invariance, PTL

-----------------------------------------------------------------------------
(* The refinement.                                                         *)

(* A step that settles no promise of a module keeps the contract's state.  *)
LEMMA ContractStutters ==
  ASSUME \A m \in Module : /\ boot'[m] = "ok" <=> boot[m] = "ok"
                           /\ boot'[m] = "failed" <=> boot[m] = "failed"
                           /\ start'[m] = "ok" <=> start[m] = "ok"
                           /\ destroy'[m] = "ok" <=> destroy[m] = "ok"
  PROVE  UNCHANGED Contract!vars
  BY DEF Contract!vars

(* The hooks that create a module settle.                                  *)
LEMMA ContractCreates ==
  ASSUME IInv, NEW m \in Module, CreateHooksSettle(m)
  PROVE  Contract!Create(m) \/ Contract!Break(m)
  <1>1. boot[m] = "running" /\ start' = start /\ destroy' = destroy
        /\ boot \in [Module -> {"none", "running"} \cup Settled]
    BY DEF IInv, TypeOK, CreateHooksSettle
  <1>2. \A d \in RequiredBy(m) : d \in Module /\ boot[d] = "ok"
    BY <1>1 DEF IInv, BootInv, RequiredBy
  <1>3. CASE boot' = [boot EXCEPT ![m] = "ok"]
    BY <1>1, <1>2, <1>3 DEF Contract!Create
  <1>4. CASE boot' = [boot EXCEPT ![m] = "failed"]
    BY <1>1, <1>2, <1>4 DEF Contract!Break
  <1> QED
    BY <1>3, <1>4 DEF CreateHooksSettle

(* The start of a module succeeds.                                         *)
LEMMA ContractStarts ==
  ASSUME IInv, NEW m \in Module, start[m] \in {"deps", "hooks"}, start' = [start EXCEPT ![m] = "ok"],
         \A d \in RequiredBy(m) : start[d] = "ok", boot' = boot, destroy' = destroy
  PROVE  Contract!Start(m)
  <1>1. TypeOK /\ \A x \in Module : boot[x] = "ok"
    BY DEF IInv, EntryInv, BootInv
  <1>2. destroy[m] # "ok"
    BY DEF IInv, DestroyInv, Settled
  <1>3. \A d \in RequiredBy(m) : d \in Module
    BY DEF RequiredBy
  <1>4. \A x \in Module : start'[x] = "ok" <=> start[x] = "ok" \/ x = m
    BY <1>1 DEF TypeOK
  <1> QED
    BY <1>1, <1>2, <1>3, <1>4 DEF Contract!Start

(* The destruction of a module succeeds.                                   *)
LEMMA ContractDestroys ==
  ASSUME IInv, NEW m \in Module, destroy[m] \in {"waiting", "hooks"},
         destroy' = [destroy EXCEPT ![m] = "ok"], boot' = boot, start' = start
  PROVE  Contract!Destroy(m)
  <1>1. TypeOK /\ ReleaseInv
    BY DEF IInv
  <1>2. \A x \in Module : destroy'[x] = "ok" <=> destroy[x] = "ok" \/ x = m
    BY <1>1 DEF TypeOK
  <1>3. CASE NoCreationFailed
    <2>1. ReleaseOrder
      BY <1>1, <1>3 DEF ReleaseInv
    <2>2. entry.stop \in Settled
      BY <2>1 DEF ReleaseOrder
    <2>3. \A x \in Module : boot[x] = "ok"
      BY <1>3, <2>2, AllCreated
    <2>4. \A x \in Module : m \in RequiredBy(x) => destroy[x] = "ok"
      BY <2>1 DEF ReleaseOrder
    <2> QED
      BY <1>2, <2>3, <2>4 DEF Contract!Destroy
  <1>4. CASE ~NoCreationFailed
    BY <1>2, <1>4 DEF Contract!Destroy, NoCreationFailed
  <1> QED
    BY <1>3, <1>4

(* Every step is a step of the contract or a stutter.                      *)
LEMMA ContractNext ==
  ASSUME IInv, [Next]_vars
  PROVE  [Contract!Next]_(Contract!vars)
  <1> USE DEF vars, moduleVars, graphVars
  <1>1. TypeOK
    BY DEF IInv
  <1>2. ASSUME boot' = boot, start' = start,
               \A m \in Module : destroy'[m] = destroy[m] \/ (destroy[m] # "ok" /\ destroy'[m] # "ok")
        PROVE  UNCHANGED Contract!vars
    BY <1>2, ContractStutters
  <1>3. CASE CallBootstrap \/ CallStart \/ CallShutdown \/ Exit \/ UNCHANGED vars
    BY <1>2, <1>3 DEF CallBootstrap, CallStart, CallShutdown, Exit
  <1>4. CASE WalkStep \/ EntryShutdown
    <2>1. boot' = boot
      BY <1>4 DEF WalkStep, EntryShutdown, BootstrapDependency, ReleaseDependency,
         BootstrapRejects, ShutdownDependency, ShutdownReturns, ShutdownRejects
    <2>2. start' = start
      BY <1>4, WalkEntry DEF EntryShutdown
    <2> QED
      BY <1>2, <1>4, <2>1, <2>2, WalkDestroy
  <1>5. CASE EntryStarts
    <2>1. \A m \in Module : start[m] = "none"
      BY <1>5 DEF EntryStarts, IInv, EntryInv
    <2>2. \A m \in Module : start'[m] # "ok" /\ start[m] # "ok"
      BY <1>5, <2>1 DEF EntryStarts
    <2> QED
      BY <1>5, <2>2, ContractStutters DEF EntryStarts
  <1>6. CASE EntryStartSettles \/ EntryStops \/ EntryStopSettles \/ BackgroundTasksSettle
    BY <1>2, <1>6 DEF EntryStartSettles, EntryStops, EntryStopSettles, BackgroundTasksSettle
  <1>7. ASSUME NEW m \in Module, InstanceStep(m) PROVE [Contract!Next]_(Contract!vars)
    <2>1. CASE PerformBootstrap(m)
      <3>1. \A x \in Module : /\ boot'[x] = "ok" <=> boot[x] = "ok"
                              /\ boot'[x] = "failed" <=> boot[x] = "failed"
        BY <1>1, <2>1 DEF PerformBootstrap, TypeOK
      <3> QED
        BY <2>1, <3>1, ContractStutters DEF PerformBootstrap
    <2>2. CASE StartHooksBegin(m)
      <3>1. CASE StartHooks[m] = 0
        <4>1. Contract!Start(m)
          BY <2>2, <3>1, ContractStarts DEF StartHooksBegin
        <4> QED
          BY <4>1 DEF Contract!Next
      <3>2. CASE StartHooks[m] # 0
        <4>1. \A x \in Module : start'[x] = "ok" <=> start[x] = "ok"
          BY <1>1, <2>2, <3>2 DEF StartHooksBegin, TypeOK
        <4> QED
          BY <2>2, <4>1, ContractStutters DEF StartHooksBegin
      <3> QED
        BY <3>1, <3>2
    <2>3. CASE StartRejects(m)
      <3>1. \A x \in Module : start'[x] = "ok" <=> start[x] = "ok"
        BY <1>1, <2>3 DEF StartRejects, TypeOK
      <3> QED
        BY <2>3, <3>1, ContractStutters DEF StartRejects
    <2>4. CASE PerformDestroy(m)
      <3>1. CASE boot[m] = "ok"
        <4>1. \A x \in Module : destroy'[x] = destroy[x] \/ (destroy[x] # "ok" /\ destroy'[x] # "ok")
          BY <1>1, <2>4, <3>1 DEF PerformDestroy, TypeOK
        <4> QED
          BY <1>2, <2>4, <4>1 DEF PerformDestroy
      <3>2. CASE boot[m] # "ok"
        <4>1. Contract!Destroy(m)
          BY <2>4, <3>2, ContractDestroys DEF PerformDestroy
        <4> QED
          BY <4>1 DEF Contract!Next
      <3> QED
        BY <3>1, <3>2
    <2>5. CASE \/ BootstrapReturns(m) \/ BootstrapFails(m) \/ StopHooksBegin(m)
               \/ StopDependencies(m) \/ StopSettles(m)
      BY <1>2, <2>5 DEF BootstrapReturns, BootstrapFails, StopHooksBegin, StopDependencies,
         StopSettles
    <2> QED
      BY <1>7, <2>1, <2>2, <2>3, <2>4, <2>5 DEF InstanceStep
  <1>8. ASSUME NEW m \in Module, HookStep(m) PROVE [Contract!Next]_(Contract!vars)
    <2>1. CASE CreateHooksSettle(m)
      BY <2>1, ContractCreates DEF Contract!Next
    <2>2. CASE StartHookSettles(m)
      <3>1. start[m] \in {"hooks", "failed"} /\ boot' = boot /\ destroy' = destroy
        BY <1>1, <2>2 DEF StartHookSettles, IInv, StartInv
      <3>2. CASE start[m] = "hooks" /\ start' = [start EXCEPT ![m] = "ok"]
        <4>1. Contract!Start(m)
          BY <3>1, <3>2, ContractStarts DEF IInv, StartInv
        <4> QED
          BY <4>1 DEF Contract!Next
      <3>3. CASE \A x \in Module : start'[x] = "ok" <=> start[x] = "ok"
        BY <3>1, <3>3, ContractStutters
      <3> QED
        BY <1>1, <2>2, <3>1, <3>2, <3>3 DEF StartHookSettles, TypeOK
    <2>3. CASE StopHookSettles(m)
      BY <1>2, <2>3 DEF StopHookSettles
    <2>4. CASE DestroyHooksSettle(m)
      <3>1. CASE destroy' = [destroy EXCEPT ![m] = "ok"]
        <4>1. Contract!Destroy(m)
          BY <2>4, <3>1, ContractDestroys DEF DestroyHooksSettle
        <4> QED
          BY <4>1 DEF Contract!Next
      <3>2. CASE destroy' = [destroy EXCEPT ![m] = "failed"]
        <4>1. \A x \in Module : destroy'[x] = destroy[x] \/ (destroy[x] # "ok" /\ destroy'[x] # "ok")
          BY <1>1, <2>4, <3>2 DEF DestroyHooksSettle, TypeOK
        <4> QED
          BY <1>2, <2>4, <4>1 DEF DestroyHooksSettle
      <3> QED
        BY <2>4, <3>1, <3>2 DEF DestroyHooksSettle
    <2> QED
      BY <1>8, <2>1, <2>2, <2>3, <2>4 DEF HookStep
  <1> QED
    BY <1>3, <1>4, <1>5, <1>6, <1>7, <1>8 DEF Next, EntryStep

(* The memoised promises and the recursive walks of EntryModule implement  *)
(* the order of creation, start and destruction that LifecycleContract     *)
(* states for the graph.                                                   *)
THEOREM Refinement == "run" \notin Impatient => (Spec => KeepsContract)
  <1> SUFFICES ASSUME "run" \notin Impatient PROVE Spec => KeepsContract
    OBVIOUS
  <1>1. Init => Contract!Init
    BY DEF Init, Contract!Init
  <1>2. IInv /\ [Next]_vars => [Contract!Next]_(Contract!vars)
    BY ContractNext
  <1> QED
    BY <1>1, <1>2, Invariance, PTL DEF Spec, KeepsContract, Contract!Spec

===============================================================================
