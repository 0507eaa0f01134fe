--------------------------- MODULE ModuleLifecycle ---------------------------
(***************************************************************************)
(* The life of an application's modules: packages/core/src/entry-module.ts *)
(* (EntryModule, which walks the graph of modules) and                     *)
(* packages/core/src/module-instance.ts (ModuleInstance, one per module).  *)
(*                                                                         *)
(* A module is created (bootstrap), started, stopped and destroyed; each   *)
(* of the four is one memoised promise.  Creation and destruction are      *)
(* recursive walks of the graph that await one module at a time; start and *)
(* stop spread through the graph with Promise.all, so the hooks of many    *)
(* modules run at the same time and a rejected Promise.all does not wait   *)
(* for the promises that are still pending.                                *)
(*                                                                         *)
(* An action is what runs between two awaits: the call of an entry point,  *)
(* the continuation of a promise, or a user hook that settles.             *)
(***************************************************************************)
EXTENDS Integers, Sequences, FiniteSets, SequencesExt

CONSTANTS
  Module,         \* the module classes of the application
  Root,           \* the entry module
  Requires,       \* Requires[m]: the "requires" list of m, in order
  StartHooks,     \* StartHooks[m]: how many @OnModuleStart methods m has
  StopHooks,      \* StopHooks[m]: how many @OnModuleStop methods m has
  MayFail,        \* the pairs <<m, hook kind>> whose hooks may reject
  Impatient       \* of "run" (bootstrap) and "start", those under way in which
                  \* shutdown() may be called

RequiredBy(m) == {d \in Module : \E i \in 1 .. Len(Requires[m]) : Requires[m][i] = d}

HookKind == {"create", "start", "stop", "destroy"}

ASSUME ModuleAssumption ==
  /\ IsFiniteSet(Module) /\ Root \in Module
  /\ Requires \in [Module -> Seq(Module)]
  /\ StartHooks \in [Module -> Nat]
  /\ StopHooks \in [Module -> Nat]
  /\ MayFail \subseteq Module \X HookKind
  /\ Impatient \subseteq {"run", "start"}

(* Instances exist only for the classes the constructor reaches from the   *)
(* entry module, and no module requires the entry module.                  *)
ASSUME GraphAssumption ==
  /\ \A m \in Module : Root \notin RequiredBy(m)
  /\ \A S \in SUBSET Module :
        (Root \in S /\ \A m \in S : RequiredBy(m) \subseteq S) => S = Module

(* module.ts, setModuleMetadata: what a class requires has been decorated  *)
(* with @Module before the class is, so that of any modules the one that   *)
(* was decorated last is required by none of them.                         *)
ASSUME DecorationAssumption ==
  \A S \in SUBSET Module : S # {} => \E m \in S : \A d \in S : m \notin RequiredBy(d)

VARIABLES
  boot,          \* boot[m]: #bootstrapPromise ("ok" is also #isBootstrapped)
  start,         \* start[m]: #startPromise ("ok" is also #isStarted)
  stop,          \* stop[m]: #stopPromise
  destroy,       \* destroy[m]: #destroyPromise
  startRunning,  \* startRunning[m]: @OnModuleStart methods still running
  stopRunning,   \* stopRunning[m]: @OnModuleStop methods still running
  stopAwaits,    \* stopAwaits[m]: the dependencies whose stop() m waits for
  refs,          \* refs[m]: referencedCounter
  deps,          \* deps[m]: dependencies (consumed from its end by the walk)
  stack,         \* stack[w]: the frames of the recursive walk w
  entry          \* the four promises of EntryModule

moduleVars == <<boot, start, stop, destroy, startRunning, stopRunning, stopAwaits>>
graphVars  == <<refs, deps>>
vars       == <<moduleVars, graphVars, stack, entry>>

Walk    == {"bootstrap", "shutdown"}
Settled == {"ok", "failed"}

(* shutdown() waits for the background tasks, with its outcome so far.     *)
Draining == {"draining", "failing"}

Frame(fn, m) == [fn |-> fn, of |-> m, next |-> 1]
Frames == [fn : {"bootstrap", "cleanup", "shutdown"}, of : Module, next : Nat \ {0}]

(* The loop of the last frame goes on to the next dependency.              *)
Advanced(fs) == LET f == Last(fs) IN Append(Front(fs), [f EXCEPT !.next = f.next + 1])

(* The walk w is executing a frame of the function fn.                     *)
At(w, fn) == stack[w] # <<>> /\ Last(stack[w]).fn = fn

TypeOK ==
  /\ boot \in [Module -> {"none", "running"} \cup Settled]
  /\ start \in [Module -> {"none", "deps", "hooks"} \cup Settled]
  /\ stop \in [Module -> {"none", "waiting", "hooks", "deps"} \cup Settled]
  /\ destroy \in [Module -> {"none", "waiting", "hooks"} \cup Settled]
  /\ startRunning \in [Module -> Nat]
  /\ stopRunning \in [Module -> Nat]
  /\ stopAwaits \in [Module -> SUBSET Module]
  /\ refs \in [Module -> Int]
  /\ deps \in [Module -> Seq(Module)]
  /\ stack \in [Walk -> Seq(Frames)]
  /\ entry \in [bootstrap : {"none", "running"} \cup Settled,
                start     : {"none", "waiting", "starting"} \cup Settled,
                stop      : {"none", "waiting", "stopping"} \cup Settled,
                shutdown  : {"none", "stopping", "walking"} \cup Draining \cup Settled]

(* The places of the remaining dependency lists that name d.               *)
References(d) ==
  UNION {{m} \X {i \in 1 .. Len(deps[m]) : deps[m][i] = d} : m \in Module}

(* EntryModule's constructor: the instances exist, nothing has run.        *)
Init ==
  /\ boot = [m \in Module |-> "none"]
  /\ start = [m \in Module |-> "none"]
  /\ stop = [m \in Module |-> "none"]
  /\ destroy = [m \in Module |-> "none"]
  /\ startRunning = [m \in Module |-> 0]
  /\ stopRunning = [m \in Module |-> 0]
  /\ stopAwaits = [m \in Module |-> {}]
  /\ deps = Requires
  /\ refs = [m \in Module |-> Cardinality(References(m))]
  /\ stack = [w \in Walk |-> <<>>]
  /\ entry = [bootstrap |-> "none", start |-> "none", stop |-> "none", shutdown |-> "none"]

-----------------------------------------------------------------------------
(* The memoised calls of ModuleInstance.                                   *)

(* Mutant: destroy() of such a module waits for its bootstrap.             *)
DestroyCalledAnyway(m) ==
  destroy' = IF destroy[m] # "none" THEN destroy ELSE [destroy EXCEPT ![m] = "waiting"]

(* destroy() of a module whose bootstrap was never called returns at once. *)
DestroyCalled(m) ==
  destroy' = IF boot[m] = "none" \/ destroy[m] # "none"
             THEN destroy
             ELSE [destroy EXCEPT ![m] = "waiting"]

(* stop() of the modules ms: it resolves at once where start() was never   *)
(* called.                                                                 *)
StopCalled(ms) ==
  [m \in Module |-> IF m \in ms /\ stop[m] = "none"
                    THEN IF start[m] = "none" THEN "ok" ELSE "waiting"
                    ELSE stop[m]]

(* Mutants: the count is ignored, or compared before it is decremented.    *)
ShutdownModuleAtOnce(w, d, fs) ==
  /\ refs' = [refs EXCEPT ![d] = @ - 1]
  /\ stack' = [stack EXCEPT ![w] = Append(fs, Frame("shutdown", d))]
  /\ DestroyCalled(d)

ShutdownModuleLate(w, d, fs) ==
  /\ refs' = [refs EXCEPT ![d] = @ - 1]
  /\ IF refs[d] > 0
     THEN /\ stack' = [stack EXCEPT ![w] = fs]
          /\ UNCHANGED destroy
     ELSE /\ stack' = [stack EXCEPT ![w] = Append(fs, Frame("shutdown", d))]
          /\ DestroyCalled(d)

(* The walk w calls #shutdownModule(d) from its frames fs: the last        *)
(* reference destroys d and then its dependencies.                         *)
ShutdownModule(w, d, fs) ==
  /\ refs' = [refs EXCEPT ![d] = @ - 1]
  /\ IF refs[d] > 1
     THEN /\ stack' = [stack EXCEPT ![w] = fs]
          /\ UNCHANGED destroy
     ELSE /\ stack' = [stack EXCEPT ![w] = Append(fs, Frame("shutdown", d))]
          /\ DestroyCalled(d)

-----------------------------------------------------------------------------
(* What the application calls.                                             *)

CallBootstrap ==
  /\ entry.bootstrap = "none" /\ entry.shutdown = "none"
  /\ entry' = [entry EXCEPT !.bootstrap = "running"]
  /\ stack' = [stack EXCEPT !["bootstrap"] = <<Frame("bootstrap", Root)>>]
  /\ UNCHANGED <<moduleVars, graphVars>>

(* start() is bootstrap() and then the start of the root module.           *)
CallStart ==
  /\ entry.start = "none" /\ entry.shutdown = "none"
  /\ IF entry.bootstrap = "none"
     THEN /\ entry' = [entry EXCEPT !.start = "waiting", !.bootstrap = "running"]
          /\ stack' = [stack EXCEPT !["bootstrap"] = <<Frame("bootstrap", Root)>>]
     ELSE /\ entry' = [entry EXCEPT !.start = "waiting"]
          /\ UNCHANGED stack
  /\ UNCHANGED <<moduleVars, graphVars>>

(* EntryModule.run and .start await the start-up before they call          *)
(* shutdown(); ApplicationRunner does not wait when a signal arrives.      *)
CallShutdown ==
  /\ entry.shutdown = "none"
  /\ IF entry.start = "none"
     THEN entry.bootstrap \in Settled \/ "run" \in Impatient
     ELSE entry.start \in Settled \/ "start" \in Impatient
  /\ entry' = [entry EXCEPT !.shutdown = "stopping",
                            !.stop = IF entry.start = "none" THEN "ok" ELSE "waiting"]
  /\ UNCHANGED <<moduleVars, graphVars, stack>>

-----------------------------------------------------------------------------
(* #bootstrapModule: the recursive walk that creates modules, dependencies *)
(* first.                                                                  *)

BootstrapDependency ==
  /\ At("bootstrap", "bootstrap")
  /\ LET f == Last(stack["bootstrap"])
     IN /\ f.next <= Len(deps[f.of])
        /\ stack' = [stack EXCEPT !["bootstrap"] =
                       Append(@, Frame("bootstrap", deps[f.of][f.next]))]
  /\ UNCHANGED <<moduleVars, graphVars, entry>>

(* Mutant: the last dependency is left out.                                *)
BootstrappingEarly(m) ==
  /\ At("bootstrap", "bootstrap")
  /\ Last(stack["bootstrap"]).of = m
  /\ Last(stack["bootstrap"]).next >= Len(deps[m])

(* The module whose bootstrap() the walk awaits, all of whose dependencies *)
(* have been walked.                                                       *)
Bootstrapping(m) ==
  /\ At("bootstrap", "bootstrap")
  /\ Last(stack["bootstrap"]).of = m
  /\ Last(stack["bootstrap"]).next > Len(deps[m])

PerformBootstrap(m) ==
  /\ Bootstrapping(m) /\ boot[m] = "none"
  /\ boot' = [boot EXCEPT ![m] = "running"]
  /\ UNCHANGED <<start, stop, destroy, startRunning, stopRunning, stopAwaits,
                 graphVars, stack, entry>>

(* Binding, the constructor or an @OnModuleCreate method may throw.        *)
CreateHooksSettle(m) ==
  /\ boot[m] = "running"
  /\ \/ boot' = [boot EXCEPT ![m] = "ok"]
     \/ /\ <<m, "create">> \in MayFail
        /\ boot' = [boot EXCEPT ![m] = "failed"]
  /\ UNCHANGED <<start, stop, destroy, startRunning, stopRunning, stopAwaits,
                 graphVars, stack, entry>>

(* The recursive call returns to the caller's loop, or the walk is over.   *)
BootstrapReturns(m) ==
  /\ Bootstrapping(m) /\ boot[m] = "ok"
  /\ LET fs == Front(stack["bootstrap"])
     IN IF fs = <<>>
        THEN /\ stack' = [stack EXCEPT !["bootstrap"] = <<>>]
             /\ entry' = [entry EXCEPT !.bootstrap = "ok"]
        ELSE /\ stack' = [stack EXCEPT !["bootstrap"] = Advanced(fs)]
             /\ UNCHANGED entry
  /\ UNCHANGED <<moduleVars, graphVars>>

(* The catch block releases the dependencies of the module that failed.    *)
BootstrapFails(m) ==
  /\ Bootstrapping(m) /\ boot[m] = "failed"
  /\ stack' = [stack EXCEPT !["bootstrap"] = Append(Front(@), Frame("cleanup", m))]
  /\ UNCHANGED <<moduleVars, graphVars, entry>>

ReleaseDependency ==
  /\ At("bootstrap", "cleanup")
  /\ LET fs == stack["bootstrap"]
         f  == Last(fs)
     IN /\ f.next <= Len(deps[f.of])
        /\ ShutdownModule("bootstrap", deps[f.of][f.next], Advanced(fs))
  /\ UNCHANGED <<boot, start, stop, startRunning, stopRunning, stopAwaits, deps, entry>>

(* ... and rethrows: no caller of #bootstrapModule catches the rejection.  *)
BootstrapRejects ==
  /\ At("bootstrap", "cleanup")
  /\ Last(stack["bootstrap"]).next > Len(deps[Last(stack["bootstrap"]).of])
  /\ stack' = [stack EXCEPT !["bootstrap"] = <<>>]
  /\ entry' = [entry EXCEPT !.bootstrap = "failed"]
  /\ UNCHANGED <<moduleVars, graphVars>>

-----------------------------------------------------------------------------
(* EntryModule.start after bootstrap(), and ModuleInstance.start.          *)

(* Mutant: start() does not await bootstrap().                             *)
EntryStartsEarly ==
  /\ entry.start = "waiting"
  /\ entry' = [entry EXCEPT !.start = "starting"]
  /\ start' = [m \in Module |-> "deps"]
  /\ UNCHANGED <<boot, stop, destroy, startRunning, stopRunning, stopAwaits, graphVars, stack>>

(* validate() may throw.  root.start() runs synchronously through the      *)
(* graph: it sets the promise of every module before any hook runs.        *)
EntryStarts ==
  /\ entry.start = "waiting" /\ entry.bootstrap = "ok"
  /\ \/ /\ entry' = [entry EXCEPT !.start = "failed"]
        /\ UNCHANGED start
     \/ /\ entry' = [entry EXCEPT !.start = "starting"]
        /\ start' = [m \in Module |-> "deps"]
  /\ UNCHANGED <<boot, stop, destroy, startRunning, stopRunning, stopAwaits, graphVars, stack>>

EntryStartSettles ==
  /\ \/ /\ entry.start = "waiting" /\ entry.bootstrap = "failed"
        /\ entry' = [entry EXCEPT !.start = "failed"]
     \/ /\ entry.start = "starting" /\ start[Root] \in Settled
        /\ entry' = [entry EXCEPT !.start = start[Root]]
  /\ UNCHANGED <<moduleVars, graphVars, stack>>

(* Mutant: Promise.allSettled over the dependencies.                       *)
StartHooksBeginAllSettled(m) ==
  /\ start[m] = "deps"
  /\ \A d \in RequiredBy(m) : start[d] \in Settled
  /\ start' = [start EXCEPT ![m] = IF StartHooks[m] = 0 THEN "ok" ELSE "hooks"]
  /\ startRunning' = [startRunning EXCEPT ![m] = StartHooks[m]]
  /\ UNCHANGED <<boot, stop, destroy, stopRunning, stopAwaits, graphVars, stack, entry>>

(* Promise.all over the dependencies, then every @OnModuleStart method.    *)
StartHooksBegin(m) ==
  /\ start[m] = "deps"
  /\ \A d \in RequiredBy(m) : start[d] = "ok"
  /\ start' = [start EXCEPT ![m] = IF StartHooks[m] = 0 THEN "ok" ELSE "hooks"]
  /\ startRunning' = [startRunning EXCEPT ![m] = StartHooks[m]]
  /\ UNCHANGED <<boot, stop, destroy, stopRunning, stopAwaits, graphVars, stack, entry>>

StartRejects(m) ==
  /\ start[m] = "deps"
  /\ \E d \in RequiredBy(m) : start[d] = "failed"
  /\ start' = [start EXCEPT ![m] = "failed"]
  /\ UNCHANGED <<boot, stop, destroy, startRunning, stopRunning, stopAwaits,
                 graphVars, stack, entry>>

(* The last method to return starts the module; the first to reject fails  *)
(* it while the others go on.                                              *)
StartHookSettles(m) ==
  /\ startRunning[m] > 0
  /\ startRunning' = [startRunning EXCEPT ![m] = @ - 1]
  /\ \/ start' = [start EXCEPT ![m] = IF @ = "hooks" /\ startRunning[m] = 1 THEN "ok" ELSE @]
     \/ /\ <<m, "start">> \in MayFail
        /\ start' = [start EXCEPT ![m] = "failed"]
  /\ UNCHANGED <<boot, stop, destroy, stopRunning, stopAwaits, graphVars, stack, entry>>

-----------------------------------------------------------------------------
(* EntryModule.stop and ModuleInstance.stop.                               *)

EntryStops ==
  /\ entry.stop = "waiting" /\ entry.start \in Settled
  /\ entry' = [entry EXCEPT !.stop = "stopping"]
  /\ stop' = StopCalled({Root})
  /\ UNCHANGED <<boot, start, destroy, startRunning, stopRunning, stopAwaits, graphVars, stack>>

EntryStopSettles ==
  /\ entry.stop = "stopping" /\ stop[Root] \in Settled
  /\ entry' = [entry EXCEPT !.stop = stop[Root]]
  /\ UNCHANGED <<moduleVars, graphVars, stack>>

(* performStop gives up on a module that did not start, and never asks its *)
(* dependencies.                                                           *)
StopHooksBegin(m) ==
  /\ stop[m] = "waiting" /\ start[m] \in Settled
  /\ IF start[m] = "ok"
     THEN /\ stop' = [stop EXCEPT ![m] = "hooks"]
          /\ stopRunning' = [stopRunning EXCEPT ![m] = StopHooks[m]]
     ELSE /\ stop' = [stop EXCEPT ![m] = "ok"]
          /\ UNCHANGED stopRunning
  /\ UNCHANGED <<boot, start, destroy, startRunning, stopAwaits, graphVars, stack, entry>>

StopHookSettles(m) ==
  /\ stopRunning[m] > 0
  /\ stopRunning' = [stopRunning EXCEPT ![m] = @ - 1]
  /\ \/ UNCHANGED stop
     \/ /\ <<m, "stop">> \in MayFail
        /\ stop' = [stop EXCEPT ![m] = "failed"]
  /\ UNCHANGED <<boot, start, destroy, startRunning, stopAwaits, graphVars, stack, entry>>

StopDependencies(m) ==
  /\ stop[m] = "hooks" /\ stopRunning[m] = 0
  /\ LET ds == {deps[m][i] : i \in 1 .. Len(deps[m])}
     IN /\ stopAwaits' = [stopAwaits EXCEPT ![m] = ds]
        /\ stop' = [StopCalled(ds) EXCEPT ![m] = "deps"]
  /\ UNCHANGED <<boot, start, destroy, startRunning, stopRunning, graphVars, stack, entry>>

(* Mutant: the stop() of the dependencies is called and not awaited.       *)
StopSettlesAtOnce(m) ==
  /\ stop[m] = "deps"
  /\ stop' = [stop EXCEPT ![m] = "ok"]
  /\ UNCHANGED <<boot, start, destroy, startRunning, stopRunning, stopAwaits,
                 graphVars, stack, entry>>

StopSettles(m) ==
  /\ stop[m] = "deps"
  /\ \/ /\ \A d \in stopAwaits[m] : stop[d] = "ok"
        /\ stop' = [stop EXCEPT ![m] = "ok"]
     \/ /\ \E d \in stopAwaits[m] : stop[d] = "failed"
        /\ stop' = [stop EXCEPT ![m] = "failed"]
  /\ UNCHANGED <<boot, start, destroy, startRunning, stopRunning, stopAwaits,
                 graphVars, stack, entry>>

-----------------------------------------------------------------------------
(* EntryModule.shutdown: #shutdownModule of the root once stop() settled,  *)
(* whatever its outcome.                                                   *)

(* Mutant: shutdown() does not await stop().                               *)
EntryShutdownAtOnce ==
  /\ entry.shutdown = "stopping"
  /\ entry' = [entry EXCEPT !.shutdown = "walking"]
  /\ ShutdownModule("shutdown", Root, <<>>)
  /\ UNCHANGED <<boot, start, stop, startRunning, stopRunning, stopAwaits, deps>>

EntryShutdown ==
  /\ entry.shutdown = "stopping" /\ entry.stop \in Settled
  /\ entry' = [entry EXCEPT !.shutdown = "walking"]
  /\ ShutdownModule("shutdown", Root, <<>>)
  /\ UNCHANGED <<boot, start, stop, startRunning, stopRunning, stopAwaits, deps>>

(* #shutdownModule goes on once the destroy() it awaits has resolved.      *)
Destroyed(w) == At(w, "shutdown") /\ destroy[Last(stack[w]).of] \in {"none", "ok"}

ShutdownDependency(w) ==
  /\ Destroyed(w)
  /\ LET m == Last(stack[w]).of
     IN /\ deps[m] # <<>>
        /\ deps' = [deps EXCEPT ![m] = Front(@)]
        /\ ShutdownModule(w, Last(deps[m]), stack[w])
  /\ UNCHANGED <<boot, start, stop, startRunning, stopRunning, stopAwaits, entry>>

ShutdownReturns(w) ==
  /\ Destroyed(w) /\ deps[Last(stack[w]).of] = <<>>
  /\ stack' = [stack EXCEPT ![w] = Front(@)]
  /\ entry' = IF w = "shutdown" /\ Len(stack[w]) = 1
              THEN [entry EXCEPT !.shutdown = IF entry.stop = "ok" THEN "draining" ELSE "failing"]
              ELSE entry
  /\ UNCHANGED <<moduleVars, graphVars>>

(* A rejected destroy() rejects the whole walk.                            *)
ShutdownRejects(w) ==
  /\ At(w, "shutdown") /\ destroy[Last(stack[w]).of] = "failed"
  /\ stack' = [stack EXCEPT ![w] = <<>>]
  /\ entry' = IF w = "bootstrap" THEN [entry EXCEPT !.bootstrap = "failed"]
                                 ELSE [entry EXCEPT !.shutdown = "failing"]
  /\ UNCHANGED <<moduleVars, graphVars>>

(* The background tasks are over, or the chain of them was rejected.       *)
BackgroundTasksSettle ==
  /\ entry.shutdown \in Draining
  /\ \/ entry' = [entry EXCEPT !.shutdown = IF @ = "draining" THEN "ok" ELSE "failed"]
     \/ entry' = [entry EXCEPT !.shutdown = "failed"]
  /\ UNCHANGED <<moduleVars, graphVars, stack>>

(* Mutant: performDestroy waits for the creation only.                     *)
PerformDestroyEarly(m) ==
  /\ destroy[m] = "waiting" /\ boot[m] \in Settled
  /\ destroy' = [destroy EXCEPT ![m] = IF boot[m] = "ok" THEN "hooks" ELSE "ok"]
  /\ UNCHANGED <<boot, start, stop, startRunning, stopRunning, stopAwaits,
                 graphVars, stack, entry>>

(* performDestroy waits for the start of a module that was started, and    *)
(* for its creation otherwise; a module that was not created has no hooks. *)
PerformDestroy(m) ==
  /\ destroy[m] = "waiting"
  /\ IF start[m] = "none" THEN boot[m] \in Settled ELSE start[m] \in Settled
  /\ destroy' = [destroy EXCEPT ![m] = IF boot[m] = "ok" THEN "hooks" ELSE "ok"]
  /\ UNCHANGED <<boot, start, stop, startRunning, stopRunning, stopAwaits,
                 graphVars, stack, entry>>

DestroyHooksSettle(m) ==
  /\ destroy[m] = "hooks"
  /\ \/ destroy' = [destroy EXCEPT ![m] = "ok"]
     \/ /\ <<m, "destroy">> \in MayFail
        /\ destroy' = [destroy EXCEPT ![m] = "failed"]
  /\ UNCHANGED <<boot, start, stop, startRunning, stopRunning, stopAwaits,
                 graphVars, stack, entry>>

-----------------------------------------------------------------------------
WalkStep ==
  \/ BootstrapDependency
  \/ ReleaseDependency
  \/ BootstrapRejects
  \/ \E w \in Walk : ShutdownDependency(w) \/ ShutdownReturns(w) \/ ShutdownRejects(w)

EntryStep ==
  \/ EntryStarts \/ EntryStartSettles
  \/ EntryStops \/ EntryStopSettles
  \/ EntryShutdown \/ BackgroundTasksSettle

(* The continuations of the module's own promises.                         *)
InstanceStep(m) ==
  \/ PerformBootstrap(m) \/ BootstrapReturns(m) \/ BootstrapFails(m)
  \/ StartHooksBegin(m) \/ StartRejects(m)
  \/ StopHooksBegin(m) \/ StopDependencies(m) \/ StopSettles(m)
  \/ PerformDestroy(m)

(* A method of the application settles.                                    *)
HookStep(m) ==
  \/ CreateHooksSettle(m) \/ StartHookSettles(m) \/ StopHookSettles(m) \/ DestroyHooksSettle(m)

(* Every promise has settled: the process exits.                           *)
Exit ==
  /\ entry.shutdown \in Settled
  /\ stack = [w \in Walk |-> <<>>]
  /\ \A m \in Module : /\ startRunning[m] = 0 /\ stopRunning[m] = 0
                       /\ boot[m] # "running"
  /\ UNCHANGED vars

Next ==
  \/ CallBootstrap \/ CallStart \/ CallShutdown
  \/ WalkStep
  \/ EntryStep
  \/ \E m \in Module : InstanceStep(m) \/ HookStep(m)
  \/ Exit

Spec == Init /\ [][Next]_vars

(* Promise continuations run, and the hooks of the application settle.     *)
(* Nothing obliges the application to call anything.                       *)
Fairness ==
  /\ WF_vars(BootstrapDependency \/ ReleaseDependency \/ BootstrapRejects)
  /\ \A w \in Walk : WF_vars(ShutdownDependency(w) \/ ShutdownReturns(w) \/ ShutdownRejects(w))
  /\ WF_vars(EntryStarts) /\ WF_vars(EntryStartSettles)
  /\ WF_vars(EntryStops) /\ WF_vars(EntryStopSettles)
  /\ WF_vars(EntryShutdown) /\ WF_vars(BackgroundTasksSettle)
  /\ \A m \in Module : WF_vars(InstanceStep(m)) /\ WF_vars(HookStep(m))

FairSpec == Spec /\ Fairness

-----------------------------------------------------------------------------
(* Safety                                                                  *)

NoCreationFailed == \A m \in Module : boot[m] # "failed"
NoDestroyFailed  == \A m \in Module : destroy[m] # "failed"

(* "OnModuleStart hooks are ensured to be invoked after all                *)
(* OnModuleCreated hooks are finished for all modules"                     *)
(* (website/docs/module/defining-modules.md): no start() anywhere in the   *)
(* graph before every module reachable from the root is bootstrapped.      *)
CreatedBeforeStarted ==
  (\E m \in Module : start[m] # "none") => \A m \in Module : boot[m] = "ok"

(* A module's @OnModuleStart hooks run only over dependencies that have    *)
(* started, whichever siblings failed in the meantime.                     *)
DependenciesStartFirst ==
  \A m \in Module : start[m] \in {"hooks", "ok"} => \A d \in RequiredBy(m) : start[d] = "ok"

(* The reference counts of ModuleInstance do their work: while no creation *)
(* has failed, a module is destroyed only after every module that requires *)
(* it has been destroyed.                                                  *)
DependentsDestroyedFirst ==
  NoCreationFailed =>
    \A m, d \in Module : d \in RequiredBy(m) /\ destroy[d] # "none" => destroy[m] = "ok"

(* A rejected Promise.all leaves the hooks of other modules running, and   *)
(* shutdown() may go on meanwhile: still, while the only start hook of a   *)
(* module runs, no destroy hook of it or of what it requires does.  (With  *)
(* two start hooks the first rejection settles the promise that destroy()  *)
(* waits for, and the other hook is overtaken.)                            *)
NoDestroyDuringStart ==
  NoCreationFailed =>
    \A m \in Module : startRunning[m] > 0 /\ StartHooks[m] = 1 =>
      \A d \in RequiredBy(m) \cup {m} : destroy[d] \in {"none", "waiting"}

(* Everything stops before anything is destroyed: unless a stop hook       *)
(* rejected, no destroy hook of a module runs beside a stop hook of any.   *)
DestroyAfterStop ==
  (\A m \in Module : stop[m] # "failed") /\ (\E m \in Module : destroy[m] = "hooks") =>
    \A m \in Module : stopRunning[m] = 0

(* shutdown() that resolves has destroyed every module that was created,   *)
(* also the modules a failed start-up left behind, and after an orderly    *)
(* start it has stopped them all.  One case is excepted: a creation failed *)
(* and a destroy hook rejected the clean-up behind it.  The frames of that *)
(* walk are gone, and shutdown() resolves without what hung below them.    *)
NothingLeftBehind ==
  entry.shutdown = "ok" =>
    /\ NoCreationFailed \/ NoDestroyFailed =>
         \A m \in Module : boot[m] = "ok" => destroy[m] = "ok"
    /\ start[Root] = "ok" => \A m \in Module : stop[m] = "ok"

(* Refinement: the walks and the memoised promises implement the contract. *)
Contract == INSTANCE LifecycleContract WITH
  Requires  <- [m \in Module |-> RequiredBy(m)],
  created   <- {m \in Module : boot[m] = "ok"},
  broken    <- {m \in Module : boot[m] = "failed"},
  started   <- {m \in Module : start[m] = "ok"},
  destroyed <- {m \in Module : destroy[m] = "ok"}

KeepsContract == Contract!Spec

(* Liveness: a shutdown() always settles, whatever rejected before it.     *)
ShutdownSettles == entry.shutdown # "none" ~> entry.shutdown \in Settled

-----------------------------------------------------------------------------
(* The inductive invariant behind the theorems of ModuleLifecycle_proofs.  *)

(* The frames of the creating walk are a path from the root: what precedes *)
(* the place a frame has reached is created, and the frame above is the    *)
(* call made at that place.                                                *)
BootstrapPath ==
  LET fs == stack["bootstrap"]
  IN \A k \in 1 .. Len(fs) :
       /\ fs[k].fn = "bootstrap"
       /\ k = 1 => fs[k].of = Root
       /\ \A j \in 1 .. Len(Requires[fs[k].of]) :
            j < fs[k].next => boot[Requires[fs[k].of][j]] = "ok"
       /\ k < Len(fs) => /\ fs[k].next <= Len(Requires[fs[k].of])
                         /\ fs[k + 1].of = Requires[fs[k].of][fs[k].next]

(* After a failed creation the walk does not create anything any more.     *)
BootstrapUnwinds ==
  LET fs == stack["bootstrap"]
  IN /\ \A k \in 1 .. Len(fs) :
          fs[k].fn = "shutdown" => k > 1 /\ fs[k - 1].fn \in {"cleanup", "shutdown"}
     /\ At("bootstrap", "bootstrap") =>
          \E m \in Module : Bootstrapping(m) /\ boot[m] = "failed"

BootInv ==
  /\ stack["bootstrap"] # <<>> => entry.bootstrap = "running"
  /\ \A m \in Module : boot[m] = "running" => Bootstrapping(m)
  /\ \A m \in Module : boot[m] # "none" => \A d \in RequiredBy(m) : boot[d] = "ok"
  /\ IF NoCreationFailed THEN BootstrapPath ELSE BootstrapUnwinds
  /\ entry.bootstrap = "none" => \A m \in Module : boot[m] = "none"
  /\ entry.bootstrap = "ok" => \A m \in Module : boot[m] = "ok"
  /\ entry.bootstrap = "failed" => ~NoCreationFailed

(* Each phase of EntryModule waits for the one before it.                  *)
EntryInv ==
  /\ entry.start \in {"starting"} \cup Settled => entry.bootstrap \in Settled
  /\ entry.stop = "waiting" => entry.start # "none"
  /\ entry.stop \in {"stopping"} \cup Settled =>
       entry.bootstrap \in Settled /\ entry.start \in {"none"} \cup Settled
  /\ entry.shutdown \in {"walking"} \cup Draining \cup Settled \/ stack["shutdown"] # <<>> =>
       entry.stop \in Settled
  /\ entry.shutdown = "none" => entry.stop = "none"
  /\ entry.start \in {"none", "waiting"} => \A m \in Module : start[m] = "none"
  /\ (\E m \in Module : start[m] # "none") => entry.bootstrap = "ok"

StartInv ==
  \A m \in Module :
    /\ startRunning[m] > 0 => start[m] \in {"hooks", "failed"}
    /\ startRunning[m] <= StartHooks[m]
    /\ start[m] = "failed" => startRunning[m] = 0 \/ startRunning[m] < StartHooks[m]
    /\ start[m] \in {"hooks", "ok"} => \A d \in RequiredBy(m) : start[d] = "ok"

(* The dependency lists are consumed from their ends, by the walk that     *)
(* destroys; the counters count what is left of them.                      *)
Consumed ==
  \A m \in Module :
    /\ Len(deps[m]) <= Len(Requires[m])
    /\ \A i \in 1 .. Len(deps[m]) : deps[m][i] = Requires[m][i]

ReleaseOrder ==
  /\ entry.stop \notin Settled => deps = Requires /\ \A m \in Module : destroy[m] = "none"
  /\ \A d \in Module \ {Root} : refs[d] = Cardinality(References(d))
  /\ \A k \in 1 .. Len(stack["shutdown"]) : destroy[stack["shutdown"][k].of] # "none"
  /\ \A m \in Module : Len(deps[m]) < Len(Requires[m]) => destroy[m] = "ok"
  /\ \A m, d \in Module : d \in RequiredBy(m) /\ destroy[d] # "none" => destroy[m] = "ok"

ReleaseInv == NoCreationFailed => ReleaseOrder

(* No module is destroyed while its start is pending.                      *)
DestroyInv ==
  \A m \in Module :
    destroy[m] \in {"hooks"} \cup Settled => start[m] \in {"none"} \cup Settled

(* stop() begins at the root once start() has settled, and spreads through *)
(* a graph that started; until it rejects at the root, a module that has   *)
(* stopped has waited for what it requires.                                *)
StopInv ==
  /\ entry.stop \in {"none", "waiting"} \/ entry.start = "none" =>
       \A m \in Module : stop[m] = "none"
  /\ entry.stop \in Settled /\ entry.start # "none" => stop[Root] = entry.stop
  /\ entry.shutdown \in {"draining", "ok"} => entry.stop = "ok"
  /\ \A m \in Module :
       /\ stopRunning[m] > 0 => stop[m] \in {"hooks", "failed"}
       /\ stop[m] \in {"hooks", "deps"} => start[m] = "ok"
       /\ stop[m] = "ok" => start[m] \in {"none"} \cup Settled
       /\ m # Root /\ stop[m] # "none" => start[Root] = "ok"
       /\ stop[Root] # "failed" =>
            /\ stop[m] = "deps" => stopAwaits[m] = RequiredBy(m)
            /\ stop[m] = "ok" /\ start[m] = "ok" => \A d \in RequiredBy(m) : stop[d] = "ok"

(* A walk has called #shutdownModule of m for the last reference to it.    *)
Visited(m) ==
  IF m = Root THEN entry.shutdown \in {"walking"} \cup Draining \cup Settled ELSE refs[m] <= 0

Walking(m) ==
  \E w \in Walk : \E k \in 1 .. Len(stack[w]) :
    stack[w][k].fn = "shutdown" /\ stack[w][k].of = m

(* The walk w awaits destroy() of m.                                       *)
Awaits(w, m) == At(w, "shutdown") /\ Last(stack[w]).of = m

(* The clean-up frame stands on frames that create, and nothing but frames *)
(* that destroy stand on it.                                               *)
FrameOrder ==
  /\ \A k \in 1 .. Len(stack["shutdown"]) : stack["shutdown"][k].fn = "shutdown"
  /\ \A k \in 1 .. Len(stack["bootstrap"]) :
       stack["bootstrap"][k].fn # "shutdown" =>
         \A j \in 1 .. k - 1 : stack["bootstrap"][j].fn = "bootstrap"
  /\ stack["shutdown"] # <<>> => entry.shutdown = "walking"

(* A walk that destroys leaves a module once all its dependencies have     *)
(* been called, unless a destroy() rejected; and it is at the module whose *)
(* destroy() is pending.                                                   *)
VisitInv ==
  /\ FrameOrder
  /\ \A m \in Module :
       /\ refs[m] <= Cardinality(References(m))
       /\ Visited(m) => boot[m] = "none" \/ destroy[m] # "none"
       /\ Visited(m) /\ NoDestroyFailed => Walking(m) \/ deps[m] = <<>>
       /\ destroy[m] \in {"waiting", "hooks"} => \E w \in Walk : Awaits(w, m)
       /\ destroy[m] = "failed" => \/ \E w \in Walk : Awaits(w, m)
                                  \/ entry.shutdown \in {"failing", "failed"}
                                  \/ entry.bootstrap = "failed"

IInv ==
  /\ TypeOK /\ BootInv /\ EntryInv /\ StartInv /\ Consumed /\ ReleaseInv /\ DestroyInv
  /\ StopInv /\ VisitInv
=============================================================================
