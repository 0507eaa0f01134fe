-------------------------- MODULE ApplicationRunner --------------------------
(***************************************************************************)
(* packages/core/src/application-runner.ts: how a process ends.            *)
(*                                                                         *)
(* run() and runModule() race what may end the process: an uncaught error, *)
(* a signal, a startup that fails, an entry method that throws, and a      *)
(* method that returned once ProcessManager.shutdown() was called.  The    *)
(* first of them decides the exit option and shuts the modules down, until *)
(* a timeout; beside all that the second occurrence of a signal forces the *)
(* exit.  EntryModule is seen from outside: its startup and its shutdown   *)
(* settle at some time, or never (ModuleLifecycle has their inside).       *)
(***************************************************************************)
EXTENDS Naturals

CONSTANTS
  Signal,                              \* the keys of exitSignals
  Code,                                \* exit codes
  NormalExit, ErrorExit, ForcedExit,   \* the exit codes of RunnerOption
  SignalExit, SignalForcedExit,        \* those of each signal, after the merge
  MaxOccurrences,                      \* bound: occurrences of one signal
  Crash,                               \* node's own exit code for uncaught errors
  None                                 \* no exit code yet

ASSUME RunnerAssumption ==
  /\ {NormalExit, ErrorExit, ForcedExit} \subseteq Code
  /\ NormalExit \notin {ErrorExit, ForcedExit}
  /\ SignalExit \in [Signal -> Code]
  /\ SignalForcedExit \in [Signal -> Code \ {NormalExit}]
  /\ MaxOccurrences \in Nat /\ MaxOccurrences >= 2
  /\ Signal \cap {"none", "uncaught", "failed", "threw", "returned"} = {}
  /\ Crash \notin Code /\ None \notin Code \cup {Crash}

VARIABLES
  startAll,    \* runModule() (start() is called) or run() (bootstrap() is)
  hasMethod,   \* an entry method was named
  startup,     \* start() or bootstrap() of the EntryModule
  method,      \* the entry method, inside main()
  requested,   \* what #stoppedSubject has emitted
  seen,        \* how often each signal has occurred
  cause,       \* what ended the running observable first
  shutdown,    \* shutdown() of the EntryModule
  exit         \* the code the process has exited with

vars == <<startAll, hasMethod, startup, method, requested, seen, cause, shutdown, exit>>

Cause == {"uncaught", "failed", "threw", "returned"} \cup Signal

TypeOK ==
  /\ startAll \in BOOLEAN /\ hasMethod \in BOOLEAN
  /\ startup \in {"scheduled", "running", "ok", "failed"}
  /\ method \in {"none", "running", "returned", "threw"}
  /\ requested \in {"no", "normal", "error"}
  /\ seen \in [Signal -> 0 .. MaxOccurrences]
  /\ cause \in Cause \cup {"none"}
  /\ shutdown \in {"none", "waiting", "pending", "ok", "failed"}
  /\ exit \in Code \cup {Crash, None}

(* run() names a method; runModule() need not.                             *)
Init ==
  /\ startAll \in BOOLEAN /\ hasMethod \in BOOLEAN
  /\ ~startAll => hasMethod
  /\ startup = "scheduled" /\ method = "none" /\ requested = "no"
  /\ seen = [s \in Signal |-> 0]
  /\ cause = "none" /\ shutdown = "none" /\ exit = None

Alive == exit = None

(* The exit code of the option that goes with a cause.  The option that    *)
(* ProcessManager.shutdown(e) emits for an error is not among them: what   *)
(* main() resolves with is mapped to the normal one.                       *)
ExitCode(c) ==
  CASE c \in Signal      -> SignalExit[c]
    [] c = "returned"    -> NormalExit
    [] OTHER             -> ErrorExit

(* running.pipe(first()), then shutdown(): stop() waits for a start() that *)
(* was called, and for no bootstrap().                                     *)
Ends(c) ==
  /\ cause' = c
  /\ shutdown' = IF startAll /\ startup' = "running" THEN "waiting" ELSE "pending"

RunsOn == UNCHANGED <<cause, shutdown>>

-----------------------------------------------------------------------------
(* Startup and the entry method.                                           *)

(* setImmediate() calls start() or bootstrap(), although the run may have  *)
(* ended in the meantime.                                                  *)
Launch ==
  /\ Alive /\ startup = "scheduled"
  /\ startup' = "running"
  /\ RunsOn
  /\ UNCHANGED <<startAll, hasMethod, method, requested, seen, exit>>

(* concat: main() is called after the startup, if nothing ended the run.   *)
StartupCompletes ==
  /\ Alive /\ startup = "running"
  /\ startup' = "ok"
  /\ method' = IF cause # "none" THEN method
               ELSE IF hasMethod THEN "running" ELSE "returned"
  /\ shutdown' = IF shutdown = "waiting" THEN "pending" ELSE shutdown
  /\ UNCHANGED <<startAll, hasMethod, requested, seen, cause, exit>>

StartupFails ==
  /\ Alive /\ startup = "running"
  /\ startup' = "failed"
  /\ IF cause = "none"
     THEN Ends("failed")
     ELSE /\ shutdown' = IF shutdown = "waiting" THEN "pending" ELSE shutdown
          /\ UNCHANGED cause
  /\ UNCHANGED <<startAll, hasMethod, method, requested, seen, exit>>

MethodReturns ==
  /\ Alive /\ method = "running"
  /\ method' = "returned"
  /\ RunsOn
  /\ UNCHANGED <<startAll, hasMethod, startup, requested, seen, exit>>

MethodThrows ==
  /\ Alive /\ method = "running"
  /\ method' = "threw"
  /\ UNCHANGED startup
  /\ IF cause = "none" THEN Ends("threw") ELSE RunsOn
  /\ UNCHANGED <<startAll, hasMethod, requested, seen, exit>>

(* ProcessManager.shutdown(e): #stoppedSubject emits once.                 *)
RequestShutdown ==
  /\ Alive /\ startup # "scheduled" /\ requested = "no"
  /\ requested' \in {"normal", "error"}
  /\ RunsOn
  /\ UNCHANGED <<startAll, hasMethod, startup, method, seen, exit>>

(* Mutant: the subject does not emit for shutdown(e).                      *)
MainReturnsWithoutError ==
  /\ Alive /\ cause = "none"
  /\ method = "returned" /\ requested = "normal"
  /\ UNCHANGED startup /\ Ends("returned")
  /\ UNCHANGED <<startAll, hasMethod, method, requested, seen, exit>>

(* main(): the promise of the subject, made by #performRunModule before    *)
(* anything ran, is awaited after the method.                              *)
MainReturns ==
  /\ Alive /\ cause = "none"
  /\ method = "returned" /\ requested # "no"
  /\ UNCHANGED startup /\ Ends("returned")
  /\ UNCHANGED <<startAll, hasMethod, method, requested, seen, exit>>

-----------------------------------------------------------------------------
(* Signals and uncaught errors.                                            *)

(* Mutant: every signal chooses the exit option (no first()).              *)
SignalOccursAnew(s) ==
  /\ Alive /\ seen[s] < MaxOccurrences
  /\ seen' = [seen EXCEPT ![s] = @ + 1]
  /\ UNCHANGED startup /\ Ends(s)
  /\ exit' = IF seen[s] >= 1 THEN SignalForcedExit[s] ELSE exit
  /\ UNCHANGED <<startAll, hasMethod, method, requested>>

(* The first signal ends the run.  Each signal that occurs a second time   *)
(* forces the exit (skip(1)), whatever ended the run.                      *)
SignalOccurs(s) ==
  /\ Alive /\ seen[s] < MaxOccurrences
  /\ seen' = [seen EXCEPT ![s] = @ + 1]
  /\ UNCHANGED startup
  /\ IF cause = "none" THEN Ends(s) ELSE RunsOn
  /\ exit' = IF seen[s] >= 1 THEN SignalForcedExit[s] ELSE exit
  /\ UNCHANGED <<startAll, hasMethod, method, requested>>

(* Mutant: nothing listens to uncaught errors.                             *)
UncaughtErrorUnheard ==
  /\ Alive
  /\ exit' = Crash /\ RunsOn
  /\ UNCHANGED <<startAll, hasMethod, startup, method, requested, seen>>

(* 'uncaughtException' and 'unhandledRejection': listened to until the run *)
(* has ended; after that the process crashes, as node does without a       *)
(* listener.                                                               *)
UncaughtError ==
  /\ Alive
  /\ UNCHANGED startup
  /\ IF cause = "none"
     THEN Ends("uncaught") /\ UNCHANGED exit
     ELSE exit' = Crash /\ RunsOn
  /\ UNCHANGED <<startAll, hasMethod, method, requested, seen>>

-----------------------------------------------------------------------------
(* The shutdown and its timeout.                                           *)

ShutdownFulfils ==
  /\ Alive /\ shutdown = "pending"
  /\ shutdown' = "ok" /\ exit' = ExitCode(cause)
  /\ UNCHANGED <<startAll, hasMethod, startup, method, requested, seen, cause>>

(* Mutant: a shutdown that rejects exits like one that fulfils.            *)
ShutdownRejectsUnseen ==
  /\ Alive /\ shutdown = "pending"
  /\ shutdown' = "failed" /\ exit' = ExitCode(cause)
  /\ UNCHANGED <<startAll, hasMethod, startup, method, requested, seen, cause>>

ShutdownRejects ==
  /\ Alive /\ shutdown = "pending"
  /\ shutdown' = "failed" /\ exit' = ErrorExit
  /\ UNCHANGED <<startAll, hasMethod, startup, method, requested, seen, cause>>

(* Mutant: the timer starts when start() has settled.                      *)
TimeoutElapsesLate ==
  /\ Alive /\ shutdown = "pending"
  /\ exit' = ForcedExit
  /\ UNCHANGED <<startAll, hasMethod, startup, method, requested, seen, cause, shutdown>>

TimeoutElapses ==
  /\ Alive /\ shutdown \in {"waiting", "pending"}
  /\ exit' = ForcedExit
  /\ UNCHANGED <<startAll, hasMethod, startup, method, requested, seen, cause, shutdown>>

-----------------------------------------------------------------------------
Next ==
  \/ Launch \/ StartupCompletes \/ StartupFails
  \/ MethodReturns \/ MethodThrows \/ RequestShutdown \/ MainReturns
  \/ \E s \in Signal : SignalOccurs(s)
  \/ UncaughtError
  \/ ShutdownFulfils \/ ShutdownRejects \/ TimeoutElapses

Spec == Init /\ [][Next]_vars

(* The event loop turns and timers elapse.  Startup, method and shutdown   *)
(* run the application's code, which may hang.                             *)
Fairness == WF_vars(Launch) /\ WF_vars(MainReturns) /\ WF_vars(TimeoutElapses)

FairSpec == Spec /\ Fairness

-----------------------------------------------------------------------------
(* The process never exits on its own before the modules were asked to     *)
(* shut down: a repeated signal forces the exit of a shutdown only.        *)
NoExitBeforeShutdown == exit # None => shutdown # "none"

(* The normal exit code tells why the process went: the modules are shut   *)
(* down without an error, and the first reason to go was a signal, or a    *)
(* method that returned when a shutdown had been requested.  It does not   *)
(* tell whether that request was one for an error: shutdown(e) emits the   *)
(* error option (application-runner.ts:123), and what main() resolves with *)
(* is mapped to the normal one (:187).                                     *)
NormalExitIsExplained ==
  exit = NormalExit =>
    /\ shutdown = "ok"
    /\ \/ cause \in Signal
       \/ /\ cause = "returned" /\ startup = "ok" /\ method = "returned"
          /\ requested \in {"normal", "error"}

(* The first reason to go stays the reason: later signals, errors and      *)
(* results do not choose another exit option or a second shutdown.         *)
FirstCauseDecides ==
  [][cause # "none" => cause' = cause /\ shutdown' # "none"]_vars

(* A run that has ended exits, even when hooks hang: the timeout forces it.*)
EndedRunExits == cause # "none" ~> exit # None

(* A shutdown requested early, while the modules start or the method runs, *)
(* is not lost: when the method has returned the process exits.            *)
RequestIsKept == (requested # "no" /\ method = "returned") ~> exit # None

(* What the safety properties rest on: the run has ended when the shutdown *)
(* is on its way, a signal that occurred has ended it, and the method runs *)
(* after a startup that completed.                                         *)
IInv ==
  /\ TypeOK
  /\ cause = "none" <=> shutdown = "none"
  /\ exit # None => shutdown # "none"
  /\ \A s \in Signal : seen[s] > 0 => cause # "none"
  /\ method # "none" => startup = "ok"
  /\ cause = "returned" => method = "returned" /\ requested # "no"
  /\ exit = NormalExit => shutdown = "ok" /\ cause \in Signal \cup {"returned"}
==============================================================================
