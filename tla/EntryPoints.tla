----------------------------- MODULE EntryPoints -----------------------------
(***************************************************************************)
(* The three ways to run an application, above one EntryModule:            *)
(* ApplicationRunner, and EntryModule.run() and EntryModule.start()        *)
(* (packages/core/src/entry-module.ts), whose promise tells the caller how *)
(* it ended.  Each ends with shutdown(), and shutdown() with the           *)
(* background tasks.                                                       *)
(*                                                                         *)
(* The static methods reuse startup, method and shutdown of                *)
(* ApplicationRunner, the calls into EntryModule seen from outside; the    *)
(* rest of its variables stays as it is at the beginning.                  *)
(***************************************************************************)
EXTENDS ApplicationRunner, BackgroundTasks

VARIABLES
  entry,    \* "runner", "run" or "start"
  modules,  \* how the modules were shut down: "none" (not yet), "ok" or "failed"
  error,    \* the variable error of run() and start(): "none", "requested",
            \* "method" or "shutdown"
  asked,    \* exitSubject has emitted
  result    \* the promise of run() or start()

staticVars == <<error, asked, result>>
entryVars == <<entry, modules, staticVars>>
allVars == <<vars, taskVars, entryVars>>

EntryTypeOK ==
  /\ TypeOK /\ TasksTypeOK
  /\ entry \in {"runner", "run", "start"}
  /\ modules \in {"none", "ok", "failed"}
  /\ error \in {"none", "requested", "method", "shutdown"}
  /\ asked \in BOOLEAN
  /\ result \in {"pending", "fulfilled", "rejected"}

(* run() names a method and only bootstraps, start() does neither.         *)
EntryInit ==
  /\ Init /\ TasksInit
  /\ entry \in {"runner", "run", "start"}
  /\ entry = "run" => ~startAll
  /\ entry = "start" => startAll
  /\ modules = "none" /\ error = "none" /\ asked = FALSE /\ result = "pending"

UnchangedButStatic == UNCHANGED <<startAll, hasMethod, requested, seen, cause, exit>>

Awaiting == entry # "runner" /\ result = "pending"

-----------------------------------------------------------------------------
(* The end of EntryModule.shutdown().                                      *)

(* finally(() => waitAllTaskFinished()): a rejected task takes the place   *)
(* of the modules' outcome, a fulfilled one leaves it.                     *)
Drained(outcome) ==
  LET tasks == TaskFinished[awaited]
  IN  /\ modules # "none" /\ tasks # "pending"
      /\ outcome = IF modules = "ok" /\ tasks = "fulfilled" THEN "ok" ELSE "failed"

(* stop() and #shutdownModule() have settled.                              *)
ModulesSettle ==
  /\ Alive /\ shutdown = "pending" /\ modules = "none"
  /\ modules' \in {"ok", "failed"}
  /\ WaitAllTaskFinished
  /\ UNCHANGED vars /\ UNCHANGED <<entry, staticVars>>

-----------------------------------------------------------------------------
(* EntryModule.run() and EntryModule.start().                              *)

(* bootstrap() or start() is called at once.                               *)
Called ==
  /\ Awaiting /\ startup = "scheduled"
  /\ startup' = "running"
  /\ UNCHANGED <<method, shutdown, entryVars, taskVars>> /\ UnchangedButStatic

(* ProcessManager.shutdown(e): the latest e is the one that is kept.       *)
Asked ==
  /\ Awaiting /\ startup # "scheduled"
  /\ error' \in {"none", "requested"} /\ asked' = TRUE
  /\ UNCHANGED <<vars, taskVars, entry, modules, result>>

(* Without an error so far the entry method is called.                     *)
Starts ==
  /\ Awaiting /\ startup = "running"
  /\ \/ startup' = "failed" /\ result' = "rejected" /\ UNCHANGED method
     \/ /\ startup' = "ok"
        /\ IF error = "none"
           THEN method' = (IF hasMethod THEN "running" ELSE "returned") /\ UNCHANGED result
           ELSE result' = "rejected" /\ UNCHANGED method
  /\ UNCHANGED <<shutdown, entry, modules, error, asked, taskVars>> /\ UnchangedButStatic

(* Mutant: no finally, so that an exception goes to the caller at once.    *)
MethodEndsAbruptly ==
  /\ Awaiting /\ method = "running"
  /\ \/ method' = "returned" /\ UNCHANGED <<error, result>>
     \/ method' = "threw" /\ error' = "method" /\ result' = "rejected"
  /\ UNCHANGED <<startup, shutdown, entry, modules, asked, taskVars>> /\ UnchangedButStatic

(* An exception takes the place of the error that was asked for.           *)
MethodEnds ==
  /\ Awaiting /\ method = "running"
  /\ \/ method' = "returned" /\ UNCHANGED error
     \/ method' = "threw" /\ error' = "method"
  /\ UNCHANGED <<startup, shutdown, entry, modules, asked, result, taskVars>>
  /\ UnchangedButStatic

(* finally: shutdown() is called, by start() only when the method threw or *)
(* the exit was asked for.                                                 *)
Finally ==
  /\ Awaiting /\ shutdown = "none"
  /\ method = "threw" \/ (method = "returned" /\ (entry = "run" \/ asked))
  /\ shutdown' = "pending"
  /\ UNCHANGED <<startup, method, entryVars, taskVars>> /\ UnchangedButStatic

(* run() throws the error that is left, start() never does.                *)
ResultOf(outcome) ==
  IF entry = "run" /\ (error # "none" \/ outcome = "failed") THEN "rejected" ELSE "fulfilled"

ShutDown ==
  /\ Awaiting /\ shutdown = "pending"
  /\ \E outcome \in {"ok", "failed"} :
       /\ Drained(outcome)
       /\ shutdown' = outcome
       /\ error' = IF outcome = "failed" THEN "shutdown" ELSE error
       /\ result' = ResultOf(outcome)
  /\ UNCHANGED <<startup, method, entry, modules, asked, taskVars>> /\ UnchangedButStatic

-----------------------------------------------------------------------------
(* A step of the runner, whose shutdown() settles when the tasks allow it. *)
RunnerStep ==
  /\ entry = "runner"
  /\ \/ Next /\ shutdown' \notin {"ok", "failed"}
     \/ Drained("ok") /\ ShutdownFulfils
     \/ Drained("failed") /\ ShutdownRejects
  /\ UNCHANGED <<taskVars, entryVars>>

(* The application has the queue when its hooks run.                       *)
Works ==
  /\ Alive /\ startup # "scheduled"
  /\ TaskStep
  /\ UNCHANGED <<vars, entryVars>>

EntryNext ==
  \/ RunnerStep
  \/ Called \/ Asked \/ Starts \/ MethodEnds \/ Finally \/ ShutDown
  \/ ModulesSettle
  \/ Works

EntrySpec == EntryInit /\ [][EntryNext]_allVars

(* What the runner owes (see Fairness); the application may hang.          *)
Owed(A) == entry = "runner" /\ A /\ UNCHANGED <<taskVars, entryVars>>

EntryFairSpec ==
  /\ EntrySpec
  /\ WF_allVars(Owed(Launch)) /\ WF_allVars(Owed(MainReturns)) /\ WF_allVars(Owed(TimeoutElapses))

-----------------------------------------------------------------------------
(* A process that exits normally, or a run() that fulfils, leaves no       *)
(* background task unfinished that was dispatched before the modules had   *)
(* gone, and hides no rejection of a promise among them; and functions     *)
(* never run beside a task dispatched earlier.                             *)
TasksAreDone ==
  /\ exit = NormalExit \/ (entry = "run" /\ result = "fulfilled") =>
       \A i \in 1 .. awaited : LinkOf(dispatched[i]) = "fulfilled"
  /\ \A i \in DOMAIN dispatched :
       dispatched[i].kind = "function" /\ dispatched[i].is # "due" =>
         \A j \in 1 .. i - 1 : dispatched[j].is \in Ended

(* run() fulfils only if the modules are gone without an error, the latest *)
(* shutdown(e) had none, and the method returned - or shutdown() without an*)
(* error made it forget the exception (entry-module.ts:71).  And neither   *)
(* run() nor start() settles, once the method was called, before the       *)
(* shutdown has.  (When the startup fails, or an error is asked for        *)
(* meanwhile, nobody shuts down what was created: entry-module.ts:74, :118.)*)
SettledTellsTruth ==
  /\ entry = "run" /\ result = "fulfilled" =>
       /\ modules = "ok" /\ error = "none"
       /\ method = "returned" \/ (method = "threw" /\ asked)
  /\ result # "pending" /\ method # "none" => shutdown \in {"ok", "failed"}

(* What they rest on: the runner keeps its own invariant; a static method  *)
(* never touches what belongs to the runner, calls shutdown() only behind  *)
(* the method, and keeps its exception until an error that was asked for   *)
(* takes its place.                                                        *)
EntryIInv ==
  /\ EntryTypeOK
  /\ TasksAreDone /\ SettledTellsTruth
  /\ entry = "runner" => IInv /\ result = "pending"
  /\ entry # "runner" =>
       /\ cause = "none" /\ exit = None
       /\ method # "none" => startup = "ok"
       /\ shutdown # "none" => method \in {"returned", "threw"}
       /\ method = "threw" /\ error \in {"none", "requested"} => asked
       /\ result = "fulfilled" => shutdown \in {"ok", "failed"}
==============================================================================
