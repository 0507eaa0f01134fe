--------------------------- MODULE MessageConsumer ---------------------------
(***************************************************************************)
(* packages/kafkajs-standalone: MessageConsumer with its                   *)
(* WorkerController, under the module of packages/kafkajs that starts and  *)
(* stops it.                                                               *)
(*                                                                         *)
(* Each partition has a worker that processes one batch at a time,         *)
(* message by message, or hands it to a method for whole batches.  A       *)
(* rebalance or stop() synchronizes the workers: one that was processing   *)
(* message by message then commits and ends its batch.                     *)
(*                                                                         *)
(* KafkaJS and the broker are external.  KafkaJS fetches a batch for a     *)
(* partition whose worker is free, from the first offset that is not       *)
(* resolved; commitOffsetsIfNecessary() commits or not; a batch that failed*)
(* is fetched again or crashes the consumer; stop() and a rejoin wait for  *)
(* the running batches, and a rejoin begins at the committed offsets.      *)
(***************************************************************************)
EXTENDS ModuleScanner, FiniteSets

CONSTANTS
  Partition,
  Topic,          \* Topic[x]: the topic of a partition or of a subscribed method
  Batched,        \* the methods that take whole batches
  Dynamic,        \* what the create hooks may leave in metadata.dynamicComponents
  None,           \* nothing
  Messages,       \* messages of a partition
  BatchSize,      \* messages of a batch
  MaxFailures,    \* bound: consumers, commits and starts that fail
  MaxRebalances   \* bound: rebalances of the group

ASSUME ConsumerAssumption ==
  /\ Messages \in Nat \ {0} /\ BatchSize \in Nat \ {0}
  /\ MaxFailures \in Nat /\ MaxRebalances \in Nat

VARIABLES
  options,     \* #consumeOptions: options[t] is the entry of topic t, or None
  consumer,    \* the KafkaJS consumer: "idle", "starting", "running", "stopping",
               \* "stopped", "crashed"
  starting,    \* #startedPromise; "refused": onStart() threw before start()
  stopping,    \* #stoppedPromise
  ignored,     \* synchronize() returned false to stop()
  toStop,      \* the setImmediate() of stop() is due
  watch,       \* wait(): "none", "starting", "racing", "fulfilled", "rejected"
  watched,     \* the batches that were running when the race began
  shutdown,    \* pm.shutdown(e) was called
  batchFailed, \* #lastBatchConsumed, as the race takes it, has rejected
  phase,       \* phase[p]: what the worker of p awaits, or "idle"
  at, upto,    \* the message it is at, and the last one of its batch
  sync,        \* its synchronizer: "none", "subscribed", "called", "released"
  inFlight,    \* #inFlightSynchronization: "none", "rebalance", "stop"
  resolved,    \* resolved[p]: the offsets below are resolved in KafkaJS
  committed,   \* committed[p]: those below are committed at the broker
  consumed,    \* consumed[p]: the messages a consumer callback has returned for
  rebalancing, \* the broker answers heartbeats with REBALANCE_IN_PROGRESS
  failures, rebalances

lifeVars == <<options, consumer, starting, stopping, ignored, toStop>>
watchVars == <<watch, watched, shutdown, batchFailed>>
offsetVars == <<resolved, committed, consumed>>
countVars == <<failures, rebalances>>
vars == <<lifeVars, watchVars, phase, at, upto, sync, inFlight, offsetVars, rebalancing, countVars>>

Phase == {"idle", "consuming", "committing", "heartbeat", "checking", "forcing",
          "awaiting", "finishing", "whole"}

TypeOK ==
  /\ consumer \in {"idle", "starting", "running", "stopping", "stopped", "crashed"}
  /\ starting \in {"none", "pending", "fulfilled", "rejected", "refused"}
  /\ stopping \in {"none", "pending", "fulfilled", "rejected"}
  /\ phase \in [Partition -> Phase]
  /\ sync \in [Partition -> {"none", "subscribed", "called", "released"}]
  /\ \A p \in Partition : (phase[p] \in {"idle", "whole"}) <=> (sync[p] = "none")
  /\ \A p \in Partition : phase[p] # "idle" => at[p] <= upto[p] + 1 /\ upto[p] <= Messages
  /\ inFlight \in {"none", "rebalance", "stop"}
  /\ committed \in [Partition -> 0 .. Messages] /\ resolved \in [Partition -> 0 .. Messages]
  /\ consumed \in [Partition -> SUBSET (1 .. Messages)]

Topics == {Topic[p] : p \in Partition}

Init ==
  /\ options = [t \in Topics |-> None]
  /\ consumer = "idle" /\ starting = "none" /\ stopping = "none"
  /\ ignored = FALSE /\ toStop = FALSE
  /\ watch = "none" /\ watched = {} /\ shutdown = FALSE /\ batchFailed = FALSE
  /\ phase = [p \in Partition |-> "idle"]
  /\ at = [p \in Partition |-> 0] /\ upto = [p \in Partition |-> 0]
  /\ sync = [p \in Partition |-> "none"] /\ inFlight = "none"
  /\ resolved = [p \in Partition |-> 0] /\ committed = [p \in Partition |-> 0]
  /\ consumed = [p \in Partition |-> {}]
  /\ rebalancing = FALSE /\ failures = 0 /\ rebalances = 0

Busy(p) == phase[p] # "idle"

(* #lastBatchConsumed once the batch of p rejects, as the race takes it:   *)
(* later batches extend another promise, whose rejection nobody handles.   *)
WatchedBatch(p) == batchFailed \/ watch \in {"none", "starting"} \/ p \in watched

MayFail == failures < MaxFailures

-----------------------------------------------------------------------------
(* WorkerController.                                                       *)

(* onSynchronize() is called, and its promise releases the workers that    *)
(* were called; sy is their state before.  For stop() it sets a timer.     *)
Fire(kind, sy) ==
  /\ sync' = [p \in Partition |-> IF sy[p] = "called" THEN "released" ELSE sy[p]]
  /\ inFlight' = "none"
  /\ toStop' = (toStop \/ kind = "stop")

(* synchronize(): the workers that are processing are called.  Without any *)
(* the zip of no observables completes at once.                            *)
Synchronize(kind) ==
  LET sy == [p \in Partition |-> IF sync[p] = "subscribed" THEN "called" ELSE sync[p]]
  IN  IF inFlight # "none" THEN UNCHANGED <<sync, inFlight, toStop>>
      ELSE IF \E p \in Partition : sync[p] = "subscribed"
           THEN sync' = sy /\ inFlight' = kind /\ UNCHANGED toStop
           ELSE Fire(kind, sync)

(* Mutant: nobody completes the observable of the worker.                  *)
CompleteNever(p) == UNCHANGED <<sync, inFlight, toStop>>

(* #cancellationSubscriber.complete(): the zip of the observables of all   *)
(* workers completes with the first of them.                               *)
Complete(p) ==
  IF sync[p] = "called" THEN Fire(inFlight, sync) ELSE UNCHANGED <<sync, inFlight, toStop>>

(* A worker enters the controller, and leaves it.                          *)
CreateSynchronizer(p) == sync' = [sync EXCEPT ![p] = "subscribed"]
Detach(p) == sync' = [sync EXCEPT ![p] = "none"]

-----------------------------------------------------------------------------
(* Subscriptions.                                                          *)

(* The consume callback of a method: it resolves or rejects with the       *)
(* invocation of the method behind its middlewares.                        *)
Callback(method) == [type |-> IF method \in Batched THEN "batch" ELSE "simple", method |-> method]

(* subscribe() and subscribeBatched(): one entry for a topic.              *)
Subscribe(opts, method) == [opts EXCEPT ![Topic[method]] = Callback(method)]

(* scanComponents() looks at the components of a module, then at those that*)
(* the create hooks have added to it.                                      *)
ScanComponents(dynamic) == [m \in Mod |-> Components[m] \o dynamic[m]]

(* scanPrototypeMethod() for all of them: the last method of a topic stays.*)
ScanPrototypeMethods(dynamic) ==
  FoldLeft(Subscribe, options, Found(ScanComponents(dynamic)))

-----------------------------------------------------------------------------
(* start(), stop() and wait().                                             *)

(* onStart(): the subscriptions, start(), and wait() beside it.            *)
Start ==
  /\ starting = "none"
  /\ \E dynamic \in Dynamic : options' = ScanPrototypeMethods(dynamic)
  /\ starting' = "pending" /\ consumer' = "starting" /\ watch' = "starting"
  /\ UNCHANGED <<stopping, ignored, toStop, watched, shutdown, batchFailed, phase, at, upto,
                 sync, inFlight, offsetVars, rebalancing, countVars>>

(* getSubscribeOption(): an option that cannot be resolved, or is no topic,*)
(* throws in onStart(), which nobody watches but the lifecycle.            *)
StartRefused ==
  /\ starting = "none" /\ MayFail
  /\ starting' = "refused" /\ failures' = failures + 1
  /\ UNCHANGED <<options, consumer, stopping, ignored, toStop, watchVars, phase, at, upto,
                 sync, inFlight, offsetVars, rebalancing, rebalances>>

(* performStart() has connected, subscribed and run: batches come, while   *)
(* the admin client still disconnects.                                     *)
RunBegins ==
  /\ consumer = "starting" /\ starting = "pending"
  /\ consumer' = "running"
  /\ UNCHANGED <<options, starting, stopping, ignored, toStop, watchVars, phase, at, upto, sync,
                 inFlight, offsetVars, rebalancing, countVars>>

(* performStart() returns, or one of its steps fails, the last of them     *)
(* with the consumer running; wait() begins the race, or reports it.       *)
StartSettles ==
  /\ starting = "pending"
  /\ \/ /\ consumer # "starting" /\ starting' = "fulfilled"
        /\ watched' = {p \in Partition : Busy(p)}
        /\ watch' = IF watched' = {} /\ ~batchFailed THEN "fulfilled" ELSE "racing"
        /\ UNCHANGED <<shutdown, failures>>
     \/ /\ MayFail /\ failures' = failures + 1
        /\ starting' = "rejected" /\ watch' = "rejected"
        /\ shutdown' = TRUE
        /\ UNCHANGED watched
  /\ UNCHANGED <<options, consumer, stopping, ignored, toStop, batchFailed, phase, at, upto, sync,
                 inFlight, offsetVars, rebalancing, rebalances>>

(* Mutant: wait() looks at crashes only.                                   *)
RaceRejectsCrash ==
  /\ watch = "racing" /\ consumer = "crashed"
  /\ watch' = "rejected" /\ shutdown' = TRUE
  /\ UNCHANGED <<lifeVars, watched, batchFailed, phase, at, upto, sync, inFlight, offsetVars,
                 rebalancing, countVars>>

(* The race of the batches so far with the crash is lost.                  *)
RaceRejects ==
  /\ watch = "racing" /\ (batchFailed \/ consumer = "crashed")
  /\ watch' = "rejected" /\ shutdown' = TRUE
  /\ UNCHANGED <<lifeVars, watched, batchFailed, phase, at, upto, sync, inFlight, offsetVars,
                 rebalancing, countVars>>

(* stop(), called by onStop() of a module that has started.                *)
Stop ==
  /\ starting = "fulfilled" /\ stopping = "none"
  /\ stopping' = "pending"
  /\ ignored' = (inFlight # "none")
  /\ Synchronize("stop")
  /\ UNCHANGED <<options, consumer, starting, watchVars, phase, at, upto, offsetVars, rebalancing, countVars>>

(* setImmediate(() => this.#consumer.stop())                               *)
ConsumerStops ==
  /\ toStop
  /\ toStop' = FALSE
  /\ consumer' = IF consumer = "running" THEN "stopping" ELSE consumer
  /\ UNCHANGED <<options, starting, stopping, ignored, watchVars, phase, at, upto, sync, inFlight,
                 offsetVars, rebalancing, countVars>>

(* KafkaJS has waited for the batches; disconnect() follows.  Either may   *)
(* reject.                                                                 *)
StopSettles ==
  /\ stopping = "pending" /\ ~ignored /\ ~toStop /\ inFlight # "stop"
  /\ consumer \in {"stopping", "crashed"} /\ \A p \in Partition : ~Busy(p)
  /\ \/ stopping' = "fulfilled" /\ UNCHANGED failures
     \/ stopping' = "rejected" /\ MayFail /\ failures' = failures + 1
  /\ consumer' = IF consumer = "crashed" THEN consumer ELSE "stopped"
  /\ UNCHANGED <<options, starting, ignored, toStop, watchVars, phase, at, upto, sync, inFlight,
                 offsetVars, rebalancing, rebalances>>

-----------------------------------------------------------------------------
(* eachBatch() and processBatch().                                         *)

GoTo(p, ph) == phase' = [phase EXCEPT ![p] = ph]

(* A batch of a subscribed topic comes, for whoever has the entry.         *)
Fetch(p) ==
  /\ consumer = "running" /\ ~Busy(p) /\ resolved[p] < Messages
  /\ options[Topic[p]] # None
  /\ at' = [at EXCEPT ![p] = resolved[p] + 1]
  /\ upto' = [upto EXCEPT ![p] = IF resolved[p] + BatchSize < Messages
                                 THEN resolved[p] + BatchSize ELSE Messages]
  /\ IF options[Topic[p]].type = "simple"
     THEN GoTo(p, "consuming") /\ CreateSynchronizer(p)
     ELSE GoTo(p, "whole") /\ UNCHANGED sync
  /\ UNCHANGED <<lifeVars, watchVars, inFlight, offsetVars, rebalancing, countVars>>

(* finally: detach(), and KafkaJS goes on; the race may end with it.       *)
EndBatch(p) ==
  /\ GoTo(p, "idle") /\ Detach(p)
  /\ watched' = watched \ {p}
  /\ watch' = IF watch = "racing" /\ watched' = {} /\ ~batchFailed /\ consumer # "crashed"
              THEN "fulfilled" ELSE watch
  /\ UNCHANGED <<options, consumer, starting, stopping, ignored, toStop, shutdown, at, upto,
                 inFlight, rebalancing, rebalances>>

(* The batch rejects, KafkaJS commits what is resolved, as far as it gets, *)
(* and fetches the batch again or gives the consumer up: restartOnFailure. *)
BatchFails(p) ==
  /\ MayFail /\ failures' = failures + 1
  /\ GoTo(p, "idle") /\ Detach(p)
  /\ batchFailed' = WatchedBatch(p)
  /\ consumer' \in IF consumer = "running" THEN {"running", "crashed"} ELSE {consumer}
  /\ \E c \in {committed[p], resolved[p]} : committed' = [committed EXCEPT ![p] = c]
  /\ UNCHANGED <<options, starting, stopping, ignored, toStop, watch, watched, shutdown, at, upto,
                 inFlight, resolved, consumed, rebalancing, rebalances>>

(* Mutant: the offset is resolved whether the consumer returns or throws.  *)
ResolvedFirst(p) ==
  /\ phase[p] = "consuming"
  /\ resolved' = [resolved EXCEPT ![p] = at[p]]
  /\ \/ /\ consumed' = [consumed EXCEPT ![p] = @ \cup {at[p]}]
        /\ GoTo(p, "committing")
        /\ UNCHANGED <<lifeVars, watchVars, at, upto, sync, inFlight, committed, rebalancing, countVars>>
     \/ /\ MayFail /\ failures' = failures + 1
        /\ GoTo(p, "idle") /\ Detach(p) /\ batchFailed' = WatchedBatch(p)
        /\ UNCHANGED <<lifeVars, watch, watched, shutdown, at, upto, inFlight, committed,
                       consumed, rebalancing, rebalances>>

(* The consumer callback returns and its offset is resolved, or it throws. *)
Consume(p) ==
  /\ phase[p] = "consuming"
  /\ \/ /\ consumed' = [consumed EXCEPT ![p] = @ \cup {at[p]}]
        /\ resolved' = [resolved EXCEPT ![p] = at[p]]
        /\ GoTo(p, "committing")
        /\ UNCHANGED <<lifeVars, watchVars, at, upto, sync, inFlight, committed, rebalancing, countVars>>
     \/ BatchFails(p)

(* commitOffsetsIfNecessary(): commits or not, or throws.                  *)
CommitIfNecessary(p, next) ==
  \/ /\ \E c \in {committed[p], resolved[p]} : committed' = [committed EXCEPT ![p] = c]
     /\ next
  \/ BatchFails(p)

AfterConsumer(p) ==
  /\ phase[p] = "committing"
  /\ CommitIfNecessary(p, /\ GoTo(p, "heartbeat")
                          /\ UNCHANGED <<lifeVars, watchVars, at, upto, sync, inFlight,
                                         resolved, consumed, rebalancing, countVars>>)

(* heartbeat() never throws; a rebalance synchronizes the workers, which   *)
(* has no effect while a synchronization is in flight.                     *)
Heartbeat(p) ==
  /\ phase[p] = "heartbeat"
  /\ GoTo(p, "checking")
  /\ IF rebalancing THEN Synchronize("rebalance") ELSE UNCHANGED <<sync, inFlight, toStop>>
  /\ UNCHANGED <<options, consumer, starting, stopping, ignored, watchVars, at, upto, offsetVars,
                 rebalancing, countVars>>

(* checkSynchronized(): only a worker that was called has something to do. *)
Check(p) ==
  /\ phase[p] = "checking"
  /\ GoTo(p, IF sync[p] = "subscribed" THEN "finishing" ELSE "forcing")
  /\ UNCHANGED <<lifeVars, watchVars, at, upto, sync, inFlight, offsetVars, rebalancing, countVars>>

(* Mutant: the commit before the synchronization is not forced.            *)
CommitUnforced(p) ==
  /\ phase[p] = "forcing"
  /\ \E c \in {committed[p], resolved[p]} : committed' = [committed EXCEPT ![p] = c]
  /\ GoTo(p, "awaiting")
  /\ Complete(p)
  /\ UNCHANGED <<options, consumer, starting, stopping, ignored, watchVars, at, upto, resolved,
                 consumed, rebalancing, countVars>>

(* onSynchronized(): commitOffset(true), then complete().                  *)
ForceCommit(p) ==
  /\ phase[p] = "forcing"
  /\ \/ /\ committed' = [committed EXCEPT ![p] = resolved[p]]
        /\ GoTo(p, "awaiting")
        /\ Complete(p)
        /\ UNCHANGED <<options, consumer, starting, stopping, ignored, watchVars, at, upto, resolved,
                       consumed, rebalancing, countVars>>
     \/ BatchFails(p)

(* The #synchronizer promise answers true: the batch ends here.            *)
Interrupted(p) ==
  /\ phase[p] = "awaiting" /\ sync[p] = "released"
  /\ EndBatch(p)
  /\ UNCHANGED <<batchFailed, offsetVars, failures>>

(* commitOffset(), and the next message or the end of the batch.           *)
Finish(p) ==
  /\ phase[p] = "finishing"
  /\ \/ /\ at[p] < upto[p]
        /\ CommitIfNecessary(p, /\ GoTo(p, "consuming")
                                /\ at' = [at EXCEPT ![p] = @ + 1]
                                /\ UNCHANGED <<lifeVars, watchVars, upto, sync, inFlight,
                                               resolved, consumed, rebalancing, countVars>>)
     \/ /\ at[p] = upto[p]
        /\ CommitIfNecessary(p, EndBatch(p) /\ UNCHANGED <<batchFailed, resolved, consumed, failures>>)

(* eachBatch() of a batch consumer: the method has the payload, resolves   *)
(* the messages it has consumed, and returns when it likes.                *)
ConsumeWhole(p) ==
  /\ phase[p] = "whole"
  /\ \/ /\ at[p] <= upto[p]
        /\ consumed' = [consumed EXCEPT ![p] = @ \cup {at[p]}]
        /\ resolved' = [resolved EXCEPT ![p] = at[p]]
        /\ at' = [at EXCEPT ![p] = @ + 1]
        /\ UNCHANGED <<lifeVars, watchVars, phase, upto, sync, inFlight, committed,
                       rebalancing, countVars>>
     \/ CommitIfNecessary(p, EndBatch(p) /\ UNCHANGED <<batchFailed, resolved, consumed, failures>>)

WorkerStep(p) ==
  \/ Consume(p) \/ AfterConsumer(p) \/ Heartbeat(p) \/ Check(p) \/ ForceCommit(p)
  \/ Interrupted(p) \/ Finish(p) \/ ConsumeWhole(p)

-----------------------------------------------------------------------------
(* The group.                                                              *)

(* KafkaJS gives up fetching or its place in the group.                    *)
Crash ==
  /\ consumer = "running" /\ MayFail
  /\ consumer' = "crashed" /\ failures' = failures + 1
  /\ UNCHANGED <<options, starting, stopping, ignored, toStop, watchVars, phase, at, upto, sync,
                 inFlight, offsetVars, rebalancing, rebalances>>

RebalanceBegins ==
  /\ consumer = "running" /\ ~rebalancing /\ rebalances < MaxRebalances
  /\ rebalancing' = TRUE /\ rebalances' = rebalances + 1
  /\ UNCHANGED <<lifeVars, watchVars, phase, at, upto, sync, inFlight, offsetVars, failures>>

(* KafkaJS joins again, and fetches from the committed offsets.            *)
Rejoin ==
  /\ consumer = "running" /\ rebalancing /\ \A p \in Partition : ~Busy(p)
  /\ rebalancing' = FALSE /\ resolved' = committed
  /\ UNCHANGED <<lifeVars, watchVars, phase, at, upto, sync, inFlight, committed, consumed, countVars>>

Next ==
  \/ Start \/ StartRefused \/ RunBegins \/ StartSettles \/ RaceRejects \/ Stop \/ ConsumerStops \/ StopSettles
  \/ \E p \in Partition : Fetch(p) \/ WorkerStep(p)
  \/ Crash \/ RebalanceBegins \/ Rejoin

Spec == Init /\ [][Next]_vars

(* Callbacks of the application return or throw, the broker answers, and   *)
(* timers run.  Fetching and rebalancing are left to KafkaJS.              *)
Fairness ==
  /\ WF_vars(RunBegins) /\ WF_vars(StartSettles) /\ WF_vars(RaceRejects) /\ WF_vars(ConsumerStops) /\ WF_vars(StopSettles)
  /\ \A p \in Partition : WF_vars(WorkerStep(p))

FairSpec == Spec /\ Fairness

-----------------------------------------------------------------------------
(* Nothing is lost: an offset is committed only when the consumer has      *)
(* returned for every message below it, over failed batches, rebalances    *)
(* and forced commits; so whoever gets the partition next begins at or     *)
(* before the first message that nobody has consumed.                      *)
NothingLost ==
  \A p \in Partition :
    /\ 1 .. committed[p] \subseteq consumed[p]
    /\ committed[p] <= resolved[p]

(* A worker that a rebalance or stop() interrupts has committed up to the  *)
(* message it consumed last, and that is still so when its batch ends,     *)
(* whatever the other workers did while it waited for them: the next owner *)
(* of the partition repeats nothing of this batch.                         *)
InterruptedIsCommitted ==
  [][\A p \in Partition :
       phase[p] = "awaiting" /\ phase'[p] = "idle"
         => committed'[p] = at[p] /\ resolved'[p] = at[p]]_vars

(* A synchronization waits for workers, and those it called are gone.      *)
Orphaned == inFlight # "none" /\ \A p \in Partition : sync[p] # "called"

(* stop() settles, unless it came during another synchronization, whose    *)
(* end it does not wait for (message-consumer.ts:115), or the last of the  *)
(* workers it waits for ended its batch without looking                    *)
(* (worker-synchronizer.ts:32).                                            *)
StopIsKept ==
  stopping = "pending" ~> (stopping \in {"fulfilled", "rejected"} \/ ignored \/ Orphaned)

(* A failure that wait() is told of ends the process: the start, a batch   *)
(* that began before it, a crash while it watches.  A later crash goes     *)
(* unnoticed (message-consumer.ts:99).                                     *)
FailureReported ==
  (starting = "rejected" \/ batchFailed \/ (consumer = "crashed" /\ watch = "racing")) ~> shutdown

-----------------------------------------------------------------------------
(* What NothingLost and InterruptedIsCommitted rest on.                    *)

(* What is resolved is consumed, and the worker of a partition is at the   *)
(* first message that is not, or at the last one that is.                  *)
WorkerInv(p) ==
  /\ 1 .. resolved[p] \subseteq consumed[p]
  /\ committed[p] <= resolved[p]
  /\ phase[p] \in {"consuming", "whole"} => at[p] = resolved[p] + 1
  /\ phase[p] \notin {"idle", "consuming", "whole"} => at[p] = resolved[p]
  /\ phase[p] \notin {"idle", "whole"} => at[p] <= upto[p]
  /\ phase[p] = "awaiting" => committed[p] = resolved[p]

IInv ==
  /\ TypeOK /\ at \in [Partition -> Nat] /\ upto \in [Partition -> Nat]
  /\ \A p \in Partition : WorkerInv(p)
=============================================================================
