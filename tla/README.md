# A verification project for SenseJS

SenseJS is a framework for Node.js applications that are made of modules. A module has life-cycle
hooks and requires other modules; an application is run by a runner that decides when and how the
process ends; around that core stand an injection container and the integrations (HTTP, multipart
bodies, Kafka, logging). All of it runs on one event loop: nothing is ever preempted, and every
hard behaviour comes from what may happen between two `await`s.

This directory models that code in TLA+, checks the models with TLC on small instances, and proves
the safety properties of the core with TLAPS. Paths below are relative to `packages/` of the
repository unless they begin with `website/`.

1. [The system](#1-the-system)
2. [The modules and the code](#2-the-modules-and-the-code)
3. [The runs](#3-the-runs)
4. [Fairness](#4-fairness)
5. [The proofs](#5-the-proofs)
6. [Disagreements between code and text](#6-disagreements-between-code-and-text)
7. [What the models leave out](#7-what-the-models-leave-out)
8. [The plan](#8-the-plan)

## 1. The system

### Components

| component | state it keeps | operations | modelled by |
|---|---|---|---|
| Module lifecycle: `core/src/entry-module.ts`, `module-instance.ts` | per module four memoised promises (bootstrap, start, stop, destroy), a reference count and the list of its dependencies; per application four promises | `bootstrap`, `start`, `stop`, `shutdown`, `destroy`, and the hooks of the application | `ModuleLifecycle`, `LifecycleContract` |
| Application runner: `core/src/application-runner.ts` | RxJS observables over the process's events, the exit option | `run`, `runModule`, `ProcessManager.shutdown`, signals, uncaught errors, timeout | `ApplicationRunner` |
| Static entry points: `EntryModule.run`, `EntryModule.start` in `core/src/entry-module.ts` | one variable for the error, a subject for the exit | the two calls, `ProcessManager.shutdown` | `EntryPoints` |
| Background tasks: `core/src/builtins.ts` | one chain of promises | `dispatch`, `waitAllTaskFinished` | `BackgroundTasks` |
| Module scanner: `core/src/module-scanner.ts`, `utils/match-labels.ts` | a stack and a visited set | `scanModule`, `matchLabels` | `ModuleScanner` |
| Event announcement: `core/src/event.ts` | subscriptions per channel | `publish`, `announceEvent`, the subscription module's hooks | `EventBus` |
| Container, resolution: `container/src/container.ts`, `resolve-session.ts`, `utils.ts` | bindings, aliases, singleton and session caches, an instruction stack and a value stack | `add`, `addBinding`, `validate`, `resolve`, `construct` | `Container` |
| Container, method invocation: `method-invoker.ts`, `middleware.ts` | per call a session with temporary bindings and the promise of `invoke` | `createMethodInvoker`, `invoke`, `next` | `MethodInvoker` |
| Async iterable queue: `utility/src/async-iterable-queue.ts` | `#state`, `#promiseQueue` | `push`, `abort`, `finish`, the iterator's `next` and `return` | `AsyncIterableQueue` |
| Multipart reader: `multipart/src/index.ts` | the chain of pushes, the parser, the cleanup | `entries`, the parser's events, the cleanup | `Multipart`, `EntryStream` |
| Upload stream: `multipart/src/upload-stream.ts` | a ring buffer with three indices, a chain of partition uploads | `_write`, `_final`, `_destroy` | `UploadStream` |
| Multipart storages: `multipart/src/{disk,in-memory,remote}-storage*.ts`, `multipart-s3-adaptor` | files and handles, a growing buffer, uploads and their tags | `saveMultipartFile`, `clean`, the adaptor's requests | `MultipartFileStorage`, `InMemoryStorage`, `DiskStorage`, `S3Storage`, `FileStorages` |
| Kafka consumer: `kafkajs-standalone/src/message-consumer.ts`, `worker-synchronizer.ts` | an entry per topic, a worker per partition, a synchronisation in flight, start and stop promises | `subscribe`, `start`, `stop`, `wait`, batches, rebalances | `MessageConsumer` |
| Kafka producers: `…/base-message-producer.ts`, `simple-…`, `transactional-…`, `pooled-provider.ts` | the chain `allMessageSend`, a transaction, a pool | `create`, `send`, `commit`, `abort`, `release`, `destroy` | `MessageProducer` |
| Kafka modules: `kafkajs/src/` | glue between the life cycle and the two above | hooks, the scan for subscribed methods | with the two above |
| HTTP: `http-common/src`, `http-koa-platform/src` | a server with its connections, routes | `onStart`, `onStop`, the handler of a request | `HttpServer` |
| Logger: `logger/src/` | the state of the output stream | writes with back-pressure | not modelled |
| Configuration, testing helpers, zstd codec, decorators, promisify | none of their own | wrappers of libraries, annotations | not modelled |

The examples, the web site and the build scripts are no part of the system.

### How they interact

`ApplicationRunner` owns one `EntryModule`. It calls `start()` (or only `bootstrap()`) in a
`setImmediate`, runs the entry method, and calls `shutdown()` once, from whichever event comes
first. A program may do the same with the promises of `EntryModule.run()` or `start()`, without
signals and timeouts. `EntryModule` walks the graph of `ModuleInstance`s and, at the end of a shutdown, awaits the
background tasks. The hooks it runs start and stop the HTTP server, the event subscriptions and the
Kafka consumers, each of which scans the graph of modules for annotated methods first, and destroy
the providers of Kafka producers. A request, an event or a message is one call of a
`MethodInvoker`: it opens a session of the container, runs the middlewares and calls the method. A
request's body is read by `Multipart`: the parser's events push entries into an
`AsyncIterableQueue` that the handler iterates over, files go through a storage whose
`UploadStream`s call a remote adaptor, and the Koa adaptor awaits the cleanup after the handler.

### What is hard, and what makes each part correct

* **Module lifecycle.** Creation and destruction are recursive walks that await one module at a
  time; start and stop spread through the graph with `Promise.all`, which gives up at the first
  rejection while the rest goes on. Shared dependencies are protected by a reference count that is
  decremented before an `await`. A signal may call `shutdown()` while a walk is in progress.
  Correct means: created before anything starts, dependencies start first, dependents are
  destroyed first, nothing is destroyed beside its own start or beside a stop, nothing that was
  created is left behind, and a shutdown always settles.
* **Application runner.** Five kinds of events race to end the run in any phase, and a timeout and
  repeated signals race its shutdown. Correct
  means: the first of them decides, the modules are shut down first, the normal exit code is
  given only after a shutdown that succeeded, when a signal came first or a method returned and the
  shutdown was requested (with or without an error, see section 6), a request is never lost, and a run
  that has ended does exit even when hooks hang.
* **Queue and multipart reader.** Calls that await one gate resume one behind the other, and the
  second finds the state that the first made of it; limit events overtake the chain. Correct
  means: entries in order, none lost and none twice, the end only at the end, the
  assertions of `push()` and `finish()` hold and the one of `next()` fails only behind a file that
  could not be stored, a clean body is read to its end and cleaned up.
* **Upload stream.** Indices run through a ring of two rounds, and fall back asynchronously.
  Correct means: stored bytes are the file's bytes in order, checksums stay true while a partition
  waits, and an upload that was begun is finished or aborted.
* **Storages.** Several files are saved at once; every step of a file (directory, open, write, close,
  remove, or a request to S3) may fail, and `clean()` may begin while one is being saved. Correct means:
  what was saved is there as it came, and what the clean-up found settled is gone afterwards, unless
  it could not be closed or removed, which `clean()` tells by rejecting if it met it itself.
* **Container.** A resolution is a stack machine over untyped instructions with two caches and
  temporary bindings; an exception leaves both stacks as they are. Correct means: an instance is
  built from what its parameters ask for, one instance per scope, and what `validate()` accepted
  can be resolved.
* **Method invocation.** A middleware may call `next()` never, twice, or without awaiting it, and
  what it provides is there for the levels below. Correct means: a level finds what the building of
  the chain promised it, and `invoke()` settles with the outermost level and with a value.
* **HTTP and events.** A server is stopped while requests run and clients go away; an event is
  processed by many methods, of which some ignore it and some fail. Correct means: an answer and an
  acknowledgement tell the truth, every declared method is reached and no other, and when `onStop()`
  has returned nothing of a controller runs that a client still waits for (a method whose client went
  away may go on, and so may what runs below a middleware that did not await `next()`).
* **Kafka.** A rebalance, a crash and `stop()` synchronise with workers that may be committing;
  sends, their failures and the release of a producer race. Correct means: offsets never pass an
  unconsumed message, an interrupted worker leaves nothing to be repeated, `stop()` settles,
  failures are reported, and a connection goes back to its pool, at rest.

The hazards that matter most are listed with their lines in `PROJECT.json` under `hazards`, with the
properties that watch them and, where a property has to make an exception, what the exception is.

## 2. The modules and the code

An action is always *what runs between two awaits*: the call of an entry point, the continuation of
a promise, or the settling of something outside. `PROJECT.json` (`map`) gives the lines of each
definition. Definitions marked `Mutant:` belong to no specification: each is an action as a
plausible bug would have it, and the property it is listed with in `PROJECT.json` must fail when
it takes the place of the real one.

### ModuleLifecycle (with LifecycleContract)

| TLA+ | code |
|---|---|
| `boot`, `start`, `stop`, `destroy` | the memoised promises of `ModuleInstance`, with the await at which a pending one stands ("deps", "hooks", "waiting") |
| `startRunning`, `stopRunning` | the hooks of a module that were called and have not settled; they go on after a `Promise.all` has rejected |
| `stopAwaits` | the dependencies whose `stop()` the module waits for |
| `refs`, `deps` | `referencedCounter` and `dependencies`, which `#shutdownModule` pops from its end |
| `stack` | the frames of `#bootstrapModule` and `#shutdownModule`, one stack for the walk of `bootstrap()` and one for that of `shutdown()`; a frame is a function, its module and the place of its loop |
| `entry` | the four promises of `EntryModule` |
| `CallBootstrap`, `CallStart`, `CallShutdown` | the calls of the application or of the runner |
| `ShutdownModule(w, d, fs)` | the synchronous part of `#shutdownModule`: decrement, compare, and perhaps call `destroy()` |

`Impatient` says in which phases `shutdown()` may be called while they are under way. With `{}` it
is called as `EntryModule.run` calls it, after the start-up; with `"start"` it may overtake the
start hooks; with `"run"` it may overtake the creating walk, as a signal makes
`ApplicationRunner` do.

`LifecycleContract` is the abstract promise: four sets (created, broken, started, destroyed) and
one action for each, guarded by the order of the graph. `KeepsContract` is the refinement
(`INSTANCE LifecycleContract WITH created <- {m : boot[m] = "ok"}, …`).

### ApplicationRunner

`startup`, `method` and `shutdown` are the calls into `EntryModule` seen from outside: they settle
at some time, or never. `requested` is what `#stoppedSubject` emitted, `seen` counts each signal,
`cause` is the event that came first through `running.pipe(first())`, `exit` the code of
`process.exit`. `Ends(c)` is that `first()`: it records the cause and calls `shutdown()`, which
waits for a `start()` that is under way ("waiting") and for no `bootstrap()`. `SignalOccurs` has
the two subscriptions of a signal: the one that ends the run and the `skip(1)` that forces the
exit. `UncaughtError` crashes the process once `first()` has removed the listeners.

### EntryPoints (with BackgroundTasks)

`EntryPoints` extends `ApplicationRunner` by the two other ways to run an application, chosen in
`entry`. `EntryModule.run()` and `start()` reuse `startup`, `method` and `shutdown`, which are the
same calls into `EntryModule`; `error` is their variable of that name, `asked` what `exitSubject`
emitted, `result` their promise. Behind each of the three, `ModulesSettle` and `Drained` are the two
`finally` of `EntryModule.shutdown()`: the modules go first (`modules`), then the chain of tasks is
awaited as it is at that moment.

`BackgroundTasks` is that chain: `dispatched` holds a link per task, and the recursive function
`TaskFinished[n]` is the promise `#taskFinished` after n calls of `dispatch()`. A promise hands its
rejection on to every link behind it, a function's is swallowed unless it throws at once.

### AsyncIterableQueue, Multipart and EntryStream

`AsyncIterableQueue` holds `#state` (`at`, `reason`, `value`), the gate `#promiseQueue` (`gate`,
the calls `waiting` for it and those that are resumed, `ready`), the promise of each value and the
reader's loop. A value pushed while the reader waits is in `transit` until its promise settles;
then `finally` makes the state IDLE whatever it was, and opens the gate a few turns later
("opening"). `Multipart` extends it with the producer: the parser's events, the chain of pushes
(`chain`, `pushing`), the limit and error events that call `abort()` beside the chain, and the
cleanup function, which awaits the chain as it is when it is called (`owed` links).

`Quiescent` and `Idle` are the event loop: calls that await the same fulfilled promise are resumed
together, before timers, sockets and file system do anything.

`EntryStream` is what the reader may rely on, and `KeepsStream` the refinement: parts arrive in
order, once, and "done" is said only after the last part of a complete body.

### UploadStream

`head`, `tail`, `upload` are the three indices as the code has them, `buffer` the ring, filled with
the positions of the bytes in the file. `queue` is the chain of partitions (where, how long, and
the bytes their checksum was calculated of), `busy` the continuation behind them, `init`
`#initMultipartUploadPromise`, `stored` what the storage has got. `Taken`, `Buffers` and `Reads`
are the arithmetic of `#partitionedUpload`, `#uploadIfNecessary` and the readable partition.

### ModuleScanner

`Turn(stack, visited)` is one turn of the loop of `scanModule()`, `Called` what it calls back for, and
the recursive function `Visiting` is the loop: the stack of modules to visit may hold a module twice,
and a visited one is not called back for again. `Found(components)` are the
annotated methods of the matching controllers in the order of that scan. Annotations, which
decorators put down when the program is loaded, are constants. `Expected` is the reference: the
same methods by reachability, whatever a scan does; the properties of the modules that extend
`ModuleScanner` compare with it, and section 5 proves that the two are equal in every graph.

### MethodInvoker, HttpServer and EventBus

`MethodInvoker` has no specification of its own: its `Invoke(c)`, `CallStep(c)` and `Outcome(c)` are
the calls that `HttpServer` and `EventBus` compose. `chain[c]` holds the levels of a call (what the
parameters of a middleware need, and what it provides with `next(...)`), `Buildable` is
`validateAndBuildMiddlewareMetadata`, `state` and `nexts` are the runs of the levels, `provided` the
temporary bindings of the session, `value` what `resolveCallback` got. Everything a middleware may
do with `next()` is open.

`HttpServer`: `server` is Node's server, `starting` and `stopping` the promises of the hooks, `open`
the connections, `answer` what the client is told, `cleanup` the clean-up of a multipart body. The
routes are the `Found` methods; `RouteChain` is the order of the middlewares. `AnswerEarly` is what
stands before the router in `build()`, and the router's own answer.

`EventBus`: `subscribed` are the subscriptions of the module, `due[e]` those that
`Subject.next()` calls, `consumed` what each filter made of the event, `announced` the promise of
`publish()`. While `next()` runs (`Calling`) nothing else does, but a callback may publish another
event in its turn: `calling` holds the events whose `next()` is on the call stack, the innermost last.
`StartThrows` is a start that fails at one of the methods: those before it stay subscribed, and no
`onStop()` follows.

### Container

`program` is what the program will bind, chosen in `ContainerInit`; `bindings` and `order` are
`#bindingMap`, `compiled` and `validated` the two sets beside it; `instructions`, `stack`,
`sessionCache` and `temporary` belong to a session, `globalCache` to all. One action per
instruction (`Plan`, `Transform`, `Build`) and `Return`; `running` makes a `resolve()` synchronous.
`Chase` follows a chain of aliases, as many links as there are ids: a chain that has not ended by
then never does. `Visit` is `internalValidateDependencies()` with its quirks, a recursive function of
the id, the path to it and what is known so far; `Rounds` is a loop of the code, over parameters and
over bindings. The rest are records for the properties: `made` (who built an instance, of what), `resolved`, `fault`, `threw`.

### The storages

`MultipartFileStorage` is what they have in common: files saved beside one another, as a push returns
while its file is being saved, and one `clean()`. `InMemoryStorage` has a growing buffer for each
file (`missing`: bytes that were cut off), `DiskStorage` the system calls of a file, each of which
may fail: `stuck` are the files that a `close()` or an `rm()` failed for, and `sweep` is where
`clean()` stands, which rejects with its first entry that fails while the others go on. `S3Storage` is
the remote storage over the S3 adaptor: `request` is the request a file waits for, and the external S3
keeps uploads until they are completed or aborted. `FileStorages` is a request whose handler has chosen one of them.

### MessageConsumer

`options` is `#consumeOptions`, filled by the scan when the module starts. Each partition has a
worker whose `phase` is the await it stands at; "whole" is a method that takes a batch as it is.
`sync` is its `WorkerSynchronizer`, `inFlight` the `WorkerController`; `Synchronize`, `Complete`
and `Fire` are the two subjects and the `zip`. `resolved` is KafkaJS's offset of the partition,
`committed` the broker's, `consumed` what the application has really processed. `watch` is `wait()`
with its race.

### MessageProducer

`call` is each send with the await it stands at, `chain` is `allMessageSend` with its first `link`,
`ending` who awaits the end of a transaction, `waiter` who took `onRelease`, and `ahead` how much of
the chain he waits for. `session` is the transaction of the connection at KafkaJS, which the
borrowers of a pool share one after the other. `kind` and `provider` are chosen in `ProducerInit`.
`early` marks a producer whose `onRelease` was taken while something was under way that
`allMessageSend` does not know of: a call that `sender()` has not answered, or the end of a
transaction. A second batch that fails while the commit of the first is pending does that: it finds
`#tx` taken (`transactional-message-producer.ts:52`) and goes straight to `onRelease`.

## 3. The runs

| run | configuration | what it shows |
|---|---|---|
| `lifecycle` | `MCModuleLifecycle.cfg` | the order of the phases, the inductive invariant, the refinement of the contract, and the end of every shutdown |
| `runner` | `MCEntryPoints.cfg` | the race to the exit and two progress properties; what the promise of `EntryModule.run()` or `start()` is worth; background tasks are done at the end |
| `multipart` | `MCMultipart.cfg` | order and completeness of the entries, the queue's assertions, a clean body is read and cleaned up |
| `upload` | `MCUploadStream.cfg` | the ring, the checksums, and the end of every upload |
| `container` | `MCContainer.cfg` | right arguments, one instance per scope, and what an accepted set of bindings is worth |
| `http` | `MCHttpServer.cfg` | what a level finds in its session, what an answer is worth, and a quiet stop |
| `events` | `MCEventBus.cfg` | what a fulfilled `publish()` is worth, and that it settles |
| `consumer` | `MCMessageConsumer.cfg` | offsets, interruptions, `stop()`, and which failures end the process |
| `producer` | `MCMessageProducer.cfg` | connections come back, and come back at rest |
| `storage` | `MCFileStorages.cfg` | files are kept as they came, and nothing is left of them |
| `release_returns`, `memory_content` | `ReleaseReturns.cfg`, `ContentIsKept.cfg` | the two disagreements of section 6 that have a run |

The type invariants (`TypeOK`) hold in every one of these configurations. The runs list the
properties that answer a hazard; for the life cycle the types are a part of `IInv`. The inductive
invariants of the other components are proved (section 5), were seen to hold in these configurations,
and are not properties of the runs.

### Bounds, and why they are enough

* `lifecycle` (39,652 states): six modules in four layers; the root requires three. One dependency is
  shared by three modules of two layers and another by the root and a module two layers below it, in
  lists of different orders, so a count reaches three and the last reference comes from a walk at
  another depth than the first; a walk that is cut short leaves modules two layers below it. One module
  has two start and two stop hooks (a rejection beside a running hook), one has none. Every hook of
  every module may reject. The theorems of section 5 remove the bound for the safety properties.
  `shutdown()` may overtake the start hooks, and not the creating walk (`Impatient = {"start"}`):
  with `"run"` the two walks consume one list, modules may be left undestroyed, and no text of the
  repository promises otherwise (`CreatedBeforeStarted` and `TypeOK` were seen to hold there too; of
  the theorems only `TypeCorrect` covers it).
* `runner` (819,008 states): two signals that occur at most twice each (`MaxOccurrences`): a third
  occurrence finds the process gone; two background tasks (`MaxTasks`), promises or functions, the
  least for one behind a rejected one.
* `multipart` (24,676 states): four parts, the first and the third of them files that may fail to
  be stored, two limit or error events, a loop that may leave. The queue holds at most one value,
  so with four parts one is read, one waits in the queue, one in the gate and one in the chain.
* `upload` (2,168 states): a ring of 7 bytes and partitions of 3, so that partitions begin at every
  place of the ring, two do not fill it and one lies across its end; files of up to 45 bytes pass
  the ring six times, chunks of up to 13 bytes nearly twice. Other limits (a buffer that is a
  multiple of a partition, a partition as long as the buffer, a simple limit above and below the
  partition's) were tried by hand with the same result.
* `container` (1,485,654 states): 18 programs over three ids: sound ones, cycles through a
  class and through an alias, a missing dependency, an optional parameter before others and one that
  comes twice, every scope, a transformed parameter, a class with a gap among its indices, an injectable ancestor;
  two sessions, two calls, one factory that throws, one temporary binding each. Two ids are bound
  before the first call (`MinBound`), so the third may be bound between two validations. A stack of
  more than 21 instructions (`MaxDepth`) is an endless resolution: a class has at most three
  parameters, so its code has at most seven instructions, and three such codes fit
  (`DepthAssumption`). The deepest finite resolution of the run has fewer than 16.
* `http` (703,733 states): three requests: one behind two middlewares (in a chain that is sound and
  one in which the second needs what it provides itself), one with a multipart body, one for a
  controller that lacks the label; a middleware calls `next()` up to twice, the least that repeats.
* `events` (175,868 states): two events on one channel that overlap or are published one within the
  other; a start that may fail at any method; a subscriber with a
  middleware, one without, one of another channel, one without the label, one in a module that
  nobody requires; a module that is required on two ways.
* `consumer` (733,135 states): two partitions, the least for a `zip`, of two messages in one
  batch, so that a batch is interrupted in its middle; one rebalance and one failure of any kind.
  The methods for messages and for batches subscribe to the same topic, and the second exists only
  if a create hook has added its component: both kinds of batch are consumed.
* `producer` (502,864 states): two producers over one connection or over one each, two sends in
  all, one failure. The theorem of section 5 allows any number of failures.
* `storage` (881,353 states): three files of which the storage takes two, so two are saved at once
  and one is refused; three failures, so that both files and the directory can fail; chunks of 12, 16
  and 40 bytes against growing steps of 16, 32, 48 … up to a limit of 96.

`container` and `storage` use symmetry: the two sessions are interchangeable, and so are the three files, and
neither run has a liveness property. `CHECK_DEADLOCK FALSE` is said where the system really stops: the process has exited, the
body or file is dealt with, the server is closed, every call has been made; and in `multipart` and
`producer` also where the queue or a producer stays stuck, which section 6 is about. In the
`lifecycle` run deadlock *is* checked: the only state without a step would be one in which a promise
never settles, since `Exit` stutters exactly when everything has.

## 4. Fairness

* **Lifecycle.** Weak fairness of every continuation (the event loop runs it) and of the hooks: a
  hook of the application is assumed to settle. There is none on `CallBootstrap`, `CallStart` and
  `CallShutdown`. `ShutdownSettles` needs no strong fairness, because a continuation stays enabled
  until it runs. That hooks which hang cannot keep the process is the runner's business.
* **Runner.** Only what the runtime itself owes: the `setImmediate` fires (`Launch`), the
  continuation of `main` runs (`MainReturns`), the timer elapses (`TimeoutElapses`). Startup,
  method and shutdown run the application's code and may hang for ever; signals and errors need
  not come.
* **Multipart.** The body ends (the socket ends or fails), storing a file ends, continuations run,
  and the loop asks for the next entry or leaves. Nothing obliges a limit event to occur.
* **Upload.** The storage answers, one way or the other, the source writes on or ends, and
  continuations run.
* **HTTP.** Handlers, middlewares and methods settle (`CallSettles`), continuations run, Node calls
  back, and a connection whose request was answered is closed. No client is obliged to go away, no
  middleware to call `next()`, and nobody to stop the server.
* **Events.** Methods, middlewares and continuations settle; the synchronous calls of `next()`
  are made.
* **Consumer.** The callbacks of the application return or throw, the broker and KafkaJS answer,
  timers and continuations run. Fetching, rebalancing, crashing and stopping are not owed.
* **Producer.** KafkaJS answers every request and continuations run. An application need not
  release, commit or send.

`container` and `storage` state no liveness: a resolution is synchronous, and what ends a file's
saving is the file system's or S3's answer alone.

## 5. The proofs

Eight modules hold theorems that TLAPS checks, for every value of the constants that satisfies the
named assumptions of the modules they are about. Each component has one inductive invariant, called
`IInv` unless another name is given here; the proof of its `Invariance` is one lemma per action, or
group of actions that touch the same variables, and the properties follow from it.

| module | theorems that state a property of a run | others |
|---|---|---|
| `ModuleLifecycle_proofs` | `CreationThenStart`, `StartOrder`, `DestroyOrder`, `DestroyWaitsForStart`, `StopThenDestroy`, `CompleteShutdown`, `Refinement` | `TypeCorrect`, `Invariance` |
| `EntryPoints_proofs` | `ShutdownComesFirst`, `NormalExitHasReason`, `FirstCauseStays`, `EntryExits`, `EntryCauseStays`, `TasksAreWaitedFor`, `PromiseTellsTruth` | `RunnerRefinement`, `Invariance`, `EntryInvariance`, `TypeCorrect` |
| `Multipart_proofs` | `AssertionsAreMet`, `StreamIsKept`; of the storages `SavedFilesAreKept`, `CleanedUp` | `TypeCorrect`, `Invariance`, `StoragesTypeCorrect`, `StoragesInvariance` |
| `UploadStream_proofs` | `StoredFromBeginning`, `ResolvedStored`, `ChecksumsAreKept` | `TypeCorrect`, `Invariance` |
| `Container_proofs` | `OneInstanceHolds`, `ArgumentsAreRight`, `AcceptedHolds`; `ScanFindsAll` and the invariant of `MethodInvoker`, behind the properties of the next two | `ContainerTypes`, `MachineInvariance`, `ArgumentsInvariance`, `AcceptedInvariance` |
| `HttpServer_proofs` | `NeedsAreMet`, `AnswersAreTrue`, `StopIsQuiet` | `TypeCorrect`, `Invariance` |
| `EventBus_proofs` | `AnnouncementsAreProcessed`, `NeedsAreMet` | `TypeCorrect`, `Invariance` |
| `Kafka_proofs` | `CommittedIsConsumed`, `InterruptionCommits`, `ConnectionsReturnAtRest` | `TypeCorrect`, `Invariance`, `ProducersTypeCorrect`, `ProducersInvariance` |

### The assumptions

* `ModuleAssumption`: a finite set of modules, ordered lists of requirements, a number of hooks
  for each, any set of hooks that may reject.
* `GraphAssumption`: no module requires the entry module, and every module is reachable from it;
  the constructor of `EntryModule` makes instances of exactly those.
* `DecorationAssumption`: what a class requires was decorated before the class, so every set of
  modules has one that none of them requires. Only `CompleteShutdown` needs it.
* `RunnerAssumption`: the normal exit code differs from the error and forced codes; codes of
  signals, after the merge of the options, are codes, and a forced one is not the normal one.
* `TasksAssumption`, `ConsumerAssumption`, `ProducerAssumption`, `StorageAssumption`,
  `MemoryAssumption`, `S3Assumption`, `MultipartAssumption`, `UploadAssumption`: bounds are
  numbers; limits and lengths are positive. No order among the limits of an upload is assumed.
* `InvokerAssumption`: a chain has at least one level, and ids are ids. `ScannerAssumption`: a
  finite graph, lists that are sequences. `EventAssumption`, `HttpAssumption`: a call of the invoker
  is an event at a subscriber, a request. `ContainerAssumption`: finitely many ids, programs that
  bind ids to bindings of the four kinds or to nothing, and values that are told from `None`.
* `DepthAssumption`: the bound at which a resolution counts as endless leaves room for the code of
  every class once, where a class has one instruction and at most two per parameter. It is about the
  model alone: the code has no such bound, and a bound that is too low would call a finite resolution
  endless. Only `AcceptedInvariance` and `AcceptedHolds` need it.

### The lifecycle

`TypeCorrect` holds without a further assumption. All other theorems of the lifecycle assume
`"run" \notin Impatient`: the shutdown does not overtake the creating walk. Without that
assumption several parts are false, since the two walks consume one list.

None of the properties is inductive: a reference count that is too small, or a walk that stands at
a wrong place, satisfies all of them and breaks one of them a few steps later. `IInv` adds what the
code silently relies on:

* `BootInv`: the frames of the creating walk are a path from the root, and everything left of the
  place a frame has reached is created (`BootstrapPath`); after a failure the walk only unwinds
  (`BootstrapUnwinds`).
* `EntryInv`: each phase of `EntryModule` waits for the one before it.
* `StartInv`: a start that is pending or fulfilled has only started dependencies; how many hooks
  may still run.
* `Consumed`: a dependency list is a prefix of the `requires` list.
* `ReleaseInv`: while no creation has failed, a count is the number of places in the remaining
  lists that name the module, and a list is shorter than at the beginning only when its owner is
  destroyed.
* `DestroyInv`: nothing is destroyed while its start is pending.
* `StopInv`: a module is stopping only below a graph that started; unless `stop()` has rejected at
  the root, whoever waits for its dependencies waits for all of them, and whoever has stopped has
  seen all of them stop. From it follows `DestroyAfterStop`: the root awaits every module below it.
* `VisitInv`: a module that lost its last reference is destroyed, unless it was never created; the
  walk that is at it has not called back yet, or its list is empty; and whoever's `destroy()` is
  pending has a walk that awaits it. At the end of a clean shutdown there are no walks, so the list
  of every module that was visited is empty; of those that were not, the one that was decorated last
  would still be counted by a list of another of them, so there are none: `NothingLeftBehind`.

`Refinement` proves `Spec => KeepsContract`: initial states map to initial states, and every step to
an abstract create, break, start or destroy, or to a stutter.

### The runner and the entry points

`IInv` says that the run has ended exactly when `shutdown()` was called, that a signal that
occurred has ended it, that the method runs only after a startup that completed, and that a run which
its method ended had been requested to shut down. `EntryIInv`
keeps it where the runner is used, and says of a static method that it touches nothing of the
runner's, calls `shutdown()` only behind the method, and keeps its exception. `TasksAreDone` rests on
the chain of tasks: a link settles only when those before it have, by induction on its place
(`WellFoundedInduction`). `RunnerRefinement` shows that `EntryPoints` with the entry `"runner"` is
`ApplicationRunner`, so the theorems about it are theorems about both.

### The scanner, invocations, requests and events

`ScanFindsAll` says that the loop of `scanModule()` finds exactly the annotated methods that can be
reached, in any finite graph, with or without cycles. `Visiting` is defined by recursion on
what is left on the stack, and nothing about it can be proved before it is known that the loop
ends: each turn visits a module or shortens the stack, so the pairs of "modules not visited" and
"length of the stack" descend, and a set of places without an end has a least one, which is a
contradiction (`Smallest`, `LoopEnds`). With that there is exactly one scan from every place
(`ScansAgree`, `ScansExist`, `VisitingDef`), and `VisitingIsRight` shows by the same argument that it is
closed under "requires" and contains nothing unreachable.

`InvokerIInv` says that a level runs only below levels that called `next()`, that what those provide
is in the session, and that a level that runs below one that has settled has an unawaited call of
`next()` between them. `NothingMissing` follows from it and `Buildable`. `HttpServer`'s `IInv` relates
each answer to the state its invocation came to, and the server's states to the promises of the
hooks; `EventBus`'s says of each event that the subscribers due for it were fixed when it was
announced, and that an acknowledgement waited for is settled. Both need `ScanFindsAll`, where they
say that every declared method is reached.

### The container

`OneInstance` and `RightArguments` are about stacks that grow by the code of one class after
another, in any set of bindings: also with cycles, aliases and temporary bindings, and whether or not
they were validated. Two invariants carry them, both about sessions in which no call has thrown.

* `MachineInv`, of the instructions. A stack is made of frames: from each `BUILD` to the next there
  is what is left of the code of one class (`Leftover`), and the plan that was above it is what the
  next class is built for (`BuiltFor`). No class that is to be built is in a cache (`Pending`). That
  is not inductive by itself: when an instance is cached, the same class may be due once more
  further down. It is so only when the class needs itself, and then the lower frame has done at
  least as many of its plans as the upper one (`Ahead`): when the upper one comes to the plan at
  which the lower one was left, the class that plan is for is still in no cache, and its code is
  pushed once more. Such a resolution is endless. A `BUILD` on top, though, is of a frame that is
  done, and so of a class that is due once (`PopBuild`). What was built is in the cache of its scope
  (`CachedInv`), and what is in a cache is not pushed to be built, hence `OneInstance`.
* `ArgumentsInv`, of the values. Each instruction has an effect on a stack of demands (what is asked
  of a value: id, optional, transformed): a plan adds one, a transformation changes the last, a
  `BUILD` takes those of its parameters and leaves one for its class. `TraceInv` says that what is
  left of the instructions leads from demands that the values on the stack meet to the one demand
  of the call. The code of a class has the effect of one plan (`CodeTraced`: by the places of
  its parameters), so putting it in the place of the plan changes nothing (`TraceJoin`).

These two are defined with their proofs, in `Container_proofs`, and so is the third.

`AcceptedResolves` is about what a validation is worth: a `validate()` that has returned, which took
over what earlier ones had found before some of the bindings were made, and a later call that finds
a dependency unbound or does not end. The argument has four parts.

* *The search is defined.* `Visit` calls itself in a loop of its own. Each call lengthens its path by
  an id that is not on it, so it has less room left (`LessRoom`), and there are the functions that
  are right for all calls with at most so much room; the least room for which there is none is
  refuted (`VisitsExist`, `VisitIs`). A loop is an iteration in the same way (`RoundsExist`), and a
  step that every round keeps is kept by the loop (`RoundsKeep`).
* *What it records is sound.* The ids a search is done with can be ranked, each above all that it
  needs up to the parameter at which the search left its loop (`Ranks`, `LookedAt`). That is what
  "no cycle" comes to, in a form that stays true when more is bound and more is validated
  (`LookedStays`, `SoundFinish`). `Promise` says what a visit may do to a verdict: what was done stays
  done, the places at which the search left ids that are done stay recorded, new ones belong to ids
  that are done afterwards, soundness is kept, and the id of the visit is known unless the visit
  rejects. That every visit keeps its promise is proved by a call with the longest path among
  those that do not (`ParamsPromise`, `VisitPromises`); `ValidateFinds` carries it through the loop of `validate()`.
* *The invariant.* `FoundInv`: what was recorded is sound. `Succeeding`: in a session in which no
  call has thrown, while the last validation is to be trusted, the call that runs has only plans on
  its stack that are known or optional and unbound, and above a plan for an id of rank r there is
  room for r more codes (`Shallow`). So a plan that is performed leaves a stack that is shallow
  again (`PushShallow`), and none outgrows `MaxDepth`. What a plan finds is settled by `ChaseSettles`:
  a chain of aliases goes down the ranks.
* *The excuse.* `Overlooked`, with which the property excuses a call, is not stable: a new validation
  visits an id again and forgets where it had stopped. `Misses`, which the invariant has in its place,
  asks in addition that the id was validated, and such an id is not visited again.

The chain of aliases is an iteration of a function (`Iterate`), and the recursion that defines it has
a solution by the least place at which there would be none (`Smallest`, `Iteration`); that a link
stays inside the set of aliases of an id, and that new bindings take none away, is said of two
iterations side by side (`IteratesRelate`).

### The consumer

`WorkerInv` says of each partition that all up to the resolved offset is consumed, that the committed
one is not ahead of the resolved one, and at which message the worker stands in each phase. For
every number of partitions, messages and lengths of batches `NothingLost` follows, and the action
property that an interrupted worker has committed what it resolved.

### The producers

`ProducerIInv` has two parts. Always: a pool has one borrower, its transaction is the same for
all, and the head of `allMessageSend` that commits or releases has failed (`LinkIsRight`). And
while nobody was released early and no commit has failed (`Quiet`): a producer that is not active
has only messages under way (`Resting`), all of which are in the chain, and whoever took `onRelease`
waits for the whole chain (`Awaited`); an open transaction has an owner and an ending one somebody
who ends it (`SessionIsRight`). A step of one producer leaves the others alone (`StepOf`), so one
lemma per action about its own producer is enough. With two failures the property was false of an
earlier form of the model, whose `early` overlooked the second failed batch described in section 2;
the attempt at the proof showed it.

### The upload's ring

The invariant is about positions: between head and tail lie the bytes that follow the `Read` first
ones (`RingInv`), partition p of the chain was taken PartLimit·(p − 1) behind the head, in this
round of the ring or in the one before (`QueueInv`), the checksums are sums of those bytes, and
what is stored is the file from its beginning, in full partitions but the last (`StoredInv`).
`PhaseInv` says who waits behind what. It holds for every length of the buffer and every limit, also
for a partition as long as the ring. The lemmas before it are its arithmetic (`Round`, `RoundOf`,
`Division`, `TakenFits`, …): an index below two rounds, and what `Taken` may take.

### The multipart stream

`ChainInv` says that what is left of the chain are the pushes of the last parts in their order,
`GateInv` that a gate is shut for exactly one value and that only calls of `abort()` are resumed while
it is, `StateInv` whom each state of the queue waits for, and `DeliveryInv` that an open queue has
returned from one push more than was received exactly while its gate is shut. The assertions of the
queue are met (`AssertionsHold`), the one of `next()` but for a reader that lost a file, which is what
`FailureInv` says; and `StreamIsKept` maps every step to one of `EntryStream`: a part
arrives in its place, or the stream ends, or nothing changes.

### The storages

`StoragesIInv` is a part for the promises all storages share and one part for each.

* `MemoryInv`: in the buffer of each file, one step of the growth is at least sixteen bytes until the
  buffer has all it may have (`Roomy`), so chunks no longer than that always find room (`GrowFits`),
  for every size limit.
* `DiskInv`: each step of saving has its handle and its file (`StepIsRight`); until `clean()` what was
  saved is open and an entry; from then on what is left of a file that was not late is among the
  entries `clean()` has still to do or could not be closed or removed (`OnTimeSettled`). When the last
  entry is done with, `rmdir()` finds an empty directory unless there is such a file or a late one, and
  `clean()` has rejected only if there is, or if the directory could not be made or removed
  (`SweepIsRight`). A failed entry keeps all this although `clean()` rejects before the others are
  done with (`EntryFailsKeeps`).
* `S3Inv`: the tags are those of the parts in order, without the one under way, and an upload that
  exists is being saved, aborted, abandoned or late.

### What is only model-checked

* Liveness is out of this prover's reach: `ShutdownSettles`, `EndedRunExits`, `RequestIsKept`,
  `CleanBodyIsRead`, `UploadEnds`, `StopSettles`, `PublishSettles`, `StopIsKept`, `FailureReported`,
  `ReleasedIsReturned`.
* Induction over data has no rule here. The recursions of the models (`Visiting`, `Visit`, `Rounds`,
  `Iterate`) are reasoned about by a least place, or a longest path, at which something fails instead.

Every safety property of the runs is a theorem. Preparing the proof of `AcceptedResolves` showed an
earlier form of it to be false: an id that is asked for twice, first as an optional parameter, hides
what comes between (`utils.ts:50`), and `Overlooked` did not say so. The run has programs with such
a class.

## 6. Disagreements between code and text

Two of them are runs in which TLC finds the property violated; `PROJECT.json` (`findings`) quotes
both sides.

* `release_returns` – *it will be returned to the pool or disconnected*
  (`kafkajs-standalone/src/types.ts:41`): a `sendMessage()` that fails calls `internalRelease()` from
  inside `allMessageSend`, and then waits for it (`base-message-producer.ts:75`). The connection never
  goes back, and `release()` resolves at once.
* `memory_content` – *the content is what was sent* (`multipart/tests/in-memory-storage.spec.ts`): the
  buffer grows by one step for a chunk of any length (`in-memory-storage.ts:64`), and what does not fit
  is cut off in silence.

The models show thirteen more. Each is why a property above carries a premise or an exception:

* `module-instance.ts:210` – *all `@OnModuleStop` hooks are invoked before the app exits*
  (`website/docs/module/entry-point.md:52-53`): `#performStop` returns before it asks its dependencies
  when its own module did not start, so a module that started below one that did not is never
  stopped. `NothingLeftBehind` speaks of stopped modules after an orderly start only.
* `entry-module.ts:141` – what a module requires is available when it is destroyed
  (`website/docs/module/defining-modules.md:140-143`): the clean-up after a failed creation takes a
  reference off each dependency and leaves it in the list, so the later shutdown takes it off again.
  `DependentsDestroyedFirst` is about start-ups in which no creation failed.
* `entry-module.ts:141` again – the clean-up after a failed creation stops at the first `destroy()`
  that rejects, with dependencies taken from the lists and not destroyed. The later `shutdown()` finds
  the lists consumed and resolves, although modules were created and never destroyed. The first part
  of `NothingLeftBehind` therefore holds when no creation or no `destroy()` has failed.
* `async-iterable-queue.ts:108` – `abort()` throws "BUG: Unreachable": it and a push await the same
  promise, and resume one behind the other. `AssertionsHold` is about the other assertions.
* `async-iterable-queue.ts:163` – `next()` throws "BUG: Invalid State": a file that cannot be stored
  while the reader awaits its push rejects the reader's promise although nothing has closed the queue,
  and the reader gets this error in the place of the storage's. `AssertionsHold` says that it happens in
  no other case.
* `disk-storage.ts:115` – `Promise.all` rejects `clean()` with the first handle or file that cannot be
  closed or removed, while other entries are still open, and the directory stays, although
  *the uploaded files should be removed when cleaning up* (`:17`). `NothingLeftOver` asks for
  everything else once all entries are done with.
* `async-iterable-queue.ts:178` – *a promise that resolves to true … or false* (`:53`): when a stored
  file fails, the gate stays shut, and the next push, the chain and the cleanup that awaits it
  never settle. `CleanBodyIsRead` assumes that every file is stored.
* `application-runner.ts:58`, `:170` – `forcedExitWhenRepeated` is read nowhere: any repeated signal
  forces the exit, as `SignalOccurs` does.
* `application-runner.ts:123`, `:187` – `ProcessManager.shutdown(e)` emits `errorExitOption`, but what
  `main` resolves with is mapped to `normalExitOption`, so the process exits with the normal code.
  `NormalExitIsExplained` admits a request with an error.
* `application-runner.ts:147` – *once the control-flow leaves `main` the framework will destroy all
  components and exit* (`entry-point.md:27-28`): the runner waits for `ProcessManager.shutdown()` or a
  signal. `EndedRunExits` begins when the run has ended.
* `upload-stream.ts:112` – *larger than this size must be uploaded using partitioned upload*
  (`remote-storage-adaptor.ts:19-20`): a file between the two limits goes into one simple upload.
* `resolve-session.ts:104` – a singleton that a session with a temporary binding is the first to need
  is built from that binding and keeps it for all sessions; `container/tests/index.test.ts:435`
  expects otherwise and resolves the singleton first. `RightArguments` admits the temporary value.
* `worker-synchronizer.ts:64` – the `zip` completes with the first worker that has committed, not with
  the last (`worker-synchronizer.spec.ts:63-67`); `InterruptedIsCommitted` shows that every worker has
  committed by itself when it is interrupted.

## 7. What the models leave out

* **Lifecycle.** No `start()` after `shutdown()`: the runner's `setImmediate` can do that in the
  first turn of the process, which then exits. Hooks of one kind in one module are counted, not
  told apart; the create hooks, and the destroy hooks, of one module run one after the other and
  are one step. Binding the components, the constructor and the dynamic loader of a module belong
  to its creation step and may make it fail. `validate()` may throw and is not modelled further.
  The background tasks' end is one step here, and their chain is in `BackgroundTasks`. `requires`
  without cycles: the code recurses for ever on a cycle.
* **Runner.** Warnings and logging. `onExit` exits the process, as its default does. Exit options
  appear as their codes.
* **Multipart.** The handler passed to `read()` is not used by the code either. Names, values and
  content types of parts do not matter to any property: a part is its number. A storage is a
  promise that settles. One push at a time, as the chain makes sure. `setOnClose` of the queue is
  called by nobody. The parser emits nothing after an error.
* **Upload.** The storage reads a partition to its end before it answers. The pipeline does not
  destroy the stream while `_final` runs. Checksums are the bytes they are calculated of.
* **Storages.** Reading a saved file back; what busboy does to the stream of a file (a file that is
  cut at `fileSizeLimit` is stored as whole). They are not composed with `Multipart`: files come
  and `clean()` begins at any moment instead, and a file may still come behind it.
* **Invocations.** Several calls of `next()` by one middleware are modelled one after the other: it
  calls again only when nothing runs below it any more. Calls of one level that overlap
  (`Promise.all([next(), next()])`) run a level twice at once, and no module has a state for that.
  A chain that `createMethodInvoker()` refuses is left out for the HTTP server and the consumers, whose
  start then fails before anything is served.
* **Container.** Factories that call the container back; `createMethodInvoker`, which is in
  `MethodInvoker`.
* **HTTP.** Parameters, paths and verbs: a request has the mapped method it is for. Two controllers
  with one path. The configuration of Koa, beyond that its middlewares may answer. Each request has
  a connection of its own. Early answers are given at once.
* **Scanner and events.** A component that two modules list is found twice; the instances have
  none. Each event is published once. `matchLabels` as a function.
* **Consumer and producers.** KafkaJS is external: its retries, its heartbeats outside the batch,
  sessions that time out. Pools of more than one connection, and their timeouts.
* **Entry points.** `run()` and `start()` hang when hooks or tasks do, and no progress is claimed for
  them. A task may throw, settle or hang; the unhandled rejection that a rejected chain also is
  appears to the runner as the uncaught error that may occur at any moment.
* **Not modelled at all.** `StreamLogTransport`: writers that wait for a drain resume one after the
  other, and later calls of `write()` may come between them; its hazards are of ordering and would
  be the next module. Decorators and metadata: declarations, evaluated before anything runs.
  Configuration, the testing helpers, the zstd codec and the small utilities: thin wrappers without state.

## 8. The plan

All safety properties that the runs check have a theorem; what is left to TLC is liveness.

Of the models, `StreamLogTransport` would follow, and a session of the container that goes on with
`ResolveSession.invoke()`.
