---------------------------- MODULE Kafka_proofs ----------------------------
(***************************************************************************)
(* Proofs of the safety properties of MessageConsumer and MessageProducer. *)
(***************************************************************************)
EXTENDS MessageConsumer, MessageProducer, TLAPS

(* The states of a synchronizer.                                           *)
SyncState == {"none", "subscribed", "called", "released"}

(* The state of the worker of one partition, types and offsets.            *)
WorkerOK(p) ==
  /\ phase[p] \in Phase /\ sync[p] \in SyncState
  /\ (phase[p] \in {"idle", "whole"}) <=> (sync[p] = "none")
  /\ at[p] \in Nat /\ upto[p] \in Nat
  /\ phase[p] # "idle" => at[p] <= upto[p] + 1 /\ upto[p] <= Messages
  /\ committed[p] \in 0 .. Messages /\ resolved[p] \in 0 .. Messages
  /\ consumed[p] \subseteq 1 .. Messages
  /\ WorkerInv(p)

(* The variables of the workers are functions of the partitions.           *)
Functions ==
  /\ phase = [p \in Partition |-> phase[p]] /\ sync = [p \in Partition |-> sync[p]]
  /\ at = [p \in Partition |-> at[p]] /\ upto = [p \in Partition |-> upto[p]]
  /\ committed = [p \in Partition |-> committed[p]]
  /\ resolved = [p \in Partition |-> resolved[p]]
  /\ consumed = [p \in Partition |-> consumed[p]]

Workers == Functions /\ \A p \in Partition : WorkerOK(p)

LifeOK ==
  /\ consumer \in {"idle", "starting", "running", "stopping", "stopped", "crashed"}
  /\ starting \in {"none", "pending", "fulfilled", "rejected", "refused"}
  /\ stopping \in {"none", "pending", "fulfilled", "rejected"}
  /\ inFlight \in {"none", "rebalance", "stop"}

(* The invariant, as the proofs take it.                                   *)
LEMMA IInvDef == IInv <=> LifeOK /\ Workers
<1>1. IInv => LifeOK /\ Workers
  <2>. SUFFICES ASSUME IInv PROVE LifeOK /\ Workers
    OBVIOUS
  <2>1. LifeOK
    BY DEF IInv, TypeOK, LifeOK
  <2>2. Functions
    BY DEF IInv, TypeOK, Functions
  <2>3. \A p \in Partition : WorkerOK(p)
    BY DEF IInv, TypeOK, WorkerOK, SyncState
  <2>. QED
    BY <2>1, <2>2, <2>3 DEF Workers
<1>2. LifeOK /\ Workers => IInv
  <2>. SUFFICES ASSUME LifeOK, Workers PROVE IInv
    OBVIOUS
  <2>1. /\ phase \in [Partition -> Phase] /\ sync \in [Partition -> SyncState]
        /\ at \in [Partition -> Nat] /\ upto \in [Partition -> Nat]
        /\ committed \in [Partition -> 0 .. Messages] /\ resolved \in [Partition -> 0 .. Messages]
        /\ consumed \in [Partition -> SUBSET (1 .. Messages)]
    BY DEF Workers, Functions, WorkerOK
  <2>. QED
    BY <2>1 DEF IInv, TypeOK, LifeOK, Workers, WorkerOK, SyncState
<1>. QED
  BY <1>1, <1>2

(* The same, of the state after a step.                                    *)
LEMMA IInvNext == LifeOK' /\ Workers' => IInv'
  BY IInvDef, PTL

(* The initial states satisfy the invariant.                               *)
LEMMA InvInit == Init => IInv
<1>. SUFFICES ASSUME Init PROVE IInv
  OBVIOUS
<1>1. Messages \in Nat
  BY ConsumerAssumption
<1>. QED
  BY <1>1 DEF Init, IInv, TypeOK, Phase, WorkerInv

-----------------------------------------------------------------------------
(* Synchronizations move workers between "subscribed", "called" and        *)
(* "released" only.                                                        *)

SyncKept ==
  /\ sync' = [p \in Partition |-> sync'[p]]
  /\ \A p \in Partition : sync'[p] \in SyncState /\ (sync'[p] = "none" <=> sync[p] = "none")
  /\ inFlight' \in {"none", "rebalance", "stop"}

(* A rebalance and a stop ask the workers to synchronize.                  *)
LEMMA SynchronizeKeeps ==
  ASSUME IInv, NEW what \in {"rebalance", "stop"}, Synchronize(what)
  PROVE  SyncKept
  BY DEF IInv, TypeOK, Synchronize, Fire, SyncKept, SyncState

(* A worker completes its observable: the synchronization fires, if one is *)
(* under way.                                                              *)
LEMMA CompleteKeeps ==
  ASSUME IInv, NEW p \in Partition, Complete(p)
  PROVE  SyncKept
  BY DEF IInv, TypeOK, Complete, Fire, SyncKept, SyncState

(* What is not a step of a worker leaves the rows of all workers, but for  *)
(* a synchronization that moves them.                                      *)
LEMMA QuietStep ==
  ASSUME IInv, SyncKept \/ sync' = sync, UNCHANGED <<phase, at, upto, offsetVars>>
  PROVE  Workers'
<1>1. Workers /\ UNCHANGED <<phase, at, upto, resolved, committed, consumed>>
  BY IInvDef DEF offsetVars
<1>2. /\ sync' = [p \in Partition |-> sync'[p]]
      /\ \A p \in Partition : sync'[p] \in SyncState /\ (sync'[p] = "none" <=> sync[p] = "none")
  BY <1>1 DEF SyncKept, Workers, Functions, WorkerOK
<1>. QED
  BY <1>1, <1>2 DEF Workers, Functions, WorkerOK, WorkerInv

(* The steps of start(), stop(), wait() and the group, up to the rejoin.   *)
LEMMA LifeStep ==
  ASSUME IInv,
         Start \/ StartRefused \/ RunBegins \/ StartSettles \/ RaceRejects \/ Stop
           \/ ConsumerStops \/ StopSettles \/ Crash \/ RebalanceBegins
  PROVE  IInv' /\ UNCHANGED <<phase, offsetVars>>
<1>. USE DEF lifeVars, watchVars, countVars
<1>1. UNCHANGED <<phase, at, upto, offsetVars>>
  BY DEF Start, StartRefused, RunBegins, StartSettles, RaceRejects, Stop, ConsumerStops,
         StopSettles, Crash, RebalanceBegins
<1>2. LifeOK
  BY IInvDef
<1>3. CASE Stop
  <2>1. SyncKept
    BY <1>3, SynchronizeKeeps DEF Stop
  <2>2. LifeOK'
    BY <1>2, <1>3, <2>1 DEF LifeOK, Stop, SyncKept
  <2>. QED
    BY <1>1, <2>1, <2>2, QuietStep, IInvNext
<1>4. CASE ~Stop
  <2>1. sync' = sync /\ inFlight' = inFlight
    BY <1>4 DEF Start, StartRefused, RunBegins, StartSettles, RaceRejects, ConsumerStops,
           StopSettles, Crash, RebalanceBegins
  <2>2. /\ consumer' \in {consumer, "starting", "running", "stopping", "stopped", "crashed"}
        /\ starting' \in {starting, "pending", "fulfilled", "rejected", "refused"}
        /\ stopping' \in {stopping, "fulfilled", "rejected"}
    BY <1>4 DEF Start, StartRefused, RunBegins, StartSettles, RaceRejects, ConsumerStops,
           StopSettles, Crash, RebalanceBegins
  <2>3. LifeOK'
    BY <1>2, <2>1, <2>2 DEF LifeOK
  <2>. QED
    BY <1>1, <2>1, <2>3, QuietStep, IInvNext
<1>. QED
  BY <1>3, <1>4, <1>1

-----------------------------------------------------------------------------
(* The steps of one worker.                                                *)

(* Nothing of the worker q changes but where its synchronizer is.          *)
Untouched(q) ==
  /\ phase'[q] = phase[q] /\ at'[q] = at[q] /\ upto'[q] = upto[q]
  /\ resolved'[q] = resolved[q] /\ committed'[q] = committed[q] /\ consumed'[q] = consumed[q]
  /\ sync'[q] \in SyncState /\ (sync'[q] = "none" <=> sync[q] = "none")

(* A step of one worker keeps the invariant if that of its row is kept.    *)
LEMMA OneWorker ==
  ASSUME IInv, NEW p \in Partition, Functions', WorkerOK(p)',
         \A q \in Partition \ {p} : Untouched(q)
  PROVE  Workers'
<1>1. ASSUME NEW q \in Partition, q # p PROVE WorkerOK(q)'
  <2>1. WorkerOK(q) /\ Untouched(q)
    BY <1>1, IInvDef DEF Workers
  <2>. QED
    BY <2>1 DEF WorkerOK, WorkerInv, Untouched
<1>. QED
  BY <1>1 DEF Workers

(* A batch that fails is over, and what is committed is resolved.          *)
LEMMA BatchFailsKeeps ==
  ASSUME IInv, NEW p \in Partition, BatchFails(p)
  PROVE  IInv'
<1>. USE DEF BatchFails, GoTo, Detach
<1>1. LifeOK /\ Functions /\ \A q \in Partition : WorkerOK(q)
  BY IInvDef DEF Workers
<1>2. LifeOK'
  BY <1>1 DEF LifeOK
<1>3. Functions'
  BY <1>1 DEF Functions
<1>4. WorkerOK(p)'
  BY <1>1 DEF Functions, WorkerOK, WorkerInv, Phase, SyncState
<1>5. \A q \in Partition \ {p} : Untouched(q)
  BY <1>1 DEF Functions, WorkerOK, Untouched
<1>. QED
  BY <1>2, <1>3, <1>4, <1>5, OneWorker, IInvNext

(* A batch comes only for a worker that is idle, behind what is resolved.  *)
LEMMA FetchKeeps ==
  ASSUME IInv, NEW p \in Partition, Fetch(p)
  PROVE  IInv' /\ UNCHANGED offsetVars /\ phase[p] = "idle"
<1>. USE DEF Fetch, GoTo, CreateSynchronizer, Busy
<1>1. LifeOK /\ Functions /\ \A q \in Partition : WorkerOK(q)
  BY IInvDef DEF Workers
<1>2. UNCHANGED <<consumer, starting, stopping, inFlight, resolved, committed, consumed>>
  BY DEF lifeVars, offsetVars
<1>3. LifeOK'
  BY <1>1, <1>2 DEF LifeOK
<1>4. phase'[p] \in {"consuming", "whole"} /\ (phase'[p] = "consuming" <=> sync'[p] = "subscribed")
      /\ (phase'[p] = "whole" <=> sync'[p] = "none")
  BY <1>1 DEF Functions, WorkerOK
<1>5. /\ at'[p] = resolved[p] + 1 /\ at'[p] <= upto'[p]
      /\ at'[p] \in Nat /\ upto'[p] \in Nat /\ upto'[p] <= Messages
  BY <1>1, ConsumerAssumption DEF Functions, WorkerOK
<1>6. Functions'
  BY <1>1, <1>2 DEF Functions
<1>7. WorkerOK(p)'
  BY <1>1, <1>2, <1>4, <1>5 DEF WorkerOK, WorkerInv, Phase, SyncState
<1>8. \A q \in Partition \ {p} : Untouched(q)
  BY <1>1, <1>2 DEF Functions, WorkerOK, Untouched
<1>. QED
  BY <1>1, <1>3, <1>6, <1>7, <1>8, OneWorker, IInvNext

(* A batch ends, after a commit or without one.                            *)
LEMMA EndBatchKeeps ==
  ASSUME IInv, NEW p \in Partition, EndBatch(p),
         \E c \in {committed[p], resolved[p]} : committed' = [committed EXCEPT ![p] = c],
         UNCHANGED <<resolved, consumed>>
  PROVE  IInv'
<1>. USE DEF EndBatch, GoTo, Detach
<1>1. LifeOK /\ Functions /\ \A q \in Partition : WorkerOK(q)
  BY IInvDef DEF Workers
<1>2. LifeOK'
  BY <1>1 DEF LifeOK
<1>3. Functions'
  BY <1>1 DEF Functions
<1>4. WorkerOK(p)'
  BY <1>1 DEF Functions, WorkerOK, WorkerInv, Phase, SyncState
<1>5. \A q \in Partition \ {p} : Untouched(q)
  BY <1>1 DEF Functions, WorkerOK, Untouched
<1>. QED
  BY <1>2, <1>3, <1>4, <1>5, OneWorker, IInvNext

(* A worker goes on within its batch: its phase, its message and what is   *)
(* resolved, consumed or committed fit, and synchronizers are moved at most*)
LEMMA WorkerGoesOn ==
  ASSUME IInv, NEW p \in Partition, NEW ph \in Phase \ {"idle", "whole"},
         phase[p] \notin {"idle", "whole"}, GoTo(p, ph),
         SyncKept \/ (sync' = sync /\ inFlight' = inFlight),
         UNCHANGED <<consumer, starting, stopping, at, upto, resolved, consumed>>,
         \E c \in {committed[p], resolved[p]} : committed' = [committed EXCEPT ![p] = c],
         at[p] = resolved[p], ph # "consuming",
         ph = "awaiting" => committed'[p] = resolved[p]
  PROVE  IInv'
<1>. USE DEF GoTo
<1>1. LifeOK /\ Functions /\ \A q \in Partition : WorkerOK(q)
  BY IInvDef DEF Workers
<1>2. LifeOK'
  BY <1>1 DEF LifeOK, SyncKept
<1>3. Functions'
  BY <1>1 DEF Functions, SyncKept
<1>4. \A q \in Partition : sync'[q] \in SyncState /\ (sync'[q] = "none" <=> sync[q] = "none")
  BY <1>1 DEF SyncKept, WorkerOK
<1>5. WorkerOK(p)'
  BY <1>1, <1>4 DEF Functions, WorkerOK, WorkerInv, Phase
<1>6. \A q \in Partition \ {p} : Untouched(q)
  BY <1>1, <1>4 DEF Functions, Untouched
<1>. QED
  BY <1>2, <1>3, <1>5, <1>6, OneWorker, IInvNext

(* The consumer callback has returned for the message the worker is at.    *)
LEMMA ConsumeKeeps ==
  ASSUME IInv, NEW p \in Partition, Consume(p)
  PROVE  IInv'
<1>1. LifeOK /\ Functions /\ \A q \in Partition : WorkerOK(q)
  BY IInvDef DEF Workers
<1>2. CASE BatchFails(p)
  BY <1>2, BatchFailsKeeps
<1>3. CASE ~BatchFails(p)
  <2>. USE <1>3 DEF Consume, GoTo
  <2>1. UNCHANGED <<consumer, starting, stopping, inFlight, at, upto, sync, committed>>
    BY DEF lifeVars
  <2>2. LifeOK'
    BY <1>1, <2>1 DEF LifeOK
  <2>3. Functions'
    BY <1>1, <2>1 DEF Functions
  <2>4. /\ phase[p] = "consuming" /\ phase'[p] = "committing"
        /\ resolved'[p] = at[p] /\ consumed'[p] = consumed[p] \cup {at[p]}
    BY <1>1 DEF Functions
  <2>5. WorkerOK(p)'
    <3>1. at[p] \in 1 .. Messages /\ 1 .. at[p] = 1 .. resolved[p] \cup {at[p]}
      BY <1>1, <2>4, ConsumerAssumption DEF WorkerOK, WorkerInv
    <3>. QED
      BY <1>1, <2>1, <2>4, <3>1 DEF WorkerOK, WorkerInv, Phase
  <2>6. \A q \in Partition \ {p} : Untouched(q)
    BY <1>1, <2>1 DEF Functions, WorkerOK, Untouched
  <2>. QED
    BY <2>2, <2>3, <2>5, <2>6, OneWorker, IInvNext
<1>. QED
  BY <1>2, <1>3

(* The commit after a call of the consumer, if it is due.                  *)
LEMMA AfterConsumerKeeps ==
  ASSUME IInv, NEW p \in Partition, AfterConsumer(p)
  PROVE  IInv'
<1>1. WorkerOK(p)
  BY IInvDef DEF Workers
<1>2. CASE BatchFails(p)
  BY <1>2, BatchFailsKeeps
<1>3. CASE ~BatchFails(p)
  <2>1. /\ phase[p] = "committing" /\ GoTo(p, "heartbeat")
        /\ UNCHANGED <<consumer, starting, stopping, at, upto, sync, inFlight, resolved, consumed>>
        /\ \E c \in {committed[p], resolved[p]} : committed' = [committed EXCEPT ![p] = c]
    BY <1>3 DEF AfterConsumer, CommitIfNecessary, lifeVars
  <2>2. at[p] = resolved[p]
    BY <1>1, <2>1 DEF WorkerOK, WorkerInv
  <2>. QED
    BY <2>1, <2>2, WorkerGoesOn DEF Phase
<1>. QED
  BY <1>2, <1>3

(* Nothing is committed: the offsets stay as they are.                     *)
LEMMA SameCommitted ==
  ASSUME IInv, NEW p \in Partition, committed' = committed
  PROVE  \E c \in {committed[p], resolved[p]} : committed' = [committed EXCEPT ![p] = c]
<1>1. committed' = [committed EXCEPT ![p] = committed[p]]
  BY DEF IInv, TypeOK
<1>. QED
  BY <1>1

(* A heartbeat moves no offset.                                            *)
LEMMA HeartbeatKeeps ==
  ASSUME IInv, NEW p \in Partition, Heartbeat(p)
  PROVE  IInv' /\ UNCHANGED committed
<1>1. WorkerOK(p)
  BY IInvDef DEF Workers
<1>2. /\ phase[p] = "heartbeat" /\ GoTo(p, "checking")
      /\ UNCHANGED <<consumer, starting, stopping, at, upto, resolved, committed, consumed>>
  BY DEF Heartbeat, offsetVars
<1>3. SyncKept \/ (sync' = sync /\ inFlight' = inFlight)
  <2>1. Synchronize("rebalance") \/ (sync' = sync /\ inFlight' = inFlight)
    BY DEF Heartbeat
  <2>. QED
    BY <2>1, SynchronizeKeeps
<1>4. at[p] = resolved[p]
  BY <1>1, <1>2 DEF WorkerOK, WorkerInv
<1>. QED
  BY <1>2, <1>3, <1>4, SameCommitted, WorkerGoesOn DEF Phase

(* checkSynchronized() moves no offset.                                    *)
LEMMA CheckKeeps ==
  ASSUME IInv, NEW p \in Partition, Check(p)
  PROVE  IInv' /\ UNCHANGED committed
<1>1. WorkerOK(p)
  BY IInvDef DEF Workers
<1>2. /\ phase[p] = "checking" /\ (GoTo(p, "finishing") \/ GoTo(p, "forcing"))
      /\ UNCHANGED <<consumer, starting, stopping, at, upto, resolved, committed, consumed, sync, inFlight>>
  BY DEF Check, offsetVars, lifeVars
<1>3. at[p] = resolved[p]
  BY <1>1, <1>2 DEF WorkerOK, WorkerInv
<1>. QED
  BY <1>2, <1>3, SameCommitted, WorkerGoesOn DEF Phase

(* The commit before the synchronization is forced.                        *)
LEMMA ForceCommitKeeps ==
  ASSUME IInv, NEW p \in Partition, ForceCommit(p)
  PROVE  IInv'
<1>1. WorkerOK(p)
  BY IInvDef DEF Workers
<1>2. CASE BatchFails(p)
  BY <1>2, BatchFailsKeeps
<1>3. CASE ~BatchFails(p)
  <2>1. /\ phase[p] = "forcing" /\ GoTo(p, "awaiting") /\ Complete(p)
        /\ UNCHANGED <<consumer, starting, stopping, at, upto, resolved, consumed>>
        /\ committed' = [committed EXCEPT ![p] = resolved[p]]
    BY <1>3 DEF ForceCommit
  <2>2. at[p] = resolved[p]
    BY <1>1, <2>1 DEF WorkerOK, WorkerInv
  <2>3. committed'[p] = resolved[p]
    BY <2>1 DEF IInv, TypeOK
  <2>. QED
    BY <2>1, <2>2, <2>3, CompleteKeeps, WorkerGoesOn DEF Phase
<1>. QED
  BY <1>2, <1>3

(* A batch that a synchronization cuts short.                              *)
LEMMA InterruptedKeeps ==
  ASSUME IInv, NEW p \in Partition, Interrupted(p)
  PROVE  IInv' /\ UNCHANGED <<resolved, committed, consumed>>
<1>1. EndBatch(p) /\ UNCHANGED <<resolved, committed, consumed>>
  BY DEF Interrupted, offsetVars
<1>. QED
  BY <1>1, SameCommitted, EndBatchKeeps

(* The next message of the batch, or its end.                              *)
LEMMA FinishKeeps ==
  ASSUME IInv, NEW p \in Partition, Finish(p)
  PROVE  IInv'
<1>1. LifeOK /\ Functions /\ \A q \in Partition : WorkerOK(q)
  BY IInvDef DEF Workers
<1>2. CASE BatchFails(p)
  BY <1>2, BatchFailsKeeps
<1>3. CASE ~BatchFails(p) /\ at[p] = upto[p]
  <2>1. /\ EndBatch(p) /\ UNCHANGED <<resolved, consumed>>
        /\ \E c \in {committed[p], resolved[p]} : committed' = [committed EXCEPT ![p] = c]
    BY <1>1, <1>3 DEF Finish, CommitIfNecessary, WorkerOK
  <2>. QED
    BY <2>1, EndBatchKeeps
<1>4. CASE ~BatchFails(p) /\ at[p] # upto[p]
  <2>1. /\ phase[p] = "finishing" /\ at[p] < upto[p]
        /\ phase' = [phase EXCEPT ![p] = "consuming"] /\ at' = [at EXCEPT ![p] = @ + 1]
        /\ UNCHANGED <<consumer, starting, stopping, inFlight, upto, sync, resolved, consumed>>
        /\ \E c \in {committed[p], resolved[p]} : committed' = [committed EXCEPT ![p] = c]
    BY <1>4 DEF Finish, CommitIfNecessary, GoTo, lifeVars
  <2>2. LifeOK'
    BY <1>1, <2>1 DEF LifeOK
  <2>3. Functions'
    BY <1>1, <2>1 DEF Functions
  <2>4. WorkerOK(p)'
    BY <1>1, <2>1 DEF Functions, WorkerOK, WorkerInv, Phase, SyncState
  <2>5. \A q \in Partition \ {p} : Untouched(q)
    BY <1>1, <2>1 DEF Functions, WorkerOK, Untouched
  <2>. QED
    BY <2>2, <2>3, <2>4, <2>5, OneWorker, IInvNext
<1>. QED
  BY <1>2, <1>3, <1>4

(* A method that takes the whole batch resolves what it has consumed.      *)
LEMMA ConsumeWholeKeeps ==
  ASSUME IInv, NEW p \in Partition, ConsumeWhole(p)
  PROVE  IInv'
<1>1. LifeOK /\ Functions /\ \A q \in Partition : WorkerOK(q)
  BY IInvDef DEF Workers
<1>2. CASE BatchFails(p)
  BY <1>2, BatchFailsKeeps
<1>3. CASE /\ EndBatch(p) /\ UNCHANGED <<resolved, consumed>>
           /\ \E c \in {committed[p], resolved[p]} : committed' = [committed EXCEPT ![p] = c]
  BY <1>3, EndBatchKeeps
<1>4. CASE /\ at[p] <= upto[p]
           /\ consumed' = [consumed EXCEPT ![p] = @ \cup {at[p]}]
           /\ resolved' = [resolved EXCEPT ![p] = at[p]]
           /\ at' = [at EXCEPT ![p] = @ + 1]
           /\ UNCHANGED <<lifeVars, phase, upto, sync, inFlight, committed>>
  <2>1. phase[p] = "whole" /\ UNCHANGED <<consumer, starting, stopping, inFlight>>
    BY <1>4 DEF ConsumeWhole, lifeVars
  <2>2. LifeOK'
    BY <1>1, <2>1 DEF LifeOK
  <2>3. Functions'
    BY <1>1, <1>4 DEF Functions
  <2>4. WorkerOK(p)'
    <3>1. at[p] \in 1 .. Messages /\ 1 .. at[p] = 1 .. resolved[p] \cup {at[p]}
      BY <1>1, <1>4, <2>1, ConsumerAssumption DEF WorkerOK, WorkerInv
    <3>2. /\ resolved'[p] = at[p] /\ consumed'[p] = consumed[p] \cup {at[p]} /\ at'[p] = at[p] + 1
          /\ phase'[p] = "whole" /\ upto'[p] = upto[p] /\ committed'[p] = committed[p] /\ sync'[p] = sync[p]
      BY <1>1, <1>4, <2>1 DEF Functions
    <3>. QED
      BY <1>1, <1>4, <2>1, <3>1, <3>2 DEF WorkerOK, WorkerInv
  <2>5. \A q \in Partition \ {p} : Untouched(q)
    BY <1>1, <1>4 DEF Functions, WorkerOK, Untouched
  <2>. QED
    BY <2>2, <2>3, <2>4, <2>5, OneWorker, IInvNext
<1>. QED
  BY <1>2, <1>3, <1>4 DEF ConsumeWhole, CommitIfNecessary

(* A rejoin begins at the committed offsets, with no batch under way.      *)
LEMMA RejoinKeeps == IInv /\ Rejoin => IInv'
<1>. SUFFICES ASSUME IInv, Rejoin PROVE IInv'
  OBVIOUS
<1>1. LifeOK /\ Functions /\ \A q \in Partition : WorkerOK(q)
  BY IInvDef DEF Workers
<1>2. /\ UNCHANGED <<consumer, starting, stopping, inFlight, phase, at, upto, sync, committed, consumed>>
      /\ resolved' = committed /\ \A p \in Partition : phase[p] = "idle"
  BY DEF Rejoin, Busy, lifeVars
<1>3. LifeOK' /\ Functions'
  BY <1>1, <1>2 DEF LifeOK, Functions
<1>4. \A p \in Partition : WorkerOK(p)'
  BY <1>1, <1>2 DEF WorkerOK, WorkerInv
<1>. QED
  BY <1>3, <1>4, IInvNext DEF Workers

(* Every step of a worker keeps the invariant.                             *)
LEMMA WorkerStepKeeps ==
  ASSUME IInv, NEW p \in Partition, WorkerStep(p)
  PROVE  IInv'
  BY ConsumeKeeps, AfterConsumerKeeps, HeartbeatKeeps, CheckKeeps, ForceCommitKeeps,
     InterruptedKeeps, FinishKeeps, ConsumeWholeKeeps DEF WorkerStep

(* Every step of the consumer group keeps the invariant.                   *)
LEMMA InvNext == IInv /\ [Next]_vars => IInv'
<1>. SUFFICES ASSUME IInv, [Next]_vars PROVE IInv'
  OBVIOUS
<1>1. CASE UNCHANGED vars
  BY <1>1 DEF vars, lifeVars, offsetVars, IInv, TypeOK, WorkerInv
<1>. QED
  BY <1>1, LifeStep, FetchKeeps, WorkerStepKeeps, RejoinKeeps DEF Next

(* The invariant holds whatever the partitions, the batches, the failures  *)
(* and the rebalances.                                                     *)
THEOREM Invariance == Spec => []IInv
<1>. QED
  BY InvInit, InvNext, PTL DEF Spec

(* The group, its workers and their offsets stay in their types (message-  *)
(* consumer.ts).                                                           *)
THEOREM TypeCorrect == Spec => []TypeOK
<1>1. IInv => TypeOK
  BY DEF IInv
<1>. QED
  BY <1>1, Invariance, PTL

(* Nothing is lost: what is committed has been consumed.                   *)
THEOREM CommittedIsConsumed == Spec => []NothingLost
<1>1. IInv => NothingLost
  BY IInvDef DEF Workers, WorkerOK, WorkerInv, NothingLost
<1>. QED
  BY <1>1, Invariance, PTL

(* A step of one worker leaves the phases of the others.                   *)
LEMMA OthersStay ==
  ASSUME IInv, NEW p \in Partition, WorkerStep(p), NEW q \in Partition, q # p
  PROVE  phase'[q] = phase[q]
<1>1. phase \in [Partition -> Phase]
  BY DEF IInv, TypeOK
<1>2. CASE BatchFails(p)
  BY <1>1, <1>2 DEF BatchFails, GoTo
<1>3. CASE EndBatch(p)
  BY <1>1, <1>3 DEF EndBatch, GoTo
<1>4. CASE phase' = phase \/ \E ph \in Phase : GoTo(p, ph)
  BY <1>1, <1>4 DEF GoTo
<1>5. BatchFails(p) \/ EndBatch(p) \/ phase' = phase \/ \E ph \in Phase : GoTo(p, ph)
  <2>1. CASE Consume(p) \/ AfterConsumer(p)
    BY <2>1 DEF Consume, AfterConsumer, CommitIfNecessary, Phase
  <2>2. CASE Heartbeat(p) \/ Check(p)
    BY <2>2 DEF Heartbeat, Check, Phase
  <2>3. CASE ForceCommit(p) \/ Interrupted(p)
    BY <2>3 DEF ForceCommit, Interrupted, Phase
  <2>4. CASE Finish(p) \/ ConsumeWhole(p)
    BY <2>4 DEF Finish, ConsumeWhole, CommitIfNecessary, Phase
  <2>. QED
    BY <2>1, <2>2, <2>3, <2>4 DEF WorkerStep
<1>. QED
  BY <1>2, <1>3, <1>4, <1>5

(* A batch that a synchronization ends is committed up to the message      *)
(* consumed last, whatever the other workers, the group and stop() did     *)
(* between its commit and its end.                                         *)
THEOREM InterruptionCommits == Spec => InterruptedIsCommitted
<1>1. ASSUME IInv, [Next]_vars, NEW p \in Partition, phase[p] = "awaiting", phase'[p] = "idle"
      PROVE  committed'[p] = at[p] /\ resolved'[p] = at[p]
  <2>1. committed[p] = at[p] /\ resolved[p] = at[p]
    BY <1>1, IInvDef DEF Workers, WorkerOK, WorkerInv
  <2>2. CASE WorkerStep(p)
    <3>1. Interrupted(p)
      BY <1>1, <2>2 DEF WorkerStep, Consume, AfterConsumer, Heartbeat, Check, ForceCommit,
                        Finish, ConsumeWhole
    <3>. QED
      BY <1>1, <2>1, <3>1, InterruptedKeeps
  <2>3. ASSUME NEW q \in Partition, q # p, WorkerStep(q) PROVE FALSE
    BY <1>1, <2>3, OthersStay
  <2>4. ASSUME NEW q \in Partition, Fetch(q) PROVE FALSE
    BY <1>1, <2>4 DEF Fetch, GoTo, Busy, IInv, TypeOK
  <2>5. CASE Rejoin
    BY <1>1, <2>5 DEF Rejoin
  <2>6. CASE UNCHANGED vars
    BY <1>1, <2>6 DEF vars
  <2>. QED
    BY <1>1, <2>2, <2>3, <2>4, <2>5, <2>6, LifeStep DEF Next
<1>2. IInv /\ [Next]_vars =>
        [\A p \in Partition :
           phase[p] = "awaiting" /\ phase'[p] = "idle"
             => committed'[p] = at[p] /\ resolved'[p] = at[p]]_vars
  BY <1>1
<1>. QED
  BY <1>2, Invariance, PTL DEF Spec, InterruptedIsCommitted

-----------------------------------------------------------------------------
(* The producers: who holds a connection, and in which state it is.        *)

(* No message producer was released early, and no commit has failed.       *)
Quiet == \A q \in Producer : ~early[q] /\ ~commitFailed[q]

(* A producer is active from create() until somebody takes onRelease, and  *)
(* holds a connection until onRelease has been called.                     *)
Lifecycle(p) ==
  /\ active[p] <=> (p \in lent /\ waiter[p] = "none")
  /\ returned[p] => p \notin lent /\ waiter[p] # "none"
  /\ waiter[p] # "none" /\ ~returned[p] => p \in lent
  /\ early[p] => waiter[p] # "none"

(* The pool lends its connection once, and its transaction is everybody's. *)
OneBorrower == provider = "pooled" => \A p, q \in lent : p = q
OneSession == provider = "pooled" => \A p, q \in Producer : session[p] = session[q]

(* What allMessageSend does beyond its first message, which has failed.    *)
LinkIsRight(p) ==
  /\ ending[p] = "chain" => link[p] = "committing"
  /\ waiter[p] = "chain" /\ ~returned[p] => link[p] = "releasing"
  /\ link[p] \in {"committing", "releasing"} =>
       chain[p] # <<>> /\ call[p][chain[p][1]] = "failed"
  /\ link[p] = "rejected" => commitFailed[p]

Beginning(p) == \E i \in Calls : call[p][i] = "beginning"

(* Nothing of a producer that is not active is under way, but its messages.*)
Resting(p) ==
  ~active[p] => /\ \A i \in Calls : call[p][i] \notin {"sender", "beginning"}
                /\ ~tx[p] /\ ending[p] = "none"

(* Its messages are in allMessageSend, and a release waits for all of it.  *)
Awaited(p) ==
  ~returned[p] => /\ \A i \in Calls : call[p][i] \in {"sending", "doomed"} =>
                       \E k \in 1 .. Len(chain[p]) : chain[p][k] = i
                  /\ waiter[p] # "none" => ahead[p] = Len(chain[p])

Shares(p, q) == q = p \/ provider = "pooled"

(* Who has opened the transaction of a connection, and who is ending it.   *)
SessionIsRight(p) ==
  /\ session[p] = "open" => \E q \in Producer : Shares(p, q) /\ (tx[q] \/ Beginning(q))
  /\ session[p] = "ending" => \E q \in Producer : Shares(p, q) /\ ending[q] # "none"
  /\ ending[p] # "none" => session[p] = "ending"
  /\ ending[p] \notin {"none", "abort"} => ~tx[p]
  /\ Beginning(p) => session[p] = "open" /\ ~tx[p]
  /\ \A i, j \in Calls : call[p][i] = "beginning" /\ call[p][j] = "beginning" => i = j

Settled(p) == Resting(p) /\ Awaited(p) /\ SessionIsRight(p)

(* The inductive invariant of the producers.                               *)
ProducerIInv ==
  /\ ProducerTypeOK /\ OneBorrower /\ OneSession
  /\ \A p \in Producer : Lifecycle(p) /\ LinkIsRight(p)
  /\ Quiet => \A p \in Producer : Settled(p)

-----------------------------------------------------------------------------
(* A step of one producer leaves the others alone.                         *)

Unmoved(q) ==
  /\ active'[q] = active[q] /\ tx'[q] = tx[q] /\ call'[q] = call[q] /\ chain'[q] = chain[q]
  /\ link'[q] = link[q] /\ ending'[q] = ending[q] /\ waiter'[q] = waiter[q]
  /\ ahead'[q] = ahead[q] /\ early'[q] = early[q] /\ returned'[q] = returned[q]
  /\ commitFailed'[q] = commitFailed[q] /\ (q \in lent' <=> q \in lent)

(* Nor does it touch their session, but as the holder of the connection.   *)
OthersSession(p) ==
  /\ provider = "plain" => \A q \in Producer \ {p} : session'[q] = session[q]
  /\ \/ p \in lent
     \/ /\ \A q \in Producer : session'[q] = session[q]
        /\ tx'[p] = tx[p] /\ ending'[p] = ending[p] /\ (Beginning(p)' <=> Beginning(p))

(* What a step of p has to keep.                                           *)
StepOf(p) ==
  /\ ProducerTypeOK' /\ provider' = provider /\ OneBorrower' /\ OneSession'
  /\ \A q \in Producer \ {p} : Unmoved(q)
  /\ Quiet => OthersSession(p)
  /\ Lifecycle(p)' /\ LinkIsRight(p)'
  /\ (early[p] => early'[p]) /\ (commitFailed[p] => commitFailed'[p])
  /\ Quiet /\ Quiet' => Settled(p)'

(* What a step of p leaves alone keeps what was said of it.                *)
LEMMA OthersKeep ==
  ASSUME ProducerIInv, NEW p \in Producer, NEW q \in Producer, q # p, Unmoved(q)
  PROVE  Lifecycle(q)' /\ LinkIsRight(q)' /\ (Quiet => Resting(q)' /\ Awaited(q)')
<1> USE DEF ProducerIInv, Unmoved
<1>1. Lifecycle(q)'
  BY DEF Lifecycle
<1>2. LinkIsRight(q)'
  BY DEF LinkIsRight
<1>3. Quiet => Resting(q)'
  BY DEF Settled, Resting
<1>4. Quiet => Awaited(q)'
  BY DEF Settled, Awaited
<1> QED BY <1>1, <1>2, <1>3, <1>4

(* And so does the transaction that it shares with p, or does not.         *)
LEMMA OthersSessionKeeps ==
  ASSUME ProducerIInv, NEW p \in Producer, NEW q \in Producer, q # p, StepOf(p), Quiet, Quiet'
  PROVE  SessionIsRight(q)'
<1>1. Unmoved(q) /\ provider' = provider /\ Settled(p)' /\ Settled(q) /\ SessionIsRight(q)
  BY DEF StepOf, ProducerIInv, Settled
<1>2. (Beginning(q)' <=> Beginning(q))
  BY <1>1 DEF Unmoved, Beginning
<1>3. \A i, j \in Calls : call'[q][i] = "beginning" /\ call'[q][j] = "beginning" => i = j
  BY <1>1 DEF Unmoved, SessionIsRight
<1>4. CASE provider = "plain"
  <2>1. session'[q] = session[q]
    BY <1>4 DEF StepOf, OthersSession
  <2>2. \A r \in Producer : Shares(q, r) <=> r = q
    BY <1>4 DEF Shares
  <2>3. \A r \in Producer : Shares(q, r)' <=> r = q
    BY <1>4, <1>1 DEF Shares
  <2> QED BY <2>1, <2>2, <2>3, <1>1, <1>2, <1>3 DEF SessionIsRight, Unmoved
<1>5. CASE provider = "pooled" /\ p \in lent
  <2>1. q \notin lent
    BY <1>5 DEF ProducerIInv, OneBorrower
  <2>2. ~active[q]
    BY <2>1 DEF ProducerIInv, Lifecycle
  <2>3. ending'[q] = "none" /\ ~Beginning(q)'
    BY <2>2, <1>1, <1>2 DEF Settled, Resting, Unmoved, Beginning
  <2>4. session'[q] = session'[p]
    BY <1>5 DEF StepOf, OneSession
  <2>5. \A r \in Producer : Shares(q, r)' /\ Shares(p, r)'
    BY <1>5, <1>1 DEF Shares
  <2>6. SessionIsRight(p)'
    BY <1>1 DEF Settled
  <2> QED BY <2>3, <2>4, <2>5, <2>6, <1>3 DEF SessionIsRight
<1>6. CASE provider = "pooled" /\ p \notin lent
  <2>1. session'[q] = session[q]
    BY <1>6 DEF StepOf, OthersSession
  <2>2. \A r \in Producer :
          tx'[r] = tx[r] /\ ending'[r] = ending[r] /\ (Beginning(r)' <=> Beginning(r))
    BY <1>6 DEF StepOf, OthersSession, Unmoved, Beginning
  <2>3. \A r \in Producer : Shares(q, r)' <=> Shares(q, r)
    BY <1>1 DEF Shares
  <2> QED BY <2>1, <2>2, <2>3, <1>1, <1>3 DEF SessionIsRight
<1> QED BY <1>4, <1>5, <1>6 DEF ProducerIInv, ProducerTypeOK

(* So a step preserves the invariant when it keeps it for its producer.    *)
LEMMA StepOfOne ==
  ASSUME ProducerIInv, NEW p \in Producer, StepOf(p)
  PROVE  ProducerIInv'
<1>1. \A q \in Producer : Lifecycle(q)' /\ LinkIsRight(q)'
  BY OthersKeep DEF StepOf
<1>2. Quiet' => Quiet
  <2> SUFFICES ASSUME Quiet', NEW q \in Producer PROVE ~early[q] /\ ~commitFailed[q]
    BY DEF Quiet
  <2>1. ~early'[q] /\ ~commitFailed'[q]
    BY DEF Quiet
  <2> QED BY <2>1 DEF StepOf, Unmoved
<1>3. ASSUME Quiet', NEW q \in Producer PROVE Settled(q)'
  <2>1. CASE q = p
    BY <2>1, <1>2, <1>3 DEF StepOf
  <2>2. CASE q # p
    BY <2>2, <1>2, <1>3, OthersKeep, OthersSessionKeeps DEF StepOf, Settled
  <2> QED BY <2>1, <2>2
<1> QED BY <1>1, <1>3 DEF ProducerIInv, StepOf

(* What can have become of a call, and who can take onRelease.             *)
CallState == {"none", "sender", "beginning", "sending", "doomed", "ok", "failed", "refused"}
Cause == {"release", "direct", "chain"}

(* SetSession() sets the session of p, and of whoever shares it.           *)
LEMMA SetSessionSets ==
  ASSUME ProducerTypeOK, NEW p \in Producer, NEW s \in {"ready", "open", "ending"}, SetSession(p, s)
  PROVE  /\ session' \in [Producer -> {"ready", "open", "ending"}]
         /\ \A q \in Producer : session'[q] = IF Shares(p, q) THEN s ELSE session[q]
BY DEF SetSession, Shares, ProducerTypeOK

(* The rest of a step that calls internalRelease(): a message may have     *)
(* failed, and allMessageSend calls it for its first message.              *)
ReleasedBy(p, who) ==
  /\ who \in Cause
  /\ call' \in [Producer -> [Calls -> CallState]]
  /\ \A q \in Producer \ {p} : call'[q] = call[q]
  /\ \A i \in Calls : \/ call'[p][i] = call[p][i]
                      \/ call[p][i] \in {"sending", "doomed"} /\ call'[p][i] = "failed"
  /\ who = "chain" => link[p] = "next" /\ chain[p] # <<>> /\ call[p][chain[p][1]] = "failed"
  /\ UNCHANGED <<kind, provider, lent, batch, returned, destroying>> /\ faults' \in Nat

(* The first message of allMessageSend has settled and, when c, is dropped.*)
LinkMoves(p, c) ==
  /\ c => /\ chain[p] # <<>>
          /\ chain' = Put(chain, p, Tail(chain[p])) /\ link' = Put(link, p, "next")
          /\ ahead' = Put(ahead, p, IF ahead[p] > 0 THEN ahead[p] - 1 ELSE 0)
  /\ ~c => UNCHANGED <<chain, link, ahead>>

(* It drops the first message and keeps the order of the others.           *)
LEMMA LinkMoved ==
  ASSUME ProducerTypeOK, NEW p \in Producer, NEW c, LinkMoves(p, c)
  PROVE  /\ chain' \in [Producer -> Seq(Calls)]
         /\ link' \in [Producer -> {"next", "committing", "releasing", "rejected"}]
         /\ ahead' \in [Producer -> Nat]
         /\ \A q \in Producer \ {p} :
              chain'[q] = chain[q] /\ link'[q] = link[q] /\ ahead'[q] = ahead[q]
         /\ c => /\ link'[p] = "next"
                 /\ ahead'[p] = (IF ahead[p] > 0 THEN ahead[p] - 1 ELSE 0)
                 /\ Len(chain[p]) \in Nat \ {0} /\ Len(chain'[p]) = Len(chain[p]) - 1
                 /\ \A k \in 1 .. Len(chain[p]) - 1 : chain'[p][k] = chain[p][k + 1]
<1>0. /\ chain \in [Producer -> Seq(Calls)] /\ ahead \in [Producer -> Nat]
      /\ link \in [Producer -> {"next", "committing", "releasing", "rejected"}]
  BY DEF ProducerTypeOK
<1>1. CASE c
  <2>1. PICK s \in Seq(Calls) : s = chain[p]
    BY <1>0
  <2>2. s # <<>> /\ chain' = Put(chain, p, Tail(s)) /\ link' = Put(link, p, "next")
    BY <1>1, <2>1 DEF LinkMoves
  <2>3. /\ Tail(s) \in Seq(Calls) /\ Len(s) \in Nat \ {0} /\ Len(Tail(s)) = Len(s) - 1
        /\ \A k \in 1 .. Len(s) - 1 : Tail(s)[k] = s[k + 1]
    BY <2>2
  <2>4. PICK t \in Seq(Calls) : t = Tail(s)
    BY <2>3
  <2>5. chain' = Put(chain, p, t)
    BY <2>2, <2>4
  <2>6. chain' \in [Producer -> Seq(Calls)] /\ chain'[p] = t
        /\ \A q \in Producer \ {p} : chain'[q] = chain[q]
    BY <2>5, <1>0 DEF Put
  <2>7. PICK n \in Nat : n = IF ahead[p] > 0 THEN ahead[p] - 1 ELSE 0
    BY <1>0
  <2>8. ahead' = Put(ahead, p, n)
    BY <1>1, <2>7 DEF LinkMoves
  <2>9. ahead' \in [Producer -> Nat] /\ ahead'[p] = n
        /\ \A q \in Producer \ {p} : ahead'[q] = ahead[q]
    BY <2>8, <1>0 DEF Put
  <2>10. /\ link' \in [Producer -> {"next", "committing", "releasing", "rejected"}]
         /\ link'[p] = "next" /\ \A q \in Producer \ {p} : link'[q] = link[q]
    BY <2>2, <1>0 DEF Put
  <2> QED BY <2>1, <2>3, <2>4, <2>6, <2>7, <2>9, <2>10
<1>2. CASE ~c
  BY <1>2, <1>0 DEF LinkMoves
<1> QED BY <1>1, <1>2

(* internalRelease() has a transaction to commit.                          *)
LEMMA CommitBegins ==
  ASSUME ProducerIInv, NEW p \in Producer, NEW who, ReleasedBy(p, who), InternalRelease(p, who),
         tx[p], session[p] = "open"
  PROVE  StepOf(p)
<1>t. ProducerTypeOK
  BY DEF ProducerIInv
<1>0. /\ tx' = Put(tx, p, FALSE) /\ ending' = Put(ending, p, who) /\ SetSession(p, "ending")
      /\ link' = IF who = "chain" THEN Put(link, p, "committing") ELSE link
      /\ release' = IF who = "release" THEN Put(release, p, "pending") ELSE release
      /\ UNCHANGED <<active, waiter, ahead, early, chain, commitFailed>>
  BY DEF InternalRelease, BaseRelease, Proceed, CommitFails, Unfinished
<1>r. who \in Cause /\ provider' = provider /\ lent' = lent /\ returned' = returned
  BY DEF ReleasedBy
<1>1. /\ tx' \in [Producer -> BOOLEAN]
      /\ \A q \in Producer : tx'[q] = IF q = p THEN FALSE ELSE tx[q]
  <2>1. tx \in [Producer -> BOOLEAN]
    BY <1>t DEF ProducerTypeOK
  <2>2. tx' = Put(tx, p, FALSE)
    BY <1>0
  <2> QED BY <2>1, <2>2 DEF Put
<1>2. /\ ending' \in [Producer -> {"none", "commit", "abort", "release", "direct", "chain"}]
      /\ \A q \in Producer : ending'[q] = IF q = p THEN who ELSE ending[q]
  <2>1. ending \in [Producer -> {"none", "commit", "abort", "release", "direct", "chain"}]
    BY <1>t DEF ProducerTypeOK
  <2>2. ending' = Put(ending, p, who)
    BY <1>0
  <2> QED BY <2>1, <2>2, <1>r DEF Put, Cause
<1>3. /\ link' \in [Producer -> {"next", "committing", "releasing", "rejected"}]
      /\ \A q \in Producer : link'[q] = IF q = p /\ who = "chain" THEN "committing" ELSE link[q]
  <2>1. link \in [Producer -> {"next", "committing", "releasing", "rejected"}]
    BY <1>t DEF ProducerTypeOK
  <2>2. link' = IF who = "chain" THEN Put(link, p, "committing") ELSE link
    BY <1>0
  <2> QED BY <2>1, <2>2 DEF Put
<1>4. /\ release' \in [Producer -> {"none", "pending", "settled", "rejected"}]
      /\ \A q \in Producer :
           release'[q] = IF q = p /\ who = "release" THEN "pending" ELSE release[q]
  <2>1. release \in [Producer -> {"none", "pending", "settled", "rejected"}]
    BY <1>t DEF ProducerTypeOK
  <2>2. release' = IF who = "release" THEN Put(release, p, "pending") ELSE release
    BY <1>0
  <2> QED BY <2>1, <2>2 DEF Put
<1>5. /\ session' \in [Producer -> {"ready", "open", "ending"}]
      /\ \A q \in Producer : session'[q] = IF Shares(p, q) THEN "ending" ELSE session[q]
  BY <1>0, <1>t, SetSessionSets
<1>6. ProducerTypeOK'
  BY <1>t, <1>0, <1>1, <1>2, <1>3, <1>4, <1>5 DEF ProducerTypeOK, ReleasedBy, CallState
<1>7. \A q \in Producer \ {p} : Unmoved(q)
  BY <1>0, <1>r, <1>1, <1>2, <1>3 DEF Unmoved, ReleasedBy
<1>8. OneBorrower' /\ OneSession'
  BY <1>r, <1>5 DEF ProducerIInv, OneBorrower, OneSession, Shares
<1>9. Lifecycle(p)'
  BY <1>0, <1>r DEF ProducerIInv, Lifecycle
<1>10. LinkIsRight(p)'
  BY <1>0, <1>r, <1>2, <1>3 DEF ProducerIInv, LinkIsRight, ReleasedBy, Cause, ProducerTypeOK
<1>11. Quiet => active[p] /\ p \in lent
  BY <1>t DEF ProducerIInv, Settled, Resting, Lifecycle, ProducerTypeOK
<1>12. Quiet => OthersSession(p)
  BY <1>5, <1>11 DEF OthersSession, Shares
<1>13. ASSUME Quiet, Quiet' PROVE Settled(p)'
  <2>0. Settled(p) /\ active'[p] /\ waiter'[p] = waiter[p] /\ chain' = chain
    BY <1>13, <1>11, <1>0 DEF ProducerIInv
  <2>w. waiter[p] = "none"
    BY <1>13, <1>11 DEF ProducerIInv, Lifecycle
  <2>1. Resting(p)'
    BY <2>0 DEF Resting
  <2>2. Awaited(p)'
    BY <2>0, <1>r, <2>w DEF Awaited, Settled, ReleasedBy
  <2>3. ~Beginning(p) /\ ~Beginning(p)'
    BY <2>0 DEF Settled, SessionIsRight, Beginning, ReleasedBy
  <2>4. SessionIsRight(p)'
    BY <2>3, <1>1, <1>2, <1>5, <1>r DEF SessionIsRight, Shares, Beginning, Cause
  <2> QED BY <2>1, <2>2, <2>4 DEF Settled
<1> QED BY <1>0, <1>r, <1>6, <1>7, <1>8, <1>9, <1>10, <1>12, <1>13 DEF StepOf

(* internalRelease() has one that is over, or is being ended.              *)
LEMMA CommitRefused ==
  ASSUME ProducerIInv, NEW p \in Producer, NEW who, ReleasedBy(p, who), InternalRelease(p, who),
         tx[p], session[p] # "open"
  PROVE  StepOf(p)
<1>t. ProducerTypeOK
  BY DEF ProducerIInv
<1>0. /\ tx' = Put(tx, p, FALSE) /\ commitFailed' = Put(commitFailed, p, TRUE)
      /\ link' = IF who = "chain" THEN Put(link, p, "rejected") ELSE link
      /\ release' = IF who = "release" THEN Put(release, p, "rejected") ELSE release
      /\ UNCHANGED <<ending, session, active, waiter, ahead, early, chain>>
  BY DEF InternalRelease, BaseRelease, Proceed, CommitFails, Unfinished
<1>r. who \in Cause /\ provider' = provider /\ lent' = lent /\ returned' = returned
  BY DEF ReleasedBy
<1>1. /\ tx' \in [Producer -> BOOLEAN]
      /\ \A q \in Producer : tx'[q] = IF q = p THEN FALSE ELSE tx[q]
  <2>1. tx \in [Producer -> BOOLEAN]
    BY <1>t DEF ProducerTypeOK
  <2>2. tx' = Put(tx, p, FALSE)
    BY <1>0
  <2> QED BY <2>1, <2>2 DEF Put
<1>2. /\ commitFailed' \in [Producer -> BOOLEAN]
      /\ \A q \in Producer : commitFailed'[q] = IF q = p THEN TRUE ELSE commitFailed[q]
  <2>1. commitFailed \in [Producer -> BOOLEAN]
    BY <1>t DEF ProducerTypeOK
  <2>2. commitFailed' = Put(commitFailed, p, TRUE)
    BY <1>0
  <2> QED BY <2>1, <2>2 DEF Put
<1>3. /\ link' \in [Producer -> {"next", "committing", "releasing", "rejected"}]
      /\ \A q \in Producer : link'[q] = IF q = p /\ who = "chain" THEN "rejected" ELSE link[q]
  <2>1. link \in [Producer -> {"next", "committing", "releasing", "rejected"}]
    BY <1>t DEF ProducerTypeOK
  <2>2. link' = IF who = "chain" THEN Put(link, p, "rejected") ELSE link
    BY <1>0
  <2> QED BY <2>1, <2>2 DEF Put
<1>4. /\ release' \in [Producer -> {"none", "pending", "settled", "rejected"}]
      /\ \A q \in Producer :
           release'[q] = IF q = p /\ who = "release" THEN "rejected" ELSE release[q]
  <2>1. release \in [Producer -> {"none", "pending", "settled", "rejected"}]
    BY <1>t DEF ProducerTypeOK
  <2>2. release' = IF who = "release" THEN Put(release, p, "rejected") ELSE release
    BY <1>0
  <2> QED BY <2>1, <2>2 DEF Put
<1>5. ProducerTypeOK'
  BY <1>t, <1>0, <1>1, <1>2, <1>3, <1>4 DEF ProducerTypeOK, ReleasedBy, CallState
<1>6. \A q \in Producer \ {p} : Unmoved(q)
  BY <1>0, <1>r, <1>1, <1>2, <1>3 DEF Unmoved, ReleasedBy
<1>7. OneBorrower' /\ OneSession'
  BY <1>r, <1>0 DEF ProducerIInv, OneBorrower, OneSession
<1>8. Lifecycle(p)'
  BY <1>0, <1>r DEF ProducerIInv, Lifecycle
<1>9. LinkIsRight(p)'
  <2>1. CASE who = "chain"
    <3>1. link'[p] = "rejected" /\ commitFailed'[p] /\ link[p] = "next"
      BY <2>1, <1>2, <1>3 DEF ReleasedBy
    <3>2. ending[p] # "chain" /\ ~(waiter[p] = "chain" /\ ~returned[p])
      BY <3>1 DEF ProducerIInv, LinkIsRight
    <3> QED BY <3>1, <3>2, <1>0, <1>r DEF LinkIsRight
  <2>2. CASE who # "chain"
    <3>1. link'[p] = link[p] /\ commitFailed'[p]
      BY <2>2, <1>2, <1>3
    <3>2. call[p][chain[p][1]] = "failed" /\ chain[p] # <<>> => call'[p][chain[p][1]] = "failed"
      BY <1>t DEF ReleasedBy, ProducerTypeOK
    <3> QED BY <3>1, <3>2, <1>0, <1>r DEF ProducerIInv, LinkIsRight
  <2> QED BY <2>1, <2>2
<1>10. ~Quiet'
  BY <1>2 DEF Quiet
<1>11. Quiet => active[p] /\ p \in lent
  BY <1>t DEF ProducerIInv, Settled, Resting, Lifecycle, ProducerTypeOK
<1>12. Quiet => OthersSession(p)
  BY <1>0, <1>11 DEF OthersSession
<1> QED BY <1>0, <1>r, <1>2, <1>5, <1>6, <1>7, <1>8, <1>9, <1>10, <1>12 DEF StepOf

(* internalRelease() is the first to take onRelease.                       *)
LEMMA ReleaseTaken ==
  ASSUME ProducerIInv, NEW p \in Producer, NEW who, ReleasedBy(p, who), InternalRelease(p, who),
         ~tx[p], active[p]
  PROVE  StepOf(p)
<1>t. ProducerTypeOK
  BY DEF ProducerIInv
<1>0. /\ active' = Put(active, p, FALSE) /\ waiter' = Put(waiter, p, who)
      /\ ahead' = Put(ahead, p, Len(chain[p]))
      /\ early' = Put(early, p, (\E i \in Calls : call[p][i] \in {"sender", "beginning"})
                                  \/ ending'[p] # "none")
      /\ link' = IF who = "chain" THEN Put(link, p, "releasing") ELSE link
      /\ release' = IF who = "release" THEN Put(release, p, "pending") ELSE release
      /\ UNCHANGED <<tx, ending, session, commitFailed, chain>>
  BY DEF InternalRelease, BaseRelease, Proceed, CommitFails, Unfinished
<1>r. who \in Cause /\ provider' = provider /\ lent' = lent /\ returned' = returned
  BY DEF ReleasedBy
<1>1. /\ active' \in [Producer -> BOOLEAN]
      /\ \A q \in Producer : active'[q] = IF q = p THEN FALSE ELSE active[q]
  <2>1. active \in [Producer -> BOOLEAN]
    BY <1>t DEF ProducerTypeOK
  <2>2. active' = Put(active, p, FALSE)
    BY <1>0
  <2> QED BY <2>1, <2>2 DEF Put
<1>2. /\ waiter' \in [Producer -> {"none", "release", "direct", "chain"}]
      /\ \A q \in Producer : waiter'[q] = IF q = p THEN who ELSE waiter[q]
  <2>1. waiter \in [Producer -> {"none", "release", "direct", "chain"}]
    BY <1>t DEF ProducerTypeOK
  <2>2. waiter' = Put(waiter, p, who)
    BY <1>0
  <2> QED BY <2>1, <2>2, <1>r DEF Put, Cause
<1>3. /\ link' \in [Producer -> {"next", "committing", "releasing", "rejected"}]
      /\ \A q \in Producer : link'[q] = IF q = p /\ who = "chain" THEN "releasing" ELSE link[q]
  <2>1. link \in [Producer -> {"next", "committing", "releasing", "rejected"}]
    BY <1>t DEF ProducerTypeOK
  <2>2. link' = IF who = "chain" THEN Put(link, p, "releasing") ELSE link
    BY <1>0
  <2> QED BY <2>1, <2>2 DEF Put
<1>4. /\ release' \in [Producer -> {"none", "pending", "settled", "rejected"}]
      /\ \A q \in Producer :
           release'[q] = IF q = p /\ who = "release" THEN "pending" ELSE release[q]
  <2>1. release \in [Producer -> {"none", "pending", "settled", "rejected"}]
    BY <1>t DEF ProducerTypeOK
  <2>2. release' = IF who = "release" THEN Put(release, p, "pending") ELSE release
    BY <1>0
  <2> QED BY <2>1, <2>2 DEF Put
<1>5. /\ ahead' \in [Producer -> Nat]
      /\ \A q \in Producer : ahead'[q] = IF q = p THEN Len(chain[p]) ELSE ahead[q]
  <2>1. ahead \in [Producer -> Nat] /\ Len(chain[p]) \in Nat
    BY <1>t DEF ProducerTypeOK
  <2>2. ahead' = Put(ahead, p, Len(chain[p]))
    BY <1>0
  <2> QED BY <2>1, <2>2 DEF Put
<1>6. /\ early' \in [Producer -> BOOLEAN]
      /\ \A q \in Producer \ {p} : early'[q] = early[q]
      /\ ~early'[p] =>
           ending[p] = "none" /\ \A i \in Calls : call[p][i] \notin {"sender", "beginning"}
  <2>1. PICK e \in BOOLEAN :
          e = ((\E i \in Calls : call[p][i] \in {"sender", "beginning"}) \/ ending'[p] # "none")
    OBVIOUS
  <2>2. early' = Put(early, p, e) /\ ending' = ending
    BY <1>0, <2>1
  <2>3. early \in [Producer -> BOOLEAN]
    BY <1>t DEF ProducerTypeOK
  <2>4. ~e => ending[p] = "none" /\ \A i \in Calls : call[p][i] \notin {"sender", "beginning"}
    BY <2>1, <2>2
  <2> HIDE <2>1
  <2> QED BY <2>2, <2>3, <2>4 DEF Put
<1>7. ProducerTypeOK'
  BY <1>t, <1>0, <1>1, <1>2, <1>3, <1>4, <1>5, <1>6 DEF ProducerTypeOK, ReleasedBy, CallState
<1>8. \A q \in Producer \ {p} : Unmoved(q)
  BY <1>0, <1>r, <1>1, <1>2, <1>3, <1>5, <1>6 DEF Unmoved, ReleasedBy
<1>9. OneBorrower' /\ OneSession'
  BY <1>r, <1>0 DEF ProducerIInv, OneBorrower, OneSession
<1>10. p \in lent /\ waiter[p] = "none" /\ ~returned[p] /\ ~early[p]
  BY DEF ProducerIInv, Lifecycle
<1>11. Lifecycle(p)'
  BY <1>10, <1>r, <1>1, <1>2 DEF Lifecycle, Cause
<1>12. LinkIsRight(p)'
  BY <1>0, <1>r, <1>2, <1>3, <1>10 DEF ProducerIInv, LinkIsRight, ReleasedBy, ProducerTypeOK
<1>13. OthersSession(p)
  BY <1>0, <1>10 DEF OthersSession
<1>14. ASSUME Quiet, Quiet' PROVE Settled(p)'
  <2>0. Settled(p)
    BY <1>14 DEF ProducerIInv
  <2>1. ~early'[p]
    BY <1>14 DEF Quiet
  <2>2. ending'[p] = "none" /\ \A i \in Calls : call'[p][i] \notin {"sender", "beginning"}
    BY <2>1, <1>6, <1>0 DEF ReleasedBy
  <2>3. ~Beginning(p) /\ ~Beginning(p)'
    BY <2>1, <2>2, <1>6 DEF Beginning
  <2>4. Resting(p)'
    BY <2>2, <1>0 DEF Resting
  <2>5. Awaited(p)'
    BY <2>0, <1>0, <1>r, <1>5, <1>10 DEF Awaited, Settled, ReleasedBy
  <2>6. SessionIsRight(p)'
    <3>1. \A q \in Producer : /\ Shares(p, q)' <=> Shares(p, q)
                              /\ Beginning(q)' <=> Beginning(q)
      BY <2>3, <1>8, <1>r DEF Shares, Unmoved, Beginning
    <3>2. tx' = tx /\ ending' = ending /\ session' = session
      BY <1>0
    <3>3. SessionIsRight(p)
      BY <2>0 DEF Settled
    <3>4. session[p] = "open" => \E q \in Producer : Shares(p, q)' /\ (tx[q] \/ Beginning(q)')
      BY <3>1, <3>3 DEF SessionIsRight
    <3>5. session[p] = "ending" => \E q \in Producer : Shares(p, q)' /\ ending[q] # "none"
      BY <3>1, <3>3 DEF SessionIsRight
    <3> QED BY <2>2, <2>3, <3>2, <3>3, <3>4, <3>5 DEF SessionIsRight
  <2> QED BY <2>4, <2>5, <2>6 DEF Settled
<1> QED BY <1>0, <1>r, <1>7, <1>8, <1>9, <1>10, <1>11, <1>12, <1>13, <1>14 DEF StepOf

(* internalRelease() finds onRelease gone.                                 *)
LEMMA ReleasePasses ==
  ASSUME ProducerIInv, NEW p \in Producer, NEW who, ReleasedBy(p, who), InternalRelease(p, who),
         ~tx[p], ~active[p]
  PROVE  StepOf(p)
<1>t. ProducerTypeOK
  BY DEF ProducerIInv
<1>0. /\ release' = IF who = "release" THEN Put(release, p, "settled") ELSE release
      /\ who = "chain" => /\ chain' = Put(chain, p, Tail(chain[p])) /\ link' = Put(link, p, "next")
                          /\ ahead' = Put(ahead, p, IF ahead[p] > 0 THEN ahead[p] - 1 ELSE 0)
      /\ who # "chain" => UNCHANGED <<chain, link, ahead>>
      /\ UNCHANGED <<tx, ending, session, commitFailed, active, waiter, early>>
  BY DEF InternalRelease, BaseRelease, Proceed, CommitFails, Unfinished
<1>r. who \in Cause /\ provider' = provider /\ lent' = lent /\ returned' = returned
  BY DEF ReleasedBy
<1>1. /\ release' \in [Producer -> {"none", "pending", "settled", "rejected"}]
      /\ \A q \in Producer :
           release'[q] = IF q = p /\ who = "release" THEN "settled" ELSE release[q]
  <2>1. release \in [Producer -> {"none", "pending", "settled", "rejected"}]
    BY <1>t DEF ProducerTypeOK
  <2>2. release' = IF who = "release" THEN Put(release, p, "settled") ELSE release
    BY <1>0
  <2> QED BY <2>1, <2>2 DEF Put
<1>2. LinkMoves(p, who = "chain")
  BY <1>0, <1>t DEF ReleasedBy, LinkMoves
<1>3. ProducerTypeOK'
  BY <1>t, <1>0, <1>1, <1>2, LinkMoved DEF ProducerTypeOK, ReleasedBy, CallState
<1>4. \A q \in Producer \ {p} : Unmoved(q)
  BY <1>0, <1>r, <1>t, <1>2, LinkMoved DEF Unmoved, ReleasedBy
<1>5. OneBorrower' /\ OneSession'
  BY <1>r, <1>0 DEF ProducerIInv, OneBorrower, OneSession
<1>6. Lifecycle(p)'
  BY <1>0, <1>r DEF ProducerIInv, Lifecycle
<1>7. LinkIsRight(p)'
  <2>1. CASE who = "chain"
    <3>1. ending[p] # "chain" /\ (waiter[p] = "chain" => returned[p]) /\ link'[p] = "next"
      BY <2>1, <1>2, <1>t, LinkMoved DEF ProducerIInv, LinkIsRight, ReleasedBy
    <3> QED BY <3>1, <1>0, <1>r DEF LinkIsRight
  <2>2. CASE who # "chain"
    BY <2>2, <1>0, <1>r DEF ProducerIInv, LinkIsRight, ReleasedBy, ProducerTypeOK
  <2> QED BY <2>1, <2>2
<1>8. \A q \in Producer : Beginning(q)' <=> Beginning(q)
  BY <1>4 DEF Beginning, ReleasedBy, Unmoved
<1>9. OthersSession(p)
  BY <1>0, <1>8 DEF OthersSession
<1>10. ASSUME Quiet, Quiet' PROVE Settled(p)'
  <2>0. Settled(p)
    BY <1>10 DEF ProducerIInv
  <2>1. Resting(p)'
    BY <2>0, <1>0 DEF Settled, Resting, ReleasedBy
  <2>2. Awaited(p)'
    <3>1. CASE who = "chain"
      <4>1. /\ ahead'[p] = (IF ahead[p] > 0 THEN ahead[p] - 1 ELSE 0)
            /\ Len(chain[p]) \in Nat \ {0} /\ Len(chain'[p]) = Len(chain[p]) - 1
            /\ \A k \in 1 .. Len(chain[p]) - 1 : chain'[p][k] = chain[p][k + 1]
        BY <3>1, <1>2, <1>t, LinkMoved
      <4>2. call[p][chain[p][1]] = "failed"
        BY <3>1 DEF ReleasedBy
      <4>3. ASSUME ~returned[p] PROVE waiter'[p] # "none" => ahead'[p] = Len(chain'[p])
        BY <4>1, <4>3, <2>0, <1>0 DEF Settled, Awaited
      <4>4. ASSUME ~returned[p], NEW i \in Calls, call'[p][i] \in {"sending", "doomed"}
            PROVE  \E k \in 1 .. Len(chain'[p]) : chain'[p][k] = i
        <5>1. call[p][i] \in {"sending", "doomed"}
          BY <4>4 DEF ReleasedBy
        <5>2. PICK k \in 1 .. Len(chain[p]) : chain[p][k] = i
          BY <5>1, <4>4, <2>0 DEF Settled, Awaited
        <5>3. k # 1
          BY <5>1, <5>2, <4>2
        <5>4. k - 1 \in 1 .. Len(chain'[p]) /\ chain'[p][k - 1] = i
          BY <5>2, <5>3, <4>1
        <5> QED BY <5>4
      <4> QED BY <4>3, <4>4, <1>r DEF Awaited
    <3>2. CASE who # "chain"
      BY <3>2, <2>0, <1>0, <1>r DEF Settled, Awaited, ReleasedBy
    <3> QED BY <3>1, <3>2
  <2>3. SessionIsRight(p)'
    <3>1. \A q \in Producer : Shares(p, q)' <=> Shares(p, q)
      BY <1>r DEF Shares
    <3>2. \A i \in Calls : call'[p][i] = "beginning" <=> call[p][i] = "beginning"
      BY DEF ReleasedBy
    <3> QED BY <2>0, <3>1, <3>2, <1>8, <1>0 DEF Settled, SessionIsRight
  <2> QED BY <2>1, <2>2, <2>3 DEF Settled
<1> QED BY <1>0, <1>r, <1>3, <1>4, <1>5, <1>6, <1>7, <1>9, <1>10 DEF StepOf


(* internalRelease(), whoever calls it.                                    *)
LEMMA InternalReleaseSteps ==
  ASSUME ProducerIInv, NEW p \in Producer, NEW who, ReleasedBy(p, who), InternalRelease(p, who)
  PROVE  StepOf(p)
<1>1. tx[p] \in BOOLEAN /\ active[p] \in BOOLEAN
  BY DEF ProducerIInv, ProducerTypeOK
<1> QED BY <1>1, CommitBegins, CommitRefused, ReleaseTaken, ReleasePasses

(* create() and createTransactional() lend a connection.                   *)
LEMMA CreateSteps ==
  ASSUME ProducerIInv, NEW p \in Producer, Create(p)
  PROVE  StepOf(p)
<1>t. ProducerTypeOK
  BY DEF ProducerIInv
<1>1. /\ active' \in [Producer -> BOOLEAN]
      /\ \A q \in Producer : active'[q] = IF q = p THEN TRUE ELSE active[q]
  <2>1. active \in [Producer -> BOOLEAN]
    BY <1>t DEF ProducerTypeOK
  <2>2. active' = Put(active, p, TRUE)
    BY DEF Create
  <2> QED BY <2>1, <2>2 DEF Put
<1>20. ProducerTypeOK'
  BY <1>t, <1>1 DEF Create, ProducerTypeOK, clientVars, releaseVars
<1>21. \A q \in Producer \ {p} : Unmoved(q)
  BY <1>1 DEF Create, Unmoved, clientVars, releaseVars
<1>22. provider' = provider /\ OneBorrower' /\ OneSession'
  BY <1>t, <1>1 DEF Create, ProducerIInv, OneBorrower, OneSession, Shares, clientVars,
     releaseVars
<1>23. Quiet => OthersSession(p)
  BY <1>t, <1>1 DEF Create, OthersSession, Beginning, Shares, clientVars, releaseVars,
     ProducerIInv, Lifecycle
<1>24. Lifecycle(p)'
  BY <1>t, <1>1 DEF Create, ProducerIInv, Lifecycle, clientVars, releaseVars
<1>25. LinkIsRight(p)'
  BY <1>t, <1>1 DEF Create, ProducerIInv, LinkIsRight, clientVars, releaseVars, ProducerTypeOK
<1>26. (early[p] => early'[p]) /\ (commitFailed[p] => commitFailed'[p])
  BY <1>t, <1>1 DEF Create, clientVars, releaseVars
<1>27. ASSUME Quiet, Quiet' PROVE Settled(p)'
  <2>1. Settled(p) /\ Lifecycle(p)
    BY <1>27 DEF ProducerIInv
  <2>2. Resting(p)'
    BY <1>t, <2>1, <1>1 DEF Create, Settled, Resting, Lifecycle, clientVars, releaseVars,
       ProducerTypeOK
  <2>3. Awaited(p)'
    BY <1>t, <2>1, <1>1 DEF Create, Settled, Awaited, Lifecycle, clientVars, releaseVars,
       ProducerTypeOK
  <2>4. SessionIsRight(p)'
    BY <1>t, <2>1, <1>1 DEF Create, Settled, SessionIsRight, Resting, Beginning, Shares,
       clientVars, releaseVars, ProducerTypeOK
  <2> QED BY <2>2, <2>3, <2>4 DEF Settled
<1> QED BY <1>20, <1>21, <1>22, <1>23, <1>24, <1>25, <1>26, <1>27 DEF StepOf

(* commit() takes the transaction.                                         *)
LEMMA CommitSteps ==
  ASSUME ProducerIInv, NEW p \in Producer, Commit(p)
  PROVE  StepOf(p)
<1>t. ProducerTypeOK
  BY DEF ProducerIInv
<1>0. /\ tx' = Put(tx, p, FALSE)
      /\ \/ /\ session[p] = "open" /\ ending' = Put(ending, p, "commit") /\ SetSession(p, "ending")
            /\ commitFailed' = commitFailed
         \/ /\ session[p] # "open" /\ commitFailed' = Put(commitFailed, p, TRUE)
            /\ ending' = ending /\ session' = session
  BY DEF Commit
<1>1. /\ tx' \in [Producer -> BOOLEAN]
      /\ \A q \in Producer : tx'[q] = IF q = p THEN FALSE ELSE tx[q]
  <2>1. tx \in [Producer -> BOOLEAN]
    BY <1>t DEF ProducerTypeOK
  <2>2. tx' = Put(tx, p, FALSE)
    BY <1>0
  <2> QED BY <2>1, <2>2 DEF Put
<1>2. /\ ending' \in [Producer -> {"none", "commit", "abort", "release", "direct", "chain"}]
      /\ \A q \in Producer :
           ending'[q] = IF q = p /\ session[p] = "open" THEN "commit" ELSE ending[q]
  BY <1>0, <1>t DEF Put, ProducerTypeOK
<1>3. /\ commitFailed' \in [Producer -> BOOLEAN]
      /\ \A q \in Producer :
           commitFailed'[q] = IF q = p /\ session[p] # "open" THEN TRUE ELSE commitFailed[q]
  BY <1>0, <1>t DEF Put, ProducerTypeOK
<1>4. /\ session' \in [Producer -> {"ready", "open", "ending"}]
      /\ \A q \in Producer :
           session'[q] = IF Shares(p, q) /\ session[p] = "open" THEN "ending" ELSE session[q]
  BY <1>0, <1>t, SetSessionSets DEF ProducerTypeOK
<1>20. ProducerTypeOK'
  BY <1>t, <1>1, <1>2, <1>3, <1>4 DEF Commit, ProducerTypeOK, clientVars, releaseVars
<1>21. \A q \in Producer \ {p} : Unmoved(q)
  BY <1>1, <1>2, <1>3, <1>4 DEF Commit, Unmoved, clientVars, releaseVars
<1>22. provider' = provider /\ OneBorrower' /\ OneSession'
  BY <1>t, <1>1, <1>2, <1>3, <1>4 DEF Commit, ProducerIInv, OneBorrower, OneSession, Shares,
     clientVars, releaseVars
<1>23. Quiet => OthersSession(p)
  BY <1>t, <1>1, <1>2, <1>3, <1>4 DEF Commit, OthersSession, Beginning, Shares, clientVars,
     releaseVars, ProducerIInv, Lifecycle
<1>24. Lifecycle(p)'
  BY <1>t, <1>1, <1>2, <1>3, <1>4 DEF Commit, ProducerIInv, Lifecycle, clientVars, releaseVars
<1>25. LinkIsRight(p)'
  BY <1>2, <1>3 DEF Commit, ProducerIInv, LinkIsRight, clientVars, releaseVars
<1>26. (early[p] => early'[p]) /\ (commitFailed[p] => commitFailed'[p])
  BY <1>t, <1>1, <1>2, <1>3, <1>4 DEF Commit, clientVars, releaseVars
<1>27. ASSUME Quiet, Quiet' PROVE Settled(p)'
  <2>1. Settled(p) /\ Lifecycle(p)
    BY <1>27 DEF ProducerIInv
  <2>2. Resting(p)'
    BY <1>t, <2>1, <1>27, <1>1, <1>2, <1>3, <1>4 DEF Commit, Settled, Quiet, Resting,
       Lifecycle, clientVars, releaseVars, ProducerTypeOK
  <2>3. Awaited(p)'
    BY <1>t, <2>1, <1>27, <1>1, <1>2, <1>3, <1>4 DEF Commit, Settled, Quiet, Awaited,
       Lifecycle, clientVars, releaseVars, ProducerTypeOK
  <2>4. SessionIsRight(p)'
    BY <1>t, <2>1, <1>27, <1>1, <1>2, <1>3, <1>4 DEF Commit, Settled, Quiet, SessionIsRight,
       Resting, Beginning, Shares, clientVars, releaseVars, ProducerTypeOK
  <2> QED BY <2>2, <2>3, <2>4 DEF Settled
<1> QED BY <1>20, <1>21, <1>22, <1>23, <1>24, <1>25, <1>26, <1>27 DEF StepOf

(* abort() ends it.                                                        *)
LEMMA AbortSteps ==
  ASSUME ProducerIInv, NEW p \in Producer, Abort(p)
  PROVE  StepOf(p)
<1>t. ProducerTypeOK
  BY DEF ProducerIInv
<1>0. ending' = Put(ending, p, "abort") /\ SetSession(p, "ending")
  BY DEF Abort
<1>1. /\ ending' \in [Producer -> {"none", "commit", "abort", "release", "direct", "chain"}]
      /\ \A q \in Producer : ending'[q] = IF q = p THEN "abort" ELSE ending[q]
  <2>1. ending \in [Producer -> {"none", "commit", "abort", "release", "direct", "chain"}]
    BY <1>t DEF ProducerTypeOK
  <2>2. ending' = Put(ending, p, "abort")
    BY <1>0
  <2> QED BY <2>1, <2>2 DEF Put
<1>2. /\ session' \in [Producer -> {"ready", "open", "ending"}]
      /\ \A q \in Producer : session'[q] = IF Shares(p, q) THEN "ending" ELSE session[q]
  BY <1>0, <1>t, SetSessionSets
<1>20. ProducerTypeOK'
  BY <1>t, <1>1, <1>2 DEF Abort, ProducerTypeOK, clientVars, releaseVars
<1>21. \A q \in Producer \ {p} : Unmoved(q)
  BY <1>1, <1>2 DEF Abort, Unmoved, clientVars, releaseVars
<1>22. provider' = provider /\ OneBorrower' /\ OneSession'
  BY <1>t, <1>1, <1>2 DEF Abort, ProducerIInv, OneBorrower, OneSession, Shares, clientVars,
     releaseVars
<1>23. Quiet => OthersSession(p)
  BY <1>t, <1>1, <1>2 DEF Abort, OthersSession, Beginning, Shares, clientVars, releaseVars,
     ProducerIInv, Lifecycle
<1>24. Lifecycle(p)'
  BY <1>t, <1>1, <1>2 DEF Abort, ProducerIInv, Lifecycle, clientVars, releaseVars
<1>25. LinkIsRight(p)'
  BY <1>t, <1>1, <1>2 DEF Abort, ProducerIInv, LinkIsRight, clientVars, releaseVars,
     ProducerTypeOK
<1>26. (early[p] => early'[p]) /\ (commitFailed[p] => commitFailed'[p])
  BY <1>t, <1>1, <1>2 DEF Abort, clientVars, releaseVars
<1>27. ASSUME Quiet, Quiet' PROVE Settled(p)'
  <2>1. Settled(p) /\ Lifecycle(p)
    BY <1>27 DEF ProducerIInv
  <2>2. Resting(p)'
    BY <1>t, <2>1, <1>1, <1>2 DEF Abort, Settled, Resting, Lifecycle, clientVars, releaseVars,
       ProducerTypeOK
  <2>3. Awaited(p)'
    BY <1>t, <2>1, <1>1, <1>2 DEF Abort, Settled, Awaited, Lifecycle, clientVars, releaseVars,
       ProducerTypeOK
  <2>4. SessionIsRight(p)'
    BY <1>t, <2>1, <1>1, <1>2 DEF Abort, Settled, SessionIsRight, Resting, Beginning, Shares,
       clientVars, releaseVars, ProducerTypeOK
  <2> QED BY <2>2, <2>3, <2>4 DEF Settled
<1> QED BY <1>20, <1>21, <1>22, <1>23, <1>24, <1>25, <1>26, <1>27 DEF StepOf

(* sendMessage() and its like: sender() has an answer, begins a            *)
(* transaction, or is refused one.                                         *)
LEMMA SendSteps ==
  ASSUME ProducerIInv, NEW p \in Producer, NEW i \in Calls, Send(p, i)
  PROVE  StepOf(p)
<1>t. ProducerTypeOK
  BY DEF ProducerIInv
<1>0. /\ call[p][i] = "none" /\ active[p]
      /\ batch' = batch \/ batch' = Put(batch, p, batch[p] \cup {i})
      /\ UNCHANGED <<kind, provider, lent, active, tx, chain, link, ending, waiter, ahead, early,
                     returned, release, commitFailed, destroying, faults>>
  BY DEF Send, releaseVars
<1>b. batch' \in [Producer -> SUBSET Calls] /\ \A q \in Producer \ {p} : batch'[q] = batch[q]
  <2>1. batch \in [Producer -> SUBSET Calls] /\ batch[p] \cup {i} \in SUBSET Calls
    BY <1>t DEF ProducerTypeOK
  <2> QED BY <1>0, <2>1 DEF Put
<1>1. Quiet => p \in lent /\ waiter[p] = "none"
  BY <1>0 DEF ProducerIInv, Settled, Resting, Lifecycle
<1>2. Lifecycle(p)' /\ OneBorrower'
  BY <1>0 DEF ProducerIInv, Lifecycle, OneBorrower
<1>3. ASSUME call' \in [Producer -> [Calls -> CallState]],
             session' \in [Producer -> {"ready", "open", "ending"}],
             \A q \in Producer \ {p} : call'[q] = call[q],
             \A q \in Producer : ~Shares(p, q) => session'[q] = session[q],
             OneSession', LinkIsRight(p)', Quiet => Awaited(p)' /\ SessionIsRight(p)'
      PROVE  StepOf(p)
  <2>1. ProducerTypeOK'
    BY <1>3, <1>b, <1>t, <1>0 DEF ProducerTypeOK, CallState
  <2>2. \A q \in Producer \ {p} : Unmoved(q)
    BY <1>3, <1>b, <1>0 DEF Unmoved
  <2>3. Quiet => OthersSession(p)
    BY <1>3, <1>1 DEF OthersSession, Shares
  <2>4. Quiet => Resting(p)'
    BY <1>0, <1>1 DEF Resting
  <2> QED BY <2>1, <2>2, <2>3, <2>4, <1>0, <1>2, <1>3 DEF StepOf, Settled
<1>5. ASSUME NEW v \in {"sender", "beginning", "refused"}, call' = [call EXCEPT ![p][i] = v]
      PROVE  /\ call' \in [Producer -> [Calls -> CallState]]
             /\ \A q \in Producer \ {p} : call'[q] = call[q]
             /\ call'[p][i] = v /\ \A j \in Calls : j # i => call'[p][j] = call[p][j]
             /\ LinkIsRight(p)' /\ (Quiet => Awaited(p)')
  <2>1. /\ call' \in [Producer -> [Calls -> CallState]]
        /\ \A q \in Producer \ {p} : call'[q] = call[q]
        /\ call'[p][i] = v /\ \A j \in Calls : j # i => call'[p][j] = call[p][j]
    BY <1>5, <1>t DEF CallState, ProducerTypeOK
  <2>2. LinkIsRight(p)'
    <3>1. LinkIsRight(p) /\ chain'[p] = chain[p] /\ chain[p] \in Seq(Calls)
      BY <1>5, <1>0, <1>t DEF ProducerIInv, ProducerTypeOK
    <3>2. ASSUME link[p] \in {"committing", "releasing"}
          PROVE  call'[p][chain[p][1]] = "failed"
      <4>1. call[p][chain[p][1]] = "failed" /\ chain[p][1] \in Calls
        BY <3>1, <3>2 DEF LinkIsRight
      <4> QED BY <4>1, <2>1, <1>0
    <3> QED BY <3>1, <3>2, <1>0 DEF LinkIsRight
  <2>3. Quiet => Awaited(p)'
    BY <2>1, <1>5, <1>0 DEF ProducerIInv, Settled, Awaited
  <2> QED BY <2>1, <2>2, <2>3
<1>6. CASE /\ kind = "transactional" /\ ~tx[p] /\ session[p] = "ready"
           /\ call' = [call EXCEPT ![p][i] = "beginning"] /\ SetSession(p, "open")
  <2>1. /\ session' \in [Producer -> {"ready", "open", "ending"}]
        /\ \A q \in Producer : session'[q] = IF Shares(p, q) THEN "open" ELSE session[q]
    BY <1>6, <1>t, SetSessionSets
  <2>2. OneSession'
    BY <2>1, <1>0 DEF ProducerIInv, OneSession, Shares
  <2>3. ASSUME Quiet PROVE SessionIsRight(p)'
    <3>1. SessionIsRight(p)
      BY <2>3 DEF ProducerIInv, Settled
    <3>2. ending[p] = "none" /\ ~Beginning(p)
      BY <3>1, <1>6 DEF SessionIsRight
    <3>3. Shares(p, p)' /\ session'[p] = "open" /\ Beginning(p)'
      BY <2>1, <1>5, <1>6 DEF Shares, Beginning
    <3>4. \A k, j \in Calls : call'[p][k] = "beginning" /\ call'[p][j] = "beginning" => k = j
      BY <3>2, <1>5, <1>6 DEF Beginning
    <3> QED BY <3>2, <3>3, <3>4, <1>0, <1>6 DEF SessionIsRight
  <2> QED BY <1>3, <1>5, <1>6, <2>1, <2>2, <2>3, <1>t DEF ProducerTypeOK
<1>7. ASSUME NEW v \in {"sender", "refused"}, call' = [call EXCEPT ![p][i] = v], UNCHANGED session
      PROVE  StepOf(p)
  <2>1. OneSession'
    BY <1>7, <1>0 DEF ProducerIInv, OneSession
  <2>2. ASSUME Quiet PROVE SessionIsRight(p)'
    <3>1. \A j \in Calls : call'[p][j] = "beginning" <=> call[p][j] = "beginning"
      BY <1>5, <1>7, <1>0
    <3>2. \A q \in Producer : /\ Shares(p, q)' <=> Shares(p, q)
                              /\ Beginning(q)' <=> Beginning(q)
      BY <3>1, <1>5, <1>7, <1>0 DEF Shares, Beginning
    <3>3. SessionIsRight(p)
      BY <2>2 DEF ProducerIInv, Settled
    <3> QED BY <3>1, <3>2, <3>3, <1>0, <1>7 DEF SessionIsRight
  <2> QED BY <1>3, <1>5, <1>7, <2>1, <2>2, <1>t DEF ProducerTypeOK
<1> QED BY <1>6, <1>7 DEF Send

(* A message that goes out is the last of allMessageSend.                  *)
LEMMA DispatchAppends ==
  ASSUME ProducerTypeOK, NEW p \in Producer, NEW i \in Calls, Dispatch(p, i)
  PROVE  /\ call' \in [Producer -> [Calls -> CallState]]
         /\ chain' \in [Producer -> Seq(Calls)]
         /\ \A q \in Producer \ {p} : call'[q] = call[q] /\ chain'[q] = chain[q]
         /\ call'[p][i] \in {"doomed", "sending"}
         /\ \A j \in Calls : j # i => call'[p][j] = call[p][j]
         /\ Len(chain[p]) \in Nat /\ Len(chain'[p]) = Len(chain[p]) + 1
         /\ \A k \in 1 .. Len(chain[p]) : chain'[p][k] = chain[p][k]
         /\ chain'[p][Len(chain[p]) + 1] = i
<1>0. call \in [Producer -> [Calls -> CallState]] /\ chain \in [Producer -> Seq(Calls)]
  BY DEF ProducerTypeOK, CallState
<1>1. PICK v \in {"doomed", "sending"} : call' = [call EXCEPT ![p][i] = v]
  BY DEF Dispatch
<1>2. /\ call' \in [Producer -> [Calls -> CallState]]
      /\ \A q \in Producer \ {p} : call'[q] = call[q]
      /\ call'[p][i] = v /\ \A j \in Calls : j # i => call'[p][j] = call[p][j]
  BY <1>0, <1>1 DEF CallState
<1>3. PICK s \in Seq(Calls) : s = chain[p]
  BY <1>0
<1>4. PICK t \in Seq(Calls) : t = Append(s, i)
  <2>1. Append(s, i) \in Seq(Calls)
    OBVIOUS
  <2> QED BY <2>1
<1>5. /\ Len(s) \in Nat /\ Len(t) = Len(s) + 1 /\ t[Len(s) + 1] = i
      /\ \A k \in 1 .. Len(s) : t[k] = s[k]
  BY <1>4
<1>6. chain' = Put(chain, p, t)
  BY <1>3, <1>4 DEF Dispatch
<1>7. chain' \in [Producer -> Seq(Calls)] /\ chain'[p] = t
      /\ \A q \in Producer \ {p} : chain'[q] = chain[q]
  BY <1>0, <1>6 DEF Put
<1> QED BY <1>2, <1>3, <1>5, <1>7

(* The transaction has begun and the message goes out.                     *)
LEMMA BegunSteps ==
  ASSUME ProducerIInv, NEW p \in Producer, NEW i \in Calls, Begun(p, i)
  PROVE  StepOf(p)
<1>t. ProducerTypeOK
  BY DEF ProducerIInv
<1>1. /\ call' \in [Producer -> [Calls -> CallState]]
      /\ chain' \in [Producer -> Seq(Calls)]
      /\ \A q \in Producer \ {p} : call'[q] = call[q] /\ chain'[q] = chain[q]
      /\ call'[p][i] \in {"doomed", "sending"}
      /\ \A j \in Calls : j # i => call'[p][j] = call[p][j]
      /\ Len(chain[p]) \in Nat /\ Len(chain'[p]) = Len(chain[p]) + 1
      /\ \A k \in 1 .. Len(chain[p]) : chain'[p][k] = chain[p][k]
      /\ chain'[p][Len(chain[p]) + 1] = i
  BY <1>t, DispatchAppends DEF Begun
<1>0. /\ tx' = Put(tx, p, TRUE)
      /\ UNCHANGED <<lent, active, link, ending, waiter, ahead, early, session, returned,
                     commitFailed, provider>>
  BY DEF Begun, releaseVars
<1>s. call[p][i] = "beginning"
  BY DEF Begun
<1>2. /\ tx' \in [Producer -> BOOLEAN]
      /\ \A q \in Producer : tx'[q] = IF q = p THEN TRUE ELSE tx[q]
  <2>1. tx \in [Producer -> BOOLEAN]
    BY <1>t DEF ProducerTypeOK
  <2>2. tx' = Put(tx, p, TRUE)
    BY <1>0
  <2> QED BY <2>1, <2>2 DEF Put
<1>20. ProducerTypeOK'
  BY <1>t, <1>1, <1>2 DEF Begun, CallState, ProducerTypeOK, clientVars, releaseVars
<1>21. \A q \in Producer \ {p} : Unmoved(q)
  BY <1>1, <1>2 DEF Begun, Unmoved, clientVars, releaseVars
<1>22. provider' = provider /\ OneBorrower' /\ OneSession'
  BY <1>t, <1>1, <1>2 DEF Begun, ProducerIInv, OneBorrower, OneSession, Shares, clientVars,
     releaseVars
<1>23. Quiet => OthersSession(p)
  BY <1>0, <1>s DEF OthersSession, ProducerIInv, Settled, Resting, Lifecycle
<1>24. Lifecycle(p)'
  BY <1>t, <1>1, <1>2 DEF Begun, ProducerIInv, Lifecycle, clientVars, releaseVars
<1>25. LinkIsRight(p)'
  
  <2>1. LinkIsRight(p) /\ call[p][i] \in {"sender", "beginning"} /\ chain[p] \in Seq(Calls)
    BY <1>t DEF Begun, ProducerIInv, ProducerTypeOK
  <2>2. UNCHANGED <<ending, waiter, returned, link, commitFailed>>
    BY <1>0 DEF Begun, releaseVars
  <2>3. ASSUME link[p] \in {"committing", "releasing"}
        PROVE  chain'[p] # <<>> /\ call'[p][chain'[p][1]] = "failed"
    <3>1. chain[p] # <<>> /\ call[p][chain[p][1]] = "failed" /\ Len(chain[p]) >= 1
          /\ chain[p][1] \in Calls
      BY <2>1, <2>3 DEF LinkIsRight
    <3>2. chain'[p][1] = chain[p][1] /\ chain'[p] # <<>>
      BY <3>1, <1>1
    <3>3. chain[p][1] # i
      BY <3>1, <2>1
    <3> QED BY <3>1, <3>2, <3>3, <1>1
  <2> QED BY <2>1, <2>2, <2>3 DEF LinkIsRight
<1>26. (early[p] => early'[p]) /\ (commitFailed[p] => commitFailed'[p])
  BY <1>t, <1>1, <1>2 DEF Begun, clientVars, releaseVars
<1>27. ASSUME Quiet, Quiet' PROVE Settled(p)'
  <2>1. Settled(p) /\ Lifecycle(p)
    BY <1>27 DEF ProducerIInv
  <2>2. Resting(p)'
    BY <1>t, <2>1, <1>1, <1>2 DEF Begun, Settled, Resting, Lifecycle, clientVars, releaseVars,
       ProducerTypeOK
  <2>3. Awaited(p)'
    <3>1. waiter'[p] = "none"
      BY <2>1, <1>0, <1>s DEF Settled, Resting, Lifecycle, Begun
    <3>2. ASSUME ~returned[p], NEW j \in Calls, call'[p][j] \in {"sending", "doomed"}
          PROVE  \E k \in 1 .. Len(chain'[p]) : chain'[p][k] = j
      <4>1. CASE j = i
        <5>1. Len(chain[p]) + 1 \in 1 .. Len(chain'[p]) /\ chain'[p][Len(chain[p]) + 1] = j
          BY <4>1, <1>1
        <5> QED BY <5>1
      <4>2. CASE j # i
        <5>1. PICK k \in 1 .. Len(chain[p]) : chain[p][k] = j
          BY <4>2, <3>2, <2>1, <1>1 DEF Settled, Awaited
        <5>2. k \in 1 .. Len(chain'[p]) /\ chain'[p][k] = j
          BY <5>1, <1>1
        <5> QED BY <5>2
      <4> QED BY <4>1, <4>2
    <3> QED BY <3>1, <3>2, <1>0 DEF Awaited, Begun, releaseVars
  <2>4. SessionIsRight(p)'
    <3>1. session[p] = "open" /\ ending[p] = "none"
      BY <2>1, <1>s, <1>t DEF Settled, SessionIsRight, Beginning, ProducerTypeOK
    <3>2. ~Beginning(p)'
      BY <2>1, <1>s, <1>1 DEF Settled, SessionIsRight, Beginning
    <3>3. Shares(p, p)' /\ tx'[p] /\ session'[p] = "open" /\ ending'[p] = "none"
      BY <3>1, <1>0, <1>2 DEF Shares
    <3>4. \A k, j \in Calls : call'[p][k] = "beginning" /\ call'[p][j] = "beginning" => k = j
      BY <3>2 DEF Beginning
    <3> QED BY <3>2, <3>3, <3>4 DEF SessionIsRight
  <2> QED BY <2>2, <2>3, <2>4 DEF Settled
<1> QED BY <1>20, <1>21, <1>22, <1>23, <1>24, <1>25, <1>26, <1>27 DEF StepOf

(* onRelease is called: the connection goes back.                          *)
LEMMA ReturnSteps ==
  ASSUME ProducerIInv, NEW p \in Producer, Return(p)
  PROVE  StepOf(p)
<1>t. ProducerTypeOK
  BY DEF ProducerIInv
<1>0. /\ waiter[p] # "none" /\ ~returned[p] /\ (ahead[p] = 0 \/ link[p] = "rejected")
      /\ returned' = Put(returned, p, TRUE) /\ lent' = lent \ {p}
      /\ release' = IF waiter[p] = "release" THEN Put(release, p, "settled") ELSE release
      /\ UNCHANGED <<kind, provider, active, tx, call, batch, ending, waiter, early, commitFailed,
                     destroying, faults>>
  BY DEF Return, Proceed
<1>1. LinkMoves(p, waiter[p] = "chain")
  BY DEF Return, Proceed, LinkMoves, ProducerIInv, LinkIsRight
<1>2. /\ chain' \in [Producer -> Seq(Calls)]
      /\ link' \in [Producer -> {"next", "committing", "releasing", "rejected"}]
      /\ ahead' \in [Producer -> Nat]
      /\ \A q \in Producer \ {p} :
           chain'[q] = chain[q] /\ link'[q] = link[q] /\ ahead'[q] = ahead[q]
      /\ waiter[p] = "chain" => link'[p] = "next"
      /\ waiter[p] # "chain" => chain' = chain /\ link' = link
  BY <1>t, <1>1, LinkMoved DEF LinkMoves
<1>3. /\ returned' \in [Producer -> BOOLEAN]
      /\ \A q \in Producer : returned'[q] = IF q = p THEN TRUE ELSE returned[q]
  <2>1. returned \in [Producer -> BOOLEAN]
    BY <1>t DEF ProducerTypeOK
  <2>2. returned' = Put(returned, p, TRUE)
    BY <1>0
  <2> QED BY <2>1, <2>2 DEF Put
<1>4. /\ release' \in [Producer -> {"none", "pending", "settled", "rejected"}]
      /\ \A q \in Producer :
           release'[q] = IF q = p /\ waiter[p] = "release" THEN "settled" ELSE release[q]
  <2>1. release \in [Producer -> {"none", "pending", "settled", "rejected"}]
    BY <1>t DEF ProducerTypeOK
  <2>2. release' = IF waiter[p] = "release" THEN Put(release, p, "settled") ELSE release
    BY <1>0
  <2> QED BY <2>1, <2>2 DEF Put
<1>5. /\ session' \in [Producer -> {"ready", "open", "ending"}]
      /\ \/ session' = session
         \/ \A q \in Producer : session'[q] = IF Shares(p, q) THEN "ready" ELSE session[q]
  BY <1>t, SetSessionSets DEF Return, ProducerTypeOK
<1>6. p \in lent
  BY <1>0 DEF ProducerIInv, Lifecycle
<1>20. ProducerTypeOK'
  BY <1>t, <1>0, <1>2, <1>3, <1>4, <1>5 DEF ProducerTypeOK
<1>21. \A q \in Producer \ {p} : Unmoved(q)
  BY <1>0, <1>2, <1>3, <1>4, <1>5, <1>6 DEF Return, Unmoved, clientVars, releaseVars
<1>22. provider' = provider /\ OneBorrower' /\ OneSession'
  BY <1>t, <1>0, <1>2, <1>3, <1>4, <1>5, <1>6 DEF Return, ProducerIInv, OneBorrower,
     OneSession, Shares, clientVars, releaseVars
<1>23. Quiet => OthersSession(p)
  BY <1>5, <1>6 DEF OthersSession, Shares
<1>24. Lifecycle(p)'
  BY <1>t, <1>0, <1>2, <1>3, <1>4, <1>5, <1>6 DEF Return, ProducerIInv, Lifecycle, clientVars,
     releaseVars
<1>25. LinkIsRight(p)'
  <2>0. LinkIsRight(p)
    BY DEF ProducerIInv
  <2>1. CASE waiter[p] = "chain"
    BY <2>0, <2>1, <1>0, <1>2, <1>3 DEF LinkIsRight
  <2>2. CASE waiter[p] # "chain"
    <3>1. UNCHANGED <<chain, link, ending, call, commitFailed, waiter>>
      BY <2>2, <1>0, <1>2
    <3> QED BY <2>0, <2>2, <3>1 DEF LinkIsRight
  <2> QED BY <2>1, <2>2
<1>26. (early[p] => early'[p]) /\ (commitFailed[p] => commitFailed'[p])
  BY <1>t, <1>0, <1>2, <1>3, <1>4, <1>5, <1>6 DEF Return, clientVars, releaseVars
<1>27. ASSUME Quiet, Quiet' PROVE Settled(p)'
  <2>1. Settled(p) /\ Lifecycle(p)
    BY <1>27 DEF ProducerIInv
  <2>2. Resting(p)'
    BY <1>t, <2>1, <1>0, <1>2, <1>3, <1>5, <1>6 DEF Return, Settled, Resting, Lifecycle,
       clientVars, releaseVars, ProducerTypeOK
  <2>3. Awaited(p)'
    BY <1>t, <2>1, <1>0, <1>2, <1>3, <1>5, <1>6 DEF Return, Settled, Awaited, Lifecycle,
       clientVars, releaseVars, ProducerTypeOK
  <2>4. SessionIsRight(p)'
    <3>1. UNCHANGED <<provider, tx, call, ending>>
      BY <1>0
    <3>2. /\ \A q \in Producer : Shares(p, q)' <=> Shares(p, q)
          /\ \A q \in Producer : Beginning(q)' <=> Beginning(q)
      BY <3>1 DEF Shares, Beginning
    <3>3. ~Beginning(p) /\ ending[p] = "none"
      BY <2>1, <1>0 DEF Settled, Resting, Lifecycle, Beginning
    <3>4. CASE session' = session
      BY <3>1, <3>2, <3>4, <2>1 DEF Settled, SessionIsRight
    <3>5. CASE session'[p] = "ready"
      BY <3>1, <3>2, <3>3, <3>5, <2>1 DEF Settled, SessionIsRight
    <3> QED BY <3>4, <3>5, <1>5 DEF Shares
  <2> QED BY <2>2, <2>3, <2>4 DEF Settled
<1> QED BY <1>20, <1>21, <1>22, <1>23, <1>24, <1>25, <1>26, <1>27 DEF StepOf


(* sender() has answered: the message goes out.                            *)
LEMMA SenderSteps ==
  ASSUME ProducerIInv, NEW p \in Producer, NEW i \in Calls, Sender(p, i)
  PROVE  StepOf(p)
<1>t. ProducerTypeOK
  BY DEF ProducerIInv
<1>0. /\ call[p][i] = "sender"
      /\ UNCHANGED <<kind, provider, lent, active, tx, batch, link, ending, waiter, ahead, early,
                     session, returned, release, commitFailed, destroying, faults>>
  BY DEF Sender, releaseVars
<1>1. Quiet => active[p] /\ p \in lent /\ waiter[p] = "none"
  BY <1>0 DEF ProducerIInv, Settled, Resting, Lifecycle
<1>2. Lifecycle(p)' /\ OneBorrower'
  BY <1>0 DEF ProducerIInv, Lifecycle, OneBorrower
<1>3. ASSUME call' \in [Producer -> [Calls -> CallState]], chain' \in [Producer -> Seq(Calls)],
             session' \in [Producer -> {"ready", "open", "ending"}],
             \A q \in Producer \ {p} : call'[q] = call[q] /\ chain'[q] = chain[q],
             \A q \in Producer : ~Shares(p, q) => session'[q] = session[q],
             OneSession', LinkIsRight(p)', Quiet /\ Quiet' => Awaited(p)' /\ SessionIsRight(p)'
      PROVE  StepOf(p)
  <2>1. ProducerTypeOK'
    BY <1>3, <1>t, <1>0 DEF ProducerTypeOK, CallState
  <2>2. \A q \in Producer \ {p} : Unmoved(q)
    BY <1>3, <1>0 DEF Unmoved
  <2>3. Quiet => OthersSession(p)
    BY <1>3, <1>1 DEF OthersSession, Shares
  <2>4. Quiet => Resting(p)'
    BY <1>0, <1>1 DEF Resting
  <2> QED BY <2>1, <2>2, <2>3, <2>4, <1>0, <1>2, <1>3 DEF StepOf, Settled
<1>4. CASE Dispatch(p, i)
  <2>1. /\ call' \in [Producer -> [Calls -> CallState]]
        /\ chain' \in [Producer -> Seq(Calls)]
        /\ \A q \in Producer \ {p} : call'[q] = call[q] /\ chain'[q] = chain[q]
        /\ call'[p][i] \in {"doomed", "sending"}
        /\ \A j \in Calls : j # i => call'[p][j] = call[p][j]
        /\ Len(chain[p]) \in Nat /\ Len(chain'[p]) = Len(chain[p]) + 1
        /\ \A k \in 1 .. Len(chain[p]) : chain'[p][k] = chain[p][k]
        /\ chain'[p][Len(chain[p]) + 1] = i
    BY <1>t, <1>4, DispatchAppends
  <2>2. LinkIsRight(p)'
    <3>1. LinkIsRight(p) /\ chain[p] \in Seq(Calls)
      BY <1>t DEF ProducerIInv, ProducerTypeOK
    <3>2. ASSUME link[p] \in {"committing", "releasing"}
          PROVE  chain'[p] # <<>> /\ call'[p][chain'[p][1]] = "failed"
      <4>1. chain[p] # <<>> /\ call[p][chain[p][1]] = "failed" /\ Len(chain[p]) >= 1
            /\ chain[p][1] \in Calls
        BY <3>1, <3>2 DEF LinkIsRight
      <4>2. chain'[p][1] = chain[p][1] /\ chain'[p] # <<>>
        BY <4>1, <2>1
      <4>3. chain[p][1] # i
        BY <4>1, <1>0
      <4> QED BY <4>1, <4>2, <4>3, <2>1
    <3> QED BY <3>1, <3>2, <1>0 DEF LinkIsRight
  <2>3. ASSUME Quiet PROVE Awaited(p)'
    <3>1. ASSUME ~returned[p], NEW j \in Calls, call'[p][j] \in {"sending", "doomed"}
          PROVE  \E k \in 1 .. Len(chain'[p]) : chain'[p][k] = j
      <4>1. CASE j = i
        <5>1. Len(chain[p]) + 1 \in 1 .. Len(chain'[p]) /\ chain'[p][Len(chain[p]) + 1] = j
          BY <4>1, <2>1
        <5> QED BY <5>1
      <4>2. CASE j # i
        <5>1. PICK k \in 1 .. Len(chain[p]) : chain[p][k] = j
          BY <4>2, <3>1, <2>1, <2>3 DEF ProducerIInv, Settled, Awaited
        <5>2. k \in 1 .. Len(chain'[p]) /\ chain'[p][k] = j
          BY <5>1, <2>1
        <5> QED BY <5>2
      <4> QED BY <4>1, <4>2
    <3> QED BY <3>1, <1>0, <1>1, <2>3 DEF Awaited
  <2>4. ASSUME Quiet PROVE SessionIsRight(p)'
    <3>1. \A j \in Calls : call'[p][j] = "beginning" <=> call[p][j] = "beginning"
      BY <2>1, <1>0
    <3>2. \A q \in Producer : /\ Shares(p, q)' <=> Shares(p, q)
                              /\ Beginning(q)' <=> Beginning(q)
      <4>1. Beginning(p)' <=> Beginning(p)
        BY <3>1 DEF Beginning
      <4>2. \A q \in Producer \ {p} : Beginning(q)' <=> Beginning(q)
        BY <2>1 DEF Beginning
      <4> QED BY <4>1, <4>2, <1>0 DEF Shares
    <3>3. SessionIsRight(p)
      BY <2>4 DEF ProducerIInv, Settled
    <3> QED BY <3>1, <3>2, <3>3, <1>0, <1>4 DEF SessionIsRight
  <2>5. OneSession'
    BY <1>4, <1>0 DEF ProducerIInv, OneSession
  <2>6. \A q \in Producer : session'[q] = session[q]
    BY <1>0
  <2>7. session' \in [Producer -> {"ready", "open", "ending"}]
    BY <1>0, <1>t DEF ProducerTypeOK
  <2> QED BY <1>3, <2>1, <2>2, <2>3, <2>4, <2>5, <2>6, <2>7
<1> QED BY <1>4 DEF Sender

(* A message has been stored or has failed, and nothing else happens.      *)
LEMMA SettlingSteps ==
  ASSUME ProducerIInv, NEW p \in Producer, NEW i \in Calls, NEW v \in {"ok", "failed"},
         call[p][i] \in {"sending", "doomed"}, call' = [call EXCEPT ![p][i] = v], faults' \in Nat,
         UNCHANGED <<kind, provider, lent, active, tx, batch, chain, link, ending, waiter, ahead,
                     early, session, releaseVars, destroying>>
  PROVE  StepOf(p)
<1>t. ProducerTypeOK
  BY DEF ProducerIInv
<1>0. UNCHANGED <<kind, provider, lent, active, tx, batch, chain, link, ending, waiter, ahead,
                  early, session, returned, release, commitFailed, destroying>>
  BY DEF releaseVars
<1>1. /\ call' \in [Producer -> [Calls -> CallState]]
      /\ \A q \in Producer \ {p} : call'[q] = call[q]
      /\ call'[p][i] = v /\ \A j \in Calls : j # i => call'[p][j] = call[p][j]
  BY <1>t DEF CallState, ProducerTypeOK
<1>2. ProducerTypeOK'
  BY <1>t, <1>0, <1>1 DEF ProducerTypeOK, CallState
<1>3. \A q \in Producer \ {p} : Unmoved(q)
  BY <1>0, <1>1 DEF Unmoved
<1>4. OneBorrower' /\ OneSession' /\ Lifecycle(p)'
  BY <1>0 DEF ProducerIInv, OneBorrower, OneSession, Lifecycle
<1>5. \A q \in Producer : /\ Shares(p, q)' <=> Shares(p, q)
                          /\ Beginning(q)' <=> Beginning(q)
  BY <1>0, <1>1 DEF Shares, Beginning
<1>6. OthersSession(p)
  BY <1>0, <1>5 DEF OthersSession
<1>7. LinkIsRight(p)'
  <2>1. LinkIsRight(p) /\ chain'[p] = chain[p] /\ chain[p] \in Seq(Calls)
    BY <1>0, <1>t DEF ProducerIInv, ProducerTypeOK
  <2>2. ASSUME link[p] \in {"committing", "releasing"}
        PROVE  call'[p][chain[p][1]] = "failed"
    <3>1. call[p][chain[p][1]] = "failed" /\ chain[p][1] \in Calls
      BY <2>1, <2>2 DEF LinkIsRight
    <3> QED BY <3>1, <1>1
  <2> QED BY <2>1, <2>2, <1>0 DEF LinkIsRight
<1>8. ASSUME Quiet PROVE Settled(p)'
  <2>1. Settled(p)
    BY <1>8 DEF ProducerIInv
  <2>2. \A j \in Calls :
          \/ call'[p][j] = call[p][j]
          \/ call'[p][j] \notin {"sender", "beginning", "sending", "doomed"}
    BY <1>1
  <2>3. Resting(p)' /\ Awaited(p)'
    BY <2>1, <2>2, <1>0 DEF Settled, Resting, Awaited
  <2>4. SessionIsRight(p)'
    BY <2>1, <2>2, <1>0, <1>5 DEF Settled, SessionIsRight
  <2> QED BY <2>3, <2>4 DEF Settled
<1> QED BY <1>0, <1>2, <1>3, <1>4, <1>6, <1>7, <1>8 DEF StepOf

(* A message is stored or fails.                                           *)
LEMMA SendSettlesSteps ==
  ASSUME ProducerIInv, NEW p \in Producer, NEW i \in Calls, SendSettles(p, i)
  PROVE  StepOf(p)
<1>t. ProducerTypeOK
  BY DEF ProducerIInv
<1>1. CASE /\ call[p][i] = "sending" /\ call' = [call EXCEPT ![p][i] = "ok"]
           /\ UNCHANGED <<kind, provider, lent, active, tx, batch, chain, link, ending, waiter,
                          ahead, early, session, releaseVars, destroying, faults>>
  BY <1>1, <1>t, SettlingSteps DEF ProducerTypeOK
<1>2. ASSUME call[p][i] \in {"sending", "doomed"}, call' = [call EXCEPT ![p][i] = "failed"],
             faults' = IF call[p][i] = "doomed" THEN faults ELSE faults + 1,
             UNCHANGED <<kind, provider, lent, batch, returned, destroying>>,
             IF i \in batch[p] THEN InternalRelease(p, "direct")
             ELSE UNCHANGED <<active, tx, chain, link, ending, waiter, ahead, early, session,
                              release, commitFailed>>
      PROVE  StepOf(p)
  <2>1. faults' \in Nat
    BY <1>2, <1>t DEF ProducerTypeOK
  <2>2. CASE i \in batch[p]
    <3>1. /\ call' \in [Producer -> [Calls -> CallState]]
          /\ \A q \in Producer \ {p} : call'[q] = call[q]
          /\ call'[p][i] = "failed" /\ \A j \in Calls : j # i => call'[p][j] = call[p][j]
      BY <1>2, <1>t DEF CallState, ProducerTypeOK
    <3>2. ReleasedBy(p, "direct")
      BY <3>1, <2>1, <1>2 DEF ReleasedBy, Cause
    <3> QED BY <3>2, <2>2, <1>2, InternalReleaseSteps
  <2>3. CASE i \notin batch[p]
    BY <2>1, <2>3, <1>2, SettlingSteps DEF releaseVars
  <2> QED BY <2>2, <2>3
<1> QED BY <1>1, <1>2 DEF SendSettles

(* release() of the application.                                           *)
LEMMA ReleaseSteps ==
  ASSUME ProducerIInv, NEW p \in Producer, Release(p)
  PROVE  StepOf(p)
<1>1. ReleasedBy(p, "release")
  BY DEF Release, ReleasedBy, Cause, ProducerIInv, ProducerTypeOK, CallState
<1> QED BY <1>1, InternalReleaseSteps DEF Release

(* allMessageSend goes on with its next message.                           *)
LEMMA ChainNextSteps ==
  ASSUME ProducerIInv, NEW p \in Producer, ChainNext(p)
  PROVE  StepOf(p)
<1>t. ProducerTypeOK
  BY DEF ProducerIInv
<1>0. /\ chain[p] # <<>> /\ link[p] = "next" /\ Head(chain[p]) = chain[p][1]
      /\ UNCHANGED <<kind, provider, lent, call, batch, returned, destroying, faults>>
  BY <1>t DEF ChainNext, ProducerTypeOK
<1>1. CASE call[p][Head(chain[p])] = "failed" /\ InternalRelease(p, "chain")
  <2>1. ReleasedBy(p, "chain")
    BY <1>0, <1>1, <1>t DEF ReleasedBy, Cause, ProducerTypeOK, CallState
  <2> QED BY <2>1, <1>1, InternalReleaseSteps
<1>2. CASE /\ call[p][Head(chain[p])] = "ok" /\ Proceed(p, "chain")
           /\ UNCHANGED <<active, tx, ending, waiter, early, session, commitFailed>>
  <2>0. /\ UNCHANGED <<active, tx, ending, waiter, early, session, commitFailed, release>>
        /\ LinkMoves(p, TRUE)
    BY <1>0, <1>2 DEF Proceed, LinkMoves
  <2>1. /\ chain' \in [Producer -> Seq(Calls)]
        /\ link' \in [Producer -> {"next", "committing", "releasing", "rejected"}]
        /\ ahead' \in [Producer -> Nat]
        /\ \A q \in Producer \ {p} :
             chain'[q] = chain[q] /\ link'[q] = link[q] /\ ahead'[q] = ahead[q]
        /\ link'[p] = "next"
        /\ ahead'[p] = (IF ahead[p] > 0 THEN ahead[p] - 1 ELSE 0)
        /\ Len(chain[p]) \in Nat \ {0} /\ Len(chain'[p]) = Len(chain[p]) - 1
        /\ \A k \in 1 .. Len(chain[p]) - 1 : chain'[p][k] = chain[p][k + 1]
    BY <2>0, <1>t, LinkMoved
  <2>2. ProducerTypeOK'
    BY <1>t, <1>0, <2>0, <2>1 DEF ProducerTypeOK
  <2>3. \A q \in Producer \ {p} : Unmoved(q)
    BY <1>0, <2>0, <2>1 DEF Unmoved
  <2>4. OneBorrower' /\ OneSession' /\ Lifecycle(p)'
    BY <1>0, <2>0 DEF ProducerIInv, OneBorrower, OneSession, Lifecycle
  <2>5. \A q \in Producer : /\ Shares(p, q)' <=> Shares(p, q)
                            /\ Beginning(q)' <=> Beginning(q)
    BY <1>0 DEF Shares, Beginning
  <2>6. OthersSession(p)
    BY <2>0, <2>5 DEF OthersSession
  <2>7. LinkIsRight(p)'
    BY <1>0, <2>0, <2>1 DEF ProducerIInv, LinkIsRight
  <2>8. ASSUME Quiet PROVE Settled(p)'
    <3>1. Settled(p)
      BY <2>8 DEF ProducerIInv
    <3>2. Resting(p)'
      BY <3>1, <1>0, <2>0 DEF Settled, Resting
    <3>3. SessionIsRight(p)'
      BY <3>1, <1>0, <2>0, <2>5 DEF Settled, SessionIsRight
    <3>4. ASSUME ~returned[p] PROVE waiter'[p] # "none" => ahead'[p] = Len(chain'[p])
      BY <2>1, <3>4, <3>1, <2>0 DEF Settled, Awaited
    <3>5. ASSUME ~returned[p], NEW i \in Calls, call'[p][i] \in {"sending", "doomed"}
          PROVE  \E k \in 1 .. Len(chain'[p]) : chain'[p][k] = i
      <4>1. PICK k \in 1 .. Len(chain[p]) : chain[p][k] = i
        BY <3>5, <3>1, <1>0 DEF Settled, Awaited
      <4>2. k # 1
        BY <4>1, <3>5, <1>0, <1>2
      <4>3. /\ Len(chain[p]) \in Nat \ {0} /\ Len(chain'[p]) = Len(chain[p]) - 1
            /\ \A j \in 1 .. Len(chain[p]) - 1 : chain'[p][j] = chain[p][j + 1]
        BY <2>1
      <4>4. k - 1 \in 1 .. Len(chain[p]) - 1 /\ (k - 1) + 1 = k
        BY <4>1, <4>2, <4>3
      <4>5. k - 1 \in 1 .. Len(chain'[p]) /\ chain'[p][k - 1] = i
        BY <4>1, <4>3, <4>4
      <4> QED BY <4>5
    <3>6. Awaited(p)'
      BY <3>4, <3>5, <1>0 DEF Awaited
    <3> QED BY <3>2, <3>3, <3>6 DEF Settled
  <2> QED BY <1>0, <2>0, <2>2, <2>3, <2>4, <2>6, <2>7, <2>8 DEF StepOf
<1> QED BY <1>1, <1>2 DEF ChainNext

(* The broker has ended a transaction, and who ended it goes on.           *)
LEMMA EndSettlesSteps ==
  ASSUME ProducerIInv, NEW p \in Producer, EndSettles(p)
  PROVE  StepOf(p)
<1>t. ProducerTypeOK
  BY DEF ProducerIInv
<1>0. /\ ending[p] # "none" /\ ending' = Put(ending, p, "none")
      /\ UNCHANGED <<kind, provider, lent, call, batch, returned, destroying>>
  BY DEF EndSettles
<1>1. /\ ending' \in [Producer -> {"none", "commit", "abort", "release", "direct", "chain"}]
      /\ \A q \in Producer : ending'[q] = IF q = p THEN "none" ELSE ending[q]
  <2>1. ending \in [Producer -> {"none", "commit", "abort", "release", "direct", "chain"}]
    BY <1>t DEF ProducerTypeOK
  <2> QED BY <2>1, <1>0 DEF Put
<1>2. Quiet => active[p] /\ p \in lent /\ waiter[p] = "none" /\ ~returned[p]
  BY <1>0 DEF ProducerIInv, Settled, Resting, Lifecycle
<1>3. OneBorrower'
  BY <1>0 DEF ProducerIInv, OneBorrower
<1>4. CASE /\ MayFault /\ faults' = faults + 1 /\ CommitFails(p, ending[p])
           /\ UNCHANGED <<active, tx, chain, waiter, ahead, early, session>>
  <2>0. /\ commitFailed' = Put(commitFailed, p, TRUE)
        /\ release' = IF ending[p] = "release" THEN Put(release, p, "rejected") ELSE release
        /\ link' = IF ending[p] = "chain" THEN Put(link, p, "rejected") ELSE link
    BY <1>4 DEF CommitFails
  <2>1. /\ commitFailed' \in [Producer -> BOOLEAN]
        /\ \A q \in Producer : commitFailed'[q] = IF q = p THEN TRUE ELSE commitFailed[q]
    <3>1. commitFailed \in [Producer -> BOOLEAN]
      BY <1>t DEF ProducerTypeOK
    <3> QED BY <3>1, <2>0 DEF Put
  <2>2. /\ link' \in [Producer -> {"next", "committing", "releasing", "rejected"}]
        /\ \A q \in Producer :
             link'[q] = IF q = p /\ ending[p] = "chain" THEN "rejected" ELSE link[q]
    <3>1. link \in [Producer -> {"next", "committing", "releasing", "rejected"}]
      BY <1>t DEF ProducerTypeOK
    <3> QED BY <3>1, <2>0 DEF Put
  <2>3. release' \in [Producer -> {"none", "pending", "settled", "rejected"}]
    <3>1. release \in [Producer -> {"none", "pending", "settled", "rejected"}]
      BY <1>t DEF ProducerTypeOK
    <3> QED BY <3>1, <2>0 DEF Put
  <2>4. ProducerTypeOK'
    BY <1>t, <1>0, <1>1, <1>4, <2>1, <2>2, <2>3 DEF ProducerTypeOK
  <2>5. \A q \in Producer \ {p} : Unmoved(q)
    BY <1>0, <1>1, <1>4, <2>1, <2>2 DEF Unmoved
  <2>6. OneSession' /\ Lifecycle(p)'
    BY <1>0, <1>4 DEF ProducerIInv, OneSession, Lifecycle
  <2>7. Quiet => OthersSession(p)
    BY <1>2, <1>4 DEF OthersSession
  <2>8. LinkIsRight(p)'
    <3>1. LinkIsRight(p) /\ UNCHANGED <<call, chain, waiter, returned>>
      BY <1>0, <1>4 DEF ProducerIInv
    <3>2. CASE ending[p] = "chain"
      <4>1. ~(waiter[p] = "chain" /\ ~returned[p]) /\ link'[p] = "rejected"
        BY <3>1, <3>2, <2>2 DEF LinkIsRight
      <4> QED BY <4>1, <3>1, <2>1, <1>1 DEF LinkIsRight
    <3>3. CASE ending[p] # "chain"
      BY <3>1, <3>3, <2>1, <2>2, <1>1 DEF LinkIsRight
    <3> QED BY <3>2, <3>3
  <2>9. ~Quiet'
    BY <2>1 DEF Quiet
  <2> QED BY <1>0, <1>3, <1>4, <2>1, <2>4, <2>5, <2>6, <2>7, <2>8, <2>9 DEF StepOf
<1>5. ASSUME SetSession(p, "ready"), UNCHANGED <<commitFailed, faults>>
      PROVE  /\ session' \in [Producer -> {"ready", "open", "ending"}]
             /\ \A q \in Producer : session'[q] = IF Shares(p, q) THEN "ready" ELSE session[q]
             /\ OneSession' /\ (Quiet => OthersSession(p))
             /\ ((Quiet /\ call' = call /\ (tx' = tx \/ ~tx'[p])) => SessionIsRight(p)')
  <2>1. /\ session' \in [Producer -> {"ready", "open", "ending"}]
        /\ \A q \in Producer : session'[q] = IF Shares(p, q) THEN "ready" ELSE session[q]
    BY <1>5, <1>t, SetSessionSets
  <2>2. OneSession' /\ (Quiet => OthersSession(p))
    BY <2>1, <1>0, <1>2 DEF ProducerIInv, OneSession, OthersSession, Shares
  <2>3. ASSUME Quiet, call' = call PROVE SessionIsRight(p)'
    <3>1. SessionIsRight(p)
      BY <2>3 DEF ProducerIInv, Settled
    <3>2. ~Beginning(p)
      BY <3>1, <1>0 DEF SessionIsRight
    <3>3. /\ ~Beginning(p)'
          /\ \A i, j \in Calls : call'[p][i] = "beginning" /\ call'[p][j] = "beginning" => i = j
      BY <3>2, <2>3 DEF Beginning
    <3> QED BY <3>3, <1>1, <2>1 DEF SessionIsRight, Shares
  <2> QED BY <2>1, <2>2, <2>3
<1>6. CASE /\ SetSession(p, "ready") /\ UNCHANGED <<commitFailed, faults>>
           /\ ending[p] \in {"abort", "commit"} /\ tx' = Put(tx, p, FALSE)
           /\ UNCHANGED <<active, chain, link, waiter, ahead, early, release>>
  <2>1. /\ tx' \in [Producer -> BOOLEAN]
        /\ \A q \in Producer : tx'[q] = IF q = p THEN FALSE ELSE tx[q]
    <3>1. tx \in [Producer -> BOOLEAN]
      BY <1>t DEF ProducerTypeOK
    <3> QED BY <3>1, <1>6 DEF Put
  <2>2. ProducerTypeOK'
    BY <1>t, <1>0, <1>1, <1>5, <1>6, <2>1 DEF ProducerTypeOK
  <2>3. \A q \in Producer \ {p} : Unmoved(q)
    BY <1>0, <1>1, <1>6, <2>1 DEF Unmoved
  <2>4. Lifecycle(p)'
    BY <1>0, <1>6 DEF ProducerIInv, Lifecycle
  <2>5. LinkIsRight(p)'
    BY <1>0, <1>1, <1>6 DEF ProducerIInv, LinkIsRight
  <2>6. ASSUME Quiet PROVE Settled(p)'
    <3>1. Settled(p)
      BY <2>6 DEF ProducerIInv
    <3>2. Resting(p)' /\ Awaited(p)'
      BY <3>1, <1>0, <1>1, <1>6, <2>1 DEF Settled, Resting, Awaited
    <3> QED BY <3>2, <2>1, <2>6, <1>5, <1>6, <1>0 DEF Settled
  <2> QED BY <1>0, <1>3, <1>5, <1>6, <2>2, <2>3, <2>4, <2>5, <2>6 DEF StepOf
<1>7. CASE /\ SetSession(p, "ready") /\ UNCHANGED <<commitFailed, faults>>
           /\ ending[p] \notin {"abort", "commit"} /\ tx' = tx /\ BaseRelease(p, ending[p])
  <2>c. PICK who \in Cause : who = ending[p]
    BY <1>0, <1>7, <1>t DEF ProducerTypeOK, Cause
  <2>1. CASE active[p]
    <3>0. /\ active' = Put(active, p, FALSE) /\ waiter' = Put(waiter, p, who)
          /\ ahead' = Put(ahead, p, Len(chain[p]))
          /\ early' = Put(early, p, \/ \E i \in Calls : call[p][i] \in {"sender", "beginning"}
                                    \/ ending'[p] # "none")
          /\ link' = IF who = "chain" THEN Put(link, p, "releasing") ELSE link
          /\ release' = IF who = "release" THEN Put(release, p, "pending") ELSE release
          /\ UNCHANGED chain
      BY <1>7, <2>1, <2>c DEF BaseRelease, Unfinished
    <3>1. /\ active' \in [Producer -> BOOLEAN]
          /\ \A q \in Producer : active'[q] = IF q = p THEN FALSE ELSE active[q]
      <4>1. active \in [Producer -> BOOLEAN]
        BY <1>t DEF ProducerTypeOK
      <4> QED BY <4>1, <3>0 DEF Put
    <3>2. /\ waiter' \in [Producer -> {"none", "release", "direct", "chain"}]
          /\ \A q \in Producer : waiter'[q] = IF q = p THEN who ELSE waiter[q]
      <4>1. waiter \in [Producer -> {"none", "release", "direct", "chain"}]
        BY <1>t DEF ProducerTypeOK
      <4> QED BY <4>1, <3>0 DEF Put, Cause
    <3>3. /\ link' \in [Producer -> {"next", "committing", "releasing", "rejected"}]
          /\ \A q \in Producer :
               link'[q] = IF q = p /\ who = "chain" THEN "releasing" ELSE link[q]
      <4>1. link \in [Producer -> {"next", "committing", "releasing", "rejected"}]
        BY <1>t DEF ProducerTypeOK
      <4> QED BY <4>1, <3>0 DEF Put
    <3>4. release' \in [Producer -> {"none", "pending", "settled", "rejected"}]
      <4>1. release \in [Producer -> {"none", "pending", "settled", "rejected"}]
        BY <1>t DEF ProducerTypeOK
      <4> QED BY <4>1, <3>0 DEF Put
    <3>5. /\ ahead' \in [Producer -> Nat]
          /\ \A q \in Producer : ahead'[q] = IF q = p THEN Len(chain[p]) ELSE ahead[q]
      <4>1. ahead \in [Producer -> Nat] /\ Len(chain[p]) \in Nat
        BY <1>t DEF ProducerTypeOK
      <4>2. ahead' = Put(ahead, p, Len(chain[p]))
        BY <3>0
      <4> QED BY <4>1, <4>2 DEF Put
    <3>6. /\ early' \in [Producer -> BOOLEAN]
          /\ \A q \in Producer \ {p} : early'[q] = early[q]
          /\ ~early'[p] => \A i \in Calls : call[p][i] \notin {"sender", "beginning"}
      <4>1. PICK e \in BOOLEAN :
              e = ((\E i \in Calls : call[p][i] \in {"sender", "beginning"}) \/ ending'[p] # "none")
        OBVIOUS
      <4>2. early' = Put(early, p, e)
        BY <3>0, <4>1
      <4>3. early \in [Producer -> BOOLEAN]
        BY <1>t DEF ProducerTypeOK
      <4>4. ~e => \A i \in Calls : call[p][i] \notin {"sender", "beginning"}
        BY <4>1
      <4> HIDE <4>1
      <4> QED BY <4>2, <4>3, <4>4 DEF Put
    <3>7. ProducerTypeOK'
      BY <1>t, <1>0, <1>1, <1>5, <1>7, <3>0, <3>1, <3>2, <3>3, <3>4, <3>5, <3>6
         DEF ProducerTypeOK
    <3>8. \A q \in Producer \ {p} : Unmoved(q)
      BY <1>0, <1>1, <1>7, <3>0, <3>1, <3>2, <3>3, <3>5, <3>6 DEF Unmoved
    <3>9. p \in lent /\ waiter[p] = "none" /\ ~returned[p] /\ ~early[p]
      BY <2>1 DEF ProducerIInv, Lifecycle
    <3>10. Lifecycle(p)'
      BY <3>9, <1>0, <3>1, <3>2 DEF Lifecycle, Cause
    <3>11. LinkIsRight(p)'
      <4>1. LinkIsRight(p) /\ UNCHANGED <<call, chain, commitFailed>> /\ ending'[p] = "none"
        BY <1>0, <1>1, <1>7, <3>0 DEF ProducerIInv
      <4>2. CASE who = "chain"
        BY <4>1, <4>2, <2>c, <3>3 DEF LinkIsRight
      <4>3. CASE who # "chain"
        BY <4>1, <4>3, <3>2, <3>3 DEF LinkIsRight
      <4> QED BY <4>2, <4>3
    <3>12. ASSUME Quiet, Quiet' PROVE Settled(p)'
      <4>0. Settled(p)
        BY <3>12 DEF ProducerIInv
      <4>1. \A i \in Calls : call'[p][i] \notin {"sender", "beginning"}
        BY <3>12, <3>6, <1>0 DEF Quiet
      <4>2. ~tx'[p]
        BY <4>0, <1>0, <1>7 DEF Settled, SessionIsRight
      <4>3. Resting(p)'
        BY <4>1, <4>2, <1>1 DEF Resting
      <4>4. Awaited(p)'
        BY <4>0, <1>0, <3>0, <3>5, <3>9 DEF Awaited, Settled
      <4> QED BY <4>2, <4>3, <4>4, <3>12, <1>0, <1>5, <1>7 DEF Settled
    <3> QED BY <1>0, <1>3, <1>5, <1>7, <3>7, <3>8, <3>9, <3>10, <3>11, <3>12 DEF StepOf
  <2>2. CASE ~active[p]
    <3>0. /\ release' = IF who = "release" THEN Put(release, p, "settled") ELSE release
          /\ LinkMoves(p, who = "chain") /\ UNCHANGED <<active, waiter, early>>
      BY <1>7, <2>2, <2>c DEF BaseRelease, Proceed, LinkMoves, ProducerIInv, LinkIsRight
    <3>1. /\ chain' \in [Producer -> Seq(Calls)]
          /\ link' \in [Producer -> {"next", "committing", "releasing", "rejected"}]
          /\ ahead' \in [Producer -> Nat]
          /\ \A q \in Producer \ {p} :
               chain'[q] = chain[q] /\ link'[q] = link[q] /\ ahead'[q] = ahead[q]
          /\ who = "chain" => link'[p] = "next"
          /\ who # "chain" => chain' = chain /\ link' = link
      BY <1>t, <3>0, LinkMoved DEF LinkMoves
    <3>2. release' \in [Producer -> {"none", "pending", "settled", "rejected"}]
      <4>1. release \in [Producer -> {"none", "pending", "settled", "rejected"}]
        BY <1>t DEF ProducerTypeOK
      <4> QED BY <4>1, <3>0 DEF Put
    <3>3. ProducerTypeOK'
      BY <1>t, <1>0, <1>1, <1>5, <1>7, <3>0, <3>1, <3>2 DEF ProducerTypeOK
    <3>4. \A q \in Producer \ {p} : Unmoved(q)
      BY <1>0, <1>1, <1>7, <3>0, <3>1 DEF Unmoved
    <3>5. Lifecycle(p)'
      BY <1>0, <3>0 DEF ProducerIInv, Lifecycle
    <3>6. LinkIsRight(p)'
      <4>1. /\ LinkIsRight(p) /\ ending'[p] = "none"
            /\ UNCHANGED <<call, commitFailed, waiter, returned>>
        BY <1>0, <1>1, <1>7, <3>0 DEF ProducerIInv
      <4>2. CASE who = "chain"
        <5>1. ~(waiter[p] = "chain" /\ ~returned[p]) /\ link'[p] = "next"
          BY <4>1, <4>2, <2>c, <3>1 DEF LinkIsRight
        <5> QED BY <5>1, <4>1 DEF LinkIsRight
      <4>3. CASE who # "chain"
        BY <4>1, <4>3, <3>1 DEF LinkIsRight
      <4> QED BY <4>2, <4>3
    <3>7. ~Quiet
      BY <2>2, <1>2
    <3> QED BY <1>0, <1>3, <1>5, <1>7, <3>0, <3>3, <3>4, <3>5, <3>6, <3>7 DEF StepOf
  <2> QED BY <2>1, <2>2, <1>t DEF ProducerTypeOK
<1>8. \/ /\ SetSession(p, "ready")
         /\ tx' = IF ending[p] \in {"abort", "commit"} THEN Put(tx, p, FALSE) ELSE tx
         /\ IF ending[p] \in {"abort", "commit"}
            THEN UNCHANGED <<active, chain, link, waiter, ahead, early, release>>
            ELSE BaseRelease(p, ending[p])
         /\ UNCHANGED <<commitFailed, faults>>
      \/ /\ MayFault /\ faults' = faults + 1 /\ CommitFails(p, ending[p])
         /\ UNCHANGED <<active, tx, chain, waiter, ahead, early, session>>
  BY DEF EndSettles
<1> QED BY <1>4, <1>6, <1>7, <1>8

(* A provider is being destroyed: only itself changes.                     *)
LEMMA DestroyKeeps ==
  ASSUME ProducerIInv, destroying' \in {"no", "draining", "done"},
         UNCHANGED <<kind, provider, lent, clientVars, session, releaseVars, faults>>
  PROVE  ProducerIInv'
<1>1. ProducerTypeOK' /\ OneBorrower' /\ OneSession'
  BY DEF ProducerIInv, ProducerTypeOK, OneBorrower, OneSession, clientVars, releaseVars
<1>2. /\ Quiet' <=> Quiet
      /\ \A p \in Producer : /\ Beginning(p)' <=> Beginning(p)
                             /\ \A q \in Producer : Shares(p, q)' <=> Shares(p, q)
  BY DEF Quiet, Beginning, Shares, clientVars, releaseVars
<1>3. \A p \in Producer : (Lifecycle(p) => Lifecycle(p)') /\ (LinkIsRight(p) => LinkIsRight(p)')
  BY DEF Lifecycle, LinkIsRight, clientVars, releaseVars
<1>4. \A p \in Producer : Settled(p) => Settled(p)'
  BY <1>2 DEF Settled, Resting, Awaited, SessionIsRight, clientVars, releaseVars
<1> QED BY <1>1, <1>2, <1>3, <1>4 DEF ProducerIInv

(* The invariant holds before any producer is created.                     *)
LEMMA ProducersBegin == ASSUME ProducerInit PROVE ProducerIInv
<1>1. ProducerTypeOK
  BY DEF ProducerInit, ProducerTypeOK
<1>2. OneBorrower /\ OneSession
  BY DEF ProducerInit, OneBorrower, OneSession
<1>3. \A p \in Producer : Lifecycle(p) /\ LinkIsRight(p)
  BY DEF ProducerInit, Lifecycle, LinkIsRight
<1>4. \A p \in Producer : ~Beginning(p)
  BY DEF ProducerInit, Beginning
<1>5. \A p \in Producer : Settled(p)
  BY <1>4 DEF ProducerInit, Settled, Resting, Awaited, SessionIsRight
<1> QED BY <1>1, <1>2, <1>3, <1>5 DEF ProducerIInv

(* Every step preserves it.                                                *)
LEMMA ProducersStep == ASSUME ProducerIInv, [ProducerNext]_producerVars PROVE ProducerIInv'
<1>1. CASE UNCHANGED producerVars
  BY <1>1, DestroyKeeps DEF producerVars, ProducerIInv, ProducerTypeOK
<1>2. CASE Destroy \/ DestroySettles
  BY <1>2, DestroyKeeps DEF Destroy, DestroySettles
<1>3. ASSUME NEW p \in Producer,
             \/ Create(p) \/ Release(p) \/ Commit(p) \/ Abort(p) \/ ClientStep(p)
             \/ \E i \in Calls : Send(p, i)
      PROVE  StepOf(p)
  BY <1>3, CreateSteps, ReleaseSteps, CommitSteps, AbortSteps, SendSteps, ReturnSteps,
     ChainNextSteps,
     EndSettlesSteps, SenderSteps, BegunSteps, SendSettlesSteps DEF ClientStep
<1> QED BY <1>1, <1>2, <1>3, StepOfOne DEF ProducerNext

(* The inductive invariant holds, for any number of producers, calls and   *)
(* faults.                                                                 *)
THEOREM ProducersInvariance == ProducerSpec => []ProducerIInv
<1>1. ProducerInit => ProducerIInv
  BY ProducersBegin
<1>2. ProducerIInv /\ [ProducerNext]_producerVars => ProducerIInv'
  BY ProducersStep
<1> QED BY <1>1, <1>2, PTL DEF ProducerSpec

(* The producers and their connections keep their types.                   *)
THEOREM ProducersTypeCorrect == ProducerSpec => []ProducerTypeOK
<1>1. ProducerIInv => ProducerTypeOK
  BY DEF ProducerIInv
<1> QED BY <1>1, ProducersInvariance, PTL

(* onRelease is called for a producer that nobody released early, with no  *)
(* failed commit: allMessageSend was empty, and its transaction had ended. *)
LEMMA ReturnsAtRest ==
  ASSUME ProducerIInv, Quiet, NEW p \in Producer, Return(p)
  PROVE  /\ \A i \in Calls : call[p][i] \notin {"sender", "beginning", "sending", "doomed"}
         /\ session[p] = "ready"
<1>1. /\ waiter[p] # "none" /\ ~returned[p] /\ (ahead[p] = 0 \/ link[p] = "rejected")
      /\ Lifecycle(p) /\ LinkIsRight(p) /\ Settled(p) /\ ~commitFailed[p]
  BY DEF Return, ProducerIInv, Quiet
<1>2. p \in lent /\ ~active[p] /\ ahead[p] = 0
  BY <1>1 DEF Lifecycle, LinkIsRight
<1>3. Len(chain[p]) = 0
  BY <1>1, <1>2 DEF Settled, Awaited
<1>4. \A i \in Calls : call[p][i] \notin {"sender", "beginning", "sending", "doomed"}
  BY <1>1, <1>2, <1>3 DEF Settled, Resting, Awaited
<1>5. \A q \in Producer : Shares(p, q) => ~tx[q] /\ ~Beginning(q) /\ ending[q] = "none"
  <2> SUFFICES ASSUME NEW q \in Producer, Shares(p, q)
               PROVE  ~tx[q] /\ ~Beginning(q) /\ ending[q] = "none"
    OBVIOUS
  <2>1. ~active[q]
    BY <1>2 DEF ProducerIInv, Lifecycle, OneBorrower, Shares
  <2> QED BY <2>1 DEF ProducerIInv, Settled, Resting, Beginning
<1>6. session[p] \in {"ready", "open", "ending"}
  BY DEF ProducerIInv, ProducerTypeOK
<1>7. session[p] = "ready"
  BY <1>1, <1>5, <1>6 DEF Settled, SessionIsRight
<1> QED BY <1>4, <1>7

(* Only Return() gives a connection back.                                  *)
LEMMA OnlyReturnReturns ==
  ASSUME ProducerIInv, [ProducerNext]_producerVars, NEW p \in Producer, returned'[p], ~returned[p]
  PROVE  Return(p)
<1>1. returned' # returned
  OBVIOUS
<1>2. ASSUME NEW q \in Producer, Return(q) PROVE q = p
  BY <1>2 DEF Return, Put, ProducerIInv, ProducerTypeOK
<1>3. ASSUME NEW q \in Producer, ~Return(q),
             \/ Create(q) \/ Release(q) \/ Commit(q) \/ Abort(q) \/ ClientStep(q)
             \/ \E i \in Calls : Send(q, i)
      PROVE  returned' = returned
  <2>1. ASSUME NEW i \in Calls, Sender(q, i) \/ Begun(q, i) \/ SendSettles(q, i) \/ Send(q, i)
        PROVE  returned' = returned
    BY <2>1 DEF Sender, Begun, SendSettles, Send, releaseVars
  <2> QED BY <1>3, <2>1 DEF Create, Release, Commit, Abort, ClientStep, ChainNext, EndSettles,
     releaseVars
<1>4. Destroy \/ DestroySettles \/ UNCHANGED producerVars => returned' = returned
  BY DEF Destroy, DestroySettles, releaseVars, producerVars
<1> QED BY <1>1, <1>2, <1>3, <1>4 DEF ProducerNext

(* A connection that is given back is at rest (base-message-producer.ts:75)*)
THEOREM ConnectionsReturnAtRest == ProducerSpec => ReturnedAtRest
<1>1. ASSUME ProducerIInv, [ProducerNext]_producerVars, NEW p \in Producer,
             returned'[p], ~returned[p], \A q \in Producer : ~early[q] /\ ~commitFailed[q]
      PROVE  /\ \A i \in Calls : call[p][i] \notin {"sender", "beginning", "sending", "doomed"}
             /\ session[p] = "ready"
  BY <1>1, OnlyReturnReturns, ReturnsAtRest DEF Quiet
<1>2. ProducerIInv /\ [ProducerNext]_producerVars =>
        [\A p \in Producer :
           returned'[p] /\ ~returned[p] /\ (\A q \in Producer : ~early[q] /\ ~commitFailed[q])
             => /\ \A i \in Calls : call[p][i] \notin {"sender", "beginning", "sending", "doomed"}
                /\ session[p] = "ready"]_producerVars
  BY <1>1
<1> QED BY <1>2, ProducersInvariance, PTL DEF ProducerSpec, ReturnedAtRest
=============================================================================
