-------------------------- MODULE AsyncIterableQueue --------------------------
(***************************************************************************)
(* packages/utility/src/async-iterable-queue.ts: a queue without a buffer  *)
(* between calls of push(), abort() and finish() and one reader that       *)
(* iterates over it with for await.                                        *)
(*                                                                         *)
(* Every producing call first awaits #promiseQueue, the gate.  The calls   *)
(* that wait for one gate are resumed together, in their order, before     *)
(* anything else runs (ready), whatever the first of them makes of the     *)
(* state and of the gate.  This module holds the state of the queue and    *)
(* its operations; Multipart supplies the producer.                        *)
(***************************************************************************)
EXTENDS Naturals, Sequences, SequencesExt

CONSTANTS
  Value,      \* what is pushed, each value once
  None        \* no value

ASSUME NoneAssumption == None \notin Value

VARIABLES
  at,         \* #state.state
  reason,     \* #state.reason is set
  value,      \* the value promise of AWAITING_PULL
  transit,    \* the value whose settling will open the gate, pushed in AWAITING_PUSH
  gate,       \* #promiseQueue: fulfilled ("open"), about to be, or pending
  waiting,    \* the calls that await the pending gate, in order
  ready,      \* the calls whose await is over, in order
  promise,    \* promise[v]: the promise pushed for v
  reader,     \* the for await loop
  received,   \* the values the loop body has seen
  thrown      \* the operations that threw one of the class's own assertions

queueVars == <<at, reason, value, transit, gate, waiting, ready, promise, reader,
               received, thrown>>

Call == [op : {"push", "abort", "finish"}, of : Value \cup {None}]

Ended == {"done", "failed", "left"}

QueueTypeOK ==
  /\ at \in {"idle", "awaitingPull", "awaitingPush", "closed"}
  /\ reason \in BOOLEAN
  /\ value \in Value \cup {None}
  /\ transit \in Value \cup {None}
  /\ gate \in {"open", "opening", "shut"}
  /\ waiting \in Seq(Call)
  /\ ready \in Seq(Call)
  /\ promise \in [Value -> {"none", "pending", "ok", "failed"}]
  /\ reader \in {"busy", "pending", "pulling", "leaving"} \cup Ended
  /\ received \in Seq(Value)
  /\ thrown \subseteq {"push", "abort", "finish", "next"}

QueueInit ==
  /\ at = "idle" /\ reason = FALSE /\ value = None /\ transit = None
  /\ gate = "open" /\ waiting = <<>> /\ ready = <<>>
  /\ promise = [v \in Value |-> "none"]
  /\ reader = "busy" /\ received = <<>> /\ thrown = {}

(* Between two groups of resumed calls anything may run ...                *)
Quiescent == ready = <<>>

(* ... but in the few turns between the finally() of a value in transit    *)
(* and the gate it opens, only the reader that got the value does.         *)
Idle == Quiescent /\ gate # "opening"

(* push(), abort() or finish() is called: await this.#promiseQueue.        *)
Enter(c) ==
  IF gate = "open"
  THEN ready' = Append(ready, c) /\ UNCHANGED waiting
  ELSE waiting' = Append(waiting, c) /\ UNCHANGED ready

-----------------------------------------------------------------------------
(* The continuations of the producing calls.                               *)

PushResumes(v) ==
  \/ /\ at = "idle"
     /\ at' = "awaitingPull" /\ value' = v /\ gate' = "shut"
     /\ UNCHANGED <<transit, thrown>>
  \/ /\ at = "awaitingPush"
     /\ transit' = v /\ gate' = "shut"
     /\ UNCHANGED <<at, value, thrown>>
  \/ /\ at \in {"closed", "awaitingPull"}
     /\ thrown' = IF at = "closed" THEN thrown ELSE thrown \cup {"push"}
     /\ UNCHANGED <<at, value, gate, transit>>

(* Mutant: finish() closes the queue without a word to the reader.         *)
CloseResumesSilently(op) ==
  /\ at \in {"idle", "awaitingPush", "closed"}
  /\ at' = "closed" /\ reason' = (op = "abort")
  /\ reader' = IF op = "abort" /\ reader = "pending" THEN "failed" ELSE reader
  /\ UNCHANGED thrown

(* abort(e) and finish() reject the next() that awaits a push, with e or   *)
(* with null, which next() turns into the end of the iteration.            *)
CloseResumes(op) ==
  \/ /\ at \in {"idle", "awaitingPush"}
     /\ at' = "closed" /\ reason' = (op = "abort")
     /\ reader' = IF at = "awaitingPush" /\ reader = "pending"
                  THEN IF op = "abort" THEN "failed" ELSE "done"
                  ELSE reader
     /\ UNCHANGED thrown
  \/ /\ at \in {"closed", "awaitingPull"}
     /\ thrown' = IF at = "closed" THEN thrown ELSE thrown \cup {op}
     /\ UNCHANGED <<at, reason, reader>>

-----------------------------------------------------------------------------
(* The reader: next(), its continuations, and return().                    *)

(* next() is called.  In AWAITING_PUSH it would throw 'Illegal State'.      *)
NextEntry ==
  /\ Quiescent /\ reader = "busy"
  /\ \/ /\ at = "idle"
        /\ at' = "awaitingPush" /\ reader' = "pending"
     \/ /\ at = "awaitingPull"
        /\ reader' = "pulling" /\ UNCHANGED at
     \/ /\ at = "closed"
        /\ reader' = IF reason THEN "failed" ELSE "done"
        /\ UNCHANGED at
  /\ UNCHANGED <<reason, value, transit, gate, waiting, ready, promise, received, thrown>>

(* await valuePromise: its value opens the gate.  A rejection leaves the   *)
(* loop, and the state and the gate as they are.                           *)
Pulled ==
  /\ Idle /\ reader = "pulling"
  /\ \/ /\ promise[value] = "ok"
        /\ received' = Append(received, value)
        /\ gate' = "open" /\ ready' = waiting /\ waiting' = <<>>
        /\ at' = "idle" /\ value' = None /\ reader' = "busy"
     \/ /\ promise[value] = "failed"
        /\ reader' = "failed"
        /\ UNCHANGED <<received, gate, ready, waiting, at, value>>
  /\ UNCHANGED <<reason, transit, promise, thrown>>

(* valuePromise.then(resolve, reject).finally(...): the reader that awaits *)
(* the push gets the value, and the state becomes IDLE whatever it was.  A *)
(* rejection finds the state not CLOSED and next() throws its own error.   *)
TransitSettles ==
  /\ Idle /\ transit # None /\ promise[transit] \in {"ok", "failed"}
  /\ IF reader = "pending"
     THEN IF promise[transit] = "ok"
          THEN /\ received' = Append(received, transit) /\ reader' = "busy"
               /\ UNCHANGED thrown
          ELSE /\ reader' = "failed" /\ thrown' = thrown \cup {"next"}
               /\ UNCHANGED received
     ELSE UNCHANGED <<received, reader, thrown>>
  /\ at' = "idle" /\ reason' = FALSE /\ transit' = None /\ gate' = "opening"
  /\ UNCHANGED <<value, waiting, ready, promise>>

GateOpens ==
  /\ Quiescent /\ gate = "opening"
  /\ gate' = "open" /\ ready' = waiting /\ waiting' = <<>>
  /\ UNCHANGED <<at, reason, value, transit, promise, reader, received, thrown>>

(* The loop body breaks or throws: return() closes the queue, and waits    *)
(* for the value that nobody will read.                                    *)
Return ==
  /\ Quiescent /\ reader = "busy"
  /\ reader' = IF at = "awaitingPull" THEN "leaving" ELSE "left"
  /\ at' = "closed" /\ reason' = FALSE
  /\ UNCHANGED <<value, transit, gate, waiting, ready, promise, received, thrown>>

Returned ==
  /\ Idle /\ reader = "leaving" /\ promise[value] \in {"ok", "failed"}
  /\ reader' = "left"
  /\ UNCHANGED <<at, reason, value, transit, gate, waiting, ready, promise, received, thrown>>

ReaderStep == NextEntry \/ Pulled \/ TransitSettles \/ GateOpens \/ Return \/ Returned
===============================================================================
