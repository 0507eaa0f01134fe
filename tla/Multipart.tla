------------------------------ MODULE Multipart ------------------------------
(***************************************************************************)
(* packages/multipart/src/index.ts: Multipart, between a parser (busboy),  *)
(* a storage for files and the reader of entries().                        *)
(*                                                                         *)
(* The parser's events chain the pushes one behind the other; its limit    *)
(* and error events abort the queue at once, beside the chain.  A file is  *)
(* being stored while its promise is pending.  The http adaptor runs the   *)
(* reader and then awaits the cleanup function.                            *)
(***************************************************************************)
EXTENDS AsyncIterableQueue

CONSTANTS
  File,         \* the parts that are files
  MayFail,      \* the files whose storing may fail
  MaxAborts,    \* at most so many limit and error events
  MayLeave      \* the loop may break before the end of the body

ASSUME MultipartAssumption ==
  /\ Value \subseteq Nat \ {0} /\ File \subseteq Value /\ MayFail \subseteq File
  /\ MaxAborts \in Nat /\ MayLeave \in BOOLEAN

VARIABLES
  parser,       \* busboy: "open", "finished" or "failed"
  parsed,       \* the parts it has emitted
  aborts,       \* the aborts it has asked for
  chain,        \* #promiseQueue of Multipart: what is left of it
  pushing,      \* the part whose push() the chain awaits
  cleanup,      \* the cleanup function: "none", "called" or "done"
  owed          \* the links of the chain it still awaits

chainVars == <<parser, parsed, aborts, chain, pushing, cleanup, owed>>
vars == <<queueVars, chainVars>>

Finish == [op |-> "finish", of |-> None]
Abort  == [op |-> "abort", of |-> None]
Push(v) == [op |-> "push", of |-> v]

TypeOK ==
  /\ QueueTypeOK
  /\ parser \in {"open", "finished", "failed"}
  /\ parsed \in Seq(Value)
  /\ aborts \in 0 .. MaxAborts
  /\ chain \in Seq(Call)
  /\ pushing \in Value \cup {None}
  /\ cleanup \in {"none", "called", "done"}
  /\ owed \in Nat

Init ==
  /\ QueueInit
  /\ parser = "open" /\ parsed = <<>> /\ aborts = 0
  /\ chain = <<>> /\ pushing = None
  /\ cleanup = "none" /\ owed = 0

-----------------------------------------------------------------------------
(* The parser.                                                             *)

(* 'file' and 'field': the push is chained behind the earlier ones.        *)
ParsePart(v) ==
  /\ Idle /\ parser = "open"
  /\ v = Len(parsed) + 1
  /\ parsed' = Append(parsed, v)
  /\ chain' = Append(chain, Push(v))
  /\ UNCHANGED <<queueVars, parser, aborts, pushing, cleanup, owed>>

(* 'partsLimit', 'filesLimit', 'fieldsLimit', a truncated field, 'error'   *)
(* and the failure of the pipeline: queue.abort() at once, not awaited.    *)
ParserAborts ==
  /\ Idle /\ parser = "open" /\ aborts < MaxAborts
  /\ aborts' = aborts + 1
  /\ parser' \in {"open", "failed"}
  /\ Enter(Abort)
  /\ UNCHANGED <<at, reason, value, transit, gate, promise, reader, received, thrown,
                 parsed, chain, pushing, cleanup, owed>>

(* Mutant: 'finish' is not chained behind the parts.                       *)
ParserFinishesAtOnce ==
  /\ Idle /\ parser = "open"
  /\ \A v \in File : (\E i \in 1 .. Len(parsed) : parsed[i] = v) => promise[v] # "none"
  /\ parser' = "finished"
  /\ Enter(Finish)
  /\ UNCHANGED <<at, reason, value, transit, gate, promise, reader, received, thrown,
                 parsed, aborts, chain, pushing, cleanup, owed>>

(* 'finish': busboy waits until the streams of all files have been read,   *)
(* which their storing begins; their promises may be pending still.        *)
ParserFinishes ==
  /\ Idle /\ parser = "open"
  /\ \A v \in File : (\E i \in 1 .. Len(parsed) : parsed[i] = v) => promise[v] # "none"
  /\ parser' = "finished"
  /\ chain' = Append(chain, Finish)
  /\ UNCHANGED <<queueVars, parsed, aborts, pushing, cleanup, owed>>

-----------------------------------------------------------------------------
(* The chain.                                                              *)

(* Mutant: the link does not return the promise of push().                 *)
ChainStepUnawaited ==
  /\ Idle /\ chain # <<>>
  /\ LET c == Head(chain)
     IN /\ Enter(c)
        /\ IF c.op = "push"
           THEN /\ pushing' = c.of
                /\ promise' = [promise EXCEPT ![c.of] = IF c.of \in File THEN "pending" ELSE "ok"]
                /\ UNCHANGED owed
           ELSE /\ owed' = IF owed > 0 THEN owed - 1 ELSE 0
                /\ UNCHANGED <<pushing, promise>>
  /\ chain' = Tail(chain)
  /\ UNCHANGED <<at, reason, value, transit, gate, reader, received, thrown,
                 parser, parsed, aborts, cleanup>>

(* The next link runs: it stores the file and calls push(), or it calls    *)
(* finish() without waiting for it.                                        *)
ChainStep ==
  /\ Idle /\ pushing = None /\ chain # <<>>
  /\ LET c == Head(chain)
     IN /\ Enter(c)
        /\ IF c.op = "push"
           THEN /\ pushing' = c.of
                /\ promise' = [promise EXCEPT ![c.of] = IF c.of \in File THEN "pending" ELSE "ok"]
                /\ UNCHANGED owed
           ELSE /\ owed' = IF owed > 0 THEN owed - 1 ELSE 0
                /\ UNCHANGED <<pushing, promise>>
  /\ chain' = Tail(chain)
  /\ UNCHANGED <<at, reason, value, transit, gate, reader, received, thrown,
                 parser, parsed, aborts, cleanup>>

(* Storing a file ends.                                                    *)
FileSettles(v) ==
  /\ Idle /\ promise[v] = "pending"
  /\ promise' \in {[promise EXCEPT ![v] = "ok"]}
                  \cup IF v \in MayFail THEN {[promise EXCEPT ![v] = "failed"]} ELSE {}
  /\ UNCHANGED <<at, reason, value, transit, gate, waiting, ready, reader, received,
                 thrown, chainVars>>

(* The first of the resumed calls goes on; a push that returns lets the    *)
(* chain go on.                                                            *)
CallResumes ==
  /\ ready # <<>>
  /\ ready' = Tail(ready)
  /\ LET c == Head(ready)
     IN IF c.op = "push"
        THEN /\ PushResumes(c.of)
             /\ pushing' = None
             /\ owed' = IF owed > 0 THEN owed - 1 ELSE 0
             /\ UNCHANGED <<reason, reader>>
        ELSE /\ CloseResumes(c.op)
             /\ UNCHANGED <<value, transit, gate, pushing, owed>>
  /\ UNCHANGED <<waiting, promise, received, parser, parsed, aborts, chain, cleanup>>

-----------------------------------------------------------------------------
(* The reader, and the cleanup function after it.                          *)

Read ==
  /\ ReaderStep
  /\ ~MayLeave => reader' \notin {"leaving", "left"}
  /\ UNCHANGED chainVars

(* #destroy awaits the chain as it is at that moment.                      *)
CallCleanup ==
  /\ Idle /\ reader \in Ended /\ cleanup = "none"
  /\ cleanup' = "called"
  /\ owed' = Len(chain) + IF pushing = None THEN 0 ELSE 1
  /\ UNCHANGED <<queueVars, parser, parsed, aborts, chain, pushing>>

CleanupReturns ==
  /\ cleanup = "called" /\ owed = 0
  /\ cleanup' = "done"
  /\ UNCHANGED <<queueVars, parser, parsed, aborts, chain, pushing, owed>>

-----------------------------------------------------------------------------
Parser == (\E v \in Value : ParsePart(v)) \/ ParserAborts \/ ParserFinishes

Next ==
  \/ Parser
  \/ ChainStep \/ CallResumes
  \/ \E v \in File : FileSettles(v)
  \/ Read
  \/ CallCleanup \/ CleanupReturns

Spec == Init /\ [][Next]_vars

(* The body ends, files are stored or fail, continuations run, and the     *)
(* loop goes on or leaves.                                                 *)
Fairness ==
  /\ WF_vars(Parser)
  /\ WF_vars(ChainStep) /\ WF_vars(CallResumes)
  /\ \A v \in File : WF_vars(FileSettles(v))
  /\ WF_vars(Read)
  /\ WF_vars(CallCleanup) /\ WF_vars(CleanupReturns)

FairSpec == Spec /\ Fairness

-----------------------------------------------------------------------------
(* The inductive invariant.                                                *)

(* The parts whose push() the chain has called ...                         *)
Begun ==
  Len(parsed) - (Len(chain) - IF parser = "finished" /\ chain # <<>> THEN 1 ELSE 0)

(* ... and those for which it has returned.                                *)
ReturnedPushes == Begun - IF pushing = None THEN 0 ELSE 1

(* Parts are numbered as they come.  What is left of the chain are the     *)
(* pushes of the last of them in their order, and finish() behind them.    *)
ChainInv ==
  /\ \A i \in 1 .. Len(parsed) : parsed[i] = i
  /\ \A i \in 1 .. Len(chain) :
       chain[i] = IF parser = "finished" /\ i = Len(chain) THEN Finish ELSE Push(Begun + i)
  /\ Begun \in Nat
  /\ pushing # None => pushing = Begun

(* finish() was called, and it is the last that the chain does.            *)
FinishCalled == parser = "finished" /\ chain = <<>> /\ pushing = None

(* Beside the aborts, the push p or a finish is all there is among the     *)
(* calls that wait.                                                        *)
ChainHasOne(calls, p, finishing) ==
  \A i \in 1 .. Len(calls) :
    /\ calls[i].op = "push" =>
         /\ p # None /\ calls[i].of = p
         /\ \A j \in 1 .. Len(calls) : calls[j].op # "abort" => j = i
    /\ calls[i].op = "finish" => finishing

OnlyAborts(calls) == \A i \in 1 .. Len(calls) : calls[i].op = "abort"

(* The gate is shut for one value, and until it opens again only aborts    *)
(* are resumed.                                                            *)
GateInv ==
  /\ ChainHasOne(waiting, pushing, FinishCalled)
  /\ ChainHasOne(ready, pushing, FinishCalled)
  /\ ready = <<>> \/ waiting = <<>>
  /\ gate = "open" => waiting = <<>>
  /\ gate = "opening" => ready = <<>>
  /\ gate = "shut" <=> (value # None \/ transit # None)
  /\ gate = "shut" => OnlyAborts(ready)

(* The state of the queue says whom it waits for.                          *)
StateInv ==
  /\ value = None \/ transit = None
  /\ at = "idle" => value = None /\ transit = None
  /\ at = "awaitingPull" => value # None
  /\ at = "awaitingPush" => value = None
  /\ at = "closed" /\ value # None => reader \in {"leaving", "left"}
  /\ at = "closed" /\ transit # None => reader \in Ended
  /\ reader = "pending" <=> at = "awaitingPush"
  /\ reader = "pulling" => at = "awaitingPull"
  /\ reader = "leaving" => value # None

(* While the queue is open, what was pushed and has not been received is   *)
(* the one value the gate is shut for.                                     *)
DeliveryInv ==
  /\ \A i \in 1 .. Len(received) : received[i] = i
  /\ reader \notin Ended /\ at # "closed" =>
       IF gate = "shut"
       THEN /\ ReturnedPushes = Len(received) + 1
            /\ value # None => value = ReturnedPushes
            /\ transit # None => transit = ReturnedPushes
       ELSE ReturnedPushes = Len(received)
  /\ reader = "busy" /\ at = "closed" /\ ~reason =>
       parser = "finished" /\ Len(received) = Len(parsed)
  /\ thrown \cap {"push", "finish"} = {}

(* next() throws its own assertion only to a reader that lost a file.      *)
FailureInv ==
  /\ \A v \in Value : promise[v] # "none" => v <= Begun
  /\ \A v \in Value : promise[v] = "failed" => v \in File
  /\ "next" \in thrown => reader = "failed" /\ \E v \in File : promise[v] = "failed"

IInv == TypeOK /\ ChainInv /\ GateInv /\ StateInv /\ DeliveryInv /\ FailureInv

-----------------------------------------------------------------------------
(* Safety                                                                  *)

(* The queue and the chain implement a stream of entries.                  *)
Stream == INSTANCE EntryStream WITH
  Part     <- Value,
  complete <- parser = "finished",
  outcome  <- IF reader \in Ended THEN reader ELSE "reading"

KeepsStream == Stream!Spec

(* What the queue holds impossible.  The chain calls push() and finish()   *)
(* only when the queue can take them (an assertion thrown there would      *)
(* reject every link behind it), and next() is not called while a value is *)
(* awaited ('Illegal State').  The assertion behind the rejection of       *)
(* next(), 'BUG: Invalid State' (async-iterable-queue.ts:163), does not    *)
(* hold: a file that cannot be stored while the reader awaits its push     *)
(* meets it.  It is thrown in no other case, and ends the reading: what it *)
(* takes the place of is the error of the storage.                         *)
AssertionsHold ==
  /\ thrown \cap {"push", "finish"} = {}
  /\ at = "awaitingPush" => reader = "pending"
  /\ "next" \in thrown => reader = "failed" /\ \E v \in File : promise[v] = "failed"

(* Liveness: a body that the parser does not complain of, whose files are  *)
(* all stored, is read to its end by a loop that does not leave, and the   *)
(* cleanup function that is awaited after it returns.                      *)
CleanBodyIsRead ==
  [](reader # "left" /\ aborts = 0 /\ \A v \in File : promise[v] # "failed") =>
    <>(reader = "done" /\ received = parsed /\ cleanup = "done")
==============================================================================
