--------------------------- MODULE BackgroundTasks ---------------------------
(***************************************************************************)
(* BackgroundTaskQueue (packages/core/src/builtins.ts): one chain of       *)
(* promises.  A task is a promise of the application, whose work is under  *)
(* way already, or a function that is called when the link before it has   *)
(* fulfilled.                                                              *)
(***************************************************************************)
EXTENDS Naturals, Sequences

CONSTANT MaxTasks   \* bound: tasks that are dispatched

ASSUME TasksAssumption == MaxTasks \in Nat

VARIABLES
  dispatched,  \* the links of #taskFinished, oldest first
  awaited      \* how many of them waitAllTaskFinished() found

taskVars == <<dispatched, awaited>>

Ended == {"fulfilled", "rejected", "threw"}

Task == [kind : {"promise", "function"}, is : {"due", "running"} \cup Ended]

TasksTypeOK ==
  /\ dispatched \in Seq(Task) /\ Len(dispatched) <= MaxTasks
  /\ awaited \in 0 .. Len(dispatched)

TasksInit == dispatched = <<>> /\ awaited = 0

(* What a link does once the one before it has fulfilled: a promise hands  *)
(* on its rejection, a function only an exception that it throws before it *)
(* returns a promise.                                                      *)
LinkOf(t) ==
  CASE t.is \in {"due", "running"} -> "pending"
    [] t.is = "threw" \/ (t.is = "rejected" /\ t.kind = "promise") -> "rejected"
    [] OTHER -> "fulfilled"

(* #taskFinished as it was after n calls of dispatch().                    *)
TaskFinished[n \in Nat] ==
  IF n = 0 THEN "fulfilled"
  ELSE IF TaskFinished[n - 1] # "fulfilled" THEN TaskFinished[n - 1]
  ELSE LinkOf(dispatched[n])

Dispatch(kind) ==
  /\ Len(dispatched) < MaxTasks
  /\ dispatched' = Append(dispatched, [kind |-> kind,
                                       is |-> IF kind = "promise" THEN "running" ELSE "due"])
  /\ UNCHANGED awaited

(* Mutant: a function is called without a look at the link before it.      *)
CallTaskAtOnce(i) ==
  /\ dispatched[i].is = "due"
  /\ \E is \in {"running", "threw"} : dispatched' = [dispatched EXCEPT ![i].is = is]
  /\ UNCHANGED awaited

(* The link before it has fulfilled: the function is called.               *)
CallTask(i) ==
  /\ dispatched[i].is = "due" /\ TaskFinished[i - 1] = "fulfilled"
  /\ \E is \in {"running", "threw"} : dispatched' = [dispatched EXCEPT ![i].is = is]
  /\ UNCHANGED awaited

TaskSettles(i) ==
  /\ dispatched[i].is = "running"
  /\ \E is \in {"fulfilled", "rejected"} : dispatched' = [dispatched EXCEPT ![i].is = is]
  /\ UNCHANGED awaited

TaskStep ==
  \/ \E kind \in {"promise", "function"} : Dispatch(kind)
  \/ \E i \in DOMAIN dispatched : CallTask(i) \/ TaskSettles(i)

(* waitAllTaskFinished() awaits the chain as it is now.                    *)
WaitAllTaskFinished == awaited' = Len(dispatched) /\ UNCHANGED dispatched
==============================================================================
