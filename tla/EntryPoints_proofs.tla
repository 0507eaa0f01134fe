-------------------------- MODULE EntryPoints_proofs --------------------------
(***************************************************************************)
(* Proofs of the safety properties of ApplicationRunner, of BackgroundTasks*)
(* and of EntryPoints, which composes them.                                *)
(***************************************************************************)
EXTENDS EntryPoints, TLAPS, WellFoundedInduction

-----------------------------------------------------------------------------
(* The runner by itself.                                                   *)

(* The initial states satisfy the invariant.                               *)
LEMMA InitEstablishes == Init => IInv
<1>1. None \notin Code \cup {Crash} /\ NormalExit \in Code
  BY RunnerAssumption
<1>2. MaxOccurrences \in Nat
  BY RunnerAssumption
<1>. QED
  BY <1>1, <1>2 DEF Init, IInv, TypeOK

(* The exit code of a cause is an exit code, and the normal one only for a *)
(* signal and for the end of the method.                                   *)
LEMMA ExitCodes ==
  ASSUME NEW c \in Cause
  PROVE  /\ ExitCode(c) \in Code
         /\ ExitCode(c) = NormalExit => c \in Signal \cup {"returned"}
<1>1. CASE c \in Signal
  BY <1>1, RunnerAssumption DEF ExitCode
<1>2. CASE c = "returned"
  BY <1>2, RunnerAssumption DEF ExitCode
<1>3. CASE c \in {"uncaught", "failed", "threw"}
  BY <1>3, RunnerAssumption DEF ExitCode
<1>. QED
  BY <1>1, <1>2, <1>3 DEF Cause

(* Every step preserves the invariant.                                     *)
LEMMA StepPreserves == IInv /\ [Next]_vars => IInv'
<1>. SUFFICES ASSUME IInv, [Next]_vars PROVE IInv'
  OBVIOUS
<1>. USE DEF IInv, TypeOK, Alive
<1>1. CASE Launch
  BY <1>1 DEF Launch, RunsOn
<1>2. CASE StartupCompletes
  BY <1>2 DEF StartupCompletes
<1>3. CASE StartupFails
  BY <1>3 DEF StartupFails, Ends, Cause
<1>4. CASE MethodReturns
  BY <1>4 DEF MethodReturns, RunsOn
<1>5. CASE MethodThrows
  BY <1>5 DEF MethodThrows, RunsOn, Ends, Cause
<1>6. CASE RequestShutdown
  BY <1>6 DEF RequestShutdown, RunsOn
<1>7. CASE MainReturns
  BY <1>7 DEF MainReturns, Ends, Cause
<1>8. ASSUME NEW s \in Signal, SignalOccurs(s) PROVE IInv'
  <2>1. /\ MaxOccurrences \in Nat
        /\ SignalForcedExit[s] \in Code /\ SignalForcedExit[s] # NormalExit
        /\ s \notin {"none", "returned"}
    BY RunnerAssumption
  <2>2. seen' \in [Signal -> 0 .. MaxOccurrences] /\ seen'[s] = seen[s] + 1
    BY <1>8, <2>1 DEF SignalOccurs
  <2>3. cause' # "none" /\ cause' \in Cause /\ shutdown' # "none"
    BY <1>8, <2>1 DEF SignalOccurs, Ends, RunsOn, Cause
  <2>4. exit' = None \/ (exit' = SignalForcedExit[s] /\ seen[s] >= 1)
    BY <1>8 DEF SignalOccurs
  <2>5. exit' # NormalExit
    BY <2>1, <2>4, RunnerAssumption
  <2>6. TypeOK'
    BY <1>8, <2>1, <2>2, <2>3, <2>4 DEF SignalOccurs, Ends, RunsOn
  <2>7. cause' = "returned" => method' = "returned" /\ requested' # "no"
    BY <1>8, <2>1 DEF SignalOccurs, Ends, RunsOn
  <2>8. (method # "none" => startup = "ok")'
    BY <1>8 DEF SignalOccurs
  <2>. QED
    BY <2>3, <2>5, <2>6, <2>7, <2>8
<1>9. CASE UncaughtError
  BY <1>9, RunnerAssumption DEF UncaughtError, RunsOn, Ends, Cause
<1>10. CASE ShutdownFulfils
  BY <1>10, ExitCodes DEF ShutdownFulfils
<1>11. CASE ShutdownRejects
  BY <1>11, RunnerAssumption DEF ShutdownRejects
<1>12. CASE TimeoutElapses
  BY <1>12, RunnerAssumption DEF TimeoutElapses
<1>13. CASE UNCHANGED vars
  BY <1>13 DEF vars
<1>. QED
  BY <1>1, <1>2, <1>3, <1>4, <1>5, <1>6, <1>7, <1>8, <1>9, <1>10, <1>11, <1>12, <1>13 DEF Next

(* The invariant, the types among it, holds of every run, whatever the     *)
(* signals, the exit codes and the application's hooks do.                 *)
THEOREM Invariance == Spec => []IInv
<1>. QED
  BY InitEstablishes, StepPreserves, PTL DEF Spec

(* The state of the runner keeps its types.                                *)
THEOREM TypeCorrect == Spec => []TypeOK
<1>1. IInv => TypeOK
  BY DEF IInv
<1>. QED
  BY <1>1, Invariance, PTL

(* The process does not exit on its own before shutdown() was called: the  *)
(* first occurrence of a repeated signal has ended the run.                *)
THEOREM ShutdownComesFirst == Spec => []NoExitBeforeShutdown
<1>1. IInv => NoExitBeforeShutdown
  BY DEF IInv, NoExitBeforeShutdown
<1>. QED
  BY <1>1, Invariance, PTL

(* The normal exit code is given only when the shutdown was completed      *)
(* without an error, never when a timeout or a repeated signal cut it, and *)
(* only when a signal, or the end of the method after a request - one for  *)
(* an error included - came first.                                         *)
THEOREM NormalExitHasReason == Spec => []NormalExitIsExplained
<1>1. IInv => NormalExitIsExplained
  BY DEF IInv, TypeOK, NormalExitIsExplained
<1>. QED
  BY <1>1, Invariance, PTL

(* A cause, once there is one, is kept.                                    *)
LEMMA CauseKept ==
  ASSUME IInv, [Next]_vars, cause # "none"
  PROVE  cause' = cause /\ shutdown' # "none"
<1>. USE DEF IInv
<1>1. CASE Launch
  BY <1>1 DEF Launch, RunsOn
<1>2. CASE StartupCompletes
  BY <1>2 DEF StartupCompletes
<1>3. CASE StartupFails
  BY <1>3 DEF StartupFails
<1>4. CASE MethodReturns \/ MethodThrows \/ RequestShutdown
  BY <1>4 DEF MethodReturns, MethodThrows, RequestShutdown, RunsOn
<1>5. CASE MainReturns
  BY <1>5 DEF MainReturns
<1>6. ASSUME NEW s \in Signal, SignalOccurs(s)
      PROVE  cause' = cause /\ shutdown' # "none"
  BY <1>6 DEF SignalOccurs, RunsOn
<1>7. CASE UncaughtError
  BY <1>7 DEF UncaughtError, RunsOn
<1>8. CASE ShutdownFulfils \/ ShutdownRejects \/ TimeoutElapses
  BY <1>8 DEF ShutdownFulfils, ShutdownRejects, TimeoutElapses
<1>9. CASE UNCHANGED vars
  BY <1>9 DEF vars
<1>. QED
  BY <1>1, <1>2, <1>3, <1>4, <1>5, <1>6, <1>7, <1>8, <1>9 DEF Next

(* What ended the run first decides: no later event chooses another exit   *)
(* option, and the shutdown it began is never undone.                      *)
THEOREM FirstCauseStays == Spec => FirstCauseDecides
<1>1. IInv /\ [Next]_vars => [cause # "none" => cause' = cause /\ shutdown' # "none"]_vars
  BY CauseKept
<1>. QED
  BY <1>1, Invariance, PTL DEF Spec, FirstCauseDecides

-----------------------------------------------------------------------------
(* The chain of background tasks.                                          *)

(* A set of numbers that is not empty has a least element.                 *)
LEMMA LeastElement ==
  ASSUME NEW T \in SUBSET Nat, T # {}
  PROVE  \E m \in T : \A n \in T : m <= n
<1>. DEFINE Less == {ss \in Nat \X Nat : ss[1] < ss[2]}
<1>1. IsWellFoundedOn(Less, Nat)
  BY NatLessThanWellFounded DEF OpToRel
<1>2. PICK m \in T : \A n \in T : <<n, m>> \notin Less
  BY <1>1, WFMin, Zenon
<1>3. ASSUME NEW n \in T PROVE m <= n
  <2>1. n \in Nat /\ m \in Nat /\ ~(n < m)
    BY <1>2
  <2>. QED
    BY <2>1
<1>. QED
  BY <1>3

(* The recursion of #taskFinished has a solution: up to the first link that*)
(* has not fulfilled the chain is fulfilled, from there on it is that link.*)
LEMMA ChainExists ==
  \E f : f = [n \in Nat |-> IF n = 0 THEN "fulfilled"
                            ELSE IF f[n - 1] # "fulfilled" THEN f[n - 1]
                            ELSE LinkOf(dispatched[n])]
<1>. DEFINE Broken == {n \in Nat \ {0} : LinkOf(dispatched[n]) # "fulfilled"}
<1>1. CASE Broken = {}
  <2>. DEFINE f == [n \in Nat |-> "fulfilled"]
  <2>1. f = [n \in Nat |-> IF n = 0 THEN "fulfilled"
                           ELSE IF f[n - 1] # "fulfilled" THEN f[n - 1]
                           ELSE LinkOf(dispatched[n])]
    BY <1>1
  <2>. QED
    BY <2>1
<1>2. CASE Broken # {}
  <2>1. PICK m \in Broken : \A n \in Broken : m <= n
    BY <1>2, LeastElement, Broken \in SUBSET Nat
  <2>. DEFINE f == [n \in Nat |-> IF n < m THEN "fulfilled" ELSE LinkOf(dispatched[m])]
              g == [n \in Nat |-> IF n = 0 THEN "fulfilled"
                           ELSE IF f[n - 1] # "fulfilled" THEN f[n - 1]
                           ELSE LinkOf(dispatched[n])]
  <2>2. ASSUME NEW n \in Nat PROVE f[n] = g[n]
    <3>1. CASE n < m
      BY <2>1, <3>1
    <3>2. CASE n = m
      BY <2>1, <3>2
    <3>3. CASE n > m
      BY <2>1, <3>3
    <3>. QED
      BY <2>1, <3>1, <3>2, <3>3
  <2>3. f = g
    BY <2>2
  <2>. QED
    BY <2>3
<1>. QED
  BY <1>1, <1>2

(* The chain after n calls of dispatch().                                  *)
LEMMA ChainDef ==
  TaskFinished = [n \in Nat |-> IF n = 0 THEN "fulfilled"
                            ELSE IF TaskFinished[n - 1] # "fulfilled" THEN TaskFinished[n - 1]
                            ELSE LinkOf(dispatched[n])]
  BY ChainExists DEF TaskFinished

(* A fulfilled chain has fulfilled links only.                             *)
LEMMA ChainFulfilled ==
  ASSUME NEW n \in Nat, TaskFinished[n] = "fulfilled"
  PROVE  \A i \in 1 .. n : LinkOf(dispatched[i]) = "fulfilled"
<1>. DEFINE Left == {i \in 0 .. n : TaskFinished[i] = "fulfilled" /\ \A j \in i + 1 .. n : LinkOf(dispatched[j]) = "fulfilled"}
<1>1. PICK m \in Left : \A i \in Left : m <= i
  <2>1. n \in Left
    OBVIOUS
  <2>. QED
    BY <2>1, LeastElement, Left \in SUBSET Nat
<1>2. CASE m = 0
  BY <1>2, <1>1
<1>3. CASE m # 0
  <2>1. m \in Nat /\ m - 1 \in Nat
    BY <1>3, <1>1
  <2>2. TaskFinished[m] = IF TaskFinished[m - 1] # "fulfilled" THEN TaskFinished[m - 1]
                            ELSE LinkOf(dispatched[m])
    BY <1>3, <2>1, ChainDef
  <2>3. TaskFinished[m - 1] = "fulfilled" /\ LinkOf(dispatched[m]) = "fulfilled"
    BY <2>2, <1>1
  <2>4. m - 1 \in Left
    BY <2>1, <2>3, <1>1
  <2>. QED
    BY <2>4, <1>1, <2>1
<1>. QED
  BY <1>2, <1>3

(* A link that has fulfilled is of a task that has ended.                  *)
LEMMA LinkEnded ==
  ASSUME NEW t \in Task, LinkOf(t) = "fulfilled"
  PROVE  t.is \in Ended
  BY DEF LinkOf, Task, Ended

(* No function has been called beside a task dispatched before it.         *)
InTurn ==
  \A i \in DOMAIN dispatched :
    dispatched[i].kind = "function" /\ dispatched[i].is # "due" =>
      \A j \in 1 .. i - 1 : dispatched[j].is \in Ended

(* A step of the queue keeps its types and the tasks that have ended, and  *)
(* calls a function only in its turn.                                      *)
LEMMA TaskStepKeeps ==
  ASSUME TasksTypeOK, TaskStep
  PROVE  /\ TasksTypeOK'
         /\ awaited' = awaited
         /\ \A i \in DOMAIN dispatched :
              dispatched[i].is \in Ended => dispatched'[i] = dispatched[i]
         /\ InTurn => InTurn'
<1>. USE TasksAssumption DEF TasksTypeOK
<1>1. ASSUME NEW kind \in {"promise", "function"}, Dispatch(kind)
      PROVE  /\ TasksTypeOK'
             /\ awaited' = awaited
             /\ \A i \in DOMAIN dispatched : dispatched'[i] = dispatched[i]
             /\ InTurn => InTurn'
  <2>. DEFINE t == [kind |-> kind, is |-> IF kind = "promise" THEN "running" ELSE "due"]
  <2>1. t \in Task /\ (t.kind = "function" => t.is = "due")
    BY <1>1 DEF Task
  <2>2. dispatched' = Append(dispatched, t) /\ Len(dispatched) < MaxTasks /\ awaited' = awaited
    BY <1>1 DEF Dispatch
  <2>. HIDE DEF t
  <2>3. /\ dispatched' \in Seq(Task) /\ Len(dispatched') = Len(dispatched) + 1
        /\ dispatched'[Len(dispatched) + 1] = t
        /\ \A i \in 1 .. Len(dispatched) : dispatched'[i] = dispatched[i]
    BY <2>1, <2>2
  <2>4. DOMAIN dispatched = 1 .. Len(dispatched) /\ DOMAIN dispatched' = 1 .. Len(dispatched')
    BY <2>3
  <2>5. TasksTypeOK'
    BY <2>2, <2>3
  <2>6. InTurn => InTurn'
    BY <2>1, <2>3, <2>4 DEF InTurn
  <2>. QED
    BY <2>2, <2>3, <2>4, <2>5, <2>6
<1>2. ASSUME NEW i \in DOMAIN dispatched, NEW is \in {"running"} \cup Ended,
             dispatched[i].is \notin Ended,
             dispatched' = [dispatched EXCEPT ![i].is = is], awaited' = awaited,
             dispatched[i].is = "running"
               \/ \A j \in 1 .. i - 1 : dispatched[j].is \in Ended
      PROVE  /\ TasksTypeOK'
             /\ awaited' = awaited
             /\ \A j \in DOMAIN dispatched :
                  dispatched[j].is \in Ended => dispatched'[j] = dispatched[j]
             /\ InTurn => InTurn'
  <2>1. DOMAIN dispatched = 1 .. Len(dispatched) /\ dispatched[i] \in Task
    OBVIOUS
  <2>2. dispatched'[i] = [dispatched[i] EXCEPT !.is = is]
    BY <1>2, <2>1
  <2>3. /\ dispatched'[i] \in Task
        /\ dispatched'[i].is = is /\ dispatched'[i].kind = dispatched[i].kind
    BY <2>1, <2>2 DEF Task, Ended
  <2>4. \A j \in DOMAIN dispatched : j # i => dispatched'[j] = dispatched[j]
    BY <1>2, <2>1
  <2>5. dispatched' \in Seq(Task) /\ Len(dispatched') = Len(dispatched)
    BY <1>2, <2>1, <2>2, <2>3
  <2>6. TasksTypeOK'
    BY <1>2, <2>5
  <2>7. ASSUME InTurn PROVE InTurn'
    <3>1. SUFFICES ASSUME NEW k \in 1 .. Len(dispatched),
                          dispatched'[k].kind = "function", dispatched'[k].is # "due",
                          NEW j \in 1 .. k - 1
                   PROVE  dispatched'[j].is \in Ended
      BY <2>5 DEF InTurn
    <3>2. j \in 1 .. Len(dispatched) /\ j # k
      OBVIOUS
    <3>3. dispatched[j].is \in Ended
      <4>1. CASE k = i
        BY <1>2, <2>1, <2>3, <2>7, <3>1, <4>1 DEF InTurn
      <4>2. CASE k # i
        BY <2>1, <2>4, <2>7, <3>1, <4>2 DEF InTurn
      <4>. QED
        BY <4>1, <4>2
    <3>4. j # i
      BY <1>2, <3>3
    <3>. QED
      BY <2>1, <2>4, <3>2, <3>3, <3>4
  <2>. QED
    BY <1>2, <2>1, <2>4, <2>6, <2>7
<1>3. ASSUME NEW i \in DOMAIN dispatched, CallTask(i)
      PROVE  /\ dispatched[i].is \notin Ended /\ awaited' = awaited
             /\ \E is \in {"running"} \cup Ended : dispatched' = [dispatched EXCEPT ![i].is = is]
             /\ \A j \in 1 .. i - 1 : dispatched[j].is \in Ended
  <2>1. i - 1 \in Nat /\ \A j \in 1 .. i - 1 : dispatched[j] \in Task
    OBVIOUS
  <2>2. \A j \in 1 .. i - 1 : LinkOf(dispatched[j]) = "fulfilled"
    BY <1>3, <2>1, ChainFulfilled DEF CallTask
  <2>3. \A j \in 1 .. i - 1 : dispatched[j].is \in Ended
    BY <2>1, <2>2, LinkEnded
  <2>. QED
    BY <1>3, <2>3 DEF CallTask, Ended
<1>4. ASSUME NEW i \in DOMAIN dispatched, TaskSettles(i)
      PROVE  /\ dispatched[i].is = "running" /\ dispatched[i].is \notin Ended /\ awaited' = awaited
             /\ \E is \in {"running"} \cup Ended : dispatched' = [dispatched EXCEPT ![i].is = is]
  BY <1>4 DEF TaskSettles, Ended
<1>. QED
  BY <1>1, <1>2, <1>3, <1>4 DEF TaskStep

-----------------------------------------------------------------------------
(* The three entry points, the runner among them.                          *)

(* The initial states satisfy the invariant.                               *)
LEMMA EntryInitEstablishes == EntryInit => EntryIInv
<1>. SUFFICES ASSUME EntryInit PROVE EntryIInv
  OBVIOUS
<1>1. IInv /\ TypeOK
  BY InitEstablishes DEF EntryInit, IInv
<1>2. TasksTypeOK /\ dispatched = <<>> /\ awaited = 0
  BY TasksAssumption DEF EntryInit, TasksInit, TasksTypeOK
<1>3. exit = None /\ cause = "none" /\ shutdown = "none" /\ method = "none"
  BY DEF EntryInit, Init
<1>4. EntryTypeOK
  BY <1>1, <1>2 DEF EntryInit, EntryTypeOK
<1>5. TasksAreDone /\ SettledTellsTruth
  BY <1>2, <1>3 DEF EntryInit, TasksAreDone, SettledTellsTruth
<1>. QED
  BY <1>1, <1>3, <1>4, <1>5 DEF EntryInit, EntryIInv

(* TasksAreDone has two halves: nothing is left, and all was in its turn.  *)
NothingLeft ==
  exit = NormalExit \/ (entry = "run" /\ result = "fulfilled") =>
    \A i \in 1 .. awaited : LinkOf(dispatched[i]) = "fulfilled"

(* The property in the two parts that the steps disturb apart.             *)
LEMMA TasksAreDoneDef == TasksAreDone <=> NothingLeft /\ InTurn
  BY DEF TasksAreDone, NothingLeft, InTurn

(* When the end of shutdown() reports success, the chain had fulfilled.    *)
LEMMA DrainedTasks ==
  ASSUME EntryTypeOK, Drained("ok")
  PROVE  modules = "ok" /\ \A i \in 1 .. awaited : LinkOf(dispatched[i]) = "fulfilled"
<1>1. modules = "ok" /\ TaskFinished[awaited] = "fulfilled"
  BY DEF Drained
<1>2. awaited \in Nat
  BY DEF EntryTypeOK, TasksTypeOK
<1>. QED
  BY <1>1, <1>2, ChainFulfilled

(* A step of the runner is one of the steps proved about above.            *)
LEMMA RunnerStepPreserves ==
  ASSUME EntryIInv, RunnerStep
  PROVE  EntryIInv' /\ Next
<1>. USE DEF EntryIInv
<1>1. entry = "runner" /\ IInv /\ result = "pending" /\ EntryTypeOK
  BY DEF RunnerStep
<1>2. UNCHANGED <<dispatched, awaited, entry, modules, error, asked, result>>
  BY DEF RunnerStep, taskVars, entryVars, staticVars
<1>3. Next
  BY DEF RunnerStep, Next
<1>4. IInv' /\ TypeOK'
  BY <1>1, <1>3, StepPreserves DEF IInv
<1>5. EntryTypeOK'
  BY <1>1, <1>2, <1>4 DEF EntryTypeOK, TasksTypeOK
<1>6. NothingLeft'
  <2>1. SUFFICES ASSUME exit' = NormalExit
                 PROVE  \A i \in 1 .. awaited : LinkOf(dispatched[i]) = "fulfilled"
    BY <1>1, <1>2 DEF NothingLeft
  <2>2. shutdown' = "ok"
    BY <1>4, <2>1 DEF IInv
  <2>3. Drained("ok")
    BY <2>2 DEF RunnerStep, ShutdownRejects
  <2>. QED
    BY <1>1, <2>3, DrainedTasks
<1>7. InTurn'
  BY <1>2, TasksAreDoneDef DEF InTurn
<1>8. TasksAreDone'
  BY <1>6, <1>7 DEF TasksAreDone, NothingLeft, InTurn
<1>9. SettledTellsTruth'
  BY <1>1, <1>2 DEF SettledTellsTruth
<1>. QED
  BY <1>1, <1>2, <1>3, <1>4, <1>5, <1>8, <1>9

(* A step of run() or start() leaves alone what belongs to the runner and  *)
(* the tasks, and preserves the invariant.                                 *)
LEMMA StaticStepPreserves ==
  ASSUME EntryIInv, Called \/ Asked \/ Starts \/ MethodEnds \/ Finally \/ ShutDown
  PROVE  EntryIInv' /\ UNCHANGED <<cause, exit>>
<1>. USE DEF EntryIInv, Awaiting, UnchangedButStatic
<1>1. entry # "runner" /\ result = "pending"
  BY DEF Called, Asked, Starts, MethodEnds, Finally, ShutDown
<1>2. UNCHANGED <<dispatched, awaited, entry, modules, startAll, hasMethod, requested, seen, cause, exit>>
  BY DEF Called, Asked, Starts, MethodEnds, Finally, ShutDown, taskVars, entryVars, staticVars, vars
<1>3. exit # NormalExit /\ exit' # NormalExit
  BY <1>1, <1>2, RunnerAssumption
<1>4. InTurn'
  BY <1>2, TasksAreDoneDef DEF InTurn
<1>5. CASE Called
  <2>1. UNCHANGED <<method, shutdown, error, asked, result>> /\ startup' = "running" /\ startup = "scheduled"
    BY <1>5 DEF Called, entryVars, staticVars
  <2>2. EntryTypeOK'
    BY <1>2, <2>1 DEF EntryTypeOK, TypeOK, TasksTypeOK
  <2>3. TasksAreDone' /\ SettledTellsTruth'
    BY <1>1, <1>2, <1>3, <1>4, <2>1 DEF TasksAreDone, InTurn, SettledTellsTruth
  <2>. QED
    BY <1>1, <1>2, <2>1, <2>2, <2>3
<1>6. CASE Asked
  <2>1. UNCHANGED <<startup, method, shutdown, result>> /\ error' \in {"none", "requested"} /\ asked'
    BY <1>6 DEF Asked, vars
  <2>2. EntryTypeOK'
    BY <1>2, <1>6, <2>1 DEF EntryTypeOK, TypeOK, TasksTypeOK, Asked
  <2>3. TasksAreDone' /\ SettledTellsTruth'
    BY <1>1, <1>2, <1>3, <1>4, <2>1 DEF TasksAreDone, InTurn, SettledTellsTruth
  <2>. QED
    BY <1>1, <1>2, <2>1, <2>2, <2>3
<1>7. CASE Starts
  <2>1. UNCHANGED <<shutdown, error, asked>> /\ startup = "running" /\ method = "none"
    BY <1>1, <1>7 DEF Starts, EntryTypeOK, TypeOK
  <2>2. \/ startup' = "failed" /\ result' = "rejected" /\ method' = "none"
        \/ startup' = "ok" /\ result' = "pending" /\ method' \in {"running", "returned"}
        \/ startup' = "ok" /\ result' = "rejected" /\ method' = "none"
    BY <1>1, <1>7, <2>1 DEF Starts
  <2>3. EntryTypeOK'
    BY <1>2, <2>1, <2>2 DEF EntryTypeOK, TypeOK, TasksTypeOK
  <2>4. TasksAreDone' /\ SettledTellsTruth'
    BY <1>1, <1>2, <1>3, <1>4, <2>1, <2>2 DEF TasksAreDone, InTurn, SettledTellsTruth
  <2>. QED
    BY <1>1, <1>2, <2>1, <2>2, <2>3, <2>4
<1>8. CASE MethodEnds
  <2>1. UNCHANGED <<startup, shutdown, asked, result>> /\ method = "running"
    BY <1>8 DEF MethodEnds
  <2>2. \/ method' = "returned" /\ error' = error
        \/ method' = "threw" /\ error' = "method"
    BY <1>8 DEF MethodEnds
  <2>3. EntryTypeOK'
    BY <1>2, <2>1, <2>2 DEF EntryTypeOK, TypeOK, TasksTypeOK
  <2>4. TasksAreDone' /\ SettledTellsTruth'
    BY <1>1, <1>2, <1>3, <1>4, <2>1, <2>2 DEF TasksAreDone, InTurn, SettledTellsTruth
  <2>. QED
    BY <1>1, <1>2, <2>1, <2>2, <2>3, <2>4
<1>9. CASE Finally
  <2>1. /\ UNCHANGED <<startup, method, error, asked, result>>
        /\ method \in {"threw", "returned"} /\ shutdown' = "pending"
    BY <1>9 DEF Finally, entryVars, staticVars
  <2>2. EntryTypeOK'
    BY <1>2, <2>1 DEF EntryTypeOK, TypeOK, TasksTypeOK
  <2>3. TasksAreDone' /\ SettledTellsTruth'
    BY <1>1, <1>2, <1>3, <1>4, <2>1 DEF TasksAreDone, InTurn, SettledTellsTruth
  <2>. QED
    BY <1>1, <1>2, <2>1, <2>2, <2>3
<1>10. CASE ShutDown
  <2>1. UNCHANGED <<startup, method, asked>> /\ shutdown = "pending"
    BY <1>10 DEF ShutDown
  <2>2. PICK outcome \in {"ok", "failed"} :
          /\ Drained(outcome) /\ shutdown' = outcome
          /\ error' = IF outcome = "failed" THEN "shutdown" ELSE error
          /\ result' = ResultOf(outcome)
    BY <1>10 DEF ShutDown
  <2>3. /\ result' \in {"rejected", "fulfilled"}
        /\ entry = "run" /\ result' = "fulfilled" => error = "none" /\ outcome = "ok"
    BY <2>2 DEF ResultOf
  <2>4. EntryTypeOK'
    BY <1>2, <2>1, <2>2, <2>3 DEF EntryTypeOK, TypeOK, TasksTypeOK
  <2>5. NothingLeft'
    BY <1>2, <1>3, <2>2, <2>3, DrainedTasks DEF NothingLeft
  <2>6. TasksAreDone'
    BY <1>4, <2>5 DEF TasksAreDone, InTurn, NothingLeft
  <2>7. SettledTellsTruth'
    BY <1>1, <1>2, <2>1, <2>2, <2>3, DrainedTasks DEF SettledTellsTruth
  <2>. QED
    BY <1>1, <1>2, <2>1, <2>2, <2>4, <2>6, <2>7
<1>. QED
  BY <1>2, <1>5, <1>6, <1>7, <1>8, <1>9, <1>10

(* The end of the modules, and what the application does beside them.      *)
LEMMA OtherStepPreserves ==
  ASSUME EntryIInv, ModulesSettle \/ Works
  PROVE  EntryIInv' /\ UNCHANGED vars
<1>. USE DEF EntryIInv
<1>1. UNCHANGED vars /\ UNCHANGED <<entry, error, asked, result>>
  BY DEF ModulesSettle, Works, entryVars, staticVars
<1>2. IInv <=> IInv'
  BY <1>1 DEF IInv, TypeOK, vars
<1>3. UNCHANGED <<startup, method, shutdown, cause, exit>> /\ TypeOK'
  BY <1>1 DEF vars, EntryTypeOK, TypeOK
<1>4. CASE ModulesSettle
  <2>1. /\ exit = None /\ shutdown = "pending" /\ modules = "none" /\ modules' \in {"ok", "failed"}
        /\ dispatched' = dispatched /\ awaited' = Len(dispatched)
    BY <1>4 DEF ModulesSettle, Alive, WaitAllTaskFinished
  <2>2. exit # NormalExit /\ ~(entry = "run" /\ result = "fulfilled")
    BY <2>1, RunnerAssumption
  <2>3. EntryTypeOK'
    BY <1>1, <1>3, <2>1 DEF EntryTypeOK, TasksTypeOK
  <2>4. TasksAreDone'
    BY <1>1, <1>3, <2>1, <2>2 DEF TasksAreDone
  <2>5. SettledTellsTruth'
    BY <1>1, <1>3, <2>1, <2>2 DEF SettledTellsTruth
  <2>. QED
    BY <1>1, <1>2, <1>3, <2>3, <2>4, <2>5
<1>5. CASE Works
  <2>1. TaskStep /\ modules' = modules /\ TasksTypeOK
    BY <1>5 DEF Works, entryVars, EntryTypeOK
  <2>2. EntryTypeOK'
    BY <1>1, <1>3, <2>1, TaskStepKeeps DEF EntryTypeOK
  <2>3. NothingLeft'
    <3>1. SUFFICES ASSUME NothingLeft, NEW i \in 1 .. awaited, LinkOf(dispatched[i]) = "fulfilled"
                   PROVE  LinkOf(dispatched'[i]) = "fulfilled"
      BY <1>1, <1>3, <2>1, TaskStepKeeps, TasksAreDoneDef DEF NothingLeft
    <3>2. i \in DOMAIN dispatched /\ dispatched[i] \in Task
      BY <2>1 DEF TasksTypeOK
    <3>. QED
      BY <2>1, <3>1, <3>2, LinkEnded, TaskStepKeeps
  <2>4. TasksAreDone'
    BY <2>1, <2>3, TaskStepKeeps, TasksAreDoneDef DEF TasksAreDone, InTurn, NothingLeft
  <2>5. SettledTellsTruth'
    BY <1>1, <1>3, <2>1 DEF SettledTellsTruth
  <2>. QED
    BY <1>1, <1>2, <1>3, <2>2, <2>4, <2>5
<1>. QED
  BY <1>1, <1>4, <1>5

(* Every step of the entry points keeps the invariant.                     *)
LEMMA EntryStepPreserves == EntryIInv /\ [EntryNext]_allVars => EntryIInv'
<1>. SUFFICES ASSUME EntryIInv, [EntryNext]_allVars PROVE EntryIInv'
  OBVIOUS
<1>1. CASE UNCHANGED allVars
  <2>1. /\ UNCHANGED vars
        /\ UNCHANGED <<dispatched, awaited, entry, modules, error, asked, result>>
    BY <1>1 DEF allVars, taskVars, entryVars, staticVars
  <2>2. UNCHANGED <<startup, method, shutdown, cause, exit>>
    BY <2>1 DEF vars
  <2>3. (IInv <=> IInv') /\ (EntryTypeOK <=> EntryTypeOK')
    BY <2>1 DEF vars, IInv, TypeOK, EntryTypeOK, TasksTypeOK
  <2>. QED
    BY <2>1, <2>2, <2>3 DEF EntryIInv, TasksAreDone, SettledTellsTruth
<1>. QED
  BY <1>1, RunnerStepPreserves, StaticStepPreserves, OtherStepPreserves DEF EntryNext

(* However the runner, run() and start(), the modules and the tasks        *)
(* interleave, the invariant holds of every run of the program.            *)
THEOREM EntryInvariance == EntrySpec => []EntryIInv
<1>. QED
  BY EntryInitEstablishes, EntryStepPreserves, PTL DEF EntrySpec

(* A process that exits normally and a run() that fulfils leave no task of *)
(* the queue behind; functions are called in their turn.                   *)
THEOREM TasksAreWaitedFor == EntrySpec => []TasksAreDone
<1>1. EntryIInv => TasksAreDone
  BY DEF EntryIInv
<1>. QED
  BY <1>1, EntryInvariance, PTL

(* What run() and start() tell their caller is what happened.              *)
THEOREM PromiseTellsTruth == EntrySpec => []SettledTellsTruth
<1>1. EntryIInv => SettledTellsTruth
  BY DEF EntryIInv
<1>. QED
  BY <1>1, EntryInvariance, PTL

(* The properties of the runner hold when it runs beside the tasks, and    *)
(* the static methods never exit the process.                              *)
THEOREM EntryExits == EntrySpec => [](NoExitBeforeShutdown /\ NormalExitIsExplained)
<1>1. EntryIInv => NoExitBeforeShutdown /\ NormalExitIsExplained
  BY RunnerAssumption DEF EntryIInv, IInv, TypeOK, NoExitBeforeShutdown, NormalExitIsExplained
<1>. QED
  BY <1>1, EntryInvariance, PTL

(* Refinement: beside the tasks, and with an end of shutdown() that waits  *)
(* for them, the runner is still the runner of ApplicationRunner.          *)
THEOREM RunnerRefinement == EntrySpec /\ entry = "runner" => Spec
<1>1. EntryInit => Init
  BY DEF EntryInit
<1>2. EntryIInv /\ entry = "runner" /\ [EntryNext]_allVars
        => (entry = "runner")' /\ [Next]_vars
  <2>. SUFFICES ASSUME EntryIInv, entry = "runner", [EntryNext]_allVars
                PROVE  entry' = "runner" /\ [Next]_vars
    OBVIOUS
  <2>1. CASE RunnerStep
    BY <2>1, RunnerStepPreserves DEF RunnerStep, entryVars
  <2>2. CASE Called \/ Asked \/ Starts \/ MethodEnds \/ Finally \/ ShutDown
    BY <2>2 DEF Called, Asked, Starts, MethodEnds, Finally, ShutDown, Awaiting
  <2>3. CASE ModulesSettle \/ Works
    BY <2>3, OtherStepPreserves DEF ModulesSettle, Works, entryVars
  <2>4. CASE UNCHANGED allVars
    BY <2>4 DEF allVars, entryVars
  <2>. QED
    BY <2>1, <2>2, <2>3, <2>4 DEF EntryNext
<1>. QED
  BY <1>1, <1>2, EntryInvariance, PTL DEF EntrySpec, Spec

(* The first reason to go decides also beside the tasks; the static methods*)
(* have none.                                                              *)
THEOREM EntryCauseStays == EntrySpec => FirstCauseDecides
<1>1. EntryIInv /\ [EntryNext]_allVars
        => [cause # "none" => cause' = cause /\ shutdown' # "none"]_vars
  <2>. SUFFICES ASSUME EntryIInv, [EntryNext]_allVars, cause # "none"
                PROVE  (cause' = cause /\ shutdown' # "none") \/ UNCHANGED vars
    OBVIOUS
  <2>1. entry = "runner" /\ IInv
    BY DEF EntryIInv
  <2>2. CASE RunnerStep
    BY <2>1, <2>2, RunnerStepPreserves, CauseKept
  <2>3. CASE Called \/ Asked \/ Starts \/ MethodEnds \/ Finally \/ ShutDown
    BY <2>1, <2>3 DEF Called, Asked, Starts, MethodEnds, Finally, ShutDown, Awaiting
  <2>4. CASE ModulesSettle \/ Works
    BY <2>4, OtherStepPreserves
  <2>5. CASE UNCHANGED allVars
    BY <2>5 DEF allVars
  <2>. QED
    BY <2>2, <2>3, <2>4, <2>5 DEF EntryNext
<1>. QED
  BY <1>1, EntryInvariance, PTL DEF EntrySpec, FirstCauseDecides
===============================================================================
