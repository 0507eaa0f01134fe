---------------------------- MODULE EventBus_proofs ----------------------------
(***************************************************************************)
(* Theorems about EventBus.                                                *)
(***************************************************************************)
EXTENDS EventBus, Container_proofs

(* The scan of the components finds what is annotated, and so subscribers. *)
LEMMA FoundAreSubscribers ==
  ScanIsComplete(Components) /\ ToSet(Found(Components)) \subseteq Subscriber
<1>1. ScanIsComplete(Components)
  BY ScannerAssumption, ScanFindsAll
<1>2. \A c \in DOMAIN ControllerLabels : ToSet(Methods[c]) \subseteq Subscriber
  BY EventAssumption DEF ToSet
<1>3. Expected(Components) \subseteq Subscriber
  BY <1>2 DEF Expected, IsMatching
<1>. QED
  BY <1>1, <1>3 DEF ScanIsComplete

(* The initial states satisfy the invariant.                               *)
LEMMA InitEstablishes == Init => IInv
<1>. SUFFICES ASSUME Init PROVE IInv
  OBVIOUS
<1>1. InvokerIInv
  BY InvokerInitEstablishes DEF Init
<1>2. TypeOK
  BY <1>1, InvokerTypes DEF Init, TypeOK
<1>3. ASSUME NEW e \in Event PROVE EventInv(e)
  <2>1. ASSUME NEW s \in Subscriber PROVE state[<<e, s>>][1] = "none"
    <3>1. <<e, s>> \in Call
      BY EventAssumption
    <3>2. chain[<<e, s>>] \in Chains[<<e, s>>] /\ state[<<e, s>>] = [i \in Level(<<e, s>>) |-> "none"]
      BY <3>1 DEF Init, InvokerInit
    <3>. QED
      BY <3>1, <3>2, ChainType
  <2>. QED
    BY <2>1 DEF Init, EventInv
<1>. QED
  BY <1>1, <1>2, <1>3 DEF Init, IInv

(* The types of the calls follow from their invariant, after a step too.   *)
LEMMA InvokerTypesNext == InvokerIInv' => InvokerTypeOK'
BY InvokerTypes, PTL

(* onStart() and onStop() change who subscribes.                           *)
LEMMA ModuleKeeps ==
  ASSUME IInv, Start \/ StartThrows \/ Stop
  PROVE  IInv'
<1>1. UNCHANGED <<invokerVars, calling, due, consumed, announced>>
  BY DEF Start, StartThrows, Stop
<1>2. InvokerIInv' /\ InvokerTypeOK'
  BY <1>1, CallsKeep, InvokerTypesNext DEF IInv
<1>3. /\ \/ subscribed' \in {{}, ToSet(Found(Components))}
         \/ module' = "failed" /\ subscribed' \subseteq ToSet(Found(Components))
      /\ module' \in {"started", "failed", "stopped"} /\ module # "failed"
  <2>1. CASE Start \/ Stop
    BY <2>1 DEF Start, Stop
  <2>2. CASE StartThrows
    <3>1. PICK k \in DOMAIN Found(Components) :
            subscribed' = {Found(Components)[i] : i \in {j \in DOMAIN Found(Components) : j < k}}
      BY <2>2 DEF StartThrows
    <3>. QED
      BY <2>2, <3>1 DEF StartThrows, ToSet
  <2>. QED
    BY <2>1, <2>2
<1>4. TypeOK'
  BY <1>1, <1>2, <1>3, FoundAreSubscribers DEF IInv, TypeOK
<1>5. ASSUME NEW e \in Event PROVE EventInv(e)'
  BY <1>1, <1>3 DEF IInv, EventInv, Consumed, invokerVars
<1>. QED
  BY <1>1, <1>2, <1>3, <1>4, <1>5 DEF IInv

(* An announcement begins, is awaited, or settles.                         *)
LEMMA AnnouncementKeeps ==
  ASSUME IInv, NEW e \in Event, Publish(e) \/ Await(e) \/ Settles(e)
  PROVE  IInv'
<1>1. UNCHANGED <<invokerVars, module, subscribed, consumed>> /\ calling' \in Seq(Event)
  <2>1. UNCHANGED <<invokerVars, module, subscribed, consumed>>
    BY DEF Publish, Await, Settles
  <2>2. calling \in Seq(Event)
    BY DEF IInv, TypeOK
  <2>3. CASE Publish(e) \/ Settles(e)
    BY <2>2, <2>3 DEF Publish, Settles
  <2>4. CASE Await(e)
    BY <2>2, <2>4 DEF Await, Innermost, Front
  <2>. QED
    BY <2>1, <2>3, <2>4
<1>2. InvokerIInv' /\ InvokerTypeOK'
  BY <1>1, CallsKeep, InvokerTypesNext DEF IInv
<1>3. announced \in [Event -> {"none", "calling", "pending", "fulfilled", "rejected"}]
      /\ due = [f \in Event |-> due[f]] /\ subscribed \subseteq Subscriber
      /\ consumed \in [Event -> [Subscriber -> {"none"} \cup Filters]]
      /\ \A f \in Event : due[f] \subseteq Subscriber
  BY DEF IInv, TypeOK
<1>4. /\ due' = [f \in Event |-> due'[f]] /\ due'[e] \subseteq Subscriber
      /\ \A f \in Event \ {e} : due'[f] = due[f] /\ announced'[f] = announced[f]
      /\ announced' \in [Event -> {"none", "calling", "pending", "fulfilled", "rejected"}]
  BY <1>3 DEF Publish, Await, Settles, EventChannel
<1>5. TypeOK'
  BY <1>1, <1>2, <1>3, <1>4 DEF IInv, TypeOK
<1>6. ASSUME NEW f \in Event, f # e PROVE EventInv(f)'
  BY <1>1, <1>4, <1>6 DEF IInv, EventInv, Consumed, invokerVars
<1>7. EventInv(e)'
  <2>1. EventInv(e)
    BY DEF IInv
  <2>2. CASE Publish(e)
    BY <1>1, <1>3, <2>1, <2>2 DEF IInv, EventInv, Publish, EventChannel, invokerVars
  <2>3. CASE Await(e)
    BY <1>1, <1>3, <2>1, <2>3 DEF EventInv, Await, Consumed, invokerVars
  <2>4. CASE Settles(e)
    <3>1. announced[e] = "pending" /\ announced'[e] \in {"fulfilled", "rejected"} /\ due' = due
      BY <1>3, <2>4 DEF Settles
    <3>2. ASSUME announced'[e] = "fulfilled", NEW s \in due[e]
          PROVE  \/ consumed[e][s] = "ignores"
                 \/ consumed[e][s] = "accepts" /\ state[<<e, s>>][1] = "ok" /\ value[<<e, s>>] # 0
      <4>1. ~Refused(e) /\ \A t \in Acknowledged(e) : Outcome(<<e, t>>) = "fulfilled"
        BY <1>3, <2>4, <3>2 DEF Settles
      <4>2. s \in Subscriber /\ consumed[e][s] \in {"accepts", "ignores"}
        BY <1>3, <2>1, <3>1, <4>1, EventAssumption DEF EventInv, Consumed, Refused
      <4>3. CASE consumed[e][s] = "accepts"
        BY <4>1, <4>3 DEF Acknowledged, Outcome
      <4>. QED
        BY <4>2, <4>3
    <3>. QED
      BY <1>1, <2>1, <3>1, <3>2 DEF EventInv, Consumed, invokerVars
  <2>. QED
    BY <2>2, <2>3, <2>4
<1>. QED
  BY <1>1, <1>2, <1>4, <1>5, <1>6, <1>7 DEF IInv

(* A subscriber's filter decides, and the invocation may begin.            *)
LEMMA ConsumeKeeps ==
  ASSUME IInv, NEW e \in Event, NEW s \in Subscriber, Consume(e, s)
  PROVE  IInv'
<1>1. PICK f \in Filters :
        /\ consumed' = [consumed EXCEPT ![e][s] = f]
        /\ IF f = "accepts" THEN Invoke(<<e, s>>) ELSE UNCHANGED invokerVars
  BY DEF Consume
<1>2. /\ announced[e] = "calling" /\ s \in due[e] /\ consumed[e][s] = "none"
      /\ UNCHANGED <<module, subscribed, calling, due, announced>>
  BY DEF Consume
<1>3. <<e, s>> \in Call /\ \A g \in Event, t \in Subscriber : <<g, t>> \in Call
  BY EventAssumption
<1>4. /\ InvokerIInv' /\ \A d \in Call \ {<<e, s>>} : SameRow(d)
      /\ f # "accepts" => SameRow(<<e, s>>)
  <2>1. CASE f = "accepts"
    BY <1>1, <1>3, <2>1, InvokeKeeps DEF IInv
  <2>2. CASE f # "accepts"
    <3>1. UNCHANGED invokerVars
      BY <1>1, <2>2
    <3>. QED
      BY <2>2, <3>1, CallsKeep DEF IInv, SameRow, invokerVars
  <2>. QED
    BY <2>1, <2>2
<1>5. /\ consumed' \in [Event -> [Subscriber -> {"none"} \cup Filters]]
      /\ consumed'[e][s] = f
      /\ \A g \in Event, t \in Subscriber : g # e \/ t # s => consumed'[g][t] = consumed[g][t]
  BY <1>1 DEF IInv, TypeOK
<1>6. TypeOK'
  BY <1>2, <1>4, <1>5, InvokerTypesNext DEF IInv, TypeOK
<1>7. \A g \in Event, t \in Subscriber : g # e \/ t # s => SameRow(<<g, t>>)
  BY <1>3, <1>4
<1>8. ASSUME NEW g \in Event PROVE EventInv(g)'
  <2>1. EventInv(g) /\ due[g] \subseteq Subscriber
    BY DEF IInv, TypeOK
  <2>2. CASE g # e
    BY <1>2, <1>5, <1>7, <2>1, <2>2 DEF EventInv, Consumed, SameRow
  <2>3. CASE g = e
    <3>1. ASSUME NEW t \in Subscriber, consumed'[e][t] # "accepts"
          PROVE  state'[<<e, t>>][1] = "none"
      <4>1. SameRow(<<e, t>>)
        BY <1>4, <1>5, <1>7, <3>1
      <4>2. consumed[e][t] # "accepts"
        BY <1>2, <1>5, <3>1
      <4>3. state[<<e, t>>][1] = "none"
        BY <2>1, <2>3, <4>2 DEF EventInv
      <4>. QED
        BY <4>1, <4>3 DEF SameRow
    <3>2. due'[e] = due[e] /\ announced'[e] = "calling"
      BY <1>2
    <3>3. LET meant == {t \in ToSet(Found(Components)) : Channel[t] = Channel[e]}
          IN  due[e] \in {{}, meant} \/ (module = "failed" /\ due[e] \subseteq meant)
      BY <2>1, <2>3 DEF EventInv
    <3>. QED
      BY <1>2, <2>3, <3>1, <3>2, <3>3 DEF EventInv
  <2>. QED
    BY <2>2, <2>3
<1>. QED
  BY <1>2, <1>4, <1>6, <1>8 DEF IInv

(* An invocation goes on.                                                  *)
LEMMA WorkingKeeps ==
  ASSUME IInv, NEW c \in Call, Working(c)
  PROVE  IInv'
<1>1. /\ InvokerIInv' /\ state[c][1] # "none" /\ state'[c][1] # "none"
      /\ IsSettled(state[c][1]) => state'[c][1] = state[c][1]
      /\ value[c] # 0 => value'[c] = value[c]
      /\ \A d \in Call \ {c} : SameRow(d)
  BY CallStepKeeps DEF IInv, Working
<1>2. UNCHANGED eventVars
  BY DEF Working
<1>3. TypeOK'
  BY <1>1, <1>2, InvokerTypesNext DEF IInv, TypeOK, eventVars
<1>4. ASSUME NEW e \in Event PROVE EventInv(e)'
  <2>1. EventInv(e) /\ due[e] \subseteq Subscriber
    BY DEF IInv, TypeOK
  <2>2. ASSUME NEW s \in Subscriber
        PROVE  /\ state[<<e, s>>][1] = "none" => state'[<<e, s>>][1] = "none"
               /\ state[<<e, s>>][1] = "ok" => state'[<<e, s>>][1] = "ok"
               /\ value[<<e, s>>] # 0 => value'[<<e, s>>] = value[<<e, s>>]
    <3>1. <<e, s>> \in Call
      BY EventAssumption
    <3>. QED
      BY <1>1, <3>1 DEF SameRow, IsSettled
  <2>. QED
    BY <1>2, <2>1, <2>2 DEF EventInv, Consumed, eventVars
<1>. QED
  BY <1>1, <1>2, <1>3, <1>4 DEF IInv, eventVars

(* Nothing happens.                                                        *)
LEMMA StutterKeeps == IInv /\ UNCHANGED vars => IInv'
<1>. SUFFICES ASSUME IInv, UNCHANGED vars PROVE IInv'
  OBVIOUS
<1>1. InvokerIInv' /\ InvokerTypeOK' /\ UNCHANGED <<state, value>> /\ UNCHANGED eventVars
  BY CallsKeep, InvokerTypesNext DEF IInv, vars, invokerVars
<1>2. TypeOK' /\ UNCHANGED <<module, subscribed, due, consumed, announced>>
  BY <1>1 DEF IInv, TypeOK, eventVars
<1>3. ASSUME NEW e \in Event PROVE EventInv(e)'
  BY <1>1, <1>2 DEF IInv, EventInv, Consumed
<1>. QED
  BY <1>1, <1>2, <1>3 DEF IInv

(* The invariant holds in every reachable state.                           *)
THEOREM Invariance == Spec => []IInv
<1>1. IInv /\ [Next]_vars => IInv'
  BY ModuleKeeps, AnnouncementKeeps, ConsumeKeeps, WorkingKeeps, StutterKeeps DEF Next
<1>. QED
  BY <1>1, InitEstablishes, PTL DEF Spec

(* The module, its subscribers and the promises of publish() stay in their *)
(* types (event.ts).                                                       *)
THEOREM TypeCorrect == Spec => []TypeOK
<1>1. IInv => TypeOK
  BY DEF IInv
<1>. QED
  BY <1>1, Invariance, PTL

(* A publish() that fulfilled has been processed by everyone it is for.    *)
THEOREM AnnouncementsAreProcessed == Spec => []AnnouncedIsProcessed
<1>1. IInv => AnnouncedIsProcessed
  BY FoundAreSubscribers DEF IInv, EventInv, AnnouncedIsProcessed, ScanIsComplete
<1>. QED
  BY <1>1, Invariance, PTL

(* The calls of a bus keep their invariant, whatever the scan finds.       *)
THEOREM NeedsAreMet == Spec => []NothingMissing
<1>1. Init => InvokerIInv
  BY InvokerInitEstablishes DEF Init
<1>2. ASSUME InvokerIInv, [Next]_vars PROVE InvokerIInv'
  <2>1. CASE UNCHANGED invokerVars
    BY <1>2, <2>1, CallsKeep
  <2>2. ASSUME NEW c \in Call, Invoke(c) \/ CallStep(c) PROVE InvokerIInv'
    BY <1>2, <2>2, InvokeKeeps, CallStepKeeps
  <2>3. ASSUME NEW e \in Event, NEW s \in Subscriber, Consume(e, s) PROVE InvokerIInv'
    BY <2>1, <2>2, <2>3, EventAssumption DEF Consume
  <2>. QED
    BY <1>2, <2>1, <2>2, <2>3 DEF Next, vars, Start, StartThrows, Stop, Publish, Await, Settles, Working
<1>3. InvokerIInv => NothingMissing
  BY DEF InvokerIInv
<1>. QED
  BY <1>1, <1>2, <1>3, PTL DEF Spec
================================================================================
