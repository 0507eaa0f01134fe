--------------------------- MODULE HttpServer_proofs ---------------------------
(***************************************************************************)
(* Theorems about HttpServer.                                              *)
(***************************************************************************)
EXTENDS HttpServer, Container_proofs

(* The initial states satisfy the invariant.                               *)
LEMMA InitEstablishes == Init => IInv
<1>. SUFFICES ASSUME Init PROVE IInv
  OBVIOUS
<1>1. InvokerIInv
  BY InvokerInitEstablishes DEF Init
<1>2. TypeOK /\ ServerInv
  BY <1>1, InvokerTypes DEF Init, TypeOK, ServerInv
<1>3. ASSUME NEW c \in Call PROVE RequestInv(c)
  <2>1. state[c][1] = "none"
    <3>1. chain[c] \in Chains[c] /\ state[c] = [i \in Level(c) |-> "none"]
      BY DEF Init, InvokerInit
    <3>. QED
      BY <3>1, ChainType
  <2>. QED
    BY <2>1 DEF Init, RequestInv
<1>. QED
  BY <1>1, <1>2, <1>3 DEF IInv

(* onStart(), onStop() and what Node calls back leave the requests alone.  *)
LEMMA ServerKeeps ==
  ASSUME IInv, Start \/ ListenSettles \/ Stop \/ CloseCallback
  PROVE  IInv'
<1>1. UNCHANGED <<invokerVars, open, accepted, answer, cleanup>>
  BY DEF Start, ListenSettles, Stop, CloseCallback
<1>2. InvokerIInv'
  BY <1>1, CallsKeep DEF IInv
<1>3. InvokerTypeOK'
  <2>1. InvokerIInv' => InvokerTypeOK'
    BY InvokerTypes, PTL
  <2>. QED
    BY <1>2, <2>1
<1>4. ASSUME NEW c \in Call PROVE RequestInv(c)'
  BY <1>1 DEF IInv, RequestInv, invokerVars, Routed, IsSettled
<1>5. TypeOK'
  BY <1>1, <1>3 DEF IInv, TypeOK, Start, ListenSettles, Stop, CloseCallback
<1>6. ServerInv'
  BY <1>1 DEF IInv, ServerInv, TypeOK, Start, ListenSettles, Stop, CloseCallback
<1>. QED
  BY <1>2, <1>4, <1>5, <1>6 DEF IInv

(* A step of the invocations of requests changes one call.                 *)
LEMMA OtherRequestsKeep ==
  ASSUME IInv, NEW c \in Call, NEW d \in Call, d # c, SameRow(d),
         answer'[d] = answer[d], cleanup'[d] = cleanup[d],
         accepted' \in {accepted, accepted \cup {c}}
  PROVE  RequestInv(d)'
BY DEF IInv, RequestInv, SameRow, Routed, IsSettled

(* The types of the calls follow from their invariant, after a step too.   *)
LEMMA InvokerTypesNext == InvokerIInv' => InvokerTypeOK'
BY InvokerTypes, PTL

(* A request is routed to a method, the invocation of which begins.        *)
LEMMA RequestKeeps ==
  ASSUME IInv, NEW c \in Call, Request(c)
  PROVE  IInv'
<1>1. /\ InvokerIInv' /\ state[c][1] = "none"
      /\ \A d \in Call \ {c} : SameRow(d)
  BY InvokeKeeps DEF IInv, Request
<1>2. /\ server = "listening" /\ c \notin accepted /\ Routed(c)
      /\ accepted' = accepted \cup {c} /\ open' = open \cup {c}
      /\ UNCHANGED <<server, starting, stopping, answer, cleanup>>
  BY DEF Request
<1>3. RequestInv(c)'
  BY <1>2 DEF IInv, RequestInv, Routed
<1>4. ASSUME NEW d \in Call \ {c} PROVE RequestInv(d)'
  BY <1>1, <1>2, OtherRequestsKeep
<1>5. TypeOK' /\ ServerInv'
  BY <1>1, <1>2, InvokerTypesNext DEF IInv, TypeOK, ServerInv
<1>. QED
  BY <1>1, <1>3, <1>4, <1>5 DEF IInv

(* Its levels go on.                                                       *)
LEMMA WorkingKeeps ==
  ASSUME IInv, NEW c \in Call, Working(c)
  PROVE  IInv'
<1>1. /\ InvokerIInv' /\ state[c][1] # "none" /\ state'[c][1] # "none"
      /\ IsSettled(state[c][1]) => state'[c][1] = state[c][1]
      /\ value[c] # 0 => value'[c] = value[c]
      /\ \A d \in Call \ {c} : SameRow(d)
  BY CallStepKeeps DEF IInv, Working
<1>2. UNCHANGED serverVars
  BY DEF Working
<1>3. RequestInv(c)'
  BY <1>1, <1>2 DEF IInv, RequestInv, serverVars, Routed, IsSettled
<1>4. ASSUME NEW d \in Call \ {c} PROVE RequestInv(d)'
  BY <1>1, <1>2, OtherRequestsKeep DEF serverVars
<1>5. TypeOK' /\ ServerInv'
  BY <1>1, <1>2, InvokerTypesNext DEF IInv, TypeOK, ServerInv, serverVars
<1>. QED
  BY <1>1, <1>3, <1>4, <1>5 DEF IInv

(* The router's handler and the cleanup answer; connections end.           *)
LEMMA AnswersKeep ==
  ASSUME IInv, NEW c \in Call,
         AnswerEarly(c) \/ Handled(c) \/ CleanupSettles(c) \/ Disconnect(c)
  PROVE  IInv'
<1>1. UNCHANGED <<invokerVars, server, starting, stopping>>
  BY DEF AnswerEarly, Handled, CleanupSettles, Disconnect
<1>2. InvokerIInv' /\ InvokerTypeOK'
  BY <1>1, CallsKeep, InvokerTypesNext DEF IInv
<1>3. /\ answer \in [Call -> {"none", "ok", "error", "notfound", "intercepted"}]
      /\ cleanup \in [Call -> {"none", "running", "done"}]
  BY DEF IInv, TypeOK
<1>4. \A d \in Call : SameRow(d)
  BY <1>1 DEF SameRow, invokerVars
<1>5. CASE AnswerEarly(c)
  <2>1. RequestInv(c)'
    BY <1>1, <1>3, <1>5 DEF IInv, RequestInv, AnswerEarly, Routed, invokerVars
  <2>2. ASSUME NEW d \in Call \ {c} PROVE RequestInv(d)'
    BY <1>3, <1>4, <1>5, OtherRequestsKeep DEF AnswerEarly
  <2>3. TypeOK' /\ ServerInv'
    BY <1>2, <1>3, <1>5 DEF IInv, TypeOK, ServerInv, AnswerEarly
  <2>. QED
    BY <1>2, <2>1, <2>2, <2>3 DEF IInv
<1>6. CASE Handled(c)
  <2>1. Outcome(c) \in {"fulfilled", "rejected"} => IsSettled(state[c][1])
    BY DEF Outcome, IsSettled
  <2>2. Outcome(c) = "fulfilled" => value[c] # 0 /\ state[c][1] = "ok"
    BY DEF Outcome
  <2>3. RequestInv(c)'
    BY <1>1, <1>3, <1>6, <2>1, <2>2 DEF IInv, RequestInv, Handled, Routed, invokerVars, IsSettled
  <2>4. ASSUME NEW d \in Call \ {c} PROVE RequestInv(d)'
    BY <1>3, <1>4, <1>6, OtherRequestsKeep DEF Handled
  <2>5. TypeOK' /\ ServerInv'
    BY <1>2, <1>3, <1>6 DEF IInv, TypeOK, ServerInv, Handled
  <2>. QED
    BY <1>2, <2>3, <2>4, <2>5 DEF IInv
<1>7. CASE CleanupSettles(c)
  <2>1. Outcome(c) = "fulfilled" => value[c] # 0 /\ state[c][1] = "ok"
    BY DEF Outcome
  <2>2. answer'[c] \in {"ok", "error"} /\ (answer'[c] = "ok" => Outcome(c) = "fulfilled")
    BY <1>3, <1>7 DEF CleanupSettles
  <2>3. RequestInv(c)'
    BY <1>1, <1>3, <1>7, <2>1, <2>2 DEF IInv, RequestInv, CleanupSettles, Routed, invokerVars, IsSettled
  <2>4. ASSUME NEW d \in Call \ {c} PROVE RequestInv(d)'
    BY <1>3, <1>4, <1>7, OtherRequestsKeep DEF CleanupSettles
  <2>5. TypeOK' /\ ServerInv'
    BY <1>2, <1>3, <1>7 DEF IInv, TypeOK, ServerInv, CleanupSettles
  <2>. QED
    BY <1>2, <2>3, <2>4, <2>5 DEF IInv
<1>8. CASE Disconnect(c)
  <2>1. ASSUME NEW d \in Call PROVE RequestInv(d)'
    BY <1>1, <1>8 DEF IInv, RequestInv, Disconnect, Routed, invokerVars, IsSettled
  <2>2. TypeOK' /\ ServerInv'
    BY <1>2, <1>3, <1>8 DEF IInv, TypeOK, ServerInv, Disconnect
  <2>. QED
    BY <1>2, <2>1, <2>2 DEF IInv
<1>. QED
  BY <1>5, <1>6, <1>7, <1>8

(* Nothing happens.                                                        *)
LEMMA StutterKeeps == IInv /\ UNCHANGED vars => IInv'
<1>. SUFFICES ASSUME IInv, UNCHANGED vars PROVE IInv'
  OBVIOUS
<1>1. InvokerIInv' /\ InvokerTypeOK' /\ UNCHANGED invokerVars /\ UNCHANGED serverVars
  BY CallsKeep, InvokerTypesNext DEF IInv, vars
<1>. QED
  BY <1>1 DEF IInv, TypeOK, ServerInv, RequestInv, serverVars, invokerVars, Routed, IsSettled

(* The invariant holds in every reachable state.                           *)
THEOREM Invariance == Spec => []IInv
<1>1. IInv /\ [Next]_vars => IInv'
  BY ServerKeeps, RequestKeeps, WorkingKeeps, AnswersKeep, StutterKeeps DEF Next
<1>. QED
  BY <1>1, InitEstablishes, PTL DEF Spec

(* The server, its requests and their answers stay in their types (http-   *)
(* koa-platform).                                                          *)
THEOREM TypeCorrect == Spec => []TypeOK
<1>1. IInv => TypeOK
  BY DEF IInv
<1>. QED
  BY <1>1, Invariance, PTL

(* No level of a request misses what it needs.                             *)
THEOREM NeedsAreMet == Spec => []NothingMissing
<1>1. IInv => NothingMissing
  BY DEF IInv, InvokerIInv
<1>. QED
  BY <1>1, Invariance, PTL

(* A client is told the truth: what it asked for is routed if and only if  *)
(* a matching controller that can be reached declares it, and the answer   *)
(* says what became of it.                                                 *)
THEOREM AnswersAreTrue == Spec => []AnswerTellsTruth
<1>1. \A c \in Call : Routed(c) <=> Target[c] \in Expected(Components)
  <2>1. ScanIsComplete(Components)
    BY ScannerAssumption, ScanFindsAll
  <2>. QED
    BY <2>1 DEF ScanIsComplete, Routed, ControllerRouteSpecs
<1>2. IInv => AnswerTellsTruth
  BY <1>1 DEF IInv, RequestInv, AnswerTellsTruth
<1>. QED
  BY <1>2, Invariance, PTL

(* When onStop() has fulfilled, nothing runs that a client waits for.      *)
THEOREM StopIsQuiet == Spec => []QuietAfterStop
<1>1. IInv => QuietAfterStop
  <2>. SUFFICES ASSUME IInv, stopping = "fulfilled", NEW c \in accepted,
                       NEW i \in Level(c), state[c][i] = "running"
                PROVE  /\ c \notin open
                       /\ answer[c] = "none" \/ \E k \in Level(c) : nexts[c][k] > 0 /\ ~awaits[c][k]
    BY DEF QuietAfterStop
  <2>1. c \in Call /\ c \notin open
    BY DEF IInv, TypeOK, ServerInv
  <2>2. CallOK(c) /\ LevelsInv(c)
    BY <2>1, InvokerIInvDef DEF IInv, CallOK
  <2>3. Level(c) = 1 .. Depth(c) /\ Depth(c) \in Nat /\ 1 \in Level(c)
    BY <2>1, <2>2, ChainType DEF LevelsInv, Level
  <2>4. CASE answer[c] \in {"ok", "error"}
    <3>1. IsSettled(state[c][1]) /\ 1 < i
      BY <2>1, <2>3, <2>4 DEF IInv, RequestInv, IsSettled
    <3>. QED
      BY <2>1, <2>2, <2>3, <3>1 DEF LevelsInv
  <2>5. CASE answer[c] \in {"notfound", "intercepted"}
    <3>1. state[c][1] = "none"
      BY <2>1, <2>5 DEF IInv, RequestInv
    <3>. QED
      BY <2>2, <2>3, <3>1 DEF LevelsInv
  <2>6. answer[c] \in {"none", "ok", "error", "notfound", "intercepted"}
    BY <2>1 DEF IInv, TypeOK
  <2>. QED
    BY <2>1, <2>4, <2>5, <2>6
<1>. QED
  BY <1>1, Invariance, PTL
================================================================================
