------------------------------ MODULE HttpServer ------------------------------
(***************************************************************************)
(* AbstractHttpModule (http-common/src/index.ts) and the Koa routers       *)
(* (http-koa-platform/src/http-koa-integration.ts): a server that starts   *)
(* and stops with its module, and requests that are invocations of         *)
(* controller methods.                                                     *)
(*                                                                         *)
(* The HTTP server of Node is external: close() takes no more connections  *)
(* and calls back when none is open.  Each request has a connection of its *)
(* own, which ends after the answer or when the client goes away; a client *)
(* that went away does not end the invocation.                             *)
(***************************************************************************)
EXTENDS MethodInvoker, ModuleScanner

CONSTANTS
  Multipart,  \* the calls whose method has a multipart body
  Target      \* Target[c]: the mapped method whose path and verb request c has

ASSUME HttpAssumption == Multipart \subseteq Call /\ DOMAIN Target = Call

VARIABLES
  server,     \* "idle", "starting", "listening", "failed", "closing", "closed"
  starting,   \* the promise of onStart()
  stopping,   \* the promise of onStop()
  open,       \* the requests whose connection is open
  accepted,   \* the requests the listener was called for
  answer,     \* answer[c]: "none", "ok" or "error", as the handler leaves it;
              \* "notfound", "intercepted": no handler was called
  cleanup     \* cleanup[c]: "none", "running", "done", of the multipart reader

serverVars == <<server, starting, stopping, open, accepted, answer, cleanup>>
vars == <<invokerVars, serverVars>>

TypeOK ==
  /\ InvokerTypeOK
  /\ server \in {"idle", "starting", "listening", "failed", "closing", "closed"}
  /\ starting \in {"none", "pending", "fulfilled", "rejected"}
  /\ stopping \in {"none", "pending", "fulfilled"}
  /\ open \subseteq accepted /\ accepted \subseteq Call
  /\ answer \in [Call -> {"none", "ok", "error", "notfound", "intercepted"}]
  /\ cleanup \in [Call -> {"none", "running", "done"}]

Init ==
  /\ InvokerInit
  /\ server = "idle" /\ starting = "none" /\ stopping = "none"
  /\ open = {} /\ accepted = {}
  /\ answer = [c \in Call |-> "none"] /\ cleanup = [c \in Call |-> "none"]

(* onStart(): the routes are built and listen() is called.                 *)
Start ==
  /\ starting = "none"
  /\ starting' = "pending" /\ server' = "starting"
  /\ UNCHANGED <<invokerVars, stopping, open, accepted, answer, cleanup>>

(* The server listens, or the one listener of 'error' rejects.             *)
ListenSettles ==
  /\ server = "starting"
  /\ \/ server' = "listening" /\ starting' = "fulfilled"
     \/ server' = "failed" /\ starting' = "rejected"
  /\ UNCHANGED <<invokerVars, stopping, open, accepted, answer, cleanup>>

(* Mutant: onStop() does not wait for what close() calls back.             *)
StopUnawaited ==
  /\ starting = "fulfilled" /\ stopping = "none"
  /\ server' = "closing" /\ stopping' = "fulfilled"
  /\ UNCHANGED <<invokerVars, starting, open, accepted, answer, cleanup>>

(* onStop(), which the module lifecycle calls after a start that fulfilled.*)
Stop ==
  /\ starting = "fulfilled" /\ stopping = "none"
  /\ server' = "closing" /\ stopping' = "pending"
  /\ UNCHANGED <<invokerVars, starting, open, accepted, answer, cleanup>>

CloseCallback ==
  /\ server = "closing" /\ open = {}
  /\ server' = "closed" /\ stopping' = "fulfilled"
  /\ UNCHANGED <<invokerVars, starting, open, accepted, answer, cleanup>>

-----------------------------------------------------------------------------
(* Routes.                                                                 *)

(* addRouterSpec(): the middlewares of the module come first, then those   *)
(* of the controller, then those of the method's mapping.                  *)
RouteChain(module, controller, mapping, method) ==
  module \o controller \o mapping \o <<method>>

(* #scanControllers() and addControllerWithMetadata(): the mapped methods  *)
(* of the matching controllers.                                            *)
ControllerRouteSpecs == Found(Components)

(* createGlobalRouter(): a route for each of them, below its controller's. *)
Routed(c) == Target[c] \in ToSet(ControllerRouteSpecs)

-----------------------------------------------------------------------------
(* Requests.                                                               *)

Request(c) ==
  /\ server = "listening" /\ c \notin accepted /\ Routed(c)
  /\ accepted' = accepted \cup {c} /\ open' = open \cup {c}
  /\ Invoke(c)
  /\ UNCHANGED <<server, starting, stopping, answer, cleanup>>

(* build(): CORS, the body parser and the Koa middlewares of the program   *)
(* stand before the router and may answer or throw; without a route nobody *)
(* else answers.  Such a connection is over at once.                       *)
AnswerEarly(c) ==
  /\ server = "listening" /\ c \notin accepted
  /\ accepted' = accepted \cup {c}
  /\ answer' = [answer EXCEPT ![c] = IF Routed(c) THEN "intercepted" ELSE "notfound"]
  /\ UNCHANGED <<invokerVars, server, starting, stopping, open, cleanup>>

Working(c) ==
  /\ CallStep(c)
  /\ UNCHANGED serverVars

(* Mutant: only an invocation that fulfils gets an answer.                 *)
HandledFulfilled(c) ==
  /\ c \in accepted /\ answer[c] = "none" /\ cleanup[c] = "none"
  /\ Outcome(c) = "fulfilled"
  /\ IF c \in Multipart
     THEN cleanup' = [cleanup EXCEPT ![c] = "running"] /\ UNCHANGED answer
     ELSE answer' = [answer EXCEPT ![c] = "ok"] /\ UNCHANGED cleanup
  /\ UNCHANGED <<invokerVars, server, starting, stopping, open, accepted>>

(* The router's handler after invoke(): the response is written at once;   *)
(* with a multipart body the response is filled in, and the finally clause *)
(* awaits the cleanup before Koa sends it.                                 *)
Handled(c) ==
  /\ c \in accepted /\ answer[c] = "none" /\ cleanup[c] = "none"
  /\ Outcome(c) \in {"fulfilled", "rejected"}
  /\ IF c \in Multipart
     THEN cleanup' = [cleanup EXCEPT ![c] = "running"] /\ UNCHANGED answer
     ELSE /\ answer' = [answer EXCEPT ![c] = IF Outcome(c) = "fulfilled" THEN "ok" ELSE "error"]
          /\ UNCHANGED cleanup
  /\ UNCHANGED <<invokerVars, server, starting, stopping, open, accepted>>

(* Mutant: a cleanup that fails goes unnoticed.                            *)
CleanupSettlesQuietly(c) ==
  /\ cleanup[c] = "running"
  /\ cleanup' = [cleanup EXCEPT ![c] = "done"]
  /\ answer' = [answer EXCEPT ![c] = "ok"]
  /\ UNCHANGED <<invokerVars, server, starting, stopping, open, accepted>>

(* await cleanup(): what it throws takes the place of the result.          *)
CleanupSettles(c) ==
  /\ cleanup[c] = "running"
  /\ cleanup' = [cleanup EXCEPT ![c] = "done"]
  /\ \E a \in IF Outcome(c) = "fulfilled" THEN {"ok", "error"} ELSE {"error"} :
       answer' = [answer EXCEPT ![c] = a]
  /\ UNCHANGED <<invokerVars, server, starting, stopping, open, accepted>>

(* The answered connection ends, or the client goes away before that.      *)
Disconnect(c) ==
  /\ c \in open
  /\ open' = open \ {c}
  /\ UNCHANGED <<invokerVars, server, starting, stopping, accepted, answer, cleanup>>

Next ==
  \/ Start \/ ListenSettles \/ Stop \/ CloseCallback
  \/ \E c \in Call : Request(c) \/ AnswerEarly(c) \/ Working(c) \/ Handled(c) \/ CleanupSettles(c) \/ Disconnect(c)

Spec == Init /\ [][Next]_vars

(* Node, Koa and the application go on with what they have begun; a        *)
(* connection whose request was answered is closed.  Whether a client goes *)
(* away before is its own affair.                                          *)
Fairness ==
  /\ WF_vars(ListenSettles) /\ WF_vars(CloseCallback)
  /\ \A c \in Call :
       /\ WF_vars(CallSettles(c) /\ UNCHANGED serverVars)
       /\ WF_vars(Handled(c)) /\ WF_vars(CleanupSettles(c))
       /\ WF_vars(answer[c] # "none" /\ Disconnect(c))

FairSpec == Spec /\ Fairness

-----------------------------------------------------------------------------
(* The client is told that all went well only when the method returned,    *)
(* no middleware above it threw afterwards, and the files of a multipart   *)
(* body are cleaned up; and that there is nothing, only when no controller *)
(* that is reachable and has the labels maps the path.                     *)
AnswerTellsTruth ==
  \A c \in Call :
    /\ answer[c] = "ok" =>
         /\ value[c] # 0 /\ state[c][1] = "ok"
         /\ c \in Multipart => cleanup[c] = "done"
    /\ answer[c] = "notfound" => Target[c] \notin Expected(Components)
    /\ state[c][1] # "none" => Target[c] \in Expected(Components)

(* When onStop() has fulfilled, and the modules below may be stopped, code *)
(* of a controller or middleware runs only for a client that went away     *)
(* without its answer, or below a middleware that did not await next().    *)
QuietAfterStop ==
  stopping = "fulfilled" =>
    \A c \in accepted : (\E i \in Level(c) : state[c][i] = "running") =>
      /\ c \notin open
      /\ answer[c] = "none" \/ \E i \in Level(c) : nexts[c][i] > 0 /\ ~awaits[c][i]

(* onStop() is fulfilled at last, whatever middlewares and methods do,     *)
(* unless a middleware leaves a request without an answer                  *)
(* (method-invoker.ts:165): close() then waits for its client.             *)
StopSettles ==
  stopping = "pending" ~> (stopping = "fulfilled" \/ \E c \in open : Unanswered(c))

(* The inductive invariant.  The server goes through its states with the   *)
(* promises of onStart() and onStop(), a closed one has no connection, and *)
(* no request begins a second time; RequestInv relates what a client is    *)
(* told to what its invocation has come to.                                *)
ServerInv ==
  /\ stopping # "none" => starting = "fulfilled"
  /\ stopping = "pending" <=> server = "closing"
  /\ stopping = "fulfilled" <=> server = "closed"
  /\ server = "closed" => open = {}
  /\ open \subseteq accepted

RequestInv(c) ==
  /\ c \notin accepted => state[c][1] = "none" /\ answer[c] = "none" /\ cleanup[c] = "none"
  /\ answer[c] \in {"ok", "error"} \/ cleanup[c] # "none" => IsSettled(state[c][1])
  /\ answer[c] \in {"notfound", "intercepted"} => state[c][1] = "none"
  /\ answer[c] = "ok" =>
       /\ value[c] # 0 /\ state[c][1] = "ok"
       /\ c \in Multipart => cleanup[c] = "done"
  /\ state[c][1] # "none" => Routed(c)
  /\ answer[c] = "notfound" => ~Routed(c)

IInv == InvokerIInv /\ TypeOK /\ ServerInv /\ \A c \in Call : RequestInv(c)
===============================================================================
