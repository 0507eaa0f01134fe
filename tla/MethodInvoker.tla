---------------------------- MODULE MethodInvoker ----------------------------
(***************************************************************************)
(* packages/container/src/method-invoker.ts: calls of methods behind chains*)
(* of middlewares.                                                         *)
(*                                                                         *)
(* Level i of a call is the handle() of the i-th middleware, the outermost *)
(* first; the level below the last middleware is the method itself.  A     *)
(* middleware may call next() or not, await it or not, call it again after *)
(* it has settled, and return or throw whatever came of it: all of this is *)
(* application code.  HttpServer and EventBus compose these calls.         *)
(***************************************************************************)
EXTENDS Naturals, Sequences, FiniteSets

CONSTANTS
  Call,        \* the calls of invoke()
  Service,     \* ids that a level may need
  BoundIds,    \* those bound in the container
  ContextIds,  \* those every call brings along
  Chains,      \* Chains[c]: the chains that may stand before the method of c: sequences
               \* of levels [needs, provides], the method at the end
  MaxNexts     \* bound: calls of next() by one run of a middleware

ASSUME InvokerAssumption ==
  /\ BoundIds \subseteq Service /\ ContextIds \subseteq Service /\ MaxNexts \in Nat
  /\ \A c \in Call :
       Chains[c] \subseteq Seq([needs : SUBSET Service, provides : SUBSET Service]) \ {<<>>}

VARIABLES
  chain,     \* chain[c]: the levels of c
  state,     \* state[c][i]: "none" before level i ran, then of its last run
  nexts,     \* nexts[c][i]: calls of next() by the last run of level i
  awaits,    \* awaits[c][i]: the last run of level i awaits its next()
  provided,  \* provided[c]: the temporary bindings of the session of c
  value,     \* value[c]: which run of the method resolveCallback() got first, or 0
  runs,      \* runs[c]: how often the method was called
  missing    \* the calls a level of which did not find an id it needs

invokerVars == <<chain, state, nexts, awaits, provided, value, runs, missing>>

Depth(c) == Len(chain[c])
Level(c) == 1 .. Depth(c)
IsSettled(s) == s \in {"ok", "failed"}

(* Mutant: what a middleware provides is there for itself already.         *)
BuildableEarly(ch) ==
  \A i \in DOMAIN ch :
    ch[i].needs \subseteq BoundIds \cup ContextIds \cup UNION {ch[j].provides : j \in 1 .. i}

(* validateAndBuildMiddlewareMetadata(): each level finds what it needs    *)
(* among the bindings, the context and what the levels above it provide;   *)
(* createMethodInvoker() throws for any other chain.                       *)
Buildable(ch) ==
  \A i \in DOMAIN ch :
    ch[i].needs \subseteq BoundIds \cup ContextIds \cup UNION {ch[j].provides : j \in 1 .. i - 1}

InvokerTypeOK ==
  /\ \A c \in Call : chain[c] \in Chains[c] /\ DOMAIN state[c] = Level(c)
  /\ \A c \in Call : \A i \in Level(c) :
       /\ state[c][i] \in {"none", "running", "ok", "failed"}
       /\ nexts[c][i] \in 0 .. MaxNexts /\ (nexts[c][i] > 0 => i < Depth(c))
  /\ \A c \in Call : provided[c] \subseteq Service /\ value[c] \in 0 .. runs[c]
  /\ missing \subseteq Call

InvokerInit ==
  /\ chain \in {f \in [Call -> UNION {Chains[c] : c \in Call}] :
                  \A c \in Call : f[c] \in Chains[c] /\ Buildable(f[c])}
  /\ state = [c \in Call |-> [i \in Level(c) |-> "none"]]
  /\ nexts = [c \in Call |-> [i \in Level(c) |-> 0]]
  /\ awaits = [c \in Call |-> [i \in Level(c) |-> FALSE]]
  /\ provided = [c \in Call |-> {}]
  /\ value = [c \in Call |-> 0] /\ runs = [c \in Call |-> 0] /\ missing = {}

(* What a session can resolve: the bindings of the container, the context  *)
(* of the call, and what has become available for the levels below.        *)
Session(available) == BoundIds \cup ContextIds \cup available

(* The instance of level i is built from the session, which may throw, and *)
(* begins to run; what lies below is reset for it.                         *)
Enter(c, i, st, available) ==
  LET found == chain[c][i].needs \subseteq Session(available)
  IN  /\ \E s \in IF found THEN {"running", "failed"} ELSE {"failed"} :
           /\ state' = [state EXCEPT ![c] = [j \in Level(c) |-> IF j < i THEN st[j]
                                             ELSE IF j = i THEN s ELSE "none"]]
           /\ runs' = IF i = Depth(c) /\ s = "running" THEN [runs EXCEPT ![c] = @ + 1] ELSE runs
      /\ missing' = IF found THEN missing ELSE missing \cup {c}

(* invoke(): a session with the context, and the outermost level.          *)
Invoke(c) ==
  /\ state[c][1] = "none"
  /\ Enter(c, 1, state[c], {})
  /\ UNCHANGED <<chain, nexts, awaits, provided, value>>

MayGoOn(c, i) ==
  /\ state[c][i] = "running"
  /\ i < Depth(c) /\ awaits[c][i] => IsSettled(state[c][i + 1])

(* A middleware calls next(...): its arguments become temporary bindings.  *)
(* It does so again only when nothing runs below it any more.              *)
CallNext(c, i) ==
  /\ i < Depth(c) /\ MayGoOn(c, i) /\ nexts[c][i] < MaxNexts
  /\ \A j \in i + 1 .. Depth(c) : state[c][j] # "running"
  /\ \E a \in BOOLEAN :
       awaits' = [awaits EXCEPT ![c] = [j \in Level(c) |-> IF j = i THEN a ELSE j < i /\ @[j]]]
  /\ nexts' = [nexts EXCEPT ![c] = [j \in Level(c) |-> IF j = i THEN @[j] + 1
                                                       ELSE IF j > i THEN 0 ELSE @[j]]]
  /\ provided' = [provided EXCEPT ![c] = @ \cup chain[c][i].provides]
  /\ Enter(c, i + 1, state[c], provided'[c])
  /\ UNCHANGED <<chain, value>>

(* handle() returns or throws, also when next() was not called or failed.  *)
HandleSettles(c, i) ==
  /\ i < Depth(c) /\ MayGoOn(c, i)
  /\ \E s \in {"ok", "failed"} : state' = [state EXCEPT ![c][i] = s]
  /\ UNCHANGED <<chain, nexts, awaits, provided, value, runs, missing>>

(* The promise of the method: its value goes to resolveCallback().         *)
MethodSettles(c) ==
  /\ state[c][Depth(c)] = "running"
  /\ \/ /\ state' = [state EXCEPT ![c][Depth(c)] = "ok"]
        /\ value' = IF value[c] = 0 THEN [value EXCEPT ![c] = runs[c]] ELSE value
     \/ /\ state' = [state EXCEPT ![c][Depth(c)] = "failed"]
        /\ UNCHANGED value
  /\ UNCHANGED <<chain, nexts, awaits, provided, runs, missing>>

CallSettles(c) == MethodSettles(c) \/ \E i \in Level(c) : HandleSettles(c, i)

CallStep(c) == CallSettles(c) \/ \E i \in Level(c) : CallNext(c, i)

(* The promise that invoke() returns: rejected with the outermost level,   *)
(* and fulfilled with the value when that level is done without an error   *)
(* and there is a value.                                                   *)
Outcome(c) ==
  CASE state[c][1] = "none" -> "none"
    [] state[c][1] = "failed" -> "rejected"
    [] state[c][1] = "ok" /\ value[c] # 0 -> "fulfilled"
    [] OTHER -> "pending"

(* The outermost middleware is done, and nobody will produce a value.      *)
Unanswered(c) ==
  state[c][1] = "ok" /\ value[c] = 0 /\ \A i \in Level(c) : state[c][i] # "running"

-----------------------------------------------------------------------------
(* A level finds everything it needs in the session: what the building of  *)
(* the invoker accepted (method-invoker.ts:71-94) is there at run time.    *)
NothingMissing == missing = {}

(* What it rests on: a level runs only below levels that called next(),    *)
(* and what those provide is in the session.                               *)
LevelsInv(c) ==
  /\ chain[c] \in Chains[c] /\ Buildable(chain[c])
  /\ \A i \in Level(c) : state[c][i] # "none" =>
       \A j \in 1 .. i - 1 : /\ state[c][j] # "none" /\ nexts[c][j] > 0
                             /\ chain[c][j].provides \subseteq provided[c]
  /\ \A i, k \in Level(c) : i < k /\ IsSettled(state[c][i]) /\ state[c][k] = "running" =>
       \E j \in i .. k - 1 : nexts[c][j] > 0 /\ ~awaits[c][j]

InvokerIInv ==
  /\ chain = [c \in Call |-> chain[c]]
  /\ state = [c \in Call |-> state[c]] /\ nexts = [c \in Call |-> nexts[c]]
  /\ awaits = [c \in Call |-> awaits[c]]
  /\ \A c \in Call :
       /\ state[c] \in [Level(c) -> {"none", "running", "ok", "failed"}]
       /\ nexts[c] \in [Level(c) -> 0 .. MaxNexts] /\ awaits[c] \in [Level(c) -> BOOLEAN]
       /\ \A i \in Level(c) : nexts[c][i] > 0 => i < Depth(c)
  /\ provided \in [Call -> SUBSET Service] /\ value \in [Call -> Nat] /\ runs \in [Call -> Nat]
  /\ \A c \in Call : value[c] <= runs[c] /\ LevelsInv(c)
  /\ NothingMissing
=============================================================================
