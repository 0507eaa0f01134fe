------------------------------ MODULE Container ------------------------------
(***************************************************************************)
(* packages/container: bindings, their validation, and the stack machine   *)
(* that a ResolveSession runs (container.ts, utils.ts, resolve-session.ts).*)
(*                                                                         *)
(* A session keeps an instruction stack, a value stack and a cache of its  *)
(* own; instances of singletons go to a cache that all sessions share.     *)
(* One Step runs one instruction.  A call of resolve() is synchronous: the *)
(* session that runs it runs it to its end before anything else happens.   *)
(* A factory may throw; it does not call the container back.               *)
(***************************************************************************)
EXTENDS Naturals, Sequences, FiniteSets, SequencesExt

CONSTANTS
  Id,          \* service ids
  ResolveSession,     \* resolve sessions
  None,        \* nothing
  Program,     \* what a program may bind: functions from Id to a binding or None
  Parents,     \* Parents[id]: the injectable ancestors of the class id, nearest first
  Proxy,       \* a class that is bound nowhere, for construct()
  ProxyParams, \* its parameters
  MaxCalls,    \* bound: calls of resolve() and construct()
  MaxThrows,   \* bound: factories that throw
  MinBound,    \* bound: nothing is resolved before so many ids are bound
  MaxTemporary,\* bound: temporary bindings of a session
  MaxDepth     \* bound: a longer instruction stack is an endless resolution

Scope == {"SESSION", "SINGLETON", "TRANSIENT"}
Param == [id : Id, optional : BOOLEAN, transform : BOOLEAN]
Binding ==
  [type : {"INSTANCE"}, scope : Scope, params : Seq(Param), gap : BOOLEAN]
    \cup [type : {"CONSTANT"}] \cup [type : {"ALIAS"}, to : Id]
Values == [kind : {"constant", "instance", "temporary", "undefined"}, of : Id \cup {Proxy, None},
           n : Nat, transformed : BOOLEAN]
Calls == [by : ResolveSession, target : Id \cup {Proxy}]

ASSUME ContainerAssumption ==
  /\ IsFiniteSet(Id) /\ Proxy \notin Id \cup {None}
  /\ None \notin Id \cup Binding \cup Values \cup Calls
  /\ None \notin {"endless", "notFound", "notCompiled"}
  /\ Parents \in [Id -> Seq(Id)]
  /\ \A p \in Program : p \in [Id -> Binding \cup {None}]
  /\ ProxyParams \in Seq(Param)

(* A stack of instructions that takes the code of no class twice is no     *)
(* endless one: with a transformer, a parameter makes two instructions.    *)
ASSUME DepthAssumption ==
  /\ MaxDepth \in Nat
  /\ \E n \in 1 .. MaxDepth :
       /\ Cardinality(Id) * n <= MaxDepth
       /\ \A p \in Program, id \in Id :
            p[id] # None /\ p[id].type = "INSTANCE" => 1 + 2 * Len(p[id].params) <= n

VARIABLES
  program,       \* the member of Program at hand
  bindings,      \* #bindingMap
  order,         \* the keys of #bindingMap, in the order of insertion
  compiled,      \* the keys of #compiledInstructionMap
  validated,     \* #validatedBindings
  passed,        \* the <<id, parameter>> pairs at which a validation stopped looking at id
  valid,      \* validate() returned and nothing was bound since
  globalCache,   \* #singletonCache
  instructions, stack, sessionCache, temporary,   \* of each session
  running,       \* the call that runs: [by, target], or None
  threw,         \* the sessions in which a call has thrown
  made,          \* made[id]: the builds of id: who built it, from what, in a clean session?
  resolved,        \* the last call that returned
  fault,         \* the last call that failed, but for a factory that threw
  calls, throws

containerVars == <<program, bindings, order, compiled, validated, passed, valid, globalCache,
          instructions, stack, sessionCache, temporary, running, threw, made, resolved,
          fault, calls, throws>>
bindVars == <<program, bindings, order, compiled, validated, passed, valid>>
ghostVars == <<resolved, fault, made, throws>>

(* A value: which id it is an instance of, which one, and whether a        *)
(* parameter's transformer has been applied to it.                         *)
Value(kind, id, n) == [kind |-> kind, of |-> id, n |-> n, transformed |-> FALSE]
Undefined == Value("undefined", None, 0)

IsClass(b) == b # None /\ b.type = "INSTANCE"
ParamsOf(id) == IF id = Proxy THEN ProxyParams ELSE bindings[id].params
ScopeOf(id) == IF id = Proxy THEN "TRANSIENT" ELSE bindings[id].scope

Bound(id) == bindings[id] # None

ContainerTypeOK ==
  /\ program \in Program
  /\ {id \in Id : Bound(id)} = ToSet(order)
  /\ compiled \cup validated \subseteq ToSet(order)
  /\ valid \in BOOLEAN /\ threw \subseteq ResolveSession
  /\ \A s \in ResolveSession : temporary[s] \subseteq {id \in Id : sessionCache[s][id] # None}

ContainerInit ==
  /\ program \in Program
  /\ bindings = [id \in Id |-> None] /\ order = <<>> /\ compiled = {}
  /\ validated = {} /\ passed = {} /\ valid = FALSE
  /\ globalCache = [id \in Id |-> None]
  /\ instructions = [s \in ResolveSession |-> <<>>] /\ stack = [s \in ResolveSession |-> <<>>]
  /\ sessionCache = [s \in ResolveSession |-> [id \in Id |-> None]]
  /\ temporary = [s \in ResolveSession |-> {}]
  /\ running = None /\ threw = {}
  /\ made = [id \in Id |-> <<>>] /\ resolved = None /\ fault = None
  /\ calls = 0 /\ throws = 0

-----------------------------------------------------------------------------
(* Binding and validation.                                                 *)

(* add(ctor) binds the class and an alias for each injectable ancestor,    *)
(* addBinding() anything else.  A duplicate ancestor throws and leaves the *)
(* bindings made so far; a gap among the parameters' indices throws when   *)
(* the binding is in the map and its instructions are not.                 *)
Bind(id) ==
  LET b == program[id]
      chain == IF IsClass(b) /\ ~b.gap THEN <<id>> \o Parents[id] ELSE <<id>>
      free == SelectInSeq(chain, LAMBDA i : Bound(i))
      new == IF free = 0 THEN chain ELSE SubSeq(chain, 1, free - 1)
  IN  /\ running = None /\ b # None /\ ~Bound(id)
      /\ bindings' = [i \in Id |-> IF i = id THEN b
                                   ELSE IF i \in ToSet(new) THEN [type |-> "ALIAS", to |-> id]
                                   ELSE bindings[i]]
      /\ order' = order \o new
      /\ compiled' = IF IsClass(b) /\ ~b.gap THEN compiled \cup {id} ELSE compiled
      /\ valid' = FALSE
      /\ UNCHANGED <<program, validated, passed, globalCache, instructions, stack,
                     sessionCache, temporary, running, threw, calls>>
      /\ UNCHANGED ghostVars

(* What a validation knows: whether it has met nothing wrong, the ids it is*)
(* done with, and the parameters at which it stopped.                      *)
Verdict == [ok : BOOLEAN, done : SUBSET Id, passed : SUBSET (Id \X Id)]

(* What a loop of n rounds makes of x: round k makes step[k][y] of y.      *)
Rounds(step, n, x) ==
  LET after[k \in 0 .. n] == IF k = 0 THEN x ELSE step[k][after[k - 1]]
  IN  after[n]

(* internalValidateDependencies(): a depth-first search that leaves the    *)
(* root out of its path, and leaves the loop over the parameters at the    *)
(* first optional one that is not bound.                                   *)
Visit[call \in Id \X (SUBSET Id) \X Verdict] ==
  LET t == call[1]
      path == call[2]
      acc == call[3]
      reject(a) == [a EXCEPT !.ok = FALSE]
      finish(a) == IF a.ok THEN [a EXCEPT !.done = @ \cup {t}] ELSE a
      param(a, p) ==
        IF ~a.ok \/ \E i \in Id : <<t, i>> \in a.passed THEN a
        ELSE IF p.id \in path THEN reject(a)
        ELSE IF Bound(p.id) THEN Visit[<<p.id, path \cup {p.id}, a>>]
        ELSE IF p.optional THEN [a EXCEPT !.passed = @ \cup {<<t, p.id>>}]
        ELSE reject(a)
      loop == [k \in DOMAIN bindings[t].params |->
                 [a \in Verdict |-> param(a, bindings[t].params[k])]]
  IN  IF t \in acc.done THEN acc
      ELSE IF ~Bound(t) THEN reject(acc)
      ELSE CASE bindings[t].type = "CONSTANT" -> acc
             [] bindings[t].type = "INSTANCE" ->
                  finish(Rounds(loop, Len(bindings[t].params),
                                [acc EXCEPT !.passed = {x \in @ : x[1] # t}]))
             [] bindings[t].type = "ALIAS" ->
                  IF bindings[t].to \in path THEN reject(acc)
                  ELSE finish(Visit[<<bindings[t].to, path \cup {bindings[t].to}, acc>>])

(* Mutant: the dependencies of the dependencies are not looked at.         *)
VisitShallowly(id, acc) ==
  [acc EXCEPT !.done = @ \cup {id},
              !.ok = ~IsClass(bindings[id]) \/
                       \A k \in DOMAIN ParamsOf(id) :
                         ParamsOf(id)[k].id # id
                           /\ (ParamsOf(id)[k].optional \/ Bound(ParamsOf(id)[k].id))]

VisitFromRoot(id, acc) == Visit[<<id, {}, acc>>]

(* validate(): what an earlier call found valid is not looked at again.    *)
Validate ==
  LET loop == [k \in DOMAIN order |->
                 [a \in Verdict |-> IF a.ok THEN VisitFromRoot(order[k], a) ELSE a]]
      end == Rounds(loop, Len(order), [ok |-> TRUE, done |-> validated, passed |-> passed])
  IN  /\ running = None /\ ~valid
      /\ validated' = end.done /\ passed' = end.passed /\ valid' = end.ok
      /\ UNCHANGED <<program, bindings, order, compiled, globalCache, instructions, stack,
                     sessionCache, temporary, running, threw, calls>>
      /\ UNCHANGED ghostVars

-----------------------------------------------------------------------------
(* The stack machine.                                                      *)

PlanOf(id, optional, allowTemporary) ==
  [code |-> "PLAN", target |-> id, optional |-> optional, allowTemporary |-> allowTemporary]

(* Mutant: the plan of the last parameter is on top.                       *)
CompileForward(id, allowTemporary) ==
  <<[code |-> "BUILD", target |-> id]>>
    \o FlattenSeq([k \in DOMAIN ParamsOf(id) |->
                     <<PlanOf(ParamsOf(id)[k].id, ParamsOf(id)[k].optional, allowTemporary)>>])

(* compileParamInjectInstruction() below a BUILD: the plan of the first    *)
(* parameter is on top.                                                    *)
Compile(id, allowTemporary) ==
  LET param(p) == (IF p.transform THEN <<[code |-> "TRANSFORM"]>> ELSE <<>>)
                    \o <<PlanOf(p.id, p.optional, allowTemporary)>>
  IN  <<[code |-> "BUILD", target |-> id]>>
        \o FlattenSeq([k \in DOMAIN ParamsOf(id) |-> param(Reverse(ParamsOf(id))[k])])

(* #resolveFromCache(): the shared cache comes first.                      *)
Cached(s, id) ==
  IF id = Proxy THEN None
  ELSE IF globalCache[id] # None THEN globalCache[id] ELSE sessionCache[s][id]

(* #internalGetBinding(): the chain of aliases that starts at id, followed *)
(* over as many links as there are ids, and the binding at its end.        *)
IsLink(s, id, allowTemporary) ==
  /\ id # Proxy /\ ~(allowTemporary /\ id \in temporary[s])
  /\ Bound(id) /\ bindings[id].type = "ALIAS"

Link(s, allowTemporary) ==
  [i \in Id \cup {Proxy} |-> IF IsLink(s, i, allowTemporary) THEN bindings[i].to ELSE i]

(* What a function makes of x when it is applied n times.                  *)
Iterate(step, x) ==
  LET at[n \in Nat] == IF n = 0 THEN x ELSE step[at[n - 1]]
  IN  at

Chase(s, id, allowTemporary) ==
  LET last == Iterate(Link(s, allowTemporary), id)[Cardinality(Id)]
  IN  [id |-> last,
       end |-> CASE IsLink(s, last, allowTemporary) -> "endless"
                 [] last # Proxy /\ allowTemporary /\ last \in temporary[s] -> "temporary"
                 [] last # Proxy /\ Bound(last) /\ bindings[last].type # "ALIAS" -> "bound"
                 [] OTHER -> "unbound"]

(* #performPlan() and #getBindingForPlan(): what a plan pushes on the two  *)
(* stacks, or why it throws.                                               *)
Planned(s, p, allowUnbound) ==
  LET push(v) == [values |-> <<v>>, code |-> <<>>, error |-> None]
      run(is) == [values |-> <<>>, code |-> is, error |-> None]
      error(e) == [values |-> <<>>, code |-> <<>>, error |-> e]
      b == Chase(s, p.target, p.allowTemporary)
  IN  CASE Cached(s, p.target) # None -> push(Cached(s, p.target))
        [] Cached(s, p.target) = None /\ b.end = "endless" -> error("endless")
        [] Cached(s, p.target) = None /\ b.end = "unbound" ->
             IF p.optional THEN push(Undefined)
             ELSE IF allowUnbound /\ b.id = Proxy THEN run(Compile(b.id, p.allowTemporary))
             ELSE error("notFound")
        [] Cached(s, p.target) = None /\ b.end \in {"bound", "temporary"} ->
             IF Cached(s, b.id) # None THEN push(Cached(s, b.id))
             ELSE IF bindings[b.id].type = "CONSTANT" THEN push(Value("constant", b.id, 0))
             ELSE IF b.id \in compiled THEN run(Compile(b.id, ScopeOf(b.id) # "SINGLETON"))
             ELSE error("notCompiled")

(* The instructions left to session s are rest, and it performs plan p.    *)
(* An exception leaves both stacks as they are.                            *)
PerformPlan(s, p, rest, allowUnbound, target) ==
  LET r == Planned(s, p, allowUnbound)
      grown == rest \o r.code
      e == IF r.error = None /\ Len(grown) > MaxDepth THEN "endless" ELSE r.error
  IN  /\ instructions' = [instructions EXCEPT ![s] = grown]
      /\ stack' = [stack EXCEPT ![s] = @ \o r.values]
      /\ IF e = None
         THEN /\ running' = [by |-> s, target |-> target]
              /\ UNCHANGED <<threw, fault>>
         ELSE /\ running' = IF e = "endless" THEN [by |-> s, target |-> target] ELSE None
              /\ threw' = threw \cup {s}
              /\ fault' = [error |-> e, target |-> target, clean |-> s \notin threw,
                           due |-> valid /\ target # Proxy /\ Bound(target)]

(* resolve(target), or construct(target) for a class that is not bound.    *)
Resolve(s, target) ==
  /\ running = None /\ calls < MaxCalls /\ Len(order) >= MinBound
  /\ calls' = calls + 1
  /\ PerformPlan(s, PlanOf(target, FALSE, TRUE), instructions[s], target = Proxy, target)
  /\ UNCHANGED <<globalCache, sessionCache, temporary, resolved, made, throws>>
  /\ UNCHANGED bindVars

AddTemporary(s, id) ==
  /\ running = None /\ id \notin temporary[s] /\ Cardinality(temporary[s]) < MaxTemporary
  /\ Len(order) >= MinBound
  /\ temporary' = [temporary EXCEPT ![s] = @ \cup {id}]
  /\ sessionCache' = [sessionCache EXCEPT ![s][id] = Value("temporary", id, 0)]
  /\ UNCHANGED <<globalCache, instructions, stack, running, threw, calls>>
  /\ UNCHANGED bindVars /\ UNCHANGED ghostVars

Endless == fault # None /\ fault.error = "endless"

Running(s) == running # None /\ running.by = s /\ ~Endless

Top(s) == Last(instructions[s])
Rest(s) == Front(instructions[s])

Plan(s) ==
  /\ Running(s) /\ instructions[s] # <<>> /\ Top(s).code = "PLAN"
  /\ PerformPlan(s, Top(s), Rest(s), FALSE, running.target)
  /\ UNCHANGED <<globalCache, sessionCache, temporary, resolved, made, throws, calls>>
  /\ UNCHANGED bindVars

Transform(s) ==
  /\ Running(s) /\ instructions[s] # <<>> /\ Top(s).code = "TRANSFORM"
  /\ instructions' = [instructions EXCEPT ![s] = Rest(s)]
  /\ stack' = [stack EXCEPT ![s] = Front(@) \o <<[Last(@) EXCEPT !.transformed = TRUE]>>]
  /\ UNCHANGED <<globalCache, sessionCache, temporary, running, threw, calls>>
  /\ UNCHANGED bindVars /\ UNCHANGED ghostVars

(* Mutant: the instance of a singleton is kept by the session.             *)
CachePerSession(s, id, v) ==
  /\ sessionCache' = IF ScopeOf(id) = "TRANSIENT" THEN sessionCache
                     ELSE [sessionCache EXCEPT ![s][id] = v]
  /\ UNCHANGED globalCache

CacheIfNecessary(s, id, v) ==
  /\ sessionCache' = IF ScopeOf(id) = "SESSION"
                     THEN [sessionCache EXCEPT ![s][id] = v] ELSE sessionCache
  /\ globalCache' = IF ScopeOf(id) = "SINGLETON"
                    THEN [globalCache EXCEPT ![id] = v] ELSE globalCache

(* #performBuild(): the arguments are the topmost values of the stack.     *)
Build(s) ==
  LET id == Top(s).target
      n == Len(ParamsOf(id))
      below == SubSeq(stack[s], 1, Len(stack[s]) - n)
      args == SubSeq(stack[s], Len(stack[s]) - n + 1, Len(stack[s]))
      v == Value("instance", id, IF id = Proxy THEN 0 ELSE Len(made[id]) + 1)
  IN  /\ Running(s) /\ instructions[s] # <<>> /\ Top(s).code = "BUILD"
      /\ instructions' = [instructions EXCEPT ![s] = Rest(s)]
      /\ \/ /\ stack' = [stack EXCEPT ![s] = Append(below, v)]
            /\ CacheIfNecessary(s, id, v)
            /\ made' = IF id = Proxy THEN made
                       ELSE [made EXCEPT ![id] = Append(@, [by |-> s, args |-> args,
                                                            clean |-> s \notin threw])]
            /\ UNCHANGED <<running, threw, throws>>
         \/ /\ throws < MaxThrows
            /\ throws' = throws + 1 /\ threw' = threw \cup {s} /\ running' = None
            /\ stack' = [stack EXCEPT ![s] = below]
            /\ UNCHANGED <<globalCache, sessionCache, made>>
      /\ UNCHANGED <<temporary, resolved, fault, calls>>
      /\ UNCHANGED bindVars

(* No instruction is left: the value on top of the stack is the answer.      *)
Return(s) ==
  /\ Running(s) /\ instructions[s] = <<>>
  /\ resolved' = [target |-> running.target, value |-> Last(stack[s]), clean |-> s \notin threw]
  /\ stack' = [stack EXCEPT ![s] = Front(@)]
  /\ running' = None
  /\ UNCHANGED <<globalCache, instructions, sessionCache, temporary, threw, calls, fault,
                 made, throws>>
  /\ UNCHANGED bindVars

Step(s) == Plan(s) \/ Transform(s) \/ Build(s) \/ Return(s)

ContainerNext ==
  \/ \E id \in Id : Bind(id)
  \/ Validate
  \/ \E s \in ResolveSession : \E id \in Id \cup {Proxy} : Resolve(s, id)
  \/ \E s \in ResolveSession : \E id \in Id : AddTemporary(s, id)
  \/ \E s \in ResolveSession : Step(s)

ContainerSpec == ContainerInit /\ [][ContainerNext]_containerVars

-----------------------------------------------------------------------------
(* The ids a value asked for as id may be an instance of: those of the     *)
(* chain of aliases that starts at id.                                     *)
Widened ==
  [ids \in SUBSET (Id \cup {Proxy}) |->
     ids \cup {bindings[i].to : i \in {j \in ids \ {Proxy} : Bound(j) /\ bindings[j].type = "ALIAS"}}]

Aliases(id) == Iterate(Widened, {id})[Cardinality(Id)]

Fits(v, p) ==
  /\ v.transformed = p.transform
  /\ v.of \in Aliases(p.id) \/ (p.optional /\ v.of = None)

(* An instance is built from exactly what its parameters ask for, each     *)
(* transformed as often as it should be, and a call of resolve() answers   *)
(* with an instance of its target and leaves nothing on the stacks -       *)
(* unless an earlier call in the same session has thrown: that one leaves  *)
(* instructions and values behind (resolve-session.ts:76), which the next  *)
(* call works off first.                                                   *)
RightArguments ==
  /\ \A id \in Id : \A i \in DOMAIN made[id] :
       made[id][i].clean =>
         \A k \in DOMAIN ParamsOf(id) : Fits(made[id][i].args[k], ParamsOf(id)[k])
  /\ (resolved # None /\ resolved.clean) => resolved.value.of \in Aliases(resolved.target)
  /\ \A s \in ResolveSession \ threw :
       (running # None /\ running.by = s) \/ (stack[s] = <<>> /\ instructions[s] = <<>>)

(* A singleton is built once, whatever the sessions that need it, and an   *)
(* instance of session scope once in a session, again but for sessions in  *)
(* which a call has thrown.                                                *)
OneInstance ==
  \A id \in Id : Bound(id) /\ IsClass(bindings[id]) =>
    LET cleanly == {i \in DOMAIN made[id] : made[id][i].clean}
    IN  CASE ScopeOf(id) = "SINGLETON" -> Cardinality(cleanly) <= 1
          [] ScopeOf(id) = "SESSION" ->
               \A i, j \in cleanly : made[id][i].by = made[id][j].by => i = j
          [] ScopeOf(id) = "TRANSIENT" -> TRUE

(* A validation that stopped at an optional parameter has seen enough when *)
(* nothing comes after it, and it is not bound to this day.                *)
Overlooked ==
  \E x \in passed :
    Bound(x[2]) \/ \E k \in 1 .. Len(ParamsOf(x[1])) - 1 : ParamsOf(x[1])[k].id = x[2]

(* After a validate() that returned, no call for something bound meets an  *)
(* unbound dependency or goes on for ever (container.ts:90) - unless an    *)
(* optional parameter hid something from it (utils.ts:50), or an addBinding*)
(* that threw left a binding without instructions (container.ts:73).       *)
AcceptedResolves ==
  fault # None /\ fault.due /\ fault.clean =>
    \/ Overlooked
    \/ \E id \in Id \ compiled : IsClass(bindings[id])
=============================================================================
