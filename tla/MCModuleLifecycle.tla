-------------------------- MODULE MCModuleLifecycle --------------------------
(* Instances of ModuleLifecycle for TLC.                                    *)
EXTENDS ModuleLifecycle

CONSTANTS app, web, jobs, log, cache, db

(* Four layers, so that a walk that is cut short leaves modules deep below  *)
(* it; cache and db are shared by modules of different layers.              *)
Layered == [m \in Module |-> CASE m = app  -> <<web, log, db>>
                               [] m = web  -> <<cache, jobs>>
                               [] m = jobs -> <<db, cache>>
                               [] m = log  -> <<cache>>
                               [] OTHER    -> <<>>]

SomeHooks == [m \in Module |-> IF m = cache THEN 0 ELSE IF m = web THEN 2 ELSE 1]

AllHooks == Module \X HookKind
=============================================================================
