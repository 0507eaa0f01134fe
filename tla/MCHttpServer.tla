---------------------------- MODULE MCHttpServer ----------------------------
(* An instance of HttpServer for TLC: a request behind two middlewares, one  *)
(* with a multipart body, and one for a controller without the label.  The   *)
(* controllers are in modules that require each other in a diamond.          *)
EXTENDS HttpServer

CONSTANTS plain, upload, hidden, context, user, tenant, label,
          root, feature, shared, C1, C2, C3, service

MCTarget == [c \in Call |-> c]

MCRequires == [m \in Mod |-> CASE m = root -> <<shared, feature>>
                               [] m = feature -> <<shared>>
                               [] OTHER -> <<>>]
MCComponents == [m \in Mod |-> CASE m = root -> <<C3>>
                                 [] m = feature -> <<service, C1>>
                                 [] m = shared -> <<C2>>]
MCControllerLabels == [c \in {C1, C2, C3} |-> IF c = C3 THEN {} ELSE {label}]
MCMethods == [c \in {C1, C2, C3} |-> CASE c = C1 -> <<plain>> [] c = C2 -> <<upload>>
                                       [] c = C3 -> <<hidden>>]

Lvl(needs, provides) == [needs |-> needs, provides |-> provides]

MCChains ==
  [c \in Call |->
     IF c # plain THEN {RouteChain(<<>>, <<>>, <<>>, Lvl({context}, {}))}
     ELSE {RouteChain(<<Lvl({context}, {user})>>, <<>>, <<Lvl(n, {tenant})>>,
                      Lvl({user, tenant}, {})) : n \in {{user}, {tenant}}}]
=============================================================================
