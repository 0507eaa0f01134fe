------------------------------- MODULE EventBus -------------------------------
(***************************************************************************)
(* packages/core/src/event.ts: publishers announce events on channels, and *)
(* a subscription module turns them into invocations of the methods of the *)
(* matching controllers.                                                   *)
(*                                                                         *)
(* Subject.next() calls every subscriber at once, and one of them may      *)
(* publish another event from within; what announceEvent() awaits is what  *)
(* they acknowledged.  A call of the invoker is one event for one          *)
(* subscribed method: <<event, subscriber>>.                               *)
(***************************************************************************)
EXTENDS MethodInvoker, ModuleScanner

CONSTANTS
  Event,        \* publications
  Subscriber,   \* methods of controllers with a SubscribeEvent annotation
  Channel,      \* Channel[x]: the channel of an event or a subscriber
  Filters       \* what a filter may make of an event: a subset of {"accepts", "ignores", "throws"}

ASSUME EventAssumption ==
  /\ Call = Event \X Subscriber
  /\ \A c \in DOMAIN ControllerLabels : Methods[c] \in Seq(Subscriber)
  /\ Filters \subseteq {"accepts", "ignores", "throws"}

VARIABLES
  module,      \* the subscription module: "idle", "started", "failed", "stopped"
  subscribed,  \* the subscribers the channels know
  calling,     \* the events whose subject.next() has not returned, the innermost last
  due,         \* due[e]: the subscribers there were when e was announced
  consumed,    \* consumed[e][s]: what the filter of s made of e, "none" before
  announced    \* announced[e]: the promise of publish()

eventVars == <<module, subscribed, calling, due, consumed, announced>>
vars == <<invokerVars, eventVars>>

TypeOK ==
  /\ InvokerTypeOK
  /\ module \in {"idle", "started", "failed", "stopped"}
  /\ subscribed \subseteq Subscriber /\ calling \in Seq(Event)
  /\ \A e \in Event : due[e] \subseteq Subscriber
  /\ consumed \in [Event -> [Subscriber -> {"none"} \cup Filters]]
  /\ announced \in [Event -> {"none", "calling", "pending", "fulfilled", "rejected"}]

Init ==
  /\ InvokerInit
  /\ module = "idle" /\ subscribed = {} /\ calling = <<>>
  /\ due = [e \in Event |-> {}]
  /\ consumed = [e \in Event |-> [s \in Subscriber |-> "none"]]
  /\ announced = [e \in Event |-> "none"]

(* onStart(): the annotated methods of the matching controllers subscribe. *)
Start ==
  /\ module = "idle" /\ module' = "started"
  /\ subscribed' = ToSet(Found(Components))
  /\ UNCHANGED <<invokerVars, calling, due, consumed, announced>>

(* createMethodInvoker() throws for one of them, as an id is not bound     *)
(* that it or a middleware needs: those before it stay subscribed, and a   *)
(* module whose start failed is never stopped.                             *)
StartThrows ==
  /\ module = "idle" /\ module' = "failed"
  /\ LET found == Found(Components)
     IN  \E k \in DOMAIN found : subscribed' = {found[i] : i \in {j \in DOMAIN found : j < k}}
  /\ UNCHANGED <<invokerVars, calling, due, consumed, announced>>

Stop ==
  /\ module = "started" /\ module' = "stopped"
  /\ subscribed' = {}
  /\ UNCHANGED <<invokerVars, calling, due, consumed, announced>>

(* The subject of a channel, with the subscribers it has now.              *)
EventChannel(channel) == {s \in subscribed : Channel[s] = channel}

(* A subscriber of e has been called: its filter, or the part of its method*)
(* before the first await, runs.                                           *)
InCallback(e) == \E s \in due[e] : consumed[e][s] # "none"

(* publish(): subject.next() begins with the subscribers there are, in a   *)
(* turn of its own or within a callback of the innermost one.              *)
Publish(e) ==
  /\ announced[e] = "none" /\ (calling # <<>> => InCallback(Last(calling)))
  /\ due' = [due EXCEPT ![e] = EventChannel(Channel[e])]
  /\ announced' = [announced EXCEPT ![e] = "calling"]
  /\ calling' = Append(calling, e)
  /\ UNCHANGED <<invokerVars, module, subscribed, consumed>>

Innermost(e) == calling # <<>> /\ Last(calling) = e

(* One subscriber's callback, in the same turn: the filter, and the        *)
(* invocation that is acknowledged.                                        *)
Consume(e, s) ==
  /\ announced[e] = "calling" /\ Innermost(e)
  /\ s \in due[e] /\ consumed[e][s] = "none"
  /\ \E f \in Filters :
       /\ consumed' = [consumed EXCEPT ![e][s] = f]
       /\ IF f = "accepts" THEN Invoke(<<e, s>>) ELSE UNCHANGED invokerVars
  /\ UNCHANGED <<module, subscribed, calling, due, announced>>

Consumed(e) == \A s \in due[e] : consumed[e][s] # "none"

(* next() returns, and Promise.all() takes over.                           *)
Await(e) ==
  /\ announced[e] = "calling" /\ Innermost(e) /\ Consumed(e)
  /\ announced' = [announced EXCEPT ![e] = "pending"]
  /\ calling' = Front(calling)
  /\ UNCHANGED <<invokerVars, module, subscribed, due, consumed>>

Acknowledged(e) == {s \in due[e] : consumed[e][s] = "accepts"}

Refused(e) == \E s \in due[e] : consumed[e][s] = "throws"

(* Mutant: the filter's exception is not acknowledged.                     *)
SettlesUnrefused(e) ==
  /\ announced[e] = "pending"
  /\ \/ /\ \A s \in Acknowledged(e) : Outcome(<<e, s>>) = "fulfilled"
        /\ announced' = [announced EXCEPT ![e] = "fulfilled"]
     \/ /\ \E s \in Acknowledged(e) : Outcome(<<e, s>>) = "rejected"
        /\ announced' = [announced EXCEPT ![e] = "rejected"]
  /\ UNCHANGED <<invokerVars, module, subscribed, calling, due, consumed>>

(* Mutant: it waits for every subscriber, those that ignored it included.  *)
SettlesOfAll(e) ==
  /\ announced[e] = "pending"
  /\ \/ /\ ~Refused(e) /\ \A s \in due[e] : Outcome(<<e, s>>) = "fulfilled"
        /\ announced' = [announced EXCEPT ![e] = "fulfilled"]
     \/ /\ Refused(e) \/ \E s \in Acknowledged(e) : Outcome(<<e, s>>) = "rejected"
        /\ announced' = [announced EXCEPT ![e] = "rejected"]
  /\ UNCHANGED <<invokerVars, module, subscribed, calling, due, consumed>>

(* Promise.all(consumePromises)                                            *)
Settles(e) ==
  /\ announced[e] = "pending"
  /\ \/ /\ ~Refused(e) /\ \A s \in Acknowledged(e) : Outcome(<<e, s>>) = "fulfilled"
        /\ announced' = [announced EXCEPT ![e] = "fulfilled"]
     \/ /\ Refused(e) \/ \E s \in Acknowledged(e) : Outcome(<<e, s>>) = "rejected"
        /\ announced' = [announced EXCEPT ![e] = "rejected"]
  /\ UNCHANGED <<invokerVars, module, subscribed, calling, due, consumed>>

Calling == calling # <<>>

(* Subject.next() is synchronous: nothing else runs meanwhile.             *)
Working(c) == ~Calling /\ CallStep(c) /\ UNCHANGED eventVars

Next ==
  \/ ~Calling /\ (Start \/ StartThrows \/ Stop)
  \/ \E e \in Event : Publish(e) \/ Await(e) \/ (~Calling /\ Settles(e))
  \/ \E e \in Event, s \in Subscriber : Consume(e, s)
  \/ \E c \in Call : Working(c)

Spec == Init /\ [][Next]_vars

Fairness ==
  /\ \A e \in Event :
       /\ WF_vars(Await(e) \/ \E s \in Subscriber : Consume(e, s))
       /\ WF_vars(~Calling /\ Settles(e))
  /\ \A c \in Call :
       WF_vars(~Calling /\ CallSettles(c) /\ UNCHANGED eventVars)

FairSpec == Spec /\ Fairness

-----------------------------------------------------------------------------
(* A publisher whose publish() fulfilled knows, if the subscription module *)
(* was running, that every method that the reachable matching controllers  *)
(* declare for the channel, and no other, has either ignored the event or  *)
(* processed it to the end, the middlewares around it included.  (Of a     *)
(* module that failed to start it may be some of the methods: event.ts:252.)*)
AnnouncedIsProcessed ==
  \A e \in Event : announced[e] = "fulfilled" =>
    /\ LET meant == {s \in Expected(Components) : Channel[s] = Channel[e]}
       IN  due[e] \in {{}, meant} \/ (module = "failed" /\ due[e] \subseteq meant)
    /\ \A s \in due[e] :
         \/ consumed[e][s] = "ignores"
         \/ consumed[e][s] = "accepts" /\ state[<<e, s>>][1] = "ok" /\ value[<<e, s>>] # 0

(* Every publish() settles, unless a middleware of a subscriber leaves its *)
(* invocation unanswered.                                                  *)
PublishSettles ==
  \A e \in Event : announced[e] = "calling" ~>
    (announced[e] \in {"fulfilled", "rejected"} \/ \E s \in Subscriber : Unanswered(<<e, s>>))

(* The inductive invariant: who is due for an event is decided when it is  *)
(* announced, an invocation begins with a filter that accepts, and what    *)
(* publish() waited for stays as it was.                                   *)
EventInv(e) ==
  /\ LET meant == {s \in ToSet(Found(Components)) : Channel[s] = Channel[e]}
     IN  due[e] \in {{}, meant} \/ (module = "failed" /\ due[e] \subseteq meant)
  /\ announced[e] = "none" => \A s \in Subscriber : consumed[e][s] = "none"
  /\ announced[e] \in {"pending", "fulfilled", "rejected"} => Consumed(e)
  /\ \A s \in Subscriber : consumed[e][s] # "accepts" => state[<<e, s>>][1] = "none"
  /\ announced[e] = "fulfilled" =>
       \A s \in due[e] :
         \/ consumed[e][s] = "ignores"
         \/ consumed[e][s] = "accepts" /\ state[<<e, s>>][1] = "ok" /\ value[<<e, s>>] # 0

IInv ==
  /\ InvokerIInv /\ TypeOK
  /\ \/ subscribed \in {{}, ToSet(Found(Components))}
     \/ module = "failed" /\ subscribed \subseteq ToSet(Found(Components))
  /\ due = [e \in Event |-> due[e]]
  /\ \A e \in Event : EventInv(e)
===============================================================================
