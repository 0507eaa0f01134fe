--------------------------- MODULE MessageProducer ---------------------------
(***************************************************************************)
(* packages/kafkajs-standalone: the message producers that an application  *)
(* takes from a MessageProducerProvider, sends with and releases.          *)
(*                                                                         *)
(* A message producer borrows a KafkaJS producer, its connection: one of a *)
(* pool (PooledKafkaJsProducerProvider), or one of its own                 *)
(* (SimpleKafkaJsProducerProvider).  A transactional one begins a          *)
(* transaction with its first message.  Releasing it commits, waits for    *)
(* the messages under way and gives the connection back.                   *)
(*                                                                         *)
(* KafkaJS and the pool are external.  KafkaJS sends through a connected   *)
(* producer and, in a transaction, only while it is open; it refuses a     *)
(* transaction while another is open or ending on the same producer.  The  *)
(* pool of the model has one connection, as that of a transactional id     *)
(* has: it lends it to one borrower at a time and closes when it is back.  *)
(***************************************************************************)
EXTENDS Naturals, Sequences, FiniteSets

CONSTANTS
  Producer,      \* the message producers an application creates
  MaxCalls,      \* bound: calls that send, with any of them
  MaxFaults    \* bound: sends, commits and aborts that fail

ASSUME ProducerAssumption == MaxCalls \in Nat /\ MaxFaults \in Nat

Calls == 1 .. MaxCalls

VARIABLES
  kind,       \* "simple" or "transactional"
  provider,   \* "pooled" or "plain"
  lent,       \* the message producers that hold a connection
  active,     \* onRelease is set
  tx,         \* #tx is set
  session,    \* session[p]: the transaction of its connection, "ready", "open", "ending"
  call,       \* call[p][i]: "none", "sender", "beginning", "sending", "doomed",
              \* "ok", "failed", or "refused" before it was sent
  batch,      \* batch[p]: the calls that are sendMessageBatch(topicMessages)
  chain,      \* the calls that allMessageSend still waits for, in order
  link,       \* its first: "next", "committing", "releasing"; or "rejected"
  ending,     \* who awaits tx.commit() or tx.abort(): "none", "commit", "abort",
              \* "release", "direct" (a failed batch), "chain" (a failed send)
  waiter,     \* who took onRelease and awaits allMessageSend
  ahead,      \* how many of the chain it waits for
  early,      \* it was released with something unfinished it does not wait for
  returned,   \* onRelease has been called
  release,    \* release(): "none", "pending", "settled", "rejected"
  commitFailed,
  destroying, \* destroy() of the provider: "no", "draining", "done"
  faults

clientVars == <<active, tx, call, batch, chain, link, ending, waiter, ahead, early>>
releaseVars == <<returned, release, commitFailed>>
producerVars == <<kind, provider, lent, clientVars, session, releaseVars, destroying, faults>>

ProducerTypeOK ==
  /\ kind \in {"simple", "transactional"} /\ provider \in {"pooled", "plain"}
  /\ lent \subseteq Producer /\ destroying \in {"no", "draining", "done"} /\ faults \in Nat
  /\ call \in [Producer -> [Calls -> {"none", "sender", "beginning", "sending", "doomed",
                                      "ok", "failed", "refused"}]]
  /\ batch \in [Producer -> SUBSET Calls] /\ chain \in [Producer -> Seq(Calls)]
  /\ active \in [Producer -> BOOLEAN] /\ tx \in [Producer -> BOOLEAN]
  /\ early \in [Producer -> BOOLEAN] /\ returned \in [Producer -> BOOLEAN]
  /\ commitFailed \in [Producer -> BOOLEAN]
  /\ session \in [Producer -> {"ready", "open", "ending"}]
  /\ link \in [Producer -> {"next", "committing", "releasing", "rejected"}]
  /\ ending \in [Producer -> {"none", "commit", "abort", "release", "direct", "chain"}]
  /\ waiter \in [Producer -> {"none", "release", "direct", "chain"}]
  /\ ahead \in [Producer -> Nat]
  /\ release \in [Producer -> {"none", "pending", "settled", "rejected"}]

ProducerInit ==
  /\ kind \in {"simple", "transactional"} /\ provider \in {"pooled", "plain"}
  /\ lent = {} /\ destroying = "no" /\ faults = 0
  /\ active = [p \in Producer |-> FALSE] /\ tx = [p \in Producer |-> FALSE]
  /\ session = [p \in Producer |-> "ready"]
  /\ call = [p \in Producer |-> [i \in Calls |-> "none"]]
  /\ batch = [p \in Producer |-> {}]
  /\ chain = [p \in Producer |-> <<>>] /\ link = [p \in Producer |-> "next"]
  /\ ending = [p \in Producer |-> "none"] /\ waiter = [p \in Producer |-> "none"]
  /\ ahead = [p \in Producer |-> 0] /\ early = [p \in Producer |-> FALSE]
  /\ returned = [p \in Producer |-> FALSE] /\ release = [p \in Producer |-> "none"]
  /\ commitFailed = [p \in Producer |-> FALSE]

MayFault == faults < MaxFaults

(* The transaction of the connection: a pool has one for all who borrow it.*)
SetSession(p, s) ==
  session' = [q \in Producer |-> IF q = p \/ provider = "pooled" THEN s ELSE session[q]]

Put(f, p, v) == [f EXCEPT ![p] = v]

-----------------------------------------------------------------------------
(* The providers.                                                          *)

(* create() and createTransactional(): a pool lends its connection, the    *)
(* plain provider connects one.  After destroy() a pool for a              *)
(* transactional id is made anew.                                          *)
Create(p) ==
  /\ p \notin lent /\ ~returned[p]
  /\ provider = "pooled" => lent = {} /\ destroying # "draining"
  /\ provider = "pooled" /\ kind = "simple" => destroying = "no"
  /\ lent' = lent \cup {p} /\ active' = Put(active, p, TRUE)
  /\ UNCHANGED <<kind, provider, tx, call, batch, chain, link, ending, waiter, ahead, early,
                 session, releaseVars, destroying, faults>>

(* destroy(), when the module that provides them is destroyed.             *)
Destroy ==
  /\ destroying = "no"
  /\ destroying' = "draining"
  /\ UNCHANGED <<kind, provider, lent, clientVars, session, releaseVars, faults>>

(* Pools are drained; the plain provider waits for what was released.      *)
DestroySettles ==
  /\ destroying = "draining"
  /\ provider = "pooled" => lent = {}
  /\ destroying' = "done"
  /\ UNCHANGED <<kind, provider, lent, clientVars, session, releaseVars, faults>>

-----------------------------------------------------------------------------
(* internalRelease().                                                      *)

(* What who awaits has settled: release() returns, or allMessageSend goes  *)
(* on, or nobody waits.                                                    *)
Proceed(p, who) ==
  /\ release' = IF who = "release" THEN Put(release, p, "settled") ELSE release
  /\ IF who = "chain"
     THEN /\ chain' = Put(chain, p, Tail(chain[p])) /\ link' = Put(link, p, "next")
          /\ ahead' = Put(ahead, p, IF ahead[p] > 0 THEN ahead[p] - 1 ELSE 0)
     ELSE UNCHANGED <<chain, link, ahead>>

(* A call has not come to send, or a transaction is being ended still:     *)
(* allMessageSend knows of neither.                                        *)
Unfinished(p) ==
  \/ \E i \in Calls : call[p][i] \in {"sender", "beginning"}
  \/ ending'[p] # "none"

(* Mutant: whoever releases does not wait for the messages under way.      *)
BaseReleaseAtOnce(p, who) ==
  IF active[p]
  THEN /\ active' = Put(active, p, FALSE) /\ waiter' = Put(waiter, p, who)
       /\ ahead' = Put(ahead, p, 0)
       /\ early' = Put(early, p, Unfinished(p))
       /\ link' = IF who = "chain" THEN Put(link, p, "releasing") ELSE link
       /\ release' = IF who = "release" THEN Put(release, p, "pending") ELSE release
       /\ UNCHANGED chain
  ELSE Proceed(p, who) /\ UNCHANGED <<active, waiter, early>>

(* BaseKafkaJsMessageProducer: only the first takes onRelease; it waits    *)
(* for allMessageSend as it is now, even when it is a part of it.          *)
BaseRelease(p, who) ==
  IF active[p]
  THEN /\ active' = Put(active, p, FALSE) /\ waiter' = Put(waiter, p, who)
       /\ ahead' = Put(ahead, p, Len(chain[p]))
       /\ early' = Put(early, p, Unfinished(p))
       /\ link' = IF who = "chain" THEN Put(link, p, "releasing") ELSE link
       /\ release' = IF who = "release" THEN Put(release, p, "pending") ELSE release
       /\ UNCHANGED chain
  ELSE Proceed(p, who) /\ UNCHANGED <<active, waiter, early>>

(* tx.commit() of who has been refused or has failed.                      *)
CommitFails(p, who) ==
  /\ commitFailed' = Put(commitFailed, p, TRUE)
  /\ release' = IF who = "release" THEN Put(release, p, "rejected") ELSE release
  /\ link' = IF who = "chain" THEN Put(link, p, "rejected") ELSE link

(* KafkaJsTransactionalMessageProducer: #tx is taken and committed first,  *)
(* whatever the error it is released with.                                 *)
InternalRelease(p, who) ==
  IF tx[p]
  THEN /\ tx' = Put(tx, p, FALSE)
       /\ IF session[p] = "open"
          THEN /\ ending' = Put(ending, p, who) /\ SetSession(p, "ending")
               /\ link' = IF who = "chain" THEN Put(link, p, "committing") ELSE link
               /\ release' = IF who = "release" THEN Put(release, p, "pending") ELSE release
               /\ UNCHANGED commitFailed
          ELSE CommitFails(p, who) /\ UNCHANGED <<ending, session>>
       /\ UNCHANGED <<active, waiter, ahead, early, chain>>
  ELSE UNCHANGED <<tx, ending, session, commitFailed>> /\ BaseRelease(p, who)

Release(p) ==
  /\ p \in lent \/ returned[p]
  /\ release[p] \in {"none", "rejected"}
  /\ InternalRelease(p, "release")
  /\ UNCHANGED <<kind, provider, lent, call, batch, returned, destroying, faults>>

(* allMessageSend has settled: finally(() => onRelease(e)) gives the       *)
(* connection back, or disconnects or destroys it.                         *)
Return(p) ==
  /\ waiter[p] # "none" /\ ~returned[p]
  /\ ahead[p] = 0 \/ link[p] = "rejected"
  /\ returned' = Put(returned, p, TRUE) /\ lent' = lent \ {p}
  /\ Proceed(p, waiter[p])
  /\ IF provider = "pooled" /\ kind = "simple" /\ waiter[p] # "release"
     THEN SetSession(p, "ready") ELSE UNCHANGED session
  /\ UNCHANGED <<kind, provider, active, tx, call, batch, ending, waiter, early, commitFailed,
                 destroying, faults>>

-----------------------------------------------------------------------------
(* Sending.                                                                *)

(* sendMessage(), sendMessageBatch(), sendOffset(): checkReleased() and,   *)
(* in the same turn, sender(), which answers with what there is or has to  *)
(* begin a transaction.                                                    *)
Send(p, i) ==
  /\ active[p] /\ call[p][i] = "none" /\ (i > 1 => call[p][i - 1] # "none")
  /\ Cardinality({c \in Producer \X Calls : call[c[1]][c[2]] # "none"}) < MaxCalls
  /\ \/ /\ kind = "simple" \/ tx[p]
        /\ call' = [call EXCEPT ![p][i] = "sender"] /\ UNCHANGED session
     \/ /\ kind = "transactional" /\ ~tx[p]
        /\ IF session[p] = "ready"
           THEN call' = [call EXCEPT ![p][i] = "beginning"] /\ SetSession(p, "open")
           ELSE call' = [call EXCEPT ![p][i] = "refused"] /\ UNCHANGED session
  /\ batch' \in {batch, Put(batch, p, batch[p] \cup {i})}
  /\ UNCHANGED <<kind, provider, lent, active, tx, chain, link, ending, waiter, ahead, early,
                 releaseVars, destroying, faults>>

(* The message goes out and becomes the end of allMessageSend; KafkaJS     *)
(* refuses it without a connection or an open transaction.                 *)
Dispatch(p, i) ==
  /\ call' = [call EXCEPT ![p][i] =
                IF \/ kind = "transactional" /\ session[p] # "open"
                   \/ provider = "plain" /\ returned[p]
                THEN "doomed" ELSE "sending"]
  /\ chain' = Put(chain, p, Append(chain[p], i))

(* await this.sender() goes on, a microtask or two after the call.         *)
Sender(p, i) ==
  /\ call[p][i] = "sender"
  /\ Dispatch(p, i)
  /\ UNCHANGED <<kind, provider, lent, active, tx, batch, link, ending, waiter, ahead, early,
                 session, releaseVars, destroying, faults>>

Begun(p, i) ==
  /\ call[p][i] = "beginning"
  /\ tx' = Put(tx, p, TRUE)
  /\ Dispatch(p, i)
  /\ UNCHANGED <<kind, provider, lent, active, batch, link, ending, waiter, ahead, early,
                 session, releaseVars, destroying, faults>>

(* Mutant: only allMessageSend catches the failure of a batch.             *)
SendUncaught(p, i) ==
  /\ \/ call[p][i] = "sending" /\ call' = [call EXCEPT ![p][i] = "ok"] /\ UNCHANGED faults
     \/ /\ call[p][i] = "doomed" \/ (call[p][i] = "sending" /\ MayFault)
        /\ faults' = IF call[p][i] = "doomed" THEN faults ELSE faults + 1
        /\ call' = [call EXCEPT ![p][i] = "failed"]
  /\ UNCHANGED <<kind, provider, lent, active, tx, batch, chain, link, ending, waiter, ahead,
                 early, session, releaseVars, destroying>>

(* The message is stored or fails; sendMessageBatch(topicMessages) catches *)
(* a failure by itself, before allMessageSend does.                        *)
SendSettles(p, i) ==
  \/ /\ call[p][i] = "sending"
     /\ call' = [call EXCEPT ![p][i] = "ok"]
     /\ UNCHANGED <<kind, provider, lent, active, tx, batch, chain, link, ending, waiter, ahead,
                    early, session, releaseVars, destroying, faults>>
  \/ /\ call[p][i] = "doomed" \/ (call[p][i] = "sending" /\ MayFault)
     /\ faults' = IF call[p][i] = "doomed" THEN faults ELSE faults + 1
     /\ call' = [call EXCEPT ![p][i] = "failed"]
     /\ IF i \in batch[p] THEN InternalRelease(p, "direct")
        ELSE UNCHANGED <<active, tx, chain, link, ending, waiter, ahead, early, session, release,
                         commitFailed>>
     /\ UNCHANGED <<kind, provider, lent, batch, returned, destroying>>

(* allMessageSend: the next message has succeeded, or failed and releases. *)
ChainNext(p) ==
  /\ chain[p] # <<>> /\ link[p] = "next"
  /\ \/ /\ call[p][Head(chain[p])] = "ok"
        /\ Proceed(p, "chain")
        /\ UNCHANGED <<active, tx, ending, waiter, early, session, commitFailed>>
     \/ call[p][Head(chain[p])] = "failed" /\ InternalRelease(p, "chain")
  /\ UNCHANGED <<kind, provider, lent, call, batch, returned, destroying, faults>>

-----------------------------------------------------------------------------
(* Ending a transaction.                                                   *)

(* commit() takes #tx first; abort() leaves it until it is over.           *)
Commit(p) ==
  /\ active[p] /\ tx[p]
  /\ tx' = Put(tx, p, FALSE)
  /\ IF session[p] = "open"
     THEN ending' = Put(ending, p, "commit") /\ SetSession(p, "ending") /\ UNCHANGED commitFailed
     ELSE commitFailed' = Put(commitFailed, p, TRUE) /\ UNCHANGED <<ending, session>>
  /\ UNCHANGED <<kind, provider, lent, active, call, batch, chain, link, waiter, ahead, early,
                 returned, release, destroying, faults>>

Abort(p) ==
  /\ active[p] /\ tx[p] /\ session[p] = "open"
  /\ ending' = Put(ending, p, "abort") /\ SetSession(p, "ending")
  /\ UNCHANGED <<kind, provider, lent, active, tx, call, batch, chain, link, waiter, ahead, early,
                 releaseVars, destroying, faults>>

(* The broker has ended the transaction, or the request has failed.        *)
EndSettles(p) ==
  /\ ending[p] # "none"
  /\ ending' = Put(ending, p, "none")
  /\ \/ /\ SetSession(p, "ready")
        /\ tx' = IF ending[p] \in {"abort", "commit"} THEN Put(tx, p, FALSE) ELSE tx
        /\ IF ending[p] \in {"abort", "commit"}
           THEN UNCHANGED <<active, chain, link, waiter, ahead, early, release>>
           ELSE BaseRelease(p, ending[p])
        /\ UNCHANGED <<commitFailed, faults>>
     \/ /\ MayFault /\ faults' = faults + 1
        /\ CommitFails(p, ending[p])
        /\ UNCHANGED <<active, tx, chain, waiter, ahead, early, session>>
  /\ UNCHANGED <<kind, provider, lent, call, batch, returned, destroying>>

-----------------------------------------------------------------------------
ClientStep(p) ==
  \/ Return(p) \/ ChainNext(p) \/ EndSettles(p)
  \/ \E i \in Calls : Sender(p, i) \/ Begun(p, i) \/ SendSettles(p, i)

ProducerNext ==
  \/ \E p \in Producer :
       \/ Create(p) \/ Release(p) \/ Commit(p) \/ Abort(p) \/ ClientStep(p)
       \/ \E i \in Calls : Send(p, i)
  \/ Destroy \/ DestroySettles

ProducerSpec == ProducerInit /\ [][ProducerNext]_producerVars

(* KafkaJS answers every request and timers run: what a producer awaits    *)
(* settles.  An application need not release what it creates.              *)
FairProducerSpec ==
  /\ ProducerSpec
  /\ WF_producerVars(DestroySettles) /\ \A p \in Producer : WF_producerVars(ClientStep(p))

-----------------------------------------------------------------------------
(* A failure after which internalRelease() may wait for itself             *)
(* (base-message-producer.ts:75): a send of a transactional producer, one  *)
(* that only allMessageSend catches, or a commit.                          *)
Disturbed(p) ==
  \/ commitFailed[p]
  \/ \E i \in Calls : call[p][i] = "failed" /\ (kind = "transactional" \/ i \notin batch[p])

(* A connection that is given back is at rest: every message that was sent *)
(* through it has settled, and its transaction has ended, so the next      *)
(* borrower finds neither.  It may not be once somebody who shared it was  *)
(* released before sender() had answered a call                            *)
(* (base-message-producer.ts:32) or while a transaction was ending         *)
(* (transactional-message-producer.ts:53), or a commit has failed.         *)
ReturnedAtRest ==
  [][\A p \in Producer :
       returned'[p] /\ ~returned[p] /\ (\A q \in Producer : ~early[q] /\ ~commitFailed[q])
         => /\ \A i \in Calls : call[p][i] \notin {"sender", "beginning", "sending", "doomed"}
            /\ session[p] = "ready"]_producerVars

(* Once released, by the application or by a send that failed, the         *)
(* connection comes back: nobody starves for the only connection of the    *)
(* pool and destroy() can drain it.                                        *)
ReleasedIsReturned ==
  \A p \in Producer :
    (release[p] \in {"pending", "settled"} \/ waiter[p] # "none") ~> (returned[p] \/ Disturbed(p))

(* "Release this message producer, it will be returned to the pool or      *)
(* disconnected" (types.ts:41).                                            *)
ReleaseReturns ==
  \A p \in Producer : (release[p] = "settled") ~> returned[p]
=============================================================================
