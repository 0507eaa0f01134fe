---------------------------- MODULE Multipart_proofs ----------------------------
(***************************************************************************)
(* Theorems about Multipart: the invariant of the queue and of the chain   *)
(* of pushes, its assertions, and the refinement of EntryStream.  Then     *)
(* about the storages that its files go to: that saved files are kept and  *)
(* that nothing is left over.                                              *)
(***************************************************************************)
EXTENDS Multipart, FileStorages, TLAPS

-----------------------------------------------------------------------------
(* Types.                                                                  *)

(* The initial states are in their types.                                  *)
LEMMA InitTypes == Init => TypeOK
<1>. SUFFICES ASSUME Init PROVE TypeOK
  OBVIOUS
<1>1. QueueTypeOK
  <2>1. promise \in [Value -> {"none", "pending", "ok", "failed"}]
    BY DEF Init, QueueInit
  <2>2. <<>> \in Seq(Call) /\ <<>> \in Seq(Value)
    OBVIOUS
  <2>3. waiting \in Seq(Call) /\ ready \in Seq(Call) /\ received \in Seq(Value)
    BY <2>2 DEF Init, QueueInit
  <2>. QED
    BY <2>1, <2>3 DEF Init, QueueInit, QueueTypeOK
<1>2. aborts \in 0 .. MaxAborts
  BY MultipartAssumption DEF Init
<1>. QED
  BY <1>1, <1>2 DEF Init, TypeOK

(* A call that enters waits for the gate or is resumed at once.            *)
LEMMA EnterTypes ==
  ASSUME QueueTypeOK, NEW c \in Call, Enter(c)
  PROVE  waiting' \in Seq(Call) /\ ready' \in Seq(Call)
<1>1. Append(ready, c) \in Seq(Call) /\ Append(waiting, c) \in Seq(Call)
  BY DEF QueueTypeOK
<1>. QED
  BY <1>1 DEF QueueTypeOK, Enter

(* A step of the reader keeps the types of the queue.                      *)
LEMMA ReaderTypes ==
  ASSUME QueueTypeOK, StateInv, ReaderStep
  PROVE  QueueTypeOK'
<1>1. CASE NextEntry
  BY <1>1 DEF NextEntry, QueueTypeOK, Ended
<1>2. CASE Pulled
  <2>1. received \in Seq(Value) /\ waiting \in Seq(Call) /\ value \in Value
    BY <1>2 DEF QueueTypeOK, Pulled, StateInv
  <2>2. Append(received, value) \in Seq(Value)
    BY <2>1
  <2>3. received' \in Seq(Value) /\ waiting' \in Seq(Call) /\ ready' \in Seq(Call)
    <3>1. <<>> \in Seq(Call) /\ ready \in Seq(Call)
      BY DEF QueueTypeOK
    <3>2. \/ received' = Append(received, value) /\ ready' = waiting /\ waiting' = <<>>
          \/ received' = received /\ ready' = ready /\ waiting' = waiting
      BY <1>2 DEF Pulled
    <3>. QED
      BY <2>1, <2>2, <3>1, <3>2
  <2>. QED
    BY <1>2, <2>3 DEF Pulled, QueueTypeOK, Ended
<1>3. CASE TransitSettles
  <2>1. transit \in Value
    BY <1>3 DEF TransitSettles, QueueTypeOK
  <2>2. Append(received, transit) \in Seq(Value)
    BY <2>1 DEF QueueTypeOK
  <2>3. received' \in Seq(Value)
    BY <1>3, <2>2 DEF TransitSettles, QueueTypeOK
  <2>4. thrown' \subseteq {"push", "abort", "finish", "next"}
    BY <1>3 DEF TransitSettles, QueueTypeOK
  <2>. QED
    BY <1>3, <2>3, <2>4 DEF TransitSettles, QueueTypeOK, Ended
<1>4. CASE GateOpens
  BY <1>4 DEF GateOpens, QueueTypeOK
<1>5. CASE Return
  BY <1>5 DEF Return, QueueTypeOK, Ended
<1>6. CASE Returned
  BY <1>6 DEF Returned, QueueTypeOK, Ended
<1>. QED
  BY <1>1, <1>2, <1>3, <1>4, <1>5, <1>6 DEF ReaderStep

(* Every step keeps the types: it needs that the queue is in a state its   *)
(* methods expect.                                                         *)
LEMMA TypesNext == TypeOK /\ StateInv /\ [Next]_vars => TypeOK'
<1>. SUFFICES ASSUME TypeOK, StateInv, [Next]_vars
              PROVE  TypeOK'
  OBVIOUS
<1>. USE DEF TypeOK
<1>1. ASSUME NEW v \in Value, ParsePart(v) PROVE TypeOK'
  <2>1. Push(v) \in Call
    BY DEF Push, Call
  <2>. QED
    BY <1>1, <2>1 DEF ParsePart, queueVars, QueueTypeOK
<1>2. CASE ParserAborts
  <2>1. Abort \in Call
    BY DEF Abort, Call
  <2>2. waiting' \in Seq(Call) /\ ready' \in Seq(Call)
    BY <1>2, <2>1, EnterTypes DEF ParserAborts
  <2>. QED
    BY <1>2, <2>2, MultipartAssumption DEF ParserAborts, QueueTypeOK
<1>3. CASE ParserFinishes
  <2>1. Finish \in Call
    BY DEF Finish, Call
  <2>. QED
    BY <1>3, <2>1 DEF ParserFinishes, queueVars, QueueTypeOK
<1>4. CASE ChainStep
  <2>1. Head(chain) \in Call /\ Tail(chain) \in Seq(Call)
    BY <1>4 DEF ChainStep
  <2>2. waiting' \in Seq(Call) /\ ready' \in Seq(Call)
    BY <1>4, <2>1, EnterTypes DEF ChainStep
  <2>3. Head(chain).of \in Value \cup {None}
    BY <2>1 DEF Call
  <2>4. promise' \in [Value -> {"none", "pending", "ok", "failed"}]
    BY <1>4, <2>3 DEF ChainStep, QueueTypeOK
  <2>5. pushing' \in Value \cup {None} /\ owed' \in Nat
    BY <1>4, <2>3 DEF ChainStep
  <2>. QED
    BY <1>4, <2>1, <2>2, <2>4, <2>5 DEF ChainStep, QueueTypeOK
<1>5. CASE CallResumes
  <2>1. Head(ready) \in Call /\ Tail(ready) \in Seq(Call)
    BY <1>5 DEF CallResumes, QueueTypeOK
  <2>2. Head(ready).of \in Value \cup {None} /\ Head(ready).op \in {"push", "abort", "finish"}
    BY <2>1 DEF Call
  <2>3. CASE Head(ready).op = "push"
    <3>1. owed' \in Nat
      BY <1>5, <2>3 DEF CallResumes
    <3>. QED
      BY <1>5, <2>1, <2>2, <2>3, <3>1 DEF CallResumes, PushResumes, QueueTypeOK
  <2>4. CASE Head(ready).op # "push"
    <3>1. CloseResumes(Head(ready).op)
      BY <1>5, <2>4 DEF CallResumes
    <3>2. thrown' \subseteq {"push", "abort", "finish", "next"} /\ reason' \in BOOLEAN
      BY <2>2, <3>1 DEF CloseResumes, QueueTypeOK
    <3>3. reader' \in {"busy", "pending", "pulling", "leaving"} \cup Ended
      BY <3>1 DEF CloseResumes, QueueTypeOK, Ended
    <3>. QED
      BY <1>5, <2>1, <2>4, <3>1, <3>2, <3>3 DEF CallResumes, CloseResumes, QueueTypeOK
  <2>. QED
    BY <2>3, <2>4
<1>6. ASSUME NEW v \in File, FileSettles(v) PROVE TypeOK'
  BY <1>6, MultipartAssumption DEF FileSettles, QueueTypeOK, chainVars
<1>7. CASE Read
  BY <1>7, ReaderTypes DEF Read, chainVars
<1>8. CASE CallCleanup
  BY <1>8 DEF CallCleanup, queueVars, QueueTypeOK
<1>9. CASE CleanupReturns
  BY <1>9 DEF CleanupReturns, queueVars, QueueTypeOK
<1>10. CASE UNCHANGED vars
  BY <1>10 DEF vars, queueVars, chainVars, QueueTypeOK
<1>. QED
  BY <1>1, <1>2, <1>3, <1>4, <1>5, <1>6, <1>7, <1>8, <1>9, <1>10 DEF Next, Parser
-----------------------------------------------------------------------------
(* The chain.                                                              *)

(* The chain of pushes is counted by natural numbers.                      *)
LEMMA ChainFacts ==
  ASSUME TypeOK, ChainInv
  PROVE  /\ Len(chain) \in Nat /\ Len(parsed) \in Nat /\ Len(received) \in Nat
         /\ Begun \in Nat /\ Begun <= Len(parsed)
         /\ pushing # None => Begun >= 1
         /\ chain = <<>> => Begun = Len(parsed)
<1>1. Len(chain) \in Nat /\ Len(parsed) \in Nat /\ Len(received) \in Nat
  BY DEF TypeOK, QueueTypeOK
<1>2. chain # <<>> => Len(chain) >= 1
  BY <1>1 DEF TypeOK
<1>3. chain = <<>> => Len(chain) = 0
  OBVIOUS
<1>4. Begun \in Nat /\ Begun <= Len(parsed)
  BY <1>1, <1>2, <1>3 DEF Begun, ChainInv
<1>5. pushing # None => Begun >= 1
  BY <1>4, MultipartAssumption DEF TypeOK, ChainInv
<1>. QED
  BY <1>1, <1>3, <1>4, <1>5 DEF Begun

(* The parser appends the part that comes next, and finish() at the end.   *)
LEMMA ParserChains ==
  ASSUME TypeOK, ChainInv, Parser
  PROVE  /\ ChainInv' /\ Begun' = Begun /\ UNCHANGED pushing
         /\ Len(parsed') >= Len(parsed) /\ parser # "finished"
<1>1. Len(chain) \in Nat /\ Len(parsed) \in Nat /\ Begun \in Nat
  BY ChainFacts
<1>2. parser = "open"
  BY DEF Parser, ParsePart, ParserAborts, ParserFinishes
<1>3. Begun = Len(parsed) - Len(chain)
  BY <1>1, <1>2 DEF Begun
<1>4. ASSUME NEW v \in Value, ParsePart(v)
      PROVE  ChainInv' /\ Begun' = Begun /\ UNCHANGED pushing /\ Len(parsed') >= Len(parsed)
  <2>1. Push(v) \in Call
    BY DEF Push, Call
  <2>2. v = Len(parsed) + 1 /\ parsed' = Append(parsed, v) /\ chain' = Append(chain, Push(v))
        /\ UNCHANGED <<parser, pushing>>
    BY <1>4 DEF ParsePart
  <2>3. Len(parsed') = Len(parsed) + 1 /\ Len(chain') = Len(chain) + 1
    BY <2>1, <2>2 DEF TypeOK
  <2>4. Begun' = Len(parsed') - Len(chain')
    BY <1>1, <1>2, <2>2, <2>3 DEF Begun
  <2>5. Begun' = Begun
    BY <1>1, <1>3, <2>3, <2>4
  <2>6. \A i \in 1 .. Len(parsed') : parsed'[i] = i
    BY <1>1, <2>2, <2>3 DEF ChainInv, TypeOK
  <2>7. \A i \in 1 .. Len(chain') : chain'[i] = Push(Begun + i)
    <3>. TAKE i \in 1 .. Len(chain')
    <3>1. CASE i \in 1 .. Len(chain)
      BY <1>1, <1>2, <2>1, <2>2, <3>1 DEF ChainInv, TypeOK
    <3>2. CASE i = Len(chain) + 1
      <4>1. chain'[i] = Push(v)
        BY <2>1, <2>2, <3>2 DEF TypeOK
      <4>2. Begun + i = v
        BY <1>1, <1>3, <2>2, <3>2
      <4>. QED
        BY <4>1, <4>2
    <3>. QED
      BY <1>1, <2>3, <3>1, <3>2
  <2>. QED
    BY <1>1, <1>2, <2>2, <2>3, <2>5, <2>6, <2>7 DEF ChainInv
<1>5. CASE ParserAborts
  <2>1. UNCHANGED <<parsed, chain, pushing>> /\ parser' # "finished"
    BY <1>5 DEF ParserAborts
  <2>2. Begun' = Begun
    BY <1>2, <2>1 DEF Begun
  <2>. QED
    BY <1>1, <1>2, <2>1, <2>2 DEF ChainInv
<1>6. CASE ParserFinishes
  <2>1. Finish \in Call
    BY DEF Finish, Call
  <2>2. UNCHANGED <<parsed, pushing>> /\ parser' = "finished" /\ chain' = Append(chain, Finish)
    BY <1>6 DEF ParserFinishes
  <2>3. Len(chain') = Len(chain) + 1 /\ chain' # <<>>
    BY <1>1, <2>1, <2>2 DEF TypeOK
  <2>4. Begun' = Len(parsed) - (Len(chain') - 1)
    BY <2>2, <2>3 DEF Begun
  <2>5. Begun' = Begun
    BY <1>1, <1>3, <2>3, <2>4
  <2>6. ASSUME NEW i \in 1 .. Len(chain')
        PROVE  chain'[i] = IF i = Len(chain') THEN Finish ELSE Push(Begun + i)
    <3>1. CASE i \in 1 .. Len(chain)
      BY <1>1, <1>2, <2>1, <2>2, <2>3, <3>1 DEF ChainInv, TypeOK
    <3>2. CASE i = Len(chain) + 1
      BY <2>1, <2>2, <2>3, <3>2 DEF TypeOK
    <3>. QED
      BY <1>1, <2>3, <3>1, <3>2
  <2>. QED
    <3>1. \A i \in 1 .. Len(chain') :
            chain'[i] = IF parser' = "finished" /\ i = Len(chain') THEN Finish ELSE Push(Begun' + i)
      BY <2>2, <2>5, <2>6
    <3>. QED
      <4>1. \A i \in 1 .. Len(parsed') : parsed'[i] = i
        BY <2>2 DEF ChainInv
      <4>2. pushing' # None => pushing' = Begun'
        BY <2>2, <2>5 DEF ChainInv
      <4>. QED
        BY <1>1, <1>2, <2>2, <2>5, <3>1, <4>1, <4>2 DEF ChainInv
<1>. QED
  BY <1>2, <1>4, <1>5, <1>6 DEF Parser

(* The chain calls push() for the next part, or finish() after all others. *)
LEMMA ChainGoesOn ==
  ASSUME TypeOK, ChainInv, ChainStep
  PROVE  /\ ChainInv' /\ UNCHANGED <<parsed, parser>>
         /\ \/ /\ Head(chain) = Push(Begun') /\ Begun' = Begun + 1 /\ pushing' = Begun'
               /\ Begun' \in Value
            \/ /\ Head(chain) = Finish /\ Begun' = Begun /\ pushing' = None
               /\ chain' = <<>> /\ parser = "finished"
<1>1. Len(chain) \in Nat /\ Len(parsed) \in Nat /\ Begun \in Nat /\ Begun <= Len(parsed)
  BY ChainFacts
<1>2. chain # <<>> /\ chain' = Tail(chain) /\ pushing = None /\ UNCHANGED <<parsed, parser>>
  BY DEF ChainStep
<1>3. /\ Len(chain) >= 1 /\ Len(chain') = Len(chain) - 1 /\ Head(chain) = chain[1]
      /\ \A i \in 1 .. Len(chain') : chain'[i] = chain[i + 1]
  BY <1>1, <1>2 DEF TypeOK
<1>4. chain' = <<>> <=> Len(chain) = 1
  <2>1. chain' \in Seq(Call)
    BY <1>2 DEF TypeOK
  <2>2. Len(chain') = 0 => chain' = <<>>
    BY <2>1
  <2>3. chain' = <<>> => Len(chain') = 0
    OBVIOUS
  <2>. QED
    BY <1>1, <1>3, <2>2, <2>3
<1>5. CASE parser = "finished" /\ Len(chain) = 1
  <2>1. Head(chain) = Finish
    BY <1>1, <1>3, <1>5 DEF ChainInv
  <2>2. Begun' = Begun /\ chain' = <<>> /\ Len(chain') = 0
    BY <1>1, <1>2, <1>3, <1>4, <1>5 DEF Begun
  <2>3. pushing' = None
    BY <1>2, <2>1 DEF ChainStep, Finish
  <2>. QED
    BY <1>1, <1>2, <1>5, <2>1, <2>2, <2>3 DEF ChainInv
<1>6. CASE ~(parser = "finished" /\ Len(chain) = 1)
  <2>1. Head(chain) = Push(Begun + 1)
    BY <1>1, <1>3, <1>6 DEF ChainInv
  <2>2. Begun' = Begun + 1
    BY <1>1, <1>2, <1>3, <1>4, <1>6 DEF Begun
  <2>3. pushing' = Begun + 1
    BY <1>2, <2>1 DEF ChainStep, Push
  <2>5. Begun + 1 \in Value
    <3>1. Begun < Len(parsed)
      BY <1>1, <1>3, <1>6 DEF Begun
    <3>2. parsed[Begun + 1] \in Value /\ parsed[Begun + 1] = Begun + 1
      BY <1>1, <3>1 DEF TypeOK, ChainInv
    <3>. QED
      BY <3>2
  <2>4. \A i \in 1 .. Len(chain') :
          chain'[i] = IF parser = "finished" /\ i = Len(chain') THEN Finish ELSE Push(Begun' + i)
    <3>. TAKE i \in 1 .. Len(chain')
    <3>1. chain'[i] = chain[i + 1] /\ i + 1 \in 1 .. Len(chain)
      BY <1>1, <1>3
    <3>2. i = Len(chain') <=> i + 1 = Len(chain)
      BY <1>1, <1>3
    <3>3. Begun + (i + 1) = Begun' + i
      BY <1>1, <2>2
    <3>. QED
      BY <3>1, <3>2, <3>3 DEF ChainInv
  <2>. QED
    BY <1>1, <1>2, <2>1, <2>2, <2>3, <2>4, <2>5 DEF ChainInv
<1>. QED
  BY <1>5, <1>6

(* A push that returns leaves the chain as it is.                          *)
LEMMA ChainKeeps ==
  ASSUME TypeOK, ChainInv, UNCHANGED <<parsed, parser, chain>>, pushing' \in {pushing, None}
  PROVE  ChainInv' /\ Begun' = Begun
BY DEF ChainInv, Begun

-----------------------------------------------------------------------------
(* The gate and the calls that wait for it.                                *)

(* A call that enters is resumed at once, alone, or waits behind others.   *)
LEMMA Entered ==
  ASSUME TypeOK, GateInv, Idle, NEW c \in Call, Enter(c)
  PROVE  \/ gate = "open" /\ waiting' = <<>> /\ ready' = <<c>>
         \/ gate = "shut" /\ waiting' = Append(waiting, c) /\ ready' = <<>>
<1>1. ready = <<>> /\ gate \in {"open", "shut"}
  BY DEF Idle, Quiescent, TypeOK, QueueTypeOK
<1>. QED
  BY <1>1 DEF Enter, GateInv

(* Where there is neither push nor finish, all calls are aborts.           *)
LEMMA ChainHasNone ==
  ASSUME NEW calls \in Seq(Call), ChainHasOne(calls, None, FALSE)
  PROVE  OnlyAborts(calls)
<1>. SUFFICES ASSUME NEW i \in 1 .. Len(calls) PROVE calls[i].op = "abort"
  BY DEF OnlyAborts
<1>1. calls[i] \in Call
  OBVIOUS
<1>2. calls[i].op \in {"push", "abort", "finish"}
  BY <1>1 DEF Call
<1>3. calls[i].op # "push" /\ calls[i].op # "finish"
  BY DEF ChainHasOne
<1>. QED
  BY <1>2, <1>3

(* An abort may be added to what waits ...                                 *)
LEMMA AbortEnters ==
  ASSUME NEW calls \in Seq(Call), NEW p, NEW f, ChainHasOne(calls, p, f)
  PROVE  /\ ChainHasOne(Append(calls, Abort), p, f)
         /\ OnlyAborts(calls) => OnlyAborts(Append(calls, Abort))
<1>. DEFINE more == Append(calls, Abort)
<1>1. Abort \in Call /\ Abort.op = "abort"
  BY DEF Abort, Call
<1>2. /\ Len(calls) \in Nat /\ Len(more) = Len(calls) + 1 /\ more[Len(calls) + 1] = Abort
      /\ \A i \in 1 .. Len(calls) : more[i] = calls[i]
  BY <1>1
<1>3. \A i \in 1 .. Len(more) : i \in 1 .. Len(calls) \/ more[i].op = "abort"
  BY <1>1, <1>2
<1>. HIDE DEF more
<1>4. ChainHasOne(more, p, f)
  BY <1>2, <1>3 DEF ChainHasOne
<1>5. OnlyAborts(calls) => OnlyAborts(more)
  BY <1>2, <1>3 DEF OnlyAborts
<1>. QED
  BY <1>4, <1>5 DEF more

(* ... and to aborts the call that the chain makes.                        *)
LEMMA ChainEnters ==
  ASSUME NEW calls \in Seq(Call), OnlyAborts(calls), NEW c \in Call, NEW p, NEW f,
         c.op = "push" => p # None /\ c.of = p,
         c.op = "finish" => f
  PROVE  ChainHasOne(Append(calls, c), p, f)
<1>. DEFINE more == Append(calls, c)
<1>1. /\ Len(calls) \in Nat /\ Len(more) = Len(calls) + 1 /\ more[Len(calls) + 1] = c
      /\ \A i \in 1 .. Len(calls) : more[i] = calls[i]
  OBVIOUS
<1>2. \A i \in 1 .. Len(more) : i = Len(calls) + 1 \/ more[i].op = "abort"
  BY <1>1 DEF OnlyAborts
<1>. HIDE DEF more
<1>3. ChainHasOne(more, p, f)
  BY <1>1, <1>2 DEF ChainHasOne
<1>. QED
  BY <1>3 DEF more

(* What is left when the first call is resumed: if that was the push, or   *)
(* the only one that could be a finish, aborts.                            *)
LEMMA FirstResumes ==
  ASSUME NEW calls \in Seq(Call), calls # <<>>, NEW p, NEW f, ChainHasOne(calls, p, f)
  PROVE  /\ ChainHasOne(Tail(calls), p, f)
         /\ OnlyAborts(calls) => OnlyAborts(Tail(calls)) /\ Head(calls).op = "abort"
         /\ Head(calls).op = "push" => p # None /\ Head(calls).of = p /\ OnlyAborts(Tail(calls))
         /\ Head(calls).op = "finish" => f
<1>. DEFINE rest == Tail(calls)
<1>1. /\ Len(calls) \in Nat /\ Len(calls) >= 1 /\ Len(rest) = Len(calls) - 1
      /\ Head(calls) = calls[1]
      /\ \A i \in 1 .. Len(rest) : rest[i] = calls[i + 1] /\ i + 1 \in 2 .. Len(calls)
  OBVIOUS
<1>. HIDE DEF rest
<1>2. ChainHasOne(rest, p, f)
  <2>. SUFFICES ASSUME NEW i \in 1 .. Len(rest)
                PROVE  /\ rest[i].op = "push" =>
                            /\ p # None /\ rest[i].of = p
                            /\ \A j \in 1 .. Len(rest) : rest[j].op # "abort" => j = i
                       /\ rest[i].op = "finish" => f
    BY DEF ChainHasOne
  <2>1. rest[i] = calls[i + 1] /\ i + 1 \in 1 .. Len(calls)
    BY <1>1
  <2>2. ASSUME NEW j \in 1 .. Len(rest), rest[j].op # "abort", rest[i].op = "push" PROVE j = i
    <3>1. calls[j + 1].op # "abort" /\ j + 1 \in 1 .. Len(calls) /\ calls[i + 1].op = "push"
      BY <1>1, <2>1, <2>2
    <3>2. j + 1 = i + 1
      BY <2>1, <3>1 DEF ChainHasOne
    <3>. QED
      BY <1>1, <3>2
  <2>. QED
    BY <2>1, <2>2 DEF ChainHasOne
<1>3. OnlyAborts(calls) => OnlyAborts(rest) /\ Head(calls).op = "abort"
  BY <1>1 DEF OnlyAborts
<1>4. ASSUME Head(calls).op = "push" PROVE p # None /\ Head(calls).of = p /\ OnlyAborts(rest)
  <2>1. \A j \in 1 .. Len(calls) : calls[j].op # "abort" => j = 1
    BY <1>1, <1>4 DEF ChainHasOne
  <2>. QED
    BY <1>1, <1>4, <2>1 DEF ChainHasOne, OnlyAborts
<1>5. Head(calls).op = "finish" => f
  BY <1>1 DEF ChainHasOne
<1>. QED
  BY <1>2, <1>3, <1>4, <1>5 DEF rest
(* Nothing waits in an empty sequence.                                     *)
LEMMA NothingWaits == \A p, f : ChainHasOne(<<>>, p, f) /\ OnlyAborts(<<>>)
BY DEF ChainHasOne, OnlyAborts

(* The parser makes the chain longer and leaves the gate alone.            *)
LEMMA GateParser ==
  ASSUME TypeOK, ChainInv, GateInv, Parser
  PROVE  GateInv'
<1>1. parser # "finished" /\ UNCHANGED pushing
  BY ParserChains
<1>2. ~FinishCalled
  BY <1>1 DEF FinishCalled
<1>3. waiting \in Seq(Call) /\ ready \in Seq(Call)
  BY DEF TypeOK, QueueTypeOK
<1>4. \A calls, f : ChainHasOne(calls, pushing, FinishCalled) => ChainHasOne(calls, pushing, f)
  BY <1>2 DEF ChainHasOne
<1>5. ASSUME UNCHANGED queueVars PROVE GateInv'
  <2>1. ChainHasOne(waiting, pushing, FinishCalled')  /\ ChainHasOne(ready, pushing, FinishCalled')
    BY <1>4 DEF GateInv
  <2>. QED
    BY <1>1, <1>5, <2>1 DEF GateInv, queueVars
<1>6. CASE ParserAborts
  <2>1. Idle /\ Abort \in Call /\ Enter(Abort)
        /\ UNCHANGED <<gate, value, transit>>
    BY <1>6 DEF ParserAborts, Abort, Call
  <2>2. ready = <<>>
    BY <2>1 DEF Idle, Quiescent
  <2>3. \/ gate = "open" /\ waiting' = <<>> /\ ready' = <<Abort>>
        \/ gate = "shut" /\ waiting' = Append(waiting, Abort) /\ ready' = <<>>
    BY <2>1, Entered
  <2>4. <<Abort>> = Append(<<>>, Abort) /\ <<>> \in Seq(Call)
    OBVIOUS
  <2>5. ChainHasOne(<<>>, pushing, FinishCalled') /\ OnlyAborts(<<>>)
        /\ ChainHasOne(waiting, pushing, FinishCalled')
    BY <1>4, NothingWaits DEF GateInv
  <2>6. ChainHasOne(<<Abort>>, pushing, FinishCalled')
    BY <2>4, <2>5, AbortEnters
  <2>7. ChainHasOne(Append(waiting, Abort), pushing, FinishCalled')
    BY <1>3, <2>5, AbortEnters
  <2>. QED
    BY <1>1, <2>1, <2>3, <2>5, <2>6, <2>7 DEF GateInv
<1>. QED
  BY <1>5, <1>6 DEF Parser, ParsePart, ParserFinishes

(* The next link of the chain runs when the push before it has settled.    *)
LEMMA GateChain ==
  ASSUME TypeOK, ChainInv, GateInv, ChainStep
  PROVE  GateInv'
<1>1. Idle /\ pushing = None /\ chain # <<>> /\ Enter(Head(chain)) /\ UNCHANGED <<gate, value, transit>>
  BY DEF ChainStep
<1>2. waiting \in Seq(Call) /\ ready = <<>> /\ Head(chain) \in Call
  BY <1>1 DEF TypeOK, QueueTypeOK, Idle, Quiescent
<1>3. OnlyAborts(waiting)
  <2>1. ChainHasOne(waiting, None, FALSE)
    BY <1>1 DEF GateInv, FinishCalled, ChainHasOne
  <2>. QED
    BY <1>2, <2>1, ChainHasNone
<1>4. Head(chain).op = "push" => pushing' # None /\ Head(chain).of = pushing'
  <2>1. CASE Head(chain) = Push(Begun') /\ Begun' \in Value /\ pushing' = Begun'
    BY <2>1, NoneAssumption DEF Push
  <2>2. CASE Head(chain) = Finish
    BY <2>2 DEF Finish
  <2>. QED
    BY <2>1, <2>2, ChainGoesOn
<1>5. Head(chain).op = "finish" => FinishCalled'
  BY ChainGoesOn DEF Push, FinishCalled
<1>6. \/ gate = "open" /\ waiting' = <<>> /\ ready' = <<Head(chain)>>
      \/ gate = "shut" /\ waiting' = Append(waiting, Head(chain)) /\ ready' = <<>>
  BY <1>1, <1>2, Entered
<1>7. <<Head(chain)>> = Append(<<>>, Head(chain)) /\ <<>> \in Seq(Call)
  OBVIOUS
<1>8. ChainHasOne(<<>>, pushing', FinishCalled') /\ OnlyAborts(<<>>)
  BY NothingWaits
<1>9. ChainHasOne(Append(<<>>, Head(chain)), pushing', FinishCalled')
  BY <1>2, <1>4, <1>5, <1>7, <1>8, ChainEnters
<1>10. ChainHasOne(Append(waiting, Head(chain)), pushing', FinishCalled')
  BY <1>2, <1>3, <1>4, <1>5, ChainEnters
<1>. QED
  BY <1>1, <1>6, <1>7, <1>8, <1>9, <1>10 DEF GateInv

(* A call of the queue that resumes leaves the gate as it found it or      *)
(* shuts it.                                                               *)
LEMMA GateResumes ==
  ASSUME TypeOK, ChainInv, GateInv, StateInv, CallResumes
  PROVE  GateInv'
<1>1. ready \in Seq(Call) /\ ready # <<>> /\ ready' = Tail(ready) /\ UNCHANGED <<waiting, chain, parser>>
  BY DEF CallResumes, TypeOK, QueueTypeOK
<1>2. waiting = <<>> /\ gate \in {"open", "shut"}
  BY <1>1 DEF GateInv, TypeOK, QueueTypeOK
<1>3. /\ ChainHasOne(ready', pushing, FinishCalled)
      /\ OnlyAborts(ready) => OnlyAborts(ready') /\ Head(ready).op = "abort"
      /\ Head(ready).op = "push" => pushing # None /\ Head(ready).of = pushing /\ OnlyAborts(ready')
  BY <1>1, FirstResumes DEF GateInv
<1>4. CASE Head(ready).op = "push"
  <2>1. pushing' = None /\ PushResumes(Head(ready).of)
    BY <1>4 DEF CallResumes
  <2>2. Head(ready).of # None /\ OnlyAborts(ready')
    BY <1>3, <1>4
  <2>3. ChainHasOne(ready', pushing', FinishCalled')
    BY <2>2 DEF ChainHasOne, OnlyAborts
  <2>4. ChainHasOne(waiting', pushing', FinishCalled')
    BY <1>1, <1>2, NothingWaits
  <2>5. gate' = "shut" <=> (value' # None \/ transit' # None)
    BY <2>1, <2>2 DEF PushResumes, GateInv, StateInv
  <2>6. gate' \in {"open", "shut"}
    BY <1>2, <2>1 DEF PushResumes
  <2>. QED
    BY <1>1, <1>2, <2>2, <2>3, <2>4, <2>5, <2>6 DEF GateInv
<1>5. CASE Head(ready).op # "push"
  <2>1. UNCHANGED <<value, transit, gate, pushing>>
    BY <1>5 DEF CallResumes
  <2>2. FinishCalled' = FinishCalled
    BY <1>1, <2>1 DEF FinishCalled
  <2>. QED
    BY <1>1, <1>2, <1>3, <2>1, <2>2 DEF GateInv
<1>. QED
  BY <1>4, <1>5

(* So does a call of the reader.                                           *)
LEMMA GateRead ==
  ASSUME TypeOK, ChainInv, GateInv, StateInv, Read
  PROVE  GateInv'
<1>1. UNCHANGED <<pushing, chain, parser>> /\ FinishCalled' = FinishCalled
  BY DEF Read, chainVars, FinishCalled
<1>2. ChainHasOne(<<>>, pushing, FinishCalled) /\ OnlyAborts(<<>>)
  BY NothingWaits
<1>3. CASE NextEntry
  BY <1>1, <1>3 DEF NextEntry, GateInv
<1>4. CASE Pulled
  <2>1. value # None /\ transit = None /\ ready = <<>>
    BY <1>4 DEF Pulled, StateInv, Idle, Quiescent
  <2>2. CASE UNCHANGED <<gate, ready, waiting, value, transit>>
    BY <1>1, <2>2 DEF GateInv
  <2>3. CASE gate' = "open" /\ ready' = waiting /\ waiting' = <<>> /\ value' = None /\ transit' = transit
    BY <1>1, <1>2, <2>1, <2>3 DEF GateInv
  <2>. QED
    BY <1>4, <2>2, <2>3 DEF Pulled
<1>5. CASE TransitSettles
  <2>1. ready = <<>> /\ value = None
    BY <1>5 DEF TransitSettles, Idle, Quiescent, StateInv
  <2>2. gate' = "opening" /\ transit' = None /\ UNCHANGED <<value, waiting, ready>>
    BY <1>5 DEF TransitSettles
  <2>. QED
    BY <1>1, <2>1, <2>2 DEF GateInv
<1>6. CASE GateOpens
  BY <1>1, <1>2, <1>6 DEF GateOpens, GateInv, Quiescent
<1>7. CASE Return
  BY <1>1, <1>7 DEF Return, GateInv
<1>8. CASE Returned
  BY <1>1, <1>8 DEF Returned, GateInv
<1>. QED
  BY <1>3, <1>4, <1>5, <1>6, <1>7, <1>8 DEF Read, ReaderStep
-----------------------------------------------------------------------------
(* The state of the queue.                                                 *)

(* A resumed call leaves the queue in a state its methods expect.          *)
LEMMA StateResumes ==
  ASSUME TypeOK, GateInv, StateInv, CallResumes
  PROVE  StateInv'
<1>1. ready \in Seq(Call) /\ ready # <<>>
  BY DEF CallResumes, TypeOK, QueueTypeOK
<1>2. CASE Head(ready).op = "push"
  <2>1. PushResumes(Head(ready).of) /\ UNCHANGED reader
    BY <1>2 DEF CallResumes
  <2>2. Head(ready).of # None
    BY <1>1, <1>2, FirstResumes DEF GateInv
  <2>. QED
    BY <2>1, <2>2 DEF PushResumes, StateInv
<1>3. CASE Head(ready).op # "push"
  <2>1. CloseResumes(Head(ready).op) /\ UNCHANGED <<value, transit>>
    BY <1>3 DEF CallResumes
  <2>2. CASE at = "awaitingPush"
    BY <2>1, <2>2 DEF CloseResumes, StateInv, Ended
  <2>3. CASE at # "awaitingPush"
    BY <2>1, <2>3 DEF CloseResumes, StateInv, Ended
  <2>. QED
    BY <2>2, <2>3
<1>. QED
  BY <1>2, <1>3

(* So does a call of the reader.                                           *)
LEMMA StateRead ==
  ASSUME TypeOK, GateInv, StateInv, Read
  PROVE  StateInv'
<1>0. at \in {"idle", "awaitingPull", "awaitingPush", "closed"}
  BY DEF TypeOK, QueueTypeOK
<1>1. CASE NextEntry
  BY <1>1 DEF NextEntry, StateInv, Ended
<1>2. CASE Pulled
  <2>1. at = "awaitingPull" /\ value # None /\ transit = None
    BY <1>2 DEF Pulled, StateInv
  <2>. QED
    BY <1>2, <2>1 DEF Pulled, StateInv, Ended
<1>3. CASE TransitSettles
  <2>1. value = None /\ UNCHANGED value /\ at' = "idle" /\ transit' = None
    BY <1>3 DEF TransitSettles, StateInv
  <2>2. reader' \notin {"pending", "pulling", "leaving"}
    BY <1>3, <2>1 DEF TransitSettles, StateInv
  <2>. QED
    BY <2>1, <2>2 DEF StateInv
<1>4. CASE GateOpens
  BY <1>4 DEF GateOpens, StateInv
<1>5. CASE Return
  <2>1. transit = None
    BY <1>0, <1>5 DEF Return, StateInv, Ended
  <2>. QED
    BY <1>5, <2>1 DEF Return, StateInv, Ended
<1>6. CASE Returned
  BY <1>6 DEF Returned, StateInv, Ended
<1>. QED
  BY <1>1, <1>2, <1>3, <1>4, <1>5, <1>6 DEF Read, ReaderStep

-----------------------------------------------------------------------------
(* What was pushed is received.                                            *)

(* The parser and the chain hand nothing over by themselves.               *)
LEMMA DeliveryChain ==
  ASSUME TypeOK, ChainInv, DeliveryInv, Parser \/ ChainStep
  PROVE  DeliveryInv'
<1>1. UNCHANGED <<at, reason, value, transit, gate, reader, received, thrown>>
  BY DEF Parser, ParsePart, ParserAborts, ParserFinishes, ChainStep, queueVars
<1>2. ReturnedPushes' = ReturnedPushes
  <2>1. CASE Parser
    BY <2>1, ParserChains DEF ReturnedPushes
  <2>2. CASE ChainStep
    <3>1. pushing = None /\ Begun \in Nat
      BY <2>2, ChainFacts DEF ChainStep
    <3>. QED
      BY <2>2, <3>1, ChainGoesOn, NoneAssumption DEF ReturnedPushes
  <2>. QED
    BY <2>1, <2>2
<1>3. parser = "finished" => UNCHANGED <<parser, parsed>>
  BY ParserChains, ChainGoesOn
<1>. QED
  BY <1>1, <1>2, <1>3 DEF DeliveryInv

(* A resumed push hands over the entry that is next.                       *)
LEMMA DeliveryResumes ==
  ASSUME TypeOK, ChainInv, GateInv, StateInv, DeliveryInv, CallResumes
  PROVE  DeliveryInv'
<1>1. ready \in Seq(Call) /\ ready # <<>> /\ Head(ready) \in Call
      /\ UNCHANGED <<received, parsed, chain, parser>>
  BY DEF CallResumes, TypeOK, QueueTypeOK
<1>2. Head(ready).op \in {"push", "abort", "finish"}
  BY <1>1 DEF Call
<1>3. Begun' = Begun /\ Begun \in Nat /\ Len(received) \in Nat
  BY <1>1, ChainFacts DEF Begun
<1>4. Head(ready).op # "abort" => gate # "shut" /\ value = None /\ transit = None /\ at # "awaitingPull"
  <2>1. OnlyAborts(ready) => Head(ready).op = "abort"
    BY <1>1, FirstResumes DEF GateInv
  <2>. QED
    BY <2>1 DEF GateInv, StateInv
<1>5. CASE Head(ready).op = "push"
  <2>1. pushing # None /\ Head(ready).of = pushing /\ pushing = Begun
    BY <1>1, <1>5, FirstResumes DEF GateInv, ChainInv
  <2>2. pushing' = None /\ PushResumes(pushing) /\ UNCHANGED <<reason, reader>>
    BY <1>5, <2>1 DEF CallResumes
  <2>3. ReturnedPushes = Begun - 1 /\ ReturnedPushes' = Begun
    BY <1>3, <2>1, <2>2 DEF ReturnedPushes
  <2>4. thrown' = thrown
    BY <1>4, <1>5, <2>2 DEF PushResumes
  <2>5. CASE at \in {"idle", "awaitingPush"}
    <3>1. at' # "closed" /\ gate' = "shut"
          /\ value' \in {None, pushing} /\ transit' \in {None, pushing}
      BY <1>4, <1>5, <2>2, <2>5 DEF PushResumes
    <3>2. reader \notin Ended => ReturnedPushes' = Len(received) + 1
      BY <1>3, <1>4, <1>5, <2>3, <2>5 DEF DeliveryInv
    <3>. QED
      BY <1>1, <2>1, <2>2, <2>3, <2>4, <3>1, <3>2 DEF DeliveryInv
  <2>6. CASE at = "closed"
    BY <1>1, <2>2, <2>4, <2>6 DEF DeliveryInv, PushResumes
  <2>. QED
    BY <1>4, <1>5, <2>5, <2>6 DEF TypeOK, QueueTypeOK
<1>6. CASE Head(ready).op # "push"
  <2>1. CloseResumes(Head(ready).op) /\ UNCHANGED <<value, transit, gate, pushing>>
    BY <1>6 DEF CallResumes
  <2>2. ReturnedPushes' = ReturnedPushes
    BY <1>3, <2>1 DEF ReturnedPushes
  <2>3. thrown' \cap {"push", "finish"} = {}
    BY <1>2, <1>4, <1>6, <2>1 DEF CloseResumes, DeliveryInv
  <2>4. ASSUME reader' = "busy", at' = "closed", ~reason', at # "closed"
        PROVE  parser = "finished" /\ Len(received) = Len(parsed)
    <3>1. Head(ready).op = "finish" /\ reader = "busy" /\ at = "idle"
      BY <1>2, <1>6, <2>1, <2>4 DEF CloseResumes, StateInv
    <3>2. FinishCalled
      BY <1>1, <3>1, FirstResumes DEF GateInv
    <3>3. Begun = Len(parsed) /\ ReturnedPushes = Begun
      BY <1>3, <3>2, ChainFacts DEF FinishCalled, ReturnedPushes
    <3>. QED
      BY <1>4, <3>1, <3>2, <3>3 DEF DeliveryInv, FinishCalled, Ended
  <2>5. at = "closed" => UNCHANGED <<at, reason, reader>>
    BY <2>1 DEF CloseResumes
  <2>6. at' # "closed" => UNCHANGED <<at, reader>>
    BY <2>1 DEF CloseResumes
  <2>. QED
    BY <1>1, <2>1, <2>2, <2>3, <2>4, <2>5, <2>6 DEF DeliveryInv
<1>. QED
  BY <1>5, <1>6

(* A read takes the entry that is next, or waits for it.                   *)
LEMMA DeliveryRead ==
  ASSUME TypeOK, ChainInv, GateInv, StateInv, DeliveryInv, Read
  PROVE  DeliveryInv'
<1>0. /\ at \in {"idle", "awaitingPull", "awaitingPush", "closed"}
      /\ received \in Seq(Value) /\ Len(received) \in Nat
  BY DEF TypeOK, QueueTypeOK
<1>1. UNCHANGED <<parsed, parser, pushing>> /\ ReturnedPushes' = ReturnedPushes
  BY DEF Read, chainVars, ReturnedPushes, Begun
<1>2. ASSUME NEW v \in Value, v = Len(received) + 1, received' = Append(received, v)
      PROVE  Len(received') = Len(received) + 1 /\ \A i \in 1 .. Len(received') : received'[i] = i
  BY <1>0, <1>2 DEF DeliveryInv
<1>3. CASE NextEntry
  BY <1>1, <1>3 DEF NextEntry, DeliveryInv, Ended
<1>4. CASE Pulled
  <2>1. at = "awaitingPull" /\ value # None /\ value \in Value /\ gate = "shut"
    BY <1>4 DEF Pulled, StateInv, GateInv, TypeOK, QueueTypeOK
  <2>2. value = ReturnedPushes /\ ReturnedPushes = Len(received) + 1
    BY <1>4, <2>1 DEF Pulled, DeliveryInv, Ended
  <2>3. CASE promise[value] = "ok" /\ received' = Append(received, value)
    <3>1. Len(received') = Len(received) + 1 /\ \A i \in 1 .. Len(received') : received'[i] = i
      BY <1>2, <2>1, <2>2, <2>3
    <3>2. /\ thrown' = thrown
          /\ (gate' = "open" /\ at' = "idle") \/ reader' = "failed"
      BY <1>4 DEF Pulled
    <3>. QED
      BY <1>1, <2>1, <2>2, <3>1, <3>2 DEF DeliveryInv, Ended
  <2>4. CASE reader' = "failed" /\ UNCHANGED <<received, thrown>>
    BY <2>4 DEF DeliveryInv, Ended
  <2>. QED
    BY <1>4, <2>3, <2>4 DEF Pulled
<1>5. CASE TransitSettles
  <2>1. value = None /\ transit \in Value /\ gate = "shut" /\ at' = "idle" /\ gate' = "opening"
    BY <1>5 DEF TransitSettles, StateInv, GateInv, TypeOK, QueueTypeOK
  <2>2. thrown' \cap {"push", "finish"} = {}
    BY <1>5 DEF TransitSettles, DeliveryInv
  <2>3. CASE reader = "pending" /\ promise[transit] = "ok"
    <3>1. transit = ReturnedPushes /\ ReturnedPushes = Len(received) + 1
      BY <2>1, <2>3, NoneAssumption DEF StateInv, DeliveryInv, Ended
    <3>2. received' = Append(received, transit)
      BY <1>5, <2>3 DEF TransitSettles
    <3>3. Len(received') = Len(received) + 1 /\ \A i \in 1 .. Len(received') : received'[i] = i
      BY <1>2, <2>1, <3>1, <3>2
    <3>. QED
      BY <1>1, <2>1, <2>2, <3>1, <3>3 DEF DeliveryInv
  <2>4. CASE ~(reader = "pending" /\ promise[transit] = "ok")
    <3>1. received' = received /\ reader' \in Ended
      BY <1>0, <1>5, <2>1, <2>4, NoneAssumption DEF TransitSettles, StateInv, Ended
    <3>. QED
      BY <2>1, <2>2, <3>1 DEF DeliveryInv
  <2>. QED
    BY <2>3, <2>4
<1>6. CASE GateOpens
  BY <1>1, <1>6 DEF GateOpens, DeliveryInv
<1>7. CASE Return
  BY <1>1, <1>7 DEF Return, DeliveryInv
<1>8. CASE Returned
  BY <1>1, <1>8 DEF Returned, DeliveryInv, Ended
<1>. QED
  BY <1>3, <1>4, <1>5, <1>6, <1>7, <1>8 DEF Read, ReaderStep
-----------------------------------------------------------------------------
(* The files that failed, and the assertion of next().                     *)

(* Promises that stay leave what is said of failures to reader and thrown. *)
LEMMA FailureStays ==
  ASSUME FailureInv, UNCHANGED promise, Begun' = Begun,
         "next" \in thrown' => "next" \in thrown, reader = "failed" => reader' = "failed"
  PROVE  FailureInv'
BY DEF FailureInv

(* The chain stores the next part: its promise is a new one.               *)
LEMMA FailureChain ==
  ASSUME TypeOK, ChainInv, FailureInv, ChainStep
  PROVE  FailureInv'
<1>1. UNCHANGED <<reader, thrown>>
  BY DEF ChainStep
<1>2. Begun \in Nat /\ \A v \in Value : v \in Nat
  BY ChainFacts, MultipartAssumption
<1>3. CASE Head(chain) = Push(Begun') /\ Begun' = Begun + 1 /\ Begun' \in Value
  <2>1. promise' = [promise EXCEPT ![Begun'] = IF Begun' \in File THEN "pending" ELSE "ok"]
    BY <1>3 DEF ChainStep, Push
  <2>2. promise \in [Value -> {"none", "pending", "ok", "failed"}]
    BY DEF TypeOK, QueueTypeOK
  <2>3. /\ promise'[Begun'] \in {"pending", "ok"}
        /\ \A v \in Value : v # Begun' => promise'[v] = promise[v]
    BY <1>3, <2>1, <2>2
  <2>4. promise[Begun'] = "none"
    <3>1. ~(Begun' <= Begun)
      BY <1>2, <1>3
    <3>. QED
      BY <1>3, <3>1 DEF FailureInv
  <2>5. \A v \in Value : promise'[v] # "none" => v <= Begun'
    <3>. SUFFICES ASSUME NEW v \in Value, promise'[v] # "none" PROVE v <= Begun'
      OBVIOUS
    <3>1. v = Begun' \/ v <= Begun
      BY <2>3 DEF FailureInv
    <3>. QED
      BY <1>2, <1>3, <3>1
  <2>6. \A v \in Value : promise'[v] = "failed" <=> promise[v] = "failed"
    BY <2>3, <2>4
  <2>. QED
    BY <1>1, <2>5, <2>6, MultipartAssumption DEF FailureInv
<1>4. CASE Head(chain) = Finish /\ Begun' = Begun
  BY <1>1, <1>4, FailureStays DEF ChainStep, Finish
<1>. QED
  BY <1>3, <1>4, ChainGoesOn

(* A reader that has failed stays so, whatever is resumed.                 *)
LEMMA FailureResumes ==
  ASSUME TypeOK, ChainInv, FailureInv, CallResumes
  PROVE  FailureInv'
<1>1. UNCHANGED <<promise, parsed, parser, chain>> /\ pushing' \in {pushing, None}
  BY DEF CallResumes
<1>2. Begun' = Begun
  BY <1>1, ChainKeeps
<1>3. Head(ready).op # "next"
  <2>1. Head(ready) \in Call
    BY DEF CallResumes, TypeOK, QueueTypeOK
  <2>. QED
    BY <2>1 DEF Call
<1>4. "next" \in thrown' => "next" \in thrown
  BY <1>3 DEF CallResumes, PushResumes, CloseResumes
<1>5. reader = "failed" => reader' = "failed"
  BY DEF CallResumes, PushResumes, CloseResumes
<1>. QED
  BY <1>1, <1>2, <1>4, <1>5, FailureStays

(* The reader meets the assertion only when the file in transit failed.    *)
LEMMA FailureRead ==
  ASSUME TypeOK, ChainInv, FailureInv, Read
  PROVE  FailureInv'
<1>1. UNCHANGED <<promise, parsed, parser, chain, pushing>>
  BY DEF Read, ReaderStep, NextEntry, Pulled, TransitSettles, GateOpens, Return, Returned, chainVars
<1>2. Begun' = Begun
  BY <1>1, ChainKeeps
<1>3. CASE thrown' = thrown
  <2>1. reader = "failed" => reader' = "failed"
    BY DEF Read, ReaderStep, NextEntry, Pulled, TransitSettles, GateOpens, Return, Returned
  <2>. QED
    BY <1>1, <1>2, <1>3, <2>1, FailureStays
<1>4. CASE thrown' # thrown
  <2>1. TransitSettles
    BY <1>4 DEF Read, ReaderStep, NextEntry, Pulled, GateOpens, Return, Returned
  <2>2. reader' = "failed" /\ promise[transit] = "failed" /\ transit \in Value
    BY <1>4, <2>1 DEF TransitSettles, TypeOK, QueueTypeOK
  <2>. QED
    BY <1>1, <1>2, <2>2 DEF FailureInv
<1>. QED
  BY <1>3, <1>4

(* A file that is being stored may fail.                                   *)
LEMMA FailureSettles ==
  ASSUME TypeOK, ChainInv, FailureInv, NEW v \in File, FileSettles(v)
  PROVE  FailureInv'
<1>1. UNCHANGED <<reader, thrown, parsed, parser, chain, pushing>>
  BY DEF FileSettles, chainVars
<1>2. Begun' = Begun
  BY <1>1, ChainKeeps
<1>3. v \in Value /\ promise \in [Value -> {"none", "pending", "ok", "failed"}]
  BY MultipartAssumption DEF TypeOK, QueueTypeOK
<1>4. promise[v] = "pending" /\ \A w \in Value : w # v => promise'[w] = promise[w]
  BY <1>3 DEF FileSettles
<1>5. \A w \in Value : promise'[w] # "none" => promise[w] # "none"
  BY <1>4
<1>6. \A w \in Value : promise'[w] = "failed" => w \in File
  BY <1>4 DEF FailureInv
<1>7. \A w \in Value : promise[w] = "failed" => promise'[w] = "failed"
  BY <1>4
<1>. QED
  BY <1>1, <1>2, <1>5, <1>6, <1>7, MultipartAssumption DEF FailureInv

-----------------------------------------------------------------------------
(* The theorems.                                                           *)

(* The initial states satisfy the invariant.                               *)
LEMMA InitEstablishes == Init => IInv
<1>. SUFFICES ASSUME Init PROVE IInv
  OBVIOUS
<1>1. Len(parsed) = 0 /\ Len(chain) = 0 /\ Len(received) = 0 /\ Begun = 0 /\ ReturnedPushes = 0
  BY DEF Init, QueueInit, Begun, ReturnedPushes
<1>2. TypeOK
  BY InitTypes
<1>3. ChainInv
  BY <1>1 DEF Init, ChainInv
<1>4. GateInv
  BY NothingWaits DEF Init, QueueInit, GateInv
<1>5. StateInv
  BY DEF Init, QueueInit, StateInv
<1>6. DeliveryInv
  BY <1>1 DEF Init, QueueInit, DeliveryInv
<1>7. FailureInv
  BY DEF Init, QueueInit, FailureInv
<1>. QED
  BY <1>2, <1>3, <1>4, <1>5, <1>6, <1>7 DEF IInv

(* Every step of the parser, the chain, the queue and the reader keeps the *)
(* invariant.                                                              *)
LEMMA InvNext == IInv /\ [Next]_vars => IInv'
<1>. SUFFICES ASSUME IInv, [Next]_vars PROVE IInv'
  OBVIOUS
<1>1. TypeOK /\ ChainInv /\ GateInv /\ StateInv /\ DeliveryInv /\ FailureInv
  BY DEF IInv
<1>2. TypeOK'
  BY <1>1, TypesNext
<1>3. CASE Parser
  <2>1. StateInv'
    BY <1>1, <1>3 DEF StateInv, Parser, ParsePart, ParserAborts, ParserFinishes, queueVars
  <2>2. FailureInv'
    <3>1. UNCHANGED <<promise, reader, thrown>>
      BY <1>3 DEF Parser, ParsePart, ParserAborts, ParserFinishes, queueVars
    <3>. QED
      BY <1>1, <1>3, <3>1, ParserChains, FailureStays
  <2>. QED
    BY <1>1, <1>2, <1>3, <2>1, <2>2, ParserChains, GateParser, DeliveryChain DEF IInv
<1>4. CASE ChainStep
  <2>1. StateInv'
    BY <1>1, <1>4 DEF StateInv, ChainStep
  <2>. QED
    BY <1>1, <1>2, <1>4, <2>1, ChainGoesOn, GateChain, DeliveryChain, FailureChain DEF IInv
<1>5. CASE CallResumes
  <2>1. ChainInv'
    <3>1. pushing' \in {pushing, None}
      BY <1>5 DEF CallResumes
    <3>. QED
      BY <1>1, <1>5, <3>1, ChainKeeps DEF CallResumes
  <2>. QED
    BY <1>1, <1>2, <1>5, <2>1, GateResumes, StateResumes, DeliveryResumes, FailureResumes DEF IInv
<1>6. CASE Read
  <2>1. ChainInv'
    BY <1>1, <1>6, ChainKeeps DEF Read, chainVars
  <2>. QED
    BY <1>1, <1>2, <1>6, <2>1, GateRead, StateRead, DeliveryRead, FailureRead DEF IInv
<1>7. CASE \/ \E v \in File : FileSettles(v)
           \/ CallCleanup \/ CleanupReturns
           \/ UNCHANGED vars
  <2>1. UNCHANGED <<at, reason, value, transit, gate, waiting, ready, reader, received, thrown,
                    parser, parsed, chain, pushing>>
    BY <1>7 DEF FileSettles, CallCleanup, CleanupReturns, vars, queueVars, chainVars
  <2>2. ChainInv' /\ Begun' = Begun
    BY <1>1, <2>1, ChainKeeps
  <2>3. GateInv'
    BY <1>1, <2>1 DEF GateInv, FinishCalled
  <2>4. StateInv'
    BY <1>1, <2>1 DEF StateInv
  <2>5. DeliveryInv'
    BY <1>1, <2>1, <2>2 DEF DeliveryInv, ReturnedPushes
  <2>6. FailureInv'
    <3>1. CASE \E v \in File : FileSettles(v)
      BY <1>1, <3>1, FailureSettles
    <3>2. CASE UNCHANGED promise
      BY <1>1, <2>1, <2>2, <3>2, FailureStays
    <3>. QED
      BY <1>7, <3>1, <3>2 DEF CallCleanup, CleanupReturns, vars, queueVars
  <2>. QED
    BY <1>2, <2>2, <2>3, <2>4, <2>5, <2>6 DEF IInv
<1>. QED
  BY <1>3, <1>4, <1>5, <1>6, <1>7 DEF Next

(* The inductive invariant holds, however many parts the body has, however *)
(* often the parser aborts, and whichever files cannot be stored.          *)
THEOREM Invariance == Spec => []IInv
<1>. QED
  BY InitEstablishes, InvNext, PTL DEF Spec

(* The chain, the queue and the reader stay in their types (multipart.ts,  *)
(* queue.ts).                                                              *)
THEOREM TypeCorrect == Spec => []TypeOK
<1>1. IInv => TypeOK
  BY DEF IInv
<1>. QED
  BY <1>1, Invariance, PTL

(* push() and finish() never meet a state they hold impossible, and next() *)
(* meets one (async-iterable-queue.ts:163) only when a file could not be   *)
(* stored.                                                                 *)
THEOREM AssertionsAreMet == Spec => []AssertionsHold
<1>1. IInv => AssertionsHold
  BY DEF IInv, DeliveryInv, StateInv, FailureInv, AssertionsHold
<1>. QED
  BY <1>1, Invariance, PTL

-----------------------------------------------------------------------------
(* The refinement of EntryStream.                                          *)

(* When as much has been received as parsed, it is the same.               *)
LEMMA ReceivedInOrder ==
  ASSUME IInv, Len(received) = Len(parsed)
  PROVE  received = parsed
BY DEF IInv, TypeOK, QueueTypeOK, ChainInv, DeliveryInv

(* A value that is delivered is the part that comes next.                  *)
LEMMA Delivers ==
  ASSUME IInv, reader \notin Ended, at # "closed", gate = "shut"
  PROVE  /\ Len(received) < Len(parsed)
         /\ value # None => value = parsed[Len(received) + 1]
         /\ transit # None => transit = parsed[Len(received) + 1]
<1>1. ReturnedPushes = Len(received) + 1
      /\ (value # None => value = ReturnedPushes) /\ (transit # None => transit = ReturnedPushes)
  BY DEF IInv, DeliveryInv
<1>2. Begun \in Nat /\ Begun <= Len(parsed) /\ Len(received) \in Nat /\ Len(parsed) \in Nat
  BY ChainFacts DEF IInv
<1>3. ReturnedPushes <= Len(parsed)
  BY <1>2 DEF ReturnedPushes
<1>4. parsed[Len(received) + 1] = Len(received) + 1
  BY <1>1, <1>2, <1>3 DEF IInv, ChainInv
<1>. QED
  BY <1>1, <1>2, <1>3, <1>4

(* A step of the parser is a step of the stream, or none.                  *)
LEMMA StreamParses ==
  ASSUME IInv, Parser
  PROVE  [Stream!Next]_(Stream!vars)
<1>1. UNCHANGED <<received, reader>> /\ parser = "open"
  BY DEF Parser, ParsePart, ParserAborts, ParserFinishes, queueVars
<1>2. ASSUME NEW v \in Value, ParsePart(v) PROVE Stream!Parse(v)
  BY <1>1, <1>2 DEF ParsePart, Stream!Parse
<1>3. CASE ParserAborts
  <2>1. UNCHANGED parsed /\ parser' # "finished"
    BY <1>3 DEF ParserAborts
  <2>. QED
    BY <1>1, <2>1 DEF Stream!vars
<1>4. CASE ParserFinishes
  <2>1. Stream!Complete
    BY <1>1, <1>4 DEF ParserFinishes, Stream!Complete
  <2>. QED
    BY <2>1 DEF Stream!Next
<1>. QED
  BY <1>2, <1>3, <1>4 DEF Parser, Stream!Next

(* finish() and abort() may end the reading.                               *)
LEMMA StreamResumes ==
  ASSUME IInv, CallResumes
  PROVE  [Stream!Next]_(Stream!vars)
<1>1. UNCHANGED <<parsed, parser, received>> /\ ready \in Seq(Call) /\ ready # <<>>
  BY DEF CallResumes, IInv, TypeOK, QueueTypeOK
<1>2. CASE reader' = reader
  BY <1>1, <1>2 DEF Stream!vars
<1>3. CASE reader' # reader
  <2>1. Head(ready).op # "push" /\ CloseResumes(Head(ready).op) /\ UNCHANGED pushing
    BY <1>3 DEF CallResumes
  <2>2. reader = "pending" /\ at = "awaitingPush"
        /\ reader' = IF Head(ready).op = "abort" THEN "failed" ELSE "done"
    BY <1>3, <2>1 DEF CloseResumes
  <2>3. CASE Head(ready).op = "abort"
    BY <1>1, <2>2, <2>3 DEF Stream!Next, Stream!End, Ended
  <2>4. CASE Head(ready).op # "abort"
    <3>1. FinishCalled /\ gate # "shut"
      <4>1. Head(ready).op = "finish"
        <5>1. Head(ready) \in Call
          BY <1>1
        <5>. QED
          BY <2>1, <2>4, <5>1 DEF Call
      <4>. QED
        BY <1>1, <2>4, <4>1, FirstResumes DEF IInv, GateInv
    <3>2. Begun = Len(parsed) /\ Len(parsed) \in Nat
      BY <3>1, ChainFacts DEF FinishCalled, IInv
    <3>3. Len(received) = Len(parsed)
      BY <2>2, <3>1, <3>2 DEF IInv, DeliveryInv, ReturnedPushes, FinishCalled, Ended
    <3>4. received = parsed /\ parser = "finished"
      BY <3>1, <3>3, ReceivedInOrder DEF FinishCalled
    <3>. QED
      BY <1>1, <2>2, <2>4, <3>4 DEF Stream!Next, Stream!End, Ended
  <2>. QED
    BY <2>3, <2>4
<1>. QED
  BY <1>2, <1>3

(* A step of the reader is a step of the stream, or none.                  *)
LEMMA StreamReads ==
  ASSUME IInv, Read
  PROVE  [Stream!Next]_(Stream!vars)
<1>1. UNCHANGED <<parsed, parser>>
  BY DEF Read, chainVars
<1>2. TypeOK /\ StateInv /\ GateInv /\ DeliveryInv
  BY DEF IInv
<1>3. ASSUME reader' = reader \/ (reader' \notin Ended /\ reader \notin Ended), received' = received
      PROVE  UNCHANGED Stream!vars
  BY <1>1, <1>3 DEF Stream!vars
<1>4. ASSUME reader \notin Ended, reader' \in {"failed", "left"}, received' = received
      PROVE  Stream!Next
  BY <1>1, <1>4 DEF Stream!Next, Stream!End, Ended
<1>5. ASSUME reader \notin Ended, reader' \notin Ended, at # "closed", gate = "shut", NEW v,
             v # None, v = value \/ v = transit, received' = Append(received, v)
      PROVE  Stream!Receive
  <2>1. Len(received) < Len(parsed) /\ v = parsed[Len(received) + 1]
    BY <1>5, Delivers
  <2>. QED
    BY <1>1, <1>5, <2>1 DEF Stream!Receive
<1>6. CASE NextEntry
  <2>1. received' = received /\ reader = "busy"
    BY <1>6 DEF NextEntry
  <2>2. CASE reader' = "done"
    <3>1. at = "closed" /\ ~reason
      BY <1>6, <2>2 DEF NextEntry
    <3>2. parser = "finished" /\ received = parsed
      BY <1>2, <2>1, <3>1, ReceivedInOrder DEF DeliveryInv
    <3>. QED
      BY <1>1, <2>1, <2>2, <3>2 DEF Stream!Next, Stream!End, Ended
  <2>3. CASE reader' = "failed"
    BY <1>4, <2>1, <2>3 DEF Ended
  <2>4. CASE reader' \in {"pending", "pulling"}
    BY <1>3, <2>1, <2>4 DEF Ended
  <2>. QED
    BY <1>6, <2>2, <2>3, <2>4 DEF NextEntry
<1>7. CASE Pulled
  <2>1. reader = "pulling" /\ at = "awaitingPull" /\ value # None /\ gate = "shut"
    BY <1>2, <1>7 DEF Pulled, StateInv, GateInv
  <2>2. CASE received' = Append(received, value) /\ reader' = "busy"
    <3>1. Stream!Receive
      BY <1>5, <2>1, <2>2 DEF Ended
    <3>. QED
      BY <3>1 DEF Stream!Next
  <2>3. CASE received' = received /\ reader' = "failed"
    BY <1>4, <2>1, <2>3 DEF Ended
  <2>. QED
    BY <1>7, <2>2, <2>3 DEF Pulled
<1>8. CASE TransitSettles
  <2>1. transit # None /\ gate = "shut"
    BY <1>2, <1>8 DEF TransitSettles, GateInv
  <2>2. CASE reader = "pending"
    <3>1. at = "awaitingPush"
      BY <1>2, <2>2 DEF StateInv
    <3>2. CASE promise[transit] = "ok"
      <4>1. received' = Append(received, transit) /\ reader' = "busy"
        BY <1>8, <2>2, <3>2 DEF TransitSettles
      <4>2. Stream!Receive
        BY <1>5, <2>1, <2>2, <3>1, <4>1 DEF Ended
      <4>. QED
        BY <4>2 DEF Stream!Next
    <3>3. CASE promise[transit] # "ok"
      BY <1>4, <1>8, <2>2, <3>3 DEF TransitSettles, Ended
    <3>. QED
      BY <3>2, <3>3
  <2>3. CASE reader # "pending"
    BY <1>3, <1>8, <2>3 DEF TransitSettles
  <2>. QED
    BY <2>2, <2>3
<1>9. CASE GateOpens
  BY <1>3, <1>9 DEF GateOpens
<1>10. CASE Return
  <2>1. reader = "busy" /\ reader' \in {"leaving", "left"} /\ received' = received
    BY <1>10 DEF Return
  <2>. QED
    BY <1>3, <1>4, <2>1 DEF Ended
<1>11. CASE Returned
  BY <1>4, <1>11 DEF Returned, Ended
<1>. QED
  BY <1>6, <1>7, <1>8, <1>9, <1>10, <1>11 DEF Read, ReaderStep

(* Every step is a step of the stream, or none.                            *)
LEMMA StreamNext == IInv /\ [Next]_vars => [Stream!Next]_(Stream!vars)
<1>. SUFFICES ASSUME IInv, [Next]_vars PROVE [Stream!Next]_(Stream!vars)
  OBVIOUS
<1>1. CASE Parser
  BY <1>1, StreamParses
<1>2. CASE CallResumes
  BY <1>2, StreamResumes
<1>3. CASE Read
  BY <1>3, StreamReads
<1>4. CASE \/ ChainStep \/ CallCleanup \/ CleanupReturns
           \/ \E v \in File : FileSettles(v)
           \/ UNCHANGED vars
  BY <1>4 DEF ChainStep, CallCleanup, CleanupReturns, FileSettles, vars, queueVars, chainVars, Stream!vars
<1>. QED
  BY <1>1, <1>2, <1>3, <1>4 DEF Next

(* Refinement: the reader sees the parts in their order, each once and none*)
(* left out, and is told that the body is over only when it was complete   *)
(* and all of its parts were read.                                         *)
THEOREM StreamIsKept == Spec => KeepsStream
<1>1. Init => Stream!Init
  BY DEF Init, QueueInit, Stream!Init, Ended
<1>. QED
  BY <1>1, StreamNext, Invariance, PTL DEF Spec, KeepsStream, Stream!Spec

-----------------------------------------------------------------------------
(* The storages of files.                                                  *)

(* A file is late only once clean() has begun.                             *)
OnTime == cleaning = "no" => late = {}

(* The buffer has had a step of its growth, or has all it may have.        *)
Roomy(b) == b.capacity = SizeLimit \/ (b.capacity >= 32 /\ b.last >= 16)

(* In memory: chunks of sixteen bytes or less have all found room.         *)
MemoryInv ==
  \A f \in StoredFile :
    /\ longest[f] <= 16 => missing[f] = 0
    /\ Roomy(buffer[f])
    /\ longest[f] <= 16 => buffer[f].size <= buffer[f].capacity

(* On disk: which handle and which file there is while f is being saved,   *)
(* and that they are an entry when it has been.                            *)
StepIsRight(f) ==
  /\ step[f] # "none" => file[f] = "saving"
  /\ step[f] \in {"tempDir", "open"} => f \notin handles \cup onDisk
  /\ step[f] \in {"write", "close"} => f \in handles \cap onDisk
  /\ step[f] = "rm" => f \notin handles
  /\ step[f] = "none" /\ f \in handles \cup onDisk => f \in fileEntries \cup stuck
  /\ f \in fileEntries => file[f] = "saved"
  /\ f \in stuck => file[f] \in {"saved", "rejected"}

(* Until clean() begins, what was saved is open, on disk and an entry.     *)
BeforeClean ==
  cleaning = "no" =>
    /\ toClean = {} /\ sweep = "no" /\ tempDir # "removed"
    /\ \A f \in StoredFile : file[f] = "saved" => f \in handles \cap onDisk \cap fileEntries

(* Afterwards, what is left of a file that was not late is to be cleaned,  *)
(* or could not be closed or removed.                                      *)
OnTimeSettled(f) ==
  cleaning # "no" /\ f \notin late =>
    /\ step[f] = "none" /\ file[f] \in {"saved", "rejected"}
    /\ f \in handles => f \in toClean \cup stuck
    /\ removeFilesOnClean /\ f \in onDisk => f \in toClean \cup stuck

(* clean() comes to the directory when all entries are done with, and has  *)
(* a reason to reject.                                                     *)
SweepIsRight ==
  /\ sweep \in {"entries", "tempDir"} => cleaning = "pending"
  /\ sweep \in {"tempDir", "failed"} => removeFilesOnClean /\ toClean = {}
  /\ cleaning = "fulfilled" => toClean = {} /\ (removeFilesOnClean => onDisk = {} /\ tempDir = "removed")
  /\ cleaning = "rejected" =>
       late # {} \/ stuck # {} \/ tempDir = "failed" \/ sweep = "failed"

DiskInv ==
  /\ BeforeClean /\ SweepIsRight
  /\ \A f \in StoredFile : StepIsRight(f) /\ OnTimeSettled(f)

(* At S3: the tags are those of the parts in order, but of the one that is *)
(* under way, and an upload has somebody who will end it.                  *)
UpTo(n) == [k \in 1 .. n |-> k]

RequestIsRight(f) ==
  /\ file[f] = "none" =>
       request[f] = "none" /\ partNumber[f] = 1 /\ eTags[f] = <<>> /\ f \notin uploads
  /\ request[f] = "put" => file[f] = "saving" /\ partNumber[f] = 1 /\ f \notin uploads
  /\ request[f] = "create" => f \notin uploads /\ (file[f] = "saving" \/ f \in aborting)
  /\ request[f] \in {"create", "ready", "complete"} => eTags[f] = UpTo(partNumber[f] - 1)
  /\ request[f] = "part" => partNumber[f] > 1 /\ eTags[f] = UpTo(partNumber[f] - 2)
  /\ file[f] = "saved" =>
       request[f] = "none" /\ (partNumber[f] > 1 => object[f] = UpTo(partNumber[f] - 1))
  /\ f \in uploads => file[f] = "saving" \/ f \in aborting \cup abandoned \cup late

S3Inv == \A f \in StoredFile : RequestIsRight(f)

(* The promises, which all storages have in common.                        *)
PromisesInv == StorageTypeOK /\ OnTime

(* saveMultipartFile() is called for one file more.                        *)
LEMMA AdmitKeeps ==
  ASSUME PromisesInv, NEW f \in StoredFile, Admit(f)
  PROVE  /\ PromisesInv' /\ cleaning' = cleaning
         /\ file[f] = "none" /\ file'[f] \in {"saving", "rejected"}
         /\ \A g \in StoredFile : g # f => file'[g] = file[g]
         /\ late' = IF cleaning = "no" THEN late ELSE late \cup {f}
<1>1. file \in [StoredFile -> {"none", "saving", "saved", "rejected"}]
  BY DEF PromisesInv, StorageTypeOK
<1>2. PICK s \in {"saving", "rejected"} : file' = [file EXCEPT ![f] = s]
  BY DEF Admit
<1>3. /\ file'[f] = s /\ \A g \in StoredFile : g # f => file'[g] = file[g]
      /\ file' \in [StoredFile -> {"none", "saving", "saved", "rejected"}]
  BY <1>1, <1>2
<1>4. StorageTypeOK'
  BY <1>3 DEF PromisesInv, StorageTypeOK, Admit
<1>5. OnTime'
  BY <1>3 DEF PromisesInv, OnTime, Admit
<1> QED BY <1>3, <1>4, <1>5 DEF PromisesInv, Admit

(* The promise of a file settles.                                          *)
LEMMA SettleKeeps ==
  ASSUME PromisesInv, NEW f \in StoredFile, NEW s \in {"saved", "rejected"}, Settle(f, s),
         UNCHANGED failures \/ Fails
  PROVE  /\ PromisesInv' /\ cleaning' = cleaning /\ late' = late
         /\ file[f] = "saving" /\ file'[f] = s
         /\ \A g \in StoredFile : g # f => file'[g] = file[g]
<1>1. file \in [StoredFile -> {"none", "saving", "saved", "rejected"}]
  BY DEF PromisesInv, StorageTypeOK
<1>2. file' = [file EXCEPT ![f] = s]
  BY DEF Settle
<1>3. /\ file'[f] = s /\ \A g \in StoredFile : g # f => file'[g] = file[g]
      /\ file' \in [StoredFile -> {"none", "saving", "saved", "rejected"}]
  BY <1>1, <1>2
<1>4. StorageTypeOK'
  <2>1. failures' \in Nat
    BY DEF PromisesInv, StorageTypeOK, Fails
  <2> QED BY <1>3, <2>1 DEF PromisesInv, StorageTypeOK, Settle
<1>5. OnTime'
  BY <1>3 DEF PromisesInv, OnTime, Settle
<1> QED BY <1>3, <1>4, <1>5 DEF PromisesInv, Settle

(* clean() begins.                                                         *)
LEMMA CleanKeeps ==
  ASSUME PromisesInv, NEW s \in {"pending", "fulfilled"}, NEW U \in SUBSET StoredFile,
         CleanBegins(s, U)
  PROVE  /\ PromisesInv' /\ cleaning = "no" /\ late = {} /\ cleaning' = s /\ late' = U
         /\ file' = file /\ failures' = failures
BY DEF PromisesInv, StorageTypeOK, OnTime, CleanBegins

(* What touches no promise keeps them.                                     *)
LEMMA PromisesStay ==
  ASSUME PromisesInv, UNCHANGED <<file, fileCount, late>>, UNCHANGED failures \/ Fails,
         cleaning' = cleaning \/ (cleaning' \in {"fulfilled", "rejected"} /\ cleaning # "no")
  PROVE  PromisesInv'
<1>1. failures' \in Nat
  BY DEF PromisesInv, StorageTypeOK, Fails
<1> QED BY <1>1 DEF PromisesInv, StorageTypeOK, OnTime

-----------------------------------------------------------------------------
(* In memory.                                                              *)

(* saveMultipartFile() takes a buffer of its own.                          *)
LEMMA MemorySaveKeeps ==
  ASSUME PromisesInv, MemoryTypeOK, MemoryInv, NEW f \in StoredFile, MemorySave(f)
  PROVE  PromisesInv' /\ MemoryTypeOK' /\ MemoryInv'
<1>1. PromisesInv'
  BY AdmitKeeps DEF MemorySave
<1> QED BY <1>1 DEF MemorySave, memoryVars, MemoryTypeOK, MemoryInv, Roomy

(* A new buffer has two steps, or all it may have.                         *)
LEMMA NewIsRoomy == NewBuffer \in Buffer /\ Roomy(NewBuffer) /\ NewBuffer.size <= NewBuffer.capacity
<1>1. Least(SizeLimit, 32) \in 0 .. SizeLimit
      /\ (Least(SizeLimit, 32) = SizeLimit \/ Least(SizeLimit, 32) = 32)
  BY MemoryAssumption DEF Least
<1> QED BY <1>1, MemoryAssumption DEF NewBuffer, Buffer, Roomy

(* A chunk of sixteen bytes or less fits after one step of the growth.     *)
LEMMA GrowFits ==
  ASSUME NEW b \in Buffer, Roomy(b), NEW n \in Nat \ {0}, b.size + n <= SizeLimit
  PROVE  /\ Grown(b, n) \in Buffer /\ Roomy(Grown(b, n)) /\ Grown(b, n).size = b.size
         /\ n <= 16 /\ b.size <= b.capacity => b.size + n <= Grown(b, n).capacity
<1>1. b.size \in Nat /\ b.capacity \in Nat /\ b.capacity <= SizeLimit /\ b.last \in Nat
      /\ SizeLimit \in Nat
  BY MemoryAssumption DEF Buffer
<1>2. CASE b.size + n > b.capacity
  <2>1. PICK c \in 0 .. SizeLimit :
           /\ c = Least(SizeLimit, b.capacity + b.last)
           /\ c = SizeLimit \/ c = b.capacity + b.last
    BY <1>1 DEF Least
  <2>2. Grown(b, n) = [capacity |-> c, last |-> b.capacity, size |-> b.size]
    BY <1>2, <2>1 DEF Grown
  <2>3. /\ Grown(b, n) \in Buffer /\ Grown(b, n).capacity = c /\ Grown(b, n).last = b.capacity
        /\ Grown(b, n).size = b.size
    BY <1>1, <2>1, <2>2 DEF Buffer
  <2>4. b.capacity >= 32 /\ b.last >= 16
    BY <1>1, <1>2 DEF Roomy
  <2>5. c = SizeLimit \/ (c >= 32 /\ b.capacity >= 16)
    BY <1>1, <2>1, <2>4
  <2>6. n <= 16 /\ b.size <= b.capacity => b.size + n <= c
    BY <1>1, <2>1, <2>4
  <2>. HIDE DEF Buffer
  <2> QED BY <2>3, <2>5, <2>6 DEF Roomy
<1>3. CASE ~(b.size + n > b.capacity)
  <2>1. Grown(b, n) = b
    BY <1>3 DEF Grown
  <2> QED BY <1>1, <1>3, <2>1
<1> QED BY <1>2, <1>3

(* What is cut off of a chunk is a number, and nothing of one that fits.   *)
LEMMA CutOffFacts ==
  ASSUME NEW b \in Buffer, NEW n \in Nat \ {0}
  PROVE  CutOff(b, n) \in Nat /\ (b.size + n <= b.capacity => CutOff(b, n) = 0)
<1>1. b.size \in Nat /\ b.capacity \in Nat
  BY MemoryAssumption DEF Buffer
<1>2. PICK room \in Nat :
         /\ room = (IF b.capacity > b.size THEN b.capacity - b.size ELSE 0)
         /\ b.size + n <= b.capacity => room >= n
  <2>1. CASE b.capacity > b.size
    <3>1. b.capacity - b.size \in Nat /\ (b.size + n <= b.capacity => b.capacity - b.size >= n)
      BY <1>1, <2>1
    <3> QED BY <2>1, <3>1
  <2>2. CASE ~(b.capacity > b.size)
    BY <1>1, <2>2
  <2> QED BY <2>1, <2>2
<1>3. CutOff(b, n) = n - Least(n, room)
  BY <1>2 DEF CutOff
<1>4. Least(n, room) \in Nat /\ Least(n, room) <= n /\ (room >= n => Least(n, room) = n)
  BY <1>2 DEF Least
<1> QED BY <1>2, <1>3, <1>4

(* A chunk is copied as far as it fits.                                    *)
LEMMA ChunkKeeps ==
  ASSUME PromisesInv, MemoryTypeOK, MemoryInv, NEW f \in StoredFile, NEW n \in ChunkLengths,
         Chunk(f, n)
  PROVE  PromisesInv' /\ MemoryTypeOK' /\ MemoryInv'
<1>0. n \in Nat \ {0} /\ SizeLimit \in Nat
  BY MemoryAssumption
<1>1. longest' \in [StoredFile -> Nat] /\ longest'[f] >= n /\ longest'[f] >= longest[f]
      /\ \A g \in StoredFile : g # f => longest'[g] = longest[g]
  <2>1. longest \in [StoredFile -> Nat]
    BY DEF MemoryTypeOK
  <2>2. longest' = [longest EXCEPT ![f] = IF n > longest[f] THEN n ELSE longest[f]]
    BY DEF Chunk
  <2>3. PICK m \in Nat : m = (IF n > longest[f] THEN n ELSE longest[f])
    BY <1>0, <2>1
  <2>4. longest' = [longest EXCEPT ![f] = m]
    BY <2>2, <2>3
  <2>5. longest' \in [StoredFile -> Nat] /\ longest'[f] = m
        /\ \A g \in StoredFile : g # f => longest'[g] = longest[g]
    BY <2>1, <2>4
  <2>6. m >= n /\ m >= longest[f]
    BY <1>0, <2>1, <2>3
  <2> QED BY <2>5, <2>6
<1>2. \A g \in StoredFile : longest'[g] <= 16 => longest[g] <= 16
  <2>1. \A g \in StoredFile : longest'[g] \in Nat /\ longest[g] \in Nat /\ longest'[g] >= longest[g]
    BY <1>1 DEF MemoryTypeOK
  <2> QED BY <2>1
<1>3. CASE buffer[f].size + n > SizeLimit
  <2>1. Settle(f, "rejected") /\ UNCHANGED <<failures, buffer, missing>>
    BY <1>3 DEF Chunk
  <2>2. PromisesInv'
    BY <2>1, SettleKeeps
  <2>3. MemoryTypeOK'
    BY <1>1, <2>1 DEF MemoryTypeOK
  <2>4. MemoryInv'
    BY <1>2, <2>1 DEF MemoryInv
  <2> QED BY <2>2, <2>3, <2>4
<1>4. CASE ~(buffer[f].size + n > SizeLimit)
  <2>1. PICK b \in Buffer : b = Grown(buffer[f], n) /\ b.size = buffer[f].size /\ Roomy(b)
           /\ (n <= 16 /\ buffer[f].size <= buffer[f].capacity => b.size + n <= b.capacity)
    <3>1. buffer[f] \in Buffer /\ Roomy(buffer[f])
      BY DEF MemoryTypeOK, MemoryInv
    <3>2. buffer[f].size \in Nat
      BY <3>1, MemoryAssumption DEF Buffer
    <3>3. buffer[f].size + n <= SizeLimit
      BY <1>0, <1>4, <3>2
    <3> QED BY <1>0, <3>1, <3>3, GrowFits
  <2>2. /\ buffer' = [buffer EXCEPT ![f] = [b EXCEPT !.size = @ + n]]
        /\ missing' = [missing EXCEPT ![f] = @ + CutOff(b, n)]
        /\ UNCHANGED storageVars
    BY <1>4, <2>1 DEF Chunk
  <2>3. PromisesInv'
    BY <2>2, PromisesStay DEF storageVars
  <2>4. b.size + n \in 0 .. SizeLimit /\ b.size \in Nat /\ b.capacity \in Nat
    <3>1. b.size \in Nat /\ b.capacity \in Nat
      BY MemoryAssumption DEF Buffer
    <3> QED BY <1>0, <1>4, <2>1, <3>1
  <2>5. PICK c \in Buffer :
           /\ c = [b EXCEPT !.size = @ + n]
           /\ c.size = b.size + n /\ c.capacity = b.capacity /\ c.last = b.last
    <3>1. [b EXCEPT !.size = @ + n] \in Buffer
      BY <2>4 DEF Buffer
    <3>2. /\ [b EXCEPT !.size = @ + n].size = b.size + n
          /\ [b EXCEPT !.size = @ + n].capacity = b.capacity
          /\ [b EXCEPT !.size = @ + n].last = b.last
      BY <2>4 DEF Buffer
    <3> QED BY <3>1, <3>2, Zenon
  <2>6. /\ buffer' \in [StoredFile -> Buffer] /\ buffer'[f] = c
        /\ \A g \in StoredFile : g # f => buffer'[g] = buffer[g]
    <3>1. buffer \in [StoredFile -> Buffer] /\ buffer' = [buffer EXCEPT ![f] = c]
      BY <2>2, <2>5 DEF MemoryTypeOK
    <3> QED BY <3>1
  <2>7. CutOff(b, n) \in Nat /\ (b.size + n <= b.capacity => CutOff(b, n) = 0)
    BY <1>0, CutOffFacts
  <2>8. /\ missing' \in [StoredFile -> Nat] /\ missing'[f] = missing[f] + CutOff(b, n)
        /\ \A g \in StoredFile : g # f => missing'[g] = missing[g]
    <3>1. missing \in [StoredFile -> Nat]
      BY DEF MemoryTypeOK
    <3>2. missing' = [missing EXCEPT ![f] = missing[f] + CutOff(b, n)]
          /\ missing[f] + CutOff(b, n) \in Nat
      BY <2>2, <2>7, <3>1
    <3> QED BY <3>1, <3>2
  <2>9. longest'[f] <= 16 => n <= 16 /\ longest[f] <= 16
    <3>1. longest'[f] \in Nat
      BY <1>1
    <3> QED BY <1>0, <1>1, <1>2, <3>1
  <2>10. longest'[f] <= 16 => b.size + n <= b.capacity
    BY <2>1, <2>9 DEF MemoryInv
  <2>11. longest'[f] <= 16 => missing'[f] = 0
    <3>1. longest'[f] <= 16 => missing[f] = 0
      BY <1>2 DEF MemoryInv
    <3> QED BY <2>7, <2>8, <2>10, <3>1
  <2>12. Roomy(c)
    BY <2>1, <2>5 DEF Roomy
  <2>13. MemoryInv'
    <3>1. SUFFICES ASSUME NEW g \in StoredFile
                   PROVE  /\ longest'[g] <= 16 => missing'[g] = 0
                          /\ Roomy(buffer'[g])
                          /\ longest'[g] <= 16 => buffer'[g].size <= buffer'[g].capacity
      BY DEF MemoryInv, Roomy
    <3>2. CASE g = f
      BY <2>5, <2>6, <2>10, <2>11, <2>12, <3>2
    <3>3. CASE g # f
      BY <1>1, <2>6, <2>8, <3>3 DEF MemoryInv
    <3> QED BY <3>2, <3>3
  <2>14. MemoryTypeOK'
    BY <1>1, <2>6, <2>8 DEF MemoryTypeOK
  <2> QED BY <2>3, <2>13, <2>14
<1> QED BY <1>3, <1>4

(* Every step of the storage in memory keeps its invariant.                *)
LEMMA MemoryKeeps ==
  ASSUME PromisesInv, MemoryTypeOK, MemoryInv, MemoryStep
  PROVE  PromisesInv' /\ MemoryTypeOK' /\ MemoryInv'
<1>1. ASSUME NEW f \in StoredFile, MemorySettles(f)
      PROVE  PromisesInv' /\ MemoryTypeOK' /\ MemoryInv'
  <2>1. PICK s \in {"saved", "rejected"} : Settle(f, s) /\ (UNCHANGED failures \/ Fails)
    BY <1>1 DEF MemorySettles
  <2>2. PromisesInv'
    BY <2>1, SettleKeeps
  <2> QED BY <1>1, <2>2 DEF MemorySettles, memoryVars, MemoryTypeOK, MemoryInv, Roomy
<1>2. ASSUME MemoryClean
      PROVE  PromisesInv' /\ MemoryTypeOK' /\ MemoryInv'
  <2>1. PromisesInv'
    BY <1>2, CleanKeeps DEF MemoryClean
  <2> QED BY <1>2, <2>1 DEF MemoryClean, memoryVars, MemoryTypeOK, MemoryInv, Roomy
<1> QED BY <1>1, <1>2, MemorySaveKeeps, ChunkKeeps DEF MemoryStep

-----------------------------------------------------------------------------
(* On disk.                                                                *)
DiskSteps == {"none", "tempDir", "open", "write", "close", "rm"}

DiskKept == PromisesInv' /\ DiskTypeOK' /\ DiskInv'

(* What is said of a file depends on what touches that file.               *)
LEMMA OthersStay ==
  ASSUME DiskTypeOK, DiskInv, DiskTypeOK', NEW g \in StoredFile,
         cleaning' = "no" <=> cleaning = "no", removeFilesOnClean' = removeFilesOnClean,
         file'[g] = file[g], step'[g] = step[g], g \in late' <=> g \in late,
         g \in handles' <=> g \in handles, g \in onDisk' <=> g \in onDisk,
         g \in fileEntries' <=> g \in fileEntries, g \in toClean' <=> g \in toClean,
         g \in stuck' <=> g \in stuck
  PROVE  /\ StepIsRight(g)' /\ OnTimeSettled(g)'
         /\ cleaning' = "no" /\ file'[g] = "saved" => g \in handles' \cap onDisk' \cap fileEntries'
BY DEF DiskInv, StepIsRight, OnTimeSettled, BeforeClean

(* What is not about one file.                                             *)
LEMMA SweepStays ==
  ASSUME DiskTypeOK, DiskInv, cleaning' = cleaning, sweep' = sweep,
         removeFilesOnClean' = removeFilesOnClean, late \subseteq late', stuck \subseteq stuck',
         toClean' \subseteq toClean, onDisk' \subseteq onDisk \/ tempDir = "made",
         tempDir' = tempDir \/ (tempDir = "none" /\ tempDir' = "pending")
                   \/ (tempDir = "pending" /\ tempDir' \in {"made", "failed"})
  PROVE  SweepIsRight' /\ (cleaning' = "no" => toClean' = {} /\ sweep' = "no" /\ tempDir' # "removed")
BY DEF DiskTypeOK, DiskSteps, DiskInv, SweepIsRight, BeforeClean

(* The types of step.                                                      *)
LEMMA StepTypes ==
  ASSUME DiskTypeOK, NEW f \in StoredFile, NEW s \in DiskSteps,
         GoOn(f, s)
  PROVE  /\ step' \in [StoredFile -> DiskSteps]
         /\ step'[f] = s /\ \A g \in StoredFile : g # f => step'[g] = step[g]
BY DEF DiskTypeOK, DiskSteps, GoOn

(* A step about one file touches no other, whatever becomes of clean() ... *)
LEMMA OneEntry ==
  ASSUME DiskTypeOK, DiskInv, PromisesInv', DiskTypeOK', NEW f \in StoredFile,
         cleaning' = "no" <=> cleaning = "no", removeFilesOnClean' = removeFilesOnClean,
         late \subseteq late', late' \subseteq late \cup {f},
         \A g \in StoredFile : g # f =>
           /\ file'[g] = file[g] /\ step'[g] = step[g]
           /\ g \in handles' <=> g \in handles
           /\ g \in onDisk' <=> g \in onDisk
           /\ g \in fileEntries' <=> g \in fileEntries
           /\ g \in toClean' <=> g \in toClean
           /\ g \in stuck' <=> g \in stuck,
         SweepIsRight',
         cleaning' = "no" => toClean' = {} /\ sweep' = "no" /\ tempDir' # "removed",
         StepIsRight(f)', OnTimeSettled(f)',
         cleaning' = "no" /\ file'[f] = "saved" => f \in handles' \cap onDisk' \cap fileEntries'
  PROVE  DiskKept
<1>1. ASSUME NEW g \in StoredFile
      PROVE  /\ StepIsRight(g)' /\ OnTimeSettled(g)'
             /\ cleaning' = "no" /\ file'[g] = "saved" => g \in handles' \cap onDisk' \cap fileEntries'
  <2>1. CASE g = f
    BY <2>1
  <2>2. CASE g # f
    <3>1. g \in late' <=> g \in late
      BY <2>2
    <3> QED BY <2>2, <3>1, OthersStay
  <2> QED BY <2>1, <2>2
<1>2. BeforeClean'
  BY <1>1 DEF BeforeClean
<1> QED BY <1>1, <1>2 DEF DiskKept, DiskInv

(* ... and one of saveMultipartFile() leaves clean() as it is.             *)
LEMMA OneFile ==
  ASSUME DiskTypeOK, DiskInv, PromisesInv', DiskTypeOK', NEW f \in StoredFile,
         cleaning' = cleaning, sweep' = sweep, removeFilesOnClean' = removeFilesOnClean,
         late \subseteq late', late' \subseteq late \cup {f}, toClean' \subseteq toClean,
         stuck \subseteq stuck', onDisk' \subseteq onDisk \/ tempDir = "made",
         tempDir' = tempDir \/ (tempDir = "none" /\ tempDir' = "pending"),
         \A g \in StoredFile : g # f =>
           /\ file'[g] = file[g] /\ step'[g] = step[g]
           /\ g \in handles' <=> g \in handles
           /\ g \in onDisk' <=> g \in onDisk
           /\ g \in fileEntries' <=> g \in fileEntries
           /\ g \in toClean' <=> g \in toClean
           /\ g \in stuck' <=> g \in stuck,
         StepIsRight(f)', OnTimeSettled(f)',
         cleaning' = "no" /\ file'[f] = "saved" => f \in handles' \cap onDisk' \cap fileEntries'
  PROVE  DiskKept
<1>1. SweepIsRight' /\ (cleaning' = "no" => toClean' = {} /\ sweep' = "no" /\ tempDir' # "removed")
  BY SweepStays
<1> QED BY <1>1, OneEntry

(* A file is admitted, or is one too many.                                 *)
LEMMA DiskSaveKeeps ==
  ASSUME PromisesInv, DiskTypeOK, DiskInv, NEW f \in StoredFile, DiskSave(f)
  PROVE  DiskKept
<1>1. /\ StepIsRight(f) /\ OnTimeSettled(f)
      /\ (cleaning = "no" => toClean = {}) /\ toClean \subseteq fileEntries
      /\ (cleaning = "no" /\ file[f] = "saved" => f \in handles \cap onDisk \cap fileEntries)
  BY DEF DiskInv, DiskTypeOK, DiskSteps, BeforeClean
<1>2. /\ PromisesInv' /\ cleaning' = cleaning /\ file[f] = "none"
      /\ file'[f] \in {"saving", "rejected"}
      /\ \A g \in StoredFile : g # f => file'[g] = file[g]
      /\ late' = IF cleaning = "no" THEN late ELSE late \cup {f}
  BY AdmitKeeps DEF DiskSave
<1>3. /\ step' \in [StoredFile -> DiskSteps]
      /\ \A g \in StoredFile : g # f => step'[g] = step[g]
      /\ step'[f] \in {"none", "tempDir"} /\ (step'[f] # "none" => file'[f] = "saving")
  BY <1>1, <1>2 DEF DiskSave, DiskTypeOK, DiskSteps, StepIsRight
<1>4. /\ tempDir' = tempDir \/ (tempDir = "none" /\ tempDir' = "pending")
      /\ UNCHANGED <<removeFilesOnClean, handles, onDisk, fileEntries, toClean, stuck, sweep>>
  BY DEF DiskSave, EnsureTempDir
<1>5. DiskTypeOK'
  BY <1>3, <1>4 DEF DiskTypeOK, DiskSteps
<1>6. f \notin handles \cup onDisk \cup fileEntries \cup stuck /\ step[f] = "none"
  BY <1>1, <1>2 DEF StepIsRight
<1>7. StepIsRight(f)' /\ OnTimeSettled(f)'
  BY <1>1, <1>2, <1>3, <1>4, <1>6 DEF StepIsRight, OnTimeSettled
<1>8. late \subseteq late' /\ late' \subseteq late \cup {f}
  BY <1>2
<1> QED BY <1>2, <1>3, <1>4, <1>5, <1>7, <1>8, OneFile

(* The directory is there, or could not be made.                           *)
LEMMA TempDirThereKeeps ==
  ASSUME PromisesInv, DiskTypeOK, DiskInv, NEW f \in StoredFile, TempDirThere(f)
  PROVE  DiskKept
<1>1. /\ StepIsRight(f) /\ OnTimeSettled(f)
      /\ (cleaning = "no" => toClean = {}) /\ toClean \subseteq fileEntries
      /\ (cleaning = "no" /\ file[f] = "saved" => f \in handles \cap onDisk \cap fileEntries)
  BY DEF DiskInv, DiskTypeOK, DiskSteps, BeforeClean
<1>2. UNCHANGED <<removeFilesOnClean, tempDir, handles, onDisk, fileEntries, toClean, stuck, sweep>>
  BY DEF TempDirThere
<1>3. CASE tempDir = "failed"
  <2>1. Settle(f, "rejected") /\ GoOn(f, "none") /\ UNCHANGED failures
    BY <1>3 DEF TempDirThere
  <2>2. /\ PromisesInv' /\ cleaning' = cleaning /\ late' = late /\ file'[f] = "rejected"
        /\ file[f] = "saving"
        /\ \A g \in StoredFile : g # f => file'[g] = file[g]
    BY <2>1, SettleKeeps
  <2>3. /\ step' \in [StoredFile -> DiskSteps]
        /\ step'[f] = "none" /\ \A g \in StoredFile : g # f => step'[g] = step[g]
    BY <2>1, StepTypes DEF DiskSteps
  <2>4. DiskTypeOK'
    BY <1>2, <2>3 DEF DiskTypeOK, DiskSteps
  <2>5. step[f] = "tempDir"
    BY DEF TempDirThere
  <2>6. StepIsRight(f)' /\ OnTimeSettled(f)'
    BY <1>1, <1>2, <2>2, <2>3, <2>5 DEF StepIsRight, OnTimeSettled
  <2> QED BY <1>2, <2>2, <2>3, <2>4, <2>6, OneFile
<1>4. CASE tempDir # "failed"
  <2>1. GoOn(f, "open") /\ UNCHANGED storageVars
    BY <1>4 DEF TempDirThere
  <2>2. PromisesInv' /\ cleaning' = cleaning /\ late' = late /\ file' = file
    BY <2>1, PromisesStay DEF storageVars
  <2>3. /\ step' \in [StoredFile -> DiskSteps]
        /\ step'[f] = "open" /\ \A g \in StoredFile : g # f => step'[g] = step[g]
    BY <2>1, StepTypes DEF DiskSteps
  <2>4. DiskTypeOK'
    BY <1>2, <2>3 DEF DiskTypeOK, DiskSteps
  <2>5. step[f] = "tempDir"
    BY DEF TempDirThere
  <2>6. StepIsRight(f)' /\ OnTimeSettled(f)'
    BY <1>1, <1>2, <2>2, <2>3, <2>5 DEF StepIsRight, OnTimeSettled
  <2>7. file[f] = "saving"
    BY <1>1, <2>5 DEF StepIsRight
  <2> QED BY <1>2, <2>2, <2>3, <2>4, <2>6, <2>7, OneFile
<1> QED BY <1>3, <1>4

(* The file is open, or could not be opened.                               *)
LEMMA OpenSettlesKeeps ==
  ASSUME PromisesInv, DiskTypeOK, DiskInv, NEW f \in StoredFile, OpenSettles(f)
  PROVE  DiskKept
<1>1. /\ StepIsRight(f) /\ OnTimeSettled(f)
      /\ (cleaning = "no" => toClean = {}) /\ toClean \subseteq fileEntries
      /\ (cleaning = "no" /\ file[f] = "saved" => f \in handles \cap onDisk \cap fileEntries)
  BY DEF DiskInv, DiskTypeOK, DiskSteps, BeforeClean
<1>2. UNCHANGED <<removeFilesOnClean, tempDir, fileEntries, toClean, stuck, sweep>> /\ step[f] = "open"
  BY DEF OpenSettles
<1>3. CASE /\ tempDir = "made"
           /\ handles' = handles \cup {f} /\ onDisk' = onDisk \cup {f}
           /\ GoOn(f, "write") /\ UNCHANGED storageVars
  <2>1. PromisesInv' /\ cleaning' = cleaning /\ late' = late /\ file' = file
    BY <1>3, PromisesStay DEF storageVars
  <2>2. /\ step' \in [StoredFile -> DiskSteps]
        /\ step'[f] = "write" /\ \A g \in StoredFile : g # f => step'[g] = step[g]
    BY <1>3, StepTypes DEF DiskSteps
  <2>3. DiskTypeOK'
    BY <1>2, <1>3, <2>2 DEF DiskTypeOK, DiskSteps
  <2>4. file[f] = "saving"
    BY <1>1, <1>2 DEF StepIsRight
  <2>5. StepIsRight(f)' /\ OnTimeSettled(f)'
    BY <1>1, <1>2, <1>3, <2>1, <2>2, <2>4 DEF StepIsRight, OnTimeSettled
  <2> QED BY <1>2, <1>3, <2>1, <2>2, <2>3, <2>4, <2>5, OneFile
<1>4. CASE /\ UNCHANGED failures \/ Fails
           /\ Settle(f, "rejected") /\ GoOn(f, "none") /\ UNCHANGED <<handles, onDisk>>
  <2>1. /\ PromisesInv' /\ cleaning' = cleaning /\ late' = late /\ file'[f] = "rejected"
        /\ file[f] = "saving"
        /\ \A g \in StoredFile : g # f => file'[g] = file[g]
    BY <1>4, SettleKeeps
  <2>2. /\ step' \in [StoredFile -> DiskSteps]
        /\ step'[f] = "none" /\ \A g \in StoredFile : g # f => step'[g] = step[g]
    BY <1>4, StepTypes DEF DiskSteps
  <2>3. DiskTypeOK'
    BY <1>2, <1>4, <2>2 DEF DiskTypeOK, DiskSteps
  <2>4. StepIsRight(f)' /\ OnTimeSettled(f)'
    BY <1>1, <1>2, <1>4, <2>1, <2>2 DEF StepIsRight, OnTimeSettled
  <2> QED BY <1>2, <1>4, <2>1, <2>2, <2>3, <2>4, OneFile
<1> QED BY <1>3, <1>4 DEF OpenSettles

(* The file is written and becomes an entry, or is to be taken away.       *)
LEMMA WriteSettlesKeeps ==
  ASSUME PromisesInv, DiskTypeOK, DiskInv, NEW f \in StoredFile, WriteSettles(f)
  PROVE  DiskKept
<1>1. /\ StepIsRight(f) /\ OnTimeSettled(f)
      /\ (cleaning = "no" => toClean = {}) /\ toClean \subseteq fileEntries
      /\ (cleaning = "no" /\ file[f] = "saved" => f \in handles \cap onDisk \cap fileEntries)
  BY DEF DiskInv, DiskTypeOK, DiskSteps, BeforeClean
<1>2. UNCHANGED <<removeFilesOnClean, tempDir, handles, onDisk, toClean, stuck, sweep>>
      /\ step[f] = "write"
  BY DEF WriteSettles
<1>3. CASE /\ Settle(f, "saved") /\ GoOn(f, "none")
           /\ fileEntries' = fileEntries \cup {f} /\ UNCHANGED failures
  <2>1. /\ PromisesInv' /\ cleaning' = cleaning /\ late' = late /\ file'[f] = "saved"
        /\ file[f] = "saving"
        /\ \A g \in StoredFile : g # f => file'[g] = file[g]
    BY <1>3, SettleKeeps
  <2>2. /\ step' \in [StoredFile -> DiskSteps]
        /\ step'[f] = "none" /\ \A g \in StoredFile : g # f => step'[g] = step[g]
    BY <1>3, StepTypes DEF DiskSteps
  <2>3. DiskTypeOK'
    BY <1>2, <1>3, <2>2 DEF DiskTypeOK, DiskSteps
  <2>4. StepIsRight(f)' /\ OnTimeSettled(f)' /\ f \in handles' \cap onDisk' \cap fileEntries'
    BY <1>1, <1>2, <1>3, <2>1, <2>2 DEF StepIsRight, OnTimeSettled
  <2> QED BY <1>2, <1>3, <2>1, <2>2, <2>3, <2>4, OneFile
<1>4. CASE /\ Fails /\ GoOn(f, "close")
           /\ UNCHANGED <<file, fileCount, cleaning, late, fileEntries>>
  <2>1. PromisesInv' /\ cleaning' = cleaning /\ late' = late /\ file' = file
    BY <1>4, PromisesStay
  <2>2. /\ step' \in [StoredFile -> DiskSteps]
        /\ step'[f] = "close" /\ \A g \in StoredFile : g # f => step'[g] = step[g]
    BY <1>4, StepTypes DEF DiskSteps
  <2>3. DiskTypeOK'
    BY <1>2, <1>4, <2>2 DEF DiskTypeOK, DiskSteps
  <2>4. file[f] = "saving"
    BY <1>1, <1>2 DEF StepIsRight
  <2>5. StepIsRight(f)' /\ OnTimeSettled(f)'
    BY <1>1, <1>2, <1>4, <2>1, <2>2, <2>4 DEF StepIsRight, OnTimeSettled
  <2> QED BY <1>2, <1>4, <2>1, <2>2, <2>3, <2>4, <2>5, OneFile
<1> QED BY <1>3, <1>4 DEF WriteSettles

(* The handle of a file that failed is closed, or is not.                  *)
LEMMA CloseSettlesKeeps ==
  ASSUME PromisesInv, DiskTypeOK, DiskInv, NEW f \in StoredFile, CloseSettles(f)
  PROVE  DiskKept
<1>1. /\ StepIsRight(f) /\ OnTimeSettled(f)
      /\ (cleaning = "no" => toClean = {}) /\ toClean \subseteq fileEntries
      /\ (cleaning = "no" /\ file[f] = "saved" => f \in handles \cap onDisk \cap fileEntries)
  BY DEF DiskInv, DiskTypeOK, DiskSteps, BeforeClean
<1>2. /\ UNCHANGED <<removeFilesOnClean, tempDir, onDisk, fileEntries, toClean, sweep>>
      /\ step[f] = "close"
  BY DEF CloseSettles
<1>3. CASE /\ handles' = handles \ {f} /\ GoOn(f, "rm")
           /\ UNCHANGED <<storageVars, stuck>>
  <2>1. PromisesInv' /\ cleaning' = cleaning /\ late' = late /\ file' = file
    BY <1>3, PromisesStay DEF storageVars
  <2>2. /\ step' \in [StoredFile -> DiskSteps]
        /\ step'[f] = "rm" /\ \A g \in StoredFile : g # f => step'[g] = step[g]
    BY <1>3, StepTypes DEF DiskSteps
  <2>3. DiskTypeOK'
    BY <1>2, <1>3, <2>2 DEF DiskTypeOK, DiskSteps
  <2>4. file[f] = "saving"
    BY <1>1, <1>2 DEF StepIsRight
  <2>5. StepIsRight(f)' /\ OnTimeSettled(f)'
    BY <1>1, <1>2, <1>3, <2>1, <2>2, <2>4 DEF StepIsRight, OnTimeSettled
  <2> QED BY <1>2, <1>3, <2>1, <2>2, <2>3, <2>4, <2>5, OneFile
<1>4. CASE /\ Fails /\ Settle(f, "rejected") /\ GoOn(f, "none")
           /\ handles' \in {handles, handles \ {f}} /\ stuck' = stuck \cup {f}
  <2>1. /\ PromisesInv' /\ cleaning' = cleaning /\ late' = late /\ file'[f] = "rejected"
        /\ file[f] = "saving"
        /\ \A g \in StoredFile : g # f => file'[g] = file[g]
    BY <1>4, SettleKeeps
  <2>2. /\ step' \in [StoredFile -> DiskSteps]
        /\ step'[f] = "none" /\ \A g \in StoredFile : g # f => step'[g] = step[g]
    BY <1>4, StepTypes DEF DiskSteps
  <2>3. DiskTypeOK'
    BY <1>2, <1>4, <2>2 DEF DiskTypeOK, DiskSteps
  <2>4. StepIsRight(f)' /\ OnTimeSettled(f)'
    BY <1>1, <1>2, <1>4, <2>1, <2>2 DEF StepIsRight, OnTimeSettled
  <2>5. \A g \in StoredFile : g # f => (g \in handles' <=> g \in handles) /\ (g \in stuck' <=> g \in stuck)
    BY <1>4
  <2> QED BY <1>2, <1>4, <2>1, <2>2, <2>3, <2>4, <2>5, OneFile
<1> QED BY <1>3, <1>4 DEF CloseSettles

(* A file that failed is removed, or is not.                               *)
LEMMA RmSettlesKeeps ==
  ASSUME PromisesInv, DiskTypeOK, DiskInv, NEW f \in StoredFile, RmSettles(f)
  PROVE  DiskKept
<1>1. /\ StepIsRight(f) /\ OnTimeSettled(f)
      /\ (cleaning = "no" => toClean = {}) /\ toClean \subseteq fileEntries
      /\ (cleaning = "no" /\ file[f] = "saved" => f \in handles \cap onDisk \cap fileEntries)
  BY DEF DiskInv, DiskTypeOK, DiskSteps, BeforeClean
<1>2. /\ UNCHANGED <<removeFilesOnClean, tempDir, handles, fileEntries, toClean, sweep>>
      /\ step[f] = "rm" /\ GoOn(f, "none") /\ Settle(f, "rejected")
      /\ UNCHANGED failures \/ Fails
      /\ \/ onDisk' = onDisk \ {f} /\ stuck' = stuck
         \/ onDisk' = onDisk /\ stuck' = stuck \cup {f}
  BY DEF RmSettles
<1>3. /\ PromisesInv' /\ cleaning' = cleaning /\ late' = late /\ file'[f] = "rejected"
      /\ file[f] = "saving"
      /\ \A g \in StoredFile : g # f => file'[g] = file[g]
  BY <1>2, SettleKeeps
<1>4. /\ step' \in [StoredFile -> DiskSteps]
      /\ step'[f] = "none" /\ \A g \in StoredFile : g # f => step'[g] = step[g]
  BY <1>2, StepTypes DEF DiskSteps
<1>5. f \notin handles
  BY <1>1, <1>2 DEF StepIsRight
<1>6. DiskTypeOK'
  BY <1>2, <1>4, <1>5 DEF DiskTypeOK, DiskSteps
<1>7. StepIsRight(f)' /\ OnTimeSettled(f)'
  BY <1>1, <1>2, <1>3, <1>4, <1>5 DEF StepIsRight, OnTimeSettled
<1>8. /\ onDisk' \subseteq onDisk /\ stuck \subseteq stuck'
      /\ \A g \in StoredFile : g # f => (g \in onDisk' <=> g \in onDisk) /\ (g \in stuck' <=> g \in stuck)
  BY <1>2
<1> QED BY <1>2, <1>3, <1>4, <1>6, <1>7, <1>8, OneFile

(* An entry that cannot be closed or removed rejects clean().              *)
LEMMA EntryFailsKeeps ==
  ASSUME PromisesInv, DiskTypeOK, DiskInv, NEW f \in toClean, EntryFails(f),
         UNCHANGED <<removeFilesOnClean, tempDir, step, onDisk, fileEntries>>,
         handles' \in {handles, handles \ {f}}
  PROVE  DiskKept
<1>1. /\ f \in StoredFile /\ StepIsRight(f) /\ OnTimeSettled(f) /\ f \in fileEntries
      /\ cleaning # "no"
  BY DEF DiskInv, DiskTypeOK, DiskSteps, BeforeClean
<1>2. /\ Fails /\ cleaning' = "rejected" /\ sweep' = "no" /\ toClean' = toClean \ {f}
      /\ stuck' = stuck \cup {f} /\ UNCHANGED <<file, fileCount, late>>
  BY DEF EntryFails
<1>3. PromisesInv'
  BY <1>1, <1>2, PromisesStay
<1>4. DiskTypeOK'
  BY <1>1, <1>2 DEF DiskTypeOK, DiskSteps
<1>5. SweepIsRight'
  BY <1>2 DEF SweepIsRight
<1>6. StepIsRight(f)' /\ OnTimeSettled(f)'
  BY <1>1, <1>2 DEF StepIsRight, OnTimeSettled
<1>7. \A g \in StoredFile : g # f =>
        /\ g \in handles' <=> g \in handles
        /\ g \in toClean' <=> g \in toClean
        /\ g \in stuck' <=> g \in stuck
  BY <1>2
<1> QED BY <1>1, <1>2, <1>3, <1>4, <1>5, <1>6, <1>7, OneEntry

(* clean() closes an entry, or fails to.                                   *)
LEMMA CloseEntryKeeps ==
  ASSUME PromisesInv, DiskTypeOK, DiskInv, NEW f \in StoredFile, CloseEntry(f)
  PROVE  DiskKept
<1>1. /\ StepIsRight(f) /\ OnTimeSettled(f)
      /\ (cleaning = "no" => toClean = {}) /\ toClean \subseteq fileEntries
      /\ (cleaning = "no" /\ file[f] = "saved" => f \in handles \cap onDisk \cap fileEntries)
  BY DEF DiskInv, DiskTypeOK, DiskSteps, BeforeClean
<1>2. /\ UNCHANGED <<removeFilesOnClean, tempDir, step, onDisk, fileEntries>>
      /\ f \in toClean \cap handles
  BY DEF CloseEntry
<1>3. CASE /\ handles' = handles \ {f}
           /\ toClean' = IF removeFilesOnClean THEN toClean ELSE toClean \ {f}
           /\ UNCHANGED <<storageVars, stuck, sweep>>
  <2>1. PromisesInv' /\ cleaning' = cleaning /\ late' = late /\ file' = file
    BY <1>3, PromisesStay DEF storageVars
  <2>2. cleaning # "no" /\ file[f] = "saved" /\ f \in fileEntries /\ step[f] = "none"
    BY <1>1, <1>2 DEF StepIsRight
  <2>3. DiskTypeOK'
    BY <1>2, <1>3 DEF DiskTypeOK, DiskSteps
  <2>4. StepIsRight(f)' /\ OnTimeSettled(f)'
    BY <1>1, <1>2, <1>3, <2>1, <2>2 DEF StepIsRight, OnTimeSettled
  <2> QED BY <1>2, <1>3, <2>1, <2>2, <2>3, <2>4, OneFile
<1>4. CASE EntryFails(f) /\ handles' \in {handles, handles \ {f}}
  BY <1>2, <1>4, EntryFailsKeeps
<1> QED BY <1>3, <1>4 DEF CloseEntry

(* clean() removes an entry, or fails to.                                  *)
LEMMA RemoveEntryKeeps ==
  ASSUME PromisesInv, DiskTypeOK, DiskInv, NEW f \in StoredFile, RemoveEntry(f)
  PROVE  DiskKept
<1>1. /\ StepIsRight(f) /\ OnTimeSettled(f)
      /\ (cleaning = "no" => toClean = {}) /\ toClean \subseteq fileEntries
      /\ (cleaning = "no" /\ file[f] = "saved" => f \in handles \cap onDisk \cap fileEntries)
  BY DEF DiskInv, DiskTypeOK, DiskSteps, BeforeClean
<1>2. /\ UNCHANGED <<removeFilesOnClean, tempDir, step, handles, fileEntries>>
      /\ f \in toClean \ handles
  BY DEF RemoveEntry
<1>3. CASE /\ onDisk' = onDisk \ {f} /\ toClean' = toClean \ {f}
           /\ UNCHANGED <<storageVars, stuck, sweep>>
  <2>1. PromisesInv' /\ cleaning' = cleaning /\ late' = late /\ file' = file
    BY <1>3, PromisesStay DEF storageVars
  <2>2. cleaning # "no" /\ file[f] = "saved" /\ f \in fileEntries /\ step[f] = "none"
    BY <1>1, <1>2 DEF StepIsRight
  <2>3. DiskTypeOK'
    BY <1>2, <1>3 DEF DiskTypeOK, DiskSteps
  <2>4. StepIsRight(f)' /\ OnTimeSettled(f)'
    BY <1>1, <1>2, <1>3, <2>1, <2>2 DEF StepIsRight, OnTimeSettled
  <2> QED BY <1>2, <1>3, <2>1, <2>2, <2>3, <2>4, OneFile
<1>4. CASE EntryFails(f) /\ UNCHANGED onDisk
  BY <1>2, <1>4, EntryFailsKeeps
<1> QED BY <1>3, <1>4 DEF RemoveEntry

(* The directory is made, or is not.                                       *)
LEMMA TempDirSettlesKeeps ==
  ASSUME PromisesInv, DiskTypeOK, DiskInv, TempDirSettles
  PROVE  DiskKept
<1>1. /\ tempDir = "pending" /\ tempDir' \in {"made", "failed"} /\ (UNCHANGED failures \/ Fails)
      /\ UNCHANGED <<file, fileCount, cleaning, late, removeFilesOnClean, step, handles, onDisk,
                     fileEntries, toClean, stuck, sweep>>
  BY DEF TempDirSettles
<1>2. PromisesInv'
  BY <1>1, PromisesStay
<1>3. DiskTypeOK'
  BY <1>1 DEF DiskTypeOK, DiskSteps
<1>4. SweepIsRight' /\ (cleaning' = "no" => toClean' = {} /\ sweep' = "no" /\ tempDir' # "removed")
  BY <1>1, SweepStays
<1>5. \A g \in StoredFile :
         /\ StepIsRight(g)' /\ OnTimeSettled(g)'
         /\ cleaning' = "no" /\ file'[g] = "saved" => g \in handles' \cap onDisk' \cap fileEntries'
  BY <1>1, <1>3, OthersStay
<1> QED BY <1>2, <1>3, <1>4, <1>5 DEF DiskKept, DiskInv, BeforeClean

(* clean() takes the entries: all that was saved in time.                  *)
LEMMA DiskCleanKeeps ==
  ASSUME PromisesInv, DiskTypeOK, DiskInv, DiskClean
  PROVE  DiskKept
<1>1. /\ toClean' = fileEntries /\ sweep' = "entries"
      /\ UNCHANGED <<removeFilesOnClean, tempDir, step, handles, onDisk, fileEntries, stuck>>
  BY DEF DiskClean
<1>2. /\ PromisesInv' /\ cleaning = "no" /\ cleaning' = "pending" /\ file' = file
      /\ late' = {f \in StoredFile : file[f] \in {"none", "saving"}}
  BY CleanKeeps DEF DiskClean
<1>3. DiskTypeOK'
  BY <1>1 DEF DiskTypeOK, DiskSteps
<1>4. \A g \in StoredFile : StepIsRight(g)'
  BY <1>1, <1>2 DEF DiskInv, StepIsRight
<1>5. ASSUME NEW g \in StoredFile
      PROVE  OnTimeSettled(g)'
  <2>1. file[g] \in {"none", "saving", "saved", "rejected"}
    BY DEF PromisesInv, StorageTypeOK
  <2>2. StepIsRight(g)
    BY DEF DiskInv
  <2> QED BY <1>1, <1>2, <2>1, <2>2 DEF StepIsRight, OnTimeSettled, DiskTypeOK, DiskSteps
<1> QED BY <1>1, <1>2, <1>3, <1>4, <1>5 DEF DiskKept, DiskInv, BeforeClean, SweepIsRight

(* All entries are done with.                                              *)
LEMMA EntriesCleanedKeeps ==
  ASSUME PromisesInv, DiskTypeOK, DiskInv, EntriesCleaned
  PROVE  DiskKept
<1>1. /\ sweep = "entries" /\ toClean = {}
      /\ UNCHANGED <<file, fileCount, late, failures, removeFilesOnClean, step, handles, onDisk,
                     fileEntries, toClean, stuck>>
  BY DEF EntriesCleaned
<1>2. cleaning = "pending"
  BY <1>1 DEF DiskInv, SweepIsRight
<1>3. \/ /\ removeFilesOnClean /\ sweep' = "tempDir" /\ cleaning' = cleaning
         /\ tempDir' = tempDir \/ (tempDir = "none" /\ tempDir' = "pending")
      \/ ~removeFilesOnClean /\ cleaning' = "fulfilled" /\ sweep' = "no" /\ tempDir' = tempDir
  BY DEF EntriesCleaned, EnsureTempDir
<1>4. PromisesInv'
  BY <1>1, <1>2, <1>3, PromisesStay
<1>5. DiskTypeOK'
  BY <1>1, <1>3 DEF DiskTypeOK, DiskSteps
<1>6. \A g \in StoredFile : StepIsRight(g)' /\ OnTimeSettled(g)'
  BY <1>1, <1>2 DEF DiskInv, StepIsRight, OnTimeSettled
<1>7. SweepIsRight' /\ BeforeClean'
  BY <1>1, <1>2, <1>3 DEF SweepIsRight, BeforeClean
<1> QED BY <1>4, <1>5, <1>6, <1>7 DEF DiskKept, DiskInv

(* rmdir() finds the directory empty if no file was late or is stuck.      *)
LEMMA RmdirSettlesKeeps ==
  ASSUME PromisesInv, DiskTypeOK, DiskInv, RmdirSettles
  PROVE  DiskKept
<1>1. /\ sweep = "tempDir" /\ tempDir \in {"made", "failed"}
      /\ UNCHANGED <<file, fileCount, late, removeFilesOnClean, step, handles, onDisk,
                     fileEntries, toClean, stuck>>
      /\ UNCHANGED failures \/ Fails
  BY DEF RmdirSettles
<1>2. cleaning = "pending" /\ removeFilesOnClean /\ toClean = {}
  BY <1>1 DEF DiskInv, SweepIsRight
<1>3. \/ onDisk = {} /\ tempDir' = "removed" /\ cleaning' = "fulfilled" /\ sweep' = "no"
      \/ /\ tempDir' = tempDir /\ cleaning' = "rejected"
         /\ \/ sweep' = "failed"
            \/ sweep' = "no" /\ (tempDir = "failed" \/ onDisk # {})
  BY DEF RmdirSettles
<1>4. PromisesInv'
  BY <1>1, <1>2, <1>3, PromisesStay
<1>5. DiskTypeOK'
  BY <1>1, <1>3 DEF DiskTypeOK, DiskSteps
<1>6. \A g \in StoredFile : StepIsRight(g)' /\ OnTimeSettled(g)'
  BY <1>1, <1>2, <1>3 DEF DiskInv, StepIsRight, OnTimeSettled
<1>7. late = {} /\ stuck = {} => onDisk = {}
  BY <1>2 DEF DiskInv, OnTimeSettled, DiskTypeOK, DiskSteps
<1>8. SweepIsRight' /\ BeforeClean'
  BY <1>1, <1>2, <1>3, <1>7 DEF SweepIsRight, BeforeClean
<1> QED BY <1>4, <1>5, <1>6, <1>8 DEF DiskKept, DiskInv

(* Every step of the storage on disk keeps its invariant.                  *)
LEMMA DiskKeeps ==
  ASSUME PromisesInv, DiskTypeOK, DiskInv, DiskStep
  PROVE  DiskKept
BY TempDirSettlesKeeps, DiskCleanKeeps, EntriesCleanedKeeps, RmdirSettlesKeeps, DiskSaveKeeps,
   TempDirThereKeeps, OpenSettlesKeeps, WriteSettlesKeeps, CloseSettlesKeeps, RmSettlesKeeps,
   CloseEntryKeeps, RemoveEntryKeeps DEF DiskStep

-----------------------------------------------------------------------------
(* At S3.                                                                  *)
S3Kept == PromisesInv' /\ S3TypeOK' /\ S3Inv'

S3Requests == {"none", "put", "create", "ready", "part", "complete"}

(* The numbers of the parts in order, and one more of them.                *)
LEMMA UpToGrows ==
  ASSUME NEW n \in Nat
  PROVE  UpTo(n) \in Seq(Nat) /\ Append(UpTo(n), n + 1) = UpTo(n + 1)
<1>1. UpTo(n) \in Seq(Nat) /\ Len(UpTo(n)) = n
  BY DEF UpTo
<1>2. Append(UpTo(n), n + 1) =
        [k \in 1 .. Len(UpTo(n)) + 1 |-> IF k <= Len(UpTo(n)) THEN UpTo(n)[k] ELSE n + 1]
  BY <1>1
<1>3. ASSUME NEW k \in 1 .. n + 1
      PROVE  (IF k <= n THEN UpTo(n)[k] ELSE n + 1) = k
  BY <1>3 DEF UpTo
<1>4. [k \in 1 .. n + 1 |-> IF k <= n THEN UpTo(n)[k] ELSE n + 1] = UpTo(n + 1)
  BY <1>3 DEF UpTo
<1> QED BY <1>1, <1>2, <1>4

(* Before the first part there is no number.                               *)
LEMMA UpToNothing == UpTo(0) = <<>>
BY DEF UpTo

(* The requests keep their types.                                          *)
LEMMA AskTypes ==
  ASSUME S3TypeOK, NEW f \in StoredFile, NEW r \in S3Requests, Ask(f, r)
  PROVE  /\ request' \in [StoredFile -> S3Requests] /\ request'[f] = r
         /\ \A g \in StoredFile : g # f => request'[g] = request[g]
BY DEF S3TypeOK, Ask, S3Requests

(* A step of one file that touches no other.                               *)
LEMMA OneUpload ==
  ASSUME S3Inv, PromisesInv', S3TypeOK', NEW f \in StoredFile,
         \A g \in StoredFile : g # f =>
           /\ file'[g] = file[g] /\ request'[g] = request[g]
           /\ partNumber'[g] = partNumber[g] /\ eTags'[g] = eTags[g] /\ object'[g] = object[g]
           /\ g \in aborting' <=> g \in aborting
           /\ g \in abandoned' <=> g \in abandoned
           /\ g \in uploads' <=> g \in uploads,
         late \subseteq late',
         RequestIsRight(f)'
  PROVE  S3Kept
<1>1. ASSUME NEW g \in StoredFile, g # f
      PROVE  RequestIsRight(g)'
  BY <1>1 DEF S3Inv, RequestIsRight
<1> QED BY <1>1 DEF S3Kept, S3Inv

(* A file is put whole or begins an upload, or is one too many.            *)
LEMMA S3SaveKeeps ==
  ASSUME PromisesInv, S3TypeOK, S3Inv, NEW f \in StoredFile, S3Save(f)
  PROVE  S3Kept
<1>1. RequestIsRight(f) /\ partNumber[f] \in Nat \ {0}
  BY DEF S3Inv, S3TypeOK
<1>2. /\ PromisesInv' /\ file[f] = "none" /\ file'[f] \in {"saving", "rejected"}
      /\ \A g \in StoredFile : g # f => file'[g] = file[g]
      /\ late \subseteq late'
  BY AdmitKeeps DEF S3Save
<1>3. UNCHANGED <<partNumber, eTags, aborting, abandoned, uploads, object, destroyed>>
  BY DEF S3Save
<1>4. /\ request' \in [StoredFile -> S3Requests]
      /\ \A g \in StoredFile : g # f => request'[g] = request[g]
      /\ request'[f] \in {"none", "put", "create"} /\ (request'[f] # "none" => file'[f] = "saving")
  <2>1. CASE file'[f] = "saving"
    <3>1. PICK r \in {"put", "create"} : Ask(f, r)
      BY <2>1 DEF S3Save
    <3> QED BY <2>1, <3>1, AskTypes DEF S3Requests
  <2>2. CASE file'[f] # "saving"
    <3>1. request' = request
      BY <2>2 DEF S3Save
    <3> QED BY <1>1, <1>2, <3>1 DEF S3TypeOK, S3Requests, RequestIsRight
  <2> QED BY <2>1, <2>2
<1>5. S3TypeOK'
  BY <1>3, <1>4 DEF S3TypeOK, S3Requests
<1>6. /\ partNumber[f] = 1 /\ eTags[f] = UpTo(partNumber[f] - 1) /\ f \notin uploads
  BY <1>1, <1>2, UpToNothing DEF RequestIsRight
<1>7. RequestIsRight(f)'
  BY <1>2, <1>3, <1>4, <1>6 DEF RequestIsRight
<1> QED BY <1>2, <1>3, <1>4, <1>5, <1>7, OneUpload

(* A promise settles, or had settled before.                               *)
LEMMA SettledOrNot ==
  ASSUME PromisesInv, NEW f \in StoredFile, NEW s \in {"saved", "rejected"},
         UNCHANGED failures \/ Fails,
         IF file[f] = "saving" THEN Settle(f, s) ELSE UNCHANGED <<file, fileCount, cleaning, late>>
  PROVE  /\ PromisesInv' /\ late' = late
         /\ file[f] = "saving" => file'[f] = s
         /\ file[f] # "saving" => file'[f] = file[f]
         /\ \A g \in StoredFile : g # f => file'[g] = file[g]
<1>1. CASE file[f] = "saving"
  BY <1>1, SettleKeeps
<1>2. CASE file[f] # "saving"
  BY <1>2, PromisesStay
<1> QED BY <1>1, <1>2

(* The whole file is stored, or is not.                                    *)
LEMMA PutSettlesKeeps ==
  ASSUME PromisesInv, S3TypeOK, S3Inv, NEW f \in StoredFile, PutSettles(f)
  PROVE  S3Kept
<1>1. RequestIsRight(f) /\ partNumber[f] \in Nat \ {0}
  BY DEF S3Inv, S3TypeOK
<1>2. /\ Ask(f, "none") /\ request[f] = "put"
      /\ UNCHANGED <<partNumber, eTags, aborting, abandoned, uploads, destroyed>>
  BY DEF PutSettles
<1>3. file[f] = "saving" /\ partNumber[f] = 1 /\ f \notin uploads
  BY <1>1, <1>2 DEF RequestIsRight
<1>4. /\ request' \in [StoredFile -> S3Requests] /\ request'[f] = "none"
      /\ \A g \in StoredFile : g # f => request'[g] = request[g]
  BY <1>2, AskTypes DEF S3Requests
<1>5. PICK s \in {"saved", "rejected"} : Settle(f, s) /\ (UNCHANGED failures \/ Fails)
                                     /\ object' \in {object, [object EXCEPT ![f] = <<1>>]}
  BY <1>3 DEF PutSettles
<1>6. /\ PromisesInv' /\ late' = late /\ file'[f] = s
      /\ \A g \in StoredFile : g # f => file'[g] = file[g]
  BY <1>5, SettleKeeps
<1>7. object' \in [StoredFile -> Seq(Nat)] /\ \A g \in StoredFile : g # f => object'[g] = object[g]
  <2>1. object \in [StoredFile -> Seq(Nat)] /\ <<1>> \in Seq(Nat)
    BY DEF S3TypeOK
  <2> QED BY <1>5, <2>1
<1>8. S3TypeOK'
  BY <1>2, <1>4, <1>7 DEF S3TypeOK, S3Requests
<1>9. RequestIsRight(f)'
  BY <1>2, <1>3, <1>4, <1>5, <1>6 DEF RequestIsRight
<1> QED BY <1>2, <1>4, <1>6, <1>7, <1>8, <1>9, OneUpload

(* A request fails, and the upload that was begun is to be aborted.        *)
LEMMA RequestFailsKeeps ==
  ASSUME PromisesInv, S3TypeOK, S3Inv, NEW f \in StoredFile, RequestFails(f)
  PROVE  S3Kept
<1>1. RequestIsRight(f) /\ partNumber[f] \in Nat \ {0}
  BY DEF S3Inv, S3TypeOK
<1>2. /\ Ask(f, "none")
      /\ aborting' = IF request[f] = "create" THEN aborting \ {f} ELSE aborting \cup ({f} \cap uploads)
      /\ UNCHANGED <<partNumber, eTags, abandoned, uploads, object, destroyed>>
      /\ UNCHANGED failures \/ Fails
  BY DEF RequestFails
<1>3. /\ PromisesInv' /\ late' = late
      /\ file[f] = "saving" => file'[f] = "rejected"
      /\ file[f] # "saving" => file'[f] = file[f]
      /\ \A g \in StoredFile : g # f => file'[g] = file[g]
  <2>1. IF file[f] = "saving" THEN Settle(f, "rejected") ELSE UNCHANGED <<file, fileCount, cleaning, late>>
    BY DEF RequestFails
  <2> QED BY <1>2, <2>1, SettledOrNot
<1>4. /\ request' \in [StoredFile -> S3Requests] /\ request'[f] = "none"
      /\ \A g \in StoredFile : g # f => request'[g] = request[g]
  BY <1>2, AskTypes DEF S3Requests
<1>5. S3TypeOK'
  BY <1>2, <1>4 DEF S3TypeOK, S3Requests
<1>6. /\ file'[f] \in {"none", "rejected", "saved"}
      /\ \A g \in StoredFile : g # f => (g \in aborting' <=> g \in aborting)
  BY <1>2, <1>3 DEF PromisesInv, StorageTypeOK
<1>7. RequestIsRight(f)'
  BY <1>1, <1>2, <1>3, <1>4, <1>6 DEF RequestIsRight
<1> QED BY <1>2, <1>3, <1>4, <1>5, <1>6, <1>7, OneUpload

(* The upload is created, or is not.                                       *)
LEMMA BeginSettlesKeeps ==
  ASSUME PromisesInv, S3TypeOK, S3Inv, NEW f \in StoredFile, BeginSettles(f)
  PROVE  S3Kept
<1>1. RequestIsRight(f) /\ partNumber[f] \in Nat \ {0}
  BY DEF S3Inv, S3TypeOK
<1>2. CASE /\ Ask(f, "ready") /\ uploads' = uploads \cup {f}
           /\ UNCHANGED <<storageVars, partNumber, eTags, aborting, abandoned, object, destroyed>>
  <2>1. PromisesInv' /\ late' = late /\ file' = file
    BY <1>2, PromisesStay DEF storageVars
  <2>2. /\ request' \in [StoredFile -> S3Requests] /\ request'[f] = "ready"
        /\ \A g \in StoredFile : g # f => request'[g] = request[g]
    BY <1>2, AskTypes DEF S3Requests
  <2>3. S3TypeOK'
    BY <1>2, <2>2 DEF S3TypeOK, S3Requests
  <2>4. request[f] = "create"
    BY DEF BeginSettles
  <2>5. RequestIsRight(f)'
    BY <1>1, <1>2, <2>1, <2>2, <2>4 DEF RequestIsRight
  <2> QED BY <1>2, <2>1, <2>2, <2>3, <2>5, OneUpload
<1>3. CASE RequestFails(f)
  BY <1>3, RequestFailsKeeps
<1> QED BY <1>2, <1>3 DEF BeginSettles

(* A partition takes its number.                                           *)
LEMMA UploadPartitionKeeps ==
  ASSUME PromisesInv, S3TypeOK, S3Inv, NEW f \in StoredFile, UploadPartition(f)
  PROVE  S3Kept
<1>1. RequestIsRight(f) /\ partNumber[f] \in Nat \ {0}
  BY DEF S3Inv, S3TypeOK
<1>2. /\ request[f] = "ready" /\ Ask(f, "part")
      /\ UNCHANGED <<storageVars, eTags, aborting, abandoned, uploads, object, destroyed>>
  BY DEF UploadPartition
<1>3. PromisesInv' /\ late' = late /\ file' = file
  BY <1>2, PromisesStay DEF storageVars
<1>4. /\ request' \in [StoredFile -> S3Requests] /\ request'[f] = "part"
      /\ \A g \in StoredFile : g # f => request'[g] = request[g]
  BY <1>2, AskTypes DEF S3Requests
<1>5. /\ partNumber' \in [StoredFile -> Nat \ {0}] /\ partNumber'[f] = partNumber[f] + 1
      /\ \A g \in StoredFile : g # f => partNumber'[g] = partNumber[g]
  <2>1. partNumber \in [StoredFile -> Nat \ {0}]
    BY DEF S3TypeOK
  <2>2. partNumber' = [partNumber EXCEPT ![f] = partNumber[f] + 1]
        /\ partNumber[f] + 1 \in Nat \ {0}
    BY <1>1 DEF UploadPartition
  <2> QED BY <2>1, <2>2
<1>6. S3TypeOK'
  BY <1>2, <1>4, <1>5 DEF S3TypeOK, S3Requests
<1>7. eTags[f] = UpTo(partNumber[f] - 1) /\ partNumber'[f] - 2 = partNumber[f] - 1
      /\ partNumber'[f] > 1
      /\ file[f] \notin {"none", "saved"}
  BY <1>1, <1>2, <1>5 DEF RequestIsRight
<1>8. RequestIsRight(f)'
  BY <1>1, <1>2, <1>3, <1>4, <1>5, <1>7 DEF RequestIsRight
<1> QED BY <1>2, <1>3, <1>4, <1>5, <1>6, <1>8, OneUpload

(* A partition has its tag, or fails, or finds its upload aborted.         *)
LEMMA PartSettlesKeeps ==
  ASSUME PromisesInv, S3TypeOK, S3Inv, NEW f \in StoredFile, PartSettles(f)
  PROVE  S3Kept
<1>1. RequestIsRight(f) /\ partNumber[f] \in Nat \ {0}
  BY DEF S3Inv, S3TypeOK
<1>2. CASE /\ f \in uploads /\ Ask(f, "ready")
           /\ eTags' = [eTags EXCEPT ![f] = Append(@, partNumber[f] - 1)]
           /\ UNCHANGED <<storageVars, partNumber, aborting, abandoned, uploads, object, destroyed>>
  <2>1. PromisesInv' /\ late' = late /\ file' = file
    BY <1>2, PromisesStay DEF storageVars
  <2>2. /\ request' \in [StoredFile -> S3Requests] /\ request'[f] = "ready"
        /\ \A g \in StoredFile : g # f => request'[g] = request[g]
    BY <1>2, AskTypes DEF S3Requests
  <2>3. /\ request[f] = "part" /\ partNumber[f] > 1 /\ eTags[f] = UpTo(partNumber[f] - 2)
        /\ file[f] \notin {"none", "saved"}
    BY <1>1 DEF PartSettles, RequestIsRight
  <2>4. Append(eTags[f], partNumber[f] - 1) = UpTo(partNumber[f] - 1)
        /\ UpTo(partNumber[f] - 1) \in Seq(Nat)
    <3>1. PICK n \in Nat : n = partNumber[f] - 2 /\ n + 1 = partNumber[f] - 1
      BY <1>1, <2>3
    <3>2. eTags[f] = UpTo(n)
      BY <2>3, <3>1, Zenon
    <3>3. Append(UpTo(n), n + 1) = UpTo(n + 1)
      BY UpToGrows
    <3>4. n + 1 \in Nat
      OBVIOUS
    <3>5. UpTo(n + 1) \in Seq(Nat)
      BY <3>4, UpToGrows
    <3> QED BY <3>1, <3>2, <3>3, <3>5, Zenon
  <2>5. /\ eTags' \in [StoredFile -> Seq(Nat)] /\ eTags'[f] = UpTo(partNumber[f] - 1)
        /\ \A g \in StoredFile : g # f => eTags'[g] = eTags[g]
    <3>1. eTags \in [StoredFile -> Seq(Nat)]
      BY DEF S3TypeOK
    <3>2. eTags' = [eTags EXCEPT ![f] = UpTo(partNumber[f] - 1)]
      BY <1>2, <2>4
    <3> QED BY <2>4, <3>1, <3>2
  <2>6. S3TypeOK'
    BY <1>2, <2>2, <2>5 DEF S3TypeOK, S3Requests
  <2>7. RequestIsRight(f)'
    BY <1>1, <1>2, <2>1, <2>2, <2>3, <2>5 DEF RequestIsRight
  <2> QED BY <1>2, <2>1, <2>2, <2>5, <2>6, <2>7, OneUpload
<1>3. CASE RequestFails(f)
  BY <1>3, RequestFailsKeeps
<1>4. CASE /\ f \notin uploads /\ Ask(f, "none")
           /\ UNCHANGED <<storageVars, partNumber, eTags, aborting, abandoned, uploads, object, destroyed>>
  <2>1. PromisesInv' /\ late' = late /\ file' = file
    BY <1>4, PromisesStay DEF storageVars
  <2>2. /\ request' \in [StoredFile -> S3Requests] /\ request'[f] = "none"
        /\ \A g \in StoredFile : g # f => request'[g] = request[g]
    BY <1>4, AskTypes DEF S3Requests
  <2>3. S3TypeOK'
    BY <1>4, <2>2 DEF S3TypeOK, S3Requests
  <2>4. RequestIsRight(f)'
    BY <1>1, <1>4, <2>1, <2>2 DEF RequestIsRight
  <2> QED BY <1>4, <2>1, <2>2, <2>3, <2>4, OneUpload
<1> QED BY <1>2, <1>3, <1>4 DEF PartSettles

(* The upload is to be completed.                                          *)
LEMMA FinishUploadKeeps ==
  ASSUME PromisesInv, S3TypeOK, S3Inv, NEW f \in StoredFile, FinishUpload(f)
  PROVE  S3Kept
<1>1. RequestIsRight(f) /\ partNumber[f] \in Nat \ {0}
  BY DEF S3Inv, S3TypeOK
<1>2. /\ request[f] = "ready" /\ file[f] = "saving" /\ Ask(f, "complete")
      /\ UNCHANGED <<storageVars, partNumber, eTags, aborting, abandoned, uploads, object, destroyed>>
  BY DEF FinishUpload
<1>3. PromisesInv' /\ late' = late /\ file' = file
  BY <1>2, PromisesStay DEF storageVars
<1>4. /\ request' \in [StoredFile -> S3Requests] /\ request'[f] = "complete"
      /\ \A g \in StoredFile : g # f => request'[g] = request[g]
  BY <1>2, AskTypes DEF S3Requests
<1>5. S3TypeOK'
  BY <1>2, <1>4 DEF S3TypeOK, S3Requests
<1>6. RequestIsRight(f)'
  BY <1>1, <1>2, <1>3, <1>4 DEF RequestIsRight
<1> QED BY <1>2, <1>3, <1>4, <1>5, <1>6, OneUpload

(* The object is put together from the parts in order, or is not.          *)
LEMMA FinishSettlesKeeps ==
  ASSUME PromisesInv, S3TypeOK, S3Inv, NEW f \in StoredFile, FinishSettles(f)
  PROVE  S3Kept
<1>1. RequestIsRight(f) /\ partNumber[f] \in Nat \ {0}
  BY DEF S3Inv, S3TypeOK
<1>2. CASE /\ Settle(f, "saved") /\ Ask(f, "none")
           /\ uploads' = uploads \ {f} /\ object' = [object EXCEPT ![f] = eTags[f]]
           /\ UNCHANGED <<failures, partNumber, eTags, aborting, abandoned, destroyed>>
  <2>1. /\ PromisesInv' /\ late' = late /\ file'[f] = "saved"
        /\ \A g \in StoredFile : g # f => file'[g] = file[g]
    BY <1>2, SettleKeeps
  <2>2. /\ request' \in [StoredFile -> S3Requests] /\ request'[f] = "none"
        /\ \A g \in StoredFile : g # f => request'[g] = request[g]
    BY <1>2, AskTypes DEF S3Requests
  <2>3. eTags[f] = UpTo(partNumber[f] - 1)
    BY <1>1 DEF FinishSettles, RequestIsRight
  <2>4. /\ object' \in [StoredFile -> Seq(Nat)] /\ object'[f] = eTags[f]
        /\ \A g \in StoredFile : g # f => object'[g] = object[g]
    BY <1>2 DEF S3TypeOK
  <2>5. S3TypeOK'
    BY <1>2, <2>2, <2>4 DEF S3TypeOK, S3Requests
  <2>6. RequestIsRight(f)'
    BY <1>2, <2>1, <2>2, <2>3, <2>4 DEF RequestIsRight
  <2> QED BY <1>2, <2>1, <2>2, <2>4, <2>5, <2>6, OneUpload
<1>3. CASE RequestFails(f)
  BY <1>3, RequestFailsKeeps
<1> QED BY <1>2, <1>3 DEF FinishSettles

(* The source breaks off, and the upload is to be aborted.                 *)
LEMMA SourceBreaksKeeps ==
  ASSUME PromisesInv, S3TypeOK, S3Inv, NEW f \in StoredFile, SourceBreaks(f)
  PROVE  S3Kept
<1>1. RequestIsRight(f) /\ partNumber[f] \in Nat \ {0}
  BY DEF S3Inv, S3TypeOK
<1>2. /\ request[f] \in {"create", "ready", "part"} /\ Settle(f, "rejected") /\ Fails
      /\ aborting' = aborting \cup {f}
      /\ UNCHANGED <<request, partNumber, eTags, abandoned, uploads, object, destroyed>>
  BY DEF SourceBreaks
<1>3. /\ PromisesInv' /\ late' = late /\ file'[f] = "rejected"
      /\ \A g \in StoredFile : g # f => file'[g] = file[g]
  BY <1>2, SettleKeeps
<1>4. S3TypeOK'
  BY <1>2 DEF S3TypeOK
<1>5. RequestIsRight(f)'
  BY <1>1, <1>2, <1>3 DEF RequestIsRight
<1> QED BY <1>2, <1>3, <1>4, <1>5, OneUpload

(* The upload is aborted, or is abandoned.                                 *)
LEMMA AbortSettlesKeeps ==
  ASSUME PromisesInv, S3TypeOK, S3Inv, NEW f \in StoredFile, AbortSettles(f)
  PROVE  S3Kept
<1>1. RequestIsRight(f) /\ partNumber[f] \in Nat \ {0}
  BY DEF S3Inv, S3TypeOK
<1>2. /\ f \in aborting /\ request[f] # "create" /\ aborting' = aborting \ {f}
      /\ \/ uploads' = uploads \ {f} /\ abandoned' = abandoned
         \/ uploads' = uploads /\ abandoned' = abandoned \cup {f}
      /\ UNCHANGED failures \/ Fails
      /\ UNCHANGED <<file, fileCount, cleaning, late, request, partNumber, eTags, object, destroyed>>
  BY DEF AbortSettles
<1>3. PromisesInv'
  BY <1>2, PromisesStay
<1>4. S3TypeOK'
  BY <1>2 DEF S3TypeOK
<1>5. RequestIsRight(f)'
  BY <1>1, <1>2 DEF RequestIsRight
<1> QED BY <1>2, <1>3, <1>4, <1>5, OneUpload

(* cleanup() finds files that are being saved or aborted: they are late.   *)
LEMMA S3CleanKeeps ==
  ASSUME PromisesInv, S3TypeOK, S3Inv, S3Clean
  PROVE  S3Kept
<1>1. /\ destroyed' = TRUE
      /\ UNCHANGED <<request, partNumber, eTags, aborting, abandoned, uploads, object>>
  BY DEF S3Clean
<1>2. PromisesInv' /\ file' = file /\ late = {}
  BY CleanKeeps DEF S3Clean
<1>3. S3TypeOK'
  BY <1>1 DEF S3TypeOK
<1>4. S3Inv'
  BY <1>1, <1>2 DEF S3Inv, RequestIsRight
<1> QED BY <1>2, <1>3, <1>4 DEF S3Kept

(* Every step of the storage at S3 keeps its invariant.                    *)
LEMMA S3Keeps ==
  ASSUME PromisesInv, S3TypeOK, S3Inv, S3Step
  PROVE  S3Kept
BY S3SaveKeeps, PutSettlesKeeps, BeginSettlesKeeps, UploadPartitionKeeps, PartSettlesKeeps,
   FinishUploadKeeps, FinishSettlesKeeps, SourceBreaksKeeps, AbortSettlesKeeps, S3CleanKeeps
   DEF S3Step

-----------------------------------------------------------------------------
(* Whichever storage the handler has chosen.                               *)

StoragesIInv ==
  /\ StoragesTypeOK /\ OnTime
  /\ handler = "memory" => MemoryInv
  /\ handler = "disk" => DiskInv
  /\ handler = "s3" => S3Inv

(* Nothing has been saved at first.                                        *)
LEMMA StoragesBegin == StoragesInit => StoragesIInv
<1> SUFFICES ASSUME StoragesInit PROVE StoragesIInv
  OBVIOUS
<1>1. PromisesInv
  BY DEF StoragesInit, StorageInit, PromisesInv, StorageTypeOK, OnTime
<1>2. MemoryTypeOK /\ MemoryInv
  BY NewIsRoomy DEF StoragesInit, MemoryInit, MemoryTypeOK, MemoryInv
<1>3. DiskTypeOK
  BY DEF StoragesInit, DiskInit, DiskTypeOK, DiskSteps
<1>4. DiskInv
  BY DEF StoragesInit, StorageInit, DiskInit, DiskInv, BeforeClean, SweepIsRight,
     StepIsRight, OnTimeSettled
<1>5. S3TypeOK
  <2>1. <<>> \in Seq(Nat)
    OBVIOUS
  <2>2. eTags \in [StoredFile -> Seq(Nat)] /\ object \in [StoredFile -> Seq(Nat)]
    BY <2>1 DEF StoragesInit, S3Init
  <2>3. request \in [StoredFile -> S3Requests] /\ partNumber \in [StoredFile -> Nat \ {0}]
    BY DEF StoragesInit, S3Init, S3Requests
  <2>4. aborting = {} /\ abandoned = {} /\ uploads = {} /\ destroyed = FALSE
    BY DEF StoragesInit, S3Init
  <2> QED BY <2>2, <2>3, <2>4 DEF S3TypeOK, S3Requests
<1>6. S3Inv
  BY DEF StoragesInit, StorageInit, S3Init, S3Inv, RequestIsRight
<1> QED BY <1>1, <1>2, <1>3, <1>4, <1>5, <1>6
     DEF StoragesIInv, StoragesInit, StoragesTypeOK, PromisesInv

(* A storage that is not used stays as it was.                             *)
LEMMA UnusedStays ==
  /\ MemoryTypeOK /\ UNCHANGED memoryVars => MemoryTypeOK'
  /\ DiskTypeOK /\ UNCHANGED diskVars => DiskTypeOK'
  /\ S3TypeOK /\ UNCHANGED s3Vars => S3TypeOK'
BY DEF MemoryTypeOK, memoryVars, DiskTypeOK, DiskSteps, diskVars, S3TypeOK, s3Vars

(* Every step keeps the invariant.                                         *)
LEMMA StoragesStep == StoragesIInv /\ [StoragesNext]_storagesVars => StoragesIInv'
<1> SUFFICES ASSUME StoragesIInv, [StoragesNext]_storagesVars PROVE StoragesIInv'
  OBVIOUS
<1>1. PromisesInv /\ MemoryTypeOK /\ DiskTypeOK /\ S3TypeOK /\ handler \in {"memory", "disk", "s3"}
  BY DEF StoragesIInv, StoragesTypeOK, PromisesInv
<1>2. CASE handler = "memory" /\ handler' = handler /\ MemoryStep /\ UNCHANGED <<diskVars, s3Vars>>
  <2>1. PromisesInv' /\ MemoryTypeOK' /\ MemoryInv'
    BY <1>1, <1>2, MemoryKeeps DEF StoragesIInv
  <2>2. DiskTypeOK' /\ S3TypeOK'
    BY <1>1, <1>2, UnusedStays
  <2> QED BY <1>2, <2>1, <2>2 DEF StoragesIInv, StoragesTypeOK, PromisesInv
<1>3. CASE handler = "disk" /\ handler' = handler /\ DiskStep /\ UNCHANGED <<memoryVars, s3Vars>>
  <2>1. DiskKept
    BY <1>1, <1>3, DiskKeeps DEF StoragesIInv
  <2>2. MemoryTypeOK' /\ S3TypeOK'
    BY <1>1, <1>3, UnusedStays
  <2> QED BY <1>3, <2>1, <2>2 DEF DiskKept, StoragesIInv, StoragesTypeOK, PromisesInv
<1>4. CASE handler = "s3" /\ handler' = handler /\ S3Step /\ UNCHANGED <<memoryVars, diskVars>>
  <2>1. S3Kept
    BY <1>1, <1>4, S3Keeps DEF StoragesIInv
  <2>2. MemoryTypeOK' /\ DiskTypeOK'
    BY <1>1, <1>4, UnusedStays
  <2> QED BY <1>4, <2>1, <2>2 DEF S3Kept, StoragesIInv, StoragesTypeOK, PromisesInv
<1>5. CASE UNCHANGED storagesVars
  <2>1. PromisesInv'
    BY <1>1, <1>5, PromisesStay DEF storagesVars, storageVars
  <2>2. MemoryTypeOK' /\ DiskTypeOK' /\ S3TypeOK' /\ handler' = handler
    BY <1>1, <1>5, UnusedStays DEF storagesVars
  <2>3. MemoryInv => MemoryInv'
    BY <1>5 DEF storagesVars, storageVars, memoryVars, MemoryInv, Roomy
  <2>4. DiskInv => DiskInv'
    BY <1>5 DEF storagesVars, storageVars, diskVars, DiskInv, BeforeClean, SweepIsRight,
       StepIsRight, OnTimeSettled
  <2>5. S3Inv => S3Inv'
    BY <1>5 DEF storagesVars, storageVars, s3Vars, S3Inv, RequestIsRight
  <2> QED BY <1>1, <2>1, <2>2, <2>3, <2>4, <2>5 DEF StoragesIInv, StoragesTypeOK, PromisesInv
<1> QED BY <1>2, <1>3, <1>4, <1>5 DEF StoragesNext

(* The inductive invariant of the storages.                                *)
THEOREM StoragesInvariance == StoragesSpec => []StoragesIInv
<1>1. StoragesInit => StoragesIInv
  BY StoragesBegin
<1>2. StoragesIInv /\ [StoragesNext]_storagesVars => StoragesIInv'
  BY StoragesStep
<1> QED BY <1>1, <1>2, PTL DEF StoragesSpec

(* Their state keeps its types.                                            *)
THEOREM StoragesTypeCorrect == StoragesSpec => []StoragesTypeOK
<1>1. StoragesIInv => StoragesTypeOK
  BY DEF StoragesIInv
<1> QED BY <1>1, StoragesInvariance, PTL

(* A file that was saved is there as it came: its bytes in memory          *)
(* (in-memory-storage.ts:64), its open handle on disk, its parts in order  *)
(* at S3.                                                                  *)
THEOREM SavedFilesAreKept == StoragesSpec => []FilesAreKept
<1>1. StoragesIInv => FilesAreKept
  <2> SUFFICES ASSUME StoragesIInv PROVE FilesAreKept
    OBVIOUS
  <2>1. handler = "memory" => SmallChunksAreKept
    BY DEF StoragesIInv, MemoryInv, SmallChunksAreKept
  <2>2. handler = "disk" => DiskReadable
    BY DEF StoragesIInv, DiskInv, BeforeClean, DiskReadable
  <2>3. handler = "s3" => ObjectIsWhole
    BY DEF StoragesIInv, S3Inv, RequestIsRight, ObjectIsWhole, UpTo
  <2>4. handler \in {"memory", "disk", "s3"}
    BY DEF StoragesIInv, StoragesTypeOK
  <2> QED BY <2>1, <2>2, <2>3, <2>4 DEF FilesAreKept
<1> QED BY <1>1, StoragesInvariance, PTL

(* After the clean-up nothing is left of a request (disk-storage.ts:106,   *)
(* 115), but of a file that was late or that could not be closed or        *)
(* removed, and clean() rejects only when something was left or failed.    *)
THEOREM CleanedUp == StoragesSpec => []NothingLeftOver
<1>1. StoragesIInv => NothingLeftOver
  <2> SUFFICES ASSUME StoragesIInv PROVE NothingLeftOver
    OBVIOUS
  <2>1. ASSUME handler = "disk"
        PROVE  DiskIsClean
    <3>1. DiskTypeOK /\ SweepIsRight /\ \A f \in StoredFile : OnTimeSettled(f)
      BY <2>1 DEF StoragesIInv, StoragesTypeOK, DiskInv
    <3>2. ASSUME cleaning # "no", toClean = {}
          PROVE  /\ handles \subseteq late \cup stuck
                 /\ removeFilesOnClean => onDisk \subseteq late \cup stuck
      BY <3>1, <3>2 DEF OnTimeSettled, DiskTypeOK, DiskSteps
    <3>3. cleaning = "fulfilled" => toClean = {}
      BY <3>1 DEF SweepIsRight
    <3> QED BY <3>1, <3>2, <3>3 DEF DiskIsClean, SweepIsRight
  <2>2. ASSUME handler = "s3"
        PROVE  NoUploadForgotten
    BY <2>2 DEF StoragesIInv, StoragesTypeOK, S3TypeOK, S3Inv, RequestIsRight, NoUploadForgotten
  <2> QED BY <2>1, <2>2 DEF NothingLeftOver
<1> QED BY <1>1, StoragesInvariance, PTL
=================================================================================
