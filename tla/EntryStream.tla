----------------------------- MODULE EntryStream -----------------------------
(***************************************************************************)
(* What the reader of a multipart body may rely on: it sees the parts in   *)
(* their order, each once and none left out, and it is told that the body  *)
(* is over only after it has seen every part of a complete body.           *)
(***************************************************************************)
EXTENDS Naturals, Sequences

CONSTANT Part

VARIABLES
  parsed,     \* the parts of the body so far
  complete,   \* the body is complete
  received,   \* the parts the reader has seen
  outcome     \* "reading", or how the reading ended

vars == <<parsed, complete, received, outcome>>

Init == parsed = <<>> /\ complete = FALSE /\ received = <<>> /\ outcome = "reading"

Parse(p) ==
  /\ ~complete
  /\ parsed' = Append(parsed, p)
  /\ UNCHANGED <<complete, received, outcome>>

Complete == ~complete /\ complete' = TRUE /\ UNCHANGED <<parsed, received, outcome>>

Receive ==
  /\ outcome = "reading" /\ Len(received) < Len(parsed)
  /\ received' = Append(received, parsed[Len(received) + 1])
  /\ UNCHANGED <<parsed, complete, outcome>>

End(how) ==
  /\ outcome = "reading"
  /\ how = "done" => complete /\ received = parsed
  /\ outcome' = how
  /\ UNCHANGED <<parsed, complete, received>>

Next ==
  \/ \E p \in Part : Parse(p)
  \/ Complete \/ Receive
  \/ \E how \in {"done", "failed", "left"} : End(how)

Spec == Init /\ [][Next]_vars
==============================================================================
