----------------------------- MODULE UploadStream -----------------------------
(***************************************************************************)
(* packages/multipart/src/upload-stream.ts: a Writable that stores a file  *)
(* of unknown length in a remote storage, at once when it is small and in  *)
(* partitions from a ring buffer when it is not.                           *)
(*                                                                         *)
(* The bytes of the file are its positions 1, 2, ...  The indices are      *)
(* those of the code: tailIdx may run ahead into the second round of the   *)
(* buffer, and all three fall back when a partition that reaches the end   *)
(* of the buffer is read by the storage.  #promiseQueue is the list of the *)
(* partitions that are not stored yet (queue) and the continuation behind  *)
(* them (busy).                                                            *)
(***************************************************************************)
EXTENDS Naturals, Sequences, SequencesExt, FiniteSetsExt

CONSTANTS
  BufferLimit,      \* adaptor.bufferSizeLimit
  SimpleLimit,      \* adaptor.simpleUploadSizeLimit
  PartLimit,        \* adaptor.partitionedUploadSizeLimit
  FileLimit,        \* adaptor.fileSizeLimit
  MaxChunk          \* bound: the length of one chunk

ASSUME UploadAssumption ==
  /\ {BufferLimit, SimpleLimit, PartLimit, FileLimit, MaxChunk} \subseteq Nat \ {0}

(* The length of #buffer.                                                  *)
Length == Max({BufferLimit, SimpleLimit, PartLimit})

VARIABLES
  buffer,     \* #buffer; 0 is a byte that was never written
  head,       \* #headIdx: behind what the storage has read
  tail,       \* #tailIdx: behind what is buffered
  upload,     \* #uploadIdx: behind what is put into partitions
  size,       \* #fileSize
  rest,       \* the bytes of the chunk that are not buffered
  queue,      \* the partitions to be uploaded, the first of them under way
  busy,       \* what waits behind them
  init,       \* #initMultipartUploadPromise
  stored,     \* what the storage has got, a sequence of partitions
  stream,     \* the Writable: "open", "destroyed" or "finished"
  aborting    \* _destroy(): abortPartitionedUpload() called for, or made

vars == <<buffer, head, tail, upload, size, rest, queue, busy, init, stored, stream, aborting>>

ring == <<buffer, head, tail, upload>>

Byte == 0 .. FileLimit

(* A partition: where it begins, how long it is, and what the checksum was *)
(* calculated of when it was cut.                                          *)
Part == [from : 0 .. 2 * Length, length : 1 .. Length, sum : Seq(Byte)]

TypeOK ==
  /\ buffer \in [0 .. Length - 1 -> Byte]
  /\ head \in 0 .. Length - 1
  /\ upload \in head .. tail
  /\ tail \in head .. head + Length
  /\ size \in 0 .. FileLimit
  /\ rest \in 0 .. MaxChunk
  /\ queue \in Seq(Part)
  /\ busy \in {"no", "write", "lastPart", "finish", "simple"}
  /\ init \in {"none", "pending", "ok", "failed"}
  /\ stored \in Seq(Seq(Byte))
  /\ stream \in {"open", "destroyed", "finished"}
  /\ aborting \in {"no", "pending", "done"}

Init ==
  /\ buffer = [i \in 0 .. Length - 1 |-> 0]
  /\ head = 0 /\ tail = 0 /\ upload = 0
  /\ size = 0 /\ rest = 0
  /\ queue = <<>> /\ busy = "no"
  /\ init = "none" /\ stored = <<>>
  /\ stream = "open" /\ aborting = "no"

-----------------------------------------------------------------------------
(* The ring buffer.                                                        *)

(* slice(): n bytes from index i on.                                       *)
Slice(i, n) == [k \in 1 .. n |-> buffer'[(i + k - 1) % Length]]

(* chunk.copy(): n bytes, the first of them b, to index i and on.          *)
Copied(i, b, n) ==
  [j \in 0 .. Length - 1 |->
     IF \E k \in 0 .. n - 1 : j = (i + k) % Length
     THEN b + CHOOSE k \in 0 .. n - 1 : j = (i + k) % Length
     ELSE buffer[j]]

(* Mutant: the second filling looks at the end of the indices only, not at *)
(* the head.                                                               *)
TakenPastHead(n) ==
  LET toEnd == IF tail - head < Length /\ tail < Length
               THEN Min({Length - tail, n}) ELSE 0
      behind == tail + toEnd
      toHead == IF n > toEnd /\ behind - head < Length
                THEN Min({2 * Length - behind, n - toEnd}) ELSE 0
  IN toEnd + toHead

(* #partitionedUpload() fills the buffer to its end, then from its         *)
(* beginning to the head: how many of n bytes it takes.                    *)
Taken(n) ==
  LET toEnd == IF tail - head < Length /\ tail < Length
               THEN Min({Length - tail, n}) ELSE 0
      behind == tail + toEnd
      toHead == IF n > toEnd /\ behind - head < Length
                THEN Min({Length - behind + head, 2 * Length - behind, n - toEnd}) ELSE 0
  IN toEnd + toHead

(* Mutant: the checksum is calculated before the chunk is copied.          *)
BuffersLate(n, newSize) ==
  LET taken == Taken(n)
      full == (tail + taken - upload) \div PartLimit
  IN /\ buffer' = Copied(tail, newSize - n + 1, taken)
     /\ tail' = tail + taken
     /\ rest' = n - taken
     /\ upload' = upload + full * PartLimit
     /\ queue' = queue \o [p \in 1 .. full |->
          LET from == upload + (p - 1) * PartLimit
          IN [from |-> from, length |-> PartLimit,
              sum |-> [k \in 1 .. PartLimit |-> buffer[(from + k - 1) % Length]]]]
     /\ UNCHANGED head

(* Buffer n bytes, then cut full partitions off what is buffered           *)
(* (#uploadIfNecessary).                                                   *)
Buffers(n, newSize) ==
  LET taken == Taken(n)
      full == (tail + taken - upload) \div PartLimit
  IN /\ buffer' = Copied(tail, newSize - n + 1, taken)
     /\ tail' = tail + taken
     /\ rest' = n - taken
     /\ upload' = upload + full * PartLimit
     /\ queue' = queue \o [p \in 1 .. full |->
          LET from == upload + (p - 1) * PartLimit
          IN [from |-> from, length |-> PartLimit, sum |-> Slice(from, PartLimit)]]
     /\ UNCHANGED head

(* The storage reads a partition to its end: the head follows, and when it *)
(* passes the end of the buffer all indices go back by one round.  The     *)
(* partitions were cut up to index cut.                                    *)
Reads(part, cut) ==
  LET end   == part.from + part.length
      wraps == part.from < Length /\ end >= Length
      back  == IF wraps THEN Length ELSE 0
  IN /\ head' = IF end < Length THEN end ELSE end - Length
     /\ tail' = tail - back
     /\ upload' = cut - back
     /\ UNCHANGED buffer
     /\ stored' = Append(stored, Slice(part.from, part.length))

-----------------------------------------------------------------------------
(* Mutant: an upload that is only about to begin is not aborted.           *)
DestroyedEarly ==
  /\ stream' = "destroyed"
  /\ aborting' = IF stream = "open" /\ init' \in {"ok", "failed"} THEN "pending" ELSE aborting

(* _destroy(error): the upload that was begun is to be aborted.            *)
Destroyed ==
  /\ stream' = "destroyed"
  /\ aborting' = IF stream = "open" /\ init' # "none" THEN "pending" ELSE aborting

(* callback(error).                                                        *)
Fails == Destroyed /\ busy' = "no" /\ queue' = <<>>

(* _write(): too large a file, the first bytes of a file, or more of them  *)
(* than can be uploaded at once.                                           *)
WriteTooMuch(n) ==
  /\ stream = "open" /\ busy = "no" /\ size + n > FileLimit
  /\ UNCHANGED init /\ Fails
  /\ UNCHANGED <<ring, size, rest, stored>>

WriteFirst(n) ==
  /\ stream = "open" /\ busy = "no" /\ size + n <= FileLimit
  /\ size + n <= SimpleLimit \/ size + n <= PartLimit
  /\ size' = size + n
  /\ buffer' = Copied(tail, size + 1, n) /\ tail' = tail + n
  /\ UNCHANGED <<head, upload, rest, queue, busy, init, stored, stream, aborting>>

WriteMore(n) ==
  /\ stream = "open" /\ busy = "no" /\ size + n <= FileLimit
  /\ size + n > SimpleLimit /\ size + n > PartLimit
  /\ size' = size + n
  /\ init' = IF init = "none" THEN "pending" ELSE init
  /\ Buffers(n, size + n) /\ busy' = "write"
  /\ UNCHANGED <<stored, stream, aborting>>

(* The continuation of a write: the callback, or the rest of the chunk.    *)
Continue ==
  /\ busy = "write" /\ queue = <<>>
  /\ IF rest = 0
     THEN busy' = "no" /\ UNCHANGED <<ring, rest, queue>>
     ELSE Buffers(rest, size) /\ UNCHANGED busy
  /\ UNCHANGED <<size, init, stored, stream, aborting>>

(* beginPartitionedUpload() settles.                                       *)
BeginSettles ==
  /\ init = "pending"
  /\ init' \in {"ok", "failed"}
  /\ UNCHANGED <<ring, size, rest, queue, busy, stored, stream, aborting>>

(* uploadPartition() fulfils, or it or what it waits for rejects: then the *)
(* rest of the chain is skipped up to the callback.                        *)
PartUploads ==
  /\ queue # <<>> /\ init = "ok"
  /\ Reads(Head(queue), upload)
  /\ queue' = Tail(queue)
  /\ UNCHANGED <<size, rest, busy, init, stream, aborting>>

PartFails ==
  /\ queue # <<>> /\ init \in {"ok", "failed"}
  /\ UNCHANGED init /\ Fails
  /\ UNCHANGED <<ring, size, rest, stored>>

-----------------------------------------------------------------------------
(* _final(): what is left goes into a last partition, or the whole buffer  *)
(* into a simple upload.                                                   *)
Final ==
  /\ stream = "open" /\ busy = "no"
  /\ busy' = IF init = "none" THEN "simple" ELSE "lastPart"
  /\ UNCHANGED <<ring, size, rest, queue, init, stored, stream, aborting>>

(* Mutant: a last partition that is not full is forgotten.                 *)
LastPartForgotten ==
  /\ busy = "lastPart" /\ init = "ok"
  /\ IF tail - head >= PartLimit
     THEN Reads([from |-> upload, length |-> tail - head], upload + tail - head)
     ELSE UNCHANGED <<ring, stored>>
  /\ busy' = "finish"
  /\ UNCHANGED <<size, rest, queue, init, stream, aborting>>

LastPartUploads ==
  /\ busy = "lastPart" /\ init = "ok"
  /\ IF tail > head
     THEN Reads([from |-> upload, length |-> tail - head], upload + tail - head)
     ELSE UNCHANGED <<ring, stored>>
  /\ busy' = "finish"
  /\ UNCHANGED <<size, rest, queue, init, stream, aborting>>

LastPartFails ==
  /\ busy = "lastPart" /\ (init = "failed" \/ (init = "ok" /\ tail > head))
  /\ UNCHANGED init /\ Fails
  /\ UNCHANGED <<ring, size, rest, stored>>

(* finishPartitionedUpload() or upload() fulfils: resolve() and callback().*)
UploadFinishes ==
  /\ \/ busy = "finish" /\ UNCHANGED stored
     \/ busy = "simple" /\ stored' = <<[k \in 1 .. tail |-> buffer[k - 1]]>>
  /\ stream' = "finished" /\ busy' = "no"
  /\ UNCHANGED <<ring, size, rest, queue, init, aborting>>

UploadFails ==
  /\ busy \in {"finish", "simple"}
  /\ UNCHANGED init /\ Fails
  /\ UNCHANGED <<ring, size, rest, stored>>

-----------------------------------------------------------------------------
(* The file's source breaks off before its end: pipeline() destroys the    *)
(* stream, and the chain goes on.                                          *)
SourceBreaks ==
  /\ stream = "open" /\ busy \in {"no", "write"}
  /\ UNCHANGED init /\ Destroyed
  /\ UNCHANGED <<ring, size, rest, queue, busy, stored>>

AbortSettles ==
  /\ aborting = "pending" /\ init \in {"ok", "failed"}
  /\ aborting' = "done"
  /\ UNCHANGED <<ring, size, rest, queue, busy, init, stored, stream>>

Chunks == \E n \in 1 .. MaxChunk : WriteTooMuch(n) \/ WriteFirst(n) \/ WriteMore(n)

Storage ==
  \/ BeginSettles \/ PartUploads \/ PartFails \/ LastPartUploads \/ LastPartFails
  \/ UploadFinishes \/ UploadFails \/ AbortSettles

Next == Chunks \/ Continue \/ Final \/ SourceBreaks \/ Storage

Spec == Init /\ [][Next]_vars

(* The storage answers, continuations run, and the source ends the file.   *)
Fairness == WF_vars(Storage) /\ WF_vars(Continue) /\ WF_vars(Chunks \/ Final)

FairSpec == Spec /\ Fairness

-----------------------------------------------------------------------------
Content == FlattenSeq(stored)

(* What is stored is the beginning of the file, byte for byte and in       *)
(* order, however the partitions lie in the ring; nothing is overwritten   *)
(* before the storage has read it.                                         *)
StoredInOrder == \A k \in DOMAIN Content : Content[k] = k

(* A file that is resolved is stored whole, and every partition but the    *)
(* last has the size that the storage was promised.                        *)
ResolvedIsWhole ==
  stream = "finished" =>
    /\ Len(Content) = size
    /\ \A p \in DOMAIN stored : p < Len(stored) => Len(stored[p]) = PartLimit

(* The checksum of a partition, calculated when it is cut, is still that   *)
(* of the bytes that wait to be read.                                      *)
ChecksumsHold ==
  \A p \in DOMAIN queue :
    \A k \in 1 .. queue[p].length :
      queue[p].sum[k] = buffer[(queue[p].from + k - 1) % Length]

(* An upload that was begun is finished or aborted, never both, and one of *)
(* both does happen, and no write waits for ever, when the storage answers.*)
UploadEnds ==
  /\ []~(stream = "finished" /\ aborting # "no")
  /\ init # "none" ~> (stream = "finished" \/ aborting = "done")
  /\ busy = "write" ~> busy # "write"

-----------------------------------------------------------------------------
(* The inductive invariant behind the theorems of UploadStream_proofs.     *)

(* Bytes are still to be stored, and will be unless something fails.       *)
Storing == (stream = "open" \/ busy # "no") /\ busy # "finish"

(* The bytes in the partitions that the storage has read so far.           *)
Read == Len(stored) * PartLimit

(* What each continuation finds: who waits behind what, and which way the  *)
(* upload goes.                                                            *)
PhaseInv ==
  /\ queue # <<>> => busy = "write"
  /\ rest # 0 /\ Storing => busy = "write"
  /\ busy \in {"lastPart", "finish", "simple"} => stream = "open"
  /\ busy \in {"write", "lastPart", "finish"} => init # "none"
  /\ busy = "simple" => init = "none"
  /\ stream = "finished" => busy = "no"
  /\ init # "none" => size > SimpleLimit /\ size > PartLimit

(* Between the head and the tail lie the bytes that follow those read, and *)
(* the partitions of the queue are next to each other from the head on.    *)
RingInv ==
  Storing =>
    /\ size = Read + (tail - head) + rest
    /\ \A k \in 0 .. tail - head - 1 : buffer[(head + k) % Length] = Read + k + 1
    /\ upload = head + Len(queue) * PartLimit
    /\ IF init = "none" THEN head = 0 /\ queue = <<>> /\ stored = <<>>
                        ELSE tail - upload < PartLimit

(* The indices of the first n partitions were taken before the others fell *)
(* back by one round.                                                      *)
QueueInv ==
  /\ \A p \in 1 .. Len(queue) :
       /\ queue[p].length = PartLimit
       /\ queue[p].sum = [k \in 1 .. PartLimit |-> Read + (p - 1) * PartLimit + k]
  /\ \E n \in 0 .. Len(queue) :
       \A p \in 1 .. Len(queue) :
         IF p <= n THEN /\ queue[p].from = head + (p - 1) * PartLimit + Length
                        /\ head + p * PartLimit < Length
                   ELSE queue[p].from = head + (p - 1) * PartLimit

(* The partitions that are stored are the file from its beginning, all of  *)
(* them full but the last.                                                 *)
StoredInv ==
  /\ \A p \in 1 .. Len(stored) :
       /\ stored[p] = [k \in 1 .. Len(stored[p]) |-> (p - 1) * PartLimit + k]
       /\ p < Len(stored) \/ Storing => Len(stored[p]) = PartLimit
  /\ busy = "finish" \/ stream = "finished" =>
       size = IF stored = <<>> THEN 0
              ELSE (Len(stored) - 1) * PartLimit + Len(stored[Len(stored)])

IInv == TypeOK /\ PhaseInv /\ RingInv /\ QueueInv /\ StoredInv
==============================================================================
