--------------------------- MODULE InMemoryStorage ---------------------------
(***************************************************************************)
(* packages/multipart/src/in-memory-storage.ts: a file is collected in a   *)
(* buffer that grows with the chunks.                                      *)
(***************************************************************************)
EXTENDS MultipartFileStorage

CONSTANTS
  SizeLimit,    \* fileSizeLimit
  ChunkLengths  \* the lengths of chunks of a file

ASSUME MemoryAssumption == SizeLimit \in Nat \ {0} /\ ChunkLengths \subseteq Nat \ {0}

VARIABLES
  buffer,     \* buffer[f]: what saveMultipartFile(f) keeps: the length of its
              \* buffer, lastBufferCapacity, and the bytes that came
  missing,    \* missing[f]: those of them that did not fit into the buffer
  longest     \* longest[f]: the longest chunk

memoryVars == <<buffer, missing, longest>>

Least(a, b) == IF a < b THEN a ELSE b

Buffer == [capacity : 0 .. SizeLimit, last : Nat, size : 0 .. SizeLimit]

MemoryTypeOK ==
  /\ buffer \in [StoredFile -> Buffer]
  /\ missing \in [StoredFile -> Nat] /\ longest \in [StoredFile -> Nat]

NewBuffer == [capacity |-> Least(SizeLimit, 32), last |-> 16, size |-> 0]

MemoryInit ==
  /\ buffer = [f \in StoredFile |-> NewBuffer]
  /\ missing = [f \in StoredFile |-> 0] /\ longest = [f \in StoredFile |-> 0]

MemorySave(f) == Admit(f) /\ UNCHANGED memoryVars

(* Mutant: the buffer grows to twice what it was before the last growth.   *)
GrownFromLast(b, n) ==
  IF b.size + n > b.capacity
  THEN [capacity |-> Least(SizeLimit, b.last + b.last), last |-> b.capacity, size |-> b.size]
  ELSE b

(* One step of a Fibonacci sequence, whatever the length of the chunk.     *)
Grown(b, n) ==
  IF b.size + n > b.capacity
  THEN [capacity |-> Least(SizeLimit, b.capacity + b.last), last |-> b.capacity, size |-> b.size]
  ELSE b

(* The bytes of a chunk that copy() finds no room for.                     *)
CutOff(b, n) == n - Least(n, IF b.capacity > b.size THEN b.capacity - b.size ELSE 0)

(* 'data': a chunk too much rejects; copy() takes what fits.               *)
Chunk(f, n) ==
  /\ file[f] = "saving"
  /\ longest' = [longest EXCEPT ![f] = IF n > @ THEN n ELSE @]
  /\ IF buffer[f].size + n > SizeLimit
     THEN Settle(f, "rejected") /\ UNCHANGED <<failures, buffer, missing>>
     ELSE LET grown == Grown(buffer[f], n)
          IN /\ buffer' = [buffer EXCEPT ![f] = [grown EXCEPT !.size = @ + n]]
             /\ missing' = [missing EXCEPT ![f] = @ + CutOff(grown, n)]
             /\ UNCHANGED storageVars

(* 'end' and 'error'.                                                      *)
MemorySettles(f) ==
  /\ \/ Settle(f, "saved") /\ UNCHANGED failures
     \/ Settle(f, "rejected") /\ Fails
  /\ UNCHANGED memoryVars

(* clean(): there is nothing to clean.                                     *)
MemoryClean ==
  /\ CleanBegins("fulfilled", {f \in StoredFile : file[f] \in {"none", "saving"}})
  /\ UNCHANGED memoryVars

MemoryStep ==
  \/ \E f \in StoredFile : MemorySave(f) \/ (\E n \in ChunkLengths : Chunk(f, n)) \/ MemorySettles(f)
  \/ MemoryClean

-----------------------------------------------------------------------------
(* The content of a file is what came, as long as no chunk is longer than  *)
(* the first step of the growth.                                           *)
SmallChunksAreKept == \A f \in StoredFile : longest[f] <= 16 => missing[f] = 0

(* The content is what came: expect(result.content).toEqual(...) of the    *)
(* test (in-memory-storage.spec.ts:31), which sends chunks of six bytes.   *)
ContentIsKept == \A f \in StoredFile : file[f] = "saved" => missing[f] = 0
===============================================================================
