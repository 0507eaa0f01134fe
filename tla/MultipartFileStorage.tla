------------------------- MODULE MultipartFileStorage -------------------------
(***************************************************************************)
(* packages/multipart/src/types.ts: what the storages of uploaded files    *)
(* have in common, and how a Multipart reader uses one: the files of a     *)
(* request are saved beside one another, as push() returns while a file is *)
(* being saved, and once the queue is closed does so at once.  clean() is  *)
(* called once, when the handler of the request has ended, whatever goes   *)
(* on by then.                                                             *)
(***************************************************************************)
EXTENDS Naturals, Sequences, FiniteSets

CONSTANTS
  StoredFile,   \* the files of a request
  CountLimit,   \* fileCountLimit
  MaxFailures   \* bound: system calls and requests that fail

ASSUME StorageAssumption == CountLimit \in Nat \ {0} /\ MaxFailures \in Nat

VARIABLES
  file,       \* the promise of saveMultipartFile(): "none", "saving", "saved", "rejected"
  fileCount,  \* #fileCount
  cleaning,   \* the promise of clean(): "no", "pending", "fulfilled", "rejected"
  late,       \* the files that had not settled when clean() began
  failures

storageVars == <<file, fileCount, cleaning, late, failures>>

StorageTypeOK ==
  /\ file \in [StoredFile -> {"none", "saving", "saved", "rejected"}]
  /\ fileCount \in Nat /\ failures \in Nat
  /\ cleaning \in {"no", "pending", "fulfilled", "rejected"}
  /\ late \subseteq StoredFile

StorageInit ==
  /\ file = [f \in StoredFile |-> "none"] /\ fileCount = 0
  /\ cleaning = "no" /\ late = {} /\ failures = 0

Fails == failures < MaxFailures /\ failures' = failures + 1

(* saveMultipartFile(): too many files are rejected at once.               *)
Admit(f) ==
  /\ file[f] = "none"
  /\ fileCount' = fileCount + 1
  /\ file' = [file EXCEPT ![f] = IF fileCount >= CountLimit THEN "rejected" ELSE "saving"]
  /\ late' = IF cleaning = "no" THEN late ELSE late \cup {f}
  /\ UNCHANGED <<cleaning, failures>>

Settle(f, s) ==
  /\ file[f] = "saving" /\ file' = [file EXCEPT ![f] = s]
  /\ UNCHANGED <<fileCount, cleaning, late>>

(* clean() is called; unsettled are the files something still goes on for. *)
CleanBegins(outcome, unsettled) ==
  /\ cleaning = "no" /\ cleaning' = outcome
  /\ late' = unsettled
  /\ UNCHANGED <<file, fileCount, failures>>
===============================================================================
