----------------------------- MODULE DiskStorage -----------------------------
(***************************************************************************)
(* packages/multipart/src/disk-storage.ts: each file is written to a       *)
(* temporary directory of the storage; its handle stays open for reading   *)
(* until clean() closes and removes what was saved.                        *)
(***************************************************************************)
EXTENDS MultipartFileStorage

VARIABLES
  removeFilesOnClean,
  tempDir,   \* #ensureTempDirPromise: "none", "pending", "made", "failed"; or "removed"
  step,      \* step[f]: what saving f awaits: "none", "tempDir", "open", "write", "close", "rm"
  handles,   \* the files with an open handle
  onDisk,    \* the files in the directory
  fileEntries,
  toClean,   \* the entries clean() has taken and not finished with
  stuck,     \* the files of which a close() or an rm() has failed
  sweep      \* what clean() awaits: "no", "entries", "tempDir"; "failed": not removed

diskVars == <<removeFilesOnClean, tempDir, step, handles, onDisk, fileEntries, toClean, stuck,
              sweep>>

DiskTypeOK ==
  /\ removeFilesOnClean \in BOOLEAN
  /\ tempDir \in {"none", "pending", "made", "failed", "removed"}
  /\ step \in [StoredFile -> {"none", "tempDir", "open", "write", "close", "rm"}]
  /\ handles \subseteq onDisk /\ onDisk \subseteq StoredFile
  /\ fileEntries \subseteq StoredFile /\ toClean \subseteq fileEntries
  /\ stuck \subseteq StoredFile
  /\ sweep \in {"no", "entries", "tempDir", "failed"}

DiskInit ==
  /\ removeFilesOnClean \in BOOLEAN
  /\ tempDir = "none" /\ step = [f \in StoredFile |-> "none"]
  /\ handles = {} /\ onDisk = {} /\ fileEntries = {} /\ toClean = {}
  /\ stuck = {} /\ sweep = "no"

EnsureTempDir == tempDir' = IF tempDir = "none" THEN "pending" ELSE tempDir

(* mkdtemp() settles; the storage remembers a failure, too.                *)
TempDirSettles ==
  /\ tempDir = "pending"
  /\ \/ tempDir' = "made" /\ UNCHANGED failures
     \/ tempDir' = "failed" /\ Fails
  /\ UNCHANGED <<file, fileCount, cleaning, late, removeFilesOnClean, step, handles, onDisk,
                 fileEntries, toClean, stuck, sweep>>

DiskSave(f) ==
  /\ Admit(f)
  /\ IF file'[f] = "saving"
     THEN EnsureTempDir /\ step' = [step EXCEPT ![f] = "tempDir"]
     ELSE UNCHANGED <<tempDir, step>>
  /\ UNCHANGED <<removeFilesOnClean, handles, onDisk, fileEntries, toClean, stuck, sweep>>

GoOn(f, s) == step' = [step EXCEPT ![f] = s]

TempDirThere(f) ==
  /\ step[f] = "tempDir" /\ tempDir \notin {"none", "pending"}
  /\ IF tempDir = "failed"
     THEN Settle(f, "rejected") /\ GoOn(f, "none") /\ UNCHANGED failures
     ELSE GoOn(f, "open") /\ UNCHANGED storageVars
  /\ UNCHANGED <<removeFilesOnClean, tempDir, handles, onDisk, fileEntries, toClean, stuck, sweep>>

(* open(), which needs the directory.                                      *)
OpenSettles(f) ==
  /\ step[f] = "open"
  /\ \/ /\ tempDir = "made"
        /\ handles' = handles \cup {f} /\ onDisk' = onDisk \cup {f}
        /\ GoOn(f, "write")
        /\ UNCHANGED storageVars
     \/ /\ IF tempDir = "removed" THEN UNCHANGED failures ELSE Fails
        /\ Settle(f, "rejected") /\ GoOn(f, "none")
        /\ UNCHANGED <<handles, onDisk>>
  /\ UNCHANGED <<removeFilesOnClean, tempDir, fileEntries, toClean, stuck, sweep>>

(* pipeline(): the file is written and becomes an entry, or its source or  *)
(* a write fails and the finally clause takes it away.                     *)
WriteSettles(f) ==
  /\ step[f] = "write"
  /\ \/ /\ Settle(f, "saved") /\ GoOn(f, "none")
        /\ fileEntries' = fileEntries \cup {f}
        /\ UNCHANGED failures
     \/ /\ Fails
        /\ GoOn(f, "close")
        /\ UNCHANGED <<file, fileCount, cleaning, late, fileEntries>>
  /\ UNCHANGED <<removeFilesOnClean, tempDir, handles, onDisk, toClean, stuck, sweep>>

(* The finally clause awaits both: a close() that fails, with the handle   *)
(* open or not, leaves the rm() out.                                       *)
CloseSettles(f) ==
  /\ step[f] = "close"
  /\ \/ /\ handles' = handles \ {f} /\ GoOn(f, "rm")
        /\ UNCHANGED <<storageVars, stuck>>
     \/ /\ Fails /\ Settle(f, "rejected") /\ GoOn(f, "none")
        /\ handles' \in {handles, handles \ {f}}
        /\ stuck' = stuck \cup {f}
  /\ UNCHANGED <<removeFilesOnClean, tempDir, onDisk, fileEntries, toClean, sweep>>

(* Mutant: the finally clause only closes what it opened.                  *)
RmForgotten(f) ==
  /\ step[f] = "rm"
  /\ Settle(f, "rejected") /\ GoOn(f, "none")
  /\ UNCHANGED <<failures, removeFilesOnClean, tempDir, handles, onDisk, fileEntries, toClean,
                 stuck, sweep>>

RmSettles(f) ==
  /\ step[f] = "rm"
  /\ Settle(f, "rejected") /\ GoOn(f, "none")
  /\ \/ onDisk' = onDisk \ {f} /\ UNCHANGED <<failures, stuck>>
     \/ Fails /\ stuck' = stuck \cup {f} /\ UNCHANGED onDisk
  /\ UNCHANGED <<removeFilesOnClean, tempDir, handles, fileEntries, toClean, sweep>>

(* clean() takes the entries there are.                                    *)
DiskClean ==
  /\ CleanBegins("pending", {f \in StoredFile : file[f] \in {"none", "saving"}})
  /\ toClean' = fileEntries /\ sweep' = "entries"
  /\ UNCHANGED <<removeFilesOnClean, tempDir, step, handles, onDisk, fileEntries, stuck>>

(* The first entry that fails rejects clean(), which then leaves the       *)
(* directory alone; the other entries go on.                               *)
EntryFails(f) ==
  /\ Fails
  /\ toClean' = toClean \ {f} /\ stuck' = stuck \cup {f}
  /\ cleaning' = "rejected" /\ sweep' = "no"
  /\ UNCHANGED <<file, fileCount, late>>

(* Each is closed, then removed.                                           *)
CloseEntry(f) ==
  /\ f \in toClean \cap handles
  /\ \/ /\ handles' = handles \ {f}
        /\ toClean' = IF removeFilesOnClean THEN toClean ELSE toClean \ {f}
        /\ UNCHANGED <<storageVars, stuck, sweep>>
     \/ EntryFails(f) /\ handles' \in {handles, handles \ {f}}
  /\ UNCHANGED <<removeFilesOnClean, tempDir, step, onDisk, fileEntries>>

RemoveEntry(f) ==
  /\ f \in toClean \ handles
  /\ \/ /\ onDisk' = onDisk \ {f} /\ toClean' = toClean \ {f}
        /\ UNCHANGED <<storageVars, stuck, sweep>>
     \/ EntryFails(f) /\ UNCHANGED onDisk
  /\ UNCHANGED <<removeFilesOnClean, tempDir, step, handles, fileEntries>>

(* All entries are done with; the directory is next, even one that has to  *)
(* be made for it.                                                         *)
EntriesCleaned ==
  /\ sweep = "entries" /\ toClean = {}
  /\ IF removeFilesOnClean
     THEN EnsureTempDir /\ sweep' = "tempDir" /\ UNCHANGED cleaning
     ELSE cleaning' = "fulfilled" /\ sweep' = "no" /\ UNCHANGED tempDir
  /\ UNCHANGED <<file, fileCount, late, failures, removeFilesOnClean, step, handles, onDisk,
                 fileEntries, toClean, stuck>>

(* rmdir() refuses a directory with a file in it, and may fail.            *)
RmdirSettles ==
  /\ sweep = "tempDir" /\ tempDir \in {"made", "failed"}
  /\ \/ /\ tempDir = "made" /\ onDisk = {}
        /\ tempDir' = "removed" /\ cleaning' = "fulfilled" /\ sweep' = "no"
        /\ UNCHANGED failures
     \/ /\ cleaning' = "rejected" /\ UNCHANGED tempDir
        /\ IF tempDir = "failed" \/ onDisk # {}
           THEN sweep' = "no" /\ UNCHANGED failures
           ELSE sweep' = "failed" /\ Fails
  /\ UNCHANGED <<file, fileCount, late, removeFilesOnClean, step, handles, onDisk, fileEntries,
                 toClean, stuck>>

DiskStep ==
  \/ TempDirSettles \/ DiskClean \/ EntriesCleaned \/ RmdirSettles
  \/ \E f \in StoredFile :
       \/ DiskSave(f) \/ TempDirThere(f) \/ OpenSettles(f) \/ WriteSettles(f)
       \/ CloseSettles(f) \/ RmSettles(f) \/ CloseEntry(f) \/ RemoveEntry(f)

-----------------------------------------------------------------------------
(* Until clean() begins, what was saved can be read: its handle is open.   *)
DiskReadable == \A f \in StoredFile : file[f] = "saved" /\ cleaning = "no" => f \in handles \cap onDisk

(* A clean() that fulfils has removed every file and the directory, if it  *)
(* is to.  One that rejects tells of a file that had not settled when it   *)
(* began, or of a step that failed: a close(), an rm(), the rmdir() or the *)
(* mkdtemp().  Either way, when all entries are done with (those that did  *)
(* not fail go on behind the rejection), no handle is open and no file is  *)
(* left, but of a file that was late or whose own close() or rm() failed.  *)
DiskIsClean ==
  /\ cleaning = "fulfilled" /\ removeFilesOnClean => onDisk = {} /\ tempDir = "removed"
  /\ cleaning = "rejected" =>
       late # {} \/ stuck # {} \/ tempDir = "failed" \/ sweep = "failed"
  /\ cleaning = "fulfilled" \/ (cleaning = "rejected" /\ toClean = {}) =>
       /\ handles \subseteq late \cup stuck
       /\ removeFilesOnClean => onDisk \subseteq late \cup stuck
===============================================================================
