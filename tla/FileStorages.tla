---------------------------- MODULE FileStorages ----------------------------
(***************************************************************************)
(* A request whose files go to the storage that the handler has chosen:    *)
(* Multipart.entries(handler) of packages/multipart/src/index.ts.          *)
(***************************************************************************)
EXTENDS InMemoryStorage, DiskStorage, S3Storage

VARIABLES
  handler   \* "memory", which is the default, "disk" or "s3"

storagesVars == <<storageVars, memoryVars, diskVars, s3Vars, handler>>

StoragesTypeOK ==
  /\ handler \in {"memory", "disk", "s3"}
  /\ StorageTypeOK /\ MemoryTypeOK /\ DiskTypeOK /\ S3TypeOK

StoragesInit ==
  /\ handler \in {"memory", "disk", "s3"}
  /\ StorageInit /\ MemoryInit /\ DiskInit /\ S3Init

StoragesNext ==
  /\ UNCHANGED handler
  /\ \/ handler = "memory" /\ MemoryStep /\ UNCHANGED <<diskVars, s3Vars>>
     \/ handler = "disk" /\ DiskStep /\ UNCHANGED <<memoryVars, s3Vars>>
     \/ handler = "s3" /\ S3Step /\ UNCHANGED <<memoryVars, diskVars>>

StoragesSpec == StoragesInit /\ [][StoragesNext]_storagesVars

-----------------------------------------------------------------------------
(* Whatever the storage, a file that was saved is there as it came: all of *)
(* its bytes in memory, unless a chunk outgrows the buffer                 *)
(* (in-memory-storage.ts:64); a file with an open handle on disk, until    *)
(* the clean-up; the parts in order at S3.                                 *)
FilesAreKept ==
  CASE handler = "memory" -> SmallChunksAreKept
    [] handler = "disk"   -> DiskReadable
    [] handler = "s3"     -> ObjectIsWhole

(* After the clean-up nothing is left of a request, over every failure of  *)
(* a step, but of a file that is still being saved when clean() begins     *)
(* (index.ts:199) or whose own close() or rm() failed                      *)
(* (disk-storage.ts:108, 117).                                             *)
NothingLeftOver ==
  (handler = "disk" => DiskIsClean) /\ (handler = "s3" => NoUploadForgotten)
=============================================================================
