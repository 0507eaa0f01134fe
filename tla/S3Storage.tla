------------------------------- MODULE S3Storage -------------------------------
(***************************************************************************)
(* MultipartFileRemoteStorage (packages/multipart/src/remote-storage.ts)   *)
(* over S3StorageAdaptor (packages/multipart-s3-adaptor/src/index.ts).     *)
(*                                                                         *)
(* The UploadStream between them (a module of its own) calls the adaptor:  *)
(* upload() for a small file; else beginPartitionedUpload(), and then one  *)
(* uploadPartition() after the other and finishPartitionedUpload(); and    *)
(* abortPartitionedUpload() when one of them or the source has failed.  S3 *)
(* is external: an upload that was created stays until it is completed or  *)
(* aborted, and its object is made of the parts in the order given.        *)
(***************************************************************************)
EXTENDS MultipartFileStorage

CONSTANTS
  MaxParts   \* bound: partitions of a file

ASSUME S3Assumption == MaxParts \in Nat

VARIABLES
  request,     \* request[f]: "none", "put", "create", "ready", "part", "complete"
  partNumber,  \* of the upload of f, as in its S3MultipartUploadState
  eTags,       \* the numbers of the parts whose tags it has, in order
  aborting,    \* the files whose upload is to be aborted
  abandoned,   \* those for which that has failed
  uploads,     \* the uploads there are at S3
  object,      \* object[f]: the parts of the object that is stored, or <<>>
  destroyed    \* the client was destroyed by cleanup()

s3Vars == <<request, partNumber, eTags, aborting, abandoned, uploads, object, destroyed>>

S3TypeOK ==
  /\ request \in [StoredFile -> {"none", "put", "create", "ready", "part", "complete"}]
  /\ partNumber \in [StoredFile -> Nat \ {0}]
  /\ eTags \in [StoredFile -> Seq(Nat)] /\ object \in [StoredFile -> Seq(Nat)]
  /\ aborting \subseteq StoredFile /\ abandoned \subseteq StoredFile
  /\ uploads \subseteq StoredFile /\ destroyed \in BOOLEAN

S3Init ==
  /\ request = [f \in StoredFile |-> "none"] /\ partNumber = [f \in StoredFile |-> 1]
  /\ eTags = [f \in StoredFile |-> <<>>] /\ aborting = {} /\ abandoned = {} /\ uploads = {}
  /\ object = [f \in StoredFile |-> <<>>] /\ destroyed = FALSE

Ask(f, r) == request' = [request EXCEPT ![f] = r]

S3Save(f) ==
  /\ Admit(f)
  /\ IF file'[f] = "saving" THEN \E r \in {"put", "create"} : Ask(f, r) ELSE UNCHANGED request
  /\ UNCHANGED <<partNumber, eTags, aborting, abandoned, uploads, object, destroyed>>

(* upload(): the whole file is its only part.                              *)
PutSettles(f) ==
  /\ request[f] = "put"
  /\ Ask(f, "none")
  /\ \/ /\ object' = [object EXCEPT ![f] = <<1>>]
        /\ IF file[f] = "saving" THEN Settle(f, "saved") /\ UNCHANGED failures
           ELSE UNCHANGED storageVars
     \/ /\ IF destroyed THEN UNCHANGED failures ELSE Fails
        /\ IF file[f] = "saving" THEN Settle(f, "rejected")
           ELSE UNCHANGED <<file, fileCount, cleaning, late>>
        /\ UNCHANGED object
  /\ UNCHANGED <<partNumber, eTags, aborting, abandoned, uploads, destroyed>>

(* A request fails: the file is rejected, and what was begun is aborted.   *)
RequestFails(f) ==
  /\ IF destroyed THEN UNCHANGED failures ELSE Fails
  /\ IF file[f] = "saving" THEN Settle(f, "rejected")
     ELSE UNCHANGED <<file, fileCount, cleaning, late>>
  /\ Ask(f, "none")
  /\ aborting' = IF request[f] = "create" THEN aborting \ {f} ELSE aborting \cup ({f} \cap uploads)
  /\ UNCHANGED <<partNumber, eTags, abandoned, uploads, object, destroyed>>

BeginSettles(f) ==
  /\ request[f] = "create"
  /\ \/ Ask(f, "ready") /\ uploads' = uploads \cup {f}
        /\ UNCHANGED <<storageVars, partNumber, eTags, aborting, abandoned, object, destroyed>>
     \/ RequestFails(f)

(* uploadPartition() takes its number when it is called ...                *)
UploadPartition(f) ==
  /\ request[f] = "ready" /\ partNumber[f] <= MaxParts
  /\ Ask(f, "part")
  /\ partNumber' = [partNumber EXCEPT ![f] = @ + 1]
  /\ UNCHANGED <<storageVars, eTags, aborting, abandoned, uploads, object, destroyed>>

(* ... and has its tag when it is stored.                                  *)
PartSettles(f) ==
  /\ request[f] = "part"
  /\ \/ /\ f \in uploads
        /\ Ask(f, "ready")
        /\ eTags' = [eTags EXCEPT ![f] = Append(@, partNumber[f] - 1)]
        /\ UNCHANGED <<storageVars, partNumber, aborting, abandoned, uploads, object, destroyed>>
     \/ f \in uploads /\ RequestFails(f)
     \/ /\ f \notin uploads
        /\ Ask(f, "none")
        /\ UNCHANGED <<storageVars, partNumber, eTags, aborting, abandoned, uploads, object, destroyed>>

(* finishPartitionedUpload(): the i-th tag is that of part i.              *)
FinishUpload(f) ==
  /\ request[f] = "ready" /\ file[f] = "saving"
  /\ Ask(f, "complete")
  /\ UNCHANGED <<storageVars, partNumber, eTags, aborting, abandoned, uploads, object, destroyed>>

FinishSettles(f) ==
  /\ request[f] = "complete"
  /\ \/ /\ Settle(f, "saved") /\ Ask(f, "none")
        /\ uploads' = uploads \ {f} /\ object' = [object EXCEPT ![f] = eTags[f]]
        /\ UNCHANGED <<failures, partNumber, eTags, aborting, abandoned, destroyed>>
     \/ RequestFails(f)

(* pipeline() destroys the UploadStream, and the partitions that are       *)
(* waiting still go on.                                                    *)
SourceBreaks(f) ==
  /\ request[f] \in {"create", "ready", "part"} /\ Settle(f, "rejected") /\ Fails
  /\ aborting' = aborting \cup {f}
  /\ UNCHANGED <<request, partNumber, eTags, abandoned, uploads, object, destroyed>>

(* abortPartitionedUpload(), once the upload has been created.             *)
AbortSettles(f) ==
  /\ f \in aborting /\ request[f] # "create"
  /\ aborting' = aborting \ {f}
  /\ \/ uploads' = uploads \ {f} /\ UNCHANGED <<abandoned, failures>>
     \/ UNCHANGED uploads /\ abandoned' = abandoned \cup {f} /\ IF destroyed THEN UNCHANGED failures ELSE Fails
  /\ UNCHANGED <<file, fileCount, cleaning, late, request, partNumber, eTags, object, destroyed>>

(* cleanup() destroys the client, whatever is under way.                   *)
S3Clean ==
  /\ CleanBegins("fulfilled", {f \in StoredFile : file[f] \in {"none", "saving"} \/ f \in aborting})
  /\ destroyed' = TRUE
  /\ UNCHANGED <<request, partNumber, eTags, aborting, abandoned, uploads, object>>

S3Step ==
  \/ \E f \in StoredFile :
       \/ S3Save(f) \/ PutSettles(f) \/ BeginSettles(f) \/ UploadPartition(f) \/ PartSettles(f)
       \/ FinishUpload(f) \/ FinishSettles(f) \/ SourceBreaks(f) \/ AbortSettles(f)
  \/ S3Clean

-----------------------------------------------------------------------------
(* The object of a file that was resolved consists of its parts in order.  *)
ObjectIsWhole ==
  \A f \in StoredFile : file[f] = "saved" /\ request[f] = "none" /\ partNumber[f] > 1 =>
    object[f] = [k \in 1 .. partNumber[f] - 1 |-> k]

(* No upload is forgotten at S3: each has somebody who will complete or    *)
(* abort it, unless the abort has failed or cleanup() came before it.      *)
NoUploadForgotten ==
  uploads \subseteq {f \in StoredFile : file[f] = "saving"} \cup aborting \cup abandoned \cup late
===============================================================================
