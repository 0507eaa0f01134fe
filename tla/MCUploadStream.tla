---------------------------- MODULE MCUploadStream ----------------------------
(* Instances of UploadStream for TLC.                                        *)
EXTENDS UploadStream
===============================================================================
