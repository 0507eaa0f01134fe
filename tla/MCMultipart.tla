------------------------------ MODULE MCMultipart ------------------------------
(* Instances of Multipart for TLC.                                            *)
EXTENDS Multipart
================================================================================
