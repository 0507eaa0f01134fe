--------------------------- MODULE MCFileStorages ---------------------------
(* An instance of FileStorages for TLC.                                      *)
EXTENDS FileStorages, TLC

(* The files of a request are told apart by nothing.                         *)
Symmetry == Permutations(StoredFile)
=============================================================================
