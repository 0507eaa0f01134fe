-------------------------- MODULE MCEntryPoints --------------------------------
(* An instance of EntryPoints for TLC: the signals and exit codes of      *)
(* defaultRunOption.                                                            *)
EXTENDS EntryPoints

MCCode == {NormalExit, ErrorExit, ForcedExit}
MCSignalExit == [s \in Signal |-> NormalExit]
MCSignalForcedExit == [s \in Signal |-> ForcedExit]
================================================================================
