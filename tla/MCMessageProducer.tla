-------------------------- MODULE MCMessageProducer --------------------------
(* An instance of MessageProducer for TLC.                                    *)
EXTENDS MessageProducer
==============================================================================
