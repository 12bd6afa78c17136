---------------------------- MODULE MCPacemaker ----------------------------
(* A committee of four (QC and TC threshold: three), rounds 0..MaxRound. *)
EXTENDS Pacemaker

\* At most MaxTimeoutMsgs Timeout messages are sent in a behaviour.
MaxTimeoutMsgs == 3
TimeoutBound == Cardinality({m \in msgs : m.type = "Timeout"}) <= MaxTimeoutMsgs
=============================================================================
