-------------------------- MODULE MCOutgoingQueue --------------------------
(* Small instances of the outgoing queue: a channel of capacity Cap,      *)
(* producers and workers as model values, MaxParcels calls of Add.        *)
EXTENDS OutgoingQueue

CONSTANTS p1, w1, w2

MCOneProducer == {p1}
MCWorkers == {w1, w2}
MCOneWorker == {w1}
=============================================================================
