\* One producer and one worker around a channel of one; no shutdown.
\* The system stops once MaxParcels parcels are handled or after shutdown.
CONSTANTS
  p1 = p1
  w1 = w1
  w2 = w2
  Producers <- MCOneProducer
  Workers <- MCOneWorker
  Cap = 1
  MaxParcels = 2
  MayClose = FALSE
SPECIFICATION FairSpec
CHECK_DEADLOCK FALSE
PROPERTY AddReturns
