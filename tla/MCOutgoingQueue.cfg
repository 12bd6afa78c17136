\* One producer (sendMsg runs on the pacemaker's main loop only), two
\* workers, a channel of two; the context may be cancelled; fair
\* scheduling of the goroutines.  The system stops once
\* MaxParcels parcels are handled or after shutdown.
CONSTANTS
  p1 = p1
  w1 = w1
  w2 = w2
  Producers <- MCOneProducer
  Workers <- MCWorkers
  Cap = 2
  MaxParcels = 4
  MayClose = TRUE
SPECIFICATION FairSpec
CHECK_DEADLOCK FALSE
PROPERTY ParcelsLeaveChannel
