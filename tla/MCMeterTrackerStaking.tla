------------------------ MODULE MCMeterTrackerStaking ------------------------
EXTENDS MeterTrackerStaking

CONSTANTS a1, a2, a3

\* a1 only stakes; a2 and a3 are listed candidates that may also stake.
MCAddrs == {a1, a2, a3}
MCCands == {a2, a3}
==============================================================================
