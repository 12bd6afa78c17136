-------------------------- MODULE MCQCVoteManager --------------------------
(* A committee of four (threshold: 3 distinct signers), three vote keys   *)
(* and two hashes: the honest hash and one a Byzantine voter may sign.   *)
EXTENDS QCVoteManager

CONSTANTS k1, k2, k3, hGood, hBad

MCVoters == 0..3
MCKeys == {k1, k2, k3}
MCHashes == {hGood, hBad}
\* Honest voters only: every vote of a key carries the same hash.
MCHonestHashes == {hGood}
=============================================================================
