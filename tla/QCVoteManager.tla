--------------------------- MODULE QCVoteManager ---------------------------
(***************************************************************************)
(* The vote manager of src/consensus/qc_vote_manager.go: votes collected   *)
(* per (height, round, blockID) key, a seal per key once a QC is formed,   *)
(* and the QC aggregated from the votes of a key.                          *)
(*                                                                         *)
(* A key stands for one voteKey; a hash is the 32-byte vote hash a voter   *)
(* signed, abstracted to the honest hash of the key or a different one.   *)
(* A voter that sends a malformed signature makes SigFromBytes fail.       *)
(***************************************************************************)
EXTENDS Naturals, FiniteSets, Functions, TLC

CONSTANTS
  Voters,        \* committee indices (signer indexes of the votes)
  Keys,          \* voteKey values {Height, Round, BlockID}
  Hashes         \* vote hashes a voter may sign for a key

VARIABLES
  votes,         \* m.votes: key -> (index -> hash); DOMAIN = keys with a map entry
  sealed,        \* m.sealed: keys for which a QC has been formed
  qcs            \* history: every QC returned, [key, voters, hash, via]

vars == <<votes, sealed, qcs>>

committeeSize == Cardinality(Voters)

\* MajorityTwoThird(count, n): strict two-thirds on integers (spec 4.2;
\* the function itself is not under src/).
MajorityTwoThird(count, n) == count * 3 > n * 2

EmptyVotes == [i \in {} |-> CHOOSE h \in Hashes : TRUE]

TypeOK ==
  /\ DOMAIN votes \subseteq Keys
  /\ \A k \in DOMAIN votes : DOMAIN votes[k] \subseteq Voters
                             /\ Range(votes[k]) \subseteq Hashes
  /\ sealed \subseteq Keys
  /\ qcs \subseteq [key : Keys, voters : SUBSET Voters, hash : Hashes,
                    via : {"AddVote", "Aggregate"}]

Init ==
  /\ votes = [k \in {} |-> EmptyVotes]
  /\ sealed = {}
  /\ qcs = {}

\* Aggregate(height, round, blockID, epoch) on the votes vs: seals the key;
\* the bit array is the set of indexes present; VoterMsgHash is the hash
\* of the vote visited last by the map iteration, whose order Go leaves
\* unspecified, so any of the recorded hashes.
AggregateQCs(vs, k, via) ==
  { [key |-> k, voters |-> DOMAIN vs[k], hash |-> vs[k][i], via |-> via] :
      i \in DOMAIN vs[k] }

\* The entry of the key is created before the sealed check.
WithEntry(k) ==
  IF k \in DOMAIN votes THEN votes ELSE votes @@ (k :> EmptyVotes)

\* AddVote(index, epoch, height, round, blockID, sig, hash).
\* sigOk is the outcome of system.SigFromBytes(sig).
AddVote(index, k, hash, sigOk) ==
  LET vs0 == WithEntry(k)
      vs1 == [vs0 EXCEPT ![k] = (index :> hash) @@ vs0[k]]
      \* voteCount := uint32(len(m.votes))
      voteCount == Cardinality(DOMAIN vs1)
  IN
  IF k \in sealed \/ ~sigOk
  THEN /\ votes' = vs0
       /\ UNCHANGED <<sealed, qcs>>
  ELSE /\ votes' = vs1
       /\ IF MajorityTwoThird(voteCount, committeeSize)
          THEN /\ sealed' = sealed \cup {k}
               /\ \E qc \in AggregateQCs(vs1, k, "AddVote") : qcs' = qcs \cup {qc}
          ELSE UNCHANGED <<sealed, qcs>>

\* The exported Aggregate, called by the pacemaker after AddVote on a key
\* that already has votes: it seals the key whatever the count.
Aggregate(k) ==
  /\ k \in DOMAIN votes
  /\ votes[k] # EmptyVotes
  /\ sealed' = sealed \cup {k}
  /\ \E qc \in AggregateQCs(votes, k, "Aggregate") : qcs' = qcs \cup {qc}
  /\ UNCHANGED votes

Next ==
  \/ \E i \in Voters, k \in Keys, h \in Hashes, ok \in BOOLEAN : AddVote(i, k, h, ok)
  \/ \E k \in Keys : Aggregate(k)

Spec == Init /\ [][Next]_vars

-----------------------------------------------------------------------------
\* A QC returned by AddVote is backed by a two-thirds majority of distinct
\* signers for its own key (spec 4.2: seal when the count of distinct
\* indexes reaches the supermajority).
QCHasQuorum ==
  \A q \in qcs : MajorityTwoThird(Cardinality(q.voters), committeeSize)
=============================================================================
