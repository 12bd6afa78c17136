------------------------- MODULE MeterTrackerStaking -------------------------
(***************************************************************************)
(* The staking bookkeeping of src/builtin/metertracker/                     *)
(* meter_tracker_staking.go: each address has a free MTRG balance and a    *)
(* bounded balance; buckets lock bounded MTRG for a candidate, and each    *)
(* candidate keeps the list of its buckets and their total votes.          *)
(*                                                                         *)
(* Every exported method is one atomic step (it runs inside the execution  *)
(* of one transaction clause).  An error return leaves the state as it     *)
(* was, so a method that fails is a stutter step and only its success path *)
(* is an action; the guards are the conditions of its early returns.       *)
(*                                                                         *)
(* Amounts are small integers; MinBound stands for meter.MIN_BOUND_BALANCE. *)
(* A bucket ID is a hash of its fields and a nonce: here a fresh number.   *)
(* Timestamps and lock times are left out (nothing here reads MatureTime). *)
(* The bucket and candidate types are not under src/: NewBucket makes     *)
(* TotalVotes equal to the value, AddBucket/RemoveBucket add or remove a  *)
(* bucket ID and its TotalVotes on the candidate (what the commented-out   *)
(* lines next to the calls in BucketUpdateCandidate do).                  *)
(***************************************************************************)
EXTENDS Integers, FiniteSets, FiniteSetsExt

CONSTANTS
  Addrs,          \* addresses that own buckets or receive withdrawals
  Cands,          \* addresses listed as candidates (a subset of Addrs)
  MaxBuckets,     \* bucket IDs are 1..MaxBuckets
  Amounts,        \* amounts passed to the methods
  MinBound,       \* meter.MIN_BOUND_BALANCE
  InitBalance,    \* free MTRG of every address at the start
  GenesisBonus    \* bonus votes of a bucket present from genesis

ASSUME Cands \subseteq Addrs /\ MaxBuckets \in Nat \ {0}
ASSUME Amounts \subseteq Nat /\ MinBound \in Nat \ {0}
ASSUME InitBalance \in Nat /\ GenesisBonus \in Nat

Ids == 1..MaxBuckets
Bucket == [owner : Addrs, cand : Cands, value : Nat, votes : Nat,
           bonus : Nat, unbounded : BOOLEAN, forever : BOOLEAN]

VARIABLES
  balance,      \* state.GetBalance: free MTRG
  bounded,      \* state.GetBoundedBalance
  bkt,          \* every bucket made so far, by ID (its last stored value)
  listed,       \* IDs in the bucket list (state.GetBucketList)
  candBuckets,  \* candidate.Buckets
  candVotes     \* candidate.TotalVotes

vars == <<balance, bounded, bkt, listed, candBuckets, candVotes>>

TypeOK ==
  /\ balance \in [Addrs -> Int] /\ bounded \in [Addrs -> Int]
  /\ DOMAIN bkt \subseteq Ids /\ \A i \in DOMAIN bkt : bkt[i] \in Bucket
  /\ listed \subseteq DOMAIN bkt
  /\ candBuckets \in [Cands -> SUBSET Ids] /\ candVotes \in [Cands -> Int]

\* A genesis bucket of owner o for candidate c with bonus votes.
GenesisBucket(o, c, fv) ==
  [owner |-> o, cand |-> c, value |-> MinBound, votes |-> MinBound + GenesisBonus,
   bonus |-> GenesisBonus, unbounded |-> FALSE, forever |-> fv]

\* The state after genesis: no bucket, or one bucket with bonus votes.
Init ==
  \/ /\ balance = [a \in Addrs |-> InitBalance]
     /\ bounded = [a \in Addrs |-> 0]
     /\ bkt = [i \in {} |-> GenesisBucket(CHOOSE a \in Addrs : TRUE,
                                           CHOOSE c \in Cands : TRUE, FALSE)]
     /\ listed = {}
     /\ candBuckets = [c \in Cands |-> {}] /\ candVotes = [c \in Cands |-> 0]
  \/ \E o \in Addrs, c \in Cands, fv \in BOOLEAN :
     /\ o # c
     /\ balance = [a \in Addrs |-> IF a = o THEN InitBalance - MinBound ELSE InitBalance]
     /\ bounded = [a \in Addrs |-> IF a = o THEN MinBound ELSE 0]
     /\ bkt = [i \in {1} |-> GenesisBucket(o, c, fv)]
     /\ listed = {1}
     /\ candBuckets = [x \in Cands |-> IF x = c THEN {1} ELSE {}]
     /\ candVotes = [x \in Cands |-> IF x = c THEN MinBound + GenesisBonus ELSE 0]

\* The ID of the next bucket made: hash of fresh fields, never reused.
FreshId == CHOOSE i \in Ids \ DOMAIN bkt : \A j \in Ids \ DOMAIN bkt : i <= j
CanMake == DOMAIN bkt # Ids

\* meter.NewBucket: TotalVotes = value, no bonus.
NewBucket(o, c, v, unb) ==
  [owner |-> o, cand |-> c, value |-> v, votes |-> v, bonus |-> 0,
   unbounded |-> unb, forever |-> FALSE]

\* Store bucket b under ID i (bkt @@ would keep the old value).
Put(f, i, b) == [j \in DOMAIN f \cup {i} |-> IF j = i THEN b ELSE f[j]]

\* checkBucket(b, owner): listed, not unbounded, owned, not forever.
CheckBucket(i, owner) ==
  /\ i \in listed
  /\ ~bkt[i].unbounded
  /\ bkt[i].owner = owner
  /\ ~bkt[i].forever

-----------------------------------------------------------------------------
(* The methods of MeterTracker.                                           *)

\* BoundMeterGov(addr, amount): move amount from the free to the bounded
\* balance; an error when the free balance is short.
BoundMeterGov(a, amount) ==
  /\ balance[a] >= amount
  /\ balance' = [balance EXCEPT ![a] = @ - amount]
  /\ bounded' = [bounded EXCEPT ![a] = @ + amount]

\* UnboundMeterGov(addr, amount): the same statements as BoundMeterGov.
\* No code under src/ calls it; it is kept for the README's account.
UnboundMeterGov(a, amount) ==
  /\ amount # 0
  /\ balance[a] >= amount
  /\ balance' = [balance EXCEPT ![a] = @ - amount]
  /\ bounded' = [bounded EXCEPT ![a] = @ + amount]

\* Mutant of BucketDeposit: the bucket grows but BoundMeterGov is not
\* called.
BucketDepositUnbacked(owner, i, amount) ==
  LET c == bkt[i].cand IN
  /\ CheckBucket(i, owner)
  /\ balance[owner] >= amount
  /\ UNCHANGED <<balance, bounded>>
  /\ bkt' = [bkt EXCEPT ![i].bonus = 0, ![i].value = @ + amount,
                        ![i].votes = @ + amount]
  /\ candVotes' = [candVotes EXCEPT ![c] = @ + amount]
  /\ UNCHANGED <<listed, candBuckets>>

\* BucketDeposit(owner, id, amount).  The bonus field is cleared but the
\* bonus already in TotalVotes stays.
BucketDeposit(owner, i, amount) ==
  LET c == bkt[i].cand IN
  /\ CheckBucket(i, owner)
  /\ balance[owner] >= amount
  /\ BoundMeterGov(owner, amount)
  /\ bkt' = [bkt EXCEPT ![i].bonus = 0, ![i].value = @ + amount,
                        ![i].votes = @ + amount]
  /\ candVotes' = [candVotes EXCEPT ![c] = @ + amount]
  /\ UNCHANGED <<listed, candBuckets>>

\* Mutant of BucketOpen: a bucket is opened for an address that is not a
\* listed candidate (the candidateList.Get nil check is dropped).
BucketOpenUnlisted(owner, c, amount) ==
  LET nid == FreshId IN
  /\ amount >= MinBound /\ balance[owner] >= amount /\ owner # c
  /\ CanMake
  /\ BoundMeterGov(owner, amount)
  /\ bkt' = Put(bkt, nid, NewBucket(owner, c, amount, FALSE))
  /\ listed' = listed \cup {nid}
  /\ UNCHANGED <<candBuckets, candVotes>>

\* BucketOpen(owner, candAddr, amount, ts, nonce).  A bucket of the same
\* owner and candidate already in the list (the first one, i.e. the
\* oldest) turns the call into BucketDeposit.
BucketOpen(owner, c, amount) ==
  LET same == {i \in listed : bkt[i].cand = c /\ bkt[i].owner = owner}
      nid == FreshId
  IN
  /\ amount # 0
  /\ amount >= MinBound
  /\ balance[owner] >= amount
  /\ owner # c
  /\ IF same # {}
     THEN BucketDeposit(owner, Min(same), amount)
     ELSE /\ c \in Cands
          /\ CanMake
          /\ BoundMeterGov(owner, amount)
          /\ bkt' = Put(bkt, nid, NewBucket(owner, c, amount, FALSE))
          /\ listed' = listed \cup {nid}
          /\ candBuckets' = [candBuckets EXCEPT ![c] = @ \cup {nid}]
          /\ candVotes' = [candVotes EXCEPT ![c] = @ + amount]

\* BucketClose(owner, id, timestamp): mark unbounded (MatureTime is set).
BucketClose(owner, i) ==
  /\ CheckBucket(i, owner)
  /\ bkt' = [bkt EXCEPT ![i].unbounded = TRUE]
  /\ UNCHANGED <<balance, bounded, listed, candBuckets, candVotes>>

\* Mutant of BonusDelta: the bonus is divided by the value left after the
\* withdrawal instead of the value before it.
BonusDeltaAfter(b, amount) == ((b.votes - b.value) * amount) \div (b.value - amount)

\* The share of a bucket's bonus votes that leaves with amount.
BonusDelta(b, amount) == ((b.votes - b.value) * amount) \div b.value

\* Mutant of WithdrawnBounded: the recipient's bounded balance is read
\* before the owner's is written.
WithdrawnBoundedStale(owner, r, amount) ==
  [bounded EXCEPT ![owner] = bounded[owner] - amount,
                  ![r] = bounded[r] + amount]

\* The bounded balances after a withdrawal: the owner's is written first,
\* then the recipient's is read and written.
WithdrawnBounded(owner, r, amount) ==
  LET b1 == [bounded EXCEPT ![owner] = @ - amount]
  IN [b1 EXCEPT ![r] = @ + amount]

\* BucketWithdraw(owner, id, amount, recipient, ts, nonce): part of the
\* bucket's value, and a proportional part of its bonus votes, leave it;
\* the amount moves to a new unbounded bucket of the recipient, which the
\* candidate lists without adding its votes.
BucketWithdraw(owner, i, amount, r) ==
  LET b == bkt[i]
      delta == BonusDelta(b, amount)
      nid == FreshId
  IN
  /\ CheckBucket(i, owner)
  /\ bounded[owner] >= amount
  /\ b.value >= amount /\ b.votes >= amount
  /\ b.value - amount >= MinBound
  /\ CanMake
  /\ bounded' = WithdrawnBounded(owner, r, amount)
  /\ bkt' = Put([bkt EXCEPT ![i].bonus = 0, ![i].value = @ - amount,
                            ![i].votes = @ - amount - delta],
                nid, NewBucket(r, b.cand, amount, TRUE))
  /\ candVotes' = [candVotes EXCEPT ![b.cand] = @ - delta]
  /\ candBuckets' = [candBuckets EXCEPT ![b.cand] = @ \cup {nid}]
  /\ listed' = listed \cup {nid}
  /\ UNCHANGED balance

\* BucketUpdateCandidate(owner, id, newCandidateAddr).  It does not call
\* checkBucket: an unbounded bucket may move.  After moving the bucket to
\* the new candidate it removes the bucket from the bucket list.
BucketUpdateCandidate(owner, i, nc) ==
  LET b == bkt[i]
      c == b.cand
      cv1 == [candVotes EXCEPT ![c] = @ - b.votes]          \* c.RemoveBucket(b)
      cb1 == [candBuckets EXCEPT ![c] = @ \ {i}]
  IN
  /\ i \in listed
  /\ b.owner = owner
  /\ ~b.forever
  /\ nc \in Cands
  /\ candVotes[c] >= b.votes
  /\ candVotes' = [cv1 EXCEPT ![nc] = @ + b.votes]          \* nc.AddBucket(b)
  /\ candBuckets' = [cb1 EXCEPT ![nc] = @ \cup {i}]
  /\ bkt' = [bkt EXCEPT ![i].cand = nc]
  /\ listed' = listed \ {i}                                  \* bucketList.Remove(id)
  /\ UNCHANGED <<balance, bounded>>

\* BucketMerge(owner, fromBucketID, toBucketID).  Nothing stops from and to
\* from being the same bucket; then toBkt and fromBkt are one object, and
\* the reads after the writes see the doubled values.
BucketMerge(owner, from, to) ==
  LET fc == bkt[from].cand
      tc == bkt[to].cand
      cv1 == [candVotes EXCEPT ![fc] = @ - bkt[from].votes]    \* fromCand.RemoveBucket
      bk1 == [bkt EXCEPT ![to].bonus = @ + bkt[from].bonus,
                         ![to].value = @ + bkt[from].value,
                         ![to].votes = @ + bkt[from].votes]
  IN
  /\ CheckBucket(from, owner)
  /\ CheckBucket(to, owner)
  /\ bkt' = bk1
  /\ candVotes' = [cv1 EXCEPT ![tc] = @ + bk1[from].votes]
  /\ candBuckets' = [candBuckets EXCEPT ![fc] = @ \ {from}]
  /\ listed' = listed \ {from}
  /\ UNCHANGED <<balance, bounded>>

\* BucketTransferFund(owner, fromBucketID, toBucketID, amount): value and
\* a proportional part of the bonus move from one bucket to the other;
\* the from bucket is written before the to bucket is read.
BucketTransferFund(owner, from, to, amount) ==
  LET fb == bkt[from]
      fromBonus == fb.votes - fb.value
      delta == BonusDelta(fb, amount)
      bk1 == [bkt EXCEPT ![from].bonus = fromBonus - delta,
                         ![from].value = @ - amount,
                         ![from].votes = @ - amount - delta]
      bk2 == [bk1 EXCEPT ![to].bonus = @ + delta,
                         ![to].value = @ + amount,
                         ![to].votes = @ + amount + delta]
      cv1 == [candVotes EXCEPT ![fb.cand] = @ - amount - delta]
  IN
  /\ CheckBucket(from, owner)
  /\ CheckBucket(to, owner)
  /\ bounded[owner] >= amount
  /\ fb.value >= amount /\ fb.votes >= amount
  /\ fb.value - amount >= MinBound
  /\ bkt' = bk2
  /\ candVotes' = [cv1 EXCEPT ![bk2[to].cand] = @ + amount + delta]
  /\ UNCHANGED <<balance, bounded, listed, candBuckets>>

Next ==
  \E o \in Addrs :
    \/ \E c \in Addrs, x \in Amounts : BucketOpen(o, c, x)
    \/ \E i \in DOMAIN bkt :
         \/ BucketClose(o, i)
         \/ \E x \in Amounts : BucketDeposit(o, i, x)
         \/ \E x \in Amounts, r \in Addrs : BucketWithdraw(o, i, x, r)
         \/ \E c \in Addrs : BucketUpdateCandidate(o, i, c)
         \/ \E j \in DOMAIN bkt :
              \/ BucketMerge(o, i, j)
              \/ \E x \in Amounts : BucketTransferFund(o, i, j, x)

Spec == Init /\ [][Next]_vars

-----------------------------------------------------------------------------
(* Properties.                                                            *)

\* The methods implement the ledger of StakingLedger: every step leaves the
\* balances alone, binds free MTRG of one address (BucketOpen and
\* BucketDeposit through BoundMeterGov), or hands bounded MTRG that is there
\* from one address to another (BucketWithdraw's two SetBoundedBalance
\* calls, whose recipient may be the owner).  MTRG is neither made nor
\* destroyed and no balance goes negative.
Ledger == INSTANCE StakingLedger WITH balance <- balance, bounded <- bounded
LedgerSpec == Ledger!Spec

\* Every MTRG locked in an address's listed buckets is covered by its
\* bounded balance (BucketOpen and BucketDeposit bound what they add,
\* BucketWithdraw moves bounded balance with the value it splits off).
ListedValue(a) == MapThenSumSet(LAMBDA i : bkt[i].value,
                                {i \in listed : bkt[i].owner = a})
BucketsBacked == \A a \in Addrs : ListedValue(a) <= bounded[a]

\* The bonus part of a bucket (TotalVotes - Value) never goes negative:
\* BucketWithdraw and BucketTransferFund take out at most the bucket's
\* bonus in proportion to the amount.
VotesCoverValue == \A i \in listed : bkt[i].votes >= bkt[i].value

\* All of an address's bounded balance sits in its listed buckets, where
\* BucketWithdraw, BucketClose and the unbounding of matured buckets can
\* reach it.
BoundedInBuckets == \A a \in Addrs : ListedValue(a) = bounded[a]
==============================================================================
