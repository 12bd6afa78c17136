---------------------------- MODULE ValidatorReward ----------------------------
(***************************************************************************)
(* The validator reward split of src/consensus/validator_reward.go:        *)
(* GetValidatorRewards(totalReward, delegates) calls CalcValidatorRewards,  *)
(* which gives every delegate the base reward and, when the total exceeds *)
(* the base rewards, a share of the rest in proportion to voting power,   *)
(* split into commission, the delegate's own share and its distributors'  *)
(* shares; each amount is split again into distributed and auto-bid parts *)
(* by the receiver's Autobid percentage.                                  *)
(*                                                                         *)
(* The call is one step from its inputs to its result or to a panic.      *)
(* Amounts are small integers, and Unit stands for the 1e09 (shannon)     *)
(* unit of Commission and Shares.  The delegate list is non-empty and     *)
(* every delegate has voting power (GetInternalDelegateList keeps only    *)
(* delegates meeting MinimumRequirements), so the divisions by size and   *)
(* by votingPowerSum are defined.                                          *)
(* Nothing under src/ calls GetValidatorRewards, and the file imports the *)
(* older dfinlab/meter packages.                                          *)
(***************************************************************************)
EXTENDS Integers, Sequences, FiniteSets, SequencesExt

CONSTANTS
  Addrs,          \* delegate and distributor addresses
  Unit,           \* 1e09: the unit of Commission and Shares
  BaseReward,     \* the KeyValidatorBaseReward parameter
  Totals,         \* values of totalReward
  Powers,         \* delegate voting powers (positive)
  Commissions,    \* delegate commissions, in Unit
  ShareSet,       \* distributor shares, in Unit
  AutobidSet,     \* distributor autobid percentages
  MaxDelegates,   \* longest delegate list
  MaxDists        \* longest DistList

Dist == [addr : Addrs, shares : ShareSet, autobid : AutobidSet]
DistLists == UNION {[1..k -> Dist] : k \in 0..MaxDists}
Delegate == [addr : Addrs, power : Powers, commission : Commissions, dists : DistLists]
DelegateLists == UNION {[1..k -> Delegate] : k \in 1..MaxDelegates}
NoDist == [addr |-> "none"]

VARIABLES
  total,      \* totalReward
  delegates,  \* the delegates argument
  fromFile,   \* conR.sourceDelegates == fromDelegatesFile
  dist,       \* GetValidatorRewards' first list: address -> DistAmount (non-zero)
  autobid,    \* its second list: address -> AutobidAmount (non-zero)
  done,       \* the call has returned
  panicked    \* the call panicked

vars == <<total, delegates, fromFile, dist, autobid, done, panicked>>

-----------------------------------------------------------------------------
\* RewardInfoMap.Add(dist, autobid, addr): add to the entry of addr, or
\* make one.
MapAdd(m, d, a, addr) ==
  IF addr \in DOMAIN m
  THEN [m EXCEPT ![addr] = [dist |-> @.dist + d, autobid |-> @.autobid + a]]
  ELSE m @@ (addr :> [dist |-> d, autobid |-> a])

EmptyMap == [x \in {} |-> [dist |-> 0, autobid |-> 0]]

\* GetDelegateSelfDistributor: the first distributor whose address is the
\* delegate's own, or none (an error).
SelfDistributor(d) ==
  LET own == SelectSeq(d.dists, LAMBDA x : x.addr = d.addr)
  IN IF own = <<>> THEN NoDist ELSE Head(own)

\* amount split by a percentage into its auto-bid part.
AutobidPart(amount, pct) == (amount * pct) \div 100

\* The base-rewards-only branch: a delegate without a self distributor
\* gets the whole base reward distributed (treated as autobid 0).
BaseOnlyStep(baseReward, m, d) ==
    LET sd == SelfDistributor(d) IN
    IF sd = NoDist
    THEN MapAdd(m, baseReward, 0, d.addr)
    ELSE LET ab == AutobidPart(baseReward, sd.autobid)
         IN MapAdd(m, baseReward - ab, ab, d.addr)

\* One delegate of the proportional branch; acc.panic records the nil
\* dereference d.Autobid when the self distributor was not found.
ProportionalStep(baseReward, rewards, vpSum, acc, d) ==
    IF acc.panic THEN acc
    ELSE
    LET each == (rewards * d.power) \div vpSum
        commission == (each * d.commission) \div Unit
        actual == each - commission
        sd == SelfDistributor(d)
        selfPortion == (actual * sd.shares) \div Unit
        delegateSelf == baseReward + commission + selfPortion
        ab == AutobidPart(delegateSelf, sd.autobid)
        m1 == MapAdd(acc.map, delegateSelf - ab, ab, d.addr)
        others == SelectSeq(d.dists, LAMBDA x : x.addr # d.addr)
        DistStep(m, x) ==
          LET r == (actual * x.shares) \div Unit
              abr == AutobidPart(r, x.autobid)
          IN MapAdd(m, r - abr, abr, x.addr)
    IN IF sd = NoDist
       THEN [map |-> acc.map, panic |-> TRUE]
       ELSE [map |-> FoldLeft(DistStep, m1, others), panic |-> FALSE]

\* CalcValidatorRewards: the reward map, or a panic.
CalcValidatorRewards(t, ds) ==
  LET size == Len(ds)
      baseRewardsFull == BaseReward * size
      baseOnly == baseRewardsFull >= t
      baseRewards == IF baseOnly THEN t ELSE baseRewardsFull
      baseReward == baseRewards \div size
      vpSum == FoldLeft(LAMBDA s, d : s + d.power, 0, ds)
  IN IF baseOnly
     THEN [map |-> FoldLeft(LAMBDA m, d : BaseOnlyStep(baseReward, m, d), EmptyMap, ds), panic |-> FALSE]
     ELSE FoldLeft(LAMBDA acc, d : ProportionalStep(baseReward, t - baseRewards, vpSum, acc, d),
                   [map |-> EmptyMap, panic |-> FALSE], ds)

\* The entries of a reward map whose field f is non-zero.
NonZero(m, f) == [a \in {x \in DOMAIN m : m[x][f] # 0} |-> m[a][f]]

-----------------------------------------------------------------------------
Init ==
  /\ total \in Totals /\ delegates \in DelegateLists /\ fromFile \in BOOLEAN
  /\ dist = EmptyMap /\ autobid = EmptyMap
  /\ done = FALSE /\ panicked = FALSE

\* GetValidatorRewards(totalReward, delegates).
GetValidatorRewards ==
  LET r == CalcValidatorRewards(total, delegates) IN
  /\ ~done
  /\ done' = TRUE
  /\ IF fromFile
     THEN UNCHANGED <<dist, autobid, panicked>>
     ELSE /\ panicked' = r.panic
          /\ dist' = IF r.panic THEN dist ELSE NonZero(r.map, "dist")
          /\ autobid' = IF r.panic THEN autobid ELSE NonZero(r.map, "autobid")
  /\ UNCHANGED <<total, delegates, fromFile>>

Next == GetValidatorRewards

Spec == Init /\ [][Next]_vars

-----------------------------------------------------------------------------
\* GetValidatorRewards returns for every delegate list: a delegate whose
\* DistList lacks its own address is "treated as 0" (the log at line 196),
\* as the base-only branch does, rather than panicking.
NoPanic == ~panicked
==============================================================================
