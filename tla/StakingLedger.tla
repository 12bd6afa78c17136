---------------------------- MODULE StakingLedger ----------------------------
(***************************************************************************)
(* What the staking methods of MeterTracker promise about MTRG balances:   *)
(* an address's MTRG is either free (state.GetBalance) or bounded          *)
(* (state.GetBoundedBalance); a step binds free MTRG of one address,       *)
(* unbinds bounded MTRG of one address, or hands bounded MTRG from one     *)
(* address to another, and never takes more than is there.  Buckets,       *)
(* candidates and votes are not visible at this level.                     *)
(***************************************************************************)
EXTENDS Integers, FiniteSets

CONSTANTS
  Addrs,        \* account addresses
  InitBalance   \* the MTRG of every address at the start

VARIABLES balance, bounded

ledgerVars == <<balance, bounded>>

\* Amounts a step may move: no more than all MTRG there is.
Amount == 1..(InitBalance * Cardinality(Addrs))

\* Every address starts with InitBalance MTRG, part of it possibly bound.
Init ==
  \E f \in [Addrs -> 0..InitBalance] :
    /\ balance = [a \in Addrs |-> InitBalance - f[a]]
    /\ bounded = f

Bind(a, x) ==
  /\ balance[a] >= x
  /\ balance' = [balance EXCEPT ![a] = @ - x]
  /\ bounded' = [bounded EXCEPT ![a] = @ + x]

Unbind(a, x) ==
  /\ bounded[a] >= x
  /\ bounded' = [bounded EXCEPT ![a] = @ - x]
  /\ balance' = [balance EXCEPT ![a] = @ + x]

Hand(o, r, x) ==
  /\ o # r
  /\ bounded[o] >= x
  /\ bounded' = [bounded EXCEPT ![o] = @ - x, ![r] = @ + x]
  /\ UNCHANGED balance

Next ==
  \E a \in Addrs, x \in Amount :
    \/ Bind(a, x)
    \/ Unbind(a, x)
    \/ \E r \in Addrs : Hand(a, r, x)

Spec == Init /\ [][Next]_ledgerVars
==============================================================================
