--------------------------- MODULE EpochController ---------------------------
(***************************************************************************)
(* The epoch plumbing of the pacemaker's main loop (src/consensus/         *)
(* pacemaker.go): Regulate starts an epoch from the best QC; OnCommit of a  *)
(* K-block sends an EpochEndInfo into reactor.EpochEndCh; mainLoop checks   *)
(* the best block against QCHigh before every select, and its EpochEnd and *)
(* cmdCh branches call scheduleRegulate, which drains cmdCh and puts one   *)
(* PMCmdRegulate into it.                                                  *)
(*                                                                         *)
(* Heights stand for blocks.  The other select branches (beats, timeouts,  *)
(* messages) are one step, Handle: a higher QC forms and the block below  *)
(* it commits (the two-chain rule of Update that Pacemaker models).  The   *)
(* chain may also advance by block sync, outside the loop.  A K-block's    *)
(* PoW nonce is its height.  cmdCh has capacity 2 (NewPacemaker); the      *)
(* capacity of EpochEndCh and PrepareEnvForPacemaker, which sets the       *)
(* reactor's lastKBlockHeight and curNonce from the best block, are not    *)
(* under src/ and are modelled from spec section 6.                        *)
(***************************************************************************)
EXTENDS Naturals, Sequences

CONSTANTS
  MaxHeight,     \* the highest block height in the model
  KHeights,      \* heights whose block is a K-block
  CmdCap,        \* capacity of p.cmdCh
  EpochEndCap    \* capacity of reactor.EpochEndCh

ASSUME KHeights \subseteq 1..MaxHeight /\ CmdCap >= 1 /\ EpochEndCap >= 1

VARIABLES
  started,     \* p.mainLoopStarted
  pc,          \* where the main loop is: "top" (line 600), "select", or
               \* "send" (blocked in SendEpochEndInfo's send, line 666)
  outInfo,     \* the EpochEndInfo that send carries
  cmdCh,       \* number of PMCmdRegulate values in p.cmdCh
  epochEndCh,  \* reactor.EpochEndCh: sequence of [height, nonce]
  best,        \* height of chain.BestBlock()
  committed,   \* height of the last block handed to OnCommit
  qcHigh,      \* p.QCHigh.QC.QCHeight
  lastKBlock,  \* reactor.lastKBlockHeight
  curNonce,    \* reactor.curNonce
  awaiting     \* heights of EpochEnds the loop accepted, not yet followed by Regulate

vars == <<started, pc, outInfo, cmdCh, epochEndCh, best, committed, qcHigh, lastKBlock, curNonce, awaiting>>

TypeOK ==
  /\ started \in BOOLEAN /\ pc \in {"top", "select", "send"}
  /\ outInfo \in [height : 0..MaxHeight, nonce : 0..MaxHeight]
  /\ cmdCh \in 0..CmdCap
  /\ epochEndCh \in Seq([height : 0..MaxHeight, nonce : 0..MaxHeight])
  /\ Len(epochEndCh) <= EpochEndCap
  /\ {best, committed, qcHigh, lastKBlock, curNonce} \subseteq 0..MaxHeight
  /\ awaiting \subseteq KHeights

-----------------------------------------------------------------------------
\* scheduleRegulate: receive from cmdCh until it is empty, then send one
\* PMCmdRegulate.  Only the main loop uses cmdCh, so the send never blocks.
ScheduleRegulate == cmdCh' = 1

\* Regulate (the reactor's call): PrepareEnvForPacemaker takes the epoch of
\* the best block; QCHigh becomes the best QC and its block is where
\* commits resume; the main loop is started once.
Regulate ==
  /\ lastKBlock' = IF best \in KHeights THEN best ELSE lastKBlock
  /\ curNonce' = IF best \in KHeights THEN best ELSE curNonce
  /\ qcHigh' = best
  /\ committed' = best
  /\ started' = TRUE
  /\ pc' = IF started THEN pc ELSE "top"
  /\ awaiting' = {}
  /\ UNCHANGED <<outInfo, cmdCh, epochEndCh, best>>

\* mainLoop, lines 600-604: while the best block is above QCHigh's height,
\* every iteration schedules Regulate.
LoopTop ==
  /\ started /\ pc = "top"
  /\ IF best > qcHigh THEN ScheduleRegulate ELSE UNCHANGED cmdCh
  /\ pc' = "select"
  /\ UNCHANGED <<started, outInfo, epochEndCh, best, committed, qcHigh, lastKBlock, curNonce, awaiting>>

\* case ee := <-p.reactor.EpochEndCh: an EpochEnd of an older K-block or of
\* the current nonce is skipped; any other schedules Regulate.
RecvEpochEnd ==
  LET ee == Head(epochEndCh)
      skip == ee.height < lastKBlock \/ ee.nonce = curNonce
  IN
  /\ pc = "select" /\ epochEndCh # <<>>
  /\ epochEndCh' = Tail(epochEndCh)
  /\ IF skip THEN UNCHANGED <<cmdCh, awaiting>>
     ELSE /\ ScheduleRegulate
          /\ awaiting' = awaiting \cup {ee.height}
  /\ pc' = "top"
  /\ UNCHANGED <<started, outInfo, best, committed, qcHigh, lastKBlock, curNonce>>

\* case cmd := <-p.cmdCh: a PMCmdRegulate calls scheduleRegulate (the
\* receive, the drain and the send leave one command in cmdCh).
RecvCmd ==
  /\ pc = "select" /\ cmdCh > 0
  /\ ScheduleRegulate
  /\ pc' = "top"
  /\ UNCHANGED <<started, outInfo, epochEndCh, best, committed, qcHigh, lastKBlock, curNonce, awaiting>>

\* Any other branch: a QC forms at height q, and the proposal that carries
\* it runs Update, which commits and locks its grandparent, the block at
\* q - 1, when the pacemaker has not committed it yet.  commitBlock of a
\* block that sync already stored fails with ErrBlockExist, which OnCommit
\* ignores: for a K-block it goes on to SendEpochEndInfo's send either way.
Handle ==
  LET q == qcHigh + 1
      c == q - 1
      commits == c > committed
  IN
  /\ pc = "select" /\ q <= MaxHeight
  /\ qcHigh' = q
  /\ IF commits
     THEN /\ committed' = c
          /\ best' = IF c > best THEN c ELSE best
          /\ IF c \in KHeights
             THEN /\ outInfo' = [height |-> c, nonce |-> c]
                  /\ pc' = "send"
             ELSE /\ pc' = "top" /\ UNCHANGED outInfo
     ELSE /\ pc' = "top" /\ UNCHANGED <<best, committed, outInfo>>
  /\ UNCHANGED <<started, cmdCh, epochEndCh, lastKBlock, curNonce, awaiting>>

\* p.reactor.EpochEndCh <- info: the main loop waits until the channel has
\* room; only the main loop receives from it.
SendEpochEndInfo ==
  /\ pc = "send" /\ Len(epochEndCh) < EpochEndCap
  /\ epochEndCh' = Append(epochEndCh, outInfo)
  /\ pc' = "top"
  /\ UNCHANGED <<started, outInfo, cmdCh, best, committed, qcHigh, lastKBlock, curNonce, awaiting>>

\* Block sync from peers moves the best block on, outside the loop.
Sync ==
  /\ best < MaxHeight
  /\ best' = best + 1
  /\ UNCHANGED <<started, pc, outInfo, cmdCh, epochEndCh, committed, qcHigh, lastKBlock, curNonce, awaiting>>

Init ==
  /\ started = FALSE /\ pc = "top" /\ outInfo = [height |-> 0, nonce |-> 0]
  /\ cmdCh = 0 /\ epochEndCh = <<>>
  /\ best = 0 /\ committed = 0 /\ qcHigh = 0 /\ lastKBlock = 0 /\ curNonce = 0 /\ awaiting = {}

\* The reactor calls Regulate to start the pacemaker; no code under src/
\* calls it again.
Next ==
  \/ ~started /\ Regulate
  \/ LoopTop \/ RecvEpochEnd \/ RecvCmd \/ Handle \/ SendEpochEndInfo \/ Sync

\* The main loop is a goroutine the Go scheduler keeps running, and select
\* picks each ready case with equal probability: strong fairness on the
\* EpochEnd and cmdCh branches.  Handle and Sync depend on the network and
\* are left unfair.
Fairness ==
  /\ WF_vars(~started /\ Regulate) /\ WF_vars(LoopTop) /\ WF_vars(SendEpochEndInfo)
  /\ SF_vars(RecvEpochEnd) /\ SF_vars(RecvCmd)

Spec == Init /\ [][Next]_vars /\ Fairness

-----------------------------------------------------------------------------
\* Spec 6: a committed K-block's EpochEnd triggers Regulate: once the loop
\* accepts an EpochEnd (line 612), Regulate eventually runs for it.
EpochEndRegulates == \A h \in KHeights : (h \in awaiting) ~> (h \notin awaiting)
==============================================================================
