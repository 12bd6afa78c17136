------------------------------ MODULE Pacemaker ------------------------------
(***************************************************************************)
(* The pacemaker of src/consensus/pacemaker.go run by every member of one  *)
(* committee within one epoch: the main loop's handlers OnBeat (with       *)
(* OnPropose and CreateLeaf), OnReceiveProposal, OnReceiveVote,            *)
(* OnReceiveTimeout and OnRoundTimeout, the round timer, enterRound,      *)
(* UpdateQCHigh and the commit rule Update/OnCommit.                       *)
(*                                                                         *)
(* A block is the sequence of the rounds of the blocks from genesis to it: *)
(* its parent is its Front, its height its length, its round its Last.     *)
(* A QC is named by the block it certifies.  Messages go into the set msgs *)
(* and are never removed, so a message may be delivered late, twice, in   *)
(* any order, or never.  Durations are abstract: a timer fires at any     *)
(* moment after it is armed, a scheduled beat arrives at any moment.      *)
(***************************************************************************)
EXTENDS Integers, FiniteSets, Sequences, SequencesExt

CONSTANTS
  N,            \* committee size; members are 0..N-1
  MaxRound,     \* rounds beyond MaxRound are not explored
  CurEpoch,     \* reactor.curEpoch (CreateLeaf skips its round checks in epoch 0)
  ExecFailRounds, \* rounds whose proposals ValidateProposal may reject (BlockExecutor)
  FireRounds,   \* rounds whose timer may fire (a subset of 0..MaxRound-1)
  Active,       \* members whose main loop runs; the others are down (crash faults)
  Nil

ASSUME N \in Nat \ {0} /\ MaxRound \in Nat /\ CurEpoch \in Nat
ASSUME ExecFailRounds \subseteq 0..MaxRound /\ Active \subseteq 0..N-1
ASSUME FireRounds \subseteq 0..(MaxRound - 1)

Replicas == 0..N-1
Rounds == 0..MaxRound

Genesis == <<>>
Height(b) == Len(b)
Round(b) == IF b = Genesis THEN 0 ELSE Last(b)
Parent(b) == Front(b)
Blocks == UNION {[1..n -> Rounds] : n \in 0..(MaxRound + 1)}

\* reactor.getRoundProposer / amIRoundProproser (not under src/): round robin.
Proposer(r) == r % N

\* MajorityTwoThird (spec 4.2): count*3 > n*2.
MajorityTwoThird(count, n) == count * 3 > n * 2

VARIABLES
  rep,   \* rep[p]: the Pacemaker struct of member p and its proposalMap, chain,
         \* vote managers and channels (see PacemakerState)
  msgs   \* every message sent so far

vars == <<rep, msgs>>

Timer == [round : Rounds, fired : BOOLEAN]
Beat == [round : Rounds, reason : {"Init", "HigherQC"}]

ProposalMsgs == [type : {"Proposal"}, block : Blocks, tc : Rounds \cup {Nil}]
VoteMsgs == [type : {"Vote"}, block : Blocks, from : Replicas]
TimeoutMsgs == [type : {"Timeout"}, wish : Rounds, from : Replicas,
                lastVote : Blocks \cup {Nil}, qcHigh : Blocks]

PacemakerState == [
  round : Rounds,                       \* currentRound
  lastVotingHeight : Nat,
  lastVoteMsg : Blocks \cup {Nil},      \* the block of lastVoteMsg
  qcHigh : Blocks,                      \* QCHigh.QC
  qcHighNode : BOOLEAN,                 \* QCHigh.QCNode # nil
  blockLocked : Blocks,
  lastOnBeatRound : -1..MaxRound,
  tcHigh : Rounds \cup {Nil},           \* TCHigh (its round)
  drafts : SUBSET Blocks,               \* proposalMap
  processed : SUBSET Blocks,            \* drafts with SuccessProcessed
  nilJustify : SUBSET Blocks,           \* drafts whose Justify.QCNode is nil
  chain : SUBSET Blocks,                \* blocks in the chain store
  timer : Timer \cup {Nil},             \* roundTimer (fired: its callback ran)
  timeouts : SUBSET Rounds,             \* roundTimeoutCh contents
  beats : SUBSET Beat,                  \* beats scheduled or in beatCh
  qcVotes : SUBSET ((Blocks \cup {Nil}) \X Replicas),
  qcSealed : SUBSET (Blocks \cup {Nil}),
  tcVotes : SUBSET (Rounds \X Replicas),
  tcSealed : SUBSET Rounds,
  crashed : BOOLEAN]                    \* the main loop panicked

TypeOK ==
  /\ rep \in [Replicas -> PacemakerState]
  /\ msgs \subseteq ProposalMsgs \cup VoteMsgs \cup TimeoutMsgs

-----------------------------------------------------------------------------
(* Regulate at the genesis block (pacemaker.go Regulate): bestQC is the   *)
(* genesis QC, so the pacemaker starts at round 0 with lastOnBeatRound -1, *)
(* the genesis draft as blockLocked and QCHigh node, and a BeatOnInit.    *)
Regulate ==
  [round |-> 0, lastVotingHeight |-> 0, lastVoteMsg |-> Nil,
   qcHigh |-> Genesis, qcHighNode |-> TRUE, blockLocked |-> Genesis,
   lastOnBeatRound |-> -1, tcHigh |-> Nil,
   drafts |-> {Genesis}, processed |-> {}, nilJustify |-> {}, chain |-> {Genesis},
   timer |-> Nil, timeouts |-> {}, beats |-> {[round |-> 0, reason |-> "Init"]},
   qcVotes |-> {}, qcSealed |-> {}, tcVotes |-> {}, tcSealed |-> {},
   crashed |-> FALSE]

Init ==
  /\ rep = [p \in Replicas |-> Regulate]
  /\ msgs = {}

-----------------------------------------------------------------------------
(* proposalMap lookups GetOne / GetByID / GetOneByEscortQC (not under     *)
(* src/): a draft of the map, or a committed block of the chain store.    *)
Known(s, b) == b \in s.drafts \/ b \in s.chain
Committed(s, b) == b \in s.chain

\* resetRoundTimer: stop the live timer and arm a new one for the round.
ResetTimer(r) == [round |-> r, fired |-> FALSE]

\* enterRound(round, reason).  In every branch currentRound ends equal to
\* round (updated is currentRound != round); the reason decides only
\* whether the timer is reset.
EnterRound(p, s, r, reason) ==
  LET reset ==
        CASE reason \in {"Beat", "RegularProposal"} ->
               r > s.round \/ (r = s.round /\ Proposer(r) = p)
          [] reason = "TimeoutCertProposal" -> r >= s.round
          [] reason = "Timeout" -> TRUE
  IN [s EXCEPT !.round = r,
               !.timer = IF reset THEN ResetTimer(r) ELSE @]

\* UpdateQCHigh(qc): adopt qc if its height is greater, or equal to the
\* height of QCHigh.QCNode with a greater round.  With a nil QCHigh.QCNode
\* the second comparison dereferences nil and the main loop panics.
UpdateQCHigh(s, qc, hasNode) ==
  IF Height(qc) > Height(s.qcHigh)
  THEN [s EXCEPT !.qcHigh = qc, !.qcHighNode = hasNode]
  ELSE IF ~s.qcHighNode
  THEN [s EXCEPT !.crashed = TRUE]
  ELSE IF Height(qc) = Height(s.qcHigh) /\ Round(qc) > Round(s.qcHigh)
  THEN [s EXCEPT !.qcHigh = qc, !.qcHighNode = hasNode]
  ELSE s

QCHighChanged(s, t) == s.qcHigh # t.qcHigh

\* ScheduleOnBeat(epoch, round, reason, d); beats past MaxRound are left out.
ScheduleOnBeat(s, r, reason) ==
  IF r <= MaxRound THEN [s EXCEPT !.beats = @ \cup {[round |-> r, reason |-> reason]}]
  ELSE s

\* One step of OnCommit: skip a draft not SuccessProcessed; otherwise
\* commitBlock (an existing block is ErrBlockExist, a block whose parent
\* is not in the chain store fails and the state is reverted), then Prune.
\* The errKnownBlock skip (line 184) needs a draft that is SuccessProcessed
\* and has ProcessError errKnownBlock; ProcessProposedBlock returns that
\* error for a block already in the chain, and a failed ValidateProposal
\* leaves the draft not SuccessProcessed, so the skip at line 180 covers it.
CommitOne(s, blk) ==
  IF blk \notin s.processed THEN s
  ELSE [s EXCEPT !.chain = IF blk \notin @ /\ Parent(blk) \in @ THEN @ \cup {blk} ELSE @,
                 !.drafts = @ \ {blk},
                 !.processed = @ \ {blk}]

\* Mutant of CommitReady: the list stops below b itself (off by one).
CommitReadyShort(s, b) ==
  [i \in 1..(Height(b) - Height(s.blockLocked) - 1) |->
     SubSeq(b, 1, Height(s.blockLocked) + i)]

\* The commitReady list of Update: the ancestors of b (b included) above
\* blockLocked's height, lowest first.
CommitReady(s, b) ==
  [i \in 1..(Height(b) - Height(s.blockLocked)) |->
     SubSeq(b, 1, Height(s.blockLocked) + i)]

OnCommit(s, ready) == FoldLeft(CommitOne, s, ready)

\* Mutant of CommitTarget: the commit stops at b', a one-chain.
CommitTargetOneChain(bnew) == Parent(bnew)

\* The block Update commits up to and locks: b := b'.Justify.QCNode where
\* b' := bnew.Justify.QCNode (a two-chain; the commit requires b'.Parent = b,
\* which holds for every block CreateLeaf builds).
CommitTarget(bnew) == Parent(Parent(bnew))

\* Update(bnew).
Update(s, bnew) ==
  LET bPrime == Parent(bnew)
      b == CommitTarget(bnew)
  IN
  IF bnew \in s.nilJustify THEN s                     \* blockPrime is empty
  ELSE IF Committed(s, bPrime) THEN s                 \* b' is committed
  ELSE IF bPrime \in s.nilJustify
       THEN [s EXCEPT !.crashed = TRUE]               \* block.Committed on nil
  ELSE LET s1 == UpdateQCHigh(s, bPrime, TRUE)
       IN IF s1.crashed THEN s1
          ELSE [OnCommit(s1, CommitReady(s1, b)) EXCEPT !.blockLocked = b]

-----------------------------------------------------------------------------
(* The handlers of mainLoop.  Each runs to completion on the main loop of *)
(* a member that has not panicked; a step that would only drop its input  *)
(* changes nothing and is left out.                                       *)

Live(p) == ~rep[p].crashed

\* Mutant of NewLeaf: the new block carries the next round (off by one).
NewLeafNextRound(qc, r) == Append(qc, r + 1)

\* buildMBlock (not under src/): the new block extends the QCHigh node.
NewLeaf(qc, r) == Append(qc, r)

\* OnPropose(QCHigh, round) with CreateLeaf and buildMBlock.  The PoW
\* decision never asks for a K-block here (a single epoch).
OnPropose(p, s, r) ==
  LET qc == s.qcHigh
      bnew == NewLeaf(qc, r)
  IN
  IF CurEpoch # 0 /\ r # 0 /\ r <= Round(qc)      \* ErrInvalidRound
  THEN <<s, {}>>
  ELSE <<[s EXCEPT !.tcHigh = Nil,
                   !.drafts = @ \cup {bnew},
                   !.nilJustify = IF s.qcHighNode THEN @ \ {bnew} ELSE @ \cup {bnew}],
         {[type |-> "Proposal", block |-> bnew, tc |-> s.tcHigh]}>>

\* OnBeat(epoch, round, reason) for a beat taken from beatCh.
OnBeat(p, bt) ==
  LET s0 == [rep[p] EXCEPT !.beats = @ \ {bt}]
      s1 == [s0 EXCEPT !.lastOnBeatRound = bt.round]
      s2 == IF bt.reason = "Init" THEN [s1 EXCEPT !.timer = ResetTimer(bt.round)] ELSE s1
      s3 == EnterRound(p, s2, bt.round, "Beat")
      out == OnPropose(p, s3, bt.round)
  IN
  /\ Live(p)
  /\ bt \in rep[p].beats
  /\ IF bt.round <= rep[p].lastOnBeatRound           \* duplicate onbeat
     THEN rep' = [rep EXCEPT ![p] = s0] /\ UNCHANGED msgs
     ELSE IF ~Known(s1, s1.qcHigh)
     THEN rep' = [rep EXCEPT ![p] = s1] /\ UNCHANGED msgs
     ELSE IF Proposer(bt.round) # p
     THEN rep' = [rep EXCEPT ![p] = s2] /\ UNCHANGED msgs
     ELSE rep' = [rep EXCEPT ![p] = out[1]] /\ msgs' = msgs \cup out[2]

\* The voter-safety rule: bnew.Height > lastVotingHeight and bnew extends
\* blockLocked (IsExtendedFromBLocked, not under src/).
CanVote(s, b) == Height(b) > s.lastVotingHeight /\ IsPrefix(s.blockLocked, b)

\* OnReceiveProposal.  A proposal below blockLocked is dropped, one whose
\* parent is unknown is thrown back into the queue (it stays in msgs).
\* ValidateProposal is the BlockExecutor; it may fail for a block of a
\* round in ExecFailRounds.
OnReceiveProposal(p, m) ==
  LET s == rep[p]
      b == m.block
      s0 == IF b \in s.drafts THEN s
            ELSE [s EXCEPT !.drafts = @ \cup {b}, !.nilJustify = @ \ {b},
                           !.processed = @ \ {b}]
      canVote == CanVote(s, b)
      reason == IF m.tc # Nil /\ m.tc = Round(b) THEN "TimeoutCertProposal"
                ELSE "RegularProposal"
      s1 == EnterRound(p, s0, Round(b), reason)
      justifyRound == Round(Parent(b))
      roundBad == justifyRound > 0 /\ justifyRound >= Round(b)
      voted == [s1 EXCEPT !.processed = @ \cup {b},
                          !.lastVotingHeight = Height(b),
                          !.lastVoteMsg = b]
      vote == [type |-> "Vote", block |-> b, from |-> p]
  IN
  /\ Live(p)
  /\ m \in msgs
  /\ m.type = "Proposal"
  /\ Height(b) >= Height(s.blockLocked)
  /\ Known(s, Parent(b))
  /\ IF ~canVote
     THEN rep' = [rep EXCEPT ![p] = Update(s0, b)] /\ UNCHANGED msgs
     ELSE IF roundBad
     THEN rep' = [rep EXCEPT ![p] = s1] /\ UNCHANGED msgs
     ELSE \/ /\ Round(b) \in ExecFailRounds           \* Validate Proposal failed
             /\ rep' = [rep EXCEPT ![p] = s1] /\ UNCHANGED msgs
          \/ /\ rep' = [rep EXCEPT ![p] = Update(voted, b)]
             /\ msgs' = msgs \cup {vote}

\* The signers the QC vote manager counts for a key once the vote of from
\* is added (spec 4.2: distinct signer indexes per key).
QCVoters(s, key, from) == {v \in Replicas : <<key, v>> \in s.qcVotes} \cup {from}

\* OnReceiveVote at the proposer of round+1.  An outdated vote or one for
\* an unknown block is dropped.  AddVote (spec 4.2): ignored on a sealed
\* key, counted per distinct signer, seals the key at two thirds.
OnReceiveVote(p, m) ==
  LET s == rep[p]
      b == m.block
      voters == QCVoters(s, b, m.from)
      formed == MajorityTwoThird(Cardinality(voters), N)
      s1 == [s EXCEPT !.qcVotes = @ \cup {<<b, m.from>>},
                      !.qcSealed = IF formed THEN @ \cup {b} ELSE @]
      s2 == UpdateQCHigh(s1, b, TRUE)
  IN
  /\ Live(p)
  /\ m \in msgs
  /\ m.type = "Vote"
  /\ p = Proposer(Round(b) + 1)
  /\ Round(b) >= s.round
  /\ Known(s, b)
  /\ b \notin s.qcSealed
  /\ <<b, m.from>> \notin s.qcVotes
  /\ rep' = [rep EXCEPT ![p] =
               IF formed /\ QCHighChanged(s1, s2)
               THEN ScheduleOnBeat(s2, Round(b) + 1, "HigherQC")
               ELSE IF formed THEN s2 ELSE s1]
  /\ UNCHANGED msgs

\* OnReceiveTimeout at the proposer of the wish round: the wish vote goes
\* to the TC vote manager, the piggy-backed last vote to the QC vote
\* manager, and the encoded QCHigh to UpdateQCHigh, its QCNode being the
\* draft GetOneByEscortQC finds, or nil.  A last vote of nil is the zero
\* vote (height 0, round 0), which never raises QCHigh.
OnReceiveTimeout(p, m) ==
  LET s == rep[p]
      tcVoters == {v \in Replicas : <<m.wish, v>> \in s.tcVotes} \cup {m.from}
      tcFormed == m.wish \notin s.tcSealed
                  /\ MajorityTwoThird(Cardinality(tcVoters), N)
      s1 == IF m.wish \in s.tcSealed THEN s
            ELSE [s EXCEPT !.tcVotes = @ \cup {<<m.wish, m.from>>},
                           !.tcSealed = IF tcFormed THEN @ \cup {m.wish} ELSE @,
                           !.tcHigh = IF tcFormed THEN m.wish ELSE @]
      lv == m.lastVote
      qcVoters == QCVoters(s1, lv, m.from)
      qcFormed == lv \notin s1.qcSealed
                  /\ MajorityTwoThird(Cardinality(qcVoters), N)
      s2 == IF lv \in s1.qcSealed THEN s1
            ELSE [s1 EXCEPT !.qcVotes = @ \cup {<<lv, m.from>>},
                            !.qcSealed = IF qcFormed THEN @ \cup {lv} ELSE @]
      lvQC == IF lv = Nil THEN Genesis ELSE lv
      s3 == IF qcFormed THEN UpdateQCHigh(s2, lvQC, Known(s2, lvQC)) ELSE s2
      s4 == IF s3.crashed THEN s3 ELSE UpdateQCHigh(s3, m.qcHigh, Known(s3, m.qcHigh))
      s5 == IF ~s4.crashed /\ QCHighChanged(s, s4)
            THEN ScheduleOnBeat(s4, Round(s4.qcHigh) + 1, "HigherQC") ELSE s4
      s6 == IF ~s5.crashed /\ tcFormed
            THEN ScheduleOnBeat(s5, m.wish, "HigherQC") ELSE s5
  IN
  /\ Live(p)
  /\ m \in msgs
  /\ m.type = "Timeout"
  /\ p = Proposer(m.wish)
  /\ s6 # s
  /\ rep' = [rep EXCEPT ![p] = s6]
  /\ UNCHANGED msgs

\* The round timer's callback: sends {round} on roundTimeoutCh.  Stopping
\* the timer later does not take back a value already sent.  Only timers
\* of FireRounds fire (a timeout of MaxRound would enter MaxRound + 1).
RoundTimerFires(p) ==
  LET t == rep[p].timer
  IN
  /\ Live(p)
  /\ t # Nil
  /\ ~t.fired
  /\ t.round \in FireRounds
  /\ rep' = [rep EXCEPT ![p].timer.fired = TRUE,
                        ![p].timeouts = @ \cup {t.round}]
  /\ UNCHANGED msgs

\* OnRoundTimeout(ti): enterRound(ti.round + 1, UpdateOnTimeout); if the
\* round changed, a Timeout message with QCHigh and lastVoteMsg goes to
\* the proposer of the new round.
OnRoundTimeout(p, r) ==
  LET s == rep[p]
      s1 == EnterRound(p, [s EXCEPT !.timeouts = @ \ {r}], r + 1, "Timeout")
      tmo == [type |-> "Timeout", wish |-> r + 1, from |-> p,
              lastVote |-> s.lastVoteMsg, qcHigh |-> s.qcHigh]
  IN
  /\ Live(p)
  /\ r \in s.timeouts
  /\ rep' = [rep EXCEPT ![p] = s1]
  /\ msgs' = IF s.round # r + 1 THEN msgs \cup {tmo} ELSE msgs

Next ==
  \E p \in Active :
    \/ \E bt \in rep[p].beats : OnBeat(p, bt)
    \/ \E m \in msgs : OnReceiveProposal(p, m)
    \/ \E m \in msgs : OnReceiveVote(p, m)
    \/ \E m \in msgs : OnReceiveTimeout(p, m)
    \/ RoundTimerFires(p)
    \/ \E r \in rep[p].timeouts : OnRoundTimeout(p, r)

Spec == Init /\ [][Next]_vars

-----------------------------------------------------------------------------
(* Properties.                                                            *)

\* S1: two members never commit different blocks at the same height: the
\* chain stores that OnCommit fills stay on one branch.
Agreement ==
  \A p, q \in Replicas : \A b1 \in rep[p].chain, b2 \in rep[q].chain :
    IsPrefix(b1, b2) \/ IsPrefix(b2, b1)

\* Spec 3: currentRound never decreases within an epoch (the comment on
\* Pacemaker.currentRound: it is the max of the QC and TC rounds + 1).
RoundMonotone ==
  [][\A p \in Replicas : rep'[p].round >= rep[p].round]_vars

\* S4: blockLocked.height never decreases within an epoch.
LockMonotone ==
  [][\A p \in Replicas : Height(rep'[p].blockLocked) >= Height(rep[p].blockLocked)]_vars

\* The two-chain commit rule of Update (b <- b' <- bnew, commit when
\* b'.Parent = b): a block OnCommit puts into a member's chain store has a
\* QC formed by some member's vote manager, and so does a child of it.  It
\* takes votes of three members at two heights, a proposal carrying each
\* QC, and its delivery.
Certified(b) == \E q \in Replicas : b \in rep[q].qcSealed
CommitHasTwoChain ==
  \A p \in Replicas : \A b \in rep[p].chain \ {Genesis} :
    /\ Certified(b)
    /\ \E q \in Replicas : \E c \in rep[q].qcSealed \ {Nil, Genesis} : Parent(c) = b

\* The main loop never panics (nil dereferences in UpdateQCHigh and Update).
NoPanic ==
  \A p \in Replicas : ~rep[p].crashed
=============================================================================
