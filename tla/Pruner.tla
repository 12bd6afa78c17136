-------------------------------- MODULE Pruner --------------------------------
(***************************************************************************)
(* The state pruner of src/trie/pruner.go.  A Bloom filter of visited     *)
(* node hashes is seeded with every node of the genesis and snapshot       *)
(* state tries; Prune walks the trie of an older block and puts into the   *)
(* caller's delete batch the nodes the filter has not seen.  Scan and      *)
(* ScanIndexTrie walk a trie only to add its nodes to the filter, and      *)
(* PruneIndexTrie deletes an index trie of a block.                        *)
(*                                                                         *)
(* Tries are abstracted to a graph of node hashes: Kids[n] is the sequence *)
(* of hash children of n in child order, and StorageOf[n] is the storage   *)
(* root of the account stored in the leaf under n (NoStorage when the      *)
(* account has none, the empty key canSkip always skips).  Embedded        *)
(* (unhashed) nodes are folded into their parent.  The Bloom filter has no *)
(* false negatives, and a false positive only skips a node, so it is a set.*)
(* The batch is never written here: what it holds is what would be        *)
(* deleted, and every node stays loadable.  Byte counts and logs are left  *)
(* out.                                                                    *)
(***************************************************************************)
EXTENDS Integers, Sequences, FiniteSets, SequencesExt

CONSTANTS
  StateNode, StorageNode, IndexNode,  \* node hashes of each kind of trie
  Kids,           \* Kids[n]: hash children of n, in child order
  StorageOf,      \* StorageOf[n]: storage root of the account under n
  NoStorage,      \* an account without storage (empty StorageRoot)
  LastBlock,      \* blocks are 0..LastBlock; block b's hash is b
  Snap,           \* the snapshot block
  StateRoot,      \* StateRoot[b]: state root of block b
  IndexRoot       \* IndexRoot[b]: index trie root of block b

Nodes == StateNode \cup StorageNode \cup IndexNode
Blocks == 0..LastBlock
IdxKey(b) == <<"i", b>>             \* indexTrieRootPrefix ++ block hash

ASSUME /\ Kids \in [Nodes -> Seq(Nodes)]
       /\ StorageOf \in [Nodes -> StorageNode \cup {NoStorage}]
       /\ StateRoot \in [Blocks -> StateNode] /\ IndexRoot \in [Blocks -> IndexNode]
       /\ Snap \in 1..LastBlock

VARIABLES
  bloom,    \* p.visitedBloom
  saved,    \* the file snapshot/<Snap>.bloom, or {} when absent (never empty once saved)
  batch,    \* keys passed to batch.Delete
  idxKey,   \* blocks whose index root entry is in the db
  hashKey,  \* saveBlockHash: block number -> block hash, where saved
  inited,   \* InitForStatePruning has run on this pruner
  pruned    \* state roots Prune has been called on

vars == <<bloom, saved, batch, idxKey, hashKey, inited, pruned>>

TypeOK ==
  /\ bloom \subseteq Nodes /\ saved \subseteq Nodes
  /\ batch \subseteq Nodes \cup {IdxKey(b) : b \in Blocks}
  /\ idxKey \subseteq Blocks /\ hashKey \in [Blocks -> Blocks \cup {-1}]
  /\ inited \in BOOLEAN /\ pruned \subseteq StateNode

-----------------------------------------------------------------------------
(* The prune iterator.                                                    *)

\* Every node of the trie below n, storage tries included: what the plain
\* NodeIterator of updateBloomWithTrie visits.
RECURSIVE Reach(_)
Reach(n) ==
  {n} \cup UNION {Reach(Kids[n][i]) : i \in DOMAIN Kids[n]}
      \cup (IF StorageOf[n] = NoStorage THEN {} ELSE Reach(StorageOf[n]))

\* The nodes of one trie (no storage tries) below n.
RECURSIVE TrieNodes(_)
TrieNodes(n) == {n} \cup UNION {TrieNodes(Kids[n][i]) : i \in DOMAIN Kids[n]}

\* An iteration: the nodes yielded in order, each with the answer of the
\* bloom test made when it is yielded, and the bloom after the walk.
Item(n, vis) == [node |-> n, seen |-> n \in vis]

RECURSIVE ChildStep(_, _), Below(_, _)
\* nextChild for one hash child c: canSkip(c) skips it, otherwise c is
\* marked and pushed, and Prune's test of c runs after the mark.
ChildStep(acc, c) ==
  IF c \in acc.vis
  THEN acc
  ELSE LET marked == acc.vis \cup {c}
           sub == Below(c, marked)
       IN [items |-> acc.items \o <<Item(c, marked)>> \o sub.items,
           vis |-> sub.vis]

\* Next(true) repeated below n: children in order, depth first.
Below(n, vis) ==
  FoldLeft(ChildStep, [items |-> <<>>, vis |-> vis], Kids[n])

\* newPruneIterator(New(root)): the root is resolved and yielded without
\* canSkip and without a mark.
Walk(root, vis) ==
  LET b == Below(root, vis) IN
  [items |-> <<Item(root, vis)>> \o b.items, vis |-> b.vis]

\* The nodes a walk yields whose bloom test failed.
Unseen(w) == {w.items[i].node : i \in {j \in DOMAIN w.items : ~w.items[j].seen}}

\* The state walk of Prune and Scan: for each account leaf in order, a
\* storage root canSkip does not skip is walked with a second iterator.
\* Returns the bloom after all walks and the non-leaf nodes whose bloom
\* test failed.
Traverse(root, vis) ==
  LET w == Walk(root, vis)
      accts == SelectSeq([i \in DOMAIN w.items |-> StorageOf[w.items[i].node]],
                         LAMBDA s : s # NoStorage)
      StorageStep(acc, s) ==
        IF s \in acc.vis THEN acc
        ELSE LET sw == Walk(s, acc.vis)
             IN [vis |-> sw.vis, unseen |-> acc.unseen \cup Unseen(sw)]
  IN FoldLeft(StorageStep, [vis |-> w.vis, unseen |-> Unseen(w)], accts)

-----------------------------------------------------------------------------
(* The methods of Pruner, each one step of its single caller.             *)

\* NewPruner: a fresh, empty bloom (a restart of the pruning tool).
NewPruner ==
  /\ bloom' = {} /\ inited' = FALSE
  /\ UNCHANGED <<saved, batch, idxKey, hashKey, pruned>>

\* InitForStatePruning(genesis root, snapshot root, Snap): load the saved
\* bloom file, or else add both tries to the bloom and save it.
InitForStatePruning ==
  /\ ~inited
  /\ IF saved # {}
     THEN /\ bloom' = saved /\ UNCHANGED saved
     ELSE /\ bloom' = bloom \cup Reach(StateRoot[0]) \cup Reach(StateRoot[Snap])
          /\ saved' = bloom'
  /\ inited' = TRUE
  /\ UNCHANGED <<batch, idxKey, hashKey, pruned>>

\* Prune(root, batch): every yielded non-leaf node, of the state trie and of
\* the storage tries walked, whose bloom test fails goes into the batch.
Prune(b) ==
  LET t == Traverse(StateRoot[b], bloom) IN
  /\ inited
  /\ bloom' = t.vis
  /\ batch' = batch \cup t.unseen
  /\ pruned' = pruned \cup {StateRoot[b]}
  /\ UNCHANGED <<saved, idxKey, hashKey, inited>>

\* Scan(root): the same walk; it only marks.
Scan(b) ==
  /\ inited
  /\ bloom' = Traverse(StateRoot[b], bloom).vis
  /\ UNCHANGED <<saved, batch, idxKey, hashKey, inited, pruned>>

\* ScanIndexTrie(blockHash): marks the index trie of a block; panics when
\* its root entry is missing, so the caller only passes stored blocks.
ScanIndexTrie(b) ==
  /\ inited /\ b \in idxKey
  /\ bloom' = Walk(IndexRoot[b], bloom).vis
  /\ UNCHANGED <<saved, batch, idxKey, hashKey, inited, pruned>>

\* PruneIndexTrie(blockNum, blockHash, batch): save the block hash; with no
\* root entry (the block hash saved again, already equal) return;
\* otherwise every yielded non-leaf node and the root entry go into the
\* batch, whatever the bloom test says.
PruneIndexTrie(b) ==
  /\ inited
  /\ hashKey' = [hashKey EXCEPT ![b] = b]
  /\ IF b \in idxKey
     THEN LET w == Walk(IndexRoot[b], bloom) IN
          /\ bloom' = w.vis
          /\ batch' = batch \cup {w.items[i].node : i \in DOMAIN w.items}
                            \cup {IdxKey(b)}
     ELSE UNCHANGED <<bloom, batch>>
  /\ UNCHANGED <<saved, idxKey, inited, pruned>>

-----------------------------------------------------------------------------
\* The caller's plan: blocks before the snapshot are pruned, the snapshot
\* and later blocks are scanned and kept.
Old == 1..(Snap - 1)
Kept == Snap..LastBlock

Init ==
  /\ bloom = {} /\ saved = {} /\ batch = {}
  /\ idxKey \in {S \cup Kept : S \in SUBSET Old}
  /\ hashKey = [b \in Blocks |-> -1]
  /\ inited = FALSE /\ pruned = {}

Next ==
  \/ NewPruner
  \/ InitForStatePruning
  \/ \E b \in Old : Prune(b) \/ PruneIndexTrie(b)
  \/ \E b \in Kept : ScanIndexTrie(b) \/ (b > Snap /\ Scan(b))

Spec == Init /\ [][Next]_vars

-----------------------------------------------------------------------------
(* Properties.                                                            *)

\* What the kept blocks (genesis, the snapshot and later) still reach.
Live == UNION {Reach(StateRoot[b]) : b \in {0} \cup Kept}
          \cup UNION {TrieNodes(IndexRoot[b]) : b \in Kept}

\* Prune reclaims a pruned block's garbage: every node reachable from a
\* pruned state root that no kept block reaches is in the delete batch.
\* (nextChild marks a child before Prune tests it.)
PruneReclaims == UNION {Reach(r) : r \in pruned} \ Live \subseteq batch
==============================================================================
