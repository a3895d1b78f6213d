------------------------------ MODULE ChainStore ------------------------------
(***************************************************************************)
(* The block chain of a node: the Pebble store (blocks, both height        *)
(* indexes, transaction index, UTXO records with their spending reference, *)
(* chain state) and the memory that shadows it (best block, block index,   *)
(* known blocks), under                                                    *)
(*   - processBatchUnified: a batch of consecutive blocks is applied to an *)
(*     indexed batch, block by block, and committed atomically;            *)
(*   - RecoveryManager.RollbackToHeight: reads the tip, takes processingMu,*)
(*     disconnects block by block (one atomic commit each), cleans the     *)
(*     orphans, and resets the tip;                                        *)
(*   - crash and restart (loadChainState), clean stop (saveChainState).    *)
(***************************************************************************)
EXTENDS ChainTree

CONSTANTS
  MaxReorgDepth,   \* config.MaxReorgDepth
  Roller,          \* goroutines that call RollbackToHeight: p2p sync, RPC, validator
  Env              \* what the surroundings may do: a subset of EnvKinds

(* "side":  peers send batches that do not start at the tip                *)
(* "race":  other goroutines (staker, sync, RPC) connect blocks, or roll   *)
(*          back too, between a RollbackToHeight's reads and its           *)
(*          processingMu.Lock, or before its caller's ResetChainState      *)
(* "crash": the process may die at any point                               *)
(* "fault": storage.Sync may fail after a batch's commit                   *)
EnvKinds == {"side", "race", "crash", "fault"}

ASSUME EnvAssumption == MaxReorgDepth \in Nat /\ Env \subseteq EnvKinds

VARIABLES
  db,      \* the committed contents of the store
  best,    \* bestHeight and bestHash
  index,   \* keys of the in-memory blockIndex
  known,   \* keys of the in-memory knownBlocks cache
  batch,   \* the batch being processed (top = None: none)
  rb       \* per goroutine, its call of RollbackToHeight

vars == <<db, best, index, known, batch, rb>>

-----------------------------------------------------------------------------
(* The store.                                                              *)

NoHeight == -1

Tips == [ht : Heights, blk : Block]

Store ==
  [ stored   : SUBSET Block,                       \* 0x01 hash   -> compact block
    hashAt   : [Heights -> Block \union {None}],   \* 0x02 height -> hash
    heightOf : [Block -> Heights \union {NoHeight}], \* 0x03 hash -> height
    txLoc    : [Tx -> Block \union {None}],        \* 0x04 tx     -> its block
    utxos    : SUBSET Tx,                          \* 0x07 outpoint -> record
    spentBy  : [Tx -> Tx \union {None}],           \*   .. SpendingTxHash
    spentAt  : [Tx -> Heights],                    \*   .. SpendingHeight, 0: unspent
    tip      : Tips ]                              \* chain state (height, hash)

(* EnsureGenesisBlock: block, indexes and chain state, no UTXO.            *)
GenesisStore ==
  [ stored   |-> {Genesis},
    hashAt   |-> [h \in Heights |-> IF h = 0 THEN Genesis ELSE None],
    heightOf |-> [b \in Block |-> IF b = Genesis THEN 0 ELSE NoHeight],
    txLoc    |-> [t \in Tx |-> None],
    utxos    |-> {},
    spentBy  |-> [t \in Tx |-> None],
    spentAt  |-> [t \in Tx |-> 0],
    tip      |-> [ht |-> 0, blk |-> Genesis] ]

(* GetBlock needs the block's own record and every one of its              *)
(* transactions, which are stored apart.                                   *)
Loadable(d, b) ==
  /\ b \in d.stored
  /\ \A t \in BlockTxs[b] : d.txLoc[t] # None

(* MarkUTXOSpent: the recorded spend is stale when the COMMITTED store has *)
(* no block at the spending height, does not know the spending             *)
(* transaction, or has it in another block.                                *)
OrphanedRef(d, s, h) ==
  \/ d.hashAt[h] = None
  \/ d.txLoc[s] = None
  \/ d.txLoc[s] # d.hashAt[h]

(* MarkUTXOSpent(o, h, s) succeeds; d is the committed store, v the batch's*)
(* view of it.                                                             *)
CanMarkSpent(d, v, o, h, s) ==
  /\ o \in v.utxos
  /\ v.spentBy[o] # None =>
       \/ v.spentBy[o] = s /\ v.spentAt[o] = h
       \/ OrphanedRef(d, v.spentBy[o], v.spentAt[o])

(* Every input of the block can be spent: one created in the same block    *)
(* was stored a moment ago, unspent.                                       *)
CanApply(d, v, b, h) ==
  \A s \in BlockTxs[b] : \A o \in Ins[s] :
    o \in BlockTxs[b] \/ CanMarkSpent(d, v, o, h, s)

(* applyBlockToBatch: both height indexes, block, transactions, inputs     *)
(* marked spent, outputs created; the chain state only for a height above  *)
(* the in-memory best height.                                              *)
Applied(v, b, h, bestHt) ==
  [ stored   |-> v.stored \union {b},
    hashAt   |-> [v.hashAt EXCEPT ![h] = b],
    heightOf |-> [v.heightOf EXCEPT ![b] = h],
    txLoc    |-> [t \in Tx |-> IF t \in BlockTxs[b] THEN b ELSE v.txLoc[t]],
    utxos    |-> v.utxos \union BlockTxs[b],
    spentBy  |-> [o \in Tx |-> IF o \in Spends({b})
                                 THEN CHOOSE s \in BlockTxs[b] : o \in Ins[s]
                               ELSE IF o \in BlockTxs[b] THEN None
                               ELSE v.spentBy[o]],
    spentAt  |-> [o \in Tx |-> IF o \in Spends({b}) THEN h
                               ELSE IF o \in BlockTxs[b] THEN 0
                               ELSE v.spentAt[o]],
    tip      |-> IF h > bestHt THEN [ht |-> h, blk |-> b] ELSE v.tip ]

(* disconnectBlock's batch: every input must still have its record         *)
(* (UnspendUTXO fails otherwise, whoever spent it) ...                     *)
CanDisconnect(d, b) ==
  /\ d.heightOf[b] # NoHeight
  /\ Spends({b}) \subseteq d.utxos

(* Bug: the chain state goes one height too far down.                      *)
DisconnectedTooFar(d, b, h) ==
  [ d EXCEPT !.stored = @ \ {b}, !.hashAt[h] = None, !.heightOf[b] = NoHeight,
             !.utxos = @ \ BlockTxs[b], !.tip = [ht |-> h - 2, blk |-> Parent[b]] ]

(* Bug: the outputs go, but the inputs stay marked as spent.               *)
DisconnectedStillSpent(d, b, h) ==
  LET gone(t) == t \in BlockTxs[b]
  IN [ d EXCEPT !.stored = @ \ {b}, !.hashAt[h] = None, !.heightOf[b] = NoHeight,
                !.txLoc = [t \in Tx |-> IF gone(t) THEN None ELSE @[t]],
                !.utxos = @ \ BlockTxs[b],
                !.spentBy = [t \in Tx |-> IF gone(t) THEN None ELSE @[t]],
                !.spentAt = [t \in Tx |-> IF gone(t) THEN 0 ELSE @[t]],
                !.tip = [ht |-> h - 1, blk |-> Parent[b]] ]

(* Bug: the inputs are unspent, but the outputs stay spendable.            *)
DisconnectedKeepsOutputs(d, b, h) ==
  [ d EXCEPT !.stored = @ \ {b}, !.hashAt[h] = None, !.heightOf[b] = NoHeight,
             !.txLoc = [t \in Tx |-> IF t \in BlockTxs[b] THEN None ELSE @[t]],
             !.spentBy = [o \in Tx |-> IF o \in Spends({b}) THEN None ELSE @[o]],
             !.spentAt = [o \in Tx |-> IF o \in Spends({b}) THEN 0 ELSE @[o]],
             !.tip = [ht |-> h - 1, blk |-> Parent[b]] ]

(* Bug: the chain state keeps naming the block that went.                  *)
DisconnectedOldTip(d, b, h) ==
  [ d EXCEPT !.stored = @ \ {b}, !.hashAt[h] = None, !.heightOf[b] = NoHeight,
             !.tip = [ht |-> h - 1, blk |-> b] ]

(* ... outputs deleted, inputs unspent, transactions and both index        *)
(* entries deleted, chain state set to the parent.                         *)
Disconnected(d, b, h) ==
  LET freed == BlockTxs[b] \union Spends({b})
  IN [ stored   |-> d.stored \ {b},
       hashAt   |-> [d.hashAt EXCEPT ![h] = None],
       heightOf |-> [d.heightOf EXCEPT ![b] = NoHeight],
       txLoc    |-> [t \in Tx |-> IF t \in BlockTxs[b] THEN None ELSE d.txLoc[t]],
       utxos    |-> d.utxos \ BlockTxs[b],
       spentBy  |-> [o \in Tx |-> IF o \in freed THEN None ELSE d.spentBy[o]],
       spentAt  |-> [o \in Tx |-> IF o \in freed THEN 0 ELSE d.spentAt[o]],
       tip      |-> [ht |-> h - 1, blk |-> Parent[b]] ]

(* Bug: the height entry of an orphan stays.                               *)
OrphanKeptAtHeight(d, b, h) ==
  [ d EXCEPT !.stored = @ \ {b}, !.heightOf[b] = NoHeight ]

(* Bug: the orphan's hash entry stays, and so it is found again.           *)
OrphanKeptByHash(d, b, h) ==
  [ d EXCEPT !.stored = @ \ {b}, !.hashAt[h] = IF @ = b THEN None ELSE @ ]

(* Bug: what the orphan's transactions spent stays spent.                  *)
OrphanStillSpends(d, b, h) ==
  [ d EXCEPT !.stored = @ \ {b}, !.heightOf[b] = NoHeight, !.utxos = @ \ BlockTxs[b],
             !.hashAt[h] = IF @ = b THEN None ELSE @ ]

(* deleteOrphanedBlock: the height entry goes only if it names this block; *)
(* transactions and UTXOs are rolled back only if the block still loads;   *)
(* an input is unspent only if this transaction, at this height, spent it. *)
OrphanDeleted(d, b, h) ==
  LET txs == IF Loadable(d, b) THEN BlockTxs[b] ELSE {}
      undone == { o \in d.utxos \ txs :
                    \E s \in txs : /\ o \in Ins[s]
                                   /\ d.spentBy[o] = s
                                   /\ d.spentAt[o] = h }
      freed == txs \union undone
  IN [ stored   |-> d.stored \ {b},
       hashAt   |-> [d.hashAt EXCEPT ![h] = IF @ = b THEN None ELSE @],
       heightOf |-> [d.heightOf EXCEPT ![b] = NoHeight],
       txLoc    |-> [t \in Tx |-> IF t \in txs THEN None ELSE d.txLoc[t]],
       utxos    |-> d.utxos \ txs,
       spentBy  |-> [o \in Tx |-> IF o \in freed THEN None ELSE d.spentBy[o]],
       spentAt  |-> [o \in Tx |-> IF o \in freed THEN 0 ELSE d.spentAt[o]],
       tip      |-> d.tip ]

(* Bug: the target's own height counts as orphaned.                        *)
OrphansFrom(d, h) == { b \in Block : d.heightOf[b] >= h }

(* What CleanOrphanedBlocks(maxValidHeight) works through.                 *)
OrphansAbove(d, h) == { b \in Block : d.heightOf[b] > h }

-----------------------------------------------------------------------------
(* batch.from .. batch.next is what the batch caches (batchHashes) hold.   *)
NoBatch ==
  [top |-> None, from |-> 0, next |-> 0, view |-> GenesisStore, done |-> FALSE]
NoRollback ==
  [pc |-> "idle", h |-> 0, target |-> 0, blk |-> None, reset |-> FALSE]

NoRollbacks == [r \in Roller |-> NoRollback]

BatchState ==
  [top : Block \union {None}, from : Nat, next : Nat, view : Store, done : BOOLEAN]
RollbackState ==
  [pc : {"idle", "read", "loop", "reset"}, h : Heights, target : Heights,
   blk : Block \union {None}, reset : BOOLEAN]

TypeOK ==
  /\ db \in Store
  /\ best \in Tips
  /\ index \subseteq Block
  /\ known \subseteq Block
  /\ batch \in BatchState
  /\ rb \in [Roller -> RollbackState]

Init ==
  /\ db = GenesisStore
  /\ best = db.tip
  /\ index = {Genesis}
  /\ known = {Genesis}
  /\ batch = NoBatch
  /\ rb = NoRollbacks

(* processingMu is held by a batch, or by a rollback past its reads.       *)
BatchRunning == batch.top # None
HoldsLock(r) == rb[r].pc = "loop"
Unlocked == ~BatchRunning /\ \A r \in Roller : ~HoldsLock(r)

NoRollbackRunning == \A r \in Roller : rb[r].pc = "idle"
AtRest == ~BatchRunning /\ NoRollbackRunning

(* hasBlock: the in-memory index first, then the store.                    *)
HasBlock(b) == b \in index \union db.stored

-----------------------------------------------------------------------------
(* calculateBlockHeight: one above the parent, in the committed index.     *)
CalculatedHeight(b) == db.heightOf[Parent[b]] + 1

(* processBatchInternal, up to the loop.  The batch is the stretch of      *)
(* last's branch that starts at first; its leading blocks that the node    *)
(* already has are dropped (all of them: ErrAllBlocksExist), and a single  *)
(* remaining block must advance the height (ErrHeightNotAdvancing).        *)
BeginBatch(first, last) ==
  LET path == { b \in Branch[last] : Depth[b] >= Depth[first] }
  IN \E b \in path :
       LET h == CalculatedHeight(b)
       IN /\ first \in path
          /\ b # Genesis
          /\ ~HasBlock(b)
          /\ \A x \in path : Depth[x] < Depth[b] => HasBlock(x)
          /\ Unlocked
          /\ NoRollbackRunning \/ "race" \in Env
          /\ "side" \notin Env => Parent[b] = best.blk
          /\ HasBlock(Parent[b])
          /\ db.heightOf[Parent[b]] # NoHeight
          /\ b = last => h > best.ht
          /\ batch' = [top |-> last, from |-> h, next |-> h, view |-> db, done |-> FALSE]
          /\ UNCHANGED <<db, best, index, known, rb>>

InLoop == BatchRunning /\ batch.next <= Depth[batch.top]

(* Bug: the block index learns of the block before the batch commits.      *)
ApplyBlockEagerly ==
  LET b == AncestorAt(batch.top, batch.next)
  IN /\ InLoop
     /\ CanApply(db, batch.view, b, batch.next)
     /\ batch' = [batch EXCEPT !.next = @ + 1,
                               !.view = Applied(@, b, batch.next, best.ht)]
     /\ index' = index \union {b}
     /\ UNCHANGED <<db, best, known, rb>>

(* One turn of the loop: the next block passes validation and is applied   *)
(* to the indexed batch.                                                   *)
ApplyBlock ==
  LET b == AncestorAt(batch.top, batch.next)
  IN /\ InLoop
     /\ CanApply(db, batch.view, b, batch.next)
     /\ batch' = [batch EXCEPT !.next = @ + 1,
                               !.view = Applied(@, b, batch.next, best.ht)]
     /\ UNCHANGED <<db, best, index, known, rb>>

(* Checkpoint, validation or MarkUTXOSpent fails: nothing was written.     *)
RejectBatch ==
  /\ InLoop
  /\ batch' = NoBatch
  /\ UNCHANGED <<db, best, index, known, rb>>

(* batch.Commit: one atomic Pebble write of everything applied.            *)
CommitBatch ==
  /\ BatchRunning
  /\ ~InLoop
  /\ ~batch.done
  /\ db' = batch.view
  /\ batch' = [batch EXCEPT !.done = TRUE]
  /\ UNCHANGED <<best, index, known, rb>>

(* After the commit (and the notifications in between): the in-memory tip, *)
(* only if the last block is higher, then the block index and knownBlocks; *)
(* the batch caches are dropped and processingMu released.                 *)
BatchBlocks == { b \in Branch[batch.top] : Depth[b] >= batch.from }

(* Bug: the first block of the batch becomes the in-memory tip.            *)
PublishFirst ==
  /\ batch.done
  /\ best' = [ht |-> batch.from, blk |-> AncestorAt(batch.top, batch.from)]
  /\ index' = index \union BatchBlocks
  /\ known' = known \union BatchBlocks
  /\ batch' = NoBatch
  /\ UNCHANGED <<db, rb>>

PublishBatch ==
  /\ batch.done
  /\ best' = IF Depth[batch.top] > best.ht
               THEN [ht |-> Depth[batch.top], blk |-> batch.top] ELSE best
  /\ index' = index \union BatchBlocks
  /\ known' = known \union BatchBlocks
  /\ batch' = NoBatch
  /\ UNCHANGED <<db, rb>>

(* storage.Sync fails: the batch returns an error though it is committed.  *)
SyncFails ==
  /\ "fault" \in Env
  /\ batch.done
  /\ batch' = NoBatch
  /\ UNCHANGED <<db, best, index, known, rb>>

-----------------------------------------------------------------------------
(* GetBlockByHeight looks in the running batch's caches first.             *)
HashSeenAt(h) ==
  IF BatchRunning /\ h \in batch.from .. batch.next /\ h <= Depth[batch.top]
    THEN AncestorAt(batch.top, h) ELSE db.hashAt[h]

(* RollbackToHeight(target), first half: current height, depth check and   *)
(* target block are read without processingMu.  reset: the caller goes on  *)
(* with ResetChainState (RecoverFromFork does, InvalidateBlock and the p2p *)
(* callers do not).                                                        *)
RollbackRead(r, target, reset) ==
  LET blk == HashSeenAt(target)
  IN /\ rb[r].pc = "idle"
     /\ AtRest \/ "race" \in Env
     /\ best.ht > target
     /\ best.ht - target <= MaxReorgDepth
     /\ blk # None
     /\ blk = db.hashAt[target] => Loadable(db, blk)
     /\ rb' = [rb EXCEPT ![r] = [pc |-> "read", h |-> best.ht, target |-> target,
                                 blk |-> blk, reset |-> reset]]
     /\ UNCHANGED <<db, best, index, known, batch>>

(* Bug: the rollback goes ahead without processingMu.                      *)
RollbackUnlocked(r) ==
  /\ rb[r].pc = "read"
  /\ rb' = [rb EXCEPT ![r].pc = "loop"]
  /\ UNCHANGED <<db, best, index, known, batch>>

RollbackLock(r) ==
  /\ rb[r].pc = "read"
  /\ Unlocked
  /\ rb' = [rb EXCEPT ![r].pc = "loop"]
  /\ UNCHANGED <<db, best, index, known, batch>>

InDescent(r) == HoldsLock(r) /\ rb[r].h > rb[r].target

(* No block at this height, or it does not load: warn and go on.           *)
RollbackSkip(r) ==
  LET b == db.hashAt[rb[r].h]
  IN /\ InDescent(r)
     /\ b # None => ~Loadable(db, b)
     /\ rb' = [rb EXCEPT ![r].h = @ - 1]
     /\ UNCHANGED <<db, best, index, known, batch>>

(* disconnectBlock: commit, then the in-memory tip and maps -- unless the  *)
(* parent does not load: then the rollback fails with the block already    *)
(* gone from the store.                                                    *)
RollbackStep(r) ==
  LET b == db.hashAt[rb[r].h]
      gone == Disconnected(db, b, db.heightOf[b])
  IN /\ InDescent(r)
     /\ b # None
     /\ Loadable(db, b)
     /\ CanDisconnect(db, b)
     /\ db' = gone
     /\ UNCHANGED batch
     /\ IF Loadable(gone, Parent[b])
          THEN /\ best' = gone.tip
               /\ index' = index \ {b}
               /\ known' = known \ {b}
               /\ rb' = [rb EXCEPT ![r].h = @ - 1]
          ELSE /\ rb' = [rb EXCEPT ![r] = NoRollback]
               /\ UNCHANGED <<best, index, known>>

(* disconnectBlock fails before its commit: the rollback returns the error.*)
RollbackFail(r) ==
  LET b == db.hashAt[rb[r].h]
  IN /\ InDescent(r)
     /\ b # None
     /\ Loadable(db, b)
     /\ ~CanDisconnect(db, b)
     /\ rb' = [rb EXCEPT ![r] = NoRollback]
     /\ UNCHANGED <<db, best, index, known, batch>>

AtTarget(r) == HoldsLock(r) /\ rb[r].h <= rb[r].target

(* CleanOrphanedBlocks: one atomic commit per orphan, in key order.        *)
RollbackClean(r) ==
  /\ AtTarget(r)
  /\ \E b \in OrphansAbove(db, rb[r].target) :
       db' = OrphanDeleted(db, b, db.heightOf[b])
  /\ UNCHANGED <<best, index, known, batch, rb>>

(* Bug: knownBlocks is not cleaned.                                        *)
RollbackFinishStillKnown(r) ==
  /\ AtTarget(r)
  /\ OrphansAbove(db, rb[r].target) = {}
  /\ best' = [ht |-> rb[r].target, blk |-> rb[r].blk]
  /\ db' = [db EXCEPT !.tip = best']
  /\ rb' = [rb EXCEPT ![r] = IF @.reset THEN [@ EXCEPT !.pc = "reset"] ELSE NoRollback]
  /\ UNCHANGED <<index, known, batch>>

(* cleanKnownBlocksAboveHeight, in-memory tip, SetChainState, unlock.      *)
RollbackFinish(r) ==
  /\ AtTarget(r)
  /\ OrphansAbove(db, rb[r].target) = {}
  /\ known' = { b \in known : Depth[b] <= rb[r].target }
  /\ best' = [ht |-> rb[r].target, blk |-> rb[r].blk]
  /\ db' = [db EXCEPT !.tip = best']
  /\ rb' = [rb EXCEPT ![r] = IF @.reset THEN [@ EXCEPT !.pc = "reset"] ELSE NoRollback]
  /\ UNCHANGED <<index, batch>>

(* ResetChainState, called by RecoverFromFork once the lock is released.   *)
ResetChainState(r) ==
  /\ rb[r].pc = "reset"
  /\ index' = { b \in index : Depth[b] <= rb[r].target }
  /\ rb' = [rb EXCEPT ![r] = NoRollback]
  /\ UNCHANGED <<db, best, known, batch>>

-----------------------------------------------------------------------------
(* loadChainState and buildBlockIndex: memory is rebuilt from the store d. *)
Reload(d) ==
  /\ db' = d
  /\ best' = d.tip
  /\ index' = IF Loadable(d, d.tip.blk) THEN {d.tip.blk} ELSE {}
  /\ known' = IF Loadable(d, d.tip.blk)
                THEN { b \in Block : d.heightOf[b] # NoHeight } ELSE {}
  /\ batch' = NoBatch
  /\ rb' = NoRollbacks

Crash == "crash" \in Env /\ Reload(db)

(* Stop: saveChainState writes the in-memory tip; then a normal start.     *)
Shutdown ==
  /\ AtRest
  /\ Reload([db EXCEPT !.tip = best])

BatchStep == ApplyBlock \/ CommitBatch \/ PublishBatch

RollbackProgress(r) ==
  \/ RollbackLock(r) \/ RollbackSkip(r) \/ RollbackStep(r) \/ RollbackFail(r)
  \/ RollbackClean(r) \/ RollbackFinish(r) \/ ResetChainState(r)

Next ==
  \/ \E first, last \in Block : BeginBatch(first, last)
  \/ ApplyBlock \/ RejectBatch \/ CommitBatch \/ PublishBatch \/ SyncFails
  \/ \E r \in Roller :
       \/ \E target \in Heights, reset \in BOOLEAN : RollbackRead(r, target, reset)
       \/ RollbackLock(r) \/ RollbackSkip(r) \/ RollbackStep(r) \/ RollbackFail(r)
       \/ RollbackClean(r) \/ RollbackFinish(r) \/ ResetChainState(r)
  \/ Crash \/ Shutdown

Spec == Init /\ [][Next]_vars

(* Each goroutine keeps running its own code until it returns, and a       *)
(* waiting sync.Mutex.Lock is served (after 1ms it is handed over): hence  *)
(* strong fairness for the lock, weak for everything else.                 *)
FairSpec ==
  /\ Spec
  /\ WF_vars(BatchStep \/ RejectBatch \/ SyncFails)
  /\ \A r \in Roller : WF_vars(RollbackProgress(r)) /\ SF_vars(RollbackLock(r))

-----------------------------------------------------------------------------
(* Properties.                                                             *)

(* The store d holds the blocks of the branch that ends in b, and nothing  *)
(* else: every table is the image of that branch.                          *)
Exact(d, b) ==
  LET S == Branch[b]
  IN /\ d.stored = S
     /\ d.hashAt = [h \in Heights |-> IF h <= Depth[b] THEN AncestorAt(b, h) ELSE None]
     /\ d.heightOf = [x \in Block |-> IF x \in S THEN Depth[x] ELSE NoHeight]
     /\ \A x \in S : \A t \in BlockTxs[x] : d.txLoc[t] = x
     /\ \A t \in Tx \ TxsOf(S) : d.txLoc[t] = None
     /\ d.utxos = TxsOf(S)
     /\ \A x \in S : \A s \in BlockTxs[x] : \A o \in Ins[s] :
          d.spentBy[o] = s /\ d.spentAt[o] = Depth[x]
     /\ \A o \in Tx \ Spends(S) : d.spentBy[o] = None /\ d.spentAt[o] = 0
     /\ \A x \in S : Spends({x}) \subseteq TxsOf(Branch[x])
     /\ d.tip = [ht |-> Depth[b], blk |-> b]

(* With nobody racing a rollback and peers that extend the tip, whatever   *)
(* crashes and rollbacks happen, the store is at every instant the image   *)
(* of the branch its chain state names: no orphan, no dangling spend, no   *)
(* missing output (the atomic commits of processBatchInternal and          *)
(* disconnectBlock).                                                       *)
StoreIsBranch == Exact(db, db.tip.blk)

(* The same, whenever neither a batch nor a rollback is running.           *)
StoreIsBranchAtRest == AtRest => Exact(db, db.tip.blk)

(* bestHeight/bestHash are the stored chain state except between a batch's *)
(* commit and its publication.                                             *)
MemoryFollowsStore == ~batch.done => best = db.tip

(* At rest the knownBlocks cache answers as the hash index would.          *)
KnownIsIndexed ==
  AtRest /\ Loadable(db, db.tip.blk) => known = { b \in Block : db.heightOf[b] # NoHeight }

(* At rest the best block is the block the store has at the best height.   *)
TipOnChain == AtRest => db.hashAt[best.ht] = best.blk

(* At rest every block of the in-memory index is in the store: a block the *)
(* node claims to have can serve as a parent.                              *)
NoGhostBlocks == AtRest => index \subseteq db.stored

(* The store never holds a branch on which two transactions spend the same *)
(* output: "MarkUTXOSpent will verify", say the batch validators that skip *)
(* the look-up (unified_processor.go:478-479).                             *)
NoDoubleSpend ==
  \A s, t \in TxsOf(Branch[db.tip.blk]) : s # t => Ins[s] \intersect Ins[t] = {}

(* The two height indexes never contradict each other: a height names a    *)
(* stored block that is indexed at that height.                            *)
AgreeIn(d) ==
  /\ \A h \in Heights : d.hashAt[h] # None =>
       /\ d.hashAt[h] \in d.stored
       /\ d.heightOf[d.hashAt[h]] = h
  /\ \A b \in Block : b \in d.stored <=> d.heightOf[b] # NoHeight

IndexesAgree == AgreeIn(db)

(* A block is indexed at the height its ancestry gives it, and so is the   *)
(* tip.                                                                    *)
DepthsIn(d) ==
  /\ \A b \in Block : d.heightOf[b] \in {NoHeight, Depth[b]}
  /\ d.tip.ht = Depth[d.tip.blk]

HeightsAreDepths == DepthsIn(db)

(* A block leaves the store only under a rollback, and never one at or     *)
(* below its target.                                                       *)
OnlyRollbackRemoves ==
  [][\A b \in db.stored \ db'.stored :
       \E r \in Roller : HoldsLock(r) /\ Depth[b] > rb[r].target]_vars

(* Why a rollback ends, once it has the lock: while it holds it nobody else*)
(* changes the store, and each step of its own goes down a height or, when *)
(* it is at its target, takes one away from the orphans above.             *)
RollbackNears ==
  [][\A r \in Roller : HoldsLock(r) /\ HoldsLock(r)' =>
       \/ UNCHANGED <<db, batch>> /\ rb'[r] = rb[r]
       \/ InDescent(r) /\ rb'[r] = [rb[r] EXCEPT !.h = @ - 1]
       \/ /\ ~ InDescent(r) /\ rb'[r] = rb[r]
          /\ OrphansAbove(db', rb[r].target) \subseteq OrphansAbove(db, rb[r].target)
          /\ OrphansAbove(db', rb[r].target) # OrphansAbove(db, rb[r].target)]_vars

(* Once a rollback has read its target it ends: it never waits for ever.   *)
RollbackEnds ==
  \A r \in Roller : (rb[r].pc # "idle") ~> (rb[r].pc = "idle")

-----------------------------------------------------------------------------
(* What the chain promises its users: a chain top and its unspent outputs. *)
Unspent == { t \in db.utxos : db.spentBy[t] = None }

L == INSTANCE Ledger WITH top <- db.tip.blk, unspent <- Unspent

LedgerSpec == L!Spec

(* The same for who waits for processingMu: a rollback counts from the     *)
(* moment it has the lock, as the one step to the target it read before.   *)
RollingBack == \E r \in Roller : HoldsLock(r)
Target == rb[CHOOSE r \in Roller : HoldsLock(r)].blk

SeenTop == IF RollingBack THEN Target ELSE db.tip.blk
SeenUnspent ==
  IF RollingBack THEN TxsOf(Branch[Target]) \ Spends(Branch[Target]) ELSE Unspent

Seen == INSTANCE Ledger WITH top <- SeenTop, unspent <- SeenUnspent

(* Batches that come between a rollback's reads and its lock do not keep   *)
(* the chain from being a ledger to all who take the lock: every rollback  *)
(* goes the whole way, to a block that is still of the branch by then.     *)
LockedLedgerSpec == Seen!Spec
=============================================================================
