-------------------------- MODULE ChainStoreProofs --------------------------
(***************************************************************************)
(* What TLAPS proves of ChainStore whatever peers, crashes, races and      *)
(* faults do (any Env), for every block tree, every set of callers of      *)
(* RollbackToHeight and every reorganisation limit: the type invariant,    *)
(* IndexesAgree, HeightsAreDepths and OnlyRollbackRemoves.                 *)
(*                                                                         *)
(* The argument: no handler looks at how a block got into the store, only  *)
(* at the tables; each keeps the two height indexes inverse to each other  *)
(* because it always writes, or erases, a block's two entries in the same  *)
(* atomic batch (WellIndexed below), and a batch computes heights from the *)
(* parent's entry, which is the parent's depth.  IndInv adds to the        *)
(* properties what a batch and a rollback in progress have to remember.    *)
(***************************************************************************)
EXTENDS ChainStore, TLAPS

-----------------------------------------------------------------------------
(* Facts about the tree.                                                   *)

(* Every block is on its own branch.                                       *)
LEMMA OnOwnBranch == \A b \in Block : b \in Branch[b]
<1> SUFFICES ASSUME NEW b \in Block PROVE b \in Branch[b]
  OBVIOUS
<1>1. CASE b = Genesis
  BY <1>1, TreeAssumption
<1>2. CASE b # Genesis
  BY <1>2, TreeAssumption
<1> QED BY <1>1, <1>2

(* A branch has one block at every height up to its end, and AncestorAt    *)
(* finds it.                                                               *)
LEMMA AncestorFacts ==
  \A b \in Block : \A h \in 0 .. Depth[b] :
    /\ AncestorAt(b, h) \in Branch[b]
    /\ AncestorAt(b, h) \in Block
    /\ Depth[AncestorAt(b, h)] = h
  BY TreeAssumption DEF AncestorAt

LEMMA AncestorUnique ==
  \A b \in Block : \A x \in Branch[b] :
    /\ x \in Block
    /\ Depth[x] \in 0 .. Depth[b]
    /\ AncestorAt(b, Depth[x]) = x
<1> SUFFICES ASSUME NEW b \in Block, NEW x \in Branch[b]
             PROVE  /\ x \in Block
                    /\ Depth[x] \in 0 .. Depth[b]
                    /\ AncestorAt(b, Depth[x]) = x
  OBVIOUS
<1>1. x \in Block /\ Depth[x] \in 0 .. Depth[b]
  BY TreeAssumption
<1>2. /\ AncestorAt(b, Depth[x]) \in Branch[b]
      /\ Depth[AncestorAt(b, Depth[x])] = Depth[x]
  BY <1>1, AncestorFacts
<1> QED BY <1>1, <1>2, TreeAssumption

(* The block of a branch at height h + 1 is a child of the one at h.       *)
LEMMA AncestorParent ==
  \A top \in Block : \A h \in 1 .. Depth[top] :
    /\ AncestorAt(top, h) # Genesis
    /\ Parent[AncestorAt(top, h)] = AncestorAt(top, h - 1)
<1> SUFFICES ASSUME NEW top \in Block, NEW h \in 1 .. Depth[top]
             PROVE  /\ AncestorAt(top, h) # Genesis
                    /\ Parent[AncestorAt(top, h)] = AncestorAt(top, h - 1)
  OBVIOUS
<1> DEFINE b == AncestorAt(top, h)
<1>0. Depth[top] \in Nat
  BY TreeAssumption
<1>1. b \in Branch[top] /\ b \in Block /\ Depth[b] = h
  BY <1>0, AncestorFacts
<1>2. b # Genesis
  BY <1>1, TreeAssumption
<1> HIDE DEF b
<1>3. Parent[b] \in Block /\ Depth[b] = Depth[Parent[b]] + 1 /\ Parent[b] \in Branch[b]
  BY <1>1, <1>2, TreeAssumption, OnOwnBranch
<1>4. Parent[b] \in Branch[top]
  BY <1>1, <1>3, TreeAssumption
<1>5. Depth[Parent[b]] = h - 1
  BY <1>1, <1>3, TreeAssumption
<1>6. AncestorAt(top, h - 1) = Parent[b]
  BY <1>4, <1>5, AncestorUnique
<1> QED BY <1>2, <1>6 DEF b

(* Heights of blocks, and of parents of blocks, are heights.               *)
LEMMA HeightFacts ==
  /\ \A b \in Block : Depth[b] \in Heights
  /\ Heights \subseteq Nat
  /\ \A b \in Block \ {Genesis} :
       /\ Parent[b] \in Block
       /\ Depth[b] - 1 \in Heights
       /\ Depth[Parent[b]] = Depth[b] - 1
       /\ Depth[b] > 0
<1>1. \A b \in Block : Depth[b] \in Heights
  BY DEF Heights
<1>2. Heights \subseteq Nat
  BY TreeAssumption DEF Heights
<1>3. ASSUME NEW b \in Block \ {Genesis}
      PROVE  /\ Parent[b] \in Block
             /\ Depth[b] - 1 \in Heights
             /\ Depth[Parent[b]] = Depth[b] - 1
             /\ Depth[b] > 0
  <2>1. Parent[b] \in Block /\ Depth[b] = Depth[Parent[b]] + 1
    BY TreeAssumption
  <2>2. Depth[Parent[b]] \in Nat
    BY <2>1, TreeAssumption
  <2> QED BY <1>1, <2>1, <2>2
<1> QED BY <1>1, <1>2, <1>3

LEMMA HeightBelow ==
  /\ 0 \in Heights
  /\ \A h \in Heights : h > 0 => h - 1 \in Heights
<1>1. 0 \in Heights
  BY TreeAssumption, HeightFacts
<1>2. ASSUME NEW h \in Heights, h > 0 PROVE h - 1 \in Heights
  <2>1. PICK b \in Block : h = Depth[b]
    BY DEF Heights
  <2>2. b # Genesis
    BY <1>2, <2>1, TreeAssumption
  <2> QED BY <2>1, <2>2, HeightFacts
<1> QED BY <1>1, <1>2

-----------------------------------------------------------------------------
(* The index invariant, for every environment and every tree.              *)

WellIndexed(d) == d \in Store /\ AgreeIn(d) /\ DepthsIn(d)

(* applyBlockToBatch keeps the indexes well formed and drops no block.     *)
LEMMA AppliedWellIndexed ==
  ASSUME NEW v, WellIndexed(v), NEW b \in Block, NEW bestHt \in Nat
  PROVE  /\ WellIndexed(Applied(v, b, Depth[b], bestHt))
         /\ v.stored \subseteq Applied(v, b, Depth[b], bestHt).stored
<1> DEFINE n == Applied(v, b, Depth[b], bestHt)
<1>1. /\ Depth[b] \in Heights /\ Heights \subseteq Nat
      /\ None \notin Block /\ BlockTxs[b] \subseteq Tx
  BY HeightFacts, TreeAssumption, BlockAssumption
<1>2. /\ n.stored = v.stored \union {b}
      /\ n.hashAt = [v.hashAt EXCEPT ![Depth[b]] = b]
      /\ n.heightOf = [v.heightOf EXCEPT ![b] = Depth[b]]
      /\ n.tip = IF Depth[b] > bestHt THEN [ht |-> Depth[b], blk |-> b] ELSE v.tip
  BY DEF Applied
<1>3. n \in Store
  <2>1. n.tip \in Tips
    BY <1>1, <1>2 DEF WellIndexed, Store, Tips
  <2>2. /\ n.stored \in SUBSET Block
        /\ n.hashAt \in [Heights -> Block \union {None}]
        /\ n.heightOf \in [Block -> Heights \union {NoHeight}]
    BY <1>1, <1>2 DEF WellIndexed, Store
  <2>3. /\ n.txLoc \in [Tx -> Block \union {None}]
        /\ n.utxos \in SUBSET Tx
    BY <1>1 DEF WellIndexed, Store, Applied
  <2>4. n.spentBy \in [Tx -> Tx \union {None}]
    <3>1. n.spentBy = [o \in Tx |-> IF o \in Spends({b})
                                      THEN CHOOSE s \in BlockTxs[b] : o \in Ins[s]
                                    ELSE IF o \in BlockTxs[b] THEN None
                                    ELSE v.spentBy[o]]
      BY DEF Applied
    <3>2. v.spentBy \in [Tx -> Tx \union {None}]
      BY DEF WellIndexed, Store
    <3>3. ASSUME NEW o \in Tx, o \in Spends({b})
          PROVE  (CHOOSE s \in BlockTxs[b] : o \in Ins[s]) \in Tx
      <4>1. \E s \in BlockTxs[b] : o \in Ins[s]
        BY <3>3 DEF Spends, TxsOf
      <4> QED BY <4>1, <1>1
    <3> QED BY <3>1, <3>2, <3>3
  <2>5. n.spentAt \in [Tx -> Heights]
    <3>1. 0 \in Heights
      BY TreeAssumption, HeightFacts
    <3> QED BY <1>1, <3>1 DEF WellIndexed, Store, Applied
  <2>6. n = [stored |-> n.stored, hashAt |-> n.hashAt, heightOf |-> n.heightOf,
             txLoc |-> n.txLoc, utxos |-> n.utxos, spentBy |-> n.spentBy,
             spentAt |-> n.spentAt, tip |-> n.tip]
    BY DEF Applied
  <2> HIDE DEF n
  <2> QED BY <2>1, <2>2, <2>3, <2>4, <2>5, <2>6 DEF Store
<1> HIDE DEF n
<1>4. AgreeIn(n)
  BY <1>1, <1>2 DEF WellIndexed, Store, AgreeIn, DepthsIn, NoHeight
<1>5. DepthsIn(n)
  BY <1>1, <1>2 DEF WellIndexed, Store, Tips, DepthsIn
<1> QED BY <1>2, <1>3, <1>4, <1>5 DEF WellIndexed, n

(* disconnectBlock keeps them well formed and removes just that block.     *)
LEMMA DisconnectedWellIndexed ==
  ASSUME NEW d, WellIndexed(d), NEW b \in Block \ {Genesis}, d.heightOf[b] # NoHeight
  PROVE  /\ WellIndexed(Disconnected(d, b, d.heightOf[b]))
         /\ Disconnected(d, b, d.heightOf[b]).stored = d.stored \ {b}
<1> DEFINE n == Disconnected(d, b, d.heightOf[b])
<1>1. /\ d.heightOf[b] = Depth[b]
      /\ Depth[b] \in Heights /\ Heights \subseteq Nat /\ Depth[b] - 1 \in Heights
      /\ Parent[b] \in Block /\ Depth[Parent[b]] = Depth[b] - 1
      /\ None \notin Block /\ BlockTxs[b] \subseteq Tx
  BY HeightFacts, TreeAssumption, BlockAssumption DEF WellIndexed, DepthsIn
<1>2. /\ n.stored = d.stored \ {b}
      /\ n.hashAt = [d.hashAt EXCEPT ![Depth[b]] = None]
      /\ n.heightOf = [d.heightOf EXCEPT ![b] = NoHeight]
      /\ n.tip = [ht |-> Depth[b] - 1, blk |-> Parent[b]]
  BY <1>1 DEF Disconnected
<1>3. n \in Store
  <2>1. /\ n.tip \in Tips
        /\ n.stored \in SUBSET Block
        /\ n.hashAt \in [Heights -> Block \union {None}]
        /\ n.heightOf \in [Block -> Heights \union {NoHeight}]
    BY <1>1, <1>2 DEF WellIndexed, Store, Tips
  <2>2. /\ n.txLoc \in [Tx -> Block \union {None}]
        /\ n.utxos \in SUBSET Tx
        /\ n.spentBy \in [Tx -> Tx \union {None}]
    BY DEF WellIndexed, Store, Disconnected
  <2>3. n.spentAt \in [Tx -> Heights]
    <3>1. 0 \in Heights
      BY TreeAssumption, HeightFacts
    <3> QED BY <3>1 DEF WellIndexed, Store, Disconnected
  <2>4. n = [stored |-> n.stored, hashAt |-> n.hashAt, heightOf |-> n.heightOf,
             txLoc |-> n.txLoc, utxos |-> n.utxos, spentBy |-> n.spentBy,
             spentAt |-> n.spentAt, tip |-> n.tip]
    BY DEF Disconnected
  <2> HIDE DEF n
  <2> QED BY <2>1, <2>2, <2>3, <2>4 DEF Store
<1> HIDE DEF n
<1>4. AgreeIn(n)
  BY <1>1, <1>2 DEF WellIndexed, Store, AgreeIn, DepthsIn, NoHeight
<1>5. DepthsIn(n)
  BY <1>1, <1>2 DEF WellIndexed, Store, Tips, DepthsIn
<1> QED BY <1>2, <1>3, <1>4, <1>5 DEF WellIndexed, n

(* deleteOrphanedBlock keeps them well formed and removes just that block. *)
LEMMA OrphanDeletedWellIndexed ==
  ASSUME NEW d, WellIndexed(d), NEW b \in Block, d.heightOf[b] # NoHeight
  PROVE  /\ WellIndexed(OrphanDeleted(d, b, d.heightOf[b]))
         /\ OrphanDeleted(d, b, d.heightOf[b]).stored = d.stored \ {b}
<1> DEFINE n == OrphanDeleted(d, b, d.heightOf[b])
<1>1. /\ d.heightOf[b] = Depth[b]
      /\ Depth[b] \in Heights /\ Heights \subseteq Nat
      /\ None \notin Block /\ BlockTxs[b] \subseteq Tx
  BY HeightFacts, TreeAssumption, BlockAssumption DEF WellIndexed, DepthsIn
<1>2. /\ n.stored = d.stored \ {b}
      /\ n.hashAt = [d.hashAt EXCEPT ![Depth[b]] = IF @ = b THEN None ELSE @]
      /\ n.heightOf = [d.heightOf EXCEPT ![b] = NoHeight]
      /\ n.tip = d.tip
  BY <1>1 DEF OrphanDeleted
<1>3. n \in Store
  <2>1. /\ n.tip \in Tips
        /\ n.stored \in SUBSET Block
        /\ n.heightOf \in [Block -> Heights \union {NoHeight}]
    BY <1>1, <1>2 DEF WellIndexed, Store, Tips
  <2>5. n.hashAt \in [Heights -> Block \union {None}]
    <3>1. d.hashAt \in [Heights -> Block \union {None}]
      BY DEF WellIndexed, Store
    <3>2. n.hashAt = [h \in Heights |->
                        IF h = Depth[b] /\ d.hashAt[h] = b THEN None ELSE d.hashAt[h]]
      BY <1>1, <1>2, <3>1
    <3> QED BY <3>1, <3>2
  <2>2. /\ n.txLoc \in [Tx -> Block \union {None}]
        /\ n.utxos \in SUBSET Tx
        /\ n.spentBy \in [Tx -> Tx \union {None}]
    BY DEF WellIndexed, Store, OrphanDeleted
  <2>3. n.spentAt \in [Tx -> Heights]
    <3>1. 0 \in Heights
      BY TreeAssumption, HeightFacts
    <3> QED BY <3>1 DEF WellIndexed, Store, OrphanDeleted
  <2>4. n = [stored |-> n.stored, hashAt |-> n.hashAt, heightOf |-> n.heightOf,
             txLoc |-> n.txLoc, utxos |-> n.utxos, spentBy |-> n.spentBy,
             spentAt |-> n.spentAt, tip |-> n.tip]
    BY DEF OrphanDeleted
  <2> HIDE DEF n
  <2> QED BY <2>1, <2>2, <2>3, <2>4, <2>5 DEF Store
<1> HIDE DEF n
<1>4. AgreeIn(n)
  BY <1>1, <1>2 DEF WellIndexed, Store, AgreeIn, DepthsIn, NoHeight
<1>5. DepthsIn(n)
  BY <1>1, <1>2 DEF WellIndexed, Store, Tips, DepthsIn
<1> QED BY <1>2, <1>3, <1>4, <1>5 DEF WellIndexed, n

(* initializeGenesisBlock's store is well formed.                          *)
LEMMA GenesisWellIndexed == WellIndexed(GenesisStore)
<1>1. /\ Genesis \in Block /\ Depth[Genesis] = 0 /\ 0 \in Heights
      /\ Heights \subseteq Nat /\ None \notin Block /\ BlockTxs[Genesis] \subseteq Tx
  BY HeightFacts, TreeAssumption, BlockAssumption
<1>2. GenesisStore \in Store
  BY <1>1 DEF GenesisStore, Store, Tips
<1>3. AgreeIn(GenesisStore)
  <2>1. ASSUME NEW h \in Heights, GenesisStore.hashAt[h] # None
        PROVE  /\ GenesisStore.hashAt[h] \in GenesisStore.stored
               /\ GenesisStore.heightOf[GenesisStore.hashAt[h]] = h
    BY <1>1, <2>1 DEF GenesisStore
  <2>2. ASSUME NEW b \in Block
        PROVE  b \in GenesisStore.stored <=> GenesisStore.heightOf[b] # NoHeight
    BY <1>1 DEF GenesisStore, NoHeight
  <2> QED BY <2>1, <2>2 DEF AgreeIn
<1>4. DepthsIn(GenesisStore)
  BY <1>1 DEF DepthsIn, GenesisStore
<1> QED BY <1>2, <1>3, <1>4 DEF WellIndexed

-----------------------------------------------------------------------------
(* The inductive invariant behind the first group of theorems.             *)

IndBatch ==
  /\ WellIndexed(batch.view)
  /\ batch.done => BatchRunning
  /\ BatchRunning =>
       /\ batch.from \in 1 .. Depth[batch.top]
       /\ batch.next \in batch.from .. Depth[batch.top] + 1
       /\ \A r \in Roller : ~HoldsLock(r)
       /\ db.stored \subseteq batch.view.stored

IndRollback ==
  \A r \in Roller : rb[r].pc # "idle" =>
    /\ rb[r].blk \in Block
    /\ rb[r].target = Depth[rb[r].blk]

IndInv ==
  /\ TypeOK
  /\ WellIndexed(db)
  /\ best.ht = Depth[best.blk]
  /\ IndBatch
  /\ IndRollback

LEMMA IndInit == Init => IndInv
<1> SUFFICES ASSUME Init PROVE IndInv
  OBVIOUS
<1> USE DEF Init
<1>1. WellIndexed(GenesisStore)
  BY GenesisWellIndexed
<1>2. Genesis \in Block /\ None \notin Block
  BY TreeAssumption
<1>3. db \in Store /\ best \in Tips /\ best.ht = Depth[best.blk]
  BY <1>1 DEF WellIndexed, Store, DepthsIn
<1>4. batch \in BatchState
  BY <1>1 DEF WellIndexed, BatchState, NoBatch
<1>5. rb \in [Roller -> RollbackState]
  BY HeightBelow DEF NoRollbacks, NoRollback, RollbackState
<1>6. TypeOK
  BY <1>2, <1>3, <1>4, <1>5 DEF TypeOK
<1>7. IndBatch
  BY <1>1 DEF IndBatch, NoBatch, BatchRunning
<1>8. IndRollback
  BY DEF IndRollback, NoRollbacks, NoRollback
<1> QED BY <1>1, <1>3, <1>6, <1>7, <1>8 DEF IndInv

(* The actions that change only the batch.                                 *)
LEMMA IndBeginBatch ==
  ASSUME IndInv, NEW first \in Block, NEW last \in Block, BeginBatch(first, last)
  PROVE  IndInv'
<1> DEFINE path == { b \in Branch[last] : Depth[b] >= Depth[first] }
<1>1. PICK b \in path :
        LET h == db.heightOf[Parent[b]] + 1
        IN /\ b # Genesis
           /\ Unlocked
           /\ db.heightOf[Parent[b]] # NoHeight
           /\ batch' = [top |-> last, from |-> h, next |-> h, view |-> db, done |-> FALSE]
           /\ UNCHANGED <<db, best, index, known, rb>>
  BY DEF BeginBatch, CalculatedHeight
<1>2. /\ b \in Block /\ Depth[b] \in 0 .. Depth[last]
      /\ Parent[b] \in Block /\ Depth[Parent[b]] = Depth[b] - 1 /\ Depth[b] > 0
      /\ Depth[last] \in Nat
  BY <1>1, AncestorUnique, HeightFacts, TreeAssumption
<1>3. db.heightOf[Parent[b]] + 1 = Depth[b]
  BY <1>1, <1>2 DEF IndInv, WellIndexed, DepthsIn
<1>4. batch' = [top |-> last, from |-> Depth[b], next |-> Depth[b], view |-> db,
                done |-> FALSE]
  BY <1>1, <1>3
<1>5. batch' \in BatchState
  BY <1>2, <1>4 DEF BatchState, IndInv, WellIndexed
<1>6. TypeOK'
  BY <1>1, <1>5 DEF IndInv, TypeOK
<1>7. IndBatch'
  <2>1. WellIndexed(batch.view)'
    BY <1>1, <1>4 DEF IndInv, WellIndexed, AgreeIn, DepthsIn
  <2>2. \A r \in Roller : ~HoldsLock(r)'
    BY <1>1 DEF Unlocked, HoldsLock
  <2> QED BY <1>1, <1>2, <1>4, <2>1, <2>2 DEF IndBatch, BatchRunning
<1>8. IndRollback'
  BY <1>1 DEF IndInv, IndRollback
<1>9. WellIndexed(db)' /\ best'.ht = Depth[best'.blk]
  BY <1>1 DEF IndInv, WellIndexed, AgreeIn, DepthsIn
<1> QED BY <1>6, <1>7, <1>8, <1>9 DEF IndInv

LEMMA IndApplyBlock == ASSUME IndInv, ApplyBlock PROVE IndInv'
<1> DEFINE b == AncestorAt(batch.top, batch.next)
           n == Applied(batch.view, b, batch.next, best.ht)
<1>1. /\ BatchRunning /\ batch.next <= Depth[batch.top]
      /\ batch' = [batch EXCEPT !.next = @ + 1, !.view = n]
      /\ UNCHANGED <<db, best, index, known, rb>>
  BY DEF ApplyBlock, InLoop
<1>2. /\ batch.top \in Block /\ batch.from \in 1 .. Depth[batch.top]
      /\ batch.next \in batch.from .. Depth[batch.top] /\ Depth[batch.top] \in Nat
  BY <1>1, TreeAssumption DEF IndInv, IndBatch, TypeOK, BatchState, BatchRunning
<1>3. b \in Block /\ Depth[b] = batch.next
  BY <1>2, AncestorFacts
<1>4. best.ht \in Nat
  BY HeightFacts DEF IndInv, TypeOK, Tips
<1>5. WellIndexed(n) /\ batch.view.stored \subseteq n.stored
  <2> HIDE DEF b
  <2> QED BY <1>3, <1>4, AppliedWellIndexed DEF IndInv, IndBatch
<1> HIDE DEF n
<1>6. /\ batch'.top = batch.top /\ batch'.from = batch.from
      /\ batch'.next = batch.next + 1 /\ batch'.view = n /\ batch'.done = batch.done
      /\ batch' \in BatchState
  <2>1. batch \in BatchState /\ n \in Store
    BY <1>5 DEF IndInv, TypeOK, WellIndexed
  <2>2. batch' = [top |-> batch.top, from |-> batch.from, next |-> batch.next + 1,
                  view |-> n, done |-> batch.done]
    BY <1>1, <2>1 DEF BatchState
  <2>3. batch.next + 1 \in Nat
    BY <1>2
  <2> QED BY <2>1, <2>2, <2>3 DEF BatchState
<1>7. IndBatch'
  <2>1. WellIndexed(batch.view)'
    BY <1>5, <1>6 DEF WellIndexed, AgreeIn, DepthsIn
  <2>2. \A r \in Roller : ~HoldsLock(r)'
    BY <1>1 DEF IndInv, IndBatch, HoldsLock
  <2> QED BY <1>1, <1>2, <1>5, <1>6, <2>1, <2>2 DEF IndInv, IndBatch, BatchRunning
<1>8. TypeOK' /\ IndRollback' /\ best'.ht = Depth[best'.blk]
  BY <1>1, <1>6 DEF IndInv, TypeOK, IndRollback
<1>9. WellIndexed(db)'
  BY <1>1 DEF IndInv, WellIndexed, AgreeIn, DepthsIn
<1> QED BY <1>7, <1>8, <1>9 DEF IndInv

LEMMA IndRejectBatch == ASSUME IndInv, RejectBatch PROVE IndInv'
<1> USE DEF RejectBatch
<1>1. batch' \in BatchState
  BY GenesisWellIndexed DEF NoBatch, BatchState, WellIndexed
<1>2. IndBatch'
  BY GenesisWellIndexed
     DEF IndBatch, NoBatch, BatchRunning, WellIndexed, AgreeIn, DepthsIn
<1>3. TypeOK' /\ IndRollback' /\ best'.ht = Depth[best'.blk]
  BY <1>1 DEF IndInv, TypeOK, IndRollback
<1>4. WellIndexed(db)'
  BY DEF IndInv, WellIndexed, AgreeIn, DepthsIn
<1> QED BY <1>2, <1>3, <1>4 DEF IndInv

LEMMA IndSyncFails == ASSUME IndInv, SyncFails PROVE IndInv'
<1> USE DEF SyncFails
<1>1. batch' \in BatchState
  BY GenesisWellIndexed DEF NoBatch, BatchState, WellIndexed
<1>2. IndBatch'
  BY GenesisWellIndexed
     DEF IndBatch, NoBatch, BatchRunning, WellIndexed, AgreeIn, DepthsIn
<1>3. TypeOK' /\ IndRollback' /\ best'.ht = Depth[best'.blk]
  BY <1>1 DEF IndInv, TypeOK, IndRollback
<1>4. WellIndexed(db)'
  BY DEF IndInv, WellIndexed, AgreeIn, DepthsIn
<1> QED BY <1>2, <1>3, <1>4 DEF IndInv

LEMMA IndCommitBatch == ASSUME IndInv, CommitBatch PROVE IndInv'
<1> USE DEF CommitBatch
<1>1. batch \in BatchState /\ WellIndexed(batch.view)
  BY DEF IndInv, TypeOK, IndBatch
<1>2. batch' = [top |-> batch.top, from |-> batch.from, next |-> batch.next,
                view |-> batch.view, done |-> TRUE]
  BY <1>1 DEF BatchState
<1>3. batch' \in BatchState /\ db' \in Store
  BY <1>1, <1>2 DEF BatchState, WellIndexed
<1>4. WellIndexed(db)'
  BY <1>1 DEF WellIndexed, AgreeIn, DepthsIn
<1>5. IndBatch'
  <2>1. WellIndexed(batch.view)'
    BY <1>1, <1>2 DEF WellIndexed, AgreeIn, DepthsIn
  <2>2. \A r \in Roller : ~HoldsLock(r)'
    BY DEF IndInv, IndBatch, HoldsLock
  <2> QED BY <1>2, <2>1, <2>2 DEF IndInv, IndBatch, BatchRunning
<1>6. TypeOK' /\ IndRollback' /\ best'.ht = Depth[best'.blk]
  BY <1>3 DEF IndInv, TypeOK, IndRollback
<1> QED BY <1>4, <1>5, <1>6 DEF IndInv

LEMMA IndPublishBatch == ASSUME IndInv, PublishBatch PROVE IndInv'
<1> USE DEF PublishBatch
<1>1. batch.top \in Block
  BY DEF IndInv, IndBatch, TypeOK, BatchState, BatchRunning
<1>2. best' \in Tips /\ best'.ht = Depth[best'.blk]
  <2>1. Depth[batch.top] \in Heights
    BY <1>1, HeightFacts
  <2> QED BY <1>1, <2>1 DEF IndInv, TypeOK, Tips
<1>3. index' \subseteq Block /\ known' \subseteq Block
  BY <1>1, TreeAssumption DEF BatchBlocks, IndInv, TypeOK
<1>4. batch' \in BatchState
  BY GenesisWellIndexed DEF NoBatch, BatchState, WellIndexed
<1>5. IndBatch'
  BY GenesisWellIndexed
     DEF IndBatch, NoBatch, BatchRunning, WellIndexed, AgreeIn, DepthsIn
<1>6. TypeOK' /\ IndRollback'
  BY <1>2, <1>3, <1>4 DEF IndInv, TypeOK, IndRollback
<1>7. WellIndexed(db)'
  BY DEF IndInv, WellIndexed, AgreeIn, DepthsIn
<1> QED BY <1>2, <1>5, <1>6, <1>7 DEF IndInv

(* The actions of a rollback.                                              *)
LEMMA IndRollbackRead ==
  ASSUME IndInv, NEW r \in Roller, NEW target \in Heights, NEW reset \in BOOLEAN,
         RollbackRead(r, target, reset)
  PROVE  IndInv'
<1> DEFINE blk == HashSeenAt(target)
           new == [pc |-> "read", h |-> best.ht, target |-> target, blk |-> blk,
                   reset |-> reset]
<1>1. /\ blk # None
      /\ rb' = [rb EXCEPT ![r] = new]
      /\ UNCHANGED <<db, best, index, known, batch>>
  BY DEF RollbackRead
<1>2. target \in Nat /\ best.ht \in Heights
  BY HeightFacts DEF IndInv, TypeOK, Tips
<1>3. blk \in Block /\ Depth[blk] = target
  <2>1. CASE /\ BatchRunning /\ target \in batch.from .. batch.next
             /\ target <= Depth[batch.top]
    <3>1. batch.top \in Block
      BY <2>1 DEF IndInv, TypeOK, BatchState, BatchRunning
    <3>2. target \in 0 .. Depth[batch.top]
      BY <1>2, <2>1, <3>1, TreeAssumption
    <3> QED BY <2>1, <3>1, <3>2, AncestorFacts DEF HashSeenAt
  <2>2. CASE ~(/\ BatchRunning /\ target \in batch.from .. batch.next
               /\ target <= Depth[batch.top])
    <3>1. blk = db.hashAt[target]
      BY <2>2 DEF HashSeenAt
    <3> HIDE DEF blk
    <3>2. blk \in Block /\ db.heightOf[blk] = target
      BY <1>1, <3>1 DEF IndInv, WellIndexed, Store, AgreeIn
    <3> QED BY <1>2, <3>2 DEF IndInv, WellIndexed, DepthsIn, NoHeight
  <2> QED BY <2>1, <2>2
<1> HIDE DEF blk
<1>4. new \in RollbackState
  BY <1>2, <1>3 DEF RollbackState
<1>5. TypeOK'
  BY <1>1, <1>4 DEF IndInv, TypeOK
<1>6. IndRollback'
  BY <1>1, <1>3 DEF IndInv, IndRollback, TypeOK
<1>7. IndBatch'
  <2>1. \A q \in Roller : HoldsLock(q)' => HoldsLock(q)
    BY <1>1 DEF HoldsLock, IndInv, TypeOK
  <2> QED BY <1>1, <2>1 DEF IndInv, IndBatch, BatchRunning, WellIndexed, AgreeIn, DepthsIn
<1>8. WellIndexed(db)' /\ best'.ht = Depth[best'.blk]
  BY <1>1 DEF IndInv, WellIndexed, AgreeIn, DepthsIn
<1> QED BY <1>5, <1>6, <1>7, <1>8 DEF IndInv

(* A step of a rollback that holds the lock: the batch is idle and stays   *)
(* so, and what the step does to the store and the tip is all there is.    *)
LEMMA IndLocked ==
  ASSUME IndInv, NEW r \in Roller, HoldsLock(r) \/ ~BatchRunning,
         UNCHANGED batch,
         WellIndexed(db)', best' \in Tips, best'.ht = Depth[best'.blk],
         index' \subseteq Block, known' \subseteq Block,
         NEW new \in RollbackState, rb' = [rb EXCEPT ![r] = new],
         new.pc # "idle" => new.blk \in Block /\ new.target = Depth[new.blk]
  PROVE  IndInv'
<1>1. TypeOK'
  BY DEF IndInv, TypeOK, WellIndexed
<1>2. IndRollback'
  BY DEF IndInv, IndRollback, TypeOK
<1>3. ~BatchRunning /\ ~BatchRunning'
  BY DEF IndInv, IndBatch, BatchRunning
<1>4. IndBatch'
  BY <1>3 DEF IndInv, IndBatch, WellIndexed, AgreeIn, DepthsIn
<1> QED BY <1>1, <1>2, <1>4 DEF IndInv

LEMMA IndRollbackStep ==
  ASSUME IndInv, NEW r \in Roller, RollbackStep(r)
  PROVE  /\ IndInv'
         /\ db'.stored = db.stored \ {db.hashAt[rb[r].h]}
         /\ Depth[db.hashAt[rb[r].h]] > rb[r].target
<1> DEFINE b == db.hashAt[rb[r].h]
           gone == Disconnected(db, b, db.heightOf[b])
<1>1. /\ HoldsLock(r) /\ rb[r].h > rb[r].target
      /\ b # None /\ b \in db.stored
      /\ db' = gone /\ UNCHANGED batch
  BY DEF RollbackStep, InDescent, Loadable
<1>2. /\ rb[r] \in RollbackState
      /\ rb[r].h \in Heights /\ rb[r].target \in Heights /\ Heights \subseteq Nat
  BY HeightFacts DEF IndInv, TypeOK, RollbackState
<1>3. b \in Block /\ db.heightOf[b] # NoHeight /\ db.heightOf[b] = Depth[b]
  <2>1. b \in Block
    BY <1>1, <1>2 DEF IndInv, TypeOK, Store
  <2> HIDE DEF b
  <2> QED BY <1>1, <2>1 DEF IndInv, WellIndexed, AgreeIn, DepthsIn
<1>4. Depth[b] = rb[r].h
  <2>1. AgreeIn(db)
    BY DEF IndInv, WellIndexed
  <2>2. db.heightOf[db.hashAt[rb[r].h]] = rb[r].h
    BY <1>1, <1>2, <2>1 DEF AgreeIn
  <2> QED BY <1>3, <2>2
<1> HIDE DEF b
<1>5. b \in Block \ {Genesis}
  <2>0. rb[r].h \in Nat /\ rb[r].target \in Nat
    BY <1>2
  <2>1. Depth[b] > 0
    BY <1>1, <1>4, <2>0
  <2>2. Depth[Genesis] = 0
    BY TreeAssumption
  <2> QED BY <1>3, <2>1, <2>2
<1>6. WellIndexed(gone) /\ gone.stored = db.stored \ {b}
  BY <1>3, <1>5, DisconnectedWellIndexed DEF IndInv
<1> HIDE DEF gone
<1>7. WellIndexed(db)'
  BY <1>1, <1>6 DEF WellIndexed, AgreeIn, DepthsIn
<1>8. CASE Loadable(gone, Parent[b])
  <2> DEFINE new == [rb[r] EXCEPT !.h = @ - 1]
  <2>1. /\ best' = gone.tip /\ index' = index \ {b} /\ known' = known \ {b}
        /\ rb' = [rb EXCEPT ![r].h = @ - 1]
    BY <1>8 DEF RollbackStep, b, gone
  <2>2. /\ new \in RollbackState /\ new.blk = rb[r].blk /\ new.target = rb[r].target
    BY <1>1, <1>2, HeightBelow DEF RollbackState
  <2>3. rb' = [rb EXCEPT ![r] = new]
    BY <2>1, <1>2 DEF RollbackState
  <2>4. best' \in Tips /\ best'.ht = Depth[best'.blk]
    BY <1>6, <2>1 DEF WellIndexed, Store, DepthsIn
  <2>5. index' \subseteq Block /\ known' \subseteq Block
    BY <2>1 DEF IndInv, TypeOK
  <2>6. rb[r].blk \in Block /\ rb[r].target = Depth[rb[r].blk]
    BY <1>1 DEF HoldsLock, IndInv, IndRollback
  <2> HIDE DEF new
  <2>7. IndInv'
    BY <1>1, <1>7, <2>2, <2>3, <2>4, <2>5, <2>6, IndLocked
  <2> QED BY <1>1, <1>2, <1>4, <1>6, <2>7 DEF b
<1>9. CASE ~Loadable(gone, Parent[b])
  <2>1. rb' = [rb EXCEPT ![r] = NoRollback] /\ UNCHANGED <<best, index, known>>
    BY <1>9 DEF RollbackStep, b, gone
  <2>2. NoRollback \in RollbackState /\ NoRollback.pc = "idle"
    BY HeightBelow DEF NoRollback, RollbackState
  <2>3. best' \in Tips /\ best'.ht = Depth[best'.blk]
        /\ index' \subseteq Block /\ known' \subseteq Block
    BY <2>1 DEF IndInv, TypeOK
  <2>4. IndInv'
    BY <1>1, <1>7, <2>1, <2>2, <2>3, IndLocked
  <2> QED BY <1>1, <1>2, <1>4, <1>6, <2>4 DEF b
<1> QED BY <1>8, <1>9

LEMMA IndRollbackClean ==
  ASSUME IndInv, NEW r \in Roller, RollbackClean(r)
  PROVE  /\ IndInv'
         /\ HoldsLock(r)
         /\ \A b \in db.stored \ db'.stored : Depth[b] > rb[r].target
<1>1. /\ HoldsLock(r)
      /\ UNCHANGED <<best, index, known, batch, rb>>
  BY DEF RollbackClean, AtTarget
<1>2. PICK b \in OrphansAbove(db, rb[r].target) :
        db' = OrphanDeleted(db, b, db.heightOf[b])
  BY DEF RollbackClean
<1>3. rb[r] \in RollbackState /\ rb[r].target \in Heights /\ Heights \subseteq Nat
  BY HeightFacts DEF IndInv, TypeOK, RollbackState
<1>4. b \in Block /\ db.heightOf[b] > rb[r].target
  BY <1>2 DEF OrphansAbove
<1>5. db.heightOf[b] # NoHeight /\ db.heightOf[b] = Depth[b]
  <2>1. rb[r].target \in Nat
    BY <1>3
  <2>2. db.heightOf[b] \in {NoHeight, Depth[b]}
    BY <1>4 DEF IndInv, WellIndexed, DepthsIn
  <2> QED BY <1>4, <2>1, <2>2 DEF NoHeight
<1>6. WellIndexed(db') /\ db'.stored = db.stored \ {b}
  BY <1>2, <1>4, <1>5, OrphanDeletedWellIndexed DEF IndInv
<1>7. WellIndexed(db)'
  BY <1>6 DEF WellIndexed, AgreeIn, DepthsIn
<1>8. rb' = [rb EXCEPT ![r] = rb[r]]
  BY <1>1 DEF IndInv, TypeOK
<1>9. IndInv'
  <2>1. rb[r].blk \in Block /\ rb[r].target = Depth[rb[r].blk]
    BY <1>1 DEF HoldsLock, IndInv, IndRollback
  <2>2. best' \in Tips /\ best'.ht = Depth[best'.blk]
        /\ index' \subseteq Block /\ known' \subseteq Block
    BY <1>1 DEF IndInv, TypeOK
  <2> QED BY <1>1, <1>3, <1>7, <1>8, <2>1, <2>2, IndLocked
<1> QED BY <1>1, <1>4, <1>5, <1>6, <1>9

(* The other steps of a rollback.                                          *)
LEMMA IndRollbackLock == ASSUME IndInv, NEW r \in Roller, RollbackLock(r) PROVE IndInv'
<1> DEFINE new == [rb[r] EXCEPT !.pc = "loop"]
<1>1. /\ rb[r].pc = "read" /\ ~BatchRunning /\ rb' = [rb EXCEPT ![r].pc = "loop"]
      /\ UNCHANGED <<db, best, index, known, batch>>
  BY DEF RollbackLock, Unlocked
<1>2. rb[r] \in RollbackState
  BY DEF IndInv, TypeOK
<1>3. new \in RollbackState /\ new.blk = rb[r].blk /\ new.target = rb[r].target
      /\ rb' = [rb EXCEPT ![r] = new]
  BY <1>1, <1>2 DEF RollbackState
<1>4. rb[r].blk \in Block /\ rb[r].target = Depth[rb[r].blk]
  BY <1>1 DEF IndInv, IndRollback
<1> HIDE DEF new
<1>5. WellIndexed(db)' /\ best' \in Tips /\ best'.ht = Depth[best'.blk]
      /\ index' \subseteq Block /\ known' \subseteq Block
  BY <1>1 DEF IndInv, TypeOK, WellIndexed, AgreeIn, DepthsIn
<1> QED BY <1>1, <1>3, <1>4, <1>5, IndLocked

LEMMA IndRollbackSkip == ASSUME IndInv, NEW r \in Roller, RollbackSkip(r) PROVE IndInv'
<1> DEFINE new == [rb[r] EXCEPT !.h = @ - 1]
<1>1. /\ HoldsLock(r) /\ rb[r].h > rb[r].target /\ rb' = [rb EXCEPT ![r].h = @ - 1]
      /\ UNCHANGED <<db, best, index, known, batch>>
  BY DEF RollbackSkip, InDescent
<1>2. /\ rb[r] \in RollbackState
      /\ rb[r].h \in Heights /\ rb[r].target \in Heights /\ Heights \subseteq Nat
  BY HeightFacts DEF IndInv, TypeOK, RollbackState
<1>3. new \in RollbackState /\ new.blk = rb[r].blk /\ new.target = rb[r].target
  BY <1>1, <1>2, HeightBelow DEF RollbackState
<1>4. rb' = [rb EXCEPT ![r] = new]
  BY <1>1, <1>2 DEF RollbackState
<1>5. rb[r].blk \in Block /\ rb[r].target = Depth[rb[r].blk]
  BY <1>1 DEF IndInv, IndRollback, HoldsLock
<1> HIDE DEF new
<1>6. WellIndexed(db)' /\ best' \in Tips /\ best'.ht = Depth[best'.blk]
      /\ index' \subseteq Block /\ known' \subseteq Block
  BY <1>1 DEF IndInv, TypeOK, WellIndexed, AgreeIn, DepthsIn
<1> QED BY <1>1, <1>3, <1>4, <1>5, <1>6, IndLocked

LEMMA IndRollbackFail == ASSUME IndInv, NEW r \in Roller, RollbackFail(r) PROVE IndInv'
<1>1. /\ HoldsLock(r) /\ rb' = [rb EXCEPT ![r] = NoRollback]
      /\ UNCHANGED <<db, best, index, known, batch>>
  BY DEF RollbackFail, InDescent
<1>2. NoRollback \in RollbackState /\ NoRollback.pc = "idle"
  BY HeightBelow DEF NoRollback, RollbackState
<1>3. WellIndexed(db)' /\ best' \in Tips /\ best'.ht = Depth[best'.blk]
      /\ index' \subseteq Block /\ known' \subseteq Block
  BY <1>1 DEF IndInv, TypeOK, WellIndexed, AgreeIn, DepthsIn
<1> QED BY <1>1, <1>2, <1>3, IndLocked

LEMMA IndRollbackFinish ==
  ASSUME IndInv, NEW r \in Roller, RollbackFinish(r)
  PROVE  IndInv' /\ db'.stored = db.stored
<1> DEFINE new == IF rb[r].reset THEN [rb[r] EXCEPT !.pc = "reset"] ELSE NoRollback
<1>1. /\ HoldsLock(r)
      /\ known' = { b \in known : Depth[b] <= rb[r].target }
      /\ best' = [ht |-> rb[r].target, blk |-> rb[r].blk]
      /\ db' = [db EXCEPT !.tip = best']
      /\ rb' = [rb EXCEPT ![r] = new]
      /\ UNCHANGED <<index, batch>>
  BY DEF RollbackFinish, AtTarget, IndInv, TypeOK
<1>2. /\ rb[r].blk \in Block /\ rb[r].target = Depth[rb[r].blk]
      /\ rb[r] \in RollbackState /\ rb[r].target \in Heights
  BY <1>1 DEF HoldsLock, IndInv, IndRollback, TypeOK, RollbackState
<1>3. new \in RollbackState
  BY <1>2, HeightBelow DEF RollbackState, NoRollback
<1>4. new.pc # "idle" => new.blk \in Block /\ new.target = Depth[new.blk]
  BY <1>2 DEF RollbackState, NoRollback
<1> HIDE DEF new
<1>5. best' \in Tips /\ best'.ht = Depth[best'.blk]
  BY <1>1, <1>2 DEF Tips
<1>6. db.tip = db.tip /\ db \in Store
  BY DEF IndInv, TypeOK
<1>7. db' = [stored |-> db.stored, hashAt |-> db.hashAt, heightOf |-> db.heightOf,
             txLoc |-> db.txLoc, utxos |-> db.utxos, spentBy |-> db.spentBy,
             spentAt |-> db.spentAt, tip |-> best']
  BY <1>1, <1>6 DEF Store
<1>8. WellIndexed(db)'
  BY <1>5, <1>6, <1>7 DEF IndInv, WellIndexed, Store, AgreeIn, DepthsIn
<1>9. index' \subseteq Block /\ known' \subseteq Block
  BY <1>1 DEF IndInv, TypeOK
<1> QED BY <1>1, <1>3, <1>4, <1>5, <1>7, <1>8, <1>9, IndLocked

(* ResetChainState runs without the lock, beside a batch perhaps.          *)
LEMMA IndResetChainState ==
  ASSUME IndInv, NEW r \in Roller, ResetChainState(r) PROVE IndInv'
<1> USE DEF ResetChainState
<1>1. NoRollback \in RollbackState /\ NoRollback.pc = "idle"
  BY HeightBelow DEF NoRollback, RollbackState
<1>2. TypeOK' /\ IndRollback'
  BY <1>1 DEF IndInv, TypeOK, IndRollback
<1>3. \A q \in Roller : HoldsLock(q)' => HoldsLock(q)
  BY <1>1 DEF IndInv, TypeOK, HoldsLock
<1>4. IndBatch'
  BY <1>3 DEF IndInv, IndBatch, BatchRunning, WellIndexed, AgreeIn, DepthsIn
<1>5. WellIndexed(db)' /\ best'.ht = Depth[best'.blk]
  BY DEF IndInv, WellIndexed, AgreeIn, DepthsIn
<1> QED BY <1>2, <1>4, <1>5 DEF IndInv

(* A restart from a well-formed store.                                     *)
LEMMA IndReload ==
  ASSUME IndInv, NEW d, WellIndexed(d), Reload(d) PROVE IndInv'
<1> USE DEF Reload
<1>1. batch' \in BatchState /\ rb' \in [Roller -> RollbackState]
  BY GenesisWellIndexed, HeightBelow
     DEF NoBatch, BatchState, WellIndexed, NoRollbacks, NoRollback, RollbackState
<1>2. WellIndexed(db)' /\ best' \in Tips /\ best'.ht = Depth[best'.blk]
  BY DEF WellIndexed, AgreeIn, DepthsIn, Store
<1>3. index' \subseteq Block /\ known' \subseteq Block
  BY DEF Loadable, WellIndexed, Store
<1>4. TypeOK'
  BY <1>1, <1>2, <1>3 DEF TypeOK, WellIndexed
<1>5. IndBatch'
  BY GenesisWellIndexed
     DEF IndBatch, NoBatch, BatchRunning, WellIndexed, AgreeIn, DepthsIn
<1>6. IndRollback'
  BY DEF IndRollback, NoRollbacks, NoRollback
<1> QED BY <1>2, <1>4, <1>5, <1>6 DEF IndInv

LEMMA IndShutdown == ASSUME IndInv, Shutdown PROVE IndInv' /\ db'.stored = db.stored
<1> DEFINE d == [db EXCEPT !.tip = best]
<1>1. Reload(d)
  BY DEF Shutdown
<1>2. db \in Store /\ best \in Tips
  BY DEF IndInv, TypeOK
<1>3. d = [stored |-> db.stored, hashAt |-> db.hashAt, heightOf |-> db.heightOf,
           txLoc |-> db.txLoc, utxos |-> db.utxos, spentBy |-> db.spentBy,
           spentAt |-> db.spentAt, tip |-> best]
  BY <1>2 DEF Store
<1> HIDE DEF d
<1>4. WellIndexed(d)
  BY <1>2, <1>3 DEF IndInv, WellIndexed, Store, AgreeIn, DepthsIn
<1> QED BY <1>1, <1>3, <1>4, IndReload DEF Reload

(* One case per action.                                                    *)
LEMMA IndNext == IndInv /\ [Next]_vars => IndInv'
<1> SUFFICES ASSUME IndInv, [Next]_vars PROVE IndInv'
  OBVIOUS
<1>1. ASSUME NEW first \in Block, NEW last \in Block, BeginBatch(first, last)
      PROVE  IndInv'
  BY <1>1, IndBeginBatch
<1>2. CASE ApplyBlock
  BY <1>2, IndApplyBlock
<1>3. CASE RejectBatch
  BY <1>3, IndRejectBatch
<1>4. CASE CommitBatch
  BY <1>4, IndCommitBatch
<1>5. CASE PublishBatch
  BY <1>5, IndPublishBatch
<1>6. ASSUME NEW r \in Roller, NEW target \in Heights, NEW reset \in BOOLEAN,
             RollbackRead(r, target, reset)
      PROVE  IndInv'
  BY <1>6, IndRollbackRead
<1>7. ASSUME NEW r \in Roller, RollbackProgress(r) PROVE IndInv'
  BY <1>7, IndRollbackLock, IndRollbackSkip, IndRollbackStep, IndRollbackFail,
     IndRollbackClean, IndRollbackFinish, IndResetChainState DEF RollbackProgress
<1>8. CASE Crash
  BY <1>8, IndReload DEF Crash, IndInv
<1>9. CASE Shutdown
  BY <1>9, IndShutdown
<1>10. CASE SyncFails
  BY <1>10, IndSyncFails
<1>11. CASE UNCHANGED vars
  <2> USE <1>11 DEF vars
  <2>1. TypeOK' /\ IndRollback' /\ best'.ht = Depth[best'.blk]
    BY DEF IndInv, TypeOK, IndRollback
  <2>2. WellIndexed(db)' /\ WellIndexed(batch.view)'
    BY DEF IndInv, IndBatch, WellIndexed, AgreeIn, DepthsIn
  <2>3. IndBatch'
    BY <2>2 DEF IndInv, IndBatch, BatchRunning, HoldsLock
  <2> QED BY <2>1, <2>2, <2>3 DEF IndInv
<1> QED
  BY <1>1, <1>2, <1>3, <1>4, <1>5, <1>6, <1>7, <1>8, <1>9, <1>10, <1>11
     DEF Next, RollbackProgress

(* In every environment: the state has its types, the two height indexes   *)
(* agree with each other and with the block records, and heights are those *)
(* of the blocks' ancestry.                                                *)
THEOREM IndexCorrect == Spec => [](TypeOK /\ IndexesAgree /\ HeightsAreDepths)
<1>1. IndInv => TypeOK /\ IndexesAgree /\ HeightsAreDepths
  BY DEF IndInv, WellIndexed, IndexesAgree, HeightsAreDepths
<1> QED BY IndInit, IndNext, <1>1, PTL DEF Spec

(* Its parts by themselves: in every environment the state has its types,  *)
(* through crashes between any two commits and stale reads of rollbacks.   *)
THEOREM TypeCorrect == Spec => []TypeOK
<1>1. IndInv => TypeOK
  BY DEF IndInv
<1> QED BY IndInit, IndNext, <1>1, PTL DEF Spec

(* The height recorded for a stored block is its depth in the tree,        *)
(* whatever side batches and rollbacks have overwritten or erased.         *)
THEOREM HeightsCorrect == Spec => []HeightsAreDepths
<1>1. IndInv => HeightsAreDepths
  BY DEF IndInv, WellIndexed, HeightsAreDepths
<1> QED BY IndInit, IndNext, <1>1, PTL DEF Spec

(* A block leaves the store only under a rollback that holds processingMu, *)
(* and never one at or below its target.                                   *)
THEOREM RemovalByRollback == Spec => OnlyRollbackRemoves
<1> DEFINE Kept ==
      \A b \in db.stored \ db'.stored :
        \E r \in Roller : HoldsLock(r) /\ Depth[b] > rb[r].target
<1>1. IndInv /\ [Next]_vars => [Kept]_vars
  <2> SUFFICES ASSUME IndInv, Next PROVE Kept
    OBVIOUS
  <2>1. CASE db'.stored = db.stored
    BY <2>1
  <2>2. CASE CommitBatch
    BY <2>2 DEF CommitBatch, IndInv, IndBatch
  <2>3. ASSUME NEW r \in Roller, RollbackStep(r) PROVE Kept
    BY <2>3, IndRollbackStep DEF RollbackStep, InDescent
  <2>4. ASSUME NEW r \in Roller, RollbackClean(r) PROVE Kept
    BY <2>4, IndRollbackClean
  <2>5. ASSUME NEW r \in Roller, RollbackFinish(r) PROVE Kept
    BY <2>1, <2>5, IndRollbackFinish
  <2>6. CASE Shutdown
    BY <2>1, <2>6, IndShutdown
  <2>7. CASE Crash
    BY <2>1, <2>7 DEF Crash, Reload
  <2>8. ASSUME NEW first \in Block, NEW last \in Block, BeginBatch(first, last)
        PROVE  Kept
    BY <2>1, <2>8 DEF BeginBatch
  <2>9. CASE ApplyBlock \/ RejectBatch \/ PublishBatch \/ SyncFails
    BY <2>1, <2>9 DEF ApplyBlock, RejectBatch, PublishBatch, SyncFails
  <2>10. ASSUME NEW r \in Roller,
                \/ \E target \in Heights, reset \in BOOLEAN : RollbackRead(r, target, reset)
                \/ RollbackLock(r) \/ RollbackSkip(r) \/ RollbackFail(r)
                \/ ResetChainState(r)
         PROVE  Kept
    BY <2>1, <2>10
       DEF RollbackRead, RollbackLock, RollbackSkip, RollbackFail, ResetChainState
  <2> QED
    BY <2>2, <2>3, <2>4, <2>5, <2>6, <2>7, <2>8, <2>9, <2>10 DEF Next
<1> QED BY IndInit, IndNext, <1>1, PTL DEF Spec, OnlyRollbackRemoves

-----------------------------------------------------------------------------
(* processingMu, and what it is good for.                                  *)
OneHolder == \A r, s \in Roller : HoldsLock(r) /\ HoldsLock(s) => r = s

LEMMA HolderNext == IndInv /\ OneHolder /\ [Next]_vars => OneHolder'
<1> SUFFICES ASSUME IndInv, OneHolder, [Next]_vars PROVE OneHolder'
  OBVIOUS
<1>0. rb \in [Roller -> RollbackState]
  BY DEF IndInv, TypeOK
<1>1. CASE rb' = rb
  BY <1>1 DEF OneHolder, HoldsLock
<1>2. CASE rb' = NoRollbacks
  BY <1>2 DEF OneHolder, HoldsLock, NoRollbacks, NoRollback
<1>3. ASSUME NEW r \in Roller, NEW new, rb' = [rb EXCEPT ![r] = new],
             new.pc = "loop" => HoldsLock(r) \/ \A s \in Roller : ~HoldsLock(s)
      PROVE  OneHolder'
  BY <1>0, <1>3 DEF OneHolder, HoldsLock
<1>4. ASSUME NEW r \in Roller, RollbackLock(r) PROVE OneHolder'
  <2>1. rb' = [rb EXCEPT ![r] = [rb[r] EXCEPT !.pc = "loop"]]
    BY <1>0, <1>4 DEF RollbackLock
  <2> QED BY <1>3, <1>4, <2>1 DEF RollbackLock, Unlocked
<1>5. ASSUME NEW r \in Roller, RollbackSkip(r) \/ RollbackStep(r) \/ RollbackFail(r)
      PROVE  OneHolder'
  <2>1. \/ rb' = [rb EXCEPT ![r] = [rb[r] EXCEPT !.h = @ - 1]]
        \/ rb' = [rb EXCEPT ![r] = NoRollback]
    BY <1>0, <1>5 DEF RollbackSkip, RollbackStep, RollbackFail
  <2>2. HoldsLock(r)
    BY <1>5 DEF RollbackSkip, RollbackStep, RollbackFail, InDescent
  <2> QED BY <1>3, <2>1, <2>2
<1>6. ASSUME NEW r \in Roller, RollbackFinish(r) PROVE OneHolder'
  <2>1. HoldsLock(r)
    BY <1>6 DEF RollbackFinish, AtTarget
  <2>2. \E new : rb' = [rb EXCEPT ![r] = new]
    BY <1>6 DEF RollbackFinish
  <2> QED BY <1>3, <2>1, <2>2
<1>7. ASSUME NEW r \in Roller, ResetChainState(r) PROVE OneHolder'
  BY <1>3, <1>7 DEF ResetChainState, NoRollback
<1>8. ASSUME NEW r \in Roller, NEW target \in Heights, NEW reset \in BOOLEAN,
             RollbackRead(r, target, reset)
      PROVE  OneHolder'
  <2> DEFINE new == [pc |-> "read", h |-> best.ht, target |-> target,
                     blk |-> HashSeenAt(target), reset |-> reset]
  <2>1. rb' = [rb EXCEPT ![r] = new] /\ new.pc # "loop"
    BY <1>8 DEF RollbackRead
  <2> HIDE DEF new
  <2> QED BY <1>3, <2>1
<1> QED
  BY <1>1, <1>2, <1>4, <1>5, <1>6, <1>7, <1>8
     DEF Next, vars, BeginBatch, ApplyBlock, RejectBatch, CommitBatch, PublishBatch, SyncFails,
         RollbackClean, Crash, Shutdown, Reload

(* In every environment, with any number of rollbacks that read before     *)
(* they lock: the safety half of RollbackEnds.  Heights and orphans are    *)
(* finitely many, so the steps of a rollback that has the lock run out.    *)
THEOREM RollbackDescends == Spec => RollbackNears
<1> DEFINE Nears(r) ==
      \/ UNCHANGED <<db, batch>> /\ rb'[r] = rb[r]
      \/ InDescent(r) /\ rb'[r] = [rb[r] EXCEPT !.h = @ - 1]
      \/ /\ ~ InDescent(r) /\ rb'[r] = rb[r]
         /\ OrphansAbove(db', rb[r].target) \subseteq OrphansAbove(db, rb[r].target)
         /\ OrphansAbove(db', rb[r].target) # OrphansAbove(db, rb[r].target)
<1>1. ASSUME IndInv, OneHolder, Next, NEW r \in Roller, HoldsLock(r), HoldsLock(r)'
      PROVE  Nears(r)
  <2>0. rb \in [Roller -> RollbackState] /\ ~BatchRunning /\ ~batch.done
    BY <1>1 DEF IndInv, TypeOK, IndBatch
  <2>1. ASSUME NEW s \in Roller, s # r
        PROVE  ~HoldsLock(s)
    BY <1>1, <2>1 DEF OneHolder
  <2>2. CASE \E first, last \in Block : BeginBatch(first, last)
    BY <1>1, <2>2 DEF BeginBatch, Unlocked
  <2>3. CASE ApplyBlock \/ RejectBatch \/ CommitBatch \/ PublishBatch \/ SyncFails
    BY <2>0, <2>3 DEF ApplyBlock, RejectBatch, CommitBatch, PublishBatch, SyncFails, InLoop
  <2>4. ASSUME NEW s \in Roller, NEW target \in Heights, NEW reset \in BOOLEAN,
               RollbackRead(s, target, reset)
        PROVE  Nears(r)
    <3>1. s # r
      BY <1>1, <2>4 DEF RollbackRead, HoldsLock
    <3> QED BY <2>0, <2>4, <3>1 DEF RollbackRead
  <2>5. ASSUME NEW s \in Roller, RollbackLock(s) PROVE Nears(r)
    BY <1>1, <2>5 DEF RollbackLock, Unlocked
  <2>6. ASSUME NEW s \in Roller, ResetChainState(s) PROVE Nears(r)
    <3>1. s # r
      BY <1>1, <2>6 DEF ResetChainState, HoldsLock
    <3> QED BY <2>0, <2>6, <3>1 DEF ResetChainState
  <2>7. ASSUME NEW s \in Roller, RollbackSkip(s) \/ RollbackStep(s) \/ RollbackFail(s)
        PROVE  Nears(r)
    <3>1. s = r /\ InDescent(r)
      BY <2>1, <2>7 DEF RollbackSkip, RollbackStep, RollbackFail, InDescent
    <3>2. \/ rb' = [rb EXCEPT ![r] = [rb[r] EXCEPT !.h = @ - 1]]
          \/ rb' = [rb EXCEPT ![r] = NoRollback]
      BY <2>0, <2>7, <3>1 DEF RollbackSkip, RollbackStep, RollbackFail
    <3>3. rb' = [rb EXCEPT ![r] = [rb[r] EXCEPT !.h = @ - 1]]
      BY <1>1, <2>0, <3>2 DEF HoldsLock, NoRollback
    <3> QED BY <2>0, <3>1, <3>3
  <2>8. ASSUME NEW s \in Roller, RollbackClean(s) PROVE Nears(r)
    <3>1. s = r /\ HoldsLock(r) /\ rb[r].h <= rb[r].target /\ rb' = rb
      BY <2>1, <2>8 DEF RollbackClean, AtTarget
    <3>2. PICK b \in OrphansAbove(db, rb[r].target) : db' = OrphanDeleted(db, b, db.heightOf[b])
      BY <2>8, <3>1 DEF RollbackClean
    <3>3. rb[r].h \in Nat /\ rb[r].target \in Nat
      BY <2>0, HeightFacts DEF RollbackState
    <3>4. db'.heightOf = [db.heightOf EXCEPT ![b] = NoHeight]
      BY <3>2 DEF OrphanDeleted
    <3>5. db.heightOf \in [Block -> Heights \union {NoHeight}] /\ b \in Block
      BY <1>1, <3>2 DEF IndInv, TypeOK, Store, OrphansAbove
    <3>6. OrphansAbove(db', rb[r].target) = OrphansAbove(db, rb[r].target) \ {b}
      BY <3>3, <3>4, <3>5 DEF OrphansAbove, NoHeight
    <3>7. ~ InDescent(r)
      BY <3>1, <3>3 DEF InDescent
    <3> QED BY <3>1, <3>2, <3>6, <3>7
  <2>9. ASSUME NEW s \in Roller, RollbackFinish(s) PROVE Nears(r)
    <3>1. s = r
      BY <2>1, <2>9 DEF RollbackFinish, AtTarget
    <3>2. rb'[r].pc # "loop"
      BY <2>0, <2>9, <3>1 DEF RollbackFinish, NoRollback, RollbackState
    <3> QED BY <1>1, <3>2 DEF HoldsLock
  <2>10. CASE Crash \/ Shutdown
    BY <1>1, <2>10 DEF Crash, Shutdown, Reload, HoldsLock, NoRollbacks, NoRollback
  <2> QED BY <1>1, <2>2, <2>3, <2>4, <2>5, <2>6, <2>7, <2>8, <2>9, <2>10 DEF Next
<1>2. IndInv /\ OneHolder /\ [Next]_vars =>
        [\A r \in Roller : HoldsLock(r) /\ HoldsLock(r)' => Nears(r)]_vars
  BY <1>1
<1>3. Init => OneHolder
  BY DEF Init, OneHolder, HoldsLock, NoRollbacks, NoRollback
<1> QED BY <1>2, <1>3, IndInit, IndNext, HolderNext, PTL DEF Spec, RollbackNears
=============================================================================
