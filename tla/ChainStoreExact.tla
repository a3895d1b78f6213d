--------------------------- MODULE ChainStoreExact ---------------------------
(***************************************************************************)
(* In a calm environment (an honest block tree, peers that extend the tip, *)
(* nobody racing a rollback; the process may crash at any point) the store *)
(* is at every instant the image of one branch, and so implements Ledger.  *)
(*                                                                         *)
(* The argument: applying a child of the tip to an exact store, and        *)
(* disconnecting the tip of one, give exact stores (ExactApplied,          *)
(* ExactDisconnected).  CalmInv says where the running batch and rollback  *)
(* stand relative to the store's branch, so that every block they apply or *)
(* disconnect is a child of the tip, or the tip.                           *)
(*                                                                         *)
(* Where batches race one rollback, the store is such an image whenever    *)
(* nobody is at work.  A rollback may then start in the middle of the      *)
(* branch and leave the blocks above to the orphan clean-up: Partial says  *)
(* what the store is meanwhile, PartialWithout that taking out any block   *)
(* keeps it so, and RaceInv where the rollback stands.                     *)
(***************************************************************************)
EXTENDS ChainStoreProofs

(* The assumptions on the surroundings.                                    *)
Calm == HonestTree /\ Env \subseteq {"crash"}

LEMMA TxsOfFact == \A S : \A t : t \in TxsOf(S) <=> \E x \in S : t \in BlockTxs[x]
  BY DEF TxsOf

LEMMA SpendsFact == \A S : \A o : o \in Spends(S) <=> \E s \in TxsOf(S) : o \in Ins[s]
  BY DEF Spends

LEMMA OneBlock == \A b : TxsOf({b}) = BlockTxs[b]
  BY DEF TxsOf

(* A block adds itself to its parent's branch, its transactions are new    *)
(* there and spend nothing the branch has spent.                           *)
LEMMA BranchSplit ==
  ASSUME HonestTree, NEW b \in Block \ {Genesis}
  PROVE  /\ Parent[b] \in Block
         /\ Branch[b] = Branch[Parent[b]] \union {b}
         /\ b \notin Branch[Parent[b]]
         /\ \A h \in 0 .. Depth[Parent[b]] : AncestorAt(b, h) = AncestorAt(Parent[b], h)
         /\ AncestorAt(b, Depth[b]) = b
         /\ TxsOf(Branch[b]) = TxsOf(Branch[Parent[b]]) \union BlockTxs[b]
         /\ Spends(Branch[b]) = Spends(Branch[Parent[b]]) \union Spends({b})
         /\ BlockTxs[b] \intersect TxsOf(Branch[Parent[b]]) = {}
         /\ Spends({b}) \intersect Spends(Branch[Parent[b]]) = {}
<1> DEFINE p == Parent[b]
<1>1. p \in Block /\ Depth[b] = Depth[p] + 1 /\ Depth[p] \in Nat /\ Branch[b] = Branch[p] \union {b}
  <2>1. p \in Block /\ Depth[b] = Depth[p] + 1 /\ Branch[b] = Branch[p] \union {b}
    BY TreeAssumption
  <2>2. Depth \in [Block -> Nat]
    BY TreeAssumption
  <2> QED BY <2>1, <2>2
<1> HIDE DEF p
<1>2. b \notin Branch[p]
  <2>1. \A x \in Branch[p] : Depth[x] <= Depth[p]
    BY <1>1, TreeAssumption
  <2> QED BY <1>1, <2>1
<1>3. ASSUME NEW h \in 0 .. Depth[p] PROVE AncestorAt(b, h) = AncestorAt(p, h)
  <2>1. AncestorAt(p, h) \in Branch[b] /\ Depth[AncestorAt(p, h)] = h
    BY <1>1, AncestorFacts
  <2> QED BY <2>1, AncestorUnique
<1>4. AncestorAt(b, Depth[b]) = b
  BY OnOwnBranch, AncestorUnique
<1>5. TxsOf(Branch[b]) = TxsOf(Branch[p]) \union BlockTxs[b]
  BY <1>1, TxsOfFact
<1>6. Spends(Branch[b]) = Spends(Branch[p]) \union Spends({b})
  BY <1>5, SpendsFact, OneBlock
<1>7. BlockTxs[b] \intersect TxsOf(Branch[p]) = {}
  <2>1. \A x \in Branch[p] : BlockTxs[x] \intersect BlockTxs[b] = {}
    BY <1>1, <1>2 DEF HonestTree
  <2> QED BY <2>1, TxsOfFact
<1>8. Spends({b}) \intersect Spends(Branch[p]) = {}
  <2> SUFFICES ASSUME NEW o \in Spends({b}), o \in Spends(Branch[p]) PROVE FALSE
    OBVIOUS
  <2>1. PICK s \in BlockTxs[b] : o \in Ins[s]
    BY SpendsFact, OneBlock
  <2>2. PICK t \in TxsOf(Branch[p]) : o \in Ins[t]
    BY SpendsFact
  <2>3. s # t /\ s \in TxsOf(Branch[b]) /\ t \in TxsOf(Branch[b])
    BY <1>5, <1>7
  <2> QED BY <2>1, <2>2, <2>3 DEF HonestTree
<1> QED BY <1>1, <1>2, <1>3, <1>4, <1>5, <1>6, <1>7, <1>8 DEF p

(* Applying a child of the tip keeps the store exact.                      *)
LEMMA ExactApplied ==
  ASSUME HonestTree, NEW d, NEW v, WellIndexed(v), NEW b \in Block \ {Genesis},
         Exact(v, Parent[b]), CanApply(d, v, b, Depth[b]),
         NEW bestHt \in Nat, bestHt < Depth[b]
  PROVE  Exact(Applied(v, b, Depth[b], bestHt), b)
<1> DEFINE p == Parent[b]
           n == Applied(v, b, Depth[b], bestHt)
<1>0. p \in Block /\ Depth[p] = Depth[b] - 1 /\ Depth[b] > 0 /\ Depth[b] \in Nat
      /\ Depth[b] \in Heights /\ Heights \subseteq Nat
  BY HeightFacts
<1>1. /\ n.stored = v.stored \union {b}
      /\ n.hashAt = [v.hashAt EXCEPT ![Depth[b]] = b]
      /\ n.heightOf = [v.heightOf EXCEPT ![b] = Depth[b]]
      /\ n.txLoc = [t \in Tx |-> IF t \in BlockTxs[b] THEN b ELSE v.txLoc[t]]
      /\ n.utxos = v.utxos \union BlockTxs[b]
      /\ n.tip = [ht |-> Depth[b], blk |-> b]
  BY DEF Applied
<1>2. /\ n.spentBy = [o \in Tx |-> IF o \in Spends({b})
                                     THEN CHOOSE s \in BlockTxs[b] : o \in Ins[s]
                                   ELSE IF o \in BlockTxs[b] THEN None
                                   ELSE v.spentBy[o]]
      /\ n.spentAt = [o \in Tx |-> IF o \in Spends({b}) THEN Depth[b]
                                   ELSE IF o \in BlockTxs[b] THEN 0
                                   ELSE v.spentAt[o]]
  BY DEF Applied
<1>3. /\ v.stored = Branch[p]
      /\ v.hashAt = [h \in Heights |-> IF h <= Depth[p] THEN AncestorAt(p, h) ELSE None]
      /\ v.heightOf = [x \in Block |-> IF x \in Branch[p] THEN Depth[x] ELSE NoHeight]
      /\ \A x \in Branch[p] : \A t \in BlockTxs[x] : v.txLoc[t] = x
      /\ \A t \in Tx \ TxsOf(Branch[p]) : v.txLoc[t] = None
      /\ v.utxos = TxsOf(Branch[p])
      /\ \A x \in Branch[p] : \A s \in BlockTxs[x] : \A o \in Ins[s] :
           v.spentBy[o] = s /\ v.spentAt[o] = Depth[x]
      /\ \A o \in Tx \ Spends(Branch[p]) : v.spentBy[o] = None /\ v.spentAt[o] = 0
      /\ \A x \in Branch[p] : Spends({x}) \subseteq TxsOf(Branch[x])
  BY DEF Exact
<1>4. /\ Branch[b] = Branch[p] \union {b} /\ b \notin Branch[p]
      /\ \A h \in 0 .. Depth[p] : AncestorAt(b, h) = AncestorAt(p, h)
      /\ AncestorAt(b, Depth[b]) = b
      /\ TxsOf(Branch[b]) = TxsOf(Branch[p]) \union BlockTxs[b]
      /\ Spends(Branch[b]) = Spends(Branch[p]) \union Spends({b})
      /\ BlockTxs[b] \intersect TxsOf(Branch[p]) = {}
      /\ Spends({b}) \intersect Spends(Branch[p]) = {}
  BY BranchSplit
<1>5. Branch[p] \subseteq Block /\ Branch[b] \subseteq Block /\ BlockTxs[b] \subseteq Tx
      /\ (\A x \in Block : BlockTxs[x] \subseteq Tx) /\ (\A t \in Tx : Ins[t] \subseteq Tx)
  BY <1>0, TreeAssumption, BlockAssumption
<1> HIDE DEF n, p
<1>6. n.stored = Branch[b] /\ n.utxos = TxsOf(Branch[b])
  BY <1>1, <1>3, <1>4
<1>7. n.hashAt = [h \in Heights |-> IF h <= Depth[b] THEN AncestorAt(b, h) ELSE None]
  <2>1. \A h \in Heights : h <= Depth[p] => AncestorAt(b, h) = AncestorAt(p, h)
    BY <1>0, <1>4
  <2>2. \A h \in Heights : h <= Depth[b] <=> h <= Depth[p] \/ h = Depth[b]
    BY <1>0
  <2>3. n.hashAt = [h \in Heights |-> IF h = Depth[b] THEN b ELSE v.hashAt[h]]
    BY <1>0, <1>1, <1>3
  <2>4. ASSUME NEW h \in Heights
        PROVE  (IF h = Depth[b] THEN b ELSE v.hashAt[h])
                 = (IF h <= Depth[b] THEN AncestorAt(b, h) ELSE None)
    <3>1. CASE h = Depth[b]
      BY <1>0, <1>4, <3>1
    <3>2. CASE h # Depth[b]
      <4>1. v.hashAt[h] = IF h <= Depth[p] THEN AncestorAt(p, h) ELSE None
        BY <1>3
      <4> QED BY <2>1, <2>2, <3>2, <4>1
    <3> QED BY <3>1, <3>2
  <2> QED BY <2>3, <2>4
<1>8. n.heightOf = [x \in Block |-> IF x \in Branch[b] THEN Depth[x] ELSE NoHeight]
  BY <1>1, <1>3, <1>4
<1>9. /\ \A x \in Branch[b] : \A t \in BlockTxs[x] : n.txLoc[t] = x
      /\ \A t \in Tx \ TxsOf(Branch[b]) : n.txLoc[t] = None
  <2>1. ASSUME NEW x \in Branch[b], NEW t \in BlockTxs[x] PROVE n.txLoc[t] = x
    <3>1. t \in Tx
      BY <1>5
    <3>2. CASE x = b
      BY <1>1, <3>1, <3>2
    <3>3. CASE x # b
      <4>1. x \in Branch[p] /\ t \in TxsOf(Branch[p])
        BY <1>4, <3>3, TxsOfFact
      <4>2. v.txLoc[t] = x /\ t \notin BlockTxs[b]
        BY <1>3, <1>4, <4>1
      <4> QED BY <1>1, <3>1, <4>2
    <3> QED BY <3>2, <3>3
  <2>2. ASSUME NEW t \in Tx \ TxsOf(Branch[b]) PROVE n.txLoc[t] = None
    <3>1. t \notin BlockTxs[b] /\ t \notin TxsOf(Branch[p])
      BY <1>4
    <3>2. \A u \in Tx \ TxsOf(Branch[p]) : v.txLoc[u] = None
      BY <1>3
    <3>3. v.txLoc[t] = None
      BY <3>1, <3>2
    <3> QED BY <1>1, <3>1, <3>3
  <2> QED BY <2>1, <2>2
<1>10. \A x \in Branch[p] : \A s \in BlockTxs[x] : \A o \in Ins[s] :
          o \in Spends(Branch[p]) /\ o \in Spends({x}) /\ o \in Tx
  BY <1>5, SpendsFact, TxsOfFact, OneBlock
<1>11. \A x \in Branch[b] : Spends({x}) \subseteq TxsOf(Branch[x])
  <2>1. Spends({b}) \subseteq TxsOf(Branch[b])
    <3> SUFFICES ASSUME NEW o \in Spends({b}) PROVE o \in TxsOf(Branch[b])
      OBVIOUS
    <3>1. PICK s \in BlockTxs[b] : o \in Ins[s]
      BY SpendsFact, OneBlock
    <3>2. o \in BlockTxs[b] \/ o \in v.utxos
      BY <3>1 DEF CanApply, CanMarkSpent
    <3>3. v.utxos = TxsOf(Branch[p])
      BY <1>3
    <3> QED BY <1>4, <3>2, <3>3
  <2> QED BY <1>3, <1>4, <2>1
<1>12. \A x \in Branch[b] : \A s \in BlockTxs[x] : \A o \in Ins[s] :
          n.spentBy[o] = s /\ n.spentAt[o] = Depth[x]
  <2>1. ASSUME NEW s \in BlockTxs[b], NEW o \in Ins[s]
        PROVE  n.spentBy[o] = s /\ n.spentAt[o] = Depth[b]
    <3>1. o \in Spends({b}) /\ o \in Tx
      BY <1>5, SpendsFact, OneBlock
    <3>2. \A t \in BlockTxs[b] : o \in Ins[t] => t = s
      BY BlockAssumption
    <3> QED BY <1>2, <3>1, <3>2
  <2>2. ASSUME NEW x \in Branch[p], NEW s \in BlockTxs[x], NEW o \in Ins[s]
        PROVE  n.spentBy[o] = s /\ n.spentAt[o] = Depth[x]
    <3>1. o \in Spends(Branch[p]) /\ o \in Spends({x}) /\ o \in Tx
      BY <1>10
    <3>2. o \in TxsOf(Branch[p])
      <4>1. Branch[x] \subseteq Branch[p]
        BY <1>0, TreeAssumption
      <4>2. o \in TxsOf(Branch[x])
        BY <1>3, <3>1
      <4> QED BY <4>1, <4>2, TxsOfFact
    <3>3. o \notin Spends({b}) /\ o \notin BlockTxs[b]
      BY <1>4, <3>1, <3>2
    <3> QED BY <1>2, <1>3, <3>1, <3>3
  <2> QED BY <1>4, <2>1, <2>2
<1>13. \A o \in Tx \ Spends(Branch[b]) : n.spentBy[o] = None /\ n.spentAt[o] = 0
  BY <1>2, <1>3, <1>4
<1> QED BY <1>1, <1>6, <1>7, <1>8, <1>9, <1>11, <1>12, <1>13 DEF Exact, n

(* Disconnecting the tip leaves its parent's branch.                       *)
LEMMA ExactDisconnected ==
  ASSUME HonestTree, NEW d, WellIndexed(d), NEW b \in Block \ {Genesis}, Exact(d, b)
  PROVE  /\ Exact(Disconnected(d, b, d.heightOf[b]), Parent[b])
         /\ CanDisconnect(d, b)
         /\ Loadable(Disconnected(d, b, d.heightOf[b]), Parent[b])
<1> DEFINE p == Parent[b]
           n == Disconnected(d, b, d.heightOf[b])
<1>0. p \in Block /\ Depth[p] = Depth[b] - 1 /\ Depth[b] > 0 /\ Depth[b] \in Nat
      /\ Depth[b] \in Heights /\ Heights \subseteq Nat
  BY HeightFacts
<1>1. /\ d.stored = Branch[b]
      /\ d.hashAt = [h \in Heights |-> IF h <= Depth[b] THEN AncestorAt(b, h) ELSE None]
      /\ d.heightOf = [x \in Block |-> IF x \in Branch[b] THEN Depth[x] ELSE NoHeight]
      /\ \A x \in Branch[b] : \A t \in BlockTxs[x] : d.txLoc[t] = x
      /\ \A t \in Tx \ TxsOf(Branch[b]) : d.txLoc[t] = None
      /\ d.utxos = TxsOf(Branch[b])
      /\ \A x \in Branch[b] : \A s \in BlockTxs[x] : \A o \in Ins[s] :
           d.spentBy[o] = s /\ d.spentAt[o] = Depth[x]
      /\ \A o \in Tx \ Spends(Branch[b]) : d.spentBy[o] = None /\ d.spentAt[o] = 0
      /\ \A x \in Branch[b] : Spends({x}) \subseteq TxsOf(Branch[x])
  BY DEF Exact
<1>2. d.heightOf[b] = Depth[b]
  BY <1>1, OnOwnBranch
<1>3. /\ n.stored = d.stored \ {b}
      /\ n.hashAt = [d.hashAt EXCEPT ![Depth[b]] = None]
      /\ n.heightOf = [d.heightOf EXCEPT ![b] = NoHeight]
      /\ n.txLoc = [t \in Tx |-> IF t \in BlockTxs[b] THEN None ELSE d.txLoc[t]]
      /\ n.utxos = d.utxos \ BlockTxs[b]
      /\ n.tip = [ht |-> Depth[p], blk |-> p]
  BY <1>0, <1>2 DEF Disconnected
<1>4. /\ n.spentBy = [o \in Tx |-> IF o \in BlockTxs[b] \union Spends({b})
                                     THEN None ELSE d.spentBy[o]]
      /\ n.spentAt = [o \in Tx |-> IF o \in BlockTxs[b] \union Spends({b})
                                     THEN 0 ELSE d.spentAt[o]]
  BY DEF Disconnected
<1>5. /\ Branch[b] = Branch[p] \union {b} /\ b \notin Branch[p]
      /\ \A h \in 0 .. Depth[p] : AncestorAt(b, h) = AncestorAt(p, h)
      /\ TxsOf(Branch[b]) = TxsOf(Branch[p]) \union BlockTxs[b]
      /\ Spends(Branch[b]) = Spends(Branch[p]) \union Spends({b})
      /\ BlockTxs[b] \intersect TxsOf(Branch[p]) = {}
      /\ Spends({b}) \intersect Spends(Branch[p]) = {}
  BY BranchSplit
<1>6. Branch[p] \subseteq Block /\ Branch[b] \subseteq Block
      /\ (\A x \in Block : BlockTxs[x] \subseteq Tx) /\ (\A t \in Tx : Ins[t] \subseteq Tx)
  BY <1>0, TreeAssumption, BlockAssumption
<1> HIDE DEF n, p
<1>7. n.stored = Branch[p] /\ n.utxos = TxsOf(Branch[p])
  <2>1. d.stored = Branch[b] /\ d.utxos = TxsOf(Branch[b])
    BY <1>1
  <2>2. n.stored = d.stored \ {b} /\ n.utxos = d.utxos \ BlockTxs[b]
    BY <1>3
  <2>3. n.stored = Branch[p]
    BY <1>5, <2>1, <2>2
  <2>4. n.utxos = TxsOf(Branch[p])
    BY <1>5, <2>1, <2>2
  <2> QED BY <2>3, <2>4
<1>8. n.hashAt = [h \in Heights |-> IF h <= Depth[p] THEN AncestorAt(p, h) ELSE None]
  <2>1. n.hashAt = [h \in Heights |-> IF h = Depth[b] THEN None ELSE d.hashAt[h]]
    BY <1>0, <1>1, <1>3
  <2>2. ASSUME NEW h \in Heights
        PROVE  (IF h = Depth[b] THEN None ELSE d.hashAt[h])
                 = (IF h <= Depth[p] THEN AncestorAt(p, h) ELSE None)
    <3>1. h \in Nat
      BY <1>0
    <3>2. d.hashAt[h] = IF h <= Depth[b] THEN AncestorAt(b, h) ELSE None
      BY <1>1
    <3>3. h <= Depth[p] => AncestorAt(b, h) = AncestorAt(p, h)
      BY <1>0, <1>5, <3>1
    <3>4. h <= Depth[b] <=> h <= Depth[p] \/ h = Depth[b]
      BY <1>0, <3>1
    <3>5. ~(Depth[b] <= Depth[p])
      BY <1>0
    <3> QED BY <3>2, <3>3, <3>4, <3>5
  <2> QED BY <2>1, <2>2
<1>9. n.heightOf = [x \in Block |-> IF x \in Branch[p] THEN Depth[x] ELSE NoHeight]
  <2>1. /\ d.heightOf = [x \in Block |-> IF x \in Branch[b] THEN Depth[x] ELSE NoHeight]
        /\ n.heightOf = [d.heightOf EXCEPT ![b] = NoHeight]
    BY <1>1, <1>3
  <2>2. n.heightOf = [x \in Block |-> IF x = b THEN NoHeight
                                     ELSE IF x \in Branch[b] THEN Depth[x] ELSE NoHeight]
    BY <2>1
  <2>3. \A x \in Block : x \in Branch[p] <=> x \in Branch[b] /\ x # b
    BY <1>5
  <2> QED BY <2>2, <2>3
<1>10. \A x \in Branch[p] : \A t \in BlockTxs[x] : n.txLoc[t] = x
  <2> SUFFICES ASSUME NEW x \in Branch[p], NEW t \in BlockTxs[x] PROVE n.txLoc[t] = x
    OBVIOUS
  <2>1. t \in Tx /\ t \in TxsOf(Branch[p]) /\ x \in Branch[b]
    BY <1>5, <1>6, TxsOfFact
  <2>2. t \notin BlockTxs[b] /\ d.txLoc[t] = x
    BY <1>1, <1>5, <2>1
  <2> QED BY <1>3, <2>1, <2>2
<1>11. \A t \in Tx \ TxsOf(Branch[p]) : n.txLoc[t] = None
  <2> SUFFICES ASSUME NEW t \in Tx \ TxsOf(Branch[p]), t \notin BlockTxs[b]
               PROVE  n.txLoc[t] = None
    BY <1>3
  <2>1. t \in Tx \ TxsOf(Branch[b])
    BY <1>5
  <2>2. d.txLoc[t] = None
    BY <1>1, <2>1
  <2> QED BY <1>3, <2>2
<1>12. \A x \in Branch[p] : Spends({x}) \subseteq TxsOf(Branch[x])
  BY <1>1, <1>5
<1>13. \A x \in Branch[p] : \A s \in BlockTxs[x] : \A o \in Ins[s] :
          n.spentBy[o] = s /\ n.spentAt[o] = Depth[x]
  <2> SUFFICES ASSUME NEW x \in Branch[p], NEW s \in BlockTxs[x], NEW o \in Ins[s]
               PROVE  n.spentBy[o] = s /\ n.spentAt[o] = Depth[x]
    OBVIOUS
  <2>1. o \in Spends(Branch[p]) /\ o \in Spends({x}) /\ o \in Tx
    BY <1>6, SpendsFact, TxsOfFact, OneBlock
  <2>2. o \in TxsOf(Branch[p])
    <3>1. Branch[x] \subseteq Branch[p]
      BY <1>0, TreeAssumption
    <3>2. o \in TxsOf(Branch[x])
      BY <1>12, <2>1
    <3> QED BY <3>1, <3>2, TxsOfFact
  <2>3. o \notin Spends({b}) /\ o \notin BlockTxs[b]
    BY <1>5, <2>1, <2>2
  <2>4. d.spentBy[o] = s /\ d.spentAt[o] = Depth[x]
    BY <1>1, <1>5
  <2> QED BY <1>4, <2>1, <2>3, <2>4
<1>14. \A o \in Tx \ Spends(Branch[p]) : n.spentBy[o] = None /\ n.spentAt[o] = 0
  <2> SUFFICES ASSUME NEW o \in Tx \ Spends(Branch[p]),
                      o \notin BlockTxs[b] \union Spends({b})
               PROVE  n.spentBy[o] = None /\ n.spentAt[o] = 0
    BY <1>4
  <2>1. o \in Tx \ Spends(Branch[b])
    BY <1>5
  <2>2. d.spentBy[o] = None /\ d.spentAt[o] = 0
    BY <1>1, <2>1
  <2> QED BY <1>4, <2>2
<1>15. Exact(n, p)
  BY <1>3, <1>7, <1>8, <1>9, <1>10, <1>11, <1>12, <1>13, <1>14 DEF Exact
<1>16. CanDisconnect(d, b)
  <2>1. b \in Branch[b] /\ Spends({b}) \subseteq TxsOf(Branch[b])
    BY <1>1, OnOwnBranch
  <2>2. d.heightOf[b] # NoHeight
    BY <1>0, <1>2 DEF NoHeight
  <2> QED BY <1>1, <2>1, <2>2 DEF CanDisconnect
<1>17. Loadable(n, p)
  <2>1. p \in n.stored /\ \A t \in BlockTxs[p] : n.txLoc[t] = p
    BY <1>0, <1>7, <1>10, OnOwnBranch
  <2> QED BY <1>0, <2>1, TreeAssumption DEF Loadable
<1> QED BY <1>15, <1>16, <1>17 DEF n, p

LEMMA ExactGenesis == Exact(GenesisStore, Genesis)
<1>1. /\ Genesis \in Block /\ Depth[Genesis] = 0 /\ Branch[Genesis] = {Genesis}
      /\ Heights \subseteq Nat /\ 0 \in Heights /\ BlockTxs[Genesis] \subseteq Tx
      /\ None \notin Block
  BY HeightBelow, HeightFacts, TreeAssumption, BlockAssumption
<1>2. AncestorAt(Genesis, 0) = Genesis
  BY <1>1, AncestorUnique
<1>3. TxsOf({Genesis}) = BlockTxs[Genesis] /\ Spends({Genesis}) = {}
  <2>1. \A t \in BlockTxs[Genesis] : Ins[t] = {}
    BY BlockAssumption
  <2> QED BY <2>1, OneBlock, SpendsFact
<1>4. GenesisStore.hashAt
        = [h \in Heights |-> IF h <= Depth[Genesis] THEN AncestorAt(Genesis, h) ELSE None]
  <2>1. \A h \in Heights : h <= 0 <=> h = 0
    BY <1>1
  <2> QED BY <1>1, <1>2, <2>1 DEF GenesisStore
<1>5. GenesisStore.heightOf
        = [x \in Block |-> IF x \in Branch[Genesis] THEN Depth[x] ELSE NoHeight]
  BY <1>1 DEF GenesisStore
<1>6. /\ GenesisStore.stored = {Genesis}
      /\ GenesisStore.txLoc = [t \in Tx |-> None]
      /\ BlockTxs[Genesis] = {} /\ GenesisStore.utxos = {}
      /\ GenesisStore.spentBy = [t \in Tx |-> None]
      /\ GenesisStore.spentAt = [t \in Tx |-> 0]
      /\ GenesisStore.tip = [ht |-> 0, blk |-> Genesis]
  BY BlockAssumption DEF GenesisStore
<1>7. /\ \A x \in Branch[Genesis] : \A t \in BlockTxs[x] : GenesisStore.txLoc[t] = x
      /\ \A t \in Tx \ TxsOf(Branch[Genesis]) : GenesisStore.txLoc[t] = None
  BY <1>1, <1>3, <1>6
<1>8. \A x \in Branch[Genesis] : \A s \in BlockTxs[x] : Ins[s] = {}
  BY <1>1, BlockAssumption
<1> QED BY <1>1, <1>3, <1>4, <1>5, <1>6, <1>7, <1>8 DEF Exact
-----------------------------------------------------------------------------
(* Where a running batch stands: it continues the branch of the store, and *)
(* its view is the image of top's branch up to the block before next.      *)
CalmBatch ==
  BatchRunning =>
    /\ NoRollbackRunning
    /\ best.blk \in Branch[batch.top]
    /\ best.ht = batch.from - 1
    /\ Exact(batch.view, AncestorAt(batch.top, batch.next - 1))
    /\ batch.done => batch.next = Depth[batch.top] + 1 /\ db = batch.view

(* Where a rollback stands: the height it works on is the tip's, and the   *)
(* block it will end at is the ancestor of the tip at its target height.   *)
CalmRollback ==
  /\ \A r \in Roller : rb[r].pc \in {"read", "loop"} =>
       /\ rb[r].h = db.tip.ht
       /\ rb[r].target <= rb[r].h
       /\ rb[r].blk = AncestorAt(db.tip.blk, rb[r].target)
  /\ \A r, q \in Roller : rb[r].pc # "idle" /\ rb[q].pc # "idle" => r = q

CalmInv ==
  /\ IndInv
  /\ StoreIsBranch
  /\ MemoryFollowsStore
  /\ index \subseteq db.stored
  /\ CalmBatch
  /\ CalmRollback

(* Exact depends on the state only through its arguments.                  *)
LEMMA ExactNow ==
  /\ Exact(db', db'.tip.blk) => StoreIsBranch'
  /\ Exact(batch'.view, AncestorAt(batch'.top, batch'.next - 1))
       => Exact(batch.view, AncestorAt(batch.top, batch.next - 1))'
<1>1. Exact(db', db'.tip.blk) => StoreIsBranch'
  BY DEF StoreIsBranch, Exact, AncestorAt, TxsOf, Spends
<1>2. Exact(batch'.view, AncestorAt(batch'.top, batch'.next - 1))
       => Exact(batch.view, AncestorAt(batch.top, batch.next - 1))'
  BY DEF Exact, AncestorAt, TxsOf, Spends
<1> QED BY <1>1, <1>2

(* What CalmInv says of the tip.                                           *)
LEMMA CalmTip ==
  ASSUME CalmInv
  PROVE  /\ db.tip.blk \in Block /\ db.tip.ht = Depth[db.tip.blk]
         /\ \A h \in 0 .. db.tip.ht : db.hashAt[h] = AncestorAt(db.tip.blk, h)
         /\ db.hashAt[db.tip.ht] = db.tip.blk
         /\ db.heightOf[db.tip.blk] = db.tip.ht
         /\ Loadable(db, db.tip.blk)
         /\ OrphansAbove(db, db.tip.ht) = {}
<1> DEFINE b == db.tip.blk
<1>1. b \in Block /\ db.tip.ht = Depth[b] /\ Exact(db, b)
  BY DEF CalmInv, IndInv, TypeOK, Store, Tips, StoreIsBranch, Exact
<1> HIDE DEF b
<1>2. /\ Depth[b] \in Nat /\ (\A x \in Block : Depth[x] \in Nat /\ Depth[x] \in Heights)
      /\ b \in Branch[b] /\ Branch[b] \subseteq Block /\ BlockTxs[b] \subseteq Tx
      /\ None \notin Block
  BY <1>1, HeightFacts, OnOwnBranch, TreeAssumption, BlockAssumption
<1>3. AncestorAt(b, Depth[b]) = b
  BY <1>1, <1>2, AncestorUnique
<1>4. /\ db.hashAt
           = [h \in Heights |-> IF h <= Depth[b] THEN AncestorAt(b, h) ELSE None]
      /\ db.heightOf = [x \in Block |-> IF x \in Branch[b] THEN Depth[x] ELSE NoHeight]
      /\ db.stored = Branch[b]
      /\ \A t \in BlockTxs[b] : db.txLoc[t] = b
  BY <1>1, <1>2 DEF Exact
<1>5. \A h \in 0 .. Depth[b] : h \in Heights /\ h <= Depth[b]
  BY <1>1, <1>2, AncestorFacts
<1>6. \A h \in 0 .. Depth[b] : db.hashAt[h] = AncestorAt(b, h)
  BY <1>4, <1>5
<1>7. Loadable(db, b)
  BY <1>1, <1>2, <1>4 DEF Loadable
<1>8. OrphansAbove(db, Depth[b]) = {}
  <2> SUFFICES ASSUME NEW x \in Block, db.heightOf[x] > Depth[b] PROVE FALSE
    BY DEF OrphansAbove
  <2>1. db.heightOf[x] = IF x \in Branch[b] THEN Depth[x] ELSE NoHeight
    BY <1>4
  <2>2. x \in Branch[b] => Depth[x] <= Depth[b]
    BY <1>1, TreeAssumption
  <2> QED BY <1>2, <2>1, <2>2 DEF NoHeight
<1>9. db.heightOf[b] = Depth[b]
  BY <1>1, <1>2, <1>4
<1> QED BY <1>1, <1>2, <1>3, <1>6, <1>7, <1>8, <1>9 DEF b

LEMMA CalmInit == ASSUME Init PROVE CalmInv
<1>1. IndInv
  BY IndInit
<1>2. StoreIsBranch /\ db.stored = {Genesis}
  BY ExactGenesis DEF Init, StoreIsBranch, GenesisStore
<1>3. MemoryFollowsStore /\ index \subseteq db.stored
  BY <1>2 DEF Init, MemoryFollowsStore
<1>4. CalmBatch /\ CalmRollback
  BY DEF Init, CalmBatch, CalmRollback, BatchRunning, NoBatch, NoRollbacks, NoRollback
<1> QED BY <1>1, <1>2, <1>3, <1>4 DEF CalmInv

(* A step of a rollback that leaves the store alone.                       *)
LEMMA CalmQuiet ==
  ASSUME CalmInv, IndInv', db' = db, best' = best, ~BatchRunning, batch' = batch,
         index' \subseteq index, CalmRollback'
  PROVE  CalmInv'
<1>1. StoreIsBranch'
  BY ExactNow DEF CalmInv, StoreIsBranch
<1>2. MemoryFollowsStore' /\ index' \subseteq db'.stored
  BY DEF CalmInv, MemoryFollowsStore
<1>3. CalmBatch'
  BY DEF CalmBatch, BatchRunning
<1> QED BY <1>1, <1>2, <1>3 DEF CalmInv

(* A step of a batch that leaves the store, the memory and the rollbacks.  *)
LEMMA CalmPrivate ==
  ASSUME CalmInv, IndInv', UNCHANGED <<db, best, index, rb>>, ~batch.done, ~batch'.done,
         CalmBatch'
  PROVE  CalmInv'
<1>1. StoreIsBranch'
  BY ExactNow DEF CalmInv, StoreIsBranch
<1>2. MemoryFollowsStore' /\ index' \subseteq db'.stored
  BY DEF CalmInv, MemoryFollowsStore
<1>3. CalmRollback'
  BY DEF CalmInv, CalmRollback
<1> QED BY <1>1, <1>2, <1>3 DEF CalmInv

(* A new batch starts at the block after the tip.                          *)
LEMMA CalmBeginBatch ==
  ASSUME CalmInv, Calm, NEW first \in Block, NEW last \in Block, BeginBatch(first, last)
  PROVE  CalmInv'
<1>1. PICK b \in Branch[last] :
        /\ b # Genesis /\ Unlocked /\ NoRollbackRunning /\ Parent[b] = best.blk
        /\ batch' = [top |-> last, from |-> db.heightOf[Parent[b]] + 1,
                     next |-> db.heightOf[Parent[b]] + 1, view |-> db, done |-> FALSE]
        /\ UNCHANGED <<db, best, index, known, rb>>
  BY DEF BeginBatch, CalculatedHeight, Calm
<1>2. ~BatchRunning /\ ~batch.done /\ best = db.tip
  BY <1>1 DEF CalmInv, IndInv, IndBatch, Unlocked, MemoryFollowsStore
<1>3. /\ b \in Block /\ Parent[b] \in Block /\ Depth[Parent[b]] \in Nat
      /\ Parent[b] \in Branch[b] /\ Branch[b] \subseteq Branch[last]
      /\ last # None
  BY <1>1, TreeAssumption, OnOwnBranch
<1>4. db.heightOf[Parent[b]] = Depth[Parent[b]] /\ db.tip.ht = Depth[Parent[b]]
  BY <1>1, <1>2, CalmTip
<1>5. AncestorAt(last, Depth[Parent[b]]) = Parent[b]
  BY <1>3, AncestorUnique
<1>6. /\ batch'.top = last /\ batch'.from = Depth[Parent[b]] + 1
      /\ batch'.next - 1 = Depth[Parent[b]]
      /\ batch'.view = db /\ ~batch'.done
  BY <1>1, <1>3, <1>4
<1>7. CalmBatch'
  <2>1. Exact(batch'.view, AncestorAt(batch'.top, batch'.next - 1))
    <3>1. Exact(db, db.tip.blk)
      BY DEF CalmInv, StoreIsBranch
    <3> QED BY <1>1, <1>2, <1>5, <1>6, <3>1
  <2>2. NoRollbackRunning'
    BY <1>1 DEF NoRollbackRunning
  <2>3. best'.blk \in Branch[batch'.top] /\ best'.ht = batch'.from - 1
    BY <1>1, <1>2, <1>3, <1>4, <1>6
  <2> QED BY <1>6, <2>1, <2>2, <2>3, ExactNow DEF CalmBatch
<1>8. IndInv'
  BY IndBeginBatch DEF CalmInv
<1> QED BY <1>1, <1>2, <1>6, <1>7, <1>8, CalmPrivate

(* The next block of the batch is a child of the view's tip.               *)
LEMMA CalmApplyBlock == ASSUME CalmInv, Calm, ApplyBlock PROVE CalmInv'
<1> DEFINE b == AncestorAt(batch.top, batch.next)
           n == Applied(batch.view, b, batch.next, best.ht)
<1>1. /\ BatchRunning /\ batch.next <= Depth[batch.top]
      /\ CanApply(db, batch.view, b, batch.next)
      /\ batch' = [batch EXCEPT !.next = @ + 1, !.view = n]
      /\ UNCHANGED <<db, best, index, known, rb>>
  BY DEF ApplyBlock, InLoop
<1>2. /\ batch.top \in Block /\ batch.from \in 1 .. Depth[batch.top]
      /\ batch.next \in batch.from .. Depth[batch.top] /\ Depth[batch.top] \in Nat
      /\ batch \in BatchState
  BY <1>1, TreeAssumption DEF CalmInv, IndInv, IndBatch, TypeOK, BatchState, BatchRunning
<1>3. /\ b \in Block /\ Depth[b] = batch.next /\ b # Genesis
      /\ Parent[b] = AncestorAt(batch.top, batch.next - 1)
  <2>1. b \in Block /\ Depth[b] = batch.next
    BY <1>2, AncestorFacts
  <2>2. b # Genesis
    BY <1>2, <2>1, TreeAssumption
  <2> QED BY <1>2, <2>1, <2>2, AncestorParent
<1>4. Exact(batch.view, Parent[b]) /\ best.ht = batch.from - 1 /\ NoRollbackRunning
      /\ best.blk \in Branch[batch.top] /\ ~batch.done
  BY <1>1, <1>2, <1>3 DEF CalmInv, CalmBatch
<1>5. /\ batch'.top = batch.top /\ batch'.from = batch.from /\ batch'.done = batch.done
      /\ batch'.next - 1 = batch.next /\ batch'.view = n
  <2> HIDE DEF n
  <2> QED BY <1>1, <1>2 DEF BatchState
<1>6. Exact(n, b)
  <2>1. WellIndexed(batch.view)
    BY DEF CalmInv, IndInv, IndBatch
  <2>2. best.ht \in Nat /\ best.ht < Depth[b] /\ CanApply(db, batch.view, b, Depth[b])
    BY <1>1, <1>2, <1>3, <1>4
  <2> HIDE DEF b
  <2>3. Exact(Applied(batch.view, b, Depth[b], best.ht), b)
    BY <1>3, <1>4, <2>1, <2>2, ExactApplied DEF Calm
  <2> QED BY <1>3, <2>3
<1> HIDE DEF n
<1>7. CalmBatch'
  <2>1. Exact(batch'.view, AncestorAt(batch'.top, batch'.next - 1))
    BY <1>5, <1>6
  <2>2. NoRollbackRunning'
    BY <1>1, <1>4 DEF NoRollbackRunning
  <2> QED BY <1>1, <1>4, <1>5, <2>1, <2>2, ExactNow DEF CalmBatch
<1>8. IndInv'
  BY IndApplyBlock DEF CalmInv
<1> QED BY <1>1, <1>4, <1>5, <1>7, <1>8, CalmPrivate

LEMMA CalmRejectBatch == ASSUME CalmInv, RejectBatch PROVE CalmInv'
<1>1. UNCHANGED <<db, best, index, rb>> /\ ~batch'.done /\ ~BatchRunning'
  BY DEF RejectBatch, NoBatch, BatchRunning
<1>2. ~batch.done
  <2>1. BatchRunning /\ batch.next <= Depth[batch.top]
    BY DEF RejectBatch, InLoop
  <2>2. Depth[batch.top] \in Nat
    BY <2>1, TreeAssumption DEF CalmInv, IndInv, TypeOK, BatchState, BatchRunning
  <2>3. batch.done => batch.next = Depth[batch.top] + 1
    BY <2>1 DEF CalmInv, CalmBatch
  <2> QED BY <2>1, <2>2, <2>3
<1>3. IndInv'
  BY IndRejectBatch DEF CalmInv
<1> QED BY <1>1, <1>2, <1>3, CalmPrivate DEF CalmBatch

(* The commit moves the store to the view, which is top's branch.          *)
LEMMA CalmCommitBatch ==
  ASSUME CalmInv, CommitBatch
  PROVE  /\ CalmInv'
         /\ batch.top \in Block /\ db'.tip.blk = batch.top /\ db'.tip.ht = Depth[batch.top]
         /\ db.tip.blk \in Branch[batch.top] /\ db.tip.blk # batch.top
<1>1. /\ BatchRunning /\ ~batch.done /\ batch.next > Depth[batch.top]
      /\ db' = batch.view /\ batch' = [batch EXCEPT !.done = TRUE]
      /\ UNCHANGED <<best, index, known, rb>>
  <2>1. batch.next \in Nat /\ (batch.top # None => Depth[batch.top] \in Nat)
    BY TreeAssumption DEF CalmInv, IndInv, TypeOK, BatchState
  <2> QED BY <2>1 DEF CommitBatch, InLoop, BatchRunning
<1>2. /\ batch.top \in Block /\ Depth[batch.top] \in Nat /\ batch \in BatchState
      /\ batch.from \in 1 .. Depth[batch.top]
      /\ batch.next = Depth[batch.top] + 1
      /\ db.stored \subseteq batch.view.stored
  <2>1. batch \in BatchState /\ batch.top \in Block
    BY <1>1 DEF CalmInv, IndInv, TypeOK, BatchState, BatchRunning
  <2>2. /\ batch.from \in 1 .. Depth[batch.top]
        /\ batch.next \in batch.from .. Depth[batch.top] + 1
        /\ db.stored \subseteq batch.view.stored
    BY <1>1 DEF CalmInv, IndInv, IndBatch
  <2>3. Depth[batch.top] \in Nat
    BY <2>1, TreeAssumption
  <2> QED BY <1>1, <2>1, <2>2, <2>3
<1>3. AncestorAt(batch.top, Depth[batch.top]) = batch.top
  BY <1>2, OnOwnBranch, AncestorUnique
<1>4. /\ Exact(batch.view, batch.top) /\ best = db.tip /\ NoRollbackRunning
      /\ best.blk \in Branch[batch.top] /\ best.ht = batch.from - 1
  BY <1>1, <1>2, <1>3 DEF CalmInv, CalmBatch, MemoryFollowsStore
<1>5. /\ batch'.top = batch.top /\ batch'.from = batch.from /\ batch'.done
      /\ batch'.next = batch.next /\ batch'.view = batch.view
  BY <1>1, <1>2 DEF BatchState
<1>6. db'.tip.blk = batch.top /\ db'.tip.ht = Depth[batch.top]
  BY <1>1, <1>4 DEF Exact
<1>7. StoreIsBranch'
  BY <1>1, <1>4, <1>6, ExactNow
<1>8. CalmBatch'
  <2>1. Exact(batch'.view, AncestorAt(batch'.top, batch'.next - 1))
    BY <1>2, <1>3, <1>4, <1>5
  <2>2. NoRollbackRunning'
    BY <1>1, <1>4 DEF NoRollbackRunning
  <2> QED BY <1>1, <1>2, <1>4, <1>5, <2>1, <2>2, ExactNow DEF CalmBatch
<1>9. CalmRollback'
  BY <1>1, <1>4 DEF CalmRollback, NoRollbackRunning
<1>10. MemoryFollowsStore' /\ index' \subseteq db'.stored
  BY <1>1, <1>2, <1>5 DEF CalmInv, MemoryFollowsStore
<1>11. IndInv'
  BY IndCommitBatch DEF CalmInv
<1>12. db.tip.blk # batch.top
  BY <1>2, <1>4, CalmTip
<1> QED BY <1>2, <1>4, <1>6, <1>7, <1>8, <1>9, <1>10, <1>11, <1>12 DEF CalmInv

(* The memory catches up with the commit.                                  *)
LEMMA CalmPublishBatch == ASSUME CalmInv, PublishBatch PROVE CalmInv'
<1>1. /\ BatchRunning /\ batch.done
      /\ best' = IF Depth[batch.top] > best.ht
                   THEN [ht |-> Depth[batch.top], blk |-> batch.top] ELSE best
      /\ index' = index \union BatchBlocks
      /\ batch' = NoBatch /\ db' = db /\ rb' = rb
  BY DEF PublishBatch, CalmInv, IndInv, IndBatch
<1>2. /\ batch.top \in Block /\ Depth[batch.top] \in Nat
      /\ batch.from \in 1 .. Depth[batch.top]
  BY <1>1, TreeAssumption DEF CalmInv, IndInv, IndBatch, TypeOK, BatchState, BatchRunning
<1>3. AncestorAt(batch.top, Depth[batch.top]) = batch.top
  BY <1>2, OnOwnBranch, AncestorUnique
<1>4. Exact(db, batch.top) /\ best.ht = batch.from - 1 /\ NoRollbackRunning
  <2>1. batch.next = Depth[batch.top] + 1 /\ db = batch.view
    BY <1>1 DEF CalmInv, CalmBatch
  <2>2. batch.next - 1 = Depth[batch.top]
    BY <1>2, <2>1
  <2>3. Exact(batch.view, AncestorAt(batch.top, batch.next - 1))
        /\ best.ht = batch.from - 1 /\ NoRollbackRunning
    BY <1>1 DEF CalmInv, CalmBatch
  <2> QED BY <1>3, <2>1, <2>2, <2>3
<1>5. db.tip = [ht |-> Depth[batch.top], blk |-> batch.top] /\ db.stored = Branch[batch.top]
  BY <1>4 DEF Exact
<1>6. best' = db'.tip
  <2>1. Depth[batch.top] > best.ht
    BY <1>2, <1>4
  <2> QED BY <1>1, <1>5, <2>1
<1>7. index' \subseteq db'.stored
  BY <1>1, <1>5 DEF CalmInv, BatchBlocks
<1>8. StoreIsBranch'
  BY <1>1, ExactNow DEF CalmInv, StoreIsBranch
<1>9. MemoryFollowsStore'
  BY <1>6 DEF MemoryFollowsStore
<1>10. CalmBatch' /\ CalmRollback'
  BY <1>1, <1>4 DEF CalmBatch, CalmRollback, BatchRunning, NoBatch, NoRollbackRunning
<1>11. IndInv'
  BY IndPublishBatch DEF CalmInv
<1> QED BY <1>7, <1>8, <1>9, <1>10, <1>11 DEF CalmInv

(* What CalmInv says while the only rollback there is holds the lock.      *)
LEMMA CalmHolder ==
  ASSUME CalmInv, NEW r \in Roller, rb[r].pc \in {"read", "loop"}
  PROVE  /\ ~BatchRunning /\ ~batch.done /\ best = db.tip
         /\ rb[r] \in RollbackState /\ rb[r].h = db.tip.ht /\ rb[r].h \in Nat
         /\ rb[r].target \in 0 .. rb[r].h
         /\ rb[r].blk = AncestorAt(db.tip.blk, rb[r].target)
<1>1. rb[r] \in RollbackState /\ rb[r].h \in Nat /\ rb[r].target \in Nat
  BY HeightFacts DEF CalmInv, IndInv, TypeOK, RollbackState
<1>2. ~BatchRunning
  BY DEF CalmInv, CalmBatch, NoRollbackRunning
<1>3. ~batch.done /\ best = db.tip
  BY <1>2 DEF CalmInv, IndInv, IndBatch, MemoryFollowsStore
<1>4. /\ rb[r].h = db.tip.ht /\ rb[r].target <= rb[r].h
      /\ rb[r].blk = AncestorAt(db.tip.blk, rb[r].target)
  BY DEF CalmInv, CalmRollback
<1> QED BY <1>1, <1>2, <1>3, <1>4

(* The rollback that moves is the only one there is.                       *)
LEMMA CalmMove ==
  ASSUME CalmInv, NEW r \in Roller, rb[r].pc # "idle" \/ NoRollbackRunning,
         NEW new \in RollbackState, rb' = [rb EXCEPT ![r] = new],
         new.pc \in {"read", "loop"} => /\ new.h = db'.tip.ht
                                       /\ new.target <= new.h
                                       /\ new.blk = AncestorAt(db'.tip.blk, new.target)
  PROVE  CalmRollback'
<1>1. \A q \in Roller : q # r => rb[q].pc = "idle"
  BY DEF CalmInv, CalmRollback, NoRollbackRunning
<1>2. \A q \in Roller : rb'[q] = IF q = r THEN new ELSE rb[q]
  BY DEF CalmInv, IndInv, TypeOK
<1>3. ASSUME NEW q \in Roller, rb'[q].pc \in {"read", "loop"}
      PROVE  /\ rb'[q].h = db'.tip.ht
             /\ rb'[q].target <= rb'[q].h
             /\ rb'[q].blk = AncestorAt(db.tip.blk, rb[q].target)'
  <2>1. q = r /\ rb'[q] = new
    BY <1>1, <1>2, <1>3
  <2> QED BY <1>3, <2>1 DEF AncestorAt
<1>4. \A p, q \in Roller : rb'[p].pc # "idle" /\ rb'[q].pc # "idle" => p = q
  BY <1>1, <1>2
<1> QED BY <1>3, <1>4 DEF CalmRollback

LEMMA CalmRollbackRead ==
  ASSUME CalmInv, Calm, NEW r \in Roller, NEW target \in Heights, NEW reset \in BOOLEAN,
         RollbackRead(r, target, reset)
  PROVE  CalmInv'
<1> DEFINE new == [pc |-> "read", h |-> best.ht, target |-> target,
                   blk |-> HashSeenAt(target), reset |-> reset]
<1>1. /\ ~BatchRunning /\ NoRollbackRunning /\ best.ht > target
      /\ rb' = [rb EXCEPT ![r] = new] /\ UNCHANGED <<db, best, index, known, batch>>
  BY DEF RollbackRead, AtRest, Calm
<1>2. best = db.tip /\ best.ht \in Heights /\ best.ht \in Nat /\ target \in 0 .. best.ht
  <2>1. best = db.tip
    BY <1>1 DEF CalmInv, IndInv, IndBatch, MemoryFollowsStore
  <2>2. best.ht \in Heights
    BY DEF CalmInv, IndInv, TypeOK, Tips
  <2> QED BY <1>1, <2>1, <2>2, HeightFacts
<1>3. HashSeenAt(target) = AncestorAt(db.tip.blk, target)
  BY <1>1, <1>2, CalmTip DEF HashSeenAt
<1>4. HashSeenAt(target) \in Block
  <2>1. db.tip.blk \in Block /\ target \in 0 .. Depth[db.tip.blk]
    BY <1>2, CalmTip
  <2> QED BY <1>3, <2>1, AncestorFacts
<1>5. new \in RollbackState
  BY <1>2, <1>4 DEF RollbackState
<1>6. new.pc = "read" /\ new.h = best.ht /\ new.target = target
      /\ new.blk = AncestorAt(db.tip.blk, target)
  BY <1>3
<1> HIDE DEF new
<1>7. CalmRollback'
  <2>1. db' = db /\ rb' = [rb EXCEPT ![r] = new]
    BY <1>1
  <2>2. new.h = db'.tip.ht /\ new.target <= new.h
        /\ new.blk = AncestorAt(db'.tip.blk, new.target)
    BY <1>2, <1>6, <2>1
  <2> QED BY <1>1, <1>5, <2>1, <2>2, CalmMove
<1>8. IndInv'
  BY IndRollbackRead DEF CalmInv
<1> QED BY <1>1, <1>7, <1>8, CalmQuiet

LEMMA CalmRollbackLock ==
  ASSUME CalmInv, NEW r \in Roller, RollbackLock(r) PROVE CalmInv'
<1> DEFINE new == [rb[r] EXCEPT !.pc = "loop"]
<1>1. /\ rb[r].pc = "read" /\ rb' = [rb EXCEPT ![r].pc = "loop"]
      /\ UNCHANGED <<db, best, index, known, batch>>
  BY DEF RollbackLock
<1>2. /\ rb[r] \in RollbackState /\ ~BatchRunning /\ rb[r].h = db.tip.ht
      /\ rb[r].target <= rb[r].h /\ rb[r].blk = AncestorAt(db.tip.blk, rb[r].target)
  BY <1>1, CalmHolder
<1>3. /\ new \in RollbackState /\ rb' = [rb EXCEPT ![r] = new]
      /\ new.h = rb[r].h /\ new.target = rb[r].target /\ new.blk = rb[r].blk
  BY <1>1, <1>2 DEF RollbackState
<1> HIDE DEF new
<1>4. CalmRollback'
  BY <1>1, <1>2, <1>3, CalmMove
<1>5. IndInv'
  BY IndRollbackLock DEF CalmInv
<1> QED BY <1>1, <1>2, <1>4, <1>5, CalmQuiet

(* The block at the rollback's height is the tip: it is there, it loads    *)
(* and it disconnects, so the rollback neither skips nor fails.            *)
LEMMA CalmDescent ==
  ASSUME CalmInv, Calm, NEW r \in Roller, InDescent(r)
  PROVE  LET b == db.tip.blk
             n == Disconnected(db, b, db.heightOf[b])
         IN /\ db.hashAt[rb[r].h] = b /\ b \in Block \ {Genesis} /\ Loadable(db, b)
            /\ CanDisconnect(db, b)
            /\ Exact(n, Parent[b]) /\ Loadable(n, Parent[b])
<1> DEFINE b == db.tip.blk
<1>1. rb[r].h = db.tip.ht /\ rb[r].h > rb[r].target /\ rb[r].target \in Nat
  BY CalmHolder DEF InDescent, HoldsLock
<1>2. /\ b \in Block /\ db.tip.ht = Depth[b] /\ db.hashAt[db.tip.ht] = b
      /\ Loadable(db, b) /\ Depth[b] \in Nat
  BY CalmTip, TreeAssumption
<1>3. Exact(db, b) /\ WellIndexed(db)
  BY DEF CalmInv, IndInv, StoreIsBranch
<1> HIDE DEF b
<1>4. b # Genesis
  BY <1>1, <1>2, TreeAssumption
<1>5. /\ Exact(Disconnected(db, b, db.heightOf[b]), Parent[b])
      /\ CanDisconnect(db, b)
      /\ Loadable(Disconnected(db, b, db.heightOf[b]), Parent[b])
  BY <1>2, <1>3, <1>4, ExactDisconnected DEF Calm
<1> QED BY <1>1, <1>2, <1>4, <1>5 DEF b

LEMMA CalmRollbackStep ==
  ASSUME CalmInv, Calm, NEW r \in Roller, RollbackStep(r)
  PROVE  CalmInv' /\ db.tip.blk \in Block \ {Genesis} /\ db'.tip.blk = Parent[db.tip.blk]
<1> DEFINE b == db.tip.blk
           n == Disconnected(db, b, db.heightOf[b])
           new == [rb[r] EXCEPT !.h = @ - 1]
<1>1. InDescent(r) /\ rb[r].pc = "loop" /\ rb[r].h > rb[r].target
  BY DEF RollbackStep, InDescent, HoldsLock
<1>2. /\ db.hashAt[rb[r].h] = b /\ b \in Block \ {Genesis}
      /\ Exact(n, Parent[b]) /\ Loadable(n, Parent[b])
  BY <1>1, CalmDescent
<1>3. /\ db' = n /\ UNCHANGED batch /\ best' = n.tip /\ index' = index \ {b}
      /\ rb' = [rb EXCEPT ![r].h = @ - 1]
  BY <1>2 DEF RollbackStep
<1>4. /\ ~BatchRunning /\ ~batch.done /\ rb[r] \in RollbackState
      /\ rb[r].h = db.tip.ht /\ rb[r].h \in Nat /\ rb[r].target \in 0 .. rb[r].h
      /\ rb[r].blk = AncestorAt(b, rb[r].target)
  BY <1>1, CalmHolder
<1>5. /\ Depth[b] = rb[r].h /\ Parent[b] \in Block /\ Depth[Parent[b]] = rb[r].h - 1
  BY <1>2, <1>4, CalmTip, HeightFacts
<1>6. n.stored = db.stored \ {b} /\ n.tip = [ht |-> Depth[Parent[b]], blk |-> Parent[b]]
  <2>1. n.stored = db.stored \ {b}
    BY DEF Disconnected
  <2>2. n.tip = [ht |-> Depth[Parent[b]], blk |-> Parent[b]]
    BY <1>2 DEF Exact
  <2> QED BY <2>1, <2>2
<1>7. AncestorAt(b, rb[r].target) = AncestorAt(Parent[b], rb[r].target)
  <2>1. rb[r].target \in 0 .. Depth[Parent[b]]
    BY <1>1, <1>4, <1>5
  <2>2. AncestorAt(Parent[b], rb[r].target) \in Branch[Parent[b]]
        /\ Depth[AncestorAt(Parent[b], rb[r].target)] = rb[r].target
    BY <1>5, <2>1, AncestorFacts
  <2>3. AncestorAt(Parent[b], rb[r].target) \in Branch[b]
    BY <1>2, <2>2, TreeAssumption
  <2> HIDE DEF b
  <2> QED BY <1>2, <2>2, <2>3, AncestorUnique
<1> HIDE DEF n
<1>8. /\ new \in RollbackState /\ rb' = [rb EXCEPT ![r] = new]
      /\ new.h = rb[r].h - 1 /\ new.target = rb[r].target /\ new.blk = rb[r].blk
  BY <1>1, <1>3, <1>4, HeightBelow DEF RollbackState
<1> HIDE DEF new
<1>9. CalmRollback'
  <2>1. new.h = db'.tip.ht /\ new.blk = AncestorAt(db'.tip.blk, new.target)
    BY <1>3, <1>4, <1>5, <1>6, <1>7, <1>8
  <2>2. new.target <= new.h
    BY <1>1, <1>4, <1>8
  <2> QED BY <1>1, <1>8, <2>1, <2>2, CalmMove
<1>10. StoreIsBranch'
  BY <1>2, <1>3, <1>6, ExactNow
<1>11. MemoryFollowsStore' /\ index' \subseteq db'.stored
  BY <1>3, <1>6 DEF MemoryFollowsStore, CalmInv
<1>12. CalmBatch'
  BY <1>3, <1>4 DEF CalmBatch, BatchRunning
<1>13. IndInv'
  BY IndRollbackStep DEF CalmInv
<1> QED BY <1>2, <1>3, <1>6, <1>9, <1>10, <1>11, <1>12, <1>13 DEF CalmInv

(* The last block left is the target: there is no orphan, and setting the  *)
(* chain state to the target changes nothing.                              *)
LEMMA CalmTarget ==
  ASSUME CalmInv, NEW r \in Roller, AtTarget(r)
  PROVE  /\ OrphansAbove(db, rb[r].target) = {}
         /\ [ht |-> rb[r].target, blk |-> rb[r].blk] = db.tip
         /\ ~BatchRunning
<1>1. /\ rb[r].h = db.tip.ht /\ rb[r].target = db.tip.ht /\ ~BatchRunning
      /\ rb[r].blk = AncestorAt(db.tip.blk, rb[r].target)
  <2>1. rb[r].pc = "loop" /\ rb[r].h <= rb[r].target
    BY DEF AtTarget, HoldsLock
  <2>2. /\ rb[r].h = db.tip.ht /\ rb[r].h \in Nat /\ rb[r].target \in 0 .. rb[r].h
        /\ ~BatchRunning /\ rb[r].blk = AncestorAt(db.tip.blk, rb[r].target)
    BY <2>1, CalmHolder
  <2>3. rb[r].target = rb[r].h
    BY <2>1, <2>2
  <2> QED BY <2>2, <2>3
<1>2. rb[r].blk = db.tip.blk
  BY <1>1, CalmTip, OnOwnBranch, AncestorUnique
<1>3. db.tip = [ht |-> db.tip.ht, blk |-> db.tip.blk]
  BY DEF CalmInv, IndInv, TypeOK, Store, Tips
<1> QED BY <1>1, <1>2, <1>3, CalmTip

LEMMA CalmRollbackFinish ==
  ASSUME CalmInv, NEW r \in Roller, RollbackFinish(r) PROVE CalmInv' /\ db' = db
<1> DEFINE new == IF rb[r].reset THEN [rb[r] EXCEPT !.pc = "reset"] ELSE NoRollback
<1>1. /\ AtTarget(r) /\ rb[r].pc = "loop"
      /\ best' = [ht |-> rb[r].target, blk |-> rb[r].blk]
      /\ db' = [db EXCEPT !.tip = best'] /\ UNCHANGED <<index, batch>>
      /\ rb' = [rb EXCEPT ![r] = IF @.reset THEN [@ EXCEPT !.pc = "reset"] ELSE NoRollback]
  BY DEF RollbackFinish, AtTarget, HoldsLock
<1>2. best' = db.tip /\ best = db.tip /\ ~BatchRunning
  BY <1>1, CalmTarget, CalmHolder
<1>3. db' = db
  <2>1. db \in Store
    BY DEF CalmInv, IndInv, TypeOK
  <2> QED BY <1>1, <1>2, <2>1 DEF Store
<1>4. new \in RollbackState /\ new.pc \in {"reset", "idle"} /\ rb' = [rb EXCEPT ![r] = new]
  <2>1. rb \in [Roller -> RollbackState]
    BY DEF CalmInv, IndInv, TypeOK
  <2>2. NoRollback \in RollbackState /\ NoRollback.pc = "idle"
    BY HeightBelow DEF NoRollback, RollbackState
  <2>3. [rb[r] EXCEPT !.pc = "reset"] \in RollbackState
        /\ [rb[r] EXCEPT !.pc = "reset"].pc = "reset"
    BY <2>1 DEF RollbackState
  <2> QED BY <1>1, <2>1, <2>2, <2>3
<1> HIDE DEF new
<1>5. CalmRollback'
  BY <1>1, <1>4, CalmMove
<1>6. IndInv'
  BY IndRollbackFinish DEF CalmInv
<1> QED BY <1>1, <1>2, <1>3, <1>5, <1>6, CalmQuiet

LEMMA CalmResetChainState ==
  ASSUME CalmInv, NEW r \in Roller, ResetChainState(r) PROVE CalmInv'
<1>1. /\ rb[r].pc = "reset" /\ UNCHANGED <<db, best, known, batch>>
      /\ index' \subseteq index /\ rb' = [rb EXCEPT ![r] = NoRollback]
  BY DEF ResetChainState
<1>2. ~BatchRunning
  BY <1>1 DEF CalmInv, CalmBatch, NoRollbackRunning
<1>3. NoRollback \in RollbackState /\ NoRollback.pc = "idle"
  BY HeightBelow DEF NoRollback, RollbackState
<1>4. CalmRollback'
  BY <1>1, <1>3, CalmMove
<1>5. IndInv'
  BY IndResetChainState DEF CalmInv
<1> QED BY <1>1, <1>2, <1>4, <1>5, CalmQuiet

(* A restart finds the store as it was committed.                          *)
LEMMA CalmReload == ASSUME CalmInv, Reload(db) PROVE CalmInv'
<1>1. /\ db' = db /\ best' = db.tip /\ batch' = NoBatch /\ rb' = NoRollbacks
      /\ index' = IF Loadable(db, db.tip.blk) THEN {db.tip.blk} ELSE {}
  BY DEF Reload
<1>2. StoreIsBranch'
  BY <1>1, ExactNow DEF CalmInv, StoreIsBranch
<1>3. MemoryFollowsStore' /\ index' \subseteq db'.stored
  BY <1>1 DEF MemoryFollowsStore, Loadable
<1>4. CalmBatch' /\ CalmRollback'
  BY <1>1 DEF CalmBatch, CalmRollback, BatchRunning, NoBatch, NoRollbacks, NoRollback
<1>5. IndInv'
  BY IndReload DEF CalmInv, IndInv
<1> QED BY <1>2, <1>3, <1>4, <1>5 DEF CalmInv

LEMMA CalmShutdown == ASSUME CalmInv, Shutdown PROVE CalmInv' /\ db' = db
<1>1. ~batch.done
  BY DEF Shutdown, AtRest, CalmInv, IndInv, IndBatch
<1>2. best = db.tip /\ db \in Store
  BY <1>1 DEF CalmInv, MemoryFollowsStore, IndInv, TypeOK
<1>3. [db EXCEPT !.tip = best] = db
  BY <1>2 DEF Store
<1>4. Reload(db)
  BY <1>3 DEF Shutdown
<1> QED BY <1>4, CalmReload DEF Reload

(* What a step does to the store: nothing, or it moves the tip to another  *)
(* block of its branch, or to a block whose branch it is on.               *)
TipMoves ==
  \/ db' = db
  \/ /\ db'.tip.blk \in Block
     /\ db'.tip.blk # db.tip.blk
     /\ db.tip.blk \in Branch[db'.tip.blk] \/ db'.tip.blk \in Branch[db.tip.blk]

LEMMA CalmNext == ASSUME Calm PROVE CalmInv /\ [Next]_vars => CalmInv' /\ TipMoves
<1> SUFFICES ASSUME CalmInv, [Next]_vars PROVE CalmInv' /\ TipMoves
  OBVIOUS
<1>1. ASSUME NEW first \in Block, NEW last \in Block, BeginBatch(first, last)
      PROVE  CalmInv' /\ TipMoves
  BY <1>1, CalmBeginBatch DEF BeginBatch, TipMoves
<1>2. CASE ApplyBlock
  BY <1>2, CalmApplyBlock DEF ApplyBlock, TipMoves
<1>3. CASE RejectBatch
  BY <1>3, CalmRejectBatch DEF RejectBatch, TipMoves
<1>4. CASE CommitBatch
  BY <1>4, CalmCommitBatch DEF TipMoves
<1>5. CASE PublishBatch
  BY <1>5, CalmPublishBatch DEF PublishBatch, TipMoves
<1>6. ASSUME NEW r \in Roller, NEW target \in Heights, NEW reset \in BOOLEAN,
             RollbackRead(r, target, reset)
      PROVE  CalmInv' /\ TipMoves
  BY <1>6, CalmRollbackRead DEF RollbackRead, TipMoves
<1>7. ASSUME NEW r \in Roller, RollbackProgress(r) PROVE CalmInv' /\ TipMoves
  <2>1. CASE RollbackLock(r)
    BY <2>1, CalmRollbackLock DEF RollbackLock, TipMoves
  <2>2. CASE RollbackSkip(r)
    <3>1. InDescent(r) /\ (db.hashAt[rb[r].h] # None => ~Loadable(db, db.hashAt[rb[r].h]))
      BY <2>2 DEF RollbackSkip
    <3>2. db.hashAt[rb[r].h] \in Block /\ Loadable(db, db.hashAt[rb[r].h])
      BY <3>1, CalmDescent
    <3> QED BY <3>1, <3>2, TreeAssumption
  <2>3. CASE RollbackStep(r)
    <3>1. /\ CalmInv' /\ db.tip.blk \in Block \ {Genesis}
          /\ db'.tip.blk = Parent[db.tip.blk]
      BY <2>3, CalmRollbackStep
    <3>2. /\ Parent[db.tip.blk] \in Block /\ Depth[Parent[db.tip.blk]] # Depth[db.tip.blk]
          /\ Parent[db.tip.blk] \in Branch[db.tip.blk]
      BY <3>1, TreeAssumption, OnOwnBranch
    <3> QED BY <3>1, <3>2 DEF TipMoves
  <2>4. CASE RollbackFail(r)
    <3>1. InDescent(r) /\ ~CanDisconnect(db, db.hashAt[rb[r].h])
      BY <2>4 DEF RollbackFail
    <3>2. CanDisconnect(db, db.hashAt[rb[r].h])
      BY <3>1, CalmDescent
    <3> QED BY <3>1, <3>2
  <2>5. CASE RollbackClean(r)
    <3>1. AtTarget(r) /\ OrphansAbove(db, rb[r].target) # {}
      BY <2>5 DEF RollbackClean
    <3> QED BY <3>1, CalmTarget
  <2>6. CASE RollbackFinish(r)
    BY <2>6, CalmRollbackFinish DEF TipMoves
  <2>7. CASE ResetChainState(r)
    BY <2>7, CalmResetChainState DEF ResetChainState, TipMoves
  <2> QED BY <1>7, <2>1, <2>2, <2>3, <2>4, <2>5, <2>6, <2>7 DEF RollbackProgress
<1>8. CASE Crash
  BY <1>8, CalmReload DEF Crash, Reload, TipMoves
<1>9. CASE Shutdown
  BY <1>9, CalmShutdown DEF TipMoves
<1>10. ~SyncFails
  BY DEF SyncFails, Calm
<1>11. CASE UNCHANGED vars
  <2>1. UNCHANGED <<db, best, index, known, batch, rb>>
    BY <1>11 DEF vars
  <2>2. IndInv'
    BY <1>11, IndNext DEF CalmInv
  <2>3. StoreIsBranch'
    BY <2>1, ExactNow DEF CalmInv, StoreIsBranch
  <2>4. MemoryFollowsStore' /\ index' \subseteq db'.stored /\ CalmRollback'
    BY <2>1 DEF CalmInv, MemoryFollowsStore, CalmRollback
  <2>5. CalmBatch'
    <3>1. Exact(batch.view, AncestorAt(batch.top, batch.next - 1))
            => Exact(batch.view, AncestorAt(batch.top, batch.next - 1))'
      BY <2>1, ExactNow
    <3> QED BY <2>1, <3>1 DEF CalmInv, CalmBatch, BatchRunning, NoRollbackRunning
  <2> QED BY <2>1, <2>2, <2>3, <2>4, <2>5 DEF CalmInv, TipMoves
<1> QED
  BY <1>1, <1>2, <1>3, <1>4, <1>5, <1>6, <1>7, <1>8, <1>9, <1>10, <1>11
     DEF Next, RollbackProgress

-----------------------------------------------------------------------------
(* On an honest tree, with crashes at any point but nobody racing a        *)
(* rollback and peers that extend the tip: the store is at every instant   *)
(* the image of the branch its chain state names, the memory's tip is the  *)
(* store's except between a commit and its publication, and the block      *)
(* index never names a block that is not there.                            *)
THEOREM ExactCorrect ==
  ASSUME Calm
  PROVE  Spec => [](StoreIsBranch /\ MemoryFollowsStore /\ NoGhostBlocks)
<1>1. CalmInv => StoreIsBranch /\ MemoryFollowsStore /\ NoGhostBlocks
  BY DEF CalmInv, NoGhostBlocks
<1> QED BY CalmInit, CalmNext, <1>1, PTL DEF Spec

(* Its parts by themselves. The tip in memory is the store's, except       *)
(* between the commit of a batch or of a rollback's block and its          *)
(* publication.                                                            *)
THEOREM MemoryCorrect == ASSUME Calm PROVE Spec => []MemoryFollowsStore
<1>1. CalmInv => MemoryFollowsStore
  BY DEF CalmInv
<1> QED BY CalmInit, CalmNext, <1>1, PTL DEF Spec

(* At rest the block index names no block that the store does not have.    *)
THEOREM NoGhosts == ASSUME Calm PROVE Spec => []NoGhostBlocks
<1>1. CalmInv => NoGhostBlocks
  BY DEF CalmInv, NoGhostBlocks
<1> QED BY CalmInit, CalmNext, <1>1, PTL DEF Spec

(* The unspent records of an exact store are its branch's unspent outputs. *)
LEMMA UnspentExact ==
  ASSUME NEW d, NEW b \in Block, Exact(d, b)
  PROVE  { t \in d.utxos : d.spentBy[t] = None } = L!UnspentOn(b)
<1>1. d.utxos = TxsOf(Branch[b])
  BY DEF Exact
<1>2. TxsOf(Branch[b]) \subseteq Tx
  BY TxsOfFact, TreeAssumption, BlockAssumption
<1>3. ASSUME NEW o \in TxsOf(Branch[b])
      PROVE  d.spentBy[o] = None <=> o \notin Spends(Branch[b])
  <2>1. o \notin Spends(Branch[b]) => d.spentBy[o] = None
    BY <1>2 DEF Exact
  <2>2. ASSUME o \in Spends(Branch[b]) PROVE d.spentBy[o] # None
    <3>1. PICK s \in TxsOf(Branch[b]) : o \in Ins[s]
      BY <2>2, SpendsFact
    <3>2. PICK x \in Branch[b] : s \in BlockTxs[x]
      BY TxsOfFact
    <3>3. d.spentBy[o] = s
      BY <3>1, <3>2 DEF Exact
    <3>4. s \in Tx /\ None \notin Tx
      BY <1>2, TreeAssumption
    <3> QED BY <3>3, <3>4
  <2> QED BY <2>1, <2>2
<1> QED BY <1>1, <1>3 DEF L!UnspentOn, L!TxsOf, L!Spends, TxsOf, Spends

(* In the same environment the chain implements the ledger: its top and    *)
(* its unspent outputs change together, by whole batches or whole blocks,  *)
(* along one branch.                                                       *)
THEOREM ExactRefinesLedger == ASSUME Calm PROVE Spec => LedgerSpec
<1> DEFINE tipBlk == db.tip.blk
<1>1. Init => L!Init
  <2> SUFFICES ASSUME Init PROVE L!Init
    OBVIOUS
  <2>1. db.tip.blk = Genesis
    BY DEF Init, GenesisStore
  <2>2. Exact(db, Genesis) /\ Genesis \in Block
    BY ExactGenesis, TreeAssumption DEF Init
  <2> QED BY <2>1, <2>2, UnspentExact DEF L!Init, Unspent
<1>2. CalmInv /\ CalmInv' /\ TipMoves => [L!Next]_<<tipBlk, Unspent>>
  <2> SUFFICES ASSUME CalmInv, CalmInv', TipMoves, db' # db
               PROVE  L!Next
    BY DEF tipBlk, Unspent
  <2>1. /\ db'.tip.blk \in Block /\ db'.tip.blk # tipBlk /\ tipBlk \in Block
        /\ tipBlk \in Branch[db'.tip.blk] \/ db'.tip.blk \in Branch[tipBlk]
    BY CalmTip DEF TipMoves
  <2>2. Exact(db', db'.tip.blk)
    BY DEF CalmInv, StoreIsBranch, Exact, AncestorAt, TxsOf, Spends
  <2>3. Unspent' = L!UnspentOn(db'.tip.blk)
    BY <2>1, <2>2, UnspentExact DEF Unspent
  <2> QED BY <2>1, <2>3 DEF L!Next, L!Extend, L!Retract
<1> QED BY CalmInit, CalmNext, <1>1, <1>2, PTL DEF Spec, LedgerSpec, L!Spec

-----------------------------------------------------------------------------
(* A rollback that others race.  It holds processingMu, but works from a   *)
(* height it read before: when a batch came in between, it starts in the   *)
(* middle of the branch, and the blocks above are left to the orphan       *)
(* clean-up.  Meanwhile the store is the image of a part of the branch.    *)

(* Every table of d is the image of the blocks it has, all of e's branch.  *)
Partial(d, e) ==
  /\ d.stored \subseteq Branch[e]
  /\ d.hashAt = [h \in Heights |-> IF h <= Depth[e] /\ AncestorAt(e, h) \in d.stored
                                     THEN AncestorAt(e, h) ELSE None]
  /\ d.heightOf = [x \in Block |-> IF x \in d.stored THEN Depth[x] ELSE NoHeight]
  /\ \A x \in d.stored : \A t \in BlockTxs[x] : d.txLoc[t] = x
  /\ \A t \in Tx \ TxsOf(d.stored) : d.txLoc[t] = None
  /\ d.utxos = TxsOf(d.stored)
  /\ \A x \in d.stored : \A s \in BlockTxs[x] : \A o \in Ins[s] \intersect d.utxos :
       d.spentBy[o] = s /\ d.spentAt[o] = Depth[x]
  /\ \A o \in Tx \ (Spends(d.stored) \intersect d.utxos) :
       d.spentBy[o] = None /\ d.spentAt[o] = 0
  /\ \A x \in Branch[e] : Spends({x}) \subseteq TxsOf(Branch[x])

LEMMA SpentByBlock == \A b : \A o : o \in Spends({b}) <=> \E s \in BlockTxs[b] : o \in Ins[s]
BY SpendsFact, OneBlock

(* The part of a branch up to one of its blocks is that block's branch.    *)
LEMMA BranchBelow ==
  ASSUME NEW e \in Block, NEW a \in Branch[e]
  PROVE  Branch[a] = { x \in Branch[e] : Depth[x] <= Depth[a] }
<1>1. a \in Block /\ Branch[a] \subseteq Branch[e] /\ \A x \in Branch[a] : Depth[x] <= Depth[a]
  BY TreeAssumption
<1>2. ASSUME NEW x \in Branch[e], Depth[x] <= Depth[a] PROVE x \in Branch[a]
  <2>1. Depth[x] \in 0 .. Depth[a]
    BY <1>1, <1>2, AncestorUnique
  <2>2. AncestorAt(a, Depth[x]) \in Branch[a] /\ Depth[AncestorAt(a, Depth[x])] = Depth[x]
    BY <1>1, <2>1, AncestorFacts
  <2> QED BY <1>1, <2>2, TreeAssumption
<1> QED BY <1>1, <1>2

(* What a block spends is created on its own branch, so on any that        *)
(* holds it.                                                               *)
LEMMA SpentIsCreated ==
  ASSUME NEW e \in Block, \A x \in Branch[e] : Spends({x}) \subseteq TxsOf(Branch[x])
  PROVE  Spends(Branch[e]) \subseteq TxsOf(Branch[e])
<1> SUFFICES ASSUME NEW o \in Spends(Branch[e]) PROVE o \in TxsOf(Branch[e])
  OBVIOUS
<1>1. PICK x \in Branch[e] : o \in Spends({x})
  <2>1. PICK s \in TxsOf(Branch[e]) : o \in Ins[s]
    BY SpendsFact
  <2> QED BY <2>1, TxsOfFact, SpentByBlock
<1>2. o \in TxsOf(Branch[x]) /\ Branch[x] \subseteq Branch[e]
  BY <1>1, TreeAssumption
<1> QED BY <1>2, TxsOfFact

LEMMA PartialOfExact ==
  ASSUME NEW d, NEW e \in Block, Exact(d, e)
  PROVE  Partial(d, e)
<1>1. /\ d.stored = Branch[e]
      /\ d.hashAt = [h \in Heights |-> IF h <= Depth[e] THEN AncestorAt(e, h) ELSE None]
      /\ d.heightOf = [x \in Block |-> IF x \in Branch[e] THEN Depth[x] ELSE NoHeight]
      /\ d.utxos = TxsOf(Branch[e])
      /\ \A x \in Branch[e] : Spends({x}) \subseteq TxsOf(Branch[x])
  BY DEF Exact
<1>2. \A h \in Heights : h <= Depth[e] => AncestorAt(e, h) \in Branch[e]
  BY HeightFacts, AncestorFacts, TreeAssumption
<1>3. d.hashAt = [h \in Heights |-> IF h <= Depth[e] /\ AncestorAt(e, h) \in d.stored
                                      THEN AncestorAt(e, h) ELSE None]
  BY <1>1, <1>2
<1>4. Spends(d.stored) \intersect d.utxos = Spends(d.stored)
  BY <1>1, SpentIsCreated
<1>5. /\ \A x \in d.stored : \A t \in BlockTxs[x] : d.txLoc[t] = x
      /\ \A t \in Tx \ TxsOf(d.stored) : d.txLoc[t] = None
      /\ \A x \in d.stored : \A s \in BlockTxs[x] : \A o \in Ins[s] :
           d.spentBy[o] = s /\ d.spentAt[o] = Depth[x]
      /\ \A o \in Tx \ Spends(d.stored) : d.spentBy[o] = None /\ d.spentAt[o] = 0
  BY <1>1 DEF Exact
<1> QED BY <1>1, <1>3, <1>4, <1>5 DEF Partial

(* n is d after a block is taken out, with its outputs and the marks it    *)
(* left on those of others.                                                *)
TakenOut(n, d, b, freed) ==
  /\ n.stored = d.stored \ {b}
  /\ n.hashAt = [d.hashAt EXCEPT ![Depth[b]] = None]
  /\ n.heightOf = [d.heightOf EXCEPT ![b] = NoHeight]
  /\ n.txLoc = [t \in Tx |-> IF t \in BlockTxs[b] THEN None ELSE d.txLoc[t]]
  /\ n.utxos = d.utxos \ BlockTxs[b]
  /\ n.spentBy = [o \in Tx |-> IF o \in freed THEN None ELSE d.spentBy[o]]
  /\ n.spentAt = [o \in Tx |-> IF o \in freed THEN 0 ELSE d.spentAt[o]]

(* The rest is still the image of the blocks that are left.                *)
LEMMA PartialWithout ==
  ASSUME HonestTree, NEW d, NEW e \in Block, Partial(d, e), NEW b \in d.stored,
         NEW freed, BlockTxs[b] \union (Spends({b}) \intersect d.utxos) \subseteq freed,
         freed \subseteq BlockTxs[b] \union Spends({b}),
         NEW n, TakenOut(n, d, b, freed)
  PROVE  Partial(n, e)
<1> USE DEF TakenOut
<1>1. /\ d.stored \subseteq Branch[e] /\ Branch[e] \subseteq Block
      /\ d.hashAt = [h \in Heights |-> IF h <= Depth[e] /\ AncestorAt(e, h) \in d.stored
                                         THEN AncestorAt(e, h) ELSE None]
      /\ d.heightOf = [x \in Block |-> IF x \in d.stored THEN Depth[x] ELSE NoHeight]
      /\ d.utxos = TxsOf(d.stored)
      /\ \A x \in Branch[e] : Spends({x}) \subseteq TxsOf(Branch[x])
  BY TreeAssumption DEF Partial
<1>2. /\ \A x \in d.stored : \A t \in BlockTxs[x] : d.txLoc[t] = x
      /\ \A t \in Tx \ TxsOf(d.stored) : d.txLoc[t] = None
      /\ \A x \in d.stored : \A s \in BlockTxs[x] : \A o \in Ins[s] \intersect d.utxos :
           d.spentBy[o] = s /\ d.spentAt[o] = Depth[x]
      /\ \A o \in Tx \ (Spends(d.stored) \intersect d.utxos) :
           d.spentBy[o] = None /\ d.spentAt[o] = 0
  BY DEF Partial
<1>3. b \in Branch[e] /\ b \in Block /\ Depth[b] \in Heights /\ Depth[b] <= Depth[e]
      /\ AncestorAt(e, Depth[b]) = b
  BY <1>1, AncestorUnique, HeightFacts, TreeAssumption
<1>4. (\A x \in Block : BlockTxs[x] \subseteq Tx) /\ (\A t \in Tx : Ins[t] \subseteq Tx)
  BY BlockAssumption
<1>5. \A x \in n.stored : BlockTxs[x] \intersect BlockTxs[b] = {}
  BY <1>1, <1>3 DEF HonestTree
<1>6. TxsOf(n.stored) = TxsOf(d.stored) \ BlockTxs[b]
  <2>1. ASSUME NEW t \in TxsOf(n.stored) PROVE t \in TxsOf(d.stored) \ BlockTxs[b]
    <3>1. PICK x \in n.stored : t \in BlockTxs[x]
      BY TxsOfFact
    <3> QED BY <1>5, <3>1, TxsOfFact
  <2>2. ASSUME NEW t \in TxsOf(d.stored) \ BlockTxs[b] PROVE t \in TxsOf(n.stored)
    <3>1. PICK x \in d.stored : t \in BlockTxs[x]
      BY TxsOfFact
    <3> QED BY <3>1, TxsOfFact
  <2> QED BY <2>1, <2>2
<1>7. \A x \in n.stored : \A s \in BlockTxs[x] : \A t \in BlockTxs[b] : Ins[s] \intersect Ins[t] = {}
  <2> SUFFICES ASSUME NEW x \in n.stored, NEW s \in BlockTxs[x], NEW t \in BlockTxs[b]
               PROVE  Ins[s] \intersect Ins[t] = {}
    OBVIOUS
  <2>1. s # t /\ s \in TxsOf(Branch[e]) /\ t \in TxsOf(Branch[e])
    <3>1. x \in Branch[e] /\ BlockTxs[x] \intersect BlockTxs[b] = {}
      BY <1>1, <1>5
    <3> QED BY <1>3, <3>1, TxsOfFact
  <2> QED BY <2>1 DEF HonestTree
<1>8. n.hashAt = [h \in Heights |-> IF h <= Depth[e] /\ AncestorAt(e, h) \in n.stored
                                      THEN AncestorAt(e, h) ELSE None]
  <2>1. n.hashAt = [h \in Heights |-> IF h = Depth[b] THEN None ELSE d.hashAt[h]]
    BY <1>1
  <2>2. ASSUME NEW h \in Heights
        PROVE  (IF h = Depth[b] THEN None ELSE d.hashAt[h])
                 = (IF h <= Depth[e] /\ AncestorAt(e, h) \in n.stored
                      THEN AncestorAt(e, h) ELSE None)
    <3>1. CASE h = Depth[b]
      BY <1>3, <3>1
    <3>2. CASE h # Depth[b]
      <4>1. h <= Depth[e] => AncestorAt(e, h) # b
        BY <3>2, HeightFacts, AncestorFacts, TreeAssumption
      <4>2. d.hashAt[h] = IF h <= Depth[e] /\ AncestorAt(e, h) \in d.stored
                            THEN AncestorAt(e, h) ELSE None
        BY <1>1
      <4> QED BY <3>2, <4>1, <4>2
    <3> QED BY <3>1, <3>2
  <2> QED BY <2>1, <2>2
<1>9. n.heightOf = [x \in Block |-> IF x \in n.stored THEN Depth[x] ELSE NoHeight]
  BY <1>1
<1>10. \A x \in n.stored : \A t \in BlockTxs[x] : n.txLoc[t] = x
  <2> SUFFICES ASSUME NEW x \in n.stored, NEW t \in BlockTxs[x] PROVE n.txLoc[t] = x
    OBVIOUS
  <2>1. x \in d.stored /\ t \in Tx /\ t \notin BlockTxs[b]
    BY <1>1, <1>4, <1>5
  <2>2. d.txLoc[t] = x
    BY <1>2, <2>1
  <2> QED BY <2>1, <2>2
<1>11. \A t \in Tx \ TxsOf(n.stored) : n.txLoc[t] = None
  <2> SUFFICES ASSUME NEW t \in Tx \ TxsOf(n.stored) PROVE n.txLoc[t] = None
    OBVIOUS
  <2>1. CASE t \in BlockTxs[b]
    BY <2>1
  <2>2. CASE t \notin BlockTxs[b]
    <3>1. t \notin TxsOf(d.stored)
      BY <1>6, <2>2
    <3>2. d.txLoc[t] = None
      BY <1>2, <3>1
    <3> QED BY <2>2, <3>2
  <2> QED BY <2>1, <2>2
<1>12. n.utxos = TxsOf(n.stored)
  BY <1>1, <1>6
<1>13. \A x \in n.stored : \A s \in BlockTxs[x] : \A o \in Ins[s] \intersect n.utxos :
          n.spentBy[o] = s /\ n.spentAt[o] = Depth[x]
  <2> SUFFICES ASSUME NEW x \in n.stored, NEW s \in BlockTxs[x],
                      NEW o \in Ins[s] \intersect n.utxos
               PROVE  n.spentBy[o] = s /\ n.spentAt[o] = Depth[x]
    OBVIOUS
  <2>1. s \in Tx /\ o \in Tx /\ o \in d.utxos /\ o \notin BlockTxs[b]
    BY <1>1, <1>4
  <2>2. o \notin Spends({b})
    <3> SUFFICES ASSUME NEW t \in BlockTxs[b], o \in Ins[t] PROVE FALSE
      BY SpentByBlock
    <3> QED BY <1>7
  <2>3. d.spentBy[o] = s /\ d.spentAt[o] = Depth[x]
    BY <1>2, <2>1
  <2> QED BY <2>1, <2>2, <2>3
<1>14. \A o \in Tx \ (Spends(n.stored) \intersect n.utxos) :
          n.spentBy[o] = None /\ n.spentAt[o] = 0
  <2> SUFFICES ASSUME NEW o \in Tx \ (Spends(n.stored) \intersect n.utxos), o \notin freed
               PROVE  d.spentBy[o] = None /\ d.spentAt[o] = 0
    OBVIOUS
  <2> SUFFICES ASSUME o \in Spends(d.stored), o \in d.utxos PROVE FALSE
    BY <1>2
  <2>1. o \notin BlockTxs[b] /\ o \notin Spends({b})
    OBVIOUS
  <2>2. o \in n.utxos /\ o \notin Spends(n.stored)
    BY <2>1
  <2>3. PICK s \in TxsOf(d.stored) : o \in Ins[s]
    BY SpendsFact
  <2>4. s \notin BlockTxs[b] /\ s \notin TxsOf(n.stored)
    BY <2>1, <2>2, <2>3, SpendsFact, SpentByBlock
  <2> QED BY <1>6, <2>3, <2>4
<1> QED BY <1>1, <1>8, <1>9, <1>10, <1>11, <1>12, <1>13, <1>14 DEF Partial

(* What a partial image says of its blocks.                                *)
LEMMA PartialBlock ==
  ASSUME NEW d, NEW e \in Block, Partial(d, e), NEW b \in d.stored
  PROVE  /\ b \in Block /\ b \in Branch[e] /\ Depth[b] \in 0 .. Depth[e]
         /\ d.heightOf[b] = Depth[b] /\ d.hashAt[Depth[b]] = b
         /\ Loadable(d, b)
<1>1. b \in Branch[e]
  BY DEF Partial
<1>2. b \in Block /\ Depth[b] \in 0 .. Depth[e] /\ AncestorAt(e, Depth[b]) = b /\ b # None
      /\ Depth[b] \in Heights /\ Depth[b] <= Depth[e]
  BY <1>1, AncestorUnique, HeightFacts, TreeAssumption
<1>3. d.heightOf[b] = Depth[b]
  BY <1>2 DEF Partial
<1>4. d.hashAt[Depth[b]] = b
  <2>1. d.hashAt = [h \in Heights |-> IF h <= Depth[e] /\ AncestorAt(e, h) \in d.stored
                                        THEN AncestorAt(e, h) ELSE None]
    BY DEF Partial
  <2> QED BY <1>2, <2>1
<1>5. Loadable(d, b)
  BY <1>2 DEF Partial, Loadable
<1> QED BY <1>1, <1>2, <1>3, <1>4, <1>5

LEMMA PartialDisconnected ==
  ASSUME HonestTree, NEW d, NEW e \in Block, Partial(d, e), NEW b \in d.stored
  PROVE  Partial(Disconnected(d, b, d.heightOf[b]), e)
<1> DEFINE n == Disconnected(d, b, d.heightOf[b])
           freed == BlockTxs[b] \union Spends({b})
<1>1. d.heightOf[b] = Depth[b]
  BY PartialBlock
<1>2. TakenOut(n, d, b, freed)
  BY <1>1 DEF Disconnected, TakenOut
<1>3. BlockTxs[b] \union (Spends({b}) \intersect d.utxos) \subseteq freed
  OBVIOUS
<1>5. freed \subseteq BlockTxs[b] \union Spends({b})
  OBVIOUS
<1> HIDE DEF n, freed
<1>4. Partial(n, e)
  BY <1>2, <1>3, <1>5, PartialWithout
<1> QED BY <1>4 DEF n

LEMMA PartialOrphanDeleted ==
  ASSUME HonestTree, NEW d, NEW e \in Block, Partial(d, e), NEW b \in d.stored
  PROVE  Partial(OrphanDeleted(d, b, d.heightOf[b]), e)
<1> DEFINE n == OrphanDeleted(d, b, d.heightOf[b])
           undone == { o \in d.utxos \ BlockTxs[b] :
                         \E s \in BlockTxs[b] : /\ o \in Ins[s]
                                                /\ d.spentBy[o] = s
                                                /\ d.spentAt[o] = Depth[b] }
           freed == BlockTxs[b] \union undone
<1>1. d.heightOf[b] = Depth[b] /\ d.hashAt[Depth[b]] = b /\ Loadable(d, b)
  BY PartialBlock
<1>2. TakenOut(n, d, b, freed)
  BY <1>1 DEF OrphanDeleted, TakenOut
<1>3. BlockTxs[b] \union (Spends({b}) \intersect d.utxos) \subseteq freed
  <2> SUFFICES ASSUME NEW o \in Spends({b}) \intersect d.utxos, o \notin BlockTxs[b]
               PROVE  o \in undone
    OBVIOUS
  <2>1. PICK s \in BlockTxs[b] : o \in Ins[s]
    BY SpentByBlock
  <2>2. d.spentBy[o] = s /\ d.spentAt[o] = Depth[b]
    BY <2>1 DEF Partial
  <2> QED BY <2>1, <2>2
<1>4. freed \subseteq BlockTxs[b] \union Spends({b})
  BY SpentByBlock
<1> HIDE DEF n, freed
<1>5. Partial(n, e)
  BY <1>2, <1>3, <1>4, PartialWithout
<1> QED BY <1>5 DEF n

(* When the blocks left are those of one block's branch, and the chain     *)
(* state names it, the image is whole.                                     *)
LEMMA ExactOfPartial ==
  ASSUME NEW d, NEW e \in Block, Partial(d, e), NEW a \in Branch[e], d.stored = Branch[a],
         NEW n, n.tip = [ht |-> Depth[a], blk |-> a],
         n.stored = d.stored, n.hashAt = d.hashAt, n.heightOf = d.heightOf,
         n.txLoc = d.txLoc, n.utxos = d.utxos, n.spentBy = d.spentBy, n.spentAt = d.spentAt
  PROVE  Exact(n, a)
<1>1. a \in Block /\ Branch[a] \subseteq Branch[e] /\ Depth[a] <= Depth[e]
      /\ Depth[a] \in Nat /\ Depth[e] \in Nat
  BY TreeAssumption
<1>2. \A x \in Branch[a] : Spends({x}) \subseteq TxsOf(Branch[x])
  BY <1>1 DEF Partial
<1>3. Spends(Branch[a]) \subseteq TxsOf(Branch[a])
  BY <1>1, <1>2, SpentIsCreated
<1>4. /\ d.hashAt = [h \in Heights |-> IF h <= Depth[e] /\ AncestorAt(e, h) \in d.stored
                                         THEN AncestorAt(e, h) ELSE None]
      /\ d.heightOf = [x \in Block |-> IF x \in d.stored THEN Depth[x] ELSE NoHeight]
      /\ d.utxos = TxsOf(d.stored)
      /\ \A x \in d.stored : \A t \in BlockTxs[x] : d.txLoc[t] = x
      /\ \A t \in Tx \ TxsOf(d.stored) : d.txLoc[t] = None
  BY DEF Partial
<1>5. d.hashAt = [h \in Heights |-> IF h <= Depth[a] THEN AncestorAt(a, h) ELSE None]
  <2> SUFFICES ASSUME NEW h \in Heights
               PROVE  (IF h <= Depth[e] /\ AncestorAt(e, h) \in Branch[a]
                         THEN AncestorAt(e, h) ELSE None)
                        = (IF h <= Depth[a] THEN AncestorAt(a, h) ELSE None)
    BY <1>4
  <2>1. h \in Nat
    BY HeightFacts
  <2>2. CASE h <= Depth[a]
    <3>1. AncestorAt(a, h) \in Branch[a] /\ Depth[AncestorAt(a, h)] = h
      BY <1>1, <2>1, <2>2, AncestorFacts
    <3>2. AncestorAt(e, h) = AncestorAt(a, h)
      BY <1>1, <3>1, AncestorUnique
    <3> QED BY <1>1, <2>1, <2>2, <3>1, <3>2
  <2>3. CASE ~(h <= Depth[a])
    <3>1. h <= Depth[e] => AncestorAt(e, h) \notin Branch[a]
      <4>1. h <= Depth[e] => Depth[AncestorAt(e, h)] = h
        BY <1>1, <2>1, AncestorFacts
      <4>2. \A x \in Branch[a] : Depth[x] <= Depth[a]
        BY <1>1, TreeAssumption
      <4> QED BY <2>3, <4>1, <4>2
    <3> QED BY <2>3, <3>1
  <2> QED BY <2>2, <2>3
<1>6. \A x \in Branch[a] : \A s \in BlockTxs[x] : \A o \in Ins[s] :
         d.spentBy[o] = s /\ d.spentAt[o] = Depth[x]
  <2> SUFFICES ASSUME NEW x \in Branch[a], NEW s \in BlockTxs[x], NEW o \in Ins[s]
               PROVE  d.spentBy[o] = s /\ d.spentAt[o] = Depth[x]
    OBVIOUS
  <2>1. s \in TxsOf(Branch[a])
    BY TxsOfFact
  <2>2. o \in d.utxos
    BY <1>3, <1>4, <2>1, SpendsFact
  <2> QED BY <2>2 DEF Partial
<1>7. \A o \in Tx \ Spends(Branch[a]) : d.spentBy[o] = None /\ d.spentAt[o] = 0
  BY DEF Partial
<1>8. /\ n.stored = Branch[a] /\ n.utxos = TxsOf(Branch[a])
      /\ n.heightOf = [x \in Block |-> IF x \in Branch[a] THEN Depth[x] ELSE NoHeight]
      /\ \A x \in Branch[a] : \A t \in BlockTxs[x] : n.txLoc[t] = x
      /\ \A t \in Tx \ TxsOf(Branch[a]) : n.txLoc[t] = None
  BY <1>4
<1>9. n.hashAt = [h \in Heights |-> IF h <= Depth[a] THEN AncestorAt(a, h) ELSE None]
  BY <1>5
<1> QED BY <1>2, <1>6, <1>7, <1>8, <1>9 DEF Exact

-----------------------------------------------------------------------------
(* The assumptions on the surroundings: anybody may race a rollback, but   *)
(* only one goroutine rolls back.                                          *)
Racing == HonestTree /\ Env \subseteq {"race"} /\ \A r, q \in Roller : r = q

NobodyRollsBack == \A r \in Roller : ~HoldsLock(r)

(* Where a rollback w that holds the lock stands, with the store d and the *)
(* known blocks k: on the branch of some e, of which everything up to the  *)
(* height in work is still there, the block it will end at included.       *)
Descending(d, k, w) ==
  \E e \in Block :
    /\ Partial(d, e)
    /\ w.h <= Depth[e] /\ w.target <= w.h
    /\ \A x \in Branch[e] : Depth[x] <= w.h => x \in d.stored
    /\ w.blk = AncestorAt(e, w.target)
    /\ d.stored \subseteq k /\ k \subseteq Branch[e]

(* A batch that was begun goes on as in a calm environment.                *)
RaceBatch ==
  BatchRunning =>
    /\ best.blk \in Branch[batch.top]
    /\ best.ht = batch.from - 1
    /\ Exact(batch.view, AncestorAt(batch.top, batch.next - 1))
    /\ batch.done => batch.next = Depth[batch.top] + 1 /\ db = batch.view

RaceChain == NobodyRollsBack => Exact(db, db.tip.blk) /\ known = Branch[best.blk]

(* What a rollback read before it took the lock: of the branch it is on,   *)
(* which may have grown since.                                             *)
RaceRollback ==
  \A r \in Roller :
    /\ rb[r].pc = "read" => /\ rb[r].target <= rb[r].h /\ rb[r].h <= db.tip.ht
                            /\ rb[r].blk = AncestorAt(db.tip.blk, rb[r].target)
    /\ rb[r].pc = "loop" => Descending(db, known, rb[r])

RaceInv == IndInv /\ MemoryFollowsStore /\ RaceBatch /\ RaceChain /\ RaceRollback

(* The predicates depend on the state only through their arguments.        *)
LEMMA RaceNow ==
  /\ Exact(db', db'.tip.blk) => Exact(db, db.tip.blk)'
  /\ \A r \in Roller : Descending(db', known', rb'[r]) => Descending(db, known, rb[r])'
<1>1. Exact(db', db'.tip.blk) => Exact(db, db.tip.blk)'
  BY DEF Exact, AncestorAt, TxsOf, Spends
<1>2. \A r \in Roller : Descending(db', known', rb'[r]) => Descending(db, known, rb[r])'
  BY DEF Descending, Partial, AncestorAt, TxsOf, Spends
<1> QED BY <1>1, <1>2

(* What an exact store says of its branch.                                 *)
LEMMA ExactFacts ==
  ASSUME NEW d, NEW e \in Block, Exact(d, e)
  PROVE  /\ d.tip = [ht |-> Depth[e], blk |-> e] /\ d.stored = Branch[e]
         /\ Depth[e] \in Nat
         /\ d.heightOf[e] = Depth[e]
         /\ Loadable(d, e)
         /\ { b \in Block : d.heightOf[b] # NoHeight } = Branch[e]
<1>1. /\ d.tip = [ht |-> Depth[e], blk |-> e] /\ d.stored = Branch[e]
      /\ d.hashAt = [h \in Heights |-> IF h <= Depth[e] THEN AncestorAt(e, h) ELSE None]
      /\ d.heightOf = [x \in Block |-> IF x \in Branch[e] THEN Depth[x] ELSE NoHeight]
  BY DEF Exact
<1>2. /\ Depth[e] \in Nat /\ (\A x \in Block : Depth[x] \in Nat /\ Depth[x] \in Heights)
      /\ e \in Branch[e] /\ Branch[e] \subseteq Block
  BY HeightFacts, OnOwnBranch, TreeAssumption
<1>3. d.heightOf[e] = Depth[e] /\ { b \in Block : d.heightOf[b] # NoHeight } = Branch[e]
  <2>1. \A x \in Block : d.heightOf[x] = IF x \in Branch[e] THEN Depth[x] ELSE NoHeight
    BY <1>1
  <2>2. \A x \in Block : d.heightOf[x] # NoHeight <=> x \in Branch[e]
    <3>1. ASSUME NEW x \in Block PROVE Depth[x] # NoHeight
      <4>1. Depth[x] \in Nat
        BY <1>2
      <4> QED BY <4>1 DEF NoHeight
    <3> QED BY <2>1, <3>1
  <2> QED BY <1>2, <2>1, <2>2
<1>4. Loadable(d, e)
  BY <1>1, <1>2, PartialOfExact, PartialBlock
<1> QED BY <1>1, <1>2, <1>3, <1>4

LEMMA ExactHashes ==
  ASSUME NEW d, NEW e \in Block, Exact(d, e), NEW h \in Heights, h <= Depth[e]
  PROVE  d.hashAt[h] = AncestorAt(e, h)
BY DEF Exact

(* What RaceInv says while nobody holds the lock for a rollback.           *)
LEMMA RaceTip ==
  ASSUME RaceInv, NobodyRollsBack
  PROVE  /\ db.tip.blk \in Block /\ Exact(db, db.tip.blk) /\ known = Branch[best.blk]
         /\ db.tip.ht = Depth[db.tip.blk]
<1>1. db.tip.blk \in Block
  BY DEF RaceInv, IndInv, TypeOK, Store, Tips
<1>2. Exact(db, db.tip.blk) /\ known = Branch[best.blk]
  BY DEF RaceInv, RaceChain
<1>3. db.tip.ht = Depth[db.tip.blk]
  BY DEF RaceInv, IndInv, WellIndexed, DepthsIn
<1> QED BY <1>1, <1>2, <1>3

LEMMA RaceInit == ASSUME Init PROVE RaceInv
<1>1. IndInv
  BY IndInit
<1>2. Exact(db, db.tip.blk) /\ known = Branch[best.blk]
  BY ExactGenesis, TreeAssumption DEF Init, GenesisStore
<1>3. MemoryFollowsStore
  BY DEF Init, MemoryFollowsStore
<1>4. RaceBatch /\ RaceRollback
  BY DEF Init, RaceBatch, RaceRollback, BatchRunning, NoBatch, NoRollbacks, NoRollback
<1> QED BY <1>1, <1>2, <1>3, <1>4 DEF RaceInv, RaceChain

(* A step of the goroutine that rolls back, outside the lock.              *)
LEMMA RaceOutside ==
  ASSUME RaceInv, Racing, IndInv', NEW r \in Roller, rb[r].pc # "loop",
         UNCHANGED <<db, best, known, batch>>,
         NEW w, rb' = [rb EXCEPT ![r] = w], w.pc # "loop",
         w.pc = "read" => /\ w.target <= w.h /\ w.h <= db.tip.ht
                          /\ w.blk = AncestorAt(db.tip.blk, w.target)
  PROVE  RaceInv'
<1>1. \A q \in Roller : q = r /\ rb'[q] = w
  BY DEF Racing, RaceInv, IndInv, TypeOK
<1>2. NobodyRollsBack
  BY <1>1 DEF NobodyRollsBack, HoldsLock
<1>3. RaceChain'
  BY <1>2, RaceTip, RaceNow DEF RaceChain
<1>4. RaceBatch'
  BY ExactNow DEF RaceInv, RaceBatch, BatchRunning
<1>5. RaceRollback'
  <2>1. \A q \in Roller : rb'[q].pc = "read" =>
          /\ rb'[q].target <= rb'[q].h /\ rb'[q].h <= db'.tip.ht
          /\ rb'[q].blk = AncestorAt(db.tip.blk, rb[q].target)'
    BY <1>1 DEF AncestorAt
  <2> QED BY <1>1, <2>1 DEF RaceRollback
<1>6. MemoryFollowsStore'
  BY DEF RaceInv, MemoryFollowsStore
<1> QED BY <1>3, <1>4, <1>5, <1>6 DEF RaceInv

(* A step of a batch that leaves the store and the memory.                 *)
LEMMA RacePrivate ==
  ASSUME RaceInv, IndInv', UNCHANGED <<db, best, known, rb>>, ~batch.done, ~batch'.done,
         RaceBatch'
  PROVE  RaceInv'
<1>1. RaceChain'
  BY RaceNow DEF RaceInv, RaceChain, NobodyRollsBack, HoldsLock
<1>2. RaceRollback'
  <2>1. \A r \in Roller : rb[r].pc = "read" =>
          rb[r].blk = AncestorAt(db.tip.blk, rb[r].target)'
    BY DEF RaceInv, RaceRollback, AncestorAt
  <2>2. \A r \in Roller : rb[r].pc = "loop" => Descending(db, known, rb[r])'
    BY RaceNow DEF RaceInv, RaceRollback
  <2> QED BY <2>1, <2>2 DEF RaceInv, RaceRollback
<1>3. MemoryFollowsStore'
  BY DEF RaceInv, MemoryFollowsStore
<1> QED BY <1>1, <1>2, <1>3 DEF RaceInv

LEMMA RaceBeginBatch ==
  ASSUME RaceInv, Racing, NEW first \in Block, NEW last \in Block, BeginBatch(first, last)
  PROVE  RaceInv'
<1>1. PICK b \in Branch[last] :
        /\ b # Genesis /\ Unlocked /\ Parent[b] = best.blk
        /\ batch' = [top |-> last, from |-> db.heightOf[Parent[b]] + 1,
                     next |-> db.heightOf[Parent[b]] + 1, view |-> db, done |-> FALSE]
        /\ UNCHANGED <<db, best, index, known, rb>>
  BY DEF BeginBatch, CalculatedHeight, Racing
<1>2. ~BatchRunning /\ ~batch.done /\ best = db.tip /\ NobodyRollsBack
  BY <1>1 DEF RaceInv, IndInv, IndBatch, Unlocked, MemoryFollowsStore, NobodyRollsBack
<1>3. /\ b \in Block /\ Parent[b] \in Block /\ Depth[Parent[b]] \in Nat
      /\ Parent[b] \in Branch[b] /\ Branch[b] \subseteq Branch[last]
      /\ last # None
  BY <1>1, TreeAssumption, OnOwnBranch
<1>4. /\ Exact(db, Parent[b]) /\ db.heightOf[Parent[b]] = Depth[Parent[b]]
      /\ best.ht = Depth[Parent[b]]
  <2>1. Exact(db, Parent[b])
    BY <1>1, <1>2, RaceTip
  <2>2. db.heightOf[Parent[b]] = Depth[Parent[b]]
    BY <1>3, <2>1, ExactFacts
  <2>3. best.ht = Depth[Parent[b]]
    BY <1>1 DEF RaceInv, IndInv
  <2> QED BY <2>1, <2>2, <2>3
<1>5. AncestorAt(last, Depth[Parent[b]]) = Parent[b]
  BY <1>3, AncestorUnique
<1>6. /\ batch'.top = last /\ batch'.from = Depth[Parent[b]] + 1
      /\ batch'.next - 1 = Depth[Parent[b]]
      /\ batch'.view = db /\ ~batch'.done
  BY <1>1, <1>3, <1>4
<1>7. RaceBatch'
  <2>1. Exact(batch'.view, AncestorAt(batch'.top, batch'.next - 1))
    BY <1>4, <1>5, <1>6
  <2>2. best'.blk \in Branch[batch'.top] /\ best'.ht = batch'.from - 1
    BY <1>1, <1>3, <1>4, <1>6
  <2> QED BY <1>6, <2>1, <2>2, ExactNow DEF RaceBatch
<1>8. IndInv'
  BY IndBeginBatch DEF RaceInv
<1> QED BY <1>1, <1>2, <1>6, <1>7, <1>8, RacePrivate

LEMMA RaceApplyBlock == ASSUME RaceInv, Racing, ApplyBlock PROVE RaceInv'
<1> DEFINE b == AncestorAt(batch.top, batch.next)
           n == Applied(batch.view, b, batch.next, best.ht)
<1>1. /\ BatchRunning /\ batch.next <= Depth[batch.top]
      /\ CanApply(db, batch.view, b, batch.next)
      /\ batch' = [batch EXCEPT !.next = @ + 1, !.view = n]
      /\ UNCHANGED <<db, best, index, known, rb>>
  BY DEF ApplyBlock, InLoop
<1>2. /\ batch.top \in Block /\ batch.from \in 1 .. Depth[batch.top]
      /\ batch.next \in batch.from .. Depth[batch.top] /\ Depth[batch.top] \in Nat
      /\ batch \in BatchState
  BY <1>1, TreeAssumption DEF RaceInv, IndInv, IndBatch, TypeOK, BatchState, BatchRunning
<1>3. /\ b \in Block /\ Depth[b] = batch.next /\ b # Genesis
      /\ Parent[b] = AncestorAt(batch.top, batch.next - 1)
  <2>1. b \in Block /\ Depth[b] = batch.next
    BY <1>2, AncestorFacts
  <2>2. b # Genesis
    BY <1>2, <2>1, TreeAssumption
  <2> QED BY <1>2, <2>1, <2>2, AncestorParent
<1>4. Exact(batch.view, Parent[b]) /\ best.ht = batch.from - 1
      /\ best.blk \in Branch[batch.top] /\ ~batch.done
  BY <1>1, <1>2, <1>3 DEF RaceInv, RaceBatch
<1>5. /\ batch'.top = batch.top /\ batch'.from = batch.from /\ batch'.done = batch.done
      /\ batch'.next - 1 = batch.next /\ batch'.view = n
  <2> HIDE DEF n
  <2> QED BY <1>1, <1>2 DEF BatchState
<1>6. Exact(n, b)
  <2>1. WellIndexed(batch.view)
    BY DEF RaceInv, IndInv, IndBatch
  <2>2. best.ht \in Nat /\ best.ht < Depth[b] /\ CanApply(db, batch.view, b, Depth[b])
    BY <1>1, <1>2, <1>3, <1>4
  <2> HIDE DEF b
  <2>3. Exact(Applied(batch.view, b, Depth[b], best.ht), b)
    BY <1>3, <1>4, <2>1, <2>2, ExactApplied DEF Racing
  <2> QED BY <1>3, <2>3
<1> HIDE DEF n
<1>7. RaceBatch'
  <2>1. Exact(batch'.view, AncestorAt(batch'.top, batch'.next - 1))
    BY <1>5, <1>6
  <2> QED BY <1>1, <1>4, <1>5, <2>1, ExactNow DEF RaceBatch
<1>8. IndInv'
  BY IndApplyBlock DEF RaceInv
<1> QED BY <1>1, <1>4, <1>5, <1>7, <1>8, RacePrivate

LEMMA RaceRejectBatch == ASSUME RaceInv, RejectBatch PROVE RaceInv'
<1>1. UNCHANGED <<db, best, known, rb>> /\ ~batch'.done /\ ~BatchRunning'
  BY DEF RejectBatch, NoBatch, BatchRunning
<1>2. ~batch.done
  <2>1. BatchRunning /\ batch.next <= Depth[batch.top]
    BY DEF RejectBatch, InLoop
  <2>2. Depth[batch.top] \in Nat
    BY <2>1, TreeAssumption DEF RaceInv, IndInv, TypeOK, BatchState, BatchRunning
  <2>3. batch.done => batch.next = Depth[batch.top] + 1
    BY <2>1 DEF RaceInv, RaceBatch
  <2> QED BY <2>1, <2>2, <2>3
<1>3. IndInv'
  BY IndRejectBatch DEF RaceInv
<1> QED BY <1>1, <1>2, <1>3, RacePrivate DEF RaceBatch

(* What a committed batch has made of the store: its top's branch.         *)
LEMMA RaceDone ==
  ASSUME RaceInv, BatchRunning, batch.next = Depth[batch.top] + 1
  PROVE  /\ batch.top \in Block /\ Depth[batch.top] \in Nat
         /\ batch.from \in 1 .. Depth[batch.top] /\ batch \in BatchState
         /\ Exact(batch.view, batch.top)
         /\ best.blk \in Branch[batch.top] /\ best.ht = batch.from - 1
         /\ best.ht = Depth[best.blk] /\ NobodyRollsBack
<1>1. /\ batch.top \in Block /\ batch \in BatchState /\ best.ht = Depth[best.blk]
      /\ batch.from \in 1 .. Depth[batch.top] /\ NobodyRollsBack
  BY DEF RaceInv, IndInv, IndBatch, TypeOK, BatchState, BatchRunning, NobodyRollsBack
<1>2. Depth[batch.top] \in Nat
  BY <1>1, TreeAssumption
<1>3. batch.next - 1 = Depth[batch.top]
  BY <1>2
<1>4. AncestorAt(batch.top, Depth[batch.top]) = batch.top
  BY <1>1, OnOwnBranch, AncestorUnique
<1>5. /\ Exact(batch.view, AncestorAt(batch.top, batch.next - 1))
      /\ best.blk \in Branch[batch.top] /\ best.ht = batch.from - 1
  BY DEF RaceInv, RaceBatch
<1> QED BY <1>1, <1>2, <1>3, <1>4, <1>5

(* The commit extends the branch, so what a rollback has read of it stays  *)
(* true.                                                                   *)
LEMMA RaceCommitBatch == ASSUME RaceInv, CommitBatch PROVE RaceInv'
<1>1. /\ BatchRunning /\ ~batch.done /\ batch.next > Depth[batch.top]
      /\ db' = batch.view /\ batch' = [batch EXCEPT !.done = TRUE]
      /\ UNCHANGED <<best, index, known, rb>>
  <2>1. batch.next \in Nat /\ (batch.top # None => Depth[batch.top] \in Nat)
    BY TreeAssumption DEF RaceInv, IndInv, TypeOK, BatchState
  <2> QED BY <2>1 DEF CommitBatch, InLoop, BatchRunning
<1>2. batch.next = Depth[batch.top] + 1
  <2>1. batch.top \in Block /\ batch.next \in batch.from .. Depth[batch.top] + 1
        /\ batch.from \in 1 .. Depth[batch.top]
    BY <1>1 DEF RaceInv, IndInv, IndBatch, TypeOK, BatchState, BatchRunning
  <2>2. Depth[batch.top] \in Nat
    BY <2>1, TreeAssumption
  <2> QED BY <1>1, <2>1, <2>2
<1>3. /\ batch.top \in Block /\ Depth[batch.top] \in Nat
      /\ batch.from \in 1 .. Depth[batch.top] /\ batch \in BatchState
      /\ Exact(batch.view, batch.top)
      /\ best.blk \in Branch[batch.top] /\ best.ht = batch.from - 1
      /\ best.ht = Depth[best.blk] /\ NobodyRollsBack
  BY <1>1, <1>2, RaceDone
<1>4. /\ batch'.top = batch.top /\ batch'.from = batch.from /\ batch'.done
      /\ batch'.next = batch.next /\ batch'.view = batch.view
  BY <1>1, <1>3 DEF BatchState
<1>5. best = db.tip /\ db.tip.blk \in Block /\ known = Branch[best.blk]
  BY <1>1, <1>3, RaceTip DEF RaceInv, MemoryFollowsStore
<1>6. db'.tip = [ht |-> Depth[batch.top], blk |-> batch.top] /\ Exact(db', db'.tip.blk)
  BY <1>1, <1>3 DEF Exact
<1>7. RaceChain'
  BY <1>1, <1>5, <1>6, RaceNow DEF RaceChain
<1>8. RaceBatch'
  <2>1. Exact(batch'.view, AncestorAt(batch'.top, batch'.next - 1))
    BY <1>1, <1>4 DEF RaceInv, RaceBatch
  <2> QED BY <1>1, <1>2, <1>3, <1>4, <2>1, ExactNow DEF RaceBatch
<1>9. RaceRollback'
  <2>1. \A r \in Roller : rb'[r] = rb[r] /\ rb[r].pc # "loop"
    BY <1>1, <1>3 DEF NobodyRollsBack, HoldsLock
  <2>2. ASSUME NEW r \in Roller, rb[r].pc = "read"
        PROVE  /\ rb[r].target <= rb[r].h /\ rb[r].h <= db'.tip.ht
               /\ rb[r].blk = AncestorAt(db'.tip.blk, rb[r].target)
    <3>1. /\ rb[r].target <= rb[r].h /\ rb[r].h <= db.tip.ht
          /\ rb[r].blk = AncestorAt(db.tip.blk, rb[r].target)
      BY <2>2 DEF RaceInv, RaceRollback
    <3>2. rb[r].h \in Nat /\ rb[r].target \in Nat
      BY HeightFacts DEF RaceInv, IndInv, TypeOK, RollbackState
    <3>3. db.tip.ht = Depth[db.tip.blk] /\ db.tip.ht < Depth[batch.top] /\ db.tip.ht \in Nat
      BY <1>3, <1>5
    <3>4. /\ AncestorAt(db.tip.blk, rb[r].target) \in Branch[batch.top]
          /\ Depth[AncestorAt(db.tip.blk, rb[r].target)] = rb[r].target
      <4>1. rb[r].target \in 0 .. Depth[db.tip.blk]
        BY <3>1, <3>2, <3>3
      <4>2. AncestorAt(db.tip.blk, rb[r].target) \in Branch[db.tip.blk]
            /\ Depth[AncestorAt(db.tip.blk, rb[r].target)] = rb[r].target
        BY <1>5, <4>1, AncestorFacts
      <4>3. Branch[db.tip.blk] \subseteq Branch[batch.top]
        BY <1>3, <1>5, TreeAssumption
      <4> QED BY <4>2, <4>3
    <3>5. AncestorAt(batch.top, rb[r].target) = AncestorAt(db.tip.blk, rb[r].target)
      BY <1>3, <3>4, AncestorUnique
    <3> QED BY <1>3, <1>6, <3>1, <3>2, <3>3, <3>5
  <2>3. \A r \in Roller : rb'[r].pc = "read" =>
          /\ rb'[r].target <= rb'[r].h /\ rb'[r].h <= db'.tip.ht
          /\ rb'[r].blk = AncestorAt(db.tip.blk, rb[r].target)'
    BY <2>1, <2>2 DEF AncestorAt
  <2> QED BY <2>1, <2>3 DEF RaceRollback
<1>10. MemoryFollowsStore'
  BY <1>4 DEF MemoryFollowsStore
<1>11. IndInv'
  BY IndCommitBatch DEF RaceInv
<1> QED BY <1>7, <1>8, <1>9, <1>10, <1>11 DEF RaceInv

(* The memory catches up: tip and known blocks are those of top's branch.  *)
LEMMA RacePublishBatch == ASSUME RaceInv, PublishBatch PROVE RaceInv'
<1>1. /\ BatchRunning /\ batch.done
      /\ best' = IF Depth[batch.top] > best.ht
                   THEN [ht |-> Depth[batch.top], blk |-> batch.top] ELSE best
      /\ known' = known \union BatchBlocks
      /\ batch' = NoBatch /\ db' = db /\ rb' = rb
  BY DEF PublishBatch, RaceInv, IndInv, IndBatch
<1>2. batch.next = Depth[batch.top] + 1 /\ db = batch.view
  BY <1>1 DEF RaceInv, RaceBatch
<1>3. /\ batch.top \in Block /\ Depth[batch.top] \in Nat
      /\ batch.from \in 1 .. Depth[batch.top]
      /\ Exact(db, batch.top)
      /\ best.blk \in Branch[batch.top] /\ best.ht = batch.from - 1
      /\ best.ht = Depth[best.blk] /\ NobodyRollsBack
  BY <1>1, <1>2, RaceDone
<1>4. best' = [ht |-> Depth[batch.top], blk |-> batch.top] /\ best' = db'.tip
  BY <1>1, <1>3 DEF Exact
<1>5. known' = Branch[batch.top]
  <2>1. known = { x \in Branch[batch.top] : Depth[x] <= Depth[best.blk] }
    BY <1>3, RaceTip, BranchBelow
  <2>2. \A x \in Branch[batch.top] : Depth[x] \in Nat
    BY <1>3, TreeAssumption
  <2>3. \A x \in Branch[batch.top] : Depth[x] <= Depth[best.blk] \/ Depth[x] >= batch.from
    BY <1>3, <2>2
  <2> QED BY <1>1, <2>1, <2>3 DEF BatchBlocks
<1>6. RaceChain'
  BY <1>1, <1>3, <1>4, <1>5, RaceNow DEF RaceChain
<1>7. RaceBatch'
  BY <1>1 DEF RaceBatch, BatchRunning, NoBatch
<1>8. RaceRollback'
  <2>1. \A r \in Roller : rb[r].pc # "loop"
    BY <1>3 DEF NobodyRollsBack, HoldsLock
  <2>2. \A r \in Roller : rb[r].pc = "read" =>
          /\ rb[r].target <= rb[r].h /\ rb[r].h <= db.tip.ht
          /\ rb[r].blk = AncestorAt(db.tip.blk, rb[r].target)'
    BY <1>1 DEF RaceInv, RaceRollback, AncestorAt
  <2> QED BY <1>1, <2>1, <2>2 DEF RaceRollback
<1>9. MemoryFollowsStore'
  BY <1>4 DEF MemoryFollowsStore
<1>10. IndInv'
  BY IndPublishBatch DEF RaceInv
<1> QED BY <1>6, <1>7, <1>8, <1>9, <1>10 DEF RaceInv

(* The reads before the lock see the tip in memory, and the branch it is   *)
(* on, even while a batch is running.                                      *)
LEMMA RaceRollbackRead ==
  ASSUME RaceInv, Racing, NEW r \in Roller, NEW target \in Heights, NEW reset \in BOOLEAN,
         RollbackRead(r, target, reset)
  PROVE  RaceInv'
<1> DEFINE new == [pc |-> "read", h |-> best.ht, target |-> target,
                   blk |-> HashSeenAt(target), reset |-> reset]
<1>1. /\ rb[r].pc = "idle" /\ best.ht > target
      /\ rb' = [rb EXCEPT ![r] = new] /\ UNCHANGED <<db, best, index, known, batch>>
  BY DEF RollbackRead
<1>2. NobodyRollsBack
  BY <1>1 DEF NobodyRollsBack, HoldsLock, Racing
<1>3. db.tip.blk \in Block /\ Exact(db, db.tip.blk) /\ db.tip.ht = Depth[db.tip.blk]
      /\ db.tip.ht \in Nat
  BY <1>2, RaceTip, TreeAssumption
<1>4. best.ht \in Nat /\ target \in Nat
  BY HeightFacts DEF RaceInv, IndInv, TypeOK, Tips
<1>5. best.ht <= db.tip.ht /\ (BatchRunning => batch.from = best.ht + 1)
  <2>1. CASE ~batch.done
    <3>1. best = db.tip
      BY <2>1 DEF RaceInv, MemoryFollowsStore
    <3>2. BatchRunning => best.ht = batch.from - 1 /\ batch.from \in Nat
      BY DEF RaceInv, RaceBatch, IndInv, TypeOK, BatchState
    <3> QED BY <1>4, <3>1, <3>2
  <2>2. CASE batch.done
    <3>1. BatchRunning /\ batch.next = Depth[batch.top] + 1 /\ db = batch.view
      BY <2>2 DEF RaceInv, IndInv, IndBatch, RaceBatch
    <3>2. /\ Exact(db, batch.top) /\ batch.from \in 1 .. Depth[batch.top]
          /\ Depth[batch.top] \in Nat /\ best.ht = batch.from - 1
      BY <3>1, RaceDone
    <3>3. db.tip.ht = Depth[batch.top]
      BY <3>2 DEF Exact
    <3> QED BY <3>2, <3>3
  <2> QED BY <2>1, <2>2
<1>6. HashSeenAt(target) = AncestorAt(db.tip.blk, target)
  <2>1. HashSeenAt(target) = db.hashAt[target]
    <3>1. BatchRunning => target < batch.from
      BY <1>1, <1>4, <1>5
    <3>2. BatchRunning => target \notin batch.from .. batch.next
      BY <1>4, <3>1 DEF RaceInv, IndInv, TypeOK, BatchState
    <3> QED BY <3>2 DEF HashSeenAt
  <2>2. target <= Depth[db.tip.blk]
    BY <1>1, <1>3, <1>4, <1>5
  <2> QED BY <1>3, <2>1, <2>2, ExactHashes
<1>7. new.pc = "read" /\ new.h = best.ht /\ new.target = target
      /\ new.blk = AncestorAt(db.tip.blk, target)
  BY <1>6
<1>8. new.target <= new.h
  BY <1>1, <1>4
<1> HIDE DEF new
<1>9. IndInv'
  BY IndRollbackRead DEF RaceInv
<1> QED BY <1>1, <1>5, <1>7, <1>8, <1>9, RaceOutside

LEMMA RaceResetChainState ==
  ASSUME RaceInv, Racing, NEW r \in Roller, ResetChainState(r) PROVE RaceInv'
<1>1. /\ rb[r].pc = "reset" /\ UNCHANGED <<db, best, known, batch>>
      /\ rb' = [rb EXCEPT ![r] = NoRollback]
  BY DEF ResetChainState
<1>2. NoRollback.pc = "idle"
  BY DEF NoRollback
<1>3. IndInv'
  BY IndResetChainState DEF RaceInv
<1> QED BY <1>1, <1>2, <1>3, RaceOutside

(* A step of the goroutine that holds the lock, and keeps it.              *)
LEMMA RaceLocked ==
  ASSUME RaceInv, Racing, IndInv', NEW r \in Roller, ~BatchRunning, UNCHANGED batch,
         NEW w, rb' = [rb EXCEPT ![r] = w], w.pc = "loop",
         Descending(db', known', w), best' = db'.tip
  PROVE  RaceInv'
<1>1. \A q \in Roller : q = r /\ rb'[q] = w
  BY DEF Racing, RaceInv, IndInv, TypeOK
<1>2. RaceChain'
  BY <1>1 DEF RaceChain, NobodyRollsBack, HoldsLock
<1>3. RaceBatch'
  BY DEF RaceBatch, BatchRunning
<1>4. RaceRollback'
  <2>1. \A q \in Roller : rb'[q].pc = "loop" /\ Descending(db', known', rb'[q])
    BY <1>1
  <2> QED BY <2>1, RaceNow DEF RaceRollback
<1>5. MemoryFollowsStore'
  BY DEF MemoryFollowsStore
<1> QED BY <1>2, <1>3, <1>4, <1>5 DEF RaceInv

(* The lock is taken on an exact store, by then perhaps longer.            *)
LEMMA RaceRollbackLock ==
  ASSUME RaceInv, Racing, NEW r \in Roller, RollbackLock(r) PROVE RaceInv'
<1> DEFINE new == [rb[r] EXCEPT !.pc = "loop"]
           e == db.tip.blk
<1>1. /\ rb[r].pc = "read" /\ rb' = [rb EXCEPT ![r] = new] /\ ~BatchRunning
      /\ UNCHANGED <<db, best, index, known, batch>> /\ NobodyRollsBack
  BY DEF RollbackLock, Unlocked, RaceInv, IndInv, TypeOK, NobodyRollsBack
<1>2. best = db.tip
  BY <1>1 DEF RaceInv, IndInv, IndBatch, MemoryFollowsStore
<1>3. e \in Block /\ Exact(db, e) /\ known = Branch[e] /\ db.tip.ht = Depth[e]
      /\ db.stored = Branch[e] /\ Partial(db, e)
  BY <1>1, <1>2, RaceTip, PartialOfExact DEF Exact
<1>4. /\ rb[r].target <= rb[r].h /\ rb[r].h <= db.tip.ht
      /\ rb[r].blk = AncestorAt(e, rb[r].target)
  BY <1>1 DEF RaceInv, RaceRollback
<1>5. /\ new.pc = "loop" /\ new.h = rb[r].h /\ new.target = rb[r].target
      /\ new.blk = rb[r].blk
  BY DEF RaceInv, IndInv, TypeOK, RollbackState
<1> HIDE DEF new, e
<1>6. Descending(db', known', new)
  BY <1>1, <1>3, <1>4, <1>5 DEF Descending
<1>7. IndInv'
  BY IndRollbackLock DEF RaceInv
<1> QED BY <1>1, <1>2, <1>5, <1>6, <1>7, RaceLocked

(* What RaceInv says of the goroutine that holds the lock.                 *)
LEMMA RaceHolder ==
  ASSUME RaceInv, NEW r \in Roller, HoldsLock(r)
  PROVE  /\ ~BatchRunning /\ ~batch.done /\ best = db.tip
         /\ rb[r] \in RollbackState /\ rb[r].h \in Nat /\ rb[r].target \in Nat
         /\ Descending(db, known, rb[r])
<1>1. rb[r] \in RollbackState /\ rb[r].h \in Nat /\ rb[r].target \in Nat
  BY HeightFacts DEF RaceInv, IndInv, TypeOK, RollbackState
<1>2. ~BatchRunning /\ ~batch.done
  BY DEF RaceInv, IndInv, IndBatch
<1>3. best = db.tip /\ Descending(db, known, rb[r])
  BY <1>2 DEF RaceInv, MemoryFollowsStore, RaceRollback, HoldsLock
<1> QED BY <1>1, <1>2, <1>3

LEMMA RaceRollbackSkip ==
  ASSUME RaceInv, Racing, NEW r \in Roller, RollbackSkip(r) PROVE RaceInv'
<1> DEFINE new == [rb[r] EXCEPT !.h = @ - 1]
<1>1. /\ HoldsLock(r) /\ rb[r].h > rb[r].target /\ rb[r].pc = "loop"
      /\ rb' = [rb EXCEPT ![r] = new] /\ UNCHANGED <<db, best, index, known, batch>>
  BY DEF RollbackSkip, InDescent, HoldsLock, RaceInv, IndInv, TypeOK
<1>2. /\ ~BatchRunning /\ best = db.tip /\ rb[r] \in RollbackState
      /\ rb[r].h \in Nat /\ rb[r].target \in Nat /\ Descending(db, known, rb[r])
  BY <1>1, RaceHolder
<1>3. /\ new.pc = "loop" /\ new.h = rb[r].h - 1 /\ new.target = rb[r].target
      /\ new.blk = rb[r].blk
  BY <1>1, <1>2 DEF RollbackState
<1> HIDE DEF new
<1>4. Descending(db', known', new)
  <2>1. PICK e \in Block :
          /\ Partial(db, e) /\ rb[r].h <= Depth[e]
          /\ \A x \in Branch[e] : Depth[x] <= rb[r].h => x \in db.stored
          /\ rb[r].blk = AncestorAt(e, rb[r].target)
          /\ db.stored \subseteq known /\ known \subseteq Branch[e]
    BY <1>2 DEF Descending
  <2>2. Depth[e] \in Nat /\ \A x \in Branch[e] : Depth[x] \in Nat
    BY TreeAssumption
  <2>3. new.h <= Depth[e] /\ new.target <= new.h /\ rb[r].h > new.h
    BY <1>1, <1>2, <1>3, <2>1, <2>2
  <2>4. \A x \in Branch[e] : Depth[x] <= new.h => x \in db.stored
    BY <1>2, <1>3, <2>1, <2>2
  <2> QED BY <1>1, <1>3, <2>1, <2>3, <2>4 DEF Descending
<1>5. IndInv'
  BY IndRollbackSkip DEF RaceInv
<1> QED BY <1>1, <1>2, <1>3, <1>4, <1>5, RaceLocked

(* The block at the height in work is there, loads and disconnects, and so *)
(* does its parent: the rollback does not stop half way.                   *)
LEMMA RaceDescent ==
  ASSUME RaceInv, Racing, NEW r \in Roller, InDescent(r),
         NEW b, b = db.hashAt[rb[r].h], NEW n, n = Disconnected(db, b, db.heightOf[b]),
         NEW w, w.h = rb[r].h - 1, w.target = rb[r].target, w.blk = rb[r].blk
  PROVE  /\ b \in Block /\ CanDisconnect(db, b) /\ Loadable(n, Parent[b])
         /\ Descending(n, known \ {b}, w)
<1>1. HoldsLock(r) /\ rb[r].h > rb[r].target
  BY DEF InDescent
<1>2. rb[r].h \in Nat /\ rb[r].target \in Nat /\ Descending(db, known, rb[r])
  BY <1>1, RaceHolder
<1>3. PICK e \in Block :
        /\ Partial(db, e) /\ rb[r].h <= Depth[e]
        /\ \A x \in Branch[e] : Depth[x] <= rb[r].h => x \in db.stored
        /\ rb[r].blk = AncestorAt(e, rb[r].target)
        /\ db.stored \subseteq known /\ known \subseteq Branch[e]
  BY <1>2 DEF Descending
<1>4. Depth[e] \in Nat /\ \A x \in Branch[e] : Depth[x] \in Nat
  BY TreeAssumption
<1> DEFINE a == AncestorAt(e, rb[r].h)
<1>5. a \in Branch[e] /\ a \in Block /\ Depth[a] = rb[r].h /\ a \in db.stored
      /\ a # Genesis /\ Parent[a] = AncestorAt(e, rb[r].h - 1)
  <2>1. rb[r].h \in 1 .. Depth[e]
    BY <1>1, <1>2, <1>3, <1>4
  <2>2. a \in Branch[e] /\ a \in Block /\ Depth[a] = rb[r].h
    BY <1>4, <2>1, AncestorFacts
  <2> QED BY <1>2, <1>3, <2>1, <2>2, AncestorParent
<1> HIDE DEF a
<1>6. b = a /\ b \in db.stored /\ b \in Branch[e] /\ b \in Block /\ Depth[b] = rb[r].h
  BY <1>3, <1>5, PartialBlock
<1>7. Partial(n, e) /\ n.stored = db.stored \ {b}
  BY <1>3, <1>6, PartialDisconnected DEF Racing, Disconnected
<1>8. /\ Parent[b] \in Branch[e] /\ Depth[Parent[b]] = rb[r].h - 1
      /\ Parent[b] \in n.stored
  <2>1. rb[r].h - 1 \in 0 .. Depth[e]
    BY <1>1, <1>2, <1>3, <1>4
  <2>2. Parent[b] \in Branch[e] /\ Depth[Parent[b]] = rb[r].h - 1
    BY <1>5, <1>6, <2>1, AncestorFacts
  <2>3. Parent[b] \in db.stored /\ Parent[b] # b
    BY <1>2, <1>3, <1>6, <2>2
  <2> QED BY <1>7, <2>2, <2>3
<1>9. Loadable(n, Parent[b])
  BY <1>7, <1>8, PartialBlock
<1>10. CanDisconnect(db, b)
  <2>1. db.heightOf[b] = rb[r].h
    BY <1>3, <1>6, PartialBlock
  <2>2. Branch[b] \subseteq db.stored
    BY <1>2, <1>3, <1>6, BranchBelow
  <2>3. Spends({b}) \subseteq TxsOf(Branch[b]) /\ db.utxos = TxsOf(db.stored)
    BY <1>3, <1>6 DEF Partial
  <2>4. TxsOf(Branch[b]) \subseteq TxsOf(db.stored)
    BY <2>2, TxsOfFact
  <2>5. db.heightOf[b] # NoHeight
    BY <1>2, <2>1 DEF NoHeight
  <2>6. Spends({b}) \subseteq db.utxos
    BY <2>3, <2>4
  <2> QED BY <2>5, <2>6 DEF CanDisconnect
<1>11. Descending(n, known \ {b}, w)
  <2>1. w.h <= Depth[e] /\ w.target <= w.h
    BY <1>1, <1>2, <1>3, <1>4
  <2>2. \A x \in Branch[e] : Depth[x] <= w.h => x \in n.stored
    <3> SUFFICES ASSUME NEW x \in Branch[e], Depth[x] <= w.h PROVE x \in n.stored
      OBVIOUS
    <3>1. Depth[x] <= rb[r].h /\ Depth[x] # rb[r].h
      BY <1>2, <1>4
    <3> QED BY <1>3, <1>6, <1>7, <3>1
  <2>3. n.stored \subseteq known \ {b} /\ known \ {b} \subseteq Branch[e]
    BY <1>3, <1>7
  <2> QED BY <1>3, <1>7, <2>1, <2>2, <2>3 DEF Descending
<1> QED BY <1>6, <1>9, <1>10, <1>11

LEMMA RaceRollbackStep ==
  ASSUME RaceInv, Racing, NEW r \in Roller, RollbackStep(r) PROVE RaceInv'
<1> DEFINE b == db.hashAt[rb[r].h]
           n == Disconnected(db, b, db.heightOf[b])
           new == [rb[r] EXCEPT !.h = @ - 1]
<1>1. InDescent(r) /\ HoldsLock(r) /\ rb[r].pc = "loop"
  BY DEF RollbackStep, InDescent, HoldsLock
<1>2. ~BatchRunning /\ rb[r] \in RollbackState
  BY <1>1, RaceHolder
<1>3. /\ new.pc = "loop" /\ new.h = rb[r].h - 1 /\ new.target = rb[r].target
      /\ new.blk = rb[r].blk
  BY <1>1, <1>2 DEF RollbackState
<1>4. /\ db' = n /\ UNCHANGED batch
      /\ Loadable(n, Parent[b]) => /\ best' = n.tip /\ known' = known \ {b}
                                  /\ rb' = [rb EXCEPT ![r] = new]
  BY DEF RollbackStep
<1> HIDE DEF new
<1>5. Loadable(n, Parent[b]) /\ Descending(n, known \ {b}, new)
  BY <1>1, <1>3, RaceDescent
<1>6. IndInv'
  BY IndRollbackStep DEF RaceInv
<1> HIDE DEF n, b
<1>7. Descending(db', known', new) /\ best' = db'.tip
  BY <1>4, <1>5
<1> QED BY <1>1, <1>2, <1>3, <1>4, <1>5, <1>6, <1>7, RaceLocked

(* The orphan clean-up takes out blocks above the target only.             *)
LEMMA RaceRollbackClean ==
  ASSUME RaceInv, Racing, NEW r \in Roller, RollbackClean(r) PROVE RaceInv'
<1>1. /\ HoldsLock(r) /\ rb[r].pc = "loop" /\ rb[r].h <= rb[r].target
      /\ UNCHANGED <<best, index, known, batch, rb>>
  BY DEF RollbackClean, AtTarget, HoldsLock
<1>2. PICK b \in Block : /\ db.heightOf[b] > rb[r].target
                         /\ db' = OrphanDeleted(db, b, db.heightOf[b])
  BY DEF RollbackClean, OrphansAbove
<1>3. /\ ~BatchRunning /\ best = db.tip /\ rb[r].h \in Nat /\ rb[r].target \in Nat
      /\ Descending(db, known, rb[r]) /\ rb' = [rb EXCEPT ![r] = rb[r]]
  BY <1>1, RaceHolder DEF RaceInv, IndInv, TypeOK
<1>4. PICK e \in Block :
        /\ Partial(db, e) /\ rb[r].h <= Depth[e] /\ rb[r].target <= rb[r].h
        /\ \A x \in Branch[e] : Depth[x] <= rb[r].h => x \in db.stored
        /\ rb[r].blk = AncestorAt(e, rb[r].target)
        /\ db.stored \subseteq known /\ known \subseteq Branch[e]
  BY <1>3 DEF Descending
<1>5. b \in db.stored /\ Depth[b] > rb[r].h
  <2>1. db.heightOf[b] = IF b \in db.stored THEN Depth[b] ELSE NoHeight
    BY <1>4 DEF Partial
  <2>2. b \in db.stored
    BY <1>2, <1>3, <2>1 DEF NoHeight
  <2>3. Depth[b] \in Nat
    BY TreeAssumption
  <2> QED BY <1>1, <1>2, <1>3, <1>4, <2>1, <2>2, <2>3
<1>6. db'.stored = db.stored \ {b} /\ db'.tip = db.tip
  BY <1>2 DEF OrphanDeleted
<1>7. Partial(db', e)
  BY <1>2, <1>4, <1>5, PartialOrphanDeleted DEF Racing
<1>8. Descending(db', known', rb[r])
  <2>1. \A x \in Branch[e] : Depth[x] <= rb[r].h => x \in db'.stored
    <3>1. \A x \in Branch[e] : Depth[x] <= rb[r].h => x # b
      BY <1>3, <1>5, TreeAssumption
    <3> QED BY <1>4, <1>6, <3>1
  <2> QED BY <1>1, <1>4, <1>6, <1>7, <2>1 DEF Descending
<1>9. IndInv'
  BY IndRollbackClean DEF RaceInv
<1> QED BY <1>1, <1>3, <1>6, <1>8, <1>9, RaceLocked

(* Nothing above the target is left: what is left is the target's branch.  *)
LEMMA RaceRollbackFinish ==
  ASSUME RaceInv, Racing, NEW r \in Roller, RollbackFinish(r) PROVE RaceInv'
<1> DEFINE new == IF rb[r].reset THEN [rb[r] EXCEPT !.pc = "reset"] ELSE NoRollback
           tip == [ht |-> rb[r].target, blk |-> rb[r].blk]
           a == rb[r].blk
<1>1. /\ HoldsLock(r) /\ rb[r].pc = "loop" /\ rb[r].h <= rb[r].target
      /\ OrphansAbove(db, rb[r].target) = {}
      /\ known' = { b \in known : Depth[b] <= rb[r].target }
      /\ best' = tip /\ db' = [db EXCEPT !.tip = tip] /\ rb' = [rb EXCEPT ![r] = new]
      /\ UNCHANGED <<index, batch>>
  BY DEF RollbackFinish, AtTarget, HoldsLock, RaceInv, IndInv, TypeOK
<1>2. /\ ~BatchRunning /\ rb[r].h \in Nat /\ rb[r].target \in Nat /\ rb[r] \in RollbackState
      /\ Descending(db, known, rb[r])
  BY <1>1, RaceHolder
<1>3. PICK e \in Block :
        /\ Partial(db, e) /\ rb[r].h <= Depth[e] /\ rb[r].target <= rb[r].h
        /\ \A x \in Branch[e] : Depth[x] <= rb[r].h => x \in db.stored
        /\ rb[r].blk = AncestorAt(e, rb[r].target)
        /\ db.stored \subseteq known /\ known \subseteq Branch[e]
  BY <1>2 DEF Descending
<1>4. /\ rb[r].target = rb[r].h /\ rb[r].target \in 0 .. Depth[e] /\ Depth[e] \in Nat
      /\ \A x \in Branch[e] : x \in Block /\ Depth[x] \in Nat
  <2>1. Depth[e] \in Nat /\ \A x \in Branch[e] : x \in Block /\ Depth[x] \in Nat
    BY TreeAssumption
  <2>2. rb[r].target = rb[r].h
    BY <1>1, <1>2, <1>3
  <2>3. rb[r].target \in 0 .. Depth[e]
    BY <1>2, <1>3, <2>1, <2>2
  <2> QED BY <2>1, <2>2, <2>3
<1>5. a \in Branch[e] /\ a \in Block /\ Depth[a] = rb[r].target
  BY <1>3, <1>4, AncestorFacts
<1>6. Branch[a] = { x \in Branch[e] : Depth[x] <= rb[r].target }
  BY <1>5, BranchBelow
<1>7. db.stored = Branch[a]
  <2>1. ASSUME NEW x \in db.stored PROVE x \in Branch[e] /\ Depth[x] <= rb[r].target
    <3>1. x \in Block /\ x \in Branch[e] /\ db.heightOf[x] = Depth[x]
      BY <1>3, PartialBlock
    <3>2. ~(db.heightOf[x] > rb[r].target)
      BY <1>1, <3>1 DEF OrphansAbove
    <3> QED BY <1>2, <1>4, <3>1, <3>2
  <2>2. ASSUME NEW x \in Branch[e], Depth[x] <= rb[r].target PROVE x \in db.stored
    BY <1>3, <1>4, <2>2
  <2> QED BY <1>6, <2>1, <2>2
<1>8. known' = Branch[a]
  BY <1>1, <1>3, <1>6, <1>7
<1>9. new.pc # "loop" /\ new.pc # "read"
  <2>1. [rb[r] EXCEPT !.pc = "reset"].pc = "reset"
    BY <1>2 DEF RollbackState
  <2>2. NoRollback.pc = "idle"
    BY DEF NoRollback
  <2> QED BY <2>1, <2>2
<1> HIDE DEF new, a
<1>10. Exact(db', db'.tip.blk) /\ db'.tip = tip /\ tip.blk = a
  <2>1. db \in Store
    BY DEF RaceInv, IndInv, TypeOK
  <2>2. /\ db'.tip = tip /\ db'.stored = db.stored /\ db'.hashAt = db.hashAt
        /\ db'.heightOf = db.heightOf /\ db'.txLoc = db.txLoc /\ db'.utxos = db.utxos
        /\ db'.spentBy = db.spentBy /\ db'.spentAt = db.spentAt
    BY <1>1, <2>1 DEF Store
  <2>3. tip = [ht |-> Depth[a], blk |-> a]
    BY <1>5 DEF a
  <2>4. Exact(db', a)
    BY <1>3, <1>5, <1>7, <2>2, <2>3, ExactOfPartial
  <2> QED BY <2>2, <2>3, <2>4
<1>11. RaceChain'
  BY <1>1, <1>8, <1>10, RaceNow DEF RaceChain
<1>12. RaceRollback'
  <2>1. \A q \in Roller : q = r /\ rb'[q] = new
    BY <1>1 DEF Racing, RaceInv, IndInv, TypeOK
  <2> QED BY <1>9, <2>1 DEF RaceRollback
<1>13. RaceBatch'
  BY <1>1, <1>2 DEF RaceBatch, BatchRunning
<1>14. MemoryFollowsStore'
  BY <1>1, <1>10 DEF MemoryFollowsStore
<1>15. IndInv'
  BY IndRollbackFinish DEF RaceInv
<1> QED BY <1>11, <1>12, <1>13, <1>14, <1>15 DEF RaceInv

(* A clean stop writes the tip that is there, and the start rebuilds the   *)
(* known blocks from the hash index.                                       *)
LEMMA RaceShutdown == ASSUME RaceInv, Shutdown PROVE RaceInv'
<1>1. ~BatchRunning /\ ~batch.done /\ NobodyRollsBack
  BY DEF Shutdown, AtRest, RaceInv, IndInv, IndBatch, NoRollbackRunning, NobodyRollsBack,
         HoldsLock
<1>2. best = db.tip /\ db \in Store
  BY <1>1 DEF RaceInv, MemoryFollowsStore, IndInv, TypeOK
<1>3. [db EXCEPT !.tip = best] = db
  BY <1>2 DEF Store
<1>4. Reload(db)
  BY <1>3 DEF Shutdown
<1>5. db.tip.blk \in Block /\ Exact(db, db.tip.blk)
  BY <1>1, RaceTip
<1>6. Loadable(db, db.tip.blk)
      /\ { b \in Block : db.heightOf[b] # NoHeight } = Branch[db.tip.blk]
  BY <1>5, ExactFacts
<1>7. db' = db /\ best' = db.tip /\ batch' = NoBatch /\ rb' = NoRollbacks
      /\ known' = Branch[db.tip.blk]
  BY <1>4, <1>6 DEF Reload
<1>8. RaceChain'
  BY <1>5, <1>7, RaceNow DEF RaceChain
<1>9. RaceBatch' /\ RaceRollback'
  BY <1>7 DEF RaceBatch, RaceRollback, BatchRunning, NoBatch, NoRollbacks, NoRollback
<1>10. MemoryFollowsStore'
  BY <1>7 DEF MemoryFollowsStore
<1>11. IndInv'
  BY <1>4, IndReload DEF RaceInv, IndInv
<1> QED BY <1>8, <1>9, <1>10, <1>11 DEF RaceInv

LEMMA RaceNext == ASSUME Racing PROVE RaceInv /\ [Next]_vars => RaceInv'
<1> SUFFICES ASSUME RaceInv, [Next]_vars PROVE RaceInv'
  OBVIOUS
<1>1. ASSUME NEW first \in Block, NEW last \in Block, BeginBatch(first, last) PROVE RaceInv'
  BY <1>1, RaceBeginBatch
<1>2. ASSUME NEW r \in Roller, NEW target \in Heights, NEW reset \in BOOLEAN,
             RollbackRead(r, target, reset)
      PROVE  RaceInv'
  BY <1>2, RaceRollbackRead
<1>3. ASSUME NEW r \in Roller, RollbackProgress(r) PROVE RaceInv'
  <2>1. CASE RollbackFail(r)
    <3> DEFINE b == db.hashAt[rb[r].h]
               n == Disconnected(db, b, db.heightOf[b])
               w == [h |-> rb[r].h - 1, target |-> rb[r].target, blk |-> rb[r].blk]
    <3>1. InDescent(r) /\ ~CanDisconnect(db, b)
      BY <2>1 DEF RollbackFail
    <3>2. w.h = rb[r].h - 1 /\ w.target = rb[r].target /\ w.blk = rb[r].blk
      OBVIOUS
    <3> HIDE DEF w
    <3>3. CanDisconnect(db, b)
      BY <3>1, <3>2, RaceDescent
    <3> QED BY <3>1, <3>3
  <2> QED
    BY <1>3, <2>1, RaceRollbackLock, RaceRollbackSkip, RaceRollbackStep, RaceRollbackClean,
       RaceRollbackFinish, RaceResetChainState DEF RollbackProgress
<1>4. ~Crash /\ ~SyncFails
  BY DEF Crash, SyncFails, Racing
<1>5. CASE UNCHANGED vars
  <2>1. UNCHANGED <<db, best, index, known, batch, rb>>
    BY <1>5 DEF vars
  <2>2. IndInv'
    BY <1>5, IndNext DEF RaceInv
  <2>3. RaceChain'
    BY <2>1, RaceNow DEF RaceInv, RaceChain, NobodyRollsBack, HoldsLock
  <2>4. RaceBatch'
    BY <2>1, ExactNow DEF RaceInv, RaceBatch, BatchRunning
  <2>5. RaceRollback'
    <3>1. \A r \in Roller : rb[r].pc = "read" =>
            rb[r].blk = AncestorAt(db.tip.blk, rb[r].target)'
      BY <2>1 DEF RaceInv, RaceRollback, AncestorAt
    <3>2. \A r \in Roller : rb[r].pc = "loop" => Descending(db, known, rb[r])'
      BY <2>1, RaceNow DEF RaceInv, RaceRollback
    <3> QED BY <2>1, <3>1, <3>2 DEF RaceInv, RaceRollback
  <2>6. MemoryFollowsStore'
    BY <2>1 DEF RaceInv, MemoryFollowsStore
  <2> QED BY <2>2, <2>3, <2>4, <2>5, <2>6 DEF RaceInv
<1> QED
  BY <1>1, <1>2, <1>3, <1>4, <1>5, RaceApplyBlock, RaceRejectBatch, RaceCommitBatch,
     RacePublishBatch, RaceShutdown DEF Next, RollbackProgress

-----------------------------------------------------------------------------
(* On an honest tree with one goroutine that rolls back, whatever batches  *)
(* come between its reads, its lock and its caller's reset: when nobody is *)
(* at work the store is the image of the branch its chain state names.     *)
THEOREM RaceCorrect == ASSUME Racing PROVE Spec => []StoreIsBranchAtRest
<1>1. RaceInv => StoreIsBranchAtRest
  BY DEF RaceInv, RaceChain, StoreIsBranchAtRest, AtRest, NoRollbackRunning,
         NobodyRollsBack, HoldsLock
<1> QED BY RaceInit, RaceNext, <1>1, PTL DEF Spec

(* What RaceInv says of the store and the memory at rest.                  *)
LEMMA RaceAtRest ==
  ASSUME RaceInv, AtRest
  PROVE  /\ best = db.tip /\ best.blk \in Block /\ best.ht = Depth[best.blk]
         /\ Exact(db, best.blk) /\ known = Branch[best.blk]
<1>1. ~batch.done /\ NobodyRollsBack
  BY DEF AtRest, RaceInv, IndInv, IndBatch, NoRollbackRunning, NobodyRollsBack, HoldsLock
<1>2. best = db.tip
  BY <1>1 DEF RaceInv, MemoryFollowsStore
<1> QED BY <1>1, <1>2, RaceTip

(* In the same environment the best block is, at rest, the block the store *)
(* has at the best height: a rollback that went on from what it had read   *)
(* before a batch came in between does not leave the tip off the chain.    *)
THEOREM RaceTipOnChain == ASSUME Racing PROVE Spec => []TipOnChain
<1>1. RaceInv => TipOnChain
  <2> SUFFICES ASSUME RaceInv, AtRest PROVE db.hashAt[best.ht] = best.blk
    BY DEF TipOnChain
  <2> DEFINE e == best.blk
  <2>1. e \in Block /\ best.ht = Depth[e] /\ Exact(db, e)
    BY RaceAtRest
  <2> HIDE DEF e
  <2>2. e \in Branch[e] /\ Depth[e] \in Heights /\ Depth[e] <= Depth[e]
    BY <2>1, OnOwnBranch, HeightFacts, TreeAssumption
  <2>3. db.hashAt[Depth[e]] = AncestorAt(e, Depth[e])
    BY <2>1, <2>2, ExactHashes
  <2>4. AncestorAt(e, Depth[e]) = e
    BY <2>1, <2>2, AncestorUnique
  <2> QED BY <2>1, <2>3, <2>4 DEF e
<1> QED BY RaceInit, RaceNext, <1>1, PTL DEF Spec

(* And the knownBlocks cache answers as the hash index would: what the     *)
(* orphan clean-up deleted behind its back, cleanKnownBlocksAboveHeight    *)
(* forgets.                                                                *)
THEOREM RaceKnown == ASSUME Racing PROVE Spec => []KnownIsIndexed
<1>1. RaceInv => KnownIsIndexed
  <2> SUFFICES ASSUME RaceInv, AtRest
               PROVE  known = { b \in Block : db.heightOf[b] # NoHeight }
    BY DEF KnownIsIndexed
  <2> DEFINE e == best.blk
  <2>1. e \in Block /\ Exact(db, e) /\ known = Branch[e]
    BY RaceAtRest
  <2> HIDE DEF e
  <2> QED BY <2>1, ExactFacts
<1> QED BY RaceInit, RaceNext, <1>1, PTL DEF Spec

(* In the same environment the tip in memory is the stored one except      *)
(* between a batch's commit and its publication: the rollback that goes on *)
(* from a height of its own moves both together.                           *)
THEOREM RaceMemory == ASSUME Racing PROVE Spec => []MemoryFollowsStore
<1>1. RaceInv => MemoryFollowsStore
  BY DEF RaceInv
<1> QED BY RaceInit, RaceNext, <1>1, PTL DEF Spec

-----------------------------------------------------------------------------
(* The ledger of those who wait for the lock.                              *)

LEMMA SameUnspent ==
  \A b : /\ Seen!UnspentOn(b) = L!UnspentOn(b)
         /\ TxsOf(Branch[b]) \ Spends(Branch[b]) = Seen!UnspentOn(b)
BY DEF Seen!UnspentOn, Seen!TxsOf, Seen!Spends, L!UnspentOn, L!TxsOf, L!Spends, TxsOf, Spends

(* What is seen are a block and its unspent outputs.                       *)
SeenIsLedger == SeenTop \in Block /\ SeenUnspent = Seen!UnspentOn(SeenTop)

LEMMA SeenUnspentIs == RaceInv => SeenIsLedger
<1> SUFFICES ASSUME RaceInv
             PROVE  SeenTop \in Block /\ SeenUnspent = Seen!UnspentOn(SeenTop)
  BY DEF SeenIsLedger
<1>1. CASE RollingBack
  <2>1. PICK r \in Roller : HoldsLock(r) /\ Target = rb[r].blk
    BY <1>1 DEF RollingBack, Target
  <2>2. Descending(db, known, rb[r]) /\ rb[r].target \in Nat /\ rb[r].h \in Nat
    BY <2>1, RaceHolder
  <2>3. PICK e \in Block : /\ rb[r].h <= Depth[e] /\ rb[r].target <= rb[r].h
                           /\ rb[r].blk = AncestorAt(e, rb[r].target)
    BY <2>2 DEF Descending
  <2>4. rb[r].target \in 0 .. Depth[e]
    BY <2>2, <2>3, TreeAssumption
  <2>5. rb[r].blk \in Block
    BY <2>3, <2>4, AncestorFacts
  <2> QED BY <1>1, <2>1, <2>5, SameUnspent DEF SeenTop, SeenUnspent
<1>2. CASE ~RollingBack
  <2>1. NobodyRollsBack
    BY <1>2 DEF RollingBack, NobodyRollsBack
  <2>2. db.tip.blk \in Block /\ Exact(db, db.tip.blk)
    BY <2>1, RaceTip
  <2>3. Unspent = L!UnspentOn(db.tip.blk)
    BY <2>2, UnspentExact DEF Unspent
  <2> QED BY <1>2, <2>2, <2>3, SameUnspent DEF SeenTop, SeenUnspent
<1> QED BY <1>1, <1>2

(* With one goroutine that rolls back, who holds the lock says what the    *)
(* chain is.                                                               *)
LEMMA SeenBy ==
  ASSUME Racing, NEW r \in Roller
  PROVE  /\ HoldsLock(r) => SeenTop = rb[r].blk
         /\ ~HoldsLock(r) => SeenTop = db.tip.blk
         /\ HoldsLock(r)' => SeenTop' = rb'[r].blk
         /\ ~HoldsLock(r)' => SeenTop' = db'.tip.blk
<1>1. \A q \in Roller : q = r
  BY DEF Racing
<1>2. RollingBack => Target = rb[r].blk
  BY <1>1 DEF RollingBack, Target
<1>3. RollingBack' => Target' = rb'[r].blk
  BY <1>1 DEF RollingBack, Target
<1>4. (RollingBack <=> HoldsLock(r)) /\ (RollingBack' <=> HoldsLock(r)')
  BY <1>1 DEF RollingBack
<1> QED BY <1>2, <1>3, <1>4 DEF SeenTop

SeenMoves ==
  \/ SeenTop' = SeenTop
  \/ SeenTop \in Branch[SeenTop']
  \/ SeenTop' \in Branch[SeenTop]

(* Steps that leave the store and the rollback alone, or move the rollback *)
(* while it is outside the lock.                                           *)
LEMMA SeenStays ==
  ASSUME Racing, db' = db, \A r \in Roller : rb'[r] = rb[r] \/ (~HoldsLock(r) /\ ~HoldsLock(r)')
  PROVE  SeenMoves
<1>1. CASE Roller = {}
  BY <1>1 DEF SeenMoves, SeenTop, RollingBack
<1>2. ASSUME NEW r \in Roller PROVE SeenMoves
  BY SeenBy DEF SeenMoves, HoldsLock
<1> QED BY <1>1, <1>2

LEMMA SeenCommit == ASSUME RaceInv, Racing, CommitBatch PROVE SeenMoves
<1>1. /\ BatchRunning /\ ~batch.done /\ batch.next > Depth[batch.top]
      /\ db' = batch.view /\ rb' = rb
  <2>1. batch.next \in Nat /\ (batch.top # None => Depth[batch.top] \in Nat)
    BY TreeAssumption DEF RaceInv, IndInv, TypeOK, BatchState
  <2> QED BY <2>1 DEF CommitBatch, InLoop, BatchRunning
<1>2. batch.next = Depth[batch.top] + 1
  <2>1. batch.top \in Block /\ batch.next \in batch.from .. Depth[batch.top] + 1
        /\ batch.from \in 1 .. Depth[batch.top]
    BY <1>1 DEF RaceInv, IndInv, IndBatch, TypeOK, BatchState, BatchRunning
  <2>2. Depth[batch.top] \in Nat
    BY <2>1, TreeAssumption
  <2> QED BY <1>1, <2>1, <2>2
<1>3. /\ Exact(batch.view, batch.top) /\ best.blk \in Branch[batch.top] /\ NobodyRollsBack
  BY <1>1, <1>2, RaceDone
<1>4. db.tip.blk \in Branch[batch.top] /\ db'.tip.blk = batch.top
  BY <1>1, <1>3 DEF Exact, RaceInv, MemoryFollowsStore
<1>5. SeenTop = db.tip.blk /\ SeenTop' = db'.tip.blk
  BY <1>1, <1>3 DEF NobodyRollsBack, HoldsLock, SeenTop, RollingBack
<1> QED BY <1>4, <1>5 DEF SeenMoves

LEMMA SeenRolls == ASSUME RaceInv, Racing, NEW r \in Roller, RollbackProgress(r) PROVE SeenMoves
<1>1. CASE RollbackLock(r)
  <2>1. /\ rb[r].pc = "read" /\ ~HoldsLock(r) /\ rb' = [rb EXCEPT ![r].pc = "loop"]
        /\ rb \in [Roller -> RollbackState]
    BY <1>1 DEF RollbackLock, HoldsLock, RaceInv, IndInv, TypeOK
  <2>2. HoldsLock(r)' /\ rb'[r].blk = rb[r].blk
    BY <2>1 DEF HoldsLock, RollbackState
  <2>3. SeenTop = db.tip.blk /\ SeenTop' = rb[r].blk
    BY <2>1, <2>2, SeenBy
  <2>4. /\ rb[r].target <= rb[r].h /\ rb[r].h <= db.tip.ht
        /\ rb[r].blk = AncestorAt(db.tip.blk, rb[r].target)
    BY <2>1 DEF RaceInv, RaceRollback
  <2>5. db.tip.blk \in Block /\ db.tip.ht = Depth[db.tip.blk] /\ Depth[db.tip.blk] \in Nat
        /\ rb[r].target \in Nat /\ rb[r].h \in Nat
    BY <2>1, HeightFacts, TreeAssumption
       DEF RaceInv, IndInv, TypeOK, Store, Tips, RollbackState, WellIndexed, DepthsIn
  <2>6. rb[r].target \in 0 .. Depth[db.tip.blk]
    BY <2>4, <2>5
  <2> QED BY <2>3, <2>4, <2>5, <2>6, AncestorFacts DEF SeenMoves
<1>2. CASE RollbackSkip(r) \/ RollbackClean(r)
  <2>1. /\ HoldsLock(r) /\ rb \in [Roller -> RollbackState]
        /\ rb' = rb \/ rb' = [rb EXCEPT ![r].h = @ - 1]
    BY <1>2 DEF RollbackSkip, RollbackClean, InDescent, AtTarget, RaceInv, IndInv, TypeOK
  <2>2. HoldsLock(r)' /\ rb'[r].blk = rb[r].blk
    BY <2>1 DEF HoldsLock, RollbackState
  <2> QED BY <2>1, <2>2, SeenBy DEF SeenMoves
<1>3. CASE RollbackStep(r)
  <2> DEFINE b == db.hashAt[rb[r].h]
             n == Disconnected(db, b, db.heightOf[b])
             w == [rb[r] EXCEPT !.h = @ - 1]
  <2>1. InDescent(r) /\ HoldsLock(r) /\ rb \in [Roller -> RollbackState]
    BY <1>3 DEF RollbackStep, InDescent, RaceInv, IndInv, TypeOK
  <2>2. w.h = rb[r].h - 1 /\ w.target = rb[r].target /\ w.blk = rb[r].blk /\ w.pc = rb[r].pc
    BY <2>1 DEF RollbackState
  <2>3. Loadable(n, Parent[b]) => rb' = [rb EXCEPT ![r] = w]
    BY <1>3 DEF RollbackStep
  <2> HIDE DEF b, n, w
  <2>4. Loadable(n, Parent[b])
    BY <2>1, <2>2, RaceDescent DEF b, n
  <2>5. HoldsLock(r)' /\ rb'[r].blk = rb[r].blk
    BY <2>1, <2>2, <2>3, <2>4 DEF HoldsLock
  <2> QED BY <2>1, <2>5, SeenBy DEF SeenMoves
<1>4. CASE RollbackFail(r)
  <2> DEFINE b == db.hashAt[rb[r].h]
             n == Disconnected(db, b, db.heightOf[b])
             w == [h |-> rb[r].h - 1, target |-> rb[r].target, blk |-> rb[r].blk]
  <2>1. InDescent(r) /\ ~CanDisconnect(db, b)
    BY <1>4 DEF RollbackFail
  <2>2. w.h = rb[r].h - 1 /\ w.target = rb[r].target /\ w.blk = rb[r].blk
    OBVIOUS
  <2> HIDE DEF w
  <2> QED BY <2>1, <2>2, RaceDescent
<1>5. CASE RollbackFinish(r)
  <2> DEFINE new == IF rb[r].reset THEN [rb[r] EXCEPT !.pc = "reset"] ELSE NoRollback
  <2>1. /\ HoldsLock(r) /\ rb \in [Roller -> RollbackState] /\ db \in Store
        /\ db' = [db EXCEPT !.tip = [ht |-> rb[r].target, blk |-> rb[r].blk]]
        /\ rb' = [rb EXCEPT ![r] = new]
    BY <1>5 DEF RollbackFinish, AtTarget, RaceInv, IndInv, TypeOK
  <2>2. new.pc # "loop"
    BY <2>1 DEF RollbackState, NoRollback
  <2>3. ~HoldsLock(r)' /\ db'.tip.blk = rb[r].blk
    BY <2>1, <2>2 DEF HoldsLock, Store
  <2> QED BY <2>1, <2>3, SeenBy DEF SeenMoves
<1>6. CASE ResetChainState(r)
  <2>1. /\ rb[r].pc = "reset" /\ db' = db /\ rb' = [rb EXCEPT ![r] = NoRollback]
        /\ rb \in [Roller -> RollbackState]
    BY <1>6 DEF ResetChainState, RaceInv, IndInv, TypeOK
  <2>2. ~HoldsLock(r) /\ ~HoldsLock(r)'
    BY <2>1 DEF HoldsLock, NoRollback
  <2>3. \A q \in Roller : rb'[q] = rb[q] \/ (~HoldsLock(q) /\ ~HoldsLock(q)')
    BY <2>1, <2>2
  <2> QED BY <2>1, <2>3, SeenStays
<1> QED BY <1>1, <1>2, <1>3, <1>4, <1>5, <1>6 DEF RollbackProgress

LEMMA SeenNext == ASSUME Racing PROVE RaceInv /\ [Next]_vars => SeenMoves
<1> SUFFICES ASSUME RaceInv, [Next]_vars PROVE SeenMoves
  OBVIOUS
<1>1. ASSUME db' = db, rb' = rb PROVE SeenMoves
  BY <1>1, SeenStays
<1>2. ASSUME NEW first \in Block, NEW last \in Block, BeginBatch(first, last) PROVE SeenMoves
  BY <1>1, <1>2 DEF BeginBatch
<1>3. CASE ApplyBlock \/ RejectBatch \/ PublishBatch
  BY <1>1, <1>3 DEF ApplyBlock, RejectBatch, PublishBatch
<1>4. ASSUME NEW r \in Roller, NEW target \in Heights, NEW reset \in BOOLEAN,
             RollbackRead(r, target, reset)
      PROVE  SeenMoves
  <2>1. PICK w : w.pc = "read" /\ rb' = [rb EXCEPT ![r] = w]
    BY <1>4 DEF RollbackRead
  <2>2. /\ rb[r].pc = "idle" /\ db' = db /\ rb \in [Roller -> RollbackState]
    BY <1>4 DEF RollbackRead, RaceInv, IndInv, TypeOK
  <2>3. ~HoldsLock(r) /\ ~HoldsLock(r)'
    BY <2>1, <2>2 DEF HoldsLock
  <2>4. \A q \in Roller : rb'[q] = rb[q] \/ (~HoldsLock(q) /\ ~HoldsLock(q)')
    BY <2>1, <2>2, <2>3
  <2> QED BY <2>2, <2>4, SeenStays
<1>5. ~Crash /\ ~SyncFails
  BY DEF Crash, SyncFails, Racing
<1>6. CASE Shutdown
  <2>1. ~BatchRunning /\ ~batch.done /\ NobodyRollsBack
    BY <1>6 DEF Shutdown, AtRest, RaceInv, IndInv, IndBatch, NoRollbackRunning, NobodyRollsBack,
           HoldsLock
  <2>2. best = db.tip /\ db \in Store
    BY <2>1 DEF RaceInv, MemoryFollowsStore, IndInv, TypeOK
  <2>3. db' = db /\ rb' = NoRollbacks
    BY <1>6, <2>2 DEF Shutdown, Reload, Store
  <2>4. \A q \in Roller : ~HoldsLock(q) /\ ~HoldsLock(q)'
    BY <2>1, <2>3 DEF NobodyRollsBack, HoldsLock, NoRollbacks, NoRollback
  <2> QED BY <2>3, <2>4, SeenStays
<1>7. CASE UNCHANGED vars
  BY <1>1, <1>7 DEF vars
<1> QED BY <1>2, <1>3, <1>4, <1>5, <1>6, <1>7, SeenCommit, SeenRolls DEF Next, RollbackProgress

(* In the environment of one goroutine that rolls back and any number that *)
(* connect blocks meanwhile, the chain is a ledger to whoever takes the    *)
(* lock: a batch extends the branch by whole blocks, and a rollback, from  *)
(* the moment it has the lock, is one step back on the branch as it is     *)
(* then, with the unspent outputs that belong to its target.               *)
THEOREM RaceRefinesLedger == ASSUME Racing PROVE Spec => LockedLedgerSpec
<1>1. Init => Seen!Init
  <2> SUFFICES ASSUME Init PROVE Seen!Init
    OBVIOUS
  <2>1. RaceInv
    BY RaceInit
  <2>2. ~RollingBack /\ db.tip.blk = Genesis
    BY DEF Init, RollingBack, HoldsLock, NoRollbacks, NoRollback, GenesisStore
  <2>3. SeenTop = Genesis
    BY <2>2 DEF SeenTop
  <2> QED BY <2>1, <2>3, SeenUnspentIs DEF SeenIsLedger, Seen!Init
<1>2. RaceInv' => SeenIsLedger'
  BY SeenUnspentIs, PTL
<1>3. RaceInv /\ RaceInv' /\ SeenMoves => [Seen!Next]_<<SeenTop, SeenUnspent>>
  <2> SUFFICES ASSUME RaceInv, RaceInv', SeenMoves, <<SeenTop, SeenUnspent>>' # <<SeenTop, SeenUnspent>>
               PROVE  Seen!Next
    OBVIOUS
  <2>1. SeenTop \in Block /\ SeenUnspent = Seen!UnspentOn(SeenTop)
    BY SeenUnspentIs DEF SeenIsLedger
  <2>2. SeenTop' \in Block /\ SeenUnspent' = Seen!UnspentOn(SeenTop')
    BY <1>2 DEF SeenIsLedger, Seen!UnspentOn, Seen!TxsOf, Seen!Spends
  <2>3. SeenTop' # SeenTop
    BY <2>1, <2>2
  <2> QED BY <2>1, <2>2, <2>3 DEF SeenMoves, Seen!Next, Seen!Extend, Seen!Retract
<1> QED BY RaceInit, RaceNext, SeenNext, <1>1, <1>3, PTL DEF Spec, LockedLedgerSpec, Seen!Spec
==============================================================================
