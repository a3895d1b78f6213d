------------------------------ MODULE ChainTree ------------------------------
(***************************************************************************)
(* The blocks and transactions the node may be sent.  A block is a model   *)
(* value; its header's PrevBlockHash is Parent, its transactions are       *)
(* BlockTxs.  Every transaction has one output, so an outpoint is the      *)
(* transaction that created it, and Ins[t] is the set of outpoints that t  *)
(* spends (empty for a coinbase).  Only what the chain store tells apart   *)
(* is kept: who is whose parent, which transaction is in which block, and  *)
(* which transaction spends which.                                         *)
(***************************************************************************)
EXTENDS Integers

CONSTANTS
  Block,      \* the blocks of the tree
  Genesis,    \* the network's genesis block
  Parent,     \* the block named by the header's PrevBlockHash
  Depth,      \* the height a block has by its ancestry
  Branch,     \* a block and all its ancestors
  Tx,         \* the transactions
  BlockTxs,   \* the transactions of a block
  Ins,        \* the outputs a transaction spends
  None        \* "no block", "no transaction"

Heights == { Depth[b] : b \in Block }

(* Facts of every finite tree, and of blocks that passed the per-block     *)
(* checks of validateTransactions (no output spent twice in one block).    *)
ASSUME TreeAssumption ==
  /\ Genesis \in Block
  /\ None \notin Block
  /\ None \notin Tx
  /\ Depth \in [Block -> Nat]
  /\ Parent \in [Block -> Block \union {None}]
  /\ Branch \in [Block -> SUBSET Block]
  /\ \A b \in Block : (Depth[b] = 0) <=> (b = Genesis)
  /\ Branch[Genesis] = {Genesis}
  /\ \A b \in Block \ {Genesis} :
       /\ Parent[b] \in Block
       /\ Depth[b] = Depth[Parent[b]] + 1
       /\ Branch[b] = Branch[Parent[b]] \union {b}
  /\ \A b \in Block : \A x \in Branch[b] :
       /\ Depth[x] <= Depth[b]
       /\ Branch[x] \subseteq Branch[b]
       /\ \A y \in Branch[b] : Depth[x] = Depth[y] => x = y
  /\ \A b \in Block : \A h \in 0..Depth[b] : \E x \in Branch[b] : Depth[x] = h

(* The genesis transaction is left out: its output is never recorded, so   *)
(* nothing can spend it.                                                   *)
ASSUME BlockAssumption ==
  /\ BlockTxs \in [Block -> SUBSET Tx]
  /\ Ins \in [Tx -> SUBSET Tx]
  /\ BlockTxs[Genesis] = {}
  /\ \A b \in Block : \A s, t \in BlockTxs[b] : s # t => Ins[s] \intersect Ins[t] = {}

(* The block of b's branch at height h.                                    *)
AncestorAt(b, h) == CHOOSE x \in Branch[b] : Depth[x] = h

TxsOf(S) == UNION { BlockTxs[b] : b \in S }
Spends(S) == UNION { Ins[t] : t \in TxsOf(S) }

(* On every branch a transaction is in one block and an output is spent by *)
(* one transaction: what a network that follows the rules serves.          *)
HonestTree ==
  \A b \in Block :
    /\ \A x, y \in Branch[b] : x # y => BlockTxs[x] \intersect BlockTxs[y] = {}
    /\ \A s, t \in TxsOf(Branch[b]) : s # t => Ins[s] \intersect Ins[t] = {}
===============================================================================
