----------------------------- MODULE MCMempool -----------------------------
(***************************************************************************)
(* A chain and its transactions for TLC.                                   *)
(*                                                                         *)
(*      g --- b1 --- b2 --- b3                                             *)
(*                                                                         *)
(* c1 and c2 are the coinbases of b1; pay and rival both spend c1; change  *)
(* spends pay; stake is the coinstake of b3, and spends c2, as does spend. *)
(* The small instance has neither b3 nor spend.                            *)
(***************************************************************************)
EXTENDS Mempool, TLC

CONSTANTS g, b1, b2, b3, c1, c2, pay, rival, change, stake, spend, p1, p2

MCBlock == {g, b1, b2, b3}
SmallBlock == {g, b1, b2}
MCTx == {c1, c2, pay, rival, change, stake, spend}
SmallTx == {c1, pay, rival, change}
MCOrdinary == {pay, rival, change, spend}
SmallOrdinary == {pay, rival, change}

MCParent == [b \in Block |-> CASE b = g -> None [] b = b1 -> g [] b = b2 -> b1 [] b = b3 -> b2]
MCDepth == [b \in Block |-> CASE b = g -> 0 [] b = b1 -> 1 [] b = b2 -> 2 [] b = b3 -> 3]
MCBranch == [b \in Block |-> { x \in Block : MCDepth[x] <= MCDepth[b] }]

MCIns ==
  [t \in Tx |->
     CASE t \in {pay, rival} -> {c1} [] t = change -> {pay} [] t \in {stake, spend} -> {c2}
       [] t \in {c1, c2} -> {}]

MCBlockTxs ==
  [b \in Block |->
     Tx \intersect
       CASE b = g -> {} [] b = b1 -> {c1, c2} [] b = b2 -> {pay} [] b = b3 -> {stake, change}]
MCLead == [b \in Block |-> MCBlockTxs[b] \intersect {c1, c2, stake}]

Adders == Permutations(Adder)
===============================================================================
