---------------------------- MODULE MCChainStore ----------------------------
(***************************************************************************)
(* A block tree for TLC: two branches that fork above a1.                  *)
(*                                                                         *)
(*      g --- a1 --- a2 --- a3                                             *)
(*              \                                                          *)
(*               `-- b2 --- b3                                             *)
(*                                                                         *)
(* The transactions: c0, c1 and cb are coinbases; pay spends c1; change    *)
(* spends pay; stake and rival both spend c0.                              *)
(***************************************************************************)
EXTENDS ChainStore, FiniteSets, TLC

CONSTANTS g, a1, a2, a3, b2, b3, c0, c1, cb, pay, change, stake, rival, r1

MCBlock == {g, a1, a2, a3, b2, b3}
MCTx == {c0, c1, cb, pay, change, stake, rival}

MCParent ==
  [b \in MCBlock |->
     CASE b = g -> None [] b = a1 -> g [] b \in {a2, b2} -> a1
       [] b = a3 -> a2 [] b = b3 -> b2]

MCBranch ==
  LET up[n \in 0 .. Cardinality(MCBlock), b \in MCBlock] ==
        IF n = 0 \/ b = g THEN {b} ELSE {b} \union up[n - 1, MCParent[b]]
  IN [b \in MCBlock |-> up[Cardinality(MCBlock), b]]

MCDepth == [b \in MCBlock |-> Cardinality(MCBranch[b]) - 1]

MCIns ==
  [t \in MCTx |->
     CASE t \in {c0, c1, cb} -> {} [] t \in {stake, rival} -> {c0}
       [] t = pay -> {c1} [] t = change -> {pay}]

(* The forks compete: pay is on both, at different heights, and the output *)
(* of c0 is spent by different transactions.                               *)
RivalTxs ==
  [b \in MCBlock |->
     CASE b = g -> {} [] b = a1 -> {c0, c1} [] b = a2 -> {stake, pay}
       [] b = a3 -> {change} [] b = b2 -> {rival} [] b = b3 -> {pay, cb}]

(* The forks agree: pay is on both at the same height and nothing          *)
(* conflicts, so the store can hold both forks at once, and undoing one    *)
(* takes pay from the other, which then no longer loads.  a3 needs nothing *)
(* of its branch but its parent, and connects all the same.                *)
SharedTxs ==
  [b \in MCBlock |->
     CASE b = g -> {} [] b = a1 -> {c0, c1} [] b = a2 -> {stake, pay}
       [] b = a3 -> {cb} [] b = b2 -> {pay} [] b = b3 -> {change}]

(* Not an honest tree: a2 and a3 spend the output of c0.                   *)
TwiceTxs ==
  [b \in MCBlock |->
     CASE b = g -> {} [] b = a1 -> {c0, c1} [] b = a2 -> {stake}
       [] b = a3 -> {rival} [] b = b2 -> {cb} [] b = b3 -> {pay}]

(* What is assumed of the tree by the runs that expect an exact store.     *)
ASSUME BlockTxs \in {RivalTxs, SharedTxs} => HonestTree
=============================================================================
