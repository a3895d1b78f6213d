---------------------------- MODULE MCUtxoCache ----------------------------
(***************************************************************************)
(* A fork for TLC.                                                         *)
(*                                                                         *)
(*      g --- a1 --- a2 --- a3                                             *)
(*             \                                                           *)
(*              b2                                                         *)
(*                                                                         *)
(* coin is the coinbase of a1; pay spends it in a2 and, on the other       *)
(* branch, rival does in b2; change spends pay in a3.                      *)
(***************************************************************************)
EXTENDS UtxoCache, TLC

CONSTANTS g, a1, a2, a3, b2, coin, pay, rival, change, r1, r2

MCBlock == {g, a1, a2, a3, b2}
MCTx == {coin, pay, rival, change}

MCParent ==
  [b \in Block |-> CASE b = g -> None [] b = a1 -> g [] b \in {a2, b2} -> a1 [] b = a3 -> a2]
MCDepth == [b \in Block |-> CASE b = g -> 0 [] b = a1 -> 1 [] b \in {a2, b2} -> 2 [] b = a3 -> 3]
MCBranch ==
  [b \in Block |-> CASE b = g -> {g} [] b = a1 -> {g, a1} [] b = a2 -> {g, a1, a2}
                    [] b = b2 -> {g, a1, b2} [] b = a3 -> {g, a1, a2, a3}]

MCIns ==
  [t \in Tx |-> CASE t \in {pay, rival} -> {coin} [] t = change -> {pay} [] t = coin -> {}]

MCBlockTxs ==
  [b \in Block |-> CASE b = g -> {} [] b = a1 -> {coin} [] b = a2 -> {pay}
                    [] b = b2 -> {rival} [] b = a3 -> {change}]

Readers == Permutations(Reader)
===============================================================================
