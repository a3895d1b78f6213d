------------------------------ MODULE MCWallet ------------------------------
(***************************************************************************)
(* A chain and a wallet for TLC.                                           *)
(*                                                                         *)
(*      g --- a1 --- a2                                                    *)
(*              \                                                          *)
(*               `-- b2                                                    *)
(*                                                                         *)
(* cb is a coinbase of the wallet.  pay and rival both spend it; the     *)
(* outputs of pay and of child, which spends pay's, are the wallet's;    *)
(* rival's is the late address's.                                        *)
(***************************************************************************)
EXTENDS Wallet, TLC

CONSTANTS g, a1, a2, b2, cb, pay, child, rival, w1, w2

MCBlock == {g, a1, a2, b2}
MCTx == {cb, pay, child, rival}
MCOrdinary == {pay, child, rival}
MCEarly == {cb, pay, child}
MCLate == {rival}

MCParent ==
  [b \in MCBlock |-> CASE b = g -> None [] b = a1 -> g [] b \in {a2, b2} -> a1]
MCDepth == [b \in MCBlock |-> CASE b = g -> 0 [] b = a1 -> 1 [] b \in {a2, b2} -> 2]
MCBranch ==
  [b \in MCBlock |->
     CASE b = g -> {g} [] b = a1 -> {g, a1} [] b = a2 -> {g, a1, a2} [] b = b2 -> {g, a1, b2}]
MCIns ==
  [t \in MCTx |->
     CASE t = cb -> {} [] t \in {pay, rival} -> {cb} [] t = child -> {pay}]
MCBlockTxs ==
  [b \in MCBlock |->
     CASE b = g -> {} [] b = a1 -> {cb} [] b = a2 -> {pay} [] b = b2 -> {rival}]

Callers == Permutations(Caller)
=============================================================================
