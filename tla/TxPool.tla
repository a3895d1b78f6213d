------------------------------- MODULE TxPool -------------------------------
(***************************************************************************)
(* What a mempool above a chain promises to its users (block templates,    *)
(* the wallet, peers that ask for transactions): a set of transactions of  *)
(* which no two spend the same output, beside a ledger that goes its own   *)
(* way.  Transactions come in one by one and go in any number; a block is  *)
(* never waited for.                                                       *)
(***************************************************************************)
EXTENDS Ledger

CONSTANT Ordinary     \* what may be in the pool

VARIABLE pool

PoolInit == Init /\ pool = {}

(* A transaction comes in that is not there and spends nothing that        *)
(* another one of the pool spends.                                         *)
Enter ==
  /\ \E t \in Ordinary \ pool : /\ \A s \in pool : Ins[s] \intersect Ins[t] = {}
                                /\ pool' = pool \union {t}
  /\ UNCHANGED <<top, unspent>>

(* ... and what it spends may be spent at that instant.                    *)
EnterSpendable == Enter /\ \A t \in pool' \ pool : Ins[t] \subseteq unspent

Leave ==
  /\ \E gone \in SUBSET pool : pool' = pool \ gone
  /\ UNCHANGED <<top, unspent>>

ChainMoves == Next /\ pool' = pool

PoolSpec == PoolInit /\ [][ChainMoves \/ Enter \/ Leave]_<<top, unspent, pool>>

CheckedSpec == PoolInit /\ [][ChainMoves \/ EnterSpendable \/ Leave]_<<top, unspent, pool>>
=============================================================================
