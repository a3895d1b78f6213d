------------------------------- MODULE Ledger -------------------------------
(***************************************************************************)
(* What a chain store promises: there is one active branch, and the        *)
(* outputs that may be spent are those created on it and not spent on it.  *)
(* The branch grows by whole validated blocks, or shrinks; it never jumps  *)
(* from one fork to another in one step, and never mixes two.              *)
(***************************************************************************)
EXTENDS ChainTree

VARIABLES
  top,      \* the last block of the active branch
  unspent   \* the outputs that may be spent

UnspentOn(b) == TxsOf(Branch[b]) \ Spends(Branch[b])

Init == top = Genesis /\ unspent = UnspentOn(Genesis)

Extend ==
  \E b \in Block : /\ top \in Branch[b]
                   /\ b # top
                   /\ top' = b
                   /\ unspent' = UnspentOn(b)

Retract ==
  \E b \in Branch[top] : /\ b # top
                         /\ top' = b
                         /\ unspent' = UnspentOn(b)

Next == Extend \/ Retract

Spec == Init /\ [][Next]_<<top, unspent>>
=============================================================================
