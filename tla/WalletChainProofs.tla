-------------------------- MODULE WalletChainProofs --------------------------
(***************************************************************************)
(* The wallet and the chain, for any honest tree.  What is confirmed is    *)
(* not pending, in every environment, the late callbacks and the hasty     *)
(* shutdowns included; pending state follows the mempool when callbacks    *)
(* are not late; the view is that of the chain unless a shutdown is hasty. *)
(*                                                                         *)
(* The argument for the first: a transaction in the mempool or in a        *)
(* callback was not on the chain when it got there.  The batch that        *)
(* confirms it says so in history, if it touches the wallet, before        *)
(* another callback has mu; and what makes it touch the wallet later, a    *)
(* pending output that Look saw, is by then an output on the chain.        *)
(***************************************************************************)
EXTENDS WalletProofs

(* The chain that the wallet was told of.                                  *)
ToldTop == IF note.kind = "connect" /\ note.pc = "wallet" THEN best ELSE top
Told == TxsOf(Branch[ToldTop])

(* What a notification is about.                                           *)
NoteFits ==
  /\ note.kind = "none" => note = NoNote /\ best = top
  /\ note.kind = "connect" =>
       /\ best \in Branch[top] /\ note.blocks = Branch[top] \ Branch[best]
       /\ note.pc \in {"wallet", "height", "pool", "evict"}
  /\ note.kind = "disconnect" =>
       /\ best = top
       /\ note.pc \in {"wallet", "height"}
       /\ \E b \in Block \ {Genesis} : top = Parent[b] /\ note.blocks = {b}

(* The addresses whose transactions history has.                           *)
Scanned == Early \union (IF imported /\ scan = "idle" THEN Late ELSE {})

(* The transactions that callbacks are about, now or later: those of the   *)
(* mempool, and those on the way into it.                                  *)
Live == pool \union { caller[c].tx :
                       c \in { d \in Caller : caller[d].pc \in {"insert", "look", "track"} } }

HistoryTells ==
  \A t \in Live \intersect Told :
    t \in Scanned \/ Ins[t] \intersect Present # {} => history[t] = "confirmed"

SnapsArePresent ==
  \A c \in Caller : /\ caller[c].snap \subseteq Ours
                    /\ caller[c].snap \intersect Told \subseteq Present

NotPending == pending \intersect Told = {}

PendInv == Inv /\ NoteFits /\ HistoryTells /\ SnapsArePresent /\ NotPending

-----------------------------------------------------------------------------
(* Branches.                                                               *)

LEMMA TreeHas ==
  /\ Genesis \in Block /\ None \notin Block /\ None \notin Tx
  /\ Branch \in [Block -> SUBSET Block]
  /\ BlockTxs \in [Block -> SUBSET Tx]
  /\ Ins \in [Tx -> SUBSET Tx]
  /\ Ordinary \subseteq Tx /\ Early \subseteq Tx /\ Late \subseteq Tx
  /\ \A t \in Ordinary : Ins[t] # {}
BY TreeAssumption, BlockAssumption, WalletAssumption

LEMMA InBranch ==
  ASSUME NEW b \in Block, NEW t
  PROVE  t \in TxsOf(Branch[b]) <=> \E x \in Branch[b] : t \in BlockTxs[x]
BY DEF TxsOf

(* A branch that goes through a has a's transactions and its own.          *)
LEMMA BranchGrows ==
  ASSUME NEW b \in Block, NEW a \in Branch[b]
  PROVE  /\ a \in Block
         /\ TxsOf(Branch[b]) = TxsOf(Branch[a]) \union TxsOf(Branch[b] \ Branch[a])
         /\ TxsOf(Branch[a]) \intersect TxsOf(Branch[b] \ Branch[a]) = {}
<1>1. a \in Block /\ Branch[a] \subseteq Branch[b]
  BY TreeAssumption
<1>2. \A x, y \in Branch[b] : x # y => BlockTxs[x] \intersect BlockTxs[y] = {}
  BY WalletAssumption DEF HonestTree
<1> QED BY <1>1, <1>2 DEF TxsOf

LEMMA InOwnBranch == \A a \in Block : a \in Branch[a]
<1>1. ASSUME NEW a \in Block PROVE a \in Branch[a]
  <2>1. CASE a = Genesis
    BY <2>1, TreeAssumption
  <2>2. CASE a # Genesis
    BY <2>2, TreeAssumption
  <2> QED BY <2>1, <2>2
<1> QED BY <1>1

LEMMA ParentBranch ==
  ASSUME NEW b \in Block \ {Genesis}
  PROVE  /\ Parent[b] \in Block /\ Parent[b] \in Branch[b]
         /\ Branch[b] \ Branch[Parent[b]] = {b}
<1>1. /\ Parent[b] \in Block /\ Branch[b] = Branch[Parent[b]] \union {b}
      /\ Depth[b] = Depth[Parent[b]] + 1 /\ Depth[b] \in Nat /\ Depth[Parent[b]] \in Nat
  BY TreeAssumption
<1>2. Parent[b] \in Branch[Parent[b]]
  BY <1>1, InOwnBranch
<1>3. b \notin Branch[Parent[b]]
  <2>1. \A x \in Branch[Parent[b]] : Depth[x] <= Depth[Parent[b]]
    BY <1>1, TreeAssumption
  <2> QED BY <1>1, <2>1
<1> QED BY <1>1, <1>2, <1>3

(* What is on a branch has its inputs there.                               *)
LEMMA InputsBelow ==
  ASSUME NEW b \in Block, NEW t \in TxsOf(Branch[b])
  PROVE  Ins[t] \subseteq TxsOf(Branch[b])
<1>1. PICK x \in Branch[b] : t \in BlockTxs[x]
  BY InBranch
<1>2. x \in Block /\ Branch[x] \subseteq Branch[b]
  BY TreeAssumption
<1>3. Ins[t] \subseteq TxsOf(Branch[x])
  BY <1>1, <1>2, WalletAssumption DEF Sourced
<1> QED BY <1>2, <1>3 DEF TxsOf

-----------------------------------------------------------------------------
(* The notification.                                                       *)

LEMMA ToldFacts ==
  ASSUME PendInv
  PROVE  /\ ToldTop \in Block /\ ToldTop \in Branch[top]
         /\ top \in Block /\ best \in Block
         /\ Told \subseteq TxsOf(Branch[top])
<1>1. top \in Block /\ best \in Block
  BY DEF PendInv, Inv, Typed, ChainTypes
<1>2. ToldTop \in Block /\ ToldTop \in Branch[top]
  BY <1>1, InOwnBranch DEF ToldTop, PendInv, NoteFits
<1>3. Branch[ToldTop] \subseteq Branch[top]
  BY <1>1, <1>2, TreeAssumption
<1> QED BY <1>1, <1>2, <1>3 DEF Told, TxsOf

LEMMA InitPendInv == Init => PendInv
<1> SUFFICES ASSUME Init PROVE PendInv
  OBVIOUS
<1>1. NoteFits
  BY DEF Init, NoteFits, NoNote
<1>2. Live = {}
  BY DEF Init, Live, NoCall
<1>3. SnapsArePresent
  BY DEF Init, SnapsArePresent, NoCall
<1>4. HistoryTells /\ NotPending
  BY <1>2 DEF Init, HistoryTells, NotPending
<1> QED BY <1>1, <1>3, <1>4, InitInv DEF PendInv

(* Neither the chain nor the wallet's tables change.                       *)
LEMMA TablesStill ==
  ASSUME PendInv, Inv', UNCHANGED chainVars, UNCHANGED viewVars,
         Live' \intersect Told \subseteq Live,
         pending' \intersect Told = {},
         \A c \in Caller : \/ caller'[c].snap \subseteq caller[c].snap
                           \/ caller'[c].snap \subseteq Ours /\ caller'[c].snap \intersect Told = {}
  PROVE  PendInv'
<1>1. NoteFits' /\ Told' = Told /\ Present' = Present /\ Ours' = Ours /\ Scanned' = Scanned
  BY DEF chainVars, viewVars, PendInv, NoteFits, Told, ToldTop, Present, Ours, OursOf, Scanned
<1>2. HistoryTells'
  BY <1>1 DEF PendInv, HistoryTells, viewVars
<1>3. SnapsArePresent'
  BY <1>1 DEF PendInv, SnapsArePresent
<1>4. NotPending'
  BY <1>1 DEF NotPending
<1> QED BY <1>1, <1>2, <1>3, <1>4 DEF PendInv

(* Entering and leaving a callback.                                        *)
LEMMA CallLive ==
  ASSUME NEW c \in Caller, NEW t, NEW again, NEW stage, CallTypes, Call(c, stage, t, again)
  PROVE  /\ Live' \subseteq Live \union pool' \union {t}
         /\ stage = "submit" => Live' \subseteq Live \union pool'
         /\ \A d \in Caller : caller'[d].snap \subseteq caller[d].snap
BY DEF Call, Live, NoCall, CallTypes, CallRecord

LEMMA NoCallLive ==
  ASSUME NEW c \in Caller, CallTypes, caller' = [caller EXCEPT ![c] = NoCall]
  PROVE  /\ Live' \subseteq Live \union pool'
         /\ \A d \in Caller : caller'[d].snap \subseteq caller[d].snap
BY DEF Live, NoCall, CallTypes, CallRecord

LEMMA ReturnLive ==
  ASSUME NEW c \in Caller, CallTypes, caller[c].pc \in {"look", "track"}, Return(c), pool' = pool
  PROVE  /\ Live' \subseteq Live
         /\ \A d \in Caller : caller'[d].snap \subseteq caller[d].snap
BY DEF Return, Live, NoCall, CallTypes, CallRecord

(* What the mempool admits is not on the chain.                            *)
LEMMA AdmittedIsNew ==
  ASSUME PendInv, NEW t \in Ordinary, Admissible(t)
  PROVE  t \notin Told
<1>1. PICK o \in Ins[t] : o \notin Spends(Branch[top])
  BY TreeHas DEF Admissible
<1>2. t \notin TxsOf(Branch[top])
  BY <1>1 DEF Spends
<1> QED BY <1>2, ToldFacts

LEMMA AcceptPends == ASSUME NEW c \in Caller, PendInv, Accept(c), Inv' PROVE PendInv'
<1>1. PICK t \in Ordinary : Admissible(t) /\ Call(c, "insert", t, FALSE)
  BY DEF Accept
<1>2. t \notin Told
  BY <1>1, AdmittedIsNew
<1>3. Live' \subseteq Live \union {t} /\ \A d \in Caller : caller'[d].snap \subseteq caller[d].snap
  BY <1>1, CallLive DEF Accept, poolVars, PendInv, Inv, Typed, Live
<1>4. UNCHANGED chainVars /\ UNCHANGED viewVars /\ pending' \intersect Told = {}
  BY DEF Accept, pendVars, PendInv, NotPending
<1> QED BY <1>2, <1>3, <1>4, TablesStill

LEMMA InsertPends == ASSUME NEW c \in Caller, PendInv, Insert(c), Inv' PROVE PendInv'
<1> DEFINE t == caller[c].tx
<1>1. CallTypes /\ t \in Live /\ pool \subseteq Live /\ pool' \subseteq pool \union {t}
  BY DEF Insert, PendInv, Inv, Typed, Live
<1>2. Live' \subseteq Live /\ \A d \in Caller : caller'[d].snap \subseteq caller[d].snap
  <2>1. CASE Call(c, "look", t, caller[c].again)
    BY <1>1, <2>1, CallLive
  <2>2. CASE caller' = [caller EXCEPT ![c] = NoCall]
    BY <1>1, <2>2, NoCallLive
  <2> QED BY <2>1, <2>2 DEF Insert
<1>3. UNCHANGED chainVars /\ UNCHANGED viewVars /\ pending' \intersect Told = {}
  BY DEF Insert, pendVars, PendInv, NotPending
<1> QED BY <1>2, <1>3, TablesStill

LEMMA SelectPends == ASSUME NEW c \in Caller, PendInv, Select(c), Inv' PROVE PendInv'
<1>1. Live' \subseteq Live /\ \A d \in Caller : caller'[d].snap \subseteq caller[d].snap
  BY CallLive DEF Select, poolVars, Live, PendInv, Inv, Typed
<1>2. UNCHANGED chainVars /\ UNCHANGED viewVars /\ pending' \intersect Told = {}
  BY DEF Select, pendVars, PendInv, NotPending
<1> QED BY <1>1, <1>2, TablesStill

LEMMA SubmitPends == ASSUME NEW c \in Caller, PendInv, Submit(c), Inv' PROVE PendInv'
<1> DEFINE t == caller[c].tx
<1>1. t \in Ordinary /\ CallTypes /\ pool' = pool /\ pool \subseteq Live
  BY DEF Submit, poolVars, PendInv, Inv, Typed, CallTypes, Live
<1>2. UNCHANGED chainVars /\ UNCHANGED viewVars /\ pending' \intersect Told = {}
  BY DEF Submit, pendVars, PendInv, NotPending
<1>3. CASE Admissible(t) /\ Call(c, "insert", t, TRUE)
  <2>1. t \notin Told
    BY <1>1, <1>3, AdmittedIsNew
  <2>2. Live' \subseteq Live \union {t} /\ \A d \in Caller : caller'[d].snap \subseteq caller[d].snap
    BY <1>1, <1>3, CallLive
  <2> QED BY <2>1, <2>2, <1>2, TablesStill
<1>4. CASE t \in pool /\ Call(c, "look", t, FALSE)
  <2>1. Live' \subseteq Live /\ \A d \in Caller : caller'[d].snap \subseteq caller[d].snap
    BY <1>1, <1>4, CallLive
  <2> QED BY <2>1, <1>2, TablesStill
<1>5. CASE caller' = [caller EXCEPT ![c] = NoCall]
  <2>1. Live' \subseteq Live /\ \A d \in Caller : caller'[d].snap \subseteq caller[d].snap
    BY <1>1, <1>5, NoCallLive
  <2> QED BY <2>1, <1>2, TablesStill
<1> QED BY <1>3, <1>4, <1>5 DEF Submit

LEMMA LookPends == ASSUME NEW c \in Caller, PendInv, Look(c), Inv' PROVE PendInv'
<1>1. /\ caller[c].pc = "look" /\ CallTypes /\ pool' = pool
      /\ UNCHANGED chainVars /\ UNCHANGED viewVars /\ pending' \intersect Told = {}
  BY DEF Look, poolVars, pendVars, PendInv, Inv, Typed, NotPending
<1>2. CASE Return(c)
  BY <1>1, <1>2, ReturnLive, TablesStill
<1>3. CASE caller' = [caller EXCEPT ![c].pc = "track", ![c].snap = pendOuts]
  <2>1. Live' \subseteq Live
    BY <1>1, <1>3 DEF Live, CallTypes, CallRecord
  <2>2. pendOuts \subseteq pending /\ pendOuts \subseteq Ours /\ pending \intersect Told = {}
    BY DEF PendInv, Inv, MarksHaveOwners, NotPending
  <2>3. \A d \in Caller : \/ caller'[d].snap \subseteq caller[d].snap
                          \/ caller'[d].snap = pendOuts
    BY <1>1, <1>3 DEF CallTypes, CallRecord
  <2> QED BY <1>1, <2>1, <2>2, <2>3, TablesStill
<1> QED BY <1>2, <1>3 DEF Look

(* The moment of the property: t touches the wallet as it is now, mu is    *)
(* held, and history does not have it.                                     *)
LEMMA TrackPends == ASSUME NEW c \in Caller, PendInv, Track(c), Inv' PROVE PendInv'
<1> DEFINE t == caller[c].tx
<1>1. /\ caller[c].pc = "track" /\ CallTypes /\ t \in Ordinary /\ t \in Live
      /\ pool' = pool /\ Return(c) /\ scan = "idle"
      /\ UNCHANGED chainVars /\ UNCHANGED viewVars
  BY DEF Track, poolVars, PendInv, Inv, Typed, CallTypes, Live, MuFree
<1>2. pending' \intersect Told = {}
  <2>1. CASE UNCHANGED pendVars
    BY <2>1 DEF pendVars, PendInv, NotPending
  <2>2. CASE Touches(t, Present \union caller[c].snap) /\ history[t] # "confirmed" /\ Reserve(t)
    <3>1. ASSUME t \in Told PROVE FALSE
      <4>1. Ins[t] \subseteq Told
        BY <3>1, InputsBelow, ToldFacts DEF Told
      <4>2. Ins[t] \intersect caller[c].snap \subseteq Present
        BY <4>1 DEF PendInv, SnapsArePresent
      <4>3. t \in Scanned \/ Ins[t] \intersect Present # {}
        BY <2>2, <4>2, <1>1 DEF Touches, Ours, OursOf, Scanned
      <4> QED BY <4>3, <3>1, <1>1, <2>2 DEF PendInv, HistoryTells
    <3> QED BY <3>1, <2>2 DEF Reserve, PendInv, NotPending
  <2> QED BY <2>1, <2>2 DEF Track
<1> QED BY <1>1, <1>2, ReturnLive, TablesStill

LEMMA ExpirePends == PendInv /\ Expire /\ Inv' => PendInv'
<1> SUFFICES ASSUME PendInv, Expire, Inv' PROVE PendInv'
  OBVIOUS
<1>1. Live' \subseteq Live
  BY DEF Expire, Live
<1>2. UNCHANGED chainVars /\ UNCHANGED viewVars /\ caller' = caller /\ pending' \intersect Told = {}
  BY DEF Expire, pendVars, PendInv, NotPending
<1> QED BY <1>1, <1>2, TablesStill

LEMMA SnapshotPends == PendInv /\ (Snapshot \/ UNCHANGED vars) /\ Inv' => PendInv'
<1> SUFFICES ASSUME PendInv, Snapshot \/ UNCHANGED vars, Inv' PROVE PendInv'
  OBVIOUS
<1>1. UNCHANGED chainVars /\ UNCHANGED viewVars /\ caller' = caller
  BY DEF Snapshot, vars
<1>2. Live' = Live /\ pending' \intersect Told = {}
  BY DEF Snapshot, vars, poolVars, pendVars, Live, PendInv, NotPending
<1> QED BY <1>1, <1>2, TablesStill

-----------------------------------------------------------------------------
(* Blocks.                                                                 *)

(* The chain moves, but not what the wallet was told of.                   *)
LEMMA TablesStand ==
  ASSUME PendInv, Inv', NoteFits', UNCHANGED viewVars, caller' = caller,
         Told' \subseteq Told, Live' \subseteq Live, pending' \subseteq pending
  PROVE  PendInv'
<1>1. Present' = Present /\ Ours' = Ours /\ Scanned' = Scanned /\ history' = history
  BY DEF viewVars, Present, Ours, OursOf, Scanned
<1>2. HistoryTells'
  BY <1>1 DEF PendInv, HistoryTells
<1>3. SnapsArePresent'
  BY <1>1 DEF PendInv, SnapsArePresent
<1>4. NotPending'
  BY DEF PendInv, NotPending
<1> QED BY <1>2, <1>3, <1>4 DEF PendInv

LEMMA CommitPends == PendInv /\ Commit /\ Inv' => PendInv'
<1> SUFFICES ASSUME PendInv, Commit, Inv' PROVE PendInv'
  OBVIOUS
<1>1. /\ note = NoNote /\ best = top /\ best' = best /\ note'.kind = "connect" /\ note'.pc = "wallet"
      /\ top \in Branch[top'] /\ note'.blocks = Branch[top'] \ Branch[top]
  <2>1. note = NoNote
    BY DEF Commit, Processing
  <2>2. best = top
    BY <2>1 DEF NoNote, PendInv, NoteFits
  <2> QED BY <2>1, <2>2 DEF Commit, NoNote
<1>2. NoteFits'
  BY <1>1 DEF NoteFits
<1>3. Told' = Told
  BY <1>1 DEF Told, ToldTop
<1>4. UNCHANGED viewVars /\ caller' = caller /\ pending' = pending /\ Live' = Live
  BY DEF Commit, poolVars, pendVars, Live
<1> QED BY <1>2, <1>3, <1>4, TablesStand

LEMMA NotifyBlocksPends == PendInv /\ NotifyBlocks /\ Inv' => PendInv'
<1> SUFFICES ASSUME PendInv, NotifyBlocks, Inv' PROVE PendInv'
  OBVIOUS
<1> DEFINE txs == TxsOf(note.blocks)
           found == Present \union (txs \intersect Ours)
<1>1. /\ note.kind = "connect" /\ note.pc = "wallet" /\ scan = "idle" /\ scan' = scan
      /\ best \in Branch[top] /\ note.blocks = Branch[top] \ Branch[best]
      /\ top' = top /\ best' = best /\ note' = [note EXCEPT !.pc = "height"]
      /\ imported' = imported /\ caller' = caller /\ pool' = pool
  BY DEF NotifyBlocks, MuFree, PendInv, NoteFits, poolVars
<1>2. NoteFits'
  <2>1. note'.kind = "connect" /\ note'.pc = "height" /\ note'.blocks = note.blocks
    BY <1>1 DEF PendInv, Inv, Typed, ChainTypes
  <2> QED BY <2>1, <1>1 DEF NoteFits
<1>3. Told = TxsOf(Branch[best]) /\ Told' = TxsOf(Branch[top])
  BY <1>1 DEF Told, ToldTop, PendInv, Inv, Typed, ChainTypes
<1>4. Told' = Told \union txs /\ Told \intersect txs = {}
  <2>1. top \in Block
    BY DEF PendInv, Inv, Typed, ChainTypes
  <2> QED BY <1>1, <1>3, <2>1, BranchGrows
<1>5. Live' = Live /\ Scanned' = Scanned /\ Scanned = Ours /\ Ours' = Ours
  BY <1>1 DEF Live, Scanned, Ours, OursOf
<1>6. Present' = found
  BY <1>5, TreeHas DEF NotifyBlocks, Present, TxsOf, Ours, OursOf
<1>7. HistoryTells'
  <2> SUFFICES ASSUME NEW t \in Live, t \in Told', t \in Ours \/ Ins[t] \intersect found # {}
               PROVE  history'[t] = "confirmed"
    BY <1>5, <1>6 DEF HistoryTells
  <2>1. t \in Tx
    BY TreeHas DEF Live, PendInv, Inv, Typed, PoolTypes, CallTypes
  <2>2. CASE t \in txs
    BY <2>1, <2>2 DEF NotifyBlocks, Touches
  <2>3. CASE t \notin txs
    <3>1. t \in Told
      BY <2>3, <1>4
    <3>2. Ins[t] \subseteq Told
      BY <3>1, <1>3, InputsBelow DEF PendInv, Inv, Typed, ChainTypes
    <3>3. Ins[t] \intersect found \subseteq Present
      BY <3>2, <1>4
    <3>4. history[t] = "confirmed"
      BY <3>1, <3>3, <1>5 DEF PendInv, HistoryTells
    <3> QED BY <2>1, <2>3, <3>4 DEF NotifyBlocks
  <2> QED BY <2>2, <2>3
<1>8. SnapsArePresent'
  BY <1>1, <1>4, <1>5, <1>6 DEF PendInv, SnapsArePresent
<1>9. NotPending'
  <2>1. pending' = pending \ txs
    BY DEF NotifyBlocks, Forget
  <2> QED BY <2>1, <1>4 DEF PendInv, NotPending
<1> QED BY <1>2, <1>7, <1>8, <1>9 DEF PendInv

LEMMA SetHeightPends == PendInv /\ SetHeight /\ Inv' => PendInv'
<1> SUFFICES ASSUME PendInv, SetHeight, Inv' PROVE PendInv'
  OBVIOUS
<1>1. /\ note.pc = "height" /\ top' = top /\ best' = best
      /\ note' = IF note.kind = "connect" THEN [note EXCEPT !.pc = "pool"] ELSE NoNote
  BY DEF SetHeight
<1>2. note.kind \in {"none", "connect", "disconnect"} /\ NoNote.pc = "idle" /\ NoNote.kind = "none"
  BY DEF NoNote, PendInv, Inv, Typed, ChainTypes
<1>3. NoteFits' /\ Told' = Told
  <2>1. CASE note.kind = "connect"
    <3>1. note'.kind = "connect" /\ note'.pc = "pool" /\ note'.blocks = note.blocks
      BY <1>1, <2>1 DEF PendInv, Inv, Typed, ChainTypes
    <3> QED BY <1>1, <2>1, <3>1 DEF PendInv, NoteFits, Told, ToldTop
  <2>2. CASE note.kind # "connect"
    <3>1. note' = NoNote /\ best = top
      BY <1>1, <1>2, <2>2 DEF PendInv, NoteFits
    <3> QED BY <1>1, <1>2, <2>2, <3>1 DEF NoteFits, Told, ToldTop
  <2> QED BY <2>1, <2>2
<1>4. Present' = Present /\ Ours' = Ours /\ Scanned' = Scanned /\ Live' = Live
  BY DEF SetHeight, poolVars, Present, Ours, OursOf, Scanned, Live
<1>5. HistoryTells' /\ SnapsArePresent'
  BY <1>3, <1>4 DEF SetHeight, PendInv, HistoryTells, SnapsArePresent
<1>6. NotPending'
  BY <1>3 DEF SetHeight, pendVars, PendInv, NotPending
<1> QED BY <1>3, <1>5, <1>6 DEF PendInv

LEMMA RemoveConfirmedPends == PendInv /\ RemoveConfirmed /\ Inv' => PendInv'
<1> SUFFICES ASSUME PendInv, RemoveConfirmed, Inv' PROVE PendInv'
  OBVIOUS
<1>1. /\ note.pc = "pool" /\ top' = top /\ best' = best
      /\ note'.kind = note.kind /\ note'.pc = "evict" /\ note'.blocks = note.blocks
  BY DEF RemoveConfirmed, PendInv, Inv, Typed, ChainTypes
<1>2. NoteFits' /\ Told' = Told
  BY <1>1 DEF PendInv, NoteFits, Told, ToldTop, NoNote
<1>3. UNCHANGED viewVars /\ caller' = caller /\ pending' = pending /\ Live' \subseteq Live
  BY DEF RemoveConfirmed, pendVars, Live
<1> QED BY <1>2, <1>3, TablesStand

LEMMA PublishPends == PendInv /\ Publish /\ Inv' => PendInv'
<1> SUFFICES ASSUME PendInv, Publish, Inv' PROVE PendInv'
  OBVIOUS
<1>1. note.pc = "evict" /\ top' = top /\ best' = top /\ note' = NoNote
  BY DEF Publish
<1>2. NoteFits' /\ Told' = Told
  BY <1>1 DEF NoteFits, Told, ToldTop, NoNote
<1>3. UNCHANGED viewVars /\ caller' = caller /\ pending' = pending /\ Live' = Live
  BY DEF Publish, poolVars, pendVars, Live
<1> QED BY <1>2, <1>3, TablesStand

LEMMA DisconnectPends == PendInv /\ Disconnect /\ Inv' => PendInv'
<1> SUFFICES ASSUME PendInv, Disconnect, Inv' PROVE PendInv'
  OBVIOUS
<1>1. /\ note = NoNote /\ top \in Block \ {Genesis} /\ top' = Parent[top] /\ best' = Parent[top]
      /\ note'.kind = "disconnect" /\ note'.pc = "wallet" /\ note'.blocks = {top}
  BY DEF Disconnect, Processing, NoNote, PendInv, Inv, Typed, ChainTypes
<1>2. NoteFits'
  BY <1>1 DEF NoteFits
<1>3. Told = TxsOf(Branch[top]) /\ Told' = TxsOf(Branch[Parent[top]])
  BY <1>1 DEF Told, ToldTop, NoNote
<1>4. Told' \subseteq Told
  <2>1. Branch[top] = Branch[Parent[top]] \union {top}
    BY <1>1, TreeAssumption
  <2> QED BY <1>3, <2>1 DEF TxsOf
<1>5. UNCHANGED viewVars /\ caller' = caller /\ pending' = pending /\ Live' = Live
  BY DEF Disconnect, poolVars, pendVars, Live
<1> QED BY <1>2, <1>4, <1>5, TablesStand

LEMMA NotifyBlockDisconnectedPends == PendInv /\ NotifyBlockDisconnected /\ Inv' => PendInv'
<1> SUFFICES ASSUME PendInv, NotifyBlockDisconnected, Inv' PROVE PendInv'
  OBVIOUS
<1> DEFINE txs == TxsOf(note.blocks)
<1>1. /\ note.kind = "disconnect" /\ note.pc = "wallet" /\ top' = top /\ best' = best
      /\ note'.kind = "disconnect" /\ note'.pc = "height" /\ note'.blocks = note.blocks
  BY DEF NotifyBlockDisconnected, PendInv, Inv, Typed, ChainTypes
<1>2. NoteFits' /\ Told' = Told /\ Told = TxsOf(Branch[top])
  BY <1>1 DEF PendInv, NoteFits, Told, ToldTop
<1>3. Told \intersect txs = {}
  <2>1. PICK b \in Block \ {Genesis} : top = Parent[b] /\ note.blocks = {b}
    BY <1>1 DEF PendInv, NoteFits
  <2>2. Parent[b] \in Branch[b] /\ Branch[b] \ Branch[Parent[b]] = {b}
    BY <2>1, ParentBranch
  <2> QED BY <1>2, <2>1, <2>2, BranchGrows
<1>4. Ours' = Ours /\ Scanned' = Scanned /\ Live' = Live /\ caller' = caller
  BY DEF NotifyBlockDisconnected, poolVars, Ours, OursOf, Scanned, Live
<1>5. Present' \subseteq Present /\ Present \intersect Told \subseteq Present'
  BY <1>3, TreeHas DEF NotifyBlockDisconnected, Present
<1>6. \A t \in Told : t \in Tx => history'[t] = history[t]
  BY <1>3 DEF NotifyBlockDisconnected
<1>7. HistoryTells'
  <2>1. Live \subseteq Tx
    BY TreeHas DEF Live, PendInv, Inv, Typed, PoolTypes, CallTypes
  <2> QED BY <1>2, <1>4, <1>5, <1>6, <2>1 DEF PendInv, HistoryTells
<1>8. SnapsArePresent'
  BY <1>2, <1>4, <1>5 DEF PendInv, SnapsArePresent
<1>9. NotPending'
  BY <1>2 DEF NotifyBlockDisconnected, Forget, PendInv, NotPending
<1> QED BY <1>2, <1>7, <1>8, <1>9 DEF PendInv

(* An eviction writes of history only what is absent.                      *)
LEMMA EvictTells ==
  ASSUME PendInv, Inv', NEW t, EvictPendingTx(t), NoteFits', Told' = Told,
         caller' = caller, pool' = pool
  PROVE  PendInv'
<1>1. Present' = Present /\ Ours' = Ours /\ Scanned' = Scanned /\ Live' = Live
  BY DEF EvictPendingTx, Present, Ours, OursOf, Scanned, Live
<1>2. Live \subseteq Tx
  BY TreeHas DEF Live, PendInv, Inv, Typed, PoolTypes, CallTypes
<1>3. HistoryTells'
  BY <1>1, <1>2 DEF EvictPendingTx, PendInv, HistoryTells
<1>4. SnapsArePresent'
  BY <1>1 DEF PendInv, SnapsArePresent
<1>5. NotPending'
  BY DEF EvictPendingTx, Forget, PendInv, NotPending
<1> QED BY <1>3, <1>4, <1>5 DEF PendInv

LEMMA EvictsPend == PendInv /\ (EvictConfirmed \/ EvictExpired) /\ Inv' => PendInv'
<1> SUFFICES ASSUME PendInv, EvictConfirmed \/ EvictExpired, Inv' PROVE PendInv'
  OBVIOUS
<1>1. /\ \E t : EvictPendingTx(t)
      /\ caller' = caller /\ pool' = pool /\ top' = top /\ best' = best
      /\ note'.kind = note.kind /\ note'.pc = note.pc /\ note'.blocks = note.blocks
      /\ note.pc = "evict" \/ note' = note
  BY DEF EvictConfirmed, EvictExpired, poolVars, chainVars, PendInv, Inv, Typed, ChainTypes
<1>2. NoteFits' /\ Told' = Told
  BY <1>1 DEF PendInv, NoteFits, Told, ToldTop, NoNote
<1> QED BY <1>1, <1>2, EvictTells

-----------------------------------------------------------------------------
(* Import, stop and start.                                                 *)

LEMMA ImportPends == PendInv /\ Import /\ Inv' => PendInv'
<1> SUFFICES ASSUME PendInv, Import, Inv' PROVE PendInv'
  OBVIOUS
<1>1. NoteFits' /\ Told' = Told
  BY DEF Import, chainVars, PendInv, NoteFits, Told, ToldTop
<1>2. Present' = Present /\ Ours \subseteq Ours' /\ Scanned' = Scanned /\ Live' = Live
  BY DEF Import, poolVars, Present, Ours, OursOf, Scanned, Live
<1>3. HistoryTells' /\ SnapsArePresent' /\ NotPending'
  BY <1>1, <1>2 DEF Import, pendVars, PendInv, HistoryTells, SnapsArePresent, NotPending
<1> QED BY <1>1, <1>3 DEF PendInv

(* What the scan finds is unspent, so it makes nothing on the chain touch  *)
(* the wallet.                                                             *)
LEMMA ScanCoinsPends == PendInv /\ ScanCoins /\ Inv' => PendInv'
<1> SUFFICES ASSUME PendInv, ScanCoins, Inv' PROVE PendInv'
  OBVIOUS
<1>1. NoteFits' /\ Told' = Told
  BY DEF ScanCoins, chainVars, PendInv, NoteFits, Told, ToldTop
<1>2. Ours' = Ours /\ Scanned' = Scanned /\ Live' = Live
  BY DEF ScanCoins, poolVars, Ours, OursOf, Scanned, Live
<1>3. Present \subseteq Present' /\ \A o \in Present' : o \in Present \/ o \notin Spends(Branch[top])
  BY DEF ScanCoins, Present
<1>4. \A t \in Told : Ins[t] \subseteq Spends(Branch[top])
  BY ToldFacts DEF Spends
<1>5. HistoryTells'
  BY <1>1, <1>2, <1>3, <1>4 DEF ScanCoins, PendInv, HistoryTells
<1>6. SnapsArePresent'
  BY <1>1, <1>2, <1>3 DEF ScanCoins, PendInv, SnapsArePresent
<1>7. NotPending'
  BY <1>1 DEF ScanCoins, pendVars, PendInv, NotPending
<1> QED BY <1>1, <1>5, <1>6, <1>7 DEF PendInv

LEMMA ScanHistoryPends == PendInv /\ ScanHistory /\ Inv' => PendInv'
<1> SUFFICES ASSUME PendInv, ScanHistory, Inv' PROVE PendInv'
  OBVIOUS
<1>1. NoteFits' /\ Told' = Told
  BY DEF ScanHistory, chainVars, PendInv, NoteFits, Told, ToldTop
<1>2. Ours' = Ours /\ Present' = Present /\ Live' = Live /\ Scanned' \subseteq Scanned \union Late
  BY DEF ScanHistory, poolVars, Ours, OursOf, Present, Scanned, Live
<1>3. HistoryTells'
  <2>1. Live \subseteq Tx
    BY TreeHas DEF Live, PendInv, Inv, Typed, PoolTypes, CallTypes
  <2>2. Told \subseteq TxsOf(Branch[top])
    BY ToldFacts
  <2> QED BY <1>1, <1>2, <2>1, <2>2 DEF ScanHistory, PendInv, HistoryTells
<1>4. SnapsArePresent' /\ NotPending'
  BY <1>1, <1>2 DEF ScanHistory, pendVars, PendInv, SnapsArePresent, NotPending
<1> QED BY <1>1, <1>3, <1>4 DEF PendInv

(* Nothing is pending, and nothing is in a callback.                       *)
LEMMA RestartsPend == PendInv /\ (Crash \/ SaveAndStop) /\ Inv' => PendInv'
<1> SUFFICES ASSUME PendInv, Crash \/ SaveAndStop, Inv' PROVE PendInv'
  OBVIOUS
<1>1. /\ note' = NoNote /\ best' = top' /\ pool' = {} /\ pending' = {}
      /\ caller' = [c \in Caller |-> NoCall]
  BY DEF Crash, SaveAndStop, Start
<1>2. NoteFits'
  BY <1>1 DEF NoteFits, NoNote
<1>3. Live' = {} /\ \A c \in Caller : caller'[c].snap = {}
  BY <1>1 DEF Live, NoCall
<1>4. HistoryTells' /\ SnapsArePresent' /\ NotPending'
  BY <1>1, <1>3 DEF HistoryTells, SnapsArePresent, NotPending
<1> QED BY <1>2, <1>4 DEF PendInv

LEMMA NextPends == PendInv /\ [Next]_vars => PendInv'
<1> SUFFICES ASSUME PendInv, [Next]_vars PROVE PendInv'
  OBVIOUS
<1>0. Inv'
  BY NextKeeps DEF PendInv
<1>1. CASE Commit \/ NotifyBlocks \/ SetHeight \/ RemoveConfirmed \/ EvictConfirmed \/ Publish
           \/ Disconnect \/ NotifyBlockDisconnected
  BY <1>0, <1>1, CommitPends, NotifyBlocksPends, SetHeightPends, RemoveConfirmedPends, EvictsPend,
     PublishPends, DisconnectPends, NotifyBlockDisconnectedPends
<1>2. CASE \E c \in Caller : Accept(c) \/ Insert(c) \/ Select(c) \/ Submit(c) \/ Look(c) \/ Track(c)
  BY <1>0, <1>2, AcceptPends, InsertPends, SelectPends, SubmitPends, LookPends, TrackPends
<1>3. CASE Expire \/ EvictExpired \/ Import \/ ScanCoins \/ ScanHistory
  BY <1>0, <1>3, ExpirePends, EvictsPend, ImportPends, ScanCoinsPends, ScanHistoryPends
<1>4. CASE Crash \/ SaveAndStop \/ Snapshot \/ UNCHANGED vars
  BY <1>0, <1>4, RestartsPend, SnapshotPends
<1> QED BY <1>1, <1>2, <1>3, <1>4 DEF Next

LEMMA PendingInv == Spec => []PendInv
BY InitPendInv, NextPends, PTL DEF Spec

(* Between commits no transaction of the chain is pending, whenever the    *)
(* callback that would have made it so looked and acted, and whatever the  *)
(* wallet was loaded from.                                                 *)
THEOREM NoConfirmedPending == Spec => []ConfirmedNotPending
<1>1. PendInv => ConfirmedNotPending
  <2> SUFFICES ASSUME PendInv, Settled PROVE pending \intersect TxsOf(Branch[top]) = {}
    BY DEF ConfirmedNotPending
  <2>1. Told = TxsOf(Branch[top])
    BY DEF Settled, Processing, NoNote, Told, ToldTop
  <2> QED BY <2>1 DEF PendInv, NotPending
<1> QED BY <1>1, PendingInv, PTL

-----------------------------------------------------------------------------
(* Without late callbacks.  What is in the mempool, or has left it and is  *)
(* still to be evicted, has no conflicts: nothing enters before the last   *)
(* eviction is over.  So what an eviction sets free nobody else had, and   *)
(* what a callback reserves nobody else has.                               *)
Waiting == pool \union removed \union note.todo

LateInv ==
  /\ note.todo # {} => note.pc = "evict"
  /\ "late" \notin env =>
       /\ pending \subseteq Waiting
       /\ \A s, t \in Waiting : s # t => Ins[s] \intersect Ins[t] = {}
       /\ \A c \in Caller : caller[c].pc \in {"look", "track"} => caller[c].tx \in pool
       /\ \A t \in pending : \A o \in Ins[t] : pendSpent[o] = t

LEMMA InitLate == Init => LateInv
BY DEF Init, LateInv, NoNote, NoCall, Waiting

(* Only the end of what is pending, or nothing of it, and of the mempool.  *)
LEMMA ForgetLate ==
  ASSUME Inv, LateInv, NEW S, Forget(S), env' = env, caller' = caller, pool' = pool,
         note'.todo # {} => note'.pc = "evict",
         Waiting' \subseteq Waiting, Waiting \ S \subseteq Waiting'
  PROVE  LateInv'
<1> SUFFICES ASSUME "late" \notin env
             PROVE  /\ pending' \subseteq Waiting'
                    /\ \A t \in pending' : \A o \in Ins[t] : pendSpent'[o] = t
  BY DEF LateInv
<1>1. pending' = pending \ S /\ pending \subseteq Waiting /\ pending \subseteq Tx
  BY TreeHas DEF Forget, LateInv, Inv, Typed, PendTypes
<1>2. ASSUME NEW t \in pending', NEW o \in Ins[t] PROVE pendSpent'[o] = t
  <2>1. o \in Tx /\ pendSpent[o] = t
    BY <1>1, TreeHas DEF LateInv
  <2>2. \A s \in S \intersect pending : o \notin Ins[s]
    BY <1>1 DEF LateInv
  <2> QED BY <2>1, <2>2 DEF Forget
<1> QED BY <1>1, <1>2

LEMMA StillLate ==
  ASSUME LateInv, UNCHANGED pendVars, env' = env, note'.todo # {} => note'.pc = "evict",
         Waiting' = Waiting, pool' = pool,
         \A c \in Caller : caller'[c].pc \in {"look", "track"} =>
            \/ caller[c].pc \in {"look", "track"} /\ caller'[c].tx = caller[c].tx
            \/ caller'[c].tx \in pool
  PROVE  LateInv'
BY DEF LateInv, pendVars

(* The mempool changes, with no callback under way.                        *)
LEMMA PoolMoves ==
  ASSUME LateInv, MayChangePool, UNCHANGED pendVars, env' = env,
         note'.todo # {} => note'.pc = "evict",
         Waiting' = Waiting, caller' = caller
  PROVE  LateInv'
BY DEF LateInv, pendVars, MayChangePool, CallbacksDone, CallsDone

LEMMA PoolGrows ==
  ASSUME Inv, LateInv, NEW c \in Caller, Insert(c)
  PROVE  LateInv'
<1> DEFINE t == caller[c].tx
<1>0. /\ UNCHANGED <<chainVars, removed, pendVars, env>> /\ MayChangePool
      /\ caller[c].pc = "insert" /\ caller \in [Caller -> CallRecord]
  BY DEF Insert, nodeVars, Inv, Typed, CallTypes
<1> SUFFICES ASSUME "late" \notin env
             PROVE  /\ pending' \subseteq Waiting'
                    /\ \A s, u \in Waiting' : s # u => Ins[s] \intersect Ins[u] = {}
                    /\ \A d \in Caller : caller'[d].pc \in {"look", "track"} => caller'[d].tx \in pool'
  BY <1>0 DEF LateInv, pendVars, chainVars
<1>1. Waiting = pool /\ Waiting' = pool'
  BY <1>0 DEF MayChangePool, CallbacksDone, Waiting, chainVars
<1>2. \A d \in Caller : caller[d].pc \notin {"look", "track"}
  BY <1>0 DEF MayChangePool, CallbacksDone, CallsDone
<1>3. CASE (\A s \in pool : Ins[s] \intersect Ins[t] = {}) /\ pool' = pool \union {t}
           /\ Call(c, "look", t, caller[c].again)
  <2>1. \A d \in Caller : caller'[d].pc \in {"look", "track"} => caller'[d].tx = t
    BY <1>0, <1>2, <1>3 DEF Call, NoCall, CallRecord
  <2> QED BY <1>0, <1>1, <1>3, <2>1 DEF LateInv, pendVars
<1>4. CASE pool' = pool /\ caller' = [caller EXCEPT ![c] = NoCall]
  <2>1. \A d \in Caller : caller'[d].pc \notin {"look", "track"}
    BY <1>0, <1>2, <1>4 DEF NoCall, CallRecord
  <2> QED BY <1>0, <1>1, <1>4, <2>1 DEF LateInv, pendVars
<1> QED BY <1>3, <1>4 DEF Insert

LEMMA FirstIsEvicted == ASSUME NEW t PROVE t \in pending => t \in Evicted(t)
BY DEF Evicted

LEMMA NextLate == Inv /\ LateInv /\ [Next]_vars => LateInv'
<1> SUFFICES ASSUME Inv, LateInv, [Next]_vars PROVE LateInv'
  OBVIOUS
<1>1. CASE Commit \/ Disconnect
  <2>1. note.todo = {} /\ note'.todo = {}
    BY <1>1 DEF Commit, Disconnect, Processing, NoNote
  <2>2. Waiting' = Waiting
    BY <1>1, <2>1 DEF Commit, Disconnect, poolVars, Waiting
  <2> QED BY <1>1, <2>1, <2>2, StillLate DEF Commit, Disconnect, poolVars, nodeVars
<1>2. CASE NotifyBlocks \/ NotifyBlockDisconnected
  <2>1. note'.todo = note.todo /\ note.todo = {}
    BY <1>2 DEF NotifyBlocks, NotifyBlockDisconnected, LateInv, Inv, Typed, ChainTypes
  <2>2. Waiting' = Waiting
    BY <1>2, <2>1 DEF NotifyBlocks, NotifyBlockDisconnected, poolVars, Waiting
  <2> QED BY <1>2, <2>1, <2>2, ForgetLate DEF NotifyBlocks, NotifyBlockDisconnected, poolVars, nodeVars
<1>3. CASE SetHeight \/ Publish
  <2>1. note'.todo = {} /\ note.todo = {}
    BY <1>3 DEF SetHeight, Publish, NoNote, LateInv, Inv, Typed, ChainTypes
  <2>2. Waiting' = Waiting
    BY <1>3, <2>1 DEF SetHeight, Publish, poolVars, Waiting
  <2> QED BY <1>3, <2>1, <2>2, StillLate DEF SetHeight, Publish, poolVars, nodeVars
<1>4. CASE RemoveConfirmed
  <2>1. note.todo = {} /\ note'.todo \subseteq pool /\ pool' = pool \ note'.todo /\ note'.pc = "evict"
    BY <1>4 DEF RemoveConfirmed, LateInv, Inv, Typed, ChainTypes
  <2>2. Waiting' = Waiting
    BY <1>4, <2>1 DEF RemoveConfirmed, Waiting
  <2> QED BY <1>4, <2>1, <2>2, PoolMoves DEF RemoveConfirmed, nodeVars
<1>5. CASE Expire
  <2>1. Waiting' = Waiting /\ note' = note
    BY <1>5 DEF Expire, chainVars, Waiting
  <2> QED BY <1>5, <2>1, PoolMoves DEF Expire, nodeVars, LateInv
<1>6. CASE EvictConfirmed
  <2>1. PICK t \in note.todo : EvictPendingTx(t) /\ note' = [note EXCEPT !.todo = @ \ {t}]
    BY <1>6 DEF EvictConfirmed
  <2>2. note'.todo = note.todo \ {t} /\ note'.pc = "evict"
    BY <1>6, <2>1 DEF EvictConfirmed, Inv, Typed, ChainTypes
  <2>3. Forget(Evicted(t))
    BY <2>1 DEF EvictPendingTx
  <2>5. Forget(Evicted(t) \union {t})
    BY <2>3, FirstIsEvicted DEF Forget
  <2>6. Waiting' \subseteq Waiting /\ Waiting \ (Evicted(t) \union {t}) \subseteq Waiting'
    BY <1>6, <2>2 DEF EvictConfirmed, poolVars, Waiting
  <2> QED BY <1>6, <2>2, <2>5, <2>6, ForgetLate DEF EvictConfirmed, poolVars, nodeVars
<1>7. CASE EvictExpired
  <2>1. PICK t \in removed : EvictPendingTx(t) /\ removed' = removed \ {t}
    BY <1>7 DEF EvictExpired
  <2>2. Forget(Evicted(t)) /\ note' = note
    BY <1>7, <2>1 DEF EvictExpired, EvictPendingTx, chainVars
  <2>3. Forget(Evicted(t) \union {t})
    BY <2>2, FirstIsEvicted DEF Forget
  <2>4. Waiting' \subseteq Waiting /\ Waiting \ (Evicted(t) \union {t}) \subseteq Waiting'
    BY <1>7, <2>1, <2>2 DEF EvictExpired, Waiting
  <2> QED BY <1>7, <2>2, <2>3, <2>4, ForgetLate DEF EvictExpired, nodeVars, LateInv
<1>8. ASSUME NEW c \in Caller, Accept(c) \/ Insert(c) \/ Select(c) \/ Submit(c) \/ Look(c) \/ Track(c) PROVE LateInv'
  <2>0. /\ caller \in [Caller -> CallRecord] /\ note' = note /\ env' = env /\ removed' = removed
        /\ note'.todo # {} => note'.pc = "evict"
    BY <1>8 DEF Accept, Insert, Select, Submit, Look, Track, chainVars, poolVars, nodeVars, Inv, Typed, CallTypes, LateInv
  <2>1. CASE Accept(c) \/ Select(c) \/ Submit(c)
    <3>1. Waiting' = Waiting /\ pool' = pool /\ UNCHANGED pendVars
      BY <2>0, <2>1 DEF Accept, Select, Submit, poolVars, Waiting
    <3>2. CASE \E t \in Ordinary, stage \in {"submit", "insert"}, again \in BOOLEAN :
                 Call(c, stage, t, again)
      BY <2>0, <3>1, <3>2, StillLate DEF Call, NoCall, CallRecord
    <3>3. CASE caller[c].tx \in pool /\ Call(c, "look", caller[c].tx, FALSE)
      BY <2>0, <3>1, <3>3, StillLate DEF Call, NoCall, CallRecord
    <3>4. CASE caller' = [caller EXCEPT ![c] = NoCall]
      BY <2>0, <3>1, <3>4, StillLate DEF NoCall, CallRecord
    <3>5. Submit(c) => caller[c].tx \in Ordinary
      BY DEF Submit, Inv, Typed, CallTypes
    <3> QED BY <2>1, <3>2, <3>3, <3>4, <3>5 DEF Accept, Select, Submit
  <2>2. CASE Insert(c)
    BY <2>2, PoolGrows
  <2>4. CASE Look(c)
    <3>1. Waiting' = Waiting /\ pool' = pool
      BY <2>4, <2>0 DEF Look, poolVars, Waiting
    <3>2. \A d \in Caller : caller'[d].pc \in {"look", "track"} =>
             caller[d].pc \in {"look", "track"} /\ caller'[d].tx = caller[d].tx
      <4>1. CASE Return(c)
        BY <2>0, <2>4, <4>1 DEF Look, Return, NoCall, CallRecord
      <4>2. CASE caller' = [caller EXCEPT ![c].pc = "track", ![c].snap = pendOuts]
        BY <2>0, <2>4, <4>2 DEF Look, CallRecord
      <4> QED BY <2>4, <4>1, <4>2 DEF Look
    <3>3. UNCHANGED pendVars
      BY <2>4 DEF Look
    <3> QED BY <2>0, <3>1, <3>2, <3>3, StillLate
  <2>5. CASE Track(c)
    <3>1. Waiting' = Waiting /\ pool' = pool
      BY <2>5, <2>0 DEF Track, poolVars, Waiting
    <3>2. CASE UNCHANGED pendVars
      BY <2>0, <2>5, <3>1, <3>2, StillLate DEF Track, Return, NoCall, CallRecord
    <3>3. CASE Reserve(caller[c].tx)
      <4> DEFINE t == caller[c].tx
      <4> SUFFICES ASSUME "late" \notin env PROVE LateInv'
        BY <2>0 DEF LateInv
      <4>1. t \in pool /\ pending \subseteq Tx /\ t \in Tx
        BY <2>5, TreeHas DEF Track, LateInv, Inv, Typed, PoolTypes, PendTypes
      <4>2. \A d \in Caller : caller'[d].pc \in {"look", "track"} => caller'[d].tx \in pool
        BY <2>0, <2>5, <4>1 DEF Track, Return, NoCall, CallRecord, LateInv
      <4>3. pending' = pending \union {t} /\ pending' \subseteq Waiting'
        BY <3>1, <3>3, <4>1 DEF Reserve, LateInv, Waiting
      <4>4. ASSUME NEW s \in pending', NEW o \in Ins[s] PROVE pendSpent'[o] = s
        <5>1. o \in Tx
          BY <4>1, <4>3, TreeHas
        <5>2. pendSpent'[o] = IF o \in Ins[t] THEN t ELSE pendSpent[o]
          BY <3>3, <5>1 DEF Reserve
        <5>3. CASE s = t
          BY <5>2, <5>3
        <5>4. CASE s # t
          <6>1. s \in pending /\ s \in Waiting /\ t \in Waiting
            BY <4>1, <4>3, <5>4 DEF LateInv, Waiting
          <6> QED BY <5>2, <5>4, <6>1 DEF LateInv
        <5> QED BY <5>3, <5>4
      <4> QED BY <2>0, <3>1, <4>2, <4>3, <4>4 DEF LateInv
    <3> QED BY <2>5, <3>2, <3>3 DEF Track
  <2> QED BY <1>8, <2>1, <2>2, <2>4, <2>5
<1>9. CASE Import \/ ScanCoins \/ ScanHistory \/ Snapshot \/ UNCHANGED vars
  <2>1. UNCHANGED pendVars /\ env' = env /\ UNCHANGED chainVars /\ UNCHANGED poolVars /\ caller' = caller
    BY <1>9 DEF Import, ScanCoins, ScanHistory, Snapshot, vars, nodeVars
  <2>2. Waiting' = Waiting /\ note' = note /\ pool' = pool
    BY <2>1 DEF Waiting, chainVars, poolVars
  <2> QED BY <2>1, <2>2, StillLate DEF LateInv
<1>10. CASE Crash \/ SaveAndStop
  BY <1>10 DEF Crash, SaveAndStop, Start, LateInv, Waiting, NoNote, NoCall
<1> QED BY <1>1, <1>2, <1>3, <1>4, <1>5, <1>6, <1>7, <1>8, <1>9, <1>10 DEF Next

(* When the callbacks of a change of the mempool are over before the next, *)
(* pending state is the mempool's, with everything it spends reserved.     *)
THEOREM PendingIsPooled == Spec => []PendingFollowsPool
<1>1. LateInv => PendingFollowsPool
  BY DEF LateInv, PendingFollowsPool, CallbacksDone, Waiting
<1> QED BY <1>1, InitLate, NextLate, WalletInv, PTL DEF Spec

-----------------------------------------------------------------------------
(* The view.  Before a notification has reached the wallet its tables are  *)
(* those of the chain before (Before), or, where an import has scanned in  *)
(* the meantime, of the chain after.  What both agree on they have right.  *)

Unspent(S) == TxsOf(S) \ Spends(S)

BatchPends == note.kind = "connect" /\ note.pc = "wallet"
UndoPends == note.kind = "disconnect" /\ note.pc = "wallet"

Before ==
  IF BatchPends THEN Branch[best]
  ELSE IF UndoPends THEN Branch[top] \union note.blocks ELSE Branch[top]

(* The addresses whose outputs are in utxos.                               *)
CoinScanned == Early \union (IF imported /\ scan # "coins" THEN Late ELSE {})

Sound ==
  /\ Present \subseteq Ours
  /\ \A o \in Tx : coins[o] = "unspent" => o \in Unspent(Before) \union Unspent(Branch[top])
  /\ \A t \in Tx : history[t] = "confirmed" =>
       Touches(t, Ours) /\ t \in TxsOf(Before) \union TxsOf(Branch[top])

BaseFits == base \in Branch[top] \/ (UndoPends /\ base \in note.blocks)

CoinsKnown ==
  CoinScanned \intersect TxsOf(Before) \intersect TxsOf(Branch[top])
    \subseteq Present \union Spends(Branch[base])

CoinsThere ==
  \A o \in CoinScanned \intersect Unspent(Before) \intersect Unspent(Branch[top]) : coins[o] = "unspent"

HistoryThere ==
  \A t \in TxsOf(Before) \intersect TxsOf(Branch[top]) :
    t \in Scanned \/ Ins[t] \intersect Scanned # {} => history[t] = "confirmed"

(* What the blocks to come spend of ours the wallet will recognise, or the *)
(* import's second scan finds, or has found, the spender.                  *)
SpendersKnown ==
  BatchPends =>
    \A t \in TxsOf(note.blocks) : \A o \in Ins[t] \intersect Ours \intersect TxsOf(Branch[best]) :
      o \in Present \/ history[t] = "confirmed" \/ (o \in Late /\ scan # "idle")

Complete == base # None => BaseFits /\ CoinsKnown /\ CoinsThere /\ HistoryThere /\ SpendersKnown

HeightFits ==
  height = IF note.kind = "connect" /\ note.pc \in {"wallet", "height"} THEN Depth[best]
           ELSE IF note.kind = "disconnect" THEN Depth[top] + 1 ELSE Depth[top]

(* A file has the view of its block.                                       *)
Fits(f) ==
  LET ours == OursOf(f.imported)
      chain == Branch[f.best]
  IN  f.best # None =>
        /\ \A o \in Tx : f.coins[o] # "absent" => o \in ours
        /\ \A o \in Tx : f.coins[o] = "unspent" => o \in Unspent(chain)
        /\ \A t \in Tx : f.history[t] = "confirmed" =>
             t \in TxsOf(chain) /\ (t \in ours \/ Ins[t] \intersect ours # {})
        /\ f.base # None =>
             /\ f.base \in chain
             /\ \A o \in ours \intersect TxsOf(chain) :
                  f.coins[o] # "absent" \/ o \in Spends(Branch[f.base])
             /\ \A o \in ours \intersect Unspent(chain) : f.coins[o] = "unspent"
             /\ \A t \in TxsOf(chain) :
                  t \in ours \/ Ins[t] \intersect ours # {} => f.history[t] = "confirmed"

(* From the snapshot to the start nothing moves.                           *)
FilesFit ==
  /\ Fits(file)
  /\ shot # NoFile =>
       /\ Fits(shot) /\ shot.best = top /\ shot.imported = imported
       /\ best = top /\ note = NoNote /\ scan = "idle"

ScanFits == scan # "idle" => imported

ViewInv == Sound /\ Complete /\ HeightFits /\ FilesFit /\ ScanFits

(* The sets that a step from a to b above it is about.                     *)
Steps(a, b) ==
  LET new == Branch[b] \ Branch[a]
  IN  /\ TxsOf(Branch[b]) = TxsOf(Branch[a]) \union TxsOf(new)
      /\ TxsOf(Branch[a]) \intersect TxsOf(new) = {}
      /\ Spends(Branch[b]) = Spends(Branch[a]) \union Spends(new)
      /\ Spends(Branch[a]) \intersect Spends(new) = {}
      /\ Spends(Branch[a]) \subseteq TxsOf(Branch[a])
      /\ Spends(Branch[b]) \subseteq TxsOf(Branch[b])
      /\ TxsOf(Branch[b]) \subseteq Tx
      /\ Branch[a] \subseteq Branch[b]

LEMMA StepSets ==
  ASSUME NEW b \in Block, NEW a \in Branch[b]
  PROVE  Steps(a, b)
<1> DEFINE new == Branch[b] \ Branch[a]
<1>1. a \in Block /\ Branch[a] \subseteq Branch[b]
  BY TreeAssumption
<1>2. TxsOf(Branch[b]) = TxsOf(Branch[a]) \union TxsOf(new) /\ TxsOf(Branch[a]) \intersect TxsOf(new) = {}
  BY BranchGrows
<1>3. Spends(Branch[b]) = Spends(Branch[a]) \union Spends(new)
  BY <1>2 DEF Spends
<1>4. \A s, t \in TxsOf(Branch[b]) : s # t => Ins[s] \intersect Ins[t] = {}
  BY WalletAssumption DEF HonestTree
<1>5. ASSUME NEW o \in Spends(Branch[a]), o \in Spends(new) PROVE FALSE
  <2>1. PICK s \in TxsOf(Branch[a]) : o \in Ins[s]
    BY <1>5 DEF Spends
  <2>2. PICK t \in TxsOf(new) : o \in Ins[t]
    BY <1>5 DEF Spends
  <2>3. s \in TxsOf(Branch[b]) /\ t \in TxsOf(Branch[b]) /\ s # t
    BY <1>2, <2>1, <2>2
  <2> QED BY <1>4, <2>1, <2>2, <2>3
<1>6. Spends(Branch[a]) \subseteq TxsOf(Branch[a]) /\ Spends(Branch[b]) \subseteq TxsOf(Branch[b])
  BY <1>1, InputsBelow DEF Spends
<1>7. TxsOf(Branch[b]) \subseteq Tx
  BY TreeHas DEF TxsOf
<1> QED BY <1>1, <1>2, <1>3, <1>5, <1>6, <1>7 DEF Steps

LEMMA BranchSets ==
  ASSUME NEW b \in Block
  PROVE  Spends(Branch[b]) \subseteq TxsOf(Branch[b]) /\ TxsOf(Branch[b]) \subseteq Tx
<1>1. Spends(Branch[b]) \subseteq TxsOf(Branch[b])
  BY InputsBelow DEF Spends
<1>2. TxsOf(Branch[b]) \subseteq Tx
  BY TreeHas DEF TxsOf
<1> QED BY <1>1, <1>2

(* What the chain was before, and is after, a notification.                *)
LEMMA ConnectSets ==
  ASSUME PendInv, BatchPends
  PROVE  /\ Before = Branch[best] /\ note.blocks = Branch[top] \ Branch[best]
         /\ best \in Branch[top] /\ top \in Block
BY DEF BatchPends, Before, PendInv, NoteFits, Inv, Typed, ChainTypes

LEMMA DisconnectSets ==
  ASSUME PendInv, UndoPends
  PROVE  \E b \in Block \ {Genesis} :
           /\ top = Parent[b] /\ top \in Branch[b]
           /\ note.blocks = {b} /\ note.blocks = Branch[b] \ Branch[top] /\ Before = Branch[b]
<1>1. PICK b \in Block \ {Genesis} : top = Parent[b] /\ note.blocks = {b}
  BY DEF UndoPends, PendInv, NoteFits
<1>2. Parent[b] \in Branch[b] /\ Branch[b] \ Branch[Parent[b]] = {b}
  BY ParentBranch
<1>3. Branch[top] \union note.blocks = Branch[b]
  <2>1. Branch[b] = Branch[Parent[b]] \union {b}
    BY TreeAssumption
  <2> QED BY <1>1, <2>1
<1>4. Before = Branch[b]
  BY <1>3 DEF Before, UndoPends, BatchPends
<1> QED BY <1>1, <1>2, <1>4

LEMMA NoneBefore ==
  ASSUME ~ BatchPends, ~ UndoPends
  PROVE  Before = Branch[top]
BY DEF Before

LEMMA InitView == Init => ViewInv
<1> SUFFICES ASSUME Init PROVE ViewInv
  OBVIOUS
<1>1. /\ coins = [o \in Tx |-> "absent"] /\ history = [t \in Tx |-> "absent"]
      /\ note.kind = "none" /\ note.pc = "idle" /\ NoFile.best = None
  BY DEF Init, NoFile, NoNote
<1>2. TxsOf(Branch[Genesis]) = {}
  BY TreeAssumption, BlockAssumption DEF TxsOf
<1>3. Before = {Genesis} /\ Branch[top] = {Genesis} /\ TxsOf({Genesis}) = {}
  BY <1>1, <1>2, TreeAssumption DEF Init, Before, BatchPends, UndoPends
<1>4. Sound
  BY <1>1 DEF Sound, Present
<1>5. Complete
  BY <1>1, <1>3 DEF Init, Complete, BaseFits, CoinsKnown, CoinsThere, HistoryThere, SpendersKnown,
     BatchPends, Unspent
<1>6. HeightFits
  BY <1>1, TreeAssumption DEF Init, HeightFits
<1>7. FilesFit
  BY <1>1 DEF Init, FilesFit, Fits
<1>8. ScanFits
  BY DEF Init, ScanFits
<1> QED BY <1>4, <1>5, <1>6, <1>7, <1>8 DEF ViewInv

(* The chain, the view and the files stay, or a callback only has noted    *)
(* that it evicted something.                                              *)
LEMMA ViewStays ==
  ASSUME Inv, ViewInv, Before' = Before, top' = top,
         UNCHANGED <<coins, imported, scan, base>>,
         \A t \in Tx : history'[t] = "confirmed" <=> history[t] = "confirmed",
         BatchPends' => note' = note /\ best' = best /\ BatchPends,
         UndoPends => UndoPends' /\ note'.blocks = note.blocks,
         HeightFits', FilesFit'
  PROVE  ViewInv'
<1>1. Present' = Present /\ Ours' = Ours /\ CoinScanned' = CoinScanned /\ Scanned' = Scanned
  BY DEF Present, Ours, OursOf, CoinScanned, Scanned
<1>2. Sound'
  BY <1>1 DEF ViewInv, Sound, Touches
<1>3. Complete'
  <2> SUFFICES ASSUME base' # None PROVE BaseFits' /\ CoinsKnown' /\ CoinsThere' /\ HistoryThere' /\ SpendersKnown'
    BY DEF Complete
  <2>0. Complete /\ base # None
    BY DEF ViewInv
  <2>1. BaseFits'
    BY <2>0 DEF Complete, BaseFits
  <2>2. CoinsKnown'
    BY <1>1, <2>0 DEF Complete, CoinsKnown
  <2>3. CoinsThere'
    BY <1>1, <2>0 DEF Complete, CoinsThere
  <2>4. HistoryThere'
    <3>1. TxsOf(Branch[top]) \subseteq Tx
      BY BranchSets DEF Inv, Typed, ChainTypes
    <3> QED BY <1>1, <2>0, <3>1 DEF Complete, HistoryThere
  <2>5. SpendersKnown'
    <3>1. TxsOf(note.blocks) \subseteq Tx
      BY TreeHas DEF TxsOf, Inv, Typed, ChainTypes
    <3> QED BY <1>1, <2>0, <3>1 DEF Complete, SpendersKnown
  <2> QED BY <2>1, <2>2, <2>3, <2>4, <2>5
<1>4. ScanFits'
  BY DEF ViewInv, ScanFits
<1> QED BY <1>2, <1>3, <1>4 DEF ViewInv

LEMMA QuietView ==
  ASSUME Inv, ViewInv, UNCHANGED chainVars, UNCHANGED viewVars, UNCHANGED nodeVars
  PROVE  ViewInv'
<1>1. Before' = Before /\ HeightFits' /\ FilesFit'
  BY DEF ViewInv, chainVars, viewVars, nodeVars, Before, BatchPends, UndoPends, HeightFits, FilesFit, Fits, ScanFits
<1>2. ViewInv'
  BY <1>1, ViewStays DEF chainVars, viewVars, BatchPends, UndoPends
<1> QED BY <1>2

LEMMA QuietStepsView ==
  ASSUME Inv, ViewInv,
         \/ \E c \in Caller : Accept(c) \/ Insert(c) \/ Select(c) \/ Submit(c) \/ Look(c) \/ Track(c)
         \/ Expire \/ UNCHANGED vars
  PROVE  ViewInv'
<1>1. UNCHANGED chainVars /\ UNCHANGED viewVars /\ UNCHANGED nodeVars
  BY DEF Accept, Insert, Select, Submit, Look, Track, Expire, vars
<1> QED BY <1>1, QuietView

LEMMA EvictView ==
  ASSUME Inv, ViewInv, NEW t, EvictPendingTx(t), UNCHANGED nodeVars, top' = top, best' = best,
         \/ note' = note
         \/ note.pc = "evict" /\ note'.kind = note.kind /\ note'.pc = "evict"
  PROVE  ViewInv'
<1>1. /\ UNCHANGED <<coins, height, imported, scan, base>>
      /\ \A x \in Tx : history'[x] = "confirmed" <=> history[x] = "confirmed"
  BY DEF EvictPendingTx, Inv, Typed, ViewTypes
<1>2. Before' = Before /\ HeightFits'
  BY <1>1 DEF ViewInv, Before, BatchPends, UndoPends, HeightFits
<1>3. FilesFit'
  BY <1>1 DEF ViewInv, nodeVars, FilesFit, Fits, NoNote
<1> QED BY <1>1, <1>2, <1>3, ViewStays DEF BatchPends, UndoPends

LEMMA EvictsView == Inv /\ ViewInv /\ (EvictConfirmed \/ EvictExpired) => ViewInv'
<1> SUFFICES ASSUME Inv, ViewInv, EvictConfirmed \/ EvictExpired PROVE ViewInv'
  OBVIOUS
<1>1. CASE EvictConfirmed
  <2>1. PICK t \in note.todo : EvictPendingTx(t) /\ note' = [note EXCEPT !.todo = @ \ {t}]
    BY <1>1 DEF EvictConfirmed
  <2>2. note.pc = "evict" /\ note'.kind = note.kind /\ note'.pc = "evict"
    BY <1>1, <2>1 DEF EvictConfirmed, Inv, Typed, ChainTypes
  <2> QED BY <1>1, <2>1, <2>2, EvictView DEF EvictConfirmed
<1>2. CASE EvictExpired
  <2>1. PICK t \in removed : EvictPendingTx(t)
    BY <1>2 DEF EvictExpired
  <2> QED BY <1>2, <2>1, EvictView DEF EvictExpired, chainVars
<1> QED BY <1>1, <1>2

(* The end of a notification.                                              *)
LEMMA EndsView == PendInv /\ ViewInv /\ (SetHeight \/ RemoveConfirmed \/ Publish) => ViewInv'
<1> SUFFICES ASSUME PendInv, ViewInv, SetHeight \/ RemoveConfirmed \/ Publish PROVE ViewInv'
  OBVIOUS
<1>0. /\ top \in Block /\ Depth[top] \in Nat
      /\ note.kind \in {"none", "connect", "disconnect"}
      /\ note.kind = "none" => note.pc = "idle"
      /\ note.kind = "connect" => note.pc \in {"wallet", "height", "pool", "evict"}
      /\ note.kind = "disconnect" => note.pc \in {"wallet", "height"}
  BY TreeAssumption DEF PendInv, NoteFits, Inv, Typed, ChainTypes, NoNote
<1>1. CASE SetHeight
  <2>1. UNCHANGED <<top, coins, history, imported, scan, base>> /\ UNCHANGED nodeVars /\ note.pc = "height"
    BY <1>1 DEF SetHeight
  <2>2. \/ note.kind = "connect" /\ note'.kind = "connect" /\ note'.pc = "pool" /\ height' = Depth[top]
        \/ note.kind = "disconnect" /\ note' = NoNote /\ height' = IF height > 0 THEN height - 1 ELSE 0
    BY <1>0, <1>1 DEF SetHeight, PendInv, Inv, Typed, ChainTypes
  <2>3. HeightFits'
    BY <1>0, <2>1, <2>2 DEF ViewInv, HeightFits, NoNote
  <2>4. Before' = Before /\ ~ UndoPends /\ ~ BatchPends'
    BY <2>1, <2>2 DEF Before, BatchPends, UndoPends, NoNote
  <2>5. FilesFit'
    BY <2>1 DEF ViewInv, FilesFit, Fits, nodeVars, NoNote
  <2> QED BY <2>1, <2>3, <2>4, <2>5, ViewStays DEF PendInv
<1>2. CASE RemoveConfirmed \/ Publish
  <2>1. /\ UNCHANGED <<top, coins, history, height, imported, scan, base>> /\ UNCHANGED nodeVars
        /\ note.pc \in {"pool", "evict"}
    BY <1>2 DEF RemoveConfirmed, Publish, viewVars
  <2>2. /\ note.kind = "connect"
        /\ (note'.kind = "connect" /\ note'.pc = "evict") \/ note' = NoNote
    BY <1>0, <1>2, <2>1 DEF RemoveConfirmed, Publish, PendInv, Inv, Typed, ChainTypes
  <2>3. HeightFits'
    BY <1>0, <2>1, <2>2 DEF ViewInv, HeightFits, NoNote
  <2>4. Before' = Before /\ ~ UndoPends /\ ~ BatchPends'
    BY <2>1, <2>2 DEF Before, BatchPends, UndoPends, NoNote
  <2>5. FilesFit'
    BY <2>1 DEF ViewInv, FilesFit, Fits, nodeVars, NoNote
  <2> QED BY <2>1, <2>3, <2>4, <2>5, ViewStays DEF PendInv
<1> QED BY <1>1, <1>2

LEMMA CommitView == ASSUME PendInv, ViewInv, "hasty" \notin env, Commit PROVE ViewInv'
<1> DEFINE new == Branch[top'] \ Branch[top]
<1>0. /\ top \in Block /\ top' \in Block /\ top \in Branch[top'] /\ best' = best
      /\ note = NoNote /\ best = top /\ shot = NoFile
      /\ note'.kind = "connect" /\ note'.pc = "wallet" /\ note'.blocks = new
  <2>1. note = NoNote /\ best = top /\ shot = NoFile /\ top \in Block
    BY DEF Commit, Processing, Up, NoNote, PendInv, NoteFits, Inv, Typed, ChainTypes
  <2>2. PICK b \in Block : /\ top \in Branch[b] /\ top' = b
                          /\ note' = [NoNote EXCEPT !.kind = "connect", !.pc = "wallet",
                                                    !.blocks = Branch[b] \ Branch[top]]
    BY DEF Commit
  <2>3. best' = best
    BY DEF Commit
  <2> QED BY <2>1, <2>2, <2>3 DEF NoNote
<1>1. /\ UNCHANGED <<coins, history, height, imported, scan, base>> /\ UNCHANGED nodeVars
      /\ Present' = Present /\ Ours' = Ours /\ CoinScanned' = CoinScanned /\ Scanned' = Scanned
  BY DEF Commit, viewVars, Present, Ours, OursOf, CoinScanned, Scanned
<1>2. Before = Branch[top] /\ Before' = Branch[top] /\ BatchPends' /\ ~ UndoPends /\ ~ UndoPends'
  BY <1>0 DEF Before, BatchPends, UndoPends, NoNote
<1>3. /\ TxsOf(Branch[top']) = TxsOf(Branch[top]) \union TxsOf(new)
      /\ Spends(Branch[top]) \intersect Spends(new) = {}
      /\ TxsOf(Branch[top']) \subseteq Tx
      /\ Branch[top] \subseteq Branch[top']
  <2>1. Steps(top, top')
    BY <1>0, StepSets
  <2> QED BY <2>1 DEF Steps
<1>4. Sound'
  BY <1>1, <1>2, <1>3 DEF ViewInv, Sound, Touches
<1>5. Complete'
  <2> SUFFICES ASSUME base' # None PROVE BaseFits' /\ CoinsKnown' /\ CoinsThere' /\ HistoryThere' /\ SpendersKnown'
    BY DEF Complete
  <2>0. BaseFits /\ CoinsKnown /\ CoinsThere /\ HistoryThere
    BY <1>1 DEF ViewInv, Complete
  <2>1. BaseFits'
    BY <1>1, <1>2, <1>3, <2>0 DEF BaseFits
  <2>2. CoinsKnown'
    BY <1>1, <1>2, <2>0 DEF CoinsKnown
  <2>3. CoinsThere'
    BY <1>1, <1>2, <2>0 DEF CoinsThere
  <2>4. HistoryThere'
    BY <1>1, <1>2, <2>0 DEF HistoryThere
  <2>5. SpendersKnown'
    <3> SUFFICES ASSUME NEW t \in TxsOf(new), NEW o \in Ins[t], o \in Ours, o \in TxsOf(Branch[top])
                 PROVE  o \in Present \/ (o \in Late /\ scan # "idle")
      BY <1>0, <1>1 DEF SpendersKnown
    <3>1. o \in Unspent(Branch[top])
      BY <1>3 DEF Unspent, Spends
    <3>2. o \in CoinScanned => o \in Present
      BY <1>2, <1>3, <2>0, <3>1 DEF CoinsThere, Present
    <3> QED BY <3>2 DEF Ours, OursOf, CoinScanned
  <2> QED BY <2>1, <2>2, <2>3, <2>4, <2>5
<1>6. HeightFits'
  BY <1>0, <1>1 DEF ViewInv, HeightFits, NoNote
<1>7. FilesFit' /\ ScanFits'
  BY <1>0, <1>1 DEF ViewInv, FilesFit, Fits, ScanFits, nodeVars
<1> QED BY <1>4, <1>5, <1>6, <1>7 DEF ViewInv

LEMMA DisconnectView == ASSUME PendInv, ViewInv, "hasty" \notin env, Disconnect PROVE ViewInv'
<1>0. /\ top \in Block \ {Genesis} /\ top' = Parent[top] /\ best' = top'
      /\ note = NoNote /\ best = top /\ shot = NoFile
      /\ note'.kind = "disconnect" /\ note'.pc = "wallet" /\ note'.blocks = {top}
  BY DEF Disconnect, Processing, Up, NoNote, PendInv, NoteFits, Inv, Typed, ChainTypes
<1>1. /\ UNCHANGED <<coins, history, height, imported, scan, base>> /\ UNCHANGED nodeVars
      /\ Present' = Present /\ Ours' = Ours /\ CoinScanned' = CoinScanned /\ Scanned' = Scanned
  BY DEF Disconnect, viewVars, Present, Ours, OursOf, CoinScanned, Scanned
<1>2. /\ Branch[top] = Branch[top'] \union {top} /\ Depth[top] = Depth[top'] + 1
  BY <1>0, TreeAssumption
<1>3. /\ Before = Branch[top] /\ Before' = Branch[top] /\ ~ BatchPends' /\ UndoPends' /\ ~ UndoPends
  BY <1>0, <1>2 DEF Before, BatchPends, UndoPends, NoNote
<1>4. TxsOf(Branch[top']) \subseteq TxsOf(Branch[top])
  BY <1>2 DEF TxsOf
<1>5. Sound'
  BY <1>1, <1>3, <1>4 DEF ViewInv, Sound, Touches
<1>6. Complete'
  <2> SUFFICES ASSUME base' # None PROVE BaseFits' /\ CoinsKnown' /\ CoinsThere' /\ HistoryThere' /\ SpendersKnown'
    BY DEF Complete
  <2>0. BaseFits /\ CoinsKnown /\ CoinsThere /\ HistoryThere
    BY <1>1 DEF ViewInv, Complete
  <2>1. BaseFits'
    BY <1>0, <1>1, <1>2, <1>3, <2>0 DEF BaseFits
  <2>2. CoinsKnown'
    BY <1>1, <1>3, <1>4, <2>0 DEF CoinsKnown
  <2>3. CoinsThere'
    BY <1>1, <1>3, <1>4, <2>0 DEF CoinsThere
  <2>4. HistoryThere'
    BY <1>1, <1>3, <1>4, <2>0 DEF HistoryThere
  <2>5. SpendersKnown'
    BY <1>3 DEF SpendersKnown
  <2> QED BY <2>1, <2>2, <2>3, <2>4, <2>5
<1>7. HeightFits'
  BY <1>0, <1>1, <1>2 DEF ViewInv, HeightFits, NoNote
<1>8. FilesFit' /\ ScanFits'
  BY <1>0, <1>1 DEF ViewInv, FilesFit, Fits, ScanFits, nodeVars
<1> QED BY <1>5, <1>6, <1>7, <1>8 DEF ViewInv

LEMMA NotifyBlocksView == ASSUME PendInv, ViewInv, NotifyBlocks PROVE ViewInv'
<1> DEFINE old == Branch[best]
           new == note.blocks
           all == Branch[top]
           found == Present \union (TxsOf(new) \intersect Ours)
<1>0. /\ note.kind = "connect" /\ note.pc = "wallet" /\ scan = "idle"
      /\ note'.kind = "connect" /\ note'.pc = "height"
      /\ UNCHANGED <<top, best, height, imported, scan, base>> /\ UNCHANGED nodeVars
  BY DEF NotifyBlocks, MuFree, PendInv, Inv, Typed, ChainTypes
<1>1. /\ coins' = [o \in Tx |-> IF o \in Spends(new) \intersect found THEN "spent"
                                ELSE IF o \in TxsOf(new) \intersect Ours THEN "unspent" ELSE coins[o]]
      /\ history' = [t \in Tx |-> IF t \in TxsOf(new) /\ Touches(t, found) THEN "confirmed"
                                  ELSE history[t]]
  BY DEF NotifyBlocks
<1>2. /\ BatchPends /\ ~ UndoPends /\ ~ BatchPends' /\ ~ UndoPends' /\ Before = old /\ Before' = all
      /\ Ours' = Ours /\ CoinScanned = Ours /\ CoinScanned' = Ours /\ Scanned = Ours /\ Scanned' = Ours
  BY <1>0 DEF BatchPends, UndoPends, Before, Ours, OursOf, CoinScanned, Scanned
<1>3. best \in all /\ top \in Block /\ new = all \ old
  BY <1>2, ConnectSets
<1>4. /\ TxsOf(all) = TxsOf(old) \union TxsOf(new) /\ TxsOf(old) \intersect TxsOf(new) = {}
      /\ Spends(all) = Spends(old) \union Spends(new)
      /\ Spends(old) \subseteq TxsOf(old) /\ TxsOf(all) \subseteq Tx
  <2>1. Steps(best, top)
    BY <1>3, StepSets
  <2> QED BY <1>3, <2>1 DEF Steps
<1>5. Present \subseteq Ours /\ Present \subseteq Tx /\ found \subseteq Ours /\ found \subseteq Tx
  BY <1>4 DEF ViewInv, Sound, Present
<1>6. Present' = found
  BY <1>1, <1>4, <1>5 DEF Present
<1>7. Sound'
  <2>1. ASSUME NEW o \in Tx, coins'[o] = "unspent" PROVE o \in Unspent(all)
    <3>1. o \notin Spends(new) \intersect found
      BY <1>1, <2>1
    <3>2. CASE o \in TxsOf(new) \intersect Ours
      BY <1>4, <3>1, <3>2 DEF Unspent
    <3>3. CASE o \notin TxsOf(new) \intersect Ours
      <4>1. coins[o] = "unspent"
        BY <1>1, <2>1, <3>1, <3>3
      <4>2. o \in Unspent(old) \union Unspent(all) /\ o \in found
        BY <1>2, <4>1 DEF ViewInv, Sound, Present
      <4> QED BY <1>4, <3>1, <4>2 DEF Unspent
    <3> QED BY <3>2, <3>3
  <2>2. ASSUME NEW t \in Tx, history'[t] = "confirmed" PROVE Touches(t, Ours) /\ t \in TxsOf(all)
    <3>1. CASE t \in TxsOf(new) /\ Touches(t, found)
      BY <1>4, <1>5, <3>1 DEF Touches
    <3>2. CASE history[t] = "confirmed"
      BY <1>2, <1>4, <3>2 DEF ViewInv, Sound
    <3> QED BY <1>1, <2>2, <3>1, <3>2
  <2> QED BY <1>0, <1>2, <1>5, <1>6, <2>1, <2>2 DEF Sound, Touches
<1>8. Complete'
  <2> SUFFICES ASSUME base' # None PROVE BaseFits' /\ CoinsKnown' /\ CoinsThere' /\ HistoryThere' /\ SpendersKnown'
    BY DEF Complete
  <2>0. BaseFits /\ CoinsKnown /\ CoinsThere /\ HistoryThere /\ SpendersKnown
    BY <1>0 DEF ViewInv, Complete
  <2>1. BaseFits'
    BY <1>0, <1>2, <2>0 DEF BaseFits
  <2>2. CoinsKnown'
    BY <1>0, <1>2, <1>4, <1>6, <2>0 DEF CoinsKnown
  <2>3. CoinsThere'
    <3> SUFFICES ASSUME NEW o \in Ours, o \in Unspent(all) PROVE coins'[o] = "unspent"
      BY <1>0, <1>2 DEF CoinsThere
    <3>1. o \in Tx /\ o \notin Spends(new)
      BY <1>4 DEF Unspent
    <3>2. CASE o \in TxsOf(new)
      BY <1>1, <3>1, <3>2
    <3>3. CASE o \notin TxsOf(new)
      <4>1. o \in Unspent(old)
        BY <1>4, <3>3 DEF Unspent
      <4>2. coins[o] = "unspent"
        BY <1>2, <2>0, <4>1 DEF CoinsThere
      <4> QED BY <1>1, <3>1, <3>3, <4>2
    <3> QED BY <3>2, <3>3
  <2>4. HistoryThere'
    <3> SUFFICES ASSUME NEW t \in TxsOf(all), t \in Ours \/ Ins[t] \intersect Ours # {}
                 PROVE  history'[t] = "confirmed"
      BY <1>0, <1>2 DEF HistoryThere
    <3>0. t \in Tx
      BY <1>4
    <3>1. CASE t \in TxsOf(old)
      BY <1>1, <1>2, <2>0, <3>0, <3>1, <1>4 DEF HistoryThere
    <3>2. CASE t \in TxsOf(new) /\ t \in Ours
      BY <1>1, <3>0, <3>2 DEF Touches
    <3>3. CASE t \in TxsOf(new) /\ t \notin Ours
      <4>1. PICK o \in Ins[t] : o \in Ours
        BY <3>3
      <4>2. o \in TxsOf(all)
        BY <1>3, InputsBelow
      <4>3. o \in found \/ history[t] = "confirmed"
        BY <1>0, <1>2, <1>4, <2>0, <3>3, <4>1, <4>2 DEF SpendersKnown
      <4> QED BY <1>1, <3>0, <3>3, <4>1, <4>3 DEF Touches
    <3> QED BY <1>4, <3>1, <3>2, <3>3
  <2>5. SpendersKnown'
    BY <1>2 DEF SpendersKnown
  <2> QED BY <2>1, <2>2, <2>3, <2>4, <2>5
<1>9. HeightFits' /\ FilesFit' /\ ScanFits'
  BY <1>0 DEF ViewInv, HeightFits, FilesFit, Fits, ScanFits, nodeVars, NoNote
<1> QED BY <1>7, <1>8, <1>9 DEF ViewInv

LEMMA NotifyBlockDisconnectedView ==
  ASSUME PendInv, ViewInv, NotifyBlockDisconnected PROVE ViewInv'
<1>0. /\ note.kind = "disconnect" /\ note.pc = "wallet" /\ scan = "idle"
      /\ note'.kind = "disconnect" /\ note'.pc = "height"
      /\ UNCHANGED <<top, best, height, imported, scan>> /\ UNCHANGED nodeVars
  BY DEF NotifyBlockDisconnected, MuFree, PendInv, Inv, Typed, ChainTypes
<1>2. /\ UndoPends /\ ~ BatchPends /\ ~ BatchPends' /\ ~ UndoPends' /\ Before' = Branch[top]
      /\ Ours' = Ours /\ CoinScanned = Ours /\ CoinScanned' = Ours /\ Scanned = Ours /\ Scanned' = Ours
  BY <1>0 DEF BatchPends, UndoPends, Before, Ours, OursOf, CoinScanned, Scanned
<1>3. PICK b \in Block \ {Genesis} :
        /\ top = Parent[b] /\ top \in Branch[b]
        /\ note.blocks = {b} /\ note.blocks = Branch[b] \ Branch[top] /\ Before = Branch[b]
  BY <1>2, DisconnectSets
<1> DEFINE old == Branch[b]
           gone == note.blocks
           left == Branch[top]
<1>1. /\ coins' = [o \in Tx |-> IF o \in TxsOf(gone) THEN "absent"
                                ELSE IF o \in Spends(gone) \intersect Present THEN "unspent"
                                ELSE coins[o]]
      /\ history' = [t \in Tx |-> IF t \in TxsOf(gone) THEN "absent" ELSE history[t]]
      /\ base' = IF base # None /\ gone \subseteq Branch[base] THEN None ELSE base
  BY DEF NotifyBlockDisconnected
<1>4. /\ TxsOf(old) = TxsOf(left) \union TxsOf(gone) /\ TxsOf(left) \intersect TxsOf(gone) = {}
      /\ Spends(old) = Spends(left) \union Spends(gone) /\ Spends(left) \intersect Spends(gone) = {}
      /\ Spends(old) \subseteq TxsOf(old) /\ TxsOf(old) \subseteq Tx
  <2>1. Steps(top, b)
    BY <1>3, StepSets
  <2> QED BY <1>3, <2>1 DEF Steps
<1>5. Present' = Present \ TxsOf(gone) /\ Present \subseteq Ours
  BY <1>1 DEF Present, ViewInv, Sound
<1>6. Sound'
  <2>1. ASSUME NEW o \in Tx, coins'[o] = "unspent" PROVE o \in Unspent(left)
    <3>1. o \notin TxsOf(gone)
      BY <1>1, <2>1
    <3>2. CASE o \in Spends(gone) \intersect Present
      BY <1>4, <3>1, <3>2 DEF Unspent
    <3>3. CASE coins[o] = "unspent"
      <4>1. o \in Unspent(old) \union Unspent(left)
        BY <1>3, <3>3 DEF ViewInv, Sound
      <4> QED BY <1>4, <3>1, <4>1 DEF Unspent
    <3> QED BY <1>1, <2>1, <3>1, <3>2, <3>3
  <2>2. ASSUME NEW t \in Tx, history'[t] = "confirmed" PROVE Touches(t, Ours) /\ t \in TxsOf(left)
    <3>1. t \notin TxsOf(gone) /\ history[t] = "confirmed"
      BY <1>1, <2>2
    <3> QED BY <1>3, <1>4, <3>1 DEF ViewInv, Sound
  <2> QED BY <1>0, <1>2, <1>5, <2>1, <2>2 DEF Sound, Touches
<1>7. Complete'
  <2> SUFFICES ASSUME base' # None PROVE BaseFits' /\ CoinsKnown' /\ CoinsThere' /\ HistoryThere' /\ SpendersKnown'
    BY DEF Complete
  <2>0. base # None /\ base' = base /\ b \notin Branch[base]
    BY <1>1, <1>3
  <2>1. BaseFits /\ CoinsKnown /\ CoinsThere /\ HistoryThere
    BY <2>0 DEF ViewInv, Complete
  <2>2. base \in left
    BY <1>3, <2>0, <2>1, InOwnBranch DEF BaseFits
  <2>3. Spends(Branch[base]) \subseteq Spends(left)
    <3>1. Branch[base] \subseteq left
      BY <2>2, TreeAssumption DEF PendInv, Inv, Typed, ChainTypes
    <3> QED BY <3>1 DEF Spends, TxsOf
  <2>4. CoinsKnown'
    BY <1>0, <1>2, <1>3, <1>4, <1>5, <2>0, <2>1 DEF CoinsKnown
  <2>5. CoinsThere'
    <3> SUFFICES ASSUME NEW o \in Ours, o \in Unspent(left) PROVE coins'[o] = "unspent"
      BY <1>0, <1>2 DEF CoinsThere
    <3>1. o \in Tx /\ o \in TxsOf(left) /\ o \in TxsOf(old) /\ o \notin TxsOf(gone) /\ o \notin Spends(left)
      BY <1>4 DEF Unspent
    <3>2. CASE o \in Spends(gone)
      <4>1. o \in Present
        BY <1>2, <1>3, <2>1, <2>3, <3>1 DEF CoinsKnown
      <4> QED BY <1>1, <3>1, <3>2, <4>1
    <3>3. CASE o \notin Spends(gone)
      <4>1. o \in Unspent(old)
        BY <1>4, <3>1, <3>3 DEF Unspent
      <4>2. coins[o] = "unspent"
        BY <1>2, <1>3, <2>1, <4>1 DEF CoinsThere
      <4> QED BY <1>1, <3>1, <3>3, <4>2
    <3> QED BY <3>2, <3>3
  <2>6. HistoryThere'
    <3> SUFFICES ASSUME NEW t \in TxsOf(left), t \in Ours \/ Ins[t] \intersect Ours # {}
                 PROVE  history'[t] = "confirmed"
      BY <1>0, <1>2 DEF HistoryThere
    <3>1. t \in Tx /\ t \in TxsOf(old) /\ t \notin TxsOf(gone)
      BY <1>4
    <3>2. history[t] = "confirmed"
      BY <1>2, <1>3, <2>1, <3>1 DEF HistoryThere
    <3> QED BY <1>1, <3>1, <3>2
  <2>7. SpendersKnown'
    BY <1>2 DEF SpendersKnown
  <2>8. BaseFits'
    BY <1>0, <2>0, <2>2 DEF BaseFits
  <2> QED BY <2>4, <2>5, <2>6, <2>7, <2>8
<1>8. HeightFits' /\ FilesFit' /\ ScanFits'
  BY <1>0 DEF ViewInv, HeightFits, FilesFit, Fits, ScanFits, nodeVars, NoNote
<1> QED BY <1>6, <1>7, <1>8 DEF ViewInv

LEMMA ImportView == ASSUME PendInv, ViewInv, "hasty" \notin env, Import PROVE ViewInv'
<1>0. /\ UNCHANGED chainVars /\ UNCHANGED <<coins, history, height, base>> /\ UNCHANGED nodeVars
      /\ imported = FALSE /\ scan = "idle" /\ imported' = TRUE /\ scan' = "coins" /\ shot = NoFile
  BY DEF Import, MuFree, Up, PendInv, Inv, Typed, ViewTypes
<1>1. /\ Before' = Before /\ top' = top /\ best' = best /\ note' = note /\ Present' = Present
      /\ CoinScanned = Early /\ CoinScanned' = Early /\ Scanned = Early /\ Scanned' = Early
      /\ Ours \subseteq Ours' /\ Ours = Early
  BY <1>0 DEF chainVars, Before, BatchPends, UndoPends, Present, CoinScanned, Scanned, Ours, OursOf
<1>2. Sound'
  BY <1>0, <1>1 DEF ViewInv, Sound, Touches
<1>3. Complete'
  <2> SUFFICES ASSUME base' # None PROVE BaseFits' /\ CoinsKnown' /\ CoinsThere' /\ HistoryThere' /\ SpendersKnown'
    BY DEF Complete
  <2>0. BaseFits /\ CoinsKnown /\ CoinsThere /\ HistoryThere /\ SpendersKnown
    BY <1>0 DEF ViewInv, Complete
  <2>1. BaseFits'
    BY <1>0, <1>1, <2>0 DEF BaseFits, UndoPends
  <2>2. CoinsKnown' /\ CoinsThere' /\ HistoryThere'
    BY <1>0, <1>1, <2>0 DEF CoinsKnown, CoinsThere, HistoryThere
  <2>3. SpendersKnown'
    <3>1. Ours' \subseteq Ours \union Late
      BY <1>1 DEF Ours, OursOf
    <3> QED BY <1>0, <1>1, <2>0, <3>1 DEF SpendersKnown, BatchPends
  <2> QED BY <2>1, <2>2, <2>3
<1>4. HeightFits' /\ FilesFit' /\ ScanFits'
  BY <1>0, <1>1 DEF ViewInv, HeightFits, FilesFit, Fits, ScanFits, nodeVars
<1> QED BY <1>2, <1>3, <1>4 DEF ViewInv

LEMMA ScanCoinsView == ASSUME PendInv, ViewInv, ScanCoins PROVE ViewInv'
<1> DEFINE chain == Branch[top]
<1>0. /\ UNCHANGED chainVars /\ UNCHANGED <<history, height, imported>> /\ UNCHANGED nodeVars
      /\ scan = "coins" /\ scan' = "history" /\ imported
      /\ coins' = [o \in Tx |-> IF o \in Late \intersect Unspent(chain) THEN "unspent" ELSE coins[o]]
      /\ base' = IF base # None /\ base \in chain THEN top ELSE base
  BY DEF ScanCoins, ViewInv, ScanFits, Unspent
<1>1. /\ Before' = Before /\ top' = top /\ best' = best /\ note' = note
      /\ Ours' = Ours /\ Late \subseteq Ours /\ Late \subseteq Tx /\ top \in Block
      /\ CoinScanned = Early /\ CoinScanned' = Early \union Late /\ Scanned = Early /\ Scanned' = Early
  BY <1>0, TreeHas DEF chainVars, Before, BatchPends, UndoPends, CoinScanned, Scanned, Ours, OursOf,
     PendInv, Inv, Typed, ChainTypes
<1>2. Present' = Present \union (Late \intersect Unspent(chain))
  BY <1>0, <1>1 DEF Present
<1>3. Sound'
  BY <1>0, <1>1, <1>2 DEF ViewInv, Sound, Touches
<1>4. Complete'
  <2> SUFFICES ASSUME base' # None PROVE BaseFits' /\ CoinsKnown' /\ CoinsThere' /\ HistoryThere' /\ SpendersKnown'
    BY DEF Complete
  <2>0. base # None /\ BaseFits /\ CoinsKnown /\ CoinsThere /\ HistoryThere /\ SpendersKnown
    BY <1>0 DEF ViewInv, Complete
  <2>1. BaseFits'
    BY <1>0, <1>1, <2>0, InOwnBranch DEF BaseFits, UndoPends
  <2>2. Spends(Branch[base]) \subseteq Spends(Branch[base']) /\ Spends(chain) \subseteq Spends(Branch[base'])
    <3>1. CASE base \in chain
      <4>1. base' = top /\ Branch[base] \subseteq chain
        BY <1>0, <1>1, <2>0, <3>1, TreeAssumption
      <4> QED BY <4>1 DEF Spends, TxsOf
    <3>2. CASE base \notin chain
      <4>1. UndoPends /\ base \in note.blocks /\ base' = base
        BY <1>0, <2>0, <3>2 DEF BaseFits
      <4>2. PICK b \in Block \ {Genesis} : top \in Branch[b] /\ note.blocks = {b}
        BY <4>1, DisconnectSets
      <4>3. base = b /\ chain \subseteq Branch[base]
        BY <4>1, <4>2, TreeAssumption
      <4> QED BY <4>1, <4>3 DEF Spends, TxsOf
    <3> QED BY <3>1, <3>2
  <2>3. CoinsKnown'
    <3> SUFFICES ASSUME NEW o \in Early \union Late, o \in TxsOf(Before), o \in TxsOf(chain)
                 PROVE  o \in Present' \union Spends(Branch[base'])
      BY <1>1 DEF CoinsKnown
    <3>1. CASE o \in Early
      BY <1>1, <1>2, <2>0, <2>2, <3>1 DEF CoinsKnown
    <3>2. CASE o \in Late
      BY <1>2, <2>2, <3>2 DEF Unspent
    <3> QED BY <3>1, <3>2
  <2>4. CoinsThere'
    <3> SUFFICES ASSUME NEW o \in Early \union Late, o \in Unspent(Before), o \in Unspent(chain)
                 PROVE  coins'[o] = "unspent"
      BY <1>1 DEF CoinsThere
    <3>1. o \in Tx
      BY TreeHas
    <3>2. CASE o \in Late
      BY <1>0, <3>1, <3>2
    <3>3. CASE o \notin Late
      <4>1. coins[o] = "unspent"
        BY <1>1, <2>0, <3>3 DEF CoinsThere
      <4> QED BY <1>0, <3>1, <3>3, <4>1
    <3> QED BY <3>2, <3>3
  <2>5. HistoryThere'
    BY <1>0, <1>1, <2>0 DEF HistoryThere
  <2>6. SpendersKnown'
    BY <1>0, <1>1, <1>2, <2>0 DEF SpendersKnown, BatchPends
  <2> QED BY <2>1, <2>3, <2>4, <2>5, <2>6
<1>5. HeightFits' /\ FilesFit' /\ ScanFits'
  BY <1>0, <1>1 DEF ViewInv, HeightFits, FilesFit, Fits, ScanFits, nodeVars
<1> QED BY <1>3, <1>4, <1>5 DEF ViewInv

LEMMA ScanHistoryView == ASSUME PendInv, ViewInv, ScanHistory PROVE ViewInv'
<1> DEFINE chain == Branch[top]
           Lately(t) == t \in TxsOf(chain) /\ (t \in Late \/ Ins[t] \intersect Late # {})
<1>0. /\ UNCHANGED chainVars /\ UNCHANGED <<coins, height, imported, base>> /\ UNCHANGED nodeVars
      /\ scan = "history" /\ scan' = "idle" /\ imported
      /\ history' = [t \in Tx |-> IF Lately(t) THEN "confirmed" ELSE history[t]]
  BY DEF ScanHistory, ViewInv, ScanFits
<1>1. /\ Before' = Before /\ top' = top /\ best' = best /\ note' = note /\ top \in Block
      /\ Present' = Present /\ Ours' = Ours /\ Late \subseteq Ours /\ Ours = Early \union Late
      /\ CoinScanned = Ours /\ CoinScanned' = Ours /\ Scanned = Early /\ Scanned' = Ours
  BY <1>0 DEF chainVars, Before, BatchPends, UndoPends, Present, CoinScanned, Scanned, Ours, OursOf,
     PendInv, Inv, Typed, ChainTypes
<1>2. TxsOf(chain) \subseteq Tx
  BY <1>1, BranchSets
<1>3. Sound'
  BY <1>0, <1>1 DEF ViewInv, Sound, Touches
<1>4. Complete'
  <2> SUFFICES ASSUME base' # None PROVE BaseFits' /\ CoinsKnown' /\ CoinsThere' /\ HistoryThere' /\ SpendersKnown'
    BY DEF Complete
  <2>0. BaseFits /\ CoinsKnown /\ CoinsThere /\ HistoryThere /\ SpendersKnown
    BY <1>0 DEF ViewInv, Complete
  <2>1. BaseFits'
    BY <1>0, <1>1, <2>0 DEF BaseFits, UndoPends
  <2>2. CoinsKnown' /\ CoinsThere'
    BY <1>0, <1>1, <2>0 DEF CoinsKnown, CoinsThere
  <2>3. HistoryThere'
    <3> SUFFICES ASSUME NEW t \in TxsOf(Before), t \in TxsOf(chain),
                        t \in Ours \/ Ins[t] \intersect Ours # {}
                 PROVE  history'[t] = "confirmed"
      BY <1>1 DEF HistoryThere
    <3>1. CASE Lately(t)
      BY <1>0, <1>2, <3>1
    <3>2. CASE ~ Lately(t)
      <4>1. t \in Early \/ Ins[t] \intersect Early # {}
        BY <1>1, <3>2
      <4>2. history[t] = "confirmed"
        BY <1>1, <2>0, <4>1 DEF HistoryThere
      <4> QED BY <1>0, <1>2, <3>2, <4>2
    <3> QED BY <3>1, <3>2
  <2>4. SpendersKnown'
    <3> SUFFICES ASSUME BatchPends, NEW t \in TxsOf(note.blocks), NEW o \in Ins[t],
                        o \in Ours, o \in TxsOf(Branch[best])
                 PROVE  o \in Present \/ history'[t] = "confirmed"
      BY <1>1 DEF SpendersKnown, BatchPends
    <3>1. t \in TxsOf(chain) /\ t \in Tx
      <4>1. note.blocks \subseteq chain
        BY ConnectSets
      <4> QED BY <1>2, <4>1 DEF TxsOf
    <3>2. o \in Present \/ history[t] = "confirmed" \/ o \in Late
      BY <2>0 DEF SpendersKnown
    <3> QED BY <1>0, <3>1, <3>2
  <2> QED BY <2>1, <2>2, <2>3, <2>4
<1>5. HeightFits' /\ FilesFit' /\ ScanFits'
  BY <1>0, <1>1 DEF ViewInv, HeightFits, FilesFit, Fits, ScanFits, nodeVars
<1> QED BY <1>3, <1>4, <1>5 DEF ViewInv

(* A start from a file that fits, or from a rescan.                        *)
LEMMA StartView ==
  ASSUME PendInv, NEW f \in Files, Fits(f), Start(f)
  PROVE  ViewInv'
<1> DEFINE chain == Branch[top]
           loaded == f.best = top /\ f.imported = imported
<1>0. /\ top \in Block /\ None \notin Block /\ UNCHANGED <<top, imported>>
      /\ best' = top /\ note' = NoNote /\ scan' = "idle" /\ height' = Depth[top]
      /\ file' = f /\ shot' = NoFile
  BY TreeHas DEF Start, PendInv, Inv, Typed, ChainTypes
<1>1. /\ ~ BatchPends' /\ ~ UndoPends' /\ Before' = chain /\ Ours' = Ours
      /\ CoinScanned' = Ours /\ Scanned' = Ours
  BY <1>0 DEF BatchPends, UndoPends, Before, NoNote, Ours, OursOf, CoinScanned, Scanned
<1>2. TxsOf(chain) \subseteq Tx /\ Spends(chain) \subseteq TxsOf(chain)
  BY <1>0, BranchSets
<1>3. CASE loaded
  <2>1. coins' = f.coins /\ history' = f.history /\ base' = f.base /\ OursOf(f.imported) = Ours
    BY <1>3 DEF Start, Ours
  <2>2. /\ \A o \in Tx : f.coins[o] # "absent" => o \in Ours
        /\ \A o \in Tx : f.coins[o] = "unspent" => o \in Unspent(chain)
        /\ \A t \in Tx : f.history[t] = "confirmed" => t \in TxsOf(chain) /\ Touches(t, Ours)
        /\ f.base # None =>
             /\ f.base \in chain
             /\ \A o \in Ours \intersect TxsOf(chain) :
                  f.coins[o] # "absent" \/ o \in Spends(Branch[f.base])
             /\ \A o \in Ours \intersect Unspent(chain) : f.coins[o] = "unspent"
             /\ \A t \in TxsOf(chain) : Touches(t, Ours) => f.history[t] = "confirmed"
    BY <1>0, <1>3, <2>1 DEF Fits, Touches
  <2>3. Sound'
    BY <1>0, <1>1, <2>1, <2>2 DEF Sound, Touches, Present
  <2>4. Complete'
    BY <1>0, <1>1, <1>2, <2>1, <2>2 DEF Complete, BaseFits, CoinsKnown, CoinsThere, HistoryThere,
       SpendersKnown, Touches, Present
  <2> QED BY <1>0, <2>3, <2>4 DEF ViewInv, HeightFits, FilesFit, Fits, ScanFits, NoNote
<1>4. CASE ~ loaded
  <2>1. /\ coins' = [o \in Tx |-> IF o \in Ours \intersect Unspent(chain) THEN "unspent" ELSE "absent"]
        /\ history' = [t \in Tx |-> IF t \in TxsOf(chain) /\ Touches(t, Ours)
                                    THEN "confirmed" ELSE "absent"]
        /\ base' = top
    BY <1>4 DEF Start, Unspent
  <2>2. Sound'
    BY <1>0, <1>1, <2>1 DEF Sound, Touches, Present
  <2>3. Present' = Ours \intersect Unspent(chain)
    BY <1>2, <2>1 DEF Present, Unspent
  <2>4. CoinsKnown' /\ CoinsThere'
    BY <1>0, <1>1, <1>2, <2>1, <2>3 DEF CoinsKnown, CoinsThere, Unspent
  <2>5. HistoryThere'
    BY <1>0, <1>1, <1>2, <2>1 DEF HistoryThere, Touches
  <2>6. BaseFits' /\ SpendersKnown'
    BY <1>0, <1>1, <2>1, InOwnBranch DEF BaseFits, SpendersKnown
  <2> QED BY <1>0, <2>2, <2>4, <2>5, <2>6 DEF ViewInv, Complete, HeightFits, FilesFit, Fits, ScanFits, NoNote
<1> QED BY <1>3, <1>4

LEMMA StartsView ==
  ASSUME PendInv, ViewInv, Crash \/ SaveAndStop PROVE ViewInv'
<1>1. CASE Crash
  <2>1. file \in Files
    BY DEF PendInv, Inv, Typed, NodeTypes
  <2> QED BY <1>1, <2>1, StartView DEF Crash, ViewInv, FilesFit
<1>2. CASE SaveAndStop
  <2>1. shot \in Files /\ shot.best = best
    BY <1>2 DEF SaveAndStop, ViewInv, FilesFit, PendInv, Inv, Typed, NodeTypes
  <2>2. [shot EXCEPT !.best = best] = shot
    BY <2>1 DEF Files
  <2> QED BY <1>2, <2>1, <2>2, StartView DEF SaveAndStop, ViewInv, FilesFit
<1> QED BY <1>1, <1>2

LEMMA SnapshotView == ASSUME PendInv, ViewInv, "hasty" \notin env, Snapshot PROVE ViewInv'
<1> DEFINE chain == Branch[top]
<1>0. /\ UNCHANGED chainVars /\ UNCHANGED viewVars /\ file' = file
      /\ note = NoNote /\ best = top /\ scan = "idle" /\ top \in Block
      /\ shot' = [best |-> top, coins |-> coins, imported |-> imported, base |-> base,
                  history |-> [t \in Tx |-> IF history[t] = "evicted" THEN "absent" ELSE history[t]]]
  BY DEF Snapshot, MuFree, Processing, NoNote, PendInv, NoteFits, Inv, Typed, ChainTypes
<1>1. /\ ~ UndoPends /\ Before = chain /\ CoinScanned = Ours /\ Scanned = Ours
      /\ OursOf(shot'.imported) = Ours
  BY <1>0 DEF BatchPends, UndoPends, Before, NoNote, Ours, OursOf, CoinScanned, Scanned
<1>2. TxsOf(chain) \subseteq Tx /\ Spends(chain) \subseteq TxsOf(chain)
  BY <1>0, BranchSets
<1>3. /\ shot'.best = top /\ shot'.coins = coins /\ shot'.base = base /\ shot'.imported = imported
      /\ \A t \in Tx : shot'.history[t] = "confirmed" <=> history[t] = "confirmed"
  BY <1>0
<1>4. Fits(shot')
  <2>1. /\ \A o \in Tx : coins[o] # "absent" => o \in Ours
        /\ \A o \in Tx : coins[o] = "unspent" => o \in Unspent(chain)
        /\ \A t \in Tx : history[t] = "confirmed" => t \in TxsOf(chain) /\ Touches(t, Ours)
    BY <1>1 DEF ViewInv, Sound, Present
  <2>2. base # None =>
          /\ base \in chain
          /\ \A o \in Ours \intersect TxsOf(chain) : coins[o] # "absent" \/ o \in Spends(Branch[base])
          /\ \A o \in Ours \intersect Unspent(chain) : coins[o] = "unspent"
          /\ \A t \in TxsOf(chain) : Touches(t, Ours) => history[t] = "confirmed"
    BY <1>1 DEF ViewInv, Complete, BaseFits, CoinsKnown, CoinsThere, HistoryThere, Present, Touches
  <2> QED BY <1>1, <1>2, <1>3, <2>1, <2>2 DEF Fits, Touches
<1>5. FilesFit'
  BY <1>0, <1>3, <1>4 DEF ViewInv, FilesFit, Fits, chainVars, viewVars
<1>6. Before' = Before /\ HeightFits'
  BY <1>0 DEF ViewInv, chainVars, viewVars, Before, BatchPends, UndoPends, HeightFits
<1> QED BY <1>0, <1>5, <1>6, ViewStays DEF PendInv, chainVars, viewVars, BatchPends, UndoPends

(* No step changes what the surroundings may do.                           *)
HonestView == "hasty" \notin env => ViewInv

LEMMA NextView == PendInv /\ HonestView /\ [Next]_vars => HonestView'
<1> SUFFICES ASSUME PendInv, HonestView, [Next]_vars, "hasty" \notin env' PROVE ViewInv'
  BY DEF HonestView
<1>1. env' = env
  BY DEF Next, Commit, NotifyBlocks, SetHeight, RemoveConfirmed, EvictConfirmed, Publish,
     Disconnect, NotifyBlockDisconnected, Accept, Insert, Select, Submit, Look, Track, Expire,
     EvictExpired, Import, ScanCoins, ScanHistory, Crash, Snapshot, SaveAndStop, Start, vars, nodeVars
<1>2. ViewInv /\ "hasty" \notin env /\ Inv
  BY <1>1 DEF HonestView, PendInv
<1>3. CASE Commit \/ Disconnect \/ NotifyBlocks \/ NotifyBlockDisconnected
  BY <1>2, <1>3, CommitView, DisconnectView, NotifyBlocksView, NotifyBlockDisconnectedView
<1>4. CASE SetHeight \/ RemoveConfirmed \/ Publish \/ EvictConfirmed \/ EvictExpired
  BY <1>2, <1>4, EndsView, EvictsView
<1>5. CASE Expire \/ UNCHANGED vars \/ \E c \in Caller : Accept(c) \/ Insert(c) \/ Select(c) \/ Submit(c) \/ Look(c) \/ Track(c)
  BY <1>2, <1>5, QuietStepsView
<1>6. CASE Import \/ ScanCoins \/ ScanHistory
  BY <1>2, <1>6, ImportView, ScanCoinsView, ScanHistoryView
<1>7. CASE Crash \/ SaveAndStop \/ Snapshot
  BY <1>2, <1>7, StartsView, SnapshotView
<1> QED BY <1>3, <1>4, <1>5, <1>6, <1>7 DEF Next

(* Between commits the wallet's view is the chain's, in every environment  *)
(* without a hasty shutdown: only its own unspent outputs are spendable,   *)
(* and, unless a block was disconnected that was there when the view was   *)
(* loaded, all of them and all its transactions are there.                 *)
THEOREM ViewIsOfTheChain == Spec => []ViewFollowsChain
<1>1. PendInv /\ HonestView => ViewFollowsChain
  <2> SUFFICES ASSUME PendInv, ViewInv, Settled, "hasty" \notin env
               PROVE  /\ { o \in Tx : coins[o] = "unspent" } \subseteq UnspentOurs
                      /\ height = Depth[top]
                      /\ base # None =>
                           /\ UnspentOurs \subseteq { o \in Tx : coins[o] = "unspent" }
                           /\ { t \in Tx : history[t] = "confirmed" }
                                = { t \in TxsOf(Branch[top]) : Touches(t, Ours) }
    BY DEF HonestView, ViewFollowsChain
  <2>1. /\ ~ BatchPends /\ ~ UndoPends /\ Before = Branch[top] /\ top \in Block
        /\ note.kind = "none" /\ CoinScanned = Ours /\ Scanned = Ours
    BY DEF Settled, Processing, MuFree, NoNote, BatchPends, UndoPends, Before, Ours, OursOf,
       CoinScanned, Scanned, PendInv, Inv, Typed, ChainTypes
  <2>2. TxsOf(Branch[top]) \subseteq Tx
    BY <2>1, BranchSets
  <2>3. \A o \in Tx : coins[o] = "unspent" => o \in UnspentOurs
    BY <2>1 DEF ViewInv, Sound, Present, UnspentOurs, Unspent
  <2>4. height = Depth[top]
    BY <2>1 DEF ViewInv, HeightFits
  <2>5. ASSUME base # None PROVE \A o \in UnspentOurs : o \in Tx /\ coins[o] = "unspent"
    BY <2>1, <2>2, <2>5 DEF ViewInv, Complete, CoinsThere, UnspentOurs, Unspent
  <2>6. \A t \in Tx : history[t] = "confirmed" => t \in TxsOf(Branch[top]) /\ Touches(t, Ours)
    BY <2>1 DEF ViewInv, Sound
  <2>7. ASSUME base # None
        PROVE  \A t \in TxsOf(Branch[top]) : Touches(t, Ours) => t \in Tx /\ history[t] = "confirmed"
    BY <2>1, <2>2, <2>7 DEF ViewInv, Complete, HistoryThere, Touches
  <2> QED BY <2>3, <2>4, <2>5, <2>6, <2>7
<1>2. Init => HonestView
  BY InitView DEF HonestView
<1> QED BY <1>1, <1>2, NextView, PendingInv, PTL DEF Spec
=============================================================================
