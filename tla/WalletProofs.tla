---------------------------- MODULE WalletProofs ----------------------------
(***************************************************************************)
(* What TLAPS proves of Wallet, for any chain and mempool, any number of   *)
(* goroutines and every environment, the late callbacks and the hasty      *)
(* shutdowns included.                                                     *)
(*                                                                         *)
(* The argument: promotion, demotion and eviction all forget a set of      *)
(* pending transactions with everything that was reserved for one of them  *)
(* (ForgetKeepsMarks), whatever set the cascade of an eviction comes to;   *)
(* and only Track reserves, for a transaction that it makes pending.       *)
(***************************************************************************)
EXTENDS Wallet, TLAPS

(* The parts of TypeOK that an action changes together.                    *)
ChainTypes ==
  /\ top \in Block /\ best \in Block
  /\ note \in [kind : {"none", "connect", "disconnect"},
               pc : {"idle", "wallet", "height", "pool", "evict"},
               blocks : SUBSET Block, todo : SUBSET Ordinary]
PoolTypes == pool \subseteq Ordinary /\ removed \subseteq Ordinary
ViewTypes ==
  /\ coins \in [Tx -> CoinStates]
  /\ history \in [Tx -> Marks]
  /\ height \in Nat /\ imported \in BOOLEAN
  /\ scan \in {"idle", "coins", "history"}
  /\ base \in Block \union {None}
PendTypes ==
  /\ pending \subseteq Ordinary
  /\ pendSpent \in [Tx -> Ordinary \union {None}]
  /\ pendOuts \subseteq Ordinary
CallRecord == [pc : {"idle", "submit", "insert", "look", "track"}, tx : Ordinary \union {None},
               snap : SUBSET Ordinary, again : BOOLEAN]
(* ... a goroutine that is not idle has a transaction.                     *)
CallTypes ==
  /\ caller \in [Caller -> CallRecord]
  /\ \A c \in Caller : caller[c].pc # "idle" => caller[c].tx \in Ordinary
NodeTypes == shot \in Files /\ file \in Files /\ env \in Envs

LEMMA StillChain == ChainTypes /\ UNCHANGED chainVars => ChainTypes'
BY DEF ChainTypes, chainVars
LEMMA StillPool == PoolTypes /\ UNCHANGED poolVars => PoolTypes'
BY DEF PoolTypes, poolVars
LEMMA StillView == ViewTypes /\ UNCHANGED viewVars => ViewTypes'
BY DEF ViewTypes, viewVars
LEMMA StillPend == PendTypes /\ UNCHANGED pendVars => PendTypes'
BY DEF PendTypes, pendVars
LEMMA StillCalls == CallTypes /\ UNCHANGED caller => CallTypes'
BY DEF CallTypes
LEMMA StillNode == NodeTypes /\ UNCHANGED nodeVars => NodeTypes'
BY DEF NodeTypes, nodeVars

(* Whatever is forgotten, the marks of the others stay and only theirs.    *)
LEMMA ForgetKeepsMarks ==
  ASSUME NEW S, PendTypes, MarksHaveOwners, Forget(S), imported' = imported
  PROVE  PendTypes' /\ MarksHaveOwners'
<1>1. PendTypes'
  BY DEF PendTypes, Forget
<1>2. \A o \in Tx : pendSpent'[o] # None => pendSpent'[o] \in pending' /\ o \in Ins[pendSpent'[o]]
  <2> SUFFICES ASSUME NEW o \in Tx, pendSpent'[o] # None
               PROVE  pendSpent'[o] \in pending' /\ o \in Ins[pendSpent'[o]]
    OBVIOUS
  <2>1. pendSpent'[o] = pendSpent[o] /\ ~ \E t \in S \intersect pending : o \in Ins[t]
    BY DEF Forget
  <2>2. pendSpent[o] \in pending /\ o \in Ins[pendSpent[o]]
    BY <2>1 DEF MarksHaveOwners
  <2> QED BY <2>1, <2>2 DEF Forget
<1>3. pendOuts' \subseteq pending' \intersect Ours'
  BY DEF Forget, MarksHaveOwners, Ours, OursOf
<1> QED BY <1>1, <1>2, <1>3 DEF MarksHaveOwners

LEMMA ReserveKeepsMarks ==
  ASSUME NEW t \in Ordinary, PendTypes, MarksHaveOwners, Reserve(t), imported' = imported
  PROVE  PendTypes' /\ MarksHaveOwners'
<1>1. t \in Tx /\ None \notin Tx
  BY WalletAssumption, TreeAssumption DEF WalletAssumption, TreeAssumption
<1>2. PendTypes'
  BY <1>1 DEF PendTypes, Reserve
<1>3. \A o \in Tx : pendSpent'[o] # None => pendSpent'[o] \in pending' /\ o \in Ins[pendSpent'[o]]
  BY DEF Reserve, MarksHaveOwners, PendTypes
<1>4. pendOuts' \subseteq pending' \intersect Ours'
  BY DEF Reserve, MarksHaveOwners, Ours, OursOf
<1> QED BY <1>2, <1>3, <1>4 DEF MarksHaveOwners

LEMMA StillMarks ==
  ASSUME PendTypes, MarksHaveOwners, UNCHANGED pendVars, imported \in BOOLEAN,
         imported' = imported \/ imported' = TRUE
  PROVE  PendTypes' /\ MarksHaveOwners'
<1>1. PendTypes'
  BY DEF PendTypes, pendVars
<1>2. Ours \subseteq Ours'
  BY DEF Ours, OursOf
<1> QED BY <1>1, <1>2 DEF MarksHaveOwners, pendVars

LEMMA NoneHold ==
  ASSUME pending' = {}, pendOuts' = {}, pendSpent' = [o \in Tx |-> None]
  PROVE  PendTypes' /\ MarksHaveOwners'
BY DEF PendTypes, MarksHaveOwners

Typed == ChainTypes /\ PoolTypes /\ ViewTypes /\ PendTypes /\ CallTypes /\ NodeTypes

LEMMA TypedSuffices == Typed => TypeOK
BY DEF Typed, TypeOK, ChainTypes, PoolTypes, ViewTypes, PendTypes, CallTypes, CallRecord, NodeTypes

(* The inductive invariant.                                                *)
Inv == Typed /\ MarksHaveOwners

LEMMA Facts ==
  /\ Genesis \in Block /\ None \notin Tx
  /\ \A b \in Block : Depth[b] \in Nat /\ Branch[b] \in SUBSET Block
  /\ \A b \in Block \ {Genesis} : Parent[b] \in Block
  /\ Ordinary \subseteq Tx /\ Early \subseteq Tx /\ Late \subseteq Tx
BY WalletAssumption, TreeAssumption DEF WalletAssumption, TreeAssumption

LEMMA NoneTyped ==
  /\ NoFile \in Files
  /\ NoNote \in [kind : {"none", "connect", "disconnect"},
                 pc : {"idle", "wallet", "height", "pool", "evict"},
                 blocks : SUBSET Block, todo : SUBSET Ordinary]
  /\ NoCall \in CallRecord /\ NoCall.pc = "idle"
BY DEF NoCall, CallRecord, NoFile, Files, NoNote, CoinStates, Marks

LEMMA InitInv == Init => Inv
<1> SUFFICES ASSUME Init PROVE Inv
  OBVIOUS
<1>1. ChainTypes /\ PoolTypes
  BY Facts, NoneTyped DEF Init, ChainTypes, PoolTypes
<1>2. ViewTypes
  BY Facts DEF Init, ViewTypes, NoFile, CoinStates, Marks
<1>3. PendTypes /\ MarksHaveOwners
  BY DEF Init, PendTypes, MarksHaveOwners
<1>4. CallTypes /\ NodeTypes
  BY NoneTyped DEF Init, CallTypes, NodeTypes
<1> QED BY <1>1, <1>2, <1>3, <1>4 DEF Inv, Typed

(* Evicting what the cascade comes to.                                     *)
LEMMA EvictKeeps ==
  ASSUME NEW t, Inv, EvictPendingTx(t)
  PROVE  ViewTypes' /\ PendTypes' /\ MarksHaveOwners'
<1>1. Forget(Evicted(t)) /\ imported' = imported
  BY DEF EvictPendingTx
<1>2. PendTypes' /\ MarksHaveOwners'
  BY <1>1, ForgetKeepsMarks DEF Inv, Typed
<1>3. \A x \in Tx : history'[x] \in Marks
  BY DEF EvictPendingTx, Inv, Typed, ViewTypes, Marks
<1>4. ViewTypes'
  BY <1>3 DEF EvictPendingTx, Inv, Typed, ViewTypes
<1> QED BY <1>2, <1>4

-----------------------------------------------------------------------------
(* Blocks.                                                                 *)

LEMMA CommitKeeps == Inv /\ Commit => Inv'
<1> SUFFICES ASSUME Inv, Commit PROVE Inv'
  OBVIOUS
<1>1. ChainTypes'
  BY Facts DEF Commit, Inv, Typed, ChainTypes, NoNote
<1>2. PendTypes' /\ MarksHaveOwners'
  BY StillMarks DEF Commit, viewVars, Inv, Typed, ViewTypes
<1> QED BY <1>1, <1>2, StillPool, StillView, StillCalls, StillNode DEF Commit, Inv, Typed

LEMMA NotifyBlocksKeeps == Inv /\ NotifyBlocks => Inv'
<1> SUFFICES ASSUME Inv, NotifyBlocks PROVE Inv'
  OBVIOUS
<1>1. ChainTypes'
  BY DEF NotifyBlocks, Inv, Typed, ChainTypes
<1>2. /\ \A o \in Tx : coins'[o] \in CoinStates
      /\ \A t \in Tx : history'[t] \in Marks
      /\ coins' = [o \in Tx |-> coins'[o]] /\ history' = [t \in Tx |-> history'[t]]
  BY DEF NotifyBlocks, Inv, Typed, ViewTypes, CoinStates, Marks
<1>3. ViewTypes'
  BY <1>2 DEF NotifyBlocks, Inv, Typed, ViewTypes
<1>4. PendTypes' /\ MarksHaveOwners'
  BY ForgetKeepsMarks DEF NotifyBlocks, Inv, Typed
<1> QED BY <1>1, <1>3, <1>4, StillPool, StillCalls, StillNode DEF NotifyBlocks, Inv, Typed

LEMMA SetHeightKeeps == Inv /\ SetHeight => Inv'
<1> SUFFICES ASSUME Inv, SetHeight PROVE Inv'
  OBVIOUS
<1>1. ChainTypes'
  BY NoneTyped DEF SetHeight, Inv, Typed, ChainTypes
<1>2. height' \in Nat
  BY Facts DEF SetHeight, Inv, Typed, ChainTypes, ViewTypes
<1>3. ViewTypes'
  BY <1>2 DEF SetHeight, Inv, Typed, ViewTypes
<1>4. PendTypes' /\ MarksHaveOwners'
  BY StillMarks DEF SetHeight, Inv, Typed, ViewTypes
<1> QED BY <1>1, <1>3, <1>4, StillPool, StillCalls, StillNode DEF SetHeight, Inv, Typed

LEMMA RemoveConfirmedKeeps == Inv /\ RemoveConfirmed => Inv'
<1> SUFFICES ASSUME Inv, RemoveConfirmed PROVE Inv'
  OBVIOUS
<1>1. ChainTypes'
  BY DEF RemoveConfirmed, Inv, Typed, ChainTypes, PoolTypes
<1>2. PoolTypes'
  BY DEF RemoveConfirmed, Inv, Typed, PoolTypes
<1>3. PendTypes' /\ MarksHaveOwners'
  BY StillMarks DEF RemoveConfirmed, viewVars, Inv, Typed, ViewTypes
<1> QED BY <1>1, <1>2, <1>3, StillView, StillCalls, StillNode DEF RemoveConfirmed, Inv, Typed

LEMMA EvictConfirmedKeeps == Inv /\ EvictConfirmed => Inv'
<1> SUFFICES ASSUME Inv, EvictConfirmed PROVE Inv'
  OBVIOUS
<1>1. ChainTypes'
  BY DEF EvictConfirmed, Inv, Typed, ChainTypes
<1>2. PICK t \in note.todo : EvictPendingTx(t)
  BY DEF EvictConfirmed
<1>3. ViewTypes' /\ PendTypes' /\ MarksHaveOwners'
  BY <1>2, EvictKeeps
<1> QED BY <1>1, <1>3, StillPool, StillCalls, StillNode DEF EvictConfirmed, Inv, Typed

LEMMA PublishKeeps == Inv /\ Publish => Inv'
<1> SUFFICES ASSUME Inv, Publish PROVE Inv'
  OBVIOUS
<1>1. ChainTypes'
  BY NoneTyped DEF Publish, Inv, Typed, ChainTypes
<1>2. PendTypes' /\ MarksHaveOwners'
  BY StillMarks DEF Publish, viewVars, Inv, Typed, ViewTypes
<1> QED BY <1>1, <1>2, StillPool, StillView, StillCalls, StillNode DEF Publish, Inv, Typed

LEMMA DisconnectKeeps == Inv /\ Disconnect => Inv'
<1> SUFFICES ASSUME Inv, Disconnect PROVE Inv'
  OBVIOUS
<1>1. ChainTypes'
  BY Facts DEF Disconnect, Inv, Typed, ChainTypes, NoNote
<1>2. PendTypes' /\ MarksHaveOwners'
  BY StillMarks DEF Disconnect, viewVars, Inv, Typed, ViewTypes
<1> QED BY <1>1, <1>2, StillPool, StillView, StillCalls, StillNode DEF Disconnect, Inv, Typed

LEMMA NotifyBlockDisconnectedKeeps == Inv /\ NotifyBlockDisconnected => Inv'
<1> SUFFICES ASSUME Inv, NotifyBlockDisconnected PROVE Inv'
  OBVIOUS
<1>1. ChainTypes'
  BY DEF NotifyBlockDisconnected, Inv, Typed, ChainTypes
<1>2. /\ \A o \in Tx : coins'[o] \in CoinStates
      /\ \A t \in Tx : history'[t] \in Marks
      /\ coins' = [o \in Tx |-> coins'[o]] /\ history' = [t \in Tx |-> history'[t]]
  BY DEF NotifyBlockDisconnected, Inv, Typed, ViewTypes, CoinStates, Marks
<1>3. ViewTypes'
  BY <1>2 DEF NotifyBlockDisconnected, Inv, Typed, ViewTypes
<1>4. PendTypes' /\ MarksHaveOwners'
  BY ForgetKeepsMarks DEF NotifyBlockDisconnected, Inv, Typed
<1> QED BY <1>1, <1>3, <1>4, StillPool, StillCalls, StillNode
        DEF NotifyBlockDisconnected, Inv, Typed

-----------------------------------------------------------------------------
(* The mempool and its callbacks.                                          *)

LEMMA CallTyped ==
  ASSUME NEW c \in Caller, NEW t \in Ordinary, NEW again \in BOOLEAN,
         NEW stage \in {"submit", "insert", "look"}, CallTypes, Call(c, stage, t, again)
  PROVE  CallTypes'
<1>1. [NoCall EXCEPT !.pc = stage, !.tx = t, !.again = again] \in CallRecord
  BY DEF NoCall, CallRecord
<1> QED BY <1>1 DEF Call, CallTypes, CallRecord

LEMMA NoCallTyped ==
  ASSUME NEW c \in Caller, CallTypes, caller' = [caller EXCEPT ![c] = NoCall]
  PROVE  CallTypes'
BY NoneTyped DEF CallTypes

LEMMA ReturnTyped ==
  ASSUME NEW c \in Caller, CallTypes, caller[c].pc # "idle", Return(c)
  PROVE  CallTypes'
<1> DEFINE rest == [caller[c] EXCEPT !.pc = "look", !.snap = {}, !.again = FALSE]
<1>1. rest \in CallRecord /\ rest.tx \in Ordinary
  BY DEF CallTypes, CallRecord
<1>2. caller' = [caller EXCEPT ![c] = rest] \/ caller' = [caller EXCEPT ![c] = NoCall]
  BY DEF Return
<1>3. NoCall \in CallRecord /\ NoCall.pc = "idle"
  BY NoneTyped
<1> HIDE DEF rest
<1> QED BY <1>1, <1>2, <1>3 DEF CallTypes

LEMMA AcceptKeeps == ASSUME NEW c \in Caller, Inv, Accept(c) PROVE Inv'
<1>1. CallTypes'
  BY CallTyped DEF Accept, Inv, Typed
<1>2. PendTypes' /\ MarksHaveOwners'
  BY StillMarks DEF Accept, viewVars, Inv, Typed, ViewTypes
<1> QED BY <1>1, <1>2, StillChain, StillPool, StillView, StillNode DEF Accept, Inv, Typed

(* What gets into the mempool is ordinary.                                 *)
LEMMA InsertKeeps == ASSUME NEW c \in Caller, Inv, Insert(c) PROVE Inv'
<1> DEFINE t == caller[c].tx
<1>1. t \in Ordinary /\ caller[c].again \in BOOLEAN /\ CallTypes
  BY DEF Insert, Inv, Typed, CallTypes, CallRecord
<1>2. PendTypes' /\ MarksHaveOwners'
  BY StillMarks DEF Insert, viewVars, Inv, Typed, ViewTypes
<1>3. PoolTypes'
  BY <1>1 DEF Insert, Inv, Typed, PoolTypes
<1>4. CallTypes'
  BY <1>1, CallTyped, NoCallTyped DEF Insert
<1> QED BY <1>2, <1>3, <1>4, StillChain, StillView, StillNode DEF Insert, Inv, Typed

LEMMA SelectKeeps == ASSUME NEW c \in Caller, Inv, Select(c) PROVE Inv'
<1>1. CallTypes'
  BY CallTyped DEF Select, Inv, Typed
<1>2. PendTypes' /\ MarksHaveOwners'
  BY StillMarks DEF Select, viewVars, Inv, Typed, ViewTypes
<1> QED BY <1>1, <1>2, StillChain, StillPool, StillView, StillNode DEF Select, Inv, Typed

LEMMA SubmitKeeps == ASSUME NEW c \in Caller, Inv, Submit(c) PROVE Inv'
<1>1. caller[c].tx \in Ordinary /\ CallTypes
  BY DEF Submit, Inv, Typed, CallTypes
<1>2. CallTypes'
  BY <1>1, CallTyped, NoCallTyped DEF Submit
<1>3. PendTypes' /\ MarksHaveOwners'
  BY StillMarks DEF Submit, viewVars, Inv, Typed, ViewTypes
<1> QED BY <1>2, <1>3, StillChain, StillPool, StillView, StillNode DEF Submit, Inv, Typed

LEMMA LookKeeps == ASSUME NEW c \in Caller, Inv, Look(c) PROVE Inv'
<1>1. CallTypes'
  <2>1. caller[c].pc = "look"
    BY DEF Look
  <2>2. CASE Return(c)
    BY <2>1, <2>2, ReturnTyped DEF Inv, Typed
  <2>3. CASE caller' = [caller EXCEPT ![c].pc = "track", ![c].snap = pendOuts]
    BY <2>3, <2>1 DEF Inv, Typed, CallTypes, CallRecord, PendTypes
  <2> QED BY <2>2, <2>3 DEF Look
<1>2. PendTypes' /\ MarksHaveOwners'
  BY StillMarks DEF Look, viewVars, Inv, Typed, ViewTypes
<1> QED BY <1>1, <1>2, StillChain, StillPool, StillView, StillNode DEF Look, Inv, Typed

LEMMA TrackKeeps == ASSUME NEW c \in Caller, Inv, Track(c) PROVE Inv'
<1>1. CallTypes'
  BY ReturnTyped DEF Track, Inv, Typed
<1>2. imported' = imported /\ imported \in BOOLEAN
  BY DEF Track, viewVars, Inv, Typed, ViewTypes
<1>3. PendTypes' /\ MarksHaveOwners'
  <2>1. CASE Reserve(caller[c].tx)
    <3>1. caller[c].tx \in Ordinary
      BY DEF Track, Inv, Typed, CallTypes
    <3> QED BY <2>1, <3>1, <1>2, ReserveKeepsMarks DEF Inv, Typed
  <2>2. CASE UNCHANGED pendVars
    BY <2>2, <1>2, StillMarks DEF Inv, Typed
  <2> QED BY <2>1, <2>2 DEF Track
<1> QED BY <1>1, <1>3, StillChain, StillPool, StillView, StillNode DEF Track, Inv, Typed

LEMMA ExpireKeeps == Inv /\ Expire => Inv'
<1> SUFFICES ASSUME Inv, Expire PROVE Inv'
  OBVIOUS
<1>1. PoolTypes'
  BY DEF Expire, Inv, Typed, PoolTypes
<1>2. PendTypes' /\ MarksHaveOwners'
  BY StillMarks DEF Expire, viewVars, Inv, Typed, ViewTypes
<1> QED BY <1>1, <1>2, StillChain, StillView, StillCalls, StillNode DEF Expire, Inv, Typed

LEMMA EvictExpiredKeeps == Inv /\ EvictExpired => Inv'
<1> SUFFICES ASSUME Inv, EvictExpired PROVE Inv'
  OBVIOUS
<1>1. PICK t \in removed : EvictPendingTx(t) /\ removed' = removed \ {t}
  BY DEF EvictExpired
<1>2. PoolTypes'
  BY <1>1 DEF EvictExpired, Inv, Typed, PoolTypes
<1>3. ViewTypes' /\ PendTypes' /\ MarksHaveOwners'
  BY <1>1, EvictKeeps
<1> QED BY <1>2, <1>3, StillChain, StillCalls, StillNode DEF EvictExpired, Inv, Typed

-----------------------------------------------------------------------------
(* Import, stop and start.                                                 *)

LEMMA ImportKeeps == Inv /\ Import => Inv'
<1> SUFFICES ASSUME Inv, Import PROVE Inv'
  OBVIOUS
<1>1. ViewTypes'
  BY DEF Import, Inv, Typed, ViewTypes
<1>2. PendTypes' /\ MarksHaveOwners'
  BY StillMarks DEF Import, Inv, Typed, ViewTypes
<1> QED BY <1>1, <1>2, StillChain, StillPool, StillCalls, StillNode DEF Import, Inv, Typed

LEMMA ScanCoinsKeeps == Inv /\ ScanCoins => Inv'
<1> SUFFICES ASSUME Inv, ScanCoins PROVE Inv'
  OBVIOUS
<1>1. /\ \A o \in Tx : coins'[o] \in CoinStates
      /\ coins' = [o \in Tx |-> coins'[o]]
  BY DEF ScanCoins, Inv, Typed, ViewTypes, CoinStates
<1>2. ViewTypes'
  BY <1>1 DEF ScanCoins, Inv, Typed, ViewTypes, ChainTypes
<1>3. PendTypes' /\ MarksHaveOwners'
  BY StillMarks DEF ScanCoins, Inv, Typed, ViewTypes
<1> QED BY <1>2, <1>3, StillChain, StillPool, StillCalls, StillNode DEF ScanCoins, Inv, Typed

LEMMA ScanHistoryKeeps == Inv /\ ScanHistory => Inv'
<1> SUFFICES ASSUME Inv, ScanHistory PROVE Inv'
  OBVIOUS
<1>1. /\ \A t \in Tx : history'[t] \in Marks
      /\ history' = [t \in Tx |-> history'[t]]
  BY DEF ScanHistory, Inv, Typed, ViewTypes, Marks
<1>2. ViewTypes'
  BY <1>1 DEF ScanHistory, Inv, Typed, ViewTypes
<1>3. PendTypes' /\ MarksHaveOwners'
  BY StillMarks DEF ScanHistory, Inv, Typed, ViewTypes
<1> QED BY <1>2, <1>3, StillChain, StillPool, StillCalls, StillNode DEF ScanHistory, Inv, Typed

LEMMA StartKeeps ==
  ASSUME NEW f \in Files, Inv, Start(f)
  PROVE  Inv'
<1>1. ChainTypes' /\ PoolTypes'
  BY NoneTyped DEF Start, Inv, Typed, ChainTypes, PoolTypes
<1>2. ViewTypes'
  <2>1. height' \in Nat /\ scan' = "idle" /\ imported' \in BOOLEAN
    BY Facts DEF Start, Inv, Typed, ChainTypes, ViewTypes
  <2>2. CASE coins' = f.coins /\ history' = f.history /\ base' = f.base
    BY <2>1, <2>2 DEF Files, ViewTypes
  <2>3. CASE ~ (f.best = top /\ f.imported = imported)
    BY <2>1, <2>3 DEF Start, Inv, Typed, ChainTypes, ViewTypes, CoinStates, Marks
  <2> QED BY <2>2, <2>3 DEF Start
<1>3. PendTypes' /\ MarksHaveOwners'
  BY NoneHold DEF Start
<1>4. CallTypes' /\ NodeTypes'
  BY NoneTyped DEF Start, Inv, Typed, CallTypes, NodeTypes
<1> QED BY <1>1, <1>2, <1>3, <1>4 DEF Inv, Typed

LEMMA SnapshotKeeps == Inv /\ Snapshot => Inv'
<1> SUFFICES ASSUME Inv, Snapshot PROVE Inv'
  OBVIOUS
<1>1. [t \in Tx |-> IF history[t] = "evicted" THEN "absent" ELSE history[t]] \in [Tx -> Marks]
  BY DEF Inv, Typed, ViewTypes, Marks
<1>2. NodeTypes'
  BY <1>1 DEF Snapshot, Inv, Typed, ChainTypes, ViewTypes, NodeTypes, Files
<1>3. PendTypes' /\ MarksHaveOwners'
  BY StillMarks DEF Snapshot, viewVars, Inv, Typed, ViewTypes
<1> QED BY <1>2, <1>3, StillChain, StillPool, StillView, StillCalls DEF Snapshot, Inv, Typed

LEMMA RestartsKeep == Inv /\ (Crash \/ SaveAndStop) => Inv'
<1> SUFFICES ASSUME Inv, Crash \/ SaveAndStop PROVE Inv'
  OBVIOUS
<1>1. CASE Crash
  BY <1>1, StartKeeps DEF Crash, Inv, Typed, NodeTypes
<1>2. CASE SaveAndStop
  <2>1. [shot EXCEPT !.best = best] \in Files
    BY DEF Inv, Typed, NodeTypes, ChainTypes, Files
  <2> QED BY <1>2, <2>1, StartKeeps DEF SaveAndStop
<1> QED BY <1>1, <1>2

LEMMA StutterKeeps == Inv /\ UNCHANGED vars => Inv'
<1> SUFFICES ASSUME Inv, UNCHANGED vars PROVE Inv'
  OBVIOUS
<1>1. PendTypes' /\ MarksHaveOwners'
  BY StillMarks DEF vars, viewVars, Inv, Typed, ViewTypes
<1> QED BY <1>1, StillChain, StillPool, StillView, StillCalls, StillNode DEF vars, Inv, Typed

LEMMA NextKeeps == Inv /\ [Next]_vars => Inv'
<1> SUFFICES ASSUME Inv, [Next]_vars PROVE Inv'
  OBVIOUS
<1>1. CASE Commit \/ NotifyBlocks \/ SetHeight \/ RemoveConfirmed \/ EvictConfirmed \/ Publish
           \/ Disconnect \/ NotifyBlockDisconnected
  BY <1>1, CommitKeeps, NotifyBlocksKeeps, SetHeightKeeps, RemoveConfirmedKeeps,
     EvictConfirmedKeeps, PublishKeeps, DisconnectKeeps, NotifyBlockDisconnectedKeeps
<1>2. CASE \E c \in Caller : Accept(c) \/ Insert(c) \/ Select(c) \/ Submit(c) \/ Look(c) \/ Track(c)
  BY <1>2, AcceptKeeps, InsertKeeps, SelectKeeps, SubmitKeeps, LookKeeps, TrackKeeps
<1>3. CASE Expire \/ EvictExpired \/ Import \/ ScanCoins \/ ScanHistory \/ Snapshot
  BY <1>3, ExpireKeeps, EvictExpiredKeeps, ImportKeeps, ScanCoinsKeeps, ScanHistoryKeeps,
     SnapshotKeeps
<1>4. CASE Crash \/ SaveAndStop
  BY <1>4, RestartsKeep
<1>5. CASE UNCHANGED vars
  BY <1>5, StutterKeeps
<1> QED BY <1>1, <1>2, <1>3, <1>4, <1>5 DEF Next

LEMMA WalletInv == Spec => []Inv
BY InitInv, NextKeeps, PTL DEF Spec

(* The wallet's tables, its pending state, its calls and its cache file    *)
(* stay within their types.                                                *)
THEOREM WalletTypes == Spec => []TypeOK
<1>1. Inv => TypeOK
  BY TypedSuffices DEF Inv
<1> QED BY <1>1, WalletInv, PTL

(* However callbacks, batches, rollbacks, evictions and restarts           *)
(* interleave, late ones included, an output is reserved only for a pending*)
(* transaction that spends it: no coin is lost to SelectUTXOs for good.    *)
THEOREM MarksEndWithTheirOwner == Spec => []MarksHaveOwners
<1>1. Inv => MarksHaveOwners
  BY DEF Inv
<1> QED BY <1>1, WalletInv, PTL

-----------------------------------------------------------------------------
(* The chain and the mempool below.                                        *)

LEMMA BelowLedger ==
  \A b : Below!UnspentOn(b) = TxsOf(Branch[b]) \ Spends(Branch[b])
BY DEF Below!UnspentOn, Below!TxsOf, Below!Spends, TxsOf, Spends

BelowSees == <<top, TxsOf(Branch[top]) \ Spends(Branch[top]), pool>>

(* A batch or a disconnected block leaves the pool as it is.               *)
LEMMA BelowChain == ASSUME ChainTypes, Commit \/ Disconnect PROVE Below!ChainMoves
<1>1. pool' = pool /\ (TxsOf(Branch[top]) \ Spends(Branch[top]))' = Below!UnspentOn(top')
  BY BelowLedger DEF Commit, Disconnect, poolVars
<1>2. CASE Commit
  BY <1>1, <1>2 DEF Commit, Below!ChainMoves, Below!Next, Below!Extend
<1>3. CASE Disconnect
  <2>1. top \in Block \ {Genesis} /\ top' = Parent[top]
    BY <1>3 DEF Disconnect, ChainTypes
  <2>2. top' \in Block /\ Depth[top] = Depth[top'] + 1 /\ Branch[top] = Branch[top'] \union {top}
        /\ Depth[top'] \in Nat
    BY <2>1, TreeAssumption
  <2>3. top' \in Branch[top']
    <3>1. CASE top' = Genesis
      BY <3>1, TreeAssumption
    <3>2. CASE top' # Genesis
      BY <2>2, <3>2, TreeAssumption
    <3> QED BY <3>1, <3>2
  <2>4. top' \in Branch[top] /\ top' # top
    BY <2>2, <2>3
  <2> QED BY <1>1, <2>4 DEF Below!ChainMoves, Below!Next, Below!Retract
<1> QED BY <1>2, <1>3

(* The insertion looks for conflicts with what is there by then; with its  *)
(* own inputs it would conflict, so it is not there yet.                   *)
LEMMA BelowEnter ==
  ASSUME CallTypes, NEW c \in Caller, Insert(c)
  PROVE  Below!Enter \/ UNCHANGED BelowSees
<1> DEFINE t == caller[c].tx
<1>1. t \in Ordinary /\ Ins[t] # {} /\ top' = top
  BY WalletAssumption DEF Insert, CallTypes, chainVars
<1>2. CASE \A s \in pool : Ins[s] \intersect Ins[t] = {}
  <2>1. t \in Ordinary \ pool /\ pool' = pool \union {t}
    BY <1>1, <1>2 DEF Insert
  <2> QED BY <1>1, <1>2, <2>1 DEF Below!Enter
<1>3. CASE ~ \A s \in pool : Ins[s] \intersect Ins[t] = {}
  <2>1. pool' = pool
    BY <1>3 DEF Insert
  <2> QED BY <1>1, <2>1 DEF BelowSees
<1> QED BY <1>2, <1>3

(* Everything else takes out of the pool, if anything.                     *)
LEMMA BelowLeave ==
  ASSUME Next, ~ Commit, ~ Disconnect, \A c \in Caller : ~ Insert(c)
  PROVE  top' = top /\ pool' \subseteq pool
<1>1. CASE RemoveConfirmed \/ Expire
  BY <1>1 DEF RemoveConfirmed, Expire, chainVars
<1>2. CASE Crash \/ SaveAndStop
  BY <1>2 DEF Crash, SaveAndStop, Start
<1> QED
  BY <1>1, <1>2
     DEF Next, NotifyBlocks, SetHeight, EvictConfirmed, Publish, NotifyBlockDisconnected, Accept, Select,
         Submit, Look, Track, EvictExpired, Import, ScanCoins, ScanHistory, Snapshot, chainVars, poolVars

LEMMA BelowStep ==
  ChainTypes /\ CallTypes /\ [Next]_vars => [Below!ChainMoves \/ Below!Enter \/ Below!Leave]_BelowSees
<1> SUFFICES ASSUME ChainTypes, CallTypes, [Next]_vars
             PROVE  [Below!ChainMoves \/ Below!Enter \/ Below!Leave]_BelowSees
  OBVIOUS
<1>1. CASE UNCHANGED vars
  BY <1>1 DEF vars, chainVars, poolVars, BelowSees
<1>2. CASE Next /\ ~ Commit /\ ~ Disconnect /\ \A c \in Caller : ~ Insert(c)
  <2>1. top' = top /\ pool' \subseteq pool
    BY <1>2, BelowLeave
  <2>2. pool' = pool \ (pool \ pool') /\ pool \ pool' \in SUBSET pool
    BY <2>1
  <2>3. Below!Leave
    BY <2>1, <2>2 DEF Below!Leave
  <2> QED BY <2>3
<1> QED BY <1>1, <1>2, BelowChain, BelowEnter

(* Whatever the environment, what the wallet is told of is a chain and a   *)
(* mempool as TxPool has them: the model invents no step that ChainStore   *)
(* and Mempool are shown never to take.                                    *)
THEOREM WalletAboveItsContract == Spec => ContractBelow
<1>1. Init => Below!PoolInit
  BY BelowLedger DEF Init, Below!PoolInit, Below!Init
<1>2. Inv => ChainTypes /\ CallTypes
  BY DEF Inv, Typed
<1> QED BY <1>1, <1>2, BelowStep, WalletInv, PTL DEF Spec, ContractBelow, Below!PoolSpec, BelowSees
=============================================================================
