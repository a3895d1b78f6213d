------------------------------- MODULE Wallet -------------------------------
(***************************************************************************)
(* The wallet's view of the chain and of the mempool.  The block chain     *)
(* tells it of a batch after the commit, and of a disconnected block after *)
(* its own; the mempool calls it, outside its locks, for a transaction it  *)
(* accepts and for one it removes; a key may be imported, which scans the  *)
(* committed tables while all of these go on; and a restart loads the view *)
(* from txcache.dat or scans for it.                                       *)
(*                                                                         *)
(* The chain is what Ledger promises: the branch that ends in top.  The    *)
(* mempool is what TxPool promises above it, and what enters it could be   *)
(* spent when it was checked.                                              *)
(***************************************************************************)
EXTENDS ChainTree, FiniteSets

CONSTANTS
  Caller,       \* goroutines that call AddTransaction: peers, and senders
  Ordinary,     \* transactions other than coinbases and coinstakes
  Early,        \* the outputs that pay an address the wallet always had
  Late,         \* the outputs that pay the address that may be imported
  MaxPending,   \* MaxPendingTransactions
  Envs          \* what the surroundings may do: sets of EnvKinds, one of them
                \* for each behaviour

(* "late":     the mempool may change while its callbacks for an earlier   *)
(*             change are under way                                        *)
(* "rollback": blocks may be disconnected                                  *)
(* "send":     the wallet's own transactions, beside those of peers        *)
(* "import":   the late address may be imported                            *)
(* "expire":   transactions may leave the mempool by age                   *)
(* "restart":  the node may stop or crash, and start again                 *)
(* "hasty":    a shutdown may go on while others do (ShutdownTimeout)      *)
EnvKinds == {"late", "rollback", "send", "import", "expire", "restart", "hasty"}

(* Inputs are outputs of the branch.                                       *)
Sourced == \A b \in Block : \A t \in BlockTxs[b] : Ins[t] \subseteq TxsOf(Branch[b])

ASSUME WalletAssumption ==
  /\ HonestTree /\ Sourced
  /\ Ordinary \subseteq Tx
  /\ \A t \in Ordinary : Ins[t] # {}
  /\ Early \subseteq Tx
  /\ Late \subseteq Tx
  /\ MaxPending \in Nat
  /\ Envs \subseteq SUBSET EnvKinds

VARIABLES
  top,        \* the last block of the committed branch
  best,       \* bestHash
  note,       \* the notification of the last commit, under processingMu
  pool,       \* the transactions of the mempool
  removed,    \* expired ones, onRemoveTransaction not yet called
  coins,      \* utxos: absent, or present with Spendable or without
  history,    \* transactions: absent, evicted (BlockHeight -1) or confirmed
  height,     \* cachedChainHeight
  imported,   \* whether the late address is in addresses
  scan,       \* ImportPrivateKey, which holds mu throughout
  pending,    \* keys of pendingTxs
  pendSpent,  \* pendingSpent: output -> pending transaction, None: no entry
  pendOuts,   \* keys of pendingUTXOs
  caller,     \* per goroutine, its AddTransaction or its send
  shot,       \* what SaveTransactionCache took of the wallet
  file,       \* txcache.dat
  env,        \* the one of Envs that this behaviour has
  base        \* (history) the view has every output unspent at this block or
              \* since; None after a rollback below it

chainVars == <<top, best, note>>
poolVars == <<pool, removed>>
viewVars == <<coins, history, height, imported, scan, base>>
pendVars == <<pending, pendSpent, pendOuts>>
nodeVars == <<shot, file, env>>
vars == <<chainVars, poolVars, viewVars, pendVars, caller, nodeVars>>

CoinStates == {"absent", "unspent", "spent"}
Marks == {"absent", "evicted", "confirmed"}
NoNote == [kind |-> "none", pc |-> "idle", blocks |-> {}, todo |-> {}]
NoCall == [pc |-> "idle", tx |-> None, snap |-> {}, again |-> FALSE]
NoFile == [best |-> None, coins |-> [o \in Tx |-> "absent"], history |-> [t \in Tx |-> "absent"],
           imported |-> FALSE, base |-> None]

OursOf(imp) == Early \union (IF imp THEN Late ELSE {})
Ours == OursOf(imported)
Present == { o \in Tx : coins[o] # "absent" }

MuFree == scan = "idle"
Processing == note # NoNote
Up == shot = NoFile \/ "hasty" \in env
CallsDone == \A c \in Caller : caller[c].pc \in {"idle", "submit", "insert"}
CallbacksDone == CallsDone /\ removed = {} /\ note.todo = {}
MayChangePool == "late" \in env \/ CallbacksDone

(* categorizeTransactionLocked names an address: of an output that is      *)
(* ours, or of an input that checkInput finds.                             *)
Touches(t, found) == t \in Ours \/ Ins[t] \intersect found # {}

Init ==
  /\ top = Genesis /\ best = Genesis /\ note = NoNote
  /\ pool = {} /\ removed = {}
  /\ coins = NoFile.coins /\ history = NoFile.history
  /\ height = 0 /\ imported = FALSE /\ scan = "idle" /\ base = Genesis
  /\ pending = {} /\ pendOuts = {}
  /\ pendSpent = [o \in Tx |-> None]
  /\ caller = [c \in Caller |-> NoCall]
  /\ shot = NoFile /\ file = NoFile
  /\ env \in Envs

-----------------------------------------------------------------------------
(* Pending state.                                                          *)

(* Bug: the outputs stay reserved.                                         *)
ForgetKeepingMarks(S) ==
  /\ pending' = pending \ S
  /\ pendSpent' = pendSpent
  /\ pendOuts' = pendOuts \ (S \intersect pending)

(* What promotion, demotion and eviction all do with transactions that are *)
(* pending.                                                                *)
Forget(S) ==
  /\ pending' = pending \ S
  /\ pendSpent' = [o \in Tx |-> IF \E t \in S \intersect pending : o \in Ins[t]
                                THEN None ELSE pendSpent[o]]
  /\ pendOuts' = pendOuts \ (S \intersect pending)

(* evictPendingTxCollectLocked: a queue that starts with one transaction   *)
(* and comes to what, in turn, spends an output of one that was in it.     *)
Evicted(first) ==
  LET Cascade(S) ==
        /\ first \in pending => first \in S
        /\ \A s \in S : pendSpent[s] \in pending => pendSpent[s] \in S
  IN  { t \in pending : \A S \in SUBSET pending : Cascade(S) => t \in S }

EvictPendingTx(t) ==
  /\ MuFree
  /\ Forget(Evicted(t))
  /\ history' = [x \in Tx |-> IF x \in Evicted(t) /\ history[x] = "absent"
                              THEN "evicted" ELSE history[x]]
  /\ UNCHANGED <<coins, height, imported, scan, base>>

-----------------------------------------------------------------------------
(* Blocks.  processBatchInternal and disconnectBlock hold processingMu from*)
(* the commit to the end of the notifications.                             *)

Commit ==
  /\ ~ Processing /\ Up
  /\ \E b \in Block : /\ top \in Branch[b] /\ b # top
                      /\ top' = b
                      /\ note' = [NoNote EXCEPT !.kind = "connect", !.pc = "wallet",
                                                !.blocks = Branch[b] \ Branch[top]]
  /\ UNCHANGED <<best, poolVars, viewVars, pendVars, caller, nodeVars>>

(* NotifyBlocks: processBlock for each block, the outputs that are ours    *)
(* and the inputs that are known, then the promotion of what was pending.  *)
NotifyBlocks ==
  LET txs == TxsOf(note.blocks)
      found == Present \union (txs \intersect Ours)
  IN /\ note.kind = "connect" /\ note.pc = "wallet" /\ MuFree
     /\ coins' = [o \in Tx |-> IF o \in Spends(note.blocks) \intersect found THEN "spent"
                               ELSE IF o \in txs \intersect Ours THEN "unspent" ELSE coins[o]]
     /\ history' = [t \in Tx |-> IF t \in txs /\ Touches(t, found) THEN "confirmed" ELSE history[t]]
     /\ Forget(txs)
     /\ note' = [note EXCEPT !.pc = "height"]
     /\ UNCHANGED <<top, best, poolVars, height, imported, scan, base, caller, nodeVars>>

(* cachedChainHeight, under heightMu after mu was released.                *)
SetHeight ==
  /\ note.pc = "height"
  /\ height' = IF note.kind = "connect" THEN Depth[top]
               ELSE IF height > 0 THEN height - 1 ELSE 0
  /\ note' = IF note.kind = "connect" THEN [note EXCEPT !.pc = "pool"] ELSE NoNote
  /\ UNCHANGED <<top, best, poolVars, coins, history, imported, scan, base, pendVars, caller,
                 nodeVars>>

(* RemoveConfirmedTransactions, then its callbacks.                        *)
RemoveConfirmed ==
  LET txs == TxsOf(note.blocks) \intersect Ordinary
      out == { t \in pool : t \in txs \/ \E s \in txs : Ins[s] \intersect Ins[t] # {} }
  IN /\ note.pc = "pool" /\ MayChangePool
     /\ pool' = pool \ out
     /\ note' = [note EXCEPT !.pc = "evict", !.todo = out]
     /\ UNCHANGED <<top, best, removed, viewVars, pendVars, caller, nodeVars>>

EvictConfirmed ==
  /\ note.pc = "evict"
  /\ \E t \in note.todo : /\ EvictPendingTx(t)
                          /\ note' = [note EXCEPT !.todo = @ \ {t}]
  /\ UNCHANGED <<top, best, poolVars, caller, nodeVars>>

Publish ==
  /\ note.pc = "evict" /\ note.todo = {}
  /\ best' = top
  /\ note' = NoNote
  /\ UNCHANGED <<top, poolVars, viewVars, pendVars, caller, nodeVars>>

Disconnect ==
  /\ "rollback" \in env
  /\ ~ Processing /\ Up
  /\ top # Genesis
  /\ top' = Parent[top]
  /\ best' = Parent[top]
  /\ note' = [NoNote EXCEPT !.kind = "disconnect", !.pc = "wallet", !.blocks = {top}]
  /\ UNCHANGED <<poolVars, viewVars, pendVars, caller, nodeVars>>

(* Bug: what the block created is deleted, what it spent not restored.     *)
DisconnectNoRestore ==
  LET txs == TxsOf(note.blocks)
  IN /\ note.kind = "disconnect" /\ note.pc = "wallet" /\ MuFree
     /\ coins' = [o \in Tx |-> IF o \in txs THEN "absent" ELSE coins[o]]
     /\ history' = [t \in Tx |-> IF t \in txs THEN "absent" ELSE history[t]]
     /\ base' = IF base # None /\ note.blocks \subseteq Branch[base] THEN None ELSE base
     /\ Forget(txs)
     /\ note' = [note EXCEPT !.pc = "height"]
     /\ UNCHANGED <<top, best, poolVars, height, imported, scan, caller, nodeVars>>

(* NotifyBlockDisconnected: what the block spent is restored if the wallet *)
(* knows it at all.                                                        *)
NotifyBlockDisconnected ==
  LET txs == TxsOf(note.blocks)
  IN /\ note.kind = "disconnect" /\ note.pc = "wallet" /\ MuFree
     /\ coins' = [o \in Tx |-> IF o \in txs THEN "absent"
                               ELSE IF o \in Spends(note.blocks) \intersect Present THEN "unspent"
                               ELSE coins[o]]
     /\ history' = [t \in Tx |-> IF t \in txs THEN "absent" ELSE history[t]]
     /\ base' = IF base # None /\ note.blocks \subseteq Branch[base] THEN None ELSE base
     /\ Forget(txs)
     /\ note' = [note EXCEPT !.pc = "height"]
     /\ UNCHANGED <<top, best, poolVars, height, imported, scan, caller, nodeVars>>

-----------------------------------------------------------------------------
(* The mempool and its callbacks.                                          *)

(* What addTransaction checks of the chain and, under an earlier hold of   *)
(* its lock, of the pool.                                                  *)
Admissible(t) ==
  /\ t \notin pool
  /\ \A s \in pool : Ins[s] \intersect Ins[t] = {}
  /\ Ins[t] \subseteq TxsOf(Branch[top]) \ Spends(Branch[top])

Call(c, stage, t, again) ==
  caller' = [caller EXCEPT ![c] = [NoCall EXCEPT !.pc = stage, !.tx = t, !.again = again]]
Return(c) ==
  caller' = [caller EXCEPT ![c] = IF @.again THEN [@ EXCEPT !.pc = "look", !.snap = {}, !.again = FALSE]
                                  ELSE NoCall]

(* Bug: a coinbase gets in.                                                *)
AcceptAny(c) ==
  /\ caller[c] = NoCall /\ Up
  /\ \E t \in Tx : Admissible(t) /\ Call(c, "insert", t, FALSE)
  /\ UNCHANGED <<chainVars, poolVars, viewVars, pendVars, nodeVars>>

(* addTransaction, for a peer: the checks.                                 *)
Accept(c) ==
  /\ caller[c] = NoCall /\ Up
  /\ \E t \in Ordinary : Admissible(t) /\ Call(c, "insert", t, FALSE)
  /\ UNCHANGED <<chainVars, poolVars, viewVars, pendVars, nodeVars>>

(* Its insertion, after a second look at the outputs that the pool spends, *)
(* which are also those of the transaction if another goroutine got it in. *)
Insert(c) ==
  LET t == caller[c].tx
  IN /\ caller[c].pc = "insert" /\ MayChangePool
     /\ IF \A s \in pool : Ins[s] \intersect Ins[t] = {}
        THEN pool' = pool \union {t} /\ Call(c, "look", t, caller[c].again)
        ELSE pool' = pool /\ caller' = [caller EXCEPT ![c] = NoCall]
     /\ UNCHANGED <<chainVars, removed, viewVars, pendVars, nodeVars>>

(* SelectUTXOs: what the wallet may spend by itself; the third tier takes  *)
(* its own unconfirmed change.                                             *)
Available == { o \in Tx : coins[o] = "unspent" /\ pendSpent[o] = None } \union pendOuts

(* Coin control takes any output that is spendable.                        *)
Selectable == Available \union { o \in Tx : coins[o] = "unspent" }

Select(c) ==
  /\ "send" \in env
  /\ caller[c] = NoCall /\ MuFree /\ Up
  /\ \E t \in Ordinary : /\ Ins[t] \subseteq Selectable
                         /\ Call(c, "submit", t, FALSE)
  /\ UNCHANGED <<chainVars, poolVars, viewVars, pendVars, nodeVars>>

(* broadcastTransaction: the mempool may refuse; a duplicate is no error.  *)
(* The wallet then tracks the transaction itself, beside the callback.     *)
Submit(c) ==
  LET t == caller[c].tx
  IN /\ caller[c].pc = "submit"
     /\ \/ Admissible(t) /\ Call(c, "insert", t, TRUE)
        \/ t \in pool /\ MayChangePool /\ Call(c, "look", t, FALSE)
        \/ t \notin pool /\ ~ Admissible(t) /\ caller' = [caller EXCEPT ![c] = NoCall]
     /\ UNCHANGED <<chainVars, poolVars, viewVars, pendVars, nodeVars>>

(* OnMempoolTransaction up to the snapshot of the pending outputs.         *)
Look(c) ==
  LET t == caller[c].tx
  IN /\ caller[c].pc = "look" /\ MuFree
     /\ IF history[t] = "confirmed" \/ t \in pending THEN Return(c)
        ELSE caller' = [caller EXCEPT ![c].pc = "track", ![c].snap = pendOuts]
     /\ UNCHANGED <<chainVars, poolVars, viewVars, pendVars, nodeVars>>

Reserve(t) ==
  /\ pending' = pending \union {t}
  /\ pendSpent' = [o \in Tx |-> IF o \in Ins[t] THEN t ELSE pendSpent[o]]
  /\ pendOuts' = pendOuts \union ({t} \intersect Ours)

(* Bug: the checks of Look are trusted.                                    *)
TrackUnchecked(c) ==
  LET t == caller[c].tx
  IN /\ caller[c].pc = "track" /\ MuFree
     /\ IF Touches(t, Present \union caller[c].snap) /\ Cardinality(pending) < MaxPending
        THEN Reserve(t) ELSE UNCHANGED pendVars
     /\ Return(c)
     /\ UNCHANGED <<chainVars, poolVars, viewVars, nodeVars>>

(* Its rest, under mu and pendingMu: both checks again, and the cap.       *)
Track(c) ==
  LET t == caller[c].tx
  IN /\ caller[c].pc = "track" /\ MuFree
     /\ IF /\ Touches(t, Present \union caller[c].snap)
           /\ history[t] # "confirmed"
           /\ t \notin pending
           /\ Cardinality(pending) < MaxPending
        THEN Reserve(t) ELSE UNCHANGED pendVars
     /\ Return(c)
     /\ UNCHANGED <<chainVars, poolVars, viewVars, nodeVars>>

Expire ==
  /\ "expire" \in env /\ MayChangePool /\ Up
  /\ \E old \in SUBSET pool : /\ old # {}
                              /\ pool' = pool \ old
                              /\ removed' = removed \union old
  /\ UNCHANGED <<chainVars, viewVars, pendVars, caller, nodeVars>>

(* Bug: the wallet is not told.                                            *)
EvictUnheard ==
  /\ \E t \in removed : removed' = removed \ {t}
  /\ UNCHANGED <<chainVars, pool, viewVars, pendVars, caller, nodeVars>>

EvictExpired ==
  /\ \E t \in removed : EvictPendingTx(t) /\ removed' = removed \ {t}
  /\ UNCHANGED <<chainVars, pool, caller, nodeVars>>

-----------------------------------------------------------------------------
(* ImportPrivateKey with a rescan: it reads the tables twice.              *)

Import ==
  /\ "import" \in env
  /\ ~ imported /\ MuFree /\ Up
  /\ imported' = TRUE
  /\ scan' = "coins"
  /\ UNCHANGED <<chainVars, poolVars, coins, history, height, base, pendVars, caller, nodeVars>>

(* Unspent outputs only.                                                   *)
ScanCoins ==
  /\ scan = "coins"
  /\ coins' = [o \in Tx |-> IF o \in Late \intersect (TxsOf(Branch[top]) \ Spends(Branch[top]))
                            THEN "unspent" ELSE coins[o]]
  /\ base' = IF base # None /\ base \in Branch[top] THEN top ELSE base
  /\ scan' = "history"
  /\ UNCHANGED <<chainVars, poolVars, history, height, imported, pendVars, caller, nodeVars>>

(* What the address index lists and is on the main chain.                  *)
ScanHistory ==
  /\ scan = "history"
  /\ history' = [t \in Tx |->
       IF t \in TxsOf(Branch[top]) /\ (t \in Late \/ Ins[t] \intersect Late # {})
       THEN "confirmed" ELSE history[t]]
  /\ scan' = "idle"
  /\ UNCHANGED <<chainVars, poolVars, coins, height, imported, base, pendVars, caller, nodeVars>>

-----------------------------------------------------------------------------
(* Stop and start.                                                         *)

(* LoadTransactionCache if the file is of these addresses and this block,  *)
(* or else RescanAllAddresses, before anything else runs.                  *)
Start(f) ==
  /\ IF f.best = top /\ f.imported = imported
     THEN coins' = f.coins /\ history' = f.history /\ base' = f.base
     ELSE /\ coins' = [o \in Tx |-> IF o \in Ours \intersect (TxsOf(Branch[top]) \ Spends(Branch[top]))
                                    THEN "unspent" ELSE "absent"]
          /\ history' = [t \in Tx |-> IF t \in TxsOf(Branch[top]) /\ Touches(t, Ours)
                                      THEN "confirmed" ELSE "absent"]
          /\ base' = top
  /\ file' = f
  /\ shot' = NoFile
  /\ best' = top /\ note' = NoNote
  /\ pool' = {} /\ removed' = {}
  /\ height' = Depth[top]
  /\ scan' = "idle"
  /\ pending' = {} /\ pendOuts' = {}
  /\ pendSpent' = [o \in Tx |-> None]
  /\ caller' = [c \in Caller |-> NoCall]
  /\ UNCHANGED <<top, imported, env>>

Crash == "restart" \in env /\ Start(file)

(* snapshotForCache.  Whatever connects blocks or adds transactions has    *)
(* been stopped, unless the time for that ran out.                         *)
Snapshot ==
  /\ "restart" \in env
  /\ shot = NoFile /\ MuFree
  /\ \/ "hasty" \in env
     \/ ~ Processing /\ removed = {} /\ \A c \in Caller : caller[c] = NoCall
  /\ shot' = [best |-> top, coins |-> coins, imported |-> imported, base |-> base,
              history |-> [t \in Tx |-> IF history[t] = "evicted" THEN "absent" ELSE history[t]]]
  /\ UNCHANGED <<chainVars, poolVars, viewVars, pendVars, caller, file, env>>

(* The best block is read after mu was released, the file written, the     *)
(* storage closed; then the next start.                                    *)
SaveAndStop == shot # NoFile /\ Start([shot EXCEPT !.best = best])

Next ==
  \/ Commit \/ NotifyBlocks \/ SetHeight \/ RemoveConfirmed \/ EvictConfirmed \/ Publish
  \/ Disconnect \/ NotifyBlockDisconnected
  \/ \E c \in Caller : Accept(c) \/ Insert(c) \/ Select(c) \/ Submit(c) \/ Look(c) \/ Track(c)
  \/ Expire \/ EvictExpired
  \/ Import \/ ScanCoins \/ ScanHistory
  \/ Crash \/ Snapshot \/ SaveAndStop

Spec == Init /\ [][Next]_vars
-----------------------------------------------------------------------------
Files == [best : Block \union {None}, coins : [Tx -> CoinStates], history : [Tx -> Marks],
          imported : BOOLEAN, base : Block \union {None}]

TypeOK ==
  /\ top \in Block /\ best \in Block
  /\ note \in [kind : {"none", "connect", "disconnect"},
               pc : {"idle", "wallet", "height", "pool", "evict"},
               blocks : SUBSET Block, todo : SUBSET Ordinary]
  /\ pool \subseteq Ordinary /\ removed \subseteq Ordinary
  /\ coins \in [Tx -> CoinStates]
  /\ history \in [Tx -> Marks]
  /\ height \in Nat /\ imported \in BOOLEAN
  /\ scan \in {"idle", "coins", "history"}
  /\ base \in Block \union {None}
  /\ pending \subseteq Ordinary
  /\ pendSpent \in [Tx -> Ordinary \union {None}]
  /\ pendOuts \subseteq Ordinary
  /\ caller \in [Caller -> [pc : {"idle", "submit", "insert", "look", "track"}, tx : Ordinary \union {None},
                            snap : SUBSET Ordinary, again : BOOLEAN]]
  /\ shot \in Files /\ file \in Files /\ env \in Envs

Settled == ~ Processing /\ MuFree
UnspentOurs == Ours \intersect (TxsOf(Branch[top]) \ Spends(Branch[top]))

(* Between commits the wallet offers only outputs that are its own and     *)
(* unspent on the chain, whatever the scans read while batches and         *)
(* rollbacks went on and whatever file it was loaded from; and it has them *)
(* all, with the transactions that touch it and the height, as long as no  *)
(* block was disconnected that was there when it was loaded.               *)
ViewFollowsChain ==
  "hasty" \notin env /\ Settled =>
    /\ { o \in Tx : coins[o] = "unspent" } \subseteq UnspentOurs
    /\ height = Depth[top]
    /\ base # None =>
         /\ UnspentOurs \subseteq { o \in Tx : coins[o] = "unspent" }
         /\ { t \in Tx : history[t] = "confirmed" } = { t \in TxsOf(Branch[top]) : Touches(t, Ours) }

(* Between commits no transaction of the chain is still pending, although  *)
(* the callback that made it so may have begun before the batch that       *)
(* confirmed it was committed, and end after it.                           *)
ConfirmedNotPending == Settled => pending \intersect TxsOf(Branch[top]) = {}

(* An output is reserved only for a pending transaction that spends it,    *)
(* and an unconfirmed output is one of a pending transaction: coins do not *)
(* stay out of reach of SelectUTXOs after the transaction has gone.        *)
MarksHaveOwners ==
  /\ \A o \in Tx : pendSpent[o] # None => pendSpent[o] \in pending /\ o \in Ins[pendSpent[o]]
  /\ pendOuts \subseteq pending \intersect Ours

(* When no callback is under way, what is pending is in the mempool, and   *)
(* all it spends is reserved for it.  "When a transaction is removed from  *)
(* the mempool [...] the wallet evicts its pending state" (node_wallet.go).*)
PendingFollowsPool ==
  "late" \notin env /\ Settled /\ CallbacksDone =>
    /\ pending \subseteq pool
    /\ \A t \in pending : \A o \in Ins[t] : pendSpent[o] = t

-----------------------------------------------------------------------------
(* What is below the wallet.                                               *)
Below == INSTANCE TxPool WITH unspent <- TxsOf(Branch[top]) \ Spends(Branch[top])

(* The chain and the mempool that the wallet hears of are what TxPool says:*)
(* nothing comes in beside what it conflicts with, blocks leave the pool to*)
(* RemoveConfirmedTransactions, and a restart only empties it.             *)
ContractBelow == Below!PoolSpec
=============================================================================
