------------------------------- MODULE Mempool -------------------------------
(***************************************************************************)
(* The transaction pool.  Any number of goroutines (peers, RPC, wallet)    *)
(* call AddTransaction, which takes and drops txsMu several times on its   *)
(* way: duplicate check, missing inputs, conflicts, validation against the *)
(* chain, capacity, insertion, listener, fee index, statistics, and then   *)
(* the orphans that waited for the transaction.  Beside them a connected   *)
(* block removes what it confirms or contradicts, old transactions expire, *)
(* the syncer clears the pool, and RPC re-prioritises.                     *)
(*                                                                         *)
(* The chain is what Ledger promises: the branch that ends in top.         *)
(***************************************************************************)
EXTENDS ChainTree, SequencesExt

CONSTANTS
  Adder,            \* goroutines that call AddTransaction
  Ordinary,         \* transactions other than coinbases and coinstakes
  Suspect,          \* those that may fail a check of amounts, size or scripts
  Lead,             \* block.Transactions[:2]: coinbase and coinstake
  MaxTransactions, MaxOrphans,   \* of Config
  MaxEntries,       \* bounds the model: no call begins for a transaction that
                    \* byFeeRate already has so many times
  Env               \* what the surroundings may do: a subset of EnvKinds

(* "race":     the goroutines run concurrently; without it a call begins   *)
(*             only when no other is under way                             *)
(* "rollback": blocks may be disconnected                                  *)
(* "expire":   transactions may reach MaxTransactionAge                    *)
(* "clear":    the syncer may clear the pool                               *)
(* "priority": prioritisetransaction may be called                         *)
EnvKinds == {"race", "rollback", "expire", "clear", "priority"}

(* A coinstake's empty first output is dust, and a coinbase spends no      *)
(* output: neither gets into the pool.                                     *)
ASSUME PoolAssumption ==
  /\ Ordinary \subseteq Tx
  /\ Suspect \subseteq Ordinary
  /\ \A t \in Ordinary : Ins[t] # {}
  /\ Lead \in [Block -> SUBSET Tx]
  /\ MaxTransactions \in Nat
  /\ MaxOrphans \in Nat \ {0}
  /\ MaxEntries \in Nat
  /\ Env \subseteq EnvKinds

VARIABLES
  top,        \* the last block of the active branch
  pool,       \* keys of txs
  spender,    \* spentOutpoints: output -> pool transaction, None: no entry
  byFee,      \* how many entries of each transaction byFeeRate has
  orphans,    \* keys of orphans, oldest first
  count,      \* stats.TransactionCount
  announced,  \* told to onTransaction and not since to onRemoveTransaction
  add,        \* per goroutine, its call of AddTransaction
  conn,       \* RemoveConfirmedTransactions, for the blocks just connected
  expiry,     \* removeExpired, after its locked part
  clearing    \* Clear, after its locked part

poolVars == <<pool, spender, byFee>>
elsewhere == <<top, conn, expiry, clearing>>
vars == <<poolVars, orphans, count, announced, add, elsewhere>>

Steps == {"idle", "inputs", "orphan", "conflicts", "validate", "scripts", "capacity",
          "insert", "callback", "index", "stats", "accepted", "orphans", "drop"}

Calls == [pc : Steps, tx : Ordinary \union {None}, todo : SUBSET Tx, nested : BOOLEAN,
          queue : Seq(Ordinary), cands : SUBSET Ordinary]
NoCall == [pc |-> "idle", tx |-> None, todo |-> {}, nested |-> FALSE,
           queue |-> <<>>, cands |-> {}]
NoBlocks == [pc |-> "loop", blocks |-> {}, todo |-> {}, tx |-> None]
NoSweep == [pc |-> "idle", gone |-> {}]

Init ==
  /\ top = Genesis
  /\ pool = {}
  /\ spender = [o \in Tx |-> None]
  /\ byFee = [t \in Tx |-> 0]
  /\ orphans = <<>>
  /\ count = 0
  /\ announced = {}
  /\ add = [a \in Adder |-> NoCall]
  /\ conn = NoBlocks
  /\ expiry = NoSweep
  /\ clearing = NoSweep

Created == TxsOf(Branch[top])
SpentOnChain == Spends(Branch[top])
OrphanSet == ToSet(orphans)
NonNegative(n) == IF n > 0 THEN n ELSE 0

AddsIdle == \A a \in Adder : add[a] = NoCall
AtRest == AddsIdle /\ conn = NoBlocks /\ expiry = NoSweep /\ clearing = NoSweep
MayBegin == "race" \in Env \/ AtRest

-----------------------------------------------------------------------------
(* AddTransaction, called by a goroutine or, nested, by processOrphans.    *)

Goto(a, pc) == add' = [add EXCEPT ![a].pc = pc]
Enter(a, t) == add' = [add EXCEPT ![a] = [NoCall EXCEPT !.pc = "inputs", !.tx = t, !.todo = Ins[t]]]

(* An error return.  processOrphans keeps an orphan only on RejectOrphan.  *)
Reject(a, code) ==
  add' = [add EXCEPT ![a] =
            IF ~ @.nested THEN NoCall
            ELSE [@ EXCEPT !.pc = IF code = "orphan" THEN "orphans" ELSE "drop", !.todo = {}]]

Start(a) ==
  /\ add[a].pc = "idle"
  /\ MayBegin
  /\ \E t \in Ordinary \ pool : byFee[t] < MaxEntries /\ Enter(a, t)
  /\ UNCHANGED <<poolVars, orphans, count, announced, elsewhere>>

(* isOrphan: an input's transaction is in the pool or in the chain.        *)
FindInput(a) ==
  /\ add[a].pc = "inputs"
  /\ \E o \in add[a].todo :
       LET rest == add[a].todo \ {o}
       IN  IF o \notin pool \union Created THEN Goto(a, "orphan")
           ELSE add' = [add EXCEPT ![a] =
                   [@ EXCEPT !.todo = rest, !.pc = IF rest = {} THEN "conflicts" ELSE "inputs"]]
  /\ UNCHANGED <<poolVars, orphans, count, announced, elsewhere>>

(* Bug: the oldest orphan goes one too late.                               *)
StoreOrphanLate(a) ==
  /\ add[a].pc = "orphan"
  /\ orphans' =
       IF add[a].tx \in OrphanSet THEN orphans
       ELSE Append(IF Len(orphans) > MaxOrphans THEN Tail(orphans) ELSE orphans, add[a].tx)
  /\ Reject(a, "orphan")
  /\ UNCHANGED <<poolVars, count, announced, elsewhere>>

(* addOrphan, with evictOldestOrphan.                                      *)
StoreOrphan(a) ==
  /\ add[a].pc = "orphan"
  /\ orphans' =
       IF add[a].tx \in OrphanSet THEN orphans
       ELSE Append(IF Len(orphans) >= MaxOrphans THEN Tail(orphans) ELSE orphans, add[a].tx)
  /\ Reject(a, "orphan")
  /\ UNCHANGED <<poolVars, count, announced, elsewhere>>

Conflicts(t) == \E o \in Ins[t] : spender[o] # None

CheckConflicts(a) ==
  /\ add[a].pc = "conflicts"
  /\ IF Conflicts(add[a].tx) THEN Reject(a, "conflict")
     ELSE add' = [add EXCEPT ![a] = [@ EXCEPT !.todo = Ins[add[a].tx], !.pc = "validate"]]
  /\ UNCHANGED <<poolVars, orphans, count, announced, elsewhere>>

(* validateTransaction, one turn of its loop: GetUTXO knows the chain only.*)
ValidateInput(a) ==
  /\ add[a].pc = "validate"
  /\ \/ add[a].tx \in Suspect /\ Reject(a, "invalid")
     \/ \E o \in add[a].todo :
          LET rest == add[a].todo \ {o}
          IN  IF o \notin Created THEN Reject(a, "orphan")
              ELSE IF o \in SpentOnChain THEN Reject(a, "invalid")
              ELSE add' = [add EXCEPT ![a] =
                     [@ EXCEPT !.todo = rest, !.pc = IF rest = {} THEN "scripts" ELSE "validate"]]
  /\ UNCHANGED <<poolVars, orphans, count, announced, elsewhere>>

(* The outputs are read a second time for the signatures.                  *)
CheckScripts(a) ==
  /\ add[a].pc = "scripts"
  /\ \/ /\ Ins[add[a].tx] \subseteq Created
        /\ Goto(a, "capacity")
     \/ /\ ~ (Ins[add[a].tx] \subseteq Created)
        /\ Reject(a, "orphan")
     \/ /\ add[a].tx \in Suspect
        /\ Reject(a, "invalid")
  /\ UNCHANGED <<poolVars, orphans, count, announced, elsewhere>>

CheckCapacity(a) ==
  /\ add[a].pc = "capacity"
  /\ IF count >= MaxTransactions THEN Reject(a, "full") ELSE Goto(a, "insert")
  /\ UNCHANGED <<poolVars, orphans, count, announced, elsewhere>>

(* Bug: the check of CheckConflicts is trusted.                            *)
InsertUnchecked(a) ==
  /\ add[a].pc = "insert"
  /\ pool' = pool \union {add[a].tx}
  /\ spender' = [o \in Tx |-> IF o \in Ins[add[a].tx] THEN add[a].tx ELSE spender[o]]
  /\ Goto(a, "callback")
  /\ UNCHANGED <<byFee, orphans, count, announced, elsewhere>>

(* Under txsMu: the conflicts are checked again, then both maps written.   *)
Insert(a) ==
  /\ add[a].pc = "insert"
  /\ IF Conflicts(add[a].tx)
     THEN Reject(a, "conflict") /\ UNCHANGED <<pool, spender>>
     ELSE /\ pool' = pool \union {add[a].tx}
          /\ spender' = [o \in Tx |-> IF o \in Ins[add[a].tx] THEN add[a].tx ELSE spender[o]]
          /\ Goto(a, "callback")
  /\ UNCHANGED <<byFee, orphans, count, announced, elsewhere>>

AcceptCallback(a) ==
  /\ add[a].pc = "callback"
  /\ announced' = announced \union {add[a].tx}
  /\ Goto(a, "index")
  /\ UNCHANGED <<poolVars, orphans, count, elsewhere>>

UpdateIndexes(a) ==
  /\ add[a].pc = "index"
  /\ byFee' = [byFee EXCEPT ![add[a].tx] = @ + 1]
  /\ Goto(a, "stats")
  /\ UNCHANGED <<pool, spender, orphans, count, announced, elsewhere>>

(* Bug: an orphan that is accepted is not counted.                         *)
UpdateStatsOnce(a) ==
  /\ add[a].pc = "stats"
  /\ count' = IF add[a].nested THEN count ELSE count + 1
  /\ IF add[a].nested THEN Goto(a, "accepted")
     ELSE add' = [add EXCEPT ![a] = [@ EXCEPT !.queue = <<add[a].tx>>, !.pc = "orphans"]]
  /\ UNCHANGED <<poolVars, orphans, announced, elsewhere>>

UpdateAddStats(a) ==
  /\ add[a].pc = "stats"
  /\ count' = count + 1
  /\ IF add[a].nested THEN Goto(a, "accepted")
     ELSE add' = [add EXCEPT ![a] = [@ EXCEPT !.queue = <<add[a].tx>>, !.pc = "orphans"]]
  /\ UNCHANGED <<poolVars, orphans, announced, elsewhere>>

(* processOrphans: the queue's head is a new pool transaction; the orphans *)
(* that spend from it are tried one by one.                                *)
NextParent(a) ==
  /\ add[a].pc = "orphans" /\ add[a].cands = {} /\ add[a].queue # <<>>
  /\ add' = [add EXCEPT ![a] =
       [@ EXCEPT !.queue = Tail(add[a].queue),
                 !.cands = { t \in OrphanSet : Head(add[a].queue) \in Ins[t] }]]
  /\ UNCHANGED <<poolVars, orphans, count, announced, elsewhere>>

(* Bug: an orphan that was tried stays among the candidates.               *)
NextCandidateAgain(a) ==
  /\ add[a].pc = "orphans"
  /\ \E t \in add[a].cands :
       add' = [add EXCEPT ![a] =
         [@ EXCEPT !.tx = t, !.nested = TRUE,
                   !.todo = IF t \in pool THEN {} ELSE Ins[t],
                   !.pc = IF t \in pool THEN "drop" ELSE "inputs"]]
  /\ UNCHANGED <<poolVars, orphans, count, announced, elsewhere>>

NextCandidate(a) ==
  /\ add[a].pc = "orphans"
  /\ \E t \in add[a].cands :
       add' = [add EXCEPT ![a] =
         [@ EXCEPT !.cands = add[a].cands \ {t}, !.tx = t, !.nested = TRUE,
                   !.todo = IF t \in pool THEN {} ELSE Ins[t],
                   !.pc = IF t \in pool THEN "drop" ELSE "inputs"]]
  /\ UNCHANGED <<poolVars, orphans, count, announced, elsewhere>>

(* delete(mp.orphans, hash).                                               *)
Without(s, t) ==
  IF t \in ToSet(s) THEN RemoveAt(s, CHOOSE i \in DOMAIN s : s[i] = t) ELSE s

OrphanAccepted(a) ==
  /\ add[a].pc = "accepted"
  /\ orphans' = Without(orphans, add[a].tx)
  /\ add' = [add EXCEPT ![a] = [@ EXCEPT !.queue = Append(add[a].queue, add[a].tx), !.pc = "orphans"]]
  /\ UNCHANGED <<poolVars, count, announced, elsewhere>>

OrphanDropped(a) ==
  /\ add[a].pc = "drop"
  /\ orphans' = Without(orphans, add[a].tx)
  /\ Goto(a, "orphans")
  /\ UNCHANGED <<poolVars, count, announced, elsewhere>>

AddReturns(a) ==
  /\ add[a].pc = "orphans" /\ add[a].cands = {} /\ add[a].queue = <<>>
  /\ add' = [add EXCEPT ![a] = NoCall]
  /\ UNCHANGED <<poolVars, orphans, count, announced, elsewhere>>

AddStep(a) ==
  \/ FindInput(a) \/ StoreOrphan(a) \/ CheckConflicts(a) \/ ValidateInput(a) \/ CheckScripts(a)
  \/ CheckCapacity(a) \/ Insert(a) \/ AcceptCallback(a) \/ UpdateIndexes(a) \/ UpdateAddStats(a)
  \/ NextParent(a) \/ NextCandidate(a) \/ OrphanAccepted(a) \/ OrphanDropped(a) \/ AddReturns(a)

-----------------------------------------------------------------------------
(* Removal.                                                                *)

(* Bug: spentOutpoints keeps what the transactions spent.                  *)
TakeOutOfTxs(S) ==
  /\ pool' = pool \ S
  /\ spender' = spender
  /\ byFee' = [t \in Tx |-> IF t \in S THEN NonNegative(byFee[t] - 1) ELSE byFee[t]]

(* Bug: byFeeRate is cut off at the entry, as append(byFeeRate[:i]) would. *)
TakeOutTruncating(S) ==
  /\ pool' = pool \ S
  /\ spender' = [o \in Tx |-> IF \E t \in S : o \in Ins[t] THEN None ELSE spender[o]]
  /\ \E lost \in SUBSET { t \in Tx : byFee[t] > 0 } :
       byFee' = [t \in Tx |-> IF t \in S \union lost THEN NonNegative(byFee[t] - 1) ELSE byFee[t]]

(* What every removal does under txsMu; removeFromIndexes takes one entry  *)
(* per transaction out of byFeeRate.                                       *)
TakeOut(S) ==
  /\ pool' = pool \ S
  /\ spender' = [o \in Tx |-> IF \E t \in S : o \in Ins[t] THEN None ELSE spender[o]]
  /\ byFee' = [t \in Tx |-> IF t \in S THEN NonNegative(byFee[t] - 1) ELSE byFee[t]]

(* A batch of blocks is committed; the mempool is told of them in turn.    *)
Connect ==
  /\ conn = NoBlocks
  /\ MayBegin
  /\ \E b \in Block : /\ top \in Branch[b] /\ b # top
                      /\ top' = b
                      /\ conn' = [conn EXCEPT !.blocks = Branch[b] \ Branch[top]]
  /\ UNCHANGED <<poolVars, orphans, count, announced, add, expiry, clearing>>

(* Phases 1 and 2 of RemoveConfirmedTransactions.                          *)
Confirmed(b) == BlockTxs[b] \ Lead[b]

(* Bug: only what the block confirms leaves the pool.                      *)
AffectedByHash(b) == pool \intersect Confirmed(b)

Affected(b) ==
  { t \in pool : t \in Confirmed(b) \/ \E s \in Confirmed(b) : Ins[s] \intersect Ins[t] # {} }

ScanBlock ==
  /\ conn.pc = "loop" /\ conn.todo = {}
  /\ \E b \in conn.blocks :
       /\ \A x \in conn.blocks : Depth[b] <= Depth[x]
       /\ conn' = [conn EXCEPT !.blocks = @ \ {b}, !.todo = Affected(b)]
  /\ UNCHANGED <<top, poolVars, orphans, count, announced, add, expiry, clearing>>

(* RemoveTransaction: the locked part, the listener, the statistics.       *)
RemoveOne ==
  /\ conn.pc = "loop"
  /\ \E t \in conn.todo :
       IF t \in pool
       THEN /\ TakeOut({t})
            /\ conn' = [conn EXCEPT !.todo = @ \ {t}, !.tx = t, !.pc = "callback"]
       ELSE /\ conn' = [conn EXCEPT !.todo = @ \ {t}]
            /\ UNCHANGED poolVars
  /\ UNCHANGED <<top, orphans, count, announced, add, expiry, clearing>>

RemoveCallback ==
  /\ conn.pc = "callback"
  /\ announced' = announced \ {conn.tx}
  /\ conn' = [conn EXCEPT !.pc = "stats"]
  /\ UNCHANGED <<top, poolVars, orphans, count, add, expiry, clearing>>

(* Bug: an underflow guard that is off by one.                             *)
RemoveStatsAboveOne ==
  /\ conn.pc = "stats"
  /\ count' = IF count > 1 THEN count - 1 ELSE count
  /\ conn' = [conn EXCEPT !.pc = "loop", !.tx = None]
  /\ UNCHANGED <<top, poolVars, orphans, announced, add, expiry, clearing>>

RemoveStats ==
  /\ conn.pc = "stats"
  /\ count' = NonNegative(count - 1)
  /\ conn' = [conn EXCEPT !.pc = "loop", !.tx = None]
  /\ UNCHANGED <<top, poolVars, orphans, announced, add, expiry, clearing>>

(* disconnectBlock tells the mempool nothing.                              *)
Disconnect ==
  /\ "rollback" \in Env /\ MayBegin
  /\ conn = NoBlocks
  /\ top # Genesis
  /\ top' = Parent[top]
  /\ UNCHANGED <<poolVars, orphans, count, announced, add, conn, expiry, clearing>>

Expire ==
  /\ "expire" \in Env /\ MayBegin
  /\ expiry = NoSweep
  /\ \E old \in SUBSET pool : /\ old # {}
                              /\ TakeOut(old)
                              /\ expiry' = [pc |-> "stats", gone |-> old]
  /\ UNCHANGED <<top, orphans, count, announced, add, conn, clearing>>

ExpireStats ==
  /\ expiry.pc = "stats"
  /\ count' = NonNegative(count - Cardinality(expiry.gone))
  /\ expiry' = [expiry EXCEPT !.pc = "callback"]
  /\ UNCHANGED <<top, poolVars, orphans, announced, add, conn, clearing>>

ExpireCallback ==
  /\ expiry.pc = "callback"
  /\ \E t \in expiry.gone :
       /\ announced' = announced \ {t}
       /\ expiry' = IF expiry.gone = {t} THEN NoSweep ELSE [expiry EXCEPT !.gone = @ \ {t}]
  /\ UNCHANGED <<top, poolVars, orphans, count, add, conn, clearing>>

Clear ==
  /\ "clear" \in Env /\ MayBegin
  /\ clearing = NoSweep
  /\ pool' = {}
  /\ spender' = [o \in Tx |-> None]
  /\ byFee' = [t \in Tx |-> 0]
  /\ clearing' = [pc |-> "stats", gone |-> pool]
  /\ UNCHANGED <<top, orphans, count, announced, add, conn, expiry>>

ClearStats ==
  /\ clearing.pc = "stats"
  /\ count' = 0
  /\ clearing' = [clearing EXCEPT !.pc = "orphans"]
  /\ UNCHANGED <<top, poolVars, orphans, announced, add, conn, expiry>>

ClearOrphans ==
  /\ clearing.pc = "orphans"
  /\ orphans' = <<>>
  /\ clearing' = IF clearing.gone = {} THEN NoSweep ELSE [clearing EXCEPT !.pc = "callback"]
  /\ UNCHANGED <<top, poolVars, count, announced, add, conn, expiry>>

ClearCallback ==
  /\ clearing.pc = "callback"
  /\ \E t \in clearing.gone :
       /\ announced' = announced \ {t}
       /\ clearing' = IF clearing.gone = {t} THEN NoSweep ELSE [clearing EXCEPT !.gone = @ \ {t}]
  /\ UNCHANGED <<top, poolVars, orphans, count, add, conn, expiry>>

(* UpdatePriority rebuilds the fee index from the pool, under both locks.  *)
UpdatePriority ==
  /\ "priority" \in Env /\ MayBegin
  /\ pool # {}
  /\ byFee' = [t \in Tx |-> IF t \in pool THEN 1 ELSE 0]
  /\ UNCHANGED <<pool, spender, orphans, count, announced, add, elsewhere>>

Next ==
  \/ \E a \in Adder : Start(a) \/ AddStep(a)
  \/ Connect \/ ScanBlock \/ RemoveOne \/ RemoveCallback \/ RemoveStats
  \/ Disconnect
  \/ Expire \/ ExpireStats \/ ExpireCallback
  \/ Clear \/ ClearStats \/ ClearOrphans \/ ClearCallback
  \/ UpdatePriority

Spec == Init /\ [][Next]_vars

(* No goroutine waits for another for longer than a locked step.           *)
FairSpec == Spec /\ \A a \in Adder : WF_vars(AddStep(a))
-----------------------------------------------------------------------------
(* Types, and the bound on the orphan pool.                                *)
TypeOK ==
  /\ top \in Block
  /\ pool \subseteq Ordinary
  /\ spender \in [Tx -> Ordinary \union {None}]
  /\ byFee \in [Tx -> Nat]
  /\ orphans \in Seq(Ordinary)
  /\ Len(orphans) <= MaxOrphans
  /\ count \in Nat
  /\ announced \subseteq Ordinary
  /\ add \in [Adder -> Calls]
  /\ conn \in [pc : {"loop", "callback", "stats"}, blocks : SUBSET Block,
               todo : SUBSET Ordinary, tx : Ordinary \union {None}]
  /\ expiry \in [pc : {"idle", "stats", "callback"}, gone : SUBSET Ordinary]
  /\ clearing \in [pc : {"idle", "stats", "orphans", "callback"}, gone : SUBSET Ordinary]

(* No two transactions of the pool spend the same output, whatever happens *)
(* between CheckConflicts and Insert.                                      *)
ConflictFree == \A s, t \in pool : s # t => Ins[s] \intersect Ins[t] = {}

(* spentOutpoints is the index of what the pool spends: it misses nothing  *)
(* (a conflict would get in) and keeps nothing of a removed transaction    *)
(* (the output could not be spent again before a restart).                 *)
SpenderExact == \A o \in Tx, t \in Ordinary : (spender[o] = t) <=> (t \in pool /\ o \in Ins[t])

(* Every transaction of the pool is offered to block templates             *)
(* (GetTransactionsForBlock walks byFeeRate), as soon as a goroutine that  *)
(* added it gets to updateIndexes, in spite of removals, re-insertions and *)
(* rebuilds in between.                                                    *)
PoolIsOffered ==
  \A t \in pool :
    byFee[t] = 0 => \E a \in Adder : add[a].pc \in {"callback", "index"} /\ add[a].tx = t

(* checkCapacity never sees fewer transactions than the pool has, but for  *)
(* those whose addTransaction has yet to count them.  Needs that the pool  *)
(* is not cleared: Clear resets the count after it dropped txsMu.          *)
PoolCounted ==
  Cardinality(pool) <=
    count + Cardinality({ a \in Adder : add[a].pc \in {"callback", "index", "stats"} })

(* When no call is under way, the fee index has each pool transaction once *)
(* and nothing else, the statistics count them, and the listener (the      *)
(* wallet's pending state) has last been told of exactly these.            *)
IndexesAgreeAtRest ==
  AtRest => /\ \A t \in Tx : byFee[t] = IF t \in pool THEN 1 ELSE 0
            /\ count = Cardinality(pool)
            /\ announced = pool

(* What coinbases and coinstakes spend: RemoveConfirmedTransactions skips  *)
(* them, so a pool transaction may contradict a coinstake.                 *)
LeadSpends == UNION { Ins[t] : t \in UNION { Lead[b] : b \in Branch[top] } }

(* When no call is under way, pool transactions spend outputs that are on  *)
(* the chain and unspent, through any sequence of submissions and blocks   *)
(* (not of rollbacks: the mempool is not told of them).                    *)
PoolSpendable ==
  AtRest => \A t \in pool : Ins[t] \subseteq Created \ (SpentOnChain \ LeadSpends)

(* Every call of AddTransaction returns: the queue of processOrphans runs  *)
(* dry.                                                                    *)
AddsEnd == \A a \in Adder : (add[a].pc # "idle") ~> (add[a].pc = "idle")

(* How far a call is: the stages to go, and what is still to be queued.    *)
Stage == [inputs |-> 12, conflicts |-> 11, validate |-> 10, scripts |-> 9, capacity |-> 8,
          insert |-> 7, callback |-> 6, index |-> 5, stats |-> 4, accepted |-> 3,
          orphan |-> 2, drop |-> 1, orphans |-> 0, idle |-> 0]
Ahead(c) == Len(c.queue) + IF c.pc \in {"callback", "index", "stats", "accepted"} THEN 1 ELSE 0

(* What lies before c and d, two moments of a call with the same pool.     *)
Nearer(d, c) ==
  \/ Ahead(d) < Ahead(c)
  \/ /\ Ahead(d) = Ahead(c)
     /\ \/ d.cands \subseteq c.cands /\ d.cands # c.cands
        \/ /\ d.cands = c.cands
           /\ \/ Stage[d.pc] < Stage[c.pc]
              \/ d.pc = c.pc /\ d.todo \subseteq c.todo /\ d.todo # c.todo

(* Why AddsEnd: each step of a call ends it, or puts one more transaction  *)
(* into the pool, or brings the call nearer to its end.  So only removals  *)
(* that go on for ever can keep processOrphans busy for ever.              *)
AddNears ==
  [][\A a \in Adder : add[a].pc # "idle" /\ add'[a] # add[a] =>
       \/ add'[a] = NoCall
       \/ \E t \in Ordinary \ pool : pool' = pool \union {t}
       \/ pool' = pool /\ Nearer(add'[a], add[a])]_vars

(* What GetTransactionsForBlock says of itself: "transactions suitable for *)
(* including in a block", so none that has left the pool.                  *)
TemplateFromPool == AtRest => \A t \in Tx : byFee[t] > 0 => t \in pool

(* What SetOnOrphanAccepted says: an orphan "becomes valid and is accepted *)
(* after its parent arrives", so none stays whose parents are in the pool. *)
OrphansFollowParents == AtRest => \A t \in OrphanSet : ~ (Ins[t] \subseteq pool)

-----------------------------------------------------------------------------
(* What the mempool promises to its users.                                 *)
Users == INSTANCE TxPool WITH unspent <- Created \ SpentOnChain

(* Whatever overlaps, a transaction enters in one step, in conflict with   *)
(* nothing that the pool has by then; blocks and rollbacks by themselves   *)
(* leave the pool as it is (RemoveConfirmedTransactions comes after them). *)
PoolContract == Users!PoolSpec

(* What enters spends outputs that are on the chain and unspent at that    *)
(* instant.  Needs that calls do not overlap: a block that is committed    *)
(* between validateTransaction and the insertion may spend them.           *)
CheckedContract == Users!CheckedSpec
===============================================================================
