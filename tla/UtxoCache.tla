------------------------------ MODULE UtxoCache ------------------------------
(***************************************************************************)
(* CachedStorage: the LRU of UTXO records above the store.  A batch is     *)
(* committed first and the cache is brought up to date afterwards, entry   *)
(* by entry; readers read the store on a miss and put what they read into  *)
(* the cache in a step of its own.  Neither takes a lock over both.        *)
(*                                                                         *)
(* The store is what Ledger promises: the image of the branch that ends    *)
(* in top.  Records are kept when they are spent (mark-as-spent).  The     *)
(* readers are the mempool's input checks (validateTransaction); what a    *)
(* cached record says of them is what it says of RPC, validation, wallet.  *)
(***************************************************************************)
EXTENDS ChainTree

CONSTANTS
  Reader,    \* goroutines that look outputs up
  MaxBatch   \* blocks of a sync batch, at most

ASSUME CacheAssumption ==
  /\ HonestTree
  /\ MaxBatch \in Nat \ {0}

VARIABLES
  top,      \* the last block of the committed branch
  cache,    \* the LRU: output -> record, NoRecord when it is not cached
  flight,   \* a committed batch whose changes are still to reach the cache
  rd,       \* per reader, its look-up
  raced     \* history: the cached records that differed from the store's
            \* already when a reader put them there

vars == <<top, cache, flight, rd, raced>>

(* A UTXO record: the heights it was created at and its spenders with      *)
(* their heights.  On an honest tree there is at most one of each.         *)
Records == [born : SUBSET Heights, spent : SUBSET (Tx \X Heights)]
NoRecord == [born |-> {}, spent |-> {}]

BornAt(b, o) == { Depth[x] : x \in { y \in Branch[b] : o \in BlockTxs[y] } }
SpendersOf(x, o) == { t \in BlockTxs[x] : o \in Ins[t] }
SpentIn(b, o) == UNION { SpendersOf(x, o) \X {Depth[x]} : x \in Branch[b] }

(* What the store says of an output on the branch that ends in b.          *)
RecordOn(b, o) ==
  IF BornAt(b, o) = {} THEN NoRecord ELSE [born |-> BornAt(b, o), spent |-> SpentIn(b, o)]
Record(o) == RecordOn(top, o)

NoFlight == [gone |-> {}, fresh |-> {}]
NoLookup == [pc |-> "idle", out |-> None, rec |-> NoRecord, blk |-> None]

Init ==
  /\ top = Genesis
  /\ cache = [o \in Tx |-> NoRecord]
  /\ flight = NoFlight
  /\ rd = [r \in Reader |-> NoLookup]
  /\ raced = {}

-----------------------------------------------------------------------------
(* CachedBatch: the commit, then the cache.                                *)

(* Bug: MarkUTXOSpent is not tracked, so spent outputs stay cached.        *)
CommitBatchKeepsSpent ==
  /\ flight = NoFlight
  /\ \E b \in Block :
       /\ top \in Branch[b] \ {b}
       /\ Depth[b] - Depth[top] <= MaxBatch
       /\ top' = b
       /\ flight' = [gone |-> {}, fresh |-> TxsOf(Branch[b] \ Branch[top])]
  /\ UNCHANGED <<cache, rd, raced>>

(* Commit of a batch of blocks, up to the write to the store.  The next    *)
(* batch begins when this one has reached the cache (processingMu).        *)
CommitBatch ==
  /\ flight = NoFlight
  /\ \E b \in Block :
       LET new == Branch[b] \ Branch[top]
       IN  /\ top \in Branch[b] \ {b}
           /\ Depth[b] - Depth[top] <= MaxBatch
           /\ top' = b
           /\ flight' = [gone |-> Spends(new), fresh |-> TxsOf(new)]
  /\ UNCHANGED <<cache, rd, raced>>

(* Bug: the outputs are deleted behind the wrapper's back too.             *)
DisconnectUnseen ==
  /\ flight = NoFlight
  /\ top # Genesis
  /\ top' = Parent[top]
  /\ UNCHANGED <<cache, flight, rd, raced>>

(* disconnectBlock: the block's outputs are deleted through the wrapper,   *)
(* the outputs it spent are restored by Batch.UnspendUTXO, which the       *)
(* wrapper does not see.                                                   *)
Disconnect ==
  /\ flight = NoFlight
  /\ top # Genesis
  /\ top' = Parent[top]
  /\ flight' = [gone |-> BlockTxs[top], fresh |-> {}]
  /\ UNCHANGED <<cache, rd, raced>>

SetCache(o, rec) ==
  /\ cache' = [cache EXCEPT ![o] = rec]
  /\ raced' = raced \ {o}

(* Commit, "Apply deletions" and "Invalidate spent UTXOs": one entry.      *)
Invalidate(o) ==
  /\ o \in flight.gone
  /\ flight' = [flight EXCEPT !.gone = @ \ {o}]
  /\ SetCache(o, NoRecord)
  /\ UNCHANGED <<top, rd>>

(* Commit, "Apply additions": one entry, as unspent.                       *)
Refill(o) ==
  /\ flight.gone = {}
  /\ o \in flight.fresh
  /\ flight' = [flight EXCEPT !.fresh = @ \ {o}]
  /\ SetCache(o, [born |-> BornAt(top, o), spent |-> {}])
  /\ UNCHANGED <<top, rd>>

(* The LRU is full and drops an entry.                                     *)
Evict(o) ==
  /\ cache[o] # NoRecord
  /\ SetCache(o, NoRecord)
  /\ UNCHANGED <<top, flight, rd>>

EmptyCache ==
  /\ cache' = [o \in Tx |-> NoRecord]
  /\ raced' = {}

(* FlushUTXOCache, called by the syncer when it stalls.                    *)
FlushCache ==
  /\ EmptyCache
  /\ UNCHANGED <<top, flight, rd>>

(* A restart: the memory is gone.                                          *)
Crash ==
  /\ EmptyCache
  /\ flight' = NoFlight
  /\ rd' = [r \in Reader |-> NoLookup]
  /\ UNCHANGED top

-----------------------------------------------------------------------------
(* GetUTXO, and what validateTransaction makes of the record.              *)

(* Bug: a miss does not look at the error.                                 *)
LookUpUnchecked(r, o) ==
  /\ rd[r].pc = "idle"
  /\ rd' = [rd EXCEPT ![r] =
               IF cache[o] # NoRecord
               THEN [NoLookup EXCEPT !.pc = "have", !.out = o, !.rec = cache[o]]
               ELSE [NoLookup EXCEPT !.pc = "fill", !.out = o, !.rec = Record(o)]]
  /\ UNCHANGED <<top, cache, flight, raced>>

(* A hit returns a copy; a miss reads the store.  An output that the store *)
(* does not know makes the transaction an orphan, which ends the call.     *)
LookUp(r, o) ==
  /\ rd[r].pc = "idle"
  /\ \/ /\ cache[o] # NoRecord
        /\ rd' = [rd EXCEPT ![r] = [NoLookup EXCEPT !.pc = "have", !.out = o, !.rec = cache[o]]]
     \/ /\ cache[o] = NoRecord
        /\ Record(o) # NoRecord
        /\ rd' = [rd EXCEPT ![r] = [NoLookup EXCEPT !.pc = "fill", !.out = o, !.rec = Record(o)]]
  /\ UNCHANGED <<top, cache, flight, raced>>

(* The record read on a miss enters the cache, whatever happened since.    *)
Fill(r) ==
  LET o == rd[r].out
  IN  /\ rd[r].pc = "fill"
      /\ cache' = [cache EXCEPT ![o] = rd[r].rec]
      /\ raced' = IF rd[r].rec = Record(o) THEN raced \ {o} ELSE raced \union {o}
      /\ rd' = [rd EXCEPT ![r].pc = "have"]
      /\ UNCHANGED <<top, flight>>

Return(r) == rd' = [rd EXCEPT ![r] = NoLookup]

(* Bug: SpendingHeight > 0 is taken for a spend.                           *)
FindSpenderTrusting(r) ==
  /\ rd[r].pc = "have"
  /\ IF rd[r].rec.spent = {} THEN Return(r) ELSE rd' = [rd EXCEPT ![r].pc = "refused"]
  /\ UNCHANGED <<top, cache, flight, raced>>

(* isUTXOGenuinelySpent, GetBlockHash(SpendingHeight).                     *)
FindSpender(r) ==
  /\ rd[r].pc = "have"
  /\ IF \A s \in rd[r].rec.spent : s[2] > Depth[top]
     THEN Return(r)
     ELSE \E s \in rd[r].rec.spent :
            /\ s[2] <= Depth[top]
            /\ rd' = [rd EXCEPT ![r].pc = "block", ![r].blk = AncestorAt(top, s[2])]
  /\ UNCHANGED <<top, cache, flight, raced>>

(* isUTXOGenuinelySpent, GetBlock(hash) and the scan for SpendingTxHash.   *)
CheckSpender(r) ==
  /\ rd[r].pc = "block"
  /\ IF /\ rd[r].blk \in Branch[top]
        /\ \E s \in rd[r].rec.spent : s[1] \in BlockTxs[rd[r].blk]
     THEN rd' = [rd EXCEPT ![r].pc = "refused"]
     ELSE Return(r)
  /\ UNCHANGED <<top, cache, flight, raced>>

(* The transaction is rejected: its input is already spent in a block.     *)
Refused(r) ==
  /\ rd[r].pc = "refused"
  /\ Return(r)
  /\ UNCHANGED <<top, cache, flight, raced>>

ReaderStep(r) ==
  \/ \E o \in Tx : LookUp(r, o)
  \/ Fill(r) \/ FindSpender(r) \/ CheckSpender(r) \/ Refused(r)

Next ==
  \/ CommitBatch \/ Disconnect \/ FlushCache \/ Crash
  \/ \E o \in Tx : Invalidate(o) \/ Refill(o) \/ Evict(o)
  \/ \E r \in Reader : ReaderStep(r)

Spec == Init /\ [][Next]_vars

-----------------------------------------------------------------------------
Lookups ==
  [pc : {"idle", "fill", "have", "block", "refused"}, out : Tx \union {None},
   rec : Records, blk : Block \union {None}]

(* The types; a reader at work has an output and never an empty record:    *)
(* GetUTXO returns an error for what the store does not have.              *)
TypeOK ==
  /\ top \in Block
  /\ cache \in [Tx -> Records]
  /\ flight \in [gone : SUBSET Tx, fresh : SUBSET Tx]
  /\ rd \in [Reader -> Lookups]
  /\ raced \subseteq Tx
  /\ \A r \in Reader : rd[r].pc # "idle" => rd[r].out \in Tx /\ rd[r].rec # NoRecord

(* The entries that say what the last finished commit left them to say.    *)
Settled(o) == cache[o] # NoRecord /\ o \notin raced \union flight.gone \union flight.fresh

(* A cached output is on the chain, at the height the cache says: no       *)
(* commit and no rollback leaves an output in the cache that the store     *)
(* does not have.  Only a reader that read before a rollback and fills     *)
(* after it can bring one back.                                            *)
BirthsAgree == \A o \in Tx : Settled(o) => cache[o].born = BornAt(top, o) /\ cache[o].born # {}

(* What the cache says of spends is what the store says, but for two       *)
(* stale answers that Commit and disconnectBlock themselves leave: an      *)
(* output created and spent within one batch is cached as unspent          *)
(* (additions come last), and an output whose spender was rolled back may  *)
(* still name it (which isUTXOGenuinelySpent is there for).                *)
SpendsAgree ==
  \A o \in Tx : Settled(o) =>
    \/ cache[o].spent = SpentIn(top, o)
    \/ /\ cache[o].spent = {}
       /\ \A s \in SpentIn(top, o) : \E h \in BornAt(top, o) : s[2] - h < MaxBatch
    \/ SpentIn(top, o) = {}

(* The mempool refuses a transaction for a spent input only if the chain   *)
(* spends it, however old the record: through rollbacks, racing fills and  *)
(* the steps between the look-up and the verdict.                          *)
RefusalJustified ==
  [][\A r \in Reader :
       rd[r].pc # "refused" /\ rd'[r].pc = "refused" => rd[r].out \in Spends(Branch[top])]_vars
===============================================================================
