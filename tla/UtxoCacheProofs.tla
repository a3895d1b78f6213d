--------------------------- MODULE UtxoCacheProofs ---------------------------
(***************************************************************************)
(* What TLAPS proves of UtxoCache, for every honest block tree, batch size *)
(* and number of readers: the type invariant, BirthsAgree, SpendsAgree and *)
(* RefusalJustified.                                                       *)
(*                                                                         *)
(* The argument: a commit or a rollback changes the store's record only of *)
(* the outputs it creates, deletes or spends.  The first two are in flight *)
(* until the cache has them; of the third, a commit invalidates them, and  *)
(* a rollback leaves them with a spender that the store no longer has.     *)
(* CacheInv adds that an output in flight as created is at most a batch    *)
(* old, and that a spender in a record, cached or in a reader's hands,     *)
(* does spend the output (it may be off the chain, not wrong).             *)
(***************************************************************************)
EXTENDS UtxoCache, TLAPS

(* What is created by a batch that is still in flight was created by it.   *)
FreshIsNew == \A o \in flight.fresh : \E h \in BornAt(top, o) : Depth[top] - h < MaxBatch

SpenderOf(o, rec) == \A s \in rec.spent : s[1] \in Tx /\ o \in Ins[s[1]]

SpendersRight ==
  /\ \A o \in Tx : SpenderOf(o, cache[o])
  /\ \A r \in Reader : rd[r].pc # "idle" => SpenderOf(rd[r].out, rd[r].rec)

CacheInv == TypeOK /\ BirthsAgree /\ SpendsAgree /\ FreshIsNew /\ SpendersRight

-----------------------------------------------------------------------------
(* The tree.                                                               *)

LEMMA TreeTypes ==
  /\ Genesis \in Block /\ None \notin Block /\ None \notin Tx
  /\ Depth \in [Block -> Nat]
  /\ Branch \in [Block -> SUBSET Block]
  /\ BlockTxs \in [Block -> SUBSET Tx]
  /\ Ins \in [Tx -> SUBSET Tx]
  /\ MaxBatch \in Nat \ {0}
  /\ BlockTxs[Genesis] = {} /\ Branch[Genesis] = {Genesis}
BY TreeAssumption, BlockAssumption, CacheAssumption

LEMMA ParentFacts ==
  ASSUME NEW b \in Block \ {Genesis}
  PROVE  Parent[b] \in Block /\ Branch[b] = Branch[Parent[b]] \union {b}
BY TreeAssumption

(* A branch that goes through t adds to t's only blocks above t.           *)
LEMMA NewAbove ==
  ASSUME NEW b \in Block, NEW t \in Branch[b], NEW x \in Branch[b] \ Branch[t]
  PROVE  Depth[t] < Depth[x] /\ Depth[x] <= Depth[b] /\ t \in Block /\ x \in Block
<1>1. t \in Block /\ x \in Block /\ Depth[x] \in Nat /\ Depth[t] \in Nat /\ Depth[x] <= Depth[b]
  BY TreeAssumption
<1>2. ASSUME Depth[x] <= Depth[t] PROVE FALSE
  <2>1. PICK y \in Branch[t] : Depth[y] = Depth[x]
    BY <1>1, <1>2, TreeAssumption
  <2>2. y \in Branch[b]
    BY TreeAssumption
  <2>3. y = x
    BY <2>1, <2>2, TreeAssumption
  <2> QED BY <2>1, <2>3
<1> QED BY <1>1, <1>2

-----------------------------------------------------------------------------
(* What a commit and a rollback do to the store's records.                 *)

LEMMA BornAtMember ==
  ASSUME NEW b, NEW o, NEW h
  PROVE  h \in BornAt(b, o) <=> \E x \in Branch[b] : o \in BlockTxs[x] /\ h = Depth[x]
BY DEF BornAt

LEMMA SpentInMember ==
  ASSUME NEW b, NEW o, NEW s
  PROVE  s \in SpentIn(b, o) <=>
           \E x \in Branch[b] : \E t \in BlockTxs[x] : o \in Ins[t] /\ s = <<t, Depth[x]>>
BY DEF SpentIn, SpendersOf

LEMMA TypesOnTree ==
  ASSUME NEW b \in Block, NEW o \in Tx
  PROVE  /\ BornAt(b, o) \in SUBSET Heights
         /\ SpentIn(b, o) \in SUBSET (Tx \X Heights)
         /\ RecordOn(b, o) \in Records
         /\ SpenderOf(o, RecordOn(b, o))
         /\ NoRecord \in Records /\ SpenderOf(o, NoRecord)
<1>1. BornAt(b, o) \in SUBSET Heights
  BY TreeTypes, BornAtMember DEF Heights
<1>2. \A s \in SpentIn(b, o) : s \in Tx \X Heights /\ s[1] \in Tx /\ o \in Ins[s[1]]
  BY TreeTypes, SpentInMember DEF Heights
<1> QED BY <1>1, <1>2 DEF RecordOn, NoRecord, Records, SpenderOf

(* A commit leaves alone the records of the outputs it neither creates nor *)
(* spends.                                                                 *)
LEMMA UntouchedByCommit ==
  ASSUME NEW b \in Block, NEW t \in Branch[b], NEW o,
         o \notin Spends(Branch[b] \ Branch[t]), o \notin TxsOf(Branch[b] \ Branch[t])
  PROVE  BornAt(b, o) = BornAt(t, o) /\ SpentIn(b, o) = SpentIn(t, o)
<1>1. Branch[t] \subseteq Branch[b]
  BY TreeAssumption
<1>2. \A x \in Branch[b] \ Branch[t] : o \notin BlockTxs[x]
  BY DEF TxsOf
<1>3. \A x \in Branch[b] \ Branch[t] : \A u \in BlockTxs[x] : o \notin Ins[u]
  BY DEF TxsOf, Spends
<1>4. \A h : h \in BornAt(b, o) <=> h \in BornAt(t, o)
  BY <1>1, <1>2, BornAtMember
<1>5. \A s : s \in SpentIn(b, o) <=> s \in SpentIn(t, o)
  BY <1>1, <1>3, SpentInMember
<1> QED BY <1>4, <1>5

(* A rollback leaves alone where the other blocks' outputs were created,   *)
(* and of an output that it restores no spender remains.                   *)
LEMMA UntouchedByDisconnect ==
  ASSUME NEW b \in Block \ {Genesis}, NEW o, o \notin BlockTxs[b]
  PROVE  /\ BornAt(Parent[b], o) = BornAt(b, o)
         /\ SpentIn(Parent[b], o) = SpentIn(b, o) \/ SpentIn(Parent[b], o) = {}
<1>1. Parent[b] \in Block /\ Branch[b] = Branch[Parent[b]] \union {b}
  BY ParentFacts
<1>2. \A h : h \in BornAt(b, o) <=> h \in BornAt(Parent[b], o)
  BY <1>1, BornAtMember
<1>3. CASE \A u \in BlockTxs[b] : o \notin Ins[u]
  <2>1. \A s : s \in SpentIn(b, o) <=> s \in SpentIn(Parent[b], o)
    BY <1>1, <1>3, SpentInMember
  <2> QED BY <1>2, <2>1
<1>4. CASE \E u \in BlockTxs[b] : o \in Ins[u]
  <2>1. PICK u \in BlockTxs[b] : o \in Ins[u]
    BY <1>4
  <2>2. ASSUME NEW s \in SpentIn(Parent[b], o) PROVE FALSE
    <3>1. PICK x \in Branch[Parent[b]] : \E v \in BlockTxs[x] : o \in Ins[v]
      BY <2>2, SpentInMember
    <3> PICK t \in BlockTxs[x] : o \in Ins[t]
      BY <3>1
    <3>2. x \in Branch[b] /\ b \in Branch[b] /\ x # b
      <4>1. Depth[x] <= Depth[Parent[b]] /\ Depth[b] = Depth[Parent[b]] + 1
        BY <1>1, <3>1, TreeAssumption
      <4>2. Depth[Parent[b]] \in Nat
        BY <1>1, TreeTypes
      <4> QED BY <1>1, <3>1, <4>1, <4>2
    <3>3. t \in TxsOf(Branch[b]) /\ u \in TxsOf(Branch[b])
      BY <2>1, <3>1, <3>2 DEF TxsOf
    <3>4. t = u
      BY <2>1, <3>1, <3>3, CacheAssumption DEF HonestTree
    <3> QED BY <2>1, <3>1, <3>2, <3>4, CacheAssumption DEF HonestTree
  <2> QED BY <1>2, <2>2
<1> QED BY <1>3, <1>4

(* An output created by a batch was created at most a batch below its tip. *)
LEMMA CreatedInBatch ==
  ASSUME NEW b \in Block, NEW t \in Branch[b], Depth[b] - Depth[t] <= MaxBatch,
         NEW o \in TxsOf(Branch[b] \ Branch[t])
  PROVE  \E h \in BornAt(b, o) : Depth[b] - h < MaxBatch
<1>1. PICK x \in Branch[b] \ Branch[t] : o \in BlockTxs[x]
  BY DEF TxsOf
<1>2. Depth[t] < Depth[x] /\ t \in Block /\ x \in Block
  BY NewAbove
<1>3. Depth[x] \in BornAt(b, o)
  BY <1>1, BornAtMember
<1>4. Depth[b] \in Nat /\ Depth[t] \in Nat /\ Depth[x] \in Nat /\ MaxBatch \in Nat
  BY <1>2, TreeTypes
<1> QED BY <1>2, <1>3, <1>4

(* A spend is no higher than the tip.                                      *)
LEMMA SpentBelowTip ==
  ASSUME NEW b \in Block, NEW o, NEW s \in SpentIn(b, o)
  PROVE  s[2] \in Nat /\ s[2] <= Depth[b]
<1>1. PICK x \in Branch[b] : s[2] = Depth[x]
  BY SpentInMember
<1> QED BY <1>1, TreeAssumption

-----------------------------------------------------------------------------
(* The steps.                                                              *)

(* Settled entries whose cached and stored records stay are still right.   *)
LEMMA StillRight ==
  ASSUME NEW o \in Tx,
         BirthsAgree, SpendsAgree,
         cache'[o] = cache[o], Settled(o)' => Settled(o),
         BornAt(top, o)' = BornAt(top, o),
         SpentIn(top, o)' = SpentIn(top, o) \/ SpentIn(top, o)' = {}
  PROVE  Settled(o)' =>
           /\ cache'[o].born = BornAt(top, o)' /\ cache'[o].born # {}
           /\ \/ cache'[o].spent = SpentIn(top, o)'
              \/ /\ cache'[o].spent = {}
                 /\ \A s \in SpentIn(top, o)' : \E h \in BornAt(top, o)' : s[2] - h < MaxBatch
              \/ SpentIn(top, o)' = {}
BY DEF BirthsAgree, SpendsAgree

LEMMA InvInit == Init => CacheInv
<1> SUFFICES ASSUME Init PROVE CacheInv
  OBVIOUS
<1>1. TypeOK
  BY TreeTypes DEF Init, TypeOK, NoRecord, Records, NoFlight, NoLookup, Lookups
<1>2. BirthsAgree /\ SpendsAgree
  BY DEF Init, BirthsAgree, SpendsAgree, Settled
<1>3. FreshIsNew /\ SpendersRight
  BY DEF Init, FreshIsNew, SpendersRight, SpenderOf, NoFlight, NoLookup, NoRecord
<1> QED BY <1>1, <1>2, <1>3 DEF CacheInv

LEMMA InvCommit == CacheInv /\ CommitBatch => CacheInv'
<1> SUFFICES ASSUME CacheInv, CommitBatch PROVE CacheInv'
  OBVIOUS
<1> USE DEF CacheInv
<1>1. PICK b \in Block :
        /\ top \in Branch[b] \ {b}
        /\ Depth[b] - Depth[top] <= MaxBatch
        /\ top' = b
        /\ flight' = [gone |-> Spends(Branch[b] \ Branch[top]), fresh |-> TxsOf(Branch[b] \ Branch[top])]
  BY DEF CommitBatch
<1>2. flight = NoFlight /\ UNCHANGED <<cache, rd, raced>>
  BY DEF CommitBatch
<1>3. TypeOK'
  <2>1. TxsOf(Branch[b] \ Branch[top]) \subseteq Tx
    BY TreeTypes DEF TxsOf
  <2>2. Spends(Branch[b] \ Branch[top]) \subseteq Tx
    BY <2>1, TreeTypes DEF Spends
  <2> QED BY <1>1, <1>2, <2>1, <2>2 DEF TypeOK
<1>4. BirthsAgree' /\ SpendsAgree'
  <2>1. ASSUME NEW o \in Tx, Settled(o)'
        PROVE  /\ Settled(o)
               /\ BornAt(top, o)' = BornAt(top, o)
               /\ SpentIn(top, o)' = SpentIn(top, o)
    <3>1. o \notin Spends(Branch[b] \ Branch[top]) /\ o \notin TxsOf(Branch[b] \ Branch[top])
      BY <1>1, <2>1 DEF Settled
    <3>2. BornAt(b, o) = BornAt(top, o) /\ SpentIn(b, o) = SpentIn(top, o)
      BY <1>1, <3>1, UntouchedByCommit
    <3> QED BY <1>1, <1>2, <2>1, <3>2 DEF Settled, NoFlight, BornAt, SpentIn
  <2> QED BY <1>2, <2>1, StillRight DEF BirthsAgree, SpendsAgree
<1>5. FreshIsNew'
  <2>1. \A o \in TxsOf(Branch[b] \ Branch[top]) : \E h \in BornAt(b, o) : Depth[b] - h < MaxBatch
    BY <1>1, CreatedInBatch
  <2> QED BY <1>1, <2>1 DEF FreshIsNew, BornAt
<1>6. SpendersRight'
  BY <1>2 DEF SpendersRight, SpenderOf
<1> QED BY <1>3, <1>4, <1>5, <1>6

LEMMA InvDisconnect == CacheInv /\ Disconnect => CacheInv'
<1> SUFFICES ASSUME CacheInv, Disconnect PROVE CacheInv'
  OBVIOUS
<1> USE DEF CacheInv
<1>1. /\ top \in Block \ {Genesis} /\ top' = Parent[top]
      /\ flight = NoFlight /\ flight' = [gone |-> BlockTxs[top], fresh |-> {}]
      /\ UNCHANGED <<cache, rd, raced>>
  BY DEF Disconnect, TypeOK
<1>2. TypeOK'
  BY <1>1, TreeTypes, ParentFacts DEF TypeOK
<1>3. BirthsAgree' /\ SpendsAgree'
  <2>1. ASSUME NEW o \in Tx, Settled(o)'
        PROVE  /\ Settled(o)
               /\ BornAt(top, o)' = BornAt(top, o)
               /\ SpentIn(top, o)' = SpentIn(top, o) \/ SpentIn(top, o)' = {}
    <3>1. o \notin BlockTxs[top]
      BY <1>1, <2>1 DEF Settled
    <3>2. /\ BornAt(Parent[top], o) = BornAt(top, o)
          /\ SpentIn(Parent[top], o) = SpentIn(top, o) \/ SpentIn(Parent[top], o) = {}
      BY <1>1, <3>1, UntouchedByDisconnect
    <3> QED BY <1>1, <2>1, <3>2 DEF Settled, NoFlight, BornAt, SpentIn
  <2> QED BY <1>1, <2>1, StillRight DEF BirthsAgree, SpendsAgree
<1>4. FreshIsNew' /\ SpendersRight'
  BY <1>1 DEF FreshIsNew, SpendersRight, SpenderOf
<1> QED BY <1>2, <1>3, <1>4

(* The steps below leave the store alone: what they do not write in the    *)
(* cache stays right.                                                      *)
LEMMA SameStore ==
  ASSUME top' = top, NEW o
  PROVE  BornAt(top, o)' = BornAt(top, o) /\ SpentIn(top, o)' = SpentIn(top, o)
BY DEF BornAt, SpentIn

(* Dropping an entry.                                                      *)
LEMMA InvDrop ==
  ASSUME CacheInv, NEW o \in Tx, SetCache(o, NoRecord), UNCHANGED <<top, rd>>,
         flight' \in [gone : SUBSET Tx, fresh : SUBSET Tx],
         flight'.fresh = flight.fresh, flight.gone \subseteq flight'.gone \union {o}
  PROVE  CacheInv'
<1> USE DEF CacheInv
<1>1. cache' = [cache EXCEPT ![o] = NoRecord] /\ raced' = raced \ {o} /\ NoRecord \in Records
  BY DEF SetCache, NoRecord, Records
<1>2. TypeOK'
  BY <1>1 DEF TypeOK
<1>3. BirthsAgree' /\ SpendsAgree'
  <2>1. ~ Settled(o)'
    BY <1>1 DEF Settled, TypeOK
  <2>2. ASSUME NEW p \in Tx, p # o
        PROVE  cache'[p] = cache[p] /\ (Settled(p)' => Settled(p))
    BY <1>1, <2>2 DEF Settled, TypeOK
  <2> QED BY <2>1, <2>2, SameStore, StillRight DEF BirthsAgree, SpendsAgree
<1>4. FreshIsNew'
  BY SameStore DEF FreshIsNew
<1>5. SpendersRight'
  BY <1>1 DEF SpendersRight, SpenderOf, TypeOK, NoRecord
<1> QED BY <1>2, <1>3, <1>4, <1>5

LEMMA InvRefill ==
  ASSUME CacheInv, NEW o \in Tx, Refill(o)
  PROVE  CacheInv'
<1> USE DEF CacheInv
<1> DEFINE rec == [born |-> BornAt(top, o), spent |-> {}]
<1>1. /\ o \in flight.fresh /\ flight' = [flight EXCEPT !.fresh = @ \ {o}]
      /\ flight.gone = {}
      /\ cache' = [cache EXCEPT ![o] = rec] /\ raced' = raced \ {o}
      /\ UNCHANGED <<top, rd>>
  BY DEF Refill, SetCache
<1>2. rec \in Records /\ top \in Block
  BY TypesOnTree DEF Records, TypeOK
<1>3. TypeOK'
  BY <1>1, <1>2 DEF TypeOK
<1>4. PICK h \in BornAt(top, o) : Depth[top] - h < MaxBatch
  BY <1>1 DEF FreshIsNew
<1>5. \A s \in SpentIn(top, o) : s[2] - h < MaxBatch
  <2>1. h \in Nat /\ Depth[top] \in Nat /\ MaxBatch \in Nat
    BY <1>2, TreeTypes, BornAtMember
  <2> QED BY <1>2, <1>4, <2>1, SpentBelowTip
<1>6. BirthsAgree' /\ SpendsAgree'
  <2>1. cache'[o] = rec
    BY <1>1 DEF TypeOK
  <2>2. ASSUME NEW p \in Tx, p # o
        PROVE  cache'[p] = cache[p] /\ (Settled(p)' => Settled(p))
    BY <1>1, <2>2 DEF Settled, TypeOK
  <2> QED BY <1>1, <1>4, <1>5, <2>1, <2>2, SameStore, StillRight DEF BirthsAgree, SpendsAgree
<1>7. FreshIsNew'
  BY <1>1, SameStore DEF FreshIsNew, TypeOK
<1>8. SpendersRight'
  BY <1>1 DEF SpendersRight, SpenderOf, TypeOK
<1> QED BY <1>3, <1>6, <1>7, <1>8

(* FlushCache and Crash.                                                   *)
LEMMA InvEmpty ==
  ASSUME CacheInv, EmptyCache, top' = top,
         \/ UNCHANGED <<flight, rd>>
         \/ flight' = NoFlight /\ rd' = [r \in Reader |-> NoLookup]
  PROVE  CacheInv'
<1> USE DEF CacheInv
<1>1. cache' = [o \in Tx |-> NoRecord] /\ raced' = {} /\ NoRecord \in Records
  BY DEF EmptyCache, NoRecord, Records
<1>2. NoFlight \in [gone : SUBSET Tx, fresh : SUBSET Tx] /\ NoLookup \in Lookups /\ NoLookup.pc = "idle"
  BY <1>1 DEF NoFlight, NoLookup, Lookups
<1>3. TypeOK'
  BY <1>1, <1>2 DEF TypeOK
<1>4. BirthsAgree' /\ SpendsAgree'
  BY <1>1 DEF BirthsAgree, SpendsAgree, Settled
<1>5. FreshIsNew'
  BY SameStore DEF FreshIsNew, NoFlight
<1>6. SpendersRight'
  BY <1>1, <1>2 DEF SpendersRight, SpenderOf, NoRecord
<1> QED BY <1>3, <1>4, <1>5, <1>6

LEMMA InvLookUp ==
  ASSUME CacheInv, NEW r \in Reader, NEW o \in Tx, LookUp(r, o)
  PROVE  CacheInv'
<1> USE DEF CacheInv
<1>1. UNCHANGED <<top, cache, flight, raced>>
  BY DEF LookUp
<1>2. PICK pc \in {"have", "fill"}, rec \in {cache[o], Record(o)} :
        rec # NoRecord /\ rd' = [rd EXCEPT ![r] = [NoLookup EXCEPT !.pc = pc, !.out = o, !.rec = rec]]
  BY DEF LookUp
<1>3. rec \in Records /\ SpenderOf(o, rec)
  BY TypesOnTree DEF TypeOK, Record, SpendersRight
<1>4. [NoLookup EXCEPT !.pc = pc, !.out = o, !.rec = rec] \in Lookups
  BY <1>3 DEF NoLookup, Lookups
<1>5. TypeOK'
  BY <1>1, <1>2, <1>4 DEF TypeOK, NoLookup
<1>6. BirthsAgree' /\ SpendsAgree' /\ FreshIsNew'
  BY <1>1 DEF BirthsAgree, SpendsAgree, FreshIsNew, Settled, BornAt, SpentIn
<1>7. SpendersRight'
  BY <1>1, <1>2, <1>3 DEF SpendersRight, SpenderOf, TypeOK, NoLookup
<1> QED BY <1>5, <1>6, <1>7

LEMMA InvFill ==
  ASSUME CacheInv, NEW r \in Reader, Fill(r)
  PROVE  CacheInv'
<1> USE DEF CacheInv
<1>0. rd[r].pc = "fill" /\ rd[r].out \in Tx /\ rd[r].rec \in Records
  BY DEF Fill, TypeOK, Lookups
<1> PICK o \in Tx, rec \in Records : o = rd[r].out /\ rec = rd[r].rec
  BY <1>0
<1>1. /\ cache' = [cache EXCEPT ![o] = rec]
      /\ raced' = IF rec = Record(o) THEN raced \ {o} ELSE raced \union {o}
      /\ rd' = [rd EXCEPT ![r].pc = "have"]
      /\ UNCHANGED <<top, flight>>
      /\ rd[r].pc = "fill"
  BY DEF Fill
<1>2. o \in Tx /\ rec \in Records /\ rec # NoRecord /\ SpenderOf(o, rec) /\ top \in Block
  BY <1>1 DEF TypeOK, Lookups, SpendersRight
<1>3. TypeOK'
  BY <1>1, <1>2 DEF TypeOK, Lookups
<1>4. BirthsAgree' /\ SpendsAgree'
  <2>1. ASSUME NEW p \in Tx, p # o
        PROVE  cache'[p] = cache[p] /\ (Settled(p)' => Settled(p))
    BY <1>1, <2>1 DEF Settled, TypeOK
  <2>2. cache'[o] = rec
    BY <1>1, <1>2 DEF TypeOK
  <2>3. Settled(o)' => rec = Record(o)
    BY <1>1, <1>2 DEF Settled
  <2>4. Settled(o)' => rec.born = BornAt(top, o) /\ rec.born # {} /\ rec.spent = SpentIn(top, o)
    BY <1>2, <2>3 DEF Record, RecordOn
  <2>5. BornAt(top, o)' = BornAt(top, o) /\ SpentIn(top, o)' = SpentIn(top, o)
    BY <1>1 DEF BornAt, SpentIn, Fill
  <2>6. ASSUME NEW p \in Tx
        PROVE  BornAt(top, p)' = BornAt(top, p) /\ SpentIn(top, p)' = SpentIn(top, p)
    BY <1>1, SameStore
  <2>7. Settled(o)' => /\ cache'[o].born = BornAt(top, o)' /\ cache'[o].born # {}
                       /\ cache'[o].spent = SpentIn(top, o)'
    BY <2>2, <2>4, <2>5
  <2>8. ASSUME NEW p \in Tx, p # o
        PROVE  Settled(p)' =>
                 /\ cache'[p].born = BornAt(top, p)' /\ cache'[p].born # {}
                 /\ \/ cache'[p].spent = SpentIn(top, p)'
                    \/ /\ cache'[p].spent = {}
                       /\ \A s \in SpentIn(top, p)' : \E h \in BornAt(top, p)' : s[2] - h < MaxBatch
                    \/ SpentIn(top, p)' = {}
    BY <2>1, <2>6, <2>8, StillRight
  <2> QED BY <2>7, <2>8 DEF BirthsAgree, SpendsAgree
<1>5. FreshIsNew'
  BY <1>1, SameStore DEF FreshIsNew
<1>6. SpendersRight'
  BY <1>1, <1>2 DEF SpendersRight, SpenderOf, TypeOK, Lookups
<1> QED BY <1>3, <1>4, <1>5, <1>6

(* What a reader does with a record changes only the reader.               *)
LEMMA InvJudge ==
  ASSUME CacheInv, NEW r \in Reader, FindSpender(r) \/ CheckSpender(r) \/ Refused(r)
  PROVE  CacheInv'
<1> USE DEF CacheInv
<1>1. UNCHANGED <<top, cache, flight, raced>>
  BY DEF FindSpender, CheckSpender, Refused
<1>2. \/ rd' = [rd EXCEPT ![r] = NoLookup]
      \/ \E b \in Block : rd' = [rd EXCEPT ![r].pc = "block", ![r].blk = b] /\ rd[r].pc # "idle"
      \/ rd' = [rd EXCEPT ![r].pc = "refused"] /\ rd[r].pc # "idle"
  <2>1. CASE FindSpender(r)
    <3>1. CASE \A s \in rd[r].rec.spent : s[2] > Depth[top]
      BY <2>1, <3>1 DEF FindSpender, Return
    <3>2. CASE ~ \A s \in rd[r].rec.spent : s[2] > Depth[top]
      <4>1. PICK s \in rd[r].rec.spent :
              s[2] <= Depth[top] /\ rd' = [rd EXCEPT ![r].pc = "block", ![r].blk = AncestorAt(top, s[2])]
        BY <2>1, <3>2 DEF FindSpender
      <4>2. rd[r] \in Lookups /\ top \in Block
        BY DEF TypeOK
      <4>3. s[2] \in 0..Depth[top]
        BY <4>1, <4>2, TreeTypes DEF Lookups, Records, Heights
      <4>4. AncestorAt(top, s[2]) \in Branch[top]
        BY <4>2, <4>3, TreeAssumption DEF AncestorAt
      <4>5. AncestorAt(top, s[2]) \in Block
        BY <4>2, <4>4, TreeTypes
      <4> QED BY <2>1, <4>1, <4>5 DEF FindSpender
    <3> QED BY <3>1, <3>2
  <2>2. CASE CheckSpender(r)
    BY <2>2 DEF CheckSpender, Return
  <2>3. CASE Refused(r)
    BY <2>3 DEF Refused, Return
  <2> QED BY <2>1, <2>2, <2>3
<1>3. NoLookup \in Lookups /\ NoLookup.pc = "idle"
  BY DEF NoLookup, NoRecord, Lookups, Records
<1>4. TypeOK'
  <2>1. rd \in [Reader -> Lookups]
    BY DEF TypeOK
  <2>2. rd' \in [Reader -> Lookups]
    BY <1>2, <1>3, <2>1 DEF Lookups
  <2>3. \A q \in Reader : rd'[q].pc # "idle" => rd'[q].out \in Tx /\ rd'[q].rec # NoRecord
    BY <1>2, <1>3, <2>1 DEF TypeOK, Lookups
  <2> QED BY <1>1, <2>2, <2>3 DEF TypeOK
<1>5. BirthsAgree' /\ SpendsAgree' /\ FreshIsNew'
  BY <1>1 DEF BirthsAgree, SpendsAgree, FreshIsNew, Settled, BornAt, SpentIn
<1>6. SpendersRight'
  <2>1. ASSUME NEW q \in Reader, rd'[q].pc # "idle"
        PROVE  rd[q].pc # "idle" /\ rd'[q].out = rd[q].out /\ rd'[q].rec = rd[q].rec
    BY <1>2, <1>3, <2>1 DEF TypeOK, Lookups
  <2> QED BY <1>1, <2>1 DEF SpendersRight, SpenderOf
<1> QED BY <1>4, <1>5, <1>6

LEMMA InvStep == CacheInv /\ [Next]_vars => CacheInv'
<1> SUFFICES ASSUME CacheInv, [Next]_vars PROVE CacheInv'
  OBVIOUS
<1>1. CASE CommitBatch
  BY <1>1, InvCommit
<1>2. CASE Disconnect
  BY <1>2, InvDisconnect
<1>3. CASE FlushCache \/ Crash
  BY <1>3, InvEmpty DEF FlushCache, Crash
<1>4. ASSUME NEW o \in Tx, Invalidate(o)
      PROVE  CacheInv'
  <2>1. SetCache(o, NoRecord) /\ UNCHANGED <<top, rd>> /\ flight' = [flight EXCEPT !.gone = @ \ {o}]
    BY <1>4 DEF Invalidate
  <2>2. flight \in [gone : SUBSET Tx, fresh : SUBSET Tx]
    BY DEF CacheInv, TypeOK
  <2> QED BY <2>1, <2>2, InvDrop
<1>5. ASSUME NEW o \in Tx, Evict(o)
      PROVE  CacheInv'
  <2>1. flight \in [gone : SUBSET Tx, fresh : SUBSET Tx]
    BY DEF CacheInv, TypeOK
  <2> QED BY <1>5, <2>1, InvDrop DEF Evict
<1>6. ASSUME NEW r \in Reader, ReaderStep(r)
      PROVE  CacheInv'
  BY <1>6, InvLookUp, InvFill, InvJudge DEF ReaderStep
<1>7. CASE UNCHANGED vars
  BY <1>7 DEF vars, CacheInv, TypeOK, BirthsAgree, SpendsAgree, FreshIsNew, SpendersRight,
              SpenderOf, Settled, BornAt, SpentIn
<1> QED BY <1>1, <1>2, <1>3, <1>4, <1>5, <1>6, <1>7, InvRefill DEF Next

(* CacheInv is an invariant.                                               *)
LEMMA Invariance == Spec => []CacheInv
BY InvInit, InvStep, PTL DEF Spec

-----------------------------------------------------------------------------
(* The types are right whatever races.                                     *)
THEOREM CacheTypeCorrect == Spec => []TypeOK
<1>1. CacheInv => TypeOK
  BY DEF CacheInv
<1> QED BY <1>1, Invariance, PTL

(* No commit and no rollback leaves a vanished output in the cache.        *)
THEOREM CacheBirths == Spec => []BirthsAgree
<1>1. CacheInv => BirthsAgree
  BY DEF CacheInv
<1> QED BY <1>1, Invariance, PTL

(* The cache is wrong about spends only in the two ways SpendsAgree names. *)
THEOREM CacheSpends == Spec => []SpendsAgree
<1>1. CacheInv => SpendsAgree
  BY DEF CacheInv
<1> QED BY <1>1, Invariance, PTL

(* A refusal for a spent input is right, however stale the cache.          *)
THEOREM RefusalRight == Spec => RefusalJustified
<1> DEFINE Step == \A r \in Reader :
       rd[r].pc # "refused" /\ rd'[r].pc = "refused" => rd[r].out \in Spends(Branch[top])
<1>1. ASSUME CacheInv, Next PROVE Step
  <2> SUFFICES ASSUME NEW q \in Reader, rd[q].pc # "refused", rd'[q].pc = "refused"
               PROVE  rd[q].out \in Spends(Branch[top])
    OBVIOUS
  <2>1. rd \in [Reader -> Lookups] /\ top \in Block
    BY <1>1 DEF CacheInv, TypeOK
  <2>2. PICK r \in Reader : ReaderStep(r)
    <3>1. rd' # rd
      OBVIOUS
    <3>2. ~ Crash
      BY <3>1 DEF Crash, NoLookup
    <3> QED BY <1>1, <3>1, <3>2 DEF Next, CommitBatch, Disconnect, FlushCache, Invalidate, Refill, Evict
  <2>3. r = q
    BY <2>1, <2>2 DEF ReaderStep, LookUp, Fill, FindSpender, CheckSpender, Refused, Return
  <2>4. CheckSpender(q) /\ rd[q].blk \in Branch[top]
        /\ \E s \in rd[q].rec.spent : s[1] \in BlockTxs[rd[q].blk]
    <3>1. \A o \in Tx : ~ LookUp(q, o)
      BY <2>1 DEF LookUp, NoLookup
    <3>2. ~ Fill(q) /\ ~ Refused(q) /\ ~ Return(q)
      BY <2>1 DEF Fill, Refused, Return, NoLookup, Lookups
    <3>3. ~ FindSpender(q)
      BY <2>1, <3>2 DEF FindSpender, Lookups
    <3> QED BY <2>2, <2>3, <3>1, <3>2, <3>3 DEF ReaderStep, CheckSpender
  <2>5. PICK s \in rd[q].rec.spent : s[1] \in BlockTxs[rd[q].blk]
    BY <2>4
  <2>6. rd[q].out \in Ins[s[1]]
    BY <1>1, <2>4, <2>5 DEF CheckSpender, CacheInv, SpendersRight, SpenderOf
  <2> QED BY <2>4, <2>5, <2>6 DEF Spends, TxsOf
<1>2. CacheInv /\ [Next]_vars => [Step]_vars
  BY <1>1
<1> QED BY <1>2, Invariance, PTL DEF Spec, RefusalJustified
===============================================================================
