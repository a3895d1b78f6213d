---------------------------- MODULE MempoolProofs ----------------------------
(***************************************************************************)
(* What TLAPS proves of Mempool whatever the surroundings do (any Env),    *)
(* for every block tree, every set of transactions, every number of        *)
(* goroutines that add, and every limit: the type invariant, SpenderExact, *)
(* ConflictFree and PoolIsOffered; and, as long as the pool is not         *)
(* cleared, PoolCounted; and, when calls do not overlap (Calm),            *)
(* IndexesAgreeAtRest and, if no block is disconnected either,             *)
(* PoolSpendable; and that Mempool implements TxPool.                      *)
(*                                                                         *)
(* The argument: txs, spentOutpoints and byFeeRate change together, under  *)
(* txsMu, in every removal (TakeOutKeeps), and Insert checks the conflicts *)
(* again under the same lock that writes them (InvInsert); so what a       *)
(* goroutine learned before it took the lock does not matter.  PoolInv     *)
(* adds to the properties only that a call under way has a transaction.    *)
(* The statistics are written after the lock is dropped: CountInv counts   *)
(* the additions and the removals that are between the two.  CalmInv says  *)
(* what the one call under way has done and has still to do to each        *)
(* structure, and whom of the pool a block under way will remove.          *)
(***************************************************************************)
EXTENDS Mempool, TLAPS, FiniteSetTheorems, SequenceTheorems

-----------------------------------------------------------------------------
(* Sequences without an element: the orphan pool after a deletion.         *)


LEMMA RemoveAtType ==
  ASSUME NEW S, NEW s \in Seq(S), NEW i \in 1 .. Len(s)
  PROVE  RemoveAt(s, i) \in Seq(S) /\ Len(RemoveAt(s, i)) = Len(s) - 1
<1> DEFINE before == SubSeq(s, 1, i-1)
           after == SubSeq(s, i+1, Len(s))
<1>1. before \in Seq(S) /\ Len(before) = i - 1
  BY SubSeqProperties
<1>2. after \in Seq(S) /\ Len(after) = Len(s) - i
  BY SubSeqProperties
<1>3. RemoveAt(s, i) = before \o after
  BY DEF RemoveAt
<1> HIDE DEF before, after
<1>4. before \o after \in Seq(S) /\ Len(before \o after) = Len(before) + Len(after)
  BY <1>1, <1>2, ConcatProperties
<1> QED BY <1>1, <1>2, <1>3, <1>4

(* Deleting an orphan, present or not.                                     *)
LEMMA WithoutType ==
  ASSUME NEW S, NEW s \in Seq(S), NEW t
  PROVE  Without(s, t) \in Seq(S) /\ Len(Without(s, t)) <= Len(s)
<1>1. CASE t \notin ToSet(s)
  BY <1>1 DEF Without
<1>2. CASE t \in ToSet(s)
  <2> DEFINE i == CHOOSE i \in DOMAIN s : s[i] = t
  <2>1. i \in 1 .. Len(s)
    BY <1>2 DEF ToSet
  <2>2. Without(s, t) = RemoveAt(s, i)
    BY <1>2 DEF Without
  <2> HIDE DEF i
  <2> QED BY <2>1, <2>2, RemoveAtType
<1> QED BY <1>1, <1>2

-----------------------------------------------------------------------------
(* A call under way has a transaction, never the None of an idle           *)
(* goroutine.                                                              *)
AddOK == \A a \in Adder : add[a].pc # "idle" => add[a].tx \in Ordinary

(* The facts about transactions that the proofs need.                      *)
LEMMA TxFacts ==
  /\ Ordinary \subseteq Tx /\ None \notin Tx /\ None \notin Ordinary
  /\ Ins \in [Tx -> SUBSET Tx]
  BY TreeAssumption, BlockAssumption, PoolAssumption

(* An idle goroutine is well typed.                                        *)
LEMMA NoCallType == NoCall \in Calls /\ NoCall.pc = "idle"
<1>1. <<>> \in Seq(Ordinary)
  OBVIOUS
<1>2. NoCall \in Calls
  BY <1>1 DEF NoCall, Calls, Steps
<1> QED BY <1>2 DEF NoCall

(* The steps of AddTransaction, so that Steps can stay closed.             *)
LEMMA StepNames ==
  /\ "idle" \in Steps /\ "inputs" \in Steps /\ "orphan" \in Steps /\ "conflicts" \in Steps
  /\ "validate" \in Steps /\ "scripts" \in Steps /\ "capacity" \in Steps /\ "insert" \in Steps
  /\ "callback" \in Steps /\ "index" \in Steps /\ "stats" \in Steps /\ "accepted" \in Steps
  /\ "orphans" \in Steps /\ "drop" \in Steps
BY DEF Steps

(* The part of the type invariant that AddTransaction writes.              *)
AddTyped == add \in [Adder -> Calls] /\ AddOK

(* A call that goes on as r.                                               *)
LEMMA SetCall ==
  ASSUME AddTyped, NEW a \in Adder,
         NEW r \in Calls, r.pc # "idle" => r.tx \in Ordinary,
         add' = [add EXCEPT ![a] = r]
  PROVE  AddTyped'
BY DEF AddTyped, AddOK

(* A goroutine calls AddTransaction.                                       *)
LEMMA StartType ==
  ASSUME AddTyped, NEW a \in Adder, Start(a)
  PROVE  AddTyped'
<1>1. PICK t \in Ordinary \ pool : Enter(a, t)
  BY DEF Start
<1> DEFINE r == [NoCall EXCEPT !.pc = "inputs", !.tx = t, !.todo = Ins[t]]
<1>2. r \in Calls /\ r.tx \in Ordinary
  BY NoCallType, StepNames, TxFacts DEF Calls
<1>3. add' = [add EXCEPT ![a] = r]
  BY <1>1 DEF Enter
<1> HIDE DEF r
<1> QED BY <1>2, <1>3, SetCall

(* Every error return.                                                     *)
LEMMA RejectType ==
  ASSUME AddTyped, NEW a \in Adder, NEW code, add[a].pc # "idle", Reject(a, code)
  PROVE  AddTyped'
<1> DEFINE r == [add[a] EXCEPT !.pc = IF code = "orphan" THEN "orphans" ELSE "drop", !.todo = {}]
<1>1. add[a] \in Calls /\ add[a].tx \in Ordinary
  BY DEF AddTyped, AddOK
<1>2. r \in Calls /\ r.tx \in Ordinary
  BY <1>1, StepNames DEF Calls
<1>3. add' = [add EXCEPT ![a] = NoCall] \/ add' = [add EXCEPT ![a] = r]
  BY DEF Reject
<1> HIDE DEF r
<1> QED BY <1>2, <1>3, SetCall, NoCallType

(* The call goes on to its next step.                                      *)
LEMMA GotoType ==
  ASSUME AddTyped, NEW a \in Adder, add[a].pc # "idle", NEW p \in Steps, Goto(a, p)
  PROVE  AddTyped'
BY DEF AddTyped, AddOK, Goto, Calls

(* One turn of a loop over the inputs.                                     *)
LEMMA TodoType ==
  ASSUME AddTyped, NEW a \in Adder, add[a].pc # "idle", NEW p \in Steps, NEW rest \in SUBSET Tx,
         add' = [add EXCEPT ![a] = [@ EXCEPT !.todo = rest, !.pc = p]]
  PROVE  AddTyped'
BY DEF AddTyped, AddOK, Calls

(* processOrphans: its queue, its next parent, its next orphan.            *)
LEMMA QueueType ==
  ASSUME AddTyped, NEW a \in Adder, add[a].pc # "idle", NEW p \in Steps, NEW q \in Seq(Ordinary),
         add' = [add EXCEPT ![a] = [@ EXCEPT !.queue = q, !.pc = p]]
  PROVE  AddTyped'
BY DEF AddTyped, AddOK, Calls

(* The orphans of the queue's head become the candidates.                  *)
LEMMA ParentType ==
  ASSUME AddTyped, NEW a \in Adder, add[a].pc # "idle",
         NEW q \in Seq(Ordinary), NEW cs \in SUBSET Ordinary,
         add' = [add EXCEPT ![a] = [@ EXCEPT !.queue = q, !.cands = cs]]
  PROVE  AddTyped'
BY DEF AddTyped, AddOK, Calls

(* processOrphans calls AddTransaction for an orphan.                      *)
LEMMA CandidateType ==
  ASSUME AddTyped, NEW a \in Adder, NEW p \in Steps, NEW t \in Ordinary,
         NEW cs \in SUBSET Ordinary, NEW todo \in SUBSET Tx,
         add' = [add EXCEPT ![a] =
           [@ EXCEPT !.cands = cs, !.tx = t, !.nested = TRUE, !.todo = todo, !.pc = p]]
  PROVE  AddTyped'
<1> DEFINE r == [add[a] EXCEPT !.cands = cs, !.tx = t, !.nested = TRUE, !.todo = todo, !.pc = p]
<1>1. add[a] \in Calls
  BY DEF AddTyped
<1>2. r \in Calls /\ r.tx = t
  BY <1>1 DEF Calls
<1>3. add' = [add EXCEPT ![a] = r]
  OBVIOUS
<1> HIDE DEF r
<1> QED BY <1>2, <1>3, SetCall

(* One case per step of AddTransaction.                                    *)
LEMMA AddStepTyped ==
  ASSUME AddTyped, orphans \in Seq(Ordinary), NEW a \in Adder, AddStep(a)
  PROVE  AddTyped'
<1> USE StepNames
<1>0. add[a] \in Calls /\ add[a].todo \subseteq Tx
  BY DEF AddTyped, Calls
<1>1. CASE FindInput(a)
  <2>1. PICK o \in add[a].todo :
          LET rest == add[a].todo \ {o}
          IN  \/ Goto(a, "orphan")
              \/ add' = [add EXCEPT ![a] =
                   [@ EXCEPT !.todo = rest, !.pc = IF rest = {} THEN "conflicts" ELSE "inputs"]]
    BY <1>1 DEF FindInput
  <2> DEFINE rest == add[a].todo \ {o}
             pc == IF rest = {} THEN "conflicts" ELSE "inputs"
  <2>2. rest \in SUBSET Tx /\ pc \in Steps
    BY <1>0
  <2>3. Goto(a, "orphan") \/ add' = [add EXCEPT ![a] = [@ EXCEPT !.todo = rest, !.pc = pc]]
    BY <2>1
  <2>4. add[a].pc # "idle"
    BY <1>1 DEF FindInput
  <2> HIDE DEF rest, pc
  <2> QED BY <2>2, <2>3, <2>4, GotoType, TodoType
<1>2. CASE StoreOrphan(a)
  BY <1>2, RejectType DEF StoreOrphan
<1>3. CASE CheckConflicts(a)
  <2>1. add[a].tx \in Ordinary /\ Ins[add[a].tx] \in SUBSET Tx
    BY <1>3, TxFacts DEF CheckConflicts, AddTyped, AddOK
  <2>2. \/ Reject(a, "conflict")
        \/ add' = [add EXCEPT ![a] = [@ EXCEPT !.todo = Ins[add[a].tx], !.pc = "validate"]]
    BY <1>3 DEF CheckConflicts
  <2>3. add[a].pc # "idle"
    BY <1>3 DEF CheckConflicts
  <2> QED BY <2>1, <2>2, <2>3, RejectType, TodoType
<1>4. CASE ValidateInput(a)
  <2>1. add[a].pc # "idle"
    BY <1>4 DEF ValidateInput
  <2>2. CASE Reject(a, "orphan") \/ Reject(a, "invalid")
    BY <2>1, <2>2, RejectType
  <2>3. ASSUME NEW o \in add[a].todo,
               LET rest == add[a].todo \ {o}
               IN  add' = [add EXCEPT ![a] =
                     [@ EXCEPT !.todo = rest, !.pc = IF rest = {} THEN "scripts" ELSE "validate"]]
        PROVE  AddTyped'
    <3> DEFINE rest == add[a].todo \ {o}
               pc == IF rest = {} THEN "scripts" ELSE "validate"
    <3>1. rest \in SUBSET Tx /\ pc \in Steps
      BY <1>0
    <3>2. add' = [add EXCEPT ![a] = [@ EXCEPT !.todo = rest, !.pc = pc]]
      BY <2>3
    <3> HIDE DEF rest, pc
    <3> QED BY <2>1, <3>1, <3>2, TodoType
  <2> QED BY <1>4, <2>2, <2>3 DEF ValidateInput
<1>5. CASE CheckScripts(a)
  BY <1>5, RejectType, GotoType DEF CheckScripts
<1>6. CASE CheckCapacity(a)
  BY <1>6, RejectType, GotoType DEF CheckCapacity
<1>7. CASE Insert(a)
  BY <1>7, RejectType, GotoType DEF Insert
<1>8. CASE AcceptCallback(a)
  BY <1>8, GotoType DEF AcceptCallback
<1>9. CASE UpdateIndexes(a)
  BY <1>9, GotoType DEF UpdateIndexes
<1>10. CASE UpdateAddStats(a)
  <2>1. CASE add[a].nested
    BY <1>10, <2>1, GotoType DEF UpdateAddStats
  <2>2. CASE ~ add[a].nested
    <3>1. add[a].tx \in Ordinary
      BY <1>10 DEF UpdateAddStats, AddTyped, AddOK
    <3> DEFINE q == <<add[a].tx>>
    <3>2. q \in Seq(Ordinary)
      BY <3>1
    <3>3. add' = [add EXCEPT ![a] = [@ EXCEPT !.queue = q, !.pc = "orphans"]]
      BY <1>10, <2>2 DEF UpdateAddStats
    <3>4. add[a].pc # "idle"
      BY <1>10 DEF UpdateAddStats
    <3> HIDE DEF q
    <3> QED BY <3>2, <3>3, <3>4, QueueType
  <2> QED BY <2>1, <2>2
<1>11. CASE NextParent(a)
  <2> DEFINE cs == { t \in OrphanSet : Head(add[a].queue) \in Ins[t] }
             q == Tail(add[a].queue)
  <2>1. add[a].queue \in Seq(Ordinary)
    BY <1>0 DEF Calls
  <2>2. add[a].queue # <<>> /\ add[a].pc # "idle"
    BY <1>11 DEF NextParent
  <2>3. q \in Seq(Ordinary)
    BY <2>1, <2>2, HeadTailProperties
  <2>4. cs \in SUBSET Ordinary
    BY DEF OrphanSet, ToSet
  <2>5. add' = [add EXCEPT ![a] = [@ EXCEPT !.queue = q, !.cands = cs]]
    BY <1>11, Zenon DEF NextParent
  <2> HIDE DEF cs, q
  <2> QED BY <2>2, <2>3, <2>4, <2>5, ParentType
<1>12. CASE NextCandidate(a)
  <2>1. PICK t \in add[a].cands :
          add' = [add EXCEPT ![a] =
            [@ EXCEPT !.cands = add[a].cands \ {t}, !.tx = t, !.nested = TRUE,
                      !.todo = IF t \in pool THEN {} ELSE Ins[t],
                      !.pc = IF t \in pool THEN "drop" ELSE "inputs"]]
    BY <1>12 DEF NextCandidate
  <2> DEFINE todo == IF t \in pool THEN {} ELSE Ins[t]
             pc == IF t \in pool THEN "drop" ELSE "inputs"
             cs == add[a].cands \ {t}
  <2>2. t \in Ordinary /\ cs \in SUBSET Ordinary
    BY <1>0 DEF Calls
  <2>3. todo \in SUBSET Tx /\ pc \in Steps
    BY <2>2, TxFacts
  <2>4. add' = [add EXCEPT ![a] =
          [@ EXCEPT !.cands = cs, !.tx = t, !.nested = TRUE, !.todo = todo, !.pc = pc]]
    BY <2>1, Zenon
  <2> HIDE DEF todo, pc, cs
  <2> QED BY <2>2, <2>3, <2>4, CandidateType
<1>13. CASE OrphanAccepted(a)
  <2> DEFINE q == Append(add[a].queue, add[a].tx)
  <2>1. add[a].queue \in Seq(Ordinary)
    BY <1>0 DEF Calls
  <2>2. add[a].tx \in Ordinary /\ add[a].pc # "idle"
    BY <1>13 DEF OrphanAccepted, AddTyped, AddOK
  <2>3. q \in Seq(Ordinary)
    BY <2>1, <2>2
  <2>4. add' = [add EXCEPT ![a] = [@ EXCEPT !.queue = q, !.pc = "orphans"]]
    BY <1>13, Zenon DEF OrphanAccepted
  <2> HIDE DEF q
  <2> QED BY <2>2, <2>3, <2>4, QueueType
<1>14. CASE OrphanDropped(a)
  BY <1>14, GotoType DEF OrphanDropped
<1>15. CASE AddReturns(a)
  BY <1>15, NoCallType, SetCall DEF AddReturns
<1> QED
  BY <1>1, <1>2, <1>3, <1>4, <1>5, <1>6, <1>7, <1>8, <1>9, <1>10, <1>11, <1>12, <1>13, <1>14, <1>15
     DEF AddStep

-----------------------------------------------------------------------------
(* The steps between the insertion and the statistics, and what a step of  *)
(* one goroutine does to itself and to the others.                         *)
Adding == {"callback", "index", "stats"}
Others(a) == \A b \in Adder \ {a} : add'[b] = add[b]

LEMMA GotoMoves ==
  ASSUME add \in [Adder -> Calls], NEW a \in Adder, NEW p, Goto(a, p)
  PROVE  Others(a) /\ add'[a].pc = p /\ add'[a].tx = add[a].tx
BY DEF Goto, Others, Calls

(* An error return is not between insertion and statistics.                *)
LEMMA RejectMoves ==
  ASSUME add \in [Adder -> Calls], NEW a \in Adder, NEW code, Reject(a, code)
  PROVE  Others(a) /\ add'[a].pc \notin Adding
<1> DEFINE r == [add[a] EXCEPT !.pc = IF code = "orphan" THEN "orphans" ELSE "drop", !.todo = {}]
<1>1. add[a] \in Calls
  OBVIOUS
<1>2. r.pc \notin Adding
  BY <1>1 DEF Calls, Adding
<1>3. NoCall.pc \notin Adding
  BY DEF NoCall, Adding
<1>4. add' = [add EXCEPT ![a] = NoCall] \/ add' = [add EXCEPT ![a] = r]
  BY DEF Reject
<1> HIDE DEF r
<1> QED BY <1>2, <1>3, <1>4 DEF Others

(* The insertion finds a conflict, or writes both maps.                    *)
LEMMA InsertMoves ==
  ASSUME add \in [Adder -> Calls], NEW a \in Adder, Insert(a)
  PROVE  /\ Others(a)
         /\ \/ /\ Reject(a, "conflict") /\ UNCHANGED <<pool, spender>>
               /\ add'[a].pc \notin Adding
            \/ /\ ~ Conflicts(add[a].tx)
               /\ pool' = pool \union {add[a].tx}
               /\ spender' = [o \in Tx |-> IF o \in Ins[add[a].tx] THEN add[a].tx ELSE spender[o]]
               /\ add'[a].pc = "callback" /\ add'[a].tx = add[a].tx
<1>1. CASE Conflicts(add[a].tx)
  BY <1>1, RejectMoves DEF Insert
<1>2. CASE ~ Conflicts(add[a].tx)
  BY <1>2, GotoMoves DEF Insert
<1> QED BY <1>1, <1>2

(* The steps before the insertion, and after the statistics.               *)
LEMMA OtherMoves ==
  ASSUME add \in [Adder -> Calls], NEW a \in Adder, Start(a) \/ AddStep(a),
         add[a].pc \notin Adding, add[a].pc # "insert"
  PROVE  Others(a) /\ add'[a].pc \notin Adding /\ UNCHANGED <<poolVars, count>>
<1> USE DEF poolVars
<1>0. add[a] \in Calls
  OBVIOUS
<1>16. CASE Start(a)
  BY <1>16, NoCallType DEF Start, Enter, Others, Adding, Calls
<1>1. CASE FindInput(a)
  <2>1. PICK o \in add[a].todo :
          LET rest == add[a].todo \ {o}
          IN  \/ Goto(a, "orphan")
              \/ add' = [add EXCEPT ![a] =
                   [@ EXCEPT !.todo = rest, !.pc = IF rest = {} THEN "conflicts" ELSE "inputs"]]
    BY <1>1 DEF FindInput
  <2> DEFINE rest == add[a].todo \ {o}
             pc == IF rest = {} THEN "conflicts" ELSE "inputs"
  <2>2. pc \notin Adding
    BY DEF Adding
  <2>3. Goto(a, "orphan") \/ add' = [add EXCEPT ![a] = [@ EXCEPT !.todo = rest, !.pc = pc]]
    BY <2>1
  <2> HIDE DEF rest, pc
  <2>4. CASE Goto(a, "orphan")
    BY <1>1, <2>4, GotoMoves DEF Adding, FindInput
  <2>5. CASE add' = [add EXCEPT ![a] = [@ EXCEPT !.todo = rest, !.pc = pc]]
    <3>1. Others(a) /\ add'[a].pc = pc
      BY <1>0, <2>5 DEF Others, Calls
    <3> QED BY <1>1, <2>2, <3>1 DEF FindInput
  <2> QED BY <2>3, <2>4, <2>5
<1>2. CASE StoreOrphan(a)
  BY <1>2, RejectMoves DEF StoreOrphan
<1>3. CASE CheckConflicts(a)
  BY <1>0, <1>3, RejectMoves DEF CheckConflicts, Others, Adding, Calls
<1>4. CASE ValidateInput(a)
  BY <1>0, <1>4, RejectMoves DEF ValidateInput, Others, Adding, Calls
<1>5. CASE CheckScripts(a)
  BY <1>5, RejectMoves, GotoMoves DEF CheckScripts, Adding
<1>6. CASE CheckCapacity(a)
  BY <1>6, RejectMoves, GotoMoves DEF CheckCapacity, Adding
<1>7. CASE Insert(a) \/ AcceptCallback(a) \/ UpdateIndexes(a) \/ UpdateAddStats(a)
  BY <1>7 DEF Insert, AcceptCallback, UpdateIndexes, UpdateAddStats, Adding
<1>11. CASE NextParent(a)
  BY <1>0, <1>11 DEF NextParent, Others, Adding, Calls
<1>12. CASE NextCandidate(a)
  BY <1>0, <1>12 DEF NextCandidate, Others, Adding, Calls
<1>13. CASE OrphanAccepted(a)
  BY <1>0, <1>13 DEF OrphanAccepted, Others, Adding, Calls
<1>14. CASE OrphanDropped(a)
  BY <1>14, GotoMoves DEF OrphanDropped, Adding
<1>15. CASE AddReturns(a)
  BY <1>15, NoCallType DEF AddReturns, Others, Adding
<1> QED
  BY <1>1, <1>2, <1>3, <1>4, <1>5, <1>6, <1>7, <1>11, <1>12, <1>13, <1>14, <1>15, <1>16 DEF AddStep

-----------------------------------------------------------------------------
(* The invariant.                                                          *)
PoolInv ==
  /\ TypeOK
  /\ AddOK
  /\ SpenderExact
  /\ PoolIsOffered
  /\ IsFiniteSet(pool)
  /\ IsFiniteSet(expiry.gone)

(* Every removal takes its transactions out of the three structures.       *)
LEMMA TakeOutKeeps ==
  ASSUME PoolInv, NEW S \in SUBSET pool, TakeOut(S)
  PROVE  /\ pool' = pool \ S
         /\ spender' \in [Tx -> Ordinary \union {None}]
         /\ byFee' \in [Tx -> Nat]
         /\ SpenderExact'
         /\ \A t \in pool' : byFee'[t] = byFee[t]
         /\ IsFiniteSet(pool') /\ IsFiniteSet(S)
<1>1. /\ pool' = pool \ S /\ pool \subseteq Ordinary
      /\ spender \in [Tx -> Ordinary \union {None}]
      /\ spender' = [o \in Tx |-> IF \E t \in S : o \in Ins[t] THEN None ELSE spender[o]]
      /\ byFee' = [t \in Tx |-> IF t \in S THEN NonNegative(byFee[t] - 1) ELSE byFee[t]]
  BY DEF TakeOut, PoolInv, TypeOK
<1>2. spender' \in [Tx -> Ordinary \union {None}]
  BY <1>1
<1>3. byFee' \in [Tx -> Nat]
  BY <1>1 DEF NonNegative, PoolInv, TypeOK
<1>4. SpenderExact'
  <2> SUFFICES ASSUME NEW o \in Tx, NEW t \in Ordinary
               PROVE  (spender'[o] = t) <=> (t \in pool' /\ o \in Ins[t])
    BY DEF SpenderExact
  <2>1. (spender[o] = t) <=> (t \in pool /\ o \in Ins[t])
    BY DEF PoolInv, SpenderExact
  <2>2. CASE \E x \in S : o \in Ins[x]
    <3>1. PICK x \in S : o \in Ins[x]
      BY <2>2
    <3>2. spender[o] = x
      BY <1>1, <3>1 DEF PoolInv, SpenderExact
    <3>3. spender'[o] = None
      BY <1>1, <2>2
    <3> QED BY <1>1, <2>1, <3>1, <3>2, <3>3, TxFacts
  <2>3. CASE ~ \E x \in S : o \in Ins[x]
    BY <1>1, <2>1, <2>3
  <2> QED BY <2>2, <2>3
<1>5. \A t \in pool' : byFee'[t] = byFee[t]
  BY <1>1, TxFacts
<1>6. IsFiniteSet(pool') /\ IsFiniteSet(S)
  BY <1>1, FS_Subset DEF PoolInv
<1> QED BY <1>1, <1>2, <1>3, <1>4, <1>5, <1>6

(* A removal leaves PoolIsOffered true when no call moves.                 *)
LEMMA OfferedKept ==
  ASSUME PoolIsOffered, UNCHANGED add, pool' \subseteq pool, \A t \in pool' : byFee'[t] = byFee[t]
  PROVE  PoolIsOffered'
BY DEF PoolIsOffered

(* Each action keeps PoolInv: AddTransaction first.                        *)
LEMMA InvStart ==
  ASSUME PoolInv, NEW a \in Adder, Start(a)
  PROVE  PoolInv'
<1> USE DEF PoolInv, poolVars, elsewhere
<1>1. AddTyped'
  BY StartType DEF AddTyped, TypeOK
<1>2. /\ Others(a) /\ add'[a].pc \notin Adding
      /\ UNCHANGED <<poolVars, orphans, count, announced, elsewhere>>
      /\ add[a].pc \notin Adding
  BY OtherMoves DEF Start, TypeOK, Adding
<1>3. PoolIsOffered'
  BY <1>2 DEF PoolIsOffered, Others, Adding
<1> QED BY <1>1, <1>2, <1>3 DEF AddTyped, TypeOK, SpenderExact

(* The insertion: no input has a spender, so the index stays exact.        *)
LEMMA InvInsert ==
  ASSUME PoolInv, NEW a \in Adder, Insert(a)
  PROVE  PoolInv'
<1> DEFINE t == add[a].tx
<1> USE DEF PoolInv
<1>1. AddTyped'
  BY AddStepTyped DEF AddTyped, TypeOK, AddStep
<1>2. UNCHANGED <<byFee, orphans, count, announced, top, conn, expiry, clearing>>
      /\ add[a].pc = "insert"
  BY DEF Insert, elsewhere
<1>3. CASE UNCHANGED <<pool, spender>> /\ Others(a) /\ add'[a].pc \notin Adding
  <2>1. PoolIsOffered'
    BY <1>2, <1>3 DEF PoolIsOffered, Others
  <2> QED BY <1>1, <1>2, <1>3, <2>1 DEF AddTyped, TypeOK, SpenderExact
<1>4. CASE /\ Others(a) /\ ~ Conflicts(t)
           /\ pool' = pool \union {t}
           /\ spender' = [o \in Tx |-> IF o \in Ins[t] THEN t ELSE spender[o]]
           /\ add'[a].pc = "callback" /\ add'[a].tx = t
  <2>1. t \in Ordinary /\ pool \subseteq Ordinary /\ spender \in [Tx -> Ordinary \union {None}]
    BY <1>2 DEF AddOK, TypeOK
  <2>2. \A o \in Ins[t] : spender[o] = None
    BY <1>4 DEF Conflicts
  <2> HIDE DEF t
  <2>3. pool' \subseteq Ordinary /\ spender' \in [Tx -> Ordinary \union {None}]
    BY <1>4, <2>1
  <2>4. SpenderExact'
    <3> SUFFICES ASSUME NEW o \in Tx, NEW s \in Ordinary
                 PROVE  (spender'[o] = s) <=> (s \in pool' /\ o \in Ins[s])
      BY DEF SpenderExact
    <3>1. (spender[o] = s) <=> (s \in pool /\ o \in Ins[s])
      BY DEF SpenderExact
    <3>2. CASE o \in Ins[t]
      BY <1>4, <2>1, <2>2, <3>1, <3>2, TxFacts
    <3>3. CASE o \notin Ins[t]
      BY <1>4, <3>1, <3>3
    <3> QED BY <3>2, <3>3
  <2>5. PoolIsOffered'
    BY <1>2, <1>4 DEF PoolIsOffered, Others
  <2>6. IsFiniteSet(pool')
    BY <1>4, FS_AddElement
  <2> QED BY <1>1, <1>2, <2>3, <2>4, <2>5, <2>6 DEF AddTyped, TypeOK
<1> QED BY <1>3, <1>4, InsertMoves DEF TypeOK

(* The other steps touch one structure each, or none.                      *)
LEMMA InvAddStep ==
  ASSUME PoolInv, NEW a \in Adder, AddStep(a)
  PROVE  PoolInv'
<1> USE DEF PoolInv, poolVars, elsewhere
<1>1. AddTyped'
  BY AddStepTyped DEF AddTyped, TypeOK
<1>2. CASE Insert(a)
  BY <1>2, InvInsert
<1>3. CASE AcceptCallback(a)
  <2>1. add[a].tx \in Ordinary
    BY <1>3 DEF AcceptCallback, AddOK
  <2>2. PoolIsOffered'
    BY <1>3, GotoMoves DEF AcceptCallback, PoolIsOffered, Others, TypeOK
  <2> QED BY <1>1, <1>3, <2>1, <2>2 DEF AcceptCallback, AddTyped, TypeOK, SpenderExact
<1>4. CASE UpdateIndexes(a)
  <2>1. add[a].tx \in Tx /\ byFee \in [Tx -> Nat] /\ pool \subseteq Tx
    BY <1>4, TxFacts DEF UpdateIndexes, AddOK, TypeOK
  <2>2. byFee' = [byFee EXCEPT ![add[a].tx] = @ + 1]
    BY <1>4 DEF UpdateIndexes
  <2>3. byFee' \in [Tx -> Nat]
    BY <2>1, <2>2
  <2>4. \A t \in Tx : (byFee'[t] = 0 => byFee[t] = 0) /\ (t = add[a].tx => byFee'[t] > 0)
    BY <2>1, <2>2
  <2>6. Others(a) /\ pool' = pool
    BY <1>4, GotoMoves DEF UpdateIndexes, TypeOK
  <2>5. PoolIsOffered'
    <3> SUFFICES ASSUME NEW t \in pool, byFee'[t] = 0
                 PROVE  \E b \in Adder : add'[b].pc \in {"callback", "index"} /\ add'[b].tx = t
      BY <2>6 DEF PoolIsOffered
    <3>1. byFee[t] = 0 /\ t # add[a].tx
      BY <2>1, <2>3, <2>4
    <3>2. PICK b \in Adder : add[b].pc \in {"callback", "index"} /\ add[b].tx = t
      BY <3>1 DEF PoolIsOffered
    <3> QED BY <2>6, <3>1, <3>2 DEF Others
  <2> QED BY <1>1, <1>4, <2>3, <2>5 DEF UpdateIndexes, AddTyped, TypeOK, SpenderExact
<1>5. CASE UpdateAddStats(a)
  <2>1. Others(a) /\ add[a].pc = "stats" /\ UNCHANGED <<pool, byFee, spender>> /\ count' = count + 1
        /\ UNCHANGED <<orphans, announced, elsewhere>>
    BY <1>5, GotoMoves DEF UpdateAddStats, Others, TypeOK
  <2>2. PoolIsOffered'
    BY <2>1 DEF PoolIsOffered, Others
  <2> QED BY <1>1, <2>1, <2>2 DEF AddTyped, TypeOK, SpenderExact
<1>6. CASE add[a].pc \notin Adding /\ add[a].pc # "insert"
  <2>1. /\ Others(a) /\ add'[a].pc \notin Adding /\ UNCHANGED <<poolVars, count>>
    BY <1>6, OtherMoves DEF TypeOK
  <2>2. PoolIsOffered'
    BY <1>6, <2>1 DEF PoolIsOffered, Others, Adding
  <2>3. UNCHANGED <<announced, elsewhere>>
    BY <1>6 DEF AddStep, FindInput, StoreOrphan, CheckConflicts, ValidateInput, CheckScripts,
      CheckCapacity, Insert, AcceptCallback, UpdateIndexes, UpdateAddStats, NextParent,
      NextCandidate, OrphanAccepted, OrphanDropped, AddReturns, Adding
  <2>4. orphans' \in Seq(Ordinary) /\ Len(orphans') <= MaxOrphans
    <3>1. CASE StoreOrphan(a)
      <4> DEFINE kept == IF Len(orphans) >= MaxOrphans THEN Tail(orphans) ELSE orphans
      <4>1. orphans \in Seq(Ordinary) /\ Len(orphans) <= MaxOrphans /\ MaxOrphans \in Nat \ {0}
        BY PoolAssumption DEF TypeOK
      <4>2. add[a].tx \in Ordinary
        BY <3>1 DEF StoreOrphan, AddOK
      <4>3. kept \in Seq(Ordinary) /\ Len(kept) < MaxOrphans
        <5>1. CASE Len(orphans) >= MaxOrphans
          <6>1. orphans # <<>>
            BY <4>1, <5>1
          <6>2. Tail(orphans) \in Seq(Ordinary) /\ Len(Tail(orphans)) = Len(orphans) - 1
            BY <4>1, <6>1, HeadTailProperties
          <6> QED BY <4>1, <5>1, <6>2
        <5>2. CASE ~ (Len(orphans) >= MaxOrphans)
          BY <4>1, <5>2
        <5> QED BY <5>1, <5>2
      <4>4. orphans' = orphans \/ orphans' = Append(kept, add[a].tx)
        BY <3>1 DEF StoreOrphan
      <4> HIDE DEF kept
      <4>5. /\ Append(kept, add[a].tx) \in Seq(Ordinary)
            /\ Len(Append(kept, add[a].tx)) = Len(kept) + 1
        BY <4>2, <4>3, AppendProperties
      <4> QED BY <4>1, <4>3, <4>4, <4>5
    <3>2. CASE OrphanAccepted(a) \/ OrphanDropped(a)
      <4>1. orphans' = Without(orphans, add[a].tx)
        BY <3>2 DEF OrphanAccepted, OrphanDropped
      <4>2. orphans \in Seq(Ordinary) /\ Len(orphans) <= MaxOrphans /\ MaxOrphans \in Nat
        BY PoolAssumption DEF TypeOK
      <4>3. orphans' \in Seq(Ordinary) /\ Len(orphans') <= Len(orphans)
        BY <4>1, <4>2, WithoutType
      <4> QED BY <4>2, <4>3
    <3>3. CASE UNCHANGED orphans
      BY <3>3 DEF TypeOK
    <3> QED
      BY <1>6, <3>1, <3>2, <3>3 DEF AddStep, FindInput, CheckConflicts, ValidateInput, CheckScripts,
        CheckCapacity, Insert, AcceptCallback, UpdateIndexes, UpdateAddStats, NextParent,
        NextCandidate, AddReturns, Adding
  <2> QED BY <1>1, <2>1, <2>2, <2>3, <2>4 DEF AddTyped, TypeOK, SpenderExact
<1> QED
  BY <1>2, <1>3, <1>4, <1>5, <1>6 DEF AddStep, FindInput, StoreOrphan, CheckConflicts,
    ValidateInput, CheckScripts, CheckCapacity, NextParent, NextCandidate, OrphanAccepted,
    OrphanDropped, AddReturns, Adding

(* The actions beside AddTransaction that leave the pool's maps alone.     *)
LEMMA InvBeside ==
  ASSUME PoolInv,
         \/ Connect \/ ScanBlock \/ RemoveCallback \/ RemoveStats \/ Disconnect
         \/ ExpireStats \/ ExpireCallback \/ ClearStats \/ ClearOrphans \/ ClearCallback
  PROVE  PoolInv'
<1> USE DEF poolVars
<1>1. UNCHANGED <<poolVars, add>> => AddOK' /\ SpenderExact' /\ PoolIsOffered' /\ IsFiniteSet(pool')
  BY DEF PoolInv, AddOK, SpenderExact, PoolIsOffered
<1>2. PoolInv => TypeOK /\ IsFiniteSet(expiry.gone)
  BY DEF PoolInv
<1>3. CASE Connect
  <2>1. top' \in Block /\ conn'.blocks \in SUBSET Block
    BY <1>2, <1>3, TreeAssumption DEF Connect, TypeOK, NoBlocks
  <2> QED BY <1>1, <1>2, <1>3, <2>1 DEF Connect, TypeOK, PoolInv
<1>4. CASE ScanBlock
  BY <1>1, <1>2, <1>4 DEF ScanBlock, TypeOK, PoolInv, Affected
<1>5. CASE RemoveCallback
  BY <1>1, <1>2, <1>5 DEF RemoveCallback, TypeOK, PoolInv
<1>6. CASE RemoveStats
  <2>1. count' \in Nat
    BY <1>2, <1>6 DEF RemoveStats, NonNegative, TypeOK
  <2> QED BY <1>1, <1>2, <1>6, <2>1 DEF RemoveStats, TypeOK, PoolInv
<1>7. CASE Disconnect
  BY <1>1, <1>2, <1>7, TreeAssumption DEF Disconnect, TypeOK, PoolInv
<1>8. CASE ExpireStats
  <2>1. count' \in Nat
    BY <1>2, <1>8, FS_CardinalityType DEF ExpireStats, NonNegative, TypeOK
  <2> QED BY <1>1, <1>2, <1>8, <2>1 DEF ExpireStats, TypeOK, PoolInv
<1>9. CASE ExpireCallback
  <2>1. PICK t \in expiry.gone :
          expiry' = IF expiry.gone = {t} THEN NoSweep ELSE [expiry EXCEPT !.gone = @ \ {t}]
    BY <1>9 DEF ExpireCallback
  <2>2. IsFiniteSet({}) /\ IsFiniteSet(expiry.gone \ {t})
    BY <1>2, FS_EmptySet, FS_RemoveElement
  <2>3. /\ expiry' \in [pc : {"idle", "stats", "callback"}, gone : SUBSET Ordinary]
        /\ IsFiniteSet(expiry'.gone)
    BY <1>2, <2>1, <2>2 DEF TypeOK, NoSweep
  <2> QED BY <1>1, <1>2, <1>9, <2>3 DEF ExpireCallback, TypeOK, PoolInv
<1>10. CASE ClearStats
  BY <1>1, <1>2, <1>10 DEF ClearStats, TypeOK, PoolInv
<1>11. CASE ClearOrphans
  BY <1>1, <1>2, <1>11, PoolAssumption DEF ClearOrphans, TypeOK, PoolInv, NoSweep
<1>12. CASE ClearCallback
  BY <1>1, <1>2, <1>12 DEF ClearCallback, TypeOK, PoolInv, NoSweep
<1> QED BY <1>3, <1>4, <1>5, <1>6, <1>7, <1>8, <1>9, <1>10, <1>11, <1>12

(* The removals of a connected block.                                      *)
LEMMA InvRemoveOne == ASSUME PoolInv, RemoveOne PROVE PoolInv'
<1>1. TypeOK /\ PoolIsOffered
  BY DEF PoolInv
<1>2. PICK t \in conn.todo :
        \/ t \in pool /\ TakeOut({t})
           /\ conn' = [conn EXCEPT !.todo = @ \ {t}, !.tx = t, !.pc = "callback"]
        \/ UNCHANGED poolVars /\ conn' = [conn EXCEPT !.todo = @ \ {t}]
  BY DEF RemoveOne
<1>3. UNCHANGED <<top, orphans, count, announced, add, expiry, clearing>>
  BY DEF RemoveOne
<1>4. conn' \in [pc : {"loop", "callback", "stats"}, blocks : SUBSET Block,
                 todo : SUBSET Ordinary, tx : Ordinary \union {None}]
  BY <1>1, <1>2 DEF TypeOK
<1>5. CASE t \in pool /\ TakeOut({t})
  <2>1. {t} \in SUBSET pool
    BY <1>5
  <2> QED BY <1>1, <1>3, <1>4, <1>5, <2>1, TakeOutKeeps, OfferedKept DEF PoolInv, TypeOK, AddOK
<1>6. CASE UNCHANGED poolVars
  BY <1>1, <1>3, <1>4, <1>6 DEF PoolInv, TypeOK, AddOK, SpenderExact, PoolIsOffered, poolVars
<1> QED BY <1>2, <1>5, <1>6

(* The removals by age.                                                    *)
LEMMA InvExpire == ASSUME PoolInv, Expire PROVE PoolInv'
<1>1. TypeOK /\ PoolIsOffered
  BY DEF PoolInv
<1>2. PICK old \in SUBSET pool : TakeOut(old) /\ expiry' = [pc |-> "stats", gone |-> old]
  BY DEF Expire
<1>3. UNCHANGED <<top, orphans, count, announced, add, conn, clearing>>
  BY DEF Expire
<1>4. expiry' \in [pc : {"idle", "stats", "callback"}, gone : SUBSET Ordinary]
  BY <1>1, <1>2 DEF TypeOK
<1>5. IsFiniteSet(expiry'.gone)
  BY <1>2, TakeOutKeeps
<1> QED BY <1>1, <1>2, <1>3, <1>4, <1>5, TakeOutKeeps, OfferedKept DEF PoolInv, TypeOK, AddOK

(* Clear makes the maps anew.                                              *)
LEMMA InvClear == ASSUME PoolInv, Clear PROVE PoolInv'
<1>1. SpenderExact'
  BY TxFacts DEF Clear, SpenderExact
<1>2. PoolIsOffered' /\ IsFiniteSet(pool')
  BY FS_EmptySet DEF Clear, PoolIsOffered
<1> QED BY <1>1, <1>2 DEF PoolInv, Clear, TypeOK, AddOK

(* The rebuilt index offers the whole pool.                                *)
LEMMA InvUpdatePriority == ASSUME PoolInv, UpdatePriority PROVE PoolInv'
<1>1. PoolIsOffered'
  BY TxFacts DEF UpdatePriority, PoolIsOffered, PoolInv, TypeOK
<1> QED BY <1>1 DEF PoolInv, UpdatePriority, TypeOK, AddOK, SpenderExact, elsewhere

(* The empty pool.                                                         *)
LEMMA InvInit == Init => PoolInv
<1> SUFFICES ASSUME Init PROVE PoolInv
  OBVIOUS
<1>1. TypeOK /\ AddOK
  BY NoCallType, TreeAssumption, PoolAssumption DEF Init, TypeOK, AddOK, NoBlocks, NoSweep
<1>2. SpenderExact /\ PoolIsOffered
  BY TxFacts DEF Init, SpenderExact, PoolIsOffered
<1>3. IsFiniteSet(pool) /\ IsFiniteSet(expiry.gone)
  BY FS_EmptySet DEF Init, NoSweep
<1> QED BY <1>1, <1>2, <1>3 DEF PoolInv

(* Every step.                                                             *)
LEMMA InvNext == PoolInv /\ [Next]_vars => PoolInv'
<1> SUFFICES ASSUME PoolInv, [Next]_vars PROVE PoolInv'
  OBVIOUS
<1>1. CASE UNCHANGED vars
  BY <1>1 DEF vars, poolVars, elsewhere, PoolInv, TypeOK, AddOK, SpenderExact, PoolIsOffered
<1>2. CASE Next
  BY <1>2, InvStart, InvAddStep, InvBeside, InvRemoveOne, InvExpire, InvClear, InvUpdatePriority
     DEF Next
<1> QED BY <1>1, <1>2

(* The types, and the bound on the orphan pool: addOrphan evicts the       *)
(* oldest before it stores one more than Config allows.                    *)

THEOREM PoolTypeCorrect == Spec => []TypeOK
<1>1. PoolInv => TypeOK
  BY DEF PoolInv
<1> QED BY <1>1, InvInit, InvNext, PTL DEF Spec

(* spentOutpoints is exactly what the pool spends, through every race of   *)
(* AddTransaction with itself and with the removals: the check of          *)
(* conflicts neither misses one nor refuses an output that nothing spends  *)
(* any more.                                                               *)

THEOREM PoolSpenderExact == Spec => []SpenderExact
<1>1. PoolInv => SpenderExact
  BY DEF PoolInv
<1> QED BY <1>1, InvInit, InvNext, PTL DEF Spec

(* No two transactions of the pool spend the same output, though the first *)
(* check of conflicts is made long before the insertion.                   *)

THEOREM PoolConflictFree == Spec => []ConflictFree
<1>1. PoolInv => ConflictFree
  <2> SUFFICES ASSUME PoolInv, NEW s \in pool, NEW t \in pool, NEW o \in Ins[s], o \in Ins[t]
               PROVE  s = t
    BY DEF ConflictFree
  <2>1. s \in Ordinary /\ t \in Ordinary /\ o \in Tx
    BY TxFacts DEF PoolInv, TypeOK
  <2>2. spender[o] = s /\ spender[o] = t
    BY <2>1 DEF PoolInv, SpenderExact
  <2> QED BY <2>2
<1> QED BY <1>1, InvInit, InvNext, PTL DEF Spec

(* Every transaction of the pool is in the fee index, or its addTransaction*)
(* is about to put it there.                                               *)
THEOREM PoolOffered == Spec => []PoolIsOffered
<1>1. PoolInv => PoolIsOffered
  BY DEF PoolInv
<1> QED BY <1>1, InvInit, InvNext, PTL DEF Spec

-----------------------------------------------------------------------------
(* The statistics.  A transaction of the pool, or one that a removal took  *)
(* out of it and has yet to subtract, is counted or about to be.           *)
Uncounted == { a \in Adder : add[a].pc \in Adding }
Unsubtracted ==
  (IF conn.pc = "loop" THEN 0 ELSE 1) + (IF expiry.pc = "stats" THEN Cardinality(expiry.gone) ELSE 0)

CountInv ==
  /\ clearing = NoSweep
  /\ Cardinality(pool) + Unsubtracted <= count + Cardinality(Uncounted)

(* What the comparison is between: natural numbers.                        *)
LEMMA Counts ==
  ASSUME PoolInv, IsFiniteSet(Adder)
  PROVE  /\ IsFiniteSet(pool) /\ Cardinality(pool) \in Nat
         /\ IsFiniteSet(Uncounted) /\ Cardinality(Uncounted) \in Nat
         /\ Cardinality(expiry.gone) \in Nat
         /\ Unsubtracted \in Nat /\ count \in Nat
<1>1. Uncounted \in SUBSET Adder
  BY DEF Uncounted
<1>2. IsFiniteSet(Uncounted)
  BY <1>1, FS_Subset
<1>3. Cardinality(expiry.gone) \in Nat
  BY FS_CardinalityType DEF PoolInv
<1>4. Unsubtracted \in Nat
  BY <1>3 DEF Unsubtracted
<1> QED BY <1>2, <1>3, <1>4, FS_CardinalityType DEF PoolInv, TypeOK

(* AddTransaction: the insertion raises both sides by one.                 *)
LEMMA CountAdd ==
  ASSUME PoolInv, CountInv, IsFiniteSet(Adder), NEW a \in Adder, Start(a) \/ AddStep(a)
  PROVE  CountInv'
<1> USE Counts
<1>1. UNCHANGED <<conn, expiry, clearing>>
  BY DEF Start, AddStep, elsewhere, FindInput, StoreOrphan, CheckConflicts, ValidateInput,
    CheckScripts, CheckCapacity, Insert, AcceptCallback, UpdateIndexes, UpdateAddStats,
    NextParent, NextCandidate, OrphanAccepted, OrphanDropped, AddReturns
<1>2. Unsubtracted' = Unsubtracted /\ clearing' = NoSweep
  BY <1>1 DEF Unsubtracted, CountInv
<1>3. add \in [Adder -> Calls]
  BY DEF PoolInv, TypeOK
<1>4. CASE Insert(a)
  <2>1. Others(a) /\ add[a].pc = "insert" /\ count' = count
    BY <1>3, <1>4, InsertMoves DEF Insert
  <2>2. CASE pool' = pool /\ add'[a].pc \notin Adding
    <3>1. Uncounted' = Uncounted
      BY <2>1, <2>2 DEF Uncounted, Others, Adding
    <3> QED BY <1>2, <2>1, <2>2, <3>1 DEF CountInv
  <2>3. CASE pool' = pool \union {add[a].tx} /\ add'[a].pc = "callback"
    <3>1. Uncounted' = Uncounted \union {a} /\ a \notin Uncounted
      BY <2>1, <2>3 DEF Uncounted, Others, Adding
    <3>2. Cardinality(Uncounted') = Cardinality(Uncounted) + 1
      BY <3>1, FS_AddElement
    <3>3. Cardinality(pool') <= Cardinality(pool) + 1 /\ Cardinality(pool') \in Nat
      <4>1. IsFiniteSet(pool) /\ Cardinality(pool) \in Nat
        OBVIOUS
      <4>2. Cardinality(pool') = IF add[a].tx \in pool THEN Cardinality(pool) ELSE Cardinality(pool) + 1
        BY <2>3, <4>1, FS_AddElement
      <4> QED BY <4>1, <4>2
    <3> QED BY <1>2, <2>1, <3>2, <3>3 DEF CountInv
  <2> QED BY <1>3, <1>4, <2>2, <2>3, InsertMoves
<1>5. CASE AcceptCallback(a) \/ UpdateIndexes(a)
  <2>1. /\ Others(a) /\ add[a].pc \in Adding /\ add'[a].pc \in Adding
        /\ UNCHANGED <<pool, count>>
    BY <1>3, <1>5, GotoMoves DEF AcceptCallback, UpdateIndexes, Adding, poolVars
  <2>2. Uncounted' = Uncounted
    BY <2>1 DEF Uncounted, Others
  <2> QED BY <1>2, <2>1, <2>2 DEF CountInv
<1>6. CASE UpdateAddStats(a)
  <2>1. /\ Others(a) /\ add[a].pc = "stats" /\ add'[a].pc \notin Adding
        /\ pool' = pool /\ count' = count + 1
    <3>1. add[a].pc = "stats" /\ pool' = pool /\ count' = count + 1
      BY <1>6 DEF UpdateAddStats, poolVars
    <3>2. CASE Goto(a, "accepted")
      BY <1>3, <3>1, <3>2, GotoMoves DEF Adding
    <3>3. CASE add' = [add EXCEPT ![a] = [@ EXCEPT !.queue = <<add[a].tx>>, !.pc = "orphans"]]
      <4> DEFINE q == <<add[a].tx>>
      <4>1. add[a] \in Calls /\ add' = [add EXCEPT ![a] = [@ EXCEPT !.queue = q, !.pc = "orphans"]]
        BY <1>3, <3>3
      <4> HIDE DEF q
      <4>2. Others(a) /\ add'[a].pc = "orphans"
        BY <1>3, <4>1 DEF Others, Calls
      <4> QED BY <3>1, <4>2 DEF Adding
    <3> QED BY <1>6, <3>2, <3>3 DEF UpdateAddStats
  <2>2. Uncounted' = Uncounted \ {a} /\ a \in Uncounted
    BY <2>1 DEF Uncounted, Others, Adding
  <2>3. Cardinality(Uncounted') = Cardinality(Uncounted) - 1
    BY <2>2, FS_RemoveElement
  <2> QED BY <1>2, <2>1, <2>3 DEF CountInv
<1>7. CASE add[a].pc \notin Adding /\ add[a].pc # "insert"
  <2>1. Others(a) /\ add'[a].pc \notin Adding /\ UNCHANGED <<pool, count>>
    BY <1>3, <1>7, OtherMoves DEF poolVars
  <2>2. Uncounted' = Uncounted
    BY <1>7, <2>1 DEF Uncounted, Others
  <2> QED BY <1>2, <2>1, <2>2 DEF CountInv
<1> QED
  BY <1>4, <1>5, <1>6, <1>7 DEF Start, AddStep, FindInput, StoreOrphan, CheckConflicts,
    ValidateInput, CheckScripts, CheckCapacity, NextParent, NextCandidate, OrphanAccepted,
    OrphanDropped, AddReturns, Adding

(* A removal moves one from the pool to what is to be subtracted.          *)
LEMMA CountRemoveOne ==
  ASSUME PoolInv, CountInv, IsFiniteSet(Adder), RemoveOne
  PROVE  CountInv'
<1> USE Counts
<1>1. UNCHANGED <<count, add, expiry, clearing>> /\ conn.pc = "loop"
  BY DEF RemoveOne
<1>2. Uncounted' = Uncounted
  BY <1>1 DEF Uncounted
<1>3. PICK t \in conn.todo :
        \/ t \in pool /\ TakeOut({t}) /\ conn' = [conn EXCEPT !.todo = @ \ {t}, !.tx = t, !.pc = "callback"]
        \/ UNCHANGED poolVars /\ conn' = [conn EXCEPT !.todo = @ \ {t}]
  BY DEF RemoveOne
<1>4. conn \in [pc : {"loop", "callback", "stats"}, blocks : SUBSET Block,
                todo : SUBSET Ordinary, tx : Ordinary \union {None}]
  BY DEF PoolInv, TypeOK
<1>5. CASE t \in pool /\ TakeOut({t}) /\ conn' = [conn EXCEPT !.todo = @ \ {t}, !.tx = t, !.pc = "callback"]
  <2>1. conn'.pc = "callback"
    BY <1>4, <1>5
  <2>2. Unsubtracted' = Unsubtracted + 1
    BY <1>1, <2>1 DEF Unsubtracted
  <2>3. pool' = pool \ {t}
    BY <1>5 DEF TakeOut
  <2>4. Cardinality(pool') = Cardinality(pool) - 1
    BY <1>5, <2>3, FS_RemoveElement
  <2> QED BY <1>1, <1>2, <2>2, <2>4 DEF CountInv
<1>6. CASE UNCHANGED poolVars /\ conn' = [conn EXCEPT !.todo = @ \ {t}]
  <2>1. conn'.pc = "loop" /\ pool' = pool
    BY <1>1, <1>4, <1>6 DEF poolVars
  <2>2. Unsubtracted' = Unsubtracted
    BY <1>1, <2>1 DEF Unsubtracted
  <2> QED BY <1>1, <1>2, <2>1, <2>2 DEF CountInv
<1> QED BY <1>3, <1>5, <1>6

(* The rest; the steps of Clear do not happen.                             *)
LEMMA CountBeside ==
  ASSUME PoolInv, CountInv, IsFiniteSet(Adder), "clear" \notin Env,
         \/ Connect \/ ScanBlock \/ RemoveCallback \/ RemoveStats \/ Disconnect \/ Expire
         \/ ExpireStats \/ ExpireCallback
         \/ Clear \/ ClearStats \/ ClearOrphans \/ ClearCallback \/ UpdatePriority
  PROVE  CountInv'
<1> USE Counts DEF poolVars, elsewhere
<1>1. CASE Clear \/ ClearStats \/ ClearOrphans \/ ClearCallback
  BY <1>1 DEF CountInv, NoSweep, Clear, ClearStats, ClearOrphans, ClearCallback
<1>2. UNCHANGED <<add, clearing>> => Uncounted' = Uncounted /\ clearing' = NoSweep
  BY DEF Uncounted, CountInv
<1>3. /\ conn \in [pc : {"loop", "callback", "stats"}, blocks : SUBSET Block,
                   todo : SUBSET Ordinary, tx : Ordinary \union {None}]
      /\ expiry \in [pc : {"idle", "stats", "callback"}, gone : SUBSET Ordinary]
  BY DEF PoolInv, TypeOK
<1>4. CASE Connect \/ Disconnect \/ UpdatePriority \/ ScanBlock
  <2>1. conn'.pc = conn.pc /\ UNCHANGED <<pool, count, add, expiry, clearing>>
    BY <1>3, <1>4 DEF Connect, Disconnect, UpdatePriority, ScanBlock, NoBlocks
  <2>2. Unsubtracted' = Unsubtracted
    BY <2>1 DEF Unsubtracted
  <2> QED BY <1>2, <2>1, <2>2 DEF CountInv
<1>5. CASE RemoveCallback
  <2>1. conn.pc # "loop" /\ conn'.pc # "loop" /\ UNCHANGED <<pool, count, add, expiry, clearing>>
    BY <1>3, <1>5 DEF RemoveCallback
  <2>2. Unsubtracted' = Unsubtracted
    BY <2>1 DEF Unsubtracted
  <2> QED BY <1>2, <2>1, <2>2 DEF CountInv
<1>6. CASE RemoveStats
  <2>1. conn.pc # "loop" /\ conn'.pc = "loop" /\ UNCHANGED <<pool, add, expiry, clearing>>
    BY <1>3, <1>6 DEF RemoveStats
  <2>2. Unsubtracted' = Unsubtracted - 1
    BY <2>1 DEF Unsubtracted
  <2>3. count' \in Nat /\ count' >= count - 1
    BY <1>6 DEF RemoveStats, NonNegative
  <2> QED BY <1>2, <2>1, <2>2, <2>3 DEF CountInv
<1>7. CASE Expire
  <2>1. PICK old \in SUBSET pool : TakeOut(old) /\ expiry' = [pc |-> "stats", gone |-> old]
    BY <1>7 DEF Expire
  <2>2. expiry.pc = "idle" /\ UNCHANGED <<conn, count, add, clearing>>
    BY <1>7 DEF Expire, NoSweep
  <2>3. pool' = pool \ old /\ pool \intersect old = old
    BY <2>1 DEF TakeOut
  <2>4. Cardinality(pool') = Cardinality(pool) - Cardinality(old)
    BY <2>3, FS_Difference
  <2>5. IsFiniteSet(old) /\ Cardinality(old) \in Nat
    BY <2>1, FS_Subset, FS_CardinalityType
  <2>6. Unsubtracted' = Unsubtracted + Cardinality(old)
    BY <2>1, <2>2, <2>5 DEF Unsubtracted
  <2> QED BY <1>2, <2>2, <2>4, <2>5, <2>6 DEF CountInv
<1>8. CASE ExpireStats
  <2>1. /\ expiry.pc = "stats" /\ expiry'.pc = "callback"
        /\ UNCHANGED <<pool, conn, add, clearing>>
    BY <1>3, <1>8 DEF ExpireStats
  <2>2. Unsubtracted' = Unsubtracted - Cardinality(expiry.gone)
    BY <2>1 DEF Unsubtracted
  <2>3. count' \in Nat /\ count' >= count - Cardinality(expiry.gone)
    BY <1>8 DEF ExpireStats, NonNegative
  <2> QED BY <1>2, <2>1, <2>2, <2>3 DEF CountInv
<1>9. CASE ExpireCallback
  <2>1. /\ expiry.pc # "stats" /\ expiry'.pc # "stats"
        /\ UNCHANGED <<pool, count, conn, add, clearing>>
    BY <1>3, <1>9 DEF ExpireCallback, NoSweep
  <2>2. Unsubtracted' = Unsubtracted
    BY <2>1 DEF Unsubtracted
  <2> QED BY <1>2, <2>1, <2>2 DEF CountInv
<1> QED BY <1>1, <1>4, <1>5, <1>6, <1>7, <1>8, <1>9

(* checkCapacity sees at least as many transactions as the pool has, but   *)
(* for those that a goroutine has inserted and not yet counted, as long as *)
(* the pool is not cleared.                                                *)
THEOREM PoolCountedUnlessCleared ==
  ASSUME IsFiniteSet(Adder), "clear" \notin Env
  PROVE  Spec => []PoolCounted
<1>1. Init => CountInv
  <2> SUFFICES ASSUME Init PROVE CountInv
    OBVIOUS
  <2>1. Uncounted = {}
    BY NoCallType DEF Init, Uncounted, Adding
  <2> QED BY <2>1, FS_EmptySet DEF Init, CountInv, Unsubtracted, NoBlocks, NoSweep
<1>2. PoolInv /\ CountInv /\ [Next]_vars => CountInv'
  <2> SUFFICES ASSUME PoolInv, CountInv, [Next]_vars PROVE CountInv'
    OBVIOUS
  <2>1. CASE UNCHANGED vars
    BY <2>1 DEF vars, poolVars, elsewhere, CountInv, Unsubtracted, Uncounted
  <2>2. CASE Next
    BY <2>2, CountAdd, CountRemoveOne, CountBeside DEF Next
  <2> QED BY <2>1, <2>2
<1>3. PoolInv /\ CountInv => PoolCounted
  <2> SUFFICES ASSUME PoolInv, CountInv PROVE PoolCounted
    OBVIOUS
  <2>1. Uncounted = { a \in Adder : add[a].pc \in {"callback", "index", "stats"} }
    BY DEF Uncounted, Adding
  <2> QED BY <2>1, Counts DEF CountInv, PoolCounted
<1> QED BY <1>1, <1>2, <1>3, InvInit, InvNext, PTL DEF Spec
-----------------------------------------------------------------------------
(* One call at a time: "race" is not in Env.  Solo is what MayBegin then   *)
(* ensures; CalmIndexed, CalmCounted and CalmSpend say where the fee index,*)
(* the listener, the statistics and, if no rollback changes it behind the  *)
(* mempool's back, the chain stand between the stretches of the one call   *)
(* under way.                                                              *)
Calm == "race" \notin Env
KeepsBlocks == "rollback" \notin Env

Solo ==
  /\ \A a \in Adder : add[a].pc = "idle" => add[a] = NoCall
  /\ \A a \in Adder : add[a].pc # "idle" =>
       /\ \A b \in Adder \ {a} : add[b] = NoCall
       /\ conn = NoBlocks /\ expiry = NoSweep /\ clearing = NoSweep
  /\ conn # NoBlocks => expiry = NoSweep /\ clearing = NoSweep
  /\ expiry # NoSweep => clearing = NoSweep

(* The transactions of the calls c that are at one of the steps S.         *)
InCall(c, S) == { c[a].tx : a \in { x \in Adder : c[x].pc \in S } }

(* Removed, and the listener has yet to be told.                           *)
Unsaid == expiry.gone \union clearing.gone \union (IF conn.pc = "callback" THEN {conn.tx} ELSE {})

CalmIndexed ==
  /\ \A t \in Tx : byFee[t] = IF t \in pool \ InCall(add, {"callback", "index"}) THEN 1 ELSE 0
  /\ announced = (pool \ InCall(add, {"callback"})) \union Unsaid
  /\ InCall(add, Adding) \subseteq pool
  /\ Unsaid \intersect pool = {}
  /\ clearing # NoSweep => pool = {}

CalmCounted ==
  clearing.pc # "stats" =>
    count + (IF InCall(add, Adding) = {} THEN 0 ELSE 1) = Cardinality(pool) + Unsubtracted

(* What the pool spends of the chain is still to be removed, or spent by a *)
(* coinstake; what a call has validated is unspent.                        *)
Unspent == Created \ SpentOnChain

CallFree(c) ==
  /\ c.pc = "validate" => Ins[c.tx] \ c.todo \subseteq Unspent
  /\ c.pc \in {"scripts", "capacity", "insert"} => Ins[c.tx] \subseteq Unspent

BeingRemoved(t, o) ==
  \/ t \in conn.todo
  \/ \E b \in conn.blocks : \E s \in Confirmed(b) : o \in Ins[s]

CalmSpend ==
  /\ KeepsBlocks =>
       \A t \in pool : /\ Ins[t] \subseteq Created
                       /\ \A o \in Ins[t] \intersect SpentOnChain : o \in LeadSpends \/ BeingRemoved(t, o)
  /\ \A a \in Adder : CallFree(add[a])

CalmInv == Solo /\ CalmIndexed /\ CalmCounted /\ CalmSpend

(* In a call under way only one goroutine counts.                          *)
LEMMA CallOf ==
  ASSUME NEW c, NEW a \in Adder, \A b \in Adder \ {a} : c[b] = NoCall, NEW S, "idle" \notin S
  PROVE  InCall(c, S) = IF c[a].pc \in S THEN {c[a].tx} ELSE {}
<1>1. \A b \in Adder : c[b].pc \in S => b = a
  BY NoCallType
<1> QED BY <1>1 DEF InCall

LEMMA NoneInCall ==
  ASSUME NEW c, \A b \in Adder : c[b] = NoCall, NEW S, "idle" \notin S
  PROVE  InCall(c, S) = {}
BY NoCallType DEF InCall

(* What a goroutine's step leaves of its own call.                         *)
LEMMA RejectEnds ==
  ASSUME add \in [Adder -> Calls], NEW a \in Adder, NEW code, Reject(a, code)
  PROVE  /\ add'[a].pc = "idle" => add'[a] = NoCall
         /\ add'[a].pc \in {"idle", "orphans", "drop"}
<1> DEFINE r == [add[a] EXCEPT !.pc = IF code = "orphan" THEN "orphans" ELSE "drop", !.todo = {}]
<1>1. add[a] \in Calls
  OBVIOUS
<1>2. r.pc \in {"orphans", "drop"}
  BY <1>1 DEF Calls
<1>3. add' = [add EXCEPT ![a] = NoCall] \/ add' = [add EXCEPT ![a] = r]
  BY DEF Reject
<1> HIDE DEF r
<1> QED BY <1>2, <1>3, NoCallType

LEMMA EnterMoves ==
  ASSUME add \in [Adder -> Calls], NEW a \in Adder, NEW t, Enter(a, t)
  PROVE  add'[a].pc = "inputs"
<1> DEFINE c == [NoCall EXCEPT !.pc = "inputs", !.tx = t, !.todo = Ins[t]]
<1>1. c.pc = "inputs"
  BY DEF NoCall
<1>2. add' = [add EXCEPT ![a] = c]
  BY DEF Enter
<1> HIDE DEF c
<1> QED BY <1>1, <1>2

LEMMA StepEnds ==
  ASSUME add \in [Adder -> Calls], NEW a \in Adder, Start(a) \/ AddStep(a)
  PROVE  /\ Others(a) /\ UNCHANGED elsewhere
         /\ add'[a].pc = "idle" => add'[a] = NoCall
<1> USE DEF elsewhere
<1>0. add[a] \in Calls
  OBVIOUS
<1>1. UNCHANGED elsewhere
  BY DEF Start, AddStep, FindInput, StoreOrphan, CheckConflicts, ValidateInput,
    CheckScripts, CheckCapacity, Insert, AcceptCallback, UpdateIndexes, UpdateAddStats,
    NextParent, NextCandidate, OrphanAccepted, OrphanDropped, AddReturns
<1>2. Others(a)
  <2>1. CASE add[a].pc \notin Adding /\ add[a].pc # "insert"
    BY <2>1, OtherMoves
  <2>2. CASE Insert(a)
    BY <2>2, InsertMoves
  <2>3. CASE AcceptCallback(a) \/ UpdateIndexes(a)
    BY <2>3, GotoMoves DEF AcceptCallback, UpdateIndexes
  <2>4. CASE UpdateAddStats(a)
    BY <2>4, GotoMoves DEF UpdateAddStats, Others
  <2> QED
    BY <2>1, <2>2, <2>3, <2>4 DEF Start, AddStep, FindInput, StoreOrphan, CheckConflicts,
      ValidateInput, CheckScripts, CheckCapacity, NextParent, NextCandidate, OrphanAccepted,
      OrphanDropped, AddReturns, Adding
<1>10. add'[a].pc = "idle" => add'[a] = NoCall
  <2>3. CASE Start(a)
    BY <2>3, EnterMoves DEF Start
  <2>4. CASE FindInput(a)
    <3>1. PICK o \in add[a].todo :
            LET rest == add[a].todo \ {o}
            IN  \/ Goto(a, "orphan")
                \/ add' = [add EXCEPT ![a] =
                     [@ EXCEPT !.todo = rest, !.pc = IF rest = {} THEN "conflicts" ELSE "inputs"]]
      BY <2>4 DEF FindInput
    <3> DEFINE rest == add[a].todo \ {o}
               pc == IF rest = {} THEN "conflicts" ELSE "inputs"
    <3>2. pc # "idle"
      OBVIOUS
    <3>3. Goto(a, "orphan") \/ add' = [add EXCEPT ![a] = [@ EXCEPT !.todo = rest, !.pc = pc]]
      BY <3>1
    <3> HIDE DEF rest, pc
    <3>4. CASE Goto(a, "orphan")
      BY <3>4, GotoMoves
    <3>5. CASE add' = [add EXCEPT ![a] = [@ EXCEPT !.todo = rest, !.pc = pc]]
      BY <1>0, <3>2, <3>5 DEF Calls
    <3> QED BY <3>3, <3>4, <3>5
  <2>5. CASE StoreOrphan(a) \/ CheckScripts(a) \/ CheckCapacity(a) \/ Insert(a)
    BY <2>5, RejectEnds, GotoMoves DEF StoreOrphan, CheckScripts, CheckCapacity, Insert
  <2>6. CASE AcceptCallback(a) \/ UpdateIndexes(a) \/ OrphanDropped(a)
    BY <2>6, GotoMoves DEF AcceptCallback, UpdateIndexes, OrphanDropped
  <2>7. CASE CheckConflicts(a)
    BY <1>0, <2>7, RejectEnds DEF CheckConflicts, Calls
  <2>8. CASE UpdateAddStats(a)
    <3>1. CASE Goto(a, "accepted")
      BY <3>1, GotoMoves
    <3>2. CASE add' = [add EXCEPT ![a] = [@ EXCEPT !.queue = <<add[a].tx>>, !.pc = "orphans"]]
      <4> DEFINE q == <<add[a].tx>>
      <4>1. add' = [add EXCEPT ![a] = [@ EXCEPT !.queue = q, !.pc = "orphans"]]
        BY <3>2
      <4> HIDE DEF q
      <4> QED BY <1>0, <4>1 DEF Calls
    <3> QED BY <2>8, <3>1, <3>2 DEF UpdateAddStats
  <2>9. CASE ValidateInput(a)
    BY <1>0, <2>9, RejectEnds DEF ValidateInput, Calls
  <2>10. CASE NextParent(a)
    BY <1>0, <2>10 DEF NextParent, Calls
  <2>11. CASE NextCandidate(a)
    BY <1>0, <2>11 DEF NextCandidate, Calls
  <2>12. CASE OrphanAccepted(a)
    BY <1>0, <2>12 DEF OrphanAccepted, Calls
  <2>13. CASE AddReturns(a)
    BY <2>13 DEF AddReturns
  <2> QED
    BY <2>3, <2>4, <2>5, <2>6, <2>7, <2>8, <2>9, <2>10, <2>11, <2>12, <2>13 DEF AddStep
<1> QED BY <1>1, <1>2, <1>10

(* A call has the pool to itself.                                          *)
LEMMA SoloCall ==
  ASSUME Calm, PoolInv, Solo, NEW a \in Adder, Start(a) \/ AddStep(a)
  PROVE  /\ Solo'
         /\ \A b \in Adder \ {a} : add[b] = NoCall /\ add'[b] = NoCall
         /\ conn = NoBlocks /\ expiry = NoSweep /\ clearing = NoSweep
         /\ UNCHANGED elsewhere
<1>1. add \in [Adder -> Calls]
  BY DEF PoolInv, TypeOK
<1>2. Start(a) => AtRest
  BY DEF Start, MayBegin, Calm
<1>3. AddStep(a) => add[a].pc # "idle"
  BY DEF AddStep, FindInput, StoreOrphan, CheckConflicts, ValidateInput,
    CheckScripts, CheckCapacity, Insert, AcceptCallback, UpdateIndexes, UpdateAddStats,
    NextParent, NextCandidate, OrphanAccepted, OrphanDropped, AddReturns
<1>4. /\ \A b \in Adder \ {a} : add[b] = NoCall
      /\ conn = NoBlocks /\ expiry = NoSweep /\ clearing = NoSweep
  BY <1>2, <1>3 DEF AtRest, AddsIdle, Solo
<1>5. /\ Others(a) /\ UNCHANGED elsewhere
      /\ add'[a].pc = "idle" => add'[a] = NoCall
  BY <1>1, StepEnds
<1>6. \A b \in Adder \ {a} : add'[b] = NoCall
  BY <1>4, <1>5 DEF Others
<1>7. conn' = NoBlocks /\ expiry' = NoSweep /\ clearing' = NoSweep
  BY <1>4, <1>5 DEF elsewhere
<1>8. Solo'
  BY <1>5, <1>6, <1>7, NoCallType DEF Solo
<1> QED BY <1>4, <1>5, <1>6, <1>8

(* The steps that validate: what they leave in scripts, capacity or insert *)
(* has every input unspent.                                                *)
LEMMA FreeCall ==
  ASSUME PoolInv, NEW a \in Adder, CallFree(add[a]), Start(a) \/ AddStep(a), top' = top
  PROVE  CallFree(add[a])'
<1>0. add \in [Adder -> Calls] /\ add[a] \in Calls
  BY DEF PoolInv, TypeOK
<1>1. Unspent' = Unspent
  BY DEF Unspent, Created, SpentOnChain
<1> DEFINE Late == {"validate", "scripts", "capacity", "insert"}
<1>20. add'[a].pc \notin Late => CallFree(add'[a])
  BY DEF CallFree
<1>21. CallFree(add'[a]) => CallFree(add[a])'
  BY <1>1 DEF CallFree
<1>2. SUFFICES ASSUME add'[a].pc \in Late PROVE CallFree(add'[a])
  BY <1>20, <1>21
<1>3. CASE Start(a)
  <2>1. add'[a].pc = "inputs"
    BY <1>0, <1>3, EnterMoves DEF Start
  <2> QED BY <1>2, <2>1
<1>4. CASE FindInput(a)
  <2>1. PICK o \in add[a].todo :
          LET rest == add[a].todo \ {o}
          IN  \/ Goto(a, "orphan")
              \/ add' = [add EXCEPT ![a] =
                   [@ EXCEPT !.todo = rest, !.pc = IF rest = {} THEN "conflicts" ELSE "inputs"]]
    BY <1>4 DEF FindInput
  <2> DEFINE rest == add[a].todo \ {o}
             pc == IF rest = {} THEN "conflicts" ELSE "inputs"
  <2>2. pc \notin Late
    OBVIOUS
  <2>3. Goto(a, "orphan") \/ add' = [add EXCEPT ![a] = [@ EXCEPT !.todo = rest, !.pc = pc]]
    BY <2>1
  <2> HIDE DEF rest, pc
  <2>4. CASE Goto(a, "orphan")
    BY <1>0, <1>2, <2>4, GotoMoves
  <2>5. CASE add' = [add EXCEPT ![a] = [@ EXCEPT !.todo = rest, !.pc = pc]]
    BY <1>0, <1>2, <2>2, <2>5 DEF Calls
  <2> QED BY <2>3, <2>4, <2>5
<1>5. CASE StoreOrphan(a) \/ CheckCapacity(a) \/ Insert(a)
  <2>2. CASE Reject(a, "orphan") \/ Reject(a, "full") \/ Reject(a, "conflict")
    BY <1>0, <1>2, <2>2, RejectEnds
  <2>3. CASE Goto(a, "callback")
    BY <1>0, <1>2, <2>3, GotoMoves
  <2>4. CASE CheckCapacity(a) /\ Goto(a, "insert")
    <3>1. add'[a].pc = "insert" /\ add'[a].tx = add[a].tx
      BY <1>0, <2>4, GotoMoves
    <3> QED BY <3>1, <2>4 DEF CallFree, CheckCapacity
  <2> QED BY <1>5, <2>2, <2>3, <2>4 DEF StoreOrphan, CheckCapacity, Insert
<1>6. CASE CheckScripts(a)
  <2>1. CASE Reject(a, "orphan") \/ Reject(a, "invalid")
    BY <1>0, <1>2, <2>1, RejectEnds
  <2>2. CASE Goto(a, "capacity")
    <3>1. add'[a].pc = "capacity" /\ add'[a].tx = add[a].tx
      BY <1>0, <2>2, GotoMoves
    <3> QED BY <3>1, <1>6 DEF CallFree, CheckScripts
  <2> QED BY <1>6, <2>1, <2>2 DEF CheckScripts
<1>7. CASE CheckConflicts(a)
  <2>1. CASE Reject(a, "conflict")
    BY <1>0, <1>2, <2>1, RejectEnds
  <2>2. CASE add' = [add EXCEPT ![a] = [@ EXCEPT !.todo = Ins[add[a].tx], !.pc = "validate"]]
    <3>1. add'[a].pc = "validate" /\ add'[a].tx = add[a].tx /\ add'[a].todo = Ins[add[a].tx]
      BY <1>0, <2>2 DEF Calls
    <3> QED BY <3>1 DEF CallFree
  <2> QED BY <1>7, <2>1, <2>2 DEF CheckConflicts
<1>8. CASE ValidateInput(a)
  <2>1. CASE Reject(a, "orphan") \/ Reject(a, "invalid")
    BY <1>0, <1>2, <2>1, RejectEnds
  <2>2. ASSUME NEW o \in add[a].todo, o \in Created, o \notin SpentOnChain,
               LET rest == add[a].todo \ {o}
               IN  add' = [add EXCEPT ![a] =
                     [@ EXCEPT !.todo = rest, !.pc = IF rest = {} THEN "scripts" ELSE "validate"]]
        PROVE  CallFree(add'[a])
    <3> DEFINE rest == add[a].todo \ {o}
               pc == IF rest = {} THEN "scripts" ELSE "validate"
    <3>1. add' = [add EXCEPT ![a] = [@ EXCEPT !.todo = rest, !.pc = pc]]
      BY <2>2
    <3>2. Ins[add[a].tx] \ add[a].todo \subseteq Unspent
      BY <1>8 DEF ValidateInput, CallFree
    <3>3. Ins[add[a].tx] \ rest \subseteq Unspent
      BY <2>2, <3>2 DEF Unspent
    <3>4. (pc = "scripts" /\ rest = {}) \/ pc = "validate"
      OBVIOUS
    <3> HIDE DEF rest, pc
    <3>5. add'[a].pc = pc /\ add'[a].tx = add[a].tx /\ add'[a].todo = rest
      BY <1>0, <3>1 DEF Calls
    <3> QED BY <3>3, <3>4, <3>5 DEF CallFree
  <2> QED BY <1>8, <2>1, <2>2 DEF ValidateInput
<1>9. CASE AcceptCallback(a) \/ UpdateIndexes(a) \/ OrphanDropped(a)
  BY <1>0, <1>2, <1>9, GotoMoves DEF AcceptCallback, UpdateIndexes, OrphanDropped
<1>10. CASE UpdateAddStats(a)
  <2>1. CASE Goto(a, "accepted")
    BY <1>0, <1>2, <2>1, GotoMoves
  <2>2. CASE add' = [add EXCEPT ![a] = [@ EXCEPT !.queue = <<add[a].tx>>, !.pc = "orphans"]]
    <3> DEFINE q == <<add[a].tx>>
    <3>1. add' = [add EXCEPT ![a] = [@ EXCEPT !.queue = q, !.pc = "orphans"]]
      BY <2>2
    <3> HIDE DEF q
    <3> QED BY <1>0, <1>2, <3>1 DEF Calls
  <2> QED BY <1>10, <2>1, <2>2 DEF UpdateAddStats
<1>11. CASE NextParent(a)
  <2>1. add'[a].pc = "orphans"
    BY <1>0, <1>11 DEF NextParent, Calls
  <2> QED BY <1>2, <2>1
<1>12. CASE NextCandidate(a)
  <2>1. add'[a].pc \in {"drop", "inputs"}
    BY <1>0, <1>12 DEF NextCandidate, Calls
  <2> QED BY <1>2, <2>1
<1>13. CASE OrphanAccepted(a) \/ AddReturns(a)
  <2>1. add'[a].pc \in {"orphans", "idle"}
    BY <1>0, <1>13, NoCallType DEF OrphanAccepted, AddReturns, Calls
  <2> QED BY <1>2, <2>1
<1> QED
  BY <1>3, <1>4, <1>5, <1>6, <1>7, <1>8, <1>9, <1>10, <1>11, <1>12, <1>13 DEF AddStep

(* AddTransaction: fee index, listener and statistics follow one another.  *)
LEMMA CalmCall ==
  ASSUME Calm, PoolInv, CalmInv, NEW a \in Adder, Start(a) \/ AddStep(a)
  PROVE  CalmInv'
<1> DEFINE t == add[a].tx
<1>0. /\ add \in [Adder -> Calls] /\ pool \subseteq Ordinary /\ byFee \in [Tx -> Nat] /\ count \in Nat
      /\ IsFiniteSet(pool) /\ Cardinality(pool) \in Nat
  BY FS_CardinalityType DEF PoolInv, TypeOK
<1>1. /\ Solo'
      /\ \A b \in Adder \ {a} : add[b] = NoCall /\ add'[b] = NoCall
      /\ conn = NoBlocks /\ expiry = NoSweep /\ clearing = NoSweep
      /\ UNCHANGED <<top, conn, expiry, clearing>>
  BY SoloCall DEF CalmInv, elsewhere
<1>2. Others(a)
  BY <1>0, StepEnds
<1>3. Unsaid = {} /\ Unsaid' = {} /\ Unsubtracted = 0 /\ Unsubtracted' = 0
  BY <1>1 DEF Unsaid, Unsubtracted, NoBlocks, NoSweep
<1>4. ASSUME NEW S, "idle" \notin S
      PROVE  /\ InCall(add, S) = IF add[a].pc \in S THEN {t} ELSE {}
             /\ InCall(add', S) = IF add'[a].pc \in S THEN {add'[a].tx} ELSE {}
  BY <1>1, <1>4, CallOf
<1> DEFINE InAdding == IF add[a].pc \in Adding THEN {t} ELSE {}
           InIndex == IF add[a].pc \in {"callback", "index"} THEN {t} ELSE {}
           InCallback == IF add[a].pc = "callback" THEN {t} ELSE {}
<1>5. /\ InCall(add, Adding) = InAdding /\ InCall(add, {"callback", "index"}) = InIndex
      /\ InCall(add, {"callback"}) = InCallback
  BY <1>4 DEF Adding
<1>6. /\ InCall(add, Adding)' = IF add'[a].pc \in Adding THEN {add'[a].tx} ELSE {}
      /\ InCall(add, {"callback", "index"})' = IF add'[a].pc \in {"callback", "index"} THEN {add'[a].tx} ELSE {}
      /\ InCall(add, {"callback"})' = IF add'[a].pc = "callback" THEN {add'[a].tx} ELSE {}
  BY <1>4 DEF Adding
<1>7. /\ \A x \in Tx : byFee[x] = IF x \in pool \ InIndex THEN 1 ELSE 0
      /\ announced = pool \ InCallback
      /\ InAdding \subseteq pool
      /\ count + (IF InAdding = {} THEN 0 ELSE 1) = Cardinality(pool)
  <2> HIDE DEF InAdding, InIndex, InCallback
  <2>1. clearing.pc # "stats"
    BY <1>1 DEF NoSweep
  <2>2. count + (IF InAdding = {} THEN 0 ELSE 1) = Cardinality(pool)
    BY <1>0, <1>3, <1>5, <2>1 DEF CalmInv, CalmCounted
  <2>3. \A x \in Tx : byFee[x] = IF x \in pool \ InIndex THEN 1 ELSE 0
    BY <1>5 DEF CalmInv, CalmIndexed
  <2>4. announced = pool \ InCallback /\ InAdding \subseteq pool
    BY <1>3, <1>5 DEF CalmInv, CalmIndexed
  <2> QED BY <2>2, <2>3, <2>4
<1>8. SUFFICES
        /\ \A x \in Tx : byFee'[x] = IF x \in pool' \ InCall(add, {"callback", "index"})' THEN 1 ELSE 0
        /\ announced' = pool' \ InCall(add, {"callback"})'
        /\ InCall(add, Adding)' \subseteq pool'
        /\ count' + (IF InCall(add, Adding)' = {} THEN 0 ELSE 1) = Cardinality(pool')
        /\ \A x \in pool' \ pool : Ins[x] \subseteq Unspent
  <2>11. CalmIndexed'
    BY <1>1, <1>3, <1>8 DEF CalmIndexed
  <2>12. Cardinality(pool') = Cardinality(pool)' + Unsubtracted'
    <3>1. IsFiniteSet(pool')
      BY InvStart, InvAddStep DEF PoolInv
    <3> QED BY <1>3, <3>1, FS_CardinalityType
  <2>13. CalmCounted'
    BY <1>3, <1>8, <2>12 DEF CalmCounted
  <2>1. CalmIndexed' /\ CalmCounted'
    BY <2>11, <2>13
  <2>2. KeepsBlocks =>
          \A x \in pool' : /\ Ins[x] \subseteq Created
                           /\ \A o \in Ins[x] \intersect SpentOnChain : o \in LeadSpends \/ BeingRemoved(x, o)
    BY <1>8 DEF CalmInv, CalmSpend, Unspent
  <2>3. Created' = Created /\ SpentOnChain' = SpentOnChain /\ LeadSpends' = LeadSpends
        /\ \A x, o : BeingRemoved(x, o)' <=> BeingRemoved(x, o)
    BY <1>1 DEF Created, SpentOnChain, LeadSpends, BeingRemoved
  <2>4. \A b \in Adder : CallFree(add[b])'
    <3>1. CallFree(add[a])'
      BY <1>1, FreeCall DEF CalmInv, CalmSpend
    <3>2. \A b \in Adder \ {a} : CallFree(add[b])'
      BY <1>1, NoCallType DEF CallFree
    <3> QED BY <3>1, <3>2
  <2>5. CalmSpend'
    BY <2>2, <2>3, <2>4 DEF CalmSpend
  <2> QED BY <1>1, <2>1, <2>5 DEF CalmInv
<1>10. CASE Insert(a)
  <2>1. add[a].pc = "insert" /\ UNCHANGED <<byFee, announced, count>> /\ t \in Ordinary
    BY <1>10 DEF Insert, PoolInv, AddOK
  <2>2. CASE pool' = pool /\ add'[a].pc \notin Adding
    BY <1>6, <1>7, <2>1, <2>2 DEF Adding
  <2>3. CASE /\ ~ Conflicts(t)
             /\ pool' = pool \union {t} /\ add'[a].pc = "callback" /\ add'[a].tx = t
    <3>1. t \notin pool
      <4>1. PICK o \in Ins[t] : TRUE
        BY <2>1, PoolAssumption
      <4>2. o \in Tx /\ spender[o] = None
        BY <2>1, <2>3, <4>1, TxFacts DEF Conflicts
      <4> QED BY <2>1, <4>1, <4>2, TxFacts DEF PoolInv, SpenderExact
    <3>2. Cardinality(pool') = Cardinality(pool) + 1
      BY <1>0, <2>3, <3>1, FS_AddElement
    <3>3. Ins[t] \subseteq Unspent
      BY <2>1 DEF CalmInv, CalmSpend, CallFree
    <3> HIDE DEF t
    <3>4. InCall(add, Adding)' = {t} /\ InCall(add, {"callback", "index"})' = {t}
          /\ InCall(add, {"callback"})' = {t}
      BY <1>6, <2>3 DEF Adding
    <3>5. InAdding = {} /\ InIndex = {} /\ InCallback = {}
      BY <2>1 DEF Adding
    <3> QED BY <1>0, <1>7, <2>1, <2>3, <3>1, <3>2, <3>3, <3>4, <3>5
  <2> QED BY <1>0, <1>10, <2>2, <2>3, InsertMoves
<1>11. CASE AcceptCallback(a)
  <2>1. /\ add[a].pc = "callback" /\ add'[a].pc = "index" /\ add'[a].tx = t
        /\ announced' = announced \union {t} /\ UNCHANGED <<pool, byFee, count>>
    BY <1>0, <1>11, GotoMoves DEF AcceptCallback, poolVars
  <2> HIDE DEF t
  <2> QED BY <1>6, <1>7, <2>1 DEF Adding
<1>12. CASE UpdateIndexes(a)
  <2>1. /\ add[a].pc = "index" /\ add'[a].pc = "stats" /\ add'[a].tx = t
        /\ byFee' = [byFee EXCEPT ![t] = @ + 1] /\ UNCHANGED <<pool, announced, count>>
    BY <1>0, <1>12, GotoMoves DEF UpdateIndexes
  <2> HIDE DEF t
  <2>2. t \in pool
    BY <1>7, <2>1 DEF Adding
  <2>3. \A x \in Tx : byFee'[x] = IF x \in pool THEN 1 ELSE 0
    BY <1>0, <1>7, <2>1, <2>2
  <2> QED BY <1>6, <1>7, <2>1, <2>3 DEF Adding
<1>13. CASE UpdateAddStats(a)
  <2>1. /\ add[a].pc = "stats" /\ count' = count + 1 /\ UNCHANGED <<pool, byFee, announced>>
    BY <1>13 DEF UpdateAddStats, poolVars
  <2>2. add'[a].pc \notin Adding
    <3>1. CASE Goto(a, "accepted")
      BY <1>0, <3>1, GotoMoves DEF Adding
    <3>2. CASE add' = [add EXCEPT ![a] = [@ EXCEPT !.queue = <<add[a].tx>>, !.pc = "orphans"]]
      <4> DEFINE q == <<add[a].tx>>
      <4>1. add[a] \in Calls /\ add' = [add EXCEPT ![a] = [@ EXCEPT !.queue = q, !.pc = "orphans"]]
        BY <1>0, <3>2
      <4> HIDE DEF q
      <4>2. add'[a].pc = "orphans"
        BY <1>0, <4>1 DEF Calls
      <4> QED BY <4>2 DEF Adding
    <3> QED BY <1>13, <3>1, <3>2 DEF UpdateAddStats
  <2> QED BY <1>0, <1>6, <1>7, <2>1, <2>2 DEF Adding
<1>14. CASE add[a].pc \notin Adding /\ add[a].pc # "insert"
  <2>1. /\ add'[a].pc \notin Adding /\ UNCHANGED <<pool, byFee, count>>
    BY <1>0, <1>14, OtherMoves DEF poolVars
  <2>2. announced' = announced
    BY <1>14 DEF Start, AddStep, FindInput, StoreOrphan, CheckConflicts, ValidateInput, CheckScripts,
      CheckCapacity, Insert, AcceptCallback, UpdateIndexes, UpdateAddStats, NextParent,
      NextCandidate, OrphanAccepted, OrphanDropped, AddReturns, Adding
  <2> QED BY <1>6, <1>7, <1>14, <2>1, <2>2 DEF Adding
<1> QED
  BY <1>10, <1>11, <1>12, <1>13, <1>14 DEF Start, AddStep, FindInput, StoreOrphan, CheckConflicts,
    ValidateInput, CheckScripts, CheckCapacity, NextParent, NextCandidate, OrphanAccepted,
    OrphanDropped, AddReturns, Adding

(* The other actions find no call of AddTransaction under way and begin    *)
(* none.                                                                   *)
AllIdle == \A a \in Adder : add[a] = NoCall

LEMMA BesideIdle ==
  ASSUME Calm, Solo, MayBegin \/ conn # NoBlocks \/ expiry # NoSweep \/ clearing # NoSweep
  PROVE  AllIdle
BY DEF Calm, MayBegin, AtRest, AddsIdle, Solo, AllIdle

(* With all goroutines idle, what CalmInv says of the rest.                *)
PoolIndexed ==
  /\ \A t \in Tx : byFee[t] = IF t \in pool THEN 1 ELSE 0
  /\ announced = pool \union Unsaid
  /\ Unsaid \intersect pool = {}
  /\ clearing # NoSweep => pool = {}
  /\ clearing.pc # "stats" => count = Cardinality(pool) + Unsubtracted

PoolFree ==
  KeepsBlocks =>
    \A t \in pool : /\ Ins[t] \subseteq Created
                    /\ \A o \in Ins[t] \intersect SpentOnChain : o \in LeadSpends \/ BeingRemoved(t, o)

LEMMA IdleInv == PoolInv /\ AllIdle => (CalmInv <=> Solo /\ PoolIndexed /\ PoolFree)
<1> SUFFICES ASSUME PoolInv, AllIdle
             PROVE  CalmInv <=> Solo /\ PoolIndexed /\ PoolFree
  OBVIOUS
<1>1. /\ InCall(add, {"callback", "index"}) = {} /\ InCall(add, {"callback"}) = {}
      /\ InCall(add, Adding) = {}
  BY NoneInCall DEF AllIdle, Adding
<1>2. \A a \in Adder : CallFree(add[a])
  BY NoCallType DEF AllIdle, CallFree
<1>3. count \in Nat
  BY DEF PoolInv, TypeOK
<1>4. CalmSpend <=> PoolFree
  BY <1>2 DEF CalmSpend, PoolFree
<1>5. CalmIndexed /\ CalmCounted <=> PoolIndexed
  BY <1>1, <1>3 DEF CalmIndexed, CalmCounted, PoolIndexed
<1> QED BY <1>4, <1>5 DEF CalmInv

(* ... and in the next state.                                              *)
LEMMA IdleNext ==
  PoolInv' /\ AllIdle' => (CalmInv' <=> Solo' /\ PoolIndexed' /\ PoolFree')
BY IdleInv, PTL

(* PoolFree speaks of the chain, the pool and the removals to come.        *)
LEMMA FreeKept ==
  ASSUME PoolFree, top' = top, pool' \subseteq pool,
         \A t \in pool', o \in Tx : BeingRemoved(t, o) => BeingRemoved(t, o)',
         PoolInv
  PROVE  PoolFree'
<1>1. /\ Created' = Created /\ SpentOnChain' = SpentOnChain /\ LeadSpends' = LeadSpends
  BY DEF Created, SpentOnChain, LeadSpends
<1>2. \A t \in pool : Ins[t] \subseteq Tx
  BY TxFacts DEF PoolInv, TypeOK
<1> QED BY <1>1, <1>2 DEF PoolFree

(* A batch: what it spends is to be removed when its blocks are scanned.   *)
LEMMA CalmConnect == ASSUME Calm, PoolInv, CalmInv, Connect PROVE CalmInv'
<1>1. PICK b \in Block : /\ top \in Branch[b] /\ top' = b
                         /\ conn' = [conn EXCEPT !.blocks = Branch[b] \ Branch[top]]
  BY DEF Connect
<1>2. /\ AtRest /\ conn = NoBlocks /\ UNCHANGED <<poolVars, orphans, count, announced, add, expiry, clearing>>
  BY DEF Connect, Calm, MayBegin
<1>3. AllIdle /\ AllIdle' /\ PoolInv'
  BY <1>2, InvBeside DEF AtRest, AddsIdle, AllIdle
<1>4. Solo /\ PoolIndexed /\ PoolFree
  BY <1>3, IdleInv
<1>5. Solo'
  BY <1>2, NoCallType DEF Solo, AtRest, AddsIdle
<1>6. /\ conn.pc = "loop" /\ conn'.pc = "loop" /\ conn'.blocks = Branch[b] \ Branch[top]
      /\ conn.blocks = {} /\ conn.todo = {}
  BY <1>1, <1>2 DEF NoBlocks
<1>7. PoolIndexed'
  BY <1>2, <1>4, <1>6 DEF PoolIndexed, Unsaid, Unsubtracted, poolVars
<1>8. Branch[top] \subseteq Branch[b] /\ Branch[b] \subseteq Block
  BY <1>1, TreeAssumption
<1>9. PoolFree'
  <2> SUFFICES ASSUME KeepsBlocks, NEW t \in pool
               PROVE  /\ Ins[t] \subseteq Created'
                      /\ \A o \in Ins[t] \intersect SpentOnChain' : o \in LeadSpends' \/ BeingRemoved(t, o)'
    BY <1>2 DEF PoolFree, poolVars
  <2>1. Created \subseteq Created' /\ LeadSpends \subseteq LeadSpends'
    BY <1>1, <1>8 DEF Created, LeadSpends, TxsOf
  <2>2. ASSUME NEW o \in Ins[t], o \in SpentOnChain' PROVE o \in LeadSpends' \/ BeingRemoved(t, o)'
    <3>1. PICK x \in Branch[b] : \E s \in BlockTxs[x] : o \in Ins[s]
      BY <1>1, <2>2 DEF SpentOnChain, Spends, TxsOf
    <3>5. PICK s \in BlockTxs[x] : o \in Ins[s]
      BY <3>1
    <3>2. CASE x \in Branch[top]
      <4>1. o \in SpentOnChain
        BY <3>5, <3>2 DEF SpentOnChain, Spends, TxsOf
      <4> QED BY <1>4, <1>6, <2>1, <4>1 DEF PoolFree, BeingRemoved
    <3>3. CASE s \in Lead[x]
      BY <1>1, <3>5, <3>3 DEF LeadSpends
    <3>4. CASE x \notin Branch[top] /\ s \notin Lead[x]
      BY <1>6, <3>1, <3>5, <3>4 DEF BeingRemoved, Confirmed
    <3> QED BY <3>2, <3>3, <3>4
  <2> QED BY <1>4, <2>1, <2>2 DEF PoolFree, BeingRemoved
<1> QED BY <1>3, <1>5, <1>7, <1>9, IdleNext

(* The scan of a block finds what it contradicts.                          *)
LEMMA CalmScan == ASSUME Calm, PoolInv, CalmInv, ScanBlock PROVE CalmInv'
<1>1. PICK b \in conn.blocks : conn' = [conn EXCEPT !.blocks = @ \ {b}, !.todo = Affected(b)]
  BY DEF ScanBlock
<1>2. /\ conn.pc = "loop" /\ conn.todo = {} /\ conn # NoBlocks
      /\ UNCHANGED <<top, poolVars, orphans, count, announced, add, expiry, clearing>>
  BY <1>1 DEF ScanBlock, NoBlocks
<1>3. AllIdle /\ AllIdle' /\ PoolInv'
  BY <1>2, BesideIdle, InvBeside DEF CalmInv, AllIdle
<1>4. Solo /\ PoolIndexed /\ PoolFree
  BY <1>3, IdleInv
<1>5. conn \in [pc : {"loop", "callback", "stats"}, blocks : SUBSET Block,
                todo : SUBSET Ordinary, tx : Ordinary \union {None}]
  BY DEF PoolInv, TypeOK
<1>6. conn'.pc = "loop" /\ conn'.blocks = conn.blocks \ {b} /\ conn'.todo = Affected(b)
  BY <1>1, <1>2, <1>5
<1>7. Solo'
  BY <1>2, <1>3, <1>4, NoCallType DEF Solo, AllIdle
<1>8. PoolIndexed'
  BY <1>2, <1>4, <1>6 DEF PoolIndexed, Unsaid, Unsubtracted, poolVars
<1>9. PoolFree'
  <2>1. ASSUME NEW t \in pool, NEW o \in Tx, o \in Ins[t], BeingRemoved(t, o)
        PROVE  BeingRemoved(t, o)'
    <3>1. PICK x \in conn.blocks : \E s \in Confirmed(x) : o \in Ins[s]
      BY <1>2, <2>1 DEF BeingRemoved
    <3>2. CASE x = b
      BY <1>6, <2>1, <3>1, <3>2 DEF BeingRemoved, Affected
    <3>3. CASE x # b
      BY <1>6, <3>1, <3>3 DEF BeingRemoved, Confirmed
    <3> QED BY <3>2, <3>3
  <2>2. /\ Created' = Created /\ SpentOnChain' = SpentOnChain /\ LeadSpends' = LeadSpends
    BY <1>2 DEF Created, SpentOnChain, LeadSpends
  <2>3. \A t \in pool : Ins[t] \subseteq Tx
    BY TxFacts DEF PoolInv, TypeOK
  <2> QED BY <1>2, <1>4, <2>1, <2>2, <2>3 DEF PoolFree, poolVars
<1> QED BY <1>3, <1>7, <1>8, <1>9, IdleNext

(* Solo, with all goroutines idle.                                         *)
LEMMA SoloIdle ==
  ASSUME AllIdle, UNCHANGED add,
         conn' # NoBlocks => expiry' = NoSweep /\ clearing' = NoSweep,
         expiry' # NoSweep => clearing' = NoSweep
  PROVE  AllIdle' /\ Solo'
<1>1. \A a \in Adder : add'[a] = NoCall
  BY DEF AllIdle
<1> QED BY <1>1, NoCallType DEF AllIdle, Solo

(* What leaves the pool was in the fee index once.                         *)
LEMMA TakenOut ==
  ASSUME PoolInv, PoolIndexed, NEW S \in SUBSET pool, TakeOut(S)
  PROVE  /\ pool' = pool \ S
         /\ \A t \in Tx : byFee'[t] = IF t \in pool' THEN 1 ELSE 0
         /\ IsFiniteSet(S) /\ Cardinality(S) \in Nat
         /\ IsFiniteSet(pool) /\ Cardinality(pool) \in Nat
         /\ Cardinality(pool') = Cardinality(pool) - Cardinality(S)
<1>1. pool' = pool \ S /\ IsFiniteSet(S) /\ IsFiniteSet(pool)
  BY TakeOutKeeps DEF PoolInv
<1>2. S \in SUBSET Tx
  BY TxFacts DEF PoolInv, TypeOK
<1>3. \A t \in Tx : byFee'[t] = IF t \in pool' THEN 1 ELSE 0
  BY <1>1, <1>2 DEF TakeOut, NonNegative, PoolIndexed
<1>4. pool \intersect S = S
  OBVIOUS
<1>5. Cardinality(pool') = Cardinality(pool) - Cardinality(S)
  BY <1>1, <1>4, FS_Difference
<1> QED BY <1>1, <1>3, <1>5, FS_CardinalityType

(* A block's removals: the pool, then the listener, then the statistics.   *)
LEMMA CalmRemoveOne == ASSUME Calm, PoolInv, CalmInv, RemoveOne PROVE CalmInv'
<1>1. PICK t \in conn.todo :
        \/ t \in pool /\ TakeOut({t})
           /\ conn' = [conn EXCEPT !.todo = @ \ {t}, !.tx = t, !.pc = "callback"]
        \/ t \notin pool /\ UNCHANGED poolVars /\ conn' = [conn EXCEPT !.todo = @ \ {t}]
  BY DEF RemoveOne
<1>2. /\ conn.pc = "loop" /\ conn # NoBlocks
      /\ UNCHANGED <<top, orphans, count, announced, add, expiry, clearing>>
  BY <1>1 DEF RemoveOne, NoBlocks
<1>3. AllIdle /\ Solo
  BY <1>2, BesideIdle DEF CalmInv
<1>4. PoolIndexed /\ PoolFree /\ expiry = NoSweep /\ clearing = NoSweep
  BY <1>2, <1>3, IdleInv DEF Solo
<1>5. AllIdle' /\ Solo'
  BY <1>2, <1>3, <1>4, SoloIdle
<1>6. PoolInv'
  BY InvRemoveOne
<1>7. conn \in [pc : {"loop", "callback", "stats"}, blocks : SUBSET Block,
                todo : SUBSET Ordinary, tx : Ordinary \union {None}]
  BY DEF PoolInv, TypeOK
<1>8. conn'.blocks = conn.blocks /\ conn'.todo = conn.todo \ {t}
  BY <1>1, <1>7
<1>9. Unsaid = {} /\ Unsubtracted = 0 /\ expiry.gone = {} /\ clearing.gone = {} /\ expiry.pc = "idle"
      /\ clearing.pc = "idle"
  BY <1>2, <1>4 DEF Unsaid, Unsubtracted, NoSweep
<1>10. CASE t \in pool /\ TakeOut({t})
            /\ conn' = [conn EXCEPT !.todo = @ \ {t}, !.tx = t, !.pc = "callback"]
  <2>1. conn'.pc = "callback" /\ conn'.tx = t
    BY <1>7, <1>10
  <2>2. Unsaid' = {t} /\ Unsubtracted' = 1
    BY <1>2, <1>9, <2>1 DEF Unsaid, Unsubtracted
  <2>3. /\ pool' = pool \ {t}
        /\ \A x \in Tx : byFee'[x] = IF x \in pool' THEN 1 ELSE 0
        /\ Cardinality(pool) \in Nat
        /\ Cardinality(pool') = Cardinality(pool) - Cardinality({t})
    BY <1>4, <1>10, TakenOut
  <2>4. Cardinality({t}) = 1
    BY FS_Singleton
  <2>5. PoolIndexed'
    BY <1>2, <1>4, <1>9, <1>10, <2>2, <2>3, <2>4 DEF PoolIndexed
  <2>6. PoolFree'
    BY <1>2, <1>4, <1>8, <2>3, FreeKept DEF BeingRemoved
  <2> QED BY <1>5, <1>6, <2>5, <2>6, IdleNext
<1>11. CASE t \notin pool /\ UNCHANGED poolVars /\ conn' = [conn EXCEPT !.todo = @ \ {t}]
  <2>1. conn'.pc = "loop"
    BY <1>2, <1>7, <1>11
  <2>2. Unsaid' = {} /\ Unsubtracted' = 0
    BY <1>2, <1>9, <2>1 DEF Unsaid, Unsubtracted
  <2>3. PoolIndexed'
    BY <1>2, <1>4, <1>9, <1>11, <2>2 DEF PoolIndexed, poolVars
  <2>4. PoolFree'
    BY <1>2, <1>4, <1>8, <1>11, FreeKept DEF BeingRemoved, poolVars
  <2> QED BY <1>5, <1>6, <2>3, <2>4, IdleNext
<1> QED BY <1>1, <1>10, <1>11

LEMMA CalmRemoved ==
  ASSUME Calm, PoolInv, CalmInv, RemoveCallback \/ RemoveStats
  PROVE  CalmInv'
<1>1. /\ conn.pc \in {"callback", "stats"} /\ conn # NoBlocks
      /\ UNCHANGED <<top, poolVars, add, expiry, clearing>>
  BY DEF RemoveCallback, RemoveStats, NoBlocks
<1>2. AllIdle /\ Solo
  BY <1>1, BesideIdle DEF CalmInv
<1>3. PoolIndexed /\ PoolFree /\ expiry = NoSweep /\ clearing = NoSweep
  BY <1>1, <1>2, IdleInv DEF Solo
<1>4. AllIdle' /\ Solo'
  BY <1>1, <1>2, <1>3, SoloIdle
<1>5. PoolInv'
  BY InvBeside
<1>6. conn \in [pc : {"loop", "callback", "stats"}, blocks : SUBSET Block,
                todo : SUBSET Ordinary, tx : Ordinary \union {None}]
  BY DEF PoolInv, TypeOK
<1>7. conn'.blocks = conn.blocks /\ conn'.todo = conn.todo
  BY <1>6 DEF RemoveCallback, RemoveStats
<1>8. PoolFree'
  BY <1>1, <1>3, <1>7, FreeKept DEF BeingRemoved, poolVars
<1>9. /\ expiry.gone = {} /\ clearing.gone = {} /\ expiry.pc = "idle" /\ clearing.pc = "idle"
      /\ Cardinality(pool) \in Nat /\ count \in Nat
  BY <1>3, FS_CardinalityType DEF NoSweep, PoolInv, TypeOK
<1>10. PoolIndexed'
  <2>1. CASE RemoveCallback
    <3>1. /\ conn.pc = "callback" /\ conn'.pc = "stats" /\ announced' = announced \ {conn.tx}
          /\ count' = count
      BY <1>6, <2>1 DEF RemoveCallback
    <3>2. Unsaid = {conn.tx} /\ Unsaid' = {} /\ Unsubtracted' = Unsubtracted
      BY <1>1, <1>9, <3>1 DEF Unsaid, Unsubtracted
    <3>3. announced' = pool
      BY <1>3, <3>1, <3>2 DEF PoolIndexed
    <3> QED BY <1>1, <1>3, <1>9, <3>1, <3>2, <3>3 DEF PoolIndexed, poolVars
  <2>2. CASE RemoveStats
    <3>1. /\ conn.pc = "stats" /\ conn'.pc = "loop" /\ announced' = announced
          /\ count' = NonNegative(count - 1)
      BY <1>6, <2>2 DEF RemoveStats
    <3>2. Unsaid = {} /\ Unsaid' = {} /\ Unsubtracted = 1 /\ Unsubtracted' = 0
      BY <1>1, <1>9, <3>1 DEF Unsaid, Unsubtracted
    <3>3. count = Cardinality(pool) + 1
      BY <1>3, <1>9, <3>2 DEF PoolIndexed
    <3>4. count' = Cardinality(pool)
      BY <1>9, <3>1, <3>3 DEF NonNegative
    <3> QED BY <1>1, <1>3, <1>9, <3>1, <3>2, <3>4 DEF PoolIndexed, poolVars
  <2> QED BY <2>1, <2>2
<1> QED BY <1>4, <1>5, <1>8, <1>10, IdleNext

(* Expiry and clearing leave the chain and the running batch alone.        *)
LEMMA SweepFree ==
  ASSUME PoolInv, PoolFree, UNCHANGED <<top, conn>>, pool' \subseteq pool
  PROVE  PoolFree'
<1>1. \A t, o : BeingRemoved(t, o)' <=> BeingRemoved(t, o)
  BY DEF BeingRemoved
<1> QED BY <1>1, FreeKept

LEMMA CalmExpire ==
  ASSUME Calm, PoolInv, CalmInv, Expire \/ ExpireStats \/ ExpireCallback
  PROVE  CalmInv'
<1>1. /\ Expire => AtRest
      /\ ExpireStats \/ ExpireCallback => expiry # NoSweep
      /\ UNCHANGED <<top, orphans, add, conn, clearing>>
  BY DEF Expire, ExpireStats, ExpireCallback, Calm, MayBegin, NoSweep
<1>2. AllIdle /\ Solo
  BY <1>1, BesideIdle DEF CalmInv, MayBegin
<1>3. PoolIndexed /\ PoolFree /\ conn = NoBlocks /\ clearing = NoSweep
  BY <1>1, <1>2, IdleInv DEF Solo, AtRest
<1>4. AllIdle' /\ Solo'
  BY <1>1, <1>2, <1>3, SoloIdle
<1>5. PoolInv'
  BY InvExpire, InvBeside
<1>6. /\ conn.pc = "loop" /\ clearing.gone = {} /\ clearing.pc = "idle"
      /\ Cardinality(pool) \in Nat /\ count \in Nat /\ Cardinality(expiry.gone) \in Nat
      /\ expiry \in [pc : {"idle", "stats", "callback"}, gone : SUBSET Ordinary]
  BY <1>3, FS_CardinalityType DEF NoSweep, NoBlocks, PoolInv, TypeOK
<1>7. /\ Unsaid = expiry.gone /\ Unsaid' = expiry'.gone
      /\ Unsubtracted = (IF expiry.pc = "stats" THEN Cardinality(expiry.gone) ELSE 0)
      /\ Unsubtracted' = (IF expiry'.pc = "stats" THEN Cardinality(expiry'.gone) ELSE 0)
  <2>1. conn'.pc = "loop" /\ clearing'.gone = {}
    BY <1>1, <1>6
  <2>2. Cardinality(expiry'.gone) \in Nat
    BY <1>5, FS_CardinalityType DEF PoolInv
  <2> QED BY <1>6, <2>1, <2>2 DEF Unsaid, Unsubtracted
<1>8. CASE Expire
  <2>1. PICK old \in SUBSET pool : TakeOut(old) /\ expiry' = [pc |-> "stats", gone |-> old]
    BY <1>8 DEF Expire
  <2>2. expiry = NoSweep /\ UNCHANGED <<count, announced>>
    BY <1>8 DEF Expire
  <2>3. /\ pool' = pool \ old
        /\ \A x \in Tx : byFee'[x] = IF x \in pool' THEN 1 ELSE 0
        /\ Cardinality(old) \in Nat
        /\ Cardinality(pool') = Cardinality(pool) - Cardinality(old)
    BY <1>3, <2>1, TakenOut
  <2>4. Unsaid = {} /\ Unsubtracted = 0 /\ Unsaid' = old /\ Unsubtracted' = Cardinality(old)
    BY <1>7, <2>1, <2>2 DEF NoSweep
  <2>5. announced = pool /\ count = Cardinality(pool)
    BY <1>3, <1>6, <2>4 DEF PoolIndexed
  <2>6. count' = Cardinality(pool') + Unsubtracted' /\ announced' = pool' \union Unsaid'
    BY <1>6, <2>2, <2>3, <2>4, <2>5
  <2>7. PoolIndexed'
    BY <1>1, <1>3, <2>3, <2>4, <2>6 DEF PoolIndexed
  <2>8. PoolFree'
    BY <1>1, <1>3, <2>3, SweepFree
  <2> QED BY <1>4, <1>5, <2>7, <2>8, IdleNext
<1>9. CASE ExpireStats \/ ExpireCallback
  <2>1. UNCHANGED poolVars
    BY <1>9 DEF ExpireStats, ExpireCallback
  <2>2. CASE ExpireStats
    <3>1. /\ expiry.pc = "stats" /\ expiry'.pc = "callback" /\ expiry'.gone = expiry.gone
          /\ announced' = announced /\ count' = NonNegative(count - Cardinality(expiry.gone))
      BY <1>6, <2>2 DEF ExpireStats
    <3>2. count = Cardinality(pool) + Cardinality(expiry.gone)
      BY <1>3, <1>6, <1>7, <3>1 DEF PoolIndexed
    <3>3. count' = Cardinality(pool) + Unsubtracted'
      BY <1>6, <1>7, <3>1, <3>2 DEF NonNegative
    <3>4. PoolIndexed'
      BY <1>1, <1>3, <1>7, <2>1, <3>1, <3>3 DEF PoolIndexed, poolVars
    <3>5. PoolFree'
      BY <1>1, <1>3, <2>1, SweepFree DEF poolVars
    <3> QED BY <1>4, <1>5, <3>4, <3>5, IdleNext
  <2>3. CASE ExpireCallback
    <3>1. PICK t \in expiry.gone :
            /\ announced' = announced \ {t}
            /\ expiry' = IF expiry.gone = {t} THEN NoSweep ELSE [expiry EXCEPT !.gone = @ \ {t}]
      BY <2>3 DEF ExpireCallback
    <3>2. expiry.pc = "callback" /\ count' = count
      BY <2>3 DEF ExpireCallback
    <3>3. expiry'.gone = expiry.gone \ {t} /\ expiry'.pc # "stats"
      BY <1>6, <3>1, <3>2 DEF NoSweep
    <3>4. announced' = pool \union Unsaid'
      BY <1>3, <1>7, <3>1, <3>3 DEF PoolIndexed
    <3>5. PoolIndexed'
      BY <1>1, <1>3, <1>6, <1>7, <2>1, <3>2, <3>3, <3>4 DEF PoolIndexed, poolVars
    <3>6. PoolFree'
      BY <1>1, <1>3, <2>1, SweepFree DEF poolVars
    <3> QED BY <1>4, <1>5, <3>5, <3>6, IdleNext
  <2> QED BY <1>9, <2>2, <2>3
<1> QED BY <1>8, <1>9

LEMMA CalmClear ==
  ASSUME Calm, PoolInv, CalmInv, Clear \/ ClearStats \/ ClearOrphans \/ ClearCallback
  PROVE  CalmInv'
<1>1. /\ Clear => AtRest
      /\ ClearStats \/ ClearOrphans \/ ClearCallback => clearing # NoSweep
      /\ UNCHANGED <<top, add, conn, expiry>>
  BY DEF Clear, ClearStats, ClearOrphans, ClearCallback, Calm, MayBegin, NoSweep
<1>2. AllIdle /\ Solo
  BY <1>1, BesideIdle DEF CalmInv, MayBegin
<1>3. PoolIndexed /\ PoolFree /\ conn = NoBlocks /\ expiry = NoSweep
  BY <1>1, <1>2, IdleInv DEF Solo, AtRest
<1>4. AllIdle' /\ Solo'
  BY <1>1, <1>2, <1>3, SoloIdle
<1>5. PoolInv'
  BY InvClear, InvBeside
<1>6. /\ conn.pc = "loop" /\ expiry.gone = {} /\ expiry.pc = "idle"
      /\ Cardinality(pool) \in Nat /\ count \in Nat
      /\ clearing \in [pc : {"idle", "stats", "orphans", "callback"}, gone : SUBSET Ordinary]
  BY <1>3, FS_CardinalityType DEF NoSweep, NoBlocks, PoolInv, TypeOK
<1>7. /\ Unsaid = clearing.gone /\ Unsaid' = clearing'.gone
      /\ Unsubtracted = 0 /\ Unsubtracted' = 0
  BY <1>1, <1>6 DEF Unsaid, Unsubtracted
<1>8. CASE Clear
  <2>1. /\ pool' = {} /\ byFee' = [t \in Tx |-> 0] /\ UNCHANGED <<count, announced>>
        /\ clearing' = [pc |-> "stats", gone |-> pool] /\ clearing = NoSweep
    BY <1>8 DEF Clear
  <2>2. Unsaid = {} /\ Unsaid' = pool /\ clearing'.pc = "stats"
    BY <1>7, <2>1 DEF NoSweep
  <2>3. PoolIndexed'
    BY <1>3, <2>1, <2>2 DEF PoolIndexed
  <2>4. PoolFree'
    BY <1>1, <1>3, <2>1, SweepFree
  <2> QED BY <1>4, <1>5, <2>3, <2>4, IdleNext
<1>9. CASE ClearStats \/ ClearOrphans \/ ClearCallback
  <2>1. UNCHANGED poolVars /\ pool = {} /\ Cardinality(pool) = 0
    BY <1>1, <1>3, <1>9, FS_EmptySet DEF ClearStats, ClearOrphans, ClearCallback, PoolIndexed
  <2>2. PoolFree'
    BY <1>1, <1>3, <2>1, SweepFree DEF poolVars
  <2>3. CASE ClearStats
    <3>1. /\ announced' = announced /\ count' = 0 /\ clearing'.gone = clearing.gone
      BY <1>6, <2>3 DEF ClearStats
    <3>2. PoolIndexed'
      BY <1>3, <1>7, <2>1, <3>1 DEF PoolIndexed, poolVars
    <3> QED BY <1>4, <1>5, <2>2, <3>2, IdleNext
  <2>4. CASE ClearOrphans
    <3>1. /\ announced' = announced /\ count' = count /\ clearing'.gone = clearing.gone
          /\ clearing.pc = "orphans"
      BY <1>6, <2>4 DEF ClearOrphans, NoSweep
    <3>2. PoolIndexed'
      BY <1>3, <1>6, <1>7, <2>1, <3>1 DEF PoolIndexed, poolVars
    <3> QED BY <1>4, <1>5, <2>2, <3>2, IdleNext
  <2>5. CASE ClearCallback
    <3>1. PICK t \in clearing.gone :
            /\ announced' = announced \ {t}
            /\ clearing' = IF clearing.gone = {t} THEN NoSweep ELSE [clearing EXCEPT !.gone = @ \ {t}]
      BY <2>5 DEF ClearCallback
    <3>2. clearing.pc = "callback" /\ count' = count
      BY <2>5 DEF ClearCallback
    <3>3. clearing'.gone = clearing.gone \ {t}
      BY <1>6, <3>1 DEF NoSweep
    <3>4. PoolIndexed'
      BY <1>3, <1>6, <1>7, <2>1, <3>1, <3>2, <3>3 DEF PoolIndexed, poolVars
    <3> QED BY <1>4, <1>5, <2>2, <3>4, IdleNext
  <2> QED BY <1>9, <2>3, <2>4, <2>5
<1> QED BY <1>8, <1>9

LEMMA CalmPriority == ASSUME Calm, PoolInv, CalmInv, UpdatePriority PROVE CalmInv'
<1>1. /\ AtRest /\ byFee' = [t \in Tx |-> IF t \in pool THEN 1 ELSE 0]
      /\ UNCHANGED <<top, pool, count, announced, add, conn, expiry, clearing>>
  BY DEF UpdatePriority, Calm, MayBegin, elsewhere
<1>2. AllIdle /\ Solo
  BY <1>1, BesideIdle DEF CalmInv, MayBegin
<1>3. PoolIndexed /\ PoolFree
  BY <1>2, IdleInv
<1>4. AllIdle' /\ Solo'
  BY <1>1, <1>2, SoloIdle DEF AtRest
<1>5. PoolInv'
  BY InvUpdatePriority
<1>6. PoolIndexed'
  BY <1>1, <1>3 DEF PoolIndexed, Unsaid, Unsubtracted
<1>7. PoolFree'
  BY <1>1, <1>3, SweepFree
<1> QED BY <1>4, <1>5, <1>6, <1>7, IdleNext

(* A disconnected block finds nothing under way and the mempool as it was. *)
LEMMA CalmDisconnect == ASSUME Calm, PoolInv, CalmInv, Disconnect PROVE CalmInv'
<1>1. /\ AtRest /\ ~ KeepsBlocks
      /\ UNCHANGED <<poolVars, orphans, count, announced, add, conn, expiry, clearing>>
  BY DEF Disconnect, Calm, MayBegin, KeepsBlocks
<1>2. AllIdle /\ Solo
  BY <1>1, BesideIdle DEF CalmInv, MayBegin
<1>3. PoolIndexed
  BY <1>2, IdleInv
<1>4. AllIdle' /\ Solo'
  BY <1>1, <1>2, SoloIdle DEF AtRest
<1>5. PoolInv'
  BY InvBeside
<1>6. PoolIndexed' /\ PoolFree'
  BY <1>1, <1>3 DEF PoolIndexed, PoolFree, Unsaid, Unsubtracted, poolVars, KeepsBlocks
<1> QED BY <1>4, <1>5, <1>6, IdleNext

LEMMA CalmInit == Init => CalmInv
<1> SUFFICES ASSUME Init PROVE CalmInv
  OBVIOUS
<1>1. AllIdle /\ Solo /\ PoolInv
  BY NoCallType, InvInit DEF Init, AllIdle, Solo
<1>2. /\ Unsaid = {} /\ Unsubtracted = 0 /\ Cardinality(pool) = 0 /\ clearing = NoSweep
  BY FS_EmptySet DEF Init, Unsaid, Unsubtracted, NoBlocks, NoSweep
<1>3. PoolIndexed
  BY <1>2 DEF Init, PoolIndexed
<1>4. PoolFree
  BY DEF Init, PoolFree
<1> QED BY <1>1, <1>3, <1>4, IdleInv

LEMMA CalmNext == ASSUME Calm PROVE PoolInv /\ CalmInv /\ [Next]_vars => CalmInv'
<1> SUFFICES ASSUME PoolInv, CalmInv, [Next]_vars PROVE CalmInv'
  OBVIOUS
<1>1. CASE UNCHANGED vars
  <2>1. UNCHANGED <<top, pool, byFee, count, announced, add, conn, expiry, clearing>>
    BY <1>1 DEF vars, poolVars, elsewhere
  <2>2. Solo'
    BY <2>1 DEF CalmInv, Solo
  <2>3. CalmIndexed'
    BY <2>1 DEF CalmInv, CalmIndexed, InCall, Unsaid
  <2>4. CalmCounted'
    BY <2>1 DEF CalmInv, CalmCounted, InCall, Unsubtracted
  <2>5. CalmSpend'
    BY <2>1 DEF CalmInv, CalmSpend, CallFree, Unspent, Created, SpentOnChain, LeadSpends, BeingRemoved
  <2> QED BY <2>2, <2>3, <2>4, <2>5 DEF CalmInv
<1>3. CASE Next
  BY <1>3, CalmCall, CalmDisconnect, CalmConnect, CalmScan, CalmRemoveOne, CalmRemoved, CalmExpire, CalmClear,
     CalmPriority DEF Next
<1> QED BY <1>1, <1>3

(* With one call at a time, whenever no call is under way: the fee index   *)
(* has each pool transaction once, the statistics count the pool, and the  *)
(* listener was last told of exactly the pool.                             *)
THEOREM PoolIndexesAgree ==
  ASSUME Calm
  PROVE  Spec => []IndexesAgreeAtRest
<1>1. PoolInv /\ CalmInv => IndexesAgreeAtRest
  <2> SUFFICES ASSUME PoolInv, CalmInv, AtRest
               PROVE  /\ \A t \in Tx : byFee[t] = IF t \in pool THEN 1 ELSE 0
                      /\ count = Cardinality(pool)
                      /\ announced = pool
    BY DEF IndexesAgreeAtRest
  <2>1. AllIdle /\ conn = NoBlocks /\ expiry = NoSweep /\ clearing = NoSweep
    BY DEF AtRest, AddsIdle, AllIdle
  <2>2. PoolIndexed /\ Cardinality(pool) \in Nat
    BY <2>1, IdleInv, FS_CardinalityType DEF PoolInv
  <2>3. Unsaid = {} /\ Unsubtracted = 0 /\ clearing.pc # "stats"
    BY <2>1 DEF Unsaid, Unsubtracted, NoBlocks, NoSweep
  <2> QED BY <2>2, <2>3 DEF PoolIndexed
<1> QED BY <1>1, InvInit, InvNext, CalmInit, CalmNext, PTL DEF Spec

(* So templates then hold only what is in the pool: what the template run  *)
(* finds needs an addition that is overtaken by a removal.                 *)
THEOREM TemplatesWhenCalm ==
  ASSUME Calm
  PROVE  Spec => []TemplateFromPool
<1>1. IndexesAgreeAtRest => TemplateFromPool
  BY DEF IndexesAgreeAtRest, TemplateFromPool
<1> QED BY <1>1, PoolIndexesAgree, PTL

(* Likewise, and without rollbacks, pool transactions spend outputs that   *)
(* are on the chain and unspent, but for what coinstakes spend.            *)
THEOREM PoolIsSpendable ==
  ASSUME Calm, KeepsBlocks
  PROVE  Spec => []PoolSpendable
<1>1. PoolInv /\ CalmInv => PoolSpendable
  <2> SUFFICES ASSUME PoolInv, CalmInv, AtRest
               PROVE  \A t \in pool : Ins[t] \subseteq Created \ (SpentOnChain \ LeadSpends)
    BY DEF PoolSpendable
  <2>1. conn.blocks = {} /\ conn.todo = {}
    BY DEF AtRest, NoBlocks
  <2> QED BY <2>1 DEF CalmInv, CalmSpend, BeingRemoved
<1> QED BY <1>1, InvInit, InvNext, CalmInit, CalmNext, PTL DEF Spec

-----------------------------------------------------------------------------
(* The contract with the mempool's users.                                  *)

LEMMA UsersLedger ==
  \A b : Users!UnspentOn(b) = TxsOf(Branch[b]) \ Spends(Branch[b])
BY DEF Users!UnspentOn, Users!TxsOf, Users!Spends, TxsOf, Spends

UsersSee == <<top, Created \ SpentOnChain, pool>>

(* The chain moves by a batch or a block, and the pool does not move then. *)
LEMMA UsersChain == ASSUME TypeOK, Connect \/ Disconnect PROVE Users!ChainMoves
<1>1. pool' = pool /\ (Created \ SpentOnChain)' = Users!UnspentOn(top')
  BY UsersLedger DEF Connect, Disconnect, poolVars, Created, SpentOnChain
<1>2. CASE Connect
  BY <1>1, <1>2 DEF Connect, Users!ChainMoves, Users!Next, Users!Extend
<1>3. CASE Disconnect
  <2>1. top \in Block \ {Genesis} /\ top' = Parent[top]
    BY <1>3 DEF Disconnect, TypeOK
  <2>2. /\ Parent[top] \in Block /\ Branch[top] = Branch[Parent[top]] \union {top}
        /\ Depth[top] = Depth[Parent[top]] + 1 /\ Depth[Parent[top]] \in Nat
    BY <2>1, TreeAssumption
  <2>3. \A b \in Block : b \in Branch[b]
    <3> SUFFICES ASSUME NEW b \in Block PROVE b \in Branch[b]
      OBVIOUS
    <3> QED BY TreeAssumption, b = Genesis \/ b \in Block \ {Genesis}
  <2> QED BY <1>1, <2>1, <2>2, <2>3 DEF Users!ChainMoves, Users!Next, Users!Retract
<1> QED BY <1>2, <1>3

(* The insertion is the one step by which a transaction enters.            *)
LEMMA UsersEnter ==
  ASSUME PoolInv, NEW a \in Adder, Insert(a), pool' # pool
  PROVE  /\ Users!Enter
         /\ pool' = pool \union {add[a].tx} /\ add[a].pc = "insert"
<1> DEFINE t == add[a].tx
<1>1. /\ add[a].pc = "insert" /\ t \in Ordinary /\ pool \subseteq Ordinary /\ top' = top
      /\ ~ Conflicts(t) /\ pool' = pool \union {t}
  BY DEF Insert, elsewhere, PoolInv, AddOK, TypeOK
<1> HIDE DEF t
<1>3. t \notin pool
  BY <1>1
<1>4. \A s \in pool : Ins[s] \intersect Ins[t] = {}
  <2> SUFFICES ASSUME NEW s \in pool, NEW o \in Ins[s], o \in Ins[t] PROVE FALSE
    OBVIOUS
  <2>1. o \in Tx /\ s \in Ordinary
    BY <1>1, TxFacts
  <2>2. spender[o] = s
    BY <2>1 DEF PoolInv, SpenderExact
  <2>3. spender[o] = None
    BY <1>1 DEF Conflicts
  <2> QED BY <2>1, <2>2, <2>3, TxFacts
<1>2. (Created \ SpentOnChain)' = Created \ SpentOnChain
  BY <1>1 DEF Created, SpentOnChain
<1> QED BY <1>1, <1>2, <1>3, <1>4 DEF Users!Enter, t

(* Every other step takes transactions out, or leaves chain and pool.      *)
LEMMA UsersRest ==
  ASSUME PoolInv, [Next]_vars, ~ Connect, ~ Disconnect,
         pool' # pool => \A a \in Adder : ~ Insert(a)
  PROVE  Users!Leave
<1>1. top' = top
  BY DEF Next, vars, elsewhere, Start, AddStep, FindInput, StoreOrphan, CheckConflicts, ValidateInput,
    CheckScripts, CheckCapacity, Insert, AcceptCallback, UpdateIndexes, UpdateAddStats,
    NextParent, NextCandidate, OrphanAccepted, OrphanDropped, AddReturns, ScanBlock, RemoveOne,
    RemoveCallback, RemoveStats, Expire, ExpireStats, ExpireCallback, Clear, ClearStats, ClearOrphans,
    ClearCallback, UpdatePriority
<1>2. pool' \subseteq pool
  BY DEF Next, vars, poolVars, Start, AddStep, FindInput, StoreOrphan, CheckConflicts, ValidateInput,
    CheckScripts, CheckCapacity, AcceptCallback, UpdateIndexes, UpdateAddStats,
    NextParent, NextCandidate, OrphanAccepted, OrphanDropped, AddReturns, ScanBlock, RemoveOne,
    RemoveCallback, RemoveStats, Expire, ExpireStats, ExpireCallback, Clear, ClearStats, ClearOrphans,
    ClearCallback, UpdatePriority, TakeOut
<1>3. pool' = pool \ (pool \ pool')
  BY <1>2
<1>4. (Created \ SpentOnChain)' = Created \ SpentOnChain
  BY <1>1 DEF Created, SpentOnChain
<1> QED BY <1>1, <1>3, <1>4 DEF Users!Leave

LEMMA UsersInit == Init => Users!PoolInit
BY UsersLedger DEF Init, Users!PoolInit, Users!Init, Created, SpentOnChain

LEMMA UsersNext ==
  PoolInv /\ [Next]_vars => [Users!ChainMoves \/ Users!Enter \/ Users!Leave]_UsersSee
<1> SUFFICES ASSUME PoolInv, [Next]_vars
             PROVE  Users!ChainMoves \/ Users!Enter \/ Users!Leave
  OBVIOUS
<1>1. TypeOK
  BY DEF PoolInv
<1> QED BY <1>1, UsersChain, UsersEnter, UsersRest

(* For any Env, and calls that overlap in any way: the mempool is a set of *)
(* transactions without conflicts beside a ledger, which a transaction     *)
(* enters in one step although it was checked in many.                     *)
THEOREM PoolKeepsContract == Spec => PoolContract
<1> QED BY UsersInit, UsersNext, InvInit, InvNext, PTL DEF Spec, PoolContract, Users!PoolSpec, UsersSee

LEMMA UsersChecked ==
  ASSUME Calm
  PROVE  PoolInv /\ CalmInv /\ [Next]_vars =>
           [Users!ChainMoves \/ Users!EnterSpendable \/ Users!Leave]_UsersSee
<1> SUFFICES ASSUME PoolInv, CalmInv, [Next]_vars
             PROVE  Users!ChainMoves \/ Users!EnterSpendable \/ Users!Leave
  OBVIOUS
<1>1. TypeOK
  BY DEF PoolInv
<1>2. ASSUME NEW a \in Adder, Insert(a), pool' # pool PROVE Users!EnterSpendable
  <2>1. Users!Enter /\ pool' = pool \union {add[a].tx} /\ add[a].pc = "insert"
    BY <1>2, UsersEnter
  <2>2. Ins[add[a].tx] \subseteq Created \ SpentOnChain
    BY <2>1 DEF CalmInv, CalmSpend, CallFree, Unspent
  <2> QED BY <2>1, <2>2 DEF Users!EnterSpendable
<1> QED BY <1>1, <1>2, UsersChain, UsersRest

(* When calls do not overlap, with rollbacks, expiry, clearing and orphans *)
(* that are tried again: what enters could be spent at that instant.       *)
THEOREM PoolKeepsCheckedContract == ASSUME Calm PROVE Spec => CheckedContract
<1> QED BY UsersInit, UsersChecked, InvInit, InvNext, CalmInit, CalmNext, PTL
        DEF Spec, CheckedContract, Users!CheckedSpec, UsersSee

-----------------------------------------------------------------------------
(* Calls come to an end.                                                   *)

(* A call that goes on to an earlier stage, with the same queue and        *)
(* candidates.  Only the stages from callback to accepted look ahead.      *)
LEMMA StageNearer ==
  ASSUME NEW c \in Calls, NEW d, d.queue = c.queue, d.cands = c.cands,
         Stage[d.pc] < Stage[c.pc],
         \/ d.pc \notin {"callback", "index", "stats", "accepted"}
         \/ c.pc \in {"callback", "index", "stats", "accepted"}
  PROVE  Nearer(d, c)
<1> DEFINE n == Len(c.queue)
           Looks(r) == r.pc \in {"callback", "index", "stats", "accepted"}
<1>1. n \in Nat
  BY DEF Calls
<1>2. Ahead(d) = n + (IF Looks(d) THEN 1 ELSE 0) /\ Ahead(c) = n + (IF Looks(c) THEN 1 ELSE 0)
  BY DEF Ahead
<1>3. Looks(d) => Looks(c)
  OBVIOUS
<1> HIDE DEF n, Looks
<1>4. Ahead(d) = Ahead(c) \/ Ahead(d) < Ahead(c)
  BY <1>1, <1>2, <1>3
<1> QED BY <1>4 DEF Nearer

LEMMA RejectNearer ==
  ASSUME AddTyped, NEW a \in Adder, NEW code, Reject(a, code),
         add[a].pc \notin {"idle", "orphans", "drop"}
  PROVE  add'[a] = NoCall \/ Nearer(add'[a], add[a])
<1> DEFINE c == add[a]
           d == [c EXCEPT !.pc = IF code = "orphan" THEN "orphans" ELSE "drop", !.todo = {}]
<1>1. c \in Calls
  BY DEF AddTyped
<1>2. add'[a] = NoCall \/ add'[a] = d
  BY DEF Reject, AddTyped
<1>3. /\ d.queue = c.queue /\ d.cands = c.cands
      /\ d.pc \in {"orphans", "drop"}
  BY <1>1 DEF Calls
<1>4. Stage[d.pc] < Stage[c.pc]
  BY <1>1, <1>3 DEF Stage, Calls, Steps
<1> HIDE DEF c, d
<1>5. Nearer(d, c)
  BY <1>1, <1>3, <1>4, StageNearer
<1> QED BY <1>2, <1>5 DEF c

LEMMA StageOrder ==
  /\ Stage["orphan"] < Stage["inputs"] /\ Stage["conflicts"] < Stage["inputs"]
  /\ Stage["validate"] < Stage["conflicts"] /\ Stage["scripts"] < Stage["validate"]
  /\ Stage["capacity"] < Stage["scripts"] /\ Stage["insert"] < Stage["capacity"]
  /\ Stage["index"] < Stage["callback"] /\ Stage["stats"] < Stage["index"]
  /\ Stage["accepted"] < Stage["stats"] /\ Stage["orphans"] < Stage["accepted"]
  /\ Stage["orphans"] < Stage["stats"] /\ Stage["orphans"] < Stage["drop"]
BY DEF Stage

LEMMA GotoNearer ==
  ASSUME AddTyped, NEW a \in Adder, NEW stage \in Steps, Goto(a, stage),
         Stage[stage] < Stage[add[a].pc],
         \/ stage \notin {"callback", "index", "stats", "accepted"}
         \/ add[a].pc \in {"callback", "index", "stats", "accepted"}
  PROVE  Nearer(add'[a], add[a])
<1> DEFINE d == [add[a] EXCEPT !.pc = stage]
<1>1. add[a] \in Calls
  BY DEF AddTyped
<1>2. add'[a] = d
  BY DEF Goto, AddTyped
<1>3. d.queue = add[a].queue /\ d.cands = add[a].cands /\ d.pc = stage
  BY <1>1 DEF Calls
<1> HIDE DEF d
<1> QED BY <1>1, <1>2, <1>3, StageNearer

(* An input less to look at, or the next stage after the last.             *)
LEMMA InputNearer ==
  ASSUME AddTyped, NEW a \in Adder, NEW o \in add[a].todo, NEW next \in Steps,
         add' = [add EXCEPT ![a] =
           [@ EXCEPT !.todo = add[a].todo \ {o},
                     !.pc = IF add[a].todo \ {o} = {} THEN next ELSE add[a].pc]],
         Stage[next] < Stage[add[a].pc],
         next \notin {"callback", "index", "stats", "accepted"},
         add[a].pc \notin {"callback", "index", "stats", "accepted"}
  PROVE  Nearer(add'[a], add[a])
<1> DEFINE c == add[a]
           rest == c.todo \ {o}
           d == [c EXCEPT !.todo = rest, !.pc = IF rest = {} THEN next ELSE c.pc]
<1>1. c \in Calls
  BY DEF AddTyped
<1>2. add'[a] = d
  BY DEF AddTyped
<1>3. /\ d.queue = c.queue /\ d.cands = c.cands /\ d.todo = rest
      /\ d.pc = IF rest = {} THEN next ELSE c.pc
      /\ rest \subseteq c.todo /\ rest # c.todo
  BY <1>1 DEF Calls
<1> HIDE DEF d, rest
<1>4. CASE rest = {}
  BY <1>1, <1>3, <1>4, StageNearer, <1>2
<1>5. CASE rest # {}
  BY <1>2, <1>3, <1>5 DEF Nearer, Ahead
<1> QED BY <1>4, <1>5

Ends(a) == add'[a] = NoCall
Grows == \E t \in Ordinary \ pool : pool' = pool \union {t}

(* The stages before the insertion.                                        *)
LEMMA ChecksNear ==
  ASSUME AddTyped, NEW a \in Adder,
         FindInput(a) \/ StoreOrphan(a) \/ CheckConflicts(a) \/ ValidateInput(a) \/ CheckScripts(a)
         \/ CheckCapacity(a)
  PROVE  Ends(a) \/ (pool' = pool /\ Nearer(add'[a], add[a]))
<1>0. pool' = pool /\ add[a] \in Calls
  BY DEF FindInput, StoreOrphan, CheckConflicts, ValidateInput, CheckScripts, CheckCapacity, poolVars,
     AddTyped
<1>1. CASE FindInput(a)
  <2>1. add[a].pc = "inputs"
    BY <1>1 DEF FindInput
  <2>2. CASE Goto(a, "orphan")
    BY <1>0, <2>1, <2>2, GotoNearer, StepNames, StageOrder
  <2>3. ASSUME NEW o \in add[a].todo,
               add' = [add EXCEPT ![a] =
                 [@ EXCEPT !.todo = add[a].todo \ {o},
                           !.pc = IF add[a].todo \ {o} = {} THEN "conflicts" ELSE "inputs"]]
        PROVE  Nearer(add'[a], add[a])
    BY <2>1, <2>3, InputNearer, StepNames, StageOrder
  <2> QED BY <1>0, <1>1, <2>2, <2>3 DEF FindInput
<1>2. CASE StoreOrphan(a)
  BY <1>0, <1>2, RejectNearer DEF StoreOrphan, Ends
<1>3. CASE CheckConflicts(a)
  <2>1. add[a].pc = "conflicts"
    BY <1>3 DEF CheckConflicts
  <2>2. CASE Reject(a, "conflict")
    BY <1>0, <2>1, <2>2, RejectNearer DEF Ends
  <2>3. CASE add' = [add EXCEPT ![a] = [@ EXCEPT !.todo = Ins[add[a].tx], !.pc = "validate"]]
    <3> DEFINE d == [add[a] EXCEPT !.todo = Ins[add[a].tx], !.pc = "validate"]
    <3>1. add'[a] = d
      BY <2>3 DEF AddTyped
    <3>2. d.queue = add[a].queue /\ d.cands = add[a].cands /\ d.pc = "validate"
      BY <1>0 DEF Calls
    <3> HIDE DEF d
    <3>3. Stage[d.pc] < Stage[add[a].pc]
      BY <2>1, <3>2, StageOrder
    <3> QED BY <1>0, <3>1, <3>2, <3>3, StageNearer
  <2> QED BY <1>3, <2>2, <2>3 DEF CheckConflicts
<1>4. CASE ValidateInput(a)
  <2>1. add[a].pc = "validate"
    BY <1>4 DEF ValidateInput
  <2>2. CASE Reject(a, "invalid") \/ Reject(a, "orphan")
    BY <1>0, <2>1, <2>2, RejectNearer DEF Ends
  <2>3. ASSUME NEW o \in add[a].todo,
               add' = [add EXCEPT ![a] =
                 [@ EXCEPT !.todo = add[a].todo \ {o},
                           !.pc = IF add[a].todo \ {o} = {} THEN "scripts" ELSE "validate"]]
        PROVE  Nearer(add'[a], add[a])
    BY <2>1, <2>3, InputNearer, StepNames, StageOrder
  <2> QED BY <1>0, <1>4, <2>2, <2>3 DEF ValidateInput
<1>5. CASE CheckScripts(a) \/ CheckCapacity(a)
  <2>1. \/ add[a].pc = "scripts" /\ Goto(a, "capacity")
        \/ add[a].pc = "capacity" /\ Goto(a, "insert")
        \/ /\ add[a].pc \in {"scripts", "capacity"}
           /\ Reject(a, "orphan") \/ Reject(a, "invalid") \/ Reject(a, "full")
    BY <1>5 DEF CheckScripts, CheckCapacity
  <2>2. ASSUME NEW code, Reject(a, code), add[a].pc \in {"scripts", "capacity"}
        PROVE  Ends(a) \/ Nearer(add'[a], add[a])
    BY <2>2, RejectNearer DEF Ends
  <2>3. CASE add[a].pc = "scripts" /\ Goto(a, "capacity")
    BY <1>0, <2>3, GotoNearer, StepNames, StageOrder
  <2>4. CASE add[a].pc = "capacity" /\ Goto(a, "insert")
    BY <1>0, <2>4, GotoNearer, StepNames, StageOrder
  <2> QED BY <1>0, <2>1, <2>2, <2>3, <2>4
<1> QED BY <1>1, <1>2, <1>3, <1>4, <1>5

(* The insertion and what follows it.                                      *)
LEMMA InsertNears ==
  ASSUME PoolInv, NEW a \in Adder, Insert(a)
  PROVE  Ends(a) \/ Grows \/ (pool' = pool /\ Nearer(add'[a], add[a]))
<1> DEFINE t == add[a].tx
<1>0. AddTyped /\ SpenderExact /\ t \in Ordinary /\ add[a].pc = "insert"
  BY DEF PoolInv, TypeOK, AddOK, AddTyped, Insert
<1>1. CASE ~ Conflicts(t)
  <2>1. pool' = pool \union {t}
    BY <1>1 DEF Insert
  <2>2. PICK o \in Ins[t] : o \in Tx /\ spender[o] = None
    BY <1>0, <1>1, TxFacts, PoolAssumption DEF Conflicts, PoolAssumption
  <2>3. t \notin pool
    BY <1>0, <2>2, TxFacts DEF SpenderExact
  <2> QED BY <1>0, <2>1, <2>3 DEF Grows
<1>2. CASE Conflicts(t)
  <2>1. Reject(a, "conflict") /\ pool' = pool
    BY <1>2 DEF Insert
  <2> QED BY <1>0, <2>1, RejectNearer DEF Ends
<1> QED BY <1>1, <1>2

LEMMA AddingNears ==
  ASSUME AddTyped, NEW a \in Adder, AcceptCallback(a) \/ UpdateIndexes(a) \/ UpdateAddStats(a)
  PROVE  pool' = pool /\ Nearer(add'[a], add[a])
<1>0. pool' = pool /\ add[a] \in Calls
  BY DEF AcceptCallback, UpdateIndexes, UpdateAddStats, poolVars, AddTyped
<1>1. CASE add[a].pc = "callback" /\ Goto(a, "index")
  BY <1>0, <1>1, GotoNearer, StepNames, StageOrder
<1>2. CASE add[a].pc = "index" /\ Goto(a, "stats")
  BY <1>0, <1>2, GotoNearer, StepNames, StageOrder
<1>3. CASE add[a].pc = "stats" /\ Goto(a, "accepted")
  BY <1>0, <1>3, GotoNearer, StepNames, StageOrder
<1>4. CASE /\ add[a].pc = "stats"
           /\ add' = [add EXCEPT ![a] = [@ EXCEPT !.queue = <<add[a].tx>>, !.pc = "orphans"]]
  <2> DEFINE c == add[a]
             d == [c EXCEPT !.queue = <<c.tx>>, !.pc = "orphans"]
  <2>1. add'[a] = d
    BY <1>4 DEF AddTyped
  <2>2. d.queue = <<c.tx>> /\ d.cands = c.cands /\ d.pc = "orphans" /\ c.pc = "stats"
    BY <1>0, <1>4 DEF Calls
  <2>3. Len(c.queue) \in Nat /\ Len(<<c.tx>>) = 1
    BY <1>0 DEF Calls
  <2> HIDE DEF c, d
  <2>4. Ahead(d) = 1 /\ Ahead(c) = Len(c.queue) + 1
    BY <2>2, <2>3 DEF Ahead
  <2>5. Nearer(d, c)
    BY <2>2, <2>3, <2>4, StageOrder DEF Nearer
  <2> QED BY <1>0, <2>1, <2>5 DEF c
<1> QED BY <1>1, <1>2, <1>3, <1>4 DEF AcceptCallback, UpdateIndexes, UpdateAddStats

(* processOrphans.                                                         *)
LEMMA OrphansNear ==
  ASSUME AddTyped, NEW a \in Adder,
         NextParent(a) \/ NextCandidate(a) \/ OrphanAccepted(a) \/ OrphanDropped(a) \/ AddReturns(a)
  PROVE  Ends(a) \/ (pool' = pool /\ Nearer(add'[a], add[a]))
<1> DEFINE c == add[a]
<1>a. pool' = pool
  BY DEF NextParent, NextCandidate, OrphanAccepted, OrphanDropped, AddReturns, poolVars
<1>b. c \in Calls
  BY DEF AddTyped
<1>0. pool' = pool /\ c \in Calls /\ c.queue \in Seq(Ordinary) /\ Len(c.queue) \in Nat
  BY <1>a, <1>b DEF Calls
<1>1. CASE NextParent(a)
  <2> DEFINE found == { t \in OrphanSet : Head(c.queue) \in Ins[t] }
             d == [c EXCEPT !.queue = Tail(c.queue), !.cands = found]
  <2>1. add'[a] = d /\ c.queue # <<>> /\ c.pc = "orphans"
    BY <1>1 DEF NextParent, AddTyped
  <2>2. d.queue = Tail(c.queue) /\ d.pc = c.pc
    BY <1>0 DEF Calls
  <2>3. Len(Tail(c.queue)) = Len(c.queue) - 1
    BY <1>0, <2>1
  <2> HIDE DEF c, d
  <2>4. Ahead(d) < Ahead(c)
    BY <1>0, <2>1, <2>2, <2>3 DEF Ahead
  <2> QED BY <1>0, <2>1, <2>4 DEF Nearer, c
<1>2. CASE NextCandidate(a)
  <2>1. PICK t \in c.cands :
          add' = [add EXCEPT ![a] =
            [@ EXCEPT !.cands = add[a].cands \ {t}, !.tx = t, !.nested = TRUE,
                      !.todo = IF t \in pool THEN {} ELSE Ins[t],
                      !.pc = IF t \in pool THEN "drop" ELSE "inputs"]]
    BY <1>2 DEF NextCandidate
  <2> DEFINE d == [c EXCEPT !.cands = c.cands \ {t}, !.tx = t, !.nested = TRUE,
                            !.todo = IF t \in pool THEN {} ELSE Ins[t],
                            !.pc = IF t \in pool THEN "drop" ELSE "inputs"]
  <2>2. add'[a] = d /\ c.pc = "orphans"
    BY <1>2, <2>1 DEF NextCandidate, AddTyped
  <2>3. d.queue = c.queue /\ d.cands = c.cands \ {t} /\ d.pc \in {"drop", "inputs"}
    BY <1>0 DEF Calls
  <2> HIDE DEF d
  <2>4. Ahead(d) = Ahead(c)
    BY <2>2, <2>3 DEF Ahead
  <2> QED BY <1>0, <2>2, <2>3, <2>4 DEF Nearer
<1>3. CASE OrphanAccepted(a)
  <2> DEFINE d == [c EXCEPT !.queue = Append(c.queue, c.tx), !.pc = "orphans"]
  <2>1. add'[a] = d /\ c.pc = "accepted" /\ c.tx \in Ordinary
    BY <1>3 DEF OrphanAccepted, AddTyped, AddOK
  <2>2. d.queue = Append(c.queue, c.tx) /\ d.cands = c.cands /\ d.pc = "orphans"
    BY <1>0 DEF Calls
  <2>3. Len(Append(c.queue, c.tx)) = Len(c.queue) + 1
    BY <1>0, <2>1
  <2> HIDE DEF c, d
  <2>4. Ahead(d) = Ahead(c)
    BY <1>0, <2>1, <2>2, <2>3 DEF Ahead
  <2>5. Nearer(d, c)
    BY <2>1, <2>2, <2>4, StageOrder DEF Nearer
  <2> QED BY <1>0, <2>1, <2>5 DEF c
<1>4. CASE OrphanDropped(a)
  BY <1>0, <1>4, GotoNearer, StepNames, StageOrder DEF OrphanDropped
<1>5. CASE AddReturns(a)
  BY <1>5 DEF AddReturns, AddTyped, Ends
<1> QED BY <1>1, <1>2, <1>3, <1>4, <1>5

(* In every environment, whatever other goroutines do in between: the      *)
(* safety half of AddsEnd.  Of finitely many transactions only finitely    *)
(* many can enter, unless some are removed and come again.                 *)
THEOREM CallsNearTheirEnd == Spec => AddNears
<1> DEFINE Near ==
      \A a \in Adder : add[a].pc # "idle" /\ add'[a] # add[a] =>
        \/ add'[a] = NoCall
        \/ \E t \in Ordinary \ pool : pool' = pool \union {t}
        \/ pool' = pool /\ Nearer(add'[a], add[a])
<1>1. PoolInv /\ [Next]_vars => [Near]_vars
  <2> SUFFICES ASSUME PoolInv, Next, NEW a \in Adder, add[a].pc # "idle", add'[a] # add[a]
               PROVE  Ends(a) \/ Grows \/ (pool' = pool /\ Nearer(add'[a], add[a]))
    BY DEF Ends, Grows
  <2>1. AddTyped
    BY DEF PoolInv, TypeOK, AddTyped
  <2>2. PICK b \in Adder : Start(b) \/ AddStep(b)
    BY DEF Next, Connect, ScanBlock, RemoveOne, RemoveCallback, RemoveStats, Disconnect, Expire,
       ExpireStats, ExpireCallback, Clear, ClearStats, ClearOrphans, ClearCallback, UpdatePriority
  <2>3. b = a
    <3>1. \E new : add' = [add EXCEPT ![b] = new]
      BY <2>2 DEF Start, Enter, AddStep, FindInput, StoreOrphan, CheckConflicts, ValidateInput,
         CheckScripts, CheckCapacity, Insert, AcceptCallback, UpdateIndexes, UpdateAddStats,
         NextParent, NextCandidate, OrphanAccepted, OrphanDropped, AddReturns, Goto, Reject
    <3> QED BY <2>1, <3>1 DEF AddTyped
  <2>4. AddStep(a)
    BY <2>2, <2>3 DEF Start
  <2> QED BY <2>1, <2>4, ChecksNear, InsertNears, AddingNears, OrphansNear DEF AddStep
<1> QED BY <1>1, InvInit, InvNext, PTL DEF Spec, AddNears
=============================================================================
