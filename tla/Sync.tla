-------------------------------- MODULE Sync --------------------------------
(***************************************************************************)
(* The block download of the peer-to-peer layer: the maintenance goroutine *)
(* that follows the network's height and starts and stops sessions, and    *)
(* the batch goroutines, one per session, that fetch blocks in batches.    *)
(* They share atomic flags and a done channel; no lock covers a decision   *)
(* and the action it leads to, and a batch goroutine drives the state      *)
(* machine itself after every batch.  A step here is one decision or one   *)
(* effect on what they share.                                              *)
(*                                                                         *)
(* Chains are heights, and ProcessBlockBatch is one of its outcomes.  Left *)
(* out: which peer is asked and its health score, how failures are counted *)
(* per peer, the flags isInIBD and initialSync, the fork search's own      *)
(* position, and RequestSync, which nothing calls.                         *)
(***************************************************************************)
EXTENDS Integers, FiniteSets

CONSTANTS
  Slot,        \* batch goroutines that may live at once (a bound)
  Maint,       \* the goroutine of syncMaintenance
  Gap,         \* regularSyncThreshold, syncTriggerThreshold
  Ibd,         \* IBDThreshold
  MaxHeight,   \* bound on the network's height
  MaxFaults    \* bound on what goes wrong with peers and blocks

ASSUME SyncAssumption ==
  /\ {Gap, Ibd, MaxHeight} \subseteq Nat \ {0}
  /\ MaxFaults \in Nat
  /\ Gap <= Ibd
  /\ Maint \notin Slot

Heights == 0..MaxHeight
Thread == Slot \union {Maint}
States == {"SYNC_DECISION", "IBD", "REGULAR_SYNC", "SYNCED"}

VARIABLES
  net,       \* the height CalculateConsensusHeight finds ...
  avail,     \* ... when enough peers agree on one
  top,       \* the chain's height, blockchain.GetBestHeight
  best,      \* bestHeight, the syncer's copy of it
  state,     \* the state machine's state
  syncing,   \* a session is on
  target,    \* peerTipHeight, set when a session starts
  busy,      \* batchInProgress: announcements go to the batch
  th,        \* where each goroutine is
  faults     \* how much may still go wrong

vars == <<net, avail, top, best, state, syncing, target, busy, th, faults>>

env == <<net, avail>>
chain == <<top, best>>
session == <<syncing, target>>

(* pc and ret: where the goroutine is, and where it goes on when its call  *)
(* is over; want and again: updateConsensusState's decision; loose: its    *)
(* session was ended by another goroutine (history).                       *)
Off == [pc |-> "off", ret |-> "off", want |-> "SYNC_DECISION", again |-> FALSE, loose |-> FALSE]

(* OnBootstrapComplete: the peers are known, the state is evaluated once   *)
(* and maintenance starts.                                                 *)
Init ==
  /\ net \in Heights /\ avail \in BOOLEAN
  /\ top = 0 /\ best = 0
  /\ state = "SYNC_DECISION"
  /\ syncing = FALSE /\ target = 0
  /\ busy = FALSE
  /\ th = [t \in Thread |-> IF t = Maint THEN [Off EXCEPT !.pc = "eval"] ELSE Off]
  /\ faults = MaxFaults

Goto(t, pc) == th' = [th EXCEPT ![t].pc = pc]

(* t calls pc's code and goes on at ret.                                   *)
Call(t, pc, ret) == th' = [th EXCEPT ![t].pc = pc, ![t].ret = ret]

(* t's call is over.                                                       *)
Return(t) == [th EXCEPT ![t].pc = th[t].ret, ![t].ret = "off"]

(* Something goes wrong that did not have to.                              *)
Fault == faults > 0 /\ faults' = faults - 1

(* The sessions whose final Store(false) is still to come.                 *)
Working == { s \in Slot : th[s].pc # "off" }

MaxOf(a, b) == IF a >= b THEN a ELSE b

-----------------------------------------------------------------------------
(* updateConsensusState.                                                   *)

(* EvaluateSyncNeeded.                                                     *)
SyncNeeded(height, goal) ==
  IF goal - height < Gap THEN "SYNCED"
  ELSE IF goal - height >= Ibd THEN "IBD" ELSE "REGULAR_SYNC"

(* The consensus height or, in a batch, the session's target.              *)
Goal == IF busy THEN MaxOf(net, target) ELSE net

Decide(t, want, again) ==
  th' = [th EXCEPT ![t].pc = "move", ![t].want = want, ![t].again = again]

(* The height comes from the chain.  Without consensus nobody is synced.   *)
Evaluate(t) ==
  /\ th[t].pc = "eval"
  /\ IF avail THEN Decide(t, SyncNeeded(top, Goal), TRUE)
     ELSE IF state = "SYNCED" THEN Decide(t, "REGULAR_SYNC", FALSE)
     ELSE th' = Return(t)
  /\ UNCHANGED <<env, chain, state, session, busy, faults>>

(* After a call to ensureSyncAlignment: the other one, or the return.      *)
Aligned(r) ==
  IF r.again THEN [r EXCEPT !.pc = "align", !.again = FALSE]
  ELSE [r EXCEPT !.pc = r.ret, !.ret = "off"]

(* Transition; its callback, handleStateChange, aligns the session with    *)
(* the new state.  With a consensus updateConsensusState does so again,    *)
(* whether the state has changed or not.                                   *)
Transition(t) ==
  /\ th[t].pc = "move"
  /\ state' = th[t].want
  /\ LET r == [th[t] EXCEPT !.want = "SYNC_DECISION"]
     IN  th' = [th EXCEPT ![t] = IF state # th[t].want THEN [r EXCEPT !.pc = "align"] ELSE Aligned(r)]
  /\ UNCHANGED <<env, chain, session, busy, faults>>

(* ensureSyncAlignment reads the state before it acts.                     *)
Align(t) ==
  /\ th[t].pc = "align"
  /\ Goto(t, IF state = "SYNCED" THEN "stop" ELSE "start")
  /\ UNCHANGED <<env, chain, state, session, busy, faults>>

-----------------------------------------------------------------------------
(* startSync.                                                              *)

(* A peer is found and a goroutine starts in a free slot.  Its target is   *)
(* the height the peer claims, or the consensus when that is more.         *)
Launch(t) ==
  /\ th[t].pc = "start"
  /\ syncing' = TRUE
  /\ \E s \in Slot \ Working, h \in 0..net :
       /\ target' = IF avail THEN net ELSE h
       /\ th' = [th EXCEPT ![t] = Aligned(@), ![s] = [Off EXCEPT !.pc = "loop"]]
  /\ UNCHANGED <<env, chain, state, busy, faults>>

(* Bug: the flag is set without a look at it.                              *)
StartUnchecked(t) == Launch(t)

(* The swap from false to true succeeds.                                   *)
Start(t) == ~syncing /\ Launch(t)

(* Already syncing, or there is no peer; or, a bound, no slot.             *)
StartNot(t) ==
  /\ th[t].pc = "start"
  /\ th' = [th EXCEPT ![t] = Aligned(@)]
  /\ \/ (syncing \/ Working = Slot) /\ UNCHANGED faults
     \/ ~syncing /\ Fault
  /\ UNCHANGED <<env, chain, state, session, busy>>

-----------------------------------------------------------------------------
(* stopSync.                                                               *)

(* The flag is cleared under every other goroutine's session.              *)
Loosened == [t \in Thread |-> IF t \in Working THEN [th[t] EXCEPT !.loose = TRUE] ELSE th[t]]

Stop(t) ==
  /\ th[t].pc = "stop"
  /\ syncing' = FALSE
  /\ th' = IF syncing THEN [Loosened EXCEPT ![t].pc = "wait"]
           ELSE [th EXCEPT ![t] = Aligned(@)]
  /\ UNCHANGED <<env, chain, state, target, busy, faults>>

(* The session's goroutine has closed its channel, or sixty seconds have   *)
(* passed: stopSync goes on alike.  A goroutine that stops its own session *)
(* always waits that long, and one that is in a batch may take longer.     *)
Wait(t) ==
  /\ th[t].pc = "wait"
  /\ th' = [th EXCEPT ![t] = Aligned(@)]
  /\ UNCHANGED <<env, chain, state, session, busy, faults>>

-----------------------------------------------------------------------------
(* syncMaintenance.                                                        *)

(* A tick of ten seconds: maintainSync begins with updateConsensusState.   *)
Tick ==
  /\ th[Maint].pc = "off"
  /\ Call(Maint, "eval", "maintain")
  /\ UNCHANGED <<env, chain, state, session, busy, faults>>

(* Without consensus the target follows the session's peer, and a session  *)
(* is started for any peer that is ahead.                                  *)
Fallback ==
  /\ th[Maint].pc = "maintain"
  /\ ~avail
  /\ target' \in {target, MaxOf(target, net)}
  /\ IF net - top >= Gap /\ ~syncing THEN Call(Maint, "start", "tail") ELSE Goto(Maint, "tail")
  /\ UNCHANGED <<env, chain, state, syncing, busy, faults>>

Maintained ==
  /\ th[Maint].pc = "maintain"
  /\ avail
  /\ Goto(Maint, "tail")
  /\ UNCHANGED <<env, chain, state, session, busy, faults>>

(* No progress for two minutes: the session is stopped ...                 *)
Stall ==
  /\ th[Maint].pc = "maintain"
  /\ syncing /\ Fault
  /\ Call(Maint, "stop", "stalled")
  /\ UNCHANGED <<env, chain, state, session, busy>>

(* ... and another one starts.                                             *)
AfterStall ==
  /\ th[Maint].pc = "stalled"
  /\ Call(Maint, "start", "tail")
  /\ UNCHANGED <<env, chain, state, session, busy, faults>>

(* The end of the tick: a peer may be far enough ahead of bestHeight.      *)
Restart ==
  /\ th[Maint].pc = "tail"
  /\ IF ~syncing /\ net >= best + Gap THEN Call(Maint, "start", "off") ELSE Goto(Maint, "off")
  /\ UNCHANGED <<env, chain, state, session, busy, faults>>

-----------------------------------------------------------------------------
(* The batch goroutine.                                                    *)

(* Caught up, or stopped, or else the next batch begins.                   *)
Loop(s) ==
  /\ th[s].pc = "loop"
  /\ IF best >= target \/ ~syncing
     THEN Goto(s, "exit") /\ UNCHANGED busy
     ELSE Goto(s, "batch") /\ busy' = TRUE
  /\ UNCHANGED <<env, chain, state, session, faults>>

(* Bug: only the deferred call of a panic clears the flag.                 *)
ExitKeepsFlag(s) ==
  /\ th[s].pc = "exit"
  /\ th' = [th EXCEPT ![s] = Off]
  /\ UNCHANGED <<env, chain, state, session, busy, faults>>

(* The final Store(false), whoever has set the flag in the meantime.       *)
Exit(s) ==
  /\ th[s].pc = "exit"
  /\ syncing' = FALSE
  /\ th' = [Loosened EXCEPT ![s] = Off]
  /\ UNCHANGED <<env, chain, state, target, busy, faults>>

(* Bug: the goroutine of a panic leaves the flag behind.                   *)
PanicKeepsFlag(s) ==
  /\ th[s].pc = "batch"
  /\ Fault
  /\ busy' = FALSE
  /\ th' = [th EXCEPT ![s] = Off]
  /\ UNCHANGED <<env, chain, state, session>>

(* Bug: a panic leaves announcements to a batch that has ended.            *)
PanicKeepsBusy(s) ==
  /\ th[s].pc = "batch"
  /\ Fault
  /\ Goto(s, "exit")
  /\ UNCHANGED <<env, chain, state, session, busy>>

(* The deferred calls clear both flags.                                    *)
Panic(s) ==
  /\ th[s].pc = "batch"
  /\ Fault
  /\ busy' = FALSE
  /\ Goto(s, "exit")
  /\ UNCHANGED <<env, chain, state, session>>

(* processBatch's outcomes.  Blocks were connected, up to the network's    *)
(* height: the state machine is told before the batch ends.                *)
Connected(s) ==
  /\ th[s].pc = "batch"
  /\ \E h \in (top + 1)..net : top' = h /\ best' = h
  /\ Call(s, "eval", "success")
  /\ UNCHANGED <<env, state, session, busy, faults>>

(* No news: nothing listed, or all of it is known and the fork search goes *)
(* on; or the search ends, and the chain is rolled back to the fork point. *)
NoNews(s) ==
  /\ th[s].pc = "batch"
  /\ \/ top >= net /\ UNCHANGED <<chain, faults>>
     \/ top < net /\ Fault /\ UNCHANGED chain
     \/ Fault /\ \E h \in 0..(top - 1) : top' = h /\ best' = h
  /\ Goto(s, "success")
  /\ UNCHANGED <<env, state, session, busy>>

(* A send or a wait failed.                                                *)
NetworkError(s) ==
  /\ th[s].pc = "batch"
  /\ Fault
  /\ Call(s, "eval", "rotate")
  /\ UNCHANGED <<env, chain, state, session, busy>>

(* The batch is invalid, has a gap in its sequence or could not be         *)
(* recovered from; or the error is not a known one.                        *)
Invalid(s) ==
  /\ th[s].pc = "batch"
  /\ Fault
  /\ Goto(s, "blame") \/ Call(s, "eval", "blame")
  /\ UNCHANGED <<env, chain, state, session, busy>>

(* Checkpoint, parent or UTXO: TriggerRecovery, which does nothing in IBD. *)
Recover(s) ==
  /\ th[s].pc = "batch"
  /\ Fault
  /\ IF avail /\ net - top >= Ibd THEN UNCHANGED top ELSE top' \in 0..top
  /\ Goto(s, "recovered")
  /\ UNCHANGED <<env, best, state, session, busy>>

(* "sync restart needed after recovery": bestHeight follows, same peer.    *)
Recovered(s) ==
  /\ th[s].pc = "recovered"
  /\ best' = top
  /\ busy' = FALSE
  /\ Goto(s, "loop")
  /\ UNCHANGED <<env, top, state, session, faults>>

(* Bug: a fork at genesis is rolled back to one below it.                  *)
ForkSpendGenesis(s) ==
  /\ th[s].pc = "batch"
  /\ Fault
  /\ top' \in -1..(top - 1)
  /\ Goto(s, "blame")
  /\ UNCHANGED <<env, best, state, session, busy>>

(* ErrForkDuplicateSpend: the chain is rolled back, but the error's text   *)
(* is another one, and so bestHeight stays and a failure is counted.       *)
ForkSpend(s) ==
  /\ th[s].pc = "batch"
  /\ Fault
  /\ top' \in 0..(top - 1)
  /\ Goto(s, "blame")
  /\ UNCHANGED <<env, best, state, session, busy>>

(* What the loop does with the result.  A good batch: on, out after a      *)
(* short one, or on after RebuildPeerList.                                 *)
Success(s) ==
  /\ th[s].pc = "success"
  /\ busy' = FALSE
  /\ Goto(s, "loop") \/ Goto(s, "exit") \/ Call(s, "eval", "loop")
  /\ UNCHANGED <<env, chain, state, session, faults>>

(* GetNextSyncPeer; the session ends when there is none.                   *)
Rotate(s) ==
  /\ th[s].pc \in {"rotate", "blame"}
  /\ busy' = FALSE
  /\ \/ Goto(s, "loop") /\ UNCHANGED faults
     \/ Goto(s, "exit") /\ Fault
  /\ UNCHANGED <<env, chain, state, session>>

(* Three peers have failed at this height: tryReactiveIndexRecovery rolls  *)
(* the chain back as far as the index is wrong.                            *)
Reindex(s) ==
  /\ th[s].pc = "blame"
  /\ top' \in 0..top /\ best' = top'
  /\ busy' = FALSE
  /\ Goto(s, "loop")
  /\ UNCHANGED <<env, state, session, faults>>

-----------------------------------------------------------------------------
(* The network.                                                            *)

(* A block is announced.  Unless announcements go to a batch it is         *)
(* connected at once when its parent is our tip, and the session's own     *)
(* peer raises the target by it.                                           *)
Announce ==
  /\ net < MaxHeight
  /\ net' = net + 1
  /\ \/ UNCHANGED <<chain, target>>
     \/ /\ ~busy
        /\ IF top = net THEN top' = net + 1 /\ best' = net + 1 ELSE UNCHANGED chain
        /\ target' \in {target, MaxOf(target, top + 1)}
  /\ UNCHANGED <<avail, state, syncing, busy, th, faults>>

(* Peers come ...                                                          *)
Agree ==
  /\ ~avail
  /\ avail' = TRUE
  /\ UNCHANGED <<net, chain, state, session, busy, th, faults>>

(* ... and go.                                                             *)
Disagree ==
  /\ avail /\ Fault
  /\ avail' = FALSE
  /\ UNCHANGED <<net, chain, state, session, busy, th>>

StateMachine(t) ==
  \/ Evaluate(t) \/ Transition(t) \/ Align(t)
  \/ Start(t) \/ StartNot(t) \/ Stop(t) \/ Wait(t)

Maintenance ==
  \/ StateMachine(Maint)
  \/ Tick \/ Fallback \/ Stall \/ AfterStall \/ Maintained \/ Restart

Batch(s) ==
  \/ StateMachine(s)
  \/ Loop(s) \/ Exit(s) \/ Panic(s)
  \/ Connected(s) \/ NoNews(s) \/ NetworkError(s)
  \/ Invalid(s) \/ Recover(s) \/ Recovered(s) \/ ForkSpend(s)
  \/ Success(s) \/ Rotate(s) \/ Reindex(s)

Next ==
  \/ Maintenance
  \/ \E s \in Slot : Batch(s)
  \/ Announce \/ Agree \/ Disagree

(* s finds its session on and the chain behind.                            *)
Begin(s) == Loop(s) /\ busy'

(* Goroutines run, and peers come back to agree.  Two goroutines might     *)
(* clear the flag for each other over and over, always between a start and *)
(* the first batch; but starts are ten seconds apart and a goroutine looks *)
(* at the flag at once.                                                    *)
Spec ==
  /\ Init /\ [][Next]_vars
  /\ WF_vars(Maintenance)
  /\ \A s \in Slot : SF_vars(Begin(s))
  /\ \A s \in Slot : WF_vars(Batch(s))
  /\ WF_vars(Agree)

-----------------------------------------------------------------------------
CallPcs == {"eval", "move", "align", "start", "stop", "wait"}
InBatch == {"batch", "recovered", "success", "rotate", "blame"}
MaintPcs == {"off", "maintain", "stalled", "tail"}

(* The types.                                                              *)
TypeOK ==
  /\ net \in Heights /\ avail \in BOOLEAN
  /\ top \in Heights /\ best \in Heights /\ target \in Heights
  /\ state \in States
  /\ syncing \in BOOLEAN /\ busy \in BOOLEAN
  /\ th \in [Thread -> [pc : CallPcs \union InBatch \union MaintPcs \union {"loop", "exit"},
                        ret : InBatch \union MaintPcs \union {"loop"},
                        want : States, again : BOOLEAN, loose : BOOLEAN]]
  /\ faults \in 0..MaxFaults

(* A session that is on has someone to end it: a goroutine whose final     *)
(* store is still to come, and whose session nobody has ended already.     *)
(* Otherwise no session would ever start again.                            *)
SyncingIsWork == syncing => \E s \in Working : ~th[s].loose

(* Of the batch goroutines at work at most one has not lost its session to *)
(* a stop or to another's exit: two compete for the blocks that arrive     *)
(* only after a session was given up.                                      *)
OneSession == \A a, b \in Working : a # b => th[a].loose \/ th[b].loose

(* Announcements are kept from the normal path only while a batch is on,   *)
(* even when sessions overlap.                                             *)
BusyIsBatch == busy => \E s \in Slot : th[s].pc \in InBatch \/ th[s].ret \in InBatch

(* bestHeight, the syncer's copy of the height, is never behind the chain, *)
(* and neither it nor peerTipHeight, the session's target, is ahead of the *)
(* network, whichever goroutines write them.                               *)
HeightsInOrder == top <= best /\ best <= net /\ target <= net

(* How far a batch goroutine is from the end of its session: by the code   *)
(* that is in work or that is returned to, and by what is left of the call.*)
Frame(s) ==
  LET f == IF th[s].pc \in CallPcs THEN th[s].ret ELSE th[s].pc
  IN  CASE f \in InBatch \ {"batch"} -> 4
        [] f = "batch" -> IF best < target THEN 2 ELSE 5
        [] f = "loop" -> 3
        [] f = "exit" -> 1
        [] OTHER -> 0

InCall(s) ==
  (IF th[s].again THEN 3 ELSE 0) +
  (CASE th[s].pc = "eval" -> 9
     [] th[s].pc = "move" -> 4
     [] th[s].pc = "align" -> 3
     [] th[s].pc \in {"start", "stop"} -> 2
     [] th[s].pc = "wait" -> 1
     [] OTHER -> 0)

ToGo(s) == 13 * Frame(s) + InCall(s)

(* Why CatchesUp: a batch goroutine does not go round in circles.  Each of *)
(* its steps brings the session nearer to its end, connects blocks, or     *)
(* needs something to go wrong.                                            *)
BatchNears ==
  [][\A s \in Slot :
       th[s].pc # "off" /\ th'[s] # [th[s] EXCEPT !.loose = th'[s].loose] =>
         \/ ToGo(s)' < ToGo(s)
         \/ top' > top
         \/ faults' < faults]_vars

(* However often sessions were stopped, stalled or overtaken, or rolled    *)
(* back: a node that is behind catches up when no more goes wrong.  But    *)
(* ErrForkDuplicateSpend may leave bestHeight where another session has    *)
(* just brought the chain, and then every session ends at once until the   *)
(* network has grown past it.                                              *)
CatchesUp == []<>(net - top < Gap \/ best >= net)
=============================================================================
