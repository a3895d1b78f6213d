----------------------------- MODULE SyncProofs -----------------------------
(***************************************************************************)
(* What TLAPS proves of Sync, for any number of batch goroutines, any      *)
(* heights and any number of faults: the four invariants of the run, the   *)
(* order of the heights, and what a session's end needs but fairness.      *)
(*                                                                         *)
(* The argument: who clears the flag takes every session at work from its  *)
(* goroutine (Loosened), and a goroutine is launched only when the flag is *)
(* clear.  So while it is clear all of them have lost theirs, and while it *)
(* is set exactly one has not.  A batch goroutine always returns from the  *)
(* state machine to its batch (ReturnsOf), and whoever leaves a batch      *)
(* clears busy.                                                            *)
(***************************************************************************)
EXTENDS Sync, TLAPS

(* Only a call has somewhere to return to, and a batch goroutine's always  *)
(* has.                                                                    *)
ReturnsOf(t, r) ==
  /\ r.pc \notin CallPcs => r.ret = "off"
  /\ t \in Slot /\ r.pc \in CallPcs => r.ret # "off"

ThreadRecord ==
  [pc : CallPcs \union InBatch \union MaintPcs \union {"loop", "exit"},
   ret : InBatch \union MaintPcs \union {"loop"},
   want : States, again : BOOLEAN, loose : BOOLEAN]

WorkingOf(f) == { s \in Slot : f[s].pc # "off" }

(* The goroutines' part of the invariant, of a function and the flag: while*)
(* no session is on, every goroutine at work has lost its own, and so the  *)
(* next one is alone.                                                      *)
Sessions(f, on) ==
  /\ f \in [Thread -> ThreadRecord]
  /\ \A t \in Thread : ReturnsOf(t, f[t])
  /\ ~on => \A s \in WorkingOf(f) : f[s].loose
  /\ on => \E s \in WorkingOf(f) : ~f[s].loose
  /\ \A a, b \in WorkingOf(f) : a # b => f[a].loose \/ f[b].loose

InBatchOf(f, s) == f[s].pc \in InBatch \/ f[s].ret \in InBatch

LEMMA MaintIsThread == Maint \in Thread /\ Slot \subseteq Thread /\ Maint \notin Slot
BY SyncAssumption DEF Thread, SyncAssumption

(* One goroutine moves on, neither starting nor ending its life, and with  *)
(* the same claim to its session.                                          *)
LEMMA MoveKeepsSessions ==
  ASSUME NEW f, NEW on \in BOOLEAN, Sessions(f, on), NEW t \in Thread, NEW r \in ThreadRecord,
         r.loose = f[t].loose, t \in Slot => f[t].pc # "off" /\ r.pc # "off",
         ReturnsOf(t, r)
  PROVE  Sessions([f EXCEPT ![t] = r], on)
BY MaintIsThread DEF Sessions, WorkingOf

(* ... and, when it was in a batch, it still is.                           *)
LEMMA MoveKeepsBatch ==
  ASSUME NEW f, f \in [Thread -> ThreadRecord], NEW t \in Thread, NEW r \in ThreadRecord,
         t \in Slot /\ InBatchOf(f, t) => r.pc \in InBatch \/ r.ret \in InBatch,
         \E s \in Slot : InBatchOf(f, s)
  PROVE  \E s \in Slot : InBatchOf([f EXCEPT ![t] = r], s)
<1>1. PICK s \in Slot : InBatchOf(f, s)
  OBVIOUS
<1>2. InBatchOf([f EXCEPT ![t] = r], s)
  BY <1>1, MaintIsThread DEF InBatchOf
<1> QED BY <1>2

(* A session begins while none is on.                                      *)
LEMMA StartKeepsSessions ==
  ASSUME NEW f, Sessions(f, FALSE), NEW s \in Slot, f[s].pc = "off", NEW r \in ThreadRecord,
         r.pc = "loop", r.ret = "off", ~r.loose
  PROVE  Sessions([f EXCEPT ![s] = r], TRUE)
<1> DEFINE g == [f EXCEPT ![s] = r]
<1>1. g \in [Thread -> ThreadRecord] /\ g[s] = r /\ \A x \in Thread \ {s} : g[x] = f[x]
  BY MaintIsThread DEF Sessions
<1>2. s \in WorkingOf(g) /\ ~g[s].loose
  BY <1>1 DEF WorkingOf
<1>3. \A x \in WorkingOf(g) : x # s => g[x].loose
  BY <1>1, MaintIsThread DEF Sessions, WorkingOf
<1>4. \A t \in Thread : ReturnsOf(t, g[t])
  BY <1>1 DEF Sessions, ReturnsOf, CallPcs
<1> QED BY <1>1, <1>2, <1>3, <1>4 DEF Sessions

(* The flag is cleared under every goroutine at work.                      *)
LEMMA LooseKeepsSessions ==
  ASSUME NEW f, NEW on \in BOOLEAN, Sessions(f, on), NEW g, g \in [Thread -> ThreadRecord],
         \A x \in Thread : ReturnsOf(x, g[x]),
         \A x \in WorkingOf(g) : g[x].loose
  PROVE  Sessions(g, FALSE)
BY DEF Sessions

LEMMA LoosenedType ==
  ASSUME TypeOK
  PROVE  Loosened \in [Thread -> ThreadRecord]
BY DEF Loosened, TypeOK, ThreadRecord

LEMMA LoosenedStays ==
  ASSUME TypeOK, NEW x \in Thread
  PROVE  Loosened[x].pc = th[x].pc /\ Loosened[x].ret = th[x].ret
BY DEF Loosened, TypeOK, ThreadRecord

LEMMA LoosenedLoose ==
  ASSUME TypeOK, NEW x \in Thread, x \in Working
  PROVE  Loosened[x].loose = TRUE
BY DEF Loosened, TypeOK, ThreadRecord

LEMMA AlignedIs ==
  ASSUME NEW t, NEW r \in ThreadRecord, r.pc \in CallPcs, ReturnsOf(t, r)
  PROVE  /\ Aligned(r) \in ThreadRecord
         /\ Aligned(r).loose = r.loose
         /\ ReturnsOf(t, Aligned(r))
         /\ t \in Slot => Aligned(r).pc # "off"
         /\ r.ret \in InBatch => Aligned(r).pc \in InBatch \/ Aligned(r).ret \in InBatch
BY DEF Aligned, ReturnsOf, ThreadRecord, CallPcs, InBatch, MaintPcs

-----------------------------------------------------------------------------
(* The rest of the state; the chain is never ahead of the network.         *)
StateTypes ==
  /\ net \in Heights /\ avail \in BOOLEAN
  /\ top \in Heights /\ best \in Heights /\ target \in Heights
  /\ top <= net
  /\ state \in States
  /\ syncing \in BOOLEAN /\ busy \in BOOLEAN
  /\ faults \in 0..MaxFaults

IInv == StateTypes /\ Sessions(th, syncing) /\ (busy => \E s \in Slot : InBatchOf(th, s))

(* The invariant gives the four that the runs check.                       *)
LEMMA IInvGives == IInv => TypeOK /\ SyncingIsWork /\ OneSession /\ BusyIsBatch
BY DEF IInv, TypeOK, SyncingIsWork, OneSession, BusyIsBatch, StateTypes, Sessions,
       ThreadRecord, Working, WorkingOf, InBatchOf

(* One goroutine moves on, and the flags stay as they are or busy falls.   *)
Moves(t, r) ==
  /\ r \in ThreadRecord
  /\ r.loose = th[t].loose
  /\ t \in Slot => th[t].pc # "off" /\ r.pc # "off"
  /\ ReturnsOf(t, r)
  /\ t \in Slot /\ InBatchOf(th, t) => r.pc \in InBatch \/ r.ret \in InBatch \/ ~busy'
  /\ busy' => busy \/ (t \in Slot /\ (r.pc \in InBatch \/ r.ret \in InBatch))
  /\ syncing' = syncing
  /\ th' = [th EXCEPT ![t] = r]

LEMMA MovesKeeps ==
  ASSUME IInv, NEW t \in Thread, NEW r, Moves(t, r), StateTypes'
  PROVE  IInv'
<1>1. StateTypes /\ Sessions(th, syncing) /\ (busy => \E s \in Slot : InBatchOf(th, s))
  BY DEF IInv
<1>2. th' = [th EXCEPT ![t] = r] /\ r \in ThreadRecord /\ syncing' = syncing
  BY DEF Moves
<1>3. Sessions(th', syncing')
  <2>1. syncing \in BOOLEAN
    BY <1>1 DEF StateTypes
  <2>2. /\ r.loose = th[t].loose
        /\ t \in Slot => th[t].pc # "off" /\ r.pc # "off"
        /\ ReturnsOf(t, r)
    BY DEF Moves
  <2>3. Sessions([th EXCEPT ![t] = r], syncing)
    BY <1>1, <1>2, <2>1, <2>2, MoveKeepsSessions
  <2> QED BY <1>2, <2>3
<1>4. ASSUME busy' PROVE \E s \in Slot : InBatchOf(th', s)
  <2>1. CASE t \in Slot /\ (r.pc \in InBatch \/ r.ret \in InBatch)
    BY <2>1, <1>1, <1>2, MaintIsThread DEF InBatchOf, Sessions
  <2>2. CASE busy
    <3>1. \E s \in Slot : InBatchOf(th, s)
      BY <2>2, <1>1
    <3>2. t \in Slot /\ InBatchOf(th, t) => r.pc \in InBatch \/ r.ret \in InBatch
      BY <1>4 DEF Moves
    <3>3. th \in [Thread -> ThreadRecord]
      BY <1>1 DEF Sessions
    <3> QED BY <3>1, <3>2, <3>3, <1>2, MoveKeepsBatch
  <2> QED BY <2>1, <2>2, <1>4 DEF Moves
<1> QED BY <1>3, <1>4 DEF IInv

-----------------------------------------------------------------------------
(* One lemma per action.                                                   *)

LEMMA ThreadIs ==
  ASSUME IInv, NEW t \in Thread
  PROVE  /\ th \in [Thread -> ThreadRecord] /\ th[t] \in ThreadRecord
         /\ ReturnsOf(t, th[t])
         /\ StateTypes
BY DEF IInv, Sessions

LEMMA HeightFacts == /\ Heights = 0..MaxHeight /\ {MaxHeight, Gap, Ibd} \subseteq Nat /\ MaxFaults \in Nat
                     /\ \A h \in Heights : h \in Nat
BY SyncAssumption DEF SyncAssumption, Heights

LEMMA NeededIsState ==
  ASSUME NEW h, NEW g
  PROVE  SyncNeeded(h, g) \in States
BY DEF SyncNeeded, States

LEMMA FaultIs ==
  ASSUME StateTypes, Fault
  PROVE  faults' \in 0..MaxFaults
BY SyncAssumption DEF SyncAssumption, StateTypes, Fault

(* A rollback ends no higher than it began.                                *)
LEMMA LowerHeight ==
  ASSUME NEW h \in Heights, NEW g, g \in 0..h \/ g \in 0..(h - 1)
  PROVE  g \in Heights /\ g <= h
BY HeightFacts

LEMMA MaxOfHeights ==
  ASSUME NEW a \in Heights, NEW b \in Heights
  PROVE  MaxOf(a, b) \in Heights
BY DEF MaxOf

LEMMA EvaluateKeeps ==
  ASSUME IInv, NEW t \in Thread, Evaluate(t)
  PROVE  IInv'
<1>1. th \in [Thread -> ThreadRecord] /\ th[t] \in ThreadRecord /\ ReturnsOf(t, th[t]) /\ StateTypes
  BY ThreadIs, MaintIsThread
<1>2. StateTypes'
  BY <1>1 DEF StateTypes, Evaluate, env, chain, session, Decide, Return, States
<1>3. CASE avail
  <2> DEFINE r == [th[t] EXCEPT !.pc = "move", !.want = SyncNeeded(top, Goal), !.again = TRUE]
  <2>1. Moves(t, r)
    BY <1>1, <1>3, MaintIsThread, NeededIsState DEF Moves, Evaluate, env, chain, session,
       ReturnsOf, ThreadRecord, CallPcs, InBatch, InBatchOf, MaintPcs, Decide, Return, States
  <2> QED BY <1>2, <2>1, MovesKeeps, MaintIsThread
<1>4. CASE ~avail /\ state = "SYNCED"
  <2> DEFINE r == [th[t] EXCEPT !.pc = "move", !.want = "REGULAR_SYNC", !.again = FALSE]
  <2>1. Moves(t, r)
    BY <1>1, <1>4, MaintIsThread, NeededIsState DEF Moves, Evaluate, env, chain, session,
       ReturnsOf, ThreadRecord, CallPcs, InBatch, InBatchOf, MaintPcs, Decide, Return, States
  <2> QED BY <1>2, <2>1, MovesKeeps, MaintIsThread
<1>5. CASE ~avail /\ state # "SYNCED"
  <2> DEFINE r == [th[t] EXCEPT !.pc = th[t].ret, !.ret = "off"]
  <2>1. Moves(t, r)
    BY <1>1, <1>5, MaintIsThread, NeededIsState DEF Moves, Evaluate, env, chain, session,
       ReturnsOf, ThreadRecord, CallPcs, InBatch, InBatchOf, MaintPcs, Decide, Return, States
  <2> QED BY <1>2, <2>1, MovesKeeps, MaintIsThread
<1> QED BY <1>3, <1>4, <1>5 DEF Evaluate, Decide, Return, States

LEMMA TransitionKeeps ==
  ASSUME IInv, NEW t \in Thread, Transition(t)
  PROVE  IInv'
<1>1. th \in [Thread -> ThreadRecord] /\ th[t] \in ThreadRecord /\ ReturnsOf(t, th[t]) /\ StateTypes
  BY ThreadIs, MaintIsThread
<1>2. StateTypes'
  BY <1>1 DEF StateTypes, Transition, env, chain, session, States, ThreadRecord
<1>3. CASE state # th[t].want
  <2> DEFINE r == [th[t] EXCEPT !.want = "SYNC_DECISION", !.pc = "align"]
  <2>1. Moves(t, r)
    BY <1>1, <1>3, MaintIsThread, AlignedIs DEF Moves, Transition, env, chain, session,
       ReturnsOf, ThreadRecord, CallPcs, InBatch, InBatchOf, MaintPcs, States
  <2> QED BY <1>2, <2>1, MovesKeeps, MaintIsThread
<1>4. CASE state = th[t].want
  <2> DEFINE r == Aligned([th[t] EXCEPT !.want = "SYNC_DECISION"])
  <2>1. Moves(t, r)
    BY <1>1, <1>4, MaintIsThread, AlignedIs DEF Moves, Transition, env, chain, session,
       ReturnsOf, ThreadRecord, CallPcs, InBatch, InBatchOf, MaintPcs, States
  <2> QED BY <1>2, <2>1, MovesKeeps, MaintIsThread
<1> QED BY <1>3, <1>4 DEF Transition, States

LEMMA AlignKeeps ==
  ASSUME IInv, NEW t \in Thread, Align(t)
  PROVE  IInv'
<1>1. th \in [Thread -> ThreadRecord] /\ th[t] \in ThreadRecord /\ ReturnsOf(t, th[t]) /\ StateTypes
  BY ThreadIs, MaintIsThread
<1>2. StateTypes'
  BY <1>1 DEF StateTypes, Align, env, chain, session, Goto
<1>3. CASE state = "SYNCED"
  <2> DEFINE r == [th[t] EXCEPT !.pc = "stop"]
  <2>1. Moves(t, r)
    BY <1>1, <1>3, MaintIsThread DEF Moves, Align, env, chain, session, ReturnsOf, ThreadRecord,
       CallPcs, InBatch, InBatchOf, MaintPcs, Goto
  <2> QED BY <1>2, <2>1, MovesKeeps, MaintIsThread
<1>4. CASE state # "SYNCED"
  <2> DEFINE r == [th[t] EXCEPT !.pc = "start"]
  <2>1. Moves(t, r)
    BY <1>1, <1>4, MaintIsThread DEF Moves, Align, env, chain, session, ReturnsOf, ThreadRecord,
       CallPcs, InBatch, InBatchOf, MaintPcs, Goto
  <2> QED BY <1>2, <2>1, MovesKeeps, MaintIsThread
<1> QED BY <1>3, <1>4 DEF Align, Goto

LEMMA StartNotKeeps ==
  ASSUME IInv, NEW t \in Thread, StartNot(t)
  PROVE  IInv'
<1>1. th \in [Thread -> ThreadRecord] /\ th[t] \in ThreadRecord /\ ReturnsOf(t, th[t]) /\ StateTypes
  BY ThreadIs, MaintIsThread
<1>2. StateTypes'
  BY <1>1, FaultIs DEF StateTypes, StartNot, env, chain, session
<1> DEFINE r == Aligned(th[t])
<1>3. Moves(t, r)
  BY <1>1, MaintIsThread, AlignedIs DEF Moves, StartNot, env, chain, session, ReturnsOf,
     ThreadRecord, CallPcs, InBatch, InBatchOf, MaintPcs, Fault
<1> QED BY <1>2, <1>3, MovesKeeps, MaintIsThread

LEMMA WaitKeeps ==
  ASSUME IInv, NEW t \in Thread, Wait(t)
  PROVE  IInv'
<1>1. th \in [Thread -> ThreadRecord] /\ th[t] \in ThreadRecord /\ ReturnsOf(t, th[t]) /\ StateTypes
  BY ThreadIs, MaintIsThread
<1>2. StateTypes'
  BY <1>1 DEF StateTypes, Wait, env, chain, session
<1> DEFINE r == Aligned(th[t])
<1>3. Moves(t, r)
  BY <1>1, MaintIsThread, AlignedIs DEF Moves, Wait, env, chain, session, ReturnsOf,
     ThreadRecord, CallPcs, InBatch, InBatchOf, MaintPcs
<1> QED BY <1>2, <1>3, MovesKeeps, MaintIsThread

LEMMA TickKeeps ==
  ASSUME IInv, Tick
  PROVE  IInv'
<1>1. th \in [Thread -> ThreadRecord] /\ th[Maint] \in ThreadRecord /\ ReturnsOf(Maint, th[Maint]) /\ StateTypes
  BY ThreadIs, MaintIsThread
<1>2. StateTypes'
  BY <1>1 DEF StateTypes, Tick, env, chain, session, Call
<1> DEFINE r == [th[Maint] EXCEPT !.pc = "eval", !.ret = "maintain"]
<1>3. Moves(Maint, r)
  BY <1>1, MaintIsThread DEF Moves, Tick, env, chain, session, ReturnsOf, ThreadRecord, CallPcs,
     InBatch, InBatchOf, MaintPcs, Call
<1> QED BY <1>2, <1>3, MovesKeeps, MaintIsThread

LEMMA FallbackKeeps ==
  ASSUME IInv, Fallback
  PROVE  IInv'
<1>1. th \in [Thread -> ThreadRecord] /\ th[Maint] \in ThreadRecord /\ ReturnsOf(Maint, th[Maint]) /\ StateTypes
  BY ThreadIs, MaintIsThread
<1>2. StateTypes'
  BY <1>1, MaxOfHeights DEF StateTypes, Fallback, env, chain, Call, Goto
<1>3. CASE net - top >= Gap /\ ~syncing
  <2> DEFINE r == [th[Maint] EXCEPT !.pc = "start", !.ret = "tail"]
  <2>1. Moves(Maint, r)
    BY <1>1, <1>3, MaintIsThread DEF Moves, Fallback, env, chain, ReturnsOf, ThreadRecord,
       CallPcs, InBatch, InBatchOf, MaintPcs, Call, Goto
  <2> QED BY <1>2, <2>1, MovesKeeps, MaintIsThread
<1>4. CASE ~(net - top >= Gap /\ ~syncing)
  <2> DEFINE r == [th[Maint] EXCEPT !.pc = "tail"]
  <2>1. Moves(Maint, r)
    BY <1>1, <1>4, MaintIsThread DEF Moves, Fallback, env, chain, ReturnsOf, ThreadRecord,
       CallPcs, InBatch, InBatchOf, MaintPcs, Call, Goto
  <2> QED BY <1>2, <2>1, MovesKeeps, MaintIsThread
<1> QED BY <1>3, <1>4 DEF Fallback, Call, Goto

LEMMA MaintainedKeeps ==
  ASSUME IInv, Maintained
  PROVE  IInv'
<1>1. th \in [Thread -> ThreadRecord] /\ th[Maint] \in ThreadRecord /\ ReturnsOf(Maint, th[Maint]) /\ StateTypes
  BY ThreadIs, MaintIsThread
<1>2. StateTypes'
  BY <1>1 DEF StateTypes, Maintained, env, chain, session, Goto
<1> DEFINE r == [th[Maint] EXCEPT !.pc = "tail"]
<1>3. Moves(Maint, r)
  BY <1>1, MaintIsThread DEF Moves, Maintained, env, chain, session, ReturnsOf, ThreadRecord,
     CallPcs, InBatch, InBatchOf, MaintPcs, Goto
<1> QED BY <1>2, <1>3, MovesKeeps, MaintIsThread

LEMMA StallKeeps ==
  ASSUME IInv, Stall
  PROVE  IInv'
<1>1. th \in [Thread -> ThreadRecord] /\ th[Maint] \in ThreadRecord /\ ReturnsOf(Maint, th[Maint]) /\ StateTypes
  BY ThreadIs, MaintIsThread
<1>2. StateTypes'
  BY <1>1, FaultIs DEF StateTypes, Stall, env, chain, session, Call
<1> DEFINE r == [th[Maint] EXCEPT !.pc = "stop", !.ret = "stalled"]
<1>3. Moves(Maint, r)
  BY <1>1, MaintIsThread DEF Moves, Stall, env, chain, session, ReturnsOf, ThreadRecord,
     CallPcs, InBatch, InBatchOf, MaintPcs, Call, Fault
<1> QED BY <1>2, <1>3, MovesKeeps, MaintIsThread

LEMMA AfterStallKeeps ==
  ASSUME IInv, AfterStall
  PROVE  IInv'
<1>1. th \in [Thread -> ThreadRecord] /\ th[Maint] \in ThreadRecord /\ ReturnsOf(Maint, th[Maint]) /\ StateTypes
  BY ThreadIs, MaintIsThread
<1>2. StateTypes'
  BY <1>1 DEF StateTypes, AfterStall, env, chain, session, Call
<1> DEFINE r == [th[Maint] EXCEPT !.pc = "start", !.ret = "tail"]
<1>3. Moves(Maint, r)
  BY <1>1, MaintIsThread DEF Moves, AfterStall, env, chain, session, ReturnsOf, ThreadRecord,
     CallPcs, InBatch, InBatchOf, MaintPcs, Call
<1> QED BY <1>2, <1>3, MovesKeeps, MaintIsThread

LEMMA RestartKeeps ==
  ASSUME IInv, Restart
  PROVE  IInv'
<1>1. th \in [Thread -> ThreadRecord] /\ th[Maint] \in ThreadRecord /\ ReturnsOf(Maint, th[Maint]) /\ StateTypes
  BY ThreadIs, MaintIsThread
<1>2. StateTypes'
  BY <1>1 DEF StateTypes, Restart, env, chain, session, Call, Goto
<1>3. CASE ~syncing /\ net >= best + Gap
  <2> DEFINE r == [th[Maint] EXCEPT !.pc = "start", !.ret = "off"]
  <2>1. Moves(Maint, r)
    BY <1>1, <1>3, MaintIsThread DEF Moves, Restart, env, chain, session, ReturnsOf,
       ThreadRecord, CallPcs, InBatch, InBatchOf, MaintPcs, Call, Goto
  <2> QED BY <1>2, <2>1, MovesKeeps, MaintIsThread
<1>4. CASE ~(~syncing /\ net >= best + Gap)
  <2> DEFINE r == [th[Maint] EXCEPT !.pc = "off"]
  <2>1. Moves(Maint, r)
    BY <1>1, <1>4, MaintIsThread DEF Moves, Restart, env, chain, session, ReturnsOf,
       ThreadRecord, CallPcs, InBatch, InBatchOf, MaintPcs, Call, Goto
  <2> QED BY <1>2, <2>1, MovesKeeps, MaintIsThread
<1> QED BY <1>3, <1>4 DEF Restart, Call, Goto

LEMMA LoopKeeps ==
  ASSUME IInv, NEW s \in Slot, Loop(s)
  PROVE  IInv'
<1>1. th \in [Thread -> ThreadRecord] /\ th[s] \in ThreadRecord /\ ReturnsOf(s, th[s]) /\ StateTypes
  BY ThreadIs, MaintIsThread
<1>2. StateTypes'
  BY <1>1 DEF StateTypes, Loop, env, chain, session, Goto
<1>3. CASE best >= target \/ ~syncing
  <2> DEFINE r == [th[s] EXCEPT !.pc = "exit"]
  <2>1. Moves(s, r)
    BY <1>1, <1>3, MaintIsThread DEF Moves, Loop, env, chain, session, ReturnsOf, ThreadRecord,
       CallPcs, InBatch, InBatchOf, MaintPcs, Goto
  <2> QED BY <1>2, <2>1, MovesKeeps, MaintIsThread
<1>4. CASE ~(best >= target \/ ~syncing)
  <2> DEFINE r == [th[s] EXCEPT !.pc = "batch"]
  <2>1. Moves(s, r)
    BY <1>1, <1>4, MaintIsThread DEF Moves, Loop, env, chain, session, ReturnsOf, ThreadRecord,
       CallPcs, InBatch, InBatchOf, MaintPcs, Goto
  <2> QED BY <1>2, <2>1, MovesKeeps, MaintIsThread
<1> QED BY <1>3, <1>4 DEF Loop, Goto

LEMMA PanicKeeps ==
  ASSUME IInv, NEW s \in Slot, Panic(s)
  PROVE  IInv'
<1>1. th \in [Thread -> ThreadRecord] /\ th[s] \in ThreadRecord /\ ReturnsOf(s, th[s]) /\ StateTypes
  BY ThreadIs, MaintIsThread
<1>2. StateTypes'
  BY <1>1, FaultIs DEF StateTypes, Panic, env, chain, session, Goto
<1> DEFINE r == [th[s] EXCEPT !.pc = "exit"]
<1>3. Moves(s, r)
  BY <1>1, MaintIsThread DEF Moves, Panic, env, chain, session, ReturnsOf, ThreadRecord,
     CallPcs, InBatch, InBatchOf, MaintPcs, Goto, Fault
<1> QED BY <1>2, <1>3, MovesKeeps, MaintIsThread

LEMMA ConnectedKeeps ==
  ASSUME IInv, NEW s \in Slot, Connected(s)
  PROVE  IInv'
<1>1. th \in [Thread -> ThreadRecord] /\ th[s] \in ThreadRecord /\ ReturnsOf(s, th[s]) /\ StateTypes
  BY ThreadIs, MaintIsThread
<1>2. StateTypes'
  BY <1>1, HeightFacts DEF StateTypes, Connected, env, session, Call
<1> DEFINE r == [th[s] EXCEPT !.pc = "eval", !.ret = "success"]
<1>3. Moves(s, r)
  BY <1>1, MaintIsThread DEF Moves, Connected, env, session, ReturnsOf, ThreadRecord, CallPcs,
     InBatch, InBatchOf, MaintPcs, Call
<1> QED BY <1>2, <1>3, MovesKeeps, MaintIsThread

LEMMA NoNewsKeeps ==
  ASSUME IInv, NEW s \in Slot, NoNews(s)
  PROVE  IInv'
<1>1. th \in [Thread -> ThreadRecord] /\ th[s] \in ThreadRecord /\ ReturnsOf(s, th[s]) /\ StateTypes
  BY ThreadIs, MaintIsThread
<1>2. StateTypes'
  BY <1>1, FaultIs, LowerHeight, HeightFacts DEF StateTypes, NoNews, env, chain, session, Goto
<1> DEFINE r == [th[s] EXCEPT !.pc = "success"]
<1>3. Moves(s, r)
  BY <1>1, MaintIsThread DEF Moves, NoNews, env, chain, session, ReturnsOf, ThreadRecord,
     CallPcs, InBatch, InBatchOf, MaintPcs, Goto, Fault
<1> QED BY <1>2, <1>3, MovesKeeps, MaintIsThread

LEMMA NetworkErrorKeeps ==
  ASSUME IInv, NEW s \in Slot, NetworkError(s)
  PROVE  IInv'
<1>1. th \in [Thread -> ThreadRecord] /\ th[s] \in ThreadRecord /\ ReturnsOf(s, th[s]) /\ StateTypes
  BY ThreadIs, MaintIsThread
<1>2. StateTypes'
  BY <1>1, FaultIs DEF StateTypes, NetworkError, env, chain, session, Call
<1> DEFINE r == [th[s] EXCEPT !.pc = "eval", !.ret = "rotate"]
<1>3. Moves(s, r)
  BY <1>1, MaintIsThread DEF Moves, NetworkError, env, chain, session, ReturnsOf, ThreadRecord,
     CallPcs, InBatch, InBatchOf, MaintPcs, Call, Fault
<1> QED BY <1>2, <1>3, MovesKeeps, MaintIsThread

LEMMA InvalidKeeps ==
  ASSUME IInv, NEW s \in Slot, Invalid(s)
  PROVE  IInv'
<1>1. th \in [Thread -> ThreadRecord] /\ th[s] \in ThreadRecord /\ ReturnsOf(s, th[s]) /\ StateTypes
  BY ThreadIs, MaintIsThread
<1>2. StateTypes'
  BY <1>1, FaultIs DEF StateTypes, Invalid, env, chain, session, Call, Goto
<1>3. CASE Goto(s, "blame")
  <2> DEFINE r == [th[s] EXCEPT !.pc = "blame"]
  <2>1. Moves(s, r)
    BY <1>1, <1>3, MaintIsThread DEF Moves, Invalid, env, chain, session, ReturnsOf,
       ThreadRecord, CallPcs, InBatch, InBatchOf, MaintPcs, Call, Goto, Fault
  <2> QED BY <1>2, <2>1, MovesKeeps, MaintIsThread
<1>4. CASE Call(s, "eval", "blame")
  <2> DEFINE r == [th[s] EXCEPT !.pc = "eval", !.ret = "blame"]
  <2>1. Moves(s, r)
    BY <1>1, <1>4, MaintIsThread DEF Moves, Invalid, env, chain, session, ReturnsOf,
       ThreadRecord, CallPcs, InBatch, InBatchOf, MaintPcs, Call, Goto, Fault
  <2> QED BY <1>2, <2>1, MovesKeeps, MaintIsThread
<1> QED BY <1>3, <1>4 DEF Invalid, Call, Goto, Fault

LEMMA RecoverKeeps ==
  ASSUME IInv, NEW s \in Slot, Recover(s)
  PROVE  IInv'
<1>1. th \in [Thread -> ThreadRecord] /\ th[s] \in ThreadRecord /\ ReturnsOf(s, th[s]) /\ StateTypes
  BY ThreadIs, MaintIsThread
<1>2. StateTypes'
  BY <1>1, FaultIs, LowerHeight, HeightFacts DEF StateTypes, Recover, env, session, Goto
<1> DEFINE r == [th[s] EXCEPT !.pc = "recovered"]
<1>3. Moves(s, r)
  BY <1>1, MaintIsThread DEF Moves, Recover, env, session, ReturnsOf, ThreadRecord, CallPcs,
     InBatch, InBatchOf, MaintPcs, Goto, Fault
<1> QED BY <1>2, <1>3, MovesKeeps, MaintIsThread

LEMMA RecoveredKeeps ==
  ASSUME IInv, NEW s \in Slot, Recovered(s)
  PROVE  IInv'
<1>1. th \in [Thread -> ThreadRecord] /\ th[s] \in ThreadRecord /\ ReturnsOf(s, th[s]) /\ StateTypes
  BY ThreadIs, MaintIsThread
<1>2. StateTypes'
  BY <1>1 DEF StateTypes, Recovered, env, session, Goto
<1> DEFINE r == [th[s] EXCEPT !.pc = "loop"]
<1>3. Moves(s, r)
  BY <1>1, MaintIsThread DEF Moves, Recovered, env, session, ReturnsOf, ThreadRecord, CallPcs,
     InBatch, InBatchOf, MaintPcs, Goto
<1> QED BY <1>2, <1>3, MovesKeeps, MaintIsThread

LEMMA ForkSpendKeeps ==
  ASSUME IInv, NEW s \in Slot, ForkSpend(s)
  PROVE  IInv'
<1>1. th \in [Thread -> ThreadRecord] /\ th[s] \in ThreadRecord /\ ReturnsOf(s, th[s]) /\ StateTypes
  BY ThreadIs, MaintIsThread
<1>2. StateTypes'
  BY <1>1, FaultIs, LowerHeight, HeightFacts DEF StateTypes, ForkSpend, env, session, Goto
<1> DEFINE r == [th[s] EXCEPT !.pc = "blame"]
<1>3. Moves(s, r)
  BY <1>1, MaintIsThread DEF Moves, ForkSpend, env, session, ReturnsOf, ThreadRecord, CallPcs,
     InBatch, InBatchOf, MaintPcs, Goto, Fault
<1> QED BY <1>2, <1>3, MovesKeeps, MaintIsThread

LEMMA SuccessKeeps ==
  ASSUME IInv, NEW s \in Slot, Success(s)
  PROVE  IInv'
<1>1. th \in [Thread -> ThreadRecord] /\ th[s] \in ThreadRecord /\ ReturnsOf(s, th[s]) /\ StateTypes
  BY ThreadIs, MaintIsThread
<1>2. StateTypes'
  BY <1>1 DEF StateTypes, Success, env, chain, session, Goto, Call
<1>3. CASE Goto(s, "loop")
  <2> DEFINE r == [th[s] EXCEPT !.pc = "loop"]
  <2>1. Moves(s, r)
    BY <1>1, <1>3, MaintIsThread DEF Moves, Success, env, chain, session, ReturnsOf,
       ThreadRecord, CallPcs, InBatch, InBatchOf, MaintPcs, Goto, Call
  <2> QED BY <1>2, <2>1, MovesKeeps, MaintIsThread
<1>4. CASE Goto(s, "exit")
  <2> DEFINE r == [th[s] EXCEPT !.pc = "exit"]
  <2>1. Moves(s, r)
    BY <1>1, <1>4, MaintIsThread DEF Moves, Success, env, chain, session, ReturnsOf,
       ThreadRecord, CallPcs, InBatch, InBatchOf, MaintPcs, Goto, Call
  <2> QED BY <1>2, <2>1, MovesKeeps, MaintIsThread
<1>5. CASE Call(s, "eval", "loop")
  <2> DEFINE r == [th[s] EXCEPT !.pc = "eval", !.ret = "loop"]
  <2>1. Moves(s, r)
    BY <1>1, <1>5, MaintIsThread DEF Moves, Success, env, chain, session, ReturnsOf,
       ThreadRecord, CallPcs, InBatch, InBatchOf, MaintPcs, Goto, Call
  <2> QED BY <1>2, <2>1, MovesKeeps, MaintIsThread
<1> QED BY <1>3, <1>4, <1>5 DEF Success, Goto, Call

LEMMA RotateKeeps ==
  ASSUME IInv, NEW s \in Slot, Rotate(s)
  PROVE  IInv'
<1>1. th \in [Thread -> ThreadRecord] /\ th[s] \in ThreadRecord /\ ReturnsOf(s, th[s]) /\ StateTypes
  BY ThreadIs, MaintIsThread
<1>2. StateTypes'
  BY <1>1, FaultIs DEF StateTypes, Rotate, env, chain, session, Goto
<1>3. CASE Goto(s, "loop")
  <2> DEFINE r == [th[s] EXCEPT !.pc = "loop"]
  <2>1. Moves(s, r)
    BY <1>1, <1>3, MaintIsThread DEF Moves, Rotate, env, chain, session, ReturnsOf,
       ThreadRecord, CallPcs, InBatch, InBatchOf, MaintPcs, Goto, Fault
  <2> QED BY <1>2, <2>1, MovesKeeps, MaintIsThread
<1>4. CASE Goto(s, "exit")
  <2> DEFINE r == [th[s] EXCEPT !.pc = "exit"]
  <2>1. Moves(s, r)
    BY <1>1, <1>4, MaintIsThread DEF Moves, Rotate, env, chain, session, ReturnsOf,
       ThreadRecord, CallPcs, InBatch, InBatchOf, MaintPcs, Goto, Fault
  <2> QED BY <1>2, <2>1, MovesKeeps, MaintIsThread
<1> QED BY <1>3, <1>4 DEF Rotate, Goto, Fault

LEMMA ReindexKeeps ==
  ASSUME IInv, NEW s \in Slot, Reindex(s)
  PROVE  IInv'
<1>1. th \in [Thread -> ThreadRecord] /\ th[s] \in ThreadRecord /\ ReturnsOf(s, th[s]) /\ StateTypes
  BY ThreadIs, MaintIsThread
<1>2. StateTypes'
  <2>1. top' \in Heights /\ top' <= top /\ best' = top'
    BY <1>1, LowerHeight DEF StateTypes, Reindex
  <2>2. faults' \in 0..MaxFaults
    BY <1>1 DEF Reindex, StateTypes
  <2>3. UNCHANGED <<net, avail, state, syncing, target>> /\ busy' = FALSE
    BY DEF Reindex, env, session
  <2>4. net \in Nat /\ top \in Nat /\ top' \in Nat /\ top <= net
    BY <1>1, <2>1, HeightFacts DEF StateTypes
  <2>5. top' <= net'
    BY <2>1, <2>3, <2>4
  <2> QED BY <1>1, <2>1, <2>2, <2>3, <2>5 DEF StateTypes
<1> DEFINE r == [th[s] EXCEPT !.pc = "loop"]
<1>3. Moves(s, r)
  BY <1>1, MaintIsThread DEF Moves, Reindex, env, session, ReturnsOf, ThreadRecord, CallPcs,
     InBatch, InBatchOf, MaintPcs, Goto
<1> QED BY <1>2, <1>3, MovesKeeps, MaintIsThread

(* The three that start and end sessions.                                  *)
LEMMA StartKeeps ==
  ASSUME IInv, NEW t \in Thread, Start(t)
  PROVE  IInv'
<1>1. th \in [Thread -> ThreadRecord] /\ th[t] \in ThreadRecord /\ ReturnsOf(t, th[t]) /\ StateTypes
  BY ThreadIs
<1>2. PICK s \in Slot \ Working :
        /\ target' \in {net} \union 0..net
        /\ th' = [th EXCEPT ![t] = Aligned(@), ![s] = [Off EXCEPT !.pc = "loop"]]
  BY DEF Start, Launch
<1>3. ~syncing /\ syncing' = TRUE /\ th[t].pc = "start" /\ UNCHANGED <<net, avail, top, best, state, busy, faults>>
  BY DEF Start, Launch, env, chain
<1>4. StateTypes'
  <2>1. target' \in Heights
    BY <1>1, <1>2, HeightFacts DEF StateTypes
  <2> QED BY <1>1, <1>3, <2>1 DEF StateTypes
<1> DEFINE r == Aligned(th[t])
           g == [th EXCEPT ![t] = r]
           n == [Off EXCEPT !.pc = "loop"]
<1>5. s \in Thread /\ th[s].pc = "off" /\ t # s
  BY <1>3, MaintIsThread DEF Working
<1>6. /\ r \in ThreadRecord /\ r.loose = th[t].loose /\ ReturnsOf(t, r)
      /\ t \in Slot => th[t].pc # "off" /\ r.pc # "off"
      /\ t \in Slot /\ InBatchOf(th, t) => r.pc \in InBatch \/ r.ret \in InBatch
  BY <1>1, <1>3, AlignedIs DEF CallPcs, InBatchOf, InBatch
<1>7. Sessions(g, FALSE) /\ g[s].pc = "off" /\ th' = [g EXCEPT ![s] = n]
  <2>1. Sessions(th, FALSE)
    BY <1>3, <1>1 DEF IInv, StateTypes
  <2>2. Sessions(g, FALSE)
    BY <2>1, <1>6, MoveKeepsSessions
  <2> QED BY <2>2, <1>1, <1>2, <1>5
<1>8. n \in ThreadRecord /\ n.pc = "loop" /\ n.ret = "off" /\ ~n.loose
  BY DEF Off, ThreadRecord, States, MaintPcs
<1>9. Sessions(th', syncing')
  BY <1>3, <1>7, <1>8, StartKeepsSessions
<1>10. ASSUME busy' PROVE \E x \in Slot : InBatchOf(th', x)
  <2>1. \E x \in Slot : InBatchOf(th, x)
    BY <1>10, <1>3 DEF IInv
  <2>2. PICK x \in Slot : InBatchOf(g, x)
    BY <2>1, <1>1, <1>6, MoveKeepsBatch
  <2>3. x # s
    BY <2>2, <1>7, <1>5, <1>1 DEF InBatchOf, InBatch, Sessions, ReturnsOf, CallPcs
  <2>4. InBatchOf(th', x)
    BY <2>2, <2>3, <1>7, <1>5, MaintIsThread DEF InBatchOf, Sessions
  <2> QED BY <2>4
<1> QED BY <1>4, <1>9, <1>10 DEF IInv

(* Both leave only goroutines that have lost their session.                *)
LEMMA ClearKeeps ==
  ASSUME IInv, NEW t \in Thread, NEW r \in ThreadRecord, ReturnsOf(t, r), StateTypes',
         ~syncing', th' = [Loosened EXCEPT ![t] = r], UNCHANGED busy,
         t \in Slot => r.pc = "off" \/ r.loose,
         t \in Slot /\ InBatchOf(th, t) => r.pc \in InBatch \/ r.ret \in InBatch
  PROVE  IInv'
<1>1. TypeOK /\ StateTypes /\ Sessions(th, syncing)
  BY IInvGives DEF IInv
<1>0. Loosened \in [Thread -> ThreadRecord]
  BY <1>1, LoosenedType
<1>2. /\ th' \in [Thread -> ThreadRecord] /\ th'[t] = r
      /\ \A x \in Thread \ {t} : th'[x] = Loosened[x]
  BY <1>0
<1>3. \A x \in Thread : x # t => th'[x].pc = th[x].pc /\ th'[x].ret = th[x].ret
  <2>1. \A x \in Thread : Loosened[x].pc = th[x].pc /\ Loosened[x].ret = th[x].ret
    BY <1>1, LoosenedStays
  <2> QED BY <2>1, <1>2
<1>a. \A x \in Thread : x # t /\ x \in Working => th'[x].loose = TRUE
  <2>1. \A x \in Thread : x \in Working => Loosened[x].loose = TRUE
    BY <1>1, LoosenedLoose
  <2> QED BY <2>1, <1>2
<1>4. ASSUME NEW x \in Thread PROVE ReturnsOf(x, th'[x])
  <2>1. CASE x = t
    BY <2>1, <1>2
  <2>2. CASE x # t
    BY <2>2, <1>1, <1>3 DEF Sessions, ReturnsOf
  <2> QED BY <2>1, <2>2
<1>5. ASSUME NEW x \in Slot, th'[x].pc # "off" PROVE th'[x].loose
  <2>1. CASE x = t
    BY <2>1, <1>5, <1>2
  <2>2. CASE x # t
    <3>1. th[x].pc # "off"
      BY <2>2, <1>3, <1>5, MaintIsThread
    <3> QED BY <2>2, <3>1, <1>a, MaintIsThread DEF Working
  <2> QED BY <2>1, <2>2
<1>6. Sessions(th', syncing')
  <2>1. Sessions(th', FALSE)
    <3>1. \A x \in WorkingOf(th') : th'[x].loose
      BY <1>5 DEF WorkingOf
    <3> QED BY <1>1, <1>2, <1>4, <3>1, LooseKeepsSessions DEF StateTypes
  <2> QED BY <2>1 DEF Sessions
<1>7. ASSUME busy' PROVE \E x \in Slot : InBatchOf(th', x)
  <2>1. PICK x \in Slot : InBatchOf(th, x)
    BY <1>7 DEF IInv
  <2>2. InBatchOf(th', x)
    <3>1. CASE x = t
      BY <3>1, <2>1, <1>2 DEF InBatchOf
    <3>2. CASE x # t
      BY <3>2, <2>1, <1>3, MaintIsThread DEF InBatchOf
    <3> QED BY <3>1, <3>2
  <2> QED BY <2>2
<1> QED BY <1>6, <1>7 DEF IInv

LEMMA StopKeeps ==
  ASSUME IInv, NEW t \in Thread, Stop(t)
  PROVE  IInv'
<1>1. th \in [Thread -> ThreadRecord] /\ th[t] \in ThreadRecord /\ ReturnsOf(t, th[t]) /\ StateTypes
  BY ThreadIs
<1>2. StateTypes'
  BY <1>1 DEF StateTypes, Stop, env, chain
<1>3. CASE syncing
  <2> DEFINE r == [Loosened[t] EXCEPT !.pc = "wait"]
  <2>0. TypeOK
    BY IInvGives
  <2>1. /\ Loosened[t] \in ThreadRecord
        /\ Loosened[t].pc = th[t].pc /\ Loosened[t].ret = th[t].ret
    BY <2>0, LoosenedType, LoosenedStays
  <2>2. t \in Slot => Loosened[t].loose = TRUE
    BY <2>0, LoosenedLoose DEF Stop, Working
  <2>3. r \in ThreadRecord /\ ReturnsOf(t, r)
    BY <1>1, <2>1 DEF Stop, ReturnsOf, ThreadRecord, CallPcs
  <2>4. t \in Slot /\ InBatchOf(th, t) => r.ret \in InBatch
    BY <1>1, <2>1 DEF Stop, InBatchOf, InBatch, ThreadRecord
  <2>5. t \in Slot => r.loose
    BY <2>1, <2>2 DEF ThreadRecord
  <2>6. th' = [Loosened EXCEPT ![t] = r] /\ ~syncing' /\ UNCHANGED busy
    BY <1>3 DEF Stop
  <2> QED BY <1>2, <2>3, <2>4, <2>5, <2>6, ClearKeeps
<1>4. CASE ~syncing
  <2> DEFINE r == Aligned(th[t])
  <2>1. Moves(t, r)
    BY <1>1, <1>4, AlignedIs DEF Moves, Stop, InBatchOf, CallPcs, InBatch, StateTypes
  <2> QED BY <1>2, <2>1, MovesKeeps
<1> QED BY <1>1, <1>3, <1>4 DEF StateTypes

LEMMA ExitKeeps ==
  ASSUME IInv, NEW s \in Slot, Exit(s)
  PROVE  IInv'
<1>1. th \in [Thread -> ThreadRecord] /\ th[s] \in ThreadRecord /\ ReturnsOf(s, th[s]) /\ StateTypes
  BY ThreadIs, MaintIsThread
<1>2. StateTypes'
  BY <1>1 DEF StateTypes, Exit, env, chain
<1>3. Off \in ThreadRecord /\ ReturnsOf(s, Off) /\ Off.pc = "off"
  BY DEF Off, ThreadRecord, ReturnsOf, CallPcs, InBatch, MaintPcs, States
<1>4. ~InBatchOf(th, s)
  BY <1>1 DEF Exit, InBatchOf, ReturnsOf, InBatch, CallPcs
<1>5. ~syncing' /\ th' = [Loosened EXCEPT ![s] = Off] /\ UNCHANGED busy
  BY DEF Exit
<1> QED BY <1>2, <1>3, <1>4, <1>5, ClearKeeps, MaintIsThread

LEMMA NetworkKeeps ==
  ASSUME IInv, Announce \/ Agree \/ Disagree
  PROVE  IInv'
<1>1. StateTypes
  BY DEF IInv
<1>2. StateTypes'
  <2>1. CASE Announce
    <3>1. net' = net + 1 /\ net + 1 \in Heights
      BY <1>1, <2>1, HeightFacts DEF Announce, StateTypes
    <3>2. top' \in Heights /\ best' \in Heights /\ top' <= net'
      BY <1>1, <2>1, <3>1, HeightFacts DEF Announce, StateTypes, chain
    <3>3. target' \in Heights
      <4>1. CASE target' = target
        BY <4>1, <1>1 DEF StateTypes
      <4>2. CASE target' = MaxOf(target, top + 1) /\ ~busy
        <5>1. top + 1 \in Heights
          BY <1>1, <2>1, <3>1, <4>2, HeightFacts DEF Announce, StateTypes
        <5> QED BY <4>2, <5>1, <1>1, MaxOfHeights DEF StateTypes
      <4> QED BY <2>1, <4>1, <4>2 DEF Announce
    <3> QED BY <1>1, <2>1, <3>1, <3>2, <3>3 DEF Announce, StateTypes
  <2>2. CASE Agree
    BY <1>1, <2>2 DEF Agree, StateTypes, chain, session
  <2>3. CASE Disagree
    BY <1>1, <2>3, FaultIs DEF Disagree, StateTypes, chain, session
  <2> QED BY <2>1, <2>2, <2>3
<1>3. UNCHANGED <<th, syncing, busy>>
  BY DEF Announce, Agree, Disagree, session
<1> QED BY <1>2, <1>3 DEF IInv, Sessions, InBatchOf, WorkingOf

LEMMA StutterKeeps ==
  ASSUME IInv, UNCHANGED vars
  PROVE  IInv'
BY DEF IInv, StateTypes, Sessions, InBatchOf, WorkingOf, vars

LEMMA InitHolds == Init => IInv
<1> SUFFICES ASSUME Init PROVE IInv
  OBVIOUS
<1>1. StateTypes
  <2>1. 0 \in Heights /\ MaxFaults \in 0..MaxFaults
    BY SyncAssumption DEF SyncAssumption, Heights
  <2>2. net \in Heights /\ 0 <= net
    BY HeightFacts DEF Init, Heights
  <2> QED BY <2>1, <2>2 DEF Init, StateTypes, States
<1>2. /\ th \in [Thread -> ThreadRecord]
      /\ \A t \in Thread : ReturnsOf(t, th[t])
      /\ \A s \in Slot : th[s].pc = "off"
  BY MaintIsThread DEF Init, Off, ThreadRecord, ReturnsOf, CallPcs, InBatch, MaintPcs, States
<1>3. Sessions(th, syncing)
  BY <1>2 DEF Sessions, WorkingOf, Init
<1> QED BY <1>1, <1>3 DEF IInv, Init

LEMMA StepHolds == IInv /\ [Next]_vars => IInv'
<1> SUFFICES ASSUME IInv, [Next]_vars PROVE IInv'
  OBVIOUS
<1>1. ASSUME NEW t \in Thread, StateMachine(t) PROVE IInv'
  BY <1>1, EvaluateKeeps, TransitionKeeps, AlignKeeps, StartKeeps, StartNotKeeps, StopKeeps, WaitKeeps
     DEF StateMachine
<1>2. CASE Maintenance
  BY <1>1, <1>2, MaintIsThread, TickKeeps, FallbackKeeps, StallKeeps, AfterStallKeeps, MaintainedKeeps,
     RestartKeeps
     DEF Maintenance
<1>3. ASSUME NEW s \in Slot, Batch(s) PROVE IInv'
  BY <1>1, <1>3, MaintIsThread, LoopKeeps, ExitKeeps, PanicKeeps, ConnectedKeeps, NoNewsKeeps,
     NetworkErrorKeeps, InvalidKeeps, RecoverKeeps, RecoveredKeeps, ForkSpendKeeps, SuccessKeeps,
     RotateKeeps, ReindexKeeps
     DEF Batch
<1>4. CASE Announce \/ Agree \/ Disagree
  BY <1>4, NetworkKeeps
<1>5. CASE UNCHANGED vars
  BY <1>5, StutterKeeps
<1> QED BY <1>2, <1>3, <1>4, <1>5 DEF Next

THEOREM Invariance == Spec => []IInv
BY InitHolds, StepHolds, PTL DEF Spec

-----------------------------------------------------------------------------
(* The types are kept, and every batch goroutine returns to where it came  *)
(* from.                                                                   *)
THEOREM TypesKept == Spec => []TypeOK
BY Invariance, IInvGives, PTL

(* Whoever stops, stalls, exits or panics, a session that is on has a      *)
(* goroutine that will end it: the flag is never left set for good.        *)
THEOREM SessionHasItsGoroutine == Spec => []SyncingIsWork
BY Invariance, IInvGives, PTL

(* Two goroutines fetch at once only when one was given up.                *)
THEOREM SessionsOneAtATime == Spec => []OneSession
BY Invariance, IInvGives, PTL

(* Announcements go to a batch only while there is one.                    *)
THEOREM RoutedToABatch == Spec => []BusyIsBatch
BY Invariance, IInvGives, PTL

-----------------------------------------------------------------------------
(* The heights.                                                            *)

LEMMA OrderInit == Init => HeightsInOrder
BY HeightFacts DEF Init, HeightsInOrder

LEMMA MaxOfIs ==
  ASSUME NEW a \in Int, NEW b \in Int
  PROVE  (MaxOf(a, b) = a \/ MaxOf(a, b) = b) /\ a <= MaxOf(a, b) /\ b <= MaxOf(a, b)
BY DEF MaxOf

LEMMA HeightsAreIntegers == StateTypes => {net, top, best, target} \subseteq Int
BY HeightFacts DEF StateTypes

(* No step of the state machine or of the ticker touches the chain, and    *)
(* the target becomes what the network has.                                *)
LEMMA OrderControl ==
  ASSUME IInv, HeightsInOrder, NEW t \in Thread,
         StateMachine(t) \/ (t = Maint /\ Maintenance)
  PROVE  HeightsInOrder'
<1>0. StateTypes /\ {net, top, best, target} \subseteq Int
  BY HeightsAreIntegers DEF IInv
<1>1. UNCHANGED <<net, top, best>>
  BY DEF StateMachine, Maintenance, Evaluate, Transition, Align, Start, Launch, StartNot, Stop, Wait,
         Tick, Fallback, Stall, AfterStall, Maintained, Restart, env, chain
<1>2. target' <= net
  <2>1. ASSUME NEW x \in Thread, Start(x) PROVE target' <= net
    <3>1. PICK h \in 0..net : target' = IF avail THEN net ELSE h
      BY <2>1 DEF Start, Launch
    <3> QED BY <1>0, <3>1
  <2>2. CASE Fallback
    BY <1>0, <2>2, MaxOfIs DEF Fallback, HeightsInOrder
  <2>3. CASE target' = target
    BY <2>3 DEF HeightsInOrder
  <2> QED BY <2>1, <2>2, <2>3, MaintIsThread
     DEF StateMachine, Maintenance, Evaluate, Transition, Align, StartNot, Stop, Wait,
         Tick, Stall, AfterStall, Maintained, Restart, session
<1> QED BY <1>1, <1>2 DEF HeightsInOrder

(* A batch raises both heights together, or lowers the chain's, and then   *)
(* the copy with it or not at all.                                         *)
LEMMA OrderBatch ==
  ASSUME IInv, HeightsInOrder, NEW s \in Slot, Batch(s)
  PROVE  HeightsInOrder'
<1>0. StateTypes /\ {net, top, best, target} \subseteq Int /\ top \in Nat
  BY HeightsAreIntegers, HeightFacts DEF IInv, StateTypes
<1>1. CASE StateMachine(s)
  BY <1>1, OrderControl, MaintIsThread
<1>2. CASE ~ StateMachine(s)
  <2>1. UNCHANGED <<net, target>>
    BY <1>2 DEF Batch, Loop, Exit, Panic, Connected, NoNews, NetworkError, Invalid, Recover, Recovered,
           ForkSpend, Success, Rotate, Reindex, env, session
  <2>2. \/ top' = top /\ (best' = best \/ best' = top)
        \/ top' <= top /\ top' \in Int /\ (best' = best \/ best' = top')
        \/ top' <= net /\ top' \in Int /\ best' = top'
    <3>1. CASE Connected(s)
      BY <1>0, <3>1 DEF Connected
    <3>2. CASE NoNews(s) \/ Recover(s) \/ ForkSpend(s) \/ Reindex(s)
      BY <1>0, <3>2 DEF NoNews, Recover, ForkSpend, Reindex, chain
    <3>3. CASE Recovered(s)
      BY <3>3 DEF Recovered
    <3> QED BY <1>2, <3>1, <3>2, <3>3
       DEF Batch, Loop, Exit, Panic, NetworkError, Invalid, Success, Rotate, chain
  <2> QED BY <1>0, <2>1, <2>2 DEF HeightsInOrder
<1> QED BY <1>1, <1>2

LEMMA OrderNetwork ==
  ASSUME IInv, HeightsInOrder, Announce \/ Agree \/ Disagree
  PROVE  HeightsInOrder'
<1>0. StateTypes /\ {net, top, best, target} \subseteq Int
  BY HeightsAreIntegers DEF IInv
<1>1. CASE Announce
  <2>1. net' = net + 1
    BY <1>1 DEF Announce
  <2>2. UNCHANGED <<top, best>> \/ (top' = net + 1 /\ best' = net + 1)
    BY <1>1 DEF Announce, chain
  <2>3. target' = target \/ target' = MaxOf(target, top + 1)
    BY <1>1 DEF Announce
  <2>4. target' <= net + 1
    BY <1>0, <2>3, MaxOfIs DEF HeightsInOrder
  <2> QED BY <1>0, <2>1, <2>2, <2>4 DEF HeightsInOrder
<1>2. CASE Agree \/ Disagree
  BY <1>2 DEF Agree, Disagree, HeightsInOrder, chain, session
<1> QED BY <1>1, <1>2

LEMMA OrderStep == IInv /\ HeightsInOrder /\ [Next]_vars => HeightsInOrder'
<1> SUFFICES ASSUME IInv, HeightsInOrder, [Next]_vars PROVE HeightsInOrder'
  OBVIOUS
<1>1. CASE UNCHANGED vars
  BY <1>1 DEF vars, HeightsInOrder
<1> QED BY <1>1, OrderControl, OrderBatch, OrderNetwork, MaintIsThread DEF Next

(* However sessions overlap and roll back, the syncer never believes to be *)
(* behind the chain, nor does it aim higher than the network.              *)
THEOREM HeightsStayInOrder == Spec => []HeightsInOrder
BY OrderInit, OrderStep, Invariance, PTL DEF Spec

-----------------------------------------------------------------------------
(* A session's way to its end.                                             *)

(* The same distance, of a record and of whether the chain is behind.      *)
FrameOf(r, behind) ==
  LET f == IF r.pc \in CallPcs THEN r.ret ELSE r.pc
  IN  CASE f \in InBatch \ {"batch"} -> 4
        [] f = "batch" -> IF behind THEN 2 ELSE 5
        [] f = "loop" -> 3
        [] f = "exit" -> 1
        [] OTHER -> 0

InCallOf(r) ==
  (IF r.again THEN 3 ELSE 0) +
  (CASE r.pc = "eval" -> 9
     [] r.pc = "move" -> 4
     [] r.pc = "align" -> 3
     [] r.pc \in {"start", "stop"} -> 2
     [] r.pc = "wait" -> 1
     [] OTHER -> 0)

LEMMA ToGoIs ==
  ASSUME NEW s
  PROVE  /\ ToGo(s) = 13 * FrameOf(th[s], best < target) + InCallOf(th[s])
         /\ ToGo(s)' = 13 * FrameOf(th'[s], best' < target') + InCallOf(th'[s])
BY DEF ToGo, Frame, InCall, FrameOf, InCallOf

LEMMA InCallBound == ASSUME NEW r PROVE InCallOf(r) \in 0..12
BY DEF InCallOf

LEMMA FrameBound == ASSUME NEW r, NEW b PROVE FrameOf(r, b) \in 0..5
BY DEF FrameOf

(* Whoever goes on in a lower frame is nearer, whatever it calls there.    *)
LEMMA LowerFrame ==
  ASSUME NEW r, NEW q, NEW a, NEW b, FrameOf(q, b) < FrameOf(r, a)
  PROVE  13 * FrameOf(q, b) + InCallOf(q) < 13 * FrameOf(r, a) + InCallOf(r)
<1>1. FrameOf(q, b) \in 0..5 /\ FrameOf(r, a) \in 0..5 /\ InCallOf(q) \in 0..12 /\ InCallOf(r) \in 0..12
  BY InCallBound, FrameBound
<1> QED BY <1>1

(* What returns to a batch goroutine is in the batch or in its loop, and   *)
(* never in the wait for a batch.                                          *)
ReturnsAfter == \A s \in Slot : th[s].ret # "batch"

Nears(s) == ToGo(s)' < ToGo(s) \/ top' > top \/ faults' < faults

(* A step of one goroutine leaves every other session's where it is, or    *)
(* ends its claim, or begins a session in a free slot.                     *)
LEMMA OthersStay ==
  ASSUME IInv, NEW t \in Thread, NEW s \in Slot, s # t,
         StateMachine(t) \/ (t = Maint /\ Maintenance) \/ (t \in Slot /\ Batch(t))
  PROVE  \/ th'[s] = [th[s] EXCEPT !.loose = th'[s].loose]
         \/ th[s].pc = "off" /\ th'[s].ret = "off"
<1>0. th \in [Thread -> ThreadRecord] /\ s \in Thread /\ th[s] \in ThreadRecord
  BY ThreadIs, MaintIsThread
<1>1. th[s] = [th[s] EXCEPT !.loose = th[s].loose]
  BY <1>0 DEF ThreadRecord
<1>2. Loosened[s] = [th[s] EXCEPT !.loose = Loosened[s].loose]
  BY <1>0 DEF Loosened, ThreadRecord
<1>3. ASSUME NEW x \in Thread, x # s, StateMachine(x)
      PROVE  \/ th'[s] = th[s] \/ th'[s] = Loosened[s]
             \/ th[s].pc = "off" /\ th'[s].ret = "off"
  <2>1. CASE Start(x)
    <3>1. PICK f \in Slot \ Working :
            th' = [th EXCEPT ![x] = Aligned(@), ![f] = [Off EXCEPT !.pc = "loop"]]
      BY <2>1 DEF Start, Launch
    <3>2. CASE f # s
      BY <1>0, <1>3, <3>1, <3>2
    <3>3. CASE f = s
      <4>1. th[s].pc = "off" /\ th'[s] = [Off EXCEPT !.pc = "loop"]
        BY <1>0, <3>1, <3>3 DEF Working
      <4> QED BY <4>1 DEF Off
    <3> QED BY <3>2, <3>3
  <2>2. CASE Stop(x)
    <3>1. th' = [Loosened EXCEPT ![x].pc = "wait"] \/ th' = [th EXCEPT ![x] = Aligned(@)]
      BY <2>2 DEF Stop
    <3>2. Loosened \in [Thread -> ThreadRecord]
      BY LoosenedType, IInvGives
    <3> QED BY <1>0, <1>3, <3>1, <3>2
  <2>3. CASE Evaluate(x) \/ Transition(x) \/ Align(x) \/ StartNot(x) \/ Wait(x)
    BY <1>0, <1>3, <2>3 DEF Evaluate, Transition, Align, StartNot, Wait, Decide, Return, Goto
  <2> QED BY <1>3, <2>1, <2>2, <2>3 DEF StateMachine
<1>4. CASE t = Maint /\ Maintenance
  <2>1. CASE StateMachine(t)
    BY <1>3, <2>1, <1>1, <1>2
  <2>2. CASE ~ StateMachine(t)
    <3>1. th'[s] = th[s]
      BY <1>0, <1>4, <2>2
         DEF Maintenance, Tick, Fallback, Stall, AfterStall, Maintained, Restart, Call, Goto
    <3> QED BY <1>1, <3>1
  <2> QED BY <2>1, <2>2
<1>5. CASE t \in Slot /\ Batch(t) /\ ~ StateMachine(t)
  <2>1. CASE Exit(t)
    <3>1. Loosened \in [Thread -> ThreadRecord] /\ th' = [Loosened EXCEPT ![t] = Off]
      BY <2>1, LoosenedType, IInvGives DEF Exit
    <3>2. th'[s] = Loosened[s]
      BY <1>0, <3>1
    <3> QED BY <1>2, <3>2
  <2>2. CASE ~ Exit(t)
    <3>1. th'[s] = th[s]
      BY <1>0, <1>5, <2>2
         DEF Batch, Loop, Panic, Connected, NoNews, NetworkError, Invalid, Recover, Recovered, ForkSpend,
             Success, Rotate, Reindex, Call, Goto
    <3> QED BY <1>1, <3>1
  <2> QED BY <2>1, <2>2
<1>6. CASE StateMachine(t)
  BY <1>1, <1>2, <1>3, <1>6
<1> QED BY <1>4, <1>5, <1>6

(* A goroutine's own step in the state machine: the frame stays, and less  *)
(* of the call is left, or the call returns.                               *)
LEMMA CallNears ==
  ASSUME IInv, ReturnsAfter, NEW s \in Slot, StateMachine(s)
  PROVE  ToGo(s)' < ToGo(s) /\ th'[s].ret # "batch"
<1>0. /\ th \in [Thread -> ThreadRecord] /\ s \in Thread /\ th[s] \in ThreadRecord
      /\ ReturnsOf(s, th[s]) /\ th[s].ret # "batch"
  BY ThreadIs, MaintIsThread DEF ReturnsAfter
<1>1. th[s].pc \in CallPcs /\ th[s].ret \in InBatch \union MaintPcs \union {"loop"}
  BY <1>0 DEF StateMachine, Evaluate, Transition, Align, Start, Launch, StartNot, Stop, Wait, CallPcs, ThreadRecord
<1> DEFINE Down(r) ==
      /\ \/ r.pc = th[s].ret /\ r.ret = "off"
         \/ r.pc \in CallPcs /\ r.ret = th[s].ret
      /\ InCallOf(r) < InCallOf(th[s])
<1>2. ASSUME NEW r \in ThreadRecord, r.pc = th[s].pc, r.ret = th[s].ret, r.again = th[s].again,
             th[s].pc \in {"start", "stop", "wait", "align", "move"}
      PROVE  Down(Aligned(r))
  <2>1. CASE r.again
    <3>1. Aligned(r) = [r EXCEPT !.pc = "align", !.again = FALSE]
      BY <2>1 DEF Aligned
    <3>2. Aligned(r).pc = "align" /\ Aligned(r).again = FALSE /\ Aligned(r).ret = r.ret
      BY <3>1 DEF ThreadRecord
    <3>3. InCallOf(Aligned(r)) = 3
      BY <3>2 DEF InCallOf
    <3>4. InCallOf(th[s]) > 3
      BY <1>2, <2>1 DEF InCallOf
    <3> QED BY <1>2, <3>2, <3>3, <3>4 DEF CallPcs
  <2>2. CASE ~ r.again
    <3>1. Aligned(r) = [r EXCEPT !.pc = r.ret, !.ret = "off"]
      BY <2>2 DEF Aligned
    <3>2. Aligned(r).pc = th[s].ret /\ Aligned(r).ret = "off" /\ Aligned(r).again = r.again
      BY <1>2, <3>1 DEF ThreadRecord
    <3>3. th[s].ret \notin CallPcs
      BY <1>1 DEF CallPcs, InBatch, MaintPcs
    <3>4. InCallOf(Aligned(r)) = 0
      BY <2>2, <3>2, <3>3 DEF InCallOf, CallPcs
    <3>5. InCallOf(th[s]) > 0
      BY <1>2 DEF InCallOf
    <3> QED BY <3>2, <3>4, <3>5
  <2> QED BY <2>1, <2>2
<1>3. Down(th'[s])
  <2>1. CASE Evaluate(s)
    <3>1. \/ th'[s].pc = "move" /\ th'[s].ret = th[s].ret
          \/ th'[s].pc = th[s].ret /\ th'[s].ret = "off"
      <4>1. ASSUME NEW w, NEW a, Decide(s, w, a) PROVE th'[s].pc = "move" /\ th'[s].ret = th[s].ret
        BY <1>0, <4>1 DEF Decide, ThreadRecord
      <4>2. ASSUME th' = Return(s) PROVE th'[s].pc = th[s].ret /\ th'[s].ret = "off"
        BY <1>0, <4>2 DEF Return, ThreadRecord
      <4>3. \/ Decide(s, SyncNeeded(top, Goal), TRUE)
            \/ Decide(s, "REGULAR_SYNC", FALSE)
            \/ th' = Return(s)
        BY <2>1, Zenon DEF Evaluate
      <4> QED BY <4>1, <4>2, <4>3
    <3>2. th[s].ret \notin CallPcs
      BY <1>1 DEF CallPcs, InBatch, MaintPcs
    <3>3. InCallOf(th[s]) >= 9
      BY <2>1 DEF Evaluate, InCallOf
    <3>4. InCallOf(th'[s]) <= 7 /\ InCallOf(th'[s]) \in Int /\ InCallOf(th[s]) \in Int
      <4>1. InCallOf(th'[s]) <= 7
        BY <3>1, <3>2 DEF InCallOf, CallPcs
      <4> QED BY <4>1, InCallBound
    <3>5. InCallOf(th'[s]) < InCallOf(th[s])
      BY <3>3, <3>4
    <3> QED BY <3>1, <3>5 DEF CallPcs
  <2>2. CASE Transition(s)
    <3> DEFINE r == [th[s] EXCEPT !.want = "SYNC_DECISION"]
    <3>1. r \in ThreadRecord /\ r.pc = th[s].pc /\ r.ret = th[s].ret /\ r.again = th[s].again /\ th[s].pc = "move"
      BY <1>0, <2>2 DEF Transition, ThreadRecord, States
    <3>2. th'[s] = [r EXCEPT !.pc = "align"] \/ th'[s] = Aligned(r)
      BY <1>0, <2>2 DEF Transition
    <3>3. CASE th'[s] = [r EXCEPT !.pc = "align"]
      <4>1. th'[s].pc = "align" /\ th'[s].ret = th[s].ret /\ th'[s].again = th[s].again
        BY <1>0, <3>3 DEF ThreadRecord
      <4> QED BY <3>1, <4>1 DEF InCallOf, CallPcs
    <3> QED BY <1>2, <3>1, <3>2, <3>3
  <2>3. CASE Align(s)
    <3>1. /\ th'[s].pc \in {"stop", "start"} /\ th'[s].ret = th[s].ret /\ th'[s].again = th[s].again
          /\ th[s].pc = "align"
      BY <1>0, <2>3 DEF Align, Goto, ThreadRecord
    <3> QED BY <3>1 DEF InCallOf, CallPcs
  <2>4. CASE Start(s)
    <3>1. PICK f \in Slot \ Working :
            th' = [th EXCEPT ![s] = Aligned(@), ![f] = [Off EXCEPT !.pc = "loop"]]
      BY <2>4 DEF Start, Launch
    <3>2. f # s /\ th[s].pc = "start"
      BY <2>4 DEF Working, Start, Launch
    <3>3. th'[s] = Aligned(th[s])
      BY <1>0, <3>1, <3>2
    <3> QED BY <1>0, <1>2, <3>2, <3>3
  <2>5. CASE StartNot(s) \/ Wait(s)
    <3>1. th'[s] = Aligned(th[s]) /\ th[s].pc \in {"start", "wait"}
      BY <1>0, <2>5 DEF StartNot, Wait
    <3> QED BY <1>0, <1>2, <3>1
  <2>6. CASE Stop(s)
    <3>0. th[s].pc = "stop"
      BY <2>6 DEF Stop
    <3>1. CASE th' = [th EXCEPT ![s] = Aligned(@)]
      BY <1>0, <1>2, <3>0, <3>1
    <3>2. CASE th' = [Loosened EXCEPT ![s].pc = "wait"]
      <4>1. Loosened \in [Thread -> ThreadRecord]
        BY LoosenedType, IInvGives
      <4>2. Loosened[s].ret = th[s].ret /\ Loosened[s].again = th[s].again
        BY <1>0 DEF Loosened, ThreadRecord
      <4>3. th'[s].pc = "wait" /\ th'[s].ret = th[s].ret /\ th'[s].again = th[s].again
        BY <1>0, <3>2, <4>1, <4>2 DEF ThreadRecord
      <4> QED BY <3>0, <4>3 DEF InCallOf, CallPcs
    <3> QED BY <2>6, <3>1, <3>2 DEF Stop
  <2> QED BY <2>1, <2>2, <2>3, <2>4, <2>5, <2>6 DEF StateMachine
<1>4. th[s].ret \notin CallPcs
  BY <1>1 DEF CallPcs, InBatch, MaintPcs
<1>5. FrameOf(th'[s], best' < target') = FrameOf(th[s], best < target)
  BY <1>0, <1>1, <1>3, <1>4 DEF FrameOf
<1>6. /\ InCallOf(th[s]) \in Int /\ InCallOf(th'[s]) \in Int
      /\ FrameOf(th[s], best < target) \in Int
  BY InCallBound, FrameBound
<1>7. th'[s].ret # "batch"
  BY <1>0, <1>3
<1> QED BY <1>3, <1>5, <1>6, <1>7, ToGoIs

(* ... and in its batch: on to a lower frame, or it has connected blocks,  *)
(* or something went wrong.  With nothing new to connect the network has   *)
(* no more, so the target is reached, and the loop will end.               *)
LEMMA FramesNear ==
  ASSUME IInv, HeightsInOrder, NEW s \in Slot, Batch(s), ~ StateMachine(s)
  PROVE  Nears(s) /\ th'[s].ret # "batch"
<1>0. /\ th \in [Thread -> ThreadRecord] /\ s \in Thread /\ th[s] \in ThreadRecord
      /\ ReturnsOf(s, th[s]) /\ faults \in Nat
      /\ {net, top, best, target} \subseteq Int
  BY ThreadIs, MaintIsThread, HeightsAreIntegers, HeightFacts DEF StateTypes
<1>1. th[s].pc \notin CallPcs /\ th[s].ret = "off"
  BY <1>0 DEF Batch, Loop, Exit, Panic, Connected, NoNews, NetworkError, Invalid, Recover, Recovered,
         ForkSpend, Success, Rotate, Reindex, ReturnsOf, CallPcs
<1>2. ASSUME FrameOf(th'[s], best' < target') < FrameOf(th[s], best < target) PROVE Nears(s)
  BY <1>2, LowerFrame, ToGoIs DEF Nears
<1>3. CASE faults' < faults /\ th'[s].ret # "batch"
  BY <1>3 DEF Nears
<1>4. CASE Connected(s)
  <2>1. top' > top
    BY <1>0, <1>4 DEF Connected
  <2>2. th'[s].ret = "success"
    BY <1>0, <1>4 DEF Connected, Call, ThreadRecord
  <2> QED BY <2>1, <2>2 DEF Nears
<1>5. CASE NoNews(s)
  <2>1. th'[s].pc = "success" /\ th'[s].ret = "off" /\ th[s].pc = "batch"
    BY <1>0, <1>1, <1>5 DEF NoNews, Goto, ThreadRecord
  <2>2. CASE top >= net
    <3>1. ~ (best < target)
      BY <1>0, <2>2 DEF HeightsInOrder
    <3> QED BY <1>2, <2>1, <3>1 DEF FrameOf, CallPcs, InBatch
  <2>3. CASE Fault
    BY <1>0, <1>3, <2>1, <2>3 DEF Fault
  <2> QED BY <1>5, <2>2, <2>3 DEF NoNews
<1>6. CASE Loop(s)
  <2>1. th[s].pc = "loop" /\ UNCHANGED <<best, target>>
    BY <1>6 DEF Loop, chain, session
  <2>2. /\ th'[s].ret = "off"
        /\ th'[s].pc = "exit" \/ (th'[s].pc = "batch" /\ best < target)
    BY <1>0, <1>1, <1>6 DEF Loop, Goto, ThreadRecord
  <2> QED BY <1>2, <2>1, <2>2 DEF FrameOf, CallPcs, InBatch
<1>7. CASE Exit(s)
  <2>1. Loosened \in [Thread -> ThreadRecord]
    BY LoosenedType, IInvGives
  <2>2. th'[s] = Off /\ th[s].pc = "exit"
    BY <1>0, <1>7, <2>1 DEF Exit
  <2>3. th'[s].pc = "off" /\ th'[s].ret = "off"
    BY <2>2 DEF Off
  <2> QED BY <1>2, <2>2, <2>3 DEF FrameOf, CallPcs, InBatch
<1>8. CASE Recovered(s) \/ Reindex(s)
  <2>1. th'[s].pc = "loop" /\ th'[s].ret = "off" /\ th[s].pc \in {"recovered", "blame"}
    BY <1>0, <1>1, <1>8 DEF Recovered, Reindex, Goto, ThreadRecord
  <2> QED BY <1>2, <2>1 DEF FrameOf, CallPcs, InBatch
<1>9. CASE Success(s)
  <2>1. /\ th[s].pc = "success"
        /\ \/ th'[s].pc \in {"loop", "exit"} /\ th'[s].ret = "off"
           \/ th'[s].pc = "eval" /\ th'[s].ret = "loop"
    BY <1>0, <1>1, <1>9 DEF Success, Goto, Call, ThreadRecord
  <2> QED BY <1>2, <2>1 DEF FrameOf, CallPcs, InBatch
<1>10. CASE Rotate(s)
  <2>1. th[s].pc \in {"rotate", "blame"} /\ th'[s].pc \in {"loop", "exit"} /\ th'[s].ret = "off"
    BY <1>0, <1>1, <1>10 DEF Rotate, Goto, ThreadRecord
  <2> QED BY <1>2, <2>1 DEF FrameOf, CallPcs, InBatch
<1>11. CASE Panic(s) \/ NetworkError(s) \/ Invalid(s) \/ Recover(s) \/ ForkSpend(s)
  <2>1. faults' < faults
    BY <1>0, <1>11 DEF Panic, NetworkError, Invalid, Recover, ForkSpend, Fault
  <2>2. th'[s].ret \in {"off", "rotate", "blame"}
    BY <1>0, <1>1, <1>11 DEF Panic, NetworkError, Invalid, Recover, ForkSpend, Goto, Call, ThreadRecord
  <2> QED BY <1>3, <2>1, <2>2
<1> QED
  BY <1>4, <1>5, <1>6, <1>7, <1>8, <1>9, <1>10, <1>11 DEF Batch

LEMMA OtherReturns ==
  ASSUME NEW s, th[s] \in ThreadRecord, th'[s] = [th[s] EXCEPT !.loose = th'[s].loose]
  PROVE  th'[s].ret = th[s].ret
<1>1. [th[s] EXCEPT !.loose = th'[s].loose].ret = th[s].ret
  BY DEF ThreadRecord
<1> QED BY <1>1

(* What a step does to the session of s.                                   *)
LEMMA SessionStep ==
  ASSUME IInv, HeightsInOrder, ReturnsAfter, [Next]_vars, NEW s \in Slot
  PROVE  /\ th'[s].ret # "batch"
         /\ \/ th[s].pc = "off"
            \/ th'[s] = [th[s] EXCEPT !.loose = th'[s].loose]
            \/ Nears(s)
<1>0. /\ th \in [Thread -> ThreadRecord] /\ s \in Thread /\ th[s] \in ThreadRecord
      /\ ReturnsOf(s, th[s]) /\ th[s].ret # "batch"
  BY ThreadIs, MaintIsThread DEF ReturnsAfter
<1>1. CASE Batch(s)
  <2>1. CASE StateMachine(s)
    BY <2>1, CallNears DEF Nears
  <2>2. CASE ~ StateMachine(s)
    BY <1>1, <2>2, FramesNear
  <2> QED BY <2>1, <2>2
<1>2. CASE UNCHANGED th
  <2>1. th[s] = [th[s] EXCEPT !.loose = th[s].loose]
    BY <1>0 DEF ThreadRecord
  <2> QED BY <1>0, <1>2, <2>1
<1>3. ASSUME NEW t \in Thread, t # s, (t = Maint /\ Maintenance) \/ (t \in Slot /\ Batch(t))
      PROVE  \/ th'[s] = [th[s] EXCEPT !.loose = th'[s].loose]
             \/ th[s].pc = "off" /\ th'[s].ret = "off"
  BY <1>3, OthersStay
<1>4. CASE \/ th'[s] = [th[s] EXCEPT !.loose = th'[s].loose]
           \/ th[s].pc = "off" /\ th'[s].ret = "off"
  BY <1>0, <1>4, OtherReturns
<1>5. CASE Announce \/ Agree \/ Disagree \/ UNCHANGED vars
  BY <1>2, <1>5 DEF Announce, Agree, Disagree, vars
<1> QED BY <1>1, <1>3, <1>4, <1>5, MaintIsThread DEF Next

(* A batch goroutine's own steps bring its session to its end, but for     *)
(* those that connect blocks and those that need a fault.  What the other  *)
(* goroutines do in between takes it no further away, unless they move the *)
(* heights or begin a session with another target.                         *)
THEOREM SessionsNearTheirEnd == Spec => BatchNears
<1>1. Init => ReturnsAfter
  BY MaintIsThread DEF Init, ReturnsAfter, Off
<1>2. IInv /\ HeightsInOrder /\ ReturnsAfter /\ [Next]_vars => ReturnsAfter'
  BY SessionStep DEF ReturnsAfter
<1>3. IInv /\ HeightsInOrder /\ ReturnsAfter /\ [Next]_vars =>
        [\A s \in Slot :
           th[s].pc # "off" /\ th'[s] # [th[s] EXCEPT !.loose = th'[s].loose] =>
             \/ ToGo(s)' < ToGo(s)
             \/ top' > top
             \/ faults' < faults]_vars
  BY SessionStep DEF Nears
<1> QED BY <1>1, <1>2, <1>3, Invariance, HeightsStayInOrder, PTL DEF Spec, BatchNears
=============================================================================
