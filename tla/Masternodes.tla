----------------------------- MODULE Masternodes -----------------------------
(***************************************************************************)
(* The masternode manager, for one collateral output: the listed           *)
(* masternode, the broadcasts seen so far (which a peer's copy of one is   *)
(* dropped for), and the goroutines that touch both.  The updater demotes  *)
(* and deletes silent masternodes; handlers process broadcasts, pings and  *)
(* list requests.  m.mu, mn.mu and seenBroadcastsMu are held for a field   *)
(* access at a time, never over a handler: a step here is one such section.*)
(*                                                                         *)
(* Times are in units of which only the order of the protocol's intervals  *)
(* is kept.  Left out: several masternodes and what ranks them, other      *)
(* fields of a broadcast, relaying, and the dedup of pings (a ping seen    *)
(* twice is refused for its spacing).                                      *)
(***************************************************************************)
EXTENDS Integers

CONSTANTS
  Handler,     \* goroutines: the message handler, dseg handlers, RPC, ...
  SigTimes,    \* the sigTimes of the broadcasts the owner ever signs
  MinPing,     \* MinPingSeconds, MinBroadcastSeconds
  Tolerance,   \* PingTimeTolerance: one hour
  Expire,      \* ExpirationSeconds
  Removal,     \* RemovalSeconds
  MaxTime,     \* bound on the clock
  None

Times == 0..(MaxTime + Tolerance)

Active == {"ENABLED", "PRE_ENABLED"}
Gone == {"REMOVED", "VIN_SPENT"}
Masternode == [sig : SigTimes, ping : Times, status : Active \union Gone \union {"EXPIRED"}]

ASSUME MasternodeAssumption ==
  /\ {MinPing, Tolerance, Expire, Removal, MaxTime} \subseteq Nat
  /\ 2 * Tolerance <= Removal
  /\ SigTimes \subseteq Times
  /\ None \notin Times /\ None \notin Masternode

VARIABLES
  now,     \* the network-adjusted clock
  coin,    \* the collateral is on the chain, and deep enough
  mn,      \* m.masternodes[outpoint]: the listed masternode, or None
  seen,    \* seenBroadcasts: sigTime -> the broadcast's last ping, or None
  hd,      \* per handler, the message in work
  up,      \* the updater's pass
  stuck    \* history: the marks of broadcasts that were refused for good,
           \* and those a dseg answer made after the masternode had gone

vars == <<now, coin, mn, seen, hd, up, stuck>>

NoMark == [s \in SigTimes |-> None]
NoWork == [pc |-> "idle", sig |-> None, ping |-> None, ref |-> "none", old |-> None, base |-> None]
NoPass == [pc |-> "idle", at |-> None]

Init ==
  /\ now = 0
  /\ coin = TRUE
  /\ mn = None
  /\ seen = NoMark
  /\ hd = [h \in Handler |-> NoWork]
  /\ up = NoPass
  /\ stuck = {}

(* UpdateStatusWithUTXO, at time t.  A look-up that fails is a spend.      *)
StatusAt(m, t) ==
  IF m.status = "VIN_SPENT" THEN "VIN_SPENT"
  ELSE IF m.ping + Removal < t THEN "REMOVED"
  ELSE IF m.ping + Expire < t THEN "EXPIRED"
  ELSE IF m.ping - m.sig < MinPing THEN "PRE_ENABLED"
  ELSE IF coin THEN "ENABLED" ELSE "VIN_SPENT"

Checked(m, t) == [m EXCEPT !.status = StatusAt(m, t)]

-----------------------------------------------------------------------------
(* updateMasternodes and CleanSeenMaps: one pass of the updater.           *)

BeginPass ==
  /\ up.pc = "idle"
  /\ up' = [pc |-> IF mn = None THEN "clean" ELSE "status", at |-> now]
  /\ UNCHANGED <<now, coin, mn, seen, hd, stuck>>

UpdateStatus ==
  /\ up.pc = "status"
  /\ mn' = Checked(mn, up.at)
  /\ up' = [up EXCEPT !.pc = "collect"]
  /\ UNCHANGED <<now, coin, seen, hd, stuck>>

(* Bug: an expired masternode is never collected for removal.              *)
CollectSpent ==
  /\ up.pc = "collect"
  /\ up' = [up EXCEPT !.pc = IF mn.status = "VIN_SPENT" THEN "delete" ELSE "clean"]
  /\ UNCHANGED <<now, coin, mn, seen, hd, stuck>>

Collect ==
  /\ up.pc = "collect"
  /\ up' = [up EXCEPT !.pc = IF mn.status \in Gone THEN "delete" ELSE "clean"]
  /\ UNCHANGED <<now, coin, mn, seen, hd, stuck>>

(* The pointers to the listed object now point to an object of their own.  *)
Detach ==
  hd' = [h \in Handler |->
           IF hd[h].ref = "listed" THEN [hd[h] EXCEPT !.ref = "detached", !.old = mn] ELSE hd[h]]

(* Bug: the status is not read again under the lock.                       *)
DeleteUnchecked ==
  /\ up.pc = "delete"
  /\ mn' = None
  /\ up' = [up EXCEPT !.pc = "clear"]
  /\ Detach
  /\ UNCHANGED <<now, coin, seen, stuck>>

(* Bug: the marks of what was removed are not cleared.                     *)
DeleteKeepsMarks ==
  /\ up.pc = "delete"
  /\ IF mn.status \in Gone THEN mn' = None /\ Detach ELSE UNCHANGED <<mn, hd>>
  /\ up' = [up EXCEPT !.pc = "clean"]
  /\ UNCHANGED <<now, coin, seen, stuck>>

(* Phase 2a: physical removal, if the status is still what was collected.  *)
Delete ==
  /\ up.pc = "delete"
  /\ IF mn.status \in Gone
     THEN mn' = None /\ Detach /\ up' = [up EXCEPT !.pc = "clear"]
     ELSE UNCHANGED <<mn, hd>> /\ up' = [up EXCEPT !.pc = "clean"]
  /\ UNCHANGED <<now, coin, seen, stuck>>

(* clearSeenBroadcastsForOutpoints, after m.mu was released.               *)
ClearMarks ==
  /\ up.pc = "clear"
  /\ seen' = NoMark
  /\ stuck' = {}
  /\ up' = [up EXCEPT !.pc = "clean"]
  /\ UNCHANGED <<now, coin, mn, hd>>

(* CleanSeenBroadcasts: marks whose last ping is twice RemovalSeconds old. *)
CleanMarks ==
  LET old == { s \in SigTimes : seen[s] # None /\ now - seen[s] > 2 * Removal }
  IN  /\ up.pc = "clean"
      /\ seen' = [s \in SigTimes |-> IF s \in old THEN None ELSE seen[s]]
      /\ stuck' = stuck \ old
      /\ up' = NoPass
      /\ UNCHANGED <<now, coin, mn, hd>>

Updater ==
  BeginPass \/ UpdateStatus \/ Collect \/ Delete \/ ClearMarks \/ CleanMarks

-----------------------------------------------------------------------------
(* ProcessBroadcast.                                                       *)

Goto(h, pc) == hd' = [hd EXCEPT ![h].pc = pc]
Done(h) == hd' = [hd EXCEPT ![h] = NoWork]

(* The masternode a handler's pointer leads to.                            *)
Pointee(h) == IF hd[h].ref = "listed" THEN mn ELSE hd[h].old

(* A broadcast not seen before; one that was seen is dropped.  Its ping is *)
(* at most one unit too old, which is enough to be refused.                *)
Receive(h, s, p) ==
  /\ hd[h].pc = "idle"
  /\ seen[s] = None
  /\ now - Tolerance <= p /\ p <= now + Tolerance
  /\ hd' = [hd EXCEPT ![h] = [NoWork EXCEPT !.pc = "mark", !.sig = s, !.ping = p]]
  /\ UNCHANGED <<now, coin, mn, seen, up, stuck>>

(* The mark comes before validation.                                       *)
Mark(h) ==
  /\ hd[h].pc = "mark"
  /\ seen' = [seen EXCEPT ![hd[h].sig] = hd[h].ping]
  /\ Goto(h, "look")
  /\ UNCHANGED <<now, coin, mn, up, stuck>>

(* Bug: that there is no masternode goes unnoticed.                        *)
LookUnchecked(h) ==
  /\ hd[h].pc = "look"
  /\ hd' = [hd EXCEPT ![h] = [@ EXCEPT !.pc = "check", !.ref = "listed"]]
  /\ UNCHANGED <<now, coin, mn, seen, up, stuck>>

Look(h) ==
  /\ hd[h].pc = "look"
  /\ hd' = [hd EXCEPT ![h] = [@ EXCEPT !.pc = "check", !.ref = IF mn = None THEN "none" ELSE "listed"]]
  /\ UNCHANGED <<now, coin, mn, seen, up, stuck>>

Fresh(t) == now - Tolerance < t /\ t <= now + Tolerance

(* CheckAndUpdate refuses the broadcast itself: its times, or anything     *)
(* else about it.  The mark stays.                                         *)
Refuse(h) ==
  /\ hd[h].pc = "check"
  /\ stuck' = stuck \union {hd[h].sig}
  /\ Done(h)
  /\ UNCHANGED <<now, coin, mn, seen, up>>

(* CheckAndUpdate and IsBroadcastedWithin, against the masternode there is.*)
Outdated(h) ==
  /\ hd[h].ref # "none"
  /\ LET m == Pointee(h)
     IN  m.sig >= hd[h].sig \/ now - m.sig < MinPing

Skip(h) ==
  /\ hd[h].pc = "check"
  /\ Outdated(h)
  /\ Done(h)
  /\ UNCHANGED <<now, coin, mn, seen, up, stuck>>

ToInputs(h) ==
  hd' = [hd EXCEPT ![h] =
           [@ EXCEPT !.pc = "inputs", !.ref = "none", !.old = None,
                     !.base = IF hd[h].ref = "none" THEN None ELSE Pointee(h).sig]]

(* Bug: the existing sigTime is not compared.                              *)
CheckAny(h) ==
  /\ hd[h].pc = "check"
  /\ hd[h].sig <= now + Tolerance /\ Fresh(hd[h].ping)
  /\ ToInputs(h)
  /\ UNCHANGED <<now, coin, mn, seen, up, stuck>>

(* Both pass.  An existing masternode that is EXPIRED, REMOVED or          *)
(* VIN_SPENT comes back as Valid with ShouldSkip, which is only looked at  *)
(* when the result is not Valid: processing goes on.                       *)
Check(h) ==
  /\ hd[h].pc = "check"
  /\ hd[h].sig <= now + Tolerance /\ Fresh(hd[h].ping)
  /\ ~Outdated(h)
  /\ ToInputs(h)
  /\ UNCHANGED <<now, coin, mn, seen, up, stuck>>

(* The collateral: transaction, confirmations, UTXO.  When one of them     *)
(* is not there the broadcast is forgotten, so that it can be tried again. *)
Inputs(h) ==
  /\ hd[h].pc = "inputs"
  /\ IF coin
     THEN Goto(h, "find") /\ UNCHANGED <<seen, stuck>>
     ELSE /\ Done(h)
          /\ seen' = [seen EXCEPT ![hd[h].sig] = None]
          /\ stuck' = stuck \ {hd[h].sig}
  /\ UNCHANGED <<now, coin, mn, up>>

Find(h) ==
  /\ hd[h].pc = "find"
  /\ Goto(h, IF mn = None THEN "add" ELSE "update")
  /\ UNCHANGED <<now, coin, mn, seen, up, stuck>>

Broadcast(h) == [sig |-> hd[h].sig, ping |-> hd[h].ping, status |-> "PRE_ENABLED"]

(* UpdateFromBroadcast; ErrMasternodeNotFound when it has gone.            *)
Update(h) ==
  /\ hd[h].pc = "update"
  /\ mn' = IF mn = None THEN None ELSE Broadcast(h)
  /\ Done(h)
  /\ UNCHANGED <<now, coin, seen, up, stuck>>

(* AddMasternode; an error when another handler was first.                 *)
Add(h) ==
  /\ hd[h].pc = "add"
  /\ mn' = IF mn = None THEN Broadcast(h) ELSE mn
  /\ Done(h)
  /\ UNCHANGED <<now, coin, seen, up, stuck>>

-----------------------------------------------------------------------------
(* handleDSEG: the list is sent, and what is sent is marked as seen.       *)

Serve(h) ==
  /\ hd[h].pc = "idle"
  /\ mn # None
  /\ mn.status \in Active
  /\ hd' = [hd EXCEPT ![h] = [NoWork EXCEPT !.pc = "serve", !.sig = mn.sig, !.ping = mn.ping]]
  /\ UNCHANGED <<now, coin, mn, seen, up, stuck>>

(* MarkBroadcastSeen.                                                      *)
MarkServed(h) ==
  /\ hd[h].pc = "serve"
  /\ seen' = [seen EXCEPT ![hd[h].sig] = hd[h].ping]
  /\ stuck' = IF mn = None /\ up.pc # "clear" THEN stuck \union {hd[h].sig} ELSE stuck
  /\ Done(h)
  /\ UNCHANGED <<now, coin, mn, up>>

-----------------------------------------------------------------------------
(* ProcessPing.                                                            *)

(* Up to the signature: the masternode, its status, the spacing.           *)
PingCheck(h, p) ==
  /\ hd[h].pc = "idle"
  /\ Fresh(p)
  /\ mn # None
  /\ mn.status \in Active \union {"EXPIRED"}
  /\ p - mn.ping >= MinPing
  /\ hd' = [hd EXCEPT ![h] = [NoWork EXCEPT !.pc = "ping", !.ping = p, !.ref = "listed"]]
  /\ UNCHANGED <<now, coin, mn, seen, up, stuck>>

(* The masternode a handler points to becomes m, which may be detached.    *)
Write(h, m, pc) ==
  IF hd[h].ref = "listed"
  THEN mn' = m /\ Goto(h, pc)
  ELSE UNCHANGED mn /\ hd' = [hd EXCEPT ![h] = [@ EXCEPT !.pc = pc, !.old = m]]

PingWrite(h) ==
  /\ hd[h].pc = "ping"
  /\ Write(h, [Pointee(h) EXCEPT !.ping = hd[h].ping], "pinged")
  /\ UNCHANGED <<now, coin, seen, up, stuck>>

(* updateSeenBroadcastLastPing.                                            *)
PingMark(h) ==
  LET s == Pointee(h).sig
  IN  /\ hd[h].pc = "pinged"
      /\ seen' = IF seen[s] = None THEN seen ELSE [seen EXCEPT ![s] = hd[h].ping]
      /\ Goto(h, "recheck")
      /\ UNCHANGED <<now, coin, mn, up, stuck>>

(* The status, by the ping's own time.                                     *)
PingRecheck(h) ==
  LET m == Checked(Pointee(h), hd[h].ping)
  IN  /\ hd[h].pc = "recheck"
      /\ mn' = IF hd[h].ref = "listed" THEN m ELSE mn
      /\ Done(h)
      /\ UNCHANGED <<now, coin, seen, up, stuck>>

-----------------------------------------------------------------------------
(* A message is handled within a unit, a pass of the updater within two.   *)
Tick ==
  /\ now < MaxTime
  /\ up.pc = "idle" \/ up.at = now
  /\ \A h \in Handler : hd[h].pc = "idle"
  /\ now' = now + 1
  /\ UNCHANGED <<coin, mn, seen, hd, up, stuck>>

(* A reorganisation takes the collateral off the chain, or back on.        *)
Reorg ==
  /\ coin' = ~coin
  /\ UNCHANGED <<now, mn, seen, hd, up, stuck>>

(* SaveCache and LoadCache: ENABLED becomes PRE_ENABLED, no mark is kept.  *)
Restart ==
  /\ mn' = IF mn # None /\ mn.status = "ENABLED" THEN [mn EXCEPT !.status = "PRE_ENABLED"] ELSE mn
  /\ seen' = NoMark
  /\ hd' = [h \in Handler |-> NoWork]
  /\ up' = NoPass
  /\ stuck' = {}
  /\ UNCHANGED <<now, coin>>

HandlerStep(h) ==
  \/ \E s \in SigTimes, p \in Times : Receive(h, s, p)
  \/ \E p \in Times : PingCheck(h, p)
  \/ Mark(h) \/ Look(h) \/ Refuse(h) \/ Skip(h) \/ Check(h) \/ Inputs(h)
  \/ Find(h) \/ Update(h) \/ Add(h)
  \/ Serve(h) \/ MarkServed(h)
  \/ PingWrite(h) \/ PingMark(h) \/ PingRecheck(h)

Next == Updater \/ Tick \/ Reorg \/ Restart \/ \E h \in Handler : HandlerStep(h)

(* The ticker of updateLoop starts a pass every five seconds.              *)
Spec == Init /\ [][Next]_vars /\ WF_vars(Updater)

-----------------------------------------------------------------------------
Works ==
  [pc : {"idle", "mark", "look", "check", "inputs", "find", "update", "add", "serve",
         "ping", "pinged", "recheck"},
   sig : SigTimes \union {None}, ping : Times \union {None},
   ref : {"none", "listed", "detached"}, old : Masternode \union {None},
   base : SigTimes \union {None}]

(* The types, and what a handler or the updater relies on without looking: *)
(* a pointer leads to a masternode, a broadcast in work has its times, and *)
(* nothing but the updater deletes what the updater works on.              *)
TypeOK ==
  /\ now \in 0..MaxTime
  /\ coin \in BOOLEAN
  /\ mn \in Masternode \union {None}
  /\ seen \in [SigTimes -> Times \union {None}]
  /\ hd \in [Handler -> Works]
  /\ up \in [pc : {"idle", "status", "collect", "delete", "clear", "clean"}, at : Times \union {None}]
  /\ stuck \subseteq SigTimes
  /\ up.pc \in {"status", "collect", "delete"} => mn # None /\ up.at # None
  /\ \A h \in Handler :
       /\ hd[h].pc \notin {"idle", "ping", "pinged", "recheck"} => hd[h].sig # None
       /\ hd[h].pc # "idle" => hd[h].ping # None
       /\ hd[h].pc \in {"ping", "pinged", "recheck"} => hd[h].ref # "none"
       /\ hd[h].ref = "listed" => mn # None
       /\ hd[h].ref = "detached" => hd[h].old # None

(* A handler whose broadcast s ends as the listed masternode or as one     *)
(* that may be tried again, whatever becomes of the present one.           *)
Holds(h, s) ==
  /\ hd[h].sig = s
  /\ \/ hd[h].pc \in {"look", "inputs", "find", "add"}
     \/ hd[h].pc = "check" /\ hd[h].ref = "none"

(* A mark never outlives its masternode: a broadcast is dropped as already *)
(* seen only while a masternode is listed, or its marks are about to be    *)
(* cleared, or a handler is at work on it.  Otherwise a masternode that    *)
(* was removed could not come back for twice RemovalSeconds, which is what *)
(* clearSeenBroadcastsForOutpoints is there to prevent.  The exceptions    *)
(* are broadcasts refused for good and a dseg answer that marks late.      *)
MarksEndWithTheirMasternode ==
  \A s \in SigTimes \ stuck :
    seen[s] # None =>
      \/ mn # None
      \/ up.pc = "clear"
      \/ \E h \in Handler : Holds(h, s)

(* The sigTime of a listed masternode never goes back, unless a handler    *)
(* applies a broadcast that it had compared with another sigTime: only a   *)
(* second handler in between can lose the newer broadcast.                 *)
SigTimeGrows ==
  [][mn # None /\ mn' # None /\ mn'.sig < mn.sig =>
       \E h \in Handler : hd[h].pc = "update" /\ hd[h].base # mn.sig]_vars

Silent == mn # None /\ mn.ping + Removal < now

(* A masternode is removed from the list only when it was silent too long  *)
(* or its collateral was missed, not when a broadcast or a ping recovered  *)
(* it between the status check and the lock; a ping that is still in work  *)
(* may come too late.                                                      *)
RemovedForCause ==
  [][mn # None /\ mn' = None =>
       \/ Silent
       \/ mn.status = "VIN_SPENT"
       \/ \E h \in Handler : hd[h].pc \in {"pinged", "recheck"} /\ hd[h].ref = "listed"]_vars

(* Why SilentLeaves: at the end of an updater's pass the list holds no     *)
(* masternode that was silent too long when the pass began, whatever the   *)
(* handlers have written meanwhile: what they write is a recent ping.      *)
PassRemovesSilent ==
  up.pc = "clean" /\ mn # None => mn.ping + Removal >= up.at

(* A silent masternode does not stay on the list, as long as the node is   *)
(* not restarted forever.                                                  *)
SilentLeaves == <>[][~Restart]_vars => (Silent ~> ~Silent)
===============================================================================
