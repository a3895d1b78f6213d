-------------------------- MODULE MasternodesProofs --------------------------
(***************************************************************************)
(* What Masternodes.tla states, but for liveness, for any set of handlers, *)
(* any broadcasts and any intervals.                                       *)
(***************************************************************************)
EXTENDS Masternodes, TLAPS

LEMMA TimesAreIntegers == Times \subseteq Int /\ SigTimes \subseteq Int
BY MasternodeAssumption DEF Times

(* A status check changes the status only, to a status there is.           *)
LEMMA CheckedIsMasternode ==
  ASSUME NEW m \in Masternode, NEW t
  PROVE  Checked(m, t) \in Masternode
<1>1. StatusAt(m, t) \in Active \union Gone \union {"EXPIRED"}
  BY DEF StatusAt, Active, Gone
<1>. QED  BY <1>1 DEF Checked, Masternode

LEMMA CheckedKeepsSig ==
  ASSUME NEW m \in Masternode, NEW t
  PROVE  Checked(m, t).sig = m.sig
BY DEF Checked, Masternode

LEMMA PointeeIsMasternode ==
  ASSUME TypeOK, NEW h \in Handler, hd[h].ref # "none"
  PROVE  Pointee(h) \in Masternode
BY DEF TypeOK, Works, Pointee

(* A handler's entry replaced by one that is as it must be.                *)
LEMMA SetHandler ==
  ASSUME TypeOK, NEW h \in Handler, NEW w \in Works, hd' = [hd EXCEPT ![h] = w],
         mn # None => mn' # None,
         w.pc \notin {"idle", "ping", "pinged", "recheck"} => w.sig # None,
         w.pc # "idle" => w.ping # None,
         w.pc \in {"ping", "pinged", "recheck"} => w.ref # "none",
         w.ref = "listed" => mn' # None,
         w.ref = "detached" => w.old # None
  PROVE  /\ hd' \in [Handler -> Works]
         /\ \A i \in Handler :
              /\ hd'[i].pc \notin {"idle", "ping", "pinged", "recheck"} => hd'[i].sig # None
              /\ hd'[i].pc # "idle" => hd'[i].ping # None
              /\ hd'[i].pc \in {"ping", "pinged", "recheck"} => hd'[i].ref # "none"
              /\ hd'[i].ref = "listed" => mn' # None
              /\ hd'[i].ref = "detached" => hd'[i].old # None
<1>1. hd' \in [Handler -> Works] /\ hd'[h] = w /\ \A i \in Handler \ {h} : hd'[i] = hd[i]
  BY DEF TypeOK
<1>. QED  BY <1>1 DEF TypeOK

LEMMA BroadcastIsMasternode ==
  ASSUME TypeOK, NEW h \in Handler, hd[h].pc \in {"update", "add"}
  PROVE  Broadcast(h) \in Masternode
<1>1. hd[h].sig \in SigTimes /\ hd[h].ping \in Times
  BY DEF TypeOK, Works
<1>. QED  BY <1>1 DEF Broadcast, Masternode, Active

-----------------------------------------------------------------------------
LEMMA TypeInit == Init => TypeOK
BY MasternodeAssumption DEF Init, TypeOK, NoMark, NoWork, NoPass, Works

LEMMA TypeUpdater == TypeOK /\ Updater => TypeOK'
<1>. SUFFICES ASSUME TypeOK, Updater PROVE TypeOK'
  OBVIOUS
<1>. USE DEF TypeOK
<1>1. CASE BeginPass
  BY <1>1, MasternodeAssumption DEF BeginPass, Times
<1>2. CASE UpdateStatus
  <2>1. mn' \in Masternode
    BY <1>2, CheckedIsMasternode DEF UpdateStatus
  <2>. QED  BY <1>2, <2>1, MasternodeAssumption DEF UpdateStatus
<1>3. CASE Collect
  BY <1>3 DEF Collect
<1>4. CASE Delete
  <2>1. CASE mn.status \in Gone
    <3>. DEFINE Moved(i) == IF hd[i].ref = "listed"
                            THEN [hd[i] EXCEPT !.ref = "detached", !.old = mn] ELSE hd[i]
    <3>1. mn' = None /\ up' = [up EXCEPT !.pc = "clear"] /\ hd' = [i \in Handler |-> Moved(i)]
      BY <1>4, <2>1 DEF Delete, Detach
    <3>2. ASSUME NEW i \in Handler
          PROVE  /\ Moved(i) \in Works
                 /\ Moved(i).pc = hd[i].pc /\ Moved(i).sig = hd[i].sig /\ Moved(i).ping = hd[i].ping
                 /\ Moved(i).ref # "listed"
                 /\ Moved(i).ref = "none" <=> hd[i].ref = "none"
                 /\ Moved(i).ref = "detached" => Moved(i).old # None
      <4>1. hd[i] \in Works /\ mn \in Masternode /\ mn # None
        BY <1>4 DEF Delete
      <4>2. CASE hd[i].ref = "listed"
        BY <4>1, <4>2 DEF Works
      <4>3. CASE hd[i].ref # "listed"
        BY <4>1, <4>3 DEF Works
      <4>. QED  BY <4>2, <4>3
    <3>3. hd' \in [Handler -> Works] /\ \A i \in Handler : hd'[i] = Moved(i)
      BY <3>1, <3>2
    <3>. HIDE DEF Moved
    <3>. QED  BY <1>4, <3>1, <3>2, <3>3 DEF Delete
  <2>2. CASE mn.status \notin Gone
    BY <1>4, <2>2 DEF Delete
  <2>. QED  BY <2>1, <2>2
<1>5. CASE ClearMarks
  BY <1>5 DEF ClearMarks, NoMark
<1>6. CASE CleanMarks
  BY <1>6 DEF CleanMarks, NoPass
<1>. QED  BY <1>1, <1>2, <1>3, <1>4, <1>5, <1>6 DEF Updater

LEMMA TypeHandler ==
  ASSUME TypeOK, NEW h \in Handler, HandlerStep(h)
  PROVE  TypeOK'
<1>. USE DEF TypeOK
<1>1. ASSUME NEW s \in SigTimes, NEW p \in Times, Receive(h, s, p) PROVE TypeOK'
  BY <1>1, MasternodeAssumption, TimesAreIntegers DEF Receive, NoWork, Works
<1>2. ASSUME NEW p \in Times, PingCheck(h, p) PROVE TypeOK'
  BY <1>2, MasternodeAssumption DEF PingCheck, NoWork, Works
<1>3. CASE Mark(h)
  BY <1>3 DEF Mark, Goto, Works
<1>4. CASE Look(h)
  <2>. DEFINE w == [hd[h] EXCEPT !.pc = "check", !.ref = IF mn = None THEN "none" ELSE "listed"]
  <2>1. w \in Works /\ w.pc = "check" /\ w.sig # None /\ w.ping # None
    BY <1>4 DEF Look, Works
  <2>2. w.ref # "detached" /\ (w.ref = "listed" => mn # None)
    BY DEF Works
  <2>3. hd' = [hd EXCEPT ![h] = w]
    BY <1>4 DEF Look
  <2>. HIDE DEF w
  <2>. QED  BY <1>4, <2>1, <2>2, <2>3, SetHandler DEF Look
<1>5. CASE Refuse(h)
  BY <1>5 DEF Refuse, Done, NoWork, Works
<1>6. CASE Skip(h)
  BY <1>6 DEF Skip, Done, NoWork, Works
<1>7. CASE Check(h)
  <2>1. hd[h].ref # "none" => Pointee(h).sig \in SigTimes
    BY PointeeIsMasternode DEF Masternode
  <2>. DEFINE w == [hd[h] EXCEPT !.pc = "inputs", !.ref = "none", !.old = None,
                     !.base = IF hd[h].ref = "none" THEN None ELSE Pointee(h).sig]
  <2>2. w \in Works /\ w.pc = "inputs" /\ w.ref = "none" /\ w.sig # None /\ w.ping # None
    BY <1>7, <2>1 DEF Check, Works
  <2>3. hd' = [hd EXCEPT ![h] = w]
    BY <1>7 DEF Check, ToInputs
  <2>. HIDE DEF w
  <2>. QED  BY <1>7, <2>2, <2>3, SetHandler DEF Check
<1>8. CASE Inputs(h)
  BY <1>8 DEF Inputs, Goto, Done, NoWork, Works
<1>9. CASE Find(h)
  BY <1>9 DEF Find, Goto, Works
<1>10. CASE Update(h)
  <2>1. Broadcast(h) \in Masternode
    BY <1>10, BroadcastIsMasternode DEF Update
  <2>. QED  BY <1>10, <2>1, MasternodeAssumption DEF Update, Done, NoWork, Works
<1>11. CASE Add(h)
  <2>1. Broadcast(h) \in Masternode
    BY <1>11, BroadcastIsMasternode DEF Add
  <2>. QED  BY <1>11, <2>1, MasternodeAssumption DEF Add, Done, NoWork, Works
<1>12. CASE Serve(h)
  BY <1>12, MasternodeAssumption DEF Serve, NoWork, Works, Masternode
<1>13. CASE MarkServed(h)
  BY <1>13 DEF MarkServed, Done, NoWork, Works
<1>14. CASE PingWrite(h)
  <2>1. Pointee(h) \in Masternode /\ hd[h].ping \in Times
    BY <1>14, PointeeIsMasternode DEF PingWrite, Works
  <2>2. [Pointee(h) EXCEPT !.ping = hd[h].ping] \in Masternode
    BY <2>1 DEF Masternode
  <2>3. CASE hd[h].ref = "listed"
    BY <1>14, <2>2, <2>3, MasternodeAssumption DEF PingWrite, Write, Goto, Works
  <2>4. CASE hd[h].ref # "listed"
    <3>. DEFINE w == [hd[h] EXCEPT !.pc = "pinged", !.old = [Pointee(h) EXCEPT !.ping = hd[h].ping]]
    <3>1. w \in Works /\ w.pc = "pinged" /\ w.ping # None /\ w.ref # "none" /\ w.ref # "listed"
      BY <1>14, <2>2, <2>4 DEF PingWrite, Works
    <3>2. w.old # None
      BY <2>2, MasternodeAssumption DEF Works
    <3>3. hd' = [hd EXCEPT ![h] = w] /\ mn' = mn
      BY <1>14, <2>4 DEF PingWrite, Write
    <3>. HIDE DEF w
    <3>. QED  BY <1>14, <3>1, <3>2, <3>3, SetHandler DEF PingWrite
  <2>. QED  BY <2>3, <2>4
<1>15. CASE PingMark(h)
  BY <1>15 DEF PingMark, Goto, Works
<1>16. CASE PingRecheck(h)
  <2>1. Checked(Pointee(h), hd[h].ping) \in Masternode
    BY <1>16, PointeeIsMasternode, CheckedIsMasternode DEF PingRecheck
  <2>. QED  BY <1>16, <2>1, MasternodeAssumption DEF PingRecheck, Done, NoWork, Works
<1>. QED
  BY <1>1, <1>2, <1>3, <1>4, <1>5, <1>6, <1>7, <1>8, <1>9, <1>10, <1>11, <1>12, <1>13, <1>14,
     <1>15, <1>16 DEF HandlerStep

LEMMA TypeStep == TypeOK /\ [Next]_vars => TypeOK'
<1>. SUFFICES ASSUME TypeOK, [Next]_vars PROVE TypeOK'
  OBVIOUS
<1>1. CASE Updater
  BY <1>1, TypeUpdater
<1>2. CASE Tick
  BY <1>2, MasternodeAssumption DEF Tick, TypeOK
<1>3. CASE Reorg
  BY <1>3 DEF Reorg, TypeOK
<1>4. CASE Restart
  <2>1. mn # None => [mn EXCEPT !.status = "PRE_ENABLED"] \in Masternode
    BY DEF TypeOK, Masternode, Active
  <2>. QED
    BY <1>4, <2>1, MasternodeAssumption DEF Restart, TypeOK, NoMark, NoWork, NoPass, Works
<1>5. ASSUME NEW h \in Handler, HandlerStep(h) PROVE TypeOK'
  BY <1>5, TypeHandler
<1>6. CASE UNCHANGED vars
  BY <1>6 DEF vars, TypeOK
<1>. QED  BY <1>1, <1>2, <1>3, <1>4, <1>5, <1>6 DEF Next

(* The types, for any handlers, broadcasts and intervals.                  *)
THEOREM ManagerTypeCorrect == Spec => []TypeOK
BY TypeInit, TypeStep, PTL DEF Spec

-----------------------------------------------------------------------------
(* The marks.  The invariant is inductive as it stands: the updater        *)
(* deletes before it clears, and a handler marks before it looks.          *)

LEMMA MarksUpdater ==
  ASSUME TypeOK, MarksEndWithTheirMasternode, Updater
  PROVE  MarksEndWithTheirMasternode'
<1>. USE DEF MarksEndWithTheirMasternode, Holds
<1>1. CASE BeginPass
  BY <1>1 DEF BeginPass
<1>2. CASE UpdateStatus
  <2>1. mn' # None
    BY <1>2, CheckedIsMasternode, MasternodeAssumption DEF UpdateStatus, TypeOK
  <2>. QED  BY <1>2, <2>1 DEF UpdateStatus
<1>3. CASE Collect
  BY <1>3 DEF Collect
<1>4. CASE Delete
  <2>1. CASE mn.status \in Gone
    BY <1>4, <2>1 DEF Delete, TypeOK
  <2>2. CASE mn.status \notin Gone
    BY <1>4, <2>2 DEF Delete, TypeOK
  <2>. QED  BY <2>1, <2>2
<1>5. CASE ClearMarks
  BY <1>5 DEF ClearMarks, NoMark
<1>6. CASE CleanMarks
  BY <1>6 DEF CleanMarks, TypeOK
<1>. QED  BY <1>1, <1>2, <1>3, <1>4, <1>5, <1>6 DEF Updater

LEMMA MarksHandler ==
  ASSUME TypeOK, MarksEndWithTheirMasternode, NEW h \in Handler, HandlerStep(h)
  PROVE  MarksEndWithTheirMasternode'
<1>. SUFFICES ASSUME NEW s \in SigTimes \ stuck', seen'[s] # None
              PROVE  mn' # None \/ up'.pc = "clear" \/ \E i \in Handler : Holds(i, s)'
  BY DEF MarksEndWithTheirMasternode
<1>. DEFINE Kept == mn' # None \/ up'.pc = "clear" \/ \E i \in Handler : Holds(i, s)'
<1>0. /\ up' = up
      /\ hd \in [Handler -> Works] /\ \A i \in Handler \ {h} : hd'[i] = hd[i]
      /\ mn # None => mn' # None
  <2>1. up' = up /\ \A i \in Handler \ {h} : hd'[i] = hd[i]
    BY DEF HandlerStep, Receive, PingCheck, Mark, Look, Refuse, Skip, Check, ToInputs, Inputs,
           Find, Update, Add, Serve, MarkServed, PingWrite, Write, PingMark, PingRecheck, Goto,
           Done, TypeOK
  <2>2. hd \in [Handler -> Works]
    BY DEF TypeOK
  <2>3. mn # None => mn' # None
    <3>1. CASE Update(h) \/ Add(h)
      BY <3>1, BroadcastIsMasternode, MasternodeAssumption DEF Update, Add
    <3>2. CASE PingWrite(h)
      <4>1. [Pointee(h) EXCEPT !.ping = hd[h].ping] \in Masternode
        BY <3>2, PointeeIsMasternode DEF PingWrite, TypeOK, Works, Masternode
      <4>. QED  BY <3>2, <4>1, MasternodeAssumption DEF PingWrite, Write
    <3>3. CASE PingRecheck(h)
      <4>1. Checked(Pointee(h), hd[h].ping) \in Masternode
        BY <3>3, PointeeIsMasternode, CheckedIsMasternode DEF PingRecheck, TypeOK
      <4>. QED  BY <3>3, <4>1, MasternodeAssumption DEF PingRecheck
    <3>4. CASE mn' = mn
      BY <3>4
    <3>. QED
      BY <3>1, <3>2, <3>3, <3>4
         DEF HandlerStep, Receive, PingCheck, Mark, Look, Refuse, Skip, Check, Inputs, Find,
             Serve, MarkServed, PingMark
  <2>. QED  BY <2>1, <2>2, <2>3
(* What kept the mark of s keeps it, if the one that moves was not it.     *)
<1>1. ASSUME seen[s] # None, s \notin stuck, Holds(h, s) => Holds(h, s)' \/ mn' # None
      PROVE  Kept
  <2>1. mn # None \/ up.pc = "clear" \/ \E i \in Handler : Holds(i, s)
    BY <1>1 DEF MarksEndWithTheirMasternode
  <2>2. \A i \in Handler \ {h} : Holds(i, s) => Holds(i, s)'
    BY <1>0 DEF Holds
  <2>. QED  BY <1>0, <1>1, <2>1, <2>2
<1>2. ASSUME NEW t \in SigTimes, NEW p \in Times, Receive(h, t, p) PROVE Kept
  BY <1>1, <1>2 DEF Receive, Holds
<1>3. ASSUME NEW p \in Times, PingCheck(h, p) PROVE Kept
  BY <1>1, <1>3 DEF PingCheck, Holds
<1>4. CASE Mark(h)
  <2>1. CASE hd[h].sig = s
    <3>1. Holds(h, s)'
      BY <1>0, <1>4, <2>1 DEF Mark, Goto, Holds, Works
    <3>. QED  BY <3>1
  <2>2. CASE hd[h].sig # s
    BY <1>1, <1>4, <2>2 DEF Mark, Holds, TypeOK
  <2>. QED  BY <2>1, <2>2
<1>5. CASE Look(h)
  <2>1. Holds(h, s) => Holds(h, s)' \/ mn' # None
    BY <1>0, <1>5 DEF Look, Holds, Works
  <2>. QED  BY <1>1, <1>5, <2>1 DEF Look
<1>6. CASE Refuse(h)
  BY <1>1, <1>6 DEF Refuse, Holds
<1>7. CASE Skip(h)
  BY <1>1, <1>7 DEF Skip, Outdated, Holds
<1>8. CASE Check(h)
  <2>1. Holds(h, s) => Holds(h, s)'
    BY <1>0, <1>8 DEF Check, ToInputs, Holds, Works
  <2>. QED  BY <1>1, <1>8, <2>1 DEF Check
<1>9. CASE Inputs(h)
  <2>1. CASE coin
    <3>1. Holds(h, s) => Holds(h, s)'
      BY <1>0, <1>9, <2>1 DEF Inputs, Goto, Holds, Works
    <3>. QED  BY <1>1, <1>9, <2>1, <3>1 DEF Inputs
  <2>2. CASE ~coin
    <3>1. s # hd[h].sig
      BY <1>9, <2>2 DEF Inputs, TypeOK
    <3>. QED  BY <1>1, <1>9, <2>2, <3>1 DEF Inputs, Holds, TypeOK
  <2>. QED  BY <2>1, <2>2
<1>10. CASE Find(h)
  <2>1. Holds(h, s) => Holds(h, s)' \/ mn' # None
    BY <1>0, <1>10 DEF Find, Goto, Holds, Works
  <2>. QED  BY <1>1, <1>10, <2>1 DEF Find
<1>11. CASE Update(h)
  BY <1>1, <1>11 DEF Update, Holds
<1>12. CASE Add(h)
  <2>1. mn' # None
    BY <1>12, BroadcastIsMasternode, MasternodeAssumption DEF Add
  <2>. QED  BY <2>1
<1>13. CASE Serve(h)
  BY <1>1, <1>13 DEF Serve, Holds
<1>14. CASE MarkServed(h)
  <2>1. CASE hd[h].sig = s
    BY <1>0, <1>14, <2>1 DEF MarkServed
  <2>2. CASE hd[h].sig # s
    BY <1>1, <1>14, <2>2 DEF MarkServed, Holds, TypeOK
  <2>. QED  BY <2>1, <2>2
<1>15. CASE PingWrite(h)
  BY <1>1, <1>15 DEF PingWrite, Holds
<1>16. CASE PingMark(h)
  BY <1>1, <1>16 DEF PingMark, Holds, TypeOK
<1>17. CASE PingRecheck(h)
  BY <1>1, <1>17 DEF PingRecheck, Holds
<1>. QED
  BY <1>2, <1>3, <1>4, <1>5, <1>6, <1>7, <1>8, <1>9, <1>10, <1>11, <1>12, <1>13, <1>14, <1>15,
     <1>16, <1>17 DEF HandlerStep

LEMMA MarksStep ==
  TypeOK /\ MarksEndWithTheirMasternode /\ [Next]_vars => MarksEndWithTheirMasternode'
<1>. SUFFICES ASSUME TypeOK, MarksEndWithTheirMasternode, [Next]_vars
              PROVE  MarksEndWithTheirMasternode'
  OBVIOUS
<1>1. CASE Updater
  BY <1>1, MarksUpdater
<1>2. CASE Tick \/ Reorg \/ UNCHANGED vars
  BY <1>2 DEF Tick, Reorg, vars, MarksEndWithTheirMasternode, Holds
<1>3. CASE Restart
  BY <1>3 DEF Restart, NoMark, MarksEndWithTheirMasternode
<1>4. ASSUME NEW h \in Handler, HandlerStep(h) PROVE MarksEndWithTheirMasternode'
  BY <1>4, MarksHandler
<1>. QED  BY <1>1, <1>2, <1>3, <1>4 DEF Next

(* No mark outlives its masternode, with any number of handlers.           *)
THEOREM MarksEnd == Spec => []MarksEndWithTheirMasternode
<1>1. Init => MarksEndWithTheirMasternode
  BY DEF Init, NoMark, MarksEndWithTheirMasternode
<1>. QED  BY <1>1, MarksStep, ManagerTypeCorrect, PTL DEF Spec

-----------------------------------------------------------------------------
(* sigTimes.                                                               *)

(* A handler goes on only with a broadcast newer than what it compared it  *)
(* with.                                                                   *)
Newer(h) ==
  hd[h].pc \in {"inputs", "find", "update", "add"} /\ hd[h].base # None => hd[h].base < hd[h].sig

AllNewer == \A h \in Handler : Newer(h)

LEMMA NewerStep == TypeOK /\ AllNewer /\ [Next]_vars => AllNewer'
<1>. SUFFICES ASSUME TypeOK, AllNewer, [Next]_vars, NEW h \in Handler
              PROVE  Newer(h)'
  BY DEF AllNewer
<1>. USE DEF AllNewer
<1>0. hd \in [Handler -> Works]
  BY DEF TypeOK
<1>1. CASE /\ hd'[h].pc = hd[h].pc /\ hd'[h].base = hd[h].base /\ hd'[h].sig = hd[h].sig
  BY <1>1 DEF Newer
<1>2. CASE hd'[h].pc \notin {"inputs", "find", "update", "add"}
  BY <1>2 DEF Newer
<1>3. ASSUME NEW i \in Handler, HandlerStep(i) PROVE Newer(h)'
  <2>1. CASE i # h
    BY <1>0, <1>1, <1>3, <2>1
       DEF HandlerStep, Receive, PingCheck, Mark, Look, Refuse, Skip, Check, ToInputs, Inputs,
           Find, Update, Add, Serve, MarkServed, PingWrite, Write, PingMark, PingRecheck, Goto, Done
  <2>2. CASE i = h /\ Check(h)
    <3>1. hd[h].ref # "none" => Pointee(h).sig \in SigTimes
      BY PointeeIsMasternode DEF Masternode
    <3>2. hd[h].sig \in SigTimes
      BY <2>2 DEF Check, TypeOK, Works
    <3>3. hd'[h].sig = hd[h].sig /\ hd'[h].base = IF hd[h].ref = "none" THEN None ELSE Pointee(h).sig
      BY <1>0, <2>2 DEF Check, ToInputs, Works
    <3>4. hd[h].ref # "none" => Pointee(h).sig < hd[h].sig
      <4>1. hd[h].ref # "none" => ~(Pointee(h).sig >= hd[h].sig)
        BY <2>2 DEF Check, Outdated
      <4>2. hd[h].sig \in Int /\ (hd[h].ref # "none" => Pointee(h).sig \in Int)
        BY <3>1, <3>2, TimesAreIntegers
      <4>. QED  BY <4>1, <4>2
    <3>. QED  BY <3>3, <3>4 DEF Newer
  <2>3. CASE i = h /\ (Inputs(h) \/ Find(h))
    <3>1. CASE hd'[h] = NoWork
      BY <1>2, <3>1 DEF NoWork
    <3>2. CASE hd' = [hd EXCEPT ![h].pc = hd'[h].pc]
      <4>1. hd'[h].base = hd[h].base /\ hd'[h].sig = hd[h].sig
        BY <1>0, <3>2 DEF Works
      <4>. QED  BY <2>3, <4>1 DEF Inputs, Find, Newer
    <3>. QED  BY <1>0, <2>3, <3>1, <3>2 DEF Inputs, Find, Goto, Done
  <2>4. CASE i = h /\ ~(Check(h) \/ Inputs(h) \/ Find(h))
    <3>1. CASE hd' = [hd EXCEPT ![h] = NoWork]
      BY <1>0, <1>2, <3>1 DEF NoWork
    <3>2. CASE \E pc \in {"look", "pinged", "recheck"} : hd' = [hd EXCEPT ![h].pc = pc]
      BY <1>0, <1>2, <3>2 DEF Works
    <3>3. CASE Look(h)
      BY <1>0, <1>2, <3>3 DEF Look, Works
    <3>4. CASE PingWrite(h)
      BY <1>0, <1>2, <3>4 DEF PingWrite, Write, Goto, Works
    <3>5. CASE (\E s \in SigTimes, p \in Times : Receive(h, s, p)) \/ (\E p \in Times : PingCheck(h, p)) \/ Serve(h)
      BY <1>0, <1>2, <3>5 DEF Receive, PingCheck, Serve, NoWork
    <3>. QED
      BY <1>3, <2>4, <3>1, <3>2, <3>3, <3>4, <3>5
         DEF HandlerStep, Mark, Refuse, Skip, Update, Add, MarkServed, PingMark, PingRecheck, Goto, Done
  <2>. QED  BY <2>1, <2>2, <2>3, <2>4
<1>4. CASE Delete
  <2>1. hd'[h].pc = hd[h].pc /\ hd'[h].base = hd[h].base /\ hd'[h].sig = hd[h].sig
    <3>1. hd'[h] = [hd[h] EXCEPT !.ref = "detached", !.old = mn] \/ hd'[h] = hd[h]
      BY <1>0, <1>4 DEF Delete, Detach
    <3>. QED  BY <1>0, <3>1 DEF Works
  <2>. QED  BY <1>1, <2>1
<1>5. CASE Restart
  BY <1>2, <1>5 DEF Restart, NoWork
<1>6. CASE UNCHANGED hd
  BY <1>1, <1>6
<1>. QED
  BY <1>3, <1>4, <1>5, <1>6
     DEF Next, Updater, BeginPass, UpdateStatus, Collect, ClearMarks, CleanMarks, Tick, Reorg, vars

LEMMA SigTimeStep ==
  ASSUME TypeOK, AllNewer, Next, mn # None, mn' # None, mn'.sig < mn.sig
  PROVE  \E h \in Handler : hd[h].pc = "update" /\ hd[h].base # mn.sig
<1>0. mn \in Masternode /\ mn.sig \in Int
  BY TimesAreIntegers DEF TypeOK, Masternode
<1>1. ASSUME NEW h \in Handler, Update(h) PROVE hd[h].base # mn.sig
  <2>1. mn'.sig = hd[h].sig
    BY <1>1 DEF Update, Broadcast
  <2>2. hd[h].base # None => hd[h].base < mn'.sig
    BY <1>1, <2>1 DEF Update, Newer, AllNewer
  <2>3. mn.sig # None
    BY <1>0, MasternodeAssumption DEF Masternode
  <2>4. hd[h].sig \in Int /\ hd[h].base \in Int \union {None}
    BY <1>1, TimesAreIntegers DEF Update, TypeOK, Works
  <2>. QED  BY <1>0, <2>1, <2>2, <2>3, <2>4
<1>2. UpdateStatus => mn'.sig = mn.sig
  BY <1>0, CheckedKeepsSig DEF UpdateStatus
<1>3. ASSUME NEW h \in Handler, PingWrite(h) PROVE mn'.sig = mn.sig
  BY <1>0, <1>3 DEF PingWrite, Write, Pointee, Masternode
<1>4. ASSUME NEW h \in Handler, PingRecheck(h) PROVE mn'.sig = mn.sig
  BY <1>0, <1>4, CheckedKeepsSig DEF PingRecheck, Pointee
<1>5. Restart => mn'.sig = mn.sig
  BY <1>0 DEF Restart, Masternode
<1>6. mn' = mn => FALSE
  BY <1>0
<1>7. ASSUME NEW h \in Handler, HandlerStep(h) PROVE Update(h)
  <2>1. ~PingWrite(h) /\ ~PingRecheck(h)
    BY <1>0, <1>3, <1>4
  <2>2. Update(h) \/ mn' = mn
    BY <1>7, <2>1
       DEF HandlerStep, Receive, PingCheck, Mark, Look, Refuse, Skip, Check, Inputs, Find, Add,
           Serve, MarkServed, PingMark
  <2>. QED  BY <1>6, <2>2
<1>8. ~Updater
  <2>1. ~UpdateStatus
    BY <1>0, <1>2
  <2>2. Updater => mn' = mn \/ mn' = None
    BY <2>1 DEF Updater, BeginPass, Collect, Delete, ClearMarks, CleanMarks
  <2>. QED  BY <1>6, <2>2
<1>9. ~Restart /\ ~Tick /\ ~Reorg
  BY <1>0, <1>5, <1>6 DEF Tick, Reorg
<1>. QED
  BY <1>1, <1>7, <1>8, <1>9 DEF Next, Update

(* The sigTime goes back only through a handler that was overtaken.        *)
THEOREM SigTimesGrow == Spec => SigTimeGrows
<1>1. Init => AllNewer
  BY DEF Init, NoWork, Newer, AllNewer
<1>2. TypeOK /\ AllNewer /\ [Next]_vars =>
        [mn # None /\ mn' # None /\ mn'.sig < mn.sig =>
           \E h \in Handler : hd[h].pc = "update" /\ hd[h].base # mn.sig]_vars
  BY SigTimeStep
<1>. QED  BY <1>1, <1>2, NewerStep, ManagerTypeCorrect, PTL DEF Spec, SigTimeGrows

-----------------------------------------------------------------------------
(* Removal.  What the updater collected stays a cause: a ping written in   *)
(* between is one of a handler that has yet to check the status again, and *)
(* its check does not find REMOVED, because pings in work are of the last  *)
(* and the next hour and removal takes more than two.                      *)

Recent(p) == now - Tolerance < p /\ p <= now + Tolerance
InWork(h) == hd[h].pc \in {"inputs", "find", "update", "add", "ping", "pinged", "recheck"}
Rechecks(h) == hd[h].pc \in {"pinged", "recheck"} /\ hd[h].ref = "listed"

CauseInv ==
  /\ \A h \in Handler : InWork(h) => Recent(hd[h].ping)
  /\ \A h \in Handler : Rechecks(h) => Recent(mn.ping)
  /\ up.pc = "status" => up.at <= now
  /\ up.pc \in {"collect", "delete"} /\ mn.status = "REMOVED" => Silent \/ \E h \in Handler : Rechecks(h)

LEMMA ClockFacts ==
  TypeOK => /\ now \in Nat /\ Tolerance \in Nat /\ Removal \in Nat /\ 2 * Tolerance <= Removal
            /\ Times \subseteq Int /\ None \notin Times
            /\ mn # None => mn \in Masternode /\ mn.ping \in Times
BY MasternodeAssumption DEF TypeOK, Times, Masternode

(* The status becomes REMOVED only of one that was silent at that time.    *)
LEMMA RemovedIsSilent ==
  ASSUME NEW m \in Masternode, NEW t, Checked(m, t).status = "REMOVED"
  PROVE  m.ping + Removal < t
BY DEF Checked, StatusAt, Masternode

LEMMA CauseUpdater == ASSUME TypeOK, CauseInv, Updater PROVE CauseInv'
<1>1. CASE BeginPass
  BY <1>1, ClockFacts DEF BeginPass, CauseInv, InWork, Rechecks, Recent
<1>2. CASE UpdateStatus
  <2>1. mn \in Masternode /\ mn' = Checked(mn, up.at) /\ up.at <= now /\ up.at \in Int
    BY <1>2, ClockFacts DEF UpdateStatus, CauseInv, TypeOK
  <2>2. mn' \in Masternode /\ mn'.ping = mn.ping /\ mn.ping \in Int
    BY <2>1, CheckedIsMasternode, ClockFacts DEF Checked, Masternode
  <2>3. mn'.status = "REMOVED" => Silent'
    BY <1>2, <2>1, <2>2, RemovedIsSilent, ClockFacts, MasternodeAssumption DEF UpdateStatus, Silent
  <2>. QED  BY <1>2, <2>2, <2>3 DEF UpdateStatus, CauseInv, InWork, Rechecks, Recent, TypeOK
<1>3. CASE Collect
  BY <1>3 DEF Collect, CauseInv, InWork, Rechecks, Recent, Silent, TypeOK
<1>4. CASE Delete
  <2>1. CASE mn.status \in Gone
    <3>1. up'.pc = "clear" /\ now' = now
      BY <1>4, <2>1 DEF Delete, TypeOK
    <3>2. ASSUME NEW h \in Handler
          PROVE  hd'[h].pc = hd[h].pc /\ hd'[h].ping = hd[h].ping /\ hd'[h].ref # "listed"
      <4>1. hd'[h] = IF hd[h].ref = "listed" THEN [hd[h] EXCEPT !.ref = "detached", !.old = mn] ELSE hd[h]
        BY <1>4, <2>1 DEF Delete, Detach
      <4>. QED  BY <4>1 DEF TypeOK, Works
    <3>. QED  BY <3>1, <3>2 DEF CauseInv, InWork, Rechecks, Recent
  <2>2. CASE mn.status \notin Gone
    BY <1>4, <2>2 DEF Delete, CauseInv, InWork, Rechecks, Recent, TypeOK
  <2>. QED  BY <2>1, <2>2
<1>5. CASE ClearMarks
  BY <1>5 DEF ClearMarks, CauseInv, InWork, Rechecks, Recent, TypeOK
<1>6. CASE CleanMarks
  BY <1>6 DEF CleanMarks, NoPass, CauseInv, InWork, Rechecks, Recent, TypeOK
<1>. QED  BY <1>1, <1>2, <1>3, <1>4, <1>5, <1>6 DEF Updater

(* The masternode stays, and the handler neither begins nor ends a check.  *)
LEMMA CauseStays ==
  ASSUME TypeOK, CauseInv, NEW h \in Handler, UNCHANGED <<now, up, mn>>,
         \A i \in Handler \ {h} : hd'[i] = hd[i],
         InWork(h)' => Recent(hd'[h].ping),
         Rechecks(h)' <=> Rechecks(h)
  PROVE  CauseInv'
BY DEF CauseInv, InWork, Rechecks, Recent, Silent

LEMMA CauseHandler == ASSUME TypeOK, CauseInv, NEW h \in Handler, HandlerStep(h) PROVE CauseInv'
<1>0. /\ hd \in [Handler -> Works] /\ hd[h] \in Works
      /\ now' = now /\ up' = up /\ \A i \in Handler \ {h} : hd'[i] = hd[i]
      /\ InWork(h) => Recent(hd[h].ping)
  BY DEF HandlerStep, Receive, PingCheck, Mark, Look, Refuse, Skip, Check, ToInputs, Inputs,
         Find, Update, Add, Serve, MarkServed, PingWrite, Write, PingMark, PingRecheck, Goto,
         Done, TypeOK, CauseInv
<1>1. CASE \/ \E s \in SigTimes, p \in Times : Receive(h, s, p)
           \/ Serve(h)
  <2>1. UNCHANGED <<now, up, mn>> /\ ~ Rechecks(h)
    BY <1>1 DEF Receive, Serve, Rechecks
  <2>2. hd'[h].pc \in {"mark", "serve"}
    BY <1>0, <1>1 DEF Receive, Serve, NoWork
  <2>. QED  BY <1>0, <2>1, <2>2, CauseStays DEF InWork, Rechecks
<1>2. ASSUME NEW p \in Times, PingCheck(h, p) PROVE CauseInv'
  BY <1>0, <1>2, CauseStays DEF PingCheck, NoWork, InWork, Rechecks, Fresh, Recent
<1>3. CASE Mark(h) \/ Look(h) \/ Refuse(h) \/ Skip(h) \/ MarkServed(h)
  <2>1. UNCHANGED <<now, up, mn>> /\ hd[h].pc \in {"mark", "look", "check", "serve"}
    BY <1>3 DEF Mark, Look, Refuse, Skip, MarkServed
  <2>2. hd'[h].pc \in {"idle", "look", "check"}
    <3>1. Mark(h) \/ Look(h) => hd'[h].pc \in {"look", "check"}
      BY <1>0 DEF Mark, Look, Goto, Works
    <3>2. Refuse(h) \/ Skip(h) \/ MarkServed(h) => hd'[h].pc = "idle"
      BY <1>0 DEF Refuse, Skip, MarkServed, Done, NoWork
    <3>. QED  BY <1>3, <3>1, <3>2
  <2>. QED  BY <1>0, <2>1, <2>2, CauseStays DEF InWork, Rechecks
<1>4. CASE Check(h)
  <2>1. hd'[h].ping = hd[h].ping /\ hd'[h].pc = "inputs"
    BY <1>0, <1>4 DEF Check, ToInputs, Works
  <2>. QED  BY <1>0, <1>4, <2>1, CauseStays DEF Check, Fresh, Recent, InWork, Rechecks
<1>5. CASE Inputs(h) \/ Find(h)
  <2>1. \/ hd'[h].pc = "idle"
        \/ hd'[h].ping = hd[h].ping /\ hd'[h].pc \in {"find", "add", "update"}
    <3>1. CASE Find(h)
      BY <1>0, <3>1 DEF Find, Goto, Works
    <3>2. Inputs(h) => Goto(h, "find") \/ Done(h)
      BY Zenon DEF Inputs
    <3>3. CASE Goto(h, "find")
      BY <1>0, <3>3 DEF Goto, Works
    <3>4. CASE Done(h)
      BY <1>0, <3>4 DEF Done, NoWork
    <3>. QED  BY <1>5, <3>1, <3>2, <3>3, <3>4
  <2>2. UNCHANGED <<now, up, mn>> /\ InWork(h) /\ ~ Rechecks(h)
    BY <1>5 DEF Inputs, Find, InWork, Rechecks
  <2>. QED  BY <1>0, <2>1, <2>2, CauseStays DEF Recent, InWork, Rechecks
<1>6. CASE Update(h) /\ mn # None
  <2>1. mn' = Broadcast(h) /\ hd'[h] = NoWork /\ InWork(h)
    BY <1>0, <1>6 DEF Update, Done, InWork
  <2>2. mn'.ping = hd[h].ping /\ mn'.status # "REMOVED" /\ Recent(mn.ping)'
    BY <1>0, <2>1 DEF Broadcast, Recent
  <2>. QED  BY <1>0, <2>1, <2>2 DEF CauseInv, InWork, Rechecks, Recent, NoWork
<1>7. CASE (Update(h) /\ mn = None) \/ (Add(h) /\ mn # None)
  BY <1>0, <1>7, CauseStays DEF Update, Add, Done, NoWork, InWork, Rechecks
<1>8. CASE Add(h) /\ mn = None
  <2>1. hd'[h] = NoWork /\ \A i \in Handler : ~ Rechecks(i)
    BY <1>0, <1>8 DEF Add, Done, TypeOK, Rechecks
  <2>2. up.pc \notin {"status", "collect", "delete"}
    BY <1>8 DEF TypeOK
  <2>. QED  BY <1>0, <2>1, <2>2 DEF CauseInv, InWork, Rechecks, Recent, NoWork
<1>9. CASE PingWrite(h)
  <2>1. InWork(h) /\ ~ Rechecks(h)
    BY <1>9 DEF PingWrite, InWork, Rechecks
  <2>2. CASE hd[h].ref = "listed"
    <3>1. mn' = [mn EXCEPT !.ping = hd[h].ping] /\ hd' = [hd EXCEPT ![h].pc = "pinged"] /\ mn \in Masternode
      BY <1>9, <2>2, ClockFacts DEF PingWrite, Write, Goto, Pointee, TypeOK
    <3>2. mn'.ping = hd[h].ping /\ hd'[h].ping = hd[h].ping /\ Rechecks(h)'
      BY <1>0, <2>2, <3>1 DEF Masternode, Works, Rechecks
    <3>. QED  BY <1>0, <2>1, <3>2 DEF CauseInv, InWork, Rechecks, Recent
  <2>3. CASE hd[h].ref # "listed"
    <3>1. mn' = mn /\ hd'[h].ping = hd[h].ping /\ hd'[h].ref = hd[h].ref
      BY <1>0, <1>9, <2>3 DEF PingWrite, Write, Works
    <3>. QED  BY <1>0, <2>1, <2>3, <3>1, CauseStays DEF InWork, Rechecks, Recent
  <2>. QED  BY <2>2, <2>3
<1>10. CASE PingMark(h)
  <2>1. /\ UNCHANGED <<now, up, mn>> /\ hd'[h].ping = hd[h].ping /\ hd'[h].ref = hd[h].ref
        /\ hd[h].pc = "pinged" /\ hd'[h].pc = "recheck"
    BY <1>0, <1>10 DEF PingMark, Goto, Works
  <2>. QED  BY <1>0, <2>1, CauseStays DEF InWork, Rechecks, Recent
<1>11. CASE PingRecheck(h)
  <2>0. hd'[h] = NoWork /\ hd[h].pc = "recheck" /\ InWork(h)
    BY <1>0, <1>11 DEF PingRecheck, Done, InWork
  <2>1. CASE hd[h].ref = "listed"
    <3>1. /\ mn \in Masternode /\ mn' = Checked(mn, hd[h].ping) /\ Recent(mn.ping) /\ Recent(hd[h].ping)
          /\ mn.ping \in Int /\ hd[h].ping \in Int
      BY <1>0, <1>11, <2>0, <2>1, ClockFacts DEF PingRecheck, Pointee, CauseInv, Rechecks, TypeOK, Works
    <3>2. mn'.ping = mn.ping
      BY <3>1 DEF Checked, Masternode
    <3>3. mn'.status # "REMOVED"
      BY <3>1, RemovedIsSilent, ClockFacts DEF Recent
    <3>. QED  BY <1>0, <2>0, <3>1, <3>2, <3>3 DEF CauseInv, InWork, Rechecks, Recent, NoWork
  <2>2. CASE hd[h].ref # "listed"
    BY <1>0, <1>11, <2>0, <2>2, CauseStays DEF PingRecheck, InWork, Rechecks, NoWork
  <2>. QED  BY <2>1, <2>2
<1>. QED
  BY <1>1, <1>2, <1>3, <1>4, <1>5, <1>6, <1>7, <1>8, <1>9, <1>10, <1>11 DEF HandlerStep, Update, Add

LEMMA CauseStep == TypeOK /\ CauseInv /\ [Next]_vars => CauseInv'
<1>. SUFFICES ASSUME TypeOK, CauseInv, [Next]_vars PROVE CauseInv'
  OBVIOUS
<1>1. CASE Tick
  <2>1. \A h \in Handler : ~ InWork(h)' /\ ~ Rechecks(h)' /\ ~ Rechecks(h)
    BY <1>1 DEF Tick, InWork, Rechecks
  <2>2. Silent => Silent'
    BY <1>1, ClockFacts DEF Tick, Silent
  <2>. QED  BY <1>1, <2>1, <2>2, ClockFacts DEF Tick, CauseInv, TypeOK
<1>2. CASE Reorg \/ UNCHANGED vars
  BY <1>2 DEF Reorg, vars, CauseInv, InWork, Rechecks, Recent, Silent
<1>3. CASE Restart
  BY <1>3 DEF Restart, NoWork, NoPass, CauseInv, InWork, Rechecks
<1>. QED  BY <1>1, <1>2, <1>3, CauseUpdater, CauseHandler DEF Next

(* A masternode leaves the list for a cause, with any number of handlers   *)
(* and any intervals of which the removal time is twice the tolerance.     *)
THEOREM RemovalHasCause == Spec => RemovedForCause
<1>1. Init => CauseInv
  BY DEF Init, NoWork, NoPass, CauseInv, InWork, Rechecks
<1>2. ASSUME TypeOK, CauseInv, Next, mn # None, mn' = None
      PROVE  \/ Silent
             \/ mn.status = "VIN_SPENT"
             \/ \E h \in Handler : hd[h].pc \in {"pinged", "recheck"} /\ hd[h].ref = "listed"
  <2>1. ASSUME NEW h \in Handler, HandlerStep(h) PROVE mn' # None
    <3>1. hd[h].pc \in {"update", "add"} => Broadcast(h) # None
      BY <1>2, BroadcastIsMasternode, MasternodeAssumption
    <3>2. PingWrite(h) => [Pointee(h) EXCEPT !.ping = hd[h].ping] # None
      <4>1. PingWrite(h) => [Pointee(h) EXCEPT !.ping = hd[h].ping] \in Masternode
        BY <1>2, PointeeIsMasternode DEF PingWrite, TypeOK, Works, Masternode
      <4>. QED  BY <4>1, MasternodeAssumption
    <3>3. PingRecheck(h) => Checked(Pointee(h), hd[h].ping) # None
      <4>1. PingRecheck(h) => Checked(Pointee(h), hd[h].ping) \in Masternode
        BY <1>2, PointeeIsMasternode, CheckedIsMasternode DEF PingRecheck, TypeOK
      <4>. QED  BY <4>1, MasternodeAssumption
    <3>. QED
      BY <1>2, <2>1, <3>1, <3>2, <3>3
         DEF HandlerStep, Receive, PingCheck, Mark, Look, Refuse, Skip, Check, Inputs, Find, Update,
             Add, Serve, MarkServed, PingWrite, Write, PingMark, PingRecheck
  <2>2. ~ Restart
    BY <1>2, MasternodeAssumption DEF Restart, TypeOK, Masternode, Active
  <2>3. ~ UpdateStatus
    BY <1>2, CheckedIsMasternode, MasternodeAssumption DEF UpdateStatus, TypeOK
  <2>4. Delete /\ mn.status \in Gone
    BY <1>2, <2>1, <2>2, <2>3
       DEF Next, Updater, BeginPass, Collect, Delete, ClearMarks, CleanMarks, Tick, Reorg
  <2>. QED  BY <1>2, <2>4 DEF Delete, Gone, CauseInv, Rechecks
<1>3. TypeOK /\ CauseInv /\ [Next]_vars =>
        [mn # None /\ mn' = None =>
           \/ Silent
           \/ mn.status = "VIN_SPENT"
           \/ \E h \in Handler : hd[h].pc \in {"pinged", "recheck"} /\ hd[h].ref = "listed"]_vars
  BY <1>2
<1>. QED  BY <1>1, <1>3, CauseStep, ManagerTypeCorrect, PTL DEF Spec, RemovedForCause

-----------------------------------------------------------------------------
(* The updater's pass.  It takes the time when it begins, and who was too  *)
(* long silent then is found REMOVED or VIN_SPENT at that time; what else  *)
(* changes the entry before the deletion brings a recent ping with it.     *)

SilentAt(t) == mn # None /\ mn.ping + Removal < t

PassInv ==
  /\ up.pc # "idle" => up.at \in Nat /\ up.at <= now
  /\ up.pc \in {"collect", "delete"} /\ SilentAt(up.at) => mn.status \in Gone
  /\ up.pc \in {"clear", "clean"} => ~ SilentAt(up.at)

(* A handler leaves the listed masternode alone or brings a recent ping.   *)
LEMMA HandlerRenews ==
  ASSUME TypeOK, CauseInv, NEW h \in Handler, HandlerStep(h)
  PROVE  mn' = mn \/ (mn' # None /\ Recent(mn'.ping))
<1>0. InWork(h) => Recent(hd[h].ping)
  BY DEF CauseInv
<1>1. CASE Update(h) \/ Add(h)
  <2>1. mn' = mn \/ mn' = Broadcast(h)
    BY <1>1 DEF Update, Add
  <2>2. Broadcast(h) # None /\ InWork(h)
    BY <1>1, BroadcastIsMasternode, MasternodeAssumption DEF Update, Add, InWork
  <2>. QED  BY <1>0, <2>1, <2>2 DEF Broadcast
<1>2. CASE PingWrite(h)
  <2>1. CASE hd[h].ref = "listed"
    <3>1. mn' = [mn EXCEPT !.ping = hd[h].ping] /\ mn \in Masternode /\ hd[h].ping \in Times
      BY <1>2, <2>1, ClockFacts DEF PingWrite, Write, Pointee, TypeOK, Works
    <3>2. mn' \in Masternode /\ mn'.ping = hd[h].ping /\ InWork(h)
      BY <1>2, <3>1 DEF Masternode, PingWrite, InWork
    <3>. QED  BY <1>0, <3>2, MasternodeAssumption
  <2>. QED  BY <1>2, <2>1 DEF PingWrite, Write
<1>3. CASE PingRecheck(h)
  <2>1. CASE hd[h].ref = "listed"
    <3>1. mn' = Checked(mn, hd[h].ping) /\ mn \in Masternode /\ Recent(mn.ping)
      BY <1>3, <2>1, ClockFacts DEF PingRecheck, Pointee, CauseInv, Rechecks, TypeOK
    <3>2. mn' \in Masternode /\ mn'.ping = mn.ping
      BY <3>1, CheckedIsMasternode DEF Checked, Masternode
    <3>. QED  BY <3>1, <3>2, MasternodeAssumption
  <2>. QED  BY <1>3, <2>1 DEF PingRecheck
<1>. QED
  BY <1>1, <1>2, <1>3
     DEF HandlerStep, Receive, PingCheck, Mark, Look, Refuse, Skip, Check, Inputs, Find,
         Serve, MarkServed, PingMark

LEMMA PassHandler ==
  ASSUME TypeOK, CauseInv, PassInv, TypeOK', NEW h \in Handler, HandlerStep(h)
  PROVE  PassInv'
<1>1. now' = now /\ up' = up
  BY DEF HandlerStep, Receive, PingCheck, Mark, Look, Refuse, Skip, Check, Inputs, Find, Update,
         Add, Serve, MarkServed, PingWrite, PingMark, PingRecheck
<1>2. CASE mn' = mn
  BY <1>1, <1>2 DEF PassInv, SilentAt
<1>3. CASE mn' # None /\ Recent(mn'.ping)
  <2>0. mn'.ping \in Int
    BY <1>3, TimesAreIntegers DEF TypeOK, Masternode
  <2>1. up.pc # "idle" => ~ SilentAt(up.at)'
    BY <1>1, <1>3, <2>0, ClockFacts DEF PassInv, SilentAt, Recent
  <2>. QED  BY <1>1, <2>1 DEF PassInv
<1>. QED  BY <1>2, <1>3, HandlerRenews

LEMMA PassUpdater == ASSUME TypeOK, PassInv, Updater PROVE PassInv'
<1>1. CASE BeginPass
  BY <1>1, ClockFacts DEF BeginPass, PassInv, SilentAt
<1>2. CASE UpdateStatus
  <2>1. mn \in Masternode /\ mn' = Checked(mn, up.at) /\ up' = [up EXCEPT !.pc = "collect"]
    BY <1>2, ClockFacts DEF UpdateStatus, TypeOK
  <2>2. mn' \in Masternode /\ mn'.ping = mn.ping /\ mn'.status = StatusAt(mn, up.at)
    BY <2>1, CheckedIsMasternode DEF Checked, Masternode
  <2>3. SilentAt(up.at)' => mn'.status \in Gone
    BY <2>1, <2>2 DEF SilentAt, StatusAt, Gone, TypeOK
  <2>. QED  BY <1>2, <2>1, <2>3 DEF UpdateStatus, PassInv, TypeOK
<1>3. CASE Collect
  BY <1>3 DEF Collect, PassInv, SilentAt, TypeOK
<1>4. CASE Delete
  BY <1>4 DEF Delete, PassInv, SilentAt, TypeOK
<1>5. CASE ClearMarks
  BY <1>5 DEF ClearMarks, PassInv, SilentAt, TypeOK
<1>6. CASE CleanMarks
  BY <1>6 DEF CleanMarks, NoPass, PassInv
<1>. QED  BY <1>1, <1>2, <1>3, <1>4, <1>5, <1>6 DEF Updater

LEMMA PassStep == TypeOK /\ TypeOK' /\ CauseInv /\ PassInv /\ [Next]_vars => PassInv'
<1>. SUFFICES ASSUME TypeOK, TypeOK', CauseInv, PassInv, [Next]_vars PROVE PassInv'
  OBVIOUS
<1>1. CASE Tick \/ Reorg \/ UNCHANGED vars
  BY <1>1, ClockFacts DEF Tick, Reorg, vars, PassInv, SilentAt
<1>2. CASE Restart
  BY <1>2 DEF Restart, NoPass, PassInv
<1>. QED  BY <1>1, <1>2, PassUpdater, PassHandler DEF Next

(* No pass of the updater ends with a masternode on the list that had been *)
(* silent for RemovalSeconds when the pass began.  With a pass that ends   *)
(* (fairness of the ticker) this is why SilentLeaves holds.                *)
THEOREM PassesRemoveTheSilent == Spec => []PassRemovesSilent
<1>1. Init => CauseInv /\ PassInv
  BY DEF Init, NoWork, NoPass, CauseInv, InWork, Rechecks, PassInv
<1>2. TypeOK /\ PassInv => PassRemovesSilent
  BY ClockFacts DEF PassInv, PassRemovesSilent, SilentAt
<1>. QED  BY <1>1, <1>2, CauseStep, PassStep, ManagerTypeCorrect, PTL DEF Spec
===============================================================================
