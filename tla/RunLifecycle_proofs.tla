------------------------ MODULE RunLifecycle_proofs ------------------------
(***************************************************************************)
(* Theorems about RunLifecycle: any number of callers, launches and        *)
(* restarts, any interleaving of callers with each other and with the runs *)
(* they started.  What depends on the discipline of the callers says so:   *)
(* OneLaunch, when launches of the instance do not overlap, or Undisturbed *)
(* when, besides, no stop or failure that found no run overlaps one.       *)
(***************************************************************************)
EXTENDS RunLifecycle, TLAPS

LaunchOps == {"start", "retry", "continue"}
Launching(c) == op[c] \in LaunchOps

\* Launches of the instance do not overlap; stops and failures may overlap
\* them and each other.
OneLaunch == \A c, d \in Caller : Launching(c) /\ Launching(d) => c = d

\* A stop or a failure that found no run to cancel: it writes the status
\* itself, some time after it looked.
Blind(c) == \/ pc[c] \in {"force", "forceWrite", "failWrite"}
            \/ pc[c] = "failLookup" /\ seen[c] = "waiting"

\* A launch overlaps neither another launch nor a blind stop or failure; it
\* may overlap those that cancel a run, and all of these each other.
Undisturbed ==
  \A c, d \in Caller : Launching(c) /\ c # d => ~Launching(d) /\ ~Blind(d)

(***************************************************************************)
(* The inductive invariants.                                               *)
(***************************************************************************)
Held  == Running \cup {"ended"}
Begun == {"preStep", "live", "ended", "deleted"}

\* A caller is at a label of its operation and holds a run where it needs one.
Placed ==
  \A c \in Caller :
    /\ pc[c] = "idle" <=> op[c] = "none"
    /\ pc[c] \in {"register", "lookup", "settle", "activate", "go"} => Launching(c)
    /\ pc[c] \in {"drain", "force", "forceWrite"} => op[c] = "stop"
    /\ pc[c] \in {"failLookup", "setReason", "cancelRun", "failWrite"} => op[c] = "fail"
    /\ pc[c] \in {"settle", "drain", "setReason", "cancelRun", "go"} => rs[c] \in 1..launches
    /\ status = "none" => pc[c] = "idle"

\* Runs are numbered in the order they are launched.
Numbered ==
  /\ status = "none" => launches = 0
  /\ slot # NoRun => slot <= launches
  /\ \A r \in cancelled : r <= launches
  /\ \A r \in Run : /\ loop[r] = "none" <=> r > launches
                    /\ loop[r] \in Begun => doneOf[r] # NoRun

AInv == TypeOK /\ Placed /\ Numbered /\ NoOrphan

\* Only the registered run can be anything but gone or about to return, it is
\* the last one launched, and it closes its own channel.
Registered ==
  /\ \A r \in Run :
       /\ loop[r] \in Held => slot = r
       /\ loop[r] \in Begun => doneOf[r] = r
       /\ r \in closed => loop[r] = "gone"
  /\ slot # NoRun => slot = launches /\ loop[slot] \in Held

\* What a launch has read is still true when it acts on it.
LaunchCurrent ==
  \A c \in Caller :
    /\ pc[c] \in {"register", "activate"} => slot = NoRun
    /\ pc[c] = "settle" => rs[c] = launches
    /\ pc[c] = "go" => slot = rs[c] /\ loop[rs[c]] = "registered"

\* FailWorkflow has set the reason of the run that it cancels.
ReasonFirst ==
  /\ \A r \in Run : loop[r] \in Held /\ r \in cancelled => r \in stopped \cup reasoned
  /\ \A c \in Caller : pc[c] = "cancelRun" /\ loop[rs[c]] \in Held => rs[c] \in reasoned

BInv == AInv /\ Registered /\ LaunchCurrent /\ ReasonFirst

\* A run that is registered and not started belongs to a launch under way; it
\* takes a channel when it starts.
LaunchedByOne ==
  \A r \in Run :
    /\ loop[r] = "registered" => \E c \in Caller : pc[c] = "go" /\ rs[c] = r
    /\ loop[r] \in {"none", "registered", "spawned"} => doneOf[r] = NoRun

\* A run that has closed its channel or is on its way to do so.
WillClose(r) == r \in closed \/ loop[r] \in {"spawned"} \cup Begun

\* A relaunch waits for a run that closes its channel.  So does a stop, unless
\* the launch of the run failed before it started: its channel stays open.
WaitsEnd ==
  \A c \in Caller :
    /\ pc[c] = "settle" => WillClose(rs[c])
    /\ pc[c] = "drain" => \/ WillClose(rs[c]) \/ loop[rs[c]] = "registered"
                          \/ loop[rs[c]] = "gone" /\ doneOf[rs[c]] = NoRun

DInv == BInv /\ LaunchedByOne /\ WaitsEnd

\* The status is that of the last run, and what a caller has read of it is
\* still true, or made true by another stop or failure, when it acts on it.
StatusTrue ==
  /\ \A r \in Run : loop[r] \in Running => status = "active"
  /\ \A c \in Caller :
       /\ pc[c] = "register" => status = "active"
       /\ pc[c] \in {"lookup", "settle", "activate"} => status \in {"failed", "waiting"}
       /\ pc[c] \in {"force", "forceWrite"} => slot = NoRun
       /\ pc[c] = "forceWrite" => status \in {"active", "failed"}
       /\ pc[c] = "failLookup" /\ seen[c] = "waiting" => status \in {"waiting", "failed"}
       /\ pc[c] = "failWrite" => status \in {"waiting", "failed"}

CInv == BInv /\ StatusTrue

\* Every step, seen as one of the contract.
ContractStep == Contract!Next \/ UNCHANGED Contract!vars

(***************************************************************************)
(* Initial states, and how a step comes about.                             *)
(***************************************************************************)
LEMMA InitInv == Init => CInv /\ DInv
<1> SUFFICES ASSUME Init PROVE CInv /\ DInv OBVIOUS
<1>1. TypeOK
  <2>1. launches \in 0..MaxLaunches /\ restarts \in 0..MaxRestarts
    BY BoundAssumption DEF Init
  <2>2. /\ doneOf \in [Run -> Run \cup {NoRun}] /\ rs \in [Caller -> Run \cup {NoRun}]
        /\ loop \in [Run -> Phase] /\ slot \in Run \cup {NoRun}
    BY DEF Init, Phase
  <2>3. /\ op \in [Caller -> Op] /\ pc \in [Caller -> Label]
        /\ seen \in [Caller -> Status]
    BY DEF Init, Op, Label, Status
  <2>4. QED BY <2>1, <2>2, <2>3 DEF Init, TypeOK, Status
<1>2. Placed /\ Numbered
  <2>1. \A r \in Run : r > 0
    BY DEF Run
  <2>2. QED BY <2>1 DEF Init, Placed, Numbered, NoRun, Begun
<1>3. NoOrphan /\ Registered /\ LaunchCurrent /\ ReasonFirst /\ StatusTrue
  BY DEF Init, NoOrphan, Registered, LaunchCurrent, ReasonFirst, StatusTrue, Held,
         Begun, Running
<1>4. LaunchedByOne /\ WaitsEnd
  BY DEF Init, LaunchedByOne, WaitsEnd
<1>5. QED BY <1>1, <1>2, <1>3, <1>4 DEF AInv, BInv, CInv, DInv

\* A step restarts the server, or is one of a caller or of a run.
LEMMA RestartOrStep ==
  ASSUME TypeOK, [Next]_vars
  PROVE  \/ UNCHANGED vars
         \/ Restart /\ restarts' \in 0..MaxRestarts
         \/ \E c \in Caller : Call(c) \/ CallerStep(c) \/ WaitTimeout(c)
         \/ \E r \in Run : RunStep(r) /\ ~Restart
<1>1. CASE Crash
  <2>1. restarts + 1 \in 0..MaxRestarts
    BY <1>1, BoundAssumption DEF Crash, TypeOK
  <2>2. QED BY <1>1, <2>1 DEF Crash
<1>2. CASE \E r \in Run : RunStep(r) /\ Restart
  <2>1. restarts' = restarts \/ ~Restart
    BY <1>2 DEF RunStep, LoopStep, GrabDone, PreStepEnds, PreStepCancelled, CreateSession,
       CloseDone, Publish, DeleteEntry, callVars, bounds
  <2>2. QED BY <1>2, <2>1 DEF TypeOK
<1>3. QED BY <1>1, <1>2 DEF Next

(***************************************************************************)
(* Any callers.                                                            *)
(***************************************************************************)

\* Every step keeps the types.
LEMMA TypeStep ==
  ASSUME AInv, [Next]_vars
  PROVE  TypeOK'
<1> USE DEF AInv, TypeOK, Placed, Numbered, Status, Phase, Op, Label
<1>1. CASE UNCHANGED vars
  BY <1>1 DEF vars, runVars, flagVars, dbVars, callVars, bounds
<1>2. CASE Restart /\ restarts' \in 0..MaxRestarts
  BY <1>2 DEF Restart, InMemoryEmpty, Sweep
<1>3. ASSUME NEW c \in Caller, Call(c) \/ CallerStep(c) \/ WaitTimeout(c)
      PROVE  TypeOK'
  <2> USE DEF At, GoTo, Begin, Hold, ReturnOf, runVars, flagVars, dbVars, bounds
  <2>1. CASE StartInit(c)
    BY <2>1 DEF StartInit
  <2>2. CASE RelaunchCheck(c)
    BY <2>2 DEF RelaunchCheck
  <2>3. CASE StopLookup(c)
    <3>1. /\ op' \in [Caller -> Op] /\ pc' \in [Caller -> Label]
      BY <2>3 DEF StopLookup
    <3>2. rs' \in [Caller -> Run \cup {NoRun}]
      BY <2>3, <3>1 DEF StopLookup
    <3>3. slot # NoRun => slot \in Run
      BY <2>3, <3>1, <3>2 DEF StopLookup
    <3>4. cancelled' \subseteq Run /\ stopped' \subseteq Run
      BY <2>3, <3>1, <3>2, <3>3 DEF StopLookup
    <3>5. QED BY <2>3, <3>1, <3>2, <3>3, <3>4 DEF StopLookup
  <2>4. CASE FailCheck(c)
    BY <2>4 DEF FailCheck
  <2>5. CASE SettleLookup(c)
    BY <2>5 DEF SettleLookup
  <2>6. CASE Settled(c)
    BY <2>6 DEF Settled
  <2>7. CASE RelaunchAborts(c)
    BY <2>7 DEF RelaunchAborts
  <2>8. CASE Activate(c)
    BY <2>8 DEF Activate
  <2>9. CASE LaunchAborts(c)
    BY <2>9 DEF LaunchAborts
  <2>10. CASE Register(c)
    <3>1. launches + 1 \in Run /\ launches' \in 0..MaxLaunches
      BY <2>10, BoundAssumption DEF Register, Run
    <3>2. loop' \in [Run -> Phase]
      BY <2>10, BoundAssumption, <3>1 DEF Register, Run
    <3>3. rs' \in [Caller -> Run \cup {NoRun}]
      BY <2>10, BoundAssumption, <3>1, <3>2 DEF Register, Run
    <3>4. QED BY <2>10, BoundAssumption, <3>1, <3>2, <3>3 DEF Register, Run
  <2>11. CASE PreStepFails(c)
    <3>1. rs[c] \in Run
      BY <2>11, BoundAssumption DEF PreStepFails, Run
    <3>2. cancelled' \subseteq Run /\ loop' \in [Run -> Phase]
      BY <2>11, <3>1 DEF PreStepFails
    <3>3. /\ op' \in [Caller -> Op] /\ pc' \in [Caller -> Label]
      BY <2>11, <3>1, <3>2 DEF PreStepFails
    <3>4. QED BY <2>11, <3>1, <3>2, <3>3 DEF PreStepFails
  <2>12. CASE Spawn(c)
    <3>1. rs[c] \in Run
      BY <2>12, BoundAssumption DEF Spawn, Run
    <3>2. loop' \in [Run -> Phase] /\ preStep' \subseteq Run
      BY <2>12, <3>1 DEF Spawn
    <3>3. /\ op' \in [Caller -> Op] /\ pc' \in [Caller -> Label]
      BY <2>12, <3>1, <3>2 DEF Spawn
    <3>4. hasSession' \in BOOLEAN
      BY <2>12, <3>1, <3>2, <3>3 DEF Spawn
    <3>5. QED BY <2>12, <3>1, <3>2, <3>3, <3>4 DEF Spawn
  <2>13. CASE Drained(c)
    BY <2>13 DEF Drained
  <2>14. CASE ForceCheck(c)
    <3>1. /\ op' \in [Caller -> Op] /\ pc' \in [Caller -> Label]
      BY <2>14 DEF ForceCheck
    <3>2. rs' \in [Caller -> Run \cup {NoRun}]
      BY <2>14, <3>1 DEF ForceCheck
    <3>3. seen' \in [Caller -> Status]
      BY <2>14, <3>1, <3>2 DEF ForceCheck
    <3>4. QED BY <2>14, <3>1, <3>2, <3>3 DEF ForceCheck
  <2>15. CASE ForceWrite(c)
    BY <2>15 DEF ForceWrite
  <2>16. CASE FailLookup(c)
    BY <2>16 DEF FailLookup
  <2>17. CASE SetReason(c)
    BY <2>17 DEF SetReason
  <2>18. CASE CancelRun(c)
    <3>1. rs[c] \in Run
      BY <2>18, BoundAssumption DEF CancelRun, Run
    <3>2. cancelled' \subseteq Run /\ accepted' \subseteq Run
      BY <2>18, <3>1 DEF CancelRun
    <3>3. /\ op' \in [Caller -> Op] /\ pc' \in [Caller -> Label]
      BY <2>18, <3>1, <3>2 DEF CancelRun
    <3>4. QED BY <2>18, <3>1, <3>2, <3>3 DEF CancelRun
  <2>19. CASE FailWrite(c)
    BY <2>19 DEF FailWrite
  <2>20. CASE WaitTimeout(c)
    BY <2>20 DEF WaitTimeout
  <2>21. QED BY <1>3, <2>1, <2>2, <2>3, <2>4, <2>5, <2>6, <2>7, <2>8, <2>9, <2>10, <2>11,
    <2>12, <2>13, <2>14, <2>15, <2>16, <2>17, <2>18, <2>19, <2>20 DEF Call, CallerStep
<1>4. ASSUME NEW r \in Run, RunStep(r), ~Restart
      PROVE  TypeOK'
  <2> USE DEF runVars, flagVars, dbVars, callVars, bounds
  <2>1. CASE GrabDone(r)
    <3>1. slot # NoRun
      BY <1>4, <2>1 DEF GrabDone
    <3>2. loop' \in [Run -> Phase] /\ doneOf' \in [Run -> Run \cup {NoRun}]
      BY <1>4, <2>1, <3>1 DEF GrabDone
    <3>3. QED BY <1>4, <2>1, <3>1, <3>2 DEF GrabDone
  <2>2. CASE PreStepEnds(r)
    BY <1>4, <2>2 DEF PreStepEnds
  <2>3. CASE PreStepCancelled(r)
    BY <1>4, <2>3 DEF PreStepCancelled
  <2>4. CASE CreateSession(r)
    BY <1>4, <2>4 DEF CreateSession
  <2>5. CASE Publish(r)
    <3>1. status' \in Status /\ reason' \in {"none", "own", "cancelled", "custom"}
      BY <1>4, <2>5 DEF Publish, FailReasonOr
    <3>2. loop' \in [Run -> Phase]
      BY <1>4, <2>5, <3>1 DEF Publish, FailReasonOr
    <3>3. QED BY <1>4, <2>5, <3>1, <3>2 DEF Publish, FailReasonOr
  <2>6. CASE DeleteEntry(r)
    BY <1>4, <2>6 DEF DeleteEntry
  <2>7. CASE CloseDone(r)
    <3>1. doneOf[r] \in Run /\ doneOf[r] \notin closed
      BY <1>4, <2>7 DEF CloseDone, Begun
    <3>2. closed' \subseteq Run
      BY <1>4, <2>7, <3>1 DEF CloseDone
    <3>3. loop' \in [Run -> Phase]
      BY <1>4, <2>7, <3>1, <3>2 DEF CloseDone
    <3>4. UNCHANGED <<slot, preStep, doneOf, flagVars, dbVars, callVars, bounds>>
      BY <1>4, <2>7, <3>1, <3>2, <3>3 DEF CloseDone
    <3>5. QED BY <1>4, <2>7, <3>1, <3>2, <3>3, <3>4 DEF CloseDone
  <2>8. QED BY <1>4, <2>1, <2>2, <2>3, <2>4, <2>5, <2>6, <2>7 DEF RunStep, LoopStep
<1>5. QED BY <1>1, <1>2, <1>3, <1>4, RestartOrStep

\* Callers stay at labels of their operations.
LEMMA PlacedStep ==
  ASSUME AInv, [Next]_vars
  PROVE  Placed'
<1> USE DEF AInv, TypeOK, Placed, Numbered, NoRun, Run, Launching, LaunchOps
<1>1. CASE UNCHANGED vars
  BY <1>1 DEF vars, runVars, flagVars, dbVars, callVars, bounds
<1>2. CASE Restart /\ restarts' \in 0..MaxRestarts
  BY <1>2 DEF Restart, InMemoryEmpty, Sweep
<1>3. ASSUME NEW c \in Caller, Call(c) \/ CallerStep(c) \/ WaitTimeout(c)
      PROVE  Placed'
  <2> USE DEF At, GoTo, Begin, Hold, ReturnOf, runVars, flagVars, dbVars, bounds
  <2>1. CASE StartInit(c)
    BY <2>1 DEF StartInit
  <2>2. CASE RelaunchCheck(c)
    BY <2>2 DEF RelaunchCheck
  <2>3. CASE StopLookup(c)
    BY <2>3 DEF StopLookup
  <2>4. CASE FailCheck(c)
    BY <2>4 DEF FailCheck
  <2>5. CASE SettleLookup(c)
    BY <2>5 DEF SettleLookup
  <2>6. CASE Settled(c)
    BY <2>6 DEF Settled
  <2>7. CASE RelaunchAborts(c)
    BY <2>7 DEF RelaunchAborts
  <2>8. CASE Activate(c)
    BY <2>8 DEF Activate
  <2>9. CASE LaunchAborts(c)
    BY <2>9 DEF LaunchAborts
  <2>10. CASE Register(c)
    BY <2>10 DEF Register
  <2>11. CASE PreStepFails(c)
    BY <2>11 DEF PreStepFails
  <2>12. CASE Spawn(c)
    BY <2>12 DEF Spawn
  <2>13. CASE Drained(c)
    BY <2>13 DEF Drained
  <2>14. CASE ForceCheck(c)
    BY <2>14 DEF ForceCheck
  <2>15. CASE ForceWrite(c)
    BY <2>15 DEF ForceWrite
  <2>16. CASE FailLookup(c)
    BY <2>16 DEF FailLookup
  <2>17. CASE SetReason(c)
    BY <2>17 DEF SetReason
  <2>18. CASE CancelRun(c)
    BY <2>18 DEF CancelRun
  <2>19. CASE FailWrite(c)
    BY <2>19 DEF FailWrite
  <2>20. CASE WaitTimeout(c)
    BY <2>20 DEF WaitTimeout
  <2>21. QED BY <1>3, <2>1, <2>2, <2>3, <2>4, <2>5, <2>6, <2>7, <2>8, <2>9, <2>10, <2>11,
    <2>12, <2>13, <2>14, <2>15, <2>16, <2>17, <2>18, <2>19, <2>20 DEF Call, CallerStep
<1>4. ASSUME NEW r \in Run, RunStep(r), ~Restart
      PROVE  Placed'
  <2> USE DEF runVars, flagVars, dbVars, callVars, bounds
  <2>1. CASE GrabDone(r)
    BY <1>4, <2>1 DEF GrabDone
  <2>2. CASE PreStepEnds(r)
    BY <1>4, <2>2 DEF PreStepEnds
  <2>3. CASE PreStepCancelled(r)
    BY <1>4, <2>3 DEF PreStepCancelled
  <2>4. CASE CreateSession(r)
    BY <1>4, <2>4 DEF CreateSession
  <2>5. CASE Publish(r)
    BY <1>4, <2>5 DEF Publish
  <2>6. CASE DeleteEntry(r)
    BY <1>4, <2>6 DEF DeleteEntry
  <2>7. CASE CloseDone(r)
    BY <1>4, <2>7 DEF CloseDone
  <2>8. QED BY <1>4, <2>1, <2>2, <2>3, <2>4, <2>5, <2>6, <2>7 DEF RunStep, LoopStep
<1>5. QED BY <1>1, <1>2, <1>3, <1>4, RestartOrStep

\* Runs stay numbered in the order of their launches.
LEMMA NumberedStep ==
  ASSUME AInv, [Next]_vars
  PROVE  Numbered'
<1> USE DEF AInv, TypeOK, Placed, Numbered, NoRun, Run, Begun
<1>1. CASE UNCHANGED vars
  BY <1>1 DEF vars, runVars, flagVars, dbVars, callVars, bounds
<1>2. CASE Restart /\ restarts' \in 0..MaxRestarts
  BY <1>2 DEF Restart, InMemoryEmpty, Sweep
<1>3. ASSUME NEW c \in Caller, Call(c) \/ CallerStep(c) \/ WaitTimeout(c)
      PROVE  Numbered'
  <2> USE DEF At, GoTo, Begin, Hold, ReturnOf, runVars, flagVars, dbVars, bounds
  <2>1. CASE StartInit(c)
    BY <2>1 DEF StartInit
  <2>2. CASE RelaunchCheck(c)
    BY <2>2 DEF RelaunchCheck
  <2>3. CASE StopLookup(c)
    <3>1. \A r \in cancelled' : r \in cancelled \/ (slot # NoRun /\ r = slot)
      BY <2>3 DEF StopLookup
    <3>2. UNCHANGED <<status, launches, slot, loop, doneOf>>
      BY <2>3, <3>1 DEF StopLookup
    <3>3. QED BY <2>3, <3>1, <3>2 DEF StopLookup
  <2>4. CASE FailCheck(c)
    BY <2>4 DEF FailCheck
  <2>5. CASE SettleLookup(c)
    BY <2>5 DEF SettleLookup
  <2>6. CASE Settled(c)
    BY <2>6 DEF Settled
  <2>7. CASE RelaunchAborts(c)
    BY <2>7 DEF RelaunchAborts
  <2>8. CASE Activate(c)
    BY <2>8 DEF Activate
  <2>9. CASE LaunchAborts(c)
    BY <2>9 DEF LaunchAborts
  <2>10. CASE Register(c)
    BY <2>10 DEF Register
  <2>11. CASE PreStepFails(c)
    BY <2>11 DEF PreStepFails
  <2>12. CASE Spawn(c)
    BY <2>12 DEF Spawn
  <2>13. CASE Drained(c)
    BY <2>13 DEF Drained
  <2>14. CASE ForceCheck(c)
    BY <2>14 DEF ForceCheck
  <2>15. CASE ForceWrite(c)
    BY <2>15 DEF ForceWrite
  <2>16. CASE FailLookup(c)
    BY <2>16 DEF FailLookup
  <2>17. CASE SetReason(c)
    BY <2>17 DEF SetReason
  <2>18. CASE CancelRun(c)
    BY <2>18 DEF CancelRun
  <2>19. CASE FailWrite(c)
    BY <2>19 DEF FailWrite
  <2>20. CASE WaitTimeout(c)
    BY <2>20 DEF WaitTimeout
  <2>21. QED BY <1>3, <2>1, <2>2, <2>3, <2>4, <2>5, <2>6, <2>7, <2>8, <2>9, <2>10, <2>11,
    <2>12, <2>13, <2>14, <2>15, <2>16, <2>17, <2>18, <2>19, <2>20 DEF Call, CallerStep
<1>4. ASSUME NEW r \in Run, RunStep(r), ~Restart
      PROVE  Numbered'
  <2> USE DEF runVars, flagVars, dbVars, callVars, bounds
  <2>1. CASE GrabDone(r)
    <3>1. slot # NoRun
      BY <1>4, <2>1 DEF GrabDone
    <3>2. /\ loop' = [loop EXCEPT ![r] = IF r \in preStep THEN "preStep" ELSE "live"]
          /\ doneOf' = [doneOf EXCEPT ![r] = slot]
         /\ UNCHANGED <<status, slot, launches, cancelled>>
      BY <1>4, <2>1, <3>1 DEF GrabDone
    <3>3. \A s \in Run : /\ loop'[s] = "none" <=> loop[s] = "none"
                       /\ loop'[s] \in Begun => doneOf'[s] # NoRun
      BY <1>4, <2>1, <3>1, <3>2 DEF GrabDone
    <3>4. QED BY <1>4, <2>1, <3>1, <3>2, <3>3 DEF GrabDone
  <2>2. CASE PreStepEnds(r)
    BY <1>4, <2>2 DEF PreStepEnds
  <2>3. CASE PreStepCancelled(r)
    BY <1>4, <2>3 DEF PreStepCancelled
  <2>4. CASE CreateSession(r)
    BY <1>4, <2>4 DEF CreateSession
  <2>5. CASE Publish(r)
    BY <1>4, <2>5 DEF Publish
  <2>6. CASE DeleteEntry(r)
    BY <1>4, <2>6 DEF DeleteEntry
  <2>7. CASE CloseDone(r)
    BY <1>4, <2>7 DEF CloseDone
  <2>8. QED BY <1>4, <2>1, <2>2, <2>3, <2>4, <2>5, <2>6, <2>7 DEF RunStep, LoopStep
<1>5. QED BY <1>1, <1>2, <1>3, <1>4, RestartOrStep

\* An instance that becomes active has a launch under way, one that stays
\* active keeps a run or a launch.
LEMMA OrphanStep ==
  ASSUME AInv, [Next]_vars
  PROVE  NoOrphan'
<1> USE DEF AInv, TypeOK, Placed, Numbered, NoOrphan, NoRun, Run, Running
<1>1. CASE UNCHANGED vars
  BY <1>1 DEF vars, runVars, flagVars, dbVars, callVars, bounds
<1>2. CASE Restart /\ restarts' \in 0..MaxRestarts
  BY <1>2 DEF Restart, InMemoryEmpty, Sweep
<1>3. ASSUME NEW c \in Caller, Call(c) \/ CallerStep(c) \/ WaitTimeout(c)
      PROVE  NoOrphan'
  <2> USE DEF At, GoTo, Begin, Hold, ReturnOf, runVars, flagVars, dbVars, bounds
  <2>1. CASE StartInit(c)
    BY <2>1 DEF StartInit
  <2>2. CASE RelaunchCheck(c)
    BY <2>2 DEF RelaunchCheck
  <2>3. CASE StopLookup(c)
    BY <2>3 DEF StopLookup
  <2>4. CASE FailCheck(c)
    BY <2>4 DEF FailCheck
  <2>5. CASE SettleLookup(c)
    BY <2>5 DEF SettleLookup
  <2>6. CASE Settled(c)
    BY <2>6 DEF Settled
  <2>7. CASE RelaunchAborts(c)
    BY <2>7 DEF RelaunchAborts
  <2>8. CASE Activate(c)
    BY <2>8 DEF Activate
  <2>9. CASE LaunchAborts(c)
    BY <2>9 DEF LaunchAborts
  <2>10. CASE Register(c)
    <3>1. launches + 1 \in Run
      BY <2>10, BoundAssumption DEF Register
    <3>2. loop'[launches + 1] = "registered"
      BY <2>10, BoundAssumption, <3>1 DEF Register
    <3>3. QED BY <2>10, BoundAssumption, <3>1, <3>2 DEF Register
  <2>11. CASE PreStepFails(c)
    BY <2>11 DEF PreStepFails
  <2>12. CASE Spawn(c)
    BY <2>12 DEF Spawn
  <2>13. CASE Drained(c)
    BY <2>13 DEF Drained
  <2>14. CASE ForceCheck(c)
    BY <2>14 DEF ForceCheck
  <2>15. CASE ForceWrite(c)
    BY <2>15 DEF ForceWrite
  <2>16. CASE FailLookup(c)
    BY <2>16 DEF FailLookup
  <2>17. CASE SetReason(c)
    BY <2>17 DEF SetReason
  <2>18. CASE CancelRun(c)
    BY <2>18 DEF CancelRun
  <2>19. CASE FailWrite(c)
    BY <2>19 DEF FailWrite
  <2>20. CASE WaitTimeout(c)
    BY <2>20 DEF WaitTimeout
  <2>21. QED BY <1>3, <2>1, <2>2, <2>3, <2>4, <2>5, <2>6, <2>7, <2>8, <2>9, <2>10, <2>11,
    <2>12, <2>13, <2>14, <2>15, <2>16, <2>17, <2>18, <2>19, <2>20 DEF Call, CallerStep
<1>4. ASSUME NEW r \in Run, RunStep(r), ~Restart
      PROVE  NoOrphan'
  <2> USE DEF runVars, flagVars, dbVars, callVars, bounds
  <2>1. CASE GrabDone(r)
    BY <1>4, <2>1 DEF GrabDone
  <2>2. CASE PreStepEnds(r)
    BY <1>4, <2>2 DEF PreStepEnds
  <2>3. CASE PreStepCancelled(r)
    BY <1>4, <2>3 DEF PreStepCancelled
  <2>4. CASE CreateSession(r)
    BY <1>4, <2>4 DEF CreateSession
  <2>5. CASE Publish(r)
    BY <1>4, <2>5 DEF Publish
  <2>6. CASE DeleteEntry(r)
    BY <1>4, <2>6 DEF DeleteEntry
  <2>7. CASE CloseDone(r)
    BY <1>4, <2>7 DEF CloseDone
  <2>8. QED BY <1>4, <2>1, <2>2, <2>3, <2>4, <2>5, <2>6, <2>7 DEF RunStep, LoopStep
<1>5. QED BY <1>1, <1>2, <1>3, <1>4, RestartOrStep

(***************************************************************************)
(* Launches that do not overlap.                                           *)
(***************************************************************************)
\* A goroutine takes the channel of its own run: the entry is there.
LEMMA TakesOwn ==
  ASSUME BInv, NEW r \in Run, GrabDone(r)
  PROVE  /\ slot = r /\ loop[r] = "spawned"
         /\ loop' = [loop EXCEPT ![r] = IF r \in preStep THEN "preStep" ELSE "live"]
         /\ doneOf' = [doneOf EXCEPT ![r] = r]
         /\ UNCHANGED <<slot, preStep, closed, flagVars, dbVars, callVars, bounds>>
BY DEF BInv, Registered, Held, Running, GrabDone, NoRun, Run, bounds

\* A goroutine closes the channel of its own run, once.
LEMMA ClosesOwn ==
  ASSUME BInv, NEW r \in Run, CloseDone(r)
  PROVE  /\ loop[r] = "deleted"
         /\ loop' = [loop EXCEPT ![r] = "gone"] /\ closed' = closed \cup {r}
         /\ UNCHANGED <<slot, preStep, doneOf, flagVars, dbVars, callVars, bounds>>
BY DEF BInv, Registered, Begun, CloseDone, bounds

\* The o.runs entry stays that of the last run: a launch finds none, and a
\* goroutine deletes its own.
LEMMA RegisteredStep ==
  ASSUME BInv, OneLaunch, [Next]_vars
  PROVE  Registered'
<1> USE DEF BInv, AInv, TypeOK, Placed, Numbered, Registered, LaunchCurrent, NoRun, Run,
  Held, Begun, Running
<1>1. CASE UNCHANGED vars
  BY <1>1 DEF vars, runVars, flagVars, dbVars, callVars, bounds
<1>2. CASE Restart /\ restarts' \in 0..MaxRestarts
  BY <1>2 DEF Restart, InMemoryEmpty, Sweep
<1>3. ASSUME NEW c \in Caller, Call(c) \/ CallerStep(c) \/ WaitTimeout(c)
      PROVE  Registered'
  <2> USE DEF At, GoTo, Begin, Hold, ReturnOf, runVars, flagVars, dbVars, bounds
  <2>1. CASE StartInit(c)
    BY <2>1 DEF StartInit
  <2>2. CASE RelaunchCheck(c)
    BY <2>2 DEF RelaunchCheck
  <2>3. CASE StopLookup(c)
    BY <2>3 DEF StopLookup
  <2>4. CASE FailCheck(c)
    BY <2>4 DEF FailCheck
  <2>5. CASE SettleLookup(c)
    BY <2>5 DEF SettleLookup
  <2>6. CASE Settled(c)
    BY <2>6 DEF Settled
  <2>7. CASE RelaunchAborts(c)
    BY <2>7 DEF RelaunchAborts
  <2>8. CASE Activate(c)
    BY <2>8 DEF Activate
  <2>9. CASE LaunchAborts(c)
    BY <2>9 DEF LaunchAborts
  <2>10. CASE Register(c)
    <3>1. launches + 1 \in Run /\ loop[launches + 1] = "none"
      BY <2>10, BoundAssumption DEF Register
    <3>2. slot = NoRun /\ \A s \in Run : loop[s] \notin Held
      BY <2>10, BoundAssumption, <3>1 DEF Register
    <3>3. QED BY <2>10, BoundAssumption, <3>1, <3>2 DEF Register
  <2>11. CASE PreStepFails(c)
    BY <2>11 DEF PreStepFails
  <2>12. CASE Spawn(c)
    BY <2>12 DEF Spawn
  <2>13. CASE Drained(c)
    BY <2>13 DEF Drained
  <2>14. CASE ForceCheck(c)
    BY <2>14 DEF ForceCheck
  <2>15. CASE ForceWrite(c)
    BY <2>15 DEF ForceWrite
  <2>16. CASE FailLookup(c)
    BY <2>16 DEF FailLookup
  <2>17. CASE SetReason(c)
    BY <2>17 DEF SetReason
  <2>18. CASE CancelRun(c)
    BY <2>18 DEF CancelRun
  <2>19. CASE FailWrite(c)
    BY <2>19 DEF FailWrite
  <2>20. CASE WaitTimeout(c)
    BY <2>20 DEF WaitTimeout
  <2>21. QED BY <1>3, <2>1, <2>2, <2>3, <2>4, <2>5, <2>6, <2>7, <2>8, <2>9, <2>10, <2>11,
    <2>12, <2>13, <2>14, <2>15, <2>16, <2>17, <2>18, <2>19, <2>20 DEF Call, CallerStep
<1>4. ASSUME NEW r \in Run, RunStep(r), ~Restart
      PROVE  Registered'
  <2> USE DEF runVars, flagVars, dbVars, callVars, bounds
  <2>1. CASE GrabDone(r)
    <3>1. /\ slot = r
          /\ loop' = [loop EXCEPT ![r] = IF r \in preStep THEN "preStep" ELSE "live"]
          /\ loop[r] = "spawned"
          /\ doneOf' = [doneOf EXCEPT ![r] = r]
          /\ UNCHANGED <<slot, preStep, closed, flagVars, dbVars, callVars, bounds>>
      BY <2>1, TakesOwn
    <3>2. QED BY <3>1
  <2>2. CASE PreStepEnds(r)
    <3>1. CASE loop' = [loop EXCEPT ![r] = "live"] /\ UNCHANGED <<status, reason>>
      BY <1>4, <2>2, <3>1 DEF PreStepEnds
    <3>2. CASE loop' = [loop EXCEPT ![r] = "ended"] /\ status' = "failed" /\ reason' = "own"
      BY <1>4, <2>2, <3>2 DEF PreStepEnds
    <3>3. QED BY <2>2, <3>1, <3>2 DEF PreStepEnds
  <2>3. CASE PreStepCancelled(r)
    BY <1>4, <2>3 DEF PreStepCancelled
  <2>4. CASE CreateSession(r)
    BY <1>4, <2>4 DEF CreateSession
  <2>5. CASE Publish(r)
    BY <1>4, <2>5 DEF Publish
  <2>6. CASE DeleteEntry(r)
    BY <1>4, <2>6 DEF DeleteEntry
  <2>7. CASE CloseDone(r)
    <3>1. /\ loop' = [loop EXCEPT ![r] = "gone"] /\ closed' = closed \cup {r}
          /\ UNCHANGED <<slot, preStep, doneOf, flagVars, dbVars, callVars, bounds>>
          /\ loop[r] = "deleted"
      BY <2>7, ClosesOwn
    <3>2. QED BY <3>1
  <2>8. QED BY <1>4, <2>1, <2>2, <2>3, <2>4, <2>5, <2>6, <2>7 DEF RunStep, LoopStep
<1>5. QED BY <1>1, <1>2, <1>3, <1>4, RestartOrStep

\* What a launch has read stays true, since no other launch acts.
LEMMA LaunchCurrentStep ==
  ASSUME BInv, OneLaunch, [Next]_vars
  PROVE  LaunchCurrent'
<1> USE DEF BInv, AInv, TypeOK, Placed, Numbered, Registered, LaunchCurrent, NoRun, Run,
  Held, Begun, Running, OneLaunch, Launching, LaunchOps
<1>1. CASE UNCHANGED vars
  BY <1>1 DEF vars, runVars, flagVars, dbVars, callVars, bounds
<1>2. CASE Restart /\ restarts' \in 0..MaxRestarts
  BY <1>2 DEF Restart, InMemoryEmpty, Sweep
<1>3. ASSUME NEW c \in Caller, Call(c) \/ CallerStep(c) \/ WaitTimeout(c)
      PROVE  LaunchCurrent'
  <2> USE DEF At, GoTo, Begin, Hold, ReturnOf, runVars, flagVars, dbVars, bounds
  <2>1. CASE StartInit(c)
    BY <2>1 DEF StartInit
  <2>2. CASE RelaunchCheck(c)
    BY <2>2 DEF RelaunchCheck
  <2>3. CASE StopLookup(c)
    BY <2>3 DEF StopLookup
  <2>4. CASE FailCheck(c)
    BY <2>4 DEF FailCheck
  <2>5. CASE SettleLookup(c)
    BY <2>5 DEF SettleLookup
  <2>6. CASE Settled(c)
    BY <2>6 DEF Settled
  <2>7. CASE RelaunchAborts(c)
    BY <2>7 DEF RelaunchAborts
  <2>8. CASE Activate(c)
    BY <2>8 DEF Activate
  <2>9. CASE LaunchAborts(c)
    BY <2>9 DEF LaunchAborts
  <2>10. CASE Register(c)
    <3>1. launches + 1 \in Run /\ loop[launches + 1] = "none"
      BY <2>10, BoundAssumption DEF Register
    <3>2. \A d \in Caller : Launching(d) => d = c
      BY <2>10, BoundAssumption, <3>1 DEF Register
    <3>3. \A d \in Caller : d # c => pc[d] \notin {"register", "lookup", "settle", "activate", "go"}
      BY <2>10, BoundAssumption, <3>1, <3>2 DEF Register
    <3>4. QED BY <2>10, BoundAssumption, <3>1, <3>2, <3>3 DEF Register
  <2>11. CASE PreStepFails(c)
    BY <2>11 DEF PreStepFails
  <2>12. CASE Spawn(c)
    BY <2>12 DEF Spawn
  <2>13. CASE Drained(c)
    BY <2>13 DEF Drained
  <2>14. CASE ForceCheck(c)
    BY <2>14 DEF ForceCheck
  <2>15. CASE ForceWrite(c)
    BY <2>15 DEF ForceWrite
  <2>16. CASE FailLookup(c)
    BY <2>16 DEF FailLookup
  <2>17. CASE SetReason(c)
    BY <2>17 DEF SetReason
  <2>18. CASE CancelRun(c)
    BY <2>18 DEF CancelRun
  <2>19. CASE FailWrite(c)
    BY <2>19 DEF FailWrite
  <2>20. CASE WaitTimeout(c)
    BY <2>20 DEF WaitTimeout
  <2>21. QED BY <1>3, <2>1, <2>2, <2>3, <2>4, <2>5, <2>6, <2>7, <2>8, <2>9, <2>10, <2>11,
    <2>12, <2>13, <2>14, <2>15, <2>16, <2>17, <2>18, <2>19, <2>20 DEF Call, CallerStep
<1>4. ASSUME NEW r \in Run, RunStep(r), ~Restart
      PROVE  LaunchCurrent'
  <2> USE DEF runVars, flagVars, dbVars, callVars, bounds
  <2>1. CASE GrabDone(r)
    <3>1. /\ slot = r
          /\ loop' = [loop EXCEPT ![r] = IF r \in preStep THEN "preStep" ELSE "live"]
          /\ loop[r] = "spawned"
          /\ doneOf' = [doneOf EXCEPT ![r] = r]
          /\ UNCHANGED <<slot, preStep, closed, flagVars, dbVars, callVars, bounds>>
      BY <2>1, TakesOwn
    <3>2. QED BY <3>1
  <2>2. CASE PreStepEnds(r)
    <3>1. CASE loop' = [loop EXCEPT ![r] = "live"] /\ UNCHANGED <<status, reason>>
      BY <1>4, <2>2, <3>1 DEF PreStepEnds
    <3>2. CASE loop' = [loop EXCEPT ![r] = "ended"] /\ status' = "failed" /\ reason' = "own"
      BY <1>4, <2>2, <3>2 DEF PreStepEnds
    <3>3. QED BY <2>2, <3>1, <3>2 DEF PreStepEnds
  <2>3. CASE PreStepCancelled(r)
    BY <1>4, <2>3 DEF PreStepCancelled
  <2>4. CASE CreateSession(r)
    BY <1>4, <2>4 DEF CreateSession
  <2>5. CASE Publish(r)
    BY <1>4, <2>5 DEF Publish
  <2>6. CASE DeleteEntry(r)
    BY <1>4, <2>6 DEF DeleteEntry
  <2>7. CASE CloseDone(r)
    <3>1. /\ loop' = [loop EXCEPT ![r] = "gone"] /\ closed' = closed \cup {r}
          /\ UNCHANGED <<slot, preStep, doneOf, flagVars, dbVars, callVars, bounds>>
          /\ loop[r] = "deleted"
      BY <2>7, ClosesOwn
    <3>2. QED BY <3>1
  <2>8. QED BY <1>4, <2>1, <2>2, <2>3, <2>4, <2>5, <2>6, <2>7 DEF RunStep, LoopStep
<1>5. QED BY <1>1, <1>2, <1>3, <1>4, RestartOrStep

\* A run that is cancelled without Stop has its reason.
LEMMA ReasonFirstStep ==
  ASSUME BInv, [Next]_vars
  PROVE  ReasonFirst'
<1> USE DEF BInv, AInv, TypeOK, Placed, Numbered, Registered, LaunchCurrent, NoRun, Run,
  Held, Begun, Running, ReasonFirst
<1>1. CASE UNCHANGED vars
  BY <1>1 DEF vars, runVars, flagVars, dbVars, callVars, bounds
<1>2. CASE Restart /\ restarts' \in 0..MaxRestarts
  BY <1>2 DEF Restart, InMemoryEmpty, Sweep
<1>3. ASSUME NEW c \in Caller, Call(c) \/ CallerStep(c) \/ WaitTimeout(c)
      PROVE  ReasonFirst'
  <2> USE DEF At, GoTo, Begin, Hold, ReturnOf, runVars, flagVars, dbVars, bounds
  <2>1. CASE StartInit(c)
    BY <2>1 DEF StartInit
  <2>2. CASE RelaunchCheck(c)
    BY <2>2 DEF RelaunchCheck
  <2>3. CASE StopLookup(c)
    BY <2>3 DEF StopLookup
  <2>4. CASE FailCheck(c)
    BY <2>4 DEF FailCheck
  <2>5. CASE SettleLookup(c)
    BY <2>5 DEF SettleLookup
  <2>6. CASE Settled(c)
    BY <2>6 DEF Settled
  <2>7. CASE RelaunchAborts(c)
    BY <2>7 DEF RelaunchAborts
  <2>8. CASE Activate(c)
    BY <2>8 DEF Activate
  <2>9. CASE LaunchAborts(c)
    BY <2>9 DEF LaunchAborts
  <2>10. CASE Register(c)
    BY <2>10 DEF Register
  <2>11. CASE PreStepFails(c)
    BY <2>11 DEF PreStepFails
  <2>12. CASE Spawn(c)
    BY <2>12 DEF Spawn
  <2>13. CASE Drained(c)
    BY <2>13 DEF Drained
  <2>14. CASE ForceCheck(c)
    BY <2>14 DEF ForceCheck
  <2>15. CASE ForceWrite(c)
    BY <2>15 DEF ForceWrite
  <2>16. CASE FailLookup(c)
    BY <2>16 DEF FailLookup
  <2>17. CASE SetReason(c)
    BY <2>17 DEF SetReason
  <2>18. CASE CancelRun(c)
    BY <2>18 DEF CancelRun
  <2>19. CASE FailWrite(c)
    BY <2>19 DEF FailWrite
  <2>20. CASE WaitTimeout(c)
    BY <2>20 DEF WaitTimeout
  <2>21. QED BY <1>3, <2>1, <2>2, <2>3, <2>4, <2>5, <2>6, <2>7, <2>8, <2>9, <2>10, <2>11,
    <2>12, <2>13, <2>14, <2>15, <2>16, <2>17, <2>18, <2>19, <2>20 DEF Call, CallerStep
<1>4. ASSUME NEW r \in Run, RunStep(r), ~Restart
      PROVE  ReasonFirst'
  <2> USE DEF runVars, flagVars, dbVars, callVars, bounds
  <2>1. CASE GrabDone(r)
    <3>1. /\ slot = r
          /\ loop' = [loop EXCEPT ![r] = IF r \in preStep THEN "preStep" ELSE "live"]
          /\ loop[r] = "spawned"
          /\ doneOf' = [doneOf EXCEPT ![r] = r]
          /\ UNCHANGED <<slot, preStep, closed, flagVars, dbVars, callVars, bounds>>
      BY <2>1, TakesOwn
    <3>2. QED BY <3>1
  <2>2. CASE PreStepEnds(r)
    <3>1. CASE loop' = [loop EXCEPT ![r] = "live"] /\ UNCHANGED <<status, reason>>
      BY <1>4, <2>2, <3>1 DEF PreStepEnds
    <3>2. CASE loop' = [loop EXCEPT ![r] = "ended"] /\ status' = "failed" /\ reason' = "own"
      BY <1>4, <2>2, <3>2 DEF PreStepEnds
    <3>3. QED BY <2>2, <3>1, <3>2 DEF PreStepEnds
  <2>3. CASE PreStepCancelled(r)
    BY <1>4, <2>3 DEF PreStepCancelled
  <2>4. CASE CreateSession(r)
    BY <1>4, <2>4 DEF CreateSession
  <2>5. CASE Publish(r)
    BY <1>4, <2>5 DEF Publish
  <2>6. CASE DeleteEntry(r)
    BY <1>4, <2>6 DEF DeleteEntry
  <2>7. CASE CloseDone(r)
    <3>1. /\ loop' = [loop EXCEPT ![r] = "gone"] /\ closed' = closed \cup {r}
          /\ UNCHANGED <<slot, preStep, doneOf, flagVars, dbVars, callVars, bounds>>
          /\ loop[r] = "deleted"
      BY <2>7, ClosesOwn
    <3>2. QED BY <3>1
  <2>8. QED BY <1>4, <2>1, <2>2, <2>3, <2>4, <2>5, <2>6, <2>7 DEF RunStep, LoopStep
<1>5. QED BY <1>1, <1>2, <1>3, <1>4, RestartOrStep

\* A registered run stays with its launch until it starts or is given up.
LEMMA LaunchedByOneStep ==
  ASSUME DInv, OneLaunch, [Next]_vars
  PROVE  LaunchedByOne'
<1> USE DEF DInv, BInv, AInv, TypeOK, Placed, Numbered, Registered, LaunchCurrent, NoRun,
  Run, Held, Begun, Running, LaunchedByOne, OneLaunch, Launching, LaunchOps
<1>1. CASE UNCHANGED vars
  BY <1>1 DEF vars, runVars, flagVars, dbVars, callVars, bounds
<1>2. CASE Restart /\ restarts' \in 0..MaxRestarts
  BY <1>2 DEF Restart, InMemoryEmpty, Sweep
<1>3. ASSUME NEW c \in Caller, Call(c) \/ CallerStep(c) \/ WaitTimeout(c)
      PROVE  LaunchedByOne'
  <2> USE DEF At, GoTo, Begin, Hold, ReturnOf, runVars, flagVars, dbVars, bounds
  <2>1. CASE StartInit(c)
    BY <2>1 DEF StartInit
  <2>2. CASE RelaunchCheck(c)
    BY <2>2 DEF RelaunchCheck
  <2>3. CASE StopLookup(c)
    BY <2>3 DEF StopLookup
  <2>4. CASE FailCheck(c)
    BY <2>4 DEF FailCheck
  <2>5. CASE SettleLookup(c)
    BY <2>5 DEF SettleLookup
  <2>6. CASE Settled(c)
    BY <2>6 DEF Settled
  <2>7. CASE RelaunchAborts(c)
    BY <2>7 DEF RelaunchAborts
  <2>8. CASE Activate(c)
    BY <2>8 DEF Activate
  <2>9. CASE LaunchAborts(c)
    BY <2>9 DEF LaunchAborts
  <2>10. CASE Register(c)
    <3>1. launches + 1 \in Run /\ loop[launches + 1] = "none"
      BY <2>10, BoundAssumption DEF Register
    <3>2. loop' = [loop EXCEPT ![launches + 1] = "registered"] /\ rs'[c] = launches + 1 /\ pc'[c] = "go"
      BY <2>10, BoundAssumption, <3>1 DEF Register
    <3>3. \A d \in Caller : d # c => rs'[d] = rs[d] /\ pc'[d] = pc[d]
      BY <2>10, BoundAssumption, <3>1, <3>2 DEF Register
    <3>4. QED BY <2>10, BoundAssumption, <3>1, <3>2, <3>3 DEF Register
  <2>11. CASE PreStepFails(c)
    BY <2>11 DEF PreStepFails
  <2>12. CASE Spawn(c)
    BY <2>12 DEF Spawn
  <2>13. CASE Drained(c)
    BY <2>13 DEF Drained
  <2>14. CASE ForceCheck(c)
    BY <2>14 DEF ForceCheck
  <2>15. CASE ForceWrite(c)
    BY <2>15 DEF ForceWrite
  <2>16. CASE FailLookup(c)
    BY <2>16 DEF FailLookup
  <2>17. CASE SetReason(c)
    BY <2>17 DEF SetReason
  <2>18. CASE CancelRun(c)
    BY <2>18 DEF CancelRun
  <2>19. CASE FailWrite(c)
    BY <2>19 DEF FailWrite
  <2>20. CASE WaitTimeout(c)
    BY <2>20 DEF WaitTimeout
  <2>21. QED BY <1>3, <2>1, <2>2, <2>3, <2>4, <2>5, <2>6, <2>7, <2>8, <2>9, <2>10, <2>11,
    <2>12, <2>13, <2>14, <2>15, <2>16, <2>17, <2>18, <2>19, <2>20 DEF Call, CallerStep
<1>4. ASSUME NEW r \in Run, RunStep(r), ~Restart
      PROVE  LaunchedByOne'
  <2> USE DEF runVars, flagVars, dbVars, callVars, bounds
  <2>1. CASE GrabDone(r)
    <3>1. /\ slot = r
          /\ loop' = [loop EXCEPT ![r] = IF r \in preStep THEN "preStep" ELSE "live"]
          /\ loop[r] = "spawned"
          /\ doneOf' = [doneOf EXCEPT ![r] = r]
          /\ UNCHANGED <<slot, preStep, closed, flagVars, dbVars, callVars, bounds>>
      BY <2>1, TakesOwn
    <3>2. QED BY <3>1
  <2>2. CASE PreStepEnds(r)
    <3>1. CASE loop' = [loop EXCEPT ![r] = "live"] /\ UNCHANGED <<status, reason>>
      BY <1>4, <2>2, <3>1 DEF PreStepEnds
    <3>2. CASE loop' = [loop EXCEPT ![r] = "ended"] /\ status' = "failed" /\ reason' = "own"
      BY <1>4, <2>2, <3>2 DEF PreStepEnds
    <3>3. QED BY <2>2, <3>1, <3>2 DEF PreStepEnds
  <2>3. CASE PreStepCancelled(r)
    BY <1>4, <2>3 DEF PreStepCancelled
  <2>4. CASE CreateSession(r)
    BY <1>4, <2>4 DEF CreateSession
  <2>5. CASE Publish(r)
    BY <1>4, <2>5 DEF Publish
  <2>6. CASE DeleteEntry(r)
    BY <1>4, <2>6 DEF DeleteEntry
  <2>7. CASE CloseDone(r)
    <3>1. /\ loop' = [loop EXCEPT ![r] = "gone"] /\ closed' = closed \cup {r}
          /\ UNCHANGED <<slot, preStep, doneOf, flagVars, dbVars, callVars, bounds>>
          /\ loop[r] = "deleted"
      BY <2>7, ClosesOwn
    <3>2. QED BY <3>1
  <2>8. QED BY <1>4, <2>1, <2>2, <2>3, <2>4, <2>5, <2>6, <2>7 DEF RunStep, LoopStep
<1>5. QED BY <1>1, <1>2, <1>3, <1>4, RestartOrStep

\* Waits begin on a run that will close its channel, and it does.
LEMMA WaitsEndStep ==
  ASSUME DInv, OneLaunch, [Next]_vars
  PROVE  WaitsEnd'
<1> USE DEF DInv, BInv, AInv, TypeOK, Placed, Numbered, Registered, LaunchCurrent, NoRun,
  Run, Held, Begun, Running, LaunchedByOne, WaitsEnd, WillClose, OneLaunch, Launching,
  LaunchOps
<1>1. CASE UNCHANGED vars
  BY <1>1 DEF vars, runVars, flagVars, dbVars, callVars, bounds
<1>2. CASE Restart /\ restarts' \in 0..MaxRestarts
  BY <1>2 DEF Restart, InMemoryEmpty, Sweep
<1>3. ASSUME NEW c \in Caller, Call(c) \/ CallerStep(c) \/ WaitTimeout(c)
      PROVE  WaitsEnd'
  <2> USE DEF At, GoTo, Begin, Hold, ReturnOf, runVars, flagVars, dbVars, bounds
  <2>1. CASE StartInit(c)
    BY <2>1 DEF StartInit
  <2>2. CASE RelaunchCheck(c)
    BY <2>2 DEF RelaunchCheck
  <2>3. CASE StopLookup(c)
    BY <2>3 DEF StopLookup
  <2>4. CASE FailCheck(c)
    BY <2>4 DEF FailCheck
  <2>5. CASE SettleLookup(c)
    BY <2>5 DEF SettleLookup
  <2>6. CASE Settled(c)
    BY <2>6 DEF Settled
  <2>7. CASE RelaunchAborts(c)
    BY <2>7 DEF RelaunchAborts
  <2>8. CASE Activate(c)
    BY <2>8 DEF Activate
  <2>9. CASE LaunchAborts(c)
    BY <2>9 DEF LaunchAborts
  <2>10. CASE Register(c)
    BY <2>10 DEF Register
  <2>11. CASE PreStepFails(c)
    BY <2>11 DEF PreStepFails
  <2>12. CASE Spawn(c)
    BY <2>12 DEF Spawn
  <2>13. CASE Drained(c)
    BY <2>13 DEF Drained
  <2>14. CASE ForceCheck(c)
    BY <2>14 DEF ForceCheck
  <2>15. CASE ForceWrite(c)
    BY <2>15 DEF ForceWrite
  <2>16. CASE FailLookup(c)
    BY <2>16 DEF FailLookup
  <2>17. CASE SetReason(c)
    BY <2>17 DEF SetReason
  <2>18. CASE CancelRun(c)
    BY <2>18 DEF CancelRun
  <2>19. CASE FailWrite(c)
    BY <2>19 DEF FailWrite
  <2>20. CASE WaitTimeout(c)
    BY <2>20 DEF WaitTimeout
  <2>21. QED BY <1>3, <2>1, <2>2, <2>3, <2>4, <2>5, <2>6, <2>7, <2>8, <2>9, <2>10, <2>11,
    <2>12, <2>13, <2>14, <2>15, <2>16, <2>17, <2>18, <2>19, <2>20 DEF Call, CallerStep
<1>4. ASSUME NEW r \in Run, RunStep(r), ~Restart
      PROVE  WaitsEnd'
  <2> USE DEF runVars, flagVars, dbVars, callVars, bounds
  <2>1. CASE GrabDone(r)
    <3>1. /\ slot = r
          /\ loop' = [loop EXCEPT ![r] = IF r \in preStep THEN "preStep" ELSE "live"]
          /\ loop[r] = "spawned"
          /\ doneOf' = [doneOf EXCEPT ![r] = r]
          /\ UNCHANGED <<slot, preStep, closed, flagVars, dbVars, callVars, bounds>>
      BY <2>1, TakesOwn
    <3>2. QED BY <3>1
  <2>2. CASE PreStepEnds(r)
    <3>1. CASE loop' = [loop EXCEPT ![r] = "live"] /\ UNCHANGED <<status, reason>>
      BY <1>4, <2>2, <3>1 DEF PreStepEnds
    <3>2. CASE loop' = [loop EXCEPT ![r] = "ended"] /\ status' = "failed" /\ reason' = "own"
      BY <1>4, <2>2, <3>2 DEF PreStepEnds
    <3>3. QED BY <2>2, <3>1, <3>2 DEF PreStepEnds
  <2>3. CASE PreStepCancelled(r)
    BY <1>4, <2>3 DEF PreStepCancelled
  <2>4. CASE CreateSession(r)
    BY <1>4, <2>4 DEF CreateSession
  <2>5. CASE Publish(r)
    BY <1>4, <2>5 DEF Publish
  <2>6. CASE DeleteEntry(r)
    BY <1>4, <2>6 DEF DeleteEntry
  <2>7. CASE CloseDone(r)
    <3>1. /\ loop' = [loop EXCEPT ![r] = "gone"] /\ closed' = closed \cup {r}
          /\ UNCHANGED <<slot, preStep, doneOf, flagVars, dbVars, callVars, bounds>>
          /\ loop[r] = "deleted"
      BY <2>7, ClosesOwn
    <3>2. QED BY <3>1
  <2>8. QED BY <1>4, <2>1, <2>2, <2>3, <2>4, <2>5, <2>6, <2>7 DEF RunStep, LoopStep
<1>5. QED BY <1>1, <1>2, <1>3, <1>4, RestartOrStep

(***************************************************************************)
(* Launches that no blind stop or failure overlaps.                        *)
(***************************************************************************)
\* The status follows the runs.
LEMMA StatusStep ==
  ASSUME CInv, Undisturbed, [Next]_vars
  PROVE  StatusTrue'
<1> USE DEF CInv, BInv, AInv, TypeOK, Placed, Numbered, Registered, LaunchCurrent, NoRun,
  Run, Held, Begun, Running, StatusTrue, Undisturbed, Blind, Launching, LaunchOps
<1>1. CASE UNCHANGED vars
  BY <1>1 DEF vars, runVars, flagVars, dbVars, callVars, bounds
<1>2. CASE Restart /\ restarts' \in 0..MaxRestarts
  BY <1>2 DEF Restart, InMemoryEmpty, Sweep
<1>3. ASSUME NEW c \in Caller, Call(c) \/ CallerStep(c) \/ WaitTimeout(c)
      PROVE  StatusTrue'
  <2> USE DEF At, GoTo, Begin, Hold, ReturnOf, runVars, flagVars, dbVars, bounds
  <2>1. CASE StartInit(c)
    BY <2>1 DEF StartInit
  <2>2. CASE RelaunchCheck(c)
    BY <2>2 DEF RelaunchCheck
  <2>3. CASE StopLookup(c)
    BY <2>3 DEF StopLookup
  <2>4. CASE FailCheck(c)
    BY <2>4 DEF FailCheck
  <2>5. CASE SettleLookup(c)
    BY <2>5 DEF SettleLookup
  <2>6. CASE Settled(c)
    BY <2>6 DEF Settled
  <2>7. CASE RelaunchAborts(c)
    BY <2>7 DEF RelaunchAborts
  <2>8. CASE Activate(c)
    BY <2>8 DEF Activate
  <2>9. CASE LaunchAborts(c)
    BY <2>9 DEF LaunchAborts
  <2>10. CASE Register(c)
    BY <2>10 DEF Register
  <2>11. CASE PreStepFails(c)
    BY <2>11 DEF PreStepFails
  <2>12. CASE Spawn(c)
    BY <2>12 DEF Spawn
  <2>13. CASE Drained(c)
    BY <2>13 DEF Drained
  <2>14. CASE ForceCheck(c)
    BY <2>14 DEF ForceCheck
  <2>15. CASE ForceWrite(c)
    BY <2>15 DEF ForceWrite
  <2>16. CASE FailLookup(c)
    BY <2>16 DEF FailLookup
  <2>17. CASE SetReason(c)
    BY <2>17 DEF SetReason
  <2>18. CASE CancelRun(c)
    BY <2>18 DEF CancelRun
  <2>19. CASE FailWrite(c)
    BY <2>19 DEF FailWrite
  <2>20. CASE WaitTimeout(c)
    BY <2>20 DEF WaitTimeout
  <2>21. QED BY <1>3, <2>1, <2>2, <2>3, <2>4, <2>5, <2>6, <2>7, <2>8, <2>9, <2>10, <2>11,
    <2>12, <2>13, <2>14, <2>15, <2>16, <2>17, <2>18, <2>19, <2>20 DEF Call, CallerStep
<1>4. ASSUME NEW r \in Run, RunStep(r), ~Restart
      PROVE  StatusTrue'
  <2> USE DEF runVars, flagVars, dbVars, callVars, bounds
  <2>1. CASE GrabDone(r)
    <3>1. /\ slot = r
          /\ loop' = [loop EXCEPT ![r] = IF r \in preStep THEN "preStep" ELSE "live"]
          /\ loop[r] = "spawned"
          /\ doneOf' = [doneOf EXCEPT ![r] = r]
          /\ UNCHANGED <<slot, preStep, closed, flagVars, dbVars, callVars, bounds>>
      BY <2>1, TakesOwn
    <3>2. QED BY <3>1
  <2>2. CASE PreStepEnds(r)
    <3>1. CASE loop' = [loop EXCEPT ![r] = "live"] /\ UNCHANGED <<status, reason>>
      BY <1>4, <2>2, <3>1 DEF PreStepEnds
    <3>2. CASE loop' = [loop EXCEPT ![r] = "ended"] /\ status' = "failed" /\ reason' = "own"
      BY <1>4, <2>2, <3>2 DEF PreStepEnds
    <3>3. QED BY <2>2, <3>1, <3>2 DEF PreStepEnds
  <2>3. CASE PreStepCancelled(r)
    BY <1>4, <2>3 DEF PreStepCancelled
  <2>4. CASE CreateSession(r)
    BY <1>4, <2>4 DEF CreateSession
  <2>5. CASE Publish(r)
    <3>1. slot = r /\ status = "active"
      BY <1>4, <2>5 DEF Publish
    <3>2. \A s \in Run : loop'[s] \notin Running
      BY <1>4, <2>5, <3>1 DEF Publish
    <3>3. QED BY <1>4, <2>5, <3>1, <3>2 DEF Publish
  <2>6. CASE DeleteEntry(r)
    BY <1>4, <2>6 DEF DeleteEntry
  <2>7. CASE CloseDone(r)
    <3>1. /\ loop' = [loop EXCEPT ![r] = "gone"] /\ closed' = closed \cup {r}
          /\ UNCHANGED <<slot, preStep, doneOf, flagVars, dbVars, callVars, bounds>>
          /\ loop[r] = "deleted"
      BY <2>7, ClosesOwn
    <3>2. QED BY <3>1
  <2>8. QED BY <1>4, <2>1, <2>2, <2>3, <2>4, <2>5, <2>6, <2>7 DEF RunStep, LoopStep
<1>5. QED BY <1>1, <1>2, <1>3, <1>4, RestartOrStep

\* Every step is one of the contract or leaves it alone.
LEMMA ContractSteps ==
  ASSUME CInv, Undisturbed, [Next]_vars
  PROVE  ContractStep
<1> USE DEF CInv, BInv, AInv, TypeOK, Placed, Numbered, Registered, LaunchCurrent, NoRun,
  Run, Held, Begun, Running, StatusTrue, Undisturbed, Blind, Launching, LaunchOps,
  Working, ContractStep, Contract!vars
<1>1. CASE UNCHANGED vars
  BY <1>1 DEF vars, runVars, flagVars, dbVars, callVars, bounds
<1>2. CASE Restart /\ restarts' \in 0..MaxRestarts
  <2> USE DEF Restart, InMemoryEmpty, Sweep
  <2>1. ~Working' BY <1>2
  <2>2. CASE status = "active" /\ Working
    <3>1. Contract!Finish BY <1>2, <2>1, <2>2 DEF Contract!Finish
    <3>2. QED BY <3>1 DEF Contract!Next
  <2>3. CASE status = "active" /\ ~Working
    <3>1. Contract!GiveUp BY <1>2, <2>1, <2>3 DEF Contract!GiveUp
    <3>2. QED BY <3>1 DEF Contract!Next
  <2>4. CASE status # "active"
    <3>1. ~Working BY <2>4
    <3>2. QED BY <1>2, <2>1, <2>4, <3>1
  <2>5. QED BY <2>2, <2>3, <2>4
<1>3. ASSUME NEW c \in Caller, Call(c) \/ CallerStep(c) \/ WaitTimeout(c)
      PROVE  ContractStep
  <2> USE DEF At, GoTo, Begin, Hold, ReturnOf, runVars, flagVars, dbVars, bounds
  <2>1. CASE StartInit(c)
    <3>1. UNCHANGED Working
      BY <2>1 DEF StartInit
    <3>2. Contract!Create
      BY <2>1, <3>1 DEF StartInit, Contract!Create, Contract!Work, Contract!Finish,
        Contract!GiveUp, Contract!Resume
    <3>3. QED BY <3>2 DEF Contract!Next
  <2>2. CASE RelaunchCheck(c)
    BY <2>2 DEF RelaunchCheck
  <2>3. CASE StopLookup(c)
    BY <2>3 DEF StopLookup
  <2>4. CASE FailCheck(c)
    BY <2>4 DEF FailCheck
  <2>5. CASE SettleLookup(c)
    BY <2>5 DEF SettleLookup
  <2>6. CASE Settled(c)
    BY <2>6 DEF Settled
  <2>7. CASE RelaunchAborts(c)
    BY <2>7 DEF RelaunchAborts
  <2>8. CASE Activate(c)
    <3>1. ~Working /\ ~Working'
      BY <2>8 DEF Activate
    <3>2. Contract!Resume
      BY <2>8, <3>1 DEF Activate, Contract!Create, Contract!Work, Contract!Finish,
        Contract!GiveUp, Contract!Resume
    <3>3. QED BY <3>2 DEF Contract!Next
  <2>9. CASE LaunchAborts(c)
    BY <2>9 DEF LaunchAborts
  <2>10. CASE Register(c)
    BY <2>10 DEF Register
  <2>11. CASE PreStepFails(c)
    BY <2>11 DEF PreStepFails
  <2>12. CASE Spawn(c)
    BY <2>12 DEF Spawn
  <2>13. CASE Drained(c)
    BY <2>13 DEF Drained
  <2>14. CASE ForceCheck(c)
    BY <2>14 DEF ForceCheck
  <2>15. CASE ForceWrite(c)
    <3>1. ~Working /\ ~Working'
      BY <2>15 DEF ForceWrite
    <3>2. Contract!GiveUp \/ UNCHANGED Contract!vars
      BY <2>15, <3>1 DEF ForceWrite, Contract!Create, Contract!Work, Contract!Finish,
        Contract!GiveUp, Contract!Resume
    <3>3. QED BY <3>2 DEF Contract!Next
  <2>16. CASE FailLookup(c)
    BY <2>16 DEF FailLookup
  <2>17. CASE SetReason(c)
    BY <2>17 DEF SetReason
  <2>18. CASE CancelRun(c)
    BY <2>18 DEF CancelRun
  <2>19. CASE FailWrite(c)
    <3>1. ~Working /\ ~Working'
      BY <2>19 DEF FailWrite
    <3>2. Contract!GiveUp \/ UNCHANGED Contract!vars
      BY <2>19, <3>1 DEF FailWrite, Contract!Create, Contract!Work, Contract!Finish,
        Contract!GiveUp, Contract!Resume
    <3>3. QED BY <3>2 DEF Contract!Next
  <2>20. CASE WaitTimeout(c)
    BY <2>20 DEF WaitTimeout
  <2>21. QED BY <1>3, <2>1, <2>2, <2>3, <2>4, <2>5, <2>6, <2>7, <2>8, <2>9, <2>10, <2>11,
    <2>12, <2>13, <2>14, <2>15, <2>16, <2>17, <2>18, <2>19, <2>20 DEF Call, CallerStep
<1>4. ASSUME NEW r \in Run, RunStep(r), ~Restart
      PROVE  ContractStep
  <2> USE DEF runVars, flagVars, dbVars, callVars, bounds
  <2>1. CASE GrabDone(r)
    <3>1. /\ slot = r
          /\ loop' = [loop EXCEPT ![r] = IF r \in preStep THEN "preStep" ELSE "live"]
          /\ loop[r] = "spawned"
          /\ UNCHANGED status
      BY <2>1, TakesOwn
    <3>2. ~Working
      BY <3>1
    <3>3. CASE Working'
      <4>1. Contract!Work BY <3>1, <3>2, <3>3 DEF Contract!Work
      <4>2. QED BY <4>1 DEF Contract!Next
    <3>4. QED BY <3>1, <3>2, <3>3
  <2>2. CASE PreStepEnds(r)
    <3>1. slot = r /\ status = "active" /\ ~Working
      BY <2>2 DEF PreStepEnds
    <3>2. CASE Working'
      <4>1. status' = "active" BY <2>2, <3>1, <3>2 DEF PreStepEnds
      <4>2. Contract!Work BY <3>1, <3>2, <4>1 DEF Contract!Work
      <4>3. QED BY <4>2 DEF Contract!Next
    <3>3. CASE ~Working'
      <4>1. status' = "failed" BY <2>2, <3>3 DEF PreStepEnds
      <4>2. Contract!GiveUp BY <3>1, <3>3, <4>1 DEF Contract!GiveUp
      <4>3. QED BY <4>2 DEF Contract!Next
    <3>4. QED BY <3>2, <3>3
  <2>3. CASE PreStepCancelled(r)
    <3>1. slot = r /\ status = "active" /\ ~Working
      BY <1>4, <2>3 DEF PreStepCancelled
    <3>2. ~Working'
      BY <1>4, <2>3, <3>1 DEF PreStepCancelled
    <3>3. Contract!GiveUp
      BY <1>4, <2>3, <3>1, <3>2 DEF PreStepCancelled, Contract!Create, Contract!Work,
        Contract!Finish, Contract!GiveUp, Contract!Resume
    <3>4. QED BY <3>3 DEF Contract!Next
  <2>4. CASE CreateSession(r)
    BY <1>4, <2>4 DEF CreateSession
  <2>5. CASE Publish(r)
    <3>1. slot = r /\ status = "active" /\ Working
      BY <1>4, <2>5 DEF Publish
    <3>2. ~Working'
      BY <1>4, <2>5, <3>1 DEF Publish
    <3>3. Contract!Finish
      BY <1>4, <2>5, <3>1, <3>2 DEF Publish, Contract!Create, Contract!Work,
        Contract!Finish, Contract!GiveUp, Contract!Resume
    <3>4. QED BY <3>3 DEF Contract!Next
  <2>6. CASE DeleteEntry(r)
    BY <1>4, <2>6 DEF DeleteEntry
  <2>7. CASE CloseDone(r)
    <3>1. /\ loop' = [loop EXCEPT ![r] = "gone"] /\ closed' = closed \cup {r}
          /\ UNCHANGED <<slot, preStep, doneOf, flagVars, dbVars, callVars, bounds>>
          /\ loop[r] = "deleted"
      BY <2>7, ClosesOwn
    <3>2. QED BY <3>1
  <2>8. QED BY <1>4, <2>1, <2>2, <2>3, <2>4, <2>5, <2>6, <2>7 DEF RunStep, LoopStep
<1>5. QED BY <1>1, <1>2, <1>3, <1>4, RestartOrStep

(***************************************************************************)
(* Any callers: the theorems.                                              *)
(***************************************************************************)

\* Type correctness of the launch and exit protocol, whoever calls it.
THEOREM LifecycleTyped == Spec => []TypeOK
<1>1. Init => AInv
  BY InitInv DEF CInv, BInv
<1>2. AInv /\ [Next]_vars => AInv'
  BY TypeStep, PlacedStep, NumberedStep, OrphanStep DEF AInv
<1>3. AInv => TypeOK
  BY DEF AInv
<1>4. QED BY <1>1, <1>2, <1>3, PTL DEF Spec

\* startupOrphanSweep, forceStopInstance and the exits of runLoop leave no
\* active instance without a run, but for a launch that failed half-way: for
\* any overlap of launches, stops, failures and restarts.
THEOREM NoOrphanLeft == Spec => []NoOrphan
<1>1. Init => AInv
  BY InitInv DEF CInv, BInv
<1>2. AInv /\ [Next]_vars => AInv'
  BY TypeStep, PlacedStep, NumberedStep, OrphanStep DEF AInv
<1>3. AInv => NoOrphan
  BY DEF AInv
<1>4. QED BY <1>1, <1>2, <1>3, PTL DEF Spec

(***************************************************************************)
(* Launches that do not overlap: the theorems.                             *)
(***************************************************************************)

\* Start, retryFailed, ContinueWorkflow and runLoop: with launches that do not
\* overlap, the o.runs entry is that of the last run until it is deleted.
THEOREM EntryIsOfLastRun == Spec /\ []OneLaunch => []BInv
<1>1. Init => BInv
  BY InitInv DEF CInv
<1>2. BInv /\ OneLaunch /\ [Next]_vars => BInv'
  <2> SUFFICES ASSUME BInv, OneLaunch, [Next]_vars PROVE BInv'
    OBVIOUS
  <2>1. AInv'
    BY TypeStep, PlacedStep, NumberedStep, OrphanStep DEF AInv, BInv
  <2>2. QED BY <2>1, RegisteredStep, LaunchCurrentStep, ReasonFirstStep DEF BInv
<1>3. QED BY <1>1, <1>2, PTL DEF Spec

\* The deferred cleanup of runLoop frees the o.runs entry before it closes
\* the done channel that waitForRunToSettle and Stop wait for.
THEOREM DoneFreesEntry == Spec /\ []OneLaunch => []DoneMeansFree
<1>1. BInv => DoneMeansFree
  BY DEF BInv, AInv, TypeOK, Registered, DoneMeansFree, Held, Begun, Running, NoRun, Run
<1>2. QED BY EntryIsOfLastRun, <1>1, PTL

\* A goroutine that starts finds an entry; one that ends, an open channel.
NoPanic ==
  \A r \in Run : /\ loop[r] = "spawned" => slot # NoRun
                 /\ loop[r] = "deleted" => doneOf[r] \notin closed

\* runLoop neither dereferences a missing o.runs entry at its start nor closes
\* a done channel twice at its end: both panic and take the server down.
THEOREM RunsDoNotPanic == Spec /\ []OneLaunch => []NoPanic
<1>1. BInv => NoPanic
  BY DEF BInv, AInv, TypeOK, Registered, NoPanic, Held, Begun, Running, NoRun, Run
<1>2. QED BY EntryIsOfLastRun, <1>1, PTL

\* Two runs of an instance never execute agents at the same time, whatever
\* stops and failures overlap its launches.
THEOREM RunsDoNotOverlap == Spec /\ []OneLaunch => []OneRun
<1>1. BInv => OneRun
  BY DEF BInv, Registered, OneRun, Held, Begun, Running
<1>2. QED BY EntryIsOfLastRun, <1>1, PTL

\* waitForRunToSettle and Stop: whoever waits for a done channel waits for a
\* run that closes it, or for one whose launch failed before it was started.
\* No other waiter ever needs its timeout.
THEOREM WaitersReleased == Spec /\ []OneLaunch => []WaitsEnd
<1>1. Init => DInv
  BY InitInv
<1>2. DInv /\ OneLaunch /\ [Next]_vars => LaunchedByOne' /\ WaitsEnd'
  BY LaunchedByOneStep, WaitsEndStep
<1>3. DInv <=> BInv /\ LaunchedByOne /\ WaitsEnd
  BY DEF DInv
<1>4. QED BY <1>1, <1>2, <1>3, EntryIsOfLastRun, PTL DEF Spec

\* Only the publication of the outcome ends a run that executes agents.
LEMMA OnlyPublish ==
  ASSUME TypeOK, Next, NEW r \in Run, loop[r] = "live", loop'[r] = "ended"
  PROVE  Publish(r)
<1>1. CASE \E c \in Caller : Call(c) \/ CallerStep(c) \/ WaitTimeout(c)
  <2> PICK c \in Caller : Call(c) \/ CallerStep(c) \/ WaitTimeout(c) BY <1>1
  <2> USE DEF TypeOK, runVars
  <2>1. CASE Call(c)
    BY <2>1 DEF Call, StartInit, RelaunchCheck, StopLookup, FailCheck
  <2>2. CASE Register(c) \/ PreStepFails(c) \/ Spawn(c)
    BY <2>2 DEF Register, PreStepFails, Spawn
  <2>3. CASE UNCHANGED runVars BY <2>3
  <2>4. CASE CallerStep(c) /\ ~(Register(c) \/ PreStepFails(c) \/ Spawn(c))
    <3>1. UNCHANGED runVars
      BY <2>4 DEF CallerStep, SettleLookup, Settled, RelaunchAborts, Activate,
         LaunchAborts, Drained, ForceCheck, ForceWrite, FailLookup, SetReason,
         CancelRun, FailWrite
    <3>2. QED BY <2>3, <3>1
  <2>5. CASE WaitTimeout(c) BY <2>5 DEF WaitTimeout
  <2>6. QED BY <2>1, <2>2, <2>4, <2>5
<1>2. CASE \E s \in Run : RunStep(s)
  <2> PICK s \in Run : RunStep(s) BY <1>2
  <2> USE DEF TypeOK
  <2>1. CASE GrabDone(s) BY <2>1 DEF GrabDone, Restart, InMemoryEmpty
  <2>2. CASE Publish(s) BY <2>2 DEF Publish
  <2>3. CASE DeleteEntry(s) BY <2>3 DEF DeleteEntry
  <2>4. CASE CloseDone(s) BY <2>4 DEF CloseDone, Restart, InMemoryEmpty
  <2>5. CASE PreStepEnds(s) BY <2>5 DEF PreStepEnds
  <2>6. CASE PreStepCancelled(s) BY <2>6 DEF PreStepCancelled
  <2>7. CASE CreateSession(s) BY <2>7 DEF CreateSession, runVars
  <2>8. QED BY <2>1, <2>2, <2>3, <2>4, <2>5, <2>6, <2>7 DEF RunStep, LoopStep
<1>3. CASE Crash BY <1>3 DEF Crash, Restart, InMemoryEmpty
<1>4. QED BY <1>1, <1>2, <1>3 DEF Next

\* FailWorkflow sets the reason before it cancels: a run that FailWorkflow
\* cancelled in its layers and Stop did not never fails as merely cancelled.
THEOREM ReasonKept == Spec /\ []OneLaunch => FailReasonKept
<1> DEFINE Kept == \A r \in Run :
      (loop[r] = "live" /\ loop'[r] = "ended" /\ r \notin stopped) => reason' # "cancelled"
<1>1. ASSUME BInv, [Next]_vars PROVE [Kept]_vars
  <2> SUFFICES ASSUME Next, NEW r \in Run,
                      loop[r] = "live", loop'[r] = "ended", r \notin stopped
               PROVE  reason' # "cancelled"
    BY <1>1
  <2>1. Publish(r)
    BY <1>1, OnlyPublish DEF BInv, AInv
  <2>2. slot = r /\ (r \in cancelled => r \in reasoned)
    BY <1>1 DEF BInv, Registered, ReasonFirst, Held, Begun, Running
  <2>3. QED BY <2>1, <2>2 DEF Publish, FailReasonOr
<1>2. QED BY <1>1, EntryIsOfLastRun, PTL DEF Spec, FailReasonKept

(***************************************************************************)
(* Launches that no blind stop or failure overlaps: the theorems.          *)
(***************************************************************************)
\* Undisturbed launches do not overlap.
LEMMA UndisturbedLaunch == Undisturbed => OneLaunch
BY DEF Undisturbed, OneLaunch, Launching, LaunchOps

\* Start, retryFailed, ContinueWorkflow, forceStopInstance and FailWorkflow: the
\* status agrees with the registered run, and with what callers have read of it.
THEOREM LifecycleInvariance == Spec /\ []Undisturbed => []CInv
<1>1. Init => CInv
  BY InitInv
<1>2. CInv /\ Undisturbed /\ [Next]_vars => StatusTrue'
  BY StatusStep
<1>3. CInv <=> BInv /\ StatusTrue
  BY DEF CInv
<1>4. QED BY <1>1, <1>2, <1>3, EntryIsOfLastRun, UndisturbedLaunch, PTL DEF Spec

\* Start, retryFailed and ContinueWorkflow: a run that executes agents is the
\* one in o.runs and its instance is active, so that Stop and FailWorkflow
\* reach it and no second run executes agents beside it.
THEOREM LiveRunControlled == Spec /\ []Undisturbed => []LiveControlled
<1>1. CInv => LiveControlled
  BY DEF CInv, BInv, Registered, StatusTrue, LiveControlled, Held, Begun, Running
<1>2. QED BY LifecycleInvariance, <1>1, PTL

\* The protocol of launches, stops, failures, run exits and restarts keeps
\* what InstanceContract promises of one instance, while stops and failures
\* overlap each other, the runs and, unless they are blind, launches.
THEOREM ContractImplemented == Spec /\ []Undisturbed => ContractSpec
<1>1. Init => Contract!Init
  <2> SUFFICES ASSUME Init PROVE Contract!Init
    OBVIOUS
  <2>1. status = "none" /\ Working = FALSE
    BY DEF Init, Working
  <2>2. QED BY <2>1 DEF Contract!Init
<1>2. CInv /\ Undisturbed /\ [Next]_vars => [Contract!Next]_(Contract!vars)
  BY ContractSteps DEF ContractStep
<1>3. QED BY LifecycleInvariance, <1>1, <1>2, PTL DEF Spec, ContractSpec, Contract!Spec
=============================================================================
