--------------------------- MODULE RunLifecycle ---------------------------
(***************************************************************************)
(* The life of one workflow instance (be/internal/orchestrator: Start,     *)
(* retryFailed, ContinueWorkflow, Stop, forceStopInstance, FailWorkflow,   *)
(* waitForRunToSettle, the entry, the interactive pre-step and the exit of *)
(* runLoop; be/internal/api: startupOrphanSweep).                          *)
(*                                                                         *)
(* A launch flips the instance to active, registers a runState in o.runs   *)
(* and starts a runLoop goroutine; the goroutine publishes the outcome in  *)
(* the database and only later gives the o.runs entry back.  The callers   *)
(* are request goroutines: each runs one operation at a time, and every    *)
(* read or write of the database or of o.runs is a step of its own.        *)
(***************************************************************************)
EXTENDS Naturals

CONSTANTS
  Caller,       \* goroutines that call the orchestrator
  MaxLaunches,  \* bound: runStates created in the life of the instance
  MaxRestarts   \* bound: server restarts

ASSUME BoundAssumption == MaxLaunches \in Nat /\ MaxRestarts \in Nat

Run   == 1..MaxLaunches   \* runStates, in the order they are created
NoRun == 0

Status == {"none", "active", "waiting", "completed", "failed"}
Op     == {"none", "start", "retry", "continue", "stop", "fail"}

\* Where a caller is.
Label == {"idle", "register", "go", "lookup", "settle", "activate", "drain",
          "force", "forceWrite", "failLookup", "setReason", "cancelRun",
          "failWrite"}

\* A runState and its goroutine: registered in o.runs, goroutine started,
\* waiting for a user before the first layer, executing layers, outcome
\* published, o.runs entry deleted, returned.
Phase == {"none", "registered", "spawned", "preStep", "live", "ended", "deleted",
          "gone"}

VARIABLES
  status,    \* workflow_instances.status
  slot,      \* o.runs[instance]
  loop,      \* phase of each run
  preStep,   \* runs started with an interactive or a plan session (pre # nil)
  doneOf,    \* the run whose done channel a goroutine took at its start
  closed,    \* runs whose done channel is closed
  cancelled, \* runs whose context is cancelled
  stopped,   \* those cancelled by Stop
  reasoned,  \* runs whose failReason is set
  accepted,  \* runs for which FailWorkflow returned success
  reason,    \* failure reason of the last outcome
  stranded,  \* a launch returned an error after it set the status to active
  hasSession, \* the instance has an agent session of one of its layers
  op, pc, rs, seen,  \* operation, position and local values of each caller
  launches, restarts

runVars  == <<slot, loop, preStep, doneOf, closed>>
flagVars == <<cancelled, stopped, reasoned, accepted>>
dbVars   == <<status, reason, stranded, hasSession>>
callVars == <<op, pc, rs, seen>>
bounds   == <<launches, restarts>>
vars     == <<runVars, flagVars, dbVars, callVars, bounds>>

Init ==
  /\ status = "none" /\ reason = "none" /\ stranded = FALSE /\ hasSession = FALSE
  /\ slot = NoRun /\ loop = [r \in Run |-> "none"] /\ preStep = {}
  /\ doneOf = [r \in Run |-> NoRun] /\ closed = {}
  /\ cancelled = {} /\ stopped = {} /\ reasoned = {} /\ accepted = {}
  /\ op = [c \in Caller |-> "none"] /\ pc = [c \in Caller |-> "idle"]
  /\ rs = [c \in Caller |-> NoRun] /\ seen = [c \in Caller |-> "none"]
  /\ launches = 0 /\ restarts = 0

(***************************************************************************)
(* Steps of a caller.                                                      *)
(***************************************************************************)
At(c, l)     == pc[c] = l
GoTo(c, l)   == pc' = [pc EXCEPT ![c] = l]
Begin(c, o)  == pc[c] = "idle" /\ op' = [op EXCEPT ![c] = o]
Hold(c, r)   == rs' = [rs EXCEPT ![c] = r]
ReturnOf(c)  == /\ GoTo(c, "idle")
                /\ op' = [op EXCEPT ![c] = "none"]
                /\ rs' = [rs EXCEPT ![c] = NoRun]
                /\ seen' = [seen EXCEPT ![c] = "none"]

\* Start: the instance row is created in status active.
StartInit(c) ==
  /\ Begin(c, "start") /\ status = "none"
  /\ status' = "active"
  /\ GoTo(c, "register")
  /\ UNCHANGED <<runVars, flagVars, reason, stranded, hasSession, rs, seen, bounds>>

\* retryFailed and ContinueWorkflow: the status check.  A retry names an agent
\* session of the instance, whose layer it starts with.
RelaunchCheck(c) ==
  /\ \/ Begin(c, "retry") /\ status = "failed" /\ hasSession
     \/ Begin(c, "continue") /\ status = "waiting"
  /\ launches < MaxLaunches
  /\ GoTo(c, "lookup")
  /\ UNCHANGED <<runVars, flagVars, dbVars, rs, seen, bounds>>

\* Mutant of SettleLookup: the teardown of the last run is not waited for.
SettleLookupSkipped(c) ==
  /\ At(c, "lookup")
  /\ GoTo(c, "activate") /\ UNCHANGED rs
  /\ UNCHANGED <<runVars, flagVars, dbVars, op, seen, bounds>>

\* waitForRunToSettle: a registered run is waited for.
SettleLookup(c) ==
  /\ At(c, "lookup")
  /\ IF slot = NoRun THEN GoTo(c, "activate") /\ UNCHANGED rs
                     ELSE GoTo(c, "settle") /\ Hold(c, slot)
  /\ UNCHANGED <<runVars, flagVars, dbVars, op, seen, bounds>>

Settled(c) ==
  /\ At(c, "settle") /\ rs[c] \in closed
  /\ GoTo(c, "activate")
  /\ UNCHANGED <<runVars, flagVars, dbVars, op, rs, seen, bounds>>

\* runSettleTimeout or stopDrainTimeout.
WaitTimeout(c) ==
  /\ At(c, "settle") \/ At(c, "drain")
  /\ ReturnOf(c)
  /\ UNCHANGED <<runVars, flagVars, dbVars, bounds>>

\* The relaunch returns an error before it changed anything.
RelaunchAborts(c) ==
  /\ At(c, "activate")
  /\ ReturnOf(c)
  /\ UNCHANGED <<runVars, flagVars, dbVars, bounds>>

Activate(c) ==
  /\ At(c, "activate")
  /\ status' = "active" /\ stranded' = FALSE
  /\ GoTo(c, "register")
  /\ UNCHANGED <<runVars, flagVars, reason, hasSession, op, rs, seen, bounds>>

\* Start and retryFailed still load settings after the status is active.
LaunchAborts(c) ==
  /\ At(c, "register") /\ op[c] \in {"start", "retry"}
  /\ stranded' = TRUE
  /\ ReturnOf(c)
  /\ UNCHANGED <<runVars, flagVars, status, reason, hasSession, bounds>>

Register(c) ==
  /\ At(c, "register") /\ launches < MaxLaunches
  /\ launches' = launches + 1
  /\ slot' = launches + 1
  /\ loop' = [loop EXCEPT ![launches + 1] = "registered"]
  /\ Hold(c, launches + 1)
  /\ GoTo(c, "go")
  /\ UNCHANGED <<preStep, doneOf, closed, flagVars, dbVars, op, seen, restarts>>

\* Start: the interactive pre-step cannot be set up; its session may stay.
PreStepFails(c) ==
  /\ At(c, "go") /\ op[c] = "start"
  /\ cancelled' = cancelled \cup {rs[c]}
  /\ slot' = NoRun
  /\ loop' = [loop EXCEPT ![rs[c]] = "gone"]
  /\ stranded' = TRUE /\ hasSession' \in {hasSession, TRUE}
  /\ ReturnOf(c)
  /\ UNCHANGED <<preStep, doneOf, closed, stopped, reasoned, accepted, status, reason,
                 bounds>>

\* go o.runLoop(...).  A start may ask for a pre-step; in interactive mode its
\* session is one of the first layer, in plan mode of no layer.
Spawn(c) ==
  /\ At(c, "go")
  /\ loop' = [loop EXCEPT ![rs[c]] = "spawned"]
  /\ \/ UNCHANGED <<preStep, hasSession>>
     \/ /\ op[c] = "start"
        /\ preStep' = preStep \cup {rs[c]} /\ hasSession' \in {hasSession, TRUE}
  /\ ReturnOf(c)
  /\ UNCHANGED <<slot, doneOf, closed, flagVars, status, reason, stranded, bounds>>

\* Stop: cancels a registered run; without one the database is cleaned up.
StopLookup(c) ==
  /\ Begin(c, "stop") /\ status # "none"
  /\ IF slot # NoRun
     THEN /\ cancelled' = cancelled \cup {slot}
          /\ stopped' = stopped \cup {slot}
          /\ Hold(c, slot)
          /\ GoTo(c, "drain")
     ELSE /\ GoTo(c, "force")
          /\ UNCHANGED <<cancelled, stopped, rs>>
  /\ UNCHANGED <<runVars, reasoned, accepted, dbVars, seen, bounds>>

Drained(c) ==
  /\ At(c, "drain") /\ rs[c] \in closed
  /\ ReturnOf(c)
  /\ UNCHANGED <<runVars, flagVars, dbVars, bounds>>

\* Mutant of ForceCheck: the status is not looked at.
ForceUnchecked(c) ==
  /\ At(c, "force")
  /\ GoTo(c, "forceWrite") /\ UNCHANGED <<op, rs, seen>>
  /\ UNCHANGED <<runVars, flagVars, dbVars, bounds>>

\* forceStopInstance reads the status, then writes.
ForceCheck(c) ==
  /\ At(c, "force")
  /\ IF status = "active"
     THEN GoTo(c, "forceWrite") /\ UNCHANGED <<op, rs, seen>>
     ELSE ReturnOf(c)
  /\ UNCHANGED <<runVars, flagVars, dbVars, bounds>>

ForceWrite(c) ==
  /\ At(c, "forceWrite")
  /\ status' = "failed" /\ reason' = "none" /\ stranded' = FALSE
  /\ ReturnOf(c)
  /\ UNCHANGED <<runVars, flagVars, hasSession, bounds>>

\* FailWorkflow: a terminal status is an error.
FailCheck(c) ==
  /\ Begin(c, "fail") /\ status \in {"active", "waiting"}
  /\ seen' = [seen EXCEPT ![c] = status]
  /\ GoTo(c, "failLookup")
  /\ UNCHANGED <<runVars, flagVars, dbVars, rs, bounds>>

\* Mutant of FailLookup: the run is cancelled before the reason is set.
FailLookupCancels(c) ==
  /\ At(c, "failLookup")
  /\ IF slot # NoRun
     THEN /\ cancelled' = cancelled \cup {slot}
          /\ Hold(c, slot) /\ GoTo(c, "setReason") /\ UNCHANGED <<op, seen>>
     ELSE /\ UNCHANGED cancelled
          /\ IF seen[c] = "waiting"
             THEN GoTo(c, "failWrite") /\ UNCHANGED <<op, rs, seen>>
             ELSE ReturnOf(c)
  /\ UNCHANGED <<runVars, stopped, reasoned, accepted, dbVars, bounds>>

FailLookup(c) ==
  /\ At(c, "failLookup")
  /\ IF slot # NoRun
     THEN Hold(c, slot) /\ GoTo(c, "setReason") /\ UNCHANGED <<op, seen>>
     ELSE IF seen[c] = "waiting"
     THEN GoTo(c, "failWrite") /\ UNCHANGED <<op, rs, seen>>
     ELSE ReturnOf(c)
  /\ UNCHANGED <<runVars, flagVars, dbVars, bounds>>

\* Mutant of SetReason: the entry is not looked up again.
SetReasonUnchecked(c) ==
  /\ At(c, "setReason")
  /\ reasoned' = reasoned \cup {slot}
  /\ GoTo(c, "cancelRun")
  /\ UNCHANGED <<runVars, cancelled, stopped, accepted, dbVars, op, rs, seen, bounds>>

\* failReason is set on the entry that is registered now, if any.
SetReason(c) ==
  /\ At(c, "setReason")
  /\ reasoned' = reasoned \cup ({slot} \ {NoRun})
  /\ GoTo(c, "cancelRun")
  /\ UNCHANGED <<runVars, cancelled, stopped, accepted, dbVars, op, rs, seen, bounds>>

CancelRun(c) ==
  /\ At(c, "cancelRun")
  /\ cancelled' = cancelled \cup {rs[c]}
  /\ accepted' = accepted \cup {rs[c]}
  /\ ReturnOf(c)
  /\ UNCHANGED <<runVars, stopped, reasoned, dbVars, bounds>>

\* markFailed on an instance that is not running.
FailWrite(c) ==
  /\ At(c, "failWrite")
  /\ status' = "failed" /\ reason' = "custom"
  /\ ReturnOf(c)
  /\ UNCHANGED <<runVars, flagVars, stranded, hasSession, bounds>>

(***************************************************************************)
(* Steps of a runLoop goroutine, and the server.                           *)
(***************************************************************************)
InMemoryEmpty ==
  /\ slot' = NoRun
  /\ loop' = [r \in Run |-> IF r <= launches THEN "gone" ELSE "none"]
  /\ preStep' = {} /\ doneOf' = [r \in Run |-> NoRun] /\ closed' = {}
  /\ cancelled' = {} /\ stopped' = {} /\ reasoned' = {} /\ accepted' = {}
  /\ op' = [c \in Caller |-> "none"] /\ pc' = [c \in Caller |-> "idle"]
  /\ rs' = [c \in Caller |-> NoRun] /\ seen' = [c \in Caller |-> "none"]
  /\ UNCHANGED <<launches, hasSession>>

\* Mutant of Sweep: nothing is swept.
SweepNothing == UNCHANGED <<status, reason>>

\* startupOrphanSweep: FailIfActive on every instance.
Sweep ==
  IF status = "active"
  THEN status' = "failed" /\ reason' = "none"
  ELSE UNCHANGED <<status, reason>>

\* The process dies (a crash, a kill, a panic of any goroutine) and the next
\* one sweeps before it serves requests.
Restart ==
  /\ InMemoryEmpty
  /\ Sweep /\ stranded' = FALSE

Crash == /\ restarts < MaxRestarts /\ status # "none"
         /\ restarts' = restarts + 1
         /\ Restart

\* The goroutine takes the done channel of the entry registered now.  There
\* is none if another goroutine deleted it: a nil dereference.
GrabDone(r) ==
  /\ loop[r] = "spawned"
  /\ IF slot = NoRun
     THEN Restart
     ELSE /\ loop' = [loop EXCEPT ![r] = IF r \in preStep THEN "preStep" ELSE "live"]
          /\ doneOf' = [doneOf EXCEPT ![r] = slot]
          /\ UNCHANGED <<slot, preStep, closed, flagVars, dbVars, callVars, launches>>
  /\ UNCHANGED restarts

\* runInteractivePreStep: the user ends the session and the layers start, or the
\* plan the session was to write cannot be read.
PreStepEnds(r) ==
  /\ loop[r] = "preStep"
  /\ \/ loop' = [loop EXCEPT ![r] = "live"] /\ UNCHANGED <<status, reason>>
     \/ loop' = [loop EXCEPT ![r] = "ended"] /\ status' = "failed" /\ reason' = "own"
  /\ UNCHANGED <<slot, preStep, doneOf, closed, flagVars, stranded, hasSession,
                 callVars, bounds>>

\* The context is cancelled first: reasonCancelled, whatever failReason says.
PreStepCancelled(r) ==
  /\ loop[r] = "preStep" /\ r \in cancelled
  /\ status' = "failed" /\ reason' = "cancelled"
  /\ loop' = [loop EXCEPT ![r] = "ended"]
  /\ UNCHANGED <<slot, preStep, doneOf, closed, flagVars, stranded, hasSession,
                 callVars, bounds>>

\* The spawner creates the first agent session of a layer.
CreateSession(r) ==
  /\ loop[r] = "live" /\ ~hasSession
  /\ hasSession' = TRUE
  /\ UNCHANGED <<runVars, flagVars, status, reason, stranded, callVars, bounds>>

\* failReasonOr: the reason comes from the entry registered now.
FailReasonOr == IF slot \in reasoned THEN "custom" ELSE "cancelled"

\* The outcome of the layers: completed, paused or failed whether or not the
\* context was cancelled meanwhile, or failed because it was.
Publish(r) ==
  /\ loop[r] = "live"
  /\ \/ status' \in {"completed", "waiting"} /\ reason' = "none"
     \/ status' = "failed" /\ reason' = "own"
     \/ r \in cancelled /\ status' = "failed" /\ reason' = FailReasonOr
  /\ loop' = [loop EXCEPT ![r] = "ended"]
  /\ UNCHANGED <<slot, preStep, doneOf, closed, flagVars, stranded, hasSession,
                 callVars, bounds>>

\* Mutant of DeleteEntry: the channel is closed before the entry is deleted.
DeleteEntryAfterClose(r) ==
  /\ loop[r] = "ended"
  /\ closed' = closed \cup {doneOf[r]}
  /\ loop' = [loop EXCEPT ![r] = "deleted"]
  /\ UNCHANGED <<slot, preStep, doneOf, flagVars, dbVars, callVars, bounds>>

\* Deferred cleanup: delete(o.runs, wfiID), whatever is registered there.
DeleteEntry(r) ==
  /\ loop[r] = "ended"
  /\ slot' = NoRun
  /\ loop' = [loop EXCEPT ![r] = "deleted"]
  /\ UNCHANGED <<preStep, doneOf, closed, flagVars, dbVars, callVars, bounds>>

\* Mutant of CloseDone: a pause does not close the channel.
CloseDoneUnlessPaused(r) ==
  /\ loop[r] = "deleted"
  /\ loop' = [loop EXCEPT ![r] = "gone"]
  /\ closed' = IF status = "waiting" THEN closed ELSE closed \cup {doneOf[r]}
  /\ UNCHANGED <<slot, preStep, doneOf, flagVars, dbVars, callVars, bounds>>

\* close(doneCh); closing a channel twice panics.
CloseDone(r) ==
  /\ loop[r] = "deleted"
  /\ IF doneOf[r] \in closed
     THEN Restart
     ELSE /\ loop' = [loop EXCEPT ![r] = "gone"]
          /\ closed' = closed \cup {doneOf[r]}
          /\ UNCHANGED <<slot, preStep, doneOf, flagVars, dbVars, callVars, launches>>
  /\ UNCHANGED restarts

\* A caller is not suspended on anything but a done channel.
CallerStep(c) ==
  \/ SettleLookup(c) \/ Settled(c) \/ RelaunchAborts(c) \/ Activate(c)
  \/ LaunchAborts(c) \/ Register(c) \/ PreStepFails(c) \/ Spawn(c)
  \/ Drained(c) \/ ForceCheck(c) \/ ForceWrite(c)
  \/ FailLookup(c) \/ SetReason(c) \/ CancelRun(c) \/ FailWrite(c)

Call(c) == StartInit(c) \/ RelaunchCheck(c) \/ StopLookup(c) \/ FailCheck(c)

LoopStep(r) == GrabDone(r) \/ PreStepCancelled(r) \/ Publish(r) \/ DeleteEntry(r)
               \/ CloseDone(r)

RunStep(r) == LoopStep(r) \/ PreStepEnds(r) \/ CreateSession(r)

Next == \/ \E c \in Caller : Call(c) \/ CallerStep(c) \/ WaitTimeout(c)
        \/ \E r \in Run : RunStep(r)
        \/ Crash

Spec == Init /\ [][Next]_vars

\* Goroutines are scheduled and the layers of every run end (LayerLoop:
\* LoopEnds).  The timeouts are not assumed to fire, and no user to end a
\* pre-step.
FairSpec == /\ Spec
            /\ \A c \in Caller : WF_vars(CallerStep(c))
            /\ \A r \in Run : WF_vars(LoopStep(r))

(***************************************************************************)
(* Properties.                                                             *)
(***************************************************************************)

\* Type invariant.
TypeOK ==
  /\ status \in Status /\ stranded \in BOOLEAN /\ hasSession \in BOOLEAN
  /\ reason \in {"none", "own", "cancelled", "custom"}
  /\ slot \in Run \cup {NoRun}
  /\ loop \in [Run -> Phase]
  /\ doneOf \in [Run -> Run \cup {NoRun}]
  /\ preStep \subseteq Run /\ closed \subseteq Run
  /\ cancelled \subseteq Run /\ stopped \subseteq Run
  /\ reasoned \subseteq Run /\ accepted \subseteq Run
  /\ op \in [Caller -> Op] /\ pc \in [Caller -> Label]
  /\ rs \in [Caller -> Run \cup {NoRun}] /\ seen \in [Caller -> Status]
  /\ launches \in 0..MaxLaunches /\ restarts \in 0..MaxRestarts

\* From its registration to the publication of its outcome.
Running == {"registered", "spawned", "preStep", "live"}

\* A run that executes agents can be stopped, and is seen to run: it is the
\* one registered in o.runs and the instance is active.  In particular no
\* two runs of an instance execute agents at the same time.
LiveControlled ==
  \A r \in Run : loop[r] \in Running => slot = r /\ status = "active"

\* An active instance has a run, a launch under way, or a launch that failed
\* after it set the status: no restart, stop or failure leaves an orphan.
NoOrphan ==
  status = "active" =>
    \/ stranded
    \/ \E r \in Run : loop[r] \in Running
    \/ \E c \in Caller : pc[c] = "register"

\* Once the done channel of a run is closed, the run has returned or only
\* has to return, and its entry in o.runs is free.
DoneMeansFree ==
  \A r \in closed : loop[r] = "gone" /\ slot # r

\* A run that FailWorkflow cancelled in its layers, and Stop did not, fails for
\* the reason FailWorkflow was given or for one of its own, so that its failure
\* hook runs; the reason "cancelled" suppresses the hook.  A run cancelled during
\* its pre-step does lose the reason (PreStepCancelled).
FailReasonKept ==
  [][\A r \in Run :
       (loop[r] = "live" /\ loop'[r] = "ended" /\ r \notin stopped) =>
          reason' # "cancelled"]_vars

\* The life of an instance as callers may rely on it.
Working  == \E r \in Run : loop[r] = "live"
Contract == INSTANCE InstanceContract WITH working <- Working
ContractSpec == Contract!Spec

\* No call waits for ever, even if no timeout ever fires.
CallsReturn == \A c \in Caller : pc[c] # "idle" ~> pc[c] = "idle"

\* A FailWorkflow call that returned success terminates the instance: when
\* the run it cancelled is gone the instance is not left paused.
FailTakesEffect ==
  \A r \in accepted : r = launches /\ loop[r] = "gone" => status # "waiting"

\* A relaunch of an instance that has a run is refused.
OneRun ==
  \A r, s \in Run : loop[r] = "live" /\ loop[s] = "live" => r = s
=============================================================================
