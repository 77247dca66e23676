---------------------------- MODULE Subworkflow ----------------------------
(***************************************************************************)
(* Child runs of one parent run (be/internal/orchestrator:                 *)
(* subworkflow_child_start.go, subworkflow_watch.go, and the calls of      *)
(* rearmSubworkflowWatcher by continue, retry and plan resume).            *)
(*                                                                         *)
(* An agent of the parent starts a child: a unit of the parent's persisted *)
(* budget is charged, a slot of the server's concurrency cap reserved, the *)
(* child launched, and a watcher goroutine ties the child to the parent.   *)
(* The watcher sees the parent only through the done channel of one of its *)
(* runs, the o.runs table and the status column, read one after the other, *)
(* while the parent pauses, ends, resumes and is retried, the child        *)
(* suspends at its plan boundary and is resumed, and the server restarts.  *)
(*                                                                         *)
(* Runs of an instance are numbered.  The done channel of run n is closed  *)
(* when n is no longer registered: the loop deletes its o.runs entry and   *)
(* closes the channel at its very end (RunLifecycle: DoneMeansFree).       *)
(***************************************************************************)
EXTENDS Naturals, FiniteSets

CONSTANTS
  Child,          \* the children an agent of the parent may start
  Planned,        \* those whose workflow has a plan boundary to suspend at
  MaxChildren,    \* subworkflow_max_children
  MaxInvocations, \* subworkflow_max_invocations
  \* Bounds of the model.
  MaxRuns,        \* runs of each child
  MaxParentRuns,  \* runs of the parent
  MaxCrashes      \* restarts of the server

ASSUME CapAssumption ==
  /\ IsFiniteSet(Child) /\ Planned \subseteq Child
  /\ MaxChildren \in Nat /\ MaxInvocations \in Nat
ASSUME BoundAssumption ==
  MaxRuns \in [Child -> Nat \ {0}] /\ MaxParentRuns \in Nat \ {0} /\ MaxCrashes \in Nat

\* The watchers: one for every run of every child.
Run(c)  == 1 .. MaxRuns[c]
Watcher == UNION {{c} \X Run(c) : c \in Child}
\* "over" is failed or completed.  A watcher takes a parent that is suspended
\* at its plan boundary for one that is over: so does the model.
Paused == {"waiting", "active"}
Status == {"none", "active", "suspended", "over"}
\* A goroutine launches an instance (status first, then registration, then
\* the watcher), its loop runs, and publishes a status before it exits.
Phase  == {"none", "launching", "rearm", "rearmStatus", "live", "exiting"}
Call   == {"idle", "charged", "reserved", "started", "unreserve", "refund",
           "done"}
Place  == {"none", "begin", "select", "status", "tick", "stop", "childDone",
           "suspended", "parentNext", "stopSuspended", "release", "gone"}

VARIABLES
  pstatus, pslot, pphase, pruns, \* the parent: status, registered run or 0,
                                 \* phase of that run, runs so far
  cstatus, cslot, cphase, cruns, \* the same of every child
  cancelled,                     \* children whose run was cancelled
  call, callDone,                \* startChildRun: place, and parentDone
  active, starts,                \* o.subworkflowActive; subworkflow_starts
  watch,                         \* the watcher of each run of each child
  unwatched,                     \* children no watcher is meant to follow
  crashes

parent   == <<pstatus, pslot, pphase, pruns>>
child    == <<cstatus, cslot, cphase, cruns, cancelled>>
calls    == <<call, callDone>>
counters == <<active, starts>>
vars == <<parent, child, calls, counters, watch, unwatched, crashes>>

NoWatch == [pc |-> "none", parentDone |-> 0, childDone |-> 0]

\* Every variable holds a value of its type and stays within its bound; the
\* slot counter never goes below zero.
TypeOK ==
  /\ pstatus \in Paused \cup {"over"} /\ pslot \in 0 .. MaxParentRuns
  /\ pphase \in Phase /\ pruns \in 0 .. MaxParentRuns
  /\ cstatus \in [Child -> Status]
  /\ \A c \in Child : cslot[c] \in 0 .. MaxRuns[c] /\ cruns[c] \in 0 .. MaxRuns[c]
  /\ cphase \in [Child -> Phase]
  /\ cancelled \subseteq Child
  /\ call \in [Child -> Call] /\ callDone \in [Child -> 0 .. MaxParentRuns]
  /\ active \in 0 .. Cardinality(Child) /\ starts \in 0 .. MaxInvocations
  /\ watch \in [Watcher -> [pc : Place, parentDone : 0 .. MaxParentRuns,
                            childDone : Nat]]
  /\ unwatched \subseteq Child /\ crashes \in 0 .. MaxCrashes

Init ==
  /\ pstatus = "active" /\ pslot = 1 /\ pphase = "live" /\ pruns = 1
  /\ cstatus = [c \in Child |-> "none"] /\ cslot = [c \in Child |-> 0]
  /\ cphase = [c \in Child |-> "none"] /\ cruns = [c \in Child |-> 0]
  /\ cancelled = {}
  /\ call = [c \in Child |-> "idle"] /\ callDone = [c \in Child |-> 0]
  /\ active = 0 /\ starts = 0
  /\ watch = [w \in Watcher |-> NoWatch]
  /\ unwatched = {} /\ crashes = 0

\* The done channel a goroutine holds is closed.  0 stands for the channel
\* rearmSubworkflowWatcher closes itself when the parent is paused.
ParentDone(n)   == n = 0 \/ n # pslot
ChildDone(c, n) == n = 0 \/ n # cslot[c]

(***************************************************************************)
(* The parent instance.                                                    *)
(***************************************************************************)
ParentPublishes(s) ==
  /\ pphase = "live"
  /\ pstatus' = s /\ pphase' = "exiting"
  /\ UNCHANGED <<pslot, pruns, child, calls, counters, watch, unwatched,
                 crashes>>

ParentExits ==
  /\ pphase = "exiting"
  /\ pslot' = 0 /\ pphase' = "none"
  /\ UNCHANGED <<pstatus, pruns, child, calls, counters, watch, unwatched,
                 crashes>>

\* Continue, resume after an approval, or retry: the status comes first.
ParentRelaunches ==
  /\ pphase = "none" /\ pstatus \in {"waiting", "over"}
  /\ pruns < MaxParentRuns
  /\ pstatus' = "active" /\ pphase' = "launching"
  /\ UNCHANGED <<pslot, pruns, child, calls, counters, watch, unwatched,
                 crashes>>

ParentRegisters ==
  /\ pphase = "launching"
  /\ pruns' = pruns + 1 /\ pslot' = pruns + 1 /\ pphase' = "live"
  /\ UNCHANGED <<pstatus, child, calls, counters, watch, unwatched, crashes>>

\* A fail or a stop that finds no registered run writes the status itself.
ParentForced ==
  /\ pslot = 0 /\ pstatus # "over"
  /\ pstatus' = "over"
  /\ UNCHANGED <<pslot, pphase, pruns, child, calls, counters, watch,
                 unwatched, crashes>>

(***************************************************************************)
(* startChildRun, called by an agent of the parent's run.                  *)
(***************************************************************************)
Charge(c) ==
  /\ call[c] = "idle" /\ pphase = "live" /\ starts < MaxInvocations
  /\ starts' = starts + 1 /\ call' = [call EXCEPT ![c] = "charged"]
  /\ UNCHANGED <<parent, child, callDone, active, watch, unwatched, crashes>>

\* Mutant of CanReserve: the cap compared with the wrong operator.
OneTooMany == pslot # 0 /\ active <= MaxChildren

\* Under o.mu: the parent's run is registered and a slot is free.
CanReserve == pslot # 0 /\ active < MaxChildren

Reserve(c) ==
  /\ call[c] = "charged"
  /\ IF CanReserve
       THEN /\ active' = active + 1
            /\ callDone' = [callDone EXCEPT ![c] = pslot]
            /\ call' = [call EXCEPT ![c] = "reserved"]
       ELSE /\ call' = [call EXCEPT ![c] = "refund"]
            /\ UNCHANGED <<active, callDone>>
  /\ UNCHANGED <<parent, child, starts, watch, unwatched, crashes>>

StartChild(c) ==
  /\ call[c] = "reserved"
  /\ call' = [call EXCEPT ![c] = "started"]
  /\ cstatus' = [cstatus EXCEPT ![c] = "active"]
  /\ cslot' = [cslot EXCEPT ![c] = 1] /\ cruns' = [cruns EXCEPT ![c] = 1]
  /\ cphase' = [cphase EXCEPT ![c] = "live"]
  /\ UNCHANGED <<parent, cancelled, callDone, counters, watch, unwatched,
                 crashes>>

\* A start that fails after it created the row leaves an active row that never
\* runs (RunLifecycle); the caller may try again with another one.
StartFails(c) ==
  /\ call[c] = "reserved"
  /\ call' = [call EXCEPT ![c] = "unreserve"]
  /\ callDone' = [callDone EXCEPT ![c] = 0]
  /\ UNCHANGED <<parent, child, counters, watch, unwatched, crashes>>

\* Mutant of Unreserve: the slot of a failed start is forgotten.
KeepSlot(c) ==
  /\ call[c] = "unreserve"
  /\ call' = [call EXCEPT ![c] = "refund"]
  /\ UNCHANGED <<parent, child, callDone, counters, watch, unwatched, crashes>>

Unreserve(c) ==
  /\ call[c] = "unreserve"
  /\ active' = active - 1 /\ call' = [call EXCEPT ![c] = "refund"]
  /\ UNCHANGED <<parent, child, callDone, starts, watch, unwatched, crashes>>

Refund(c) ==
  /\ call[c] = "refund"
  /\ starts' = IF starts > 0 THEN starts - 1 ELSE starts
  /\ call' = [call EXCEPT ![c] = "idle"]
  /\ UNCHANGED <<parent, child, callDone, active, watch, unwatched, crashes>>

\* Mutant of SpawnWatcher: the deferred refund also runs on success.
SpawnAndRefund(c) ==
  /\ call[c] = "started"
  /\ call' = [call EXCEPT ![c] = "done"]
  /\ starts' = IF starts > 0 THEN starts - 1 ELSE starts
  /\ callDone' = [callDone EXCEPT ![c] = 0]
  /\ watch' = [watch EXCEPT ![<<c, 1>>] =
                 [NoWatch EXCEPT !.pc = "begin", !.parentDone = callDone[c]]]
  /\ UNCHANGED <<parent, child, active, unwatched, crashes>>

SpawnWatcher(c) ==
  /\ call[c] = "started"
  /\ call' = [call EXCEPT ![c] = "done"]
  /\ callDone' = [callDone EXCEPT ![c] = 0]
  /\ watch' = [watch EXCEPT ![<<c, 1>>] =
                 [NoWatch EXCEPT !.pc = "begin", !.parentDone = callDone[c]]]
  /\ UNCHANGED <<parent, child, counters, unwatched, crashes>>

Calls(c) == \/ Charge(c) \/ Reserve(c) \/ StartChild(c) \/ StartFails(c)
            \/ Unreserve(c) \/ Refund(c) \/ SpawnWatcher(c)

(***************************************************************************)
(* A child instance.                                                       *)
(***************************************************************************)
ChildPublishes(c, s) ==
  /\ cphase[c] = "live"
  /\ s \in {"over"} \cup (IF c \in Planned THEN {"suspended"} ELSE {})
  /\ cstatus' = [cstatus EXCEPT ![c] = s]
  /\ cphase' = [cphase EXCEPT ![c] = "exiting"]
  /\ UNCHANGED <<parent, cslot, cruns, cancelled, calls, counters, watch,
                 unwatched, crashes>>

ChildExits(c) ==
  /\ cphase[c] = "exiting"
  /\ cslot' = [cslot EXCEPT ![c] = 0] /\ cphase' = [cphase EXCEPT ![c] = "none"]
  /\ cancelled' = cancelled \ {c}
  /\ UNCHANGED <<parent, cstatus, cruns, calls, counters, watch, unwatched,
                 crashes>>

\* Retried after a failure, or resumed after its plan was approved.
ChildRelaunches(c) ==
  /\ cphase[c] = "none" /\ cstatus[c] \in {"suspended", "over"}
  /\ cruns[c] < MaxRuns[c]
  /\ cstatus' = [cstatus EXCEPT ![c] = "active"]
  /\ cphase' = [cphase EXCEPT ![c] = "launching"]
  /\ UNCHANGED <<parent, cslot, cruns, cancelled, calls, counters, watch,
                 unwatched, crashes>>

ChildRegisters(c) ==
  /\ cphase[c] = "launching"
  /\ cruns' = [cruns EXCEPT ![c] = @ + 1]
  /\ cslot' = [cslot EXCEPT ![c] = cruns[c] + 1]
  /\ cphase' = [cphase EXCEPT ![c] = "rearm"]
  /\ unwatched' = unwatched \ {c}
  /\ UNCHANGED <<parent, cstatus, cancelled, calls, counters, watch, crashes>>

\* rearmSubworkflowWatcher, before the loop of the relaunched child starts:
\* the parent's live done channel first, its status when there is none.
RearmOnRun(c) ==
  /\ cphase[c] = "rearm"
  /\ IF pslot # 0
       THEN /\ cphase' = [cphase EXCEPT ![c] = "live"]
            /\ watch' = [watch EXCEPT ![<<c, cruns[c]>>] =
                           [NoWatch EXCEPT !.pc = "begin",
                                           !.parentDone = pslot]]
       ELSE cphase' = [cphase EXCEPT ![c] = "rearmStatus"] /\ UNCHANGED watch
  /\ UNCHANGED <<parent, cstatus, cslot, cruns, cancelled, calls, counters,
                 unwatched, crashes>>

RearmOnPause(c) ==
  /\ cphase[c] = "rearmStatus"
  /\ cphase' = [cphase EXCEPT ![c] = "live"]
  /\ IF pstatus = "waiting"
       THEN /\ watch' = [watch EXCEPT ![<<c, cruns[c]>>] =
                           [NoWatch EXCEPT !.pc = "begin"]]
            /\ UNCHANGED unwatched
       ELSE unwatched' = unwatched \cup {c} /\ UNCHANGED watch
  /\ UNCHANGED <<parent, cstatus, cslot, cruns, cancelled, calls, counters,
                 crashes>>

\* A user's stop of an instance that has no registered run.
ChildForced(c) ==
  /\ cslot[c] = 0 /\ cstatus[c] \in {"active", "suspended"}
  /\ cstatus' = [cstatus EXCEPT ![c] = "over"]
  /\ UNCHANGED <<parent, cslot, cphase, cruns, cancelled, calls, counters,
                 watch, unwatched, crashes>>

ChildLaunch(c) == ChildRegisters(c) \/ RearmOnRun(c) \/ RearmOnPause(c)
CancelledEnds(c) == c \in cancelled /\ \E s \in Status : ChildPublishes(c, s)

(***************************************************************************)
(* watchSubworkflow(parent, parentDone, c, counted), one goroutine for     *)
(* each run k of a child.  Only that of the first run is counted.          *)
(***************************************************************************)
At(c, k, p) == watch[<<c, k>>].pc = p
Goto(c, k, p) == watch' = [watch EXCEPT ![<<c, k>>].pc = p]
StillWatching == UNCHANGED <<parent, child, calls, counters, unwatched, crashes>>

\* No done channel: the child ended before the goroutine ran.
Begin(c, k) ==
  /\ At(c, k, "begin")
  /\ watch' = [watch EXCEPT
                 ![<<c, k>>].pc = IF cslot[c] # 0 THEN "select" ELSE "childDone",
                 ![<<c, k>>].childDone = cslot[c]]
  /\ StillWatching

\* awaitParentOutcome: a successor run first, then the status, then a wait
\* for the child or the next tick.
SelectParent(c, k) ==
  /\ watch[<<c, k>>].pc \in {"select", "tick"}
  /\ ParentDone(watch[<<c, k>>].parentDone)
  /\ IF pslot # 0
       THEN watch' = [watch EXCEPT ![<<c, k>>].pc = "select",
                                   ![<<c, k>>].parentDone = pslot]
       ELSE Goto(c, k, "status")
  /\ StillWatching

\* Mutant of ParentStatus: a parent that ended is awaited like a paused one.
AwaitAnyParent(c, k) ==
  At(c, k, "status") /\ Goto(c, k, "tick") /\ StillWatching

ParentStatus(c, k) ==
  /\ At(c, k, "status")
  /\ Goto(c, k, IF pstatus \in Paused THEN "tick" ELSE "stop")
  /\ StillWatching

\* Stop: cancel the registered run, or settle the row of one that has none
\* (the window between the two is in RunLifecycle).  Stop gives up waiting for
\* the run after stopDrainTimeout; only the first of the two then waits on.
StopChild(c, k) ==
  /\ watch[<<c, k>>].pc \in {"stop", "stopSuspended"}
  /\ Goto(c, k, IF At(c, k, "stop") THEN "childDone" ELSE "release")
  /\ IF cslot[c] # 0
       THEN cancelled' = cancelled \cup {c} /\ UNCHANGED cstatus
       ELSE /\ cstatus' = IF cstatus[c] \in {"active", "suspended"}
                            THEN [cstatus EXCEPT ![c] = "over"] ELSE cstatus
            /\ UNCHANGED cancelled
  /\ UNCHANGED <<parent, cslot, cphase, cruns, calls, counters, unwatched,
                 crashes>>

\* Mutant of AfterRun: done is taken for the end of the child.
DoneMeansEnded(c) == "release"

\* The child's done channel is also closed when the child suspends at its own
\* plan boundary: watchPlanSuspendedChild goes on.
AfterRun(c) == IF cstatus[c] = "suspended" THEN "suspended" ELSE "release"

ChildRunEnds(c, k) ==
  /\ watch[<<c, k>>].pc \in {"select", "tick", "childDone"}
  /\ ChildDone(c, watch[<<c, k>>].childDone)
  /\ watch' = [watch EXCEPT ![<<c, k>>].pc = AfterRun(c), ![<<c, k>>].childDone = 0]
  /\ StillWatching

SuspendedTick(c, k) ==
  /\ At(c, k, "suspended") /\ cstatus[c] # "suspended"
  /\ Goto(c, k, "release") /\ StillWatching

SuspendedParent(c, k) ==
  /\ At(c, k, "suspended") /\ ParentDone(watch[<<c, k>>].parentDone)
  /\ Goto(c, k, IF pstatus \in Paused THEN "parentNext" ELSE "stopSuspended")
  /\ StillWatching

SuspendedSuccessor(c, k) ==
  /\ At(c, k, "parentNext")
  /\ watch' = [watch EXCEPT ![<<c, k>>].pc = "suspended",
                 ![<<c, k>>].parentDone = IF pslot # 0 THEN pslot ELSE @]
  /\ StillWatching

\* Mutant of Release: every watcher gives a slot back.
ReleaseUncounted(c, k) ==
  /\ At(c, k, "release")
  /\ watch' = [watch EXCEPT ![<<c, k>>] = [NoWatch EXCEPT !.pc = "gone"]]
  /\ active' = active - 1
  /\ UNCHANGED <<parent, child, calls, starts, unwatched, crashes>>

Release(c, k) ==
  /\ At(c, k, "release")
  /\ watch' = [watch EXCEPT ![<<c, k>>] = [NoWatch EXCEPT !.pc = "gone"]]
  /\ active' = IF k = 1 THEN active - 1 ELSE active
  /\ UNCHANGED <<parent, child, calls, starts, unwatched, crashes>>

Watches(c, k) ==
  \/ Begin(c, k) \/ SelectParent(c, k) \/ ParentStatus(c, k)
  \/ StopChild(c, k) \/ ChildRunEnds(c, k)
  \/ SuspendedTick(c, k) \/ SuspendedParent(c, k) \/ SuspendedSuccessor(c, k)
  \/ Release(c, k)

(***************************************************************************)
(* A crash of the server and startupOrphanSweep: runs, watchers and the    *)
(* slot counter are gone, active rows are failed; waiting and plan-        *)
(* suspended rows survive, and so does the charged budget.                 *)
(***************************************************************************)
Swept(s) == IF s = "active" THEN "over" ELSE s

Restart ==
  /\ crashes < MaxCrashes
  /\ crashes' = crashes + 1
  /\ pstatus' = Swept(pstatus) /\ pslot' = 0 /\ pphase' = "none"
  /\ cstatus' = [c \in Child |-> Swept(cstatus[c])]
  /\ cslot' = [c \in Child |-> 0] /\ cphase' = [c \in Child |-> "none"]
  /\ cancelled' = {}
  /\ call' = [c \in Child |-> IF cruns[c] = 0 THEN "idle" ELSE "done"]
  /\ active' = 0
  /\ watch' = [w \in Watcher |->
                 IF watch[w].pc = "none" THEN NoWatch
                 ELSE [NoWatch EXCEPT !.pc = "gone"]]
  /\ unwatched' = {c \in Child : cstatus[c] = "suspended"}
  /\ callDone' = [c \in Child |-> 0]
  /\ UNCHANGED <<pruns, cruns, starts>>

ParentSteps == \/ \E s \in {"waiting", "over"} : ParentPublishes(s)
               \/ ParentExits \/ ParentRelaunches \/ ParentRegisters
               \/ ParentForced

ChildSteps(c) == \/ \E s \in Status : ChildPublishes(c, s)
                 \/ ChildExits(c) \/ ChildRelaunches(c) \/ ChildLaunch(c)
                 \/ ChildForced(c)

Next == \/ ParentSteps
        \/ \E c \in Child : Calls(c) \/ ChildSteps(c)
        \/ \E c \in Child : \E k \in Run(c) : Watches(c, k)
        \/ Restart

Spec == Init /\ [][Next]_vars

\* Goroutines run; a loop exits once it has published, and a cancelled run
\* publishes.  Nothing makes a run that is not cancelled end.  A watcher that
\* polls a paused parent also sees its child: a ready case of a select is not
\* passed over for ever.
FairSpec ==
  /\ Spec
  /\ WF_vars(ParentExits)
  /\ \A c \in Child :
       /\ WF_vars(Calls(c) /\ ~Charge(c))
       /\ WF_vars(ChildExits(c)) /\ WF_vars(ChildLaunch(c))
       /\ WF_vars(CancelledEnds(c))
  /\ \A c \in Child : \A k \in Run(c) :
       /\ WF_vars(Watches(c, k))
       /\ SF_vars(ChildRunEnds(c, k) \/ SuspendedTick(c, k))

----------------------------------------------------------------------------
Live(c) == cslot[c] # 0 \/ cstatus[c] = "suspended"

\* A child that holds a slot: still in the run it was started with, or
\* suspended since that run with a process that watches it.
HoldsSlot(c) ==
  \/ cslot[c] = 1
  \/ cstatus[c] = "suspended" /\ cruns[c] = 1 /\ c \notin unwatched

\* Never more children than subworkflow_max_children at a time, counted on
\* the children themselves: retries, resumes and failed starts of some must
\* not free the slots of others.
ConcurrencyCap == Cardinality({c \in Child : HoldsSlot(c)}) <= MaxChildren

\* The persisted budget pays for every child: refunds, which run apart from
\* the charge and the launch, never return the unit of a started child, also
\* over a restart.
BudgetPays == Cardinality({c \in Child : cruns[c] > 0}) <= starts

\* Every child that runs or is suspended has a watcher, or one about to be
\* spawned by its launch: the watcher of an earlier run never leaves a
\* suspended child behind, and a relaunch is never without one, except where
\* the relaunch found no parent to follow or a restart took the watcher.
Watched ==
  \A c \in Child : Live(c) =>
    \/ c \in unwatched
    \/ call[c] = "started" \/ cphase[c] \in {"rearm", "rearmStatus"}
    \/ \E k \in Run(c) : watch[<<c, k>>].pc \notin {"none", "gone", "release"}

\* When the parent is over for good, every watched child ends: a child never
\* outlives the run that started it, whatever the parent went through.
ParentGone == pstatus = "over" /\ pphase = "none"
ChildrenFollow ==
  \A c \in Child : <>[]ParentGone => <>[](~Live(c) \/ c \in unwatched)

\* Slots come back: when the parent is over for good, none of the slots its
\* starts took stays taken, whether they failed or their children were stopped,
\* suspended, resumed or retried.
SlotsReturn == <>[]ParentGone => <>[](active = 0)
============================================================================
