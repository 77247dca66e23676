--------------------------- MODULE PlanBoundary ---------------------------
(***************************************************************************)
(* The plan of a plan-driven workflow instance (be/internal/service:       *)
(* plan.go, plan_revise.go, plan_approve_auto.go, plan_status.go,          *)
(* plan_materialize.go;                                                    *)
(* be/internal/repo/plan.go) and the boundary at which its run waits for   *)
(* an approval (be/internal/orchestrator: plan_boundary.go,                *)
(* plan_boundary_claim.go, plan_resume.go).                                *)
(*                                                                         *)
(* A run that has finished its static layers drafts a plan with a planner  *)
(* agent, approves it itself if it was started with mode=auto, or else     *)
(* suspends, and is relaunched when the draft is approved.  An             *)
(* approval that lands while the planner is running is handed to the live  *)
(* run instead.  Approvers, editors and the run share the plan head, the   *)
(* status of the instance and the entry of o.runs; every access is a step  *)
(* of its own.                                                             *)
(***************************************************************************)
EXTENDS Naturals

CONSTANTS
  Approver,     \* goroutines that approve a plan
  Editor,       \* goroutines that revise or cancel a plan, or stop the run
  Early,        \* may they act on an instance that is not suspended, or that
                \* approves its own plan?
  MaxLaunches,  \* bound: runs of the instance
  MaxEdits,     \* bound: revisions requested by editors
  MaxRestarts   \* bound: server restarts

ASSUME BoundAssumption == /\ MaxLaunches \in Nat \ {0}
                          /\ MaxEdits \in Nat /\ MaxRestarts \in Nat
ASSUME EarlyAssumption == Early \in BOOLEAN

Run   == 1..MaxLaunches
NoRun == 0

\* Every run appends at most two revisions, every edit at most one.
Revision   == 1..(MaxEdits + 2 * MaxLaunches)
NoRevision == 0

PlanStatus == {"none", "draft", "approved", "cancelled"}
Suspended  == {"planning", "waiting"}   \* waiting_input or waiting_approval
Status     == Suspended \cup {"active", "completed", "failed"}

\* Where the goroutine of a run is.
Place == {"none", "static", "reload", "draft", "seed", "seedAppend", "enter",
          "revise", "planner", "check", "append", "leave",
          "auto", "autoAppend", "autoCheck", "autoCommit", "autoNodes", "derive",
          "suspend", "activate", "splice", "planLayers", "fail", "exit",
          "gone"}

Label == {"idle", "commit", "materialize", "status", "resume", "claim",
          "settle", "nodes", "activate", "register"}
EditLabel == {"idle", "planner", "check", "append", "drop", "force"}

VARIABLES
  plan, latest, approved, materialized, \* the row of workflow_plans
  status,     \* workflow_instances.status
  slot,       \* o.runs[instance]
  atBoundary, \* runs with runState.atPlanBoundary set
  claimed,    \* runs with runState.planApprovedAtBoundary set
  auto,       \* req.PlanAutoApprove, where the project allows it
  at, drafted, derived,   \* of each run: position, revision drafted, status
  pc, pin, waits,         \* position, pinned revision and awaited run
  epc, epin,              \* the same for editors
  granted,    \* an approval succeeded and its resume reported no error, and
  unresumed,  \* one was recorded but its resume returned an error: both since
              \* the last restart
  overlapped, \* an approval was repeated while the run or the request of an
              \* earlier one was still at work
  executed,   \* runs that entered the layers of the plan
  launches, edits, restarts

planVars == <<plan, latest, approved, materialized>>
flagVars == <<slot, atBoundary, claimed>>
loopVars == <<auto, at, drafted, derived>>
answers  == <<granted, unresumed>>
callVars == <<pc, pin, waits, answers>>
editVars == <<epc, epin, edits>>
vars     == <<planVars, status, flagVars, loopVars, callVars, editVars,
              overlapped, executed, launches, restarts>>

\* The first run of the instance executes its static layers.
Init ==
  /\ plan = "none" /\ latest = NoRevision
  /\ approved = NoRevision /\ materialized = NoRevision
  /\ status = "active" /\ slot = 1
  /\ atBoundary = {} /\ claimed = {}
  /\ at = [r \in Run |-> IF r = 1 THEN "static" ELSE "none"]
  /\ auto \in BOOLEAN
  /\ drafted = [r \in Run |-> NoRevision]
  /\ derived = [r \in Run |-> "planning"]
  /\ pc = [a \in Approver |-> "idle"]
  /\ pin = [a \in Approver |-> NoRevision]
  /\ waits = [a \in Approver |-> NoRun]
  /\ epc = [e \in Editor |-> "idle"]
  /\ epin = [e \in Editor |-> NoRevision]
  /\ granted = FALSE /\ unresumed = FALSE /\ overlapped = FALSE
  /\ executed = {}
  /\ launches = 1 /\ edits = 0 /\ restarts = 0

(***************************************************************************)
(* The plan head.                                                          *)
(***************************************************************************)
\* A planner session of the run or of an editor is running.
PlannerRunning == \/ \E r \in Run : at[r] = "planner"
                  \/ \E e \in Editor : epc[e] = "planner"

\* DerivePlanInstanceStatus over a head with status p.
DerivedStatus(p) ==
  IF PlannerRunning \/ p # "draft" THEN "planning" ELSE "waiting"

\* PlanRepo.Append: a new head is a draft, an old one keeps its status.
AppendRevision ==
  /\ latest' = latest + 1
  /\ plan' = IF plan = "none" THEN "draft" ELSE plan
  /\ UNCHANGED <<approved, materialized>>

\* PlanRepo.Cancel: only a draft is cancelled.
CancelDraft ==
  /\ plan' = IF plan = "draft" THEN "cancelled" ELSE plan
  /\ UNCHANGED <<latest, approved, materialized>>

\* syncPlanSuspendedStatus after a revision, guarded on a suspended status.
SyncStatus ==
  status' = IF status \in Suspended THEN DerivedStatus(plan') ELSE status

(***************************************************************************)
(* The run: reloadPlanLayers and draftPlanAndProceed.                      *)
(***************************************************************************)
Goto(r, p) == at' = [at EXCEPT ![r] = p]

\* Some approver has its approval and is not done with the resume.
Approving == {"materialize", "status", "resume", "claim", "settle", "nodes",
              "activate", "register"}
Resuming  == \E a \in Approver : pc[a] \in Approving

\* An approval that finds the plan approved, while others may be at work on it.
Repeat(atWork) == overlapped' = (overlapped \/ atWork)

Quietly == UNCHANGED <<auto, callVars, overlapped, editVars, launches, restarts>>

\* The static layers end; a cancelled context makes them fail.
StaticEnds(r) ==
  /\ at[r] = "static"
  /\ Goto(r, "reload") \/ Goto(r, "fail")
  /\ UNCHANGED <<planVars, status, flagVars, drafted, derived, executed>> /\ Quietly

Reload(r) ==
  /\ at[r] = "reload"
  /\ Goto(r, CASE plan = "none"      -> "draft"
               [] plan = "draft"     -> "derive"
               [] plan = "approved"  -> "splice"
               [] plan = "cancelled" -> "fail")
  /\ UNCHANGED <<planVars, status, flagVars, drafted, derived, executed>> /\ Quietly

\* A read of the workflow, of the plan or of its nodes returns an error.
LoopError(r) ==
  /\ at[r] \in {"reload", "derive", "splice"}
  /\ Goto(r, "fail")
  /\ UNCHANGED <<planVars, status, flagVars, drafted, derived, executed>> /\ Quietly

\* The instance is shown as planning; the caller may have sent a manifest (the
\* console does, which never asks for mode=auto).
DraftPlan(r) ==
  /\ at[r] = "draft"
  /\ status' = "planning"
  /\ (~auto /\ Goto(r, "seed")) \/ Goto(r, "enter")
  /\ UNCHANGED <<planVars, flagVars, drafted, derived, executed>> /\ Quietly

\* Revise with the seeded manifest, pinned to revision 0; it may not validate.
SeedCheck(r) ==
  /\ at[r] = "seed"
  /\ (plan = "none" /\ Goto(r, "seedAppend")) \/ Goto(r, "fail")
  /\ UNCHANGED <<planVars, status, flagVars, drafted, derived, executed>> /\ Quietly

SeedAppend(r) ==
  /\ at[r] = "seedAppend"
  /\ AppendRevision /\ SyncStatus
  /\ Goto(r, "derive")
  /\ UNCHANGED <<flagVars, drafted, derived, executed>> /\ Quietly

EnterPlanBoundary(r) ==
  /\ at[r] = "enter"
  /\ atBoundary' = IF slot = r THEN atBoundary \cup {r} ELSE atBoundary
  /\ Goto(r, "revise")
  /\ UNCHANGED <<planVars, status, slot, claimed, drafted, derived, executed>> /\ Quietly

\* Revise without a manifest, pinned to revision 0: the planner is started.
ReviseStart(r) ==
  /\ at[r] = "revise"
  /\ IF plan = "none"
     THEN Goto(r, "planner") /\ UNCHANGED drafted
     ELSE Goto(r, "leave") /\ drafted' = [drafted EXCEPT ![r] = NoRevision]
  /\ UNCHANGED <<planVars, status, flagVars, derived, executed>> /\ Quietly

PlannerEnds(r) ==
  /\ at[r] = "planner"
  /\ \/ Goto(r, "check") /\ UNCHANGED drafted
     \/ Goto(r, "leave") /\ drafted' = [drafted EXCEPT ![r] = NoRevision]
  /\ UNCHANGED <<planVars, status, flagVars, derived, executed>> /\ Quietly

\* A revision that landed meanwhile supersedes the planner's draft.
PlannerCheck(r) ==
  /\ at[r] = "check"
  /\ IF latest # NoRevision
     THEN /\ plan' = plan /\ SyncStatus
          /\ Goto(r, "leave") /\ drafted' = [drafted EXCEPT ![r] = latest]
     ELSE Goto(r, "append") /\ UNCHANGED <<plan, status, drafted>>
  /\ UNCHANGED <<latest, approved, materialized, flagVars, derived, executed>> /\ Quietly

PlannerAppend(r) ==
  /\ at[r] = "append"
  /\ AppendRevision /\ SyncStatus
  /\ Goto(r, "leave") /\ drafted' = [drafted EXCEPT ![r] = latest']
  /\ UNCHANGED <<flagVars, derived, executed>> /\ Quietly

\* Where an unclaimed run goes on.
AfterDraft(r) == IF drafted[r] = NoRevision THEN "fail"
                 ELSE IF auto THEN "auto" ELSE "derive"

\* Mutant of LeavePlanBoundary: the claim of an approver is dropped.
LeaveIgnoringClaim(r) ==
  /\ at[r] = "leave"
  /\ atBoundary' = atBoundary \ {r} /\ claimed' = claimed \ {r}
  /\ Goto(r, AfterDraft(r))
  /\ UNCHANGED <<planVars, status, slot, drafted, derived, executed>> /\ Quietly

\* Mutant of LeavePlanBoundary: the run stays at the boundary until claimed.
LeaveWhenClaimed(r) ==
  /\ at[r] = "leave" /\ r \in claimed
  /\ atBoundary' = atBoundary \ {r} /\ claimed' = claimed \ {r}
  /\ Goto(r, "activate")
  /\ UNCHANGED <<planVars, status, slot, drafted, derived, executed>> /\ Quietly

\* leavePlanBoundary; a claim beats the outcome of the planner.
LeavePlanBoundary(r) ==
  /\ at[r] = "leave"
  /\ atBoundary' = IF slot = r THEN atBoundary \ {r} ELSE atBoundary
  /\ claimed' = IF slot = r THEN claimed \ {r} ELSE claimed
  /\ Goto(r, IF slot = r /\ r \in claimed THEN "activate" ELSE AfterDraft(r))
  /\ UNCHANGED <<planVars, status, slot, drafted, derived, executed>> /\ Quietly

\* ApproveAuto: a draft with too many premium workers is downgraded first.
ApproveAuto(r) ==
  /\ at[r] = "auto"
  /\ Goto(r, "autoAppend") \/ Goto(r, "autoCheck")
  /\ UNCHANGED <<planVars, status, flagVars, drafted, derived, executed>>
  /\ Quietly

\* The downgraded manifest goes on top of whatever is the latest revision.
AppendDowngrade(r) ==
  /\ at[r] = "autoAppend"
  /\ AppendRevision
  /\ drafted' = [drafted EXCEPT ![r] = latest']
  /\ Goto(r, "autoCheck")
  /\ UNCHANGED <<status, flagVars, derived, executed>> /\ Quietly

\* The checks of Approve, pinned to the run's own revision.
AutoCheck(r) ==
  /\ at[r] = "autoCheck"
  /\ \/ /\ plan = "approved" /\ approved = drafted[r]
        /\ Goto(r, "activate") /\ Repeat(Resuming)
     \/ /\ plan = "draft" /\ latest = drafted[r]
        /\ Goto(r, "autoCommit") /\ UNCHANGED overlapped
     \/ /\ plan = "approved" => approved # drafted[r]
        /\ plan = "draft" => latest # drafted[r]
        /\ Goto(r, "fail") /\ UNCHANGED overlapped
  /\ UNCHANGED <<planVars, status, flagVars, drafted, derived, executed>>
  /\ UNCHANGED <<auto, callVars, editVars, launches, restarts>>

\* PlanRepo.Approve by the run; the approval is nobody's answer.
AutoCommit(r) ==
  /\ at[r] = "autoCommit"
  /\ IF plan = "draft" /\ latest = drafted[r]
     THEN plan' = "approved" /\ approved' = drafted[r] /\ Goto(r, "autoNodes")
     ELSE Goto(r, "fail") /\ UNCHANGED <<plan, approved>>
  /\ UNCHANGED <<latest, materialized, status, flagVars, drafted, derived, executed>>
  /\ Quietly

AutoMaterialize(r) ==
  /\ at[r] = "autoNodes"
  /\ materialized' = approved /\ Goto(r, "activate")
  /\ UNCHANGED <<plan, latest, approved, status, flagVars, drafted, derived, executed>>
  /\ Quietly

\* The manifest fails validation, or the plan or its nodes cannot be accessed.
AutoError(r) ==
  /\ at[r] \in {"auto", "autoAppend", "autoCheck", "autoCommit", "autoNodes"}
  /\ Goto(r, "fail")
  /\ UNCHANGED <<planVars, status, flagVars, drafted, derived, executed>>
  /\ Quietly

DeriveStatus(r) ==
  /\ at[r] = "derive"
  /\ derived' = [derived EXCEPT ![r] = DerivedStatus(plan)]
  /\ Goto(r, "suspend")
  /\ UNCHANGED <<planVars, status, flagVars, drafted, executed>> /\ Quietly

\* Mutant of SuspendForPlan: the status of the plan is written.
SuspendAsPlan(r) ==
  /\ at[r] = "suspend"
  /\ status' = plan
  /\ Goto(r, "exit")
  /\ UNCHANGED <<planVars, flagVars, drafted, derived, executed>> /\ Quietly

SuspendForPlan(r) ==
  /\ at[r] = "suspend"
  /\ status' = derived[r]
  /\ Goto(r, "exit")
  /\ UNCHANGED <<planVars, flagVars, drafted, derived, executed>> /\ Quietly

ActivateRun(r) ==
  /\ at[r] = "activate"
  /\ status' = "active"
  /\ Goto(r, "splice")
  /\ UNCHANGED <<planVars, flagVars, drafted, derived, executed>> /\ Quietly

\* Mutant of MaterializeAndSplice: the latest draft is spliced, approved or not.
SpliceLatest(r) ==
  /\ at[r] = "splice"
  /\ materialized' = latest
  /\ Goto(r, "planLayers") /\ executed' = executed \cup {r}
  /\ UNCHANGED <<plan, latest, approved, status, flagVars, drafted, derived>> /\ Quietly

\* Materialize (idempotent) and splice the nodes into the layers of the run.
MaterializeAndSplice(r) ==
  /\ at[r] = "splice"
  /\ IF plan = "approved"
     THEN /\ materialized' = approved
          /\ Goto(r, "planLayers") /\ executed' = executed \cup {r}
     ELSE Goto(r, "fail") /\ UNCHANGED <<materialized, executed>>
  /\ UNCHANGED <<plan, latest, approved, status, flagVars, drafted, derived>> /\ Quietly

PlanLayersEnd(r) ==
  /\ at[r] = "planLayers"
  /\ \/ status' = "completed" /\ Goto(r, "exit")
     \/ UNCHANGED status /\ Goto(r, "fail")
  /\ UNCHANGED <<planVars, flagVars, drafted, derived, executed>> /\ Quietly

MarkFailed(r) ==
  /\ at[r] = "fail"
  /\ status' = "failed"
  /\ Goto(r, "exit")
  /\ UNCHANGED <<planVars, flagVars, drafted, derived, executed>> /\ Quietly

\* The deferred clean-up: the o.runs entry is deleted, done is closed.
RunExits(r) ==
  /\ at[r] = "exit"
  /\ slot' = NoRun
  /\ Goto(r, "gone")
  /\ UNCHANGED <<planVars, status, atBoundary, claimed, drafted, derived, executed>>
  /\ Quietly

LoopStep(r) ==
  \/ StaticEnds(r) \/ Reload(r) \/ LoopError(r) \/ DraftPlan(r)
  \/ SeedCheck(r) \/ SeedAppend(r) \/ EnterPlanBoundary(r) \/ ReviseStart(r)
  \/ PlannerEnds(r) \/ PlannerCheck(r) \/ PlannerAppend(r)
  \/ LeavePlanBoundary(r) \/ ApproveAuto(r) \/ AppendDowngrade(r)
  \/ AutoCheck(r) \/ AutoCommit(r) \/ AutoMaterialize(r) \/ AutoError(r)
  \/ DeriveStatus(r) \/ SuspendForPlan(r)
  \/ ActivateRun(r) \/ MaterializeAndSplice(r) \/ PlanLayersEnd(r)
  \/ MarkFailed(r) \/ RunExits(r)

(***************************************************************************)
(* An approval: PlanService.Approve, then ResumeAfterPlanApproval.         *)
(***************************************************************************)
Step(a, l)  == pc' = [pc EXCEPT ![a] = l]
Return(a)   == /\ Step(a, "idle")
               /\ pin' = [pin EXCEPT ![a] = NoRevision]
               /\ waits' = [waits EXCEPT ![a] = NoRun]
Grant       == granted' = TRUE /\ UNCHANGED unresumed
ResumeFails == unresumed' = TRUE /\ UNCHANGED granted

Aside == UNCHANGED <<loopVars, overlapped, editVars, restarts>>

MayAct == Early \/ status \in Suspended

\* Approve: re-approving the approved revision is answered with success and
\* goes on to the resume, whoever is at work on the plan already.
Approve(a) ==
  /\ pc[a] = "idle" /\ MayAct
  /\ launches < MaxLaunches
  /\ \E k \in 1..latest :
       /\ pin' = [pin EXCEPT ![a] = k]
       /\ \/ /\ plan = "draft" /\ k = latest
             /\ Step(a, "commit") /\ UNCHANGED overlapped
          \/ /\ plan = "approved" /\ k = approved
             /\ Step(a, "status") /\ Repeat(slot # NoRun \/ Resuming)
  /\ UNCHANGED <<planVars, status, flagVars, waits, answers, executed, launches>>
  /\ UNCHANGED <<loopVars, editVars, restarts>>

\* PlanRepo.Approve: UPDATE guarded on a draft at exactly this revision.
CommitApproval(a) ==
  /\ pc[a] = "commit"
  /\ IF plan = "draft" /\ latest = pin[a]
     THEN /\ plan' = "approved" /\ approved' = pin[a]
          /\ Step(a, "materialize") /\ UNCHANGED <<pin, waits>>
     ELSE Return(a) /\ UNCHANGED <<plan, approved>>
  /\ UNCHANGED <<latest, materialized, status, flagVars, answers, executed, launches>>
  /\ Aside

\* Materialize in the same request; on an error the approval stays.
MaterializePlan(a) ==
  /\ pc[a] = "materialize"
  /\ \/ materialized' = approved /\ Step(a, "status") /\ UNCHANGED <<pin, waits>>
     \/ Return(a) /\ UNCHANGED materialized
  /\ UNCHANGED <<plan, latest, approved, status, flagVars, answers, executed, launches>>
  /\ Aside

\* The handlers resume the run only when the instance is suspended.
ReadStatus(a) ==
  /\ pc[a] = "status"
  /\ IF status \in Suspended
     THEN Step(a, "resume") /\ UNCHANGED <<pin, waits, answers>>
     ELSE Return(a) /\ Grant
  /\ UNCHANGED <<planVars, status, flagVars, executed, launches>> /\ Aside

\* The status check of ResumeAfterPlanApproval.  When the resume fails, here or
\* below, the console reports it, but handleApprovePlan answers with success.
ResumeCheck(a) ==
  /\ pc[a] = "resume"
  /\ IF status \in Suspended
     THEN Step(a, "claim") /\ UNCHANGED <<pin, waits, answers>>
     ELSE Return(a) /\ (IF status = "active" THEN Grant ELSE ResumeFails)
  /\ UNCHANGED <<planVars, status, flagVars, executed, launches>> /\ Aside

\* Mutant of ClaimAtBoundary: the claim does not look at the boundary flag.
ClaimAnyRun(a) ==
  /\ pc[a] = "claim"
  /\ IF slot # NoRun
     THEN claimed' = claimed \cup {slot} /\ Return(a) /\ Grant
     ELSE Step(a, "nodes") /\ UNCHANGED <<claimed, pin, waits, answers>>
  /\ UNCHANGED <<planVars, status, slot, atBoundary, executed, launches>> /\ Aside

\* Mutant of ClaimAtBoundary: a claimed boundary is resumed as well.
ClaimAndResume(a) ==
  /\ pc[a] = "claim"
  /\ claimed' = IF slot \in atBoundary THEN claimed \cup {slot} ELSE claimed
  /\ Step(a, IF slot = NoRun THEN "nodes" ELSE "settle")
  /\ waits' = [waits EXCEPT ![a] = slot]
  /\ UNCHANGED <<pin, answers>>
  /\ UNCHANGED <<planVars, status, slot, atBoundary, executed, launches>> /\ Aside

\* ClaimPlanApprovalAtBoundary; without a boundary a registered run is awaited.
\* The approve_plan tool of the console claims before its status check as well.
ClaimAtBoundary(a) ==
  /\ pc[a] \in {"resume", "claim"}
  /\ \/ /\ slot \in atBoundary
        /\ claimed' = claimed \cup {slot} /\ Return(a) /\ Grant
     \/ /\ pc[a] = "claim" /\ slot \notin atBoundary
        /\ Step(a, IF slot = NoRun THEN "nodes" ELSE "settle")
        /\ waits' = [waits EXCEPT ![a] = slot]
        /\ UNCHANGED <<claimed, pin, answers>>
  /\ UNCHANGED <<planVars, status, slot, atBoundary, executed, launches>> /\ Aside

\* waitForRunToSettle, or its timeout.
RunSettles(a) ==
  /\ pc[a] = "settle"
  /\ \/ /\ at[waits[a]] = "gone" /\ Step(a, "nodes")
        /\ UNCHANGED <<pin, waits, answers>>
     \/ Return(a) /\ ResumeFails
  /\ UNCHANGED <<planVars, status, flagVars, executed, launches>> /\ Aside

\* Mutant of CheckNodes: the resume waits for the nodes.
AwaitNodes(a) ==
  /\ pc[a] = "nodes"
  /\ materialized # NoRevision /\ Step(a, "activate") /\ UNCHANGED <<pin, waits>>
  /\ UNCHANGED <<planVars, status, flagVars, answers, executed, launches>> /\ Aside

\* The resume fails without nodes, or because settings cannot be loaded.
CheckNodes(a) ==
  /\ pc[a] = "nodes"
  /\ \/ /\ materialized # NoRevision /\ Step(a, "activate")
        /\ UNCHANGED <<pin, waits, answers>>
     \/ Return(a) /\ ResumeFails
  /\ UNCHANGED <<planVars, status, flagVars, executed, launches>> /\ Aside

\* The status is written whatever it has become since the check.
ActivateInstance(a) ==
  /\ pc[a] = "activate"
  /\ status' = "active"
  /\ Step(a, "register")
  /\ UNCHANGED <<planVars, flagVars, pin, waits, answers, executed, launches>> /\ Aside

\* A new runState replaces the o.runs entry; its goroutine starts at the
\* layers of the plan.
Relaunch(a) ==
  /\ pc[a] = "register"
  /\ launches < MaxLaunches
  /\ launches' = launches + 1
  /\ slot' = launches + 1
  /\ at' = [at EXCEPT ![launches + 1] = "planLayers"]
  /\ executed' = executed \cup {launches + 1}
  /\ Return(a) /\ Grant
  /\ UNCHANGED <<planVars, status, atBoundary, claimed, auto, drafted, derived,
                 overlapped, editVars, restarts>>

ApproverStep(a) ==
  \/ CommitApproval(a) \/ MaterializePlan(a) \/ ReadStatus(a) \/ ResumeCheck(a)
  \/ ClaimAtBoundary(a) \/ RunSettles(a) \/ CheckNodes(a)
  \/ ActivateInstance(a) \/ Relaunch(a)

(***************************************************************************)
(* Editors: Revise, Cancel, the sweep of expired drafts, Stop.             *)
(***************************************************************************)
EStep(e, l) == epc' = [epc EXCEPT ![e] = l]
EReturn(e)  == EStep(e, "idle") /\ epin' = [epin EXCEPT ![e] = NoRevision]

Elsewhere ==
  UNCHANGED <<flagVars, loopVars, callVars, overlapped, executed, launches, restarts>>

\* Revise is pinned to the latest revision of a draft, or to 0 without a head.
Revise(e) ==
  /\ epc[e] = "idle" /\ MayAct
  /\ edits < MaxEdits
  /\ plan \in {"none", "draft"}
  /\ epin' = [epin EXCEPT ![e] = latest]
  /\ EStep(e, "planner") \/ EStep(e, "append")   \* by the planner, by a manifest
  /\ edits' = edits + 1
  /\ UNCHANGED <<planVars, status>> /\ Elsewhere

EditPlannerEnds(e) ==
  /\ epc[e] = "planner"
  /\ \/ EStep(e, "check") /\ UNCHANGED epin
     \/ EReturn(e)
  /\ UNCHANGED <<planVars, status, edits>> /\ Elsewhere

EditCheck(e) ==
  /\ epc[e] = "check"
  /\ IF latest # epin[e]
     THEN plan' = plan /\ SyncStatus /\ EReturn(e)
     ELSE EStep(e, "append") /\ UNCHANGED <<plan, status, epin>>
  /\ UNCHANGED <<latest, approved, materialized, edits>> /\ Elsewhere

\* Mutant of EditAppend: the new revision reopens the plan as a draft.
EditReopens(e) ==
  /\ epc[e] = "append"
  /\ latest' = latest + 1 /\ plan' = "draft"
  /\ UNCHANGED <<approved, materialized>>
  /\ SyncStatus
  /\ EReturn(e)
  /\ UNCHANGED edits /\ Elsewhere

EditAppend(e) ==
  /\ epc[e] = "append"
  /\ AppendRevision /\ SyncStatus
  /\ EReturn(e)
  /\ UNCHANGED edits /\ Elsewhere

\* handleCancelPlan, SweepExpiredDrafts, and Stop of a registered run, whose
\* cancelled context shows as the failing outcomes of the run.
CancelPlan ==
  /\ plan = "draft"
  /\ CancelDraft
  /\ UNCHANGED <<status, editVars>> /\ Elsewhere

\* Stop of an instance without a registered run: forceStopInstance.
ForceStop(e) ==
  /\ epc[e] = "idle"
  /\ slot = NoRun /\ status \in Suspended \cup {"active"}
  /\ EStep(e, IF status \in Suspended THEN "drop" ELSE "force")
  /\ UNCHANGED <<planVars, status, epin, edits>> /\ Elsewhere

DropDraft(e) ==
  /\ epc[e] = "drop"
  /\ CancelDraft
  /\ EStep(e, "force")
  /\ UNCHANGED <<status, epin, edits>> /\ Elsewhere

ForceFail(e) ==
  /\ epc[e] = "force"
  /\ status' = "failed"
  /\ EReturn(e)
  /\ UNCHANGED <<planVars, edits>> /\ Elsewhere

EditorStep(e) == \/ EditPlannerEnds(e) \/ EditCheck(e) \/ EditAppend(e)
                 \/ DropDraft(e) \/ ForceFail(e)

(***************************************************************************)
(* The server dies; its successor fails the instance if it was active.     *)
(* A suspended instance survives, with nobody at work on it.               *)
(***************************************************************************)
Restart ==
  /\ restarts < MaxRestarts
  /\ restarts' = restarts + 1
  /\ status' = IF status = "active" THEN "failed" ELSE status
  /\ slot' = NoRun /\ atBoundary' = {} /\ claimed' = {}
  /\ at' = [r \in Run |-> IF at[r] = "none" THEN "none" ELSE "gone"]
  /\ pc' = [a \in Approver |-> "idle"]
  /\ pin' = [a \in Approver |-> NoRevision]
  /\ waits' = [a \in Approver |-> NoRun]
  /\ epc' = [e \in Editor |-> "idle"]
  /\ epin' = [e \in Editor |-> NoRevision]
  /\ granted' = FALSE /\ unresumed' = FALSE
  /\ UNCHANGED <<planVars, auto, drafted, derived, overlapped, executed, launches,
                 edits>>

Next ==
  \/ \E r \in Run : LoopStep(r)
  \/ \E a \in Approver : Approve(a) \/ ApproverStep(a)
  \/ \E e \in Editor : Revise(e) \/ ForceStop(e) \/ EditorStep(e)
  \/ CancelPlan
  \/ Restart

Spec == Init /\ [][Next]_vars

\* Goroutines are scheduled and agents end (their timeouts bound them); no
\* request has to be made and no restart has to happen.
FairSpec ==
  /\ Spec
  /\ \A r \in Run : WF_vars(LoopStep(r))
  /\ \A a \in Approver : WF_vars(ApproverStep(a))
  /\ \A e \in Editor : WF_vars(EditorStep(e))

(***************************************************************************)
(* Properties.                                                             *)
(***************************************************************************)
\* Every variable holds a value of its type.
TypeOK ==
  /\ plan \in PlanStatus /\ status \in Status
  /\ latest \in Nat /\ approved \in Nat /\ materialized \in Nat
  /\ slot \in Run \cup {NoRun} /\ atBoundary \subseteq Run /\ claimed \subseteq Run
  /\ at \in [Run -> Place] /\ drafted \in [Run -> Nat]
  /\ derived \in [Run -> Suspended] /\ auto \in BOOLEAN
  /\ pc \in [Approver -> Label] /\ pin \in [Approver -> Nat]
  /\ waits \in [Approver -> Run \cup {NoRun}]
  /\ epc \in [Editor -> EditLabel] /\ epin \in [Editor -> Nat]
  /\ granted \in BOOLEAN /\ unresumed \in BOOLEAN /\ overlapped \in BOOLEAN
  /\ executed \subseteq Run
  /\ launches \in Nat /\ edits \in Nat /\ restarts \in Nat

\* The layers of a plan are executed only for an approved plan, and the nodes
\* that are executed are those of the approved revision, although revisions
\* may be appended after the approval and a cancel may race it.
OnlyApprovedRuns ==
  executed # {} => /\ plan = "approved"
                   /\ approved # NoRevision /\ materialized = approved

\* An approval is final: nothing reopens or cancels an approved plan, exchanges
\* the approved revision or materializes another one, and nothing revives a
\* cancelled plan.
ApprovalFinal ==
  [][ /\ plan = "approved" => plan' = "approved" /\ approved' = approved
      /\ plan = "cancelled" => plan' = "cancelled"
      /\ materialized # NoRevision => materialized' = materialized ]_vars

Quiet == /\ \A r \in Run : at[r] \in {"none", "gone"}
         /\ \A a \in Approver : pc[a] = "idle"
         /\ \A e \in Editor : epc[e] = "idle"

\* plan_boundary_claim.go: an approval is picked up by the live boundary or by
\* the resume path, "never neither".  When everybody is done, an approval whose
\* resume reported no error was executed by some run, or the instance failed.
\* After an approval that REST answers with success although its resume failed,
\* the instance may also be suspended, where the approval can be repeated, but
\* never active with nobody at work.
NeverNeither ==
  Quiet => /\ granted => executed # {} \/ status = "failed"
           /\ unresumed => executed # {} \/ status \in Suspended \cup {"failed"}

\* The other half, "never both": one run at most executes the plan, among the
\* planner, the exit of the run, its mode=auto, edits and stops, and approvals that
\* are repeated when the earlier ones are done.  An approval that is repeated
\* while the run or an earlier request is still at work may run the plan again.
NeverBoth == overlapped \/ \A r, s \in executed : r = s

\* An approval whose resume reported no error leads to a run of the plan or to a
\* failed instance, unless the server is restarted, and one whose resume failed
\* at least to an instance that is suspended again.
ApprovalPickedUp ==
  /\ granted ~> (executed # {} \/ status = "failed" \/ ~granted)
  /\ unresumed ~> (executed # {} \/ status \in Suspended \cup {"failed"} \/ ~unresumed)

\* The run ends, and every request is answered: nobody waits for a run that
\* waits for nobody.
LoopEnds == \A r \in Run : at[r] # "none" ~> at[r] = "gone"
CallsReturn == /\ \A a \in Approver : pc[a] # "idle" ~> pc[a] = "idle"
               /\ \A e \in Editor : epc[e] # "idle" ~> epc[e] = "idle"
=============================================================================
