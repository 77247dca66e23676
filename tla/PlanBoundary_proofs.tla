------------------------ MODULE PlanBoundary_proofs ------------------------
(***************************************************************************)
(* Theorems about PlanBoundary for any number of editors, runs and         *)
(* revisions.  With any number of approvers, early or not, what is         *)
(* executed is the approved revision and an approval is final.  When       *)
(* nobody is early, an approval is picked up, and picked up once unless it *)
(* is repeated while it is being picked up.                                *)
(***************************************************************************)
EXTENDS PlanBoundary, TLAPS

(***************************************************************************)
(* The inductive invariant.                                                *)
(***************************************************************************)
\* The head of the plan agrees with itself, and nodes imply an approval.
HeadConsistent ==
  /\ plan = "approved" <=> approved # NoRevision
  /\ materialized # NoRevision => materialized = approved

\* An approver past its commit acts on an approved plan, one past the check of
\* the nodes on a materialized one.
ApproversCurrent ==
  \A a \in Approver :
    /\ pc[a] = "commit" => pin[a] # NoRevision
    /\ pc[a] = "materialize" => plan = "approved"
    /\ pc[a] \in {"activate", "register"} => materialized # NoRevision

\* A run that approves its own plan has a revision to pin, and past its commit it
\* acts on an approved plan.
RunsPinned ==
  \A r \in Run :
    /\ at[r] \in {"auto", "autoCheck", "autoCommit"} => drafted[r] # NoRevision
    /\ at[r] = "autoNodes" => plan = "approved"

\* Nodes exist before they are executed.
NodesFirst == executed # {} => materialized # NoRevision

\* TypeOK in three parts.
TypeData ==
  /\ plan \in PlanStatus /\ status \in Status
  /\ latest \in Nat /\ approved \in Nat /\ materialized \in Nat
  /\ granted \in BOOLEAN /\ unresumed \in BOOLEAN /\ overlapped \in BOOLEAN
  /\ executed \subseteq Run
  /\ launches \in Nat /\ edits \in Nat /\ restarts \in Nat

TypeRuns ==
  /\ slot \in Run \cup {NoRun} /\ atBoundary \subseteq Run /\ claimed \subseteq Run
  /\ at \in [Run -> Place] /\ drafted \in [Run -> Nat]
  /\ derived \in [Run -> Suspended] /\ auto \in BOOLEAN

TypeCalls ==
  /\ pc \in [Approver -> Label] /\ pin \in [Approver -> Nat]
  /\ waits \in [Approver -> Run \cup {NoRun}]
  /\ epc \in [Editor -> EditLabel] /\ epin \in [Editor -> Nat]

IInv == TypeOK /\ HeadConsistent /\ ApproversCurrent /\ RunsPinned /\ NodesFirst

\* What a step may not do to an approval.
KeepsApproval ==
  /\ plan = "approved" => plan' = "approved" /\ approved' = approved
  /\ plan = "cancelled" => plan' = "cancelled"
  /\ materialized # NoRevision => materialized' = materialized

LEMMA InitInv == Init => IInv
<1> SUFFICES ASSUME Init PROVE IInv OBVIOUS
<1>1. TypeOK
  <2>1. 1 \in Run BY BoundAssumption DEF Run
  <2>2. /\ at \in [Run -> Place] /\ slot \in Run
        /\ pc \in [Approver -> Label] /\ epc \in [Editor -> EditLabel]
    BY <2>1 DEF Init, Place, Label, EditLabel
  <2>3. QED BY <2>2 DEF Init, TypeOK, PlanStatus, Status, Suspended, NoRevision, NoRun
<1>2. HeadConsistent /\ ApproversCurrent /\ RunsPinned /\ NodesFirst
  BY DEF Init, HeadConsistent, ApproversCurrent, RunsPinned, NodesFirst
<1>3. QED BY <1>1, <1>2 DEF IInv

LEMMA LoopInv ==
  ASSUME IInv, NEW r \in Run,
         LoopStep(r)
  PROVE  IInv' /\ KeepsApproval
<1> USE DEF Goto, Step, Return, Grant, ResumeFails, Repeat, EStep, EReturn, Quietly, Aside, Elsewhere,
      AppendRevision, CancelDraft, SyncStatus, DerivedStatus, AfterDraft, MayAct,
      planVars, flagVars, loopVars, callVars, answers, editVars, IInv, TypeOK,
      HeadConsistent, ApproversCurrent, RunsPinned, NodesFirst, KeepsApproval,
      NoRevision, NoRun, Place, Label, EditLabel, Status, Suspended, PlanStatus
<1>1. CASE StaticEnds(r) BY <1>1 DEF StaticEnds
<1>2. CASE Reload(r) BY <1>2 DEF Reload
<1>3. CASE LoopError(r) BY <1>3 DEF LoopError
<1>4. CASE DraftPlan(r) BY <1>4 DEF DraftPlan
<1>5. CASE SeedCheck(r) BY <1>5 DEF SeedCheck
<1>6. CASE SeedAppend(r) BY <1>6 DEF SeedAppend
<1>7. CASE EnterPlanBoundary(r) BY <1>7 DEF EnterPlanBoundary
<1>8. CASE ReviseStart(r) BY <1>8 DEF ReviseStart
<1>9. CASE PlannerEnds(r) BY <1>9 DEF PlannerEnds
<1>10. CASE PlannerCheck(r) BY <1>10 DEF PlannerCheck
<1>11. CASE PlannerAppend(r) BY <1>11 DEF PlannerAppend
<1>12. CASE LeavePlanBoundary(r) BY <1>12 DEF LeavePlanBoundary
<1>13. CASE ApproveAuto(r) BY <1>13 DEF ApproveAuto
<1>14. CASE AppendDowngrade(r) BY <1>14 DEF AppendDowngrade
<1>15. CASE AutoCheck(r)
  <2> USE <1>15 DEF AutoCheck
  <2>1. TypeData' BY BoundAssumption DEF TypeData, Run
  <2>2. TypeRuns' BY BoundAssumption DEF TypeRuns, Run
  <2>3. TypeCalls' BY DEF TypeCalls
  <2>4. HeadConsistent' /\ ApproversCurrent' /\ RunsPinned' /\ NodesFirst' /\ KeepsApproval
    OBVIOUS
  <2>5. QED BY <2>1, <2>2, <2>3, <2>4 DEF TypeData, TypeRuns, TypeCalls
<1>16. CASE AutoCommit(r) BY <1>16 DEF AutoCommit
<1>17. CASE AutoMaterialize(r) BY <1>17 DEF AutoMaterialize
<1>18. CASE AutoError(r) BY <1>18 DEF AutoError
<1>19. CASE DeriveStatus(r) BY <1>19 DEF DeriveStatus
<1>20. CASE SuspendForPlan(r) BY <1>20 DEF SuspendForPlan
<1>21. CASE ActivateRun(r) BY <1>21 DEF ActivateRun
<1>22. CASE MaterializeAndSplice(r) BY <1>22 DEF MaterializeAndSplice
<1>23. CASE PlanLayersEnd(r) BY <1>23 DEF PlanLayersEnd
<1>24. CASE MarkFailed(r) BY <1>24 DEF MarkFailed
<1>25. CASE RunExits(r) BY <1>25 DEF RunExits
<1>26. QED BY <1>1, <1>2, <1>3, <1>4, <1>5, <1>6, <1>7, <1>8, <1>9, <1>10, <1>11,
      <1>12, <1>13, <1>14, <1>15, <1>16, <1>17, <1>18, <1>19, <1>20, <1>21, <1>22,
      <1>23, <1>24, <1>25 DEF LoopStep

LEMMA ApproverInv ==
  ASSUME IInv, NEW a \in Approver,
         Approve(a) \/ ApproverStep(a)
  PROVE  IInv' /\ KeepsApproval
<1> USE DEF Goto, Step, Return, Grant, ResumeFails, Repeat, EStep, EReturn, Quietly, Aside, Elsewhere,
      AppendRevision, CancelDraft, SyncStatus, DerivedStatus, AfterDraft, MayAct,
      planVars, flagVars, loopVars, callVars, answers, editVars, IInv, TypeOK,
      HeadConsistent, ApproversCurrent, RunsPinned, NodesFirst, KeepsApproval,
      NoRevision, NoRun, Place, Label, EditLabel, Status, Suspended, PlanStatus
<1>1. CASE Approve(a)
  <2> USE <1>1 DEF Approve
  <2>1. TypeData' BY BoundAssumption DEF TypeData, Run
  <2>2. TypeRuns' BY BoundAssumption DEF TypeRuns, Run
  <2>3. TypeCalls' BY DEF TypeCalls
  <2>4. HeadConsistent' /\ ApproversCurrent' /\ RunsPinned' /\ NodesFirst' /\ KeepsApproval
    OBVIOUS
  <2>5. QED BY <2>1, <2>2, <2>3, <2>4 DEF TypeData, TypeRuns, TypeCalls
<1>2. CASE CommitApproval(a) BY <1>2 DEF CommitApproval
<1>3. CASE MaterializePlan(a) BY <1>3 DEF MaterializePlan
<1>4. CASE ReadStatus(a)
  <2> USE <1>4 DEF ReadStatus
  <2>1. TypeData' BY BoundAssumption DEF TypeData, Run
  <2>2. TypeRuns' BY BoundAssumption DEF TypeRuns, Run
  <2>3. TypeCalls' BY DEF TypeCalls
  <2>4. HeadConsistent' /\ ApproversCurrent' /\ RunsPinned' /\ NodesFirst' /\ KeepsApproval
    OBVIOUS
  <2>5. QED BY <2>1, <2>2, <2>3, <2>4 DEF TypeData, TypeRuns, TypeCalls
<1>5. CASE ResumeCheck(a)
  <2> USE <1>5 DEF ResumeCheck
  <2>1. TypeData' BY BoundAssumption DEF TypeData, Run
  <2>2. TypeRuns' BY BoundAssumption DEF TypeRuns, Run
  <2>3. TypeCalls' BY DEF TypeCalls
  <2>4. HeadConsistent' /\ ApproversCurrent' /\ RunsPinned' /\ NodesFirst' /\ KeepsApproval
    OBVIOUS
  <2>5. QED BY <2>1, <2>2, <2>3, <2>4 DEF TypeData, TypeRuns, TypeCalls
<1>6. CASE ClaimAtBoundary(a)
  <2> USE <1>6 DEF ClaimAtBoundary
  <2>1. TypeData' BY BoundAssumption DEF TypeData, Run
  <2>2. TypeRuns' BY BoundAssumption DEF TypeRuns, Run
  <2>3. TypeCalls' BY DEF TypeCalls
  <2>4. HeadConsistent' /\ ApproversCurrent' /\ RunsPinned' /\ NodesFirst' /\ KeepsApproval
    OBVIOUS
  <2>5. QED BY <2>1, <2>2, <2>3, <2>4 DEF TypeData, TypeRuns, TypeCalls
<1>7. CASE RunSettles(a)
  <2> USE <1>7 DEF RunSettles
  <2>1. TypeData' BY BoundAssumption DEF TypeData, Run
  <2>2. TypeRuns' BY BoundAssumption DEF TypeRuns, Run
  <2>3. TypeCalls' BY DEF TypeCalls
  <2>4. HeadConsistent' /\ ApproversCurrent' /\ RunsPinned' /\ NodesFirst' /\ KeepsApproval
    OBVIOUS
  <2>5. QED BY <2>1, <2>2, <2>3, <2>4 DEF TypeData, TypeRuns, TypeCalls
<1>8. CASE CheckNodes(a)
  <2> USE <1>8 DEF CheckNodes
  <2>1. TypeData' BY BoundAssumption DEF TypeData, Run
  <2>2. TypeRuns' BY BoundAssumption DEF TypeRuns, Run
  <2>3. TypeCalls' BY DEF TypeCalls
  <2>4. HeadConsistent' /\ ApproversCurrent' /\ RunsPinned' /\ NodesFirst' /\ KeepsApproval
    OBVIOUS
  <2>5. QED BY <2>1, <2>2, <2>3, <2>4 DEF TypeData, TypeRuns, TypeCalls
<1>9. CASE ActivateInstance(a) BY <1>9 DEF ActivateInstance
<1>10. CASE Relaunch(a)
  <2> USE <1>10 DEF Relaunch
  <2>1. TypeData' BY BoundAssumption DEF TypeData, Run
  <2>2. TypeRuns' BY BoundAssumption DEF TypeRuns, Run
  <2>3. TypeCalls' BY DEF TypeCalls
  <2>4. HeadConsistent' /\ ApproversCurrent' /\ RunsPinned' /\ NodesFirst' /\ KeepsApproval
    OBVIOUS
  <2>5. QED BY <2>1, <2>2, <2>3, <2>4 DEF TypeData, TypeRuns, TypeCalls
<1>11. QED BY <1>1, <1>2, <1>3, <1>4, <1>5, <1>6, <1>7, <1>8, <1>9, <1>10 DEF
      ApproverStep

LEMMA EditorInv ==
  ASSUME IInv, NEW e \in Editor,
         Revise(e) \/ ForceStop(e) \/ EditorStep(e)
  PROVE  IInv' /\ KeepsApproval
<1> USE DEF Goto, Step, Return, Grant, ResumeFails, Repeat, EStep, EReturn, Quietly, Aside, Elsewhere,
      AppendRevision, CancelDraft, SyncStatus, DerivedStatus, AfterDraft, MayAct,
      planVars, flagVars, loopVars, callVars, answers, editVars, IInv, TypeOK,
      HeadConsistent, ApproversCurrent, RunsPinned, NodesFirst, KeepsApproval,
      NoRevision, NoRun, Place, Label, EditLabel, Status, Suspended, PlanStatus
<1>1. CASE Revise(e) BY <1>1 DEF Revise
<1>2. CASE ForceStop(e) BY <1>2 DEF ForceStop
<1>3. CASE EditPlannerEnds(e) BY <1>3 DEF EditPlannerEnds
<1>4. CASE EditCheck(e) BY <1>4 DEF EditCheck
<1>5. CASE EditAppend(e) BY <1>5 DEF EditAppend
<1>6. CASE DropDraft(e) BY <1>6 DEF DropDraft
<1>7. CASE ForceFail(e) BY <1>7 DEF ForceFail
<1>8. QED BY <1>1, <1>2, <1>3, <1>4, <1>5, <1>6, <1>7 DEF EditorStep

LEMMA RestartInv ==
  ASSUME IInv, Restart PROVE IInv' /\ KeepsApproval
<1> USE DEF Restart, planVars, IInv
<1>1. TypeData'
  <2>1. status' \in Status /\ restarts' \in Nat BY DEF TypeOK, Status
  <2>2. UNCHANGED <<plan, latest, approved, materialized, executed, launches, edits>>
    OBVIOUS
  <2>3. granted' = FALSE /\ unresumed' = FALSE /\ overlapped' = overlapped OBVIOUS
  <2>4. QED BY <2>1, <2>2, <2>3 DEF TypeOK, TypeData
<1>2. TypeRuns' BY DEF TypeOK, TypeRuns, Place, NoRun
<1>3. TypeCalls' BY DEF TypeOK, TypeCalls, Label, EditLabel, NoRun, NoRevision
<1>4. HeadConsistent' /\ ApproversCurrent' /\ RunsPinned' /\ NodesFirst' /\ KeepsApproval
  BY DEF TypeOK, HeadConsistent, ApproversCurrent, RunsPinned, NodesFirst, KeepsApproval
<1>5. QED BY <1>1, <1>2, <1>3, <1>4 DEF TypeOK, TypeData, TypeRuns, TypeCalls

LEMMA StepInv == IInv /\ [Next]_vars => IInv' /\ KeepsApproval
<1> SUFFICES ASSUME IInv, [Next]_vars PROVE IInv' /\ KeepsApproval OBVIOUS
<1>1. CASE CancelPlan
  BY <1>1 DEF CancelPlan, CancelDraft, Elsewhere, flagVars, loopVars, callVars, answers,
              editVars,
              IInv, TypeOK, HeadConsistent, ApproversCurrent, RunsPinned, NodesFirst,
              KeepsApproval, PlanStatus, NoRevision
<1>2. CASE UNCHANGED vars
  BY <1>2 DEF vars, planVars, flagVars, loopVars, callVars, answers, editVars, IInv, TypeOK,
              HeadConsistent, ApproversCurrent, RunsPinned, NodesFirst, KeepsApproval
<1>3. QED BY <1>1, <1>2, LoopInv, ApproverInv, EditorInv, RestartInv DEF Next

\* Every variable keeps its type, whatever callers do.
THEOREM TypeCorrect == Spec => []TypeOK
<1>1. IInv => TypeOK BY DEF IInv
<1>2. QED BY <1>1, InitInv, StepInv, PTL DEF Spec

\* Only the nodes of an approved revision are executed, for any number of
\* approvers and editors that race the run.
THEOREM ExecutedWereApproved == Spec => []OnlyApprovedRuns
<1>1. IInv => OnlyApprovedRuns
  BY DEF IInv, HeadConsistent, NodesFirst, OnlyApprovedRuns, NoRevision
<1>2. QED BY <1>1, InitInv, StepInv, PTL DEF Spec

\* No step of anybody takes an approval back or exchanges what it approved.
THEOREM ApprovalIsFinal == Spec => ApprovalFinal
<1>1. IInv /\ [Next]_vars =>
        [ /\ plan = "approved" => plan' = "approved" /\ approved' = approved
          /\ plan = "cancelled" => plan' = "cancelled"
          /\ materialized # NoRevision => materialized' = materialized ]_vars
  BY StepInv DEF KeepsApproval
<1>2. QED BY <1>1, InitInv, StepInv, PTL DEF Spec, ApprovalFinal

(***************************************************************************)
(* The hand-off between an approver and a run, when nobody is early.       *)
(***************************************************************************)
Fresh      == {"static", "reload", "draft"}
InBoundary == {"revise", "planner", "check", "append", "leave"}

\* A run that is launched by an approver executes the plan at once: until then
\* there is but the first run.  It is registered until it is gone, it is marked
\* while it is at the boundary, and nobody fails the instance before it ends.
FirstRun ==
  executed = {} =>
    /\ launches = 1
    /\ at[1] \notin {"none", "planLayers"}
    /\ \A r \in Run : r # 1 => at[r] = "none"
    /\ slot = IF at[1] = "gone" THEN NoRun ELSE 1
    /\ atBoundary = IF at[1] \in InBoundary THEN {1} ELSE {}
    /\ claimed \subseteq atBoundary
    /\ status # "completed"
    /\ status = "failed" => at[1] \in {"exit", "gone"}
    /\ \A e \in Editor : epc[e] \in {"drop", "force"} => at[1] = "gone"

\* Before the run shows the instance as planning nobody touches it.
Untouched ==
  executed = {} /\ at[1] \in Fresh =>
    /\ status = "active" /\ plan = "none"
    /\ \A a \in Approver : pc[a] = "idle"
    /\ \A e \in Editor : epc[e] = "idle"

\* After that, whoever makes the instance active is about to execute the plan.
WhoActivates ==
  executed = {} /\ status = "active" =>
    \/ at[1] \in Fresh \cup {"splice", "fail"}
    \/ \E a \in Approver : pc[a] = "register"

\* An approval whose resume reported no error and that is not yet executed lies
\* with the run, as a claim or behind it, or with an approver, or has failed.
PickedUp ==
  granted /\ executed = {} =>
    \/ 1 \in claimed
    \/ at[1] \in {"activate", "splice", "fail"}
    \/ \E a \in Approver : pc[a] = "register"
    \/ status = "failed"

HandOff == FirstRun /\ Untouched /\ WhoActivates /\ PickedUp

LEMMA InitHandOff == Init => HandOff
<1>1. 1 \in Run BY BoundAssumption DEF Run
<1>2. QED BY <1>1 DEF Init, HandOff, FirstRun, Untouched, WhoActivates, PickedUp, Fresh,
                      InBoundary, NoRun

LEMMA LoopHandOff ==
  ASSUME ~Early, IInv, HandOff, NEW r \in Run,
         LoopStep(r)
  PROVE  HandOff'
<1> USE DEF Goto, Step, Return, Grant, ResumeFails, Repeat, EStep, EReturn, Quietly, Aside, Elsewhere,
      AppendRevision, CancelDraft, SyncStatus, DerivedStatus, AfterDraft, MayAct,
      planVars, flagVars, loopVars, callVars, answers, editVars, NoRun, IInv, TypeOK,
      HandOff, FirstRun, Untouched, WhoActivates, PickedUp, Fresh, InBoundary,
      Suspended, Status, PlanStatus
<1>1. 1 \in Run BY BoundAssumption DEF Run
<1>2. executed = {} /\ at[r] # "none" => r = 1 OBVIOUS
<1>3. CASE StaticEnds(r) BY <1>1, <1>2, <1>3 DEF StaticEnds
<1>4. CASE Reload(r) BY <1>1, <1>2, <1>4 DEF Reload
<1>5. CASE LoopError(r) BY <1>1, <1>2, <1>5 DEF LoopError
<1>6. CASE DraftPlan(r) BY <1>1, <1>2, <1>6 DEF DraftPlan
<1>7. CASE SeedCheck(r) BY <1>1, <1>2, <1>7 DEF SeedCheck
<1>8. CASE SeedAppend(r) BY <1>1, <1>2, <1>8 DEF SeedAppend
<1>9. CASE EnterPlanBoundary(r) BY <1>1, <1>2, <1>9 DEF EnterPlanBoundary
<1>10. CASE ReviseStart(r) BY <1>1, <1>2, <1>10 DEF ReviseStart
<1>11. CASE PlannerEnds(r) BY <1>1, <1>2, <1>11 DEF PlannerEnds
<1>12. CASE PlannerCheck(r) BY <1>1, <1>2, <1>12 DEF PlannerCheck
<1>13. CASE PlannerAppend(r) BY <1>1, <1>2, <1>13 DEF PlannerAppend
<1>14. CASE LeavePlanBoundary(r) BY <1>1, <1>2, <1>14 DEF LeavePlanBoundary
<1>15. CASE ApproveAuto(r) BY <1>1, <1>2, <1>15 DEF ApproveAuto
<1>16. CASE AppendDowngrade(r) BY <1>1, <1>2, <1>16 DEF AppendDowngrade
<1>17. CASE AutoCheck(r) BY <1>1, <1>2, <1>17 DEF AutoCheck
<1>18. CASE AutoCommit(r) BY <1>1, <1>2, <1>18 DEF AutoCommit
<1>19. CASE AutoMaterialize(r) BY <1>1, <1>2, <1>19 DEF AutoMaterialize
<1>20. CASE AutoError(r) BY <1>1, <1>2, <1>20 DEF AutoError
<1>21. CASE DeriveStatus(r) BY <1>1, <1>2, <1>21 DEF DeriveStatus
<1>22. CASE SuspendForPlan(r) BY <1>1, <1>2, <1>22 DEF SuspendForPlan
<1>23. CASE ActivateRun(r) BY <1>1, <1>2, <1>23 DEF ActivateRun
<1>24. CASE MaterializeAndSplice(r) BY <1>1, <1>2, <1>24 DEF MaterializeAndSplice
<1>25. CASE PlanLayersEnd(r) BY <1>1, <1>2, <1>25 DEF PlanLayersEnd
<1>26. CASE MarkFailed(r) BY <1>1, <1>2, <1>26 DEF MarkFailed
<1>27. CASE RunExits(r) BY <1>1, <1>2, <1>27 DEF RunExits
<1>28. QED BY <1>3, <1>4, <1>5, <1>6, <1>7, <1>8, <1>9, <1>10, <1>11, <1>12, <1>13,
      <1>14, <1>15, <1>16, <1>17, <1>18, <1>19, <1>20, <1>21, <1>22, <1>23, <1>24,
      <1>25, <1>26, <1>27 DEF LoopStep

LEMMA ApproverHandOff ==
  ASSUME ~Early, IInv, HandOff, NEW a \in Approver,
         Approve(a) \/ ApproverStep(a)
  PROVE  HandOff'
<1> USE DEF Goto, Step, Return, Grant, ResumeFails, Repeat, EStep, EReturn, Quietly, Aside, Elsewhere,
      AppendRevision, CancelDraft, SyncStatus, DerivedStatus, AfterDraft, MayAct,
      planVars, flagVars, loopVars, callVars, answers, editVars, NoRun, IInv, TypeOK,
      HandOff, FirstRun, Untouched, WhoActivates, PickedUp, Fresh, InBoundary,
      Suspended, Status, PlanStatus
<1>1. 1 \in Run BY BoundAssumption DEF Run
<1>2. CASE Approve(a) BY <1>1, <1>2 DEF Approve
<1>3. CASE CommitApproval(a) BY <1>1, <1>3 DEF CommitApproval
<1>4. CASE MaterializePlan(a) BY <1>1, <1>4 DEF MaterializePlan
<1>5. CASE ReadStatus(a) BY <1>1, <1>5 DEF ReadStatus
<1>6. CASE ResumeCheck(a) BY <1>1, <1>6 DEF ResumeCheck
<1>7. CASE ClaimAtBoundary(a) BY <1>1, <1>7 DEF ClaimAtBoundary
<1>8. CASE RunSettles(a) BY <1>1, <1>8 DEF RunSettles
<1>9. CASE CheckNodes(a) BY <1>1, <1>9 DEF CheckNodes
<1>10. CASE ActivateInstance(a) BY <1>1, <1>10 DEF ActivateInstance
<1>11. CASE Relaunch(a) BY <1>1, <1>11 DEF Relaunch
<1>12. QED BY <1>2, <1>3, <1>4, <1>5, <1>6, <1>7, <1>8, <1>9, <1>10, <1>11 DEF
      ApproverStep

LEMMA EditorHandOff ==
  ASSUME ~Early, IInv, HandOff, NEW e \in Editor,
         Revise(e) \/ ForceStop(e) \/ EditorStep(e)
  PROVE  HandOff'
<1> USE DEF Goto, Step, Return, Grant, ResumeFails, Repeat, EStep, EReturn, Quietly, Aside, Elsewhere,
      AppendRevision, CancelDraft, SyncStatus, DerivedStatus, AfterDraft, MayAct,
      planVars, flagVars, loopVars, callVars, answers, editVars, NoRun, IInv, TypeOK,
      HandOff, FirstRun, Untouched, WhoActivates, PickedUp, Fresh, InBoundary,
      Suspended, Status, PlanStatus
<1>1. 1 \in Run BY BoundAssumption DEF Run
<1>2. CASE Revise(e) BY <1>1, <1>2 DEF Revise
<1>3. CASE ForceStop(e) BY <1>1, <1>3 DEF ForceStop
<1>4. CASE EditPlannerEnds(e) BY <1>1, <1>4 DEF EditPlannerEnds
<1>5. CASE EditCheck(e) BY <1>1, <1>5 DEF EditCheck
<1>6. CASE EditAppend(e) BY <1>1, <1>6 DEF EditAppend
<1>7. CASE DropDraft(e) BY <1>1, <1>7 DEF DropDraft
<1>8. CASE ForceFail(e) BY <1>1, <1>8 DEF ForceFail
<1>9. QED BY <1>2, <1>3, <1>4, <1>5, <1>6, <1>7, <1>8 DEF EditorStep

LEMMA StepHandOff ==
  ASSUME ~Early, IInv, HandOff, [Next]_vars PROVE HandOff'
<1> USE DEF HandOff, FirstRun, Untouched, WhoActivates, PickedUp, Fresh, InBoundary
<1>1. 1 \in Run BY BoundAssumption DEF Run
<1>2. CASE CancelPlan
  BY <1>1, <1>2 DEF CancelPlan, CancelDraft, Elsewhere, flagVars, loopVars, callVars,
                     answers, editVars
<1>3. CASE Restart
  BY <1>1, <1>3 DEF Restart, IInv, TypeOK, NoRun
<1>4. CASE UNCHANGED vars
  BY <1>4 DEF vars, planVars, flagVars, loopVars, callVars, answers, editVars
<1>5. QED BY <1>2, <1>3, <1>4, LoopHandOff, ApproverHandOff, EditorHandOff DEF Next

\* An approval whose resume reported no error is executed or fails with the
\* instance, whoever else approves, edits, cancels or stops: it is never left to
\* somebody who does not come.  One whose resume failed is at worst left with a
\* suspended instance, never with an active one that nobody runs.
THEOREM ApprovalNeverDropped ==
  ASSUME ~Early PROVE Spec => []NeverNeither
<1>1. IInv /\ HandOff => NeverNeither
  <2> SUFFICES ASSUME IInv, HandOff, Quiet, executed = {}
               PROVE  /\ granted => status = "failed"
                      /\ status \in Suspended \cup {"failed"}
    BY DEF NeverNeither
  <2>1. 1 \in Run BY BoundAssumption DEF Run
  <2>2. at[1] = "gone" BY <2>1 DEF Quiet, HandOff, FirstRun
  <2>3. 1 \notin claimed BY <2>2 DEF HandOff, FirstRun, InBoundary
  <2>4. granted => status = "failed"
    BY <2>2, <2>3 DEF HandOff, PickedUp, Quiet
  <2>5. status # "active"
    BY <2>2 DEF HandOff, WhoActivates, Quiet, Fresh
  <2>6. status \in Status /\ status # "completed"
    BY DEF IInv, TypeOK, HandOff, FirstRun
  <2>7. QED BY <2>4, <2>5, <2>6 DEF Status
<1>2. IInv /\ HandOff /\ [Next]_vars => IInv' /\ HandOff'
  BY StepInv, StepHandOff
<1>3. QED BY <1>1, <1>2, InitInv, InitHandOff, PTL DEF Spec

(***************************************************************************)
(* One execution.                                                          *)
(***************************************************************************)
\* From the execution on nobody is left who could start a second one.
OnceExecuted ==
  executed # {} /\ ~overlapped =>
    /\ \A r, s \in executed : r = s
    /\ status \notin Suspended
    /\ \A a \in Approver : pc[a] \notin Approving
    /\ \A r \in Run : at[r] \in {"none", "planLayers", "fail", "exit", "gone"}

\* One approver at a time has the approval; it relaunches only a run that is
\* gone, waits for nothing else, and is done before a run goes on by itself.
ApproverAlone ==
  executed = {} /\ ~overlapped =>
    \A a \in Approver : pc[a] \in Approving =>
      /\ \A b \in Approver : pc[b] \in Approving => b = a
      /\ pc[a] = "settle" => waits[a] = 1
      /\ pc[a] \in {"nodes", "activate", "register"} => at[1] = "gone"
      /\ pc[a] = "register" => status \notin Suspended
      /\ at[1] \notin {"autoNodes", "activate", "splice"} /\ 1 \notin claimed

\* Whoever resumes, and a run that goes on by itself, has an approved plan.
AfterApproval ==
  executed = {} =>
    /\ \A a \in Approver : pc[a] \in Approving => plan = "approved"
    /\ at[1] \in {"autoNodes", "activate", "splice"} \/ 1 \in claimed => plan = "approved"
    /\ at[1] = "splice" => status \notin Suspended

Solo == OnceExecuted /\ ApproverAlone /\ AfterApproval

LEMMA InitSolo == Init => Solo
<1>1. 1 \in Run BY BoundAssumption DEF Run
<1>2. QED BY <1>1 DEF Init, Solo, OnceExecuted, ApproverAlone, AfterApproval, Approving, Resuming

LEMMA LoopSolo ==
  ASSUME ~Early, IInv, HandOff, Solo, NEW r \in Run,
         LoopStep(r)
  PROVE  Solo'
<1> USE DEF Goto, Step, Return, Grant, ResumeFails, Repeat, EStep, EReturn, Quietly, Aside, Elsewhere,
      AppendRevision, CancelDraft, SyncStatus, DerivedStatus, AfterDraft, MayAct,
      planVars, flagVars, loopVars, callVars, answers, editVars, NoRun, IInv, TypeOK,
      HandOff, FirstRun, Untouched, WhoActivates, Fresh, InBoundary, Suspended,
      PlanStatus, HeadConsistent, RunsPinned, NodesFirst, Solo, OnceExecuted,
      ApproverAlone, AfterApproval, Approving, Resuming
<1>1. 1 \in Run BY BoundAssumption DEF Run
<1>2. executed = {} /\ at[r] # "none" => r = 1 OBVIOUS
<1>3. CASE StaticEnds(r) BY <1>1, <1>2, <1>3 DEF StaticEnds
<1>4. CASE Reload(r) BY <1>1, <1>2, <1>4 DEF Reload
<1>5. CASE LoopError(r) BY <1>1, <1>2, <1>5 DEF LoopError
<1>6. CASE DraftPlan(r) BY <1>1, <1>2, <1>6 DEF DraftPlan
<1>7. CASE SeedCheck(r) BY <1>1, <1>2, <1>7 DEF SeedCheck
<1>8. CASE SeedAppend(r) BY <1>1, <1>2, <1>8 DEF SeedAppend
<1>9. CASE EnterPlanBoundary(r) BY <1>1, <1>2, <1>9 DEF EnterPlanBoundary
<1>10. CASE ReviseStart(r) BY <1>1, <1>2, <1>10 DEF ReviseStart
<1>11. CASE PlannerEnds(r) BY <1>1, <1>2, <1>11 DEF PlannerEnds
<1>12. CASE PlannerCheck(r) BY <1>1, <1>2, <1>12 DEF PlannerCheck
<1>13. CASE PlannerAppend(r) BY <1>1, <1>2, <1>13 DEF PlannerAppend
<1>14. CASE LeavePlanBoundary(r) BY <1>1, <1>2, <1>14 DEF LeavePlanBoundary
<1>15. CASE ApproveAuto(r) BY <1>1, <1>2, <1>15 DEF ApproveAuto
<1>16. CASE AppendDowngrade(r) BY <1>1, <1>2, <1>16 DEF AppendDowngrade
<1>17. CASE AutoCheck(r) BY <1>1, <1>2, <1>17 DEF AutoCheck
<1>18. CASE AutoCommit(r) BY <1>1, <1>2, <1>18 DEF AutoCommit
<1>19. CASE AutoMaterialize(r) BY <1>1, <1>2, <1>19 DEF AutoMaterialize
<1>20. CASE AutoError(r) BY <1>1, <1>2, <1>20 DEF AutoError
<1>21. CASE DeriveStatus(r) BY <1>1, <1>2, <1>21 DEF DeriveStatus
<1>22. CASE SuspendForPlan(r) BY <1>1, <1>2, <1>22 DEF SuspendForPlan
<1>23. CASE ActivateRun(r) BY <1>1, <1>2, <1>23 DEF ActivateRun
<1>24. CASE MaterializeAndSplice(r) BY <1>1, <1>2, <1>24 DEF MaterializeAndSplice
<1>25. CASE PlanLayersEnd(r) BY <1>1, <1>2, <1>25 DEF PlanLayersEnd
<1>26. CASE MarkFailed(r) BY <1>1, <1>2, <1>26 DEF MarkFailed
<1>27. CASE RunExits(r) BY <1>1, <1>2, <1>27 DEF RunExits
<1>28. QED BY <1>3, <1>4, <1>5, <1>6, <1>7, <1>8, <1>9, <1>10, <1>11, <1>12, <1>13,
      <1>14, <1>15, <1>16, <1>17, <1>18, <1>19, <1>20, <1>21, <1>22, <1>23, <1>24,
      <1>25, <1>26, <1>27 DEF LoopStep

LEMMA ApproverSolo ==
  ASSUME ~Early, IInv, HandOff, Solo, NEW a \in Approver,
         Approve(a) \/ ApproverStep(a)
  PROVE  Solo'
<1> USE DEF Goto, Step, Return, Grant, ResumeFails, Repeat, EStep, EReturn, Quietly, Aside, Elsewhere,
      AppendRevision, CancelDraft, SyncStatus, DerivedStatus, AfterDraft, MayAct,
      planVars, flagVars, loopVars, callVars, answers, editVars, NoRun, IInv, TypeOK,
      HandOff, FirstRun, Untouched, WhoActivates, Fresh, InBoundary, Suspended,
      PlanStatus, HeadConsistent, RunsPinned, NodesFirst, Solo, OnceExecuted,
      ApproverAlone, AfterApproval, Approving, Resuming
<1>1. 1 \in Run BY BoundAssumption DEF Run
<1>2. CASE Approve(a)
  <2> USE <1>1, <1>2 DEF Approve
  <2>1. OnceExecuted' OBVIOUS
  <2>2. CASE plan = "draft"
    <3>1. \A b \in Approver : pc[b] \notin Approving /\ pc'[b] \notin Approving
      BY <2>2
    <3>2. QED BY <3>1
  <2>3. CASE plan = "approved"
    <3>1. overlapped' \/ (slot = NoRun /\ ~Resuming) BY <2>3
    <3>2. ~overlapped' /\ executed = {} => at[1] = "gone" /\ claimed = {} BY <3>1
    <3>3. ~overlapped' => \A b \in Approver : b # a => pc'[b] \notin Approving
      BY <3>1
    <3>4. pc'[a] = "status" BY <2>3
    <3>5. ApproverAlone' BY <3>2, <3>3, <3>4
    <3>6. AfterApproval' BY <2>3
    <3>7. QED BY <2>1, <3>5, <3>6
  <2>4. QED BY <2>2, <2>3
<1>3. CASE CommitApproval(a) BY <1>1, <1>3 DEF CommitApproval
<1>4. CASE MaterializePlan(a) BY <1>1, <1>4 DEF MaterializePlan
<1>5. CASE ReadStatus(a) BY <1>1, <1>5 DEF ReadStatus
<1>6. CASE ResumeCheck(a) BY <1>1, <1>6 DEF ResumeCheck
<1>7. CASE ClaimAtBoundary(a)
  <2> USE <1>1, <1>7 DEF ClaimAtBoundary
  <2>1. OnceExecuted' OBVIOUS
  <2>2. ApproverAlone' OBVIOUS
  <2>3. AfterApproval' OBVIOUS
  <2>4. QED BY <2>1, <2>2, <2>3
<1>8. CASE RunSettles(a) BY <1>1, <1>8 DEF RunSettles
<1>9. CASE CheckNodes(a) BY <1>1, <1>9 DEF CheckNodes
<1>10. CASE ActivateInstance(a) BY <1>1, <1>10 DEF ActivateInstance
<1>11. CASE Relaunch(a) BY <1>1, <1>11 DEF Relaunch
<1>12. QED BY <1>2, <1>3, <1>4, <1>5, <1>6, <1>7, <1>8, <1>9, <1>10, <1>11 DEF
      ApproverStep

LEMMA EditorSolo ==
  ASSUME ~Early, IInv, HandOff, Solo, NEW e \in Editor,
         Revise(e) \/ ForceStop(e) \/ EditorStep(e)
  PROVE  Solo'
<1> USE DEF Goto, Step, Return, Grant, ResumeFails, Repeat, EStep, EReturn, Quietly, Aside, Elsewhere,
      AppendRevision, CancelDraft, SyncStatus, DerivedStatus, AfterDraft, MayAct,
      planVars, flagVars, loopVars, callVars, answers, editVars, NoRun, IInv, TypeOK,
      HandOff, FirstRun, Untouched, WhoActivates, Fresh, InBoundary, Suspended,
      PlanStatus, HeadConsistent, RunsPinned, NodesFirst, Solo, OnceExecuted,
      ApproverAlone, AfterApproval, Approving, Resuming
<1>1. 1 \in Run BY BoundAssumption DEF Run
<1>2. CASE Revise(e) BY <1>1, <1>2 DEF Revise
<1>3. CASE ForceStop(e) BY <1>1, <1>3 DEF ForceStop
<1>4. CASE EditPlannerEnds(e) BY <1>1, <1>4 DEF EditPlannerEnds
<1>5. CASE EditCheck(e) BY <1>1, <1>5 DEF EditCheck
<1>6. CASE EditAppend(e) BY <1>1, <1>6 DEF EditAppend
<1>7. CASE DropDraft(e) BY <1>1, <1>7 DEF DropDraft
<1>8. CASE ForceFail(e) BY <1>1, <1>8 DEF ForceFail
<1>9. QED BY <1>2, <1>3, <1>4, <1>5, <1>6, <1>7, <1>8 DEF EditorStep

LEMMA StepSolo ==
  ASSUME ~Early, IInv, HandOff, Solo, [Next]_vars PROVE Solo'
<1> USE DEF Solo, OnceExecuted, ApproverAlone, AfterApproval, Approving, Resuming
<1>1. 1 \in Run BY BoundAssumption DEF Run
<1>2. CASE CancelPlan
  <2>1. plan' = "approved" <=> plan = "approved"
    BY <1>2 DEF CancelPlan, CancelDraft
  <2>2. QED BY <1>1, <1>2, <2>1 DEF CancelPlan, Elsewhere, flagVars, loopVars, callVars,
                                    editVars
<1>3. CASE Restart
  BY <1>1, <1>3 DEF Restart, IInv, TypeOK, Suspended, planVars, HandOff, FirstRun
<1>4. CASE UNCHANGED vars
  BY <1>4 DEF vars, planVars, flagVars, loopVars, callVars, answers, editVars
<1>5. QED BY <1>2, <1>3, <1>4, LoopSolo, ApproverSolo, EditorSolo DEF Next

\* For any number of approvers who are not early, racing each other, the planner,
\* the exit of the run, its mode=auto, editors, cancels, stops and restarts: the
\* plan is executed by one run at most, unless an approval is repeated while an
\* earlier one is at work.
THEOREM ApprovalRunsOnce ==
  ASSUME ~Early PROVE Spec => []NeverBoth
<1>1. TypeOK /\ Solo => NeverBoth BY DEF Solo, OnceExecuted, NeverBoth
<1>2. IInv /\ HandOff /\ Solo /\ [Next]_vars => IInv' /\ HandOff' /\ Solo'
  BY StepInv, StepHandOff, StepSolo
<1>3. IInv => TypeOK BY DEF IInv
<1>4. QED BY <1>1, <1>2, <1>3, InitInv, InitHandOff, InitSolo, PTL DEF Spec
=============================================================================
