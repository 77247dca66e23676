------------------------ MODULE Subworkflow_proofs -------------------------
(***************************************************************************)
(* Theorems about Subworkflow for every finite set of children and every   *)
(* cap: slots and budget are charged for every child that runs, and every  *)
(* child that lives is watched, however parents, children and watchers     *)
(* interleave with restarts.                                               *)
(***************************************************************************)
EXTENDS Subworkflow, FiniteSetTheorems, TLAPS

(***************************************************************************)
(* The inductive invariant.                                                *)
(***************************************************************************)
\* TypeOK in four parts, each with the bound its counters need.
TypeParent ==
  /\ pstatus \in Paused \cup {"over"} /\ pslot \in 0 .. MaxParentRuns
  /\ pphase \in Phase /\ pruns \in 0 .. MaxParentRuns
  /\ pphase = "launching" => pruns < MaxParentRuns
  /\ crashes \in 0 .. MaxCrashes

TypeChild ==
  /\ cstatus \in [Child -> Status] /\ cslot \in [Child -> Nat]
  /\ cphase \in [Child -> Phase] /\ cruns \in [Child -> Nat]
  /\ \A c \in Child : cruns[c] <= MaxRuns[c]
  /\ cancelled \subseteq Child /\ unwatched \subseteq Child

TypeCalls ==
  /\ call \in [Child -> Call] /\ callDone \in [Child -> 0 .. MaxParentRuns]
  /\ starts \in 0 .. MaxInvocations

TypeWatch ==
  watch \in [Watcher -> [pc : Place, parentDone : 0 .. MaxParentRuns, childDone : Nat]]

\* The runs of a child and the phase of its latest launch go together.
ChildPhases ==
  \A c \in Child :
    /\ cphase[c] \in {"none", "launching"} => cslot[c] = 0
    /\ cphase[c] \notin {"none", "launching"} => cslot[c] = cruns[c] /\ cruns[c] > 0
    /\ cphase[c] = "launching" => cruns[c] > 0 /\ cruns[c] < MaxRuns[c]
    /\ cphase[c] \in {"rearm", "rearmStatus"} => cruns[c] > 1
    /\ cstatus[c] = "suspended" => cphase[c] \in {"none", "exiting"}
    /\ cruns[c] > 0 <=> call[c] \in {"started", "done"}
    /\ cruns[c] = 0 => cstatus[c] = "none" /\ cphase[c] = "none"

\* The counted watcher of a child stays until the first run is over, and over
\* the suspension it may have ended in.
Followed(c) ==
  LET w == watch[<<c, 1>>] IN
  /\ w.pc # "none" => call[c] = "done"
  /\ w.pc \in {"select", "status", "tick", "stop", "childDone"} =>
       (cslot[c] = 1 => w.childDone = 1)
  /\ w.pc \in {"suspended", "parentNext", "stopSuspended", "release", "gone"} =>
       cslot[c] # 1
  /\ w.pc \in {"none", "release", "gone"} /\ call[c] = "done" => ~HoldsSlot(c)
FirstWatcher == \A c \in Child : Followed(c)

\* A slot is taken from the reservation to the end of the counted watcher.
Takers == {c \in Child : \/ call[c] \in {"reserved", "started", "unreserve"}
                         \/ watch[<<c, 1>>].pc \notin {"none", "gone"}}
SlotsCounted == active = Cardinality(Takers) /\ active <= MaxChildren

\* A unit of the budget is charged for every call under way or successful.
Payers == {c \in Child : call[c] # "idle"}
BudgetCounted == Cardinality(Payers) <= starts

IInv == /\ TypeParent /\ TypeChild /\ TypeCalls /\ TypeWatch
        /\ ChildPhases /\ FirstWatcher /\ SlotsCounted /\ BudgetCounted

(***************************************************************************)
(* Facts about the sets that the counters count.                           *)
(***************************************************************************)
LEMMA CountedFinite ==
  /\ IsFiniteSet(Takers) /\ Cardinality(Takers) \in Nat
  /\ Cardinality(Takers) <= Cardinality(Child)
  /\ IsFiniteSet(Payers) /\ Cardinality(Payers) \in Nat
<1>1. Takers \subseteq Child /\ Payers \subseteq Child BY DEF Takers, Payers
<1>2. QED BY <1>1, CapAssumption, FS_Subset, FS_CardinalityType

LEMMA CountIn ==
  ASSUME NEW S, IsFiniteSet(S), NEW x, x \notin S
  PROVE  Cardinality(S \cup {x}) = Cardinality(S) + 1
BY FS_AddElement

LEMMA CountOut ==
  ASSUME NEW S, IsFiniteSet(S), NEW x \in S
  PROVE  /\ Cardinality(S \ {x}) = Cardinality(S) - 1
         /\ Cardinality(S) \in Nat /\ Cardinality(S) >= 1
<1>1. Cardinality(S) \in Nat /\ Cardinality(S \ {x}) = Cardinality(S) - 1
  BY FS_RemoveElement, FS_CardinalityType
<1>2. Cardinality(S \ {x}) \in Nat BY FS_RemoveElement, FS_CardinalityType
<1>3. QED BY <1>1, <1>2

LEMMA InWatcher ==
  ASSUME NEW c \in Child, NEW k \in Run(c) PROVE <<c, k>> \in Watcher
<1>1. <<c, k>> \in {c} \X Run(c) OBVIOUS
<1>2. {c} \X Run(c) \in {{d} \X Run(d) : d \in Child} OBVIOUS
<1>3. QED BY <1>1, <1>2 DEF Watcher

LEMMA FirstRun ==
  \A c \in Child : MaxRuns[c] \in Nat \ {0} /\ 1 \in Run(c) /\ <<c, 1>> \in Watcher
<1>1. \A c \in Child : MaxRuns[c] \in Nat \ {0} /\ 1 \in Run(c)
  BY BoundAssumption DEF Run
<1>2. QED BY <1>1, InWatcher

LEMMA TypeImplied == IInv => TypeOK
<1> SUFFICES ASSUME IInv PROVE TypeOK OBVIOUS
<1>1. active \in 0 .. Cardinality(Child)
  <2>1. Cardinality(Child) \in Nat BY CapAssumption, FS_CardinalityType
  <2>2. QED BY <2>1, CountedFinite DEF IInv, SlotsCounted
<1>2. \A c \in Child : cslot[c] \in 0 .. MaxRuns[c] /\ cruns[c] \in 0 .. MaxRuns[c]
  <2>1. \A c \in Child : cslot[c] = 0 \/ cslot[c] = cruns[c]
    BY DEF IInv, ChildPhases
  <2>2. QED BY <2>1, BoundAssumption DEF IInv, TypeChild
<1>3. QED
  BY <1>1, <1>2 DEF IInv, TypeParent, TypeChild, TypeCalls, TypeWatch, TypeOK

LEMMA InitInv == Init => IInv
<1> SUFFICES ASSUME Init PROVE IInv OBVIOUS
<1>1. TypeParent
  <2>1. 1 \in 0 .. MaxParentRuns /\ 0 \in 0 .. MaxCrashes BY BoundAssumption
  <2>2. QED BY <2>1 DEF Init, TypeParent, Paused, Phase
<1>2. TypeChild BY BoundAssumption DEF Init, TypeChild, Status, Phase
<1>3. TypeCalls
  <2>1. 0 \in 0 .. MaxParentRuns /\ 0 \in 0 .. MaxInvocations
    BY BoundAssumption, CapAssumption
  <2>2. QED BY <2>1 DEF Init, TypeCalls, Call
<1>4. TypeWatch
  <2>1. 0 \in 0 .. MaxParentRuns BY BoundAssumption
  <2>2. QED BY <2>1 DEF Init, TypeWatch, NoWatch, Place
<1>5. ChildPhases BY DEF Init, ChildPhases
<1>6. FirstWatcher BY FirstRun DEF Init, FirstWatcher, Followed, NoWatch
<1>7. Takers = {} /\ Payers = {} BY FirstRun DEF Init, Takers, Payers, NoWatch
<1>8. SlotsCounted /\ BudgetCounted
  BY <1>7, FS_EmptySet, CapAssumption DEF Init, SlotsCounted, BudgetCounted
<1>9. QED BY <1>1, <1>2, <1>3, <1>4, <1>5, <1>6, <1>8 DEF IInv

LEMMA ParentPublishesInv == ASSUME IInv, NEW s \in {"waiting", "over"},
     ParentPublishes(s) PROVE IInv'
<1> USE DEF ParentPublishes, parent, child, calls, counters
<1>1. TypeParent'
  BY DEF IInv, TypeParent, Phase, Paused
<1>2. TypeChild'
  BY DEF IInv, TypeChild, Status, Phase
<1>3. TypeCalls'
  BY DEF IInv, TypeCalls, Call
<1>4. TypeWatch'
  BY DEF IInv, TypeWatch
<1>5. ChildPhases'
  BY DEF IInv, TypeChild, TypeCalls, ChildPhases
<1>6. FirstWatcher'
  BY DEF IInv, FirstWatcher, Followed, HoldsSlot
<1>7. SlotsCounted'
  <2>1. Takers' = Takers BY DEF IInv, Takers
  <2>2. QED BY <2>1 DEF IInv, SlotsCounted
<1>8. BudgetCounted'
  <2>1. Payers' = Payers BY DEF IInv, Payers
  <2>2. QED BY <2>1 DEF IInv, BudgetCounted
<1>9. QED BY <1>1, <1>2, <1>3, <1>4, <1>5, <1>6, <1>7, <1>8 DEF IInv

LEMMA ParentExitsInv == ASSUME IInv, ParentExits PROVE IInv'
<1> USE DEF ParentExits, parent, child, calls, counters
<1>1. TypeParent'
  <2>1. 0 \in 0 .. MaxParentRuns BY BoundAssumption
  <2>2. QED BY <2>1 DEF IInv, TypeParent, Phase, Paused
<1>2. TypeChild'
  BY DEF IInv, TypeChild, Status, Phase
<1>3. TypeCalls'
  BY DEF IInv, TypeCalls, Call
<1>4. TypeWatch'
  BY DEF IInv, TypeWatch
<1>5. ChildPhases'
  BY DEF IInv, TypeChild, TypeCalls, ChildPhases
<1>6. FirstWatcher'
  BY DEF IInv, FirstWatcher, Followed, HoldsSlot
<1>7. SlotsCounted'
  <2>1. Takers' = Takers BY DEF IInv, Takers
  <2>2. QED BY <2>1 DEF IInv, SlotsCounted
<1>8. BudgetCounted'
  <2>1. Payers' = Payers BY DEF IInv, Payers
  <2>2. QED BY <2>1 DEF IInv, BudgetCounted
<1>9. QED BY <1>1, <1>2, <1>3, <1>4, <1>5, <1>6, <1>7, <1>8 DEF IInv

LEMMA ParentRelaunchesInv == ASSUME IInv, ParentRelaunches PROVE IInv'
<1> USE DEF ParentRelaunches, parent, child, calls, counters
<1>1. TypeParent'
  BY DEF IInv, TypeParent, Phase, Paused
<1>2. TypeChild'
  BY DEF IInv, TypeChild, Status, Phase
<1>3. TypeCalls'
  BY DEF IInv, TypeCalls, Call
<1>4. TypeWatch'
  BY DEF IInv, TypeWatch
<1>5. ChildPhases'
  BY DEF IInv, TypeChild, TypeCalls, ChildPhases
<1>6. FirstWatcher'
  BY DEF IInv, FirstWatcher, Followed, HoldsSlot
<1>7. SlotsCounted'
  <2>1. Takers' = Takers BY DEF IInv, Takers
  <2>2. QED BY <2>1 DEF IInv, SlotsCounted
<1>8. BudgetCounted'
  <2>1. Payers' = Payers BY DEF IInv, Payers
  <2>2. QED BY <2>1 DEF IInv, BudgetCounted
<1>9. QED BY <1>1, <1>2, <1>3, <1>4, <1>5, <1>6, <1>7, <1>8 DEF IInv

LEMMA ParentRegistersInv == ASSUME IInv, ParentRegisters PROVE IInv'
<1> USE DEF ParentRegisters, parent, child, calls, counters
<1>1. TypeParent'
  <2>1. pruns + 1 \in 0 .. MaxParentRuns BY BoundAssumption DEF IInv, TypeParent
  <2>2. QED BY <2>1 DEF IInv, TypeParent, Phase, Paused
<1>2. TypeChild'
  BY DEF IInv, TypeChild, Status, Phase
<1>3. TypeCalls'
  BY DEF IInv, TypeCalls, Call
<1>4. TypeWatch'
  BY DEF IInv, TypeWatch
<1>5. ChildPhases'
  BY DEF IInv, TypeChild, TypeCalls, ChildPhases
<1>6. FirstWatcher'
  BY DEF IInv, FirstWatcher, Followed, HoldsSlot
<1>7. SlotsCounted'
  <2>1. Takers' = Takers BY DEF IInv, Takers
  <2>2. QED BY <2>1 DEF IInv, SlotsCounted
<1>8. BudgetCounted'
  <2>1. Payers' = Payers BY DEF IInv, Payers
  <2>2. QED BY <2>1 DEF IInv, BudgetCounted
<1>9. QED BY <1>1, <1>2, <1>3, <1>4, <1>5, <1>6, <1>7, <1>8 DEF IInv

LEMMA ParentForcedInv == ASSUME IInv, ParentForced PROVE IInv'
<1> USE DEF ParentForced, parent, child, calls, counters
<1>1. TypeParent'
  BY DEF IInv, TypeParent, Phase, Paused
<1>2. TypeChild'
  BY DEF IInv, TypeChild, Status, Phase
<1>3. TypeCalls'
  BY DEF IInv, TypeCalls, Call
<1>4. TypeWatch'
  BY DEF IInv, TypeWatch
<1>5. ChildPhases'
  BY DEF IInv, TypeChild, TypeCalls, ChildPhases
<1>6. FirstWatcher'
  BY DEF IInv, FirstWatcher, Followed, HoldsSlot
<1>7. SlotsCounted'
  <2>1. Takers' = Takers BY DEF IInv, Takers
  <2>2. QED BY <2>1 DEF IInv, SlotsCounted
<1>8. BudgetCounted'
  <2>1. Payers' = Payers BY DEF IInv, Payers
  <2>2. QED BY <2>1 DEF IInv, BudgetCounted
<1>9. QED BY <1>1, <1>2, <1>3, <1>4, <1>5, <1>6, <1>7, <1>8 DEF IInv

LEMMA ChargeInv == ASSUME IInv, NEW c \in Child, Charge(c) PROVE IInv'
<1> USE DEF Charge, parent, child, calls, counters
<1>1. TypeParent'
  BY DEF IInv, TypeParent, Phase, Paused
<1>2. TypeChild'
  BY DEF IInv, TypeChild, Status, Phase
<1>3. TypeCalls'
  <2>1. starts' \in 0 .. MaxInvocations BY CapAssumption DEF IInv, TypeCalls
  <2>2. call' \in [Child -> Call] BY DEF IInv, TypeCalls, Call
  <2>3. QED BY <2>1, <2>2 DEF IInv, TypeCalls
<1>4. TypeWatch'
  BY DEF IInv, TypeWatch
<1>5. ChildPhases'
  BY DEF IInv, TypeChild, TypeCalls, ChildPhases, Call, Phase
<1>6. FirstWatcher'
  <2>1. \A d \in Child : /\ call'[d] = "done" <=> call[d] = "done"
                         /\ cslot'[d] = 1 => cslot[d] = 1
                         /\ HoldsSlot(d)' => HoldsSlot(d)
    BY FirstRun DEF IInv, TypeCalls, TypeChild, ChildPhases, HoldsSlot
  <2>2. ASSUME NEW d \in Child PROVE Followed(d)'
    BY <2>1 DEF IInv, FirstWatcher, Followed
  <2>3. QED BY <2>2 DEF FirstWatcher
<1>7. SlotsCounted'
  <2>1. Takers' = Takers BY FirstRun DEF IInv, TypeCalls, TypeWatch, FirstWatcher,
     Followed, Takers, NoWatch
  <2>2. QED BY <2>1 DEF IInv, SlotsCounted
<1>8. BudgetCounted'
  <2>1. Payers' = Payers \cup {c} /\ c \notin Payers BY DEF IInv, TypeCalls, Payers
  <2>2. Cardinality(Payers') = Cardinality(Payers) + 1
    BY <2>1, CountedFinite, CountIn
  <2>3. QED BY <2>2, CountedFinite DEF IInv, TypeCalls, BudgetCounted
<1>9. QED BY <1>1, <1>2, <1>3, <1>4, <1>5, <1>6, <1>7, <1>8 DEF IInv

LEMMA ReserveInv == ASSUME IInv, NEW c \in Child, Reserve(c) PROVE IInv'
<1> USE DEF Reserve, parent, child, calls, counters
<1>1. TypeParent'
  BY DEF IInv, TypeParent, Phase, Paused
<1>2. TypeChild'
  BY DEF IInv, TypeChild, Status, Phase
<1>3. TypeCalls'
  BY DEF IInv, TypeParent, TypeCalls, Call
<1>4. TypeWatch'
  BY DEF IInv, TypeWatch
<1>5. ChildPhases'
  BY DEF IInv, TypeChild, TypeCalls, ChildPhases, Call, Phase
<1>6. FirstWatcher'
  <2>1. \A d \in Child : /\ call'[d] = "done" <=> call[d] = "done"
                         /\ cslot'[d] = 1 => cslot[d] = 1
                         /\ HoldsSlot(d)' => HoldsSlot(d)
    BY FirstRun DEF IInv, TypeCalls, TypeChild, ChildPhases, HoldsSlot
  <2>2. ASSUME NEW d \in Child PROVE Followed(d)'
    BY <2>1 DEF IInv, FirstWatcher, Followed
  <2>3. QED BY <2>2 DEF FirstWatcher
<1>7. SlotsCounted'
  <2>1. CASE CanReserve
    <3>1. Takers' = Takers \cup {c} /\ c \notin Takers
      BY <2>1 DEF IInv, TypeCalls, FirstWatcher, Followed, Takers
    <3>2. Cardinality(Takers') = Cardinality(Takers) + 1
      BY <3>1, CountedFinite, CountIn
    <3>3. QED BY <2>1, <3>2, CountedFinite, CapAssumption DEF IInv, SlotsCounted,
     CanReserve
  <2>2. CASE ~CanReserve
    <3>1. Takers' = Takers BY <2>2 DEF IInv, TypeCalls, FirstWatcher, Followed, Takers
    <3>2. QED BY <2>2, <3>1 DEF IInv, SlotsCounted
  <2>3. QED BY <2>1, <2>2
<1>8. BudgetCounted'
  <2>1. Payers' = Payers BY DEF IInv, TypeCalls, Payers
  <2>2. QED BY <2>1 DEF IInv, BudgetCounted
<1>9. QED BY <1>1, <1>2, <1>3, <1>4, <1>5, <1>6, <1>7, <1>8 DEF IInv

LEMMA StartChildInv == ASSUME IInv, NEW c \in Child, StartChild(c) PROVE IInv'
<1> USE DEF StartChild, parent, child, calls, counters
<1>1. TypeParent'
  BY DEF IInv, TypeParent, Phase, Paused
<1>2. TypeChild'
  <2>1. ASSUME NEW d \in Child PROVE cruns'[d] <= MaxRuns[d]
    <3>1. MaxRuns[d] \in Nat \ {0} /\ cruns[d] <= MaxRuns[d] BY FirstRun DEF IInv,
     TypeChild
    <3>2. cruns'[d] = cruns[d] \/ cruns'[d] = 1 BY DEF IInv, TypeChild
    <3>3. QED BY <3>1, <3>2
  <2>2. QED BY <2>1 DEF IInv, TypeChild, Status, Phase
<1>3. TypeCalls'
  BY DEF IInv, TypeCalls, Call
<1>4. TypeWatch'
  BY DEF IInv, TypeWatch
<1>5. ChildPhases'
  BY DEF IInv, TypeChild, TypeCalls, ChildPhases, Call, Phase
<1>6. FirstWatcher'
  BY FirstRun DEF IInv, TypeCalls, TypeChild, TypeWatch, ChildPhases, FirstWatcher,
     Followed, HoldsSlot, NoWatch
<1>7. SlotsCounted'
  <2>1. Takers' = Takers BY FirstRun DEF IInv, TypeCalls, TypeWatch, FirstWatcher,
     Followed, Takers, NoWatch
  <2>2. QED BY <2>1 DEF IInv, SlotsCounted
<1>8. BudgetCounted'
  <2>1. Payers' = Payers BY DEF IInv, TypeCalls, Payers
  <2>2. QED BY <2>1 DEF IInv, BudgetCounted
<1>9. QED BY <1>1, <1>2, <1>3, <1>4, <1>5, <1>6, <1>7, <1>8 DEF IInv

LEMMA StartFailsInv == ASSUME IInv, NEW c \in Child, StartFails(c) PROVE IInv'
<1> USE DEF StartFails, parent, child, calls, counters
<1>1. TypeParent'
  BY DEF IInv, TypeParent, Phase, Paused
<1>2. TypeChild'
  BY DEF IInv, TypeChild, Status, Phase
<1>3. TypeCalls'
  <2>1. 0 \in 0 .. MaxParentRuns BY BoundAssumption
  <2>2. QED BY <2>1 DEF IInv, TypeCalls, Call
<1>4. TypeWatch'
  BY DEF IInv, TypeWatch
<1>5. ChildPhases'
  BY DEF IInv, TypeChild, TypeCalls, ChildPhases, Call, Phase
<1>6. FirstWatcher'
  <2>1. \A d \in Child : /\ call'[d] = "done" <=> call[d] = "done"
                         /\ cslot'[d] = 1 => cslot[d] = 1
                         /\ HoldsSlot(d)' => HoldsSlot(d)
    BY FirstRun DEF IInv, TypeCalls, TypeChild, ChildPhases, HoldsSlot
  <2>2. ASSUME NEW d \in Child PROVE Followed(d)'
    BY <2>1 DEF IInv, FirstWatcher, Followed
  <2>3. QED BY <2>2 DEF FirstWatcher
<1>7. SlotsCounted'
  <2>1. Takers' = Takers BY FirstRun DEF IInv, TypeCalls, TypeWatch, FirstWatcher,
     Followed, Takers, NoWatch
  <2>2. QED BY <2>1 DEF IInv, SlotsCounted
<1>8. BudgetCounted'
  <2>1. Payers' = Payers BY DEF IInv, TypeCalls, Payers
  <2>2. QED BY <2>1 DEF IInv, BudgetCounted
<1>9. QED BY <1>1, <1>2, <1>3, <1>4, <1>5, <1>6, <1>7, <1>8 DEF IInv

LEMMA UnreserveInv == ASSUME IInv, NEW c \in Child, Unreserve(c) PROVE IInv'
<1> USE DEF Unreserve, parent, child, calls, counters
<1>1. TypeParent'
  BY DEF IInv, TypeParent, Phase, Paused
<1>2. TypeChild'
  BY DEF IInv, TypeChild, Status, Phase
<1>3. TypeCalls'
  BY DEF IInv, TypeCalls, Call
<1>4. TypeWatch'
  BY DEF IInv, TypeWatch
<1>5. ChildPhases'
  BY DEF IInv, TypeChild, TypeCalls, ChildPhases, Call, Phase
<1>6. FirstWatcher'
  <2>1. \A d \in Child : /\ call'[d] = "done" <=> call[d] = "done"
                         /\ cslot'[d] = 1 => cslot[d] = 1
                         /\ HoldsSlot(d)' => HoldsSlot(d)
    BY FirstRun DEF IInv, TypeCalls, TypeChild, ChildPhases, HoldsSlot
  <2>2. ASSUME NEW d \in Child PROVE Followed(d)'
    BY <2>1 DEF IInv, FirstWatcher, Followed
  <2>3. QED BY <2>2 DEF FirstWatcher
<1>7. SlotsCounted'
  <2>1. Takers' = Takers \ {c} /\ c \in Takers
    BY FirstRun DEF IInv, TypeCalls, TypeWatch, FirstWatcher, Followed, Takers, NoWatch
  <2>2. /\ Cardinality(Takers') = Cardinality(Takers) - 1
        /\ Cardinality(Takers) \in Nat
    BY <2>1, CountedFinite, CountOut
  <2>3. QED BY <2>2, CapAssumption DEF IInv, SlotsCounted
<1>8. BudgetCounted'
  <2>1. Payers' = Payers BY DEF IInv, TypeCalls, Payers
  <2>2. QED BY <2>1 DEF IInv, BudgetCounted
<1>9. QED BY <1>1, <1>2, <1>3, <1>4, <1>5, <1>6, <1>7, <1>8 DEF IInv

LEMMA RefundInv == ASSUME IInv, NEW c \in Child, Refund(c) PROVE IInv'
<1> USE DEF Refund, parent, child, calls, counters
<1>1. TypeParent'
  BY DEF IInv, TypeParent, Phase, Paused
<1>2. TypeChild'
  BY DEF IInv, TypeChild, Status, Phase
<1>3. TypeCalls'
  <2>1. starts' \in 0 .. MaxInvocations BY CapAssumption DEF IInv, TypeCalls
  <2>2. call' \in [Child -> Call] BY DEF IInv, TypeCalls, Call
  <2>3. QED BY <2>1, <2>2 DEF IInv, TypeCalls
<1>4. TypeWatch'
  BY DEF IInv, TypeWatch
<1>5. ChildPhases'
  BY DEF IInv, TypeChild, TypeCalls, ChildPhases, Call, Phase
<1>6. FirstWatcher'
  <2>1. \A d \in Child : /\ call'[d] = "done" <=> call[d] = "done"
                         /\ cslot'[d] = 1 => cslot[d] = 1
                         /\ HoldsSlot(d)' => HoldsSlot(d)
    BY FirstRun DEF IInv, TypeCalls, TypeChild, ChildPhases, HoldsSlot
  <2>2. ASSUME NEW d \in Child PROVE Followed(d)'
    BY <2>1 DEF IInv, FirstWatcher, Followed
  <2>3. QED BY <2>2 DEF FirstWatcher
<1>7. SlotsCounted'
  <2>1. Takers' = Takers BY FirstRun DEF IInv, TypeCalls, TypeWatch, FirstWatcher,
     Followed, Takers, NoWatch
  <2>2. QED BY <2>1 DEF IInv, SlotsCounted
<1>8. BudgetCounted'
  <2>1. Payers' = Payers \ {c} /\ c \in Payers BY DEF IInv, TypeCalls, Payers
  <2>2. /\ Cardinality(Payers') = Cardinality(Payers) - 1
        /\ Cardinality(Payers) \in Nat /\ Cardinality(Payers) >= 1
    BY <2>1, CountedFinite, CountOut
  <2>3. QED BY <2>2 DEF IInv, TypeCalls, BudgetCounted
<1>9. QED BY <1>1, <1>2, <1>3, <1>4, <1>5, <1>6, <1>7, <1>8 DEF IInv

LEMMA SpawnWatcherInv == ASSUME IInv, NEW c \in Child, SpawnWatcher(c) PROVE IInv'
<1> USE DEF SpawnWatcher, parent, child, calls, counters
<1>1. TypeParent'
  BY DEF IInv, TypeParent, Phase, Paused
<1>2. TypeChild'
  BY DEF IInv, TypeChild, Status, Phase
<1>3. TypeCalls'
  <2>1. 0 \in 0 .. MaxParentRuns BY BoundAssumption
  <2>2. QED BY <2>1 DEF IInv, TypeCalls, Call
<1>4. TypeWatch'
  <2>1. <<c, 1>> \in Watcher BY FirstRun
  <2>2. "begin" \in Place /\ 0 \in Nat BY DEF Place
  <2>3. QED BY <2>1, <2>2 DEF IInv, TypeCalls, TypeWatch, NoWatch
<1>5. ChildPhases'
  BY DEF IInv, TypeChild, TypeCalls, ChildPhases, Call, Phase
<1>6. FirstWatcher'
  BY FirstRun DEF IInv, TypeCalls, TypeChild, TypeWatch, ChildPhases, FirstWatcher,
     Followed, HoldsSlot, NoWatch
<1>7. SlotsCounted'
  <2>1. Takers' = Takers BY FirstRun DEF IInv, TypeCalls, TypeWatch, FirstWatcher,
     Followed, Takers, NoWatch
  <2>2. QED BY <2>1 DEF IInv, SlotsCounted
<1>8. BudgetCounted'
  <2>1. Payers' = Payers BY DEF IInv, TypeCalls, Payers
  <2>2. QED BY <2>1 DEF IInv, BudgetCounted
<1>9. QED BY <1>1, <1>2, <1>3, <1>4, <1>5, <1>6, <1>7, <1>8 DEF IInv

LEMMA ChildPublishesInv == ASSUME IInv, NEW c \in Child, NEW s \in Status,
     ChildPublishes(c, s) PROVE IInv'
<1> USE DEF ChildPublishes, parent, child, calls, counters
<1>1. TypeParent'
  BY DEF IInv, TypeParent, Phase, Paused
<1>2. TypeChild'
  BY DEF IInv, TypeChild, Status, Phase
<1>3. TypeCalls'
  BY DEF IInv, TypeCalls, Call
<1>4. TypeWatch'
  BY DEF IInv, TypeWatch
<1>5. ChildPhases'
  BY DEF IInv, TypeChild, TypeCalls, ChildPhases, Call, Phase, Status
<1>6. FirstWatcher'
  <2>1. \A d \in Child : /\ call'[d] = "done" <=> call[d] = "done"
                         /\ cslot'[d] = 1 => cslot[d] = 1
                         /\ HoldsSlot(d)' => HoldsSlot(d)
    BY FirstRun DEF IInv, TypeCalls, TypeChild, ChildPhases, HoldsSlot
  <2>2. ASSUME NEW d \in Child PROVE Followed(d)'
    BY <2>1 DEF IInv, FirstWatcher, Followed
  <2>3. QED BY <2>2 DEF FirstWatcher
<1>7. SlotsCounted'
  <2>1. Takers' = Takers BY DEF IInv, Takers
  <2>2. QED BY <2>1 DEF IInv, SlotsCounted
<1>8. BudgetCounted'
  <2>1. Payers' = Payers BY DEF IInv, Payers
  <2>2. QED BY <2>1 DEF IInv, BudgetCounted
<1>9. QED BY <1>1, <1>2, <1>3, <1>4, <1>5, <1>6, <1>7, <1>8 DEF IInv

LEMMA ChildExitsInv == ASSUME IInv, NEW c \in Child, ChildExits(c) PROVE IInv'
<1> USE DEF ChildExits, parent, child, calls, counters
<1>1. TypeParent'
  BY DEF IInv, TypeParent, Phase, Paused
<1>2. TypeChild'
  BY DEF IInv, TypeChild, Status, Phase
<1>3. TypeCalls'
  BY DEF IInv, TypeCalls, Call
<1>4. TypeWatch'
  BY DEF IInv, TypeWatch
<1>5. ChildPhases'
  BY DEF IInv, TypeChild, TypeCalls, ChildPhases, Call, Phase
<1>6. FirstWatcher'
  <2>1. \A d \in Child : /\ call'[d] = "done" <=> call[d] = "done"
                         /\ cslot'[d] = 1 => cslot[d] = 1
                         /\ HoldsSlot(d)' => HoldsSlot(d)
    BY FirstRun DEF IInv, TypeCalls, TypeChild, ChildPhases, HoldsSlot
  <2>2. ASSUME NEW d \in Child PROVE Followed(d)'
    BY <2>1 DEF IInv, FirstWatcher, Followed
  <2>3. QED BY <2>2 DEF FirstWatcher
<1>7. SlotsCounted'
  <2>1. Takers' = Takers BY DEF IInv, Takers
  <2>2. QED BY <2>1 DEF IInv, SlotsCounted
<1>8. BudgetCounted'
  <2>1. Payers' = Payers BY DEF IInv, Payers
  <2>2. QED BY <2>1 DEF IInv, BudgetCounted
<1>9. QED BY <1>1, <1>2, <1>3, <1>4, <1>5, <1>6, <1>7, <1>8 DEF IInv

LEMMA ChildRelaunchesInv == ASSUME IInv, NEW c \in Child, ChildRelaunches(c) PROVE IInv'
<1> USE DEF ChildRelaunches, parent, child, calls, counters
<1>1. TypeParent'
  BY DEF IInv, TypeParent, Phase, Paused
<1>2. TypeChild'
  BY DEF IInv, TypeChild, Status, Phase
<1>3. TypeCalls'
  BY DEF IInv, TypeCalls, Call
<1>4. TypeWatch'
  BY DEF IInv, TypeWatch
<1>5. ChildPhases'
  BY FirstRun DEF IInv, TypeChild, TypeCalls, ChildPhases
<1>6. FirstWatcher'
  <2>1. \A d \in Child : /\ call'[d] = "done" <=> call[d] = "done"
                         /\ cslot'[d] = 1 => cslot[d] = 1
                         /\ HoldsSlot(d)' => HoldsSlot(d)
    BY FirstRun DEF IInv, TypeCalls, TypeChild, ChildPhases, HoldsSlot
  <2>2. ASSUME NEW d \in Child PROVE Followed(d)'
    BY <2>1 DEF IInv, FirstWatcher, Followed
  <2>3. QED BY <2>2 DEF FirstWatcher
<1>7. SlotsCounted'
  <2>1. Takers' = Takers BY DEF IInv, Takers
  <2>2. QED BY <2>1 DEF IInv, SlotsCounted
<1>8. BudgetCounted'
  <2>1. Payers' = Payers BY DEF IInv, Payers
  <2>2. QED BY <2>1 DEF IInv, BudgetCounted
<1>9. QED BY <1>1, <1>2, <1>3, <1>4, <1>5, <1>6, <1>7, <1>8 DEF IInv

LEMMA ChildRegistersInv == ASSUME IInv, NEW c \in Child, ChildRegisters(c) PROVE IInv'
<1> USE DEF ChildRegisters, parent, child, calls, counters
<1>1. TypeParent'
  BY DEF IInv, TypeParent, Phase, Paused
<1>2. TypeChild'
  <2>1. ASSUME NEW d \in Child PROVE cruns'[d] <= MaxRuns[d]
    <3>1. /\ MaxRuns[d] \in Nat \ {0} /\ cruns[d] \in Nat /\ cruns[d] <= MaxRuns[d]
          /\ cphase[d] = "launching" => cruns[d] < MaxRuns[d]
      BY FirstRun DEF IInv, TypeChild, ChildPhases
    <3>2. CASE d = c
      <4>1. cruns'[d] = cruns[d] + 1 /\ cphase[d] = "launching"
        BY <3>2 DEF IInv, TypeChild
      <4>2. QED BY <3>1, <4>1
    <3>3. CASE d # c
      <4>1. cruns'[d] = cruns[d] BY <3>3 DEF IInv, TypeChild
      <4>2. QED BY <3>1, <4>1
    <3>4. QED BY <3>2, <3>3
  <2>2. QED BY <2>1 DEF IInv, TypeChild, Status, Phase
<1>3. TypeCalls'
  BY DEF IInv, TypeCalls, Call
<1>4. TypeWatch'
  BY DEF IInv, TypeWatch
<1>5. ChildPhases'
  BY DEF IInv, TypeChild, TypeCalls, ChildPhases, Call, Phase
<1>6. FirstWatcher'
  <2>1. \A d \in Child : /\ call'[d] = "done" <=> call[d] = "done"
                         /\ cslot'[d] = 1 => cslot[d] = 1
                         /\ HoldsSlot(d)' => HoldsSlot(d)
    BY FirstRun DEF IInv, TypeCalls, TypeChild, ChildPhases, HoldsSlot
  <2>2. ASSUME NEW d \in Child PROVE Followed(d)'
    BY <2>1 DEF IInv, FirstWatcher, Followed
  <2>3. QED BY <2>2 DEF FirstWatcher
<1>7. SlotsCounted'
  <2>1. Takers' = Takers BY DEF IInv, Takers
  <2>2. QED BY <2>1 DEF IInv, SlotsCounted
<1>8. BudgetCounted'
  <2>1. Payers' = Payers BY DEF IInv, Payers
  <2>2. QED BY <2>1 DEF IInv, BudgetCounted
<1>9. QED BY <1>1, <1>2, <1>3, <1>4, <1>5, <1>6, <1>7, <1>8 DEF IInv

LEMMA RearmOnRunInv == ASSUME IInv, NEW c \in Child, RearmOnRun(c) PROVE IInv'
<1> USE DEF RearmOnRun, parent, child, calls, counters
<1>1. TypeParent'
  BY DEF IInv, TypeParent, Phase, Paused
<1>2. TypeChild'
  BY DEF IInv, TypeChild, Status, Phase
<1>3. TypeCalls'
  BY DEF IInv, TypeCalls, Call
<1>4. TypeWatch'
  <2>1. \A d \in Child : <<d, cruns[d]>> \in Watcher \/ cruns[d] = 0
    BY BoundAssumption DEF IInv, TypeChild, Run, Watcher
  <2>2. "begin" \in Place /\ 0 \in Nat /\ 0 \in 0 .. MaxParentRuns
    BY BoundAssumption DEF Place
  <2>3. <<c, cruns[c]>> \in Watcher BY <2>1 DEF IInv, ChildPhases
  <2>4. QED BY <2>2, <2>3 DEF IInv, TypeParent, TypeWatch, NoWatch
<1>5. ChildPhases'
  BY DEF IInv, TypeChild, TypeCalls, ChildPhases, Call, Phase
<1>6. FirstWatcher'
  <2>1. \A d \in Child : <<d, 1>> \in Watcher /\ <<d, 1>> # <<c, cruns[c]>>
    <3>1. cruns[c] # 1 BY DEF IInv, ChildPhases, TypeChild
    <3>2. QED BY <3>1, FirstRun
  <2>2. \A d \in Child : watch'[<<d, 1>>] = watch[<<d, 1>>]
    BY <2>1 DEF IInv, TypeWatch
  <2>3. \A d \in Child : HoldsSlot(d)' => HoldsSlot(d)
    BY DEF IInv, TypeChild, HoldsSlot
  <2>4. ASSUME NEW d \in Child PROVE Followed(d)'
    BY <2>2, <2>3 DEF IInv, FirstWatcher, Followed
  <2>5. QED BY <2>4 DEF FirstWatcher
<1>7. SlotsCounted'
  <2>1. \A d \in Child : <<d, 1>> \in Watcher /\ <<d, 1>> # <<c, cruns[c]>>
    <3>1. cruns[c] # 1 BY DEF IInv, ChildPhases, TypeChild
    <3>2. QED BY <3>1, FirstRun
  <2>2. Takers' = Takers BY <2>1 DEF IInv, TypeWatch, Takers
  <2>3. QED BY <2>2 DEF IInv, SlotsCounted
<1>8. BudgetCounted'
  <2>1. Payers' = Payers BY DEF IInv, Payers
  <2>2. QED BY <2>1 DEF IInv, BudgetCounted
<1>9. QED BY <1>1, <1>2, <1>3, <1>4, <1>5, <1>6, <1>7, <1>8 DEF IInv

LEMMA RearmOnPauseInv == ASSUME IInv, NEW c \in Child, RearmOnPause(c) PROVE IInv'
<1> USE DEF RearmOnPause, parent, child, calls, counters
<1>1. TypeParent'
  BY DEF IInv, TypeParent, Phase, Paused
<1>2. TypeChild'
  BY DEF IInv, TypeChild, Status, Phase
<1>3. TypeCalls'
  BY DEF IInv, TypeCalls, Call
<1>4. TypeWatch'
  <2>1. \A d \in Child : <<d, cruns[d]>> \in Watcher \/ cruns[d] = 0
    BY BoundAssumption DEF IInv, TypeChild, Run, Watcher
  <2>2. "begin" \in Place /\ 0 \in Nat /\ 0 \in 0 .. MaxParentRuns
    BY BoundAssumption DEF Place
  <2>3. <<c, cruns[c]>> \in Watcher BY <2>1 DEF IInv, ChildPhases
  <2>4. QED BY <2>2, <2>3 DEF IInv, TypeParent, TypeWatch, NoWatch
<1>5. ChildPhases'
  BY DEF IInv, TypeChild, TypeCalls, ChildPhases, Call, Phase
<1>6. FirstWatcher'
  <2>1. \A d \in Child : <<d, 1>> \in Watcher /\ <<d, 1>> # <<c, cruns[c]>>
    <3>1. cruns[c] # 1 BY DEF IInv, ChildPhases, TypeChild
    <3>2. QED BY <3>1, FirstRun
  <2>2. \A d \in Child : watch'[<<d, 1>>] = watch[<<d, 1>>]
    BY <2>1 DEF IInv, TypeWatch
  <2>3. \A d \in Child : HoldsSlot(d)' => HoldsSlot(d)
    BY DEF IInv, TypeChild, HoldsSlot
  <2>4. ASSUME NEW d \in Child PROVE Followed(d)'
    BY <2>2, <2>3 DEF IInv, FirstWatcher, Followed
  <2>5. QED BY <2>4 DEF FirstWatcher
<1>7. SlotsCounted'
  <2>1. \A d \in Child : <<d, 1>> \in Watcher /\ <<d, 1>> # <<c, cruns[c]>>
    <3>1. cruns[c] # 1 BY DEF IInv, ChildPhases, TypeChild
    <3>2. QED BY <3>1, FirstRun
  <2>2. Takers' = Takers BY <2>1 DEF IInv, TypeWatch, Takers
  <2>3. QED BY <2>2 DEF IInv, SlotsCounted
<1>8. BudgetCounted'
  <2>1. Payers' = Payers BY DEF IInv, Payers
  <2>2. QED BY <2>1 DEF IInv, BudgetCounted
<1>9. QED BY <1>1, <1>2, <1>3, <1>4, <1>5, <1>6, <1>7, <1>8 DEF IInv

LEMMA ChildForcedInv == ASSUME IInv, NEW c \in Child, ChildForced(c) PROVE IInv'
<1> USE DEF ChildForced, parent, child, calls, counters
<1>1. TypeParent'
  BY DEF IInv, TypeParent, Phase, Paused
<1>2. TypeChild'
  BY DEF IInv, TypeChild, Status, Phase
<1>3. TypeCalls'
  BY DEF IInv, TypeCalls, Call
<1>4. TypeWatch'
  BY DEF IInv, TypeWatch
<1>5. ChildPhases'
  BY DEF IInv, TypeChild, TypeCalls, ChildPhases, Call, Phase
<1>6. FirstWatcher'
  <2>1. \A d \in Child : /\ call'[d] = "done" <=> call[d] = "done"
                         /\ cslot'[d] = 1 => cslot[d] = 1
                         /\ HoldsSlot(d)' => HoldsSlot(d)
    BY FirstRun DEF IInv, TypeCalls, TypeChild, ChildPhases, HoldsSlot
  <2>2. ASSUME NEW d \in Child PROVE Followed(d)'
    BY <2>1 DEF IInv, FirstWatcher, Followed
  <2>3. QED BY <2>2 DEF FirstWatcher
<1>7. SlotsCounted'
  <2>1. Takers' = Takers BY DEF IInv, Takers
  <2>2. QED BY <2>1 DEF IInv, SlotsCounted
<1>8. BudgetCounted'
  <2>1. Payers' = Payers BY DEF IInv, Payers
  <2>2. QED BY <2>1 DEF IInv, BudgetCounted
<1>9. QED BY <1>1, <1>2, <1>3, <1>4, <1>5, <1>6, <1>7, <1>8 DEF IInv

LEMMA BeginInv == ASSUME IInv, NEW c \in Child, NEW k \in Run(c), Begin(c, k) PROVE
     IInv'
<1> USE DEF Begin, At, Goto, StillWatching, parent, child, calls, counters
<1>1. TypeParent'
  BY DEF IInv, TypeParent, Phase, Paused
<1>2. TypeChild'
  BY DEF IInv, TypeChild, Status, Phase
<1>3. TypeCalls'
  BY DEF IInv, TypeCalls, Call
<1>4. TypeWatch'
  <2>1. <<c, k>> \in Watcher BY InWatcher
  <2>2. watch[<<c, k>>] \in [pc : Place, parentDone : 0 .. MaxParentRuns, childDone
     : Nat]
    BY <2>1 DEF IInv, TypeWatch
  <2>3. watch' = [watch EXCEPT ![<<c, k>>] = watch'[<<c, k>>]]
    BY <2>1 DEF IInv, TypeWatch
  <2>4. watch'[<<c, k>>] \in [pc : Place, parentDone : 0 .. MaxParentRuns, childDone
     : Nat]
    <3>1. 0 \in 0 .. MaxParentRuns BY BoundAssumption
    <3>2. QED BY <2>1, <2>2, <3>1 DEF IInv, TypeParent, TypeChild, TypeWatch,
     NoWatch, Place
  <2>5. QED BY <2>1, <2>3, <2>4 DEF IInv, TypeWatch
<1>5. ChildPhases'
  BY DEF IInv, TypeChild, TypeCalls, ChildPhases
<1>6. FirstWatcher'
  <2>1. <<c, k>> \in Watcher /\ \A d \in Child : <<d, 1>> \in Watcher
    BY FirstRun, InWatcher
  <2>2. \A d \in Child : <<d, 1>> # <<c, k>> => watch'[<<d, 1>>] = watch[<<d, 1>>]
    BY <2>1 DEF IInv, TypeWatch
  <2>3. /\ watch'[<<c, k>>].pc = IF cslot[c] # 0 THEN "select" ELSE "childDone"
        /\ watch'[<<c, k>>].childDone = cslot[c]
    BY <2>1 DEF IInv, TypeWatch, NoWatch
  <2>4. \A d \in Child : HoldsSlot(d)' => HoldsSlot(d)
    BY DEF IInv, TypeChild, HoldsSlot
  <2>5. ASSUME NEW d \in Child PROVE Followed(d)'
    <3>1. CASE <<d, 1>> # <<c, k>>
      BY <2>2, <2>4, <3>1 DEF IInv, FirstWatcher, Followed
    <3>2. CASE <<d, 1>> = <<c, k>>
      <4>1. d = c /\ k = 1 BY <3>2
      <4>2. Followed(c) BY DEF IInv, FirstWatcher
      <4>3. QED BY <2>3, <2>4, <4>1, <4>2 DEF IInv, ChildPhases, TypeChild,
     TypeWatch, Followed, HoldsSlot
    <3>3. QED BY <3>1, <3>2
  <2>6. QED BY <2>5 DEF FirstWatcher
<1>7. SlotsCounted'
  <2>1. <<c, k>> \in Watcher /\ \A d \in Child : <<d, 1>> \in Watcher
    BY FirstRun, InWatcher
  <2>2. Takers' = Takers
    BY <2>1 DEF IInv, TypeWatch, Takers
  <2>3. QED BY <2>2 DEF IInv, SlotsCounted
<1>8. BudgetCounted'
  <2>1. Payers' = Payers BY DEF IInv, Payers
  <2>2. QED BY <2>1 DEF IInv, BudgetCounted
<1>9. QED BY <1>1, <1>2, <1>3, <1>4, <1>5, <1>6, <1>7, <1>8 DEF IInv

LEMMA SelectParentInv == ASSUME IInv, NEW c \in Child, NEW k \in Run(c),
     SelectParent(c, k) PROVE IInv'
<1> USE DEF SelectParent, At, Goto, StillWatching, parent, child, calls, counters
<1>1. TypeParent'
  BY DEF IInv, TypeParent, Phase, Paused
<1>2. TypeChild'
  BY DEF IInv, TypeChild, Status, Phase
<1>3. TypeCalls'
  BY DEF IInv, TypeCalls, Call
<1>4. TypeWatch'
  <2>1. <<c, k>> \in Watcher BY InWatcher
  <2>2. watch[<<c, k>>] \in [pc : Place, parentDone : 0 .. MaxParentRuns, childDone
     : Nat]
    BY <2>1 DEF IInv, TypeWatch
  <2>3. watch' = [watch EXCEPT ![<<c, k>>] = watch'[<<c, k>>]]
    BY <2>1 DEF IInv, TypeWatch
  <2>4. watch'[<<c, k>>] \in [pc : Place, parentDone : 0 .. MaxParentRuns, childDone
     : Nat]
    <3>1. 0 \in 0 .. MaxParentRuns BY BoundAssumption
    <3>2. QED BY <2>1, <2>2, <3>1 DEF IInv, TypeParent, TypeChild, TypeWatch,
     NoWatch, Place
  <2>5. QED BY <2>1, <2>3, <2>4 DEF IInv, TypeWatch
<1>5. ChildPhases'
  BY DEF IInv, TypeChild, TypeCalls, ChildPhases
<1>6. FirstWatcher'
  <2>1. <<c, k>> \in Watcher /\ \A d \in Child : <<d, 1>> \in Watcher
    BY FirstRun, InWatcher
  <2>2. \A d \in Child : <<d, 1>> # <<c, k>> => watch'[<<d, 1>>] = watch[<<d, 1>>]
    BY <2>1 DEF IInv, TypeWatch
  <2>3. /\ watch'[<<c, k>>].pc \in {"select", "status"}
        /\ watch'[<<c, k>>].childDone = watch[<<c, k>>].childDone
    BY <2>1 DEF IInv, TypeWatch, NoWatch
  <2>4. \A d \in Child : HoldsSlot(d)' => HoldsSlot(d)
    BY DEF IInv, TypeChild, HoldsSlot
  <2>5. ASSUME NEW d \in Child PROVE Followed(d)'
    <3>1. CASE <<d, 1>> # <<c, k>>
      BY <2>2, <2>4, <3>1 DEF IInv, FirstWatcher, Followed
    <3>2. CASE <<d, 1>> = <<c, k>>
      <4>1. d = c /\ k = 1 BY <3>2
      <4>2. Followed(c) BY DEF IInv, FirstWatcher
      <4>3. QED BY <2>3, <2>4, <4>1, <4>2 DEF IInv, ChildPhases, TypeChild,
     TypeWatch, Followed, HoldsSlot
    <3>3. QED BY <3>1, <3>2
  <2>6. QED BY <2>5 DEF FirstWatcher
<1>7. SlotsCounted'
  <2>1. <<c, k>> \in Watcher /\ \A d \in Child : <<d, 1>> \in Watcher
    BY FirstRun, InWatcher
  <2>2. Takers' = Takers
    BY <2>1 DEF IInv, TypeWatch, Takers
  <2>3. QED BY <2>2 DEF IInv, SlotsCounted
<1>8. BudgetCounted'
  <2>1. Payers' = Payers BY DEF IInv, Payers
  <2>2. QED BY <2>1 DEF IInv, BudgetCounted
<1>9. QED BY <1>1, <1>2, <1>3, <1>4, <1>5, <1>6, <1>7, <1>8 DEF IInv

LEMMA ParentStatusInv == ASSUME IInv, NEW c \in Child, NEW k \in Run(c),
     ParentStatus(c, k) PROVE IInv'
<1> USE DEF ParentStatus, At, Goto, StillWatching, parent, child, calls, counters
<1>1. TypeParent'
  BY DEF IInv, TypeParent, Phase, Paused
<1>2. TypeChild'
  BY DEF IInv, TypeChild, Status, Phase
<1>3. TypeCalls'
  BY DEF IInv, TypeCalls, Call
<1>4. TypeWatch'
  <2>1. <<c, k>> \in Watcher BY InWatcher
  <2>2. watch[<<c, k>>] \in [pc : Place, parentDone : 0 .. MaxParentRuns, childDone
     : Nat]
    BY <2>1 DEF IInv, TypeWatch
  <2>3. watch' = [watch EXCEPT ![<<c, k>>] = watch'[<<c, k>>]]
    BY <2>1 DEF IInv, TypeWatch
  <2>4. watch'[<<c, k>>] \in [pc : Place, parentDone : 0 .. MaxParentRuns, childDone
     : Nat]
    <3>1. 0 \in 0 .. MaxParentRuns BY BoundAssumption
    <3>2. QED BY <2>1, <2>2, <3>1 DEF IInv, TypeParent, TypeChild, TypeWatch,
     NoWatch, Place
  <2>5. QED BY <2>1, <2>3, <2>4 DEF IInv, TypeWatch
<1>5. ChildPhases'
  BY DEF IInv, TypeChild, TypeCalls, ChildPhases
<1>6. FirstWatcher'
  <2>1. <<c, k>> \in Watcher /\ \A d \in Child : <<d, 1>> \in Watcher
    BY FirstRun, InWatcher
  <2>2. \A d \in Child : <<d, 1>> # <<c, k>> => watch'[<<d, 1>>] = watch[<<d, 1>>]
    BY <2>1 DEF IInv, TypeWatch
  <2>3. /\ watch'[<<c, k>>].pc \in {"tick", "stop"}
        /\ watch'[<<c, k>>].childDone = watch[<<c, k>>].childDone
    BY <2>1 DEF IInv, TypeWatch, NoWatch
  <2>4. \A d \in Child : HoldsSlot(d)' => HoldsSlot(d)
    BY DEF IInv, TypeChild, HoldsSlot
  <2>5. ASSUME NEW d \in Child PROVE Followed(d)'
    <3>1. CASE <<d, 1>> # <<c, k>>
      BY <2>2, <2>4, <3>1 DEF IInv, FirstWatcher, Followed
    <3>2. CASE <<d, 1>> = <<c, k>>
      <4>1. d = c /\ k = 1 BY <3>2
      <4>2. Followed(c) BY DEF IInv, FirstWatcher
      <4>3. QED BY <2>3, <2>4, <4>1, <4>2 DEF IInv, ChildPhases, TypeChild,
     TypeWatch, Followed, HoldsSlot
    <3>3. QED BY <3>1, <3>2
  <2>6. QED BY <2>5 DEF FirstWatcher
<1>7. SlotsCounted'
  <2>1. <<c, k>> \in Watcher /\ \A d \in Child : <<d, 1>> \in Watcher
    BY FirstRun, InWatcher
  <2>2. Takers' = Takers
    BY <2>1 DEF IInv, TypeWatch, Takers
  <2>3. QED BY <2>2 DEF IInv, SlotsCounted
<1>8. BudgetCounted'
  <2>1. Payers' = Payers BY DEF IInv, Payers
  <2>2. QED BY <2>1 DEF IInv, BudgetCounted
<1>9. QED BY <1>1, <1>2, <1>3, <1>4, <1>5, <1>6, <1>7, <1>8 DEF IInv

LEMMA StopChildInv == ASSUME IInv, NEW c \in Child, NEW k \in Run(c), StopChild(c,
     k) PROVE IInv'
<1> USE DEF StopChild, At, Goto, StillWatching, parent, child, calls, counters
<1>1. TypeParent'
  BY DEF IInv, TypeParent, Phase, Paused
<1>2. TypeChild'
  BY DEF IInv, TypeChild, Status, Phase
<1>3. TypeCalls'
  BY DEF IInv, TypeCalls, Call
<1>4. TypeWatch'
  <2>1. <<c, k>> \in Watcher BY InWatcher
  <2>2. watch[<<c, k>>] \in [pc : Place, parentDone : 0 .. MaxParentRuns, childDone
     : Nat]
    BY <2>1 DEF IInv, TypeWatch
  <2>3. watch' = [watch EXCEPT ![<<c, k>>] = watch'[<<c, k>>]]
    BY <2>1 DEF IInv, TypeWatch
  <2>4. watch'[<<c, k>>] \in [pc : Place, parentDone : 0 .. MaxParentRuns, childDone
     : Nat]
    <3>1. 0 \in 0 .. MaxParentRuns BY BoundAssumption
    <3>2. QED BY <2>1, <2>2, <3>1 DEF IInv, TypeParent, TypeChild, TypeWatch,
     NoWatch, Place
  <2>5. QED BY <2>1, <2>3, <2>4 DEF IInv, TypeWatch
<1>5. ChildPhases'
  BY DEF IInv, TypeChild, TypeCalls, ChildPhases, Call, Phase
<1>6. FirstWatcher'
  <2>1. <<c, k>> \in Watcher /\ \A d \in Child : <<d, 1>> \in Watcher
    BY FirstRun, InWatcher
  <2>2. \A d \in Child : <<d, 1>> # <<c, k>> => watch'[<<d, 1>>] = watch[<<d, 1>>]
    BY <2>1 DEF IInv, TypeWatch
  <2>3. /\ watch'[<<c, k>>].pc = IF At(c, k, "stop") THEN "childDone" ELSE "release"
        /\ watch'[<<c, k>>].childDone = watch[<<c, k>>].childDone
    BY <2>1 DEF IInv, TypeWatch, NoWatch
  <2>4. \A d \in Child : HoldsSlot(d)' => HoldsSlot(d)
    BY DEF IInv, TypeChild, HoldsSlot
  <2>5. ASSUME NEW d \in Child PROVE Followed(d)'
    <3>1. CASE <<d, 1>> # <<c, k>>
      BY <2>2, <2>4, <3>1 DEF IInv, FirstWatcher, Followed
    <3>2. CASE <<d, 1>> = <<c, k>>
      <4>1. d = c /\ k = 1 BY <3>2
      <4>2. Followed(c) BY DEF IInv, FirstWatcher
      <4>3. QED BY <2>3, <2>4, <4>1, <4>2 DEF IInv, ChildPhases, TypeChild,
     TypeWatch, Followed, HoldsSlot
    <3>3. QED BY <3>1, <3>2
  <2>6. QED BY <2>5 DEF FirstWatcher
<1>7. SlotsCounted'
  <2>1. <<c, k>> \in Watcher /\ \A d \in Child : <<d, 1>> \in Watcher
    BY FirstRun, InWatcher
  <2>2. Takers' = Takers
    BY <2>1 DEF IInv, TypeWatch, Takers
  <2>3. QED BY <2>2 DEF IInv, SlotsCounted
<1>8. BudgetCounted'
  <2>1. Payers' = Payers BY DEF IInv, Payers
  <2>2. QED BY <2>1 DEF IInv, BudgetCounted
<1>9. QED BY <1>1, <1>2, <1>3, <1>4, <1>5, <1>6, <1>7, <1>8 DEF IInv

LEMMA ChildRunEndsInv == ASSUME IInv, NEW c \in Child, NEW k \in Run(c),
     ChildRunEnds(c, k) PROVE IInv'
<1> USE DEF ChildRunEnds, At, Goto, StillWatching, parent, child, calls, counters
<1>1. TypeParent'
  BY DEF IInv, TypeParent, Phase, Paused
<1>2. TypeChild'
  BY DEF IInv, TypeChild, Status, Phase
<1>3. TypeCalls'
  BY DEF IInv, TypeCalls, Call
<1>4. TypeWatch'
  <2>1. <<c, k>> \in Watcher BY InWatcher
  <2>2. watch[<<c, k>>] \in [pc : Place, parentDone : 0 .. MaxParentRuns, childDone
     : Nat]
    BY <2>1 DEF IInv, TypeWatch
  <2>3. watch' = [watch EXCEPT ![<<c, k>>] = watch'[<<c, k>>]]
    BY <2>1 DEF IInv, TypeWatch
  <2>4. watch'[<<c, k>>] \in [pc : Place, parentDone : 0 .. MaxParentRuns, childDone
     : Nat]
    <3>1. 0 \in 0 .. MaxParentRuns BY BoundAssumption
    <3>2. QED BY <2>1, <2>2, <3>1 DEF IInv, TypeParent, TypeChild, TypeWatch,
     NoWatch, Place, AfterRun
  <2>5. QED BY <2>1, <2>3, <2>4 DEF IInv, TypeWatch
<1>5. ChildPhases'
  BY DEF IInv, TypeChild, TypeCalls, ChildPhases
<1>6. FirstWatcher'
  <2>1. <<c, k>> \in Watcher /\ \A d \in Child : <<d, 1>> \in Watcher
    BY FirstRun, InWatcher
  <2>2. \A d \in Child : <<d, 1>> # <<c, k>> => watch'[<<d, 1>>] = watch[<<d, 1>>]
    BY <2>1 DEF IInv, TypeWatch
  <2>3. /\ watch'[<<c, k>>].pc = AfterRun(c)
        /\ watch'[<<c, k>>].childDone = 0
    BY <2>1 DEF IInv, TypeWatch, NoWatch
  <2>4. \A d \in Child : HoldsSlot(d)' => HoldsSlot(d)
    BY DEF IInv, TypeChild, HoldsSlot
  <2>5. ASSUME NEW d \in Child PROVE Followed(d)'
    <3>1. CASE <<d, 1>> # <<c, k>>
      BY <2>2, <2>4, <3>1 DEF IInv, FirstWatcher, Followed
    <3>2. CASE <<d, 1>> = <<c, k>>
      <4>1. d = c /\ k = 1 BY <3>2
      <4>2. Followed(c) BY DEF IInv, FirstWatcher
      <4>3. QED BY <2>3, <2>4, <4>1, <4>2 DEF IInv, ChildPhases, TypeChild,
     TypeWatch, Followed, HoldsSlot, AfterRun, ChildDone
    <3>3. QED BY <3>1, <3>2
  <2>6. QED BY <2>5 DEF FirstWatcher
<1>7. SlotsCounted'
  <2>1. <<c, k>> \in Watcher /\ \A d \in Child : <<d, 1>> \in Watcher
    BY FirstRun, InWatcher
  <2>2. Takers' = Takers
    BY <2>1 DEF IInv, TypeWatch, Takers, AfterRun
  <2>3. QED BY <2>2 DEF IInv, SlotsCounted
<1>8. BudgetCounted'
  <2>1. Payers' = Payers BY DEF IInv, Payers
  <2>2. QED BY <2>1 DEF IInv, BudgetCounted
<1>9. QED BY <1>1, <1>2, <1>3, <1>4, <1>5, <1>6, <1>7, <1>8 DEF IInv

LEMMA SuspendedTickInv == ASSUME IInv, NEW c \in Child, NEW k \in Run(c),
     SuspendedTick(c, k) PROVE IInv'
<1> USE DEF SuspendedTick, At, Goto, StillWatching, parent, child, calls, counters
<1>1. TypeParent'
  BY DEF IInv, TypeParent, Phase, Paused
<1>2. TypeChild'
  BY DEF IInv, TypeChild, Status, Phase
<1>3. TypeCalls'
  BY DEF IInv, TypeCalls, Call
<1>4. TypeWatch'
  <2>1. <<c, k>> \in Watcher BY InWatcher
  <2>2. watch[<<c, k>>] \in [pc : Place, parentDone : 0 .. MaxParentRuns, childDone
     : Nat]
    BY <2>1 DEF IInv, TypeWatch
  <2>3. watch' = [watch EXCEPT ![<<c, k>>] = watch'[<<c, k>>]]
    BY <2>1 DEF IInv, TypeWatch
  <2>4. watch'[<<c, k>>] \in [pc : Place, parentDone : 0 .. MaxParentRuns, childDone
     : Nat]
    <3>1. 0 \in 0 .. MaxParentRuns BY BoundAssumption
    <3>2. QED BY <2>1, <2>2, <3>1 DEF IInv, TypeParent, TypeChild, TypeWatch,
     NoWatch, Place
  <2>5. QED BY <2>1, <2>3, <2>4 DEF IInv, TypeWatch
<1>5. ChildPhases'
  BY DEF IInv, TypeChild, TypeCalls, ChildPhases
<1>6. FirstWatcher'
  <2>1. <<c, k>> \in Watcher /\ \A d \in Child : <<d, 1>> \in Watcher
    BY FirstRun, InWatcher
  <2>2. \A d \in Child : <<d, 1>> # <<c, k>> => watch'[<<d, 1>>] = watch[<<d, 1>>]
    BY <2>1 DEF IInv, TypeWatch
  <2>3. /\ watch'[<<c, k>>].pc = "release"
        /\ watch'[<<c, k>>].childDone = watch[<<c, k>>].childDone
    BY <2>1 DEF IInv, TypeWatch, NoWatch
  <2>4. \A d \in Child : HoldsSlot(d)' => HoldsSlot(d)
    BY DEF IInv, TypeChild, HoldsSlot
  <2>5. ASSUME NEW d \in Child PROVE Followed(d)'
    <3>1. CASE <<d, 1>> # <<c, k>>
      BY <2>2, <2>4, <3>1 DEF IInv, FirstWatcher, Followed
    <3>2. CASE <<d, 1>> = <<c, k>>
      <4>1. d = c /\ k = 1 BY <3>2
      <4>2. Followed(c) BY DEF IInv, FirstWatcher
      <4>3. QED BY <2>3, <2>4, <4>1, <4>2 DEF IInv, ChildPhases, TypeChild,
     TypeWatch, Followed, HoldsSlot
    <3>3. QED BY <3>1, <3>2
  <2>6. QED BY <2>5 DEF FirstWatcher
<1>7. SlotsCounted'
  <2>1. <<c, k>> \in Watcher /\ \A d \in Child : <<d, 1>> \in Watcher
    BY FirstRun, InWatcher
  <2>2. Takers' = Takers
    BY <2>1 DEF IInv, TypeWatch, Takers
  <2>3. QED BY <2>2 DEF IInv, SlotsCounted
<1>8. BudgetCounted'
  <2>1. Payers' = Payers BY DEF IInv, Payers
  <2>2. QED BY <2>1 DEF IInv, BudgetCounted
<1>9. QED BY <1>1, <1>2, <1>3, <1>4, <1>5, <1>6, <1>7, <1>8 DEF IInv

LEMMA SuspendedParentInv == ASSUME IInv, NEW c \in Child, NEW k \in Run(c),
     SuspendedParent(c, k) PROVE IInv'
<1> USE DEF SuspendedParent, At, Goto, StillWatching, parent, child, calls, counters
<1>1. TypeParent'
  BY DEF IInv, TypeParent, Phase, Paused
<1>2. TypeChild'
  BY DEF IInv, TypeChild, Status, Phase
<1>3. TypeCalls'
  BY DEF IInv, TypeCalls, Call
<1>4. TypeWatch'
  <2>1. <<c, k>> \in Watcher BY InWatcher
  <2>2. watch[<<c, k>>] \in [pc : Place, parentDone : 0 .. MaxParentRuns, childDone
     : Nat]
    BY <2>1 DEF IInv, TypeWatch
  <2>3. watch' = [watch EXCEPT ![<<c, k>>] = watch'[<<c, k>>]]
    BY <2>1 DEF IInv, TypeWatch
  <2>4. watch'[<<c, k>>] \in [pc : Place, parentDone : 0 .. MaxParentRuns, childDone
     : Nat]
    <3>1. 0 \in 0 .. MaxParentRuns BY BoundAssumption
    <3>2. QED BY <2>1, <2>2, <3>1 DEF IInv, TypeParent, TypeChild, TypeWatch,
     NoWatch, Place
  <2>5. QED BY <2>1, <2>3, <2>4 DEF IInv, TypeWatch
<1>5. ChildPhases'
  BY DEF IInv, TypeChild, TypeCalls, ChildPhases
<1>6. FirstWatcher'
  <2>1. <<c, k>> \in Watcher /\ \A d \in Child : <<d, 1>> \in Watcher
    BY FirstRun, InWatcher
  <2>2. \A d \in Child : <<d, 1>> # <<c, k>> => watch'[<<d, 1>>] = watch[<<d, 1>>]
    BY <2>1 DEF IInv, TypeWatch
  <2>3. /\ watch'[<<c, k>>].pc \in {"parentNext", "stopSuspended"}
        /\ watch'[<<c, k>>].childDone = watch[<<c, k>>].childDone
    BY <2>1 DEF IInv, TypeWatch, NoWatch
  <2>4. \A d \in Child : HoldsSlot(d)' => HoldsSlot(d)
    BY DEF IInv, TypeChild, HoldsSlot
  <2>5. ASSUME NEW d \in Child PROVE Followed(d)'
    <3>1. CASE <<d, 1>> # <<c, k>>
      BY <2>2, <2>4, <3>1 DEF IInv, FirstWatcher, Followed
    <3>2. CASE <<d, 1>> = <<c, k>>
      <4>1. d = c /\ k = 1 BY <3>2
      <4>2. Followed(c) BY DEF IInv, FirstWatcher
      <4>3. QED BY <2>3, <2>4, <4>1, <4>2 DEF IInv, ChildPhases, TypeChild,
     TypeWatch, Followed, HoldsSlot
    <3>3. QED BY <3>1, <3>2
  <2>6. QED BY <2>5 DEF FirstWatcher
<1>7. SlotsCounted'
  <2>1. <<c, k>> \in Watcher /\ \A d \in Child : <<d, 1>> \in Watcher
    BY FirstRun, InWatcher
  <2>2. Takers' = Takers
    BY <2>1 DEF IInv, TypeWatch, Takers
  <2>3. QED BY <2>2 DEF IInv, SlotsCounted
<1>8. BudgetCounted'
  <2>1. Payers' = Payers BY DEF IInv, Payers
  <2>2. QED BY <2>1 DEF IInv, BudgetCounted
<1>9. QED BY <1>1, <1>2, <1>3, <1>4, <1>5, <1>6, <1>7, <1>8 DEF IInv

LEMMA SuspendedSuccessorInv == ASSUME IInv, NEW c \in Child, NEW k \in Run(c),
     SuspendedSuccessor(c, k) PROVE IInv'
<1> USE DEF SuspendedSuccessor, At, Goto, StillWatching, parent, child, calls, counters
<1>1. TypeParent'
  BY DEF IInv, TypeParent, Phase, Paused
<1>2. TypeChild'
  BY DEF IInv, TypeChild, Status, Phase
<1>3. TypeCalls'
  BY DEF IInv, TypeCalls, Call
<1>4. TypeWatch'
  <2>1. <<c, k>> \in Watcher BY InWatcher
  <2>2. watch[<<c, k>>] \in [pc : Place, parentDone : 0 .. MaxParentRuns, childDone
     : Nat]
    BY <2>1 DEF IInv, TypeWatch
  <2>3. watch' = [watch EXCEPT ![<<c, k>>] = watch'[<<c, k>>]]
    BY <2>1 DEF IInv, TypeWatch
  <2>4. watch'[<<c, k>>] \in [pc : Place, parentDone : 0 .. MaxParentRuns, childDone
     : Nat]
    <3>1. 0 \in 0 .. MaxParentRuns BY BoundAssumption
    <3>2. QED BY <2>1, <2>2, <3>1 DEF IInv, TypeParent, TypeChild, TypeWatch,
     NoWatch, Place
  <2>5. QED BY <2>1, <2>3, <2>4 DEF IInv, TypeWatch
<1>5. ChildPhases'
  BY DEF IInv, TypeChild, TypeCalls, ChildPhases
<1>6. FirstWatcher'
  <2>1. <<c, k>> \in Watcher /\ \A d \in Child : <<d, 1>> \in Watcher
    BY FirstRun, InWatcher
  <2>2. \A d \in Child : <<d, 1>> # <<c, k>> => watch'[<<d, 1>>] = watch[<<d, 1>>]
    BY <2>1 DEF IInv, TypeWatch
  <2>3. /\ watch'[<<c, k>>].pc = "suspended"
        /\ watch'[<<c, k>>].childDone = watch[<<c, k>>].childDone
    BY <2>1 DEF IInv, TypeWatch, NoWatch
  <2>4. \A d \in Child : HoldsSlot(d)' => HoldsSlot(d)
    BY DEF IInv, TypeChild, HoldsSlot
  <2>5. ASSUME NEW d \in Child PROVE Followed(d)'
    <3>1. CASE <<d, 1>> # <<c, k>>
      BY <2>2, <2>4, <3>1 DEF IInv, FirstWatcher, Followed
    <3>2. CASE <<d, 1>> = <<c, k>>
      <4>1. d = c /\ k = 1 BY <3>2
      <4>2. Followed(c) BY DEF IInv, FirstWatcher
      <4>3. QED BY <2>3, <2>4, <4>1, <4>2 DEF IInv, ChildPhases, TypeChild,
     TypeWatch, Followed, HoldsSlot
    <3>3. QED BY <3>1, <3>2
  <2>6. QED BY <2>5 DEF FirstWatcher
<1>7. SlotsCounted'
  <2>1. <<c, k>> \in Watcher /\ \A d \in Child : <<d, 1>> \in Watcher
    BY FirstRun, InWatcher
  <2>2. Takers' = Takers
    BY <2>1 DEF IInv, TypeWatch, Takers
  <2>3. QED BY <2>2 DEF IInv, SlotsCounted
<1>8. BudgetCounted'
  <2>1. Payers' = Payers BY DEF IInv, Payers
  <2>2. QED BY <2>1 DEF IInv, BudgetCounted
<1>9. QED BY <1>1, <1>2, <1>3, <1>4, <1>5, <1>6, <1>7, <1>8 DEF IInv

LEMMA ReleaseInv == ASSUME IInv, NEW c \in Child, NEW k \in Run(c), Release(c, k)
     PROVE IInv'
<1> USE DEF Release, At, Goto, StillWatching, parent, child, calls, counters
<1>1. TypeParent'
  BY DEF IInv, TypeParent, Phase, Paused
<1>2. TypeChild'
  BY DEF IInv, TypeChild, Status, Phase
<1>3. TypeCalls'
  BY DEF IInv, TypeCalls, Call
<1>4. TypeWatch'
  <2>1. <<c, k>> \in Watcher BY InWatcher
  <2>2. watch[<<c, k>>] \in [pc : Place, parentDone : 0 .. MaxParentRuns, childDone
     : Nat]
    BY <2>1 DEF IInv, TypeWatch
  <2>3. watch' = [watch EXCEPT ![<<c, k>>] = watch'[<<c, k>>]]
    BY <2>1 DEF IInv, TypeWatch
  <2>4. watch'[<<c, k>>] \in [pc : Place, parentDone : 0 .. MaxParentRuns, childDone
     : Nat]
    <3>1. 0 \in 0 .. MaxParentRuns BY BoundAssumption
    <3>2. QED BY <2>1, <2>2, <3>1 DEF IInv, TypeParent, TypeChild, TypeWatch,
     NoWatch, Place
  <2>5. QED BY <2>1, <2>3, <2>4 DEF IInv, TypeWatch
<1>5. ChildPhases'
  BY DEF IInv, TypeChild, TypeCalls, ChildPhases
<1>6. FirstWatcher'
  <2>1. <<c, k>> \in Watcher /\ \A d \in Child : <<d, 1>> \in Watcher
    BY FirstRun, InWatcher
  <2>2. \A d \in Child : <<d, 1>> # <<c, k>> => watch'[<<d, 1>>] = watch[<<d, 1>>]
    BY <2>1 DEF IInv, TypeWatch
  <2>3. /\ watch'[<<c, k>>].pc = "gone"
        /\ watch'[<<c, k>>].childDone = 0
    BY <2>1 DEF IInv, TypeWatch, NoWatch
  <2>4. \A d \in Child : HoldsSlot(d)' => HoldsSlot(d)
    BY DEF IInv, TypeChild, HoldsSlot
  <2>5. ASSUME NEW d \in Child PROVE Followed(d)'
    <3>1. CASE <<d, 1>> # <<c, k>>
      BY <2>2, <2>4, <3>1 DEF IInv, FirstWatcher, Followed
    <3>2. CASE <<d, 1>> = <<c, k>>
      <4>1. d = c /\ k = 1 BY <3>2
      <4>2. Followed(c) BY DEF IInv, FirstWatcher
      <4>3. QED BY <2>3, <2>4, <4>1, <4>2 DEF IInv, ChildPhases, TypeChild,
     TypeWatch, Followed, HoldsSlot
    <3>3. QED BY <3>1, <3>2
  <2>6. QED BY <2>5 DEF FirstWatcher
<1>7. SlotsCounted'
  <2>1. <<c, k>> \in Watcher /\ \A d \in Child : <<d, 1>> \in Watcher
    BY FirstRun, InWatcher
  <2>2. CASE k = 1
    <3>1. Takers' = Takers \ {c} /\ c \in Takers
      BY <2>1, <2>2 DEF IInv, TypeWatch, TypeCalls, FirstWatcher, Followed, Takers,
     NoWatch
    <3>2. /\ Cardinality(Takers') = Cardinality(Takers) - 1
          /\ Cardinality(Takers) \in Nat
      BY <3>1, CountedFinite, CountOut
    <3>3. QED BY <2>2, <3>2, CapAssumption DEF IInv, SlotsCounted
  <2>3. CASE k # 1
    <3>1. Takers' = Takers BY <2>1, <2>3 DEF IInv, TypeWatch, Takers
    <3>2. QED BY <2>3, <3>1 DEF IInv, SlotsCounted
  <2>4. QED BY <2>2, <2>3
<1>8. BudgetCounted'
  <2>1. Payers' = Payers BY DEF IInv, Payers
  <2>2. QED BY <2>1 DEF IInv, BudgetCounted
<1>9. QED BY <1>1, <1>2, <1>3, <1>4, <1>5, <1>6, <1>7, <1>8 DEF IInv

LEMMA RestartInv == ASSUME IInv, Restart PROVE IInv'
<1> USE DEF Restart, parent, child, calls, counters
<1>1. TypeParent'
  <2>1. 0 \in 0 .. MaxParentRuns /\ crashes' \in 0 .. MaxCrashes
    BY BoundAssumption DEF IInv, TypeParent
  <2>2. pstatus' \in Paused \cup {"over"} BY DEF IInv, TypeParent, Paused, Swept
  <2>3. QED BY <2>1, <2>2 DEF IInv, TypeParent, Phase
<1>2. TypeChild'
  BY DEF IInv, TypeChild, Status, Phase, Swept
<1>3. TypeCalls'
  <2>1. 0 \in 0 .. MaxParentRuns BY BoundAssumption
  <2>2. QED BY <2>1 DEF IInv, TypeCalls, Call
<1>4. TypeWatch'
  <2>1. "gone" \in Place /\ "none" \in Place /\ 0 \in 0 .. MaxParentRuns
    BY BoundAssumption DEF Place
  <2>2. QED BY <2>1 DEF IInv, TypeWatch, NoWatch
<1>5. ChildPhases'
  BY DEF IInv, TypeChild, TypeCalls, ChildPhases, Call, Phase, Swept
<1>6. FirstWatcher'
  <2>1. \A d \in Child : cslot'[d] # 1 /\ ~HoldsSlot(d)'
    BY DEF IInv, TypeChild, HoldsSlot, Swept
  <2>2. \A d \in Child : /\ watch'[<<d, 1>>].pc \in {"none", "gone"}
                         /\ watch'[<<d, 1>>].pc # "none" => watch[<<d, 1>>].pc # "none"
    BY FirstRun DEF NoWatch
  <2>3. \A d \in Child : call[d] = "done" => call'[d] = "done"
    BY DEF IInv, TypeChild, ChildPhases
  <2>4. ASSUME NEW d \in Child PROVE Followed(d)'
    BY <2>1, <2>2, <2>3 DEF IInv, FirstWatcher, Followed
  <2>5. QED BY <2>4 DEF FirstWatcher
<1>7. SlotsCounted'
  <2>1. Takers' = {} BY FirstRun DEF IInv, TypeWatch, Takers, NoWatch
  <2>2. QED BY <2>1, FS_EmptySet, CapAssumption DEF SlotsCounted
<1>8. BudgetCounted'
  <2>1. Payers' \subseteq Payers BY DEF IInv, TypeChild, TypeCalls, ChildPhases, Payers
  <2>2. Cardinality(Payers') <= Cardinality(Payers) /\ Cardinality(Payers') \in Nat
    BY <2>1, CountedFinite, FS_Subset, FS_CardinalityType
  <2>3. QED BY <2>2, CountedFinite DEF IInv, TypeCalls, BudgetCounted
<1>9. QED BY <1>1, <1>2, <1>3, <1>4, <1>5, <1>6, <1>7, <1>8 DEF IInv

LEMMA StepInv == IInv /\ [Next]_vars => IInv'
<1> SUFFICES ASSUME IInv, [Next]_vars PROVE IInv' OBVIOUS
<1>1. CASE ParentSteps
  BY <1>1, ParentPublishesInv, ParentExitsInv, ParentRelaunchesInv,
     ParentRegistersInv, ParentForcedInv
  DEF ParentSteps
<1>2. ASSUME NEW c \in Child, Calls(c) PROVE IInv'
  BY <1>2, ChargeInv, ReserveInv, StartChildInv, StartFailsInv, UnreserveInv,
     RefundInv, SpawnWatcherInv DEF Calls
<1>3. ASSUME NEW c \in Child, ChildSteps(c) PROVE IInv'
  BY <1>3, ChildPublishesInv, ChildExitsInv, ChildRelaunchesInv, ChildRegistersInv,
     RearmOnRunInv, RearmOnPauseInv, ChildForcedInv DEF ChildSteps, ChildLaunch
<1>4. ASSUME NEW c \in Child, NEW k \in Run(c), Watches(c, k) PROVE IInv'
  BY <1>4, BeginInv, SelectParentInv, ParentStatusInv, StopChildInv,
     ChildRunEndsInv, SuspendedTickInv, SuspendedParentInv, SuspendedSuccessorInv,
     ReleaseInv DEF Watches
<1>5. CASE UNCHANGED vars
  BY <1>5 DEF vars, parent, child, calls, counters, IInv, TypeParent, TypeChild,
     TypeCalls, TypeWatch, ChildPhases, FirstWatcher, Followed, HoldsSlot,
     SlotsCounted, Takers, BudgetCounted, Payers
<1>6. QED BY <1>1, <1>2, <1>3, <1>4, <1>5, RestartInv DEF Next

\* Every counter stays in range: in particular the slots never become negative
\* and the budget never exceeds subworkflow_max_invocations.
THEOREM TypeCorrect == Spec => []TypeOK
<1>1. QED BY TypeImplied, InitInv, StepInv, PTL DEF Spec

\* The in-memory counter of active children counts exactly the calls that have
\* reserved a slot and not given it back and the counted watchers that still run:
\* no path releases twice or forgets to, so it never becomes negative either.
THEOREM SlotsAreCounted == Spec => []SlotsCounted
<1>1. IInv => SlotsCounted BY DEF IInv
<1>2. QED BY <1>1, InitInv, StepInv, PTL DEF Spec

\* The number of children that hold a slot never exceeds the cap, for every
\* number of children, runs and restarts.
THEOREM CapHolds == Spec => []ConcurrencyCap
<1>1. IInv => ConcurrencyCap
  <2> SUFFICES ASSUME IInv PROVE ConcurrencyCap OBVIOUS
  <2> DEFINE H == {c \in Child : HoldsSlot(c)}
  <2>1. ASSUME NEW c \in Child, HoldsSlot(c) PROVE c \in Takers
    <3>1. call[c] \in {"started", "done"}
      BY <2>1 DEF IInv, TypeChild, ChildPhases, HoldsSlot
    <3>2. QED BY <2>1, <3>1 DEF IInv, FirstWatcher, Followed, Takers
  <2>2. H \subseteq Takers BY <2>1
  <2>3. Cardinality(H) <= Cardinality(Takers) /\ Cardinality(H) \in Nat
    <3> HIDE DEF H
    <3> QED BY <2>2, CountedFinite, FS_Subset, FS_CardinalityType
  <2>4. QED BY <2>3, CountedFinite, CapAssumption DEF IInv, SlotsCounted, ConcurrencyCap
<1>2. QED BY <1>1, InitInv, StepInv, PTL DEF Spec

\* The persisted budget pays for every child that was ever started.
THEOREM BudgetHolds == Spec => []BudgetPays
<1>1. IInv => BudgetPays
  <2> SUFFICES ASSUME IInv PROVE BudgetPays OBVIOUS
  <2> DEFINE H == {c \in Child : cruns[c] > 0}
  <2>1. H \subseteq Payers BY DEF IInv, ChildPhases, Payers
  <2>2. Cardinality(H) <= Cardinality(Payers) /\ Cardinality(H) \in Nat
    <3> HIDE DEF H
    <3> QED BY <2>1, CountedFinite, FS_Subset, FS_CardinalityType
  <2>3. QED BY <2>2, CountedFinite DEF IInv, TypeCalls, BudgetCounted, BudgetPays
<1>2. QED BY <1>1, InitInv, StepInv, PTL DEF Spec

(***************************************************************************)
(* The watcher of the latest run.                                          *)
(***************************************************************************)
Rearming(c) == cphase[c] \in {"rearm", "rearmStatus"}

\* A run has no watcher before its launch spawns one.
NotBefore(c, k) ==
  \/ k > cruns[c]
  \/ k = cruns[c] /\ Rearming(c)
  \/ k = 1 /\ call[c] = "started"
  => watch[<<c, k>>].pc = "none"

\* A watcher that awaits the end of a run does so on that run's own channel...
OwnChannel(c, k) ==
  watch[<<c, k>>].pc \in {"select", "status", "tick", "stop", "childDone"} =>
    (cslot[c] = k => watch[<<c, k>>].childDone = k)

\* ... one that is further on has seen the run end...
RunSeenOver(c, k) ==
  watch[<<c, k>>].pc \in {"suspended", "parentNext", "stopSuspended", "release", "gone"} =>
    cslot[c] # k

\* ... and that of the latest run leaves only with the child: when a suspended
\* child lives on, its watcher stays; when it is relaunched, a new one follows.
LatestStays(c, k) ==
  /\ k = cruns[c] /\ ~Rearming(c) /\ ~(k = 1 /\ call[c] = "started")
  /\ Live(c) /\ c \notin unwatched
  => watch[<<c, k>>].pc \notin {"none", "release", "gone"}

Follows(c, k) ==
  NotBefore(c, k) /\ OwnChannel(c, k) /\ RunSeenOver(c, k) /\ LatestStays(c, k)

AllFollow == \A c \in Child : \A k \in Run(c) : Follows(c, k)

LEMMA RunEndsWatch ==
  ASSUME IInv, NEW c \in Child, NEW k \in Run(c), ChildRunEnds(c, k)
  PROVE  /\ watch'[<<c, k>>].pc = AfterRun(c)
         /\ \A w \in Watcher : w # <<c, k>> => watch'[w] = watch[w]
<1>1. <<c, k>> \in Watcher BY InWatcher
<1>2. QED BY <1>1 DEF ChildRunEnds, IInv, TypeWatch

LEMMA ParentFollow ==
  ASSUME IInv, AllFollow, ParentSteps PROVE AllFollow'
<1>1. UNCHANGED <<child, call, watch, unwatched>>
  BY DEF ParentSteps, ParentPublishes, ParentExits, ParentRelaunches, ParentRegisters,
         ParentForced, calls
<1>2. QED
  BY <1>1 DEF AllFollow, Follows, NotBefore, OwnChannel, RunSeenOver, LatestStays,
              Rearming, Live, child

LEMMA CallsFollow ==
  ASSUME IInv, AllFollow, NEW c \in Child,
         Calls(c)
  PROVE  AllFollow'
<1> SUFFICES ASSUME NEW d \in Child, NEW j \in Run(d) PROVE Follows(d, j)'
  BY DEF AllFollow, Run
<1>1. Follows(d, j) /\ <<d, j>> \in Watcher BY InWatcher DEF AllFollow
<1> USE DEF Follows, NotBefore, OwnChannel, RunSeenOver, LatestStays, Rearming,
      Live, parent, child, calls, counters, StillWatching, Goto, At, NoWatch, IInv,
      TypeChild, TypeCalls, TypeWatch, ChildPhases, Run
<1>2. CASE Charge(c) BY <1>1, <1>2 DEF Charge
<1>3. CASE Reserve(c) BY <1>1, <1>3 DEF Reserve
<1>4. CASE StartChild(c) BY <1>1, <1>4 DEF StartChild
<1>5. CASE StartFails(c) BY <1>1, <1>5 DEF StartFails
<1>6. CASE Unreserve(c) BY <1>1, <1>6 DEF Unreserve
<1>7. CASE Refund(c) BY <1>1, <1>7 DEF Refund
<1>8. CASE SpawnWatcher(c) BY <1>1, <1>8 DEF SpawnWatcher
<1>9. QED BY <1>2, <1>3, <1>4, <1>5, <1>6, <1>7, <1>8 DEF Calls

LEMMA ChildFollow ==
  ASSUME IInv, AllFollow, NEW c \in Child,
         ChildSteps(c)
  PROVE  AllFollow'
<1> SUFFICES ASSUME NEW d \in Child, NEW j \in Run(d) PROVE Follows(d, j)'
  BY DEF AllFollow, Run
<1>1. Follows(d, j) /\ <<d, j>> \in Watcher BY InWatcher DEF AllFollow
<1> USE DEF Follows, NotBefore, OwnChannel, RunSeenOver, LatestStays, Rearming,
      Live, parent, child, calls, counters, StillWatching, Goto, At, NoWatch, IInv,
      TypeChild, TypeCalls, TypeWatch, ChildPhases, Run
<1>2. CASE \E s \in Status : ChildPublishes(c, s) BY <1>1, <1>2 DEF ChildPublishes
<1>3. CASE ChildExits(c) BY <1>1, <1>3 DEF ChildExits
<1>4. CASE ChildRelaunches(c) BY <1>1, <1>4 DEF ChildRelaunches
<1>5. CASE ChildRegisters(c) BY <1>1, <1>5 DEF ChildRegisters
<1>6. CASE RearmOnRun(c)
  <2>1. <<c, cruns[c]>> \in Watcher
    BY <1>6, InWatcher DEF RearmOnRun, Run
  <2>2. CASE pslot # 0
    <3>1. watch' = [watch EXCEPT ![<<c, cruns[c]>>] =
                      [NoWatch EXCEPT !.pc = "begin", !.parentDone = pslot]]
      BY <1>6, <2>2 DEF RearmOnRun
    <3>2. /\ watch'[<<c, cruns[c]>>].pc = "begin"
          /\ <<d, j>> # <<c, cruns[c]>> => watch'[<<d, j>>] = watch[<<d, j>>]
      BY <2>1, <3>1
    <3>3. /\ cphase' = [cphase EXCEPT ![c] = "live"] /\ cruns[c] > 1
          /\ UNCHANGED <<cstatus, cslot, cruns, call, unwatched>>
      BY <1>6, <2>2 DEF RearmOnRun
    <3>4. CASE <<d, j>> = <<c, cruns[c]>>
      BY <1>1, <1>6, <3>2, <3>3, <3>4 DEF RearmOnRun
    <3>5. CASE <<d, j>> # <<c, cruns[c]>>
      BY <1>1, <1>6, <3>2, <3>3, <3>5 DEF RearmOnRun
    <3>6. QED BY <3>4, <3>5
  <2>3. CASE pslot = 0
    BY <1>1, <1>6, <2>3 DEF RearmOnRun
  <2>4. QED BY <2>2, <2>3
<1>7. CASE RearmOnPause(c) BY <1>1, <1>7 DEF RearmOnPause
<1>8. CASE ChildForced(c) BY <1>1, <1>8 DEF ChildForced
<1>9. QED BY <1>2, <1>3, <1>4, <1>5, <1>6, <1>7, <1>8 DEF ChildSteps, ChildLaunch

LEMMA WatchesFollow ==
  ASSUME IInv, AllFollow, NEW c \in Child, NEW k \in Run(c),
         Watches(c, k)
  PROVE  AllFollow'
<1> SUFFICES ASSUME NEW d \in Child, NEW j \in Run(d) PROVE Follows(d, j)'
  BY DEF AllFollow, Run
<1>1. Follows(d, j) /\ <<d, j>> \in Watcher BY InWatcher DEF AllFollow
<1> USE DEF Follows, NotBefore, OwnChannel, RunSeenOver, LatestStays, Rearming,
      Live, parent, child, calls, counters, StillWatching, Goto, At, NoWatch, IInv,
      TypeChild, TypeCalls, TypeWatch, ChildPhases, ChildDone, AfterRun
<1>2. <<c, k>> \in Watcher BY InWatcher
<1>3. CASE Begin(c, k) BY <1>1, <1>2, <1>3 DEF Begin
<1>4. CASE SelectParent(c, k) BY <1>1, <1>2, <1>4 DEF SelectParent
<1>5. CASE ParentStatus(c, k) BY <1>1, <1>2, <1>5 DEF ParentStatus
<1>6. CASE StopChild(c, k)
  <2>1. /\ watch'[<<c, k>>].pc = IF At(c, k, "stop") THEN "childDone" ELSE "release"
        /\ watch'[<<c, k>>].childDone = watch[<<c, k>>].childDone
        /\ <<d, j>> # <<c, k>> => watch'[<<d, j>>] = watch[<<d, j>>]
    BY <1>2, <1>6 DEF StopChild
  <2>2. UNCHANGED <<cslot, cphase, cruns, call, unwatched>> /\ (Live(d)' => Live(d))
    BY <1>6 DEF StopChild
  <2>3. At(c, k, "stopSuspended") /\ k = cruns[c] => ~Live(c)'
    BY <1>1, <1>6 DEF StopChild, AllFollow
  <2>4. QED BY <1>1, <1>6, <2>1, <2>2, <2>3 DEF StopChild
<1>7. CASE ChildRunEnds(c, k)
  <2>1. /\ watch'[<<c, k>>].pc = AfterRun(c)
        /\ <<d, j>> # <<c, k>> => watch'[<<d, j>>] = watch[<<d, j>>]
    BY <1>1, <1>7, RunEndsWatch
  <2>2. UNCHANGED <<cstatus, cslot, cphase, cruns, call, unwatched>>
    BY <1>7 DEF ChildRunEnds
  <2>3. Follows(c, k) BY DEF AllFollow
  <2>4. cslot[c] # k
    BY <1>7, <2>3, FirstRun DEF ChildRunEnds, Run
  <2>5. QED BY <1>1, <1>7, <2>1, <2>2, <2>4 DEF ChildRunEnds
<1>8. CASE SuspendedTick(c, k) BY <1>1, <1>2, <1>8 DEF SuspendedTick
<1>9. CASE SuspendedParent(c, k) BY <1>1, <1>2, <1>9 DEF SuspendedParent
<1>10. CASE SuspendedSuccessor(c, k) BY <1>1, <1>2, <1>10 DEF SuspendedSuccessor
<1>11. CASE Release(c, k) BY <1>1, <1>2, <1>11 DEF Release
<1>12. QED BY <1>3, <1>4, <1>5, <1>6, <1>7, <1>8, <1>9, <1>10, <1>11 DEF Watches

LEMMA RestartFollow ==
  ASSUME IInv, AllFollow, Restart PROVE AllFollow'
<1> SUFFICES ASSUME NEW d \in Child, NEW j \in Run(d) PROVE Follows(d, j)'
  BY DEF AllFollow, Run
<1>1. Follows(d, j) /\ <<d, j>> \in Watcher BY InWatcher DEF AllFollow
<1>2. watch'[<<d, j>>].pc = IF watch[<<d, j>>].pc = "none" THEN "none" ELSE "gone"
  BY <1>1 DEF Restart, NoWatch
<1>3. cslot'[d] = 0 /\ cphase'[d] = "none" /\ cruns' = cruns /\ call'[d] # "started"
  BY DEF Restart
<1>4. Live(d)' => d \in unwatched' BY DEF Restart, Live, Swept, IInv, TypeChild
<1>5. j # 0 BY FirstRun DEF Run
<1>6. QED BY <1>1, <1>2, <1>3, <1>4, <1>5
          DEF Follows, NotBefore, OwnChannel, RunSeenOver, LatestStays, Rearming

LEMMA StepFollow == IInv /\ AllFollow /\ [Next]_vars => AllFollow'
<1> SUFFICES ASSUME IInv, AllFollow, [Next]_vars PROVE AllFollow' OBVIOUS
<1>1. ASSUME NEW c \in Child, Calls(c) \/ ChildSteps(c) PROVE AllFollow'
  BY <1>1, CallsFollow, ChildFollow
<1>2. ASSUME NEW c \in Child, NEW k \in Run(c), Watches(c, k) PROVE AllFollow'
  BY <1>2, WatchesFollow
<1>3. CASE UNCHANGED vars
  BY <1>3 DEF vars, child, calls, AllFollow, Follows, NotBefore, OwnChannel,
              RunSeenOver, LatestStays, Rearming, Live
<1>4. QED BY <1>1, <1>2, <1>3, ParentFollow, RestartFollow DEF Next

LEMMA InitFollow == Init => AllFollow
<1> SUFFICES ASSUME Init, NEW c \in Child, NEW k \in Run(c) PROVE Follows(c, k)
  BY DEF AllFollow
<1>1. <<c, k>> \in Watcher BY InWatcher
<1>2. QED BY <1>1 DEF Init, NoWatch, Follows, NotBefore, OwnChannel, RunSeenOver,
                     LatestStays, Live

\* No child that runs or is suspended is ever without a watcher, through any number
\* of relaunches of child and parent, except where the code itself gives it up.
THEOREM NoneUnwatched == Spec => []Watched
<1>1. IInv /\ AllFollow => Watched
  <2> SUFFICES ASSUME IInv, AllFollow, NEW c \in Child, Live(c), c \notin unwatched,
                      call[c] # "started", ~Rearming(c)
               PROVE  \E k \in Run(c) : watch[<<c, k>>].pc \notin {"none", "gone", "release"}
    BY DEF Watched, Rearming
  <2>1. cruns[c] # 0 BY DEF IInv, ChildPhases, Live
  <2>2. cruns[c] \in Run(c)
    BY <2>1, BoundAssumption DEF IInv, TypeChild, Run
  <2>3. QED BY <2>2 DEF AllFollow, Follows, LatestStays
<1>2. QED BY <1>1, InitInv, StepInv, InitFollow, StepFollow, PTL DEF Spec
=============================================================================
