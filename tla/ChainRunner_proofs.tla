------------------------ MODULE ChainRunner_proofs -------------------------
(***************************************************************************)
(* Theorems about ChainRunner for every number of items, edits, relaunches *)
(* and restarts: the chain is sequential, and no ticket stays locked.      *)
(***************************************************************************)
EXTENDS ChainRunner, Extrema

(***************************************************************************)
(* The inductive invariant.                                                *)
(***************************************************************************)
LoopRegistered == registered <=> pc # "off"

\* Workflow chains have no locks and no edits.
WorkflowFixed ==
  kind = "workflow" => locks = {} /\ editor = "off" /\ canceller # "unlock"

\* A chain is started once: a pending one, also one that a Start request has
\* seen pending, has not touched any of its items.
NotStarted ==
  status = "pending" \/ starter = "lock" =>
    pc = "off" /\ \A i \in Item : item[i] \in {"none", "pending"} /\ inst[i] = "none"

\* What is inserted comes after every item the chain has had.
RoomLeft ==
  /\ editor \in {"append", "update", "updateUnlock", "updateInsert"} => last < MaxItems
  /\ \A i \in Item : i > last => item[i] = "none" /\ inst[i] = "none"
  /\ pc \in {"mark", "start"} => cur <= last

InOrder ==
  \A i, j \in Item :
    i < j /\ inst[j] # "none" => item[i] = "none" \/ inst[i] = "completed"

PendingUntouched == \A i \in Item : item[i] = "pending" => inst[i] = "none"

Done(i) == \/ item[i] \in {"none", "pending"}
           \/ item[i] = "completed" /\ inst[i] = "completed"

\* Between two items everything is done or still to do, and so is everything
\* but the current item while the loop works on it.
Progress ==
  /\ pc \in {"top", "complete"} \/ status = "completed" => \A i \in Item : Done(i)
  /\ pc \in {"mark", "start", "poll", "read"} => \A i \in Item \ {cur} : Done(i)
  /\ status = "completed" => pc \in {"off", "unlock", "exit"}

\* The item about to be started comes after all that were.
NextInLine ==
  /\ pc \in {"mark", "start"} =>
       \A i \in Item : /\ i < cur => item[i] = "none" \/ inst[i] = "completed"
                       /\ i >= cur => inst[i] = "none"
  /\ pc = "start" => item[cur] # "pending"

LocksGo ==
  /\ pc \in {"unlock", "exit"} => status \in Ended
  /\ /\ pc = "exit" \/ (status \in Ended /\ ~registered)
     /\ canceller \notin {"write", "unlock"}
     => locks \subseteq excused

IInv == /\ TypeOK /\ LoopRegistered /\ WorkflowFixed /\ NotStarted /\ RoomLeft
        /\ InOrder /\ PendingUntouched /\ Progress /\ NextInLine /\ LocksGo

\* TypeOK in two parts: the rows and instances, and who is where.
TypeData ==
  /\ kind \in Kind /\ status \in Status
  /\ item \in [Item -> Status \cup {"none"}] /\ locks \subseteq Item
  /\ last \in Item
  /\ inst \in [Item -> Instance] /\ stopped \subseteq Item
  /\ excused \subseteq Item
  /\ relaunches \in 0 .. MaxRelaunch /\ crashes \in 0 .. MaxCrashes

TypePlaces ==
  /\ registered \in BOOLEAN /\ cancelled \in BOOLEAN
  /\ pc \in LoopPc /\ cur \in 0 .. MaxItems
  /\ pc \in {"mark", "start", "poll", "read", "stepCanceled"} => cur \in Item
  /\ starter \in {"off", "lock"}
  /\ canceller \in {"off", "read", "write", "unlock"}
  /\ editor \in {"off", "append", "appendLock", "remove",
                 "update", "updateUnlock", "updateInsert", "updateLock"}

LEMMA TypeParts == TypeOK <=> TypeData /\ TypePlaces
BY DEF TypeOK, TypeData, TypePlaces

\* The loop takes up the first pending item.
LEMMA FirstPending ==
  ASSUME BoundAssumption, NEW S \in SUBSET Item, S # {}
  PROVE  Min(S) \in S /\ \A i \in S : Min(S) <= i
<1>1. S \in SUBSET Nat BY DEF BoundAssumption, Item
<1>2. \E m \in S : \A i \in S : m <= i BY <1>1, LeastNatural
<1>3. QED BY <1>2 DEF Min

LEMMA InitInv == Init => IInv
<1> SUFFICES ASSUME Init PROVE IInv OBVIOUS
<1>1. Initial \in Item BY BoundAssumption DEF Item
<1>2. 1 .. Initial \subseteq Item BY BoundAssumption DEF Item
<1>3. TypeData
  BY <1>1, <1>2, BoundAssumption DEF Init, TypeData, Status, Ended, Instance
<1>4. TypePlaces
  <2>1. 0 \in 0 .. MaxItems BY BoundAssumption
  <2>2. QED BY <2>1 DEF Init, TypePlaces, LoopPc
<1>5. /\ LoopRegistered /\ WorkflowFixed /\ NotStarted /\ RoomLeft /\ InOrder
      /\ PendingUntouched /\ Progress /\ NextInLine
  BY BoundAssumption DEF Init, LoopRegistered, WorkflowFixed, NotStarted, RoomLeft,
     InOrder, PendingUntouched, Progress, Done, NextInLine, Item
<1>6. LocksGo BY DEF Init, LocksGo, Ended
<1>7. QED BY <1>3, <1>4, <1>5, <1>6, TypeParts DEF IInv

LEMMA StartRequestInv == ASSUME IInv, StartRequest PROVE IInv'
<1> USE DEF StartRequest, rows, runs, loop, callers
<1>1. TypeData'
  BY BoundAssumption DEF IInv, TypeOK, TypeData, Item, Status, Ended, Instance, RoomLeft
<1>2. TypePlaces'
  BY BoundAssumption DEF IInv, TypeOK, TypePlaces, LoopPc
<1>3. LoopRegistered' /\ WorkflowFixed'
  BY DEF IInv, TypeOK, LoopRegistered, WorkflowFixed, LoopPc
<1>4. NotStarted' /\ RoomLeft'
  BY BoundAssumption DEF IInv, TypeOK, LoopRegistered, NotStarted, RoomLeft, Item
<1>5. InOrder' /\ PendingUntouched' /\ NextInLine'
  BY BoundAssumption DEF IInv, TypeOK, InOrder, PendingUntouched, NextInLine,
     NotStarted, RoomLeft, Item
<1>6. Progress'
  BY BoundAssumption DEF IInv, TypeOK, Progress, Done, NotStarted, LoopRegistered,
     RoomLeft, LocksGo, Item, Ended
<1>7. LocksGo'
  BY KindAssumption DEF IInv, TypeOK, LoopRegistered, WorkflowFixed, NotStarted,
     LocksGo, Ended, Progress
<1>8. QED BY <1>1, <1>2, <1>3, <1>4, <1>5, <1>6, <1>7, TypeParts DEF IInv, TypeOK,
     TypeData, TypePlaces

LEMMA StartLockedInv == ASSUME IInv, StartLocked PROVE IInv'
<1> USE DEF StartLocked, rows, runs, loop, callers
<1>1. TypeData'
  BY BoundAssumption DEF IInv, TypeOK, TypeData, Item, Status, Ended, Instance, RoomLeft
<1>2. TypePlaces'
  <2>1. 0 \in 0 .. MaxItems BY BoundAssumption
  <2>2. QED BY <2>1 DEF IInv, TypeOK, TypePlaces, LoopPc
<1>3. LoopRegistered' /\ WorkflowFixed'
  BY DEF IInv, TypeOK, LoopRegistered, WorkflowFixed, LoopPc
<1>4. NotStarted' /\ RoomLeft'
  BY BoundAssumption DEF IInv, TypeOK, LoopRegistered, NotStarted, RoomLeft, Item
<1>5. InOrder' /\ PendingUntouched' /\ NextInLine'
  BY BoundAssumption DEF IInv, TypeOK, InOrder, PendingUntouched, NextInLine,
     NotStarted, RoomLeft, Item
<1>6. Progress'
  BY BoundAssumption DEF IInv, TypeOK, Progress, Done, NotStarted, LoopRegistered,
     RoomLeft, LocksGo, Item, Ended
<1>7. LocksGo'
  BY KindAssumption DEF IInv, TypeOK, LoopRegistered, WorkflowFixed, NotStarted,
     LocksGo, Ended, Progress
<1>8. QED BY <1>1, <1>2, <1>3, <1>4, <1>5, <1>6, <1>7, TypeParts DEF IInv, TypeOK,
     TypeData, TypePlaces

LEMMA CancelRequestInv == ASSUME IInv, CancelRequest PROVE IInv'
<1> USE DEF CancelRequest, rows, runs, loop, callers
<1>1. TypeData'
  BY BoundAssumption DEF IInv, TypeOK, TypeData, Item, Status, Ended, Instance, RoomLeft
<1>2. TypePlaces'
  BY BoundAssumption DEF IInv, TypeOK, TypePlaces, LoopPc
<1>3. LoopRegistered' /\ WorkflowFixed'
  BY DEF IInv, TypeOK, LoopRegistered, WorkflowFixed, LoopPc
<1>4. NotStarted' /\ RoomLeft'
  BY BoundAssumption DEF IInv, TypeOK, LoopRegistered, NotStarted, RoomLeft, Item
<1>5. InOrder' /\ PendingUntouched' /\ NextInLine'
  BY BoundAssumption DEF IInv, TypeOK, InOrder, PendingUntouched, NextInLine,
     NotStarted, RoomLeft, Item
<1>6. Progress'
  BY BoundAssumption DEF IInv, TypeOK, Progress, Done, NotStarted, LoopRegistered,
     RoomLeft, LocksGo, Item, Ended
<1>7. LocksGo'
  BY KindAssumption DEF IInv, TypeOK, LoopRegistered, WorkflowFixed, NotStarted,
     LocksGo, Ended, Progress
<1>8. QED BY <1>1, <1>2, <1>3, <1>4, <1>5, <1>6, <1>7, TypeParts DEF IInv, TypeOK,
     TypeData, TypePlaces

LEMMA CancelReadInv == ASSUME IInv, CancelRead PROVE IInv'
<1> USE DEF CancelRead, rows, runs, loop, callers
<1>1. TypeData'
  BY BoundAssumption DEF IInv, TypeOK, TypeData, Item, Status, Ended, Instance, RoomLeft
<1>2. TypePlaces'
  BY BoundAssumption DEF IInv, TypeOK, TypePlaces, LoopPc
<1>3. LoopRegistered' /\ WorkflowFixed'
  BY DEF IInv, TypeOK, LoopRegistered, WorkflowFixed, LoopPc
<1>4. NotStarted' /\ RoomLeft'
  BY BoundAssumption DEF IInv, TypeOK, LoopRegistered, NotStarted, RoomLeft, Item
<1>5. InOrder' /\ PendingUntouched' /\ NextInLine'
  BY BoundAssumption DEF IInv, TypeOK, InOrder, PendingUntouched, NextInLine,
     NotStarted, RoomLeft, Item
<1>6. Progress'
  BY BoundAssumption DEF IInv, TypeOK, Progress, Done, NotStarted, LoopRegistered,
     RoomLeft, LocksGo, Item, Ended
<1>7. LocksGo'
  BY KindAssumption DEF IInv, TypeOK, LoopRegistered, WorkflowFixed, NotStarted,
     LocksGo, Ended, Progress
<1>8. QED BY <1>1, <1>2, <1>3, <1>4, <1>5, <1>6, <1>7, TypeParts DEF IInv, TypeOK,
     TypeData, TypePlaces

LEMMA CancelWriteInv == ASSUME IInv, CancelWrite PROVE IInv'
<1> USE DEF CancelWrite, rows, runs, loop, callers
<1>1. TypeData'
  BY BoundAssumption DEF IInv, TypeOK, TypeData, Item, Status, Ended, Instance, RoomLeft
<1>2. TypePlaces'
  BY BoundAssumption DEF IInv, TypeOK, TypePlaces, LoopPc
<1>3. LoopRegistered' /\ WorkflowFixed'
  BY DEF IInv, TypeOK, LoopRegistered, WorkflowFixed, LoopPc
<1>4. NotStarted' /\ RoomLeft'
  BY BoundAssumption DEF IInv, TypeOK, LoopRegistered, NotStarted, RoomLeft, Item
<1>5. InOrder' /\ PendingUntouched' /\ NextInLine'
  BY BoundAssumption DEF IInv, TypeOK, InOrder, PendingUntouched, NextInLine,
     NotStarted, RoomLeft, Item
<1>6. Progress'
  BY BoundAssumption DEF IInv, TypeOK, Progress, Done, NotStarted, LoopRegistered,
     RoomLeft, LocksGo, Item, Ended
<1>7. LocksGo'
  BY KindAssumption DEF IInv, TypeOK, LoopRegistered, WorkflowFixed, NotStarted,
     LocksGo, Ended, Progress
<1>8. QED BY <1>1, <1>2, <1>3, <1>4, <1>5, <1>6, <1>7, TypeParts DEF IInv, TypeOK,
     TypeData, TypePlaces

LEMMA CancelUnlockInv == ASSUME IInv, CancelUnlock PROVE IInv'
<1> USE DEF CancelUnlock, rows, runs, loop, callers
<1>1. TypeData'
  BY BoundAssumption DEF IInv, TypeOK, TypeData, Item, Status, Ended, Instance, RoomLeft
<1>2. TypePlaces'
  BY BoundAssumption DEF IInv, TypeOK, TypePlaces, LoopPc
<1>3. LoopRegistered' /\ WorkflowFixed'
  BY DEF IInv, TypeOK, LoopRegistered, WorkflowFixed, LoopPc
<1>4. NotStarted' /\ RoomLeft'
  BY BoundAssumption DEF IInv, TypeOK, LoopRegistered, NotStarted, RoomLeft, Item
<1>5. InOrder' /\ PendingUntouched' /\ NextInLine'
  BY BoundAssumption DEF IInv, TypeOK, InOrder, PendingUntouched, NextInLine,
     NotStarted, RoomLeft, Item
<1>6. Progress'
  BY BoundAssumption DEF IInv, TypeOK, Progress, Done, NotStarted, LoopRegistered,
     RoomLeft, LocksGo, Item, Ended
<1>7. LocksGo'
  BY KindAssumption DEF IInv, TypeOK, LoopRegistered, WorkflowFixed, NotStarted,
     LocksGo, Ended, Progress
<1>8. QED BY <1>1, <1>2, <1>3, <1>4, <1>5, <1>6, <1>7, TypeParts DEF IInv, TypeOK,
     TypeData, TypePlaces

LEMMA EditRequestInv == ASSUME IInv, EditRequest PROVE IInv'
<1> USE DEF EditRequest, rows, runs, loop, callers
<1>1. TypeData'
  BY BoundAssumption DEF IInv, TypeOK, TypeData, Item, Status, Ended, Instance, RoomLeft
<1>2. TypePlaces'
  BY BoundAssumption DEF IInv, TypeOK, TypePlaces, LoopPc
<1>3. LoopRegistered' /\ WorkflowFixed'
  BY DEF IInv, TypeOK, LoopRegistered, WorkflowFixed, LoopPc
<1>4. NotStarted' /\ RoomLeft'
  BY BoundAssumption DEF IInv, TypeOK, LoopRegistered, NotStarted, RoomLeft, Item
<1>5. InOrder' /\ PendingUntouched' /\ NextInLine'
  BY BoundAssumption DEF IInv, TypeOK, InOrder, PendingUntouched, NextInLine,
     NotStarted, RoomLeft, Item
<1>6. Progress'
  BY BoundAssumption DEF IInv, TypeOK, Progress, Done, NotStarted, LoopRegistered,
     RoomLeft, LocksGo, Item, Ended
<1>7. LocksGo'
  BY KindAssumption DEF IInv, TypeOK, LoopRegistered, WorkflowFixed, NotStarted,
     LocksGo, Ended, Progress
<1>8. QED BY <1>1, <1>2, <1>3, <1>4, <1>5, <1>6, <1>7, TypeParts DEF IInv, TypeOK,
     TypeData, TypePlaces

LEMMA AppendItemInv == ASSUME IInv, AppendItem PROVE IInv'
<1> USE DEF AppendItem, Insert, rows, runs, loop, callers
<1>1. TypeData'
  BY BoundAssumption DEF IInv, TypeOK, TypeData, Item, Status, Ended, Instance, RoomLeft
<1>2. TypePlaces'
  BY BoundAssumption DEF IInv, TypeOK, TypePlaces, LoopPc
<1>3. LoopRegistered' /\ WorkflowFixed'
  BY DEF IInv, TypeOK, LoopRegistered, WorkflowFixed, LoopPc
<1>4. NotStarted' /\ RoomLeft'
  BY BoundAssumption DEF IInv, TypeOK, LoopRegistered, NotStarted, RoomLeft, Item
<1>5. InOrder' /\ PendingUntouched' /\ NextInLine'
  <2>1. /\ last + 1 \in Item /\ \A i \in Item : i # last + 1 => item'[i] = item[i]
        /\ \A i \in Item : i > last => inst[i] = "none"
        /\ pc \in {"mark", "start"} => cur <= last
    BY BoundAssumption DEF IInv, TypeOK, RoomLeft, Item
  <2>2. \A i, j \in Item : i < j /\ inst[j] # "none" => i # last + 1
    BY <2>1, BoundAssumption DEF IInv, TypeOK, Item
  <2>3. InOrder' BY <2>1, <2>2 DEF IInv, InOrder
  <2>4. PendingUntouched' BY <2>1, BoundAssumption DEF IInv, TypeOK,
     PendingUntouched, Item
  <2>5. NextInLine'
    <3>1. pc \in {"mark", "start"} => \A i \in Item : i <= cur => i # last + 1
      BY <2>1, BoundAssumption DEF IInv, TypeOK, Item
    <3>2. pc = "start" => cur \in Item BY DEF IInv, TypeOK
    <3>3. \A i \in Item : i < cur => i <= cur BY BoundAssumption DEF IInv, TypeOK, Item
    <3>4. pc = "start" => cur <= cur BY BoundAssumption DEF IInv, TypeOK, Item
    <3>5. QED BY <2>1, <3>1, <3>2, <3>3, <3>4 DEF IInv, NextInLine
  <2>6. QED BY <2>3, <2>4, <2>5
<1>6. Progress'
  BY BoundAssumption DEF IInv, TypeOK, Progress, Done, NotStarted, LoopRegistered,
     RoomLeft, LocksGo, Item, Ended
<1>7. LocksGo'
  BY KindAssumption DEF IInv, TypeOK, LoopRegistered, WorkflowFixed, NotStarted,
     LocksGo, Ended, Progress
<1>8. QED BY <1>1, <1>2, <1>3, <1>4, <1>5, <1>6, <1>7, TypeParts DEF IInv, TypeOK,
     TypeData, TypePlaces

LEMMA AppendLockInv == ASSUME IInv, AppendLock PROVE IInv'
<1> USE DEF AppendLock, LockItem, Unlocked, rows, runs, loop, callers
<1>1. TypeData'
  BY BoundAssumption DEF IInv, TypeOK, TypeData, Item, Status, Ended, Instance, RoomLeft
<1>2. TypePlaces'
  BY BoundAssumption DEF IInv, TypeOK, TypePlaces, LoopPc
<1>3. LoopRegistered' /\ WorkflowFixed'
  BY DEF IInv, TypeOK, LoopRegistered, WorkflowFixed, LoopPc
<1>4. NotStarted' /\ RoomLeft'
  BY BoundAssumption DEF IInv, TypeOK, LoopRegistered, NotStarted, RoomLeft, Item
<1>5. InOrder' /\ PendingUntouched' /\ NextInLine'
  BY BoundAssumption DEF IInv, TypeOK, InOrder, PendingUntouched, NextInLine,
     NotStarted, RoomLeft, Item
<1>6. Progress'
  BY BoundAssumption DEF IInv, TypeOK, Progress, Done, NotStarted, LoopRegistered,
     RoomLeft, LocksGo, Item, Ended
<1>7. LocksGo'
  BY KindAssumption DEF IInv, TypeOK, LoopRegistered, WorkflowFixed, NotStarted,
     LocksGo, Ended, Progress
<1>8. QED BY <1>1, <1>2, <1>3, <1>4, <1>5, <1>6, <1>7, TypeParts DEF IInv, TypeOK,
     TypeData, TypePlaces

LEMMA RemoveItemInv == ASSUME IInv, RemoveItem PROVE IInv'
<1> USE DEF RemoveItem, Pending, rows, runs, loop, callers
<1>1. TypeData'
  BY BoundAssumption DEF IInv, TypeOK, TypeData, Item, Status, Ended, Instance, RoomLeft
<1>2. TypePlaces'
  BY BoundAssumption DEF IInv, TypeOK, TypePlaces, LoopPc
<1>3. LoopRegistered' /\ WorkflowFixed'
  BY DEF IInv, TypeOK, LoopRegistered, WorkflowFixed, LoopPc
<1>4. NotStarted' /\ RoomLeft'
  BY BoundAssumption DEF IInv, TypeOK, LoopRegistered, NotStarted, RoomLeft, Item
<1>5. InOrder' /\ PendingUntouched' /\ NextInLine'
  BY BoundAssumption DEF IInv, TypeOK, InOrder, PendingUntouched, NextInLine,
     NotStarted, RoomLeft, Item
<1>6. Progress'
  BY BoundAssumption DEF IInv, TypeOK, Progress, Done, NotStarted, LoopRegistered,
     RoomLeft, LocksGo, Item, Ended
<1>7. LocksGo'
  BY KindAssumption DEF IInv, TypeOK, LoopRegistered, WorkflowFixed, NotStarted,
     LocksGo, Ended, Progress
<1>8. QED BY <1>1, <1>2, <1>3, <1>4, <1>5, <1>6, <1>7, TypeParts DEF IInv, TypeOK,
     TypeData, TypePlaces

LEMMA UpdateDeleteInv == ASSUME IInv, UpdateDelete PROVE IInv'
<1> USE DEF UpdateDelete, rows, runs, loop, callers
<1>1. TypeData'
  BY BoundAssumption DEF IInv, TypeOK, TypeData, Item, Status, Ended, Instance, RoomLeft
<1>2. TypePlaces'
  BY BoundAssumption DEF IInv, TypeOK, TypePlaces, LoopPc
<1>3. LoopRegistered' /\ WorkflowFixed'
  BY DEF IInv, TypeOK, LoopRegistered, WorkflowFixed, LoopPc
<1>4. NotStarted' /\ RoomLeft'
  BY BoundAssumption DEF IInv, TypeOK, LoopRegistered, NotStarted, RoomLeft, Item
<1>5. InOrder' /\ PendingUntouched' /\ NextInLine'
  BY BoundAssumption DEF IInv, TypeOK, InOrder, PendingUntouched, NextInLine,
     NotStarted, RoomLeft, Item
<1>6. Progress'
  BY BoundAssumption DEF IInv, TypeOK, Progress, Done, NotStarted, LoopRegistered,
     RoomLeft, LocksGo, Item, Ended
<1>7. LocksGo'
  BY KindAssumption DEF IInv, TypeOK, LoopRegistered, WorkflowFixed, NotStarted,
     LocksGo, Ended, Progress
<1>8. QED BY <1>1, <1>2, <1>3, <1>4, <1>5, <1>6, <1>7, TypeParts DEF IInv, TypeOK,
     TypeData, TypePlaces

LEMMA UpdateUnlockInv == ASSUME IInv, UpdateUnlock PROVE IInv'
<1> USE DEF UpdateUnlock, rows, runs, loop, callers
<1>1. TypeData'
  BY BoundAssumption DEF IInv, TypeOK, TypeData, Item, Status, Ended, Instance, RoomLeft
<1>2. TypePlaces'
  BY BoundAssumption DEF IInv, TypeOK, TypePlaces, LoopPc
<1>3. LoopRegistered' /\ WorkflowFixed'
  BY DEF IInv, TypeOK, LoopRegistered, WorkflowFixed, LoopPc
<1>4. NotStarted' /\ RoomLeft'
  BY BoundAssumption DEF IInv, TypeOK, LoopRegistered, NotStarted, RoomLeft, Item
<1>5. InOrder' /\ PendingUntouched' /\ NextInLine'
  BY BoundAssumption DEF IInv, TypeOK, InOrder, PendingUntouched, NextInLine,
     NotStarted, RoomLeft, Item
<1>6. Progress'
  BY BoundAssumption DEF IInv, TypeOK, Progress, Done, NotStarted, LoopRegistered,
     RoomLeft, LocksGo, Item, Ended
<1>7. LocksGo'
  BY KindAssumption DEF IInv, TypeOK, LoopRegistered, WorkflowFixed, NotStarted,
     LocksGo, Ended, Progress
<1>8. QED BY <1>1, <1>2, <1>3, <1>4, <1>5, <1>6, <1>7, TypeParts DEF IInv, TypeOK,
     TypeData, TypePlaces

LEMMA UpdateInsertInv == ASSUME IInv, UpdateInsert PROVE IInv'
<1> USE DEF UpdateInsert, Insert, rows, runs, loop, callers
<1>1. TypeData'
  BY BoundAssumption DEF IInv, TypeOK, TypeData, Item, Status, Ended, Instance, RoomLeft
<1>2. TypePlaces'
  BY BoundAssumption DEF IInv, TypeOK, TypePlaces, LoopPc
<1>3. LoopRegistered' /\ WorkflowFixed'
  BY DEF IInv, TypeOK, LoopRegistered, WorkflowFixed, LoopPc
<1>4. NotStarted' /\ RoomLeft'
  BY BoundAssumption DEF IInv, TypeOK, LoopRegistered, NotStarted, RoomLeft, Item
<1>5. InOrder' /\ PendingUntouched' /\ NextInLine'
  <2>1. /\ last + 1 \in Item /\ \A i \in Item : i # last + 1 => item'[i] = item[i]
        /\ \A i \in Item : i > last => inst[i] = "none"
        /\ pc \in {"mark", "start"} => cur <= last
    BY BoundAssumption DEF IInv, TypeOK, RoomLeft, Item
  <2>2. \A i, j \in Item : i < j /\ inst[j] # "none" => i # last + 1
    BY <2>1, BoundAssumption DEF IInv, TypeOK, Item
  <2>3. InOrder' BY <2>1, <2>2 DEF IInv, InOrder
  <2>4. PendingUntouched' BY <2>1, BoundAssumption DEF IInv, TypeOK,
     PendingUntouched, Item
  <2>5. NextInLine'
    <3>1. pc \in {"mark", "start"} => \A i \in Item : i <= cur => i # last + 1
      BY <2>1, BoundAssumption DEF IInv, TypeOK, Item
    <3>2. pc = "start" => cur \in Item BY DEF IInv, TypeOK
    <3>3. \A i \in Item : i < cur => i <= cur BY BoundAssumption DEF IInv, TypeOK, Item
    <3>4. pc = "start" => cur <= cur BY BoundAssumption DEF IInv, TypeOK, Item
    <3>5. QED BY <2>1, <3>1, <3>2, <3>3, <3>4 DEF IInv, NextInLine
  <2>6. QED BY <2>3, <2>4, <2>5
<1>6. Progress'
  BY BoundAssumption DEF IInv, TypeOK, Progress, Done, NotStarted, LoopRegistered,
     RoomLeft, LocksGo, Item, Ended
<1>7. LocksGo'
  BY KindAssumption DEF IInv, TypeOK, LoopRegistered, WorkflowFixed, NotStarted,
     LocksGo, Ended, Progress
<1>8. QED BY <1>1, <1>2, <1>3, <1>4, <1>5, <1>6, <1>7, TypeParts DEF IInv, TypeOK,
     TypeData, TypePlaces

LEMMA UpdateLockInv == ASSUME IInv, UpdateLock PROVE IInv'
<1> USE DEF UpdateLock, LockItem, Unlocked, rows, runs, loop, callers
<1>1. TypeData'
  BY BoundAssumption DEF IInv, TypeOK, TypeData, Item, Status, Ended, Instance, RoomLeft
<1>2. TypePlaces'
  BY BoundAssumption DEF IInv, TypeOK, TypePlaces, LoopPc
<1>3. LoopRegistered' /\ WorkflowFixed'
  BY DEF IInv, TypeOK, LoopRegistered, WorkflowFixed, LoopPc
<1>4. NotStarted' /\ RoomLeft'
  BY BoundAssumption DEF IInv, TypeOK, LoopRegistered, NotStarted, RoomLeft, Item
<1>5. InOrder' /\ PendingUntouched' /\ NextInLine'
  BY BoundAssumption DEF IInv, TypeOK, InOrder, PendingUntouched, NextInLine,
     NotStarted, RoomLeft, Item
<1>6. Progress'
  BY BoundAssumption DEF IInv, TypeOK, Progress, Done, NotStarted, LoopRegistered,
     RoomLeft, LocksGo, Item, Ended
<1>7. LocksGo'
  BY KindAssumption DEF IInv, TypeOK, LoopRegistered, WorkflowFixed, NotStarted,
     LocksGo, Ended, Progress
<1>8. QED BY <1>1, <1>2, <1>3, <1>4, <1>5, <1>6, <1>7, TypeParts DEF IInv, TypeOK,
     TypeData, TypePlaces

LEMMA TopInv == ASSUME IInv, Top PROVE IInv'
<1> USE DEF Top, Pending, rows, runs, loop, callers
<1>1. TypeData'
  BY BoundAssumption DEF IInv, TypeOK, TypeData, Item, Status, Ended, Instance, RoomLeft
<1>2. TypePlaces'
  <2>1. CASE pc' = "mark"
    <3>1. Min(Pending) \in Item BY <2>1, BoundAssumption, FirstPending
    <3>2. cur' \in Item /\ cur' \in 0 .. MaxItems
      BY <2>1, <3>1, BoundAssumption DEF Item
    <3>3. QED BY <2>1, <3>2 DEF IInv, TypeOK, TypePlaces, LoopPc
  <2>2. CASE pc' # "mark"
    BY <2>2 DEF IInv, TypeOK, TypePlaces, LoopPc
  <2>3. QED BY <2>1, <2>2
<1>3. LoopRegistered' /\ WorkflowFixed'
  BY DEF IInv, TypeOK, LoopRegistered, WorkflowFixed, LoopPc
<1>4. NotStarted' /\ RoomLeft'
  <2>1. NotStarted' BY DEF IInv, LoopRegistered, NotStarted
  <2>2. CASE pc' = "mark"
    <3>1. cur' \in Item /\ item[cur'] = "pending" BY <2>2, BoundAssumption, FirstPending
    <3>2. ~ (cur' > last) BY <3>1 DEF IInv, RoomLeft
    <3>3. cur' <= last BY <3>1, <3>2, BoundAssumption DEF IInv, TypeOK, Item
    <3>4. QED BY <2>1, <2>2, <3>3 DEF IInv, RoomLeft
  <2>3. CASE pc' # "mark" BY <2>1, <2>3 DEF IInv, RoomLeft
  <2>4. QED BY <2>2, <2>3
<1>5. InOrder' /\ PendingUntouched' /\ NextInLine'
  <2>1. InOrder' /\ PendingUntouched'
    BY DEF IInv, InOrder, PendingUntouched
  <2>2. CASE pc' = "mark"
    <3>1. /\ cur' \in Item /\ item[cur'] = "pending"
          /\ \A i \in Item : item[i] = "pending" => cur' <= i
      BY <2>2, BoundAssumption, FirstPending
    <3>2. \A i \in Item : i < cur' => item[i] = "none" \/ inst[i] = "completed"
      <4>1. \A i \in Item : i < cur' => item[i] # "pending"
        BY <3>1, BoundAssumption DEF Item
      <4>2. QED BY <4>1, <2>2 DEF IInv, Progress, Done
    <3>3. inst[cur'] = "none" BY <3>1 DEF IInv, PendingUntouched
    <3>4. \A i \in Item : cur' < i => inst[i] = "none"
      BY <3>1, <3>3 DEF IInv, InOrder
    <3>5. \A i \in Item : i >= cur' => i = cur' \/ cur' < i
      BY <3>1, BoundAssumption DEF Item
    <3>6. QED BY <2>1, <2>2, <3>2, <3>3, <3>4, <3>5 DEF NextInLine
  <2>3. CASE pc' # "mark"
    BY <2>1, <2>3 DEF NextInLine
  <2>4. QED BY <2>2, <2>3
<1>6. Progress'
  BY BoundAssumption DEF IInv, TypeOK, Progress, Done, NotStarted, LoopRegistered,
     RoomLeft, LocksGo, Item, Ended
<1>7. LocksGo'
  BY KindAssumption DEF IInv, TypeOK, LoopRegistered, WorkflowFixed, NotStarted,
     LocksGo, Ended, Progress
<1>8. QED BY <1>1, <1>2, <1>3, <1>4, <1>5, <1>6, <1>7, TypeParts DEF IInv, TypeOK,
     TypeData, TypePlaces

LEMMA MarkInv == ASSUME IInv, Mark PROVE IInv'
<1> USE DEF Mark, SetItem, rows, runs, loop, callers
<1>1. TypeData'
  BY BoundAssumption DEF IInv, TypeOK, TypeData, Item, Status, Ended, Instance, RoomLeft
<1>2. TypePlaces'
  BY BoundAssumption DEF IInv, TypeOK, TypePlaces, LoopPc
<1>3. LoopRegistered' /\ WorkflowFixed'
  BY DEF IInv, TypeOK, LoopRegistered, WorkflowFixed, LoopPc
<1>4. NotStarted' /\ RoomLeft'
  BY BoundAssumption DEF IInv, TypeOK, LoopRegistered, NotStarted, RoomLeft, Item
<1>5. InOrder' /\ PendingUntouched' /\ NextInLine'
  BY BoundAssumption DEF IInv, TypeOK, InOrder, PendingUntouched, NextInLine,
     NotStarted, RoomLeft, Item
<1>6. Progress'
  BY BoundAssumption DEF IInv, TypeOK, Progress, Done, NotStarted, LoopRegistered,
     RoomLeft, LocksGo, Item, Ended
<1>7. LocksGo'
  BY KindAssumption DEF IInv, TypeOK, LoopRegistered, WorkflowFixed, NotStarted,
     LocksGo, Ended, Progress
<1>8. QED BY <1>1, <1>2, <1>3, <1>4, <1>5, <1>6, <1>7, TypeParts DEF IInv, TypeOK,
     TypeData, TypePlaces

LEMMA StartInstanceInv == ASSUME IInv, StartInstance PROVE IInv'
<1> USE DEF StartInstance, rows, runs, loop, callers
<1>1. TypeData'
  BY BoundAssumption DEF IInv, TypeOK, TypeData, Item, Status, Ended, Instance, RoomLeft
<1>2. TypePlaces'
  BY BoundAssumption DEF IInv, TypeOK, TypePlaces, LoopPc
<1>3. LoopRegistered' /\ WorkflowFixed'
  BY DEF IInv, TypeOK, LoopRegistered, WorkflowFixed, LoopPc
<1>4. NotStarted' /\ RoomLeft'
  BY BoundAssumption DEF IInv, TypeOK, LoopRegistered, NotStarted, RoomLeft, Item
<1>5. InOrder' /\ PendingUntouched' /\ NextInLine'
  <2>1. /\ cur \in Item /\ \A i \in Item : i # cur => inst'[i] = inst[i]
        /\ inst[cur] = "none" /\ item[cur] # "pending"
    BY BoundAssumption DEF IInv, TypeOK, NextInLine, Item
  <2>2. \A j \in Item : cur < j => inst'[j] = "none"
    BY <2>1, BoundAssumption DEF IInv, TypeOK, NextInLine, Item
  <2>3. \A i \in Item : i < cur => i # cur
    BY <2>1, BoundAssumption DEF Item
  <2>4. InOrder' BY <2>1, <2>2, <2>3 DEF IInv, InOrder, NextInLine
  <2>5. PendingUntouched' /\ NextInLine'
    BY <2>1 DEF IInv, PendingUntouched, NextInLine
  <2>6. QED BY <2>4, <2>5
<1>6. Progress'
  BY BoundAssumption DEF IInv, TypeOK, Progress, Done, NotStarted, LoopRegistered,
     RoomLeft, LocksGo, Item, Ended
<1>7. LocksGo'
  BY KindAssumption DEF IInv, TypeOK, LoopRegistered, WorkflowFixed, NotStarted,
     LocksGo, Ended, Progress
<1>8. QED BY <1>1, <1>2, <1>3, <1>4, <1>5, <1>6, <1>7, TypeParts DEF IInv, TypeOK,
     TypeData, TypePlaces

LEMMA StartFailsInv == ASSUME IInv, StartFails PROVE IInv'
<1> USE DEF StartFails, SetItem, rows, runs, loop, callers
<1>1. TypeData'
  BY BoundAssumption DEF IInv, TypeOK, TypeData, Item, Status, Ended, Instance, RoomLeft
<1>2. TypePlaces'
  BY BoundAssumption DEF IInv, TypeOK, TypePlaces, LoopPc
<1>3. LoopRegistered' /\ WorkflowFixed'
  BY DEF IInv, TypeOK, LoopRegistered, WorkflowFixed, LoopPc
<1>4. NotStarted' /\ RoomLeft'
  BY BoundAssumption DEF IInv, TypeOK, LoopRegistered, NotStarted, RoomLeft, Item
<1>5. InOrder' /\ PendingUntouched' /\ NextInLine'
  BY BoundAssumption DEF IInv, TypeOK, InOrder, PendingUntouched, NextInLine,
     NotStarted, RoomLeft, Item
<1>6. Progress'
  BY BoundAssumption DEF IInv, TypeOK, Progress, Done, NotStarted, LoopRegistered,
     RoomLeft, LocksGo, Item, Ended
<1>7. LocksGo'
  BY KindAssumption DEF IInv, TypeOK, LoopRegistered, WorkflowFixed, NotStarted,
     LocksGo, Ended, Progress
<1>8. QED BY <1>1, <1>2, <1>3, <1>4, <1>5, <1>6, <1>7, TypeParts DEF IInv, TypeOK,
     TypeData, TypePlaces

LEMMA PollCancelledInv == ASSUME IInv, PollCancelled PROVE IInv'
<1> USE DEF PollCancelled, AfterCancelledPoll, rows, runs, loop, callers
<1>1. TypeData'
  BY BoundAssumption DEF IInv, TypeOK, TypeData, Item, Status, Ended, Instance, RoomLeft
<1>2. TypePlaces'
  BY BoundAssumption DEF IInv, TypeOK, TypePlaces, LoopPc
<1>3. LoopRegistered' /\ WorkflowFixed'
  BY DEF IInv, TypeOK, LoopRegistered, WorkflowFixed, LoopPc
<1>4. NotStarted' /\ RoomLeft'
  BY BoundAssumption DEF IInv, TypeOK, LoopRegistered, NotStarted, RoomLeft, Item
<1>5. InOrder' /\ PendingUntouched' /\ NextInLine'
  BY BoundAssumption DEF IInv, TypeOK, InOrder, PendingUntouched, NextInLine,
     NotStarted, RoomLeft, Item
<1>6. Progress'
  BY BoundAssumption DEF IInv, TypeOK, Progress, Done, NotStarted, LoopRegistered,
     RoomLeft, LocksGo, Item, Ended
<1>7. LocksGo'
  BY KindAssumption DEF IInv, TypeOK, LoopRegistered, WorkflowFixed, NotStarted,
     LocksGo, Ended, Progress
<1>8. QED BY <1>1, <1>2, <1>3, <1>4, <1>5, <1>6, <1>7, TypeParts DEF IInv, TypeOK,
     TypeData, TypePlaces

LEMMA PollTickInv == ASSUME IInv, PollTick PROVE IInv'
<1> USE DEF PollTick, rows, runs, loop, callers
<1>1. TypeData'
  BY BoundAssumption DEF IInv, TypeOK, TypeData, Item, Status, Ended, Instance, RoomLeft
<1>2. TypePlaces'
  BY BoundAssumption DEF IInv, TypeOK, TypePlaces, LoopPc
<1>3. LoopRegistered' /\ WorkflowFixed'
  BY DEF IInv, TypeOK, LoopRegistered, WorkflowFixed, LoopPc
<1>4. NotStarted' /\ RoomLeft'
  BY BoundAssumption DEF IInv, TypeOK, LoopRegistered, NotStarted, RoomLeft, Item
<1>5. InOrder' /\ PendingUntouched' /\ NextInLine'
  BY BoundAssumption DEF IInv, TypeOK, InOrder, PendingUntouched, NextInLine,
     NotStarted, RoomLeft, Item
<1>6. Progress'
  BY BoundAssumption DEF IInv, TypeOK, Progress, Done, NotStarted, LoopRegistered,
     RoomLeft, LocksGo, Item, Ended
<1>7. LocksGo'
  BY KindAssumption DEF IInv, TypeOK, LoopRegistered, WorkflowFixed, NotStarted,
     LocksGo, Ended, Progress
<1>8. QED BY <1>1, <1>2, <1>3, <1>4, <1>5, <1>6, <1>7, TypeParts DEF IInv, TypeOK,
     TypeData, TypePlaces

LEMMA ReadOutcomeInv == ASSUME IInv, ReadOutcome PROVE IInv'
<1> USE DEF ReadOutcome, SetItem, OutcomeOf, Succeeded, rows, runs, loop, callers
<1>1. TypeData'
  BY BoundAssumption DEF IInv, TypeOK, TypeData, Item, Status, Ended, Instance, RoomLeft
<1>2. TypePlaces'
  BY BoundAssumption DEF IInv, TypeOK, TypePlaces, LoopPc
<1>3. LoopRegistered' /\ WorkflowFixed'
  BY DEF IInv, TypeOK, LoopRegistered, WorkflowFixed, LoopPc
<1>4. NotStarted' /\ RoomLeft'
  BY BoundAssumption DEF IInv, TypeOK, LoopRegistered, NotStarted, RoomLeft, Item
<1>5. InOrder' /\ PendingUntouched' /\ NextInLine'
  BY BoundAssumption DEF IInv, TypeOK, InOrder, PendingUntouched, NextInLine,
     NotStarted, RoomLeft, Item
<1>6. Progress'
  BY BoundAssumption DEF IInv, TypeOK, Progress, Done, NotStarted, LoopRegistered,
     RoomLeft, LocksGo, Item, Ended
<1>7. LocksGo'
  BY KindAssumption DEF IInv, TypeOK, LoopRegistered, WorkflowFixed, NotStarted,
     LocksGo, Ended, Progress
<1>8. QED BY <1>1, <1>2, <1>3, <1>4, <1>5, <1>6, <1>7, TypeParts DEF IInv, TypeOK,
     TypeData, TypePlaces

LEMMA StepCanceledInv == ASSUME IInv, StepCanceled PROVE IInv'
<1> USE DEF StepCanceled, SetItem, rows, runs, loop, callers
<1>1. TypeData'
  BY BoundAssumption DEF IInv, TypeOK, TypeData, Item, Status, Ended, Instance, RoomLeft
<1>2. TypePlaces'
  BY BoundAssumption DEF IInv, TypeOK, TypePlaces, LoopPc
<1>3. LoopRegistered' /\ WorkflowFixed'
  BY DEF IInv, TypeOK, LoopRegistered, WorkflowFixed, LoopPc
<1>4. NotStarted' /\ RoomLeft'
  BY BoundAssumption DEF IInv, TypeOK, LoopRegistered, NotStarted, RoomLeft, Item
<1>5. InOrder' /\ PendingUntouched' /\ NextInLine'
  BY BoundAssumption DEF IInv, TypeOK, InOrder, PendingUntouched, NextInLine,
     NotStarted, RoomLeft, Item
<1>6. Progress'
  BY BoundAssumption DEF IInv, TypeOK, Progress, Done, NotStarted, LoopRegistered,
     RoomLeft, LocksGo, Item, Ended
<1>7. LocksGo'
  BY KindAssumption DEF IInv, TypeOK, LoopRegistered, WorkflowFixed, NotStarted,
     LocksGo, Ended, Progress
<1>8. QED BY <1>1, <1>2, <1>3, <1>4, <1>5, <1>6, <1>7, TypeParts DEF IInv, TypeOK,
     TypeData, TypePlaces

LEMMA CancelItemsInv == ASSUME IInv, CancelItems PROVE IInv'
<1> USE DEF CancelItems, Canceled, Pending, rows, runs, loop, callers
<1>1. TypeData'
  BY BoundAssumption DEF IInv, TypeOK, TypeData, Item, Status, Ended, Instance, RoomLeft
<1>2. TypePlaces'
  BY BoundAssumption DEF IInv, TypeOK, TypePlaces, LoopPc
<1>3. LoopRegistered' /\ WorkflowFixed'
  BY DEF IInv, TypeOK, LoopRegistered, WorkflowFixed, LoopPc
<1>4. NotStarted' /\ RoomLeft'
  BY BoundAssumption DEF IInv, TypeOK, LoopRegistered, NotStarted, RoomLeft, Item
<1>5. InOrder' /\ PendingUntouched' /\ NextInLine'
  BY BoundAssumption DEF IInv, TypeOK, InOrder, PendingUntouched, NextInLine,
     NotStarted, RoomLeft, Item
<1>6. Progress'
  BY BoundAssumption DEF IInv, TypeOK, Progress, Done, NotStarted, LoopRegistered,
     RoomLeft, LocksGo, Item, Ended
<1>7. LocksGo'
  BY KindAssumption DEF IInv, TypeOK, LoopRegistered, WorkflowFixed, NotStarted,
     LocksGo, Ended, Progress
<1>8. QED BY <1>1, <1>2, <1>3, <1>4, <1>5, <1>6, <1>7, TypeParts DEF IInv, TypeOK,
     TypeData, TypePlaces

LEMMA FailItemsInv == ASSUME IInv, FailItems PROVE IInv'
<1> USE DEF FailItems, Canceled, Pending, rows, runs, loop, callers
<1>1. TypeData'
  BY BoundAssumption DEF IInv, TypeOK, TypeData, Item, Status, Ended, Instance, RoomLeft
<1>2. TypePlaces'
  BY BoundAssumption DEF IInv, TypeOK, TypePlaces, LoopPc
<1>3. LoopRegistered' /\ WorkflowFixed'
  BY DEF IInv, TypeOK, LoopRegistered, WorkflowFixed, LoopPc
<1>4. NotStarted' /\ RoomLeft'
  BY BoundAssumption DEF IInv, TypeOK, LoopRegistered, NotStarted, RoomLeft, Item
<1>5. InOrder' /\ PendingUntouched' /\ NextInLine'
  BY BoundAssumption DEF IInv, TypeOK, InOrder, PendingUntouched, NextInLine,
     NotStarted, RoomLeft, Item
<1>6. Progress'
  BY BoundAssumption DEF IInv, TypeOK, Progress, Done, NotStarted, LoopRegistered,
     RoomLeft, LocksGo, Item, Ended
<1>7. LocksGo'
  BY KindAssumption DEF IInv, TypeOK, LoopRegistered, WorkflowFixed, NotStarted,
     LocksGo, Ended, Progress
<1>8. QED BY <1>1, <1>2, <1>3, <1>4, <1>5, <1>6, <1>7, TypeParts DEF IInv, TypeOK,
     TypeData, TypePlaces

LEMMA WriteStatusInv == ASSUME IInv, WriteStatus PROVE IInv'
<1> USE DEF WriteStatus, AfterEnd, rows, runs, loop, callers
<1>1. TypeData'
  BY BoundAssumption DEF IInv, TypeOK, TypeData, Item, Status, Ended, Instance, RoomLeft
<1>2. TypePlaces'
  BY BoundAssumption DEF IInv, TypeOK, TypePlaces, LoopPc
<1>3. LoopRegistered' /\ WorkflowFixed'
  BY DEF IInv, TypeOK, LoopRegistered, WorkflowFixed, LoopPc
<1>4. NotStarted' /\ RoomLeft'
  BY BoundAssumption DEF IInv, TypeOK, LoopRegistered, NotStarted, RoomLeft, Item
<1>5. InOrder' /\ PendingUntouched' /\ NextInLine'
  BY BoundAssumption DEF IInv, TypeOK, InOrder, PendingUntouched, NextInLine,
     NotStarted, RoomLeft, Item
<1>6. Progress'
  BY BoundAssumption DEF IInv, TypeOK, Progress, Done, NotStarted, LoopRegistered,
     RoomLeft, LocksGo, Item, Ended
<1>7. LocksGo'
  BY KindAssumption DEF IInv, TypeOK, LoopRegistered, WorkflowFixed, NotStarted,
     LocksGo, Ended, Progress
<1>8. QED BY <1>1, <1>2, <1>3, <1>4, <1>5, <1>6, <1>7, TypeParts DEF IInv, TypeOK,
     TypeData, TypePlaces

LEMMA UnlockInv == ASSUME IInv, Unlock PROVE IInv'
<1> USE DEF Unlock, rows, runs, loop, callers
<1>1. TypeData'
  BY BoundAssumption DEF IInv, TypeOK, TypeData, Item, Status, Ended, Instance, RoomLeft
<1>2. TypePlaces'
  BY BoundAssumption DEF IInv, TypeOK, TypePlaces, LoopPc
<1>3. LoopRegistered' /\ WorkflowFixed'
  BY DEF IInv, TypeOK, LoopRegistered, WorkflowFixed, LoopPc
<1>4. NotStarted' /\ RoomLeft'
  BY BoundAssumption DEF IInv, TypeOK, LoopRegistered, NotStarted, RoomLeft, Item
<1>5. InOrder' /\ PendingUntouched' /\ NextInLine'
  BY BoundAssumption DEF IInv, TypeOK, InOrder, PendingUntouched, NextInLine,
     NotStarted, RoomLeft, Item
<1>6. Progress'
  BY BoundAssumption DEF IInv, TypeOK, Progress, Done, NotStarted, LoopRegistered,
     RoomLeft, LocksGo, Item, Ended
<1>7. LocksGo'
  BY KindAssumption DEF IInv, TypeOK, LoopRegistered, WorkflowFixed, NotStarted,
     LocksGo, Ended, Progress
<1>8. QED BY <1>1, <1>2, <1>3, <1>4, <1>5, <1>6, <1>7, TypeParts DEF IInv, TypeOK,
     TypeData, TypePlaces

LEMMA ExitInv == ASSUME IInv, Exit PROVE IInv'
<1> USE DEF Exit, rows, runs, loop, callers
<1>1. TypeData'
  BY BoundAssumption DEF IInv, TypeOK, TypeData, Item, Status, Ended, Instance, RoomLeft
<1>2. TypePlaces'
  <2>1. 0 \in 0 .. MaxItems BY BoundAssumption
  <2>2. QED BY <2>1 DEF IInv, TypeOK, TypePlaces, LoopPc
<1>3. LoopRegistered' /\ WorkflowFixed'
  BY DEF IInv, TypeOK, LoopRegistered, WorkflowFixed, LoopPc
<1>4. NotStarted' /\ RoomLeft'
  BY BoundAssumption DEF IInv, TypeOK, LoopRegistered, NotStarted, RoomLeft, Item
<1>5. InOrder' /\ PendingUntouched' /\ NextInLine'
  BY BoundAssumption DEF IInv, TypeOK, InOrder, PendingUntouched, NextInLine,
     NotStarted, RoomLeft, Item
<1>6. Progress'
  BY BoundAssumption DEF IInv, TypeOK, Progress, Done, NotStarted, LoopRegistered,
     RoomLeft, LocksGo, Item, Ended
<1>7. LocksGo'
  BY KindAssumption DEF IInv, TypeOK, LoopRegistered, WorkflowFixed, NotStarted,
     LocksGo, Ended, Progress
<1>8. QED BY <1>1, <1>2, <1>3, <1>4, <1>5, <1>6, <1>7, TypeParts DEF IInv, TypeOK,
     TypeData, TypePlaces

LEMMA RestartInv == ASSUME IInv, Restart PROVE IInv'
<1> USE DEF Restart, Canceled, rows, runs, loop, callers
<1>1. TypeData'
  <2>1. crashes' \in 0 .. MaxCrashes BY BoundAssumption DEF IInv, TypeOK
  <2>2. status' \in Status /\ item' \in [Item -> Status \cup {"none"}]
    BY DEF IInv, TypeOK, Status, Ended
  <2>3. inst' \in [Item -> Instance] BY DEF IInv, TypeOK, Instance
  <2>4. locks' \subseteq Item /\ excused' \subseteq Item /\ stopped' \subseteq Item
    BY DEF IInv, TypeOK
  <2>5. UNCHANGED <<kind, last, relaunches>> OBVIOUS
  <2>6. QED BY <2>1, <2>2, <2>3, <2>4, <2>5 DEF IInv, TypeOK, TypeData
<1>2. TypePlaces'
  <2>1. 0 \in 0 .. MaxItems BY BoundAssumption
  <2>2. QED BY <2>1 DEF IInv, TypeOK, TypePlaces, LoopPc
<1>3. LoopRegistered' /\ WorkflowFixed'
  BY DEF IInv, TypeOK, LoopRegistered, WorkflowFixed, LoopPc
<1>4. NotStarted' /\ RoomLeft'
  BY BoundAssumption DEF IInv, TypeOK, LoopRegistered, NotStarted, RoomLeft, Item
<1>5. InOrder' /\ PendingUntouched' /\ NextInLine'
  BY BoundAssumption DEF IInv, TypeOK, InOrder, PendingUntouched, NextInLine,
     NotStarted, RoomLeft, Item
<1>6. Progress'
  BY BoundAssumption DEF IInv, TypeOK, Progress, Done, NotStarted, LoopRegistered,
     RoomLeft, LocksGo, Item, Ended
<1>7. LocksGo'
  BY KindAssumption DEF IInv, TypeOK, LoopRegistered, WorkflowFixed, NotStarted,
     LocksGo, Ended, Progress
<1>8. QED BY <1>1, <1>2, <1>3, <1>4, <1>5, <1>6, <1>7, TypeParts DEF IInv, TypeOK,
     TypeData, TypePlaces

LEMMA InstanceEndsInv == ASSUME IInv, NEW i \in Item, InstanceEnds(i) PROVE IInv'
<1> USE DEF InstanceEnds, rows, runs, loop, callers
<1>1. TypeData'
  BY BoundAssumption DEF IInv, TypeOK, TypeData, Item, Status, Ended, Instance, RoomLeft
<1>2. TypePlaces'
  BY BoundAssumption DEF IInv, TypeOK, TypePlaces, LoopPc
<1>3. LoopRegistered' /\ WorkflowFixed'
  BY DEF IInv, TypeOK, LoopRegistered, WorkflowFixed, LoopPc
<1>4. NotStarted' /\ RoomLeft'
  BY BoundAssumption DEF IInv, TypeOK, LoopRegistered, NotStarted, RoomLeft, Item
<1>5. InOrder' /\ PendingUntouched' /\ NextInLine'
  BY BoundAssumption DEF IInv, TypeOK, InOrder, PendingUntouched, NextInLine,
     NotStarted, RoomLeft, Item
<1>6. Progress'
  BY BoundAssumption DEF IInv, TypeOK, Progress, Done, NotStarted, LoopRegistered,
     RoomLeft, LocksGo, Item, Ended
<1>7. LocksGo'
  BY KindAssumption DEF IInv, TypeOK, LoopRegistered, WorkflowFixed, NotStarted,
     LocksGo, Ended, Progress
<1>8. QED BY <1>1, <1>2, <1>3, <1>4, <1>5, <1>6, <1>7, TypeParts DEF IInv, TypeOK,
     TypeData, TypePlaces

LEMMA InstanceRelaunchedInv == ASSUME IInv, NEW i \in Item, InstanceRelaunched(i)
     PROVE IInv'
<1> USE DEF InstanceRelaunched, rows, runs, loop, callers
<1>1. TypeData'
  BY BoundAssumption DEF IInv, TypeOK, TypeData, Item, Status, Ended, Instance, RoomLeft
<1>2. TypePlaces'
  BY BoundAssumption DEF IInv, TypeOK, TypePlaces, LoopPc
<1>3. LoopRegistered' /\ WorkflowFixed'
  BY DEF IInv, TypeOK, LoopRegistered, WorkflowFixed, LoopPc
<1>4. NotStarted' /\ RoomLeft'
  BY BoundAssumption DEF IInv, TypeOK, LoopRegistered, NotStarted, RoomLeft, Item
<1>5. InOrder' /\ PendingUntouched' /\ NextInLine'
  BY BoundAssumption DEF IInv, TypeOK, InOrder, PendingUntouched, NextInLine,
     NotStarted, RoomLeft, Item
<1>6. Progress'
  BY BoundAssumption DEF IInv, TypeOK, Progress, Done, NotStarted, LoopRegistered,
     RoomLeft, LocksGo, Item, Ended
<1>7. LocksGo'
  BY KindAssumption DEF IInv, TypeOK, LoopRegistered, WorkflowFixed, NotStarted,
     LocksGo, Ended, Progress
<1>8. QED BY <1>1, <1>2, <1>3, <1>4, <1>5, <1>6, <1>7, TypeParts DEF IInv, TypeOK,
     TypeData, TypePlaces

LEMMA StepInv == IInv /\ [Next]_vars => IInv'
<1> SUFFICES ASSUME IInv, [Next]_vars PROVE IInv' OBVIOUS
<1>1. CASE Cancelling \/ StartRequest \/ StartLocked \/ CancelRequest
  BY <1>1, StartRequestInv, StartLockedInv, CancelRequestInv, CancelReadInv,
     CancelWriteInv, CancelUnlockInv DEF Cancelling
<1>2. CASE EditRequest \/ Edit
  BY <1>2, EditRequestInv, AppendItemInv, AppendLockInv, RemoveItemInv,
     UpdateDeleteInv, UpdateUnlockInv, UpdateInsertInv, UpdateLockInv DEF Edit
<1>3. CASE Loop
  BY <1>3, TopInv, MarkInv, StartInstanceInv, StartFailsInv, PollCancelledInv,
     PollTickInv, ReadOutcomeInv, StepCanceledInv, CancelItemsInv, FailItemsInv,
     WriteStatusInv, UnlockInv, ExitInv DEF Loop
<1>4. CASE UNCHANGED vars
  BY <1>4 DEF vars, rows, runs, loop, callers, IInv, TypeOK, LoopRegistered,
     WorkflowFixed, NotStarted, RoomLeft, InOrder, PendingUntouched, Progress, Done,
     NextInLine, LocksGo
<1>5. QED
  BY <1>1, <1>2, <1>3, <1>4, RestartInv, InstanceEndsInv, InstanceRelaunchedInv DEF Next

\* The rows and the places of the loop and its callers stay in range; the loop
\* never works on an item the chain has not.
THEOREM TypeCorrect == Spec => []TypeOK
<1>1. IInv => TypeOK BY DEF IInv
<1>2. QED BY <1>1, InitInv, StepInv, PTL DEF Spec

\* Chains of every length are sequential and truthful about their items,
\* whatever is edited, cancelled, continued or restarted while they run.
THEOREM ChainIsSequential == Spec => []Sequential
<1>1. IInv => Sequential BY DEF IInv, InOrder, Progress, Done, Sequential
<1>2. QED BY <1>1, InitInv, StepInv, PTL DEF Spec

\* Every end of a chain deletes its locks.
THEOREM LocksAreDeleted == Spec => []NoLeftLock
<1>1. IInv => NoLeftLock BY DEF IInv, LocksGo, NoLeftLock
<1>2. QED BY <1>1, InitInv, StepInv, PTL DEF Spec
=============================================================================
