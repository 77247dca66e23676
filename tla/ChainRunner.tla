---------------------------- MODULE ChainRunner ----------------------------
(***************************************************************************)
(* Sequential execution of a chain.  nrflo has two runners of one design:  *)
(* the ticket chain runner (be/internal/orchestrator/chain_runner.go) runs *)
(* one workflow over a list of locked tickets, which a user may edit, and  *)
(* the workflow chain runner (be/internal/chainrunner) runs a fixed list   *)
(* of workflows.  `kind' says which of them runs this chain; a guard on it *)
(* marks every place where their code differs.                             *)
(*                                                                         *)
(* The loop starts the instance of an item, polls until it has left o.runs *)
(* and reads its status.  Start and Cancel requests, edits of the items,   *)
(* users who continue or retry an instance, and a restart of the server    *)
(* come between any two of its writes: no transaction spans them.          *)
(***************************************************************************)
EXTENDS Naturals, FiniteSets, FiniteSetsExt

CONSTANTS
  Kind,        \* the kinds of chain: a subset of {"ticket", "workflow"}
  Initial,     \* items the chain is created with
  \* Bounds of the model.
  MaxItems,    \* items the chain ever has
  MaxRelaunch, \* instances continued or retried by users
  MaxCrashes   \* restarts of the server

ASSUME KindAssumption == Kind \subseteq {"ticket", "workflow"}
ASSUME BoundAssumption ==
  /\ Initial \in Nat \ {0} /\ MaxItems \in Nat /\ Initial <= MaxItems
  /\ MaxRelaunch \in Nat /\ MaxCrashes \in Nat

\* Items in the order of their positions.  A row that an edit inserts is a new
\* one, also when it takes the position of one that was deleted.
Item     == 1 .. MaxItems
Ended    == {"completed", "failed", "canceled"}
Status   == {"pending", "running"} \cup Ended
Instance == {"none", "live", "waiting", "failed", "completed"}
LoopPc   == {"off", "top", "mark", "start", "poll", "read", "stepCanceled",
             "cancel", "cancelStatus", "fail", "failStatus", "complete",
             "unlock", "exit"}

VARIABLES
  kind,       \* of this chain
  status,     \* chain_executions.status, workflow_chain_runs.status
  item,       \* status of every item, "none" without a row
  locks,      \* items whose ticket the chain has locked
  last,       \* the item inserted last
  inst,       \* workflow instance of every item
  stopped,    \* items whose instance was told to stop
  registered, \* the chain is in the runner's runs map
  cancelled,  \* the context of the loop is cancelled
  pc, cur,    \* the loop, and the item it works on
  starter,    \* place of a Start request
  canceller,  \* place of a Cancel request
  editor,     \* place of an append, a removal or an update
  excused,    \* items locked by an edit after the locks of an ended chain were
              \* deleted, or whose locks a crash of its end left behind
  relaunches, crashes

rows    == <<status, item, last, locks>>
runs    == <<inst, stopped, relaunches>>
loop    == <<registered, cancelled, pc, cur>>
callers == <<starter, canceller, editor>>
vars == <<kind, rows, runs, loop, callers, excused, crashes>>

\* Every variable holds a value of its type, and the loop works on an item
\* wherever it reads or writes one.
TypeOK ==
  /\ kind \in Kind /\ status \in Status
  /\ item \in [Item -> Status \cup {"none"}] /\ locks \subseteq Item
  /\ last \in Item
  /\ inst \in [Item -> Instance] /\ stopped \subseteq Item
  /\ registered \in BOOLEAN /\ cancelled \in BOOLEAN
  /\ pc \in LoopPc /\ cur \in 0 .. MaxItems
  /\ pc \in {"mark", "start", "poll", "read", "stepCanceled"} => cur \in Item
  /\ starter \in {"off", "lock"}
  /\ canceller \in {"off", "read", "write", "unlock"}
  /\ editor \in {"off", "append", "appendLock", "remove",
                 "update", "updateUnlock", "updateInsert", "updateLock"}
  /\ excused \subseteq Item
  /\ relaunches \in 0 .. MaxRelaunch /\ crashes \in 0 .. MaxCrashes

Init ==
  /\ kind \in Kind /\ status = "pending"
  /\ item = [i \in Item |-> IF i <= Initial THEN "pending" ELSE "none"]
  /\ last = Initial
  /\ locks = IF kind = "ticket" THEN 1 .. Initial ELSE {}
  /\ inst = [i \in Item |-> "none"] /\ stopped = {}
  /\ registered = FALSE /\ cancelled = FALSE /\ pc = "off" /\ cur = 0
  /\ starter = "off" /\ canceller = "off" /\ editor = "off"
  /\ excused = {} /\ relaunches = 0 /\ crashes = 0

Pending == {i \in Item : item[i] = "pending"}
Canceled(S) == [i \in Item |-> IF i \in S THEN "canceled" ELSE item[i]]

(***************************************************************************)
(* Start and Cancel.                                                       *)
(***************************************************************************)
StartRequest ==
  /\ starter = "off" /\ status = "pending"
  /\ starter' = "lock"
  /\ UNCHANGED <<kind, rows, runs, loop, canceller, editor, excused, crashes>>

\* Under the runner's mutex: the status is not read again.
StartLocked ==
  /\ starter = "lock"
  /\ starter' = "off"
  /\ IF registered
       THEN UNCHANGED <<status, loop>>
       ELSE /\ status' = "running" /\ registered' = TRUE
            /\ cancelled' = FALSE /\ pc' = "top" /\ cur' = 0
  /\ UNCHANGED <<kind, item, last, locks, runs, canceller, editor, excused, crashes>>

CancelRequest ==
  /\ canceller = "off" /\ status \notin Ended
  /\ IF registered
       THEN cancelled' = TRUE /\ UNCHANGED canceller
       ELSE canceller' = "read" /\ UNCHANGED cancelled
  /\ UNCHANGED <<kind, rows, runs, registered, pc, cur, starter, editor,
                 excused, crashes>>

\* The chain was not registered: only a pending one is cancelled, in the
\* database, and its items are left as they are.
CancelRead ==
  /\ canceller = "read"
  /\ canceller' = IF status = "pending" THEN "write" ELSE "off"
  /\ UNCHANGED <<kind, rows, runs, loop, starter, editor, excused, crashes>>

CancelWrite ==
  /\ canceller = "write"
  /\ status' = "canceled"
  /\ canceller' = IF kind = "ticket" THEN "unlock" ELSE "off"
  /\ UNCHANGED <<kind, item, last, locks, runs, loop, starter, editor, excused,
                 crashes>>

CancelUnlock ==
  /\ canceller = "unlock"
  /\ locks' = {} /\ canceller' = "off"
  /\ UNCHANGED <<kind, status, item, last, runs, loop, starter, editor, excused,
                 crashes>>

(***************************************************************************)
(* Edits of a ticket chain: a running chain is appended to and items are   *)
(* removed from it, a pending one is replaced.  The status is read first.  *)
(***************************************************************************)
EditRequest ==
  /\ kind = "ticket" /\ editor = "off"
  /\ \/ status = "running" /\ last < MaxItems /\ editor' = "append"
     \/ status = "running" /\ editor' = "remove"
     \/ status = "pending" /\ last < MaxItems /\ editor' = "update"
  /\ UNCHANGED <<kind, rows, runs, loop, starter, canceller, excused, crashes>>

Insert(next) ==
  /\ last' = last + 1 /\ item' = [item EXCEPT ![last + 1] = "pending"]
  /\ editor' = next
  /\ UNCHANGED <<kind, status, locks, runs, loop, starter, canceller, excused,
                 crashes>>

\* The chain has ended and nobody is about to delete its locks.
Unlocked == /\ status \in Ended /\ pc \in {"off", "exit"}
            /\ canceller \notin {"write", "unlock"}

\* Another chain may have locked the ticket meanwhile: the edit fails and the
\* item stays without its lock.
LockItem ==
  /\ editor' = "off"
  /\ \/ UNCHANGED <<locks, excused>>
     \/ /\ locks' = locks \cup {last}
        /\ excused' = IF Unlocked THEN excused \cup {last} ELSE excused
  /\ UNCHANGED <<kind, status, item, last, runs, loop, starter, canceller, crashes>>

AppendItem == editor = "append" /\ Insert("appendLock")
AppendLock == editor = "appendLock" /\ LockItem

\* One transaction deletes the pending rows and their locks.
RemoveItem ==
  /\ editor = "remove"
  /\ editor' = "off"
  /\ \/ UNCHANGED <<item, locks>>
     \/ \E i \in Pending :
          /\ item' = [item EXCEPT ![i] = "none"] /\ locks' = locks \ {i}
  /\ UNCHANGED <<kind, status, last, runs, loop, starter, canceller, excused, crashes>>

UpdateDelete ==
  /\ editor = "update"
  /\ item' = [i \in Item |-> "none"] /\ editor' = "updateUnlock"
  /\ UNCHANGED <<kind, status, last, locks, runs, loop, starter, canceller, excused,
                 crashes>>

UpdateUnlock ==
  /\ editor = "updateUnlock"
  /\ locks' = {} /\ editor' = "updateInsert"
  /\ UNCHANGED <<kind, status, item, last, runs, loop, starter, canceller, excused,
                 crashes>>

UpdateInsert == editor = "updateInsert" /\ Insert("updateLock")
UpdateLock   == editor = "updateLock" /\ LockItem

Edit == \/ AppendItem \/ AppendLock \/ RemoveItem
        \/ UpdateDelete \/ UpdateUnlock \/ UpdateInsert \/ UpdateLock

(***************************************************************************)
(* runLoop and executeStep.  A write to the row of an item that an edit    *)
(* deleted changes nothing.                                                *)
(***************************************************************************)
SetItem(i, s) == [item EXCEPT ![i] = IF @ = "none" THEN @ ELSE s]

Top ==
  /\ pc = "top"
  /\ IF cancelled THEN pc' = "cancel" /\ UNCHANGED cur
     ELSE IF Pending = {} THEN pc' = "complete" /\ UNCHANGED cur
     ELSE pc' = "mark" /\ cur' = Min(Pending)
  /\ UNCHANGED <<kind, rows, runs, registered, cancelled, callers, excused,
                 crashes>>

Mark ==
  /\ pc = "mark"
  /\ item' = SetItem(cur, "running")
  /\ pc' = IF item[cur] = "none" THEN "fail" ELSE "start"
  /\ UNCHANGED <<kind, status, last, locks, runs, registered, cancelled, cur,
                 callers, excused, crashes>>

StartInstance ==
  /\ pc = "start"
  /\ inst' = [inst EXCEPT ![cur] = "live"] /\ pc' = "poll"
  /\ UNCHANGED <<kind, rows, stopped, relaunches, registered, cancelled, cur,
                 callers, excused, crashes>>

\* Start returns an error, or the step misses the ticket its predecessor was
\* to hand over.  Only the workflow runner asks whether it was cancelled.
StartFails ==
  /\ pc = "start"
  /\ item' = SetItem(cur, "failed")
  /\ pc' = IF kind = "workflow" /\ cancelled THEN "cancel" ELSE "fail"
  /\ UNCHANGED <<kind, status, last, locks, runs, registered, cancelled, cur,
                 callers, excused, crashes>>

\* Mutant of AfterCancelledPoll: the ticket runner closes the item itself
\* before it cancels the chain, as the workflow runner does.
CloseItemFirst == "stepCanceled"

AfterCancelledPoll == IF kind = "workflow" THEN "stepCanceled" ELSE "cancel"

PollCancelled ==
  /\ pc = "poll" /\ cancelled
  /\ pc' = AfterCancelledPoll
  /\ UNCHANGED <<kind, rows, runs, registered, cancelled, cur, callers,
                 excused, crashes>>

PollTick ==
  /\ pc = "poll" /\ inst[cur] # "live"
  /\ pc' = "read"
  /\ UNCHANGED <<kind, rows, runs, registered, cancelled, cur, callers,
                 excused, crashes>>

\* Mutant of Succeeded: an instance that is not running any more is done.
NotRunning(s) == TRUE

Succeeded(s) == s = "completed"

\* Mutant of OutcomeOf: the status of the instance is copied.
Verbatim(s) == s

OutcomeOf(s) == IF Succeeded(s) THEN "completed" ELSE "failed"

\* A paused or failed instance fails the item, and so does one that was
\* continued since the poll.
ReadOutcome ==
  /\ pc = "read"
  /\ item' = SetItem(cur, OutcomeOf(inst[cur]))
  /\ pc' = IF Succeeded(inst[cur]) THEN "top" ELSE "fail"
  /\ UNCHANGED <<kind, status, last, locks, runs, registered, cancelled, cur,
                 callers, excused, crashes>>

StepCanceled ==
  /\ pc = "stepCanceled"
  /\ item' = SetItem(cur, "canceled") /\ pc' = "cancel"
  /\ UNCHANGED <<kind, status, last, locks, runs, registered, cancelled, cur,
                 callers, excused, crashes>>

\* handleCancel and cancelRun stop the instance of an item whose row reads
\* running, and close every open item.
CancelItems ==
  /\ pc = "cancel"
  /\ LET Running == {i \in Item : item[i] = "running"} IN
     /\ stopped' = stopped \cup {i \in Running : inst[i] = "live"}
     /\ item' = Canceled(Running \cup Pending)
  /\ pc' = "cancelStatus"
  /\ UNCHANGED <<kind, status, last, locks, inst, relaunches, registered, cancelled,
                 cur, callers, excused, crashes>>

FailItems ==
  /\ pc = "fail"
  /\ item' = Canceled(Pending) /\ pc' = "failStatus"
  /\ UNCHANGED <<kind, status, last, locks, runs, registered, cancelled, cur,
                 callers, excused, crashes>>

\* Mutant of AfterEnd: a failed chain keeps its locks.
AfterEndUnlessFailed ==
  IF kind = "ticket" /\ pc # "failStatus" THEN "unlock" ELSE "exit"

AfterEnd == IF kind = "ticket" THEN "unlock" ELSE "exit"

WriteStatus ==
  /\ \/ pc = "cancelStatus" /\ status' = "canceled"
     \/ pc = "failStatus"   /\ status' = "failed"
     \/ pc = "complete"     /\ status' = "completed"
  /\ pc' = AfterEnd
  /\ UNCHANGED <<kind, item, last, locks, runs, registered, cancelled, cur, callers,
                 excused, crashes>>

Unlock ==
  /\ pc = "unlock"
  /\ locks' = {} /\ pc' = "exit"
  /\ UNCHANGED <<kind, status, item, last, runs, registered, cancelled, cur,
                 callers, excused, crashes>>

Exit ==
  /\ pc = "exit"
  /\ registered' = FALSE /\ cancelled' = FALSE /\ pc' = "off" /\ cur' = 0
  /\ UNCHANGED <<kind, rows, runs, callers, excused, crashes>>

Loop == \/ Top \/ Mark \/ StartInstance \/ StartFails
        \/ PollCancelled \/ PollTick \/ ReadOutcome \/ StepCanceled
        \/ CancelItems \/ FailItems \/ WriteStatus \/ Unlock \/ Exit

(***************************************************************************)
(* The instances (RunLifecycle has their detail): live while in o.runs.    *)
(***************************************************************************)
InstanceEnds(i) ==
  /\ inst[i] = "live"
  /\ \E s \in {"waiting", "failed", "completed"} : inst' = [inst EXCEPT ![i] = s]
  /\ stopped' = stopped \ {i}
  /\ UNCHANGED <<kind, rows, relaunches, loop, callers, excused, crashes>>

InstanceRelaunched(i) ==
  /\ inst[i] \in {"waiting", "failed"} /\ relaunches < MaxRelaunch
  /\ inst' = [inst EXCEPT ![i] = "live"] /\ relaunches' = relaunches + 1
  /\ UNCHANGED <<kind, rows, stopped, loop, callers, excused, crashes>>

\* A restart of the server: the sweep fails live instances, and running
\* chains with their open items.  It looks at running chains only, so locks
\* that an interrupted end had not deleted yet stay.
Restart ==
  /\ crashes < MaxCrashes
  /\ crashes' = crashes + 1
  /\ inst' = [i \in Item |-> IF inst[i] = "live" THEN "failed" ELSE inst[i]]
  /\ stopped' = {}
  /\ registered' = FALSE /\ cancelled' = FALSE /\ pc' = "off" /\ cur' = 0
  /\ starter' = "off" /\ canceller' = "off" /\ editor' = "off"
  /\ IF status = "running"
       THEN /\ status' = "failed" /\ locks' = {}
            /\ item' = Canceled({i \in Item : item[i] \in {"running", "pending"}})
            /\ UNCHANGED excused
       ELSE /\ excused' = IF status \in Ended THEN excused \cup locks ELSE excused
            /\ UNCHANGED <<status, locks, item>>
  /\ UNCHANGED <<kind, last, relaunches>>

Cancelling == CancelRead \/ CancelWrite \/ CancelUnlock

Next == \/ StartRequest \/ StartLocked \/ CancelRequest \/ Cancelling
        \/ EditRequest \/ Edit \/ Loop \/ Restart
        \/ \E i \in Item : InstanceEnds(i) \/ InstanceRelaunched(i)

Spec == Init /\ [][Next]_vars

\* The loop's goroutine runs and its ticker fires; when a poll finds both a
\* cancelled context and a tick, neither is passed over for ever.  A stopped
\* instance ends; nothing else makes one end.
FairSpec ==
  /\ Spec
  /\ WF_vars(Loop) /\ SF_vars(PollCancelled)
  /\ \A i \in Item : WF_vars(i \in stopped /\ InstanceEnds(i))

----------------------------------------------------------------------------
\* The chain is sequential and truthful: the instance of an item is started
\* only when those of all items before it have completed, and a completed
\* chain has completed each of its items (one appended while the loop ended
\* is left pending), whatever was paused, continued, removed or cancelled.
Sequential ==
  /\ \A i, j \in Item :
       i < j /\ inst[j] # "none" => item[i] = "none" \/ inst[i] = "completed"
  /\ status = "completed" =>
       \A i \in Item : \/ item[i] \in {"none", "pending"}
                       \/ item[i] = "completed" /\ inst[i] = "completed"

\* A chain that has ended holds no ticket: every path to an end deletes the
\* locks, those included that an append or an update inserts while it runs or
\* ends.  Only one that is inserted after the deletion remains, and those whose
\* deletion a crash prevented: the code deletes neither.
NoLeftLock ==
  status \in Ended /\ ~registered /\ canceller = "off" => locks \subseteq excused

\* A cancelled loop ends, and the ticket chain takes the instance it was
\* polling with it, wherever in the loop the cancellation falls, unless an
\* update that overlapped the start has deleted the item's row.
CancelTakesEffect ==
  /\ cancelled ~> ~registered
  /\ \A i \in Item :
       (kind = "ticket" /\ cancelled /\ pc = "poll" /\ cur = i /\ inst[i] = "live")
         ~> inst[i] # "live" \/ item[i] = "none"
============================================================================
