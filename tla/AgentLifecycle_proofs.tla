----------------------- MODULE AgentLifecycle_proofs ------------------------
(***************************************************************************)
(* Theorems about AgentLifecycle for every fallback chain and all budgets: *)
(* one live session at a time, an unbroken lineage of sessions, a verdict  *)
(* that its row shows, and restarts within their budgets.                  *)
(***************************************************************************)
EXTENDS AgentLifecycle, TLAPS

(***************************************************************************)
(* The inductive invariant, by the position of the monitor.                *)
(***************************************************************************)
\* Where the process may still run, and where it is known to be done.
Awake    == {"select", "check"} \cup Watching \cup Killing
Stopping == {"settle", "retryWait", "timeoutWait", "stallWait", "relaunch",
             "fallback"}
UserHeld == {"handover", "interactive"}
Quiet    == {"judge", "limitWait", "inBandWait", "ended"} \cup Stopping \cup UserHeld

Stopped ==
  /\ ~stray
  /\ mon \in Quiet => ~Up /\ saver # "saving"
  /\ saver = "done" => ~Up

\* Whoever decides about a session also writes its row.
RowFollows ==
  /\ mon \in Awake => \/ final = "none" /\ row = "running"
                      \/ final = "CONTINUE" /\ row = "continued"
  /\ mon \in {"limitWait", "inBandWait"} => final = "CONTINUE" /\ row = "continued"
  /\ mon = "judge" => row = "running" /\ final \in {"PASS", "FAIL", "CONTINUE",
     "CALLBACK"}
  /\ mon \in Stopping => final # "none" /\ row = StoppedAs(ResultOf(final))
  /\ mon \in {"stallWait", "relaunch", "fallback"} => final = "CONTINUE"
  /\ pastRows \subseteq {"continued"}

\* Users write to the row only once the monitor has handed it over.
Held == row = "user_interactive" \/ killPc # "idle" \/ exitPc # "idle"
HandedOver ==
  /\ mon \in UserHeld => Held
  /\ Held => mon \in UserHeld \cup {"ended"}

\* What makes a session complete.
Honest == said \in {"pass", "late"} \/ (said = "none" /\ process = "clean")
ReportsCount ==
  /\ final = "none" /\ row = "running" =>
       /\ result = "pass" => said \in {"pass", "late"}
       /\ said = "other" => result \in Report
  /\ mon = "judge" /\ final = "PASS" => Honest
  /\ CompletedHonestly

\* A restart is decided upon with room in the budget that it uses.
RoomLeft ==
  /\ RestartBudget
  /\ mon = "relaunch" =>
       rotation \/ restarts < MaxContinuations + failRestarts + chainPos
  /\ mon \in {"retryWait", "timeoutWait"} => failRestarts < MaxFailRestarts
  /\ mon \in {"killStartStall", "killStall", "killNudgeAsked", "killNudged"} =>
       stalls < MaxStallRestarts
  /\ mon = "fallback" => chainPos < Len(Chain) - 1

IInv == /\ TypeOK /\ Stopped /\ RowFollows /\ HandedOver /\ VerdictMatchesRow
        /\ ReportsCount /\ RoomLeft

LEMMA ChainLength == Len(Chain) \in Nat /\ Len(Chain) >= 1
BY ChainAssumption

LEMMA InitInv == Init => IInv
<1> SUFFICES ASSUME Init PROVE IInv OBVIOUS
<1>1. TypeOK
  BY DEF Init, TypeOK, RowStatus, Result, ExitCode, Saver, Final, Place
<1>2. Stopped /\ RowFollows /\ HandedOver /\ VerdictMatchesRow /\ ReportsCount
  BY DEF Init, Stopped, Up, Quiet, Stopping, UserHeld, RowFollows, Awake, HandedOver,
     Held, VerdictMatchesRow, ReportsCount, CompletedHonestly
<1>3. RoomLeft
  BY ChainLength, BudgetAssumption DEF Init, RoomLeft, RestartBudget
<1>4. QED BY <1>1, <1>2, <1>3 DEF IInv

LEMMA SelectCancelledInv == ASSUME IInv, SelectCancelled PROVE IInv'
<1> USE DEF SelectCancelled, RegisterStop, session, proc, budget, signals, takeover,
     past
<1>1. TypeOK'
  BY DEF IInv, TypeOK, RowStatus, Result, Report, ExitCode, Saver, Final, Place,
     Killing, Watching, StoppedAs, ResultOf
<1>2. Stopped'
  BY DEF IInv, TypeOK, Stopped, Up, Done, Saver, Quiet, Stopping, UserHeld,
     Watching, Killing
<1>3. RowFollows'
  BY DEF IInv, TypeOK, Stopped, RowFollows, HandedOver, Held, Awake, Quiet,
     Stopping, UserHeld, Watching, Killing, StoppedAs, ResultOf, Final, Place
<1>4. HandedOver' /\ VerdictMatchesRow'
  BY DEF IInv, TypeOK, Stopped, RowFollows, HandedOver, Held, VerdictMatchesRow,
     Awake, Quiet, Stopping, UserHeld, Watching, Killing, StoppedAs, ResultOf, Up,
     Final, Place
<1>5. ReportsCount'
  BY DEF IInv, TypeOK, Stopped, RowFollows, ReportsCount, CompletedHonestly, Honest,
     HandedOver, Held, Awake, Quiet, Stopping, UserHeld, Watching, Killing,
     StoppedAs, ResultOf, Up, Report, Result, Done, Place
<1>6. RoomLeft'
  BY ChainLength, BudgetAssumption DEF IInv, TypeOK, RoomLeft, RestartBudget,
     WithinCap, CanFailRestart, CanAdvance
<1>7. QED BY <1>1, <1>2, <1>3, <1>4, <1>5, <1>6 DEF IInv

LEMMA SelectNothingInv == ASSUME IInv, SelectNothing PROVE IInv'
<1> USE DEF SelectNothing, RegisterStop, session, proc, budget, signals, takeover, past
<1>1. TypeOK'
  BY DEF IInv, TypeOK, RowStatus, Result, Report, ExitCode, Saver, Final, Place,
     Killing, Watching, StoppedAs, ResultOf
<1>2. Stopped'
  BY DEF IInv, TypeOK, Stopped, Up, Done, Saver, Quiet, Stopping, UserHeld,
     Watching, Killing
<1>3. RowFollows'
  BY DEF IInv, TypeOK, Stopped, RowFollows, HandedOver, Held, Awake, Quiet,
     Stopping, UserHeld, Watching, Killing, StoppedAs, ResultOf, Final, Place
<1>4. HandedOver' /\ VerdictMatchesRow'
  BY DEF IInv, TypeOK, Stopped, RowFollows, HandedOver, Held, VerdictMatchesRow,
     Awake, Quiet, Stopping, UserHeld, Watching, Killing, StoppedAs, ResultOf, Up,
     Final, Place
<1>5. ReportsCount'
  BY DEF IInv, TypeOK, Stopped, RowFollows, ReportsCount, CompletedHonestly, Honest,
     HandedOver, Held, Awake, Quiet, Stopping, UserHeld, Watching, Killing,
     StoppedAs, ResultOf, Up, Report, Result, Done, Place
<1>6. RoomLeft'
  BY ChainLength, BudgetAssumption DEF IInv, TypeOK, RoomLeft, RestartBudget,
     WithinCap, CanFailRestart, CanAdvance
<1>7. QED BY <1>1, <1>2, <1>3, <1>4, <1>5, <1>6 DEF IInv

LEMMA SelectTerminalInv == ASSUME IInv, SelectTerminal PROVE IInv'
<1> USE DEF SelectTerminal, RegisterStop, session, proc, budget, signals, takeover, past
<1>1. TypeOK'
  <2>1. /\ hardFail' \in BOOLEAN /\ rotation' \in BOOLEAN /\ heard' \in BOOLEAN
        /\ startFailed' \in BOOLEAN /\ signal' \in BOOLEAN
        /\ cancelled' \in BOOLEAN /\ killed' \in BOOLEAN
    BY DEF IInv, TypeOK
  <2>2. /\ row' \in RowStatus /\ result' \in Result /\ mon' \in Place
        /\ process' \in ExitCode \cup {"up"} /\ saver' \in Saver /\ final' \in Final
    BY DEF IInv, TypeOK, RowStatus, Result, Report, ExitCode, Saver, Final, Place,
     Killing, Watching, StoppedAs, ResultOf
  <2>3. /\ said' \in {"none", "pass", "other", "late"}
        /\ wait' \in {"none", "open", "closed"}
        /\ exitPc' \in {"idle", "signal", "done"}
        /\ killPc' \in {"idle", "signal", "done"}
    BY DEF IInv, TypeOK
  <2>4. /\ restarts' \in Nat /\ failRestarts' \in Nat /\ stalls' \in Nat
        /\ startStalls' \in Nat /\ chainPos' \in Nat
    BY DEF IInv, TypeOK
  <2>5. pastRows' \subseteq RowStatus BY DEF IInv, TypeOK
  <2>6. stray' \in BOOLEAN BY DEF IInv, TypeOK, Up
  <2>7. QED BY <2>1, <2>2, <2>3, <2>4, <2>5, <2>6 DEF TypeOK
<1>2. Stopped'
  BY DEF IInv, TypeOK, Stopped, Up, Done, Saver, Quiet, Stopping, UserHeld,
     Watching, Killing
<1>3. RowFollows'
  BY DEF IInv, TypeOK, Stopped, RowFollows, HandedOver, Held, Awake, Quiet,
     Stopping, UserHeld, Watching, Killing, StoppedAs, ResultOf, Final, Place
<1>4. HandedOver' /\ VerdictMatchesRow'
  BY DEF IInv, TypeOK, Stopped, RowFollows, HandedOver, Held, VerdictMatchesRow,
     Awake, Quiet, Stopping, UserHeld, Watching, Killing, StoppedAs, ResultOf, Up,
     Final, Place
<1>5. ReportsCount'
  BY DEF IInv, TypeOK, Stopped, RowFollows, ReportsCount, CompletedHonestly, Honest,
     HandedOver, Held, Awake, Quiet, Stopping, UserHeld, Watching, Killing,
     StoppedAs, ResultOf, Up, Report, Result, Done, Place
<1>6. RoomLeft'
  BY ChainLength, BudgetAssumption DEF IInv, TypeOK, RoomLeft, RestartBudget,
     WithinCap, CanFailRestart, CanAdvance
<1>7. QED BY <1>1, <1>2, <1>3, <1>4, <1>5, <1>6 DEF IInv

LEMMA SelectSaveInv == ASSUME IInv, NEW rotate \in BOOLEAN, SelectSave(rotate) PROVE
     IInv'
<1> USE DEF SelectSave, StartSave, RegisterStop, session, proc, budget, signals,
     takeover, past
<1>1. TypeOK'
  BY DEF IInv, TypeOK, RowStatus, Result, Report, ExitCode, Saver, Final, Place,
     Killing, Watching, StoppedAs, ResultOf
<1>2. Stopped'
  BY DEF IInv, TypeOK, Stopped, Up, Done, Saver, Quiet, Stopping, UserHeld,
     Watching, Killing
<1>3. RowFollows'
  BY DEF IInv, TypeOK, Stopped, RowFollows, HandedOver, Held, Awake, Quiet,
     Stopping, UserHeld, Watching, Killing, StoppedAs, ResultOf, Final, Place
<1>4. HandedOver' /\ VerdictMatchesRow'
  BY DEF IInv, TypeOK, Stopped, RowFollows, HandedOver, Held, VerdictMatchesRow,
     Awake, Quiet, Stopping, UserHeld, Watching, Killing, StoppedAs, ResultOf, Up,
     Final, Place
<1>5. ReportsCount'
  BY DEF IInv, TypeOK, Stopped, RowFollows, ReportsCount, CompletedHonestly, Honest,
     HandedOver, Held, Awake, Quiet, Stopping, UserHeld, Watching, Killing,
     StoppedAs, ResultOf, Up, Report, Result, Done, Place
<1>6. RoomLeft'
  BY ChainLength, BudgetAssumption DEF IInv, TypeOK, RoomLeft, RestartBudget,
     WithinCap, CanFailRestart, CanAdvance
<1>7. QED BY <1>1, <1>2, <1>3, <1>4, <1>5, <1>6 DEF IInv

LEMMA SelectControlInv == ASSUME IInv, SelectControl PROVE IInv'
<1> USE DEF SelectControl, RegisterStop, session, proc, budget, signals, takeover, past
<1>1. TypeOK'
  BY DEF IInv, TypeOK, RowStatus, Result, Report, ExitCode, Saver, Final, Place,
     Killing, Watching, StoppedAs, ResultOf
<1>2. Stopped'
  BY DEF IInv, TypeOK, Stopped, Up, Done, Saver, Quiet, Stopping, UserHeld,
     Watching, Killing
<1>3. RowFollows'
  BY DEF IInv, TypeOK, Stopped, RowFollows, HandedOver, Held, Awake, Quiet,
     Stopping, UserHeld, Watching, Killing, StoppedAs, ResultOf, Final, Place
<1>4. HandedOver' /\ VerdictMatchesRow'
  BY DEF IInv, TypeOK, Stopped, RowFollows, HandedOver, Held, VerdictMatchesRow,
     Awake, Quiet, Stopping, UserHeld, Watching, Killing, StoppedAs, ResultOf, Up,
     Final, Place
<1>5. ReportsCount'
  BY DEF IInv, TypeOK, Stopped, RowFollows, ReportsCount, CompletedHonestly, Honest,
     HandedOver, Held, Awake, Quiet, Stopping, UserHeld, Watching, Killing,
     StoppedAs, ResultOf, Up, Report, Result, Done, Place
<1>6. RoomLeft'
  BY ChainLength, BudgetAssumption DEF IInv, TypeOK, RoomLeft, RestartBudget,
     WithinCap, CanFailRestart, CanAdvance
<1>7. QED BY <1>1, <1>2, <1>3, <1>4, <1>5, <1>6 DEF IInv

LEMMA LowContextInv == ASSUME IInv, LowContext PROVE IInv'
<1> USE DEF LowContext, StartSave, RegisterStop, session, proc, budget, signals,
     takeover, past
<1>1. TypeOK'
  BY DEF IInv, TypeOK, RowStatus, Result, Report, ExitCode, Saver, Final, Place,
     Killing, Watching, StoppedAs, ResultOf
<1>2. Stopped'
  BY DEF IInv, TypeOK, Stopped, Up, Done, Saver, Quiet, Stopping, UserHeld,
     Watching, Killing
<1>3. RowFollows'
  BY DEF IInv, TypeOK, Stopped, RowFollows, HandedOver, Held, Awake, Quiet,
     Stopping, UserHeld, Watching, Killing, StoppedAs, ResultOf, Final, Place
<1>4. HandedOver' /\ VerdictMatchesRow'
  BY DEF IInv, TypeOK, Stopped, RowFollows, HandedOver, Held, VerdictMatchesRow,
     Awake, Quiet, Stopping, UserHeld, Watching, Killing, StoppedAs, ResultOf, Up,
     Final, Place
<1>5. ReportsCount'
  BY DEF IInv, TypeOK, Stopped, RowFollows, ReportsCount, CompletedHonestly, Honest,
     HandedOver, Held, Awake, Quiet, Stopping, UserHeld, Watching, Killing,
     StoppedAs, ResultOf, Up, Report, Result, Done, Place
<1>6. RoomLeft'
  BY ChainLength, BudgetAssumption DEF IInv, TypeOK, RoomLeft, RestartBudget,
     WithinCap, CanFailRestart, CanAdvance
<1>7. QED BY <1>1, <1>2, <1>3, <1>4, <1>5, <1>6 DEF IInv

LEMMA CheckDecidedInv == ASSUME IInv, CheckDecided PROVE IInv'
<1> USE DEF CheckDecided, RegisterStop, session, proc, budget, signals, takeover, past
<1>1. TypeOK'
  BY DEF IInv, TypeOK, RowStatus, Result, Report, ExitCode, Saver, Final, Place,
     Killing, Watching, StoppedAs, ResultOf
<1>2. Stopped'
  BY DEF IInv, TypeOK, Stopped, Up, Done, Saver, Quiet, Stopping, UserHeld,
     Watching, Killing
<1>3. RowFollows'
  BY DEF IInv, TypeOK, Stopped, RowFollows, HandedOver, Held, Awake, Quiet,
     Stopping, UserHeld, Watching, Killing, StoppedAs, ResultOf, Final, Place
<1>4. HandedOver' /\ VerdictMatchesRow'
  BY DEF IInv, TypeOK, Stopped, RowFollows, HandedOver, Held, VerdictMatchesRow,
     Awake, Quiet, Stopping, UserHeld, Watching, Killing, StoppedAs, ResultOf, Up,
     Final, Place
<1>5. ReportsCount'
  BY DEF IInv, TypeOK, Stopped, RowFollows, ReportsCount, CompletedHonestly, Honest,
     HandedOver, Held, Awake, Quiet, Stopping, UserHeld, Watching, Killing,
     StoppedAs, ResultOf, Up, Report, Result, Done, Place
<1>6. RoomLeft'
  BY ChainLength, BudgetAssumption DEF IInv, TypeOK, RoomLeft, RestartBudget,
     WithinCap, CanFailRestart, CanAdvance
<1>7. QED BY <1>1, <1>2, <1>3, <1>4, <1>5, <1>6 DEF IInv

LEMMA CheckRateLimitedInv == ASSUME IInv, CheckRateLimited PROVE IInv'
<1> USE DEF CheckRateLimited, Classified, RegisterStop, session, proc, budget,
     signals, takeover, past
<1>1. TypeOK'
  BY DEF IInv, TypeOK, RowStatus, Result, Report, ExitCode, Saver, Final, Place,
     Killing, Watching, StoppedAs, ResultOf
<1>2. Stopped'
  BY DEF IInv, TypeOK, Stopped, Up, Done, Saver, Quiet, Stopping, UserHeld,
     Watching, Killing
<1>3. RowFollows'
  BY DEF IInv, TypeOK, Stopped, RowFollows, HandedOver, Held, Awake, Quiet,
     Stopping, UserHeld, Watching, Killing, StoppedAs, ResultOf, Final, Place
<1>4. HandedOver' /\ VerdictMatchesRow'
  BY DEF IInv, TypeOK, Stopped, RowFollows, HandedOver, Held, VerdictMatchesRow,
     Awake, Quiet, Stopping, UserHeld, Watching, Killing, StoppedAs, ResultOf, Up,
     Final, Place
<1>5. ReportsCount'
  BY DEF IInv, TypeOK, Stopped, RowFollows, ReportsCount, CompletedHonestly, Honest,
     HandedOver, Held, Awake, Quiet, Stopping, UserHeld, Watching, Killing,
     StoppedAs, ResultOf, Up, Report, Result, Done, Place
<1>6. RoomLeft'
  BY ChainLength, BudgetAssumption DEF IInv, TypeOK, RoomLeft, RestartBudget,
     WithinCap, CanFailRestart, CanAdvance
<1>7. QED BY <1>1, <1>2, <1>3, <1>4, <1>5, <1>6 DEF IInv

LEMMA CheckRunningInv == ASSUME IInv, CheckRunning PROVE IInv'
<1> USE DEF CheckRunning, RegisterStop, session, proc, budget, signals, takeover, past
<1>1. TypeOK'
  BY DEF IInv, TypeOK, RowStatus, Result, Report, ExitCode, Saver, Final, Place,
     Killing, Watching, StoppedAs, ResultOf
<1>2. Stopped'
  BY DEF IInv, TypeOK, Stopped, Up, Done, Saver, Quiet, Stopping, UserHeld,
     Watching, Killing
<1>3. RowFollows'
  BY DEF IInv, TypeOK, Stopped, RowFollows, HandedOver, Held, Awake, Quiet,
     Stopping, UserHeld, Watching, Killing, StoppedAs, ResultOf, Final, Place
<1>4. HandedOver' /\ VerdictMatchesRow'
  BY DEF IInv, TypeOK, Stopped, RowFollows, HandedOver, Held, VerdictMatchesRow,
     Awake, Quiet, Stopping, UserHeld, Watching, Killing, StoppedAs, ResultOf, Up,
     Final, Place
<1>5. ReportsCount'
  BY DEF IInv, TypeOK, Stopped, RowFollows, ReportsCount, CompletedHonestly, Honest,
     HandedOver, Held, Awake, Quiet, Stopping, UserHeld, Watching, Killing,
     StoppedAs, ResultOf, Up, Report, Result, Done, Place
<1>6. RoomLeft'
  BY ChainLength, BudgetAssumption DEF IInv, TypeOK, RoomLeft, RestartBudget,
     WithinCap, CanFailRestart, CanAdvance
<1>7. QED BY <1>1, <1>2, <1>3, <1>4, <1>5, <1>6 DEF IInv

LEMMA CheckCompletedInv == ASSUME IInv, NEW providerFail \in BOOLEAN,
     CheckCompleted(providerFail) PROVE IInv'
<1> USE DEF CheckCompleted, Verdict, Classified, Report, RegisterStop, session,
     proc, budget, signals, takeover, past
<1>1. TypeOK'
  BY DEF IInv, TypeOK, RowStatus, Result, Report, ExitCode, Saver, Final, Place,
     Killing, Watching, StoppedAs, ResultOf
<1>2. Stopped'
  BY DEF IInv, TypeOK, Stopped, Up, Done, Saver, Quiet, Stopping, UserHeld,
     Watching, Killing
<1>3. RowFollows'
  BY DEF IInv, TypeOK, Stopped, RowFollows, HandedOver, Held, Awake, Quiet,
     Stopping, UserHeld, Watching, Killing, StoppedAs, ResultOf, Final, Place
<1>4. HandedOver' /\ VerdictMatchesRow'
  BY DEF IInv, TypeOK, Stopped, RowFollows, HandedOver, Held, VerdictMatchesRow,
     Awake, Quiet, Stopping, UserHeld, Watching, Killing, StoppedAs, ResultOf, Up,
     Final, Place
<1>5. ReportsCount'
  BY DEF IInv, TypeOK, Stopped, RowFollows, ReportsCount, CompletedHonestly, Honest,
     HandedOver, Held, Awake, Quiet, Stopping, UserHeld, Watching, Killing,
     StoppedAs, ResultOf, Up, Report, Result, Done, Place
<1>6. RoomLeft'
  BY ChainLength, BudgetAssumption DEF IInv, TypeOK, RoomLeft, RestartBudget,
     WithinCap, CanFailRestart, CanAdvance
<1>7. QED BY <1>1, <1>2, <1>3, <1>4, <1>5, <1>6 DEF IInv

LEMMA JudgeInv == ASSUME IInv, NEW f \in Final, Judge(f) PROVE IInv'
<1> USE DEF Judge, RegisterStop, session, proc, budget, signals, takeover, past
<1>1. TypeOK'
  BY DEF IInv, TypeOK, RowStatus, Result, Report, ExitCode, Saver, Final, Place,
     Killing, Watching, StoppedAs, ResultOf
<1>2. Stopped'
  BY DEF IInv, TypeOK, Stopped, Up, Done, Saver, Quiet, Stopping, UserHeld,
     Watching, Killing
<1>3. RowFollows'
  BY DEF IInv, TypeOK, Stopped, RowFollows, HandedOver, Held, Awake, Quiet,
     Stopping, UserHeld, Watching, Killing, StoppedAs, ResultOf, Final, Place
<1>4. HandedOver' /\ VerdictMatchesRow'
  BY DEF IInv, TypeOK, Stopped, RowFollows, HandedOver, Held, VerdictMatchesRow,
     Awake, Quiet, Stopping, UserHeld, Watching, Killing, StoppedAs, ResultOf, Up,
     Final, Place
<1>5. ReportsCount'
  BY DEF IInv, TypeOK, Stopped, RowFollows, ReportsCount, CompletedHonestly, Honest,
     HandedOver, Held, Awake, Quiet, Stopping, UserHeld, Watching, Killing,
     StoppedAs, ResultOf, Up, Report, Result, Done, Place
<1>6. RoomLeft'
  BY ChainLength, BudgetAssumption DEF IInv, TypeOK, RoomLeft, RestartBudget,
     WithinCap, CanFailRestart, CanAdvance
<1>7. QED BY <1>1, <1>2, <1>3, <1>4, <1>5, <1>6 DEF IInv

LEMMA SettleFallbackInv == ASSUME IInv, SettleFallback PROVE IInv'
<1> USE DEF SettleFallback, RegisterStop, session, proc, budget, signals, takeover, past
<1>1. TypeOK'
  BY DEF IInv, TypeOK, RowStatus, Result, Report, ExitCode, Saver, Final, Place,
     Killing, Watching, StoppedAs, ResultOf
<1>2. Stopped'
  BY DEF IInv, TypeOK, Stopped, Up, Done, Saver, Quiet, Stopping, UserHeld,
     Watching, Killing
<1>3. RowFollows'
  BY DEF IInv, TypeOK, Stopped, RowFollows, HandedOver, Held, Awake, Quiet,
     Stopping, UserHeld, Watching, Killing, StoppedAs, ResultOf, Final, Place
<1>4. HandedOver' /\ VerdictMatchesRow'
  BY DEF IInv, TypeOK, Stopped, RowFollows, HandedOver, Held, VerdictMatchesRow,
     Awake, Quiet, Stopping, UserHeld, Watching, Killing, StoppedAs, ResultOf, Up,
     Final, Place
<1>5. ReportsCount'
  BY DEF IInv, TypeOK, Stopped, RowFollows, ReportsCount, CompletedHonestly, Honest,
     HandedOver, Held, Awake, Quiet, Stopping, UserHeld, Watching, Killing,
     StoppedAs, ResultOf, Up, Report, Result, Done, Place
<1>6. RoomLeft'
  BY ChainLength, BudgetAssumption DEF IInv, TypeOK, RoomLeft, RestartBudget,
     WithinCap, CanFailRestart, CanAdvance
<1>7. QED BY <1>1, <1>2, <1>3, <1>4, <1>5, <1>6 DEF IInv

LEMMA SettleRetryInv == ASSUME IInv, SettleRetry PROVE IInv'
<1> USE DEF SettleRetry, RegisterStop, session, proc, budget, signals, takeover, past
<1>1. TypeOK'
  BY DEF IInv, TypeOK, RowStatus, Result, Report, ExitCode, Saver, Final, Place,
     Killing, Watching, StoppedAs, ResultOf
<1>2. Stopped'
  BY DEF IInv, TypeOK, Stopped, Up, Done, Saver, Quiet, Stopping, UserHeld,
     Watching, Killing
<1>3. RowFollows'
  BY DEF IInv, TypeOK, Stopped, RowFollows, HandedOver, Held, Awake, Quiet,
     Stopping, UserHeld, Watching, Killing, StoppedAs, ResultOf, Final, Place
<1>4. HandedOver' /\ VerdictMatchesRow'
  BY DEF IInv, TypeOK, Stopped, RowFollows, HandedOver, Held, VerdictMatchesRow,
     Awake, Quiet, Stopping, UserHeld, Watching, Killing, StoppedAs, ResultOf, Up,
     Final, Place
<1>5. ReportsCount'
  BY DEF IInv, TypeOK, Stopped, RowFollows, ReportsCount, CompletedHonestly, Honest,
     HandedOver, Held, Awake, Quiet, Stopping, UserHeld, Watching, Killing,
     StoppedAs, ResultOf, Up, Report, Result, Done, Place
<1>6. RoomLeft'
  BY ChainLength, BudgetAssumption DEF IInv, TypeOK, RoomLeft, RestartBudget,
     WithinCap, CanFailRestart, CanAdvance
<1>7. QED BY <1>1, <1>2, <1>3, <1>4, <1>5, <1>6 DEF IInv

LEMMA SettleContinueInv == ASSUME IInv, SettleContinue PROVE IInv'
<1> USE DEF SettleContinue, RegisterStop, session, proc, budget, signals, takeover, past
<1>1. TypeOK'
  BY DEF IInv, TypeOK, RowStatus, Result, Report, ExitCode, Saver, Final, Place,
     Killing, Watching, StoppedAs, ResultOf
<1>2. Stopped'
  BY DEF IInv, TypeOK, Stopped, Up, Done, Saver, Quiet, Stopping, UserHeld,
     Watching, Killing
<1>3. RowFollows'
  BY DEF IInv, TypeOK, Stopped, RowFollows, HandedOver, Held, Awake, Quiet,
     Stopping, UserHeld, Watching, Killing, StoppedAs, ResultOf, Final, Place
<1>4. HandedOver' /\ VerdictMatchesRow'
  BY DEF IInv, TypeOK, Stopped, RowFollows, HandedOver, Held, VerdictMatchesRow,
     Awake, Quiet, Stopping, UserHeld, Watching, Killing, StoppedAs, ResultOf, Up,
     Final, Place
<1>5. ReportsCount'
  BY DEF IInv, TypeOK, Stopped, RowFollows, ReportsCount, CompletedHonestly, Honest,
     HandedOver, Held, Awake, Quiet, Stopping, UserHeld, Watching, Killing,
     StoppedAs, ResultOf, Up, Report, Result, Done, Place
<1>6. RoomLeft'
  BY ChainLength, BudgetAssumption DEF IInv, TypeOK, RoomLeft, RestartBudget,
     WithinCap, CanFailRestart, CanAdvance
<1>7. QED BY <1>1, <1>2, <1>3, <1>4, <1>5, <1>6 DEF IInv

LEMMA SettleCappedInv == ASSUME IInv, SettleCapped PROVE IInv'
<1> USE DEF SettleCapped, RegisterStop, session, proc, budget, signals, takeover, past
<1>1. TypeOK'
  BY DEF IInv, TypeOK, RowStatus, Result, Report, ExitCode, Saver, Final, Place,
     Killing, Watching, StoppedAs, ResultOf
<1>2. Stopped'
  BY DEF IInv, TypeOK, Stopped, Up, Done, Saver, Quiet, Stopping, UserHeld,
     Watching, Killing
<1>3. RowFollows'
  BY DEF IInv, TypeOK, Stopped, RowFollows, HandedOver, Held, Awake, Quiet,
     Stopping, UserHeld, Watching, Killing, StoppedAs, ResultOf, Final, Place
<1>4. HandedOver' /\ VerdictMatchesRow'
  BY DEF IInv, TypeOK, Stopped, RowFollows, HandedOver, Held, VerdictMatchesRow,
     Awake, Quiet, Stopping, UserHeld, Watching, Killing, StoppedAs, ResultOf, Up,
     Final, Place
<1>5. ReportsCount'
  BY DEF IInv, TypeOK, Stopped, RowFollows, ReportsCount, CompletedHonestly, Honest,
     HandedOver, Held, Awake, Quiet, Stopping, UserHeld, Watching, Killing,
     StoppedAs, ResultOf, Up, Report, Result, Done, Place
<1>6. RoomLeft'
  BY ChainLength, BudgetAssumption DEF IInv, TypeOK, RoomLeft, RestartBudget,
     WithinCap, CanFailRestart, CanAdvance
<1>7. QED BY <1>1, <1>2, <1>3, <1>4, <1>5, <1>6 DEF IInv

LEMMA SettleFinalInv == ASSUME IInv, SettleFinal PROVE IInv'
<1> USE DEF SettleFinal, RegisterStop, session, proc, budget, signals, takeover, past
<1>1. TypeOK'
  BY DEF IInv, TypeOK, RowStatus, Result, Report, ExitCode, Saver, Final, Place,
     Killing, Watching, StoppedAs, ResultOf
<1>2. Stopped'
  BY DEF IInv, TypeOK, Stopped, Up, Done, Saver, Quiet, Stopping, UserHeld,
     Watching, Killing
<1>3. RowFollows'
  BY DEF IInv, TypeOK, Stopped, RowFollows, HandedOver, Held, Awake, Quiet,
     Stopping, UserHeld, Watching, Killing, StoppedAs, ResultOf, Final, Place
<1>4. HandedOver' /\ VerdictMatchesRow'
  BY DEF IInv, TypeOK, Stopped, RowFollows, HandedOver, Held, VerdictMatchesRow,
     Awake, Quiet, Stopping, UserHeld, Watching, Killing, StoppedAs, ResultOf, Up,
     Final, Place
<1>5. ReportsCount'
  BY DEF IInv, TypeOK, Stopped, RowFollows, ReportsCount, CompletedHonestly, Honest,
     HandedOver, Held, Awake, Quiet, Stopping, UserHeld, Watching, Killing,
     StoppedAs, ResultOf, Up, Report, Result, Done, Place
<1>6. RoomLeft'
  BY ChainLength, BudgetAssumption DEF IInv, TypeOK, RoomLeft, RestartBudget,
     WithinCap, CanFailRestart, CanAdvance
<1>7. QED BY <1>1, <1>2, <1>3, <1>4, <1>5, <1>6 DEF IInv

LEMMA RelaunchInv == ASSUME IInv, Relaunch PROVE IInv'
<1> USE DEF Relaunch, CarriedRestarts, RegisterStop, session, proc, budget, signals,
     takeover, past
<1>1. TypeOK'
  <2>1. /\ hardFail' \in BOOLEAN /\ rotation' \in BOOLEAN /\ heard' \in BOOLEAN
        /\ startFailed' \in BOOLEAN /\ signal' \in BOOLEAN
        /\ cancelled' \in BOOLEAN /\ killed' \in BOOLEAN
    BY DEF IInv, TypeOK
  <2>2. /\ row' \in RowStatus /\ result' \in Result /\ mon' \in Place
        /\ process' \in ExitCode \cup {"up"} /\ saver' \in Saver /\ final' \in Final
    BY DEF IInv, TypeOK, RowStatus, Result, Report, ExitCode, Saver, Final, Place,
     Killing, Watching, StoppedAs, ResultOf
  <2>3. /\ said' \in {"none", "pass", "other", "late"}
        /\ wait' \in {"none", "open", "closed"}
        /\ exitPc' \in {"idle", "signal", "done"}
        /\ killPc' \in {"idle", "signal", "done"}
    BY DEF IInv, TypeOK
  <2>4. /\ restarts' \in Nat /\ failRestarts' \in Nat /\ stalls' \in Nat
        /\ startStalls' \in Nat /\ chainPos' \in Nat
    BY DEF IInv, TypeOK
  <2>5. pastRows' \subseteq RowStatus BY DEF IInv, TypeOK
  <2>6. stray' \in BOOLEAN BY DEF IInv, TypeOK, Up
  <2>7. QED BY <2>1, <2>2, <2>3, <2>4, <2>5, <2>6 DEF TypeOK
<1>2. Stopped'
  BY DEF IInv, TypeOK, Stopped, Up, Done, Saver, Quiet, Stopping, UserHeld,
     Watching, Killing
<1>3. RowFollows'
  BY DEF IInv, TypeOK, Stopped, RowFollows, HandedOver, Held, Awake, Quiet,
     Stopping, UserHeld, Watching, Killing, StoppedAs, ResultOf, Final, Place
<1>4. HandedOver' /\ VerdictMatchesRow'
  BY DEF IInv, TypeOK, Stopped, RowFollows, HandedOver, Held, VerdictMatchesRow,
     Awake, Quiet, Stopping, UserHeld, Watching, Killing, StoppedAs, ResultOf, Up,
     Final, Place
<1>5. ReportsCount'
  BY DEF IInv, TypeOK, Stopped, RowFollows, ReportsCount, CompletedHonestly, Honest,
     HandedOver, Held, Awake, Quiet, Stopping, UserHeld, Watching, Killing,
     StoppedAs, ResultOf, Up, Report, Result, Done, Place
<1>6. RoomLeft'
  BY ChainLength, BudgetAssumption DEF IInv, TypeOK, RoomLeft, RestartBudget,
     WithinCap, CanFailRestart, CanAdvance
<1>7. QED BY <1>1, <1>2, <1>3, <1>4, <1>5, <1>6 DEF IInv

LEMMA RelaunchFailsInv == ASSUME IInv, RelaunchFails PROVE IInv'
<1> USE DEF RelaunchFails, RegisterStop, session, proc, budget, signals, takeover, past
<1>1. TypeOK'
  BY DEF IInv, TypeOK, RowStatus, Result, Report, ExitCode, Saver, Final, Place,
     Killing, Watching, StoppedAs, ResultOf
<1>2. Stopped'
  BY DEF IInv, TypeOK, Stopped, Up, Done, Saver, Quiet, Stopping, UserHeld,
     Watching, Killing
<1>3. RowFollows'
  BY DEF IInv, TypeOK, Stopped, RowFollows, HandedOver, Held, Awake, Quiet,
     Stopping, UserHeld, Watching, Killing, StoppedAs, ResultOf, Final, Place
<1>4. HandedOver' /\ VerdictMatchesRow'
  BY DEF IInv, TypeOK, Stopped, RowFollows, HandedOver, Held, VerdictMatchesRow,
     Awake, Quiet, Stopping, UserHeld, Watching, Killing, StoppedAs, ResultOf, Up,
     Final, Place
<1>5. ReportsCount'
  BY DEF IInv, TypeOK, Stopped, RowFollows, ReportsCount, CompletedHonestly, Honest,
     HandedOver, Held, Awake, Quiet, Stopping, UserHeld, Watching, Killing,
     StoppedAs, ResultOf, Up, Report, Result, Done, Place
<1>6. RoomLeft'
  BY ChainLength, BudgetAssumption DEF IInv, TypeOK, RoomLeft, RestartBudget,
     WithinCap, CanFailRestart, CanAdvance
<1>7. QED BY <1>1, <1>2, <1>3, <1>4, <1>5, <1>6 DEF IInv

LEMMA StartStallFailsInv == ASSUME IInv, StartStallFails PROVE IInv'
<1> USE DEF StartStallFails, StallCheck, FailTerminal, RegisterStop, session, proc,
     budget, signals, takeover, past
<1>1. TypeOK'
  BY DEF IInv, TypeOK, RowStatus, Result, Report, ExitCode, Saver, Final, Place,
     Killing, Watching, StoppedAs, ResultOf
<1>2. Stopped'
  BY DEF IInv, TypeOK, Stopped, Up, Done, Saver, Quiet, Stopping, UserHeld,
     Watching, Killing
<1>3. RowFollows'
  BY DEF IInv, TypeOK, Stopped, RowFollows, HandedOver, Held, Awake, Quiet,
     Stopping, UserHeld, Watching, Killing, StoppedAs, ResultOf, Final, Place
<1>4. HandedOver' /\ VerdictMatchesRow'
  BY DEF IInv, TypeOK, Stopped, RowFollows, HandedOver, Held, VerdictMatchesRow,
     Awake, Quiet, Stopping, UserHeld, Watching, Killing, StoppedAs, ResultOf, Up,
     Final, Place
<1>5. ReportsCount'
  BY DEF IInv, TypeOK, Stopped, RowFollows, ReportsCount, CompletedHonestly, Honest,
     HandedOver, Held, Awake, Quiet, Stopping, UserHeld, Watching, Killing,
     StoppedAs, ResultOf, Up, Report, Result, Done, Place
<1>6. RoomLeft'
  BY ChainLength, BudgetAssumption DEF IInv, TypeOK, RoomLeft, RestartBudget,
     WithinCap, CanFailRestart, CanAdvance
<1>7. QED BY <1>1, <1>2, <1>3, <1>4, <1>5, <1>6 DEF IInv

LEMMA StallInv == ASSUME IInv, Stall PROVE IInv'
<1> USE DEF Stall, StallCheck, RegisterStop, session, proc, budget, signals,
     takeover, past
<1>1. TypeOK'
  BY DEF IInv, TypeOK, RowStatus, Result, Report, ExitCode, Saver, Final, Place,
     Killing, Watching, StoppedAs, ResultOf
<1>2. Stopped'
  BY DEF IInv, TypeOK, Stopped, Up, Done, Saver, Quiet, Stopping, UserHeld,
     Watching, Killing
<1>3. RowFollows'
  BY DEF IInv, TypeOK, Stopped, RowFollows, HandedOver, Held, Awake, Quiet,
     Stopping, UserHeld, Watching, Killing, StoppedAs, ResultOf, Final, Place
<1>4. HandedOver' /\ VerdictMatchesRow'
  BY DEF IInv, TypeOK, Stopped, RowFollows, HandedOver, Held, VerdictMatchesRow,
     Awake, Quiet, Stopping, UserHeld, Watching, Killing, StoppedAs, ResultOf, Up,
     Final, Place
<1>5. ReportsCount'
  BY DEF IInv, TypeOK, Stopped, RowFollows, ReportsCount, CompletedHonestly, Honest,
     HandedOver, Held, Awake, Quiet, Stopping, UserHeld, Watching, Killing,
     StoppedAs, ResultOf, Up, Report, Result, Done, Place
<1>6. RoomLeft'
  BY ChainLength, BudgetAssumption DEF IInv, TypeOK, RoomLeft, RestartBudget,
     WithinCap, CanFailRestart, CanAdvance
<1>7. QED BY <1>1, <1>2, <1>3, <1>4, <1>5, <1>6 DEF IInv

LEMMA InBandLimitInv == ASSUME IInv, InBandLimit PROVE IInv'
<1> USE DEF InBandLimit, RegisterStop, session, proc, budget, signals, takeover, past
<1>1. TypeOK'
  BY DEF IInv, TypeOK, RowStatus, Result, Report, ExitCode, Saver, Final, Place,
     Killing, Watching, StoppedAs, ResultOf
<1>2. Stopped'
  BY DEF IInv, TypeOK, Stopped, Up, Done, Saver, Quiet, Stopping, UserHeld,
     Watching, Killing
<1>3. RowFollows'
  BY DEF IInv, TypeOK, Stopped, RowFollows, HandedOver, Held, Awake, Quiet,
     Stopping, UserHeld, Watching, Killing, StoppedAs, ResultOf, Final, Place
<1>4. HandedOver' /\ VerdictMatchesRow'
  BY DEF IInv, TypeOK, Stopped, RowFollows, HandedOver, Held, VerdictMatchesRow,
     Awake, Quiet, Stopping, UserHeld, Watching, Killing, StoppedAs, ResultOf, Up,
     Final, Place
<1>5. ReportsCount'
  BY DEF IInv, TypeOK, Stopped, RowFollows, ReportsCount, CompletedHonestly, Honest,
     HandedOver, Held, Awake, Quiet, Stopping, UserHeld, Watching, Killing,
     StoppedAs, ResultOf, Up, Report, Result, Done, Place
<1>6. RoomLeft'
  BY ChainLength, BudgetAssumption DEF IInv, TypeOK, RoomLeft, RestartBudget,
     WithinCap, CanFailRestart, CanAdvance
<1>7. QED BY <1>1, <1>2, <1>3, <1>4, <1>5, <1>6 DEF IInv

LEMMA NudgeInv == ASSUME IInv, Nudge PROVE IInv'
<1> USE DEF Nudge, NudgePlace, AfterNudge, RegisterStop, session, proc, budget,
     signals, takeover, past
<1>1. TypeOK'
  BY DEF IInv, TypeOK, RowStatus, Result, Report, ExitCode, Saver, Final, Place,
     Killing, Watching, StoppedAs, ResultOf
<1>2. Stopped'
  BY DEF IInv, TypeOK, Stopped, Up, Done, Saver, Quiet, Stopping, UserHeld,
     Watching, Killing
<1>3. RowFollows'
  BY DEF IInv, TypeOK, Stopped, RowFollows, HandedOver, Held, Awake, Quiet,
     Stopping, UserHeld, Watching, Killing, StoppedAs, ResultOf, Final, Place
<1>4. HandedOver' /\ VerdictMatchesRow'
  BY DEF IInv, TypeOK, Stopped, RowFollows, HandedOver, Held, VerdictMatchesRow,
     Awake, Quiet, Stopping, UserHeld, Watching, Killing, StoppedAs, ResultOf, Up,
     Final, Place
<1>5. ReportsCount'
  BY DEF IInv, TypeOK, Stopped, RowFollows, ReportsCount, CompletedHonestly, Honest,
     HandedOver, Held, Awake, Quiet, Stopping, UserHeld, Watching, Killing,
     StoppedAs, ResultOf, Up, Report, Result, Done, Place
<1>6. RoomLeft'
  BY ChainLength, BudgetAssumption DEF IInv, TypeOK, RoomLeft, RestartBudget,
     WithinCap, CanFailRestart, CanAdvance
<1>7. QED BY <1>1, <1>2, <1>3, <1>4, <1>5, <1>6 DEF IInv

LEMMA NudgeRestartsInv == ASSUME IInv, NudgeRestarts PROVE IInv'
<1> USE DEF NudgeRestarts, NudgePlace, AfterNudge, RegisterStop, session, proc,
     budget, signals, takeover, past
<1>1. TypeOK'
  BY DEF IInv, TypeOK, RowStatus, Result, Report, ExitCode, Saver, Final, Place,
     Killing, Watching, StoppedAs, ResultOf
<1>2. Stopped'
  BY DEF IInv, TypeOK, Stopped, Up, Done, Saver, Quiet, Stopping, UserHeld,
     Watching, Killing
<1>3. RowFollows'
  BY DEF IInv, TypeOK, Stopped, RowFollows, HandedOver, Held, Awake, Quiet,
     Stopping, UserHeld, Watching, Killing, StoppedAs, ResultOf, Final, Place
<1>4. HandedOver' /\ VerdictMatchesRow'
  BY DEF IInv, TypeOK, Stopped, RowFollows, HandedOver, Held, VerdictMatchesRow,
     Awake, Quiet, Stopping, UserHeld, Watching, Killing, StoppedAs, ResultOf, Up,
     Final, Place
<1>5. ReportsCount'
  BY DEF IInv, TypeOK, Stopped, RowFollows, ReportsCount, CompletedHonestly, Honest,
     HandedOver, Held, Awake, Quiet, Stopping, UserHeld, Watching, Killing,
     StoppedAs, ResultOf, Up, Report, Result, Done, Place
<1>6. RoomLeft'
  BY ChainLength, BudgetAssumption DEF IInv, TypeOK, RoomLeft, RestartBudget,
     WithinCap, CanFailRestart, CanAdvance
<1>7. QED BY <1>1, <1>2, <1>3, <1>4, <1>5, <1>6 DEF IInv

LEMMA NudgeFailsInv == ASSUME IInv, NudgeFails PROVE IInv'
<1> USE DEF NudgeFails, NudgePlace, AfterNudge, FailTerminal, RegisterStop, session,
     proc, budget, signals, takeover, past
<1>1. TypeOK'
  BY DEF IInv, TypeOK, RowStatus, Result, Report, ExitCode, Saver, Final, Place,
     Killing, Watching, StoppedAs, ResultOf
<1>2. Stopped'
  BY DEF IInv, TypeOK, Stopped, Up, Done, Saver, Quiet, Stopping, UserHeld,
     Watching, Killing
<1>3. RowFollows'
  BY DEF IInv, TypeOK, Stopped, RowFollows, HandedOver, Held, Awake, Quiet,
     Stopping, UserHeld, Watching, Killing, StoppedAs, ResultOf, Final, Place
<1>4. HandedOver' /\ VerdictMatchesRow'
  BY DEF IInv, TypeOK, Stopped, RowFollows, HandedOver, Held, VerdictMatchesRow,
     Awake, Quiet, Stopping, UserHeld, Watching, Killing, StoppedAs, ResultOf, Up,
     Final, Place
<1>5. ReportsCount'
  BY DEF IInv, TypeOK, Stopped, RowFollows, ReportsCount, CompletedHonestly, Honest,
     HandedOver, Held, Awake, Quiet, Stopping, UserHeld, Watching, Killing,
     StoppedAs, ResultOf, Up, Report, Result, Done, Place
<1>6. RoomLeft'
  BY ChainLength, BudgetAssumption DEF IInv, TypeOK, RoomLeft, RestartBudget,
     WithinCap, CanFailRestart, CanAdvance
<1>7. QED BY <1>1, <1>2, <1>3, <1>4, <1>5, <1>6 DEF IInv

LEMMA RotateInv == ASSUME IInv, Rotate PROVE IInv'
<1> USE DEF Rotate, StartSave, RegisterStop, session, proc, budget, signals,
     takeover, past
<1>1. TypeOK'
  BY DEF IInv, TypeOK, RowStatus, Result, Report, ExitCode, Saver, Final, Place,
     Killing, Watching, StoppedAs, ResultOf
<1>2. Stopped'
  BY DEF IInv, TypeOK, Stopped, Up, Done, Saver, Quiet, Stopping, UserHeld,
     Watching, Killing
<1>3. RowFollows'
  BY DEF IInv, TypeOK, Stopped, RowFollows, HandedOver, Held, Awake, Quiet,
     Stopping, UserHeld, Watching, Killing, StoppedAs, ResultOf, Final, Place
<1>4. HandedOver' /\ VerdictMatchesRow'
  BY DEF IInv, TypeOK, Stopped, RowFollows, HandedOver, Held, VerdictMatchesRow,
     Awake, Quiet, Stopping, UserHeld, Watching, Killing, StoppedAs, ResultOf, Up,
     Final, Place
<1>5. ReportsCount'
  BY DEF IInv, TypeOK, Stopped, RowFollows, ReportsCount, CompletedHonestly, Honest,
     HandedOver, Held, Awake, Quiet, Stopping, UserHeld, Watching, Killing,
     StoppedAs, ResultOf, Up, Report, Result, Done, Place
<1>6. RoomLeft'
  BY ChainLength, BudgetAssumption DEF IInv, TypeOK, RoomLeft, RestartBudget,
     WithinCap, CanFailRestart, CanAdvance
<1>7. QED BY <1>1, <1>2, <1>3, <1>4, <1>5, <1>6 DEF IInv

LEMMA TimesOutInv == ASSUME IInv, TimesOut PROVE IInv'
<1> USE DEF TimesOut, RegisterStop, session, proc, budget, signals, takeover, past
<1>1. TypeOK'
  BY DEF IInv, TypeOK, RowStatus, Result, Report, ExitCode, Saver, Final, Place,
     Killing, Watching, StoppedAs, ResultOf
<1>2. Stopped'
  BY DEF IInv, TypeOK, Stopped, Up, Done, Saver, Quiet, Stopping, UserHeld,
     Watching, Killing
<1>3. RowFollows'
  BY DEF IInv, TypeOK, Stopped, RowFollows, HandedOver, Held, Awake, Quiet,
     Stopping, UserHeld, Watching, Killing, StoppedAs, ResultOf, Final, Place
<1>4. HandedOver' /\ VerdictMatchesRow'
  BY DEF IInv, TypeOK, Stopped, RowFollows, HandedOver, Held, VerdictMatchesRow,
     Awake, Quiet, Stopping, UserHeld, Watching, Killing, StoppedAs, ResultOf, Up,
     Final, Place
<1>5. ReportsCount'
  BY DEF IInv, TypeOK, Stopped, RowFollows, ReportsCount, CompletedHonestly, Honest,
     HandedOver, Held, Awake, Quiet, Stopping, UserHeld, Watching, Killing,
     StoppedAs, ResultOf, Up, Report, Result, Done, Place
<1>6. RoomLeft'
  BY ChainLength, BudgetAssumption DEF IInv, TypeOK, RoomLeft, RestartBudget,
     WithinCap, CanFailRestart, CanAdvance
<1>7. QED BY <1>1, <1>2, <1>3, <1>4, <1>5, <1>6 DEF IInv

LEMMA NotYetInv == ASSUME IInv, NotYet PROVE IInv'
<1> USE DEF NotYet, RegisterStop, session, proc, budget, signals, takeover, past
<1>1. TypeOK'
  BY DEF IInv, TypeOK, RowStatus, Result, Report, ExitCode, Saver, Final, Place,
     Killing, Watching, StoppedAs, ResultOf
<1>2. Stopped'
  BY DEF IInv, TypeOK, Stopped, Up, Done, Saver, Quiet, Stopping, UserHeld,
     Watching, Killing
<1>3. RowFollows'
  BY DEF IInv, TypeOK, Stopped, RowFollows, HandedOver, Held, Awake, Quiet,
     Stopping, UserHeld, Watching, Killing, StoppedAs, ResultOf, Final, Place
<1>4. HandedOver' /\ VerdictMatchesRow'
  BY DEF IInv, TypeOK, Stopped, RowFollows, HandedOver, Held, VerdictMatchesRow,
     Awake, Quiet, Stopping, UserHeld, Watching, Killing, StoppedAs, ResultOf, Up,
     Final, Place
<1>5. ReportsCount'
  BY DEF IInv, TypeOK, Stopped, RowFollows, ReportsCount, CompletedHonestly, Honest,
     HandedOver, Held, Awake, Quiet, Stopping, UserHeld, Watching, Killing,
     StoppedAs, ResultOf, Up, Report, Result, Done, Place
<1>6. RoomLeft'
  BY ChainLength, BudgetAssumption DEF IInv, TypeOK, RoomLeft, RestartBudget,
     WithinCap, CanFailRestart, CanAdvance
<1>7. QED BY <1>1, <1>2, <1>3, <1>4, <1>5, <1>6 DEF IInv

LEMMA ReapTerminalInv == ASSUME IInv, ReapTerminal PROVE IInv'
<1> USE DEF ReapTerminal, RegisterStop, session, proc, budget, signals, takeover, past
<1>1. TypeOK'
  BY DEF IInv, TypeOK, RowStatus, Result, Report, ExitCode, Saver, Final, Place,
     Killing, Watching, StoppedAs, ResultOf
<1>2. Stopped'
  BY DEF IInv, TypeOK, Stopped, Up, Done, Saver, Quiet, Stopping, UserHeld,
     Watching, Killing
<1>3. RowFollows'
  BY DEF IInv, TypeOK, Stopped, RowFollows, HandedOver, Held, Awake, Quiet,
     Stopping, UserHeld, Watching, Killing, StoppedAs, ResultOf, Final, Place
<1>4. HandedOver' /\ VerdictMatchesRow'
  BY DEF IInv, TypeOK, Stopped, RowFollows, HandedOver, Held, VerdictMatchesRow,
     Awake, Quiet, Stopping, UserHeld, Watching, Killing, StoppedAs, ResultOf, Up,
     Final, Place
<1>5. ReportsCount'
  BY DEF IInv, TypeOK, Stopped, RowFollows, ReportsCount, CompletedHonestly, Honest,
     HandedOver, Held, Awake, Quiet, Stopping, UserHeld, Watching, Killing,
     StoppedAs, ResultOf, Up, Report, Result, Done, Place
<1>6. RoomLeft'
  BY ChainLength, BudgetAssumption DEF IInv, TypeOK, RoomLeft, RestartBudget,
     WithinCap, CanFailRestart, CanAdvance
<1>7. QED BY <1>1, <1>2, <1>3, <1>4, <1>5, <1>6 DEF IInv

LEMMA ReapStallInv == ASSUME IInv, ReapStall PROVE IInv'
<1> USE DEF ReapStall, RegisterStop, session, proc, budget, signals, takeover, past
<1>1. TypeOK'
  BY DEF IInv, TypeOK, RowStatus, Result, Report, ExitCode, Saver, Final, Place,
     Killing, Watching, StoppedAs, ResultOf
<1>2. Stopped'
  BY DEF IInv, TypeOK, Stopped, Up, Done, Saver, Quiet, Stopping, UserHeld,
     Watching, Killing
<1>3. RowFollows'
  BY DEF IInv, TypeOK, Stopped, RowFollows, HandedOver, Held, Awake, Quiet,
     Stopping, UserHeld, Watching, Killing, StoppedAs, ResultOf, Final, Place
<1>4. HandedOver' /\ VerdictMatchesRow'
  BY DEF IInv, TypeOK, Stopped, RowFollows, HandedOver, Held, VerdictMatchesRow,
     Awake, Quiet, Stopping, UserHeld, Watching, Killing, StoppedAs, ResultOf, Up,
     Final, Place
<1>5. ReportsCount'
  BY DEF IInv, TypeOK, Stopped, RowFollows, ReportsCount, CompletedHonestly, Honest,
     HandedOver, Held, Awake, Quiet, Stopping, UserHeld, Watching, Killing,
     StoppedAs, ResultOf, Up, Report, Result, Done, Place
<1>6. RoomLeft'
  BY ChainLength, BudgetAssumption DEF IInv, TypeOK, RoomLeft, RestartBudget,
     WithinCap, CanFailRestart, CanAdvance
<1>7. QED BY <1>1, <1>2, <1>3, <1>4, <1>5, <1>6 DEF IInv

LEMMA ReapLimitInv == ASSUME IInv, ReapLimit PROVE IInv'
<1> USE DEF ReapLimit, RegisterStop, session, proc, budget, signals, takeover, past
<1>1. TypeOK'
  BY DEF IInv, TypeOK, RowStatus, Result, Report, ExitCode, Saver, Final, Place,
     Killing, Watching, StoppedAs, ResultOf
<1>2. Stopped'
  BY DEF IInv, TypeOK, Stopped, Up, Done, Saver, Quiet, Stopping, UserHeld,
     Watching, Killing
<1>3. RowFollows'
  BY DEF IInv, TypeOK, Stopped, RowFollows, HandedOver, Held, Awake, Quiet,
     Stopping, UserHeld, Watching, Killing, StoppedAs, ResultOf, Final, Place
<1>4. HandedOver' /\ VerdictMatchesRow'
  BY DEF IInv, TypeOK, Stopped, RowFollows, HandedOver, Held, VerdictMatchesRow,
     Awake, Quiet, Stopping, UserHeld, Watching, Killing, StoppedAs, ResultOf, Up,
     Final, Place
<1>5. ReportsCount'
  BY DEF IInv, TypeOK, Stopped, RowFollows, ReportsCount, CompletedHonestly, Honest,
     HandedOver, Held, Awake, Quiet, Stopping, UserHeld, Watching, Killing,
     StoppedAs, ResultOf, Up, Report, Result, Done, Place
<1>6. RoomLeft'
  BY ChainLength, BudgetAssumption DEF IInv, TypeOK, RoomLeft, RestartBudget,
     WithinCap, CanFailRestart, CanAdvance
<1>7. QED BY <1>1, <1>2, <1>3, <1>4, <1>5, <1>6 DEF IInv

LEMMA ReapTimeoutInv == ASSUME IInv, ReapTimeout PROVE IInv'
<1> USE DEF ReapTimeout, RegisterStop, session, proc, budget, signals, takeover, past
<1>1. TypeOK'
  BY DEF IInv, TypeOK, RowStatus, Result, Report, ExitCode, Saver, Final, Place,
     Killing, Watching, StoppedAs, ResultOf
<1>2. Stopped'
  BY DEF IInv, TypeOK, Stopped, Up, Done, Saver, Quiet, Stopping, UserHeld,
     Watching, Killing
<1>3. RowFollows'
  BY DEF IInv, TypeOK, Stopped, RowFollows, HandedOver, Held, Awake, Quiet,
     Stopping, UserHeld, Watching, Killing, StoppedAs, ResultOf, Final, Place
<1>4. HandedOver' /\ VerdictMatchesRow'
  BY DEF IInv, TypeOK, Stopped, RowFollows, HandedOver, Held, VerdictMatchesRow,
     Awake, Quiet, Stopping, UserHeld, Watching, Killing, StoppedAs, ResultOf, Up,
     Final, Place
<1>5. ReportsCount'
  BY DEF IInv, TypeOK, Stopped, RowFollows, ReportsCount, CompletedHonestly, Honest,
     HandedOver, Held, Awake, Quiet, Stopping, UserHeld, Watching, Killing,
     StoppedAs, ResultOf, Up, Report, Result, Done, Place
<1>6. RoomLeft'
  BY ChainLength, BudgetAssumption DEF IInv, TypeOK, RoomLeft, RestartBudget,
     WithinCap, CanFailRestart, CanAdvance
<1>7. QED BY <1>1, <1>2, <1>3, <1>4, <1>5, <1>6 DEF IInv

LEMMA ReapCancelledInv == ASSUME IInv, ReapCancelled PROVE IInv'
<1> USE DEF ReapCancelled, RegisterStop, session, proc, budget, signals, takeover, past
<1>1. TypeOK'
  BY DEF IInv, TypeOK, RowStatus, Result, Report, ExitCode, Saver, Final, Place,
     Killing, Watching, StoppedAs, ResultOf
<1>2. Stopped'
  BY DEF IInv, TypeOK, Stopped, Up, Done, Saver, Quiet, Stopping, UserHeld,
     Watching, Killing
<1>3. RowFollows'
  BY DEF IInv, TypeOK, Stopped, RowFollows, HandedOver, Held, Awake, Quiet,
     Stopping, UserHeld, Watching, Killing, StoppedAs, ResultOf, Final, Place
<1>4. HandedOver' /\ VerdictMatchesRow'
  BY DEF IInv, TypeOK, Stopped, RowFollows, HandedOver, Held, VerdictMatchesRow,
     Awake, Quiet, Stopping, UserHeld, Watching, Killing, StoppedAs, ResultOf, Up,
     Final, Place
<1>5. ReportsCount'
  BY DEF IInv, TypeOK, Stopped, RowFollows, ReportsCount, CompletedHonestly, Honest,
     HandedOver, Held, Awake, Quiet, Stopping, UserHeld, Watching, Killing,
     StoppedAs, ResultOf, Up, Report, Result, Done, Place
<1>6. RoomLeft'
  BY ChainLength, BudgetAssumption DEF IInv, TypeOK, RoomLeft, RestartBudget,
     WithinCap, CanFailRestart, CanAdvance
<1>7. QED BY <1>1, <1>2, <1>3, <1>4, <1>5, <1>6 DEF IInv

LEMMA ReapControlInv == ASSUME IInv, ReapControl PROVE IInv'
<1> USE DEF ReapControl, RegisterStop, session, proc, budget, signals, takeover, past
<1>1. TypeOK'
  <2>1. /\ hardFail' \in BOOLEAN /\ rotation' \in BOOLEAN /\ heard' \in BOOLEAN
        /\ startFailed' \in BOOLEAN /\ signal' \in BOOLEAN
        /\ cancelled' \in BOOLEAN /\ killed' \in BOOLEAN
    BY DEF IInv, TypeOK
  <2>2. /\ row' \in RowStatus /\ result' \in Result /\ mon' \in Place
        /\ process' \in ExitCode \cup {"up"} /\ saver' \in Saver /\ final' \in Final
    BY DEF IInv, TypeOK, RowStatus, Result, Report, ExitCode, Saver, Final, Place,
     Killing, Watching, StoppedAs, ResultOf
  <2>3. /\ said' \in {"none", "pass", "other", "late"}
        /\ wait' \in {"none", "open", "closed"}
        /\ exitPc' \in {"idle", "signal", "done"}
        /\ killPc' \in {"idle", "signal", "done"}
    BY DEF IInv, TypeOK
  <2>4. /\ restarts' \in Nat /\ failRestarts' \in Nat /\ stalls' \in Nat
        /\ startStalls' \in Nat /\ chainPos' \in Nat
    BY DEF IInv, TypeOK
  <2>5. pastRows' \subseteq RowStatus BY DEF IInv, TypeOK
  <2>6. stray' \in BOOLEAN BY DEF IInv, TypeOK, Up
  <2>7. QED BY <2>1, <2>2, <2>3, <2>4, <2>5, <2>6 DEF TypeOK
<1>2. Stopped'
  BY DEF IInv, TypeOK, Stopped, Up, Done, Saver, Quiet, Stopping, UserHeld,
     Watching, Killing
<1>3. RowFollows'
  BY DEF IInv, TypeOK, Stopped, RowFollows, HandedOver, Held, Awake, Quiet,
     Stopping, UserHeld, Watching, Killing, StoppedAs, ResultOf, Final, Place
<1>4. HandedOver' /\ VerdictMatchesRow'
  BY DEF IInv, TypeOK, Stopped, RowFollows, HandedOver, Held, VerdictMatchesRow,
     Awake, Quiet, Stopping, UserHeld, Watching, Killing, StoppedAs, ResultOf, Up,
     Final, Place
<1>5. ReportsCount'
  BY DEF IInv, TypeOK, Stopped, RowFollows, ReportsCount, CompletedHonestly, Honest,
     HandedOver, Held, Awake, Quiet, Stopping, UserHeld, Watching, Killing,
     StoppedAs, ResultOf, Up, Report, Result, Done, Place
<1>6. RoomLeft'
  BY ChainLength, BudgetAssumption DEF IInv, TypeOK, RoomLeft, RestartBudget,
     WithinCap, CanFailRestart, CanAdvance
<1>7. QED BY <1>1, <1>2, <1>3, <1>4, <1>5, <1>6 DEF IInv

LEMMA StallWaitOverInv == ASSUME IInv, StallWaitOver PROVE IInv'
<1> USE DEF StallWaitOver, RegisterStop, session, proc, budget, signals, takeover, past
<1>1. TypeOK'
  BY DEF IInv, TypeOK, RowStatus, Result, Report, ExitCode, Saver, Final, Place,
     Killing, Watching, StoppedAs, ResultOf
<1>2. Stopped'
  BY DEF IInv, TypeOK, Stopped, Up, Done, Saver, Quiet, Stopping, UserHeld,
     Watching, Killing
<1>3. RowFollows'
  BY DEF IInv, TypeOK, Stopped, RowFollows, HandedOver, Held, Awake, Quiet,
     Stopping, UserHeld, Watching, Killing, StoppedAs, ResultOf, Final, Place
<1>4. HandedOver' /\ VerdictMatchesRow'
  BY DEF IInv, TypeOK, Stopped, RowFollows, HandedOver, Held, VerdictMatchesRow,
     Awake, Quiet, Stopping, UserHeld, Watching, Killing, StoppedAs, ResultOf, Up,
     Final, Place
<1>5. ReportsCount'
  BY DEF IInv, TypeOK, Stopped, RowFollows, ReportsCount, CompletedHonestly, Honest,
     HandedOver, Held, Awake, Quiet, Stopping, UserHeld, Watching, Killing,
     StoppedAs, ResultOf, Up, Report, Result, Done, Place
<1>6. RoomLeft'
  BY ChainLength, BudgetAssumption DEF IInv, TypeOK, RoomLeft, RestartBudget,
     WithinCap, CanFailRestart, CanAdvance
<1>7. QED BY <1>1, <1>2, <1>3, <1>4, <1>5, <1>6 DEF IInv

LEMMA RetryWaitOverInv == ASSUME IInv, RetryWaitOver PROVE IInv'
<1> USE DEF RetryWaitOver, RetryRow, RegisterStop, session, proc, budget, signals,
     takeover, past
<1>1. TypeOK'
  BY DEF IInv, TypeOK, RowStatus, Result, Report, ExitCode, Saver, Final, Place,
     Killing, Watching, StoppedAs, ResultOf
<1>2. Stopped'
  BY DEF IInv, TypeOK, Stopped, Up, Done, Saver, Quiet, Stopping, UserHeld,
     Watching, Killing
<1>3. RowFollows'
  BY DEF IInv, TypeOK, Stopped, RowFollows, HandedOver, Held, Awake, Quiet,
     Stopping, UserHeld, Watching, Killing, StoppedAs, ResultOf, Final, Place
<1>4. HandedOver' /\ VerdictMatchesRow'
  BY DEF IInv, TypeOK, Stopped, RowFollows, HandedOver, Held, VerdictMatchesRow,
     Awake, Quiet, Stopping, UserHeld, Watching, Killing, StoppedAs, ResultOf, Up,
     Final, Place
<1>5. ReportsCount'
  BY DEF IInv, TypeOK, Stopped, RowFollows, ReportsCount, CompletedHonestly, Honest,
     HandedOver, Held, Awake, Quiet, Stopping, UserHeld, Watching, Killing,
     StoppedAs, ResultOf, Up, Report, Result, Done, Place
<1>6. RoomLeft'
  BY ChainLength, BudgetAssumption DEF IInv, TypeOK, RoomLeft, RestartBudget,
     WithinCap, CanFailRestart, CanAdvance
<1>7. QED BY <1>1, <1>2, <1>3, <1>4, <1>5, <1>6 DEF IInv

LEMMA WaitCancelledInv == ASSUME IInv, WaitCancelled PROVE IInv'
<1> USE DEF WaitCancelled, RegisterStop, session, proc, budget, signals, takeover, past
<1>1. TypeOK'
  BY DEF IInv, TypeOK, RowStatus, Result, Report, ExitCode, Saver, Final, Place,
     Killing, Watching, StoppedAs, ResultOf
<1>2. Stopped'
  BY DEF IInv, TypeOK, Stopped, Up, Done, Saver, Quiet, Stopping, UserHeld,
     Watching, Killing
<1>3. RowFollows'
  BY DEF IInv, TypeOK, Stopped, RowFollows, HandedOver, Held, Awake, Quiet,
     Stopping, UserHeld, Watching, Killing, StoppedAs, ResultOf, Final, Place
<1>4. HandedOver' /\ VerdictMatchesRow'
  BY DEF IInv, TypeOK, Stopped, RowFollows, HandedOver, Held, VerdictMatchesRow,
     Awake, Quiet, Stopping, UserHeld, Watching, Killing, StoppedAs, ResultOf, Up,
     Final, Place
<1>5. ReportsCount'
  BY DEF IInv, TypeOK, Stopped, RowFollows, ReportsCount, CompletedHonestly, Honest,
     HandedOver, Held, Awake, Quiet, Stopping, UserHeld, Watching, Killing,
     StoppedAs, ResultOf, Up, Report, Result, Done, Place
<1>6. RoomLeft'
  BY ChainLength, BudgetAssumption DEF IInv, TypeOK, RoomLeft, RestartBudget,
     WithinCap, CanFailRestart, CanAdvance
<1>7. QED BY <1>1, <1>2, <1>3, <1>4, <1>5, <1>6 DEF IInv

LEMMA LimitWaitOverInv == ASSUME IInv, LimitWaitOver PROVE IInv'
<1> USE DEF LimitWaitOver, RegisterStop, session, proc, budget, signals, takeover, past
<1>1. TypeOK'
  BY DEF IInv, TypeOK, RowStatus, Result, Report, ExitCode, Saver, Final, Place,
     Killing, Watching, StoppedAs, ResultOf
<1>2. Stopped'
  BY DEF IInv, TypeOK, Stopped, Up, Done, Saver, Quiet, Stopping, UserHeld,
     Watching, Killing
<1>3. RowFollows'
  <2>1. CASE mon = "inBandWait"
    BY <2>1 DEF IInv, RowFollows, Awake, Stopping, Watching, Killing
  <2>2. CASE mon = "limitWait"
    <3>1. final = "CONTINUE" /\ row = "continued"
      BY <2>2 DEF IInv, RowFollows
    <3>2. QED BY <2>2, <3>1 DEF IInv, RowFollows, Awake, Stopping, Watching,
     Killing, StoppedAs, ResultOf
  <2>3. QED BY <2>1, <2>2
<1>4. HandedOver' /\ VerdictMatchesRow'
  BY DEF IInv, TypeOK, Stopped, RowFollows, HandedOver, Held, VerdictMatchesRow,
     Awake, Quiet, Stopping, UserHeld, Watching, Killing, StoppedAs, ResultOf, Up,
     Final, Place
<1>5. ReportsCount'
  BY DEF IInv, TypeOK, Stopped, RowFollows, ReportsCount, CompletedHonestly, Honest,
     HandedOver, Held, Awake, Quiet, Stopping, UserHeld, Watching, Killing,
     StoppedAs, ResultOf, Up, Report, Result, Done, Place
<1>6. RoomLeft'
  BY ChainLength, BudgetAssumption DEF IInv, TypeOK, RoomLeft, RestartBudget,
     WithinCap, CanFailRestart, CanAdvance
<1>7. QED BY <1>1, <1>2, <1>3, <1>4, <1>5, <1>6 DEF IInv

LEMMA RegisterWaitInv == ASSUME IInv, RegisterWait PROVE IInv'
<1> USE DEF RegisterWait, RegisterStop, session, proc, budget, signals, takeover, past
<1>1. TypeOK'
  BY DEF IInv, TypeOK, RowStatus, Result, Report, ExitCode, Saver, Final, Place,
     Killing, Watching, StoppedAs, ResultOf
<1>2. Stopped'
  BY DEF IInv, TypeOK, Stopped, Up, Done, Saver, Quiet, Stopping, UserHeld,
     Watching, Killing
<1>3. RowFollows'
  BY DEF IInv, TypeOK, Stopped, RowFollows, HandedOver, Held, Awake, Quiet,
     Stopping, UserHeld, Watching, Killing, StoppedAs, ResultOf, Final, Place
<1>4. HandedOver' /\ VerdictMatchesRow'
  BY DEF IInv, TypeOK, Stopped, RowFollows, HandedOver, Held, VerdictMatchesRow,
     Awake, Quiet, Stopping, UserHeld, Watching, Killing, StoppedAs, ResultOf, Up,
     Final, Place
<1>5. ReportsCount'
  BY DEF IInv, TypeOK, Stopped, RowFollows, ReportsCount, CompletedHonestly, Honest,
     HandedOver, Held, Awake, Quiet, Stopping, UserHeld, Watching, Killing,
     StoppedAs, ResultOf, Up, Report, Result, Done, Place
<1>6. RoomLeft'
  BY ChainLength, BudgetAssumption DEF IInv, TypeOK, RoomLeft, RestartBudget,
     WithinCap, CanFailRestart, CanAdvance
<1>7. QED BY <1>1, <1>2, <1>3, <1>4, <1>5, <1>6 DEF IInv

LEMMA InteractiveOverInv == ASSUME IInv, InteractiveOver PROVE IInv'
<1> USE DEF InteractiveOver, WaitEnds, RegisterStop, session, proc, budget, signals,
     takeover, past
<1>1. TypeOK'
  <2>1. /\ hardFail' \in BOOLEAN /\ rotation' \in BOOLEAN /\ heard' \in BOOLEAN
        /\ startFailed' \in BOOLEAN /\ signal' \in BOOLEAN
        /\ cancelled' \in BOOLEAN /\ killed' \in BOOLEAN
    BY DEF IInv, TypeOK
  <2>2. /\ row' \in RowStatus /\ result' \in Result /\ mon' \in Place
        /\ process' \in ExitCode \cup {"up"} /\ saver' \in Saver /\ final' \in Final
    BY DEF IInv, TypeOK, RowStatus, Result, Report, ExitCode, Saver, Final, Place,
     Killing, Watching, StoppedAs, ResultOf
  <2>3. /\ said' \in {"none", "pass", "other", "late"}
        /\ wait' \in {"none", "open", "closed"}
        /\ exitPc' \in {"idle", "signal", "done"}
        /\ killPc' \in {"idle", "signal", "done"}
    BY DEF IInv, TypeOK
  <2>4. /\ restarts' \in Nat /\ failRestarts' \in Nat /\ stalls' \in Nat
        /\ startStalls' \in Nat /\ chainPos' \in Nat
    BY DEF IInv, TypeOK
  <2>5. pastRows' \subseteq RowStatus BY DEF IInv, TypeOK
  <2>6. stray' \in BOOLEAN BY DEF IInv, TypeOK, Up
  <2>7. QED BY <2>1, <2>2, <2>3, <2>4, <2>5, <2>6 DEF TypeOK
<1>2. Stopped'
  BY DEF IInv, TypeOK, Stopped, Up, Done, Saver, Quiet, Stopping, UserHeld,
     Watching, Killing
<1>3. RowFollows'
  BY DEF IInv, TypeOK, Stopped, RowFollows, HandedOver, Held, Awake, Quiet,
     Stopping, UserHeld, Watching, Killing, StoppedAs, ResultOf, Final, Place
<1>4. HandedOver' /\ VerdictMatchesRow'
  BY DEF IInv, TypeOK, Stopped, RowFollows, HandedOver, Held, VerdictMatchesRow,
     Awake, Quiet, Stopping, UserHeld, Watching, Killing, StoppedAs, ResultOf, Up,
     Final, Place
<1>5. ReportsCount'
  BY DEF IInv, TypeOK, Stopped, RowFollows, ReportsCount, CompletedHonestly, Honest,
     HandedOver, Held, Awake, Quiet, Stopping, UserHeld, Watching, Killing,
     StoppedAs, ResultOf, Up, Report, Result, Done, Place
<1>6. RoomLeft'
  BY ChainLength, BudgetAssumption DEF IInv, TypeOK, RoomLeft, RestartBudget,
     WithinCap, CanFailRestart, CanAdvance
<1>7. QED BY <1>1, <1>2, <1>3, <1>4, <1>5, <1>6 DEF IInv

LEMMA SpeakInv == ASSUME IInv, Speak PROVE IInv'
<1> USE DEF Speak, RegisterStop, session, proc, budget, signals, takeover, past
<1>1. TypeOK'
  BY DEF IInv, TypeOK, RowStatus, Result, Report, ExitCode, Saver, Final, Place,
     Killing, Watching, StoppedAs, ResultOf
<1>2. Stopped'
  BY DEF IInv, TypeOK, Stopped, Up, Done, Saver, Quiet, Stopping, UserHeld,
     Watching, Killing
<1>3. RowFollows'
  BY DEF IInv, TypeOK, Stopped, RowFollows, HandedOver, Held, Awake, Quiet,
     Stopping, UserHeld, Watching, Killing, StoppedAs, ResultOf, Final, Place
<1>4. HandedOver' /\ VerdictMatchesRow'
  BY DEF IInv, TypeOK, Stopped, RowFollows, HandedOver, Held, VerdictMatchesRow,
     Awake, Quiet, Stopping, UserHeld, Watching, Killing, StoppedAs, ResultOf, Up,
     Final, Place
<1>5. ReportsCount'
  BY DEF IInv, TypeOK, Stopped, RowFollows, ReportsCount, CompletedHonestly, Honest,
     HandedOver, Held, Awake, Quiet, Stopping, UserHeld, Watching, Killing,
     StoppedAs, ResultOf, Up, Report, Result, Done, Place
<1>6. RoomLeft'
  BY ChainLength, BudgetAssumption DEF IInv, TypeOK, RoomLeft, RestartBudget,
     WithinCap, CanFailRestart, CanAdvance
<1>7. QED BY <1>1, <1>2, <1>3, <1>4, <1>5, <1>6 DEF IInv

LEMMA ExitInv == ASSUME IInv, NEW c \in ExitCode, Exit(c) PROVE IInv'
<1> USE DEF Exit, RegisterStop, session, proc, budget, signals, takeover, past
<1>1. TypeOK'
  BY DEF IInv, TypeOK, RowStatus, Result, Report, ExitCode, Saver, Final, Place,
     Killing, Watching, StoppedAs, ResultOf
<1>2. Stopped'
  BY DEF IInv, TypeOK, Stopped, Up, Done, Saver, Quiet, Stopping, UserHeld,
     Watching, Killing
<1>3. RowFollows'
  BY DEF IInv, TypeOK, Stopped, RowFollows, HandedOver, Held, Awake, Quiet,
     Stopping, UserHeld, Watching, Killing, StoppedAs, ResultOf, Final, Place
<1>4. HandedOver' /\ VerdictMatchesRow'
  BY DEF IInv, TypeOK, Stopped, RowFollows, HandedOver, Held, VerdictMatchesRow,
     Awake, Quiet, Stopping, UserHeld, Watching, Killing, StoppedAs, ResultOf, Up,
     Final, Place
<1>5. ReportsCount'
  BY DEF IInv, TypeOK, Stopped, RowFollows, ReportsCount, CompletedHonestly, Honest,
     HandedOver, Held, Awake, Quiet, Stopping, UserHeld, Watching, Killing,
     StoppedAs, ResultOf, Up, Report, Result, Done, Place
<1>6. RoomLeft'
  BY ChainLength, BudgetAssumption DEF IInv, TypeOK, RoomLeft, RestartBudget,
     WithinCap, CanFailRestart, CanAdvance
<1>7. QED BY <1>1, <1>2, <1>3, <1>4, <1>5, <1>6 DEF IInv

LEMMA ReportsInv == ASSUME IInv, NEW r \in Report, Reports(r) PROVE IInv'
<1> USE DEF Reports, RegisterStop, session, proc, budget, signals, takeover, past
<1>1. TypeOK'
  BY DEF IInv, TypeOK, RowStatus, Result, Report, ExitCode, Saver, Final, Place,
     Killing, Watching, StoppedAs, ResultOf
<1>2. Stopped'
  BY DEF IInv, TypeOK, Stopped, Up, Done, Saver, Quiet, Stopping, UserHeld,
     Watching, Killing
<1>3. RowFollows'
  BY DEF IInv, TypeOK, Stopped, RowFollows, HandedOver, Held, Awake, Quiet,
     Stopping, UserHeld, Watching, Killing, StoppedAs, ResultOf, Final, Place
<1>4. HandedOver' /\ VerdictMatchesRow'
  BY DEF IInv, TypeOK, Stopped, RowFollows, HandedOver, Held, VerdictMatchesRow,
     Awake, Quiet, Stopping, UserHeld, Watching, Killing, StoppedAs, ResultOf, Up,
     Final, Place
<1>5. ReportsCount'
  BY DEF IInv, TypeOK, Stopped, RowFollows, ReportsCount, CompletedHonestly, Honest,
     HandedOver, Held, Awake, Quiet, Stopping, UserHeld, Watching, Killing,
     StoppedAs, ResultOf, Up, Report, Result, Done, Place
<1>6. RoomLeft'
  BY ChainLength, BudgetAssumption DEF IInv, TypeOK, RoomLeft, RestartBudget,
     WithinCap, CanFailRestart, CanAdvance
<1>7. QED BY <1>1, <1>2, <1>3, <1>4, <1>5, <1>6 DEF IInv

LEMMA ExitRowInv == ASSUME IInv, ExitRow PROVE IInv'
<1> USE DEF ExitRow, RegisterStop, session, proc, budget, signals, takeover, past
<1>1. TypeOK'
  BY DEF IInv, TypeOK, RowStatus, Result, Report, ExitCode, Saver, Final, Place,
     Killing, Watching, StoppedAs, ResultOf
<1>2. Stopped'
  BY DEF IInv, TypeOK, Stopped, Up, Done, Saver, Quiet, Stopping, UserHeld,
     Watching, Killing
<1>3. RowFollows'
  BY DEF IInv, TypeOK, Stopped, RowFollows, HandedOver, Held, Awake, Quiet,
     Stopping, UserHeld, Watching, Killing, StoppedAs, ResultOf, Final, Place
<1>4. HandedOver' /\ VerdictMatchesRow'
  BY DEF IInv, TypeOK, Stopped, RowFollows, HandedOver, Held, VerdictMatchesRow,
     Awake, Quiet, Stopping, UserHeld, Watching, Killing, StoppedAs, ResultOf, Up,
     Final, Place
<1>5. ReportsCount'
  BY DEF IInv, TypeOK, Stopped, RowFollows, ReportsCount, CompletedHonestly, Honest,
     HandedOver, Held, Awake, Quiet, Stopping, UserHeld, Watching, Killing,
     StoppedAs, ResultOf, Up, Report, Result, Done, Place
<1>6. RoomLeft'
  BY ChainLength, BudgetAssumption DEF IInv, TypeOK, RoomLeft, RestartBudget,
     WithinCap, CanFailRestart, CanAdvance
<1>7. QED BY <1>1, <1>2, <1>3, <1>4, <1>5, <1>6 DEF IInv

LEMMA ExitSignalInv == ASSUME IInv, ExitSignal PROVE IInv'
<1> USE DEF ExitSignal, CloseWait, RegisterStop, session, proc, budget, signals,
     takeover, past
<1>1. TypeOK'
  BY DEF IInv, TypeOK, RowStatus, Result, Report, ExitCode, Saver, Final, Place,
     Killing, Watching, StoppedAs, ResultOf
<1>2. Stopped'
  BY DEF IInv, TypeOK, Stopped, Up, Done, Saver, Quiet, Stopping, UserHeld,
     Watching, Killing
<1>3. RowFollows'
  BY DEF IInv, TypeOK, Stopped, RowFollows, HandedOver, Held, Awake, Quiet,
     Stopping, UserHeld, Watching, Killing, StoppedAs, ResultOf, Final, Place
<1>4. HandedOver' /\ VerdictMatchesRow'
  BY DEF IInv, TypeOK, Stopped, RowFollows, HandedOver, Held, VerdictMatchesRow,
     Awake, Quiet, Stopping, UserHeld, Watching, Killing, StoppedAs, ResultOf, Up,
     Final, Place
<1>5. ReportsCount'
  BY DEF IInv, TypeOK, Stopped, RowFollows, ReportsCount, CompletedHonestly, Honest,
     HandedOver, Held, Awake, Quiet, Stopping, UserHeld, Watching, Killing,
     StoppedAs, ResultOf, Up, Report, Result, Done, Place
<1>6. RoomLeft'
  BY ChainLength, BudgetAssumption DEF IInv, TypeOK, RoomLeft, RestartBudget,
     WithinCap, CanFailRestart, CanAdvance
<1>7. QED BY <1>1, <1>2, <1>3, <1>4, <1>5, <1>6 DEF IInv

LEMMA KillRowInv == ASSUME IInv, KillRow PROVE IInv'
<1> USE DEF KillRow, RegisterStop, session, proc, budget, signals, takeover, past
<1>1. TypeOK'
  BY DEF IInv, TypeOK, RowStatus, Result, Report, ExitCode, Saver, Final, Place,
     Killing, Watching, StoppedAs, ResultOf
<1>2. Stopped'
  BY DEF IInv, TypeOK, Stopped, Up, Done, Saver, Quiet, Stopping, UserHeld,
     Watching, Killing
<1>3. RowFollows'
  BY DEF IInv, TypeOK, Stopped, RowFollows, HandedOver, Held, Awake, Quiet,
     Stopping, UserHeld, Watching, Killing, StoppedAs, ResultOf, Final, Place
<1>4. HandedOver' /\ VerdictMatchesRow'
  BY DEF IInv, TypeOK, Stopped, RowFollows, HandedOver, Held, VerdictMatchesRow,
     Awake, Quiet, Stopping, UserHeld, Watching, Killing, StoppedAs, ResultOf, Up,
     Final, Place
<1>5. ReportsCount'
  BY DEF IInv, TypeOK, Stopped, RowFollows, ReportsCount, CompletedHonestly, Honest,
     HandedOver, Held, Awake, Quiet, Stopping, UserHeld, Watching, Killing,
     StoppedAs, ResultOf, Up, Report, Result, Done, Place
<1>6. RoomLeft'
  BY ChainLength, BudgetAssumption DEF IInv, TypeOK, RoomLeft, RestartBudget,
     WithinCap, CanFailRestart, CanAdvance
<1>7. QED BY <1>1, <1>2, <1>3, <1>4, <1>5, <1>6 DEF IInv

LEMMA KillSignalInv == ASSUME IInv, KillSignal PROVE IInv'
<1> USE DEF KillSignal, CloseWait, RegisterStop, session, proc, budget, signals,
     takeover, past
<1>1. TypeOK'
  BY DEF IInv, TypeOK, RowStatus, Result, Report, ExitCode, Saver, Final, Place,
     Killing, Watching, StoppedAs, ResultOf
<1>2. Stopped'
  BY DEF IInv, TypeOK, Stopped, Up, Done, Saver, Quiet, Stopping, UserHeld,
     Watching, Killing
<1>3. RowFollows'
  BY DEF IInv, TypeOK, Stopped, RowFollows, HandedOver, Held, Awake, Quiet,
     Stopping, UserHeld, Watching, Killing, StoppedAs, ResultOf, Final, Place
<1>4. HandedOver' /\ VerdictMatchesRow'
  BY DEF IInv, TypeOK, Stopped, RowFollows, HandedOver, Held, VerdictMatchesRow,
     Awake, Quiet, Stopping, UserHeld, Watching, Killing, StoppedAs, ResultOf, Up,
     Final, Place
<1>5. ReportsCount'
  BY DEF IInv, TypeOK, Stopped, RowFollows, ReportsCount, CompletedHonestly, Honest,
     HandedOver, Held, Awake, Quiet, Stopping, UserHeld, Watching, Killing,
     StoppedAs, ResultOf, Up, Report, Result, Done, Place
<1>6. RoomLeft'
  BY ChainLength, BudgetAssumption DEF IInv, TypeOK, RoomLeft, RestartBudget,
     WithinCap, CanFailRestart, CanAdvance
<1>7. QED BY <1>1, <1>2, <1>3, <1>4, <1>5, <1>6 DEF IInv

LEMMA CancelRunInv == ASSUME IInv, CancelRun PROVE IInv'
<1> USE DEF CancelRun, RegisterStop, session, proc, budget, signals, takeover, past
<1>1. TypeOK'
  BY DEF IInv, TypeOK, RowStatus, Result, Report, ExitCode, Saver, Final, Place,
     Killing, Watching, StoppedAs, ResultOf
<1>2. Stopped'
  BY DEF IInv, TypeOK, Stopped, Up, Done, Saver, Quiet, Stopping, UserHeld,
     Watching, Killing
<1>3. RowFollows'
  BY DEF IInv, TypeOK, Stopped, RowFollows, HandedOver, Held, Awake, Quiet,
     Stopping, UserHeld, Watching, Killing, StoppedAs, ResultOf, Final, Place
<1>4. HandedOver' /\ VerdictMatchesRow'
  BY DEF IInv, TypeOK, Stopped, RowFollows, HandedOver, Held, VerdictMatchesRow,
     Awake, Quiet, Stopping, UserHeld, Watching, Killing, StoppedAs, ResultOf, Up,
     Final, Place
<1>5. ReportsCount'
  BY DEF IInv, TypeOK, Stopped, RowFollows, ReportsCount, CompletedHonestly, Honest,
     HandedOver, Held, Awake, Quiet, Stopping, UserHeld, Watching, Killing,
     StoppedAs, ResultOf, Up, Report, Result, Done, Place
<1>6. RoomLeft'
  BY ChainLength, BudgetAssumption DEF IInv, TypeOK, RoomLeft, RestartBudget,
     WithinCap, CanFailRestart, CanAdvance
<1>7. QED BY <1>1, <1>2, <1>3, <1>4, <1>5, <1>6 DEF IInv

LEMMA SaverWritesInv == ASSUME IInv, SaverWrites PROVE IInv'
<1> USE DEF SaverWrites, RegisterStop, session, proc, budget, signals, takeover, past
<1>1. TypeOK'
  BY DEF IInv, TypeOK, RowStatus, Result, Report, ExitCode, Saver, Final, Place,
     Killing, Watching, StoppedAs, ResultOf
<1>2. Stopped'
  BY DEF IInv, TypeOK, Stopped, Up, Done, Saver, Quiet, Stopping, UserHeld,
     Watching, Killing
<1>3. RowFollows'
  BY DEF IInv, TypeOK, Stopped, RowFollows, HandedOver, Held, Awake, Quiet,
     Stopping, UserHeld, Watching, Killing, StoppedAs, ResultOf, Final, Place
<1>4. HandedOver' /\ VerdictMatchesRow'
  BY DEF IInv, TypeOK, Stopped, RowFollows, HandedOver, Held, VerdictMatchesRow,
     Awake, Quiet, Stopping, UserHeld, Watching, Killing, StoppedAs, ResultOf, Up,
     Final, Place
<1>5. ReportsCount'
  BY DEF IInv, TypeOK, Stopped, RowFollows, ReportsCount, CompletedHonestly, Honest,
     HandedOver, Held, Awake, Quiet, Stopping, UserHeld, Watching, Killing,
     StoppedAs, ResultOf, Up, Report, Result, Done, Place
<1>6. RoomLeft'
  BY ChainLength, BudgetAssumption DEF IInv, TypeOK, RoomLeft, RestartBudget,
     WithinCap, CanFailRestart, CanAdvance
<1>7. QED BY <1>1, <1>2, <1>3, <1>4, <1>5, <1>6 DEF IInv

LEMMA StepInv == IInv /\ [Next]_vars => IInv'
<1> SUFFICES ASSUME IInv, [Next]_vars PROVE IInv' OBVIOUS
<1>1. CASE Select
  BY <1>1, SelectCancelledInv, SelectNothingInv, SelectTerminalInv, SelectSaveInv,
     SelectControlInv DEF Select
<1>2. CASE Check
  BY <1>2, LowContextInv, CheckDecidedInv, CheckRateLimitedInv, CheckRunningInv,
     CheckCompletedInv, JudgeInv DEF Check
<1>3. CASE Settle
  BY <1>3, SettleFallbackInv, SettleRetryInv, SettleContinueInv, SettleCappedInv,
     SettleFinalInv, RelaunchInv, RelaunchFailsInv DEF Settle
<1>4. CASE Watch
  BY <1>4, StartStallFailsInv, StallInv, InBandLimitInv, NudgeInv, NudgeRestartsInv,
     NudgeFailsInv, RotateInv, TimesOutInv, NotYetInv DEF Watch
<1>5. CASE Reap
  BY <1>5, ReapTerminalInv, ReapStallInv, ReapLimitInv, ReapTimeoutInv,
     ReapCancelledInv, ReapControlInv DEF Reap
<1>6. CASE Pause
  BY <1>6, StallWaitOverInv, RetryWaitOverInv, WaitCancelledInv, LimitWaitOverInv,
     RegisterWaitInv, InteractiveOverInv DEF Pause
<1>7. CASE Agent
  BY <1>7, SpeakInv, ExitInv, ReportsInv DEF Agent
<1>8. CASE User
  BY <1>8, ExitRowInv, ExitSignalInv, KillRowInv, KillSignalInv, CancelRunInv DEF User
<1>9. CASE UNCHANGED vars
  BY <1>9 DEF vars, session, proc, budget, signals, takeover, past, IInv, TypeOK,
     Stopped, RowFollows, HandedOver, Held, VerdictMatchesRow, ReportsCount, Honest,
     CompletedHonestly, RoomLeft, RestartBudget, Up
<1>10. QED
  BY <1>1, <1>2, <1>3, <1>4, <1>5, <1>6, <1>7, <1>8, <1>9, SaverWritesInv DEF Next,
     Monitor

\* The state of the monitor and of the session row stays in range.
THEOREM TypeCorrect == Spec => []TypeOK
<1>1. IInv => TypeOK BY DEF IInv
<1>2. QED BY <1>1, InitInv, StepInv, PTL DEF Spec

\* No session is replaced, and no agent ended, while its process runs: for every
\* interleaving of kills, saves, reports and users.
THEOREM SessionsDoNotOverlap == Spec => []OneLiveSession
<1>1. IInv => OneLiveSession BY DEF IInv, Stopped, OneLiveSession, Quiet
<1>2. QED BY <1>1, InitInv, StepInv, PTL DEF Spec

\* Every session with a successor reads continued.
THEOREM LineageUnbroken == Spec => []Lineage
<1>1. IInv => Lineage BY DEF IInv, RowFollows, Lineage
<1>2. QED BY <1>1, InitInv, StepInv, PTL DEF Spec

\* The verdict that decides the layer is the one that the last row shows.
THEOREM VerdictIsShown == Spec => []VerdictMatchesRow
<1>1. IInv => VerdictMatchesRow BY DEF IInv
<1>2. QED BY <1>1, InitInv, StepInv, PTL DEF Spec

\* A session completes on a reported pass, or silently with exit code 0.
THEOREM CompletionIsHonest == Spec => []CompletedHonestly
<1>1. IInv => CompletedHonestly BY DEF IInv, ReportsCount
<1>2. QED BY <1>1, InitInv, StepInv, PTL DEF Spec

\* All restart paths together stay within the sum of their budgets.
THEOREM RestartsBounded == Spec => []RestartBudget
<1>1. IInv => RestartBudget BY DEF IInv, RoomLeft
<1>2. QED BY <1>1, InitInv, StepInv, PTL DEF Spec

=============================================================================
