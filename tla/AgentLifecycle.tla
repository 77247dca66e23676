-------------------------- MODULE AgentLifecycle --------------------------
(***************************************************************************)
(* One agent of a layer, from its first process to the verdict of its      *)
(* phase (be/internal/spawner: spawner_monitor.go and the files it calls). *)
(*                                                                         *)
(* monitorAll polls the process of the current session.  A session that    *)
(* runs out of context, stalls, times out, fails or hits a rate limit is   *)
(* replaced by a new one until a budget is spent.  Agents report results   *)
(* into the session row while the monitor kills, saves and rewrites that   *)
(* same row; users ask for restarts, take the session over and kill it.    *)
(*                                                                         *)
(* Only the current session has a row and a process of its own here.  Of   *)
(* the earlier ones the model keeps the states their rows were left in and *)
(* whether any was replaced while its process still ran.                   *)
(***************************************************************************)
EXTENDS Naturals, Sequences

CONSTANTS
  Chain,            \* execution backends of the tier fallback chain; those that
                    \* run a process (an API agent writes its own verdict)
  MaxContinuations, \* defaultMaxContinuations
  MaxFailRestarts,  \* max_fail_restarts of the agent definition
  MaxStallRestarts, \* maxStallRestarts
  StartStallCap     \* maxConsecutiveStartStalls

ASSUME ChainAssumption ==
  /\ Chain \in Seq({"cli_interactive", "codex", "script"})
  /\ Chain # << >>
ASSUME BudgetAssumption ==
  /\ MaxContinuations \in Nat /\ MaxFailRestarts \in Nat
  /\ MaxStallRestarts \in Nat /\ StartStallCap \in Nat \ {0}

\* What an agent reports, and the column agent_sessions.result.
Report == {"pass", "fail", "continue", "callback"}
Result == Report \cup {"none", "user_interactive"}

RowStatus == {"running", "completed", "failed", "continued", "callback",
              "user_interactive", "interactive_completed"}

ExitCode == {"clean", "error"}
Final    == {"none", "PASS", "FAIL", "CONTINUE", "CALLBACK", "TIMEOUT",
             "CANCELLED"}
Saver    == {"none", "saving", "done"}

\* Where the monitor waits for doneCh after a kill, and why.
Killing == {"killTerminal", "killStartStall", "killStall", "killNudgeAsked",
            "killNudged", "killLimit", "killTimeout", "killControl",
            "killCancel"}
\* Where the monitor looks at a process that is not done: every check has a
\* place, and a check that finds nothing passes on to the next ones.
Watching == {"watch", "nudge", "rotate", "timeout"}
Place == Killing \cup Watching \cup
         {"select", "check", "judge", "settle", "stallWait", "retryWait",
          "timeoutWait", "limitWait", "inBandWait", "relaunch", "fallback",
          "handover", "interactive", "ended"}

VARIABLES
  row, result, process, \* of the current session
  said,               \* its report: a pass or another one, made while the
                      \* process ran, or one made too late for that
  saver,              \* the context save goroutine; lowContextSaving
  final, hardFail, rotation, heard, startFailed,  \* fields of processInfo
  restarts, failRestarts, stalls, startStalls, chainPos,
  mon,                \* position of monitorAll
  signal, cancelled,  \* a terminal signal is pending; ctx is done
  wait, killed,       \* interactiveWaits and killedInteractive
  exitPc, killPc,     \* the user ending or killing a session taken over
  pastRows, stray     \* earlier sessions

session  == <<row, result, process, said>>
proc     == <<final, hardFail, rotation, heard, startFailed>>
budget   == <<restarts, failRestarts, stalls, startStalls, chainPos>>
signals  == <<signal, cancelled>>
takeover == <<wait, killed, exitPc, killPc>>
past     == <<pastRows, stray>>
vars == <<session, saver, proc, budget, mon, signals, takeover, past>>

Backend == Chain[chainPos + 1]
TracksContext == Backend # "script"
Up == process = "up"

\* proc.doneCh is closed.  While a save is in flight it is the channel of
\* the save, which is closed after the process exited and the row is written.
\* Mutant of Done: the channel of the process is not replaced by a save.
DoneEarly == saver # "none" \/ ~Up
Done == IF saver = "none" THEN ~Up ELSE saver = "done"

CanFailRestart == failRestarts < MaxFailRestarts
CanAdvance     == chainPos < Len(Chain) - 1

\* registerAgentStopWithReason: the status of a session stopped with res.
\* Mutant of StoppedAs: the result is stored as the status.
StoppedVerbatim(res) == IF res = "continue" THEN "continued" ELSE res
StoppedAs(res) ==
  CASE res = "fail"     -> "failed"
    [] res = "continue" -> "continued"
    [] res = "callback" -> "callback"
    [] res = "user_interactive" -> "user_interactive"
    [] OTHER            -> "completed"
RegisterStop(res) == result' = res /\ row' = StoppedAs(res)

Init ==
  /\ row = "running" /\ result = "none" /\ process = "up" /\ said = "none"
  /\ saver = "none"
  /\ final = "none" /\ hardFail = FALSE /\ rotation = FALSE
  /\ heard = FALSE /\ startFailed = FALSE
  /\ restarts = 0 /\ failRestarts = 0 /\ stalls = 0 /\ startStalls = 0
  /\ chainPos = 0
  /\ mon = "select" /\ signal = FALSE /\ cancelled = FALSE
  /\ wait = "none" /\ killed = FALSE /\ exitPc = "idle" /\ killPc = "idle"
  /\ pastRows = {} /\ stray = FALSE

-----------------------------------------------------------------------------
(* The agent process.                                                      *)

\* It prints something; the stall and idle clocks restart.
Speak ==
  /\ Up /\ ~heard /\ heard' = TRUE
  /\ UNCHANGED <<session, saver, final, hardFail, rotation, startFailed,
                 budget, mon, signals, takeover, past>>

\* It calls nrflo agent finished, fail, continue or callback, once.  The
\* socket handler writes the result, whatever the row says by now, and
\* signals the monitor.  A call may still be under way when the process exits; one that
\* lands after the monitor has read the result is not modelled: it changes a
\* column that is written over or never read again.
Reports(r) ==
  /\ said = "none" /\ final = "none" /\ row = "running"
  /\ said' = IF ~Up THEN "late" ELSE IF r = "pass" THEN "pass" ELSE "other"
  /\ result' = r
  /\ signal' = TRUE
  /\ UNCHANGED <<row, process, saver, proc, budget, mon, cancelled,
                 takeover, past>>

\* It exits by itself or because it was killed.
Exit(code) ==
  /\ Up /\ process' = code
  /\ UNCHANGED <<row, result, said, saver, proc, budget, mon,
                 signals, takeover, past>>

-----------------------------------------------------------------------------
(* The context save goroutine.                                             *)

\* It kills the process and waits for it, saves the context, registers the
\* stop and closes the new channel.
SaverWrites ==
  /\ saver = "saving" /\ ~Up /\ saver' = "done"
  /\ RegisterStop("continue") /\ final' = "CONTINUE"
  /\ UNCHANGED <<process, said, hardFail, rotation, heard,
                 startFailed, budget, mon, signals, takeover, past>>

-----------------------------------------------------------------------------
(* monitorAll takes one signal, then looks at the process.  Requests of    *)
(* users and hooks may arrive at any time; only the terminal signal, which *)
(* an agent sends once, is remembered.                                     *)

SelectCancelled ==
  /\ mon = "select" /\ cancelled /\ mon' = "killCancel"
  /\ UNCHANGED <<session, saver, proc, budget, signals, takeover, past>>

SelectNothing ==
  /\ mon = "select" /\ ~cancelled /\ ~signal /\ mon' = "check"
  /\ UNCHANGED <<session, saver, proc, budget, signals, takeover, past>>

SelectTerminal ==
  /\ mon = "select" /\ signal /\ signal' = FALSE /\ mon' = "killTerminal"
  /\ UNCHANGED <<session, saver, proc, budget, cancelled, takeover, past>>

\* The save goroutine is started; a rotation is remembered for the relaunch.
StartSave(rotate) ==
  /\ saver = "none" /\ saver' = "saving"
  /\ rotate => TracksContext
  /\ rotation' = (rotation \/ rotate)
  /\ UNCHANGED <<session, final, hardFail, heard, startFailed, budget,
                 signals, takeover, past>>

\* dispatchManualRestart and dispatchStepRotation.
SelectSave(rotate) == mon = "select" /\ mon' = "check" /\ StartSave(rotate)

\* A codex agent is killed and handed to the user; for the other backends
\* the request is a viewer or is rejected, and changes nothing.
SelectControl ==
  /\ mon = "select" /\ Backend = "codex" /\ mon' = "killControl"
  /\ UNCHANGED <<session, saver, proc, budget, signals, takeover, past>>

\* Low context is looked for before doneCh is: the save also starts on a
\* process that has just exited with its result written.
LowContext ==
  /\ mon = "check" /\ TracksContext /\ StartSave(FALSE) /\ UNCHANGED mon

\* What handleCompletion makes of a result and an exit code.
\* Mutant of Verdict: a clean exit passes before the result is read.
VerdictByExitCode ==
  CASE process = "clean" -> "PASS" [] result = "continue" -> "CONTINUE"
    [] result = "callback" -> "CALLBACK" [] result = "pass" -> "PASS"
    [] OTHER -> "FAIL"
Verdict ==
  CASE result = "fail"     -> "FAIL"
    [] result = "continue" -> "CONTINUE"
    [] result = "callback" -> "CALLBACK"
    [] result = "pass"     -> "PASS"
    [] OTHER -> IF process = "clean" THEN "PASS" ELSE "FAIL"

ResultOf(f) ==
  CASE f = "PASS" -> "pass" [] f = "CONTINUE" -> "continue"
    [] f = "CALLBACK" -> "callback" [] OTHER -> "fail"

\* ClassifyExit looks at the output of a process that failed silently.
Classified == result \notin Report /\ process = "error"

\* A save or a restart has decided already.
CheckDecided ==
  /\ mon = "check" /\ Done /\ final # "none"
  /\ saver' = "none" /\ mon' = "settle"
  /\ UNCHANGED <<session, proc, budget, signals, takeover, past>>

CheckCompleted(providerFail) ==
  /\ mon = "check" /\ Done /\ final = "none"
  /\ saver' = "none" /\ final' = Verdict
  /\ hardFail' = providerFail /\ (providerFail => Classified)
  /\ mon' = "judge"
  /\ UNCHANGED <<session, rotation, heard, startFailed, budget, signals,
                 takeover, past>>

\* handleRateLimitRetry.  How long the waits so far were is not modelled:
\* MaxWait may or may not be reached.
CheckRateLimited ==
  /\ mon = "check" /\ Done /\ final = "none" /\ Classified
  /\ saver' = "none" /\ final' = "CONTINUE" /\ RegisterStop("continue")
  /\ mon' = "limitWait"
  /\ UNCHANGED <<process, said, hardFail, rotation, heard,
                 startFailed, budget, signals, takeover, past>>

CheckRunning ==
  /\ mon = "check" /\ ~Done /\ mon' = "watch"
  /\ UNCHANGED <<session, saver, proc, budget, signals, takeover, past>>

\* The stepwise guard and the validation commands may fail a pass; then the
\* stop is registered.
\* Mutant of Judge: validation fails the agent after its stop is registered.
JudgeLate(f) ==
  /\ mon = "judge" /\ (f = final \/ (final = "PASS" /\ f = "FAIL"))
  /\ final' = f /\ RegisterStop(ResultOf(final)) /\ mon' = "settle"
  /\ UNCHANGED <<process, said, saver, hardFail, rotation, heard,
                 startFailed, budget, signals, takeover, past>>
Judge(f) ==
  /\ mon = "judge" /\ (f = final \/ (final = "PASS" /\ f = "FAIL"))
  /\ final' = f /\ RegisterStop(ResultOf(f)) /\ mon' = "settle"
  /\ UNCHANGED <<process, said, saver, hardFail, rotation, heard,
                 startFailed, budget, signals, takeover, past>>

-----------------------------------------------------------------------------
(* A process that is done, with its finalStatus.                           *)

\* tryChainFallback saves the work and moves to the next entry of the chain.
SettleFallback ==
  /\ mon = "settle" /\ final = "FAIL" /\ hardFail /\ CanAdvance
  /\ RegisterStop("continue") /\ final' = "CONTINUE" /\ mon' = "fallback"
  /\ UNCHANGED <<process, said, saver, hardFail, rotation, heard,
                 startFailed, budget, signals, takeover, past>>

\* A chain that is used up does not stop the ordinary retries.
SettleRetry ==
  /\ mon = "settle" /\ final = "FAIL" /\ ~(hardFail /\ CanAdvance)
  /\ CanFailRestart
  /\ mon' = "retryWait"
  /\ UNCHANGED <<session, saver, proc, budget, signals, takeover, past>>

\* The continuation cap; a rotation is not held up by it.
\* Mutant of WithinCap: off by one.
OneMore   == rotation \/ restarts <= MaxContinuations
WithinCap == rotation \/ restarts < MaxContinuations

SettleContinue ==
  /\ mon = "settle" /\ final = "CONTINUE" /\ WithinCap
  /\ mon' = "relaunch"
  /\ UNCHANGED <<session, saver, proc, budget, signals, takeover, past>>

SettleCapped ==
  /\ mon = "settle" /\ final = "CONTINUE" /\ ~WithinCap
  /\ final' = "FAIL" /\ RegisterStop("fail") /\ mon' = "ended"
  /\ UNCHANGED <<process, said, saver, hardFail, rotation, heard,
                 startFailed, budget, signals, takeover, past>>

SettleFinal ==
  /\ mon = "settle"
  /\ \/ final \notin {"FAIL", "CONTINUE"}
     \/ final = "FAIL" /\ ~(hardFail /\ CanAdvance) /\ ~CanFailRestart
  /\ mon' = "ended"
  /\ UNCHANGED <<session, saver, proc, budget, signals, takeover, past>>

\* applyProactiveRotationCarry.
\* Mutant of CarriedRestarts: the counter is not carried to the new process.
ForgottenRestarts == 0
CarriedRestarts   == IF rotation THEN 0 ELSE restarts + 1

\* relaunchForContinuation and relaunchForFallback.  A signal for the old
\* session finds no process any more; its late reports reach its own row.
Relaunch ==
  /\ mon \in {"relaunch", "fallback"}
  /\ row' = "running" /\ result' = "none" /\ process' = "up"
  /\ said' = "none" /\ signal' = FALSE
  /\ saver' = "none" /\ final' = "none" /\ hardFail' = FALSE
  /\ rotation' = FALSE /\ heard' = FALSE /\ startFailed' = FALSE
  /\ restarts' = CarriedRestarts
  /\ startStalls' = IF heard \/ mon = "fallback" THEN 0 ELSE startStalls
  /\ chainPos' = IF mon = "fallback" THEN chainPos + 1 ELSE chainPos
  /\ pastRows' = pastRows \cup {row} /\ stray' = (stray \/ Up)
  /\ mon' = "select"
  /\ UNCHANGED <<failRestarts, stalls, cancelled,
                 takeover>>

\* The process cannot be started: the agent ends as it stands.
RelaunchFails ==
  /\ mon \in {"relaunch", "fallback"} /\ mon' = "ended"
  /\ UNCHANGED <<session, saver, proc, budget, signals, takeover, past>>

-----------------------------------------------------------------------------
(* A process that is not done: stall, idle, rotation and timeout checks.   *)

StallCheck == /\ mon = "watch" /\ saver = "none" /\ ~startFailed
              /\ stalls < MaxStallRestarts

\* failAgentTerminal writes the failure and signals the monitor.
FailTerminal(next) ==
  /\ result' = "fail" /\ signal' = TRUE /\ mon' = next
  /\ UNCHANGED <<row, process, said, saver, final, hardFail,
                 rotation, heard, budget, cancelled, takeover, past>>

StartStallFails ==
  /\ StallCheck /\ ~heard /\ startStalls + 1 >= StartStallCap
  /\ startFailed' = TRUE /\ FailTerminal("nudge")

Stall ==
  /\ StallCheck
  /\ ~heard => startStalls + 1 < StartStallCap
  /\ mon' = IF heard THEN "killStall" ELSE "killStartStall"
  /\ UNCHANGED <<session, saver, proc, budget, signals, takeover, past>>

\* handleInBandRateLimit: the transcript ends in a rate limit error.
InBandLimit ==
  /\ mon \in {"watch", "nudge"} /\ Backend = "cli_interactive"
  /\ saver = "none" /\ final = "none"
  /\ mon' = "killLimit"
  /\ UNCHANGED <<session, saver, proc, budget, signals, takeover, past>>

\* Reminders are sent by the idle check or on request of a hook.  When they
\* are used up the process is restarted, and failed once its restarts are
\* used up as well.  A save in flight is not looked at.
NudgePlace == /\ Backend = "cli_interactive"
              /\ mon \in {"select", "watch", "nudge"}
AfterNudge == IF mon = "select" THEN "check" ELSE "rotate"

Nudge ==
  /\ NudgePlace /\ heard' = TRUE /\ mon' = AfterNudge
  /\ UNCHANGED <<session, saver, final, hardFail, rotation, startFailed,
                 budget, signals, takeover, past>>

NudgeRestarts ==
  /\ NudgePlace /\ stalls < MaxStallRestarts
  /\ mon' = IF mon = "select" THEN "killNudgeAsked" ELSE "killNudged"
  /\ UNCHANGED <<session, saver, proc, budget, signals, takeover, past>>

NudgeFails ==
  /\ NudgePlace /\ stalls >= MaxStallRestarts
  /\ FailTerminal(AfterNudge) /\ UNCHANGED startFailed

\* checkProactiveRestart.
Rotate ==
  /\ mon \in {"watch", "nudge", "rotate"} /\ mon' = "timeout"
  /\ StartSave(TRUE)

\* The timeout does not ask whether a save is in flight or has decided.
TimesOut ==
  /\ mon \in Watching /\ mon' = "killTimeout"
  /\ UNCHANGED <<session, saver, proc, budget, signals, takeover, past>>

NotYet ==
  /\ mon \in Watching /\ mon' = "select"
  /\ UNCHANGED <<session, saver, proc, budget, signals, takeover, past>>

-----------------------------------------------------------------------------
(* doneCh is closed after a kill by the monitor.                           *)

ReapTerminal ==
  /\ mon = "killTerminal" /\ Done /\ mon' = "check"
  /\ UNCHANGED <<session, saver, proc, budget, signals, takeover, past>>

\* handleStallRestart.
ReapStall ==
  /\ mon \in {"killStartStall", "killStall", "killNudgeAsked", "killNudged"}
  /\ Done
  /\ RegisterStop("continue") /\ final' = "CONTINUE"
  /\ stalls' = stalls + 1
  /\ startStalls' = IF mon = "killStartStall" THEN startStalls + 1
                                              ELSE startStalls
  /\ mon' = CASE mon = "killNudgeAsked" -> "check"
              [] mon = "killNudged" -> "rotate" [] OTHER -> "stallWait"
  /\ UNCHANGED <<process, said, saver, hardFail, rotation, heard,
                 startFailed, restarts, failRestarts, chainPos,
                 signals, takeover, past>>

ReapLimit ==
  /\ mon = "killLimit" /\ Done
  /\ RegisterStop("continue") /\ final' = "CONTINUE" /\ mon' = "inBandWait"
  /\ UNCHANGED <<process, said, saver, hardFail, rotation, heard,
                 startFailed, budget, signals, takeover, past>>

\* handleGracefulTimeout.
ReapTimeout ==
  /\ mon = "killTimeout" /\ Done
  /\ RegisterStop("fail") /\ final' = "TIMEOUT"
  /\ mon' = IF CanFailRestart THEN "timeoutWait" ELSE "ended"
  /\ UNCHANGED <<process, said, saver, hardFail, rotation, heard,
                 startFailed, budget, signals, takeover, past>>

\* cancelRunningProcs.
ReapCancelled ==
  /\ mon = "killCancel" /\ Done
  /\ RegisterStop("fail") /\ final' = "CANCELLED" /\ mon' = "ended"
  /\ UNCHANGED <<process, said, saver, hardFail, rotation, heard,
                 startFailed, budget, signals, takeover, past>>

\* handleTakeControlRequest.  The process is not looked at any more; what
\* was noted about it is reset to save states.
ReapControl ==
  /\ mon = "killControl" /\ Done
  /\ RegisterStop("user_interactive") /\ mon' = "handover"
  /\ said' = "none" /\ signal' = FALSE /\ saver' = "none"
  /\ rotation' = FALSE /\ heard' = FALSE /\ startFailed' = FALSE
  /\ UNCHANGED <<process, final, hardFail, budget, cancelled, takeover, past>>

-----------------------------------------------------------------------------
(* Waits before a relaunch.                                                *)

\* At the cap the agent fails with its row left as it is.
StallWaitOver ==
  /\ mon = "stallWait"
  /\ IF restarts < MaxContinuations
     THEN mon' = "relaunch" /\ UNCHANGED final
     ELSE mon' = "ended" /\ final' = "FAIL"
  /\ UNCHANGED <<session, saver, hardFail, rotation, heard, startFailed,
                 budget, signals, takeover, past>>

\* The failed row is rewritten: a successor follows.  After a timeout the
\* relaunch does not look at the continuation cap.
\* Mutant of RetryRow: the row of the failed session is left alone.
KeepRow  == UNCHANGED <<row, result>>
RetryRow == RegisterStop("continue")

RetryWaitOver ==
  /\ mon \in {"retryWait", "timeoutWait"}
  /\ RetryRow /\ final' = "CONTINUE"
  /\ failRestarts' = failRestarts + 1
  /\ mon' = IF mon = "timeoutWait" THEN "relaunch" ELSE "settle"
  /\ UNCHANGED <<process, said, saver, hardFail, rotation, heard,
                 startFailed, restarts, stalls, startStalls, chainPos,
                 signals, takeover, past>>

WaitCancelled ==
  /\ mon \in {"stallWait", "retryWait", "timeoutWait"} /\ cancelled
  /\ mon' = "ended"
  /\ UNCHANGED <<session, saver, proc, budget, signals, takeover, past>>

\* Cancelled or not, a rate limited agent goes on to its relaunch.
LimitWaitOver ==
  /\ mon \in {"limitWait", "inBandWait"}
  /\ mon' = IF mon = "inBandWait" THEN "rotate" ELSE "settle"
  /\ UNCHANGED <<session, saver, proc, budget, signals, takeover, past>>

-----------------------------------------------------------------------------
(* A session taken over by a user.                                         *)

RegisterWait ==
  /\ mon = "handover" /\ mon' = "interactive" /\ wait' = "open"
  /\ UNCHANGED <<session, saver, proc, budget, signals, killed, exitPc,
                 killPc, past>>

\* Mutant of WaitEnds: only the user ends the wait.
WaitEndsByUser == wait = "closed"
WaitEnds       == wait = "closed" \/ cancelled

InteractiveOver ==
  /\ mon = "interactive" /\ WaitEnds
  /\ wait' = "none" /\ killed' = FALSE
  /\ final' = IF killed THEN "FAIL" ELSE "PASS"
  /\ mon' = "ended"
  /\ UNCHANGED <<session, saver, hardFail, rotation, heard, startFailed,
                 budget, signals, exitPc, killPc, past>>

CloseWait == wait' = IF wait = "open" THEN "closed" ELSE wait

\* The user, or the terminal that closes, ends the session: first the row,
\* whatever it says, then the wait, if it is registered by now.
ExitRow ==
  /\ exitPc = "idle" /\ (row = "user_interactive" \/ killPc # "idle")
  /\ row' = "interactive_completed" /\ result' = "pass" /\ exitPc' = "signal"
  /\ UNCHANGED <<process, said, saver, proc, budget, mon, signals,
                 wait, killed, killPc, past>>

ExitSignal ==
  /\ exitPc = "signal" /\ exitPc' = "done" /\ CloseWait
  /\ UNCHANGED <<session, saver, proc, budget, mon, signals, killed, killPc,
                 past>>

\* The user kills the session: the row, the terminal, then the wait.
KillRow ==
  /\ killPc = "idle" /\ row = "user_interactive"
  /\ row' = "failed" /\ result' = "fail" /\ killPc' = "signal"
  /\ UNCHANGED <<process, said, saver, proc, budget, mon, signals,
                 wait, killed, exitPc, past>>

KillSignal ==
  /\ killPc = "signal" /\ killPc' = "done" /\ CloseWait /\ killed' = TRUE
  /\ UNCHANGED <<session, saver, proc, budget, mon, signals, exitPc, past>>

CancelRun ==
  /\ ~cancelled /\ cancelled' = TRUE
  /\ UNCHANGED <<session, saver, proc, budget, mon, signal, takeover, past>>

-----------------------------------------------------------------------------
Select == \/ SelectCancelled \/ SelectNothing \/ SelectTerminal
          \/ (\E rotate \in BOOLEAN : SelectSave(rotate)) \/ SelectControl
Check  == \/ LowContext \/ CheckDecided \/ CheckRateLimited \/ CheckRunning
          \/ (\E providerFail \in BOOLEAN : CheckCompleted(providerFail))
          \/ \E f \in Final : Judge(f)
Settle == \/ SettleFallback \/ SettleRetry \/ SettleContinue \/ SettleCapped
          \/ SettleFinal \/ Relaunch \/ RelaunchFails
Watch  == \/ StartStallFails \/ Stall \/ InBandLimit \/ Nudge
          \/ NudgeRestarts \/ NudgeFails \/ Rotate \/ TimesOut \/ NotYet
Reap   == \/ ReapTerminal \/ ReapStall \/ ReapLimit \/ ReapTimeout
          \/ ReapCancelled \/ ReapControl
Pause  == \/ StallWaitOver \/ RetryWaitOver \/ WaitCancelled \/ LimitWaitOver
          \/ RegisterWait \/ InteractiveOver

Monitor == Select \/ Check \/ Settle \/ Watch \/ Reap \/ Pause
Agent   == \/ Speak \/ (\E c \in ExitCode : Exit(c))
           \/ \E r \in Report : Reports(r)
User    == ExitRow \/ ExitSignal \/ KillRow \/ KillSignal \/ CancelRun

Next == Monitor \/ SaverWrites \/ Agent \/ User

Spec == Init /\ [][Next]_vars

\* A killed process exits: SIGTERM is followed by SIGKILL.
KilledExits ==
  (mon \in Killing \/ saver = "saving") /\ \E c \in ExitCode : Exit(c)

\* The monitor polls, a save is bounded by contextSaveTimeout, the time of a
\* session runs out, and select picks among the ready cases at random.
FairSpec == /\ Spec
            /\ WF_vars(Monitor) /\ WF_vars(SaverWrites) /\ WF_vars(KilledExits)
            /\ SF_vars(TimesOut) /\ SF_vars(SelectCancelled)

-----------------------------------------------------------------------------
\* Every variable holds a value of its type.
TypeOK ==
  /\ row \in RowStatus /\ result \in Result
  /\ process \in ExitCode \cup {"up"}
  /\ said \in {"none", "pass", "other", "late"}
  /\ saver \in Saver
  /\ final \in Final /\ hardFail \in BOOLEAN /\ rotation \in BOOLEAN
  /\ heard \in BOOLEAN /\ startFailed \in BOOLEAN
  /\ restarts \in Nat /\ failRestarts \in Nat /\ stalls \in Nat
  /\ startStalls \in Nat /\ chainPos \in Nat
  /\ mon \in Place /\ signal \in BOOLEAN /\ cancelled \in BOOLEAN
  /\ wait \in {"none", "open", "closed"} /\ killed \in BOOLEAN
  /\ exitPc \in {"idle", "signal", "done"}
  /\ killPc \in {"idle", "signal", "done"}
  /\ pastRows \subseteq RowStatus /\ stray \in BOOLEAN

\* A session is never replaced while its process still runs, and the monitor
\* leaves neither a process nor a save behind: two processes of one agent
\* would work in the same directory (relaunchWithBookkeeping, monitorAll).
OneLiveSession ==
  /\ ~stray
  /\ mon = "ended" => ~Up /\ saver # "saving"

\* A session that was replaced reads "continued", however many goroutines
\* wrote its row: the chain of sessions is shown and resumed as one agent.
Lineage == pastRows \subseteq {"continued"}

\* The verdict that decides the layer is the one the last row shows, unless
\* a user has taken that session over (handleCompletion, finalizePhase).
VerdictMatchesRow ==
  (mon = "ended" /\ exitPc = "idle" /\ killPc = "idle"
                 /\ row # "user_interactive") =>
    /\ row = "completed" <=> final = "PASS"
    /\ row = "callback" <=> final = "CALLBACK"
    /\ row = "failed" => final \in {"FAIL", "TIMEOUT", "CANCELLED"}

\* A session completes only if the agent reported a pass, or reported
\* nothing and exited with code 0; a report that was still under way when
\* the process exited may count either way (handleCompletion).
CompletedHonestly ==
  row = "completed" =>
    said \in {"pass", "late"} \/ (said = "none" /\ process = "clean")

\* The restart paths share counters but check different ones; together they
\* never exceed the sum of their budgets (monitorAll, tryChainFallback).
RestartBudget ==
  /\ restarts <= MaxContinuations + failRestarts + chainPos
  /\ failRestarts <= MaxFailRestarts /\ stalls <= MaxStallRestarts
  /\ chainPos < Len(Chain)

\* Whatever the agent does, monitorAll ends or waits for a user, unless it
\* rotates sessions forever: no budget counts a rotation (monitorAll).
Settles == <>(mon \in {"interactive", "ended"}) \/ []<>rotation

\* A cancelled run gets its agent back, also from a user.
CancelEnds == cancelled ~> mon = "ended"
=============================================================================
