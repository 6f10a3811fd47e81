--------------------------- MODULE SyncScheduler ---------------------------
(***************************************************************************)
(* The scheduler of the cline-sync daemon: one timer armed after each run, *)
(* at most one run at a time, a circuit breaker that halts automatic runs  *)
(* after MaxFailures failures in a row, and a panel and tray that start,   *)
(* reconfigure and resume it while a run is waiting for the server.        *)
(***************************************************************************)
EXTENDS Naturals, Sequences

CONSTANTS MaxFailures,  \* MAX_CONSECUTIVE_FAILURES
          MaxExtra      \* bound on manual runs that fail while halted

ASSUME SchedulerAssumption ==
    /\ MaxFailures \in Nat \ {0}
    /\ MaxExtra \in Nat

VARIABLES up,          \* the daemon's process
          enabled,     \* config.enabled
          configured,  \* config has an address and a token
          scheduled, timer, running, halted, closed,
          failures,    \* consecutiveFailures
          phase,       \* where execute() waits
          allFailed,   \* what the run in "saving" brought
          aborted,     \* the run's AbortController
          recent       \* history: outcomes of the last completed runs

config  == <<enabled, configured>>
run     == <<running, phase, allFailed, aborted>>
breaker == <<halted, failures, recent>>
vars    == <<up, config, scheduled, timer, closed, run, breaker>>

Init ==
    /\ up = FALSE
    /\ enabled \in BOOLEAN
    /\ configured \in BOOLEAN
    /\ scheduled = FALSE
    /\ timer = FALSE
    /\ running = FALSE
    /\ halted = FALSE
    /\ closed = FALSE
    /\ failures = 0
    /\ phase = "idle"
    /\ allFailed = FALSE
    /\ aborted = FALSE
    /\ recent = << >>

\* scheduleNext(): the timer it leaves behind, given the state it finds.
Armed(sched, isRunning, isEnabled, isHalted) ==
    sched /\ ~closed /\ ~isRunning /\ isEnabled /\ ~isHalted

\* runOnce(): a run begins, or there is nothing to run.
RunOnce ==
    IF closed \/ running THEN UNCHANGED <<timer, run>>
    ELSE IF ~configured
    THEN /\ timer' = Armed(scheduled, running, enabled, halted)
         /\ UNCHANGED run
    ELSE /\ timer' = FALSE
         /\ running' = TRUE
         /\ phase' = "syncing"
         /\ aborted' = FALSE
         /\ UNCHANGED allFailed

-----------------------------------------------------------------------------
\* Mutation: a restart starts the next timer without stopping the old one.
RestartKeepsTimer(isEnabled, isHalted) ==
    /\ scheduled' = TRUE
    /\ timer' = (timer \/ Armed(TRUE, running, isEnabled, isHalted))
    /\ aborted' = running

\* Mutation: a restart only stops.
RestartStops(isEnabled, isHalted) ==
    /\ scheduled' = TRUE
    /\ timer' = FALSE
    /\ aborted' = running

\* restart(): stop() aborts the run in flight, whose end arms the timer.
Restart(isEnabled, isHalted) ==
    /\ scheduled' = ~closed
    /\ timer' = Armed(~closed, running, isEnabled, isHalted)
    /\ aborted' = running

\* main() loads what was saved and starts the scheduler; a run that is overdue
\* starts at once.
Boot(isEnabled, isConfigured, overdue) ==
    /\ ~up
    /\ up' = TRUE
    /\ enabled' = isEnabled
    /\ configured' = isConfigured
    /\ scheduled' = TRUE
    /\ halted' = FALSE
    /\ failures' = 0
    /\ recent' = << >>
    /\ LET starts == isEnabled /\ overdue /\ isConfigured IN
       /\ running' = starts
       /\ phase' = IF starts THEN "syncing" ELSE "idle"
       /\ timer' = (isEnabled /\ ~starts)
    /\ aborted' = FALSE
    /\ UNCHANGED <<closed, allFailed>>

Tick ==
    /\ up
    /\ timer
    /\ RunOnce
    /\ UNCHANGED <<up, config, scheduled, closed, breaker>>

\* "Sync now" of the panel or the tray.
ManualSync ==
    /\ up
    /\ failures < MaxFailures + MaxExtra
    /\ RunOnce
    /\ UNCHANGED <<up, config, scheduled, closed, breaker>>

\* setConfig().  The tray also lifts a halt when it enables the schedule.
UpdateConfig(isEnabled, isConfigured, lifts) ==
    /\ up
    /\ ~closed
    /\ lifts => isEnabled /\ halted
    /\ enabled' = isEnabled
    /\ configured' = isConfigured
    /\ halted' = (halted /\ ~lifts)
    /\ failures' = IF lifts THEN 0 ELSE failures
    /\ Restart(isEnabled, halted')
    /\ UNCHANGED <<up, closed, running, phase, allFailed, recent>>

Resume ==
    /\ up
    /\ failures' = 0
    /\ halted' = FALSE
    /\ Restart(enabled, FALSE)
    /\ UNCHANGED <<up, config, closed, running, phase, allFailed, recent>>

-----------------------------------------------------------------------------
(* A run.  Its finally block arms the next timer.                          *)

Finally(sched, isHalted) ==
    /\ running' = FALSE
    /\ phase' = "idle"
    /\ aborted' = FALSE
    /\ allFailed' = FALSE
    /\ scheduled' = sched
    /\ timer' = Armed(sched, FALSE, enabled, isHalted)
    /\ UNCHANGED <<up, config, closed>>

Remember(outcome) ==
    recent' = SubSeq(<<outcome>> \o recent, 1,
                     IF Len(recent) < MaxFailures THEN Len(recent) + 1 ELSE MaxFailures)

Cancelled == Finally(scheduled, halted) /\ UNCHANGED breaker

\* halt() also stops: only a restart schedules again.
Failed ==
    /\ failures' = failures + 1
    /\ halted' = (halted \/ failures + 1 >= MaxFailures)
    /\ Finally(scheduled /\ failures + 1 < MaxFailures, halted')
    /\ Remember("failed")

\* Mutation: a success lifts the halt and leaves the count.
SuccessKeepsCount ==
    /\ halted' = FALSE
    /\ Finally(scheduled, FALSE)
    /\ Remember("good")
    /\ UNCHANGED failures

Succeeded ==
    /\ failures' = 0
    /\ halted' = FALSE
    /\ Finally(scheduled, FALSE)
    /\ Remember("good")

\* runSync returned; the history is recorded and being saved.
SyncReturns(nothingThrough) ==
    /\ phase = "syncing"
    /\ phase' = "saving"
    /\ allFailed' = nothingThrough
    /\ UNCHANGED <<up, config, scheduled, timer, closed, running, aborted, breaker>>

SyncThrows ==
    /\ phase = "syncing"
    /\ IF aborted THEN Cancelled ELSE Failed

\* Saving the history may fail: that is logged.
HistorySaved ==
    /\ phase = "saving"
    /\ IF aborted THEN Cancelled
       ELSE IF allFailed THEN Failed ELSE Succeeded

EndOfRun == SyncThrows \/ HistorySaved

-----------------------------------------------------------------------------
\* close(): the shutdown waits for the aborted run.
Close ==
    /\ up
    /\ ~closed
    /\ closed' = TRUE
    /\ scheduled' = FALSE
    /\ timer' = FALSE
    /\ aborted' = running
    /\ UNCHANGED <<up, config, running, phase, allFailed, breaker>>

\* The process is gone and with it all it kept in memory.
Ended ==
    /\ up' = FALSE
    /\ closed' = FALSE
    /\ scheduled' = FALSE
    /\ timer' = FALSE
    /\ running' = FALSE
    /\ phase' = "idle"
    /\ allFailed' = FALSE
    /\ aborted' = FALSE
    /\ UNCHANGED <<config, breaker>>

Exit == up /\ closed /\ ~running /\ Ended
Crash == up /\ Ended

Next ==
    \/ \E b, c, d \in BOOLEAN : Boot(b, c, d) \/ UpdateConfig(b, c, d)
    \/ \E b \in BOOLEAN : SyncReturns(b)
    \/ Tick \/ ManualSync \/ Resume
    \/ EndOfRun
    \/ Close \/ Exit \/ Crash

Spec == Init /\ [][Next]_vars

\* Timers fire and a run's requests are answered, time out or are aborted.
FairSpec ==
    /\ Spec
    /\ WF_vars(Tick)
    /\ WF_vars(EndOfRun \/ \E b \in BOOLEAN : SyncReturns(b))
    /\ WF_vars(Exit)

-----------------------------------------------------------------------------
FlagsOK ==
    /\ up \in BOOLEAN /\ enabled \in BOOLEAN /\ configured \in BOOLEAN
    /\ scheduled \in BOOLEAN /\ timer \in BOOLEAN
    /\ running \in BOOLEAN /\ allFailed \in BOOLEAN /\ aborted \in BOOLEAN
    /\ halted \in BOOLEAN /\ closed \in BOOLEAN

TypeOK ==
    /\ FlagsOK
    /\ failures \in Nat
    /\ phase \in {"idle", "syncing", "saving"}
    /\ recent \in Seq({"good", "failed"})

\* A timer never overlaps a run, and none is left behind by a pause, a halt or
\* a shutdown, whichever came while a run was waiting (scheduler.ts:2-3).
TimerIsDue == timer => up /\ scheduled /\ enabled /\ ~halted /\ ~closed /\ ~running

\* Automatic runs never silently end: a scheduler that is scheduled, enabled
\* and not halted has a timer or a run, after any restart, abort or error.
ScheduleIsKept ==
    up /\ scheduled /\ enabled /\ ~halted /\ ~closed => timer \/ running

\* Halted means that the last three completed runs all failed; cancelled runs
\* neither count nor break the row.
HaltIsEarned ==
    halted => Len(recent) = MaxFailures /\ \A i \in 1 .. MaxFailures : recent[i] = "failed"

-----------------------------------------------------------------------------
(* What the source says of the breaker.                                    *)

\* When a run succeeds the log says that the automatic pause is lifted
\* (scheduler.ts:166): then automatic runs go on.
PauseIsLifted == up /\ enabled /\ configured /\ ~halted /\ ~closed => timer \/ running
=============================================================================
