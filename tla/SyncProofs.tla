----------------------------- MODULE SyncProofs -----------------------------
(***************************************************************************)
(* Theorems about cline-sync: its scheduler, alone and inside the daemon   *)
(* of Panel, and the engine that uploads a conversation.  They hold for    *)
(* every threshold of the breaker, every set of messages of any lengths,   *)
(* and every size of a chunk that the engine can work with.                *)
(***************************************************************************)
EXTENDS Panel, SyncEngine, TLAPS

-----------------------------------------------------------------------------
(* The scheduler.                                                          *)

\* A run is what has a phase, and lives in a process; a shutdown and the end of
\* the process leave neither a schedule nor a timer.
RunsInside ==
    /\ running <=> phase # "idle"
    /\ running \/ scheduled \/ closed => up
    /\ closed => ~scheduled

\* The count of failures in a row is what the last outcomes say, up to what is
\* remembered of them; the breaker halts at a full count and is lifted with it.
CountIsRecent ==
    /\ Len(recent) <= MaxFailures
    /\ halted => failures >= MaxFailures
    /\ \A i \in 1 .. MaxFailures : i <= failures => i <= Len(recent) /\ recent[i] = "failed"

SchedulerInv == TypeOK /\ RunsInside /\ TimerIsDue /\ ScheduleIsKept /\ CountIsRecent

LEMMA SchedulerStarts == Init => SchedulerInv
<1> SUFFICES ASSUME Init PROVE SchedulerInv
  OBVIOUS
<1>1. TypeOK
  <2>1. FlagsOK BY DEF Init, FlagsOK
  <2> QED BY <2>1 DEF Init, TypeOK
<1>2. RunsInside BY DEF Init, RunsInside
<1>3. TimerIsDue /\ ScheduleIsKept BY DEF Init, TimerIsDue, ScheduleIsKept
<1>4. CountIsRecent BY SchedulerAssumption DEF Init, CountIsRecent
<1> QED BY <1>1, <1>2, <1>3, <1>4 DEF SchedulerInv

\* What remembering an outcome makes of the last ones.
LEMMA Remembered ==
  ASSUME NEW outcome \in {"good", "failed"}, recent \in Seq({"good", "failed"}),
         Len(recent) <= MaxFailures, Remember(outcome)
  PROVE  /\ recent' \in Seq({"good", "failed"})
         /\ Len(recent') <= MaxFailures
         /\ \A i \in 1 .. MaxFailures : i <= Len(recent) + 1 =>
               /\ i <= Len(recent')
               /\ recent'[i] = IF i = 1 THEN outcome ELSE recent[i - 1]
<1> DEFINE all == <<outcome>> \o recent
           n   == IF Len(recent) < MaxFailures THEN Len(recent) + 1 ELSE MaxFailures
<1>1. /\ all \in Seq({"good", "failed"})
      /\ Len(all) = Len(recent) + 1
      /\ \A i \in 1 .. Len(recent) + 1 : all[i] = IF i = 1 THEN outcome ELSE recent[i - 1]
  OBVIOUS
<1>2. n \in 1 .. Len(all)
  BY <1>1, SchedulerAssumption
<1>3. recent' = SubSeq(all, 1, n)
  BY DEF Remember
<1> HIDE DEF all
<1>4. /\ recent' \in Seq({"good", "failed"})
      /\ Len(recent') = n
      /\ \A i \in 1 .. n : recent'[i] = all[i]
  BY <1>1, <1>2, <1>3
<1> QED BY <1>1, <1>4, SchedulerAssumption

\* The four parts of the invariant that are about flags.
FlagsInv == FlagsOK /\ RunsInside /\ TimerIsDue /\ ScheduleIsKept

\* The end of a run arms the timer if it should.
LEMMA FinallyKeeps ==
  ASSUME FlagsInv, up, NEW sched \in BOOLEAN, NEW isHalted \in BOOLEAN, sched => scheduled,
         Finally(sched, isHalted), halted' = isHalted
  PROVE  FlagsInv'
  BY DEF FlagsInv, FlagsOK, RunsInside, TimerIsDue, ScheduleIsKept, Finally, Armed, config

LEMMA OutcomeKeeps ==
  ASSUME SchedulerInv, up, running, Cancelled \/ Failed \/ Succeeded
  PROVE  SchedulerInv'
<1>1. FlagsInv /\ scheduled \in BOOLEAN /\ halted \in BOOLEAN
  BY DEF SchedulerInv, TypeOK, FlagsInv, FlagsOK
<1>2. CASE Cancelled
  <2>1. FlagsInv'
    BY <1>1, <1>2, FinallyKeeps DEF Cancelled, breaker
  <2>2. phase' = "idle" /\ failures' = failures /\ recent' = recent /\ halted' = halted
    BY <1>2 DEF Cancelled, Finally, breaker
  <2> QED BY <2>1, <2>2 DEF SchedulerInv, TypeOK, FlagsInv, CountIsRecent
<1>3. CASE Failed
  <2> DEFINE full == failures + 1 >= MaxFailures
             kept == failures + 1 < MaxFailures
  <2>0. full \in BOOLEAN /\ kept \in BOOLEAN
    OBVIOUS
  <2>1. /\ Remember("failed") /\ failures' = failures + 1 /\ phase' = "idle"
        /\ halted' = (halted \/ full)
        /\ Finally(scheduled /\ kept, halted')
    BY <1>3 DEF Failed, Finally
  <2>2. halted' => halted \/ full
    BY <2>1
  <2>3. FlagsInv'
    <3> HIDE DEF full, kept
    <3>1. (scheduled /\ kept) \in BOOLEAN /\ (halted \/ full) \in BOOLEAN
      BY <1>1, <2>0
    <3> QED BY <1>1, <2>1, <3>1, FinallyKeeps
  <2>4. /\ recent' \in Seq({"good", "failed"})
        /\ Len(recent') <= MaxFailures
        /\ \A i \in 1 .. MaxFailures : i <= Len(recent) + 1 =>
              /\ i <= Len(recent')
              /\ recent'[i] = IF i = 1 THEN "failed" ELSE recent[i - 1]
    BY <2>1, Remembered DEF SchedulerInv, TypeOK, CountIsRecent
  <2>5. ASSUME NEW i \in 1 .. MaxFailures, i <= failures + 1
        PROVE  i <= Len(recent') /\ recent'[i] = "failed"
    <3>1. CASE i = 1 BY <3>1, <2>4 DEF SchedulerInv, TypeOK
    <3>2. CASE i > 1
      <4>1. i - 1 \in 1 .. MaxFailures /\ i - 1 <= failures
        BY <3>2, <2>5, SchedulerAssumption DEF SchedulerInv, TypeOK
      <4> QED BY <4>1, <2>4, <3>2 DEF SchedulerInv, TypeOK, CountIsRecent
    <3> QED BY <3>1, <3>2, SchedulerAssumption
  <2>6. (halted' => failures' >= MaxFailures) /\ failures' \in Nat
    <3>1. halted => failures >= MaxFailures BY DEF SchedulerInv, CountIsRecent
    <3>2. failures >= MaxFailures \/ full => failures + 1 >= MaxFailures
      BY SchedulerAssumption DEF SchedulerInv, TypeOK
    <3>3. halted' => failures + 1 >= MaxFailures BY <2>2, <3>1, <3>2
    <3> QED BY <2>1, <3>3, SchedulerAssumption DEF SchedulerInv, TypeOK
  <2>7. CountIsRecent'
    BY <2>1, <2>4, <2>5, <2>6 DEF CountIsRecent
  <2> QED BY <2>1, <2>3, <2>4, <2>6, <2>7 DEF SchedulerInv, TypeOK, FlagsInv
<1>4. CASE Succeeded
  <2>1. Remember("good") /\ failures' = 0 /\ phase' = "idle" /\ halted' = FALSE
    BY <1>4 DEF Succeeded, Finally
  <2>2. recent' \in Seq({"good", "failed"}) /\ Len(recent') <= MaxFailures
    BY <2>1, Remembered DEF SchedulerInv, TypeOK, CountIsRecent
  <2>3. CountIsRecent'
    BY <2>1, <2>2 DEF CountIsRecent
  <2>4. FlagsInv'
    BY <1>1, <1>4, FinallyKeeps DEF Succeeded
  <2> QED BY <2>1, <2>2, <2>3, <2>4 DEF SchedulerInv, TypeOK, FlagsInv
<1> QED BY <1>2, <1>3, <1>4

LEMMA SchedulerKeeps == SchedulerInv /\ [Next]_vars => SchedulerInv'
<1> SUFFICES ASSUME SchedulerInv, Next \/ UNCHANGED vars PROVE SchedulerInv'
  OBVIOUS
<1>1. CASE EndOfRun
  <2>1. up /\ running /\ (Cancelled \/ Failed \/ Succeeded)
    BY <1>1 DEF EndOfRun, SyncThrows, HistorySaved, SchedulerInv, RunsInside
  <2> QED BY <2>1, OutcomeKeeps
<1>2. CASE ~EndOfRun
  <2> USE SchedulerAssumption DEF config, run, breaker
  <2>1. ASSUME NEW b \in BOOLEAN, NEW c \in BOOLEAN, NEW d \in BOOLEAN, Boot(b, c, d) PROVE SchedulerInv'
    <3>1. FlagsInv'
      BY <2>1 DEF Boot, SchedulerInv, TypeOK, FlagsInv, FlagsOK, RunsInside, TimerIsDue, ScheduleIsKept
    <3>2. recent' = << >> /\ failures' = 0 /\ halted' = FALSE /\ phase' \in {"idle", "syncing"}
      BY <2>1 DEF Boot
    <3>3. recent' \in Seq({"good", "failed"}) /\ CountIsRecent'
      BY <3>2 DEF CountIsRecent
    <3> QED BY <3>1, <3>2, <3>3 DEF SchedulerInv, FlagsInv, TypeOK
  <2>2. ASSUME NEW b \in BOOLEAN, NEW c \in BOOLEAN, NEW d \in BOOLEAN, UpdateConfig(b, c, d) PROVE SchedulerInv'
    <3>1. FlagsInv'
      BY <2>2 DEF UpdateConfig, Restart, Armed, SchedulerInv, TypeOK, FlagsInv, FlagsOK, RunsInside, TimerIsDue, ScheduleIsKept
    <3>2. UNCHANGED <<recent, phase>> /\ failures' \in {0, failures} /\ (halted' => halted /\ failures' = failures)
      BY <2>2 DEF UpdateConfig
    <3> QED BY <3>1, <3>2 DEF SchedulerInv, FlagsInv, TypeOK, CountIsRecent
  <2>3. ASSUME NEW b \in BOOLEAN, SyncReturns(b) PROVE SchedulerInv'
    <3>1. FlagsInv'
      BY <2>3 DEF SyncReturns, SchedulerInv, TypeOK, FlagsInv, FlagsOK, RunsInside, TimerIsDue, ScheduleIsKept
    <3> QED BY <3>1, <2>3 DEF SyncReturns, SchedulerInv, FlagsInv, TypeOK, CountIsRecent
  <2>4. CASE Tick \/ ManualSync
    <3>1. /\ up
          /\ RunOnce
          /\ UNCHANGED <<up, enabled, configured, scheduled, closed, halted, failures, recent>>
      BY <2>4 DEF Tick, ManualSync
    <3>2. FlagsInv' /\ phase' \in {phase, "syncing"}
      <4>0. FlagsInv BY DEF SchedulerInv, TypeOK, FlagsInv
      <4>1. CASE closed \/ running
        BY <3>1, <4>0, <4>1 DEF RunOnce, FlagsInv, FlagsOK, RunsInside, TimerIsDue, ScheduleIsKept
      <4>2. CASE ~(closed \/ running) /\ ~configured
        BY <3>1, <4>0, <4>2 DEF RunOnce, Armed, FlagsInv, FlagsOK, RunsInside, TimerIsDue, ScheduleIsKept
      <4>3. CASE ~(closed \/ running) /\ configured
        BY <3>1, <4>0, <4>3 DEF RunOnce, FlagsInv, FlagsOK, RunsInside, TimerIsDue, ScheduleIsKept
      <4> QED BY <4>1, <4>2, <4>3
    <3> QED BY <3>1, <3>2 DEF SchedulerInv, FlagsInv, TypeOK, CountIsRecent
  <2>5. CASE Resume
    <3>1. FlagsInv'
      BY <2>5 DEF Resume, Restart, Armed, SchedulerInv, TypeOK, FlagsInv, FlagsOK, RunsInside, TimerIsDue, ScheduleIsKept
    <3> QED BY <3>1, <2>5 DEF Resume, SchedulerInv, FlagsInv, TypeOK, CountIsRecent
  <2>6. CASE Close
    <3>1. FlagsInv'
      BY <2>6 DEF Close, SchedulerInv, TypeOK, FlagsInv, FlagsOK, RunsInside, TimerIsDue, ScheduleIsKept
    <3> QED BY <3>1, <2>6 DEF Close, SchedulerInv, FlagsInv, TypeOK, CountIsRecent
  <2>7. CASE Exit \/ Crash
    <3>1. Ended BY <2>7 DEF Exit, Crash
    <3>2. FlagsInv'
      BY <3>1 DEF Ended, SchedulerInv, TypeOK, FlagsInv, FlagsOK, RunsInside, TimerIsDue, ScheduleIsKept
    <3> QED BY <3>1, <3>2 DEF Ended, SchedulerInv, FlagsInv, TypeOK, CountIsRecent
  <2>8. CASE UNCHANGED vars
    BY <2>8 DEF vars, SchedulerInv, TypeOK, FlagsInv, FlagsOK, RunsInside, TimerIsDue, ScheduleIsKept, CountIsRecent
  <2> QED BY <1>2, <2>1, <2>2, <2>3, <2>4, <2>5, <2>6, <2>7, <2>8 DEF Next
<1> QED BY <1>1, <1>2

LEMMA SchedulerInvariance == Spec => []SchedulerInv
  BY SchedulerStarts, SchedulerKeeps, PTL DEF Spec


LEMMA InvariantsFollow ==
  SchedulerInv => TypeOK /\ TimerIsDue /\ ScheduleIsKept /\ HaltIsEarned
<1> SUFFICES ASSUME SchedulerInv PROVE HaltIsEarned
  BY DEF SchedulerInv
<1>1. SUFFICES ASSUME halted
               PROVE  Len(recent) = MaxFailures /\ \A i \in 1 .. MaxFailures : recent[i] = "failed"
  BY DEF HaltIsEarned
<1>2. failures >= MaxFailures /\ Len(recent) <= MaxFailures
  BY <1>1 DEF SchedulerInv, CountIsRecent
<1>3. ASSUME NEW i \in 1 .. MaxFailures PROVE i <= Len(recent) /\ recent[i] = "failed"
  <2>1. i <= failures BY <1>2, SchedulerAssumption DEF SchedulerInv, TypeOK
  <2> QED BY <2>1 DEF SchedulerInv, CountIsRecent
<1>4. MaxFailures <= Len(recent)
  BY <1>3, SchedulerAssumption
<1> QED BY <1>2, <1>3, <1>4, SchedulerAssumption DEF SchedulerInv, TypeOK

\* The state of the scheduler stays in its types (scheduler.ts:40).
THEOREM SchedulerTypes == Spec => []TypeOK
  BY SchedulerInvariance, InvariantsFollow, PTL

\* A timer never overlaps a run and none is left behind by a pause, a halt or a
\* shutdown (armTimer() of the scheduler asks the flags, scheduler.ts:2).
THEOREM SchedulerTimerIsDue == Spec => []TimerIsDue
  BY SchedulerInvariance, InvariantsFollow, PTL

\* A scheduler that should run has a timer or a run, after every restart, abort,
\* error and success.
THEOREM SchedulerIsKept == Spec => []ScheduleIsKept
  BY SchedulerInvariance, InvariantsFollow, PTL

\* The breaker halts only when the last MaxFailures completed runs have failed.
THEOREM SchedulerHaltIsEarned == Spec => []HaltIsEarned
  BY SchedulerInvariance, InvariantsFollow, PTL

-----------------------------------------------------------------------------
(* The daemon implements the scheduler.                                    *)

Settings == [enabled : BOOLEAN, configured : BOOLEAN]

StoreOK ==
    /\ stored \in [torn : BOOLEAN, value : Settings]
    /\ saving \in [Saver -> {"idle", "reading", "writing"}]
    /\ next \in [Saver -> Settings]

\* Only a running daemon saves.
SavesInside == \A s \in Saver : saving[s] # "idle" => up

StoreInv == FlagsOK /\ StoreOK /\ SavesInside

LEMMA StoreStarts == PanelInit => StoreInv
<1> SUFFICES ASSUME PanelInit PROVE StoreInv
  OBVIOUS
<1>1. FlagsOK BY DEF PanelInit, Init, FlagsOK
<1>2. StoreOK BY DEF PanelInit, StoreOK, NoFile, Default, Settings
<1>3. SavesInside BY DEF PanelInit, SavesInside
<1> QED BY <1>1, <1>2, <1>3 DEF StoreInv

\* Every step of the daemon is one of the scheduler, or leaves it alone.
LEMMA PanelStep == StoreInv /\ [PanelNext]_panelVars => [Next]_vars
<1> SUFFICES ASSUME StoreInv, [PanelNext]_panelVars PROVE Next \/ UNCHANGED vars
  OBVIOUS
<1>1. ASSUME NEW overdue \in BOOLEAN, Start(overdue) PROVE Next
  <2>1. Loaded \in Settings
    BY DEF Loaded, StoreInv, StoreOK, Default, Settings
  <2> QED BY <1>1, <2>1 DEF Start, Next, Settings
<1>2. CASE SchedulerStep
  BY <1>2 DEF SchedulerStep, Next
<1>3. CASE Toggle \/ Post \/ Merge \/ Refuse
  BY <1>3 DEF Toggle, Post, Merge, Refuse, Write, scheduler
<1>4. ASSUME NEW s \in Saver, Saved(s) PROVE Next \/ UNCHANGED vars
  <2> DEFINE lifts == s = "tray" /\ next[s].enabled /\ halted
  <2>1. next[s].enabled \in BOOLEAN /\ next[s].configured \in BOOLEAN
    BY DEF StoreInv, StoreOK, Settings
  <2>2. lifts \in BOOLEAN
    OBVIOUS
  <2>3. UpdateConfig(next[s].enabled, next[s].configured, lifts) \/ Resume \/ UNCHANGED vars
    BY <1>4 DEF Saved, scheduler
  <2> QED BY <2>1, <2>2, <2>3 DEF Next
<1>5. ASSUME NEW s \in Saver, WriteFails(s) PROVE UNCHANGED vars
  BY <1>5 DEF WriteFails, scheduler
<1>6. CASE Construct \/ HelperStarts \/ Ready \/ ReadyTimesOut \/ NeverReady \/ HelperEnds
           \/ OpenWindow \/ WindowEnds
  BY <1>6 DEF Construct, HelperStarts, Ready, ReadyTimesOut, NeverReady, HelperEnds,
              OpenWindow, WindowEnds, scheduler
<1>7. CASE Shutdown \/ Leave \/ Deadline \/ Killed
  BY <1>7 DEF Shutdown, Leave, Deadline, Killed, Crash, Next
<1>8. CASE UNCHANGED panelVars
  BY <1>8 DEF panelVars
<1> QED BY <1>1, <1>2, <1>3, <1>4, <1>5, <1>6, <1>7, <1>8 DEF PanelNext

LEMMA StoreKeeps == StoreInv /\ FlagsOK' /\ [PanelNext]_panelVars => StoreInv'
<1> SUFFICES ASSUME StoreInv, FlagsOK', [PanelNext]_panelVars PROVE StoreOK' /\ SavesInside'
  BY DEF StoreInv
<1>1. StoreOK /\ SavesInside /\ Default \in Settings
  BY DEF StoreInv, Default, Settings
<1>2. ASSUME NEW s \in Saver, NEW e \in BOOLEAN, NEW c \in BOOLEAN, up, Write(s, e, c)
      PROVE  StoreOK' /\ SavesInside'
  <2>1. [enabled |-> e, configured |-> c] \in Settings
    BY DEF Settings
  <2>2. up' = up
    BY <1>2 DEF Write, scheduler, vars
  <2> QED BY <1>1, <1>2, <2>1, <2>2 DEF Write, StoreOK, SavesInside
<1>3. ASSUME NEW s \in Saver, saving' = [saving EXCEPT ![s] = "idle"], next' = next, up' = up,
             stored' \in [torn : BOOLEAN, value : Settings]
      PROVE  StoreOK' /\ SavesInside'
  BY <1>1, <1>3 DEF StoreOK, SavesInside
<1>4. ASSUME Forgotten PROVE StoreOK' /\ SavesInside'
  BY <1>1, <1>4 DEF Forgotten, StoreOK, SavesInside
<1>5. ASSUME UNCHANGED <<stored, saving, next>>, up => up' PROVE StoreOK' /\ SavesInside'
  BY <1>1, <1>5 DEF StoreOK, SavesInside
<1>6. ASSUME NEW overdue \in BOOLEAN, Start(overdue) PROVE StoreOK' /\ SavesInside'
  BY <1>5, <1>6 DEF Start, store, Boot
<1>7. CASE SchedulerStep
  <2>1. up' = up
    BY <1>7 DEF SchedulerStep, Tick, ManualSync, Resume, SyncReturns, EndOfRun, SyncThrows,
                HistorySaved, Cancelled, Failed, Succeeded, Finally
  <2> QED BY <1>5, <1>7, <2>1 DEF SchedulerStep, store
<1>8. CASE Toggle
  <2>1. (~enabled) \in BOOLEAN /\ configured \in BOOLEAN /\ "tray" \in Saver
    BY DEF StoreInv, FlagsOK, Saver
  <2> QED BY <1>2, <1>8, <2>1 DEF Toggle
<1>9. CASE Post
  BY <1>1, <1>9 DEF Post, StoreOK, SavesInside, scheduler, vars, Saver
<1>10. CASE Merge
  <2>1. "panel" \in Saver BY DEF Saver
  <2>2. up BY <1>1, <1>10, <2>1 DEF Merge, SavesInside
  <2> QED BY <1>2, <1>10, <2>1, <2>2 DEF Merge
<1>11. CASE Refuse
  <2>1. "panel" \in Saver BY DEF Saver
  <2> QED BY <1>1, <1>3, <1>11, <2>1 DEF Refuse, StoreOK, scheduler, vars
<1>12. ASSUME NEW s \in Saver, Saved(s) PROVE StoreOK' /\ SavesInside'
  <2>1. saving' = [saving EXCEPT ![s] = "idle"] /\ next' = next
    BY <1>12 DEF Saved, Written
  <2>2. PICK torn \in BOOLEAN : stored' = [torn |-> torn, value |-> next[s]]
    BY <1>12 DEF Saved, Written
  <2>3. stored' \in [torn : BOOLEAN, value : Settings]
    BY <1>1, <2>2 DEF StoreOK
  <2>4. up' = up
    BY <1>12 DEF Saved, UpdateConfig, Resume, scheduler, vars
  <2> QED BY <1>3, <2>1, <2>3, <2>4
<1>13. ASSUME NEW s \in Saver, WriteFails(s) PROVE StoreOK' /\ SavesInside'
  BY <1>1, <1>3, <1>13 DEF WriteFails, StoreOK, scheduler, vars
<1>14. CASE Construct \/ HelperStarts \/ Ready \/ ReadyTimesOut \/ NeverReady \/ HelperEnds
            \/ OpenWindow \/ WindowEnds
  BY <1>5, <1>14 DEF Construct, HelperStarts, Ready, ReadyTimesOut, NeverReady, HelperEnds,
                     OpenWindow, WindowEnds, scheduler, vars, store
<1>15. CASE Shutdown
  BY <1>5, <1>15 DEF Shutdown, Close, store
<1>16. CASE Leave \/ Deadline \/ Killed
  BY <1>4, <1>16 DEF Leave, Deadline, Killed
<1>17. CASE UNCHANGED panelVars
  BY <1>5, <1>17 DEF panelVars, store, vars
<1> QED BY <1>6, <1>7, <1>8, <1>9, <1>10, <1>11, <1>12, <1>13, <1>14, <1>15, <1>16, <1>17 DEF PanelNext

LEMMA StoreInvariance == PanelSpec => []StoreInv /\ []SchedulerInv
<1> DEFINE I == StoreInv /\ SchedulerInv
<1>1. SchedulerInv' => FlagsOK'
  BY DEF SchedulerInv, TypeOK
<1>2. PanelInit => I
  BY StoreStarts, SchedulerStarts DEF PanelInit
<1>3. I /\ [PanelNext]_panelVars => I'
  BY <1>1, PanelStep, SchedulerKeeps, StoreKeeps
<1>4. PanelSpec => []I
  <2> HIDE DEF I
  <2> QED BY <1>2, <1>3, PTL DEF PanelSpec
<1> QED BY <1>4, PTL

\* The daemon runs the scheduler: whatever the panel, the tray, their writes and
\* the end of the process do to it (index.ts of cline-sync) is a step of it.
THEOREM PanelRunsTheScheduler == PanelSpec => Spec
<1>1. PanelInit => Init
  BY DEF PanelInit
<1> QED BY <1>1, PanelStep, StoreInvariance, PTL DEF PanelSpec, Spec

\* So inside the daemon too no timer overlaps a run or outlives a pause, a
\* scheduler that should run does, and a halt has its failures.
THEOREM PanelKeepsTheSchedule == PanelSpec => [](TimerIsDue /\ ScheduleIsKept /\ HaltIsEarned)
  BY PanelRunsTheScheduler, SchedulerInvariance, InvariantsFollow, PTL

-----------------------------------------------------------------------------
(* The tray's helper.                                                      *)

\* After a shutdown began a helper that runs is being stopped, or startTray()
\* still waits for it and will stop it.
NoHelperIsForgotten == closed /\ helper => tray \in {"up", "stopping", "disposed"}

\* A helper and the window belong to a process; only a helper that runs is
\* stopped, and the cleanups run in a shutdown.
DesktopInv ==
    /\ tray \in {"none", "preparing", "spawning", "late", "up", "ready", "stopping", "disposed"}
    /\ helper \in BOOLEAN /\ window \in BOOLEAN /\ raced \in BOOLEAN
    /\ closed \/ helper \/ window \/ tray # "none" => up
    /\ helper => tray \in {"up", "ready", "stopping", "disposed"}
    /\ tray \in {"stopping", "disposed"} => helper
    /\ tray = "stopping" => closed
    /\ NoHelperIsForgotten

LEMMA DesktopStep == FlagsOK /\ DesktopInv /\ [PanelNext]_panelVars => DesktopInv'
<1> SUFFICES ASSUME FlagsOK, DesktopInv, [PanelNext]_panelVars PROVE DesktopInv'
  OBVIOUS
<1> USE DEF DesktopInv, NoHelperIsForgotten
<1>1. ASSUME UNCHANGED desktop, raced' \in BOOLEAN, up' = up, closed' = closed PROVE DesktopInv'
  BY <1>1 DEF desktop
<1>2. ASSUME NEW overdue \in BOOLEAN, Start(overdue) PROVE DesktopInv'
  BY <1>2 DEF Start, Boot, store
<1>3. CASE SchedulerStep
  <2>1. up' = up /\ closed' = closed
    BY <1>3 DEF SchedulerStep, Tick, ManualSync, Resume, SyncReturns, EndOfRun, SyncThrows,
                HistorySaved, Cancelled, Failed, Succeeded, Finally
  <2> QED BY <1>1, <1>3, <2>1 DEF SchedulerStep, store
<1>4. CASE Toggle \/ Post \/ Merge \/ Refuse
  BY <1>1, <1>4 DEF Toggle, Post, Merge, Refuse, Write, scheduler, vars
<1>5. ASSUME NEW s \in Saver, Saved(s) \/ WriteFails(s) PROVE DesktopInv'
  <2>1. up' = up /\ closed' = closed
    BY <1>5 DEF Saved, WriteFails, UpdateConfig, Resume, scheduler, vars
  <2> QED BY <1>1, <1>5, <2>1 DEF Saved, Written, WriteFails
<1>6. CASE Construct \/ HelperStarts \/ Ready \/ ReadyTimesOut \/ NeverReady \/ HelperEnds
  <2>1. up' = up /\ closed' = closed /\ raced' = raced /\ window' = window
    BY <1>6 DEF Construct, HelperStarts, Ready, ReadyTimesOut, NeverReady, HelperEnds,
                scheduler, vars, store
  <2>2. CASE Construct
    BY <2>1, <2>2 DEF Construct
  <2>3. CASE HelperStarts
    BY <2>1, <2>3 DEF HelperStarts
  <2>4. CASE Ready
    BY <2>1, <2>4 DEF Ready, AfterReady
  <2>5. CASE ReadyTimesOut
    BY <2>1, <2>5 DEF ReadyTimesOut
  <2>6. CASE NeverReady
    BY <2>1, <2>6 DEF NeverReady
  <2>7. CASE HelperEnds
    BY <2>1, <2>7 DEF HelperEnds
  <2> QED BY <1>6, <2>2, <2>3, <2>4, <2>5, <2>6, <2>7
<1>7. CASE OpenWindow \/ WindowEnds
  <2>1. up' = up /\ closed' = closed /\ raced' = raced /\ tray' = tray /\ helper' = helper
    BY <1>7 DEF OpenWindow, WindowEnds, scheduler, vars, store
  <2>2. window' \in BOOLEAN /\ (window' => up)
    BY <1>7 DEF OpenWindow, WindowEnds
  <2> QED BY <2>1, <2>2
<1>8. CASE Shutdown
  BY <1>8 DEF Shutdown, Close, store
<1>9. CASE Leave \/ Deadline \/ Killed
  BY <1>9 DEF Leave, Deadline, Killed, Exit, Crash, Ended, Forgotten, CutOff
<1>10. CASE UNCHANGED panelVars
  BY <1>1, <1>10 DEF panelVars, vars, store
<1> QED BY <1>2, <1>3, <1>4, <1>5, <1>6, <1>7, <1>8, <1>9, <1>10 DEF PanelNext

LEMMA DesktopInvariance == PanelSpec => []DesktopInv
<1>1. PanelInit => DesktopInv
  BY DEF PanelInit, Init, DesktopInv, NoHelperIsForgotten
<1>2. SchedulerInv => FlagsOK
  BY DEF SchedulerInv, TypeOK
<1> QED BY <1>1, <1>2, DesktopStep, StoreInvariance, PTL DEF PanelSpec

PanelTypeOK ==
    /\ TypeOK /\ StoreOK
    /\ tray \in {"none", "preparing", "spawning", "late", "up", "ready", "stopping", "disposed"}
    /\ helper \in BOOLEAN /\ window \in BOOLEAN /\ raced \in BOOLEAN

\* The file, the saves under way, the tray and the window have their types.
THEOREM PanelTypes == PanelSpec => []PanelTypeOK
<1>1. StoreInv /\ SchedulerInv /\ DesktopInv => PanelTypeOK
  BY DEF StoreInv, SchedulerInv, DesktopInv, PanelTypeOK
<1> QED BY <1>1, StoreInvariance, DesktopInvariance, PTL

\* A shutdown forgets no helper, wherever startTray() stands when it begins
\* (main.ts:135-156): what keeps the process from ending will be stopped.
THEOREM HelpersAreStopped == PanelSpec => []NoHelperIsForgotten
<1>1. DesktopInv => NoHelperIsForgotten
  BY DEF DesktopInv
<1> QED BY <1>1, DesktopInvariance, PTL

-----------------------------------------------------------------------------
(* The configuration file.                                                 *)

\* While no write has met another, failed or been cut off, a configuration with
\* an address and a token is in the file, or in the one write that is under way.
Kept ==
    ~raced =>
       /\ \A s, t \in Saver : saving[s] = "writing" /\ saving[t] = "writing" => s = t
       /\ configured =>
            \/ \E s \in Saver : saving[s] = "writing" /\ next[s].configured
            \/ /\ \A s \in Saver : saving[s] # "writing"
               /\ ~stored.torn /\ stored.value.configured

LEMMA KeptStep ==
  ASSUME StoreInv, Kept, [PanelNext]_panelVars
  PROVE  Kept' /\ (configured => configured' \/ raced')
<1>0. StoreOK /\ SavesInside
  BY DEF StoreInv
<1>1. ASSUME UNCHANGED <<configured, stored, next, raced>>,
             \A s \in Saver : saving'[s] = "writing" <=> saving[s] = "writing"
      PROVE  Kept' /\ (configured => configured')
  BY <1>1 DEF Kept
<1>2. ASSUME NEW s \in Saver, NEW e \in BOOLEAN, NEW c \in BOOLEAN, saving[s] # "writing",
             configured => c, Write(s, e, c)
      PROVE  Kept' /\ (configured => configured')
  <2>1. configured' = configured
    BY <1>2 DEF Write, scheduler, vars, config
  <2>2. saving'[s] = "writing" /\ next'[s].configured = c
    BY <1>0, <1>2 DEF Write, StoreOK
  <2>3. ASSUME ~raced', NEW t \in Saver, saving'[t] = "writing" PROVE t = s
    BY <1>0, <1>2, <2>3 DEF Write, StoreOK, Others
  <2> QED BY <1>2, <2>1, <2>2, <2>3 DEF Kept
<1>3. ASSUME NEW overdue \in BOOLEAN, Start(overdue) PROVE Kept' /\ (configured => configured' \/ raced')
  <2>1. ~up /\ configured' = Loaded.configured /\ UNCHANGED store
    BY <1>3 DEF Start, Boot
  <2>2. \A s \in Saver : saving[s] # "writing"
    BY <1>0, <2>1 DEF SavesInside
  <2>3. Loaded.configured <=> ~stored.torn /\ stored.value.configured
    BY <1>0 DEF Loaded, Default, StoreOK, Settings
  <2> QED BY <2>1, <2>2, <2>3 DEF Kept, store
<1>4. CASE SchedulerStep
  <2>1. UNCHANGED configured
    BY <1>4 DEF SchedulerStep, Tick, ManualSync, Resume, SyncReturns, EndOfRun, SyncThrows,
                HistorySaved, Cancelled, Failed, Succeeded, Finally, config
  <2> QED BY <1>1, <1>4, <2>1 DEF SchedulerStep, store
<1>5. CASE Toggle
  <2>1. "tray" \in Saver /\ (~enabled) \in BOOLEAN /\ configured \in BOOLEAN
    BY DEF Saver, StoreInv, FlagsOK
  <2>2. saving["tray"] # "writing" /\ Write("tray", ~enabled, configured)
    BY <1>5 DEF Toggle
  <2> QED BY <1>2, <2>1, <2>2
<1>6. CASE Post \/ Refuse
  <2>1. \A s \in Saver : saving'[s] = "writing" <=> saving[s] = "writing"
    BY <1>0, <1>6 DEF Post, Refuse, StoreOK, Saver
  <2> QED BY <1>1, <1>6, <2>1 DEF Post, Refuse, scheduler, vars, config
<1>7. CASE Merge
  <2>1. "panel" \in Saver BY DEF Saver
  <2> QED BY <1>2, <1>7, <2>1 DEF Merge
<1>8. ASSUME NEW s \in Saver, Saved(s) PROVE Kept' /\ (configured => configured' \/ raced')
  <2>1. saving[s] = "writing" /\ saving' = [saving EXCEPT ![s] = "idle"] /\ UNCHANGED <<next, raced>>
    BY <1>8 DEF Saved, Written
  <2>2. configured' \in {configured, next[s].configured}
    BY <1>8 DEF Saved, UpdateConfig, Resume, scheduler, vars, config
  <2>3. SUFFICES ASSUME ~raced PROVE Kept' /\ (configured => configured')
    BY <2>1 DEF Kept
  <2>4. stored' = [torn |-> FALSE, value |-> next[s]]
    BY <1>8, <2>3 DEF Saved, Written
  <2>5. \A t \in Saver : saving'[t] # "writing"
    BY <1>0, <2>1, <2>3 DEF Kept, StoreOK
  <2>6. configured => next[s].configured
    BY <2>1, <2>3 DEF Kept
  <2> QED BY <2>2, <2>4, <2>5, <2>6 DEF Kept
<1>9. ASSUME NEW s \in Saver, WriteFails(s) PROVE Kept' /\ (configured => configured' \/ raced')
  BY <1>9 DEF WriteFails, Kept
<1>10. CASE Construct \/ HelperStarts \/ Ready \/ ReadyTimesOut \/ NeverReady \/ HelperEnds
            \/ OpenWindow \/ WindowEnds
  BY <1>1, <1>10 DEF Construct, HelperStarts, Ready, ReadyTimesOut, NeverReady, HelperEnds,
                     OpenWindow, WindowEnds, scheduler, vars, config, store
<1>11. CASE Shutdown
  BY <1>1, <1>11 DEF Shutdown, Close, store, config
<1>12. CASE Leave \/ Deadline \/ Killed
  <2>1. Ended /\ Forgotten /\ UNCHANGED configured
    BY <1>12 DEF Leave, Exit, Deadline, Killed, Crash, Ended, config
  <2>2. \A s \in Saver : saving'[s] # "writing"
    BY <2>1 DEF Forgotten
  <2>3. (~raced' => ~raced /\ \A s \in Saver : saving[s] # "writing")
    BY <1>12 DEF Leave, NothingHolds, Deadline, Killed, CutOff
  <2> QED BY <2>1, <2>2, <2>3 DEF Forgotten, Kept
<1>13. CASE UNCHANGED panelVars
  BY <1>1, <1>13 DEF panelVars, store, vars, config
<1> QED BY <1>3, <1>4, <1>5, <1>6, <1>7, <1>8, <1>9, <1>10, <1>11, <1>12, <1>13 DEF PanelNext

\* Once it has an address and a token the daemon keeps them through toggles,
\* saves, shutdowns and restarts (setConfig() writes before it applies,
\* index.ts of cline-sync), unless two writes met, one failed or was cut off.
THEOREM PanelSettingsSurvive == PanelSpec => SettingsSurvive
<1>1. PanelInit => Kept
  BY DEF PanelInit, Kept, config
<1>2. StoreInv /\ Kept /\ [PanelNext]_panelVars => Kept'
  BY KeptStep
<1>3. StoreInv /\ Kept /\ [PanelNext]_panelVars => [configured => configured' \/ raced']_panelVars
  BY KeptStep
<1> QED BY <1>1, <1>2, <1>3, StoreInvariance, PTL DEF PanelSpec, SettingsSurvive

-----------------------------------------------------------------------------
(* The engine.                                                             *)

Cutting == stage \in {"cut", "upload", "save"}

Text == [size : Nat, units : SUBSET (Message \X Nat)]

EngineShape ==
    /\ file \in Seq(Message) /\ Len(file) <= MaxMessages
    /\ messages \in Seq(Message) /\ Len(messages) <= MaxMessages
    /\ version \in 1 .. MaxEdits + 1
    /\ listed \in 0 .. version
    /\ saved \in Cursors /\ saved.certified <= version
    /\ cursor \in Cursors /\ cursor.certified <= version
    /\ covered \in Seq(Message) /\ saved.count <= Len(covered)
    /\ covering \in Seq(Message) /\ cursor.count <= Len(covering)
    /\ stage \in {"idle", "read", "certify", "cut", "upload", "save", "finish"}
    /\ from \in 0 .. MaxMessages
    /\ index \in Nat /\ position \in Nat /\ completed \in Nat
    /\ buffer \in Text
    /\ chunk \in [text : Text, count : 0 .. MaxMessages, offset : Nat, hash : Message \cup {NoMessage}]
    /\ faults \in 0 .. MaxFaults

FlagsShape ==
    /\ stable \in BOOLEAN /\ cancelled \in BOOLEAN
    /\ repeated \in BOOLEAN /\ rewritten \in BOOLEAN

\* Where syncChunks stands in the messages it cuts.
CutterPlaced ==
    Cutting =>
    /\ from < Len(messages) /\ from <= Len(covering)
    /\ from <= completed /\ completed <= Len(messages)
    /\ \/ index = completed + 1
       \/ index = completed + 2 /\ completed = Len(messages) /\ position = 0
    /\ position > 0 => index <= Len(messages) /\ Taken <= Length[messages[index]]
    /\ index = from + 1 /\ position = 0 => buffer = Nothing
    /\ position > 1 /\ Taken < Length[messages[index]] => buffer = Nothing

\* A chunk ends with a message, or inside the one that comes next.
ChunkPlaced ==
    stage = "upload" =>
    /\ chunk.count \in from .. Len(messages)
    /\ chunk.offset > 0 => /\ chunk.count < Len(messages)
                           /\ chunk.hash = messages[chunk.count + 1]
                           /\ chunk.offset <= Length[chunk.hash]

\* A yield empties the buffer, the last one aside.
Yielded == stage \in {"upload", "save"} => buffer = Nothing \/ index = Len(messages) + 2

Placed == EngineShape /\ CutterPlaced /\ ChunkPlaced /\ Yielded

\* The parts of the assumption that most steps need.
LEMMA EngineBounds ==
  /\ MaxMessages \in Nat /\ MaxEdits \in Nat /\ MaxFaults \in Nat /\ Limit \in Nat /\ Limit > 3
  /\ \A m \in Message : Length[m] \in Nat
BY EngineAssumption

\* What a confirmed chunk and a certificate make of the cursor.
LEMMA CursorConfirmed ==
  Confirmed.count = chunk.count /\ Confirmed.offset = chunk.offset /\ Confirmed.hash = chunk.hash
  /\ \/ Confirmed = [count |-> chunk.count, offset |-> chunk.offset, hash |-> chunk.hash, certified |-> 0]
     \/ /\ Confirmed = [count |-> chunk.count, offset |-> chunk.offset, hash |-> chunk.hash, certified |-> listed]
        /\ chunk.count = Len(messages)
<1> DEFINE reached == [count |-> chunk.count, offset |-> chunk.offset, hash |-> chunk.hash, certified |-> 0]
<1>1. Certify(reached) = [count |-> chunk.count, offset |-> chunk.offset, hash |-> chunk.hash, certified |-> listed]
  BY DEF Certify
<1>2. CASE stable /\ chunk.count = Len(messages) /\ chunk.offset = 0
  <2>1. Confirmed = Certify(reached)
    BY <1>2 DEF Confirmed
  <2> QED BY <2>1, <1>1, <1>2
<1>3. CASE ~(stable /\ chunk.count = Len(messages) /\ chunk.offset = 0)
  <2>1. Confirmed = reached
    BY <1>3 DEF Confirmed
  <2> QED BY <2>1
<1> QED BY <1>2, <1>3

\* The comparison certifies the cursor at most, and only with nothing to cut.
LEMMA CursorCertified ==
  ASSUME EngineShape, stage = "certify", Compare
  PROVE  /\ cursor'.count = cursor.count /\ cursor'.offset = cursor.offset /\ cursor'.hash = cursor.hash
         /\ cursor' \in Cursors
         /\ \/ cursor' = cursor
            \/ cursor'.certified = listed /\ Len(messages) - from' = 0
         /\ stage' = "cut" => cursor' = cursor
<1>1. CASE NothingNew(Len(messages) - from')
  <2>1. cursor' \in {Certify(cursor), cursor} /\ stage' = "finish"
    BY <1>1 DEF Compare
  <2>2. cursor \in Cursors /\ listed \in Nat
    BY EngineBounds DEF EngineShape
  <2>3. Certify(cursor) \in Cursors /\ Certify(cursor).certified = listed
        /\ Certify(cursor).count = cursor.count /\ Certify(cursor).offset = cursor.offset
        /\ Certify(cursor).hash = cursor.hash
    BY <2>2 DEF Certify, Cursors
  <2> QED BY <1>1, <2>1, <2>2, <2>3 DEF NothingNew, EngineShape
<1>2. CASE ~NothingNew(Len(messages) - from')
  BY <1>2 DEF Compare, EngineShape
<1> QED BY <1>1, <1>2

LEMMA EngineStarts == EngineInit => Placed
<1> SUFFICES ASSUME EngineInit PROVE Placed
  OBVIOUS
<1>1. PICK n \in 0 .. MaxMessages : file \in [1 .. n -> Message]
  BY DEF EngineInit
<1>2. file \in Seq(Message) /\ Len(file) = n
  BY <1>1, EngineAssumption
<1>3. EngineShape
  BY <1>2, EngineAssumption DEF EngineInit, EngineShape, Cursors, NoCursor, Nothing, NoChunk, Text
<1> QED
  BY <1>3 DEF Placed, CutterPlaced, ChunkPlaced, Yielded, Cutting, EngineInit

\* What one cut takes of a message: something of it, and no more than there is.
LEMMA CutInside ==
  ASSUME NEW m \in Message, position \in Nat, position > 0, buffer.size \in Nat,
         Taken < Length[m], buffer.size < Limit - Separator
  PROVE  /\ Cut(m) \in Nat
         /\ Taken < Cut(m) /\ Cut(m) <= Length[m]
<1>1. Length[m] \in Nat
  BY EngineAssumption
<1>2. Limit \in Nat
  BY EngineAssumption
<1> QED
  BY <1>1, <1>2 DEF Cut, Least, Taken, Separator

\* A message is resumed inside it.
LEMMA ResumedInside ==
  ASSUME NEW m \in Message, cursor \in Cursors
  PROVE  Resumed(m) \in Nat /\ Resumed(m) <= Length[m]
BY EngineAssumption DEF Resumed, Least, Cursors

\* What every step of the cutter is guarded by and leaves alone.
LEMMA CutterSteps ==
  CutterNext =>
    /\ stage = "cut"
    /\ BeginMessage \/ Flush \/ Take \/ EndMessage \/ EndCut \/ EndTask
    /\ UNCHANGED <<disk, saved, cursor, reads, cancelled, faults, server, covered, covering, repeated>>
BY DEF CutterNext, CutterStep

\* Replacing one element of a sequence keeps its length.
LEMMA OneReplaced ==
  ASSUME NEW S, NEW seq \in Seq(S), NEW i \in DOMAIN seq, NEW x \in S
  PROVE  [seq EXCEPT ![i] = x] \in Seq(S) /\ Len([seq EXCEPT ![i] = x]) = Len(seq)
OBVIOUS

\* Every variable keeps its type, whatever step is taken.
LEMMA ShapeKept ==
  ASSUME Placed, EngineNext
  PROVE  EngineShape'
<1> USE EngineBounds
<1> USE DEF EngineShape, disk, reads
<1>0. EngineShape /\ CutterPlaced /\ ChunkPlaced
  BY DEF Placed
<1>1. CASE List
  BY <1>0, <1>1 DEF List, cutter
<1>2. CASE Read
  BY <1>0, <1>2 DEF Read, cutter
<1>3. CASE Compare
  <2>1. from' \in 0 .. MaxMessages
    BY <1>0, <1>3 DEF Compare, Cursors
  <2>2. cursor' \in Cursors /\ cursor'.certified <= version /\ cursor'.count = cursor.count
    BY <1>0, <1>3, CursorCertified DEF Compare
  <2>3. index' \in Nat /\ position' \in Nat /\ completed' \in Nat /\ buffer' \in Text
    <3>1. CASE UNCHANGED cutter
      BY <1>0, <3>1 DEF cutter
    <3>2. CASE index' = from' + 1 /\ position' = 0 /\ buffer' = Nothing /\ completed' = from'
      <4>1. Nothing \in Text
        BY DEF Nothing, Text
      <4>2. from' \in Nat
        BY <2>1
      <4>3. index' \in Nat /\ completed' \in Nat /\ position' \in Nat
        <5>1. \A a \in Nat : a + 1 \in Nat /\ 0 \in Nat
          OBVIOUS
        <5> QED BY ONLY <3>2, <4>2, <5>1, Zenon
      <4> HIDE DEF EngineShape
      <4> QED BY <3>2, <4>1, <4>3
    <3> QED BY <1>3, <3>1, <3>2 DEF Compare
  <2>4. stage' \in {"finish", "cut"}
    BY <1>3 DEF Compare
  <2> QED BY <1>0, <1>3, <2>1, <2>2, <2>3, <2>4 DEF Compare
<1>4. CASE CutterNext
  <2>1. /\ UNCHANGED <<disk, saved, cursor, reads, faults, covered, covering>>
        /\ stage = "cut" /\ completed <= Len(messages)
    BY <1>0, <1>4, CutterSteps DEF CutterPlaced, Cutting
  <2> SUFFICES /\ index' \in Nat /\ position' \in Nat /\ completed' \in Nat
               /\ buffer' \in Text
               /\ stage' \in {"cut", "upload", "finish"}
               /\ chunk' \in [text : Text, count : 0 .. MaxMessages, offset : Nat, hash : Message \cup {NoMessage}]
    BY <1>0, <2>1
  <2>2. completed \in 0 .. MaxMessages
    BY <1>0, <2>1
  <2>3. CASE BeginMessage
    <3>1. messages[index] \in Message /\ index - 1 = completed
      BY <1>0, <2>3 DEF BeginMessage
    <3>2. position' = 1 + Resumed(messages[index])
      BY <2>3 DEF BeginMessage
    <3>3. position' \in Nat
      <4>1. Resumed(messages[index]) \in Nat
        BY <1>0, <3>1, ResumedInside
      <4> QED BY <3>2, <4>1
    <3>4. \/ Yield(buffer, completed, 0, NoMessage) /\ buffer' = Nothing
          \/ buffer' = [buffer EXCEPT !.size = @ + Separator] /\ Continue
          \/ UNCHANGED buffer /\ Continue
      BY <2>3 DEF BeginMessage
    <3>5. buffer' \in Text
      <4>1. Nothing \in Text
        BY DEF Nothing, Text
      <4>2. [buffer EXCEPT !.size = @ + Separator] \in Text
        <5>1. buffer \in Text /\ buffer.size \in Nat /\ buffer.units \in SUBSET (Message \X Nat)
          BY <1>0 DEF Text
        <5>2. [buffer EXCEPT !.size = @ + Separator] = [size |-> buffer.size + Separator, units |-> buffer.units]
          BY <5>1 DEF Text
        <5> QED BY <5>1, <5>2 DEF Text, Separator
      <4>3. buffer \in Text
        BY <1>0
      <4> HIDE DEF EngineShape
      <4> QED BY <3>4, <4>1, <4>2, <4>3
    <3>6. stage' \in {"cut", "upload"} /\ chunk' \in [text : Text, count : 0 .. MaxMessages, offset : Nat, hash : Message \cup {NoMessage}]
      <4>1. CASE Yield(buffer, completed, 0, NoMessage)
        <5>1. buffer \in Text
          BY <1>0
        <5> HIDE DEF EngineShape
        <5> QED BY <2>2, <4>1, <5>1 DEF Yield
      <4>2. CASE Continue
        BY <1>0, <2>1, <4>2 DEF Continue
      <4> QED BY <3>4, <4>1, <4>2
    <3> QED BY <1>0, <2>3, <3>3, <3>5, <3>6 DEF BeginMessage
  <2>4. CASE Flush
    BY <1>0, <2>2, <2>4 DEF Flush, Yield, Nothing, Text
  <2>5. CASE Take
    <3> DEFINE m == messages[index]
               taken == [size  |-> buffer.size + (Cut(m) - Taken),
                         units |-> buffer.units \cup {<<m, p>> : p \in (Taken + 1) .. Cut(m)}]
    <3>1. m \in Message /\ position > 0 /\ index - 1 = completed /\ index \in Nat
      BY <1>0, <2>1, <2>5 DEF Take, InMessage, CutterPlaced, Cutting
    <3>2. buffer.size \in Nat /\ buffer.units \subseteq Message \X Nat
      BY <1>0 DEF Text
    <3>3. Taken < Length[m] /\ buffer.size < Limit - Separator
      BY <2>5 DEF Take
    <3>4. Cut(m) \in Nat /\ Taken < Cut(m) /\ Cut(m) <= Length[m]
      BY <1>0, <3>1, <3>2, <3>3, CutInside
    <3>5. Taken \in Nat
      BY <1>0, <3>1 DEF Taken
    <3>6. taken \in Text
      <4>1. buffer.size + (Cut(m) - Taken) \in Nat
        BY <3>2, <3>4, <3>5
      <4>2. {<<m, p>> : p \in (Taken + 1) .. Cut(m)} \subseteq Message \X Nat
        BY <3>1, <3>4, <3>5
      <4> QED BY <4>1, <4>2, <3>2 DEF Text
    <3>7. /\ position' = 1 + Cut(m)
          /\ IF Cut(m) < Length[m]
             THEN Yield(taken, index - 1, Cut(m), m) /\ buffer' = Nothing
             ELSE buffer' = taken /\ Continue
          /\ UNCHANGED <<index, completed>>
      BY <2>5 DEF Take
    <3> HIDE DEF m, taken
    <3>8. buffer' \in Text
      BY <3>6, <3>7 DEF Nothing, Text
    <3>9. stage' \in {"cut", "upload"} /\ chunk' \in [text : Text, count : 0 .. MaxMessages, offset : Nat, hash : Message \cup {NoMessage}]
      BY <1>0, <2>1, <2>2, <3>1, <3>4, <3>6, <3>7 DEF Yield, Continue
    <3> QED BY <1>0, <3>4, <3>7, <3>8, <3>9
  <2>6. CASE EndMessage
    BY <1>0, <2>1, <2>6 DEF EndMessage
  <2>7. CASE EndCut
    BY <1>0, <2>2, <2>7 DEF EndCut, Yield
  <2>8. CASE EndTask
    BY <1>0, <2>1, <2>8 DEF EndTask, cutter
  <2> QED BY <1>4, <2>3, <2>4, <2>5, <2>6, <2>7, <2>8, CutterSteps
<1>5. CASE Upload
  <2>1. stage = "upload" /\ chunk.count \in 0 .. Len(messages) /\ from <= Len(covering)
    BY <1>0, <1>5 DEF Upload, ChunkPlaced, CutterPlaced, Cutting
  <2>2. /\ cursor' \in Cursors /\ cursor'.certified <= version
        /\ cursor'.count = chunk.count
    <3>1. cursor' = Confirmed
      BY <1>5 DEF Upload, Confirm
    <3> QED BY <1>0, <2>1, <3>1, CursorConfirmed DEF Cursors
  <2>3. covering' \in Seq(Message) /\ Len(covering') = Len(messages)
    <3>1. covering' = [i \in 1 .. Len(messages) |-> IF i <= from THEN covering[i] ELSE messages[i]]
      BY <1>0, <1>5 DEF Upload, Confirm
    <3>2. \A i \in 1 .. Len(messages) : (IF i <= from THEN covering[i] ELSE messages[i]) \in Message
      BY <1>0, <2>1
    <3> QED BY <1>0, <3>1, <3>2
  <2> QED BY <1>0, <1>5, <2>1, <2>2, <2>3 DEF Upload, Confirm, cutter
<1>6. CASE Save
  BY <1>0, <1>6 DEF Save, cutter
<1>7. CASE Finish
  BY <1>0, <1>7 DEF Finish, cutter
<1>8. CASE UploadFails
  BY <1>0, <1>8 DEF UploadFails, Fault, cutter
<1>9. CASE Cancel
  BY <1>0, <1>9 DEF Cancel, Fault, cutter
<1>10. CASE EngineCrash
  BY <1>0, <1>10 DEF EngineCrash, Fault, cutter
<1>11. ASSUME NEW new \in Seq(Message), Len(new) <= MaxMessages, Rewrite(new) PROVE EngineShape'
  <2>1. version' \in 1 .. MaxEdits + 1 /\ version' = version + 1 /\ file' = new
    BY <1>0, <1>11 DEF Rewrite
  <2>2. UNCHANGED <<saved, cursor, stage, reads, cutter, chunk, faults, covered, covering>>
    BY <1>11 DEF Rewrite
  <2>3. saved.certified \in Nat /\ cursor.certified \in Nat
    BY <1>0 DEF Cursors
  <2> QED BY <1>0, <1>11, <2>1, <2>2, <2>3 DEF cutter
<1>12. ASSUME NEW m \in Message, AppendMessage(m) PROVE EngineShape'
  <2>1. Append(file, m) \in Seq(Message) /\ Len(Append(file, m)) <= MaxMessages /\ Rewrite(Append(file, m))
    BY <1>0, <1>12 DEF AppendMessage
  <2> QED BY <2>1, <1>11
<1>13. ASSUME NEW i \in DOMAIN file, NEW m \in Message, ChangeMessage(i, m) PROVE EngineShape'
  <2>1. [file EXCEPT ![i] = m] \in Seq(Message) /\ Len([file EXCEPT ![i] = m]) = Len(file)
    BY <1>0, OneReplaced
  <2> QED BY <1>0, <2>1, <1>11, <1>13 DEF ChangeMessage
<1>14. ASSUME NEW n \in 0 .. Len(file) - 1, RestoreCheckpoint(n) PROVE EngineShape'
  <2>1. SubSeq(file, 1, n) \in Seq(Message) /\ Len(SubSeq(file, 1, n)) = n
    BY <1>0, <1>14
  <2>2. Len(SubSeq(file, 1, n)) <= MaxMessages /\ Rewrite(SubSeq(file, 1, n))
    BY <1>0, <2>1, <1>14 DEF RestoreCheckpoint
  <2> HIDE DEF EngineShape
  <2> QED BY <2>1, <2>2, <1>11
<1> QED
  BY <1>1, <1>2, <1>3, <1>4, <1>5, <1>6, <1>7, <1>8, <1>9, <1>10, <1>12, <1>13, <1>14 DEF EngineNext, RunStep
\* The numbers that later arguments compare.
LEMMA CursorNumbers ==
  ASSUME EngineShape
  PROVE  /\ saved.count \in Nat /\ saved.offset \in Nat /\ saved.certified \in Nat
         /\ cursor.count \in Nat /\ cursor.offset \in Nat /\ cursor.certified \in Nat
         /\ Len(file) \in Nat /\ Len(messages) \in Nat /\ Len(covered) \in Nat /\ Len(covering) \in Nat
         /\ cursor.count <= Len(covering) /\ saved.count <= Len(covered)
         /\ from \in Nat /\ version \in Nat /\ listed \in Nat
BY EngineBounds DEF EngineShape, Cursors

\* Only the first message behind the cursor is resumed, and only if it is the
\* one the cursor names.
LEMMA ResumedFirst ==
  ASSUME NEW m, Resumed(m) # 0
  PROVE  index = from + 1 /\ cursor.count = from /\ cursor.hash = m
BY DEF Resumed

\* The cutter goes from message to message and never past the end of one.
LEMMA CutterPlacesKept ==
  ASSUME Placed, CutterNext
  PROVE  (CutterPlaced /\ ChunkPlaced /\ Yielded)'
<1> USE EngineBounds
<1>0. /\ messages \in Seq(Message) /\ from \in Nat
      /\ index \in Nat /\ position \in Nat /\ completed \in Nat
      /\ buffer.size \in Nat /\ cursor \in Cursors /\ Nothing.size = 0
  BY DEF Placed, EngineShape, Text, Nothing
<1>1. /\ stage = "cut"
      /\ BeginMessage \/ Flush \/ Take \/ EndMessage \/ EndCut \/ EndTask
      /\ messages' = messages /\ from' = from /\ covering' = covering
  BY CutterSteps DEF reads
<1>2. /\ from < Len(messages) /\ from <= Len(covering)
      /\ from <= completed /\ completed <= Len(messages)
      /\ \/ index = completed + 1
         \/ index = completed + 2 /\ completed = Len(messages) /\ position = 0
      /\ position > 0 => index <= Len(messages) /\ position - 1 <= Length[messages[index]]
      /\ index = from + 1 /\ position = 0 => buffer = Nothing
      /\ position > 1 /\ position - 1 < Length[messages[index]] => buffer = Nothing
  BY <1>1 DEF Placed, CutterPlaced, Cutting, Taken
<1>3. Len(messages) \in Nat
  BY <1>0
<1> DEFINE Goal ==
      /\ stage' # "finish" =>
            /\ from <= completed' /\ completed' <= Len(messages)
            /\ \/ index' = completed' + 1
               \/ index' = completed' + 2 /\ completed' = Len(messages) /\ position' = 0
            /\ position' > 0 => index' <= Len(messages) /\ position' - 1 <= Length[messages[index']]
            /\ index' = from + 1 /\ position' = 0 => buffer' = Nothing
            /\ position' > 1 /\ position' - 1 < Length[messages[index']] => buffer' = Nothing
      /\ stage' = "upload" =>
            /\ chunk'.count \in from .. Len(messages)
            /\ chunk'.offset > 0 => /\ chunk'.count < Len(messages)
                                    /\ chunk'.hash = messages[chunk'.count + 1]
                                    /\ chunk'.offset <= Length[chunk'.hash]
            /\ buffer' = Nothing \/ index' = Len(messages) + 2
      /\ stage' # "save"
<1> SUFFICES Goal
  BY <1>1, <1>2 DEF CutterPlaced, ChunkPlaced, Yielded, Cutting, Taken
<1>4. CASE BeginMessage
  <2> DEFINE m == messages[index]
  <2>1. /\ index <= Len(messages) /\ position = 0 /\ completed = index - 1
        /\ position' = 1 + Resumed(m) /\ index' = index /\ completed' = completed
        /\ \/ Yield(buffer, completed, 0, NoMessage) /\ buffer' = Nothing
           \/ buffer # Nothing /\ Continue
           \/ buffer = Nothing /\ buffer' = buffer /\ Continue
           \/ Length[m] = Resumed(m) /\ Continue
    <3>1. m \in Message
      BY <1>0, <1>4 DEF BeginMessage
    <3>2. Resumed(m) \in Nat /\ Resumed(m) <= Length[m] /\ Length[m] \in Nat
      BY <3>1, <1>0, ResumedInside
    <3> QED BY <3>2, <1>4 DEF BeginMessage
  <2>2. m \in Message /\ Resumed(m) \in Nat /\ Resumed(m) <= Length[m] /\ Length[m] \in Nat
    BY <1>0, <2>1, ResumedInside
  <2>3. Resumed(m) # 0 => buffer = Nothing
    BY <1>2, <2>1, ResumedFirst
  <2>4. (chunk' = chunk /\ stage' = stage) \/ (stage' = "upload" /\ chunk'.count = completed /\ chunk'.offset = 0 /\ buffer' = Nothing)
    BY <2>1 DEF Yield, Continue
  <2>5. position' > 1 /\ position' - 1 < Length[m] => buffer' = Nothing
    <3>1. position' - 1 = Resumed(m)
      BY <2>1, <2>2
    <3> QED BY <2>1, <2>2, <2>3, <3>1
  <2> QED BY <1>0, <1>1, <1>2, <1>3, <2>1, <2>2, <2>4, <2>5
<1>5. CASE Flush
  <2>1. /\ index' = index /\ position' = position /\ completed' = completed /\ buffer' = Nothing
        /\ stage' = "upload" /\ chunk'.count = completed /\ chunk'.offset = 0
    BY <1>5 DEF Flush, Yield
  <2> QED BY <1>0, <1>1, <1>2, <1>3, <2>1
<1>6. CASE Take
  <2> DEFINE m == messages[index]
  <2>1. /\ index <= Len(messages) /\ position > 0
        /\ Taken < Length[m] /\ buffer.size < Limit - Separator
        /\ position' = 1 + Cut(m)
        /\ index' = index /\ completed' = completed
    BY <1>6 DEF Take, InMessage
  <2>2. m \in Message /\ index = completed + 1 /\ index - 1 = completed
    BY <1>0, <1>2, <2>1
  <2>3. Cut(m) \in Nat /\ Taken < Cut(m) /\ Cut(m) <= Length[m] /\ Length[m] \in Nat
    BY <1>0, <2>1, <2>2, CutInside
  <2>4. \/ /\ Cut(m) < Length[m] /\ stage' = "upload" /\ buffer' = Nothing
           /\ chunk'.count = completed /\ chunk'.offset = Cut(m) /\ chunk'.hash = m
        \/ Cut(m) = Length[m] /\ stage' = stage
    BY <1>6, <2>2, <2>3 DEF Take, Yield, Continue
  <2>5. PICK c \in Nat : c = Cut(m) /\ c <= Length[m] /\ Length[m] \in Nat /\ c > 0 /\ position' - 1 = c
    BY <1>0, <2>1, <2>3 DEF Taken
  <2>6. CASE stage' = "upload"
    <3>1. chunk'.offset <= Length[chunk'.hash] /\ messages[chunk'.count + 1] = chunk'.hash
      BY <1>1, <2>2, <2>4, <2>5, <2>6
    <3>2. buffer' = Nothing /\ chunk'.count = completed
      BY <1>1, <2>4, <2>6
    <3> QED BY <1>0, <1>2, <1>3, <2>1, <2>2, <2>5, <2>6, <3>1, <3>2
  <2>7. CASE stage' = stage
    <3>1. position' - 1 = Length[m]
      BY <1>1, <2>4, <2>5, <2>7
    <3> QED BY <1>0, <1>1, <1>2, <1>3, <2>1, <2>2, <2>5, <2>7, <3>1
  <2> QED BY <2>4, <2>6, <2>7
<1>7. CASE EndMessage
  BY <1>0, <1>1, <1>2, <1>3, <1>7 DEF EndMessage, InMessage
<1>8. CASE EndCut
  <2>1. /\ index = Len(messages) + 1 /\ index' = index + 1
        /\ position' = position /\ completed' = completed /\ buffer' = buffer
        /\ stage' = "upload" /\ chunk'.count = completed /\ chunk'.offset = 0
    BY <1>8 DEF EndCut, Yield
  <2> QED BY <1>0, <1>1, <1>2, <1>3, <2>1
<1>9. CASE EndTask
  BY <1>9 DEF EndTask
<1> QED BY <1>1, <1>4, <1>5, <1>6, <1>7, <1>8, <1>9

\* The rest of a run leaves the cutter where it is, starts it or ends it.
LEMMA PlacesKept ==
  ASSUME Placed, EngineNext
  PROVE  Placed'
<1> USE DEF CutterPlaced, ChunkPlaced, Yielded, Cutting, Taken
<1>0. EngineShape' /\ EngineShape /\ CutterPlaced /\ ChunkPlaced /\ Yielded
  BY ShapeKept DEF Placed
<1> SUFFICES (CutterPlaced /\ ChunkPlaced /\ Yielded)'
  BY <1>0 DEF Placed
<1>1. CASE UNCHANGED <<stage, messages, from, covering, index, position, buffer, completed, chunk>>
  BY <1>0, <1>1
<1>2. CASE stage' \notin {"cut", "upload", "save"}
  BY <1>2
<1>3. CASE Compare
  <2>1. CASE NothingNew(Len(messages) - from')
    BY <1>2, <1>3, <2>1 DEF Compare
  <2>2. CASE ~NothingNew(Len(messages) - from')
    <3>1. /\ from' = IF cursor.count > Len(messages) THEN 0 ELSE cursor.count
          /\ messages' = messages /\ covering' = covering
      BY <1>3 DEF Compare
    <3>2. /\ stage' = "cut" /\ position' = 0 /\ buffer' = Nothing
          /\ index' = from' + 1 /\ completed' = from'
      BY <1>3, <2>2 DEF Compare
    <3> DEFINE start == IF cursor.count > Len(messages) THEN 0 ELSE cursor.count
    <3>3. PICK n \in Nat : n = start /\ n <= Len(messages) /\ n <= Len(covering) /\ Len(messages) \in Nat
      <4>1. cursor.count \in Nat /\ Len(messages) \in Nat /\ cursor.count <= Len(covering) /\ Len(covering) \in Nat
        BY <1>0, CursorNumbers
      <4>2. start \in Nat /\ start <= Len(messages) /\ start <= Len(covering)
        BY <4>1
      <4> HIDE DEF start
      <4> QED BY <4>1, <4>2
    <3>4. index' = n + 1 /\ completed' = n /\ from' = n
      BY <3>1, <3>2, <3>3
    <3>5. n < Len(messages)
      BY <2>2, <3>3, <3>4 DEF NothingNew
    <3> QED BY <3>1, <3>2, <3>3, <3>4, <3>5
  <2> QED BY <2>1, <2>2
<1>4. CASE CutterNext
  BY <1>4, CutterPlacesKept
<1>5. CASE Upload
  <2>1. /\ stage = "upload" /\ stage' = "save"
        /\ UNCHANGED <<messages, from, index, position, buffer, completed>>
        /\ Len(covering') = Len(messages)
    <3>1. covering' = [i \in 1 .. Len(messages) |-> IF i <= from THEN covering[i] ELSE messages[i]]
      BY <1>0, <1>5 DEF Upload, Confirm, EngineShape
    <3> QED BY <1>0, <1>5, <3>1 DEF Upload, Confirm, reads, cutter, EngineShape
  <2>2. from <= Len(covering')
    BY <1>0, <2>1 DEF EngineShape
  <2> QED BY <1>0, <2>1, <2>2
<1>6. CASE Save
  <2>1. /\ stage = "save" /\ stage' \in {"cut", "finish"}
        /\ UNCHANGED <<messages, from, covering, index, position, buffer, completed, chunk>>
    BY <1>6 DEF Save, reads, cutter
  <2> QED BY <1>0, <2>1
<1>7. CASE Cancel
  <2>1. /\ stage' = "finish" \/ stage' = stage
        /\ UNCHANGED <<messages, from, covering, index, position, buffer, completed, chunk>>
    BY <1>7 DEF Cancel, reads, cutter
  <2> QED BY <1>1, <1>2, <2>1
<1>8. ASSUME NEW new, Rewrite(new)
      PROVE  UNCHANGED <<stage, messages, from, covering, index, position, buffer, completed, chunk>>
  BY <1>8 DEF Rewrite, reads, cutter
<1>9. CASE List \/ Read \/ Finish \/ UploadFails \/ EngineCrash
  BY <1>2, <1>9 DEF List, Read, Finish, UploadFails, EngineCrash
<1>10. CASE \/ \E m \in Message : AppendMessage(m)
            \/ \E i \in DOMAIN file, m \in Message : ChangeMessage(i, m)
            \/ \E n \in 0 .. Len(file) - 1 : RestoreCheckpoint(n)
  BY <1>1, <1>8, <1>10 DEF AppendMessage, ChangeMessage, RestoreCheckpoint
<1> QED
  BY <1>3, <1>4, <1>5, <1>6, <1>7, <1>9, <1>10 DEF EngineNext, RunStep
\* A cursor covers only what the server has extracted.
Covers(c, cover) ==
    /\ \A i \in 1 .. c.count : Units(cover[i]) \subseteq server
    /\ \A p \in 1 .. c.offset : <<c.hash, p>> \in server

\* The units that are on the server, or will be when the chunk under way is,
\* or are still to be yielded.
Claimed == IF stage = "upload" THEN server \cup chunk.text.units ELSE server
Held    == Claimed \cup buffer.units

\* All the cutter has passed, up to its place in the message, is held.
CutterSent ==
    Cutting =>
    /\ \A i \in 1 .. from : Units(covering[i]) \subseteq server
    /\ \A i \in from + 1 .. completed : Units(messages[i]) \subseteq Held
    /\ \A p \in Nat : 0 < p /\ p < position => <<messages[index], p>> \in Held

\* What the cursor will claim once the chunk is confirmed is then true.
ChunkSent ==
    stage = "upload" =>
    /\ \A i \in from + 1 .. chunk.count : Units(messages[i]) \subseteq Claimed
    /\ \A p \in 1 .. chunk.offset : <<chunk.hash, p>> \in Claimed

Sent == Covers(saved, covered) /\ Covers(cursor, covering) /\ CutterSent /\ ChunkSent

\* The server forgets nothing.
LEMMA ServerGrows == EngineNext => server \subseteq server'
<1> SUFFICES ASSUME EngineNext PROVE server \subseteq server'
  OBVIOUS
<1>1. CASE CutterNext
  BY <1>1, CutterSteps
<1> QED
  BY <1>1 DEF EngineNext, RunStep, List, Read, Compare, Upload, Extract, Save, Finish, UploadFails, Cancel,
              EngineCrash, AppendMessage, ChangeMessage, RestoreCheckpoint, Rewrite

\* What the cutter has passed is on the server or in what it still holds: a
\* yield moves units from the buffer to the chunk, a cut adds those it passes.
LEMMA CutterSentKept ==
  ASSUME Placed, Sent, CutterNext
  PROVE  (CutterSent /\ ChunkSent)'
<1> USE EngineBounds
<1>0. /\ messages \in Seq(Message) /\ from \in Nat
      /\ index \in Nat /\ position \in Nat /\ completed \in Nat
      /\ buffer.size \in Nat /\ cursor \in Cursors /\ Nothing.units = {}
      /\ cursor.offset \in Nat /\ cursor.count \in Nat
  BY CursorNumbers DEF Placed, EngineShape, Text, Nothing
<1>1. /\ stage = "cut"
      /\ BeginMessage \/ Flush \/ Take \/ EndMessage \/ EndCut \/ EndTask
      /\ messages' = messages /\ from' = from /\ covering' = covering /\ server' = server
  BY CutterSteps DEF reads
<1>2. /\ \/ index = completed + 1
         \/ index = completed + 2 /\ position = 0
      /\ position > 0 => index <= Len(messages)
      /\ from <= completed
  BY <1>1 DEF Placed, CutterPlaced, Cutting
<1>3. /\ \A i \in 1 .. from : Units(covering[i]) \subseteq server
      /\ \A i \in from + 1 .. completed : Units(messages[i]) \subseteq server \cup buffer.units
      /\ \A p \in Nat : 0 < p /\ p < position => <<messages[index], p>> \in server \cup buffer.units
      /\ \A p \in 1 .. cursor.offset : <<cursor.hash, p>> \in server
  BY <1>1 DEF Sent, CutterSent, Cutting, Held, Claimed, Covers
<1> DEFINE Kept1 == \A i \in from + 1 .. completed' : Units(messages[i]) \subseteq Held'
           Kept2 == \A p \in Nat : 0 < p /\ p < position' => <<messages[index'], p>> \in Held'
           Kept3 == stage' = "upload" =>
                      /\ \A i \in from + 1 .. chunk'.count : Units(messages[i]) \subseteq Claimed'
                      /\ \A p \in 1 .. chunk'.offset : <<chunk'.hash, p>> \in Claimed'
<1> SUFFICES stage' # "finish" => Kept1 /\ Kept2 /\ Kept3
  BY <1>1, <1>3 DEF CutterSent, ChunkSent, Cutting, Units
<1>4. ASSUME Yield(buffer, completed, 0, NoMessage), completed' = completed
      PROVE  Kept3 /\ Kept1 /\ server \cup buffer.units \subseteq Held'
  <2>1. stage' = "upload" /\ chunk'.count = completed /\ chunk'.offset = 0 /\ chunk'.text = buffer
    BY <1>4 DEF Yield
  <2>2. Claimed' = server \cup buffer.units
    BY <1>1, <2>1 DEF Claimed
  <2>3. Claimed' \subseteq Held'
    BY DEF Held
  <2> HIDE DEF Claimed, Held
  <2>4. Kept3
    BY <1>3, <2>1, <2>2
  <2>5. Kept1
    BY <1>3, <1>4, <2>2, <2>3
  <2> QED BY <2>2, <2>3, <2>4, <2>5
<1>5. ASSUME stage' = "cut", buffer'.units = buffer.units
      PROVE  Kept3 /\ Held' = server \cup buffer.units
  BY <1>1, <1>5 DEF Claimed, Held
<1>6. CASE BeginMessage
  <2> DEFINE m == messages[index]
  <2>1. m \in Message /\ position = 0 /\ index' = index /\ completed' = completed
        /\ position' = 1 + Resumed(m)
    BY <1>0, <1>6 DEF BeginMessage
  <2>2. Resumed(m) \in Nat
    BY <1>0, <2>1, ResumedInside
  <2>3. \A p \in Nat : 0 < p /\ p < position' => <<m, p>> \in server
    <3>1. SUFFICES ASSUME NEW p \in Nat, 0 < p, p < position' PROVE <<m, p>> \in server
      OBVIOUS
    <3>2. p <= Resumed(m)
      BY <3>1, <2>1, <2>2
    <3>3. cursor.hash = m
      BY <3>1, <3>2, <2>2, ResumedFirst
    <3>4. Resumed(m) <= cursor.offset
      <4>1. Length[m] \in Nat
        BY <2>1
      <4> QED BY <1>0, <4>1 DEF Resumed, Least
    <3> QED BY <1>0, <1>3, <2>2, <3>1, <3>2, <3>3, <3>4
  <2>4. \/ Yield(buffer, completed, 0, NoMessage)
        \/ stage' = "cut" /\ buffer'.units = buffer.units
    <3>1. buffer \in Text
      BY DEF Placed, EngineShape
    <3>2. [buffer EXCEPT !.size = @ + Separator].units = buffer.units
      BY <3>1 DEF Text
    <3> QED BY <1>1, <3>2, <1>6 DEF BeginMessage, Continue
  <2>5. server \cup buffer.units \subseteq Held' /\ Kept3
    BY <2>1, <2>4, <1>4, <1>5
  <2> HIDE DEF m
  <2>6. Kept1
    BY <1>3, <2>1, <2>5 DEF Units
  <2>7. Kept2
    BY <2>1, <2>3, <2>5 DEF m
  <2> QED BY <2>5, <2>6, <2>7
<1>7. CASE Flush
  <2>1. Yield(buffer, completed, 0, NoMessage) /\ UNCHANGED <<index, position, completed>>
    BY <1>7 DEF Flush
  <2> QED BY <1>3, <1>4, <2>1
<1>8. CASE Take
  <2> DEFINE m == messages[index]
             new == {<<m, p>> : p \in (Taken + 1) .. Cut(m)}
             taken == [size |-> buffer.size + (Cut(m) - Taken), units |-> buffer.units \cup new]
  <2>1. /\ index <= Len(messages) /\ position > 0
        /\ Taken < Length[m] /\ buffer.size < Limit - Separator
        /\ position' = 1 + Cut(m)
        /\ index' = index /\ completed' = completed
        /\ \/ Yield(taken, index - 1, Cut(m), m)
           \/ buffer' = taken /\ Continue
    BY <1>8 DEF Take, InMessage
  <2>2. m \in Message /\ index - 1 = completed
    BY <1>0, <1>2, <2>1
  <2>3. Cut(m) \in Nat /\ Taken < Cut(m) /\ Taken \in Nat
    <3>1. Taken \in Nat
      BY <1>0, <2>1 DEF Taken
    <3> QED BY <1>0, <2>1, <2>2, <3>1, CutInside
  <2>4. taken.units = buffer.units \cup new
    OBVIOUS
  <2> HIDE DEF taken
  <2>5. \/ stage' = "upload" /\ chunk'.text = taken /\ chunk'.count = completed /\ chunk'.offset = Cut(m) /\ chunk'.hash = m
        \/ stage' = "cut" /\ buffer' = taken
    BY <1>1, <2>1, <2>2 DEF Yield, Continue
  <2>6. server \cup buffer.units \cup new \subseteq Held'
    BY <1>1, <2>4, <2>5 DEF Held, Claimed
  <2>7. \A p \in Nat : 0 < p /\ p < 1 + Cut(m) => <<m, p>> \in server \cup buffer.units \cup new
    <3>1. SUFFICES ASSUME NEW p \in Nat, 0 < p, p < 1 + Cut(m) PROVE <<m, p>> \in server \cup buffer.units \cup new
      OBVIOUS
    <3>2. CASE p < position
      BY <1>3, <3>1, <3>2
    <3>3. CASE ~(p < position)
      <4>1. p \in (Taken + 1) .. Cut(m)
        BY <1>0, <2>1, <2>3, <3>1, <3>3 DEF Taken
      <4> QED BY <4>1
    <3> QED BY <3>2, <3>3
  <2>8. stage' = "upload" => Claimed' = server \cup buffer.units \cup new
    BY <1>1, <2>4, <2>5 DEF Claimed
  <2> HIDE DEF new, m
  <2>9. Kept1
    BY <1>3, <2>1, <2>6 DEF Units
  <2>10. Kept2
    BY <2>1, <2>6, <2>7 DEF m
  <2>11. Kept3
    <3> SUFFICES ASSUME stage' = "upload" PROVE Kept3
      OBVIOUS
    <3>1. chunk'.count = completed /\ chunk'.offset = Cut(m) /\ chunk'.hash = m
      BY <2>5
    <3>2. \A i \in from + 1 .. completed : Units(messages[i]) \subseteq Claimed'
      BY <1>3, <2>8
    <3>3. \A p \in 1 .. Cut(m) : <<m, p>> \in Claimed'
      BY <2>3, <2>7, <2>8
    <3> QED BY <3>1, <3>2, <3>3
  <2> QED BY <2>9, <2>10, <2>11
<1>9. CASE EndMessage
  <2>1. /\ completed' = index /\ index' = index + 1 /\ position' = 0 /\ buffer' = buffer
        /\ stage' = "cut" /\ index <= Len(messages) /\ position > 0
        /\ Taken = Length[messages[index]]
    BY <1>1, <1>9 DEF EndMessage, InMessage
  <2>2. Kept3 /\ Held' = server \cup buffer.units
    BY <1>5, <2>1
  <2>3. Units(messages[index]) \subseteq server \cup buffer.units
    <3>1. Length[messages[index]] = position - 1
      BY <2>1 DEF Taken
    <3> QED BY <1>0, <1>3, <3>1, <2>1 DEF Units
  <2>4. index = completed + 1
    BY <1>0, <1>2, <2>1
  <2> HIDE DEF Held, Claimed
  <2>5. Kept1
    BY <1>0, <1>3, <2>1, <2>2, <2>3, <2>4
  <2>6. Kept2
    BY <2>1
  <2> QED BY <2>2, <2>5, <2>6
<1>10. CASE EndCut
  <2>1. Yield(buffer, completed, 0, NoMessage) /\ UNCHANGED <<position, completed>> /\ position = 0
    <3>1. index = Len(messages) + 1 /\ Len(messages) \in Nat
      BY <1>0, <1>10 DEF EndCut
    <3>2. position = 0
      BY <1>0, <1>2, <3>1
    <3> QED BY <3>2, <1>10 DEF EndCut
  <2> QED BY <1>4, <2>1
<1>11. CASE EndTask
  BY <1>11 DEF EndTask
<1> QED BY <1>1, <1>6, <1>7, <1>8, <1>9, <1>10, <1>11

\* A confirmed chunk makes its claims true, and a cursor moves to them.
LEMMA SentKept ==
  ASSUME Placed, Sent, EngineNext
  PROVE  Sent'
<1> USE EngineBounds
<1>0. EngineShape /\ CutterPlaced /\ ChunkPlaced /\ CutterSent /\ ChunkSent
  BY DEF Placed, Sent
<1>1. server \subseteq server'
  BY ServerGrows
<1>2. Covers(saved, covered) /\ Covers(cursor, covering)
  BY DEF Sent
<1>3. ASSUME NEW c, NEW d, NEW cover, Covers(c, cover), d.count = c.count, d.offset = c.offset, d.hash = c.hash
      PROVE  /\ \A i \in 1 .. d.count : Units(cover[i]) \subseteq server'
             /\ \A p \in 1 .. d.offset : <<d.hash, p>> \in server'
  BY <1>1, <1>3 DEF Covers
<1>4. ASSUME UNCHANGED <<saved, covered, cursor, covering>>
      PROVE  Covers(saved, covered)' /\ Covers(cursor, covering)'
  BY <1>1, <1>2, <1>4 DEF Covers, Units
<1>5. ASSUME stage' \notin {"cut", "upload", "save"}
      PROVE  CutterSent' /\ ChunkSent'
  BY <1>5 DEF CutterSent, ChunkSent, Cutting
<1>6. ASSUME stage' = stage, UNCHANGED <<messages, from, covering, index, position, buffer, completed, chunk>>
      PROVE  CutterSent' /\ ChunkSent'
  BY <1>0, <1>1, <1>6 DEF CutterSent, ChunkSent, Cutting, Held, Claimed, Units
<1>7. CASE List
  <2>1. cursor' = saved /\ covering' = covered /\ saved' = saved /\ covered' = covered /\ stage' \in {"idle", "read"}
    BY <1>7 DEF List
  <2> QED BY <1>1, <1>2, <1>5, <2>1 DEF Covers, Units, Sent
<1>8. CASE Read
  BY <1>4, <1>5, <1>8 DEF Read, Sent
<1>9. CASE Compare
  <2>1. /\ cursor'.count = cursor.count /\ cursor'.offset = cursor.offset /\ cursor'.hash = cursor.hash
        /\ covering' = covering /\ saved' = saved /\ covered' = covered
    BY <1>0, <1>9, CursorCertified DEF Compare
  <2>2. Covers(saved, covered)' /\ Covers(cursor, covering)'
    BY <1>1, <1>2, <2>1 DEF Covers, Units
  <2>3. CASE NothingNew(Len(messages) - from')
    BY <1>5, <1>9, <2>2, <2>3 DEF Compare, Sent
  <2>4. CASE ~NothingNew(Len(messages) - from')
    <3>1. /\ from' = IF cursor.count > Len(messages) THEN 0 ELSE cursor.count
          /\ stage' = "cut" /\ position' = 0 /\ completed' = from' /\ server' = server
      BY <1>9, <2>4 DEF Compare
    <3>2. PICK n \in Nat : from' = n /\ completed' = n /\ n <= cursor.count /\ cursor.count \in Nat
      BY <1>0, <3>1, CursorNumbers
    <3>3. \A i \in 1 .. n : Units(covering[i]) \subseteq server
      BY <1>2, <3>2 DEF Covers
    <3>4. CutterSent'
      BY <2>1, <3>1, <3>2, <3>3 DEF CutterSent, Units
    <3>5. ChunkSent'
      BY <3>1 DEF ChunkSent
    <3> QED BY <2>2, <3>4, <3>5 DEF Sent
  <2> QED BY <2>3, <2>4
<1>10. CASE CutterNext
  <2>1. CutterSent' /\ ChunkSent'
    BY <1>10, CutterSentKept
  <2> QED BY <1>4, <1>10, <2>1, CutterSteps DEF Sent
<1>11. CASE Upload
  <2>1. /\ stage = "upload" /\ stage' = "save"
        /\ UNCHANGED <<messages, from, index, position, buffer, completed, saved, covered>>
    BY <1>11 DEF Upload, Confirm, reads, cutter
  <2>2. server' = server \cup chunk.text.units
    BY <1>11 DEF Upload, Extract, Blank
  <2>3. cursor'.count = chunk.count /\ cursor'.offset = chunk.offset /\ cursor'.hash = chunk.hash
    BY <1>11, CursorConfirmed DEF Upload, Confirm
  <2>4. covering' = [i \in 1 .. Len(messages) |-> IF i <= from THEN covering[i] ELSE messages[i]]
    BY <1>0, <1>11 DEF Upload, Confirm, EngineShape
  <2>5. chunk.count \in Nat /\ chunk.count <= Len(messages) /\ from \in Nat /\ from < Len(messages) /\ Len(messages) \in Nat
    BY <1>0, <2>1, CursorNumbers DEF ChunkPlaced, CutterPlaced, Cutting
  <2>6. \A i \in 1 .. Len(messages) : covering'[i] = IF i <= from THEN covering[i] ELSE messages[i]
    BY <2>4
  <2>7. /\ \A i \in 1 .. from : Units(covering[i]) \subseteq server
        /\ \A i \in from + 1 .. chunk.count : Units(messages[i]) \subseteq server'
        /\ \A p \in 1 .. chunk.offset : <<chunk.hash, p>> \in server'
    BY <1>0, <2>1, <2>2 DEF CutterSent, ChunkSent, Cutting, Claimed
  <2>8. \A i \in 1 .. from : Units(covering'[i]) \subseteq server'
    BY <1>1, <2>5, <2>6, <2>7
  <2>9. \A i \in 1 .. chunk.count : Units(covering'[i]) \subseteq server'
    <3> SUFFICES ASSUME NEW i \in 1 .. chunk.count PROVE Units(covering'[i]) \subseteq server'
      OBVIOUS
    <3>1. CASE i <= from
      BY <2>5, <2>8, <3>1
    <3>2. CASE ~(i <= from)
      BY <2>5, <2>6, <2>7, <3>2
    <3> QED BY <3>1, <3>2
  <2>10. Covers(cursor, covering)'
    BY <2>3, <2>7, <2>9 DEF Covers, Units
  <2>11. Covers(saved, covered)'
    BY <1>1, <1>2, <2>1 DEF Covers, Units
  <2>12. CutterSent'
    <3>1. Held \subseteq Held'
      BY <2>1, <2>2 DEF Held, Claimed
    <3>2. /\ \A i \in from + 1 .. completed : Units(messages[i]) \subseteq Held
          /\ \A p \in Nat : 0 < p /\ p < position => <<messages[index], p>> \in Held
      BY <1>0, <2>1 DEF CutterSent, Cutting
    <3> QED BY <2>1, <2>8, <3>1, <3>2 DEF CutterSent, Units
  <2> QED BY <2>1, <2>10, <2>11, <2>12 DEF Sent, ChunkSent
<1>12. CASE Save
  <2>1. /\ saved' = cursor /\ covered' = covering /\ cursor' = cursor /\ covering' = covering
        /\ server' = server /\ stage = "save" /\ stage' \in {"finish", "cut"}
        /\ UNCHANGED <<messages, from, index, position, buffer, completed, chunk>>
    BY <1>12 DEF Save, reads, cutter
  <2>2. Covers(saved, covered)' /\ Covers(cursor, covering)'
    BY <1>2, <2>1 DEF Covers, Units
  <2>3. CutterSent' /\ ChunkSent'
    BY <1>0, <2>1 DEF CutterSent, ChunkSent, Cutting, Held, Claimed, Units
  <2> QED BY <2>2, <2>3 DEF Sent
<1>13. CASE Finish
  <2>1. /\ saved' = cursor /\ covered' = covering /\ cursor' = cursor /\ covering' = covering
        /\ stage' = "idle"
    BY <1>13 DEF Finish
  <2> QED BY <1>1, <1>2, <1>5, <2>1 DEF Covers, Units, Sent
<1>14. CASE UploadFails \/ EngineCrash
  BY <1>4, <1>5, <1>14 DEF UploadFails, EngineCrash, Sent
<1>15. CASE Cancel
  <2>1. /\ stage' = "finish" \/ stage' = stage
        /\ UNCHANGED <<saved, covered, cursor, covering>>
        /\ UNCHANGED <<messages, from, covering, index, position, buffer, completed, chunk>>
    BY <1>15 DEF Cancel, reads, cutter
  <2> QED BY <1>4, <1>5, <1>6, <2>1 DEF Sent
<1>16. ASSUME NEW new, Rewrite(new) PROVE Sent'
  <2>1. /\ UNCHANGED <<stage, saved, covered, cursor, covering>>
        /\ UNCHANGED <<messages, from, covering, index, position, buffer, completed, chunk>>
    BY <1>16 DEF Rewrite, reads, cutter
  <2> QED BY <1>4, <1>6, <2>1 DEF Sent
<1>17. CASE \/ \E m \in Message : AppendMessage(m)
            \/ \E i \in DOMAIN file, m \in Message : ChangeMessage(i, m)
            \/ \E n \in 0 .. Len(file) - 1 : RestoreCheckpoint(n)
  BY <1>16, <1>17 DEF AppendMessage, ChangeMessage, RestoreCheckpoint
<1> QED
  BY <1>7, <1>8, <1>9, <1>10, <1>11, <1>12, <1>13, <1>14, <1>15, <1>17 DEF EngineNext, RunStep
Reading == stage \in {"certify", "cut", "upload", "save"}

\* The first n messages of the file are those of seq.
Agrees(n, seq) == n <= Len(file) /\ \A i \in 1 .. n : seq[i] = file[i]

\* What a cursor says of the file, as long as the file only grows.
Follows(c, cover) ==
    /\ Agrees(c.count, cover)
    /\ c.offset > 0 => c.count < Len(file) /\ c.hash = file[c.count + 1] /\ c.offset <= Length[c.hash]
    /\ c.certified = version /\ c.offset = 0 => c.count = Len(file)

\* What is read, and what the cursors were written for, are beginnings of the
\* file unless it was rewritten; what was listed is read unless it changed.
Grown ==
    /\ Reading /\ version = listed => messages = file
    /\ ~rewritten =>
          /\ Follows(saved, covered) /\ Follows(cursor, covering)
          /\ Reading => Agrees(Len(messages), messages) /\ cursor.count <= Len(messages)
          /\ Cutting => Agrees(from, covering)

LEMMA GrownStarts == EngineInit => Grown
<1> SUFFICES ASSUME EngineInit PROVE Grown
  OBVIOUS
<1>1. Len(file) \in Nat
  BY EngineStarts, CursorNumbers DEF Placed
<1>2. Follows(saved, covered) /\ Follows(cursor, covering)
  BY <1>1 DEF EngineInit, NoCursor, Follows, Agrees
<1> QED BY <1>2 DEF EngineInit, Grown, Reading, Cutting

\* A confirmed chunk ends with what the file has there; a certificate is given
\* for a file that has not changed since.
LEMMA GrownUpload ==
  ASSUME Placed, Grown, Upload, ~rewritten
  PROVE  /\ Follows(cursor, covering)'
         /\ cursor'.count <= Len(messages)
         /\ Agrees(from, covering)'
<1>0. /\ EngineShape /\ chunk.count \in Nat /\ chunk.offset \in Nat /\ Len(messages) \in Nat /\ Len(file) \in Nat
      /\ from \in Nat /\ version \in Nat /\ version > 0
  BY CursorNumbers, EngineBounds DEF Placed, EngineShape
<1>1. /\ stage = "upload"
      /\ UNCHANGED <<file, version, messages, from>>
  BY DEF Upload, Confirm, reads, disk
<1>2. /\ chunk.count <= Len(messages) /\ from < Len(messages)
      /\ chunk.offset > 0 => /\ chunk.count < Len(messages)
                             /\ chunk.hash = messages[chunk.count + 1]
                             /\ chunk.offset <= Length[chunk.hash]
  BY <1>0, <1>1 DEF Placed, ChunkPlaced, CutterPlaced, Cutting
<1>3. /\ Len(messages) <= Len(file) /\ \A i \in 1 .. Len(messages) : messages[i] = file[i]
      /\ \A i \in 1 .. from : covering[i] = file[i]
      /\ version = listed => messages = file
  BY <1>1 DEF Grown, Reading, Cutting, Agrees
<1>4. \A i \in 1 .. Len(messages) : covering'[i] = file[i]
  <2>1. covering' = [i \in 1 .. Len(messages) |-> IF i <= from THEN covering[i] ELSE messages[i]]
    BY <1>0 DEF Upload, Confirm, EngineShape
  <2> SUFFICES ASSUME NEW i \in 1 .. Len(messages) PROVE covering'[i] = file[i]
    OBVIOUS
  <2>2. covering'[i] = IF i <= from THEN covering[i] ELSE messages[i]
    BY <2>1
  <2>3. i <= from => i \in 1 .. from
    BY <1>0
  <2> QED BY <1>3, <2>2, <2>3
<1>5. /\ cursor'.count = chunk.count /\ cursor'.offset = chunk.offset /\ cursor'.hash = chunk.hash
      /\ cursor'.certified = 0 \/ (cursor'.certified = listed /\ chunk.count = Len(messages))
  BY CursorConfirmed DEF Upload, Confirm
<1>6. cursor'.offset > 0 => cursor'.count < Len(file) /\ cursor'.hash = file[cursor'.count + 1] /\ cursor'.offset <= Length[cursor'.hash]
  BY <1>0, <1>2, <1>3, <1>5
<1>7. cursor'.certified = version => cursor'.count = Len(file)
  BY <1>0, <1>3, <1>5
<1>8. Agrees(from, covering)'
  BY <1>0, <1>1, <1>2, <1>3, <1>4 DEF Agrees
<1>9. Agrees(cursor.count, covering)'
  BY <1>0, <1>1, <1>2, <1>3, <1>4, <1>5 DEF Agrees
<1> QED BY <1>1, <1>2, <1>5, <1>6, <1>7, <1>8, <1>9 DEF Follows

\* A message at the end keeps the beginnings and ends the certificates.
LEMMA GrownAppend ==
  ASSUME Placed, Grown, NEW m \in Message, AppendMessage(m)
  PROVE  Grown'
<1>0. /\ EngineShape /\ file \in Seq(Message) /\ Len(file) \in Nat
      /\ version \in Nat /\ saved.certified <= version /\ cursor.certified <= version /\ listed <= version
      /\ saved.certified \in Nat /\ cursor.certified \in Nat /\ listed \in Nat
      /\ saved.count \in Nat /\ cursor.count \in Nat /\ from \in Nat /\ Len(messages) \in Nat
  BY CursorNumbers DEF Placed, EngineShape
<1>1. /\ file' = Append(file, m) /\ version' = version + 1
      /\ UNCHANGED <<saved, cursor, covered, covering, stage, messages, from, listed, rewritten>>
  BY DEF AppendMessage, Rewrite, reads
<1>2. /\ Len(file') = Len(file) + 1
      /\ \A i \in 1 .. Len(file) : file'[i] = file[i]
  BY <1>0, <1>1
<1>3. ASSUME NEW n \in Nat, NEW seq, Agrees(n, seq)
      PROVE  n <= Len(file') /\ \A i \in 1 .. n : seq[i] = file'[i]
  BY <1>0, <1>2, <1>3 DEF Agrees
<1>4. ASSUME NEW c, NEW cover, c.count \in Nat, c.certified \in Nat, c.certified <= version, Follows(c, cover)
      PROVE  /\ c.count <= Len(file') /\ \A i \in 1 .. c.count : cover[i] = file'[i]
             /\ c.offset > 0 => c.count < Len(file') /\ c.hash = file'[c.count + 1] /\ c.offset <= Length[c.hash]
             /\ c.certified = version' /\ c.offset = 0 => c.count = Len(file')
  <2>1. Agrees(c.count, cover)
    BY <1>4 DEF Follows
  <2>2. c.certified # version'
    BY <1>0, <1>1, <1>4
  <2>3. c.count < Len(file) => file'[c.count + 1] = file[c.count + 1]
    BY <1>0, <1>2, <1>4
  <2> QED BY <1>0, <1>2, <1>3, <1>4, <2>1, <2>2, <2>3 DEF Follows
<1>5. ~rewritten => Follows(saved, covered)' /\ Follows(cursor, covering)'
  <2> SUFFICES ASSUME ~rewritten PROVE Follows(saved, covered)' /\ Follows(cursor, covering)'
    OBVIOUS
  <2>1. Follows(saved, covered) /\ Follows(cursor, covering)
    BY DEF Grown
  <2>2. /\ saved.count <= Len(file') /\ \A i \in 1 .. saved.count : covered[i] = file'[i]
        /\ saved.offset > 0 => saved.count < Len(file') /\ saved.hash = file'[saved.count + 1] /\ saved.offset <= Length[saved.hash]
        /\ saved.certified = version' /\ saved.offset = 0 => saved.count = Len(file')
    BY <1>0, <1>4, <2>1
  <2>3. /\ cursor.count <= Len(file') /\ \A i \in 1 .. cursor.count : covering[i] = file'[i]
        /\ cursor.offset > 0 => cursor.count < Len(file') /\ cursor.hash = file'[cursor.count + 1] /\ cursor.offset <= Length[cursor.hash]
        /\ cursor.certified = version' /\ cursor.offset = 0 => cursor.count = Len(file')
    BY <1>0, <1>4, <2>1
  <2> QED BY <1>1, <2>2, <2>3 DEF Follows, Agrees
<1>6. ~rewritten /\ Reading => Agrees(Len(messages), messages)' /\ cursor'.count <= Len(messages')
  BY <1>0, <1>1, <1>3 DEF Grown, Agrees
<1>7. ~rewritten /\ Cutting => Agrees(from, covering)'
  BY <1>0, <1>1, <1>3 DEF Grown, Agrees
<1>8. version' # listed'
  BY <1>0, <1>1
<1> QED BY <1>1, <1>5, <1>6, <1>7, <1>8 DEF Grown, Reading, Cutting

\* The cursors and the messages read stay beginnings of a file that grows.
LEMMA GrownKept ==
  ASSUME Placed, Grown, EngineNext
  PROVE  Grown'
<1>0. EngineShape /\ CutterPlaced
  BY DEF Placed
<1>1. ASSUME NEW m \in Message, AppendMessage(m) PROVE Grown'
  BY <1>1, GrownAppend
<1>2. ASSUME NEW new, Rewrite(new), rewritten' = TRUE PROVE Grown'
  <2>1. version' # listed'
    <3>1. version \in Nat /\ listed <= version /\ listed \in Nat
      BY <1>0, CursorNumbers DEF EngineShape
    <3>2. version' = version + 1 /\ listed' = listed
      BY <1>2 DEF Rewrite, reads
    <3> QED BY <3>1, <3>2
  <2> QED BY <1>2, <2>1 DEF Grown
<1>3. ASSUME UNCHANGED <<file, version, saved, cursor, covered, covering, rewritten>>,
             UNCHANGED <<listed, messages, from>>,
             stage' \notin {"certify", "cut", "upload", "save"} \/ stage' = stage
             \/ (stage = "cut" /\ stage' = "upload")
      PROVE  Grown'
  <2>1. Reading' => Reading
    BY <1>3 DEF Reading
  <2>2. Cutting' => Cutting
    BY <1>3 DEF Cutting
  <2> QED BY <1>3, <2>1, <2>2 DEF Grown, Follows, Agrees
<1>4. CASE List
  <2>1. /\ UNCHANGED <<file, version, saved, covered, rewritten>>
        /\ cursor' = saved /\ covering' = covered /\ stage' \in {"idle", "read"}
    BY <1>4 DEF List, disk
  <2> QED BY <2>1 DEF Grown, Follows, Agrees, Reading, Cutting
<1>5. CASE Read
  <2>1. /\ UNCHANGED <<file, version, saved, cursor, covered, covering, rewritten>>
        /\ messages' = file /\ stage' = "certify"
    BY <1>5 DEF Read, disk
  <2>2. Len(file) \in Nat /\ Len(file') = Len(file)
    BY <1>0, <2>1, CursorNumbers
  <2>3. Agrees(Len(messages), messages)'
    BY <2>1, <2>2 DEF Agrees
  <2> QED BY <2>1, <2>2, <2>3 DEF Grown, Follows, Agrees, Reading, Cutting
<1>6. CASE Compare
  <2>1. /\ UNCHANGED <<file, version, saved, covered, covering, rewritten, listed, messages>>
        /\ stage = "certify" /\ stage' \in {"finish", "cut"}
        /\ from' = IF cursor.count > Len(messages) THEN 0 ELSE cursor.count
    BY <1>6 DEF Compare, disk
  <2>2. /\ cursor'.count = cursor.count /\ cursor'.offset = cursor.offset /\ cursor'.hash = cursor.hash
        /\ \/ cursor' = cursor
           \/ cursor'.certified = listed /\ Len(messages) - from' = 0
    BY <1>0, <1>6, <2>1, CursorCertified
  <2>3. version = listed => messages = file
    BY <2>1 DEF Grown, Reading
  <2>4. Reading' => stage' = "cut"
    BY <2>1 DEF Reading
  <2>5. Reading' /\ version' = listed' => messages' = file'
    BY <2>1, <2>3
  <2>6. CASE rewritten
    BY <2>1, <2>5, <2>6 DEF Grown
  <2>7. CASE ~rewritten
    <3>1. /\ Follows(saved, covered) /\ Follows(cursor, covering)
          /\ Agrees(Len(messages), messages) /\ cursor.count <= Len(messages)
      BY <2>1, <2>7 DEF Grown, Reading
    <3>2. /\ cursor.count \in Nat /\ Len(messages) \in Nat
      BY <1>0, CursorNumbers
    <3>3. from' = cursor.count
      BY <2>1, <3>1, <3>2
    <3>4. cursor'.certified = version /\ cursor'.offset = 0 => cursor'.count = Len(file)
      <4>1. CASE cursor' = cursor
        BY <3>1, <4>1 DEF Follows
      <4>2. CASE cursor'.certified = listed /\ Len(messages) - from' = 0
        BY <2>2, <2>3, <3>2, <3>3, <4>2
      <4> QED BY <2>2, <4>1, <4>2
    <3>5. Follows(cursor, covering)'
      BY <2>1, <2>2, <3>1, <3>4 DEF Follows, Agrees
    <3>6. Follows(saved, covered)'
      BY <2>1, <3>1 DEF Follows, Agrees
    <3>7. Agrees(from, covering)'
      BY <2>1, <3>1, <3>3 DEF Follows, Agrees
    <3>8. Agrees(Len(messages), messages)' /\ cursor'.count <= Len(messages')
      BY <2>1, <2>2, <3>1 DEF Agrees
    <3> QED BY <2>5, <3>5, <3>6, <3>7, <3>8 DEF Grown
  <2> QED BY <2>6, <2>7
<1>7. CASE CutterNext
  <2>1. stage = "cut" /\ stage' \in {"cut", "upload", "finish"}
    BY <1>7, CutterSteps DEF BeginMessage, Flush, Take, EndMessage, EndCut, EndTask, Yield, Continue
  <2>2. /\ UNCHANGED <<file, version, saved, cursor, covered, covering, rewritten>>
        /\ UNCHANGED <<listed, messages, from>>
    BY <1>7, CutterSteps DEF disk, reads
  <2> QED BY <1>3, <2>1, <2>2
<1>8. CASE Upload
  <2>1. /\ UNCHANGED <<file, version, saved, covered, rewritten, listed, messages, from>>
        /\ stage = "upload" /\ stage' = "save"
    BY <1>8 DEF Upload, Confirm, disk, reads
  <2>2. version' = listed' => messages' = file'
    BY <2>1 DEF Grown, Reading
  <2>3. CASE rewritten
    BY <2>1, <2>2, <2>3 DEF Grown
  <2>4. CASE ~rewritten
    <3>1. Follows(cursor, covering)' /\ cursor'.count <= Len(messages) /\ Agrees(from, covering)'
      BY <1>8, <2>4, GrownUpload
    <3>2. Follows(saved, covered)' /\ Agrees(Len(messages), messages)'
      BY <2>1, <2>4 DEF Grown, Follows, Agrees, Reading
    <3> QED BY <2>1, <2>2, <3>1, <3>2 DEF Grown
  <2> QED BY <2>3, <2>4
<1>9. CASE Save \/ Finish
  <2>1. /\ UNCHANGED <<file, version, cursor, covering, rewritten, listed, messages, from>>
        /\ saved' = cursor /\ covered' = covering
        /\ stage' \in {"idle", "finish"} \/ (stage = "save" /\ stage' = "cut")
    BY <1>9 DEF Save, Finish, disk, reads
  <2>2. (Reading' => Reading) /\ (Cutting' => Cutting)
    BY <2>1 DEF Reading, Cutting
  <2> QED BY <2>1, <2>2 DEF Grown, Follows, Agrees
<1>10. CASE UploadFails \/ EngineCrash \/ Cancel
  <2>1. /\ UNCHANGED <<file, version, saved, cursor, covered, covering, rewritten>>
        /\ UNCHANGED <<listed, messages, from>>
        /\ stage' \in {"finish", "idle"} \/ stage' = stage
    BY <1>10 DEF UploadFails, EngineCrash, Cancel, disk, reads
  <2> QED BY <1>3, <2>1
<1>11. CASE \/ \E i \in DOMAIN file, m \in Message : ChangeMessage(i, m)
            \/ \E n \in 0 .. Len(file) - 1 : RestoreCheckpoint(n)
  BY <1>2, <1>11 DEF ChangeMessage, RestoreCheckpoint
<1> QED
  BY <1>1, <1>4, <1>5, <1>6, <1>7, <1>8, <1>9, <1>10, <1>11 DEF EngineNext, RunStep
\* Unit p of message i is in what a cursor or a chunk covers.
Inside(c, i, p) == i <= c.count \/ (i = c.count + 1 /\ p <= c.offset)

\* The cutter goes on behind what c covers.
Behind(c) ==
    /\ position > 0 => c.count < index /\ (c.count = completed => c.offset <= Taken)
    /\ position = 0 /\ index = completed + 1 =>
          /\ c.count <= completed
          /\ c.count = completed /\ c.offset > 0 => completed = from /\ c.hash = messages[index]

ServerInside ==
    \A u \in server : \E i \in 1 .. Len(file), p \in Nat : u = <<file[i], p>> /\ Inside(cursor, i, p)

BufferFresh ==
    index = completed + 1 =>
    \A u \in buffer.units : \E i \in 1 .. Len(messages), p \in Nat :
       /\ u = <<messages[i], p>> /\ ~Inside(cursor, i, p)
       /\ i <= completed \/ (i = index /\ position > 0 /\ Taken = Length[messages[i]])

\* A chunk is what comes next behind the cursor.
ChunkFresh ==
    /\ position = 0 => index = completed + 2
    /\ Behind(chunk)
    /\ cursor.count < chunk.count \/ (cursor.count = chunk.count /\ cursor.offset <= chunk.offset)
    /\ \A u \in chunk.text.units : \E i \in 1 .. Len(messages), p \in Nat :
          u = <<messages[i], p>> /\ ~Inside(cursor, i, p) /\ Inside(chunk, i, p)

\* What a run keeps while nothing goes wrong: all that was extracted lies behind
\* the cursor, all that is still to be cut or sent before it.
InOrder ==
    /\ repeated = FALSE
    /\ stage = "idle" => saved = cursor
    /\ ServerInside
    /\ stage = "cut" => BufferFresh /\ Behind(cursor)
    /\ stage = "save" => Behind(cursor)
    /\ stage = "upload" => ChunkFresh

\* No fault, no rewrite, and no message twice.
Calm == faults = 0 /\ rewritten = FALSE /\ Distinct

LEMMA CalmStarts == EngineInit => InOrder
BY DEF EngineInit, InOrder, ServerInside

\* Nothing the cutter takes is in what the cursor covers.
LEMMA CalmCut ==
  ASSUME Placed, Grown, InOrder, rewritten = FALSE, CutterNext
  PROVE  /\ stage' = "cut" => (BufferFresh /\ Behind(cursor))'
         /\ stage' = "upload" => ChunkFresh'
<1> USE EngineBounds
<1>0. /\ messages \in Seq(Message) /\ from \in Nat /\ Len(messages) \in Nat /\ Len(file) \in Nat
      /\ index \in Nat /\ position \in Nat /\ completed \in Nat
      /\ buffer.size \in Nat /\ cursor \in Cursors /\ Nothing.units = {} /\ Nothing.size = 0
      /\ cursor.offset \in Nat /\ cursor.count \in Nat
  BY CursorNumbers DEF Placed, EngineShape, Text, Nothing
<1>1. /\ stage = "cut"
      /\ BeginMessage \/ Flush \/ Take \/ EndMessage \/ EndCut \/ EndTask
      /\ messages' = messages /\ from' = from /\ cursor' = cursor
  BY CutterSteps DEF reads
<1>2. /\ from < Len(messages) /\ completed <= Len(messages) /\ from <= completed
      /\ \/ index = completed + 1
         \/ index = completed + 2 /\ completed = Len(messages) /\ position = 0
      /\ position > 0 => index <= Len(messages)
      /\ index = from + 1 /\ position = 0 => buffer = Nothing
      /\ position > 1 /\ Taken < Length[messages[index]] => buffer = Nothing
  BY <1>1 DEF Placed, CutterPlaced, Cutting
<1>3. BufferFresh /\ Behind(cursor)
  BY <1>1 DEF InOrder
<1>4. /\ cursor.offset > 0 => cursor.offset <= Length[cursor.hash]
      /\ cursor.count <= Len(messages)
  BY <1>1 DEF Grown, Follows, Reading
<1> DEFINE Old == \A u \in buffer.units : \E i \in 1 .. Len(messages), p \in Nat :
                     u = <<messages[i], p>> /\ ~Inside(cursor, i, p) /\ i <= completed
           Onward == cursor.count < completed \/ (cursor.count = completed /\ cursor.offset = 0)
\* A chunk that ends with a message.
<1>5. ASSUME Yield(buffer, completed, 0, NoMessage), completed' = completed, Old, Onward,
             \/ index' = completed + 1 /\ \E n \in Nat : position' = 1 + n
             \/ index' = completed + 2 /\ position' = 0
      PROVE  stage' = "upload" /\ ChunkFresh'
  <2>1. /\ stage' = "upload" /\ chunk'.text = buffer /\ chunk'.count = completed /\ chunk'.offset = 0
    BY <1>5 DEF Yield
  <2>2. \A i \in Nat, p \in Nat : i <= completed => Inside(chunk, i, p)'
    BY <2>1 DEF Inside
  <2>3. \A u \in chunk'.text.units : \E i \in 1 .. Len(messages), p \in Nat :
           u = <<messages[i], p>> /\ ~Inside(cursor, i, p) /\ Inside(chunk, i, p)'
    <3>1. \A i \in 1 .. Len(messages) : i \in Nat
      BY <1>0
    <3>2. Old /\ chunk'.text.units = buffer.units
      BY <1>5, <2>1
    <3> QED BY <2>2, <3>1, <3>2
  <2>4. \A i, p : Inside(cursor, i, p)' <=> Inside(cursor, i, p)
    BY <1>1 DEF Inside
  <2>5. Behind(chunk)'
    <3>1. CASE index' = completed + 1 /\ \E n \in Nat : position' = 1 + n
      <4>1. PICK n \in Nat : position' = 1 + n
        BY <3>1
      <4>2. Taken' = (1 + n) - 1
        BY <4>1 DEF Taken
      <4>3. chunk'.count < index' /\ chunk'.offset <= Taken' /\ ~(position' = 0)
        BY <1>0, <2>1, <3>1, <4>1, <4>2
      <4> QED BY <4>3 DEF Behind
    <3>2. CASE index' = completed + 2 /\ position' = 0
      BY <1>0, <1>5, <2>1, <3>2 DEF Behind
    <3> QED BY <1>5, <3>1, <3>2
  <2>6. cursor'.count < chunk'.count \/ (cursor'.count = chunk'.count /\ cursor'.offset <= chunk'.offset)
    BY <1>0, <1>1, <1>5, <2>1
  <2>7. position' = 0 => index' = completed' + 2
    BY <1>5
  <2> QED BY <1>1, <2>1, <2>3, <2>4, <2>5, <2>6, <2>7 DEF ChunkFresh
<1>6. ASSUME index = completed + 1, position = 0 \/ Taken < Length[messages[index]], position \in Nat
      PROVE  Old
  BY <1>0, <1>3, <1>6 DEF BufferFresh
<1>7. CASE BeginMessage
  <2> DEFINE m == messages[index]
  <2>1. m \in Message /\ position = 0 /\ index' = index /\ completed' = completed
        /\ index = completed + 1
        /\ position' = 1 + Resumed(m)
    BY <1>0, <1>7 DEF BeginMessage
  <2>2. PICK n \in Nat : n = Resumed(m) /\ position' = 1 + n
    BY <1>0, <2>1, ResumedInside
  <2>3. Old
    BY <1>0, <1>6, <2>1
  <2>4. cursor.count <= completed /\ (cursor.count = completed /\ cursor.offset > 0 => completed = from /\ cursor.hash = m)
    BY <1>3, <2>1 DEF Behind
  <2>5. cursor.count = completed => cursor.offset <= n
    <3>1. CASE cursor.offset > 0 /\ cursor.count = completed
      <4>1. index = from + 1 /\ cursor.count = from /\ cursor.hash = m
        BY <2>1, <2>4, <3>1
      <4>2. n = Least(cursor.offset, Length[m])
        BY <2>2, <4>1 DEF Resumed
      <4> QED BY <1>0, <1>4, <2>1, <3>1, <4>1, <4>2 DEF Least
    <3>2. CASE ~(cursor.offset > 0)
      BY <1>0, <3>2
    <3> QED BY <3>1, <3>2
  <2>6. \/ Yield(buffer, completed, 0, NoMessage) /\ buffer # Nothing
        \/ stage' = "cut" /\ buffer'.units = buffer.units
    <3>1. buffer \in Text
      BY DEF Placed, EngineShape
    <3>2. [buffer EXCEPT !.size = @ + Separator].units = buffer.units
      BY <3>1 DEF Text
    <3> QED BY <1>1, <3>2, <1>7 DEF BeginMessage, Continue
  <2> HIDE DEF m
  <2>7. CASE Yield(buffer, completed, 0, NoMessage) /\ buffer # Nothing
    <3>1. completed # from
      BY <1>2, <2>1, <2>7
    <3>2. Onward
      BY <1>0, <2>4, <3>1
    <3>3. index' = completed + 1 /\ \E x \in Nat : position' = 1 + x
      BY <1>0, <2>1, <2>2
    <3> HIDE DEF Old, Onward
    <3>4. stage' = "upload" /\ ChunkFresh'
      BY <1>5, <2>1, <2>3, <2>7, <3>2, <3>3
    <3> QED BY <3>4
  <2>8. CASE stage' = "cut" /\ buffer'.units = buffer.units
    <3>1. Behind(cursor)'
      BY <1>0, <1>1, <2>1, <2>2, <2>4, <2>5 DEF Behind, Taken
    <3>2. \A i, p : Inside(cursor, i, p)' <=> Inside(cursor, i, p)
      BY <1>1 DEF Inside
    <3>3. BufferFresh'
      BY <1>1, <2>1, <2>3, <2>8, <3>2 DEF BufferFresh
    <3> QED BY <2>8, <3>1, <3>3
  <2> QED BY <2>6, <2>7, <2>8
<1>8. CASE Flush
  <2>1. /\ Yield(buffer, completed, 0, NoMessage) /\ UNCHANGED <<index, position, completed>>
        /\ index <= Len(messages) /\ position > 0 /\ Taken < Length[messages[index]]
        /\ buffer.size >= Limit - Separator
    BY <1>8 DEF Flush, InMessage
  <2>2. index = completed + 1
    BY <1>0, <1>2, <2>1
  <2>3. buffer # Nothing
    BY <1>0, <2>1 DEF Separator
  <2>4. position = 1
    BY <1>0, <1>2, <2>1, <2>3
  <2>5. Old
    BY <1>0, <1>6, <2>1, <2>2
  <2>6. Onward
    BY <1>0, <1>3, <2>2, <2>4 DEF Behind, Taken
  <2>7. index' = completed + 1 /\ \E n \in Nat : position' = 1 + n
    <3>1. position' = 1 + 0 /\ 0 \in Nat
      BY <2>1, <2>4
    <3> QED BY <2>1, <2>2, <3>1
  <2> HIDE DEF Old, Onward
  <2> QED BY <1>5, <2>1, <2>5, <2>6, <2>7
<1>9. CASE Take
  <2> DEFINE m == messages[index]
             new == {<<m, p>> : p \in (Taken + 1) .. Cut(m)}
             taken == [size |-> buffer.size + (Cut(m) - Taken), units |-> buffer.units \cup new]
  <2>1. /\ index <= Len(messages) /\ position > 0
        /\ Taken < Length[m] /\ buffer.size < Limit - Separator
        /\ position' = 1 + Cut(m)
        /\ index' = index /\ completed' = completed
        /\ \/ Cut(m) < Length[m] /\ Yield(taken, index - 1, Cut(m), m)
           \/ ~(Cut(m) < Length[m]) /\ buffer' = taken /\ Continue
    BY <1>9 DEF Take, InMessage
  <2>2. m \in Message /\ index - 1 = completed /\ index = completed + 1
    BY <1>0, <1>2, <2>1
  <2>3. Cut(m) \in Nat /\ Taken < Cut(m) /\ Taken \in Nat /\ Cut(m) <= Length[m] /\ Length[m] \in Nat
    <3>1. Taken \in Nat
      BY <1>0, <2>1 DEF Taken
    <3> QED BY <1>0, <2>1, <2>2, <3>1, CutInside
  <2>4. taken.units = buffer.units \cup new
    OBVIOUS
  <2>5. Old
    BY <1>0, <1>6, <2>1, <2>2
  <2>6. cursor.count <= completed /\ (cursor.count = completed => cursor.offset <= Taken)
    BY <1>0, <1>3, <2>1, <2>2 DEF Behind
  <2>7. PICK n \in Nat : n = Cut(m) /\ position' = 1 + n /\ Taken < n
    BY <2>1, <2>3
  <2>8. \A u \in new : \E p \in Nat : u = <<m, p>> /\ ~Inside(cursor, index, p) /\ p <= n
    <3> SUFFICES ASSUME NEW u \in new PROVE \E p \in Nat : u = <<m, p>> /\ ~Inside(cursor, index, p) /\ p <= n
      OBVIOUS
    <3>1. PICK p \in (Taken + 1) .. Cut(m) : u = <<m, p>>
      OBVIOUS
    <3>2. p \in Nat /\ Taken < p /\ p <= n
      BY <2>3, <2>7
    <3>3. ~Inside(cursor, index, p)
      BY <1>0, <2>2, <2>3, <2>6, <3>2 DEF Inside
    <3> QED BY <3>1, <3>2, <3>3
  <2>9. index \in 1 .. Len(messages)
    BY <1>0, <2>1, <2>2
  <2>10. \A i, p : Inside(cursor, i, p)' <=> Inside(cursor, i, p)
    BY <1>1 DEF Inside
  <2>11. \A u \in buffer.units \cup new : \E i \in 1 .. Len(messages), p \in Nat :
            u = <<messages[i], p>> /\ ~Inside(cursor, i, p) /\ (i <= completed \/ (i = index /\ p <= n))
    <3> SUFFICES ASSUME NEW u \in buffer.units \cup new
                 PROVE  \E i \in 1 .. Len(messages), p \in Nat :
                           u = <<messages[i], p>> /\ ~Inside(cursor, i, p) /\ (i <= completed \/ (i = index /\ p <= n))
      OBVIOUS
    <3> HIDE DEF new, taken
    <3>1. CASE u \in buffer.units
      BY <2>5, <3>1
    <3>2. CASE u \in new
      BY <2>8, <2>9, <3>2
    <3> QED BY <3>1, <3>2
  <2> HIDE DEF taken, new, Old
  <2>12. CASE Cut(m) < Length[m] /\ Yield(taken, index - 1, Cut(m), m)
    <3>1. /\ stage' = "upload" /\ chunk'.text = taken /\ chunk'.count = completed /\ chunk'.offset = n
      BY <2>2, <2>7, <2>12 DEF Yield
    <3>2. \A i, p \in Nat : (i <= completed \/ (i = index /\ p <= n)) => Inside(chunk, i, p)'
      BY <1>0, <2>2, <3>1 DEF Inside
    <3>3. \A u \in chunk'.text.units : \E i \in 1 .. Len(messages), p \in Nat :
             u = <<messages[i], p>> /\ ~Inside(cursor, i, p) /\ Inside(chunk, i, p)'
      <4>1. \A i \in 1 .. Len(messages) : i \in Nat
        BY <1>0
      <4> QED BY <2>4, <2>11, <3>1, <3>2, <4>1
    <3>4. Behind(chunk)'
      BY <1>0, <2>1, <2>2, <2>7, <3>1 DEF Behind, Taken
    <3>5. cursor'.count < chunk'.count \/ (cursor'.count = chunk'.count /\ cursor'.offset <= chunk'.offset)
      BY <1>0, <1>1, <2>3, <2>6, <2>7, <3>1
    <3>6. ~(position' = 0)
      BY <2>7
    <3> QED BY <1>1, <2>10, <3>1, <3>3, <3>4, <3>5, <3>6 DEF ChunkFresh
  <2>13. CASE ~(Cut(m) < Length[m]) /\ buffer' = taken /\ Continue
    <3>1. stage' = "cut" /\ buffer'.units = buffer.units \cup new
      BY <1>1, <2>4, <2>13 DEF Continue
    <3>2. n = Length[m] /\ Taken' = n /\ position' > 0
      <4>1. n = Length[m]
        BY <2>3, <2>7, <2>13
      <4>2. Taken' = (1 + n) - 1
        BY <2>7 DEF Taken
      <4> QED BY <2>7, <4>1, <4>2
    <3>3. Behind(cursor)'
      <4>1. cursor.count < index /\ (cursor.count = completed => cursor.offset <= n)
        BY <1>0, <2>2, <2>3, <2>6, <2>7
      <4> QED BY <1>1, <2>1, <2>7, <3>2, <4>1 DEF Behind
    <3>4. BufferFresh'
      BY <1>1, <2>1, <2>10, <2>11, <3>1, <3>2 DEF BufferFresh
    <3> QED BY <3>1, <3>3, <3>4
  <2> QED BY <2>1, <2>12, <2>13
<1>10. CASE EndMessage
  <2>1. /\ completed' = index /\ index' = index + 1 /\ position' = 0 /\ buffer' = buffer
        /\ stage' = "cut" /\ index <= Len(messages) /\ position > 0
    BY <1>1, <1>10 DEF EndMessage, InMessage
  <2>2. index = completed + 1
    BY <1>0, <1>2, <2>1
  <2>3. cursor.count < index
    BY <1>3, <2>1 DEF Behind
  <2>4. Behind(cursor)'
    BY <1>0, <1>1, <2>1, <2>3 DEF Behind
  <2>5. \A i, p : Inside(cursor, i, p)' <=> Inside(cursor, i, p)
    BY <1>1 DEF Inside
  <2>6. \A u \in buffer.units : \E i \in 1 .. Len(messages), p \in Nat :
           u = <<messages[i], p>> /\ ~Inside(cursor, i, p) /\ i <= index
    BY <1>0, <1>3, <2>2 DEF BufferFresh
  <2>7. BufferFresh'
    BY <1>1, <2>1, <2>5, <2>6 DEF BufferFresh
  <2> QED BY <2>1, <2>4, <2>7
<1>11. CASE EndCut
  <2>1. /\ Yield(buffer, completed, 0, NoMessage) /\ UNCHANGED <<position, completed>>
        /\ index = Len(messages) + 1 /\ index' = index + 1
    BY <1>11 DEF EndCut
  <2>2. index = completed + 1 /\ position = 0
    BY <1>0, <1>2, <2>1
  <2>3. Old
    BY <1>0, <1>6, <2>2
  <2>4. Onward
    BY <1>0, <1>2, <1>3, <2>1, <2>2 DEF Behind
  <2>5. index' = completed + 2 /\ position' = 0
    BY <1>0, <2>1, <2>2
  <2> HIDE DEF Old, Onward
  <2> QED BY <1>5, <2>1, <2>3, <2>4, <2>5
<1>12. CASE EndTask
  BY <1>12 DEF EndTask
<1> QED BY <1>1, <1>7, <1>8, <1>9, <1>10, <1>11, <1>12
\* The server gets a chunk that it has not seen, and the cursor follows it.
LEMMA CalmUpload ==
  ASSUME Placed, Grown, InOrder, Calm, Upload
  PROVE  InOrder'
<1>0. /\ Len(messages) \in Nat /\ Len(file) \in Nat /\ cursor.count \in Nat /\ cursor.offset \in Nat
      /\ chunk.count \in Nat /\ chunk.offset \in Nat /\ index \in Nat /\ position \in Nat /\ completed \in Nat
  BY CursorNumbers, EngineBounds DEF Placed, EngineShape
<1>1. /\ stage = "upload" /\ stage' = "save"
      /\ UNCHANGED <<file, messages, from, index, position, completed>>
  BY DEF Upload, Confirm, reads, disk, cutter
<1>2. /\ cursor'.count = chunk.count /\ cursor'.offset = chunk.offset /\ cursor'.hash = chunk.hash
  BY CursorConfirmed DEF Upload, Confirm
<1>3. ServerInside /\ ChunkFresh /\ repeated = FALSE
  BY <1>1 DEF InOrder
<1>4. Len(messages) <= Len(file) /\ \A i \in 1 .. Len(messages) : messages[i] = file[i]
  BY <1>1 DEF Grown, Calm, Reading, Agrees
<1>5. \A i, p \in Nat : Inside(chunk, i, p) <=> Inside(cursor, i, p)'
  BY <1>2 DEF Inside
<1>6. \A i, p \in Nat : Inside(cursor, i, p) => Inside(chunk, i, p)
  BY <1>0, <1>3 DEF ChunkFresh, Inside
<1>7. \A i \in 1 .. Len(file) : i \in Nat
  BY <1>0
<1>8. server \cap chunk.text.units = {}
  <2> SUFFICES ASSUME NEW u \in server, u \in chunk.text.units PROVE FALSE
    OBVIOUS
  <2>1. PICK i \in 1 .. Len(file), p \in Nat : u = <<file[i], p>> /\ Inside(cursor, i, p)
    BY <1>3 DEF ServerInside
  <2>2. PICK j \in 1 .. Len(messages), q \in Nat : u = <<messages[j], q>> /\ ~Inside(cursor, j, q)
    BY <1>3 DEF ChunkFresh
  <2>3. j \in 1 .. Len(file) /\ file[i] = file[j] /\ p = q
    BY <1>0, <1>4, <2>1, <2>2
  <2>4. i = j
    <3>1. DOMAIN file = 1 .. Len(file)
      BY DEF Placed, EngineShape
    <3> QED BY <2>3, <3>1 DEF Calm, Distinct
  <2> QED BY <2>1, <2>2, <2>3, <2>4
<1>9. repeated' = FALSE /\ server' = server \cup chunk.text.units
  BY <1>3, <1>8 DEF Upload, Extract, Blank
<1>10. ServerInside'
  <2> SUFFICES ASSUME NEW u \in server'
               PROVE  \E i \in 1 .. Len(file), p \in Nat : u = <<file[i], p>> /\ Inside(chunk, i, p)
    BY <1>1, <1>5, <1>7 DEF ServerInside
  <2>1. CASE u \in server
    BY <1>3, <1>6, <1>7, <2>1 DEF ServerInside
  <2>2. CASE u \in chunk.text.units
    <3>1. PICK j \in 1 .. Len(messages), q \in Nat : u = <<messages[j], q>> /\ Inside(chunk, j, q)
      BY <1>3, <2>2 DEF ChunkFresh
    <3>2. j \in 1 .. Len(file) /\ messages[j] = file[j]
      BY <1>0, <1>4, <3>1
    <3> QED BY <3>1, <3>2
  <2> QED BY <1>9, <2>1, <2>2
<1>11. Behind(cursor)'
  BY <1>1, <1>2, <1>3 DEF ChunkFresh, Behind, Taken
<1> QED BY <1>1, <1>9, <1>10, <1>11 DEF InOrder

\* The cutter begins behind what the cursor covers.
LEMMA CalmCompare ==
  ASSUME Placed, Grown, InOrder, Calm, Compare
  PROVE  InOrder'
<1>0. EngineShape /\ Len(messages) \in Nat /\ Len(file) \in Nat /\ cursor.count \in Nat /\ cursor.offset \in Nat
  BY CursorNumbers DEF Placed
<1>1. /\ stage = "certify" /\ stage' \in {"finish", "cut"}
      /\ UNCHANGED <<file, messages, server, repeated>>
      /\ from' = IF cursor.count > Len(messages) THEN 0 ELSE cursor.count
  BY DEF Compare, disk
<1>2. /\ cursor'.count = cursor.count /\ cursor'.offset = cursor.offset /\ cursor'.hash = cursor.hash
  BY <1>0, <1>1, CursorCertified
<1>3. ServerInside'
  BY <1>1, <1>2 DEF InOrder, ServerInside, Inside
<1>4. ASSUME stage' = "cut" PROVE (BufferFresh /\ Behind(cursor))'
  <2>1. index' = from' + 1 /\ position' = 0 /\ buffer' = Nothing /\ completed' = from' /\ ~NothingNew(Len(messages) - from')
    BY <1>4 DEF Compare
  <2>2. /\ Follows(cursor, covering) /\ Agrees(Len(messages), messages) /\ cursor.count <= Len(messages)
    BY <1>1 DEF Grown, Calm, Reading
  <2>3. from' = cursor.count
    BY <1>0, <1>1, <2>2
  <2>4. cursor.count < Len(messages)
    BY <1>0, <2>1, <2>2, <2>3 DEF NothingNew
  <2>5. cursor.offset > 0 => cursor.hash = messages[cursor.count + 1]
    BY <1>0, <2>2, <2>4 DEF Follows, Agrees
  <2>6. BufferFresh'
    BY <2>1 DEF BufferFresh, Nothing
  <2>7. index' = cursor.count + 1 /\ completed' = cursor.count
    BY <2>1, <2>3
  <2>8. Behind(cursor)'
    BY <1>0, <1>1, <1>2, <2>1, <2>3, <2>5, <2>7 DEF Behind
  <2> QED BY <2>6, <2>8
<1> QED BY <1>1, <1>3, <1>4 DEF InOrder

\* Order is kept as long as no step is a fault or a rewrite.
LEMMA CalmKept ==
  ASSUME Placed, Grown, Calm => InOrder, EngineNext, Calm'
  PROVE  InOrder'
<1>0. /\ faults \in Nat /\ file \in Seq(Message) /\ Len(file) \in Nat
  BY EngineBounds, CursorNumbers DEF Placed, EngineShape
<1>1. faults' = 0 /\ rewritten' = FALSE /\ Distinct'
  BY DEF Calm
<1>2. ~Fault
  BY <1>0, <1>1 DEF Fault
<1>3. ASSUME UNCHANGED <<file, faults, rewritten>> PROVE Calm /\ InOrder
  BY <1>1, <1>3 DEF Calm, Distinct
<1>4. CASE List
  <2>1. /\ UNCHANGED <<file, faults, rewritten, saved, server, repeated>>
        /\ stage = "idle" /\ stage' \in {"idle", "read"} /\ cursor' = saved
    BY <1>4 DEF List, disk
  <2>2. InOrder
    BY <1>3, <2>1
  <2> QED BY <2>1, <2>2 DEF InOrder, ServerInside, Inside
<1>5. CASE Read
  <2>1. /\ UNCHANGED <<file, faults, rewritten, cursor, server, repeated>> /\ stage' = "certify"
    BY <1>5 DEF Read, disk
  <2>2. InOrder
    BY <1>3, <2>1
  <2> QED BY <2>1, <2>2 DEF InOrder, ServerInside, Inside
<1>6. CASE Compare
  <2>1. UNCHANGED <<file, faults, rewritten>>
    BY <1>6 DEF Compare, disk
  <2> QED BY <1>3, <1>6, <2>1, CalmCompare
<1>7. CASE CutterNext
  <2>1. /\ UNCHANGED <<file, faults, rewritten, cursor, server, repeated>>
        /\ stage' \in {"cut", "upload", "finish"}
    BY <1>7, CutterSteps DEF disk, BeginMessage, Flush, Take, EndMessage, EndCut, EndTask, Yield, Continue
  <2>2. Calm /\ InOrder
    BY <1>3, <2>1
  <2>3. /\ stage' = "cut" => (BufferFresh /\ Behind(cursor))'
        /\ stage' = "upload" => ChunkFresh'
    BY <1>7, <2>2, CalmCut DEF Calm
  <2>4. ServerInside'
    BY <2>1, <2>2 DEF InOrder, ServerInside, Inside
  <2> QED BY <2>1, <2>2, <2>3, <2>4 DEF InOrder
<1>8. CASE Upload
  <2>1. UNCHANGED <<file, faults, rewritten>>
    BY <1>8 DEF Upload, disk
  <2> QED BY <1>3, <1>8, <2>1, CalmUpload
<1>9. CASE Save
  <2>1. /\ UNCHANGED <<file, faults, rewritten, cursor, server, repeated>>
        /\ UNCHANGED <<messages, from, index, position, buffer, completed>>
        /\ stage = "save" /\ stage' \in {"cut", "finish"} /\ saved' = cursor
    BY <1>9 DEF Save, disk, reads, cutter
  <2>2. InOrder
    BY <1>3, <2>1
  <2>3. ServerInside'
    BY <2>1, <2>2 DEF InOrder, ServerInside, Inside
  <2>4. Behind(cursor)'
    BY <2>1, <2>2 DEF InOrder, Behind, Taken
  <2>5. BufferFresh'
    <3>1. buffer = Nothing \/ index = Len(messages) + 2
      BY <2>1 DEF Placed, Yielded
    <3>2. index = completed + 1 => buffer = Nothing
      <4>1. completed <= Len(messages) /\ completed \in Nat /\ Len(messages) \in Nat
        BY <2>1, CursorNumbers DEF Placed, CutterPlaced, Cutting, EngineShape
      <4> QED BY <3>1, <4>1
    <3> QED BY <2>1, <3>2 DEF BufferFresh, Nothing
  <2> QED BY <2>1, <2>2, <2>3, <2>4, <2>5 DEF InOrder
<1>10. CASE Finish
  <2>1. /\ UNCHANGED <<file, faults, rewritten, cursor, server, repeated>>
        /\ stage' = "idle" /\ saved' = cursor
    BY <1>10 DEF Finish, disk
  <2>2. InOrder
    BY <1>3, <2>1
  <2> QED BY <2>1, <2>2 DEF InOrder, ServerInside, Inside
<1>11. CASE UploadFails \/ Cancel \/ EngineCrash
  BY <1>2, <1>11 DEF UploadFails, Cancel, EngineCrash
<1>12. ASSUME NEW m \in Message, AppendMessage(m) PROVE InOrder'
  <2>1. /\ file' = Append(file, m)
        /\ UNCHANGED <<saved, cursor, stage, messages, from, index, position, buffer, completed, chunk,
                       faults, server, repeated, rewritten>>
    BY <1>12 DEF AppendMessage, Rewrite, reads, cutter
  <2>2. /\ Len(file') = Len(file) + 1 /\ DOMAIN file = 1 .. Len(file) /\ DOMAIN file' = 1 .. Len(file) + 1
        /\ \A i \in 1 .. Len(file) : file'[i] = file[i]
    BY <1>0, <2>1
  <2>3. \A i \in 1 .. Len(file) : i \in 1 .. Len(file) + 1 /\ i \in 1 .. Len(file')
    BY <1>0, <2>2
  <2>4. Distinct
    BY <1>1, <2>2, <2>3 DEF Distinct
  <2>5. InOrder
    BY <1>1, <2>1, <2>4 DEF Calm
  <2>6. ServerInside'
    BY <2>1, <2>2, <2>3, <2>5 DEF InOrder, ServerInside, Inside
  <2>7. /\ stage' = "cut" => (BufferFresh /\ Behind(cursor))'
        /\ stage' = "save" => Behind(cursor)'
        /\ stage' = "upload" => ChunkFresh'
    BY <2>1, <2>5 DEF InOrder, BufferFresh, ChunkFresh, Behind, Inside, Taken
  <2> QED BY <2>1, <2>5, <2>6, <2>7 DEF InOrder
<1>13. ASSUME rewritten' = TRUE PROVE FALSE
  BY <1>1, <1>13
<1> QED
  BY <1>4, <1>5, <1>6, <1>7, <1>8, <1>9, <1>10, <1>11, <1>12, <1>13
  DEF EngineNext, RunStep, ChangeMessage, RestoreCheckpoint

\* The Boolean variables stay Boolean.
LEMMA FlagsKept ==
  ASSUME FlagsShape, EngineNext
  PROVE  FlagsShape'
<1>1. stable' \in BOOLEAN
  <2>1. stable' = stable \/ stable' = (version = listed)
    <3>1. CASE CutterNext
      BY <3>1, CutterSteps DEF reads
    <3>2. CASE Compare
      BY <3>2 DEF Compare
    <3> QED
      BY <3>1, <3>2 DEF EngineNext, RunStep, List, Read, Upload, Save, Finish, UploadFails, Cancel,
              EngineCrash, AppendMessage, ChangeMessage, RestoreCheckpoint, Rewrite, reads
  <2>2. (version = listed) \in BOOLEAN
    OBVIOUS
  <2> QED BY <2>1, <2>2, Zenon DEF FlagsShape
<1>2. cancelled' \in BOOLEAN
  <2>1. cancelled' \in {cancelled, TRUE, FALSE}
    <3>1. CASE CutterNext
      BY <3>1, CutterSteps
    <3> QED
      BY <3>1 DEF EngineNext, RunStep, List, Read, Compare, Upload, Save, Finish, UploadFails, Cancel,
              EngineCrash, AppendMessage, ChangeMessage, RestoreCheckpoint, Rewrite
  <2> QED BY <2>1, Zenon DEF FlagsShape
<1>3. repeated' \in BOOLEAN
  <2>1. repeated' = repeated \/ repeated' = (repeated \/ server \cap chunk.text.units # {})
    <3>1. CASE CutterNext
      BY <3>1, CutterSteps
    <3> QED
      BY <3>1 DEF EngineNext, RunStep, List, Read, Compare, Upload, Extract, Save, Finish, UploadFails, Cancel,
              EngineCrash, AppendMessage, ChangeMessage, RestoreCheckpoint, Rewrite
  <2>2. (repeated \/ server \cap chunk.text.units # {}) \in BOOLEAN
    BY Zenon
  <2> QED BY <2>1, <2>2, Zenon DEF FlagsShape
<1>4. rewritten' \in BOOLEAN
  <2>1. rewritten' \in {rewritten, TRUE}
    <3>1. CASE CutterNext
      BY <3>1, CutterSteps DEF disk
    <3> QED
      BY <3>1 DEF EngineNext, RunStep, List, Read, Compare, Upload, Save, Finish, UploadFails, Cancel,
              EngineCrash, AppendMessage, ChangeMessage, RestoreCheckpoint, Rewrite, disk
  <2> QED BY <2>1, Zenon DEF FlagsShape
<1> QED BY <1>1, <1>2, <1>3, <1>4 DEF FlagsShape

EngineInv == FlagsShape /\ Placed /\ Sent /\ Grown /\ (Calm => InOrder)

LEMMA EngineStutters ==
  ASSUME EngineInv, UNCHANGED engineVars
  PROVE  EngineInv'
<1> USE DEF engineVars, disk, reads, cutter
<1>1. Placed'
  BY DEF EngineInv, Placed, EngineShape, CutterPlaced, ChunkPlaced, Yielded, Cutting, Taken
<1>2. Sent'
  BY DEF EngineInv, Sent, Covers, CutterSent, ChunkSent, Held, Claimed, Units, Cutting
<1>3. Grown'
  BY DEF EngineInv, Grown, Follows, Agrees, Reading, Cutting
<1>4. Calm' => InOrder'
  <2>1. Calm' => Calm
    BY DEF Calm, Distinct
  <2>2. InOrder => InOrder'
    BY DEF InOrder, ServerInside, BufferFresh, ChunkFresh, Behind, Inside, Taken
  <2> QED BY <2>1, <2>2 DEF EngineInv
<1>5. FlagsShape'
  BY DEF EngineInv, FlagsShape
<1> QED BY <1>1, <1>2, <1>3, <1>4, <1>5 DEF EngineInv

\* The inductive invariant: types and places, what was sent, what the cursors
\* say of a file that grows, and the order of a run without faults.
THEOREM EngineInvariance == EngineSpec => []EngineInv
<1>1. EngineInit => EngineInv
  <2> SUFFICES ASSUME EngineInit PROVE EngineInv
    OBVIOUS
  <2>1. Sent
    BY DEF EngineInit, Sent, Covers, CutterSent, ChunkSent, Cutting, NoCursor
  <2>2. FlagsShape
    BY DEF EngineInit, FlagsShape
  <2> QED BY <2>1, <2>2, EngineStarts, GrownStarts, CalmStarts DEF EngineInv
<1>2. EngineInv /\ [EngineNext]_engineVars => EngineInv'
  <2> SUFFICES ASSUME EngineInv, EngineNext \/ UNCHANGED engineVars PROVE EngineInv'
    OBVIOUS
  <2>1. CASE EngineNext
    BY <2>1, FlagsKept, PlacesKept, SentKept, GrownKept, CalmKept DEF EngineInv
  <2>2. CASE UNCHANGED engineVars
    BY <2>2, EngineStutters
  <2> QED BY <2>1, <2>2
<1> QED BY <1>1, <1>2, PTL DEF EngineSpec

\* Every variable of the engine keeps its type, and the cutter stays inside the
\* messages that the run has read.
THEOREM EngineTypes == EngineSpec => []EngineTypeOK
<1>1. EngineInv => EngineTypeOK
  <2> SUFFICES ASSUME EngineInv PROVE EngineTypeOK
    OBVIOUS
  <2>1. EngineShape /\ CutterPlaced
    BY DEF EngineInv, Placed
  <2>2. {stable, cancelled, repeated, rewritten} \subseteq BOOLEAN
    BY DEF EngineInv, FlagsShape
  <2>3. buffer.size \in Nat /\ chunk.text.size \in Nat
    BY <2>1 DEF EngineShape, Text
  <2>4. stage = "cut" => completed <= Len(messages)
    BY <2>1 DEF CutterPlaced, Cutting
  <2>5. listed \in 0 .. MaxEdits + 1
    BY <2>1, EngineBounds DEF EngineShape
  <2> QED BY <2>1, <2>2, <2>3, <2>4, <2>5 DEF EngineShape, EngineTypeOK
<1> QED BY <1>1, EngineInvariance, PTL

\* The cursor never runs ahead of the server, whatever answers, cancels,
\* crashes and rewrites come between (confirm after upload, sync.ts).
THEOREM CursorFollowsServer == EngineSpec => []CursorNeverAhead
<1>1. EngineInv => CursorNeverAhead
  BY DEF EngineInv, Sent, Covers, CursorNeverAhead
<1> QED BY <1>1, EngineInvariance, PTL

\* A history that is skipped unread is on the server, unless Cline rewrote it.
THEOREM SkippedIsOnServer == EngineSpec => []SkippedIsExtracted
<1>1. EngineInv => SkippedIsExtracted
  <2> SUFFICES ASSUME EngineInv, Unchanged(saved), ~rewritten
               PROVE  \A i \in DOMAIN file : Units(file[i]) \subseteq server
    BY DEF SkippedIsExtracted
  <2>1. Follows(saved, covered) /\ DOMAIN file = 1 .. Len(file)
    BY DEF EngineInv, Grown, Placed, EngineShape
  <2>2. saved.count = Len(file) /\ \A i \in 1 .. Len(file) : covered[i] = file[i]
    BY <2>1 DEF Follows, Agrees, Unchanged
  <2>3. \A i \in 1 .. saved.count : Units(covered[i]) \subseteq server
    BY DEF EngineInv, Sent, Covers
  <2> QED BY <2>1, <2>2, <2>3
<1> QED BY <1>1, EngineInvariance, PTL

\* Without a fault and a rewrite nothing is extracted twice.
THEOREM ExtractedOnce == EngineSpec => []NoSecondExtraction
<1>1. EngineInv => NoSecondExtraction
  <2> SUFFICES ASSUME EngineInv, repeated, ~(faults > 0), ~rewritten, Distinct PROVE FALSE
    BY DEF NoSecondExtraction
  <2>1. faults = 0
    BY EngineBounds DEF EngineInv, Placed, EngineShape
  <2>2. rewritten = FALSE /\ repeated = TRUE
    <3>1. rewritten \in BOOLEAN /\ repeated \in BOOLEAN
      BY DEF EngineInv, FlagsShape
    <3> QED BY <3>1
  <2> QED BY <2>1, <2>2 DEF EngineInv, Calm, InOrder
<1> QED BY <1>1, EngineInvariance, PTL

-----------------------------------------------------------------------------
(* Surrogate pairs.                                                        *)

\* The first halves of the pairs of a message, by the number of their unit.
Firsts(m) == High[m] \ {0}

\* Units that hold both halves of a pair or none.
Paired(units) ==
    \A m \in Message : \A p \in Firsts(m) : <<m, p>> \in units <=> <<m, p + 1>> \in units

\* A place in a message that parts no pair.
Between(c) == c.hash \in Message => c.offset \notin Firsts(c.hash)

PairsKept ==
    /\ Paired(buffer.units) /\ Paired(chunk.text.units)
    /\ Between(saved) /\ Between(cursor) /\ Between(chunk)
    /\ Cutting /\ position > 0 => Taken \notin Firsts(messages[index])

\* A message neither ends nor is cut inside a pair.
LEMMA CutBetween ==
  ASSUME NEW m \in Message, position \in Nat, position > 0, buffer.size \in Nat,
         Taken < Length[m], buffer.size < Limit - Separator
  PROVE  Cut(m) \notin Firsts(m) /\ Length[m] \notin Firsts(m)
<1>1. Length[m] \in Nat /\ Limit \in Nat /\ High[m] \in SUBSET Nat
      /\ \A p \in High[m] : p + 1 <= Length[m] /\ p + 1 \notin High[m]
  BY EngineAssumption
<1>2. Length[m] \notin High[m]
  BY <1>1
<1> DEFINE end == Least(Length[m], Taken + Limit - buffer.size)
<1>3. end \in Nat /\ end > 0 /\ end <= Length[m]
  BY <1>1 DEF Least, Taken, Separator
<1>4. Cut(m) = IF end < Length[m] /\ end \in High[m] THEN end - 1 ELSE end
  BY DEF Cut
<1> HIDE DEF end
<1>5. CASE end < Length[m] /\ end \in High[m]
  <2>1. Cut(m) = end - 1 /\ (end - 1) + 1 = end
    BY <1>3, <1>4, <1>5
  <2>2. end - 1 \notin High[m]
    BY <1>1, <1>5, <2>1
  <2> QED BY <1>2, <2>1, <2>2 DEF Firsts
<1>6. CASE ~(end < Length[m] /\ end \in High[m])
  <2>1. Cut(m) = end
    BY <1>4, <1>6
  <2>2. end = Length[m] \/ end \notin High[m]
    BY <1>1, <1>3, <1>6
  <2> QED BY <1>2, <2>1, <2>2 DEF Firsts
<1> QED BY <1>5, <1>6

LEMMA LengthBetween ==
  ASSUME NEW m \in Message
  PROVE  Length[m] \notin Firsts(m)
BY EngineAssumption DEF Firsts

\* What is taken between two such places holds whole pairs.
LEMMA TakenPaired ==
  ASSUME NEW U, Paired(U), NEW m \in Message, NEW a \in Nat, NEW b \in Nat,
         a \notin Firsts(m), b \notin Firsts(m)
  PROVE  Paired(U \cup {<<m, p>> : p \in (a + 1) .. b})
<1> DEFINE V == {<<m, p>> : p \in (a + 1) .. b}
<1> SUFFICES ASSUME NEW x \in Message, NEW q \in Firsts(x)
             PROVE  <<x, q>> \in U \cup V <=> <<x, q + 1>> \in U \cup V
  BY DEF Paired
<1>1. <<x, q>> \in U <=> <<x, q + 1>> \in U
  BY DEF Paired
<1>2. q \in Nat /\ q > 0
  BY EngineAssumption DEF Firsts
<1>3. CASE x = m
  <2>1. q # a /\ q # b
    BY <1>3
  <2>2. q \in (a + 1) .. b <=> q + 1 \in (a + 1) .. b
    BY <1>2, <2>1
  <2>3. (<<x, q>> \in V <=> q \in (a + 1) .. b) /\ (<<x, q + 1>> \in V <=> q + 1 \in (a + 1) .. b)
    BY <1>3
  <2> QED BY <1>1, <2>2, <2>3
<1>4. CASE x # m
  <2>1. <<x, q>> \notin V /\ <<x, q + 1>> \notin V
    BY <1>4
  <2> QED BY <1>1, <2>1
<1> QED BY <1>3, <1>4

LEMMA PairsStart == EngineInit => PairsKept
  BY EngineAssumption
  DEF EngineInit, PairsKept, Paired, Between, Cutting, NoCursor, NoChunk, Nothing

\* The cutter begins a message at its start or where a cursor stands, and ends
\* a chunk where a message ends or is cut.
LEMMA PairsCut ==
  ASSUME Placed, PairsKept, CutterNext
  PROVE  PairsKept'
<1>0. /\ UNCHANGED <<saved, cursor, messages, from>> /\ stage = "cut"
      /\ Cutting /\ EngineShape /\ CutterPlaced
  BY CutterSteps DEF reads, Placed, Cutting
<1>1. Between(saved)' /\ Between(cursor)'
  BY <1>0 DEF PairsKept, Between
<1>2. Paired(Nothing.units) /\ buffer \in Text /\ position \in Nat /\ index \in Nat
      /\ messages \in Seq(Message) /\ cursor \in Cursors
  BY <1>0 DEF Paired, Nothing, EngineShape
\* What a yield of the buffer makes of a chunk.
<1>3. ASSUME NEW text, NEW count, Yield(text, count, 0, NoMessage), Paired(text.units)
      PROVE  Paired(chunk'.text.units) /\ Between(chunk')
  <2>1. chunk' = [text |-> text, count |-> count, offset |-> 0, hash |-> NoMessage]
    BY <1>3 DEF Yield
  <2>2. chunk'.text = text /\ chunk'.hash = NoMessage
    BY <2>1
  <2>3. NoMessage \notin Message
    BY EngineAssumption
  <2> QED BY <1>3, <2>2, <2>3 DEF Between
<1>4. CASE BeginMessage
  <2> DEFINE m == messages[index]
  <2>1. m \in Message
    <3>1. index > 0
      BY <1>0, <1>2, <1>4 DEF BeginMessage, CutterPlaced, EngineShape
    <3> QED BY <1>2, <1>4, <3>1 DEF BeginMessage
  <2>2. position' = 1 + Resumed(m) /\ index' = index
    BY <1>4 DEF BeginMessage
  <2>3. Resumed(m) \in Nat /\ Resumed(m) \notin Firsts(m)
    <3>1. Resumed(m) \in Nat BY <1>2, <2>1, ResumedInside
    <3>2. Resumed(m) \in {0, cursor.offset, Length[m]} /\ (Resumed(m) = cursor.offset /\ Resumed(m) # 0 /\ Resumed(m) # Length[m] => cursor.hash = m)
      BY DEF Resumed, Least
    <3>3. 0 \notin Firsts(m) BY DEF Firsts
    <3>4. cursor.hash = m => cursor.offset \notin Firsts(m)
      BY <2>1 DEF PairsKept, Between
    <3> QED BY <2>1, <3>1, <3>2, <3>3, <3>4, LengthBetween
  <2>4. Taken' = Resumed(m) /\ messages'[index'] = m
    BY <1>0, <2>2, <2>3 DEF Taken
  <2>5. /\ buffer'.units \in {buffer.units, Nothing.units}
        /\ chunk' = chunk \/ Yield(buffer, completed, 0, NoMessage)
    BY <1>2, <1>4 DEF BeginMessage, Continue, Text
  <2> HIDE DEF m
  <2>6. Paired(buffer'.units)
    BY <1>2, <2>5 DEF PairsKept
  <2>7. Paired(chunk'.text.units) /\ Between(chunk')
    BY <1>3, <2>5 DEF PairsKept
  <2> QED BY <1>1, <2>3, <2>4, <2>6, <2>7 DEF PairsKept, Paired, Between
<1>5. CASE Flush
  <2>1. UNCHANGED <<index, position>> /\ buffer' = Nothing /\ Yield(buffer, completed, 0, NoMessage)
    BY <1>5 DEF Flush
  <2>2. Paired(chunk'.text.units) /\ Between(chunk')
    BY <1>3, <2>1 DEF PairsKept
  <2> QED BY <1>0, <1>1, <1>2, <2>1, <2>2 DEF PairsKept, Paired, Between, Taken
<1>6. CASE Take
  <2> DEFINE m == messages[index]
             taken == [size  |-> buffer.size + (Cut(m) - Taken),
                       units |-> buffer.units \cup {<<m, p>> : p \in (Taken + 1) .. Cut(m)}]
  <2>1. m \in Message /\ position > 0 /\ Taken \in Nat
    <3>1. index > 0
      BY <1>0, <1>2 DEF CutterPlaced, EngineShape
    <3> QED BY <1>2, <1>6, <3>1 DEF Take, InMessage, Taken
  <2>2. /\ Taken < Length[m] /\ buffer.size < Limit - Separator /\ index' = index
        /\ position' = 1 + Cut(m)
        /\ \/ Yield(taken, index - 1, Cut(m), m) /\ buffer' = Nothing
           \/ buffer' = taken /\ chunk' = chunk
    BY <1>6 DEF Take, Continue
  <2>3. buffer.size \in Nat
    BY <1>2 DEF Text
  <2>4. Cut(m) \in Nat /\ Cut(m) \notin Firsts(m)
    BY <1>2, <2>1, <2>2, <2>3, CutInside, CutBetween
  <2>5. Paired(taken.units)
    <3>1. Taken \notin Firsts(m) /\ Paired(buffer.units)
      BY <1>0, <2>1 DEF PairsKept
    <3> QED BY <2>1, <2>4, <3>1, TakenPaired
  <2>6. Taken' = Cut(m) /\ messages'[index'] = m
    BY <1>0, <2>2, <2>4 DEF Taken
  <2> HIDE DEF m, taken
  <2>7. Paired(buffer'.units)
    BY <1>2, <2>2, <2>5
  <2>8. Paired(chunk'.text.units) /\ Between(chunk')
    <3>1. CASE Yield(taken, index - 1, Cut(m), m)
      BY <2>4, <2>5, <3>1 DEF Yield, Between
    <3>2. CASE chunk' = chunk
      BY <3>2 DEF PairsKept
    <3> QED BY <2>2, <3>1, <3>2
  <2> QED BY <1>1, <2>4, <2>6, <2>7, <2>8 DEF PairsKept, Paired, Between
<1>7. CASE EndMessage \/ EndCut \/ EndTask
  <2>1. /\ UNCHANGED buffer
        /\ chunk' = chunk \/ Yield(buffer, completed, 0, NoMessage)
    BY <1>7 DEF EndMessage, EndCut, EndTask, cutter
  <2>2. ~(position' > 0 /\ Cutting')
    BY <1>0, <1>7 DEF EndMessage, EndCut, EndTask, CutterPlaced, Cutting, cutter, Yield
  <2>3. Paired(chunk'.text.units) /\ Between(chunk')
    BY <1>3, <2>1 DEF PairsKept
  <2> QED BY <1>1, <2>1, <2>2, <2>3 DEF PairsKept, Paired, Between
<1> QED BY <1>4, <1>5, <1>6, <1>7, CutterSteps

LEMMA PairsKeep ==
  ASSUME Placed, PairsKept, EngineNext
  PROVE  PairsKept'
<1>1. CASE CutterNext
  BY <1>1, PairsCut
<1>2. CASE Compare
  <2>1. UNCHANGED <<saved, chunk>> /\ stage = "certify" /\ EngineShape
    BY <1>2 DEF Compare, Placed
  <2>2. cursor'.offset = cursor.offset /\ cursor'.hash = cursor.hash
    BY <1>2, <2>1, CursorCertified
  <2>3. \/ stage' = "finish" /\ UNCHANGED <<position, buffer>>
        \/ position' = 0 /\ buffer' = Nothing
    BY <1>2 DEF Compare, cutter
  <2> QED BY <2>1, <2>2, <2>3 DEF PairsKept, Paired, Between, Cutting, Nothing
<1>3. CASE Upload
  <2>1. UNCHANGED <<saved, messages, index, position, buffer, chunk>> /\ cursor' = Confirmed /\ Cutting
    BY <1>3 DEF Upload, Confirm, reads, cutter, Cutting
  <2> QED BY <2>1, CursorConfirmed DEF PairsKept, Paired, Between, Taken
<1>4. CASE List \/ Read \/ Save \/ Finish
  <2>1. /\ UNCHANGED <<index, position, buffer, chunk>>
        /\ saved' \in {saved, cursor} /\ cursor' \in {saved, cursor}
        /\ Cutting' => Cutting /\ UNCHANGED messages
    BY <1>4 DEF List, Read, Save, Finish, reads, cutter, Cutting
  <2> QED BY <2>1 DEF PairsKept, Paired, Between, Taken
<1>5. ASSUME \/ UploadFails \/ Cancel \/ EngineCrash
             \/ \E m \in Message : AppendMessage(m)
             \/ \E i \in DOMAIN file, m \in Message : ChangeMessage(i, m)
             \/ \E n \in 0 .. Len(file) - 1 : RestoreCheckpoint(n)
      PROVE  PairsKept'
  <2>1. UNCHANGED <<saved, cursor, messages, index, position, buffer, chunk>> /\ (Cutting' => Cutting)
    BY <1>5 DEF UploadFails, Cancel, EngineCrash, AppendMessage, ChangeMessage, RestoreCheckpoint, Rewrite,
                reads, cutter, Cutting
  <2> QED BY <2>1 DEF PairsKept, Paired, Between, Taken
<1> QED BY <1>1, <1>2, <1>3, <1>4, <1>5 DEF EngineNext, RunStep

\* No chunk that is uploaded parts a surrogate pair, wherever messages end, are
\* cut, are resumed or change in between (chunks.ts:8, :29).
PairsStayTogether == stage = "upload" => Paired(chunk.text.units)

THEOREM PairsAreWhole == EngineSpec => []PairsStayTogether
<1>1. EngineInit => PairsKept
  BY PairsStart
<1>2. EngineInv /\ PairsKept /\ [EngineNext]_engineVars => PairsKept'
  <2> SUFFICES ASSUME EngineInv, PairsKept, EngineNext \/ UNCHANGED engineVars PROVE PairsKept'
    OBVIOUS
  <2>1. CASE EngineNext
    BY <2>1, PairsKeep DEF EngineInv
  <2>2. CASE UNCHANGED engineVars
    BY <2>2 DEF engineVars, disk, reads, cutter, PairsKept, Paired, Between, Cutting, Taken
  <2> QED BY <2>1, <2>2
<1>3. PairsKept => PairsStayTogether
  BY DEF PairsKept, PairsStayTogether
<1> QED BY <1>1, <1>2, <1>3, EngineInvariance, PTL DEF EngineSpec
=============================================================================
