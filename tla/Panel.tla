------------------------------- MODULE Panel -------------------------------
(***************************************************************************)
(* The daemon around the scheduler: the configuration file that the panel  *)
(* and the tray write, the tray's helper process, the panel's window, and  *)
(* the way from a signal to the end of the process.  Node ends when        *)
(* nothing holds its event loop; a timer of five seconds ends it before,   *)
(* but only until every cleanup is done.                                   *)
(***************************************************************************)
EXTENDS SyncScheduler

VARIABLES stored,  \* config.json
          saving,  \* where a setConfig() of the tray or the panel waits
          next,    \* what it saves
          raced,   \* history: a write overlapped another, failed or was cut off
          tray,    \* where startTray() waits
          helper,  \* the tray's helper process
          window   \* the panel's window, in a process of its own

scheduler == vars
desktop   == <<tray, helper, window>>
store     == <<stored, saving, next, raced>>
panelVars == <<vars, store, desktop>>

Saver   == {"tray", "panel"}
Default == [enabled |-> FALSE, configured |-> FALSE]
NoFile  == [torn |-> TRUE, value |-> Default]

PanelInit ==
    /\ Init
    /\ config = <<FALSE, FALSE>>
    /\ stored = NoFile
    /\ saving = [s \in Saver |-> "idle"]
    /\ next = [s \in Saver |-> Default]
    /\ raced = FALSE
    /\ tray = "none"
    /\ helper = FALSE
    /\ window = FALSE

\* What the scheduler does for itself.
SchedulerStep ==
    /\ Tick \/ ManualSync \/ Resume \/ EndOfRun \/ \E b \in BOOLEAN : SyncReturns(b)
    /\ UNCHANGED <<store, desktop>>

-----------------------------------------------------------------------------
(* The configuration file.                                                 *)

\* loadConfig(): a file that is missing or cannot be parsed gives the defaults.
Loaded == IF stored.torn THEN Default ELSE stored.value

Start(overdue) ==
    /\ Boot(Loaded.enabled, Loaded.configured, overdue)
    /\ tray' = "preparing"
    /\ UNCHANGED <<store, helper, window>>

Others(s) == {x \in Saver \ {s} : saving[x] = "writing"}

\* setConfig() begins to write; writeFile() empties the file first.
Write(s, isEnabled, isConfigured) ==
    /\ saving' = [saving EXCEPT ![s] = "writing"]
    /\ next' = [next EXCEPT ![s] = [enabled |-> isEnabled, configured |-> isConfigured]]
    /\ stored' = [stored EXCEPT !.torn = TRUE]
    /\ raced' = (Others(s) # {})
    /\ UNCHANGED <<scheduler, desktop>>

\* A click on the tray's toggle; one at a time.
Toggle ==
    /\ up /\ ~closed
    /\ tray = "ready" /\ helper
    /\ saving["tray"] = "idle"
    /\ Write("tray", ~enabled, configured)

\* POST /api/config, one at a time; its body is on the way.
Post ==
    /\ up /\ ~closed
    /\ saving["panel"] = "idle"
    /\ saving' = [saving EXCEPT !["panel"] = "reading"]
    /\ UNCHANGED <<scheduler, stored, next, raced, desktop>>

\* The body is merged with the configuration of now, keeping a masked token,
\* and checked for an address and a token.
Merge ==
    /\ saving["panel"] = "reading"
    /\ \E isEnabled \in BOOLEAN : Write("panel", isEnabled, TRUE)

\* The body or what it says is not good, or the shutdown cut the connection.
Refuse ==
    /\ saving["panel"] = "reading"
    /\ saving' = [saving EXCEPT !["panel"] = "idle"]
    /\ UNCHANGED <<scheduler, stored, next, raced, desktop>>

\* Two writes at once may leave a mixture of both.
Written(s) ==
    /\ saving[s] = "writing"
    /\ saving' = [saving EXCEPT ![s] = "idle"]
    /\ \E torn \in IF raced THEN BOOLEAN ELSE {FALSE} : stored' = [torn |-> torn, value |-> next[s]]
    /\ UNCHANGED <<next, raced, desktop>>

\* The rest of setConfig(): nothing is applied during a shutdown, though the
\* tray resumes a scheduler that is closed.
Saved(s) ==
    /\ Written(s)
    /\ LET lifts == s = "tray" /\ next[s].enabled /\ halted IN
       IF ~closed THEN UpdateConfig(next[s].enabled, next[s].configured, lifts)
       ELSE IF lifts THEN Resume ELSE UNCHANGED scheduler

WriteFails(s) ==
    /\ saving[s] = "writing"
    /\ saving' = [saving EXCEPT ![s] = "idle"]
    /\ raced' = TRUE
    /\ UNCHANGED <<scheduler, stored, next, desktop>>

-----------------------------------------------------------------------------
(* The tray and the window.                                                *)

\* startTray() has its binary and its menu, or goes on without a tray.
Construct ==
    /\ tray = "preparing"
    /\ tray' \in IF closed THEN {"none"} ELSE {"spawning", "none"}
    /\ UNCHANGED <<scheduler, store, helper, window>>

\* The tray starts its helper on its own; one that comes too late is stopped.
HelperStarts ==
    /\ tray \in {"spawning", "late"}
    /\ helper' = TRUE
    /\ tray' = IF tray = "late" THEN "disposed" ELSE "up"
    /\ UNCHANGED <<scheduler, store, window>>

\* Mutation: a tray that is ready after the shutdown began stays.
ReadyAnyway == "ready"

\* ready() resolved: without a shutdown in between the menu is connected.
AfterReady == IF closed THEN "disposed" ELSE "ready"

Ready ==
    /\ tray = "up" /\ helper
    /\ tray' = AfterReady
    /\ UNCHANGED <<scheduler, store, helper, window>>

\* Five seconds without ready(): the helper is stopped, now or when it comes,
\* unless it has ended.
ReadyTimesOut ==
    /\ tray \in {"spawning", "up"}
    /\ tray' = IF tray = "spawning" THEN "late" ELSE IF helper THEN "disposed" ELSE "none"
    /\ UNCHANGED <<scheduler, store, helper, window>>

\* It cannot be started at all.
NeverReady ==
    /\ tray = "late"
    /\ tray' = "none"
    /\ UNCHANGED <<scheduler, store, helper, window>>

\* It ends by itself, or because stopChild() asks it to or kills it.
HelperEnds ==
    /\ helper
    /\ helper' = FALSE
    /\ tray' = IF tray \in {"disposed", "stopping"} THEN "none" ELSE tray
    /\ UNCHANGED <<scheduler, store, window>>

\* showPanel(): a window that is open is used again.
OpenWindow ==
    /\ up /\ ~closed
    /\ ~window
    /\ window' = TRUE
    /\ UNCHANGED <<scheduler, store, tray, helper>>

WindowEnds ==
    /\ window
    /\ window' = FALSE
    /\ UNCHANGED <<scheduler, store, tray, helper>>

-----------------------------------------------------------------------------
(* The end.                                                                *)

\* Lifecycle.close(): all the cleanups begin at once.  The tray's stops a
\* helper that runs; one that is not there yet is left to startTray().
Shutdown ==
    /\ Close
    /\ tray' = IF helper THEN "stopping" ELSE tray
    /\ UNCHANGED <<store, helper, window>>

\* The cleanups of the scheduler, the window and the tray; once they are done
\* the deadline is cleared.
Cleaning == running \/ window \/ tray = "stopping"

\* Mutation: the process leaves without waiting for a write.
ClosedIsEnough == ~Cleaning

\* Nothing holds the event loop any more: no write, no child, no timer of
\* startTray().
NothingHolds ==
    /\ ~Cleaning
    /\ \A s \in Saver : saving[s] = "idle"
    /\ ~helper
    /\ tray \in {"none", "ready"}

Forgotten ==
    /\ saving' = [s \in Saver |-> "idle"]
    /\ next' = [s \in Saver |-> Default]
    /\ tray' = "none"
    /\ helper' = FALSE
    /\ window' = FALSE
    /\ UNCHANGED stored

Leave == Exit /\ NothingHolds /\ Forgotten /\ UNCHANGED raced

\* process.exit(1), a crash or a power cut: a write is cut off.
CutOff == raced' = (raced \/ \E s \in Saver : saving[s] = "writing")
Deadline == up /\ closed /\ Cleaning /\ Ended /\ Forgotten /\ CutOff
Killed == Crash /\ Forgotten /\ CutOff

PanelNext ==
    \/ \E overdue \in BOOLEAN : Start(overdue)
    \/ SchedulerStep
    \/ Toggle \/ Post \/ Merge \/ Refuse
    \/ \E s \in Saver : Saved(s) \/ WriteFails(s)
    \/ Construct \/ HelperStarts \/ Ready \/ ReadyTimesOut \/ NeverReady \/ HelperEnds
    \/ OpenWindow \/ WindowEnds
    \/ Shutdown \/ Leave \/ Deadline \/ Killed

\* Writes are answered, startTray() has timers and its helper is killed after
\* two seconds, the deadline is a timer; runs and windows may hang.
PanelSpec ==
    /\ PanelInit /\ [][PanelNext]_panelVars
    /\ WF_panelVars(Refuse)
    /\ \A s \in Saver : WF_panelVars(Saved(s) \/ WriteFails(s))
    /\ WF_panelVars(Construct)
    /\ WF_panelVars(Ready \/ ReadyTimesOut)
    /\ WF_panelVars(HelperStarts \/ NeverReady)
    /\ WF_panelVars(tray \in {"disposed", "stopping"} /\ HelperEnds)
    /\ WF_panelVars(Deadline)
    /\ WF_panelVars(Leave)

-----------------------------------------------------------------------------
\* A shutdown ends the process, although a run or the window hangs and wherever
\* startTray() waits: what comes up after the cleanups is taken down again.
ShutdownEnds == up /\ closed ~> ~up

\* Once it has an address and a token, the daemon keeps them through toggles,
\* saves, shutdowns during a save and restarts, unless the tray and the panel
\* wrote at the same time, a write failed or the process was killed in one.
SettingsSurvive == [][configured => configured' \/ raced']_panelVars

=============================================================================
