CONSTANTS
    MaxFailures = 2
    MaxExtra = 1
SPECIFICATION PanelSpec
INVARIANTS
    TimerIsDue
    ScheduleIsKept
    HaltIsEarned
PROPERTIES
    ShutdownEnds
    SettingsSurvive
CHECK_DEADLOCK FALSE
