SPECIFICATION FairSpec
CONSTANTS
    MaxClicks = 2
INVARIANTS
    TypeOK
    LogSurvivesClose
PROPERTIES
    CloseAlwaysExits
CHECK_DEADLOCK FALSE
