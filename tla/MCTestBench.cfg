SPECIFICATION FairSpec
CONSTANTS
    Configs <- AllConfigs
    MaxSize <- MCMaxSize
    AutoName = TRUE
INVARIANTS
    CreatedByWriter
    SetupsOneByOne
    BarriersMatch
    RunAfterSetups
    BusesOpenDuringRun
PROPERTIES
    SoundJobsFinish
CHECK_DEADLOCK FALSE
