SPECIFICATION FairSpec
CONSTANTS
    Configs <- FailingConfigs
    MaxSize <- MCMaxSize
    AutoName = FALSE
CHECK_DEADLOCK FALSE
PROPERTIES
    AllFinish
