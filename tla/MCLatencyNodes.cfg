CONSTANTS
    Configs <- AllConfigs
    MaxExceptions = 2
    MaxFaults = 2
SPECIFICATION Spec
INVARIANTS MeasuresTheRun SurplusAfterDone
PROPERTY NodesEnd
CHECK_DEADLOCK FALSE
