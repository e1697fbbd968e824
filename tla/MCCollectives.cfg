CONSTANTS
    Procs = {0, 1, 2, 3}
    SeqModulus = 4
    Configs <- AllConfigs
SPECIFICATION Spec
INVARIANTS TypeOK InOrder NoneStranded NothingLeft
PROPERTIES KeepsPromise AllReturn
CHECK_DEADLOCK FALSE
