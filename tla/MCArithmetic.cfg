SPECIFICATION CaseSpec
CONSTANTS
    MaxRanks = 7
    MaxMaps = 5
    MaxPerNode = 3
    MaxTreeSize = 17
    MaxFanout = 4
    MaxItems = 12
    MaxProcs = 5
    MaxTime = 6
    MaxPieces = 3
    IntHalf = 4
INVARIANTS
    MapsServed
    WritersPrecede
    TreesSpan
    BlocksTile
    TimesOrdered
    MessagesReadBack
