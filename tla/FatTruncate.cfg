CONSTANTS
    n1 = n1 n2 = n2 n3 = n3 x = x y = y
    LastCluster = 9
    Clusters <- MCClusters
    PerCluster = 4
    Root = 2
    Names = {n1, n2, n3}
    Parts <- MCParts
    Invalid = {}
    Texts <- MCTexts
    MaxDepth = 2
    Formatted <- MCFormatted
    Sessions <- MCSessions
    Truncating = TRUE
    SectorSizes = {8, 12}
    BootSectors <- MCBootSectors
    Volumes <- MCVolumes
    Wrap = 16
    Chars = {97, 65, 46, 43, 47}
    Runs = {1, 3, 8, 13}
    MaxRuns = 3
SPECIFICATION MCSpec
\* The commands are counted.
CHECK_DEADLOCK FALSE
INVARIANT FileFatTellsStatus
