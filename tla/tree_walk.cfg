SPECIFICATION FairWalkSpec
CONSTANTS
    MaxNodes = 6
    MaxLevels = 3
INVARIANTS
    WalkTypeOK
    FindsIfThere
    ReportsEveryError
    ListsChildren
    CountsDepth
    SkeletonReaches
PROPERTIES
    WalkEnds
