SPECIFICATION ConfigSpec
CONSTANTS
    Workspace <- MCWorkspace
    Starts <- MCStarts
    RawPaths <- MCRawPaths
    Actions <- MCActions
    NoRuleset = NoRuleset
    Unreadable = Unreadable
INVARIANTS
    ConfigTypeOK
    StartsAsAsked
    HighestPriorityDecides
    ResolvesAsMeant
    PatternsFollowSegments
