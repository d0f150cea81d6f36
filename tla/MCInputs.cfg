CONSTANTS
    RequestLines <- MCRequestLines
    Lines <- MCLines
    MaxLines = 3
    MaxHeaders = 2
    MaxBody = 1
    Targets <- MCTargets
    Roots <- MCRoots
SPECIFICATION InputsSpec
INVARIANTS
    PassesAgree
    AcceptedIsUnambiguous
    FramingIsFirstOffence
    NormalizesToWalk
    TextMatchesSegments
    AcceptedIsUsable
