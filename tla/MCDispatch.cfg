CONSTANTS
    Fds = {1, 2}
    Nodes <- MCNodes
    FileSystems <- MCFileSystems
    MaxFile = 2
    MaxChanges = 1
    Requests <- MCRequests
SPECIFICATION FairSpec
INVARIANTS
    OneOwnerPerFile
    LengthIsOfOpenFile
    StatusIsOfResponse
    ApiAnswer
    StaticAnswer
PROPERTY ResponseIsBuilt
