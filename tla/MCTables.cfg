SPECIFICATION TablesSpec
CONSTANTS
    SUB_CAP = 3
    PREFIX_CAP = 2
    MaxHeld = 3
    Prefixes <- MCPrefixes
    Topics <- MCTopics
    GROUP_CAP = 3
    NAME_CAP = 2
    Groups <- MCGroups
INVARIANTS
    TypeOK
    NothingUnwanted
    NothingMissing
    NoDuplicates
    MatchesMembers
PROPERTY
    ImplementsBag
