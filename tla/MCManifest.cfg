\* Two applies with failed writes or a crash, and another writer, of the
\* shape and of the network section.
\* The calls of apply are bounded: the program stops after the last.
SPECIFICATION MCSpec
CONSTANTS
    Resources <- TwoResources
    Scopes <- OneScope
    Permissions <- OnePermission
    Roles <- OneRole
    Grants <- OneGrant
    Groups <- Nothing
    GroupBindings <- Nothing
    Users <- OneUser
    UserBindings <- OneBinding
    Accounts <- OneAccount
    AccountBindings <- Nothing
    Members <- Nothing
    Needs <- NeedsOf
    NoResource = "none"
    PlainHolders = FALSE
    MaxDrift = 1
    MaxApplies = 2
    MaxFaults = 2
    MaxWrites = 1
    Segments <- TwoSegments
    Secs = {1, 2}
    Unstated = Unstated
    NetworkFaults = 1
CHECK_DEADLOCK FALSE
INVARIANTS
    Converges
    RerunRecovers
    ScopeCarried
    RebindHonest
    NetworkConverges
PROPERTIES
    NothingOverwritten
