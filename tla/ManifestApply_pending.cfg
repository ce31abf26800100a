\* The tenant may hold a plain binding of a role the manifest scopes.
\* The calls of apply are bounded: the program stops after the last.
SPECIFICATION Spec
CONSTANTS
    Resources <- TwoResources
    Scopes <- OneScope
    Permissions <- OnePermission
    Roles <- OneRole
    Grants <- OneGrant
    Groups <- Nothing
    GroupBindings <- Nothing
    Users <- OneUser
    UserBindings <- OneBinding
    Accounts <- OneAccount
    AccountBindings <- Nothing
    Members <- Nothing
    Needs <- NeedsOf
    NoResource = "none"
    PlainHolders = TRUE
    MaxDrift = 1
    MaxApplies = 1
    MaxFaults = 0
    MaxWrites = 0
CHECK_DEADLOCK FALSE
INVARIANTS
    Converges
