SPECIFICATION Spec
CONSTANTS
    Approvals <- One
    Permission <- FirstIsPermission
    Clients <- TwoClients
    Decisions <- DenyOrAlways
    Sticky <- AlwaysOnly
    Default = "deny"
    ConnectedTimeout = 0
    UnattendedTimeout = 0
    RecentCap = 2
INVARIANTS
    GrantNeverLost
