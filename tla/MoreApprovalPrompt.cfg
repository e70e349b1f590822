SPECIFICATION FairSpec
CONSTANTS
    Approvals <- One
    Permission <- FirstIsPermission
    Clients <- TwoClients
    Decisions <- DenyOrAlways
    Sticky <- AlwaysOnly
    Default = "deny"
    ConnectedTimeout = 2
    UnattendedTimeout = 3
    RecentCap = 2
INVARIANTS
    TypeOK
    ExpiryJustified
PROPERTIES
    PromptsEnd
