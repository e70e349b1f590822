SPECIFICATION Spec
CONSTANTS
    Approvals <- Two
    Permission <- FirstIsPermission
    Clients <- OneClient
    Decisions <- DenyOnly
    Sticky <- Nothing
    Default = "deny"
    ConnectedTimeout = 2
    UnattendedTimeout = 1
    RecentCap = 1
INVARIANTS
    NeverDiesEarly
    KnownUntilEvicted
    RingIsRecent
