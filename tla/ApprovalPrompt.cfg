SPECIFICATION PromptSpec
CONSTANTS
    Approvals <- Two
    Permission <- FirstIsPermission
    Clients <- TwoClients
    Decisions <- DenyOrAlways
    Sticky <- AlwaysOnly
    Default = "deny"
    ConnectedTimeout = 2
    UnattendedTimeout = 3
    RecentCap = 1
INVARIANTS
    UnpresentedKept
    FirstAnswerWins
    AtMostOneGrantLost
PROPERTIES
    AnswerReleases
