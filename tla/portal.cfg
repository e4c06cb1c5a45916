SPECIFICATION Spec
CONSTANTS
    t1 = t1
    t2 = t2
    Tokens <- MCTokens
    LoginTTL = 1
    MaxTime = 3
    PageIds = {"tab", "http"}
    SecurePages = {"tab"}
    Settings = {"filter"}
    Modes <- MCModes
    Default <- MCDefault
    NoMode = NoMode
    CacheTTL = 2
    FetchTimeout = 1
    NoList = NoList
    CookieAge = 2
    Slots <- MCSlots
    Menus <- MCMenus
    Never = Never
SYMMETRY Symmetry
INVARIANTS
    TypeOK
    NoLeak
    NeighborsFresh
PROPERTIES
    ServedIsJustified
    StaysLoggedIn
CHECK_DEADLOCK FALSE
