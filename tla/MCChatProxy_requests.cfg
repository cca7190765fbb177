CONSTANTS
    r1 = r1
    r2 = r2
    work = work
    home = home
    s1 = s1
    s2 = s2
    Request = {r1, r2}
    Text <- MCText
    WindowChars = 4
    OverlapChars = 1
    ThresholdChars = 8
    MaxWindows = 5
    MaxTurnCount = 3
    RecentLimit = 1
    Slot = {work, home}
    Stream = {s1, s2}
    CatalogSlots <- MCCatalogSlots
    MaxVersion = 1
    NoSlot = NoSlot
SPECIFICATION ChatFairSpec
INVARIANTS RoutedFromShown RunsWithAllAsked MetricsAgree
PROPERTIES RequestsEnd
CHECK_DEADLOCK FALSE
