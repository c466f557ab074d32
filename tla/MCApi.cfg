CONSTANTS
    s1 = s1
    s2 = s2
    Sessions <- MCSessions
    Start <- MCStart
    TargetService <- MCTarget
    Filters <- MCFilters
    PageSize = 1
    DefaultPageSize = 1
    MaxPages = 2
    MaxChanges = 3
    MaxFaults = 1
SPECIFICATION ApiSpec
INVARIANTS PagingComplete ReportNotBehind
