SPECIFICATION Spec
CONSTANTS
    Config <- MCConfig
    Ghost = 0
    DepLists <- MCDepLists
    Prios = {1, 2}
    Kinds = {"off", "fg", "bg"}
INVARIANTS
    TableExact
    Topological
    VerdictRight
    StopsAll
    BootFeeds
