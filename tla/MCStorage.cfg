SPECIFICATION Spec
CONSTANTS
    demo = demo
    health = health
    none = none
    gone = gone
    torn = torn
    web = web
    df = df
    MaxSecond = 2
    Blank = blank
    ForeignServerIds = {demo}
    ForeignSnippetIds = {health}
    Absent = none
    Missing = gone
    Torn = torn
    Profiles = {web}
    Texts = {df}
    PingStatuses = {"offline"}
    ShippedServers <- MCShippedServers
    ShippedSnippets <- MCShippedSnippets
    DefaultSnippets <- MCShippedSnippets
    Backups <- MCBackups
    DiskFaults = TRUE
INVARIANTS
    TypeOK
    QuiescentAgreement
PROPERTY
    ImplementsTableStore
