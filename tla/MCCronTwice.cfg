SPECIFICATION CronSpec
CONSTANTS
    JobIds = {j1, j2}
    NoJob = NoJob
    n1 = n1
    padded = padded
    Names = {n1}
    Trimmed <- MCTrimmed
    NoName = NoName
    Schedules <- MCSchedules
    Editors = {}
    CliUsers = {}
    Slots = {s1}
    Runners = {}
    Nobody = Nobody
    Keep = Keep
    Adds = {}
    Patches = {}
    MaxTasks = 2
    Retries = 1
    HistoryLimit = 2
    InitialTables <- MCTablesOnce
    MaxNow = 3
    MaxEvents = 1
INVARIANTS FiresOnce
CHECK_DEADLOCK FALSE
