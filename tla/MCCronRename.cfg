SPECIFICATION CronSpec
CONSTANTS
    JobIds = {j1, j2}
    NoJob = NoJob
    n1 = n1
    padded = padded
    Names = {n1, padded}
    Trimmed <- MCTrimmed
    NoName = NoName
    Schedules <- MCSchedules
    Editors = {e1, e2}
    CliUsers = {}
    Slots = {s1}
    Runners = {}
    Nobody = Nobody
    Keep = Keep
    Adds <- MCAdds
    Patches <- MCPatches
    MaxTasks = 2
    Retries = 1
    HistoryLimit = 2
    InitialTables <- MCTablesPadded
    MaxNow = 3
    MaxEvents = 1
INVARIANTS NoDuplicates
CHECK_DEADLOCK FALSE
