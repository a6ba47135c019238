SPECIFICATION CronSpec
CONSTANTS
    JobIds = {j1, j2}
    NoJob = NoJob
    n1 = n1
    padded = padded
    Names = {n1}
    Trimmed <- MCTrimmed
    NoName = NoName
    Schedules <- MCSchedulesOnce
    Editors = {e1}
    CliUsers = {}
    Slots = {s1}
    Runners = {r1}
    Nobody = Nobody
    Keep = Keep
    Adds <- MCAddsOnce
    Patches <- MCPatches
    MaxTasks = 2
    Retries = 0
    HistoryLimit = 2
    InitialTables <- MCTablesOnce
    MaxNow = 3
    MaxEvents = 2
PROPERTIES AtRunsBeforeRemoval
CHECK_DEADLOCK FALSE
