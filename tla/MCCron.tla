-------------------------------- MODULE MCCron -------------------------------
\* Instances of Cron for TLC.
EXTENDS Cron

CONSTANTS n1, padded

MCTrimmed == [n \in Names |-> n1]

At1 == [kind |-> "at", t |-> 1]
Cron2 == [kind |-> "cron", t |-> 2]
Dated2 == [kind |-> "dated", t |-> 2]
MCSchedules == {At1, Cron2, Dated2}
MCSchedulesOnce == {At1, [kind |-> "at", t |-> 3],
                    [kind |-> "every", t |-> 1]}
Wanted(n, ty, s) == [name |-> n, type |-> ty, schedule |-> s]
MCAdds == {Wanted(n1, "message", s) : s \in Schedules}
          \union {Wanted(n1, "agent", Cron2), Wanted(NoName, "message", At1)}
MCAddsOnce == {Wanted(n, "message", s) : n \in {n1, NoName}, s \in Schedules}
MCPatches == {[NoPatch EXCEPT !.name = n] : n \in Names}
             \union {[NoPatch EXCEPT !.enabled = b] : b \in BOOLEAN}
             \union {[NoPatch EXCEPT !.schedule = s] : s \in Schedules}
Sample(n, ty, s) == [name |-> n, type |-> ty, schedule |-> s,
                     nextRun |-> NextRun(s, 0), enabled |-> TRUE]
First == CHOOSE j \in JobIds : TRUE
Table(J, n, s) == [j \in JobIds |->
    IF j \in J THEN Sample(IF j = First THEN n ELSE NoName, "message", s) ELSE NoJob]
MCTables == {Table({First}, n1, s) : s \in Schedules}
            \union {Table({}, n1, Cron2), Table({First}, padded, Cron2)}
MCTablesOnce == {Table(J, n1, s) : J \in {{}, {First}}, s \in Schedules}
\* One job was renamed before, to a name with blanks around it, one has no name.
MCTablesPadded == {Table(JobIds, padded, s) : s \in Schedules}
==============================================================================
