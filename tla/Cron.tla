-------------------------------- MODULE Cron --------------------------------
(***************************************************************************)
(* The cron job table (src/cron/store.rs), the scheduler that polls it     *)
(* (src/cron/scheduler.rs), manual runs (src/tools/cron_run.rs) and the    *)
(* callers that add, patch and remove jobs while runs are in flight: the   *)
(* agent tools, the gateway, the notes and the CLI, which is a process of  *)
(* its own.                                                                *)
(*                                                                         *)
(* Every statement on the SQLite table is one step; what is between two    *)
(* statements may interleave with everything else.  A run works on the     *)
(* copy of the row it was started with.  Time is a bounded clock; a        *)
(* schedule is a record [kind, t]: "at" time t, "every" t units, "cron"    *)
(* with the multiples of t as its occurrences, or "dated", a cron          *)
(* expression with a year, whose only occurrence is t.  Prompts, models,   *)
(* delivery targets, run output and the run's status are left out.         *)
(***************************************************************************)
EXTENDS Integers, Sequences, FiniteSets

CONSTANTS
    JobIds,      \* the ids (UUIDs) that can be handed out
    NoJob,       \* "no such row"
    Names,       \* job names, with and without blanks around them
    Trimmed,     \* the names without those blanks
    NoName,      \* the name of a job added without one
    Schedules,   \* the schedules jobs have
    Editors,     \* tasks of the daemon that add and patch jobs
    CliUsers,    \* CLI processes that patch jobs
    Slots,       \* the max_concurrent places of the scheduler
    Runners,     \* tasks of the daemon that call cron_run
    Nobody,      \* nobody holds JOB_WRITE_LOCK, no edit, no run
    Keep,        \* a field a patch leaves alone
    Adds,        \* the jobs callers ask for: name, type and schedule
    Patches,     \* the patches callers ask for
    MaxTasks,    \* scheduler.max_tasks
    Retries,     \* reliability.scheduler_retries
    HistoryLimit,\* cron.max_run_history
    InitialTables, \* the tables the daemon may find when it starts
    MaxNow,      \* bound of the clock
    MaxEvents    \* bound of adds, patches, manual runs and faults together

ScheduleKinds == {"at", "every", "cron", "dated"}
Types == {"agent", "message"}
NameOrNone == Names \union {NoName}

ASSUME CronAssumption ==
    /\ Schedules \subseteq [kind : ScheduleKinds, t : Nat \ {0}]
    /\ MaxTasks \in Nat \ {0} /\ HistoryLimit \in Nat \ {0}
    /\ Retries \in Nat /\ MaxNow \in Nat
    /\ MaxEvents \in Nat
    /\ NoName \notin Names
    /\ Trimmed \in [Names -> Names]
    /\ Keep \notin NameOrNone /\ Keep \notin Schedules /\ Keep \notin BOOLEAN
    /\ Adds \subseteq [name : NameOrNone, type : Types, schedule : Schedules]
    /\ Patches \subseteq [name : Names \union {Keep},
                          schedule : Schedules \union {Keep},
                          enabled : BOOLEAN \union {Keep}]
    /\ Slots \intersect Runners = {}
    /\ Editors \intersect CliUsers = {}
    /\ Nobody \notin Editors \union CliUsers

VARIABLES
    now,        \* the clock
    cronJobs,   \* the table: id -> row or NoJob
    history,    \* id -> number of rows of cron_runs
    used,       \* ids handed out so far
    lock,       \* the holder of JOB_WRITE_LOCK
    edit,       \* caller -> what it is in the middle of
    batch,      \* the due rows read by the last poll and not started yet
    exec,       \* slot or runner -> the run it is executing
    sent,       \* history: runs per id and one-shot schedule that were delivered
    cliJobs,    \* history: the jobs a CLI process has written to
    unchecked,  \* history: names written though no look-up could refuse them
    edits, manual, faults   \* how many of each have happened

cronVars == <<now, cronJobs, history, used, lock, edit, batch, exec, sent,
          cliJobs, unchecked, edits, manual, faults>>
tableVars == <<cronJobs, history, used>>
runVars == <<batch, exec, sent>>
editVars == <<lock, edit, cliJobs, unchecked>>
bounds == <<edits, manual, faults>>

Spare == edits + manual + faults < MaxEvents

Workers == Slots \union Runners
Callers == Editors \union CliUsers

Job == [name : NameOrNone, type : Types, schedule : Schedules,
        nextRun : Nat, enabled : BOOLEAN]
Row == [id : JobIds, job : Job]
Run == [id : JobIds, job : Job, tries : 0..Retries,
        pc : {"running", "deliver", "record", "finish"}]
NoPatch == [name |-> Keep, schedule |-> Keep, enabled |-> Keep]
Patch == Patches \union {[NoPatch EXCEPT !.schedule = s] : s \in Schedules}
Edit == [pc : {"replace", "insert"}, id : JobIds \union {NoJob},
         name : NameOrNone, type : Types, schedule : Schedules]
        \union [pc : {"read"}, id : JobIds, patch : Patch]
        \union [pc : {"write"}, id : JobIds, job : Job]

\* "No row" and "nobody" are no values of their kind, and the daemon starts
\* with jobs whose names differ.
ASSUME TableAssumption ==
    /\ NoJob \notin Job \union JobIds
    /\ Nobody \notin Edit /\ Nobody \notin Run
    /\ InitialTables \subseteq [JobIds -> Job \union {NoJob}]
    /\ \A table \in InitialTables : \A i, j \in JobIds :
          i # j /\ table[i] # NoJob /\ table[j] # NoJob =>
            table[i].name = NoName \/ table[i].name # table[j].name

Live == {j \in JobIds : cronJobs[j] # NoJob}
Named(n) == {j \in Live : cronJobs[j].name = n}

\* next_run_for_schedule: a cron occurrence is strictly after `from`.
NextRun(s, from) ==
    CASE s.kind \in {"at", "dated"} -> s.t
      [] s.kind = "every" -> from + s.t
      [] s.kind = "cron"  -> (from \div s.t + 1) * s.t

\* Without an occurrence after `from` it is an error, "No future occurrence".
HasNext(s, from) == s.kind = "dated" => s.t > from

\* validate_schedule: a one-shot must lie in the future, a cron expression
\* must have an occurrence there.
Valid(s, at) == (s.kind = "at" => s.t > at) /\ HasNext(s, at)

\* Mutant of OneShot: every job is rescheduled after its run.
OneShotNever(job) == FALSE

\* is_one_shot, asked of the copy the run was started with.
OneShot(job) == job.schedule.kind = "at"

Removed(j) == [cronJobs EXCEPT ![j] = NoJob]
\* cron_runs rows go with their job (ON DELETE CASCADE).
Cascaded(J) == [i \in JobIds |-> IF i \in J THEN 0 ELSE history[i]]

CronInit ==
    /\ now = 0
    /\ cronJobs \in InitialTables
    /\ history = [j \in JobIds |-> 0]
    /\ used = Live
    /\ lock = Nobody
    /\ edit = [c \in Callers |-> Nobody]
    /\ batch = <<>>
    /\ exec = [w \in Workers |-> Nobody]
    /\ sent = [j \in JobIds |-> [s \in Schedules |-> 0]]
    /\ cliJobs = {} /\ unchecked = {}
    /\ edits = 0 /\ manual = 0 /\ faults = 0

-----------------------------------------------------------------------------
\* Adding: add_agent_job and add_text_job, under JOB_WRITE_LOCK.

Begins(c) == edit[c] = Nobody /\ Spare /\ edits' = edits + 1

\* Mutant of TakesLock: every caller goes ahead without JOB_WRITE_LOCK.
TakesLockBlindly(c) == lock' = c

TakesLock(c) == lock = Nobody /\ lock' = c

Released(c) == IF lock = c THEN Nobody ELSE lock

Gives(c) == edit' = [edit EXCEPT ![c] = Nobody] /\ lock' = Released(c)

\* find_job_by_name(looked) finds no job, or fails, which every caller takes
\* for "no such job": `written` will be written unchecked.
NotFound(looked, written) ==
    unchecked' = IF Named(looked) = {} THEN unchecked
                                       ELSE unchecked \union {written}

\* Look up the name: no job is found, so insert one.
AddNew(c, n, ty, s) ==
    /\ Begins(c) /\ TakesLock(c)
    /\ \/ n = NoName /\ UNCHANGED unchecked
       \/ n # NoName /\ NotFound(n, n)
    /\ used # JobIds
    /\ edit' = [edit EXCEPT ![c] = [pc |-> "insert", id |-> NoJob, name |-> n,
                                    type |-> ty, schedule |-> s]]
    /\ UNCHANGED <<now, tableVars, runVars, cliJobs, manual, faults>>

\* A job of that name is found: patch it.  An agent job takes over a job of any
\* type; a text job only one of its own type.
AddKnown(c, n, ty, s) ==
    /\ Begins(c) /\ TakesLock(c)
    /\ \E j \in Named(n) :
        /\ n # NoName
        /\ ty = "agent" \/ cronJobs[j].type = ty
        /\ edit' = [edit EXCEPT ![c] =
                      [pc |-> "read", id |-> j,
                       patch |-> [NoPatch EXCEPT !.schedule = s]]]
    /\ UNCHANGED <<now, tableVars, runVars, cliJobs, unchecked, manual, faults>>

\* A text job whose name belongs to another type replaces that job.
AddReplacing(c, n, ty, s) ==
    /\ Begins(c) /\ TakesLock(c)
    /\ \E j \in Named(n) :
        /\ n # NoName /\ ty # "agent" /\ cronJobs[j].type # ty
        /\ used # JobIds
        /\ edit' = [edit EXCEPT ![c] = [pc |-> "replace", id |-> j, name |-> n,
                                        type |-> ty, schedule |-> s]]
    /\ UNCHANGED <<now, tableVars, runVars, cliJobs, unchecked, manual, faults>>

\* remove_job of the replaced row; when it is gone already the call fails.
ReplaceRemoves(c) ==
    /\ edit[c] # Nobody /\ edit[c].pc = "replace"
    /\ LET j == edit[c].id IN
       IF j \in Live
       THEN /\ cronJobs' = Removed(j)
            /\ history' = Cascaded({j})
            /\ edit' = [edit EXCEPT ![c].pc = "insert"]
            /\ lock' = lock
       ELSE Gives(c) /\ UNCHANGED <<cronJobs, history>>
    /\ UNCHANGED <<now, used, runVars, cliJobs, unchecked, bounds>>

InsertJob(c) ==
    /\ edit[c] # Nobody /\ edit[c].pc = "insert"
    /\ Gives(c)
    /\ LET e == edit[c] IN
       IF Valid(e.schedule, now)
       THEN \E j \in JobIds \ used :
             /\ cronJobs' = [cronJobs EXCEPT ![j] =
                   [name |-> e.name, type |-> e.type, schedule |-> e.schedule,
                    nextRun |-> NextRun(e.schedule, now), enabled |-> TRUE]]
             /\ used' = used \union {j}
       ELSE UNCHANGED <<cronJobs, used>>
    /\ UNCHANGED <<now, history, runVars, cliJobs, unchecked, bounds>>

-----------------------------------------------------------------------------
\* Patching: update_job reads the row, patches the copy and writes every
\* column back.

\* cron_update holds the lock and refuses a new name under which it finds
\* another job.  It looks up the trimmed name, and will write the name as it is.
PatchBegins(c, j, p) ==
    /\ Begins(c) /\ TakesLock(c)
    /\ j \in Live
    /\ \/ p.name = Keep /\ UNCHANGED unchecked
       \/ /\ p.name # Keep
          /\ \/ j \in Named(Trimmed[p.name]) /\ UNCHANGED unchecked
             \/ NotFound(Trimmed[p.name], p.name)
    /\ edit' = [edit EXCEPT ![c] = [pc |-> "read", id |-> j, patch |-> p]]
    /\ UNCHANGED <<now, tableVars, runVars, cliJobs, manual, faults>>

\* `cron update`, `cron pause` and `cron resume` go to update_job directly.
CliBegins(c, j, p) ==
    /\ Begins(c)
    /\ j \in used
    /\ edit' = [edit EXCEPT ![c] = [pc |-> "read", id |-> j, patch |-> p]]
    /\ UNCHANGED <<now, tableVars, lock, cliJobs, unchecked, runVars, manual,
                   faults>>

\* Mutant of Changes: every schedule that is submitted counts as a new one.
ChangesAlways(job, p) == p.schedule # Keep

\* schedule_changed: re-submitting the schedule a job has changes nothing.
Changes(job, p) == p.schedule # Keep /\ p.schedule # job.schedule

Or(field, value) == IF field = Keep THEN value ELSE field

Patched(job, p) ==
    [job EXCEPT
        !.name     = Or(p.name, @),
        !.schedule = Or(p.schedule, @),
        !.enabled  = Or(p.enabled, @),
        !.nextRun  = IF Changes(job, p) THEN NextRun(p.schedule, now) ELSE @]

PatchRead(c) ==
    /\ edit[c] # Nobody /\ edit[c].pc = "read"
    /\ LET e == edit[c] IN
       IF /\ e.id \in Live
          /\ Changes(cronJobs[e.id], e.patch) => Valid(e.patch.schedule, now)
       THEN /\ edit' = [edit EXCEPT ![c] =
                    [pc |-> "write", id |-> e.id,
                     job |-> Patched(cronJobs[e.id], e.patch)]]
            /\ lock' = lock
       ELSE Gives(c)
    /\ UNCHANGED <<now, tableVars, runVars, cliJobs, unchecked, bounds>>

\* Mutant of PatchWrite: the row is written whether or not it is still there.
PatchWriteUpserts(c) ==
    /\ edit[c] # Nobody /\ edit[c].pc = "write"
    /\ Gives(c)
    /\ cronJobs' = [cronJobs EXCEPT ![edit[c].id] = edit[c].job]
    /\ UNCHANGED <<now, history, used, cliJobs, unchecked, runVars, bounds>>

\* UPDATE ... WHERE id: no row, no effect.
PatchWrite(c) ==
    /\ edit[c] # Nobody /\ edit[c].pc = "write"
    /\ Gives(c)
    /\ LET e == edit[c] IN
       IF e.id \in Live
       THEN /\ cronJobs' = [cronJobs EXCEPT ![e.id] = e.job]
            /\ IF c \in CliUsers
               THEN /\ cliJobs' = cliJobs \union {e.id}
                    /\ unchecked' = unchecked \union {e.job.name}
               ELSE UNCHANGED <<cliJobs, unchecked>>
       ELSE UNCHANGED <<cronJobs, cliJobs, unchecked>>
    /\ UNCHANGED <<now, history, used, runVars, bounds>>

-----------------------------------------------------------------------------
\* Removing: by id (cron_remove, the gateway, the CLI) without the lock, by
\* name (cron_remove, note_done) under it.

RemoveById(j) ==
    /\ j \in Live
    /\ cronJobs' = Removed(j)
    /\ history' = Cascaded({j})
    /\ UNCHANGED <<now, used, runVars, editVars, bounds>>

RemoveByName(n) ==
    /\ lock = Nobody
    /\ Named(n) # {}
    /\ cronJobs' = [j \in JobIds |-> IF j \in Named(n) THEN NoJob ELSE cronJobs[j]]
    /\ history' = Cascaded(Named(n))
    /\ UNCHANGED <<now, used, runVars, editVars, bounds>>

-----------------------------------------------------------------------------
\* The scheduler.

Due(j) == j \in Live /\ cronJobs[j].enabled /\ cronJobs[j].nextRun <= now

DueRows == {[id |-> j, job |-> cronJobs[j]] : j \in {i \in JobIds : Due(i)}}


\* due_jobs: the due rows in the order of next_run, at most max_tasks of them.
DueBatches ==
    {q \in UNION {[1..n -> DueRows] : n \in 1..MaxTasks} :
        /\ \A a, b \in DOMAIN q : a < b =>
              q[a] # q[b] /\ q[a].job.nextRun <= q[b].job.nextRun
        /\ \A r \in DueRows : r \in {q[a] : a \in DOMAIN q} \/
              /\ Len(q) = MaxTasks
              /\ \A a \in DOMAIN q : q[a].job.nextRun <= r.job.nextRun}

Idle(w) == exec[w] = Nobody

\* Mutant of Poll: the poll does not wait for the runs of the last batch.
PollEagerly ==
    /\ batch = <<>>
    /\ \E q \in DueBatches : batch' = q
    /\ UNCHANGED <<now, tableVars, editVars, exec, sent, bounds>>

\* The next poll waits for the whole batch of the one before.
Poll ==
    /\ batch = <<>> /\ \A w \in Slots : Idle(w)
    /\ \E q \in DueBatches : batch' = q
    /\ UNCHANGED <<now, tableVars, editVars, exec, sent, bounds>>

StartsRun(w, row) ==
    exec' = [exec EXCEPT ![w] = [id |-> row.id, job |-> row.job, tries |-> 0,
                                 pc |-> "running"]]

StartRun(w) ==
    /\ w \in Slots /\ Idle(w) /\ batch # <<>>
    /\ StartsRun(w, Head(batch))
    /\ batch' = Tail(batch)
    /\ UNCHANGED <<now, tableVars, editVars, sent, bounds>>

\* cron_run: the row as it is now, whatever the scheduler does with the job.
RunManually(w, j) ==
    /\ w \in Runners /\ Idle(w) /\ j \in Live /\ Spare
    /\ StartsRun(w, [id |-> j, job |-> cronJobs[j]])
    /\ manual' = manual + 1
    /\ UNCHANGED <<now, tableVars, editVars, batch, sent, edits, faults>>

InStep(w, pc) == exec[w] # Nobody /\ exec[w].pc = pc
Goes(w, pc) == exec' = [exec EXCEPT ![w].pc = pc]

\* A failed attempt is repeated, unless the policy blocked it or it was the
\* last one.
AttemptFails(w) ==
    /\ InStep(w, "running") /\ exec[w].tries < Retries
    /\ exec' = [exec EXCEPT ![w].tries = @ + 1]
    /\ UNCHANGED <<now, tableVars, editVars, batch, sent, bounds>>

\* Only the outcome of the last attempt goes on.
AttemptEnds(w) ==
    /\ InStep(w, "running")
    /\ exec' = [exec EXCEPT ![w].pc = "deliver", ![w].tries = 0]
    /\ UNCHANGED <<now, tableVars, editVars, batch, sent, bounds>>

\* deliver_if_configured: the output goes out, of a failed run too.
DeliverRun(w) ==
    /\ InStep(w, "deliver")
    /\ Goes(w, "record")
    /\ sent' = IF exec[w].job.schedule.kind = "at"
               THEN [sent EXCEPT ![exec[w].id][exec[w].job.schedule] = @ + 1]
               ELSE sent
    /\ UNCHANGED <<now, tableVars, editVars, batch, bounds>>

\* Mutant of RecordRun: foreign keys are not enforced.
RecordRunOfAny(w) ==
    /\ InStep(w, "record")
    /\ Goes(w, "finish")
    /\ LET j == exec[w].id IN
       history' = IF history[j] < HistoryLimit
                  THEN [history EXCEPT ![j] = @ + 1] ELSE history
    /\ UNCHANGED <<now, cronJobs, used, editVars, batch, sent, bounds>>

\* record_run: insert and prune in one transaction; the foreign key refuses a
\* row for a job that is gone, which is only logged.
RecordRun(w) ==
    /\ InStep(w, "record")
    /\ Goes(w, "finish")
    /\ LET j == exec[w].id IN
       history' = IF j \in Live /\ history[j] < HistoryLimit
                  THEN [history EXCEPT ![j] = @ + 1] ELSE history
    /\ UNCHANGED <<now, cronJobs, used, editVars, batch, sent, bounds>>

RunOver(w) == exec' = [exec EXCEPT ![w] = Nobody]

\* The end of persist_job_result: remove a one-shot, reschedule the others.
\* When the schedule has no occurrence left, reschedule_after_run fails before
\* it writes, which is only logged: the row stays as it is, and due.
FinishRun(w) ==
    /\ InStep(w, "finish")
    /\ RunOver(w)
    /\ LET r == exec[w]
           goesOn == HasNext(r.job.schedule, now)
       IN
       CASE r.id \notin Live \/ (~OneShot(r.job) /\ ~goesOn) ->
                UNCHANGED <<cronJobs, history>>
         [] r.id \in Live /\ OneShot(r.job) ->
                /\ cronJobs' = Removed(r.id)
                /\ history' = Cascaded({r.id})
         [] r.id \in Live /\ ~OneShot(r.job) /\ goesOn ->
                /\ cronJobs' = [cronJobs EXCEPT ![r.id].nextRun =
                                   NextRun(r.job.schedule, now)]
                /\ history' = history
    /\ UNCHANGED <<now, used, editVars, batch, sent, bounds>>

\* The statement fails; that is only logged.
FinishFails(w) ==
    /\ InStep(w, "finish") /\ Spare
    /\ RunOver(w)
    /\ faults' = faults + 1
    /\ UNCHANGED <<now, tableVars, editVars, batch, sent, edits, manual>>

\* A cancelled turn drops its cron_run at an await: nothing is written.
DropRun(w) ==
    /\ w \in Runners
    /\ InStep(w, "running") \/ InStep(w, "deliver")
    /\ RunOver(w)
    /\ UNCHANGED <<now, tableVars, editVars, batch, sent, bounds>>

\* The daemon dies and is started again: what is in memory is gone.
Crash ==
    /\ Spare
    /\ faults' = faults + 1
    /\ batch' = <<>>
    /\ exec' = [w \in Workers |-> Nobody]
    /\ edit' = [c \in Callers |-> IF c \in CliUsers THEN edit[c] ELSE Nobody]
    /\ lock' = Nobody
    /\ UNCHANGED <<now, tableVars, sent, cliJobs, unchecked, edits, manual>>

Tick ==
    /\ now < MaxNow
    /\ now' = now + 1
    /\ UNCHANGED <<tableVars, runVars, editVars, bounds>>

-----------------------------------------------------------------------------
Add(c) ==
    \E a \in Adds :
        \/ AddNew(c, a.name, a.type, a.schedule)
        \/ AddKnown(c, a.name, a.type, a.schedule)
        \/ AddReplacing(c, a.name, a.type, a.schedule)

EditStep(c) == ReplaceRemoves(c) \/ InsertJob(c) \/ PatchRead(c) \/ PatchWrite(c)

RunStep(w) ==
    AttemptFails(w) \/ AttemptEnds(w) \/ DeliverRun(w) \/ RecordRun(w) \/ FinishRun(w)

CronNext ==
    \/ \E c \in Editors : Add(c)
    \/ \E c \in Editors, j \in JobIds, p \in Patches : PatchBegins(c, j, p)
    \/ \E c \in CliUsers, j \in JobIds, p \in Patches : CliBegins(c, j, p)
    \/ \E c \in Callers : EditStep(c)
    \/ \E j \in JobIds : RemoveById(j)
    \/ \E n \in Names : RemoveByName(n)
    \/ Poll
    \/ \E w \in Slots : StartRun(w)
    \/ \E w \in Runners, j \in JobIds : RunManually(w, j)
    \/ \E w \in Workers : RunStep(w) \/ FinishFails(w) \/ DropRun(w)
    \/ Crash
    \/ Tick

CronSpec == CronInit /\ [][CronNext]_cronVars

\* The poll interval fires again and again, the batch is drained, and a run
\* that has begun is carried on to its end.
FairCronSpec ==
    /\ CronSpec
    /\ WF_cronVars(Poll)
    /\ \A w \in Slots : WF_cronVars(StartRun(w)) /\ WF_cronVars(RunStep(w))

-----------------------------------------------------------------------------
\* What each variable holds: rows only under ids that were handed out, at
\* most max_run_history runs of a job.
CronTypeOK ==
    /\ now \in Nat
    /\ cronJobs \in [JobIds -> Job \union {NoJob}]
    /\ history \in [JobIds -> 0..HistoryLimit]
    /\ used \in SUBSET JobIds /\ Live \subseteq used
    /\ lock \in Editors \union {Nobody}
    /\ edit \in [Callers -> Edit \union {Nobody}]
    /\ batch \in Seq(Row)
    /\ exec \in [Workers -> Run \union {Nobody}]
    /\ sent \in [JobIds -> [Schedules -> Nat]]
    /\ cliJobs \in SUBSET JobIds /\ unchecked \in SUBSET NameOrNone
    /\ edits \in Nat /\ manual \in Nat /\ faults \in Nat

\* A name nothing kept from being given twice: none at all, one that a CLI
\* process or a caller whose look-up failed has written, or one with blanks
\* around it, which cron_update does not look up.
Unguarded(n) == n = NoName \/ n \in unchecked \/ Trimmed[n] # n

\* However adds, renames, removals and runs interleave, two jobs share a name
\* only if it is one of those (store.rs 43-52, cron_update.rs).
UniqueNames ==
    \A i, j \in Live :
        i # j /\ cronJobs[i].name = cronJobs[j].name => Unguarded(cronJobs[i].name)

\* The comment in cron_update on renames: they would "create exactly the
\* same-name duplicates cron_add's name-based dedup prevents".  So no two jobs
\* share a name.
NoDuplicates ==
    \A i, j \in Live :
        i # j /\ cronJobs[i].name # NoName => cronJobs[i].name # cronJobs[j].name

\* The scheduler never has one job in hand twice: not in two slots, not in a
\* slot and in the batch, not twice in the batch (run, process_due_jobs).
RunsApart ==
    /\ \A v, w \in Slots :
          v # w /\ exec[v] # Nobody /\ exec[w] # Nobody => exec[v].id # exec[w].id
    /\ \A a, b \in DOMAIN batch : a # b => batch[a].id # batch[b].id
    /\ \A w \in Slots, a \in DOMAIN batch :
          exec[w] # Nobody => exec[w].id # batch[a].id

\* A one-shot goes out more than once only through crashes, failed writes and
\* manual runs, once for each at most: a patch or a removal, wherever it falls,
\* never makes it fire again (persist_job_result, is_one_shot).  That it never
\* goes out twice is FiresOnce, which fails.
OneShotAccounting ==
    \A j \in JobIds : \A s \in Schedules :
        s.kind = "at" => sent[j][s] <= 1 + faults + manual

\* No run history outlives its job, even when the job is removed while it
\* runs (record_run and the foreign key of cron_runs).
HistoryFollowsJobs == \A j \in JobIds \ Live : history[j] = 0

\* A due run is never silently skipped: a job that is due stays due until a
\* run of it ends, its schedule is changed, it is paused or it is removed
\* (the comment in update_job on re-submitted schedules).  Left out are jobs a
\* CLI process has written to, which writes back the next_run it read, and
\* due times the schedule does not have, left by a run of an older schedule.
Occurs(job) ==
    CASE job.schedule.kind = "at"    -> job.nextRun = job.schedule.t
      [] job.schedule.kind = "dated" -> job.nextRun = job.schedule.t
      [] job.schedule.kind = "every" -> TRUE
      [] job.schedule.kind = "cron"  -> job.nextRun % job.schedule.t = 0

DueRunKept ==
    [][\A j \in JobIds : Due(j) /\ Occurs(cronJobs[j]) =>
          \/ j \in cliJobs'
          \/ cronJobs'[j] = NoJob
          \/ cronJobs'[j].nextRun <= now
          \/ cronJobs'[j].schedule # cronJobs[j].schedule
          \/ ~cronJobs'[j].enabled
          \/ \E w \in Workers : /\ exec[w] # Nobody /\ exec[w].id = j
                                /\ exec'[w] = Nobody]_cronVars

\* A job that was removed never comes back, though a run of it or a patch of
\* it may still be under way (UPDATE ... WHERE id).
RemovedStaysRemoved ==
    [][\A j \in used : cronJobs[j] = NoJob => cronJobs'[j] = NoJob]_cronVars

\* A job that is due does not stay due for ever: it is run and moved on, or
\* paused or removed by its owner, in spite of crashes and failed writes.  Only
\* a job whose schedule has no occurrence left stays due, and goes out at every
\* poll, since it cannot be rescheduled (reschedule_after_run).
Exhausted(j) == j \in Live /\ ~HasNext(cronJobs[j].schedule, now)


\* The comment in persist_job_result: "an `at` schedule always fires exactly
\* once".  So no one-shot goes out twice.
FiresOnce ==
    \A j \in JobIds : \A s \in Schedules : s.kind = "at" => sent[j][s] <= 1

\* The comment on is_one_shot: "A job scheduled with Schedule::At runs exactly
\* once, by definition".  So a run that ends takes a one-shot out of the table
\* only if that one-shot has gone out.
AtRunsBeforeRemoval ==
    [][\A w \in Workers : \A j \in Live :
          /\ exec[w] # Nobody /\ exec'[w] = Nobody /\ exec[w].id = j
          /\ cronJobs'[j] = NoJob /\ OneShot(cronJobs[j])
          => sent[j][cronJobs[j].schedule] > 0]_cronVars
=============================================================================
