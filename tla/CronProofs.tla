----------------------------- MODULE CronProofs -----------------------------
(***************************************************************************)
(* Theorems about Cron, for any sets of jobs, names, schedules, callers,   *)
(* slots and runners, and any patches, limits and numbers of events.       *)
(***************************************************************************)
EXTENDS Cron, FiniteSetTheorems, SequenceTheorems, TLAPS

-----------------------------------------------------------------------------
(* Lemmas about the operators                                              *)

\* A quotient of natural numbers is one.
LEMMA QuotientNat ==
    ASSUME NEW a \in Nat, NEW b \in Nat \ {0}
    PROVE  a \div b \in Nat
OBVIOUS

\* The next run of a schedule is a time.
LEMMA NextRunNat ==
    ASSUME NEW s \in Schedules, NEW from \in Nat
    PROVE  NextRun(s, from) \in Nat
<1>1. s.kind \in ScheduleKinds /\ s.t \in Nat \ {0}
  BY CronAssumption
<1>2. CASE s.kind = "cron"
  <2> DEFINE q == from \div s.t
  <2>1. q \in Nat
    BY <1>1, QuotientNat
  <2>2. (q + 1) * s.t \in Nat
    <3> HIDE DEF q
    <3>. QED BY <1>1, <2>1
  <2>. QED
    BY <1>1, <1>2, <2>2 DEF NextRun
<1>. QED
  BY <1>1, <1>2 DEF NextRun, ScheduleKinds

\* A patched row is a row.
LEMMA PatchedJob ==
    ASSUME NEW job \in Job, NEW p \in Patch, now \in Nat
    PROVE  /\ Patched(job, p) \in Job
           /\ Patched(job, p).name = Or(p.name, job.name)
<1>1. /\ p.name \in Names \union {Keep}
      /\ p.schedule \in Schedules \union {Keep}
      /\ p.enabled \in BOOLEAN \union {Keep}
  BY CronAssumption DEF Patch, NoPatch
<1>2. /\ job.name \in NameOrNone /\ job.type \in Types
      /\ job.schedule \in Schedules /\ job.nextRun \in Nat
      /\ job.enabled \in BOOLEAN
  BY DEF Job
<1>3. /\ Or(p.name, job.name) \in NameOrNone
      /\ Or(p.schedule, job.schedule) \in Schedules
      /\ Or(p.enabled, job.enabled) \in BOOLEAN
  BY <1>1, <1>2, CronAssumption DEF Or, NameOrNone
<1>4. Changes(job, p) => NextRun(p.schedule, now) \in Nat
  BY <1>1, NextRunNat DEF Changes
<1>5. (IF Changes(job, p) THEN NextRun(p.schedule, now) ELSE job.nextRun) \in Nat
  BY <1>2, <1>4
<1>6. Patched(job, p) =
        [name |-> Or(p.name, job.name), type |-> job.type,
         schedule |-> Or(p.schedule, job.schedule),
         nextRun |-> IF Changes(job, p) THEN NextRun(p.schedule, now)
                     ELSE job.nextRun,
         enabled |-> Or(p.enabled, job.enabled)]
  <2> DEFINE a == [job EXCEPT !.name = Or(p.name, job.name)]
             b == [a EXCEPT !.schedule = Or(p.schedule, job.schedule)]
             c == [b EXCEPT !.enabled = Or(p.enabled, job.enabled)]
             t == IF Changes(job, p) THEN NextRun(p.schedule, now)
                  ELSE job.nextRun
  <2>1. a = [name |-> Or(p.name, job.name), type |-> job.type,
             schedule |-> job.schedule, nextRun |-> job.nextRun,
             enabled |-> job.enabled]
    BY DEF Job
  <2>2. b = [name |-> Or(p.name, job.name), type |-> job.type,
             schedule |-> Or(p.schedule, job.schedule),
             nextRun |-> job.nextRun, enabled |-> job.enabled]
    <3> HIDE DEF a
    <3>. QED BY <2>1
  <2>3. c = [name |-> Or(p.name, job.name), type |-> job.type,
             schedule |-> Or(p.schedule, job.schedule),
             nextRun |-> job.nextRun, enabled |-> Or(p.enabled, job.enabled)]
    <3> HIDE DEF a, b
    <3>. QED BY <2>2
  <2>4. Patched(job, p) = [c EXCEPT !.nextRun = t]
    BY DEF Patched
  <2>5. [c EXCEPT !.nextRun = t] =
          [name |-> Or(p.name, job.name), type |-> job.type,
           schedule |-> Or(p.schedule, job.schedule),
           nextRun |-> t, enabled |-> Or(p.enabled, job.enabled)]
    <3> HIDE DEF a, b, c, t
    <3>. QED BY <2>3
  <2>. QED
    BY <2>4, <2>5
<1>. QED
  BY <1>2, <1>3, <1>5, <1>6 DEF Job

\* What a caller is in the middle of, by the step it has reached.
LEMMA EditShape ==
    ASSUME NEW e \in Edit
    PROVE  \/ /\ e.pc \in {"replace", "insert"}
              /\ e = [pc |-> e.pc, id |-> e.id, name |-> e.name,
                      type |-> e.type, schedule |-> e.schedule]
              /\ e.id \in JobIds \union {NoJob} /\ e.name \in NameOrNone
              /\ e.type \in Types /\ e.schedule \in Schedules
           \/ e.pc = "read" /\ e.id \in JobIds /\ e.patch \in Patch
           \/ e.pc = "write" /\ e.id \in JobIds /\ e.job \in Job
BY DEF Edit

\* A patch of the schedule alone is a patch, and keeps the name.
LEMMA KeepsASchedule ==
    ASSUME NEW s \in Schedules
    PROVE  /\ [NoPatch EXCEPT !.schedule = s] \in Patch
           /\ [NoPatch EXCEPT !.schedule = s].name = Keep
BY DEF Patch, NoPatch

-----------------------------------------------------------------------------
(* Types                                                                   *)

\* The table at the start has its type.
LEMMA InitTypes == CronInit => CronTypeOK
<1> SUFFICES ASSUME CronInit PROVE CronTypeOK
  OBVIOUS
<1>1. cronJobs \in [JobIds -> Job \union {NoJob}]
  BY TableAssumption DEF CronInit
<1>2. history \in [JobIds -> 0..HistoryLimit]
  BY CronAssumption DEF CronInit
<1>3. batch \in Seq(Row)
  BY EmptySeq DEF CronInit
<1>. QED
  BY <1>1, <1>2, <1>3 DEF CronInit, CronTypeOK, Live

\* What a caller asks to add has a name, a type and a schedule.
LEMMA AddsTypes ==
    \A a \in Adds : a.name \in NameOrNone /\ a.type \in Types /\ a.schedule \in Schedules
BY CronAssumption

\* Names that were not found are names.
LEMMA NotFoundTypes ==
    ASSUME CronTypeOK, NEW looked, NEW n \in NameOrNone,
           NotFound(looked, n) \/ UNCHANGED unchecked
    PROVE  unchecked' \in SUBSET NameOrNone
BY DEF NotFound, CronTypeOK

\* The callers' steps that begin an edit.
LEMMA BeginTypes ==
    ASSUME CronTypeOK,
           \/ \E c \in Editors : Add(c)
           \/ \E c \in Editors, j \in JobIds, p \in Patches : PatchBegins(c, j, p)
           \/ \E c \in CliUsers, j \in JobIds, p \in Patches : CliBegins(c, j, p)
    PROVE  CronTypeOK'
<1> USE DEF tableVars, runVars, Live, Callers
<1>1. \E c \in Callers : \E e \in Edit :
        edit' = [edit EXCEPT ![c] = e] /\ lock' \in {lock, c}
          /\ (lock' = c => c \in Editors) /\ edits' = edits + 1
          /\ unchecked' \in SUBSET NameOrNone
          /\ UNCHANGED <<now, tableVars, runVars, cliJobs, manual, faults>>
  <2> USE DEF CronTypeOK
  <2>1. CASE \E c \in Editors : Add(c)
    <3> PICK c \in Editors, n \in NameOrNone, ty \in Types, s \in Schedules :
              AddNew(c, n, ty, s) \/ AddKnown(c, n, ty, s)
                \/ AddReplacing(c, n, ty, s)
      BY <2>1, AddsTypes DEF Add
    <3>1. CASE AddNew(c, n, ty, s)
      <4> DEFINE e == [pc |-> "insert", id |-> NoJob, name |-> n,
                       type |-> ty, schedule |-> s]
      <4>1. e \in Edit
        BY DEF Edit
      <4>2. unchecked' \in SUBSET NameOrNone
        BY <3>1, NotFoundTypes DEF AddNew
      <4>. QED
        BY <3>1, <4>1, <4>2 DEF AddNew, Begins, TakesLock
    <3>2. CASE AddKnown(c, n, ty, s)
      <4> PICK j \in Named(n) :
            edit' = [edit EXCEPT ![c] =
                      [pc |-> "read", id |-> j,
                       patch |-> [NoPatch EXCEPT !.schedule = s]]]
        BY <3>2 DEF AddKnown
      <4> DEFINE e == [pc |-> "read", id |-> j,
                       patch |-> [NoPatch EXCEPT !.schedule = s]]
      <4>1. e \in Edit
        BY KeepsASchedule DEF Edit, Named
      <4>. QED
        BY <3>2, <4>1 DEF AddKnown, Begins, TakesLock
    <3>3. CASE AddReplacing(c, n, ty, s)
      <4> PICK j \in Named(n) :
            edit' = [edit EXCEPT ![c] = [pc |-> "replace", id |-> j, name |-> n,
                                         type |-> ty, schedule |-> s]]
        BY <3>3 DEF AddReplacing
      <4> DEFINE e == [pc |-> "replace", id |-> j, name |-> n,
                       type |-> ty, schedule |-> s]
      <4>1. e \in Edit
        BY DEF Edit, Named
      <4>. QED
        BY <3>3, <4>1 DEF AddReplacing, Begins, TakesLock
    <3>. QED
      BY <3>1, <3>2, <3>3
  <2>2. CASE \E c \in Editors, j \in JobIds, p \in Patches : PatchBegins(c, j, p)
    <3> PICK c \in Editors, j \in JobIds, p \in Patches : PatchBegins(c, j, p)
      BY <2>2
    <3> DEFINE e == [pc |-> "read", id |-> j, patch |-> p]
    <3>1. e \in Edit
      BY DEF Edit, Patch
    <3>2. unchecked' \in SUBSET NameOrNone
      <4>1. p.name # Keep => p.name \in NameOrNone
        BY CronAssumption DEF NameOrNone
      <4>. QED
        BY <4>1, NotFoundTypes DEF PatchBegins
    <3>. QED
      BY <3>1, <3>2 DEF PatchBegins, Begins, TakesLock
  <2>3. CASE \E c \in CliUsers, j \in JobIds, p \in Patches : CliBegins(c, j, p)
    <3> PICK c \in CliUsers, j \in JobIds, p \in Patches : CliBegins(c, j, p)
      BY <2>3
    <3> DEFINE e == [pc |-> "read", id |-> j, patch |-> p]
    <3>1. e \in Edit
      BY DEF Edit, Patch
    <3>2. lock' = c => c \in Editors
      BY CronAssumption DEF CliBegins, CronTypeOK
    <3>. QED
      BY <3>1, <3>2 DEF CliBegins, Begins
  <2>. QED
    BY <2>1, <2>2, <2>3
<1>. QED
  BY <1>1 DEF CronTypeOK

\* Removing rows, with their history, keeps the types.
LEMMA CascadedType ==
    ASSUME CronTypeOK, NEW J
    PROVE  Cascaded(J) \in [JobIds -> 0..HistoryLimit]
<1>1. \A i \in JobIds : (IF i \in J THEN 0 ELSE history[i]) \in 0..HistoryLimit
  BY CronAssumption DEF CronTypeOK
<1>. QED
  BY <1>1 DEF Cascaded

\* A table without one of its rows has its type.
LEMMA RemovalTypes ==
    ASSUME CronTypeOK, NEW j \in Live,
           cronJobs' = [cronJobs EXCEPT ![j] = NoJob], history' = Cascaded({j})
    PROVE  /\ cronJobs' \in [JobIds -> Job \union {NoJob}]
           /\ history' \in [JobIds -> 0..HistoryLimit]
           /\ Live' \subseteq used
<1>1. history' \in [JobIds -> 0..HistoryLimit]
  BY CascadedType
<1>2. cronJobs' \in [JobIds -> Job \union {NoJob}]
  BY DEF CronTypeOK
<1>3. Live' \subseteq used
  BY DEF CronTypeOK, Live
<1>. QED
  BY <1>1, <1>2, <1>3

\* The steps of an edit that is under way.
LEMMA EditTypes ==
    ASSUME CronTypeOK, NEW c \in Callers, EditStep(c)
    PROVE  CronTypeOK'
<1> USE DEF tableVars, runVars, bounds
<1>1. edit[c] \in Edit
  BY DEF EditStep, ReplaceRemoves, InsertJob, PatchRead, PatchWrite, CronTypeOK
<1>2. Released(c) \in {lock, Nobody}
  BY DEF Released
<1>3. CASE ReplaceRemoves(c)
  <2>1. [edit[c] EXCEPT !.pc = "insert"] \in Edit
    BY <1>1, <1>3, EditShape DEF ReplaceRemoves, Edit
  <2>2. edit[c].id \in Live =>
          /\ cronJobs' \in [JobIds -> Job \union {NoJob}]
          /\ history' \in [JobIds -> 0..HistoryLimit]
          /\ Live' \subseteq used
    BY <1>3, RemovalTypes DEF ReplaceRemoves, Removed
  <2>. QED
    BY <1>2, <1>3, <2>1, <2>2 DEF ReplaceRemoves, Gives, CronTypeOK, Live
<1>4. CASE InsertJob(c)
  <2> DEFINE e == edit[c]
             row == [name |-> e.name, type |-> e.type, schedule |-> e.schedule,
                     nextRun |-> NextRun(e.schedule, now), enabled |-> TRUE]
  <2>1. row \in Job
    <3>1. e.name \in NameOrNone /\ e.type \in Types /\ e.schedule \in Schedules
      BY <1>1, <1>4, EditShape DEF InsertJob
    <3>2. NextRun(e.schedule, now) \in Nat
      BY <3>1, NextRunNat DEF CronTypeOK
    <3>. QED
      BY <3>1, <3>2 DEF Job
  <2>2. \/ UNCHANGED <<cronJobs, used>>
        \/ \E j \in JobIds \ used :
             cronJobs' = [cronJobs EXCEPT ![j] = row] /\ used' = used \union {j}
    BY <1>4 DEF InsertJob
  <2>3. /\ cronJobs' \in [JobIds -> Job \union {NoJob}]
        /\ used' \in SUBSET JobIds /\ Live' \subseteq used'
    <3> HIDE DEF row
    <3>1. CASE UNCHANGED <<cronJobs, used>>
      BY <3>1 DEF CronTypeOK, Live
    <3>2. ASSUME NEW j \in JobIds \ used,
                 cronJobs' = [cronJobs EXCEPT ![j] = row], used' = used \union {j}
          PROVE  /\ cronJobs' \in [JobIds -> Job \union {NoJob}]
                 /\ used' \in SUBSET JobIds /\ Live' \subseteq used'
      BY <2>1, <3>2 DEF CronTypeOK, Live
    <3>. QED BY <2>2, <3>1, <3>2
  <2>. QED
    BY <1>2, <1>4, <2>3 DEF InsertJob, Gives, CronTypeOK
<1>5. CASE PatchRead(c)
  <2>1. edit[c].id \in Live =>
          [pc |-> "write", id |-> edit[c].id,
           job |-> Patched(cronJobs[edit[c].id], edit[c].patch)] \in Edit
    <3>1. edit[c].patch \in Patch /\ edit[c].id \in JobIds
      BY <1>1, <1>5, EditShape DEF PatchRead
    <3>2. edit[c].id \in Live =>
            Patched(cronJobs[edit[c].id], edit[c].patch) \in Job
      BY <3>1, PatchedJob DEF CronTypeOK, Live
    <3>. QED
      BY <3>1, <3>2 DEF Edit
  <2>. QED
    BY <1>2, <1>5, <2>1 DEF PatchRead, Gives, CronTypeOK, Live
<1>6. CASE PatchWrite(c)
  <2>1. edit[c].id \in JobIds /\ edit[c].job \in Job
    BY <1>1, <1>6, EditShape DEF PatchWrite
  <2>2. edit[c].job.name \in NameOrNone
    BY <2>1 DEF Job
  <2>. QED
    BY <1>2, <1>6, <2>1, <2>2 DEF PatchWrite, Gives, CronTypeOK, Live
<1>. QED
  BY <1>3, <1>4, <1>5, <1>6 DEF EditStep

\* A run that goes on is a run.
LEMMA RunGoesOn ==
    ASSUME NEW r \in Run
    PROVE  /\ \A pc \in {"running", "deliver", "record", "finish"} :
                [r EXCEPT !.pc = pc] \in Run
           /\ r.tries < Retries => [r EXCEPT !.tries = @ + 1] \in Run
           /\ [r EXCEPT !.pc = "deliver", !.tries = 0] \in Run
<1>1. r = [id |-> r.id, job |-> r.job, tries |-> r.tries, pc |-> r.pc]
      /\ r.id \in JobIds /\ r.job \in Job /\ r.tries \in 0..Retries
      /\ r.pc \in {"running", "deliver", "record", "finish"}
  BY DEF Run
<1>2. r.tries + 1 \in Nat /\ 0 \in 0..Retries
  BY <1>1, CronAssumption
<1>3. \A q \in Run : [q EXCEPT !.tries = 0] \in Run
  BY <1>2 DEF Run
<1>4. [r EXCEPT !.pc = "deliver", !.tries = 0] \in Run
  <2>1. PICK q \in Run : q = [r EXCEPT !.pc = "deliver"]
    BY <1>1 DEF Run
  <2>2. [r EXCEPT !.pc = "deliver", !.tries = 0] = [q EXCEPT !.tries = 0]
    BY <2>1
  <2>. QED
    BY <1>3, <2>2
<1>5. /\ \A pc \in {"running", "deliver", "record", "finish"} :
            [r EXCEPT !.pc = pc] \in Run
      /\ r.tries < Retries => [r EXCEPT !.tries = @ + 1] \in Run
  BY <1>1, CronAssumption DEF Run
<1>. QED
  BY <1>4, <1>5

\* The rows that are due are rows, and a poll reads some of them.
LEMMA DueBatchTypes ==
    ASSUME CronTypeOK, NEW q \in DueBatches
    PROVE  /\ q \in Seq(Row) /\ Len(q) \in Nat \ {0}
           /\ \A a \in 1..Len(q) : q[a].id \in Live
                                   /\ q[a] = [id |-> q[a].id, job |-> cronJobs[q[a].id]]
           /\ \A a, b \in 1..Len(q) : a # b => q[a].id # q[b].id
<1>1. \A r \in DueRows : /\ r \in Row /\ r.id \in Live
                         /\ r = [id |-> r.id, job |-> cronJobs[r.id]]
  BY DEF DueRows, Due, Row, Live, CronTypeOK
<1>2. PICK n \in 1..MaxTasks : q \in [1..n -> DueRows]
  BY DEF DueBatches
<1>3. n \in Nat \ {0} /\ q \in Seq(DueRows) /\ Len(q) = n
  BY <1>2, CronAssumption
<1>4. \A a, b \in DOMAIN q : a < b => q[a] # q[b]
  BY DEF DueBatches
<1>5. q \in Seq(Row)
  <2>1. q \in [1..n -> Row]
    BY <1>1, <1>2
  <2>. QED
    BY <1>3, <2>1
<1>6. \A a \in 1..n : q[a] = [id |-> q[a].id, job |-> cronJobs[q[a].id]]
  BY <1>1, <1>2
<1>7. ASSUME NEW a \in 1..n, NEW b \in 1..n, a # b, q[a].id = q[b].id
      PROVE  FALSE
  <2>1. q[a] = q[b]
    BY <1>6, <1>7
  <2>2. a < b \/ b < a
    BY <1>3, <1>7
  <2>3. \A i, k \in 1..n : i < k => q[i] # q[k]
    BY <1>2, <1>4
  <2>. QED
    BY <2>1, <2>2, <2>3
<1>. QED
  BY <1>1, <1>2, <1>3, <1>5, <1>6, <1>7

\* The scheduler and the runs.
LEMMA RunTypes ==
    ASSUME CronTypeOK,
           \/ Poll
           \/ \E w \in Slots : StartRun(w)
           \/ \E w \in Runners, j \in JobIds : RunManually(w, j)
           \/ \E w \in Workers : RunStep(w) \/ FinishFails(w) \/ DropRun(w)
    PROVE  CronTypeOK'
<1> USE DEF tableVars, editVars, bounds
<1>1. CASE Poll
  BY <1>1, DueBatchTypes DEF Poll, CronTypeOK, Live
<1>2. ASSUME NEW w \in Workers, NEW row \in Row, StartsRun(w, row)
      PROVE  exec' \in [Workers -> Run \union {Nobody}]
  <2> DEFINE r == [id |-> row.id, job |-> row.job, tries |-> 0, pc |-> "running"]
  <2>1. r \in Run
    BY CronAssumption DEF Run, Row
  <2>2. exec' = [exec EXCEPT ![w] = r]
    BY <1>2 DEF StartsRun
  <2>. QED
    <3> HIDE DEF r
    <3>. QED BY <2>1, <2>2 DEF CronTypeOK
<1>3. CASE \E w \in Slots : StartRun(w)
  <2> PICK w \in Slots : StartRun(w)
    BY <1>3
  <2>1. Head(batch) \in Row /\ Tail(batch) \in Seq(Row)
    BY DEF StartRun, CronTypeOK
  <2>2. exec' \in [Workers -> Run \union {Nobody}]
    BY <1>2, <2>1 DEF StartRun, Workers
  <2>. QED
    BY <2>1, <2>2 DEF StartRun, CronTypeOK, Live
<1>4. CASE \E w \in Runners, j \in JobIds : RunManually(w, j)
  <2> PICK w \in Runners, j \in JobIds : RunManually(w, j)
    BY <1>4
  <2> DEFINE row == [id |-> j, job |-> cronJobs[j]]
  <2>1. row \in Row
    BY DEF RunManually, Row, Live, CronTypeOK
  <2>2. exec' \in [Workers -> Run \union {Nobody}]
    <3>1. StartsRun(w, row)
      BY DEF RunManually
    <3> HIDE DEF row
    <3>. QED BY <1>2, <2>1, <3>1 DEF Workers
  <2>. QED
    BY <2>2 DEF RunManually, CronTypeOK, Live
<1>5. ASSUME NEW w \in Workers, RunStep(w) \/ FinishFails(w) \/ DropRun(w)
      PROVE  CronTypeOK'
  <2>1. exec[w] \in Run
    BY <1>5 DEF RunStep, FinishFails, DropRun, AttemptFails, AttemptEnds, DeliverRun,
                RecordRun, FinishRun, InStep, CronTypeOK
  <2>2. exec[w].id \in JobIds /\ exec[w].job \in Job
    BY <2>1 DEF Run
  <2>3. /\ exec[w].job.schedule \in Schedules
        /\ NextRun(exec[w].job.schedule, now) \in Nat
    BY <2>2, NextRunNat DEF Job, CronTypeOK
  <2>4. CASE AttemptFails(w)
    <3>1. exec' = [exec EXCEPT ![w] = [exec[w] EXCEPT !.tries = @ + 1]]
      BY <2>4 DEF AttemptFails, CronTypeOK
    <3>2. [exec[w] EXCEPT !.tries = @ + 1] \in Run
      BY <2>1, <2>4, RunGoesOn DEF AttemptFails
    <3>3. exec' \in [Workers -> Run \union {Nobody}]
      BY <3>1, <3>2 DEF CronTypeOK
    <3>. QED
      BY <2>4, <3>3 DEF AttemptFails, CronTypeOK, Live
  <2>5. ASSUME NEW pc \in {"running", "deliver", "record", "finish"}, Goes(w, pc)
        PROVE  exec' \in [Workers -> Run \union {Nobody}]
    <3>1. exec' = [exec EXCEPT ![w] = [exec[w] EXCEPT !.pc = pc]]
      BY <2>5 DEF Goes, CronTypeOK
    <3>2. [exec[w] EXCEPT !.pc = pc] \in Run
      BY <2>1, RunGoesOn
    <3>. QED
      BY <3>1, <3>2 DEF CronTypeOK
  <2>6. RunOver(w) => exec' \in [Workers -> Run \union {Nobody}]
    BY DEF RunOver, CronTypeOK
  <2>7. CASE AttemptEnds(w)
    <3>1. exec' = [exec EXCEPT ![w] = [exec[w] EXCEPT !.pc = "deliver", !.tries = 0]]
      BY <2>7 DEF AttemptEnds, CronTypeOK
    <3>2. [exec[w] EXCEPT !.pc = "deliver", !.tries = 0] \in Run
      BY <2>1, RunGoesOn
    <3>3. exec' \in [Workers -> Run \union {Nobody}]
      BY <3>1, <3>2 DEF CronTypeOK
    <3>. QED
      BY <2>7, <3>3 DEF AttemptEnds, CronTypeOK, Live
  <2>8. CASE DeliverRun(w)
    <3>1. sent' \in [JobIds -> [Schedules -> Nat]]
      <4> DEFINE j == exec[w].id
                 s == exec[w].job.schedule
      <4>1. sent[j] \in [Schedules -> Nat] /\ sent[j][s] + 1 \in Nat
        BY <2>2, <2>3 DEF CronTypeOK
      <4>2. \/ sent' = sent
            \/ sent' = [sent EXCEPT ![j] = [sent[j] EXCEPT ![s] = @ + 1]]
        BY <2>2, <2>8 DEF DeliverRun, CronTypeOK
      <4>3. [sent[j] EXCEPT ![s] = @ + 1] \in [Schedules -> Nat]
        BY <4>1
      <4> HIDE DEF j, s
      <4>. QED
        BY <4>2, <4>3 DEF CronTypeOK
    <3>. QED
      BY <2>5, <2>8, <3>1 DEF DeliverRun, CronTypeOK, Live
  <2>9. CASE RecordRun(w)
    <3>1. history' \in [JobIds -> 0..HistoryLimit]
      BY <2>2, <2>9, CronAssumption DEF RecordRun, CronTypeOK
    <3>. QED
      BY <2>5, <2>9, <3>1 DEF RecordRun, CronTypeOK, Live
  <2>10. CASE FinishRun(w)
    <3>1. /\ cronJobs' \in [JobIds -> Job \union {NoJob}]
          /\ history' \in [JobIds -> 0..HistoryLimit]
          /\ Live' \subseteq used
      <4>1. CASE \/ exec[w].id \notin Live
                 \/ ~OneShot(exec[w].job) /\ ~HasNext(exec[w].job.schedule, now)
        BY <2>10, <4>1 DEF FinishRun, CronTypeOK, Live
      <4>2. CASE exec[w].id \in Live /\ OneShot(exec[w].job)
        BY <2>10, <4>2, RemovalTypes DEF FinishRun, Removed
      <4>3. CASE /\ exec[w].id \in Live /\ ~OneShot(exec[w].job)
                 /\ HasNext(exec[w].job.schedule, now)
        <5> DEFINE j == exec[w].id
                   t == NextRun(exec[w].job.schedule, now)
        <5>1. cronJobs' = [cronJobs EXCEPT ![j] = [cronJobs[j] EXCEPT !.nextRun = t]]
              /\ history' = history
          BY <2>10, <4>3 DEF FinishRun, CronTypeOK
        <5>2. [cronJobs[j] EXCEPT !.nextRun = t] \in Job
          BY <2>3, <4>3 DEF CronTypeOK, Live, Job
        <5>. QED
          <6> HIDE DEF t
          <6>. QED BY <4>3, <5>1, <5>2 DEF CronTypeOK, Live
      <4>. QED
        BY <4>1, <4>2, <4>3
    <3>. QED
      BY <2>6, <2>10, <3>1 DEF FinishRun, CronTypeOK
  <2>11. CASE FinishFails(w)
    BY <2>6, <2>11 DEF FinishFails, CronTypeOK, Live
  <2>12. CASE DropRun(w)
    BY <2>6, <2>12 DEF DropRun, CronTypeOK, Live
  <2>. QED
    BY <1>5, <2>4, <2>7, <2>8, <2>9, <2>10, <2>11, <2>12 DEF RunStep
<1>. QED
  BY <1>1, <1>3, <1>4, <1>5

\* The rest: removals, restarts, time.
LEMMA OtherTypes ==
    ASSUME CronTypeOK,
           \/ \E j \in JobIds : RemoveById(j)
           \/ \E n \in Names : RemoveByName(n)
           \/ Crash \/ Tick \/ UNCHANGED cronVars
    PROVE  CronTypeOK'
<1> USE DEF tableVars, runVars, editVars, bounds
<1>1. CASE \E j \in JobIds : RemoveById(j)
  <2> PICK j \in JobIds : RemoveById(j)
    BY <1>1
  <2>1. /\ cronJobs' \in [JobIds -> Job \union {NoJob}]
        /\ history' \in [JobIds -> 0..HistoryLimit]
        /\ Live' \subseteq used
    BY RemovalTypes DEF RemoveById, Removed
  <2>. QED
    BY <2>1 DEF RemoveById, CronTypeOK
<1>2. CASE \E n \in Names : RemoveByName(n)
  <2> PICK n \in Names : RemoveByName(n)
    BY <1>2
  <2>1. history' \in [JobIds -> 0..HistoryLimit]
    BY CascadedType DEF RemoveByName
  <2>2. cronJobs' \in [JobIds -> Job \union {NoJob}] /\ Live' \subseteq used
    BY DEF RemoveByName, CronTypeOK, Live
  <2>. QED
    BY <2>1, <2>2 DEF RemoveByName, CronTypeOK
<1>3. CASE Crash
  BY <1>3, EmptySeq DEF Crash, CronTypeOK, Live
<1>4. CASE Tick
  BY <1>4 DEF Tick, CronTypeOK, Live
<1>5. CASE UNCHANGED cronVars
  BY <1>5 DEF cronVars, CronTypeOK, Live
<1>. QED
  BY <1>1, <1>2, <1>3, <1>4, <1>5

\* Every step keeps the types.
LEMMA StepTypes == CronTypeOK /\ [CronNext]_cronVars => CronTypeOK'
BY BeginTypes, EditTypes, RunTypes, OtherTypes DEF CronNext

\* Rows live only under ids that were handed out, and every edit and run works
\* on a row of the table's shape.
THEOREM CronTypes == CronSpec => []CronTypeOK
BY InitTypes, StepTypes, PTL DEF CronSpec

-----------------------------------------------------------------------------
(* Rows that are gone                                                      *)

\* What a step does to a row: a row that is not there comes into being only
\* under a new id, and an id without a row has no history.
RowsMove ==
    \A j \in JobIds :
        /\ j \in used /\ cronJobs[j] = NoJob => cronJobs'[j] = NoJob
        /\ cronJobs'[j] = NoJob =>
              history'[j] = 0 \/ (cronJobs[j] = NoJob /\ history'[j] = history[j])

\* Removing a row takes its history with it.
LEMMA RemovalMoves ==
    ASSUME CronTypeOK, NEW j \in Live,
           cronJobs' = [cronJobs EXCEPT ![j] = NoJob], history' = Cascaded({j})
    PROVE  RowsMove
BY DEF RowsMove, Cascaded, CronTypeOK

\* What an editor or a CLI process does moves the rows as allowed.
LEMMA EditMoves ==
    ASSUME CronTypeOK, NEW c \in Callers, EditStep(c)
    PROVE  RowsMove
<1> USE DEF tableVars
<1>1. edit[c] \in Edit
  BY DEF EditStep, ReplaceRemoves, InsertJob, PatchRead, PatchWrite, CronTypeOK
<1>2. CASE ReplaceRemoves(c)
  <2>1. CASE edit[c].id \in Live
    BY <1>2, <2>1, RemovalMoves DEF ReplaceRemoves, Removed
  <2>2. CASE edit[c].id \notin Live
    BY <1>2, <2>2 DEF ReplaceRemoves, RowsMove
  <2>. QED
    BY <2>1, <2>2
<1>3. CASE InsertJob(c)
  <2> DEFINE row == [name |-> edit[c].name, type |-> edit[c].type,
                     schedule |-> edit[c].schedule,
                     nextRun |-> NextRun(edit[c].schedule, now), enabled |-> TRUE]
  <2>1. row \in Job
    <3>1. edit[c].name \in NameOrNone /\ edit[c].type \in Types
          /\ edit[c].schedule \in Schedules
      BY <1>1, <1>3, EditShape DEF InsertJob
    <3>. QED
      BY <3>1, NextRunNat DEF Job, CronTypeOK
  <2>2. \/ UNCHANGED <<cronJobs, used>>
        \/ \E j \in JobIds \ used : cronJobs' = [cronJobs EXCEPT ![j] = row]
    BY <1>3 DEF InsertJob
  <2>3. history' = history
    BY <1>3 DEF InsertJob
  <2>. QED
    <3> HIDE DEF row
    <3>. QED BY <2>1, <2>2, <2>3, TableAssumption DEF RowsMove, CronTypeOK
<1>4. CASE PatchRead(c)
  BY <1>4 DEF PatchRead, RowsMove
<1>5. CASE PatchWrite(c)
  <2>1. edit[c].id \in JobIds /\ edit[c].job \in Job
    BY <1>1, <1>5, EditShape DEF PatchWrite
  <2>. QED
    BY <1>5, <2>1, TableAssumption DEF PatchWrite, RowsMove, CronTypeOK, Live
<1>. QED
  BY <1>2, <1>3, <1>4, <1>5 DEF EditStep

\* The last statement of a run moves the rows as allowed.
LEMMA FinishMoves ==
    ASSUME CronTypeOK, NEW w \in Workers, FinishRun(w)
    PROVE  RowsMove
<1>1. CASE \/ exec[w].id \notin Live
           \/ ~OneShot(exec[w].job) /\ ~HasNext(exec[w].job.schedule, now)
  BY <1>1 DEF FinishRun, RowsMove
<1>2. CASE exec[w].id \in Live /\ OneShot(exec[w].job)
  BY <1>2, RemovalMoves DEF FinishRun, Removed
<1>3. CASE /\ exec[w].id \in Live /\ ~OneShot(exec[w].job)
           /\ HasNext(exec[w].job.schedule, now)
  <2> DEFINE j == exec[w].id
             t == NextRun(exec[w].job.schedule, now)
  <2>1. cronJobs' = [cronJobs EXCEPT ![j] = [cronJobs[j] EXCEPT !.nextRun = t]]
        /\ history' = history
    BY <1>3 DEF FinishRun, CronTypeOK
  <2>2. exec[w] \in Run
    BY DEF FinishRun, InStep, CronTypeOK
  <2>3. t \in Nat
    BY <2>2, NextRunNat DEF Run, Job, CronTypeOK
  <2>4. [cronJobs[j] EXCEPT !.nextRun = t] \in Job
    BY <1>3, <2>3 DEF CronTypeOK, Live, Job
  <2>5. j \in JobIds /\ cronJobs[j] # NoJob
    BY <1>3 DEF Live
  <2>. QED
    <3> HIDE DEF j, t
    <3>1. cronJobs'[j] # NoJob
      <4>1. cronJobs'[j] \in Job
        BY <2>1, <2>4, <2>5 DEF CronTypeOK
      <4>. QED
        BY <4>1, TableAssumption
    <3>2. \A i \in JobIds : i # j => cronJobs'[i] = cronJobs[i]
      BY <2>1 DEF CronTypeOK
    <3>. QED BY <2>1, <2>5, <3>1, <3>2 DEF RowsMove
<1>. QED
  BY <1>1, <1>2, <1>3

\* Every step moves the rows as allowed.
LEMMA StepMoves ==
    ASSUME CronTypeOK, [CronNext]_cronVars
    PROVE  RowsMove
<1> USE DEF tableVars
<1>1. CASE \E c \in Callers : EditStep(c)
  BY <1>1, EditMoves
<1>2. CASE \E w \in Workers : RunStep(w)
  <2> PICK w \in Workers : RunStep(w)
    BY <1>2
  <2>1. CASE RecordRun(w)
    <3>1. history' = history \/ (exec[w].id \in Live
              /\ history' = [history EXCEPT ![exec[w].id] = @ + 1])
      BY <2>1 DEF RecordRun
    <3>. QED
      BY <2>1, <3>1 DEF RecordRun, RowsMove, CronTypeOK, Live
  <2>2. CASE FinishRun(w)
    BY <2>2, FinishMoves
  <2>3. CASE AttemptFails(w) \/ AttemptEnds(w) \/ DeliverRun(w)
    BY <2>3 DEF AttemptFails, AttemptEnds, DeliverRun, RowsMove
  <2>. QED
    BY <2>1, <2>2, <2>3 DEF RunStep
<1>3. CASE \E j \in JobIds : RemoveById(j)
  BY <1>3, RemovalMoves DEF RemoveById, Removed
<1>4. CASE \E n \in Names : RemoveByName(n)
  BY <1>4 DEF RemoveByName, Cascaded, RowsMove
<1>5. CASE \/ \E c \in Editors : Add(c)
           \/ \E c \in Editors, j \in JobIds, p \in Patches : PatchBegins(c, j, p)
           \/ \E c \in CliUsers, j \in JobIds, p \in Patches : CliBegins(c, j, p)
  BY <1>5 DEF Add, AddNew, AddKnown, AddReplacing, PatchBegins, CliBegins, RowsMove
<1>6. CASE \/ Poll
           \/ \E w \in Slots : StartRun(w)
           \/ \E w \in Runners, j \in JobIds : RunManually(w, j)
           \/ \E w \in Workers : FinishFails(w) \/ DropRun(w)
           \/ Crash \/ Tick \/ UNCHANGED cronVars
  BY <1>6 DEF Poll, StartRun, RunManually, FinishFails, DropRun, Crash, Tick, cronVars,
              RowsMove
<1>. QED
  BY <1>1, <1>2, <1>3, <1>4, <1>5, <1>6 DEF CronNext

\* No removed job comes back, whatever patch or run of it is under way.
THEOREM CronRemoved == CronSpec => RemovedStaysRemoved
<1>1. CronTypeOK /\ [CronNext]_cronVars =>
        [\A j \in used : cronJobs[j] = NoJob => cronJobs'[j] = NoJob]_cronVars
  BY StepMoves DEF RowsMove, CronTypeOK
<1>. QED
  BY <1>1, CronTypes, PTL DEF CronSpec, RemovedStaysRemoved

\* No history outlives its job.
THEOREM CronHistory == CronSpec => []HistoryFollowsJobs
<1>1. CronInit => HistoryFollowsJobs
  BY DEF CronInit, HistoryFollowsJobs
<1>2. CronTypeOK /\ HistoryFollowsJobs /\ [CronNext]_cronVars => HistoryFollowsJobs'
  BY StepMoves DEF RowsMove, HistoryFollowsJobs, Live
<1>. QED
  BY <1>1, <1>2, CronTypes, PTL DEF CronSpec

-----------------------------------------------------------------------------
(* Runs                                                                    *)

\* What the runs of the scheduler do to each other: a slot goes on with the
\* job it has, or becomes idle.
SlotsKeep ==
    /\ batch' = batch
    /\ \A w \in Slots : exec'[w] # Nobody =>
            exec[w] # Nobody /\ exec'[w].id = exec[w].id

\* Runs that are only taken from the batch and ended stay apart.
LEMMA SlotsKeepApart ==
    ASSUME RunsApart, SlotsKeep
    PROVE  RunsApart'
BY DEF RunsApart, SlotsKeep

\* A step of a run, its end or its loss leaves the batch and the other slots.
LEMMA RunStepKeeps ==
    ASSUME CronTypeOK, NEW w \in Workers,
           RunStep(w) \/ FinishFails(w) \/ DropRun(w)
    PROVE  SlotsKeep
<1>1. exec[w] \in Run
  BY DEF RunStep, FinishFails, DropRun, AttemptFails, AttemptEnds, DeliverRun,
         RecordRun, FinishRun, InStep, CronTypeOK
<1>2. exec \in [Workers -> Run \union {Nobody}] /\ Slots \subseteq Workers
  BY DEF CronTypeOK, Workers
<1>3. batch' = batch
  BY DEF RunStep, FinishFails, DropRun, AttemptFails, AttemptEnds, DeliverRun,
         RecordRun, FinishRun
<1>4. \/ exec' = [exec EXCEPT ![w] = [exec[w] EXCEPT !.tries = @ + 1]]
      \/ exec' = [exec EXCEPT ![w] = [exec[w] EXCEPT !.pc = "deliver", !.tries = 0]]
      \/ \E pc \in {"running", "deliver", "record", "finish"} :
            exec' = [exec EXCEPT ![w] = [exec[w] EXCEPT !.pc = pc]]
      \/ exec' = [exec EXCEPT ![w] = Nobody]
  BY <1>2 DEF RunStep, FinishFails, DropRun, AttemptFails, AttemptEnds, DeliverRun,
         RecordRun, FinishRun, Goes, RunOver
<1>5. \E r : exec' = [exec EXCEPT ![w] = r] /\ (r = Nobody \/ r.id = exec[w].id)
  <2>1. [exec[w] EXCEPT !.tries = @ + 1].id = exec[w].id
    BY <1>1 DEF Run
  <2>2. /\ \A pc : [exec[w] EXCEPT !.pc = pc].id = exec[w].id
        /\ [exec[w] EXCEPT !.pc = "deliver", !.tries = 0].id = exec[w].id
    BY <1>1 DEF Run
  <2>. QED
    BY <1>4, <2>1, <2>2
<1>6. exec[w] # Nobody
  BY <1>1, TableAssumption
<1>. QED
  BY <1>2, <1>3, <1>5, <1>6 DEF SlotsKeep

\* Every step keeps the runs of a job apart.
LEMMA StepApart ==
    ASSUME CronTypeOK, RunsApart, [CronNext]_cronVars
    PROVE  RunsApart'
<1> USE DEF runVars
<1>1. CASE Poll
  <2>1. batch' \in DueBatches /\ exec' = exec
    BY <1>1 DEF Poll
  <2>2. DOMAIN batch' = 1..Len(batch')
    BY <2>1, DueBatchTypes
  <2>3. \A a, b \in 1..Len(batch') : a # b => batch'[a].id # batch'[b].id
    BY <2>1, DueBatchTypes
  <2>4. \A w \in Slots : exec'[w] = Nobody
    BY <1>1, <2>1 DEF Poll, Idle
  <2>. QED
    BY <2>2, <2>3, <2>4 DEF RunsApart
<1>2. CASE \E w \in Slots : StartRun(w)
  <2> PICK w \in Slots : StartRun(w)
    BY <1>2
  <2>1. batch \in Seq(Row) /\ batch # <<>>
    BY DEF StartRun, CronTypeOK
  <2>2. /\ Head(batch) = batch[1] /\ 1 \in DOMAIN batch
        /\ \A a \in DOMAIN batch' :
              a + 1 \in DOMAIN batch /\ a + 1 # 1 /\ batch'[a] = batch[a + 1]
        /\ \A a, b \in DOMAIN batch' : a # b => a + 1 # b + 1
    BY <2>1 DEF StartRun
  <2>3. \A v \in Slots : exec'[v] # Nobody =>
          IF v = w THEN exec'[v].id = batch[1].id
          ELSE exec[v] # Nobody /\ exec'[v].id = exec[v].id
    BY <2>2 DEF StartRun, StartsRun, CronTypeOK, Workers
  <2>4. \A u, v \in Slots : u # v /\ exec'[u] # Nobody /\ exec'[v] # Nobody
          => exec'[u].id # exec'[v].id
    BY <2>2, <2>3 DEF RunsApart
  <2>5. \A a, b \in DOMAIN batch' : a # b => batch'[a].id # batch'[b].id
    BY <2>2 DEF RunsApart
  <2>6. \A v \in Slots, a \in DOMAIN batch' :
          exec'[v] # Nobody => exec'[v].id # batch'[a].id
    BY <2>2, <2>3 DEF RunsApart
  <2>. QED
    BY <2>4, <2>5, <2>6 DEF RunsApart
<1>3. CASE \E w \in Runners, j \in JobIds : RunManually(w, j)
  <2>1. SlotsKeep
    BY <1>3, CronAssumption DEF RunManually, StartsRun, SlotsKeep, CronTypeOK, Workers
  <2>. QED
    BY <2>1, SlotsKeepApart
<1>4. CASE \E w \in Workers : RunStep(w) \/ FinishFails(w) \/ DropRun(w)
  BY <1>4, RunStepKeeps, SlotsKeepApart
<1>5. CASE Crash
  <2>1. batch' = <<>> /\ \A w \in Slots : exec'[w] = Nobody
    BY <1>5 DEF Crash, Workers
  <2>. QED
    BY <2>1 DEF RunsApart
<1>6. CASE UNCHANGED runVars
  BY <1>6 DEF RunsApart
<1>7. \/ \E c \in Editors : Add(c)
      \/ \E c \in Editors, j \in JobIds, p \in Patches : PatchBegins(c, j, p)
      \/ \E c \in CliUsers, j \in JobIds, p \in Patches : CliBegins(c, j, p)
      => UNCHANGED runVars
  BY DEF Add, AddNew, AddKnown, AddReplacing, PatchBegins, CliBegins
<1>8. (\E c \in Callers : EditStep(c)) => UNCHANGED runVars
  BY DEF EditStep, ReplaceRemoves, InsertJob, PatchRead, PatchWrite
<1>9. \/ \E j \in JobIds : RemoveById(j)
      \/ \E n \in Names : RemoveByName(n)
      \/ Tick \/ UNCHANGED cronVars
      => UNCHANGED runVars
  BY DEF RemoveById, RemoveByName, Tick, cronVars
<1>. QED
  BY <1>1, <1>2, <1>3, <1>4, <1>5, <1>6, <1>7, <1>8, <1>9 DEF CronNext

\* The scheduler never has one job in hand twice.
THEOREM CronRunsApart == CronSpec => []RunsApart
<1>1. CronInit => RunsApart
  BY DEF CronInit, RunsApart, Workers
<1>. QED
  BY <1>1, StepApart, CronTypes, PTL DEF CronSpec

-----------------------------------------------------------------------------
(* One-shots                                                               *)

\* The manual runs of a job that have yet to deliver.
Undelivered(j) ==
    {w \in Runners : /\ exec[w] # Nobody /\ exec[w].id = j
                     /\ exec[w].pc \in {"running", "deliver"}}

\* The scheduler will not deliver a one-shot of job j again unless something
\* fails: the job is gone, or a run that has delivered will remove it.
ThroughWith(j) ==
    /\ \A a \in DOMAIN batch : batch[a].id # j
    /\ \A w \in Slots : exec[w] # Nobody /\ exec[w].id = j =>
          exec[w].pc \in {"record", "finish"}
    /\ j \in Live => \E w \in Slots :
          exec[w] # Nobody /\ exec[w].id = j /\ OneShot(exec[w].job)

\* What was delivered and what manual runs may still deliver is paid for by a
\* fault, a manual run, or by the job being through.
Paid(j, s) ==
    /\ IsFiniteSet(Undelivered(j))
    /\ sent[j][s] + Cardinality(Undelivered(j))
         <= faults + manual + (IF ThroughWith(j) THEN 1 ELSE 0)

ShotsPaid ==
    \A j \in JobIds, s \in Schedules : s.kind = "at" => Paid(j, s)

\* Nothing has happened yet to an id that was not handed out.
Untouched(j) ==
    /\ \A s \in Schedules : sent[j][s] = 0
    /\ \A w \in Workers : exec[w] # Nobody => exec[w].id # j
    /\ \A a \in DOMAIN batch : batch[a].id # j

FreshUntouched == \A j \in JobIds \ used : Untouched(j)

\* What one step of the run in w does to that run.
Moved(w, from, to) ==
    /\ exec[w] \in Run /\ exec[w] # Nobody /\ exec[w].pc \in from
    /\ exec'[w] # Nobody /\ exec'[w].pc \in to
    /\ exec'[w].id = exec[w].id /\ exec'[w].job = exec[w].job

Others(w) == \A v \in Workers \ {w} : exec'[v] = exec[v]

\* What a step of a run may change: its own place, a delivery, the table at its
\* end.
LEMMA RunMoves ==
    ASSUME CronTypeOK, NEW w \in Workers, RunStep(w)
    PROVE  /\ Others(w) /\ batch' = batch
           /\ faults' = faults /\ manual' = manual /\ used' = used
           /\ \/ /\ Moved(w, {"running"}, {"running", "deliver"})
                 /\ sent' = sent
              \/ DeliverRun(w) /\ Moved(w, {"deliver"}, {"record"})
              \/ /\ Moved(w, {"record"}, {"finish"})
                 /\ sent' = sent
              \/ /\ FinishRun(w)
                 /\ exec[w] \in Run /\ exec[w].pc = "finish"
                 /\ exec'[w] = Nobody /\ sent' = sent
<1> USE DEF tableVars, editVars, bounds
<1>1. exec[w] \in Run /\ exec[w] # Nobody
  BY TableAssumption DEF RunStep, AttemptFails, AttemptEnds, DeliverRun,
     RecordRun, FinishRun, InStep, CronTypeOK
<1>2. exec \in [Workers -> Run \union {Nobody}]
  BY DEF CronTypeOK
<1>3. ASSUME NEW r \in Run, exec' = [exec EXCEPT ![w] = r],
             r.id = exec[w].id, r.job = exec[w].job
      PROVE  /\ Others(w) /\ exec'[w] # Nobody
             /\ exec'[w].id = exec[w].id /\ exec'[w].job = exec[w].job
             /\ exec'[w].pc = r.pc
  BY <1>2, <1>3, TableAssumption DEF Others
<1>4. ASSUME NEW pc \in {"running", "deliver", "record", "finish"}
      PROVE  [exec[w] EXCEPT !.pc = pc] \in Run
             /\ [exec[w] EXCEPT !.pc = pc].id = exec[w].id
             /\ [exec[w] EXCEPT !.pc = pc].job = exec[w].job
             /\ [exec[w] EXCEPT !.pc = pc].pc = pc
  BY <1>1, RunGoesOn DEF Run
<1>5. CASE AttemptFails(w)
  <2> DEFINE r == [exec[w] EXCEPT !.tries = @ + 1]
  <2>1. exec[w].pc = "running" /\ exec' = [exec EXCEPT ![w] = r]
        /\ exec[w].tries < Retries
    BY <1>5 DEF AttemptFails, InStep
  <2>2. r \in Run /\ r.id = exec[w].id /\ r.job = exec[w].job /\ r.pc = "running"
    BY <1>1, <2>1, RunGoesOn DEF Run
  <2>3. Others(w) /\ Moved(w, {"running"}, {"running", "deliver"})
    <3> HIDE DEF r
    <3>. QED BY <1>1, <1>3, <2>1, <2>2 DEF Moved
  <2>. QED
    BY <1>5, <2>3 DEF AttemptFails
<1>6. CASE AttemptEnds(w)
  <2> DEFINE r == [exec[w] EXCEPT !.pc = "deliver", !.tries = 0]
  <2>1. exec[w].pc = "running" /\ exec' = [exec EXCEPT ![w] = r]
    BY <1>2, <1>6 DEF AttemptEnds, InStep
  <2>2. r \in Run /\ r.id = exec[w].id /\ r.job = exec[w].job /\ r.pc = "deliver"
    BY <1>1, RunGoesOn DEF Run
  <2>3. Others(w) /\ Moved(w, {"running"}, {"running", "deliver"})
    <3> HIDE DEF r
    <3>. QED BY <1>1, <1>3, <2>1, <2>2 DEF Moved
  <2>. QED
    BY <1>6, <2>3 DEF AttemptEnds
<1>7. CASE DeliverRun(w)
  <2>1. exec[w].pc = "deliver"
        /\ exec' = [exec EXCEPT ![w] = [exec[w] EXCEPT !.pc = "record"]]
    BY <1>2, <1>7 DEF DeliverRun, InStep, Goes
  <2>2. Others(w) /\ Moved(w, {"deliver"}, {"record"})
    BY <1>1, <1>3, <1>4, <2>1 DEF Moved
  <2>. QED
    BY <1>7, <2>2 DEF DeliverRun
<1>8. CASE RecordRun(w)
  <2>1. exec[w].pc = "record"
        /\ exec' = [exec EXCEPT ![w] = [exec[w] EXCEPT !.pc = "finish"]]
    BY <1>2, <1>8 DEF RecordRun, InStep, Goes
  <2>2. Others(w) /\ Moved(w, {"record"}, {"finish"})
    BY <1>1, <1>3, <1>4, <2>1 DEF Moved
  <2>. QED
    BY <1>8, <2>2 DEF RecordRun
<1>9. CASE FinishRun(w)
  BY <1>1, <1>2, <1>9 DEF FinishRun, InStep, RunOver, Others
<1>. QED
  BY <1>5, <1>6, <1>7, <1>8, <1>9 DEF RunStep

\* The steps that concern neither the runs nor the bounds a one-shot is paid
\* from.
QuietStep ==
    UNCHANGED runVars /\ faults' = faults /\ manual' = manual

\* The kinds of steps, as far as deliveries are concerned.
LEMMA StepKinds ==
    ASSUME [CronNext]_cronVars
    PROVE  \/ Poll
           \/ \E w \in Slots : StartRun(w)
           \/ \E w \in Runners, j \in JobIds : RunManually(w, j)
           \/ \E w \in Workers : RunStep(w) \/ FinishFails(w) \/ DropRun(w)
           \/ Crash
           \/ QuietStep
<1> USE DEF QuietStep, runVars, bounds
<1>1. \/ \E c \in Editors : Add(c)
      \/ \E c \in Editors, j \in JobIds, p \in Patches : PatchBegins(c, j, p)
      \/ \E c \in CliUsers, j \in JobIds, p \in Patches : CliBegins(c, j, p)
      => QuietStep
  BY DEF Add, AddNew, AddKnown, AddReplacing, PatchBegins, CliBegins
<1>2. (\E c \in Callers : EditStep(c)) => QuietStep
  BY DEF EditStep, ReplaceRemoves, InsertJob, PatchRead, PatchWrite
<1>3. \/ \E j \in JobIds : RemoveById(j)
      \/ \E n \in Names : RemoveByName(n)
      \/ Tick \/ UNCHANGED cronVars
      => QuietStep
  BY DEF RemoveById, RemoveByName, Tick, cronVars
<1>. QED
  BY <1>1, <1>2, <1>3 DEF CronNext

\* A run that ends without a trace in the table.
LEMMA RunDropped ==
    ASSUME CronTypeOK, NEW w \in Workers, FinishFails(w) \/ DropRun(w)
    PROVE  /\ Others(w) /\ exec'[w] = Nobody /\ batch' = batch /\ sent' = sent
           /\ cronJobs' = cronJobs /\ manual' = manual
           /\ FinishFails(w) => faults' = faults + 1
           /\ DropRun(w) => w \in Runners /\ faults' = faults
BY DEF FinishFails, DropRun, RunOver, Others, CronTypeOK, tableVars, bounds

\* A fresh id is touched by no step, though it may be handed out.
LEMMA StepUntouched ==
    ASSUME CronTypeOK, FreshUntouched, [CronNext]_cronVars, NEW j \in JobIds \ used
    PROVE  Untouched(j)'
<1>1. Untouched(j) /\ j \notin Live
  BY DEF FreshUntouched, CronTypeOK
<1>2. CASE Poll
  <2>1. batch' \in DueBatches /\ exec' = exec /\ sent' = sent
    BY <1>2 DEF Poll
  <2>2. DOMAIN batch' = 1..Len(batch')
    BY <2>1, DueBatchTypes
  <2>3. \A a \in 1..Len(batch') : batch'[a].id \in Live
    BY <2>1, DueBatchTypes
  <2>. QED
    BY <1>1, <2>1, <2>2, <2>3 DEF Untouched
<1>3. CASE \E w \in Slots : StartRun(w)
  <2> PICK w \in Slots : StartRun(w)
    BY <1>3
  <2>1. batch \in Seq(Row) /\ batch # <<>> /\ sent' = sent
    BY DEF StartRun, CronTypeOK
  <2>2. /\ Head(batch) = batch[1] /\ 1 \in DOMAIN batch
        /\ \A a \in DOMAIN batch' :
              a + 1 \in DOMAIN batch /\ batch'[a] = batch[a + 1]
    BY <2>1 DEF StartRun
  <2>3. \A v \in Workers : exec'[v] # Nobody =>
          IF v = w THEN exec'[v].id = batch[1].id ELSE exec'[v] = exec[v]
    BY <2>2 DEF StartRun, StartsRun, CronTypeOK, Workers
  <2>. QED
    BY <1>1, <2>1, <2>2, <2>3 DEF Untouched
<1>4. CASE \E w \in Runners, i \in JobIds : RunManually(w, i)
  <2> PICK w \in Runners, i \in JobIds : RunManually(w, i)
    BY <1>4
  <2>1. i \in Live /\ batch' = batch /\ sent' = sent
    BY DEF RunManually
  <2>2. \A v \in Workers : exec'[v] # Nobody =>
          IF v = w THEN exec'[v].id = i ELSE exec'[v] = exec[v]
    BY DEF RunManually, StartsRun, CronTypeOK, Workers
  <2>. QED
    BY <1>1, <2>1, <2>2 DEF Untouched
<1>5. CASE \E w \in Workers : RunStep(w)
  <2> PICK w \in Workers : RunStep(w)
    BY <1>5
  <2>1. batch' = batch /\ Others(w)
    BY RunMoves
  <2>2. exec'[w] = Nobody \/ (exec[w] # Nobody /\ exec'[w].id = exec[w].id)
    BY RunMoves DEF Moved
  <2>3. sent' = sent \/ (DeliverRun(w) /\ exec[w] # Nobody)
    BY RunMoves DEF Moved
  <2>4. \A s \in Schedules : sent'[j][s] = sent[j][s]
    <3>1. CASE DeliverRun(w) /\ exec[w] # Nobody
      <4>1. exec[w].id # j
        BY <1>1, <3>1 DEF Untouched
      <4>. QED
        BY <3>1, <4>1 DEF DeliverRun, CronTypeOK
    <3>. QED
      BY <2>3, <3>1
  <2>. QED
    BY <1>1, <2>1, <2>2, <2>4 DEF Untouched, Others
<1>6. CASE \E w \in Workers : FinishFails(w) \/ DropRun(w)
  BY <1>1, <1>6, RunDropped DEF Untouched, Others
<1>7. CASE Crash
  BY <1>1, <1>7 DEF Crash, Untouched
<1>8. CASE QuietStep
  BY <1>1, <1>8 DEF QuietStep, runVars, Untouched
<1>. QED
  BY <1>2, <1>3, <1>4, <1>5, <1>6, <1>7, <1>8, StepKinds

\* A step that adds neither a delivery nor a run keeps the account, and a fault
\* pays for what it reopens.
LEMMA PaidKept ==
    ASSUME CronTypeOK, NEW j \in JobIds, NEW s \in Schedules, Paid(j, s),
           Undelivered(j)' \subseteq Undelivered(j),
           sent'[j][s] = sent[j][s], manual' = manual,
           \/ faults' = faults + 1
           \/ faults' = faults /\ (ThroughWith(j) => ThroughWith(j)')
    PROVE  Paid(j, s)'
<1> DEFINE U == Undelivered(j)
           V == Undelivered(j)'
<1>1. /\ IsFiniteSet(U) /\ IsFiniteSet(V)
      /\ Cardinality(U) \in Nat /\ Cardinality(V) \in Nat
      /\ Cardinality(V) <= Cardinality(U)
  BY FS_Subset, FS_CardinalityType DEF Paid
<1>2. sent[j][s] \in Nat /\ faults \in Nat /\ manual \in Nat
  BY DEF CronTypeOK
<1>3. sent[j][s] + Cardinality(U) <= faults + manual + (IF ThroughWith(j) THEN 1 ELSE 0)
  BY DEF Paid
<1> HIDE DEF U, V
<1>4. sent'[j][s] + Cardinality(V)
        <= faults' + manual' + (IF ThroughWith(j)' THEN 1 ELSE 0)
  BY <1>1, <1>2, <1>3
<1>. QED
  BY <1>1, <1>4 DEF Paid, U, V

\* A step of a run that does not deliver: nothing more is owed, and the job
\* stays through with.
LEMMA RunKeepsPaid ==
    ASSUME CronTypeOK, RunsApart, NEW w \in Workers, RunStep(w), ~DeliverRun(w),
           NEW j \in JobIds, NEW s \in Schedules, Paid(j, s),
           j \notin Live => j \notin Live'
    PROVE  Paid(j, s)'
<1>1. /\ Others(w) /\ batch' = batch /\ faults' = faults /\ manual' = manual
      /\ sent' = sent
      /\ \/ Moved(w, {"running"}, {"running", "deliver"})
         \/ Moved(w, {"record"}, {"finish"})
         \/ FinishRun(w) /\ exec[w] \in Run /\ exec[w].pc = "finish"
            /\ exec'[w] = Nobody
  BY RunMoves
<1>2. Undelivered(j)' \subseteq Undelivered(j)
  BY <1>1 DEF Undelivered, Others, Moved, Workers
<1>3. ASSUME ThroughWith(j) PROVE ThroughWith(j)'
  <2>1. \A a \in DOMAIN batch' : batch'[a].id # j
    BY <1>1, <1>3 DEF ThroughWith
  <2>2. \A v \in Slots : exec'[v] # Nobody /\ exec'[v].id = j =>
          exec'[v].pc \in {"record", "finish"}
    BY <1>1, <1>3 DEF ThroughWith, Others, Moved, Workers
  <2>3. ASSUME j \in Live'
        PROVE  \E v \in Slots :
                 exec'[v] # Nobody /\ exec'[v].id = j /\ OneShot(exec'[v].job)
    <3>1. PICK v \in Slots :
            exec[v] # Nobody /\ exec[v].id = j /\ OneShot(exec[v].job)
      BY <1>3, <2>3 DEF ThroughWith
    <3>2. exec'[v] = exec[v] \/ (exec'[v] # Nobody /\ exec'[v].id = exec[v].id
                                   /\ exec'[v].job = exec[v].job)
      <4>1. CASE v # w
        BY <1>1, <4>1 DEF Others, Workers
      <4>2. CASE v = w /\ FinishRun(w)
        <5>1. cronJobs' = Removed(j) \/ j \notin Live
          BY <3>1, <4>2 DEF FinishRun
        <5>2. j \notin Live'
          BY <5>1 DEF Removed, Live, CronTypeOK
        <5>. QED
          BY <2>3, <5>2
      <4>3. CASE v = w /\ ~FinishRun(w)
        BY <1>1, <4>3 DEF Moved
      <4>. QED
        BY <4>1, <4>2, <4>3
    <3>. QED
      BY <3>1, <3>2
  <2>. QED
    BY <2>1, <2>2, <2>3 DEF ThroughWith
<1>. QED
  BY <1>1, <1>2, <1>3, PaidKept

\* A delivery: of a manual run, which had been paid for, or of a slot, after
\* which the job is through with.
LEMMA DeliverKeepsPaid ==
    ASSUME CronTypeOK, RunsApart, NEW w \in Workers, DeliverRun(w),
           NEW j \in JobIds, NEW s \in Schedules, s.kind = "at", Paid(j, s)
    PROVE  Paid(j, s)'
<1>1. /\ Others(w) /\ batch' = batch /\ faults' = faults /\ manual' = manual
      /\ cronJobs' = cronJobs
      /\ Moved(w, {"deliver"}, {"record"})
  BY RunMoves DEF RunStep, DeliverRun, InStep, Moved, tableVars, bounds, FinishRun
<1>2. Undelivered(j)' = Undelivered(j) \ {w}
  BY <1>1 DEF Undelivered, Others, Moved, Workers
<1>3. CASE ~(exec[w].id = j /\ exec[w].job.schedule = s)
  <2>1. sent'[j][s] = sent[j][s]
    BY <1>3 DEF DeliverRun, CronTypeOK
  <2>2. ThroughWith(j) => ThroughWith(j)'
    BY <1>1 DEF ThroughWith, Others, Moved, Workers, Live
  <2>. QED
    BY <1>1, <1>2, <2>1, <2>2, PaidKept
<1>4. CASE exec[w].id = j /\ exec[w].job.schedule = s
  <2>1. sent'[j][s] = sent[j][s] + 1
    BY <1>4 DEF DeliverRun, CronTypeOK
  <2>2. /\ IsFiniteSet(Undelivered(j))
        /\ sent[j][s] + Cardinality(Undelivered(j))
             <= faults + manual + (IF ThroughWith(j) THEN 1 ELSE 0)
        /\ Cardinality(Undelivered(j)) \in Nat
    BY FS_CardinalityType DEF Paid
  <2>3. sent[j][s] \in Nat /\ faults \in Nat /\ manual \in Nat
    BY DEF CronTypeOK
  <2>4. CASE w \in Runners
    <3>1. w \in Undelivered(j)
      BY <1>1, <1>4, <2>4 DEF Undelivered, Moved
    <3>2. /\ IsFiniteSet(Undelivered(j)')
          /\ Cardinality(Undelivered(j)') = Cardinality(Undelivered(j)) - 1
      BY <1>2, <2>2, <3>1, FS_RemoveElement
    <3>3. ThroughWith(j) => ThroughWith(j)'
      BY <1>1, <2>4, CronAssumption DEF ThroughWith, Others, Workers, Live
    <3>4. sent'[j][s] + Cardinality(Undelivered(j)')
            <= faults' + manual' + (IF ThroughWith(j)' THEN 1 ELSE 0)
      BY <1>1, <2>1, <2>2, <2>3, <3>2, <3>3
    <3>. QED
      BY <3>2, <3>4 DEF Paid
  <2>5. CASE w \in Slots
    <3>1. ~ThroughWith(j)
      BY <1>1, <1>4, <2>5 DEF ThroughWith, Moved
    <3>2. ThroughWith(j)'
      <4>1. OneShot(exec'[w].job) /\ exec'[w] # Nobody /\ exec'[w].id = j
            /\ exec'[w].pc = "record"
        BY <1>1, <1>4 DEF Moved, OneShot
      <4>2. \A v \in Slots : exec'[v] # Nobody /\ exec'[v].id = j => v = w
        BY <1>1, <1>4, <2>5 DEF RunsApart, Others, Moved, Workers
      <4>3. \A a \in DOMAIN batch' : batch'[a].id # j
        BY <1>1, <1>4, <2>5 DEF RunsApart, Moved
      <4>. QED
        BY <2>5, <4>1, <4>2, <4>3 DEF ThroughWith
    <3>3. Undelivered(j)' = Undelivered(j)
      BY <1>2, <2>5, CronAssumption DEF Undelivered
    <3>4. sent'[j][s] + Cardinality(Undelivered(j)')
            <= faults' + manual' + (IF ThroughWith(j)' THEN 1 ELSE 0)
      BY <1>1, <2>1, <2>2, <2>3, <3>1, <3>2, <3>3
    <3>. QED
      BY <2>2, <3>3, <3>4 DEF Paid
  <2>. QED
    BY <2>4, <2>5 DEF Workers
<1>. QED
  BY <1>3, <1>4

\* Every step keeps the account of a one-shot.
LEMMA StepPaid ==
    ASSUME CronTypeOK, RunsApart, [CronNext]_cronVars,
           NEW j \in used, NEW s \in Schedules, s.kind = "at", Paid(j, s)
    PROVE  Paid(j, s)'
<1> USE DEF tableVars, editVars, bounds
<1>1. j \in JobIds /\ (j \notin Live => j \notin Live')
  BY StepMoves DEF CronTypeOK, RowsMove, Live
<1>2. CASE Poll
  <2>1. /\ batch' \in DueBatches /\ UNCHANGED <<exec, sent, faults, manual, cronJobs>>
        /\ \A w \in Slots : exec[w] = Nobody
    BY <1>2 DEF Poll, Idle
  <2>2. DOMAIN batch' = 1..Len(batch')
    BY <2>1, DueBatchTypes
  <2>3. \A a \in 1..Len(batch') : batch'[a].id \in Live
    BY <2>1, DueBatchTypes
  <2>4. ThroughWith(j) => ThroughWith(j)'
    BY <2>1, <2>2, <2>3 DEF ThroughWith, Live
  <2>. QED
    BY <1>1, <2>1, <2>4, PaidKept DEF Undelivered
<1>3. CASE \E w \in Slots : StartRun(w)
  <2> PICK w \in Slots : StartRun(w)
    BY <1>3
  <2>1. /\ batch \in Seq(Row) /\ batch # <<>> /\ exec[w] = Nobody
        /\ UNCHANGED <<sent, faults, manual, cronJobs>>
    BY DEF StartRun, Idle, CronTypeOK
  <2>2. /\ Head(batch) = batch[1] /\ 1 \in DOMAIN batch
        /\ \A a \in DOMAIN batch' :
              a + 1 \in DOMAIN batch /\ batch'[a] = batch[a + 1]
    BY <2>1 DEF StartRun
  <2>3. /\ Others(w)
        /\ exec'[w].id = batch[1].id
    BY <2>2 DEF StartRun, StartsRun, CronTypeOK, Workers, Others
  <2>4. Undelivered(j)' = Undelivered(j)
    BY <2>3, CronAssumption DEF Undelivered, Others, Workers
  <2>5. ASSUME ThroughWith(j) PROVE ThroughWith(j)'
    <3>1. exec'[w].id # j /\ \A a \in DOMAIN batch' : batch'[a].id # j
      BY <2>2, <2>3, <2>5 DEF ThroughWith
    <3>2. \A v \in Slots : exec'[v] # Nobody /\ exec'[v].id = j =>
            exec'[v].pc \in {"record", "finish"}
      BY <2>3, <2>5, <3>1 DEF ThroughWith, Others, Workers
    <3>3. j \in Live' => \E v \in Slots :
            exec'[v] # Nobody /\ exec'[v].id = j /\ OneShot(exec'[v].job)
      BY <2>1, <2>3, <2>5 DEF ThroughWith, Others, Workers, Live
    <3>. QED
      BY <3>1, <3>2, <3>3 DEF ThroughWith
  <2>. QED
    BY <1>1, <2>1, <2>4, <2>5, PaidKept
<1>4. CASE \E w \in Runners, i \in JobIds : RunManually(w, i)
  <2> PICK w \in Runners, i \in JobIds : RunManually(w, i)
    BY <1>4
  <2>1. /\ exec[w] = Nobody /\ manual' = manual + 1
        /\ UNCHANGED <<batch, sent, faults, cronJobs>>
    BY DEF RunManually, Idle
  <2>2. Others(w)
    BY DEF RunManually, StartsRun, CronTypeOK, Workers, Others
  <2>3. w \notin Undelivered(j) /\ Undelivered(j)' \ {w} = Undelivered(j)
    BY <2>1, <2>2 DEF Undelivered, Others, Workers
  <2>4. Undelivered(j)' = Undelivered(j) \/ Undelivered(j)' = Undelivered(j) \cup {w}
    BY <2>3
  <2>5. /\ IsFiniteSet(Undelivered(j)) /\ Cardinality(Undelivered(j)) \in Nat
        /\ sent[j][s] + Cardinality(Undelivered(j))
             <= faults + manual + (IF ThroughWith(j) THEN 1 ELSE 0)
    BY FS_CardinalityType DEF Paid
  <2>6. /\ IsFiniteSet(Undelivered(j)') /\ Cardinality(Undelivered(j)') \in Nat
        /\ Cardinality(Undelivered(j)') <= Cardinality(Undelivered(j)) + 1
    BY <2>3, <2>4, <2>5, FS_AddElement
  <2>7. ThroughWith(j)' = ThroughWith(j)
    BY <2>1, <2>2, CronAssumption DEF ThroughWith, Others, Workers, Live
  <2>8. sent[j][s] \in Nat /\ faults \in Nat /\ manual \in Nat
    BY <1>1 DEF CronTypeOK
  <2>9. sent'[j][s] + Cardinality(Undelivered(j)')
          <= faults' + manual' + (IF ThroughWith(j)' THEN 1 ELSE 0)
    BY <2>1, <2>5, <2>6, <2>7, <2>8
  <2>. QED
    BY <2>6, <2>9 DEF Paid
<1>5. CASE \E w \in Workers : RunStep(w)
  BY <1>1, <1>5, RunKeepsPaid, DeliverKeepsPaid
<1>6. CASE \E w \in Workers : FinishFails(w) \/ DropRun(w)
  <2> PICK w \in Workers : FinishFails(w) \/ DropRun(w)
    BY <1>6
  <2>1. /\ Others(w) /\ exec'[w] = Nobody
        /\ UNCHANGED <<batch, sent, cronJobs, manual>>
        /\ FinishFails(w) => faults' = faults + 1
        /\ DropRun(w) => w \in Runners /\ faults' = faults
    BY RunDropped
  <2>2. Undelivered(j)' \subseteq Undelivered(j)
    BY <2>1 DEF Undelivered, Others, Workers
  <2>3. DropRun(w) /\ ThroughWith(j) => ThroughWith(j)'
    BY <2>1, CronAssumption DEF ThroughWith, Others, Workers, Live
  <2>. QED
    BY <1>1, <2>1, <2>2, <2>3, PaidKept
<1>7. CASE Crash
  <2>1. Undelivered(j)' = {} /\ sent' = sent /\ manual' = manual /\ faults' = faults + 1
    BY <1>7 DEF Crash, Undelivered, Workers
  <2>. QED
    BY <1>1, <2>1, PaidKept
<1>8. CASE QuietStep
  <2>1. Undelivered(j)' = Undelivered(j) /\ sent' = sent
        /\ manual' = manual /\ faults' = faults
    BY <1>8 DEF QuietStep, runVars, Undelivered
  <2>2. ThroughWith(j) => ThroughWith(j)'
    BY <1>1, <1>8 DEF QuietStep, runVars, ThroughWith
  <2>. QED
    BY <1>1, <2>1, <2>2, PaidKept
<1>. QED
  BY <1>2, <1>3, <1>4, <1>5, <1>6, <1>7, <1>8, StepKinds

\* An id that was given out stays given out.
LEMMA IdsGrow ==
    ASSUME [CronNext]_cronVars
    PROVE  used \subseteq used'
<1> USE DEF tableVars, editVars, bounds, runVars
<1>1. (\E c \in Callers : EditStep(c)) => used \subseteq used'
  BY DEF EditStep, ReplaceRemoves, InsertJob, PatchRead, PatchWrite
<1>2. \/ \E c \in Editors : Add(c)
      \/ \E c \in Editors, j \in JobIds, p \in Patches : PatchBegins(c, j, p)
      \/ \E c \in CliUsers, j \in JobIds, p \in Patches : CliBegins(c, j, p)
      => used' = used
  BY DEF Add, AddNew, AddKnown, AddReplacing, PatchBegins, CliBegins
<1>3. (\E w \in Workers : RunStep(w) \/ FinishFails(w) \/ DropRun(w)) => used' = used
  BY DEF RunStep, FinishFails, DropRun, AttemptFails, AttemptEnds, DeliverRun,
         RecordRun, FinishRun
<1>4. \/ \E j \in JobIds : RemoveById(j)
      \/ \E n \in Names : RemoveByName(n)
      \/ Poll \/ Crash \/ Tick \/ UNCHANGED cronVars
      \/ \E w \in Slots : StartRun(w)
      \/ \E w \in Runners, j \in JobIds : RunManually(w, j)
      => used' = used
  BY DEF RemoveById, RemoveByName, Poll, Crash, Tick, cronVars, StartRun, RunManually
<1>. QED
  BY <1>1, <1>2, <1>3, <1>4 DEF CronNext

\* An id to which nothing has happened owes nothing.
LEMMA UntouchedPaid ==
    ASSUME CronTypeOK, NEW j \in JobIds, NEW s \in Schedules, Untouched(j)
    PROVE  Paid(j, s)
<1>1. Undelivered(j) = {} /\ sent[j][s] = 0
  BY DEF Untouched, Undelivered, Workers
<1>2. IsFiniteSet({}) /\ Cardinality({}) = 0
  BY FS_EmptySet
<1>3. faults \in Nat /\ manual \in Nat
  BY DEF CronTypeOK
<1>4. 0 + 0 <= faults + manual + (IF ThroughWith(j) THEN 1 ELSE 0)
  BY <1>3
<1>. QED
  BY <1>1, <1>2, <1>4 DEF Paid

\* A one-shot goes out once, plus at most once for every crash or failed
\* write and for every manual run.
THEOREM CronOneShots == CronSpec => []OneShotAccounting
<1>1. CronInit => FreshUntouched /\ ShotsPaid
  <2> SUFFICES ASSUME CronInit PROVE FreshUntouched /\ ShotsPaid
    OBVIOUS
  <2>1. CronTypeOK
    BY InitTypes
  <2>2. \A j \in JobIds : Untouched(j)
    BY DEF CronInit, Untouched, Workers
  <2>. QED
    BY <2>1, <2>2, UntouchedPaid DEF FreshUntouched, ShotsPaid
<1>2. CronTypeOK /\ RunsApart /\ FreshUntouched /\ ShotsPaid /\ [CronNext]_cronVars
        => FreshUntouched' /\ ShotsPaid'
  <2> SUFFICES ASSUME CronTypeOK, RunsApart, FreshUntouched, ShotsPaid, [CronNext]_cronVars
               PROVE  FreshUntouched' /\ ShotsPaid'
    OBVIOUS
  <2>1. CronTypeOK' /\ \A j \in JobIds \ used : Untouched(j)'
    BY StepTypes, StepUntouched
  <2>2. used \subseteq used'
    BY IdsGrow
  <2>3. FreshUntouched'
    BY <2>1, <2>2 DEF FreshUntouched
  <2>4. ASSUME NEW j \in JobIds, NEW s \in Schedules, s.kind = "at"
        PROVE  Paid(j, s)'
    <3>1. CASE j \in used
      BY <2>4, <3>1, StepPaid DEF ShotsPaid
    <3>2. CASE j \notin used
      <4>1. CronTypeOK' /\ Untouched(j)'
        BY <2>1, <3>2
      <4>. QED
        BY <4>1, UntouchedPaid, PTL
    <3>. QED
      BY <3>1, <3>2
  <2>. QED
    BY <2>3, <2>4 DEF ShotsPaid
<1>3. CronTypeOK /\ ShotsPaid => OneShotAccounting
  <2> SUFFICES ASSUME CronTypeOK, ShotsPaid,
                      NEW j \in JobIds, NEW s \in Schedules, s.kind = "at"
               PROVE  sent[j][s] <= 1 + faults + manual
    BY DEF OneShotAccounting
  <2>1. /\ Cardinality(Undelivered(j)) \in Nat
        /\ sent[j][s] + Cardinality(Undelivered(j))
             <= faults + manual + (IF ThroughWith(j) THEN 1 ELSE 0)
    BY FS_CardinalityType DEF ShotsPaid, Paid
  <2>2. sent[j][s] \in Nat /\ faults \in Nat /\ manual \in Nat
    BY DEF CronTypeOK
  <2>. QED
    BY <2>1, <2>2
<1>. QED
  BY <1>1, <1>2, <1>3, CronTypes, CronRunsApart, PTL DEF CronSpec

-----------------------------------------------------------------------------
(* Names                                                                   *)

\* No row outside X has the name n, if n is guarded.
Clear(n, X) == Unguarded(n) \/ \A j \in Live \ X : cronJobs[j].name # n

\* Only the holder of JOB_WRITE_LOCK is in the middle of an edit, leaving
\* aside the CLI.
HoldsLock == \A c \in Editors : edit[c] # Nobody => lock = c

\* The name an edit is about to write is free but for the row it replaces.
FreeFor(e) ==
    /\ e.pc = "insert"  => Clear(e.name, {})
    /\ e.pc = "replace" => Clear(e.name, {e.id})
    /\ e.pc = "read"    => e.patch.name = Keep \/ Clear(e.patch.name, {e.id})
    /\ e.pc = "write"   => Clear(e.job.name, {e.id})

EditsFree == \A c \in Editors : edit[c] # Nobody => FreeFor(edit[c])

NamesInv == UniqueNames /\ HoldsLock /\ EditsFree

\* Rows go, but none appears or is renamed.
NamesKept ==
    /\ unchecked \subseteq unchecked'
    /\ \A j \in JobIds : cronJobs'[j] = NoJob
         \/ (cronJobs[j] # NoJob /\ cronJobs'[j].name = cronJobs[j].name)

\* A step that keeps the names keeps a name clear of other rows.
LEMMA KeptStayClear ==
    ASSUME NamesKept, NEW n, NEW X, Clear(n, X)
    PROVE  Clear(n, X)'
BY DEF NamesKept, Clear, Unguarded, Live

\* A step that keeps the names keeps them unique.
LEMMA KeptStayUnique ==
    ASSUME NamesKept, UniqueNames
    PROVE  UniqueNames'
BY DEF NamesKept, UniqueNames, Unguarded, Live

\* A step that keeps the names keeps free what an editor will write.
LEMMA KeptStayFree ==
    ASSUME NamesKept, NEW e, FreeFor(e)
    PROVE  FreeFor(e)'
BY KeptStayClear DEF FreeFor

\* Steps that leave the callers alone, or take their edits away.
LEMMA QuietKeeps ==
    ASSUME NamesInv, NamesKept,
           \A c \in Editors : edit'[c] # Nobody => edit'[c] = edit[c] /\ lock' = lock
    PROVE  NamesInv'
<1>1. UniqueNames'
  BY KeptStayUnique DEF NamesInv
<1>2. HoldsLock'
  BY DEF NamesInv, HoldsLock
<1>3. EditsFree'
  BY KeptStayFree DEF NamesInv, EditsFree
<1>. QED
  BY <1>1, <1>2, <1>3 DEF NamesInv

\* The steps of the scheduler, the runs and the removals are of that kind.
LEMMA QuietSteps ==
    ASSUME CronTypeOK,
           \/ \E j \in JobIds : RemoveById(j)
           \/ \E n \in Names : RemoveByName(n)
           \/ Poll
           \/ \E w \in Slots : StartRun(w)
           \/ \E w \in Runners, j \in JobIds : RunManually(w, j)
           \/ \E w \in Workers : RunStep(w) \/ FinishFails(w) \/ DropRun(w)
           \/ Crash \/ Tick \/ UNCHANGED cronVars
    PROVE  /\ NamesKept
           /\ \A c \in Editors :
                 edit'[c] # Nobody => edit'[c] = edit[c] /\ lock' = lock
<1> USE DEF tableVars, editVars
<1>1. CASE \E w \in Workers : FinishRun(w)
  <2> PICK w \in Workers : FinishRun(w)
    BY <1>1
  <2>1. CASE /\ exec[w].id \in Live /\ ~OneShot(exec[w].job)
             /\ HasNext(exec[w].job.schedule, now)
    <3> DEFINE j == exec[w].id
               t == NextRun(exec[w].job.schedule, now)
    <3>1. cronJobs' = [cronJobs EXCEPT ![j] = [cronJobs[j] EXCEPT !.nextRun = t]]
      BY <2>1 DEF FinishRun, CronTypeOK
    <3>2. cronJobs[j] \in Job /\ j \in JobIds
      BY <2>1 DEF CronTypeOK, Live
    <3>3. [cronJobs[j] EXCEPT !.nextRun = t].name = cronJobs[j].name
      BY <3>2 DEF Job
    <3>4. cronJobs[j] # NoJob
      BY <3>2, TableAssumption
    <3>5. unchecked' = unchecked /\ edit' = edit /\ lock' = lock
      BY DEF FinishRun
    <3> HIDE DEF j, t
    <3>. QED
      BY <3>1, <3>2, <3>3, <3>4, <3>5 DEF NamesKept, CronTypeOK
  <2>2. CASE ~(/\ exec[w].id \in Live /\ ~OneShot(exec[w].job)
              /\ HasNext(exec[w].job.schedule, now))
    BY <2>2 DEF FinishRun, Removed, NamesKept, CronTypeOK
  <2>. QED
    BY <2>1, <2>2
<1>2. CASE \/ \E j \in JobIds : RemoveById(j)
           \/ \E n \in Names : RemoveByName(n)
  BY <1>2 DEF RemoveById, RemoveByName, Removed, NamesKept, CronTypeOK
<1>3. CASE \/ Poll
           \/ \E w \in Slots : StartRun(w)
           \/ \E w \in Runners, j \in JobIds : RunManually(w, j)
           \/ \E w \in Workers :
                AttemptFails(w) \/ AttemptEnds(w) \/ DeliverRun(w) \/ RecordRun(w)
                \/ FinishFails(w) \/ DropRun(w)
           \/ Tick \/ UNCHANGED cronVars
  <2>1. UNCHANGED <<cronJobs, editVars>>
    BY <1>3 DEF Poll, StartRun, RunManually, AttemptFails, AttemptEnds, DeliverRun,
                RecordRun, FinishFails, DropRun, Tick, cronVars
  <2>. QED
    BY <2>1 DEF NamesKept
<1>4. CASE Crash
  BY <1>4, CronAssumption DEF Crash, NamesKept, Callers
<1>. QED
  BY <1>1, <1>2, <1>3, <1>4 DEF RunStep

\* A caller begins: it has the lock, and the name it means to write is free.
LEMMA BeginKeepsNames ==
    ASSUME CronTypeOK, NamesInv, NEW c \in Editors, NEW e,
           edit' = [edit EXCEPT ![c] = e], lock = Nobody, lock' = c,
           UNCHANGED cronJobs, unchecked \subseteq unchecked', FreeFor(e)'
    PROVE  NamesInv'
<1>1. NamesKept
  BY DEF NamesKept
<1>2. UniqueNames' /\ FreeFor(e)'
  BY <1>1, KeptStayUnique DEF NamesInv
<1>3. \A d \in Editors : d # c => edit'[d] = Nobody
  BY CronAssumption DEF NamesInv, HoldsLock, CronTypeOK, Callers
<1>4. edit'[c] = e
  BY DEF CronTypeOK, Callers
<1>. QED
  BY <1>2, <1>3, <1>4 DEF NamesInv, HoldsLock, EditsFree

\* A look-up that finds no job leaves the name clear, or unguarded.
LEMMA NotFoundIsClear ==
    ASSUME UNCHANGED cronJobs, NEW n, NotFound(n, n)
    PROVE  unchecked \subseteq unchecked' /\ Clear(n, {})'
BY DEF NotFound, Clear, Unguarded, Named, Live

\* A rename is checked under the trimmed name: of the other rows none has the
\* new name, or that has blanks around it, or the look-up failed.
LEMMA RenameIsClear ==
    ASSUME CronTypeOK, UniqueNames, NEW c \in Editors, NEW j \in JobIds,
           NEW p \in Patches, PatchBegins(c, j, p)
    PROVE  /\ unchecked \subseteq unchecked'
           /\ p.name = Keep \/ Clear(p.name, {j})'
<1> USE DEF tableVars
<1>1. CASE p.name = Keep
  BY <1>1 DEF PatchBegins, NotFound
<1>2. CASE p.name # Keep /\ j \in Named(Trimmed[p.name]) /\ UNCHANGED unchecked
  <2>1. CASE Trimmed[p.name] = p.name
    BY <1>2, <2>1 DEF PatchBegins, UniqueNames, Clear, Unguarded, Named, Live
  <2>2. CASE Trimmed[p.name] # p.name
    BY <1>2, <2>2 DEF Clear, Unguarded
  <2>. QED
    BY <1>2, <2>1, <2>2
<1>3. CASE p.name # Keep /\ NotFound(Trimmed[p.name], p.name)
  <2>1. UNCHANGED cronJobs
    BY DEF PatchBegins
  <2>2. unchecked \subseteq unchecked'
    BY <1>3 DEF NotFound
  <2>3. CASE Trimmed[p.name] = p.name
    BY <1>3, <2>1, <2>3, NotFoundIsClear DEF Clear
  <2>4. CASE Trimmed[p.name] # p.name
    BY <2>2, <2>4 DEF Clear, Unguarded
  <2>. QED
    BY <2>3, <2>4
<1>. QED
  BY <1>1, <1>2, <1>3 DEF PatchBegins

\* An editor that takes the lock finds a name free or the row that has it.
LEMMA EditorBegins ==
    ASSUME CronTypeOK, NamesInv,
           \/ \E c \in Editors : Add(c)
           \/ \E c \in Editors, j \in JobIds, p \in Patches : PatchBegins(c, j, p)
    PROVE  NamesInv'
<1> USE DEF tableVars
<1>1. CASE \E c \in Editors : Add(c)
  <2> PICK c \in Editors, n \in NameOrNone, ty \in Types, s \in Schedules :
            AddNew(c, n, ty, s) \/ AddKnown(c, n, ty, s)
              \/ AddReplacing(c, n, ty, s)
    BY <1>1, AddsTypes DEF Add
  <2>1. CASE AddNew(c, n, ty, s)
    <3> DEFINE e == [pc |-> "insert", id |-> NoJob, name |-> n,
                     type |-> ty, schedule |-> s]
    <3>1. /\ edit' = [edit EXCEPT ![c] = e] /\ lock = Nobody /\ lock' = c
          /\ UNCHANGED cronJobs
      BY <2>1 DEF AddNew, TakesLock
    <3>2. unchecked \subseteq unchecked' /\ Clear(n, {})'
      <4>1. CASE n = NoName /\ UNCHANGED unchecked
        BY <4>1 DEF Clear, Unguarded
      <4>2. CASE NotFound(n, n)
        BY <3>1, <4>2, NotFoundIsClear
      <4>. QED
        BY <2>1, <4>1, <4>2 DEF AddNew
    <3>3. FreeFor(e)'
      BY <3>2 DEF FreeFor
    <3>. QED
      <4> HIDE DEF e
      <4>. QED BY <3>1, <3>2, <3>3, BeginKeepsNames
  <2>2. CASE AddKnown(c, n, ty, s)
    <3> PICK j \in Named(n) :
          edit' = [edit EXCEPT ![c] =
                    [pc |-> "read", id |-> j,
                     patch |-> [NoPatch EXCEPT !.schedule = s]]]
      BY <2>2 DEF AddKnown
    <3> DEFINE e == [pc |-> "read", id |-> j,
                     patch |-> [NoPatch EXCEPT !.schedule = s]]
    <3>1. FreeFor(e)'
      BY KeepsASchedule DEF FreeFor
    <3>2. /\ edit' = [edit EXCEPT ![c] = e] /\ lock = Nobody /\ lock' = c
          /\ UNCHANGED cronJobs /\ unchecked \subseteq unchecked'
      BY <2>2 DEF AddKnown, TakesLock
    <3>. QED
      <4> HIDE DEF e
      <4>. QED BY <3>1, <3>2, BeginKeepsNames
  <2>3. CASE AddReplacing(c, n, ty, s)
    <3> PICK j \in Named(n) :
          /\ n # NoName
          /\ edit' = [edit EXCEPT ![c] = [pc |-> "replace", id |-> j, name |-> n,
                                          type |-> ty, schedule |-> s]]
      BY <2>3 DEF AddReplacing
    <3> DEFINE e == [pc |-> "replace", id |-> j, name |-> n,
                     type |-> ty, schedule |-> s]
    <3>1. /\ edit' = [edit EXCEPT ![c] = e] /\ lock = Nobody /\ lock' = c
          /\ UNCHANGED cronJobs /\ unchecked' = unchecked
      BY <2>3 DEF AddReplacing, TakesLock
    <3>2. Clear(n, {j})'
      BY <3>1 DEF NamesInv, UniqueNames, Clear, Unguarded, Named, Live
    <3>3. FreeFor(e)'
      BY <3>2 DEF FreeFor
    <3>. QED
      <4> HIDE DEF e
      <4>. QED BY <3>1, <3>3, BeginKeepsNames
  <2>. QED
    BY <2>1, <2>2, <2>3
<1>2. CASE \E c \in Editors, j \in JobIds, p \in Patches : PatchBegins(c, j, p)
  <2> PICK c \in Editors, j \in JobIds, p \in Patches : PatchBegins(c, j, p)
    BY <1>2
  <2> DEFINE e == [pc |-> "read", id |-> j, patch |-> p]
  <2>1. /\ unchecked \subseteq unchecked'
        /\ p.name = Keep \/ Clear(p.name, {j})'
    BY RenameIsClear DEF NamesInv
  <2>2. FreeFor(e)'
    BY <2>1 DEF FreeFor
  <2>3. /\ edit' = [edit EXCEPT ![c] = e] /\ lock = Nobody /\ lock' = c
        /\ UNCHANGED cronJobs
    BY DEF PatchBegins, TakesLock
  <2>. QED
    <3> HIDE DEF e
    <3>. QED BY <2>1, <2>2, <2>3, BeginKeepsNames
<1>. QED
  BY <1>1, <1>2

\* A CLI process reads and writes without the lock: the others' edits are left
\* alone, and the name it writes is from then on one the CLI has written.
LEMMA CliKeepsNames ==
    ASSUME CronTypeOK, NamesInv, NEW c \in CliUsers,
           \/ \E j \in JobIds, p \in Patches : CliBegins(c, j, p)
           \/ PatchRead(c) \/ PatchWrite(c)
    PROVE  NamesInv'
<1> USE DEF tableVars
<1>1. lock # c
  BY CronAssumption DEF CronTypeOK
<1>2. /\ lock' = lock
      /\ \A d \in Editors : edit'[d] = edit[d]
  BY <1>1, CronAssumption DEF CliBegins, PatchRead, PatchWrite, Gives, Released,
                              CronTypeOK, Callers
<1>3. CASE UNCHANGED <<cronJobs, unchecked>>
  BY <1>2, <1>3, QuietKeeps DEF NamesKept
<1>4. CASE ~UNCHANGED <<cronJobs, unchecked>>
  <2>1. PatchWrite(c) /\ edit[c].id \in Live
    BY <1>4 DEF CliBegins, PatchRead, PatchWrite
  <2>2. edit[c] \in Edit
    BY <2>1 DEF PatchWrite, CronTypeOK, Callers
  <2>3. edit[c].id \in JobIds /\ edit[c].job \in Job
    BY <2>1, <2>2, EditShape DEF PatchWrite
  <2>4. PICK k \in JobIds, job \in Job :
          /\ k \in Live
          /\ cronJobs' = [cronJobs EXCEPT ![k] = job]
          /\ unchecked' = unchecked \union {job.name}
    BY <2>1, <2>3 DEF PatchWrite
  <2>5. Unguarded(job.name)' /\ \A n : Unguarded(n) => Unguarded(n)'
    BY <2>4 DEF Unguarded
  <2>6. \A j \in Live' : j = k \/ (j \in Live /\ cronJobs'[j] = cronJobs[j])
    BY <2>4 DEF Live, CronTypeOK
  <2>7. cronJobs'[k] = job
    BY <2>4 DEF CronTypeOK
  <2>8. \A n, X : Clear(n, X) => Clear(n, X)'
    BY <2>5, <2>6, <2>7 DEF Clear, Unguarded
  <2>9. UniqueNames'
    <3> SUFFICES ASSUME NEW i \in Live', NEW j \in Live', i # j,
                        cronJobs'[i].name = cronJobs'[j].name
                 PROVE  Unguarded(cronJobs[i].name)'
      BY DEF UniqueNames
    <3>1. PICK n : n = cronJobs'[i].name /\ n = cronJobs'[j].name
      OBVIOUS
    <3>2. Unguarded(n) => Unguarded(n)'
      BY <2>5
    <3>3. CASE i = k \/ j = k
      BY <2>5, <2>7, <3>1, <3>3 DEF Unguarded
    <3>4. CASE i # k /\ j # k
      <4>1. i \in Live /\ j \in Live /\ cronJobs[i].name = n /\ cronJobs[j].name = n
        BY <2>6, <3>1, <3>4
      <4>2. Unguarded(n)
        BY <4>1 DEF NamesInv, UniqueNames
      <4>. QED
        BY <3>1, <3>2, <4>2 DEF Unguarded
    <3>. QED
      BY <3>3, <3>4
  <2>10. \A e : FreeFor(e) => FreeFor(e)'
    BY <2>8 DEF FreeFor
  <2>. QED
    BY <1>2, <2>9, <2>10 DEF NamesInv, HoldsLock, EditsFree
<1>. QED
  BY <1>3, <1>4

\* An editor that goes on has the lock, so no other one is in the middle of
\* anything.
LEMMA EditorGoesOn ==
    ASSUME CronTypeOK, NamesInv, NEW c \in Editors, EditStep(c), UniqueNames',
           edit'[c] # Nobody => lock' = lock /\ FreeFor(edit[c])'
    PROVE  NamesInv'
<1>1. edit[c] # Nobody /\ lock = c
  BY DEF EditStep, ReplaceRemoves, InsertJob, PatchRead, PatchWrite, NamesInv,
         HoldsLock
<1>2. \A d \in Editors : d # c => edit'[d] = Nobody
  <2>1. \A d \in Editors : d # c => edit[d] = Nobody
    BY <1>1 DEF NamesInv, HoldsLock
  <2>2. \A d \in Callers : d # c => edit'[d] = edit[d]
    BY DEF EditStep, ReplaceRemoves, InsertJob, PatchRead, PatchWrite, Gives,
           CronTypeOK
  <2>. QED
    BY <2>1, <2>2 DEF Callers
<1>. QED
  BY <1>1, <1>2 DEF NamesInv, HoldsLock, EditsFree

\* An editor that goes on writes a name that is still free.
LEMMA EditorKeepsNames ==
    ASSUME CronTypeOK, NamesInv, NEW c \in Editors, EditStep(c)
    PROVE  NamesInv'
<1> USE DEF tableVars
<1>1. /\ c \in Callers /\ edit[c] # Nobody /\ edit[c] \in Edit
      /\ FreeFor(edit[c])
  BY DEF EditStep, ReplaceRemoves, InsertJob, PatchRead, PatchWrite, NamesInv,
         EditsFree, CronTypeOK, Callers
<1>2. Gives(c) => edit'[c] = Nobody
  BY <1>1 DEF Gives, CronTypeOK
<1>3. CASE ReplaceRemoves(c)
  <2>1. NamesKept
    BY <1>3 DEF ReplaceRemoves, Removed, NamesKept, CronTypeOK, Live
  <2>2. CASE edit[c].id \notin Live
    BY <1>2, <1>3, <2>1, <2>2, KeptStayUnique, EditorGoesOn
       DEF ReplaceRemoves, NamesInv
  <2>3. CASE edit[c].id \in Live
    <3>1. PICK j, n : /\ edit[c].id = j /\ edit[c].name = n
                      /\ Clear(n, {j})
      BY <1>1, <1>3 DEF ReplaceRemoves, FreeFor
    <3>2. j \notin Live'
      BY <1>3, <2>3, <3>1 DEF ReplaceRemoves, Removed, Live, CronTypeOK
    <3>3. Clear(n, {j})'
      BY <2>1, <3>1, KeptStayClear
    <3>4. Clear(n, {})'
      BY <3>2, <3>3 DEF Clear
    <3>5. lock' = lock /\ edit'[c] = [edit[c] EXCEPT !.pc = "insert"]
      BY <1>1, <1>3, <2>3 DEF ReplaceRemoves, CronTypeOK
    <3>6. edit'[c].pc = "insert" /\ edit'[c].name = n
      BY <1>1, <1>3, <3>1, <3>5, EditShape DEF ReplaceRemoves
    <3>7. FreeFor(edit[c])'
      BY <3>4, <3>6 DEF FreeFor
    <3>. QED
      BY <2>1, <3>5, <3>7, KeptStayUnique, EditorGoesOn DEF NamesInv
  <2>. QED
    BY <2>2, <2>3
<1>4. CASE InsertJob(c)
  <2>1. Clear(edit[c].name, {})
    BY <1>1, <1>4 DEF InsertJob, FreeFor
  <2>2. CASE UNCHANGED cronJobs
    BY <1>2, <1>4, <2>2, KeptStayUnique, EditorGoesOn
       DEF InsertJob, NamesKept, NamesInv
  <2>3. CASE ~UNCHANGED cronJobs
    <3>1. PICK j, row :
            /\ j \in JobIds \ used
            /\ cronJobs' = [cronJobs EXCEPT ![j] = row]
            /\ row.name = edit[c].name
      BY <1>4, <2>3 DEF InsertJob
    <3>2. unchecked' = unchecked
      BY <1>4 DEF InsertJob
    <3>3. /\ cronJobs'[j] = row
          /\ \A i \in Live' : i # j => i \in Live /\ cronJobs'[i] = cronJobs[i]
      BY <3>1 DEF CronTypeOK, Live
    <3>4. UniqueNames'
      BY <2>1, <3>1, <3>2, <3>3 DEF NamesInv, UniqueNames, Clear, Unguarded
    <3>. QED
      BY <1>2, <1>4, <3>4, EditorGoesOn DEF InsertJob
  <2>. QED
    BY <2>2, <2>3
<1>5. CASE PatchRead(c)
  <2>1. NamesKept
    BY <1>5 DEF PatchRead, NamesKept
  <2>2. CASE Gives(c)
    BY <1>2, <2>1, <2>2, KeptStayUnique, EditorGoesOn DEF NamesInv
  <2>3. CASE ~Gives(c)
    <3> DEFINE w == [pc |-> "write", id |-> edit[c].id,
                     job |-> Patched(cronJobs[edit[c].id], edit[c].patch)]
    <3>1. /\ edit[c].id \in Live /\ lock' = lock
          /\ edit' = [edit EXCEPT ![c] = w]
      BY <1>5, <2>3 DEF PatchRead
    <3>2. edit'[c] = w
      <4> HIDE DEF w
      <4>. QED BY <1>1, <3>1 DEF CronTypeOK
    <3>3. PICK j, p : /\ j = edit[c].id /\ p = edit[c].patch
                      /\ j \in Live /\ lock' = lock
                      /\ edit'[c] = [pc |-> "write", id |-> j,
                                     job |-> Patched(cronJobs[j], p)]
      BY <3>1, <3>2
    <3>4. p \in Patch /\ j \in JobIds
      BY <1>1, <1>5, <3>3, EditShape DEF PatchRead
    <3>5. Patched(cronJobs[j], p).name = Or(p.name, cronJobs[j].name)
      BY <3>3, <3>4, PatchedJob DEF CronTypeOK, Live
    <3>6. p.name = Keep \/ Clear(p.name, {j})
      BY <1>1, <1>5, <3>3 DEF PatchRead, FreeFor
    <3>7. Clear(cronJobs[j].name, {j})
      BY <3>3 DEF NamesInv, UniqueNames, Clear, Unguarded
    <3>8. PICK n : n = Or(p.name, cronJobs[j].name) /\ Clear(n, {j})
      BY <3>6, <3>7 DEF Or
    <3>9. Clear(n, {j})'
      BY <2>1, <3>8, KeptStayClear
    <3>10. edit'[c].pc = "write" /\ edit'[c].id = j /\ edit'[c].job.name = n
      BY <3>3, <3>5, <3>8
    <3>11. FreeFor(edit[c])'
      BY <3>9, <3>10 DEF FreeFor
    <3>. QED
      BY <2>1, <3>3, <3>11, KeptStayUnique, EditorGoesOn DEF NamesInv
  <2>. QED
    BY <2>2, <2>3
<1>6. CASE PatchWrite(c)
  <2>1. Clear(edit[c].job.name, {edit[c].id})
    BY <1>1, <1>6 DEF PatchWrite, FreeFor
  <2>2. unchecked' = unchecked
    BY <1>6, CronAssumption DEF PatchWrite
  <2>3. CASE UNCHANGED cronJobs
    BY <1>2, <1>6, <2>2, <2>3, KeptStayUnique, EditorGoesOn
       DEF PatchWrite, NamesKept, NamesInv
  <2>4. CASE ~UNCHANGED cronJobs
    <3>1. PICK j, job :
            /\ j \in Live
            /\ cronJobs' = [cronJobs EXCEPT ![j] = job]
            /\ Clear(job.name, {j})
      BY <1>6, <2>1, <2>4 DEF PatchWrite
    <3>2. /\ cronJobs'[j] = job
          /\ \A i \in Live' : i # j => i \in Live /\ cronJobs'[i] = cronJobs[i]
      BY <3>1 DEF CronTypeOK, Live
    <3>3. UniqueNames'
      BY <2>2, <3>1, <3>2 DEF NamesInv, UniqueNames, Clear, Unguarded
    <3>. QED
      BY <1>2, <1>6, <3>3, EditorGoesOn DEF PatchWrite
  <2>. QED
    BY <2>3, <2>4
<1>. QED
  BY <1>3, <1>4, <1>5, <1>6 DEF EditStep

\* A CLI process only patches.
CliPatches ==
    \A c \in CliUsers : edit[c] # Nobody => edit[c].pc \in {"read", "write"}

\* A CLI process is in the middle of a patch or of nothing.
LEMMA StepCliPatches ==
    ASSUME CronTypeOK, CliPatches, [CronNext]_cronVars
    PROVE  CliPatches'
<1> USE DEF editVars
<1>1. CASE \E c \in CliUsers, j \in JobIds, p \in Patches : CliBegins(c, j, p)
  BY <1>1 DEF CliBegins, CliPatches, CronTypeOK, Callers
<1>2. CASE \E c \in Callers : EditStep(c)
  <2> PICK c \in Callers : EditStep(c)
    BY <1>2
  <2>1. CASE c \in Editors
    <3>1. \A d \in CliUsers : edit'[d] = edit[d]
      BY <2>1, CronAssumption DEF EditStep, ReplaceRemoves, InsertJob, PatchRead,
         PatchWrite, Gives, CronTypeOK, Callers
    <3>. QED
      BY <3>1 DEF CliPatches
  <2>2. CASE c \in CliUsers
    <3>1. PatchRead(c) \/ PatchWrite(c)
      BY <2>2 DEF EditStep, ReplaceRemoves, InsertJob, CliPatches
    <3>2. edit'[c] = Nobody \/ edit'[c].pc = "write"
      <4>1. \/ edit' = [edit EXCEPT ![c] = Nobody]
            \/ \E e : edit' = [edit EXCEPT ![c] = e] /\ e.pc = "write"
        BY <3>1 DEF PatchRead, PatchWrite, Gives
      <4>. QED
        BY <4>1 DEF CronTypeOK
    <3>3. \A d \in Callers : d # c => edit'[d] = edit[d]
      BY <3>1 DEF PatchRead, PatchWrite, Gives, CronTypeOK
    <3>. QED
      BY <3>2, <3>3 DEF CliPatches, Callers
  <2>. QED
    BY <2>1, <2>2 DEF Callers
<1>3. CASE \/ \E c \in Editors : Add(c)
           \/ \E c \in Editors, j \in JobIds, p \in Patches : PatchBegins(c, j, p)
  <2>1. \A d \in CliUsers : edit'[d] = edit[d]
    BY <1>3, CronAssumption DEF Add, AddNew, AddKnown, AddReplacing, PatchBegins,
       CronTypeOK, Callers
  <2>. QED
    BY <2>1 DEF CliPatches
<1>4. CASE Crash
  BY <1>4 DEF Crash, CliPatches, Callers
<1>5. CASE UNCHANGED editVars
  BY <1>5 DEF CliPatches
<1>6. \/ \E j \in JobIds : RemoveById(j)
      \/ \E n \in Names : RemoveByName(n)
      \/ Poll
      \/ \E w \in Slots : StartRun(w)
      \/ \E w \in Runners, j \in JobIds : RunManually(w, j)
      \/ \E w \in Workers : RunStep(w) \/ FinishFails(w) \/ DropRun(w)
      \/ Tick \/ UNCHANGED cronVars
      => UNCHANGED editVars
  BY DEF RemoveById, RemoveByName, Poll, StartRun, RunManually, RunStep,
         AttemptFails, AttemptEnds, DeliverRun, RecordRun, FinishRun, FinishFails,
         DropRun, Tick, cronVars
<1>. QED
  BY <1>1, <1>2, <1>3, <1>4, <1>5, <1>6 DEF CronNext

\* Every step keeps the invariant of the names.
LEMMA StepKeepsNames ==
    ASSUME CronTypeOK, NamesInv, CliPatches, [CronNext]_cronVars
    PROVE  NamesInv'
<1>1. CASE \E c \in Callers : EditStep(c)
  <2> PICK c \in Callers : EditStep(c)
    BY <1>1
  <2>1. CASE c \in Editors
    BY <2>1, EditorKeepsNames
  <2>2. CASE c \in CliUsers
    <3>1. PatchRead(c) \/ PatchWrite(c)
      BY <2>2 DEF EditStep, ReplaceRemoves, InsertJob, CliPatches
    <3>. QED
      BY <2>2, <3>1, CliKeepsNames
  <2>. QED
    BY <2>1, <2>2 DEF Callers
<1>2. CASE \E c \in CliUsers, j \in JobIds, p \in Patches : CliBegins(c, j, p)
  BY <1>2, CliKeepsNames
<1>. QED
  BY <1>1, <1>2, EditorBegins, QuietSteps, QuietKeeps DEF CronNext

\* Two jobs share a name only if there is none, a CLI process or a caller whose
\* look-up failed has written it, or it has blanks around it.
THEOREM CronUniqueNames == CronSpec => []UniqueNames
<1>1. CronInit => NamesInv
  <2> SUFFICES ASSUME CronInit PROVE NamesInv
    OBVIOUS
  <2>1. UniqueNames
    BY TableAssumption DEF CronInit, UniqueNames, Unguarded, Live
  <2>2. HoldsLock /\ EditsFree
    BY DEF CronInit, HoldsLock, EditsFree, Callers
  <2>. QED
    BY <2>1, <2>2 DEF NamesInv
<1>2. NamesInv => UniqueNames
  BY DEF NamesInv
<1>3. CronInit => CliPatches
  BY DEF CronInit, CliPatches, Callers
<1>. QED
  BY <1>1, <1>2, <1>3, StepKeepsNames, StepCliPatches, CronTypes, PTL DEF CronSpec

=============================================================================
