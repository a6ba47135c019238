------------------------------ MODULE SubAgents ------------------------------
(***************************************************************************)
(* Background sub-agents: subagent_spawn, subagent_manage and               *)
(* subagent_list over the shared SubAgentRegistry                          *)
(* (tools/subagent_registry.rs, tools/subagent_spawn.rs).                  *)
(*                                                                         *)
(* Each registry method holds the write lock once and is one action.  A    *)
(* spawn is not: it reserves a slot, starts the tokio task and stores the  *)
(* task's handle in three steps, between which the session is already      *)
(* visible to other callers and the task already runs.  Aborting a task    *)
(* takes effect at its next await, so a task that has its result in hand   *)
(* still reports it.                                                       *)
(***************************************************************************)
EXTENDS Naturals, FiniteSets

CONSTANTS
  Sessions,       \* one per subagent_spawn call
  MaxConcurrent   \* [agent.subagents] max_concurrent

ASSUME SubAgentsAssumption ==
  /\ IsFiniteSet(Sessions) /\ MaxConcurrent \in Nat

\* "absent": the registry has no such session.
Statuses == {"absent", "running", "completed", "failed", "killed"}
Final    == {"completed", "failed", "killed"}

\* Where the execute() call of a session is.
Calls == {"idle", "queued", "inserted", "spawned", "returned", "refused"}

\* "reporting": past its last await, the outcome not yet in the registry.
Tasks == {"none", "working", "aborting", "reporting", "finished", "cancelled"}

VARIABLES
  queue_waits, \* configuration: queue_wait_ms is not zero
  call, task,
  succeeded,   \* the outcome a reporting task has in hand
  status, result, handle,   \* the session in the registry
  expired,     \* the deadline of a queued call has passed
  old,         \* finished more than SESSION_MAX_AGE_SECS ago
  killed       \* history: kill returned true for it

callVars    == <<queue_waits, call, expired>>
taskVars    == <<task, succeeded>>
sessionVars == <<status, result, handle, old>>
subagentVars == <<callVars, taskVars, sessionVars, killed>>

Running == {s \in Sessions : status[s] = "running"}

\* Mutant of HasSlot: the limit is off by one.
HasSlotInclusive == Cardinality(Running) <= MaxConcurrent

\* try_insert finds room.
HasSlot == Cardinality(Running) < MaxConcurrent

Insert(s) ==
  /\ call' = [call EXCEPT ![s] = "inserted"]
  /\ status' = [status EXCEPT ![s] = "running"]
  /\ UNCHANGED <<result, handle, old>>

Refuse(s) ==
  /\ call' = [call EXCEPT ![s] = "refused"]
  /\ UNCHANGED sessionVars

-----------------------------------------------------------------------------
(* subagent_spawn                                                          *)

\* execute up to the first try_insert; without room the call queues.
Spawn(s) ==
  /\ call[s] = "idle"
  /\ \/ HasSlot /\ Insert(s)
     \/ ~HasSlot /\ ~queue_waits /\ Refuse(s)
     \/ /\ ~HasSlot /\ queue_waits
        /\ call' = [call EXCEPT ![s] = "queued"]
        /\ UNCHANGED sessionVars
  /\ UNCHANGED <<queue_waits, expired, taskVars, killed>>

\* Mutant of Poll: past its deadline a call sleeps on without looking again.
PollForever(s) ==
  /\ call[s] = "queued"
  /\ HasSlot /\ ~expired[s] /\ Insert(s)
  /\ expired' = [expired EXCEPT ![s] = FALSE]
  /\ UNCHANGED <<queue_waits, taskVars, killed>>

\* One turn of wait_for_slot_and_insert that does not sleep again.
Poll(s) ==
  /\ call[s] = "queued"
  /\ \/ HasSlot /\ Insert(s)
     \/ ~HasSlot /\ expired[s] /\ Refuse(s)
  /\ expired' = [expired EXCEPT ![s] = FALSE]
  /\ UNCHANGED <<queue_waits, taskVars, killed>>

DeadlinePasses(s) ==
  /\ call[s] = "queued" /\ ~expired[s]
  /\ expired' = [expired EXCEPT ![s] = TRUE]
  /\ UNCHANGED <<queue_waits, call, taskVars, sessionVars, killed>>

\* The turn that made the call is cancelled while the call sleeps.
DropCall(s) ==
  /\ call[s] = "queued"
  /\ Refuse(s)
  /\ expired' = [expired EXCEPT ![s] = FALSE]
  /\ UNCHANGED <<queue_waits, taskVars, killed>>

\* tokio::spawn
StartTask(s) ==
  /\ call[s] = "inserted"
  /\ call' = [call EXCEPT ![s] = "spawned"]
  /\ task' = [task EXCEPT ![s] = "working"]
  /\ UNCHANGED <<queue_waits, expired, succeeded, sessionVars, killed>>

\* set_handle does not look at the status; without a session the handle drops.
SetHandle(s) ==
  /\ call[s] = "spawned"
  /\ call' = [call EXCEPT ![s] = "returned"]
  /\ handle' = [handle EXCEPT ![s] = status[s] # "absent"]
  /\ UNCHANGED <<queue_waits, expired, taskVars, status, result, old, killed>>

-----------------------------------------------------------------------------
(* The background task                                                     *)

\* The provider answers, fails, or the run hits SPAWN_TIMEOUT_SECS.
TaskResult(s) ==
  /\ task[s] = "working"
  /\ task' = [task EXCEPT ![s] = "reporting"]
  /\ \E ok \in BOOLEAN : succeeded' = [succeeded EXCEPT ![s] = ok]
  /\ UNCHANGED <<callVars, sessionVars, killed>>

\* Mutant of Report: only a success reaches the registry.
ReportSuccess(s) ==
  /\ task[s] = "reporting"
  /\ task' = [task EXCEPT ![s] = "finished"]
  /\ IF status[s] = "absent" \/ ~succeeded[s] THEN UNCHANGED sessionVars
     ELSE /\ status' = [status EXCEPT ![s] = "completed"]
          /\ result' = [result EXCEPT ![s] = "output"]
          /\ handle' = [handle EXCEPT ![s] = FALSE]
          /\ old' = [old EXCEPT ![s] = FALSE]
  /\ succeeded' = [succeeded EXCEPT ![s] = FALSE]
  /\ UNCHANGED <<callVars, killed>>

Report(s) ==
  /\ task[s] = "reporting"
  /\ task' = [task EXCEPT ![s] = "finished"]
  /\ IF status[s] = "absent" THEN UNCHANGED sessionVars
     ELSE /\ status' = [status EXCEPT
                          ![s] = IF succeeded[s] THEN "completed" ELSE "failed"]
          /\ result' = [result EXCEPT
                          ![s] = IF succeeded[s] THEN "output" ELSE "error"]
          /\ handle' = [handle EXCEPT ![s] = FALSE]
          /\ old' = [old EXCEPT ![s] = FALSE]
  /\ succeeded' = [succeeded EXCEPT ![s] = FALSE]
  /\ UNCHANGED <<callVars, killed>>

\* The runtime drops an aborted task the next time it would poll it.
Unwind(s) ==
  /\ task[s] = "aborting"
  /\ task' = [task EXCEPT ![s] = "cancelled"]
  /\ UNCHANGED <<callVars, succeeded, sessionVars, killed>>

-----------------------------------------------------------------------------
(* subagent_manage and subagent_list                                       *)

\* Mutant of Kill: the task is aborted before the status is looked at.
KillAny(s) ==
  /\ status[s] # "absent"
  /\ task' = [task EXCEPT
                ![s] = IF handle[s] /\ @ = "working" THEN "aborting" ELSE @]
  /\ status' = [status EXCEPT ![s] = "killed"]
  /\ result' = [result EXCEPT ![s] = "killed by user"]
  /\ handle' = [handle EXCEPT ![s] = FALSE]
  /\ old' = [old EXCEPT ![s] = FALSE]
  /\ killed' = killed \cup {s}
  /\ UNCHANGED <<callVars, succeeded>>

\* kill: without a handle there is nothing to abort.
Kill(s) ==
  /\ status[s] = "running"
  /\ task' = [task EXCEPT
                ![s] = IF handle[s] /\ @ = "working" THEN "aborting" ELSE @]
  /\ status' = [status EXCEPT ![s] = "killed"]
  /\ result' = [result EXCEPT ![s] = "killed by user"]
  /\ handle' = [handle EXCEPT ![s] = FALSE]
  /\ old' = [old EXCEPT ![s] = FALSE]
  /\ killed' = killed \cup {s}
  /\ UNCHANGED <<callVars, succeeded>>

GrowOld(s) ==
  /\ status[s] \in Final /\ ~old[s]
  /\ old' = [old EXCEPT ![s] = TRUE]
  /\ UNCHANGED <<callVars, taskVars, status, result, handle, killed>>

\* list runs cleanup_old_sessions first; the handle goes with its session.
List ==
  LET gone == {s \in Sessions : status[s] \in Final /\ old[s]}
  IN /\ gone # {}
     /\ status' = [s \in Sessions |-> IF s \in gone THEN "absent" ELSE status[s]]
     /\ result' = [s \in Sessions |-> IF s \in gone THEN "none" ELSE result[s]]
     /\ handle' = [s \in Sessions |-> s \notin gone /\ handle[s]]
     /\ old'    = [s \in Sessions |-> s \notin gone /\ old[s]]
     /\ UNCHANGED <<callVars, taskVars, killed>>

-----------------------------------------------------------------------------
SubAgentsInit ==
  /\ queue_waits \in BOOLEAN
  /\ call = [s \in Sessions |-> "idle"]
  /\ task = [s \in Sessions |-> "none"]
  /\ succeeded = [s \in Sessions |-> FALSE]
  /\ status = [s \in Sessions |-> "absent"]
  /\ result = [s \in Sessions |-> "none"]
  /\ handle = [s \in Sessions |-> FALSE]
  /\ expired = [s \in Sessions |-> FALSE]
  /\ old = [s \in Sessions |-> FALSE]
  /\ killed = {}

\* The steps the runtime takes by itself.
Advance(s) ==
  Poll(s) \/ DeadlinePasses(s) \/ StartTask(s) \/ SetHandle(s)
    \/ TaskResult(s) \/ Report(s) \/ Unwind(s)

SubAgentsNext ==
  \/ \E s \in Sessions : \/ Spawn(s) \/ DropCall(s) \/ Kill(s) \/ GrowOld(s)
                         \/ Poll(s) \/ DeadlinePasses(s) \/ StartTask(s)
                         \/ SetHandle(s) \/ TaskResult(s) \/ Report(s)
                         \/ Unwind(s)
  \/ List

SubAgentsSpec == SubAgentsInit /\ [][SubAgentsNext]_subagentVars

\* The scheduler runs every runnable task, timers fire, and every provider
\* call sits in a timeout; nobody is obliged to spawn, kill or list.
SubAgentsFairness == \A s \in Sessions : WF_subagentVars(Advance(s))

FairSubAgentsSpec == SubAgentsSpec /\ SubAgentsFairness

-----------------------------------------------------------------------------
\* Types; a session that is not in the registry has no fields.
SubAgentsTypeOK ==
  /\ queue_waits \in BOOLEAN
  /\ call \in [Sessions -> Calls] /\ task \in [Sessions -> Tasks]
  /\ status \in [Sessions -> Statuses]
  /\ result \in [Sessions -> {"none", "output", "error", "killed by user"}]
  /\ succeeded \in [Sessions -> BOOLEAN] /\ handle \in [Sessions -> BOOLEAN]
  /\ expired \in [Sessions -> BOOLEAN] /\ old \in [Sessions -> BOOLEAN]
  /\ killed \subseteq Sessions
  /\ \A s \in Sessions : status[s] = "absent" => ~handle[s] /\ ~old[s]

(***************************************************************************)
(* The registry never counts more running sessions than max_concurrent,    *)
(* however many calls queue and poll for the same free slot.               *)
(***************************************************************************)
SlotsBounded == Cardinality(Running) <= MaxConcurrent

(***************************************************************************)
(* No slot is leaked: a session that counts as running is still being      *)
(* started, or has a task that works and will report to it.                *)
(***************************************************************************)
NoLeakedSlot ==
  \A s \in Running :
    \/ call[s] = "inserted" /\ task[s] = "none"
    \/ call[s] \in {"spawned", "returned"} /\ task[s] \in {"working", "reporting"}

\* The result a session shows is the one its status announces, also when
\* a report and a kill cross.
ResultMatchesStatus ==
  \A s \in Sessions :
    result[s] = CASE status[s] \in {"absent", "running"} -> "none"
                  [] status[s] = "completed" -> "output"
                  [] status[s] = "failed"    -> "error"
                  [] status[s] = "killed"    -> "killed by user"

(***************************************************************************)
(* What a caller may rely on when it reads a status: a report is final     *)
(* until cleanup; a kill can only be followed by the report of the run it  *)
(* was meant to stop; nothing runs twice.                                  *)
(***************************************************************************)
StatusSteps ==
  [][\A s \in Sessions :
       status'[s] # status[s] =>
         CASE status[s] = "absent"  -> status'[s] = "running" /\ task[s] = "none"
           [] status[s] = "running" -> status'[s] \in Final
           [] status[s] = "killed"  ->
                status'[s] = "absent" \/ task[s] = "reporting"
           [] OTHER                 -> status'[s] = "absent"
    ]_status

(***************************************************************************)
(* kill is documented to abort the session's task: once it has returned    *)
(* true, the task does not go on working.                                  *)
(***************************************************************************)
KillStopsTask == \A s \in killed : task[s] # "working"

\* A queued spawn is answered: it gets its slot or its timeout message.
QueueAnswered ==
  \A s \in Sessions : call[s] = "queued" ~> call[s] \in {"refused", "returned"}

\* Every running session leaves its slot again.
SlotsFreed ==
  \A s \in Sessions : status[s] = "running" ~> status[s] # "running"
=============================================================================
