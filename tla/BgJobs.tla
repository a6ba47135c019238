------------------------------- MODULE BgJobs -------------------------------
(***************************************************************************)
(* Background jobs, the bg_run tool (tools/bg_run.rs).  The calls of one   *)
(* response, and of several turns, run side by side.  Each counts the      *)
(* running jobs and inserts its own in two steps, with the lock of the job *)
(* table released in between.  Jobs are never removed: drain_completed and *)
(* cleanup_expired have no caller outside the tests.                       *)
(***************************************************************************)
EXTENDS Naturals, FiniteSets

CONSTANTS
  JobCalls,   \* calls of bg_run for a tool that exists
  MaxJobs     \* MAX_CONCURRENT_JOBS

ASSUME JobsAssumption == IsFiniteSet(JobCalls) /\ MaxJobs \in Nat

VARIABLES
  request,    \* of each call: "new", "counted", "refused", "accepted"
  job,        \* its job: "none", "running", "complete", "failed"
  at_once     \* history: the most calls that have counted and not inserted yet

jobVars == <<request, job, at_once>>

RunningJobs == {c \in JobCalls : job[c] = "running"}
Counting(c) == request[c] = "counted"

JobsInit ==
  /\ request = [c \in JobCalls |-> "new"]
  /\ job = [c \in JobCalls |-> "none"]
  /\ at_once = 0

\* Mutant of HasRoom: the limit itself is let through.
HasRoomInclusive == Cardinality(RunningJobs) <= MaxJobs
HasRoom == Cardinality(RunningJobs) < MaxJobs

CountJobs(c) ==
  /\ request[c] = "new"
  /\ \/ ~HasRoom /\ request' = [request EXCEPT ![c] = "refused"]
     \/ HasRoom /\ request' = [request EXCEPT ![c] = "counted"]
  /\ LET counting == Cardinality({d \in JobCalls : Counting(d)'})
     IN  at_once' = IF counting > at_once THEN counting ELSE at_once
  /\ UNCHANGED job

\* The job is inserted, and its task spawned without another await.
StartJob(c) ==
  /\ Counting(c)
  /\ request' = [request EXCEPT ![c] = "accepted"]
  /\ job' = [job EXCEPT ![c] = "running"]
  /\ UNCHANGED at_once

\* The turn is cancelled while the call waits for the lock.
AbandonJob(c) ==
  /\ Counting(c)
  /\ request' = [request EXCEPT ![c] = "refused"]
  /\ UNCHANGED <<job, at_once>>

\* The tool answers, fails or runs into BG_TOOL_TIMEOUT_SECS.
EndJob(c) ==
  /\ job[c] = "running"
  /\ \E outcome \in {"complete", "failed"} :
       job' = [job EXCEPT ![c] = outcome]
  /\ UNCHANGED <<request, at_once>>

JobsNext ==
  \E c \in JobCalls :
    CountJobs(c) \/ StartJob(c) \/ AbandonJob(c) \/ EndJob(c)

JobsSpec == JobsInit /\ [][JobsNext]_jobVars

-----------------------------------------------------------------------------
\* However many calls count and insert side by side, the limit is exceeded by
\* fewer jobs than the most calls that had counted and not inserted at once:
\* calls that come one by one never exceed it (BgRunTool::execute).
OvershootBounded ==
  Cardinality(RunningJobs) + 1 <= MaxJobs + at_once \/ RunningJobs = {}

\* The comments "Maximum concurrent background jobs per session" and "Enforce
\* concurrent job limit": no more jobs than that are running.
LimitKept == Cardinality(RunningJobs) <= MaxJobs
=============================================================================
