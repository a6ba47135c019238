-------------------------- MODULE BackgroundProofs --------------------------
(***************************************************************************)
(* Theorems about what runs in the background: the sub-agents and jobs     *)
(* that turns leave running, for any sets of sessions and calls and any    *)
(* limits, and the loops that restart components and listeners.            *)
(***************************************************************************)
EXTENDS SubAgents, BgJobs, Supervision, SequenceLemmas

-----------------------------------------------------------------------------
(* Sub-agents                                                              *)

\* How far a call is bounds what its task and its session can be.
CallOrder ==
  \A s \in Sessions :
    /\ call[s] \in {"idle", "queued", "refused"} =>
         status[s] = "absent" /\ task[s] = "none"
    /\ call[s] = "inserted" => task[s] = "none"
    /\ status[s] \in {"completed", "failed"} => task[s] = "finished"

Inv == SubAgentsTypeOK /\ CallOrder /\ NoLeakedSlot /\ ResultMatchesStatus

\* The registry without sessions satisfies the invariant.
LEMMA InitInv == SubAgentsInit => Inv
BY DEF SubAgentsInit, Inv, SubAgentsTypeOK, Calls, Tasks, Statuses, CallOrder,
       NoLeakedSlot, Running, ResultMatchesStatus

\* The session every action but List is about; List only drops sessions.
LEMMA NextSplits ==
  ASSUME SubAgentsNext
  PROVE  \/ \E s \in Sessions : Spawn(s) \/ Poll(s)
         \/ \E s \in Sessions : DropCall(s) \/ DeadlinePasses(s)
         \/ \E s \in Sessions : StartTask(s) \/ SetHandle(s)
         \/ \E s \in Sessions : TaskResult(s) \/ Report(s) \/ Unwind(s)
         \/ \E s \in Sessions : Kill(s) \/ GrowOld(s)
         \/ List
BY DEF SubAgentsNext

\* Every step keeps the invariant.
LEMMA NextInv == Inv /\ [SubAgentsNext]_subagentVars => Inv'
<1> SUFFICES ASSUME Inv, [SubAgentsNext]_subagentVars PROVE Inv'
  OBVIOUS
<1> USE DEF callVars, taskVars, sessionVars
<1>1. CASE \E s \in Sessions : Spawn(s) \/ Poll(s)
  <2> PICK s \in Sessions : Spawn(s) \/ Poll(s)
    BY <1>1
  <2>1. /\ call[s] \in {"idle", "queued"} /\ UNCHANGED <<task, succeeded, killed>>
        /\ \/ expired' = expired
           \/ expired' = [expired EXCEPT ![s] = FALSE]
        /\ queue_waits' = queue_waits
    BY DEF Spawn, Poll
  <2>2. CASE Insert(s)
    <3>1. SubAgentsTypeOK'
      BY <2>1, <2>2 DEF Inv, SubAgentsTypeOK,
                Insert, Calls, Statuses
    <3>2. CallOrder'
      BY <2>1, <2>2 DEF Inv, SubAgentsTypeOK, CallOrder,
                Insert, Calls, Statuses
    <3>3. NoLeakedSlot'
      BY <2>1, <2>2 DEF Inv, SubAgentsTypeOK, CallOrder, NoLeakedSlot, Running,
                Insert, Calls, Statuses
    <3>4. ResultMatchesStatus'
      BY <2>1, <2>2 DEF Inv, SubAgentsTypeOK, CallOrder, ResultMatchesStatus,
                Insert, Calls, Statuses
    <3>. QED
      BY <3>1, <3>2, <3>3, <3>4 DEF Inv
  <2>3. CASE /\ UNCHANGED sessionVars
             /\ \/ call' = [call EXCEPT ![s] = "refused"]
                \/ call' = [call EXCEPT ![s] = "queued"]
    <3>1. SubAgentsTypeOK'
      BY <2>1, <2>3 DEF Inv, SubAgentsTypeOK,
                Calls
    <3>2. CallOrder'
      BY <2>1, <2>3 DEF Inv, SubAgentsTypeOK, CallOrder,
                Calls
    <3>3. NoLeakedSlot'
      BY <2>1, <2>3 DEF Inv, SubAgentsTypeOK, CallOrder, NoLeakedSlot, Running,
                Calls
    <3>4. ResultMatchesStatus'
      BY <2>1, <2>3 DEF Inv, SubAgentsTypeOK, CallOrder, ResultMatchesStatus,
                Calls
    <3>. QED
      BY <3>1, <3>2, <3>3, <3>4 DEF Inv
  <2>. QED
    BY <2>2, <2>3 DEF Spawn, Poll, Refuse
<1>2. CASE \E s \in Sessions : DropCall(s) \/ DeadlinePasses(s)
  <2> PICK s \in Sessions : DropCall(s) \/ DeadlinePasses(s)
    BY <1>2
  <2>1. CASE DropCall(s)
    <3>1. SubAgentsTypeOK'
      BY <2>1 DEF Inv, SubAgentsTypeOK,
                DropCall, Refuse, Calls
    <3>2. CallOrder'
      BY <2>1 DEF Inv, SubAgentsTypeOK, CallOrder,
                DropCall, Refuse, Calls
    <3>3. NoLeakedSlot'
      BY <2>1 DEF Inv, SubAgentsTypeOK, CallOrder, NoLeakedSlot, Running,
                DropCall, Refuse, Calls
    <3>4. ResultMatchesStatus'
      BY <2>1 DEF Inv, SubAgentsTypeOK, CallOrder, ResultMatchesStatus,
                DropCall, Refuse, Calls
    <3>. QED
      BY <3>1, <3>2, <3>3, <3>4 DEF Inv
  <2>2. CASE DeadlinePasses(s)
    <3>1. SubAgentsTypeOK'
      BY <2>2 DEF Inv, SubAgentsTypeOK,
                DeadlinePasses, Calls
    <3>2. CallOrder'
      BY <2>2 DEF Inv, SubAgentsTypeOK, CallOrder,
                DeadlinePasses, Calls
    <3>3. NoLeakedSlot'
      BY <2>2 DEF Inv, SubAgentsTypeOK, CallOrder, NoLeakedSlot, Running,
                DeadlinePasses, Calls
    <3>4. ResultMatchesStatus'
      BY <2>2 DEF Inv, SubAgentsTypeOK, CallOrder, ResultMatchesStatus,
                DeadlinePasses, Calls
    <3>. QED
      BY <3>1, <3>2, <3>3, <3>4 DEF Inv
  <2>. QED
    BY <2>1, <2>2
<1>3. CASE \E s \in Sessions : StartTask(s) \/ SetHandle(s)
  <2> PICK s \in Sessions : StartTask(s) \/ SetHandle(s)
    BY <1>3
  <2>1. CASE StartTask(s)
    <3>1. SubAgentsTypeOK'
      BY <2>1 DEF Inv, SubAgentsTypeOK,
                StartTask, Calls, Tasks
    <3>2. CallOrder'
      BY <2>1 DEF Inv, SubAgentsTypeOK, CallOrder,
                StartTask, Calls, Tasks
    <3>3. NoLeakedSlot'
      BY <2>1 DEF Inv, SubAgentsTypeOK, CallOrder, NoLeakedSlot, Running,
                StartTask, Calls, Tasks
    <3>4. ResultMatchesStatus'
      BY <2>1 DEF Inv, SubAgentsTypeOK, CallOrder, ResultMatchesStatus,
                StartTask, Calls, Tasks
    <3>. QED
      BY <3>1, <3>2, <3>3, <3>4 DEF Inv
  <2>2. CASE SetHandle(s)
    <3>1. SubAgentsTypeOK'
      BY <2>2 DEF Inv, SubAgentsTypeOK,
                SetHandle, Calls
    <3>2. CallOrder'
      BY <2>2 DEF Inv, SubAgentsTypeOK, CallOrder,
                SetHandle, Calls
    <3>3. NoLeakedSlot'
      BY <2>2 DEF Inv, SubAgentsTypeOK, CallOrder, NoLeakedSlot, Running,
                SetHandle, Calls
    <3>4. ResultMatchesStatus'
      BY <2>2 DEF Inv, SubAgentsTypeOK, CallOrder, ResultMatchesStatus,
                SetHandle, Calls
    <3>. QED
      BY <3>1, <3>2, <3>3, <3>4 DEF Inv
  <2>. QED
    BY <2>1, <2>2
<1>4. CASE \E s \in Sessions : TaskResult(s) \/ Report(s) \/ Unwind(s)
  <2> PICK s \in Sessions : TaskResult(s) \/ Report(s) \/ Unwind(s)
    BY <1>4
  <2>1. CASE TaskResult(s)
    <3>1. SubAgentsTypeOK'
      BY <2>1 DEF Inv, SubAgentsTypeOK,
                TaskResult, Tasks
    <3>2. CallOrder'
      BY <2>1 DEF Inv, SubAgentsTypeOK, CallOrder,
                TaskResult, Tasks
    <3>3. NoLeakedSlot'
      BY <2>1 DEF Inv, SubAgentsTypeOK, CallOrder, NoLeakedSlot, Running,
                TaskResult, Tasks
    <3>4. ResultMatchesStatus'
      BY <2>1 DEF Inv, SubAgentsTypeOK, CallOrder, ResultMatchesStatus,
                TaskResult, Tasks
    <3>. QED
      BY <3>1, <3>2, <3>3, <3>4 DEF Inv
  <2>2. CASE Report(s)
    <3>1. SubAgentsTypeOK'
      BY ZenonT(60), <2>2 DEF Inv, SubAgentsTypeOK,
                Report, Tasks, Statuses
    <3>2. CallOrder'
      BY ZenonT(60), <2>2 DEF Inv, SubAgentsTypeOK, CallOrder,
                Report, Tasks, Statuses
    <3>3. NoLeakedSlot'
      BY ZenonT(60), <2>2 DEF Inv, SubAgentsTypeOK, CallOrder, NoLeakedSlot, Running,
                Report, Tasks, Statuses
    <3>4. ResultMatchesStatus'
      <4>1. CASE UNCHANGED sessionVars
        BY <4>1 DEF Inv, ResultMatchesStatus
      <4>2. CASE \E ok \in BOOLEAN :
              /\ status' = [status EXCEPT
                              ![s] = IF ok THEN "completed" ELSE "failed"]
              /\ result' = [result EXCEPT ![s] = IF ok THEN "output" ELSE "error"]
        BY <4>2 DEF Inv, SubAgentsTypeOK, ResultMatchesStatus
      <4>3. succeeded[s] \in BOOLEAN
        BY DEF Inv, SubAgentsTypeOK
      <4>. QED
        BY <2>2, <4>1, <4>2, <4>3 DEF Report
    <3>. QED
      BY <3>1, <3>2, <3>3, <3>4 DEF Inv
  <2>3. CASE Unwind(s)
    <3>1. SubAgentsTypeOK'
      BY <2>3 DEF Inv, SubAgentsTypeOK,
                Unwind, Tasks
    <3>2. CallOrder'
      BY <2>3 DEF Inv, SubAgentsTypeOK, CallOrder,
                Unwind, Tasks
    <3>3. NoLeakedSlot'
      BY <2>3 DEF Inv, SubAgentsTypeOK, CallOrder, NoLeakedSlot, Running,
                Unwind, Tasks
    <3>4. ResultMatchesStatus'
      BY <2>3 DEF Inv, SubAgentsTypeOK, CallOrder, ResultMatchesStatus,
                Unwind, Tasks
    <3>. QED
      BY <3>1, <3>2, <3>3, <3>4 DEF Inv
  <2>. QED
    BY <2>1, <2>2, <2>3
<1>5. CASE \E s \in Sessions : Kill(s) \/ GrowOld(s)
  <2> PICK s \in Sessions : Kill(s) \/ GrowOld(s)
    BY <1>5
  <2>1. CASE Kill(s)
    <3>1. SubAgentsTypeOK'
      BY <2>1 DEF Inv, SubAgentsTypeOK,
                Kill, Tasks, Statuses
    <3>2. CallOrder'
      BY <2>1 DEF Inv, SubAgentsTypeOK, CallOrder,
                Kill, Tasks, Statuses
    <3>3. NoLeakedSlot'
      BY <2>1 DEF Inv, SubAgentsTypeOK, CallOrder, NoLeakedSlot, Running,
                Kill, Tasks, Statuses
    <3>4. ResultMatchesStatus'
      BY <2>1 DEF Inv, SubAgentsTypeOK, CallOrder, ResultMatchesStatus,
                Kill, Tasks, Statuses
    <3>. QED
      BY <3>1, <3>2, <3>3, <3>4 DEF Inv
  <2>2. CASE GrowOld(s)
    <3>1. SubAgentsTypeOK'
      BY <2>2 DEF Inv, SubAgentsTypeOK,
                GrowOld, Final
    <3>2. CallOrder'
      BY <2>2 DEF Inv, SubAgentsTypeOK, CallOrder,
                GrowOld, Final
    <3>3. NoLeakedSlot'
      BY <2>2 DEF Inv, SubAgentsTypeOK, CallOrder, NoLeakedSlot, Running,
                GrowOld, Final
    <3>4. ResultMatchesStatus'
      BY <2>2 DEF Inv, SubAgentsTypeOK, CallOrder, ResultMatchesStatus,
                GrowOld, Final
    <3>. QED
      BY <3>1, <3>2, <3>3, <3>4 DEF Inv
  <2>. QED
    BY <2>1, <2>2
<1>6. CASE List
  <2>1. SubAgentsTypeOK'
    BY <1>6 DEF Inv, SubAgentsTypeOK,
              List, Statuses, Final
  <2>2. CallOrder'
    BY <1>6 DEF Inv, SubAgentsTypeOK, CallOrder,
              List, Statuses, Final
  <2>3. NoLeakedSlot'
    BY <1>6 DEF Inv, SubAgentsTypeOK, CallOrder, NoLeakedSlot, Running,
              List, Statuses, Final
  <2>4. ResultMatchesStatus'
    BY <1>6 DEF Inv, SubAgentsTypeOK, CallOrder, ResultMatchesStatus,
              List, Statuses, Final
  <2>. QED
    BY <2>1, <2>2, <2>3, <2>4 DEF Inv
<1>7. CASE UNCHANGED subagentVars
  <2>1. SubAgentsTypeOK'
    BY <1>7 DEF Inv, SubAgentsTypeOK,
              subagentVars
  <2>2. CallOrder'
    BY <1>7 DEF Inv, SubAgentsTypeOK, CallOrder,
              subagentVars
  <2>3. NoLeakedSlot'
    BY <1>7 DEF Inv, SubAgentsTypeOK, CallOrder, NoLeakedSlot, Running,
              subagentVars
  <2>4. ResultMatchesStatus'
    BY <1>7 DEF Inv, SubAgentsTypeOK, CallOrder, ResultMatchesStatus,
              subagentVars
  <2>. QED
    BY <2>1, <2>2, <2>3, <2>4 DEF Inv
<1>. QED
  BY <1>1, <1>2, <1>3, <1>4, <1>5, <1>6, <1>7, NextSplits

\* Type correctness of the registry, its calls and its tasks.
THEOREM SubAgentTypes == SubAgentsSpec => []SubAgentsTypeOK
BY InitInv, NextInv, PTL DEF SubAgentsSpec, Inv

\* The invariant holds in every state of the registry.
LEMMA InvHolds == SubAgentsSpec => []Inv
BY InitInv, NextInv, PTL DEF SubAgentsSpec

\* Every running session has a task that will give its slot back.
THEOREM NoSlotLeaks == SubAgentsSpec => []NoLeakedSlot
BY InvHolds, PTL DEF Inv

\* A session never shows the result of another status.
THEOREM ResultsMatch == SubAgentsSpec => []ResultMatchesStatus
BY InvHolds, PTL DEF Inv

(***************************************************************************)
(* Reports are final, and only the run that a kill was meant to stop can   *)
(* overwrite the killed status.                                            *)
(***************************************************************************)
THEOREM StatusesStep == SubAgentsSpec => StatusSteps
<1>1. Inv /\ [SubAgentsNext]_subagentVars =>
        [\A s \in Sessions :
           status'[s] # status[s] =>
             CASE status[s] = "absent"  -> status'[s] = "running" /\ task[s] = "none"
               [] status[s] = "running" -> status'[s] \in Final
               [] status[s] = "killed"  ->
                    status'[s] = "absent" \/ task[s] = "reporting"
               [] OTHER                 -> status'[s] = "absent"]_status
  <2> SUFFICES ASSUME Inv, SubAgentsNext,
                      NEW s \in Sessions, status'[s] # status[s]
      PROVE  CASE status[s] = "absent"  -> status'[s] = "running" /\ task[s] = "none"
               [] status[s] = "running" -> status'[s] \in Final
               [] status[s] = "killed"  ->
                    status'[s] = "absent" \/ task[s] = "reporting"
               [] OTHER                 -> status'[s] = "absent"
    BY DEF subagentVars, sessionVars
  <2> USE DEF Inv, SubAgentsTypeOK, CallOrder, Statuses, Final, sessionVars
  <2>1. CASE \E x \in Sessions : Spawn(x) \/ Poll(x)
    BY <2>1 DEF Spawn, Poll, Insert, Refuse
  <2>2. CASE \E x \in Sessions : DropCall(x) \/ DeadlinePasses(x)
    BY <2>2 DEF DropCall, DeadlinePasses, Refuse
  <2>3. CASE \E x \in Sessions : StartTask(x) \/ SetHandle(x)
    BY <2>3 DEF StartTask, SetHandle
  <2>4. CASE \E x \in Sessions : TaskResult(x) \/ Report(x) \/ Unwind(x)
    <3> PICK x \in Sessions : TaskResult(x) \/ Report(x) \/ Unwind(x)
      BY <2>4
    <3>1. Report(x) /\ x = s /\ status[s] # "absent" /\ task[s] = "reporting"
      BY ZenonT(60) DEF TaskResult, Report, Unwind
    <3>2. status'[s] \in {"completed", "failed"}
      BY ZenonT(60), <3>1 DEF Report
    <3>3. status[s] \notin {"completed", "failed"}
      BY <3>1
    <3>. QED
      BY <3>1, <3>2, <3>3
  <2>5. CASE \E x \in Sessions : Kill(x) \/ GrowOld(x)
    BY <2>5 DEF Kill, GrowOld
  <2>6. CASE List
    BY <2>6 DEF List
  <2>. QED
    BY <2>1, <2>2, <2>3, <2>4, <2>5, <2>6, NextSplits
<1>. QED
  BY <1>1, InvHolds, PTL DEF SubAgentsSpec, StatusSteps

(***************************************************************************)
(* However many calls compete, the sessions that count as running never    *)
(* exceed max_concurrent: checking the limit and inserting is one step.    *)
(***************************************************************************)
THEOREM LimitHolds == SubAgentsSpec => []SlotsBounded
<1>1. SubAgentsInit => SlotsBounded
  <2> SUFFICES ASSUME SubAgentsInit PROVE Cardinality(Running) <= MaxConcurrent
    BY DEF SlotsBounded
  <2>1. Running = {}
    BY DEF SubAgentsInit, Running
  <2>. QED
    BY <2>1, FS_EmptySet, SubAgentsAssumption
<1>2. SubAgentsTypeOK /\ SlotsBounded /\ [SubAgentsNext]_subagentVars => SlotsBounded'
  <2> SUFFICES ASSUME SubAgentsTypeOK, SlotsBounded, [SubAgentsNext]_subagentVars
               PROVE  SlotsBounded'
    OBVIOUS
  <2>1. /\ IsFiniteSet(Running) /\ Cardinality(Running) \in Nat
        /\ MaxConcurrent \in Nat
    BY SubAgentsAssumption, FS_Subset, FS_CardinalityType DEF Running
  <2>2. ASSUME NEW s \in Sessions, HasSlot, Insert(s)
        PROVE  SlotsBounded'
    <3>1. Running' = Running \cup {s}
      BY <2>2 DEF Insert, Running, SubAgentsTypeOK
    <3>2. Cardinality(Running') <= Cardinality(Running) + 1
      BY <2>1, <3>1, FS_AddElement
    <3>3. Cardinality(Running') \in Nat
      BY <2>1, <3>1, FS_AddElement, FS_CardinalityType
    <3>. QED
      BY <2>1, <2>2, <3>2, <3>3 DEF HasSlot, SlotsBounded
  <2>3. ASSUME Running' \subseteq Running
        PROVE  SlotsBounded'
    <3>1. Cardinality(Running') <= Cardinality(Running) /\ IsFiniteSet(Running')
      BY <2>1, <2>3, FS_Subset
    <3>2. Cardinality(Running') \in Nat
      BY <3>1, FS_CardinalityType
    <3>. QED
      BY <2>1, <3>1, <3>2 DEF SlotsBounded
  <2>4. Running' \subseteq Running \/ \E s \in Sessions : HasSlot /\ Insert(s)
    <3> USE DEF Running, SubAgentsTypeOK, sessionVars, Final
    <3>1. CASE \E s \in Sessions : Spawn(s) \/ Poll(s)
      BY <3>1 DEF Spawn, Poll, Refuse
    <3>2. CASE \E s \in Sessions : DropCall(s) \/ DeadlinePasses(s)
      BY <3>2 DEF DropCall, DeadlinePasses, Refuse
    <3>3. CASE \E s \in Sessions : StartTask(s) \/ SetHandle(s)
      BY <3>3 DEF StartTask, SetHandle
    <3>4. CASE \E s \in Sessions : TaskResult(s) \/ Report(s) \/ Unwind(s)
      BY ZenonT(60), <3>4 DEF TaskResult, Report, Unwind
    <3>5. CASE \E s \in Sessions : Kill(s) \/ GrowOld(s)
      BY <3>5 DEF Kill, GrowOld
    <3>6. CASE List
      BY <3>6 DEF List
    <3>7. CASE UNCHANGED subagentVars
      BY <3>7 DEF subagentVars
    <3>. QED
      BY <3>1, <3>2, <3>3, <3>4, <3>5, <3>6, <3>7, NextSplits
  <2>. QED
    BY <2>2, <2>3, <2>4
<1>. QED
  BY <1>1, <1>2, SubAgentTypes, PTL DEF SubAgentsSpec

-----------------------------------------------------------------------------
(* Background jobs                                                         *)

CountingCalls == {c \in JobCalls : Counting(c)}

\* A call that has counted found fewer than MaxJobs jobs and at most at_once
\* others like itself.
Overshoot ==
  \/ RunningJobs = {} /\ CountingCalls = {}
  \/ Cardinality(RunningJobs) + Cardinality(CountingCalls) + 1 <= MaxJobs + at_once

JobsInv ==
  /\ request \in [JobCalls -> {"new", "counted", "refused", "accepted"}]
  /\ job \in [JobCalls -> {"none", "running", "complete", "failed"}]
  /\ at_once \in Nat
  /\ Overshoot

\* Sets of calls can be counted, and one call more or less changes that by one.
LEMMA JobSizes ==
  ASSUME NEW S \in SUBSET JobCalls
  PROVE  /\ IsFiniteSet(S) /\ Cardinality(S) \in Nat
         /\ \A T \in SUBSET S : Cardinality(T) <= Cardinality(S)
         /\ \A c \in JobCalls : Cardinality(S \cup {c}) <= Cardinality(S) + 1
         /\ \A c \in S : Cardinality(S \ {c}) = Cardinality(S) - 1
<1>1. IsFiniteSet(S)
  BY JobsAssumption, FS_Subset
<1>2. Cardinality(S) \in Nat
  BY <1>1, FS_CardinalityType
<1>3. ASSUME NEW c \in JobCalls PROVE Cardinality(S \cup {c}) <= Cardinality(S) + 1
  <2>1. Cardinality(S \cup {c})
          = IF c \in S THEN Cardinality(S) ELSE Cardinality(S) + 1
    BY <1>1, FS_AddElement, Zenon
  <2>2. Cardinality(S \cup {c}) \in {Cardinality(S), Cardinality(S) + 1}
    BY <2>1
  <2>. QED
    BY <1>2, <2>2
<1>. QED
  BY <1>1, <1>2, <1>3, FS_Subset, FS_RemoveElement

\* Every step of the calls and jobs keeps the invariant.
LEMMA JobsStep == JobsInv /\ [JobsNext]_jobVars => JobsInv'
<1> SUFFICES ASSUME JobsInv, [JobsNext]_jobVars PROVE JobsInv'
  OBVIOUS
<1> DEFINE R == RunningJobs
           C == CountingCalls
<1>1. R \in SUBSET JobCalls /\ C \in SUBSET JobCalls
      /\ R' \in SUBSET JobCalls /\ C' \in SUBSET JobCalls
  BY DEF RunningJobs, CountingCalls
<1>2. /\ Cardinality(R) \in Nat /\ Cardinality(C) \in Nat
      /\ Cardinality(R') \in Nat /\ Cardinality(C') \in Nat
      /\ MaxJobs \in Nat /\ at_once \in Nat
  BY <1>1, JobSizes, JobsAssumption DEF JobsInv
<1>3. CASE \E c \in JobCalls : CountJobs(c)
  <2> PICK c \in JobCalls : CountJobs(c)
    BY <1>3
  <2>1. C' = {d \in JobCalls : Counting(d)'}
    BY DEF CountingCalls
  <2>2. at_once' = IF Cardinality(C') > at_once THEN Cardinality(C') ELSE at_once
    BY <2>1 DEF CountJobs
  <2>3. at_once' \in Nat /\ at_once' >= at_once /\ at_once' >= Cardinality(C')
    BY <1>2, <2>2
  <2>4. R' = R
    BY DEF CountJobs, RunningJobs
  <2>5. CASE ~HasRoom /\ request' = [request EXCEPT ![c] = "refused"]
    <3>1. C' \subseteq C
      BY <2>5 DEF CountingCalls, Counting, JobsInv
    <3>2. Cardinality(C') <= Cardinality(C) /\ (C = {} => C' = {})
      BY <1>1, <3>1, JobSizes
    <3>3. Overshoot'
      <4> HIDE DEF R, C
      <4>1. \/ R = {} /\ C = {}
            \/ Cardinality(R) + Cardinality(C) + 1 <= MaxJobs + at_once
        BY DEF JobsInv, Overshoot, R, C
      <4>2. \/ R' = {} /\ C' = {}
            \/ Cardinality(R') + Cardinality(C') + 1 <= MaxJobs + at_once'
        BY <1>2, <2>3, <2>4, <3>2, <4>1
      <4>. QED
        BY <4>2 DEF Overshoot, R, C
    <3>. QED
      BY <2>3, <2>5, <3>3 DEF JobsInv, CountJobs
  <2>6. CASE HasRoom /\ request' = [request EXCEPT ![c] = "counted"]
    <3>1. Cardinality(R) < MaxJobs
      BY <2>6 DEF HasRoom
    <3>2. Overshoot'
      <4> HIDE DEF R, C
      <4>1. Cardinality(R') + Cardinality(C') + 1 <= MaxJobs + at_once'
        BY <1>2, <2>3, <2>4, <3>1
      <4>. QED
        BY <4>1 DEF Overshoot, R, C
    <3>. QED
      BY <2>3, <2>6, <3>2 DEF JobsInv, CountJobs
  <2>. QED
    BY <2>5, <2>6 DEF CountJobs
<1>4. ASSUME at_once' = at_once,
             Cardinality(R') + Cardinality(C') <= Cardinality(R) + Cardinality(C),
             R = {} /\ C = {} => R' = {} /\ C' = {}
      PROVE  Overshoot'
  <2> HIDE DEF R, C
  <2>1. \/ R = {} /\ C = {}
        \/ Cardinality(R) + Cardinality(C) + 1 <= MaxJobs + at_once
    BY DEF JobsInv, Overshoot, R, C
  <2>2. \/ R' = {} /\ C' = {}
        \/ Cardinality(R') + Cardinality(C') + 1 <= MaxJobs + at_once'
    BY <1>2, <1>4, <2>1
  <2>. QED
    BY <2>2 DEF Overshoot, R, C
<1>5. CASE \E c \in JobCalls : StartJob(c)
  <2> PICK c \in JobCalls : StartJob(c)
    BY <1>5
  <2>1. c \in C /\ C' = C \ {c} /\ R' = R \cup {c}
    BY DEF StartJob, CountingCalls, Counting, RunningJobs, JobsInv
  <2>2. Cardinality(C') = Cardinality(C) - 1 /\ Cardinality(R') <= Cardinality(R) + 1
    BY <1>1, <2>1, JobSizes
  <2>3. Overshoot'
    <3>1. at_once' = at_once /\ C # {}
      BY <2>1 DEF StartJob
    <3>2. Cardinality(R') + Cardinality(C') <= Cardinality(R) + Cardinality(C)
      <4> HIDE DEF R, C
      <4>. QED BY <1>2, <2>2
    <3>. QED
      BY <1>4, <3>1, <3>2
  <2>. QED
    BY <2>3 DEF StartJob, JobsInv
<1>6. CASE \/ \E c \in JobCalls : AbandonJob(c) \/ EndJob(c)
           \/ UNCHANGED jobVars
  <2>1. C' \subseteq C /\ R' \subseteq R
    BY <1>6 DEF AbandonJob, EndJob, jobVars, CountingCalls, Counting, RunningJobs, JobsInv
  <2>2. Cardinality(C') <= Cardinality(C) /\ Cardinality(R') <= Cardinality(R)
    BY <1>1, <2>1, JobSizes
  <2>3. at_once' = at_once
    BY <1>6 DEF AbandonJob, EndJob, jobVars
  <2>4. Overshoot'
    <3>1. Cardinality(R') + Cardinality(C') <= Cardinality(R) + Cardinality(C)
      <4> HIDE DEF R, C
      <4>. QED BY <1>2, <2>2
    <3>. QED
      BY <1>4, <2>1, <2>3, <3>1
  <2>. QED
    BY <1>6, <2>4 DEF AbandonJob, EndJob, jobVars, JobsInv
<1>. QED
  BY <1>3, <1>5, <1>6 DEF JobsNext

\* The limit of bg_run is exceeded by calls that count at the same time only,
\* and by one fewer than they are.
THEOREM JobsOvershoot == JobsSpec => []OvershootBounded
<1>1. JobsInit => JobsInv
  BY DEF JobsInit, JobsInv, Overshoot, RunningJobs, CountingCalls, Counting
<1>2. JobsInv => OvershootBounded
  <2> SUFFICES ASSUME JobsInv PROVE OvershootBounded
    OBVIOUS
  <2>1. Cardinality(RunningJobs) \in Nat /\ Cardinality(CountingCalls) \in Nat
    BY JobSizes DEF RunningJobs, CountingCalls
  <2>. QED
    BY <2>1, JobsAssumption DEF JobsInv, Overshoot, OvershootBounded
<1>. QED
  BY <1>1, <1>2, JobsStep, PTL DEF JobsSpec

-----------------------------------------------------------------------------
(* Supervision                                                             *)

\* What the backoff is compared with doubles with every wait.
LEMMA GrowingDoubles ==
  /\ Growing \in [Nat -> Nat]
  /\ Growing[0] = FirstBackoff
  /\ \A n \in Nat : Growing[n + 1] = 2 * Growing[n]
<1> DEFINE first == FirstBackoff
           step == [n \in Nat \ {0} |-> [v \in Nat |-> 2 * v]]
           Grows(g) == g = [n \in Nat |-> IF n = 0 THEN first ELSE 2 * g[n - 1]]
           c == CHOOSE g : Grows(g)
<1>1. first \in Nat
  BY SupervisionAssumption DEF FirstBackoff, AtLeast
<1>2. Growing = c
  BY DEF Growing
<1>3. step \in [Nat \ {0} -> [Nat -> Nat]]
  OBVIOUS
<1>4. \A n \in Nat \ {0}, v \in Nat : step[n][v] = 2 * v
  OBVIOUS
<1> HIDE DEF first, step
<1>5. PICK f \in [Nat -> Nat] :
           /\ f[0] = first
           /\ \A n \in Nat \ {0} : f[n] = step[n][f[n - 1]]
  <2>1. \E f : Recursion(f, Nat, first, step)
    BY <1>1, <1>3, RecursionExists
  <2>. QED
    BY <2>1 DEF Recursion
<1>6. \A n \in Nat \ {0} : n - 1 \in Nat /\ f[n - 1] \in Nat
  OBVIOUS
<1>7. \A n \in Nat \ {0} : f[n] = 2 * f[n - 1]
  BY <1>4, <1>5, <1>6
<1>8. Grows(f)
  BY <1>5, <1>7
<1>9. Grows(c)
  BY <1>8
<1> HIDE DEF c
<1>10. c = [n \in Nat |-> IF n = 0 THEN first ELSE 2 * c[n - 1]]
  BY <1>9
<1>11. /\ DOMAIN c = Nat /\ c[0] = first
       /\ \A n \in Nat : n # 0 => c[n] = 2 * c[n - 1]
  <2>1. /\ DOMAIN c = Nat
        /\ \A n \in Nat : c[n] = IF n = 0 THEN first ELSE 2 * c[n - 1]
    BY <1>10, Zenon
  <2>2. 0 \in Nat
    OBVIOUS
  <2>. QED
    BY <2>1, <2>2, Zenon
<1>12. \A n \in Nat : n + 1 \in Nat /\ n + 1 # 0 /\ (n + 1) - 1 = n
  OBVIOUS
<1>13. \A n \in Nat : c[n + 1] = 2 * c[n]
  <2>1. TAKE n \in Nat
  <2>2. c[n + 1] = 2 * c[(n + 1) - 1]
    BY <1>11, <1>12, Zenon
  <2>. QED
    BY <1>12, <2>2
<1>14. c \in [Nat -> Nat]
  <2>1. ASSUME NEW N \in Nat PROVE c[N] \in Nat
    <3> DEFINE S == {n \in 0 .. N : c[n] \in Nat}
    <3>1. 0 \in S
      BY <1>1, <1>11
    <3>2. ASSUME NEW n \in 0 .. N - 1, n \in S PROVE n + 1 \in S
      <4>1. c[n + 1] = 2 * c[n] /\ c[n] \in Nat
        BY <1>13, <3>2
      <4>. QED
        BY <4>1
    <3> HIDE DEF S
    <3>3. 0 .. N \subseteq S
      BY <3>1, <3>2, UpwardInduction
    <3>. QED
      BY <3>3 DEF S
  <2>2. c = [n \in Nat |-> c[n]]
    BY <1>10, <1>11, Zenon
  <2>. QED
    BY <2>1, <2>2
<1>. QED
  BY <1>2, <1>11, <1>13, <1>14 DEF first

Pcs == {"top", "running", "sleeping", "left"}

\* The backoff of a loop is what its waits make of the first one, in every
\* state of the loop and not only while it sleeps.
BackoffInv ==
  /\ supervisors \in [Components -> [pc : Pcs, backoff : Nat]]
  /\ waits \in [Components -> Nat]
  /\ \A c \in Components :
       supervisors[c].backoff = AtMost(Growing[waits[c]], LastBackoff)

\* Doubling a capped backoff is capping the doubled one.
LEMMA DoubledCapped ==
  ASSUME NEW n \in Nat
  PROVE  /\ AtMost(Growing[n], LastBackoff) \in Nat
         /\ Doubled(AtMost(Growing[n], LastBackoff)) =
              AtMost(Growing[n + 1], LastBackoff)
<1> DEFINE g == Growing[n]
           h == Growing[n + 1]
           last == LastBackoff
<1>1. g \in Nat /\ h = 2 * g
  BY GrowingDoubles
<1>2. last \in Nat
  BY SupervisionAssumption DEF LastBackoff, FirstBackoff, AtLeast
<1> HIDE DEF g, h, last
<1>3. AtMost(g, last) \in Nat /\ Doubled(AtMost(g, last)) = AtMost(h, last)
  BY <1>1, <1>2 DEF AtMost, Doubled, last
<1>. QED
  BY <1>3 DEF g, h, last

\* The first backoff is not above the last.
LEMMA FirstCapped ==
  FirstBackoff \in Nat /\ FirstBackoff = AtMost(Growing[0], LastBackoff)
<1>1. FirstBackoff \in Nat /\ LastBackoff \in Nat /\ FirstBackoff <= LastBackoff
  BY SupervisionAssumption DEF LastBackoff, FirstBackoff, AtLeast
<1>. QED
  BY <1>1, GrowingDoubles DEF AtMost

\* Every loop begins with the first backoff.
LEMMA BackoffInit == SupervisionInit => BackoffInv
BY FirstCapped DEF SupervisionInit, BackoffInv, Pcs

\* A clean exit starts anew, a wait doubles, and every other step leaves the
\* backoff and the number of waits alone.
LEMMA BackoffStep ==
  BackoffInv /\ [SupervisionNext]_supervisionVars => BackoffInv'
<1> SUFFICES ASSUME BackoffInv, [SupervisionNext]_supervisionVars
             PROVE  BackoffInv'
  OBVIOUS
<1>1. ASSUME NEW c \in Components, Exit(c) PROVE BackoffInv'
  BY <1>1, FirstCapped DEF BackoffInv, Pcs, Exit, MayEnd, Restarting
<1>2. ASSUME NEW c \in Components, Sleep(c) PROVE BackoffInv'
  <2>1. /\ supervisors' =
             [supervisors EXCEPT ![c] = AfterSleep(supervisors[c].backoff)]
        /\ waits' = [waits EXCEPT ![c] = waits[c] + 1]
        /\ waits[c] \in Nat
        /\ supervisors[c].backoff = AtMost(Growing[waits[c]], LastBackoff)
    BY <1>2 DEF Sleep, BackoffInv
  <2>2. AfterSleep(supervisors[c].backoff) \in [pc : Pcs, backoff : Nat]
    <3>1. Doubled(supervisors[c].backoff) = AtMost(Growing[waits[c] + 1], LastBackoff)
      BY <2>1, DoubledCapped
    <3>2. AtMost(Growing[waits[c] + 1], LastBackoff) \in Nat
      BY <2>1, DoubledCapped
    <3>. QED
      BY <3>1, <3>2 DEF AfterSleep, Pcs
  <2>3. AfterSleep(supervisors[c].backoff).backoff =
          AtMost(Growing[waits[c] + 1], LastBackoff)
    BY <2>1, DoubledCapped DEF AfterSleep
  <2>. QED
    BY <2>1, <2>2, <2>3 DEF BackoffInv
<1>3. ASSUME NEW c \in Components, RunComponent(c) \/ Fail(c) \/ Leave(c)
      PROVE  BackoffInv'
  <2>1. PICK pc \in Pcs :
          supervisors' = [supervisors EXCEPT
                            ![c] = [pc |-> pc, backoff |-> supervisors[c].backoff]]
    <3>1. supervisors[c] = [pc |-> supervisors[c].pc,
                            backoff |-> supervisors[c].backoff]
      BY DEF BackoffInv
    <3>. QED
      BY <1>3, <3>1 DEF RunComponent, Fail, Leave, Restarting, Pcs, BackoffInv
  <2>2. waits' = waits
    BY <1>3 DEF RunComponent, Fail, Leave
  <2>. QED
    BY <2>1, <2>2 DEF BackoffInv
<1>4. CASE UNCHANGED <<supervisors, waits>>
  BY <1>4 DEF BackoffInv
<1>5. ASSUME NEW c \in Components, HealthTick(c) PROVE BackoffInv'
  BY <1>4, <1>5 DEF HealthTick
<1>6. CASE CloseQueue
  BY <1>4, <1>6 DEF CloseQueue
<1>7. CASE UNCHANGED supervisionVars
  BY <1>4, <1>7 DEF supervisionVars
<1>. QED
  BY <1>1, <1>2, <1>3, <1>5, <1>6, <1>7 DEF SupervisionNext, SupervisorLoop

\* The wait of a supervisor before a restart (spawn_component_supervisor,
\* spawn_supervised_listener) depends only on the waits since the last clean
\* exit, for any number of components and any configured backoffs.
THEOREM BackoffsFollow == SupervisionSpec => []BackoffFollowsFailures
<1>1. BackoffInv => BackoffFollowsFailures
  BY DEF BackoffInv, BackoffFollowsFailures
<1>. QED
  BY <1>1, BackoffInit, BackoffStep, PTL DEF SupervisionSpec
=============================================================================
