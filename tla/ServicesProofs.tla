-------------------------- MODULE ServicesProofs --------------------------
(***************************************************************************)
(* Theorems about the services a turn uses: the approvals of its tools,    *)
(* for any calls, askers and commands; the failover between models, for    *)
(* any chain, keys and remaps; and the totals of the cost tracker, for any *)
(* costs, crashes and failed appends.                                      *)
(***************************************************************************)
EXTENDS Approvals, Failover, CostTracker, SequenceLemmas

-----------------------------------------------------------------------------
(* Approvals                                                               *)

(* Every call asks at most once and gets an id from 1 .. Cardinality of    *)
(* ToolCalls; `Asking` are the calls that have one.                        *)
Asking == {c \in ToolCalls : toolCalls[c].id # 0}
AllIds == 1 .. Cardinality(ToolCalls)
Askers == {AskerOf[c] : c \in ToolCalls}

PendingRequest == [id : RequestIds, tool : Tools, asker : Askers, expired : BOOLEAN]
Resolution == [id : RequestIds, decision : {"Yes", "No"}]
CallState ==
  [pc : {"start", "ask"}, id : {0}, late : BOOLEAN]
    \cup [pc : {"poll", "look"}, id : RequestIds, late : BOOLEAN]
    \cup [pc : {"run", "denied"}, id : RequestIds \cup {0}, late : BOOLEAN]
CommandState ==
  [pc : {"idle"}, id : {0}, tool : {NoTool}]
    \cup [pc : {"grant", "record"}, id : RequestIds, tool : Tools \cup {NoTool}]
    \cup [pc : {"revoke"}, id : {0}, tool : Tools]

ApprovalsTypes ==
  /\ pending \subseteq PendingRequest
  /\ resolved \subseteq Resolution
  /\ last_id \in Nat
  /\ toolCalls \in [ToolCalls -> CallState]
  /\ commands \in [Approvers -> CommandState]
  /\ given \in [AllIds -> Nat] /\ taken \in [AllIds -> Nat]

\* No more ids are given out than calls have asked.
IdsBounded == last_id <= Cardinality(Asking)

\* At most one decision is stored per id, and what is stored and what was
\* taken together are no more than what was recorded.
DecisionsBounded ==
  /\ \A d, e \in resolved : d.id = e.id => d = e
  /\ \A id \in AllIds :
        /\ taken[id] <= given[id]
        /\ Decisions(id) # {} => taken[id] < given[id]

----------------------------------------------------------------------------
(* Ids                                                                     *)

\* The ids given out are among as many as there are calls.
LEMMA IdsFit ==
  ASSUME IdsBounded, ApprovalsTypes
  PROVE  /\ RequestIds \subseteq AllIds
         /\ Cardinality(ToolCalls) \in Nat /\ Cardinality(Asking) \in Nat
<1>1. IsFiniteSet(ToolCalls) /\ Asking \subseteq ToolCalls
  BY ApprovalsAssumption DEF Asking
<1>2. /\ Cardinality(ToolCalls) \in Nat /\ Cardinality(Asking) \in Nat
      /\ Cardinality(Asking) <= Cardinality(ToolCalls)
  BY <1>1, FS_Subset, FS_CardinalityType
<1>. QED
  BY <1>2 DEF IdsBounded, RequestIds, AllIds, ApprovalsTypes

\* A call that has not asked yet may take the next id.
LEMMA NextIdFits ==
  ASSUME IdsBounded, ApprovalsTypes, NEW c \in ToolCalls,
         toolCalls[c].pc = "ask",
         NEW id \in Nat \ {0},
         Polls(c, id)
  PROVE  Cardinality(Asking') = Cardinality(Asking) + 1
<1>1. toolCalls[c].id = 0
  BY DEF ApprovalsTypes, CallState
<1>2. c \notin Asking /\ IsFiniteSet(Asking)
  BY <1>1, ApprovalsAssumption, FS_Subset DEF Asking
<1>3. toolCalls'[c].id = id /\ \A d \in ToolCalls : d # c => toolCalls'[d] = toolCalls[d]
  BY DEF Polls, ApprovalsTypes, CallState
<1>4. Asking' = Asking \cup {c}
  BY <1>3 DEF Asking
<1>. QED
  BY <1>2, <1>4, FS_AddElement

\* A step that gives out no id leaves the types as they are.
LEMMA SameIds ==
  ASSUME last_id' = last_id
  PROVE  /\ RequestIds' = RequestIds /\ PendingRequest' = PendingRequest
         /\ Resolution' = Resolution /\ CallState' = CallState
         /\ CommandState' = CommandState
BY DEF RequestIds, PendingRequest, Resolution, CallState, CommandState

\* A call that goes on keeps its id.
LEMMA GoesOn ==
  ASSUME ApprovalsTypes, NEW c \in ToolCalls,
         NEW pc \in {"run", "ask", "denied", "look", "poll"}, Ends(c, pc),
         \/ toolCalls[c].pc \in {"poll", "look"} /\ pc # "ask"
         \/ toolCalls[c].pc = "start" /\ pc \in {"run", "ask"}
  PROVE  toolCalls' \in [ToolCalls -> CallState] /\ Asking' = Asking
<1> DEFINE call == [toolCalls[c] EXCEPT !.pc = pc]
<1>1. toolCalls[c] \in CallState
  BY DEF ApprovalsTypes
<1>2. call \in CallState /\ call.id = toolCalls[c].id
  BY <1>1 DEF CallState
<1>3. toolCalls' = [toolCalls EXCEPT ![c] = call]
  BY DEF Ends, ApprovalsTypes
<1>. QED
  <2> HIDE DEF call
  <2>. QED BY <1>2, <1>3 DEF Asking, ApprovalsTypes

\* Passing the check, and giving up, keep types and ids.
LEMMA CheckTypes ==
  ASSUME ApprovalsTypes, IdsBounded, NEW c \in ToolCalls, Check(c) \/ TimeUp(c)
  PROVE  ApprovalsTypes' /\ IdsBounded'
<1>1. toolCalls' \in [ToolCalls -> CallState] /\ Asking' = Asking
  <2>1. CASE Check(c)
    BY <2>1, GoesOn DEF Check
  <2>2. CASE TimeUp(c)
    <3> DEFINE call == [toolCalls[c] EXCEPT !.late = TRUE]
    <3>1. toolCalls[c] \in CallState
      BY DEF ApprovalsTypes
    <3>2. call \in CallState /\ call.id = toolCalls[c].id
      BY <3>1 DEF CallState
    <3>3. toolCalls' = [toolCalls EXCEPT ![c] = call]
      BY <2>2 DEF TimeUp, ApprovalsTypes
    <3>. QED
      <4> HIDE DEF call
      <4>. QED BY <3>2, <3>3 DEF Asking, ApprovalsTypes
  <2>. QED
    BY <2>1, <2>2
<1>2. UNCHANGED <<pending, resolved, last_id, commands, given, taken>>
  BY DEF Check, TimeUp
<1>. QED
  BY <1>1, <1>2, SameIds DEF ApprovalsTypes, IdsBounded

\* Asking gives out one id at most and opens no second question.
LEMMA AskTypes ==
  ASSUME ApprovalsTypes, IdsBounded, OneQuestion, NEW c \in ToolCalls, Ask(c)
  PROVE  ApprovalsTypes' /\ IdsBounded' /\ OneQuestion' /\ RequestIds \subseteq RequestIds'
<1>1. PICK late \in BOOLEAN : toolCalls[c] = [pc |-> "ask", id |-> 0, late |-> late]
  BY DEF Ask, ApprovalsTypes, CallState
<1>2. ToolOf[c] \in Tools /\ AskerOf[c] \in Askers
  BY ApprovalsAssumption DEF Askers
<1>3. ASSUME NEW id \in RequestIds',
             Polls(c, id),
             RequestIds \subseteq RequestIds'
      PROVE  toolCalls' \in [ToolCalls -> CallState']
  <2> DEFINE call == [pc |-> "poll", id |-> id, late |-> late]
  <2>1. call \in CallState'
    BY <1>1 DEF CallState
  <2>2. toolCalls' = [toolCalls EXCEPT ![c] = call]
    <3>1. [toolCalls[c] EXCEPT !.pc = "poll", !.id = id] = call
      <4> DEFINE old == [toolCalls[c] EXCEPT !.pc = "poll"]
      <4>1. old = [pc |-> "poll", id |-> 0, late |-> late]
        BY <1>1
      <4>2. [old EXCEPT !.id = id] = call
        <5> HIDE DEF old
        <5>. QED BY <4>1
      <4>. QED
        BY <4>2
    <3>. QED
      BY <1>3, <3>1 DEF Polls, ApprovalsTypes
  <2>3. CallState \subseteq CallState'
    BY <1>3 DEF CallState
  <2>. QED
    <3> HIDE DEF call, CallState
    <3>. QED BY <2>1, <2>2, <2>3 DEF ApprovalsTypes
<1>4. UNCHANGED <<resolved, commands, given, taken>>
  BY DEF Ask
<1>5. CASE \E r \in Matching(c) :
             /\ pending' = Fresh
             /\ Polls(c, r.id)
             /\ UNCHANGED last_id
  <2> PICK r \in Matching(c) :
        /\ pending' = Fresh
        /\ Polls(c, r.id)
        /\ UNCHANGED last_id
    BY <1>5
  <2>1. r.id \in RequestIds /\ RequestIds' = RequestIds
    BY DEF Matching, Fresh, ApprovalsTypes, PendingRequest, RequestIds
  <2>2. toolCalls' \in [ToolCalls -> CallState']
    BY <1>3, <2>1
  <2>3. pending' \subseteq PendingRequest'
    BY <2>1 DEF Fresh, ApprovalsTypes, PendingRequest
  <2>4. Cardinality(Asking') = Cardinality(Asking) + 1
    <3>1. r.id \in Nat \ {0}
      BY <2>1 DEF RequestIds, ApprovalsTypes
    <3>. QED
      BY <3>1, NextIdFits DEF Ask
  <2>5. IdsBounded'
    BY <2>4, IdsFit DEF IdsBounded, ApprovalsTypes
  <2>6. OneQuestion'
    BY DEF OneQuestion, Fresh
  <2>. QED
    BY <1>4, <2>1, <2>2, <2>3, <2>5, <2>6 DEF ApprovalsTypes, Resolution, CommandState
<1>6. CASE /\ Matching(c) = {}
           /\ last_id' = last_id + 1
           /\ pending' = Fresh \cup {[id |-> last_id + 1, tool |-> ToolOf[c],
                                      asker |-> AskerOf[c], expired |-> FALSE]}
           /\ Polls(c, last_id + 1)
  <2> DEFINE new == [id |-> last_id + 1, tool |-> ToolOf[c],
                     asker |-> AskerOf[c], expired |-> FALSE]
  <2>1. /\ RequestIds \subseteq RequestIds' /\ last_id + 1 \in RequestIds'
        /\ last_id' \in Nat /\ last_id + 1 \in Nat \ {0}
    BY <1>6 DEF RequestIds, ApprovalsTypes
  <2>2. toolCalls' \in [ToolCalls -> CallState']
    BY <1>3, <1>6, <2>1
  <2>3. new \in PendingRequest'
    BY <1>2, <2>1 DEF PendingRequest
  <2>4. PendingRequest \subseteq PendingRequest' /\ Resolution \subseteq Resolution'
        /\ CommandState \subseteq CommandState'
    BY <2>1 DEF PendingRequest, Resolution, CommandState
  <2>5. pending' \subseteq PendingRequest'
    BY <1>6, <2>3, <2>4 DEF Fresh, ApprovalsTypes
  <2>6. Cardinality(Asking') = Cardinality(Asking) + 1
    BY <1>6, <2>1, NextIdFits DEF Ask
  <2>7. IdsBounded'
    BY <1>6, <2>6, IdsFit DEF IdsBounded, ApprovalsTypes
  <2>8. OneQuestion'
    <3>1. Fresh' = Fresh \cup {new}
      BY <1>6 DEF Fresh
    <3>2. \A r \in Fresh : r.tool # new.tool \/ r.asker # new.asker
      BY <1>6 DEF Matching
    <3> HIDE DEF new
    <3>. QED BY <3>1, <3>2 DEF OneQuestion
  <2>9. resolved' \subseteq Resolution' /\ commands' \in [Approvers -> CommandState']
    <3> HIDE DEF Resolution, CommandState
    <3>. QED BY <1>4, <2>4 DEF ApprovalsTypes
  <2>. QED
    BY <1>4, <2>1, <2>2, <2>5, <2>7, <2>8, <2>9 DEF ApprovalsTypes
<1>. QED
  BY <1>5, <1>6 DEF Ask

ApprovalsInv == ApprovalsTypes /\ IdsBounded /\ DecisionsBounded /\ OneQuestion

----------------------------------------------------------------------------
(* Requests go, and decisions                                              *)

\* Requests that go or expire leave the others apart.
LEMMA FewerRequests ==
  ASSUME ApprovalsTypes, OneQuestion, last_id' = last_id,
         pending' \subseteq PendingRequest,
         Fresh' \subseteq Fresh
  PROVE  OneQuestion' /\ pending' \subseteq PendingRequest'
BY SameIds DEF OneQuestion

\* Decisions that go leave the accounts in order.
LEMMA FewerDecisions ==
  ASSUME ApprovalsTypes, DecisionsBounded, last_id' = last_id,
         resolved' \subseteq resolved, UNCHANGED <<given, taken>>
  PROVE  DecisionsBounded' /\ resolved' \subseteq Resolution'
BY SameIds DEF DecisionsBounded, Decisions, ApprovalsTypes

\* Recording a decision replaces the one of its id and may drop others.
LEMMA RecordKeeps ==
  ASSUME ApprovalsTypes, IdsBounded, DecisionsBounded, last_id' = last_id,
         NEW id \in RequestIds, NEW decision \in {"Yes", "No"},
         Record(id, decision), taken' = taken
  PROVE  /\ DecisionsBounded' /\ resolved' \subseteq Resolution'
         /\ given' \in [AllIds -> Nat]
<1>1. id \in AllIds
  BY IdsFit
<1>2. given' = [given EXCEPT ![id] = @ + 1] /\ given' \in [AllIds -> Nat]
  BY <1>1 DEF Record, ApprovalsTypes
<1>3. PICK rest \in SUBSET resolved :
        /\ resolved' = rest \cup {[id |-> id, decision |-> decision]}
        /\ \A d \in rest : d.id # id
  <2>1. PICK gone \in SUBSET resolved :
          resolved' = {d \in resolved \ gone : d.id # id}
                        \cup {[id |-> id, decision |-> decision]}
    BY DEF Record
  <2> DEFINE rest == {d \in resolved \ gone : d.id # id}
  <2>2. rest \in SUBSET resolved /\ \A d \in rest : d.id # id
    OBVIOUS
  <2>. QED
    BY <2>1, <2>2
<1>4. resolved' \subseteq Resolution'
  BY <1>3, SameIds DEF Resolution, ApprovalsTypes
<1>5. \A d, e \in resolved' : d.id = e.id => d = e
  BY <1>3 DEF DecisionsBounded
<1>6. ASSUME NEW k \in AllIds
      PROVE  /\ taken'[k] <= given'[k]
             /\ Decisions(k)' # {} => taken'[k] < given'[k]
  <2>1. taken[k] \in Nat /\ given[k] \in Nat /\ taken[k] <= given[k]
    BY DEF ApprovalsTypes, DecisionsBounded
  <2>2. CASE k = id
    BY <1>2, <2>1, <2>2 DEF ApprovalsTypes
  <2>3. CASE k # id
    <3>1. given'[k] = given[k]
      BY <1>2, <2>3 DEF ApprovalsTypes
    <3>2. Decisions(k)' \subseteq Decisions(k)
      BY <1>3, <2>3 DEF Decisions
    <3>. QED
      BY <2>1, <3>1, <3>2 DEF DecisionsBounded
  <2>. QED
    BY <2>2, <2>3
<1>. QED
  BY <1>2, <1>4, <1>5, <1>6 DEF DecisionsBounded

\* Taking a decision keeps the invariant.
LEMMA TakeKeeps ==
  ASSUME ApprovalsInv, NEW c \in ToolCalls, Take(c)
  PROVE  ApprovalsInv'
<1> USE DEF ApprovalsInv
<1>1. toolCalls[c].id \in RequestIds /\ RequestIds \subseteq AllIds
  BY IdsFit DEF Take, ApprovalsTypes, CallState
<1>2. last_id' = last_id /\ UNCHANGED <<pending, commands, given>>
  BY DEF Take
<1>3. toolCalls' \in [ToolCalls -> CallState] /\ Asking' = Asking
  BY GoesOn DEF Take
<1>4. OneQuestion'
  BY <1>2 DEF OneQuestion, Fresh
<1>5. DecisionsBounded' /\ resolved' \subseteq Resolution' /\ taken' \in [AllIds -> Nat]
  <2>1. CASE Decisions(toolCalls[c].id) = {}
    <3>1. UNCHANGED <<resolved, taken>>
      BY <2>1 DEF Take
    <3>. QED
      BY <1>2, <3>1, FewerDecisions DEF ApprovalsTypes
  <2>2. CASE Decisions(toolCalls[c].id) # {}
    <3>1. PICK id \in AllIds : id = toolCalls[c].id
      BY <1>1
    <3>2. /\ resolved' = resolved \ Decisions(id)
          /\ taken' = [taken EXCEPT ![id] = @ + 1]
      BY <2>2, <3>1 DEF Take, AfterTake
    <3>3. taken' \in [AllIds -> Nat]
      BY <3>2 DEF ApprovalsTypes
    <3>4. resolved' \subseteq Resolution'
      BY <1>2, <3>2, SameIds DEF ApprovalsTypes
    <3>5. taken[id] < given[id] /\ taken'[id] = taken[id] + 1 /\ Decisions(id)' = {}
      BY <2>2, <3>1, <3>2 DEF DecisionsBounded, Decisions, ApprovalsTypes
    <3>6. taken[id] \in Nat /\ given[id] \in Nat
      BY DEF ApprovalsTypes
    <3>7. \A k \in AllIds : k # id =>
            taken'[k] = taken[k] /\ Decisions(k)' \subseteq Decisions(k)
      BY <3>2 DEF Decisions, ApprovalsTypes
    <3>8. \A k \in AllIds : /\ taken'[k] <= given'[k]
                            /\ Decisions(k)' # {} => taken'[k] < given'[k]
      BY <1>2, <3>5, <3>6, <3>7 DEF DecisionsBounded
    <3>9. \A d, e \in resolved' : d.id = e.id => d = e
      BY <3>2 DEF DecisionsBounded
    <3>. QED
      BY <3>3, <3>4, <3>8, <3>9 DEF DecisionsBounded
  <2>. QED
    BY <2>1, <2>2
<1>. QED
  BY <1>2, <1>3, <1>4, <1>5, SameIds DEF ApprovalsTypes, IdsBounded

\* A look at the requests keeps the invariant.
LEMMA LookKeeps ==
  ASSUME ApprovalsInv, NEW c \in ToolCalls, Look(c)
  PROVE  ApprovalsInv'
<1> USE DEF ApprovalsInv
<1>1. last_id' = last_id /\ UNCHANGED <<commands, given, taken>>
  BY DEF Look
<1>2. toolCalls' \in [ToolCalls -> CallState] /\ Asking' = Asking
  BY GoesOn DEF Look
<1>3. pending' \subseteq Fresh /\ resolved' \subseteq resolved
  BY DEF Look
<1>4. OneQuestion' /\ pending' \subseteq PendingRequest'
  BY <1>1, <1>3, FewerRequests DEF Fresh, ApprovalsTypes
<1>5. DecisionsBounded' /\ resolved' \subseteq Resolution'
  BY <1>1, <1>3, FewerDecisions
<1>. QED
  BY <1>1, <1>2, <1>4, <1>5, SameIds DEF ApprovalsTypes, IdsBounded

\* The expiry of a request keeps the invariant.
LEMMA ExpireKeeps ==
  ASSUME ApprovalsInv, NEW r \in pending, ExpireRequest(r)
  PROVE  ApprovalsInv'
<1> USE DEF ApprovalsInv
<1>1. UNCHANGED <<resolved, last_id, toolCalls, commands, given, taken>>
  BY DEF ExpireRequest
<1>2. [r EXCEPT !.expired = TRUE] \in PendingRequest
      /\ [r EXCEPT !.expired = TRUE].expired
  BY DEF PendingRequest, ApprovalsTypes
<1>3. pending' \subseteq PendingRequest /\ Fresh' \subseteq Fresh
  BY <1>2 DEF ExpireRequest, Fresh, ApprovalsTypes
<1>4. OneQuestion' /\ pending' \subseteq PendingRequest'
  BY <1>1, <1>3, FewerRequests
<1>5. DecisionsBounded' /\ resolved' \subseteq Resolution'
  BY <1>1, FewerDecisions
<1>. QED
  BY <1>1, <1>4, <1>5, SameIds DEF ApprovalsTypes, IdsBounded, Asking

----------------------------------------------------------------------------
(* Commands                                                                *)

\* The approver's commands keep the invariant.
LEMMA CommandKeeps ==
  ASSUME ApprovalsInv, NEW a \in Approvers, Command(a)
  PROVE  ApprovalsInv'
<1> USE DEF ApprovalsInv
<1>1. UNCHANGED <<pending, last_id, toolCalls, taken>>
  BY DEF Command, Allow, Deny, GrantSession, GrantPersistent, Revoke, FinishAllow,
         FinishRevoke
<1>2. OneQuestion' /\ IdsBounded'
  BY <1>1 DEF OneQuestion, Fresh, IdsBounded, Asking
<1>3. commands' \in [Approvers -> CommandState]
  <2>1. ASSUME NEW pc, NEW id, NEW tool, Becomes(a, pc, id, tool),
               [pc |-> pc, id |-> id, tool |-> tool] \in CommandState
        PROVE  commands' \in [Approvers -> CommandState]
    BY <2>1 DEF Becomes, ApprovalsTypes
  <2>2. NoCommand \in CommandState
    BY DEF NoCommand, CommandState
  <2>3. CASE \E id \in RequestIds : Allow(a, id)
    <3> PICK id \in RequestIds : Allow(a, id)
      BY <2>3
    <3>1. CASE \E r \in pending : r.id = id /\ Becomes(a, "grant", id, r.tool)
      <4> PICK tool \in Tools : Becomes(a, "grant", id, tool)
        BY <3>1 DEF ApprovalsTypes, PendingRequest
      <4>1. [pc |-> "grant", id |-> id, tool |-> tool] \in CommandState
        BY DEF CommandState
      <4>. QED
        BY <2>1, <4>1
    <3>2. CASE Becomes(a, "record", id, NoTool)
      <4>1. [pc |-> "record", id |-> id, tool |-> NoTool] \in CommandState
        BY DEF CommandState
      <4>. QED
        BY <2>1, <3>2, <4>1
    <3>. QED
      BY <3>1, <3>2 DEF Allow
  <2>4. CASE FinishAllow(a)
    <3>1. CASE /\ commands[a].pc = "grant"
               /\ Becomes(a, "record", commands[a].id, commands[a].tool)
      <4>1. PICK id \in RequestIds, tool \in Tools \cup {NoTool} :
              Becomes(a, "record", id, tool)
        BY <3>1 DEF ApprovalsTypes, CommandState
      <4>2. [pc |-> "record", id |-> id, tool |-> tool] \in CommandState
        BY DEF CommandState
      <4>. QED
        BY <2>1, <4>1, <4>2
    <3>2. CASE commands' = [commands EXCEPT ![a] = NoCommand]
      BY <2>2, <3>2 DEF ApprovalsTypes
    <3>. QED
      BY <2>4, <3>1, <3>2 DEF FinishAllow
  <2>5. CASE \E tool \in Tools : Revoke(a, tool)
    <3> PICK tool \in Tools : Becomes(a, "revoke", 0, tool)
      BY <2>5 DEF Revoke
    <3>1. [pc |-> "revoke", id |-> 0, tool |-> tool] \in CommandState
      BY DEF CommandState
    <3>. QED
      BY <2>1, <3>1
  <2>6. CASE FinishRevoke(a)
    BY <2>2, <2>6 DEF FinishRevoke, ApprovalsTypes
  <2>7. CASE \/ \E id \in RequestIds : Deny(a, id)
             \/ \E tool \in Tools : GrantSession(a, tool) \/ GrantPersistent(a, tool)
    BY <2>7 DEF Deny, GrantSession, GrantPersistent, ApprovalsTypes
  <2>. QED
    BY <2>3, <2>4, <2>5, <2>6, <2>7 DEF Command
<1>4. /\ DecisionsBounded' /\ resolved' \subseteq Resolution'
      /\ given' \in [AllIds -> Nat]
  <2>1. CASE \E id \in RequestIds : Deny(a, id)
    BY <1>1, <2>1, RecordKeeps DEF Deny
  <2>2. CASE commands[a].pc = "record" /\ FinishAllow(a) /\ RecordYes(a)
    <3>1. commands[a].id \in RequestIds
      BY <2>2 DEF ApprovalsTypes, CommandState
    <3>. QED
      BY <1>1, <2>2, <3>1, RecordKeeps DEF RecordYes
  <2>3. CASE UNCHANGED <<resolved, given>>
    BY <1>1, <2>3, FewerDecisions DEF ApprovalsTypes
  <2>. QED
    BY <2>1, <2>2, <2>3 DEF Command, Allow, GrantSession, GrantPersistent, Revoke,
                            FinishAllow, GrantTool, FinishRevoke
<1>. QED
  BY <1>1, <1>2, <1>3, <1>4, SameIds DEF ApprovalsTypes

----------------------------------------------------------------------------
(* The theorems                                                            *)

\* Before any call nothing is asked, decided or granted.
LEMMA ApprovalsInitInv == ApprovalsInit => ApprovalsInv
<1> SUFFICES ASSUME ApprovalsInit PROVE ApprovalsInv
  OBVIOUS
<1>1. ApprovalsTypes
  <2>1. NoCommand \in CommandState
    BY DEF NoCommand, CommandState
  <2>2. [pc |-> "start", id |-> 0, late |-> FALSE] \in CallState
    BY DEF CallState
  <2>. QED
    BY <2>1, <2>2 DEF ApprovalsInit, ApprovalsTypes, AllIds
<1>2. IdsBounded
  <2>1. Asking = {}
    BY DEF ApprovalsInit, Asking
  <2>. QED
    BY <2>1, FS_EmptySet DEF ApprovalsInit, IdsBounded
<1>3. DecisionsBounded
  BY DEF ApprovalsInit, DecisionsBounded, Decisions, AllIds
<1>4. OneQuestion
  BY DEF ApprovalsInit, OneQuestion, Fresh
<1>. QED
  BY <1>1, <1>2, <1>3, <1>4 DEF ApprovalsInv

\* Every step keeps the invariant of the approvals.
LEMMA ApprovalsStepInv == ApprovalsInv /\ [ApprovalsNext]_approvalVars => ApprovalsInv'
<1> SUFFICES ASSUME ApprovalsInv, [ApprovalsNext]_approvalVars PROVE ApprovalsInv'
  OBVIOUS
<1>1. ASSUME NEW c \in ToolCalls, Check(c) \/ TimeUp(c) PROVE ApprovalsInv'
  <2>1. ApprovalsTypes' /\ IdsBounded'
    BY <1>1, CheckTypes DEF ApprovalsInv
  <2>2. UNCHANGED <<pending, resolved, given, taken, last_id>>
    BY <1>1 DEF Check, TimeUp
  <2>3. DecisionsBounded' /\ OneQuestion'
    BY <2>2, FewerDecisions DEF ApprovalsInv, OneQuestion, Fresh
  <2>. QED
    BY <2>1, <2>3 DEF ApprovalsInv
<1>2. ASSUME NEW c \in ToolCalls, Ask(c) PROVE ApprovalsInv'
  <2>1. ApprovalsTypes' /\ IdsBounded' /\ OneQuestion'
    BY <1>2, AskTypes DEF ApprovalsInv
  <2>2. DecisionsBounded'
    BY <1>2 DEF Ask, ApprovalsInv, DecisionsBounded, Decisions
  <2>. QED
    BY <2>1, <2>2 DEF ApprovalsInv
<1>3. CASE UNCHANGED approvalVars
  BY <1>3, SameIds, FewerDecisions DEF approvalVars, ApprovalsInv, ApprovalsTypes,
     IdsBounded, Asking, OneQuestion, Fresh
<1>. QED
  BY <1>1, <1>2, <1>3, TakeKeeps, LookKeeps, ExpireKeeps, CommandKeeps
     DEF ApprovalsNext, CallStep

\* The invariant of the approvals holds in every state.
LEMMA ApprovalsInvariant == ApprovalsSpec => []ApprovalsInv
BY ApprovalsInitInv, ApprovalsStepInv, PTL DEF ApprovalsSpec

\* A decision ends at most one wait, for any number of calls and commands.
THEOREM ApprovalUsedOnce == ApprovalsSpec => []DecisionUsedOnce
<1>1. ApprovalsInv => DecisionUsedOnce
  BY IdsFit DEF ApprovalsInv, DecisionUsedOnce, DecisionsBounded
<1>. QED
  BY <1>1, ApprovalsInvariant, PTL

\* Calls of one tool for one asker share one open request.
THEOREM ApprovalOneQuestion == ApprovalsSpec => []OneQuestion
<1>1. ApprovalsInv => OneQuestion
  BY DEF ApprovalsInv
<1>. QED
  BY <1>1, ApprovalsInvariant, PTL

-----------------------------------------------------------------------------
(* Failover                                                                *)

\* The entry a call goes to is the first one that is open.
LEMMA FirstIsLeast ==
  ASSUME NEW S, S \subseteq Indices, S # {}
  PROVE  First(S) \in S /\ \A j \in S : First(S) <= j
BY LeastExists, EntriesAssumption DEF First

----------------------------------------------------------------------------
(* What a call knows                                                       *)

Models == {Entries[i].model : i \in Indices}

CallRecord ==
  [pc : {"idle", "calling", "sleeping", "ok", "failed", "rate_limited", "window"},
   pass : Nat, at : Nat, skipped : SUBSET Indices, overloaded : SUBSET Models,
   limited : BOOLEAN, failed : BOOLEAN,
   rested : SUBSET Indices, asked : SUBSET Indices, dead : SUBSET Indices,
   timed_out : SUBSET Models, busy : SUBSET Models]

\* What is ruled out is skipped, and what is skipped was asked, was cooling
\* down when the call began, or is a key of a model that timed out.
Bookkeeping(call) ==
  /\ \A i \in Indices :
        i \in call.dead \/ (~IsProxy(i) /\ Entries[i].model \in call.timed_out)
          => i \in call.skipped
  /\ \A i \in call.skipped : \/ i \in call.asked \cup call.rested
                             \/ Entries[i].model \in call.timed_out
  /\ call.overloaded \subseteq call.busy

\* The entries before the current one are done with for this pass.
Behind(call) ==
  \A j \in Indices : j < call.at =>
    j \in call.asked \cup call.skipped \/ Entries[j].model \in call.overloaded

GaveUp(call) ==
  /\ call.asked # {}
  /\ \A i \in Indices : \/ i \in call.asked \cup call.rested
                        \/ Entries[i].model \in call.timed_out \cup call.busy

CallOK(call) ==
  /\ call \in CallRecord
  /\ call.pc = "calling" =>
        Bookkeeping(call) /\ Behind(call) /\ call.at \in Open(call)
  /\ call.pc = "sleeping" => Bookkeeping(call) /\ Indices \ call.skipped # {}
  /\ call.pc \in {"failed", "rate_limited"} => GaveUp(call)

FailoverInv == calls \in [ModelCalls -> CallRecord] /\ \A c \in ModelCalls : CallOK(calls[c])

----------------------------------------------------------------------------
(* Moving on                                                               *)

\* A call that returns has given up properly if it failed.
LEMMA ReturnOK ==
  ASSUME NEW call \in CallRecord,
         NEW pc \in {"ok", "failed", "rate_limited", "window"},
         pc \in {"failed", "rate_limited"} => GaveUp(call)
  PROVE  CallOK(Return(call, pc))
<1> DEFINE r == Return(call, pc)
<1>1. NoCall \in CallRecord
  BY DEF NoCall, CallRecord
<1>2. /\ r \in CallRecord /\ r.pc = pc /\ r.rested = call.rested
      /\ r.asked = call.asked /\ r.timed_out = call.timed_out
      /\ r.busy = call.busy
  BY <1>1 DEF Return, CallRecord
<1> HIDE DEF r
<1>3. CallOK(r)
  BY <1>2 DEF CallOK, GaveUp
<1>. QED
  BY <1>3 DEF r

\* Going to an entry is right if everything before it is done with for this
\* pass.
LEMMA GoToOK ==
  ASSUME NEW call \in CallRecord, Bookkeeping(call),
         NEW S, S \subseteq Open(call), S # {},
         \A j \in Indices \ S : (\A i \in S : j < i) =>
            j \in call.asked \cup call.skipped \/ Entries[j].model \in call.overloaded
  PROVE  CallOK(GoTo(call, S))
<1> DEFINE r == GoTo(call, S)
<1>1. First(S) \in S /\ \A i \in S : First(S) <= i
  BY FirstIsLeast DEF Open
<1>2. S \subseteq Nat /\ Indices \subseteq Nat /\ S \subseteq Indices
  BY EntriesAssumption DEF Open
<1>3. /\ r \in CallRecord /\ r.pc = "calling" /\ r.at = First(S)
      /\ r.skipped = call.skipped /\ r.overloaded = call.overloaded
      /\ r.rested = call.rested /\ r.asked = call.asked /\ r.dead = call.dead
      /\ r.timed_out = call.timed_out /\ r.busy = call.busy
  BY <1>1, <1>2 DEF GoTo, CallRecord
<1> HIDE DEF r
<1>4. Bookkeeping(r) /\ r.at \in Open(r)
  BY <1>1, <1>3 DEF Bookkeeping, Open
<1>5. ASSUME NEW j \in Indices, j < First(S)
      PROVE  j \in call.asked \cup call.skipped \/ Entries[j].model \in call.overloaded
  <2>1. j \in Nat /\ First(S) \in Nat /\ \A i \in S : i \in Nat
    BY <1>1, <1>2
  <2>2. \A i \in S : j < i
    BY <1>1, <1>5, <2>1
  <2>3. j \notin S
    BY <2>1, <2>2
  <2>. QED
    BY <2>2, <2>3
<1>6. Behind(r)
  BY <1>3, <1>5 DEF Behind
<1>7. CallOK(r)
  BY <1>3, <1>4, <1>6 DEF CallOK
<1>. QED
  BY <1>7 DEF r

\* Moving on from an entry that was asked is right.
LEMMA MoveOnOK ==
  ASSUME NEW call \in CallRecord, Bookkeeping(call), Behind(call),
         call.at \in call.asked
  PROVE  CallOK(MoveOn(call))
<1> DEFINE ahead == {i \in Open(call) : i > call.at}
<1>1. call.at \in Indices /\ Indices \subseteq Nat /\ Open(call) \subseteq Indices
  BY EntriesAssumption DEF CallRecord, Open
<1>2. ASSUME NEW j \in Indices, j \notin ahead
      PROVE  j \in call.asked \cup call.skipped \/ Entries[j].model \in call.overloaded
  <2>1. CASE j < call.at
    BY <2>1 DEF Behind
  <2>2. CASE j = call.at
    BY <2>2
  <2>3. CASE j > call.at
    BY <1>2, <2>3 DEF Open
  <2>4. j \in Nat /\ call.at \in Nat
    BY <1>1
  <2>5. j < call.at \/ j = call.at \/ j > call.at
    BY <2>4
  <2>. QED
    BY <2>1, <2>2, <2>3, <2>5
<1>3. CASE ahead # {}
  <2>1. MoveOn(call) = GoTo(call, ahead)
    BY <1>3 DEF MoveOn
  <2>2. CallOK(GoTo(call, ahead))
    <3> HIDE DEF ahead
    <3>1. ahead \subseteq Open(call)
      BY DEF ahead
    <3>. QED BY <1>2, <1>3, <3>1, GoToOK
  <2>. QED
    BY <2>1, <2>2
<1>4. CASE ahead = {} /\ (call.pass = MaxRetries + 1 \/ call.skipped = Indices)
  <2>1. MoveOn(call) = AllFailed(call)
    BY <1>4 DEF MoveOn
  <2>2. GaveUp(call)
    BY <1>2, <1>4 DEF GaveUp, Bookkeeping
  <2>. QED
    BY <2>1, <2>2, ReturnOK DEF AllFailed
<1>5. CASE ahead = {} /\ ~(call.pass = MaxRetries + 1 \/ call.skipped = Indices)
  <2> DEFINE r == [call EXCEPT !.pc = "sleeping"]
  <2>1. MoveOn(call) = r
    BY <1>5 DEF MoveOn
  <2>2. r \in CallRecord /\ r.pc = "sleeping"
        /\ r.skipped = call.skipped /\ r.overloaded = call.overloaded
        /\ r.rested = call.rested /\ r.asked = call.asked /\ r.dead = call.dead
        /\ r.timed_out = call.timed_out /\ r.busy = call.busy
    BY DEF CallRecord
  <2>3. call.skipped \subseteq Indices
    BY DEF CallRecord
  <2> HIDE DEF r
  <2>4. Bookkeeping(r) /\ Indices \ r.skipped # {}
    BY <1>5, <2>2, <2>3 DEF Bookkeeping
  <2>. QED
    BY <2>1, <2>2, <2>4 DEF CallOK
<1>. QED
  BY <1>3, <1>4, <1>5

----------------------------------------------------------------------------
(* Steps                                                                   *)

\* A call begins right, whatever is cooling down.
LEMMA BeginOK ==
  ASSUME NEW call, call = [NoCall EXCEPT !.skipped = SkippedAtFirst, !.rested = Cooling]
  PROVE  CallOK(IF Open(call) = {} THEN AllFailed(call) ELSE GoTo(call, Open(call)))
<1>1. NoCall \in CallRecord
  BY DEF NoCall, CallRecord
<1>2. Cooling \subseteq Indices /\ SkippedAtFirst \subseteq Cooling
      /\ Indices \ SkippedAtFirst # {}
  BY EntriesAssumption DEF Cooling, SkippedAtFirst
<1>3. /\ call \in CallRecord /\ call.skipped = SkippedAtFirst
      /\ call.rested = Cooling /\ call.overloaded = {} /\ call.asked = {}
      /\ call.dead = {} /\ call.timed_out = {} /\ call.busy = {}
  BY <1>1, <1>2 DEF NoCall, CallRecord
<1>4. Open(call) # {} /\ Open(call) = Indices \ call.skipped
  BY <1>2, <1>3 DEF Open
<1>5. Bookkeeping(call)
  BY <1>2, <1>3 DEF Bookkeeping
<1>6. CallOK(GoTo(call, Open(call)))
  BY <1>3, <1>4, <1>5, GoToOK
<1>. QED
  BY <1>4, <1>6

\* A call begins its next pass right.
LEMMA WakeOK ==
  ASSUME NEW call, CallOK(call), call.pc = "sleeping"
  PROVE  CallOK(GoTo(NextPass(call), Open(NextPass(call))))
<1> DEFINE r == NextPass(call)
<1>1. call \in CallRecord /\ Bookkeeping(call) /\ Indices \ call.skipped # {}
      /\ call.pass + 1 \in Nat
  BY DEF CallOK, CallRecord
<1>2. /\ r \in CallRecord /\ r.overloaded = {} /\ r.skipped = call.skipped
      /\ r.rested = call.rested /\ r.asked = call.asked /\ r.dead = call.dead
      /\ r.timed_out = call.timed_out /\ r.busy = call.busy
  BY <1>1 DEF NextPass, CallRecord
<1> HIDE DEF r
<1>3. Bookkeeping(r) /\ Open(r) = Indices \ r.skipped /\ Open(r) # {}
  BY <1>1, <1>2 DEF Bookkeeping, Open
<1>4. CallOK(GoTo(r, Open(r)))
  BY <1>2, <1>3, GoToOK
<1>. QED
  BY <1>4 DEF r

\* A failed answer: the entry counts as asked, and what the answer rules out
\* is skipped.
LEMMA AnswerOK ==
  ASSUME NEW call, CallOK(call), call.pc = "calling",
         NEW r \in CallRecord, r.at = call.at, r.rested = call.rested,
         r.asked = call.asked \cup {call.at},
         NEW out \in SUBSET Indices, NEW late \in SUBSET Models,
         r.skipped = call.skipped \cup out,
         r.dead \subseteq call.dead \cup out,
         r.timed_out = call.timed_out \cup late,
         call.overloaded \subseteq r.overloaded, r.overloaded \subseteq r.busy,
         \A i \in out : i = call.at \/ Entries[i].model \in late,
         \A i \in Indices : ~IsProxy(i) /\ Entries[i].model \in late => i \in out
  PROVE  CallOK(MoveOn(r))
<1>1. call \in CallRecord /\ Bookkeeping(call) /\ Behind(call)
  BY DEF CallOK
<1>2. Bookkeeping(r)
  BY <1>1 DEF Bookkeeping
<1>3. Behind(r)
  BY <1>1 DEF Behind
<1>. QED
  BY <1>2, <1>3, MoveOnOK

\* What a failure leaves behind.
IsFailed(r, call, final) ==
  /\ r \in CallRecord /\ r.at = call.at /\ r.rested = call.rested
  /\ r.asked = call.asked \cup {call.at}
  /\ r.skipped = call.skipped \cup (IF final THEN {call.at} ELSE {})
  /\ r.dead = call.dead \cup (IF final THEN {call.at} ELSE {})
  /\ r.overloaded = call.overloaded /\ r.busy = call.busy
  /\ r.timed_out = call.timed_out

\* What an error makes of the record of a call.
LEMMA FailedIs ==
  ASSUME NEW c \in ModelCalls, calls[c] \in CallRecord, calls[c].at \in Indices,
         NEW limited \in BOOLEAN, NEW final \in BOOLEAN
  PROVE  IsFailed(Failed(c, limited, final), calls[c], final)
<1> DEFINE a == Asked(c)
           here == IF final THEN {calls[c].at} ELSE {}
           r == [a EXCEPT !.limited = @ /\ limited, !.failed = TRUE,
                          !.skipped = @ \cup here, !.dead = @ \cup here]
<1>1. /\ a \in CallRecord /\ a.at = calls[c].at /\ a.rested = calls[c].rested
      /\ a.asked = calls[c].asked \cup {calls[c].at}
      /\ a.skipped = calls[c].skipped /\ a.dead = calls[c].dead
      /\ a.overloaded = calls[c].overloaded /\ a.busy = calls[c].busy
      /\ a.timed_out = calls[c].timed_out
  BY DEF Asked, CallRecord
<1>2. here \subseteq Indices
  OBVIOUS
<1>3. Failed(c, limited, final) = r
  BY DEF Failed
<1> HIDE DEF a, here
<1>4. /\ r \in CallRecord /\ r.at = a.at /\ r.rested = a.rested
      /\ r.asked = a.asked /\ r.skipped = a.skipped \cup here
      /\ r.dead = a.dead \cup here /\ r.overloaded = a.overloaded
      /\ r.busy = a.busy /\ r.timed_out = a.timed_out
  BY <1>1, <1>2 DEF CallRecord
<1> HIDE DEF r
<1>5. IsFailed(r, calls[c], final)
  BY <1>1, <1>4 DEF IsFailed, here
<1>. QED
  BY <1>3, <1>5

\* Whatever the answer is, the call goes on as it should or returns.
LEMMA AnsweredOK ==
  ASSUME FailoverInv, NEW c \in ModelCalls, Answered(c)
  PROVE  \E r : CallOK(r) /\ calls' = [calls EXCEPT ![c] = r]
<1> DEFINE call == calls[c]
<1>1. /\ call.pc = "calling" /\ CallOK(call) /\ call \in CallRecord
      /\ call.at \in Indices /\ Bookkeeping(call)
  BY DEF Answered, Succeed, ProxyNotServed, ProxyFails, RateLimited, NonRetryable,
         TimedOut, Overloaded, OtherFailure, WindowExceeded, FailoverInv, CallOK, Open
<1>2. call.overloaded \subseteq call.busy
  BY <1>1 DEF Bookkeeping
<1>3. Entries[call.at].model \in Models
  BY <1>1 DEF Models
<1>4. ASSUME NEW limited \in BOOLEAN, NEW final \in BOOLEAN
      PROVE  CallOK(MoveOn(Failed(c, limited, final)))
  <2> DEFINE r == Failed(c, limited, final)
  <2>1. IsFailed(r, call, final)
    BY <1>1, FailedIs
  <2> DEFINE here == IF final THEN {call.at} ELSE {}
  <2> HIDE DEF r
  <2>2. /\ r \in CallRecord /\ r.at = call.at /\ r.rested = call.rested
        /\ r.asked = call.asked \cup {call.at}
        /\ r.skipped = call.skipped \cup here /\ r.dead = call.dead \cup here
        /\ r.overloaded = call.overloaded /\ r.busy = call.busy
        /\ r.timed_out = call.timed_out
    BY <2>1 DEF IsFailed
  <2>3. here \subseteq Indices /\ \A i \in here : i = call.at
    BY <1>1
  <2> HIDE DEF here, call
  <2>4. CallOK(MoveOn(r))
    <3> DEFINE late == {}
    <3>1. /\ late \in SUBSET Models /\ r.timed_out = call.timed_out \cup late
          /\ \A i \in here : i = call.at \/ Entries[i].model \in late
          /\ \A i \in Indices : ~IsProxy(i) /\ Entries[i].model \in late => i \in here
          /\ here \in SUBSET Indices
      BY <2>2, <2>3
    <3>2. call.overloaded \subseteq r.overloaded /\ r.overloaded \subseteq r.busy
      BY <1>2, <2>2
    <3> HIDE DEF late
    <3>. QED
      BY <1>1, <2>2, <3>1, <3>2, AnswerOK
  <2>. QED
    BY <2>4 DEF r
<1>5. ASSUME NEW pc \in {"ok", "window"}
      PROVE  CallOK(Return(NoCall, pc))
  <2>1. NoCall \in CallRecord
    BY DEF NoCall, CallRecord
  <2>. QED
    BY <2>1, ReturnOK
<1>6. CASE Succeed(c) \/ WindowExceeded(c)
  BY <1>5, <1>6 DEF Succeed, WindowExceeded
<1>7. CASE ProxyNotServed(c)
  <2> DEFINE a == Asked(c)
             r == [a EXCEPT !.skipped = @ \cup {call.at}, !.dead = @ \cup {call.at}]
  <2>1. /\ a \in CallRecord /\ a.at = call.at /\ a.rested = call.rested
        /\ a.asked = call.asked \cup {call.at}
        /\ a.skipped = call.skipped /\ a.dead = call.dead
        /\ a.overloaded = call.overloaded /\ a.busy = call.busy
        /\ a.timed_out = call.timed_out
    BY <1>1 DEF Asked, CallRecord
  <2>2. calls' = [calls EXCEPT ![c] = MoveOn(r)]
    BY <1>7 DEF ProxyNotServed
  <2> HIDE DEF a
  <2>3. /\ r \in CallRecord /\ r.at = call.at /\ r.rested = call.rested
        /\ r.asked = call.asked \cup {call.at}
        /\ r.skipped = call.skipped \cup {call.at}
        /\ r.dead = call.dead \cup {call.at}
        /\ r.overloaded = call.overloaded /\ r.busy = call.busy
        /\ r.timed_out = call.timed_out
    BY <1>1, <2>1 DEF CallRecord
  <2> HIDE DEF r, call
  <2>4. CallOK(MoveOn(r))
    <3> DEFINE late == {}
               out  == {call.at}
    <3>1. /\ late \in SUBSET Models /\ r.timed_out = call.timed_out \cup late
          /\ \A i \in out : i = call.at \/ Entries[i].model \in late
          /\ \A i \in Indices : ~IsProxy(i) /\ Entries[i].model \in late => i \in out
          /\ out \in SUBSET Indices
          /\ r.skipped = call.skipped \cup out /\ r.dead \subseteq call.dead \cup out
      BY <1>1, <2>3
    <3>2. call.overloaded \subseteq r.overloaded /\ r.overloaded \subseteq r.busy
      BY <1>2, <2>3
    <3> HIDE DEF late, out
    <3>. QED
      BY <1>1, <2>3, <3>1, <3>2, AnswerOK
  <2>. QED
    BY <2>2, <2>4
<1>8. CASE \/ \E limited \in BOOLEAN : ProxyFails(c, limited)
           \/ \E daily \in BOOLEAN : RateLimited(c, daily)
           \/ NonRetryable(c) \/ OtherFailure(c)
  BY <1>4, <1>8 DEF ProxyFails, RateLimited, NonRetryable, OtherFailure
<1>9. CASE TimedOut(c)
  <2> DEFINE model == Entries[call.at].model
             out   == SameModel(call.at)
             f     == Failed(c, FALSE, FALSE)
             r     == [f EXCEPT !.skipped = @ \cup out,
                                !.timed_out = @ \cup {model}]
  <2>1. /\ f \in CallRecord /\ f.at = call.at /\ f.rested = call.rested
        /\ f.asked = call.asked \cup {call.at}
        /\ f.skipped = call.skipped /\ f.dead = call.dead
        /\ f.overloaded = call.overloaded /\ f.busy = call.busy
        /\ f.timed_out = call.timed_out
    <3>1. IsFailed(f, call, FALSE)
      BY <1>1, FailedIs
    <3>. QED
      BY <3>1 DEF IsFailed
  <2>2. /\ out \subseteq Indices
        /\ \A i \in out : Entries[i].model = model
        /\ \A i \in Indices : ~IsProxy(i) /\ Entries[i].model = model => i \in out
    BY DEF SameModel
  <2>3. calls' = [calls EXCEPT ![c] = MoveOn(r)]
    BY <1>9 DEF TimedOut
  <2> HIDE DEF f, out, model
  <2>4. model \in Models
    BY <1>3 DEF model
  <2>5. /\ r \in CallRecord /\ r.at = call.at /\ r.rested = call.rested
        /\ r.asked = call.asked \cup {call.at}
        /\ r.skipped = call.skipped \cup out
        /\ r.dead = call.dead
        /\ r.overloaded = call.overloaded /\ r.busy = call.busy
        /\ r.timed_out = call.timed_out \cup {model}
    BY <1>1, <2>1, <2>2, <2>4 DEF CallRecord
  <2> HIDE DEF r, call
  <2>6. CallOK(MoveOn(r))
    <3> DEFINE late == {model}
    <3>1. late \in SUBSET Models /\ r.timed_out = call.timed_out \cup late
      BY <2>4, <2>5
    <3>2. \A i \in out : i = call.at \/ Entries[i].model \in late
      BY <2>2
    <3>3. \A i \in Indices : ~IsProxy(i) /\ Entries[i].model \in late => i \in out
      BY <2>2
    <3>4. out \in SUBSET Indices
      BY <2>2
    <3>5. call.overloaded \subseteq r.overloaded /\ r.overloaded \subseteq r.busy
          /\ r.dead \subseteq call.dead \cup out
      BY <1>2, <2>5
    <3> HIDE DEF late
    <3>. QED
      BY <1>1, <2>5, <3>1, <3>2, <3>3, <3>4, <3>5, AnswerOK
  <2>. QED
    BY <2>3, <2>6
<1>10. CASE Overloaded(c)
  <2> DEFINE model == Entries[call.at].model
             f     == Failed(c, FALSE, FALSE)
             r     == [f EXCEPT !.overloaded = @ \cup {model},
                                !.busy = @ \cup {model}]
  <2>1. /\ f \in CallRecord /\ f.at = call.at /\ f.rested = call.rested
        /\ f.asked = call.asked \cup {call.at}
        /\ f.skipped = call.skipped /\ f.dead = call.dead
        /\ f.overloaded = call.overloaded /\ f.busy = call.busy
        /\ f.timed_out = call.timed_out
    <3>1. IsFailed(f, call, FALSE)
      BY <1>1, FailedIs
    <3>. QED
      BY <3>1 DEF IsFailed
  <2>2. calls' = [calls EXCEPT ![c] = MoveOn(r)]
    BY <1>10 DEF Overloaded
  <2> HIDE DEF f, model
  <2>3. model \in Models
    BY <1>3 DEF model
  <2>4. /\ r \in CallRecord /\ r.at = call.at /\ r.rested = call.rested
        /\ r.asked = call.asked \cup {call.at}
        /\ r.skipped = call.skipped /\ r.dead = call.dead
        /\ r.overloaded = call.overloaded \cup {model}
        /\ r.busy = call.busy \cup {model}
        /\ r.timed_out = call.timed_out
    BY <1>1, <2>1, <2>3 DEF CallRecord
  <2> HIDE DEF r, call
  <2>5. CallOK(MoveOn(r))
    <3> DEFINE late == {}
               out == {}
    <3>1. /\ late \in SUBSET Models /\ r.timed_out = call.timed_out \cup late
          /\ out \in SUBSET Indices /\ r.skipped = call.skipped \cup out
          /\ r.dead \subseteq call.dead \cup out
          /\ \A i \in out : i = call.at \/ Entries[i].model \in late
          /\ \A i \in Indices : ~IsProxy(i) /\ Entries[i].model \in late => i \in out
      BY <2>4
    <3>2. call.overloaded \subseteq r.overloaded /\ r.overloaded \subseteq r.busy
      BY <1>2, <2>4
    <3> HIDE DEF late, out
    <3>. QED
      BY <1>1, <2>4, <3>1, <3>2, AnswerOK
  <2>. QED
    BY <2>2, <2>5
<1>. QED
  BY <1>6, <1>7, <1>8, <1>9, <1>10 DEF Answered

\* Every step keeps the invariant of the calls.
LEMMA FailoverStep == FailoverInv /\ [FailoverNext]_failoverVars => FailoverInv'
<1> SUFFICES ASSUME FailoverInv, [FailoverNext]_failoverVars PROVE FailoverInv'
  OBVIOUS
<1>1. ASSUME NEW c \in ModelCalls, Proceed(c)
      PROVE  \E r : CallOK(r) /\ calls' = [calls EXCEPT ![c] = r]
  <2>1. CASE Begin(c)
    BY <2>1, BeginOK DEF Begin
  <2>2. CASE Wake(c)
    BY <2>2, WakeOK DEF Wake, FailoverInv
  <2>3. CASE Answered(c)
    BY <2>3, AnsweredOK
  <2>. QED
    BY <1>1, <2>1, <2>2, <2>3 DEF Proceed
<1>2. CASE \E c \in ModelCalls : Proceed(c)
  <2> PICK c, r : c \in ModelCalls /\ CallOK(r) /\ calls' = [calls EXCEPT ![c] = r]
    BY <1>1, <1>2
  <2>1. r \in CallRecord
    BY DEF CallOK
  <2>. QED
    BY <2>1 DEF FailoverInv
<1>3. CASE UNCHANGED calls
  BY <1>3 DEF FailoverInv
<1>. QED
  BY <1>2, <1>3 DEF FailoverNext, Expire, RestedByOthers, failoverVars

\* Before any call the invariant holds.
LEMMA FailoverInitInv == FailoverInit => FailoverInv
<1>1. NoCall \in CallRecord /\ NoCall.pc = "idle"
  BY DEF NoCall, CallRecord
<1>2. CallOK(NoCall)
  BY <1>1 DEF CallOK
<1>. QED
  BY <1>1, <1>2 DEF FailoverInit, FailoverInv

\* The invariant of the calls holds in every state.
LEMMA FailoverInvariant == FailoverSpec => []FailoverInv
BY FailoverInitInv, FailoverStep, PTL DEF FailoverSpec

\* The chain is never cut short, however long it is and whatever the answers.
THEOREM FailoverExhausts == FailoverSpec => []GivesUpOnlyAtTheEnd
<1>1. FailoverInv => GivesUpOnlyAtTheEnd
  BY DEF FailoverInv, CallOK, GaveUp, GivesUpOnlyAtTheEnd
<1>. QED
  BY <1>1, FailoverInvariant, PTL

\* No entry that is ruled out is asked again within a call.
THEOREM FailoverNotAgain == FailoverSpec => []NotAskedAgain
<1>1. FailoverInv => NotAskedAgain
  BY DEF FailoverInv, CallOK, Bookkeeping, Open, NotAskedAgain
<1>. QED
  BY <1>1, FailoverInvariant, PTL

-----------------------------------------------------------------------------
(* Sums of costs                                                           *)

CostIn(line, T) == IF line \in T THEN line.cost ELSE 0

\* The sums of the first n lines.
Sums(f, file, T) ==
  /\ f \in [0 .. Len(file) -> Nat]
  /\ f[0] = 0
  /\ \A n \in 1 .. Len(file) : f[n] = f[n - 1] + CostIn(file[n], T)
  /\ Total(file, T) = f[Len(file)]

\* What a line contributes to a sum is a natural number.
LEMMA CostIsNat ==
  ASSUME NEW line \in Line, NEW T
  PROVE  line.cost \in Nat /\ CostIn(line, T) \in Nat
BY CostAssumption DEF Line, CostIn

\* A total is the last of the sums along the file.
LEMMA TotalSums ==
  ASSUME NEW file \in Seq(Line), NEW T
  PROVE  \E f : Sums(f, file, T)
<1> DEFINE N == Len(file)
           step == [n \in 1 .. N |-> [v \in Nat |-> v + CostIn(file[n], T)]]
           Summed(g) == g = [n \in 0 .. N |->
                               IF n = 0 THEN 0
                               ELSE g[n - 1] + IF file[n] \in T THEN file[n].cost
                                               ELSE 0]
           c == CHOOSE g : Summed(g)
<1>1. N \in Nat /\ \A n \in 1 .. N : file[n] \in Line
  BY LenProperties, ElementOfSeq
<1>2. \A n \in 1 .. N : CostIn(file[n], T) \in Nat
  BY <1>1, CostIsNat
<1>3. step \in Steps(N, Nat)
  BY <1>2 DEF Steps
<1>4. \A n \in 1 .. N, v \in Nat : step[n][v] = v + CostIn(file[n], T)
  OBVIOUS
<1>5. Total(file, T) = c[N]
  BY DEF Total
<1> HIDE DEF N, step
<1>6. PICK f : Iterates(f, N, Nat, 0, step)
  BY <1>1, <1>3, IterationExists
<1>7. /\ f \in [0 .. N -> Nat] /\ f[0] = 0
      /\ \A n \in 1 .. N : f[n] = step[n][f[n - 1]]
  BY <1>6 DEF Iterates
<1>8. \A n \in 1 .. N : f[n] = f[n - 1] + CostIn(file[n], T)
  <2>1. \A n \in 1 .. N : n - 1 \in 0 .. N
    BY <1>1
  <2>2. \A n \in 1 .. N : f[n - 1] \in Nat
    BY <1>7, <2>1
  <2>. QED
    BY <1>4, <1>7, <2>2
<1>9. Summed(f)
  <2>1. \A n \in 0 .. N : n = 0 \/ n \in 1 .. N
    BY <1>1
  <2>2. \A n \in 0 .. N : f[n] = IF n = 0 THEN 0
                              ELSE f[n - 1] + IF file[n] \in T THEN file[n].cost
                                              ELSE 0
    BY <1>7, <1>8, <2>1 DEF CostIn
  <2>. QED
    BY <1>7, <2>2
<1>10. Summed(c)
  BY <1>9
<1> HIDE DEF c
<1>11. /\ DOMAIN c = 0 .. N
       /\ \A n \in 0 .. N : c[n] = IF n = 0 THEN 0
                               ELSE c[n - 1] + IF file[n] \in T THEN file[n].cost
                                               ELSE 0
  BY <1>10, Zenon
<1>12. /\ 0 \in 0 .. N
       /\ \A n \in 1 .. N : n \in 0 .. N /\ n # 0
  BY <1>1
<1>13. c[0] = 0 /\ \A n \in 1 .. N : c[n] = c[n - 1] + CostIn(file[n], T)
  BY <1>11, <1>12, Zenon DEF CostIn
<1>14. Follows(c, N, Nat, 0, step)
  BY <1>4, <1>13 DEF Follows
<1>15. c[N] = f[N]
  <2>1. \A n \in 0 .. N : c[n] = f[n]
    BY <1>1, <1>6, <1>14, IterationUnique
  <2>. QED
    BY <1>1, <2>1
<1>16. Sums(f, file, T)
  BY <1>5, <1>7, <1>8, <1>15 DEF Sums, N
<1>. QED
  BY <1>16

\* A total is a natural number.
LEMMA TotalType ==
  ASSUME NEW file \in Seq(Line), NEW T
  PROVE  Total(file, T) \in Nat
<1>1. PICK f : Sums(f, file, T)
  BY TotalSums
<1>2. Len(file) \in Nat
  BY LenProperties
<1>. QED
  BY <1>1, <1>2 DEF Sums

\* The total of an empty file is 0.
LEMMA TotalEmpty ==
  ASSUME NEW T
  PROVE  Total(<<>>, T) = 0
<1>1. <<>> \in Seq(Line) /\ Len(<<>>) = 0
  BY EmptySeq
<1>2. PICK f : Sums(f, <<>>, T)
  BY <1>1, TotalSums
<1>. QED
  BY <1>1, <1>2 DEF Sums

\* The total grows with the costs of the lines, one by one.
LEMMA TotalGrows ==
  ASSUME NEW s \in Seq(Line), NEW t \in Seq(Line), NEW S, NEW T,
         Len(s) <= Len(t),
         \A i \in 1 .. Len(s) : CostIn(s[i], S) <= CostIn(t[i], T)
  PROVE  Total(s, S) <= Total(t, T)
<1> DEFINE M == Len(s)
           N == Len(t)
<1>1. M \in Nat /\ N \in Nat /\ M <= N
  BY LenProperties
<1>2. PICK f : Sums(f, s, S)
  BY TotalSums
<1>3. PICK g : Sums(g, t, T)
  BY TotalSums
<1>4. /\ f \in [0 .. M -> Nat] /\ f[0] = 0 /\ Total(s, S) = f[M]
      /\ \A n \in 1 .. M : f[n] = f[n - 1] + CostIn(s[n], S)
  BY <1>2 DEF Sums
<1>5. /\ g \in [0 .. N -> Nat] /\ g[0] = 0 /\ Total(t, T) = g[N]
      /\ \A n \in 1 .. N : g[n] = g[n - 1] + CostIn(t[n], T)
  BY <1>3 DEF Sums
<1>6. \A n \in 1 .. N : t[n] \in Line
  BY ElementOfSeq
<1>7. \A n \in 1 .. N : CostIn(t[n], T) \in Nat
  BY <1>6, CostIsNat
<1>8. \A n \in 1 .. M : s[n] \in Line
  BY ElementOfSeq
<1>9. \A n \in 1 .. M : CostIn(s[n], S) \in Nat
  BY <1>8, CostIsNat
<1>10. \A n \in 1 .. M : CostIn(s[n], S) <= CostIn(t[n], T)
  OBVIOUS
<1> HIDE DEF M, N
<1>11. f[M] <= g[M]
  <2> DEFINE P == {n \in 0 .. M : f[n] <= g[n]}
  <2>1. 0 \in P
    BY <1>1, <1>4, <1>5
  <2>2. ASSUME NEW n \in 0 .. M - 1, n \in P PROVE n + 1 \in P
    <3>1. /\ n + 1 \in 1 .. M /\ n + 1 \in 1 .. N /\ (n + 1) - 1 = n
          /\ n \in 0 .. M /\ n \in 0 .. N /\ n + 1 \in 0 .. M
      BY <1>1
    <3>2. f[n + 1] = f[n] + CostIn(s[n + 1], S) /\ f[n] \in Nat
      BY <1>4, <3>1
    <3>3. g[n + 1] = g[n] + CostIn(t[n + 1], T) /\ g[n] \in Nat
      BY <1>5, <3>1
    <3>4. f[n] <= g[n]
      BY <2>2
    <3>5. f[n + 1] <= g[n + 1]
      BY <1>7, <1>9, <1>10, <3>1, <3>2, <3>3, <3>4
    <3>. QED
      BY <3>1, <3>5
  <2> HIDE DEF P
  <2>3. 0 .. M \subseteq P
    BY <1>1, <2>1, <2>2, UpwardInduction
  <2>. QED
    BY <1>1, <2>3 DEF P
<1>12. g[M] <= g[N]
  <2> DEFINE P == {k \in 0 .. N - M : g[M] <= g[M + k]}
  <2>1. 0 \in P
    BY <1>1, <1>5
  <2>2. ASSUME NEW k \in 0 .. (N - M) - 1, k \in P PROVE k + 1 \in P
    <3>1. /\ M + k + 1 \in 1 .. N /\ (M + k + 1) - 1 = M + k /\ M \in 0 .. N
          /\ M + k \in 0 .. N /\ M + k + 1 \in 0 .. N /\ k + 1 \in 0 .. N - M
      BY <1>1
    <3>2. /\ g[M + k + 1] = g[M + k] + CostIn(t[M + k + 1], T)
          /\ g[M] \in Nat /\ g[M + k] \in Nat
      BY <1>5, <3>1
    <3>3. g[M] <= g[M + k + 1]
      <4> DEFINE before == g[M + k]
                 after == g[M + k + 1]
                 more == CostIn(t[M + k + 1], T)
      <4>1. more \in Nat
        BY <1>7, <3>1
      <4>2. g[M] <= before
        BY <2>2
      <4>3. after = before + more /\ before \in Nat /\ g[M] \in Nat
        BY <3>2
      <4> HIDE DEF before, after, more
      <4>4. g[M] <= after
        BY <4>1, <4>2, <4>3
      <4>. QED
        BY <4>4 DEF after
    <3>4. M + (k + 1) = M + k + 1
      BY <1>1
    <3>. QED
      BY <3>1, <3>3, <3>4
  <2> HIDE DEF P
  <2>3. N - M \in Nat /\ M + (N - M) = N /\ N - M \in 0 .. N - M
    BY <1>1
  <2>4. 0 .. N - M \subseteq P
    BY <2>1, <2>2, <2>3, UpwardInduction
  <2>. QED
    BY <2>3, <2>4 DEF P
<1>. QED
  <2>1. M \in 0 .. M /\ M \in 0 .. N /\ N \in 0 .. N
    BY <1>1
  <2>2. f[M] \in Nat /\ g[M] \in Nat /\ g[N] \in Nat
    BY <1>4, <1>5, <2>1
  <2>. QED
    BY <1>4, <1>5, <1>11, <1>12, <2>2

\* An appended line counts once.
LEMMA TotalAppend ==
  ASSUME NEW s \in Seq(Line), NEW line \in Line, NEW T
  PROVE  Total(Append(s, line), T) = Total(s, T) + CostIn(line, T)
<1> DEFINE t == Append(s, line)
           N == Len(s)
<1>1. /\ t \in Seq(Line) /\ N \in Nat /\ Len(t) = N + 1 /\ t[N + 1] = line
      /\ \A n \in 1 .. N : t[n] = s[n]
  BY AppendProperties, LenProperties
<1>2. PICK f : Sums(f, s, T)
  BY TotalSums
<1> HIDE DEF t
<1>3. PICK g : Sums(g, t, T)
  BY <1>1, TotalSums
<1>4. /\ f \in [0 .. N -> Nat] /\ f[0] = 0 /\ Total(s, T) = f[N]
      /\ \A n \in 1 .. N : f[n] = f[n - 1] + CostIn(s[n], T)
  BY <1>2 DEF Sums
<1>5. /\ g \in [0 .. N + 1 -> Nat] /\ g[0] = 0 /\ Total(t, T) = g[N + 1]
      /\ \A n \in 1 .. N + 1 : g[n] = g[n - 1] + CostIn(t[n], T)
  BY <1>1, <1>3 DEF Sums
<1> HIDE DEF N
<1> DEFINE P == {n \in 0 .. N : f[n] = g[n]}
<1>6. 0 \in P
  BY <1>1, <1>4, <1>5
<1>7. ASSUME NEW n \in 0 .. N - 1, n \in P PROVE n + 1 \in P
  <2>1. n + 1 \in 1 .. N /\ n + 1 \in 1 .. N + 1 /\ (n + 1) - 1 = n /\ n + 1 \in 0 .. N
    BY <1>1
  <2>2. f[n + 1] = f[n] + CostIn(s[n + 1], T)
    BY <1>4, <2>1
  <2>3. g[n + 1] = g[n] + CostIn(t[n + 1], T)
    BY <1>5, <2>1
  <2>. QED
    BY <1>1, <1>7, <2>1, <2>2, <2>3
<1> HIDE DEF P
<1>8. 0 .. N \subseteq P
  BY <1>1, <1>6, <1>7, UpwardInduction
<1>9. f[N] = g[N]
  BY <1>1, <1>8 DEF P
<1>10. g[N + 1] = g[N] + CostIn(line, T)
  <2>1. N + 1 \in 1 .. N + 1 /\ (N + 1) - 1 = N
    BY <1>1
  <2>. QED
    BY <1>1, <1>5, <2>1
<1>. QED
  BY <1>4, <1>5, <1>9, <1>10 DEF t

-----------------------------------------------------------------------------
(* The totals                                                              *)

Usage == [day : Nat, cost : Costs]

CostTypeOK ==
  /\ lines \in Seq(Line)
  /\ tail \in {"clean", "open", "torn"}
  /\ daily_cost \in Nat /\ monthly_cost \in Nat
  /\ cached_day \in Nat /\ today \in Nat
  /\ usages \in SUBSET Usage
  /\ lost \in BOOLEAN

CostInv == CostTypeOK /\ TotalsOneTooHighAtMost

\* The totals of a file and of the file after one more line, for a set of
\* lines that a day or a month takes in.
ByDay(T) == \E D \in SUBSET Nat : T = {line \in Line : line.day \in D}

CostFor(usage, T) ==
  IF \E line \in T : line.day = usage.day THEN usage.cost ELSE 0

\* Whether a line is of a day or a month depends on its day alone.
LEMMA DaysAndMonths ==
  ASSUME NEW day \in Nat
  PROVE  /\ ByDay(LinesOfDay(day)) /\ ByDay(LinesOfMonth(day))
<1>1. LinesOfDay(day) = {line \in Line : line.day \in {day}}
  BY DEF LinesOfDay
<1>2. LinesOfMonth(day) =
        {line \in Line : line.day \in {d \in Nat : Month(d) = Month(day)}}
  BY DEF LinesOfMonth, Line
<1>. QED
  BY <1>1, <1>2 DEF ByDay

\* An append adds to what can be read back at most the cost of the usage, and
\* to what was appended exactly that.
LEMMA AppendedTotals ==
  ASSUME CostTypeOK, NEW usage \in Usage, NEW readable \in BOOLEAN,
         NEW T, T \subseteq Line, ByDay(T)
  PROVE  /\ Appended(usage, readable) \in Seq(Line)
         /\ Total(Appended(usage, readable), Readable(T))
              <= Total(lines, Readable(T)) + CostFor(usage, T)
         /\ Total(Appended(usage, readable), T) = Total(lines, T) + CostFor(usage, T)
<1> DEFINE line == [day |-> usage.day, cost |-> usage.cost,
                    readable |-> readable /\ tail = "clean"]
           whole == IF tail = "open" THEN [lines EXCEPT ![Len(lines)].readable = FALSE]
                    ELSE lines
           R == Readable(T)
<1>1. line \in Line
  BY DEF Usage, Line
<1>2. /\ whole \in Seq(Line) /\ Len(whole) = Len(lines)
      /\ \A i \in 1 .. Len(lines) :
           /\ whole[i] \in Line /\ lines[i] \in Line
           /\ whole[i].day = lines[i].day
           /\ whole[i].cost = lines[i].cost
           /\ whole[i].readable => lines[i].readable
  <2>1. /\ lines \in Seq(Line) /\ Len(lines) \in Nat
        /\ \A i \in 1 .. Len(lines) : lines[i] \in Line
    BY LenProperties, ElementOfSeq DEF CostTypeOK
  <2>2. CASE tail = "open"
    <3> DEFINE N == Len(lines)
               torn == [lines EXCEPT ![N].readable = FALSE]
    <3>1. lines \in [1 .. N -> Line]
      BY <2>1, SeqDef
    <3> HIDE DEF N
    <3>2. /\ torn \in [1 .. N -> Line]
          /\ \A i \in 1 .. N :
               /\ torn[i].day = lines[i].day
               /\ torn[i].cost = lines[i].cost
               /\ torn[i].readable => lines[i].readable
      BY <3>1 DEF Line
    <3> HIDE DEF torn
    <3>3. torn \in Seq(Line) /\ Len(torn) = N
      BY <2>1, <3>2, FunctionIsSeq DEF N
    <3>4. whole = torn
      BY <2>2 DEF torn, N
    <3> HIDE DEF whole
    <3>. QED
      BY <2>1, <3>2, <3>3, <3>4 DEF N
  <2>3. CASE tail # "open"
    BY <2>1, <2>3
  <2>. QED
    BY <2>2, <2>3
<1>3. Appended(usage, readable) = Append(whole, line)
  BY DEF Appended
<1>4. CostIn(line, T) = CostFor(usage, T)
  BY <1>1 DEF CostIn, CostFor, ByDay
<1>5. CostIn(line, R) <= CostFor(usage, T)
  <2>1. CostIn(line, R) <= CostIn(line, T)
    BY <1>1, CostIsNat DEF CostIn, Readable
  <2>. QED
    BY <1>4, <2>1
<1> HIDE DEF line, whole
<1>6. Append(whole, line) \in Seq(Line)
  BY <1>1, <1>2, AppendProperties
<1>7. Total(whole, T) = Total(lines, T)
  <2>1. \A i \in 1 .. Len(lines) : CostIn(whole[i], T) = CostIn(lines[i], T)
    BY <1>2 DEF CostIn, ByDay
  <2>2. \A i \in 1 .. Len(lines) : CostIn(whole[i], T) \in Nat
    BY <1>2, CostIsNat
  <2>3. lines \in Seq(Line) /\ Len(lines) \in Nat
    BY LenProperties DEF CostTypeOK
  <2>4. \A i \in 1 .. Len(lines) : CostIn(whole[i], T) <= CostIn(lines[i], T)
    BY <2>1, <2>2
  <2>5. \A i \in 1 .. Len(lines) : CostIn(lines[i], T) <= CostIn(whole[i], T)
    BY <2>1, <2>2
  <2>6. Total(whole, T) <= Total(lines, T)
    BY <1>2, <2>3, <2>4, TotalGrows
  <2>7. Total(lines, T) <= Total(whole, T)
    BY <1>2, <2>3, <2>5, TotalGrows
  <2>. QED
    BY <1>2, <2>3, <2>6, <2>7, TotalType
<1>8. Total(whole, R) <= Total(lines, R)
  <2>1. \A i \in 1 .. Len(lines) : CostIn(whole[i], R) <= CostIn(lines[i], R)
    BY <1>2, CostIsNat DEF CostIn, ByDay, Readable
  <2>2. lines \in Seq(Line) /\ Len(lines) \in Nat
    BY LenProperties DEF CostTypeOK
  <2>. QED
    BY <1>2, <2>1, <2>2, TotalGrows
<1>9. /\ Total(Append(whole, line), T) = Total(whole, T) + CostIn(line, T)
      /\ Total(Append(whole, line), R) = Total(whole, R) + CostIn(line, R)
  BY <1>1, <1>2, TotalAppend
<1>10. /\ Total(whole, R) \in Nat /\ Total(lines, R) \in Nat
       /\ CostIn(line, R) \in Nat /\ CostFor(usage, T) \in Nat
  BY <1>1, <1>2, <1>4, CostIsNat, TotalType DEF CostTypeOK
<1> HIDE DEF R
<1>11. Total(Append(whole, line), R) <= Total(lines, R) + CostFor(usage, T)
  BY <1>5, <1>8, <1>9, <1>10
<1>. QED
  BY <1>3, <1>4, <1>6, <1>7, <1>9, <1>11 DEF R

\* What can be read back was appended.
LEMMA ReadableTotals ==
  ASSUME NEW file \in Seq(Line), NEW T
  PROVE  Total(file, Readable(T)) <= Total(file, T)
<1>1. Len(file) \in Nat /\ \A i \in 1 .. Len(file) : file[i] \in Line
  BY LenProperties, ElementOfSeq
<1>2. \A i \in 1 .. Len(file) :
        CostIn(file[i], Readable(T)) <= CostIn(file[i], T)
  BY <1>1, CostIsNat DEF CostIn, Readable
<1>. QED
  BY <1>1, <1>2, TotalGrows

\* What a usage contributes to the totals of a day and its month.
LEMMA CostForDay ==
  ASSUME NEW usage \in Usage, NEW day \in Nat
  PROVE  /\ CostFor(usage, LinesOfDay(day)) =
              IF usage.day = day THEN usage.cost ELSE 0
         /\ CostFor(usage, LinesOfMonth(day)) =
              IF Month(usage.day) = Month(day) THEN usage.cost ELSE 0
<1> DEFINE line == [day |-> usage.day, cost |-> usage.cost, readable |-> TRUE]
<1>1. line \in Line /\ line.day = usage.day
  BY DEF Usage, Line
<1> HIDE DEF line
<1>2. (\E l \in LinesOfDay(day) : l.day = usage.day) <=> usage.day = day
  BY <1>1 DEF LinesOfDay
<1>3. (\E l \in LinesOfMonth(day) : l.day = usage.day)
        <=> Month(usage.day) = Month(day)
  <2>1. ASSUME NEW l \in LinesOfMonth(day), l.day = usage.day
        PROVE  Month(usage.day) = Month(day)
    BY <2>1 DEF LinesOfMonth
  <2>2. Month(usage.day) = Month(day) => line \in LinesOfMonth(day)
    BY <1>1 DEF LinesOfMonth
  <2>. QED
    BY <1>1, <2>1, <2>2
<1>. QED
  BY <1>2, <1>3 DEF CostFor

\* The totals against a file: what can be read back and what was appended.
Enough(file, daily, monthly, day) ==
  daily >= OfDay(file, day) /\ monthly >= OfMonth(file, day)

AtMostExtra(file, daily, monthly, day, extra) ==
  /\ daily <= extra + Total(file, LinesOfDay(day))
  /\ monthly <= extra + Total(file, LinesOfMonth(day))

TotalsMeet(file, daily, monthly, day, missing) ==
  /\ ~missing => Enough(file, daily, monthly, day)
  /\ \E extra \in Costs \cup {0} : AtMostExtra(file, daily, monthly, day, extra)

\* The property is TotalsMeet of the state.
LEMMA TotalsMeetProperty ==
  TotalsOneTooHighAtMost
    <=> TotalsMeet(lines, daily_cost, monthly_cost, cached_day, lost)
BY Zenon DEF TotalsOneTooHighAtMost, NothingMissing, OneExtraAtMost, TotalsMeet,
       Enough, AtMostExtra

\* The numbers a rebuild finds.
LEMMA FileTotals ==
  ASSUME NEW file \in Seq(Line), NEW day \in Nat
  PROVE  /\ OfDay(file, day) \in Nat /\ OfMonth(file, day) \in Nat
         /\ Total(file, LinesOfDay(day)) \in Nat
         /\ Total(file, LinesOfMonth(day)) \in Nat
         /\ OfDay(file, day) <= Total(file, LinesOfDay(day))
         /\ OfMonth(file, day) <= Total(file, LinesOfMonth(day))
BY TotalType, ReadableTotals DEF OfDay, OfMonth

\* What an append does to them.
LEMMA AppendedMeets ==
  ASSUME CostTypeOK, NEW usage \in Usage, NEW readable \in BOOLEAN, NEW day \in Nat
  PROVE  LET file  == Appended(usage, readable)
             today_s == IF usage.day = day THEN usage.cost ELSE 0
             month_s == IF Month(usage.day) = Month(day) THEN usage.cost ELSE 0
         IN  /\ file \in Seq(Line)
             /\ OfDay(file, day) <= OfDay(lines, day) + today_s
             /\ OfMonth(file, day) <= OfMonth(lines, day) + month_s
             /\ Total(file, LinesOfDay(day)) = Total(lines, LinesOfDay(day)) + today_s
             /\ Total(file, LinesOfMonth(day)) =
                  Total(lines, LinesOfMonth(day)) + month_s
<1>1. ByDay(LinesOfDay(day)) /\ ByDay(LinesOfMonth(day))
  BY DaysAndMonths
<1>2. LinesOfDay(day) \subseteq Line /\ LinesOfMonth(day) \subseteq Line
  BY DEF LinesOfDay, LinesOfMonth
<1> DEFINE d == LinesOfDay(day)
           m == LinesOfMonth(day)
           file == Appended(usage, readable)
<1> HIDE DEF d, m, file
<1>3. /\ file \in Seq(Line)
      /\ Total(file, Readable(d)) <= Total(lines, Readable(d)) + CostFor(usage, d)
      /\ Total(file, d) = Total(lines, d) + CostFor(usage, d)
  BY <1>1, <1>2, AppendedTotals DEF d, file
<1>4. /\ Total(file, Readable(m)) <= Total(lines, Readable(m)) + CostFor(usage, m)
      /\ Total(file, m) = Total(lines, m) + CostFor(usage, m)
  BY <1>1, <1>2, AppendedTotals DEF m, file
<1>. QED
  BY <1>3, <1>4, CostForDay DEF d, m, file, OfDay, OfMonth

\* An append whose usage is not counted makes no total too high; unless an
\* error is reported, it was counted.
LEMMA FailedAppendMeets ==
  ASSUME CostInv, NEW usage \in Usage, NEW readable \in BOOLEAN
  PROVE  LET file == Appended(usage, readable)
         IN  /\ file \in Seq(Line)
             /\ TotalsMeet(file, daily_cost, monthly_cost, cached_day, TRUE)
<1> DEFINE file == Appended(usage, readable)
           today_s == IF usage.day = cached_day THEN usage.cost ELSE 0
           month_s == IF Month(usage.day) = Month(cached_day) THEN usage.cost ELSE 0
<1>1. CostTypeOK /\ cached_day \in Nat /\ lines \in Seq(Line)
      /\ daily_cost \in Nat /\ monthly_cost \in Nat
  BY DEF CostInv, CostTypeOK
<1>2. /\ file \in Seq(Line)
      /\ Total(file, LinesOfDay(cached_day)) =
           Total(lines, LinesOfDay(cached_day)) + today_s
      /\ Total(file, LinesOfMonth(cached_day)) =
           Total(lines, LinesOfMonth(cached_day)) + month_s
  BY <1>1, AppendedMeets
<1>3. today_s \in Nat /\ month_s \in Nat
  BY CostAssumption DEF Usage
<1> HIDE DEF file, today_s, month_s
<1>4. PICK extra \in Costs \cup {0} :
        AtMostExtra(lines, daily_cost, monthly_cost, cached_day, extra)
  BY TotalsMeetProperty DEF CostInv, TotalsMeet
<1>5. /\ Total(lines, LinesOfDay(cached_day)) \in Nat
      /\ Total(lines, LinesOfMonth(cached_day)) \in Nat
  BY <1>1, FileTotals
<1>6. extra \in Nat
  BY CostAssumption
<1>7. AtMostExtra(file, daily_cost, monthly_cost, cached_day, extra)
  BY <1>1, <1>2, <1>3, <1>4, <1>5, <1>6 DEF AtMostExtra
<1>. QED
  BY <1>2, <1>7 DEF TotalsMeet, file

\* What a rebuild leaves is right, to the record.
LEMMA RebuiltMeets ==
  ASSUME NEW file \in Seq(Line), NEW day \in Nat, NEW missing
  PROVE  TotalsMeet(file, OfDay(file, day), OfMonth(file, day), day, missing)
<1>1. /\ OfDay(file, day) \in Nat /\ OfMonth(file, day) \in Nat
      /\ Total(file, LinesOfDay(day)) \in Nat
      /\ Total(file, LinesOfMonth(day)) \in Nat
      /\ OfDay(file, day) <= Total(file, LinesOfDay(day))
      /\ OfMonth(file, day) <= Total(file, LinesOfMonth(day))
  BY FileTotals
<1>2. Enough(file, OfDay(file, day), OfMonth(file, day), day)
  BY <1>1 DEF Enough
<1>3. AtMostExtra(file, OfDay(file, day), OfMonth(file, day), day, 0)
  BY <1>1 DEF AtMostExtra
<1>. QED
  BY <1>2, <1>3 DEF TotalsMeet

\* The totals of an empty file are right.
LEMMA CostInitInv == CostInit => CostInv
<1> SUFFICES ASSUME CostInit PROVE CostInv
  OBVIOUS
<1> DEFINE e == <<>>
<1>1. e \in Seq(Line)
  BY EmptySeq
<1>2. OfDay(e, 0) = 0 /\ OfMonth(e, 0) = 0
  BY TotalEmpty DEF OfDay, OfMonth
<1> HIDE DEF e
<1>3. TotalsMeet(e, 0, 0, 0, FALSE)
  BY <1>1, <1>2, RebuiltMeets
<1>4. /\ lines = e /\ daily_cost = 0 /\ monthly_cost = 0 /\ cached_day = 0
      /\ lost = FALSE /\ tail = "clean" /\ today = 0 /\ usages = {}
  BY DEF CostInit, e
<1>5. TotalsOneTooHighAtMost
  BY <1>3, <1>4, TotalsMeetProperty
<1>6. CostTypeOK
  BY <1>1, <1>4 DEF CostTypeOK
<1>. QED
  BY <1>5, <1>6 DEF CostInv

\* A recorded usage is counted once, or twice by the totals that were rebuilt
\* from the file it was already in.
LEMMA RecordMeets ==
  ASSUME CostInv, NEW usage \in Usage, RecordUsage(usage)
  PROVE  CostInv'
<1> DEFINE file == Appended(usage, TRUE)
           day == IF cached_day = today THEN cached_day ELSE today
           today_s == IF usage.day = day THEN usage.cost ELSE 0
           month_s == IF Month(usage.day) = Month(day) THEN usage.cost ELSE 0
<1>1. CostTypeOK /\ day \in Nat /\ lines \in Seq(Line)
      /\ daily_cost \in Nat /\ monthly_cost \in Nat
  BY DEF CostInv, CostTypeOK
<1>2. /\ file \in Seq(Line)
      /\ OfDay(file, day) <= OfDay(lines, day) + today_s
      /\ OfMonth(file, day) <= OfMonth(lines, day) + month_s
      /\ Total(file, LinesOfDay(day)) = Total(lines, LinesOfDay(day)) + today_s
      /\ Total(file, LinesOfMonth(day)) = Total(lines, LinesOfMonth(day)) + month_s
  <2> HIDE DEF day
  <2>. QED
    BY <1>1, AppendedMeets
<1>3. /\ today_s \in Nat /\ month_s \in Nat /\ usage.cost \in Costs
      /\ today_s <= usage.cost /\ month_s <= usage.cost
  <2>1. usage.cost \in Costs /\ usage.cost \in Nat
    BY CostAssumption DEF Usage
  <2> DEFINE cost == usage.cost
             in_month == Month(usage.day) = Month(day)
             in_day == usage.day = day
  <2>2. /\ today_s = IF in_day THEN cost ELSE 0
        /\ month_s = IF in_month THEN cost ELSE 0
    OBVIOUS
  <2> HIDE DEF cost, in_month, in_day, today_s, month_s
  <2>3. cost \in Nat
    BY <2>1 DEF cost
  <2>4. today_s \in Nat /\ month_s \in Nat /\ today_s <= cost /\ month_s <= cost
    BY <2>2, <2>3
  <2>. QED
    BY <2>1, <2>4 DEF cost
<1>4. /\ lines' = file /\ tail' = "clean" /\ usages' \subseteq usages /\ today' = today
      /\ cached_day' = day
      /\ \/ /\ day = cached_day /\ lost' = lost
            /\ daily_cost' = daily_cost + today_s
            /\ monthly_cost' = monthly_cost + month_s
         \/ /\ day = today /\ lost' = FALSE
            /\ daily_cost' = OfDay(file, day) + today_s
            /\ monthly_cost' = OfMonth(file, day) + month_s
  BY DEF RecordUsage, Counted
<1> HIDE DEF file, day, today_s, month_s
<1>5. /\ OfDay(file, day) \in Nat /\ OfMonth(file, day) \in Nat
      /\ Total(file, LinesOfDay(day)) \in Nat
      /\ Total(file, LinesOfMonth(day)) \in Nat
      /\ OfDay(file, day) <= Total(file, LinesOfDay(day))
      /\ OfMonth(file, day) <= Total(file, LinesOfMonth(day))
  BY <1>1, <1>2, FileTotals
<1>6. /\ OfDay(lines, day) \in Nat /\ OfMonth(lines, day) \in Nat
      /\ Total(lines, LinesOfDay(day)) \in Nat
      /\ Total(lines, LinesOfMonth(day)) \in Nat
  BY <1>1, FileTotals
<1>7. daily_cost' \in Nat /\ monthly_cost' \in Nat
  BY <1>1, <1>3, <1>4, <1>5
<1>8. TotalsMeet(file, daily_cost', monthly_cost', day, lost')
  <2>1. CASE day = cached_day /\ lost' = lost
             /\ daily_cost' = daily_cost + today_s
             /\ monthly_cost' = monthly_cost + month_s
    <3>1. TotalsMeet(lines, daily_cost, monthly_cost, day, lost)
      BY <2>1, TotalsMeetProperty DEF CostInv
    <3>2. ~lost' => Enough(file, daily_cost', monthly_cost', day)
      <4>1. SUFFICES ASSUME ~lost'
                     PROVE  Enough(file, daily_cost', monthly_cost', day)
        OBVIOUS
      <4>2. Enough(lines, daily_cost, monthly_cost, day)
        BY <2>1, <3>1, <4>1 DEF TotalsMeet
      <4> DEFINE d == OfDay(lines, day)
                 m == OfMonth(lines, day)
                 e == OfDay(file, day)
                 n == OfMonth(file, day)
      <4>3. daily_cost >= d /\ monthly_cost >= m
        BY <4>2 DEF Enough
      <4>4. /\ e <= d + today_s /\ n <= m + month_s
            /\ d \in Nat /\ m \in Nat /\ e \in Nat /\ n \in Nat
        BY <1>2, <1>5, <1>6
      <4> HIDE DEF d, m, e, n
      <4>5. daily_cost' >= e /\ monthly_cost' >= n
        BY <1>1, <1>3, <2>1, <4>3, <4>4
      <4>. QED
        BY <4>5 DEF Enough, e, n
    <3>3. PICK extra \in Costs \cup {0} :
            AtMostExtra(lines, daily_cost, monthly_cost, day, extra)
      BY <3>1 DEF TotalsMeet
    <3>4. extra \in Nat
      BY CostAssumption
    <3>5. AtMostExtra(file, daily_cost', monthly_cost', day, extra)
      <4> DEFINE d == Total(lines, LinesOfDay(day))
                 m == Total(lines, LinesOfMonth(day))
                 e == Total(file, LinesOfDay(day))
                 n == Total(file, LinesOfMonth(day))
      <4>1. daily_cost <= extra + d /\ monthly_cost <= extra + m
        BY <3>3 DEF AtMostExtra
      <4>2. /\ e = d + today_s /\ n = m + month_s
            /\ d \in Nat /\ m \in Nat
        BY <1>2, <1>6
      <4> HIDE DEF d, m, e, n
      <4>3. daily_cost' <= extra + e /\ monthly_cost' <= extra + n
        BY <1>1, <1>3, <2>1, <3>4, <4>1, <4>2
      <4>. QED
        BY <4>3 DEF AtMostExtra, e, n
    <3>. QED
      BY <3>2, <3>5 DEF TotalsMeet
  <2>2. CASE /\ daily_cost' = OfDay(file, day) + today_s
             /\ monthly_cost' = OfMonth(file, day) + month_s
    <3>1. Enough(file, daily_cost', monthly_cost', day)
      BY <1>3, <1>5, <2>2 DEF Enough
    <3>2. usage.cost \in Nat
      BY <1>3, CostAssumption
    <3>3. AtMostExtra(file, daily_cost', monthly_cost', day, usage.cost)
      BY <1>3, <1>5, <2>2, <3>2 DEF AtMostExtra
    <3>. QED
      BY <1>3, <3>1, <3>3 DEF TotalsMeet
  <2>. QED
    BY <1>4, <2>1, <2>2
<1>9. TotalsOneTooHighAtMost'
  <2>1. TotalsMeet(lines', daily_cost', monthly_cost', cached_day', lost')
    BY <1>4, <1>8
  <2>. QED
    BY <2>1, Zenon
    DEF TotalsOneTooHighAtMost, NothingMissing, OneExtraAtMost, TotalsMeet,
        Enough, AtMostExtra
<1>10. CostTypeOK'
  <2>1. lost' \in BOOLEAN
    BY <1>1, <1>4 DEF CostTypeOK
  <2>. QED
    BY <1>1, <1>2, <1>4, <1>7, <2>1 DEF CostTypeOK
<1>. QED
  BY <1>9, <1>10 DEF CostInv

\* An append that reports an error.
LEMMA FailureMeets ==
  ASSUME CostInv, NEW usage \in Usage, NEW readable \in BOOLEAN,
         lines' = Appended(usage, readable) \/ lines' = lines,
         tail' \in {"clean", "open", "torn"}, usages' \subseteq usages,
         lost' = TRUE,
         UNCHANGED <<daily_cost, monthly_cost, cached_day, today>>
  PROVE  CostInv'
<1>1. TotalsMeet(lines, daily_cost, monthly_cost, cached_day, lost)
  BY TotalsMeetProperty DEF CostInv
<1>2. TotalsMeet(lines, daily_cost, monthly_cost, cached_day, TRUE)
  BY <1>1 DEF TotalsMeet
<1>3. /\ lines' \in Seq(Line)
      /\ TotalsMeet(lines', daily_cost, monthly_cost, cached_day, TRUE)
  BY <1>2, FailedAppendMeets DEF CostInv, CostTypeOK
<1>4. TotalsMeet(lines', daily_cost', monthly_cost', cached_day', lost')
  BY <1>3
<1>5. TotalsOneTooHighAtMost'
  BY <1>4, Zenon
    DEF TotalsOneTooHighAtMost, NothingMissing, OneExtraAtMost, TotalsMeet,
        Enough, AtMostExtra
<1>6. CostTypeOK'
  BY <1>3 DEF CostInv, CostTypeOK
<1>. QED
  BY <1>5, <1>6 DEF CostInv

\* A rebuild from a file of lines.
LEMMA RebuildMeets ==
  ASSUME CostInv, lines' \in Seq(Line), Rebuild(lines', today),
         tail' \in {"clean", "open", "torn"}, usages' \subseteq usages,
         today' = today
  PROVE  CostInv'
<1>1. today \in Nat
  BY DEF CostInv, CostTypeOK
<1>2. /\ daily_cost' = OfDay(lines', today) /\ monthly_cost' = OfMonth(lines', today)
      /\ cached_day' = today /\ lost' = FALSE
  BY DEF Rebuild
<1> DEFINE file == lines'
<1> HIDE DEF file
<1>3. file \in Seq(Line)
  BY DEF file
<1>4. TotalsMeet(file, OfDay(file, today), OfMonth(file, today), today, FALSE)
  BY <1>1, <1>3, RebuiltMeets
<1>5. TotalsMeet(lines', daily_cost', monthly_cost', cached_day', lost')
  BY <1>2, <1>4 DEF file
<1>6. TotalsOneTooHighAtMost'
  BY <1>5, Zenon
    DEF TotalsOneTooHighAtMost, NothingMissing, OneExtraAtMost, TotalsMeet,
        Enough, AtMostExtra
<1>7. daily_cost' \in Nat /\ monthly_cost' \in Nat
  BY <1>1, <1>2, <1>3, FileTotals DEF file
<1>8. CostTypeOK'
  BY <1>1, <1>2, <1>7 DEF CostInv, CostTypeOK
<1>. QED
  BY <1>6, <1>8 DEF CostInv

\* Every step keeps the totals right.
LEMMA CostStep == CostInv /\ [CostNext]_costVars => CostInv'
<1> SUFFICES ASSUME CostInv, [CostNext]_costVars PROVE CostInv'
  OBVIOUS
<1>1. \A u \in usages : u \in Usage
  BY DEF CostInv, CostTypeOK
<1>2. ASSUME NEW u \in usages, RecordUsage(u) PROVE CostInv'
  BY <1>1, <1>2, RecordMeets
<1>3. ASSUME NEW u \in usages, WriteFails(u) PROVE CostInv'
  <2>1. /\ lost' = TRUE /\ usages' \subseteq usages
        /\ UNCHANGED <<daily_cost, monthly_cost, cached_day, today>>
    BY <1>3 DEF WriteFails
  <2>2. PICK readable \in BOOLEAN :
          /\ lines' = Appended(u, readable) \/ lines' = lines
          /\ tail' \in {"clean", "open", "torn"}
    BY <1>3 DEF WriteFails, CostInv, CostTypeOK
  <2>. QED
    BY <1>1, <2>1, <2>2, FailureMeets
<1>4. ASSUME NEW u \in usages, SyncFails(u) PROVE CostInv'
  <2>1. /\ lost' = TRUE /\ usages' \subseteq usages
        /\ lines' = Appended(u, TRUE) /\ tail' = "clean"
        /\ UNCHANGED <<daily_cost, monthly_cost, cached_day, today>>
    BY <1>4 DEF SyncFails
  <2>. QED
    BY <1>1, <2>1, FailureMeets
<1>5. CASE EnsureCurrent
  BY <1>5, RebuildMeets DEF EnsureCurrent, CostInv, CostTypeOK
<1>6. CASE Restart
  <2>1. /\ Rebuild(lines', today) /\ usages' \subseteq usages /\ today' = today
    BY <1>6 DEF Restart
  <2>2. /\ lines' \in Seq(Line) /\ tail' \in {"clean", "open", "torn"}
    <3>1. CASE UNCHANGED <<lines, tail>>
      BY <3>1 DEF CostInv, CostTypeOK
    <3>2. ASSUME NEW u \in usages, NEW end \in {"open", "torn"},
                 tail' = end, lines' = Appended(u, end = "open")
          PROVE  /\ lines' \in Seq(Line) /\ tail' \in {"clean", "open", "torn"}
      <4>1. (end = "open") \in BOOLEAN
        OBVIOUS
      <4>. QED
        BY <1>1, <3>2, <4>1, FailedAppendMeets
    <3>. QED
      BY <1>6, <3>1, <3>2 DEF Restart
  <2>. QED
    BY <2>1, <2>2, RebuildMeets
<1>7. CASE UNCHANGED <<lines, tail, daily_cost, monthly_cost, cached_day, lost>>
           /\ today' \in Nat /\ usages' \subseteq Usage
  <2>1. TotalsMeet(lines, daily_cost, monthly_cost, cached_day, lost)
    BY TotalsMeetProperty DEF CostInv
  <2>2. TotalsMeet(lines', daily_cost', monthly_cost', cached_day', lost')
    BY <1>7, <2>1
  <2>3. TotalsOneTooHighAtMost'
    BY <2>2, Zenon
    DEF TotalsOneTooHighAtMost, NothingMissing, OneExtraAtMost, TotalsMeet,
        Enough, AtMostExtra
  <2>. QED
    BY <1>7, <2>3 DEF CostInv, CostTypeOK
<1>8. ASSUME NEW cost \in Costs, Stamp(cost) PROVE CostInv'
  BY <1>7, <1>8 DEF Stamp, Usage, CostInv, CostTypeOK
<1>9. CASE NewDay
  BY <1>7, <1>9 DEF NewDay, CostInv, CostTypeOK
<1>10. CASE UNCHANGED costVars
  BY <1>7, <1>10 DEF costVars, CostInv, CostTypeOK
<1>. QED
  BY <1>2, <1>3, <1>4, <1>5, <1>6, <1>8, <1>9, <1>10 DEF CostNext

\* What a budget check may rely on (add_record, rebuild_aggregates), for any
\* costs, any number of days and records and any crashes and failed appends:
\* the totals are at most one record too high, and too low only after an error.
THEOREM TotalsHold == CostSpec => []TotalsOneTooHighAtMost
<1>1. CostInv => TotalsOneTooHighAtMost
  BY DEF CostInv
<1>. QED
  BY <1>1, CostInitInv, CostStep, PTL DEF CostSpec
=============================================================================
