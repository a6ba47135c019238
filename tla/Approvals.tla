------------------------------ MODULE Approvals ------------------------------
(***************************************************************************)
(* Approval of tool calls on chat channels: ApprovalManager of             *)
(* src/approval/mod.rs, the tool loop that asks and polls for a decision   *)
(* (src/agent/loop_.rs) and the approver's commands (src/channels/mod.rs). *)
(*                                                                         *)
(* Each table of the manager has a lock of its own, and both sides take    *)
(* them one after another: a call's bypass, request, poll and timeout and  *)
(* a command's lookup, grant and decision interleave freely.               *)
(***************************************************************************)
EXTENDS Integers, FiniteSets

CONSTANTS
  ToolCalls,    \* calls of a tool, each by a turn of some conversation
  Tools, ToolOf,
  AskerOf,      \* sender, channel and reply target of the turn, as one value
  Approvers,    \* messages with a command, handled concurrently
  NoTool,
  MaxResolved,  \* 1024 in the code
  MaxCommands   \* bound of the model: how many commands are sent

ASSUME ApprovalsAssumption ==
  /\ IsFiniteSet(ToolCalls)
  /\ ToolOf \in [ToolCalls -> Tools] /\ NoTool \notin Tools
  /\ MaxResolved \in Nat \ {0} /\ MaxCommands \in Nat

VARIABLES
  pending,       \* the open requests: id, tool, asker, whether expired
  resolved,      \* decisions not yet taken, as a set of [id, decision]
  session,       \* non_cli_allowlist: tools granted until restart
  auto_approve,  \* tools granted for good
  last_id,       \* how many ids were given out; ids are 1 .. last_id
  toolCalls,     \* local state of each call
  commands,      \* local state of each approver's command
  commands_sent, \* how many commands were sent
  \* history: per id, how many decisions were recorded and how many calls
  \* took one
  given, taken

approvalVars == <<pending, resolved, session, auto_approve, last_id,
                  toolCalls, commands, commands_sent, given, taken>>

RequestIds == 1 .. last_id
PendingIds == {r.id : r \in pending}
Fresh == {r \in pending : ~r.expired}       \* prune_expired_pending_requests
NoCommand == [pc |-> "idle", id |-> 0, tool |-> NoTool]

ApprovalsInit ==
  /\ pending = {} /\ resolved = {} /\ session = {} /\ auto_approve = {}
  /\ last_id = 0
  /\ toolCalls = [c \in ToolCalls |-> [pc |-> "start", id |-> 0, late |-> FALSE]]
  /\ commands = [a \in Approvers |-> NoCommand]
  /\ commands_sent = 0
  /\ given = [id \in 1 .. Cardinality(ToolCalls) |-> 0]
  /\ taken = [id \in 1 .. Cardinality(ToolCalls) |-> 0]

Decisions(id) == {d \in resolved : d.id = id}
Ends(c, pc) == toolCalls' = [toolCalls EXCEPT ![c].pc = pc]

----------------------------------------------------------------------------
(* A tool call                                                             *)

Check(c) ==
  /\ toolCalls[c].pc = "start"
  /\ Ends(c, IF ToolOf[c] \in session \cup auto_approve THEN "run" ELSE "ask")
  /\ UNCHANGED <<pending, resolved, session, auto_approve, last_id,
                 commands, commands_sent, given, taken>>

\* Mutant of Matching: every call opens a request of its own.
MatchingNone(c) == {}
Matching(c) == {r \in Fresh : r.tool = ToolOf[c] /\ r.asker = AskerOf[c]}

Polls(c, id) ==
  toolCalls' = [toolCalls EXCEPT ![c] = [@ EXCEPT !.pc = "poll", !.id = id]]

\* create_non_cli_pending_request
Ask(c) ==
  /\ toolCalls[c].pc = "ask"
  /\ \/ \E r \in Matching(c) :
          /\ pending' = Fresh
          /\ Polls(c, r.id)
          /\ UNCHANGED last_id
     \/ /\ Matching(c) = {}
        /\ last_id' = last_id + 1
        /\ pending' = Fresh \cup {[id |-> last_id + 1, tool |-> ToolOf[c],
                                   asker |-> AskerOf[c], expired |-> FALSE]}
        /\ Polls(c, last_id + 1)
  /\ UNCHANGED <<resolved, session, auto_approve, commands, commands_sent, given,
                 taken>>

\* Mutant of AfterTake: a decision is read and left in place.
AfterTakeKept(id) == resolved
AfterTake(id) == resolved \ Decisions(id)

\* take_non_cli_pending_resolution
Take(c) ==
  /\ toolCalls[c].pc = "poll"
  /\ LET id == toolCalls[c].id IN
     \/ \E d \in Decisions(id) :
          /\ Ends(c, IF d.decision = "Yes" THEN "run" ELSE "denied")
          /\ resolved' = AfterTake(id)
          /\ taken' = [taken EXCEPT ![id] = @ + 1]
     \/ /\ Decisions(id) = {}
        /\ Ends(c, "look")
        /\ UNCHANGED <<resolved, taken>>
  /\ UNCHANGED <<pending, session, auto_approve, last_id, commands, commands_sent,
                 given>>

\* Mutant of GivesUp: a call whose time is up polls on.
GivesUpNever(c) == FALSE
GivesUp(c) == toolCalls[c].late

\* The rest of one round of await_non_cli_approval_decision: the request is
\* gone, the turn is cancelled, the time is up, or another round follows.
Look(c) ==
  /\ toolCalls[c].pc = "look"
  /\ LET id   == toolCalls[c].id
         gone == id \notin {r.id : r \in Fresh}
     IN  \/ /\ Ends(c, "denied")                 \* gone or cancelled
            /\ pending' = Fresh
            /\ UNCHANGED resolved
         \/ /\ ~gone /\ GivesUp(c)               \* reject and drop a decision
            /\ Ends(c, "denied")
            /\ pending' = {r \in Fresh : r.id # id}
            /\ resolved' = resolved \ Decisions(id)
         \/ /\ ~gone /\ ~GivesUp(c)
            /\ Ends(c, "poll")
            /\ pending' = Fresh
            /\ UNCHANGED resolved
  /\ UNCHANGED <<session, auto_approve, last_id, commands, commands_sent, given,
                 taken>>

\* 300 seconds have passed since the call began to poll.
TimeUp(c) ==
  /\ toolCalls[c].pc \in {"poll", "look"} /\ ~toolCalls[c].late
  /\ toolCalls' = [toolCalls EXCEPT ![c].late = TRUE]
  /\ UNCHANGED <<pending, resolved, session, auto_approve, last_id,
                 commands, commands_sent, given, taken>>

\* 30 minutes have passed since the request was created.
ExpireRequest(r) ==
  /\ ~r.expired
  /\ pending' = (pending \ {r}) \cup {[r EXCEPT !.expired = TRUE]}
  /\ UNCHANGED <<resolved, session, auto_approve, last_id, toolCalls,
                 commands, commands_sent, given, taken>>

----------------------------------------------------------------------------
(* An approver's command                                                   *)

\* record_non_cli_pending_resolution; a full table drops any one decision.
Record(id, decision) ==
  /\ given' = [given EXCEPT ![id] = @ + 1]
  /\ \E lost \in SUBSET resolved :
       /\ Cardinality(lost) = IF Cardinality(resolved) >= MaxResolved THEN 1 ELSE 0
       /\ resolved' = {d \in resolved \ lost : d.id # id}
                        \cup {[id |-> id, decision |-> decision]}

Grant(tool) == session' = session \cup {tool}

Arrives(a) ==
  /\ commands[a].pc = "idle" /\ commands_sent < MaxCommands
  /\ commands_sent' = commands_sent + 1

Becomes(a, pc, id, tool) ==
  commands' = [commands EXCEPT ![a] = [pc |-> pc, id |-> id, tool |-> tool]]

\* /approve-allow <id>: get_pending_tool_name does not prune.
Allow(a, id) ==
  /\ Arrives(a)
  /\ \/ \E r \in pending : r.id = id /\ Becomes(a, "grant", id, r.tool)
     \/ id \notin PendingIds /\ Becomes(a, "record", id, NoTool)
  /\ UNCHANGED <<pending, resolved, session, auto_approve, last_id, toolCalls,
                 given, taken>>

\* The two halves of an allow.
GrantTool(a) ==
  /\ Grant(commands[a].tool)
  /\ UNCHANGED <<resolved, given>>

RecordYes(a) ==
  /\ Record(commands[a].id, "Yes")
  /\ UNCHANGED session

FinishAllow(a) ==
  /\ \/ /\ commands[a].pc = "grant" /\ GrantTool(a)
        /\ Becomes(a, "record", commands[a].id, commands[a].tool)
     \/ /\ commands[a].pc = "record" /\ RecordYes(a)
        /\ commands' = [commands EXCEPT ![a] = NoCommand]
  /\ UNCHANGED <<pending, auto_approve, last_id, toolCalls, commands_sent, taken>>

Deny(a, id) ==
  /\ Arrives(a)
  /\ Record(id, "No")
  /\ UNCHANGED <<pending, session, auto_approve, last_id, toolCalls, commands, taken>>

GrantSession(a, tool) ==
  /\ Arrives(a)
  /\ Grant(tool)
  /\ UNCHANGED <<pending, resolved, auto_approve, last_id, toolCalls, commands,
                 given, taken>>

GrantPersistent(a, tool) ==
  /\ Arrives(a)
  /\ auto_approve' = auto_approve \cup {tool}
  /\ UNCHANGED <<pending, resolved, session, last_id, toolCalls, commands,
                 given, taken>>

\* /unapprove <tool>: two locks, one after the other.
Revoke(a, tool) ==
  /\ Arrives(a)
  /\ auto_approve' = auto_approve \ {tool}
  /\ Becomes(a, "revoke", 0, tool)
  /\ UNCHANGED <<pending, resolved, session, last_id, toolCalls, given, taken>>

FinishRevoke(a) ==
  /\ commands[a].pc = "revoke"
  /\ session' = session \ {commands[a].tool}
  /\ commands' = [commands EXCEPT ![a] = NoCommand]
  /\ UNCHANGED <<pending, resolved, auto_approve, last_id, toolCalls, commands_sent,
                 given, taken>>

----------------------------------------------------------------------------
CallStep(c) == Check(c) \/ Ask(c) \/ Take(c) \/ Look(c)

Command(a) ==
  \/ \E id \in RequestIds : Allow(a, id) \/ Deny(a, id)
  \/ \E tool \in Tools :
       GrantSession(a, tool) \/ GrantPersistent(a, tool) \/ Revoke(a, tool)
  \/ FinishAllow(a) \/ FinishRevoke(a)

ApprovalsNext ==
  \/ \E c \in ToolCalls : CallStep(c) \/ TimeUp(c)
  \/ \E r \in pending : ExpireRequest(r)
  \/ \E a \in Approvers : Command(a)

\* The turn's task is scheduled and its clock runs; an approver may be silent.
ApprovalsFairness ==
  \A c \in ToolCalls :
    WF_approvalVars(CallStep(c)) /\ WF_approvalVars(TimeUp(c))

ApprovalsSpec ==
  ApprovalsInit /\ [][ApprovalsNext]_approvalVars /\ ApprovalsFairness

----------------------------------------------------------------------------
(* Properties                                                              *)

\* One question at a time: two calls of the same tool from the same asker
\* share one open request, so the approver never sees a question twice.
OneQuestion ==
  \A r, s \in Fresh : r.tool = s.tool /\ r.asker = s.asker => r = s

\* A decision ends at most one wait: however polls, timeouts and repeated
\* commands interleave, no more calls take a decision than were recorded.
DecisionUsedOnce == \A id \in RequestIds : taken[id] <= given[id]

\* No call waits for ever: it runs or is denied even if nobody answers.
CallAnswered ==
  \A c \in ToolCalls :
    (toolCalls[c].pc \in {"ask", "poll"}) ~> (toolCalls[c].pc \in {"run", "denied"})
=============================================================================
