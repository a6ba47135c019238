----------------------------- MODULE Delegation -----------------------------
(***************************************************************************)
(* The delegate tool (tools/delegate.rs) and the trace it leaves on the     *)
(* coordination bus: a request to the worker's inbox, a queued state, the   *)
(* result in the lead's inbox and a closing state.                          *)
(*                                                                         *)
(* A call is named by its fresh correlation id, which also stands for the   *)
(* key delegate/<id>/state.  Calls run in parallel, one publish is one step *)
(* of the bus.  The call returns without closing its trace when the agent   *)
(* has no provider or model, and it can be dropped where it awaits.  Nobody *)
(* drains the inboxes: delegate_coordination_status only peeks.             *)
(***************************************************************************)
EXTENDS CoordinationBus

CONSTANTS
  Lead,     \* coordination_lead_agent
  AgentOf   \* the agent each call delegates to

Messages == {"request", "queued", "result", "closed"}

ASSUME DelegationAssumption ==
  /\ Lead \in Agents /\ AgentOf \in [Corrs -> Agents]
  /\ Ids = Corrs \X Messages
  /\ Keys = Corrs /\ DelegateKeys = Corrs /\ KeyCorr = [c \in Corrs |-> c]

VARIABLE pc   \* where each call is

Stages == {"idle", "queue", "resolve", "execute", "answer", "close",
           "returned", "unresolved", "dropped"}

delegationVars == <<vars, pc>>

-----------------------------------------------------------------------------
(* The envelopes; their texts are never blank                              *)

Message(c, message, kind, to) ==
  [id |-> <<c, message>>, kind |-> kind, scope |-> "direct", to |-> to,
   correlation_id |-> c, key |-> NoKey, expected_version |-> 0, blank |-> FALSE]

Request(c) == Message(c, "request", "delegate_task", AgentOf[c])
Result(c)  == Message(c, "result", "task_result", Lead)

QueuedState(c) ==
  [Message(c, "queued", "context_patch", Lead) EXCEPT !.key = c]

\* Mutant of ClosingState: the patch forgets the version it builds on.
ClosingStateBlind(c) ==
  [Message(c, "closed", "context_patch", Lead) EXCEPT !.key = c]

ClosingState(c) ==
  [Message(c, "closed", "context_patch", Lead)
     EXCEPT !.key = c, !.expected_version = 1]

\* What the calls publish is among what the clients of the bus publish.
ASSUME EnvelopesAssumption ==
  \A c \in Corrs :
    {Request(c), QueuedState(c), Result(c), ClosingState(c)} \subseteq Envelopes

-----------------------------------------------------------------------------
(* Steps of a call                                                         *)

Goto(c, stage) == pc' = [pc EXCEPT ![c] = stage]

\* The tools are built: the lead and all agents are registered.
Register(a) ==
  /\ a \notin registered
  /\ RegisterAgent(a)
  /\ UNCHANGED pc

\* A publish that fails is logged, the call goes on.
PublishRequest(c) ==
  /\ pc[c] = "idle" /\ registered = Agents
  /\ Publish(Request(c))
  /\ Goto(c, "queue")

PublishQueued(c) ==
  /\ pc[c] = "queue"
  /\ Publish(QueuedState(c))
  /\ Goto(c, "resolve")

\* No provider or model for the agent: the call returns an error at once.
Unresolved(c) ==
  /\ pc[c] = "resolve"
  /\ Goto(c, "unresolved")
  /\ UNCHANGED vars

\* The provider cannot be created, or an agentic agent has no tools.
RefuseProvider(c) ==
  /\ pc[c] = "resolve"
  /\ Goto(c, "answer")
  /\ UNCHANGED vars

Execute(c) ==
  /\ pc[c] = "resolve"
  /\ Goto(c, "execute")
  /\ UNCHANGED vars

\* The provider has answered, failed or timed out.
Finish(c) ==
  /\ pc[c] = "execute"
  /\ Goto(c, "answer")
  /\ UNCHANGED vars

\* The caller's turn is cancelled while the provider works.
Drop(c) ==
  /\ pc[c] = "execute"
  /\ Goto(c, "dropped")
  /\ UNCHANGED vars

PublishResult(c) ==
  /\ pc[c] = "answer"
  /\ Publish(Result(c))
  /\ Goto(c, "close")

\* Mutant of PublishClosed: the state is closed ahead of the result.
PublishClosedFirst(c) ==
  /\ pc[c] \in {"answer", "close"}
  /\ Publish(ClosingState(c))
  /\ Goto(c, "returned")

\* Refused when the queued state has been evicted in the meantime.
PublishClosed(c) ==
  /\ pc[c] = "close"
  /\ Publish(ClosingState(c))
  /\ Goto(c, "returned")

-----------------------------------------------------------------------------
DelegationInit == Init /\ pc = [c \in Corrs |-> "idle"]

\* What a call does of itself once it has begun.
Proceed(c) ==
  \/ PublishQueued(c) \/ Unresolved(c) \/ RefuseProvider(c) \/ Execute(c)
  \/ Finish(c) \/ PublishResult(c) \/ PublishClosed(c)

DelegationNext ==
  \/ \E a \in Agents : Register(a)
  \/ \E c \in Corrs : PublishRequest(c) \/ Proceed(c) \/ Drop(c)

DelegationSpec == DelegationInit /\ [][DelegationNext]_delegationVars

-----------------------------------------------------------------------------
(***************************************************************************)
(* The state a reader finds under a delegation agrees with what the call    *)
(* has done: 1 is queued, 2 closed, 0 not written yet or evicted.           *)
(***************************************************************************)
StateMatchesCall ==
  \A c \in Corrs :
    context[c] \in CASE pc[c] \in {"idle", "queue"} -> {0}
                     [] pc[c] = "returned"          -> {0, 2}
                     [] OTHER                       -> {0, 1}

\* The bus has accepted both states of c.
Closed(c) == Len(bases[c]) = 2

\* What c has sent to the lead's inbox.
Story(c) ==
  CASE pc[c] \in {"idle", "queue"} -> <<>>
    [] pc[c] \in {"close", "returned"} ->
         <<"queued", "result">> \o IF Closed(c) THEN <<"closed">> ELSE <<>>
    [] OTHER -> <<"queued">>

\* What the lead's inbox holds of it.
Pending(c) ==
  LET found == Matching(Lead, c)
  IN [i \in 1 .. Len(found) |-> found[i].envelope.id[2]]

(***************************************************************************)
(* The lead finds the story of each delegation in the order in which it     *)
(* happened, and of a full inbox only its beginning is lost: who finds a    *)
(* closing state has the result before it or has lost it to overflow.       *)
(***************************************************************************)
LeadReadsInOrder ==
  \A c \in Corrs \ {d \in Corrs : AgentOf[d] = Lead} :
    /\ IsSuffix(Pending(c), Story(c))
    /\ inbox_overflow_evictions_total = 0 => Pending(c) = Story(c)

\* The delegations a reader finds, by latest change.
Shown == [i \in 1 .. Len(context_order) |-> KeyCorr[context_order[i]]]

States == INSTANCE DelegationStates
            WITH Delegations <- Corrs, Capacity <- ContextLimit,
                 queued <- {c \in Corrs : bases[c] # <<>>},
                 closed <- {c \in Corrs : Closed(c)}, shown <- Shown

(***************************************************************************)
(* The delegate tool on the bus implements the life of delegations: forward *)
(* only, and forgotten for good.                                            *)
(***************************************************************************)
ImplementsStates == States!Spec
=============================================================================
