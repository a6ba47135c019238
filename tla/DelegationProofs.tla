--------------------------- MODULE DelegationProofs ---------------------------
(***************************************************************************)
(* What the delegate tool leaves on the bus, for every number of calls and *)
(* every limit of the bus: the state a reader of the shared context finds  *)
(* under a delegation agrees with the call, the states go through the life *)
(* that DelegationStates allows, and the lead reads the story of each call *)
(* in order.                                                               *)
(***************************************************************************)
EXTENDS Delegation, BusIndexProofs

-----------------------------------------------------------------------------
(* The state of a delegation.  The closing patch is the only publish whose  *)
(* outcome matters to it: it must not be taken for a duplicate while the    *)
(* queued state is still in the context.                                    *)

\* Of the dedupe window only the ids of the closing patches matter.
ClosedAtEnd ==
  \A c \in Corrs : <<c, "closed">> \in seen_message_ids => pc[c] = "returned"

StateInv ==
  /\ context \in [Keys -> Nat]
  /\ pc \in [Corrs -> Stages]
  /\ StateMatchesCall
  /\ ClosedAtEnd

-----------------------------------------------------------------------------
(* What one publish does to the context and to the dedupe window            *)

\* A patch of k adds one version to k; another key may be evicted.
Written(k) ==
  /\ context'[k] = context[k] + 1
  /\ \A x \in Keys \ {k} : context'[x] \in {0, context[x]}

\* Admitting an id adds that id to the window at most.
LEMMA AdmitGrows ==
  ASSUME NEW id, AdmitId(id)
  PROVE  seen_message_ids' \subseteq seen_message_ids \cup {id}
BY DEF AdmitId

\* A patch writes its own key and may evict others.
LEMMA PatchWrites ==
  ASSUME NEW e, e.key \in Keys, context \in [Keys -> Nat], ApplyContextPatch(e)
  PROVE  context' \in [Keys -> Nat] /\ Written(e.key)
<1>1. PICK victim :
        context' = [x \in Keys |-> CASE x = e.key -> context[e.key] + 1
                                     [] x = victim /\ x # e.key -> 0
                                     [] OTHER -> context[x]]
  BY DEF ApplyContextPatch
<1>2. QED
  BY <1>1 DEF Written

\* A publish leaves the context alone or is a patch that passed the checks.
LEMMA PublishContext ==
  ASSUME NEW e, e.kind = "context_patch" => e.key \in Keys,
         context \in [Keys -> Nat], Publish(e)
  PROVE  /\ seen_message_ids' \subseteq seen_message_ids \cup {e.id}
         /\ context' \in [Keys -> Nat]
         /\ \/ context' = context
            \/ e.kind = "context_patch" /\ ~PatchRejected(e) /\ Written(e.key)
<1>1. CASE PublishInvalid(e)
  BY <1>1 DEF PublishInvalid, seenVars, contextVars
<1>2. CASE PublishDuplicate(e)
  BY <1>2 DEF PublishDuplicate, contextVars
<1>3. CASE PublishConflict(e)
  BY <1>3, AdmitGrows DEF PublishConflict, contextVars
<1>4. CASE Accept(e)
  <2>1. seen_message_ids' \subseteq seen_message_ids \cup {e.id}
    BY <1>4, AdmitGrows DEF Accept
  <2>2. CASE e.kind = "context_patch"
    BY <1>4, <2>1, <2>2, PatchWrites DEF Accept, PatchStep
  <2>3. CASE e.kind # "context_patch"
    BY <1>4, <2>1, <2>3 DEF Accept, PatchStep, contextVars
  <2>4. QED
    BY <2>2, <2>3
<1>5. QED
  BY <1>1, <1>2, <1>3, <1>4
  DEF Publish, PublishUnknownTarget, PublishDelivered

\* Only a patch changes the context.
LEMMA OtherKindsKeepContext ==
  ASSUME NEW e, e.kind # "context_patch", Publish(e)
  PROVE  context' = context
BY DEF Publish, PublishInvalid, PublishDuplicate, PublishConflict,
       PublishUnknownTarget, PublishDelivered, Accept, PatchStep, contextVars

-----------------------------------------------------------------------------
(* The invariant                                                            *)

\* Before any call nothing is in the context or in the window.
LEMMA InitState == DelegationInit => StateInv
BY DelegationAssumption
DEF DelegationInit, Init, StateInv, StateMatchesCall, ClosedAtEnd, Stages

\* A call that goes on without a publish.
LEMMA QuietStep ==
  ASSUME StateInv, NEW c \in Corrs, NEW stage \in Stages, Goto(c, stage),
         pc[c] \in {"resolve", "execute"},
         stage \in {"unresolved", "answer", "execute", "dropped"},
         UNCHANGED vars
  PROVE  StateInv'
BY DEF StateInv, StateMatchesCall, ClosedAtEnd, Goto, Stages, vars, seenVars,
       contextVars

\* A publish that is not a patch, by a call whose state stays in the same case.
LEMMA MessageStep ==
  ASSUME StateInv, NEW c \in Corrs, NEW e, e.kind # "context_patch",
         e.id = <<c, "request">> \/ e.id = <<c, "result">>, Publish(e),
         \/ pc[c] = "idle" /\ Goto(c, "queue")
         \/ pc[c] = "answer" /\ Goto(c, "close")
  PROVE  StateInv'
<1>1. context' = context
  BY OtherKindsKeepContext
<1>2. seen_message_ids' \subseteq seen_message_ids \cup {e.id}
  BY PublishContext DEF StateInv
<1>3. context' \in [Keys -> Nat] /\ pc' \in [Corrs -> Stages]
  BY <1>1 DEF StateInv, Goto, Stages
<1>4. StateMatchesCall'
  BY <1>1 DEF StateInv, StateMatchesCall, Goto, Stages
<1>5. ClosedAtEnd'
  BY <1>2 DEF StateInv, ClosedAtEnd, Goto, Stages
<1>6. QED
  BY <1>3, <1>4, <1>5 DEF StateInv

\* The queued state keeps the state of every call right.
LEMMA QueuedStep ==
  ASSUME StateInv, NEW c \in Corrs, PublishQueued(c)
  PROVE  StateInv'
<1> DEFINE e == QueuedState(c)
<1>1. /\ e.kind = "context_patch" /\ e.key = c /\ e.id = <<c, "queued">>
      /\ c \in Keys
  BY DelegationAssumption DEF QueuedState, Message
<1> HIDE DEF e
<1>2. /\ Publish(e) /\ pc[c] = "queue" /\ pc' = [pc EXCEPT ![c] = "resolve"]
  BY DEF PublishQueued, Goto, e
<1>3. /\ seen_message_ids' \subseteq seen_message_ids \cup {<<c, "queued">>}
      /\ context' \in [Keys -> Nat]
      /\ context' = context \/ Written(c)
  BY <1>1, <1>2, PublishContext DEF StateInv
<1>4. StateMatchesCall'
  <2> SUFFICES ASSUME NEW d \in Corrs
               PROVE  context'[d] \in CASE pc'[d] \in {"idle", "queue"} -> {0}
                                        [] pc'[d] = "returned" -> {0, 2}
                                        [] OTHER -> {0, 1}
    BY DEF StateMatchesCall
  <2>1. CASE d = c
    BY <1>2, <1>3, <2>1 DEF StateInv, StateMatchesCall, Written, Stages
  <2>2. CASE d # c
    BY <1>2, <1>3, <2>2, DelegationAssumption
    DEF StateInv, StateMatchesCall, Written, Stages
  <2>3. QED
    BY <2>1, <2>2
<1>5. ClosedAtEnd'
  BY <1>2, <1>3 DEF StateInv, ClosedAtEnd, Stages
<1>6. QED
  BY <1>2, <1>3, <1>4, <1>5 DEF StateInv, Stages

\* The closing patch replaces the queued state or finds it gone.
LEMMA ClosedStep ==
  ASSUME StateInv, NEW c \in Corrs, PublishClosed(c)
  PROVE  StateInv'
<1> DEFINE e == ClosingState(c)
<1>1. /\ e.kind = "context_patch" /\ e.key = c /\ e.id = <<c, "closed">>
      /\ e.expected_version = 1 /\ e.correlation_id = c
      /\ Validate(e)
  BY DelegationAssumption, BusAssumption DEF ClosingState, Message, Validate
<1>2. DelegateKeyOk(e) /\ c \in Keys
  BY <1>1, DelegationAssumption, BusAssumption DEF DelegateKeyOk
<1> HIDE DEF e
<1>3. /\ Publish(e) /\ pc[c] = "close" /\ pc' = [pc EXCEPT ![c] = "returned"]
  BY DEF PublishClosed, Goto, e
<1>4. e.id \notin seen_message_ids
  BY <1>1, <1>3 DEF StateInv, ClosedAtEnd
<1>5. /\ seen_message_ids' \subseteq seen_message_ids \cup {<<c, "closed">>}
      /\ context' \in [Keys -> Nat]
      /\ context' = context \/ Written(c)
  BY <1>1, <1>2, <1>3, PublishContext DEF StateInv
<1>6. context'[c] \in {0, 2}
  <2>1. context[c] \in {0, 1}
    BY <1>3 DEF StateInv, StateMatchesCall
  <2>2. CASE PublishConflict(e)
    BY <1>1, <1>2, <2>1, <2>2 DEF PublishConflict, PatchRejected, contextVars
  <2>3. CASE Accept(e)
    <3>1. context[c] = 1
      BY <1>1, <2>3 DEF Accept, PatchRejected
    <3>2. Written(c)
      BY <1>1, <1>2, <2>3, PatchWrites DEF Accept, PatchStep, StateInv
    <3>3. QED
      BY <3>1, <3>2 DEF Written
  <2>4. QED
    BY <1>1, <1>3, <1>4, <2>2, <2>3
    DEF Publish, PublishInvalid, PublishDuplicate, PublishUnknownTarget,
        PublishDelivered
<1>7. StateMatchesCall'
  <2> SUFFICES ASSUME NEW d \in Corrs
               PROVE  context'[d] \in CASE pc'[d] \in {"idle", "queue"} -> {0}
                                        [] pc'[d] = "returned" -> {0, 2}
                                        [] OTHER -> {0, 1}
    BY DEF StateMatchesCall
  <2>1. CASE d = c
    BY <1>3, <1>6, <2>1 DEF StateInv
  <2>2. CASE d # c
    BY <1>3, <1>5, <2>2, DelegationAssumption
    DEF StateInv, StateMatchesCall, Written, Stages
  <2>3. QED
    BY <2>1, <2>2
<1>8. ClosedAtEnd'
  BY <1>3, <1>5 DEF StateInv, ClosedAtEnd, Stages
<1>9. QED
  BY <1>3, <1>5, <1>7, <1>8 DEF StateInv, Stages

\* Every step of the calls keeps StateInv.
LEMMA NextState == StateInv /\ [DelegationNext]_delegationVars => StateInv'
<1> SUFFICES ASSUME StateInv, [DelegationNext]_delegationVars PROVE StateInv'
  OBVIOUS
<1>1. CASE UNCHANGED delegationVars
  BY <1>1 DEF delegationVars, vars, seenVars, contextVars, StateInv,
              StateMatchesCall, ClosedAtEnd
<1>2. ASSUME NEW a \in Agents, Register(a) PROVE StateInv'
  BY <1>2 DEF Register, RegisterAgent, seenVars, contextVars, StateInv,
              StateMatchesCall, ClosedAtEnd
<1>3. ASSUME NEW c \in Corrs, PublishRequest(c) PROVE StateInv'
  <2>1. /\ Request(c).kind # "context_patch"
        /\ Request(c).id = <<c, "request">>
    BY DEF Request, Message
  <2>2. QED
    BY <1>3, <2>1, MessageStep DEF PublishRequest
<1>4. ASSUME NEW c \in Corrs, PublishResult(c) PROVE StateInv'
  <2>1. /\ Result(c).kind # "context_patch"
        /\ Result(c).id = <<c, "result">>
    BY DEF Result, Message
  <2>2. QED
    BY <1>4, <2>1, MessageStep DEF PublishResult
<1>5. ASSUME NEW c \in Corrs,
             Unresolved(c) \/ RefuseProvider(c) \/ Execute(c) \/ Finish(c)
               \/ Drop(c)
      PROVE  StateInv'
  <2>1. \E stage \in {"unresolved", "answer", "execute", "dropped"} :
          Goto(c, stage)
    BY <1>5 DEF Unresolved, RefuseProvider, Execute, Finish, Drop
  <2>2. pc[c] \in {"resolve", "execute"} /\ UNCHANGED vars
    BY <1>5 DEF Unresolved, RefuseProvider, Execute, Finish, Drop
  <2>3. QED
    BY <2>1, <2>2, QuietStep DEF Stages
<1>6. QED
  BY <1>1, <1>2, <1>3, <1>4, <1>5, QueuedStep, ClosedStep
  DEF DelegationNext, Proceed

(***************************************************************************)
(* The state found under a delegation is one that its call has passed       *)
(* through, however many calls of the delegate tool run in parallel and     *)
(* however small the shared context and the dedupe window are.              *)
(***************************************************************************)
THEOREM StateAgrees == DelegationSpec => []StateMatchesCall
<1>1. StateInv => StateMatchesCall
  BY DEF StateInv
<1>2. QED
  BY InitState, NextState, <1>1, PTL DEF DelegationSpec

-----------------------------------------------------------------------------
(* The calls are clients of the bus                                         *)

\* What a call publishes is an envelope of the bus.
LEMMA CallEnvelopes ==
  ASSUME NEW c \in Corrs
  PROVE  /\ Request(c) \in Envelopes /\ QueuedState(c) \in Envelopes
         /\ Result(c) \in Envelopes /\ ClosingState(c) \in Envelopes
BY EnvelopesAssumption

\* Every step of a call is a step of the bus or none.
LEMMA StepsOnTheBus == [DelegationNext]_delegationVars => [Next]_vars
<1> SUFFICES ASSUME [DelegationNext]_delegationVars PROVE [Next]_vars
  OBVIOUS
<1>1. CASE UNCHANGED delegationVars
  BY <1>1 DEF delegationVars
<1>2. ASSUME NEW a \in Agents, Register(a) PROVE Next
  BY <1>2 DEF Register, Next
<1>3. ASSUME NEW c \in Corrs, PublishRequest(c) \/ Proceed(c) \/ Drop(c)
      PROVE  [Next]_vars
  <2>1. CASE PublishRequest(c) \/ PublishQueued(c) \/ PublishResult(c)
               \/ PublishClosed(c)
    BY <2>1, CallEnvelopes DEF PublishRequest, PublishQueued, PublishResult,
                               PublishClosed, Next
  <2>2. CASE Unresolved(c) \/ RefuseProvider(c) \/ Execute(c) \/ Finish(c)
               \/ Drop(c)
    BY <2>2 DEF Unresolved, RefuseProvider, Execute, Finish, Drop
  <2>. QED
    BY <1>3, <2>1, <2>2 DEF Proceed
<1>. QED
  BY <1>1, <1>2, <1>3 DEF DelegationNext

(***************************************************************************)
(* The calls of the delegate tool use the bus as any client does: what is   *)
(* proved of the bus holds of it while they run.                            *)
(***************************************************************************)
THEOREM CallsUseTheBus == DelegationSpec => Spec
<1>1. DelegationInit => Init
  BY DEF DelegationInit
<1>. QED
  BY <1>1, StepsOnTheBus, PTL DEF DelegationSpec, Spec

-----------------------------------------------------------------------------
(* What a call has sent at each stage                                       *)

Sent(stage) ==
  CASE stage = "idle"     -> {}
    [] stage = "queue"    -> {"request"}
    [] stage = "close"    -> {"request", "queued", "result"}
    [] stage = "returned" -> Messages
    [] OTHER              -> {"request", "queued"}

\* How many of its states the bus has accepted.
Accepted(stage) ==
  CASE stage \in {"idle", "queue"} -> {0}
    [] stage = "returned"          -> {1, 2}
    [] OTHER                       -> {1}

CallInv ==
  \A c \in Corrs :
    /\ \A m \in Messages : <<c, m>> \in seen_message_ids => m \in Sent(pc[c])
    /\ Len(bases[c]) \in Accepted(pc[c])
    /\ pc[c] # "idle" => registered = Agents

\* A step of the call c to `stage`, with a message m or with none.
LEMMA CallStep ==
  ASSUME CallInv, NEW c \in Corrs, NEW m \in Messages, NEW stage \in Stages,
         pc \in [Corrs -> Stages], Goto(c, stage),
         seen_message_ids' \subseteq seen_message_ids \cup {<<c, m>>},
         m \in Sent(stage), Sent(pc[c]) \subseteq Sent(stage),
         registered' = registered, registered = Agents,
         \A d \in Corrs \ {c} : bases'[d] = bases[d],
         Len(bases'[c]) \in Accepted(stage)
  PROVE  CallInv'
<1>1. pc'[c] = stage /\ \A d \in Corrs \ {c} : pc'[d] = pc[d]
  BY DEF Goto
<1>2. ASSUME NEW d \in Corrs, NEW n \in Messages, <<d, n>> \in seen_message_ids'
      PROVE  n \in Sent(pc'[d])
  <2>1. CASE d = c
    <3>1. <<c, n>> \in seen_message_ids \/ n = m
      BY <1>2, <2>1
    <3>2. <<c, n>> \in seen_message_ids => n \in Sent(pc[c])
      BY DEF CallInv
    <3>. QED
      BY <1>1, <2>1, <3>1, <3>2
  <2>2. CASE d # c
    BY <1>1, <1>2, <2>2 DEF CallInv
  <2>. QED
    BY <2>1, <2>2
<1>3. \A d \in Corrs : Len(bases'[d]) \in Accepted(pc'[d])
  BY <1>1 DEF CallInv
<1>. QED
  BY <1>2, <1>3 DEF CallInv

\* A publish that passes every check reaches its target.
LEMMA FreshIsDelivered ==
  ASSUME NEW e, Publish(e), Validate(e), e.id \notin seen_message_ids,
         e.kind = "context_patch" => ~PatchRejected(e),
         e.scope = "direct", e.to \in registered
  PROVE  PublishDelivered(e)
BY DEF Publish, PublishInvalid, PublishDuplicate, PublishConflict,
       PublishUnknownTarget

\* The parts of a delivery that the calls depend on.
LEMMA DeliveredParts ==
  ASSUME NEW e, PublishDelivered(e), e.scope = "direct"
  PROVE  /\ seen_message_ids' \subseteq seen_message_ids \cup {e.id}
         /\ registered' = registered
         /\ Deliver(e, {e.to}) /\ next_sequence' = next_sequence + 1
         /\ e.kind = "context_patch" =>
              /\ ApplyContextPatch(e)
              /\ bases' = [bases EXCEPT ![e.key] = Append(@, e.expected_version)]
         /\ e.kind # "context_patch" => UNCHANGED contextVars
<1>1. Accept(e) /\ Deliver(e, {e.to})
  BY DEF PublishDelivered
<1>2. AdmitId(e.id) /\ PatchStep(e)
  BY <1>1 DEF Accept
<1>. QED
  BY <1>1, <1>2, AdmitGrows DEF Accept, Deliver, PatchStep, ApplyContextPatch

\* The fields of the four messages of a call; the bus finds them all valid.
LEMMA MessageFields ==
  ASSUME NEW c \in Corrs
  PROVE  /\ c \in Keys
         /\ Validate(Request(c)) /\ Validate(Result(c))
         /\ Validate(QueuedState(c)) /\ Validate(ClosingState(c))
         /\ DelegateKeyOk(QueuedState(c)) /\ DelegateKeyOk(ClosingState(c))
         /\ Request(c).id = <<c, "request">> /\ Request(c).to = AgentOf[c]
         /\ Result(c).id = <<c, "result">> /\ Result(c).to = Lead
         /\ QueuedState(c).id = <<c, "queued">> /\ QueuedState(c).to = Lead
         /\ ClosingState(c).id = <<c, "closed">> /\ ClosingState(c).to = Lead
         /\ \A e \in {Request(c), Result(c), QueuedState(c), ClosingState(c)} :
              e.scope = "direct" /\ e.correlation_id = c
         /\ Request(c).kind # "context_patch" /\ Result(c).kind # "context_patch"
         /\ QueuedState(c).kind = "context_patch" /\ QueuedState(c).key = c
         /\ QueuedState(c).expected_version = 0
         /\ ClosingState(c).kind = "context_patch" /\ ClosingState(c).key = c
         /\ ClosingState(c).expected_version = 1
<1>1. /\ Lead \in Agents /\ AgentOf[c] \in Agents /\ c \in Keys
      /\ KeyCorr[c] = c
      /\ NoAgent \notin Agents /\ NoCorr \notin Corrs
  BY DelegationAssumption, BusAssumption
<1>. QED
  BY <1>1 DEF Request, Result, QueuedState, ClosingState, Message, Validate,
              DelegateKeyOk

\* The request of a call is neither a duplicate nor without a target.
LEMMA RequestDelivered ==
  ASSUME CallInv, NEW c \in Corrs, PublishRequest(c)
  PROVE  PublishDelivered(Request(c)) /\ registered = Agents
<1>1. Publish(Request(c)) /\ pc[c] = "idle" /\ registered = Agents
  BY DEF PublishRequest
<1>2. <<c, "request">> \notin seen_message_ids
  BY <1>1 DEF CallInv, Messages, Sent
<1>3. AgentOf[c] \in registered
  BY <1>1, DelegationAssumption
<1>. QED
  BY <1>1, <1>2, <1>3, MessageFields, FreshIsDelivered

\* The result of a call is neither a duplicate nor without a target.
LEMMA ResultDelivered ==
  ASSUME CallInv, NEW c \in Corrs, PublishResult(c)
  PROVE  PublishDelivered(Result(c)) /\ registered = Agents
<1>1. Publish(Result(c)) /\ pc[c] = "answer"
  BY DEF PublishResult
<1>2. <<c, "result">> \notin seen_message_ids /\ registered = Agents
  BY <1>1 DEF CallInv, Messages, Sent
<1>3. Lead \in registered
  BY <1>2, DelegationAssumption
<1>. QED
  BY <1>1, <1>2, <1>3, MessageFields, FreshIsDelivered

\* The queued state is accepted whatever other calls have evicted.
LEMMA QueuedDelivered ==
  ASSUME CallInv, StateInv, NEW c \in Corrs, PublishQueued(c)
  PROVE  /\ PublishDelivered(QueuedState(c)) /\ registered = Agents
         /\ context[c] = 0
<1>1. Publish(QueuedState(c)) /\ pc[c] = "queue"
  BY DEF PublishQueued
<1>2. <<c, "queued">> \notin seen_message_ids /\ registered = Agents
  BY <1>1 DEF CallInv, Messages, Sent
<1>3. Lead \in registered
  BY <1>2, DelegationAssumption
<1>4. context[c] = 0
  BY <1>1 DEF StateInv, StateMatchesCall
<1>5. ~PatchRejected(QueuedState(c))
  BY <1>4, MessageFields DEF PatchRejected
<1>. QED
  BY <1>1, <1>2, <1>3, <1>4, <1>5, MessageFields, FreshIsDelivered

\* The closing state is accepted when the queued one is still there.
LEMMA ClosedDelivered ==
  ASSUME CallInv, StateInv, NEW c \in Corrs, PublishClosed(c)
  PROVE  /\ registered = Agents
         /\ \/ PublishDelivered(ClosingState(c)) /\ context[c] = 1
            \/ PublishConflict(ClosingState(c))
<1>1. Publish(ClosingState(c)) /\ pc[c] = "close"
  BY DEF PublishClosed
<1>2. <<c, "closed">> \notin seen_message_ids /\ registered = Agents
  BY <1>1 DEF CallInv, Messages, Sent
<1>3. Lead \in registered
  BY <1>2, DelegationAssumption
<1>4. PatchRejected(ClosingState(c)) <=> context[c] # 1
  BY MessageFields DEF PatchRejected
<1>5. CASE context[c] = 1
  BY <1>1, <1>2, <1>3, <1>4, <1>5, MessageFields, FreshIsDelivered
<1>6. CASE context[c] # 1
  BY <1>1, <1>2, <1>4, <1>6, MessageFields
  DEF Publish, PublishInvalid, PublishDuplicate, PublishUnknownTarget,
      PublishDelivered, Accept
<1>. QED
  BY <1>2, <1>5, <1>6

\* Before any call nothing has been sent or accepted.
LEMMA CallInit == DelegationInit => CallInv
<1>1. Len(<<>>) = 0
  BY EmptySeq
<1>. QED
  BY <1>1, DelegationAssumption
  DEF DelegationInit, Init, CallInv, Accepted

\* A patch of c by its call is one more version the bus has accepted.
LEMMA VersionCounted ==
  ASSUME CoreTypeOK, NEW c \in Corrs, NEW v \in Nat,
         bases' = [bases EXCEPT ![c] = Append(@, v)]
  PROVE  /\ bases'[c] \in Seq(Nat) /\ bases[c] \in Seq(Nat)
         /\ Len(bases'[c]) = Len(bases[c]) + 1
         /\ \A d \in Corrs \ {c} : bases'[d] = bases[d]
<1>1. c \in Keys /\ bases \in [Keys -> Seq(Nat)]
  BY DelegationAssumption DEF CoreTypeOK
<1>2. bases[c] \in Seq(Nat) /\ bases'[c] = Append(bases[c], v)
  BY <1>1
<1>3. /\ Len(Append(bases[c], v)) = Len(bases[c]) + 1
      /\ Append(bases[c], v) \in Seq(Nat)
  BY <1>2, AppendProperties
<1>. QED
  BY <1>1, <1>2, <1>3, DelegationAssumption

\* Every step of the calls keeps CallInv.
LEMMA CallsKept ==
  ASSUME CoreTypeOK, StateInv, CallInv, [DelegationNext]_delegationVars
  PROVE  CallInv'
<1>0. pc \in [Corrs -> Stages]
  BY DEF StateInv
<1>1. CASE UNCHANGED delegationVars
  BY <1>1 DEF delegationVars, vars, seenVars, inboxVars, contextVars, CallInv
<1>2. ASSUME NEW a \in Agents, Register(a) PROVE CallInv'
  BY <1>2 DEF Register, RegisterAgent, seenVars, contextVars, CallInv
<1>3. ASSUME NEW c \in Corrs, PublishRequest(c) PROVE CallInv'
  <2> DEFINE e == Request(c)
  <2>1. /\ PublishDelivered(e) /\ registered = Agents
        /\ e.scope = "direct" /\ e.id = <<c, "request">>
        /\ e.kind # "context_patch"
    BY <1>3, RequestDelivered, MessageFields
  <2> HIDE DEF e
  <2>2. /\ seen_message_ids' \subseteq seen_message_ids \cup {<<c, "request">>}
        /\ registered' = registered /\ bases' = bases
    BY <2>1, DeliveredParts DEF contextVars
  <2>3. pc[c] = "idle" /\ Goto(c, "queue")
    BY <1>3 DEF PublishRequest
  <2>. QED
    BY <1>0, <2>1, <2>2, <2>3, CallStep
    DEF CallInv, Sent, Accepted, Stages, Messages
<1>4. ASSUME NEW c \in Corrs, PublishResult(c) PROVE CallInv'
  <2> DEFINE e == Result(c)
  <2>1. /\ PublishDelivered(e) /\ registered = Agents
        /\ e.scope = "direct" /\ e.id = <<c, "result">>
        /\ e.kind # "context_patch"
    BY <1>4, ResultDelivered, MessageFields
  <2> HIDE DEF e
  <2>2. /\ seen_message_ids' \subseteq seen_message_ids \cup {<<c, "result">>}
        /\ registered' = registered /\ bases' = bases
    BY <2>1, DeliveredParts DEF contextVars
  <2>3. pc[c] = "answer" /\ Goto(c, "close")
    BY <1>4 DEF PublishResult
  <2>. QED
    BY <1>0, <2>1, <2>2, <2>3, CallStep
    DEF CallInv, Sent, Accepted, Stages, Messages
<1>5. ASSUME NEW c \in Corrs, PublishQueued(c) PROVE CallInv'
  <2> DEFINE e == QueuedState(c)
  <2>1. /\ PublishDelivered(e) /\ registered = Agents
        /\ e.scope = "direct" /\ e.id = <<c, "queued">>
        /\ e.kind = "context_patch" /\ e.key = c /\ e.expected_version = 0
    BY <1>5, QueuedDelivered, MessageFields
  <2> HIDE DEF e
  <2>2. /\ seen_message_ids' \subseteq seen_message_ids \cup {<<c, "queued">>}
        /\ registered' = registered
        /\ bases' = [bases EXCEPT ![c] = Append(@, 0)]
    BY <2>1, DeliveredParts
  <2>3. pc[c] = "queue" /\ Goto(c, "resolve")
    BY <1>5 DEF PublishQueued
  <2>4. Len(bases[c]) = 0
    BY <2>3 DEF CallInv, Accepted
  <2>5. Len(bases'[c]) = 1 /\ \A d \in Corrs \ {c} : bases'[d] = bases[d]
    <3>1. /\ Len(bases'[c]) = Len(bases[c]) + 1
          /\ \A d \in Corrs \ {c} : bases'[d] = bases[d]
      BY <2>2, 0 \in Nat, VersionCounted, Zenon
    <3>. QED
      BY <2>4, <3>1
  <2>. QED
    BY <1>0, <2>1, <2>2, <2>3, <2>5, CallStep
    DEF Sent, Accepted, Stages, Messages
<1>6. ASSUME NEW c \in Corrs, PublishClosed(c) PROVE CallInv'
  <2> DEFINE e == ClosingState(c)
  <2>1. /\ registered = Agents
        /\ e.scope = "direct" /\ e.id = <<c, "closed">>
        /\ e.kind = "context_patch" /\ e.key = c /\ e.expected_version = 1
    BY <1>6, ClosedDelivered, MessageFields
  <2>2. PublishDelivered(e) \/ PublishConflict(e)
    BY <1>6, ClosedDelivered
  <2> HIDE DEF e
  <2>3. pc[c] = "close" /\ Goto(c, "returned")
    BY <1>6 DEF PublishClosed
  <2>4. Len(bases[c]) = 1
    BY <2>3 DEF CallInv, Accepted
  <2>5. /\ seen_message_ids' \subseteq seen_message_ids \cup {<<c, "closed">>}
        /\ registered' = registered
        /\ Len(bases'[c]) \in {1, 2}
        /\ \A d \in Corrs \ {c} : bases'[d] = bases[d]
    <3>1. CASE PublishDelivered(e)
      <4>1. bases' = [bases EXCEPT ![c] = Append(@, 1)]
        BY <2>1, <3>1, DeliveredParts
      <4>2. Len(bases'[c]) = 2 /\ \A d \in Corrs \ {c} : bases'[d] = bases[d]
        <5>1. /\ Len(bases'[c]) = Len(bases[c]) + 1
              /\ \A d \in Corrs \ {c} : bases'[d] = bases[d]
          BY <4>1, 1 \in Nat, VersionCounted, Zenon
        <5>. QED
          BY <2>4, <5>1
      <4>. QED
        BY <2>1, <3>1, <4>2, DeliveredParts
    <3>2. CASE PublishConflict(e)
      BY <2>1, <2>4, <3>2, AdmitGrows DEF PublishConflict, inboxVars, contextVars
    <3>. QED
      BY <2>2, <3>1, <3>2
  <2>. QED
    BY <1>0, <2>1, <2>3, <2>5, CallStep
    DEF Sent, Accepted, Stages, Messages
<1>7. ASSUME NEW c \in Corrs,
             Unresolved(c) \/ RefuseProvider(c) \/ Execute(c) \/ Finish(c)
               \/ Drop(c)
      PROVE  CallInv'
  <2>1. PICK stage \in {"unresolved", "answer", "execute", "dropped"} :
          Goto(c, stage)
    BY <1>7 DEF Unresolved, RefuseProvider, Execute, Finish, Drop
  <2>2. pc[c] \in {"resolve", "execute"} /\ UNCHANGED vars
    BY <1>7 DEF Unresolved, RefuseProvider, Execute, Finish, Drop
  <2>3. /\ seen_message_ids' = seen_message_ids /\ registered' = registered
        /\ bases' = bases
    BY <2>2 DEF vars, seenVars, inboxVars, contextVars
  <2>4. registered = Agents /\ Len(bases[c]) \in {1}
    BY <2>2 DEF CallInv, Accepted
  <2>. QED
    BY <1>0, <2>1, <2>2, <2>3, <2>4, CallStep
    DEF Sent, Accepted, Stages, Messages
<1>. QED
  BY <1>1, <1>2, <1>3, <1>4, <1>5, <1>6, <1>7 DEF DelegationNext, Proceed

\* StateInv holds in every state.
LEMMA StateInvariant == DelegationSpec => []StateInv
BY InitState, NextState, PTL DEF DelegationSpec

\* CallInv holds in every state.
LEMMA CallInvariant == DelegationSpec => []CallInv
BY CallInit, CallsKept, StateInvariant, CallsUseTheBus, CoreTypes, PTL
DEF DelegationSpec

-----------------------------------------------------------------------------
(* The refinement of DelegationStates                                       *)

\* A key is its delegation, so the order of the keys is what is shown.
LEMMA ShownIsOrder ==
  ASSUME NEW order \in Seq(Keys)
  PROVE  [i \in 1 .. Len(order) |-> KeyCorr[order[i]]] = order
<1>1. \A i \in 1 .. Len(order) : order[i] \in Corrs
  BY ElementOfSeq, DelegationAssumption
<1>2. KeyCorr = [c \in Corrs |-> c]
  BY DelegationAssumption
<1>3. [i \in 1 .. Len(order) |-> KeyCorr[order[i]]] =
        [i \in 1 .. Len(order) |-> order[i]]
  BY <1>1, <1>2
<1>4. order \in [1 .. Len(order) -> Keys]
  BY LenProperties
<1>. QED
  BY <1>3, <1>4

IsQueued == {c \in Corrs : bases[c] # <<>>}
IsClosed == {c \in Corrs : Closed(c)}

\* A step that leaves the context alone.
LEMMA ReaderStutters ==
  ASSUME context_order' = context_order, bases' = bases
  PROVE  UNCHANGED States!stateVars
BY DEF States!stateVars, Shown, Closed

\* The sequence operators of the abstract module are those of this one.
LEMMA SameOperators ==
  ASSUME NEW s, NEW x
  PROVE  /\ States!Contains(s, x) <=> Contains(s, x)
         /\ States!RemoveFirst(s, x) = RemoveFirst(s, x)
<1>1. States!Contains(s, x) <=> Contains(s, x)
  BY Zenon DEF States!Contains, Contains
<1>2. \A S : States!Min(S) = Min(S)
  BY Zenon DEF States!Min, Min
<1>3. States!SelectInSeq(s, LAMBDA v : v = x) = SelectInSeq(s, LAMBDA v : v = x)
  BY <1>2, Zenon DEF States!SelectInSeq, SelectInSeq
<1>4. States!RemoveFirst(s, x) = RemoveFirst(s, x)
  BY <1>3, Zenon DEF States!RemoveFirst, RemoveFirst, States!RemoveAt, RemoveAt
<1>. QED
  BY <1>1, <1>4

\* No patch was accepted if and only if their number is 0.
LEMMA NoneAccepted ==
  ASSUME NEW versions \in Seq(Nat)
  PROVE  versions = <<>> <=> Len(versions) = 0
BY EmptySeq

\* A queued state is queued in the table.
LEMMA QueuedMaps ==
  ASSUME CoreTypeOK, ContextInv, StateInv, CallInv, context_order' \in Seq(Keys),
         NEW c \in Corrs, PublishQueued(c)
  PROVE  States!Next
<1> DEFINE e == QueuedState(c)
<1>1. /\ PublishDelivered(e) /\ context[c] = 0
      /\ e.scope = "direct" /\ e.kind = "context_patch" /\ e.key = c
      /\ e.expected_version = 0
  BY QueuedDelivered, MessageFields
<1> HIDE DEF e
<1>2. ApplyContextPatch(e) /\ bases' = [bases EXCEPT ![c] = Append(@, 0)]
  BY <1>1, DeliveredParts
<1>3. Len(bases[c]) = 0
  BY DEF PublishQueued, CallInv, Accepted
<1>4. /\ bases'[c] \in Seq(Nat) /\ bases[c] \in Seq(Nat)
      /\ Len(bases'[c]) = Len(bases[c]) + 1
      /\ \A d \in Corrs \ {c} : bases'[d] = bases[d]
  BY <1>2, 0 \in Nat, VersionCounted, Zenon
<1>5. bases[c] = <<>> /\ bases'[c] # <<>> /\ Len(bases'[c]) = 1
  <2>1. Len(bases'[c]) = 1
    BY <1>3, <1>4
  <2>2. Len(bases'[c]) # 0
    BY <2>1
  <2>. QED
    BY <1>3, <1>4, <2>1, <2>2, NoneAccepted, Zenon
<1>6. /\ IsQueued' = IsQueued \cup {c} /\ c \notin IsQueued
      /\ IsClosed' = IsClosed
  <2>1. \A d \in Corrs : /\ bases'[d] # <<>> <=> bases[d] # <<>> \/ d = c
                         /\ Len(bases'[d]) = 2 <=> Len(bases[d]) = 2
    <3>1. CASE Len(bases[c]) # 2 /\ Len(bases'[c]) # 2
      BY <1>4, <1>5, <3>1, Zenon
    <3>. QED
      BY <1>3, <1>5, <3>1
  <2>. QED
    BY <1>5, <2>1 DEF IsQueued, IsClosed, Closed
<1>7. context_order' = Append(States!Room(context_order), c)
  <2>1. /\ context_order \in Seq(Keys) /\ Len(context_order) \in Nat
        /\ Cardinality(PresentKeys) = Len(context_order)
    BY OrderFacts, LenProperties
  <2>2. Len(context_order) >= ContextLimit => context_order # <<>>
    BY <2>1, LimitsPositive, EmptySeq
  <2>3. context_order' =
          Append(IF Len(context_order) >= ContextLimit /\ context_order # <<>>
                 THEN Tail(context_order) ELSE context_order, c)
    BY <1>1, <1>2, <2>1 DEF ApplyContextPatch, UnlinkIf
  <2>. QED
    BY <2>2, <2>3 DEF States!Room
<1>8. Shown = context_order /\ Shown' = context_order'
  BY ShownIsOrder, OrderFacts DEF Shown
<1>9. States!Queue(c)
  BY <1>6, <1>7, <1>8 DEF States!Queue, IsQueued, IsClosed
<1>. QED
  BY <1>9 DEF States!Next

\* A closing state closes its delegation in the table or changes nothing there.
LEMMA ClosedMaps ==
  ASSUME CoreTypeOK, ContextInv, StateInv, CallInv, context_order' \in Seq(Keys),
         NEW c \in Corrs, PublishClosed(c)
  PROVE  States!Next \/ UNCHANGED States!stateVars
<1> DEFINE e == ClosingState(c)
<1>1. CASE PublishConflict(e)
  BY <1>1, ReaderStutters DEF PublishConflict, contextVars
<1>2. CASE PublishDelivered(e) /\ context[c] = 1
  <2>1. /\ e.scope = "direct" /\ e.kind = "context_patch" /\ e.key = c
        /\ e.expected_version = 1
    BY MessageFields
  <2> HIDE DEF e
  <2>2. ApplyContextPatch(e) /\ bases' = [bases EXCEPT ![c] = Append(@, 1)]
    BY <1>2, <2>1, DeliveredParts
  <2>3. Len(bases[c]) = 1
    BY DEF PublishClosed, CallInv, Accepted
  <2>4. /\ bases'[c] \in Seq(Nat) /\ bases[c] \in Seq(Nat)
        /\ Len(bases'[c]) = Len(bases[c]) + 1
        /\ \A d \in Corrs \ {c} : bases'[d] = bases[d]
    BY <2>2, 1 \in Nat, VersionCounted, Zenon
  <2>5. bases[c] # <<>> /\ bases'[c] # <<>> /\ Len(bases'[c]) = 2
    <3>1. Len(bases'[c]) = 2
      BY <2>3, <2>4
    <3>2. Len(bases'[c]) # 0 /\ Len(bases[c]) # 0
      BY <2>3, <3>1
    <3>. QED
      BY <2>4, <3>1, <3>2, NoneAccepted, Zenon
  <2>6. /\ IsQueued' = IsQueued /\ IsClosed' = IsClosed \cup {c}
        /\ c \notin IsClosed
    <3>1. \A d \in Corrs : /\ bases'[d] # <<>> <=> bases[d] # <<>>
                           /\ Len(bases'[d]) = 2 <=> Len(bases[d]) = 2 \/ d = c
      BY <2>3, <2>4, <2>5
    <3>2. Len(bases[c]) # 2
      BY <2>3
    <3>3. IsQueued' = IsQueued
      BY <3>1, Zenon DEF IsQueued
    <3>4. IsClosed' = IsClosed \cup {c}
      <4> DEFINE F(d) == Len(bases[d]) = 2
                 G(d) == Len(bases'[d]) = 2
      <4>1. \A d \in Corrs : G(d) <=> F(d) \/ d = c
        BY <3>1
      <4>2. IsClosed = {d \in Corrs : F(d)} /\ IsClosed' = {d \in Corrs : G(d)}
        BY DEF IsClosed, Closed
      <4> HIDE DEF F, G
      <4>. QED
        BY <4>1, <4>2
    <3>. QED
      BY <3>2, <3>3, <3>4, Zenon DEF IsClosed, Closed
  <2>7. context_order' = Append(RemoveFirst(context_order, c), c)
    BY <1>2, <2>1, <2>2 DEF ApplyContextPatch, UnlinkIf
  <2>8. Contains(context_order, c)
    <3>1. c \in ToSet(context_order)
      BY <1>2, OrderFacts, DelegationAssumption DEF PresentKeys
    <3>. QED
      BY <3>1, OrderFacts, ToSetProperties DEF Contains
  <2>9. Shown = context_order /\ Shown' = context_order'
    BY ShownIsOrder, OrderFacts DEF Shown
  <2>10. States!Close(c)
    BY <2>6, <2>7, <2>8, <2>9, SameOperators DEF States!Close, IsQueued, IsClosed
  <2>. QED
    BY <2>10 DEF States!Next
<1>. QED
  BY <1>1, <1>2, ClosedDelivered

\* The empty context is the empty table.
LEMMA ReaderInit == DelegationInit => States!Init
<1> SUFFICES ASSUME DelegationInit PROVE States!Init
  OBVIOUS
<1>1. Len(<<>>) = 0 /\ <<>> \in Seq(Keys)
  BY EmptySeq
<1>2. context_order = <<>> /\ \A c \in Corrs : bases[c] = <<>>
  BY DelegationAssumption DEF DelegationInit, Init
<1>3. Shown = <<>>
  BY <1>1, <1>2, ShownIsOrder DEF Shown
<1>4. {c \in Corrs : bases[c] # <<>>} = {} /\ {c \in Corrs : Closed(c)} = {}
  BY <1>1, <1>2 DEF Closed
<1>. QED
  BY <1>3, <1>4 DEF States!Init

\* Every step of the calls is a step of the table or changes nothing there.
LEMMA ReaderStep ==
  ASSUME CoreTypeOK, ContextInv, ContextInv', StateInv, CallInv,
         [DelegationNext]_delegationVars
  PROVE  States!Next \/ UNCHANGED States!stateVars
<1>1. context_order' \in Seq(Keys)
  BY DEF ContextInv
<1>2. CASE UNCHANGED delegationVars
  BY <1>2, ReaderStutters DEF delegationVars, vars, contextVars
<1>3. ASSUME NEW a \in Agents, Register(a) PROVE UNCHANGED States!stateVars
  BY <1>3, ReaderStutters DEF Register, RegisterAgent, contextVars
<1>4. ASSUME NEW c \in Corrs, PublishRequest(c)
      PROVE  UNCHANGED States!stateVars
  <2>1. PublishDelivered(Request(c)) /\ Request(c).kind # "context_patch"
    BY <1>4, RequestDelivered, MessageFields
  <2>. QED
    BY <2>1, ReaderStutters DEF PublishDelivered, Accept, PatchStep, contextVars
<1>5. ASSUME NEW c \in Corrs, PublishResult(c)
      PROVE  UNCHANGED States!stateVars
  <2>1. PublishDelivered(Result(c)) /\ Result(c).kind # "context_patch"
    BY <1>5, ResultDelivered, MessageFields
  <2>. QED
    BY <2>1, ReaderStutters DEF PublishDelivered, Accept, PatchStep, contextVars
<1>6. ASSUME NEW c \in Corrs,
             Unresolved(c) \/ RefuseProvider(c) \/ Execute(c) \/ Finish(c)
               \/ Drop(c)
      PROVE  UNCHANGED States!stateVars
  BY <1>6, ReaderStutters
  DEF Unresolved, RefuseProvider, Execute, Finish, Drop, vars, contextVars
<1>. QED
  BY <1>1, <1>2, <1>3, <1>4, <1>5, <1>6, QueuedMaps, ClosedMaps
  DEF DelegationNext, Proceed

(***************************************************************************)
(* The delegate tool on the bus implements the life of delegations: one is  *)
(* shown as queued and then, at most once and only while it is still in     *)
(* view, as closed; what a full context forgets is the delegation that      *)
(* changed first, and it never comes back.                                  *)
(***************************************************************************)
THEOREM DelegationImplementsStates == DelegationSpec => ImplementsStates
<1>1. CoreTypeOK /\ ContextInv /\ ContextInv' /\ StateInv /\ CallInv
        /\ [DelegationNext]_delegationVars
      => [States!Next]_(States!stateVars)
  BY ReaderStep
<1>. QED
  BY <1>1, ReaderInit, CallsUseTheBus, CoreTypes, ContextInvariant,
     StateInvariant, CallInvariant, PTL
  DEF DelegationSpec, ImplementsStates, States!Spec

-----------------------------------------------------------------------------
(* The ends of a sequence                                                   *)

\* s is the end of t, by positions.
EndOf(s, t) ==
  /\ Len(s) <= Len(t)
  /\ \A i \in 1 .. Len(s) : s[i] = t[Len(t) - Len(s) + i]

\* An end of a sequence is one of its suffixes.
LEMMA EndIsSuffix ==
  ASSUME NEW X, NEW s \in Seq(X), NEW t \in Seq(X), EndOf(s, t)
  PROVE  IsSuffix(s, t)
<1> DEFINE rs == Reverse(s)
           rt == Reverse(t)
           m == Len(s)
           n == Len(t)
<1>1. /\ rs \in Seq(X) /\ Len(rs) = m /\ m \in Nat
      /\ rt \in Seq(X) /\ Len(rt) = n /\ n \in Nat
      /\ \A i \in 1 .. m : rs[i] = s[(m - i) + 1]
      /\ \A i \in 1 .. n : rt[i] = t[(n - i) + 1]
  BY ReverseProperties, LenProperties
<1>2. m <= n /\ \A i \in 1 .. m : s[i] = t[n - m + i]
  BY DEF EndOf
<1>3. \A i \in 1 .. m : rs[i] = rt[i]
  <2>1. SUFFICES ASSUME NEW i \in 1 .. m PROVE rs[i] = rt[i]
    OBVIOUS
  <2>2. (m - i) + 1 \in 1 .. m /\ i \in 1 .. n
        /\ n - m + ((m - i) + 1) = (n - i) + 1
    BY <1>1, <1>2
  <2> HIDE DEF rs, rt, m, n
  <2>3. s[(m - i) + 1] = t[n - m + ((m - i) + 1)]
    BY <1>2, <2>2
  <2>. QED
    BY <1>1, <2>2, <2>3
<1> HIDE DEF rs, rt, m, n
<1>4. SubSeq(rs, 1, m) = SubSeq(rt, 1, m)
  <2>1. /\ SubSeq(rs, 1, m) \in Seq(X) /\ Len(SubSeq(rs, 1, m)) = m
        /\ \A i \in 1 .. m : SubSeq(rs, 1, m)[i] = rs[i]
    BY <1>1, SubSeqFull
  <2>2. \A i \in 1 .. m : rt[i] \in X
    BY <1>1, <1>2, ElementOfSeq
  <2>3. /\ SubSeq(rt, 1, m) \in Seq(X) /\ Len(SubSeq(rt, 1, m)) = m
        /\ \A i \in 1 .. m : SubSeq(rt, 1, m)[i] = rt[i]
    BY <1>1, <1>2, <2>2, SubSeqProperties
  <2> DEFINE u == SubSeq(rs, 1, m)
             v == SubSeq(rt, 1, m)
  <2>4. u \in Seq(X) /\ v \in Seq(X) /\ Len(u) = Len(v)
        /\ \A i \in 1 .. Len(u) : u[i] = v[i]
    BY <1>3, <2>1, <2>3
  <2> HIDE DEF u, v
  <2>5. u = v
    BY <2>4, SeqEqual
  <2>. QED
    BY <2>5 DEF u, v
<1>5. IsPrefix(rs, rt)
  BY <1>1, <1>2, <1>4 DEF IsPrefix
<1>. QED
  BY <1>5 DEF IsSuffix, rs, rt

\* Appending to both keeps an end an end.
LEMMA EndOfAppend ==
  ASSUME NEW X, NEW s \in Seq(X), NEW t \in Seq(X), NEW x \in X, EndOf(s, t)
  PROVE  EndOf(Append(s, x), Append(t, x))
<1> DEFINE m == Len(s)
           n == Len(t)
           u == Append(s, x)
           v == Append(t, x)
<1>1. /\ m \in Nat /\ n \in Nat /\ Len(u) = m + 1 /\ Len(v) = n + 1
      /\ u[m + 1] = x /\ v[n + 1] = x
      /\ \A i \in 1 .. m : u[i] = s[i]
      /\ \A i \in 1 .. n : v[i] = t[i]
  BY AppendProperties, LenProperties
<1>2. m <= n /\ \A i \in 1 .. m : s[i] = t[n - m + i]
  BY DEF EndOf
<1> HIDE DEF m, n, u, v
<1>3. ASSUME NEW i \in 1 .. m + 1 PROVE u[i] = v[(n + 1) - (m + 1) + i]
  <2>1. CASE i = m + 1
    <3>1. (n + 1) - (m + 1) + i = n + 1
      BY <1>1, <2>1
    <3>. QED
      BY <1>1, <2>1, <3>1
  <2>2. CASE i # m + 1
    <3>1. i \in 1 .. m /\ (n + 1) - (m + 1) + i = n - m + i
          /\ n - m + i \in 1 .. n
      BY <1>1, <1>2, <2>2
    <3>. QED
      BY <1>1, <1>2, <3>1
  <2>. QED
    BY <2>1, <2>2
<1>4. EndOf(u, v)
  BY <1>1, <1>2, <1>3 DEF EndOf
<1>. QED
  BY <1>4 DEF u, v

\* An end without its first element is an end.
LEMMA EndOfTail ==
  ASSUME NEW X, NEW s \in Seq(X), NEW t \in Seq(X), s # <<>>, EndOf(s, t)
  PROVE  EndOf(Tail(s), t)
<1> DEFINE m == Len(s)
           n == Len(t)
           u == Tail(s)
<1>1. m \in Nat \ {0} /\ n \in Nat
  BY EmptySeq, LenProperties
<1>2. /\ Len(u) = m - 1 /\ \A i \in 1 .. m - 1 : u[i] = s[i + 1]
  BY <1>1, HeadTailProperties
<1>3. m <= n /\ \A i \in 1 .. m : s[i] = t[n - m + i]
  BY DEF EndOf
<1> HIDE DEF m, n, u
<1>4. ASSUME NEW i \in 1 .. m - 1 PROVE u[i] = t[n - (m - 1) + i]
  <2>1. i + 1 \in 1 .. m /\ n - m + (i + 1) = n - (m - 1) + i
    BY <1>1
  <2>2. s[i + 1] = t[n - m + (i + 1)]
    BY <1>3, <2>1
  <2>. QED
    BY <1>2, <2>1, <2>2
<1>5. m - 1 <= n
  BY <1>1, <1>3
<1>. QED
  BY <1>2, <1>4, <1>5 DEF EndOf, u, n

-----------------------------------------------------------------------------
(* The names of the messages of a call in an inbox                          *)

Names(s) == [i \in 1 .. Len(s) |-> s[i].envelope.id[2]]
NamesOf(inbox, c) == Names(Only(inbox, EntriesOf(c)))

\* Every message on the bus is one of the four of some call.
LEMMA EntryNames == \A d \in Entry : d.envelope.id[2] \in Messages
<1>1. \A d \in Entry : d.envelope.id \in Corrs \X Messages
  BY DelegationAssumption DEF Entry, Envelope
<1>. QED
  BY <1>1

\* Names takes a sequence of messages to that of their names.
LEMMA NamesProperties ==
  ASSUME NEW s \in Seq(Entry)
  PROVE  /\ Names(s) \in Seq(Messages) /\ Len(Names(s)) = Len(s)
         /\ \A i \in 1 .. Len(s) : Names(s)[i] = s[i].envelope.id[2]
<1>1. \A i \in 1 .. Len(s) : s[i].envelope.id[2] \in Messages
  BY ElementOfSeq, EntryNames
<1>2. Names(s) \in [1 .. Len(s) -> Messages] /\ Len(s) \in Nat
  BY <1>1, LenProperties DEF Names
<1>. QED
  BY <1>2, FunctionIsSeq DEF Names

\* The names of a longer sequence.
LEMMA NamesOfAppend ==
  ASSUME NEW s \in Seq(Entry), NEW d \in Entry
  PROVE  Names(Append(s, d)) = Append(Names(s), d.envelope.id[2])
<1> DEFINE t == Append(s, d)
           x == d.envelope.id[2]
           u == Names(t)
           v == Append(Names(s), x)
           n == Len(s)
<1>1. /\ t \in Seq(Entry) /\ n \in Nat /\ Len(t) = n + 1 /\ t[n + 1] = d
      /\ \A i \in 1 .. n : t[i] = s[i]
  BY AppendProperties, LenProperties
<1>2. /\ Names(s) \in Seq(Messages) /\ Len(Names(s)) = n /\ x \in Messages
      /\ \A i \in 1 .. n : Names(s)[i] = s[i].envelope.id[2]
  BY NamesProperties, EntryNames
<1>3. /\ v \in Seq(Messages) /\ Len(v) = n + 1 /\ v[n + 1] = x
      /\ \A i \in 1 .. n : v[i] = Names(s)[i]
  BY <1>2, AppendProperties
<1> HIDE DEF t, n
<1>4. /\ u \in Seq(Messages) /\ Len(u) = n + 1
      /\ \A i \in 1 .. n + 1 : u[i] = t[i].envelope.id[2]
  BY <1>1, NamesProperties
<1> HIDE DEF u, v
<1>5. ASSUME NEW i \in 1 .. n + 1 PROVE u[i] = v[i]
  <2>1. CASE i = n + 1
    BY <1>1, <1>3, <1>4, <2>1
  <2>2. CASE i # n + 1
    <3>1. i \in 1 .. n
      BY <1>1, <2>2
    <3>. QED
      BY <1>1, <1>2, <1>3, <1>4, <3>1
  <2>. QED
    BY <2>1, <2>2
<1>6. u = v
  BY <1>3, <1>4, <1>5, SeqEqual
<1>. QED
  BY <1>6 DEF u, v, t

\* The names of a sequence without its first message.
LEMMA NamesOfTail ==
  ASSUME NEW s \in Seq(Entry), s # <<>>
  PROVE  Names(Tail(s)) = Tail(Names(s))
<1> DEFINE t == Tail(s)
           u == Names(t)
           v == Tail(Names(s))
           n == Len(s)
<1>1. n \in Nat \ {0}
  BY EmptySeq, LenProperties
<1>2. /\ t \in Seq(Entry) /\ Len(t) = n - 1
      /\ \A i \in 1 .. n - 1 : t[i] = s[i + 1]
  BY <1>1, HeadTailProperties
<1>3. /\ Names(s) \in Seq(Messages) /\ Len(Names(s)) = n
      /\ \A i \in 1 .. n : Names(s)[i] = s[i].envelope.id[2]
  BY NamesProperties
<1>4. Names(s) # <<>>
  BY <1>1, <1>3, EmptySeq
<1>5. /\ v \in Seq(Messages) /\ Len(v) = n - 1
      /\ \A i \in 1 .. n - 1 : v[i] = Names(s)[i + 1]
  BY <1>3, <1>4, HeadTailProperties
<1> HIDE DEF t, n
<1>6. /\ u \in Seq(Messages) /\ Len(u) = n - 1
      /\ \A i \in 1 .. n - 1 : u[i] = t[i].envelope.id[2]
  BY <1>2, NamesProperties
<1> HIDE DEF u, v
<1>7. ASSUME NEW i \in 1 .. n - 1 PROVE u[i] = v[i]
  <2>1. i + 1 \in 1 .. n
    BY <1>1
  <2>. QED
    BY <1>2, <1>3, <1>5, <1>6, <2>1
<1>8. u = v
  BY <1>5, <1>6, <1>7, SeqEqual
<1>. QED
  BY <1>8 DEF u, v, t

\* An entry at the end is named after all the others of its call.
LEMMA NamesGrow ==
  ASSUME NEW inbox \in Seq(Entry), NEW d \in Entry, NEW c \in Corrs
  PROVE  NamesOf(Append(inbox, d), c) =
           IF d.envelope.correlation_id = c
           THEN Append(NamesOf(inbox, c), d.envelope.id[2])
           ELSE NamesOf(inbox, c)
<1> DEFINE T == EntriesOf(c)
           p == Only(inbox, T)
<1>1. d \in T <=> d.envelope.correlation_id = c
  BY DEF EntriesOf
<1> HIDE DEF T
<1>2. Only(Append(inbox, d), T) = IF d \in T THEN Append(p, d) ELSE p
  BY OnlyAppend
<1>3. p \in Seq(Entry)
  BY OnlyType
<1>4. Names(Append(p, d)) = Append(Names(p), d.envelope.id[2])
  <2> HIDE DEF p
  <2>. QED
    BY <1>3, NamesOfAppend
<1>. QED
  BY <1>1, <1>2, <1>4 DEF NamesOf, T

\* Losing the oldest entry of the inbox loses the first name or none.
LEMMA NamesShrink ==
  ASSUME NEW inbox \in Seq(Entry), inbox # <<>>, NEW c \in Corrs
  PROVE  \/ NamesOf(Tail(inbox), c) = NamesOf(inbox, c)
         \/ /\ NamesOf(inbox, c) # <<>>
            /\ NamesOf(Tail(inbox), c) = Tail(NamesOf(inbox, c))
<1> DEFINE T == EntriesOf(c)
           first == Head(inbox)
           rest == Tail(inbox)
           p == Only(rest, T)
<1>1. /\ first \in Entry /\ rest \in Seq(Entry) /\ inbox = <<first>> \o rest
  BY HeadTailProperties, HeadTailConcat
<1> HIDE DEF T, first, rest
<1>2. Only(<<first>> \o rest, T) = IF first \in T THEN <<first>> \o p ELSE p
  BY <1>1, OnlyAfterFirst
<1>3. p \in Seq(Entry)
  BY <1>1, OnlyType
<1> HIDE DEF p
<1>4. CASE first \in T
  <2> DEFINE q == <<first>> \o p
  <2>1. Only(inbox, T) = q
    BY <1>1, <1>2, <1>4
  <2>2. q \in Seq(Entry) /\ q # <<>> /\ Tail(q) = p
    BY <1>1, <1>3, ConsProperties
  <2> HIDE DEF q
  <2>3. Names(p) = Tail(Names(q))
    BY <2>2, NamesOfTail
  <2>4. Names(q) # <<>>
    BY <2>2, NamesProperties, EmptySeq
  <2>. QED
    BY <2>1, <2>3, <2>4 DEF NamesOf, T, p, rest
<1>5. CASE first \notin T
  BY <1>1, <1>2, <1>5 DEF NamesOf, T, p, rest
<1>. QED
  BY <1>4, <1>5

-----------------------------------------------------------------------------
(* The lead's inbox                                                         *)

StoryOf(stage, closed) ==
  CASE stage \in {"idle", "queue"} -> <<>>
    [] stage \in {"close", "returned"} ->
         <<"queued", "result">> \o IF closed THEN <<"closed">> ELSE <<>>
    [] OTHER -> <<"queued">>

\* The story of a call grows by one word per publish to the lead.
LEMMA StoryParts ==
  /\ \A c \in Corrs : Story(c) = StoryOf(pc[c], Closed(c))
  /\ \A stage \in Stages, b \in BOOLEAN : StoryOf(stage, b) \in Seq(Messages)
  /\ \A b \in BOOLEAN :
       /\ StoryOf("queue", b) = StoryOf("idle", b)
       /\ StoryOf("resolve", b) = Append(StoryOf("queue", FALSE), "queued")
       /\ \A stage \in {"execute", "answer", "unresolved", "dropped"} :
            StoryOf(stage, b) = StoryOf("resolve", FALSE)
  /\ StoryOf("close", FALSE) = Append(StoryOf("answer", FALSE), "result")
  /\ StoryOf("returned", FALSE) = StoryOf("close", FALSE)
  /\ StoryOf("returned", TRUE) = Append(StoryOf("close", FALSE), "closed")
<1> DEFINE e == <<>>
           q == <<"queued">>
           r == <<"queued", "result">>
           c == <<"closed">>
<1>1. e \in Seq(Messages) /\ q \in Seq(Messages) /\ r \in Seq(Messages)
      /\ c \in Seq(Messages)
  BY DEF Messages
<1>2. Append(e, "queued") = q /\ Append(q, "result") = r
  <2>1. Append(e, "queued") = q
    <3>1. q \in Seq(Messages) /\ "queued" \in Messages
      BY <1>1 DEF Messages
    <3> HIDE DEF e
    <3>2. Append(e, "queued") = e \o q
      BY <1>1, <3>1, AppendIsConcat
    <3> HIDE DEF q
    <3>3. e \o q = q
      BY <3>1, ConcatEmptySeq DEF e
    <3>. QED
      BY <3>2, <3>3
  <2>2. Append(q, "result") = r
    <3> DEFINE x == "result"
               u == Append(q, x)
    <3>1. /\ Len(q) = 1 /\ q[1] = "queued" /\ x \in Messages
          /\ Len(r) = 2 /\ r[1] = "queued" /\ r[2] = x
      BY DEF Messages
    <3> HIDE DEF e, q, r, c, x
    <3>2. /\ u \in Seq(Messages) /\ Len(u) = Len(q) + 1
          /\ \A i \in 1 .. Len(q) : u[i] = q[i]
          /\ u[Len(q) + 1] = x
      <4>1. q \in Seq(Messages) /\ x \in Messages
        BY <1>1, <3>1
      <4>. QED
        BY <4>1, AppendProperties
    <3> HIDE DEF u
    <3>3. Len(u) = 2 /\ u[1] = "queued" /\ u[2] = x
      BY <3>1, <3>2
    <3>4. \A i \in 1 .. Len(u) : u[i] = r[i]
      BY <3>1, <3>3
    <3>5. u = r
      BY <1>1, <3>1, <3>2, <3>3, <3>4, SeqEqual
    <3>. QED
      BY <3>5 DEF u, x
  <2>. QED
    BY <2>1, <2>2
<1> HIDE DEF e, q, r, c
<1>3. r \o e = r /\ r \o c = Append(r, "closed") /\ r \o c \in Seq(Messages)
  <2>1. r \o e = r
    BY <1>1, ConcatEmptySeq DEF e
  <2>2. r \o c = Append(r, "closed")
    BY <1>1, AppendIsConcat DEF c, Messages
  <2>3. r \o c \in Seq(Messages)
    BY <1>1, ConcatProperties
  <2>. QED
    BY <2>1, <2>2, <2>3
<1>4. \A stage, closed : StoryOf(stage, closed) =
        CASE stage \in {"idle", "queue"} -> e
          [] stage \in {"close", "returned"} -> r \o IF closed THEN c ELSE e
          [] OTHER -> q
  BY DEF StoryOf, e, q, r, c
<1>5. \A d \in Corrs : Story(d) = StoryOf(pc[d], Closed(d))
  BY DEF Story, StoryOf
<1>6. \A stage \in {"idle", "queue"}, b \in BOOLEAN : StoryOf(stage, b) = e
  BY <1>4
<1>7. \A stage \in {"close", "returned"} :
        StoryOf(stage, TRUE) = r \o c /\ StoryOf(stage, FALSE) = r \o e
  BY <1>4
<1>8. \A stage \in Stages \ {"idle", "queue", "close", "returned"}, b \in BOOLEAN :
        StoryOf(stage, b) = q
  BY <1>4 DEF Stages
<1>9. \A stage \in Stages, b \in BOOLEAN : StoryOf(stage, b) \in Seq(Messages)
  BY <1>1, <1>3, <1>6, <1>7, <1>8
<1>10. \A b \in BOOLEAN :
         /\ StoryOf("queue", b) = StoryOf("idle", b)
         /\ StoryOf("resolve", b) = Append(StoryOf("queue", FALSE), "queued")
         /\ \A stage \in {"execute", "answer", "unresolved", "dropped"} :
              StoryOf(stage, b) = StoryOf("resolve", FALSE)
  <2>1. {"resolve", "execute", "answer", "unresolved", "dropped"}
          \subseteq Stages \ {"idle", "queue", "close", "returned"}
    BY DEF Stages
  <2>2. \A stage \in {"resolve", "execute", "answer", "unresolved", "dropped"},
           b \in BOOLEAN : StoryOf(stage, b) = q
    BY <1>8, <2>1
  <2>3. StoryOf("queue", FALSE) = e
    BY <1>6
  <2>. QED
    BY <1>2, <1>6, <2>2, <2>3
<1>11. /\ StoryOf("close", FALSE) = Append(StoryOf("answer", FALSE), "result")
       /\ StoryOf("returned", FALSE) = StoryOf("close", FALSE)
       /\ StoryOf("returned", TRUE) = Append(StoryOf("close", FALSE), "closed")
  BY <1>2, <1>3, <1>7, <1>8 DEF Stages
<1>. QED
  BY <1>5, <1>9, <1>10, <1>11

LeadOk(c) ==
  /\ EndOf(Pending(c), Story(c))
  /\ inbox_overflow_evictions_total = 0 => Pending(c) = Story(c)

LeadInv == \A c \in Corrs : AgentOf[c] # Lead => LeadOk(c)

\* Pending in terms of the lead's inbox, now and after the step.
LEMMA PendingNames ==
  /\ \A c : Pending(c) = NamesOf(inboxes[Lead], c)
  /\ \A c : Pending(c)' = NamesOf(inboxes'[Lead], c)
BY DEF Pending, NamesOf, Names, Matching

\* The inbox stays or loses its oldest entry, and what it lost is counted.
LEMMA LeadKeeps ==
  ASSUME CoreTypeOK, NEW c \in Corrs, LeadOk(c), Story(c) \in Seq(Messages)
  PROVE  /\ EndOf(NamesOf(inboxes[Lead], c), Story(c))
         /\ inboxes[Lead] # <<>> =>
              EndOf(NamesOf(Tail(inboxes[Lead]), c), Story(c))
<1> DEFINE inbox == inboxes[Lead]
<1>1. inbox \in Seq(Entry)
  BY DelegationAssumption DEF CoreTypeOK
<1>2. EndOf(NamesOf(inbox, c), Story(c))
  BY PendingNames DEF LeadOk
<1> HIDE DEF inbox
<1>3. NamesOf(inbox, c) \in Seq(Messages)
  <2>1. Only(inbox, EntriesOf(c)) \in Seq(Entry)
    BY <1>1, OnlyType
  <2>. QED
    BY <2>1, NamesProperties DEF NamesOf
<1>4. ASSUME inbox # <<>>
      PROVE  EndOf(NamesOf(Tail(inbox), c), Story(c))
  <2> DEFINE names == NamesOf(inbox, c)
  <2>1. \/ NamesOf(Tail(inbox), c) = names
        \/ names # <<>> /\ NamesOf(Tail(inbox), c) = Tail(names)
    BY <1>1, <1>4, NamesShrink
  <2>2. names \in Seq(Messages) /\ EndOf(names, Story(c))
    BY <1>2, <1>3
  <2> HIDE DEF names
  <2>3. names # <<>> => EndOf(Tail(names), Story(c))
    BY <2>2, EndOfTail
  <2>. QED
    BY <2>1, <2>2, <2>3
<1>. QED
  BY <1>2, <1>4 DEF inbox

\* A delivery to one target, for a call whose story grows with it or not.
LEMMA DeliveryIsRead ==
  ASSUME CoreTypeOK, NEW c \in Corrs, LeadOk(c), Story(c) \in Seq(Messages),
         NEW e \in Envelopes, NEW t \in Agents, Deliver(e, {t}),
         next_sequence' \in Nat,
         Story(c)' = IF t = Lead /\ e.correlation_id = c
                     THEN Append(Story(c), e.id[2]) ELSE Story(c)
  PROVE  LeadOk(c)'
<1> DEFINE entry == [sequence |-> next_sequence', envelope |-> e]
           full == Overflowing({t})
           inbox == inboxes[Lead]
           lost == inbox_overflow_evictions_total
<1>1. /\ inboxes' = [a \in Agents |->
                       IF a \notin {t} THEN inboxes[a]
                       ELSE Append(IF a \in full THEN Tail(inboxes[a])
                                   ELSE inboxes[a], entry)]
      /\ lost' = lost + Cardinality(full)
  BY DEF Deliver
<1>2. entry \in Entry /\ entry.envelope = e
  BY BusAssumption DEF Entry
<1>3. inbox \in Seq(Entry) /\ lost \in Nat /\ Lead \in Agents
  BY DelegationAssumption DEF CoreTypeOK
<1>4. Cardinality(full) \in Nat /\ (full # {} => Cardinality(full) # 0)
  <2>1. IsFiniteSet(full)
    BY FS_Singleton, FS_Subset DEF Overflowing
  <2>. QED
    BY <2>1, FS_CardinalityType, FS_EmptySet
<1>5. /\ EndOf(NamesOf(inbox, c), Story(c))
      /\ inbox # <<>> => EndOf(NamesOf(Tail(inbox), c), Story(c))
      /\ lost = 0 => NamesOf(inbox, c) = Story(c)
  BY LeadKeeps, PendingNames DEF LeadOk
<1>6. CASE t # Lead
  <2>1. inboxes'[Lead] = inbox /\ Story(c)' = Story(c)
    BY <1>1, <1>3, <1>6
  <2>2. lost' = 0 => lost = 0
    BY <1>1, <1>3, <1>4
  <2> HIDE DEF inbox
  <2>3. Pending(c)' = NamesOf(inbox, c)
    BY <2>1, PendingNames
  <2>. QED
    BY <1>5, <2>1, <2>2, <2>3 DEF LeadOk
<1>7. CASE t = Lead
  <2> DEFINE kept == IF Lead \in full THEN Tail(inbox) ELSE inbox
  <2>1. Lead \in full => inbox # <<>>
    <3>1. Lead \in full => Len(inbox) >= InboxLimit
      BY DEF Overflowing
    <3>. QED
      BY <1>3, <3>1, LimitsPositive, EmptySeq
  <2>2. kept \in Seq(Entry)
    BY <1>3, <2>1, HeadTailProperties
  <2>3. inboxes'[Lead] = Append(kept, entry)
    BY <1>1, <1>3, <1>7
  <2>4. /\ EndOf(NamesOf(kept, c), Story(c))
        /\ lost' = 0 => NamesOf(kept, c) = Story(c)
    <3>1. CASE Lead \in full
      <4>1. lost' # 0
        <5>1. full # {}
          BY <3>1
        <5> HIDE DEF full, lost
        <5>2. Cardinality(full) \in Nat \ {0} /\ lost' = lost + Cardinality(full)
          BY <1>1, <1>4, <5>1
        <5>. QED
          BY <1>3, <5>2
      <4>. QED
        BY <1>5, <2>1, <3>1, <4>1
    <3>2. CASE Lead \notin full
      <4>1. lost' = 0 => lost = 0
        BY <1>1, <1>3, <1>4
      <4>. QED
        BY <1>5, <3>2, <4>1
    <3>. QED
      BY <3>1, <3>2
  <2> HIDE DEF kept, entry, inbox, full
  <2>5. NamesOf(kept, c) \in Seq(Messages)
    <3>1. Only(kept, EntriesOf(c)) \in Seq(Entry)
      BY <2>2, OnlyType
    <3>. QED
      BY <3>1, NamesProperties DEF NamesOf
  <2>6. Pending(c)' = IF e.correlation_id = c
                      THEN Append(NamesOf(kept, c), e.id[2])
                      ELSE NamesOf(kept, c)
    <3>1. NamesOf(Append(kept, entry), c) =
            IF entry.envelope.correlation_id = c
            THEN Append(NamesOf(kept, c), entry.envelope.id[2])
            ELSE NamesOf(kept, c)
      BY <1>2, <2>2, NamesGrow
    <3>. QED
      BY <1>2, <2>3, <3>1, PendingNames
  <2>7. CASE e.correlation_id = c
    <3> DEFINE x == e.id[2]
               names == NamesOf(kept, c)
               story == Story(c)
    <3>1. x \in Messages
      BY <1>2, EntryNames
    <3>2. Pending(c)' = Append(names, x) /\ Story(c)' = Append(story, x)
      BY <1>7, <2>6, <2>7
    <3>3. names \in Seq(Messages) /\ story \in Seq(Messages) /\ EndOf(names, story)
      BY <2>4, <2>5
    <3>4. lost' = 0 => names = story
      BY <2>4
    <3> HIDE DEF x, names, story
    <3>5. EndOf(Append(names, x), Append(story, x))
      BY <3>1, <3>3, EndOfAppend
    <3>. QED
      BY <3>2, <3>4, <3>5 DEF LeadOk
  <2>8. CASE e.correlation_id # c
    BY <2>4, <2>6, <2>8 DEF LeadOk
  <2>. QED
    BY <2>7, <2>8
<1>. QED
  BY <1>6, <1>7

\* The stories of the other calls go on unchanged.
LEMMA OtherStories ==
  ASSUME NEW c \in Corrs, NEW stage, Goto(c, stage),
         \A d \in Corrs \ {c} : bases'[d] = bases[d]
  PROVE  \A d \in Corrs \ {c} : Story(d)' = Story(d)
<1>1. \A d \in Corrs \ {c} : pc'[d] = pc[d]
  BY DEF Goto
<1>. QED
  BY <1>1 DEF Story, Closed

\* A story is a sequence of names of messages.
LEMMA StoryType ==
  ASSUME StateInv
  PROVE  \A c \in Corrs : Story(c) \in Seq(Messages)
BY StoryParts DEF StateInv, Closed

\* A step that delivers nothing and changes no story.
LEMMA LeadQuiet ==
  ASSUME LeadInv, inboxes' = inboxes,
         inbox_overflow_evictions_total' = inbox_overflow_evictions_total,
         \A c \in Corrs : Story(c)' = Story(c)
  PROVE  LeadInv'
<1>1. \A c \in Corrs : Pending(c)' = Pending(c)
  BY PendingNames
<1>. QED
  BY <1>1 DEF LeadInv, LeadOk

\* The delivery of a message of the call c.
LEMMA LeadDelivered ==
  ASSUME CoreTypeOK, StateInv, LeadInv, NEW c \in Corrs, NEW stage,
         Goto(c, stage), NEW e \in Envelopes, NEW t \in Agents,
         Deliver(e, {t}), next_sequence' = next_sequence + 1,
         e.correlation_id = c,
         t = Lead \/ t = AgentOf[c],
         \A d \in Corrs \ {c} : bases'[d] = bases[d],
         AgentOf[c] # Lead =>
           Story(c)' = IF t = Lead THEN Append(Story(c), e.id[2]) ELSE Story(c)
  PROVE  LeadInv'
<1>1. next_sequence' \in Nat
  BY DEF CoreTypeOK
<1>2. \A d \in Corrs : Story(d) \in Seq(Messages)
  BY StoryType
<1>3. \A d \in Corrs \ {c} : Story(d)' = Story(d)
  BY OtherStories
<1>4. ASSUME NEW d \in Corrs, AgentOf[d] # Lead
      PROVE  LeadOk(d)'
  <2>1. Story(d)' = IF t = Lead /\ e.correlation_id = d
                    THEN Append(Story(d), e.id[2]) ELSE Story(d)
    <3>1. CASE d = c
      BY <1>4, <3>1
    <3>2. CASE d # c
      BY <1>3, <3>2
    <3>. QED
      BY <3>1, <3>2
  <2>2. LeadOk(d) /\ Story(d) \in Seq(Messages)
    BY <1>2, <1>4 DEF LeadInv
  <2>. QED
    BY <1>1, <2>1, <2>2, DeliveryIsRead
<1>. QED
  BY <1>4 DEF LeadInv

\* Every step of the calls keeps the lead's inbox in order.
LEMMA LeadStep ==
  ASSUME CoreTypeOK, StateInv, CallInv, LeadInv, [DelegationNext]_delegationVars
  PROVE  LeadInv'
<1>0. /\ pc \in [Corrs -> Stages]
      /\ Lead \in Agents /\ \A c \in Corrs : AgentOf[c] \in Agents
  BY DelegationAssumption DEF StateInv
<1>1. CASE UNCHANGED delegationVars
  BY <1>1, LeadQuiet
  DEF delegationVars, vars, inboxVars, contextVars, Story, Closed
<1>2. ASSUME NEW a \in Agents, Register(a) PROVE LeadInv'
  BY <1>2, LeadQuiet
  DEF Register, RegisterAgent, contextVars, Story, Closed
<1>3. ASSUME NEW c \in Corrs, PublishRequest(c) PROVE LeadInv'
  <2> DEFINE e == Request(c)
  <2>1. /\ PublishDelivered(e) /\ e \in Envelopes
        /\ e.scope = "direct" /\ e.to = AgentOf[c]
        /\ e.kind # "context_patch" /\ e.correlation_id = c
    BY <1>3, RequestDelivered, MessageFields, CallEnvelopes
  <2>2. pc[c] = "idle" /\ Goto(c, "queue")
    BY <1>3 DEF PublishRequest
  <2> HIDE DEF e
  <2>3. /\ Deliver(e, {AgentOf[c]}) /\ next_sequence' = next_sequence + 1
        /\ bases' = bases
    BY <2>1, DeliveredParts DEF contextVars
  <2>4. Story(c)' = Story(c)
    <3>1. pc'[c] = "queue"
      BY <1>0, <2>2 DEF Goto
    <3>. QED
      BY <2>2, <3>1 DEF Story
  <2>5. AgentOf[c] = Lead \/ ~(AgentOf[c] = Lead)
    OBVIOUS
  <2>. QED
    BY <1>0, <2>1, <2>2, <2>3, <2>4, LeadDelivered
<1>4. ASSUME NEW c \in Corrs, PublishResult(c) PROVE LeadInv'
  <2> DEFINE e == Result(c)
  <2>1. /\ PublishDelivered(e) /\ e \in Envelopes
        /\ e.scope = "direct" /\ e.to = Lead /\ e.id = <<c, "result">>
        /\ e.kind # "context_patch" /\ e.correlation_id = c
    BY <1>4, ResultDelivered, MessageFields, CallEnvelopes
  <2>2. pc[c] = "answer" /\ Goto(c, "close")
    BY <1>4 DEF PublishResult
  <2> HIDE DEF e
  <2>3. /\ Deliver(e, {Lead}) /\ next_sequence' = next_sequence + 1
        /\ bases' = bases
    BY <2>1, DeliveredParts DEF contextVars
  <2>4. pc'[c] = "close" /\ ~Closed(c) /\ ~Closed(c)'
    BY <1>0, <2>2, <2>3 DEF Goto, Closed, CallInv, Accepted
  <2>5. Story(c)' = Append(Story(c), e.id[2])
    <3>1. Story(c) = StoryOf("answer", FALSE) /\ Story(c)' = StoryOf("close", FALSE)
      BY <2>2, <2>4 DEF Story, StoryOf
    <3>2. e.id[2] = "result"
      BY <2>1
    <3>. QED
      BY <3>1, <3>2, StoryParts, Zenon
  <2>6. \A d \in Corrs \ {c} : bases'[d] = bases[d]
    BY <2>3
  <2>. QED
    BY <1>0, <2>1, <2>2, <2>3, <2>5, <2>6, LeadDelivered
<1>5. ASSUME NEW c \in Corrs, PublishQueued(c) PROVE LeadInv'
  <2> DEFINE e == QueuedState(c)
  <2>1. /\ PublishDelivered(e) /\ e \in Envelopes
        /\ e.scope = "direct" /\ e.to = Lead /\ e.id = <<c, "queued">>
        /\ e.kind = "context_patch" /\ e.key = c /\ e.expected_version = 0
        /\ e.correlation_id = c
    BY <1>5, QueuedDelivered, MessageFields, CallEnvelopes
  <2>2. pc[c] = "queue" /\ Goto(c, "resolve")
    BY <1>5 DEF PublishQueued
  <2> HIDE DEF e
  <2>3. /\ Deliver(e, {Lead}) /\ next_sequence' = next_sequence + 1
        /\ bases' = [bases EXCEPT ![c] = Append(@, 0)]
    BY <2>1, DeliveredParts
  <2>4. \A d \in Corrs \ {c} : bases'[d] = bases[d]
    BY <2>3, 0 \in Nat, VersionCounted, Zenon
  <2>5. pc'[c] = "resolve"
    BY <1>0, <2>2 DEF Goto
  <2>6. Story(c)' = Append(Story(c), e.id[2])
    <3>1. Story(c) = <<>> /\ Story(c)' = <<"queued">>
      BY <2>2, <2>5 DEF Story
    <3>2. StoryOf("queue", FALSE) = <<>> /\ StoryOf("resolve", FALSE) = <<"queued">>
      BY DEF StoryOf
    <3>3. StoryOf("resolve", FALSE) = Append(StoryOf("queue", FALSE), "queued")
      BY StoryParts
    <3>4. e.id[2] = "queued"
      BY <2>1
    <3>. QED
      BY <3>1, <3>2, <3>3, <3>4, Zenon
  <2>. QED
    BY <1>0, <2>1, <2>2, <2>3, <2>4, <2>6, LeadDelivered
<1>6. ASSUME NEW c \in Corrs, PublishClosed(c) PROVE LeadInv'
  <2> DEFINE e == ClosingState(c)
  <2>1. /\ e \in Envelopes
        /\ e.scope = "direct" /\ e.to = Lead /\ e.id = <<c, "closed">>
        /\ e.kind = "context_patch" /\ e.key = c /\ e.expected_version = 1
        /\ e.correlation_id = c
    BY MessageFields, CallEnvelopes
  <2>2. PublishDelivered(e) \/ PublishConflict(e)
    BY <1>6, ClosedDelivered
  <2> HIDE DEF e
  <2>3. pc[c] = "close" /\ Goto(c, "returned") /\ pc'[c] = "returned"
    BY <1>0, <1>6 DEF PublishClosed, Goto
  <2>4. Len(bases[c]) = 1
    BY <2>3 DEF CallInv, Accepted
  <2>5. Story(c) = StoryOf("close", FALSE)
    BY <2>3, <2>4 DEF Story, StoryOf, Closed
  <2>6. CASE PublishDelivered(e)
    <3>1. /\ Deliver(e, {Lead}) /\ next_sequence' = next_sequence + 1
          /\ bases' = [bases EXCEPT ![c] = Append(@, 1)]
      BY <2>1, <2>6, DeliveredParts
    <3>2. /\ \A d \in Corrs \ {c} : bases'[d] = bases[d]
          /\ Len(bases'[c]) = Len(bases[c]) + 1
      BY <3>1, 1 \in Nat, VersionCounted, Zenon
    <3>3. Closed(c)'
      BY <2>4, <3>2 DEF Closed
    <3>4. Story(c)' = StoryOf("returned", TRUE)
      BY <2>3, <3>3 DEF Story, StoryOf
    <3>5. Story(c)' = Append(Story(c), e.id[2])
      <4>1. e.id[2] = "closed"
        BY <2>1
      <4>. QED
        BY <2>5, <3>4, <4>1, StoryParts, Zenon
    <3>. QED
      BY <1>0, <2>1, <2>3, <3>1, <3>2, <3>5, LeadDelivered
  <2>7. CASE PublishConflict(e)
    <3>1. /\ inboxes' = inboxes /\ bases' = bases
          /\ inbox_overflow_evictions_total' = inbox_overflow_evictions_total
      BY <2>7 DEF PublishConflict, inboxVars, contextVars
    <3>2. Story(c)' = StoryOf("returned", FALSE)
      BY <2>3, <2>4, <3>1 DEF Story, StoryOf, Closed
    <3>3. Story(c)' = Story(c)
      BY <2>5, <3>2, StoryParts
    <3>4. \A d \in Corrs : Story(d)' = Story(d)
      BY <2>3, <3>1, <3>3, OtherStories
    <3>. QED
      BY <3>1, <3>4, LeadQuiet
  <2>. QED
    BY <2>2, <2>6, <2>7
<1>7. ASSUME NEW c \in Corrs,
             Unresolved(c) \/ RefuseProvider(c) \/ Execute(c) \/ Finish(c)
               \/ Drop(c)
      PROVE  LeadInv'
  <2>1. PICK stage \in {"unresolved", "answer", "execute", "dropped"} :
          Goto(c, stage)
    BY <1>7 DEF Unresolved, RefuseProvider, Execute, Finish, Drop
  <2>2. pc[c] \in {"resolve", "execute"} /\ UNCHANGED vars
    BY <1>7 DEF Unresolved, RefuseProvider, Execute, Finish, Drop
  <2>3. /\ inboxes' = inboxes /\ bases' = bases
        /\ inbox_overflow_evictions_total' = inbox_overflow_evictions_total
    BY <2>2 DEF vars, inboxVars, contextVars
  <2>4. pc'[c] = stage
    BY <1>0, <2>1 DEF Goto
  <2>5. Story(c) = <<"queued">> /\ Story(c)' = <<"queued">>
    BY <2>2, <2>4 DEF Story
  <2>6. \A d \in Corrs : Story(d)' = Story(d)
    BY <2>1, <2>3, <2>5, OtherStories
  <2>. QED
    BY <2>3, <2>6, LeadQuiet
<1>. QED
  BY <1>1, <1>2, <1>3, <1>4, <1>5, <1>6, <1>7 DEF DelegationNext, Proceed

\* The empty inbox holds the empty stories.
LEMMA LeadInit == DelegationInit => LeadInv
<1> SUFFICES ASSUME DelegationInit PROVE LeadInv
  OBVIOUS
<1> DEFINE e == <<>>
<1>1. e \in Seq(Entry) /\ Len(e) = 0
  BY EmptySeq
<1>2. \A T : Only(e, T) = e
  BY OnlyEmpty
<1>3. inboxes[Lead] = e /\ \A c \in Corrs : Story(c) = e
  BY DelegationAssumption DEF DelegationInit, Init, Story
<1>4. Names(e) = e
  BY <1>1 DEF Names
<1>5. \A c \in Corrs : Pending(c) = e
  BY <1>2, <1>3, <1>4, PendingNames DEF NamesOf
<1>6. EndOf(e, e)
  BY <1>1 DEF EndOf
<1> HIDE DEF e
<1>. QED
  BY <1>3, <1>5, <1>6 DEF LeadInv, LeadOk

(***************************************************************************)
(* The lead finds the story of each delegation in the order in which it     *)
(* happened, and of a full inbox only its beginning is lost, however many   *)
(* calls run in parallel and whatever the limits of the bus.                *)
(***************************************************************************)
THEOREM LeadReadsOrder == DelegationSpec => []LeadReadsInOrder
<1>1. LeadInv /\ CoreTypeOK /\ StateInv => LeadReadsInOrder
  <2> SUFFICES ASSUME LeadInv, CoreTypeOK, StateInv,
                      NEW c \in Corrs, AgentOf[c] # Lead
               PROVE  /\ IsSuffix(Pending(c), Story(c))
                      /\ inbox_overflow_evictions_total = 0 =>
                           Pending(c) = Story(c)
    BY DEF LeadReadsInOrder
  <2>1. LeadOk(c)
    BY DEF LeadInv
  <2>2. Story(c) \in Seq(Messages)
    BY StoryType
  <2>3. Pending(c) \in Seq(Messages)
    <3>1. inboxes[Lead] \in Seq(Entry)
      BY DelegationAssumption DEF CoreTypeOK
    <3>2. Only(inboxes[Lead], EntriesOf(c)) \in Seq(Entry)
      BY <3>1, OnlyType
    <3>3. Names(Only(inboxes[Lead], EntriesOf(c))) \in Seq(Messages)
      BY <3>2, NamesProperties
    <3>. QED
      BY <3>3, PendingNames DEF NamesOf
  <2>. QED
    BY <2>1, <2>2, <2>3, EndIsSuffix DEF LeadOk
<1>2. DelegationSpec => []LeadInv
  BY LeadInit, LeadStep, CallsUseTheBus, CoreTypes, StateInvariant,
     CallInvariant, PTL DEF DelegationSpec
<1>. QED
  BY <1>1, <1>2, CallsUseTheBus, CoreTypes, StateInvariant, PTL
=============================================================================
