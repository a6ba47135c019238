-------------------------------- MODULE MCBus --------------------------------
(* Instance of CoordinationBus.  `part` names what a behaviour is about, so  *)
(* that the two state spaces add up instead of multiplying:                 *)
(*   - "delivery": two agents that come and go, direct and broadcast         *)
(*     messages, one patch whose target may be gone; inboxes, dead letters   *)
(*     and the dedupe window overflow;                                      *)
(*   - "context": patches of plain and delegate keys under right and wrong   *)
(*     versions and correlation ids, in a context smaller than the number of *)
(*     keys, with one agent.                                                *)
EXTENDS CoordinationBus

VARIABLE part

CONSTANTS a1, a2, c1, c2, notes, state1, output1, state2, broken

\* delegate/<c1>/state, delegate/<c1>/output, delegate/<c2>/state, delegate//
MCKeyCorr == [k \in DelegateKeys |-> CASE k \in {state1, output1} -> c1
                                       [] k = state2 -> c2
                                       [] OTHER -> NoCorr]

Message(id, kind, to, corr) ==
  [id |-> id, kind |-> kind,
   scope |-> IF to = NoAgent THEN "broadcast" ELSE "direct", to |-> to,
   correlation_id |-> corr, key |-> NoKey, expected_version |-> 0,
   blank |-> FALSE]

Patch(id, corr, key, version) ==
  [Message(id, "context_patch", NoAgent, corr)
     EXCEPT !.key = key, !.expected_version = version]

\* Per id a task for a1, a result for a2, a broadcast, a patch sent to a1, a
\* result without a target and one with a blank text.
Deliveries ==
  UNION {{Message(id, "delegate_task", a1, c1), Message(id, "task_result", a2, c1),
          Message(id, "control", NoAgent, NoCorr),
          [Message(id, "context_patch", a1, NoCorr) EXCEPT !.key = notes],
          Message(id, "task_result", NoAgent, NoCorr),
          [Message(id, "ack", a1, c1) EXCEPT !.blank = TRUE]} : id \in Ids}

\* Keys under the right, the wrong and no correlation id, with versions that
\* are right early, late or never.
Patches ==
  UNION {
    {Patch(id, c1, key, version) : key \in {notes, state1}, version \in 0 .. 2}
    \cup {Patch(id, c1, output1, 0), Patch(id, c2, output1, 0),
          Patch(id, c2, state2, 0), Patch(id, c2, state2, 1),
          Patch(id, c2, notes, 1), Patch(id, NoCorr, notes, 1),
          Patch(id, NoCorr, state1, 1), Patch(id, c1, broken, 0)}
    : id \in Ids}

MCEnvelopes == Deliveries \cup Patches

\* Both message ids are published in every envelope, so they are symmetric.
MessageSymmetry == Permutations(Ids)

MCInit == part \in {"delivery", "context"} /\ Init

AgentsOf == IF part = "delivery" THEN Agents ELSE {a1}
EnvelopesOf == IF part = "delivery" THEN Deliveries ELSE Patches

\* Next, with the agents and the envelopes of the part.
MCNext ==
  /\ \/ \E a \in AgentsOf : RegisterAgent(a)
     \/ \E a \in AgentsOf : UnregisterAgent(a)
     \/ \E a \in AgentsOf, max \in 0 .. InboxLimit : DrainForAgent(a, max)
     \/ \E e \in EnvelopesOf : Publish(e)
  /\ UNCHANGED part

MCSpec == MCInit /\ [][MCNext]_<<vars, part>>
=============================================================================
