--------------------------- MODULE CoordinationBus ---------------------------
(***************************************************************************)
(* The in-memory coordination message bus of src/coordination/mod.rs.      *)
(*                                                                         *)
(* All of the bus lives behind one mutex (BusState), and every public      *)
(* operation takes it once, so each operation is one atomic action here.   *)
(* What is hard is not the interleaving inside an operation but the        *)
(* bookkeeping: four bounded collections with their own eviction rules     *)
(* (inboxes, dead letters, shared context, the dedupe window), five        *)
(* secondary indexes over them that are maintained by hand, and an order   *)
(* of side effects in publish that lets a rejected message leave traces.   *)
(*                                                                         *)
(* Text is abstracted: ids, agents and correlation ids are model values,   *)
(* and an empty or missing text is a sentinel.                             *)
(***************************************************************************)
EXTENDS Integers, FiniteSets, Sequences, SequencesExt, Filter

CONSTANTS
  Agents,        \* agent names that may own an inbox
  Ids,           \* message ids
  Corrs,         \* correlation ids (trimmed, not empty)
  Keys,          \* shared-context keys
  DelegateKeys,  \* the keys that start with "delegate/"
  KeyCorr,       \* correlation segment of a delegate key; NoCorr if malformed
  NoAgent, NoCorr, NoKey,       \* an absent `to`, correlation id, key
  Envelopes,     \* the envelopes clients may publish
  MaxInbox, MaxDeadLetters, MaxContext, MaxSeen,  \* InMemoryMessageBusLimits
  MaxPublishes   \* bound of the model: how many publish calls are made

Kinds == {"delegate_task", "context_patch", "task_result", "ack", "control"}
Scopes == {"direct", "broadcast"}

\* `blank` stands for "some text field the envelope must fill is empty".
Envelope ==
  [id : Ids, kind : Kinds, scope : Scopes, to : Agents \cup {NoAgent},
   correlation_id : Corrs \cup {NoCorr}, key : Keys \cup {NoKey},
   expected_version : Nat, blank : BOOLEAN]

ASSUME BusAssumption ==
  /\ IsFiniteSet(Agents) /\ IsFiniteSet(Keys)
  /\ NoAgent \notin Agents /\ NoCorr \notin Corrs /\ NoKey \notin Keys
  /\ DelegateKeys \subseteq Keys
  /\ KeyCorr \in [DelegateKeys -> Corrs \cup {NoCorr}]
  /\ Envelopes \subseteq Envelope
  /\ \A e \in Envelopes : e.kind = "context_patch" => e.key # NoKey
  /\ MaxInbox \in Nat /\ MaxDeadLetters \in Nat
  /\ MaxContext \in Nat /\ MaxSeen \in Nat /\ MaxPublishes \in Nat

\* BusState::with_limits raises a limit of zero to one.
AtLeastOne(limit) == IF limit = 0 THEN 1 ELSE limit
InboxLimit      == AtLeastOne(MaxInbox)
DeadLetterLimit == AtLeastOne(MaxDeadLetters)
ContextLimit    == AtLeastOne(MaxContext)
SeenLimit       == AtLeastOne(MaxSeen)

Entry      == [sequence : Nat, envelope : Envelope]
Reasons    == {"invalid", "duplicate", "conflict", "unknown_target", "overflow"}
DeadLetter == [envelope : Envelope, reason : Reasons]

VARIABLES
  next_sequence,
  seen_message_ids, seen_message_order,
  registered,                \* the agents that have an inbox
  inboxes,                   \* <<>> for an agent that is not registered
  inbox_correlation_counts,  \* 0 stands for a missing map entry
  dead_letters, dead_letters_by_correlation,
  context,                   \* version of each key; 0 stands for no entry
  context_order, delegate_context_order,
  context_order_by_correlation, delegate_context_order_by_correlation,
  context_correlation_by_key,
  \* InMemoryMessageBusStats
  publish_attempts_total, deliveries_total, inbox_overflow_evictions_total,
  dead_letters_total, dead_letter_evictions_total, context_evictions_total,
  seen_message_id_evictions_total,
  \* history of the model, not state of the bus
  admitted,       \* ids that passed the duplicate guard, in order
  last_drained,   \* per agent, the last sequence number it drained
  removed,        \* entries that left an inbox by a drain or an unregister
  bases,          \* per key, the versions its patches were computed from
  written_at,     \* per key, the sequence number of its latest patch
  publishes,      \* publish calls made so far
  outcome         \* what the latest publish call returned

seqVars     == <<next_sequence>>
seenVars    == <<seen_message_ids, seen_message_order, publish_attempts_total,
                 seen_message_id_evictions_total, admitted>>
inboxVars   == <<registered, inboxes, inbox_correlation_counts,
                 deliveries_total, inbox_overflow_evictions_total,
                 last_drained, removed>>
deadVars    == <<dead_letters, dead_letters_by_correlation,
                 dead_letters_total, dead_letter_evictions_total>>
contextVars == <<context, context_order, delegate_context_order,
                 context_order_by_correlation,
                 delegate_context_order_by_correlation,
                 context_correlation_by_key, context_evictions_total,
                 bases, written_at>>
callVars    == <<publishes, outcome>>
vars == <<seqVars, seenVars, inboxVars, deadVars, contextVars, callVars>>

-----------------------------------------------------------------------------
(* Validation and the delegate key rules                                   *)

\* CoordinationEnvelope::validate
Validate(e) ==
  /\ ~e.blank
  /\ e.scope = "direct"       => e.to # NoAgent
  /\ e.scope = "broadcast"    => e.to = NoAgent
  /\ e.kind = "delegate_task" => e.scope = "direct"
  /\ e.kind = "task_result"   => e.correlation_id # NoCorr

\* A key under delegate/ must name a correlation id, and the envelope's own.
DelegateKeyOk(e) ==
  e.key \in DelegateKeys =>
    /\ KeyCorr[e.key] # NoCorr
    /\ e.correlation_id = KeyCorr[e.key]

\* Mutant of PatchRejected: a patch that runs ahead of the version passes.
PatchRejectedIfBehind(e) ==
  ~DelegateKeyOk(e) \/ context[e.key] > e.expected_version

\* The errors apply_context_patch_locked returns before it writes.
PatchRejected(e) ==
  \/ ~DelegateKeyOk(e)
  \/ context[e.key] # e.expected_version

-----------------------------------------------------------------------------
(* Dead letters                                                            *)

LettersOf(c) == {d \in DeadLetter : d.envelope.correlation_id = c}
OfCorrelation(letters, c) == Only(letters, LettersOf(c))

\* Mutant of PushDeadLetters: a full list is cleared, one eviction counted.
PushDeadLettersClearing(letters) ==
  LET all  == dead_letters \o letters
      full == Len(all) > DeadLetterLimit
  IN /\ dead_letters' = IF full THEN <<>> ELSE all
     /\ dead_letters_by_correlation' =
          [c \in Corrs |-> OfCorrelation(IF full THEN <<>> ELSE all, c)]
     /\ dead_letters_total' = dead_letters_total + Len(letters)
     /\ dead_letter_evictions_total' =
          dead_letter_evictions_total + (IF full THEN 1 ELSE 0)

(***************************************************************************)
(* push_dead_letter_locked, called once for every letter of `letters`:     *)
(* each call evicts the oldest letter when the list is full and pops the   *)
(* head of that letter's correlation queue.                                *)
(***************************************************************************)
PushDeadLetters(letters) ==
  LET all     == dead_letters \o letters
      excess  == IF Len(all) > DeadLetterLimit
                 THEN Len(all) - DeadLetterLimit ELSE 0
      evicted == SubSeq(all, 1, excess)
  IN /\ dead_letters' = SubSeq(all, excess + 1, Len(all))
     /\ dead_letters_by_correlation' =
          [c \in Corrs |->
             LET queue == dead_letters_by_correlation[c]
                            \o OfCorrelation(letters, c)
             IN SubSeq(queue, 1 + Len(OfCorrelation(evicted, c)), Len(queue))]
     /\ dead_letters_total' = dead_letters_total + Len(letters)
     /\ dead_letter_evictions_total' = dead_letter_evictions_total + excess

Reject(e, reason) ==
  /\ PushDeadLetters(<<[envelope |-> e, reason |-> reason]>>)
  /\ outcome' = reason

-----------------------------------------------------------------------------
(* Dedupe window                                                           *)

\* Mutant of AdmitId: an id that leaves the queue stays in the set.
AdmitIdQueueOnly(id) ==
  LET full == Len(seen_message_order) >= SeenLimit
  IN /\ seen_message_ids' = seen_message_ids \cup {id}
     /\ seen_message_order' =
          Append(IF full THEN Tail(seen_message_order)
                 ELSE seen_message_order, id)
     /\ UNCHANGED seen_message_id_evictions_total
     /\ publish_attempts_total' = publish_attempts_total + 1
     /\ admitted' = Append(admitted, id)

\* Passing the duplicate guard: the id enters the window, the oldest may leave.
AdmitId(id) ==
  LET full   == /\ Cardinality(seen_message_ids) >= SeenLimit
                /\ seen_message_order # <<>>
      oldest == Head(seen_message_order)
  IN /\ seen_message_ids' =
          (IF full THEN seen_message_ids \ {oldest} ELSE seen_message_ids)
            \cup {id}
     /\ seen_message_order' =
          Append(IF full THEN Tail(seen_message_order)
                 ELSE seen_message_order, id)
     /\ seen_message_id_evictions_total' =
          IF full /\ oldest \in seen_message_ids
          THEN seen_message_id_evictions_total + 1
          ELSE seen_message_id_evictions_total
     /\ publish_attempts_total' = publish_attempts_total + 1
     /\ admitted' = Append(admitted, id)

-----------------------------------------------------------------------------
(* Shared context                                                          *)

PresentKeys == {k \in Keys : context[k] # 0}

CorrOfKey(k) == IF k = NoKey THEN NoCorr ELSE context_correlation_by_key[k]

KeysOf(c) == {k \in Keys : context_correlation_by_key[k] = c}

\* Mutant of UnlinkIf: a rewritten key keeps its old place as well.
NeverUnlink(test, order, k) == order

UnlinkIf(test, order, k) == IF test THEN RemoveFirst(order, k) ELSE order

\* Mutant of Relink: the key is not taken out of the correlation it leaves.
RelinkForgetful(index, victim, k, corr) ==
  [q \in Corrs |->
     LET kept == UnlinkIf(CorrOfKey(victim) = q, index[q], victim)
     IN IF corr = q THEN Append(RemoveFirst(kept, k), k) ELSE kept]

\* Per-correlation orders after `victim` is evicted and k is written under
\* corr: both leave the queue they are recorded in, k joins that of corr.
Relink(index, victim, k, corr) ==
  [q \in Corrs |->
     LET kept == UnlinkIf(CorrOfKey(k) = q,
                          UnlinkIf(CorrOfKey(victim) = q, index[q], victim), k)
     IN IF corr = q THEN Append(kept, k) ELSE kept]

\* apply_context_patch_locked once every check has passed.
ApplyContextPatch(e) ==
  LET k        == e.key
      isNew    == context[k] = 0
      evicts   == /\ isNew
                  /\ Cardinality(PresentKeys) >= ContextLimit
                  /\ context_order # <<>>
      victim   == IF evicts THEN Head(context_order) ELSE NoKey
      order    == IF evicts THEN Tail(context_order) ELSE context_order
      isDelegate     == k \in DelegateKeys
      delegateVictim == IF victim \in DelegateKeys THEN victim ELSE NoKey
      delegateOrder  == UnlinkIf(delegateVictim # NoKey,
                                 delegate_context_order, delegateVictim)
  IN /\ context' = [x \in Keys |-> CASE x = k -> context[k] + 1
                                     [] x = victim /\ x # k -> 0
                                     [] OTHER -> context[x]]
     /\ context_order' = Append(UnlinkIf(~isNew, order, k), k)
     /\ delegate_context_order' =
          IF isDelegate THEN Append(RemoveFirst(delegateOrder, k), k)
          ELSE delegateOrder
     /\ context_order_by_correlation' =
          Relink(context_order_by_correlation, victim, k, e.correlation_id)
     /\ delegate_context_order_by_correlation' =
          IF isDelegate
          THEN Relink(delegate_context_order_by_correlation,
                      delegateVictim, k, e.correlation_id)
          ELSE Relink(delegate_context_order_by_correlation,
                      delegateVictim, NoKey, NoCorr)
     /\ context_correlation_by_key' =
          [x \in Keys |-> CASE x = k -> e.correlation_id
                            [] x = victim /\ x # k -> NoCorr
                            [] OTHER -> context_correlation_by_key[x]]
     /\ context_evictions_total' =
          IF evicts /\ context[victim] # 0 THEN context_evictions_total + 1
          ELSE context_evictions_total
     /\ bases' = [bases EXCEPT ![k] = Append(@, e.expected_version)]
     /\ written_at' = [written_at EXCEPT ![k] = next_sequence + 1]

\* publish runs the patch of a context_patch payload and of no other payload.
PatchStep(e) ==
  IF e.kind = "context_patch" THEN ApplyContextPatch(e)
                              ELSE UNCHANGED contextVars

-----------------------------------------------------------------------------
(* Inboxes                                                                 *)

Increment(counts, e) ==
  [c \in Corrs |-> IF c = e.correlation_id THEN counts[c] + 1 ELSE counts[c]]

EntriesOf(c) == {d \in Entry : d.envelope.correlation_id = c}

Monus(m, n) == IF m > n THEN m - n ELSE 0

\* Mutant of Decrement: the whole count of the correlation is removed.
DecrementToZero(counts, entries) ==
  [c \in Corrs |-> IF Only(entries, EntriesOf(c)) # <<>> THEN 0 ELSE counts[c]]

\* One less for each of the entries; a count of at most one is removed, which
\* is 0 here.
Decrement(counts, entries) ==
  [c \in Corrs |-> Monus(counts[c], Len(Only(entries, EntriesOf(c))))]

\* Mutant of Overflowing: the limit is off by one.
OverflowingLate(targets) == {a \in targets : Len(inboxes[a]) > InboxLimit}

Overflowing(targets) == {a \in targets : Len(inboxes[a]) >= InboxLimit}

(***************************************************************************)
(* push_inbox_entry_locked for every target, then a dead letter for every  *)
(* entry that was dropped.  A broadcast walks a hash map, so the dropped   *)
(* entries become dead letters in an arbitrary order.                      *)
(***************************************************************************)
Deliver(e, targets) ==
  LET entry == [sequence |-> next_sequence', envelope |-> e]
      full  == Overflowing(targets)
  IN /\ inboxes' =
          [a \in Agents |->
             IF a \notin targets THEN inboxes[a]
             ELSE Append(IF a \in full THEN Tail(inboxes[a])
                         ELSE inboxes[a], entry)]
     /\ inbox_correlation_counts' =
          [a \in Agents |->
             IF a \notin targets THEN inbox_correlation_counts[a]
             ELSE Increment(
                    IF a \in full
                    THEN Decrement(inbox_correlation_counts[a],
                                   <<Head(inboxes[a])>>)
                    ELSE inbox_correlation_counts[a], e)]
     /\ deliveries_total' = deliveries_total + Cardinality(targets)
     /\ inbox_overflow_evictions_total' =
          inbox_overflow_evictions_total + Cardinality(full)
     /\ \E order \in SetToSeqs(full) :
          PushDeadLetters(
            [i \in DOMAIN order |->
               [envelope |-> Head(inboxes[order[i]]).envelope,
                reason   |-> "overflow"]])
     /\ UNCHANGED <<registered, last_drained, removed>>

-----------------------------------------------------------------------------
(* Operations of the bus                                                   *)

RegisterAgent(a) ==
  /\ registered' = registered \cup {a}
  /\ UNCHANGED <<inboxes, inbox_correlation_counts, deliveries_total,
                 inbox_overflow_evictions_total, last_drained, removed>>
  /\ UNCHANGED <<seqVars, seenVars, deadVars, contextVars, callVars>>

\* The inbox and its counts go, pending entries with them: no dead letters.
UnregisterAgent(a) ==
  /\ a \in registered
  /\ registered' = registered \ {a}
  /\ inboxes' = [inboxes EXCEPT ![a] = <<>>]
  /\ inbox_correlation_counts' =
       [inbox_correlation_counts EXCEPT ![a] = [c \in Corrs |-> 0]]
  /\ removed' = removed + Len(inboxes[a])
  /\ UNCHANGED <<deliveries_total, inbox_overflow_evictions_total, last_drained>>
  /\ UNCHANGED <<seqVars, seenVars, deadVars, contextVars, callVars>>

\* Mutant of DrainForAgent: the newest entries are taken first.
DrainNewest(a, max) ==
  LET pending == Len(inboxes[a])
      count   == IF max = 0 \/ max > pending THEN pending ELSE max
      drained == SubSeq(inboxes[a], pending - count + 1, pending)
  IN /\ a \in registered
     /\ count > 0
     /\ inboxes' = [inboxes EXCEPT ![a] = SubSeq(@, 1, pending - count)]
     /\ inbox_correlation_counts' =
          [inbox_correlation_counts EXCEPT
             ![a] = Decrement(@, drained)]
     /\ last_drained' = [last_drained EXCEPT ![a] = drained[count].sequence]
     /\ removed' = removed + count
     /\ UNCHANGED <<registered, deliveries_total, inbox_overflow_evictions_total>>
     /\ UNCHANGED <<seqVars, seenVars, deadVars, contextVars, callVars>>

\* drain_for_agent: `max` = 0 drains everything that is pending.
DrainForAgent(a, max) ==
  LET pending == Len(inboxes[a])
      count   == IF max = 0 \/ max > pending THEN pending ELSE max
      drained == SubSeq(inboxes[a], 1, count)
  IN /\ a \in registered
     /\ count > 0
     /\ inboxes' = [inboxes EXCEPT ![a] = SubSeq(@, count + 1, pending)]
     /\ inbox_correlation_counts' =
          [inbox_correlation_counts EXCEPT
             ![a] = Decrement(@, drained)]
     /\ last_drained' = [last_drained EXCEPT ![a] = drained[count].sequence]
     /\ removed' = removed + count
     /\ UNCHANGED <<registered, deliveries_total, inbox_overflow_evictions_total>>
     /\ UNCHANGED <<seqVars, seenVars, deadVars, contextVars, callVars>>

Calling == publishes < MaxPublishes /\ publishes' = publishes + 1

\* The envelope is dead-lettered before it counts as an attempt.
PublishInvalid(e) ==
  /\ Calling /\ ~Validate(e)
  /\ Reject(e, "invalid")
  /\ UNCHANGED <<seqVars, seenVars, inboxVars, contextVars>>

PublishDuplicate(e) ==
  /\ Calling /\ Validate(e)
  /\ e.id \in seen_message_ids
  /\ publish_attempts_total' = publish_attempts_total + 1
  /\ Reject(e, "duplicate")
  /\ UNCHANGED <<seen_message_ids, seen_message_order,
                 seen_message_id_evictions_total, admitted>>
  /\ UNCHANGED <<seqVars, inboxVars, contextVars>>

\* The rejected patch leaves its id in the dedupe window.
PublishConflict(e) ==
  /\ Calling /\ Validate(e)
  /\ e.id \notin seen_message_ids
  /\ e.kind = "context_patch" /\ PatchRejected(e)
  /\ AdmitId(e.id)
  /\ Reject(e, "conflict")
  /\ UNCHANGED <<seqVars, inboxVars, contextVars>>

\* Mutant of Accept: a task result answers under the number of the last message.
AcceptReusingSequence(e) ==
  /\ Calling /\ Validate(e)
  /\ e.id \notin seen_message_ids
  /\ e.kind = "context_patch" => ~PatchRejected(e)
  /\ AdmitId(e.id)
  /\ PatchStep(e)
  /\ next_sequence' =
       IF e.kind = "task_result" THEN next_sequence ELSE next_sequence + 1

\* What every publish does that gets as far as a sequence number.
Accept(e) ==
  /\ Calling /\ Validate(e)
  /\ e.id \notin seen_message_ids
  /\ e.kind = "context_patch" => ~PatchRejected(e)
  /\ AdmitId(e.id)
  /\ PatchStep(e)
  /\ next_sequence' = next_sequence + 1

\* The target is looked up last: patch and sequence number are already spent.
PublishUnknownTarget(e) ==
  /\ e.scope = "direct" /\ e.to \notin registered
  /\ Accept(e)
  /\ Reject(e, "unknown_target")
  /\ UNCHANGED inboxVars

PublishDelivered(e) ==
  /\ e.scope = "direct" => e.to \in registered
  /\ Accept(e)
  /\ Deliver(e, IF e.scope = "direct" THEN {e.to} ELSE registered)
  /\ outcome' = "ok"

Publish(e) ==
  \/ PublishInvalid(e)
  \/ PublishDuplicate(e)
  \/ PublishConflict(e)
  \/ PublishUnknownTarget(e)
  \/ PublishDelivered(e)

-----------------------------------------------------------------------------
Init ==
  /\ next_sequence = 0
  /\ seen_message_ids = {} /\ seen_message_order = <<>>
  /\ registered = {}
  /\ inboxes = [a \in Agents |-> <<>>]
  /\ inbox_correlation_counts = [a \in Agents |-> [c \in Corrs |-> 0]]
  /\ dead_letters = <<>>
  /\ dead_letters_by_correlation = [c \in Corrs |-> <<>>]
  /\ context = [k \in Keys |-> 0]
  /\ context_order = <<>> /\ delegate_context_order = <<>>
  /\ context_order_by_correlation = [c \in Corrs |-> <<>>]
  /\ delegate_context_order_by_correlation = [c \in Corrs |-> <<>>]
  /\ context_correlation_by_key = [k \in Keys |-> NoCorr]
  /\ publish_attempts_total = 0 /\ deliveries_total = 0
  /\ inbox_overflow_evictions_total = 0
  /\ dead_letters_total = 0 /\ dead_letter_evictions_total = 0
  /\ context_evictions_total = 0 /\ seen_message_id_evictions_total = 0
  /\ admitted = <<>> /\ last_drained = [a \in Agents |-> 0]
  /\ removed = 0
  /\ bases = [k \in Keys |-> <<>>] /\ written_at = [k \in Keys |-> 0]
  /\ publishes = 0 /\ outcome = "none"

Next ==
  \/ \E a \in Agents : RegisterAgent(a)
  \/ \E a \in Agents : UnregisterAgent(a)
  \/ \E a \in Agents, max \in 0 .. InboxLimit : DrainForAgent(a, max)
  \/ \E e \in Envelopes : Publish(e)

Spec == Init /\ [][Next]_vars

-----------------------------------------------------------------------------
(* Read-only operations                                                    *)

\* What every paged query takes: skip `offset`, then `max` items, 0 for all.
Take(available, max) == IF max = 0 \/ max > available THEN available ELSE max
Page(items, offset, max) ==
  SubSeq(items, offset + 1, offset + Take(Monus(Len(items), offset), max))

\* peek_for_agent_correlation_with_offset sizes the page by the count it
\* keeps and fills it by filtering the inbox.
Matching(a, c) == Only(inboxes[a], EntriesOf(c))
PeekForAgentCorrelation(a, c, offset, max) ==
  LET count == Take(Monus(inbox_correlation_counts[a][c], offset), max)
      found == Matching(a, c)
      last  == IF offset + count > Len(found) THEN Len(found) ELSE offset + count
  IN SubSeq(found, offset + 1, last)

\* The context_entries_recent and delegate_context_entries_recent families:
\* a page of the order, newest first, without the keys that have no entry.
EntriesRecent(order, offset, max) ==
  Only(Page(Reverse(order), offset, max), PresentKeys)

-----------------------------------------------------------------------------
(* Invariants                                                              *)

CoreTypeOK ==
  /\ next_sequence \in Nat
  /\ seen_message_ids \subseteq Ids /\ seen_message_order \in Seq(Ids)
  /\ registered \subseteq Agents
  /\ inboxes \in [Agents -> Seq(Entry)]
  /\ \A a \in Agents : Len(inboxes[a]) <= InboxLimit
  /\ dead_letters \in Seq(DeadLetter)
  /\ Len(dead_letters) <= DeadLetterLimit
  /\ context \in [Keys -> Nat]
  /\ bases \in [Keys -> Seq(Nat)] /\ written_at \in [Keys -> Nat]
  /\ context_correlation_by_key \in [Keys -> Corrs \cup {NoCorr}]
  /\ publish_attempts_total \in Nat /\ deliveries_total \in Nat
  /\ inbox_overflow_evictions_total \in Nat
  /\ dead_letters_total \in Nat /\ dead_letter_evictions_total \in Nat
  /\ context_evictions_total \in Nat
  /\ seen_message_id_evictions_total \in Nat
  /\ admitted \in Seq(Ids) /\ last_drained \in [Agents -> Nat]
  /\ removed \in Nat
  /\ publishes \in Nat /\ outcome \in Reasons \cup {"ok", "none"}

IndexTypeOK ==
  /\ inbox_correlation_counts \in [Agents -> [Corrs -> Nat]]
  /\ dead_letters_by_correlation \in [Corrs -> Seq(DeadLetter)]
  /\ context_order \in Seq(Keys) /\ delegate_context_order \in Seq(Keys)
  /\ context_order_by_correlation \in [Corrs -> Seq(Keys)]
  /\ delegate_context_order_by_correlation \in [Corrs -> Seq(Keys)]
  /\ Cardinality(PresentKeys) <= ContextLimit

\* Every variable has its type and every bounded collection keeps its limit.
TypeOK == CoreTypeOK /\ IndexTypeOK

(***************************************************************************)
(* Per-agent ordered delivery: what waits in an inbox is in strictly       *)
(* increasing sequence order and is newer than everything the agent has    *)
(* drained before, across overflows, re-registration and broadcasts.       *)
(***************************************************************************)
OrderedInboxes ==
  \A a \in Agents :
    LET inbox == inboxes[a]
    IN /\ \A i, j \in 1 .. Len(inbox) :
            i < j => inbox[i].sequence < inbox[j].sequence
       /\ \A i \in 1 .. Len(inbox) :
            inbox[i].sequence \in last_drained[a] + 1 .. next_sequence
       /\ last_drained[a] <= next_sequence

(***************************************************************************)
(* The idempotency guard.  Set and queue of the dedupe window agree and    *)
(* hold the ids admitted last; among any SeenLimit + 1 consecutive ids     *)
(* that pass the guard no id occurs twice, so an id is reusable only after *)
(* the window has moved past it.                                           *)
(***************************************************************************)
WindowIsRecent ==
  LET held == Len(seen_message_order)
      all  == Len(admitted)
  IN /\ seen_message_ids = {seen_message_order[i] : i \in 1 .. held}
     /\ IsFiniteSet(seen_message_ids) /\ Cardinality(seen_message_ids) = held
     /\ held <= SeenLimit /\ held <= all
     /\ held < SeenLimit => held = all
     /\ \A i \in 1 .. held : seen_message_order[i] = admitted[all - held + i]

DedupeWindow ==
  /\ WindowIsRecent
  /\ \A i, j \in 1 .. Len(admitted) :
       i < j /\ admitted[i] = admitted[j] => j - i > SeenLimit

(***************************************************************************)
(* The recency order lists each stored key once, and each of the three     *)
(* derived orders lists the keys it is for, in the same order; so every    *)
(* context query returns full pages and every count is the true one.       *)
(***************************************************************************)
ContextIndexesExact ==
  /\ IsInjective(context_order) /\ ToSet(context_order) = PresentKeys
  /\ delegate_context_order = Only(context_order, DelegateKeys)
  /\ \A c \in Corrs :
       /\ context_order_by_correlation[c] = Only(context_order, KeysOf(c))
       /\ delegate_context_order_by_correlation[c] =
            Only(delegate_context_order, KeysOf(c))
  /\ Len(EntriesRecent(delegate_context_order, 0, 0)) =
       Cardinality(PresentKeys \cap DelegateKeys)

\* A page of the correlation peek is exactly that page of the matching
\* entries: the counts never hide an entry or invent one.
PeekFindsPending ==
  \A a \in registered, c \in Corrs, offset \in 0 .. 1, max \in 0 .. 1 :
    PeekForAgentCorrelation(a, c, offset, max) = Page(Matching(a, c), offset, max)

\* The per-correlation dead-letter queues, from which only the head is ever
\* popped blindly, are the filtered dead-letter list.
DeadLetterIndexExact ==
  \A c \in Corrs :
    dead_letters_by_correlation[c] = OfCorrelation(dead_letters, c)

\* The places taken in the inboxes.
PlacesTaken == UNION {{a} \X (1 .. Len(inboxes[a])) : a \in Agents}

\* What was delivered is pending, was taken by its agent or its
\* unregistration, or was dropped by an overflow.
DeliveryAccounting ==
  deliveries_total =
    Cardinality(PlacesTaken) + removed + inbox_overflow_evictions_total

(***************************************************************************)
(* What the bus keeps beside its inboxes and its dead letters, updated by  *)
(* hand in every operation, stays what a recount of them would give.       *)
(***************************************************************************)
BookkeepingExact ==
  PeekFindsPending /\ DeadLetterIndexExact /\ DeliveryAccounting

(***************************************************************************)
(* The counters of the dead-letter list account for it: what was recorded  *)
(* is retained or was evicted, and nothing is evicted before it is full.   *)
(***************************************************************************)
DeadLetterAccounting ==
  /\ dead_letters_total = Len(dead_letters) + dead_letter_evictions_total
  /\ dead_letter_evictions_total > 0 => Len(dead_letters) = DeadLetterLimit

(***************************************************************************)
(* Optimistic locking: the n-th patch a key accepts was computed from the  *)
(* value the patch before it left, so no two patches built on the same     *)
(* version are both accepted and no update is lost.                        *)
(***************************************************************************)
OptimisticLocking ==
  \A k \in Keys : \A n \in 1 .. Len(bases[k]) : bases[k][n] = n - 1

(***************************************************************************)
(* The check of expected_version locks optimistically up to the first      *)
(* eviction from the shared context, however keys and writers interleave.  *)
(***************************************************************************)
LockedUntilEviction == context_evictions_total = 0 => OptimisticLocking

-----------------------------------------------------------------------------
(* Action properties                                                       *)

(***************************************************************************)
(* A stored key changes by one version at a time, and it disappears only   *)
(* when a full context needs room for another new key and no other stored  *)
(* key has gone unwritten for longer.                                      *)
(***************************************************************************)
EvictsOnlyOldest ==
  [][\A k \in PresentKeys :
       \/ context'[k] \in {context[k], context[k] + 1}
       \/ /\ context'[k] = 0
          /\ \A other \in PresentKeys \ {k} : written_at[k] < written_at[other]
          /\ Cardinality(PresentKeys) = ContextLimit
    ]_context

-----------------------------------------------------------------------------
(* What the bus promises its agents                                        *)

SequenceNumbers(inbox) == [i \in 1 .. Len(inbox) |-> inbox[i].sequence]

Waiting == [a \in Agents |-> SequenceNumbers(inboxes[a])]

Mailboxes == INSTANCE OrderedMailboxes
               WITH Capacity <- InboxLimit, issued <- next_sequence,
                    waiting <- Waiting, taken <- last_drained

(***************************************************************************)
(* The bus implements a set of bounded, ordered, lossy mailboxes: whatever *)
(* publish, drain_for_agent, register_agent and unregister_agent do, an    *)
(* agent only ever sees a mailbox that behaves as OrderedMailboxes says.   *)
(***************************************************************************)
ImplementsMailboxes == Mailboxes!Spec
=============================================================================
