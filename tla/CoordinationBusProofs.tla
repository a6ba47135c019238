------------------------ MODULE CoordinationBusProofs ------------------------
(***************************************************************************)
(* Theorems about CoordinationBus, for any set of agents, ids, keys and    *)
(* envelopes and any limits, zero included; what it keeps in its indexes   *)
(* is the subject of BusIndexProofs.                                       *)
(***************************************************************************)
EXTENDS CoordinationBus, SequenceLemmas

-----------------------------------------------------------------------------
(* Limits                                                                  *)

\* The limit a bus runs with is never zero, whatever it was configured with.
LEMMA LimitsPositive ==
  /\ InboxLimit \in Nat \ {0} /\ DeadLetterLimit \in Nat \ {0}
  /\ ContextLimit \in Nat \ {0} /\ SeenLimit \in Nat \ {0}
BY BusAssumption
   DEF InboxLimit, DeadLetterLimit, ContextLimit, SeenLimit, AtLeastOne

-----------------------------------------------------------------------------
(* Dead letters                                                            *)

\* push_dead_letter_locked keeps the list typed and bounded, and the two
\* counters move with it.
LEMMA PushKeepsList ==
  ASSUME CoreTypeOK, NEW letters \in Seq(DeadLetter), PushDeadLetters(letters)
  PROVE  /\ dead_letters' \in Seq(DeadLetter)
         /\ Len(dead_letters') <= DeadLetterLimit
         /\ dead_letters_total' \in Nat
         /\ dead_letter_evictions_total' \in Nat
         /\ DeadLetterAccounting => DeadLetterAccounting'
<1> DEFINE all == dead_letters \o letters
           excess == IF Len(all) > DeadLetterLimit
                     THEN Len(all) - DeadLetterLimit ELSE 0
<1>1. /\ dead_letters \in Seq(DeadLetter)
      /\ Len(dead_letters) \in Nat /\ Len(letters) \in Nat
      /\ Len(dead_letters) <= DeadLetterLimit
      /\ dead_letters_total \in Nat /\ dead_letter_evictions_total \in Nat
  BY LenProperties DEF CoreTypeOK
<1>2. all \in Seq(DeadLetter) /\ Len(all) = Len(dead_letters) + Len(letters)
  BY <1>1, ConcatProperties
<1>3. /\ excess \in 0 .. Len(all)
      /\ excess = 0 => Len(all) <= DeadLetterLimit
      /\ excess # 0 => Len(all) - excess = DeadLetterLimit
  BY <1>1, <1>2, LimitsPositive
<1>4. /\ dead_letters' = SubSeq(all, excess + 1, Len(all))
      /\ dead_letters_total' = dead_letters_total + Len(letters)
      /\ dead_letter_evictions_total' = dead_letter_evictions_total + excess
  BY DEF PushDeadLetters
<1> HIDE DEF all, excess
<1>5. dead_letters' \in Seq(DeadLetter) /\ Len(dead_letters') = Len(all) - excess
  BY <1>2, <1>3, <1>4, SuffixProperties
<1>6. /\ Len(all) \in Nat /\ excess \in Nat
      /\ dead_letter_evictions_total' > 0 =>
           excess # 0 \/ dead_letter_evictions_total > 0
  BY <1>1, <1>2, <1>3, <1>4
<1>7. ASSUME DeadLetterAccounting
      PROVE  DeadLetterAccounting'
  <2>1. /\ dead_letters_total = Len(dead_letters) + dead_letter_evictions_total
        /\ dead_letter_evictions_total > 0 =>
             Len(dead_letters) = DeadLetterLimit
    BY <1>7 DEF DeadLetterAccounting
  <2>2. Len(dead_letters') = Len(dead_letters) + Len(letters) - excess
    BY <1>1, <1>2, <1>5, <1>6
  <2>3. dead_letters_total' = Len(dead_letters') + dead_letter_evictions_total'
    <3>1. dead_letters_total' =
            Len(dead_letters) + dead_letter_evictions_total + Len(letters)
      BY <1>4, <2>1
    <3>2. dead_letter_evictions_total' = dead_letter_evictions_total + excess
      BY <1>4
    <3>. QED
      BY <1>1, <1>6, <2>2, <3>1, <3>2
  <2>4. ASSUME excess = 0, dead_letter_evictions_total > 0
        PROVE  Len(dead_letters') = DeadLetterLimit
    BY <1>1, <1>2, <1>3, <1>5, <1>6, <2>1, <2>2, <2>4, LimitsPositive
  <2>5. excess # 0 => Len(dead_letters') = DeadLetterLimit
    BY <1>3, <1>5
  <2>. QED
    BY <1>6, <2>3, <2>4, <2>5 DEF DeadLetterAccounting
<1>. QED
  BY <1>1, <1>3, <1>4, <1>5, <1>6, <1>7, LimitsPositive

\* The same for the one letter a rejected envelope leaves.
LEMMA RejectKeepsList ==
  ASSUME CoreTypeOK, NEW e \in Envelopes, NEW reason \in Reasons,
         Reject(e, reason)
  PROVE  /\ dead_letters' \in Seq(DeadLetter)
         /\ Len(dead_letters') <= DeadLetterLimit
         /\ dead_letters_total' \in Nat
         /\ dead_letter_evictions_total' \in Nat
         /\ outcome' = reason
         /\ DeadLetterAccounting => DeadLetterAccounting'
<1>1. <<[envelope |-> e, reason |-> reason]>> \in Seq(DeadLetter)
  BY BusAssumption DEF DeadLetter
<1>2. PushDeadLetters(<<[envelope |-> e, reason |-> reason]>>)
  BY DEF Reject
<1>. QED
  BY <1>1, <1>2, PushKeepsList DEF Reject

-----------------------------------------------------------------------------
(* Delivery                                                                *)

\* A delivery touches the inboxes of its targets only; each of them gets the
\* new entry at its end and stays within its limit.
LEMMA DeliverInboxes ==
  ASSUME CoreTypeOK, NEW e \in Envelopes, NEW targets \in SUBSET Agents,
         next_sequence' \in Nat, Deliver(e, targets)
  PROVE  /\ inboxes' \in [Agents -> Seq(Entry)]
         /\ \A a \in Agents : Len(inboxes'[a]) <= InboxLimit
         /\ \A a \in Agents \ targets : inboxes'[a] = inboxes[a]
         /\ \A a \in targets :
              \E kept \in Seq(Entry) :
                /\ kept = inboxes[a] \/ (inboxes[a] # <<>> /\ kept = Tail(inboxes[a]))
                /\ inboxes'[a] =
                     Append(kept, [sequence |-> next_sequence', envelope |-> e])
<1> DEFINE entry == [sequence |-> next_sequence', envelope |-> e]
           kept(a) == IF a \in Overflowing(targets) THEN Tail(inboxes[a])
                      ELSE inboxes[a]
<1>1. entry \in Entry
  BY BusAssumption DEF Entry
<1>2. \A a \in Agents : /\ inboxes[a] \in Seq(Entry)
                        /\ Len(inboxes[a]) \in Nat
                        /\ Len(inboxes[a]) <= InboxLimit
  BY LenProperties DEF CoreTypeOK
<1>3. ASSUME NEW a \in targets
      PROVE  /\ kept(a) \in Seq(Entry) /\ Len(kept(a)) < InboxLimit
             /\ Len(kept(a)) \in Nat
             /\ \/ kept(a) = inboxes[a]
                \/ inboxes[a] # <<>> /\ kept(a) = Tail(inboxes[a])
  <2>1. CASE a \in Overflowing(targets)
    <3>1. Len(inboxes[a]) = InboxLimit
      BY <1>2, <2>1, LimitsPositive DEF Overflowing
    <3>2. inboxes[a] # <<>>
      BY <3>1, LimitsPositive, EmptySeq
    <3>. QED
      BY <1>2, <2>1, <3>1, <3>2, HeadTailProperties, LimitsPositive
  <2>2. CASE a \notin Overflowing(targets)
    BY <1>2, <2>2, LimitsPositive DEF Overflowing
  <2>. QED
    BY <2>1, <2>2
<1>4. inboxes' = [a \in Agents |-> IF a \notin targets THEN inboxes[a]
                                   ELSE Append(kept(a), entry)]
  BY DEF Deliver
<1> HIDE DEF kept, entry
<1>5. \A a \in targets : /\ Append(kept(a), entry) \in Seq(Entry)
                         /\ Len(Append(kept(a), entry)) <= InboxLimit
  BY <1>1, <1>3, AppendProperties, LimitsPositive
<1>6. \A a \in targets : inboxes'[a] = Append(kept(a), entry)
  BY <1>4
<1>. QED
  BY <1>2, <1>3, <1>4, <1>5, <1>6 DEF entry

-----------------------------------------------------------------------------
(* The dedupe window                                                       *)

\* An id that passes the guard joins the window at its recent end.
LEMMA AdmitKeepsTypes ==
  ASSUME CoreTypeOK, NEW id \in Ids, AdmitId(id)
  PROVE  /\ seen_message_ids' \subseteq Ids
         /\ seen_message_order' \in Seq(Ids)
         /\ publish_attempts_total' \in Nat
         /\ seen_message_id_evictions_total' \in Nat
         /\ admitted' \in Seq(Ids)
<1>1. /\ seen_message_order \in Seq(Ids) /\ admitted \in Seq(Ids)
      /\ seen_message_ids \subseteq Ids
      /\ publish_attempts_total \in Nat
      /\ seen_message_id_evictions_total \in Nat
  BY DEF CoreTypeOK
<1>2. seen_message_order # <<>> => Tail(seen_message_order) \in Seq(Ids)
  BY <1>1, HeadTailProperties
<1>. QED
  BY <1>1, <1>2, AppendProperties DEF AdmitId

\* The guard admits an id only when none of the last SeenLimit ids was it.
LEMMA AdmitKeepsWindow ==
  ASSUME CoreTypeOK, DedupeWindow, NEW id \in Ids \ seen_message_ids,
         AdmitId(id)
  PROVE  DedupeWindow'
<1> DEFINE order == seen_message_order
           held == Len(order)
           all == Len(admitted)
           full == Cardinality(seen_message_ids) >= SeenLimit /\ order # <<>>
           kept == IF full THEN Tail(order) ELSE order
           ids == IF full THEN seen_message_ids \ {Head(order)}
                  ELSE seen_message_ids
<1>1. /\ order \in Seq(Ids) /\ admitted \in Seq(Ids)
      /\ held \in Nat /\ all \in Nat
  BY LenProperties DEF CoreTypeOK
<1>2. /\ seen_message_ids = {order[i] : i \in 1 .. held}
      /\ IsFiniteSet(seen_message_ids) /\ Cardinality(seen_message_ids) = held
      /\ held <= SeenLimit /\ held <= all
      /\ held < SeenLimit => held = all
      /\ \A i \in 1 .. held : order[i] = admitted[all - held + i]
  BY DEF DedupeWindow, WindowIsRecent
<1>3. /\ seen_message_ids' = ids \cup {id}
      /\ seen_message_order' = Append(kept, id)
      /\ admitted' = Append(admitted, id)
  BY DEF AdmitId
<1>4. full <=> held = SeenLimit
  BY <1>1, <1>2, LimitsPositive, EmptySeq
<1>5. \A i, j \in 1 .. held : order[i] = order[j] => i = j
  <2>1. SUFFICES ASSUME NEW i \in 1 .. held, NEW j \in 1 .. held,
                        i < j, order[i] = order[j]
                 PROVE  FALSE
    BY <1>1
  <2>2. admitted[all - held + i] = admitted[all - held + j]
    BY <1>2, <2>1
  <2>3. /\ all - held + i \in 1 .. all /\ all - held + j \in 1 .. all
        /\ all - held + i < all - held + j
        /\ (all - held + j) - (all - held + i) <= held
    BY <1>1, <1>2, <2>1
  <2>4. (all - held + j) - (all - held + i) > SeenLimit
    BY <2>2, <2>3 DEF DedupeWindow
  <2>. QED
    BY <1>1, <1>2, <2>3, <2>4, LimitsPositive
<1> DEFINE k == Len(kept)
<1> HIDE DEF k, kept, ids, full
<1>6. /\ kept \in Seq(Ids) /\ k \in Nat
      /\ ids = {kept[i] : i \in 1 .. k}
      /\ IsFiniteSet(ids) /\ Cardinality(ids) = k
      /\ k < SeenLimit /\ k <= all
      /\ k + 1 < SeenLimit => k = all
      /\ \A i \in 1 .. k : kept[i] = admitted[all - k + i]
  <2>1. CASE full
    <3>1. /\ held = SeenLimit /\ held >= 1 /\ order # <<>>
          /\ kept = Tail(order) /\ ids = seen_message_ids \ {order[1]}
      BY <1>1, <1>4, <2>1, LimitsPositive DEF kept, ids, full
    <3>2. /\ kept \in Seq(Ids) /\ k = held - 1
          /\ \A i \in 1 .. k : kept[i] = order[i + 1]
      BY <1>1, <3>1, HeadTailProperties DEF k
    <3>3. order[1] \in seen_message_ids
      BY <1>1, <1>2, <3>1
    <3>4. IsFiniteSet(ids) /\ Cardinality(ids) = held - 1
      <4>1. IsFiniteSet(seen_message_ids) /\ Cardinality(seen_message_ids) = held
        BY <1>2
      <4>. QED
        BY <3>1, <3>3, <4>1, FS_RemoveElement
    <3>5. ids = {kept[i] : i \in 1 .. k}
      <4>1. ASSUME NEW x \in ids PROVE x \in {kept[i] : i \in 1 .. k}
        <5>1. PICK i \in 1 .. held : x = order[i]
          BY <1>2, <3>1, <4>1
        <5>2. i # 1
          BY <3>1, <4>1, <5>1
        <5>3. i - 1 \in 1 .. k /\ kept[i - 1] = order[i]
          BY <1>1, <3>2, <5>1, <5>2
        <5>. QED
          BY <5>1, <5>3
      <4>2. ASSUME NEW i \in 1 .. k PROVE kept[i] \in ids
        <5>1. i + 1 \in 1 .. held /\ 1 \in 1 .. held /\ i + 1 # 1
          BY <1>1, <3>1, <3>2
        <5>2. order[i + 1] # order[1]
          BY <1>5, <5>1
        <5>. QED
          BY <1>2, <3>1, <3>2, <5>1, <5>2
      <4>. QED
        BY <4>1, <4>2
    <3>6. \A i \in 1 .. k : kept[i] = admitted[all - k + i]
      <4>1. SUFFICES ASSUME NEW i \in 1 .. k
                     PROVE  kept[i] = admitted[all - k + i]
        OBVIOUS
      <4>2. i + 1 \in 1 .. held /\ all - held + (i + 1) = all - k + i
        BY <1>1, <3>2
      <4>. QED
        BY <1>2, <3>2, <4>2
    <3>7. /\ k \in Nat /\ k < SeenLimit /\ k <= all
          /\ ~(k + 1 < SeenLimit) /\ Cardinality(ids) = k
      BY <1>1, <1>2, <3>1, <3>2, <3>4
    <3>. QED
      BY <3>2, <3>4, <3>5, <3>6, <3>7
  <2>2. CASE ~full
    <3>1. kept = order /\ ids = seen_message_ids /\ held # SeenLimit
      BY <1>4, <2>2 DEF kept, ids, full
    <3>2. k = held
      BY <3>1 DEF k
    <3>3. k < SeenLimit
      BY <1>1, <1>2, <3>1, <3>2, LimitsPositive
    <3>. QED
      BY <1>1, <1>2, <3>1, <3>2, <3>3
  <2>. QED
    BY <2>1, <2>2
<1>7. id \notin ids
  BY DEF ids
<1> DEFINE new == Append(kept, id)
           log == Append(admitted, id)
<1>8. /\ Len(new) = k + 1 /\ new[k + 1] = id
      /\ \A i \in 1 .. k : new[i] = kept[i]
  <2>1. kept \in Seq(Ids) /\ id \in Ids
    BY <1>6
  <2>. QED
    BY <2>1, AppendProperties DEF k
<1>9. /\ Len(log) = all + 1 /\ log[all + 1] = id
      /\ \A i \in 1 .. all : log[i] = admitted[i]
  BY <1>1, AppendProperties
<1> HIDE DEF new, log
<1>10. ids \cup {id} = {new[i] : i \in 1 .. k + 1}
  <2>1. k \in Nat /\ ids = {kept[i] : i \in 1 .. k}
    BY <1>6
  <2>2. \A x \in ids : \E i \in 1 .. k + 1 : x = new[i]
    <3>1. SUFFICES ASSUME NEW i \in 1 .. k
                   PROVE  \E n \in 1 .. k + 1 : kept[i] = new[n]
      BY <2>1
    <3>. QED
      BY <1>8, <2>1
  <2>3. \E i \in 1 .. k + 1 : id = new[i]
    BY <1>8, <2>1
  <2>4. ASSUME NEW i \in 1 .. k + 1 PROVE new[i] \in ids \cup {id}
    <3>1. i = k + 1 \/ i \in 1 .. k
      BY <2>1
    <3>. QED
      BY <1>8, <2>1, <3>1
  <2>. QED
    BY <2>2, <2>3, <2>4
<1>11. IsFiniteSet(ids \cup {id}) /\ Cardinality(ids \cup {id}) = k + 1
  BY <1>6, <1>7, FS_AddElement
<1>12. \A i \in 1 .. k + 1 : new[i] = log[(all + 1) - (k + 1) + i]
  <2>1. SUFFICES ASSUME NEW i \in 1 .. k + 1
                 PROVE  new[i] = log[(all + 1) - (k + 1) + i]
    OBVIOUS
  <2>2. CASE i = k + 1
    BY <1>1, <1>6, <1>8, <1>9, <2>2
  <2>3. CASE i \in 1 .. k
    <3>1. /\ (all + 1) - (k + 1) + i = all - k + i
          /\ all - k + i \in 1 .. all
      BY <1>1, <1>6, <2>3
    <3>. QED
      BY <1>6, <1>8, <1>9, <2>3, <3>1
  <2>. QED
    BY <1>6, <2>1, <2>2, <2>3
<1>13. WindowIsRecent'
  <2>1. seen_message_order' = new /\ admitted' = log
        /\ seen_message_ids' = ids \cup {id}
    BY <1>3 DEF new, log
  <2>2. k + 1 <= SeenLimit /\ k + 1 <= all + 1
        /\ (k + 1 < SeenLimit => k + 1 = all + 1)
    BY <1>1, <1>6, LimitsPositive
  <2>3. Len(new) = k + 1 /\ Len(log) = all + 1
    BY <1>8, <1>9
  <2>4. Len(seen_message_order') = k + 1 /\ Len(admitted') = all + 1
    BY <2>1, <2>3
  <2>5. seen_message_ids' =
          {seen_message_order'[i] : i \in 1 .. Len(seen_message_order')}
    BY <1>10, <2>1, <2>4
  <2>6. /\ IsFiniteSet(seen_message_ids')
        /\ Cardinality(seen_message_ids') = Len(seen_message_order')
    BY <1>11, <2>1, <2>4
  <2>7. \A i \in 1 .. Len(seen_message_order') :
          seen_message_order'[i] =
            admitted'[Len(admitted') - Len(seen_message_order') + i]
    BY <1>12, <2>1, <2>4
  <2>8. SeenLimit' = SeenLimit
    BY DEF SeenLimit, AtLeastOne
  <2>. HIDE DEF all, order, held
  <2>. QED
    BY <2>2, <2>4, <2>5, <2>6, <2>7, <2>8 DEF WindowIsRecent
<1>14. ASSUME NEW i \in 1 .. all + 1, NEW j \in 1 .. all + 1,
              i < j, log[i] = log[j]
       PROVE  j - i > SeenLimit
  <2>1. CASE j \in 1 .. all
    <3>1. i \in 1 .. all /\ admitted[i] = admitted[j]
      BY <1>1, <1>9, <1>14, <2>1
    <3>. QED
      BY <1>14, <2>1, <3>1 DEF DedupeWindow
  <2>2. CASE j = all + 1
    <3>1. i \in 1 .. all /\ admitted[i] = id
      BY <1>1, <1>9, <1>14, <2>2
    <3>2. ~(i > all - held)
      <4>1. SUFFICES ASSUME i > all - held PROVE FALSE
        OBVIOUS
      <4>2. i - (all - held) \in 1 .. held
            /\ all - held + (i - (all - held)) = i
        BY <1>1, <1>2, <3>1, <4>1
      <4>3. order[i - (all - held)] = id
        BY <1>2, <3>1, <4>2
      <4>. QED
        BY <1>2, <4>2, <4>3
    <3>3. held = SeenLimit
      BY <1>1, <1>2, <3>1, <3>2, LimitsPositive
    <3>. QED
      BY <1>1, <2>2, <3>1, <3>2, <3>3, LimitsPositive
  <2>. QED
    BY <1>1, <1>14, <2>1, <2>2
<1>. QED
  BY <1>3, <1>9, <1>13, <1>14 DEF DedupeWindow, log

-----------------------------------------------------------------------------
(* Type invariant                                                          *)

\* The context part of publish writes versions and correlation ids only.
LEMMA PatchKeepsTypes ==
  ASSUME CoreTypeOK, NEW e \in Envelopes, PatchStep(e)
  PROVE  /\ context' \in [Keys -> Nat]
         /\ bases' \in [Keys -> Seq(Nat)] /\ written_at' \in [Keys -> Nat]
         /\ context_correlation_by_key' \in [Keys -> Corrs \cup {NoCorr}]
         /\ context_evictions_total' \in Nat
<1>1. /\ context \in [Keys -> Nat] /\ next_sequence \in Nat
      /\ bases \in [Keys -> Seq(Nat)] /\ written_at \in [Keys -> Nat]
      /\ context_correlation_by_key \in [Keys -> Corrs \cup {NoCorr}]
      /\ context_evictions_total \in Nat
  BY DEF CoreTypeOK
<1>2. CASE e.kind = "context_patch"
  <2>1. /\ e.key \in Keys /\ e.correlation_id \in Corrs \cup {NoCorr}
        /\ e.expected_version \in Nat
    BY <1>2, BusAssumption DEF Envelope
  <2>2. ApplyContextPatch(e)
    BY <1>2 DEF PatchStep
  <2>3. /\ context' \in [Keys -> Nat]
        /\ context_correlation_by_key' \in [Keys -> Corrs \cup {NoCorr}]
    <3>1. PICK v : context' = [x \in Keys |-> CASE x = e.key -> context[e.key] + 1
                                               [] x = v /\ x # e.key -> 0
                                               [] OTHER -> context[x]]
      BY <2>2 DEF ApplyContextPatch
    <3>2. context' \in [Keys -> Nat]
      BY <1>1, <2>1, <3>1
    <3>3. PICK w : context_correlation_by_key' =
                     [x \in Keys |-> CASE x = e.key -> e.correlation_id
                                       [] x = w /\ x # e.key -> NoCorr
                                       [] OTHER -> context_correlation_by_key[x]]
      BY <2>2 DEF ApplyContextPatch
    <3>4. context_correlation_by_key' \in [Keys -> Corrs \cup {NoCorr}]
      BY <1>1, <2>1, <3>3
    <3>. QED
      BY <3>2, <3>4
  <2>4. written_at' \in [Keys -> Nat] /\ context_evictions_total' \in Nat
    BY <1>1, <2>1, <2>2 DEF ApplyContextPatch
  <2>5. bases' = [bases EXCEPT ![e.key] = Append(@, e.expected_version)]
    BY <2>2 DEF ApplyContextPatch
  <2>6. bases' \in [Keys -> Seq(Nat)]
    BY <1>1, <2>1, <2>5, AppendProperties
  <2>. QED
    BY <2>3, <2>4, <2>6
<1>3. CASE e.kind # "context_patch"
  BY <1>1, <1>3 DEF PatchStep, contextVars
<1>. QED
  BY <1>2, <1>3

\* The entries a delivery drops become dead letters, in some order.
LEMMA DeliverPushes ==
  ASSUME CoreTypeOK, NEW e \in Envelopes, NEW targets \in SUBSET Agents,
         Deliver(e, targets)
  PROVE  \E letters \in Seq(DeadLetter) : PushDeadLetters(letters)
<1> DEFINE full == Overflowing(targets)
<1>1. full \subseteq Agents
  BY DEF Overflowing
<1>2. Cardinality(full) \in Nat
  BY <1>1, BusAssumption, FS_Subset, FS_CardinalityType
<1>4. PICK order \in SetToSeqs(full) :
        PushDeadLetters([i \in DOMAIN order |->
                           [envelope |-> Head(inboxes[order[i]]).envelope,
                            reason   |-> "overflow"]])
  BY DEF Deliver
<1>5. order \in [1 .. Cardinality(full) -> full]
  BY DEF SetToSeqs
<1>6. ASSUME NEW a \in full
      PROVE  Head(inboxes[a]).envelope \in Envelope
  <2>1. inboxes[a] \in Seq(Entry) /\ Len(inboxes[a]) >= InboxLimit
    BY <1>1 DEF CoreTypeOK, Overflowing
  <2>2. inboxes[a] # <<>>
    BY <2>1, LimitsPositive, EmptySeq
  <2>3. Head(inboxes[a]) \in Entry
    BY <2>1, <2>2, HeadTailProperties
  <2>. QED
    BY <2>3 DEF Entry
<1> DEFINE letters == [i \in 1 .. Cardinality(full) |->
                         [envelope |-> Head(inboxes[order[i]]).envelope,
                          reason   |-> "overflow"]]
<1>7. letters \in [1 .. Cardinality(full) -> DeadLetter]
  BY <1>5, <1>6 DEF DeadLetter, Reasons
<1>8. letters \in Seq(DeadLetter)
  BY <1>2, <1>7, FunctionIsSeq
<1>9. PushDeadLetters(letters)
  BY <1>4, <1>5
<1> HIDE DEF letters
<1>. QED
  BY <1>8, <1>9

\* A delivery keeps the rest of its state typed as well.
LEMMA DeliverKeepsTypes ==
  ASSUME CoreTypeOK, NEW e \in Envelopes, NEW targets \in SUBSET Agents,
         Deliver(e, targets)
  PROVE  /\ deliveries_total' \in Nat
         /\ inbox_overflow_evictions_total' \in Nat
         /\ dead_letters' \in Seq(DeadLetter)
         /\ Len(dead_letters') <= DeadLetterLimit
         /\ dead_letters_total' \in Nat
         /\ dead_letter_evictions_total' \in Nat
         /\ DeadLetterAccounting => DeadLetterAccounting'
<1> DEFINE full == Overflowing(targets)
<1>1. full \subseteq Agents
  BY DEF Overflowing
<1>2. Cardinality(targets) \in Nat /\ Cardinality(full) \in Nat
  BY <1>1, BusAssumption, FS_Subset, FS_CardinalityType
<1>3. /\ deliveries_total' \in Nat
      /\ inbox_overflow_evictions_total' \in Nat
  BY <1>2 DEF Deliver, CoreTypeOK
<1>4. \E letters \in Seq(DeadLetter) : PushDeadLetters(letters)
  BY DeliverPushes
<1>. QED
  BY <1>3, <1>4, PushKeepsList

\* What a publish does on the way to its sequence number.
LEMMA AcceptKeepsTypes ==
  ASSUME CoreTypeOK, NEW e \in Envelopes, Accept(e)
  PROVE  /\ seen_message_ids' \subseteq Ids
         /\ seen_message_order' \in Seq(Ids)
         /\ publish_attempts_total' \in Nat
         /\ seen_message_id_evictions_total' \in Nat
         /\ admitted' \in Seq(Ids)
         /\ context' \in [Keys -> Nat]
         /\ bases' \in [Keys -> Seq(Nat)] /\ written_at' \in [Keys -> Nat]
         /\ context_correlation_by_key' \in [Keys -> Corrs \cup {NoCorr}]
         /\ context_evictions_total' \in Nat
         /\ next_sequence' = next_sequence + 1 /\ next_sequence' \in Nat
         /\ publishes' \in Nat
<1>1. e.id \in Ids
  BY BusAssumption DEF Envelope
<1>2. AdmitId(e.id) /\ PatchStep(e) /\ next_sequence' = next_sequence + 1
      /\ publishes' = publishes + 1
  BY DEF Accept, Calling
<1>. QED
  BY <1>1, <1>2, AdmitKeepsTypes, PatchKeepsTypes DEF CoreTypeOK

\* Every publish keeps the type invariant, whichever way it ends.
LEMMA PublishKeepsTypes ==
  ASSUME CoreTypeOK, NEW e \in Envelopes, Publish(e)
  PROVE  CoreTypeOK'
<1> USE DEF seqVars, seenVars, inboxVars, contextVars
<1>1. e.id \in Ids
  BY BusAssumption DEF Envelope
<1>2. CASE PublishInvalid(e)
  <2>1. Reject(e, "invalid") /\ "invalid" \in Reasons /\ publishes' \in Nat
    BY <1>2 DEF PublishInvalid, Reasons, Calling, CoreTypeOK
  <2>. QED
    BY <1>2, <2>1, RejectKeepsList DEF PublishInvalid, CoreTypeOK
<1>3. CASE PublishDuplicate(e)
  <2>1. Reject(e, "duplicate") /\ "duplicate" \in Reasons
        /\ publishes' \in Nat /\ publish_attempts_total' \in Nat
    BY <1>3 DEF PublishDuplicate, Reasons, Calling, CoreTypeOK
  <2>. QED
    BY <1>3, <2>1, RejectKeepsList DEF PublishDuplicate, CoreTypeOK
<1>4. CASE PublishConflict(e)
  <2>1. Reject(e, "conflict") /\ "conflict" \in Reasons /\ publishes' \in Nat
        /\ AdmitId(e.id)
    BY <1>4 DEF PublishConflict, Reasons, Calling, CoreTypeOK
  <2>. QED
    BY <1>1, <1>4, <2>1, RejectKeepsList, AdmitKeepsTypes
       DEF PublishConflict, CoreTypeOK
<1>5. CASE PublishUnknownTarget(e)
  <2>1. Reject(e, "unknown_target") /\ "unknown_target" \in Reasons /\ Accept(e)
    BY <1>5 DEF PublishUnknownTarget, Reasons
  <2>. QED
    BY <1>5, <2>1, RejectKeepsList, AcceptKeepsTypes
       DEF PublishUnknownTarget, CoreTypeOK
<1>6. CASE PublishDelivered(e)
  <2> DEFINE targets == IF e.scope = "direct" THEN {e.to} ELSE registered
  <2>1. targets \in SUBSET Agents
    BY <1>6 DEF PublishDelivered, CoreTypeOK
  <2>2. Accept(e) /\ Deliver(e, targets) /\ outcome' = "ok"
    BY <1>6 DEF PublishDelivered
  <2> HIDE DEF targets
  <2>3. /\ registered' = registered /\ last_drained' = last_drained
        /\ removed' = removed
    BY <2>2 DEF Deliver
  <2>. QED
    BY <2>1, <2>2, <2>3, AcceptKeepsTypes, DeliverInboxes, DeliverKeepsTypes
       DEF CoreTypeOK
<1>. QED
  BY <1>2, <1>3, <1>4, <1>5, <1>6 DEF Publish

\* What a drain takes and leaves.
LEMMA DrainSplitsInbox ==
  ASSUME CoreTypeOK, NEW a \in Agents, NEW max \in 0 .. InboxLimit,
         DrainForAgent(a, max)
  PROVE  \E count \in 1 .. Len(inboxes[a]) :
           /\ inboxes' = [inboxes EXCEPT
                            ![a] = SubSeq(inboxes[a], count + 1, Len(inboxes[a]))]
           /\ last_drained' =
                [last_drained EXCEPT ![a] = inboxes[a][count].sequence]
           /\ removed' = removed + count
           /\ inboxes[a] \in Seq(Entry)
           /\ inboxes[a][count] \in Entry
<1> DEFINE pending == Len(inboxes[a])
           count == IF max = 0 \/ max > pending THEN pending ELSE max
<1>1. inboxes[a] \in Seq(Entry) /\ pending \in Nat
  BY LenProperties DEF CoreTypeOK
<1>2. count > 0
  BY DEF DrainForAgent
<1>3. count \in 1 .. pending
  BY <1>1, <1>2, LimitsPositive
<1>4. /\ inboxes' = [inboxes EXCEPT ![a] = SubSeq(@, count + 1, pending)]
      /\ last_drained' = [last_drained EXCEPT
                            ![a] = SubSeq(inboxes[a], 1, count)[count].sequence]
      /\ removed' = removed + count
  BY DEF DrainForAgent
<1> HIDE DEF count
<1>5. \A i \in 1 .. pending : inboxes[a][i] \in Entry
  BY <1>1, ElementOfSeq
<1>6. SubSeq(inboxes[a], 1, count)[count] = inboxes[a][count]
  <2>1. \A i \in 1 .. count : inboxes[a][i] \in Entry
    BY <1>1, <1>3, <1>5
  <2>2. \A i \in 1 .. count - 1 + 1 :
          SubSeq(inboxes[a], 1, count)[i] = inboxes[a][1 + i - 1]
    BY <1>1, <1>3, <2>1, SubSeqProperties
  <2>. QED
    BY <1>1, <1>3, <2>2
<1>. QED
  BY <1>1, <1>3, <1>4, <1>5, <1>6

\* A drain keeps the types and the limits.
LEMMA DrainKeepsTypes ==
  ASSUME CoreTypeOK, NEW a \in Agents, NEW max \in 0 .. InboxLimit,
         DrainForAgent(a, max)
  PROVE  CoreTypeOK'
<1>1. PICK count \in 1 .. Len(inboxes[a]) :
        /\ inboxes' = [inboxes EXCEPT
                         ![a] = SubSeq(inboxes[a], count + 1, Len(inboxes[a]))]
        /\ last_drained' =
             [last_drained EXCEPT ![a] = inboxes[a][count].sequence]
        /\ removed' = removed + count
        /\ inboxes[a] \in Seq(Entry)
        /\ inboxes[a][count] \in Entry
  BY DrainSplitsInbox
<1> DEFINE rest == SubSeq(inboxes[a], count + 1, Len(inboxes[a]))
<1>2. rest \in Seq(Entry) /\ Len(rest) = Len(inboxes[a]) - count
  BY <1>1, SuffixProperties
<1>3. Len(inboxes[a]) \in Nat
  BY <1>1, LenProperties
<1>4. inboxes' = [inboxes EXCEPT ![a] = rest]
  BY <1>1
<1> HIDE DEF rest
<1>5. /\ inboxes' \in [Agents -> Seq(Entry)]
      /\ \A b \in Agents : Len(inboxes'[b]) <= InboxLimit
  BY <1>2, <1>3, <1>4, LimitsPositive DEF CoreTypeOK
<1>6. last_drained' \in [Agents -> Nat] /\ removed' \in Nat
  BY <1>1, <1>3 DEF CoreTypeOK, Entry
<1>. QED
  BY <1>5, <1>6
     DEF CoreTypeOK, DrainForAgent, seqVars, seenVars, deadVars, contextVars,
         callVars

\* Agents come and go within the types.
LEMMA MembershipKeepsTypes ==
  ASSUME CoreTypeOK, NEW a \in Agents, RegisterAgent(a) \/ UnregisterAgent(a)
  PROVE  CoreTypeOK'
<1> USE DEF CoreTypeOK, seqVars, seenVars, deadVars, contextVars, callVars
<1>1. CASE RegisterAgent(a)
  BY <1>1 DEF RegisterAgent
<1>2. CASE UnregisterAgent(a)
  <2>1. Len(inboxes[a]) \in Nat
    BY LenProperties
  <2>2. <<>> \in Seq(Entry) /\ Len(<<>>) = 0
    BY EmptySeq
  <2>. QED
    BY <1>2, <2>1, <2>2, LimitsPositive DEF UnregisterAgent
<1>. QED
  BY <1>1, <1>2

(***************************************************************************)
(* Every variable of the bus has its type, and inboxes and dead letters    *)
(* keep their limits: push_inbox_entry_locked and push_dead_letter_locked  *)
(* evict before they append.                                               *)
(***************************************************************************)
THEOREM CoreTypes == Spec => []CoreTypeOK
<1>1. Init => CoreTypeOK
  BY LimitsPositive, EmptySeq DEF Init, CoreTypeOK
<1>2. CoreTypeOK /\ [Next]_vars => CoreTypeOK'
  <2>1. SUFFICES ASSUME CoreTypeOK, [Next]_vars PROVE CoreTypeOK'
    OBVIOUS
  <2>2. CASE \E a \in Agents : RegisterAgent(a) \/ UnregisterAgent(a)
    BY <2>1, <2>2, MembershipKeepsTypes
  <2>3. CASE \E a \in Agents, max \in 0 .. InboxLimit : DrainForAgent(a, max)
    BY <2>1, <2>3, DrainKeepsTypes
  <2>4. CASE \E e \in Envelopes : Publish(e)
    BY <2>1, <2>4, PublishKeepsTypes
  <2>5. CASE UNCHANGED vars
    BY <2>1, <2>5 DEF CoreTypeOK, vars, seqVars, seenVars, inboxVars, deadVars,
                      contextVars, callVars
  <2>. QED
    BY <2>1, <2>2, <2>3, <2>4, <2>5 DEF Next
<1>. QED
  BY <1>1, <1>2, PTL DEF Spec

-----------------------------------------------------------------------------
(* Dead-letter accounting and the dedupe window                            *)

(***************************************************************************)
(* dead_letters_total and dead_letter_evictions_total account for the      *)
(* retained list, whatever mixture of rejections and overflows filled it.  *)
(***************************************************************************)
THEOREM DeadLettersAccounted == Spec => []DeadLetterAccounting
<1>1. Init => DeadLetterAccounting
  BY EmptySeq DEF Init, DeadLetterAccounting
<1>2. CoreTypeOK /\ DeadLetterAccounting /\ [Next]_vars => DeadLetterAccounting'
  <2>1. SUFFICES ASSUME CoreTypeOK, DeadLetterAccounting, [Next]_vars
                 PROVE  DeadLetterAccounting'
    OBVIOUS
  <2>2. CASE UNCHANGED deadVars
    BY <2>1, <2>2 DEF DeadLetterAccounting, deadVars
  <2>3. ASSUME NEW e \in Envelopes, NEW reason \in Reasons, Reject(e, reason)
        PROVE  DeadLetterAccounting'
    BY <2>1, <2>3, RejectKeepsList
  <2>4. ASSUME NEW e \in Envelopes, PublishDelivered(e)
        PROVE  DeadLetterAccounting'
    <3> DEFINE targets == IF e.scope = "direct" THEN {e.to} ELSE registered
    <3>1. targets \in SUBSET Agents /\ Deliver(e, targets)
      BY <2>1, <2>4 DEF PublishDelivered, CoreTypeOK
    <3> HIDE DEF targets
    <3>. QED
      BY <2>1, <3>1, DeliverKeepsTypes
  <2>5. ASSUME NEW e \in Envelopes, Publish(e)
        PROVE  DeadLetterAccounting'
    BY <2>3, <2>4, <2>5
       DEF Publish, PublishInvalid, PublishDuplicate, PublishConflict,
           PublishUnknownTarget, Reasons
  <2>6. CASE \E a \in Agents : \/ RegisterAgent(a) \/ UnregisterAgent(a)
                              \/ \E max \in 0 .. InboxLimit :
                                   DrainForAgent(a, max)
    BY <2>2, <2>6 DEF RegisterAgent, UnregisterAgent, DrainForAgent
  <2>7. CASE UNCHANGED vars
    BY <2>2, <2>7 DEF vars
  <2>. QED
    BY <2>1, <2>5, <2>6, <2>7 DEF Next
<1>. QED
  BY <1>1, <1>2, CoreTypes, PTL DEF Spec

(***************************************************************************)
(* publish admits an id at most once in any SeenLimit + 1 consecutive      *)
(* admissions, for every size of the dedupe window.                        *)
(***************************************************************************)
THEOREM WindowHolds == Spec => []DedupeWindow
<1>1. Init => DedupeWindow
  <2>1. SUFFICES ASSUME Init PROVE DedupeWindow
    OBVIOUS
  <2>2. Len(<<>>) = 0
    BY EmptySeq
  <2>3. IsFiniteSet({}) /\ Cardinality({}) = 0
    BY FS_EmptySet
  <2>. QED
    BY <2>1, <2>2, <2>3, LimitsPositive DEF Init, DedupeWindow, WindowIsRecent
<1>2. CoreTypeOK /\ DedupeWindow /\ [Next]_vars => DedupeWindow'
  <2>1. SUFFICES ASSUME CoreTypeOK, DedupeWindow, [Next]_vars
                 PROVE  DedupeWindow'
    OBVIOUS
  <2>2. CASE UNCHANGED <<seen_message_ids, seen_message_order, admitted>>
    BY <2>1, <2>2 DEF DedupeWindow, WindowIsRecent
  <2>3. ASSUME NEW e \in Envelopes, AdmitId(e.id), e.id \notin seen_message_ids
        PROVE  DedupeWindow'
    <3>1. e.id \in Ids \ seen_message_ids
      BY <2>3, BusAssumption DEF Envelope
    <3>. QED
      BY <2>1, <2>3, <3>1, AdmitKeepsWindow
  <2>4. ASSUME NEW e \in Envelopes, Publish(e)
        PROVE  DedupeWindow'
    BY <2>2, <2>3, <2>4
       DEF Publish, PublishInvalid, PublishDuplicate, PublishConflict,
           PublishUnknownTarget, PublishDelivered, Accept, seenVars
  <2>5. CASE \E a \in Agents : \/ RegisterAgent(a) \/ UnregisterAgent(a)
                              \/ \E max \in 0 .. InboxLimit :
                                   DrainForAgent(a, max)
    BY <2>2, <2>5 DEF RegisterAgent, UnregisterAgent, DrainForAgent, seenVars
  <2>6. CASE UNCHANGED vars
    BY <2>2, <2>6 DEF vars, seenVars
  <2>. QED
    BY <2>1, <2>4, <2>5, <2>6 DEF Next
<1>. QED
  BY <1>1, <1>2, CoreTypes, PTL DEF Spec

-----------------------------------------------------------------------------
(* Ordered delivery                                                        *)

\* One inbox is in order between what its agent drained and what was issued.
Ordered(inbox, drained, issued) ==
  /\ \A i, j \in 1 .. Len(inbox) :
       i < j => inbox[i].sequence < inbox[j].sequence
  /\ \A i \in 1 .. Len(inbox) : inbox[i].sequence \in drained + 1 .. issued
  /\ drained <= issued

\* OrderedInboxes is a statement about one inbox after the other.
LEMMA OrderedIsPerInbox ==
  OrderedInboxes <=>
    \A a \in Agents : Ordered(inboxes[a], last_drained[a], next_sequence)
BY DEF OrderedInboxes, Ordered

\* Dropping the front of an inbox keeps it in order.
LEMMA SuffixIsOrdered ==
  ASSUME NEW inbox \in Seq(Entry), NEW drained \in Nat, NEW issued \in Nat,
         NEW n \in 0 .. Len(inbox), Ordered(inbox, drained, issued)
  PROVE  /\ Ordered(SubSeq(inbox, n + 1, Len(inbox)), drained, issued)
         /\ n > 0 => Ordered(SubSeq(inbox, n + 1, Len(inbox)),
                             inbox[n].sequence, issued)
<1> DEFINE rest == SubSeq(inbox, n + 1, Len(inbox))
<1>1. /\ Len(rest) = Len(inbox) - n /\ Len(inbox) \in Nat
      /\ \A i \in 1 .. Len(rest) : rest[i] = inbox[n + i]
  BY SuffixProperties, LenProperties
<1> HIDE DEF rest
<1>2. \A i \in 1 .. Len(inbox) : inbox[i].sequence \in Nat
  <2>1. \A i \in 1 .. Len(inbox) : inbox[i] \in Entry
    BY ElementOfSeq
  <2>. QED
    BY <2>1 DEF Entry
<1>3. \A i \in 1 .. Len(rest) : n + i \in 1 .. Len(inbox)
  BY <1>1
<1>4. ASSUME NEW i \in 1 .. Len(rest), NEW j \in 1 .. Len(rest), i < j
      PROVE  rest[i].sequence < rest[j].sequence
  <2>1. /\ n + i \in 1 .. Len(inbox) /\ n + j \in 1 .. Len(inbox)
        /\ n + i < n + j
    BY <1>1, <1>3, <1>4
  <2>. QED
    BY <1>1, <2>1 DEF Ordered
<1>5. \A i \in 1 .. Len(rest) : rest[i].sequence \in drained + 1 .. issued
  BY <1>1, <1>3 DEF Ordered
<1>6. ASSUME n > 0
      PROVE  /\ \A i \in 1 .. Len(rest) :
                  rest[i].sequence \in inbox[n].sequence + 1 .. issued
             /\ inbox[n].sequence <= issued
  <2>1. n \in 1 .. Len(inbox)
    BY <1>1, <1>6
  <2>2. inbox[n].sequence \in Nat /\ inbox[n].sequence <= issued
    BY <1>2, <2>1 DEF Ordered
  <2>3. ASSUME NEW i \in 1 .. Len(rest)
        PROVE  rest[i].sequence \in inbox[n].sequence + 1 .. issued
    <3>1. n + i \in 1 .. Len(inbox) /\ n < n + i
      BY <1>1, <1>3
    <3>2. inbox[n].sequence < inbox[n + i].sequence
      BY <2>1, <3>1 DEF Ordered
    <3>3. rest[i] = inbox[n + i] /\ inbox[n + i].sequence \in Nat
      BY <1>1, <1>2, <3>1
    <3>4. inbox[n + i].sequence <= issued
      BY <1>5, <3>3
    <3>5. inbox[n + i].sequence \in inbox[n].sequence + 1 .. issued
      BY <2>2, <3>2, <3>3, <3>4
    <3>. QED
      BY <3>3, <3>5
  <2>. QED
    BY <2>2, <2>3
<1>. QED
  BY <1>4, <1>5, <1>6 DEF Ordered, rest

\* Issuing a number and appending it, or not, keeps an inbox in order.
LEMMA AppendIsOrdered ==
  ASSUME NEW inbox \in Seq(Entry), NEW drained \in Nat, NEW issued \in Nat,
         NEW entry \in Entry, entry.sequence = issued + 1,
         Ordered(inbox, drained, issued)
  PROVE  /\ Ordered(inbox, drained, issued + 1)
         /\ Ordered(Append(inbox, entry), drained, issued + 1)
<1> DEFINE longer == Append(inbox, entry)
<1>1. /\ Len(longer) = Len(inbox) + 1 /\ Len(inbox) \in Nat
      /\ \A i \in 1 .. Len(inbox) : longer[i] = inbox[i]
      /\ longer[Len(inbox) + 1] = entry
  BY AppendProperties, LenProperties
<1> HIDE DEF longer
<1>2. \A i \in 1 .. Len(inbox) : inbox[i].sequence \in drained + 1 .. issued
  BY DEF Ordered
<1>3. Ordered(inbox, drained, issued + 1)
  BY <1>2 DEF Ordered
<1>4. \A i \in 1 .. Len(longer) : longer[i].sequence \in drained + 1 .. issued + 1
  <2>1. drained + 1 <= issued + 1
    BY DEF Ordered
  <2>. QED
    BY <1>1, <1>2, <2>1
<1>5. ASSUME NEW i \in 1 .. Len(longer), NEW j \in 1 .. Len(longer), i < j
      PROVE  longer[i].sequence < longer[j].sequence
  <2>1. i \in 1 .. Len(inbox) /\ longer[i] = inbox[i]
    BY <1>1, <1>5
  <2>2. CASE j \in 1 .. Len(inbox)
    BY <1>1, <1>5, <2>1, <2>2 DEF Ordered
  <2>3. CASE j = Len(inbox) + 1
    BY <1>1, <1>2, <2>1, <2>3
  <2>. QED
    BY <1>1, <2>2, <2>3
<1>. QED
  BY <1>3, <1>4, <1>5 DEF Ordered, longer

(***************************************************************************)
(* Per-agent ordered delivery: no overflow, broadcast, drain or            *)
(* re-registration ever puts an older message behind a newer one or shows  *)
(* an agent a message older than one it has drained.                       *)
(***************************************************************************)
THEOREM DeliveryIsOrdered == Spec => []OrderedInboxes
<1>1. Init => OrderedInboxes
  BY EmptySeq DEF Init, OrderedInboxes
<1>2. CoreTypeOK /\ OrderedInboxes /\ [Next]_vars => OrderedInboxes'
  <2>1. SUFFICES ASSUME CoreTypeOK, OrderedInboxes, [Next]_vars
                 PROVE  OrderedInboxes'
    OBVIOUS
  <2>2. /\ next_sequence \in Nat
        /\ \A a \in Agents : /\ inboxes[a] \in Seq(Entry)
                             /\ last_drained[a] \in Nat
                             /\ Ordered(inboxes[a], last_drained[a], next_sequence)
    BY <2>1, OrderedIsPerInbox DEF CoreTypeOK
  <2>3. CASE UNCHANGED <<inboxes, last_drained, next_sequence>>
    BY <2>1, <2>3 DEF OrderedInboxes
  <2>4. ASSUME NEW a \in Agents, UnregisterAgent(a)
        PROVE  OrderedInboxes'
    <3>1. \A b \in Agents :
            Ordered(inboxes'[b], last_drained'[b], next_sequence')
      <4>1. next_sequence' = next_sequence /\ last_drained' = last_drained
            /\ inboxes' = [inboxes EXCEPT ![a] = <<>>]
        BY <2>4 DEF UnregisterAgent, seqVars
      <4>2. Ordered(<<>>, last_drained[a], next_sequence)
        BY <2>2, EmptySeq DEF Ordered
      <4>. QED
        BY <2>1, <2>2, <4>1, <4>2 DEF CoreTypeOK
    <3>. QED
      BY <3>1 DEF OrderedInboxes, Ordered
  <2>5. ASSUME NEW a \in Agents, NEW max \in 0 .. InboxLimit,
               DrainForAgent(a, max)
        PROVE  OrderedInboxes'
    <3>1. PICK count \in 1 .. Len(inboxes[a]) :
            /\ inboxes' = [inboxes EXCEPT
                             ![a] = SubSeq(inboxes[a], count + 1, Len(inboxes[a]))]
            /\ last_drained' =
                 [last_drained EXCEPT ![a] = inboxes[a][count].sequence]
      BY <2>1, <2>5, DrainSplitsInbox
    <3>2. Ordered(SubSeq(inboxes[a], count + 1, Len(inboxes[a])),
                  inboxes[a][count].sequence, next_sequence)
      <4>1. count \in 0 .. Len(inboxes[a]) /\ count > 0
        OBVIOUS
      <4>. QED
        BY <2>2, <4>1, SuffixIsOrdered
    <3>3. next_sequence' = next_sequence
      BY <2>5 DEF DrainForAgent, seqVars
    <3>4. \A b \in Agents :
            Ordered(inboxes'[b], last_drained'[b], next_sequence')
      BY <2>1, <2>2, <3>1, <3>2, <3>3 DEF CoreTypeOK
    <3>. QED
      BY <3>4 DEF OrderedInboxes, Ordered
  <2>6. ASSUME NEW e \in Envelopes, Accept(e), UNCHANGED <<inboxes, last_drained>>
        PROVE  OrderedInboxes'
    <3>1. next_sequence' = next_sequence + 1
      BY <2>6 DEF Accept
    <3>2. ASSUME NEW a \in Agents
          PROVE  Ordered(inboxes[a], last_drained[a], next_sequence + 1)
      <4>1. [sequence |-> next_sequence + 1, envelope |-> e] \in Entry
        BY <2>2, BusAssumption DEF Entry
      <4>. QED
        BY <2>2, <4>1, AppendIsOrdered
    <3>. QED
      BY <2>6, <3>1, <3>2 DEF OrderedInboxes, Ordered
  <2>7. ASSUME NEW e \in Envelopes, PublishDelivered(e)
        PROVE  OrderedInboxes'
    <3> DEFINE targets == IF e.scope = "direct" THEN {e.to} ELSE registered
               entry == [sequence |-> next_sequence', envelope |-> e]
    <3>1. targets \in SUBSET Agents /\ Deliver(e, targets) /\ Accept(e)
      BY <2>1, <2>7 DEF PublishDelivered, CoreTypeOK
    <3>2. next_sequence' = next_sequence + 1 /\ last_drained' = last_drained
      BY <3>1 DEF Accept, Deliver
    <3>3. entry \in Entry /\ entry.sequence = next_sequence + 1
      BY <2>2, <3>2, BusAssumption DEF Entry
    <3> HIDE DEF targets
    <3>4. ASSUME NEW a \in Agents
          PROVE  Ordered(inboxes'[a], last_drained[a], next_sequence + 1)
      <4>1. CASE a \notin targets
        <5>1. a \in Agents \ targets /\ next_sequence' \in Nat
          BY <2>2, <3>2, <4>1
        <5>2. inboxes'[a] = inboxes[a]
          BY <2>1, <3>1, <5>1, DeliverInboxes
        <5>. QED
          BY <2>2, <3>3, <5>2, AppendIsOrdered
      <4>2. CASE a \in targets
        <5>1. PICK kept \in Seq(Entry) :
                /\ \/ kept = inboxes[a]
                   \/ inboxes[a] # <<>> /\ kept = Tail(inboxes[a])
                /\ inboxes'[a] = Append(kept, entry)
          BY <2>1, <2>2, <3>1, <3>2, <4>2, DeliverInboxes
        <5>2. Ordered(kept, last_drained[a], next_sequence)
          <6>1. CASE kept = inboxes[a]
            BY <2>2, <6>1
          <6>2. CASE inboxes[a] # <<>> /\ kept = Tail(inboxes[a])
            <7>1. kept = SubSeq(inboxes[a], 1 + 1, Len(inboxes[a]))
              BY <2>2, <6>2, TailIsSubSeq
            <7>2. 1 \in 0 .. Len(inboxes[a])
              BY <2>2, <6>2, EmptySeq, LenProperties
            <7>. QED
              BY <2>2, <7>1, <7>2, SuffixIsOrdered
          <6>. QED
            BY <5>1, <6>1, <6>2
        <5>. QED
          BY <2>2, <3>3, <5>1, <5>2, AppendIsOrdered
      <4>. QED
        BY <4>1, <4>2
    <3>. QED
      BY <3>2, <3>4 DEF OrderedInboxes, Ordered
  <2>8. ASSUME NEW e \in Envelopes, Publish(e)
        PROVE  OrderedInboxes'
    BY <2>3, <2>6, <2>7, <2>8
       DEF Publish, PublishInvalid, PublishDuplicate, PublishConflict,
           PublishUnknownTarget, inboxVars, seqVars
  <2>9. ASSUME NEW a \in Agents, RegisterAgent(a)
        PROVE  OrderedInboxes'
    BY <2>3, <2>9 DEF RegisterAgent, seqVars
  <2>10. CASE UNCHANGED vars
    BY <2>3, <2>10 DEF vars, inboxVars, seqVars
  <2>. QED
    BY <2>1, <2>4, <2>5, <2>8, <2>9, <2>10 DEF Next
<1>. QED
  BY <1>1, <1>2, CoreTypes, PTL DEF Spec
-----------------------------------------------------------------------------
(* Optimistic locking                                                      *)

\* While nothing is evicted the version of a key counts its patches.
VersionsCount == \A k \in Keys : Len(bases[k]) = context[k]

LockInv == VersionsCount /\ OptimisticLocking

LockedInv == context_evictions_total = 0 => LockInv

\* A patch that evicts nothing extends the history of its key by the version
\* the key had.
LEMMA PatchKeepsVersions ==
  ASSUME CoreTypeOK, LockInv, context_evictions_total' = 0,
         NEW e \in Envelopes, e.kind = "context_patch", ~PatchRejected(e),
         ApplyContextPatch(e)
  PROVE  VersionsCount' /\ OptimisticLocking'
<1> DEFINE k == e.key
           evicts == /\ context[k] = 0
                     /\ Cardinality(PresentKeys) >= ContextLimit
                     /\ context_order # <<>>
           victim == IF evicts THEN Head(context_order) ELSE NoKey
<1>1. /\ k \in Keys /\ e.expected_version = context[k]
      /\ context \in [Keys -> Nat] /\ bases \in [Keys -> Seq(Nat)]
      /\ context_evictions_total \in Nat
  BY BusAssumption DEF Envelope, PatchRejected, CoreTypeOK
<1>2. evicts => context[victim] = 0
  BY <1>1 DEF ApplyContextPatch
<1>3. NoKey \notin Keys
  BY BusAssumption
<1>4. context' = [context EXCEPT ![k] = @ + 1]
  <2>1. context' = [x \in Keys |-> CASE x = k -> context[k] + 1
                                     [] x = victim /\ x # k -> 0
                                     [] OTHER -> context[x]]
    BY DEF ApplyContextPatch
  <2>2. ASSUME NEW x \in Keys, x = victim PROVE context[x] = 0
    BY <1>2, <1>3, <2>2
  <2> HIDE DEF k, victim
  <2>. QED
    BY <1>1, <2>1, <2>2
<1>5. bases' = [bases EXCEPT ![k] = Append(@, context[k])]
  BY <1>1 DEF ApplyContextPatch
<1>6. Len(bases[k]) = context[k] /\ bases[k] \in Seq(Nat)
  BY <1>1 DEF LockInv, VersionsCount
<1> HIDE DEF k
<1>7. /\ Len(bases'[k]) = context[k] + 1
      /\ bases'[k][context[k] + 1] = context[k]
      /\ \A n \in 1 .. context[k] : bases'[k][n] = bases[k][n]
  BY <1>1, <1>5, <1>6, AppendProperties
<1>8. VersionsCount'
  BY <1>1, <1>4, <1>5, <1>7 DEF VersionsCount, LockInv
<1>9. ASSUME NEW x \in Keys, NEW n \in 1 .. Len(bases'[x])
      PROVE  bases'[x][n] = n - 1
  <2>1. CASE x # k
    BY <1>1, <1>5, <1>9, <2>1 DEF LockInv, OptimisticLocking
  <2>2. CASE x = k
    <3>1. n \in 1 .. context[k] + 1 /\ context[k] \in Nat
      BY <1>1, <1>7, <1>9, <2>2
    <3>2. \A m \in 1 .. context[k] : bases[k][m] = m - 1
      BY <1>1, <1>6 DEF LockInv, OptimisticLocking
    <3>3. CASE n = context[k] + 1
      BY <1>7, <2>2, <3>1, <3>3
    <3>4. CASE n # context[k] + 1
      <4>1. n \in 1 .. context[k]
        BY <3>1, <3>4
      <4>. QED
        BY <1>7, <2>2, <3>2, <4>1
    <3>. QED
      BY <3>3, <3>4
  <2>. QED
    BY <2>1, <2>2
<1>. QED
  BY <1>8, <1>9 DEF OptimisticLocking

\* The shared context changes by accepted envelopes only.
LEMMA ContextSteps ==
  ASSUME [Next]_vars
  PROVE  UNCHANGED contextVars \/ \E e \in Envelopes : Accept(e)
<1>1. CASE UNCHANGED vars
  BY <1>1 DEF vars
<1>2. ASSUME NEW a \in Agents, RegisterAgent(a) \/ UnregisterAgent(a)
      PROVE  UNCHANGED contextVars
  BY <1>2 DEF RegisterAgent, UnregisterAgent
<1>3. ASSUME NEW a \in Agents, NEW max \in 0 .. InboxLimit,
             DrainForAgent(a, max)
      PROVE  UNCHANGED contextVars
  BY <1>3 DEF DrainForAgent
<1>4. ASSUME NEW e \in Envelopes, Publish(e)
      PROVE  UNCHANGED contextVars \/ Accept(e)
  BY <1>4 DEF Publish, PublishInvalid, PublishDuplicate, PublishConflict,
              PublishUnknownTarget, PublishDelivered
<1>. QED
  BY <1>1, <1>2, <1>3, <1>4 DEF Next

(***************************************************************************)
(* Up to the first eviction the expected versions of publish's context     *)
(* patches do lock optimistically: no update of an entry is lost.          *)
(***************************************************************************)
THEOREM LockedUntilEvicted == Spec => []LockedUntilEviction
<1>1. Init => LockedInv
  <2> SUFFICES ASSUME Init PROVE VersionsCount /\ OptimisticLocking
    BY DEF LockedInv, LockInv
  <2>1. \A k \in Keys : bases[k] = <<>> /\ context[k] = 0
    BY DEF Init
  <2>. QED
    BY <2>1, EmptySeq DEF VersionsCount, OptimisticLocking
<1>2. CoreTypeOK /\ LockedInv /\ [Next]_vars => LockedInv'
  <2> SUFFICES ASSUME CoreTypeOK, LockedInv, [Next]_vars,
                      context_evictions_total' = 0
               PROVE  VersionsCount' /\ OptimisticLocking'
    BY DEF LockedInv, LockInv
  <2>1. CASE UNCHANGED contextVars
    <3>1. LockInv
      BY <2>1 DEF contextVars, LockedInv
    <3>. QED
      BY <2>1, <3>1 DEF contextVars, LockInv, VersionsCount, OptimisticLocking
  <2>2. ASSUME NEW e \in Envelopes, Accept(e), e.kind = "context_patch"
        PROVE  VersionsCount' /\ OptimisticLocking'
    <3>1. ApplyContextPatch(e) /\ ~PatchRejected(e)
      BY <2>2 DEF Accept, PatchStep
    <3>2. context_evictions_total = 0
      BY <3>1 DEF ApplyContextPatch, CoreTypeOK
    <3>. QED
      BY <2>2, <3>1, <3>2, PatchKeepsVersions DEF LockedInv
  <2>3. ASSUME NEW e \in Envelopes, Accept(e), e.kind # "context_patch"
        PROVE  UNCHANGED contextVars
    BY <2>3 DEF Accept, PatchStep
  <2>. QED
    BY <2>1, <2>2, <2>3, ContextSteps
<1>3. LockedInv => LockedUntilEviction
  BY DEF LockedInv, LockInv, LockedUntilEviction
<1>. QED
  BY <1>1, <1>2, <1>3, CoreTypes, PTL DEF Spec

\* A context with room for every key has room for each new one.
LEMMA RoomForNewKey ==
  ASSUME CoreTypeOK, Cardinality(Keys) <= ContextLimit,
         NEW k \in Keys, context[k] = 0
  PROVE  ~(Cardinality(PresentKeys) >= ContextLimit)
<1>1. PresentKeys \subseteq Keys \ {k}
  BY DEF PresentKeys
<1>2. /\ IsFiniteSet(Keys) /\ IsFiniteSet(Keys \ {k})
      /\ Cardinality(Keys \ {k}) = Cardinality(Keys) - 1
  BY BusAssumption, FS_RemoveElement
<1>3. /\ IsFiniteSet(PresentKeys)
      /\ Cardinality(PresentKeys) <= Cardinality(Keys \ {k})
  BY <1>1, <1>2, FS_Subset
<1>4. /\ Cardinality(Keys) \in Nat /\ Cardinality(PresentKeys) \in Nat
      /\ ContextLimit \in Nat
  BY <1>2, <1>3, FS_CardinalityType, LimitsPositive
<1>. QED
  BY <1>2, <1>3, <1>4

(***************************************************************************)
(* When max_context_entries is not below the number of keys in use, the    *)
(* expected versions of publish's context patches do lock optimistically:  *)
(* no update of a shared-context entry is ever lost.                       *)
(***************************************************************************)
THEOREM NoLostUpdate ==
  ASSUME Cardinality(Keys) <= ContextLimit
  PROVE  Spec => []OptimisticLocking
<1> DEFINE Unevicted == context_evictions_total = 0
<1>1. Init => Unevicted
  BY DEF Init
<1>2. CoreTypeOK /\ Unevicted /\ [Next]_vars => Unevicted'
  <2> SUFFICES ASSUME CoreTypeOK, Unevicted, [Next]_vars PROVE Unevicted'
    OBVIOUS
  <2>1. CASE UNCHANGED contextVars
    BY <2>1 DEF contextVars
  <2>2. ASSUME NEW e \in Envelopes, Accept(e) PROVE Unevicted'
    <3>1. CASE e.kind = "context_patch"
      <4>1. ApplyContextPatch(e) /\ e.key \in Keys
        BY <2>2, <3>1, BusAssumption DEF Accept, PatchStep, Envelope
      <4>2. context[e.key] = 0 => ~(Cardinality(PresentKeys) >= ContextLimit)
        BY <4>1, RoomForNewKey
      <4>. QED
        BY <4>1, <4>2 DEF ApplyContextPatch
    <3>2. CASE e.kind # "context_patch"
      BY <2>1, <2>2, <3>2 DEF Accept, PatchStep
    <3>. QED
      BY <3>1, <3>2
  <2>. QED
    BY <2>1, <2>2, ContextSteps
<1>3. Unevicted /\ LockedUntilEviction => OptimisticLocking
  BY DEF LockedUntilEviction
<1>. QED
  BY <1>1, <1>2, <1>3, CoreTypes, LockedUntilEvicted, PTL DEF Spec

-----------------------------------------------------------------------------
(* The bus implements OrderedMailboxes: initial states map to initial      *)
(* states and every step maps to a step of the mailboxes or to none.       *)

\* The sequence numbers of an inbox, and of what is left or added to it.
LEMMA NumbersOfInbox ==
  ASSUME NEW inbox \in Seq(Entry)
  PROVE  /\ SequenceNumbers(inbox) \in Seq(Nat)
         /\ Len(SequenceNumbers(inbox)) = Len(inbox)
         /\ \A i \in 1 .. Len(inbox) :
              SequenceNumbers(inbox)[i] = inbox[i].sequence
<1>1. \A i \in 1 .. Len(inbox) : inbox[i] \in Entry
  BY ElementOfSeq
<1>2. \A i \in 1 .. Len(inbox) : inbox[i].sequence \in Nat
  BY <1>1 DEF Entry
<1>3. SequenceNumbers(inbox) \in [1 .. Len(inbox) -> Nat] /\ Len(inbox) \in Nat
  BY <1>2, LenProperties DEF SequenceNumbers
<1>. QED
  BY <1>3, FunctionIsSeq DEF SequenceNumbers

\* The numbers of the end of an inbox are the end of its numbers.
LEMMA NumbersOfSuffix ==
  ASSUME NEW inbox \in Seq(Entry), NEW n \in 0 .. Len(inbox)
  PROVE  SequenceNumbers(SubSeq(inbox, n + 1, Len(inbox)))
           = SubSeq(SequenceNumbers(inbox), n + 1, Len(inbox))
<1> DEFINE rest == SubSeq(inbox, n + 1, Len(inbox))
           numbers == SequenceNumbers(inbox)
           tail == SubSeq(numbers, n + 1, Len(numbers))
<1>1. /\ numbers \in Seq(Nat) /\ Len(numbers) = Len(inbox)
      /\ \A i \in 1 .. Len(inbox) : numbers[i] = inbox[i].sequence
      /\ Len(inbox) \in Nat
  BY NumbersOfInbox, LenProperties
<1>2. /\ rest \in Seq(Entry) /\ Len(rest) = Len(inbox) - n
      /\ \A i \in 1 .. Len(inbox) - n : rest[i] = inbox[n + i]
  BY SuffixProperties
<1>3. /\ tail \in Seq(Nat) /\ Len(tail) = Len(inbox) - n
      /\ \A i \in 1 .. Len(inbox) - n : tail[i] = numbers[n + i]
  BY <1>1, SuffixProperties
<1> HIDE DEF rest, numbers, tail
<1>4. /\ SequenceNumbers(rest) \in Seq(Nat)
      /\ Len(SequenceNumbers(rest)) = Len(rest)
      /\ \A i \in 1 .. Len(rest) : SequenceNumbers(rest)[i] = rest[i].sequence
  BY <1>2, NumbersOfInbox
<1>5. ASSUME NEW i \in 1 .. Len(tail)
      PROVE  SequenceNumbers(rest)[i] = tail[i]
  <2>1. i \in 1 .. Len(inbox) - n /\ n + i \in 1 .. Len(inbox)
    BY SMTT(30), <1>1, <1>3
  <2>. QED
    BY <1>1, <1>2, <1>3, <1>4, <2>1
<1>6. SequenceNumbers(rest) = tail
  BY <1>2, <1>3, <1>4, <1>5, SeqEqual
<1>. QED
  BY <1>1, <1>6 DEF rest, numbers, tail

\* The numbers of a longer inbox are its numbers and one more.
LEMMA NumbersOfAppend ==
  ASSUME NEW inbox \in Seq(Entry), NEW entry \in Entry
  PROVE  SequenceNumbers(Append(inbox, entry))
           = Append(SequenceNumbers(inbox), entry.sequence)
<1> DEFINE longer == Append(inbox, entry)
           numbers == SequenceNumbers(inbox)
           sum == Append(numbers, entry.sequence)
<1>1. /\ numbers \in Seq(Nat) /\ Len(numbers) = Len(inbox)
      /\ \A i \in 1 .. Len(inbox) : numbers[i] = inbox[i].sequence
      /\ Len(inbox) \in Nat /\ entry.sequence \in Nat
  BY NumbersOfInbox, LenProperties DEF Entry
<1>2. /\ longer \in Seq(Entry) /\ Len(longer) = Len(inbox) + 1
      /\ \A i \in 1 .. Len(inbox) : longer[i] = inbox[i]
      /\ longer[Len(inbox) + 1] = entry
  BY AppendProperties
<1>3. /\ sum \in Seq(Nat) /\ Len(sum) = Len(inbox) + 1
      /\ \A i \in 1 .. Len(inbox) : sum[i] = numbers[i]
      /\ sum[Len(inbox) + 1] = entry.sequence
  BY <1>1, AppendProperties
<1> HIDE DEF longer, numbers, sum
<1>4. /\ SequenceNumbers(longer) \in Seq(Nat)
      /\ Len(SequenceNumbers(longer)) = Len(longer)
      /\ \A i \in 1 .. Len(longer) : SequenceNumbers(longer)[i] = longer[i].sequence
  BY <1>2, NumbersOfInbox
<1>5. ASSUME NEW i \in 1 .. Len(sum)
      PROVE  SequenceNumbers(longer)[i] = sum[i]
  <2>1. CASE i \in 1 .. Len(inbox)
    BY <1>1, <1>2, <1>3, <1>4, <2>1
  <2>2. CASE i = Len(inbox) + 1
    BY <1>1, <1>2, <1>3, <1>4, <2>2
  <2>. QED
    BY <1>1, <1>3, <2>1, <2>2
<1>6. SequenceNumbers(longer) = sum
  BY <1>2, <1>3, <1>4, <1>5, SeqEqual
<1>. QED
  BY <1>6 DEF longer, numbers, sum

-----------------------------------------------------------------------------
(* Steps                                                                   *)

\* Steps that leave the inboxes and the counter alone are not seen.
LEMMA StutterMaps ==
  ASSUME UNCHANGED <<inboxes, last_drained, next_sequence>>
  PROVE  UNCHANGED Mailboxes!mailboxVars
BY DEF Mailboxes!mailboxVars, Waiting

\* Delivering to a set of targets sends to their mailboxes.
LEMMA DeliverMaps ==
  ASSUME CoreTypeOK, NEW e \in Envelopes, NEW targets \in SUBSET Agents,
         next_sequence' = next_sequence + 1, Deliver(e, targets)
  PROVE  Mailboxes!Send(targets)
<1> DEFINE entry == [sequence |-> next_sequence', envelope |-> e]
           kept(a) == IF a \in Overflowing(targets) THEN Tail(inboxes[a])
                      ELSE inboxes[a]
<1>1. entry \in Entry /\ entry.sequence = next_sequence + 1
  BY BusAssumption DEF Entry, CoreTypeOK
<1>2. \A a \in Agents : inboxes[a] \in Seq(Entry)
  BY DEF CoreTypeOK
<1>3. /\ inboxes' = [a \in Agents |-> IF a \notin targets THEN inboxes[a]
                                      ELSE Append(kept(a), entry)]
      /\ last_drained' = last_drained
  BY DEF Deliver
<1>4. ASSUME NEW a \in targets
      PROVE  /\ kept(a) \in Seq(Entry)
             /\ SequenceNumbers(kept(a)) = Mailboxes!Room(Waiting[a])
  <2>1. /\ Waiting[a] = SequenceNumbers(inboxes[a])
        /\ Len(Waiting[a]) = Len(inboxes[a])
        /\ Waiting[a] \in Seq(Nat)
    BY <1>2, NumbersOfInbox DEF Waiting
  <2>2. CASE Len(inboxes[a]) >= InboxLimit
    <3>1. inboxes[a] # <<>> /\ 1 \in 0 .. Len(inboxes[a])
      BY <1>2, <2>2, LimitsPositive, EmptySeq, LenProperties
    <3>2. /\ kept(a) = Tail(inboxes[a])
          /\ Mailboxes!Room(Waiting[a]) = Tail(Waiting[a])
      BY <2>1, <2>2 DEF Overflowing, Mailboxes!Room
    <3>3. Waiting[a] # <<>>
      BY <2>1, <3>1, EmptySeq
    <3>4. /\ Tail(inboxes[a]) = SubSeq(inboxes[a], 1 + 1, Len(inboxes[a]))
          /\ Tail(Waiting[a]) = SubSeq(Waiting[a], 1 + 1, Len(inboxes[a]))
          /\ Tail(inboxes[a]) \in Seq(Entry)
      BY <1>2, <2>1, <3>1, <3>3, TailIsSubSeq, HeadTailProperties
    <3>5. SequenceNumbers(SubSeq(inboxes[a], 1 + 1, Len(inboxes[a])))
            = SubSeq(SequenceNumbers(inboxes[a]), 1 + 1, Len(inboxes[a]))
      BY <1>2, <3>1, NumbersOfSuffix
    <3>. QED
      BY <2>1, <3>2, <3>4, <3>5
  <2>3. CASE ~(Len(inboxes[a]) >= InboxLimit)
    BY <1>2, <2>1, <2>3 DEF Overflowing, Mailboxes!Room
  <2>. QED
    BY <2>2, <2>3
<1> HIDE DEF entry, kept
<1>5. ASSUME NEW a \in Agents
      PROVE  SequenceNumbers(inboxes'[a]) =
               IF a \in targets
               THEN Append(Mailboxes!Room(Waiting[a]), next_sequence + 1)
               ELSE Waiting[a]
  <2>1. CASE a \in targets
    <3>1. inboxes'[a] = Append(kept(a), entry)
      BY <1>3, <2>1
    <3>. QED
      BY <1>1, <1>4, <2>1, <3>1, NumbersOfAppend
  <2>2. CASE a \notin targets
    BY <1>3, <2>2 DEF Waiting
  <2>. QED
    BY <2>1, <2>2
<1>6. Waiting' = [a \in Agents |->
                    IF a \in targets
                    THEN Append(Mailboxes!Room(Waiting[a]), next_sequence + 1)
                    ELSE Waiting[a]]
  BY <1>5 DEF Waiting
<1>. QED
  BY <1>3, <1>6 DEF Mailboxes!Send

\* A drain is a receive, an unregistration closes the mailbox.
LEMMA DrainMaps ==
  ASSUME CoreTypeOK, NEW a \in Agents, NEW max \in 0 .. InboxLimit,
         DrainForAgent(a, max)
  PROVE  \E count \in 1 .. Len(Waiting[a]) : Mailboxes!Receive(a, count)
<1>1. PICK count \in 1 .. Len(inboxes[a]) :
        /\ inboxes' = [inboxes EXCEPT
                         ![a] = SubSeq(inboxes[a], count + 1, Len(inboxes[a]))]
        /\ last_drained' =
             [last_drained EXCEPT ![a] = inboxes[a][count].sequence]
        /\ inboxes[a] \in Seq(Entry)
  BY DrainSplitsInbox
<1>2. /\ Waiting[a] = SequenceNumbers(inboxes[a])
      /\ Len(Waiting[a]) = Len(inboxes[a])
      /\ Waiting[a][count] = inboxes[a][count].sequence
  BY <1>1, NumbersOfInbox DEF Waiting
<1>3. SequenceNumbers(SubSeq(inboxes[a], count + 1, Len(inboxes[a])))
        = SubSeq(Waiting[a], count + 1, Len(Waiting[a]))
  <2>1. count \in 0 .. Len(inboxes[a])
    OBVIOUS
  <2>. QED
    BY <1>1, <1>2, <2>1, NumbersOfSuffix
<1>4. Waiting' = [Waiting EXCEPT
                    ![a] = SubSeq(Waiting[a], count + 1, Len(Waiting[a]))]
  BY <1>1, <1>3 DEF Waiting, CoreTypeOK
<1>5. next_sequence' = next_sequence
  BY DEF DrainForAgent, seqVars
<1>. QED
  BY <1>1, <1>2, <1>4, <1>5 DEF Mailboxes!Receive

\* Removing an agent closes its mailbox.
LEMMA UnregisterMaps ==
  ASSUME CoreTypeOK, NEW a \in Agents, UnregisterAgent(a)
  PROVE  Mailboxes!Close(a)
<1>1. /\ inboxes' = [inboxes EXCEPT ![a] = <<>>]
      /\ last_drained' = last_drained /\ next_sequence' = next_sequence
  BY DEF UnregisterAgent, seqVars
<1>2. SequenceNumbers(<<>>) = <<>>
  BY EmptySeq DEF SequenceNumbers
<1>3. Waiting' = [Waiting EXCEPT ![a] = <<>>]
  BY <1>1, <1>2 DEF Waiting, CoreTypeOK
<1>. QED
  BY <1>1, <1>3 DEF Mailboxes!Close

\* A publish sends to the mailboxes it delivers to, to none if it is refused
\* after its sequence number was issued, and is not seen if refused earlier.
LEMMA PublishMaps ==
  ASSUME CoreTypeOK, NEW e \in Envelopes, Publish(e)
  PROVE  \/ UNCHANGED Mailboxes!mailboxVars
         \/ \E targets \in SUBSET Agents : Mailboxes!Send(targets)
<1>1. CASE PublishInvalid(e) \/ PublishDuplicate(e) \/ PublishConflict(e)
  BY <1>1, StutterMaps
     DEF PublishInvalid, PublishDuplicate, PublishConflict, inboxVars, seqVars
<1>2. CASE PublishUnknownTarget(e)
  <2>1. /\ next_sequence' = next_sequence + 1
        /\ inboxes' = inboxes /\ last_drained' = last_drained
    BY <1>2 DEF PublishUnknownTarget, Accept, inboxVars
  <2>2. Mailboxes!Send({})
    BY <2>1 DEF Mailboxes!Send, Waiting
  <2>. QED
    BY <2>2
<1>3. CASE PublishDelivered(e)
  <2> DEFINE targets == IF e.scope = "direct" THEN {e.to} ELSE registered
  <2>1. targets \in SUBSET Agents /\ Deliver(e, targets)
        /\ next_sequence' = next_sequence + 1
    BY <1>3 DEF PublishDelivered, Accept, CoreTypeOK
  <2> HIDE DEF targets
  <2>. QED
    BY <2>1, DeliverMaps
<1>. QED
  BY <1>1, <1>2, <1>3 DEF Publish

(***************************************************************************)
(* Seen through its inboxes the bus is a set of ordered, bounded mailboxes *)
(* that lose their oldest message only when they are full: whatever else   *)
(* publish does, it adds at the end of a mailbox, and an agent receives    *)
(* from the front.                                                         *)
(***************************************************************************)
THEOREM BusImplementsMailboxes == Spec => ImplementsMailboxes
<1>1. Init => Mailboxes!Init
  <2>1. SequenceNumbers(<<>>) = <<>>
    BY EmptySeq DEF SequenceNumbers
  <2>. QED
    BY <2>1 DEF Init, Mailboxes!Init, Waiting
<1>2. CoreTypeOK /\ [Next]_vars => [Mailboxes!Next]_Mailboxes!mailboxVars
  <2>1. SUFFICES ASSUME CoreTypeOK, [Next]_vars
                 PROVE  Mailboxes!Next \/ UNCHANGED Mailboxes!mailboxVars
    OBVIOUS
  <2>2. ASSUME NEW a \in Agents, RegisterAgent(a)
        PROVE  UNCHANGED Mailboxes!mailboxVars
    BY <2>2, StutterMaps DEF RegisterAgent, seqVars
  <2>3. ASSUME NEW a \in Agents, UnregisterAgent(a)
        PROVE  Mailboxes!Next
    BY <2>1, <2>3, UnregisterMaps DEF Mailboxes!Next
  <2>4. ASSUME NEW a \in Agents, NEW max \in 0 .. InboxLimit,
               DrainForAgent(a, max)
        PROVE  Mailboxes!Next
    BY <2>1, <2>4, DrainMaps DEF Mailboxes!Next
  <2>5. ASSUME NEW e \in Envelopes, Publish(e)
        PROVE  Mailboxes!Next \/ UNCHANGED Mailboxes!mailboxVars
    BY <2>1, <2>5, PublishMaps DEF Mailboxes!Next
  <2>6. CASE UNCHANGED vars
    BY <2>6, StutterMaps DEF vars, inboxVars, seqVars
  <2>. QED
    BY <2>1, <2>2, <2>3, <2>4, <2>5, <2>6 DEF Next
<1>. QED
  BY <1>1, <1>2, CoreTypes, PTL DEF Spec, ImplementsMailboxes, Mailboxes!Spec
=============================================================================
