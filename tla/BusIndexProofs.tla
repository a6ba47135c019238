-------------------------- MODULE BusIndexProofs --------------------------
(***************************************************************************)
(* What the bus keeps beside its collections and updates by hand in every  *)
(* operation: the orders of the shared context, the dead-letter queues and *)
(* the counts per correlation are what a scan of the collection would      *)
(* give, for any sets of agents, ids and keys and any limits. Every one of *)
(* these indexes is a filter of another sequence, so the steps are         *)
(* followed with the lemmas about Only.                                    *)
(***************************************************************************)
EXTENDS CoordinationBusProofs

-----------------------------------------------------------------------------
(* The shared context                                                      *)

\* The recency order lists the stored keys as they were last written; every
\* other order is a filter of it.
ContextInv ==
  /\ context_order \in Seq(Keys)
  /\ Increasing(context_order, written_at)
  /\ ToSet(context_order) = PresentKeys
  /\ \A k \in PresentKeys : written_at[k] <= next_sequence
  /\ Cardinality(PresentKeys) <= ContextLimit
  /\ delegate_context_order = Only(context_order, DelegateKeys)
  /\ context_order_by_correlation =
       [c \in Corrs |-> Only(context_order, KeysOf(c))]
  /\ delegate_context_order_by_correlation =
       [c \in Corrs |-> Only(delegate_context_order, KeysOf(c))]

\* Taking a key out of an order, where it is in it, is filtering it away.
LEMMA UnlinkIsOnly ==
  ASSUME NEW s \in Seq(Keys), IsInjective(s), NEW k, NEW test \in BOOLEAN,
         ~test => k \notin ToSet(s)
  PROVE  UnlinkIf(test, s, k) = Only(s, Keys \ {k})
<1>1. CASE test
  BY <1>1, RemoveFirstIsOnly DEF UnlinkIf
<1>2. CASE ~test
  <2>1. ToSet(s) \subseteq Keys \ {k}
    BY <1>2, ToSetProperties
  <2>. QED
    BY <1>2, <2>1, OnlyAll DEF UnlinkIf
<1>. QED
  BY <1>1, <1>2

\* Taking two keys out of their correlation queues and putting the second at
\* the end of its new one.
Relinked(s, q, victim, k, corr) ==
  LET kept == Only(s, KeysOf(q) \cap (Keys \ {victim, k}))
  IN IF corr = q THEN Append(kept, k) ELSE kept

\* What Relink makes of the filters of an order is Relinked.
LEMMA RelinkIsOnly ==
  ASSUME CoreTypeOK, NEW s \in Seq(Keys), IsInjective(s),
         NEW victim \in Keys \cup {NoKey}, NEW k \in Keys \cup {NoKey},
         NEW corr, NEW q \in Corrs
  PROVE  Relink([c \in Corrs |-> Only(s, KeysOf(c))], victim, k, corr)[q] =
           Relinked(s, q, victim, k, corr)
<1> DEFINE t == Only(s, KeysOf(q))
           u == UnlinkIf(CorrOfKey(victim) = q, t, victim)
           v == UnlinkIf(CorrOfKey(k) = q, u, k)
<1>1. NoKey \notin Keys /\ NoCorr \notin Corrs
  BY BusAssumption
<1>2. \A x \in Keys \cup {NoKey} : CorrOfKey(x) # q => x \notin KeysOf(q)
  BY <1>1 DEF CorrOfKey, KeysOf
<1>3. /\ t \in Seq(Keys) /\ IsInjective(t)
      /\ ToSet(t) = ToSet(s) \cap KeysOf(q)
  BY OnlyType, OnlyInjective, OnlyRange
<1>4. Relink([c \in Corrs |-> Only(s, KeysOf(c))], victim, k, corr)[q] =
        IF corr = q THEN Append(v, k) ELSE v
  BY DEF Relink
<1> HIDE DEF t, u, v
<1>5. u = Only(t, Keys \ {victim})
  <2>1. ~(CorrOfKey(victim) = q) => victim \notin ToSet(t)
    BY <1>2, <1>3
  <2>. QED
    BY <1>3, <2>1, UnlinkIsOnly DEF u
<1>6. /\ u \in Seq(Keys) /\ IsInjective(u)
      /\ ToSet(u) = ToSet(t) \cap (Keys \ {victim})
  BY <1>3, <1>5, OnlyType, OnlyInjective, OnlyRange
<1>7. v = Only(u, Keys \ {k})
  <2>1. ~(CorrOfKey(k) = q) => k \notin ToSet(u)
    BY <1>2, <1>3, <1>6
  <2>. QED
    BY <1>6, <2>1, UnlinkIsOnly DEF v
<1>8. v = Only(t, (Keys \ {victim}) \cap (Keys \ {k}))
  BY <1>3, <1>5, <1>7, OnlyOnly
<1>9. v = Only(s, KeysOf(q) \cap ((Keys \ {victim}) \cap (Keys \ {k})))
  BY <1>8, OnlyOnly DEF t
<1>10. (Keys \ {victim}) \cap (Keys \ {k}) = Keys \ {victim, k}
  OBVIOUS
<1>. QED
  BY <1>4, <1>9, <1>10 DEF Relinked

\* Whether an order increases depends on the times of its elements only.
LEMMA IncreasingAgrees ==
  ASSUME NEW X, NEW s \in Seq(X), NEW W, NEW V, Increasing(s, W),
         \A x \in ToSet(s) : V[x] = W[x]
  PROVE  Increasing(s, V)
<1>1. \A i \in 1 .. Len(s) : s[i] \in ToSet(s)
  BY ToSetProperties
<1>. QED
  BY <1>1 DEF Increasing

\* What the invariant says of the recency order.
LEMMA OrderFacts ==
  ASSUME CoreTypeOK, ContextInv
  PROVE  /\ context_order \in Seq(Keys) /\ IsInjective(context_order)
         /\ ToSet(context_order) = PresentKeys
         /\ delegate_context_order \in Seq(Keys)
         /\ IsInjective(delegate_context_order)
         /\ ToSet(delegate_context_order) = PresentKeys \cap DelegateKeys
         /\ IsFiniteSet(PresentKeys)
         /\ Cardinality(PresentKeys) = Len(context_order)
<1>1. /\ context_order \in Seq(Keys) /\ Increasing(context_order, written_at)
      /\ ToSet(context_order) = PresentKeys
      /\ delegate_context_order = Only(context_order, DelegateKeys)
  BY DEF ContextInv
<1>2. \A x \in Keys : written_at[x] \in Nat
  BY DEF CoreTypeOK
<1>3. IsInjective(context_order)
  BY <1>1, <1>2, IncreasingIsInjective
<1>. QED
  BY <1>1, <1>3, OnlyType, OnlyInjective, OnlyRange, LengthIsCardinality

\* The key that makes room for e, or NoKey.
Victim(e) ==
  IF /\ context[e.key] = 0
     /\ Cardinality(PresentKeys) >= ContextLimit
     /\ context_order # <<>>
  THEN Head(context_order) ELSE NoKey

DelegateVictim(e) == IF Victim(e) \in DelegateKeys THEN Victim(e) ELSE NoKey

\* The keys a patch leaves where they are.
Others(e) == Keys \ {Victim(e), e.key}

\* The key that a patch evicts is the oldest of a full context, and not its
\* own.
LEMMA VictimFacts ==
  ASSUME CoreTypeOK, ContextInv, NEW e \in Envelopes, e.kind = "context_patch"
  PROVE  /\ e.key \in Keys /\ e.correlation_id \in Corrs \cup {NoCorr}
         /\ NoKey \notin Keys /\ NoCorr \notin Corrs
         /\ Victim(e) \in PresentKeys \cup {NoKey}
         /\ Victim(e) # e.key
         /\ Victim(e) # NoKey =>
              /\ context[e.key] = 0
              /\ Cardinality(PresentKeys) = ContextLimit
              /\ \A x \in PresentKeys \ {Victim(e)} :
                   written_at[Victim(e)] < written_at[x]
<1>1. /\ e.key \in Keys /\ e.correlation_id \in Corrs \cup {NoCorr}
      /\ NoKey \notin Keys /\ NoCorr \notin Corrs
  BY BusAssumption DEF Envelope
<1>2. /\ context_order \in Seq(Keys) /\ IsInjective(context_order)
      /\ ToSet(context_order) = PresentKeys /\ IsFiniteSet(PresentKeys)
  BY OrderFacts
<1>3. CASE Victim(e) = NoKey
  BY <1>1, <1>3
<1>4. CASE Victim(e) # NoKey
  <2>1. /\ context[e.key] = 0 /\ Cardinality(PresentKeys) >= ContextLimit
        /\ context_order # <<>> /\ Victim(e) = Head(context_order)
    BY <1>4 DEF Victim
  <2>2. Victim(e) = context_order[1] /\ Victim(e) \in PresentKeys
    BY <1>2, <2>1, TailIsOnly
  <2>3. Victim(e) # e.key
    BY <2>1, <2>2 DEF PresentKeys
  <2>4. Cardinality(PresentKeys) = ContextLimit
    <3>1. Cardinality(PresentKeys) \in Nat
      BY <1>2, FS_CardinalityType
    <3>. QED
      BY <2>1, <3>1, LimitsPositive DEF ContextInv
  <2>5. ASSUME NEW x \in PresentKeys \ {Victim(e)}
        PROVE  written_at[Victim(e)] < written_at[x]
    <3>1. PICK i \in 1 .. Len(context_order) : x = context_order[i]
      BY <1>2, ToSetProperties
    <3>2. i # 1 /\ Len(context_order) \in Nat
      BY <1>2, <2>2, <2>5, <3>1, LenProperties
    <3>3. 1 \in 1 .. Len(context_order) /\ 1 < i
      BY <3>1, <3>2
    <3>4. Increasing(context_order, written_at)
      BY DEF ContextInv
    <3>. QED
      BY <2>2, <3>1, <3>3, <3>4 DEF Increasing
  <2>. QED
    BY <1>1, <2>1, <2>2, <2>3, <2>4, <2>5
<1>. QED
  BY <1>3, <1>4

\* The patch in terms of what it keeps.
LEMMA PatchContext ==
  ASSUME CoreTypeOK, ContextInv, NEW e \in Envelopes, e.kind = "context_patch",
         ApplyContextPatch(e)
  PROVE  /\ \A x \in Others(e) : /\ context'[x] = context[x]
                                 /\ written_at'[x] = written_at[x]
                                 /\ context_correlation_by_key'[x] =
                                      context_correlation_by_key[x]
         /\ context'[e.key] = context[e.key] + 1
         /\ context_correlation_by_key'[e.key] = e.correlation_id
         /\ written_at'[e.key] = next_sequence + 1
         /\ Victim(e) # NoKey => /\ context'[Victim(e)] = 0
                                 /\ context_correlation_by_key'[Victim(e)] = NoCorr
         /\ PresentKeys' = (PresentKeys \cap Others(e)) \cup {e.key}
         /\ \A q \in Corrs :
              /\ Others(e) \cap (KeysOf(q))' = Others(e) \cap KeysOf(q)
              /\ e.key \in (KeysOf(q))' <=> e.correlation_id = q
              /\ Victim(e) \notin (KeysOf(q))'
<1> DEFINE k == e.key
           victim == Victim(e)
<1>1. /\ k \in Keys /\ NoKey \notin Keys /\ NoCorr \notin Corrs
      /\ victim \in PresentKeys \cup {NoKey} /\ victim # k
  BY VictimFacts
<1>2. /\ context' = [x \in Keys |-> CASE x = k -> context[k] + 1
                                      [] x = victim /\ x # k -> 0
                                      [] OTHER -> context[x]]
      /\ context_correlation_by_key' =
           [x \in Keys |-> CASE x = k -> e.correlation_id
                             [] x = victim /\ x # k -> NoCorr
                             [] OTHER -> context_correlation_by_key[x]]
      /\ written_at' = [written_at EXCEPT ![k] = next_sequence + 1]
  BY DEF ApplyContextPatch, Victim
<1>3. written_at \in [Keys -> Nat] /\ context \in [Keys -> Nat]
  BY DEF CoreTypeOK
<1>4. Others(e) = Keys \ {victim, k}
  BY DEF Others
<1> HIDE DEF k, victim
<1>5. \A x \in Others(e) : /\ context'[x] = context[x]
                           /\ written_at'[x] = written_at[x]
                           /\ context_correlation_by_key'[x] =
                                context_correlation_by_key[x]
  <2>1. SUFFICES ASSUME NEW x \in Others(e)
                 PROVE  /\ context'[x] = context[x]
                        /\ written_at'[x] = written_at[x]
                        /\ context_correlation_by_key'[x] =
                             context_correlation_by_key[x]
    OBVIOUS
  <2>2. x \in Keys /\ x # k /\ x # victim
    BY <1>4
  <2>3. context'[x] = context[x]
    BY <1>2, <2>2
  <2>4. context_correlation_by_key'[x] = context_correlation_by_key[x]
    BY <1>2, <2>2
  <2>5. written_at'[x] = written_at[x]
    BY <1>2, <1>3, <2>2
  <2>. QED
    BY <2>3, <2>4, <2>5
<1>6. /\ context'[k] = context[k] + 1
      /\ context_correlation_by_key'[k] = e.correlation_id
      /\ written_at'[k] = next_sequence + 1
  BY <1>1, <1>2, <1>3
<1>7. ASSUME victim # NoKey
      PROVE  victim \in Keys /\ context'[victim] = 0
             /\ context_correlation_by_key'[victim] = NoCorr
  <2>1. victim \in Keys
    BY <1>1, <1>7 DEF PresentKeys
  <2>2. context'[victim] = 0
    BY <1>1, <1>2, <2>1
  <2>. QED
    BY <1>1, <1>2, <2>1, <2>2
<1>8. PresentKeys' = (PresentKeys \cap Others(e)) \cup {k}
  <2>1. PresentKeys' = {x \in Keys : context'[x] # 0}
    BY DEF PresentKeys
  <2>2. k \in PresentKeys'
    BY <1>1, <1>3, <1>6, <2>1
  <2>3. victim \notin PresentKeys'
    BY <1>1, <1>7, <2>1
  <2>4. \A x \in Others(e) : x \in PresentKeys' <=> x \in PresentKeys
    BY <1>4, <1>5, <2>1 DEF PresentKeys
  <2>5. PresentKeys' \subseteq Keys
    BY <2>1
  <2>. QED
    BY <1>1, <1>4, <2>2, <2>3, <2>4, <2>5
<1>9. ASSUME NEW q \in Corrs
      PROVE  /\ Others(e) \cap (KeysOf(q))' = Others(e) \cap KeysOf(q)
             /\ k \in (KeysOf(q))' <=> e.correlation_id = q
             /\ victim \notin (KeysOf(q))'
  <2>1. (KeysOf(q))' = {x \in Keys : context_correlation_by_key'[x] = q}
    BY DEF KeysOf
  <2>2. \A x \in Others(e) : x \in (KeysOf(q))' <=> x \in KeysOf(q)
    BY <1>4, <1>5, <2>1 DEF KeysOf
  <2>3. victim \notin (KeysOf(q))'
    BY <1>1, <1>7, <2>1
  <2>4. k \in (KeysOf(q))' <=> e.correlation_id = q
    BY <1>1, <1>6, <2>1
  <2>. QED
    BY <2>2, <2>3, <2>4
<1>. QED
  BY <1>5, <1>6, <1>7, <1>8, <1>9 DEF k, victim

\* The recency order after a patch.
LEMMA PatchOrder ==
  ASSUME CoreTypeOK, ContextInv, NEW e \in Envelopes, e.kind = "context_patch",
         ApplyContextPatch(e)
  PROVE  context_order' = Append(Only(context_order, Others(e)), e.key)
<1> DEFINE k == e.key
           victim == Victim(e)
           isNew == context[k] = 0
           evicts == /\ isNew
                     /\ Cardinality(PresentKeys) >= ContextLimit
                     /\ context_order # <<>>
           order == IF evicts THEN Tail(context_order) ELSE context_order
<1>1. context_order' = Append(UnlinkIf(~isNew, order, k), k)
  BY DEF ApplyContextPatch
<1>2. /\ context_order \in Seq(Keys) /\ IsInjective(context_order)
      /\ ToSet(context_order) = PresentKeys
  BY OrderFacts
<1>3. /\ k \in Keys /\ NoKey \notin Keys
      /\ victim \in PresentKeys \cup {NoKey} /\ victim # k
  BY VictimFacts
<1>4. Others(e) = Keys \ {victim, k}
  BY DEF Others
<1>5. victim = IF evicts THEN Head(context_order) ELSE NoKey
  BY DEF Victim
<1> HIDE DEF k, victim
<1>6. CASE evicts
  <2>1. UnlinkIf(~isNew, order, k) = Tail(context_order)
    BY <1>6 DEF UnlinkIf
  <2>2. Tail(context_order) = Only(context_order, Keys \ {victim})
    BY <1>2, <1>5, <1>6, TailIsOnly
  <2>3. k \notin PresentKeys
    BY <1>6 DEF PresentKeys
  <2>4. ToSet(context_order) \cap (Keys \ {victim}) =
          ToSet(context_order) \cap Others(e)
    BY <1>2, <1>4, <2>3
  <2>5. Only(context_order, Keys \ {victim}) = Only(context_order, Others(e))
    BY <1>2, <2>4, OnlyAgrees
  <2>. QED
    BY <1>1, <2>1, <2>2, <2>5 DEF k
<1>7. CASE ~evicts
  <2>1. order = context_order /\ victim = NoKey /\ Others(e) = Keys \ {k}
    BY <1>3, <1>4, <1>5, <1>7
  <2>2. ~(~isNew) => k \notin ToSet(context_order)
    BY <1>2 DEF PresentKeys
  <2>3. UnlinkIf(~isNew, context_order, k) = Only(context_order, Keys \ {k})
    BY <1>2, <2>2, UnlinkIsOnly
  <2>. QED
    BY <1>1, <2>1, <2>3 DEF k
<1>. QED
  BY <1>6, <1>7

\* The order of the delegate keys after a patch.
LEMMA PatchDelegateOrder ==
  ASSUME CoreTypeOK, ContextInv, NEW e \in Envelopes, e.kind = "context_patch",
         ApplyContextPatch(e)
  PROVE  delegate_context_order' =
           LET rest == Only(delegate_context_order, Others(e))
           IN IF e.key \in DelegateKeys THEN Append(rest, e.key) ELSE rest
<1> DEFINE k == e.key
           dv == DelegateVictim(e)
           D == delegate_context_order
           left == UnlinkIf(dv # NoKey, D, dv)
<1>1. delegate_context_order' =
        IF k \in DelegateKeys THEN Append(RemoveFirst(left, k), k) ELSE left
  BY DEF ApplyContextPatch, DelegateVictim, Victim
<1>2. /\ D \in Seq(Keys) /\ IsInjective(D)
      /\ ToSet(D) = PresentKeys \cap DelegateKeys
  BY OrderFacts
<1>3. /\ k \in Keys /\ NoKey \notin Keys /\ DelegateKeys \subseteq Keys
      /\ Victim(e) \in PresentKeys \cup {NoKey}
  BY VictimFacts, BusAssumption
<1>4. Others(e) = Keys \ {Victim(e), k} /\ dv = IF Victim(e) \in DelegateKeys
                                                THEN Victim(e) ELSE NoKey
  BY DEF Others, DelegateVictim
<1> HIDE DEF k, dv, D, left
<1>5. left = Only(D, Keys \ {dv})
  <2>1. ~(dv # NoKey) => dv \notin ToSet(D)
    BY <1>2, <1>3
  <2>. QED
    BY <1>2, <2>1, UnlinkIsOnly DEF left
<1>6. /\ left \in Seq(Keys) /\ IsInjective(left)
  BY <1>2, <1>5, OnlyType, OnlyInjective
<1>7. CASE k \in DelegateKeys
  <2>1. RemoveFirst(left, k) = Only(left, Keys \ {k})
    BY <1>6, RemoveFirstIsOnly
  <2>2. Only(left, Keys \ {k}) = Only(D, (Keys \ {dv}) \cap (Keys \ {k}))
    BY <1>2, <1>5, OnlyOnly
  <2>3. ToSet(D) \cap ((Keys \ {dv}) \cap (Keys \ {k})) = ToSet(D) \cap Others(e)
    BY <1>2, <1>3, <1>4
  <2>4. Only(D, (Keys \ {dv}) \cap (Keys \ {k})) = Only(D, Others(e))
    BY <1>2, <2>3, OnlyAgrees
  <2>. QED
    BY <1>1, <1>7, <2>1, <2>2, <2>4 DEF k, D
<1>8. CASE k \notin DelegateKeys
  <2>1. ToSet(D) \cap (Keys \ {dv}) = ToSet(D) \cap Others(e)
    BY <1>2, <1>3, <1>4, <1>8
  <2>2. left = Only(D, Others(e))
    BY <1>2, <1>5, <2>1, OnlyAgrees
  <2>. QED
    BY <1>1, <1>8, <2>2 DEF k, D
<1>. QED
  BY <1>7, <1>8

\* The per-correlation orders after a patch.
LEMMA PatchIndex ==
  ASSUME CoreTypeOK, ContextInv, NEW e \in Envelopes, e.kind = "context_patch",
         ApplyContextPatch(e), NEW q \in Corrs
  PROVE  /\ context_order_by_correlation'[q] = Only(context_order', (KeysOf(q))')
         /\ delegate_context_order_by_correlation'[q] =
              Only(delegate_context_order', (KeysOf(q))')
<1> DEFINE k == e.key
           O == context_order
           D == delegate_context_order
           dv == DelegateVictim(e)
           G == Others(e)
           K == KeysOf(q)
           L == (KeysOf(q))'
           corr == e.correlation_id
<1>1. /\ k \in Keys /\ NoKey \notin Keys /\ NoCorr \notin Corrs
      /\ DelegateKeys \subseteq Keys
      /\ Victim(e) \in PresentKeys \cup {NoKey} /\ PresentKeys \subseteq Keys
  BY VictimFacts, BusAssumption DEF PresentKeys
<1>2. /\ O \in Seq(Keys) /\ IsInjective(O) /\ ToSet(O) = PresentKeys
      /\ D \in Seq(Keys) /\ IsInjective(D)
      /\ ToSet(D) = PresentKeys \cap DelegateKeys
  BY OrderFacts
<1>3. /\ G = Keys \ {Victim(e), k}
      /\ dv = IF Victim(e) \in DelegateKeys THEN Victim(e) ELSE NoKey
  BY DEF Others, DelegateVictim
<1>4. G \cap L = G \cap K /\ (k \in L <=> corr = q) /\ Victim(e) \notin L
  BY PatchContext
<1>5. O' = Append(Only(O, G), k)
  BY PatchOrder
<1>6. D' = IF k \in DelegateKeys THEN Append(Only(D, G), k) ELSE Only(D, G)
  BY PatchDelegateOrder
<1>7. /\ context_order_by_correlation = [c \in Corrs |-> Only(O, KeysOf(c))]
      /\ delegate_context_order_by_correlation =
           [c \in Corrs |-> Only(D, KeysOf(c))]
  BY DEF ContextInv
<1>8. context_order_by_correlation' =
        Relink(context_order_by_correlation, Victim(e), k, corr)
  BY DEF ApplyContextPatch, Victim
<1>9. delegate_context_order_by_correlation' =
        IF k \in DelegateKeys
        THEN Relink(delegate_context_order_by_correlation, dv, k, corr)
        ELSE Relink(delegate_context_order_by_correlation, dv, NoKey, NoCorr)
  BY DEF ApplyContextPatch, Victim, DelegateVictim
<1>10. K \subseteq Keys /\ dv \in Keys \cup {NoKey} /\ Victim(e) \in Keys \cup {NoKey}
       /\ k \in Keys \cup {NoKey} /\ NoKey \in Keys \cup {NoKey}
  BY <1>1, <1>3 DEF KeysOf
<1>11. ASSUME NEW s \in Seq(Keys)
       PROVE  Only(Append(Only(s, G), k), L) =
                IF corr = q THEN Append(Only(s, G \cap K), k) ELSE Only(s, G \cap K)
  <2>2. Only(Append(Only(s, G), k), L) =
          IF k \in L THEN Append(Only(Only(s, G), L), k) ELSE Only(Only(s, G), L)
    <3> DEFINE r == Only(s, G)
    <3>1. r \in Seq(Keys) /\ k \in Keys
      BY <1>1, OnlyType
    <3> HIDE DEF r, k, L
    <3>2. Only(Append(r, k), L) =
            IF k \in L THEN Append(Only(r, L), k) ELSE Only(r, L)
      BY <3>1, OnlyAppend
    <3>. QED
      BY <3>2 DEF r
  <2>3. Only(Only(s, G), L) = Only(s, G \cap L)
    BY OnlyOnly
  <2>. QED
    BY <1>4, <2>2, <2>3
<1> HIDE DEF k, O, D, dv, G, K, L, corr
<1>12. context_order_by_correlation'[q] = Only(O', L)
  <2>1. Relink([c \in Corrs |-> Only(O, KeysOf(c))], Victim(e), k, corr)[q] =
          Relinked(O, q, Victim(e), k, corr)
    BY <1>2, <1>10, RelinkIsOnly
  <2>2. KeysOf(q) \cap (Keys \ {Victim(e), k}) = G \cap K
    BY <1>3 DEF K
  <2>. QED
    BY <1>2, <1>5, <1>7, <1>8, <1>11, <2>1, <2>2 DEF Relinked
<1>13. delegate_context_order_by_correlation'[q] = Only(D', L)
  <2>1. CASE k \in DelegateKeys
    <3>1. Relink([c \in Corrs |-> Only(D, KeysOf(c))], dv, k, corr)[q] =
            Relinked(D, q, dv, k, corr)
      BY <1>2, <1>10, RelinkIsOnly
    <3>2. ToSet(D) \cap (K \cap (Keys \ {dv, k})) = ToSet(D) \cap (G \cap K)
      BY <1>1, <1>2, <1>3
    <3>3. Only(D, KeysOf(q) \cap (Keys \ {dv, k})) = Only(D, G \cap K)
      BY <1>2, <3>2, OnlyAgrees DEF K
    <3>. QED
      BY <1>2, <1>6, <1>7, <1>9, <1>11, <2>1, <3>1, <3>3 DEF Relinked
  <2>2. CASE k \notin DelegateKeys
    <3>1. Relink([c \in Corrs |-> Only(D, KeysOf(c))], dv, NoKey, NoCorr)[q] =
            Only(D, KeysOf(q) \cap (Keys \ {dv, NoKey}))
      <4>1. Relink([c \in Corrs |-> Only(D, KeysOf(c))], dv, NoKey, NoCorr)[q] =
              Relinked(D, q, dv, NoKey, NoCorr)
        <5> DEFINE none == NoKey
        <5>1. none \in Keys \cup {NoKey}
          OBVIOUS
        <5> HIDE DEF none
        <5>2. Relink([c \in Corrs |-> Only(D, KeysOf(c))], dv, none, NoCorr)[q] =
                Relinked(D, q, dv, none, NoCorr)
          BY <1>2, <1>10, <5>1, RelinkIsOnly
        <5>. QED
          BY <5>2 DEF none
      <4>. QED
        BY <1>1, <4>1 DEF Relinked
    <3>2. ToSet(D) \cap (K \cap (Keys \ {dv, NoKey})) = ToSet(D) \cap (G \cap L)
      BY <1>1, <1>2, <1>3, <1>4, <2>2
    <3>3. Only(D, KeysOf(q) \cap (Keys \ {dv, NoKey})) = Only(D, G \cap L)
      BY <1>2, <3>2, OnlyAgrees DEF K
    <3>4. Only(Only(D, G), L) = Only(D, G \cap L)
      BY <1>2, OnlyOnly
    <3>. QED
      BY <1>6, <1>7, <1>9, <2>2, <3>1, <3>3, <3>4
  <2>. QED
    BY <2>1, <2>2
<1>. QED
  BY <1>12, <1>13 DEF O, D, L

\* A patch that is applied leaves every order as ContextInv has it.
LEMMA PatchKeepsContext ==
  ASSUME CoreTypeOK, ContextInv, NEW e \in Envelopes, e.kind = "context_patch",
         ApplyContextPatch(e), next_sequence' = next_sequence + 1
  PROVE  ContextInv'
<1> DEFINE k == e.key
           O == context_order
           G == Others(e)
           rest == Only(O, G)
<1>1. /\ k \in Keys /\ O \in Seq(Keys) /\ IsInjective(O)
      /\ ToSet(O) = PresentKeys /\ IsFiniteSet(PresentKeys)
      /\ Cardinality(PresentKeys) = Len(O) /\ PresentKeys \subseteq Keys
  BY VictimFacts, OrderFacts DEF PresentKeys
<1>2. /\ Increasing(O, written_at) /\ next_sequence \in Nat
      /\ \A x \in PresentKeys : written_at[x] <= next_sequence
      /\ Cardinality(PresentKeys) <= ContextLimit
      /\ \A x \in Keys : written_at[x] \in Nat /\ context[x] \in Nat
  BY DEF ContextInv, CoreTypeOK
<1>3. O' = Append(rest, k)
  BY PatchOrder
<1>4. /\ \A x \in G : written_at'[x] = written_at[x]
      /\ written_at'[k] = next_sequence + 1
      /\ PresentKeys' = (PresentKeys \cap G) \cup {k}
  BY PatchContext
<1>5. G \subseteq Keys /\ G = Keys \ {Victim(e), k}
  BY DEF Others
<1> HIDE DEF G
<1>6. rest \in Seq(Keys) /\ ToSet(rest) = PresentKeys \cap G
  BY <1>1, OnlyType, OnlyRange
<1>7. Increasing(rest, written_at)
  BY <1>1, <1>2, OnlyIncreasing
<1> HIDE DEF k, rest
<1>8. O' \in Seq(Keys) /\ ToSet(O') = PresentKeys'
  <2>1. Append(rest, k) \in Seq(Keys) /\ ToSet(Append(rest, k)) = ToSet(rest) \cup {k}
    BY <1>1, <1>6, AppendProperties, ToSetProperties
  <2>. QED
    BY <1>3, <1>4, <1>6, <2>1
<1>9. Increasing(O', written_at')
  <2>1. Increasing(rest, written_at')
    BY <1>4, <1>6, <1>7, IncreasingAgrees
  <2>2. \A y \in ToSet(rest) : written_at'[y] < written_at'[k]
    <3>1. \A y \in ToSet(rest) : y \in Keys /\ y \in PresentKeys /\ y \in G
      BY <1>1, <1>6
    <3>. QED
      BY <1>2, <1>4, <3>1
  <2>3. Increasing(Append(rest, k), written_at')
    BY <1>1, <1>6, <2>1, <2>2, IncreasingAppend
  <2>. QED
    BY <1>3, <2>3
<1>10. \A x \in PresentKeys' : written_at'[x] <= next_sequence'
  <2>1. \A x \in PresentKeys \cap G : written_at'[x] <= next_sequence'
    BY <1>1, <1>2, <1>4
  <2>2. written_at'[k] <= next_sequence'
    BY <1>2, <1>4
  <2>. QED
    BY <1>4, <2>1, <2>2
<1>11. Cardinality(PresentKeys') <= ContextLimit
  <2>1. Cardinality(PresentKeys) \in Nat
    BY <1>1, FS_CardinalityType
  <2>2. CASE k \in PresentKeys
    <3>1. PresentKeys' \subseteq PresentKeys
      BY <1>4, <2>2
    <3>2. Cardinality(PresentKeys') <= Cardinality(PresentKeys)
          /\ Cardinality(PresentKeys') \in Nat
      BY <1>1, <3>1, FS_Subset, FS_CardinalityType
    <3>. QED
      BY <1>2, <2>1, <3>2, LimitsPositive
  <2>3. CASE k \notin PresentKeys /\ Victim(e) # NoKey
    <3>1. Victim(e) \in PresentKeys
      BY <2>3, VictimFacts
    <3>2. PresentKeys \cap G = PresentKeys \ {Victim(e)}
      BY <1>1, <1>5, <2>3
    <3>3. /\ IsFiniteSet(PresentKeys \ {Victim(e)})
          /\ Cardinality(PresentKeys \ {Victim(e)}) = Cardinality(PresentKeys) - 1
      BY <1>1, <3>1, FS_RemoveElement
    <3>4. k \notin PresentKeys \ {Victim(e)}
      BY <2>3
    <3>5. Cardinality((PresentKeys \ {Victim(e)}) \cup {k}) =
            Cardinality(PresentKeys \ {Victim(e)}) + 1
      BY <3>3, <3>4, FS_AddElement, Zenon
    <3>6. PresentKeys' = (PresentKeys \ {Victim(e)}) \cup {k}
      BY <1>4, <3>2
    <3>7. Cardinality(PresentKeys') = Cardinality(PresentKeys \ {Victim(e)}) + 1
      BY <3>5, <3>6
    <3>. QED
      BY <1>2, <2>1, <3>3, <3>7, LimitsPositive
  <2>4. CASE k \notin PresentKeys /\ Victim(e) = NoKey
    <3>1. context[k] = 0
      BY <1>1, <2>4 DEF PresentKeys
    <3>2. \/ ~(Cardinality(PresentKeys) >= ContextLimit)
          \/ O = <<>> \/ O[1] = NoKey
      <4>1. O # <<>> => Head(O) = O[1]
        BY <1>1, TailIsOnly
      <4>. QED
        BY <2>4, <3>1, <4>1 DEF Victim, k
    <3>3. O # <<>> => O[1] # NoKey
      <4>1. O # <<>> => O[1] \in Keys
        BY <1>1, HeadTailProperties, TailIsOnly
      <4>. QED
        BY <4>1, BusAssumption
    <3>4. O = <<>> => Cardinality(PresentKeys) = 0
      BY <1>1, EmptySeq
    <3>5. Cardinality(PresentKeys) + 1 <= ContextLimit
      BY <2>1, <3>2, <3>3, <3>4, LimitsPositive
    <3>6. PresentKeys' \subseteq PresentKeys \cup {k}
      BY <1>4
    <3>7. /\ IsFiniteSet(PresentKeys \cup {k})
          /\ Cardinality(PresentKeys \cup {k}) = Cardinality(PresentKeys) + 1
      BY <1>1, <2>4, FS_AddElement, Zenon
    <3>8. /\ Cardinality(PresentKeys') <= Cardinality(PresentKeys \cup {k})
          /\ Cardinality(PresentKeys') \in Nat
      BY <3>6, <3>7, FS_Subset, FS_CardinalityType
    <3>. QED
      BY <2>1, <3>5, <3>7, <3>8, LimitsPositive
  <2>. QED
    BY <2>2, <2>3, <2>4
<1>12. delegate_context_order' = Only(O', DelegateKeys)
  <2>1. Only(Append(rest, k), DelegateKeys) =
          IF k \in DelegateKeys THEN Append(Only(rest, DelegateKeys), k)
          ELSE Only(rest, DelegateKeys)
    BY <1>1, <1>6, OnlyAppend
  <2>2. Only(rest, DelegateKeys) = Only(O, G \cap DelegateKeys)
    BY <1>1, OnlyOnly DEF rest
  <2>3. Only(delegate_context_order, G) = Only(O, DelegateKeys \cap G)
    BY <1>1, OnlyOnly DEF ContextInv
  <2>4. DelegateKeys \cap G = G \cap DelegateKeys
    OBVIOUS
  <2>5. delegate_context_order' =
          IF k \in DelegateKeys THEN Append(Only(delegate_context_order, G), k)
          ELSE Only(delegate_context_order, G)
    BY PatchDelegateOrder DEF k, G
  <2>. QED
    BY <1>3, <2>1, <2>2, <2>3, <2>4, <2>5
<1>13. /\ context_order_by_correlation' =
            [c \in Corrs |-> Only(O', (KeysOf(c))')]
       /\ delegate_context_order_by_correlation' =
            [c \in Corrs |-> Only(delegate_context_order', (KeysOf(c))')]
  <2>1. \A q \in Corrs :
          /\ context_order_by_correlation'[q] = Only(O', (KeysOf(q))')
          /\ delegate_context_order_by_correlation'[q] =
               Only(delegate_context_order', (KeysOf(q))')
    BY PatchIndex
  <2>2. /\ context_order_by_correlation' =
             [c \in Corrs |-> context_order_by_correlation'[c]]
        /\ delegate_context_order_by_correlation' =
             [c \in Corrs |-> delegate_context_order_by_correlation'[c]]
    BY DEF ApplyContextPatch, Relink
  <2>. QED
    BY <2>1, <2>2
<1>14. /\ ContextLimit' = ContextLimit /\ DelegateKeys' = DelegateKeys
       /\ Corrs' = Corrs /\ Keys' = Keys
  BY DEF ContextLimit, AtLeastOne
<1>. QED
  BY <1>8, <1>9, <1>10, <1>11, <1>12, <1>13, <1>14 DEF ContextInv

\* A step takes one sequence number at most.
LEMMA SequenceGrows ==
  ASSUME [Next]_vars
  PROVE  next_sequence' \in {next_sequence, next_sequence + 1}
<1> USE DEF seqVars
<1>1. CASE UNCHANGED vars
  BY <1>1 DEF vars
<1>2. ASSUME NEW a \in Agents, RegisterAgent(a) \/ UnregisterAgent(a)
      PROVE  next_sequence' = next_sequence
  BY <1>2 DEF RegisterAgent, UnregisterAgent
<1>3. ASSUME NEW a \in Agents, NEW max \in 0 .. InboxLimit,
             DrainForAgent(a, max)
      PROVE  next_sequence' = next_sequence
  BY <1>3 DEF DrainForAgent
<1>4. ASSUME NEW e \in Envelopes, Publish(e)
      PROVE  next_sequence' \in {next_sequence, next_sequence + 1}
  BY <1>4 DEF Publish, PublishInvalid, PublishDuplicate, PublishConflict,
              PublishUnknownTarget, PublishDelivered, Accept
<1>. QED
  BY <1>1, <1>2, <1>3, <1>4 DEF Next

\* A step that leaves the context alone keeps its invariant.
LEMMA ContextQuiet ==
  ASSUME CoreTypeOK, ContextInv, UNCHANGED contextVars,
         next_sequence' \in {next_sequence, next_sequence + 1}
  PROVE  ContextInv'
<1>1. /\ context' = context /\ context_order' = context_order
      /\ delegate_context_order' = delegate_context_order
      /\ context_order_by_correlation' = context_order_by_correlation
      /\ delegate_context_order_by_correlation' =
           delegate_context_order_by_correlation
      /\ context_correlation_by_key' = context_correlation_by_key
      /\ written_at' = written_at
  BY DEF contextVars
<1>2. PresentKeys' = PresentKeys /\ \A c : (KeysOf(c))' = KeysOf(c)
  BY <1>1 DEF PresentKeys, KeysOf
<1>3. \A k \in PresentKeys : written_at'[k] <= next_sequence'
  <2>1. \A k \in PresentKeys : written_at[k] \in Nat /\ written_at[k] <= next_sequence
    BY DEF PresentKeys, CoreTypeOK, ContextInv
  <2>2. next_sequence \in Nat
    BY DEF CoreTypeOK
  <2>. QED
    BY <1>1, <2>1, <2>2
<1>4. ContextLimit' = ContextLimit
  BY DEF ContextLimit, AtLeastOne
<1>5. /\ context_order' \in Seq(Keys)
      /\ Increasing(context_order', written_at')
      /\ ToSet(context_order') = PresentKeys'
      /\ Cardinality(PresentKeys') <= ContextLimit'
      /\ delegate_context_order' = Only(context_order', DelegateKeys)
  BY <1>1, <1>2, <1>4 DEF ContextInv
<1>6. /\ context_order_by_correlation' =
           [c \in Corrs |-> Only(context_order', (KeysOf(c))')]
      /\ delegate_context_order_by_correlation' =
           [c \in Corrs |-> Only(delegate_context_order', (KeysOf(c))')]
  BY <1>1, <1>2 DEF ContextInv
<1>. QED
  BY <1>2, <1>3, <1>5, <1>6 DEF ContextInv

\* Every step of the bus keeps the invariant of the context.
LEMMA ContextStep ==
  ASSUME CoreTypeOK, ContextInv, [Next]_vars
  PROVE  ContextInv'
<1>1. CASE UNCHANGED contextVars
  BY <1>1, ContextQuiet, SequenceGrows
<1>2. ASSUME NEW e \in Envelopes, Accept(e)
      PROVE  ContextInv'
  <2>1. PatchStep(e) /\ next_sequence' = next_sequence + 1
    BY <1>2 DEF Accept
  <2>2. CASE e.kind = "context_patch"
    BY <2>1, <2>2, PatchKeepsContext DEF PatchStep
  <2>3. CASE e.kind # "context_patch"
    BY <2>1, <2>3, ContextQuiet DEF PatchStep
  <2>. QED
    BY <2>2, <2>3
<1>. QED
  BY <1>1, <1>2, ContextSteps

\* The empty context has it.
LEMMA ContextInit == Init => ContextInv
<1> SUFFICES ASSUME Init PROVE ContextInv
  OBVIOUS
<1>1. /\ \A k \in Keys : context[k] = 0
      /\ context_order = <<>> /\ delegate_context_order = <<>>
      /\ context_order_by_correlation = [c \in Corrs |-> <<>>]
      /\ delegate_context_order_by_correlation = [c \in Corrs |-> <<>>]
  BY DEF Init
<1>2. PresentKeys = {}
  BY <1>1 DEF PresentKeys
<1>3. Cardinality(PresentKeys) <= ContextLimit
  BY <1>2, FS_EmptySet, LimitsPositive
<1>4. \A T : Only(<<>>, T) = <<>>
  BY OnlyEmpty
<1>5. context_order \in Seq(Keys) /\ ToSet(context_order) = PresentKeys
  BY <1>1, <1>2, ToSetProperties, EmptySeq
<1>6. Increasing(context_order, written_at)
  BY <1>1, EmptySeq DEF Increasing
<1>. QED
  BY <1>1, <1>2, <1>3, <1>4, <1>5, <1>6 DEF ContextInv

\* The invariant of the context holds in every state of the bus.
LEMMA ContextInvariant == Spec => []ContextInv
BY ContextInit, ContextStep, CoreTypes, PTL DEF Spec

\* A reversed order has the same elements and the same length.
LEMMA ReverseProperties ==
  ASSUME NEW X, NEW s \in Seq(X)
  PROVE  /\ Reverse(s) \in Seq(X) /\ Len(Reverse(s)) = Len(s)
         /\ \A i \in 1 .. Len(s) : Reverse(s)[i] = s[(Len(s) - i) + 1]
         /\ ToSet(Reverse(s)) \subseteq ToSet(s)
<1>1. Len(s) \in Nat
  BY LenProperties
<1>2. \A i \in 1 .. Len(s) : (Len(s) - i) + 1 \in 1 .. Len(s)
  BY <1>1
<1>3. \A i \in 1 .. Len(s) : s[(Len(s) - i) + 1] \in X
  BY <1>2, ElementOfSeq
<1>4. Reverse(s) \in [1 .. Len(s) -> X]
  BY <1>3 DEF Reverse
<1>5. Reverse(s) \in Seq(X) /\ Len(Reverse(s)) = Len(s)
  BY <1>1, <1>4, FunctionIsSeq
<1>6. \A i \in 1 .. Len(s) : Reverse(s)[i] = s[(Len(s) - i) + 1]
  BY DEF Reverse
<1>7. ToSet(Reverse(s)) = {Reverse(s)[i] : i \in 1 .. Len(s)}
      /\ ToSet(s) = {s[i] : i \in 1 .. Len(s)}
  BY <1>5, ToSetProperties
<1>. QED
  BY <1>2, <1>5, <1>6, <1>7

\* A query for a whole order finds every key of it that is stored.
LEMMA WholePage ==
  ASSUME NEW s \in Seq(Keys), ToSet(s) \subseteq PresentKeys
  PROVE  EntriesRecent(s, 0, 0) = Reverse(s)
<1> DEFINE r == Reverse(s)
<1>1. r \in Seq(Keys) /\ Len(r) \in Nat /\ ToSet(r) \subseteq PresentKeys
  BY ReverseProperties, LenProperties
<1> HIDE DEF r
<1>2. Page(r, 0, 0) = SubSeq(r, 1, Len(r))
  BY <1>1 DEF Page, Take, Monus
<1>3. SubSeq(r, 1, Len(r)) = r
  BY <1>1, SubSeqFull
<1>4. Only(r, PresentKeys) = r
  BY <1>1, OnlyAll
<1>. QED
  BY <1>2, <1>3, <1>4 DEF EntriesRecent, r

\* The invariant says what ContextIndexesExact says, and more.
LEMMA ContextInvGivesIndexes ==
  ASSUME CoreTypeOK, ContextInv PROVE ContextIndexesExact
<1>1. /\ context_order \in Seq(Keys) /\ IsInjective(context_order)
      /\ ToSet(context_order) = PresentKeys
      /\ delegate_context_order \in Seq(Keys)
      /\ IsInjective(delegate_context_order)
      /\ ToSet(delegate_context_order) = PresentKeys \cap DelegateKeys
  BY OrderFacts
<1>2. Len(EntriesRecent(delegate_context_order, 0, 0)) =
        Cardinality(PresentKeys \cap DelegateKeys)
  <2>1. EntriesRecent(delegate_context_order, 0, 0) =
          Reverse(delegate_context_order)
    BY <1>1, WholePage
  <2>2. Len(Reverse(delegate_context_order)) = Len(delegate_context_order)
    BY <1>1, ReverseProperties
  <2>3. Cardinality(PresentKeys \cap DelegateKeys) = Len(delegate_context_order)
    BY <1>1, LengthIsCardinality
  <2>. QED
    BY <2>1, <2>2, <2>3
<1>. QED
  BY <1>1, <1>2 DEF ContextInv, ContextIndexesExact

(***************************************************************************)
(* The recency order of the shared context and the three orders derived    *)
(* from it list the stored keys exactly, in the same order: no patch,      *)
(* eviction, change of a key's correlation or rewrite of a delegate key    *)
(* leaves a stale or a missing place in one of them.                       *)
(***************************************************************************)
THEOREM ContextIndexesHold == Spec => []ContextIndexesExact
BY ContextInvariant, CoreTypes, ContextInvGivesIndexes, PTL

(***************************************************************************)
(* A stored key changes by one version at a time, and what a full context  *)
(* evicts for a new key is the stored key that has gone unwritten longest. *)
(***************************************************************************)
THEOREM OldestIsEvicted == Spec => EvictsOnlyOldest
<1> DEFINE Kept(k) == context'[k] \in {context[k], context[k] + 1}
           Evicted(k) ==
             /\ context'[k] = 0
             /\ \A other \in PresentKeys \ {k} : written_at[k] < written_at[other]
             /\ Cardinality(PresentKeys) = ContextLimit
<1>1. ASSUME CoreTypeOK, ContextInv, [Next]_vars, NEW k \in PresentKeys
      PROVE  Kept(k) \/ Evicted(k)
  <2>1. CASE UNCHANGED contextVars
    BY <2>1 DEF contextVars
  <2>2. ASSUME NEW e \in Envelopes, Accept(e)
        PROVE  Kept(k) \/ Evicted(k)
    <3>1. CASE e.kind # "context_patch"
      BY <2>2, <3>1 DEF Accept, PatchStep, contextVars
    <3>2. CASE e.kind = "context_patch"
      <4>1. ApplyContextPatch(e)
        BY <2>2, <3>2 DEF Accept, PatchStep
      <4>2. k \in Keys
        BY DEF PresentKeys
      <4>3. CASE k = e.key
        <5>1. context'[k] = context[k] + 1
          BY <1>1, <3>2, <4>1, <4>3, PatchContext
        <5>. QED
          BY <5>1
      <4>4. CASE k # e.key /\ k # Victim(e)
        <5>1. k \in Others(e)
          BY <4>2, <4>4 DEF Others
        <5>2. context'[k] = context[k]
          BY <1>1, <3>2, <4>1, <5>1, PatchContext
        <5>. QED
          BY <5>2
      <4>5. CASE k = Victim(e)
        <5>1. Victim(e) # NoKey
          BY <4>2, <4>5, BusAssumption
        <5>2. context'[k] = 0
          BY <1>1, <3>2, <4>1, <4>5, <5>1, PatchContext
        <5>3. /\ Cardinality(PresentKeys) = ContextLimit
              /\ \A x \in PresentKeys \ {k} : written_at[k] < written_at[x]
          BY <1>1, <3>2, <4>5, <5>1, VictimFacts
        <5>. QED
          BY <5>2, <5>3
      <4>. QED
        BY <4>3, <4>4, <4>5
    <3>. QED
      BY <3>1, <3>2
  <2>. QED
    BY <1>1, <2>1, <2>2, ContextSteps
<1>2. CoreTypeOK /\ ContextInv /\ [Next]_vars =>
        [\A k \in PresentKeys :
           \/ context'[k] \in {context[k], context[k] + 1}
           \/ /\ context'[k] = 0
              /\ \A other \in PresentKeys \ {k} : written_at[k] < written_at[other]
              /\ Cardinality(PresentKeys) = ContextLimit
        ]_context
  BY <1>1
<1>. QED
  BY <1>2, ContextInvariant, CoreTypes, PTL DEF Spec, EvictsOnlyOldest

-----------------------------------------------------------------------------
(* The dead-letter queues                                                  *)

DeadLetterQueues ==
  dead_letters_by_correlation = [c \in Corrs |-> OfCorrelation(dead_letters, c)]

\* Popping a queue once for every evicted letter of its correlation leaves
\* the letters of the correlation that are retained.
LEMMA PushKeepsQueues ==
  ASSUME CoreTypeOK, DeadLetterQueues, NEW letters \in Seq(DeadLetter),
         PushDeadLetters(letters)
  PROVE  DeadLetterQueues'
<1> DEFINE all == dead_letters \o letters
           excess == IF Len(all) > DeadLetterLimit
                     THEN Len(all) - DeadLetterLimit ELSE 0
           evicted == SubSeq(all, 1, excess)
           rest == SubSeq(all, excess + 1, Len(all))
           queue(c) == dead_letters_by_correlation[c] \o OfCorrelation(letters, c)
<1>1. dead_letters \in Seq(DeadLetter) /\ letters \in Seq(DeadLetter)
  BY DEF CoreTypeOK
<1>2. all \in Seq(DeadLetter) /\ Len(all) \in Nat
  BY <1>1, ConcatProperties, LenProperties
<1>3. /\ dead_letters' = rest
      /\ dead_letters_by_correlation' =
           [c \in Corrs |->
              SubSeq(queue(c), 1 + Len(OfCorrelation(evicted, c)), Len(queue(c)))]
  BY DEF PushDeadLetters
<1>4. excess \in 0 .. Len(all)
  BY <1>2, LimitsPositive
<1> HIDE DEF excess
<1>5. /\ evicted \in Seq(DeadLetter) /\ rest \in Seq(DeadLetter)
      /\ all = evicted \o rest
  <2> HIDE DEF all
  <2>. QED
    BY <1>2, <1>4, SplitAt
<1>6. ASSUME NEW c \in Corrs
      PROVE  SubSeq(queue(c), 1 + Len(OfCorrelation(evicted, c)), Len(queue(c)))
               = OfCorrelation(rest, c)
  <2> DEFINE T == LettersOf(c)
             p == Only(evicted, T)
             r == Only(rest, T)
  <2>1. queue(c) = Only(dead_letters, T) \o Only(letters, T)
    BY DEF DeadLetterQueues, OfCorrelation
  <2>2. Only(all, T) = Only(dead_letters, T) \o Only(letters, T)
    <3> HIDE DEF T
    <3>. QED
      BY <1>1, OnlyConcat
  <2>3. Only(all, T) = p \o r
    <3> HIDE DEF T, evicted, rest, all
    <3>1. Only(evicted \o rest, T) = Only(evicted, T) \o Only(rest, T)
      BY <1>5, OnlyConcat
    <3>. QED
      BY <1>5, <3>1
  <2>4. p \in Seq(DeadLetter) /\ r \in Seq(DeadLetter)
    <3> HIDE DEF T, evicted, rest
    <3>. QED
      BY <1>5, OnlyType
  <2>5. p = OfCorrelation(evicted, c) /\ r = OfCorrelation(rest, c)
    BY DEF OfCorrelation
  <2> HIDE DEF p, r, queue, T, evicted, rest, all
  <2>6. SubSeq(p \o r, 1 + Len(p), Len(p \o r)) = r
    BY <2>4, DropFirstPart
  <2>7. queue(c) = p \o r
    BY <2>1, <2>2, <2>3
  <2>. QED
    BY <2>5, <2>6, <2>7
<1> HIDE DEF queue, evicted, rest
<1>. QED
  BY <1>3, <1>6 DEF DeadLetterQueues

\* Recording one dead letter keeps the queues of the correlations exact.
LEMMA RejectKeepsQueues ==
  ASSUME CoreTypeOK, DeadLetterQueues, NEW e \in Envelopes,
         NEW reason \in Reasons, Reject(e, reason)
  PROVE  DeadLetterQueues'
<1>1. <<[envelope |-> e, reason |-> reason]>> \in Seq(DeadLetter)
  BY BusAssumption DEF DeadLetter
<1>2. PushDeadLetters(<<[envelope |-> e, reason |-> reason]>>)
  BY DEF Reject
<1>. QED
  BY <1>1, <1>2, PushKeepsQueues

-----------------------------------------------------------------------------
(* The counts per correlation                                              *)

CountsExact ==
  inbox_correlation_counts =
    [a \in Agents |-> [c \in Corrs |-> Len(Matching(a, c))]]

\* A count loses what the front of the inbox holds of its correlation.
LEMMA DecrementExact ==
  ASSUME NEW inbox \in Seq(Entry), NEW n \in 0 .. Len(inbox)
  PROVE  Decrement([c \in Corrs |-> Len(Only(inbox, EntriesOf(c)))],
                   SubSeq(inbox, 1, n))
           = [c \in Corrs |->
                Len(Only(SubSeq(inbox, n + 1, Len(inbox)), EntriesOf(c)))]
<1> DEFINE front == SubSeq(inbox, 1, n)
           rest == SubSeq(inbox, n + 1, Len(inbox))
<1>1. /\ front \in Seq(Entry) /\ rest \in Seq(Entry)
      /\ inbox = front \o rest
  BY SplitAt
<1> HIDE DEF front, rest
<1>2. ASSUME NEW c \in Corrs
      PROVE  Monus(Len(Only(inbox, EntriesOf(c))), Len(Only(front, EntriesOf(c))))
               = Len(Only(rest, EntriesOf(c)))
  <2> DEFINE T == EntriesOf(c)
             p == Only(front, T)
             r == Only(rest, T)
  <2> HIDE DEF T
  <2>1. Only(front \o rest, T) = p \o r
    BY <1>1, OnlyConcat
  <2>2. p \in Seq(Entry) /\ r \in Seq(Entry)
    BY <1>1, OnlyType
  <2> HIDE DEF p, r
  <2>3. Len(p \o r) = Len(p) + Len(r) /\ Len(p) \in Nat /\ Len(r) \in Nat
    BY <2>2, ConcatProperties, LenProperties
  <2>4. Monus(Len(p \o r), Len(p)) = Len(r)
    BY <2>3 DEF Monus
  <2>. QED
    BY <1>1, <2>1, <2>4 DEF p, r, T
<1>. QED
  BY <1>2 DEF Decrement, front, rest

\* A count gains what is put at the end of the inbox.
LEMMA IncrementExact ==
  ASSUME NEW inbox \in Seq(Entry), NEW entry \in Entry
  PROVE  Increment([c \in Corrs |-> Len(Only(inbox, EntriesOf(c)))], entry.envelope)
           = [c \in Corrs |-> Len(Only(Append(inbox, entry), EntriesOf(c)))]
<1>1. ASSUME NEW c \in Corrs
      PROVE  Len(Only(Append(inbox, entry), EntriesOf(c))) =
               IF c = entry.envelope.correlation_id
               THEN Len(Only(inbox, EntriesOf(c))) + 1
               ELSE Len(Only(inbox, EntriesOf(c)))
  <2>1. entry \in EntriesOf(c) <=> c = entry.envelope.correlation_id
    BY DEF EntriesOf
  <2> DEFINE T == EntriesOf(c)
             p == Only(inbox, T)
  <2> HIDE DEF T
  <2>2. Only(Append(inbox, entry), T) = IF entry \in T THEN Append(p, entry) ELSE p
    BY OnlyAppend
  <2>3. p \in Seq(Entry)
    BY OnlyType
  <2> HIDE DEF p
  <2>4. Len(Append(p, entry)) = Len(p) + 1
    BY <2>3, AppendProperties
  <2>. QED
    BY <2>1, <2>2, <2>4 DEF T, p
<1>. QED
  BY <1>1 DEF Increment

\* A delivery, with the overflows it causes, keeps the counts exact.
LEMMA DeliverKeepsCounts ==
  ASSUME CoreTypeOK, CountsExact, NEW e \in Envelopes,
         NEW targets \in SUBSET Agents, next_sequence' \in Nat,
         Deliver(e, targets)
  PROVE  CountsExact'
<1> DEFINE entry == [sequence |-> next_sequence', envelope |-> e]
           full == Overflowing(targets)
           kept(a) == IF a \in full THEN Tail(inboxes[a]) ELSE inboxes[a]
           counts(a) == IF a \in full
                        THEN Decrement(inbox_correlation_counts[a],
                                       <<Head(inboxes[a])>>)
                        ELSE inbox_correlation_counts[a]
           recount(s) == [c \in Corrs |-> Len(Only(s, EntriesOf(c)))]
<1>1. entry \in Entry /\ entry.envelope = e
  BY BusAssumption DEF Entry
<1>2. \A a \in Agents : /\ inboxes[a] \in Seq(Entry)
                        /\ inbox_correlation_counts[a] = recount(inboxes[a])
  BY DEF CoreTypeOK, CountsExact, Matching
<1>3. /\ inboxes' = [a \in Agents |-> IF a \notin targets THEN inboxes[a]
                                      ELSE Append(kept(a), entry)]
      /\ inbox_correlation_counts' =
           [a \in Agents |-> IF a \notin targets THEN inbox_correlation_counts[a]
                             ELSE Increment(counts(a), e)]
  BY DEF Deliver
<1>4. ASSUME NEW a \in targets
      PROVE  kept(a) \in Seq(Entry) /\ counts(a) = recount(kept(a))
  <2>1. CASE a \in full
    <3> DEFINE s == inboxes[a]
    <3>1. s \in Seq(Entry) /\ Len(s) \in Nat /\ Len(s) >= InboxLimit
      BY <1>2, <2>1, LenProperties DEF Overflowing
    <3>2. s # <<>> /\ 1 \in 0 .. Len(s) /\ 1 \in 1 .. Len(s)
      BY <3>1, LimitsPositive, EmptySeq
    <3>3. Tail(s) = SubSeq(s, 1 + 1, Len(s)) /\ Tail(s) \in Seq(Entry)
      BY <3>1, <3>2, TailIsSubSeq, HeadTailProperties
    <3>4. <<Head(s)>> = SubSeq(s, 1, 1)
      <4>1. SubSeq(s, 1, 1) = <<s[1]>> \o SubSeq(s, 1 + 1, 1)
        BY <3>1, <3>2, SubSeqRecursiveFirst
      <4>2. SubSeq(s, 1 + 1, 1) = <<>>
        BY SubSeqEmpty
      <4>3. Head(s) = s[1] /\ s[1] \in Entry
        BY <3>1, <3>2, HeadTailProperties, ElementOfSeq
      <4>4. <<s[1]>> \in Seq(Entry)
        BY <4>3
      <4>5. <<s[1]>> \o <<>> = <<s[1]>>
        BY <4>4, ConcatEmptySeq
      <4>. QED
        BY <4>1, <4>2, <4>3, <4>5
    <3>5. Decrement(recount(s), SubSeq(s, 1, 1)) = recount(SubSeq(s, 1 + 1, Len(s)))
      BY <3>1, <3>2, DecrementExact
    <3>. QED
      BY <1>2, <2>1, <3>3, <3>4, <3>5
  <2>2. CASE a \notin full
    BY <1>2, <2>2
  <2>. QED
    BY <2>1, <2>2
<1> HIDE DEF kept, counts, entry
<1>5. \A a \in targets :
         Increment(counts(a), e) = recount(Append(kept(a), entry))
  <2>1. SUFFICES ASSUME NEW a \in targets
                 PROVE  Increment(counts(a), e) = recount(Append(kept(a), entry))
    OBVIOUS
  <2>2. Increment(recount(kept(a)), entry.envelope) =
          recount(Append(kept(a), entry))
    BY <1>1, <1>4, IncrementExact
  <2>. QED
    BY <1>1, <1>4, <2>2
<1>6. ASSUME NEW a \in Agents
      PROVE  inbox_correlation_counts'[a] = recount(inboxes'[a])
  <2>1. CASE a \in targets
    BY <1>3, <1>5, <2>1
  <2>2. CASE a \notin targets
    BY <1>2, <1>3, <2>2
  <2>. QED
    BY <2>1, <2>2
<1>7. inbox_correlation_counts' = [a \in Agents |-> recount(inboxes'[a])]
  <2>1. inbox_correlation_counts' =
          [a \in Agents |-> inbox_correlation_counts'[a]]
    BY <1>3
  <2> HIDE DEF recount
  <2>. QED
    BY <1>6, <2>1
<1>. QED
  BY <1>7 DEF CountsExact, Matching

-----------------------------------------------------------------------------
(* The counts and the places after each operation                          *)

\* A drain keeps the counts exact.
LEMMA DrainKeepsCounts ==
  ASSUME CoreTypeOK, CountsExact, NEW a \in Agents, NEW max \in 0 .. InboxLimit,
         DrainForAgent(a, max)
  PROVE  CountsExact'
<1> DEFINE pending == Len(inboxes[a])
           count == IF max = 0 \/ max > pending THEN pending ELSE max
           recount(s) == [c \in Corrs |-> Len(Only(s, EntriesOf(c)))]
           rest == SubSeq(inboxes[a], count + 1, pending)
<1>1. inboxes[a] \in Seq(Entry) /\ pending \in Nat
      /\ inboxes \in [Agents -> Seq(Entry)]
  BY LenProperties DEF CoreTypeOK
<1>2. /\ inboxes' = [inboxes EXCEPT ![a] = rest]
      /\ inbox_correlation_counts' =
           [inbox_correlation_counts EXCEPT
              ![a] = Decrement(inbox_correlation_counts[a],
                               SubSeq(inboxes[a], 1, count))]
  BY DEF DrainForAgent
<1>3. count \in 0 .. pending
  BY <1>1, LimitsPositive
<1>4. /\ inbox_correlation_counts = [b \in Agents |-> recount(inboxes[b])]
  BY DEF CountsExact, Matching
<1> HIDE DEF count
<1>5. Decrement(recount(inboxes[a]), SubSeq(inboxes[a], 1, count)) = recount(rest)
  BY <1>1, <1>3, DecrementExact
<1> HIDE DEF recount, rest
<1>6. inbox_correlation_counts' = [b \in Agents |-> recount(inboxes'[b])]
  BY <1>1, <1>2, <1>4, <1>5
<1>. QED
  BY <1>6 DEF CountsExact, Matching, recount

\* Removing an agent with its inbox keeps the counts exact.
LEMMA UnregisterKeepsCounts ==
  ASSUME CoreTypeOK, CountsExact, NEW a \in Agents, UnregisterAgent(a)
  PROVE  CountsExact'
<1>1. /\ inboxes' = [inboxes EXCEPT ![a] = <<>>]
      /\ inbox_correlation_counts' =
           [inbox_correlation_counts EXCEPT ![a] = [c \in Corrs |-> 0]]
      /\ inboxes \in [Agents -> Seq(Entry)]
  BY DEF UnregisterAgent, CoreTypeOK
<1>2. \A c : Len(Only(<<>>, EntriesOf(c))) = 0
  BY OnlyEmpty, EmptySeq
<1>. QED
  BY <1>1, <1>2 DEF CountsExact, Matching

-----------------------------------------------------------------------------
(* The places taken in the inboxes                                         *)

\* The places taken in the inboxes `boxes`, as pairs.
LEMMA PlacesOf ==
  ASSUME NEW boxes
  PROVE  \A p : p \in UNION {{a} \X (1 .. Len(boxes[a])) : a \in Agents} <=>
                  \E a \in Agents, i \in Nat :
                     i \in 1 .. Len(boxes[a]) /\ p = <<a, i>>
<1> DEFINE Places == UNION {{a} \X (1 .. Len(boxes[a])) : a \in Agents}
<1>1. ASSUME NEW p, p \in Places
      PROVE  \E a \in Agents, i \in Nat :
               i \in 1 .. Len(boxes[a]) /\ p = <<a, i>>
  <2>1. PICK a \in Agents : p \in {a} \X (1 .. Len(boxes[a]))
    BY <1>1, Zenon
  <2>2. PICK b \in {a}, i \in 1 .. Len(boxes[a]) : p = <<b, i>>
    BY <2>1
  <2>. QED
    BY <2>2
<1>2. ASSUME NEW a \in Agents, NEW i \in 1 .. Len(boxes[a])
      PROVE  <<a, i>> \in Places
  <2>1. <<a, i>> \in {a} \X (1 .. Len(boxes[a]))
    OBVIOUS
  <2>. QED
    BY <2>1, Zenon
<1> HIDE DEF Places
<1>3. \A p : p \in Places <=>
               \E a \in Agents, i \in Nat :
                  i \in 1 .. Len(boxes[a]) /\ p = <<a, i>>
  BY <1>1, <1>2
<1>. QED
  BY <1>3, Zenon DEF Places

\* The places taken, now and after the step, as pairs.
LEMMA PlacesMembers ==
  /\ \A p : p \in PlacesTaken <=>
              \E a \in Agents, i \in Nat :
                 i \in 1 .. Len(inboxes[a]) /\ p = <<a, i>>
  /\ \A p : p \in PlacesTaken' <=>
              \E a \in Agents, i \in Nat :
                 i \in 1 .. Len(inboxes'[a]) /\ p = <<a, i>>
BY PlacesOf, Zenon DEF PlacesTaken

\* There are finitely many places, so that they can be counted.
LEMMA PlacesFinite ==
  ASSUME CoreTypeOK
  PROVE  IsFiniteSet(PlacesTaken) /\ Cardinality(PlacesTaken) \in Nat
<1>1. IsFiniteSet(Agents \X (1 .. InboxLimit))
  <2>1. IsFiniteSet(Agents) /\ IsFiniteSet(1 .. InboxLimit)
    BY BusAssumption, LimitsPositive, FS_Interval
  <2>. QED
    BY <2>1, FS_Product
<1>2. PlacesTaken \subseteq Agents \X (1 .. InboxLimit)
  <2>1. \A a \in Agents : \A i \in 1 .. Len(inboxes[a]) : i \in 1 .. InboxLimit
    BY LenProperties, LimitsPositive DEF CoreTypeOK
  <2>. QED
    BY <2>1, PlacesMembers
<1>. QED
  BY <1>1, <1>2, FS_Subset, FS_CardinalityType

\* The places of one inbox from `first` on.
LEMMA LastPlaces ==
  ASSUME NEW a, NEW first \in Nat, NEW len \in Nat, first <= len + 1
  PROVE  /\ IsFiniteSet({a} \X (first .. len))
         /\ Cardinality({a} \X (first .. len)) = len + 1 - first
<1>1. IsFiniteSet({a}) /\ Cardinality({a}) = 1
  BY FS_Singleton
<1>2. /\ IsFiniteSet(first .. len)
      /\ Cardinality(first .. len) = len + 1 - first
  BY FS_Interval
<1>3. /\ IsFiniteSet({a} \X (first .. len))
      /\ Cardinality({a} \X (first .. len)) =
           Cardinality({a}) * Cardinality(first .. len)
  BY <1>1, <1>2, FS_Product
<1>. QED
  BY <1>1, <1>2, <1>3

\* An inbox that becomes n entries shorter frees n places.
LEMMA ShorterInbox ==
  ASSUME CoreTypeOK, NEW a \in Agents, NEW rest,
         NEW n \in 0 .. Len(inboxes[a]), Len(rest) = Len(inboxes[a]) - n,
         inboxes' = [inboxes EXCEPT ![a] = rest]
  PROVE  Cardinality(PlacesTaken') = Cardinality(PlacesTaken) - n
<1> DEFINE len == Len(inboxes[a])
           first == len - n + 1
           freed == {a} \X (first .. len)
<1>1. len \in Nat /\ n \in 0 .. len /\ Len(inboxes'[a]) = len - n
      /\ \A b \in Agents \ {a} : inboxes'[b] = inboxes[b]
  BY LenProperties DEF CoreTypeOK
<1>2. \A p : p \in PlacesTaken' <=>
               \E b \in Agents, i \in Nat : i \in 1 .. Len(inboxes'[b]) /\ p = <<b, i>>
  BY PlacesMembers
<1>3. PlacesTaken' = PlacesTaken \ freed
  <2>1. ASSUME NEW p \in PlacesTaken' PROVE p \in PlacesTaken \ freed
    <3>1. PICK b \in Agents, i \in Nat : i \in 1 .. Len(inboxes'[b]) /\ p = <<b, i>>
      BY <1>2
    <3>2. i \in 1 .. Len(inboxes[b]) /\ ~(b = a /\ i \in len - n + 1 .. len)
      BY <1>1, <3>1
    <3>3. p \in PlacesTaken
      BY <3>1, <3>2, PlacesMembers
    <3>. QED
      BY <3>1, <3>2, <3>3
  <2>2. ASSUME NEW p \in PlacesTaken, p \notin freed PROVE p \in PlacesTaken'
    <3>1. PICK b \in Agents, i \in Nat : i \in 1 .. Len(inboxes[b]) /\ p = <<b, i>>
      BY PlacesMembers
    <3>2. ~(b = a /\ i \in len - n + 1 .. len)
      BY <2>2, <3>1
    <3>3. i \in 1 .. Len(inboxes'[b])
      BY <1>1, <3>1, <3>2
    <3>. QED
      BY <1>2, <3>1, <3>3
  <2>. QED
    BY <2>1, <2>2
<1>4. freed \subseteq PlacesTaken
  <2>1. \A i \in len - n + 1 .. len : i \in 1 .. Len(inboxes[a])
    BY <1>1
  <2>. QED
    BY <2>1, PlacesMembers
<1>5. IsFiniteSet(freed) /\ Cardinality(freed) = n
  <2>1. first \in Nat /\ first <= len + 1 /\ len + 1 - first = n
    BY <1>1
  <2> HIDE DEF len, first
  <2>2. /\ IsFiniteSet({a} \X (first .. len))
        /\ Cardinality({a} \X (first .. len)) = len + 1 - first
    BY <1>1, <2>1, LastPlaces
  <2>. QED
    BY <2>1, <2>2
<1> HIDE DEF freed, len
<1>6. /\ IsFiniteSet(PlacesTaken)
      /\ Cardinality(PlacesTaken \ freed) =
           Cardinality(PlacesTaken) - Cardinality(PlacesTaken \cap freed)
  BY PlacesFinite, FS_Difference
<1>7. PlacesTaken \cap freed = freed
  BY <1>4
<1>. QED
  BY <1>3, <1>5, <1>6, <1>7

\* A delivery takes one more place of every target that is not full.
LEMMA LongerInboxes ==
  ASSUME CoreTypeOK, NEW e \in Envelopes, NEW targets \in SUBSET Agents,
         Deliver(e, targets)
  PROVE  Cardinality(PlacesTaken') =
           Cardinality(PlacesTaken) + Cardinality(targets)
             - Cardinality(Overflowing(targets))
<1> DEFINE entry == [sequence |-> next_sequence', envelope |-> e]
           full == Overflowing(targets)
           open == targets \ full
           len(a) == Len(inboxes[a])
           f == [a \in open |-> <<a, len(a) + 1>>]
           new == {f[a] : a \in open}
<1>1. /\ inboxes \in [Agents -> Seq(Entry)] /\ full \subseteq targets
      /\ \A a \in Agents : inboxes[a] \in Seq(Entry) /\ len(a) \in Nat
  BY LenProperties DEF CoreTypeOK, Overflowing
<1>2. inboxes' = [a \in Agents |->
                    IF a \notin targets THEN inboxes[a]
                    ELSE Append(IF a \in full THEN Tail(inboxes[a])
                                ELSE inboxes[a], entry)]
  BY DEF Deliver
<1> HIDE DEF entry
<1>3. \A a \in full : Len(inboxes'[a]) = len(a)
  <2>1. SUFFICES ASSUME NEW a \in full PROVE Len(inboxes'[a]) = len(a)
    OBVIOUS
  <2>2. len(a) >= InboxLimit /\ a \in Agents
    BY <1>1 DEF Overflowing
  <2>3. inboxes[a] # <<>>
    BY <1>1, <2>2, LimitsPositive, EmptySeq
  <2>4. Tail(inboxes[a]) \in Seq(Entry) /\ Len(Tail(inboxes[a])) = len(a) - 1
    BY <1>1, <2>2, <2>3, HeadTailProperties
  <2>5. inboxes'[a] = Append(Tail(inboxes[a]), entry)
    BY <1>1, <1>2, <2>2
  <2>6. Len(Append(Tail(inboxes[a]), entry)) = (len(a) - 1) + 1
    <3>1. \A s \in Seq(Entry \cup {entry}) : Len(Append(s, entry)) = Len(s) + 1
      BY AppendProperties
    <3>2. Tail(inboxes[a]) \in Seq(Entry \cup {entry})
      BY <2>4, SeqMonotonic
    <3>. QED
      BY <2>4, <3>1, <3>2
  <2>. QED
    BY <1>1, <2>2, <2>5, <2>6
<1>4. \A a \in open : Len(inboxes'[a]) = len(a) + 1
  <2>1. SUFFICES ASSUME NEW a \in open PROVE Len(inboxes'[a]) = len(a) + 1
    OBVIOUS
  <2>2. inboxes'[a] = Append(inboxes[a], entry)
    BY <1>1, <1>2
  <2>3. \A s \in Seq(Entry \cup {entry}) : Len(Append(s, entry)) = Len(s) + 1
    BY AppendProperties
  <2>4. inboxes[a] \in Seq(Entry \cup {entry})
    BY <1>1, SeqMonotonic
  <2>. QED
    BY <2>2, <2>3, <2>4
<1>5. \A a \in Agents \ targets : Len(inboxes'[a]) = len(a)
  BY <1>2
<1>6. \A p : p \in PlacesTaken' <=>
               \E a \in Agents, i \in Nat : i \in 1 .. Len(inboxes'[a]) /\ p = <<a, i>>
  BY PlacesMembers
<1> HIDE DEF full
<1>7. \A a \in Agents : /\ a \in open => Len(inboxes'[a]) = len(a) + 1
                        /\ a \notin open => Len(inboxes'[a]) = len(a)
  BY <1>1, <1>3, <1>4, <1>5
<1>8. PlacesTaken' = PlacesTaken \cup new
  <2>1. ASSUME NEW p \in PlacesTaken' PROVE p \in PlacesTaken \cup new
    <3>1. PICK a \in Agents, i \in Nat : i \in 1 .. Len(inboxes'[a]) /\ p = <<a, i>>
      BY <1>6
    <3>2. CASE i \in 1 .. len(a)
      BY <3>1, <3>2, PlacesMembers
    <3>3. CASE i \notin 1 .. len(a)
      <4>1. a \in open /\ i = len(a) + 1
        BY <1>1, <1>7, <3>1, <3>3
      <4>. QED
        BY <3>1, <4>1
    <3>. QED
      BY <3>2, <3>3
  <2>2. ASSUME NEW p \in PlacesTaken PROVE p \in PlacesTaken'
    <3>1. PICK a \in Agents, i \in Nat : i \in 1 .. len(a) /\ p = <<a, i>>
      BY PlacesMembers
    <3>2. i \in 1 .. Len(inboxes'[a])
      BY <1>1, <1>7, <3>1
    <3>. QED
      BY <1>6, <3>1, <3>2
  <2>3. ASSUME NEW a \in open PROVE f[a] \in PlacesTaken'
    <3>1. a \in Agents /\ len(a) + 1 \in 1 .. Len(inboxes'[a])
      BY <1>1, <1>7, <2>3
    <3>. QED
      BY <1>6, <3>1
  <2>. QED
    BY <2>1, <2>2, <2>3
<1>9. PlacesTaken \cap new = {}
  <2>1. SUFFICES ASSUME NEW a \in open, f[a] \in PlacesTaken PROVE FALSE
    OBVIOUS
  <2>2. PICK b \in Agents, i \in Nat : i \in 1 .. Len(inboxes[b]) /\ <<a, len(a) + 1>> = <<b, i>>
    BY <2>1, PlacesMembers
  <2>3. a = b /\ i = len(a) + 1
    BY <2>2
  <2>. QED
    BY <1>1, <2>2, <2>3
<1>10. /\ IsFiniteSet(targets) /\ IsFiniteSet(open)
       /\ Cardinality(open) = Cardinality(targets) - Cardinality(full)
  <2>1. IsFiniteSet(targets)
    BY BusAssumption, FS_Subset
  <2>2. /\ IsFiniteSet(targets \ full)
        /\ Cardinality(targets \ full) =
             Cardinality(targets) - Cardinality(targets \cap full)
    BY <2>1, FS_Difference
  <2>3. targets \cap full = full
    BY <1>1
  <2>. QED
    BY <2>1, <2>2, <2>3
<1>11. IsFiniteSet(new) /\ Cardinality(new) = Cardinality(open)
  <2>1. f \in Bijection(open, new)
    <3>1. f \in [open -> new] /\ \A t \in new : \E s \in open : f[s] = t
      OBVIOUS
    <3>2. \A a, b \in open : f[a] = f[b] => a = b
      OBVIOUS
    <3>3. DOMAIN f = open
      OBVIOUS
    <3> HIDE DEF f, open, new
    <3>. QED
      BY <3>1, <3>2, <3>3 DEF Bijection, Injection, Surjection, IsInjective
  <2>2. ExistsBijection(open, new)
    BY <2>1 DEF ExistsBijection
  <2> HIDE DEF open, new, f
  <2>. QED
    BY <1>10, <2>2, FS_Bijection
<1> HIDE DEF new, open
<1>12. /\ IsFiniteSet(PlacesTaken) /\ Cardinality(PlacesTaken) \in Nat
       /\ Cardinality(PlacesTaken \cup new) =
            Cardinality(PlacesTaken) + Cardinality(new)
              - Cardinality(PlacesTaken \cap new)
  BY <1>11, PlacesFinite, FS_Union
<1>13. Cardinality(PlacesTaken \cap new) = 0
  BY <1>9, FS_EmptySet
<1>14. Cardinality(targets) \in Nat /\ Cardinality(full) \in Nat
  BY <1>1, <1>10, FS_Subset, FS_CardinalityType
<1>. QED
  BY <1>8, <1>10, <1>11, <1>12, <1>13, <1>14 DEF full

-----------------------------------------------------------------------------
(* The bookkeeping invariant                                               *)

BookInv == CountsExact /\ DeadLetterQueues /\ DeliveryAccounting

\* The books of a new bus are exact.
LEMMA BookInit == Init => BookInv
<1> SUFFICES ASSUME Init PROVE BookInv
  OBVIOUS
<1>1. \A T : Only(<<>>, T) = <<>> /\ Len(<<>>) = 0
  BY OnlyEmpty, EmptySeq
<1>2. CountsExact
  BY <1>1 DEF Init, CountsExact, Matching
<1>3. DeadLetterQueues
  BY <1>1 DEF Init, DeadLetterQueues, OfCorrelation
<1>4. PlacesTaken = {}
  <2>1. \A a \in Agents : Len(inboxes[a]) = 0
    BY <1>1 DEF Init
  <2>. QED
    BY <2>1, PlacesMembers
<1>5. DeliveryAccounting
  BY <1>4, FS_EmptySet DEF Init, DeliveryAccounting
<1>. QED
  BY <1>2, <1>3, <1>5 DEF BookInv

\* A step that leaves the dead letters alone.
LEMMA DeadQuiet ==
  ASSUME DeadLetterQueues, UNCHANGED deadVars
  PROVE  DeadLetterQueues'
BY DEF DeadLetterQueues, OfCorrelation, deadVars

\* A step that leaves the inboxes alone.
LEMMA InboxQuiet ==
  ASSUME CountsExact, DeliveryAccounting,
         UNCHANGED <<inboxes, inbox_correlation_counts, deliveries_total,
                     inbox_overflow_evictions_total, removed>>
  PROVE  CountsExact' /\ DeliveryAccounting'
<1>1. CountsExact'
  BY DEF CountsExact, Matching
<1>2. PlacesTaken' = PlacesTaken
  BY DEF PlacesTaken
<1>3. DeliveryAccounting'
  BY <1>2 DEF DeliveryAccounting
<1>. QED
  BY <1>1, <1>3

\* A drain keeps the books.
LEMMA DrainKeepsBooks ==
  ASSUME CoreTypeOK, BookInv, NEW a \in Agents, NEW max \in 0 .. InboxLimit,
         DrainForAgent(a, max)
  PROVE  BookInv'
<1> DEFINE pending == Len(inboxes[a])
           count == IF max = 0 \/ max > pending THEN pending ELSE max
           rest == SubSeq(inboxes[a], count + 1, pending)
<1>1. inboxes[a] \in Seq(Entry) /\ pending \in Nat /\ removed \in Nat
  BY LenProperties DEF CoreTypeOK
<1>2. count \in 0 .. pending
  BY <1>1, LimitsPositive
<1>3. /\ inboxes' = [inboxes EXCEPT ![a] = rest]
      /\ removed' = removed + count
      /\ deliveries_total' = deliveries_total
      /\ inbox_overflow_evictions_total' = inbox_overflow_evictions_total
      /\ UNCHANGED deadVars
  BY DEF DrainForAgent
<1>4. Len(rest) = pending - count
  BY <1>1, <1>2, SuffixProperties
<1> HIDE DEF count, rest
<1>5. Cardinality(PlacesTaken') = Cardinality(PlacesTaken) - count
  BY <1>2, <1>3, <1>4, ShorterInbox
<1>6. DeliveryAccounting'
  <2>1. /\ Cardinality(PlacesTaken) \in Nat
        /\ inbox_overflow_evictions_total \in Nat /\ count \in Nat
    BY <1>1, <1>2, PlacesFinite DEF CoreTypeOK
  <2>. QED
    BY <1>1, <1>3, <1>5, <2>1 DEF DeliveryAccounting, BookInv
<1>. QED
  BY <1>3, <1>6, DrainKeepsCounts, DeadQuiet DEF BookInv

\* Removing an agent with its inbox keeps the books.
LEMMA UnregisterKeepsBooks ==
  ASSUME CoreTypeOK, BookInv, NEW a \in Agents, UnregisterAgent(a)
  PROVE  BookInv'
<1> DEFINE pending == Len(inboxes[a])
<1>1. inboxes[a] \in Seq(Entry) /\ pending \in Nat /\ removed \in Nat
  BY LenProperties DEF CoreTypeOK
<1>2. /\ inboxes' = [inboxes EXCEPT ![a] = <<>>]
      /\ removed' = removed + pending
      /\ deliveries_total' = deliveries_total
      /\ inbox_overflow_evictions_total' = inbox_overflow_evictions_total
      /\ UNCHANGED deadVars
  BY DEF UnregisterAgent
<1>3. Len(<<>>) = pending - pending /\ pending \in 0 .. pending
  BY <1>1, EmptySeq
<1>4. Cardinality(PlacesTaken') = Cardinality(PlacesTaken) - pending
  BY <1>2, <1>3, ShorterInbox
<1> HIDE DEF pending
<1>5. DeliveryAccounting'
  <2>1. /\ Cardinality(PlacesTaken) \in Nat
        /\ inbox_overflow_evictions_total \in Nat
    BY PlacesFinite DEF CoreTypeOK
  <2>. QED
    BY <1>1, <1>2, <1>4, <2>1 DEF DeliveryAccounting, BookInv
<1>. QED
  BY <1>2, <1>5, UnregisterKeepsCounts, DeadQuiet DEF BookInv

\* Recording a dead letter keeps the books.
LEMMA RejectKeepsBooks ==
  ASSUME CoreTypeOK, BookInv, NEW e \in Envelopes, NEW reason \in Reasons,
         Reject(e, reason), UNCHANGED inboxVars
  PROVE  BookInv'
<1>1. DeadLetterQueues'
  BY RejectKeepsQueues DEF BookInv
<1>2. CountsExact' /\ DeliveryAccounting'
  BY InboxQuiet DEF inboxVars, BookInv
<1>. QED
  BY <1>1, <1>2 DEF BookInv

\* A delivery, to any targets, keeps the books.
LEMMA DeliverKeepsBooks ==
  ASSUME CoreTypeOK, BookInv, NEW e \in Envelopes,
         NEW targets \in SUBSET Agents, next_sequence' \in Nat,
         Deliver(e, targets)
  PROVE  BookInv'
<1>1. DeadLetterQueues'
  BY DeliverPushes, PushKeepsQueues DEF BookInv
<1>2. DeliveryAccounting'
  <2>1. Cardinality(PlacesTaken') =
          Cardinality(PlacesTaken) + Cardinality(targets)
            - Cardinality(Overflowing(targets))
    BY LongerInboxes
  <2>2. /\ deliveries_total' = deliveries_total + Cardinality(targets)
        /\ inbox_overflow_evictions_total' =
             inbox_overflow_evictions_total + Cardinality(Overflowing(targets))
        /\ removed' = removed
    BY DEF Deliver
  <2>3. /\ Cardinality(PlacesTaken) \in Nat /\ removed \in Nat
        /\ inbox_overflow_evictions_total \in Nat
    BY PlacesFinite DEF CoreTypeOK
  <2>4. Cardinality(targets) \in Nat /\ Cardinality(Overflowing(targets)) \in Nat
    BY BusAssumption, FS_Subset, FS_CardinalityType DEF Overflowing
  <2>. QED
    BY <2>1, <2>2, <2>3, <2>4 DEF DeliveryAccounting, BookInv
<1>. QED
  BY <1>1, <1>2, DeliverKeepsCounts DEF BookInv

\* A publish keeps the books, whatever its outcome.
LEMMA PublishKeepsBooks ==
  ASSUME CoreTypeOK, BookInv, NEW e \in Envelopes, Publish(e)
  PROVE  BookInv'
<1>1. CASE \/ PublishInvalid(e) \/ PublishDuplicate(e)
           \/ PublishConflict(e) \/ PublishUnknownTarget(e)
  <2>1. UNCHANGED inboxVars /\ \E reason \in Reasons : Reject(e, reason)
    BY <1>1 DEF PublishInvalid, PublishDuplicate, PublishConflict,
                PublishUnknownTarget, Reasons
  <2>. QED
    BY <2>1, RejectKeepsBooks
<1>2. CASE PublishDelivered(e)
  <2> DEFINE targets == IF e.scope = "direct" THEN {e.to} ELSE registered
  <2>1. targets \in SUBSET Agents /\ Deliver(e, targets)
    BY <1>2 DEF PublishDelivered, CoreTypeOK
  <2>2. next_sequence' \in Nat
    BY <1>2 DEF PublishDelivered, Accept, CoreTypeOK
  <2> HIDE DEF targets
  <2>. QED
    BY <2>1, <2>2, DeliverKeepsBooks
<1>. QED
  BY <1>1, <1>2 DEF Publish

\* Every step of the bus keeps the books.
LEMMA BookStep ==
  ASSUME CoreTypeOK, BookInv, [Next]_vars
  PROVE  BookInv'
<1>1. CASE UNCHANGED vars
  BY <1>1, InboxQuiet, DeadQuiet DEF vars, inboxVars, BookInv
<1>2. ASSUME NEW a \in Agents, RegisterAgent(a) PROVE BookInv'
  BY <1>2, InboxQuiet, DeadQuiet DEF RegisterAgent, BookInv
<1>3. ASSUME NEW a \in Agents, UnregisterAgent(a) PROVE BookInv'
  BY <1>3, UnregisterKeepsBooks
<1>4. ASSUME NEW a \in Agents, NEW max \in 0 .. InboxLimit,
             DrainForAgent(a, max)
      PROVE  BookInv'
  BY <1>4, DrainKeepsBooks
<1>5. ASSUME NEW e \in Envelopes, Publish(e) PROVE BookInv'
  BY <1>5, PublishKeepsBooks
<1>. QED
  BY <1>1, <1>2, <1>3, <1>4, <1>5 DEF Next

\* The books are exact in every state of the bus.
LEMMA BookInvariant == Spec => []BookInv
BY BookInit, BookStep, CoreTypes, PTL DEF Spec

\* With exact counts a page of the correlation peek is that page of the
\* matching entries, whatever its offset and its size.
LEMMA PeekOfExactCounts ==
  ASSUME CoreTypeOK, CountsExact, NEW a \in Agents, NEW c \in Corrs,
         NEW offset \in Nat, NEW max \in Nat
  PROVE  PeekForAgentCorrelation(a, c, offset, max) =
           Page(Matching(a, c), offset, max)
<1> DEFINE found == Matching(a, c)
           len == Len(found)
           count == Take(Monus(len, offset), max)
           last == IF offset + count > len THEN len ELSE offset + count
<1>1. found \in Seq(Entry) /\ len \in Nat
  <2>1. inboxes[a] \in Seq(Entry)
    BY DEF CoreTypeOK
  <2>2. Only(inboxes[a], EntriesOf(c)) \in Seq(Entry)
    BY <2>1, OnlyType
  <2>. QED
    BY <2>2, LenProperties DEF Matching
<1>2. inbox_correlation_counts[a][c] = len
  BY DEF CountsExact
<1>3. /\ PeekForAgentCorrelation(a, c, offset, max) =
           SubSeq(found, offset + 1, last)
      /\ Page(found, offset, max) = SubSeq(found, offset + 1, offset + count)
  BY <1>2 DEF PeekForAgentCorrelation, Page
<1>4. CASE offset <= len
  <2>1. Monus(len, offset) = len - offset
    BY <1>1, <1>4 DEF Monus
  <2>2. count \in 0 .. len - offset
    BY <1>1, <1>4, <2>1 DEF Take
  <2> HIDE DEF count, found
  <2>3. last = offset + count
    BY <1>1, <1>4, <2>2
  <2>. QED
    BY <1>3, <2>3 DEF found
<1>5. CASE offset > len
  <2>1. count = 0
    BY <1>1, <1>5 DEF Take, Monus
  <2> HIDE DEF count
  <2>2. last = len /\ len < offset + 1 /\ offset + count < offset + 1
    BY <1>1, <1>5, <2>1
  <2> HIDE DEF found
  <2>3. /\ SubSeq(found, offset + 1, len) = <<>>
        /\ SubSeq(found, offset + 1, offset + count) = <<>>
    BY <1>1, <1>5, <2>1, SubSeqEmpty
  <2>. QED
    BY <1>3, <2>2, <2>3 DEF found
<1>. QED
  BY <1>1, <1>4, <1>5

(***************************************************************************)
(* What the bus keeps by hand beside its inboxes and its dead letters is   *)
(* what a recount gives: the correlation counts that size every page of    *)
(* the peek, the dead-letter queues whose heads are popped blindly, and    *)
(* the counters of deliveries.                                             *)
(***************************************************************************)
THEOREM BooksAreExact == Spec => []BookkeepingExact
<1>1. CoreTypeOK /\ BookInv => BookkeepingExact
  <2> SUFFICES ASSUME CoreTypeOK, BookInv PROVE BookkeepingExact
    OBVIOUS
  <2>1. PeekFindsPending
    <3>1. registered \subseteq Agents /\ 0 .. 1 \subseteq Nat
      BY DEF CoreTypeOK
    <3>. QED
      BY <3>1, PeekOfExactCounts DEF PeekFindsPending, BookInv
  <2>2. DeadLetterIndexExact
    BY DEF BookInv, DeadLetterQueues, DeadLetterIndexExact
  <2>. QED
    BY <2>1, <2>2 DEF BookkeepingExact, BookInv
<1>. QED
  BY <1>1, CoreTypes, BookInvariant, PTL

(***************************************************************************)
(* The peek of a correlation never hides an entry and never invents one,   *)
(* for every offset and every page size.                                   *)
(***************************************************************************)
THEOREM PeekIsExact ==
  Spec => [](\A a \in Agents, c \in Corrs, offset \in Nat, max \in Nat :
               PeekForAgentCorrelation(a, c, offset, max) =
                 Page(Matching(a, c), offset, max))
<1>1. CoreTypeOK /\ BookInv =>
        \A a \in Agents, c \in Corrs, offset \in Nat, max \in Nat :
          PeekForAgentCorrelation(a, c, offset, max) =
            Page(Matching(a, c), offset, max)
  BY PeekOfExactCounts DEF BookInv
<1>. QED
  BY <1>1, CoreTypes, BookInvariant, PTL

(***************************************************************************)
(* Every variable of the bus has its type and every bounded collection     *)
(* keeps its limit, the shared context and the derived indexes included.   *)
(***************************************************************************)
THEOREM TypesHold == Spec => []TypeOK
<1>1. CoreTypeOK /\ BookInv /\ ContextInv => TypeOK
  <2> SUFFICES ASSUME CoreTypeOK, BookInv, ContextInv PROVE IndexTypeOK
    BY DEF TypeOK
  <2>1. inbox_correlation_counts \in [Agents -> [Corrs -> Nat]]
    <3>1. \A a \in Agents, c \in Corrs : Len(Only(inboxes[a], EntriesOf(c))) \in Nat
      <4>1. SUFFICES ASSUME NEW a \in Agents, NEW c \in Corrs
                     PROVE  Len(Only(inboxes[a], EntriesOf(c))) \in Nat
        OBVIOUS
      <4>2. inboxes[a] \in Seq(Entry)
        BY DEF CoreTypeOK
      <4>3. Only(inboxes[a], EntriesOf(c)) \in Seq(Entry)
        BY <4>2, OnlyType
      <4>. QED
        BY <4>3, LenProperties
    <3>. QED
      BY <3>1 DEF BookInv, CountsExact, Matching
  <2>2. dead_letters_by_correlation \in [Corrs -> Seq(DeadLetter)]
    <3>1. \A c \in Corrs : Only(dead_letters, LettersOf(c)) \in Seq(DeadLetter)
      BY OnlyType DEF CoreTypeOK
    <3>. QED
      BY <3>1 DEF BookInv, DeadLetterQueues, OfCorrelation
  <2>3. \A T : Only(context_order, T) \in Seq(Keys)
    BY OnlyType DEF ContextInv
  <2>4. delegate_context_order \in Seq(Keys)
    BY <2>3 DEF ContextInv
  <2>5. \A T : Only(delegate_context_order, T) \in Seq(Keys)
    BY <2>4, OnlyType
  <2>. QED
    BY <2>1, <2>2, <2>3, <2>4, <2>5 DEF IndexTypeOK, ContextInv
<1>. QED
  BY <1>1, CoreTypes, BookInvariant, ContextInvariant, PTL
=============================================================================
