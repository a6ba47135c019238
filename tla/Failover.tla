------------------------------ MODULE Failover ------------------------------
(***************************************************************************)
(* ReliableProvider of src/providers/reliable.rs: how one model call walks *)
(* the chain of fallback models and API keys, pass after pass, and what it *)
(* leaves in the cooldown table that concurrent calls share.               *)
(*                                                                         *)
(* The cooldown table is locked for single reads and writes only; a call   *)
(* reads it once, when it starts.  Time is abstracted: a cooldown may end  *)
(* at any moment and a backoff lasts any while.                            *)
(***************************************************************************)
EXTENDS Integers, FiniteSets, Sequences, SequencesExt

CONSTANTS
  ModelCalls,  \* concurrent calls for one model: chat, chat_with_history, ...
  Chain,       \* the requested model and its fallbacks, in order
  Providers,   \* provider names in priority order, one per API key
  Elfgate,     \* the name of the proxy provider
  ProxyOnly,   \* the models only the proxy serves
  Remaps,      \* per provider name, its provider-scoped fallback models
  MaxRetries

ASSUME FailoverAssumption ==
  /\ Len(Chain) > 0 /\ Len(Providers) > 0 /\ MaxRetries \in Nat
  /\ \A p \in ToSet(Providers) : IsInjective(Remaps[p])

----------------------------------------------------------------------------
(* The attempt order, flattened once per call                              *)

Excluded(m, p) ==
  LET proxy     == Providers[p] = Elfgate
      proxyOnly == Elfgate \in ToSet(Providers) /\ Chain[m] \in ProxyOnly
  IN  \/ proxy /\ Chain[m] # Chain[1] /\ ~proxyOnly
      \/ ~proxy /\ proxyOnly

ProviderModelChain(m, p) ==
  LET own    == IF p = 1 THEN <<Chain[m]>> ELSE <<>>
      remaps == SelectSeq(Remaps[Providers[p]], LAMBDA x : ~Contains(own, x))
  IN  IF own \o remaps = <<>> THEN <<Chain[m]>> ELSE own \o remaps

EntriesOf(m, p) ==
  LET models == ProviderModelChain(m, p)
  IN  [k \in DOMAIN models |-> [provider |-> Providers[p], model |-> models[k]]]

Entries ==
  FlattenSeq([m \in DOMAIN Chain |->
    FlattenSeq([p \in DOMAIN Providers |->
      IF Excluded(m, p) THEN <<>> ELSE EntriesOf(m, p)])])

Indices == DOMAIN Entries
IsProxy(i) == Entries[i].provider = Elfgate

\* The requested model is excluded nowhere but where the proxy replaces it.
ASSUME EntriesAssumption == Indices \subseteq Nat /\ Indices # {}

----------------------------------------------------------------------------
VARIABLES
  cooldowns,   \* the (key, model) pairs that later calls skip
  calls        \* the local variables of each call

failoverVars == <<cooldowns, calls>>

(* asked to busy are history: the entries this call asked, those whose own *)
(* answer rules them out for it, and the models that answered with a       *)
(* timeout or an overload.                                                 *)
NoCall ==
  [pc |-> "idle", pass |-> 1, at |-> 0, skipped |-> {}, overloaded |-> {},
   limited |-> TRUE, failed |-> FALSE,
   rested |-> {}, asked |-> {}, dead |-> {}, timed_out |-> {}, busy |-> {}]

FailoverInit ==
  /\ cooldowns = {}
  /\ calls = [c \in ModelCalls |-> NoCall]

Open(call) ==
  {i \in Indices : i \notin call.skipped /\ Entries[i].model \notin call.overloaded}

First(S) == CHOOSE i \in S : \A j \in S : i <= j

GoTo(call, S) == [call EXCEPT !.pc = "calling", !.at = First(S)]

\* A call that has returned has no local variables left.
Return(call, pc) ==
  [NoCall EXCEPT !.pc = pc, !.rested = call.rested, !.asked = call.asked,
                 !.timed_out = call.timed_out, !.busy = call.busy]

\* finalize_all_failed
AllFailed(call) ==
  Return(call, IF call.limited /\ call.failed THEN "rate_limited" ELSE "failed")

\* The rest of the pass, or what follows its last entry.
MoveOn(call) ==
  LET ahead == {i \in Open(call) : i > call.at}
  IN  CASE ahead # {} -> GoTo(call, ahead)
        [] ahead = {} /\ (call.pass = MaxRetries + 1 \/ call.skipped = Indices)
             -> AllFailed(call)
        [] OTHER -> [call EXCEPT !.pc = "sleeping"]

----------------------------------------------------------------------------
(* A call starts: it skips what is cooling down, unless that is everything. *)

Cooling == {i \in Indices : Entries[i] \in cooldowns}

\* Mutant of SkippedAtFirst: nothing is tried when everything is cooling.
SkippedAtFirstAll == Cooling
SkippedAtFirst == IF Cooling = Indices THEN {} ELSE Cooling

Begin(c) ==
  /\ calls[c].pc = "idle"
  /\ LET call == [NoCall EXCEPT !.skipped = SkippedAtFirst, !.rested = Cooling]
     IN  calls' = [calls EXCEPT ![c] =
           IF Open(call) = {} THEN AllFailed(call) ELSE GoTo(call, Open(call))]
  /\ UNCHANGED cooldowns

Cooldown(c) == cooldowns' = cooldowns \cup {Entries[calls[c].at]}

Asked(c) ==
  LET call == calls[c] IN [call EXCEPT !.asked = @ \cup {call.at}]

Succeed(c) ==
  /\ calls[c].pc = "calling"
  /\ cooldowns' = cooldowns \ {Entries[calls[c].at]}
  /\ calls' = [calls EXCEPT ![c] = Return(NoCall, "ok")]

\* One more failure; `final` when the entry is skipped from now on.
Failed(c, limited, final) ==
  LET here == IF final THEN {calls[c].at} ELSE {} IN
  [Asked(c) EXCEPT !.limited = @ /\ limited, !.failed = TRUE,
                   !.skipped = @ \cup here, !.dead = @ \cup here]

ProxyNotServed(c) ==
  /\ calls[c].pc = "calling" /\ IsProxy(calls[c].at)
  /\ LET i == calls[c].at IN
     calls' = [calls EXCEPT ![c] =
       MoveOn([Asked(c) EXCEPT !.skipped = @ \cup {i}, !.dead = @ \cup {i}])]
  /\ UNCHANGED cooldowns

ProxyFails(c, limited) ==
  /\ calls[c].pc = "calling" /\ IsProxy(calls[c].at)
  /\ calls' = [calls EXCEPT ![c] = MoveOn(Failed(c, limited, TRUE))]
  /\ Cooldown(c) \/ UNCHANGED cooldowns   \* elfgate_rest gives a rest or none

\* 429: later calls skip the entry; a daily quota rules it out for this one.
RateLimited(c, daily) ==
  /\ calls[c].pc = "calling" /\ ~IsProxy(calls[c].at)
  /\ calls' = [calls EXCEPT ![c] = MoveOn(Failed(c, TRUE, daily))]
  /\ Cooldown(c)

NonRetryable(c) ==
  /\ calls[c].pc = "calling" /\ ~IsProxy(calls[c].at)
  /\ calls' = [calls EXCEPT ![c] = MoveOn(Failed(c, FALSE, TRUE))]
  /\ UNCHANGED cooldowns

\* Mutant of SameModel: a timeout rests the entry, not the model on every key.
SameModelNone(i) == {i}
SameModel(i) ==
  {j \in Indices : ~IsProxy(j) /\ Entries[j].model = Entries[i].model}

TimedOut(c) ==
  /\ calls[c].pc = "calling" /\ ~IsProxy(calls[c].at)
  /\ LET i    == calls[c].at
         call == [Failed(c, FALSE, FALSE) EXCEPT
                    !.skipped = @ \cup SameModel(i),
                    !.timed_out = @ \cup {Entries[i].model}]
     IN  /\ calls' = [calls EXCEPT ![c] = MoveOn(call)]
         /\ cooldowns' = cooldowns \cup {Entries[j] : j \in SameModel(i)}

\* 503: the model's other keys are passed over for the rest of the pass.
Overloaded(c) ==
  /\ calls[c].pc = "calling" /\ ~IsProxy(calls[c].at)
  /\ LET model == Entries[calls[c].at].model IN
     calls' = [calls EXCEPT ![c] =
       MoveOn([Failed(c, FALSE, FALSE) EXCEPT !.overloaded = @ \cup {model},
                                           !.busy = @ \cup {model}])]
  /\ UNCHANGED cooldowns

OtherFailure(c) ==
  /\ calls[c].pc = "calling" /\ ~IsProxy(calls[c].at)
  /\ calls' = [calls EXCEPT ![c] = MoveOn(Failed(c, FALSE, FALSE))]
  /\ UNCHANGED cooldowns

\* The request is too large for the model: no retry and no fallback.
WindowExceeded(c) ==
  /\ calls[c].pc = "calling" /\ ~IsProxy(calls[c].at)
  /\ calls' = [calls EXCEPT ![c] = Return(NoCall, "window")]
  /\ UNCHANGED cooldowns

\* Mutant of NextPass: the pass is not counted.
NextPassUncounted(call) == [call EXCEPT !.overloaded = {}]
NextPass(call) == [call EXCEPT !.pass = @ + 1, !.overloaded = {}]

Wake(c) ==
  /\ calls[c].pc = "sleeping"
  /\ LET call == NextPass(calls[c])
     IN  calls' = [calls EXCEPT ![c] = GoTo(call, Open(call))]
  /\ UNCHANGED cooldowns

Expire ==
  /\ \E entry \in cooldowns : cooldowns' = cooldowns \ {entry}
  /\ UNCHANGED calls

\* Calls for other models share keys, remaps and fallbacks with this chain.
RestedByOthers ==
  /\ \E i \in Indices : cooldowns' = cooldowns \cup {Entries[i]}
  /\ UNCHANGED calls

----------------------------------------------------------------------------
Answered(c) ==
  \/ Succeed(c) \/ ProxyNotServed(c)
  \/ \E limited \in BOOLEAN : ProxyFails(c, limited)
  \/ \E daily \in BOOLEAN : RateLimited(c, daily)
  \/ NonRetryable(c) \/ TimedOut(c) \/ Overloaded(c) \/ OtherFailure(c)
  \/ WindowExceeded(c)

Proceed(c) == Begin(c) \/ Answered(c) \/ Wake(c)

FailoverNext == Expire \/ RestedByOthers \/ \E c \in ModelCalls : Proceed(c)

\* Every request has a client timeout and every backoff ends.
FailoverFairness == \A c \in ModelCalls : WF_failoverVars(Proceed(c))

FailoverSpec == FailoverInit /\ [][FailoverNext]_failoverVars /\ FailoverFairness

----------------------------------------------------------------------------
(* Properties                                                              *)

\* A call gives up only after it has asked something, and then has asked
\* every entry except those that were cooling down when it started and those
\* whose model was down: the chain is never cut short by the bookkeeping of
\* passes, keys and models.
GivesUpOnlyAtTheEnd ==
  \A c \in ModelCalls : calls[c].pc \in {"failed", "rate_limited"} =>
    /\ calls[c].asked # {}
    /\ \A i \in Indices : \/ i \in calls[c].asked \cup calls[c].rested
                          \/ Entries[i].model \in calls[c].timed_out \cup calls[c].busy

\* Within a call no entry is asked again that its answers have ruled out: a
\* spent daily quota, a key that is not valid, a proxy that does not serve
\* the request, and every key of a model that timed out on one of them.
NotAskedAgain ==
  \A c \in ModelCalls : calls[c].pc = "calling" =>
    LET i == calls[c].at IN
    /\ i \notin calls[c].dead
    /\ IsProxy(i) \/ Entries[i].model \notin calls[c].timed_out

\* The failover ends: whatever the answers, a call that started
\* succeeds or fails.
CallEnds ==
  \A c \in ModelCalls :
    (calls[c].pc \in {"calling", "sleeping"})
      ~> (calls[c].pc \in {"ok", "failed", "rate_limited", "window"})
=============================================================================
