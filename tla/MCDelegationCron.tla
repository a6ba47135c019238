-------------------------- MODULE MCDelegationCron --------------------------
(* Instance of two components that share no state: delegations on the bus   *)
(* and the cron jobs.  `part` names the one that a behaviour is about, so   *)
(* that their state spaces add up; the other stays as it was at the start.  *)
EXTENDS Delegation, MCCron

VARIABLE part

CONSTANTS lead, worker

MCIds == Corrs \X Messages
MCKeyCorr == [c \in Corrs |-> c]
MCAgentOf == [c \in Corrs |-> worker]
MCEnvelopes ==
  UNION {{Request(c), QueuedState(c), Result(c), ClosingState(c)} : c \in Corrs}

\* What the table holds at the start matters to the cron jobs only.
MCInit ==
  /\ part \in {"delegation", "cron"}
  /\ DelegationInit /\ CronInit
  /\ part # "cron" => Live = {}

MCNext ==
  /\ \/ part = "delegation" /\ DelegationNext /\ UNCHANGED cronVars
     \/ part = "cron" /\ CronNext /\ UNCHANGED delegationVars
  /\ UNCHANGED part

\* The fairness of FairCronSpec, in the behaviours that are about cron.
MCSpec ==
  /\ MCInit /\ [][MCNext]_<<delegationVars, cronVars, part>>
  /\ WF_cronVars(part = "cron" /\ Poll)
  /\ \A w \in Slots : /\ WF_cronVars(part = "cron" /\ StartRun(w))
                      /\ WF_cronVars(part = "cron" /\ RunStep(w))
=============================================================================
