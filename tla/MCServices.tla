----------------------------- MODULE MCServices -----------------------------
(* Instances of eight components that share no state: background           *)
(* sub-agents, background jobs, the channel dispatcher, conversation        *)
(* histories, model failover, tool approvals, supervision and the cost      *)
(* tracker.  `part` names the one that a behaviour is about, so that their  *)
(* state spaces add up instead of multiplying; the others stay in their     *)
(* initial states.                                                         *)
EXTENDS SubAgents, BgJobs, ChannelDispatch, Histories, Failover, Approvals,
        Supervision, CostTracker

VARIABLE part

CONSTANTS c1, c2, t1, s1, s2, a1, a2, k1, k2, elf, big, lite, cla,
          alice, relay

MCChain     == <<big, cla>>
MCProviders == <<elf, k1, k2>>
MCRemaps    == [p \in {elf, k1, k2} |-> IF p = k1 THEN <<big, lite>> ELSE <<>>]
MCToolOf    == [c \in {c1, c2} |-> t1]
MCAskerOf   == [c \in {c1, c2} |-> "alice"]

Parts == {"subagents", "jobs", "dispatch", "histories", "failover", "approvals",
          "supervision", "cost"}

\* What is restored from the chat log matters to the histories only, and the
\* messages that arrive to the dispatcher only.
MCInit ==
  /\ part \in Parts
  /\ SubAgentsInit /\ (part # "subagents" => queue_waits)
  /\ Init /\ (part # "dispatch" => /\ interrupts
                                   /\ is_stop = [m \in Messages |-> FALSE]
                                   /\ scope = [m \in Messages |-> alice])
  /\ JobsInit /\ HistoriesInit /\ (part # "histories" => history = <<>>)
  /\ FailoverInit /\ ApprovalsInit /\ SupervisionInit /\ CostInit

Still(name, state) == part # name => UNCHANGED state

MCNext ==
  /\ \/ part = "subagents" /\ SubAgentsNext
     \/ part = "jobs" /\ JobsNext
     \/ part = "dispatch" /\ Next
     \/ part = "histories" /\ HistoriesNext
     \/ part = "failover" /\ FailoverNext
     \/ part = "approvals" /\ ApprovalsNext
     \/ part = "supervision" /\ SupervisionNext
     \/ part = "cost" /\ CostNext
  /\ Still("subagents", subagentVars) /\ Still("jobs", jobVars)
  /\ Still("dispatch", vars) /\ Still("histories", historyVars)
  /\ Still("failover", failoverVars) /\ Still("approvals", approvalVars)
  /\ Still("supervision", supervisionVars) /\ Still("cost", costVars)
  /\ UNCHANGED part

MCVars == <<subagentVars, jobVars, vars, historyVars, failoverVars, approvalVars,
            supervisionVars, costVars, part>>

\* The fairness of each component, in the behaviours that are about it.
MCFairness ==
  /\ \A s \in Sessions : WF_subagentVars(part = "subagents" /\ Advance(s))
  /\ \A p \in Procs : WF_vars(part = "dispatch" /\ ProcessStep(p))
  /\ \A c \in ModelCalls : WF_failoverVars(part = "failover" /\ Proceed(c))
  /\ \A c \in ToolCalls :
       /\ WF_approvalVars(part = "approvals" /\ CallStep(c))
       /\ WF_approvalVars(part = "approvals" /\ TimeUp(c))

MCSpec == MCInit /\ [][MCNext]_MCVars /\ MCFairness
=============================================================================
