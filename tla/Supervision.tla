----------------------------- MODULE Supervision -----------------------------
(***************************************************************************)
(* The two restart loops of the daemon: spawn_component_supervisor of      *)
(* src/daemon/mod.rs and spawn_supervised_listener of src/channels/mod.rs. *)
(* A component that ends is marked in the health registry, waits a backoff *)
(* that doubles and is run again.  A listener also ends when the message   *)
(* queue it feeds is closed.  A panic is no step: release builds abort.    *)
(***************************************************************************)
EXTENDS Integers

CONSTANTS
  Components,      \* supervised components and channel listeners
  Listeners,       \* those that are channel listeners
  InitialBackoff, MaxBackoff,   \* as configured, in seconds
  MaxEnds          \* bound of the model: how often a component may end

ASSUME SupervisionAssumption ==
  /\ Listeners \subseteq Components
  /\ InitialBackoff \in Nat /\ MaxBackoff \in Nat /\ MaxEnds \in Nat

AtLeast(a, b) == IF a < b THEN b ELSE a
AtMost(a, b)  == IF a > b THEN b ELSE a

FirstBackoff == AtLeast(InitialBackoff, 1)
LastBackoff  == AtLeast(MaxBackoff, FirstBackoff)

VARIABLES
  supervisors,   \* per component, its loop: pc and backoff
  health,        \* the health registry: status and restart_count
  queue_open,    \* whether the dispatch loop still reads the message queue
  waits,         \* history: backoffs slept since the last clean exit
  ends           \* how often each component has ended

supervisionVars == <<supervisors, health, queue_open, waits, ends>>

SupervisionInit ==
  /\ supervisors = [c \in Components |-> [pc |-> "top", backoff |-> FirstBackoff]]
  /\ health = [c \in Components |-> [status |-> "starting", restart_count |-> 0]]
  /\ queue_open = TRUE
  /\ waits = [c \in Components |-> 0]
  /\ ends = [c \in Components |-> 0]

\* mark_component_ok and the call of the component.
RunComponent(c) ==
  /\ supervisors[c].pc = "top"
  /\ supervisors' = [supervisors EXCEPT ![c].pc = "running"]
  /\ health' = [health EXCEPT ![c].status = "ok"]
  /\ UNCHANGED <<queue_open, waits, ends>>

MayEnd(c) ==
  supervisors[c].pc = "running" /\ ends[c] < MaxEnds
    /\ ends' = [ends EXCEPT ![c] = @ + 1]

\* mark_component_error and bump_component_restart
Restarting(c, backoff) ==
  /\ supervisors' = [supervisors EXCEPT ![c] = [pc |-> "sleeping", backoff |-> backoff]]
  /\ health' = [health EXCEPT ![c] = [status |-> "error",
                                      restart_count |-> @.restart_count + 1]]

Feeds(c) == c \in Listeners => queue_open

\* A clean exit starts the backoff anew.
Exit(c) ==
  /\ MayEnd(c) /\ Feeds(c)
  /\ Restarting(c, FirstBackoff)
  /\ waits' = [waits EXCEPT ![c] = 0]
  /\ UNCHANGED queue_open

Fail(c) ==
  /\ MayEnd(c) /\ Feeds(c)
  /\ Restarting(c, supervisors[c].backoff)
  /\ UNCHANGED <<queue_open, waits>>

\* A listener that ends after the queue was closed leaves without a trace.
Leave(c) ==
  /\ MayEnd(c) /\ ~Feeds(c)
  /\ supervisors' = [supervisors EXCEPT ![c].pc = "left"]
  /\ UNCHANGED <<health, queue_open, waits>>

\* Mutant of Doubled: the cap is applied before the doubling.
DoubledAfterCap(backoff) == 2 * AtMost(backoff, LastBackoff)
Doubled(backoff) == AtMost(2 * backoff, LastBackoff)

AfterSleep(backoff) == [pc |-> "top", backoff |-> Doubled(backoff)]

Sleep(c) ==
  /\ supervisors[c].pc = "sleeping"
  /\ supervisors' = [supervisors EXCEPT ![c] = AfterSleep(@.backoff)]
  /\ waits' = [waits EXCEPT ![c] = @ + 1]
  /\ UNCHANGED <<health, queue_open, ends>>

\* The tick of a listener's health interval while it listens.
HealthTick(c) ==
  /\ c \in Listeners /\ supervisors[c].pc = "running"
  /\ health' = [health EXCEPT ![c].status = "ok"]
  /\ UNCHANGED <<supervisors, queue_open, waits, ends>>

\* The dispatch loop, and with it the receiving end, is gone.
CloseQueue ==
  /\ queue_open /\ queue_open' = FALSE
  /\ UNCHANGED <<supervisors, health, waits, ends>>

SupervisorLoop(c) == RunComponent(c) \/ Sleep(c)

SupervisionNext ==
  \/ \E c \in Components : \/ SupervisorLoop(c) \/ HealthTick(c)
                           \/ Exit(c) \/ Fail(c) \/ Leave(c)
  \/ CloseQueue

SupervisionSpec == SupervisionInit /\ [][SupervisionNext]_supervisionVars

----------------------------------------------------------------------------
(* Properties                                                              *)

\* The first backoff, doubled n times.
Growing[n \in Nat] == IF n = 0 THEN FirstBackoff ELSE 2 * Growing[n - 1]

\* The wait before a restart depends only on how many waits there were since
\* the last clean exit: the first is the initial backoff, each next one twice
\* as long, none longer than the maximum, whatever mix of exits and errors.
BackoffFollowsFailures ==
  \A c \in Components : supervisors[c].pc = "sleeping" =>
    supervisors[c].backoff = AtMost(Growing[waits[c]], LastBackoff)
=============================================================================
