--------------------------- MODULE ChannelDispatch ---------------------------
(***************************************************************************)
(* The channel message dispatcher, run_message_dispatch_loop and its        *)
(* InFlightTaskCompletion (channels/mod.rs).                               *)
(*                                                                         *)
(* Listeners put messages in one bounded queue.  The dispatch loop takes    *)
(* them in order: a telegram stop command is handled by the loop itself,    *)
(* any other message waits for a permit and is given a worker task.  The    *)
(* worker registers itself as its sender's in-flight task, if so configured *)
(* interrupts the task it displaces, processes the message and signs off.   *)
(*                                                                         *)
(* Process 0 is the loop, process m > 0 the worker of the m-th message.     *)
(* Every step between two accesses to shared state is an action of its own; *)
(* in particular wait() reads the done flag and creates its notified()      *)
(* future in two steps, which run in parallel with mark_done on the         *)
(* multi-threaded runtime.  What a turn does is abstracted to its duration. *)
(***************************************************************************)
EXTENDS Naturals, FiniteSets

CONSTANTS
  Scopes,        \* interruption scopes: (channel, reply target, sender)
  Telegram,      \* those of the telegram channel
  MaxMessages,   \* bound: messages that arrive in a behaviour
  QueueCapacity, \* of the mpsc channel, 100 in the code
  MaxInFlight    \* compute_max_in_flight_messages

ASSUME DispatchAssumption ==
  /\ Telegram \subseteq Scopes
  /\ MaxMessages \in Nat
  /\ QueueCapacity \in Nat \ {0}
  /\ MaxInFlight \in Nat \ {0}

Messages == 1..MaxMessages
Loop     == 0
Procs    == {Loop} \cup Messages

\* cancel and wait() on the displaced or stopped task.
Waiting == {"cancelling", "load", "subscribe", "await"}

LoopStages   == {"recv", "acquire", "reply", "joining", "ended"} \cup Waiting
WorkerStages == {"none", "spawned", "ready", "processing", "cleanup", "mark",
                 "done"} \cup Waiting

VARIABLES
  interrupts,    \* interrupt_on_new_message
  scope,         \* the input: each message's scope ...
  is_stop,       \* ... and whether it is a stop command
  sent,          \* messages the listeners have put in the queue
  received,      \* messages the loop has taken from it
  closed,        \* every listener has dropped its sender
  permits,       \* of the semaphore
  entry,         \* in_flight_by_sender: the registered worker, 0 if none
  cancelled,     \* workers whose token is cancelled
  done,          \* workers whose completion is marked
  pc,
  target,        \* the worker whose completion a process waits for
  \* history of the model
  turns,         \* registrations made in a telegram scope
  turn           \* how many there were with the worker's own, 0 before it

inputVars == <<interrupts, scope, is_stop>>
queueVars == <<sent, received, closed>>
turnVars  == <<turns, turn>>
\* What no action, or only Register, changes.
fixedVars == <<inputVars, turnVars>>
vars == <<inputVars, queueVars, permits, entry, cancelled, done, pc, target,
          turnVars>>

IsTelegram(m) == scope[m] \in Telegram

\* The tasks that hold a permit.
InFlight == {m \in Messages : pc[m] \notin {"none", "done"}}

-----------------------------------------------------------------------------
(* Listeners                                                               *)

\* send waits while the queue is full.
Send ==
  /\ ~closed /\ sent < MaxMessages /\ sent - received < QueueCapacity
  /\ sent' = sent + 1
  /\ UNCHANGED <<fixedVars, received, closed, permits, entry, cancelled, done,
                 pc, target>>

\* The last listener ends.
Close ==
  /\ ~closed
  /\ closed' = TRUE
  /\ UNCHANGED <<fixedVars, sent, received, permits, entry, cancelled, done,
                 pc, target>>

-----------------------------------------------------------------------------
(* The dispatch loop                                                       *)

\* A stop command: the sender's entry is taken out; with none, nothing is said.
ReceiveStop(m) ==
  LET s == scope[m]
  IN /\ IsTelegram(m) /\ is_stop[m]
     /\ entry' = [entry EXCEPT ![s] = 0]
     /\ target' = [target EXCEPT ![Loop] = entry[s]]
     /\ pc' = [pc EXCEPT ![Loop] = IF entry[s] = 0 THEN "recv" ELSE "cancelling"]

ReceiveMessage(m) ==
  /\ ~(IsTelegram(m) /\ is_stop[m])
  /\ pc' = [pc EXCEPT ![Loop] = "acquire"]
  /\ UNCHANGED <<entry, target>>

Receive ==
  /\ pc[Loop] = "recv" /\ received < sent
  /\ received' = received + 1
  /\ ReceiveStop(received + 1) \/ ReceiveMessage(received + 1)
  /\ UNCHANGED <<fixedVars, sent, closed, permits, cancelled, done>>

\* With a permit the worker is spawned; the loop goes back to recv.
Acquire ==
  /\ pc[Loop] = "acquire" /\ permits > 0
  /\ permits' = permits - 1
  /\ pc' = [pc EXCEPT ![Loop] = "recv", ![received] = "spawned"]
  /\ UNCHANGED <<fixedVars, queueVars, entry, cancelled, done, target>>

\* The pause reply to the user.
Reply ==
  /\ pc[Loop] = "reply"
  /\ pc' = [pc EXCEPT ![Loop] = "recv"]
  /\ target' = [target EXCEPT ![Loop] = 0]
  /\ UNCHANGED <<fixedVars, queueVars, permits, entry, cancelled, done>>

\* Mutant of LeaveLoop: what is still queued is dropped.
LeaveAtOnce ==
  /\ pc[Loop] = "recv" /\ closed
  /\ pc' = [pc EXCEPT ![Loop] = "joining"]
  /\ UNCHANGED <<fixedVars, queueVars, permits, entry, cancelled, done, target>>

\* recv returns None once the channel is closed and drained.
LeaveLoop ==
  /\ pc[Loop] = "recv" /\ closed /\ received = sent
  /\ pc' = [pc EXCEPT ![Loop] = "joining"]
  /\ UNCHANGED <<fixedVars, queueVars, permits, entry, cancelled, done, target>>

JoinAll ==
  /\ pc[Loop] = "joining" /\ InFlight = {}
  /\ pc' = [pc EXCEPT ![Loop] = "ended"]
  /\ UNCHANGED <<fixedVars, queueVars, permits, entry, cancelled, done, target>>

-----------------------------------------------------------------------------
(* Cancelling a task and waiting for it: the loop after a stop command, a   *)
(* worker that interrupts                                                  *)

\* Where a process goes when its wait is over.
Released(p) == IF p = Loop THEN "reply" ELSE "ready"

\* Mutant of CancelTarget: the task is not waited for.
CancelOnly(p) ==
  /\ pc[p] = "cancelling"
  /\ cancelled' = cancelled \cup {target[p]}
  /\ pc' = [pc EXCEPT ![p] = Released(p)]
  /\ UNCHANGED <<fixedVars, queueVars, permits, entry, done, target>>

CancelTarget(p) ==
  /\ pc[p] = "cancelling"
  /\ cancelled' = cancelled \cup {target[p]}
  /\ pc' = [pc EXCEPT ![p] = "load"]
  /\ UNCHANGED <<fixedVars, queueVars, permits, entry, done, target>>

\* wait: the done flag is read.
LoadDone(p) ==
  /\ pc[p] = "load"
  /\ pc' = [pc EXCEPT ![p] = IF target[p] \in done THEN Released(p)
                             ELSE "subscribe"]
  /\ UNCHANGED <<fixedVars, queueVars, permits, entry, cancelled, done, target>>

\* wait: the notified() future is created, only now is a notification seen.
Subscribe(p) ==
  /\ pc[p] = "subscribe"
  /\ pc' = [pc EXCEPT ![p] = "await"]
  /\ UNCHANGED <<fixedVars, queueVars, permits, entry, cancelled, done, target>>

-----------------------------------------------------------------------------
(* Workers                                                                 *)

\* Mutant of Register: the map is read after the insertion.
RegisterThenLook(m) ==
  LET s == scope[m]
  IN /\ pc[m] = "spawned"
     /\ entry' = IF IsTelegram(m) THEN [entry EXCEPT ![s] = m] ELSE entry
     /\ target' = [target EXCEPT
                     ![m] = IF interrupts /\ IsTelegram(m) THEN entry'[s] ELSE 0]
     /\ pc' = [pc EXCEPT ![m] = IF target'[m] # 0 THEN "cancelling" ELSE "ready"]
     /\ turns' = IF IsTelegram(m) THEN [turns EXCEPT ![s] = @ + 1] ELSE turns
     /\ turn' = IF IsTelegram(m) THEN [turn EXCEPT ![m] = turns'[s]] ELSE turn
     /\ UNCHANGED <<inputVars, queueVars, permits, cancelled, done>>

\* Insert the own entry; the displaced one matters only to an interrupter.
Register(m) ==
  LET s == scope[m]
      previous == IF IsTelegram(m) THEN entry[s] ELSE 0
  IN /\ pc[m] = "spawned"
     /\ entry' = IF IsTelegram(m) THEN [entry EXCEPT ![s] = m] ELSE entry
     /\ target' = [target EXCEPT ![m] = IF interrupts THEN previous ELSE 0]
     /\ pc' = [pc EXCEPT ![m] = IF interrupts /\ previous # 0 THEN "cancelling"
                                ELSE "ready"]
     /\ turns' = IF IsTelegram(m) THEN [turns EXCEPT ![s] = @ + 1] ELSE turns
     /\ turn' = IF IsTelegram(m) THEN [turn EXCEPT ![m] = turns'[s]] ELSE turn
     /\ UNCHANGED <<inputVars, queueVars, permits, cancelled, done>>

\* process_channel_message returns at once when the token is cancelled.
StartProcessing(m) ==
  /\ pc[m] = "ready"
  /\ pc' = [pc EXCEPT ![m] = IF m \in cancelled THEN "cleanup" ELSE "processing"]
  /\ UNCHANGED <<fixedVars, queueVars, permits, entry, cancelled, done, target>>

\* The turn ends: completed, failed, timed out or cancelled.
FinishProcessing(m) ==
  /\ pc[m] = "processing"
  /\ pc' = [pc EXCEPT ![m] = "cleanup"]
  /\ UNCHANGED <<fixedVars, queueVars, permits, entry, cancelled, done, target>>

\* Mutant of Cleanup: whatever is registered for the sender is removed.
CleanupAny(m) ==
  /\ pc[m] = "cleanup"
  /\ entry' = IF IsTelegram(m) THEN [entry EXCEPT ![scope[m]] = 0] ELSE entry
  /\ pc' = [pc EXCEPT ![m] = "mark"]
  /\ UNCHANGED <<fixedVars, queueVars, permits, cancelled, done, target>>

\* Mutant of Cleanup: the own entry stays.
CleanupNone(m) ==
  /\ pc[m] = "cleanup"
  /\ pc' = [pc EXCEPT ![m] = "mark"]
  /\ UNCHANGED <<fixedVars, queueVars, permits, entry, cancelled, done, target>>

\* Only the own entry is removed.
Cleanup(m) ==
  /\ pc[m] = "cleanup"
  /\ entry' = IF IsTelegram(m) /\ entry[scope[m]] = m
              THEN [entry EXCEPT ![scope[m]] = 0] ELSE entry
  /\ pc' = [pc EXCEPT ![m] = "mark"]
  /\ UNCHANGED <<fixedVars, queueVars, permits, cancelled, done, target>>

\* mark_done stores the flag and wakes the futures that exist by then; the
\* task ends and its permit drops.  (Store and notify are one step: a reader
\* in between acts as if before or after both.)
MarkDone(m) ==
  /\ pc[m] = "mark"
  /\ done' = done \cup {m}
  /\ pc' = [p \in Procs |-> IF p = m THEN "done"
                            ELSE IF pc[p] = "await" /\ target[p] = m
                            THEN Released(p) ELSE pc[p]]
  /\ permits' = permits + 1
  /\ UNCHANGED <<fixedVars, queueVars, entry, cancelled, target>>

-----------------------------------------------------------------------------
Init ==
  /\ interrupts \in BOOLEAN
  /\ scope \in [Messages -> Scopes]
  /\ is_stop \in [Messages -> BOOLEAN]
  /\ sent = 0 /\ received = 0 /\ closed = FALSE
  /\ permits = MaxInFlight
  /\ entry = [s \in Scopes |-> 0]
  /\ cancelled = {} /\ done = {}
  /\ pc = [p \in Procs |-> IF p = Loop THEN "recv" ELSE "none"]
  /\ target = [p \in Procs |-> 0]
  /\ turns = [s \in Scopes |-> 0] /\ turn = [m \in Messages |-> 0]

LoopStep == Receive \/ Acquire \/ Reply \/ LeaveLoop \/ JoinAll

WaitStep(p) == CancelTarget(p) \/ LoadDone(p) \/ Subscribe(p)

WorkerStep(m) ==
  \/ Register(m) \/ StartProcessing(m) \/ FinishProcessing(m) \/ Cleanup(m)
  \/ MarkDone(m)

Next ==
  \/ Send \/ Close \/ LoopStep
  \/ \E p \in Procs : WaitStep(p)
  \/ \E m \in Messages : WorkerStep(m)

Spec == Init /\ [][Next]_vars

\* The next step of the loop or of a worker.
ProcessStep(p) ==
  \/ p = Loop /\ LoopStep
  \/ WaitStep(p)
  \/ p # Loop /\ WorkerStep(p)

\* Runnable tasks are run; a turn sits in a timeout.  Nobody has to write.
Fairness == \A p \in Procs : WF_vars(ProcessStep(p))

FairSpec == Spec /\ Fairness

-----------------------------------------------------------------------------
TypeOK ==
  /\ interrupts \in BOOLEAN
  /\ scope \in [Messages -> Scopes] /\ is_stop \in [Messages -> BOOLEAN]
  /\ sent \in 0..MaxMessages /\ received \in 0..sent /\ closed \in BOOLEAN
  /\ permits \in 0..MaxInFlight
  /\ entry \in [Scopes -> Procs]
  /\ cancelled \subseteq Messages /\ done \subseteq Messages
  /\ pc \in [Procs -> LoopStages \cup WorkerStages]
  /\ pc[Loop] \in LoopStages
  /\ \A m \in Messages : pc[m] \in WorkerStages
  /\ target \in [Procs -> Procs]
  /\ turns \in [Scopes -> Nat] /\ turn \in [Messages -> Nat]

\* The semaphore bounds the workers: one that has ended gives back its permit,
\* one that is cancelled or waits for another still holds it.
InFlightBounded == Cardinality(InFlight) <= MaxInFlight

\* A worker that is registered and has not begun to sign off.
Registered(m) ==
  pc[m] \in Waiting \cup {"ready", "processing", "cleanup"}

\* Some process has taken m's entry and is about to cancel it.
AboutToCancel(m) == \E p \in Procs : pc[p] = "cancelling" /\ target[p] = m

(***************************************************************************)
(* The entry of a sender is a worker of that sender which has not ended: a  *)
(* stop command never waits for a task of the past or of somebody else.     *)
(***************************************************************************)
EntryIsLive ==
  \A s \in Scopes :
    entry[s] # 0 => Registered(entry[s]) /\ scope[entry[s]] = s

(***************************************************************************)
(* With interrupt_on_new_message no registered turn escapes: one that is    *)
(* not cancelled is the sender's entry, where a stop command finds it, or   *)
(* is about to be cancelled by the process that took its entry.             *)
(***************************************************************************)
NoneEscapes ==
  interrupts =>
    \A m \in Messages :
      IsTelegram(m) /\ Registered(m) /\ m \notin cancelled =>
        entry[scope[m]] = m \/ AboutToCancel(m)

(***************************************************************************)
(* With interrupt_on_new_message a sender has one turn at a time: two are   *)
(* processed side by side only while the loop still waits for a stopped     *)
(* one, and all but one of them are cancelled then.                         *)
(***************************************************************************)
OneTurnAtATime ==
  interrupts =>
    \A m, n \in Messages :
      /\ m # n /\ scope[m] = scope[n] /\ IsTelegram(m)
      /\ pc[m] = "processing" /\ pc[n] = "processing"
      => /\ pc[Loop] \in Waiting /\ scope[target[Loop]] = scope[m]
         /\ \/ m \in cancelled \/ n \in cancelled
            \/ AboutToCancel(m) \/ AboutToCancel(n)

\* The user reads that the task is paused only when the task has ended, and
\* an interrupter starts its turn only when the displaced turn has ended.
ReleasedAfterDone ==
  /\ pc[Loop] = "reply" => target[Loop] \in done
  /\ \A m \in Messages :
       pc[m] \in {"ready", "processing"} /\ target[m] # 0 => target[m] \in done

(***************************************************************************)
(* When the loop returns, every message the listeners delivered was taken,  *)
(* and no worker is left behind or registered.                              *)
(***************************************************************************)
ShutdownDrains ==
  pc[Loop] = "ended" =>
    /\ received = sent /\ InFlight = {}
    /\ \A s \in Scopes : entry[s] = 0

\* A process that waits for a notification already given.
LostWakeUp(p) == pc[p] = "await" /\ target[p] \in done

\* The loop has dealt with message m, and so has the worker it got, if any.
Ended(m) ==
  /\ m < received \/ (m = received /\ pc[Loop] \in {"recv", "joining", "ended"})
  /\ pc[m] \in {"none", "done"}

(***************************************************************************)
(* Every message in the queue is dealt with, whoever stops and interrupts   *)
(* whom and however few permits there are: processes never wait in a        *)
(* circle.  The one way to hang is a wake-up that wait() loses.             *)
(***************************************************************************)
MessagesEnd ==
  \A m \in Messages :
    (sent >= m) ~> (Ended(m) \/ \E p \in Procs : LostWakeUp(p))

(***************************************************************************)
(* "Always register in-flight tasks for Telegram so /pause can find them":  *)
(* once a stop command has been handled, each earlier message of its sender *)
(* is cancelled or has ended.                                               *)
(***************************************************************************)
StopReaches ==
  \A n \in Messages :
    /\ IsTelegram(n) /\ is_stop[n] /\ n <= received
    /\ n < received \/ pc[Loop] = "recv"
    => \A m \in 1..(n - 1) :
         scope[m] = scope[n] /\ ~is_stop[m] =>
           m \in cancelled \/ pc[m] \in {"cleanup", "mark", "done"}

\* A stop command that found a task is answered: wait() comes back.
StopAnswered == (pc[Loop] = "load") ~> (pc[Loop] = "reply")
=============================================================================
