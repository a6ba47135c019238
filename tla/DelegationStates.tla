-------------------------- MODULE DelegationStates --------------------------
(***************************************************************************)
(* What a reader of the shared context may rely on about delegations:       *)
(* a delegation is first shown as queued and then, at most once, as closed. *)
(* Only the Capacity delegations that changed last are shown, and one that  *)
(* has disappeared from view never comes back.                              *)
(***************************************************************************)
EXTENDS Naturals, Sequences, SequencesExt

CONSTANTS Delegations, Capacity

VARIABLES
  queued, closed,  \* the delegations that have been shown as queued, closed
  shown            \* those that are shown, the one that changed last at the end

stateVars == <<queued, closed, shown>>

Init == queued = {} /\ closed = {} /\ shown = <<>>

Room(order) == IF Len(order) >= Capacity THEN Tail(order) ELSE order

Queue(c) ==
  /\ c \notin queued
  /\ queued' = queued \cup {c}
  /\ shown' = Append(Room(shown), c)
  /\ UNCHANGED closed

Close(c) ==
  /\ Contains(shown, c) /\ c \notin closed
  /\ closed' = closed \cup {c}
  /\ shown' = Append(RemoveFirst(shown, c), c)
  /\ UNCHANGED queued

Next == \E c \in Delegations : Queue(c) \/ Close(c)

Spec == Init /\ [][Next]_stateVars
=============================================================================
