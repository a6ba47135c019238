-------------------------- MODULE OrderedMailboxes --------------------------
(***************************************************************************)
(* What the coordination bus promises the agents behind it, without its    *)
(* indexes, its context and its dead letters: every accepted message gets  *)
(* the next sequence number, each mailbox is a bounded queue that loses    *)
(* its oldest message when it is full, and an agent takes messages from    *)
(* the front only.                                                         *)
(***************************************************************************)
EXTENDS Integers, Sequences

CONSTANTS Agents, Capacity

VARIABLES
  issued,    \* the last sequence number given out
  waiting,   \* per agent, the sequence numbers in its mailbox
  taken      \* per agent, the last sequence number it took

mailboxVars == <<issued, waiting, taken>>

Init ==
  /\ issued = 0
  /\ waiting = [a \in Agents |-> <<>>]
  /\ taken = [a \in Agents |-> 0]

Room(box) == IF Len(box) >= Capacity THEN Tail(box) ELSE box

\* A message goes to the mailboxes of `targets`, none if it was refused late.
Send(targets) ==
  /\ issued' = issued + 1
  /\ waiting' = [a \in Agents |-> IF a \in targets
                                  THEN Append(Room(waiting[a]), issued + 1)
                                  ELSE waiting[a]]
  /\ UNCHANGED taken

Receive(a, count) ==
  /\ waiting' = [waiting EXCEPT ![a] = SubSeq(@, count + 1, Len(@))]
  /\ taken' = [taken EXCEPT ![a] = waiting[a][count]]
  /\ UNCHANGED issued

\* The mailbox is closed with what is in it.
Close(a) ==
  /\ waiting' = [waiting EXCEPT ![a] = <<>>]
  /\ UNCHANGED <<issued, taken>>

Next ==
  \/ \E targets \in SUBSET Agents : Send(targets)
  \/ \E a \in Agents : \E count \in 1 .. Len(waiting[a]) : Receive(a, count)
  \/ \E a \in Agents : Close(a)

Spec == Init /\ [][Next]_mailboxVars

\* Every mailbox is in sequence order, ahead of what its agent has taken.
InOrder ==
  \A a \in Agents :
    /\ \A i, j \in 1 .. Len(waiting[a]) : i < j => waiting[a][i] < waiting[a][j]
    /\ \A i \in 1 .. Len(waiting[a]) : waiting[a][i] \in taken[a] + 1 .. issued
    /\ taken[a] <= issued
=============================================================================
