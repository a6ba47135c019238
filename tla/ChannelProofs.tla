--------------------------- MODULE ChannelProofs ----------------------------
(***************************************************************************)
(* Theorems about the channels: the message dispatcher, and the history    *)
(* that the turns of one sender share.                                     *)
(*                                                                         *)
(* The invariant of the dispatcher is built in three layers.  Stages       *)
(* relates what a process is doing to the queue, the permits and the       *)
(* registry.  Chain says that the registered workers of a telegram sender  *)
(* wait for each other in the order in which they registered.  NoneEscapes *)
(* and OneTurnAtATime follow.                                              *)
(***************************************************************************)
EXTENDS ChannelDispatch, Histories, SequenceLemmas

-----------------------------------------------------------------------------
(* The layers of the invariant                                             *)

\* Types, without the upper bound of the permits, which Permits gives.
Shape ==
  /\ interrupts \in BOOLEAN
  /\ scope \in [Messages -> Scopes] /\ is_stop \in [Messages -> BOOLEAN]
  /\ sent \in 0..MaxMessages /\ received \in 0..sent /\ closed \in BOOLEAN
  /\ permits \in Nat
  /\ entry \in [Scopes -> Procs]
  /\ cancelled \subseteq Messages /\ done \subseteq Messages
  /\ pc \in [Procs -> LoopStages \cup WorkerStages]
  /\ pc[Loop] \in LoopStages
  /\ \A m \in Messages : pc[m] \in WorkerStages
  /\ target \in [Procs -> Procs]
  /\ turns \in [Scopes -> Nat] /\ turn \in [Messages -> Nat]

\* What the loop has not handed out has no worker.
Taken ==
  /\ \A m \in Messages : pc[m] # "none" => m <= received
  /\ pc[Loop] = "acquire" => received > 0 /\ pc[received] = "none"

\* The end of the loop.
Drained ==
  /\ pc[Loop] \in {"joining", "ended"} => closed /\ received = sent
  /\ pc[Loop] = "ended" => InFlight = {}

DoneMarked == \A m \in Messages : m \in done <=> pc[m] = "done"

\* Nothing is lost of the semaphore's permits.
Permits == permits + Cardinality(InFlight) = MaxInFlight

\* Turns are given once, in order, to the telegram workers that registered.
Turns ==
  /\ \A m \in Messages :
       /\ turn[m] <= turns[scope[m]]
       /\ turn[m] > 0 <=> IsTelegram(m) /\ pc[m] \notin {"none", "spawned"}
  /\ \A m, n \in Messages :
       scope[m] = scope[n] /\ turn[m] = turn[n] /\ turn[m] > 0 => m = n

\* The entry is the live worker that registered last.
Entries ==
  \A s \in Scopes :
    entry[s] # 0 =>
      /\ s \in Telegram /\ Registered(entry[s]) /\ scope[entry[s]] = s
      /\ turn[entry[s]] = turns[s]

\* Who waits, waits for a registered worker; an interrupter for an older one
\* of its own sender.
Targets ==
  /\ pc[Loop] \in Waiting =>
       target[Loop] \in Messages /\ turn[target[Loop]] > 0
  /\ \A m \in Messages : pc[m] \in Waiting =>
       /\ target[m] \in Messages /\ turn[target[m]] > 0
       /\ interrupts /\ scope[target[m]] = scope[m]
       /\ turn[target[m]] < turn[m]

Stages ==
  Shape /\ Taken /\ Drained /\ DoneMarked /\ Turns /\ Entries /\ Targets

\* The turn of m is behind it, or m has got past waiting.
Over(m)   == pc[m] \in {"cleanup", "mark", "done"}
Passed(m) == pc[m] \in {"ready", "processing", "cleanup", "mark", "done"}

\* The loop waits for a stopped worker of scope s with turn t.
LoopStops(s, t) ==
  /\ pc[Loop] \in Waiting
  /\ scope[target[Loop]] = s /\ turn[target[Loop]] = t

\* All earlier registrations are over when a worker gets past waiting, but
\* for those the loop is stopping.
EarlierOver ==
  \A v, w \in Messages :
    /\ scope[v] = scope[w] /\ turn[v] > 0 /\ turn[v] < turn[w] /\ Passed(w)
    => Over(v) \/ \E t \in Nat : /\ LoopStops(scope[v], t)
                                 /\ turn[v] <= t /\ t < turn[w]

\* Nobody registers between a worker and the one it waits for.
Adjacent ==
  \A v, w \in Messages :
    /\ pc[w] \in Waiting /\ scope[v] = scope[w]
    => ~(turn[target[w]] < turn[v] /\ turn[v] < turn[w])

\* Without an entry all registrations are over, but for those being stopped.
NoEntry ==
  \A v \in Messages :
    /\ turn[v] > 0 /\ entry[scope[v]] = 0
    => Over(v) \/ \E t \in Nat : LoopStops(scope[v], t) /\ turn[v] <= t

Chain == interrupts => EarlierOver /\ Adjacent /\ NoEntry

\* A step that neither registers nor signs off, and releases nobody.
Calm ==
  /\ UNCHANGED <<interrupts, scope, turn, entry>>
  /\ \A m \in Messages :
       /\ Over(m) => Over(m)'
       /\ Passed(m)' => Passed(m)
       /\ pc'[m] \in Waiting => pc[m] \in Waiting /\ target'[m] = target[m]
  /\ pc[Loop] \in Waiting =>
       pc'[Loop] \in Waiting /\ target'[Loop] = target[Loop]

\* A step that releases processes from waiting for a worker that is over.
Releasing ==
  /\ UNCHANGED <<interrupts, scope, turn, entry, target>>
  /\ \A m \in Messages :
       /\ Over(m) => Over(m)'
       /\ Passed(m)' => Passed(m) \/ (pc[m] \in Waiting /\ Over(target[m]))
       /\ pc'[m] \in Waiting => pc[m] \in Waiting
  /\ pc[Loop] \in Waiting => pc'[Loop] \in Waiting \/ Over(target[Loop])

-----------------------------------------------------------------------------
(* Every step keeps each layer                                            *)

USE DEF Procs, Messages, Loop, Waiting, LoopStages, WorkerStages,
        fixedVars, inputVars, turnVars, queueVars

\* Every step keeps the types.
LEMMA ShapeStep ==
  ASSUME Shape, Taken, Targets, [Next]_vars
  PROVE  Shape'
<1>1. ASSUME Send PROVE Shape'
  <2>1. sent \in Nat /\ sent + 1 \in 0 .. MaxMessages
    BY <1>1, DispatchAssumption DEF Shape, Send
  <2>. QED
    BY <1>1, <2>1 DEF Shape, Send
<1>2. ASSUME Close PROVE Shape'
  BY <1>2 DEF Shape, Taken, Targets, Close
<1>3. ASSUME Receive, ReceiveStop(received + 1) PROVE Shape'
  <2>1. received + 1 \in Messages /\ received + 1 \in 0 .. sent
    BY <1>3, DispatchAssumption DEF Shape, Receive
  <2>2. scope[received + 1] \in Scopes
    BY <2>1 DEF Shape
  <2>3. /\ entry' \in [Scopes -> Procs] /\ target' \in [Procs -> Procs]
    BY <1>3, <2>2 DEF Shape, ReceiveStop
  <2>4. /\ pc' \in [Procs -> LoopStages \cup WorkerStages]
        /\ pc'[Loop] \in LoopStages
        /\ \A m \in Messages : pc'[m] = pc[m]
    BY <1>3, <2>2 DEF Shape, ReceiveStop
  <2>. QED
    BY <1>3, <2>1, <2>3, <2>4 DEF Shape, Receive
<1>4. ASSUME Receive, ReceiveMessage(received + 1) PROVE Shape'
  <2>1. received + 1 \in Messages /\ received + 1 \in 0 .. sent
    BY <1>4, DispatchAssumption DEF Shape, Receive
  <2>. QED
    BY <1>4, <2>1 DEF Shape, Receive, ReceiveMessage
<1>5. ASSUME Acquire PROVE Shape'
  <2>1. permits - 1 \in Nat /\ received \in Messages
    BY <1>5, DispatchAssumption DEF Shape, Taken, Acquire
  <2>2. /\ pc' \in [Procs -> LoopStages \cup WorkerStages]
        /\ pc'[Loop] = "recv" /\ pc'[received] = "spawned"
        /\ \A m \in Messages : m # received => pc'[m] = pc[m]
    BY <1>5, <2>1 DEF Shape, Acquire
  <2>. QED
    BY <1>5, <2>1, <2>2 DEF Shape, Acquire
<1>6. ASSUME Reply PROVE Shape'
  BY <1>6 DEF Shape, Taken, Targets, Reply
<1>7. ASSUME LeaveLoop PROVE Shape'
  BY <1>7 DEF Shape, Taken, Targets, LeaveLoop
<1>8. ASSUME JoinAll PROVE Shape'
  BY <1>8 DEF Shape, Taken, Targets, JoinAll
<1>9. ASSUME NEW p \in Procs, CancelTarget(p) PROVE Shape'
  <2>1. cancelled' \subseteq Messages
    BY <1>9 DEF Shape, Targets, CancelTarget
  <2>2. pc' = [pc EXCEPT ![p] = "load"]
    BY <1>9 DEF CancelTarget
  <2>. QED
    BY <1>9, <2>1, <2>2 DEF Shape, CancelTarget
<1>10. ASSUME NEW p \in Procs, LoadDone(p) PROVE Shape'
  BY <1>10 DEF Shape, Taken, Targets, LoadDone, Released
<1>11. ASSUME NEW p \in Procs, Subscribe(p) PROVE Shape'
  BY <1>11 DEF Shape, Taken, Targets, Subscribe
<1>12. ASSUME NEW m \in Messages, Register(m) PROVE Shape'
  <2>1. scope[m] \in Scopes
    BY <1>12 DEF Shape
  <2>2. entry' \in [Scopes -> Procs] /\ target' \in [Procs -> Procs]
    BY <1>12, <2>1 DEF Shape, Register
  <2>3. turns' \in [Scopes -> Nat] /\ turn' \in [Messages -> Nat]
    BY <1>12, <2>1 DEF Shape, Register
  <2>4. /\ pc' \in [Procs -> LoopStages \cup WorkerStages]
        /\ pc'[Loop] = pc[Loop] /\ pc'[m] \in {"cancelling", "ready"}
        /\ \A n \in Messages : n # m => pc'[n] = pc[n]
    BY <1>12 DEF Shape, Register
  <2>. QED
    BY <1>12, <2>2, <2>3, <2>4 DEF Shape, Register
<1>13. ASSUME NEW m \in Messages, StartProcessing(m) PROVE Shape'
  BY <1>13 DEF Shape, Taken, Targets, StartProcessing
<1>14. ASSUME NEW m \in Messages, FinishProcessing(m) PROVE Shape'
  BY <1>14 DEF Shape, Taken, Targets, FinishProcessing
<1>15. ASSUME NEW m \in Messages, Cleanup(m) PROVE Shape'
  BY <1>15 DEF Shape, Taken, Targets, Cleanup
<1>16. ASSUME NEW m \in Messages, MarkDone(m) PROVE Shape'
  BY <1>16 DEF Shape, Taken, Targets, MarkDone, Released
<1>17. ASSUME UNCHANGED vars PROVE Shape'
  BY <1>17 DEF Shape, Taken, Targets, vars
<1>. QED
  BY <1>1, <1>2, <1>3, <1>4, <1>5, <1>6, <1>7, <1>8, <1>9, <1>10, <1>11,
     <1>12, <1>13, <1>14, <1>15, <1>16, <1>17
    DEF Next, LoopStep, WaitStep, WorkerStep, Receive

\* Only the loop starts workers, one for each message it takes.
LEMMA TakenStep ==
  ASSUME Shape, Taken, Targets, [Next]_vars
  PROVE  Taken'
<1>1. ASSUME Send PROVE Taken'
  BY <1>1 DEF Shape, Taken, Targets, Send
<1>2. ASSUME Close PROVE Taken'
  BY <1>2 DEF Shape, Taken, Targets, Close
<1>3. ASSUME Receive, ReceiveStop(received + 1) PROVE Taken'
  <2>1. /\ received' = received + 1 /\ received \in Nat
        /\ pc'[Loop] # "acquire" /\ \A m \in Messages : pc'[m] = pc[m]
    BY <1>3 DEF Shape, Receive, ReceiveStop
  <2>. QED
    BY <2>1 DEF Taken
<1>4. ASSUME Receive, ReceiveMessage(received + 1) PROVE Taken'
  <2>1. /\ received' = received + 1 /\ received \in Nat
        /\ received + 1 \in Messages
        /\ \A m \in Messages : pc'[m] = pc[m]
    BY <1>4, DispatchAssumption DEF Shape, Receive, ReceiveMessage
  <2>2. pc[received + 1] \in WorkerStages /\ ~(received + 1 <= received)
    BY <2>1 DEF Shape
  <2>3. pc[received + 1] = "none"
    BY <2>1, <2>2 DEF Taken
  <2>. QED
    BY <2>1, <2>3 DEF Taken
<1>5. ASSUME Acquire PROVE Taken'
  BY <1>5 DEF Shape, Taken, Targets, Acquire
<1>6. ASSUME Reply PROVE Taken'
  BY <1>6 DEF Shape, Taken, Targets, Reply
<1>7. ASSUME LeaveLoop PROVE Taken'
  BY <1>7 DEF Shape, Taken, Targets, LeaveLoop
<1>8. ASSUME JoinAll PROVE Taken'
  BY <1>8 DEF Shape, Taken, Targets, JoinAll
<1>9. ASSUME NEW p \in Procs, CancelTarget(p) PROVE Taken'
  BY <1>9 DEF Shape, Taken, Targets, CancelTarget
<1>10. ASSUME NEW p \in Procs, LoadDone(p) PROVE Taken'
  BY <1>10 DEF Shape, Taken, Targets, LoadDone, Released
<1>11. ASSUME NEW p \in Procs, Subscribe(p) PROVE Taken'
  BY <1>11 DEF Shape, Taken, Targets, Subscribe
<1>12. ASSUME NEW m \in Messages, Register(m) PROVE Taken'
  BY <1>12 DEF Shape, Taken, Targets, Register
<1>13. ASSUME NEW m \in Messages, StartProcessing(m) PROVE Taken'
  BY <1>13 DEF Shape, Taken, Targets, StartProcessing
<1>14. ASSUME NEW m \in Messages, FinishProcessing(m) PROVE Taken'
  BY <1>14 DEF Shape, Taken, Targets, FinishProcessing
<1>15. ASSUME NEW m \in Messages, Cleanup(m) PROVE Taken'
  BY <1>15 DEF Shape, Taken, Targets, Cleanup
<1>16. ASSUME NEW m \in Messages, MarkDone(m) PROVE Taken'
  <2>1. \A n \in Messages : pc'[n] # "none" => pc[n] # "none"
    BY <1>16 DEF Shape, MarkDone
  <2>2. pc'[Loop] = "acquire" => pc[Loop] = "acquire"
    BY <1>16 DEF Shape, MarkDone, Released
  <2>3. pc[Loop] = "acquire" => received \in Messages /\ received # m
    BY <1>16, DispatchAssumption DEF Shape, Taken, MarkDone
  <2>4. pc[Loop] = "acquire" => pc'[received] = "none"
    BY <1>16, <2>3 DEF Shape, Taken, MarkDone
  <2>. QED
    BY <1>16, <2>1, <2>2, <2>4 DEF Taken, MarkDone
<1>17. ASSUME UNCHANGED vars PROVE Taken'
  BY <1>17 DEF Shape, Taken, Targets, vars
<1>. QED
  BY <1>1, <1>2, <1>3, <1>4, <1>5, <1>6, <1>7, <1>8, <1>9, <1>10, <1>11,
     <1>12, <1>13, <1>14, <1>15, <1>16, <1>17
    DEF Next, LoopStep, WaitStep, WorkerStep, Receive

\* The loop only leaves a closed and drained queue, and ends without workers.
LEMMA DrainedStep ==
  ASSUME Shape, Taken, Drained, [Next]_vars
  PROVE  Drained'
<1>1. ASSUME Send PROVE Drained'
  BY <1>1 DEF Shape, Taken, Drained, InFlight, Send
<1>2. ASSUME Close PROVE Drained'
  BY <1>2 DEF Shape, Taken, Drained, InFlight, Close
<1>3. ASSUME Receive, ReceiveStop(received + 1) PROVE Drained'
  BY <1>3 DEF Shape, Taken, Drained, InFlight, Receive, ReceiveStop
<1>4. ASSUME Receive, ReceiveMessage(received + 1) PROVE Drained'
  BY <1>4 DEF Shape, Taken, Drained, InFlight, Receive, ReceiveMessage
<1>5. ASSUME Acquire PROVE Drained'
  BY <1>5 DEF Shape, Taken, Drained, InFlight, Acquire
<1>6. ASSUME Reply PROVE Drained'
  BY <1>6 DEF Shape, Taken, Drained, InFlight, Reply
<1>7. ASSUME LeaveLoop PROVE Drained'
  BY <1>7 DEF Shape, Taken, Drained, InFlight, LeaveLoop
<1>8. ASSUME JoinAll PROVE Drained'
  BY <1>8 DEF Shape, Taken, Drained, InFlight, JoinAll
<1>9. ASSUME NEW p \in Procs, CancelTarget(p) PROVE Drained'
  BY <1>9 DEF Shape, Taken, Drained, InFlight, CancelTarget
<1>10. ASSUME NEW p \in Procs, LoadDone(p) PROVE Drained'
  BY <1>10 DEF Shape, Taken, Drained, InFlight, LoadDone, Released
<1>11. ASSUME NEW p \in Procs, Subscribe(p) PROVE Drained'
  BY <1>11 DEF Shape, Taken, Drained, InFlight, Subscribe
<1>12. ASSUME NEW m \in Messages, Register(m) PROVE Drained'
  BY <1>12 DEF Shape, Taken, Drained, InFlight, Register
<1>13. ASSUME NEW m \in Messages, StartProcessing(m) PROVE Drained'
  BY <1>13 DEF Shape, Taken, Drained, InFlight, StartProcessing
<1>14. ASSUME NEW m \in Messages, FinishProcessing(m) PROVE Drained'
  BY <1>14 DEF Shape, Taken, Drained, InFlight, FinishProcessing
<1>15. ASSUME NEW m \in Messages, Cleanup(m) PROVE Drained'
  BY <1>15 DEF Shape, Taken, Drained, InFlight, Cleanup
<1>16. ASSUME NEW m \in Messages, MarkDone(m) PROVE Drained'
  BY <1>16 DEF Shape, Taken, Drained, InFlight, MarkDone, Released
<1>17. ASSUME UNCHANGED vars PROVE Drained'
  BY <1>17 DEF Shape, Taken, Drained, InFlight, vars
<1>. QED
  BY <1>1, <1>2, <1>3, <1>4, <1>5, <1>6, <1>7, <1>8, <1>9, <1>10, <1>11,
     <1>12, <1>13, <1>14, <1>15, <1>16, <1>17
    DEF Next, LoopStep, WaitStep, WorkerStep, Receive

\* The completion of a worker is marked when, and only when, it ends.
LEMMA DoneStep ==
  ASSUME Shape, Taken, DoneMarked, [Next]_vars
  PROVE  DoneMarked'
<1>1. ASSUME Send PROVE DoneMarked'
  BY <1>1 DEF Shape, Taken, DoneMarked, Send
<1>2. ASSUME Close PROVE DoneMarked'
  BY <1>2 DEF Shape, Taken, DoneMarked, Close
<1>3. ASSUME Receive, ReceiveStop(received + 1) PROVE DoneMarked'
  BY <1>3 DEF Shape, Taken, DoneMarked, Receive, ReceiveStop
<1>4. ASSUME Receive, ReceiveMessage(received + 1) PROVE DoneMarked'
  BY <1>4 DEF Shape, Taken, DoneMarked, Receive, ReceiveMessage
<1>5. ASSUME Acquire PROVE DoneMarked'
  BY <1>5 DEF Shape, Taken, DoneMarked, Acquire
<1>6. ASSUME Reply PROVE DoneMarked'
  BY <1>6 DEF Shape, Taken, DoneMarked, Reply
<1>7. ASSUME LeaveLoop PROVE DoneMarked'
  BY <1>7 DEF Shape, Taken, DoneMarked, LeaveLoop
<1>8. ASSUME JoinAll PROVE DoneMarked'
  BY <1>8 DEF Shape, Taken, DoneMarked, JoinAll
<1>9. ASSUME NEW p \in Procs, CancelTarget(p) PROVE DoneMarked'
  BY <1>9 DEF Shape, Taken, DoneMarked, CancelTarget
<1>10. ASSUME NEW p \in Procs, LoadDone(p) PROVE DoneMarked'
  BY <1>10 DEF Shape, Taken, DoneMarked, LoadDone, Released
<1>11. ASSUME NEW p \in Procs, Subscribe(p) PROVE DoneMarked'
  BY <1>11 DEF Shape, Taken, DoneMarked, Subscribe
<1>12. ASSUME NEW m \in Messages, Register(m) PROVE DoneMarked'
  BY <1>12 DEF Shape, Taken, DoneMarked, Register
<1>13. ASSUME NEW m \in Messages, StartProcessing(m) PROVE DoneMarked'
  BY <1>13 DEF Shape, Taken, DoneMarked, StartProcessing
<1>14. ASSUME NEW m \in Messages, FinishProcessing(m) PROVE DoneMarked'
  BY <1>14 DEF Shape, Taken, DoneMarked, FinishProcessing
<1>15. ASSUME NEW m \in Messages, Cleanup(m) PROVE DoneMarked'
  BY <1>15 DEF Shape, Taken, DoneMarked, Cleanup
<1>16. ASSUME NEW m \in Messages, MarkDone(m) PROVE DoneMarked'
  BY <1>16 DEF Shape, Taken, DoneMarked, MarkDone, Released
<1>17. ASSUME UNCHANGED vars PROVE DoneMarked'
  BY <1>17 DEF Shape, Taken, DoneMarked, vars
<1>. QED
  BY <1>1, <1>2, <1>3, <1>4, <1>5, <1>6, <1>7, <1>8, <1>9, <1>10, <1>11,
     <1>12, <1>13, <1>14, <1>15, <1>16, <1>17
    DEF Next, LoopStep, WaitStep, WorkerStep, Receive

\* Turns are given in order.
LEMMA TurnsStep ==
  ASSUME Shape, Taken, Turns, [Next]_vars
  PROVE  Turns'
<1>1. ASSUME Send PROVE Turns'
  BY <1>1 DEF Shape, Taken, Turns, IsTelegram, Send
<1>2. ASSUME Close PROVE Turns'
  BY <1>2 DEF Shape, Taken, Turns, IsTelegram, Close
<1>3. ASSUME Receive, ReceiveStop(received + 1) PROVE Turns'
  BY <1>3 DEF Shape, Taken, Turns, IsTelegram, Receive, ReceiveStop
<1>4. ASSUME Receive, ReceiveMessage(received + 1) PROVE Turns'
  BY <1>4 DEF Shape, Taken, Turns, IsTelegram, Receive, ReceiveMessage
<1>5. ASSUME Acquire PROVE Turns'
  BY <1>5 DEF Shape, Taken, Turns, IsTelegram, Acquire
<1>6. ASSUME Reply PROVE Turns'
  BY <1>6 DEF Shape, Taken, Turns, IsTelegram, Reply
<1>7. ASSUME LeaveLoop PROVE Turns'
  BY <1>7 DEF Shape, Taken, Turns, IsTelegram, LeaveLoop
<1>8. ASSUME JoinAll PROVE Turns'
  BY <1>8 DEF Shape, Taken, Turns, IsTelegram, JoinAll
<1>9. ASSUME NEW p \in Procs, CancelTarget(p) PROVE Turns'
  BY <1>9 DEF Shape, Taken, Turns, IsTelegram, CancelTarget
<1>10. ASSUME NEW p \in Procs, LoadDone(p) PROVE Turns'
  BY <1>10 DEF Shape, Taken, Turns, IsTelegram, LoadDone, Released
<1>11. ASSUME NEW p \in Procs, Subscribe(p) PROVE Turns'
  BY <1>11 DEF Shape, Taken, Turns, IsTelegram, Subscribe
<1>12. ASSUME NEW m \in Messages, Register(m) PROVE Turns'
  <2>1. turn[m] \in Nat /\ ~(turn[m] > 0)
    BY <1>12 DEF Shape, Turns, Register
  <2>2. pc'[m] \in {"cancelling", "ready"}
    BY <1>12 DEF Shape, Register
  <2>3. \A n \in Messages : n # m => pc'[n] = pc[n]
    BY <1>12 DEF Shape, Register
  <2>4. /\ scope[m] \in Scopes /\ turns[scope[m]] \in Nat /\ scope' = scope
        /\ pc'[m] \in {"cancelling", "ready"} /\ turn[m] = 0
        /\ \A n \in Messages : n # m => pc'[n] = pc[n]
    BY <1>12, <2>1, <2>2, <2>3 DEF Shape, Register
  <2>5. CASE IsTelegram(m)
    <3>1. /\ turns'[scope[m]] = turns[scope[m]] + 1
          /\ turn'[m] = turns[scope[m]] + 1
          /\ \A s \in Scopes : s # scope[m] => turns'[s] = turns[s]
          /\ \A n \in Messages : n # m => turn'[n] = turn[n]
      BY <1>12, <2>4, <2>5 DEF Shape, Register
    <3>2. \A n \in Messages :
            /\ turn'[n] <= turns'[scope[n]]
            /\ scope[n] = scope[m] /\ n # m => turn'[n] < turn'[m]
      BY <2>4, <3>1 DEF Shape, Turns
    <3>3. \A n \in Messages :
            turn'[n] > 0 <=> IsTelegram(n) /\ pc'[n] \notin {"none", "spawned"}
      BY <2>4, <2>5, <3>1 DEF Shape, Turns
    <3>4. \A n, k \in Messages :
            scope[n] = scope[k] /\ turn'[n] = turn'[k] /\ turn'[n] > 0 => n = k
      <4>1. SUFFICES ASSUME NEW n \in Messages, NEW k \in Messages, n # k,
                            scope[n] = scope[k], turn'[n] = turn'[k],
                            turn'[n] > 0
                     PROVE  FALSE
        OBVIOUS
      <4>2. ASSUME NEW i \in Messages PROVE turn'[i] \in Nat
        <5>1. CASE i = m
          BY <2>4, <3>1, <5>1
        <5>2. CASE i # m
          BY <3>1, <5>2 DEF Shape
        <5>. QED
          BY <5>1, <5>2
      <4>3. n # m /\ k # m
        BY <3>2, <4>1, <4>2
      <4>. QED
        BY <3>1, <4>1, <4>3 DEF Turns
    <3>. QED
      BY <2>4, <3>2, <3>3, <3>4 DEF Turns, IsTelegram
  <2>6. CASE ~IsTelegram(m)
    <3>1. turns' = turns /\ turn' = turn
      BY <1>12, <2>6 DEF Register
    <3>. QED
      BY <2>4, <2>6, <3>1 DEF Turns, IsTelegram
  <2>. QED
    BY <2>5, <2>6
<1>13. ASSUME NEW m \in Messages, StartProcessing(m) PROVE Turns'
  BY <1>13 DEF Shape, Taken, Turns, IsTelegram, StartProcessing
<1>14. ASSUME NEW m \in Messages, FinishProcessing(m) PROVE Turns'
  BY <1>14 DEF Shape, Taken, Turns, IsTelegram, FinishProcessing
<1>15. ASSUME NEW m \in Messages, Cleanup(m) PROVE Turns'
  BY <1>15 DEF Shape, Taken, Turns, IsTelegram, Cleanup
<1>16. ASSUME NEW m \in Messages, MarkDone(m) PROVE Turns'
  BY <1>16 DEF Shape, Taken, Turns, IsTelegram, MarkDone, Released
<1>17. ASSUME UNCHANGED vars PROVE Turns'
  BY <1>17 DEF Shape, Taken, Turns, IsTelegram, vars
<1>. QED
  BY <1>1, <1>2, <1>3, <1>4, <1>5, <1>6, <1>7, <1>8, <1>9, <1>10, <1>11,
     <1>12, <1>13, <1>14, <1>15, <1>16, <1>17
    DEF Next, LoopStep, WaitStep, WorkerStep, Receive

\* An entry is taken out before its worker ends.
LEMMA EntriesStep ==
  ASSUME Shape, Taken, Turns, Entries, [Next]_vars
  PROVE  Entries'
<1>1. ASSUME Send PROVE Entries'
  BY <1>1 DEF Shape, Taken, Turns, Entries, Registered, IsTelegram, Send
<1>2. ASSUME Close PROVE Entries'
  BY <1>2 DEF Shape, Taken, Turns, Entries, Registered, IsTelegram, Close
<1>3. ASSUME Receive, ReceiveStop(received + 1) PROVE Entries'
  BY <1>3
    DEF Shape, Taken, Turns, Entries, Registered, IsTelegram, Receive,
        ReceiveStop
<1>4. ASSUME Receive, ReceiveMessage(received + 1) PROVE Entries'
  BY <1>4
    DEF Shape, Taken, Turns, Entries, Registered, IsTelegram, Receive,
        ReceiveMessage
<1>5. ASSUME Acquire PROVE Entries'
  BY <1>5 DEF Shape, Taken, Turns, Entries, Registered, IsTelegram, Acquire
<1>6. ASSUME Reply PROVE Entries'
  BY <1>6 DEF Shape, Taken, Turns, Entries, Registered, IsTelegram, Reply
<1>7. ASSUME LeaveLoop PROVE Entries'
  BY <1>7 DEF Shape, Taken, Turns, Entries, Registered, IsTelegram, LeaveLoop
<1>8. ASSUME JoinAll PROVE Entries'
  BY <1>8 DEF Shape, Taken, Turns, Entries, Registered, IsTelegram, JoinAll
<1>9. ASSUME NEW p \in Procs, CancelTarget(p) PROVE Entries'
  BY <1>9
    DEF Shape, Taken, Turns, Entries, Registered, IsTelegram, CancelTarget
<1>10. ASSUME NEW p \in Procs, LoadDone(p) PROVE Entries'
  BY <1>10
    DEF Shape, Taken, Turns, Entries, Registered, IsTelegram, LoadDone,
        Released
<1>11. ASSUME NEW p \in Procs, Subscribe(p) PROVE Entries'
  BY <1>11 DEF Shape, Taken, Turns, Entries, Registered, IsTelegram, Subscribe
<1>12. ASSUME NEW m \in Messages, Register(m) PROVE Entries'
  BY <1>12 DEF Shape, Taken, Turns, Entries, Registered, IsTelegram, Register
<1>13. ASSUME NEW m \in Messages, StartProcessing(m) PROVE Entries'
  BY <1>13
    DEF Shape, Taken, Turns, Entries, Registered, IsTelegram, StartProcessing
<1>14. ASSUME NEW m \in Messages, FinishProcessing(m) PROVE Entries'
  BY <1>14
    DEF Shape, Taken, Turns, Entries, Registered, IsTelegram, FinishProcessing
<1>15. ASSUME NEW m \in Messages, Cleanup(m) PROVE Entries'
  BY <1>15 DEF Shape, Taken, Turns, Entries, Registered, IsTelegram, Cleanup
<1>16. ASSUME NEW m \in Messages, MarkDone(m) PROVE Entries'
  BY <1>16
    DEF Shape, Taken, Turns, Entries, Registered, IsTelegram, MarkDone,
        Released
<1>17. ASSUME UNCHANGED vars PROVE Entries'
  BY <1>17 DEF Shape, Taken, Turns, Entries, Registered, IsTelegram, vars
<1>. QED
  BY <1>1, <1>2, <1>3, <1>4, <1>5, <1>6, <1>7, <1>8, <1>9, <1>10, <1>11,
     <1>12, <1>13, <1>14, <1>15, <1>16, <1>17
    DEF Next, LoopStep, WaitStep, WorkerStep, Receive

\* A displaced entry is a registered worker, and older.
LEMMA TargetsStep ==
  ASSUME Shape, Taken, Turns, Entries, Targets, [Next]_vars
  PROVE  Targets'
<1>1. ASSUME Send PROVE Targets'
  BY <1>1
    DEF Shape, Taken, Turns, Entries, Targets, Registered, IsTelegram, Send
<1>2. ASSUME Close PROVE Targets'
  BY <1>2
    DEF Shape, Taken, Turns, Entries, Targets, Registered, IsTelegram, Close
<1>3. ASSUME Receive, ReceiveStop(received + 1) PROVE Targets'
  <2>1. received + 1 \in Messages /\ scope[received + 1] \in Scopes
    BY <1>3, DispatchAssumption DEF Shape, Receive
  <2>2. PICK s \in Scopes : s = scope[received + 1]
    BY <2>1
  <2>3. /\ target'[Loop] = entry[s]
        /\ pc'[Loop] \in Waiting => entry[s] # 0
        /\ \A m \in Messages : pc'[m] = pc[m] /\ target'[m] = target[m]
        /\ turn' = turn /\ scope' = scope /\ interrupts' = interrupts
    BY <1>3, <2>2 DEF Shape, Receive, ReceiveStop
  <2>4. entry[s] # 0 => entry[s] \in Messages /\ turn[entry[s]] > 0
    BY DEF Shape, Entries, Registered, Turns, IsTelegram
  <2>. QED
    BY <2>3, <2>4 DEF Targets
<1>4. ASSUME Receive, ReceiveMessage(received + 1) PROVE Targets'
  BY <1>4
    DEF Shape, Taken, Turns, Entries, Targets, Registered, IsTelegram,
        Receive, ReceiveMessage
<1>5. ASSUME Acquire PROVE Targets'
  BY <1>5
    DEF Shape, Taken, Turns, Entries, Targets, Registered, IsTelegram, Acquire
<1>6. ASSUME Reply PROVE Targets'
  BY <1>6
    DEF Shape, Taken, Turns, Entries, Targets, Registered, IsTelegram, Reply
<1>7. ASSUME LeaveLoop PROVE Targets'
  BY <1>7
    DEF Shape, Taken, Turns, Entries, Targets, Registered, IsTelegram,
        LeaveLoop
<1>8. ASSUME JoinAll PROVE Targets'
  BY <1>8
    DEF Shape, Taken, Turns, Entries, Targets, Registered, IsTelegram, JoinAll
<1>9. ASSUME NEW p \in Procs, CancelTarget(p) PROVE Targets'
  BY <1>9
    DEF Shape, Taken, Turns, Entries, Targets, Registered, IsTelegram,
        CancelTarget
<1>10. ASSUME NEW p \in Procs, LoadDone(p) PROVE Targets'
  BY <1>10
    DEF Shape, Taken, Turns, Entries, Targets, Registered, IsTelegram,
        LoadDone, Released
<1>11. ASSUME NEW p \in Procs, Subscribe(p) PROVE Targets'
  BY <1>11
    DEF Shape, Taken, Turns, Entries, Targets, Registered, IsTelegram,
        Subscribe
<1>12. ASSUME NEW m \in Messages, Register(m) PROVE Targets'
  <2>1. turn[m] \in Nat /\ ~(turn[m] > 0)
    BY <1>12 DEF Shape, Turns, Register
  <2>2. pc'[m] \in {"cancelling", "ready"}
    BY <1>12 DEF Shape, Register
  <2>3. \A p \in Procs : p # m => pc'[p] = pc[p] /\ target'[p] = target[p]
    BY <1>12 DEF Shape, Register
  <2>4. \A n \in Messages : n # m => turn'[n] = turn[n]
    BY <1>12 DEF Shape, Register
  <2>5. /\ scope[m] \in Scopes /\ turns[scope[m]] \in Nat
        /\ scope' = scope /\ interrupts' = interrupts
        /\ pc'[m] \in {"cancelling", "ready"} /\ turn[m] = 0
        /\ \A p \in Procs : p # m => pc'[p] = pc[p] /\ target'[p] = target[p]
        /\ \A n \in Messages : n # m => turn'[n] = turn[n]
    BY <1>12, <2>1, <2>2, <2>3, <2>4 DEF Shape, Register
  <2>6. \A p \in Procs : p # m /\ pc[p] \in Waiting =>
          /\ target[p] \in Messages /\ target[p] # m
          /\ turn'[target[p]] = turn[target[p]]
    BY <2>5 DEF Targets
  <2>7. pc'[m] \in Waiting =>
          /\ interrupts /\ IsTelegram(m)
          /\ target'[m] = entry[scope[m]] /\ entry[scope[m]] # 0
    BY <1>12 DEF Shape, Register
  <2>8. entry[scope[m]] # 0 =>
          /\ entry[scope[m]] \in Messages \ {m}
          /\ scope[entry[scope[m]]] = scope[m]
          /\ turn[entry[scope[m]]] = turns[scope[m]]
          /\ turn[entry[scope[m]]] > 0
    BY <1>12, <2>5 DEF Shape, Entries, Registered, Turns, IsTelegram, Register
  <2>9. IsTelegram(m) => turn'[m] = turns[scope[m]] + 1
    BY <1>12, <2>5 DEF Shape, Register
  <2>10. pc'[m] \in Waiting =>
          /\ target'[m] \in Messages /\ turn'[target'[m]] > 0
          /\ interrupts /\ scope[target'[m]] = scope[m]
          /\ turn'[target'[m]] < turn'[m]
    BY <2>5, <2>7, <2>8, <2>9
  <2>11. pc[Loop] \in Waiting =>
          target'[Loop] \in Messages /\ turn'[target'[Loop]] > 0
    BY <2>5, <2>6 DEF Targets
  <2>12. ASSUME NEW n \in Messages, n # m, pc[n] \in Waiting
        PROVE  /\ target'[n] \in Messages /\ turn'[target'[n]] > 0
               /\ interrupts /\ scope[target'[n]] = scope[n]
               /\ turn'[target'[n]] < turn'[n]
    BY <2>5, <2>6, <2>12 DEF Targets
  <2>. QED
    BY <2>5, <2>10, <2>11, <2>12 DEF Targets
<1>13. ASSUME NEW m \in Messages, StartProcessing(m) PROVE Targets'
  BY <1>13
    DEF Shape, Taken, Turns, Entries, Targets, Registered, IsTelegram,
        StartProcessing
<1>14. ASSUME NEW m \in Messages, FinishProcessing(m) PROVE Targets'
  BY <1>14
    DEF Shape, Taken, Turns, Entries, Targets, Registered, IsTelegram,
        FinishProcessing
<1>15. ASSUME NEW m \in Messages, Cleanup(m) PROVE Targets'
  BY <1>15
    DEF Shape, Taken, Turns, Entries, Targets, Registered, IsTelegram, Cleanup
<1>16. ASSUME NEW m \in Messages, MarkDone(m) PROVE Targets'
  BY <1>16
    DEF Shape, Taken, Turns, Entries, Targets, Registered, IsTelegram,
        MarkDone, Released
<1>17. ASSUME UNCHANGED vars PROVE Targets'
  BY <1>17
    DEF Shape, Taken, Turns, Entries, Targets, Registered, IsTelegram, vars
<1>. QED
  BY <1>1, <1>2, <1>3, <1>4, <1>5, <1>6, <1>7, <1>8, <1>9, <1>10, <1>11,
     <1>12, <1>13, <1>14, <1>15, <1>16, <1>17
    DEF Next, LoopStep, WaitStep, WorkerStep, Receive

\* The workers are finitely many.
LEMMA InFlightFinite ==
  IsFiniteSet(InFlight) /\ Cardinality(InFlight) \in Nat
<1>1. IsFiniteSet(Messages)
  BY FS_Interval, DispatchAssumption
<1>2. InFlight \subseteq Messages
  BY DEF InFlight
<1>. QED
  BY <1>1, <1>2, FS_Subset, FS_CardinalityType

\* A permit is taken with each worker and comes back with its end.
LEMMA PermitsStep ==
  ASSUME Shape, Taken, Permits, [Next]_vars
  PROVE  Permits'
<1>1. ASSUME Send PROVE Permits'
  <2>1. permits' = permits /\ InFlight' = InFlight
    BY <1>1 DEF Shape, Taken, InFlight, Send
  <2>. QED
    BY <2>1 DEF Permits
<1>2. ASSUME Close PROVE Permits'
  <2>1. permits' = permits /\ InFlight' = InFlight
    BY <1>2 DEF Shape, Taken, InFlight, Close
  <2>. QED
    BY <2>1 DEF Permits
<1>3. ASSUME Receive, ReceiveStop(received + 1) PROVE Permits'
  <2>1. permits' = permits /\ InFlight' = InFlight
    BY <1>3 DEF Shape, Taken, InFlight, Receive, ReceiveStop
  <2>. QED
    BY <2>1 DEF Permits
<1>4. ASSUME Receive, ReceiveMessage(received + 1) PROVE Permits'
  <2>1. permits' = permits /\ InFlight' = InFlight
    BY <1>4 DEF Shape, Taken, InFlight, Receive, ReceiveMessage
  <2>. QED
    BY <2>1 DEF Permits
<1>5. ASSUME Acquire PROVE Permits'
  <2>1. received \in Messages /\ received \notin InFlight
    BY <1>5, DispatchAssumption DEF Shape, Taken, InFlight, Acquire
  <2>2. InFlight' = InFlight \cup {received}
    BY <1>5, <2>1 DEF Shape, InFlight, Acquire
  <2>3. Cardinality(InFlight') = Cardinality(InFlight) + 1
    BY <2>1, <2>2, InFlightFinite, FS_AddElement
  <2>. QED
    BY <1>5, <2>3, InFlightFinite DEF Shape, Permits, Acquire
<1>6. ASSUME Reply PROVE Permits'
  <2>1. permits' = permits /\ InFlight' = InFlight
    BY <1>6 DEF Shape, Taken, InFlight, Reply
  <2>. QED
    BY <2>1 DEF Permits
<1>7. ASSUME LeaveLoop PROVE Permits'
  <2>1. permits' = permits /\ InFlight' = InFlight
    BY <1>7 DEF Shape, Taken, InFlight, LeaveLoop
  <2>. QED
    BY <2>1 DEF Permits
<1>8. ASSUME JoinAll PROVE Permits'
  <2>1. permits' = permits /\ InFlight' = InFlight
    BY <1>8 DEF Shape, Taken, InFlight, JoinAll
  <2>. QED
    BY <2>1 DEF Permits
<1>9. ASSUME NEW p \in Procs, CancelTarget(p) PROVE Permits'
  <2>1. permits' = permits /\ InFlight' = InFlight
    BY <1>9 DEF Shape, Taken, InFlight, CancelTarget
  <2>. QED
    BY <2>1 DEF Permits
<1>10. ASSUME NEW p \in Procs, LoadDone(p) PROVE Permits'
  <2>1. /\ permits' = permits
        /\ \A n \in Messages : pc'[n] # pc[n] =>
             pc[n] = "load" /\ pc'[n] \in {"ready", "subscribe"}
    BY <1>10 DEF Shape, LoadDone, Released
  <2>2. InFlight' = InFlight
    BY <2>1 DEF InFlight
  <2>. QED
    BY <2>1, <2>2 DEF Permits
<1>11. ASSUME NEW p \in Procs, Subscribe(p) PROVE Permits'
  <2>1. permits' = permits /\ InFlight' = InFlight
    BY <1>11 DEF Shape, Taken, InFlight, Subscribe
  <2>. QED
    BY <2>1 DEF Permits
<1>12. ASSUME NEW m \in Messages, Register(m) PROVE Permits'
  <2>1. /\ pc'[m] \in {"cancelling", "ready"} /\ permits' = permits
        /\ \A n \in Messages : n # m => pc'[n] = pc[n]
    BY <1>12 DEF Shape, Register
  <2>2. InFlight' = InFlight
    BY <1>12, <2>1 DEF InFlight, Register
  <2>. QED
    BY <2>1, <2>2 DEF Permits
<1>13. ASSUME NEW m \in Messages, StartProcessing(m) PROVE Permits'
  <2>1. permits' = permits /\ InFlight' = InFlight
    BY <1>13 DEF Shape, Taken, InFlight, StartProcessing
  <2>. QED
    BY <2>1 DEF Permits
<1>14. ASSUME NEW m \in Messages, FinishProcessing(m) PROVE Permits'
  <2>1. permits' = permits /\ InFlight' = InFlight
    BY <1>14 DEF Shape, Taken, InFlight, FinishProcessing
  <2>. QED
    BY <2>1 DEF Permits
<1>15. ASSUME NEW m \in Messages, Cleanup(m) PROVE Permits'
  <2>1. permits' = permits /\ InFlight' = InFlight
    BY <1>15 DEF Shape, Taken, InFlight, Cleanup
  <2>. QED
    BY <2>1 DEF Permits
<1>16. ASSUME NEW m \in Messages, MarkDone(m) PROVE Permits'
  <2>1. /\ pc[m] = "mark" /\ pc'[m] = "done"
        /\ \A n \in Messages : n # m /\ pc'[n] # pc[n] =>
             pc[n] = "await" /\ pc'[n] = "ready"
    BY <1>16 DEF Shape, MarkDone, Released
  <2>2. m \in InFlight /\ InFlight' = InFlight \ {m}
    BY <2>1 DEF InFlight
  <2>3. Cardinality(InFlight') = Cardinality(InFlight) - 1
    BY <2>2, InFlightFinite, FS_RemoveElement
  <2>. QED
    BY <1>16, <2>3, InFlightFinite DEF Shape, Permits, MarkDone
<1>17. ASSUME UNCHANGED vars PROVE Permits'
  <2>1. permits' = permits /\ InFlight' = InFlight
    BY <1>17 DEF Shape, Taken, InFlight, vars
  <2>. QED
    BY <2>1 DEF Permits
<1>. QED
  BY <1>1, <1>2, <1>3, <1>4, <1>5, <1>6, <1>7, <1>8, <1>9, <1>10, <1>11,
     <1>12, <1>13, <1>14, <1>15, <1>16, <1>17
    DEF Next, LoopStep, WaitStep, WorkerStep, Receive

\* Nobody is released from a wait before the completion is marked.
LEMMA ReleasedStep ==
  ASSUME Shape, Taken, Turns, Entries, Targets, ReleasedAfterDone, [Next]_vars
  PROVE  ReleasedAfterDone'
<1>1. ASSUME Send PROVE ReleasedAfterDone'
  BY <1>1 DEF Shape, Taken, ReleasedAfterDone, Send
<1>2. ASSUME Close PROVE ReleasedAfterDone'
  BY <1>2 DEF Shape, Taken, ReleasedAfterDone, Close
<1>3. ASSUME Receive, ReceiveStop(received + 1) PROVE ReleasedAfterDone'
  BY <1>3 DEF Shape, Taken, ReleasedAfterDone, Receive, ReceiveStop
<1>4. ASSUME Receive, ReceiveMessage(received + 1) PROVE ReleasedAfterDone'
  BY <1>4 DEF Shape, Taken, ReleasedAfterDone, Receive, ReceiveMessage
<1>5. ASSUME Acquire PROVE ReleasedAfterDone'
  BY <1>5 DEF Shape, Taken, ReleasedAfterDone, Acquire
<1>6. ASSUME Reply PROVE ReleasedAfterDone'
  BY <1>6 DEF Shape, Taken, ReleasedAfterDone, Reply
<1>7. ASSUME LeaveLoop PROVE ReleasedAfterDone'
  BY <1>7 DEF Shape, Taken, ReleasedAfterDone, LeaveLoop
<1>8. ASSUME JoinAll PROVE ReleasedAfterDone'
  BY <1>8 DEF Shape, Taken, ReleasedAfterDone, JoinAll
<1>9. ASSUME NEW p \in Procs, CancelTarget(p) PROVE ReleasedAfterDone'
  BY <1>9 DEF Shape, Taken, ReleasedAfterDone, CancelTarget
<1>10. ASSUME NEW p \in Procs, LoadDone(p) PROVE ReleasedAfterDone'
  BY <1>10 DEF Shape, Taken, ReleasedAfterDone, LoadDone, Released
<1>11. ASSUME NEW p \in Procs, Subscribe(p) PROVE ReleasedAfterDone'
  BY <1>11 DEF Shape, Taken, ReleasedAfterDone, Subscribe
<1>12. ASSUME NEW m \in Messages, Register(m) PROVE ReleasedAfterDone'
  BY <1>12 DEF Shape, Taken, ReleasedAfterDone, Register
<1>13. ASSUME NEW m \in Messages, StartProcessing(m) PROVE ReleasedAfterDone'
  BY <1>13 DEF Shape, Taken, ReleasedAfterDone, StartProcessing
<1>14. ASSUME NEW m \in Messages, FinishProcessing(m) PROVE ReleasedAfterDone'
  BY <1>14 DEF Shape, Taken, ReleasedAfterDone, FinishProcessing
<1>15. ASSUME NEW m \in Messages, Cleanup(m) PROVE ReleasedAfterDone'
  BY <1>15 DEF Shape, Taken, ReleasedAfterDone, Cleanup
<1>16. ASSUME NEW m \in Messages, MarkDone(m) PROVE ReleasedAfterDone'
  BY <1>16 DEF Shape, Taken, ReleasedAfterDone, MarkDone, Released
<1>17. ASSUME UNCHANGED vars PROVE ReleasedAfterDone'
  BY <1>17 DEF Shape, Taken, ReleasedAfterDone, vars
<1>. QED
  BY <1>1, <1>2, <1>3, <1>4, <1>5, <1>6, <1>7, <1>8, <1>9, <1>10, <1>11,
     <1>12, <1>13, <1>14, <1>15, <1>16, <1>17
    DEF Next, LoopStep, WaitStep, WorkerStep, Receive

\* Whoever takes an entry goes on to cancel its worker.
LEMMA EscapesStep ==
  ASSUME Shape, Taken, Turns, Entries, Targets, NoneEscapes, [Next]_vars
  PROVE  NoneEscapes'
<1>1. ASSUME Send PROVE NoneEscapes'
  BY <1>1
    DEF Shape, Taken, NoneEscapes, Registered, AboutToCancel, IsTelegram, Send
<1>2. ASSUME Close PROVE NoneEscapes'
  BY <1>2
    DEF Shape, Taken, NoneEscapes, Registered, AboutToCancel, IsTelegram,
        Close
<1>3. ASSUME Receive, ReceiveStop(received + 1) PROVE NoneEscapes'
  BY <1>3
    DEF Shape, Taken, NoneEscapes, Registered, AboutToCancel, IsTelegram,
        Receive, ReceiveStop
<1>4. ASSUME Receive, ReceiveMessage(received + 1) PROVE NoneEscapes'
  BY <1>4
    DEF Shape, Taken, NoneEscapes, Registered, AboutToCancel, IsTelegram,
        Receive, ReceiveMessage
<1>5. ASSUME Acquire PROVE NoneEscapes'
  BY <1>5
    DEF Shape, Taken, NoneEscapes, Registered, AboutToCancel, IsTelegram,
        Acquire
<1>6. ASSUME Reply PROVE NoneEscapes'
  BY <1>6
    DEF Shape, Taken, NoneEscapes, Registered, AboutToCancel, IsTelegram,
        Reply
<1>7. ASSUME LeaveLoop PROVE NoneEscapes'
  BY <1>7
    DEF Shape, Taken, NoneEscapes, Registered, AboutToCancel, IsTelegram,
        LeaveLoop
<1>8. ASSUME JoinAll PROVE NoneEscapes'
  BY <1>8
    DEF Shape, Taken, NoneEscapes, Registered, AboutToCancel, IsTelegram,
        JoinAll
<1>9. ASSUME NEW p \in Procs, CancelTarget(p) PROVE NoneEscapes'
  BY <1>9
    DEF Shape, Taken, NoneEscapes, Registered, AboutToCancel, IsTelegram,
        CancelTarget
<1>10. ASSUME NEW p \in Procs, LoadDone(p) PROVE NoneEscapes'
  BY <1>10
    DEF Shape, Taken, NoneEscapes, Registered, AboutToCancel, IsTelegram,
        LoadDone, Released
<1>11. ASSUME NEW p \in Procs, Subscribe(p) PROVE NoneEscapes'
  BY <1>11
    DEF Shape, Taken, NoneEscapes, Registered, AboutToCancel, IsTelegram,
        Subscribe
<1>12. ASSUME NEW m \in Messages, Register(m) PROVE NoneEscapes'
  BY <1>12
    DEF Shape, Taken, NoneEscapes, Registered, AboutToCancel, IsTelegram,
        Register
<1>13. ASSUME NEW m \in Messages, StartProcessing(m) PROVE NoneEscapes'
  BY <1>13
    DEF Shape, Taken, NoneEscapes, Registered, AboutToCancel, IsTelegram,
        StartProcessing
<1>14. ASSUME NEW m \in Messages, FinishProcessing(m) PROVE NoneEscapes'
  BY <1>14
    DEF Shape, Taken, NoneEscapes, Registered, AboutToCancel, IsTelegram,
        FinishProcessing
<1>15. ASSUME NEW m \in Messages, Cleanup(m) PROVE NoneEscapes'
  BY <1>15
    DEF Shape, Taken, NoneEscapes, Registered, AboutToCancel, IsTelegram,
        Cleanup
<1>16. ASSUME NEW m \in Messages, MarkDone(m) PROVE NoneEscapes'
  BY <1>16
    DEF Shape, Taken, NoneEscapes, Registered, AboutToCancel, IsTelegram,
        MarkDone, Released
<1>17. ASSUME UNCHANGED vars PROVE NoneEscapes'
  BY <1>17
    DEF Shape, Taken, NoneEscapes, Registered, AboutToCancel, IsTelegram, vars
<1>. QED
  BY <1>1, <1>2, <1>3, <1>4, <1>5, <1>6, <1>7, <1>8, <1>9, <1>10, <1>11,
     <1>12, <1>13, <1>14, <1>15, <1>16, <1>17
    DEF Next, LoopStep, WaitStep, WorkerStep, Receive

-----------------------------------------------------------------------------
(* The chain of a sender's workers                                         *)

\* A calm step keeps the chain.
LEMMA CalmStep ==
  ASSUME Chain, Calm
  PROVE  Chain'
<1>1. SUFFICES ASSUME interrupts PROVE EarlierOver' /\ Adjacent' /\ NoEntry'
  BY DEF Chain, Calm
<1>2. EarlierOver /\ Adjacent /\ NoEntry
  BY <1>1 DEF Chain
<1>3. \A m \in Messages, t \in Nat :
        LoopStops(scope[m], t) => LoopStops(scope[m], t)'
  BY DEF Calm, LoopStops
<1>4. EarlierOver'
  BY <1>2, <1>3 DEF Calm, EarlierOver
<1>5. Adjacent'
  BY <1>2 DEF Calm, Adjacent
<1>6. NoEntry'
  BY <1>2, <1>3 DEF Calm, NoEntry
<1>. QED
  BY <1>4, <1>5, <1>6

\* When a stopped worker is over, so are those registered before it.
LEMMA LoopTargetOver ==
  ASSUME Shape, Turns, Targets, EarlierOver,
         pc[Loop] \in Waiting, Over(target[Loop]),
         NEW v \in Messages, turn[v] > 0, scope[v] = scope[target[Loop]],
         turn[v] <= turn[target[Loop]]
  PROVE  Over(v)
<1>1. PICK d \in Messages : d = target[Loop]
  BY DEF Targets
<1>2. turn[v] \in Nat /\ turn[d] \in Nat
  BY DEF Shape
<1>3. CASE turn[v] = turn[d]
  BY <1>1, <1>3 DEF Turns
<1>4. CASE turn[v] < turn[d]
  <2>1. Passed(d)
    BY <1>1 DEF Over, Passed
  <2>2. Over(v) \/ \E t \in Nat : LoopStops(scope[v], t) /\ t < turn[d]
    BY <1>1, <1>4, <2>1 DEF EarlierOver
  <2>. QED
    BY <1>1, <1>2, <2>2 DEF LoopStops
<1>. QED
  BY <1>1, <1>2, <1>3, <1>4

\* When the worker that w waits for is over, so are those before w.
LEMMA TargetOver ==
  ASSUME Shape, Turns, Targets, EarlierOver, Adjacent,
         NEW w \in Messages, pc[w] \in Waiting, Over(target[w]),
         NEW v \in Messages, turn[v] > 0, scope[v] = scope[w],
         turn[v] < turn[w]
  PROVE  Over(v) \/ \E t \in Nat : /\ LoopStops(scope[v], t)
                                   /\ turn[v] <= t /\ t < turn[w]
<1>1. PICK d \in Messages : d = target[w]
  BY DEF Targets
<1>2. /\ turn[v] \in Nat /\ turn[d] \in Nat /\ turn[w] \in Nat
      /\ scope[d] = scope[v] /\ turn[d] > 0 /\ turn[d] < turn[w]
  BY <1>1 DEF Shape, Targets
<1>3. turn[v] <= turn[d]
  BY <1>1, <1>2 DEF Adjacent
<1>4. CASE turn[v] = turn[d]
  BY <1>1, <1>2, <1>4 DEF Turns
<1>5. CASE turn[v] < turn[d]
  <2>1. Passed(d)
    BY <1>1 DEF Over, Passed
  <2>2. Over(v) \/ \E t \in Nat : /\ LoopStops(scope[v], t)
                                  /\ turn[v] <= t /\ t < turn[d]
    BY <1>2, <1>5, <2>1 DEF EarlierOver
  <2>. QED
    BY <1>2, <2>2
<1>. QED
  BY <1>2, <1>3, <1>4, <1>5

\* Releasing processes whose target is over keeps the chain.
LEMMA ReleaseStep ==
  ASSUME Shape, Turns, Targets, Chain, Releasing
  PROVE  Chain'
<1>1. SUFFICES ASSUME interrupts PROVE EarlierOver' /\ Adjacent' /\ NoEntry'
  BY DEF Chain, Releasing
<1>2. EarlierOver /\ Adjacent /\ NoEntry
  BY <1>1 DEF Chain
<1>3. UNCHANGED <<interrupts, scope, turn, entry, target>>
  BY DEF Releasing
<1>4. \A m \in Messages : /\ scope[m] \in Scopes /\ turn[m] \in Nat
                          /\ Over(m) => Over(m)'
  BY DEF Shape, Releasing
<1>5. ASSUME NEW v \in Messages, turn[v] > 0, NEW t \in Nat,
             LoopStops(scope[v], t), turn[v] <= t
      PROVE  Over(v)' \/ LoopStops(scope[v], t)'
  <2>1. CASE pc'[Loop] \in Waiting
    BY <1>3, <1>5, <2>1 DEF LoopStops
  <2>2. CASE pc'[Loop] \notin Waiting
    <3>1. Over(target[Loop])
      BY <1>5, <2>2 DEF Releasing, LoopStops
    <3>2. Over(v)
      BY <1>2, <1>5, <3>1, LoopTargetOver DEF LoopStops
    <3>. QED
      BY <1>4, <3>2
  <2>. QED
    BY <2>1, <2>2
<1>6. ASSUME NEW v \in Messages, NEW w \in Messages, scope[v] = scope[w],
             turn[v] > 0, turn[v] < turn[w], Passed(w)'
      PROVE  Over(v)' \/ \E t \in Nat : /\ LoopStops(scope[v], t)'
                                        /\ turn[v] <= t /\ t < turn[w]
  <2>1. Over(v) \/ \E t \in Nat : /\ LoopStops(scope[v], t)
                                  /\ turn[v] <= t /\ t < turn[w]
    <3>1. CASE Passed(w)
      BY <1>2, <1>6, <3>1 DEF EarlierOver
    <3>2. CASE ~Passed(w)
      <4>1. pc[w] \in Waiting /\ Over(target[w])
        BY <1>6, <3>2 DEF Releasing
      <4>. QED
        BY <1>2, <1>6, <4>1, TargetOver
    <3>. QED
      BY <3>1, <3>2
  <2>. QED
    BY <1>4, <1>5, <1>6, <2>1
<1>7. EarlierOver'
  BY <1>3, <1>6 DEF EarlierOver
<1>8. Adjacent'
  BY <1>2, <1>3 DEF Adjacent, Releasing
<1>9. ASSUME NEW v \in Messages, turn[v] > 0, entry[scope[v]] = 0
      PROVE  Over(v)' \/ \E t \in Nat : LoopStops(scope[v], t)' /\ turn[v] <= t
  BY <1>2, <1>4, <1>5, <1>9 DEF NoEntry
<1>10. NoEntry'
  BY <1>3, <1>9 DEF NoEntry
<1>. QED
  BY <1>7, <1>8, <1>10

\* Every step keeps the chain.
LEMMA ChainStep ==
  ASSUME Shape, Taken, Turns, Entries, Targets, DoneMarked, Chain, [Next]_vars
  PROVE  Chain'
<1>1. ASSUME Send PROVE Chain'
  <2>1. Calm
    BY <1>1 DEF Shape, Taken, Calm, Over, Passed, Send
  <2>. QED
    BY <2>1, CalmStep
<1>2. ASSUME Close PROVE Chain'
  <2>1. Calm
    BY <1>2 DEF Shape, Taken, Calm, Over, Passed, Close
  <2>. QED
    BY <2>1, CalmStep
<1>3. ASSUME Receive, ReceiveStop(received + 1) PROVE Chain'
  <2>1. received + 1 \in Messages /\ scope[received + 1] \in Scopes
    BY <1>3, DispatchAssumption DEF Shape, Receive
  <2>2. PICK s \in Scopes : s = scope[received + 1]
    BY <2>1
  <2>3. /\ UNCHANGED <<interrupts, scope, turn, turns>>
        /\ entry' = [entry EXCEPT ![s] = 0]
        /\ pc[Loop] = "recv"
        /\ entry[s] # 0 => pc'[Loop] \in Waiting /\ target'[Loop] = entry[s]
        /\ \A m \in Messages : pc'[m] = pc[m] /\ target'[m] = target[m]
    BY <1>3, <2>2 DEF Shape, Receive, ReceiveStop
  <2>4. SUFFICES ASSUME interrupts PROVE EarlierOver' /\ Adjacent' /\ NoEntry'
    BY <2>3 DEF Chain
  <2>5. EarlierOver /\ Adjacent /\ NoEntry
    BY <2>4 DEF Chain
  <2>6. \A i \in Scopes, t \in Nat : ~LoopStops(i, t)
    BY <2>3 DEF LoopStops
  <2>7. \A m \in Messages : scope[m] \in Scopes /\ (Over(m)' <=> Over(m))
                            /\ (Passed(m)' <=> Passed(m))
    BY <2>3 DEF Shape, Over, Passed
  <2>8. EarlierOver'
    BY <2>3, <2>5, <2>6, <2>7 DEF EarlierOver
  <2>9. Adjacent'
    BY <2>3, <2>5 DEF Adjacent
  <2>10. ASSUME NEW v \in Messages, turn[v] > 0, entry'[scope[v]] = 0
         PROVE  \/ Over(v)'
                \/ \E t \in Nat : LoopStops(scope[v], t)' /\ turn[v] <= t
    <3>1. CASE entry[scope[v]] = 0
      BY <2>5, <2>6, <2>7, <2>10, <3>1 DEF NoEntry
    <3>2. CASE entry[scope[v]] # 0
      <4>1. s = scope[v]
        BY <2>3, <2>7, <2>10, <3>2 DEF Shape
      <4>2. /\ entry[s] \in Messages /\ scope[entry[s]] = s
            /\ turn[entry[s]] = turns[s] /\ turns[s] \in Nat
        BY <3>2, <4>1 DEF Shape, Entries
      <4>3. PICK k \in Nat : k = turns[s]
        BY <4>2
      <4>4. LoopStops(scope[v], k)'
        BY <2>3, <3>2, <4>1, <4>2, <4>3 DEF LoopStops
      <4>5. turn[v] <= k
        BY <4>1, <4>3 DEF Turns
      <4>. QED
        BY <4>4, <4>5
    <3>. QED
      BY <3>1, <3>2
  <2>11. NoEntry'
    BY <2>3, <2>10 DEF NoEntry
  <2>. QED
    BY <2>8, <2>9, <2>11
<1>4. ASSUME Receive, ReceiveMessage(received + 1) PROVE Chain'
  <2>1. Calm
    BY <1>4 DEF Shape, Taken, Calm, Over, Passed, Receive, ReceiveMessage
  <2>. QED
    BY <2>1, CalmStep
<1>5. ASSUME Acquire PROVE Chain'
  <2>1. Calm
    BY <1>5 DEF Shape, Taken, Calm, Over, Passed, Acquire
  <2>. QED
    BY <2>1, CalmStep
<1>6. ASSUME Reply PROVE Chain'
  <2>1. Calm
    BY <1>6 DEF Shape, Taken, Calm, Over, Passed, Reply
  <2>. QED
    BY <2>1, CalmStep
<1>7. ASSUME LeaveLoop PROVE Chain'
  <2>1. Calm
    BY <1>7 DEF Shape, Taken, Calm, Over, Passed, LeaveLoop
  <2>. QED
    BY <2>1, CalmStep
<1>8. ASSUME JoinAll PROVE Chain'
  <2>1. Calm
    BY <1>8 DEF Shape, Taken, Calm, Over, Passed, JoinAll
  <2>. QED
    BY <2>1, CalmStep
<1>9. ASSUME NEW p \in Procs, CancelTarget(p) PROVE Chain'
  <2>1. Calm
    BY <1>9 DEF Shape, Taken, Calm, Over, Passed, CancelTarget
  <2>. QED
    BY <2>1, CalmStep
<1>10. ASSUME NEW p \in Procs, LoadDone(p) PROVE Chain'
  <2>1. UNCHANGED <<interrupts, scope, turn, entry, target>>
    BY <1>10 DEF LoadDone
  <2>2. CASE target[p] \notin done
    <3>1. Calm
      BY <1>10, <2>1, <2>2 DEF Shape, Calm, Over, Passed, LoadDone
    <3>. QED
      BY <3>1, CalmStep
  <2>3. CASE target[p] \in done
    <3>1. pc[p] = "load" /\ Over(target[p])
      BY <1>10, <2>3 DEF Shape, DoneMarked, Over, LoadDone
    <3>2. /\ pc'[p] = IF p = Loop THEN "reply" ELSE "ready"
          /\ \A q \in Procs : q # p => pc'[q] = pc[q]
      BY <1>10, <2>3 DEF Shape, LoadDone, Released
    <3>3. Releasing
      BY <2>1, <3>1, <3>2 DEF Releasing, Over, Passed
    <3>. QED
      BY <3>3, ReleaseStep
  <2>. QED
    BY <2>2, <2>3
<1>11. ASSUME NEW p \in Procs, Subscribe(p) PROVE Chain'
  <2>1. Calm
    BY <1>11 DEF Shape, Taken, Calm, Over, Passed, Subscribe
  <2>. QED
    BY <2>1, CalmStep
<1>12. ASSUME NEW m \in Messages, Register(m) PROVE Chain'
  <2>1. /\ scope[m] \in Scopes /\ UNCHANGED <<interrupts, scope>>
        /\ pc[m] = "spawned" /\ pc'[m] \in {"cancelling", "ready"}
    BY <1>12 DEF Shape, Register
  <2>2. \A p \in Procs : p # m => pc'[p] = pc[p] /\ target'[p] = target[p]
    BY <1>12 DEF Shape, Register
  <2>3. \A n \in Messages : n # m => turn'[n] = turn[n]
    BY <1>12 DEF Shape, Register
  <2>4. SUFFICES ASSUME interrupts PROVE EarlierOver' /\ Adjacent' /\ NoEntry'
    BY <2>1 DEF Chain
  <2>5. EarlierOver /\ Adjacent /\ NoEntry
    BY <2>4 DEF Chain
  <2>6. turn[m] = 0
    BY <2>1 DEF Shape, Turns
  <2>7. \A p \in Procs : p # m /\ pc[p] \in Waiting =>
          target[p] \in Messages /\ turn'[target[p]] = turn[target[p]]
    BY <2>3, <2>6 DEF Targets
  <2>8. \A s \in Scopes, t \in Nat : LoopStops(s, t)' <=> LoopStops(s, t)
    BY <2>1, <2>2, <2>7 DEF LoopStops
  <2>9. \A n \in Messages : n # m => /\ scope[n] \in Scopes
                                     /\ (Over(n)' <=> Over(n))
                                     /\ (Passed(n)' <=> Passed(n))
    BY <2>2 DEF Shape, Over, Passed
  <2>10. CASE ~IsTelegram(m)
    <3>1. entry' = entry /\ turn' = turn
      BY <1>12, <2>10 DEF Register
    <3>2. pc'[m] = "ready"
      BY <1>12, <2>10 DEF Shape, Register
    <3>3. EarlierOver'
      BY <2>1, <2>5, <2>6, <2>8, <2>9, <3>1 DEF EarlierOver, Shape
    <3>4. Adjacent'
      BY <2>1, <2>2, <2>5, <3>1, <3>2 DEF Adjacent
    <3>5. NoEntry'
      BY <2>1, <2>5, <2>6, <2>8, <2>9, <3>1 DEF NoEntry
    <3>. QED
      BY <3>3, <3>4, <3>5
  <2>11. CASE IsTelegram(m)
    <3>1. PICK k \in Nat : k = turns[scope[m]]
      BY <2>1 DEF Shape
    <3>2. /\ turn'[m] = k + 1
          /\ entry' = [entry EXCEPT ![scope[m]] = m]
          /\ target'[m] = entry[scope[m]]
          /\ pc'[m] = IF entry[scope[m]] # 0 THEN "cancelling" ELSE "ready"
      BY <1>12, <2>1, <2>4, <2>11, <3>1 DEF Shape, Register
    <3>3. \A n \in Messages : n # m =>
            /\ turn'[n] \in Nat
            /\ scope[n] = scope[m] => turn'[n] <= k
      BY <2>3, <3>1 DEF Shape, Turns
    <3>4. \A t \in Nat : LoopStops(scope[m], t) => t <= k
      BY <3>1 DEF Targets, LoopStops, Turns
    <3>5. ASSUME NEW v \in Messages, NEW w \in Messages, scope[v] = scope[w],
                 turn'[v] > 0, turn'[v] < turn'[w], Passed(w)'
          PROVE  Over(v)' \/ \E t \in Nat : /\ LoopStops(scope[v], t)'
                                            /\ turn'[v] <= t /\ t < turn'[w]
      <4>1. v # m
        BY <3>2, <3>3, <3>5
      <4>2. CASE w # m
        BY <2>1, <2>3, <2>5, <2>8, <2>9, <3>5, <4>1, <4>2 DEF EarlierOver
      <4>3. CASE w = m
        <5>1. entry[scope[v]] = 0
          BY <3>2, <3>5, <4>3 DEF Passed
        <5>2. Over(v) \/ \E t \in Nat : LoopStops(scope[v], t) /\ turn[v] <= t
          BY <2>3, <2>5, <3>5, <4>1, <5>1 DEF NoEntry
        <5>3. \A t \in Nat : LoopStops(scope[v], t) => t < turn'[m]
          BY <3>2, <3>4, <3>5, <4>3
        <5>. QED
          BY <2>1, <2>3, <2>8, <2>9, <3>5, <4>1, <4>3, <5>2, <5>3
      <4>. QED
        BY <4>2, <4>3
    <3>6. ASSUME NEW v \in Messages, NEW w \in Messages, scope[v] = scope[w],
                 pc'[w] \in Waiting,
                 turn'[target'[w]] < turn'[v], turn'[v] < turn'[w]
          PROVE  FALSE
      <4>1. CASE w = m
        <5>1. entry[scope[m]] # 0 /\ target'[m] = entry[scope[m]]
          BY <3>2, <3>6, <4>1
        <5>2. /\ entry[scope[m]] \in Messages \ {m}
              /\ turn[entry[scope[m]]] = k
          BY <2>1, <3>1, <5>1 DEF Shape, Entries, Registered
        <5>3. turn'[target'[w]] = k
          BY <2>3, <4>1, <5>1, <5>2
        <5>4. v # m
          BY <3>6, <4>1, <3>2
        <5>. QED
          BY <3>2, <3>3, <3>6, <4>1, <5>3, <5>4
      <4>2. CASE w # m
        <5>1. v # m
          BY <3>2, <3>3, <3>6, <4>2
        <5>. QED
          BY <2>2, <2>3, <2>5, <2>7, <3>6, <4>2, <5>1 DEF Adjacent
      <4>. QED
        BY <4>1, <4>2
    <3>7. ASSUME NEW v \in Messages, turn'[v] > 0, entry'[scope[v]] = 0
          PROVE  \/ Over(v)'
                 \/ \E t \in Nat : LoopStops(scope[v], t)' /\ turn'[v] <= t
      <4>1. scope[v] # scope[m] /\ scope[v] \in Scopes /\ v # m
        BY <2>1, <3>2, <3>7 DEF Shape
      <4>2. entry[scope[v]] = 0
        BY <3>2, <3>7, <4>1 DEF Shape
      <4>. QED
        BY <2>1, <2>3, <2>5, <2>8, <2>9, <3>7, <4>1, <4>2 DEF NoEntry
    <3>8. EarlierOver'
      BY <2>1, <3>5 DEF EarlierOver
    <3>9. Adjacent'
      BY <2>1, <3>6 DEF Adjacent
    <3>10. NoEntry'
      BY <2>1, <3>7 DEF NoEntry
    <3>. QED
      BY <3>8, <3>9, <3>10
  <2>. QED
    BY <2>10, <2>11
<1>13. ASSUME NEW m \in Messages, StartProcessing(m) PROVE Chain'
  <2>1. Calm
    BY <1>13 DEF Shape, Taken, Calm, Over, Passed, StartProcessing
  <2>. QED
    BY <2>1, CalmStep
<1>14. ASSUME NEW m \in Messages, FinishProcessing(m) PROVE Chain'
  <2>1. Calm
    BY <1>14 DEF Shape, Taken, Calm, Over, Passed, FinishProcessing
  <2>. QED
    BY <2>1, CalmStep
<1>15. ASSUME NEW m \in Messages, Cleanup(m) PROVE Chain'
  <2>1. /\ UNCHANGED <<interrupts, scope, turn, target>>
        /\ pc[m] = "cleanup" /\ pc'[m] = "mark"
        /\ \A p \in Procs : p # m => pc'[p] = pc[p]
    BY <1>15 DEF Shape, Cleanup
  <2>2. SUFFICES ASSUME interrupts PROVE EarlierOver' /\ Adjacent' /\ NoEntry'
    BY <2>1 DEF Chain
  <2>3. EarlierOver /\ Adjacent /\ NoEntry
    BY <2>2 DEF Chain
  <2>4. \A n \in Messages : scope[n] \in Scopes /\ (Over(n)' <=> Over(n))
                            /\ (Passed(n)' <=> Passed(n))
    BY <2>1 DEF Shape, Over, Passed
  <2>5. \A s \in Scopes, t \in Nat : LoopStops(s, t)' <=> LoopStops(s, t)
    BY <2>1 DEF LoopStops
  <2>6. EarlierOver'
    BY <2>1, <2>3, <2>4, <2>5 DEF EarlierOver
  <2>7. Adjacent'
    BY <2>1, <2>3 DEF Adjacent
  <2>8. ASSUME NEW v \in Messages, turn[v] > 0, entry'[scope[v]] = 0
        PROVE  Over(v) \/ \E t \in Nat : LoopStops(scope[v], t) /\ turn[v] <= t
    <3>1. CASE entry[scope[v]] = 0
      BY <2>3, <2>8, <3>1 DEF NoEntry
    <3>2. CASE entry[scope[v]] # 0
      <4>1. scope[m] = scope[v] /\ entry[scope[v]] = m
        BY <1>15, <2>4, <2>8, <3>2 DEF Shape, Cleanup
      <4>2. turn[v] <= turn[m] /\ turn[v] \in Nat /\ turn[m] \in Nat
        BY <2>4, <3>2, <4>1 DEF Shape, Entries, Turns
      <4>3. Over(m) /\ Passed(m)
        BY <2>1 DEF Over, Passed
      <4>4. CASE turn[v] = turn[m]
        BY <2>8, <4>1, <4>3, <4>4 DEF Turns
      <4>5. CASE turn[v] < turn[m]
        BY <2>3, <2>8, <4>1, <4>3, <4>5 DEF EarlierOver
      <4>. QED
        BY <4>2, <4>4, <4>5
    <3>. QED
      BY <3>1, <3>2
  <2>9. NoEntry'
    BY <2>1, <2>4, <2>5, <2>8 DEF NoEntry
  <2>. QED
    BY <2>6, <2>7, <2>9
<1>16. ASSUME NEW m \in Messages, MarkDone(m) PROVE Chain'
  <2>1. UNCHANGED <<interrupts, scope, turn, entry, target>>
    BY <1>16 DEF MarkDone
  <2>2. Over(m) /\ Over(m)'
    BY <1>16 DEF MarkDone, Over
  <2>3. \A q \in Procs : q # m /\ pc'[q] # pc[q] =>
          /\ pc[q] = "await" /\ target[q] = m
          /\ pc'[q] = IF q = Loop THEN "reply" ELSE "ready"
    BY <1>16 DEF MarkDone, Released
  <2>4. Releasing
    BY <2>1, <2>2, <2>3 DEF Releasing, Over, Passed
  <2>. QED
    BY <2>4, ReleaseStep
<1>17. ASSUME UNCHANGED vars PROVE Chain'
  <2>1. Calm
    BY <1>17 DEF Shape, Taken, Calm, Over, Passed, vars
  <2>. QED
    BY <2>1, CalmStep
<1>. QED
  BY <1>1, <1>2, <1>3, <1>4, <1>5, <1>6, <1>7, <1>8, <1>9, <1>10, <1>11,
     <1>12, <1>13, <1>14, <1>15, <1>16, <1>17
    DEF Next, LoopStep, WaitStep, WorkerStep, Receive

-----------------------------------------------------------------------------
(* The theorems                                                            *)

Inv ==
  Stages /\ Permits /\ ReleasedAfterDone /\ NoneEscapes /\ Chain

\* A dispatcher that has not received anything satisfies the invariant.
LEMMA InitInv ==
  ASSUME Init
  PROVE  Inv
<1>1. Shape
  <2>1. 0 \in 0..MaxMessages /\ 0 \in 0..0 /\ MaxInFlight \in Nat
    BY DispatchAssumption
  <2>2. /\ pc \in [Procs -> LoopStages \cup WorkerStages]
        /\ pc[Loop] \in LoopStages
        /\ \A m \in Messages : pc[m] \in WorkerStages
    BY DEF Init
  <2>3. /\ entry \in [Scopes -> Procs] /\ target \in [Procs -> Procs]
        /\ turns \in [Scopes -> Nat] /\ turn \in [Messages -> Nat]
    BY DEF Init
  <2>. QED
    BY <2>1, <2>2, <2>3 DEF Init, Shape
<1>2. /\ \A m \in Messages : pc[m] = "none" /\ turn[m] = 0
      /\ pc[Loop] = "recv"
      /\ \A s \in Scopes : entry[s] = 0
  BY DEF Init
<1>3. Taken /\ Drained /\ DoneMarked
  BY <1>2 DEF Init, Taken, Drained, DoneMarked
<1>4. Turns
  BY <1>1, <1>2 DEF Init, Shape, Turns
<1>5. Entries /\ Targets
  BY <1>2 DEF Entries, Targets
<1>6. InFlight = {}
  BY <1>2 DEF InFlight
<1>7. Permits
  BY <1>6, FS_EmptySet, DispatchAssumption DEF Init, Permits
<1>8. ReleasedAfterDone /\ NoneEscapes
  BY <1>2 DEF ReleasedAfterDone, NoneEscapes, Registered
<1>9. Chain
  BY <1>2 DEF Chain, EarlierOver, Adjacent, NoEntry
<1>. QED
  BY <1>1, <1>3, <1>4, <1>5, <1>7, <1>8, <1>9 DEF Inv, Stages

\* The invariant holds of every behaviour.
THEOREM Invariance == Spec => []Inv
<1>1. Init => Inv
  BY InitInv
<1>2. ASSUME Inv, [Next]_vars PROVE Inv'
  <2>1. /\ Shape /\ Taken /\ Drained /\ DoneMarked
        /\ Turns /\ Entries /\ Targets
        /\ Permits /\ ReleasedAfterDone /\ NoneEscapes /\ Chain
    BY <1>2 DEF Inv, Stages
  <2>2. Shape' /\ Taken' /\ Drained' /\ DoneMarked'
    BY <1>2, <2>1, ShapeStep, TakenStep, DrainedStep, DoneStep
  <2>3. Turns' /\ Entries' /\ Targets'
    BY <1>2, <2>1, TurnsStep, EntriesStep, TargetsStep
  <2>4. Permits' /\ ReleasedAfterDone'
    BY <1>2, <2>1, PermitsStep, ReleasedStep
  <2>5. NoneEscapes' /\ Chain'
    BY <1>2, <2>1, EscapesStep, ChainStep
  <2>. QED
    BY <2>2, <2>3, <2>4, <2>5 DEF Inv, Stages
<1>. QED
  BY <1>1, <1>2, PTL DEF Spec

\* The permits that are free and those that are held are what there was: the
\* variables keep their types and the workers in flight stay within the bound.
THEOREM DispatchTypes == Spec => []TypeOK
<1>1. Inv => TypeOK
  <2>1. SUFFICES ASSUME Inv PROVE TypeOK
    OBVIOUS
  <2>2. permits \in 0..MaxInFlight
    BY <2>1, InFlightFinite, DispatchAssumption
      DEF Inv, Stages, Shape, Permits
  <2>. QED
    BY <2>1, <2>2 DEF Inv, Stages, Shape, TypeOK
<1>. QED
  BY <1>1, Invariance, PTL

\* The semaphore bounds the worker tasks.
THEOREM InFlightHolds == Spec => []InFlightBounded
<1>1. Inv => InFlightBounded
  BY InFlightFinite, DispatchAssumption
    DEF Inv, Stages, Shape, Permits, InFlightBounded
<1>. QED
  BY <1>1, Invariance, PTL

\* The registered worker is of its sender and has not ended.
THEOREM EntriesLive == Spec => []EntryIsLive
<1>1. Inv => EntryIsLive
  BY DEF Inv, Stages, Entries, EntryIsLive
<1>. QED
  BY <1>1, Invariance, PTL

\* No registered turn of an interrupting dispatcher is out of a stop
\* command's reach.
THEOREM NothingEscapes == Spec => []NoneEscapes
<1>1. Inv => NoneEscapes
  BY DEF Inv
<1>. QED
  BY <1>1, Invariance, PTL

\* Who waited for a worker goes on after the worker has ended.
THEOREM ReleasedAfter == Spec => []ReleasedAfterDone
<1>1. Inv => ReleasedAfterDone
  BY DEF Inv
<1>. QED
  BY <1>1, Invariance, PTL

\* The loop returns with the queue drained and no worker left.
THEOREM ShutdownIsClean == Spec => []ShutdownDrains
<1>1. Inv => ShutdownDrains
  <2>1. SUFFICES ASSUME Inv, pc[Loop] = "ended"
                 PROVE  /\ received = sent /\ InFlight = {}
                        /\ \A s \in Scopes : entry[s] = 0
    BY DEF ShutdownDrains
  <2>2. received = sent /\ InFlight = {}
    BY <2>1 DEF Inv, Stages, Drained
  <2>3. \A m \in Messages : ~Registered(m)
    BY <2>2 DEF InFlight, Registered
  <2>4. \A s \in Scopes : entry[s] = 0
    BY <2>1, <2>3 DEF Inv, Stages, Shape, Entries
  <2>. QED
    BY <2>2, <2>4
<1>. QED
  BY <1>1, Invariance, PTL

\* Two turns of one sender are processed side by side only if the loop is
\* stopping one of them, and then one is cancelled or about to be.
THEOREM OneTurn == Spec => []OneTurnAtATime
<1>1. ASSUME Inv, interrupts, NEW m \in Messages, NEW n \in Messages,
             m # n, scope[m] = scope[n], IsTelegram(m),
             pc[m] = "processing", pc[n] = "processing"
      PROVE  /\ pc[Loop] \in Waiting /\ scope[target[Loop]] = scope[m]
             /\ \/ m \in cancelled \/ n \in cancelled
                \/ AboutToCancel(m) \/ AboutToCancel(n)
  <2>1. /\ turn[m] > 0 /\ turn[n] > 0 /\ turn[m] # turn[n]
        /\ turn[m] \in Nat /\ turn[n] \in Nat
    BY <1>1 DEF Inv, Stages, Shape, Turns, IsTelegram
  <2>2. /\ EarlierOver /\ Passed(m) /\ Passed(n) /\ ~Over(m) /\ ~Over(n)
    BY <1>1 DEF Inv, Chain, Passed, Over
  <2>3. turn[m] < turn[n] => \E t \in Nat : LoopStops(scope[m], t)
    BY <1>1, <2>1, <2>2 DEF EarlierOver
  <2>4. turn[n] < turn[m] => \E t \in Nat : LoopStops(scope[m], t)
    BY <1>1, <2>1, <2>2 DEF EarlierOver
  <2>5. pc[Loop] \in Waiting /\ scope[target[Loop]] = scope[m]
    BY <2>1, <2>3, <2>4 DEF LoopStops
  <2>6. Registered(m) /\ Registered(n) /\ IsTelegram(n)
    BY <1>1 DEF Registered, IsTelegram
  <2>7. /\ m \in cancelled \/ AboutToCancel(m) \/ entry[scope[m]] = m
        /\ n \in cancelled \/ AboutToCancel(n) \/ entry[scope[m]] = n
    BY <1>1, <2>6 DEF Inv, NoneEscapes
  <2>. QED
    BY <1>1, <2>5, <2>7
<1>2. Inv => OneTurnAtATime
  BY <1>1 DEF OneTurnAtATime
<1>. QED
  BY <1>2, Invariance, PTL

-----------------------------------------------------------------------------
(* Turns                                                                   *)

AnyTurn == [role : {"user", "assistant", "tool"}, text : Seq(Asks)]

Mentions(x, m) == m \in Range(x.text)
IsAsk(x, m)    == x.role = "user" /\ Mentions(x, m)

\* The message is in the history and nothing of the assistant is after it.
IsOpen(said, m) ==
  \E i \in DOMAIN said :
    /\ IsAsk(said[i], m)
    /\ \A j \in (i + 1)..Len(said) : said[j].role # "assistant"

\* The three questions about a history, asked of its elements.
LEMMA Elements ==
  ASSUME NEW t \in Seq(AnyTurn), NEW m
  PROVE  /\ HasAsk(t, m) <=> \E i \in 1 .. Len(t) : IsAsk(t[i], m)
         /\ HasText(t, m) <=> \E i \in 1 .. Len(t) : Mentions(t[i], m)
         /\ IsOpen(t, m) <=>
              \E i \in 1 .. Len(t) :
                /\ IsAsk(t[i], m)
                /\ \A j \in (i + 1)..Len(t) : t[j].role # "assistant"
<1>1. DOMAIN t = 1 .. Len(t)
  BY LenProperties
<1>. QED
  BY <1>1, Zenon DEF HasAsk, HasText, IsOpen, IsAsk, Mentions

\* Every element of a history is a turn.
LEMMA ElementTypes ==
  ASSUME NEW t \in Seq(AnyTurn)
  PROVE  /\ Len(t) \in Nat
         /\ \A i \in 1 .. Len(t) : t[i] \in AnyTurn
BY LenProperties, ElementOfSeq

\* The empty history holds no message.
LEMMA EmptyTurns ==
  ASSUME NEW m
  PROVE  /\ <<>> \in Seq(AnyTurn)
         /\ ~HasAsk(<<>>, m) /\ ~HasText(<<>>, m) /\ ~IsOpen(<<>>, m)
<1>1. <<>> \in Seq(AnyTurn) /\ DOMAIN <<>> = {}
  BY EmptySeq
<1>. QED
  BY <1>1 DEF HasAsk, HasText, IsOpen

\* One more turn.
LEMMA Appending ==
  ASSUME NEW t \in Seq(AnyTurn), NEW x \in AnyTurn, NEW m
  PROVE  /\ Append(t, x) \in Seq(AnyTurn)
         /\ HasAsk(Append(t, x), m) <=> HasAsk(t, m) \/ IsAsk(x, m)
         /\ HasText(Append(t, x), m) <=> HasText(t, m) \/ Mentions(x, m)
         /\ IsOpen(Append(t, x), m) <=>
              x.role # "assistant" /\ (IsOpen(t, m) \/ IsAsk(x, m))
<1> DEFINE u == Append(t, x)
           N == Len(t)
<1>1. /\ u \in Seq(AnyTurn) /\ Len(u) = N + 1 /\ N \in Nat
      /\ u[N + 1] = x /\ \A i \in 1 .. N : u[i] = t[i]
  BY AppendProperties, LenProperties
<1> HIDE DEF u
<1>2. /\ HasAsk(u, m) <=> \E i \in 1 .. N + 1 : IsAsk(u[i], m)
      /\ HasText(u, m) <=> \E i \in 1 .. N + 1 : Mentions(u[i], m)
      /\ IsOpen(u, m) <=>
           \E i \in 1 .. N + 1 :
             /\ IsAsk(u[i], m)
             /\ \A j \in (i + 1)..(N + 1) : u[j].role # "assistant"
  BY <1>1, Elements
<1>3. /\ HasAsk(t, m) <=> \E i \in 1 .. N : IsAsk(t[i], m)
      /\ HasText(t, m) <=> \E i \in 1 .. N : Mentions(t[i], m)
      /\ IsOpen(t, m) <=>
           \E i \in 1 .. N :
             /\ IsAsk(t[i], m)
             /\ \A j \in (i + 1)..N : t[j].role # "assistant"
  BY Elements
<1> HIDE DEF N
<1>4. /\ 1 .. N + 1 = (1 .. N) \cup {N + 1}
      /\ \A i \in 1 .. N : (i + 1)..(N + 1) = ((i + 1)..N) \cup {N + 1}
      /\ ((N + 1) + 1)..(N + 1) = {}
      /\ \A i \in 1 .. N : \A j \in (i + 1)..N : j \in 1 .. N
  BY <1>1
<1>5. HasAsk(u, m) <=> HasAsk(t, m) \/ IsAsk(x, m)
  BY <1>1, <1>2, <1>3, <1>4
<1>6. HasText(u, m) <=> HasText(t, m) \/ Mentions(x, m)
  BY <1>1, <1>2, <1>3, <1>4
<1>7. IsOpen(u, m) => x.role # "assistant" /\ (IsOpen(t, m) \/ IsAsk(x, m))
  <2>1. SUFFICES ASSUME NEW i \in 1 .. N + 1, IsAsk(u[i], m),
                        \A j \in (i + 1)..(N + 1) : u[j].role # "assistant"
                 PROVE  x.role # "assistant" /\ (IsOpen(t, m) \/ IsAsk(x, m))
    BY <1>2, Zenon
  <2>2. CASE i = N + 1
    BY <1>1, <2>1, <2>2 DEF IsAsk
  <2>3. CASE i \in 1 .. N
    <3>1. x.role # "assistant"
      BY <1>1, <1>4, <2>1, <2>3
    <3>2. IsAsk(t[i], m) /\ \A j \in (i + 1)..N : t[j].role # "assistant"
      BY <1>1, <1>4, <2>1, <2>3
    <3>. QED
      BY <1>3, <2>3, <3>1, <3>2
  <2>. QED
    BY <1>4, <2>2, <2>3
<1>8. x.role # "assistant" /\ IsOpen(t, m) => IsOpen(u, m)
  <2>1. SUFFICES ASSUME x.role # "assistant", NEW i \in 1 .. N, IsAsk(t[i], m),
                        \A j \in (i + 1)..N : t[j].role # "assistant"
                 PROVE  IsOpen(u, m)
    BY <1>3, Zenon
  <2>2. IsAsk(u[i], m) /\ i \in 1 .. N + 1
    BY <1>1, <2>1
  <2>3. \A j \in (i + 1)..(N + 1) : u[j].role # "assistant"
    BY <1>1, <1>4, <2>1
  <2>. QED
    BY <1>2, <2>2, <2>3
<1>9. IsAsk(x, m) => IsOpen(u, m)
  <2>1. N + 1 \in 1 .. N + 1 /\ \A j \in ((N + 1) + 1)..(N + 1) : FALSE
    BY <1>1
  <2>. QED
    BY <1>1, <1>2, <2>1
<1>. QED
  BY <1>1, <1>5, <1>6, <1>7, <1>8, <1>9 DEF u

\* A history whose last turn is x is one that x was appended to.
LEMMA LastAppended ==
  ASSUME NEW t \in Seq(AnyTurn), t # <<>>
  PROVE  \E r \in Seq(AnyTurn), x \in AnyTurn :
           t = Append(r, x) /\ Front(t) = r /\ Last(t) = x
<1>1. PICK r \in Seq(AnyTurn), x \in AnyTurn : t = Append(r, x)
  BY SequenceEmptyOrAppend
<1>2. Len(t) = Len(r) + 1 /\ Len(r) \in Nat /\ t[Len(t)] = x
  BY <1>1, AppendProperties, LenProperties
<1>3. Front(t) = SubSeq(t, 1, Len(r))
  BY <1>2 DEF Front
<1>4. SubSeq(t, 1, Len(r)) = r
  <2> DEFINE s == SubSeq(t, 1, Len(r))
  <2>1. \A i \in 1 .. Len(r) : t[i] \in AnyTurn /\ t[i] = r[i]
    BY <1>1, AppendProperties, ElementOfSeq
  <2>2. /\ s \in Seq(AnyTurn) /\ Len(s) = Len(r)
        /\ \A i \in 1 .. Len(r) : s[i] = t[i]
    BY <1>2, <2>1, SubSeqProperties
  <2> HIDE DEF s
  <2>3. s = r
    BY <2>1, <2>2, SeqEqual
  <2>. QED
    BY <2>3 DEF s
<1>. QED
  BY <1>1, <1>2, <1>3, <1>4 DEF Last

\* The newest n turns.
Dropped(t, n) == IF Len(t) > n THEN Len(t) - n ELSE 0

\* The newest n turns are the history without the first Dropped(t, n).
LEMMA NewestTurns ==
  ASSUME NEW t \in Seq(AnyTurn), NEW n \in Nat
  PROVE  /\ Newest(t, n) \in Seq(AnyTurn)
         /\ Dropped(t, n) \in 0 .. Len(t)
         /\ Len(Newest(t, n)) = Len(t) - Dropped(t, n)
         /\ \A i \in 1 .. Len(t) - Dropped(t, n) :
              Newest(t, n)[i] = t[Dropped(t, n) + i]
<1> DEFINE k == Dropped(t, n)
<1>1. Len(t) \in Nat
  BY LenProperties
<1>2. k \in 0 .. Len(t)
  BY <1>1 DEF Dropped
<1>3. Newest(t, n) = SubSeq(t, k + 1, Len(t))
  BY <1>1 DEF Newest, Dropped
<1> HIDE DEF k
<1>4. /\ SubSeq(t, k + 1, Len(t)) \in Seq(AnyTurn)
      /\ Len(SubSeq(t, k + 1, Len(t))) = Len(t) - k
      /\ \A i \in 1 .. Len(t) - k : SubSeq(t, k + 1, Len(t))[i] = t[k + i]
  BY <1>2, SuffixProperties
<1>. QED
  BY <1>2, <1>3, <1>4 DEF k

\* The newest turns say nothing that the history does not, ...
LEMMA NewestIsPart ==
  ASSUME NEW t \in Seq(AnyTurn), NEW n \in Nat, NEW m
  PROVE  /\ HasAsk(Newest(t, n), m) => HasAsk(t, m)
         /\ HasText(Newest(t, n), m) => HasText(t, m)
         /\ IsOpen(Newest(t, n), m) => IsOpen(t, m)
<1> DEFINE N == Len(t)
           k == Dropped(t, n)
           u == Newest(t, n)
<1>1. /\ u \in Seq(AnyTurn) /\ k \in 0 .. N /\ Len(u) = N - k
      /\ \A i \in 1 .. N - k : u[i] = t[k + i]
  BY NewestTurns
<1>2. N \in Nat
  BY LenProperties
<1> HIDE DEF u, k
<1>3. /\ HasAsk(u, m) <=> \E i \in 1 .. N - k : IsAsk(u[i], m)
      /\ HasText(u, m) <=> \E i \in 1 .. N - k : Mentions(u[i], m)
      /\ IsOpen(u, m) <=>
           \E i \in 1 .. N - k :
             /\ IsAsk(u[i], m)
             /\ \A j \in (i + 1)..(N - k) : u[j].role # "assistant"
  BY <1>1, Elements
<1>4. /\ HasAsk(t, m) <=> \E i \in 1 .. N : IsAsk(t[i], m)
      /\ HasText(t, m) <=> \E i \in 1 .. N : Mentions(t[i], m)
      /\ IsOpen(t, m) <=>
           \E i \in 1 .. N :
             /\ IsAsk(t[i], m)
             /\ \A j \in (i + 1)..N : t[j].role # "assistant"
  BY Elements
<1> HIDE DEF N
<1>5. \A i \in 1 .. N - k : k + i \in 1 .. N
  BY <1>1, <1>2
<1>6. HasAsk(u, m) => HasAsk(t, m)
  BY <1>1, <1>3, <1>4, <1>5
<1>7. HasText(u, m) => HasText(t, m)
  BY <1>1, <1>3, <1>4, <1>5
<1>8. IsOpen(u, m) => IsOpen(t, m)
  <2>1. SUFFICES ASSUME NEW i \in 1 .. N - k, IsAsk(u[i], m),
                        \A j \in (i + 1)..(N - k) : u[j].role # "assistant"
                 PROVE  IsOpen(t, m)
    BY <1>3, Zenon
  <2>2. IsAsk(t[k + i], m) /\ k + i \in 1 .. N
    BY <1>1, <1>5, <2>1
  <2>3. ASSUME NEW j \in (k + i + 1)..N PROVE t[j].role # "assistant"
    <3>1. j - k \in (i + 1)..(N - k) /\ j - k \in 1 .. N - k /\ k + (j - k) = j
      BY <1>1, <1>2
    <3>. QED
      BY <1>1, <2>1, <3>1
  <2>. QED
    BY <1>4, <2>2, <2>3
<1>. QED
  BY <1>6, <1>7, <1>8 DEF u

\* ... and what the last few turns say is still there after one more turn.
LEMMA NewestStays ==
  ASSUME NEW t \in Seq(AnyTurn), NEW x \in AnyTurn, NEW k \in Nat, NEW n \in Nat,
         k < n, NEW m, HasAsk(Newest(t, k), m)
  PROVE  HasAsk(Newest(Append(t, x), n), m)
<1> DEFINE N == Len(t)
           a == Dropped(t, k)
           v == Append(t, x)
           b == Dropped(v, n)
           u == Newest(t, k)
           w == Newest(v, n)
<1>1. /\ u \in Seq(AnyTurn) /\ a \in 0 .. N /\ Len(u) = N - a
      /\ \A i \in 1 .. N - a : u[i] = t[a + i]
  BY NewestTurns
<1>2. /\ N \in Nat /\ v \in Seq(AnyTurn) /\ Len(v) = N + 1
      /\ \A i \in 1 .. N : v[i] = t[i]
  BY LenProperties, AppendProperties
<1> HIDE DEF v
<1>3. /\ w \in Seq(AnyTurn) /\ b \in 0 .. N + 1 /\ Len(w) = N + 1 - b
      /\ \A i \in 1 .. N + 1 - b : w[i] = v[b + i]
  <2>1. /\ Newest(v, n) \in Seq(AnyTurn)
        /\ Dropped(v, n) \in 0 .. Len(v)
        /\ Len(Newest(v, n)) = Len(v) - Dropped(v, n)
        /\ \A i \in 1 .. Len(v) - Dropped(v, n) :
             Newest(v, n)[i] = v[Dropped(v, n) + i]
    BY <1>2, NewestTurns
  <2>. QED
    BY <1>2, <2>1
<1>4. b <= a
  BY <1>2 DEF Dropped
<1> HIDE DEF a, b, u, w, N
<1>5. PICK i \in 1 .. N - a : IsAsk(u[i], m)
  BY <1>1, Elements DEF u
<1>6. u[i] = t[a + i] /\ a + i \in 1 .. N
  BY <1>1, <1>2
<1>7. /\ a + i - b \in 1 .. N + 1 - b /\ b + (a + i - b) = a + i
  BY <1>1, <1>2, <1>3, <1>4, <1>6
<1>8. w[a + i - b] = u[i]
  BY <1>2, <1>3, <1>6, <1>7
<1>9. HasAsk(w, m)
  BY <1>3, <1>5, <1>7, <1>8, Elements
<1>. QED
  BY <1>9 DEF w, v

-----------------------------------------------------------------------------
(* Merging                                                                 *)

\* A merged text has the messages of both.
LEMMA TextsJoin ==
  ASSUME NEW a \in Seq(Asks), NEW b \in Seq(Asks)
  PROVE  /\ a \o b \in Seq(Asks)
         /\ \A m : m \in Range(a \o b) <=> m \in Range(a) \/ m \in Range(b)
<1>1. a \o b \in Seq(Asks)
  BY ConcatProperties
<1>2. Range(a \o b) = Range(a) \cup Range(b)
  BY RangeConcatenation
<1>. QED
  BY <1>1, <1>2

\* A turn has a role and a text and nothing else.
LEMMA TextReplaced ==
  ASSUME NEW x \in AnyTurn, NEW text
  PROVE  [x EXCEPT !.text = text] = [role |-> x.role, text |-> text]
BY DEF AnyTurn

AbsorbedInto(u, t, x, m) ==
  /\ u \in Seq(AnyTurn)
  /\ HasAsk(u, m) <=> HasAsk(t, m) \/ IsAsk(x, m)
  /\ HasText(u, m) => HasText(t, m) \/ Mentions(x, m)
  /\ IsOpen(u, m) <=> x.role # "assistant" /\ (IsOpen(t, m) \/ IsAsk(x, m))

\* What a turn that is absorbed does to the three questions is what it would
\* do if it were appended, but for answers without a question.
LEMMA Absorbing ==
  ASSUME NEW t \in Seq(AnyTurn), NEW x \in AnyTurn, NEW m
  PROVE  AbsorbedInto(Absorb(t, x), t, x, m)
<1> DEFINE u == Absorb(t, x)
           e == <<>>
<1>e. e \in Seq(AnyTurn) /\ ~HasAsk(e, m) /\ ~HasText(e, m) /\ ~IsOpen(e, m)
  BY EmptyTurns
<1>r. x.role \in {"user", "assistant", "tool"} /\ x.text \in Seq(Asks)
  BY DEF AnyTurn
<1>a. AbsorbedInto(Append(t, x), t, x, m)
  BY Appending, Zenon DEF AbsorbedInto
<1>1. CASE x.role = "tool"
  <2>1. u = t
    BY <1>1 DEF Absorb
  <2>2. ~IsAsk(x, m) /\ x.role # "assistant"
    BY <1>1 DEF IsAsk
  <2>. QED
    BY <2>1, <2>2, Zenon DEF AbsorbedInto
<1>2. CASE x.role # "tool" /\ t = <<>> /\ x.role = "user"
  <2>1. u = <<x>>
    BY <1>2 DEF Absorb
  <2>2. <<x>> = Append(t, x)
    BY <1>2
  <2> HIDE DEF u
  <2>3. u = Append(t, x)
    BY <2>1, <2>2
  <2>. QED
    BY <1>a, <2>3 DEF u
<1>3. CASE x.role # "tool" /\ t = <<>> /\ x.role # "user"
  <2>1. u = e /\ t = e
    BY <1>r, <1>3 DEF Absorb
  <2>2. ~IsAsk(x, m) /\ x.role = "assistant"
    BY <1>r, <1>3 DEF IsAsk
  <2> HIDE DEF u, e
  <2>3. AbsorbedInto(u, t, x, m)
    BY <1>e, <2>1, <2>2, Zenon DEF AbsorbedInto
  <2>. QED
    BY <2>3 DEF u
<1>4. CASE x.role # "tool" /\ t # <<>> /\ Last(t).role # x.role
  <2>1. u = Append(t, x)
    BY <1>r, <1>4 DEF Absorb
  <2>. QED
    BY <1>a, <2>1
<1>5. CASE x.role # "tool" /\ t # <<>> /\ Last(t).role = x.role
  <2>1. u = [t EXCEPT ![Len(t)].text = @ \o x.text]
    BY <1>r, <1>5 DEF Absorb
  <2>2. PICK r \in Seq(AnyTurn), y \in AnyTurn :
          t = Append(r, y) /\ Front(t) = r /\ Last(t) = y
    BY <1>5, LastAppended
  <2> DEFINE z == [role |-> y.role, text |-> y.text \o x.text]
  <2>3. y.role = x.role /\ y.text \in Seq(Asks)
    BY <1>5, <2>2 DEF AnyTurn
  <2>4. z \in AnyTurn
    BY <1>r, <2>3, TextsJoin DEF AnyTurn
  <2>5. u = Append(r, z)
    <3> DEFINE N == Len(r)
               s == Append(r, z)
    <3>1. /\ N \in Nat /\ Len(t) = N + 1 /\ t[N + 1] = y
          /\ t \in [1 .. N + 1 -> AnyTurn] /\ \A i \in 1 .. N : t[i] = r[i]
      <4>1. /\ N \in Nat /\ Len(t) = N + 1 /\ t[N + 1] = y
            /\ \A i \in 1 .. N : t[i] = r[i]
        BY <2>2, AppendProperties, LenProperties
      <4>2. t \in [1 .. Len(t) -> AnyTurn]
        BY LenProperties
      <4>. QED
        BY <4>1, <4>2
    <3>2. /\ s \in Seq(AnyTurn) /\ Len(s) = N + 1 /\ s[N + 1] = z
          /\ \A i \in 1 .. N : s[i] = r[i]
      BY <2>4, AppendProperties, LenProperties
    <3>4. [y EXCEPT !.text = y.text \o x.text] = z
      BY TextReplaced DEF z
    <3> HIDE DEF N, s, z, u
    <3>5. s \in [1 .. N + 1 -> AnyTurn]
      BY <3>2, LenProperties
    <3>6. u = [t EXCEPT ![N + 1] = z]
      BY <2>1, <3>1, <3>4
    <3>7. /\ u \in [1 .. N + 1 -> AnyTurn] /\ u[N + 1] = z
          /\ \A i \in 1 .. N : u[i] = t[i]
      BY <2>4, <3>1, <3>6
    <3>8. \A i \in 1 .. N + 1 : u[i] = s[i]
      <4>1. \A i \in 1 .. N + 1 : i \in 1 .. N \/ i = N + 1
        BY <3>1
      <4>. QED
        BY <3>1, <3>2, <3>7, <4>1
    <3>9. u = s
      <4>1. u \in Seq(AnyTurn) /\ Len(u) = N + 1
        BY <3>1, <3>7, FunctionIsSeq
      <4>. QED
        BY <3>2, <3>8, <4>1, SeqEqual
    <3>. QED
      BY <3>9 DEF s
  <2>6. /\ Mentions(z, m) <=> Mentions(y, m) \/ Mentions(x, m)
        /\ IsAsk(z, m) <=> IsAsk(y, m) \/ IsAsk(x, m)
        /\ z.role = y.role
    BY <1>r, <2>3, TextsJoin DEF IsAsk, Mentions
  <2>7. IsAsk(x, m) => x.role # "assistant"
    BY DEF IsAsk
  <2> HIDE DEF z, u
  <2>8. /\ Append(r, y) \in Seq(AnyTurn)
        /\ HasAsk(t, m) <=> HasAsk(r, m) \/ IsAsk(y, m)
        /\ HasText(t, m) <=> HasText(r, m) \/ Mentions(y, m)
        /\ IsOpen(t, m) <=> y.role # "assistant" /\ (IsOpen(r, m) \/ IsAsk(y, m))
    BY <2>2, Appending, Zenon
  <2>9. /\ u \in Seq(AnyTurn)
        /\ HasAsk(u, m) <=> HasAsk(r, m) \/ IsAsk(z, m)
        /\ HasText(u, m) <=> HasText(r, m) \/ Mentions(z, m)
        /\ IsOpen(u, m) <=> z.role # "assistant" /\ (IsOpen(r, m) \/ IsAsk(z, m))
    BY <2>4, <2>5, Appending, Zenon
  <2>. QED
    BY <2>3, <2>6, <2>7, <2>8, <2>9, Zenon DEF u, AbsorbedInto
<1>. QED
  BY <1>1, <1>2, <1>3, <1>4, <1>5

\* Merging a history is absorbing its turns one by one.
Merges(f, said) ==
  /\ f \in [0 .. Len(said) -> Seq(AnyTurn)]
  /\ f[0] = <<>>
  /\ \A n \in 1 .. Len(said) : f[n] = Absorb(f[n - 1], said[n])
  /\ Normalized(said) = f[Len(said)]

\* Absorbing a turn leaves a history.
LEMMA AbsorbType ==
  ASSUME NEW t \in Seq(AnyTurn), NEW x \in AnyTurn
  PROVE  Absorb(t, x) \in Seq(AnyTurn)
BY Absorbing DEF AbsorbedInto

\* A normalised history is the result of merging it turn by turn.
LEMMA NormalizedMerges ==
  ASSUME NEW said \in Seq(AnyTurn)
  PROVE  \E f : Merges(f, said)
<1> DEFINE N == Len(said)
           V == Seq(AnyTurn)
           e == <<>>
           step == [n \in 1 .. N |-> [v \in V |-> Absorb(v, said[n])]]
           Merged(g) == g = [n \in 0 .. N |->
                               IF n = 0 THEN e ELSE Absorb(g[n - 1], said[n])]
           c == CHOOSE g : Merged(g)
<1>1. N \in Nat /\ e \in V /\ \A n \in 1 .. N : said[n] \in AnyTurn
  BY EmptySeq, LenProperties, ElementOfSeq
<1>2. \A n \in 1 .. N, v \in V : step[n][v] = Absorb(v, said[n])
  OBVIOUS
<1>3. step \in Steps(N, V)
  BY <1>1, AbsorbType DEF Steps
<1>4. Normalized(said) = c[N]
  BY DEF Normalized
<1> HIDE DEF N, V, step, e
<1>5. PICK f : Iterates(f, N, V, e, step)
  BY <1>1, <1>3, IterationExists
<1>6. /\ f \in [0 .. N -> V] /\ f[0] = e
      /\ \A n \in 1 .. N : f[n] = step[n][f[n - 1]]
  BY <1>5 DEF Iterates
<1>7. \A n \in 1 .. N : f[n] = Absorb(f[n - 1], said[n])
  <2>1. \A n \in 1 .. N : n - 1 \in 0 .. N
    BY <1>1
  <2>2. \A n \in 1 .. N : f[n - 1] \in V
    BY <1>6, <2>1
  <2>. QED
    BY <1>2, <1>6, <2>2
<1>8. Merged(f)
  <2>1. \A n \in 0 .. N : n = 0 \/ n \in 1 .. N
    BY <1>1
  <2>2. \A n \in 0 .. N : f[n] = IF n = 0 THEN e ELSE Absorb(f[n - 1], said[n])
    BY <1>6, <1>7, <2>1
  <2>. QED
    BY <1>6, <2>2
<1>9. Merged(c)
  BY <1>8
<1> HIDE DEF c
<1>10. /\ DOMAIN c = 0 .. N
       /\ \A n \in 0 .. N :
            c[n] = IF n = 0 THEN e ELSE Absorb(c[n - 1], said[n])
  BY <1>9, Zenon
<1>11. /\ 0 \in 0 .. N
       /\ \A n \in 1 .. N : n \in 0 .. N /\ n # 0
  BY <1>1
<1>12. c[0] = e /\ \A n \in 1 .. N : c[n] = Absorb(c[n - 1], said[n])
  BY <1>10, <1>11, Zenon
<1>13. \A n \in 1 .. N : c[n - 1] \in V => c[n] = step[n][c[n - 1]]
  BY <1>2, <1>12, Zenon
<1>14. Follows(c, N, V, e, step)
  BY <1>12, <1>13 DEF Follows
<1>15. c[N] = f[N]
  <2>0. N \in Nat
    BY <1>1
  <2>1. \A n \in 0 .. N : c[n] = f[n]
    BY <2>0, <1>5, <1>14, IterationUnique
  <2>. QED
    BY <1>1, <2>1
<1>16. Merges(f, said)
  BY <1>4, <1>6, <1>7, <1>15 DEF Merges, N, V, e
<1>. QED
  BY <1>16

\* Normalising the empty history leaves it empty.
LEMMA NormalizedEmpty == Normalized(<<>>) = <<>>
<1>1. <<>> \in Seq(AnyTurn) /\ Len(<<>>) = 0
  BY EmptySeq
<1>2. PICK f : Merges(f, <<>>)
  BY <1>1, NormalizedMerges
<1>. QED
  BY <1>1, <1>2 DEF Merges

\* One more turn is absorbed by what has been merged so far.
LEMMA NormalizedAppend ==
  ASSUME NEW s \in Seq(AnyTurn), NEW x \in AnyTurn
  PROVE  Normalized(Append(s, x)) = Absorb(Normalized(s), x)
<1> DEFINE t == Append(s, x)
           N == Len(s)
           e == <<>>
<1>1. /\ t \in Seq(AnyTurn) /\ N \in Nat /\ Len(t) = N + 1 /\ t[N + 1] = x
      /\ \A n \in 1 .. N : t[n] = s[n]
  BY AppendProperties, LenProperties
<1>2. PICK f : Merges(f, s)
  BY NormalizedMerges
<1> HIDE DEF t
<1>3. PICK g : Merges(g, t)
  BY <1>1, NormalizedMerges
<1>4. /\ f[0] = e /\ Normalized(s) = f[N]
      /\ \A n \in 1 .. N : f[n] = Absorb(f[n - 1], s[n])
  BY <1>2 DEF Merges
<1>5. /\ g[0] = e /\ Normalized(t) = g[N + 1]
      /\ \A n \in 1 .. N + 1 : g[n] = Absorb(g[n - 1], t[n])
  BY <1>1, <1>3 DEF Merges
<1> HIDE DEF N, e
<1> DEFINE P == {n \in 0 .. N : f[n] = g[n]}
<1>6. 0 \in P
  BY <1>1, <1>4, <1>5
<1>7. ASSUME NEW n \in 0 .. N - 1, n \in P PROVE n + 1 \in P
  <2>1. /\ n + 1 \in 1 .. N /\ n + 1 \in 1 .. N + 1 /\ (n + 1) - 1 = n
        /\ n + 1 \in 0 .. N
    BY <1>1
  <2>2. f[n + 1] = Absorb(f[n], s[n + 1])
    BY <1>4, <2>1
  <2>3. g[n + 1] = Absorb(g[n], t[n + 1])
    BY <1>5, <2>1
  <2>4. f[n] = g[n] /\ t[n + 1] = s[n + 1]
    BY <1>1, <1>7, <2>1
  <2>5. f[n + 1] = g[n + 1]
    BY <2>2, <2>3, <2>4, Zenon
  <2>. QED
    BY <2>1, <2>5
<1> HIDE DEF P
<1>8. 0 .. N \subseteq P
  BY <1>1, <1>6, <1>7, UpwardInduction
<1>9. f[N] = g[N]
  BY <1>1, <1>8 DEF P
<1>10. g[N + 1] = Absorb(g[N], x)
  <2>1. N + 1 \in 1 .. N + 1 /\ (N + 1) - 1 = N
    BY <1>1
  <2>2. g[N + 1] = Absorb(g[(N + 1) - 1], t[N + 1])
    BY <1>5, <2>1
  <2>. QED
    BY <1>1, <2>1, <2>2
<1>. QED
  BY <1>4, <1>5, <1>9, <1>10, Zenon DEF t

\* Merging keeps the messages that ask, and which of them are open, and adds
\* no text of its own.
MergedFrom(s, m) ==
  /\ Normalized(s) \in Seq(AnyTurn)
  /\ HasAsk(Normalized(s), m) <=> HasAsk(s, m)
  /\ HasText(Normalized(s), m) => HasText(s, m)
  /\ IsOpen(Normalized(s), m) <=> IsOpen(s, m)

\* Normalising a history is such a merge.
LEMMA Merging ==
  ASSUME NEW t \in Seq(AnyTurn), NEW m
  PROVE  MergedFrom(t, m)
<1> DEFINE P == {s \in Seq(AnyTurn) : MergedFrom(s, m)}
           e == <<>>
<1>1. e \in P
  <2>1. e \in Seq(AnyTurn) /\ ~HasAsk(e, m) /\ ~HasText(e, m) /\ ~IsOpen(e, m)
    BY EmptyTurns
  <2>2. Normalized(e) = e
    BY NormalizedEmpty
  <2> HIDE DEF e
  <2>3. MergedFrom(e, m)
    BY <2>1, <2>2, Zenon DEF MergedFrom
  <2>. QED
    BY <2>1, <2>3
<1>2. ASSUME NEW s \in Seq(AnyTurn), NEW x \in AnyTurn, s \in P
      PROVE  Append(s, x) \in P
  <2> DEFINE r == Normalized(s)
             u == Append(s, x)
             v == Normalized(u)
  <2>1. MergedFrom(s, m)
    BY <1>2
  <2>2. /\ r \in Seq(AnyTurn)
        /\ HasAsk(r, m) <=> HasAsk(s, m)
        /\ HasText(r, m) => HasText(s, m)
        /\ IsOpen(r, m) <=> IsOpen(s, m)
    BY <2>1, Zenon DEF MergedFrom
  <2>3. v = Absorb(r, x)
    BY NormalizedAppend, Zenon
  <2> HIDE DEF r, v
  <2>4. AbsorbedInto(v, r, x, m)
    BY <2>2, <2>3, Absorbing, Zenon
  <2>5. /\ v \in Seq(AnyTurn)
        /\ HasAsk(v, m) <=> HasAsk(r, m) \/ IsAsk(x, m)
        /\ HasText(v, m) => HasText(r, m) \/ Mentions(x, m)
        /\ IsOpen(v, m) <=> x.role # "assistant" /\ (IsOpen(r, m) \/ IsAsk(x, m))
    BY <2>4, Zenon DEF AbsorbedInto
  <2>6. /\ u \in Seq(AnyTurn)
        /\ HasAsk(u, m) <=> HasAsk(s, m) \/ IsAsk(x, m)
        /\ HasText(u, m) <=> HasText(s, m) \/ Mentions(x, m)
        /\ IsOpen(u, m) <=> x.role # "assistant" /\ (IsOpen(s, m) \/ IsAsk(x, m))
    BY Appending, Zenon
  <2> HIDE DEF u
  <2>7. MergedFrom(u, m)
    BY <2>2, <2>5, <2>6, Zenon DEF MergedFrom, v
  <2>. QED
    BY <2>6, <2>7 DEF u
<1> HIDE DEF P
<1>3. Seq(AnyTurn) \subseteq P
  <2> HIDE DEF e
  <2>1. \A s \in Seq(AnyTurn), x \in AnyTurn : s \in P => Append(s, x) \in P
    BY <1>2
  <2>. QED
    BY <1>1, <2>1, SequenceInduction DEF e
<1>. QED
  BY <1>3 DEF P

-----------------------------------------------------------------------------
(* The turns of a history                                                  *)

TurnOver == {"done", "left", "refused"}

TurnStages ==
  TurnOver \cup {"none", "expiring", "adding", "reading", "asking", "pausing",
             "failed", "not rolled back", "compacting", "retrying", "clearing",
             "retrying alone"}

\* What a cancelled turn has yet to add is its own and ends with its note.
UnsavedInv ==
  /\ unsaved \in [Asks -> Seq(AnyTurn)]
  /\ \A m \in Asks :
       /\ stage[m] = "pausing" =>
            unsaved[m] # <<>> /\ Last(unsaved[m]) = AnswerOf(m)
       /\ \A k \in Asks : HasText(unsaved[m], k) => k = m

HistoriesInv ==
  /\ history \in Seq(AnyTurn)
  /\ stage \in [Asks -> TurnStages]
  /\ UnsavedInv
  /\ \A m \in Asks : IsOpen(history, m) => stage[m] # "done"

\* What a step of the turn of m may do to the history.
GoodStep(m) ==
  /\ stage[m] \notin TurnOver
  /\ stage' \in [Asks -> TurnStages]
  /\ \A k \in Asks \ {m} : stage'[k] = stage[k]
  /\ UnsavedInv'
  /\ history' \in Seq(AnyTurn)
  /\ \A k \in Asks :
       /\ IsOpen(history', k) => stage'[m] # "done" /\ (k = m \/ IsOpen(history, k))
       /\ HasText(history', k) => k = m \/ HasText(history, k)
       /\ HasAsk(history, k) /\ ~HasAsk(history', k) =>
            \/ history' = <<>>
            \/ k = m /\ stage[m] = "asking" /\ stage'[m] = "refused"
            \/ ~HasAsk(Newest(history, KeepLast), k)

\* The turns that the message m adds mention m alone, and answers ask nothing.
LEMMA OwnTurns ==
  ASSUME NEW m \in Asks
  PROVE  /\ AskOf(m) \in AnyTurn /\ AnswerOf(m) \in AnyTurn
         /\ AnswerOf(m).role = "assistant"
         /\ \A k \in Asks : /\ Mentions(AskOf(m), k) => k = m
                            /\ Mentions(AnswerOf(m), k) => k = m
                            /\ ~IsAsk(AnswerOf(m), k)
<1> DEFINE text == <<m>>
<1>1. text \in Seq(Asks) /\ \A k \in Asks : k \in Range(text) => k = m
  BY DEF Range
<1>2. AskOf(m) = [role |-> "user", text |-> text]
      /\ AnswerOf(m) = [role |-> "assistant", text |-> text]
  BY DEF AskOf, AnswerOf, Turn
<1> HIDE DEF text
<1>. QED
  BY <1>1, <1>2 DEF AnyTurn, Mentions, IsAsk

\* A turn is pushed.
LEMMA Pushing ==
  ASSUME history \in Seq(AnyTurn), NEW x \in AnyTurn, NEW k \in Asks
  PROVE  /\ Pushed(x) \in Seq(AnyTurn)
         /\ IsOpen(Pushed(x), k) =>
              x.role # "assistant" /\ (IsOpen(history, k) \/ IsAsk(x, k))
         /\ HasText(Pushed(x), k) => HasText(history, k) \/ Mentions(x, k)
         /\ ~HasAsk(Pushed(x), k) => ~HasAsk(Newest(history, KeepLast), k)
<1> DEFINE u == Append(history, x)
<1>1. MaxHistory \in Nat /\ KeepLast \in Nat /\ KeepLast < MaxHistory
  BY HistoriesAssumption
<1>2. /\ u \in Seq(AnyTurn)
      /\ HasText(u, k) <=> HasText(history, k) \/ Mentions(x, k)
      /\ IsOpen(u, k) <=> x.role # "assistant" /\ (IsOpen(history, k) \/ IsAsk(x, k))
  BY Appending, Zenon
<1>3. Pushed(x) = Newest(u, MaxHistory)
  BY DEF Pushed
<1>4. HasAsk(Newest(history, KeepLast), k) => HasAsk(Newest(u, MaxHistory), k)
  BY <1>1, NewestStays
<1> HIDE DEF u
<1>5. /\ Newest(u, MaxHistory) \in Seq(AnyTurn)
      /\ HasText(Newest(u, MaxHistory), k) => HasText(u, k)
      /\ IsOpen(Newest(u, MaxHistory), k) => IsOpen(u, k)
  BY <1>1, <1>2, NewestTurns, NewestIsPart
<1>. QED
  BY <1>2, <1>3, <1>4, <1>5, Zenon

\* The history is left alone.
LEMMA KeepingStep ==
  ASSUME HistoriesInv, NEW m \in Asks, stage[m] \notin TurnOver,
         NEW next \in TurnStages, next # "done", To(m, next),
         UnsavedInv', history' = history
  PROVE  GoodStep(m)
<1>1. /\ stage' \in [Asks -> TurnStages] /\ stage'[m] = next
      /\ \A k \in Asks \ {m} : stage'[k] = stage[k]
  BY DEF HistoriesInv, To
<1>2. history' \in Seq(AnyTurn)
  BY DEF HistoriesInv
<1>. QED
  BY <1>1, <1>2, Zenon DEF GoodStep

\* The history is dropped.
LEMMA DroppingStep ==
  ASSUME HistoriesInv, NEW m \in Asks, stage[m] \notin TurnOver,
         NEW next \in TurnStages, To(m, next),
         UnsavedInv', history' = <<>>
  PROVE  GoodStep(m)
<1>1. /\ stage' \in [Asks -> TurnStages]
      /\ \A k \in Asks \ {m} : stage'[k] = stage[k]
  BY DEF HistoriesInv, To
<1>2. history' \in Seq(AnyTurn)
      /\ \A k \in Asks : ~HasText(history', k) /\ ~IsOpen(history', k)
  BY EmptyTurns
<1>. QED
  BY <1>1, <1>2, Zenon DEF GoodStep

\* A turn that is its own is pushed: after the last of them an answer.
LEMMA PushingStep ==
  ASSUME HistoriesInv, NEW m \in Asks, stage[m] \notin TurnOver,
         NEW next \in TurnStages, To(m, next),
         UnsavedInv', NEW x \in AnyTurn, history' = Pushed(x),
         \A k \in Asks : Mentions(x, k) => k = m,
         next = "done" => x.role = "assistant"
  PROVE  GoodStep(m)
<1>1. /\ stage' \in [Asks -> TurnStages] /\ stage'[m] = next
      /\ \A k \in Asks \ {m} : stage'[k] = stage[k]
  BY DEF HistoriesInv, To
<1>2. history \in Seq(AnyTurn)
  BY DEF HistoriesInv
<1>3. history' \in Seq(AnyTurn)
  BY <1>2, Pushing
<1>4. ASSUME NEW k \in Asks
      PROVE  /\ IsOpen(history', k) =>
                  x.role # "assistant" /\ (IsOpen(history, k) \/ IsAsk(x, k))
             /\ HasText(history', k) => HasText(history, k) \/ Mentions(x, k)
             /\ ~HasAsk(history', k) => ~HasAsk(Newest(history, KeepLast), k)
  <2>1. /\ IsOpen(Pushed(x), k) =>
             x.role # "assistant" /\ (IsOpen(history, k) \/ IsAsk(x, k))
        /\ HasText(Pushed(x), k) => HasText(history, k) \/ Mentions(x, k)
        /\ ~HasAsk(Pushed(x), k) => ~HasAsk(Newest(history, KeepLast), k)
    BY <1>2, Pushing, Zenon
  <2>. QED
    BY <2>1, Zenon
<1>5. \A k \in Asks : IsAsk(x, k) => k = m
  BY DEF IsAsk
<1>. QED
  BY <1>1, <1>3, <1>4, <1>5, Zenon DEF GoodStep

\* The turn's own message is taken out again.
LEMMA RollingBackStep ==
  ASSUME HistoriesInv, NEW m \in Asks, stage[m] = "asking", To(m, "refused"),
         UnsavedInv', history # <<>>, Last(history) = AskOf(m),
         history' = Front(history)
  PROVE  GoodStep(m)
<1>1. /\ stage' \in [Asks -> TurnStages] /\ stage'[m] = "refused"
      /\ \A k \in Asks \ {m} : stage'[k] = stage[k]
  BY DEF HistoriesInv, To, TurnStages, TurnOver
<1>2. PICK r \in Seq(AnyTurn), x \in AnyTurn :
        history = Append(r, x) /\ Front(history) = r /\ Last(history) = x
  BY LastAppended DEF HistoriesInv
<1>3. x = AskOf(m) /\ x.role = "user" /\ history' = r
  BY <1>2 DEF AskOf, Turn
<1>4. ASSUME NEW k \in Asks
      PROVE  /\ HasAsk(history, k) <=> HasAsk(r, k) \/ IsAsk(x, k)
             /\ HasText(history, k) <=> HasText(r, k) \/ Mentions(x, k)
             /\ IsOpen(history, k) <=>
                  x.role # "assistant" /\ (IsOpen(r, k) \/ IsAsk(x, k))
             /\ IsAsk(x, k) => k = m
  <2>1. /\ HasAsk(Append(r, x), k) <=> HasAsk(r, k) \/ IsAsk(x, k)
        /\ HasText(Append(r, x), k) <=> HasText(r, k) \/ Mentions(x, k)
        /\ IsOpen(Append(r, x), k) <=>
             x.role # "assistant" /\ (IsOpen(r, k) \/ IsAsk(x, k))
    BY Appending, Zenon
  <2>2. IsAsk(x, k) => k = m
    BY <1>3, OwnTurns DEF IsAsk
  <2>. QED
    BY <1>2, <2>1, <2>2, Zenon
<1>5. x.role # "assistant" /\ stage[m] \notin TurnOver /\ "refused" # "done"
  BY <1>3 DEF TurnOver
<1>. QED
  BY <1>1, <1>2, <1>3, <1>4, <1>5, Zenon DEF GoodStep

\* The history is compacted.
LEMMA CompactingStep ==
  ASSUME HistoriesInv, NEW m \in Asks, stage[m] \notin TurnOver, To(m, "retrying"),
         UnsavedInv', history' = Normalized(Newest(history, KeepLast))
  PROVE  GoodStep(m)
<1>1. /\ stage' \in [Asks -> TurnStages] /\ stage'[m] = "retrying"
      /\ \A k \in Asks \ {m} : stage'[k] = stage[k]
  BY DEF HistoriesInv, To, TurnStages, TurnOver
<1>2. history \in Seq(AnyTurn) /\ KeepLast \in Nat
  BY HistoriesAssumption DEF HistoriesInv
<1> DEFINE newest == Newest(history, KeepLast)
<1>3. /\ newest \in Seq(AnyTurn)
      /\ \A k \in Asks : /\ HasText(newest, k) => HasText(history, k)
                         /\ IsOpen(newest, k) => IsOpen(history, k)
  BY <1>2, NewestTurns, NewestIsPart
<1>4. history' = Normalized(newest)
  OBVIOUS
<1> HIDE DEF newest
<1>5. history' \in Seq(AnyTurn)
  <2>1. MergedFrom(newest, m)
    BY <1>3, Merging
  <2>. QED
    BY <1>4, <2>1 DEF MergedFrom
<1>6. ASSUME NEW k \in Asks
      PROVE  /\ HasAsk(history', k) <=> HasAsk(newest, k)
             /\ HasText(history', k) => HasText(newest, k)
             /\ IsOpen(history', k) <=> IsOpen(newest, k)
  <2>1. MergedFrom(newest, k)
    BY <1>3, Merging
  <2>. QED
    BY <1>4, <2>1, Zenon DEF MergedFrom
<1>7. "retrying" # "done"
  OBVIOUS
<1>. QED
  BY <1>1, <1>3, <1>5, <1>6, <1>7, Zenon DEF GoodStep, newest

\* As long as a turn is not pausing and what is unsaved stays or is cleared,
\* the unsaved turns are as they should be.
LEMMA UnsavedStays ==
  ASSUME HistoriesInv, NEW m \in Asks, NEW next, next # "pausing", To(m, next),
         \/ unsaved' = unsaved
         \/ unsaved' = [unsaved EXCEPT ![m] = <<>>]
  PROVE  UnsavedInv'
<1> DEFINE e == <<>>
<1>1. e \in Seq(AnyTurn) /\ \A k \in Asks : ~HasText(e, k)
  BY EmptyTurns
<1>2. unsaved' = unsaved \/ unsaved' = [unsaved EXCEPT ![m] = e]
  OBVIOUS
<1> HIDE DEF e
<1>3. /\ unsaved \in [Asks -> Seq(AnyTurn)] /\ stage \in [Asks -> TurnStages]
      /\ stage' = [stage EXCEPT ![m] = next]
  BY DEF HistoriesInv, UnsavedInv, To
<1>4. /\ unsaved' \in [Asks -> Seq(AnyTurn)]
      /\ \A k \in Asks : unsaved'[k] = unsaved[k] \/ (k = m /\ unsaved'[k] = e)
      /\ \A k \in Asks \ {m} : unsaved'[k] = unsaved[k]
  BY <1>1, <1>2, <1>3
<1>5. \A k \in Asks : stage'[k] = "pausing" => k # m /\ stage[k] = "pausing"
  BY <1>3
<1>6. \A k \in Asks : stage'[k] = "pausing" =>
        unsaved'[k] # <<>> /\ Last(unsaved'[k]) = AnswerOf(k)
  BY <1>4, <1>5 DEF HistoriesInv, UnsavedInv
<1>7. \A k, l \in Asks : HasText(unsaved'[k], l) => l = k
  <2>1. \A k, l \in Asks : HasText(unsaved[k], l) => l = k
    BY DEF HistoriesInv, UnsavedInv
  <2>. QED
    BY <1>1, <1>4, <2>1
<1>. QED
  BY <1>4, <1>6, <1>7, Zenon DEF UnsavedInv

\* What a cancelled tool loop leaves, and the note after it.
LEMMA ProgressIsOwn ==
  ASSUME NEW m \in Asks, NEW progress \in Progress(m)
  PROVE  LET rest == Append(progress, AnswerOf(m))
         IN  /\ rest \in Seq(AnyTurn) /\ rest # <<>>
             /\ Last(rest) = AnswerOf(m)
             /\ \A k \in Asks : HasText(rest, k) => k = m
<1> DEFINE e == <<>>
           hint == Turn("user", e)
           result == Turn("tool", e)
           a == AnswerOf(m)
<1>1. /\ hint \in AnyTurn /\ result \in AnyTurn
      /\ \A k \in Asks : ~Mentions(hint, k) /\ ~Mentions(result, k)
  <2>1. e \in Seq(Asks) /\ Range(e) = {}
    BY EmptySeq DEF Range
  <2> HIDE DEF e
  <2>. QED
    BY <2>1 DEF Turn, AnyTurn, Mentions
<1>2. a \in AnyTurn /\ \A k \in Asks : Mentions(a, k) => k = m
  BY OwnTurns
<1>3. e \in Seq(AnyTurn) /\ \A k \in Asks : ~HasText(e, k)
  BY EmptyTurns
<1>4. \/ progress = e
      \/ progress = Append(e, hint)
      \/ progress = Append(Append(e, a), hint)
      \/ progress = Append(Append(e, a), result)
  BY DEF Progress
<1> HIDE DEF e, hint, result, a
<1> DEFINE Own(s) == s \in Seq(AnyTurn) /\ \A k \in Asks : HasText(s, k) => k = m
<1>5. ASSUME NEW s, Own(s), NEW x \in AnyTurn, \A k \in Asks : Mentions(x, k) => k = m
      PROVE  Own(Append(s, x))
  <2>1. s \in Seq(AnyTurn)
    BY <1>5
  <2>2. Append(s, x) \in Seq(AnyTurn)
    BY <2>1, AppendProperties
  <2>3. \A k \in Asks : HasText(Append(s, x), k) <=> HasText(s, k) \/ Mentions(x, k)
    BY <2>1, Appending, Zenon
  <2>. QED
    BY <1>5, <2>2, <2>3, Zenon
<1>6. Own(e)
  BY <1>3
<1> HIDE DEF Own
<1>7. Own(progress)
  <2>1. Own(Append(e, hint))
    BY <1>1, <1>5, <1>6
  <2>2. Own(Append(e, a))
    BY <1>2, <1>5, <1>6
  <2>3. Own(Append(Append(e, a), hint)) /\ Own(Append(Append(e, a), result))
    BY <1>1, <1>5, <2>2
  <2>. QED
    BY <1>4, <1>6, <2>1, <2>3
<1>8. Own(Append(progress, a))
  BY <1>2, <1>5, <1>7
<1>9. progress \in Seq(AnyTurn)
  BY <1>7 DEF Own
<1>10. /\ Len(Append(progress, a)) = Len(progress) + 1 /\ Len(progress) \in Nat
       /\ Append(progress, a)[Len(progress) + 1] = a
  BY <1>2, <1>9, AppendProperties, LenProperties
<1>11. Append(progress, a) # <<>> /\ Last(Append(progress, a)) = a
  <2> DEFINE r == Append(progress, a)
  <2>1. r \in Seq(AnyTurn)
    BY <1>8 DEF Own
  <2> HIDE DEF r
  <2>2. r # <<>>
    BY <1>10, <2>1, EmptySeq DEF r
  <2>3. Last(r) = a
    BY <1>10 DEF r, Last
  <2>. QED
    BY <2>2, <2>3 DEF r
<1>. QED
  BY <1>8, <1>11 DEF Own, a

\* A cancelled turn is paused, ...
LEMMA PausedGood ==
  ASSUME HistoriesInv, NEW m \in Asks, Paused(m)
  PROVE  GoodStep(m)
<1>1. stage[m] \notin TurnOver /\ history' = history
  BY DEF Paused, TurnOver
<1>2. PICK progress \in Progress(m) :
        IF progress = <<>> THEN EndTurn(m, "left")
        ELSE /\ Leaves(m, "pausing")
             /\ unsaved' = [unsaved EXCEPT ![m] = Append(progress, AnswerOf(m))]
  BY Zenon DEF Paused
<1>3. CASE EndTurn(m, "left")
  <2>1. To(m, "left") /\ unsaved' = [unsaved EXCEPT ![m] = <<>>]
    BY <1>3 DEF EndTurn, Leaves
  <2>2. UnsavedInv'
    BY <2>1, UnsavedStays
  <2>3. "left" \in TurnStages /\ "left" # "done"
    BY DEF TurnStages, TurnOver
  <2>. QED
    BY <1>1, <2>1, <2>2, <2>3, KeepingStep
<1>4. CASE /\ Leaves(m, "pausing")
           /\ unsaved' = [unsaved EXCEPT ![m] = Append(progress, AnswerOf(m))]
  <2> DEFINE rest == Append(progress, AnswerOf(m))
  <2>1. /\ rest \in Seq(AnyTurn) /\ rest # <<>> /\ Last(rest) = AnswerOf(m)
        /\ \A k \in Asks : HasText(rest, k) => k = m
    BY ProgressIsOwn
  <2>2. To(m, "pausing") /\ unsaved' = [unsaved EXCEPT ![m] = rest]
    BY <1>4 DEF Leaves
  <2> HIDE DEF rest
  <2>3. /\ unsaved \in [Asks -> Seq(AnyTurn)] /\ stage \in [Asks -> TurnStages]
        /\ \A k \in Asks : stage[k] = "pausing" =>
             unsaved[k] # <<>> /\ Last(unsaved[k]) = AnswerOf(k)
        /\ \A k, l \in Asks : HasText(unsaved[k], l) => l = k
    BY DEF HistoriesInv, UnsavedInv
  <2>4. /\ unsaved' \in [Asks -> Seq(AnyTurn)] /\ unsaved'[m] = rest
        /\ \A k \in Asks : k # m => unsaved'[k] = unsaved[k] /\ stage'[k] = stage[k]
    BY <2>1, <2>2, <2>3 DEF To
  <2>5. UnsavedInv'
    BY <2>1, <2>3, <2>4, Zenon DEF UnsavedInv
  <2>6. "pausing" \in TurnStages /\ "pausing" # "done"
    BY DEF TurnStages, TurnOver
  <2>. QED
    BY <1>1, <2>2, <2>5, <2>6, KeepingStep
<1>. QED
  BY <1>2, <1>3, <1>4

\* ... and adds its turns one by one.
LEMMA SaveProgressGood ==
  ASSUME HistoriesInv, NEW m \in Asks, SaveProgress(m)
  PROVE  GoodStep(m)
<1> DEFINE rest == unsaved[m]
<1>1. /\ stage[m] = "pausing" /\ history' = Pushed(Head(rest))
      /\ \/ Len(rest) = 1 /\ EndTurn(m, "done")
         \/ /\ Len(rest) # 1 /\ unsaved' = [unsaved EXCEPT ![m] = Tail(rest)]
            /\ stage' = stage
  BY DEF SaveProgress
<1>2. /\ unsaved \in [Asks -> Seq(AnyTurn)] /\ stage \in [Asks -> TurnStages]
      /\ \A k \in Asks : stage[k] = "pausing" =>
           unsaved[k] # <<>> /\ Last(unsaved[k]) = AnswerOf(k)
      /\ \A k, l \in Asks : HasText(unsaved[k], l) => l = k
  BY DEF HistoriesInv, UnsavedInv
<1>3. rest \in Seq(AnyTurn) /\ rest # <<>> /\ Last(rest) = AnswerOf(m)
  BY <1>1, <1>2
<1>4. \A l \in Asks : HasText(rest, l) => l = m
  BY <1>2
<1> HIDE DEF rest
<1>5. Len(rest) \in Nat /\ Len(rest) # 0 /\ 1 \in 1 .. Len(rest)
  BY <1>3, LenProperties, EmptySeq
<1>6. Head(rest) = rest[1] /\ Head(rest) \in AnyTurn /\ Tail(rest) \in Seq(AnyTurn)
  BY <1>3, HeadTailProperties
<1>7. \A k \in Asks : Mentions(Head(rest), k) => k = m
  BY <1>3, <1>4, <1>5, <1>6, Elements
<1>8. stage[m] \notin TurnOver
  BY <1>1 DEF TurnOver
<1>9. CASE Len(rest) = 1 /\ EndTurn(m, "done")
  <2>1. To(m, "done") /\ unsaved' = [unsaved EXCEPT ![m] = <<>>]
    BY <1>9 DEF EndTurn, Leaves
  <2>2. UnsavedInv'
    BY <2>1, UnsavedStays
  <2>3. Head(rest).role = "assistant"
    BY <1>3, <1>6, <1>9, OwnTurns DEF Last
  <2>4. "done" \in TurnStages
    BY DEF TurnStages, TurnOver
  <2>. QED
    BY <1>1, <1>6, <1>7, <1>8, <2>1, <2>2, <2>3, <2>4, PushingStep
<1>10. CASE /\ Len(rest) # 1 /\ unsaved' = [unsaved EXCEPT ![m] = Tail(rest)]
            /\ stage' = stage
  <2> DEFINE later == Tail(rest)
  <2>1. later \in Seq(AnyTurn) /\ Len(later) = Len(rest) - 1
        /\ \A i \in 1 .. Len(rest) - 1 : later[i] = rest[i + 1]
    BY <1>3, <1>5, <1>6, HeadTailProperties
  <2>2. /\ unsaved' = [unsaved EXCEPT ![m] = later]
    BY <1>10
  <2> HIDE DEF later
  <2>3. later # <<>> /\ Last(later) = AnswerOf(m)
    BY <1>3, <1>5, <1>10, <2>1, EmptySeq DEF Last
  <2>4. \A l \in Asks : HasText(later, l) => l = m
    <3>1. SUFFICES ASSUME NEW l \in Asks, NEW i \in 1 .. Len(later),
                          Mentions(later[i], l)
                   PROVE  l = m
      BY <2>1, Elements
    <3>2. i + 1 \in 1 .. Len(rest) /\ Mentions(rest[i + 1], l)
      BY <1>5, <2>1, <3>1
    <3>3. HasText(rest, l)
      BY <1>3, <3>2, Elements
    <3>. QED
      BY <1>4, <3>3
  <2>5. /\ unsaved' \in [Asks -> Seq(AnyTurn)] /\ unsaved'[m] = later
        /\ \A k \in Asks : k # m => unsaved'[k] = unsaved[k]
    BY <1>2, <2>1, <2>2
  <2>6. UnsavedInv'
    BY <1>2, <1>10, <2>3, <2>4, <2>5, Zenon DEF UnsavedInv
  <2>7. To(m, "pausing")
    BY <1>1, <1>2, <1>10 DEF To
  <2>8. "pausing" \in TurnStages /\ "pausing" # "done"
    BY DEF TurnStages, TurnOver
  <2>. QED
    BY <1>1, <1>6, <1>7, <1>8, <2>6, <2>7, <2>8, PushingStep
<1>. QED
  BY <1>1, <1>9, <1>10

\* Every action of the turn of m is a good step of m.
LEMMA TurnStepGood ==
  ASSUME HistoriesInv, NEW m \in Asks, TurnStep(m)
  PROVE  GoodStep(m)
<1> DEFINE Quiet(next) ==
      /\ To(m, next)
      /\ \/ unsaved' = unsaved
         \/ unsaved' = [unsaved EXCEPT ![m] = <<>>]
<1>1. ASSUME NEW next \in TurnStages, next # "pausing", Quiet(next) PROVE UnsavedInv'
  <2>1. /\ To(m, next)
        /\ \/ unsaved' = unsaved
           \/ unsaved' = [unsaved EXCEPT ![m] = <<>>]
    BY <1>1
  <2> HIDE DEF Quiet
  <2>. QED
    BY <1>1, <2>1, UnsavedStays
<1>2. ASSUME stage[m] \notin TurnOver, history' = history,
             NEW next \in TurnStages \ {"done", "pausing"}, Quiet(next)
      PROVE  GoodStep(m)
  <2>1. UnsavedInv' /\ To(m, next) /\ next \in TurnStages /\ next # "done"
    BY <1>1, <1>2
  <2>. QED
    BY <1>2, <2>1, KeepingStep
<1>3. ASSUME stage[m] \notin TurnOver, history' = <<>>,
             NEW next \in TurnStages \ {"pausing"}, Quiet(next)
      PROVE  GoodStep(m)
  <2>1. UnsavedInv' /\ To(m, next) /\ next \in TurnStages
    BY <1>1, <1>3
  <2>. QED
    BY <1>3, <2>1, DroppingStep
<1>4. ASSUME stage[m] \notin TurnOver, history' = Pushed(AnswerOf(m)),
             NEW next \in TurnStages \ {"pausing"}, Quiet(next)
      PROVE  GoodStep(m)
  <2>1. UnsavedInv' /\ To(m, next) /\ next \in TurnStages
    BY <1>1, <1>4
  <2>2. /\ AnswerOf(m) \in AnyTurn /\ AnswerOf(m).role = "assistant"
        /\ \A k \in Asks : Mentions(AnswerOf(m), k) => k = m
    BY OwnTurns
  <2>. QED
    BY <1>4, <2>1, <2>2, PushingStep
<1>5. CASE CheckIdle(m)
  <2>1. /\ stage[m] = "none" /\ history' = history
        /\ Quiet("expiring") \/ Quiet("adding")
    BY <1>5 DEF CheckIdle
  <2> HIDE DEF Quiet
  <2>. QED
    BY <1>2, <2>1 DEF TurnStages, TurnOver
<1>6. CASE DropIdle(m) \/ ClearToRetry(m) \/ NotRecovered(m)
  <2>1. /\ stage[m] \in {"expiring", "clearing", "retrying", "retrying alone"}
        /\ history' = <<>>
        /\ Quiet("adding") \/ Quiet("retrying alone") \/ Quiet("done")
    BY <1>6 DEF DropIdle, ClearToRetry, NotRecovered, EndTurn, Leaves
  <2> HIDE DEF Quiet
  <2>. QED
    BY <1>3, <2>1 DEF TurnStages, TurnOver
<1>7. CASE AddAsk(m)
  <2>1. /\ stage[m] = "adding" /\ history' = Pushed(AskOf(m)) /\ Quiet("reading")
    BY <1>7 DEF AddAsk
  <2>2. "reading" \in TurnStages /\ "reading" # "done" /\ "reading" # "pausing"
    BY DEF TurnStages, TurnOver
  <2>3. UnsavedInv' /\ To(m, "reading")
    BY <1>1, <2>1, <2>2
  <2>4. AskOf(m) \in AnyTurn /\ \A k \in Asks : Mentions(AskOf(m), k) => k = m
    BY OwnTurns
  <2>5. stage[m] \notin TurnOver
    BY <2>1 DEF TurnOver
  <2> HIDE DEF Quiet
  <2>. QED
    BY <2>1, <2>2, <2>3, <2>4, <2>5, PushingStep
<1>8. CASE ReadBack(m) \/ Suppressed(m) \/ TurnFails(m) \/ Overflows(m)
             \/ OverflowsAgain(m)
  <2>1. /\ stage[m] \in {"reading", "asking", "retrying"}
        /\ history' = history
        /\ \/ Quiet("asking") \/ Quiet("left") \/ Quiet("failed")
           \/ Quiet("compacting") \/ Quiet("clearing")
    BY <1>8 DEF ReadBack, Suppressed, TurnFails, Overflows, OverflowsAgain,
                EndTurn, Leaves
  <2> HIDE DEF Quiet
  <2>. QED
    BY <1>2, <2>1 DEF TurnStages, TurnOver
<1>9. CASE StoreAnswer(m) \/ NoteFailure(m) \/ Recovered(m)
  <2>1. /\ stage[m] \in {"asking", "failed", "not rolled back", "retrying",
                         "retrying alone"}
        /\ history' = Pushed(AnswerOf(m))
        /\ Quiet("done") \/ Quiet("refused")
    BY <1>9 DEF StoreAnswer, NoteFailure, Recovered, EndTurn, Leaves
  <2> HIDE DEF Quiet
  <2>. QED
    BY <1>4, <2>1 DEF TurnStages, TurnOver
<1>10. CASE Refused(m)
  <2>1. stage[m] = "asking"
    BY <1>10 DEF Refused
  <2>2. CASE /\ history # <<>> /\ Last(history) = AskOf(m)
             /\ history' = Front(history) /\ EndTurn(m, "refused")
    <3>1. Quiet("refused") /\ "refused" \in TurnStages /\ "refused" # "pausing"
      BY <2>2 DEF EndTurn, Leaves, TurnStages, TurnOver
    <3>2. UnsavedInv' /\ To(m, "refused")
      BY <1>1, <3>1
    <3> HIDE DEF Quiet
    <3>. QED
      BY <2>1, <2>2, <3>2, RollingBackStep
  <2>3. CASE Leaves(m, "not rolled back") /\ UNCHANGED <<history, unsaved>>
    <3>1. Quiet("not rolled back") /\ history' = history
      BY <2>3 DEF Leaves
    <3> HIDE DEF Quiet
    <3>. QED
      BY <1>2, <2>1, <3>1 DEF TurnStages, TurnOver
  <2>. QED
    BY <1>10, <2>2, <2>3, Zenon DEF Refused
<1>11. CASE Compact(m)
  <2>1. /\ stage[m] = "compacting" /\ Quiet("retrying")
        /\ history' = Normalized(Newest(history, KeepLast))
    BY <1>11 DEF Compact
  <2>2. "retrying" \in TurnStages /\ "retrying" # "pausing" /\ stage[m] \notin TurnOver
    BY <2>1 DEF TurnStages, TurnOver
  <2>3. UnsavedInv' /\ To(m, "retrying")
    BY <1>1, <2>1, <2>2
  <2> HIDE DEF Quiet
  <2>. QED
    BY <2>1, <2>2, <2>3, CompactingStep
<1>12. CASE Paused(m)
  BY <1>12, PausedGood
<1>13. CASE SaveProgress(m)
  BY <1>13, SaveProgressGood
<1>. QED
  BY <1>5, <1>6, <1>7, <1>8, <1>9, <1>10, <1>11, <1>12, <1>13, Zenon DEF TurnStep

\* A good step keeps the invariant.
LEMMA GoodStepInv ==
  ASSUME HistoriesInv, NEW m \in Asks, GoodStep(m)
  PROVE  HistoriesInv'
<1>1. ASSUME NEW k \in Asks, IsOpen(history', k) PROVE stage'[k] # "done"
  <2>1. stage'[m] # "done" /\ (k = m \/ IsOpen(history, k))
    BY <1>1, Zenon DEF GoodStep
  <2>2. CASE k = m
    BY <2>1, <2>2
  <2>3. CASE k # m
    <3>1. stage'[k] = stage[k]
      BY <2>3 DEF GoodStep
    <3>. QED
      BY <2>1, <2>3, <3>1 DEF HistoriesInv
  <2>. QED
    BY <2>2, <2>3
<1>2. /\ history' \in Seq(AnyTurn) /\ stage' \in [Asks -> TurnStages] /\ UnsavedInv'
  BY Zenon DEF GoodStep
<1>. QED
  BY <1>1, <1>2, Zenon DEF HistoriesInv

\* A command that clears the history, an hour that passes, no step at all.
QuietHistory ==
  /\ history' = <<>> \/ history' = history
  /\ UNCHANGED <<stage, unsaved>>

\* A step is a quiet one or one of some message's turn.
LEMMA HistoriesSplit ==
  ASSUME [HistoriesNext]_historyVars
  PROVE  QuietHistory \/ \E m \in Asks : TurnStep(m)
BY Zenon DEF HistoriesNext, ClearCommand, HourPasses, historyVars, QuietHistory

\* A quiet step keeps the invariant.
LEMMA QuietInv ==
  ASSUME HistoriesInv, QuietHistory
  PROVE  HistoriesInv'
<1>1. /\ history' \in Seq(AnyTurn)
      /\ \A k \in Asks : IsOpen(history', k) => IsOpen(history, k)
  <2>1. CASE history' = <<>>
    BY <2>1, EmptyTurns
  <2>2. CASE history' = history
    BY <2>2 DEF HistoriesInv
  <2>. QED
    BY <2>1, <2>2 DEF QuietHistory
<1>2. stage' = stage /\ unsaved' = unsaved
  BY DEF QuietHistory
<1>3. UnsavedInv'
  BY <1>2, Zenon DEF HistoriesInv, UnsavedInv
<1>. QED
  BY <1>1, <1>2, <1>3, Zenon DEF HistoriesInv

\* The empty history satisfies the invariant.
LEMMA HistoriesInitInv == HistoriesInit => HistoriesInv
<1> SUFFICES ASSUME HistoriesInit PROVE HistoriesInv
  OBVIOUS
<1> DEFINE e == <<>>
           ask == Turn("user", e)
           answer == Turn("assistant", e)
<1>1. ask \in AnyTurn /\ answer \in AnyTurn
  <2>1. e \in Seq(Asks)
    BY EmptySeq
  <2> HIDE DEF e
  <2>. QED
    BY <2>1 DEF Turn, AnyTurn
<1>2. history = e \/ history = Append(Append(e, ask), answer)
  BY DEF HistoriesInit
<1>3. /\ stage \in [Asks -> TurnStages] /\ \A m \in Asks : stage[m] = "none"
      /\ unsaved = [m \in Asks |-> e]
  BY DEF HistoriesInit, TurnStages
<1>4. e \in Seq(AnyTurn) /\ \A m \in Asks : ~HasText(e, m)
  BY EmptyTurns
<1> HIDE DEF e, ask, answer
<1>5. history \in Seq(AnyTurn)
  <2>1. Append(e, ask) \in Seq(AnyTurn)
    BY <1>1, <1>4, AppendProperties
  <2>2. Append(Append(e, ask), answer) \in Seq(AnyTurn)
    BY <1>1, <2>1, AppendProperties
  <2>. QED
    BY <1>2, <1>4, <2>2
<1>6. UnsavedInv
  BY <1>3, <1>4 DEF UnsavedInv
<1>. QED
  BY <1>3, <1>5, <1>6 DEF HistoriesInv

\* Every step keeps the invariant of the histories.
LEMMA HistoriesNextInv == HistoriesInv /\ [HistoriesNext]_historyVars => HistoriesInv'
<1> SUFFICES ASSUME HistoriesInv, [HistoriesNext]_historyVars PROVE HistoriesInv'
  OBVIOUS
<1>1. CASE QuietHistory
  BY <1>1, QuietInv
<1>2. ASSUME NEW m \in Asks, TurnStep(m) PROVE HistoriesInv'
  BY <1>2, TurnStepGood, GoodStepInv
<1>. QED
  BY <1>1, <1>2, HistoriesSplit

\* The invariant holds in every state of a history.
LEMMA HistoriesInvHolds == HistoriesSpec => []HistoriesInv
BY HistoriesInitInv, HistoriesNextInv, PTL DEF HistoriesSpec

\* A turn of process_channel_message that ended with an answer, a note or a
\* recovery has closed its message in the history, for any number of turns of
\* a sender side by side and any bounds of the history.
THEOREM EndedTurnsAreClosed == HistoriesSpec => []EndedTurnsClosed
<1>1. HistoriesInv => EndedTurnsClosed
  <2> SUFFICES ASSUME HistoriesInv,
                      NEW i \in DOMAIN history, history[i].role = "user",
                      NEW m \in Range(history[i].text), stage[m] = "done"
               PROVE  \E j \in (i + 1)..Len(history) : history[j].role = "assistant"
    BY DEF EndedTurnsClosed
  <2>1. history \in Seq(AnyTurn)
    BY DEF HistoriesInv
  <2>2. DOMAIN history = 1 .. Len(history)
    BY <2>1, LenProperties
  <2>3. history[i] \in AnyTurn
    BY <2>1, <2>2, ElementOfSeq
  <2>4. history[i].text \in Seq(Asks)
    BY <2>3 DEF AnyTurn
  <2>5. m \in Asks
    <3> DEFINE text == history[i].text
    <3>1. text \in [1 .. Len(text) -> Asks]
      BY <2>4, LenProperties
    <3> HIDE DEF text
    <3>2. Range(text) \subseteq Asks
      BY <3>1 DEF Range
    <3>. QED
      BY <3>2 DEF text
  <2>6. ~IsOpen(history, m)
    BY <2>5 DEF HistoriesInv
  <2>. QED
    BY <2>6, Zenon DEF IsOpen, IsAsk, Mentions
<1>. QED
  BY <1>1, HistoriesInvHolds, PTL

\* A turn minds its own messages: it takes no other one out of the history and
\* brings none back, for any number of turns and any bounds.
THEOREM TurnsMindTheirs == HistoriesSpec => TurnsMindTheirOwn
<1> DEFINE Minds ==
      \A m \in Asks :
        /\ HasAsk(history, m) /\ ~HasAsk(history', m) =>
             \/ history' = <<>>
             \/ stage[m] = "asking" /\ stage'[m] = "refused"
             \/ ~HasAsk(Newest(history, KeepLast), m)
        /\ stage[m] \in {"done", "left", "refused"} /\ ~HasText(history, m) =>
             ~HasText(history', m)
<1>1. HistoriesInv /\ [HistoriesNext]_historyVars => Minds
  <2> SUFFICES ASSUME HistoriesInv, [HistoriesNext]_historyVars PROVE Minds
    OBVIOUS
  <2>1. CASE QuietHistory
    <3>1. CASE history' = history
      BY <3>1
    <3>2. CASE history' = <<>>
      <4>1. \A m \in Asks : ~HasText(history', m)
        BY <3>2, EmptyTurns
      <4>. QED
        BY <3>2, <4>1
    <3>. QED
      BY <2>1, <3>1, <3>2 DEF QuietHistory
  <2>2. ASSUME NEW k \in Asks, TurnStep(k) PROVE Minds
    <3>1. GoodStep(k)
      BY <2>2, TurnStepGood
    <3>2. \A m \in Asks : stage[m] \in {"done", "left", "refused"} => m # k
      BY <3>1 DEF GoodStep, TurnOver
    <3>. QED
      BY <3>1, <3>2, Zenon DEF GoodStep
  <2>. QED
    BY <2>1, <2>2, HistoriesSplit
<1>. QED
  BY <1>1, HistoriesInvHolds, PTL DEF HistoriesSpec, TurnsMindTheirOwn
=============================================================================
