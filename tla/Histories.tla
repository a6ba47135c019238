------------------------------ MODULE Histories ------------------------------
(***************************************************************************)
(* One conversation history of the channels (channels/mod.rs), and the     *)
(* turns of process_channel_message that share it.                         *)
(*                                                                         *)
(* A turn adds its user message, reads the history back, asks the model    *)
(* and adds the answer or a note about the failure.  Each access holds the *)
(* lock of the histories by itself, so the turns of one sender, which run  *)
(* side by side unless interrupt_on_new_message is set, interleave between *)
(* any two of them, and with a runtime command that clears the history.    *)
(*                                                                         *)
(* The text of a turn is the sequence of the messages merged into it; two  *)
(* messages have different texts (the code adds the minute to each).       *)
(***************************************************************************)
EXTENDS Integers, Sequences, SequencesExt

CONSTANTS
  Asks,         \* messages of one sender that are not commands
  Images,       \* those that carry an image marker
  MaxHistory,   \* MAX_CHANNEL_HISTORY
  KeepLast,     \* CHANNEL_HISTORY_COMPACT_KEEP_MESSAGES
  MaxClears     \* bound: idle hours and clearing commands in a behaviour

ASSUME HistoriesAssumption ==
  /\ Images \subseteq Asks
  /\ KeepLast \in Nat \ {0} /\ MaxHistory \in Nat /\ KeepLast < MaxHistory
  /\ MaxClears \in Nat

VARIABLES
  history,      \* of the sender's history key; <<>> when there is none
  last_active,  \* "never", "recent", or "old": idle for the TTL
  stage,        \* of each message's turn
  prompt,       \* the history a turn sends to the model
  unsaved,      \* what a cancelled turn has yet to add
  clears

historyVars == <<history, last_active, stage, prompt, unsaved, clears>>

Turn(role, text) == [role |-> role, text |-> text]
AskOf(m)    == Turn("user", <<m>>)
AnswerOf(m) == Turn("assistant", <<m>>)

\* What a cancelled tool loop may have added: nothing, a warning, a tool call
\* with its results in one role or the other.
Progress(m) ==
  {<<>>, <<Turn("user", <<>>)>>, <<AnswerOf(m), Turn("user", <<>>)>>,
   <<AnswerOf(m), Turn("tool", <<>>)>>}

Newest(turns, n) ==
  SubSeq(turns, IF Len(turns) > n THEN Len(turns) - n + 1 ELSE 1, Len(turns))

\* append_sender_turn
Pushed(turn) == Newest(Append(history, turn), MaxHistory)

\* One turn of normalize_cached_channel_turns: of the same role as the last it
\* is merged into it, and an answer without a question is dropped.
Absorb(turns, turn) ==
  CASE turn.role \notin {"user", "assistant"} -> turns
    [] turns = <<>> -> IF turn.role = "user" THEN <<turn>> ELSE <<>>
    [] OTHER ->
         IF Last(turns).role = turn.role
         THEN [turns EXCEPT ![Len(turns)].text = @ \o turn.text]
         ELSE Append(turns, turn)

Normalized(turns) ==
  LET merged[n \in 0 .. Len(turns)] ==
        IF n = 0 THEN <<>> ELSE Absorb(merged[n - 1], turns[n])
  IN merged[Len(turns)]

HasAsk(turns, m) ==
  \E i \in DOMAIN turns :
    turns[i].role = "user" /\ m \in Range(turns[i].text)

HasText(turns, m) == \E i \in DOMAIN turns : m \in Range(turns[i].text)

\* count_image_markers looks at the user turns.
ShowsImage(turns) == \E m \in Images : HasAsk(turns, m)

HistoriesInit ==
  \* Nothing, or what was restored from the chat log.
  /\ history \in {<<>>, <<Turn("user", <<>>), Turn("assistant", <<>>)>>}
  /\ last_active = "never"
  /\ stage = [m \in Asks |-> "none"]
  /\ prompt = [m \in Asks |-> <<>>]
  /\ unsaved = [m \in Asks |-> <<>>]
  /\ clears = 0

To(m, next) == stage' = [stage EXCEPT ![m] = next]

\* The tool loop is over, and the prompt is not used again.
Leaves(m, next) ==
  /\ To(m, next)
  /\ prompt' = [prompt EXCEPT ![m] = <<>>]
  /\ UNCHANGED <<last_active, clears>>

\* The turn is over.
EndTurn(m, how) == Leaves(m, how) /\ unsaved' = [unsaved EXCEPT ![m] = <<>>]

-----------------------------------------------------------------------------
(* The start of a turn                                                     *)

\* expire_idle_sender_history: the activity is looked at under its own lock ...
CheckIdle(m) ==
  /\ stage[m] = "none"
  /\ To(m, IF last_active = "old" THEN "expiring" ELSE "adding")
  /\ last_active' = "recent"
  /\ UNCHANGED <<history, prompt, unsaved, clears>>

\* ... and the history is dropped under another.
DropIdle(m) ==
  /\ stage[m] = "expiring"
  /\ To(m, "adding")
  /\ history' = <<>>
  /\ UNCHANGED <<last_active, prompt, unsaved, clears>>

AddAsk(m) ==
  /\ stage[m] = "adding"
  /\ To(m, "reading")
  /\ history' = Pushed(AskOf(m))
  /\ UNCHANGED <<last_active, prompt, unsaved, clears>>

ReadBack(m) ==
  /\ stage[m] = "reading"
  /\ To(m, "asking")
  /\ prompt' = [prompt EXCEPT ![m] = Normalized(history)]
  /\ UNCHANGED <<history, last_active, unsaved, clears>>

-----------------------------------------------------------------------------
(* The outcome of the tool loop                                            *)

StoreAnswer(m) ==
  /\ stage[m] = "asking"
  /\ history' = Pushed(AnswerOf(m))
  /\ EndTurn(m, "done")

\* A hook suppresses the answer, which is then not stored either.
Suppressed(m) ==
  /\ stage[m] = "asking"
  /\ UNCHANGED history
  /\ EndTurn(m, "left")

\* Cancelled: what the tool loop has added is kept, and a note that it is paused.
Paused(m) ==
  /\ stage[m] = "asking"
  /\ \E progress \in Progress(m) :
       IF progress = <<>> THEN EndTurn(m, "left")
       ELSE /\ Leaves(m, "pausing")
            /\ unsaved' = [unsaved EXCEPT ![m] = Append(progress, AnswerOf(m))]
  /\ UNCHANGED history

\* The next of them is added, each with the lock taken anew.
SaveProgress(m) ==
  /\ stage[m] = "pausing"
  /\ history' = Pushed(Head(unsaved[m]))
  /\ IF Len(unsaved[m]) = 1 THEN EndTurn(m, "done")
     ELSE /\ unsaved' = [unsaved EXCEPT ![m] = Tail(@)]
          /\ UNCHANGED <<last_active, stage, prompt, clears>>

\* An error of the model, or the timeout.
TurnFails(m) ==
  /\ stage[m] = "asking"
  /\ Leaves(m, "failed")
  /\ UNCHANGED <<history, unsaved>>

\* Mutant of Refused: the last user turn is taken out, whosever it is.
RefusedAnyLast(m) ==
  /\ stage[m] = "asking" /\ ShowsImage(prompt[m])
  /\ IF history # <<>> /\ Last(history).role = "user"
     THEN history' = Front(history) /\ EndTurn(m, "refused")
     ELSE Leaves(m, "not rolled back") /\ UNCHANGED <<history, unsaved>>

\* A model without vision is sent an image: rollback_orphan_user_turn takes the
\* turn's own message out again, if it is still the last.
Refused(m) ==
  /\ stage[m] = "asking" /\ ShowsImage(prompt[m])
  /\ IF history # <<>> /\ Last(history) = AskOf(m)
     THEN history' = Front(history) /\ EndTurn(m, "refused")
     ELSE Leaves(m, "not rolled back") /\ UNCHANGED <<history, unsaved>>

\* Mutant of NoteFailure: only a refused turn gets its note.
NoteRefusal(m) ==
  \/ stage[m] = "failed" /\ UNCHANGED history /\ EndTurn(m, "done")
  \/ /\ stage[m] = "not rolled back"
     /\ history' = Pushed(AnswerOf(m)) /\ EndTurn(m, "refused")

\* "[Task failed ...]", "[Task timed out ...]"
NoteFailure(m) ==
  /\ \/ stage[m] = "failed" /\ EndTurn(m, "done")
     \/ stage[m] = "not rolled back" /\ EndTurn(m, "refused")
  /\ history' = Pushed(AnswerOf(m))

-----------------------------------------------------------------------------
(* The recovery from a prompt that is too long: compacted, then without    *)
(* the history.  The retries are not cancelled and have no timeout.        *)

Overflows(m) ==
  /\ stage[m] = "asking"
  /\ Leaves(m, "compacting")
  /\ UNCHANGED <<history, unsaved>>

\* compact_sender_history
Compact(m) ==
  /\ stage[m] = "compacting"
  /\ To(m, "retrying")
  /\ history' = Normalized(Newest(history, KeepLast))
  /\ UNCHANGED <<last_active, prompt, unsaved, clears>>

OverflowsAgain(m) ==
  /\ stage[m] = "retrying"
  /\ To(m, "clearing")
  /\ UNCHANGED <<history, last_active, prompt, unsaved, clears>>

ClearToRetry(m) ==
  /\ stage[m] = "clearing"
  /\ To(m, "retrying alone")
  /\ history' = <<>>
  /\ UNCHANGED <<last_active, prompt, unsaved, clears>>

Recovered(m) ==
  /\ stage[m] \in {"retrying", "retrying alone"}
  /\ history' = Pushed(AnswerOf(m))
  /\ EndTurn(m, "done")

NotRecovered(m) ==
  /\ stage[m] \in {"retrying", "retrying alone"}
  /\ history' = <<>>
  /\ EndTurn(m, "done")

-----------------------------------------------------------------------------
\* /new, and /models or /model with an argument.
ClearCommand ==
  /\ clears < MaxClears /\ clears' = clears + 1
  /\ history' = <<>>
  /\ UNCHANGED <<last_active, stage, prompt, unsaved>>

\* CHANNEL_HISTORY_IDLE_TTL passes without a message.
HourPasses ==
  /\ last_active = "recent"
  /\ clears < MaxClears /\ clears' = clears + 1
  /\ last_active' = "old"
  /\ UNCHANGED <<history, stage, prompt, unsaved>>

TurnStep(m) ==
  \/ CheckIdle(m) \/ DropIdle(m) \/ AddAsk(m) \/ ReadBack(m)
  \/ StoreAnswer(m) \/ Suppressed(m) \/ Paused(m) \/ SaveProgress(m)
  \/ TurnFails(m) \/ Refused(m) \/ NoteFailure(m)
  \/ Overflows(m) \/ Compact(m) \/ OverflowsAgain(m) \/ ClearToRetry(m)
  \/ Recovered(m) \/ NotRecovered(m)

HistoriesNext == ClearCommand \/ HourPasses \/ \E m \in Asks : TurnStep(m)

HistoriesSpec == HistoriesInit /\ [][HistoriesNext]_historyVars

-----------------------------------------------------------------------------
(***************************************************************************)
(* "Close the orphan user turn so subsequent messages don't inherit this   *)
(* failed request as unfinished context": whatever other turns, trims,     *)
(* compactions and clears come between, the message of a turn that has     *)
(* ended with an answer, a note or a recovery is followed by an assistant  *)
(* turn for as long as the history holds it.                               *)
(***************************************************************************)
EndedTurnsClosed ==
  \A i \in DOMAIN history : history[i].role = "user" =>
    \A m \in Range(history[i].text) :
      stage[m] = "done" =>
        \E j \in (i + 1)..Len(history) : history[j].role = "assistant"

(***************************************************************************)
(* A turn minds its own messages although it works on a copy.  It takes no *)
(* other one out: a message leaves the history when that is dropped as a   *)
(* whole, when its own turn is refused, or with the oldest.  And it brings *)
(* none back: what was dropped of a turn that is over stays dropped.       *)
(***************************************************************************)
TurnsMindTheirOwn ==
  [][\A m \in Asks :
       /\ HasAsk(history, m) /\ ~HasAsk(history', m) =>
            \/ history' = <<>>
            \/ stage[m] = "asking" /\ stage'[m] = "refused"
            \/ ~HasAsk(Newest(history, KeepLast), m)
       /\ stage[m] \in {"done", "left", "refused"} /\ ~HasText(history, m) =>
            ~HasText(history', m)
    ]_historyVars

(***************************************************************************)
(* "so a failed image turn kept failing every later message": the message  *)
(* of a turn that a model without vision refused is not in the history     *)
(* any more, so that later prompts can do without it.                      *)
(***************************************************************************)
FailedImageGone ==
  \A m \in Images : stage[m] = "refused" => ~HasAsk(history, m)
=============================================================================
