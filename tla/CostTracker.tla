----------------------------- MODULE CostTracker -----------------------------
(***************************************************************************)
(* The cost tracker of src/cost/tracker.rs: an append-only file of usage   *)
(* records, and the daily and monthly totals kept beside it in memory.     *)
(* The totals are rebuilt from the file when the tracker is opened and     *)
(* when the day has changed, and are otherwise added to record by record.  *)
(*                                                                         *)
(* Storage is behind one lock, so each operation is one action; failures   *)
(* and crashes strike between the steps of an append.  A usage is stamped  *)
(* before it is recorded, so it may belong to the day before.              *)
(***************************************************************************)
EXTENDS Integers, Sequences

CONSTANTS
  Costs,          \* the cost of a usage
  DaysPerMonth,
  MaxDay, MaxRecords   \* bounds of the model: days, and lines in the file

ASSUME CostAssumption ==
  /\ Costs \subseteq Nat \ {0} /\ DaysPerMonth \in Nat \ {0}
  /\ MaxDay \in Nat /\ MaxRecords \in Nat

VARIABLES
  lines,        \* what was appended: day, cost and whether it can be read back
  tail,         \* how the file ends: "clean", "open" (no newline), "torn"
  daily_cost, monthly_cost, cached_day,
  today,
  usages,       \* usages that are stamped and not yet recorded
  lost          \* history: an append reported an error since the last rebuild

costVars == <<lines, tail, daily_cost, monthly_cost, cached_day, today,
              usages, lost>>

Month(day) == day \div DaysPerMonth

Line == [day : Nat, cost : Costs, readable : BOOLEAN]

\* The costs of the lines of the file that are in T.
Total(file, T) ==
  LET sum[n \in 0 .. Len(file)] ==
        IF n = 0 THEN 0
        ELSE sum[n - 1] + IF file[n] \in T THEN file[n].cost ELSE 0
  IN sum[Len(file)]

LinesOfDay(day)   == {line \in Line : line.day = day}
LinesOfMonth(day) == {line \in Line : Month(line.day) = Month(day)}

Readable(T) == {line \in T : line.readable}

OfDay(file, day)   == Total(file, Readable(LinesOfDay(day)))
OfMonth(file, day) == Total(file, Readable(LinesOfMonth(day)))

\* rebuild_aggregates
Rebuild(file, day) ==
  /\ daily_cost' = OfDay(file, day)
  /\ monthly_cost' = OfMonth(file, day)
  /\ cached_day' = day
  /\ lost' = FALSE

CostInit ==
  /\ lines = <<>> /\ tail = "clean"
  /\ daily_cost = 0 /\ monthly_cost = 0 /\ cached_day = 0 /\ today = 0
  /\ usages = {} /\ lost = FALSE

----------------------------------------------------------------------------
(* The file                                                                *)

\* A line that is joined to an unfinished one is malformed, and so is that
\* one, if it was whole so far.
Appended(usage, readable) ==
  LET line  == [day |-> usage.day, cost |-> usage.cost,
                readable |-> readable /\ tail = "clean"]
      whole == IF tail = "open" THEN [lines EXCEPT ![Len(lines)].readable = FALSE]
               ELSE lines
  IN  Append(whole, line)

CanAppend(usage) == usage \in usages /\ Len(lines) < MaxRecords

----------------------------------------------------------------------------
(* record_usage                                                            *)

Stamp(cost) ==
  /\ usages = {}
  /\ usages' = {[day |-> today, cost |-> cost]}
  /\ UNCHANGED <<lines, tail, daily_cost, monthly_cost, cached_day, today, lost>>

\* Mutant of Counted: the month is not added to.
CountedInDay(usage, daily, monthly, day) ==
  /\ daily_cost' = daily + IF usage.day = day THEN usage.cost ELSE 0
  /\ monthly_cost' = monthly
  /\ cached_day' = day
Counted(usage, daily, monthly, day) ==
  /\ daily_cost' = daily + IF usage.day = day THEN usage.cost ELSE 0
  /\ monthly_cost' = monthly
       + IF Month(usage.day) = Month(day) THEN usage.cost ELSE 0
  /\ cached_day' = day

\* add_record: write and sync the line, rebuild if the day has changed, and
\* only then add the record to the totals.
RecordUsage(usage) ==
  /\ CanAppend(usage)
  /\ lines' = Appended(usage, TRUE) /\ tail' = "clean"
  /\ \/ /\ cached_day = today
        /\ Counted(usage, daily_cost, monthly_cost, cached_day)
        /\ UNCHANGED lost
     \/ /\ cached_day # today
        /\ Counted(usage, OfDay(lines', today), OfMonth(lines', today), today)
        /\ lost' = FALSE
  /\ usages' = usages \ {usage}
  /\ UNCHANGED today

\* The file cannot be opened, or the write stops in the line or before its end.
WriteFails(usage) ==
  /\ CanAppend(usage)
  /\ \/ UNCHANGED <<lines, tail>>
     \/ \E end \in {"open", "torn"} :
          lines' = Appended(usage, end = "open") /\ tail' = end
  /\ lost' = TRUE
  /\ usages' = usages \ {usage}
  /\ UNCHANGED <<daily_cost, monthly_cost, cached_day, today>>

\* The line is written, but the sync or the rebuild after it fails.
SyncFails(usage) ==
  /\ CanAppend(usage)
  /\ lines' = Appended(usage, TRUE) /\ tail' = "clean" /\ lost' = TRUE
  /\ usages' = usages \ {usage}
  /\ UNCHANGED <<daily_cost, monthly_cost, cached_day, today>>

\* check_budget and get_summary read the totals through this.
EnsureCurrent ==
  /\ cached_day # today
  /\ Rebuild(lines, today)
  /\ UNCHANGED <<lines, tail, today, usages>>

NewDay ==
  /\ today < MaxDay /\ today' = today + 1
  /\ UNCHANGED <<lines, tail, daily_cost, monthly_cost, cached_day, usages, lost>>

\* The process ends, perhaps in the middle of an append, and is started anew.
Restart ==
  /\ \/ UNCHANGED <<lines, tail>>
     \/ \E usage \in usages, end \in {"open", "torn"} :
          /\ CanAppend(usage) /\ tail' = end
          /\ lines' = Appended(usage, end = "open")
  /\ Rebuild(lines', today)
  /\ usages' = {} /\ UNCHANGED today

CostNext ==
  \/ \E cost \in Costs : Stamp(cost)
  \/ \E u \in usages : RecordUsage(u) \/ WriteFails(u) \/ SyncFails(u)
  \/ EnsureCurrent \/ NewDay \/ Restart

CostSpec == CostInit /\ [][CostNext]_costVars

----------------------------------------------------------------------------
(* Properties                                                              *)

\* The total of the day counts every record of the file once: "Get aggregated
\* costs for current day and month" (get_aggregated_costs).  Violated: after
\* midnight add_record rebuilds the totals from a file that already holds the
\* new record and then adds the record once more.
CountedOnce == daily_cost <= OfDay(lines, cached_day)

\* No cost goes missing: until an append reports an error, the totals are at
\* least what can be read back for their day and month, across midnight,
\* restarts and lines that were cut short.
NothingMissing ==
  ~lost => /\ daily_cost >= OfDay(lines, cached_day)
           /\ monthly_cost >= OfMonth(lines, cached_day)

\* The totals exceed the costs that were appended for their day and month by
\* one record at most: the one that found the day changed.
OneExtraAtMost ==
  \E cost \in Costs \cup {0} :
    /\ daily_cost <= cost + Total(lines, LinesOfDay(cached_day))
    /\ monthly_cost <= cost + Total(lines, LinesOfMonth(cached_day))

\* What a budget may rely on: the totals are at most one record too high, and
\* never too low unless an error was reported.
TotalsOneTooHighAtMost == NothingMissing /\ OneExtraAtMost
=============================================================================
