----------------------------- MODULE Schedulers -----------------------------
(***************************************************************************)
(* The scheduling simulators edf_premption.c, rms_premption.c and          *)
(* lottery_sch_premption.c.  A step is one round of the while loop.        *)
(*                                                                         *)
(* For EDF and RMS a task has its execution_time, its period, and of its   *)
(* current job the arrival time, the deadline and the remaining_time; RMS  *)
(* keeps no deadline, it is the end of the period.  Utilisations are       *)
(* compared as exact fractions; the programs use floating point.  The      *)
(* averages that they print at the end are left out.                       *)
(***************************************************************************)
EXTENDS Naturals, Sequences, SequencesExt, FiniteSetsExt

CONSTANTS
  Periodic,     \* task sets for EDF and RMS: sequences of
                \* [exec, period, arrival, deadline]
  Lotteries,    \* task sets for the lottery: sequences of [burst, tickets]
  total_time

VARIABLES
  program,      \* "edf", "rms" or "lottery"
  tasks,
  time,
  ended

simvars == <<program, tasks, time, ended>>

-----------------------------------------------------------------------------
Sum(f(_), s) == FoldLeft(LAMBDA a, x : a + f(x), 0, s)
Product(f(_), s) == FoldLeft(LAMBDA a, x : a * f(x), 1, s)

\* The sum of exec / period is Load / Periods.
Periods(ts) == Product(LAMBDA t : t.period, ts)
Load(ts) == Sum(LAMBDA t : t.exec * (Periods(ts) \div t.period), ts)

\* main of EDF goes on if the utilisation is at most 1.
edf_accepts(ts) == Load(ts) <= Periods(ts)

\* Faulty variant: the bound of EDF is used.
check_rms_schedulability_AsEdf(ts) == Load(ts) <= Periods(ts)

\* check_rms_schedulability: the utilisation U is at most n * (2^(1/n) - 1), that is
\* (U + n)^n <= 2 * n^n.
check_rms_schedulability(ts) ==
  LET n == Len(ts) IN
  (Load(ts) + n * Periods(ts)) ^ n <= 2 * (n * Periods(ts)) ^ n

\* The exchange sort of both programs, by key.
Sorted(ts, key) ==
  LET n == Len(ts)
      Exchange(s, ij) ==
        IF s[ij[1]][key] > s[ij[2]][key]
        THEN [s EXCEPT ![ij[1]] = s[ij[2]], ![ij[2]] = s[ij[1]]] ELSE s
      pairs == FlattenSeq([i \in 1..n |-> [k \in 1..(n - i) |-> <<i, i + k>>]])
  IN  FoldLeft(Exchange, ts, pairs)

sort_by_deadline(ts) == Sorted(ts, "deadline")

sort_by_period(ts) == Sorted(ts, "period")

\* What main reads for a task, and its first job.
Task(t) ==
  [exec |-> t.exec, period |-> t.period, arrival |-> t.arrival,
   deadline |-> t.deadline, remaining |-> t.exec]

\* The lottery's task.
Ticketed(t) == [burst |-> t.burst, tickets |-> t.tickets, remaining |-> t.burst]

SimInit ==
  /\ \/ /\ program = "edf"
        /\ \E ts \in Periodic :
             edf_accepts(ts) /\ tasks = [i \in DOMAIN ts |-> Task(ts[i])]
     \/ /\ program = "rms"
        /\ \E ts \in Periodic :
             /\ check_rms_schedulability(ts)
             /\ tasks = sort_by_period(
                  [i \in DOMAIN ts |-> [Task(ts[i]) EXCEPT !.deadline = ts[i].arrival + ts[i].period]])
     \/ /\ program = "lottery"
        /\ \E ts \in Lotteries : tasks = [i \in DOMAIN ts |-> Ticketed(ts[i])]
  /\ time = 0 /\ ended = FALSE

-----------------------------------------------------------------------------
(* EDF and RMS                                                             *)

\* "Set up for the next period"
Renewed(t) ==
  [t EXCEPT !.arrival = @ + t.period, !.deadline = @ + t.period, !.remaining = t.exec]

\* One unit of the first task, in the order ts, that is ready.
Execute(ts) ==
  LET ready == {i \in DOMAIN ts : ts[i].arrival <= time /\ ts[i].remaining > 0}
      i == Min(ready)
      t == [ts[i] EXCEPT !.remaining = @ - 1]
  IN
  tasks' = IF ready = {} THEN ts
           ELSE [ts EXCEPT ![i] = IF t.remaining = 0 THEN Renewed(t) ELSE t]

edf_scheduling ==
  /\ program = "edf" /\ time < total_time
  /\ time' = time + 1
  /\ Execute(sort_by_deadline(tasks))
  /\ UNCHANGED <<program, ended>>

rms_scheduling ==
  /\ program = "rms" /\ time < total_time
  /\ time' = time + 1
  /\ Execute(tasks)
  /\ UNCHANGED <<program, ended>>

-----------------------------------------------------------------------------
(* The lottery                                                             *)

Unfinished(t) == t.remaining > 0

\* The tickets of the unfinished tasks among the first k.
TicketsBefore(k) == Sum(LAMBDA t : IF Unfinished(t) THEN t.tickets ELSE 0, SubSeq(tasks, 1, k))

calculate_total_tickets == TicketsBefore(Len(tasks))

\* allocate_ticket_ranges
TicketRange(i) == (TicketsBefore(i - 1) + 1)..TicketsBefore(i)

\* Tasks whose range includes the winning ticket.
Winners(w) == {i \in DOMAIN tasks : Unfinished(tasks[i]) /\ w \in TicketRange(i)}

\* Faulty variant: tickets are given up a time slice early.
GivesUp_Early(t) == t.remaining <= 2

\* This time slice completes the task.
GivesUp(t) == t.remaining = 1

\* One time slice of the first winner; a task that is done gives up its tickets.
lottery_scheduling(w) ==
  LET i == Min(Winners(w)) IN
  /\ ~ended
  /\ IF Winners(w) = {} THEN UNCHANGED <<tasks, time>>
     ELSE /\ time' = time + 1
          /\ tasks' = [tasks EXCEPT ![i].remaining = @ - 1,
                                    ![i].tickets = IF GivesUp(tasks[i]) THEN 0 ELSE @]
  /\ UNCHANGED <<program, ended>>

\* "All tasks completed"
lottery_ends ==
  /\ program = "lottery" /\ ~ended /\ calculate_total_tickets = 0
  /\ ended' = TRUE
  /\ UNCHANGED <<program, tasks, time>>

SimNext ==
  \/ edf_scheduling
  \/ rms_scheduling
  \/ program = "lottery" /\ \E w \in 1..calculate_total_tickets : lottery_scheduling(w)
  \/ lottery_ends

-----------------------------------------------------------------------------
\* Every task set that the programs accept, with deadlines at the ends of the periods
\* or later, is scheduled so that no job misses its deadline: EDF up to a utilisation
\* of 1, RMS up to its bound, with any arrivals.
DeadlinesMet ==
  (/\ program \in {"edf", "rms"}
   /\ \A i \in DOMAIN tasks : tasks[i].deadline >= tasks[i].arrival + tasks[i].period)
    => \A i \in DOMAIN tasks : time <= tasks[i].deadline

\* Every ticket that can be drawn belongs to exactly one unfinished task, so that no
\* time slice is wasted: time is the work that has been done.  When the lottery ends
\* every task that had tickets is complete; one without tickets is reported complete
\* but never ran.
LotteryCompletes ==
  program = "lottery" =>
    /\ \A w \in 1..calculate_total_tickets : Cardinality(Winners(w)) = 1
    /\ time = Sum(LAMBDA t : t.burst - t.remaining, tasks)
    /\ ended => \A i \in DOMAIN tasks :
                  Unfinished(tasks[i]) => tasks[i].tickets = 0 /\ tasks[i].remaining = tasks[i].burst
=============================================================================
