------------------------------ MODULE UseMetrics ------------------------------
(***************************************************************************)
(* The poll loop of src/use_metrics.rs: a task that at every tick of an    *)
(* interval reads the CPU time that the process has used, reports the      *)
(* difference with its last sample as a utilization, and reports the       *)
(* memory.  A read of /proc may fail, and time passes between all steps.   *)
(*                                                                         *)
(* Time is in units of the clock's resolution, a sample is utime + stime,  *)
(* and a Rust Option a sequence of at most one element.                    *)
(***************************************************************************)
EXTENDS Naturals, Sequences, SequencesExt

CONSTANTS
  Interval, \* the interval of the ticker
  MaxTime,  \* bound: how far time goes
  MaxTicks  \* bound: CPU ticks that the process uses

ASSUME UseAssumption == Interval \in Nat \ {0} /\ MaxTime \in Nat /\ MaxTicks \in Nat

VARIABLES
  now,     \* the monotonic clock
  cpu,     \* the CPU ticks that the process has used
  poller,  \* the task: where it is, its deadline and the locals of poll_loop
  polls,   \* history: the instant of each poll
  samples, \* history: the successful reads, each with its poll
  reports  \* history: the utilizations reported, each with its poll

useVars == <<now, cpu, poller, polls, samples, reports>>

UseInit ==
  /\ now = 0 /\ cpu = 0
  /\ poller = [pc |-> "none", deadline |-> 0, prev_instant |-> 0, elapsed |-> 0,
               prev_cpu_ticks |-> <<>>]
  /\ polls = <<>> /\ samples = <<>> /\ reports = <<>>

\* The process runs, or waits for a processor.
TimePasses ==
  /\ now < MaxTime /\ now' = now + 1
  /\ cpu' \in cpu..MaxTicks
  /\ UNCHANGED <<poller, polls, samples, reports>>

Start ==
  /\ poller.pc = "none"
  /\ poller' = [poller EXCEPT !.pc = "spawned"]
  /\ UNCHANGED <<now, cpu, polls, samples, reports>>

\* The task runs for the first time, and takes the tick that comes at once.
FirstTick ==
  /\ poller.pc = "spawned"
  /\ poller' = [poller EXCEPT !.pc = "waiting", !.prev_instant = now, !.deadline = now + Interval]
  /\ UNCHANGED <<now, cpu, polls, samples, reports>>

\* Mutant: the clock is only looked at again when a read succeeds.
TickKeepsInstant ==
  /\ poller.pc = "waiting" /\ now >= poller.deadline
  /\ poller' = [poller EXCEPT !.pc = "cpu", !.deadline = @ + Interval,
                              !.elapsed = now - poller.prev_instant]
  /\ polls' = Append(polls, now)
  /\ UNCHANGED <<now, cpu, samples, reports>>

\* A tick, late or not; ticks that were missed come in a burst.
Tick ==
  /\ poller.pc = "waiting" /\ now >= poller.deadline
  /\ poller' = [poller EXCEPT !.pc = "cpu", !.deadline = @ + Interval,
                              !.elapsed = now - poller.prev_instant, !.prev_instant = now]
  /\ polls' = Append(polls, now)
  /\ UNCHANGED <<now, cpu, samples, reports>>

Difference(total, prev) == IF total >= prev THEN total - prev ELSE 0

\* What is reported of a sample: nothing of the first one.
Report(total) ==
  IF poller.prev_cpu_ticks = <<>> THEN <<>>
  ELSE <<[poll |-> Len(polls), ticks |-> Difference(total, Head(poller.prev_cpu_ticks)),
          elapsed |-> poller.elapsed]>>

\* Mutant: a sample is only kept when there is something to report.
ReadCpuKeepsSample(succeeds) ==
  /\ poller.pc = "cpu"
  /\ reports' = IF succeeds THEN reports \o Report(cpu) ELSE reports
  /\ samples' = IF succeeds THEN Append(samples, [poll |-> Len(polls), ticks |-> cpu]) ELSE samples
  /\ poller' = [poller EXCEPT !.pc = "memory",
                              !.prev_cpu_ticks = IF succeeds /\ @ = <<>> THEN <<cpu>> ELSE @]
  /\ UNCHANGED <<now, cpu, polls>>

\* With no time elapsed the utilization is 0, whatever the ticks.
ReadCpu(succeeds) ==
  /\ poller.pc = "cpu"
  /\ reports' = IF succeeds THEN reports \o Report(cpu) ELSE reports
  /\ samples' = IF succeeds THEN Append(samples, [poll |-> Len(polls), ticks |-> cpu]) ELSE samples
  /\ poller' = [poller EXCEPT !.pc = "memory",
                              !.prev_cpu_ticks = IF succeeds THEN <<cpu>> ELSE @]
  /\ UNCHANGED <<now, cpu, polls>>

ReadMemory ==
  /\ poller.pc = "memory"
  /\ poller' = [poller EXCEPT !.pc = "waiting"]
  /\ UNCHANGED <<now, cpu, polls, samples, reports>>

-----------------------------------------------------------------------------
UseTypeOK ==
  /\ now \in 0..MaxTime /\ cpu \in 0..MaxTicks
  /\ poller.pc \in {"none", "spawned", "waiting", "cpu", "memory"}
  /\ poller.prev_instant <= now /\ poller.elapsed <= now
  /\ \A ticks \in Range(poller.prev_cpu_ticks) : ticks <= cpu
  /\ \A i \in DOMAIN polls : polls[i] <= now

\* src/use_metrics.rs:46-64: what the reports say that the process used is what it
\* used between the first sample and the last, however many reads failed.
ReportsAddUp ==
  FoldLeft(LAMBDA sum, report : sum + report.ticks, 0, reports)
    = IF samples = <<>> THEN 0 ELSE Last(samples).ticks - Head(samples).ticks

\* src/use_metrics.rs:43: a utilization relates the ticks between two samples to the
\* time between their polls.  After a read that failed the time is that of the
\* last poll only, and the utilization too high; it is never too low.
RateOverItsInterval ==
  \A i \in DOMAIN reports :
    LET since == samples[i].poll
        poll == reports[i].poll
    IN  /\ reports[i].elapsed <= polls[poll] - polls[since]
        /\ poll = since + 1 => reports[i].elapsed = polls[poll] - polls[since]

=============================================================================
