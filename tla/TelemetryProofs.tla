--------------------------- MODULE TelemetryProofs ---------------------------
(***************************************************************************)
(* Theorems about Telemetry, for every value of its constants: what the    *)
(* drop of the guard promises, on top of what the pipe does, what the poll *)
(* loop reports, whatever reads of /proc fail, and the types of the stack. *)
(***************************************************************************)
EXTENDS Telemetry, Induction, TLAPS

(***************************************************************************)
(* The inductive invariant: how far the guard has come says what the pipe  *)
(* has done for it.                                                        *)
(***************************************************************************)
PipeTypes ==
  /\ offered \in 0..MaxSends /\ DOMAIN fate = 1..MaxSends
  /\ DOMAIN state = {"flush", "shutdown"} /\ DOMAIN before = {"flush", "shutdown"}
  /\ state["flush"] \in {"idle", "started", "waiting", "done", "aborted"}
  /\ phase \in {"open", "stopped", "crashed"}
  /\ config \in Configs /\ atDrop.offered \in 0..offered

\* Metrics are only collected where they are exported.
CollectsForExport ==
  /\ DOMAIN aggregator = {"pc", "snapshot"}
  /\ aggregator.pc = "none" \/ config.metrics

\* Without an exporter nothing is ever sent.
NothingToSend ==
  /\ CollectsForExport
  /\ ~Exporting => offered = 0

\* The guard makes its calls in turn.
CallsInTurn ==
  /\ state["flush"] = "idle" <=> guard \notin {"flushing", "closing", "gone"} \/ ~Exporting
  /\ guard \in {"closing", "gone"} /\ Exporting => state["flush"] \in {"done", "aborted"}
  /\ state["shutdown"] # "idle" => guard \in {"closing", "gone"} /\ Exporting

\* Only a call to shut down stops the exporter, and by then the flush is over: a
\* flush that is not answered was cut off by the end of the runtime.
FlushAnswered ==
  /\ phase = "stopped" => state["shutdown"] = "done"
  /\ state["flush"] = "aborted" => phase = "crashed"
  /\ state["flush"] = "waiting" => before["flush"] \in atDrop.offered..offered
  /\ state["flush"] = "done" => Pipe!SettledUpTo(atDrop.offered)

DInv == PipeTypes /\ NothingToSend /\ CallsInTurn /\ FlushAnswered

-----------------------------------------------------------------------------
(***************************************************************************)
(* The pipe.                                                               *)
(***************************************************************************)
USE DEF Pipe!SettledUpTo, Pipe!Messages, Pipe!Calls

\* What is settled among the first k messages stays so, whatever is offered next.
LEMMA OfferSettles ==
  ASSUME PipeTypes, Pipe!Offer
  PROVE  /\ offered' \in 0..MaxSends /\ offered' = offered + 1
         /\ DOMAIN fate' = 1..MaxSends /\ UNCHANGED <<state, before, phase>>
         /\ \A k \in 0..offered : Pipe!SettledUpTo(k) => Pipe!SettledUpTo(k)'
<1>1. offered \in Nat /\ MaxSends \in Nat /\ offered < MaxSends
  BY TelemetryAssumption DEF PipeTypes, Pipe!Offer
<1>2. PICK f \in {"pending", "refused"} : fate' = [fate EXCEPT ![offered + 1] = f]
  BY DEF Pipe!Offer
<1>3. \A k \in 0..offered, n \in 1..offered : n \in 1..k => fate'[n] = fate[n]
  BY <1>1, <1>2 DEF PipeTypes
<1>4. \A k \in 0..offered : Pipe!SettledUpTo(k) => Pipe!SettledUpTo(k)'
  BY <1>1, <1>3
<1> QED  BY <1>1, <1>2, <1>4 DEF PipeTypes, Pipe!Offer

\* A message sent where something is exported disturbs no part of the invariant.
LEMMA SendKeeps ==
  ASSUME DInv, Pipe!Offer, Exporting, UNCHANGED <<config, guard, atDrop>>,
         CollectsForExport'
  PROVE  DInv'
<1>1. PipeTypes'
  BY OfferSettles DEF DInv, PipeTypes
<1>2. NothingToSend'
  BY DEF DInv, NothingToSend, CollectsForExport, Exporting
<1>3. CallsInTurn'
  BY OfferSettles DEF DInv, CallsInTurn, Exporting
<1>4. FlushAnswered'
  <2>1. atDrop.offered \in 0..offered /\ offered \in Nat
    BY DEF DInv, PipeTypes
  <2>2. state["flush"] = "done" => Pipe!SettledUpTo(atDrop.offered)'
    BY <2>1, OfferSettles DEF DInv, FlushAnswered
  <2>3. state["flush"] = "waiting" => before["flush"] \in atDrop.offered..(offered + 1)
    BY <2>1 DEF DInv, FlushAnswered
  <2> QED  BY <2>2, <2>3, OfferSettles DEF DInv, FlushAnswered
<1> QED  BY <1>1, <1>2, <1>3, <1>4 DEF DInv

\* A step that leaves the pipe and the guard alone.
LEMMA QuietKeeps ==
  ASSUME DInv, UNCHANGED <<pipeVars, config, guard, atDrop>>,
         CollectsForExport'
  PROVE  DInv'
BY DEF DInv, PipeTypes, NothingToSend, CallsInTurn, FlushAnswered, Exporting, pipeVars

-----------------------------------------------------------------------------
(***************************************************************************)
(* One lemma per kind of step.                                             *)
(***************************************************************************)
LEMMA InitHolds == ASSUME Init PROVE DInv
<1>1. PipeTypes
  BY TelemetryAssumption DEF Init, PipeTypes, Pipe!Init
<1> QED  BY <1>1 DEF Init, Pipe!Init, DInv, NothingToSend, CollectsForExport, CallsInTurn, FlushAnswered

\* The stack starts, logs, measures and sends its metrics.
LEMMA InitCallKeeps == ASSUME DInv, InitCall PROVE DInv'
<1>2. UNCHANGED <<config, atDrop>> /\ guard = "none" /\ guard' = "held"
  BY DEF InitCall
<1>3. CollectsForExport'
  BY DEF InitCall, DInv, NothingToSend, CollectsForExport
<1>4. CASE config.logs
  <2>1. Pipe!Offer
    BY <1>4 DEF InitCall, Log, Send
  <2>2. PipeTypes'
    BY <1>2, <2>1, OfferSettles DEF DInv, PipeTypes
  <2>3. NothingToSend' /\ CallsInTurn'
    BY <1>2, <1>3, <1>4, <2>1, OfferSettles DEF DInv, NothingToSend, CollectsForExport, CallsInTurn, Exporting
  <2>4. FlushAnswered'
    BY <1>2, <2>1, OfferSettles DEF DInv, CallsInTurn, FlushAnswered
  <2> QED  BY <2>2, <2>3, <2>4 DEF DInv
<1>5. CASE ~config.logs
  BY <1>2, <1>3, <1>5 DEF InitCall, Log, DInv, PipeTypes, NothingToSend, CallsInTurn,
     FlushAnswered, Exporting, pipeVars
<1> QED  BY <1>4, <1>5

LEMMA LogKeeps ==
  ASSUME DInv, Log, UNCHANGED <<config, guard, aggregator, atDrop>>
  PROVE  DInv'
<1>1. UNCHANGED <<aggregator, config>> => CollectsForExport'
  BY DEF DInv, NothingToSend, CollectsForExport
<1>2. CASE config.logs
  BY <1>1, <1>2, SendKeeps DEF Log, Send, Exporting
<1>3. CASE ~config.logs
  BY <1>1, <1>3, QuietKeeps DEF Log
<1> QED  BY <1>2, <1>3

LEMMA EmitKeeps == ASSUME DInv, Emit PROVE DInv'
BY SendKeeps DEF Emit, Send, Exporting, DInv, NothingToSend, CollectsForExport

LEMMA CollectKeeps == ASSUME DInv, Collect PROVE DInv'
<1>1. CollectsForExport'
  BY DEF Collect, DInv, NothingToSend, CollectsForExport
<1> QED  BY <1>1, QuietKeeps DEF Collect

LEMMA SendMetricsKeeps == ASSUME DInv, SendMetrics PROVE DInv'
<1>1. config.metrics /\ CollectsForExport'
  BY DEF SendMetrics, DInv, NothingToSend, CollectsForExport
<1> QED  BY <1>1, SendKeeps DEF SendMetrics, Send, Exporting

LEMMA PollingKeeps == ASSUME DInv, Polling PROVE DInv'
<1>1. UNCHANGED <<aggregator, config>> => CollectsForExport'
  BY DEF DInv, NothingToSend, CollectsForExport
<1>2. CASE UNCHANGED <<pipeVars, hostVars>>
  BY <1>1, <1>2, QuietKeeps DEF hostVars
<1>3. CASE Log /\ UNCHANGED <<config, guard, aggregator, atDrop>>
  BY <1>3, LogKeeps
<1>4. CASE UNCHANGED pipeVars /\ UNCHANGED <<config, guard, aggregator, atDrop>>
  BY <1>1, <1>4, QuietKeeps
<1> QED  BY <1>2, <1>3, <1>4 DEF Polling

\* The guard.
LEMMA DropGuardKeeps == ASSUME DInv, NEW place \in Places, DropGuard(place) PROVE DInv'
<1>0. CollectsForExport'
  BY DEF DropGuard, DInv, NothingToSend, CollectsForExport
<1>1. /\ guard = "held" /\ atDrop' = [offered |-> offered, recorded |-> recorded]
      /\ UNCHANGED <<fate, offered, before, phase, config, aggregator>>
  BY DEF DropGuard
<1>2. /\ state["flush"] = "idle" /\ state["shutdown"] = "idle" /\ phase # "stopped"
  BY <1>1 DEF DInv, CallsInTurn, FlushAnswered
<1>3. /\ offered \in Nat /\ atDrop'.offered = offered /\ Exporting' = Exporting
  BY <1>1 DEF DInv, PipeTypes, Exporting
<1>4. CASE UNCHANGED state /\ ((guard' = "gone" /\ ~Exporting) \/ guard' \in {"panicked", "skipped"})
  <2>1. PipeTypes'
    BY <1>1, <1>3, <1>4 DEF DInv, PipeTypes
  <2> QED  BY <2>1, <1>1, <1>2, <1>3, <1>4 DEF DInv, NothingToSend, CollectsForExport, CallsInTurn,
       FlushAnswered
<1>5. CASE Exporting /\ guard' = "flushing" /\ Pipe!Begin("flush")
  <2>1. /\ state' = [state EXCEPT !["flush"] = IF phase = "open" THEN "started" ELSE "aborted"]
        /\ state'["shutdown"] = "idle"
        /\ state'["flush"] = IF phase = "open" THEN "started" ELSE "aborted"
    BY <1>2, <1>5 DEF Pipe!Begin, DInv, PipeTypes
  <2>2. PipeTypes'
    BY <2>1, <1>1, <1>3 DEF DInv, PipeTypes
  <2>3. phase # "open" => phase = "crashed"
    BY <1>2 DEF DInv, PipeTypes
  <2> QED  BY <2>1, <2>2, <2>3, <1>1, <1>3, <1>5 DEF DInv, NothingToSend, CollectsForExport, CallsInTurn,
       FlushAnswered
<1> QED  BY <1>4, <1>5 DEF DropGuard

LEMMA CommitCallKeeps == ASSUME DInv, CommitCall PROVE DInv'
<1>1. UNCHANGED <<config, guard, aggregator, atDrop>>
  BY DEF CommitCall, hostVars
<1>2. PICK c \in {"flush", "shutdown"} : Pipe!Commit(c)
  BY DEF CommitCall
<1>3. /\ phase = "open" /\ state[c] = "started" /\ UNCHANGED <<fate, offered, phase>>
      /\ state' = [state EXCEPT ![c] = IF c = "flush" THEN "waiting" ELSE "done"]
      /\ before' = [before EXCEPT ![c] = offered]
  BY <1>2 DEF Pipe!Commit
<1>4. /\ offered \in atDrop.offered..offered
      /\ DOMAIN state = {"flush", "shutdown"} /\ DOMAIN before = {"flush", "shutdown"}
  BY DEF DInv, PipeTypes
<1>5. PipeTypes'
  BY <1>1, <1>3, <1>4 DEF DInv, PipeTypes
<1>6. NothingToSend' /\ Exporting' = Exporting
  BY <1>1, <1>3 DEF DInv, NothingToSend, CollectsForExport, Exporting
<1>7. CallsInTurn' /\ FlushAnswered'
  BY <1>1, <1>3, <1>4, <1>6 DEF DInv, CallsInTurn, FlushAnswered
<1> QED  BY <1>5, <1>6, <1>7 DEF DInv

LEMMA FlushReturnsKeeps == ASSUME DInv, FlushReturns PROVE DInv'
<1>1. /\ guard = "flushing" /\ guard' = "closing" /\ state["flush"] \in {"done", "aborted"}
      /\ UNCHANGED <<fate, offered, before, phase, config, aggregator, atDrop>>
      /\ state' = [state EXCEPT !["shutdown"] = IF phase = "open" THEN "started" ELSE "aborted"]
  BY DEF FlushReturns, Pipe!Begin
<1>2. PipeTypes'
  BY <1>1 DEF DInv, PipeTypes
<1>3. NothingToSend' /\ Exporting' = Exporting /\ Exporting
  BY <1>1 DEF DInv, NothingToSend, CollectsForExport, Exporting, CallsInTurn
<1>4. state'["flush"] = state["flush"] /\ state["shutdown"] = "idle" /\ phase # "stopped"
  BY <1>1 DEF DInv, PipeTypes, CallsInTurn, FlushAnswered
<1> QED  BY <1>1, <1>2, <1>3, <1>4 DEF DInv, CallsInTurn, FlushAnswered

LEMMA ShutdownReturnsKeeps == ASSUME DInv, ShutdownReturns PROVE DInv'
BY DEF ShutdownReturns, DInv, PipeTypes, NothingToSend, CollectsForExport, CallsInTurn,
       FlushAnswered, Exporting,
       pipeVars

\* The exporter closes: what is pending is lost, which settles it too.
LEMMA CloseKeeps ==
  ASSUME DInv, NEW how \in {"stopped", "crashed"}, Pipe!Close(how),
         how = "stopped" => state["shutdown"] = "done",
         UNCHANGED <<config, guard, aggregator, atDrop>>
  PROVE  DInv'
<1>1. /\ phase' = how /\ UNCHANGED <<offered, before>>
      /\ fate' = [n \in 1..MaxSends |-> IF fate[n] = "pending" THEN "lost" ELSE fate[n]]
      /\ state' = [c \in {"flush", "shutdown"} |->
                     IF state[c] \in {"started", "waiting"} THEN "aborted" ELSE state[c]]
  BY DEF Pipe!Close
<1>2. PipeTypes'
  BY <1>1 DEF DInv, PipeTypes
<1>3. NothingToSend' /\ Exporting' = Exporting
  BY <1>1 DEF DInv, NothingToSend, CollectsForExport, Exporting
<1>4. CallsInTurn'
  BY <1>1, <1>3 DEF DInv, CallsInTurn
<1>5. FlushAnswered'
  <2>1. how = "stopped" => state["flush"] \in {"done", "aborted"} /\ state'["shutdown"] = "done"
    BY <1>1 DEF DInv, CallsInTurn
  <2>2. phase = "open"
    BY DEF Pipe!Close
  <2>3. state'["flush"] = "aborted" => phase' = "crashed"
    BY <1>1, <2>1, <2>2 DEF DInv, FlushAnswered
  <2>4. atDrop.offered \in 0..MaxSends /\ Pipe!SettledUpTo(atDrop.offered)'
    <3>1. atDrop.offered \in 0..MaxSends /\ MaxSends \in Nat
      BY TelemetryAssumption DEF DInv, PipeTypes
    <3>2. \A n \in 1..MaxSends : fate'[n] # "pending"
      BY <1>1
    <3> QED  BY <3>1, <3>2
  <2> QED  BY <1>1, <2>1, <2>3, <2>4 DEF FlushAnswered
<1> QED  BY <1>2, <1>3, <1>4, <1>5 DEF DInv

LEMMA ServeKeeps == ASSUME DInv, Serve PROVE DInv'
<1>1. UNCHANGED <<config, guard, aggregator, atDrop>>
  BY DEF Serve, hostVars
<1>2. CASE Pipe!Settle
  <2>1. PICK S \in SUBSET {n \in 1..MaxSends : fate[n] = "pending"} :
          fate' = [n \in 1..MaxSends |-> IF n \in S THEN "settled" ELSE fate[n]]
    BY <1>2 DEF Pipe!Settle
  <2>2. UNCHANGED <<offered, state, before, phase>>
    BY <1>2 DEF Pipe!Settle
  <2>3. PipeTypes' /\ NothingToSend' /\ CallsInTurn'
    BY <1>1, <2>1, <2>2 DEF DInv, PipeTypes, NothingToSend, CollectsForExport, CallsInTurn, Exporting
  <2>4. Pipe!SettledUpTo(atDrop.offered) => Pipe!SettledUpTo(atDrop.offered)'
    <3>1. atDrop.offered \in 0..MaxSends /\ MaxSends \in Nat
      BY TelemetryAssumption DEF DInv, PipeTypes
    <3> QED  BY <3>1, <2>1, <1>1
  <2> QED  BY <1>1, <2>2, <2>3, <2>4 DEF DInv, FlushAnswered
<1>3. CASE Pipe!Acknowledge("flush")
  <2>1. /\ phase = "open" /\ state["flush"] = "waiting" /\ Pipe!SettledUpTo(before["flush"])
        /\ state' = [state EXCEPT !["flush"] = "done"] /\ UNCHANGED <<fate, offered, before, phase>>
    BY <1>3 DEF Pipe!Acknowledge
  <2>2. PipeTypes' /\ NothingToSend' /\ CallsInTurn'
    BY <1>1, <2>1 DEF DInv, PipeTypes, NothingToSend, CollectsForExport, CallsInTurn, Exporting
  <2>3. Pipe!SettledUpTo(atDrop.offered)
    BY <2>1 DEF DInv, PipeTypes, FlushAnswered
  <2> QED  BY <1>1, <2>1, <2>2, <2>3 DEF DInv, PipeTypes, FlushAnswered
<1>4. CASE state["shutdown"] = "done" /\ Pipe!Stop
  BY <1>1, <1>4, CloseKeeps DEF Pipe!Stop
<1> QED  BY <1>2, <1>3, <1>4 DEF Serve

LEMMA DropRuntimeKeeps == ASSUME DInv, DropRuntime PROVE DInv'
<1>1. UNCHANGED <<aggregator, config>> => CollectsForExport'
  BY DEF DInv, NothingToSend, CollectsForExport
<1> QED  BY <1>1, CloseKeeps, QuietKeeps DEF DropRuntime, Pipe!Crash

-----------------------------------------------------------------------------
(***************************************************************************)
(* Every step.                                                             *)
(***************************************************************************)
LEMMA NextKeeps == ASSUME DInv, [Next]_vars PROVE DInv'
<1>1. UNCHANGED <<aggregator, config>> => CollectsForExport'
  BY DEF DInv, NothingToSend, CollectsForExport
<1>2. CASE InitCall  BY <1>2, InitCallKeeps
<1>3. CASE Emit  BY <1>3, EmitKeeps
<1>4. CASE Measure  BY <1>1, <1>4, QuietKeeps DEF Measure
<1>5. CASE Collect  BY <1>1, <1>5, CollectKeeps
<1>6. CASE SendMetrics  BY <1>6, SendMetricsKeeps
<1>7. CASE Polling  BY <1>7, PollingKeeps
<1>8. CASE \E place \in Places : DropGuard(place)  BY <1>8, DropGuardKeeps
<1>9. CASE CommitCall  BY <1>9, CommitCallKeeps
<1>10. CASE FlushReturns  BY <1>10, FlushReturnsKeeps
<1>11. CASE ShutdownReturns  BY <1>11, ShutdownReturnsKeeps
<1>12. CASE Serve  BY <1>12, ServeKeeps
<1>13. CASE LeaveRuntime  BY <1>1, <1>13, QuietKeeps DEF LeaveRuntime
<1>14. CASE DropRuntime  BY <1>14, DropRuntimeKeeps
<1>15. CASE UNCHANGED vars  BY <1>1, <1>15, QuietKeeps DEF vars, hostVars
<1> QED  BY <1>2, <1>3, <1>4, <1>5, <1>6, <1>7, <1>8, <1>9, <1>10, <1>11, <1>12, <1>13, <1>14,
            <1>15 DEF Next

LEMMA DInvDropFlushes == ASSUME DInv PROVE DropFlushes
<1> SUFFICES ASSUME guard = "gone", phase # "crashed" PROVE Pipe!SettledUpTo(atDrop.offered)
  BY DEF DropFlushes
<1>1. CASE Exporting
  BY <1>1 DEF DInv, CallsInTurn, FlushAnswered
<1>2. CASE ~Exporting
  BY <1>2 DEF DInv, PipeTypes, NothingToSend
<1> QED  BY <1>1, <1>2

\* src/lib.rs:71-84: for any configurations, runtimes and numbers of messages, a
\* guard that has flushed and gone leaves nothing pending that was sent before its
\* drop, unless the runtime under the exporter ended.
THEOREM DropFlushed == Spec => []DropFlushes
<1>1. Init => DInv  BY InitHolds
<1>2. DInv /\ [Next]_vars => DInv'  BY NextKeeps
<1>3. DInv => DropFlushes  BY DInvDropFlushes
<1> QED  BY <1>1, <1>2, <1>3, PTL DEF Spec

-----------------------------------------------------------------------------
(***************************************************************************)
(* The poll loop: each report is about the poll of its sample and the one  *)
(* before, and the samples follow each other whatever reads fail.          *)
(***************************************************************************)
Poller ==
  [pc : {"none", "spawned", "waiting", "cpu", "memory"}, deadline : Nat, prev_instant : Nat,
   elapsed : Nat, prev_cpu_ticks : Seq(Nat)]
Sample == [poll : Nat, ticks : Nat]
Utilization == [poll : Nat, ticks : Nat, elapsed : Nat]

UseShape ==
  /\ now \in 0..MaxTime /\ cpu \in 0..MaxTicks /\ poller \in Poller
  /\ poller.prev_instant <= now /\ poller.elapsed <= now
  /\ polls \in Seq(Nat) /\ samples \in Seq(Sample) /\ reports \in Seq(Utilization)

\* The clock does not go back, and the task keeps the instant of its last poll.
PollsInOrder ==
  /\ poller.pc \in {"none", "spawned"} => polls = <<>>
  /\ \A i \in DOMAIN polls : polls[i] <= now
  /\ \A i, j \in DOMAIN polls : i <= j => polls[i] <= polls[j]
  /\ polls # <<>> => poller.prev_instant = polls[Len(polls)]
  /\ poller.pc = "cpu" =>
       /\ polls # <<>>
       /\ Len(polls) > 1 => poller.elapsed = polls[Len(polls)] - polls[Len(polls) - 1]

\* The task keeps its last sample, which is older than the poll it is in.
SamplesInOrder ==
  /\ \A i \in DOMAIN samples : samples[i].poll \in DOMAIN polls /\ samples[i].ticks <= cpu
  /\ \A i, j \in DOMAIN samples : i < j =>
       samples[i].poll < samples[j].poll /\ samples[i].ticks <= samples[j].ticks
  /\ poller.pc = "cpu" => \A i \in DOMAIN samples : samples[i].poll < Len(polls)
  /\ poller.prev_cpu_ticks = IF samples = <<>> THEN <<>> ELSE <<samples[Len(samples)].ticks>>

\* There is a report of every sample but the first.
ReportsFollow ==
  /\ Len(reports) = IF samples = <<>> THEN 0 ELSE Len(samples) - 1
  /\ \A i \in DOMAIN reports :
       /\ reports[i].poll = samples[i + 1].poll
       /\ reports[i].ticks = samples[i + 1].ticks - samples[i].ticks
       /\ reports[i].elapsed = polls[reports[i].poll] - polls[reports[i].poll - 1]

UInv == UseShape /\ PollsInOrder /\ SamplesInOrder /\ ReportsFollow

LEMMA UseInitHolds == ASSUME UseInit PROVE UInv
<1>1. UseShape
  BY UseAssumption DEF UseInit, UseShape, Poller, UseAssumption
<1>2. poller.prev_cpu_ticks = <<>> /\ polls = <<>> /\ samples = <<>> /\ reports = <<>> /\ poller.pc = "none"
  BY DEF UseInit
<1> QED
  BY <1>1, <1>2 DEF UInv, PollsInOrder, SamplesInOrder, ReportsFollow

\* The clock goes on.
LEMMA TimePassesKeeps == ASSUME UInv, TimePasses PROVE UInv'
<1>1. /\ now \in Nat /\ now' = now + 1 /\ now' \in 0..MaxTime
      /\ cpu' \in 0..MaxTicks /\ cpu \in Nat /\ cpu' \in Nat /\ cpu <= cpu'
      /\ UNCHANGED <<poller, polls, samples, reports>>
  BY UseAssumption DEF UseAssumption, TimePasses, UInv, UseShape
<1>2. UseShape'
  <2>1. poller \in Poller
    BY DEF UInv, UseShape
  <2>2. poller.prev_instant \in Nat /\ poller.elapsed \in Nat
    BY <2>1 DEF Poller
  <2> QED
    BY <1>1, <2>2 DEF UInv, UseShape
<1>3. PollsInOrder'
  <2>1. \A i \in DOMAIN polls : polls[i] \in Nat
    BY DEF UInv, UseShape
  <2> QED
    BY <1>1, <2>1 DEF UInv, PollsInOrder
<1>4. SamplesInOrder'
  <2>1. \A i \in DOMAIN samples : samples[i].ticks \in Nat
    <3>1. \A i \in DOMAIN samples : samples[i] \in Sample
      BY DEF UInv, UseShape
    <3> QED
      BY <3>1 DEF Sample
  <2> QED
    BY <1>1, <2>1 DEF UInv, SamplesInOrder
<1> QED
  BY <1>1, <1>2, <1>3, <1>4 DEF UInv, ReportsFollow

\* The task starts, and takes the first tick.
LEMMA StartKeeps == ASSUME UInv, Start \/ FirstTick PROVE UInv'
<1>1. /\ poller.pc \in {"none", "spawned"} /\ UNCHANGED <<now, cpu, polls, samples, reports>>
      /\ \/ poller' = [poller EXCEPT !.pc = "spawned"]
         \/ poller' = [poller EXCEPT !.pc = "waiting", !.prev_instant = now, !.deadline = now + Interval]
  BY DEF Start, FirstTick
<1>2. PICK p \in Poller : p = poller /\ now \in Nat /\ now + Interval \in Nat
  BY UseAssumption DEF UseAssumption, UInv, UseShape
<1>3. /\ poller' \in Poller /\ poller'.prev_instant <= now /\ poller'.elapsed = p.elapsed
      /\ poller'.prev_cpu_ticks = p.prev_cpu_ticks /\ poller'.pc # "cpu"
  <2>1. p.prev_instant <= now
    BY <1>2 DEF UInv, UseShape
  <2>2. CASE poller' = [p EXCEPT !.pc = "spawned"]
    BY ONLY <2>1, <2>2, p \in Poller DEF Poller
  <2>3. CASE poller' = [p EXCEPT !.pc = "waiting", !.prev_instant = now, !.deadline = now + Interval]
    <3>1. PICK d \in Nat, n \in Nat : d = now + Interval /\ n = now /\ n <= n
      BY <1>2
    <3>2. poller' = [p EXCEPT !.pc = "waiting", !.prev_instant = n, !.deadline = d]
      BY <2>3, <3>1
    <3>3. /\ poller' \in Poller /\ poller'.prev_instant = n /\ poller'.elapsed = p.elapsed
          /\ poller'.prev_cpu_ticks = p.prev_cpu_ticks /\ poller'.pc = "waiting"
      BY ONLY <3>2, p \in Poller, d \in Nat, n \in Nat DEF Poller
    <3> QED
      BY <3>1, <3>3
  <2> QED
    BY <1>1, <1>2, <2>2, <2>3
<1>4. polls = <<>> /\ samples = <<>>
  <2>1. polls = <<>>
    BY <1>1 DEF UInv, PollsInOrder
  <2>2. samples \in Seq(Sample) /\ \A i \in DOMAIN samples : samples[i].poll \in DOMAIN polls
    BY DEF UInv, UseShape, SamplesInOrder
  <2>3. DOMAIN polls = {}
    BY <2>1
  <2>4. DOMAIN samples = {}
    BY <2>2, <2>3
  <2> QED
    BY <2>1, <2>2, <2>4
<1>5. UseShape'
  BY <1>1, <1>2, <1>3 DEF UInv, UseShape
<1>6. PollsInOrder' /\ SamplesInOrder' /\ ReportsFollow'
  BY <1>1, <1>2, <1>3, <1>4 DEF UInv, PollsInOrder, SamplesInOrder, ReportsFollow
<1> QED
  BY <1>5, <1>6 DEF UInv

\* A tick, which is a poll.
LEMMA TickKeeps == ASSUME UInv, Tick PROVE UInv'
<1>1. PICK p \in Poller : p = poller
  BY DEF UInv, UseShape
<1>2. PICK q \in Seq(Nat) : q = polls
  BY DEF UInv, UseShape
<1>3. /\ now \in Nat /\ p.prev_instant \in Nat /\ p.prev_instant <= now /\ Interval \in Nat
      /\ p.deadline \in Nat /\ p.pc = "waiting"
  BY <1>1, UseAssumption DEF UseAssumption, UInv, UseShape, Poller, Tick
<1>4. /\ UNCHANGED <<now, cpu, samples, reports>> /\ polls' = Append(q, now)
      /\ poller' = [p EXCEPT !.pc = "cpu", !.deadline = @ + Interval,
                             !.elapsed = now - p.prev_instant, !.prev_instant = now]
  BY <1>1, <1>2 DEF Tick
<1>5. /\ poller' \in Poller /\ poller'.pc = "cpu" /\ poller'.prev_instant = now
      /\ poller'.elapsed = now - p.prev_instant /\ poller'.prev_cpu_ticks = p.prev_cpu_ticks
  <2>1. now - p.prev_instant \in Nat /\ p.deadline + Interval \in Nat
    BY ONLY <1>3
  <2> QED
    BY ONLY <1>3, <1>4, <2>1, p \in Poller DEF Poller
<1>6. /\ polls' \in Seq(Nat) /\ Len(polls') = Len(q) + 1 /\ Len(q) \in Nat
      /\ DOMAIN q = 1..Len(q) /\ DOMAIN polls' = 1..(Len(q) + 1)
      /\ polls'[Len(q) + 1] = now /\ \A i \in 1..Len(q) : polls'[i] = q[i] /\ q[i] \in Nat
  BY ONLY <1>3, <1>4, q \in Seq(Nat)
<1>7. /\ \A i \in 1..Len(q) : q[i] <= now
      /\ \A i, j \in 1..Len(q) : i <= j => q[i] <= q[j]
      /\ Len(q) > 0 => p.prev_instant = q[Len(q)]
  <2>1. /\ \A i \in DOMAIN q : q[i] <= now
        /\ \A i, j \in DOMAIN q : i <= j => q[i] <= q[j]
        /\ q # <<>> => p.prev_instant = q[Len(q)]
    BY <1>1, <1>2 DEF UInv, PollsInOrder
  <2>2. Len(q) > 0 => q # <<>>
    OBVIOUS
  <2> QED
    BY ONLY <1>6, <2>1, <2>2
<1>8. UseShape'
  BY <1>3, <1>4, <1>5, <1>6 DEF UInv, UseShape
<1>9. PollsInOrder'
  <2>0. \A i \in DOMAIN polls' : (i \in 1..Len(q) /\ polls'[i] = q[i]) \/ (i = Len(q) + 1 /\ polls'[i] = now)
    BY ONLY <1>6
  <2>1. \A i \in DOMAIN polls' : polls'[i] <= now
    BY ONLY <1>3, <1>7, <2>0
  <2>2. \A i, j \in DOMAIN polls' : i <= j => polls'[i] <= polls'[j]
    <3> SUFFICES ASSUME NEW i \in DOMAIN polls', NEW j \in DOMAIN polls', i <= j
                 PROVE  polls'[i] <= polls'[j]
      OBVIOUS
    <3>1. CASE j = Len(q) + 1
      BY ONLY <1>6, <2>1, <3>1
    <3>2. CASE j \in 1..Len(q)
      <4>1. i \in 1..Len(q)
        BY ONLY <1>6, <3>2, i <= j, i \in DOMAIN polls'
      <4> QED
        BY ONLY <1>6, <1>7, <3>2, <4>1, i <= j
    <3> QED
      BY <2>0, <3>1, <3>2
  <2>3. polls' # <<>>
    BY <1>4
  <2>4. Len(polls') > 1 => poller'.elapsed = polls'[Len(polls')] - polls'[Len(polls') - 1]
    BY ONLY <1>5, <1>6, <1>7
  <2> QED
    BY <1>4, <1>5, <1>6, <2>1, <2>2, <2>3, <2>4 DEF PollsInOrder
<1>10. SamplesInOrder'
  <2>1. \A i \in DOMAIN samples : samples[i].poll \in 1..Len(q)
    BY <1>2, <1>6 DEF UInv, SamplesInOrder
  <2>2. \A i \in DOMAIN samples : samples[i].poll \in DOMAIN polls' /\ samples[i].poll < Len(polls')
    BY ONLY <1>6, <2>1
  <2> QED
    BY <1>1, <1>4, <1>5, <2>2 DEF UInv, SamplesInOrder
<1>11. ReportsFollow'
  <2>1. ASSUME NEW i \in DOMAIN reports
        PROVE  /\ polls'[reports[i].poll] = polls[reports[i].poll]
               /\ polls'[reports[i].poll - 1] = polls[reports[i].poll - 1]
    <3>1. /\ i \in DOMAIN samples /\ i + 1 \in DOMAIN samples /\ i < i + 1
          /\ reports[i].poll = samples[i + 1].poll
      BY DEF UInv, UseShape, ReportsFollow
    <3>2. /\ samples[i].poll \in 1..Len(q) /\ samples[i + 1].poll \in 1..Len(q)
          /\ samples[i].poll < samples[i + 1].poll
      BY <1>2, <1>6, <3>1 DEF UInv, SamplesInOrder
    <3>3. reports[i].poll \in 1..Len(q) /\ reports[i].poll - 1 \in 1..Len(q)
      <4>1. PICK n, j, k : n = Len(q) /\ j = samples[i].poll /\ k = samples[i + 1].poll
        OBVIOUS
      <4>2. n \in Nat
        BY ONLY <1>6, <4>1
      <4>3. j \in 1..n /\ k \in 1..n /\ j < k
        BY ONLY <3>2, <4>1
      <4>4. k - 1 \in 1..n
        BY ONLY <4>2, <4>3
      <4> QED
        BY ONLY <3>1, <4>1, <4>3, <4>4
    <3> QED
      BY <1>2, <1>6, <3>3
  <2> QED
    BY <1>4, <2>1 DEF UInv, ReportsFollow
<1> QED
  BY <1>8, <1>9, <1>10, <1>11 DEF UInv

\* The memory is read after the CPU time, and a read of the CPU time that fails
\* leaves the sample as it is.
LEMMA ReadFailsKeeps ==
  ASSUME UInv, ReadCpu(FALSE) \/ ReadMemory
  PROVE  UInv'
<1>1. PICK p \in Poller : p = poller
  BY DEF UInv, UseShape
<1>2. /\ UNCHANGED <<now, cpu, polls, samples, reports>> /\ p.pc \in {"cpu", "memory"}
      /\ poller' \in Poller /\ poller'.pc \in {"memory", "waiting"}
      /\ poller'.prev_instant = p.prev_instant /\ poller'.elapsed = p.elapsed
      /\ poller'.prev_cpu_ticks = p.prev_cpu_ticks
  BY <1>1 DEF ReadCpu, ReadMemory, Poller
<1> QED
  BY <1>1, <1>2 DEF UInv, UseShape, PollsInOrder, SamplesInOrder, ReportsFollow

\* A read that succeeds is a sample, and a report of the time since the last poll
\* and the ticks since the last sample.
LEMMA ReadCpuKeeps == ASSUME UInv, ReadCpu(TRUE) PROVE UInv'
<1>1. PICK p \in Poller : p = poller
  BY DEF UInv, UseShape
<1>2. PICK a \in Seq(Sample) : a = samples
  BY DEF UInv, UseShape
<1>3. PICK b \in Seq(Utilization) : b = reports
  BY DEF UInv, UseShape
<1>4. PICK k \in Nat : k = Len(polls) /\ k > 0 /\ DOMAIN polls = 1..k
  <2>1. polls \in Seq(Nat) /\ polls # <<>>
    BY DEF UInv, UseShape, PollsInOrder, ReadCpu
  <2> QED
    BY <2>1
<1>5. PICK e : e = [poll |-> k, ticks |-> cpu]
  OBVIOUS
<1>6. e \in Sample /\ e.poll = k /\ e.ticks = cpu /\ cpu \in Nat
  BY <1>5, UseAssumption DEF Sample, UInv, UseShape, UseAssumption
<1>7. /\ UNCHANGED <<now, cpu, polls>> /\ samples' = Append(a, e) /\ p.pc = "cpu"
      /\ poller' = [p EXCEPT !.pc = "memory", !.prev_cpu_ticks = <<cpu>>]
      /\ reports' = b \o Report(cpu)
  BY <1>1, <1>2, <1>3, <1>4, <1>5 DEF ReadCpu
<1>8. /\ poller' \in Poller /\ poller'.pc = "memory" /\ poller'.prev_instant = p.prev_instant
      /\ poller'.elapsed = p.elapsed /\ poller'.prev_cpu_ticks = <<cpu>>
  <2>0. cpu \in Nat
    BY <1>6
  <2>1. PICK ticks \in Seq(Nat) : ticks = <<cpu>>
    <3>1. PICK c \in Nat : c = cpu
      BY <2>0
    <3>2. <<c>> \in Seq(Nat)
      BY ONLY c \in Nat
    <3> QED
      BY <3>1, <3>2
  <2>2. poller' = [p EXCEPT !.pc = "memory", !.prev_cpu_ticks = ticks]
    BY <1>7, <2>1
  <2>3. /\ poller' \in Poller /\ poller'.pc = "memory" /\ poller'.prev_instant = p.prev_instant
        /\ poller'.elapsed = p.elapsed /\ poller'.prev_cpu_ticks = ticks
    BY ONLY <2>2, p \in Poller, ticks \in Seq(Nat) DEF Poller
  <2> QED
    BY <2>1, <2>3
<1>9. /\ samples' \in Seq(Sample) /\ Len(a) \in Nat /\ DOMAIN a = 1..Len(a)
      /\ Len(samples') = Len(a) + 1 /\ DOMAIN samples' = 1..(Len(a) + 1)
      /\ samples'[Len(a) + 1] = e /\ \A i \in 1..Len(a) : samples'[i] = a[i]
      /\ a = <<>> <=> Len(a) = 0
  BY ONLY <1>6, <1>7, a \in Seq(Sample)
<1>10. \A i \in 1..Len(a) :
         /\ a[i] \in Sample /\ a[i].poll \in 1..k /\ a[i].poll < k /\ a[i].ticks \in Nat
         /\ a[i].ticks <= cpu
  <2>1. \A i \in DOMAIN a : a[i] \in Sample
    OBVIOUS
  <2>2. \A i \in DOMAIN a : a[i].poll \in 1..k /\ a[i].poll < k /\ a[i].ticks <= cpu
    BY <1>1, <1>2, <1>4, <1>7 DEF UInv, SamplesInOrder
  <2>3. \A i \in DOMAIN a : a[i].ticks \in Nat
    BY <2>1 DEF Sample
  <2> QED
    BY ONLY <1>9, <2>1, <2>2, <2>3
<1>11. \A i, j \in 1..Len(a) : i < j => a[i].poll < a[j].poll /\ a[i].ticks <= a[j].ticks
  BY <1>2, <1>9 DEF UInv, SamplesInOrder
<1>12. SamplesInOrder'
  <2>1. \A i \in DOMAIN samples' :
          (i \in 1..Len(a) /\ samples'[i] = a[i]) \/ (i = Len(a) + 1 /\ samples'[i] = e)
    BY ONLY <1>9
  <2>2. \A i \in DOMAIN samples' : samples'[i].poll \in DOMAIN polls /\ samples'[i].ticks <= cpu
    BY ONLY <1>4, <1>6, <1>10, <2>1
  <2>3. ASSUME NEW i \in DOMAIN samples', NEW j \in DOMAIN samples', i < j
        PROVE  samples'[i].poll < samples'[j].poll /\ samples'[i].ticks <= samples'[j].ticks
    <3>1. i \in 1..Len(a) /\ samples'[i] = a[i]
      BY ONLY <1>9, <2>1, i < j, i \in DOMAIN samples', j \in DOMAIN samples'
    <3>2. CASE j \in 1..Len(a) /\ samples'[j] = a[j]
      BY ONLY <1>11, <3>1, <3>2, i < j
    <3>3. CASE samples'[j] = e
      BY ONLY <1>6, <1>10, <3>1, <3>3
    <3> QED
      BY <2>1, <3>2, <3>3
  <2>4. samples' # <<>> /\ samples'[Len(samples')].ticks = cpu
    BY <1>6, <1>7, <1>9
  <2> QED
    BY <1>7, <1>8, <2>2, <2>3, <2>4 DEF SamplesInOrder
<1>13. /\ Len(b) \in Nat /\ DOMAIN b = 1..Len(b)
       /\ Len(b) = IF a = <<>> THEN 0 ELSE Len(a) - 1
       /\ p.prev_cpu_ticks = IF a = <<>> THEN <<>> ELSE <<a[Len(a)].ticks>>
  BY <1>1, <1>2, <1>3 DEF UInv, ReportsFollow, SamplesInOrder
<1>14. \A i \in 1..Len(b) :
         /\ b[i].poll = samples'[i + 1].poll
         /\ b[i].ticks = samples'[i + 1].ticks - samples'[i].ticks
         /\ b[i].elapsed = polls[b[i].poll] - polls[b[i].poll - 1]
  <2>1. \A i \in DOMAIN b :
          /\ b[i].poll = a[i + 1].poll /\ b[i].ticks = a[i + 1].ticks - a[i].ticks
          /\ b[i].elapsed = polls[b[i].poll] - polls[b[i].poll - 1]
    BY <1>2, <1>3 DEF UInv, ReportsFollow
  <2>2. \A i \in 1..Len(b) : i \in 1..Len(a) /\ i + 1 \in 1..Len(a)
    <3>1. Len(b) = 0 \/ Len(b) = Len(a) - 1
      BY <1>13
    <3>2. Len(a) \in Nat /\ Len(b) \in Nat
      BY <1>9, <1>13
    <3> QED
      BY ONLY <3>1, <3>2
  <2>3. \A i \in 1..Len(b) : samples'[i] = a[i] /\ samples'[i + 1] = a[i + 1]
    BY ONLY <1>9, <2>2
  <2>4. DOMAIN b = 1..Len(b)
    BY <1>13
  <2> SUFFICES ASSUME NEW i \in 1..Len(b)
               PROVE  /\ b[i].poll = samples'[i + 1].poll
                      /\ b[i].ticks = samples'[i + 1].ticks - samples'[i].ticks
                      /\ b[i].elapsed = polls[b[i].poll] - polls[b[i].poll - 1]
    OBVIOUS
  <2>5. samples'[i] = a[i] /\ samples'[i + 1] = a[i + 1] /\ i \in DOMAIN b
    BY <2>3, <2>4
  <2> QED
    <3>1. /\ b[i].poll = a[i + 1].poll /\ b[i].ticks = a[i + 1].ticks - a[i].ticks
          /\ b[i].elapsed = polls[b[i].poll] - polls[b[i].poll - 1]
      BY <2>1, <2>5, Zenon
    <3> QED
      BY ONLY <2>5, <3>1
<1>15. CASE a = <<>>
  <2>1. reports' = b
    <3>1. Report(cpu) = <<>>
      BY <1>1, <1>13, <1>15 DEF Report
    <3> QED
      BY <1>7, <3>1
  <2>2. ReportsFollow'
    BY <1>7, <1>9, <1>13, <1>14, <1>15, <2>1 DEF ReportsFollow
  <2> QED
    BY <1>1, <1>7, <1>8, <1>9, <1>12, <2>1, <2>2 DEF UInv, UseShape, PollsInOrder
<1>16. CASE a # <<>>
  <2>1. PICK u : u = [poll |-> k, ticks |-> Difference(cpu, a[Len(a)].ticks), elapsed |-> p.elapsed]
    OBVIOUS
  <2>2. Len(a) \in 1..Len(a)
    BY ONLY <1>9, <1>16
  <2>3. Difference(cpu, a[Len(a)].ticks) = cpu - a[Len(a)].ticks /\ cpu - a[Len(a)].ticks \in Nat
    <3>1. a[Len(a)].ticks \in Nat /\ a[Len(a)].ticks <= cpu
      BY ONLY <1>10, <2>2
    <3> QED
      BY <1>6, <3>1 DEF Difference
  <2>4. /\ u \in Utilization /\ u.poll = k /\ u.ticks = cpu - a[Len(a)].ticks /\ u.elapsed = p.elapsed
    <3>1. p.elapsed \in Nat
      BY ONLY p \in Poller DEF Poller
    <3> QED
      BY ONLY <2>1, <2>3, <3>1, k \in Nat DEF Utilization
  <2>5. reports' = b \o <<u>>
    <3>1. poller.prev_cpu_ticks # <<>> /\ Head(poller.prev_cpu_ticks) = a[Len(a)].ticks
      BY <1>1, <1>13, <1>16
    <3>2. Report(cpu) = <<u>>
      BY <1>1, <1>4, <2>1, <3>1 DEF Report
    <3> QED
      BY <1>7, <3>2
  <2>6. /\ reports' \in Seq(Utilization) /\ Len(reports') = Len(b) + 1
        /\ DOMAIN reports' = 1..(Len(b) + 1)
        /\ reports'[Len(b) + 1] = u /\ \A i \in 1..Len(b) : reports'[i] = b[i]
    BY ONLY <1>13, <2>4, <2>5, b \in Seq(Utilization)
  <2>7. Len(b) = Len(a) - 1 /\ Len(samples') = Len(a) + 1 /\ samples' # <<>>
    BY <1>7, <1>9, <1>13, <1>16
  <2>8. u.elapsed = polls[k] - polls[k - 1]
    <3>1. k > 1
      <4>1. a[Len(a)].poll \in 1..k /\ a[Len(a)].poll < k
        BY ONLY <1>10, <2>2
      <4> QED
        BY ONLY <4>1, k \in Nat
    <3>2. p.elapsed = polls[k] - polls[k - 1]
      BY <1>1, <1>4, <1>7, <3>1 DEF UInv, PollsInOrder
    <3> QED
      BY <2>4, <3>2
  <2>9. ASSUME NEW i \in DOMAIN reports'
        PROVE  /\ reports'[i].poll = samples'[i + 1].poll
               /\ reports'[i].ticks = samples'[i + 1].ticks - samples'[i].ticks
               /\ reports'[i].elapsed = polls[reports'[i].poll] - polls[reports'[i].poll - 1]
    <3>1. CASE i \in 1..Len(b)
      BY ONLY <1>14, <2>6, <3>1
    <3>2. CASE i = Len(b) + 1
      <4>1. /\ reports'[i] = u /\ samples'[i + 1] = e /\ samples'[i] = a[Len(a)]
            /\ i = Len(a) /\ i + 1 = Len(a) + 1
        BY ONLY <1>9, <2>2, <2>6, <2>7, <3>2
      <4> QED
        BY ONLY <1>6, <2>4, <2>8, <4>1
    <3> QED
      BY ONLY <1>13, <2>6, <2>9, <3>1, <3>2
  <2>10. ReportsFollow'
    <3>1. Len(reports') = Len(samples') - 1
      BY ONLY <1>9, <2>6, <2>7
    <3> QED
      BY <1>7, <2>7, <2>9, <3>1 DEF ReportsFollow
  <2> QED
    BY <1>1, <1>7, <1>8, <1>9, <1>12, <2>6, <2>10 DEF UInv, UseShape, PollsInOrder
<1> QED
  BY <1>15, <1>16

\* Every step of the stack is one of the loop, or leaves it alone.
LEMMA UseNext == ASSUME UInv, [Next]_vars PROVE UInv'
<1>1. CASE UNCHANGED useVars
  BY <1>1 DEF useVars, UInv, UseShape, PollsInOrder, SamplesInOrder, ReportsFollow
<1>2. CASE InitCall
  BY <1>1, <1>2, StartKeeps DEF InitCall
<1>3. CASE Polling
  <2>1. \/ FirstTick \/ Tick \/ TimePasses \/ ReadMemory \/ ReadCpu(TRUE) \/ ReadCpu(FALSE)
    BY <1>3 DEF Polling
  <2> QED
    BY <2>1, StartKeeps, TickKeeps, TimePassesKeeps, ReadFailsKeeps, ReadCpuKeeps
<1>4. CASE Emit \/ Measure \/ Collect \/ SendMetrics
  BY <1>1, <1>4 DEF Emit, Measure, Collect, SendMetrics
<1>5. CASE \E place \in Places : DropGuard(place)
  BY <1>1, <1>5 DEF DropGuard
<1>6. CASE CommitCall \/ FlushReturns \/ ShutdownReturns \/ Serve \/ LeaveRuntime \/ DropRuntime
  BY <1>1, <1>6 DEF CommitCall, FlushReturns, ShutdownReturns, Serve, LeaveRuntime, DropRuntime
<1>7. CASE UNCHANGED vars
  BY <1>1, <1>7 DEF vars
<1> QED
  BY <1>2, <1>3, <1>4, <1>5, <1>6, <1>7 DEF Next

LEMMA UseHolds == Spec => []UInv
<1>1. Init => UInv  BY UseInitHolds DEF Init
<1>2. UInv /\ [Next]_vars => UInv'  BY UseNext
<1> QED  BY <1>1, <1>2, PTL DEF Spec

\* A report relates the ticks between two samples to a time no longer than the
\* time between their polls, and to that time when no read failed in between
\* (src/use_metrics.rs, poll_loop).
THEOREM RateIsNeverTooLow == Spec => []RateOverItsInterval
<1>1. ASSUME UInv PROVE RateOverItsInterval
  <2> SUFFICES ASSUME NEW i \in DOMAIN reports, NEW since, since = samples[i].poll,
                      NEW poll, poll = reports[i].poll
               PROVE  /\ reports[i].elapsed <= polls[poll] - polls[since]
                      /\ poll = since + 1 => reports[i].elapsed = polls[poll] - polls[since]
    BY DEF RateOverItsInterval
  <2>1. /\ i \in DOMAIN samples /\ i + 1 \in DOMAIN samples /\ i < i + 1
        /\ poll = samples[i + 1].poll /\ reports[i].elapsed = polls[poll] - polls[poll - 1]
    <3>1. PICK n \in Nat, m \in Nat :
            /\ n = Len(samples) /\ m = Len(reports) /\ DOMAIN samples = 1..n /\ DOMAIN reports = 1..m
            /\ m = IF samples = <<>> THEN 0 ELSE n - 1
      BY <1>1 DEF UInv, UseShape, ReportsFollow
    <3>2. i \in 1..m /\ (samples = <<>> => m = 0) /\ (samples # <<>> => m = n - 1)
      BY ONLY <3>1, i \in DOMAIN reports
    <3>3. i \in DOMAIN samples /\ i + 1 \in DOMAIN samples /\ i < i + 1
      BY ONLY <3>1, <3>2
    <3>4. /\ reports[i].poll = samples[i + 1].poll
          /\ reports[i].elapsed = polls[reports[i].poll] - polls[reports[i].poll - 1]
      BY <1>1 DEF UInv, ReportsFollow
    <3> QED
      BY ONLY <3>3, <3>4, poll = reports[i].poll
  <2>2. since \in DOMAIN polls /\ poll \in DOMAIN polls /\ since < poll
    BY <1>1, <2>1 DEF UInv, SamplesInOrder
  <2>3. polls \in Seq(Nat) /\ \A j, k \in DOMAIN polls : j <= k => polls[j] <= polls[k]
    BY <1>1 DEF UInv, UseShape, PollsInOrder
  <2>4. /\ poll - 1 \in DOMAIN polls /\ since <= poll - 1 /\ (poll = since + 1 => poll - 1 = since)
        /\ polls[poll] \in Nat /\ polls[poll - 1] \in Nat /\ polls[since] \in Nat
    <3>1. DOMAIN polls = 1..Len(polls) /\ Len(polls) \in Nat /\ \A j \in DOMAIN polls : polls[j] \in Nat
      BY ONLY <2>3
    <3>2. poll - 1 \in DOMAIN polls /\ since <= poll - 1 /\ (poll = since + 1 => poll - 1 = since)
      BY ONLY <2>2, <3>1
    <3> QED
      BY ONLY <2>2, <3>1, <3>2
  <2>5. polls[since] <= polls[poll - 1]
    BY <2>2, <2>3, <2>4
  <2> QED
    BY <2>1, <2>4, <2>5
<1> QED  BY <1>1, UseHolds, PTL

\* What a fold over the reports is: the recursive function of its definition.
LEMMA FoldIsSum ==
  ASSUME NEW q,
         \E f : f = [s \in SUBSET (DOMAIN q) |->
                       IF s = {} THEN 0 ELSE f[s \ {Max(s)}] + q[Max(s)].ticks]
  PROVE  \E f : /\ f = [s \in SUBSET (DOMAIN q) |->
                          IF s = {} THEN 0 ELSE f[s \ {Max(s)}] + q[Max(s)].ticks]
                /\ FoldLeft(LAMBDA sum, report : sum + report.ticks, 0, q) = f[DOMAIN q]
  BY Zenon DEF FoldLeft, MapThenFoldSet

\* Whatever reads fail, the reports add up to what the process used between the
\* first sample and the last (src/use_metrics.rs, poll_loop).
THEOREM ReportsTelescope == Spec => []ReportsAddUp
<1>1. ASSUME UInv PROVE ReportsAddUp
  <2>1. PICK q \in Seq(Utilization) : q = reports
    BY <1>1 DEF UInv, UseShape
  <2>2. PICK n \in Nat : n = Len(q) /\ DOMAIN q = 1..n
    OBVIOUS
  <2>3. samples \in Seq(Sample) /\ Len(samples) \in Nat /\ DOMAIN samples = 1..Len(samples)
    BY <1>1 DEF UInv, UseShape
  <2>4. PICK v : v = [i \in 1..n |-> q[i].ticks]
    OBVIOUS
  <2>5. PICK c : c = [i \in 1..Len(samples) |-> samples[i].ticks]
    OBVIOUS
  <2>6. \A i \in 1..n : v[i] \in Nat
    <3>1. \A i \in 1..n : q[i] \in Utilization
      BY <2>2
    <3> QED
      BY <2>4, <3>1 DEF Utilization
  <2>7. PICK g : g = [s \in SUBSET (1..n) |-> IF s = {} THEN 0 ELSE g[s \ {Max(s)}] + v[Max(s)]]
    BY <2>6, SumsExist
  <2>8. \A s \in SUBSET (1..n) : s # {} => Max(s) \in 1..n
    <3> SUFFICES ASSUME NEW s \in SUBSET (1..n), s # {} PROVE Max(s) \in 1..n
      OBVIOUS
    <3>1. \E x \in s : \A y \in s : x >= y
      <4> DEFINE T == {k \in Nat : \E x \in s : n - x = k}
      <4>1. T \subseteq Nat /\ T # {}
        <5>1. PICK x \in s : x \in 1..n
          OBVIOUS
        <5>2. n - x \in Nat
          BY ONLY <5>1, n \in Nat
        <5>3. n - x \in T
          BY <5>2
        <5> QED
          BY <5>3
      <4>2. PICK k \in T : \A m \in T : k <= m
        BY <4>1, Least
      <4>3. PICK x \in s : n - x = k
        BY <4>2
      <4>4. ASSUME NEW y \in s PROVE x >= y
        <5>1. n - y \in T /\ x \in 1..n /\ y \in 1..n
          OBVIOUS
        <5>2. n - x <= n - y
          BY <4>2, <4>3, <5>1
        <5> QED
          BY ONLY <5>1, <5>2, n \in Nat
      <4> QED
        BY <4>4
    <3>2. Max(s) \in s
      BY <3>1, Zenon DEF Max
    <3> QED
      BY <3>2
  <2>9. g = [s \in SUBSET (DOMAIN q) |-> IF s = {} THEN 0 ELSE g[s \ {Max(s)}] + q[Max(s)].ticks]
    <3>1. \A s \in SUBSET (1..n) : s # {} => v[Max(s)] = q[Max(s)].ticks
      BY <2>4, <2>8
    <3>2. [s \in SUBSET (1..n) |-> IF s = {} THEN 0 ELSE g[s \ {Max(s)}] + v[Max(s)]]
            = [s \in SUBSET (1..n) |-> IF s = {} THEN 0 ELSE g[s \ {Max(s)}] + q[Max(s)].ticks]
      BY ONLY <3>1
    <3> QED
      BY ONLY <2>2, <2>7, <3>2
  <2>10. PICK f : /\ f = [s \in SUBSET (DOMAIN q) |->
                            IF s = {} THEN 0 ELSE f[s \ {Max(s)}] + q[Max(s)].ticks]
                  /\ FoldLeft(LAMBDA sum, report : sum + report.ticks, 0, q) = f[DOMAIN q]
    BY <2>9, FoldIsSum
  <2>11. \A s \in SUBSET (1..n) : f[s] = IF s = {} THEN 0 ELSE f[s \ {Max(s)}] + v[Max(s)]
    <3>1. \A s \in SUBSET (1..n) : f[s] = IF s = {} THEN 0 ELSE f[s \ {Max(s)}] + q[Max(s)].ticks
      BY ONLY <2>2, <2>10
    <3> QED
      BY ONLY <2>4, <2>8, <3>1
  <2>12. CASE samples = <<>>
    <3>1. n = 0
      BY <1>1, <2>1, <2>2, <2>12 DEF UInv, ReportsFollow
    <3>2. DOMAIN q = {} /\ {} \in SUBSET (1..n)
      BY <2>2, <3>1
    <3>3. f[{}] = 0
      BY <2>11, <3>2
    <3> QED
      BY <2>1, <2>10, <2>12, <3>2, <3>3 DEF ReportsAddUp
  <2>13. CASE samples # <<>>
    <3>1. Len(samples) = n + 1
      BY <1>1, <2>1, <2>2, <2>3, <2>13 DEF UInv, ReportsFollow
    <3>2. \A i \in 1..(n + 1) : c[i] \in Nat /\ c[i] = samples[i].ticks
      <4>1. \A i \in 1..(n + 1) : samples[i] \in Sample
        BY <2>3, <3>1
      <4> QED
        BY <2>5, <3>1, <4>1 DEF Sample
    <3>3. \A i \in 1..n : c[i] <= c[i + 1] /\ v[i] = c[i + 1] - c[i]
      <4> SUFFICES ASSUME NEW i \in 1..n PROVE c[i] <= c[i + 1] /\ v[i] = c[i + 1] - c[i]
        OBVIOUS
      <4>1. i \in DOMAIN samples /\ i + 1 \in DOMAIN samples /\ i < i + 1 /\ i + 1 \in 1..(n + 1) /\ i \in 1..(n + 1)
        BY <2>3, <3>1
      <4>2. samples[i].ticks <= samples[i + 1].ticks
        BY <1>1, <4>1 DEF UInv, SamplesInOrder
      <4>3. q[i].ticks = samples[i + 1].ticks - samples[i].ticks
        BY <1>1, <2>1, <2>2 DEF UInv, ReportsFollow
      <4> QED
        BY <2>4, <3>2, <4>1, <4>2, <4>3
    <3>4. f[1..n] = c[n + 1] - c[1]
      <4>1. \A i \in 1..(n + 1) : c[i] \in Nat
        BY <3>2
      <4>2. SumsUp(n, v, f)
        BY ONLY <2>11 DEF SumsUp
      <4>3. Differences(n, v, c)
        BY ONLY <3>3, <4>1 DEF Differences
      <4> QED
        BY ONLY n \in Nat, <4>2, <4>3, SumOfDifferences
    <3>5. Last(samples) = samples[n + 1] /\ Head(samples) = samples[1] /\ 1 \in 1..(n + 1)
      BY <2>3, <3>1 DEF Last
    <3>6. c[n + 1] = samples[n + 1].ticks /\ c[1] = samples[1].ticks
      BY <3>2, <3>5
    <3>7. FoldLeft(LAMBDA sum, report : sum + report.ticks, 0, reports) = f[1..n]
      BY <2>1, <2>2, <2>10, Zenon
    <3> QED
      BY <2>13, <3>4, <3>5, <3>6, <3>7 DEF ReportsAddUp
  <2> QED
    BY <2>12, <2>13
<1> QED  BY <1>1, UseHolds, PTL

-----------------------------------------------------------------------------
(***************************************************************************)
(* Types: a snapshot counts measurements that there are, and only messages *)
(* that were offered where metrics are exported carry any.                 *)
(***************************************************************************)
RuntimeStates == [flavour : Flavours, status : {"driven", "idle", "dropped"}]

HostShape ==
  /\ runtime \in RuntimeStates
  /\ guard \in {"none", "held", "flushing", "closing", "gone", "panicked", "skipped"}
  /\ recorded \in Nat /\ aggregator.snapshot \in Nat /\ aggregator.snapshot <= recorded
  /\ aggregator.pc \in {"none", "waiting", "collected"}
  /\ DOMAIN contents = 1..MaxSends
  /\ \A n \in 1..MaxSends : contents[n] # 0 => n <= offered /\ config.metrics

LEMMA HostShapeStarts == ASSUME Init PROVE HostShape
<1>1. runtime \in RuntimeStates
  BY DEF Init, RuntimeStates
<1> QED
  BY <1>1 DEF Init, HostShape

\* A message is one more, and only that of the metrics task has measurements.
LEMMA SendFits ==
  ASSUME DInv, HostShape, NEW m, Send(m), m # 0 => config.metrics, UNCHANGED config
  PROVE  /\ DOMAIN contents' = 1..MaxSends
         /\ \A n \in 1..MaxSends : contents'[n] # 0 => n <= offered' /\ config'.metrics
<1>1. offered \in Nat /\ offered' = offered + 1 /\ contents' = [contents EXCEPT ![offered + 1] = m]
  BY OfferSettles DEF Send, DInv, PipeTypes
<1>2. DOMAIN contents = 1..MaxSends /\ \A n \in 1..MaxSends : contents[n] # 0 => n <= offered /\ config.metrics
  BY DEF HostShape
<1>3. ASSUME NEW n \in 1..MaxSends, contents'[n] # 0 PROVE n <= offered' /\ config'.metrics
  <2>1. CASE n = offered + 1
    BY <1>1, <1>2, <1>3, <2>1
  <2>2. CASE n # offered + 1
    <3>1. contents'[n] = contents[n]
      BY <1>1, <1>2, <2>2
    <3>2. n <= offered /\ config.metrics
      BY <1>2, <1>3, <3>1
    <3> QED
      BY ONLY <1>1, <3>2, TelemetryAssumption, n \in 1..MaxSends, UNCHANGED config DEF TelemetryAssumption
  <2> QED
    BY <2>1, <2>2
<1> QED
  BY <1>1, <1>2, <1>3

LEMMA LogFits ==
  ASSUME DInv, HostShape, Log, UNCHANGED config
  PROVE  /\ DOMAIN contents' = 1..MaxSends
         /\ \A n \in 1..MaxSends : contents'[n] # 0 => n <= offered' /\ config'.metrics
<1>1. CASE Send(0)
  BY <1>1, SendFits
<1>2. CASE UNCHANGED <<pipeVars, contents>>
  BY <1>2 DEF HostShape, pipeVars
<1> QED
  BY <1>1, <1>2 DEF Log

LEMMA HostShapeKeeps == ASSUME DInv, HostShape, [Next]_vars PROVE HostShape'
<1>1. CASE InitCall
  BY <1>1, LogFits DEF InitCall, HostShape, DInv, NothingToSend, CollectsForExport
<1>2. CASE Emit
  BY <1>2, SendFits DEF Emit, HostShape
<1>3. CASE Measure
  BY <1>3 DEF Measure, HostShape, pipeVars
<1>4. CASE Collect
  BY <1>4 DEF Collect, HostShape, pipeVars
<1>5. CASE SendMetrics
  <2>1. aggregator.snapshot # 0 => config.metrics
    BY <1>5 DEF SendMetrics, DInv, NothingToSend, CollectsForExport
  <2>2. UNCHANGED config /\ Send(aggregator.snapshot)
    BY <1>5 DEF SendMetrics
  <2>3. PICK m : m = aggregator.snapshot
    OBVIOUS
  <2>4. /\ DOMAIN contents' = 1..MaxSends
        /\ \A n \in 1..MaxSends : contents'[n] # 0 => n <= offered' /\ config'.metrics
    BY <2>1, <2>2, <2>3, SendFits
  <2> QED
    BY <1>5, <2>4 DEF SendMetrics, HostShape, DInv, NothingToSend, CollectsForExport
<1>6. CASE Polling
  <2>1. CASE UNCHANGED <<pipeVars, hostVars>>
    BY <2>1 DEF HostShape, pipeVars, hostVars
  <2>2. CASE Log /\ UNCHANGED <<config, runtime, guard, recorded, aggregator, atDrop>>
    BY <2>2, LogFits DEF HostShape
  <2>3. CASE UNCHANGED <<pipeVars, contents, config, runtime, guard, recorded, aggregator, atDrop>>
    BY <2>3 DEF HostShape, pipeVars
  <2> QED
    BY <1>6, <2>1, <2>2, <2>3 DEF Polling
<1>7. CASE \E place \in Places : DropGuard(place)
  BY <1>7 DEF DropGuard, HostShape
<1>8. CASE CommitCall
  BY <1>8 DEF CommitCall, Pipe!Commit, HostShape, hostVars
<1>9. CASE FlushReturns
  BY <1>9 DEF FlushReturns, Pipe!Begin, HostShape
<1>10. CASE ShutdownReturns
  BY <1>10 DEF ShutdownReturns, HostShape, pipeVars
<1>11. CASE Serve
  BY <1>11 DEF Serve, Pipe!Settle, Pipe!Acknowledge, Pipe!Stop, Pipe!Close, HostShape, hostVars
<1>12. CASE LeaveRuntime
  BY <1>12 DEF LeaveRuntime, HostShape, RuntimeStates, pipeVars
<1>13. CASE DropRuntime
  BY <1>13 DEF DropRuntime, Pipe!Crash, Pipe!Close, HostShape, RuntimeStates, pipeVars
<1>14. CASE UNCHANGED vars
  BY <1>14 DEF vars, pipeVars, hostVars, HostShape
<1> QED
  BY <1>1, <1>2, <1>3, <1>4, <1>5, <1>6, <1>7, <1>8, <1>9, <1>10, <1>11, <1>12, <1>13, <1>14 DEF Next

\* The clock, the CPU time and what the poll loop keeps of them are in order.
LEMMA UseTypes == ASSUME UInv PROVE UseTypeOK
<1>1. /\ now \in 0..MaxTime /\ cpu \in 0..MaxTicks
      /\ poller.pc \in {"none", "spawned", "waiting", "cpu", "memory"}
      /\ poller.prev_instant <= now /\ poller.elapsed <= now
      /\ \A i \in DOMAIN polls : polls[i] <= now
  BY DEF UInv, UseShape, PollsInOrder, Poller
<1>2. CASE samples = <<>>
  <2>1. Range(poller.prev_cpu_ticks) = {}
    BY <1>2 DEF UInv, SamplesInOrder, Range
  <2> QED
    BY <1>1, <2>1 DEF UseTypeOK
<1>3. CASE samples # <<>>
  <2>1. PICK ticks : ticks = samples[Len(samples)].ticks /\ ticks <= cpu
    <3>1. Len(samples) \in DOMAIN samples
      BY <1>3 DEF UInv, UseShape
    <3> QED
      BY <3>1 DEF UInv, SamplesInOrder
  <2>2. poller.prev_cpu_ticks = <<ticks>>
    BY <1>3, <2>1 DEF UInv, SamplesInOrder
  <2>3. Range(<<ticks>>) = {ticks}
    BY DEF Range
  <2> QED
    BY <1>1, <2>1, <2>2, <2>3 DEF UseTypeOK
<1> QED
  BY <1>2, <1>3

\* Of any stack: the guard calls flush() and then shutdown(), each only where it may,
\* and no message carries measurements that were not recorded (src/lib.rs, drop and
\* metrics_aggregation_loop).
THEOREM TypesHold == Spec => []TypeOK
<1>1. Init => DInv /\ UInv /\ HostShape
  BY InitHolds, UseInitHolds, HostShapeStarts DEF Init
<1>2. DInv /\ UInv /\ HostShape /\ [Next]_vars => (DInv /\ UInv /\ HostShape)'
  BY NextKeeps, UseNext, HostShapeKeeps
<1>3. DInv /\ UInv /\ HostShape => TypeOK
  BY UseTypes DEF TypeOK, DInv, PipeTypes, CallsInTurn, HostShape, RuntimeStates
<1> QED
  BY <1>1, <1>2, <1>3, PTL DEF Spec

=============================================================================
