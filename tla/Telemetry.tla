------------------------------ MODULE Telemetry ------------------------------
(***************************************************************************)
(* The telemetry stack of src/lib.rs, from init() to the drop of its       *)
(* guard: the wiring that the configuration asks for, the task that        *)
(* collects metrics and sends them, the threads that log and measure, and  *)
(* the guard that flushes and shuts down from a runtime of its own.  The   *)
(* exporter is a TelemetryPipe, which Exporter implements; the loop of     *)
(* UseMetrics logs what it reads.                                          *)
(*                                                                         *)
(* The runtime in which init() is called drives the exporter and both      *)
(* loops.  A runtime of one thread only does so while it is blocked on.    *)
(***************************************************************************)
EXTENDS UseMetrics

CONSTANTS
  Configs,        \* which signals are exported, and whether USE metrics are polled
  Flavours,       \* the runtimes: "multi_thread", "current_thread"
  Places,         \* where the guard is dropped: in a "task", or on a "thread"
  MaxSends,       \* bound: messages offered
  MaxMeasurements \* bound: measurements recorded

ASSUME TelemetryAssumption ==
  /\ Configs \subseteq [traces : BOOLEAN, logs : BOOLEAN, metrics : BOOLEAN, use : BOOLEAN]
  /\ Flavours \subseteq {"multi_thread", "current_thread"} /\ Places \subseteq {"task", "thread"}
  /\ MaxSends \in Nat /\ MaxMeasurements \in Nat

VARIABLES
  fate, offered, state, before, phase, \* the pipe
  config,     \* the configuration
  runtime,    \* its flavour, and whether it is driven
  guard,      \* where the guard is
  recorded,   \* measurements in the registry
  aggregator, \* the metrics task: where it is, and what it has collected
  contents,   \* history: the measurements in each message, 0 in a span or a log
  atDrop      \* history: what was offered and recorded when the drop began

Pipe == INSTANCE TelemetryPipe WITH Flushers <- {"flush"}, Closers <- {"shutdown"}

pipeVars == <<fate, offered, state, before, phase>>
hostVars == <<config, runtime, guard, recorded, aggregator, contents, atDrop>>
vars == <<pipeVars, hostVars, useVars>>

Exporting == config.traces \/ config.logs \/ config.metrics
Driven == runtime.status = "driven"

Init ==
  /\ Pipe!Init /\ UseInit
  /\ config \in Configs
  /\ runtime \in [flavour : Flavours, status : {"driven"}]
  /\ guard = "none" /\ recorded = 0
  /\ aggregator = [pc |-> "none", snapshot |-> 0]
  /\ contents = [n \in 1..MaxSends |-> 0]
  /\ atDrop = [offered |-> 0, recorded |-> 0]

-----------------------------------------------------------------------------
\* A thread or a task sends a message; the pipe may refuse it.
Send(measurements) ==
  /\ Pipe!Offer
  /\ contents' = [contents EXCEPT ![offered + 1] = measurements]

\* An event is a log where logs are exported.
Log == IF config.logs THEN Send(0) ELSE UNCHANGED <<pipeVars, contents>>

\* init(): the last thing it logs itself is that it is done, and then its tasks
\* are spawned.
InitCall ==
  /\ guard = "none" /\ Driven
  /\ guard' = "held"
  /\ Log
  /\ IF config.use THEN Start ELSE UNCHANGED useVars
  /\ aggregator' = [aggregator EXCEPT !.pc = IF config.metrics THEN "waiting" ELSE "none"]
  /\ UNCHANGED <<config, runtime, recorded, atDrop>>

\* Any thread closes a span or logs an event, also after the guard has gone.
Emit ==
  /\ guard # "none" /\ (config.traces \/ config.logs)
  /\ Send(0)
  /\ UNCHANGED <<config, runtime, guard, recorded, aggregator, atDrop, useVars>>

\* Any thread records a measurement; they count where a task collects them.
Measure ==
  /\ config.metrics /\ recorded < MaxMeasurements /\ recorded' = recorded + 1
  /\ UNCHANGED <<pipeVars, config, runtime, guard, aggregator, contents, atDrop, useVars>>

\* A tick of the metrics task: without data there is nothing to send.
Collect ==
  /\ Driven /\ aggregator.pc = "waiting" /\ recorded > 0
  /\ aggregator' = [pc |-> "collected", snapshot |-> recorded]
  /\ UNCHANGED <<pipeVars, config, runtime, guard, recorded, contents, atDrop, useVars>>

\* It does not await in between, but other threads run.
SendMetrics ==
  /\ Driven /\ aggregator.pc = "collected"
  /\ Send(aggregator.snapshot)
  /\ aggregator' = [aggregator EXCEPT !.pc = "waiting"]
  /\ UNCHANGED <<config, runtime, guard, recorded, atDrop, useVars>>

\* The loop of UseMetrics, each of whose reports is an event.
Polling ==
  \/ /\ Driven /\ (FirstTick \/ Tick)
     /\ UNCHANGED <<pipeVars, hostVars>>
  \/ /\ TimePasses /\ config.use
     /\ UNCHANGED <<pipeVars, hostVars>>
  \/ /\ Driven
     /\ \E succeeds \in BOOLEAN :
          /\ ReadCpu(succeeds)
          /\ IF reports' # reports THEN Log ELSE UNCHANGED <<pipeVars, contents>>
     /\ UNCHANGED <<config, runtime, guard, recorded, aggregator, atDrop>>
  \/ /\ Driven /\ ReadMemory
     /\ \E succeeds \in BOOLEAN :
          IF succeeds THEN Log ELSE UNCHANGED <<pipeVars, contents>>
     /\ UNCHANGED <<config, runtime, guard, recorded, aggregator, atDrop>>

-----------------------------------------------------------------------------
(***************************************************************************)
(* TelemetryGuard::drop.                                                   *)
(***************************************************************************)

\* Without an exporter there is nothing to do.  A task may not block on another
\* runtime, which panics; where none can be built the guard goes in silence.
DropGuard(place) ==
  /\ guard = "held"
  /\ place = "task" => Driven
  /\ atDrop' = [offered |-> offered, recorded |-> recorded]
  /\ \/ ~Exporting /\ guard' = "gone" /\ UNCHANGED state
     \/ Exporting /\ place = "task" /\ guard' = "panicked" /\ UNCHANGED state
     \/ Exporting /\ guard' = "skipped" /\ UNCHANGED state
     \/ Exporting /\ place = "thread" /\ guard' = "flushing" /\ Pipe!Begin("flush")
  /\ UNCHANGED <<fate, offered, before, phase, config, runtime, recorded, aggregator, contents, useVars>>

\* The guard's own runtime takes its call's place in the queue.
CommitCall ==
  /\ \E c \in {"flush", "shutdown"} : Pipe!Commit(c)
  /\ UNCHANGED <<hostVars, useVars>>

\* Mutant: shutdown() is called while the flush is still under way.
FlushReturnsEarly ==
  /\ guard = "flushing" /\ state["flush"] # "started"
  /\ guard' = "closing" /\ Pipe!Begin("shutdown")
  /\ UNCHANGED <<config, runtime, recorded, aggregator, contents, atDrop, useVars>>

\* Mutant: a flush that was not acknowledged is waited for.
FlushReturnsAcknowledged ==
  /\ guard = "flushing" /\ state["flush"] = "done"
  /\ guard' = "closing" /\ Pipe!Begin("shutdown")
  /\ UNCHANGED <<config, runtime, recorded, aggregator, contents, atDrop, useVars>>

FlushReturns ==
  /\ guard = "flushing" /\ state["flush"] \in {"done", "aborted"}
  /\ guard' = "closing" /\ Pipe!Begin("shutdown")
  /\ UNCHANGED <<config, runtime, recorded, aggregator, contents, atDrop, useVars>>

\* shutdown() returns when it is queued: what it drains, nobody waits for.
ShutdownReturns ==
  /\ guard = "closing" /\ state["shutdown"] \in {"done", "aborted"}
  /\ guard' = "gone"
  /\ UNCHANGED <<pipeVars, config, runtime, recorded, aggregator, contents, atDrop, useVars>>

-----------------------------------------------------------------------------
(***************************************************************************)
(* The exporter and its runtime.                                           *)
(***************************************************************************)

\* The layer and the metrics task keep their handles: only a shutdown stops it.
Serve ==
  /\ Driven
  /\ Pipe!Settle \/ Pipe!Acknowledge("flush") \/ (state["shutdown"] = "done" /\ Pipe!Stop)
  /\ UNCHANGED <<hostVars, useVars>>

\* The program leaves block_on, and its only thread drives the runtime no more.
LeaveRuntime ==
  /\ guard # "none" /\ Driven /\ runtime.flavour = "current_thread"
  /\ runtime' = [runtime EXCEPT !.status = "idle"]
  /\ UNCHANGED <<pipeVars, config, guard, recorded, aggregator, contents, atDrop, useVars>>

\* The runtime is dropped, with the exporter and the loops in it.
DropRuntime ==
  /\ guard # "none" /\ runtime.status # "dropped"
  /\ runtime' = [runtime EXCEPT !.status = "dropped"]
  /\ IF phase = "open" THEN Pipe!Crash ELSE UNCHANGED pipeVars
  /\ UNCHANGED <<config, guard, recorded, aggregator, contents, atDrop, useVars>>

Next ==
  \/ InitCall \/ Emit \/ Measure \/ Collect \/ SendMetrics \/ Polling
  \/ \E place \in Places : DropGuard(place)
  \/ CommitCall \/ FlushReturns \/ ShutdownReturns
  \/ Serve \/ LeaveRuntime \/ DropRuntime

\* The exporter serves as Exporter's fairness makes it, while it is driven; the
\* guard's own runtime polls its calls.
Fairness ==
  /\ WF_vars(Driven /\ Serve) /\ WF_vars(Driven /\ CommitCall)
  /\ WF_vars(FlushReturns) /\ WF_vars(ShutdownReturns)

Spec == Init /\ [][Next]_vars /\ Fairness

-----------------------------------------------------------------------------
\* The guard makes its two calls one after the other, and a snapshot has no more
\* measurements than there are.
TypeOK ==
  /\ UseTypeOK /\ config \in Configs
  /\ runtime \in [flavour : Flavours, status : {"driven", "idle", "dropped"}]
  /\ guard \in {"none", "held", "flushing", "closing", "gone", "panicked", "skipped"}
  /\ state["shutdown"] # "idle" => state["flush"] \in {"done", "aborted"}
  /\ state["flush"] # "idle" => guard \in {"flushing", "closing", "gone"}
  /\ aggregator.pc \in {"none", "waiting", "collected"} /\ aggregator.snapshot <= recorded
  /\ \A n \in 1..MaxSends : contents[n] # 0 => n <= offered /\ config.metrics

\* src/lib.rs:71-84: once the guard has flushed and gone, every span, log and
\* snapshot sent before its drop is exported, or was given up or refused; only the
\* end of the runtime under it may take them away.
DropFlushes ==
  guard = "gone" /\ phase # "crashed" => Pipe!SettledUpTo(atDrop.offered)

\* src/lib.rs:78: the drop of the guard ends, whether the exporter answers or its
\* runtime goes away; it hangs only where nobody drives the runtime any more.
DropReturns == guard \in {"flushing", "closing"} ~> guard = "gone" \/ runtime.status = "idle"

\* src/lib.rs:64 says "Guard that flushes pending telemetry on drop".  What is
\* recorded after the last tick of the metrics task is collected by nobody.
GuardFlushesPending ==
  guard = "gone" /\ config.metrics /\ phase # "crashed" =>
    \/ atDrop.recorded = 0
    \/ \E n \in 1..MaxSends : fate[n] # "unsent" /\ contents[n] >= atDrop.recorded

=============================================================================
