------------------------------ MODULE Exporter ------------------------------
(***************************************************************************)
(* The exporter of src/exporter.rs: the handle that any thread sends       *)
(* encoded telemetry through (send_traces, send_logs, send_metrics, flush, *)
(* shutdown), the bounded tokio channel behind it, the background task     *)
(* that batches per signal (exporter_loop), and the tasks that POST a      *)
(* batch under a semaphore, with retries (flush_batch, post_with_retry).   *)
(*                                                                         *)
(* A telemetry message is the number of the call that offered it: call n   *)
(* of the three send functions offers message n.  The payload bytes are    *)
(* left out; a payload is the sequence of the messages concatenated in it. *)
(* Each element of Flushers and of Closers is one call of flush() and of   *)
(* shutdown().                                                             *)
(***************************************************************************)
EXTENDS Naturals, Sequences, FiniteSets, Functions

CONSTANTS
  Flushers,       \* the calls of Exporter::flush
  Closers,        \* the calls of Exporter::shutdown
  Emitted,        \* the signals the program emits
  Urls,           \* the signals whose endpoint URL is configured
  Capacity,       \* channel_capacity
  BatchSize,      \* batch_size
  MaxConcurrent,  \* max_concurrent_exports
  MaxAttempts,    \* the length of RETRY_DELAYS
  MaxSends        \* bound: telemetry messages offered in a behaviour

Signals == {"traces", "logs", "metrics"}
Calls == Flushers \cup Closers

\* mpsc::channel panics on capacity 0, and a semaphore without permits would
\* block every export task; init passes 1024, 512 and 4.
ASSUME ExporterAssumption ==
  /\ IsFiniteSet(Flushers) /\ IsFiniteSet(Closers)
  /\ Flushers \cap Closers = {}
  /\ Emitted \subseteq Signals /\ Urls \subseteq Signals
  /\ Capacity \in Nat \ {0}
  /\ BatchSize \in Nat
  /\ MaxConcurrent \in Nat \ {0}
  /\ MaxAttempts \in Nat \ {0}
  /\ MaxSends \in Nat

NoCall == "none"

VARIABLES
  channel,    \* the messages queued in the channel
  slots,      \* free permits of the channel's capacity semaphore
  waiters,    \* the calls blocked in tx.send().await, first come first served
  handles,    \* some Exporter handle still exists
  call,       \* where each call of flush() or shutdown() is
  loop,       \* where exporter_loop is
  serving,    \* the flush whose oneshot the loop holds, while it joins
  batch,      \* trace_batch, log_batch and metrics_batch
  tasks,      \* every export task spawned so far, in order
  joinSet,    \* the tasks whose result the JoinSet still holds
  permits,    \* free permits of the export semaphore
  dropped,    \* DROPPED_TOTAL
  offers,     \* history: the signal and the outcome of each send
  mark,       \* history: the messages offered when a call's message was queued
  discarded,  \* history: messages cleared from a batch that has no URL
  lost        \* history: messages in the program's memory when its loop died

channelVars == <<channel, slots, waiters>>
loopVars == <<loop, serving>>
exportVars == <<tasks, joinSet, permits>>
history == <<offers, mark, discarded, lost>>
vars == <<channelVars, handles, call, loopVars, batch, exportVars, dropped, history>>

(***************************************************************************)
(* ExportMessage: Traces, Logs and Metrics carry a telemetry message,      *)
(* Flush the oneshot of its caller; a Shutdown carries nothing, the call   *)
(* that queued it is kept for the history.                                 *)
(***************************************************************************)
Data(s, n) == [kind |-> s, id |-> n]
Flush(c) == [kind |-> "flush", id |-> c]
Shutdown(c) == [kind |-> "shutdown", id |-> c]
Message(c) == IF c \in Flushers THEN Flush(c) ELSE Shutdown(c)

ExportMessage ==
  [kind : Signals, id : 1..MaxSends]
    \cup [kind : {"flush"}, id : Flushers] \cup [kind : {"shutdown"}, id : Closers]

Task == [signal : Signals, payload : Seq(1..MaxSends),
         pc : {"queued", "posting", "backoff", "exported", "abandoned", "cancelled"},
         failures : 0..MaxAttempts, copies : Nat]

NoBatch == [s \in Signals |-> <<>>]

Finished(t) == tasks[t].pc \in {"exported", "abandoned", "cancelled"}
\* The tasks that hold a permit: it is kept across all the attempts and sleeps.
Holders == {t \in DOMAIN tasks : tasks[t].pc \in {"posting", "backoff"}}
Granted == {c \in Calls : call[c] = "granted"}

\* The receiver is dropped when exporter_loop returns or is cancelled.
Closed == loop \in {"ended", "cancelled"}

Init ==
  /\ channel = <<>> /\ slots = Capacity /\ waiters = <<>>
  /\ handles = TRUE
  /\ call = [c \in Calls |-> "idle"]
  /\ loop = "select" /\ serving = NoCall
  /\ batch = NoBatch
  /\ tasks = <<>> /\ joinSet = {} /\ permits = MaxConcurrent
  /\ dropped = 0
  /\ offers = <<>> /\ mark = [c \in Calls |-> 0] /\ discarded = {} /\ lost = {}

-----------------------------------------------------------------------------
(***************************************************************************)
(* The handle: calls from any thread.                                      *)
(***************************************************************************)

\* send_traces, send_logs, send_metrics: try_send never waits, and a message
\* it refuses is counted, whether the channel is full or closed.
Send(s) ==
  /\ handles /\ Len(offers) < MaxSends
  /\ LET outcome == IF Closed THEN "closed" ELSE IF slots = 0 THEN "full" ELSE "accepted"
     IN  /\ offers' = Append(offers, [signal |-> s, outcome |-> outcome])
         /\ IF outcome = "accepted"
              THEN /\ channel' = Append(channel, Data(s, Len(offers) + 1))
                   /\ slots' = slots - 1
                   /\ UNCHANGED dropped
              ELSE /\ dropped' = dropped + 1
                   /\ UNCHANGED <<channel, slots>>
  /\ UNCHANGED <<waiters, handles, call, loopVars, batch, exportVars, mark, discarded, lost>>

\* flush() and shutdown() up to tx.send().await: the call takes a slot, or
\* waits in line for one, or finds the channel closed and returns.
Call(c) ==
  /\ handles /\ call[c] = "idle"
  /\ call' = [call EXCEPT ![c] = IF Closed THEN "aborted"
                                 ELSE IF slots > 0 THEN "granted" ELSE "blocked"]
  /\ slots' = IF ~Closed /\ slots > 0 THEN slots - 1 ELSE slots
  /\ waiters' = IF ~Closed /\ slots = 0 THEN Append(waiters, c) ELSE waiters
  /\ UNCHANGED <<channel, handles, loopVars, batch, exportVars, dropped, history>>

\* A call that owns a slot queues its message.  shutdown() returns; flush()
\* goes on to await its oneshot.
Enqueue(c) ==
  /\ call[c] = "granted" /\ ~Closed
  /\ channel' = Append(channel, Message(c))
  /\ call' = [call EXCEPT ![c] = IF c \in Flushers THEN "queued" ELSE "done"]
  /\ mark' = [mark EXCEPT ![c] = Len(offers)]
  /\ UNCHANGED <<slots, waiters, handles, loopVars, batch, exportVars, dropped, offers,
                 discarded, lost>>

\* The last clone of the handle goes away; a call in progress borrows one.
DropHandles ==
  /\ handles /\ \A c \in Calls : call[c] \in {"idle", "done", "aborted"}
  /\ handles' = FALSE
  /\ UNCHANGED <<channelVars, call, loopVars, batch, exportVars, dropped, history>>

-----------------------------------------------------------------------------
(***************************************************************************)
(* exporter_loop.                                                          *)
(***************************************************************************)

\* Mutants: a slot freed for a waiter is also returned to the pool; a freed
\* slot is never offered to the waiters.
PopFreesTwice ==
  /\ channel' = Tail(channel) /\ slots' = slots + 1
  /\ IF waiters = <<>> THEN UNCHANGED <<waiters, call>>
     ELSE call' = [call EXCEPT ![Head(waiters)] = "granted"] /\ waiters' = Tail(waiters)
PopForgetsWaiters ==
  channel' = Tail(channel) /\ slots' = slots + 1 /\ UNCHANGED <<waiters, call>>

\* rx.recv() pops a message; its slot goes to the first waiter, if any.
Pop ==
  /\ channel' = Tail(channel)
  /\ IF waiters = <<>>
       THEN /\ slots' = slots + 1
            /\ UNCHANGED <<waiters, call>>
       ELSE /\ call' = [call EXCEPT ![Head(waiters)] = "granted"]
            /\ waiters' = Tail(waiters)
            /\ UNCHANGED slots

\* flush_batch(): a batch that is not empty becomes an export task, or is
\* cleared when its signal has no URL.
FlushBatch(s, messages) ==
  IF messages = <<>> \/ s \notin Urls THEN <<>>
  ELSE <<[signal |-> s, payload |-> messages, pc |-> "queued", failures |-> 0, copies |-> 0]>>

Cleared(s, messages) == IF s \in Urls THEN {} ELSE Range(messages)

\* Mutant: one message too many fits in a batch.
FullLate(messages) == Len(messages) > BatchSize

Full(messages) == Len(messages) >= BatchSize

\* The reaping at the end of every iteration: finished tasks leave the JoinSet.
Spawn(new) ==
  /\ tasks' = tasks \o new
  /\ joinSet' = {t \in joinSet : ~Finished(t)} \cup (Len(tasks) + 1)..(Len(tasks) + Len(new))

NewTasks ==
  FlushBatch("traces", batch["traces"]) \o FlushBatch("logs", batch["logs"])
    \o FlushBatch("metrics", batch["metrics"])

\* Mutants: the batches are copied into the payloads and not drained; two
\* signals are flushed to each other's URL.
FlushAllKeepsBatch ==
  batch' = batch /\ Spawn(NewTasks) /\ UNCHANGED discarded
FlushAllCrossed ==
  /\ batch' = NoBatch
  /\ Spawn(FlushBatch("traces", batch["logs"]) \o FlushBatch("logs", batch["traces"]))
  /\ UNCHANGED discarded

\* The three calls of flush_batch made by a flush, a shutdown and a tick.
FlushAll ==
  /\ batch' = NoBatch
  /\ Spawn(NewTasks)
  /\ discarded' = discarded \cup UNION {Cleared(s, batch[s]) : s \in Signals}

RecvData ==
  /\ loop = "select" /\ channel # <<>> /\ Head(channel).kind \in Signals
  /\ Pop
  /\ LET s == Head(channel).kind
         messages == Append(batch[s], Head(channel).id)
     IN  IF Full(messages)
           THEN /\ batch' = [batch EXCEPT ![s] = <<>>]
                /\ Spawn(FlushBatch(s, messages))
                /\ discarded' = discarded \cup Cleared(s, messages)
           ELSE /\ batch' = [batch EXCEPT ![s] = messages]
                /\ Spawn(<<>>)
                /\ UNCHANGED discarded
  /\ UNCHANGED <<handles, loopVars, permits, dropped, offers, mark, lost>>

RecvFlush ==
  /\ loop = "select" /\ channel # <<>> /\ Head(channel).kind = "flush"
  /\ Pop /\ FlushAll
  /\ loop' = "flushing" /\ serving' = Head(channel).id
  /\ UNCHANGED <<handles, permits, dropped, offers, mark, lost>>

\* Mutant: a shutdown stops without flushing the batches.
RecvShutdownNoFlush ==
  /\ loop = "select" /\ channel # <<>> /\ Head(channel).kind = "shutdown" /\ Pop
  /\ loop' = "stopping"
  /\ UNCHANGED <<handles, serving, batch, exportVars, dropped, history>>

\* A Shutdown message, or None: every handle is gone and the queue is empty.
RecvShutdown ==
  /\ loop = "select"
  /\ \/ channel # <<>> /\ Head(channel).kind = "shutdown" /\ Pop
     \/ channel = <<>> /\ ~handles /\ UNCHANGED <<channelVars, call>>
  /\ FlushAll
  /\ loop' = "stopping"
  /\ UNCHANGED <<handles, serving, permits, dropped, offers, mark, lost>>

\* Mutant: the interval flushes traces and metrics, and forgets the logs.
TickNoLogs ==
  /\ loop = "select" /\ channel = <<>> /\ handles
  /\ batch' = [NoBatch EXCEPT !["logs"] = batch["logs"]]
  /\ Spawn(FlushBatch("traces", batch["traces"]) \o FlushBatch("metrics", batch["metrics"]))
  /\ UNCHANGED <<channelVars, handles, call, loopVars, permits, dropped, history>>

\* The select is biased: the interval is polled only after recv() found the
\* queue empty.  (A message sent between the two polls waits for the next
\* iteration: the tick commutes with the send.)
Tick ==
  /\ loop = "select" /\ channel = <<>> /\ handles
  /\ FlushAll
  /\ UNCHANGED <<channelVars, handles, call, loopVars, permits, dropped, offers, mark, lost>>

\* Mutant: exports in flight are not waited for.
JoinSkipped == TRUE

\* `while join_set.join_next().await.is_some() {}` has drained the JoinSet.
Joined == \A t \in joinSet : Finished(t)

FlushDone ==
  /\ loop = "flushing" /\ Joined
  /\ joinSet' = {}
  /\ call' = [call EXCEPT ![serving] = "done"]
  /\ loop' = "select" /\ serving' = NoCall
  /\ UNCHANGED <<channelVars, handles, batch, tasks, permits, dropped, history>>

\* The telemetry messages in the channel, and in the batches.
Queued == {channel[k].id : k \in {j \in DOMAIN channel : channel[j].kind \in Signals}}
InBatch == UNION {Range(batch[s]) : s \in Signals}

\* What the loop and its channel own is freed.
Free ==
  /\ channel' = <<>> /\ waiters' = <<>> /\ slots' = Capacity
  /\ batch' = NoBatch /\ joinSet' = {} /\ serving' = NoCall
  /\ lost' = lost \cup Queued \cup InBatch

Return(c) == IF call[c] \in {"blocked", "granted", "queued"} THEN "aborted" ELSE call[c]

\* Mutant: the oneshot of a queued flush outlives the queue.
CloseKeepsOneshots ==
  Free /\ call' = [c \in Calls |-> IF call[c] = "queued" THEN "queued" ELSE Return(c)]

\* Dropping the receiver closes the channel: calls waiting for a slot get an
\* error, queued messages are freed, and with them the oneshots of queued
\* flushes, whose callers return.
Close == Free /\ call' = [c \in Calls |-> Return(c)]

\* The `break` after a Shutdown.
LoopEnd ==
  /\ loop = "stopping" /\ Joined
  /\ loop' = "ended"
  /\ Close
  /\ UNCHANGED <<handles, tasks, permits, dropped, offers, mark, discarded>>

\* The tokio runtime that init() spawned the loop on is dropped: the task is
\* cancelled at its await point and the JoinSet aborts the export tasks.
RuntimeDropped ==
  /\ ~Closed
  /\ loop' = "cancelled"
  /\ Close
  /\ tasks' = [t \in DOMAIN tasks |->
                 IF Finished(t) THEN tasks[t] ELSE [tasks[t] EXCEPT !.pc = "cancelled"]]
  /\ permits' = MaxConcurrent
  /\ UNCHANGED <<handles, dropped, offers, mark, discarded>>

-----------------------------------------------------------------------------
(***************************************************************************)
(* Export tasks: a permit for the whole of post_with_retry.                *)
(***************************************************************************)

Acquire(t) ==
  /\ tasks[t].pc = "queued" /\ permits > 0
  /\ permits' = permits - 1
  /\ tasks' = [tasks EXCEPT ![t].pc = "posting"]
  /\ UNCHANGED <<channelVars, handles, call, loopVars, batch, joinSet, dropped, history>>

\* A 2xx answer: the task returns and its permit is released.
PostOk(t) ==
  /\ tasks[t].pc = "posting"
  /\ tasks' = [tasks EXCEPT ![t].pc = "exported", ![t].copies = @ + 1]
  /\ permits' = permits + 1
  /\ UNCHANGED <<channelVars, handles, call, loopVars, batch, joinSet, dropped, history>>

\* Any other answer, an error or the client's 10 s timeout.  The collector may
\* have taken the payload all the same (the answer was lost or came late).
PostFailed(t) ==
  /\ tasks[t].pc = "posting"
  /\ \E taken \in {0, 1} :
       tasks' = [tasks EXCEPT ![t].pc = "backoff", ![t].failures = @ + 1,
                              ![t].copies = @ + taken]
  /\ UNCHANGED <<channelVars, handles, call, loopVars, batch, joinSet, permits, dropped, history>>

\* Mutants: one attempt too many; the batch is given up and its permit kept.
BackoffEndOneMore(t) ==
  /\ tasks[t].pc = "backoff"
  /\ IF tasks[t].failures <= MaxAttempts
       THEN tasks' = [tasks EXCEPT ![t].pc = "posting"] /\ UNCHANGED permits
       ELSE tasks' = [tasks EXCEPT ![t].pc = "abandoned"] /\ permits' = permits + 1
  /\ UNCHANGED <<channelVars, handles, call, loopVars, batch, joinSet, dropped, history>>
BackoffEndKeepsPermit(t) ==
  /\ tasks[t].pc = "backoff"
  /\ tasks' = [tasks EXCEPT ![t].pc =
                 IF tasks[t].failures < MaxAttempts THEN "posting" ELSE "abandoned"]
  /\ UNCHANGED <<channelVars, handles, call, loopVars, batch, joinSet, permits, dropped, history>>

\* The sleep follows every failure, the last one too; then the batch is dropped.
BackoffEnd(t) ==
  /\ tasks[t].pc = "backoff"
  /\ IF tasks[t].failures < MaxAttempts
       THEN /\ tasks' = [tasks EXCEPT ![t].pc = "posting"]
            /\ UNCHANGED permits
       ELSE /\ tasks' = [tasks EXCEPT ![t].pc = "abandoned"]
            /\ permits' = permits + 1
  /\ UNCHANGED <<channelVars, handles, call, loopVars, batch, joinSet, dropped, history>>

-----------------------------------------------------------------------------
\* The loop has ended and nobody will use a handle again: the program is over.
Terminated ==
  /\ Closed /\ (handles => Len(offers) = MaxSends)
  /\ \A c \in Calls : call[c] \in {"idle", "done", "aborted"}
  /\ UNCHANGED vars

LoopStep ==
  \/ RecvData \/ RecvFlush \/ RecvShutdown \/ Tick \/ FlushDone \/ LoopEnd

TaskStep(t) == Acquire(t) \/ PostOk(t) \/ PostFailed(t) \/ BackoffEnd(t)

Next ==
  \/ \E s \in Emitted : Send(s)
  \/ \E c \in Calls : Call(c) \/ Enqueue(c)
  \/ DropHandles
  \/ LoopStep
  \/ RuntimeDropped
  \/ \E t \in DOMAIN tasks : TaskStep(t)
  \/ Terminated

Spec == Init /\ [][Next]_vars

(***************************************************************************)
(* The loop and the export tasks are tokio tasks: a task that is ready is  *)
(* polled again.  A POST ends because the client has a 10 s timeout, a     *)
(* sleep because time passes, and the interval ticks.  A call that owns a  *)
(* slot is polled by its own runtime.  Nobody has to send, flush, shut     *)
(* down or drop anything.                                                  *)
(***************************************************************************)
Fairness ==
  /\ WF_vars(LoopStep)
  /\ \A c \in Calls : WF_vars(Enqueue(c))
  /\ \A t \in 1..MaxSends : WF_vars(t \in DOMAIN tasks /\ TaskStep(t))

FairSpec == Spec /\ Fairness

-----------------------------------------------------------------------------
\* Every variable has the type of the Rust value or history it stands for.
TypeOK ==
  /\ channel \in Seq(ExportMessage) /\ slots \in Nat /\ waiters \in Seq(Calls)
  /\ handles \in BOOLEAN
  /\ call \in [Calls -> {"idle", "blocked", "granted", "queued", "done", "aborted"}]
  /\ loop \in {"select", "flushing", "stopping", "ended", "cancelled"}
  /\ serving \in Flushers \cup {NoCall}
  /\ loop = "flushing" => serving \in Flushers
  /\ batch \in [Signals -> Seq(1..MaxSends)]
  /\ tasks \in Seq(Task) /\ joinSet \subseteq DOMAIN tasks /\ permits \in Nat
  /\ dropped \in Nat
  /\ offers \in Seq([signal : Signals, outcome : {"accepted", "full", "closed"}])
  /\ Len(offers) <= MaxSends
  /\ mark \in [Calls -> 0..MaxSends]
  /\ discarded \subseteq 1..MaxSends /\ lost \subseteq 1..MaxSends

Accepted == {n \in DOMAIN offers : offers[n].outcome = "accepted"}
InTasks == UNION {Range(tasks[t].payload) : t \in DOMAIN tasks}

\* The exporter has done all it will ever do for message n: its batch was
\* exported or given up after the retries, or its signal has no URL.
Settled(n) ==
  \/ n \in discarded
  \/ \E t \in DOMAIN tasks :
       n \in Range(tasks[t].payload) /\ tasks[t].pc \in {"exported", "abandoned"}

\* Every free slot, queued message and granted call is a slot of the channel:
\* the queue never outgrows its capacity, and no slot idles while a call waits.
SlotsConserved ==
  ~Closed =>
    /\ slots + Len(channel) + Cardinality(Granted) = Capacity
    /\ waiters # <<>> => slots = 0

\* At most MaxConcurrent batches are being posted or retried, and a permit is
\* never leaked, whichever way an export ends.
ConcurrencyLimit == permits + Cardinality(Holders) = MaxConcurrent

\* A message try_send accepted is in exactly one place (the queue, a batch, one
\* payload of one task, or a history set) and one it refused is in none and
\* is counted in DROPPED_TOTAL.
MessagesConserved ==
  /\ Accepted = Queued \cup InBatch \cup InTasks \cup discarded \cup lost
  /\ Queued \cap InBatch = {} /\ (Queued \cup InBatch) \cap InTasks = {}
  /\ (Queued \cup InBatch \cup InTasks) \cap discarded = {}
  /\ (Queued \cup InBatch \cup InTasks \cup discarded) \cap lost = {}
  /\ dropped = Cardinality(DOMAIN offers \ Accepted)

Increasing(s) == \A j, k \in DOMAIN s : j < k => s[j] < s[k]
Before(a, b) == \A m \in a, n \in b : m < n

\* Each signal keeps its own order from the channel through its batch into the
\* payloads, no message is posted to another signal's endpoint, and none twice.
PayloadsInOrder ==
  /\ Before(InBatch, Queued)
  /\ \A s \in Signals :
       /\ Increasing(batch[s])
       /\ \A n \in Range(batch[s]) : offers[n].signal = s
  /\ \A t \in DOMAIN tasks :
       LET s == tasks[t].signal IN
       /\ s \in Urls /\ Increasing(tasks[t].payload)
       /\ \A n \in Range(tasks[t].payload) : offers[n].signal = s
       /\ Before(Range(tasks[t].payload), Range(batch[s]))
       /\ \A u \in DOMAIN tasks :
            t < u /\ tasks[u].signal = s => Before(Range(tasks[t].payload), Range(tasks[u].payload))

\* Between two iterations no batch has reached batch_size, and a payload holds
\* at least one message and at most batch_size of them.
BatchBelowSize ==
  /\ \A s \in Signals : batch[s] = <<>> \/ Len(batch[s]) < BatchSize
  /\ \A t \in DOMAIN tasks :
       LET n == Len(tasks[t].payload) IN n > 0 /\ (n = 1 \/ n <= BatchSize)

\* When a flush is acknowledged, every message accepted before its Flush was
\* queued is settled, whatever was sent, flushed or retried in between.
FlushBarrier ==
  \A c \in Flushers : call[c] = "done" =>
    \A n \in Accepted : n <= mark[c] => Settled(n)

\* A graceful stop drains: a message is lost only when it was accepted after
\* a Shutdown had been queued, or with the whole runtime.
ShutdownDrains ==
  loop # "cancelled" =>
    \A n \in lost : \E c \in Closers : call[c] = "done" /\ mark[c] < n

RetryOK(task) ==
  /\ task.pc = "abandoned" => task.failures = MaxAttempts
  /\ task.pc \in {"queued", "posting", "exported"} => task.failures < MaxAttempts
  /\ task.pc = "exported" => task.copies > 0
  /\ task.copies <= task.failures + (IF task.pc = "exported" THEN 1 ELSE 0)

\* A batch is given up after exactly MaxAttempts failures, an exported one was
\* taken by the collector, and a duplicate copy needs a failed attempt.
RetriesBounded == \A t \in DOMAIN tasks : RetryOK(tasks[t])

\* Once the loop is over nothing of it is still running: no export task takes
\* another step and no message changes place.
QuietAfterEnd == [][Closed => UNCHANGED <<tasks, batch, discarded, lost>>]_vars

InState(S) == UNION {Range(tasks[t].payload) : t \in {u \in DOMAIN tasks : tasks[u].pc \in S}}

\* verification/README.md:30 says that "dropped + in_channel + in_batch + in_flight
\* + exported = total_sent".  The code counts no batch it gives up after the last
\* retry, or clears for want of a URL, and no message in its queue when it stops.
DataConservation ==
  loop # "cancelled" =>
    dropped + Cardinality(Queued) + Cardinality(InBatch)
      + Cardinality(InState({"queued", "posting", "backoff"}))
      + Cardinality(InState({"exported"})) = Len(offers)

\* Every flush() that was called returns, also when the loop ends, the runtime
\* goes away, or the channel is full when it is called.
FlushReturns ==
  \A c \in Flushers : call[c] # "idle" ~> call[c] \in {"done", "aborted"}

\* A shutdown() that queued its message ends the loop.
ShutdownTerminates == \A c \in Closers : call[c] # "idle" ~> Closed

\* Once nobody sends any more, everything accepted is settled or lost with the
\* loop: the interval empties a batch that never fills.  It is a claim about
\* traffic that stops, as it does here at MaxSends.  The select is biased: as
\* long as messages of one signal keep the queue from running empty the interval
\* does not fire, and the partial batch of another signal waits.
SettlesWhenQuiet ==
  <>[](loop = "cancelled" \/ \A n \in Accepted : Settled(n) \/ n \in lost)

=============================================================================
