--------------------------- MODULE ExporterProofs ---------------------------
(***************************************************************************)
(* Theorems about Exporter, for every value of its constants: its types,   *)
(* then the inductive invariant IInv of ExporterInv, and what it gives:    *)
(* the channel's slots are conserved, a flush is a barrier, and a graceful *)
(* stop drains.                                                            *)
(* Then what its users rely on: each message is in one place, and each     *)
(* signal's messages are posted in the order of the sends, in payloads of  *)
(* at most BatchSize; and the refinement: under the mapping of             *)
(* ExporterRefinement, and where IInv holds, each step of the exporter is  *)
(* a step of TelemetryPipe or leaves it as it is.                          *)
(***************************************************************************)
EXTENDS ExporterInv, ExporterRefinement, TLAPS, FiniteSetTheorems, SequenceTheorems

-----------------------------------------------------------------------------
(***************************************************************************)
(* Typing.  TypeOK alone is not inductive: that an attempt never follows   *)
(* the last one (RetriesBounded) keeps the failure count in its range.     *)
(***************************************************************************)


\* The elements of a sequence are in the set it is over.
LEMMA SeqElements ==
  ASSUME NEW S, NEW m \in Seq(S)
  PROVE  /\ Len(m) \in Nat /\ DOMAIN m = 1..Len(m)
         /\ \A k \in DOMAIN m : m[k] \in S
         /\ Range(m) \subseteq S
  <1>1. Len(m) \in Nat /\ DOMAIN m = 1..Len(m)
    BY LenProperties
  <1>2. \A k \in DOMAIN m : m[k] \in S
    BY <1>1, ElementOfSeq
  <1> QED BY <1>1, <1>2 DEF Range

\* A task as flush_batch spawns it: nothing tried yet, and a URL to go to.
Fresh == {t \in Task : /\ t.signal \in Urls /\ t.pc = "queued"
                       /\ t.failures = 0 /\ t.copies = 0}

\* flush_batch yields at most one task, for the whole of its batch.
LEMMA FlushBatchType ==
  ASSUME NEW s \in Signals, NEW m \in Seq(1..MaxSends)
  PROVE  FlushBatch(s, m) \in Seq(Fresh)
  <1>1. CASE m = <<>> \/ s \notin Urls
    BY <1>1 DEF FlushBatch
  <1>2. CASE ~(m = <<>> \/ s \notin Urls)
    <2> DEFINE t == [signal |-> s, payload |-> m, pc |-> "queued", failures |-> 0, copies |-> 0]
    <2>1. t \in Fresh
      BY <1>2, ExporterAssumption DEF Task, Fresh
    <2>2. FlushBatch(s, m) = <<t>>
      BY <1>2 DEF FlushBatch
    <2> QED BY <2>1, <2>2
  <1> QED BY <1>1, <1>2

LEMMA ClearedType ==
  ASSUME NEW s \in Signals, NEW m \in Seq(1..MaxSends)
  PROVE  Cleared(s, m) \subseteq 1..MaxSends
  BY SeqElements DEF Cleared

LEMMA NewTasksType ==
  ASSUME batch \in [Signals -> Seq(1..MaxSends)]
  PROVE  NewTasks \in Seq(Fresh)
  <1>1. /\ FlushBatch("traces", batch["traces"]) \in Seq(Fresh)
        /\ FlushBatch("logs", batch["logs"]) \in Seq(Fresh)
        /\ FlushBatch("metrics", batch["metrics"]) \in Seq(Fresh)
    BY FlushBatchType DEF Signals
  <1> QED BY <1>1, ConcatProperties DEF NewTasks

\* Spawning appends the new tasks and leaves the old ones as they are.
LEMMA SpawnType ==
  ASSUME tasks \in Seq(Task), joinSet \subseteq DOMAIN tasks,
         NEW new \in Seq(Fresh), Spawn(new)
  PROVE  /\ tasks' \in Seq(Task) /\ joinSet' \subseteq DOMAIN tasks'
         /\ DOMAIN tasks \subseteq DOMAIN tasks'
         /\ \A t \in DOMAIN tasks' :
              IF t \in DOMAIN tasks THEN tasks'[t] = tasks[t] ELSE tasks'[t] \in Fresh
  <1> DEFINE l == Len(tasks)
  <1>1. /\ l \in Nat /\ DOMAIN tasks = 1..l
        /\ Len(new) \in Nat /\ \A k \in 1..Len(new) : new[k] \in Fresh
    BY SeqElements
  <1>2. new \in Seq(Task)
    BY DEF Fresh
  <1>3. /\ tasks' \in Seq(Task) /\ Len(tasks') = l + Len(new)
        /\ \A t \in 1..(l + Len(new)) : tasks'[t] = IF t <= l THEN tasks[t] ELSE new[t - l]
    BY <1>2, ConcatProperties DEF Spawn
  <1>4. DOMAIN tasks' = 1..(l + Len(new))
    BY <1>3, SeqElements
  <1>5. joinSet' \subseteq joinSet \cup (l + 1)..(l + Len(new))
    BY DEF Spawn
  <1>6. ASSUME NEW t \in DOMAIN tasks'
        PROVE  IF t \in DOMAIN tasks THEN tasks'[t] = tasks[t] ELSE tasks'[t] \in Fresh
    <2>1. CASE t \in 1..l
      BY <1>1, <1>3, <2>1
    <2>2. CASE t \notin 1..l
      <3>1. t - l \in 1..Len(new) /\ ~(t <= l)
        BY <1>1, <1>4, <2>2
      <3> QED BY <1>1, <1>3, <1>4, <2>2, <3>1
    <2> QED BY <2>1, <2>2
  <1> QED BY <1>1, <1>3, <1>4, <1>5, <1>6

LEMMA PopType ==
  ASSUME TypeOK, channel # <<>>, Pop
  PROVE  /\ channel' \in Seq(ExportMessage) /\ slots' \in Nat /\ waiters' \in Seq(Calls)
         /\ call' \in [Calls -> {"idle", "blocked", "granted", "queued", "done", "aborted"}]
         /\ Head(channel) \in ExportMessage
  <1>1. Head(channel) \in ExportMessage /\ Tail(channel) \in Seq(ExportMessage)
    BY HeadTailProperties DEF TypeOK
  <1>2. CASE waiters = <<>>
    BY <1>1, <1>2 DEF Pop, TypeOK
  <1>3. CASE waiters # <<>>
    <2>1. Head(waiters) \in Calls /\ Tail(waiters) \in Seq(Calls)
      BY <1>3, HeadTailProperties DEF TypeOK
    <2> QED BY <1>1, <1>3, <2>1 DEF Pop, TypeOK
  <1> QED BY <1>2, <1>3

LEMMA MessageType ==
  ASSUME NEW m \in ExportMessage
  PROVE  /\ m.kind \in Signals => m.id \in 1..MaxSends
         /\ m.kind = "flush" => m.id \in Flushers
         /\ m.kind = "shutdown" => m.id \in Closers
  BY DEF ExportMessage, Signals

LEMMA FlushAllType ==
  ASSUME TypeOK, FlushAll
  PROVE  /\ batch' \in [Signals -> Seq(1..MaxSends)]
         /\ discarded' \subseteq 1..MaxSends
         /\ tasks' \in Seq(Task) /\ joinSet' \subseteq DOMAIN tasks'
         /\ DOMAIN tasks \subseteq DOMAIN tasks'
         /\ \A t \in DOMAIN tasks' :
              IF t \in DOMAIN tasks THEN tasks'[t] = tasks[t] ELSE tasks'[t] \in Fresh
  <1>1. batch' \in [Signals -> Seq(1..MaxSends)]
    BY DEF FlushAll, NoBatch
  <1>2. NewTasks \in Seq(Fresh)
    BY NewTasksType DEF TypeOK
  <1>3. \A s \in Signals : Cleared(s, batch[s]) \subseteq 1..MaxSends
    BY ClearedType DEF TypeOK
  <1>4. discarded' \subseteq 1..MaxSends
    BY <1>3 DEF FlushAll, TypeOK
  <1> QED BY <1>1, <1>2, <1>4, SpawnType DEF FlushAll, TypeOK

\* What a step of the queue's receiver leaves to RetriesBounded.
LEMMA RetriesKept ==
  ASSUME RetriesBounded, DOMAIN tasks \subseteq DOMAIN tasks',
         \A t \in DOMAIN tasks' :
           IF t \in DOMAIN tasks THEN tasks'[t] = tasks[t] ELSE tasks'[t] \in Fresh
  PROVE  RetriesBounded'
  <1> SUFFICES ASSUME NEW t \in DOMAIN tasks'
               PROVE  RetryOK(tasks'[t])
    BY DEF RetriesBounded, RetryOK
  <1>1. CASE t \in DOMAIN tasks
    BY <1>1 DEF RetriesBounded
  <1>2. CASE t \notin DOMAIN tasks
    BY <1>2, ExporterAssumption DEF Fresh, RetryOK
  <1> QED BY <1>1, <1>2

\* An export task's own step: typing and retries together, since a failure
\* stays in range only because no attempt follows the last one.
LEMMA TaskStepType ==
  ASSUME TypeOK, RetriesBounded, NEW t \in DOMAIN tasks, TaskStep(t)
  PROVE  tasks' \in Seq(Task) /\ permits' \in Nat /\ RetriesBounded'
  <1>0. /\ tasks \in Seq(Task) /\ permits \in Nat /\ t \in 1..Len(tasks)
        /\ tasks[t] \in Task
    BY SeqElements DEF TypeOK
  <1> DEFINE old == tasks[t]
             new == tasks'[t]
  <1>1. old \in Task /\ RetryOK(old)
    BY <1>0 DEF RetriesBounded
  <1>2. tasks' = [tasks EXCEPT ![t] = new] /\ new \in Task /\ RetryOK(new) /\ permits' \in Nat
    <2>1. CASE Acquire(t)
      <3>1. tasks' = [tasks EXCEPT ![t] = [old EXCEPT !.pc = "posting"]]
        BY <2>1 DEF Acquire
      <3>2. new = [old EXCEPT !.pc = "posting"]
        BY <3>1, <1>0
      <3>3. old.pc = "queued" /\ permits' \in Nat
        BY <2>1, <1>0 DEF Acquire
      <3>4. /\ new \in Task /\ new.pc = "posting"
            /\ new.failures = old.failures /\ new.copies = old.copies
        BY <1>1, <3>2 DEF Task
      <3>5. RetryOK(new)
        BY <1>1, <3>3, <3>4 DEF RetryOK
      <3> QED BY <3>1, <3>2, <3>3, <3>4, <3>5
    <2>2. CASE PostOk(t)
      <3>1. tasks' = [tasks EXCEPT ![t] = [old EXCEPT !.pc = "exported", !.copies = @ + 1]]
        BY <2>2 DEF PostOk
      <3>2. new = [old EXCEPT !.pc = "exported", !.copies = @ + 1]
        BY <3>1, <1>0
      <3>3. old.pc = "posting" /\ permits' \in Nat
        BY <2>2, <1>0 DEF PostOk
      <3>4. old.copies \in Nat /\ old.copies + 1 \in Nat
        BY <1>1 DEF Task
      <3>5. /\ new.pc = "exported"
            /\ new.failures = old.failures /\ new.copies = old.copies + 1
        BY <1>1, <3>2 DEF Task
      <3>6. new \in Task
        BY <1>1, <3>2, <3>4 DEF Task
      <3>7. RetryOK(new)
        BY <1>1, <3>3, <3>4, <3>5 DEF RetryOK, Task
      <3> QED BY <3>1, <3>2, <3>3, <3>6, <3>7
    <2>3. CASE PostFailed(t)
      <3>1. PICK taken \in {0, 1} :
              tasks' = [tasks EXCEPT ![t] = [old EXCEPT !.pc = "backoff", !.failures = @ + 1,
                                                        !.copies = @ + taken]]
        BY <2>3 DEF PostFailed
      <3>2. new = [old EXCEPT !.pc = "backoff", !.failures = @ + 1, !.copies = @ + taken]
        BY <3>1, <1>0
      <3>3. old.pc = "posting" /\ permits' \in Nat /\ old.failures < MaxAttempts
        BY <2>3, <1>0, <1>1 DEF PostFailed, RetryOK
      <3>4. /\ new.pc = "backoff"
            /\ new.failures = old.failures + 1 /\ new.copies = old.copies + taken
        BY <1>1, <3>2 DEF Task
      <3>5. /\ old.failures \in Nat /\ old.copies \in Nat /\ old.failures + 1 \in 0..MaxAttempts
            /\ old.copies + taken \in Nat
        BY <1>1, <3>3, ExporterAssumption DEF Task
      <3>6. new \in Task
        BY <1>1, <3>2, <3>5 DEF Task
      <3>7. RetryOK(new)
        BY <1>1, <3>3, <3>4, <3>5 DEF RetryOK
      <3> QED BY <3>1, <3>2, <3>3, <3>6, <3>7
    <2>4. CASE BackoffEnd(t)
      <3>1. old.pc = "backoff" /\ permits' \in Nat /\ old.failures \in 0..MaxAttempts
        BY <2>4, <1>0 DEF BackoffEnd, Task
      <3> DEFINE next == IF old.failures < MaxAttempts THEN "posting" ELSE "abandoned"
      <3>2. tasks' = [tasks EXCEPT ![t] = [old EXCEPT !.pc = next]]
        BY <2>4 DEF BackoffEnd
      <3>3. new = [old EXCEPT !.pc = next]
        BY <3>2, <1>0
      <3>4. /\ new \in Task /\ new.pc = next
            /\ new.failures = old.failures /\ new.copies = old.copies
        BY <1>1, <3>3 DEF Task
      <3>5. RetryOK(new)
        BY <1>1, <3>1, <3>4, ExporterAssumption DEF RetryOK
      <3> QED BY <3>1, <3>2, <3>3, <3>4, <3>5
    <2> QED BY <2>1, <2>2, <2>3, <2>4 DEF TaskStep
  <1>3. tasks' \in Seq(Task) /\ DOMAIN tasks' = DOMAIN tasks
    BY <1>0, <1>2, ExceptSeq
  <1>4. ASSUME NEW u \in DOMAIN tasks' PROVE RetryOK(tasks'[u])
    BY <1>0, <1>2, <1>3 DEF RetriesBounded
  <1>5. RetriesBounded'
    BY <1>4 DEF RetriesBounded, RetryOK
  <1> QED BY <1>2, <1>3, <1>5

LEMMA TypeInit == Init => TypeOK /\ RetriesBounded
  <1> SUFFICES ASSUME Init PROVE TypeOK /\ RetriesBounded
    OBVIOUS
  <1>1. batch \in [Signals -> Seq(1..MaxSends)] /\ DOMAIN tasks = {}
    BY DEF Init, NoBatch
  <1> QED BY <1>1, ExporterAssumption DEF Init, TypeOK, RetriesBounded

LEMMA TypeStep == TypeOK /\ RetriesBounded /\ [Next]_vars => TypeOK' /\ RetriesBounded'
  <1> SUFFICES ASSUME TypeOK, RetriesBounded, [Next]_vars
               PROVE  TypeOK' /\ RetriesBounded'
    OBVIOUS
  <1> USE DEF vars, channelVars, loopVars, exportVars, history
  <1>0. UNCHANGED tasks => RetriesBounded'
    BY DEF RetriesBounded
  <1>1. ASSUME NEW s \in Emitted, Send(s) PROVE TypeOK' /\ RetriesBounded'
    <2> DEFINE outcome == IF Closed THEN "closed" ELSE IF slots = 0 THEN "full" ELSE "accepted"
    <2>1. s \in Signals
      BY ExporterAssumption
    <2>2. /\ offers' \in Seq([signal : Signals, outcome : {"accepted", "full", "closed"}])
          /\ Len(offers') = Len(offers) + 1
      <3>1. [signal |-> s, outcome |-> outcome]
              \in [signal : Signals, outcome : {"accepted", "full", "closed"}]
        BY <2>1
      <3>2. offers' = Append(offers, [signal |-> s, outcome |-> outcome])
        BY <1>1 DEF Send
      <3> QED BY <3>1, <3>2, AppendProperties DEF TypeOK
    <2>3. Len(offers') \in 1..MaxSends
      BY <1>1, <2>2, ExporterAssumption, LenProperties DEF Send, TypeOK
    <2>4. CASE outcome = "accepted"
      <3>1. Data(s, Len(offers) + 1) \in ExportMessage
        BY <2>1, <2>2, <2>3 DEF Data, ExportMessage
      <3>2. slots' \in Nat
        BY <1>1, <2>4 DEF Send, TypeOK
      <3>3. channel' \in Seq(ExportMessage)
        <4>1. channel' = Append(channel, Data(s, Len(offers) + 1))
          BY <1>1, <2>4 DEF Send
        <4> QED BY <3>1, <4>1, AppendProperties DEF TypeOK
      <3>4. UNCHANGED <<waiters, handles, call, loop, serving, batch, tasks, joinSet, permits,
                        dropped, mark, discarded, lost>>
        BY <1>1, <2>4 DEF Send
      <3> QED BY <1>0, <2>2, <2>3, <3>2, <3>3, <3>4 DEF TypeOK
    <2>5. CASE outcome # "accepted"
      BY <1>0, <1>1, <2>2, <2>3, <2>5 DEF Send, TypeOK
    <2> QED BY <2>4, <2>5
  <1>2. ASSUME NEW c \in Calls, Call(c) PROVE TypeOK' /\ RetriesBounded'
    BY <1>0, <1>2 DEF Call, TypeOK
  <1>3. ASSUME NEW c \in Calls, Enqueue(c) PROVE TypeOK' /\ RetriesBounded'
    <2>1. Message(c) \in ExportMessage
      BY DEF Message, Flush, Shutdown, ExportMessage, Calls
    <2>2. Len(offers) \in 0..MaxSends
      BY ExporterAssumption, LenProperties DEF TypeOK
    <2> QED BY <1>0, <1>3, <2>1, <2>2 DEF Enqueue, TypeOK
  <1>4. CASE DropHandles
    BY <1>0, <1>4 DEF DropHandles, TypeOK
  <1>5. CASE RecvData
    <2>1. Head(channel).kind \in Signals /\ Head(channel).id \in 1..MaxSends
      BY <1>5, PopType, MessageType DEF RecvData
    <2>2. PICK s \in Signals, messages \in Seq(1..MaxSends) :
            s = Head(channel).kind /\ messages = Append(batch[s], Head(channel).id)
      BY <2>1, AppendProperties DEF TypeOK
    <2>3. FlushBatch(s, messages) \in Seq(Fresh) /\ Cleared(s, messages) \subseteq 1..MaxSends
          /\ <<>> \in Seq(Fresh)
      BY FlushBatchType, ClearedType
    <2>4. PICK new \in Seq(Fresh) : Spawn(new)
      BY <1>5, <2>2, <2>3 DEF RecvData
    <2>5. batch' \in [Signals -> Seq(1..MaxSends)] /\ discarded' \subseteq 1..MaxSends
      <3>1. \/ batch' = [batch EXCEPT ![s] = <<>>]
               /\ discarded' = discarded \cup Cleared(s, messages)
            \/ batch' = [batch EXCEPT ![s] = messages] /\ discarded' = discarded
        BY <1>5, <2>2 DEF RecvData
      <3>2. <<>> \in Seq(1..MaxSends)
        OBVIOUS
      <3> QED BY <2>3, <3>1, <3>2 DEF TypeOK
    <2>6. /\ tasks' \in Seq(Task) /\ joinSet' \subseteq DOMAIN tasks' /\ RetriesBounded'
      BY <2>4, SpawnType, RetriesKept DEF TypeOK
    <2> QED BY <1>5, <2>5, <2>6, PopType DEF RecvData, TypeOK
  <1>6. CASE RecvFlush
    <2>1. serving' \in Flushers
      BY <1>6, PopType, MessageType DEF RecvFlush
    <2> QED BY <1>6, <2>1, PopType, FlushAllType, RetriesKept DEF RecvFlush, TypeOK
  <1>7. CASE RecvShutdown
    <2>1. /\ channel' \in Seq(ExportMessage) /\ slots' \in Nat /\ waiters' \in Seq(Calls)
          /\ call' \in [Calls -> {"idle", "blocked", "granted", "queued", "done", "aborted"}]
      BY <1>7, PopType DEF RecvShutdown, TypeOK
    <2> QED BY <1>7, <2>1, FlushAllType, RetriesKept DEF RecvShutdown, TypeOK
  <1>8. CASE Tick
    BY <1>8, FlushAllType, RetriesKept DEF Tick, TypeOK
  <1>9. CASE FlushDone
    BY <1>0, <1>9 DEF FlushDone, TypeOK
  <1>10. ASSUME Close
         PROVE  /\ channel' \in Seq(ExportMessage) /\ slots' \in Nat /\ waiters' \in Seq(Calls)
                /\ call' \in [Calls -> {"idle", "blocked", "granted", "queued", "done", "aborted"}]
                /\ batch' \in [Signals -> Seq(1..MaxSends)] /\ joinSet' = {}
                /\ serving' = NoCall /\ lost' \subseteq 1..MaxSends
    <2>1. Queued \subseteq 1..MaxSends
      BY SeqElements, MessageType DEF Queued, TypeOK
    <2>2. InBatch \subseteq 1..MaxSends
      <3>1. \A s \in Signals : Range(batch[s]) \subseteq 1..MaxSends
        BY SeqElements DEF TypeOK
      <3> QED BY <3>1 DEF InBatch
    <2>3. call' \in [Calls -> {"idle", "blocked", "granted", "queued", "done", "aborted"}]
      BY <1>10 DEF Close, Return, TypeOK
    <2> QED BY <1>10, <2>1, <2>2, <2>3, ExporterAssumption DEF Close, Free, NoBatch, TypeOK
  <1>11. CASE LoopEnd
    BY <1>0, <1>10, <1>11 DEF LoopEnd, TypeOK
  <1>12. CASE RuntimeDropped
    <2>1. ASSUME NEW t \in DOMAIN tasks
          PROVE  tasks'[t] \in Task /\ RetryOK(tasks'[t])
      <3>1. tasks[t] \in Task /\ RetryOK(tasks[t])
        BY SeqElements DEF TypeOK, RetriesBounded
      <3>2. tasks'[t] = IF Finished(t) THEN tasks[t] ELSE [tasks[t] EXCEPT !.pc = "cancelled"]
        BY <1>12 DEF RuntimeDropped
      <3>3. CASE Finished(t)
        BY <3>1, <3>2, <3>3
      <3>4. CASE ~Finished(t)
        <4>1. /\ tasks'[t] \in Task /\ tasks'[t].pc = "cancelled"
              /\ tasks'[t].failures = tasks[t].failures /\ tasks'[t].copies = tasks[t].copies
          BY <3>1, <3>2, <3>4 DEF Task
        <4>2. tasks[t].pc # "exported"
          BY <3>4 DEF Finished
        <4> QED BY <3>1, <4>1, <4>2 DEF RetryOK
      <3> QED BY <3>3, <3>4
    <2>2. DOMAIN tasks = 1..Len(tasks) /\ Len(tasks) \in Nat /\ DOMAIN tasks' = DOMAIN tasks
      BY <1>12, LenProperties DEF RuntimeDropped, TypeOK
    <2>3. tasks' \in [1..Len(tasks) -> Task]
      BY <1>12, <2>1, <2>2 DEF RuntimeDropped
    <2>4. tasks' \in Seq(Task) /\ RetriesBounded'
      BY <2>1, <2>2, <2>3 DEF RetriesBounded, RetryOK
    <2> QED BY <1>10, <1>12, <2>4, ExporterAssumption DEF RuntimeDropped, TypeOK
  <1>13. ASSUME NEW t \in DOMAIN tasks, TaskStep(t) PROVE TypeOK' /\ RetriesBounded'
    <2>1. tasks' \in Seq(Task) /\ permits' \in Nat /\ RetriesBounded'
      BY <1>13, TaskStepType
    <2>2. UNCHANGED <<channelVars, handles, call, loopVars, batch, joinSet, dropped, history>>
      BY <1>13 DEF TaskStep, Acquire, PostOk, PostFailed, BackoffEnd
    <2>3. DOMAIN tasks' = DOMAIN tasks
      BY <1>13 DEF TaskStep, Acquire, PostOk, PostFailed, BackoffEnd
    <2> QED BY <2>1, <2>2, <2>3 DEF TypeOK
  <1>14. CASE Terminated \/ UNCHANGED vars
    BY <1>0, <1>14 DEF Terminated, TypeOK
  <1> QED BY <1>1, <1>2, <1>3, <1>4, <1>5, <1>6, <1>7, <1>8, <1>9, <1>11, <1>12, <1>13, <1>14
          DEF Next, LoopStep

\* Every variable keeps its type, and no batch is tried more than MaxAttempts
\* times or given up before that.
THEOREM Typing == Spec => [](TypeOK /\ RetriesBounded)
  BY TypeInit, TypeStep, PTL DEF Spec

\* A batch is posted at most MaxAttempts times: it is given up after exactly so
\* many failures, and an exported one was taken by the collector.
THEOREM Retries == Spec => []RetriesBounded
  BY Typing, PTL

-----------------------------------------------------------------------------
(***************************************************************************)
(* The export semaphore.  Only the step of an export task moves a permit:  *)
(* spawned tasks hold none, and the end of the runtime frees them all.     *)
(***************************************************************************)

LEMMA HoldersFinite == TypeOK => IsFiniteSet(Holders) /\ Holders \subseteq DOMAIN tasks
  <1> SUFFICES ASSUME TypeOK PROVE IsFiniteSet(Holders) /\ Holders \subseteq DOMAIN tasks
    OBVIOUS
  <1>1. DOMAIN tasks = 1..Len(tasks) /\ Len(tasks) \in Nat
    BY LenProperties DEF TypeOK
  <1>2. IsFiniteSet(DOMAIN tasks)
    BY <1>1, FS_Interval
  <1> QED BY <1>2, FS_Subset DEF Holders

\* The tasks a step of the loop leaves or spawns.
TasksGrow ==
  /\ DOMAIN tasks \subseteq DOMAIN tasks'
  /\ \A t \in DOMAIN tasks' :
       IF t \in DOMAIN tasks THEN tasks'[t] = tasks[t] ELSE tasks'[t] \in Fresh

LEMMA LoopGrowsTasks ==
  ASSUME TypeOK, LoopStep
  PROVE  TasksGrow
  <1>1. CASE RecvData
    <2>1. Head(channel).kind \in Signals /\ Head(channel).id \in 1..MaxSends
      BY <1>1, PopType, MessageType DEF RecvData
    <2>2. PICK s \in Signals, messages \in Seq(1..MaxSends) :
            s = Head(channel).kind /\ messages = Append(batch[s], Head(channel).id)
      BY <2>1, AppendProperties DEF TypeOK
    <2>3. FlushBatch(s, messages) \in Seq(Fresh) /\ <<>> \in Seq(Fresh)
      BY FlushBatchType
    <2>4. PICK new \in Seq(Fresh) : Spawn(new)
      BY <1>1, <2>2, <2>3 DEF RecvData
    <2> QED BY <2>4, SpawnType DEF TypeOK, TasksGrow
  <1>2. CASE RecvFlush \/ RecvShutdown \/ Tick
    BY <1>2, FlushAllType DEF RecvFlush, RecvShutdown, Tick, TasksGrow
  <1>3. CASE FlushDone \/ LoopEnd
    BY <1>3 DEF FlushDone, LoopEnd, TasksGrow
  <1> QED BY <1>1, <1>2, <1>3 DEF LoopStep

LEMMA LimitStep ==
  ASSUME TypeOK, TypeOK', ConcurrencyLimit, [Next]_vars
  PROVE  ConcurrencyLimit'
  <1>1. CASE LoopStep
    <2>1. Holders' = Holders
      BY <1>1, LoopGrowsTasks DEF TasksGrow, Holders, Fresh
    <2>2. permits' = permits
      BY <1>1 DEF LoopStep, RecvData, RecvFlush, RecvShutdown, Tick, FlushDone, LoopEnd
    <2> QED BY <2>1, <2>2 DEF ConcurrencyLimit
  <1>2. ASSUME NEW t \in DOMAIN tasks, TaskStep(t)
        PROVE  ConcurrencyLimit'
    <2>1. IsFiniteSet(Holders) /\ permits \in Nat
      BY HoldersFinite DEF TypeOK
    <2>2. DOMAIN tasks' = DOMAIN tasks /\ \A u \in DOMAIN tasks : u # t => tasks'[u] = tasks[u]
      BY <1>2 DEF TaskStep, Acquire, PostOk, PostFailed, BackoffEnd
    <2>3. tasks[t] \in Task /\ tasks'[t] \in Task
      BY <2>2, SeqElements DEF TypeOK
    <2>4. CASE Acquire(t)
      <3>1. tasks[t].pc = "queued" /\ tasks'[t].pc = "posting" /\ permits' = permits - 1
        BY <2>3, <2>4 DEF Acquire, Task
      <3>2. t \notin Holders /\ Holders' = Holders \cup {t}
        BY <2>2, <3>1 DEF Holders
      <3>3. Cardinality(Holders) \in Nat /\ Cardinality(Holders \cup {t}) = Cardinality(Holders) + 1
        BY <2>1, <3>2, FS_AddElement, FS_CardinalityType
      <3> QED BY <2>1, <3>1, <3>2, <3>3 DEF ConcurrencyLimit
    <2>5. CASE PostOk(t)
      <3>1. tasks[t].pc = "posting" /\ tasks'[t].pc = "exported" /\ permits' = permits + 1
        BY <2>3, <2>5 DEF PostOk, Task
      <3>2. t \in Holders /\ Holders' = Holders \ {t}
        BY <2>2, <3>1 DEF Holders
      <3>3. Cardinality(Holders) \in Nat /\ Cardinality(Holders \ {t}) = Cardinality(Holders) - 1
        BY <2>1, <3>2, FS_RemoveElement, FS_CardinalityType
      <3> QED BY <2>1, <3>1, <3>2, <3>3 DEF ConcurrencyLimit
    <2>6. CASE PostFailed(t)
      <3>1. tasks[t].pc = "posting" /\ tasks'[t].pc = "backoff" /\ permits' = permits
        BY <2>3, <2>6 DEF PostFailed, Task
      <3>2. Holders' = Holders
        BY <2>2, <3>1 DEF Holders
      <3> QED BY <3>1, <3>2 DEF ConcurrencyLimit
    <2>7. CASE BackoffEnd(t) /\ tasks[t].failures < MaxAttempts
      <3>1. tasks[t].pc = "backoff" /\ tasks'[t].pc = "posting" /\ permits' = permits
        BY <2>3, <2>7 DEF BackoffEnd, Task
      <3>2. Holders' = Holders
        BY <2>2, <3>1 DEF Holders
      <3> QED BY <3>1, <3>2 DEF ConcurrencyLimit
    <2>8. CASE BackoffEnd(t) /\ ~(tasks[t].failures < MaxAttempts)
      <3>1. tasks[t].pc = "backoff" /\ tasks'[t].pc = "abandoned" /\ permits' = permits + 1
        BY <2>3, <2>8 DEF BackoffEnd, Task
      <3>2. t \in Holders /\ Holders' = Holders \ {t}
        BY <2>2, <3>1 DEF Holders
      <3>3. Cardinality(Holders) \in Nat /\ Cardinality(Holders \ {t}) = Cardinality(Holders) - 1
        BY <2>1, <3>2, FS_RemoveElement, FS_CardinalityType
      <3> QED BY <2>1, <3>1, <3>2, <3>3 DEF ConcurrencyLimit
    <2> QED BY <1>2, <2>4, <2>5, <2>6, <2>7, <2>8 DEF TaskStep
  <1>3. CASE RuntimeDropped
    <2>1. \A t \in DOMAIN tasks' : tasks'[t].pc \in {"exported", "abandoned", "cancelled"}
      <3> SUFFICES ASSUME NEW t \in DOMAIN tasks
                   PROVE  tasks'[t].pc \in {"exported", "abandoned", "cancelled"}
        BY <1>3 DEF RuntimeDropped
      <3>1. tasks[t] \in Task
        BY SeqElements DEF TypeOK
      <3> QED BY <1>3, <3>1 DEF RuntimeDropped, Finished, Task
    <2>2. Holders' = {} /\ permits' = MaxConcurrent
      BY <1>3, <2>1 DEF Holders, RuntimeDropped
    <2> QED BY <2>2, FS_EmptySet, ExporterAssumption DEF ConcurrencyLimit
  <1>4. CASE UNCHANGED <<tasks, permits>>
    BY <1>4 DEF ConcurrencyLimit, Holders
  <1>5. UNCHANGED <<tasks, permits>> \/ LoopStep \/ RuntimeDropped
          \/ \E t \in DOMAIN tasks : TaskStep(t)
    BY DEF Next, Send, Call, Enqueue, DropHandles, Terminated, vars, exportVars
  <1> QED BY <1>1, <1>2, <1>3, <1>4, <1>5

\* No more than max_concurrent_exports batches are posted or retried at once,
\* and no permit is lost over any sequence of failures, flushes and stops.
THEOREM Limit == Spec => []ConcurrencyLimit
  <1>1. Init => ConcurrencyLimit
    <2> SUFFICES ASSUME Init PROVE ConcurrencyLimit
      OBVIOUS
    <2>1. Holders = {} /\ permits = MaxConcurrent
      BY DEF Init, Holders
    <2> QED BY <2>1, FS_EmptySet, ExporterAssumption DEF ConcurrencyLimit
  <1>2. TypeOK /\ TypeOK' /\ ConcurrencyLimit /\ [Next]_vars => ConcurrencyLimit'
    BY LimitStep
  <1> QED BY <1>1, <1>2, Typing, PTL DEF Spec

-----------------------------------------------------------------------------
(***************************************************************************)
(* The queue, its slots, and the calls waiting on it.                      *)
(***************************************************************************)

\* A queue, without what is in it: these four facts are proved together.
QueueInv == SlotsConserved /\ WaitersBlocked /\ FlushQueued /\ ShutdownQueued

LEMMA GrantedFinite == IsFiniteSet(Granted) /\ Cardinality(Granted) \in Nat
  <1>1. IsFiniteSet(Calls)
    BY ExporterAssumption, FS_Union DEF Calls
  <1>2. IsFiniteSet(Granted)
    BY <1>1, FS_Subset DEF Granted
  <1> QED BY <1>2, FS_CardinalityType

\* Tail and Append, in the form the proofs below use.
LEMMA TailElements ==
  ASSUME NEW S, NEW q \in Seq(S), q # <<>>
  PROVE  /\ q[1] = Head(q) /\ 1 \in DOMAIN q
         /\ Len(Tail(q)) = Len(q) - 1 /\ Len(q) \in Nat /\ Len(q) > 0
         /\ \A k \in DOMAIN Tail(q) : /\ k \in Nat \ {0} /\ k + 1 \in DOMAIN q
                                      /\ Tail(q)[k] = q[k + 1]
  <1>1. Tail(q) \in Seq(S) /\ Len(Tail(q)) = Len(q) - 1
        /\ \A k \in 1..Len(Tail(q)) : Tail(q)[k] = q[k + 1]
    BY HeadTailProperties
  <1>2. Len(q) \in Nat /\ Len(q) > 0 /\ DOMAIN q = 1..Len(q)
    BY LenProperties, EmptySeq
  <1>3. DOMAIN Tail(q) = 1..Len(Tail(q))
    BY <1>1, LenProperties
  <1> QED BY <1>1, <1>2, <1>3

LEMMA AppendElements ==
  ASSUME NEW S, NEW q \in Seq(S), NEW e \in S
  PROVE  /\ Len(Append(q, e)) = Len(q) + 1 /\ Len(q) \in Nat
         /\ DOMAIN Append(q, e) = DOMAIN q \cup {Len(q) + 1}
         /\ \A k \in DOMAIN q : k \in 1..Len(q) /\ Append(q, e)[k] = q[k]
         /\ Append(q, e)[Len(q) + 1] = e
  <1>1. Len(q) \in Nat /\ DOMAIN q = 1..Len(q)
    BY LenProperties
  <1>2. /\ Append(q, e) \in Seq(S) /\ Len(Append(q, e)) = Len(q) + 1
        /\ \A i \in 1..Len(q) : Append(q, e)[i] = q[i]
        /\ Append(q, e)[Len(q) + 1] = e
    BY AppendProperties
  <1>3. DOMAIN Append(q, e) = 1..(Len(q) + 1)
    BY <1>2, LenProperties
  <1> QED BY <1>1, <1>2, <1>3

\* A receive frees one slot: it goes back to the pool or to the first waiter.
LEMMA PopSlots ==
  ASSUME TypeOK, QueueInv, ~Closed, channel # <<>>, Pop
  PROVE  /\ slots' + Len(channel') + Cardinality(Granted') = Capacity
         /\ waiters' # <<>> => slots' = 0
         /\ WaitersBlocked'
         /\ \A c \in Calls : \/ call'[c] = call[c]
                             \/ call[c] = "blocked" /\ call'[c] = "granted"
  <1>1. Len(channel') = Len(channel) - 1 /\ Len(channel) \in Nat
    BY TailElements DEF Pop, TypeOK
  <1>2. /\ slots + Len(channel) + Cardinality(Granted) = Capacity
        /\ waiters # <<>> => slots = 0
        /\ slots \in Nat
    BY DEF QueueInv, SlotsConserved, TypeOK
  <1>3. CASE waiters = <<>>
    <2>1. Granted' = Granted /\ slots' = slots + 1 /\ waiters' = waiters /\ call' = call
      BY <1>3 DEF Pop, Granted
    <2> QED BY <1>1, <1>2, <1>3, <2>1, GrantedFinite DEF QueueInv, WaitersBlocked
  <1>4. CASE waiters # <<>>
    <2> DEFINE w == Head(waiters)
    <2>1. /\ call' = [call EXCEPT ![w] = "granted"] /\ waiters' = Tail(waiters) /\ slots' = slots
      BY <1>4 DEF Pop
    <2>2. /\ w = waiters[1] /\ 1 \in DOMAIN waiters
          /\ \A k \in DOMAIN waiters' : k \in Nat \ {0} /\ k + 1 \in DOMAIN waiters
                                        /\ waiters'[k] = waiters[k + 1]
      BY <1>4, <2>1, TailElements DEF TypeOK
    <2>3. w \in Calls /\ call[w] = "blocked"
      BY <2>2, SeqElements DEF TypeOK, QueueInv, WaitersBlocked
    <2>4. /\ call'[w] = "granted" /\ \A c \in Calls : c # w => call'[c] = call[c]
      BY <2>1, <2>3 DEF TypeOK
    <2>5. Granted' = Granted \cup {w} /\ w \notin Granted
      BY <2>3, <2>4 DEF Granted
    <2>6. Cardinality(Granted \cup {w}) = Cardinality(Granted) + 1
      BY <2>5, GrantedFinite, FS_AddElement
    <2>7. slots' + Len(channel') + Cardinality(Granted') = Capacity
      BY <1>1, <1>2, <2>1, <2>5, <2>6, GrantedFinite
    <2>8. WaitersBlocked'
      <3>1. ASSUME NEW k \in DOMAIN waiters' PROVE call'[waiters'[k]] = "blocked"
        <4>1. k + 1 # 1 /\ waiters[k + 1] # w
          BY <2>2 DEF QueueInv, WaitersBlocked
        <4>2. waiters'[k] = waiters[k + 1] /\ call[waiters[k + 1]] = "blocked"
          BY <2>2 DEF QueueInv, WaitersBlocked
        <4>3. waiters[k + 1] \in Calls
          BY <2>2, SeqElements DEF TypeOK
        <4> QED BY <2>4, <4>1, <4>2, <4>3
      <3>2. ASSUME NEW j \in DOMAIN waiters', NEW k \in DOMAIN waiters', waiters'[j] = waiters'[k]
            PROVE  j = k
        <4>1. j + 1 = k + 1
          BY <2>2, <3>2 DEF QueueInv, WaitersBlocked
        <4> QED BY <2>2, <4>1
      <3> QED BY <3>1, <3>2 DEF WaitersBlocked
    <2> QED BY <1>2, <1>4, <2>1, <2>3, <2>4, <2>7, <2>8
  <1> QED BY <1>3, <1>4

\* What is left in the queue after a receive, with flushes still waiting.
LEMMA PopQueue ==
  ASSUME TypeOK, QueueInv, ~Closed, channel # <<>>, Pop
  PROVE  /\ \A k \in DOMAIN channel' : IsFlush(k)' => call'[channel'[k].id] = "queued"
         /\ \A j, k \in DOMAIN channel' :
              IsFlush(j)' /\ IsFlush(k)' /\ channel'[j].id = channel'[k].id => j = k
         /\ ShutdownQueued'
         /\ IsFlush(1) => \A k \in DOMAIN channel' : IsFlush(k)' => channel'[k].id # channel[1].id
  <1>1. /\ channel[1] = Head(channel) /\ 1 \in DOMAIN channel
        /\ \A k \in DOMAIN channel' : k \in Nat \ {0} /\ k + 1 \in DOMAIN channel
                                      /\ channel'[k] = channel[k + 1]
    BY TailElements DEF Pop, TypeOK
  <1>2. \A c \in Calls : call[c] # "blocked" => call'[c] = call[c]
    BY PopSlots
  <1>3. \A k \in DOMAIN channel : /\ channel[k].kind = "flush" => channel[k].id \in Calls
                                  /\ channel[k].kind = "shutdown" => channel[k].id \in Calls
    BY SeqElements, MessageType DEF TypeOK, Calls
  <1>4. \A k \in DOMAIN channel' : IsFlush(k)' => call'[channel'[k].id] = "queued"
    BY <1>1, <1>2, <1>3 DEF QueueInv, FlushQueued, IsFlush
  <1>5. ASSUME NEW j \in DOMAIN channel', NEW k \in DOMAIN channel',
               IsFlush(j)', IsFlush(k)', channel'[j].id = channel'[k].id
        PROVE  j = k
    <2>1. j + 1 = k + 1
      BY <1>1, <1>5 DEF QueueInv, FlushQueued, IsFlush
    <2> QED BY <1>1, <2>1
  <1>6. ShutdownQueued'
    BY <1>1, <1>2, <1>3 DEF QueueInv, ShutdownQueued
  <1>7. ASSUME IsFlush(1), NEW k \in DOMAIN channel', IsFlush(k)', channel'[k].id = channel[1].id
        PROVE  FALSE
    <2>1. k + 1 = 1
      BY <1>1, <1>7 DEF QueueInv, FlushQueued, IsFlush
    <2> QED BY <1>1, <2>1
  <1> QED BY <1>4, <1>5, <1>6, <1>7

LEMMA SendQueue ==
  ASSUME TypeOK, QueueInv, NEW s \in Signals, Send(s)
  PROVE  QueueInv'
  <1>0. UNCHANGED <<waiters, call, loop, serving>> /\ Granted' = Granted /\ (Closed' <=> Closed)
    BY DEF Send, Granted, Closed, loopVars
  <1>1. CASE UNCHANGED <<channel, slots>>
    BY <1>0, <1>1 DEF QueueInv, SlotsConserved, WaitersBlocked, FlushQueued, ShutdownQueued, IsFlush
  <1>2. CASE ~UNCHANGED <<channel, slots>>
    <2> DEFINE m == Data(s, Len(offers) + 1)
    <2>1. ~Closed /\ slots # 0 /\ channel' = Append(channel, m) /\ slots' = slots - 1
          /\ Len(offers) < MaxSends
      BY <1>2 DEF Send
    <2>2. m \in ExportMessage /\ m.kind \notin {"flush", "shutdown"}
      <3>1. Len(offers) + 1 \in 1..MaxSends
        BY <2>1, LenProperties, ExporterAssumption DEF TypeOK
      <3> QED BY <3>1 DEF Data, ExportMessage, Signals
    <2>3. /\ Len(channel') = Len(channel) + 1 /\ Len(channel) \in Nat
          /\ DOMAIN channel' = DOMAIN channel \cup {Len(channel) + 1}
          /\ \A k \in DOMAIN channel : channel'[k] = channel[k]
          /\ channel'[Len(channel) + 1] = m
      BY <2>1, <2>2, AppendElements DEF TypeOK
    <2>4. SlotsConserved'
      BY <1>0, <2>1, <2>3, GrantedFinite DEF QueueInv, SlotsConserved, TypeOK
    <2>5. WaitersBlocked'
      BY <1>0 DEF QueueInv, WaitersBlocked
    <2>6. \A k \in DOMAIN channel' :
            channel'[k].kind \in {"flush", "shutdown"} => k \in DOMAIN channel
      BY <2>2, <2>3
    <2>7. FlushQueued' /\ ShutdownQueued'
      BY <1>0, <2>3, <2>6 DEF QueueInv, FlushQueued, ShutdownQueued, IsFlush
    <2> QED BY <2>4, <2>5, <2>7 DEF QueueInv
  <1> QED BY <1>1, <1>2

\* A call that begins is idle: nothing in the line or the queue is about it.
LEMMA CallQueue ==
  ASSUME TypeOK, QueueInv, NEW c \in Calls, Call(c)
  PROVE  QueueInv'
  <1>0. UNCHANGED <<channel, loop, serving>> /\ (Closed' <=> Closed) /\ call[c] = "idle"
    BY DEF Call, Closed, loopVars
  <1>1. \A d \in Calls : d # c => call'[d] = call[d]
    BY DEF Call, TypeOK
  <1>2. /\ \A k \in DOMAIN waiters : waiters[k] \in Calls /\ waiters[k] # c
        /\ \A k \in DOMAIN channel : /\ channel[k].kind = "flush" => channel[k].id \in Calls \ {c}
                                     /\ channel[k].kind = "shutdown" => channel[k].id \in Calls \ {c}
        /\ loop = "flushing" => serving \in Calls \ {c}
    <2>1. \A k \in DOMAIN waiters : waiters[k] \in Calls
      BY SeqElements DEF TypeOK
    <2>2. \A k \in DOMAIN channel : /\ channel[k].kind = "flush" => channel[k].id \in Calls
                                    /\ channel[k].kind = "shutdown" => channel[k].id \in Calls
      BY SeqElements, MessageType DEF TypeOK, Calls
    <2> QED BY <1>0, <2>1, <2>2
            DEF QueueInv, WaitersBlocked, FlushQueued, ShutdownQueued, IsFlush, TypeOK, Calls
  <1>3. FlushQueued' /\ ShutdownQueued'
    BY <1>0, <1>1, <1>2 DEF QueueInv, FlushQueued, ShutdownQueued, IsFlush
  <1>4. CASE Closed
    <2>1. waiters' = waiters
      BY <1>4 DEF Call
    <2> QED BY <1>0, <1>1, <1>2, <1>3, <1>4, <2>1 DEF QueueInv, SlotsConserved, WaitersBlocked
  <1>5. CASE ~Closed /\ slots > 0
    <2>1. slots' = slots - 1 /\ waiters' = waiters /\ call'[c] = "granted"
      BY <1>5 DEF Call, TypeOK
    <2>2. Granted' = Granted \cup {c} /\ c \notin Granted
      BY <1>0, <1>1, <2>1 DEF Granted
    <2>3. Cardinality(Granted \cup {c}) = Cardinality(Granted) + 1 /\ Len(channel) \in Nat
      BY <2>2, GrantedFinite, FS_AddElement, LenProperties DEF TypeOK
    <2>4. SlotsConserved'
      BY <1>0, <1>5, <2>1, <2>2, <2>3, GrantedFinite DEF QueueInv, SlotsConserved, TypeOK
    <2>5. WaitersBlocked'
      BY <1>1, <1>2, <2>1 DEF QueueInv, WaitersBlocked
    <2> QED BY <1>3, <2>4, <2>5 DEF QueueInv
  <1>6. CASE ~Closed /\ ~(slots > 0)
    <2>1. slots = 0 /\ slots' = slots /\ waiters' = Append(waiters, c) /\ call'[c] = "blocked"
      BY <1>6 DEF Call, TypeOK
    <2>2. Granted' = Granted
      BY <1>0, <1>1, <2>1 DEF Granted
    <2>3. SlotsConserved'
      BY <1>0, <1>6, <2>1, <2>2 DEF QueueInv, SlotsConserved
    <2>4. /\ DOMAIN waiters' = DOMAIN waiters \cup {Len(waiters) + 1}
          /\ \A k \in DOMAIN waiters : waiters'[k] = waiters[k]
          /\ waiters'[Len(waiters) + 1] = c
      BY <2>1, AppendElements DEF TypeOK
    <2>5. WaitersBlocked'
      BY <1>1, <1>2, <2>1, <2>4 DEF QueueInv, WaitersBlocked
    <2> QED BY <1>3, <2>3, <2>5 DEF QueueInv
  <1> QED BY <1>4, <1>5, <1>6

LEMMA EnqueueQueue ==
  ASSUME TypeOK, QueueInv, NEW c \in Calls, Enqueue(c)
  PROVE  QueueInv'
  <1>0. /\ UNCHANGED <<slots, waiters, loop, serving>> /\ ~Closed /\ ~Closed'
        /\ call[c] = "granted" /\ channel' = Append(channel, Message(c))
        /\ call'[c] = IF c \in Flushers THEN "queued" ELSE "done"
        /\ \A d \in Calls : d # c => call'[d] = call[d]
    BY DEF Enqueue, Closed, loopVars, TypeOK
  <1>1. Message(c) \in ExportMessage /\ Message(c).id = c
        /\ Message(c).kind = IF c \in Flushers THEN "flush" ELSE "shutdown"
    BY DEF Message, Flush, Shutdown, ExportMessage, Calls
  <1>2. /\ Len(channel') = Len(channel) + 1 /\ Len(channel) \in Nat
        /\ DOMAIN channel' = DOMAIN channel \cup {Len(channel) + 1}
        /\ \A k \in DOMAIN channel : channel'[k] = channel[k]
        /\ channel'[Len(channel) + 1] = Message(c)
    BY <1>0, <1>1, AppendElements DEF TypeOK
  <1>3. /\ \A k \in DOMAIN waiters : waiters[k] \in Calls /\ waiters[k] # c
        /\ \A k \in DOMAIN channel : /\ channel[k].kind = "flush" => channel[k].id \in Calls \ {c}
                                     /\ channel[k].kind = "shutdown" => channel[k].id \in Calls \ {c}
        /\ loop = "flushing" => serving \in Calls \ {c}
    <2>1. \A k \in DOMAIN waiters : waiters[k] \in Calls
      BY SeqElements DEF TypeOK
    <2>2. \A k \in DOMAIN channel : /\ channel[k].kind = "flush" => channel[k].id \in Calls
                                    /\ channel[k].kind = "shutdown" => channel[k].id \in Calls
      BY SeqElements, MessageType DEF TypeOK, Calls
    <2> QED BY <1>0, <2>1, <2>2
            DEF QueueInv, WaitersBlocked, FlushQueued, ShutdownQueued, IsFlush, TypeOK, Calls
  <1>4. Granted' = Granted \ {c} /\ c \in Granted
    BY <1>0 DEF Granted
  <1>5. Cardinality(Granted \ {c}) = Cardinality(Granted) - 1
    BY <1>4, GrantedFinite, FS_RemoveElement
  <1>6. SlotsConserved'
    BY <1>0, <1>2, <1>4, <1>5, GrantedFinite DEF QueueInv, SlotsConserved, TypeOK
  <1>7. WaitersBlocked'
    BY <1>0, <1>3 DEF QueueInv, WaitersBlocked
  <1>8. ShutdownQueued'
    BY <1>0, <1>1, <1>2, <1>3 DEF QueueInv, ShutdownQueued
  <1>9. FlushQueued'
    <2>1. \A k \in DOMAIN channel' : IsFlush(k)' => call'[channel'[k].id] = "queued"
      BY <1>0, <1>1, <1>2, <1>3 DEF QueueInv, FlushQueued, IsFlush
    <2>2. \A j, k \in DOMAIN channel' :
            IsFlush(j)' /\ IsFlush(k)' /\ channel'[j].id = channel'[k].id => j = k
      BY <1>1, <1>2, <1>3 DEF QueueInv, FlushQueued, IsFlush
    <2>3. loop' = "flushing" => /\ call'[serving'] = "queued"
                                /\ \A k \in DOMAIN channel' : IsFlush(k)' => channel'[k].id # serving'
      BY <1>0, <1>1, <1>2, <1>3 DEF QueueInv, FlushQueued, IsFlush
    <2> QED BY <2>1, <2>2, <2>3 DEF FlushQueued
  <1> QED BY <1>6, <1>7, <1>8, <1>9 DEF QueueInv

LEMMA PopKeepsQueue ==
  ASSUME TypeOK, QueueInv, ~Closed, channel # <<>>, Pop,
         loop' # "flushing" \/ (loop' = "flushing" /\ IsFlush(1) /\ serving' = channel[1].id)
  PROVE  QueueInv'
  <1>1. SlotsConserved' /\ WaitersBlocked'
    BY PopSlots DEF SlotsConserved
  <1>2. loop' = "flushing" => call'[serving'] = "queued"
    <2> SUFFICES ASSUME IsFlush(1), serving' = channel[1].id
                 PROVE  call'[serving'] = "queued"
      OBVIOUS
    <2>1. 1 \in DOMAIN channel /\ channel[1] \in ExportMessage
      BY TailElements, SeqElements DEF TypeOK
    <2>2. call[channel[1].id] = "queued" /\ channel[1].id \in Calls
      BY <2>1, MessageType DEF QueueInv, FlushQueued, IsFlush, Calls
    <2> QED BY <2>2, PopSlots
  <1>3. FlushQueued' /\ ShutdownQueued'
    BY <1>2, PopQueue DEF FlushQueued
  <1> QED BY <1>1, <1>3 DEF QueueInv

LEMMA QueueStep ==
  ASSUME TypeOK, QueueInv, [Next]_vars
  PROVE  QueueInv'
  <1>1. ASSUME NEW s \in Emitted, Send(s) PROVE QueueInv'
    BY <1>1, SendQueue, ExporterAssumption
  <1>2. ASSUME NEW c \in Calls, Call(c) PROVE QueueInv'
    BY <1>2, CallQueue
  <1>3. ASSUME NEW c \in Calls, Enqueue(c) PROVE QueueInv'
    BY <1>3, EnqueueQueue
  <1>4. CASE RecvData
    BY <1>4, PopKeepsQueue DEF RecvData, loopVars, Closed
  <1>5. CASE RecvFlush
    <2>1. channel[1] = Head(channel)
      BY <1>5, TailElements DEF RecvFlush, TypeOK
    <2> QED BY <1>5, <2>1, PopKeepsQueue DEF RecvFlush, Closed, IsFlush
  <1>6. CASE UNCHANGED <<channelVars, call>> /\ ~Closed /\ loop' # "flushing"
    BY <1>6 DEF channelVars, QueueInv, SlotsConserved, WaitersBlocked, FlushQueued, ShutdownQueued,
                IsFlush, Granted
  <1>7. CASE RecvShutdown
    <2>1. ~Closed /\ loop' # "flushing"
      BY <1>7 DEF RecvShutdown, Closed
    <2> QED BY <1>6, <1>7, <2>1, PopKeepsQueue DEF RecvShutdown
  <1>8. CASE Tick
    BY <1>6, <1>8 DEF Tick, Closed, loopVars
  <1>9. CASE FlushDone
    <2>1. /\ serving \in Calls /\ call[serving] = "queued"
          /\ \A k \in DOMAIN channel : IsFlush(k) => channel[k].id # serving
          /\ UNCHANGED channelVars /\ call' = [call EXCEPT ![serving] = "done"]
          /\ loop' = "select" /\ ~Closed
      BY <1>9 DEF FlushDone, TypeOK, QueueInv, FlushQueued, Calls, Closed
    <2>2. call'[serving] = "done" /\ \A d \in Calls : d # serving => call'[d] = call[d]
      BY <2>1 DEF TypeOK
    <2>3. Granted' = Granted
      BY <2>1, <2>2 DEF Granted
    <2>4. SlotsConserved'
      BY <2>1, <2>3 DEF QueueInv, SlotsConserved, channelVars
    <2>5. WaitersBlocked'
      <3>1. \A k \in DOMAIN waiters : waiters[k] \in Calls
        BY SeqElements DEF TypeOK
      <3> QED BY <2>1, <2>2, <3>1 DEF QueueInv, WaitersBlocked, channelVars
    <2>6. \A k \in DOMAIN channel : /\ channel[k].kind = "flush" => channel[k].id \in Calls
                                    /\ channel[k].kind = "shutdown" => channel[k].id \in Calls
      BY SeqElements, MessageType DEF TypeOK, Calls
    <2>7. FlushQueued' /\ ShutdownQueued'
      BY <2>1, <2>2, <2>6 DEF QueueInv, FlushQueued, ShutdownQueued, IsFlush, channelVars
    <2> QED BY <2>4, <2>5, <2>7 DEF QueueInv
  <1>10. CASE LoopEnd \/ RuntimeDropped
    <2>1. channel' = <<>> /\ waiters' = <<>> /\ Closed' /\ loop' # "flushing"
      BY <1>10 DEF LoopEnd, RuntimeDropped, Close, Free, Closed
    <2> QED BY <2>1 DEF QueueInv, SlotsConserved, WaitersBlocked, FlushQueued, ShutdownQueued
  <1>11. CASE UNCHANGED <<channelVars, call, loopVars>>
    BY <1>11 DEF channelVars, loopVars, QueueInv, SlotsConserved, WaitersBlocked, FlushQueued,
                 ShutdownQueued, IsFlush, Granted, Closed
  <1>12. DropHandles \/ (\E t \in DOMAIN tasks : TaskStep(t)) \/ Terminated \/ UNCHANGED vars
           => UNCHANGED <<channelVars, call, loopVars>>
    BY DEF DropHandles, TaskStep, Acquire, PostOk, PostFailed, BackoffEnd, Terminated, vars
  <1> QED BY <1>1, <1>2, <1>3, <1>4, <1>5, <1>7, <1>8, <1>9, <1>10, <1>11, <1>12
          DEF Next, LoopStep

LEMMA QueueInit == Init => QueueInv
  <1> SUFFICES ASSUME Init PROVE QueueInv
    OBVIOUS
  <1>1. Granted = {} /\ slots = Capacity /\ Len(channel) = 0
    BY DEF Init, Granted
  <1>2. SlotsConserved
    BY <1>1, FS_EmptySet, ExporterAssumption DEF SlotsConserved, Init
  <1> QED BY <1>2 DEF Init, QueueInv, WaitersBlocked, FlushQueued, ShutdownQueued

\* The channel never holds more than its capacity, and no slot is idle while a
\* flush() or a shutdown() waits for one.
THEOREM Slots == Spec => []SlotsConserved
  <1>1. TypeOK /\ QueueInv /\ [Next]_vars => QueueInv'
    BY QueueStep
  <1>2. QueueInv => SlotsConserved
    BY DEF QueueInv
  <1> QED BY <1>1, <1>2, QueueInit, Typing, PTL DEF Spec

-----------------------------------------------------------------------------
(***************************************************************************)
(* Where the messages go.                                                  *)
(***************************************************************************)

\* The messages in the payloads of a sequence of tasks.
Payloads(q) == UNION {Range(t.payload) : t \in Range(q)}

LEMMA PayloadsOfTasks == InTasks = Payloads(tasks)
  BY DEF InTasks, Payloads, Range

LEMMA PayloadsConcat ==
  ASSUME NEW q \in Seq(Task), NEW r \in Seq(Task)
  PROVE  Payloads(q \o r) = Payloads(q) \cup Payloads(r)
  <1>1. Range(q \o r) = Range(q) \cup Range(r)
    BY RangeConcatenation
  <1> QED BY <1>1 DEF Payloads

\* A batch goes into a payload or is cleared, all of it and nothing else.
LEMMA FlushBatchPayload ==
  ASSUME NEW s \in Signals, NEW m \in Seq(1..MaxSends)
  PROVE  Payloads(FlushBatch(s, m)) \cup Cleared(s, m) = Range(m)
  <1>1. CASE m = <<>>
    <2>1. Range(m) = {} /\ FlushBatch(s, m) = <<>>
      BY <1>1 DEF Range, FlushBatch
    <2>2. Payloads(<<>>) = {}
      BY DEF Payloads, Range
    <2> QED BY <2>1, <2>2 DEF Cleared
  <1>2. CASE m # <<>> /\ s \notin Urls
    <2>1. FlushBatch(s, m) = <<>> /\ Cleared(s, m) = Range(m)
      BY <1>2 DEF FlushBatch, Cleared
    <2>2. Payloads(<<>>) = {}
      BY DEF Payloads, Range
    <2> QED BY <2>1, <2>2
  <1>3. CASE m # <<>> /\ s \in Urls
    <2> DEFINE t == [signal |-> s, payload |-> m, pc |-> "queued", failures |-> 0, copies |-> 0]
    <2>1. FlushBatch(s, m) = <<t>> /\ Cleared(s, m) = {}
      BY <1>3 DEF FlushBatch, Cleared
    <2>2. Range(<<t>>) = {t} /\ t.payload = m
      BY DEF Range
    <2> HIDE DEF t
    <2>3. Payloads(<<t>>) = Range(m)
      BY <2>2 DEF Payloads
    <2> QED BY <2>1, <2>3
  <1> QED BY <1>1, <1>2, <1>3

LEMMA SpawnPayloads ==
  ASSUME TypeOK, NEW new \in Seq(Fresh), Spawn(new)
  PROVE  InTasks' = InTasks \cup Payloads(new)
  <1>1. new \in Seq(Task) /\ tasks \in Seq(Task) /\ tasks' = tasks \o new
    BY DEF Fresh, TypeOK, Spawn
  <1>2. InTasks' = Payloads(tasks')
    BY DEF InTasks, Payloads, Range
  <1> QED BY <1>1, <1>2, PayloadsOfTasks, PayloadsConcat

LEMMA FlushAllMoves ==
  ASSUME TypeOK, FlushAll
  PROVE  /\ InTasks' \cup discarded' = InTasks \cup discarded \cup InBatch
         /\ InTasks \subseteq InTasks' /\ discarded \subseteq discarded' /\ InBatch' = {}
  <1> DEFINE a == FlushBatch("traces", batch["traces"])
             b == FlushBatch("logs", batch["logs"])
             c == FlushBatch("metrics", batch["metrics"])
  <1>1. /\ batch["traces"] \in Seq(1..MaxSends) /\ batch["logs"] \in Seq(1..MaxSends)
        /\ batch["metrics"] \in Seq(1..MaxSends)
        /\ "traces" \in Signals /\ "logs" \in Signals /\ "metrics" \in Signals
    BY DEF TypeOK, Signals
  <1>2. a \in Seq(Fresh) /\ b \in Seq(Fresh) /\ c \in Seq(Fresh)
    BY <1>1, FlushBatchType
  <1>3. /\ Payloads(a) \cup Cleared("traces", batch["traces"]) = Range(batch["traces"])
        /\ Payloads(b) \cup Cleared("logs", batch["logs"]) = Range(batch["logs"])
        /\ Payloads(c) \cup Cleared("metrics", batch["metrics"]) = Range(batch["metrics"])
    BY <1>1, FlushBatchPayload
  <1>4. NewTasks = (a \o b) \o c
    BY DEF NewTasks
  <1> HIDE DEF a, b, c
  <1>5. /\ a \in Seq(Task) /\ b \in Seq(Task) /\ c \in Seq(Task)
        /\ a \o b \in Seq(Task)
    BY <1>2, ConcatProperties DEF Fresh
  <1>6. Payloads(NewTasks) = Payloads(a) \cup Payloads(b) \cup Payloads(c)
    BY <1>4, <1>5, PayloadsConcat
  <1>7. InTasks' = InTasks \cup Payloads(NewTasks)
    BY NewTasksType, SpawnPayloads DEF FlushAll, TypeOK
  <1>8. InBatch = Range(batch["traces"]) \cup Range(batch["logs"]) \cup Range(batch["metrics"])
    BY DEF InBatch, Signals
  <1>9. UNION {Cleared(s, batch[s]) : s \in Signals}
          = Cleared("traces", batch["traces"]) \cup Cleared("logs", batch["logs"])
              \cup Cleared("metrics", batch["metrics"])
    BY DEF Signals
  <1>10. discarded' = discarded \cup UNION {Cleared(s, batch[s]) : s \in Signals}
    BY DEF FlushAll
  <1>11. InBatch' = {}
    BY DEF FlushAll, NoBatch, InBatch, Range
  <1> QED BY <1>3, <1>6, <1>7, <1>8, <1>9, <1>10, <1>11

LEMMA QueuedElements ==
  Queued = {channel[k].id : k \in {j \in DOMAIN channel : IsData(j)}}
  BY DEF Queued, IsData

LEMMA PopQueued ==
  ASSUME TypeOK, channel # <<>>, Pop
  PROVE  /\ channel[1] = Head(channel) /\ 1 \in DOMAIN channel
         /\ IsData(1) => Queued = Queued' \cup {channel[1].id}
         /\ ~IsData(1) => Queued = Queued'
         /\ \A n \in Queued' : \E k \in DOMAIN channel :
              k > 1 /\ IsData(k) /\ channel[k].id = n
  <1>1. /\ channel[1] = Head(channel) /\ 1 \in DOMAIN channel
        /\ Len(Tail(channel)) = Len(channel) - 1 /\ Len(channel) \in Nat /\ Len(channel) > 0
        /\ \A k \in DOMAIN channel' : k \in Nat \ {0} /\ k + 1 \in DOMAIN channel
                                      /\ channel'[k] = channel[k + 1]
    BY TailElements DEF Pop, TypeOK
  <1>2. DOMAIN channel = 1..Len(channel) /\ DOMAIN channel' = 1..(Len(channel) - 1)
    BY <1>1, SeqElements, HeadTailProperties DEF Pop, TypeOK
  <1>3. \A n \in Queued' : \E k \in DOMAIN channel : k > 1 /\ IsData(k) /\ channel[k].id = n
    <2> SUFFICES ASSUME NEW k \in DOMAIN channel', channel'[k].kind \in Signals
                 PROVE  \E j \in DOMAIN channel : j > 1 /\ IsData(j) /\ channel[j].id = channel'[k].id
      BY DEF Queued
    <2>1. k + 1 \in DOMAIN channel /\ k + 1 > 1 /\ channel[k + 1] = channel'[k]
      BY <1>1
    <2> QED BY <2>1 DEF IsData
  <1>4. ASSUME NEW k \in DOMAIN channel, IsData(k), k # 1
        PROVE  channel[k].id \in Queued'
    <2>1. k - 1 \in DOMAIN channel' /\ channel'[k - 1] = channel[k]
      BY <1>1, <1>2, <1>4
    <2> QED BY <1>4, <2>1 DEF Queued, IsData
  <1>5. Queued' \subseteq Queued
    BY <1>3 DEF Queued, IsData
  <1>6. ASSUME NEW n \in Queued PROVE n \in Queued' \/ (IsData(1) /\ n = channel[1].id)
    BY <1>4 DEF Queued, IsData
  <1>7. IsData(1) => channel[1].id \in Queued
    BY <1>1 DEF Queued, IsData
  <1> QED BY <1>1, <1>3, <1>5, <1>6, <1>7

LEMMA AppendQueued ==
  ASSUME TypeOK, NEW m \in ExportMessage, channel' = Append(channel, m)
  PROVE  Queued' = Queued \cup (IF m.kind \in Signals THEN {m.id} ELSE {})
  <1>1. /\ DOMAIN channel' = DOMAIN channel \cup {Len(channel) + 1}
        /\ \A k \in DOMAIN channel : channel'[k] = channel[k]
        /\ channel'[Len(channel) + 1] = m
    BY AppendElements DEF TypeOK
  <1> QED BY <1>1 DEF Queued

LEMMA RecvDataMoves ==
  ASSUME TypeOK, RecvData
  PROVE  /\ IsData(1)
         /\ InTasks' \cup discarded' \cup InBatch'
              = InTasks \cup discarded \cup InBatch \cup {channel[1].id}
         /\ InTasks \subseteq InTasks' /\ discarded \subseteq discarded'
  <1>1. channel[1] = Head(channel) /\ IsData(1)
    BY PopQueued DEF RecvData, IsData
  <1>2. Head(channel).kind \in Signals /\ Head(channel).id \in 1..MaxSends
    BY PopType, MessageType DEF RecvData
  <1>3. PICK s \in Signals, messages \in Seq(1..MaxSends) :
          s = Head(channel).kind /\ messages = Append(batch[s], Head(channel).id)
    BY <1>2, AppendProperties DEF TypeOK
  <1>4. batch[s] \in Seq(1..MaxSends)
    BY DEF TypeOK
  <1>5. Range(messages) = Range(batch[s]) \cup {channel[1].id}
    <2>1. /\ DOMAIN messages = DOMAIN batch[s] \cup {Len(batch[s]) + 1}
          /\ \A k \in DOMAIN batch[s] : messages[k] = batch[s][k]
          /\ messages[Len(batch[s]) + 1] = channel[1].id
      BY <1>1, <1>2, <1>3, <1>4, AppendElements
    <2> QED BY <2>1 DEF Range
  <1>6. InBatch = Range(batch[s]) \cup UNION {Range(batch[r]) : r \in Signals \ {s}}
    BY DEF InBatch
  <1>7. CASE Full(messages)
    <2>1. /\ batch' = [batch EXCEPT ![s] = <<>>] /\ Spawn(FlushBatch(s, messages))
          /\ discarded' = discarded \cup Cleared(s, messages)
      BY <1>3, <1>7 DEF RecvData
    <2>2. InTasks' = InTasks \cup Payloads(FlushBatch(s, messages))
      BY <2>1, FlushBatchType, SpawnPayloads
    <2>3. Payloads(FlushBatch(s, messages)) \cup Cleared(s, messages) = Range(messages)
      BY FlushBatchPayload
    <2>4. InBatch' = UNION {Range(batch[r]) : r \in Signals \ {s}}
      <3>1. Range(<<>>) = {}
        BY DEF Range
      <3>2. batch'[s] = <<>> /\ \A r \in Signals \ {s} : batch'[r] = batch[r]
        BY <2>1 DEF TypeOK
      <3>3. InBatch' = Range(batch'[s]) \cup UNION {Range(batch'[r]) : r \in Signals \ {s}}
        BY DEF InBatch
      <3> QED BY <3>1, <3>2, <3>3
    <2> QED BY <1>1, <1>5, <1>6, <2>1, <2>2, <2>3, <2>4
  <1>8. CASE ~Full(messages)
    <2>1. /\ batch' = [batch EXCEPT ![s] = messages] /\ Spawn(<<>>)
          /\ discarded' = discarded
      BY <1>3, <1>8 DEF RecvData
    <2>2. InTasks' = InTasks
      <3>1. <<>> \in Seq(Fresh) /\ Payloads(<<>>) = {}
        BY DEF Payloads, Range
      <3> QED BY <2>1, <3>1, SpawnPayloads
    <2>3. InBatch' = Range(messages) \cup UNION {Range(batch[r]) : r \in Signals \ {s}}
      <3>1. batch'[s] = messages /\ \A r \in Signals \ {s} : batch'[r] = batch[r]
        BY <2>1 DEF TypeOK
      <3>2. InBatch' = Range(batch'[s]) \cup UNION {Range(batch'[r]) : r \in Signals \ {s}}
        BY DEF InBatch
      <3> QED BY <3>1, <3>2
    <2> QED BY <1>1, <1>5, <1>6, <2>1, <2>2, <2>3
  <1> QED BY <1>1, <1>7, <1>8

-----------------------------------------------------------------------------
(***************************************************************************)
(* Every message offered and accepted is in one of its places, and what is *)
(* settled stays so.                                                       *)
(***************************************************************************)

\* A step leaves every task with its payload, and a finished one as it is.
TasksStable ==
  /\ \A t \in DOMAIN tasks :
       /\ t \in DOMAIN tasks' /\ tasks'[t].payload = tasks[t].payload
       /\ Finished(t) => tasks'[t] = tasks[t]
  /\ discarded \subseteq discarded'

LEMMA TaskStepFacts ==
  ASSUME TypeOK, NEW t \in DOMAIN tasks, TaskStep(t)
  PROVE  /\ DOMAIN tasks' = DOMAIN tasks
         /\ tasks[t].pc \in {"queued", "posting", "backoff"}
         /\ tasks'[t].pc # "cancelled" /\ tasks'[t].payload = tasks[t].payload
         /\ \A u \in DOMAIN tasks : u # t => tasks'[u] = tasks[u]
         /\ UNCHANGED <<channelVars, handles, call, loopVars, batch, joinSet, dropped, history>>
  <1>1. tasks[t] \in Task
    BY SeqElements DEF TypeOK
  <1>2. CASE Acquire(t)
    BY <1>1, <1>2 DEF Acquire, Task
  <1>3. CASE PostOk(t)
    BY <1>1, <1>3 DEF PostOk, Task
  <1>4. CASE PostFailed(t)
    BY <1>1, <1>4 DEF PostFailed, Task
  <1>5. CASE BackoffEnd(t)
    BY <1>1, <1>5 DEF BackoffEnd, Task
  <1> QED BY <1>2, <1>3, <1>4, <1>5 DEF TaskStep

LEMMA RuntimeDroppedFacts ==
  ASSUME TypeOK, RuntimeDropped
  PROVE  /\ DOMAIN tasks' = DOMAIN tasks /\ TasksStable
         /\ \A t \in DOMAIN tasks' : tasks'[t].pc \in {"exported", "abandoned", "cancelled"}
  <1>1. DOMAIN tasks' = DOMAIN tasks /\ discarded' = discarded
    BY DEF RuntimeDropped
  <1>2. ASSUME NEW t \in DOMAIN tasks
        PROVE  /\ tasks'[t].payload = tasks[t].payload
               /\ Finished(t) => tasks'[t] = tasks[t]
               /\ tasks'[t].pc \in {"exported", "abandoned", "cancelled"}
    <2>1. tasks[t] \in Task
      BY SeqElements DEF TypeOK
    <2> QED BY <2>1 DEF RuntimeDropped, Finished, Task
  <1> QED BY <1>1, <1>2 DEF TasksStable

LEMMA StepStable ==
  ASSUME TypeOK, [Next]_vars
  PROVE  TasksStable
  <1>1. CASE LoopStep
    <2>1. discarded \subseteq discarded'
      BY <1>1, RecvDataMoves, FlushAllMoves
         DEF LoopStep, RecvFlush, RecvShutdown, Tick, FlushDone, LoopEnd, history
    <2> QED BY <1>1, <2>1, LoopGrowsTasks DEF TasksGrow, TasksStable
  <1>2. ASSUME NEW t \in DOMAIN tasks, TaskStep(t) PROVE TasksStable
    <2>1. ~Finished(t) /\ discarded' = discarded
      BY <1>2, TaskStepFacts DEF Finished, history
    <2> QED BY <1>2, <2>1, TaskStepFacts DEF TasksStable
  <1>3. CASE RuntimeDropped
    BY <1>3, RuntimeDroppedFacts
  <1>4. CASE UNCHANGED <<tasks, discarded>>
    BY <1>4 DEF TasksStable
  <1>5. LoopStep \/ RuntimeDropped \/ (\E t \in DOMAIN tasks : TaskStep(t))
          \/ UNCHANGED <<tasks, discarded>>
    BY DEF Next, Send, Call, Enqueue, DropHandles, Terminated, vars, exportVars, history
  <1> QED BY <1>1, <1>2, <1>3, <1>4, <1>5

LEMMA SettledStable ==
  ASSUME TypeOK, [Next]_vars, NEW n, Settled(n)
  PROVE  Settled(n)'
  <1>1. TasksStable
    BY StepStable
  <1>2. CASE n \in discarded
    BY <1>1, <1>2 DEF TasksStable, Settled
  <1>3. CASE n \notin discarded
    <2>1. PICK t \in DOMAIN tasks :
            n \in Range(tasks[t].payload) /\ tasks[t].pc \in {"exported", "abandoned"}
      BY <1>3 DEF Settled
    <2>2. t \in DOMAIN tasks' /\ tasks'[t] = tasks[t]
      BY <1>1, <2>1 DEF TasksStable, Finished
    <2> QED BY <2>1, <2>2 DEF Settled
  <1> QED BY <1>2, <1>3

\* Which messages are accepted, and which are in a place, only a send changes.
LEMMA SendPlaces ==
  ASSUME TypeOK, NEW s \in Signals, Send(s)
  PROVE  /\ \/ Accepted' = Accepted /\ Queued' = Queued
            \/ /\ ~Closed
               /\ Accepted' = Accepted \cup {Len(offers) + 1}
               /\ Queued' = Queued \cup {Len(offers) + 1}
         /\ Len(offers') = Len(offers) + 1 /\ Len(offers) \in Nat
         /\ UNCHANGED <<InBatch, InTasks, discarded, lost, mark, call, loop, serving, handles>>
         /\ handles
  <1> DEFINE outcome == IF Closed THEN "closed" ELSE IF slots = 0 THEN "full" ELSE "accepted"
             offer == [signal |-> s, outcome |-> outcome]
             n == Len(offers) + 1
  <1>1. /\ offers' = Append(offers, offer)
        /\ offer \in [signal : Signals, outcome : {"accepted", "full", "closed"}]
        /\ offer.outcome = outcome /\ handles
    BY DEF Send
  <1>2. /\ DOMAIN offers' = DOMAIN offers \cup {n} /\ Len(offers') = n /\ Len(offers) \in Nat
        /\ \A k \in DOMAIN offers : k \in 1..Len(offers) /\ offers'[k] = offers[k]
        /\ offers'[n] = offer
    BY <1>1, AppendElements DEF TypeOK
  <1>3. UNCHANGED <<InBatch, InTasks, discarded, lost, mark, call, loop, serving, handles>>
    BY DEF Send, InBatch, InTasks, loopVars, exportVars
  <1>4. CASE outcome = "accepted"
    <2>1. Accepted' = Accepted \cup {n} /\ ~Closed
      BY <1>1, <1>2, <1>4 DEF Accepted
    <2>2. channel' = Append(channel, Data(s, n)) /\ n \in 1..MaxSends
      BY <1>2, <1>4, ExporterAssumption DEF Send
    <2>3. Data(s, n) \in ExportMessage /\ Data(s, n).kind \in Signals /\ Data(s, n).id = n
      BY <2>2 DEF Data, ExportMessage
    <2> QED BY <1>1, <1>2, <1>3, <2>1, <2>2, <2>3, AppendQueued
  <1>5. CASE outcome # "accepted"
    <2>1. Accepted' = Accepted
      BY <1>1, <1>2, <1>5 DEF Accepted
    <2>2. channel' = channel
      BY <1>5 DEF Send
    <2>3. Queued' = Queued
      BY <2>2 DEF Queued
    <2> QED BY <1>1, <1>2, <1>3, <2>1, <2>3
  <1> QED BY <1>4, <1>5

\* The places of a step of the loop that ends it, or of the end of the runtime.
LEMMA ClosePlaces ==
  ASSUME TypeOK, Close
  PROVE  Queued' = {} /\ InBatch' = {} /\ lost' = lost \cup Queued \cup InBatch
  <1>1. Queued' = {} /\ lost' = lost \cup Queued \cup InBatch
    BY DEF Close, Free, Queued
  <1>2. InBatch' = {}
    BY DEF Close, Free, NoBatch, InBatch, Range
  <1> QED BY <1>1, <1>2

LEMMA InTasksKept ==
  ASSUME DOMAIN tasks' = DOMAIN tasks,
         \A t \in DOMAIN tasks : tasks'[t].payload = tasks[t].payload
  PROVE  InTasks' = InTasks
  BY DEF InTasks

\* Calls queue no telemetry.
LEMMA EnqueuePlaces ==
  ASSUME TypeOK, NEW c \in Calls, Enqueue(c)
  PROVE  Queued' = Queued
  <1>1. /\ Message(c) \in ExportMessage /\ Message(c).kind \notin Signals
        /\ channel' = Append(channel, Message(c))
    BY DEF Message, Flush, Shutdown, ExportMessage, Calls, Signals, Enqueue
  <1> QED BY <1>1, AppendQueued

LEMMA PlacesStep ==
  ASSUME TypeOK, Covered, [Next]_vars
  PROVE  Covered'
  <1> USE DEF Covered, Places
  <1>1. ASSUME NEW s \in Emitted, Send(s) PROVE Covered'
    BY <1>1, SendPlaces, ExporterAssumption
  <1>2. ASSUME NEW c \in Calls, Call(c) PROVE Covered'
    BY <1>2 DEF Call, Accepted, Queued, InBatch, InTasks, exportVars, history
  <1>3. ASSUME NEW c \in Calls, Enqueue(c) PROVE Covered'
    <2>1. Queued' = Queued
      BY <1>3, EnqueuePlaces
    <2>2. /\ Accepted' = Accepted /\ InBatch' = InBatch /\ InTasks' = InTasks
          /\ discarded' = discarded /\ lost' = lost
      BY <1>3 DEF Enqueue, Accepted, InBatch, InTasks, exportVars
    <2> QED BY <2>1, <2>2
  <1>4. CASE RecvData
    <2>1. Accepted' = Accepted /\ lost' = lost
      BY <1>4 DEF RecvData, Accepted
    <2>2. Queued = Queued' \cup {channel[1].id}
      BY <1>4, RecvDataMoves, PopQueued DEF RecvData
    <2> QED BY <1>4, <2>1, <2>2, RecvDataMoves
  <1>5. CASE RecvFlush
    <2>1. Queued = Queued'
      BY <1>5, PopQueued DEF RecvFlush, IsData, Signals
    <2>2. Accepted' = Accepted /\ lost' = lost
      BY <1>5 DEF RecvFlush, Accepted
    <2> QED BY <1>5, <2>1, <2>2, FlushAllMoves DEF RecvFlush
  <1>6. CASE RecvShutdown
    <2>1. Queued = Queued'
      <3>1. CASE channel # <<>> /\ Head(channel).kind = "shutdown" /\ Pop
        BY <3>1, PopQueued DEF IsData, Signals
      <3>2. CASE UNCHANGED channelVars
        BY <3>2 DEF channelVars, Queued
      <3> QED BY <1>6, <3>1, <3>2 DEF RecvShutdown
    <2>2. Accepted' = Accepted /\ lost' = lost
      BY <1>6 DEF RecvShutdown, Accepted
    <2> QED BY <1>6, <2>1, <2>2, FlushAllMoves DEF RecvShutdown
  <1>7. CASE Tick
    <2>1. Accepted' = Accepted /\ lost' = lost /\ Queued' = Queued
      BY <1>7 DEF Tick, Accepted, Queued, channelVars
    <2> QED BY <1>7, <2>1, FlushAllMoves DEF Tick
  <1>8. CASE FlushDone
    BY <1>8 DEF FlushDone, Accepted, Queued, InBatch, InTasks, channelVars, history
  <1>9. CASE LoopEnd
    <2>1. Accepted' = Accepted /\ InTasks' = InTasks /\ discarded' = discarded
      BY <1>9 DEF LoopEnd, Accepted, InTasks
    <2> QED BY <1>9, <2>1, ClosePlaces DEF LoopEnd
  <1>10. CASE RuntimeDropped
    <2>1. Accepted' = Accepted /\ discarded' = discarded
      BY <1>10 DEF RuntimeDropped, Accepted
    <2>2. InTasks' = InTasks
      BY <1>10, RuntimeDroppedFacts, InTasksKept DEF TasksStable
    <2> QED BY <1>10, <2>1, <2>2, ClosePlaces DEF RuntimeDropped
  <1>11. ASSUME NEW t \in DOMAIN tasks, TaskStep(t) PROVE Covered'
    <2>1. InTasks' = InTasks
      <3>1. \A u \in DOMAIN tasks : tasks'[u].payload = tasks[u].payload
        BY <1>11, TaskStepFacts
      <3> QED BY <1>11, <3>1, TaskStepFacts, InTasksKept
    <2> QED BY <1>11, <2>1, TaskStepFacts DEF Accepted, Queued, InBatch, channelVars, history
  <1>12. CASE DropHandles \/ Terminated \/ UNCHANGED vars
    BY <1>12 DEF DropHandles, Terminated, vars, Accepted, Queued, InBatch, InTasks, channelVars,
                 exportVars, history
  <1> QED BY <1>1, <1>2, <1>3, <1>4, <1>5, <1>6, <1>7, <1>8, <1>9, <1>10, <1>11, <1>12
          DEF Next, LoopStep

-----------------------------------------------------------------------------
(***************************************************************************)
(* The export tasks while the loop is alive and after it.                  *)
(***************************************************************************)

TaskInv == JoinSetCovers /\ OpenClean /\ ClosedClean

\* Spawning reaps finished tasks only.
LEMMA SpawnCovers ==
  ASSUME TypeOK, JoinSetCovers, NEW new \in Seq(Fresh), Spawn(new)
  PROVE  JoinSetCovers'
  <1>1. /\ Len(tasks) \in Nat /\ DOMAIN tasks = 1..Len(tasks) /\ Len(new) \in Nat
        /\ new \in Seq(Task) /\ tasks \in Seq(Task)
    BY SeqElements DEF TypeOK, Fresh
  <1>2. DOMAIN tasks' = 1..(Len(tasks) + Len(new))
    BY <1>1, ConcatProperties, LenProperties DEF Spawn
  <1>3. ASSUME NEW t \in DOMAIN tasks', t \notin joinSet' PROVE Finished(t)'
    <2>1. t \in DOMAIN tasks
      BY <1>1, <1>2, <1>3 DEF Spawn
    <2>2. tasks'[t] = tasks[t]
      BY <2>1, SpawnType DEF TypeOK
    <2>3. Finished(t)
      BY <1>3, <2>1 DEF Spawn, JoinSetCovers
    <2> QED BY <2>2, <2>3 DEF Finished
  <1> QED BY <1>3 DEF JoinSetCovers

LEMMA TaskInvStep ==
  ASSUME TypeOK, TypeOK', TaskInv, [Next]_vars
  PROVE  TaskInv'
  <1>1. CASE RecvData \/ RecvFlush \/ RecvShutdown \/ Tick
    <2>1. TasksGrow
      BY <1>1, LoopGrowsTasks DEF LoopStep
    <2>2. JoinSetCovers'
      <3>1. CASE RecvData
        <4>1. Head(channel).kind \in Signals /\ Head(channel).id \in 1..MaxSends
          BY <3>1, PopType, MessageType DEF RecvData
        <4>a. batch[Head(channel).kind] \in Seq(1..MaxSends)
          BY <4>1 DEF TypeOK
        <4>2. PICK s \in Signals, messages \in Seq(1..MaxSends) :
                s = Head(channel).kind /\ messages = Append(batch[s], Head(channel).id)
          BY <4>1, <4>a, AppendProperties
        <4>3. FlushBatch(s, messages) \in Seq(Fresh) /\ <<>> \in Seq(Fresh)
          BY FlushBatchType
        <4>4. PICK new \in Seq(Fresh) : Spawn(new)
          BY <3>1, <4>2, <4>3 DEF RecvData
        <4> QED BY <4>4, SpawnCovers DEF TaskInv
      <3>2. CASE RecvFlush \/ RecvShutdown \/ Tick
        <4>1. Spawn(NewTasks) /\ NewTasks \in Seq(Fresh)
          BY <3>2, NewTasksType DEF RecvFlush, RecvShutdown, Tick, FlushAll, TypeOK
        <4> QED BY <4>1, SpawnCovers DEF TaskInv
      <3> QED BY <1>1, <3>1, <3>2
    <2>3. ~Closed /\ ~Closed' /\ lost' = lost
      BY <1>1 DEF RecvData, RecvFlush, RecvShutdown, Tick, Closed, loopVars
    <2>4. \A t \in DOMAIN tasks' : tasks'[t].pc # "cancelled"
      BY <2>1, <2>3 DEF TasksGrow, TaskInv, OpenClean, Fresh
    <2> QED BY <2>2, <2>3, <2>4 DEF TaskInv, OpenClean, ClosedClean
  <1>2. CASE FlushDone
    <2>1. tasks' = tasks /\ lost' = lost /\ ~Closed /\ ~Closed' /\ joinSet' = {} /\ Joined
      BY <1>2 DEF FlushDone, Closed, history
    <2> QED BY <2>1 DEF TaskInv, OpenClean, ClosedClean, JoinSetCovers, Joined, Finished
  <1>3. CASE LoopEnd
    <2>1. tasks' = tasks /\ Closed' /\ Joined /\ Close
      BY <1>3 DEF LoopEnd, Closed
    <2>2. \A t \in DOMAIN tasks' : Finished(t)'
      BY <2>1 DEF TaskInv, JoinSetCovers, Joined, Finished
    <2>3. \A c \in Calls : call'[c] \in {"idle", "done", "aborted"}
      BY <2>1 DEF Close, Return, TypeOK
    <2> QED BY <2>1, <2>2, <2>3
            DEF TaskInv, JoinSetCovers, OpenClean, ClosedClean, Close, Free, NoBatch
  <1>4. CASE RuntimeDropped
    <2>1. Closed' /\ Close
      BY <1>4 DEF RuntimeDropped, Closed
    <2>2. \A t \in DOMAIN tasks' : Finished(t)'
      BY <1>4, RuntimeDroppedFacts DEF Finished
    <2>3. \A c \in Calls : call'[c] \in {"idle", "done", "aborted"}
      BY <2>1 DEF Close, Return, TypeOK
    <2> QED BY <2>1, <2>2, <2>3
            DEF TaskInv, JoinSetCovers, OpenClean, ClosedClean, Close, Free, NoBatch
  <1>5. ASSUME NEW t \in DOMAIN tasks, TaskStep(t) PROVE TaskInv'
    <2>1. ~Finished(t)
      BY <1>5, TaskStepFacts DEF Finished
    <2>2. ~Closed /\ t \in joinSet
      BY <2>1 DEF TaskInv, ClosedClean, JoinSetCovers
    <2>3. ~Closed' /\ lost' = lost /\ joinSet' = joinSet
      BY <1>5, <2>2, TaskStepFacts DEF Closed, loopVars, history
    <2>4. JoinSetCovers'
      BY <1>5, <2>2, <2>3, TaskStepFacts DEF TaskInv, JoinSetCovers, Finished
    <2>5. OpenClean'
      BY <1>5, <2>2, <2>3, TaskStepFacts DEF TaskInv, OpenClean
    <2> QED BY <2>3, <2>4, <2>5 DEF TaskInv, ClosedClean
  <1>6. CASE UNCHANGED <<tasks, joinSet, lost, loop>>
             /\ (Closed => /\ UNCHANGED <<channel, waiters, batch>>
                           /\ \A c \in Calls : call'[c] \in {call[c], "aborted"})
    <2>1. JoinSetCovers' /\ OpenClean'
      BY <1>6 DEF TaskInv, JoinSetCovers, OpenClean, Finished, Closed
    <2>2. ClosedClean'
      BY <1>6 DEF TaskInv, ClosedClean, Finished, Closed, NoBatch
    <2> QED BY <2>1, <2>2 DEF TaskInv
  <1>7. ASSUME NEW s \in Emitted, Send(s) PROVE TaskInv'
    BY <1>6, <1>7 DEF Send, exportVars, loopVars
  <1>8. ASSUME NEW c \in Calls, Call(c) PROVE TaskInv'
    <2>1. Closed => \A d \in Calls : call'[d] \in {call[d], "aborted"}
      BY <1>8 DEF Call, TypeOK
    <2> QED BY <1>6, <1>8, <2>1 DEF Call, exportVars, loopVars, history
  <1>9. ASSUME NEW c \in Calls, Enqueue(c) PROVE TaskInv'
    BY <1>6, <1>9 DEF Enqueue, exportVars, loopVars
  <1>10. CASE DropHandles \/ Terminated \/ UNCHANGED vars
    BY <1>6, <1>10 DEF DropHandles, Terminated, vars, channelVars, exportVars, loopVars, history
  <1> QED BY <1>1, <1>2, <1>3, <1>4, <1>5, <1>7, <1>8, <1>9, <1>10 DEF Next, LoopStep

-----------------------------------------------------------------------------
(***************************************************************************)
(* Marks: what is behind a flush or a shutdown in the queue came after it. *)
(***************************************************************************)

\* The call of a message that is not telemetry.
LEMMA MessageCall ==
  ASSUME TypeOK, NEW k \in DOMAIN channel, ~IsData(k)
  PROVE  channel[k].id \in Calls /\ (IsFlush(k) \/ channel[k].kind = "shutdown")
  <1>1. channel[k] \in ExportMessage
    BY SeqElements DEF TypeOK
  <1> QED BY <1>1 DEF ExportMessage, IsData, IsFlush, Calls

\* A call keeps the mark it was queued with, and stays done.
LEMMA CallsStable ==
  ASSUME TypeOK, QueueInv, [Next]_vars, NEW c \in Calls
  PROVE  /\ call[c] # "granted" => mark'[c] = mark[c]
         /\ call[c] \in {"done", "aborted"} => call'[c] = call[c]
  <1>1. CASE mark' = mark /\ call' = call
    BY <1>1
  <1>2. ASSUME NEW d \in Calls, Call(d) PROVE mark' = mark /\ (call[c] # "idle" => call'[c] = call[c])
    BY <1>2 DEF Call, TypeOK, history
  <1>3. ASSUME NEW d \in Calls, Enqueue(d)
        PROVE  /\ call[c] # "granted" => mark'[c] = mark[c]
               /\ call[c] # "granted" => call'[c] = call[c]
    BY <1>3 DEF Enqueue, TypeOK
  <1>4. CASE RecvData \/ RecvFlush \/ RecvShutdown \/ Tick
    <2>1. mark' = mark /\ ~Closed
      BY <1>4 DEF RecvData, RecvFlush, RecvShutdown, Tick, Closed
    <2>2. (channel # <<>> /\ Pop) \/ call' = call
      BY <1>4 DEF RecvData, RecvFlush, RecvShutdown, Tick
    <2> QED BY <2>1, <2>2, PopSlots
  <1>5. CASE FlushDone
    <2>1. call[serving] = "queued"
      BY <1>5 DEF QueueInv, FlushQueued, FlushDone
    <2> QED BY <1>5, <2>1 DEF FlushDone, TypeOK, history
  <1>6. CASE LoopEnd \/ RuntimeDropped
    BY <1>6 DEF LoopEnd, RuntimeDropped, Close, Return, TypeOK
  <1>7. (\E s \in Emitted : Send(s)) \/ DropHandles \/ (\E t \in DOMAIN tasks : TaskStep(t))
          \/ Terminated \/ UNCHANGED vars => mark' = mark /\ call' = call
    BY DEF Send, DropHandles, TaskStep, Acquire, PostOk, PostFailed, BackoffEnd, Terminated,
           vars, history
  <1> QED BY <1>1, <1>2, <1>3, <1>4, <1>5, <1>6, <1>7 DEF Next, LoopStep

LEMMA MarksStep ==
  ASSUME TypeOK, TypeOK', QueueInv, QueueFollowsMarks, [Next]_vars
  PROVE  QueueFollowsMarks'
  <1>0. Len(offers) \in Nat /\ \A c \in Calls : mark[c] \in Nat
    BY LenProperties DEF TypeOK
  <1>1. ASSUME UNCHANGED <<offers, mark>>, channel # <<>>, Pop PROVE QueueFollowsMarks'
    <2>1. \A k \in DOMAIN channel' : k \in Nat \ {0} /\ k + 1 \in DOMAIN channel
                                     /\ channel'[k] = channel[k + 1]
      BY <1>1, TailElements DEF Pop, TypeOK
    <2>2. ASSUME NEW j \in DOMAIN channel', NEW k \in DOMAIN channel', j < k, ~IsData(j)', IsData(k)'
          PROVE  mark[channel'[j].id] < channel'[k].id
      <3>1. j + 1 < k + 1
        BY <2>1, <2>2
      <3>2. ~IsData(j + 1) /\ IsData(k + 1)
        BY <2>1, <2>2 DEF IsData
      <3> QED BY <2>1, <3>1, <3>2 DEF QueueFollowsMarks
    <2> QED BY <1>1, <2>2 DEF QueueFollowsMarks
  <1>2. ASSUME UNCHANGED <<offers, mark>>, channel' = channel \/ channel' = <<>>
        PROVE  QueueFollowsMarks'
    BY <1>2 DEF QueueFollowsMarks, IsData
  <1>3. ASSUME NEW s \in Emitted, Send(s) PROVE QueueFollowsMarks'
    <2>1. Len(offers') = Len(offers) + 1 /\ mark' = mark
      BY <1>3, SendPlaces, ExporterAssumption
    <2>2. \A c \in Calls : mark'[c] <= Len(offers')
      BY <1>0, <2>1 DEF QueueFollowsMarks
    <2>3. CASE channel' = channel
      BY <2>1, <2>2, <2>3 DEF QueueFollowsMarks, IsData
    <2>4. CASE channel' # channel
      <3> DEFINE m == Data(s, Len(offers) + 1)
      <3>1. channel' = Append(channel, m) /\ Len(offers) + 1 \in 1..MaxSends /\ s \in Signals
        BY <1>0, <1>3, <2>4, ExporterAssumption DEF Send
      <3>2. m \in ExportMessage /\ m.kind \in Signals /\ m.id = Len(offers) + 1
        BY <3>1 DEF Data, ExportMessage
      <3>0. channel \in Seq(ExportMessage)
        BY DEF TypeOK
      <3>3. /\ DOMAIN channel' = DOMAIN channel \cup {Len(channel) + 1} /\ Len(channel) \in Nat
            /\ \A k \in DOMAIN channel : k \in 1..Len(channel) /\ channel'[k] = channel[k]
            /\ channel'[Len(channel) + 1] = m
        BY <3>0, <3>1, <3>2, AppendElements
      <3>4. ASSUME NEW j \in DOMAIN channel', NEW k \in DOMAIN channel',
                   j < k, ~IsData(j)', IsData(k)'
            PROVE  mark'[channel'[j].id] < channel'[k].id
        <4>1. j \in DOMAIN channel /\ channel'[j] = channel[j] /\ ~IsData(j)
          BY <3>2, <3>3, <3>4 DEF IsData
        <4>2. CASE k \in DOMAIN channel
          BY <2>1, <3>3, <3>4, <4>1, <4>2 DEF QueueFollowsMarks, IsData
        <4>3. CASE k = Len(channel) + 1
          <5>1. channel[j].id \in Calls
            BY <4>1, MessageCall
          <5> QED BY <1>0, <2>1, <3>2, <3>3, <4>1, <4>3, <5>1 DEF QueueFollowsMarks
        <4> QED BY <3>3, <4>2, <4>3
      <3> QED BY <2>2, <3>4 DEF QueueFollowsMarks
    <2> QED BY <2>3, <2>4
  <1>4. ASSUME NEW c \in Calls, Enqueue(c) PROVE QueueFollowsMarks'
    <2>1. /\ mark' = [mark EXCEPT ![c] = Len(offers)] /\ offers' = offers /\ call[c] = "granted"
          /\ channel' = Append(channel, Message(c))
      BY <1>4 DEF Enqueue
    <2>2. Message(c) \in ExportMessage /\ Message(c).kind \notin Signals
      BY DEF Message, Flush, Shutdown, ExportMessage, Calls, Signals
    <2>3. /\ DOMAIN channel' = DOMAIN channel \cup {Len(channel) + 1} /\ Len(channel) \in Nat
          /\ \A k \in DOMAIN channel : k \in 1..Len(channel) /\ channel'[k] = channel[k]
          /\ channel'[Len(channel) + 1] = Message(c)
      BY <2>1, <2>2, AppendElements DEF TypeOK
    <2>4. \A d \in Calls : mark'[d] <= Len(offers')
      BY <1>0, <2>1 DEF QueueFollowsMarks, TypeOK
    <2>5. ASSUME NEW j \in DOMAIN channel', NEW k \in DOMAIN channel',
                 j < k, ~IsData(j)', IsData(k)'
          PROVE  mark'[channel'[j].id] < channel'[k].id
      <3>1. k \in DOMAIN channel /\ channel'[k] = channel[k] /\ IsData(k)
        BY <2>2, <2>3, <2>5 DEF IsData
      <3>2. j \in DOMAIN channel /\ channel'[j] = channel[j] /\ ~IsData(j)
        BY <2>3, <2>5, <3>1 DEF IsData
      <3>3. channel[j].id \in Calls /\ channel[j].id # c
        BY <2>1, <3>2, MessageCall DEF QueueInv, FlushQueued, ShutdownQueued
      <3> QED BY <2>1, <2>5, <3>1, <3>2, <3>3 DEF QueueFollowsMarks, TypeOK
    <2> QED BY <2>4, <2>5 DEF QueueFollowsMarks
  <1>5. CASE RecvData \/ RecvFlush
    BY <1>1, <1>5 DEF RecvData, RecvFlush
  <1>6. CASE RecvShutdown
    BY <1>1, <1>2, <1>6 DEF RecvShutdown, channelVars
  <1>7. CASE LoopEnd \/ RuntimeDropped
    BY <1>2, <1>7 DEF LoopEnd, RuntimeDropped, Close, Free
  <1>8. CASE Tick \/ FlushDone \/ DropHandles \/ Terminated \/ UNCHANGED vars
    BY <1>2, <1>8 DEF Tick, FlushDone, DropHandles, Terminated, vars, channelVars, history
  <1>9. ASSUME NEW c \in Calls, Call(c) PROVE QueueFollowsMarks'
    BY <1>2, <1>9 DEF Call, history
  <1>10. ASSUME NEW t \in DOMAIN tasks, TaskStep(t) PROVE QueueFollowsMarks'
    BY <1>2, <1>10, TaskStepFacts DEF channelVars, history
  <1> QED BY <1>3, <1>4, <1>5, <1>6, <1>7, <1>8, <1>9, <1>10 DEF Next, LoopStep

-----------------------------------------------------------------------------
(***************************************************************************)
(* The barrier of a flush, and the drain of a graceful stop.               *)
(***************************************************************************)

\* Only a send adds a message to those accepted or queued, and it is the
\* newest; without a handle nobody sends.
LEMMA NewestOnly ==
  ASSUME TypeOK, [Next]_vars
  PROVE  /\ Accepted' \subseteq Accepted \cup {Len(offers) + 1}
         /\ Queued' \subseteq Queued \cup {Len(offers) + 1}
         /\ ~handles => ~handles' /\ Queued' \subseteq Queued
  <1> DEFINE Goal == /\ Accepted' \subseteq Accepted \cup {Len(offers) + 1}
                     /\ Queued' \subseteq Queued \cup {Len(offers) + 1}
                     /\ ~handles => ~handles' /\ Queued' \subseteq Queued
  <1>1. ASSUME NEW s \in Emitted, Send(s) PROVE Goal
    BY <1>1, SendPlaces, ExporterAssumption
  <1>2. ASSUME UNCHANGED <<offers, handles>>, Queued' \subseteq Queued PROVE Goal
    BY <1>2 DEF Accepted
  <1>3. ASSUME NEW c \in Calls, Call(c) PROVE Goal
    BY <1>2, <1>3 DEF Call, Queued, history
  <1>4. ASSUME NEW c \in Calls, Enqueue(c) PROVE Goal
    BY <1>2, <1>4, EnqueuePlaces DEF Enqueue
  <1>5. CASE RecvData \/ RecvFlush
    BY <1>2, <1>5, PopQueued DEF RecvData, RecvFlush
  <1>6. CASE RecvShutdown
    BY <1>2, <1>6, PopQueued DEF RecvShutdown, channelVars, Queued
  <1>7. CASE LoopEnd \/ RuntimeDropped
    BY <1>2, <1>7, ClosePlaces DEF LoopEnd, RuntimeDropped
  <1>8. CASE Tick \/ FlushDone \/ Terminated \/ UNCHANGED vars
    BY <1>2, <1>8 DEF Tick, FlushDone, Terminated, vars, channelVars, history, Queued
  <1>9. CASE DropHandles
    BY <1>9 DEF DropHandles, channelVars, history, Queued, Accepted
  <1>10. ASSUME NEW t \in DOMAIN tasks, TaskStep(t) PROVE Goal
    BY <1>2, <1>10, TaskStepFacts DEF channelVars, history, Queued
  <1> QED BY <1>1, <1>3, <1>4, <1>5, <1>6, <1>7, <1>8, <1>9, <1>10 DEF Next, LoopStep

\* The types that comparing a message with a mark needs.
LEMMA OffersType ==
  ASSUME TypeOK
  PROVE  /\ Len(offers) \in Nat /\ DOMAIN offers = 1..Len(offers)
         /\ \A c \in Calls : mark[c] \in Nat
  <1>1. /\ offers \in Seq([signal : Signals, outcome : {"accepted", "full", "closed"}])
        /\ mark \in [Calls -> 0..MaxSends]
    BY DEF TypeOK
  <1>2. Len(offers) \in Nat /\ DOMAIN offers = 1..Len(offers)
    BY <1>1, SeqElements
  <1>3. \A c \in Calls : mark[c] \in Nat
    BY <1>1
  <1> QED BY <1>2, <1>3

\* A message within the mark of a call that has queued its own is not new.
LEMMA MarkedIsOld ==
  ASSUME TypeOK, TypeOK', QueueInv, QueueFollowsMarks, [Next]_vars,
         NEW c \in Calls, call[c] # "granted", NEW n \in Accepted', n <= mark'[c]
  PROVE  n \in Accepted /\ n <= mark[c]
  <1>1. mark'[c] = mark[c] /\ mark[c] <= Len(offers) /\ mark[c] \in Nat /\ Len(offers) \in Nat
    BY CallsStable, OffersType DEF QueueFollowsMarks
  <1>2. n \in Nat
    <2>1. DOMAIN offers' = 1..Len(offers') /\ Len(offers') \in Nat
      BY SeqElements DEF TypeOK
    <2> QED BY <2>1 DEF Accepted
  <1> QED BY <1>1, <1>2, NewestOnly

LEMMA FlushServedStep ==
  ASSUME TypeOK, TypeOK', QueueInv, QueueFollowsMarks, OpenClean, Covered', FlushServed,
         [Next]_vars
  PROVE  FlushServed'
  <1> SUFFICES ASSUME loop' = "flushing", NEW n \in Accepted', n <= mark'[serving']
               PROVE  n \in InTasks' \cup discarded'
    BY DEF FlushServed
  <1>0. n \in Nat
    <2>1. DOMAIN offers' = 1..Len(offers') /\ Len(offers') \in Nat
      BY SeqElements DEF TypeOK
    <2> QED BY <2>1 DEF Accepted
  <1>1. CASE RecvFlush
    <2>1. /\ serving' = channel[1].id /\ ~IsData(1) /\ 1 \in DOMAIN channel
          /\ mark' = mark /\ lost' = {} /\ FlushAll
      BY <1>1, PopQueued DEF RecvFlush, IsData, Signals, OpenClean, Closed
    <2>2. n \notin Queued'
      <3> SUFFICES ASSUME n \in Queued' PROVE FALSE
        OBVIOUS
      <3>1. PICK k \in DOMAIN channel : k > 1 /\ IsData(k) /\ channel[k].id = n
        BY <1>1, PopQueued DEF RecvFlush
      <3>2. mark[serving'] < n
        BY <2>1, <3>1 DEF QueueFollowsMarks
      <3>3. mark[serving'] \in Nat /\ n \in Nat
        <4>1. serving' \in Calls
          BY <2>1, MessageCall
        <4> QED BY <1>0, <4>1 DEF TypeOK
      <3>4. n <= mark[serving']
        BY <2>1
      <3> QED BY <3>2, <3>3, <3>4
    <2> QED BY <2>1, <2>2, FlushAllMoves DEF Covered, Places
  <1>2. CASE ~RecvFlush
    <2>1. loop = "flushing" /\ serving' = serving
      BY <1>2 DEF Next, Send, Call, Enqueue, DropHandles, LoopStep, RecvData, RecvShutdown, Tick,
                  FlushDone, LoopEnd, RuntimeDropped, TaskStep, Acquire, PostOk, PostFailed,
                  BackoffEnd, Terminated, vars, loopVars
    <2>2. serving \in Calls /\ call[serving] # "granted"
      BY <2>1 DEF TypeOK, QueueInv, FlushQueued, Calls
    <2>3. n \in InTasks \cup discarded
      BY <2>1, <2>2, MarkedIsOld DEF FlushServed
    <2> QED BY <2>3, StepStable DEF TasksStable, InTasks
  <1> QED BY <1>1, <1>2

\* A flusher is done only when the loop has joined its exports.
LEMMA OnlyFlushDone ==
  ASSUME TypeOK, QueueInv, [Next]_vars, NEW c \in Flushers, call'[c] = "done", call[c] # "done"
  PROVE  FlushDone /\ c = serving
  <1>0. c \in Calls
    BY DEF Calls
  <1>1. ASSUME NEW d \in Calls, Call(d) PROVE FALSE
    BY <1>0, <1>1 DEF Call, TypeOK
  <1>2. ASSUME NEW d \in Calls, Enqueue(d) PROVE FALSE
    BY <1>0, <1>2 DEF Enqueue, TypeOK
  <1>3. CASE RecvData \/ RecvFlush \/ RecvShutdown \/ Tick
    <2>1. (channel # <<>> /\ Pop /\ ~Closed) \/ call' = call
      BY <1>3 DEF RecvData, RecvFlush, RecvShutdown, Tick, Closed
    <2> QED BY <1>0, <2>1, PopSlots
  <1>4. CASE LoopEnd \/ RuntimeDropped
    BY <1>0, <1>4 DEF LoopEnd, RuntimeDropped, Close, Return
  <1>5. ASSUME NEW t \in DOMAIN tasks, TaskStep(t) PROVE FALSE
    BY <1>5, TaskStepFacts
  <1>6. FlushDone
    BY <1>1, <1>2, <1>3, <1>4, <1>5 DEF Next, LoopStep, Send, DropHandles, Terminated, vars
  <1>7. c = serving
    BY <1>0, <1>6 DEF FlushDone, TypeOK
  <1> QED BY <1>6, <1>7

LEMMA FlushBarrierStep ==
  ASSUME TypeOK, TypeOK', QueueInv, QueueFollowsMarks, JoinSetCovers, OpenClean, FlushServed,
         FlushBarrier, [Next]_vars
  PROVE  FlushBarrier'
  <1> SUFFICES ASSUME NEW c \in Flushers, call'[c] = "done", NEW n \in Accepted', n <= mark'[c]
               PROVE  Settled(n)'
    BY DEF FlushBarrier
  <1>0. c \in Calls
    BY DEF Calls
  <1>1. CASE call[c] = "done"
    <2>1. Settled(n)
      BY <1>0, <1>1, MarkedIsOld DEF FlushBarrier
    <2> QED BY <2>1, SettledStable
  <1>2. CASE call[c] # "done"
    <2>1. FlushDone /\ c = serving
      BY <1>2, OnlyFlushDone
    <2>2. /\ loop = "flushing" /\ Joined /\ ~Closed
          /\ offers' = offers /\ mark' = mark /\ discarded' = discarded /\ tasks' = tasks
      BY <2>1 DEF FlushDone, Closed, history
    <2>3. n \in InTasks \cup discarded
      BY <2>1, <2>2 DEF FlushServed, Accepted
    <2>4. \A t \in DOMAIN tasks : tasks[t].pc \in {"exported", "abandoned"}
      BY <2>2 DEF JoinSetCovers, Joined, OpenClean, Finished
    <2> QED BY <2>2, <2>3, <2>4 DEF InTasks, Settled
  <1> QED BY <1>1, <1>2

LEMMA StopServedStep ==
  ASSUME TypeOK, TypeOK', QueueInv, QueueFollowsMarks, StopServed, [Next]_vars
  PROVE  StopServed'
  <1> SUFFICES ASSUME loop' = "stopping"
               PROVE  /\ batch' = NoBatch
                      /\ \/ \E c \in Closers : call'[c] = "done" /\ \A n \in Queued' : mark'[c] < n
                         \/ Queued' = {} /\ ~handles'
    BY DEF StopServed
  <1>1. CASE RecvShutdown
    <2>1. batch' = NoBatch
      BY <1>1 DEF RecvShutdown, FlushAll
    <2>2. CASE channel # <<>> /\ Head(channel).kind = "shutdown" /\ Pop
      <3> DEFINE c == channel[1].id
      <3>1. 1 \in DOMAIN channel /\ channel[1].kind = "shutdown" /\ ~IsData(1)
        BY <2>2, PopQueued DEF IsData, Signals
      <3>2. c \in Closers /\ c \in Calls /\ call[c] = "done"
        BY <3>1, SeqElements, MessageType DEF TypeOK, QueueInv, ShutdownQueued, Calls
      <3>3. call'[c] = "done" /\ mark'[c] = mark[c]
        BY <3>2, CallsStable
      <3>4. \A n \in Queued' : mark[c] < n
        BY <2>2, <3>1, PopQueued DEF QueueFollowsMarks
      <3> QED BY <2>1, <3>2, <3>3, <3>4
    <2>3. CASE channel = <<>> /\ ~handles /\ UNCHANGED <<channelVars, call>>
      <3>1. Queued' = {} /\ ~handles'
        BY <1>1, <2>3 DEF RecvShutdown, channelVars, Queued
      <3> QED BY <2>1, <3>1
    <2> QED BY <1>1, <2>1, <2>2, <2>3 DEF RecvShutdown
  <1>2. CASE ~RecvShutdown
    <2>1. loop = "stopping" /\ batch' = batch
      BY <1>2 DEF Next, Send, Call, Enqueue, DropHandles, LoopStep, RecvData, RecvFlush, Tick,
                  FlushDone, LoopEnd, RuntimeDropped, TaskStep, Acquire, PostOk, PostFailed,
                  BackoffEnd, Terminated, vars, loopVars
    <2>2. CASE \E c \in Closers : call[c] = "done" /\ \A n \in Queued : mark[c] < n
      <3>1. PICK c \in Closers : call[c] = "done" /\ \A n \in Queued : mark[c] < n
        BY <2>2
      <3>2. call'[c] = "done" /\ mark'[c] = mark[c] /\ mark[c] <= Len(offers) /\ mark[c] \in Nat
        BY <3>1, CallsStable, OffersType DEF Calls, QueueFollowsMarks
      <3>3. \A n \in Queued' : mark'[c] < n
        BY <3>1, <3>2, NewestOnly, OffersType
      <3> QED BY <2>1, <3>2, <3>3 DEF StopServed
    <2>3. CASE Queued = {} /\ ~handles
      BY <2>1, <2>3, NewestOnly DEF StopServed
    <2> QED BY <2>1, <2>2, <2>3 DEF StopServed
  <1> QED BY <1>1, <1>2

LEMMA ShutdownDrainsStep ==
  ASSUME TypeOK, QueueInv, OpenClean, StopServed, ShutdownDrains, [Next]_vars
  PROVE  ShutdownDrains'
  <1> SUFFICES ASSUME loop' # "cancelled", NEW n \in lost'
               PROVE  \E c \in Closers : call'[c] = "done" /\ mark'[c] < n
    BY DEF ShutdownDrains
  <1>1. CASE LoopEnd
    <2>1. loop = "stopping" /\ Close /\ lost = {} /\ mark' = mark
      BY <1>1 DEF LoopEnd, OpenClean, Closed
    <2>2. InBatch = {}
      BY <2>1 DEF StopServed, NoBatch, InBatch, Range
    <2>3. n \in Queued
      BY <2>1, <2>2, ClosePlaces
    <2>4. PICK c \in Closers : call[c] = "done" /\ mark[c] < n
      BY <2>1, <2>3 DEF StopServed
    <2>5. call'[c] = "done"
      BY <2>4, CallsStable DEF Calls
    <2> QED BY <2>1, <2>4, <2>5
  <1>2. CASE ~LoopEnd
    <2>1. lost' = lost /\ loop # "cancelled"
      BY <1>2 DEF Next, Send, Call, Enqueue, DropHandles, LoopStep, RecvData, RecvFlush, RecvShutdown,
                  Tick, FlushDone, RuntimeDropped, TaskStep, Acquire, PostOk, PostFailed,
                  BackoffEnd, Terminated, vars, loopVars, history
    <2>2. PICK c \in Closers : call[c] = "done" /\ mark[c] < n
      BY <2>1 DEF ShutdownDrains
    <2>3. call'[c] = "done" /\ mark'[c] = mark[c]
      BY <2>2, CallsStable DEF Calls
    <2> QED BY <2>2, <2>3
  <1> QED BY <1>1, <1>2

-----------------------------------------------------------------------------
(***************************************************************************)
(* The invariant, and what it gives.                                       *)
(***************************************************************************)

LEMMA IInvInit == Init => IInv
  <1> SUFFICES ASSUME Init PROVE IInv
    OBVIOUS
  <1>1. TypeOK /\ RetriesBounded /\ QueueInv
    BY TypeInit, QueueInit
  <1>2. DOMAIN offers = {} /\ DOMAIN channel = {} /\ DOMAIN tasks = {}
    BY DEF Init
  <1>3. InBatch = {}
    BY DEF Init, InBatch, NoBatch, Range
  <1>4. Covered
    BY <1>2, <1>3 DEF Init, Covered, Places, Accepted, Queued, InTasks
  <1>5. QueueFollowsMarks /\ JoinSetCovers /\ OpenClean /\ ClosedClean
    BY <1>2 DEF Init, QueueFollowsMarks, JoinSetCovers, OpenClean, ClosedClean, Closed
  <1>6. FlushServed /\ StopServed /\ FlushBarrier /\ ShutdownDrains
    BY DEF Init, FlushServed, StopServed, FlushBarrier, ShutdownDrains, Calls
  <1> QED BY <1>1, <1>4, <1>5, <1>6 DEF IInv, QueueInv

LEMMA IInvStep == IInv /\ [Next]_vars => IInv'
  <1> SUFFICES ASSUME IInv, [Next]_vars PROVE IInv'
    OBVIOUS
  <1>1. TypeOK /\ RetriesBounded /\ QueueInv /\ TaskInv
    BY DEF IInv, QueueInv, TaskInv
  <1>2. TypeOK' /\ RetriesBounded'
    BY <1>1, TypeStep
  <1>3. QueueInv' /\ TaskInv'
    BY <1>1, <1>2, QueueStep, TaskInvStep
  <1>4. QueueFollowsMarks' /\ Covered'
    BY <1>1, <1>2, MarksStep, PlacesStep DEF IInv
  <1>5. FlushServed' /\ StopServed'
    BY <1>1, <1>2, <1>4, FlushServedStep, StopServedStep DEF IInv
  <1>6. FlushBarrier' /\ ShutdownDrains'
    BY <1>1, <1>2, FlushBarrierStep, ShutdownDrainsStep DEF IInv
  <1> QED BY <1>2, <1>3, <1>4, <1>5, <1>6 DEF IInv, QueueInv, TaskInv

\* Every reachable state satisfies the inductive invariant.
THEOREM Invariance == Spec => []IInv
  BY IInvInit, IInvStep, PTL DEF Spec

\* An acknowledged flush() is a barrier: whatever the interleaving of sends,
\* flushes, retries and export tasks, what was accepted before is settled.
THEOREM Barrier == Spec => []FlushBarrier
  <1>1. IInv => FlushBarrier
    BY DEF IInv
  <1> QED BY <1>1, Invariance, PTL

\* A graceful stop loses no message that was accepted before a shutdown().
THEOREM Drains == Spec => []ShutdownDrains
  <1>1. IInv => ShutdownDrains
    BY DEF IInv
  <1> QED BY <1>1, Invariance, PTL

\* When the loop has returned or was cancelled, its tasks are over too.
THEOREM Quiet == Spec => QuietAfterEnd
  <1>1. IInv /\ [Next]_vars => [Closed => UNCHANGED <<tasks, batch, discarded, lost>>]_vars
    <2> SUFFICES ASSUME IInv, [Next]_vars, Closed
                 PROVE  UNCHANGED <<tasks, batch, discarded, lost>>
      OBVIOUS
    <2>1. ~LoopStep /\ ~RuntimeDropped
      BY DEF LoopStep, RecvData, RecvFlush, RecvShutdown, Tick, FlushDone, LoopEnd, RuntimeDropped,
             Closed
    <2>2. \A t \in DOMAIN tasks : ~TaskStep(t)
      BY TaskStepFacts DEF IInv, ClosedClean, Finished
    <2> QED BY <2>1, <2>2 DEF Next, Send, Call, Enqueue, DropHandles, Terminated, vars, exportVars,
                              history
  <1> QED BY <1>1, Invariance, PTL DEF QuietAfterEnd, Spec

-----------------------------------------------------------------------------
(***************************************************************************)
(* What a flush of some of the batches does.                               *)
(***************************************************************************)

Batches == [Signals -> Seq(1..MaxSends)]

\* The tasks q flush the batches m of signals in S: whole, and one task each.
Flushes(q, m, S) ==
  /\ q \in Seq(Fresh)
  /\ \A j \in DOMAIN q :
       q[j].signal \in S /\ q[j].payload = m[q[j].signal] /\ q[j].payload # <<>>
  /\ \A j, k \in DOMAIN q : q[j].signal = q[k].signal => j = k

LEMMA FlushBatchFlushes ==
  ASSUME NEW m \in Batches, NEW s \in Signals
  PROVE  Flushes(FlushBatch(s, m[s]), m, {s})
  <1>1. FlushBatch(s, m[s]) \in Seq(Fresh)
    BY FlushBatchType DEF Batches
  <1>2. CASE FlushBatch(s, m[s]) = <<>>
    BY <1>1, <1>2 DEF Flushes
  <1>3. CASE FlushBatch(s, m[s]) # <<>>
    <2> DEFINE t == [signal |-> s, payload |-> m[s], pc |-> "queued", failures |-> 0, copies |-> 0]
    <2>1. FlushBatch(s, m[s]) = <<t>> /\ m[s] # <<>>
      BY <1>3 DEF FlushBatch
    <2>2. t.signal = s /\ t.payload = m[s]
      OBVIOUS
    <2> HIDE DEF t
    <2>3. DOMAIN <<t>> = {1} /\ <<t>>[1] = t
      OBVIOUS
    <2> QED BY <1>1, <2>1, <2>2, <2>3 DEF Flushes
  <1> QED BY <1>2, <1>3

LEMMA ConcatElements ==
  ASSUME NEW S, NEW q \in Seq(S), NEW r \in Seq(S)
  PROVE  /\ q \o r \in Seq(S) /\ Len(q) \in Nat
         /\ \A k \in DOMAIN q : k \in DOMAIN (q \o r) /\ k <= Len(q) /\ (q \o r)[k] = q[k]
         /\ \A k \in DOMAIN (q \o r) :
              \/ k \in DOMAIN q
              \/ k \notin DOMAIN q /\ k > Len(q) /\ k - Len(q) \in DOMAIN r
                   /\ (q \o r)[k] = r[k - Len(q)]
  <1>1. /\ q \o r \in Seq(S) /\ Len(q \o r) = Len(q) + Len(r)
        /\ \A i \in 1..(Len(q) + Len(r)) : (q \o r)[i] = IF i <= Len(q) THEN q[i] ELSE r[i - Len(q)]
    BY ConcatProperties
  <1>2. /\ Len(q) \in Nat /\ Len(r) \in Nat /\ DOMAIN q = 1..Len(q) /\ DOMAIN r = 1..Len(r)
        /\ DOMAIN (q \o r) = 1..(Len(q) + Len(r))
    BY <1>1, LenProperties
  <1>3. \A k \in DOMAIN q : k \in DOMAIN (q \o r) /\ k <= Len(q) /\ (q \o r)[k] = q[k]
    BY <1>1, <1>2
  <1>4. ASSUME NEW k \in DOMAIN (q \o r), k \notin DOMAIN q
        PROVE  k > Len(q) /\ k - Len(q) \in DOMAIN r /\ (q \o r)[k] = r[k - Len(q)]
    <2>1. k \in 1..(Len(q) + Len(r)) /\ k > Len(q) /\ ~(k <= Len(q)) /\ k - Len(q) \in 1..Len(r)
      BY <1>2, <1>4
    <2> QED BY <1>1, <1>2, <2>1
  <1> QED BY <1>1, <1>2, <1>3, <1>4

LEMMA FlushesConcat ==
  ASSUME NEW m, NEW S, NEW T, S \cap T = {}, NEW q, NEW r, Flushes(q, m, S), Flushes(r, m, T)
  PROVE  Flushes(q \o r, m, S \cup T)
  <1>1. q \in Seq(Fresh) /\ r \in Seq(Fresh)
    BY DEF Flushes
  <1> DEFINE w == q \o r
  <1>2. /\ w \in Seq(Fresh) /\ Len(q) \in Nat
        /\ \A k \in DOMAIN w :
             \/ k \in DOMAIN q /\ w[k] = q[k]
             \/ k \notin DOMAIN q /\ k - Len(q) \in DOMAIN r /\ w[k] = r[k - Len(q)]
        /\ \A k \in DOMAIN w : k \in Nat
    BY <1>1, ConcatElements, SeqElements
  <1> HIDE DEF w
  <1>3. \A k \in DOMAIN w : w[k].signal \in S \cup T /\ w[k].payload = m[w[k].signal]
                            /\ w[k].payload # <<>>
    BY <1>2 DEF Flushes
  <1>4. ASSUME NEW j \in DOMAIN w, NEW k \in DOMAIN w, w[j].signal = w[k].signal
        PROVE  j = k
    <2>1. CASE j \in DOMAIN q /\ k \in DOMAIN q
      BY <1>2, <1>4, <2>1 DEF Flushes
    <2>2. CASE j \notin DOMAIN q /\ k \notin DOMAIN q
      <3>1. j - Len(q) = k - Len(q)
        BY <1>2, <1>4, <2>2 DEF Flushes
      <3> QED BY <1>2, <3>1
    <2>3. CASE j \in DOMAIN q /\ k \notin DOMAIN q
      BY <1>2, <1>4, <2>3 DEF Flushes
    <2>4. CASE j \notin DOMAIN q /\ k \in DOMAIN q
      BY <1>2, <1>4, <2>4 DEF Flushes
    <2> QED BY <2>1, <2>2, <2>3, <2>4
  <1> QED BY <1>2, <1>3, <1>4 DEF Flushes, w

LEMMA NewTasksFlush ==
  ASSUME TypeOK
  PROVE  Flushes(NewTasks, batch, Signals) /\ batch \in Batches
  <1>1. batch \in Batches
    BY DEF TypeOK, Batches
  <1>2. /\ Flushes(FlushBatch("traces", batch["traces"]), batch, {"traces"})
        /\ Flushes(FlushBatch("logs", batch["logs"]), batch, {"logs"})
        /\ Flushes(FlushBatch("metrics", batch["metrics"]), batch, {"metrics"})
    BY <1>1, FlushBatchFlushes DEF Signals
  <1>3. Flushes(FlushBatch("traces", batch["traces"]) \o FlushBatch("logs", batch["logs"]),
                batch, {"traces"} \cup {"logs"})
    BY <1>2, FlushesConcat
  <1>4. Flushes(NewTasks, batch, ({"traces"} \cup {"logs"}) \cup {"metrics"})
    BY <1>2, <1>3, FlushesConcat DEF NewTasks
  <1>5. ({"traces"} \cup {"logs"}) \cup {"metrics"} = Signals
    BY DEF Signals
  <1> QED BY <1>1, <1>4, <1>5

\* A step of the loop after which the batches are m, and then those of S empty:
\* each a payload of one new task, or cleared.
Flushed(m, S) ==
  /\ batch' = [s \in Signals |-> IF s \in S THEN <<>> ELSE m[s]]
  /\ discarded' = discarded \cup UNION {Range(m[s]) : s \in S \ Urls}
  /\ \A t \in DOMAIN tasks : t \in DOMAIN tasks' /\ tasks'[t] = tasks[t]
  /\ \A t \in DOMAIN tasks' \ DOMAIN tasks :
       /\ \A u \in DOMAIN tasks : u < t
       /\ tasks'[t].signal \in S \cap Urls
       /\ tasks'[t].payload = m[tasks'[t].signal] /\ tasks'[t].payload # <<>>
  /\ \A t, u \in DOMAIN tasks' \ DOMAIN tasks : tasks'[t].signal = tasks'[u].signal => t = u

LEMMA SpawnFlushes ==
  ASSUME TypeOK, NEW m, NEW S, NEW q, Flushes(q, m, S), Spawn(q)
  PROVE  /\ \A t \in DOMAIN tasks : t \in DOMAIN tasks' /\ tasks'[t] = tasks[t]
         /\ \A t \in DOMAIN tasks' \ DOMAIN tasks :
              /\ \A u \in DOMAIN tasks : u < t
              /\ tasks'[t].signal \in S \cap Urls
              /\ tasks'[t].payload = m[tasks'[t].signal] /\ tasks'[t].payload # <<>>
         /\ \A t, u \in DOMAIN tasks' \ DOMAIN tasks : tasks'[t].signal = tasks'[u].signal => t = u
  <1>1. q \in Seq(Task) /\ q \in Seq(Fresh) /\ tasks \in Seq(Task) /\ tasks' = tasks \o q
    BY DEF Flushes, Fresh, TypeOK, Spawn
  <1>2. /\ Len(tasks) \in Nat /\ DOMAIN tasks = 1..Len(tasks)
        /\ \A k \in DOMAIN q : q[k].signal \in Urls
    BY <1>1, SeqElements DEF Fresh
  <1>3. /\ \A t \in DOMAIN tasks : t \in DOMAIN tasks' /\ tasks'[t] = tasks[t]
        /\ \A t \in DOMAIN tasks' \ DOMAIN tasks :
             t > Len(tasks) /\ t - Len(tasks) \in DOMAIN q /\ tasks'[t] = q[t - Len(tasks)]
        /\ \A t \in DOMAIN tasks' : t \in Nat
    BY <1>1, ConcatElements, SeqElements
  <1>4. ASSUME NEW t \in DOMAIN tasks' \ DOMAIN tasks
        PROVE  /\ \A u \in DOMAIN tasks : u < t
               /\ tasks'[t].signal \in S \cap Urls
               /\ tasks'[t].payload = m[tasks'[t].signal] /\ tasks'[t].payload # <<>>
    <2>1. \A u \in DOMAIN tasks : u < t
      BY <1>2, <1>3
    <2> QED BY <1>2, <1>3, <2>1 DEF Flushes
  <1>5. ASSUME NEW t \in DOMAIN tasks' \ DOMAIN tasks, NEW u \in DOMAIN tasks' \ DOMAIN tasks,
               tasks'[t].signal = tasks'[u].signal
        PROVE  t = u
    <2>1. t - Len(tasks) = u - Len(tasks)
      BY <1>3, <1>5 DEF Flushes
    <2> QED BY <1>2, <1>3, <2>1
  <1> QED BY <1>3, <1>4, <1>5

LEMMA FlushAllFlushed ==
  ASSUME TypeOK, FlushAll
  PROVE  Flushed(batch, Signals)
  <1>1. batch' = [s \in Signals |-> IF s \in Signals THEN <<>> ELSE batch[s]]
    BY DEF FlushAll, NoBatch
  <1>2. discarded' = discarded \cup UNION {Range(batch[s]) : s \in Signals \ Urls}
    BY DEF FlushAll, Cleared
  <1> QED BY <1>1, <1>2, NewTasksFlush, SpawnFlushes DEF FlushAll, Flushed

\* The batches once the message at the head of the queue is in its own.
Received == [s \in Signals |->
               IF s = Head(channel).kind THEN Append(batch[s], Head(channel).id) ELSE batch[s]]

LEMMA ReceivedIs ==
  ASSUME TypeOK, RecvData
  PROVE  /\ Received \in Batches /\ Head(channel) = channel[1] /\ IsData(1) /\ 1 \in DOMAIN channel
         /\ channel[1].kind \in Signals /\ channel[1].id \in 1..MaxSends
         /\ \A s \in Signals : s # channel[1].kind => Received[s] = batch[s]
         /\ Received[channel[1].kind] = Append(batch[channel[1].kind], channel[1].id)
  <1>1. channel[1] = Head(channel) /\ 1 \in DOMAIN channel /\ IsData(1)
    BY PopQueued DEF RecvData, IsData
  <1>2. Head(channel).kind \in Signals /\ Head(channel).id \in 1..MaxSends
    BY PopType, MessageType DEF RecvData
  <1>3. \A s \in Signals : Append(batch[s], Head(channel).id) \in Seq(1..MaxSends)
    BY <1>2, AppendProperties DEF TypeOK
  <1>4. Received \in Batches
    BY <1>3 DEF Received, Batches, TypeOK
  <1> QED BY <1>1, <1>2, <1>4 DEF Received

LEMMA RecvDataFlushed ==
  ASSUME TypeOK, RecvData
  PROVE  \E S \in SUBSET Signals :
           /\ Flushed(Received, S)
           /\ \A s \in Signals : s \in S <=> s = channel[1].kind /\ Full(Received[s])
  <1>1. PICK m \in Batches, s \in Signals, messages \in Seq(1..MaxSends) :
          /\ m = Received /\ s = channel[1].kind
          /\ messages = Append(batch[s], channel[1].id) /\ messages = m[s]
    BY ReceivedIs DEF Batches
  <1>2. /\ Head(channel) = channel[1] /\ batch \in Batches
        /\ \A r \in Signals : r # s => m[r] = batch[r]
    BY <1>1, ReceivedIs DEF TypeOK, Batches
  <1>3. CASE Full(messages)
    <2>1. /\ batch' = [batch EXCEPT ![s] = <<>>] /\ Spawn(FlushBatch(s, messages))
          /\ discarded' = discarded \cup Cleared(s, messages)
      BY <1>1, <1>2, <1>3 DEF RecvData
    <2>2. Flushes(FlushBatch(s, messages), m, {s})
      BY <1>1, FlushBatchFlushes
    <2>3. batch' = [r \in Signals |-> IF r \in {s} THEN <<>> ELSE m[r]]
      BY <1>1, <1>2, <2>1 DEF Batches
    <2>4. Cleared(s, messages) = UNION {Range(m[r]) : r \in {s} \ Urls}
      BY <1>1 DEF Cleared
    <2>5. Flushed(m, {s})
      BY <2>1, <2>2, <2>3, <2>4, SpawnFlushes DEF Flushed
    <2> QED BY <1>1, <1>3, <2>5
  <1>4. CASE ~Full(messages)
    <2>1. /\ batch' = [batch EXCEPT ![s] = messages] /\ Spawn(<<>>) /\ discarded' = discarded
      BY <1>1, <1>2, <1>4 DEF RecvData
    <2>2. Flushes(<<>>, m, {})
      BY DEF Flushes
    <2>3. batch' = [r \in Signals |-> IF r \in {} THEN <<>> ELSE m[r]]
      BY <1>1, <1>2, <2>1 DEF Batches
    <2>4. discarded' = discarded \cup UNION {Range(m[r]) : r \in {} \ Urls}
      BY <2>1
    <2>5. Flushed(m, {})
      BY <2>1, <2>2, <2>3, <2>4, SpawnFlushes DEF Flushed
    <2> QED BY <1>1, <1>4, <2>5
  <1> QED BY <1>3, <1>4

-----------------------------------------------------------------------------
(***************************************************************************)
(* The order of each signal's messages.                                    *)
(***************************************************************************)

\* Only messages that were offered are anywhere.
LEMMA PlacesOffered ==
  ASSUME IInv
  PROVE  /\ Len(offers) \in Nat /\ DOMAIN offers = 1..Len(offers)
         /\ \A n \in Places : n \in 1..Len(offers)
  BY OffersType DEF IInv, Covered, Accepted

\* Where the batches are flushed, the order of m is the order of what is left.
LEMMA FlushedInOrder ==
  ASSUME NEW m, NEW S \in SUBSET Signals, SignalsInOrder(m), Flushed(m, S), offers' = offers,
         \A t \in DOMAIN tasks' : t \in Nat
  PROVE  SignalsInOrder(batch)'
  <1>1. ASSUME NEW s \in Signals
        PROVE  batch'[s] = (IF s \in S THEN <<>> ELSE m[s])
    BY DEF Flushed
  <1>2. Increasing(<<>>) /\ Range(<<>>) = {}
    BY DEF Increasing, Range
  <1>3. ASSUME NEW s \in Signals
        PROVE  Increasing(batch'[s]) /\ \A n \in Range(batch'[s]) : offers'[n].signal = s
    BY <1>1, <1>2 DEF SignalsInOrder
  <1>4. ASSUME NEW t \in DOMAIN tasks'
        PROVE  LET s == tasks'[t].signal IN
               /\ s \in Urls /\ s \in Signals /\ Increasing(tasks'[t].payload)
               /\ \A n \in Range(tasks'[t].payload) : offers'[n].signal = s
               /\ Before(Range(tasks'[t].payload), Range(batch'[s]))
    <2>1. CASE t \in DOMAIN tasks
      <3>1. tasks'[t] = tasks[t] /\ tasks[t].signal \in Urls /\ Urls \subseteq Signals
        BY <2>1, ExporterAssumption DEF Flushed, SignalsInOrder
      <3>2. Range(batch'[tasks[t].signal]) \subseteq Range(m[tasks[t].signal])
        BY <1>1, <1>2, <3>1
      <3> QED BY <2>1, <3>1, <3>2 DEF SignalsInOrder, Before
    <2>2. CASE t \notin DOMAIN tasks
      <3>1. /\ tasks'[t].signal \in S \cap Urls
            /\ tasks'[t].payload = m[tasks'[t].signal]
        BY <2>2 DEF Flushed
      <3>2. Range(batch'[tasks'[t].signal]) = {}
        BY <1>1, <1>2, <3>1
      <3> QED BY <3>1, <3>2 DEF SignalsInOrder, Before
    <2> QED BY <2>1, <2>2
  <1>5. ASSUME NEW t \in DOMAIN tasks', NEW u \in DOMAIN tasks',
               t < u, tasks'[u].signal = tasks'[t].signal
        PROVE  Before(Range(tasks'[t].payload), Range(tasks'[u].payload))
    <2>1. CASE t \in DOMAIN tasks /\ u \in DOMAIN tasks
      BY <1>5, <2>1 DEF Flushed, SignalsInOrder
    <2>2. CASE t \in DOMAIN tasks /\ u \notin DOMAIN tasks
      <3>1. tasks'[t] = tasks[t] /\ tasks'[u].payload = m[tasks[t].signal]
        BY <1>5, <2>2 DEF Flushed
      <3> QED BY <2>2, <3>1 DEF SignalsInOrder
    <2>3. CASE t \notin DOMAIN tasks /\ u \notin DOMAIN tasks
      <3>1. t = u /\ t \in Nat
        BY <1>5, <2>3 DEF Flushed
      <3> QED
        BY <1>5, <3>1
    <2>4. CASE t \notin DOMAIN tasks /\ u \in DOMAIN tasks
      BY <1>5, <2>4 DEF Flushed
    <2> QED BY <2>1, <2>2, <2>3, <2>4
  <1>6. ASSUME NEW n \in discarded'
        PROVE  /\ offers'[n].signal \in Signals \ Urls
               /\ Before({n}, Range(batch'[offers'[n].signal]))
    <2>1. CASE n \in discarded
      <3>1. Range(batch'[offers[n].signal]) \subseteq Range(m[offers[n].signal])
        BY <1>1, <1>2, <2>1 DEF SignalsInOrder
      <3> QED BY <2>1, <3>1 DEF SignalsInOrder, Before
    <2>2. CASE n \notin discarded
      <3>1. PICK s \in S \ Urls : n \in Range(m[s])
        BY <2>2 DEF Flushed
      <3>2. offers[n].signal = s
        BY <3>1 DEF SignalsInOrder
      <3>3. Range(batch'[s]) = {}
        BY <1>1, <1>2, <3>1
      <3> QED BY <3>1, <3>2, <3>3 DEF Before
    <2> QED BY <2>1, <2>2
  <1> QED BY <1>3, <1>4, <1>5, <1>6 DEF SignalsInOrder

LEMMA AppendIncreasing ==
  ASSUME NEW q \in Seq(1..MaxSends), NEW e \in 1..MaxSends, Increasing(q), \A n \in Range(q) : n < e
  PROVE  Increasing(Append(q, e)) /\ Range(Append(q, e)) = Range(q) \cup {e}
  <1> DEFINE w == Append(q, e)
  <1>1. /\ Len(q) \in Nat /\ DOMAIN w = DOMAIN q \cup {Len(q) + 1}
        /\ \A k \in DOMAIN q : k \in 1..Len(q) /\ w[k] = q[k]
        /\ w[Len(q) + 1] = e
    BY AppendElements
  <1> HIDE DEF w
  <1>2. Range(w) = Range(q) \cup {e}
    BY <1>1 DEF Range
  <1>3. \A k \in DOMAIN q : q[k] < e
    BY DEF Range
  <1>4. ASSUME NEW j \in DOMAIN w, NEW k \in DOMAIN w, j < k
        PROVE  w[j] < w[k]
    <2>1. CASE j \in DOMAIN q /\ k \in DOMAIN q
      BY <1>1, <1>4, <2>1 DEF Increasing
    <2>2. CASE j \in DOMAIN q /\ k = Len(q) + 1
      BY <1>1, <1>3, <2>2
    <2>3. CASE j = Len(q) + 1
      BY <1>1, <1>4, <2>3
    <2> QED BY <1>1, <2>1, <2>2, <2>3
  <1> QED BY <1>2, <1>4 DEF Increasing, w

\* The message at the head of the queue comes after all that was popped before.
LEMMA ReceivedInOrder ==
  ASSUME IInv, QueueInOrder, PoppedBefore, SignalsInOrder(batch), RecvData
  PROVE  SignalsInOrder(Received)
  <1>1. PICK m \in Batches, k \in Signals, e \in 1..MaxSends :
          /\ m = Received /\ k = channel[1].kind /\ e = channel[1].id
          /\ m[k] = Append(batch[k], e) /\ \A s \in Signals : s # k => m[s] = batch[s]
    BY ReceivedIs DEF IInv
  <1>2. e \in Queued /\ offers[e].signal = k
    BY <1>1, ReceivedIs DEF IInv, Queued, IsData, QueueInOrder
  <1>3. \A n \in InBatch \cup InTasks \cup discarded : n < e
    BY <1>2 DEF PoppedBefore, Before
  <1>4. \A s \in Signals : batch[s] \in Seq(1..MaxSends) /\ \A n \in Range(batch[s]) : n < e
    BY <1>3 DEF InBatch, IInv, TypeOK
  <1>5. Increasing(m[k]) /\ Range(m[k]) = Range(batch[k]) \cup {e}
    BY <1>1, <1>4, AppendIncreasing DEF SignalsInOrder
  <1>6. ASSUME NEW s \in Signals
        PROVE  /\ Increasing(m[s]) /\ \A n \in Range(m[s]) : offers[n].signal = s
               /\ Range(m[s]) \subseteq Range(batch[s]) \cup {e}
    BY <1>1, <1>2, <1>5 DEF SignalsInOrder
  <1>7. ASSUME NEW t \in DOMAIN tasks
        PROVE  Before(Range(tasks[t].payload), Range(m[tasks[t].signal]))
    <2>1. \A n \in Range(tasks[t].payload) : n < e
      BY <1>3 DEF InTasks
    <2>2. tasks[t].signal \in Signals
      BY ExporterAssumption DEF SignalsInOrder
    <2> QED BY <1>6, <2>1, <2>2 DEF SignalsInOrder, Before
  <1>8. ASSUME NEW n \in discarded
        PROVE  Before({n}, Range(m[offers[n].signal]))
    <2>1. offers[n].signal \in Signals
      BY DEF SignalsInOrder
    <2> QED BY <1>3, <1>6, <2>1 DEF SignalsInOrder, Before
  <1> QED BY <1>1, <1>6, <1>7, <1>8 DEF SignalsInOrder

\* Nothing else moves a message, but for the end of the loop, which empties the
\* batches; a send adds an offer.
LEMMA KeptInOrder ==
  ASSUME IInv, SignalsInOrder(batch), DOMAIN tasks' = DOMAIN tasks, discarded' = discarded,
         \A t \in DOMAIN tasks : tasks'[t].signal = tasks[t].signal
                                 /\ tasks'[t].payload = tasks[t].payload,
         \A s \in Signals : batch'[s] = batch[s] \/ batch'[s] = <<>>,
         \A n \in DOMAIN offers : offers'[n] = offers[n]
  PROVE  SignalsInOrder(batch)'
  <1>1. /\ \A n \in InBatch \cup InTasks \cup discarded : offers'[n] = offers[n]
        /\ Increasing(<<>>) /\ Range(<<>>) = {}
    BY PlacesOffered DEF Places, Increasing, Range
  <1>2. ASSUME NEW s \in Signals
        PROVE  /\ Increasing(batch'[s]) /\ Range(batch'[s]) \subseteq Range(batch[s])
               /\ \A n \in Range(batch'[s]) : offers'[n].signal = s
    BY <1>1 DEF SignalsInOrder, InBatch
  <1>3. ASSUME NEW t \in DOMAIN tasks
        PROVE  /\ tasks'[t].signal \in Urls /\ Increasing(tasks'[t].payload)
               /\ \A n \in Range(tasks'[t].payload) : offers'[n].signal = tasks'[t].signal
               /\ Before(Range(tasks'[t].payload), Range(batch'[tasks'[t].signal]))
    <2>1. tasks[t].signal \in Signals
      BY ExporterAssumption DEF SignalsInOrder
    <2> QED BY <1>1, <1>2, <2>1 DEF SignalsInOrder, Before, InTasks
  <1>4. ASSUME NEW t \in DOMAIN tasks, NEW u \in DOMAIN tasks,
               t < u, tasks'[u].signal = tasks'[t].signal
        PROVE  Before(Range(tasks'[t].payload), Range(tasks'[u].payload))
    BY <1>4 DEF SignalsInOrder
  <1>5. ASSUME NEW n \in discarded
        PROVE  /\ offers'[n].signal \in Signals \ Urls
               /\ Before({n}, Range(batch'[offers'[n].signal]))
    BY <1>1, <1>2 DEF SignalsInOrder, Before
  <1> QED BY <1>2, <1>3, <1>4, <1>5 DEF SignalsInOrder

\* The end of the runtime and the step of an export task leave every task with
\* its signal and its payload.
LEMMA TasksKept ==
  ASSUME TypeOK, RuntimeDropped \/ \E t \in DOMAIN tasks : TaskStep(t)
  PROVE  /\ DOMAIN tasks' = DOMAIN tasks /\ InTasks' = InTasks
         /\ \A t \in DOMAIN tasks : tasks'[t].signal = tasks[t].signal
                                    /\ tasks'[t].payload = tasks[t].payload
  <1>1. \A t \in DOMAIN tasks : tasks[t] \in Task
    BY SeqElements DEF TypeOK
  <1>2. CASE RuntimeDropped
    <2>1. ASSUME NEW t \in DOMAIN tasks
          PROVE  tasks'[t].signal = tasks[t].signal
      <3>1. \/ tasks'[t] = tasks[t]
            \/ tasks'[t] = [tasks[t] EXCEPT !.pc = "cancelled"]
        BY <1>2 DEF RuntimeDropped
      <3> QED BY <1>1, <3>1 DEF Task
    <2> QED BY <1>2, <2>1, RuntimeDroppedFacts, InTasksKept DEF TasksStable
  <1>3. ASSUME NEW t \in DOMAIN tasks, TaskStep(t)
        PROVE  /\ DOMAIN tasks' = DOMAIN tasks
               /\ \A u \in DOMAIN tasks : tasks'[u].signal = tasks[u].signal
                                          /\ tasks'[u].payload = tasks[u].payload
    <2>1. tasks'[t].signal = tasks[t].signal
      <3>1. CASE Acquire(t)
        BY <1>1, <3>1 DEF Acquire, Task
      <3>2. CASE PostOk(t)
        BY <1>1, <3>2 DEF PostOk, Task
      <3>3. CASE PostFailed(t)
        BY <1>1, <3>3 DEF PostFailed, Task
      <3>4. CASE BackoffEnd(t)
        BY <1>1, <3>4 DEF BackoffEnd, Task
      <3> QED BY <1>3, <3>1, <3>2, <3>3, <3>4 DEF TaskStep
    <2> QED BY <1>3, <2>1, TaskStepFacts
  <1> QED BY <1>2, <1>3, InTasksKept

\* What the three ways to flush every batch leave as it is.
LEMMA FlushAllSteps ==
  RecvFlush \/ RecvShutdown \/ Tick => FlushAll /\ UNCHANGED <<offers, lost, dropped>>
  BY DEF RecvFlush, RecvShutdown, Tick

LEMMA SendOffers ==
  ASSUME TypeOK, NEW s \in Signals, Send(s)
  PROVE  \A n \in DOMAIN offers : n \in DOMAIN offers' /\ offers'[n] = offers[n]
  <1> DEFINE outcome == IF Closed THEN "closed" ELSE IF slots = 0 THEN "full" ELSE "accepted"
             offer == [signal |-> s, outcome |-> outcome]
  <1>1. /\ offers' = Append(offers, offer)
        /\ offer \in [signal : Signals, outcome : {"accepted", "full", "closed"}]
    BY DEF Send
  <1> QED BY <1>1, AppendElements DEF TypeOK

LEMMA SignalsStep ==
  ASSUME IInv, IInv', QueueInOrder, PoppedBefore, SignalsInOrder(batch), [Next]_vars
  PROVE  SignalsInOrder(batch)'
  <1>1. TypeOK /\ \A t \in DOMAIN tasks' : t \in Nat
    <2>1. TypeOK /\ tasks' \in Seq(Task)
      BY DEF IInv, TypeOK
    <2>2. DOMAIN tasks' = 1..Len(tasks') /\ Len(tasks') \in Nat
      BY <2>1, LenProperties
    <2> QED BY <2>1, <2>2
  <1>2. CASE RecvData
    <2>1. PICK m \in Batches : m = Received
      BY <1>1, <1>2, ReceivedIs
    <2>2. PICK S \in SUBSET Signals : Flushed(m, S)
      BY <1>1, <1>2, <2>1, RecvDataFlushed
    <2>3. SignalsInOrder(m) /\ offers' = offers
      BY <1>2, <2>1, ReceivedInOrder DEF RecvData
    <2> QED BY <1>1, <2>2, <2>3, FlushedInOrder
  <1>3. CASE RecvFlush \/ RecvShutdown \/ Tick
    <2>1. PICK m : m = batch /\ Flushed(m, Signals)
      BY <1>1, <1>3, FlushAllSteps, FlushAllFlushed
    <2>2. SignalsInOrder(m) /\ offers' = offers
      BY <1>3, <2>1, FlushAllSteps
    <2> QED BY <1>1, <2>1, <2>2, FlushedInOrder
  <1>4. ASSUME NEW s \in Emitted, Send(s) PROVE SignalsInOrder(batch)'
    <2>1. UNCHANGED <<tasks, batch, discarded>>
      BY <1>4 DEF Send, exportVars
    <2>2. \A n \in DOMAIN offers : offers'[n] = offers[n]
      BY <1>1, <1>4, SendOffers, ExporterAssumption
    <2> QED BY <2>1, <2>2, KeptInOrder
  <1>5. CASE LoopEnd
    BY <1>5, KeptInOrder DEF LoopEnd, Close, Free, NoBatch
  <1>6. CASE RuntimeDropped
    <2>1. offers' = offers /\ discarded' = discarded /\ batch' = NoBatch
      BY <1>6 DEF RuntimeDropped, Close, Free
    <2> QED BY <1>1, <1>6, <2>1, TasksKept, KeptInOrder DEF NoBatch
  <1>7. ASSUME NEW t \in DOMAIN tasks, TaskStep(t) PROVE SignalsInOrder(batch)'
    <2>1. UNCHANGED <<offers, discarded, batch>>
      BY <1>1, <1>7, TaskStepFacts DEF history
    <2> QED BY <1>1, <1>7, <2>1, TasksKept, KeptInOrder
  <1>8. CASE UNCHANGED <<offers, discarded, batch, tasks>>
    BY <1>8, KeptInOrder
  <1>9. UNCHANGED <<offers, discarded, batch, tasks>> \/ (\E s \in Emitted : Send(s)) \/ LoopStep
          \/ RuntimeDropped \/ \E t \in DOMAIN tasks : TaskStep(t)
    BY DEF Next, Call, Enqueue, DropHandles, Terminated, vars, exportVars, history
  <1>10. FlushDone => UNCHANGED <<offers, discarded, batch, tasks>>
    BY DEF FlushDone, history
  <1> QED BY <1>2, <1>3, <1>4, <1>5, <1>6, <1>7, <1>8, <1>9, <1>10 DEF LoopStep

-----------------------------------------------------------------------------
(***************************************************************************)
(* The order of the queue.                                                 *)
(***************************************************************************)

LEMMA SendInQueue ==
  ASSUME IInv, QueueInOrder, NEW s \in Signals, Send(s)
  PROVE  QueueInOrder'
  <1> DEFINE n == Len(offers) + 1
             outcome == IF Closed THEN "closed" ELSE IF slots = 0 THEN "full" ELSE "accepted"
             offer == [signal |-> s, outcome |-> outcome]
  <1>1. /\ TypeOK /\ offers' = Append(offers, offer) /\ offer.signal = s
        /\ offer \in [signal : Signals, outcome : {"accepted", "full", "closed"}]
    BY DEF Send, IInv
  <1>2. /\ DOMAIN offers = 1..Len(offers) /\ Len(offers) \in Nat /\ offers'[n] = offer
        /\ \A k \in DOMAIN offers : offers'[k] = offers[k]
    BY <1>1, PlacesOffered, AppendElements DEF TypeOK
  <1>3. \A k \in DOMAIN channel : IsData(k) => channel[k].id \in 1..Len(offers)
    BY PlacesOffered DEF Places, Queued, IsData
  <1>4. CASE channel' = channel
    BY <1>2, <1>3, <1>4 DEF QueueInOrder, IsData
  <1>5. CASE channel' # channel
    <2>1. channel' = Append(channel, Data(s, n)) /\ n \in 1..MaxSends
      BY <1>2, <1>5, ExporterAssumption DEF Send
    <2>2. Data(s, n) \in ExportMessage /\ Data(s, n).kind = s /\ Data(s, n).id = n
      BY <2>1 DEF Data, ExportMessage
    <2>3. /\ Len(channel) \in Nat /\ DOMAIN channel' = DOMAIN channel \cup {Len(channel) + 1}
          /\ \A k \in DOMAIN channel : k \in 1..Len(channel) /\ channel'[k] = channel[k]
          /\ channel'[Len(channel) + 1].id = n /\ channel'[Len(channel) + 1].kind = s
      BY <1>1, <2>1, <2>2, AppendElements DEF TypeOK
    <2>4. ASSUME NEW k \in DOMAIN channel', IsData(k)'
          PROVE  offers'[channel'[k].id].signal = channel'[k].kind
      BY <1>1, <1>2, <1>3, <2>3, <2>4 DEF QueueInOrder, IsData
    <2>5. ASSUME NEW j \in DOMAIN channel', NEW k \in DOMAIN channel', j < k, IsData(j)', IsData(k)'
          PROVE  channel'[j].id < channel'[k].id
      <3>1. j \in DOMAIN channel
        BY <2>3, <2>5
      <3>2. CASE k \in DOMAIN channel
        BY <2>3, <2>5, <3>1, <3>2 DEF QueueInOrder, IsData
      <3>3. CASE k = Len(channel) + 1
        BY <1>2, <1>3, <2>3, <2>5, <3>1, <3>3 DEF IsData
      <3> QED BY <2>3, <3>2, <3>3
    <2> QED BY <2>4, <2>5 DEF QueueInOrder
  <1> QED BY <1>4, <1>5

LEMMA PopInQueue ==
  ASSUME TypeOK, QueueInOrder, channel # <<>>, Pop
  PROVE  /\ \A j, k \in DOMAIN channel' :
              j < k /\ IsData(j)' /\ IsData(k)' => channel'[j].id < channel'[k].id
         /\ \A k \in DOMAIN channel' : IsData(k)' => offers[channel'[k].id].signal = channel'[k].kind
         /\ IsData(1) => \A n \in Queued' : channel[1].id < n
  <1>1. /\ channel' = Tail(channel) /\ 1 \in DOMAIN channel
        /\ \A k \in DOMAIN channel' : /\ k \in Nat \ {0} /\ k + 1 \in DOMAIN channel
                                      /\ channel'[k] = channel[k + 1]
    BY TailElements DEF Pop, TypeOK
  <1>2. ASSUME NEW j \in DOMAIN channel', NEW k \in DOMAIN channel', j < k, IsData(j)', IsData(k)'
        PROVE  channel'[j].id < channel'[k].id
    <2>1. j + 1 < k + 1 /\ IsData(j + 1) /\ IsData(k + 1)
      BY <1>1, <1>2 DEF IsData
    <2> QED BY <1>1, <2>1 DEF QueueInOrder
  <1>3. ASSUME NEW k \in DOMAIN channel', IsData(k)'
        PROVE  /\ offers[channel'[k].id].signal = channel'[k].kind
               /\ IsData(1) => channel[1].id < channel'[k].id
    <2>1. 1 < k + 1 /\ IsData(k + 1)
      BY <1>1, <1>3 DEF IsData
    <2> QED BY <1>1, <2>1 DEF QueueInOrder
  <1>4. IsData(1) => \A n \in Queued' : channel[1].id < n
    BY <1>3 DEF Queued, IsData
  <1> QED BY <1>2, <1>3, <1>4

LEMMA QueueOrderStep ==
  ASSUME IInv, QueueInOrder, [Next]_vars
  PROVE  QueueInOrder'
  <1>0. TypeOK
    BY DEF IInv
  <1>1. ASSUME NEW s \in Emitted, Send(s) PROVE QueueInOrder'
    BY <1>1, SendInQueue, ExporterAssumption
  <1>2. ASSUME NEW c \in Calls, Enqueue(c) PROVE QueueInOrder'
    <2>1. /\ Message(c) \in ExportMessage /\ Message(c).kind \notin Signals
          /\ channel' = Append(channel, Message(c)) /\ offers' = offers
      BY <1>2 DEF Message, Flush, Shutdown, ExportMessage, Calls, Signals, Enqueue
    <2>2. /\ DOMAIN channel' = DOMAIN channel \cup {Len(channel) + 1}
          /\ \A k \in DOMAIN channel : channel'[k] = channel[k]
          /\ channel'[Len(channel) + 1].kind \notin Signals
      BY <1>0, <2>1, AppendElements DEF TypeOK
    <2> QED BY <2>1, <2>2 DEF QueueInOrder, IsData
  <1>3. CASE channel # <<>> /\ Pop /\ offers' = offers
    BY <1>0, <1>3, PopInQueue DEF QueueInOrder
  <1>4. CASE channel' = <<>>
    BY <1>4 DEF QueueInOrder
  <1>5. CASE UNCHANGED <<channel, offers>>
    BY <1>5 DEF QueueInOrder, IsData
  <1>6. ASSUME LoopStep \/ RuntimeDropped
        PROVE  \/ channel # <<>> /\ Pop /\ offers' = offers
               \/ channel' = <<>>
               \/ UNCHANGED <<channel, offers>>
    BY <1>6 DEF LoopStep, RecvData, RecvFlush, RecvShutdown, Tick, FlushDone, LoopEnd,
                RuntimeDropped, Close, Free, channelVars, history
  <1>7. ASSUME NEW t \in DOMAIN tasks, TaskStep(t) PROVE UNCHANGED <<channel, offers>>
    BY <1>0, <1>7, TaskStepFacts DEF channelVars, history
  <1>8. ASSUME NEW c \in Calls, Call(c) PROVE UNCHANGED <<channel, offers>>
    BY <1>8 DEF Call, history
  <1>9. DropHandles \/ Terminated \/ UNCHANGED vars => UNCHANGED <<channel, offers>>
    BY DEF DropHandles, Terminated, vars, channelVars, history
  <1> QED BY <1>1, <1>2, <1>3, <1>4, <1>5, <1>6, <1>7, <1>8, <1>9 DEF Next

\* Only a send adds to the queue, and only a message received leaves it alive.
LEMMA FlushAllQueued ==
  ASSUME TypeOK, RecvFlush \/ RecvShutdown \/ Tick
  PROVE  Queued' = Queued
  <1>1. CASE RecvFlush
    BY <1>1, PopQueued DEF RecvFlush, IsData, Signals
  <1>2. CASE channel # <<>> /\ Head(channel).kind = "shutdown" /\ Pop
    BY <1>2, PopQueued DEF IsData, Signals
  <1>3. CASE channel' = channel
    BY <1>3 DEF Queued
  <1> QED BY <1>1, <1>2, <1>3 DEF RecvShutdown, Tick, channelVars

LEMMA PoppedBeforeStep ==
  ASSUME IInv, QueueInOrder, PoppedBefore, [Next]_vars
  PROVE  PoppedBefore'
  <1> DEFINE Out == InBatch \cup InTasks \cup discarded
  <1>0. /\ TypeOK /\ Len(offers) \in Nat
        /\ \A n \in Out : n \in 1..Len(offers)
        /\ \A n \in Out, k \in Queued : n < k
    BY PlacesOffered DEF IInv, Places, PoppedBefore, Before
  <1>1. ASSUME \A n \in Out' : n \in Out, Queued' \subseteq Queued
        PROVE  PoppedBefore'
    BY <1>0, <1>1 DEF PoppedBefore, Before
  <1>2. ASSUME NEW s \in Emitted, Send(s) PROVE PoppedBefore'
    <2>1. /\ UNCHANGED <<InBatch, InTasks, discarded>>
          /\ Queued' \subseteq Queued \cup {Len(offers) + 1}
      BY <1>0, <1>2, SendPlaces, ExporterAssumption
    <2>2. Out' = Out
      BY <2>1
    <2>3. \A n \in Out, k \in Queued' : n < k
      BY <1>0, <2>1
    <2> QED BY <2>2, <2>3 DEF PoppedBefore, Before
  <1>3. CASE RecvData
    <2>1. PICK e : e = channel[1].id
      OBVIOUS
    <2>2. IsData(1) /\ Out' = Out \cup {e} /\ Queued = Queued' \cup {e}
      BY <1>0, <1>3, <2>1, RecvDataMoves, PopQueued DEF RecvData
    <2>3. \A k \in Queued' : e < k
      BY <1>0, <1>3, <2>1, <2>2, PopInQueue DEF RecvData
    <2>4. \A n \in Out', k \in Queued' : n < k
      BY <1>0, <2>2, <2>3
    <2> QED BY <2>4 DEF PoppedBefore, Before
  <1>4. CASE RecvFlush \/ RecvShutdown \/ Tick
    BY <1>0, <1>1, <1>4, FlushAllQueued, FlushAllSteps, FlushAllMoves
  <1>5. CASE LoopEnd \/ RuntimeDropped
    <2>1. Queued' = {}
      BY <1>0, <1>5, ClosePlaces DEF LoopEnd, RuntimeDropped
    <2> QED BY <2>1 DEF PoppedBefore, Before
  <1>6. ASSUME NEW t \in DOMAIN tasks, TaskStep(t) PROVE PoppedBefore'
    <2>1. InTasks' = InTasks /\ UNCHANGED <<channel, batch, discarded>>
      BY <1>0, <1>6, TasksKept, TaskStepFacts DEF channelVars, history
    <2>2. InBatch' = InBatch /\ Queued' = Queued
      BY <2>1 DEF InBatch, Queued
    <2> QED BY <1>1, <2>1, <2>2
  <1>7. ASSUME NEW c \in Calls, Enqueue(c) PROVE PoppedBefore'
    <2>1. Queued' = Queued /\ UNCHANGED <<batch, tasks, discarded>>
      BY <1>0, <1>7, EnqueuePlaces DEF Enqueue, exportVars
    <2>2. InBatch' = InBatch /\ InTasks' = InTasks
      BY <2>1 DEF InBatch, InTasks
    <2> QED BY <1>1, <2>1, <2>2
  <1>8. CASE UNCHANGED <<channel, batch, tasks, discarded>>
    <2>1. InBatch' = InBatch /\ InTasks' = InTasks /\ Queued' = Queued /\ discarded' = discarded
      BY <1>8 DEF InBatch, InTasks, Queued
    <2> QED BY <1>1, <2>1
  <1>9. (\E c \in Calls : Call(c)) \/ DropHandles \/ FlushDone \/ Terminated \/ UNCHANGED vars
          => UNCHANGED <<channel, batch, tasks, discarded>>
    BY DEF Call, DropHandles, FlushDone, Terminated, vars, channelVars, exportVars, history
  <1> QED BY <1>2, <1>3, <1>4, <1>5, <1>6, <1>7, <1>8, <1>9 DEF Next, LoopStep

-----------------------------------------------------------------------------
(***************************************************************************)
(* Each message is in one place.                                           *)
(***************************************************************************)

\* The orders keep the places apart.
LEMMA PlacesApart ==
  ASSUME IInv, PoppedBefore, SignalsInOrder(batch)
  PROVE  /\ Queued \cap (InBatch \cup InTasks \cup discarded) = {}
         /\ InBatch \cap InTasks = {} /\ (InBatch \cup InTasks) \cap discarded = {}
  <1>1. \A n \in Places : n \in Nat
    BY PlacesOffered
  <1>2. Queued \cap (InBatch \cup InTasks \cup discarded) = {}
    BY <1>1 DEF PoppedBefore, Before, Places
  <1>3. ASSUME NEW n \in InBatch PROVE n \notin InTasks \cup discarded
    <2>1. PICK s \in Signals : n \in Range(batch[s])
      BY DEF InBatch
    <2>2. offers[n].signal = s /\ n \in Nat
      BY <1>1, <2>1 DEF SignalsInOrder, Places
    <2>3. n \notin InTasks
      <3> SUFFICES ASSUME NEW t \in DOMAIN tasks, n \in Range(tasks[t].payload)
                   PROVE  FALSE
        BY DEF InTasks
      <3>1. tasks[t].signal = s
        BY <2>2 DEF SignalsInOrder
      <3> QED BY <2>1, <2>2, <3>1 DEF SignalsInOrder, Before
    <2>4. n \notin discarded
      BY <2>1, <2>2 DEF SignalsInOrder, Before
    <2> QED BY <2>3, <2>4
  <1>4. ASSUME NEW n \in InTasks PROVE n \notin discarded
    <2>1. PICK t \in DOMAIN tasks : n \in Range(tasks[t].payload)
      BY DEF InTasks
    <2>2. offers[n].signal = tasks[t].signal /\ tasks[t].signal \in Urls
      BY <2>1 DEF SignalsInOrder
    <2> QED BY <2>2 DEF SignalsInOrder
  <1> QED BY <1>2, <1>3, <1>4

LEMMA LostApartStep ==
  ASSUME IInv, IInv', PoppedBefore, SignalsInOrder(batch), LostApart, [Next]_vars
  PROVE  LostApart'
  <1>0. TypeOK
    BY DEF IInv
  <1>1. CASE ~Closed'
    BY <1>1 DEF IInv, OpenClean, LostApart
  <1>2. ASSUME Closed' PROVE Queued' = {} /\ InBatch' = {}
    <2>1. channel' = <<>> /\ batch' = NoBatch
      BY <1>2 DEF IInv, ClosedClean
    <2> QED BY <2>1 DEF Queued, InBatch, NoBatch, Range
  <1>3. CASE LoopEnd \/ RuntimeDropped
    <2>1. lost = {} /\ lost' = Queued \cup InBatch /\ Closed'
      BY <1>0, <1>3, ClosePlaces DEF LoopEnd, RuntimeDropped, Closed, IInv, OpenClean
    <2>2. InTasks' = InTasks /\ discarded' = discarded
      BY <1>0, <1>3, TasksKept DEF LoopEnd, RuntimeDropped, InTasks
    <2> QED BY <1>2, <2>1, <2>2, PlacesApart DEF LostApart
  <1>4. CASE Closed' /\ UNCHANGED <<InTasks, discarded, lost>>
    BY <1>2, <1>4 DEF LostApart
  <1>5. ASSUME ~LoopEnd, ~RuntimeDropped, Closed'
        PROVE  Closed
    <2>1. LoopStep => ~Closed'
      BY <1>5 DEF LoopStep, RecvData, RecvFlush, RecvShutdown, Tick, FlushDone, loopVars, Closed
    <2>2. (\E t \in DOMAIN tasks : TaskStep(t)) => loop' = loop
      BY <1>0, TaskStepFacts DEF loopVars
    <2>3. loop' = loop
      BY <1>5, <2>1, <2>2
         DEF Next, Send, Call, Enqueue, DropHandles, Terminated, vars, loopVars
    <2> QED BY <1>5, <2>3 DEF Closed
  <1>6. ASSUME Closed PROVE UNCHANGED <<InTasks, discarded, lost>>
    <2>1. ~LoopStep /\ ~RuntimeDropped
      BY <1>6 DEF LoopStep, RecvData, RecvFlush, RecvShutdown, Tick, FlushDone, LoopEnd,
                  RuntimeDropped, Closed
    <2>2. \A t \in DOMAIN tasks : ~TaskStep(t)
      BY <1>0, <1>6, TaskStepFacts DEF IInv, ClosedClean, Finished
    <2>3. UNCHANGED <<tasks, discarded, lost>>
      BY <2>1, <2>2 DEF Next, Send, Call, Enqueue, DropHandles, Terminated, vars, exportVars, history
    <2> QED BY <2>3 DEF InTasks
  <1> QED BY <1>1, <1>3, <1>4, <1>5, <1>6

LEMMA DropsStep ==
  ASSUME TypeOK, DropsCounted, [Next]_vars
  PROVE  DropsCounted'
  <1> DEFINE Refused == DOMAIN offers \ Accepted
  <1>1. /\ DOMAIN offers = 1..Len(offers) /\ Len(offers) \in Nat /\ dropped \in Nat
        /\ IsFiniteSet(Refused)
    <2>1. DOMAIN offers = 1..Len(offers) /\ Len(offers) \in Nat /\ dropped \in Nat
      BY OffersType DEF TypeOK
    <2>2. IsFiniteSet(DOMAIN offers)
      BY <2>1, FS_Interval
    <2> QED BY <2>1, <2>2, FS_Subset
  <1>2. ASSUME NEW s \in Emitted, Send(s) PROVE DropsCounted'
    <2> DEFINE n == Len(offers) + 1
               outcome == IF Closed THEN "closed" ELSE IF slots = 0 THEN "full" ELSE "accepted"
               offer == [signal |-> s, outcome |-> outcome]
    <2>1. /\ offers' = Append(offers, offer) /\ offer.outcome = outcome
          /\ offer \in [signal : Signals, outcome : {"accepted", "full", "closed"}]
      BY <1>2, ExporterAssumption DEF Send
    <2>2. /\ DOMAIN offers' = DOMAIN offers \cup {n} /\ offers'[n] = offer /\ n \notin DOMAIN offers
          /\ \A k \in DOMAIN offers : offers'[k] = offers[k]
      BY <1>1, <2>1, AppendElements DEF TypeOK
    <2>3. CASE outcome = "accepted"
      <3>1. Refused' = Refused /\ dropped' = dropped
        BY <1>2, <2>1, <2>2, <2>3 DEF Send, Accepted
      <3> QED BY <3>1 DEF DropsCounted
    <2>4. CASE outcome # "accepted"
      <3>1. Refused' = Refused \cup {n} /\ n \notin Refused
        BY <2>1, <2>2, <2>4 DEF Accepted
      <3>2. dropped' = dropped + 1
        BY <1>2, <2>4 DEF Send
      <3>3. Cardinality(Refused \cup {n}) = Cardinality(Refused) + 1
        BY <1>1, <3>1, FS_AddElement
      <3> QED BY <3>1, <3>2, <3>3 DEF DropsCounted
    <2> QED BY <2>3, <2>4
  <1>3. CASE UNCHANGED <<offers, dropped>>
    BY <1>3 DEF DropsCounted, Accepted
  <1>4. (\E t \in DOMAIN tasks : TaskStep(t)) => UNCHANGED <<offers, dropped>>
    BY TaskStepFacts DEF history
  <1>5. LoopStep \/ RuntimeDropped => UNCHANGED <<offers, dropped>>
    BY DEF LoopStep, RecvData, RecvFlush, RecvShutdown, Tick, FlushDone, LoopEnd, RuntimeDropped,
           history
  <1> QED BY <1>2, <1>3, <1>4, <1>5 DEF Next, Call, Enqueue, DropHandles, Terminated, vars, history

-----------------------------------------------------------------------------
(***************************************************************************)
(* The size of a payload.                                                  *)
(***************************************************************************)

\* Batches m may be flushed when none is longer than BatchSize, but for one
\* message, and those that are not flushed are not full.
Flushable(m, S) ==
  \A s \in Signals :
    LET n == Len(m[s]) IN
    /\ n = 0 \/ n = 1 \/ n <= BatchSize
    /\ s \in S \/ n = 0 \/ n < BatchSize

LEMMA FlushedBelowSize ==
  ASSUME NEW m \in Batches, NEW S \in SUBSET Signals, Flushed(m, S), Flushable(m, S),
         BatchBelowSize
  PROVE  BatchBelowSize'
  <1>1. \A s \in Signals : m[s] \in Seq(1..MaxSends) /\ (m[s] = <<>> <=> Len(m[s]) = 0)
                           /\ Len(m[s]) \in Nat
    BY EmptySeq, LenProperties DEF Batches
  <1>2. ASSUME NEW s \in Signals
        PROVE  batch'[s] = <<>> \/ Len(batch'[s]) < BatchSize
    <2>1. batch'[s] = (IF s \in S THEN <<>> ELSE m[s])
      BY DEF Flushed
    <2> QED BY <1>1, <2>1 DEF Flushable
  <1>3. ASSUME NEW t \in DOMAIN tasks'
        PROVE  LET n == Len(tasks'[t].payload) IN n > 0 /\ (n = 1 \/ n <= BatchSize)
    <2>1. CASE t \in DOMAIN tasks
      BY <2>1 DEF Flushed, BatchBelowSize
    <2>2. CASE t \notin DOMAIN tasks
      <3>1. PICK s \in S : tasks'[t].payload = m[s] /\ m[s] # <<>>
        BY <2>2 DEF Flushed
      <3> QED BY <1>1, <3>1 DEF Flushable
    <2> QED BY <2>1, <2>2
  <1> QED BY <1>2, <1>3 DEF BatchBelowSize

LEMMA SizeStep ==
  ASSUME TypeOK, BatchBelowSize, [Next]_vars
  PROVE  BatchBelowSize'
  <1>1. batch \in Batches /\ BatchSize \in Nat
    BY ExporterAssumption DEF TypeOK, Batches
  <1>2. \A s \in Signals : batch[s] \in Seq(1..MaxSends) /\ (batch[s] = <<>> <=> Len(batch[s]) = 0)
                           /\ Len(batch[s]) \in Nat
    BY <1>1, EmptySeq, LenProperties DEF Batches
  <1>3. Flushable(batch, Signals)
    BY <1>1, <1>2 DEF Flushable, BatchBelowSize
  <1>4. CASE RecvFlush \/ RecvShutdown \/ Tick
    <2>1. PICK m \in Batches : m = batch /\ Flushed(m, Signals)
      BY <1>1, <1>4, FlushAllSteps, FlushAllFlushed
    <2> QED BY <1>3, <2>1, FlushedBelowSize
  <1>5. CASE RecvData
    <2>1. PICK m \in Batches, k \in Signals, e \in 1..MaxSends :
            /\ m = Received /\ k = channel[1].kind
            /\ m[k] = Append(batch[k], e) /\ \A s \in Signals : s # k => m[s] = batch[s]
      BY <1>5, ReceivedIs
    <2>2. PICK S \in SUBSET Signals :
            Flushed(m, S) /\ \A s \in Signals : s \in S <=> s = k /\ Full(m[s])
      BY <1>5, <2>1, RecvDataFlushed
    <2>3. Len(m[k]) = Len(batch[k]) + 1
      BY <1>2, <2>1, AppendElements
    <2>4. Flushable(m, S)
      <3> SUFFICES ASSUME NEW s \in Signals
                   PROVE  /\ Len(m[s]) = 0 \/ Len(m[s]) = 1 \/ Len(m[s]) <= BatchSize
                          /\ s \in S \/ Len(m[s]) = 0 \/ Len(m[s]) < BatchSize
        BY DEF Flushable
      <3>1. CASE s = k
        <4>1. Len(batch[k]) \in Nat /\ (Len(batch[k]) = 0 \/ Len(batch[k]) < BatchSize)
          BY <1>2 DEF BatchBelowSize
        <4>2. Len(m[s]) = Len(batch[k]) + 1 /\ (s \in S \/ ~(Len(m[s]) >= BatchSize))
          BY <2>2, <2>3, <3>1 DEF Full
        <4> QED BY <1>1, <4>1, <4>2
      <3>2. CASE s # k
        <4>1. m[s] = batch[s]
          BY <2>1, <3>2
        <4>2. Len(batch[s]) \in Nat /\ (Len(batch[s]) = 0 \/ Len(batch[s]) < BatchSize)
          BY <1>2 DEF BatchBelowSize
        <4> QED BY <1>1, <4>1, <4>2
      <3> QED BY <3>1, <3>2
    <2> QED BY <2>2, <2>4, FlushedBelowSize
  <1>6. ASSUME DOMAIN tasks' = DOMAIN tasks,
               \A t \in DOMAIN tasks : tasks'[t].payload = tasks[t].payload,
               batch' = batch \/ batch' = NoBatch
        PROVE  BatchBelowSize'
    BY <1>6 DEF BatchBelowSize, NoBatch
  <1>7. CASE RuntimeDropped
    BY <1>6, <1>7, TasksKept DEF RuntimeDropped, Close, Free
  <1>8. ASSUME NEW t \in DOMAIN tasks, TaskStep(t) PROVE BatchBelowSize'
    BY <1>6, <1>8, TasksKept, TaskStepFacts
  <1>9. CASE LoopEnd \/ FlushDone
    BY <1>6, <1>9 DEF LoopEnd, FlushDone, Close, Free
  <1>10. CASE UNCHANGED <<tasks, batch>>
    BY <1>6, <1>10
  <1>11. \/ UNCHANGED <<tasks, batch>> \/ LoopStep \/ RuntimeDropped
         \/ \E t \in DOMAIN tasks : TaskStep(t)
    BY DEF Next, Send, Call, Enqueue, DropHandles, Terminated, vars, exportVars
  <1> QED BY <1>4, <1>5, <1>7, <1>8, <1>9, <1>10, <1>11 DEF LoopStep

-----------------------------------------------------------------------------
LEMMA OInvInit == Init => OInv
  <1> SUFFICES ASSUME Init PROVE OInv
    OBVIOUS
  <1>1. /\ DOMAIN channel = {} /\ DOMAIN tasks = {} /\ DOMAIN offers = {}
        /\ discarded = {} /\ lost = {} /\ dropped = 0 /\ batch = NoBatch
    BY DEF Init
  <1>2. Queued = {} /\ Accepted = {} /\ Range(<<>>) = {} /\ Increasing(<<>>)
    BY <1>1 DEF Queued, Accepted, Range, Increasing
  <1>3. QueueInOrder /\ PoppedBefore /\ LostApart /\ BatchBelowSize
    BY <1>1, <1>2 DEF QueueInOrder, PoppedBefore, Before, LostApart, BatchBelowSize, NoBatch
  <1>4. SignalsInOrder(batch)
    BY <1>1, <1>2 DEF SignalsInOrder, NoBatch
  <1>5. DropsCounted
    BY <1>1, <1>2, FS_EmptySet DEF DropsCounted
  <1> QED BY <1>3, <1>4, <1>5, IInvInit DEF OInv, OrderInv

LEMMA OInvStep == OInv /\ [Next]_vars => OInv'
  <1> SUFFICES ASSUME OInv, [Next]_vars PROVE OInv'
    OBVIOUS
  <1>1. IInv /\ IInv' /\ TypeOK
    BY IInvStep DEF OInv, IInv
  <1>2. QueueInOrder' /\ PoppedBefore' /\ DropsCounted' /\ BatchBelowSize'
    BY <1>1, QueueOrderStep, PoppedBeforeStep, DropsStep, SizeStep DEF OInv, OrderInv
  <1>3. SignalsInOrder(batch)' /\ LostApart'
    BY <1>1, SignalsStep, LostApartStep DEF OInv, OrderInv
  <1> QED BY <1>1, <1>2, <1>3 DEF OInv, OrderInv

\* Every reachable state satisfies the whole inductive invariant.
THEOREM OrderInvariance == Spec => []OInv
  BY OInvInit, OInvStep, PTL DEF Spec

\* Whatever the interleaving of sends, flushes and stops, a message that was
\* accepted is in exactly one place, and one that was refused is counted.
THEOREM Conservation == Spec => []MessagesConserved
  <1>1. OInv => MessagesConserved
    <2> SUFFICES ASSUME OInv PROVE MessagesConserved
      OBVIOUS
    <2>1. IInv /\ PoppedBefore /\ SignalsInOrder(batch)
      BY DEF OInv, OrderInv
    <2>2. /\ Queued \cap (InBatch \cup InTasks \cup discarded) = {}
          /\ InBatch \cap InTasks = {} /\ (InBatch \cup InTasks) \cap discarded = {}
      BY <2>1, PlacesApart
    <2>3. /\ Accepted = Queued \cup InBatch \cup InTasks \cup discarded \cup lost
          /\ (Queued \cup InBatch \cup InTasks \cup discarded) \cap lost = {}
          /\ dropped = Cardinality(DOMAIN offers \ Accepted)
      BY DEF OInv, OrderInv, IInv, Covered, Places, LostApart, DropsCounted
    <2> HIDE DEF Queued, InBatch, InTasks, Accepted
    <2> QED BY <2>2, <2>3 DEF MessagesConserved
  <1> QED BY <1>1, OrderInvariance, PTL

\* Each signal's messages are posted in the order of the sends, each of them to
\* its own endpoint, and in one payload only.
THEOREM Ordered == Spec => []PayloadsInOrder
  <1>1. OInv => PayloadsInOrder
    BY DEF OInv, OrderInv, PoppedBefore, Before, SignalsInOrder, PayloadsInOrder
  <1> QED BY <1>1, OrderInvariance, PTL

\* No payload is empty or larger than batch_size, and no full batch waits.
THEOREM Sizes == Spec => []BatchBelowSize
  <1>1. OInv => BatchBelowSize
    BY DEF OInv, OrderInv
  <1> QED BY <1>1, OrderInvariance, PTL

-----------------------------------------------------------------------------
(***************************************************************************)
(* The mapping, without its CASEs.                                         *)
(***************************************************************************)

LEMMA PhaseIs ==
  /\ ~Closed => Phase = "open"
  /\ loop = "ended" => Phase = "stopped"
  /\ loop = "cancelled" => Phase = "crashed"
  BY DEF Phase, Closed

LEMMA CallStateIs ==
  \A c \in Calls :
    /\ call[c] \in {"blocked", "granted"} => CallState[c] = "started"
    /\ call[c] = "queued" => CallState[c] = "waiting"
    /\ call[c] \in {"idle", "done", "aborted"} => CallState[c] = call[c]
  BY DEF CallState

\* What is accepted is pending until it is settled, or lost when the loop is over.
LEMMA FateIs ==
  ASSUME NEW n \in 1..MaxSends, TypeOK
  PROVE  /\ n > Len(offers) => Fate[n] = "unsent"
         /\ n \in DOMAIN offers \ Accepted => Fate[n] = "refused"
         /\ n \in Accepted => Fate[n] = IF Settled(n) THEN "settled"
                                        ELSE IF Closed THEN "lost" ELSE "pending"
         /\ Fate[n] \in {"unsent", "refused", "settled", "lost", "pending"}
  <1>1. DOMAIN offers = 1..Len(offers) /\ Len(offers) \in Nat
    BY OffersType
  <1> QED BY <1>1 DEF Fate, Accepted

LEMMA MessagesCase ==
  ASSUME TypeOK, NEW n \in 1..MaxSends
  PROVE  n > Len(offers) \/ n \in DOMAIN offers \ Accepted \/ n \in Accepted
  BY OffersType DEF Accepted

\* Only messages that were accepted are anywhere.
LEMMA SettledAccepted ==
  ASSUME IInv, NEW n, Settled(n)
  PROVE  n \in Accepted /\ n <= Len(offers)
  <1>1. n \in InTasks \cup discarded
    BY DEF Settled, InTasks
  <1>2. n \in Accepted
    BY <1>1 DEF IInv, Covered, Places
  <1> QED BY <1>2, OffersType DEF IInv, Accepted

-----------------------------------------------------------------------------
(***************************************************************************)
(* Each action of the exporter as a step of the pipe.                      *)
(***************************************************************************)

\* A pop that grants a slot to a waiter does not move its call in the pipe.
LEMMA PopCallState ==
  ASSUME TypeOK, QueueInv, ~Closed, channel # <<>>, Pop
  PROVE  CallState' = CallState
  <1>1. ASSUME NEW c \in Calls
        PROVE  CallState'[c] = CallState[c]
    <2>1. CASE waiters = <<>>
      BY <2>1 DEF Pop, CallState
    <2>2. CASE waiters # <<>>
      <3>1. /\ call' = [call EXCEPT ![Head(waiters)] = "granted"]
            /\ Head(waiters) \in Calls /\ call[Head(waiters)] = "blocked"
        BY <2>2, TailElements DEF Pop, TypeOK, QueueInv, WaitersBlocked
      <3>2. CASE c = Head(waiters)
        <4>1. call'[c] = "granted" /\ call[c] = "blocked"
          BY <3>1, <3>2 DEF TypeOK
        <4>2. CallState'[c] = "started" /\ CallState[c] = "started"
          BY <4>1 DEF CallState
        <4> QED BY <4>2
      <3>3. CASE c # Head(waiters)
        <4>1. call'[c] = call[c]
          BY <3>1, <3>3 DEF TypeOK
        <4> QED BY <4>1 DEF CallState
      <3> QED BY <3>2, <3>3
    <2> QED BY <2>1, <2>2
  <1> QED BY <1>1 DEF CallState

\* A step that moves no call and offers nothing settles some messages, or none.
LEMMA SettleStep ==
  ASSUME IInv, TypeOK', [Next]_vars, UNCHANGED <<offers, mark, CallState, Phase, Closed>>,
         Closed => \A n \in 1..MaxSends : Settled(n)' => Settled(n)
  PROVE  Pipe!Settle
  <1> DEFINE S == {n \in 1..MaxSends : Fate[n] = "pending" /\ Fate'[n] = "settled"}
  <1>1. ASSUME NEW n \in 1..MaxSends
        PROVE  Fate'[n] = IF n \in S THEN "settled" ELSE Fate[n]
    <2>1. Accepted' = Accepted /\ Len(offers') = Len(offers) /\ (Closed' <=> Closed)
      BY DEF Accepted
    <2>2. Settled(n) => Settled(n)'
      BY SettledStable DEF IInv
    <2>3. TypeOK
      BY DEF IInv
    <2>4. CASE n \in Accepted
      <3>1. Fate[n] = IF Settled(n) THEN "settled" ELSE IF Closed THEN "lost" ELSE "pending"
        BY <2>3, <2>4, FateIs
      <3>2. Fate'[n] = IF Settled(n)' THEN "settled" ELSE IF Closed THEN "lost" ELSE "pending"
        <4>1. n > Len(offers) => FALSE
          BY <2>3, <2>4, OffersType DEF Accepted
        <4>2. offers[n].outcome = "accepted"
          BY <2>4 DEF Accepted
        <4> QED BY <2>1, <4>1, <4>2 DEF Fate
      <3> QED BY <2>2, <3>1, <3>2
    <2>5. CASE n \notin Accepted
      <3>1. n > Len(offers) \/ (~(n > Len(offers)) /\ offers[n].outcome # "accepted")
        BY <2>3, <2>5, OffersType DEF Accepted
      <3>2. Fate'[n] = Fate[n] /\ Fate[n] # "pending"
        BY <3>1 DEF Fate
      <3> QED BY <3>2
    <2> QED BY <2>4, <2>5
  <1>2. S \in SUBSET {n \in 1..MaxSends : Fate[n] = "pending"}
    OBVIOUS
  <1>3. Fate' = [n \in 1..MaxSends |-> IF n \in S THEN "settled" ELSE Fate[n]]
    BY <1>1 DEF Fate
  <1> HIDE DEF S
  <1> QED BY <1>2, <1>3 DEF Pipe!Settle, Pipe!Messages

\* A message that is offered is pending, or refused.
LEMMA SendEnqueues ==
  ASSUME IInv, TypeOK', NEW s \in Signals, Send(s)
  PROVE  Pipe!Offer
  <1> DEFINE k == Len(offers) + 1
             outcome == IF Closed THEN "closed" ELSE IF slots = 0 THEN "full" ELSE "accepted"
             f == IF outcome = "accepted" THEN "pending" ELSE "refused"
  <1>1. /\ offers' = Append(offers, [signal |-> s, outcome |-> outcome]) /\ Len(offers) < MaxSends
        /\ UNCHANGED <<call, mark, loop, tasks, discarded>>
    BY DEF Send, loopVars, exportVars
  <1>2. /\ Len(offers) \in Nat /\ DOMAIN offers = 1..Len(offers) /\ MaxSends \in Nat
        /\ offers \in Seq([signal : Signals, outcome : {"accepted", "full", "closed"}])
    BY OffersType, ExporterAssumption DEF IInv, TypeOK
  <1>3. /\ Len(offers') = k /\ offers'[k].outcome = outcome
        /\ \A n \in 1..Len(offers) : offers'[n] = offers[n]
    <2>1. [signal |-> s, outcome |-> outcome] \in [signal : Signals, outcome : {"accepted", "full", "closed"}]
      OBVIOUS
    <2> QED BY <1>1, <1>2, <2>1, AppendElements
  <1>4. (\A n : Settled(n)' <=> Settled(n)) /\ (Closed' <=> Closed) /\ Phase' = Phase
        /\ CallState' = CallState
    BY <1>1 DEF Settled, Closed, Phase, CallState
  <1>5. ~Settled(k)
    BY <1>2, SettledAccepted
  <1> HIDE DEF k
  <1>6. ASSUME NEW n \in 1..MaxSends
        PROVE  Fate'[n] = [Fate EXCEPT ![k] = f][n]
    <2>1. CASE n = k
      <3>1. ~(n > Len(offers'))
        BY <1>2, <1>3, <2>1 DEF k
      <3>2. Fate'[n] = f
        BY <1>3, <1>4, <1>5, <2>1, <3>1 DEF Fate
      <3> QED BY <2>1, <3>2 DEF Fate
    <2>2. CASE n # k
      <3>1. (n > Len(offers')) <=> (n > Len(offers))
        BY <1>2, <1>3, <2>2 DEF k
      <3>2. ~(n > Len(offers)) => offers'[n] = offers[n]
        BY <1>2, <1>3
      <3>3. Fate'[n] = Fate[n]
        BY <1>4, <3>1, <3>2 DEF Fate
      <3> QED BY <2>2, <3>3 DEF Fate
    <2> QED BY <2>1, <2>2
  <1>7. Fate' = [Fate EXCEPT ![k] = f]
    BY <1>6 DEF Fate
  <1>8. f \in {"pending", "refused"} /\ (f = "pending" => Phase = "open")
    BY PhaseIs
  <1> QED BY <1>1, <1>3, <1>4, <1>7, <1>8 DEF Pipe!Offer, k

LEMMA CallBegins ==
  ASSUME IInv, NEW c \in Calls, Call(c)
  PROVE  Pipe!Begin(c)
  <1>1. /\ call \in [Calls -> {"idle", "blocked", "granted", "queued", "done", "aborted"}]
        /\ call[c] = "idle"
        /\ call' = [call EXCEPT ![c] = IF Closed THEN "aborted"
                                       ELSE IF slots > 0 THEN "granted" ELSE "blocked"]
        /\ UNCHANGED <<offers, mark, loop, tasks, discarded>>
    BY DEF Call, IInv, TypeOK, loopVars, exportVars, history
  <1>2. (\A n : Settled(n)' <=> Settled(n)) /\ (Closed' <=> Closed) /\ Phase' = Phase
    BY <1>1 DEF Settled, Closed, Phase
  <1>3. Fate' = Fate
    BY <1>1, <1>2 DEF Fate
  <1>4. CallState[c] = "idle"
    BY <1>1, CallStateIs
  <1>5. Phase = "open" <=> ~Closed
    BY DEF Phase, Closed
  <1>6. CallState' = [CallState EXCEPT ![c] = IF Phase = "open" THEN "started" ELSE "aborted"]
    <2>1. ASSUME NEW d \in Calls
          PROVE  CallState'[d] = IF d = c THEN IF Phase = "open" THEN "started" ELSE "aborted"
                                 ELSE CallState[d]
      <3>1. CASE d = c
        <4>1. call'[d] = IF Closed THEN "aborted" ELSE IF slots > 0 THEN "granted" ELSE "blocked"
          BY <1>1, <3>1
        <4>2. CallState'[d] = IF Closed THEN "aborted" ELSE "started"
          BY <4>1 DEF CallState
        <4> QED BY <1>5, <3>1, <4>2
      <3>2. CASE d # c
        <4>1. call'[d] = call[d]
          BY <1>1, <3>2
        <4> QED BY <3>2, <4>1 DEF CallState
      <3> QED BY <3>1, <3>2
    <2> QED BY <2>1 DEF CallState
  <1> QED BY <1>1, <1>2, <1>3, <1>4, <1>6 DEF Pipe!Begin

LEMMA EnqueueCommits ==
  ASSUME IInv, NEW c \in Calls, Enqueue(c)
  PROVE  Pipe!Commit(c)
  <1>1. /\ call \in [Calls -> {"idle", "blocked", "granted", "queued", "done", "aborted"}]
        /\ call[c] = "granted" /\ ~Closed
        /\ call' = [call EXCEPT ![c] = IF c \in Flushers THEN "queued" ELSE "done"]
        /\ mark' = [mark EXCEPT ![c] = Len(offers)]
        /\ UNCHANGED <<offers, loop, tasks, discarded>>
    BY DEF Enqueue, IInv, TypeOK, loopVars, exportVars
  <1>2. (\A n : Settled(n)' <=> Settled(n)) /\ (Closed' <=> Closed) /\ Phase' = Phase
    BY <1>1 DEF Settled, Closed, Phase
  <1>3. Fate' = Fate
    BY <1>1, <1>2 DEF Fate
  <1>4. CallState[c] = "started" /\ Phase = "open"
    BY <1>1, CallStateIs, PhaseIs
  <1>5. CallState' = [CallState EXCEPT ![c] = IF c \in Flushers THEN "waiting" ELSE "done"]
    <2>1. ASSUME NEW d \in Calls
          PROVE  CallState'[d] = IF d = c THEN IF c \in Flushers THEN "waiting" ELSE "done"
                                 ELSE CallState[d]
      <3>1. CASE d = c
        <4>1. call'[d] = IF c \in Flushers THEN "queued" ELSE "done"
          BY <1>1, <3>1
        <4>2. CallState'[d] = IF c \in Flushers THEN "waiting" ELSE "done"
          BY <4>1 DEF CallState
        <4> QED BY <3>1, <4>2
      <3>2. CASE d # c
        <4>1. call'[d] = call[d]
          BY <1>1, <3>2
        <4> QED BY <3>2, <4>1 DEF CallState
      <3> QED BY <3>1, <3>2
    <2> QED BY <2>1 DEF CallState
  <1> QED BY <1>1, <1>2, <1>3, <1>4, <1>5 DEF Pipe!Commit

\* What is settled up to a mark, as the pipe sees it.
LEMMA SettledUpToIs ==
  ASSUME IInv, NEW m \in Nat, \A n \in Accepted : n <= m => Settled(n), m <= Len(offers)
  PROVE  Pipe!SettledUpTo(m)
  <1> SUFFICES ASSUME NEW n \in 1..m PROVE Fate[n] # "pending"
    BY DEF Pipe!SettledUpTo
  <1>1. TypeOK /\ n \in 1..MaxSends /\ n \in DOMAIN offers
    BY OffersType, ExporterAssumption DEF IInv, TypeOK
  <1>2. CASE n \in Accepted
    BY <1>1, <1>2, FateIs
  <1>3. CASE n \notin Accepted
    BY <1>1, <1>3, FateIs
  <1> QED BY <1>2, <1>3

LEMMA FlushDoneAcknowledges ==
  ASSUME IInv, FlushDone
  PROVE  \E c \in Flushers : Pipe!Acknowledge(c)
  <1>1. /\ loop = "flushing" /\ Joined /\ loop' = "select" /\ ~Closed /\ ~Closed'
        /\ call' = [call EXCEPT ![serving] = "done"]
        /\ UNCHANGED <<offers, mark, tasks, discarded>>
    BY DEF FlushDone, history, Closed
  <1>2. /\ call \in [Calls -> {"idle", "blocked", "granted", "queued", "done", "aborted"}]
        /\ serving \in Flushers /\ serving \in Calls /\ call[serving] = "queued"
    BY <1>1 DEF IInv, TypeOK, FlushQueued, Calls
  <1>3. CallState[serving] = "waiting" /\ Phase = "open" /\ Phase' = "open"
    BY <1>1, <1>2, CallStateIs DEF Phase
  <1>4. Fate' = Fate
    <2>1. \A n : Settled(n)' <=> Settled(n)
      BY <1>1 DEF Settled
    <2> QED BY <1>1, <2>1 DEF Fate
  <1>5. CallState' = [CallState EXCEPT ![serving] = "done"]
    <2>1. ASSUME NEW d \in Calls
          PROVE  CallState'[d] = IF d = serving THEN "done" ELSE CallState[d]
      <3>1. CASE d = serving
        BY <1>1, <1>2, <3>1 DEF CallState
      <3>2. CASE d # serving
        <4>1. call'[d] = call[d]
          BY <1>1, <1>2, <3>2
        <4> QED BY <3>2, <4>1 DEF CallState
      <3> QED BY <3>1, <3>2
    <2> QED BY <1>2, <2>1 DEF CallState
  <1>6. Pipe!SettledUpTo(mark[serving])
    <2>1. mark[serving] \in Nat /\ mark[serving] <= Len(offers)
      BY <1>2 DEF IInv, TypeOK, QueueFollowsMarks
    <2>2. \A t \in DOMAIN tasks : tasks[t].pc \in {"exported", "abandoned"}
      BY <1>1 DEF IInv, JoinSetCovers, Joined, OpenClean, Finished
    <2>3. \A n \in Accepted : n <= mark[serving] => Settled(n)
      BY <1>1, <2>2 DEF IInv, FlushServed, InTasks, Settled
    <2> QED BY <2>1, <2>3, SettledUpToIs
  <1> QED BY <1>1, <1>2, <1>3, <1>4, <1>5, <1>6 DEF Pipe!Acknowledge

\* When the loop is over, pending messages are lost and the calls return.
LEMMA Closes ==
  ASSUME IInv, TypeOK', [Next]_vars, ~Closed, Closed', Close, UNCHANGED <<offers, mark>>,
         \A n \in 1..MaxSends : Settled(n)' => Settled(n), NEW how, Phase' = how
  PROVE  Pipe!Close(how)
  <1>1. Phase = "open" /\ TypeOK
    BY PhaseIs DEF IInv
  <1>2. Fate' = [n \in 1..MaxSends |-> IF Fate[n] = "pending" THEN "lost" ELSE Fate[n]]
    <2>1. ASSUME NEW n \in 1..MaxSends
          PROVE  Fate'[n] = IF Fate[n] = "pending" THEN "lost" ELSE Fate[n]
      <3>1. Settled(n)' <=> Settled(n)
        BY <1>1, SettledStable
      <3> QED BY <3>1 DEF Fate
    <2> QED BY <2>1 DEF Fate
  <1>3. CallState' = [c \in Calls |-> IF CallState[c] \in {"started", "waiting"} THEN "aborted"
                                      ELSE CallState[c]]
    <2>1. ASSUME NEW c \in Calls
          PROVE  CallState'[c] = IF CallState[c] \in {"started", "waiting"} THEN "aborted"
                                 ELSE CallState[c]
      <3>1. /\ call[c] \in {"idle", "blocked", "granted", "queued", "done", "aborted"}
            /\ call'[c] = IF call[c] \in {"blocked", "granted", "queued"} THEN "aborted" ELSE call[c]
        BY <1>1 DEF TypeOK, Close, Return
      <3>2. CASE call[c] \in {"blocked", "granted", "queued"}
        <4>1. CallState'[c] = "aborted"
          BY <3>1, <3>2 DEF CallState
        <4> QED BY <3>2, <4>1, CallStateIs
      <3>3. CASE call[c] \in {"idle", "done", "aborted"}
        <4>1. CallState'[c] = call[c] /\ CallState[c] = call[c]
          BY <3>1, <3>3 DEF CallState
        <4> QED BY <3>3, <4>1
      <3> QED BY <3>1, <3>2, <3>3
    <2> QED BY <2>1 DEF CallState
  <1> QED BY <1>1, <1>2, <1>3 DEF Pipe!Close, Pipe!Messages, Pipe!Calls, Calls

LEMMA LoopEndStops ==
  ASSUME IInv, TypeOK', LoopEnd
  PROVE  Pipe!Stop
  <1>1. /\ loop = "stopping" /\ Joined /\ ~Closed /\ Closed' /\ Close /\ loop' = "ended"
        /\ UNCHANGED <<offers, mark, tasks, discarded>> /\ [Next]_vars
    BY DEF LoopEnd, Closed, Next, LoopStep
  <1>2. Pipe!Close("stopped")
    <2>1. \A n \in 1..MaxSends : Settled(n)' => Settled(n)
      BY <1>1 DEF Settled
    <2>2. Phase' = "stopped"
      BY <1>1 DEF Phase
    <2> QED BY <1>1, <2>1, <2>2, Closes
  <1>3. \A n \in Accepted : n \notin Queued => Settled(n)
    <2>1. \A t \in DOMAIN tasks : tasks[t].pc \in {"exported", "abandoned"}
      BY <1>1 DEF IInv, JoinSetCovers, Joined, OpenClean, Finished
    <2>2. InBatch = {} /\ lost = {}
      BY <1>1 DEF IInv, StopServed, OpenClean, NoBatch, InBatch, Range
    <2> QED BY <2>1, <2>2 DEF IInv, Covered, Places, InTasks, Settled
  <1>4. /\ TypeOK /\ Len(offers) \in Nat /\ \A n \in Accepted : n \in Nat
        /\ \A c \in Calls : mark[c] \in Nat /\ mark[c] <= Len(offers)
    BY OffersType DEF IInv, QueueFollowsMarks, Accepted
  <1>5. ASSUME NEW c \in Closers, call[c] = "done", \A n \in Queued : mark[c] < n
        PROVE  CallState[c] = "done" /\ Pipe!SettledUpTo(mark[c])
    <2>1. c \in Calls
      BY DEF Calls
    <2>2. \A n \in Accepted : n <= mark[c] => Settled(n)
      BY <1>3, <1>4, <1>5, <2>1
    <2> QED BY <1>4, <1>5, <2>1, <2>2, CallStateIs, SettledUpToIs
  <1>6. ASSUME Queued = {}
        PROVE  Pipe!SettledUpTo(Len(offers))
    BY <1>3, <1>4, <1>6, SettledUpToIs
  <1> QED BY <1>1, <1>2, <1>5, <1>6 DEF IInv, StopServed, Pipe!Stop

LEMMA RuntimeDroppedCrashes ==
  ASSUME IInv, TypeOK', RuntimeDropped
  PROVE  Pipe!Crash
  <1>1. /\ ~Closed /\ Closed' /\ Close /\ loop' = "cancelled" /\ [Next]_vars
        /\ UNCHANGED <<offers, mark, discarded>>
    BY DEF RuntimeDropped, Closed, Next
  <1>2. ASSUME NEW n \in 1..MaxSends, Settled(n)' PROVE Settled(n)
    <2>1. CASE n \in discarded
      BY <2>1 DEF Settled
    <2>2. CASE n \notin discarded
      <3>1. PICK t \in DOMAIN tasks' :
              n \in Range(tasks'[t].payload) /\ tasks'[t].pc \in {"exported", "abandoned"}
        BY <1>1, <1>2, <2>2 DEF Settled
      <3>2. tasks[t] \in Task /\ t \in DOMAIN tasks
        BY SeqElements DEF IInv, TypeOK, RuntimeDropped
      <3>3. Finished(t) /\ tasks'[t] = tasks[t]
        BY <3>1, <3>2 DEF RuntimeDropped, Finished, Task
      <3> QED BY <3>1, <3>2, <3>3 DEF Settled
    <2> QED BY <2>1, <2>2
  <1>3. Phase' = "crashed"
    BY <1>1 DEF Phase
  <1> QED BY <1>1, <1>2, <1>3, Closes DEF Pipe!Crash

\* The loop's other steps, and those of the export tasks, settle what they do
\* and move no call.
LEMMA LoopSettles ==
  ASSUME IInv, TypeOK', RecvData \/ RecvFlush \/ RecvShutdown \/ Tick
  PROVE  Pipe!Settle
  <1>1. ~Closed /\ ~Closed' /\ UNCHANGED <<offers, mark>> /\ [Next]_vars
    BY DEF RecvData, RecvFlush, RecvShutdown, Tick, Closed, Next, LoopStep, loopVars
  <1>2. CallState' = CallState
    <2>1. CASE channel # <<>> /\ Pop
      BY <1>1, <2>1, PopCallState DEF IInv, QueueInv
    <2>2. CASE call' = call
      BY <2>2 DEF CallState
    <2> QED BY <2>1, <2>2 DEF RecvData, RecvFlush, RecvShutdown, Tick
  <1>3. Phase' = Phase /\ Closed' = Closed
    BY <1>1, PhaseIs DEF Phase, Closed
  <1> QED BY <1>1, <1>2, <1>3, SettleStep

LEMMA TaskSettles ==
  ASSUME IInv, TypeOK', NEW t \in DOMAIN tasks, TaskStep(t)
  PROVE  Pipe!Settle
  <1>1. /\ UNCHANGED <<offers, mark, call, loop>> /\ [Next]_vars
        /\ tasks[t].pc \in {"queued", "posting", "backoff"}
    BY TaskStepFacts DEF IInv, loopVars, history, Next
  <1>2. ~Closed
    BY <1>1 DEF IInv, ClosedClean, Finished
  <1>3. CallState' = CallState /\ Phase' = Phase /\ Closed' = Closed
    BY <1>1 DEF CallState, Phase, Closed
  <1> QED BY <1>1, <1>2, <1>3, SettleStep

\* Dropping handles, and nothing at all, are no steps of the pipe.
LEMMA Stutters ==
  ASSUME UNCHANGED <<offers, mark, call, loop, tasks, discarded>>
  PROVE  UNCHANGED Pipe!vars
  <1>1. (\A n : Settled(n)' <=> Settled(n)) /\ (Closed' <=> Closed) /\ Phase' = Phase
        /\ CallState' = CallState
    BY DEF Settled, Closed, Phase, CallState
  <1>2. Fate' = Fate
    BY <1>1 DEF Fate
  <1> QED BY <1>1, <1>2 DEF Pipe!vars

-----------------------------------------------------------------------------
(***************************************************************************)
(* The refinement.                                                         *)
(***************************************************************************)

LEMMA PipeInit == ASSUME Init PROVE Pipe!Init
  <1>1. Len(offers) = 0 /\ Phase = "open"
    BY DEF Init, Phase
  <1>2. Fate = [n \in 1..MaxSends |-> "unsent"]
    BY <1>1, ExporterAssumption DEF Fate
  <1>3. CallState = [c \in Calls |-> "idle"]
    BY DEF Init, CallState
  <1> QED BY <1>1, <1>2, <1>3 DEF Init, Pipe!Init, Pipe!Messages, Pipe!Calls, Calls

LEMMA PipeStep == ASSUME IInv, IInv', [Next]_vars PROVE [Pipe!Next]_(Pipe!vars)
  <1>0. TypeOK'
    BY DEF IInv
  <1>1. ASSUME NEW s \in Emitted, Send(s) PROVE Pipe!Next
    BY <1>0, <1>1, SendEnqueues, ExporterAssumption DEF Pipe!Next
  <1>2. ASSUME NEW c \in Calls, Call(c) \/ Enqueue(c) PROVE Pipe!Next
    BY <1>2, CallBegins, EnqueueCommits DEF Pipe!Next, Pipe!Calls, Calls
  <1>3. CASE RecvData \/ RecvFlush \/ RecvShutdown \/ Tick
    BY <1>0, <1>3, LoopSettles DEF Pipe!Next
  <1>4. CASE FlushDone
    BY <1>4, FlushDoneAcknowledges DEF Pipe!Next
  <1>5. CASE LoopEnd
    BY <1>0, <1>5, LoopEndStops DEF Pipe!Next
  <1>6. CASE RuntimeDropped
    BY <1>0, <1>6, RuntimeDroppedCrashes DEF Pipe!Next
  <1>7. ASSUME NEW t \in DOMAIN tasks, TaskStep(t) PROVE Pipe!Next
    BY <1>0, <1>7, TaskSettles DEF Pipe!Next
  <1>8. CASE DropHandles \/ Terminated \/ UNCHANGED vars
    <2>1. UNCHANGED <<offers, mark, call, loop, tasks, discarded>>
      BY <1>8 DEF DropHandles, Terminated, vars, loopVars, exportVars, history
    <2> QED BY <2>1, Stutters
  <1> QED BY <1>1, <1>2, <1>3, <1>4, <1>5, <1>6, <1>7, <1>8 DEF Next, LoopStep

\* src/exporter.rs: whatever the interleaving of senders, calls, batches, retries
\* and ends, its users see the pipe of TelemetryPipe and no other behaviour.
THEOREM Refinement == Spec => ImplementsPipe
  <1>1. Init => Pipe!Init
    BY PipeInit
  <1>2. IInv /\ IInv' /\ [Next]_vars => [Pipe!Next]_(Pipe!vars)
    BY PipeStep
  <1> QED BY <1>1, <1>2, Invariance, PTL DEF Spec, ImplementsPipe, Pipe!Spec

=============================================================================
