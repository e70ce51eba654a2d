---------------------------- MODULE ExporterInv -----------------------------
(***************************************************************************)
(* The inductive invariant of Exporter: what has to hold between two steps *)
(* for SlotsConserved, FlushBarrier and ShutdownDrains to be kept.         *)
(***************************************************************************)
EXTENDS Exporter

\* The line for a slot: calls that are blocked, each once.
WaitersBlocked ==
  /\ \A j \in DOMAIN waiters : call[waiters[j]] = "blocked"
  /\ \A j, k \in DOMAIN waiters : waiters[j] = waiters[k] => j = k

IsFlush(k) == channel[k].kind = "flush"
IsData(k) == channel[k].kind \in Signals

\* A flush that has been queued waits until it is served, and is queued once.
FlushQueued ==
  /\ \A k \in DOMAIN channel : IsFlush(k) => call[channel[k].id] = "queued"
  /\ \A j, k \in DOMAIN channel :
       IsFlush(j) /\ IsFlush(k) /\ channel[j].id = channel[k].id => j = k
  /\ loop = "flushing" =>
       /\ call[serving] = "queued"
       /\ \A k \in DOMAIN channel : IsFlush(k) => channel[k].id # serving

ShutdownQueued ==
  \A k \in DOMAIN channel :
    channel[k].kind = "shutdown" => call[channel[k].id] = "done"

\* What is queued after a flush or a shutdown was offered after its mark.
QueueFollowsMarks ==
  /\ \A c \in Calls : mark[c] <= Len(offers)
  /\ \A j, k \in DOMAIN channel :
       j < k /\ ~IsData(j) /\ IsData(k) => mark[channel[j].id] < channel[k].id

\* A task is forgotten by the JoinSet only when it is finished.
JoinSetCovers == \A t \in DOMAIN tasks : t \in joinSet \/ Finished(t)

\* While the loop is alive nothing is lost or cancelled; after it, nothing is
\* queued, batched, in flight or waited for.
OpenClean ==
  ~Closed => lost = {} /\ \A t \in DOMAIN tasks : tasks[t].pc # "cancelled"

ClosedClean ==
  Closed =>
    /\ channel = <<>> /\ waiters = <<>> /\ batch = NoBatch
    /\ \A c \in Calls : call[c] \in {"idle", "done", "aborted"}
    /\ \A t \in DOMAIN tasks : Finished(t)

\* No accepted message vanishes, and no other appears.
Places == Queued \cup InBatch \cup InTasks \cup discarded \cup lost
Covered == Accepted = Places

\* Nothing before the flush that is being served is still queued or batched.
FlushServed ==
  loop = "flushing" =>
    \A n \in Accepted : n <= mark[serving] => n \in InTasks \cup discarded

\* Everything queued came after the shutdown that is being served, or nothing
\* is and nobody is left to send.
StopServed ==
  loop = "stopping" =>
    /\ batch = NoBatch
    /\ \/ \E c \in Closers : call[c] = "done" /\ \A n \in Queued : mark[c] < n
       \/ Queued = {} /\ ~handles

\* The parts above together are preserved by every step of Exporter.
IInv ==
  /\ TypeOK /\ RetriesBounded
  /\ SlotsConserved /\ WaitersBlocked /\ FlushQueued /\ ShutdownQueued
  /\ QueueFollowsMarks /\ JoinSetCovers /\ OpenClean /\ ClosedClean
  /\ Covered /\ FlushServed /\ StopServed
  /\ FlushBarrier /\ ShutdownDrains

-----------------------------------------------------------------------------
(***************************************************************************)
(* On top of IInv, what has to hold for MessagesConserved, PayloadsInOrder *)
(* and BatchBelowSize to be kept.                                          *)
(***************************************************************************)

\* The queue is in the order of the sends, and holds what they offered.
QueueInOrder ==
  /\ \A j, k \in DOMAIN channel : j < k /\ IsData(j) /\ IsData(k) => channel[j].id < channel[k].id
  /\ \A k \in DOMAIN channel : IsData(k) => offers[channel[k].id].signal = channel[k].kind

\* Whatever has left the queue was sent before what is still in it.
PoppedBefore == Before(InBatch \cup InTasks \cup discarded, Queued)

\* With b as the batches: each signal's messages are in the order of the sends
\* from one payload to the next, then in its batch; a signal's messages are
\* posted if it has a URL, and cleared, in the same order, if it has none.
SignalsInOrder(b) ==
  /\ \A s \in Signals : Increasing(b[s]) /\ \A n \in Range(b[s]) : offers[n].signal = s
  /\ \A t \in DOMAIN tasks :
       /\ tasks[t].signal \in Urls /\ Increasing(tasks[t].payload)
       /\ \A n \in Range(tasks[t].payload) : offers[n].signal = tasks[t].signal
       /\ Before(Range(tasks[t].payload), Range(b[tasks[t].signal]))
  /\ \A t, u \in DOMAIN tasks :
       t < u /\ tasks[u].signal = tasks[t].signal =>
         Before(Range(tasks[t].payload), Range(tasks[u].payload))
  /\ \A n \in discarded :
       /\ offers[n].signal \in Signals \ Urls
       /\ Before({n}, Range(b[offers[n].signal]))

\* A message is lost only with the loop: never posted or cleared before.
LostApart == (Queued \cup InBatch \cup InTasks \cup discarded) \cap lost = {}

DropsCounted == dropped = Cardinality(DOMAIN offers \ Accepted)

OrderInv ==
  /\ QueueInOrder /\ PoppedBefore /\ SignalsInOrder(batch)
  /\ LostApart /\ DropsCounted /\ BatchBelowSize

\* The whole inductive invariant.
OInv == IInv /\ OrderInv

=============================================================================
