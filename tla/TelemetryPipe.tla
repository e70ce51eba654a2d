--------------------------- MODULE TelemetryPipe ----------------------------
(***************************************************************************)
(* What the exporter promises its users, without channel, batches, tasks   *)
(* or retries: a pipe that never blocks a sender, may refuse a message but *)
(* says so, settles what it accepted, acknowledges a flush only when all   *)
(* that came before it is settled, and closes without losing anything that *)
(* came before the shutdown.                                               *)
(***************************************************************************)
EXTENDS Naturals

CONSTANTS Flushers, Closers, MaxSends

Calls == Flushers \cup Closers
Messages == 1..MaxSends

VARIABLES
  fate,     \* what became of each message
  offered,  \* how many messages have been offered
  state,    \* where each call of flush() or shutdown() is
  before,   \* the messages offered before a call took its place in line
  phase     \* "open", or how the pipe was closed

vars == <<fate, offered, state, before, phase>>

Init ==
  /\ fate = [n \in Messages |-> "unsent"] /\ offered = 0
  /\ state = [c \in Calls |-> "idle"] /\ before = [c \in Calls |-> 0]
  /\ phase = "open"

\* Everything accepted among the first k messages is settled.
SettledUpTo(k) == \A n \in 1..k : fate[n] # "pending"

\* src/exporter.rs:106-148: a sender never waits; a closed pipe refuses.
Offer ==
  /\ offered < MaxSends
  /\ offered' = offered + 1
  /\ \E f \in {"pending", "refused"} :
       /\ f = "pending" => phase = "open"
       /\ fate' = [fate EXCEPT ![offered + 1] = f]
  /\ UNCHANGED <<state, before, phase>>

\* src/exporter.rs:326-399: a batch is exported, given up, or cleared.
Settle ==
  /\ \E S \in SUBSET {n \in Messages : fate[n] = "pending"} :
       fate' = [n \in Messages |-> IF n \in S THEN "settled" ELSE fate[n]]
  /\ UNCHANGED <<offered, state, before, phase>>

\* src/exporter.rs:151-161: a call begins, takes its place in line, ends.
Begin(c) ==
  /\ state[c] = "idle"
  /\ state' = [state EXCEPT ![c] = IF phase = "open" THEN "started" ELSE "aborted"]
  /\ UNCHANGED <<fate, offered, before, phase>>

Commit(c) ==
  /\ phase = "open" /\ state[c] = "started"
  /\ state' = [state EXCEPT ![c] = IF c \in Flushers THEN "waiting" ELSE "done"]
  /\ before' = [before EXCEPT ![c] = offered]
  /\ UNCHANGED <<fate, offered, phase>>

Acknowledge(c) ==
  /\ phase = "open" /\ state[c] = "waiting" /\ SettledUpTo(before[c])
  /\ state' = [state EXCEPT ![c] = "done"]
  /\ UNCHANGED <<fate, offered, before, phase>>

\* What is pending is lost and calls in progress return.
Close(how) ==
  /\ phase = "open" /\ phase' = how
  /\ fate' = [n \in Messages |-> IF fate[n] = "pending" THEN "lost" ELSE fate[n]]
  /\ state' = [c \in Calls |->
                 IF state[c] \in {"started", "waiting"} THEN "aborted" ELSE state[c]]
  /\ UNCHANGED <<offered, before>>

\* src/exporter.rs:262-286: all that came before a shutdown is settled, or
\* nobody is left to send and everything is.
Stop ==
  /\ \/ \E c \in Closers : state[c] = "done" /\ SettledUpTo(before[c])
     \/ SettledUpTo(offered)
  /\ Close("stopped")

\* The runtime the exporter runs on goes away.
Crash == Close("crashed")

Next ==
  \/ Offer \/ Settle
  \/ \E c \in Calls : Begin(c) \/ Commit(c)
  \/ \E c \in Flushers : Acknowledge(c)
  \/ Stop \/ Crash

Spec == Init /\ [][Next]_vars

=============================================================================
