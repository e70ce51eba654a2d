------------------------- MODULE ExporterRefinement -------------------------
(***************************************************************************)
(* The exporter implements the pipe of TelemetryPipe.                      *)
(***************************************************************************)
EXTENDS Exporter

\* Where a message is, as its sender may know it.
Fate ==
  [n \in 1..MaxSends |->
     IF n > Len(offers) THEN "unsent"
     ELSE IF offers[n].outcome # "accepted" THEN "refused"
     ELSE IF Settled(n) THEN "settled"
     ELSE IF Closed THEN "lost" ELSE "pending"]

\* A call waiting for a slot has no place in line yet.
CallState ==
  [c \in Calls |->
     CASE call[c] \in {"blocked", "granted"} -> "started"
       [] call[c] = "queued" -> "waiting"
       [] OTHER -> call[c]]

Phase == CASE loop = "ended" -> "stopped" [] loop = "cancelled" -> "crashed" [] OTHER -> "open"

Pipe == INSTANCE TelemetryPipe
          WITH fate <- Fate, offered <- Len(offers), state <- CallState,
               before <- mark, phase <- Phase

\* The exporter is a pipe: every step of it is a step of TelemetryPipe.
ImplementsPipe == Pipe!Spec

=============================================================================
