------------------------------ MODULE OtlpLayer ------------------------------
(***************************************************************************)
(* The tracing layer of src/otlp_layer.rs: what threads that open, enter,  *)
(* fill, leave and drop spans, and log events in them, make it send to the *)
(* exporter.  The registry of tracing-subscriber that calls it (reference  *)
(* counts, the stack of entered spans of a thread, the slot of a span) is  *)
(* external: it is modelled as far as the layer relies on it.              *)
(*                                                                         *)
(* A span is the number of its creation, and so is its random span id; the *)
(* 16 bytes of a trace id are an element of Traces or NoTrace, all zeros.  *)
(* Fields are counted and timestamps left out.                             *)
(***************************************************************************)
EXTENDS Naturals, Sequences, Functions, SequencesExt

CONSTANTS
  Threads,   \* the application's threads
  Traces,    \* the trace ids that the program gives its spans
  NoTrace,   \* the trace id of sixteen zero bytes
  Hash,      \* the first eight bytes of a trace id, as a number
  Scale,     \* u64::MAX; sampling rates are parts of it
  Givens,    \* how the program gives a span its trace id, see below
  Configs,   \* the settings of export_traces, export_logs and sampling_rate
  MaxSpans,  \* bound: spans opened in a behaviour
  MaxFields, \* bound: fields recorded per span
  MaxEvents  \* bound: events in a behaviour

\* A trace id given as a string is parsed; one given through Display or Debug,
\* as `trace_id = %id`, is a field like any other, and so is a malformed one.
Ways == {"str", "display", "malformed", "absent"}

ASSUME LayerAssumption ==
  /\ NoTrace \notin Traces
  /\ Scale \in Nat \ {0} /\ Hash \in [Traces \cup {NoTrace} -> 0..Scale] /\ Hash[NoTrace] = 0
  /\ Givens \subseteq [way : Ways, trace : Traces \cup {NoTrace}]
  /\ Configs \subseteq [traces : BOOLEAN, logs : BOOLEAN, rate : 0..Scale]
  /\ MaxSpans \in Nat /\ MaxFields \in Nat /\ MaxEvents \in Nat

NoSpan == 0

VARIABLES
  config,   \* the layer's settings
  spans,    \* every span opened: its SpanFields and its slot in the registry
  stack,    \* the spans each thread has entered
  closing,  \* the span each thread is closing
  output,   \* the calls of send_traces and send_logs, in order
  events    \* history: the span each event was in, and whether a log was sent

vars == <<config, spans, stack, closing, output, events>>

Init ==
  /\ config \in Configs
  /\ spans = <<>> /\ stack = [t \in Threads |-> <<>>] /\ closing = [t \in Threads |-> NoSpan]
  /\ output = <<>> /\ events = <<>>

-----------------------------------------------------------------------------
(***************************************************************************)
(* The registry.                                                           *)
(***************************************************************************)
Free(t) == closing[t] = NoSpan
Current(t) == IF stack[t] = <<>> THEN NoSpan ELSE Last(stack[t])

\* A span's slot is referred to by its handles, the threads in it and the
\* children whose slots are still there.
Entered(s) == \E t \in Threads : s \in Range(stack[t])
Children(s) == {c \in DOMAIN spans : spans[c].parent = s /\ spans[c].slot # "cleared"}
Unreferenced(s) == ~spans[s].held /\ Children(s) = {}

(***************************************************************************)
(* Sampling: by the first eight bytes of the trace id, against the rate.   *)
(***************************************************************************)
ShouldSample(trace) ==
  \/ config.rate >= Scale
  \/ config.rate > 0 /\ Hash[trace] < config.rate

\* FieldCollector: only record_str looks for a trace id, hex_to_bytes_16 has to
\* accept it, and a trace id nobody gave is zero.
TraceOf(given) == IF given.way = "str" THEN given.trace ELSE NoTrace

\* Mutant: every span decides for itself.
SampledAlone(parent, trace) == ShouldSample(trace)

\* A child inherits the decision of its parent, whatever its own trace id.
Sampled(parent, trace) ==
  IF parent # NoSpan THEN spans[parent].sampled ELSE ShouldSample(trace)

\* The parent is the current span, none (`parent: None`) or one that the
\* program has a handle of.  on_new_span stores the fields.
NewSpan(t, parent, given) ==
  /\ Free(t) /\ Len(spans) < MaxSpans
  /\ parent \in {NoSpan, Current(t)} \cup {p \in DOMAIN spans : spans[p].held}
  /\ spans' = Append(spans,
       [parent |-> parent, trace |-> TraceOf(given),
        sampled |-> Sampled(parent, TraceOf(given)), fields |-> 0,
        given |-> given.trace, held |-> TRUE, slot |-> "open"])
  /\ UNCHANGED <<config, stack, closing, output, events>>

\* on_record adds to the attributes; a trace id recorded now is only that.
Record(t, s) ==
  /\ Free(t) /\ spans[s].held /\ spans[s].fields < MaxFields
  /\ spans' = [spans EXCEPT ![s].fields = @ + 1]
  /\ UNCHANGED <<config, stack, closing, output, events>>

\* Span::enter borrows a handle.
Enter(t, s) ==
  /\ Free(t) /\ spans[s].held /\ s \notin Range(stack[t])
  /\ stack' = [stack EXCEPT ![t] = Append(@, s)]
  /\ UNCHANGED <<config, spans, closing, output, events>>

\* What on_close sends of a span, and on_event of an event in it.
SpanData(s) ==
  [signal |-> "traces", span |-> s, parent |-> spans[s].parent, trace |-> spans[s].trace,
   fields |-> spans[s].fields]
LogData(s) ==
  [signal |-> "logs", span |-> s, parent |-> NoSpan,
   trace |-> IF s # NoSpan THEN spans[s].trace ELSE NoTrace, fields |-> 0]

\* Mutant: a span is exported when it is left, and not when it closes.
ExitSends(t, s) ==
  /\ Free(t)
  /\ \E i \in DOMAIN stack[t] :
       stack[t][i] = s /\ stack' = [stack EXCEPT ![t] = RemoveAt(@, i)]
  /\ output' = IF config.traces /\ spans[s].sampled THEN Append(output, SpanData(s)) ELSE output
  /\ UNCHANGED <<config, spans, closing, events>>

\* Guards may be dropped in any order; the handle keeps the span open.
Exit(t, s) ==
  /\ Free(t)
  /\ \E i \in DOMAIN stack[t] :
       stack[t][i] = s /\ stack' = [stack EXCEPT ![t] = RemoveAt(@, i)]
  /\ UNCHANGED <<config, spans, closing, output, events>>

\* on_event asks the current span, whatever parent the event names; an event
\* outside all spans is not sampled out.
Event(t) ==
  LET s == Current(t)
      sends == config.logs /\ (s # NoSpan => spans[s].sampled)
  IN  /\ Free(t) /\ Len(events) < MaxEvents
      /\ output' = IF sends THEN Append(output, LogData(s)) ELSE output
      /\ events' = Append(events, [span |-> s, log |-> sends])
      /\ UNCHANGED <<config, spans, stack, closing>>

\* The last handle is dropped: try_close gives the span to this thread, unless
\* a child still refers to it.
DropHandle(t, s) ==
  /\ Free(t) /\ spans[s].held /\ ~Entered(s)
  /\ spans' = [spans EXCEPT ![s].held = FALSE,
                            ![s].slot = IF Children(s) = {} THEN "closing" ELSE @]
  /\ closing' = [closing EXCEPT ![t] = IF Children(s) = {} THEN s ELSE @]
  /\ UNCHANGED <<config, stack, output, events>>

\* Mutant: the attributes are those that the span was created with.
CloseBare(t) ==
  /\ ~Free(t) /\ spans[closing[t]].slot = "closing"
  /\ spans' = [spans EXCEPT ![closing[t]].slot = "closed"]
  /\ output' = IF config.traces /\ spans[closing[t]].sampled
                 THEN Append(output, [SpanData(closing[t]) EXCEPT !.fields = 0]) ELSE output
  /\ UNCHANGED <<config, stack, closing, events>>

\* on_close runs before the slot is cleared.
Close(t) ==
  /\ ~Free(t) /\ spans[closing[t]].slot = "closing"
  /\ spans' = [spans EXCEPT ![closing[t]].slot = "closed"]
  /\ output' = IF config.traces /\ spans[closing[t]].sampled
                 THEN Append(output, SpanData(closing[t])) ELSE output
  /\ UNCHANGED <<config, stack, closing, events>>

\* Mutant: the guard of a closed span is kept.
ClearKeeps(t) ==
  LET s == closing[t]
      p == spans[s].parent
      last == p # NoSpan /\ ~spans[p].held /\ Children(p) = {s}
  IN  /\ ~Free(t) /\ spans[s].slot = "closed"
      /\ spans' = [c \in DOMAIN spans |->
                     CASE c = s -> [spans[c] EXCEPT !.slot = "cleared"]
                       [] c = p /\ last -> [spans[c] EXCEPT !.slot = "closing"]
                       [] OTHER -> spans[c]]
      /\ closing' = [closing EXCEPT ![t] = IF last THEN p ELSE s]
      /\ UNCHANGED <<config, stack, output, events>>

\* The slot is cleared, which drops its reference to the parent: the thread
\* that drops the last one closes the parent in turn.
Clear(t) ==
  LET s == closing[t]
      p == spans[s].parent
      last == p # NoSpan /\ ~spans[p].held /\ Children(p) = {s}
  IN  /\ ~Free(t) /\ spans[s].slot = "closed"
      /\ spans' = [c \in DOMAIN spans |->
                     CASE c = s -> [spans[c] EXCEPT !.slot = "cleared"]
                       [] c = p /\ last -> [spans[c] EXCEPT !.slot = "closing"]
                       [] OTHER -> spans[c]]
      /\ closing' = [closing EXCEPT ![t] = IF last THEN p ELSE NoSpan]
      /\ UNCHANGED <<config, stack, output, events>>

-----------------------------------------------------------------------------
\* The bounds are used up and no span is left.
Terminated ==
  /\ Len(spans) = MaxSpans /\ Len(events) = MaxEvents
  /\ \A s \in DOMAIN spans : spans[s].slot = "cleared"
  /\ UNCHANGED vars

ThreadStep(t) ==
  \/ \E parent \in {NoSpan} \cup DOMAIN spans, given \in Givens : NewSpan(t, parent, given)
  \/ \E s \in DOMAIN spans : Record(t, s) \/ Enter(t, s) \/ Exit(t, s) \/ DropHandle(t, s)
  \/ Event(t) \/ Close(t) \/ Clear(t)

Next == (\E t \in Threads : ThreadStep(t)) \/ Terminated

Spec == Init /\ [][Next]_vars

-----------------------------------------------------------------------------
\* A span refers to an older one, and a thread closes a span whose slot it owns.
TypeOK ==
  /\ config \in Configs
  /\ \A s \in DOMAIN spans :
       /\ spans[s].parent \in 0..(s - 1) /\ spans[s].trace \in Traces \cup {NoTrace}
       /\ spans[s].sampled \in BOOLEAN /\ spans[s].fields \in 0..MaxFields
       /\ spans[s].held \in BOOLEAN /\ spans[s].slot \in {"open", "closing", "closed", "cleared"}
       /\ spans[s].slot \in {"closing", "closed"} <=> \E t \in Threads : closing[t] = s
  /\ stack \in [Threads -> Seq(DOMAIN spans)]
  /\ closing \in [Threads -> {NoSpan} \cup DOMAIN spans]
  /\ \A j \in DOMAIN output : output[j].span \in {NoSpan} \cup DOMAIN spans

\* The root of the tree that a span is in.
RootOf[s \in DOMAIN spans] ==
  IF spans[s].parent = NoSpan THEN s ELSE RootOf[spans[s].parent]
Exported(s) == \E j \in DOMAIN output : output[j].signal = "traces" /\ output[j].span = s

\* A tree of spans is exported whole or not at all, with the logs in it: the
\* trace id of its root decides once, however it grows, and whoever closes it.
TreesWhole ==
  /\ \A s \in DOMAIN spans :
       spans[s].slot \in {"closed", "cleared"} =>
         (Exported(s) <=> config.traces /\ ShouldSample(spans[RootOf[s]].trace))
  /\ \A e \in DOMAIN events :
       events[e].log <=>
         /\ config.logs
         /\ events[e].span # NoSpan => ShouldSample(spans[RootOf[events[e].span]].trace)

\* A span is exported once, after its children and after every log in it: the
\* exporter never hears of a span after it was told that it ended.
SpanIsLast ==
  \A j, k \in DOMAIN output :
    j < k /\ output[j].signal = "traces" =>
      output[k].span # output[j].span /\ output[k].parent # output[j].span

\* An exported span is complete: nothing is recorded in it afterwards.
ExportedComplete ==
  \A j \in DOMAIN output :
    output[j].signal = "traces" =>
      LET s == output[j].span IN
      /\ output[j].fields = spans[s].fields /\ output[j].parent = spans[s].parent
      /\ spans[s].slot # "open"

\* README.md:115 says that "the same trace always gets the same decision".  A trace
\* id given through Display, as the request middleware does, is not parsed and
\* counts as zero, and a child's is not asked.
SameTraceSameDecision ==
  \A s, u \in DOMAIN spans :
    spans[s].given = spans[u].given /\ spans[s].given # NoTrace =>
      spans[s].sampled = spans[u].sampled

=============================================================================
