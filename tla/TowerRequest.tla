---------------------------- MODULE TowerRequest -----------------------------
(***************************************************************************)
(* The middleware of src/tower/: a request is called, and its future is    *)
(* polled by one thread and then another, in a span of its own that the    *)
(* poll enters and leaves, until it is ready, panics or is dropped.  What  *)
(* the handler does in a poll (spans of its own, requests of its own that  *)
(* the propagation layer gives a traceparent) is any sequence of the       *)
(* application's steps.  Spans and events are those of OtlpLayer.          *)
(***************************************************************************)
EXTENDS OtlpLayer

CONSTANTS
  Requests,   \* the requests that come in
  NoRequest,  \* no request
  RequestIds, \* the ids that x-amz-cf-id gives a request
  Blake3,     \* the trace id derived from a request id
  Statuses,   \* the status codes of responses
  MaxPolls,   \* bound: polls of all futures
  MaxHeaders  \* bound: headers that handlers send

\* A header may also be missing, empty or "-".
Anonymous == "-"

NoResult == 0
Failed == 1

ASSUME TowerAssumption ==
  /\ NoRequest \notin Requests /\ Anonymous \notin RequestIds
  /\ Blake3 \in [RequestIds -> Traces] /\ Statuses \subseteq 100..999
  /\ MaxPolls \in Nat /\ MaxHeaders \in Nat

VARIABLES
  requests, \* the future of each request, its span and the result it had
  polls,    \* how often a future was polled
  work,     \* the request each thread polls, and what the poll still does
  log,      \* history: the events about each request, with their spans
  headers   \* history: every traceparent sent

towerVars == <<requests, polls, work, log, headers>>

TowerInit ==
  /\ Init
  /\ requests = [r \in Requests |->
                   [at |-> "new", span |-> NoSpan, result |-> NoResult]]
  /\ work = [t \in Threads |-> [request |-> NoRequest, todo |-> <<>>]]
  /\ polls = 0 /\ log = [r \in Requests |-> <<>>] /\ headers = <<>>

Polled(t) == work[t].request
Busy(t) == Polled(t) # NoRequest

\* The thread runs code of the handler, or of nobody's.
Works(t) == work[t].todo = <<>>

Own(r) == requests[r].span
RequestSpans == {Own(r) : r \in Requests} \ {NoSpan}

\* Derived from a request id, or random.
GenerateTraceId(id) == IF id \in RequestIds THEN {Blake3[id]} ELSE Traces

\* Mutant: the header names the span that the current one is in.
TraceparentOfParent(r, place, s) ==
  IF s = NoSpan \/ spans[s].parent = NoSpan THEN <<>>
  ELSE <<[request |-> r, place |-> place, span |-> spans[s].parent,
          trace |-> spans[spans[s].parent].trace]>>

\* PropagationService: the ids of the current span, or no header.
Traceparent(r, place, s) ==
  IF s = NoSpan THEN <<>>
  ELSE <<[request |-> r, place |-> place, span |-> s, trace |-> spans[s].trace]>>

\* The span is a child of the current one, and its trace id given through
\* Display.  The inner service is called outside of it: a propagation layer in
\* the stack of the request sees the span of the caller.  The caller is a server,
\* or the handler of another request, which spawns the future.
Call(t, r) ==
  /\ requests[r].at = "new" /\ Works(t)
  /\ \E id \in RequestIds \cup {Anonymous} : \E trace \in GenerateTraceId(id) :
       NewSpan(t, Current(t), [way |-> "display", trace |-> trace])
  /\ requests' = [requests EXCEPT ![r].at = "waiting", ![r].span = Len(spans) + 1]
  /\ headers' = headers \o Traceparent(r, "stack", Current(t))
  /\ UNCHANGED <<polls, work, log>>

\* A future that has completed may be polled again by mistake.
PollBegin(t, r) ==
  /\ requests[r].at \in {"waiting", "completed"} /\ polls < MaxPolls /\ ~Busy(t)
  /\ Enter(t, Own(r))
  /\ requests' = [requests EXCEPT ![r].at = IF @ = "waiting" THEN "polled" ELSE "repolled"]
  /\ polls' = polls + 1
  /\ work' = [work EXCEPT ![t].request = r]
  /\ UNCHANGED <<log, headers>>

\* A poll has nothing to record, and the handler has left its own spans.
Handled(t) == Busy(t) /\ work[t].todo = <<>> /\ Current(t) = Own(Polled(t))

\* The poll ends and its guard is dropped.
Leave(t, at) ==
  /\ Exit(t, Own(Polled(t)))
  /\ requests' = [requests EXCEPT ![Polled(t)].at = at]
  /\ work' = [work EXCEPT ![t].request = NoRequest]
  /\ UNCHANGED <<polls, log, headers>>

\* Mutant: the guard is kept while the future waits.
PendingKeepsGuard(t) ==
  /\ Handled(t) /\ requests[Polled(t)].at = "polled" /\ requests[Polled(t)].result = NoResult
  /\ requests' = [requests EXCEPT ![Polled(t)].at = "waiting"]
  /\ work' = [work EXCEPT ![t].request = NoRequest]
  /\ UNCHANGED <<vars, polls, log, headers>>

PollPending(t) ==
  /\ Handled(t) /\ requests[Polled(t)].at = "polled" /\ requests[Polled(t)].result = NoResult
  /\ Leave(t, "waiting")

\* Mutant: an error of the service is counted as well.
OutcomeCountsFailures(result) ==
  <<"latency", "duration", "count">> \o IF result >= 400 THEN <<"status", "error">> ELSE <<>>

\* What poll records and logs of a result.
Outcome(result) ==
  IF result = Failed THEN <<"latency">>
  ELSE <<"status", "latency", "duration", "count">>
         \o IF result >= 400 THEN <<"error">> ELSE <<>>

PollReady(t, result) ==
  /\ Free(t) /\ Handled(t)
  /\ requests[Polled(t)].at = "polled" /\ requests[Polled(t)].result = NoResult
  /\ requests' = [requests EXCEPT ![Polled(t)].result = result]
  /\ work' = [work EXCEPT ![t].todo = Outcome(result)]
  /\ UNCHANGED <<vars, polls, log, headers>>

RecordResult(t) ==
  /\ Busy(t) /\ work[t].todo # <<>> /\ Head(work[t].todo) \in {"status", "latency"}
  /\ Record(t, Own(Polled(t)))
  /\ work' = [work EXCEPT ![t].todo = Tail(@)]
  /\ UNCHANGED <<requests, polls, log, headers>>

\* An event is logged in the current span, whatever request it is about.
EmitMetric(t) ==
  /\ Busy(t) /\ work[t].todo # <<>> /\ Head(work[t].todo) \in {"duration", "count", "error"}
  /\ Event(t)
  /\ log' = [log EXCEPT ![Polled(t)] =
                Append(@, [kind |-> Head(work[t].todo), status |-> requests[Polled(t)].result,
                           span |-> Current(t)])]
  /\ work' = [work EXCEPT ![t].todo = Tail(@)]
  /\ UNCHANGED <<requests, polls, headers>>

PollReturn(t) ==
  /\ Handled(t) /\ requests[Polled(t)].at = "polled" /\ requests[Polled(t)].result # NoResult
  /\ Leave(t, "completed")

\* The handler panics, as it does when it has returned before; the guard is
\* dropped as the stack unwinds.
PollPanic(t) ==
  /\ Handled(t)
  /\ requests[Polled(t)].at = "repolled" \/ requests[Polled(t)].result = NoResult
  /\ Leave(t, "panicked")

\* The future is dropped, ready or not, and with it the handle of its span.
DropFuture(t, r) ==
  /\ requests[r].at \in {"waiting", "completed", "panicked"} /\ ~Busy(t)
  /\ DropHandle(t, Own(r))
  /\ requests' = [requests EXCEPT ![r].at = "dropped"]
  /\ UNCHANGED <<polls, work, log, headers>>

-----------------------------------------------------------------------------
(***************************************************************************)
(* The application, in a poll or outside of all.                           *)
(***************************************************************************)
AppSpan(t, s) ==
  /\ Works(t) /\ s \notin RequestSpans
  /\ Enter(t, s) \/ (s = Current(t) /\ Exit(t, s)) \/ DropHandle(t, s)
  /\ UNCHANGED towerVars

AppNewSpan(t) ==
  /\ Works(t)
  /\ \E given \in Givens : NewSpan(t, Current(t), given)
  /\ UNCHANGED towerVars

\* A request of the handler's own, through the propagation layer.
Outgoing(t) ==
  /\ Free(t) /\ Busy(t) /\ Works(t)
  /\ Cardinality({h \in DOMAIN headers : headers[h].place = "handler"}) < MaxHeaders
  /\ headers' = headers \o Traceparent(Polled(t), "handler", Current(t))
  /\ UNCHANGED <<vars, requests, polls, work, log>>

LayerStep(t) == (Close(t) \/ Clear(t)) /\ UNCHANGED towerVars

TowerNext ==
  \E t \in Threads :
    \/ \E r \in Requests : Call(t, r) \/ PollBegin(t, r) \/ DropFuture(t, r)
    \/ \E result \in Statuses \cup {Failed} : PollReady(t, result)
    \/ RecordResult(t) \/ EmitMetric(t)
    \/ PollPending(t) \/ PollReturn(t) \/ PollPanic(t)
    \/ \E s \in DOMAIN spans : AppSpan(t, s)
    \/ AppNewSpan(t) \/ Outgoing(t) \/ LayerStep(t)

TowerSpec == TowerInit /\ [][TowerNext]_<<vars, towerVars>>

-----------------------------------------------------------------------------
Counted(r, kind) == Cardinality({e \in DOMAIN log[r] : log[r][e].kind = kind})

\* src/tower/request.rs:113-158: a request that was answered is timed and counted
\* once, and as an error if it was one, with its status and in its span; one that
\* failed, panicked or was dropped is not.  Its span says the same when exported.
RequestsCounted ==
  \A r \in Requests :
    LET result == requests[r].result
        recorded == \A t \in Threads : Polled(t) = r => work[t].todo = <<>>
        answered == result \notin {NoResult, Failed}
    IN  /\ recorded => \A kind \in {"duration", "count", "error"} :
             Counted(r, kind) = IF answered /\ (kind = "error" => result >= 400) THEN 1 ELSE 0
        /\ \A e \in DOMAIN log[r] : log[r][e].status = result /\ log[r][e].span = Own(r)
        /\ \A j \in DOMAIN output :
             output[j].signal = "traces" /\ output[j].span = Own(r) =>
               output[j].fields = CASE answered -> 2 [] result = Failed -> 1 [] OTHER -> 0

\* src/tower/request.rs:111: a thread is in the span of a request exactly while it
\* polls it: what is logged, opened or sent then is the request's, and nothing
\* that the thread does for another request or on its own is.
InSpanWhilePolled ==
  \A t \in Threads :
    Range(stack[t]) \cap RequestSpans = IF Busy(t) THEN {Own(Polled(t))} ELSE {}

\* src/tower/propagation.rs:40: a traceparent that a handler sends names no other
\* request's span, although its own may be a child of one, and has the trace id that
\* the span it names is exported with.  (That of a request's span is zero in both:
\* see SameTraceSameDecision in OtlpLayer.)
HeadersNameSpans ==
  \A h \in DOMAIN headers :
    LET s == headers[h].span IN
    /\ headers[h].place = "handler" /\ s \in RequestSpans => s = Own(headers[h].request)
    /\ \A j \in DOMAIN output :
         output[j].signal = "traces" /\ output[j].span = s => output[j].trace = headers[h].trace

\* README.md:131-132 stacks request_layer() and propagation_layer(), the latter for
\* "outbound: W3C traceparent injection": a request that passed them both has a
\* header with the ids of its own span.  Neither layer calls the next one within
\* that span.
StackNamesRequest ==
  \A r \in Requests :
    requests[r].at # "new" =>
      \E h \in DOMAIN headers :
        headers[h].request = r /\ headers[h].place = "stack" /\ headers[h].span = Own(r)

=============================================================================
