------------------------- MODULE TowerRequestProofs -------------------------
(***************************************************************************)
(* Theorems about TowerRequest, for any threads, requests and spans: what  *)
(* a thread does in the span of a request, it does for that request; the   *)
(* headers it sends then name that span; and a request is counted once.    *)
(***************************************************************************)
EXTENDS TowerRequest, OtlpLayerProofs, FiniteSetTheorems, SequenceTheorems

-----------------------------------------------------------------------------
(***************************************************************************)
(* The inductive invariant.                                                *)
(***************************************************************************)
Places == {"new", "waiting", "polled", "repolled", "completed", "panicked", "dropped"}
Results == {NoResult, Failed} \cup Statuses
Todo == {"status", "latency", "duration", "count", "error"}
RequestFields == [at : Places, span : {NoSpan} \cup DOMAIN spans, result : Results]
ThreadWork == [request : Requests \cup {NoRequest}, todo : Seq(Todo)]
InPoll(r) == requests[r].at \in {"polled", "repolled"}

\* A request that was called has a span of its own.
RequestsShape ==
  /\ requests \in [Requests -> RequestFields]
  /\ \A r \in Requests : requests[r].at = "new" <=> Own(r) = NoSpan
  /\ \A r, q \in Requests : Own(r) = Own(q) => Own(r) = NoSpan \/ r = q

\* A request is in a poll exactly while one thread polls it.
PollsExclusive ==
  /\ work \in [Threads -> ThreadWork]
  /\ \A r \in Requests : InPoll(r) <=> \E t \in Threads : Polled(t) = r
  /\ \A t, u \in Threads : Polled(t) = Polled(u) => ~Busy(t) \/ t = u

\* A thread is in a span once, so that leaving it leaves it.
EnteredOnce == \A t \in Threads : \A i, j \in DOMAIN stack[t] : stack[t][i] = stack[t][j] => i = j

TInv == LInv /\ RequestsShape /\ PollsExclusive /\ EnteredOnce /\ InSpanWhilePolled

-----------------------------------------------------------------------------
(***************************************************************************)
(* Stacks of entered spans.                                                *)
(***************************************************************************)
\* Removing an element of a sequence without repetitions removes its value.
LEMMA RemovedOnce ==
  ASSUME NEW S, NEW q \in Seq(S), NEW i \in DOMAIN q,
         \A j, k \in DOMAIN q : q[j] = q[k] => j = k
  PROVE  /\ Range(RemoveAt(q, i)) = Range(q) \ {q[i]}
         /\ \A j, k \in DOMAIN RemoveAt(q, i) : RemoveAt(q, i)[j] = RemoveAt(q, i)[k] => j = k
<1> DEFINE r == RemoveAt(q, i)
           a == SubSeq(q, 1, i - 1)
           b == SubSeq(q, i + 1, Len(q))
<1>1. i \in 1..Len(q) /\ Len(q) \in Nat /\ DOMAIN q = 1..Len(q)
  OBVIOUS
<1>2. a \in Seq(S) /\ Len(a) = i - 1 /\ \A k \in 1..(i - 1) : a[k] = q[k]
  OBVIOUS
<1>3. b \in Seq(S) /\ Len(b) = Len(q) - i /\ \A k \in 1..(Len(q) - i) : b[k] = q[i + k]
  OBVIOUS
<1>4. r = a \o b
  BY DEF RemoveAt
<1> HIDE DEF r, a, b
<1>5. DOMAIN r = 1..(Len(q) - 1)
  <2>1. DOMAIN (a \o b) = 1..(Len(a) + Len(b))
    <3>1. a \in Seq(S) /\ b \in Seq(S)
      BY <1>2, <1>3
    <3>2. a \o b \in Seq(S) /\ Len(a \o b) = Len(a) + Len(b)
      BY ONLY <3>1
    <3> QED
      BY ONLY <3>2
  <2>2. Len(a) + Len(b) = Len(q) - 1
    BY <1>1, <1>2, <1>3
  <2> QED
    BY <1>4, <2>1, <2>2
<1>6. \A k \in 1..(i - 1) : r[k] = q[k]
  BY <1>1, <1>2, <1>3, <1>4
<1>7. ASSUME NEW k \in i..(Len(q) - 1)
      PROVE  r[k] = q[k + 1]
  <2>1. r[k] = b[k - (i - 1)]
    BY <1>1, <1>2, <1>3, <1>4
  <2>2. k - (i - 1) \in 1..(Len(q) - i) /\ i + (k - (i - 1)) = k + 1
    BY <1>1
  <2>3. b[k - (i - 1)] = q[i + (k - (i - 1))]
    BY <1>3, <2>2
  <2> QED
    BY <2>1, <2>2, <2>3
<1>8. \A k \in DOMAIN r : \E j \in DOMAIN q : j # i /\ r[k] = q[j] /\ j = IF k < i THEN k ELSE k + 1
  BY <1>1, <1>5, <1>6, <1>7
<1>9. \A j \in DOMAIN q : j # i => \E k \in DOMAIN r : r[k] = q[j]
  <2>1. ASSUME NEW j \in DOMAIN q, j < i PROVE \E k \in DOMAIN r : r[k] = q[j]
    <3>1. j \in DOMAIN r /\ r[j] = q[j]
      BY <1>1, <1>5, <1>6, <2>1
    <3> QED
      BY <3>1
  <2>2. ASSUME NEW j \in DOMAIN q, j > i PROVE \E k \in DOMAIN r : r[k] = q[j]
    <3>1. j - 1 \in DOMAIN r /\ r[j - 1] = q[j]
      BY <1>1, <1>5, <1>7, <2>2
    <3> QED
      BY <3>1
  <2> QED
    BY <1>1, <2>1, <2>2
<1>10. Range(r) = Range(q) \ {q[i]}
  BY <1>8, <1>9 DEF Range
<1>11. ASSUME NEW j \in DOMAIN r, NEW k \in DOMAIN r, r[j] = r[k]
       PROVE  j = k
  <2>1. PICK x \in DOMAIN q : r[j] = q[x] /\ x = IF j < i THEN j ELSE j + 1
    BY <1>8
  <2>2. PICK y \in DOMAIN q : r[k] = q[y] /\ y = IF k < i THEN k ELSE k + 1
    BY <1>8
  <2>3. x = y
    BY <1>11, <2>1, <2>2
  <2> QED
    BY <1>1, <1>5, <2>1, <2>2, <2>3
<1> QED
  BY <1>10, <1>11 DEF r

\* Who enters a span is in it and in those it was in.
LEMMA EnterRange ==
  ASSUME LInv, EnteredOnce, NEW t \in Threads, NEW s \in DOMAIN spans, Enter(t, s)
  PROVE  /\ EnteredOnce' /\ Range(stack'[t]) = Range(stack[t]) \cup {s}
         /\ \A u \in Threads \ {t} : stack'[u] = stack[u]
<1>1. PICK q \in Seq(Nat) : q = stack[t]
  BY DEF LInv, Shape
<1>2. stack'[t] = Append(q, s) /\ \A u \in Threads \ {t} : stack'[u] = stack[u]
  BY <1>1 DEF LInv, Shape, Enter
<1>3. /\ DOMAIN q = 1..Len(q) /\ Len(q) \in Nat /\ DOMAIN Append(q, s) = DOMAIN q \cup {Len(q) + 1}
      /\ Append(q, s)[Len(q) + 1] = s /\ \A i \in DOMAIN q : Append(q, s)[i] = q[i]
  OBVIOUS
<1>4. \A i \in DOMAIN q : q[i] # s
  BY <1>1 DEF Enter, Range
<1>5. EnteredOnce'
  <2>1. \A i, j \in DOMAIN q : q[i] = q[j] => i = j
    BY <1>1 DEF EnteredOnce
  <2>2. \A i, j \in DOMAIN Append(q, s) : Append(q, s)[i] = Append(q, s)[j] => i = j
    BY <1>3, <1>4, <2>1
  <2> QED
    BY <1>2, <2>2 DEF EnteredOnce
<1>6. Range(Append(q, s)) = Range(q) \cup {s}
  BY <1>3 DEF Range
<1> QED
  BY <1>1, <1>2, <1>5, <1>6

\* Who leaves a span is in all the others still.
LEMMA ExitRange ==
  ASSUME LInv, EnteredOnce, NEW t \in Threads, NEW s, Exit(t, s)
  PROVE  /\ EnteredOnce' /\ Range(stack'[t]) = Range(stack[t]) \ {s}
         /\ \A u \in Threads \ {t} : stack'[u] = stack[u]
<1>1. PICK q \in Seq(Nat) : q = stack[t]
  BY DEF LInv, Shape
<1>2. PICK i \in DOMAIN q : q[i] = s /\ stack' = [stack EXCEPT ![t] = RemoveAt(q, i)]
  BY <1>1 DEF Exit
<1>3. stack'[t] = RemoveAt(q, i) /\ \A u \in Threads \ {t} : stack'[u] = stack[u]
  BY <1>2 DEF LInv, Shape
<1>4. \A j, k \in DOMAIN q : q[j] = q[k] => j = k
  BY <1>1 DEF EnteredOnce
<1>5. /\ Range(RemoveAt(q, i)) = Range(q) \ {q[i]}
      /\ \A j, k \in DOMAIN RemoveAt(q, i) : RemoveAt(q, i)[j] = RemoveAt(q, i)[k] => j = k
  BY <1>4, RemovedOnce
<1>6. EnteredOnce'
  BY <1>3, <1>5 DEF EnteredOnce
<1> QED
  BY <1>1, <1>2, <1>3, <1>5, <1>6

\* Spans are only added.
LEMMA SpansKept ==
  ASSUME LInv, NEW t \in Threads, NEW s, NEW parent, NEW given,
         \/ NewSpan(t, parent, given)
         \/ Record(t, s) \/ Enter(t, s) \/ Exit(t, s) \/ Event(t) \/ DropHandle(t, s)
         \/ Close(t) \/ Clear(t)
  PROVE  DOMAIN spans \subseteq DOMAIN spans'
<1>1. CASE NewSpan(t, parent, given)
  BY <1>1 DEF NewSpan, LInv, Shape
<1>2. CASE Record(t, s) \/ Enter(t, s) \/ Exit(t, s) \/ Event(t) \/ DropHandle(t, s) \/ Close(t) \/ Clear(t)
  BY <1>2 DEF Record, Enter, Exit, Event, DropHandle, Close, Clear
<1> QED
  BY <1>1, <1>2

-----------------------------------------------------------------------------
(***************************************************************************)
(* One lemma per kind of step.                                             *)
(***************************************************************************)
\* A step that begins and ends no poll, and leaves the requests' spans on the
\* stacks where they are, keeps the invariant.
LEMMA OtherStep ==
  ASSUME TInv, LInv', DOMAIN spans \subseteq DOMAIN spans',
         requests' \in [Requests -> RequestFields'],
         \A r \in Requests : /\ Own(r)' = Own(r) /\ InPoll(r)' = InPoll(r)
                             /\ requests'[r].at = "new" <=> requests[r].at = "new",
         work' \in [Threads -> ThreadWork],
         \A t \in Threads : Polled(t)' = Polled(t),
         EnteredOnce',
         \A t \in Threads : Range(stack'[t]) \cap RequestSpans = Range(stack[t]) \cap RequestSpans
  PROVE  TInv'
<1> USE DEF ThreadWork
<1>1. RequestSpans' = RequestSpans
  BY DEF RequestSpans
<1>2. RequestsShape'
  BY DEF TInv, RequestsShape
<1>3. PollsExclusive'
  BY DEF TInv, PollsExclusive, Busy
<1>4. InSpanWhilePolled'
  <2>1. ASSUME NEW t \in Threads
        PROVE  Range(stack'[t]) \cap RequestSpans' = IF Busy(t)' THEN {Own(Polled(t))'} ELSE {}
    <3>1. Range(stack[t]) \cap RequestSpans = IF Busy(t) THEN {Own(Polled(t))} ELSE {}
      BY DEF TInv, InSpanWhilePolled
    <3>2. Busy(t)' <=> Busy(t)
      BY DEF Busy
    <3>3. Busy(t) => Polled(t) \in Requests
      BY DEF TInv, PollsExclusive, ThreadWork, Busy, Polled
    <3>4. Busy(t) => Own(Polled(t))' = Own(Polled(t))
      BY <3>3 DEF Own
    <3> QED
      BY <1>1, <3>1, <3>2, <3>4
  <2> QED
    BY <2>1 DEF InSpanWhilePolled
<1> QED
  BY <1>2, <1>3, <1>4 DEF TInv

\* A step of the layer that touches neither stacks nor requests is one.
LEMMA SameStacks ==
  ASSUME TInv, LInv', DOMAIN spans \subseteq DOMAIN spans', UNCHANGED <<stack, requests>>,
         work' \in [Threads -> ThreadWork],
         \A t \in Threads : Polled(t)' = Polled(t)
  PROVE  TInv'
<1>1. requests' \in [Requests -> RequestFields']
  BY DEF TInv, RequestsShape, RequestFields
<1>2. \A r \in Requests : /\ Own(r)' = Own(r) /\ InPoll(r)' = InPoll(r)
                          /\ requests'[r].at = "new" <=> requests[r].at = "new"
  BY DEF Own, InPoll
<1>3. EnteredOnce'
  BY DEF TInv, EnteredOnce
<1> QED
  BY <1>1, <1>2, <1>3, OtherStep

\* A request is called: its span is new, and nobody is in it.
LEMMA CallStep ==
  ASSUME LayerAssumption, TowerAssumption, TInv, NEW t \in Threads, NEW r \in Requests, Call(t, r)
  PROVE  TInv'
<1>1. PICK trace \in Traces : NewSpan(t, Current(t), [way |-> "display", trace |-> trace])
  BY DEF Call, GenerateTraceId, TowerAssumption
<1>2. PICK given \in [way : Ways, trace : TraceIds] : NewSpan(t, Current(t), given)
  BY <1>1 DEF Ways, TraceIds
<1>3. LInv' /\ DOMAIN spans \subseteq DOMAIN spans'
  BY <1>2, NewSpanStep, SpansKept DEF TInv
<1>4. PICK n : n = Len(spans) + 1
  OBVIOUS
<1>5. n \notin DOMAIN spans /\ n \in DOMAIN spans' /\ n # NoSpan /\ UNCHANGED <<stack, work>>
  <2>1. spans \in Seq(SpanFields) /\ DOMAIN spans = 1..Len(spans) /\ Len(spans) \in Nat
    BY DEF TInv, LInv, Shape
  <2>2. n \notin DOMAIN spans /\ n # NoSpan
    BY ONLY <1>4, <2>1 DEF NoSpan
  <2>3. PICK f : spans' = Append(spans, f)
    BY <1>2 DEF NewSpan
  <2>4. n \in DOMAIN spans'
    BY ONLY <1>4, <2>1, <2>3
  <2>5. UNCHANGED <<stack, work>>
    BY <1>2 DEF NewSpan, Call
  <2> QED
    BY ONLY <2>2, <2>4, <2>5
<1>6. /\ requests[r].at = "new" /\ Own(r) = NoSpan
      /\ requests' = [requests EXCEPT ![r].at = "waiting", ![r].span = n]
  BY <1>4 DEF Call, TInv, RequestsShape
<1>7. /\ requests' \in [Requests -> RequestFields']
      /\ requests'[r].at = "waiting" /\ Own(r)' = n
      /\ \A q \in Requests \ {r} : requests'[q] = requests[q]
  <2>1. /\ requests \in [Requests -> RequestFields]
        /\ requests[r] \in RequestFields /\ DOMAIN requests = Requests
    BY DEF TInv, RequestsShape
  <2>2. /\ requests'[r] = [requests[r] EXCEPT !.at = "waiting", !.span = n]
        /\ \A q \in Requests \ {r} : requests'[q] = requests[q]
        /\ requests' = [q \in Requests |-> requests'[q]]
    <3>1. requests'[r] = [requests[r] EXCEPT !.at = "waiting", !.span = n]
      BY ONLY <1>6, <2>1
    <3>2. \A q \in Requests \ {r} : requests'[q] = requests[q]
      BY ONLY <1>6, <2>1
    <3>3. requests' = [q \in Requests |-> requests'[q]]
      BY ONLY <1>6, <2>1
    <3> QED
      BY <3>1, <3>2, <3>3
  <2>3. PICK f \in RequestFields : f = requests[r]
    BY <2>1
  <2>4. /\ requests'[r].at = "waiting" /\ requests'[r].span = n
        /\ requests'[r] \in RequestFields'
    <3> DEFINE g == [f EXCEPT !.at = "waiting"]
    <3>3. g \in RequestFields /\ g.at = "waiting"
      BY <2>3 DEF RequestFields, Places
    <3>4. requests'[r] = [g EXCEPT !.span = n]
      BY <2>2, <2>3
    <3> HIDE DEF g
    <3> QED
      BY ONLY <1>5, <3>3, <3>4 DEF RequestFields
  <2>5. \A q \in Requests : requests[q] \in RequestFields'
    BY <1>3 DEF TInv, RequestsShape, RequestFields
  <2>6. \A q \in Requests : requests'[q] \in RequestFields'
    BY <2>2, <2>4, <2>5
  <2> QED
    BY <2>2, <2>4, <2>6 DEF Own
<1>8. \A q \in Requests : Own(q) # n
  <2>1. \A q \in Requests : requests[q].span \in {NoSpan} \cup DOMAIN spans
    BY DEF TInv, RequestsShape, RequestFields
  <2> QED
    BY <1>5, <2>1 DEF Own
<1>9. RequestsShape'
  <2>1. \A q \in Requests : requests'[q].at = "new" <=> Own(q)' = NoSpan
    BY <1>5, <1>7 DEF TInv, RequestsShape, Own
  <2>2. \A q, p \in Requests : Own(q)' = Own(p)' => Own(q)' = NoSpan \/ q = p
    BY <1>7, <1>8 DEF TInv, RequestsShape, Own
  <2> QED
    BY <1>7, <2>1, <2>2 DEF RequestsShape
<1>10. \A u \in Threads : Polled(u) # r
  <2>1. ~InPoll(r)
    BY <1>6 DEF InPoll
  <2> QED
    BY <2>1 DEF TInv, PollsExclusive
<1>11. PollsExclusive'
  <2>1. \A q \in Requests : InPoll(q)' <=> \E u \in Threads : Polled(u)' = q
    <3>1. \A q \in Requests : InPoll(q)' <=> InPoll(q)
      <4>1. ~InPoll(r) /\ ~InPoll(r)'
        <5>1. requests[r].at = "new" /\ requests'[r].at = "waiting"
          BY <1>6, <1>7
        <5> QED
          BY ONLY <5>1 DEF InPoll
      <4>2. \A q \in Requests \ {r} : InPoll(q)' <=> InPoll(q)
        BY <1>7 DEF InPoll
      <4> QED
        BY <4>1, <4>2
    <3>2. \A u \in Threads : Polled(u)' = Polled(u)
      BY <1>5 DEF Polled
    <3> QED
      BY <3>1, <3>2 DEF TInv, PollsExclusive
  <2> QED
    BY <1>5, <2>1 DEF TInv, PollsExclusive, Busy, Polled
<1>12. EnteredOnce'
  BY <1>5 DEF TInv, EnteredOnce
<1>13. RequestSpans' = RequestSpans \cup {n}
  <2>1. \A q \in Requests \ {r} : Own(q)' = Own(q)
    BY <1>7 DEF Own
  <2> QED
    BY <1>5, <1>6, <1>7, <2>1 DEF RequestSpans
<1>14. InSpanWhilePolled'
  <2>1. ASSUME NEW u \in Threads
        PROVE  Range(stack'[u]) \cap RequestSpans' = IF Busy(u)' THEN {Own(Polled(u))'} ELSE {}
    <3>1. Range(stack[u]) \cap RequestSpans = IF Busy(u) THEN {Own(Polled(u))} ELSE {}
      BY DEF TInv, InSpanWhilePolled
    <3>2. n \notin Range(stack[u])
      BY <1>5 DEF TInv, LInv, EnteredHeld, Range
    <3>3. Busy(u)' <=> Busy(u)
      BY <1>5 DEF Busy, Polled
    <3>4. Busy(u) => Polled(u) \in Requests
      BY DEF TInv, PollsExclusive, ThreadWork, Busy, Polled
    <3>5. Busy(u) => Own(Polled(u))' = Own(Polled(u))
      BY <1>5, <1>7, <1>10, <3>4 DEF Own, Polled
    <3> QED
      BY <1>5, <1>13, <3>1, <3>2, <3>3, <3>5
  <2> QED
    BY <2>1 DEF InSpanWhilePolled
<1> QED
  BY <1>3, <1>9, <1>11, <1>12, <1>14 DEF TInv

\* A thread in a poll polls a request, which has a span.
LEMMA PolledRequest ==
  ASSUME TInv, NEW t \in Threads, Busy(t)
  PROVE  Polled(t) \in Requests /\ InPoll(Polled(t)) /\ Own(Polled(t)) \in DOMAIN spans
<1>1. Polled(t) \in Requests
  BY DEF TInv, PollsExclusive, ThreadWork, Busy, Polled
<1>2. InPoll(Polled(t))
  BY <1>1 DEF TInv, PollsExclusive
<1>3. requests[Polled(t)].at # "new"
  BY <1>2 DEF InPoll
<1>4. Own(Polled(t)) \in {NoSpan} \cup DOMAIN spans /\ Own(Polled(t)) # NoSpan
  BY <1>1, <1>3 DEF TInv, RequestsShape, RequestFields, Own
<1> QED
  BY <1>1, <1>2, <1>4

\* The place of one request changes and its span does not.
LEMMA Relocated ==
  ASSUME TInv, NEW r \in Requests, NEW at \in Places \ {"new"}, requests[r].at # "new",
         requests' = [requests EXCEPT ![r].at = at], DOMAIN spans \subseteq DOMAIN spans'
  PROVE  /\ RequestsShape' /\ RequestSpans' = RequestSpans
         /\ \A q \in Requests : Own(q)' = Own(q)
         /\ requests'[r].at = at /\ \A q \in Requests \ {r} : requests'[q] = requests[q]
<1>1. requests \in [Requests -> RequestFields]
  BY DEF TInv, RequestsShape
<1>2. PICK f \in RequestFields : f = requests[r]
  BY <1>1
<1>3. /\ requests'[r] = [f EXCEPT !.at = at]
      /\ \A q \in Requests \ {r} : requests'[q] = requests[q]
      /\ requests' = [q \in Requests |-> requests'[q]]
  BY <1>1, <1>2
<1>4. requests'[r] \in RequestFields /\ requests'[r].at = at /\ requests'[r].span = f.span
  BY <1>2, <1>3 DEF RequestFields
<1>5. RequestFields \subseteq RequestFields'
  BY DEF RequestFields
<1>6. requests' \in [Requests -> RequestFields']
  BY <1>1, <1>3, <1>4, <1>5
<1>7. \A q \in Requests : Own(q)' = Own(q)
  BY <1>2, <1>3, <1>4 DEF Own
<1>8. RequestSpans' = RequestSpans
  BY <1>7 DEF RequestSpans
<1>9. \A q \in Requests : requests'[q].at = "new" <=> requests[q].at = "new"
  BY <1>3, <1>4
<1>10. RequestsShape'
  BY <1>6, <1>7, <1>9 DEF TInv, RequestsShape
<1> QED
  BY <1>3, <1>4, <1>7, <1>8, <1>10

\* A poll begins: nobody polls the request, and its thread polls nothing.
LEMMA PollBeginStep ==
  ASSUME TInv, NEW t \in Threads, NEW r \in Requests, NoRequest \notin Requests, PollBegin(t, r)
  PROVE  TInv'
<1>1. /\ requests[r].at \in {"waiting", "completed"} /\ ~Busy(t) /\ Enter(t, Own(r))
      /\ work' = [work EXCEPT ![t].request = r]
  BY DEF PollBegin
<1>2. PICK at \in {"polled", "repolled"} : requests' = [requests EXCEPT ![r].at = at]
  BY DEF PollBegin
<1>3. Own(r) \in DOMAIN spans
  BY <1>1 DEF TInv, RequestsShape, RequestFields, Own
<1>4. LInv' /\ DOMAIN spans \subseteq DOMAIN spans'
  BY <1>1, <1>3, EnterStep, SpansKept DEF TInv
<1>5. /\ RequestsShape' /\ RequestSpans' = RequestSpans
      /\ \A q \in Requests : Own(q)' = Own(q)
      /\ requests'[r].at = at /\ \A q \in Requests \ {r} : requests'[q] = requests[q]
  BY <1>1, <1>2, <1>4, Relocated DEF Places
<1>6. /\ work' \in [Threads -> ThreadWork] /\ Polled(t)' = r
      /\ \A u \in Threads \ {t} : Polled(u)' = Polled(u)
  BY <1>1 DEF TInv, PollsExclusive, ThreadWork, Polled
<1>7. ~InPoll(r) /\ \A u \in Threads : Polled(u) # r
  <2>1. ~InPoll(r)
    BY <1>1 DEF InPoll
  <2> QED
    BY <2>1 DEF TInv, PollsExclusive
<1>8. PollsExclusive'
  <2>1. InPoll(r)' /\ \A q \in Requests \ {r} : InPoll(q)' <=> InPoll(q)
    BY <1>5 DEF InPoll
  <2>2. \A q \in Requests : InPoll(q)' <=> \E u \in Threads : Polled(u)' = q
    <3>1. ASSUME NEW q \in Requests \ {r}
          PROVE  InPoll(q)' <=> \E u \in Threads : Polled(u)' = q
      <4>1. Polled(t) \notin Requests
        BY <1>1 DEF TInv, PollsExclusive, ThreadWork, Busy, Polled
      <4>2. \A u \in Threads : Polled(u)' = q <=> Polled(u) = q
        BY <1>6, <4>1
      <4> QED
        BY <2>1, <4>2 DEF TInv, PollsExclusive
    <3> QED
      BY <1>6, <2>1, <3>1
  <2>3. \A u, v \in Threads : Polled(u)' = Polled(v)' => ~Busy(u)' \/ u = v
    BY <1>6, <1>7 DEF TInv, PollsExclusive, Busy
  <2> QED
    BY <1>6, <2>2, <2>3 DEF PollsExclusive
<1>9. /\ EnteredOnce' /\ Range(stack'[t]) = Range(stack[t]) \cup {Own(r)}
      /\ \A u \in Threads \ {t} : stack'[u] = stack[u]
  BY <1>1, <1>3, EnterRange DEF TInv
<1>10. InSpanWhilePolled'
  <2>1. Range(stack'[t]) \cap RequestSpans' = IF Busy(t)' THEN {Own(Polled(t))'} ELSE {}
    <3>1. Range(stack[t]) \cap RequestSpans = {}
      BY <1>1 DEF TInv, InSpanWhilePolled
    <3>2. Own(r) \in RequestSpans
      BY <1>3 DEF RequestSpans, TInv, LInv, Shape, NoSpan
    <3>3. Busy(t)' /\ Own(Polled(t))' = Own(r)
      BY <1>5, <1>6 DEF Busy, Own
    <3> QED
      BY <1>5, <1>9, <3>1, <3>2, <3>3
  <2>2. ASSUME NEW u \in Threads \ {t}
        PROVE  Range(stack'[u]) \cap RequestSpans' = IF Busy(u)' THEN {Own(Polled(u))'} ELSE {}
    <3>1. Range(stack[u]) \cap RequestSpans = IF Busy(u) THEN {Own(Polled(u))} ELSE {}
      BY DEF TInv, InSpanWhilePolled
    <3>2. Busy(u)' <=> Busy(u)
      BY <1>6 DEF Busy
    <3>3. Busy(u) => Own(Polled(u))' = Own(Polled(u))
      BY <1>5, <1>6, PolledRequest DEF Own
    <3> QED
      BY <1>5, <1>9, <3>1, <3>2, <3>3
  <2> QED
    BY <2>1, <2>2 DEF InSpanWhilePolled
<1> QED
  BY <1>4, <1>5, <1>8, <1>9, <1>10 DEF TInv

\* A poll ends, however it does: its thread leaves the span.
LEMMA LeaveStep ==
  ASSUME TInv, NEW t \in Threads, NEW at \in {"waiting", "completed", "panicked"},
         NoRequest \notin Requests, Busy(t), Leave(t, at)
  PROVE  TInv'
<1>1. PICK r : r = Polled(t)
  OBVIOUS
<1>2. r \in Requests /\ InPoll(r) /\ Own(r) \in DOMAIN spans /\ requests[r].at # "new"
  BY <1>1, PolledRequest DEF InPoll
<1>3. /\ Exit(t, Own(r)) /\ requests' = [requests EXCEPT ![r].at = at]
      /\ work' = [work EXCEPT ![t].request = NoRequest]
  BY <1>1 DEF Leave
<1>4. LInv' /\ DOMAIN spans \subseteq DOMAIN spans'
  BY <1>2, <1>3, ExitStep, SpansKept DEF TInv
<1>5. /\ RequestsShape' /\ RequestSpans' = RequestSpans
      /\ \A q \in Requests : Own(q)' = Own(q)
      /\ requests'[r].at = at /\ \A q \in Requests \ {r} : requests'[q] = requests[q]
  BY <1>2, <1>3, <1>4, Relocated DEF Places
<1>6. /\ work' \in [Threads -> ThreadWork] /\ Polled(t)' = NoRequest
      /\ \A u \in Threads \ {t} : Polled(u)' = Polled(u)
  BY <1>3 DEF TInv, PollsExclusive, ThreadWork, Polled
<1>7. \A u \in Threads \ {t} : Polled(u) # r
  BY <1>1 DEF TInv, PollsExclusive, Busy
<1>8. PollsExclusive'
  <2>1. ~InPoll(r)' /\ \A q \in Requests \ {r} : InPoll(q)' <=> InPoll(q)
    BY <1>5 DEF InPoll
  <2>2. \A q \in Requests : InPoll(q)' <=> \E u \in Threads : Polled(u)' = q
    <3>1. ASSUME NEW q \in Requests \ {r}
          PROVE  InPoll(q)' <=> \E u \in Threads : Polled(u)' = q
      <4>1. \A u \in Threads : Polled(u)' = q <=> Polled(u) = q
        BY <1>1, <1>6
      <4> QED
        BY <2>1, <4>1 DEF TInv, PollsExclusive
    <3>2. \A u \in Threads : Polled(u)' # r
      BY <1>2, <1>6, <1>7
    <3> QED
      BY <2>1, <3>1, <3>2
  <2>3. \A u, v \in Threads : Polled(u)' = Polled(v)' => ~Busy(u)' \/ u = v
    BY <1>6 DEF TInv, PollsExclusive, Busy
  <2> QED
    BY <1>6, <2>2, <2>3 DEF PollsExclusive
<1>9. /\ EnteredOnce' /\ Range(stack'[t]) = Range(stack[t]) \ {Own(r)}
      /\ \A u \in Threads \ {t} : stack'[u] = stack[u]
  BY <1>3, ExitRange DEF TInv
<1>10. InSpanWhilePolled'
  <2>1. Range(stack'[t]) \cap RequestSpans' = IF Busy(t)' THEN {Own(Polled(t))'} ELSE {}
    <3>1. Range(stack[t]) \cap RequestSpans = {Own(r)}
      BY <1>1 DEF TInv, InSpanWhilePolled
    <3>2. ~Busy(t)'
      BY <1>6 DEF Busy
    <3> QED
      BY <1>5, <1>9, <3>1, <3>2
  <2>2. ASSUME NEW u \in Threads \ {t}
        PROVE  Range(stack'[u]) \cap RequestSpans' = IF Busy(u)' THEN {Own(Polled(u))'} ELSE {}
    <3>1. Range(stack[u]) \cap RequestSpans = IF Busy(u) THEN {Own(Polled(u))} ELSE {}
      BY DEF TInv, InSpanWhilePolled
    <3>2. Busy(u)' <=> Busy(u)
      BY <1>6 DEF Busy
    <3>3. Busy(u) => Own(Polled(u))' = Own(Polled(u))
      BY <1>5, <1>6, PolledRequest DEF Own
    <3> QED
      BY <1>5, <1>9, <3>1, <3>2, <3>3
  <2> QED
    BY <2>1, <2>2 DEF InSpanWhilePolled
<1> QED
  BY <1>4, <1>5, <1>8, <1>9, <1>10 DEF TInv

\* A future is dropped outside of all polls.
LEMMA DropFutureStep ==
  ASSUME TInv, NEW t \in Threads, NEW r \in Requests, DropFuture(t, r)
  PROVE  TInv'
<1>1. /\ requests[r].at \in {"waiting", "completed", "panicked"} /\ DropHandle(t, Own(r))
      /\ requests' = [requests EXCEPT ![r].at = "dropped"] /\ UNCHANGED <<stack, work>>
  BY DEF DropFuture, DropHandle
<1>2. Own(r) \in DOMAIN spans
  BY <1>1 DEF TInv, RequestsShape, RequestFields, Own
<1>3. LInv' /\ DOMAIN spans \subseteq DOMAIN spans'
  BY <1>1, <1>2, DropHandleStep, SpansKept DEF TInv
<1>4. /\ RequestsShape' /\ \A q \in Requests : Own(q)' = Own(q)
      /\ requests'[r].at = "dropped" /\ \A q \in Requests \ {r} : requests'[q] = requests[q]
  BY <1>1, <1>3, Relocated DEF Places
<1>5. \A q \in Requests : InPoll(q)' = InPoll(q) /\ (requests'[q].at = "new" <=> requests[q].at = "new")
  BY <1>1, <1>4 DEF InPoll
<1>6. work' \in [Threads -> ThreadWork] /\ EnteredOnce' /\ \A u \in Threads : Polled(u)' = Polled(u)
  BY <1>1 DEF TInv, PollsExclusive, EnteredOnce, Polled
<1>7. requests' \in [Requests -> RequestFields']
  BY <1>4 DEF RequestsShape
<1>8. \A u \in Threads : Range(stack'[u]) \cap RequestSpans = Range(stack[u]) \cap RequestSpans
  BY <1>1
<1> QED
  BY <1>3, <1>4, <1>5, <1>6, <1>7, <1>8, OtherStep

\* The inner future is ready: what is left of the poll is to record its result.
LEMMA PollReadyStep ==
  ASSUME TInv, NEW t \in Threads, NEW result \in Statuses \cup {Failed}, PollReady(t, result)
  PROVE  TInv'
<1>1. /\ UNCHANGED vars /\ requests' = [requests EXCEPT ![Polled(t)].result = result]
      /\ work' = [work EXCEPT ![t].todo = Outcome(result)] /\ Busy(t)
  BY DEF PollReady, Handled
<1>2. LInv' /\ DOMAIN spans \subseteq DOMAIN spans' /\ UNCHANGED stack
  BY <1>1 DEF TInv, vars, LInv, Shape, SlotsCounted, Unreferenced, Children, EnteredHeld, SentClosed, SpanIsLast
<1>3. PICK r \in Requests : r = Polled(t)
  BY <1>1, PolledRequest
<1>4. requests \in [Requests -> RequestFields]
  BY DEF TInv, RequestsShape
<1>5. PICK f \in RequestFields : f = requests[r]
  BY <1>4
<1>6. /\ requests'[r] = [f EXCEPT !.result = result]
      /\ \A q \in Requests \ {r} : requests'[q] = requests[q]
      /\ requests' = [q \in Requests |-> requests'[q]]
  BY <1>1, <1>3, <1>4, <1>5
<1>7. requests'[r] \in RequestFields /\ requests'[r].at = f.at /\ requests'[r].span = f.span
  BY <1>5, <1>6 DEF RequestFields, Results
<1>8. RequestFields \subseteq RequestFields'
  BY <1>2 DEF RequestFields
<1>9. requests' \in [Requests -> RequestFields']
  BY <1>4, <1>6, <1>7, <1>8
<1>10. \A q \in Requests : requests'[q].at = requests[q].at /\ Own(q)' = Own(q)
  BY <1>5, <1>6, <1>7 DEF Own
<1>11. \A q \in Requests : InPoll(q)' = InPoll(q) /\ (requests'[q].at = "new" <=> requests[q].at = "new")
  BY <1>10 DEF InPoll
<1>12. work' \in [Threads -> ThreadWork] /\ \A u \in Threads : Polled(u)' = Polled(u)
  <2>1. Outcome(result) \in Seq(Todo)
    <3>1. /\ <<"latency">> \in Seq(Todo) /\ <<"error">> \in Seq(Todo) /\ <<>> \in Seq(Todo)
          /\ <<"status", "latency", "duration", "count">> \in Seq(Todo)
      BY DEF Todo
    <3>2. \A a, b \in Seq(Todo) : a \o b \in Seq(Todo)
      OBVIOUS
    <3> QED
      BY <3>1, <3>2 DEF Outcome
  <2> QED
    BY <1>1, <2>1 DEF TInv, PollsExclusive, ThreadWork, Polled
<1>13. EnteredOnce'
  BY <1>2 DEF TInv, EnteredOnce
<1>14. \A u \in Threads : Range(stack'[u]) \cap RequestSpans = Range(stack[u]) \cap RequestSpans
  BY <1>2
<1> QED
  BY <1>2, <1>9, <1>10, <1>11, <1>12, <1>13, <1>14, OtherStep

\* The poll records and logs, one thing after the other.
LEMMA WorkStep ==
  ASSUME LayerAssumption, TInv, NEW t \in Threads, RecordResult(t) \/ EmitMetric(t)
  PROVE  TInv'
<1>1. /\ Busy(t) /\ work[t].todo # <<>> /\ (Record(t, Own(Polled(t))) \/ Event(t))
      /\ work' = [work EXCEPT ![t].todo = Tail(@)] /\ UNCHANGED requests
  BY DEF RecordResult, EmitMetric
<1>2. LInv' /\ DOMAIN spans \subseteq DOMAIN spans' /\ UNCHANGED stack
  <2>1. Own(Polled(t)) \in DOMAIN spans
    BY <1>1, PolledRequest
  <2> QED
    BY <1>1, <2>1, RecordStep, EventStep, SpansKept DEF TInv, Record, Event
<1>3. work' \in [Threads -> ThreadWork] /\ \A u \in Threads : Polled(u)' = Polled(u)
  <2>1. work[t].todo \in Seq(Todo)
    BY DEF TInv, PollsExclusive, ThreadWork
  <2>2. Tail(work[t].todo) \in Seq(Todo)
    BY <1>1, <2>1
  <2> QED
    <3>1. work \in [Threads -> ThreadWork]
      BY DEF TInv, PollsExclusive
    <3>2. PICK q \in Seq(Todo) : work' = [work EXCEPT ![t].todo = q]
      BY <1>1, <2>2
    <3> QED
      BY ONLY <3>1, <3>2 DEF ThreadWork, Polled
<1> QED
  BY <1>1, <1>2, <1>3, SameStacks

\* The application enters and leaves only spans of its own.
LEMMA AppStep ==
  ASSUME LayerAssumption, TInv, NEW t \in Threads,
         (\E s \in DOMAIN spans : AppSpan(t, s)) \/ AppNewSpan(t)
  PROVE  TInv'
<1>1. UNCHANGED <<requests, work>> /\ work' \in [Threads -> ThreadWork]
      /\ \A u \in Threads : Polled(u)' = Polled(u)
  BY DEF AppSpan, AppNewSpan, towerVars, TInv, PollsExclusive, Polled
<1>2. ASSUME NEW given \in Givens, NewSpan(t, Current(t), given)
      PROVE  TInv'
  <2>1. given \in [way : Ways, trace : TraceIds]
    BY DEF LayerAssumption, TraceIds
  <2>2. LInv' /\ DOMAIN spans \subseteq DOMAIN spans' /\ UNCHANGED stack
    BY <1>2, <2>1, NewSpanStep, SpansKept DEF TInv, NewSpan
  <2> QED
    BY <1>1, <2>2, SameStacks
<1>3. ASSUME NEW s \in DOMAIN spans, DropHandle(t, s)
      PROVE  TInv'
  <2>1. LInv' /\ DOMAIN spans \subseteq DOMAIN spans' /\ UNCHANGED stack
    BY <1>3, DropHandleStep, SpansKept DEF TInv, DropHandle
  <2> QED
    BY <1>1, <2>1, SameStacks
<1>4. ASSUME NEW s \in DOMAIN spans \ RequestSpans, Enter(t, s) \/ Exit(t, s)
      PROVE  TInv'
  <2>1. LInv' /\ DOMAIN spans \subseteq DOMAIN spans'
    BY <1>4, EnterStep, ExitStep, SpansKept DEF TInv
  <2>2. /\ EnteredOnce' /\ \A u \in Threads \ {t} : stack'[u] = stack[u]
        /\ \/ Range(stack'[t]) = Range(stack[t]) \cup {s}
           \/ Range(stack'[t]) = Range(stack[t]) \ {s}
    BY <1>4, EnterRange, ExitRange DEF TInv
  <2>3. \A u \in Threads : Range(stack'[u]) \cap RequestSpans = Range(stack[u]) \cap RequestSpans
    BY <1>4, <2>2
  <2>4. requests' \in [Requests -> RequestFields']
    BY <1>1, <2>1 DEF TInv, RequestsShape, RequestFields
  <2>5. \A q \in Requests : /\ Own(q)' = Own(q) /\ InPoll(q)' = InPoll(q)
                            /\ requests'[q].at = "new" <=> requests[q].at = "new"
    BY <1>1 DEF Own, InPoll
  <2> QED
    BY <1>1, <2>1, <2>2, <2>3, <2>4, <2>5, OtherStep
<1> QED
  BY <1>2, <1>3, <1>4 DEF AppSpan, AppNewSpan

\* A span closes, or a request is sent.
LEMMA BackgroundStep ==
  ASSUME LayerAssumption, TInv, NEW t \in Threads, LayerStep(t) \/ Outgoing(t)
  PROVE  TInv'
<1>1. /\ UNCHANGED <<stack, requests, work>> /\ work' \in [Threads -> ThreadWork]
      /\ \A u \in Threads : Polled(u)' = Polled(u)
  BY DEF LayerStep, Outgoing, Close, Clear, vars, towerVars, TInv, PollsExclusive, Polled
<1>2. CASE Close(t) \/ Clear(t)
  <2>1. LInv' /\ DOMAIN spans \subseteq DOMAIN spans'
    BY <1>2, CloseStep, ClearStep, SpansKept DEF TInv
  <2> QED
    BY <1>1, <2>1, SameStacks
<1>3. CASE UNCHANGED vars
  <2>1. LInv' /\ DOMAIN spans \subseteq DOMAIN spans'
    BY <1>3 DEF TInv, vars, LInv, Shape, SlotsCounted, Unreferenced, Children, EnteredHeld, SentClosed, SpanIsLast
  <2> QED
    BY <1>1, <2>1, SameStacks
<1> QED
  BY <1>2, <1>3 DEF LayerStep, Outgoing

-----------------------------------------------------------------------------
(***************************************************************************)
(* The theorem.                                                            *)
(***************************************************************************)
\* In the initial state no request was called, and no thread is in a span.
LEMMA TowerStart ==
  ASSUME TowerInit PROVE TInv
<1>1. LInv
  BY LayerInit DEF TowerInit
<1>2. RequestsShape
  BY DEF TowerInit, RequestsShape, RequestFields, Places, Results, Own
<1>3. PollsExclusive
  <2>1. /\ work = [t \in Threads |-> [request |-> NoRequest, todo |-> <<>>]]
        /\ \A r \in Requests : requests[r].at = "new"
    BY DEF TowerInit
  <2>2. (\A t \in Threads : ~Busy(t)) /\ (\A r \in Requests : ~InPoll(r))
    BY <2>1 DEF Busy, Polled, InPoll
  <2>3. \A t \in Threads, r \in Requests : Polled(t) # r
    BY <2>1, TowerAssumption DEF Polled, TowerAssumption
  <2>4. work \in [Threads -> ThreadWork]
    BY <2>1 DEF ThreadWork
  <2> QED
    BY <2>2, <2>3, <2>4 DEF PollsExclusive
<1>4. \A t \in Threads : stack[t] = <<>>
  BY DEF TowerInit, Init
<1>5. EnteredOnce
  BY <1>4 DEF EnteredOnce
<1>6. InSpanWhilePolled
  <2>1. \A t \in Threads : Range(stack[t]) = {} /\ ~Busy(t)
    BY <1>4 DEF Range, TowerInit, Busy, Polled
  <2> QED
    BY <2>1 DEF InSpanWhilePolled
<1> QED
  BY <1>1, <1>2, <1>3, <1>5, <1>6 DEF TInv

\* Every step keeps the invariant.
LEMMA TowerStep ==
  ASSUME LayerAssumption, TowerAssumption, TInv, [TowerNext]_<<vars, towerVars>>
  PROVE  TInv'
<1>1. CASE UNCHANGED <<vars, towerVars>>
  <2>1. LInv' /\ DOMAIN spans \subseteq DOMAIN spans' /\ UNCHANGED <<stack, requests, work>>
    BY <1>1 DEF TInv, vars, towerVars, LInv, Shape, SlotsCounted, Unreferenced, Children, EnteredHeld,
      SentClosed, SpanIsLast
  <2>2. work' \in [Threads -> ThreadWork] /\ \A t \in Threads : Polled(t)' = Polled(t)
    BY <2>1 DEF TInv, PollsExclusive, Polled
  <2> QED
    BY <2>1, <2>2, SameStacks
<1>2. ASSUME NEW t \in Threads, NEW r \in Requests, Call(t, r) \/ PollBegin(t, r) \/ DropFuture(t, r)
      PROVE  TInv'
  BY <1>2, CallStep, PollBeginStep, DropFutureStep DEF TowerAssumption
<1>3. ASSUME NEW t \in Threads, NEW result \in Statuses \cup {Failed}, PollReady(t, result)
      PROVE  TInv'
  BY <1>3, PollReadyStep
<1>4. ASSUME NEW t \in Threads, PollPending(t) \/ PollReturn(t) \/ PollPanic(t)
      PROVE  TInv'
  BY <1>4, LeaveStep DEF PollPending, PollReturn, PollPanic, Handled, TowerAssumption
<1>5. ASSUME NEW t \in Threads,
             \/ RecordResult(t) \/ EmitMetric(t)
             \/ (\E s \in DOMAIN spans : AppSpan(t, s)) \/ AppNewSpan(t)
             \/ Outgoing(t) \/ LayerStep(t)
      PROVE  TInv'
  BY <1>5, WorkStep, AppStep, BackgroundStep
<1> QED
  BY <1>1, <1>2, <1>3, <1>4, <1>5 DEF TowerNext

\* A thread is in the span of a request exactly while it polls it, whatever its
\* handlers do and wherever its futures move (src/tower/request.rs, poll).
THEOREM InItsSpan == TowerSpec => []InSpanWhilePolled
<1>1. TowerInit => TInv
  BY TowerStart
<1>2. TInv /\ [TowerNext]_<<vars, towerVars>> => TInv'
  BY LayerAssumption, TowerAssumption, TowerStep
<1>3. TInv => InSpanWhilePolled
  BY DEF TInv
<1> QED
  BY <1>1, <1>2, <1>3, PTL DEF TowerSpec

-----------------------------------------------------------------------------
(***************************************************************************)
(* Headers.                                                                *)
(***************************************************************************)
Header == [request : Requests, place : {"handler", "stack"}, span : Nat, trace : TraceIds]

\* A header names a span and its trace id: the handler's that of its request or
\* of none.
Names(e) ==
  /\ e.span \in DOMAIN spans /\ e.trace = spans[e.span].trace
  /\ e.place = "handler" /\ e.span \in RequestSpans => e.span = Own(e.request)

HeadersTrue == headers \in Seq(Header) /\ \A h \in DOMAIN headers : Names(headers[h])

HInv == TInv /\ SentTraces /\ HeadersTrue

\* Every step of the middleware is one of the layer, or none.
LEMMA TowerActs ==
  ASSUME LayerAssumption, TowerAssumption, TInv, NEW t \in Threads,
         \/ \E r \in Requests : Call(t, r) \/ PollBegin(t, r) \/ DropFuture(t, r)
         \/ RecordResult(t) \/ EmitMetric(t) \/ PollPending(t) \/ PollReturn(t) \/ PollPanic(t)
         \/ \E s \in DOMAIN spans : AppSpan(t, s)
         \/ AppNewSpan(t) \/ LayerStep(t)
  PROVE  Act(t)
<1>1. \A r \in Requests : Own(r) \in {NoSpan} \cup DOMAIN spans /\ (Own(r) = NoSpan <=> requests[r].at = "new")
  BY DEF TInv, RequestsShape, RequestFields, Own
<1>2. Busy(t) => Own(Polled(t)) \in DOMAIN spans
  BY PolledRequest
<1>3. Current(t) \in {NoSpan} \cup DOMAIN spans
  BY CurrentHeld DEF TInv
<1>4. ASSUME NEW r \in Requests, Call(t, r)
      PROVE  Act(t)
  <2>1. PICK trace \in Traces : NewSpan(t, Current(t), [way |-> "display", trace |-> trace])
    BY <1>4 DEF Call, GenerateTraceId, TowerAssumption
  <2>2. [way |-> "display", trace |-> trace] \in [way : Ways, trace : TraceIds]
    BY DEF Ways, TraceIds
  <2> QED
    BY <1>3, <2>1, <2>2 DEF Act
<1>5. ASSUME NEW r \in Requests, PollBegin(t, r) \/ DropFuture(t, r)
      PROVE  Act(t)
  <2>1. requests[r].at # "new" /\ (Enter(t, Own(r)) \/ DropHandle(t, Own(r)))
    BY <1>5 DEF PollBegin, DropFuture
  <2> QED
    BY <1>1, <2>1 DEF Act
<1>6. CASE RecordResult(t) \/ EmitMetric(t)
  BY <1>2, <1>6 DEF RecordResult, EmitMetric, Act
<1>7. CASE PollPending(t) \/ PollReturn(t) \/ PollPanic(t)
  BY <1>2, <1>7 DEF PollPending, PollReturn, PollPanic, Handled, Leave, Act
<1>8. CASE \E s \in DOMAIN spans : AppSpan(t, s)
  BY <1>8 DEF AppSpan, Act
<1>9. CASE AppNewSpan(t)
  <2>1. Givens \subseteq [way : Ways, trace : TraceIds]
    BY DEF LayerAssumption, TraceIds
  <2> QED
    BY <1>3, <1>9, <2>1 DEF AppNewSpan, Act
<1>10. CASE LayerStep(t)
  BY <1>10 DEF LayerStep, Act
<1> QED
  BY <1>4, <1>5, <1>6, <1>7, <1>8, <1>9, <1>10

\* A header stays true: spans keep what they are named by.
LEMMA NamesKept ==
  ASSUME TInv, Kept, NEW e \in Header, Names(e), RequestSpans' = RequestSpans,
         Own(e.request)' = Own(e.request)
  PROVE  Names(e)'
  BY DEF Names, Kept

\* So do all headers, when no request gets its span and none is sent.
LEMMA HeadersKept ==
  ASSUME HInv, Kept, \A q \in Requests : Own(q)' = Own(q)
  PROVE  /\ \A h \in DOMAIN headers : \A e : e = headers[h] => Names(e)'
         /\ UNCHANGED headers => HeadersTrue'
<1>1. RequestSpans' = RequestSpans
  BY DEF RequestSpans
<1>2. \A h \in DOMAIN headers : headers[h] \in Header /\ Names(headers[h])
  BY DEF HInv, HeadersTrue
<1>3. ASSUME NEW h \in DOMAIN headers, NEW e, e = headers[h]
      PROVE  Names(e)'
  <2>1. e \in Header /\ Names(e)
    BY <1>2, <1>3
  <2>2. e.request \in Requests
    BY <2>1 DEF Header
  <2> QED
    BY <1>1, <2>1, <2>2, NamesKept DEF HInv
<1>4. ASSUME UNCHANGED headers PROVE HeadersTrue'
  <2>1. \A h \in DOMAIN headers' : Names(headers[h])'
    <3> SUFFICES ASSUME NEW h \in DOMAIN headers PROVE Names(headers[h])'
      BY <1>4
    <3>1. PICK e : e = headers[h]
      OBVIOUS
    <3>2. e = headers'[h] /\ Names(e)'
      BY <1>3, <1>4, <3>1
    <3> QED
      BY <3>2 DEF Names
  <2>2. headers' \in Seq(Header)
    BY <1>4 DEF HInv, HeadersTrue
  <2> QED
    BY <2>1, <2>2 DEF HeadersTrue
<1> QED
  BY <1>3, <1>4

\* A header that is sent is true of the span its thread is in.
LEMMA HeaderSent ==
  ASSUME HInv, NEW r \in Requests, NEW place \in {"handler", "stack"},
         NEW s \in {NoSpan} \cup DOMAIN spans, headers' = headers \o Traceparent(r, place, s)
  PROVE  /\ headers' \in Seq(Header)
         /\ \A h \in DOMAIN headers' :
              \/ h \in DOMAIN headers /\ headers'[h] = headers[h]
              \/ /\ s # NoSpan
                 /\ headers'[h] = [request |-> r, place |-> place, span |-> s, trace |-> spans[s].trace]
<1>1. headers \in Seq(Header) /\ DOMAIN headers = 1..Len(headers) /\ Len(headers) \in Nat
  BY DEF HInv, HeadersTrue
<1>2. CASE s = NoSpan
  <2>1. headers' = headers
    BY <1>1, <1>2 DEF Traceparent
  <2> QED
    BY <1>1, <2>1
<1>3. CASE s # NoSpan
  <2>1. PICK e : e = [request |-> r, place |-> place, span |-> s, trace |-> spans[s].trace]
    OBVIOUS
  <2>2. e \in Header
    <3>1. s \in Nat /\ spans[s] \in SpanFields
      BY <1>3 DEF HInv, TInv, LInv, Shape
    <3> QED
      BY <2>1, <3>1 DEF Header, SpanFields
  <2>3. headers' = headers \o <<e>>
    BY <1>3, <2>1 DEF Traceparent
  <2>4. /\ headers' \in Seq(Header) /\ DOMAIN headers' = 1..(Len(headers) + 1)
        /\ headers'[Len(headers) + 1] = e /\ \A h \in DOMAIN headers : headers'[h] = headers[h]
    BY ONLY <1>1, <2>2, <2>3
  <2> QED
    BY <1>1, <1>3, <2>1, <2>4
<1> QED
  BY <1>2, <1>3

\* The request's own stack sends a header that no handler does, and the new span
\* is named by none.
LEMMA CallHeaders ==
  ASSUME HInv, NEW t \in Threads, NEW r \in Requests, Call(t, r), Kept
  PROVE  HeadersTrue'
<1>1. PICK given : NewSpan(t, Current(t), given)
  BY DEF Call
<1>2. PICK n, c : n = Len(spans) + 1 /\ c = Current(t)
  OBVIOUS
<1>3. /\ n \notin DOMAIN spans /\ DOMAIN spans' = DOMAIN spans \cup {n} /\ spans'[n].parent = c
      /\ \A x \in DOMAIN spans : spans'[x] = spans[x]
  <2>1. Created(n, Current(t), given)
    BY <1>1, <1>2, NewSpanIs DEF HInv, TInv
  <2> QED
    BY ONLY <1>2, <2>1 DEF Created
<1>4. /\ Own(r) = NoSpan /\ Own(r)' = n /\ \A q \in Requests \ {r} : Own(q)' = Own(q)
  <2>1. requests \in [Requests -> RequestFields] /\ requests[r].at = "new"
    BY DEF HInv, TInv, RequestsShape, Call
  <2>2. requests' = [requests EXCEPT ![r].at = "waiting", ![r].span = n]
    BY <1>2 DEF Call
  <2>3. PICK f \in RequestFields : f = requests[r]
    BY <2>1
  <2>4. requests'[r] = [f EXCEPT !.at = "waiting", !.span = n]
    BY ONLY <2>1, <2>2, <2>3, r \in Requests
  <2>5. requests'[r].span = n
    BY ONLY <2>3, <2>4 DEF RequestFields
  <2>6. \A q \in Requests \ {r} : requests'[q] = requests[q]
    BY ONLY <2>1, <2>2, r \in Requests
  <2> QED
    BY <2>1, <2>5, <2>6 DEF Own, HInv, TInv, RequestsShape
<1>5. RequestSpans' \subseteq RequestSpans \cup {n} /\ RequestSpans \subseteq DOMAIN spans /\ NoSpan \notin DOMAIN spans
  <2>1. \A q \in Requests : Own(q) \in {NoSpan} \cup DOMAIN spans
    BY DEF HInv, TInv, RequestsShape, RequestFields, Own
  <2>2. \A q \in Requests : Own(q)' \in {Own(q), n}
    BY <1>4
  <2>3. NoSpan \notin DOMAIN spans
    BY DEF HInv, TInv, LInv, Shape, NoSpan
  <2> QED
    BY <2>1, <2>2, <2>3 DEF RequestSpans
<1>6. c \in {NoSpan} \cup DOMAIN spans
  BY <1>2, CurrentHeld DEF HInv, TInv
<1>7. ASSUME NEW e \in Header, Names(e)
      PROVE  Names(e)'
  <2>1. e.span \in DOMAIN spans' /\ e.span \in DOMAIN spans /\ e.trace = spans'[e.span].trace
    BY <1>3, <1>7 DEF Names
  <2>2. ASSUME e.place = "handler", e.span \in RequestSpans'
        PROVE  e.span = Own(e.request)'
    <3>1. e.span = Own(e.request)
      BY <1>3, <1>5, <1>7, <2>1, <2>2 DEF Names
    <3>2. e.request \in Requests /\ e.request # r
      BY <1>4, <1>5, <2>1, <3>1 DEF Header
    <3> QED
      BY <1>4, <3>1, <3>2
  <2> QED
    BY <2>1, <2>2 DEF Names
<1>8. ASSUME NEW e, c # NoSpan,
             e = [request |-> r, place |-> "stack", span |-> c, trace |-> spans[c].trace]
      PROVE  Names(e)'
  <2>1. e.request = r /\ e.place = "stack" /\ e.span = c /\ e.trace = spans[c].trace
    BY <1>8
  <2> QED
    BY <1>3, <1>4, <1>6, <1>8, <2>1 DEF Names
<1>9. /\ headers' \in Seq(Header)
      /\ \A h \in DOMAIN headers' :
           \/ h \in DOMAIN headers /\ headers'[h] = headers[h]
           \/ /\ c # NoSpan
              /\ headers'[h] = [request |-> r, place |-> "stack", span |-> c, trace |-> spans[c].trace]
  <2>1. headers' = headers \o Traceparent(r, "stack", c)
    BY <1>2 DEF Call
  <2> QED
    BY <1>6, <2>1, HeaderSent
<1>10. \A h \in DOMAIN headers : headers[h] \in Header /\ Names(headers[h])
  BY DEF HInv, HeadersTrue
<1>11. ASSUME NEW h \in DOMAIN headers'
       PROVE  Names(headers[h])'
  <2>1. PICK e : e = headers'[h]
    OBVIOUS
  <2>2. Names(e)'
    BY <1>7, <1>8, <1>9, <1>10, <2>1
  <2> QED
    BY <2>1, <2>2 DEF Names
<1> QED
  BY <1>9, <1>11 DEF HeadersTrue

\* A handler is in no request's span but its own.
LEMMA OutgoingHeaders ==
  ASSUME HInv, NEW t \in Threads, Outgoing(t)
  PROVE  HeadersTrue'
<1>1. UNCHANGED <<spans, requests>> /\ Busy(t)
  BY DEF Outgoing, vars
<1>2. PICK r, c : r = Polled(t) /\ c = Current(t)
  OBVIOUS
<1>3. r \in Requests /\ c \in {NoSpan} \cup DOMAIN spans /\ headers' = headers \o Traceparent(r, "handler", c)
  BY <1>1, <1>2, PolledRequest, CurrentHeld DEF HInv, TInv, Outgoing
<1>4. c # NoSpan /\ c \in RequestSpans => c = Own(r)
  <2>1. c # NoSpan => c \in Range(stack[t])
    <3>1. stack[t] \in Seq(Nat)
      BY DEF HInv, TInv, LInv, Shape
    <3>2. stack[t] # <<>> => Len(stack[t]) \in DOMAIN stack[t]
      BY <3>1
    <3> QED
      BY <1>2, <3>2 DEF Current, Last, Range
  <2>2. Range(stack[t]) \cap RequestSpans = {Own(r)}
    BY <1>1, <1>2 DEF HInv, TInv, InSpanWhilePolled
  <2> QED
    BY <2>1, <2>2
<1>5. ASSUME NEW e, c # NoSpan,
             e = [request |-> r, place |-> "handler", span |-> c, trace |-> spans[c].trace]
      PROVE  Names(e)
  <2>1. e.request = r /\ e.place = "handler" /\ e.span = c /\ e.trace = spans[c].trace
    BY <1>5
  <2> QED
    BY <1>3, <1>4, <1>5, <2>1 DEF Names
<1>6. /\ headers' \in Seq(Header)
      /\ \A h \in DOMAIN headers' :
           \/ h \in DOMAIN headers /\ headers'[h] = headers[h]
           \/ /\ c # NoSpan
              /\ headers'[h] = [request |-> r, place |-> "handler", span |-> c, trace |-> spans[c].trace]
  BY <1>3, HeaderSent
<1>7. \A h \in DOMAIN headers' : Names(headers'[h])
  BY <1>5, <1>6 DEF HInv, HeadersTrue
<1>8. ASSUME NEW h \in DOMAIN headers'
      PROVE  Names(headers[h])'
  <2>1. PICK e : e = headers'[h]
    OBVIOUS
  <2>2. Names(e)
    BY <1>7, <2>1
  <2> QED
    BY <1>1, <2>1, <2>2 DEF Names, RequestSpans, Own
<1> QED
  BY <1>6, <1>8 DEF HeadersTrue

LEMMA HeadersStep ==
  ASSUME LayerAssumption, TowerAssumption, HInv, [TowerNext]_<<vars, towerVars>>
  PROVE  HInv'
<1>0. TInv'
  BY TowerStep DEF HInv
<1>1. CASE UNCHANGED <<vars, towerVars>>
  <2>1. UNCHANGED <<spans, output, headers, requests>>
    BY <1>1 DEF vars, towerVars
  <2>2. SentTraces' /\ Kept
    BY <2>1 DEF HInv, SentTraces, Kept
  <2>3. HeadersTrue'
    BY <2>1, <2>2, HeadersKept DEF Own
  <2> QED
    BY <1>0, <2>2, <2>3 DEF HInv
<1>2. ASSUME NEW t \in Threads, Act(t)
      PROVE  SentTraces' /\ Kept
  BY <1>2, ActKeeps, SentTracesStep DEF HInv, TInv
<1>3. ASSUME NEW t \in Threads, NEW r \in Requests, Call(t, r)
      PROVE  HInv'
  <2>1. Act(t)
    BY <1>3, TowerActs DEF HInv
  <2> QED
    BY <1>0, <1>2, <1>3, <2>1, CallHeaders DEF HInv
<1>4. ASSUME NEW t \in Threads, Outgoing(t)
      PROVE  HInv'
  <2>1. UNCHANGED <<spans, output>>
    BY <1>4 DEF Outgoing, vars
  <2>2. SentTraces'
    BY <2>1 DEF HInv, SentTraces
  <2> QED
    BY <1>0, <1>4, <2>2, OutgoingHeaders DEF HInv
<1>5. ASSUME Kept, SentTraces', UNCHANGED headers, \A q \in Requests : Own(q)' = Own(q)
      PROVE  HInv'
  BY <1>0, <1>5, HeadersKept DEF HInv
<1>6. requests \in [Requests -> RequestFields] /\ \A q \in Requests : requests[q] \in RequestFields
  BY DEF HInv, TInv, RequestsShape
<1>7. UNCHANGED requests => \A q \in Requests : Own(q)' = Own(q)
  BY DEF Own
<1>8. ASSUME NEW t \in Threads, NEW r \in Requests, PollBegin(t, r) \/ DropFuture(t, r)
      PROVE  HInv'
  <2>1. Act(t)
    BY <1>8, TowerActs DEF HInv
  <2>2. PICK at : requests' = [requests EXCEPT ![r].at = at]
    BY <1>8 DEF PollBegin, DropFuture
  <2>3. UNCHANGED headers
    BY <1>8 DEF PollBegin, DropFuture
  <2> QED
    <3>1. \A q \in Requests : Own(q)' = Own(q)
      BY <1>6, <2>2 DEF RequestFields, Own
    <3> QED
      BY <1>2, <1>5, <2>1, <2>3, <3>1
<1>9. ASSUME NEW t \in Threads, PollPending(t) \/ PollReturn(t) \/ PollPanic(t)
      PROVE  HInv'
  <2>1. Act(t) /\ Polled(t) \in Requests
    BY <1>9, TowerActs, PolledRequest DEF HInv, PollPending, PollReturn, PollPanic, Handled
  <2>2. PICK at : requests' = [requests EXCEPT ![Polled(t)].at = at]
    BY <1>9 DEF PollPending, PollReturn, PollPanic, Leave
  <2>3. UNCHANGED headers
    BY <1>9 DEF PollPending, PollReturn, PollPanic, Leave
  <2> QED
    <3>1. \A q \in Requests : Own(q)' = Own(q)
      BY <1>6, <2>2 DEF RequestFields, Own
    <3> QED
      BY <1>2, <1>5, <2>1, <2>3, <3>1
<1>10. ASSUME NEW t \in Threads, NEW result, PollReady(t, result)
       PROVE  HInv'
  <2>1. requests' = [requests EXCEPT ![Polled(t)].result = result]
    BY <1>10 DEF PollReady
  <2>2. UNCHANGED <<spans, output, headers>>
    BY <1>10 DEF PollReady, vars
  <2>3. Kept /\ SentTraces'
    BY <2>2 DEF Kept, HInv, SentTraces
  <2>4. \A q \in Requests : Own(q)' = Own(q)
    BY <1>6, <2>1 DEF RequestFields, Own
  <2> QED
    BY <1>5, <2>2, <2>3, <2>4
<1>11. ASSUME NEW t \in Threads,
              \/ RecordResult(t) \/ EmitMetric(t)
              \/ (\E s \in DOMAIN spans : AppSpan(t, s)) \/ AppNewSpan(t) \/ LayerStep(t)
       PROVE  HInv'
  <2>1. Act(t)
    BY <1>11, TowerActs DEF HInv
  <2>2. UNCHANGED <<requests, headers>>
    BY <1>11 DEF RecordResult, EmitMetric, AppSpan, AppNewSpan, LayerStep, towerVars
  <2> QED
    BY <1>2, <1>5, <1>7, <2>1, <2>2
<1> QED
  BY <1>1, <1>3, <1>4, <1>8, <1>9, <1>10, <1>11 DEF TowerNext

\* src/tower/propagation.rs:40: a traceparent that a handler sends names no other
\* request's span, whatever spans and requests it is called in, and every traceparent
\* has the trace id that the span it names is exported with.
THEOREM HeadersOwn == TowerSpec => []HeadersNameSpans
<1>1. TowerInit => HInv
  <2> SUFFICES ASSUME TowerInit PROVE HInv
    OBVIOUS
  <2>1. headers = <<>> /\ output = <<>>
    BY DEF TowerInit, Init
  <2> QED
    BY <2>1, TowerStart DEF HInv, HeadersTrue, SentTraces
<1>2. HInv /\ [TowerNext]_<<vars, towerVars>> => HInv'
  BY LayerAssumption, TowerAssumption, HeadersStep
<1>3. ASSUME HInv PROVE HeadersNameSpans
  <2>1. ASSUME NEW h \in DOMAIN headers, NEW e, e = headers[h]
        PROVE  /\ e.place = "handler" /\ e.span \in RequestSpans => e.span = Own(e.request)
               /\ \A j \in DOMAIN output :
                    output[j].signal = "traces" /\ output[j].span = e.span => output[j].trace = e.trace
    BY <1>3, <2>1 DEF HInv, HeadersTrue, Names, SentTraces
  <2> QED
    BY <2>1 DEF HeadersNameSpans
<1> QED
  BY <1>1, <1>2, <1>3, PTL DEF TowerSpec

-----------------------------------------------------------------------------
(***************************************************************************)
(* Counting: what a poll still has to do of its result is what the request *)
(* was not counted for yet.                                                *)
(***************************************************************************)
Logged == {"duration", "count", "error"}
Entry == [kind : Logged, status : Results, span : Nat]

\* What follows from a result, and what of it the poll of the request has not done.
Expected(result) == IF result = NoResult THEN {} ELSE Range(Outcome(result))
Left(r) == {k \in Todo : \E t \in Threads : Polled(t) = r /\ k \in Range(work[t].todo)}
Done(r) == Expected(requests[r].result) \ Left(r)
One(r, k) == IF k \in Done(r) THEN 1 ELSE 0

\* A thread that has something to do is in the span of the request it polls, and
\* has nothing to do twice.
WorkOwn ==
  \A t \in Threads : work[t].todo # <<>> =>
    /\ Busy(t) /\ requests[Polled(t)].at = "polled" /\ requests[Polled(t)].result # NoResult
    /\ Current(t) = Own(Polled(t))
    /\ \A i, j \in DOMAIN work[t].todo : work[t].todo[i] = work[t].todo[j] => i = j

\* Without a span there is no result, and without a result no event.
Blank ==
  \A r \in Requests :
    /\ Own(r) = NoSpan => requests[r].result = NoResult
    /\ requests[r].result = NoResult => log[r] = <<>>

LogTrue ==
  /\ log \in [Requests -> Seq(Entry)]
  /\ \A r \in Requests : \A e \in DOMAIN log[r] :
       log[r][e].status = requests[r].result /\ log[r][e].span = Own(r)

Tally ==
  \A r \in Requests :
    /\ Left(r) \subseteq Expected(requests[r].result)
    /\ \A k \in Logged : Counted(r, k) = One(r, k)
    /\ Own(r) # NoSpan => spans[Own(r)].fields = One(r, "status") + One(r, "latency")

CInv == TInv /\ WorkOwn /\ Blank /\ LogTrue /\ Tally

\* What follows from a result.
LEMMA OutcomeIs ==
  ASSUME NEW result
  PROVE  /\ Outcome(result) \in Seq(Todo)
         /\ \A i, j \in DOMAIN Outcome(result) : Outcome(result)[i] = Outcome(result)[j] => i = j
         /\ Range(Outcome(result)) =
              IF result = Failed THEN {"latency"}
              ELSE {"status", "latency", "duration", "count"}
                     \cup (IF result >= 400 THEN {"error"} ELSE {})
<1>1. CASE result = Failed
  <2>1. PICK q : q = <<"latency">>
    OBVIOUS
  <2>2. q \in Seq(Todo) /\ DOMAIN q = {1} /\ q[1] = "latency"
    BY <2>1 DEF Todo
  <2>3. Outcome(result) = q
    BY <1>1, <2>1 DEF Outcome
  <2> QED
    BY <1>1, <2>2, <2>3 DEF Range
<1>2. CASE result # Failed /\ result >= 400
  <2>1. PICK a, b : a = <<"status", "latency", "duration", "count">> /\ b = <<"error">>
    OBVIOUS
  <2>2. /\ a \in Seq(Todo) /\ Len(a) = 4 /\ b \in Seq(Todo) /\ Len(b) = 1 /\ b[1] = "error"
        /\ a[1] = "status" /\ a[2] = "latency" /\ a[3] = "duration" /\ a[4] = "count"
    BY <2>1 DEF Todo
  <2>3. PICK q : q = Outcome(result)
    OBVIOUS
  <2>4. q = a \o b
    BY <1>2, <2>1, <2>3 DEF Outcome
  <2>5. /\ q \in Seq(Todo) /\ Len(q) = 5
        /\ \A i \in 1..5 : q[i] = IF i <= 4 THEN a[i] ELSE b[i - 4]
    <3>1. a \in Seq(Todo) /\ b \in Seq(Todo)
      BY <2>2
    <3>2. Len(a) = 4 /\ Len(b) = 1
      BY <2>2
    <3>3. /\ a \o b \in Seq(Todo) /\ Len(a \o b) = Len(a) + Len(b)
          /\ \A i \in 1..(Len(a) + Len(b)) : (a \o b)[i] = IF i <= Len(a) THEN a[i] ELSE b[i - Len(a)]
      BY <3>1, ConcatProperties, Zenon
    <3> QED
      BY <2>4, <3>2, <3>3
  <2>6. /\ DOMAIN q = 1..5
        /\ q[1] = "status" /\ q[2] = "latency" /\ q[3] = "duration" /\ q[4] = "count" /\ q[5] = "error"
    <3>1. DOMAIN q = 1..5
      BY <2>5, LenProperties
    <3>2. q[1] = a[1] /\ q[2] = a[2] /\ q[3] = a[3] /\ q[4] = a[4] /\ q[5] = b[1]
      BY <2>5
    <3> QED
      BY <2>2, <3>1, <3>2
  <2>7. Range(q) = {"status", "latency", "duration", "count", "error"}
    BY <2>6 DEF Range
  <2>8. \A i, j \in DOMAIN q : q[i] = q[j] => i = j
    <3>1. \A i \in DOMAIN q : i = 1 \/ i = 2 \/ i = 3 \/ i = 4 \/ i = 5
      BY <2>6
    <3> QED
      BY <2>6, <3>1
  <2> QED
    BY <1>2, <2>3, <2>5, <2>7, <2>8
<1>3. CASE result # Failed /\ ~(result >= 400)
  <2>1. PICK q : q = <<"status", "latency", "duration", "count">>
    OBVIOUS
  <2>2. /\ q \in Seq(Todo) /\ DOMAIN q = 1..4
        /\ q[1] = "status" /\ q[2] = "latency" /\ q[3] = "duration" /\ q[4] = "count"
    BY <2>1 DEF Todo
  <2>3. Outcome(result) = q
    <3>1. Outcome(result) = <<"status", "latency", "duration", "count">> \o <<>>
      BY <1>3 DEF Outcome
    <3> QED
      BY <2>1, <3>1
  <2> QED
    BY <1>3, <2>2, <2>3 DEF Range
<1> QED
  BY <1>1, <1>2, <1>3

\* How many entries of a log are of one kind.
Hits(p, kind) == Cardinality({i \in DOMAIN p : p[i].kind = kind})

\* One more event is counted once more, under its kind.
LEMMA CountedAppend ==
  ASSUME NEW q \in Seq(Entry), NEW e \in Entry, NEW kind
  PROVE  Hits(Append(q, e), kind) = Hits(q, kind) + IF e.kind = kind THEN 1 ELSE 0
<1> DEFINE hits(p) == {i \in DOMAIN p : p[i].kind = kind}
<1>1. /\ DOMAIN q = 1..Len(q) /\ Len(q) \in Nat /\ DOMAIN Append(q, e) = 1..(Len(q) + 1)
      /\ Append(q, e)[Len(q) + 1] = e /\ \A i \in DOMAIN q : Append(q, e)[i] = q[i]
  OBVIOUS
<1>2. hits(Append(q, e)) = IF e.kind = kind THEN hits(q) \cup {Len(q) + 1} ELSE hits(q)
  BY <1>1
<1>3. Len(q) + 1 \notin hits(q)
  BY <1>1
<1>4. IsFiniteSet(hits(q)) /\ Cardinality(hits(q)) \in Nat
  <2>1. IsFiniteSet(1..Len(q))
    BY <1>1, FS_Interval
  <2>2. hits(q) \in SUBSET (1..Len(q))
    BY <1>1
  <2> HIDE DEF hits
  <2>3. IsFiniteSet(hits(q))
    BY <2>1, <2>2, FS_Subset
  <2> QED
    BY <2>3, FS_CardinalityType
<1>5. Cardinality(hits(Append(q, e))) = Cardinality(hits(q)) + IF e.kind = kind THEN 1 ELSE 0
  <2> HIDE DEF hits
  <2>1. CASE e.kind = kind
    <3>1. Cardinality(hits(q) \cup {Len(q) + 1}) = Cardinality(hits(q)) + 1
      BY <1>3, <1>4, FS_AddElement
    <3> QED
      BY <1>2, <2>1, <3>1
  <2>2. CASE e.kind # kind
    BY <1>2, <1>4, <2>2
  <2> QED
    BY <2>1, <2>2
<1> QED
  BY <1>5 DEF Hits

\* What comes next is done with, and the rest stays.
LEMMA TailOnce ==
  ASSUME NEW S, NEW q \in Seq(S), q # <<>>, \A i, j \in DOMAIN q : q[i] = q[j] => i = j
  PROVE  /\ Tail(q) \in Seq(S) /\ Head(q) \in S /\ Head(q) \in Range(q)
         /\ Range(Tail(q)) = Range(q) \ {Head(q)}
         /\ \A i, j \in DOMAIN Tail(q) : Tail(q)[i] = Tail(q)[j] => i = j
<1>1. DOMAIN q = 1..Len(q) /\ Len(q) \in Nat \ {0} /\ Head(q) = q[1] /\ q[1] \in S
  OBVIOUS
<1>2. /\ Tail(q) \in Seq(S) /\ DOMAIN Tail(q) = 1..(Len(q) - 1)
      /\ \A i \in 1..(Len(q) - 1) : Tail(q)[i] = q[i + 1]
  OBVIOUS
<1>3. Head(q) \in Range(q)
  BY <1>1 DEF Range
<1>4. \A i \in DOMAIN Tail(q) : i + 1 \in DOMAIN q /\ i + 1 # 1 /\ Tail(q)[i] = q[i + 1]
  BY <1>1, <1>2
<1>5. \A i \in DOMAIN q : i # 1 => i - 1 \in DOMAIN Tail(q) /\ Tail(q)[i - 1] = q[i]
  BY <1>1, <1>2
<1>6. Range(Tail(q)) = Range(q) \ {Head(q)}
  <2>1. 1 \in DOMAIN q /\ \A i \in DOMAIN q : q[i] = q[1] <=> i = 1
    BY <1>1
  <2>2. \A x : x \in Range(Tail(q)) <=> \E i \in DOMAIN q : i # 1 /\ x = q[i]
    BY <1>4, <1>5 DEF Range
  <2>3. \A x : x \in Range(q) \ {Head(q)} <=> \E i \in DOMAIN q : i # 1 /\ x = q[i]
    BY <1>1, <2>1 DEF Range
  <2> QED
    BY <2>2, <2>3
<1>7. \A i, j \in DOMAIN Tail(q) : Tail(q)[i] = Tail(q)[j] => i = j
  <2> SUFFICES ASSUME NEW i \in DOMAIN Tail(q), NEW j \in DOMAIN Tail(q), Tail(q)[i] = Tail(q)[j]
               PROVE  i = j
    OBVIOUS
  <2>1. i + 1 = j + 1
    BY <1>4
  <2> QED
    BY <1>2, <2>1
<1> QED
  BY <1>1, <1>2, <1>3, <1>6, <1>7

\* Only Record fills a span.
LEMMA FieldsKept ==
  ASSUME LInv, NEW t \in Threads,
         \/ \E parent, given : NewSpan(t, parent, given)
         \/ \E s : Enter(t, s) \/ Exit(t, s) \/ DropHandle(t, s)
         \/ Event(t) \/ Close(t) \/ Clear(t)
  PROVE  \A x \in DOMAIN spans : spans'[x].fields = spans[x].fields
<1>1. /\ spans \in Seq(SpanFields) /\ DOMAIN spans = 1..Len(spans) /\ Len(spans) \in Nat
      /\ \A x \in DOMAIN spans : spans[x] \in SpanFields
  BY DEF LInv, Shape
<1>2. CASE \E parent, given : NewSpan(t, parent, given)
  <2>1. PICK f : spans' = Append(spans, f)
    BY <1>2 DEF NewSpan
  <2> QED
    BY <1>1, <2>1
<1>3. CASE Event(t) \/ \E s : Enter(t, s) \/ Exit(t, s)
  BY <1>3 DEF Enter, Exit, Event
<1>4. CASE \E s : DropHandle(t, s)
  <2>1. PICK s, slot : spans' = [spans EXCEPT ![s].held = FALSE, ![s].slot = slot]
    <3>1. PICK s : DropHandle(t, s)
      BY <1>4
    <3>2. spans' = [spans EXCEPT ![s].held = FALSE,
                                 ![s].slot = IF Children(s) = {} THEN "closing" ELSE @]
      BY ONLY <3>1 DEF DropHandle
    <3>3. PICK slot : slot = IF Children(s) = {} THEN "closing" ELSE spans[s].slot
      OBVIOUS
    <3>4. spans' = [spans EXCEPT ![s].held = FALSE, ![s].slot = slot]
      BY ONLY <3>2, <3>3
    <3> QED
      BY ONLY <3>4
  <2>2. ASSUME NEW x \in DOMAIN spans
        PROVE  spans'[x].fields = spans[x].fields
    <3>1. PICK f \in SpanFields : f = spans[x]
      BY <1>1
    <3>2. spans'[x] = f \/ spans'[x] = [f EXCEPT !.held = FALSE, !.slot = slot]
      BY <2>1, <3>1
    <3>3. spans'[x].fields = f.fields
      BY ONLY <3>2, f \in SpanFields DEF SpanFields
    <3> QED
      BY <3>1, <3>3
  <2> QED
    BY <2>2
<1>5. CASE Close(t)
  <2>1. PICK c : spans' = [spans EXCEPT ![c].slot = "closed"]
    BY <1>5 DEF Close
  <2> QED
    BY <1>1, <2>1 DEF SpanFields
<1>6. CASE Clear(t)
  <2>1. \A x \in DOMAIN spans :
          \/ spans'[x] = [spans[x] EXCEPT !.slot = "cleared"]
          \/ spans'[x] = [spans[x] EXCEPT !.slot = "closing"]
          \/ spans'[x] = spans[x]
    BY <1>6 DEF Clear
  <2> QED
    BY <1>1, <2>1 DEF SpanFields
<1> QED
  BY <1>2, <1>3, <1>4, <1>5, <1>6

\* A step that records nothing, logs nothing and leaves alone what other polls
\* have to do keeps the tally.
LEMMA NothingDone ==
  ASSUME CInv, TInv', UNCHANGED log,
         \A t \in Threads : work'[t].todo = work[t].todo,
         \A t \in Threads : work[t].todo # <<>> =>
           /\ Polled(t)' = Polled(t) /\ Current(t)' = Current(t)
           /\ requests'[Polled(t)] = requests[Polled(t)],
         \A q \in Requests :
           /\ requests'[q].result = requests[q].result
           /\ Own(q)' = Own(q) \/ (Own(q) = NoSpan /\ spans'[Own(q)'].fields = 0),
         \A x \in DOMAIN spans : spans'[x].fields = spans[x].fields
  PROVE  CInv'
<1>1. WorkOwn'
  <2> SUFFICES ASSUME NEW t \in Threads, work[t].todo # <<>>
               PROVE  /\ Busy(t)' /\ requests'[Polled(t)'].at = "polled"
                      /\ requests'[Polled(t)'].result # NoResult
                      /\ Current(t)' = Own(Polled(t))'
                      /\ \A i, j \in DOMAIN work'[t].todo : work'[t].todo[i] = work'[t].todo[j] => i = j
    BY DEF WorkOwn
  <2>1. /\ Busy(t) /\ requests[Polled(t)].at = "polled" /\ requests[Polled(t)].result # NoResult
        /\ Current(t) = Own(Polled(t))
        /\ \A i, j \in DOMAIN work[t].todo : work[t].todo[i] = work[t].todo[j] => i = j
    BY DEF CInv, WorkOwn
  <2>2. Own(Polled(t))' = Own(Polled(t)) /\ Busy(t)'
    BY <2>1 DEF Own, Busy
  <2> QED
    BY <2>1, <2>2
<1>2. Blank'
  BY DEF CInv, Blank
<1>3. \A q \in Requests : Own(q)' # Own(q) => requests[q].result = NoResult /\ log[q] = <<>>
  BY DEF CInv, Blank
<1>4. LogTrue'
  BY <1>3 DEF CInv, LogTrue
<1>5. ASSUME NEW q \in Requests PROVE Left(q)' = Left(q)
  <2>1. ASSUME NEW t \in Threads, NEW k
        PROVE  Polled(t)' = q /\ k \in Range(work'[t].todo) <=> Polled(t) = q /\ k \in Range(work[t].todo)
    <3>1. k \in Range(work[t].todo) => work[t].todo # <<>>
      BY DEF Range
    <3> QED
      BY <3>1
  <2> QED
    BY <2>1 DEF Left
<1>6. \A q \in Requests : \A k : One(q, k)' = One(q, k)
  BY <1>5 DEF One, Done
<1>7. ASSUME NEW q \in Requests, Own(q)' # NoSpan
      PROVE  spans'[Own(q)'].fields = One(q, "status")' + One(q, "latency")'
  <2>1. CASE Own(q)' = Own(q)
    <3>1. Own(q) \in DOMAIN spans
      BY <1>7, <2>1 DEF CInv, TInv, RequestsShape, RequestFields, Own
    <3>2. spans'[Own(q)].fields = One(q, "status") + One(q, "latency")
      BY <1>7, <2>1, <3>1 DEF CInv, Tally
    <3> QED
      BY <1>6, <2>1, <3>2
  <2>2. CASE Own(q)' # Own(q)
    <3>1. requests[q].result = NoResult /\ spans'[Own(q)'].fields = 0
      BY <1>3, <2>2
    <3>2. \A k : One(q, k) = 0
      BY <3>1 DEF One, Done, Expected
    <3> QED
      BY <1>6, <3>1, <3>2
  <2> QED
    BY <2>1, <2>2
<1>8. Tally'
  <2>1. ASSUME NEW q \in Requests
        PROVE  /\ Left(q)' \subseteq Expected(requests'[q].result)
               /\ \A k \in Logged : Counted(q, k)' = One(q, k)'
    <3>1. \A k : Counted(q, k)' = Counted(q, k)
      BY DEF Counted
    <3> QED
      BY <1>5, <1>6, <3>1 DEF CInv, Tally
  <2> QED
    BY <1>7, <2>1 DEF Tally
<1> QED
  BY <1>1, <1>2, <1>4, <1>8 DEF CInv

\* A poll does what is next of what it has to do: it is done once, for its request.
LEMMA TaskDone ==
  ASSUME CInv, NEW t \in Threads, work[t].todo # <<>>, NEW r, r = Polled(t),
         NEW k0, k0 = Head(work[t].todo),
         work'[t].todo = Tail(work[t].todo), Polled(t)' = Polled(t),
         \A u \in Threads \ {t} : work'[u] = work[u], UNCHANGED <<requests, stack>>
  PROVE  /\ WorkOwn' /\ r \in Requests /\ Own(r) # NoSpan /\ Own(r) = Current(t)
         /\ k0 \in Todo /\ One(r, k0) = 0 /\ One(r, k0)' = 1
         /\ \A k \in Todo \ {k0} : One(r, k)' = One(r, k)
         /\ \A q \in Requests \ {r} : \A k : One(q, k)' = One(q, k)
         /\ \A q \in Requests : Left(q)' \subseteq Expected(requests[q].result)
<1>1. /\ Busy(t) /\ requests[r].at = "polled" /\ requests[r].result # NoResult
      /\ Current(t) = Own(r)
      /\ \A i, j \in DOMAIN work[t].todo : work[t].todo[i] = work[t].todo[j] => i = j
  BY DEF CInv, WorkOwn
<1>2. r \in Requests /\ Own(r) # NoSpan
  <2>1. r \in Requests /\ InPoll(r)
    BY <1>1, PolledRequest DEF CInv
  <2> QED
    BY <1>1, <2>1 DEF CInv, TInv, RequestsShape
<1>3. work \in [Threads -> ThreadWork] /\ work[t].todo \in Seq(Todo)
  BY DEF CInv, TInv, PollsExclusive, ThreadWork
<1>4. /\ Tail(work[t].todo) \in Seq(Todo) /\ k0 \in Todo /\ k0 \in Range(work[t].todo)
      /\ Range(Tail(work[t].todo)) = Range(work[t].todo) \ {k0}
      /\ \A i, j \in DOMAIN Tail(work[t].todo) :
           Tail(work[t].todo)[i] = Tail(work[t].todo)[j] => i = j
  <2> HIDE DEF Todo
  <2> QED
    BY <1>1, <1>3, TailOnce
<1>5. /\ work'[t].todo = Tail(work[t].todo) /\ Polled(t)' = r
      /\ \A u \in Threads \ {t} : work'[u] = work[u] /\ Polled(u)' = Polled(u)
  BY DEF Polled
<1>6. \A u \in Threads : Current(u)' = Current(u)
  BY DEF Current
<1>7. \A q \in Requests : Own(q)' = Own(q)
  BY DEF Own
<1>8. WorkOwn'
  <2>1. ASSUME NEW u \in Threads, work'[u].todo # <<>>
        PROVE  /\ Busy(u)' /\ requests'[Polled(u)'].at = "polled"
               /\ requests'[Polled(u)'].result # NoResult
               /\ Current(u)' = Own(Polled(u))'
               /\ \A i, j \in DOMAIN work'[u].todo : work'[u].todo[i] = work'[u].todo[j] => i = j
    <3>1. CASE u = t
      <4>1. Busy(t)' /\ Own(Polled(t))' = Own(r)
        BY <1>1, <1>2, <1>5, <1>7 DEF Busy, Own
      <4>2. \A i, j \in DOMAIN work'[t].todo : work'[t].todo[i] = work'[t].todo[j] => i = j
        BY <1>4, <1>5
      <4> QED
        BY <1>1, <1>5, <1>6, <3>1, <4>1, <4>2
    <3>2. CASE u # t
      <4>1. work'[u] = work[u] /\ Polled(u)' = Polled(u)
        BY <1>5, <3>2
      <4>2. Own(Polled(u))' = Own(Polled(u)) /\ (Busy(u) => Busy(u)')
        BY <4>1 DEF Own, Busy
      <4>3. /\ Busy(u) /\ requests[Polled(u)].at = "polled" /\ requests[Polled(u)].result # NoResult
            /\ Current(u) = Own(Polled(u))
            /\ \A i, j \in DOMAIN work[u].todo : work[u].todo[i] = work[u].todo[j] => i = j
        BY <2>1, <4>1 DEF CInv, WorkOwn
      <4> QED
        BY <1>6, <4>1, <4>2, <4>3
    <3> QED
      BY <3>1, <3>2
  <2> QED
    BY <2>1 DEF WorkOwn
<1>9. \A u \in Threads : Polled(u) = r <=> u = t
  BY <1>1 DEF CInv, TInv, PollsExclusive
<1>10. Left(r) = Range(work[t].todo) \cap Todo /\ Left(r)' = Range(Tail(work[t].todo)) \cap Todo
  BY <1>5, <1>9 DEF Left
<1>11. \A q \in Requests \ {r} : Left(q)' = Left(q)
  BY <1>5, <1>9 DEF Left
<1>12. \A q \in Requests : Left(q) \subseteq Expected(requests[q].result)
  BY DEF CInv, Tally
<1>13. \A q \in Requests \ {r} : \A k : One(q, k)' = One(q, k)
  BY <1>11 DEF One, Done
<1>14. k0 \in Expected(requests[r].result) /\ k0 \in Left(r) /\ Left(r)' = Left(r) \ {k0}
  BY <1>2, <1>4, <1>10, <1>12
<1>15. One(r, k0) = 0 /\ One(r, k0)' = 1 /\ \A k \in Todo \ {k0} : One(r, k)' = One(r, k)
  BY <1>14 DEF One, Done
<1>16. \A q \in Requests : Left(q)' \subseteq Expected(requests[q].result)
  BY <1>11, <1>12, <1>14
<1> QED
  BY <1>1, <1>2, <1>4, <1>8, <1>13, <1>15, <1>16

\* The status or the latency is recorded in the span of the request.
LEMMA RecordCounts ==
  ASSUME CInv, TInv', NEW t \in Threads, RecordResult(t)
  PROVE  CInv'
<1>1. PICK r, k0 : r = Polled(t) /\ k0 = Head(work[t].todo)
  OBVIOUS
<1>2. /\ work[t].todo # <<>> /\ k0 \in {"status", "latency"} /\ Record(t, Own(r))
      /\ work' = [work EXCEPT ![t].todo = Tail(@)] /\ UNCHANGED <<requests, log, stack>>
      /\ spans' = [spans EXCEPT ![Own(r)].fields = @ + 1]
  BY <1>1 DEF RecordResult, Record
<1>3. /\ WorkOwn' /\ r \in Requests /\ Own(r) # NoSpan
      /\ k0 \in Todo /\ One(r, k0) = 0 /\ One(r, k0)' = 1
      /\ \A k \in Todo \ {k0} : One(r, k)' = One(r, k)
      /\ \A q \in Requests \ {r} : \A k : One(q, k)' = One(q, k)
      /\ \A q \in Requests : Left(q)' \subseteq Expected(requests[q].result)
  <2>1. work \in [Threads -> ThreadWork]
    BY DEF CInv, TInv, PollsExclusive
  <2>2. /\ work'[t].todo = Tail(work[t].todo) /\ Polled(t)' = Polled(t)
        /\ \A u \in Threads \ {t} : work'[u] = work[u]
    BY <1>2, <2>1 DEF ThreadWork, Polled
  <2> QED
    BY <1>1, <1>2, <2>2, TaskDone
<1>4. \A q \in Requests : Own(q)' = Own(q) /\ (Own(q) = NoSpan \/ Own(q) \in DOMAIN spans)
  BY <1>2 DEF CInv, TInv, RequestsShape, RequestFields, Own
<1>5. Blank' /\ LogTrue'
  BY <1>2, <1>4 DEF CInv, Blank, LogTrue
<1>6. /\ spans'[Own(r)].fields = spans[Own(r)].fields + 1
      /\ \A x \in DOMAIN spans \ {Own(r)} : spans'[x] = spans[x]
  <2>1. spans \in Seq(SpanFields) /\ Own(r) \in DOMAIN spans /\ spans[Own(r)] \in SpanFields
    BY <1>3, <1>4 DEF CInv, TInv, LInv, Shape
  <2> QED
    BY <1>2, <2>1 DEF SpanFields
<1>7. ASSUME NEW q \in Requests, Own(q) # NoSpan
      PROVE  spans'[Own(q)].fields = One(q, "status")' + One(q, "latency")'
  <2>1. spans[Own(q)].fields = One(q, "status") + One(q, "latency")
    BY <1>7 DEF CInv, Tally
  <2>2. CASE q = r
    <3>1. spans'[Own(r)].fields = One(r, "status") + One(r, "latency") + 1
      BY <1>6, <2>1, <2>2
    <3>2. "status" \in Todo /\ "latency" \in Todo
      BY DEF Todo
    <3>3. CASE k0 = "status"
      <4>1. One(r, "status") = 0 /\ One(r, "status")' = 1 /\ One(r, "latency")' = One(r, "latency")
        BY <1>3, <3>2, <3>3
      <4>2. One(r, "latency") \in {0, 1}
        BY DEF One
      <4> QED
        BY <2>2, <3>1, <4>1, <4>2
    <3>4. CASE k0 = "latency"
      <4>1. One(r, "latency") = 0 /\ One(r, "latency")' = 1 /\ One(r, "status")' = One(r, "status")
        BY <1>3, <3>2, <3>4
      <4>2. One(r, "status") \in {0, 1}
        BY DEF One
      <4> QED
        BY <2>2, <3>1, <4>1, <4>2
    <3> QED
      BY <1>2, <3>3, <3>4
  <2>3. CASE q # r
    <3>1. Own(q) # Own(r)
      BY <1>3, <1>7, <2>3 DEF CInv, TInv, RequestsShape
    <3>2. spans'[Own(q)] = spans[Own(q)]
      BY <1>4, <1>6, <1>7, <3>1
    <3> QED
      BY <1>3, <2>1, <2>3, <3>2
  <2> QED
    BY <2>2, <2>3
<1>8. Tally'
  <2>1. \A k \in Logged : k # k0 /\ k \in Todo
    BY <1>2 DEF Logged, Todo
  <2>2. ASSUME NEW q \in Requests, NEW k \in Logged
        PROVE  Counted(q, k)' = One(q, k)'
    <3>1. Counted(q, k)' = Counted(q, k)
      BY <1>2 DEF Counted
    <3>2. One(q, k)' = One(q, k)
      BY <1>3, <2>1
    <3> QED
      BY <3>1, <3>2 DEF CInv, Tally
  <2> QED
    BY <1>2, <1>3, <1>4, <1>7, <2>2 DEF Tally
<1> QED
  BY <1>3, <1>5, <1>8 DEF CInv

\* An event of a metric is logged in the span of the request.
LEMMA EmitCounts ==
  ASSUME CInv, TInv', NEW t \in Threads, EmitMetric(t)
  PROVE  CInv'
<1>1. PICK r, k0 : r = Polled(t) /\ k0 = Head(work[t].todo)
  OBVIOUS
<1>2. PICK e : e = [kind |-> k0, status |-> requests[r].result, span |-> Current(t)]
  OBVIOUS
<1>3. /\ work[t].todo # <<>> /\ k0 \in Logged
      /\ work' = [work EXCEPT ![t].todo = Tail(@)] /\ UNCHANGED <<requests, spans, stack>>
      /\ log' = [log EXCEPT ![r] = Append(@, e)]
  BY <1>1, <1>2 DEF EmitMetric, Event, Logged
<1>4. /\ WorkOwn' /\ r \in Requests /\ Own(r) # NoSpan /\ Own(r) = Current(t)
      /\ k0 \in Todo /\ One(r, k0) = 0 /\ One(r, k0)' = 1
      /\ \A k \in Todo \ {k0} : One(r, k)' = One(r, k)
      /\ \A q \in Requests \ {r} : \A k : One(q, k)' = One(q, k)
      /\ \A q \in Requests : Left(q)' \subseteq Expected(requests[q].result)
  <2>1. work \in [Threads -> ThreadWork]
    BY DEF CInv, TInv, PollsExclusive
  <2>2. /\ work'[t].todo = Tail(work[t].todo) /\ Polled(t)' = Polled(t)
        /\ \A u \in Threads \ {t} : work'[u] = work[u]
    BY <1>3, <2>1 DEF ThreadWork, Polled
  <2> QED
    BY <1>1, <1>3, <2>2, TaskDone
<1>5. \A q \in Requests : Own(q)' = Own(q)
  BY <1>3 DEF Own
<1>6. e \in Entry /\ e.kind = k0 /\ e.status = requests[r].result /\ e.span = Own(r)
  <2>1. requests[r].result \in Results /\ Own(r) \in Nat
    BY <1>4 DEF CInv, TInv, RequestsShape, RequestFields, LInv, Shape, NoSpan, Own
  <2> QED
    BY <1>2, <1>3, <1>4, <2>1 DEF Entry
<1>7. /\ log \in [Requests -> Seq(Entry)] /\ log[r] \in Seq(Entry)
      /\ log'[r] = Append(log[r], e) /\ \A q \in Requests \ {r} : log'[q] = log[q]
      /\ log' \in [Requests -> Seq(Entry)]
  <2> HIDE DEF Entry
  <2>1. log \in [Requests -> Seq(Entry)]
    BY DEF CInv, LogTrue
  <2>2. log[r] \in Seq(Entry) /\ Append(log[r], e) \in Seq(Entry)
    BY <1>4, <1>6, <2>1
  <2> QED
    BY <1>3, <1>4, <2>1, <2>2
<1>8. LogTrue'
  <2>1. \A q \in Requests : \A i \in DOMAIN log[q] :
          log[q][i].status = requests[q].result /\ log[q][i].span = Own(q)
    BY DEF CInv, LogTrue
  <2>2. ASSUME NEW i \in DOMAIN log'[r]
        PROVE  log'[r][i].status = requests[r].result /\ log'[r][i].span = Own(r)
    <3>1. PICK q \in Seq(Entry) : q = log[r]
      BY <1>7
    <3>2. \/ i \in DOMAIN q /\ Append(q, e)[i] = q[i]
          \/ Append(q, e)[i] = e
      <4>1. i \in DOMAIN Append(q, e)
        BY <1>7, <3>1
      <4>2. \A S, p, x, j : p \in Seq(S) /\ x \in S /\ j \in DOMAIN Append(p, x) =>
              (j \in DOMAIN p /\ Append(p, x)[j] = p[j]) \/ Append(p, x)[j] = x
        OBVIOUS
      <4> QED
        BY <1>6, <4>1, <4>2, Zenon
    <3> QED
      BY <1>4, <1>6, <1>7, <2>1, <3>1, <3>2
  <2>3. ASSUME NEW q \in Requests, NEW i \in DOMAIN log'[q]
        PROVE  log'[q][i].status = requests'[q].result /\ log'[q][i].span = Own(q)'
    BY <1>3, <1>5, <1>7, <2>1, <2>2
  <2> QED
    BY <1>7, <2>3 DEF LogTrue
<1>9. Blank'
  <2>1. requests[r].result # NoResult
    BY <1>1, <1>3 DEF CInv, WorkOwn
  <2> QED
    BY <1>3, <1>5, <1>7, <2>1 DEF CInv, Blank
<1>10. Tally'
  <2>1. ASSUME NEW q \in Requests, NEW k \in Logged
        PROVE  Counted(q, k)' = One(q, k)'
    <3>1. Counted(q, k) = One(q, k)
      BY DEF CInv, Tally
    <3>2. CASE q = r
      <4>1. Counted(r, k) = Hits(log[r], k) /\ Counted(r, k)' = Hits(log'[r], k)
        BY DEF Counted, Hits
      <4>2. Counted(r, k)' = Counted(r, k) + IF k0 = k THEN 1 ELSE 0
        <5>1. Hits(Append(log[r], e), k) = Hits(log[r], k) + IF e.kind = k THEN 1 ELSE 0
          BY <1>6, <1>7, CountedAppend
        <5> QED
          BY <1>6, <1>7, <4>1, <5>1
      <4>3. k \in Todo /\ One(r, k) \in {0, 1}
        BY DEF Logged, Todo, One
      <4> QED
        BY <1>4, <3>1, <3>2, <4>2, <4>3
    <3>3. CASE q # r
      <4>1. Counted(q, k)' = Counted(q, k)
        BY <1>7, <3>3 DEF Counted
      <4> QED
        BY <1>4, <3>1, <3>3, <4>1
    <3> QED
      BY <3>2, <3>3
  <2>2. ASSUME NEW q \in Requests, Own(q) # NoSpan
        PROVE  spans[Own(q)].fields = One(q, "status")' + One(q, "latency")'
    <3>1. One(q, "status")' = One(q, "status") /\ One(q, "latency")' = One(q, "latency")
      <4>1. "status" \in Todo \ {k0} /\ "latency" \in Todo \ {k0}
        BY <1>3 DEF Logged, Todo
      <4> QED
        BY <1>4, <4>1
    <3> QED
      BY <2>2, <3>1 DEF CInv, Tally
  <2> QED
    BY <1>3, <1>4, <1>5, <2>1, <2>2 DEF Tally
<1> QED
  BY <1>4, <1>8, <1>9, <1>10 DEF CInv

\* A result comes with everything that follows from it still to be done.
LEMMA PollReadyCounts ==
  ASSUME TowerAssumption, CInv, TInv', NEW t \in Threads, NEW result \in Statuses \cup {Failed},
         PollReady(t, result)
  PROVE  CInv'
<1>1. PICK r : r = Polled(t)
  OBVIOUS
<1>2. /\ Busy(t) /\ work[t].todo = <<>> /\ Current(t) = Own(r)
      /\ requests[r].at = "polled" /\ requests[r].result = NoResult
      /\ requests' = [requests EXCEPT ![r].result = result]
      /\ work' = [work EXCEPT ![t].todo = Outcome(result)]
      /\ UNCHANGED <<spans, stack, log>>
  BY <1>1 DEF PollReady, Handled, vars
<1>3. r \in Requests
  BY <1>1, <1>2, PolledRequest DEF CInv
<1>4. result # NoResult /\ Expected(result) = Range(Outcome(result))
  BY DEF TowerAssumption, NoResult, Failed, Expected
<1>5. /\ requests'[r].result = result /\ requests'[r].at = "polled"
      /\ \A q \in Requests \ {r} : requests'[q] = requests[q]
      /\ \A q \in Requests : Own(q)' = Own(q)
  BY <1>2, <1>3 DEF CInv, TInv, RequestsShape, RequestFields, Own
<1>6. /\ work'[t].todo = Outcome(result) /\ Polled(t)' = r
      /\ \A u \in Threads \ {t} : work'[u] = work[u] /\ Polled(u)' = Polled(u)
  BY <1>1, <1>2 DEF CInv, TInv, PollsExclusive, ThreadWork, Polled
<1>7. \A u \in Threads : Polled(u) = r <=> u = t
  BY <1>1, <1>2 DEF CInv, TInv, PollsExclusive
<1>8. WorkOwn'
  <2>1. ASSUME NEW u \in Threads, work'[u].todo # <<>>
        PROVE  /\ Busy(u)' /\ requests'[Polled(u)'].at = "polled"
               /\ requests'[Polled(u)'].result # NoResult
               /\ Current(u)' = Own(Polled(u))'
               /\ \A i, j \in DOMAIN work'[u].todo : work'[u].todo[i] = work'[u].todo[j] => i = j
    <3>0. Current(u)' = Current(u)
      BY <1>2 DEF Current
    <3>1. CASE u = t
      <4>1. Busy(t)' /\ Own(Polled(t))' = Own(r)
        BY <1>1, <1>2, <1>3, <1>5, <1>6 DEF Busy, Own
      <4>2. \A i, j \in DOMAIN work'[t].todo : work'[t].todo[i] = work'[t].todo[j] => i = j
        BY <1>6, OutcomeIs
      <4> QED
        BY <1>2, <1>4, <1>5, <1>6, <3>0, <3>1, <4>1, <4>2
    <3>2. CASE u # t
      <4>1. work'[u] = work[u] /\ Polled(u)' = Polled(u) /\ Polled(u) # r
        BY <1>6, <1>7, <3>2
      <4>2. /\ Busy(u) /\ requests[Polled(u)].at = "polled" /\ requests[Polled(u)].result # NoResult
            /\ Current(u) = Own(Polled(u))
            /\ \A i, j \in DOMAIN work[u].todo : work[u].todo[i] = work[u].todo[j] => i = j
        BY <2>1, <4>1 DEF CInv, WorkOwn
      <4>3. Polled(u) \in Requests \ {r}
        BY <4>1, <4>2, PolledRequest DEF CInv
      <4>4. requests'[Polled(u)] = requests[Polled(u)] /\ Own(Polled(u))' = Own(Polled(u)) /\ Busy(u)'
        BY <1>5, <4>1, <4>2, <4>3 DEF Own, Busy
      <4> QED
        BY <3>0, <4>1, <4>2, <4>4
    <3> QED
      BY <3>1, <3>2
  <2> QED
    BY <2>1 DEF WorkOwn
<1>9. log[r] = <<>> /\ Own(r) # NoSpan
  BY <1>2, <1>3 DEF CInv, Blank, TInv, RequestsShape
<1>10. Blank'
  BY <1>2, <1>4, <1>5, <1>9 DEF CInv, Blank
<1>11. LogTrue'
  BY <1>2, <1>5, <1>9 DEF CInv, LogTrue
<1>12. \A q \in Requests \ {r} : Left(q)' = Left(q)
  BY <1>6, <1>7 DEF Left
<1>13. Left(r)' = Expected(result)
  <2>1. Range(Outcome(result)) \subseteq Todo
    <3>1. Outcome(result) \in Seq(Todo)
      BY OutcomeIs
    <3> QED
      BY <3>1 DEF Range
  <2>2. \A u \in Threads : Polled(u)' = r <=> u = t
    BY <1>6, <1>7
  <2>3. Left(r)' = {k \in Todo : k \in Range(work'[t].todo)}
    BY <2>2 DEF Left
  <2> QED
    BY <1>4, <1>6, <2>1, <2>3
<1>14. \A k : One(r, k) = 0 /\ One(r, k)' = 0
  <2>1. Done(r) = {}
    BY <1>2 DEF Done, Expected
  <2>2. Done(r)' = {}
    BY <1>5, <1>13 DEF Done
  <2> QED
    BY <2>1, <2>2 DEF One
<1>15. \A q \in Requests : \A k : One(q, k)' = One(q, k)
  <2>1. \A q \in Requests \ {r} : \A k : One(q, k)' = One(q, k)
    BY <1>5, <1>12 DEF One, Done
  <2> QED
    BY <1>14, <2>1
<1>16. Tally'
  <2>1. \A q \in Requests : Left(q)' \subseteq Expected(requests'[q].result)
    BY <1>5, <1>12, <1>13 DEF CInv, Tally
  <2>2. \A q \in Requests : \A k : Counted(q, k)' = Counted(q, k)
    BY <1>2 DEF Counted
  <2>3. \A q \in Requests : \A k \in Logged : Counted(q, k)' = One(q, k)'
    BY <1>15, <2>2 DEF CInv, Tally
  <2>4. \A q \in Requests : Own(q) # NoSpan => spans[Own(q)].fields = One(q, "status") + One(q, "latency")
    BY DEF CInv, Tally
  <2>5. \A q \in Requests :
          Own(q)' # NoSpan => spans'[Own(q)'].fields = One(q, "status")' + One(q, "latency")'
    BY <1>2, <1>5, <1>15, <2>4
  <2> QED
    BY <2>1, <2>3, <2>5 DEF Tally
<1> QED
  BY <1>8, <1>10, <1>11, <1>16 DEF CInv

\* A call opens the span of the request, empty.
LEMMA CallCounts ==
  ASSUME CInv, TInv', NEW t \in Threads, NEW r \in Requests, Call(t, r)
  PROVE  CInv'
<1>1. PICK given : NewSpan(t, Current(t), given)
  BY DEF Call
<1>2. PICK n : n = Len(spans) + 1
  OBVIOUS
<1>3. spans'[n].fields = 0 /\ \A x \in DOMAIN spans : spans'[x].fields = spans[x].fields
  <2>1. PICK f : spans' = Append(spans, f) /\ f.fields = 0
    BY <1>1 DEF NewSpan
  <2>2. spans \in Seq(SpanFields)
    BY DEF CInv, TInv, LInv, Shape
  <2>3. spans'[n] = f
    BY <1>2, <2>1, <2>2
  <2> QED
    BY <1>1, <2>1, <2>3, FieldsKept DEF CInv, TInv
<1>4. /\ requests[r].at = "new" /\ requests' = [requests EXCEPT ![r].at = "waiting", ![r].span = n]
      /\ UNCHANGED <<work, log, stack>>
  BY <1>1, <1>2 DEF Call, NewSpan
<1>5. /\ requests'[r].result = requests[r].result /\ requests'[r].span = n
      /\ \A q \in Requests \ {r} : requests'[q] = requests[q]
  <2>1. requests \in [Requests -> RequestFields]
    BY DEF CInv, TInv, RequestsShape
  <2>2. PICK f \in RequestFields : f = requests[r]
    BY <2>1
  <2>3. requests'[r] = [f EXCEPT !.at = "waiting", !.span = n]
    BY ONLY <1>4, <2>1, <2>2, r \in Requests
  <2>4. requests'[r].result = f.result /\ requests'[r].span = n
    BY ONLY <2>3, f \in RequestFields DEF RequestFields
  <2>5. \A q \in Requests \ {r} : requests'[q] = requests[q]
    BY ONLY <1>4, <2>1, r \in Requests
  <2> QED
    BY <2>2, <2>4, <2>5
<1>6. Own(r) = NoSpan /\ Own(r)' = n /\ \A q \in Requests \ {r} : Own(q)' = Own(q)
  BY <1>4, <1>5 DEF CInv, TInv, RequestsShape, Own
<1>7. \A u \in Threads : work[u].todo # <<>> =>
        /\ Polled(u)' = Polled(u) /\ Current(u)' = Current(u)
        /\ requests'[Polled(u)] = requests[Polled(u)]
  <2> SUFFICES ASSUME NEW u \in Threads, work[u].todo # <<>>
               PROVE  /\ Polled(u)' = Polled(u) /\ Current(u)' = Current(u)
                      /\ requests'[Polled(u)] = requests[Polled(u)]
    OBVIOUS
  <2>1. Busy(u) /\ requests[Polled(u)].at = "polled"
    BY DEF CInv, WorkOwn
  <2>2. Polled(u) \in Requests \ {r}
    BY <1>4, <2>1, PolledRequest DEF CInv
  <2> QED
    BY <1>4, <1>5, <2>2 DEF Polled, Current
<1> QED
  BY <1>3, <1>4, <1>5, <1>6, <1>7, NothingDone

\* A poll begins or ends, or a future is dropped: the request has the result it had.
LEMMA MoveCounts ==
  ASSUME CInv, TInv', NEW t \in Threads, NEW r \in Requests,
         \A q \in Requests : requests'[q].result = requests[q].result /\ Own(q)' = Own(q),
         \A q \in Requests \ {r} : requests'[q] = requests[q],
         work[t].todo = <<>>, work'[t].todo = <<>>,
         Polled(t) = r \/ requests[r].at # "polled",
         \A u \in Threads \ {t} : work'[u] = work[u] /\ stack'[u] = stack[u], UNCHANGED log,
         \A x \in DOMAIN spans : spans'[x].fields = spans[x].fields
  PROVE  CInv'
<1>1. \A u \in Threads : work[u].todo # <<>> =>
        /\ Polled(u)' = Polled(u) /\ Current(u)' = Current(u)
        /\ requests'[Polled(u)] = requests[Polled(u)]
  <2> SUFFICES ASSUME NEW u \in Threads, work[u].todo # <<>>
               PROVE  /\ Polled(u)' = Polled(u) /\ Current(u)' = Current(u)
                      /\ requests'[Polled(u)] = requests[Polled(u)]
    OBVIOUS
  <2>1. Busy(u) /\ requests[Polled(u)].at = "polled" /\ u # t
    BY DEF CInv, WorkOwn
  <2>2. Polled(u) \in Requests
    BY <2>1, PolledRequest DEF CInv
  <2>3. Polled(u) # r
    BY <2>1 DEF CInv, TInv, PollsExclusive, Busy
  <2> QED
    BY <2>1, <2>2, <2>3 DEF Polled, Current
<1>2. \A u \in Threads : work'[u].todo = work[u].todo
  OBVIOUS
<1> QED
  BY <1>1, <1>2, NothingDone

LEMMA CountStep ==
  ASSUME LayerAssumption, TowerAssumption, CInv, [TowerNext]_<<vars, towerVars>>
  PROVE  CInv'
<1>0. TInv'
  BY TowerStep DEF CInv
<1>1. ASSUME UNCHANGED <<requests, work, log>>, NEW t \in Threads,
             \A u \in Threads : work[u].todo # <<>> => stack'[u] = stack[u],
             \A x \in DOMAIN spans : spans'[x].fields = spans[x].fields
      PROVE  CInv'
  <2>1. \A u \in Threads : work[u].todo # <<>> =>
          /\ Polled(u)' = Polled(u) /\ Current(u)' = Current(u)
          /\ requests'[Polled(u)] = requests[Polled(u)]
    BY <1>1 DEF Polled, Current
  <2>2. \A q \in Requests : requests'[q].result = requests[q].result /\ Own(q)' = Own(q)
    BY <1>1 DEF Own
  <2> QED
    BY <1>0, <1>1, <2>1, <2>2, NothingDone
<1>2. work \in [Threads -> ThreadWork] /\ stack \in [Threads -> Seq(Nat)]
  BY DEF CInv, TInv, PollsExclusive, LInv, Shape
<1>3. CASE UNCHANGED <<vars, towerVars>>
  <2>1. UNCHANGED <<spans, stack, requests, work, log>>
    BY <1>3 DEF vars, towerVars
  <2>2. CASE Threads = {}
    BY <1>0, <2>1, <2>2, NothingDone DEF Own
  <2>3. CASE Threads # {}
    BY <1>1, <2>1, <2>3
  <2> QED
    BY <2>2, <2>3
<1>4. ASSUME NEW t \in Threads, NEW r \in Requests, Call(t, r)
      PROVE  CInv'
  BY <1>0, <1>4, CallCounts
<1>5. ASSUME NEW t \in Threads, NEW r \in Requests, PollBegin(t, r) \/ DropFuture(t, r)
      PROVE  CInv'
  <2>1. /\ requests[r].at # "polled" /\ ~Busy(t) /\ UNCHANGED log
        /\ Enter(t, Own(r)) \/ DropHandle(t, Own(r))
    BY <1>5 DEF PollBegin, DropFuture
  <2>2. PICK at : requests' = [requests EXCEPT ![r].at = at]
    BY <1>5 DEF PollBegin, DropFuture
  <2>3. work[t].todo = <<>>
    BY <2>1 DEF CInv, WorkOwn
  <2>4. work'[t].todo = work[t].todo /\ \A u \in Threads \ {t} : work'[u] = work[u]
    BY <1>2, <1>5 DEF PollBegin, DropFuture, ThreadWork
  <2>5. \A u \in Threads \ {t} : stack'[u] = stack[u]
    BY <1>2, <2>1 DEF Enter, DropHandle
  <2>6. \A x \in DOMAIN spans : spans'[x].fields = spans[x].fields
    BY <2>1, FieldsKept DEF CInv, TInv
  <2>7. /\ \A q \in Requests : requests'[q].result = requests[q].result /\ Own(q)' = Own(q)
        /\ \A q \in Requests \ {r} : requests'[q] = requests[q]
    BY <2>2 DEF CInv, TInv, RequestsShape, RequestFields, Own
  <2> QED
    BY <1>0, <2>1, <2>3, <2>4, <2>5, <2>6, <2>7, MoveCounts
<1>6. ASSUME NEW t \in Threads, NEW result \in Statuses \cup {Failed}, PollReady(t, result)
      PROVE  CInv'
  BY <1>0, <1>6, PollReadyCounts
<1>7. ASSUME NEW t \in Threads, RecordResult(t) \/ EmitMetric(t)
      PROVE  CInv'
  BY <1>0, <1>7, RecordCounts, EmitCounts
<1>8. ASSUME NEW t \in Threads, PollPending(t) \/ PollReturn(t) \/ PollPanic(t)
      PROVE  CInv'
  <2>1. PICK at : Leave(t, at)
    BY <1>8 DEF PollPending, PollReturn, PollPanic
  <2>2. Handled(t) /\ Polled(t) \in Requests
    BY <1>8, PolledRequest DEF PollPending, PollReturn, PollPanic, Handled, CInv
  <2>3. PICK r \in Requests : r = Polled(t)
    BY <2>2
  <2>4. /\ Exit(t, Own(r)) /\ requests' = [requests EXCEPT ![r].at = at] /\ UNCHANGED log
        /\ work' = [work EXCEPT ![t].request = NoRequest] /\ work[t].todo = <<>>
    BY <2>1, <2>2, <2>3 DEF Leave, Handled
  <2>5. work'[t].todo = work[t].todo /\ \A u \in Threads \ {t} : work'[u] = work[u]
    BY <1>2, <2>4 DEF ThreadWork
  <2>6. \A u \in Threads \ {t} : stack'[u] = stack[u]
    BY <1>2, <2>4 DEF Exit
  <2>7. \A x \in DOMAIN spans : spans'[x].fields = spans[x].fields
    BY <2>4 DEF Exit
  <2>8. /\ \A q \in Requests : requests'[q].result = requests[q].result /\ Own(q)' = Own(q)
        /\ \A q \in Requests \ {r} : requests'[q] = requests[q]
    BY <2>4 DEF CInv, TInv, RequestsShape, RequestFields, Own
  <2> QED
    BY <1>0, <2>3, <2>4, <2>5, <2>6, <2>7, <2>8, MoveCounts
<1>9. ASSUME NEW t \in Threads, (\E s \in DOMAIN spans : AppSpan(t, s)) \/ AppNewSpan(t)
      PROVE  CInv'
  <2>1. work[t].todo = <<>> /\ UNCHANGED <<requests, work, log>>
    BY <1>9 DEF AppSpan, AppNewSpan, Works, towerVars
  <2>2. PICK s, given : Enter(t, s) \/ Exit(t, s) \/ DropHandle(t, s) \/ NewSpan(t, Current(t), given)
    BY <1>9 DEF AppSpan, AppNewSpan
  <2>3. \A u \in Threads \ {t} : stack'[u] = stack[u]
    BY <1>2, <2>2 DEF Enter, Exit, DropHandle, NewSpan
  <2>4. \A x \in DOMAIN spans : spans'[x].fields = spans[x].fields
    BY <2>2, FieldsKept DEF CInv, TInv
  <2> QED
    BY <1>1, <2>1, <2>3, <2>4
<1>10. ASSUME NEW t \in Threads, Outgoing(t)
       PROVE  CInv'
  BY <1>1, <1>10 DEF Outgoing, vars
<1>11. ASSUME NEW t \in Threads, LayerStep(t)
       PROVE  CInv'
  <2>1. UNCHANGED <<requests, work, log, stack>> /\ (Close(t) \/ Clear(t))
    BY <1>11 DEF LayerStep, Close, Clear, towerVars
  <2>2. \A x \in DOMAIN spans : spans'[x].fields = spans[x].fields
    BY <2>1, FieldsKept DEF CInv, TInv
  <2> QED
    BY <1>1, <2>1, <2>2
<1> QED
  BY <1>3, <1>4, <1>5, <1>6, <1>7, <1>8, <1>9, <1>10, <1>11 DEF TowerNext

LEMMA CountInit ==
  ASSUME TowerInit PROVE CInv
<1>1. TInv
  BY TowerStart
<1>2. /\ \A t \in Threads : work[t].todo = <<>>
      /\ \A r \in Requests : requests[r].result = NoResult /\ Own(r) = NoSpan /\ log[r] = <<>>
      /\ log \in [Requests -> Seq(Entry)]
  BY DEF TowerInit, Own
<1>3. WorkOwn /\ Blank /\ LogTrue
  BY <1>2 DEF WorkOwn, Blank, LogTrue
<1>4. \A r \in Requests : Left(r) = {} /\ Expected(requests[r].result) = {}
  BY <1>2 DEF Left, Range, Expected
<1>5. \A r \in Requests : \A k : One(r, k) = 0
  BY <1>4 DEF One, Done
<1>6. \A r \in Requests : \A k : Counted(r, k) = 0
  <2> SUFFICES ASSUME NEW r \in Requests, NEW k PROVE Counted(r, k) = 0
    OBVIOUS
  <2>1. {e \in DOMAIN log[r] : log[r][e].kind = k} = {}
    BY <1>2
  <2> QED
    BY <2>1, FS_EmptySet DEF Counted
<1> QED
  BY <1>1, <1>2, <1>3, <1>4, <1>5, <1>6 DEF CInv, Tally

\* A request that was answered is timed and counted once, and as an error if it
\* was one, with its status and in its span, which says the same when it is
\* exported; one that was not answered is not counted (src/tower/request.rs, poll).
THEOREM CountedOnce == TowerSpec => []RequestsCounted
<1>1. TowerInit => CInv
  BY CountInit
<1>2. CInv /\ [TowerNext]_<<vars, towerVars>> => CInv'
  BY LayerAssumption, TowerAssumption, CountStep
<1>3. ASSUME CInv PROVE RequestsCounted
  <2> SUFFICES ASSUME NEW r \in Requests
               PROVE  LET result == requests[r].result
                          recorded == \A t \in Threads : Polled(t) = r => work[t].todo = <<>>
                          answered == result \notin {NoResult, Failed}
                      IN  /\ recorded => \A kind \in {"duration", "count", "error"} :
                               Counted(r, kind) = IF answered /\ (kind = "error" => result >= 400) THEN 1 ELSE 0
                          /\ \A e \in DOMAIN log[r] : log[r][e].status = result /\ log[r][e].span = Own(r)
                          /\ \A j \in DOMAIN output :
                               output[j].signal = "traces" /\ output[j].span = Own(r) =>
                                 output[j].fields = CASE answered -> 2 [] result = Failed -> 1 [] OTHER -> 0
    BY DEF RequestsCounted
  <2> DEFINE result == requests[r].result
             answered == result \notin {NoResult, Failed}
  <2>1. result \in Results
    BY <1>3 DEF CInv, TInv, RequestsShape, RequestFields
  <2>2. ASSUME Left(r) = {}
        PROVE  /\ \A k \in {"duration", "count", "error"} :
                    One(r, k) = IF answered /\ (k = "error" => result >= 400) THEN 1 ELSE 0
               /\ One(r, "status") + One(r, "latency") =
                    CASE answered -> 2 [] result = Failed -> 1 [] OTHER -> 0
    <3>1. Done(r) = Expected(result)
      BY <2>2 DEF Done
    <3>2. CASE result = NoResult
      <4>1. Done(r) = {}
        BY <3>1, <3>2 DEF Expected
      <4> QED
        BY <3>2, <4>1 DEF One, NoResult, Failed
    <3>3. CASE result = Failed
      <4>1. Done(r) = {"latency"}
        BY <3>1, <3>3, OutcomeIs DEF Expected, NoResult, Failed
      <4> QED
        BY <3>3, <4>1 DEF One, NoResult, Failed
    <3>4. CASE answered
      <4>1. Done(r) = {"status", "latency", "duration", "count"} \cup (IF result >= 400 THEN {"error"} ELSE {})
        BY <3>1, <3>4, OutcomeIs DEF Expected
      <4> QED
        BY <3>4, <4>1 DEF One
    <3> QED
      BY <3>2, <3>3, <3>4
  <2>3. ASSUME \A t \in Threads : Polled(t) = r => work[t].todo = <<>>
        PROVE  \A kind \in {"duration", "count", "error"} :
                 Counted(r, kind) = IF answered /\ (kind = "error" => result >= 400) THEN 1 ELSE 0
    <3>1. Left(r) = {}
      BY <2>3 DEF Left, Range
    <3>2. \A k \in Logged : Counted(r, k) = One(r, k)
      BY <1>3 DEF CInv, Tally
    <3> QED
      BY <2>2, <3>1, <3>2 DEF Logged
  <2>4. ASSUME NEW j \in DOMAIN output, output[j].signal = "traces", output[j].span = Own(r)
        PROVE  output[j].fields = CASE answered -> 2 [] result = Failed -> 1 [] OTHER -> 0
    <3>1. /\ Own(r) \in DOMAIN spans /\ output[j].fields = spans[Own(r)].fields
          /\ spans[Own(r)].slot \in {"closed", "cleared"}
      BY <1>3, <2>4 DEF CInv, TInv, LInv, SentClosed
    <3>2. ~spans[Own(r)].held /\ Own(r) # NoSpan
      BY <1>3, <3>1, HeldOpen DEF CInv, TInv, NoSpan, LInv, Shape
    <3>3. \A t \in Threads : Polled(t) = r => work[t].todo = <<>>
      <4> SUFFICES ASSUME NEW t \in Threads, Polled(t) = r, work[t].todo # <<>> PROVE FALSE
        OBVIOUS
      <4>1. Current(t) = Own(r)
        BY <1>3 DEF CInv, WorkOwn
      <4> QED
        BY <1>3, <3>2, <4>1, CurrentHeld DEF CInv, TInv
    <3>4. Left(r) = {}
      BY <3>3 DEF Left, Range
    <3>5. spans[Own(r)].fields = One(r, "status") + One(r, "latency")
      BY <1>3, <3>2 DEF CInv, Tally
    <3> QED
      BY <2>2, <3>1, <3>4, <3>5
  <2>5. \A e \in DOMAIN log[r] : log[r][e].status = result /\ log[r][e].span = Own(r)
    BY <1>3 DEF CInv, LogTrue
  <2> QED
    BY <2>3, <2>4, <2>5
<1> QED
  BY <1>1, <1>2, <1>3, PTL DEF TowerSpec

=============================================================================
