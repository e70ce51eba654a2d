--------------------------- MODULE OtlpLayerProofs ---------------------------
(***************************************************************************)
(* Theorems about OtlpLayer, for any threads, spans, fields and settings:  *)
(* what the layer sends of a span is complete, and is the last of it, and  *)
(* a tree of spans is sent whole or not at all.                            *)
(***************************************************************************)
EXTENDS OtlpLayer, Induction, TLAPS

-----------------------------------------------------------------------------
(***************************************************************************)
(* The inductive invariant.                                                *)
(***************************************************************************)
TraceIds == Traces \cup {NoTrace}
Slots == {"open", "closing", "closed", "cleared"}
SpanFields ==
  [parent : Nat, trace : TraceIds, sampled : BOOLEAN, fields : 0..MaxFields, given : TraceIds,
   held : BOOLEAN, slot : Slots]
Sent == [signal : {"traces", "logs"}, span : Nat, parent : Nat, trace : TraceIds, fields : Nat]

Shape ==
  /\ config \in Configs
  /\ spans \in Seq(SpanFields) /\ output \in Seq(Sent)
  /\ stack \in [Threads -> Seq(Nat)] /\ closing \in [Threads -> {NoSpan} \cup DOMAIN spans]
  /\ \A s \in DOMAIN spans : spans[s].parent \in 0..(s - 1)

\* A slot is open exactly while something refers to it, and closes on one thread.
SlotsCounted ==
  /\ \A s \in DOMAIN spans : spans[s].slot = "open" <=> ~Unreferenced(s)
  /\ \A s \in DOMAIN spans :
       spans[s].slot \in {"closing", "closed"} <=> \E t \in Threads : closing[t] = s
  /\ \A t, u \in Threads : closing[t] = closing[u] => closing[t] = NoSpan \/ t = u

\* Who is in a span borrows a handle of it.
EnteredHeld ==
  \A t \in Threads : \A i \in DOMAIN stack[t] : stack[t][i] \in DOMAIN spans /\ spans[stack[t][i]].held

\* What was sent of a span is what it closed with; a log has no parent.
SentClosed ==
  \A j \in DOMAIN output :
    /\ output[j].signal = "traces" =>
         /\ output[j].span \in DOMAIN spans
         /\ spans[output[j].span].slot \in {"closed", "cleared"}
         /\ output[j].fields = spans[output[j].span].fields
         /\ output[j].parent = spans[output[j].span].parent
    /\ output[j].signal = "logs" =>
         output[j].parent = NoSpan /\ output[j].span \in {NoSpan} \cup DOMAIN spans

LInv == Shape /\ SlotsCounted /\ EnteredHeld /\ SentClosed /\ SpanIsLast

-----------------------------------------------------------------------------
(***************************************************************************)
(* Sequences.                                                              *)
(***************************************************************************)
\* A sequence whose elements are replaced one for one is a sequence.
LEMMA Replaced ==
  ASSUME NEW S, NEW q \in Seq(S), NEW r, DOMAIN r = DOMAIN q, r = [i \in DOMAIN r |-> r[i]],
         \A i \in DOMAIN q : r[i] \in S
  PROVE  r \in Seq(S) /\ Len(r) = Len(q)
<1>1. DOMAIN q = 1..Len(q) /\ Len(q) \in Nat
  OBVIOUS
<1>2. r \in [1..Len(q) -> S]
  BY <1>1
<1> QED
  BY <1>1, <1>2

\* What is left when an element is removed was there before.
LEMMA Removed ==
  ASSUME NEW S, NEW q \in Seq(S), NEW i \in DOMAIN q
  PROVE  /\ RemoveAt(q, i) \in Seq(S)
         /\ \A j \in DOMAIN RemoveAt(q, i) : \E k \in DOMAIN q : RemoveAt(q, i)[j] = q[k]
<1> DEFINE a == SubSeq(q, 1, i - 1)
           b == SubSeq(q, i + 1, Len(q))
<1>1. a \in Seq(S) /\ \A k \in DOMAIN a : k \in DOMAIN q /\ a[k] = q[k]
  OBVIOUS
<1>2. b \in Seq(S) /\ \A k \in DOMAIN b : i + k \in DOMAIN q /\ b[k] = q[i + k]
  <2>1. /\ b \in Seq(S) /\ Len(b) = Len(q) - i
        /\ \A k \in 1..(Len(q) - i) : b[k] = q[i + k]
    OBVIOUS
  <2>2. DOMAIN b = 1..(Len(q) - i)
    BY <2>1
  <2>3. \A k \in 1..(Len(q) - i) : i + k \in DOMAIN q
    OBVIOUS
  <2> HIDE DEF b
  <2> QED
    BY <2>1, <2>2, <2>3
<1>3. RemoveAt(q, i) = a \o b
  BY DEF RemoveAt
<1> HIDE DEF a, b
<1>4. a \o b \in Seq(S)
  BY <1>1, <1>2
<1>5. ASSUME NEW j \in DOMAIN (a \o b)
      PROVE  \E k \in DOMAIN q : (a \o b)[j] = q[k]
  <2>1. j \in 1..(Len(a) + Len(b)) /\ Len(a) \in Nat /\ Len(b) \in Nat
    BY <1>1, <1>2
  <2>2. CASE j \leq Len(a)
    <3>1. j \in DOMAIN a /\ (a \o b)[j] = a[j]
      BY <1>1, <1>2, <2>1, <2>2
    <3> QED
      BY <1>1, <3>1
  <2>3. CASE ~(j \leq Len(a))
    <3>1. j - Len(a) \in DOMAIN b /\ (a \o b)[j] = b[j - Len(a)]
      BY <1>1, <1>2, <2>1, <2>3
    <3> QED
      BY <1>2, <3>1
  <2> QED
    BY <2>2, <2>3
<1> QED
  BY <1>3, <1>4, <1>5

-----------------------------------------------------------------------------
(***************************************************************************)
(* Consequences of the invariant.                                          *)
(***************************************************************************)
\* Spans are numbered from one, and a span that is held is open.
LEMMA HeldOpen ==
  ASSUME LInv, NEW s \in DOMAIN spans, spans[s].held
  PROVE  s \in Nat \ {0} /\ spans[s] \in SpanFields /\ spans[s].slot = "open"
  BY DEF LInv, Shape, SlotsCounted, Unreferenced

\* The span a thread is in is held.
LEMMA CurrentHeld ==
  ASSUME LInv, NEW t \in Threads, Current(t) # NoSpan
  PROVE  Current(t) \in DOMAIN spans /\ spans[Current(t)].held
<1>1. stack[t] \in Seq(Nat) /\ stack[t] # <<>> /\ Current(t) = stack[t][Len(stack[t])]
  BY DEF LInv, Shape, Current, Last
<1>2. Len(stack[t]) \in DOMAIN stack[t]
  BY <1>1
<1> QED
  BY <1>1, <1>2 DEF LInv, EnteredHeld

\* The span a thread closes is one, and it is not sent before it is closed.
LEMMA ClosingSpan ==
  ASSUME LInv, NEW t \in Threads, ~Free(t)
  PROVE  /\ closing[t] \in DOMAIN spans /\ closing[t] \in Nat \ {0}
         /\ spans[closing[t]] \in SpanFields /\ Unreferenced(closing[t])
         /\ spans[closing[t]].slot \in {"closing", "closed"}
<1>1. closing[t] \in DOMAIN spans
  BY DEF LInv, Shape, Free
<1>2. spans[closing[t]].slot \in {"closing", "closed"}
  BY <1>1 DEF LInv, SlotsCounted
<1> QED
  BY <1>1, <1>2 DEF LInv, Shape, SlotsCounted

\* The parent of a span whose slot is there is open.
LEMMA ParentOpen ==
  ASSUME LInv, NEW s \in DOMAIN spans, spans[s].slot # "cleared", spans[s].parent # NoSpan
  PROVE  /\ spans[s].parent \in DOMAIN spans /\ spans[s].parent < s
         /\ s \in Children(spans[s].parent) /\ spans[spans[s].parent].slot = "open"
<1>1. /\ s \in 1..Len(spans) /\ Len(spans) \in Nat /\ DOMAIN spans = 1..Len(spans)
      /\ spans[s].parent \in 0..(s - 1)
  BY DEF LInv, Shape
<1>2. spans[s].parent \in DOMAIN spans /\ spans[s].parent < s
  BY <1>1 DEF NoSpan
<1>3. s \in Children(spans[s].parent)
  BY DEF Children
<1> QED
  BY <1>2, <1>3 DEF LInv, SlotsCounted, Unreferenced

-----------------------------------------------------------------------------
(***************************************************************************)
(* One lemma per action.                                                   *)
(***************************************************************************)
\* In the initial state nothing is open and nothing was sent.
LEMMA LayerInit ==
  ASSUME Init PROVE LInv
<1> USE DEF Init
<1>1. DOMAIN spans = {} /\ DOMAIN output = {} /\ \A t \in Threads : DOMAIN stack[t] = {}
  OBVIOUS
<1>2. Shape
  BY <1>1 DEF Shape
<1>3. SlotsCounted
  BY <1>1 DEF SlotsCounted
<1> QED
  BY <1>1, <1>2, <1>3 DEF LInv, EnteredHeld, SentClosed, SpanIsLast

\* A new span refers to an open parent, which its slot keeps open.
LEMMA NewSpanStep ==
  ASSUME LayerAssumption, LInv, NEW t \in Threads, NEW parent,
         NEW given \in [way : Ways, trace : TraceIds], NewSpan(t, parent, given)
  PROVE  LInv'
<1>0. PICK n : n = Len(spans) + 1
  OBVIOUS
<1>1. /\ spans \in Seq(SpanFields) /\ Len(spans) \in Nat /\ DOMAIN spans = 1..Len(spans)
      /\ UNCHANGED <<config, stack, closing, output, events>>
  BY DEF LInv, Shape, NewSpan
<1>2. given.way \in Ways /\ given.trace \in TraceIds /\ TraceOf(given) \in TraceIds
  BY DEF LayerAssumption, TraceIds, TraceOf
<1>3. parent \in {NoSpan} \cup DOMAIN spans /\ (parent # NoSpan => spans[parent].held)
  BY CurrentHeld DEF NewSpan
<1>4. Sampled(parent, TraceOf(given)) \in BOOLEAN
  <2>1. CASE parent = NoSpan
    BY <2>1 DEF Sampled, ShouldSample
  <2>2. CASE parent # NoSpan
    <3>1. spans[parent] \in SpanFields
      BY <1>1, <1>3, <2>2
    <3> QED
      BY <2>2, <3>1 DEF Sampled, SpanFields
  <2> QED
    BY <2>1, <2>2
<1>5. PICK f \in SpanFields :
        /\ spans' = Append(spans, f)
        /\ f.parent = parent /\ f.held /\ f.slot = "open"
  <2>1. [parent |-> parent, trace |-> TraceOf(given), sampled |-> Sampled(parent, TraceOf(given)),
         fields |-> 0, given |-> given.trace, held |-> TRUE, slot |-> "open"] \in SpanFields
    BY <1>1, <1>2, <1>3, <1>4 DEF SpanFields, Slots, NoSpan, LayerAssumption
  <2> QED
    BY <2>1 DEF NewSpan
<1>6. /\ spans' \in Seq(SpanFields) /\ DOMAIN spans' = 1..n /\ n \in Nat /\ n \notin DOMAIN spans
      /\ DOMAIN spans' = DOMAIN spans \cup {n}
      /\ spans'[n] = f /\ \A x \in DOMAIN spans : spans'[x] = spans[x]
  BY <1>0, <1>1, <1>5
<1>7. Shape'
  <2>1. \A x \in DOMAIN spans' : spans'[x].parent \in 0..(x - 1)
    <3>1. f.parent \in 0..(n - 1)
      BY <1>0, <1>1, <1>3, <1>5, <1>6 DEF NoSpan
    <3> QED
      BY <1>6, <3>1 DEF LInv, Shape
  <2>2. closing' \in [Threads -> {NoSpan} \cup DOMAIN spans']
    BY <1>1, <1>6 DEF LInv, Shape
  <2> QED
    BY <1>1, <1>6, <2>1, <2>2 DEF LInv, Shape
<1>8. SlotsCounted'
  <2>1. \A x \in DOMAIN spans : Children(x)' = Children(x) \cup {c \in {n} : parent = x}
    BY <1>5, <1>6 DEF Children
  <2>2. Children(n)' = {}
    BY <1>0, <1>1, <1>3, <1>5, <1>6 DEF LInv, Shape, Children, NoSpan
  <2>3. \A x \in DOMAIN spans' : spans'[x].slot = "open" <=> ~Unreferenced(x)'
    <3>1. ASSUME NEW x \in DOMAIN spans
          PROVE  spans'[x].slot = "open" <=> ~Unreferenced(x)'
      <4>1. CASE x = parent
        BY <1>1, <1>3, <1>6, <4>1, HeldOpen DEF Unreferenced, LInv, Shape, NoSpan
      <4>2. CASE x # parent
        BY <1>6, <2>1, <4>2 DEF Unreferenced, LInv, SlotsCounted
      <4> QED
        BY <4>1, <4>2
    <3>2. spans'[n].slot = "open" <=> ~Unreferenced(n)'
      BY <1>5, <1>6 DEF Unreferenced
    <3> QED
      BY <1>6, <3>1, <3>2
  <2>4. \A u \in Threads : closing[u] # n
    BY <1>0, <1>1, <1>6 DEF LInv, Shape, NoSpan
  <2>5. \A x \in DOMAIN spans' :
          spans'[x].slot \in {"closing", "closed"} <=> \E u \in Threads : closing'[u] = x
    BY <1>1, <1>5, <1>6, <2>4 DEF LInv, SlotsCounted
  <2> QED
    BY <1>1, <2>3, <2>5 DEF LInv, SlotsCounted
<1>9. EnteredHeld'
  BY <1>1, <1>6 DEF LInv, EnteredHeld
<1>10. SentClosed'
  BY <1>1, <1>6 DEF LInv, SentClosed
<1>11. SpanIsLast'
  BY <1>1 DEF LInv, SpanIsLast
<1> QED
  BY <1>7, <1>8, <1>9, <1>10, <1>11 DEF LInv

\* Only a span that is held, and so not sent, gets more fields.
LEMMA RecordStep ==
  ASSUME LayerAssumption, LInv, NEW t \in Threads, NEW s \in DOMAIN spans, Record(t, s)
  PROVE  LInv'
<1>1. /\ spans \in Seq(SpanFields) /\ UNCHANGED <<config, stack, closing, output, events>>
      /\ spans[s].held
  BY DEF LInv, Shape, Record
<1>2. spans[s].slot = "open" /\ spans[s] \in SpanFields
  BY <1>1, HeldOpen
<1>3. /\ DOMAIN spans' = DOMAIN spans /\ spans' = [x \in DOMAIN spans' |-> spans'[x]]
      /\ \A x \in DOMAIN spans : x # s => spans'[x] = spans[x]
      /\ spans'[s] = [spans[s] EXCEPT !.fields = @ + 1]
  BY <1>1 DEF Record
<1>4. /\ spans'[s] \in SpanFields /\ spans'[s].parent = spans[s].parent
      /\ spans'[s].held = spans[s].held /\ spans'[s].slot = spans[s].slot
  <2>1. spans[s].fields + 1 \in 0..MaxFields
    BY <1>2 DEF SpanFields, Record, LayerAssumption
  <2> QED
    BY <1>2, <1>3, <2>1 DEF SpanFields
<1>5. /\ \A x \in DOMAIN spans : spans[x] \in SpanFields
      /\ \A x \in DOMAIN spans : /\ spans'[x] \in SpanFields
                                /\ spans'[x].parent = spans[x].parent
                                /\ spans'[x].held = spans[x].held /\ spans'[x].slot = spans[x].slot
  <2>1. \A x \in DOMAIN spans : spans[x] \in SpanFields
    BY <1>1
  <2>2. ASSUME NEW x \in DOMAIN spans
        PROVE  /\ spans'[x] \in SpanFields /\ spans'[x].parent = spans[x].parent
               /\ spans'[x].held = spans[x].held /\ spans'[x].slot = spans[x].slot
    <3>1. CASE x = s
      BY <1>4, <3>1
    <3>2. CASE x # s
      BY <1>3, <2>1, <3>2
    <3> QED
      BY <3>1, <3>2
  <2> QED
    BY <2>1, <2>2
<1>6. spans' \in Seq(SpanFields)
  BY <1>1, <1>3, <1>5, Replaced
<1>7. Shape'
  BY <1>1, <1>3, <1>5, <1>6 DEF LInv, Shape
<1>8. \A x : Children(x)' = Children(x)
  BY <1>3, <1>5 DEF Children
<1>9. SlotsCounted'
  <2>1. /\ DOMAIN spans' = DOMAIN spans /\ closing' = closing
        /\ \A x \in DOMAIN spans : spans'[x].slot = spans[x].slot
    BY ONLY <1>1, <1>3, <1>5
  <2>2. \A x \in DOMAIN spans : Unreferenced(x)' <=> Unreferenced(x)
    BY ONLY <1>5, <1>8 DEF Unreferenced
  <2>3. SlotsCounted
    BY DEF LInv
  <2> QED
    BY ONLY <2>1, <2>2, <2>3 DEF SlotsCounted
<1>10. EnteredHeld'
  BY <1>1, <1>3, <1>5 DEF LInv, EnteredHeld
<1>11. SentClosed'
  BY <1>1, <1>2, <1>3, <1>5 DEF LInv, SentClosed
<1>12. SpanIsLast'
  BY <1>1 DEF LInv, SpanIsLast
<1> QED
  BY <1>7, <1>9, <1>10, <1>11, <1>12 DEF LInv

\* A step that moves only stacks keeps what the invariant says of all else.
LEMMA StackStep ==
  ASSUME LInv, NEW t \in Threads, NEW q \in Seq(Nat), stack' = [stack EXCEPT ![t] = q],
         UNCHANGED <<config, spans, closing, output>>,
         \A i \in DOMAIN q : q[i] \in DOMAIN spans /\ spans[q[i]].held
  PROVE  LInv'
<1>1. Shape' /\ stack'[t] = q /\ \A u \in Threads \ {t} : stack'[u] = stack[u]
  BY DEF LInv, Shape
<1>2. SlotsCounted'
  BY DEF LInv, SlotsCounted, Unreferenced, Children
<1>3. EnteredHeld'
  BY <1>1 DEF LInv, EnteredHeld
<1>4. SentClosed' /\ SpanIsLast'
  BY DEF LInv, SentClosed, SpanIsLast
<1> QED
  BY <1>1, <1>2, <1>3, <1>4 DEF LInv

\* A span is entered through a handle.
LEMMA EnterStep ==
  ASSUME LInv, NEW t \in Threads, NEW s \in DOMAIN spans, Enter(t, s)
  PROVE  LInv'
<1>1. stack[t] \in Seq(Nat) /\ s \in Nat
  BY DEF LInv, Shape
<1>2. Append(stack[t], s) \in Seq(Nat)
  BY <1>1
<1>3. \A i \in DOMAIN Append(stack[t], s) :
        Append(stack[t], s)[i] = s \/ (i \in DOMAIN stack[t] /\ Append(stack[t], s)[i] = stack[t][i])
  BY <1>1
<1>4. \A i \in DOMAIN Append(stack[t], s) :
        Append(stack[t], s)[i] \in DOMAIN spans /\ spans[Append(stack[t], s)[i]].held
  BY <1>3 DEF LInv, EnteredHeld, Enter
<1>5. stack' = [stack EXCEPT ![t] = Append(stack[t], s)]
  BY DEF Enter
<1> QED
  BY <1>2, <1>4, <1>5, StackStep DEF Enter

\* Leaving a span takes it off the stack.
LEMMA ExitStep ==
  ASSUME LInv, NEW t \in Threads, NEW s \in DOMAIN spans, Exit(t, s)
  PROVE  LInv'
<1>1. stack[t] \in Seq(Nat)
  BY DEF LInv, Shape
<1>2. PICK i \in DOMAIN stack[t] : stack' = [stack EXCEPT ![t] = RemoveAt(stack[t], i)]
  BY DEF Exit
<1>3. /\ RemoveAt(stack[t], i) \in Seq(Nat)
      /\ \A j \in DOMAIN RemoveAt(stack[t], i) :
           \E k \in DOMAIN stack[t] : RemoveAt(stack[t], i)[j] = stack[t][k]
  BY <1>1, Removed
<1>4. \A j \in DOMAIN RemoveAt(stack[t], i) :
        RemoveAt(stack[t], i)[j] \in DOMAIN spans /\ spans[RemoveAt(stack[t], i)[j]].held
  BY <1>3 DEF LInv, EnteredHeld
<1> QED
  BY <1>2, <1>3, <1>4, StackStep DEF Exit

\* What is sent next may be a span that closes or a log, and concerns no span
\* that was sent before.
LEMMA SentNext ==
  ASSUME LInv, NEW m \in Sent, output' = Append(output, m),
         \A j \in DOMAIN output :
           output[j].signal = "traces" => m.span # output[j].span /\ m.parent # output[j].span
  PROVE  /\ output' \in Seq(Sent) /\ SpanIsLast'
         /\ \A j \in DOMAIN output' : output'[j] = m \/ (j \in DOMAIN output /\ output'[j] = output[j])
<1>1. /\ output \in Seq(Sent) /\ Len(output) \in Nat /\ DOMAIN output = 1..Len(output)
  BY DEF LInv, Shape
<1>2. /\ output' \in Seq(Sent) /\ DOMAIN output' = 1..(Len(output) + 1)
      /\ output'[Len(output) + 1] = m /\ \A j \in DOMAIN output : output'[j] = output[j]
  BY <1>1
<1>3. ASSUME NEW j \in DOMAIN output', NEW k \in DOMAIN output', j < k, output'[j].signal = "traces"
      PROVE  output'[k].span # output'[j].span /\ output'[k].parent # output'[j].span
  <2>1. j \in DOMAIN output
    BY <1>1, <1>2, <1>3
  <2>2. CASE k \in DOMAIN output
    BY <1>2, <1>3, <2>1, <2>2 DEF LInv, SpanIsLast
  <2>3. CASE k \notin DOMAIN output
    <3>1. output'[k] = m
      BY <1>1, <1>2, <2>3
    <3> QED
      BY <1>2, <1>3, <2>1, <3>1
  <2> QED
    BY <2>2, <2>3
<1>4. SpanIsLast'
  BY <1>3 DEF SpanIsLast
<1>5. \A j \in DOMAIN output' : output'[j] = m \/ (j \in DOMAIN output /\ output'[j] = output[j])
  BY <1>1, <1>2
<1> QED
  BY <1>2, <1>4, <1>5

\* A log is sent in a span that its thread is in, which is open.
LEMMA EventStep ==
  ASSUME LayerAssumption, LInv, NEW t \in Threads, Event(t)
  PROVE  LInv'
<1>1. UNCHANGED <<config, spans, stack, closing>>
  BY DEF Event
<1>2. CASE output' = output
  BY <1>1, <1>2 DEF LInv, Shape, SlotsCounted, Unreferenced, Children, EnteredHeld, SentClosed, SpanIsLast
<1>3. CASE output' = Append(output, LogData(Current(t)))
  <2>1. PICK s : s = Current(t)
    OBVIOUS
  <2>2. s # NoSpan => s \in DOMAIN spans /\ s \in Nat \ {0} /\ spans[s] \in SpanFields /\ spans[s].slot = "open"
    BY <2>1, CurrentHeld, HeldOpen
  <2>3. PICK m : m = LogData(s)
    OBVIOUS
  <2>4. m \in Sent /\ m.signal = "logs" /\ m.span = s /\ m.parent = NoSpan
    BY <2>2, <2>3 DEF LogData, Sent, SpanFields, TraceIds, NoSpan
  <2>5. \A j \in DOMAIN output :
          output[j].signal = "traces" => m.span # output[j].span /\ m.parent # output[j].span
    <3>1. NoSpan \notin DOMAIN spans
      BY DEF LInv, Shape, NoSpan
    <3> QED
      BY <2>2, <2>4, <3>1 DEF LInv, SentClosed
  <2>6. /\ output' \in Seq(Sent) /\ SpanIsLast'
        /\ \A j \in DOMAIN output' : output'[j] = m \/ (j \in DOMAIN output /\ output'[j] = output[j])
    BY <1>3, <2>1, <2>3, <2>4, <2>5, SentNext
  <2>7. Shape' /\ SlotsCounted' /\ EnteredHeld'
    BY <1>1, <2>6 DEF LInv, Shape, SlotsCounted, Unreferenced, Children, EnteredHeld
  <2>8. SentClosed'
    BY <1>1, <2>2, <2>4, <2>6 DEF LInv, SentClosed
  <2> QED
    BY <2>6, <2>7, <2>8 DEF LInv
<1> QED
  BY <1>2, <1>3 DEF Event

\* The last handle of a span without children gives it to one thread to close.
LEMMA DropHandleStep ==
  ASSUME LInv, NEW t \in Threads, NEW s \in DOMAIN spans, DropHandle(t, s)
  PROVE  LInv'
<1>1. /\ spans \in Seq(SpanFields) /\ UNCHANGED <<config, stack, output>>
      /\ spans[s].held /\ Free(t) /\ ~Entered(s)
  BY DEF LInv, Shape, DropHandle
<1>2. s \in Nat \ {0} /\ spans[s].slot = "open" /\ spans[s] \in SpanFields
  BY <1>1, HeldOpen
<1>3. PICK last \in BOOLEAN : last <=> Children(s) = {}
  OBVIOUS
<1>4. /\ DOMAIN spans' = DOMAIN spans /\ spans' = [x \in DOMAIN spans' |-> spans'[x]]
      /\ \A x \in DOMAIN spans : x # s => spans'[x] = spans[x]
      /\ spans'[s] = [spans[s] EXCEPT !.held = FALSE, !.slot = IF last THEN "closing" ELSE @]
      /\ closing' = [closing EXCEPT ![t] = IF last THEN s ELSE @]
  BY <1>1, <1>3 DEF DropHandle
<1>5. /\ spans'[s] \in SpanFields /\ ~spans'[s].held
      /\ spans'[s].parent = spans[s].parent /\ spans'[s].fields = spans[s].fields
      /\ spans'[s].slot = IF last THEN "closing" ELSE "open"
  BY <1>2, <1>4 DEF SpanFields, Slots
<1>6. \A x \in DOMAIN spans : spans'[x] \in SpanFields /\ spans'[x].parent = spans[x].parent
  <2>1. \A x \in DOMAIN spans : spans[x] \in SpanFields
    BY <1>1
  <2> QED
    BY <1>4, <1>5, <2>1
<1>7. spans' \in Seq(SpanFields)
  BY <1>1, <1>4, <1>6, Replaced
<1>8. /\ closing' \in [Threads -> {NoSpan} \cup DOMAIN spans]
      /\ closing'[t] = IF last THEN s ELSE NoSpan
      /\ \A u \in Threads \ {t} : closing'[u] = closing[u]
  BY <1>1, <1>4 DEF LInv, Shape, Free
<1>9. Shape'
  BY <1>1, <1>4, <1>6, <1>7, <1>8 DEF LInv, Shape
<1>10. \A x : Children(x)' = Children(x)
  BY <1>2, <1>4, <1>5, <1>6 DEF Children
<1>11. \A u \in Threads : closing[u] # s
  BY <1>2 DEF LInv, SlotsCounted
<1>12. SlotsCounted'
  <2>1. \A x \in DOMAIN spans' : spans'[x].slot = "open" <=> ~Unreferenced(x)'
    <3>1. ASSUME NEW x \in DOMAIN spans, x # s
          PROVE  spans'[x].slot = "open" <=> ~Unreferenced(x)'
      BY <1>4, <1>10, <3>1 DEF LInv, SlotsCounted, Unreferenced
    <3>2. spans'[s].slot = "open" <=> ~Unreferenced(s)'
      BY <1>3, <1>5, <1>10 DEF Unreferenced
    <3> QED
      BY <1>4, <3>1, <3>2
  <2>2. \A x \in DOMAIN spans' :
          spans'[x].slot \in {"closing", "closed"} <=> \E u \in Threads : closing'[u] = x
    <3>1. ASSUME NEW x \in DOMAIN spans, x # s
          PROVE  spans'[x].slot \in {"closing", "closed"} <=> \E u \in Threads : closing'[u] = x
      <4>1. x # NoSpan
        BY DEF LInv, Shape, NoSpan
      <4>2. \A u \in Threads : closing'[u] = x <=> closing[u] = x
        BY <1>1, <1>8, <3>1, <4>1 DEF Free
      <4> QED
        BY <1>4, <3>1, <4>2 DEF LInv, SlotsCounted
    <3>2. spans'[s].slot \in {"closing", "closed"} <=> \E u \in Threads : closing'[u] = s
      BY <1>2, <1>5, <1>8, <1>11 DEF NoSpan
    <3> QED
      BY <1>4, <3>1, <3>2
  <2>3. \A u, v \in Threads : closing'[u] = closing'[v] => closing'[u] = NoSpan \/ u = v
    BY <1>8, <1>11 DEF LInv, SlotsCounted
  <2> QED
    BY <2>1, <2>2, <2>3 DEF SlotsCounted
<1>13. EnteredHeld'
  BY <1>1, <1>4 DEF LInv, EnteredHeld, Entered, Range
<1>14. SentClosed'
  BY <1>1, <1>2, <1>4, <1>5 DEF LInv, SentClosed
<1>15. SpanIsLast'
  BY <1>1 DEF LInv, SpanIsLast
<1> QED
  BY <1>9, <1>12, <1>13, <1>14, <1>15 DEF LInv

\* A span is sent when it closes: it was not sent before, and nor was its
\* parent, whose slot it keeps open.
LEMMA CloseStep ==
  ASSUME LayerAssumption, LInv, NEW t \in Threads, Close(t)
  PROVE  LInv'
<1>1. /\ spans \in Seq(SpanFields) /\ UNCHANGED <<config, stack, closing>> /\ ~Free(t)
  BY DEF LInv, Shape, Close
<1>2. PICK s \in DOMAIN spans : s = closing[t]
  BY <1>1, ClosingSpan
<1>3. /\ s \in Nat \ {0} /\ spans[s] \in SpanFields /\ Unreferenced(s) /\ spans[s].slot = "closing"
  BY <1>1, <1>2, ClosingSpan DEF Close
<1>4. /\ DOMAIN spans' = DOMAIN spans /\ spans' = [x \in DOMAIN spans' |-> spans'[x]]
      /\ \A x \in DOMAIN spans : x # s => spans'[x] = spans[x]
      /\ spans'[s] = [spans[s] EXCEPT !.slot = "closed"]
  BY <1>1, <1>2 DEF Close
<1>5. /\ spans'[s] \in SpanFields /\ spans'[s].parent = spans[s].parent
      /\ spans'[s].fields = spans[s].fields /\ spans'[s].held = spans[s].held
      /\ spans'[s].slot = "closed"
  BY <1>3, <1>4 DEF SpanFields, Slots
<1>6. \A x \in DOMAIN spans :
        /\ spans'[x] \in SpanFields /\ spans'[x].parent = spans[x].parent
        /\ spans'[x].fields = spans[x].fields /\ spans'[x].held = spans[x].held
  <2>1. \A x \in DOMAIN spans : spans[x] \in SpanFields
    BY <1>1
  <2> QED
    BY <1>4, <1>5, <2>1
<1>7. spans' \in Seq(SpanFields)
  BY <1>1, <1>4, <1>6, Replaced
<1>8. /\ \A x \in DOMAIN spans : spans'[x].slot = "cleared" <=> spans[x].slot = "cleared"
      /\ \A x : Children(x)' = Children(x)
  <2>1. \A x \in DOMAIN spans : spans'[x].slot = "cleared" <=> spans[x].slot = "cleared"
    BY <1>3, <1>4, <1>5
  <2> QED
    BY <1>4, <1>6, <2>1 DEF Children
<1>9. SlotsCounted'
  <2>1. \A x \in DOMAIN spans : Unreferenced(x)' <=> Unreferenced(x)
    BY <1>4, <1>6, <1>8 DEF Unreferenced
  <2>2. \A x \in DOMAIN spans :
          /\ spans'[x].slot = "open" <=> spans[x].slot = "open"
          /\ spans'[x].slot \in {"closing", "closed"} <=> spans[x].slot \in {"closing", "closed"}
    BY <1>3, <1>4, <1>5
  <2> QED
    BY <1>1, <1>4, <2>1, <2>2 DEF LInv, SlotsCounted
<1>10. EnteredHeld'
  BY <1>1, <1>4, <1>6 DEF LInv, EnteredHeld
<1>11. output' \in Seq(Sent) /\ SpanIsLast' /\ SentClosed'
  <2>1. CASE output' = output
    <3>1. \A x \in DOMAIN spans :
            spans[x].slot \in {"closed", "cleared"} => spans'[x].slot \in {"closed", "cleared"}
      BY <1>3, <1>4, <1>5
    <3>2. SentClosed'
      BY <1>4, <1>6, <2>1, <3>1 DEF LInv, SentClosed
    <3> QED
      BY <2>1, <3>2 DEF LInv, Shape, SpanIsLast
  <2>2. CASE output' = Append(output, SpanData(s))
    <3>1. PICK m : m = SpanData(s)
      OBVIOUS
    <3>2. /\ m \in Sent /\ m.signal = "traces" /\ m.span = s
          /\ m.parent = spans[s].parent /\ m.fields = spans[s].fields
      BY <1>3, <3>1 DEF SpanData, Sent, SpanFields, LayerAssumption
    <3>3. NoSpan \notin DOMAIN spans
      BY DEF LInv, Shape, NoSpan
    <3>4. spans[s].parent # NoSpan => spans[spans[s].parent].slot = "open"
      BY <1>3, ParentOpen
    <3>5. \A j \in DOMAIN output :
            output[j].signal = "traces" => m.span # output[j].span /\ m.parent # output[j].span
      BY <1>3, <3>2, <3>3, <3>4 DEF LInv, SentClosed
    <3>6. /\ output' \in Seq(Sent) /\ SpanIsLast'
          /\ \A j \in DOMAIN output' : output'[j] = m \/ (j \in DOMAIN output /\ output'[j] = output[j])
      BY <2>2, <3>1, <3>2, <3>5, SentNext
    <3>7. SentClosed'
      <4>1. ASSUME NEW j \in DOMAIN output', output'[j].signal = "traces"
            PROVE  /\ output'[j].span \in DOMAIN spans'
                   /\ spans'[output'[j].span].slot \in {"closed", "cleared"}
                   /\ output'[j].fields = spans'[output'[j].span].fields
                   /\ output'[j].parent = spans'[output'[j].span].parent
        <5>1. CASE output'[j] = m
          BY <1>4, <1>5, <3>2, <5>1
        <5>2. CASE j \in DOMAIN output /\ output'[j] = output[j]
          BY <1>3, <1>4, <1>6, <4>1, <5>2 DEF LInv, SentClosed
        <5> QED
          BY <3>6, <5>1, <5>2
      <4>2. ASSUME NEW j \in DOMAIN output', output'[j].signal = "logs"
            PROVE  output'[j].parent = NoSpan /\ output'[j].span \in {NoSpan} \cup DOMAIN spans'
        BY <1>4, <3>2, <3>6, <4>2 DEF LInv, SentClosed
      <4> QED
        BY <4>1, <4>2 DEF SentClosed
    <3> QED
      BY <3>6, <3>7
  <2> QED
    BY <1>2, <2>1, <2>2 DEF Close
<1>12. Shape'
  BY <1>1, <1>4, <1>6, <1>7, <1>11 DEF LInv, Shape
<1> QED
  BY <1>9, <1>10, <1>11, <1>12 DEF LInv

\* A cleared slot no longer refers to the parent, which closes on this thread
\* when nothing else does.
LEMMA ClearStep ==
  ASSUME LInv, NEW t \in Threads, Clear(t)
  PROVE  LInv'
<1>1. /\ spans \in Seq(SpanFields) /\ UNCHANGED <<config, stack, output>> /\ ~Free(t)
  BY DEF LInv, Shape, Clear
<1>2. PICK s \in DOMAIN spans : s = closing[t]
  BY <1>1, ClosingSpan
<1>3. /\ s \in Nat \ {0} /\ spans[s] \in SpanFields /\ Unreferenced(s) /\ spans[s].slot = "closed"
  BY <1>1, <1>2, ClosingSpan DEF Clear
<1>4. PICK p : p = spans[s].parent
  OBVIOUS
<1>5. PICK last \in BOOLEAN : last <=> p # NoSpan /\ ~spans[p].held /\ Children(p) = {s}
  OBVIOUS
<1>6. p # NoSpan => p \in DOMAIN spans /\ p < s /\ s \in Children(p) /\ spans[p].slot = "open"
  BY <1>3, <1>4, ParentOpen
<1>7. /\ p # s /\ (last => p \in DOMAIN spans) /\ NoSpan \notin DOMAIN spans
      /\ \A x \in DOMAIN spans : spans[x] \in SpanFields
  BY <1>1, <1>3, <1>5, <1>6 DEF LInv, Shape, NoSpan
<1>8. /\ spans' = [c \in DOMAIN spans |->
                     CASE c = s -> [spans[c] EXCEPT !.slot = "cleared"]
                       [] c = p /\ last -> [spans[c] EXCEPT !.slot = "closing"]
                       [] OTHER -> spans[c]]
      /\ closing' = [closing EXCEPT ![t] = IF last THEN p ELSE NoSpan]
  <2> DEFINE Only(x, y) == y # NoSpan /\ ~spans[y].held /\ Children(y) = {x}
             After(x, y, z) ==
               /\ spans' = [c \in DOMAIN spans |->
                              CASE c = x -> [spans[c] EXCEPT !.slot = "cleared"]
                                [] c = y /\ z -> [spans[c] EXCEPT !.slot = "closing"]
                                [] OTHER -> spans[c]]
               /\ closing' = [closing EXCEPT ![t] = IF z THEN y ELSE NoSpan]
  <2>1. After(closing[t], spans[closing[t]].parent, Only(closing[t], spans[closing[t]].parent))
    BY Zenon DEF Clear
  <2>2. Only(s, p) = last
    BY <1>5
  <2> HIDE DEF After, Only
  <2>3. After(s, p, last)
    BY <1>2, <1>4, <2>1, <2>2
  <2> QED
    BY <2>3 DEF After
<1>9. /\ DOMAIN spans' = DOMAIN spans /\ spans' = [x \in DOMAIN spans' |-> spans'[x]]
      /\ spans'[s] = [spans[s] EXCEPT !.slot = "cleared"]
      /\ last => spans'[p] = [spans[p] EXCEPT !.slot = "closing"]
      /\ \A x \in DOMAIN spans : x # s /\ ~(x = p /\ last) => spans'[x] = spans[x]
  BY <1>7, <1>8
<1> DEFINE Moved(x) == IF x = s THEN "cleared" ELSE IF x = p /\ last THEN "closing" ELSE spans[x].slot
<1>10. \A x \in DOMAIN spans :
         /\ spans'[x] \in SpanFields /\ spans'[x].parent = spans[x].parent
         /\ spans'[x].fields = spans[x].fields /\ spans'[x].held = spans[x].held
         /\ spans'[x].slot = Moved(x)
  <2>1. ASSUME NEW x \in DOMAIN spans
        PROVE  /\ spans'[x] \in SpanFields /\ spans'[x].parent = spans[x].parent
               /\ spans'[x].fields = spans[x].fields /\ spans'[x].held = spans[x].held
               /\ spans'[x].slot = Moved(x)
    <3>1. CASE x = s
      BY <1>3, <1>9, <3>1 DEF SpanFields, Slots
    <3>2. CASE x # s /\ x = p /\ last
      <4>1. spans[p] \in SpanFields
        BY <1>7, <3>2
      <4> QED
        BY <1>9, <3>2, <4>1 DEF SpanFields, Slots
    <3>3. CASE x # s /\ ~(x = p /\ last)
      BY <1>7, <1>9, <3>3
    <3> QED
      BY <3>1, <3>2, <3>3
  <2> QED
    BY <2>1
<1>11. spans' \in Seq(SpanFields)
  BY <1>1, <1>9, <1>10, Replaced
<1>12. /\ closing' \in [Threads -> {NoSpan} \cup DOMAIN spans]
       /\ closing'[t] = IF last THEN p ELSE NoSpan
       /\ \A u \in Threads \ {t} : closing'[u] = closing[u] /\ closing[u] # s
  BY <1>1, <1>2, <1>7, <1>8 DEF LInv, Shape, SlotsCounted, Free
<1>13. Shape'
  BY <1>1, <1>9, <1>10, <1>11, <1>12 DEF LInv, Shape
<1>14. \A x \in DOMAIN spans : Children(x)' = Children(x) \ {s}
  <2>1. \A c \in DOMAIN spans : spans'[c].slot # "cleared" <=> spans[c].slot # "cleared" /\ c # s
    BY <1>5, <1>6, <1>10
  <2> QED
    BY <1>9, <1>10, <2>1 DEF Children
<1>15. \A u \in Threads : last => closing[u] # p
  BY <1>5, <1>6 DEF LInv, SlotsCounted
<1>16. SlotsCounted'
  <2>1. ASSUME NEW x \in DOMAIN spans
        PROVE  spans'[x].slot = "open" <=> ~Unreferenced(x)'
    <3>1. Unreferenced(x)' <=> ~spans[x].held /\ Children(x) \ {s} = {}
      BY <1>9, <1>10, <1>14 DEF Unreferenced
    <3>2. CASE x = s
      BY <1>3, <1>10, <3>1, <3>2 DEF Unreferenced
    <3>3. CASE x = p /\ x # s
      <4>1. p # NoSpan
        BY <1>7, <3>3
      <4>2. last <=> ~spans[x].held /\ Children(x) \ {s} = {}
        BY <1>5, <1>6, <3>3, <4>1
      <4> QED
        BY <1>6, <1>10, <3>1, <3>3, <4>1, <4>2
    <3>4. CASE x # p /\ x # s
      <4>1. s \notin Children(x)
        BY <1>4, <3>4 DEF Children
      <4> QED
        BY <1>10, <3>1, <3>4, <4>1 DEF LInv, SlotsCounted, Unreferenced
    <3> QED
      BY <3>2, <3>3, <3>4
  <2>2. ASSUME NEW x \in DOMAIN spans
        PROVE  spans'[x].slot \in {"closing", "closed"} <=> \E u \in Threads : closing'[u] = x
    <3>1. x # NoSpan
      BY <1>7
    <3>2. CASE x = s
      BY <1>7, <1>10, <1>12, <3>1, <3>2
    <3>3. CASE x = p /\ last /\ x # s
      BY <1>10, <1>12, <3>3
    <3>4. CASE x # s /\ ~(x = p /\ last)
      <4>1. \A u \in Threads : closing'[u] = x <=> closing[u] = x
        BY <1>2, <1>12, <3>1, <3>4
      <4> QED
        BY <1>10, <3>4, <4>1 DEF LInv, SlotsCounted
    <3> QED
      BY <3>2, <3>3, <3>4
  <2>3. \A u, v \in Threads : closing'[u] = closing'[v] => closing'[u] = NoSpan \/ u = v
    BY <1>12, <1>15 DEF LInv, SlotsCounted
  <2> QED
    BY <1>9, <2>1, <2>2, <2>3 DEF SlotsCounted
<1>17. EnteredHeld'
  BY <1>1, <1>9, <1>10 DEF LInv, EnteredHeld
<1>18. SentClosed'
  <2>1. \A x \in DOMAIN spans :
          spans[x].slot \in {"closed", "cleared"} => spans'[x].slot \in {"closed", "cleared"}
    BY <1>6, <1>7, <1>10
  <2> QED
    BY <1>1, <1>9, <1>10, <2>1 DEF LInv, SentClosed
<1>19. SpanIsLast'
  BY <1>1 DEF LInv, SpanIsLast
<1> QED
  BY <1>13, <1>16, <1>17, <1>18, <1>19 DEF LInv

-----------------------------------------------------------------------------
(***************************************************************************)
(* The theorems.                                                           *)
(***************************************************************************)
\* Every step of a thread keeps the invariant, and so does the end.
LEMMA LayerNext ==
  ASSUME LayerAssumption, LInv, [Next]_vars
  PROVE  LInv'
<1>1. CASE UNCHANGED vars
  BY <1>1 DEF vars, LInv, Shape, SlotsCounted, Unreferenced, Children, EnteredHeld, SentClosed, SpanIsLast
<1>2. ASSUME NEW t \in Threads, ThreadStep(t)
      PROVE  LInv'
  <2>1. CASE \E parent \in {NoSpan} \cup DOMAIN spans, given \in Givens : NewSpan(t, parent, given)
    <3>1. Givens \subseteq [way : Ways, trace : TraceIds]
      BY DEF LayerAssumption, TraceIds
    <3> QED
      BY <2>1, <3>1, NewSpanStep
  <2>2. ASSUME NEW s \in DOMAIN spans, Record(t, s) \/ Enter(t, s) \/ Exit(t, s) \/ DropHandle(t, s)
        PROVE  LInv'
    BY <2>2, RecordStep, EnterStep, ExitStep, DropHandleStep
  <2>3. CASE Event(t) \/ Close(t) \/ Clear(t)
    BY <2>3, EventStep, CloseStep, ClearStep
  <2> QED
    BY <1>2, <2>1, <2>2, <2>3 DEF ThreadStep
<1>3. CASE Terminated
  BY <1>1, <1>3 DEF Terminated
<1> QED
  BY <1>1, <1>2, <1>3 DEF Next

\* The invariant holds in every behaviour of the layer.
THEOREM LayerInvariance == Spec => []LInv
<1>1. Init => LInv
  BY LayerInit
<1>2. LInv /\ [Next]_vars => LInv'
  BY LayerAssumption, LayerNext
<1> QED
  BY <1>1, <1>2, PTL DEF Spec

\* Spans refer to older ones, and a thread closes the span whose slot it owns
\* (src/otlp_layer.rs, on_new_span and on_close).
THEOREM LayerTyping == Spec => []TypeOK
<1>1. ASSUME LInv PROVE TypeOK
  <2>1. /\ DOMAIN spans = 1..Len(spans) /\ \A s \in DOMAIN spans : spans[s] \in SpanFields
        /\ DOMAIN output = 1..Len(output) /\ \A j \in DOMAIN output : output[j] \in Sent
    BY <1>1 DEF LInv, Shape
  <2>2. ASSUME NEW s \in DOMAIN spans
        PROVE  /\ spans[s].parent \in 0..(s - 1) /\ spans[s].trace \in Traces \cup {NoTrace}
               /\ spans[s].sampled \in BOOLEAN /\ spans[s].fields \in 0..MaxFields
               /\ spans[s].held \in BOOLEAN /\ spans[s].slot \in {"open", "closing", "closed", "cleared"}
    <3>1. spans[s] \in SpanFields /\ spans[s].parent \in 0..(s - 1)
      BY <1>1, <2>1 DEF LInv, Shape
    <3> QED
      BY <3>1 DEF SpanFields, Slots, TraceIds
  <2>3. stack \in [Threads -> Seq(DOMAIN spans)]
    <3>1. ASSUME NEW t \in Threads PROVE stack[t] \in Seq(DOMAIN spans)
      <4>1. stack[t] \in Seq(Nat) /\ \A i \in DOMAIN stack[t] : stack[t][i] \in DOMAIN spans
        BY <1>1 DEF LInv, Shape, EnteredHeld
      <4>2. stack[t] \in [1..Len(stack[t]) -> DOMAIN spans] /\ Len(stack[t]) \in Nat
        BY <4>1
      <4> QED
        BY <4>2
    <3> QED
      BY <1>1, <3>1 DEF LInv, Shape
  <2>4. \A j \in DOMAIN output : output[j].span \in {NoSpan} \cup DOMAIN spans
    <3>1. \A j \in DOMAIN output : output[j].signal \in {"traces", "logs"}
      BY <2>1 DEF Sent
    <3> QED
      BY <1>1, <3>1 DEF LInv, SentClosed
  <2>5. /\ config \in Configs /\ closing \in [Threads -> {NoSpan} \cup DOMAIN spans]
        /\ \A s \in DOMAIN spans :
             spans[s].slot \in {"closing", "closed"} <=> \E t \in Threads : closing[t] = s
    BY <1>1 DEF LInv, Shape, SlotsCounted
  <2> QED
    BY <2>2, <2>3, <2>4, <2>5 DEF TypeOK
<1> QED
  BY <1>1, LayerInvariance, PTL

\* Nothing is sent of a span, of its children or in it after it was sent
\* (src/otlp_layer.rs, on_close and on_event).
THEOREM SentLast == Spec => []SpanIsLast
<1>1. LInv => SpanIsLast
  BY DEF LInv
<1> QED
  BY <1>1, LayerInvariance, PTL

\* What was sent of a span has all its fields, whatever was recorded by whom
\* (src/otlp_layer.rs, on_record and on_close).
THEOREM SentComplete == Spec => []ExportedComplete
<1>1. LInv => ExportedComplete
  BY DEF LInv, SentClosed, ExportedComplete
<1> QED
  BY <1>1, LayerInvariance, PTL

-----------------------------------------------------------------------------
(***************************************************************************)
(* Trees: the decision is taken where a span is opened, and followed where *)
(* it is sent.  Both are local, and RootOf is not: that the decision is    *)
(* the root's is shown by induction over the spans.                        *)
(***************************************************************************)
\* What a thread does to the layer, with any trace id.
Act(t) ==
  \/ \E parent \in {NoSpan} \cup DOMAIN spans, given \in [way : Ways, trace : TraceIds] :
       NewSpan(t, parent, given)
  \/ \E s \in DOMAIN spans : Record(t, s) \/ Enter(t, s) \/ Exit(t, s) \/ DropHandle(t, s)
  \/ Event(t) \/ Close(t) \/ Clear(t)

\* A span is sampled as its parent is, and a root by its trace id.
Inherited ==
  \A s \in DOMAIN spans : spans[s].sampled <=> Sampled(spans[s].parent, spans[s].trace)

\* A closed span was sent if it is sampled, and nothing else was.
ClosedSent ==
  \A s \in DOMAIN spans :
    spans[s].slot \in {"closed", "cleared"} =>
      (Exported(s) <=> config.traces /\ spans[s].sampled)

\* A log was sent if the span it is in is sampled.
LogsFollow ==
  /\ events \in Seq([span : {NoSpan} \cup DOMAIN spans, log : BOOLEAN])
  /\ \A e \in DOMAIN events :
       events[e].log <=>
         config.logs /\ (events[e].span # NoSpan => spans[events[e].span].sampled)

\* What was sent of a span has its trace id.
SentTraces ==
  \A j \in DOMAIN output :
    output[j].signal = "traces" => output[j].trace = spans[output[j].span].trace

WholeInv == LInv /\ Inherited /\ ClosedSent /\ LogsFollow /\ SentTraces

\* A span keeps its parent, its trace id and the decision about it.
Kept ==
  \A x \in DOMAIN spans :
    /\ x \in DOMAIN spans' /\ spans'[x].parent = spans[x].parent
    /\ spans'[x].trace = spans[x].trace /\ spans'[x].sampled = spans[x].sampled

LEMMA ActStep ==
  ASSUME LayerAssumption, LInv, NEW t \in Threads, Act(t)
  PROVE  LInv'
  BY NewSpanStep, RecordStep, EnterStep, ExitStep, DropHandleStep, EventStep, CloseStep, ClearStep DEF Act

LEMMA ActKeeps ==
  ASSUME LInv, NEW t \in Threads, Act(t)
  PROVE  Kept /\ UNCHANGED config
<1>1. /\ spans \in Seq(SpanFields) /\ DOMAIN spans = 1..Len(spans) /\ Len(spans) \in Nat
      /\ \A x \in DOMAIN spans : spans[x] \in SpanFields
  BY DEF LInv, Shape
<1>2. ASSUME NEW parent, NEW given, NewSpan(t, parent, given)
      PROVE  Kept /\ UNCHANGED config
  <2>1. PICK f : spans' = Append(spans, f)
    BY <1>2 DEF NewSpan
  <2>2. \A x \in DOMAIN spans : x \in DOMAIN spans' /\ spans'[x] = spans[x]
    BY <1>1, <2>1
  <2> QED
    BY <1>2, <2>2 DEF Kept, NewSpan
<1>3. ASSUME NEW s \in DOMAIN spans, Record(t, s)
      PROVE  Kept /\ UNCHANGED config
  BY <1>1, <1>3 DEF Record, Kept, SpanFields
<1>4. ASSUME NEW s \in DOMAIN spans, Enter(t, s) \/ Exit(t, s)
      PROVE  Kept /\ UNCHANGED config
  BY <1>4 DEF Enter, Exit, Kept
<1>5. ASSUME NEW s \in DOMAIN spans, DropHandle(t, s)
      PROVE  Kept /\ UNCHANGED config
  <2>1. PICK slot : spans' = [spans EXCEPT ![s].held = FALSE, ![s].slot = slot]
    BY <1>5 DEF DropHandle
  <2>2. PICK f \in SpanFields : f = spans[s]
    BY <1>1
  <2>3. /\ DOMAIN spans' = DOMAIN spans /\ \A x \in DOMAIN spans : x # s => spans'[x] = spans[x]
        /\ spans'[s] = [f EXCEPT !.held = FALSE, !.slot = slot]
    BY <2>1, <2>2
  <2>4. spans'[s].parent = f.parent /\ spans'[s].trace = f.trace /\ spans'[s].sampled = f.sampled
    BY ONLY <2>3, f \in SpanFields DEF SpanFields
  <2> QED
    BY <1>5, <2>2, <2>3, <2>4 DEF Kept, DropHandle
<1>6. CASE Event(t)
  BY <1>6 DEF Event, Kept
<1>7. CASE Close(t)
  <2>1. PICK s : spans' = [spans EXCEPT ![s].slot = "closed"]
    BY <1>7 DEF Close
  <2> QED
    BY <1>1, <1>7, <2>1 DEF Close, Kept, SpanFields
<1>8. CASE Clear(t)
  <2>1. \A x \in DOMAIN spans :
          \/ spans'[x] = [spans[x] EXCEPT !.slot = "cleared"]
          \/ spans'[x] = [spans[x] EXCEPT !.slot = "closing"]
          \/ spans'[x] = spans[x]
    BY <1>8 DEF Clear
  <2>2. DOMAIN spans' = DOMAIN spans /\ UNCHANGED config
    BY <1>8 DEF Clear
  <2> QED
    BY <1>1, <2>1, <2>2 DEF Kept, SpanFields
<1> QED
  BY <1>2, <1>3, <1>4, <1>5, <1>6, <1>7, <1>8 DEF Act

\* What a new span is, and that the others stay.
Created(n, parent, given) ==
  /\ n \notin DOMAIN spans /\ DOMAIN spans' = DOMAIN spans \cup {n}
  /\ spans'[n].parent = parent /\ spans'[n].trace = TraceOf(given)
  /\ (spans'[n].sampled <=> Sampled(parent, TraceOf(given))) /\ spans'[n].slot = "open"
  /\ \A x \in DOMAIN spans : spans'[x] = spans[x]

LEMMA NewSpanIs ==
  ASSUME LInv, NEW t \in Threads, NEW parent, NEW given, NewSpan(t, parent, given),
         NEW n, n = Len(spans) + 1
  PROVE  Created(n, parent, given)
<1>1. spans \in Seq(SpanFields) /\ DOMAIN spans = 1..Len(spans) /\ Len(spans) \in Nat
  BY DEF LInv, Shape
<1>2. PICK f : /\ spans' = Append(spans, f) /\ f.parent = parent /\ f.trace = TraceOf(given)
               /\ f.sampled = Sampled(parent, TraceOf(given)) /\ f.slot = "open"
  BY DEF NewSpan
<1>3. DOMAIN spans' = 1..n /\ spans'[n] = f /\ \A x \in DOMAIN spans : spans'[x] = spans[x]
  BY <1>1, <1>2
<1> QED
  BY <1>1, <1>2, <1>3 DEF Created

\* Only a new span adds to the spans, and only the thread that closes one sends it.
LEMMA OtherAct ==
  ASSUME LInv, NEW t \in Threads, Act(t),
         ~\E parent, given : NewSpan(t, parent, given)
  PROVE  DOMAIN spans' = DOMAIN spans
  BY DEF Act, Record, Enter, Exit, DropHandle, Event, Close, Clear

\* A new span takes over the decision; all others have kept theirs.
LEMMA InheritedStep ==
  ASSUME WholeInv, NEW t \in Threads, Act(t), Kept, UNCHANGED config
  PROVE  Inherited'
<1>1. \A x \in DOMAIN spans : spans[x].parent \in {NoSpan} \cup DOMAIN spans
  BY DEF WholeInv, LInv, Shape, NoSpan
<1>2. ASSUME NEW p \in {NoSpan} \cup DOMAIN spans, NEW trace
      PROVE  Sampled(p, trace)' = Sampled(p, trace)
  BY DEF Sampled, ShouldSample, Kept
<1>3. ASSUME NEW x \in DOMAIN spans
      PROVE  spans'[x].sampled <=> Sampled(spans[x].parent, spans[x].trace)'
  <2>1. PICK p, trace : p = spans[x].parent /\ trace = spans[x].trace
    OBVIOUS
  <2>2. spans'[x].parent = p /\ spans'[x].trace = trace /\ spans'[x].sampled = spans[x].sampled
    BY <2>1 DEF Kept
  <2>3. Sampled(p, trace)' = Sampled(p, trace)
    BY <1>1, <1>2, <2>1
  <2>4. spans[x].sampled <=> Sampled(p, trace)
    BY <2>1 DEF WholeInv, Inherited
  <2>5. Sampled(spans[x].parent, spans[x].trace)' = Sampled(p, trace)'
    BY <2>2 DEF Sampled, ShouldSample
  <2> QED
    BY <2>2, <2>3, <2>4, <2>5, Zenon
<1>4. CASE \E parent, given : NewSpan(t, parent, given)
  <2>1. PICK parent, given : NewSpan(t, parent, given)
    BY <1>4
  <2>2. PICK n : n = Len(spans) + 1
    OBVIOUS
  <2>3. PICK trace : trace = TraceOf(given)
    OBVIOUS
  <2>4. /\ DOMAIN spans' = DOMAIN spans \cup {n} /\ spans'[n].parent = parent
        /\ spans'[n].trace = trace /\ (spans'[n].sampled <=> Sampled(parent, trace))
    <3>1. LInv
      BY DEF WholeInv
    <3>0. Created(n, parent, given)
      BY ONLY <2>1, <2>2, <3>1, NewSpanIs, t \in Threads
    <3>2. /\ DOMAIN spans' = DOMAIN spans \cup {n} /\ spans'[n].parent = parent
          /\ spans'[n].trace = TraceOf(given)
      BY ONLY <3>0 DEF Created
    <3>4. spans'[n].sampled <=> Sampled(parent, TraceOf(given))
      BY ONLY <3>0, Zenon DEF Created
    <3>3. Sampled(parent, TraceOf(given)) = Sampled(parent, trace)
      BY <2>3 DEF Sampled, ShouldSample
    <3> QED
      BY <2>3, <3>2, <3>3, <3>4, Zenon
  <2>5. parent \in {NoSpan} \cup DOMAIN spans
    BY <2>1, CurrentHeld DEF NewSpan, WholeInv
  <2>6. Sampled(parent, trace)' = Sampled(parent, trace)
    BY <1>2, <2>5
  <2>7. Sampled(spans[n].parent, spans[n].trace)' = Sampled(parent, trace)'
    BY <2>4 DEF Sampled, ShouldSample
  <2>8. spans'[n].sampled <=> Sampled(spans[n].parent, spans[n].trace)'
    BY <2>4, <2>6, <2>7, Zenon
  <2> QED
    BY <1>3, <2>4, <2>8 DEF Inherited
<1>5. CASE ~\E parent, given : NewSpan(t, parent, given)
  <2>1. DOMAIN spans' = DOMAIN spans
    BY <1>5, OtherAct DEF WholeInv
  <2> QED
    BY <1>3, <2>1 DEF Inherited
<1> QED
  BY <1>4, <1>5

\* A call adds one message to the output.
LEMMA OutputAppended ==
  ASSUME LInv, NEW m, output' = Append(output, m)
  PROVE  /\ \A x : Exported(x)' <=> Exported(x) \/ (m.signal = "traces" /\ m.span = x)
         /\ \A j \in DOMAIN output' : output'[j] = m \/ (j \in DOMAIN output /\ output'[j] = output[j])
<1>1. output \in Seq(Sent) /\ Len(output) \in Nat /\ DOMAIN output = 1..Len(output)
  BY DEF LInv, Shape
<1>2. /\ DOMAIN output' = 1..(Len(output) + 1) /\ output'[Len(output) + 1] = m
      /\ \A j \in DOMAIN output : output'[j] = output[j]
  BY <1>1
<1>3. Len(output) + 1 \in DOMAIN output' /\ DOMAIN output \subseteq DOMAIN output'
      /\ \A j \in DOMAIN output' : j = Len(output) + 1 \/ j \in DOMAIN output
  BY <1>1, <1>2
<1> QED
  BY <1>2, <1>3 DEF Exported

\* A span that closes is sent then, and not before: a span that was sent is closed.
LEMMA ClosedStep ==
  ASSUME LayerAssumption, WholeInv, NEW t \in Threads, Act(t), Kept, UNCHANGED config
  PROVE  ClosedSent'
<1> DEFINE Ended(x) == spans[x].slot \in {"closed", "cleared"}
           Decided(x) == Ended(x) => (Exported(x) <=> config.traces /\ spans[x].sampled)
<1>1. \A x \in DOMAIN spans : Decided(x)
  BY DEF WholeInv, ClosedSent
<1>2. /\ \A x \in DOMAIN spans : spans[x] \in SpanFields
      /\ spans \in Seq(SpanFields)
  BY DEF WholeInv, LInv, Shape
<1>3. ASSUME UNCHANGED output, NEW x \in DOMAIN spans, Ended(x)' => Ended(x)
      PROVE  Decided(x)'
  <2>1. Exported(x)' <=> Exported(x)
    BY <1>3 DEF Exported
  <2>2. spans'[x].sampled = spans[x].sampled
    BY DEF Kept
  <2> QED
    BY <1>1, <1>3, <2>1, <2>2
<1>4. CASE \E parent, given : NewSpan(t, parent, given)
  <2>1. PICK parent, given : NewSpan(t, parent, given)
    BY <1>4
  <2>2. PICK n : n = Len(spans) + 1
    OBVIOUS
  <2>3. /\ DOMAIN spans' = DOMAIN spans \cup {n} /\ spans'[n].slot = "open"
        /\ \A x \in DOMAIN spans : spans'[x] = spans[x]
    <3>1. Created(n, parent, given)
      BY <2>1, <2>2, NewSpanIs DEF WholeInv
    <3> QED
      BY ONLY <3>1 DEF Created
  <2>4. UNCHANGED output
    BY <2>1 DEF NewSpan
  <2>5. \A x \in DOMAIN spans : Decided(x)'
    BY <1>3, <2>3, <2>4
  <2>6. Decided(n)'
    BY <2>3
  <2> QED
    BY <2>3, <2>5, <2>6 DEF ClosedSent
<1>5. ASSUME NEW s \in DOMAIN spans, Record(t, s) \/ Enter(t, s) \/ Exit(t, s)
      PROVE  ClosedSent'
  <2>1. UNCHANGED output /\ DOMAIN spans' = DOMAIN spans
    BY <1>5 DEF Record, Enter, Exit
  <2>2. \A x \in DOMAIN spans : spans'[x].slot = spans[x].slot
    <3>1. CASE Record(t, s)
      BY <1>2, <3>1 DEF Record, SpanFields
    <3>2. CASE UNCHANGED spans
      BY <3>2
    <3> QED
      BY <1>5, <3>1, <3>2 DEF Enter, Exit
  <2> QED
    BY <1>3, <2>1, <2>2 DEF ClosedSent
<1>6. ASSUME NEW s \in DOMAIN spans, DropHandle(t, s)
      PROVE  ClosedSent'
  <2>1. UNCHANGED output /\ DOMAIN spans' = DOMAIN spans
    BY <1>6 DEF DropHandle
  <2>2. PICK slot : /\ spans' = [spans EXCEPT ![s].held = FALSE, ![s].slot = slot]
                    /\ slot \in {"closing", spans[s].slot}
    BY <1>2, <1>6 DEF DropHandle
  <2>3. PICK f \in SpanFields : f = spans[s]
    BY <1>2
  <2>4. spans'[s] = [f EXCEPT !.held = FALSE, !.slot = slot]
    BY <2>2, <2>3
  <2>5. spans'[s].slot = slot
    BY ONLY <2>4, f \in SpanFields DEF SpanFields
  <2>6. \A x \in DOMAIN spans : x # s => spans'[x] = spans[x]
    BY <2>2
  <2>7. \A x \in DOMAIN spans : Ended(x)' => Ended(x)
    BY <2>2, <2>5, <2>6
  <2> QED
    BY <1>3, <2>1, <2>7 DEF ClosedSent
<1>7. CASE Event(t)
  <2>1. UNCHANGED <<spans, config>>
    BY <1>7 DEF Event
  <2>2. \A x \in DOMAIN spans : Exported(x)' <=> Exported(x)
    <3>1. CASE UNCHANGED output
      BY <3>1 DEF Exported
    <3>2. CASE output' = Append(output, LogData(Current(t)))
      <4>1. LogData(Current(t)).signal = "logs"
        BY DEF LogData
      <4> QED
        BY <3>2, <4>1, OutputAppended DEF WholeInv
    <3> QED
      BY <1>7, <3>1, <3>2 DEF Event
  <2> QED
    BY <1>1, <2>1, <2>2 DEF ClosedSent
<1>8. CASE Close(t)
  <2>1. PICK s \in DOMAIN spans : s = closing[t] /\ spans[s].slot = "closing"
    BY <1>8, ClosingSpan DEF Close, WholeInv
  <2>2. /\ spans' = [spans EXCEPT ![s].slot = "closed"]
        /\ output' = IF config.traces /\ spans[s].sampled THEN Append(output, SpanData(s)) ELSE output
    BY <1>8, <2>1 DEF Close
  <2>3. /\ DOMAIN spans' = DOMAIN spans /\ \A x \in DOMAIN spans : x # s => spans'[x] = spans[x]
    BY <2>2
  <2>4. ~Exported(s)
    BY <2>1 DEF WholeInv, LInv, SentClosed, Exported
  <2>5. \A x : Exported(x)' <=> Exported(x) \/ (config.traces /\ spans[s].sampled /\ x = s)
    <3>1. CASE config.traces /\ spans[s].sampled
      <4>1. SpanData(s).signal = "traces" /\ SpanData(s).span = s
        BY DEF SpanData
      <4> QED
        BY <2>2, <3>1, <4>1, OutputAppended DEF WholeInv
    <3>2. CASE ~(config.traces /\ spans[s].sampled)
      BY <2>2, <3>2 DEF Exported
    <3> QED
      BY <3>1, <3>2
  <2>6. Decided(s)'
    BY <2>1, <2>4, <2>5 DEF Kept
  <2>7. \A x \in DOMAIN spans : x # s => Decided(x)'
    BY <1>1, <2>3, <2>5
  <2> QED
    BY <2>3, <2>6, <2>7 DEF ClosedSent
<1>9. CASE Clear(t)
  <2>1. PICK s \in DOMAIN spans : s = closing[t] /\ spans[s].slot = "closed"
    BY <1>9, ClosingSpan DEF Clear, WholeInv
  <2>2. \A x \in DOMAIN spans :
          \/ x = s
          \/ spans'[x] = [spans[x] EXCEPT !.slot = "closing"]
          \/ spans'[x] = spans[x]
    BY <1>9, <2>1 DEF Clear
  <2>3. UNCHANGED output /\ DOMAIN spans' = DOMAIN spans
    BY <1>9 DEF Clear
  <2>4. \A x \in DOMAIN spans : Ended(x)' => Ended(x)
    BY <1>2, <2>1, <2>2 DEF SpanFields
  <2> QED
    BY <1>3, <2>3, <2>4 DEF ClosedSent
<1> QED
  BY <1>4, <1>5, <1>6, <1>7, <1>8, <1>9 DEF Act

\* An event asks the span its thread is in, whose decision does not change.
LEMMA LogsStep ==
  ASSUME LayerAssumption, WholeInv, NEW t \in Threads, Act(t), Kept, UNCHANGED config
  PROVE  LogsFollow'
<1> DEFINE Spans == {NoSpan} \cup DOMAIN spans
           Follows(e) == e.log <=> config.logs /\ (e.span # NoSpan => spans[e.span].sampled)
           Entry == [span : Spans, log : BOOLEAN]
<1>1. events \in Seq(Entry) /\ \A j \in DOMAIN events : Follows(events[j])
  BY DEF WholeInv, LogsFollow
<1>2. \A e \in Entry : Follows(e)' <=> Follows(e)
  BY DEF Kept
<1>3. Spans \subseteq Spans'
  BY DEF Kept
<1>4. \A j \in DOMAIN events : events[j] \in Entry
  <2> HIDE DEF Entry
  <2> QED
    BY <1>1
<1>5. CASE UNCHANGED events
  <2>1. Entry \subseteq Entry'
    BY <1>3
  <2>2. events' \in Seq(Entry')
    <3>1. \A A, B : A \subseteq B => Seq(A) \subseteq Seq(B)
      OBVIOUS
    <3> HIDE DEF Entry
    <3> QED
      BY <1>1, <1>5, <2>1, <3>1
  <2> QED
    BY <1>1, <1>2, <1>4, <1>5, <2>2 DEF LogsFollow
<1>6. CASE Event(t)
  <2>0. PICK b \in BOOLEAN : b = (config.logs /\ (Current(t) # NoSpan => spans[Current(t)].sampled))
    OBVIOUS
  <2>1. PICK e : events' = Append(events, e) /\ e = [span |-> Current(t), log |-> b]
    BY <1>6, <2>0 DEF Event
  <2>2. e \in Entry /\ Follows(e)
    <3>1. Current(t) \in Spans
      BY CurrentHeld DEF WholeInv
    <3>2. e \in Entry /\ e.span = Current(t) /\ e.log = b
      BY <2>1, <3>1
    <3> QED
      BY <2>0, <3>2
  <2>3. UNCHANGED spans
    BY <1>6 DEF Event
  <2>4. events' \in Seq(Entry) /\ \A j \in DOMAIN events' : events'[j] = e \/ \E k \in DOMAIN events : events'[j] = events[k]
    <3> HIDE DEF Entry
    <3> QED
      BY <1>1, <2>1, <2>2
  <2>5. \A j \in DOMAIN events' : Follows(events'[j])
    <3> HIDE DEF Follows
    <3> QED
      BY <1>1, <2>2, <2>4
  <2> QED
    BY <2>3, <2>4, <2>5 DEF LogsFollow
<1>7. CASE ~Event(t)
  <2>1. UNCHANGED events
    BY <1>7 DEF Act, NewSpan, Record, Enter, Exit, DropHandle, Close, Clear
  <2> QED
    BY <1>5, <2>1
<1> QED
  BY <1>6, <1>7

\* A span is sent with its trace id, which it keeps.
LEMMA SentTracesStep ==
  ASSUME LInv, SentTraces, NEW t \in Threads, Act(t), Kept
  PROVE  SentTraces'
<1> DEFINE True(m) == m.signal = "traces" => m.trace = spans[m.span].trace
<1>1. \A j \in DOMAIN output : output[j].signal = "traces" => output[j].span \in DOMAIN spans
  BY DEF LInv, SentClosed
<1>2. ASSUME NEW m, \E j \in DOMAIN output : m = output[j]
      PROVE  True(m)'
  <2>1. m.signal = "traces" => m.span \in DOMAIN spans /\ m.trace = spans[m.span].trace
    BY <1>1, <1>2 DEF SentTraces
  <2> QED
    BY <2>1 DEF Kept
<1>3. CASE UNCHANGED output
  BY <1>2, <1>3 DEF SentTraces
<1>4. ASSUME NEW m, output' = Append(output, m), True(m)'
      PROVE  SentTraces'
  BY <1>2, <1>4, OutputAppended DEF SentTraces
<1>5. CASE Event(t)
  <2>1. PICK m : m = LogData(Current(t))
    OBVIOUS
  <2>2. m.signal = "logs" /\ (output' = Append(output, m) \/ UNCHANGED output)
    BY <1>5, <2>1 DEF Event, LogData
  <2> QED
    BY <1>3, <1>4, <2>2
<1>6. CASE Close(t)
  <2>1. PICK s \in DOMAIN spans : s = closing[t]
    BY <1>6, ClosingSpan DEF Close
  <2>2. PICK m : m = SpanData(s)
    OBVIOUS
  <2>3. m.span = s /\ m.trace = spans[s].trace /\ (output' = Append(output, m) \/ UNCHANGED output)
    BY <1>6, <2>1, <2>2 DEF Close, SpanData
  <2>4. m.trace = spans'[s].trace
    BY <2>3 DEF Kept
  <2> QED
    BY <1>3, <1>4, <2>3, <2>4
<1>7. CASE ~Event(t) /\ ~Close(t)
  BY <1>3, <1>7 DEF Act, NewSpan, Record, Enter, Exit, DropHandle, Clear
<1> QED
  BY <1>5, <1>6, <1>7

LEMMA WholeInit ==
  ASSUME Init PROVE WholeInv
<1>1. DOMAIN spans = {} /\ DOMAIN output = {} /\ DOMAIN events = {} /\ events = <<>>
  BY DEF Init
<1>2. LogsFollow
  BY <1>1 DEF LogsFollow
<1> QED
  BY <1>1, <1>2, LayerInit DEF WholeInv, Inherited, ClosedSent, SentTraces

LEMMA WholeNext ==
  ASSUME LayerAssumption, WholeInv, [Next]_vars
  PROVE  WholeInv'
<1>1. CASE UNCHANGED vars
  <2>1. LInv'
    BY <1>1, LayerNext DEF WholeInv
  <2>2. Inherited' /\ ClosedSent'
    BY <1>1 DEF vars, WholeInv, Inherited, ClosedSent, Sampled, ShouldSample, Exported
  <2>3. LogsFollow' /\ SentTraces'
    BY <1>1 DEF vars, WholeInv, LogsFollow, SentTraces
  <2> QED
    BY <2>1, <2>2, <2>3 DEF WholeInv
<1>2. ASSUME NEW t \in Threads, ThreadStep(t)
      PROVE  WholeInv'
  <2>1. Act(t)
    <3>1. Givens \subseteq [way : Ways, trace : TraceIds]
      BY DEF LayerAssumption, TraceIds
    <3> QED
      BY <1>2, <3>1 DEF ThreadStep, Act
  <2>2. LInv' /\ Kept /\ UNCHANGED config
    BY <2>1, ActStep, ActKeeps DEF WholeInv
  <2>3. Inherited'
    BY <2>1, <2>2, InheritedStep
  <2>4. ClosedSent'
    BY <2>1, <2>2, ClosedStep
  <2>5. LogsFollow'
    BY <2>1, <2>2, LogsStep
  <2>6. SentTraces'
    BY <2>1, <2>2, SentTracesStep DEF WholeInv
  <2> QED
    BY <2>2, <2>3, <2>4, <2>5, <2>6 DEF WholeInv
<1> QED
  BY <1>1, <1>2 DEF Next, Terminated

\* Where parents come first, every node has a root.
LEMMA RootsExist ==
  ASSUME NEW n \in Nat, NEW p \in [1..n -> Nat], \A s \in 1..n : p[s] < s
  PROVE  \E f : f = [s \in 1..n |-> IF p[s] = 0 THEN s ELSE f[p[s]]]
<1> DEFINE Roots(m, f) == \A s \in 1..m : f[s] = IF p[s] = 0 THEN s ELSE f[p[s]]
           S == {m \in Nat : m <= n => \E f \in [1..m -> Nat] : Roots(m, f)}
<1>1. 0 \in S
  <2>1. \A f : Roots(0, f)
    OBVIOUS
  <2>2. [s \in 1..0 |-> 0] \in [1..0 -> Nat]
    OBVIOUS
  <2> QED
    BY <2>1, <2>2
<1>2. ASSUME NEW m \in Nat, m \in S
      PROVE  m + 1 \in S
  <2> SUFFICES ASSUME m + 1 <= n PROVE \E f \in [1..(m + 1) -> Nat] : Roots(m + 1, f)
    OBVIOUS
  <2>1. PICK f \in [1..m -> Nat] : Roots(m, f)
    BY <1>2
  <2> DEFINE g == [s \in 1..(m + 1) |-> IF s <= m THEN f[s] ELSE IF p[s] = 0 THEN s ELSE f[p[s]]]
  <2>2. \A s \in 1..(m + 1) : p[s] = 0 \/ p[s] \in 1..m
    OBVIOUS
  <2>3. g \in [1..(m + 1) -> Nat]
    BY <2>2
  <2>4. Roots(m + 1, g)
    <3> SUFFICES ASSUME NEW s \in 1..(m + 1) PROVE g[s] = IF p[s] = 0 THEN s ELSE g[p[s]]
      OBVIOUS
    <3>1. p[s] # 0 => p[s] \in 1..m /\ g[p[s]] = f[p[s]]
      BY <2>2
    <3>2. CASE s <= m
      <4>1. f[s] = IF p[s] = 0 THEN s ELSE f[p[s]]
        BY <2>1, <3>2
      <4> QED
        BY <3>1, <3>2, <4>1
    <3>3. CASE ~(s <= m)
      BY <3>1, <3>3
    <3> QED
      BY <3>2, <3>3
  <2> QED
    BY <2>3, <2>4
<1>3. n \in S
  <2> HIDE DEF S
  <2> QED
    BY <1>1, <1>2, InductionOverSets
<1>4. PICK f \in [1..n -> Nat] : Roots(n, f)
  BY <1>3
<1>5. f = [s \in 1..n |-> IF p[s] = 0 THEN s ELSE f[p[s]]]
  BY <1>4
<1> QED
  BY <1>5

\* So RootOf is what its definition says.
LEMMA RootOfIs ==
  ASSUME LInv
  PROVE  \A s \in DOMAIN spans :
           RootOf[s] = IF spans[s].parent = NoSpan THEN s ELSE RootOf[spans[s].parent]
<1>1. PICK n \in Nat : DOMAIN spans = 1..n /\ \A s \in 1..n : spans[s].parent \in 0..(s - 1)
  BY DEF LInv, Shape
<1>2. PICK p : p = [s \in 1..n |-> spans[s].parent]
  OBVIOUS
<1>3. p \in [1..n -> Nat] /\ \A s \in 1..n : p[s] < s
  BY <1>1, <1>2
<1>4. PICK f : f = [s \in 1..n |-> IF p[s] = 0 THEN s ELSE f[p[s]]]
  BY <1>3, RootsExist
<1>5. f = [s \in DOMAIN spans |-> IF spans[s].parent = NoSpan THEN s ELSE f[spans[s].parent]]
  BY <1>1, <1>2, <1>4 DEF NoSpan
<1>6. RootOf = [s \in DOMAIN spans |-> IF spans[s].parent = NoSpan THEN s ELSE RootOf[spans[s].parent]]
  BY <1>5, Zenon DEF RootOf
<1> QED
  BY <1>6

\* The decision about a span is that of its root: take the first where it is not.
LEMMA SampledAsRoot ==
  ASSUME LInv, Inherited
  PROVE  \A s \in DOMAIN spans : spans[s].sampled <=> ShouldSample(spans[RootOf[s]].trace)
<1> DEFINE Agrees(s) == spans[s].sampled <=> ShouldSample(spans[RootOf[s]].trace)
           T == {s \in DOMAIN spans : ~Agrees(s)}
<1>1. /\ DOMAIN spans \subseteq Nat \ {0}
      /\ \A s \in DOMAIN spans : spans[s].parent \in {NoSpan} \cup DOMAIN spans /\ spans[s].parent < s
  BY DEF LInv, Shape, NoSpan
<1>2. ASSUME T # {} PROVE FALSE
  <2>1. PICK s \in T : \A r \in T : s <= r
    <3>1. T \subseteq Nat
      BY <1>1
    <3> HIDE DEF T
    <3> QED
      BY <1>2, <3>1, Least
  <2>2. spans[s].sampled <=> Sampled(spans[s].parent, spans[s].trace)
    BY DEF Inherited
  <2>3. CASE spans[s].parent = NoSpan
    <3>1. RootOf[s] = s
      BY <2>3, RootOfIs
    <3> QED
      BY <2>2, <2>3, <3>1 DEF Sampled
  <2>4. CASE spans[s].parent # NoSpan
    <3>1. PICK p \in DOMAIN spans : p = spans[s].parent /\ p < s
      BY <1>1, <2>4
    <3>2. Agrees(p)
      <4>1. p \notin T
        BY <1>1, <2>1, <3>1
      <4> QED
        BY <4>1
    <3>3. RootOf[s] = RootOf[p]
      BY <2>4, <3>1, RootOfIs
    <3>4. spans[s].sampled <=> spans[p].sampled
      BY <2>2, <2>4, <3>1 DEF Sampled
    <3> QED
      BY <3>2, <3>3, <3>4
  <2> QED
    BY <2>3, <2>4
<1> QED
  BY <1>2

\* A tree of spans is exported whole or not at all, and the logs in it too,
\* whichever threads open, close and log (src/otlp_layer.rs, on_new_span,
\* on_close and on_event).
THEOREM TreesTogether == Spec => []TreesWhole
<1>1. Init => WholeInv
  BY WholeInit
<1>2. WholeInv /\ [Next]_vars => WholeInv'
  BY LayerAssumption, WholeNext
<1>3. ASSUME WholeInv PROVE TreesWhole
  <2>1. \A s \in DOMAIN spans : spans[s].sampled <=> ShouldSample(spans[RootOf[s]].trace)
    BY <1>3, SampledAsRoot DEF WholeInv
  <2>2. \A s \in DOMAIN spans :
          spans[s].slot \in {"closed", "cleared"} =>
            (Exported(s) <=> config.traces /\ ShouldSample(spans[RootOf[s]].trace))
    BY <1>3, <2>1 DEF WholeInv, ClosedSent
  <2>3. \A e \in DOMAIN events :
          /\ events[e].span # NoSpan => events[e].span \in DOMAIN spans
          /\ events[e].log <=> config.logs /\ (events[e].span # NoSpan => spans[events[e].span].sampled)
    <3>1. \A e \in DOMAIN events : events[e] \in [span : {NoSpan} \cup DOMAIN spans, log : BOOLEAN]
      <4>1. \A S, q : q \in Seq(S) => \A e \in DOMAIN q : q[e] \in S
        OBVIOUS
      <4> QED
        BY <1>3, <4>1, Zenon DEF WholeInv, LogsFollow
    <3> QED
      BY <1>3, <3>1 DEF WholeInv, LogsFollow
  <2> QED
    BY <2>1, <2>2, <2>3 DEF TreesWhole
<1> QED
  BY <1>1, <1>2, <1>3, PTL DEF Spec

=============================================================================
