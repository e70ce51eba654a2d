----------------------------- MODULE OtlpEncoding -----------------------------
(***************************************************************************)
(* How a payload comes about.  A request is written into a buffer, its     *)
(* nested messages in place: encode_message_field_in_place of src/proto.rs *)
(* writes the tag and room for the length, lets the closure write the      *)
(* body, and moves the body back over the room that its length leaves.     *)
(* The exporter concatenates the requests of a batch (src/exporter.rs:346) *)
(* and a collector reads them as one message (OtlpReader).                 *)
(***************************************************************************)
EXTENDS OtlpMessages

CONSTANTS
  Requests, \* the requests that threads have encoded
  MaxBatch  \* bound: requests in a payload

ASSUME EncodingAssumption == Requests \subseteq Request /\ MaxBatch \in Nat

VARIABLES
  buf,     \* the Vec<u8> that is written to
  todo,    \* the writes that the innermost open message still makes
  open,    \* the messages that are open, innermost last
  batch,   \* history: the requests of the payload, the one being written last
  payload  \* the requests that are written, concatenated

vars == <<buf, todo, open, batch, payload>>

Idle == todo = <<>> /\ open = <<>>

Init == buf = <<>> /\ todo = <<>> /\ open = <<>> /\ batch = <<>> /\ payload = <<>>

\* encode_export_*_request begins with an empty buffer; a batch has one signal.
Begin(request) ==
  /\ Idle /\ buf = <<>> /\ Len(batch) < MaxBatch
  /\ batch # <<>> => request.signal = Head(batch).signal
  /\ todo' = EncodeExportRequest(request)
  /\ batch' = Append(batch, request)
  /\ UNCHANGED <<buf, open, payload>>

WriteBytes ==
  /\ todo # <<>> /\ Head(todo).field = 0
  /\ buf' = buf \o Head(todo).bytes
  /\ todo' = Tail(todo)
  /\ UNCHANGED <<open, batch, payload>>

\* Mutant: room is made for the usual length of one group.
OpenWithLittleRoom ==
  /\ todo # <<>> /\ Head(todo).field # 0
  /\ LET tagged == buf \o EncodeTag(Head(todo).field, LengthDelimited)
     IN  /\ buf' = tagged \o <<0>>
         /\ open' = Append(open, [field |-> Head(todo).field, start |-> Len(buf),
                                  tag_end |-> Len(tagged), rest |-> Tail(todo)])
  /\ todo' = Head(todo).body
  /\ UNCHANGED <<batch, payload>>

\* The tag, and zeros where the length will be; then the closure is called.
OpenMessage ==
  /\ todo # <<>> /\ Head(todo).field # 0
  /\ LET tagged == buf \o EncodeTag(Head(todo).field, LengthDelimited)
     IN  /\ buf' = tagged \o [i \in 1..MaxLenBytes |-> 0]
         /\ open' = Append(open, [field |-> Head(todo).field, start |-> Len(buf),
                                  tag_end |-> Len(tagged), rest |-> Tail(todo)])
  /\ todo' = Head(todo).body
  /\ UNCHANGED <<batch, payload>>

\* Mutant: the tag of an empty message is taken to have one byte more.
CloseCuttingBefore ==
  /\ todo = <<>> /\ open # <<>>
  /\ LET m == Last(open)
         body == SubSeq(buf, m.tag_end + MaxLenBytes + 1, Len(buf))
     IN  /\ buf' = IF body = <<>> THEN SubSeq(buf, 1, m.tag_end - VarintTagLen(m.field) - 1)
                   ELSE SubSeq(buf, 1, m.tag_end) \o EncodeVarint[Len(body)] \o body
         /\ todo' = m.rest /\ open' = Front(open)
  /\ UNCHANGED <<batch, payload>>

\* Mutant: an empty message keeps its tag.
CloseKeepingTag ==
  /\ todo = <<>> /\ open # <<>>
  /\ LET m == Last(open)
         body == SubSeq(buf, m.tag_end + MaxLenBytes + 1, Len(buf))
     IN  /\ buf' = IF body = <<>> THEN SubSeq(buf, 1, m.tag_end)
                   ELSE SubSeq(buf, 1, m.tag_end) \o EncodeVarint[Len(body)] \o body
         /\ todo' = m.rest /\ open' = Front(open)
  /\ UNCHANGED <<batch, payload>>

\* The closure has returned.  An empty message is taken back with its tag; of
\* another one the length is written and the body moved up to it.
CloseMessage ==
  /\ todo = <<>> /\ open # <<>>
  /\ LET m == Last(open)
         body == SubSeq(buf, m.tag_end + MaxLenBytes + 1, Len(buf))
     IN  /\ buf' = IF body = <<>> THEN SubSeq(buf, 1, m.tag_end - VarintTagLen(m.field))
                   ELSE SubSeq(buf, 1, m.tag_end) \o EncodeVarint[Len(body)] \o body
         /\ todo' = m.rest /\ open' = Front(open)
  /\ UNCHANGED <<batch, payload>>

\* The request is sent, and later drained from its batch into the payload.
Concatenate ==
  /\ Idle /\ buf # <<>>
  /\ payload' = payload \o buf /\ buf' = <<>>
  /\ UNCHANGED <<todo, open, batch>>

Terminated == Idle /\ buf = <<>> /\ Len(batch) = MaxBatch /\ UNCHANGED vars

Next ==
  \/ \E request \in Requests : Begin(request)
  \/ WriteBytes \/ OpenMessage \/ CloseMessage \/ Concatenate \/ Terminated

Spec == Init /\ [][Next]_vars

-----------------------------------------------------------------------------
\* The open messages nest, each with its tag and its room before the next one.
TypeOK ==
  /\ \A i \in DOMAIN buf : buf[i] \in 0..(2 * Base - 1)
  /\ \A i \in DOMAIN open :
       /\ open[i].start < open[i].tag_end
       /\ open[i].tag_end + MaxLenBytes <= IF i = Len(open) THEN Len(buf) ELSE open[i + 1].start
  /\ Len(batch) <= MaxBatch

\* encode_message_field of src/proto.rs:103: with a buffer for each message, the
\* bytes of writes of a depth.
Allocating[depth \in Nat] ==
  [writes \in Seq(Writes[depth]) |->
     FlattenSeq([i \in DOMAIN writes |->
       IF writes[i].field = 0 THEN writes[i].bytes
       ELSE EncodeBytesField(writes[i].field, Allocating[depth - 1][writes[i].body])])]

\* A request, its scope, an item, a metric's kind, a data point, an exemplar or an
\* attribute, its value.
Depth == 7

\* src/proto.rs:115 promises the same bytes without the buffers.
InPlaceMatchesAllocating ==
  Idle /\ buf # <<>> => buf = Allocating[Depth][EncodeExportRequest(Last(batch))]

\* While a message is written, nothing before it changes: the bytes that were
\* there when it was opened stay when its body is moved or it is taken back.
OuterBytesKept ==
  [][\A i \in DOMAIN open :
       LET before == open[i].start
       IN  Len(buf') >= before /\ SubSeq(buf', 1, before) = SubSeq(buf, 1, before)]_vars

=============================================================================
