----------------------------- MODULE OtlpMessages -----------------------------
(***************************************************************************)
(* The messages of src/otlp_trace.rs, src/otlp_log.rs and                  *)
(* src/otlp_metrics.rs.  An encoder is the sequence of writes it makes:    *)
(* bytes, or a nested message with the writes of its closure.  A Rust      *)
(* Option is a sequence of at most one element, a text a sequence of bytes *)
(* and an f64 the number of its bits.                                      *)
(***************************************************************************)
EXTENDS Proto

(***************************************************************************)
(* What is encoded.  An id is an array of some bytes; a collection has a   *)
(* metric only if it has data points, and a request one span, one log or   *)
(* the metrics of a collection that has any.                               *)
(***************************************************************************)
Id == Text \ {<<>>}
OneOrMore(S) == Seq(S) \ {<<>>}

AnyValue ==
  [kind : {"string", "bytes"}, value : Text] \cup [kind : {"int"}, value : I64]
    \cup [kind : {"bool"}, value : {0, 1}] \cup [kind : {"double"}, value : U64]
KeyValue == [key : Text, value : AnyValue]
SpanStatus == [message : Text, code : 0..2]
SpanData ==
  [trace_id : Id, span_id : Id, parent_span_id : Id, name : Text, kind : 0..5,
   start : U64, end : U64, attributes : Seq(KeyValue), status : Seq(SpanStatus)]
LogData ==
  [time : U64, severity_number : {1, 5, 9, 13, 17, 21}, severity_text : Text, body : AnyValue,
   attributes : Seq(KeyValue), trace_id : Id, span_id : Id]

Attrs == Seq([key : Text, value : Text])
ExemplarOf(kind, Value) ==
  [time : U64, kind : {kind}, value : Value, span_id : Id, trace_id : Id]
Exemplar == ExemplarOf("int", I64) \cup ExemplarOf("double", U64)
DataPoint(Value) == [attrs : Attrs, value : Value, exemplar : Seq(Exemplar)]
HistogramDataPoint ==
  [attrs : Attrs, bucket_counts : Seq(U64), sum : U64, count : U64, min : U64, max : U64,
   exemplar : Seq(Exemplar)]
MetricOf(kind, Point) ==
  [kind : {kind}, name : Text, description : Text, boundaries : Seq(U64), start : U64,
   time : U64, data_points : OneOrMore(Point)]
MetricSnapshot ==
  MetricOf("counter", DataPoint(I64)) \cup MetricOf("gauge", DataPoint(U64))
    \cup MetricOf("histogram", HistogramDataPoint)

RequestOf(signal, Item) ==
  [signal : {signal}, resource : Seq(KeyValue), scope : [name : Text, version : Text],
   items : OneOrMore(Item)]
Request ==
  RequestOf("traces", SpanData) \cup RequestOf("logs", LogData)
    \cup RequestOf("metrics", MetricSnapshot)

(***************************************************************************)
(* Writes.  A message of depth 0 has no message in it.                     *)
(***************************************************************************)
Plain == [field : {0}, bytes : Text, body : {<<>>}]
Writes[depth \in Nat] ==
  IF depth = 0 THEN Plain
  ELSE Plain \cup [field : Nat \ {0}, bytes : {<<>>}, body : Seq(Writes[depth - 1])]

Bytes(bytes) == [field |-> 0, bytes |-> bytes, body |-> <<>>]
Message(field, body) == [field |-> field, bytes |-> <<>>, body |-> body]
Messages(field, Encoder(_), items) ==
  [i \in DOMAIN items |-> Message(field, Encoder(items[i]))]

(***************************************************************************)
(* Values, resources and scopes.                                           *)
(***************************************************************************)

\* Mutant: a false or a zero is left out like the default of a plain field.
EncodeAnyValueSkipping(v) ==
  CASE v.kind = "string" -> Bytes(EncodeBytesField(1, v.value))
    [] v.kind = "bool" -> Bytes(EncodeVarintField(2, v.value))
    [] v.kind = "int" -> Bytes(EncodeVarintField(3, AsU64(v.value)))
    [] v.kind = "double" -> Bytes(EncodeFixed64Field(4, v.value))
    [] v.kind = "bytes" -> Bytes(EncodeBytesField(7, v.value))

EncodeAnyValue(v) ==
  CASE v.kind = "string" -> Bytes(EncodeBytesField(1, v.value))
    [] v.kind = "bool" -> Bytes(EncodeVarintFieldAlways(2, v.value))
    [] v.kind = "int" -> Bytes(EncodeVarintFieldAlways(3, AsU64(v.value)))
    [] v.kind = "double" -> Bytes(EncodeFixed64FieldAlways(4, v.value))
    [] v.kind = "bytes" -> Bytes(EncodeBytesField(7, v.value))

EncodeKeyValue(kv) ==
  <<Bytes(EncodeBytesField(1, kv.key)), Message(2, <<EncodeAnyValue(kv.value)>>)>>

EncodeResource(attrs) == Messages(1, EncodeKeyValue, attrs)

EncodeScope(scope) ==
  <<Bytes(EncodeBytesField(1, scope.name)), Bytes(EncodeBytesField(2, scope.version))>>

(***************************************************************************)
(* Spans and logs.                                                         *)
(***************************************************************************)
EncodeStatus(status) ==
  <<Bytes(EncodeBytesField(2, status.message)), Bytes(EncodeVarintField(3, status.code))>>

EncodeSpan(span) ==
  <<Bytes(EncodeBytesField(1, span.trace_id)), Bytes(EncodeBytesField(2, span.span_id)),
    Bytes(EncodeBytesField(4, span.parent_span_id)), Bytes(EncodeBytesField(5, span.name)),
    Bytes(EncodeVarintField(6, span.kind)),
    Bytes(EncodeFixed64Field(7, span.start)), Bytes(EncodeFixed64Field(8, span.end))>>
  \o Messages(9, EncodeKeyValue, span.attributes)
  \o Messages(15, EncodeStatus, span.status)

EncodeLogRecord(log) ==
  <<Bytes(EncodeFixed64Field(1, log.time)), Bytes(EncodeVarintField(2, log.severity_number)),
    Bytes(EncodeBytesField(3, log.severity_text)), Message(5, <<EncodeAnyValue(log.body)>>)>>
  \o Messages(6, EncodeKeyValue, log.attributes)
  \o <<Bytes(EncodeBytesField(9, log.trace_id)), Bytes(EncodeBytesField(10, log.span_id))>>

(***************************************************************************)
(* Metrics.  Their attributes are pairs of strings.                        *)
(***************************************************************************)
EncodeAttrKeyValue(attr) ==
  <<Bytes(EncodeBytesField(1, attr.key)), Message(2, <<Bytes(EncodeBytesField(1, attr.value))>>)>>

EncodeExemplar(ex) ==
  <<Bytes(EncodeFixed64Field(2, ex.time)),
    Bytes(IF ex.kind = "double" THEN EncodeFixed64FieldAlways(3, ex.value)
          ELSE EncodeFixed64FieldAlways(6, AsU64(ex.value))),
    Bytes(EncodeBytesField(4, ex.span_id)), Bytes(EncodeBytesField(5, ex.trace_id))>>

Times(start, time) == <<Bytes(EncodeFixed64Field(2, start)), Bytes(EncodeFixed64Field(3, time))>>

EncodeCounterDataPoint(dp, start, time) ==
  Times(start, time) \o Messages(5, EncodeExemplar, dp.exemplar)
    \o <<Bytes(EncodeFixed64FieldAlways(6, AsU64(dp.value)))>>
    \o Messages(7, EncodeAttrKeyValue, dp.attrs)

EncodeGaugeDataPoint(dp, start, time) ==
  Times(start, time) \o <<Bytes(EncodeFixed64FieldAlways(4, dp.value))>>
    \o Messages(5, EncodeExemplar, dp.exemplar) \o Messages(7, EncodeAttrKeyValue, dp.attrs)

EncodeHistogramDataPoint(dp, boundaries, start, time) ==
  Times(start, time)
    \o <<Bytes(EncodeFixed64FieldAlways(4, dp.count)), Bytes(EncodeFixed64FieldAlways(5, dp.sum)),
         Bytes(EncodePackedFixed64Field(6, dp.bucket_counts)),
         Bytes(EncodePackedFixed64Field(7, boundaries))>>
    \o Messages(9, EncodeAttrKeyValue, dp.attrs) \o Messages(8, EncodeExemplar, dp.exemplar)
    \o <<Bytes(EncodeFixed64FieldAlways(11, dp.min)), Bytes(EncodeFixed64FieldAlways(12, dp.max))>>

\* AGGREGATION_TEMPORALITY_CUMULATIVE
Cumulative == Bytes(EncodeVarintField(2, 2))

EncodeSum(m) ==
  Messages(1, LAMBDA dp : EncodeCounterDataPoint(dp, m.start, m.time), m.data_points)
    \o <<Cumulative, Bytes(EncodeVarintField(3, 1))>>
EncodeGaugeMsg(m) ==
  Messages(1, LAMBDA dp : EncodeGaugeDataPoint(dp, m.start, m.time), m.data_points)
EncodeHistogramMsg(m) ==
  Messages(1, LAMBDA dp : EncodeHistogramDataPoint(dp, m.boundaries, m.start, m.time),
           m.data_points) \o <<Cumulative>>

EncodeMetric(m) ==
  <<Bytes(EncodeBytesField(1, m.name)), Bytes(EncodeBytesField(2, m.description)),
    CASE m.kind = "counter" -> Message(7, EncodeSum(m))
      [] m.kind = "gauge" -> Message(5, EncodeGaugeMsg(m))
      [] m.kind = "histogram" -> Message(9, EncodeHistogramMsg(m))>>

(***************************************************************************)
(* Requests: a resource, its scope, and its spans, logs or metrics.        *)
(***************************************************************************)
EncodeItem(signal, item) ==
  CASE signal = "traces" -> EncodeSpan(item)
    [] signal = "logs" -> EncodeLogRecord(item)
    [] signal = "metrics" -> EncodeMetric(item)

EncodeExportRequest(request) ==
  <<Message(1,
      <<Message(1, EncodeResource(request.resource)),
        Message(2, <<Message(1, EncodeScope(request.scope))>>
                     \o Messages(2, LAMBDA item : EncodeItem(request.signal, item),
                                 request.items))>>)>>

=============================================================================
