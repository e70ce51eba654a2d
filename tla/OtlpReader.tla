------------------------------ MODULE OtlpReader ------------------------------
(***************************************************************************)
(* What a collector reads from a payload of OtlpEncoding, and what it has  *)
(* to read.  The reader is external: a protobuf parser with the field      *)
(* numbers of opentelemetry-proto.                                         *)
(***************************************************************************)
EXTENDS OtlpEncoding

(***************************************************************************)
(* What a collector reads.                                                 *)
(***************************************************************************)
Each(Reader(_), messages) == [i \in DOMAIN messages |-> Reader(ReadFields[messages[i]])]

NoValue == [kind |-> "none"]

ReadAnyValue(fields) ==
  IF fields = <<>> THEN NoValue
  ELSE LET f == Last(fields)
       IN  CASE f.field = 1 -> [kind |-> "string", value |-> f.bytes]
             [] f.field = 2 -> [kind |-> "bool", value |-> f.value]
             [] f.field = 3 -> [kind |-> "int", value |-> AsI64(f.value)]
             [] f.field = 4 -> [kind |-> "double", value |-> ReadFixed(fields, 4)]
             [] f.field = 7 -> [kind |-> "bytes", value |-> f.bytes]
             [] OTHER -> [kind |-> "unknown"]

ReadKeyValue(fields) ==
  [key |-> ReadBytes(fields, 1), value |-> ReadAnyValue(ReadFields[ReadMessage(fields, 2)])]

ReadStatus(fields) == [message |-> ReadBytes(fields, 2), code |-> ReadNumber(fields, 3)]

ReadSpan(fields) ==
  [trace_id |-> ReadBytes(fields, 1), span_id |-> ReadBytes(fields, 2),
   parent_span_id |-> ReadBytes(fields, 4), name |-> ReadBytes(fields, 5),
   kind |-> ReadNumber(fields, 6), start |-> ReadFixed(fields, 7), end |-> ReadFixed(fields, 8),
   attributes |-> Each(ReadKeyValue, ReadRepeated(fields, 9)),
   status |-> Each(ReadStatus, ReadRepeated(fields, 15))]

ReadLogRecord(fields) ==
  [time |-> ReadFixed(fields, 1), severity_number |-> ReadNumber(fields, 2),
   severity_text |-> ReadBytes(fields, 3),
   body |-> ReadAnyValue(ReadFields[ReadMessage(fields, 5)]),
   attributes |-> Each(ReadKeyValue, ReadRepeated(fields, 6)),
   trace_id |-> ReadBytes(fields, 9), span_id |-> ReadBytes(fields, 10)]

ReadAttr(fields) ==
  [key |-> ReadBytes(fields, 1), value |-> ReadBytes(ReadFields[ReadMessage(fields, 2)], 1)]

ReadExemplar(fields) ==
  [time |-> ReadFixed(fields, 2), span_id |-> ReadBytes(fields, 4),
   trace_id |-> ReadBytes(fields, 5),
   kind |-> IF Has(fields, 3) THEN "double" ELSE "int",
   value |-> IF Has(fields, 3) THEN ReadFixed(fields, 3) ELSE AsI64(ReadFixed(fields, 6))]

\* A NumberDataPoint has its value in field 4 or in field 6.
ReadNumberDataPoint(fields) ==
  [start |-> ReadFixed(fields, 2), time |-> ReadFixed(fields, 3),
   value |-> IF Has(fields, 4) THEN ReadFixed(fields, 4) ELSE AsI64(ReadFixed(fields, 6)),
   exemplar |-> Each(ReadExemplar, ReadRepeated(fields, 5)),
   attrs |-> Each(ReadAttr, ReadRepeated(fields, 7))]

ReadHistogramDataPoint(fields) ==
  [start |-> ReadFixed(fields, 2), time |-> ReadFixed(fields, 3), count |-> ReadFixed(fields, 4),
   sum |-> ReadFixed(fields, 5), bucket_counts |-> ReadPacked(fields, 6),
   boundaries |-> ReadPacked(fields, 7),
   exemplar |-> Each(ReadExemplar, ReadRepeated(fields, 8)),
   attrs |-> Each(ReadAttr, ReadRepeated(fields, 9)),
   min |-> ReadFixed(fields, 11), max |-> ReadFixed(fields, 12)]

ReadMetric(fields) ==
  LET kind == CASE Has(fields, 7) -> "counter" [] Has(fields, 5) -> "gauge"
                [] Has(fields, 9) -> "histogram" [] OTHER -> "none"
      data == ReadFields[ReadMessage(fields, CASE kind = "counter" -> 7 [] kind = "gauge" -> 5
                                               [] OTHER -> 9)]
      points == ReadRepeated(data, 1)
  IN  [kind |-> kind, name |-> ReadBytes(fields, 1), description |-> ReadBytes(fields, 2),
       cumulative |-> ReadNumber(data, 2) = 2, monotonic |-> ReadNumber(data, 3) = 1,
       data_points |-> IF kind = "histogram" THEN Each(ReadHistogramDataPoint, points)
                       ELSE Each(ReadNumberDataPoint, points)]

\* ResourceSpans, ResourceLogs or ResourceMetrics with one scope.
ReadResourceItems(signal, fields) ==
  LET scoped == ReadFields[ReadMessage(fields, 2)]
      scope == ReadFields[ReadMessage(scoped, 1)]
      Item(f) == CASE signal = "traces" -> ReadSpan(f) [] signal = "logs" -> ReadLogRecord(f)
                   [] signal = "metrics" -> ReadMetric(f)
  IN  [resource |-> Each(ReadKeyValue, ReadRepeated(ReadFields[ReadMessage(fields, 1)], 1)),
       scope |-> [name |-> ReadBytes(scope, 1), version |-> ReadBytes(scope, 2)],
       items |-> Each(Item, ReadRepeated(scoped, 2))]

ReadPayload(signal, bytes) ==
  LET Resource(fields) == ReadResourceItems(signal, fields)
  IN  Each(Resource, ReadRepeated(ReadFields[bytes], 1))

(***************************************************************************)
(* What it has to read.                                                    *)
(***************************************************************************)

\* An empty string or array leaves its oneof unset (src/proto.rs:40), and a status
\* or an attribute that says nothing is not there: a reader takes either for the same.
MeantValue(v) == IF v.kind \in {"string", "bytes"} /\ v.value = <<>> THEN NoValue ELSE v
MeantKeyValues(kvs) ==
  Kept([i \in DOMAIN kvs |-> [key |-> kvs[i].key, value |-> MeantValue(kvs[i].value)]],
       {i \in DOMAIN kvs : kvs[i].key # <<>> \/ MeantValue(kvs[i].value) # NoValue})
MeantAttrs(attrs) ==
  Kept(attrs, {i \in DOMAIN attrs : attrs[i].key # <<>> \/ attrs[i].value # <<>>})
MeantStatus(status) ==
  Kept(status, {i \in DOMAIN status : status[i].message # <<>> \/ status[i].code # 0})

MeantPoint(m, dp) ==
  IF m.kind = "histogram"
  THEN [start |-> m.start, time |-> m.time, count |-> dp.count, sum |-> dp.sum,
        bucket_counts |-> dp.bucket_counts, boundaries |-> m.boundaries,
        exemplar |-> dp.exemplar, attrs |-> MeantAttrs(dp.attrs), min |-> dp.min, max |-> dp.max]
  ELSE [start |-> m.start, time |-> m.time, value |-> dp.value, exemplar |-> dp.exemplar,
        attrs |-> MeantAttrs(dp.attrs)]

MeantItem(signal, item) ==
  CASE signal = "traces" ->
         [item EXCEPT !.attributes = MeantKeyValues(@), !.status = MeantStatus(@)]
    [] signal = "logs" ->
         [item EXCEPT !.attributes = MeantKeyValues(@), !.body = MeantValue(@)]
    [] signal = "metrics" ->
         [kind |-> item.kind, name |-> item.name, description |-> item.description,
          cumulative |-> item.kind # "gauge", monotonic |-> item.kind = "counter",
          data_points |-> [i \in DOMAIN item.data_points |->
                             MeantPoint(item, item.data_points[i])]]

Meant(request) ==
  [resource |-> MeantKeyValues(request.resource), scope |-> request.scope,
   items |-> [i \in DOMAIN request.items |-> MeantItem(request.signal, request.items[i])]]

-----------------------------------------------------------------------------
\* src/exporter.rs:346 and src/proto.rs: whatever the lengths of the messages, a
\* collector reads from the concatenated requests exactly what was put in them.
RoundTrip ==
  Idle /\ buf = <<>> /\ batch # <<>> =>
    ReadPayload(Head(batch).signal, payload) = [i \in DOMAIN batch |-> Meant(batch[i])]

=============================================================================
