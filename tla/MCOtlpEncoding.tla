---------------------------- MODULE MCOtlpEncoding ----------------------------
(***************************************************************************)
(* A small instance of OtlpEncoding for TLC.  A group has eight values, a  *)
(* u64 two bytes of sixteen; lengths of 8 and of 64 need one group more,   *)
(* and at 64 the room for a length is used up.                             *)
(***************************************************************************)
EXTENDS OtlpReader

Letters(n) == [i \in 1..n |-> i % (2 * Base)]
Value(kind, value) == [kind |-> kind, value |-> value]
Attribute(kind, value) == [key |-> Letters(1), value |-> Value(kind, value)]
Silent == [key |-> <<>>, value |-> Value("string", <<>>)]

\* Numbers and lengths on both sides of every group, and the zeros of the others.
Ints == {-(Words \div 2), -1, 0, 1, Base - 1, Base, Base * Base - 1, Base * Base, Words \div 2 - 1}
Values ==
  {Value("int", n) : n \in Ints} \cup {Value("string", Letters(n)) : n \in {0, Base - 1, Base}}
    \cup {Value("bytes", Letters(n)) : n \in {0, Base}}
    \cup {Value("bool", n) : n \in {0, 1}} \cup {Value("double", n) : n \in {0, Words - 1}}

IdOf(n) == <<n, 0>>
RequestFor(signal, resource, item) ==
  [signal |-> signal, resource |-> resource, scope |-> [name |-> Letters(2), version |-> Letters(1)],
   items |-> item]

Log(body, attributes) ==
  [time |-> 3, severity_number |-> 9, severity_text |-> Letters(1), body |-> body,
   attributes |-> attributes, trace_id |-> IdOf(0), span_id |-> IdOf(1)]
Span(name, attributes, status) ==
  [trace_id |-> IdOf(1), span_id |-> IdOf(2), parent_span_id |-> IdOf(0), name |-> Letters(name),
   kind |-> 1, start |-> 0, end |-> Words - 1, attributes |-> attributes, status |-> status]

ExemplarAt(kind, value) ==
  [time |-> 2, kind |-> kind, value |-> value, span_id |-> IdOf(1), trace_id |-> IdOf(3)]
Attr(n) == [key |-> Letters(n % 2), value |-> Letters(n)]
Point(value, exemplar, attrs) == [attrs |-> attrs, value |-> value, exemplar |-> exemplar]
HistogramPoint(exemplar, attrs) ==
  [attrs |-> attrs, bucket_counts |-> <<0, 2, Words - 1>>, sum |-> 7, count |-> 2, min |-> 0,
   max |-> 5, exemplar |-> exemplar]
Metric(kind, points) ==
  [kind |-> kind, name |-> Letters(3), description |-> <<>>, boundaries |-> <<1, Words \div 2>>,
   start |-> 0, time |-> 200, data_points |-> points]

LogRequests ==
  {RequestFor("logs", <<>>, <<Log(Value("string", Letters(n)), <<>>)>>) : n \in 0..(Base * Base + 2)}
    \cup {RequestFor("logs", <<>>, <<Log(Value("string", <<>>), <<[key |-> Letters(1), value |-> v]>>)>>) :
            v \in Values}
TraceRequests ==
  {RequestFor("traces", <<Attribute("string", Letters(n))>>,
           <<Span(0, <<Attribute("bool", 0), Silent, Attribute("string", <<>>)>>, status)>>) :
     n \in {0, Base - 1}, status \in {<<>>, <<[message |-> <<>>, code |-> 0]>>,
                                      <<[message |-> Letters(1), code |-> 2]>>}}
\* The layer sends spans without a status; the encoder takes both.  A counter's
\* exemplar is an i64, the others' an f64.
MetricRequests ==
  {RequestFor("metrics", <<>>,
           <<Metric("counter", <<Point(-2, ints, <<Attr(0)>>), Point(0, <<>>, <<>>)>>),
             Metric("gauge", <<Point(Words - 1, doubles, <<>>)>>),
             Metric("histogram", <<HistogramPoint(doubles, <<Attr(1), Attr(Base - 1)>>)>>)>>) :
     ints \in {<<>>, <<ExemplarAt("int", -1)>>}, doubles \in {<<>>, <<ExemplarAt("double", 0)>>}}

SomeRequests == LogRequests \cup TraceRequests \cup MetricRequests

=============================================================================
