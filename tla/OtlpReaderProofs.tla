-------------------------- MODULE OtlpReaderProofs --------------------------
(***************************************************************************)
(* A collector reads from a payload what was put in it (RoundTrip), for    *)
(* any requests, lengths and base.  The reader finds again what each       *)
(* primitive wrote (OtlpEncodingProofs), and a message is known from its   *)
(* fields sorted by number; so each message of the exporter is read as it  *)
(* was meant, and the payload as the batch.                                *)
(***************************************************************************)
EXTENDS OtlpReader, OtlpEncodingProofs, SequenceTheorems

-----------------------------------------------------------------------------
(***************************************************************************)
(* What writes tell a reader: each section, the writes of one field        *)
(* number, is told by the bytes that the writes have with a buffer for     *)
(* each message (Allocating).                                              *)
(***************************************************************************)
\* The writes are read as the parts S, pairs of a number and of its fields.
Told(c, S) ==
  /\ \A x \in S : x[1] \in Nat /\ c[x[1]] = x[2]
  /\ \A g \in Nat : (\A x \in S : x[1] # g) => c[g] = <<>>
Tells(d, w, S) ==
  w \in Seq(Writes[d]) /\ \E c : Reads(Allocating[d][w], c) /\ Told(c, S)

\* Writes that are read as the fields p of one number.
Section(d, v, f, p) ==
  v \in Seq(Writes[d]) /\ f \in Nat /\ ReadsAs(Allocating[d][v], p) /\ Numbered(p, f)

\* Writes that are joined have the bytes of both.
WritesJoined(d, w, v) == Allocating[d][w \o v] = Allocating[d][w] \o Allocating[d][v]

LEMMA AllocatingJoins ==
  ASSUME ProtoAssumption, NEW d \in Nat, NEW w \in Seq(Writes[d]), NEW v \in Seq(Writes[d])
  PROVE  w \o v \in Seq(Writes[d]) /\ WritesJoined(d, w, v)
<1> DEFINE inner == Allocating[d - 1]
           X == Writes[d]
<1>1. \A x \in X : Piece(x, inner) \in Text
  BY AllocatingAdds
<1>2. /\ w \o v \in Seq(X) /\ DOMAIN w = 1..Len(w) /\ DOMAIN v = 1..Len(v) /\ Len(w) \in Nat /\ Len(v) \in Nat
      /\ DOMAIN (w \o v) = 1..(Len(w) + Len(v))
      /\ \A i \in 1..(Len(w) + Len(v)) : (w \o v)[i] = IF i <= Len(w) THEN w[i] ELSE v[i - Len(w)]
  OBVIOUS
<1>3. PICK p \in Seq(Text), q \in Seq(Text) :
        /\ p = Pieces(w, inner) /\ q = Pieces(v, inner) /\ DOMAIN p = DOMAIN w /\ DOMAIN q = DOMAIN v
        /\ \A i \in DOMAIN w : p[i] = Piece(w[i], inner)
        /\ \A i \in DOMAIN v : q[i] = Piece(v[i], inner)
  <2>1. PICK p, q : p = Pieces(w, inner) /\ q = Pieces(v, inner)
    OBVIOUS
  <2>2. /\ DOMAIN p = DOMAIN w /\ p = [i \in DOMAIN w |-> p[i]] /\ \A i \in DOMAIN w : p[i] = Piece(w[i], inner)
        /\ DOMAIN q = DOMAIN v /\ q = [i \in DOMAIN v |-> q[i]] /\ \A i \in DOMAIN v : q[i] = Piece(v[i], inner)
    BY ONLY <2>1 DEF Pieces
  <2>3. (\A i \in DOMAIN w : p[i] \in Text) /\ (\A i \in DOMAIN v : q[i] \in Text)
    <3>1. (\A i \in DOMAIN w : w[i] \in X) /\ (\A i \in DOMAIN v : v[i] \in X)
      OBVIOUS
    <3> HIDE DEF X, inner
    <3> QED
      BY ONLY <1>1, <2>2, <3>1
  <2>4. p \in Seq(Text) /\ q \in Seq(Text)
    BY ONLY <2>2, <2>3, MessagesAre, w \in Seq(Writes[d]), v \in Seq(Writes[d])
  <2> QED
    BY ONLY <2>1, <2>2, <2>4
<1>4. Len(p) = Len(w) /\ Len(q) = Len(v)
  BY ONLY <1>2, <1>3
<1>5. Pieces(w \o v, inner) = p \o q
  <2>1. /\ DOMAIN (p \o q) = 1..(Len(w) + Len(v))
        /\ p \o q = [i \in 1..(Len(w) + Len(v)) |-> (p \o q)[i]]
        /\ \A i \in 1..(Len(w) + Len(v)) : (p \o q)[i] = IF i <= Len(w) THEN p[i] ELSE q[i - Len(w)]
    <3>1. /\ DOMAIN (p \o q) = 1..(Len(p) + Len(q))
          /\ \A i \in 1..(Len(p) + Len(q)) : (p \o q)[i] = IF i <= Len(p) THEN p[i] ELSE q[i - Len(p)]
          /\ p \o q = [i \in 1..(Len(p) + Len(q)) |-> (p \o q)[i]]
      BY ONLY JoinParts, p \in Seq(Text), q \in Seq(Text)
    <3> QED
      BY ONLY <1>4, <3>1
  <2>2. ASSUME NEW i \in 1..(Len(w) + Len(v)) PROVE (p \o q)[i] = Piece((w \o v)[i], inner)
    <3>1. CASE i <= Len(w)
      <4>1. i \in DOMAIN w
        BY ONLY <1>2, <3>1, i \in 1..(Len(w) + Len(v))
      <4> HIDE DEF inner
      <4> QED
        BY ONLY <1>2, <1>3, <2>1, <3>1, <4>1, i \in 1..(Len(w) + Len(v))
    <3>2. CASE ~(i <= Len(w))
      <4>1. i - Len(w) \in DOMAIN v
        BY ONLY <1>2, <3>2, i \in 1..(Len(w) + Len(v))
      <4> HIDE DEF inner
      <4> QED
        BY ONLY <1>2, <1>3, <2>1, <3>2, <4>1, i \in 1..(Len(w) + Len(v))
    <3> QED
      BY ONLY <3>1, <3>2
  <2> HIDE DEF inner
  <2> QED
    BY ONLY <1>2, <2>1, <2>2 DEF Pieces
<1>6. FlattenSeq(p \o q) = FlattenSeq(p) \o FlattenSeq(q)
  BY FlattenJoins DEF Text
<1>7. \A u \in Seq(X) : Allocating[d][u] = FlattenSeq(Pieces(u, inner))
  BY AllocatingIs DEF Joined
<1>8. Allocating[d][w \o v] = Allocating[d][w] \o Allocating[d][v]
  <2> HIDE DEF inner, X
  <2>1. w \in Seq(X) /\ v \in Seq(X)
    BY DEF X
  <2> QED
    BY ONLY <1>2, <1>3, <1>5, <1>6, <1>7, <2>1
<1> QED
  BY <1>2, <1>8 DEF WritesJoined

\* Writes are read as their sections.
LEMMA TellsNothing ==
  ASSUME ProtoAssumption, NEW d \in Nat
  PROVE  Tells(d, <<>>, {})
<1>1. Allocating[d][<<>>] = <<>> /\ <<>> \in Seq(Writes[d])
  BY AllocatingEmpty
<1>2. Told(NoFields, {})
  BY DEF Told, NoFields
<1> QED
  BY <1>1, <1>2, ReadsNone DEF Tells

\* Writes and a section of a new number more tell that section too.
LEMMA TellsMore ==
  ASSUME ProtoAssumption, NEW d \in Nat, NEW w, NEW S, Tells(d, w, S),
         NEW v, NEW f, NEW p, Section(d, v, f, p), \A x \in S : x[1] # f
  PROVE  Tells(d, w \o v, S \cup {<<f, p>>})
<1>1. PICK c : Reads(Allocating[d][w], c) /\ Told(c, S)
  BY DEF Tells
<1>2. w \in Seq(Writes[d]) /\ v \in Seq(Writes[d]) /\ f \in Nat
  BY DEF Tells, Section
<1>3. c[f] = <<>>
  BY <1>1, <1>2 DEF Told
<1>4. PICK k : k = [c EXCEPT ![f] = p]
  OBVIOUS
<1>5. Reads(Allocating[d][w] \o Allocating[d][v], k)
  BY <1>1, <1>2, <1>3, <1>4, ReadsMore DEF Section
<1>6. w \o v \in Seq(Writes[d]) /\ Allocating[d][w \o v] = Allocating[d][w] \o Allocating[d][v]
  BY <1>2, AllocatingJoins DEF WritesJoined
<1>7. DOMAIN c = Nat
  BY <1>1 DEF Reads, Sorted
<1>8. k[f] = p /\ \A g \in Nat : g # f => k[g] = c[g]
  BY ONLY <1>2, <1>4, <1>7
<1>9. Told(k, S \cup {<<f, p>>})
  <2>1. ASSUME NEW x \in S \cup {<<f, p>>} PROVE x[1] \in Nat /\ k[x[1]] = x[2]
    <3>1. CASE x \in S
      BY ONLY <1>1, <1>8, <3>1, \A y \in S : y[1] # f DEF Told
    <3>2. CASE x = <<f, p>>
      BY ONLY <1>2, <1>8, <3>2
    <3> QED
      BY ONLY <3>1, <3>2, x \in S \cup {<<f, p>>}
  <2>2. ASSUME NEW g \in Nat, \A x \in S \cup {<<f, p>>} : x[1] # g PROVE k[g] = <<>>
    <3>1. g # f
      <4>1. <<f, p>> \in S \cup {<<f, p>>} /\ <<f, p>>[1] = f
        OBVIOUS
      <4> QED
        BY ONLY <2>2, <4>1
    <3> QED
      BY ONLY <1>1, <1>8, <2>2, <3>1 DEF Told
  <2> QED
    BY ONLY <2>1, <2>2 DEF Told
<1> QED
  BY ONLY <1>5, <1>6, <1>9 DEF Tells

\* A section alone tells itself.
LEMMA TellsOne ==
  ASSUME ProtoAssumption, NEW d \in Nat, NEW v, NEW f, NEW p, Section(d, v, f, p)
  PROVE  Tells(d, v, {<<f, p>>})
<1>1. Tells(d, <<>>, {})
  BY TellsNothing
<1>2. Tells(d, <<>> \o v, {} \cup {<<f, p>>})
  BY <1>1, TellsMore
<1>3. <<>> \o v = v
  BY DEF Section
<1> QED
  BY ONLY <1>2, <1>3

\* The sections that there are.
LEMMA OneWrite ==
  ASSUME NEW W, NEW x \in W
  PROVE  Append(<<>>, x) = <<x>> /\ <<>> \in Seq(W) /\ <<x>> \in Seq(W)
  OBVIOUS

\* A write of bytes is the section of the fields that they are read as.
LEMMA BytesSection ==
  ASSUME ProtoAssumption, NEW d \in Nat, NEW s, NEW f \in Nat, NEW p, ReadsAs(s, p), Numbered(p, f)
  PROVE  Section(d, <<Bytes(s)>>, f, p)
<1>1. s \in Text
  BY DEF ReadsAs
<1>2. PICK x \in Writes[d] : x = Bytes(s) /\ x.field = 0 /\ x.bytes = s
  <2>1. Bytes(s) \in Plain /\ Bytes(s).field = 0 /\ Bytes(s).bytes = s
    BY <1>1, BytesAre DEF Bytes
  <2>2. Plain \subseteq Writes[d]
    <3>1. CASE d = 0
      BY <3>1, WritesIs
    <3>2. CASE d # 0
      <4>1. PICK e \in Nat : d = e + 1
        <5>1. d - 1 \in Nat /\ d = (d - 1) + 1
          BY <3>2
        <5> QED
          BY <5>1
      <4> QED
        BY <4>1, WritesIs DEF Nested
    <3> QED
      BY <3>1, <3>2
  <2> QED
    BY <2>1, <2>2
<1>3. Append(<<>>, x) = <<x>> /\ <<>> \in Seq(Writes[d]) /\ <<x>> \in Seq(Writes[d])
  BY ONLY OneWrite, x \in Writes[d]
<1>4. AddsBytes(d, <<>>, x)
  BY <1>2, <1>3, OneMoreBytes
<1>5. Allocating[d][<<>>] = <<>> /\ <<>> \o s = s
  BY <1>1, AllocatingEmpty DEF Text
<1>6. Allocating[d][<<x>>] = s
  BY ONLY <1>2, <1>3, <1>4, <1>5 DEF AddsBytes
<1> QED
  BY <1>2, <1>3, <1>6 DEF Section

\* Each primitive writes a section: its field, or nothing.
LEMMA FieldSections ==
  ASSUME ProtoAssumption, NEW d \in Nat, NEW f \in Nat, f # 0
  PROVE  /\ \A s \in Text : Section(d, <<Bytes(EncodeBytesField(f, s))>>, f, BytesFields(f, s))
         /\ \A n \in Nat :
              /\ Section(d, <<Bytes(EncodeVarintField(f, n))>>, f, VarintFields(f, n))
              /\ Section(d, <<Bytes(EncodeVarintFieldAlways(f, n))>>, f, <<VarintRecord(f, n)>>)
         /\ \A n \in U64 :
              /\ Section(d, <<Bytes(EncodeFixed64Field(f, n))>>, f, FixedFields(f, n))
              /\ Section(d, <<Bytes(EncodeFixed64FieldAlways(f, n))>>, f, <<FixedRecord(f, n)>>)
<1>0. 0 \in Nat /\ 0 \in U64 /\ <<>> \in Text
  BY WordsIs DEF U64, Text
<1>1. ASSUME NEW s \in Text PROVE Section(d, <<Bytes(EncodeBytesField(f, s))>>, f, BytesFields(f, s))
  <2>1. ReadsAs(EncodeBytesField(f, s), BytesFields(f, s))
    BY <1>0, WritersRead
  <2>2. Numbered(BytesFields(f, s), f)
    BY BytesAsk
  <2> QED
    BY <2>1, <2>2, BytesSection
<1>2. ASSUME NEW n \in Nat
      PROVE  /\ Section(d, <<Bytes(EncodeVarintField(f, n))>>, f, VarintFields(f, n))
             /\ Section(d, <<Bytes(EncodeVarintFieldAlways(f, n))>>, f, <<VarintRecord(f, n)>>)
  <2>1. ReadsAs(EncodeVarintField(f, n), VarintFields(f, n))
    BY <1>0, WritersRead
  <2>2. ReadsAs(EncodeVarintFieldAlways(f, n), <<VarintRecord(f, n)>>)
    BY VarintFieldReads
  <2>3. Numbered(VarintFields(f, n), f) /\ Numbered(<<VarintRecord(f, n)>>, f)
    BY <1>0, NumbersAsk
  <2> QED
    BY <2>1, <2>2, <2>3, BytesSection
<1>3. ASSUME NEW n \in U64
      PROVE  /\ Section(d, <<Bytes(EncodeFixed64Field(f, n))>>, f, FixedFields(f, n))
             /\ Section(d, <<Bytes(EncodeFixed64FieldAlways(f, n))>>, f, <<FixedRecord(f, n)>>)
  <2>1. ReadsAs(EncodeFixed64Field(f, n), FixedFields(f, n))
    BY <1>0, WritersRead
  <2>2. ReadsAs(EncodeFixed64FieldAlways(f, n), <<FixedRecord(f, n)>>)
    BY FixedFieldReads
  <2>3. Numbered(FixedFields(f, n), f) /\ Numbered(<<FixedRecord(f, n)>>, f)
    BY <1>0, NumbersAsk
  <2> QED
    BY <2>1, <2>2, <2>3, BytesSection
<1> QED
  BY ONLY <1>1, <1>2, <1>3

\* A message is a section: one field with the bytes of its body, or nothing.
LEMMA MessageSection ==
  ASSUME ProtoAssumption, NEW d \in Nat, NEW f \in Nat, f # 0, NEW body \in Seq(Writes[d])
  PROVE  Section(d + 1, <<Message(f, body)>>, f, BytesFields(f, Allocating[d][body]))
<1>1. PICK x \in Writes[d + 1] : x = Message(f, body) /\ x.field = f /\ x.body = body
  <2>1. Message(f, body) \in Writes[d + 1]
    <3>1. Message(f, body) \in Nested(Writes[d])
      BY MessageIs
    <3> QED
      BY <3>1, WritesIs
  <2>2. Message(f, body).field = f /\ Message(f, body).body = body
    BY DEF Message
  <2> QED
    BY ONLY <2>1, <2>2
<1>2. Append(<<>>, x) = <<x>> /\ <<>> \in Seq(Writes[d + 1]) /\ <<x>> \in Seq(Writes[d + 1])
  BY ONLY OneWrite, x \in Writes[d + 1]
<1>3. Allocating[d + 1][Append(<<>>, x)] = Allocating[d + 1][<<>>] \o EncodeBytesField(x.field, Allocating[d][x.body])
  BY <1>1, <1>2, OneMoreMessage
<1>4. PICK s \in Text : s = Allocating[d][body]
  BY AllocatingTyped
<1>5. PICK b \in Text : b = EncodeBytesField(f, s)
  BY BytesAreText
<1>6. Allocating[d + 1][<<>>] = <<>> /\ <<>> \o b = b
  <2>1. d + 1 \in Nat
    OBVIOUS
  <2> QED
    BY <2>1, AllocatingEmpty DEF Text
<1>7. Allocating[d + 1][<<x>>] = EncodeBytesField(f, s)
  BY ONLY <1>1, <1>2, <1>3, <1>4, <1>5, <1>6
<1>8. ReadsAs(EncodeBytesField(f, s), BytesFields(f, s)) /\ Numbered(BytesFields(f, s), f)
  <2>1. 0 \in Nat /\ 0 \in U64
    BY WordsIs DEF U64
  <2> QED
    BY <2>1, WritersRead, BytesAsk
<1> QED
  BY <1>1, <1>2, <1>4, <1>7, <1>8 DEF Section

\* The bytes of some bodies.
Texts(d, bodies) == [i \in DOMAIN bodies |-> Allocating[d][bodies[i]]]

LEMMA TextsAre ==
  ASSUME ProtoAssumption, NEW d \in Nat, NEW bodies \in Seq(Seq(Writes[d]))
  PROVE  /\ Texts(d, bodies) \in Seq(Text) /\ DOMAIN Texts(d, bodies) = DOMAIN bodies
         /\ \A i \in DOMAIN bodies : Texts(d, bodies)[i] = Allocating[d][bodies[i]]
<1>1. PICK t : t = Texts(d, bodies)
  OBVIOUS
<1>2. DOMAIN t = DOMAIN bodies /\ t = [i \in DOMAIN bodies |-> t[i]] /\ \A i \in DOMAIN bodies : t[i] = Allocating[d][bodies[i]]
  BY ONLY <1>1 DEF Texts
<1>3. \A i \in DOMAIN bodies : t[i] \in Text
  <2>1. \A i \in DOMAIN bodies : bodies[i] \in Seq(Writes[d])
    OBVIOUS
  <2> QED
    BY <1>2, <2>1, AllocatingTyped
<1>4. t \in Seq(Text)
  BY ONLY <1>2, <1>3, MessagesAre, bodies \in Seq(Seq(Writes[d]))
<1> QED
  BY ONLY <1>1, <1>2, <1>4

\* A message for each of some bodies is a section: the fields of their bytes.
LEMMA MessagesSection ==
  ASSUME ProtoAssumption, NEW d \in Nat, NEW f \in Nat, f # 0, NEW bodies \in Seq(Seq(Writes[d])),
         NEW v, v = [i \in DOMAIN bodies |-> Message(f, bodies[i])]
  PROVE  Section(d + 1, v, f, MessageFields(f, Texts(d, bodies)))
<1>1. PICK e \in Nat : e = d + 1 /\ e - 1 = d
  <2>1. d + 1 \in Nat /\ (d + 1) - 1 = d
    OBVIOUS
  <2> QED
    BY <2>1
<1>2. PICK t \in Seq(Text) : t = Texts(d, bodies) /\ DOMAIN t = DOMAIN bodies /\ \A i \in DOMAIN bodies : t[i] = Allocating[d][bodies[i]]
  BY TextsAre
<1>3. /\ DOMAIN v = DOMAIN bodies /\ v = [i \in DOMAIN bodies |-> v[i]]
      /\ \A i \in DOMAIN bodies : v[i] = Message(f, bodies[i])
  BY ONLY v = [i \in DOMAIN bodies |-> Message(f, bodies[i])]
<1>4. v \in Seq(Writes[e])
  <2>1. ASSUME NEW i \in DOMAIN bodies PROVE v[i] \in Writes[e]
    <3>1. bodies[i] \in Seq(Writes[d])
      OBVIOUS
    <3>2. Message(f, bodies[i]) \in Nested(Writes[d])
      BY <3>1, MessageIs
    <3> QED
      BY <1>1, <1>3, <3>2, WritesIs
  <2> QED
    BY ONLY <1>3, <2>1, MessagesAre, bodies \in Seq(Seq(Writes[d]))
<1>5. Allocating[e][v] = FlattenSeq(Pieces(v, Allocating[d]))
  <2>1. Allocating[e] = Joined(e, Allocating[d])
    BY ONLY <1>1, AllocatingIs
  <2> QED
    BY ONLY <1>4, <2>1 DEF Joined
<1>6. Pieces(v, Allocating[d]) = [i \in DOMAIN t |-> EncodeBytesField(f, t[i])]
  <2>1. ASSUME NEW i \in DOMAIN bodies PROVE Piece(v[i], Allocating[d]) = EncodeBytesField(f, t[i])
    BY <1>2, <1>3, <2>1, f # 0 DEF Piece, Message
  <2> QED
    BY ONLY <1>2, <1>3, <2>1 DEF Pieces
<1>7. ReadsAs(FlattenSeq([i \in DOMAIN t |-> EncodeBytesField(f, t[i])]), MessageFields(f, t))
  BY MessagesRead
<1>8. Numbered(MessageFields(f, t), f)
  BY MessagesAsk
<1>9. Section(e, v, f, MessageFields(f, t))
  BY ONLY <1>4, <1>5, <1>6, <1>7, <1>8, f \in Nat DEF Section
<1> QED
  BY ONLY <1>1, <1>2, <1>9

\* What a reader knows from what writes tell it.
FieldsOf(d, w) == ReadFields[Allocating[d][w]]

\* Bytes that are told, or the message that they are, are read.
LEMMA TellsText ==
  ASSUME ProtoAssumption, NEW d \in Nat, NEW w, NEW S, Tells(d, w, S),
         NEW f, NEW s \in Text, <<f, BytesFields(f, s)>> \in S
  PROVE  /\ ReadBytes(FieldsOf(d, w), f) = s /\ ReadMessage(FieldsOf(d, w), f) = s
         /\ (Has(FieldsOf(d, w), f) <=> s # <<>>)
<1>1. PICK c : Reads(Allocating[d][w], c) /\ Told(c, S)
  BY DEF Tells
<1>2. f \in Nat /\ c[f] = BytesFields(f, s)
  BY <1>1 DEF Told
<1> QED
  BY <1>1, <1>2, ReadsText DEF FieldsOf

\* A number that is told is read.
LEMMA TellsNumber ==
  ASSUME ProtoAssumption, NEW d \in Nat, NEW w, NEW S, Tells(d, w, S),
         NEW f, NEW n \in Nat, <<f, VarintFields(f, n)>> \in S
  PROVE  ReadNumber(FieldsOf(d, w), f) = n
<1>1. PICK c : Reads(Allocating[d][w], c) /\ Told(c, S)
  BY DEF Tells
<1>2. f \in Nat /\ c[f] = VarintFields(f, n)
  BY <1>1 DEF Told
<1> QED
  BY <1>1, <1>2, ReadsVarint DEF FieldsOf

\* A fixed64 that is told is read, whether zero is left out or always written.
LEMMA TellsFixed ==
  ASSUME ProtoAssumption, NEW d \in Nat, NEW w, NEW S, Tells(d, w, S),
         NEW f, NEW n \in U64, <<f, FixedFields(f, n)>> \in S
  PROVE  ReadFixed(FieldsOf(d, w), f) = n
<1>1. PICK c : Reads(Allocating[d][w], c) /\ Told(c, S)
  BY DEF Tells
<1>2. f \in Nat /\ c[f] = FixedFields(f, n)
  BY <1>1 DEF Told
<1> QED
  BY <1>1, <1>2, ReadsFixed DEF FieldsOf

LEMMA TellsFixedAlways ==
  ASSUME ProtoAssumption, NEW d \in Nat, NEW w, NEW S, Tells(d, w, S),
         NEW f, NEW n \in U64, <<f, <<FixedRecord(f, n)>>>> \in S
  PROVE  ReadFixed(FieldsOf(d, w), f) = n
<1>1. PICK c : Reads(Allocating[d][w], c) /\ Told(c, S)
  BY DEF Tells
<1>2. f \in Nat /\ c[f] = <<FixedRecord(f, n)>>
  BY <1>1 DEF Told
<1> QED
  BY <1>1, <1>2, ReadsFixed DEF FieldsOf

\* Messages that are told are read, all but the empty ones.
LEMMA TellsMessages ==
  ASSUME ProtoAssumption, NEW d \in Nat, NEW w, NEW S, Tells(d, w, S),
         NEW f, NEW texts \in Seq(Text), <<f, MessageFields(f, texts)>> \in S
  PROVE  ReadRepeated(FieldsOf(d, w), f) = Kept(texts, Full(texts))
<1>1. PICK c : Reads(Allocating[d][w], c) /\ Told(c, S)
  BY DEF Tells
<1>2. f \in Nat /\ c[f] = MessageFields(f, texts)
  BY <1>1 DEF Told
<1>3. Asks(FieldsOf(d, w), c[f], f)
  BY <1>1, <1>2, SortedAsks DEF Reads, FieldsOf
<1>4. ReadRepeated(MessageFields(f, texts), f) = Kept(texts, Full(texts))
  BY <1>2, MessagesAsk
<1> QED
  BY ONLY <1>2, <1>3, <1>4 DEF Asks

\* A field is there if it is told, and there are bytes if something is.
LEMMA TellsWhether ==
  ASSUME ProtoAssumption, NEW d \in Nat, NEW w, NEW S, Tells(d, w, S)
  PROVE  /\ w \in Seq(Writes[d]) /\ Allocating[d][w] \in Text
         /\ (Allocating[d][w] # <<>> <=> \E x \in S : x[2] # <<>>)
         /\ \A f \in Nat : (\A x \in S : x[1] # f) => ~Has(FieldsOf(d, w), f)
         /\ \A x \in S : Has(FieldsOf(d, w), x[1]) <=> x[2] # <<>>
<1>1. PICK c : Reads(Allocating[d][w], c) /\ Told(c, S)
  BY DEF Tells
<1>2. /\ Allocating[d][w] \in Text
      /\ (Allocating[d][w] # <<>> <=> \E f \in Nat : c[f] # <<>>)
      /\ \A f \in Nat : Has(FieldsOf(d, w), f) <=> c[f] # <<>>
  BY <1>1, ReadsEmpty DEF FieldsOf
<1>3. (\E f \in Nat : c[f] # <<>>) <=> \E x \in S : x[2] # <<>>
  BY ONLY <1>1 DEF Told
<1>4. \A f \in Nat : (\A x \in S : x[1] # f) => ~Has(FieldsOf(d, w), f)
  BY ONLY <1>1, <1>2 DEF Told
<1>5. \A x \in S : Has(FieldsOf(d, w), x[1]) <=> x[2] # <<>>
  BY ONLY <1>1, <1>2 DEF Told
<1> QED
  BY ONLY <1>2, <1>3, <1>4, <1>5, Tells(d, w, S) DEF Tells

\* Each of some messages that are read is what was meant by one of them.
ReadsEach(m, texts, values) == Mapped(m, Kept(texts, Full(texts))) = Kept(values, Full(texts))

\* If each text is read as a value, the texts that are there are read as their values.
LEMMA EachMeant ==
  ASSUME NEW texts \in Seq(Text), NEW values, DOMAIN values = DOMAIN texts,
         values = [i \in DOMAIN texts |-> values[i]],
         NEW m, m = [t \in Text |-> m[t]], \A i \in DOMAIN texts : m[texts[i]] = values[i]
  PROVE  ReadsEach(m, texts, values)
<1>1. PICK Y : m \in [Text -> Y]
  <2>1. m \in [Text -> {m[t] : t \in Text}]
    OBVIOUS
  <2> QED
    BY ONLY <2>1
<1>2. MapsKept(m, texts, Full(texts))
  BY <1>1, KeptMaps
<1>3. Mapped(m, texts) = values
  BY DEF Mapped
<1> QED
  BY ONLY <1>2, <1>3 DEF MapsKept, ReadsEach

\* The texts that are not empty are texts, and all of them if none is empty.
LEMMA KeptTexts ==
  ASSUME NEW texts \in Seq(Text)
  PROVE  /\ Kept(texts, Full(texts)) \in Seq(Text)
         /\ (\A i \in DOMAIN texts : texts[i] # <<>>) => Kept(texts, Full(texts)) = texts
<1>1. Kept(texts, Full(texts)) \in Seq(Text)
  BY PicksAre
<1>2. ASSUME \A i \in DOMAIN texts : texts[i] # <<>> PROVE Kept(texts, Full(texts)) = texts
  <2>1. DOMAIN texts \subseteq Full(texts)
    BY <1>2 DEF Full
  <2> QED
    BY <2>1, KeptAll
<1> QED
  BY <1>1, <1>2

-----------------------------------------------------------------------------
(***************************************************************************)
(* Values, attributes, statuses and exemplars.                             *)
(***************************************************************************)
\* A value is the one write of its message.
LEMMA OneField ==
  ASSUME ProtoAssumption, NEW d \in Nat, NEW v, NEW f, NEW r \in Field, Section(d, v, f, <<r>>)
  PROVE  /\ FieldsOf(d, v) = <<r>> /\ Allocating[d][v] # <<>> /\ Allocating[d][v] \in Text
         /\ <<r>> # <<>> /\ Last(<<r>>) = r
<1>1. ReadsAs(Allocating[d][v], <<r>>)
  BY DEF Section
<1>2. ReadFields[Allocating[d][v]] = <<r>> /\ Allocating[d][v] \in Text
  BY <1>1, ReadsBack
<1>3. <<r>> # <<>> /\ Last(<<r>>) = r
  BY DEF Last
<1>4. ReadFields[<<>>] = <<>>
  BY <1>2, FieldsAre
<1> QED
  BY ONLY <1>2, <1>3, <1>4 DEF FieldsOf

\* Writes that are read as no field have no bytes.
LEMMA NoField ==
  ASSUME ProtoAssumption, NEW d \in Nat, NEW v, NEW f, Section(d, v, f, <<>>)
  PROVE  FieldsOf(d, v) = <<>> /\ Allocating[d][v] = <<>>
<1>1. ReadsAs(Allocating[d][v], <<>>)
  BY DEF Section
<1>2. ReadFields[Allocating[d][v]] = <<>> /\ Allocating[d][v] \in Text
  BY <1>1, ReadsBack
<1> QED
  BY <1>2, FieldsAre DEF FieldsOf

\* A value is read as it was meant, and has bytes if it is not the empty one.
ValueTold(d, v) ==
  /\ <<EncodeAnyValue(v)>> \in Seq(Writes[d]) /\ Allocating[d][<<EncodeAnyValue(v)>>] \in Text
  /\ ReadAnyValue(FieldsOf(d, <<EncodeAnyValue(v)>>)) = MeantValue(v)
  /\ Allocating[d][<<EncodeAnyValue(v)>>] = <<>> <=> MeantValue(v) = NoValue

\* It is, for each of its kinds.
LEMMA AnyValueTells ==
  ASSUME ProtoAssumption, NEW d \in Nat, NEW v \in AnyValue
  PROVE  ValueTold(d, v)
<1>0. PICK w : w = <<EncodeAnyValue(v)>>
  OBVIOUS
<1>1. CASE v.kind = "string" \/ v.kind = "bytes"
  <2>1. PICK s \in Text : v = [kind |-> v.kind, value |-> s] /\ v.value = s
    BY <1>1 DEF AnyValue
  <2>2. PICK f \in Nat : f # 0 /\ (v.kind = "string" => f = 1) /\ (v.kind = "bytes" => f = 7)
    BY ONLY <1>1
  <2>3. w = <<Bytes(EncodeBytesField(f, s))>>
    BY ONLY <1>0, <1>1, <2>1, <2>2 DEF EncodeAnyValue
  <2>4. Section(d, w, f, BytesFields(f, s))
    BY <2>2, <2>3, FieldSections
  <2>5. CASE s = <<>>
    <3>1. FieldsOf(d, w) = <<>> /\ Allocating[d][w] = <<>>
      BY <2>4, <2>5, NoField DEF BytesFields
    <3>2. MeantValue(v) = NoValue
      BY ONLY <1>1, <2>1, <2>5 DEF MeantValue
    <3> QED
      BY <1>0, <2>4, <3>1, <3>2 DEF ValueTold, ReadAnyValue, Section, Text
  <2>6. CASE s # <<>>
    <3>1. PICK r \in Field : r = BytesRecord(f, s) /\ r.field = f /\ r.bytes = s
      <4>1. 0 \in Nat
        OBVIOUS
      <4> QED
        BY <4>1, RecordsAre DEF BytesRecord
    <3>2. /\ FieldsOf(d, w) = <<r>> /\ Allocating[d][w] # <<>> /\ Allocating[d][w] \in Text
          /\ <<r>> # <<>> /\ Last(<<r>>) = r
      BY <2>4, <2>6, <3>1, OneField DEF BytesFields
    <3>3. MeantValue(v) = v
      BY ONLY <2>1, <2>6 DEF MeantValue
    <3>4. v # NoValue
      BY ONLY <1>1 DEF NoValue
    <3>5. ReadAnyValue(<<r>>) = v
      <4>1. CASE v.kind = "string"
        <5>1. r.field = 1
          BY ONLY <2>2, <3>1, <4>1
        <5>2. ReadAnyValue(<<r>>) = [kind |-> "string", value |-> r.bytes]
          BY ONLY <3>2, <5>1 DEF ReadAnyValue
        <5> QED
          BY ONLY <2>1, <3>1, <4>1, <5>2
      <4>2. CASE v.kind = "bytes"
        <5>1. r.field = 7
          BY ONLY <2>2, <3>1, <4>2
        <5>2. ReadAnyValue(<<r>>) = [kind |-> "bytes", value |-> r.bytes]
          BY ONLY <3>2, <5>1 DEF ReadAnyValue
        <5> QED
          BY ONLY <2>1, <3>1, <4>2, <5>2
      <4> QED
        BY ONLY <1>1, <4>1, <4>2
    <3> QED
      BY ONLY <1>0, <2>4, <3>2, <3>3, <3>4, <3>5 DEF ValueTold, Section
  <2> QED
    BY ONLY <2>5, <2>6
<1>2. ASSUME NEW f \in Nat, NEW r \in Field, Section(d, w, f, <<r>>), ReadAnyValue(<<r>>) = v,
             v.kind \in {"bool", "int", "double"}
      PROVE  ValueTold(d, v)
  <2>1. FieldsOf(d, w) = <<r>> /\ Allocating[d][w] # <<>> /\ Allocating[d][w] \in Text
    BY <1>2, OneField
  <2>2. MeantValue(v) = v /\ v # NoValue
    BY ONLY <1>2 DEF MeantValue, NoValue
  <2> QED
    BY ONLY <1>0, <1>2, <2>1, <2>2 DEF ValueTold, Section
<1>3. CASE v.kind = "bool"
  <2>1. PICK f \in Nat : f = 2 /\ f # 0
    OBVIOUS
  <2>2. PICK n \in Nat : v = [kind |-> "bool", value |-> n] /\ v.value = n
    BY <1>3 DEF AnyValue
  <2>3. Section(d, w, f, <<VarintRecord(f, n)>>)
    <3>1. w = <<Bytes(EncodeVarintFieldAlways(f, n))>>
      BY ONLY <2>1, <1>0, <1>3, <2>2 DEF EncodeAnyValue
    <3> QED
      BY <2>1, <3>1, FieldSections
  <2>4. PICK r \in Field : r = VarintRecord(f, n) /\ r.field = f /\ r.value = n
    <3>1. <<>> \in Text
      BY DEF Text
    <3> QED
      BY <3>1, RecordsAre DEF VarintRecord
  <2>5. ReadAnyValue(<<r>>) = v
    <3>1. <<r>> # <<>> /\ Last(<<r>>) = r
      BY DEF Last
    <3>2. ReadAnyValue(<<r>>) = [kind |-> "bool", value |-> r.value]
      BY ONLY <2>1, <2>4, <3>1 DEF ReadAnyValue
    <3> QED
      BY ONLY <2>2, <2>4, <3>2
  <2> QED
    BY ONLY <1>2, <1>3, <2>3, <2>4, <2>5
<1>4. CASE v.kind = "int"
  <2>1. PICK f \in Nat : f = 3 /\ f # 0
    OBVIOUS
  <2>2. PICK n \in I64 : v = [kind |-> "int", value |-> n] /\ v.value = n
    BY <1>4 DEF AnyValue
  <2>3. AsU64(n) \in Nat /\ AsI64(AsU64(n)) = n
    BY WordsAre, SignedReads
  <2>4. Section(d, w, f, <<VarintRecord(f, AsU64(n))>>)
    <3>1. w = <<Bytes(EncodeVarintFieldAlways(f, AsU64(n)))>>
      BY ONLY <2>1, <1>0, <1>4, <2>2 DEF EncodeAnyValue
    <3> QED
      BY <2>1, <2>3, <3>1, FieldSections
  <2>5. PICK r \in Field : r = VarintRecord(f, AsU64(n)) /\ r.field = f /\ r.value = AsU64(n)
    <3>1. <<>> \in Text
      BY DEF Text
    <3> QED
      BY <2>3, <3>1, RecordsAre DEF VarintRecord
  <2>6. ReadAnyValue(<<r>>) = v
    <3>1. <<r>> # <<>> /\ Last(<<r>>) = r
      BY DEF Last
    <3>2. ReadAnyValue(<<r>>) = [kind |-> "int", value |-> AsI64(r.value)]
      BY ONLY <2>1, <2>5, <3>1 DEF ReadAnyValue
    <3> QED
      BY ONLY <2>3, <2>2, <2>5, <3>2
  <2> QED
    BY ONLY <1>2, <1>4, <2>4, <2>5, <2>6
<1>5. CASE v.kind = "double"
  <2>1. PICK f \in Nat : f = 4 /\ f # 0
    OBVIOUS
  <2>2. PICK n \in U64 : v = [kind |-> "double", value |-> n] /\ v.value = n
    BY <1>5 DEF AnyValue
  <2>3. n \in Nat
    BY WordsAre
  <2>4. Section(d, w, f, <<FixedRecord(f, n)>>)
    <3>1. w = <<Bytes(EncodeFixed64FieldAlways(f, n))>>
      BY ONLY <2>1, <1>0, <1>5, <2>2 DEF EncodeAnyValue
    <3> QED
      BY <2>1, <3>1, FieldSections
  <2>5. PICK r \in Field : r = FixedRecord(f, n) /\ r.field = f
    <3>1. <<>> \in Text
      BY DEF Text
    <3> QED
      BY <2>3, <3>1, RecordsAre DEF FixedRecord
  <2>6. ReadAnyValue(<<r>>) = v
    <3>1. <<r>> # <<>> /\ Last(<<r>>) = r
      BY DEF Last
    <3>2. ReadAnyValue(<<r>>) = [kind |-> "double", value |-> ReadFixed(<<r>>, f)]
      BY ONLY <2>1, <2>5, <3>1 DEF ReadAnyValue
    <3>3. ReadFixed(<<r>>, f) = n
      BY <2>3, <2>5, NumbersAsk
    <3> QED
      BY ONLY <2>2, <3>2, <3>3
  <2> QED
    BY ONLY <1>2, <1>5, <2>4, <2>5, <2>6
<1> QED
  BY <1>1, <1>3, <1>4, <1>5 DEF AnyValue

\* An attribute is read as it was meant, and is there if it says something.
KeyValueTold(d, kv) ==
  /\ EncodeKeyValue(kv) \in Seq(Writes[d]) /\ Allocating[d][EncodeKeyValue(kv)] \in Text
  /\ ReadKeyValue(FieldsOf(d, EncodeKeyValue(kv))) = [key |-> kv.key, value |-> MeantValue(kv.value)]
  /\ Allocating[d][EncodeKeyValue(kv)] # <<>> <=> (kv.key # <<>> \/ MeantValue(kv.value) # NoValue)

\* An attribute is told by two sections, its key and its value.
LEMMA KeyValueTells ==
  ASSUME ProtoAssumption, NEW d \in Nat, NEW kv \in KeyValue
  PROVE  KeyValueTold(d + 1, kv)
<1>1. PICK s \in Text, v \in AnyValue : kv.key = s /\ kv.value = v
  BY DEF KeyValue
<1>2. PICK a, b : a = <<Bytes(EncodeBytesField(1, s))>> /\ b = <<Message(2, <<EncodeAnyValue(v)>>)>>
  OBVIOUS
<1>3. EncodeKeyValue(kv) = a \o b
  BY <1>1, <1>2 DEF EncodeKeyValue
<1>4. ValueTold(d, v)
  BY AnyValueTells
<1>5. PICK body \in Seq(Writes[d]), t \in Text : /\ body = <<EncodeAnyValue(v)>> /\ body \in Seq(Writes[d]) /\ t = Allocating[d][body]
                              /\ ReadAnyValue(ReadFields[t]) = MeantValue(v) /\ (t = <<>> <=> MeantValue(v) = NoValue)
  BY <1>4 DEF ValueTold, FieldsOf
<1>6. PICK f \in Nat, g \in Nat : f = 1 /\ g = 2 /\ f # 0 /\ g # 0 /\ f # g
  OBVIOUS
<1>7. PICK e \in Nat : e = d + 1
  OBVIOUS
<1>8. Section(e, a, f, BytesFields(f, s)) /\ Section(e, b, g, BytesFields(g, t))
  <2>1. Section(e, a, f, BytesFields(f, s))
    BY <1>2, <1>6, FieldSections
  <2>2. Section(d + 1, <<Message(g, body)>>, g, BytesFields(g, Allocating[d][body]))
    BY <1>5, <1>6, MessageSection
  <2> QED
    BY ONLY <1>2, <1>5, <1>6, <1>7, <2>1, <2>2
<1>9. PICK S : S = {<<f, BytesFields(f, s)>>, <<g, BytesFields(g, t)>>}
  OBVIOUS
<1>10. PICK w : w = EncodeKeyValue(kv) /\ Tells(e, w, S)
  <2>1. Tells(e, a, {<<f, BytesFields(f, s)>>})
    BY <1>8, TellsOne
  <2>2. \A x \in {<<f, BytesFields(f, s)>>} : x[1] # g
    BY <1>6
  <2>3. Tells(e, a \o b, {<<f, BytesFields(f, s)>>} \cup {<<g, BytesFields(g, t)>>})
    BY <1>8, <2>1, <2>2, TellsMore
  <2>4. {<<f, BytesFields(f, s)>>} \cup {<<g, BytesFields(g, t)>>} = S
    BY <1>9
  <2> QED
    BY ONLY <1>3, <2>3, <2>4
<1>11. ReadBytes(FieldsOf(e, w), f) = s /\ ReadMessage(FieldsOf(e, w), g) = t
  <2>1. <<f, BytesFields(f, s)>> \in S /\ <<g, BytesFields(g, t)>> \in S
    BY <1>9
  <2>2. ReadBytes(FieldsOf(e, w), f) = s
    BY <1>10, <2>1, TellsText
  <2>3. ReadMessage(FieldsOf(e, w), g) = t
    BY <1>10, <2>1, TellsText
  <2> QED
    BY <2>2, <2>3
<1>12. w \in Seq(Writes[e]) /\ Allocating[e][w] \in Text /\ (Allocating[e][w] # <<>> <=> (s # <<>> \/ t # <<>>))
  <2>1. (\E x \in S : x[2] # <<>>) <=> (BytesFields(f, s) # <<>> \/ BytesFields(g, t) # <<>>)
    BY ONLY <1>9
  <2>2. (BytesFields(f, s) = <<>> <=> s = <<>>) /\ (BytesFields(g, t) = <<>> <=> t = <<>>)
    BY BytesAsk
  <2>3. w \in Seq(Writes[e]) /\ Allocating[e][w] \in Text /\ (Allocating[e][w] # <<>> <=> \E x \in S : x[2] # <<>>)
    BY <1>10, TellsWhether
  <2> QED
    BY ONLY <2>1, <2>2, <2>3
<1>13. ReadKeyValue(FieldsOf(e, w)) = [key |-> s, value |-> MeantValue(v)]
  BY ONLY <1>5, <1>6, <1>11 DEF ReadKeyValue
<1> QED
  BY ONLY <1>1, <1>5, <1>7, <1>10, <1>12, <1>13 DEF KeyValueTold

\* Some messages in a field are read as what was meant by those that are there.
RepeatedTold(d, v, f, m, values, positions) ==
  \E texts \in Seq(Text) :
    /\ Section(d, v, f, MessageFields(f, texts)) /\ Kept(texts, Full(texts)) \in Seq(Text)
    /\ Mapped(m, Kept(texts, Full(texts))) = Kept(values, positions)

\* The bodies of some messages and the values that a reader makes of their bytes.
Alike(q, items) == DOMAIN q = DOMAIN items /\ q = [i \in DOMAIN items |-> q[i]]
BodiesMean(d, items, bodies, m, values) ==
  /\ Alike(bodies, items) /\ Alike(values, items) /\ m = [t \in Text |-> m[t]]
  /\ \A i \in DOMAIN items : bodies[i] \in Seq(Writes[d]) /\ m[Allocating[d][bodies[i]]] = values[i]
Saying(d, items, bodies) == {i \in DOMAIN items : Allocating[d][bodies[i]] # <<>>}

\* A message for each item is read as what its items mean, without the silent ones.
LEMMA RepeatedTell ==
  ASSUME ProtoAssumption, NEW d \in Nat, NEW f \in Nat, f # 0, NEW T, NEW items \in Seq(T),
         NEW bodies, NEW m, NEW values, BodiesMean(d, items, bodies, m, values),
         NEW v, v = [i \in DOMAIN items |-> Message(f, bodies[i])]
  PROVE  RepeatedTold(d + 1, v, f, m, values, Saying(d, items, bodies))
<1>0. /\ DOMAIN bodies = DOMAIN items /\ bodies = [i \in DOMAIN items |-> bodies[i]]
      /\ DOMAIN values = DOMAIN items /\ values = [i \in DOMAIN items |-> values[i]]
      /\ m = [t \in Text |-> m[t]]
      /\ \A i \in DOMAIN items : bodies[i] \in Seq(Writes[d]) /\ m[Allocating[d][bodies[i]]] = values[i]
  BY ONLY BodiesMean(d, items, bodies, m, values) DEF BodiesMean, Alike
<1>1. bodies \in Seq(Seq(Writes[d]))
  BY ONLY MessagesAre, items \in Seq(T), <1>0
<1>2. PICK texts \in Seq(Text) : /\ texts = Texts(d, bodies) /\ DOMAIN texts = DOMAIN items
                                 /\ \A i \in DOMAIN items : texts[i] = Allocating[d][bodies[i]]
  <2>1. /\ Texts(d, bodies) \in Seq(Text) /\ DOMAIN Texts(d, bodies) = DOMAIN bodies
        /\ \A i \in DOMAIN bodies : Texts(d, bodies)[i] = Allocating[d][bodies[i]]
    BY <1>1, TextsAre
  <2> QED
    BY ONLY <1>0, <2>1
<1>3. Section(d + 1, v, f, MessageFields(f, texts))
  BY ONLY <1>0, <1>1, <1>2, MessagesSection, ProtoAssumption, d \in Nat, f \in Nat, f # 0,
          v = [i \in DOMAIN items |-> Message(f, bodies[i])]
<1>4. ReadsEach(m, texts, values)
  <2>1. \A i \in DOMAIN texts : m[texts[i]] = values[i]
    BY ONLY <1>0, <1>2
  <2>2. DOMAIN values = DOMAIN texts /\ values = [i \in DOMAIN texts |-> values[i]]
    BY ONLY <1>0, <1>2
  <2> QED
    BY ONLY <1>0, <2>1, <2>2, EachMeant, texts \in Seq(Text)
<1>5. Full(texts) = Saying(d, items, bodies)
  BY ONLY <1>2 DEF Full, Saying
<1>6. Kept(texts, Full(texts)) \in Seq(Text)
  BY ONLY KeptTexts, texts \in Seq(Text)
<1> QED
  BY ONLY <1>3, <1>4, <1>5, <1>6, texts \in Seq(Text) DEF ReadsEach, RepeatedTold

\* The attributes in a field are read as they were meant.
KeyValueReader == [t \in Text |-> ReadKeyValue(ReadFields[t])]
KeyValuesTold(d, f, kvs) ==
  \E texts \in Seq(Text) :
    /\ Section(d, Messages(f, EncodeKeyValue, kvs), f, MessageFields(f, texts))
    /\ Each(ReadKeyValue, Kept(texts, Full(texts))) = MeantKeyValues(kvs)

\* The attributes of a span, a log or a resource are read, without the silent ones.
LEMMA KeyValuesTell ==
  ASSUME ProtoAssumption, NEW d \in Nat, NEW f \in Nat, f # 0, NEW kvs \in Seq(KeyValue)
  PROVE  KeyValuesTold((d + 1) + 1, f, kvs)
<1>1. PICK e \in Nat : e = d + 1
  OBVIOUS
<1>2. ASSUME NEW i \in DOMAIN kvs PROVE KeyValueTold(e, kvs[i])
  <2>1. kvs[i] \in KeyValue
    OBVIOUS
  <2>2. KeyValueTold(d + 1, kvs[i])
    BY <2>1, KeyValueTells
  <2> QED
    BY ONLY <1>1, <2>2
<1>3. PICK bodies, values :
        /\ bodies = [i \in DOMAIN kvs |-> EncodeKeyValue(kvs[i])]
        /\ values = [i \in DOMAIN kvs |-> [key |-> kvs[i].key, value |-> MeantValue(kvs[i].value)]]
  OBVIOUS
<1>4. /\ DOMAIN bodies = DOMAIN kvs /\ bodies = [i \in DOMAIN kvs |-> bodies[i]]
      /\ \A i \in DOMAIN kvs : bodies[i] = EncodeKeyValue(kvs[i])
      /\ DOMAIN values = DOMAIN kvs /\ values = [i \in DOMAIN kvs |-> values[i]]
      /\ \A i \in DOMAIN kvs : values[i] = [key |-> kvs[i].key, value |-> MeantValue(kvs[i].value)]
  BY ONLY <1>3
<1>5. PICK m : /\ m = KeyValueReader /\ m = [t \in Text |-> m[t]]
               /\ \A t \in Text : m[t] = ReadKeyValue(ReadFields[t])
  <2>1. PICK m : m = [t \in Text |-> ReadKeyValue(ReadFields[t])]
    OBVIOUS
  <2>2. m = [t \in Text |-> m[t]] /\ \A t \in Text : m[t] = ReadKeyValue(ReadFields[t])
    BY ONLY <2>1
  <2> QED
    BY ONLY <2>1, <2>2 DEF KeyValueReader
<1>6. \A i \in DOMAIN kvs : bodies[i] \in Seq(Writes[e]) /\ m[Allocating[e][bodies[i]]] = values[i]
  BY ONLY <1>2, <1>4, <1>5 DEF KeyValueTold, FieldsOf
<1>7. PICK v : v = Messages(f, EncodeKeyValue, kvs) /\ v = [i \in DOMAIN kvs |-> Message(f, bodies[i])]
  BY ONLY <1>4 DEF Messages
<1>8. PICK P : P = Saying(e, kvs, bodies)
  OBVIOUS
<1>9. RepeatedTold(e + 1, v, f, m, values, P)
  <2>1. BodiesMean(e, kvs, bodies, m, values)
    BY ONLY <1>4, <1>5, <1>6 DEF BodiesMean, Alike
  <2> QED
    BY <1>7, <1>8, <2>1, RepeatedTell
<1>10. PICK texts \in Seq(Text), kept \in Seq(Text) :
          /\ Section(e + 1, v, f, MessageFields(f, texts)) /\ kept = Kept(texts, Full(texts))
          /\ Mapped(m, kept) = Kept(values, P)
  BY ONLY <1>9 DEF RepeatedTold
<1>11. P = {i \in DOMAIN kvs : kvs[i].key # <<>> \/ MeantValue(kvs[i].value) # NoValue}
  BY ONLY <1>2, <1>4, <1>8 DEF KeyValueTold, Saying
<1>12. Each(ReadKeyValue, kept) = Mapped(m, kept)
  <2>1. \A i \in DOMAIN kept : kept[i] \in Text
    OBVIOUS
  <2> QED
    BY ONLY <1>5, <2>1 DEF Each, Mapped
<1>13. Each(ReadKeyValue, kept) = MeantKeyValues(kvs)
  BY ONLY <1>3, <1>10, <1>11, <1>12 DEF MeantKeyValues
<1> QED
  BY ONLY <1>1, <1>7, <1>10, <1>13, texts \in Seq(Text) DEF KeyValuesTold

\* Two sections of different numbers tell both.
LEMMA TellsTwo ==
  ASSUME ProtoAssumption, NEW d \in Nat, NEW a, NEW f, NEW p, Section(d, a, f, p),
         NEW b, NEW g, NEW q, Section(d, b, g, q), f # g
  PROVE  Tells(d, a \o b, {<<f, p>>, <<g, q>>})
<1>1. Tells(d, a, {<<f, p>>})
  BY TellsOne
<1>2. \A x \in {<<f, p>>} : x[1] # g
  OBVIOUS
<1>3. Tells(d, a \o b, {<<f, p>>} \cup {<<g, q>>})
  BY <1>1, <1>2, TellsMore
<1>4. {<<f, p>>} \cup {<<g, q>>} = {<<f, p>>, <<g, q>>}
  OBVIOUS
<1> QED
  BY ONLY <1>3, <1>4

\* A status is read as it is, and is there if it says something.
StatusTold(d, status) ==
  /\ EncodeStatus(status) \in Seq(Writes[d]) /\ Allocating[d][EncodeStatus(status)] \in Text
  /\ ReadStatus(FieldsOf(d, EncodeStatus(status))) = status
  /\ Allocating[d][EncodeStatus(status)] # <<>> <=> (status.message # <<>> \/ status.code # 0)

LEMMA StatusTells ==
  ASSUME ProtoAssumption, NEW d \in Nat, NEW status \in SpanStatus
  PROVE  StatusTold(d, status)
<1>1. PICK s \in Text, n \in Nat :
        status.message = s /\ status.code = n /\ status = [message |-> s, code |-> n]
  BY DEF SpanStatus
<1>2. PICK f \in Nat, g \in Nat : f = 2 /\ g = 3 /\ f # 0 /\ g # 0 /\ f # g
  OBVIOUS
<1>3. PICK a, b : a = <<Bytes(EncodeBytesField(f, s))>> /\ b = <<Bytes(EncodeVarintField(g, n))>>
  OBVIOUS
<1>4. PICK w : w = EncodeStatus(status) /\ w = a \o b
  <2>1. EncodeStatus(status) = a \o b
    BY <1>1, <1>2, <1>3 DEF EncodeStatus
  <2> QED
    BY ONLY <2>1
<1>5. Section(d, a, f, BytesFields(f, s)) /\ Section(d, b, g, VarintFields(g, n))
  BY <1>2, <1>3, FieldSections
<1>6. PICK S : S = {<<f, BytesFields(f, s)>>, <<g, VarintFields(g, n)>>} /\ Tells(d, w, S)
  <2>1. Tells(d, a \o b, {<<f, BytesFields(f, s)>>, <<g, VarintFields(g, n)>>})
    BY <1>2, <1>5, TellsTwo
  <2> QED
    BY ONLY <1>4, <2>1
<1>0. Tells(d, w, S)
  BY ONLY <1>6
<1>7. ReadBytes(FieldsOf(d, w), f) = s
  <2>1. <<f, BytesFields(f, s)>> \in S
    BY ONLY <1>6
  <2> QED
    BY <1>0, <2>1, TellsText
<1>8. ReadNumber(FieldsOf(d, w), g) = n
  <2>1. <<g, VarintFields(g, n)>> \in S
    BY ONLY <1>6
  <2> QED
    BY <1>0, <2>1, TellsNumber
<1>9. w \in Seq(Writes[d]) /\ Allocating[d][w] \in Text /\ (Allocating[d][w] # <<>> <=> (s # <<>> \/ n # 0))
  <2>1. (\E x \in S : x[2] # <<>>) <=> (BytesFields(f, s) # <<>> \/ VarintFields(g, n) # <<>>)
    BY ONLY <1>6
  <2>2. (BytesFields(f, s) # <<>> <=> s # <<>>) /\ (VarintFields(g, n) # <<>> <=> n # 0)
    BY DEF BytesFields, VarintFields
  <2>3. w \in Seq(Writes[d]) /\ Allocating[d][w] \in Text /\ (Allocating[d][w] # <<>> <=> \E x \in S : x[2] # <<>>)
    BY <1>0, TellsWhether
  <2> QED
    BY ONLY <2>1, <2>2, <2>3
<1>10. ReadStatus(FieldsOf(d, w)) = [message |-> s, code |-> n]
  BY ONLY <1>2, <1>7, <1>8 DEF ReadStatus
<1> QED
  BY ONLY <1>1, <1>4, <1>9, <1>10 DEF StatusTold

StatusReader == [t \in Text |-> ReadStatus(ReadFields[t])]
\* The statuses in a field are read as they were meant.
StatusesTold(d, f, ss) ==
  \E texts \in Seq(Text) :
    /\ Section(d, Messages(f, EncodeStatus, ss), f, MessageFields(f, texts))
    /\ Each(ReadStatus, Kept(texts, Full(texts))) = MeantStatus(ss)

LEMMA StatusesTell ==
  ASSUME ProtoAssumption, NEW d \in Nat, NEW f \in Nat, f # 0, NEW ss \in Seq(SpanStatus)
  PROVE  StatusesTold(d + 1, f, ss)
<1>2. ASSUME NEW i \in DOMAIN ss PROVE StatusTold(d, ss[i])
  <2>1. ss[i] \in SpanStatus
    OBVIOUS
  <2> QED
    BY <2>1, StatusTells
<1>3. PICK bodies : bodies = [i \in DOMAIN ss |-> EncodeStatus(ss[i])]
  OBVIOUS
<1>4. Alike(bodies, ss) /\ Alike(ss, ss) /\ \A i \in DOMAIN ss : bodies[i] = EncodeStatus(ss[i])
  BY <1>3 DEF Alike
<1>5. PICK m : /\ m = [t \in Text |-> m[t]] /\ \A t \in Text : m[t] = ReadStatus(ReadFields[t])
  <2>1. StatusReader = [t \in Text |-> StatusReader[t]] /\ \A t \in Text : StatusReader[t] = ReadStatus(ReadFields[t])
    BY DEF StatusReader
  <2> QED
    BY <2>1
<1>6. BodiesMean(d, ss, bodies, m, ss)
  <2>1. \A i \in DOMAIN ss : bodies[i] \in Seq(Writes[d]) /\ m[Allocating[d][bodies[i]]] = ss[i]
    BY ONLY <1>2, <1>4, <1>5 DEF StatusTold, FieldsOf
  <2> QED
    BY ONLY <1>4, <1>5, <2>1 DEF BodiesMean
<1>7. PICK v : v = Messages(f, EncodeStatus, ss) /\ v = [i \in DOMAIN ss |-> Message(f, bodies[i])]
  BY ONLY <1>4 DEF Messages
<1>8. PICK P : P = Saying(d, ss, bodies)
  OBVIOUS
<1>9. RepeatedTold(d + 1, v, f, m, ss, P)
  BY <1>6, <1>7, <1>8, RepeatedTell
<1>10. PICK texts \in Seq(Text), kept \in Seq(Text) :
          /\ Section(d + 1, v, f, MessageFields(f, texts)) /\ kept = Kept(texts, Full(texts))
          /\ Mapped(m, kept) = Kept(ss, P)
  BY ONLY <1>9 DEF RepeatedTold
<1>11. P = {i \in DOMAIN ss : ss[i].message # <<>> \/ ss[i].code # 0}
  BY ONLY <1>2, <1>4, <1>8 DEF StatusTold, Saying
<1>12. Each(ReadStatus, kept) = Mapped(m, kept)
  <2>1. \A i \in DOMAIN kept : kept[i] \in Text
    OBVIOUS
  <2> QED
    BY ONLY <1>5, <2>1 DEF Each, Mapped
<1>13. Each(ReadStatus, kept) = MeantStatus(ss)
  BY ONLY <1>10, <1>11, <1>12 DEF MeantStatus
<1> QED
  BY ONLY <1>7, <1>10, <1>13, texts \in Seq(Text) DEF StatusesTold

\* An attribute of a data point is read as it is, and is there if it says something.
AttrTold(d, attr) ==
  /\ EncodeAttrKeyValue(attr) \in Seq(Writes[d]) /\ Allocating[d][EncodeAttrKeyValue(attr)] \in Text
  /\ ReadAttr(FieldsOf(d, EncodeAttrKeyValue(attr))) = attr
  /\ Allocating[d][EncodeAttrKeyValue(attr)] # <<>> <=> (attr.key # <<>> \/ attr.value # <<>>)

LEMMA AttrTells ==
  ASSUME ProtoAssumption, NEW d \in Nat, NEW attr \in Pair
  PROVE  AttrTold(d + 1, attr)
<1>1. PICK s \in Text, u \in Text : attr.key = s /\ attr.value = u /\ attr = [key |-> s, value |-> u]
  BY DEF Pair
<1>2. PICK f \in Nat, g \in Nat : f = 1 /\ g = 2 /\ f # 0 /\ g # 0 /\ f # g
  OBVIOUS
<1>3. PICK body : body = <<Bytes(EncodeBytesField(f, u))>>
  OBVIOUS
<1>4. Tells(d, body, {<<f, BytesFields(f, u)>>})
  BY <1>2, <1>3, FieldSections, TellsOne
<1>5. PICK t \in Text : /\ t = Allocating[d][body] /\ body \in Seq(Writes[d]) /\ ReadBytes(ReadFields[t], f) = u
                        /\ (t # <<>> <=> u # <<>>)
  <2>0. PICK S : S = {<<f, BytesFields(f, u)>>}
    OBVIOUS
  <2>1. Tells(d, body, S) /\ <<f, BytesFields(f, u)>> \in S
    BY ONLY <1>4, <2>0
  <2>2. ReadBytes(FieldsOf(d, body), f) = u
    BY <2>1, TellsText
  <2>3. /\ body \in Seq(Writes[d]) /\ Allocating[d][body] \in Text
        /\ (Allocating[d][body] # <<>> <=> \E x \in S : x[2] # <<>>)
    BY <2>1, TellsWhether
  <2>4. BytesFields(f, u) # <<>> <=> u # <<>>
    BY DEF BytesFields
  <2>5. (\E x \in S : x[2] # <<>>) <=> BytesFields(f, u) # <<>>
    BY ONLY <2>0
  <2> QED
    BY ONLY <2>2, <2>3, <2>4, <2>5 DEF FieldsOf
<1>6. PICK e \in Nat : e = d + 1
  OBVIOUS
<1>7. PICK a, b : a = <<Bytes(EncodeBytesField(f, s))>> /\ b = <<Message(g, body)>>
  OBVIOUS
<1>8. PICK w : w = EncodeAttrKeyValue(attr) /\ w = a \o b
  <2>1. EncodeAttrKeyValue(attr) = a \o b
    BY <1>1, <1>2, <1>3, <1>7 DEF EncodeAttrKeyValue
  <2> QED
    BY ONLY <2>1
<1>9. Section(e, a, f, BytesFields(f, s)) /\ Section(e, b, g, BytesFields(g, t))
  <2>1. Section(e, a, f, BytesFields(f, s))
    BY <1>2, <1>7, FieldSections
  <2>2. Section(d + 1, <<Message(g, body)>>, g, BytesFields(g, Allocating[d][body]))
    BY <1>2, <1>5, MessageSection
  <2> QED
    BY ONLY <1>5, <1>6, <1>7, <2>1, <2>2
<1>10. PICK S : S = {<<f, BytesFields(f, s)>>, <<g, BytesFields(g, t)>>} /\ Tells(e, w, S)
  <2>1. Tells(e, a \o b, {<<f, BytesFields(f, s)>>, <<g, BytesFields(g, t)>>})
    BY <1>2, <1>9, TellsTwo
  <2> QED
    BY ONLY <1>8, <2>1
<1>0. Tells(e, w, S)
  BY ONLY <1>10
<1>11. ReadBytes(FieldsOf(e, w), f) = s /\ ReadMessage(FieldsOf(e, w), g) = t
  <2>1. <<f, BytesFields(f, s)>> \in S /\ <<g, BytesFields(g, t)>> \in S
    BY ONLY <1>10
  <2>2. ReadBytes(FieldsOf(e, w), f) = s
    BY <1>0, <2>1, TellsText
  <2>3. ReadMessage(FieldsOf(e, w), g) = t
    BY <1>0, <2>1, TellsText
  <2> QED
    BY <2>2, <2>3
<1>12. w \in Seq(Writes[e]) /\ Allocating[e][w] \in Text /\ (Allocating[e][w] # <<>> <=> (s # <<>> \/ t # <<>>))
  <2>1. (\E x \in S : x[2] # <<>>) <=> (BytesFields(f, s) # <<>> \/ BytesFields(g, t) # <<>>)
    BY ONLY <1>10
  <2>2. (BytesFields(f, s) = <<>> <=> s = <<>>) /\ (BytesFields(g, t) = <<>> <=> t = <<>>)
    BY BytesAsk
  <2>3. w \in Seq(Writes[e]) /\ Allocating[e][w] \in Text /\ (Allocating[e][w] # <<>> <=> \E x \in S : x[2] # <<>>)
    BY <1>0, TellsWhether
  <2> QED
    BY ONLY <2>1, <2>2, <2>3
<1>13. ReadAttr(FieldsOf(e, w)) = [key |-> s, value |-> u]
  BY ONLY <1>2, <1>5, <1>11 DEF ReadAttr
<1> QED
  BY ONLY <1>1, <1>5, <1>6, <1>8, <1>12, <1>13 DEF AttrTold

AttrReader == [t \in Text |-> ReadAttr(ReadFields[t])]
\* The attributes of data points in a field are read as they were meant.
AttrsTold(d, f, attrs) ==
  \E texts \in Seq(Text) :
    /\ Section(d, Messages(f, EncodeAttrKeyValue, attrs), f, MessageFields(f, texts))
    /\ Each(ReadAttr, Kept(texts, Full(texts))) = MeantAttrs(attrs)

LEMMA AttrsTell ==
  ASSUME ProtoAssumption, NEW d \in Nat, NEW f \in Nat, f # 0, NEW attrs \in Seq(Pair)
  PROVE  AttrsTold((d + 1) + 1, f, attrs)
<1>1. PICK e \in Nat : e = d + 1
  OBVIOUS
<1>2. ASSUME NEW i \in DOMAIN attrs PROVE AttrTold(e, attrs[i])
  <2>1. attrs[i] \in Pair
    OBVIOUS
  <2>2. AttrTold(d + 1, attrs[i])
    BY <2>1, AttrTells
  <2> QED
    BY ONLY <1>1, <2>2
<1>3. PICK bodies : bodies = [i \in DOMAIN attrs |-> EncodeAttrKeyValue(attrs[i])]
  OBVIOUS
<1>4. Alike(bodies, attrs) /\ Alike(attrs, attrs) /\ \A i \in DOMAIN attrs : bodies[i] = EncodeAttrKeyValue(attrs[i])
  BY <1>3 DEF Alike
<1>5. PICK m : /\ m = [t \in Text |-> m[t]] /\ \A t \in Text : m[t] = ReadAttr(ReadFields[t])
  <2>1. AttrReader = [t \in Text |-> AttrReader[t]] /\ \A t \in Text : AttrReader[t] = ReadAttr(ReadFields[t])
    BY DEF AttrReader
  <2> QED
    BY <2>1
<1>6. BodiesMean(e, attrs, bodies, m, attrs)
  <2>1. \A i \in DOMAIN attrs : bodies[i] \in Seq(Writes[e]) /\ m[Allocating[e][bodies[i]]] = attrs[i]
    BY ONLY <1>2, <1>4, <1>5 DEF AttrTold, FieldsOf
  <2> QED
    BY ONLY <1>4, <1>5, <2>1 DEF BodiesMean
<1>7. PICK v : v = Messages(f, EncodeAttrKeyValue, attrs) /\ v = [i \in DOMAIN attrs |-> Message(f, bodies[i])]
  BY ONLY <1>4 DEF Messages
<1>8. PICK P : P = Saying(e, attrs, bodies)
  OBVIOUS
<1>9. RepeatedTold(e + 1, v, f, m, attrs, P)
  BY <1>6, <1>7, <1>8, RepeatedTell
<1>10. PICK texts \in Seq(Text), kept \in Seq(Text) :
          /\ Section(e + 1, v, f, MessageFields(f, texts)) /\ kept = Kept(texts, Full(texts))
          /\ Mapped(m, kept) = Kept(attrs, P)
  BY ONLY <1>9 DEF RepeatedTold
<1>11. P = {i \in DOMAIN attrs : attrs[i].key # <<>> \/ attrs[i].value # <<>>}
  BY ONLY <1>2, <1>4, <1>8 DEF AttrTold, Saying
<1>12. Each(ReadAttr, kept) = Mapped(m, kept)
  <2>1. \A i \in DOMAIN kept : kept[i] \in Text
    OBVIOUS
  <2> QED
    BY ONLY <1>5, <2>1 DEF Each, Mapped
<1>13. Each(ReadAttr, kept) = MeantAttrs(attrs)
  BY ONLY <1>10, <1>11, <1>12 DEF MeantAttrs
<1> QED
  BY ONLY <1>1, <1>7, <1>10, <1>13, texts \in Seq(Text) DEF AttrsTold

\* Writes that are read as the parts S, whose numbers are below n.
TellsBelow(d, w, S, n) == Tells(d, w, S) /\ n \in Nat /\ \A x \in S : x[1] < n

\* Sections in the order of their numbers: none, and one, two, three or four more.
LEMMA BelowNothing == ASSUME ProtoAssumption, NEW d \in Nat PROVE TellsBelow(d, <<>>, {}, 0)
  BY TellsNothing DEF TellsBelow

LEMMA BelowOne ==
  ASSUME ProtoAssumption, NEW d \in Nat, NEW w, NEW S, NEW n, TellsBelow(d, w, S, n),
         NEW v, NEW f, NEW p, Section(d, v, f, p), n <= f
  PROVE  TellsBelow(d, w \o v, S \cup {<<f, p>>}, f + 1)
<1>1. f \in Nat /\ n \in Nat /\ \A x \in S : x[1] < n
  BY DEF Section, TellsBelow
<1>2. ASSUME NEW x \in S PROVE x[1] # f /\ x[1] < f + 1
  <2>1. x[1] \in Nat
    BY DEF TellsBelow, Tells, Told
  <2> QED
    BY ONLY <1>1, <2>1, n <= f, x \in S
<1>3. Tells(d, w \o v, S \cup {<<f, p>>})
  BY <1>2, TellsMore DEF TellsBelow
<1>4. \A x \in S \cup {<<f, p>>} : x[1] < f + 1
  BY ONLY <1>1, <1>2
<1>5. f + 1 \in Nat
  BY ONLY <1>1
<1> QED
  BY ONLY <1>3, <1>4, <1>5 DEF TellsBelow

LEMMA BelowTwo ==
  ASSUME ProtoAssumption, NEW d \in Nat, NEW w, NEW S, NEW n, TellsBelow(d, w, S, n),
         NEW a, NEW f, NEW p, Section(d, <<a>>, f, p), n <= f,
         NEW b, NEW g, NEW q, Section(d, <<b>>, g, q), f < g
  PROVE  TellsBelow(d, w \o <<a, b>>, S \cup {<<f, p>>, <<g, q>>}, g + 1)
<1>0. f \in Nat /\ g \in Nat /\ f + 1 <= g
  BY DEF Section
<1>1. PICK u, T : u = w \o <<a>> /\ T = S \cup {<<f, p>>} /\ TellsBelow(d, u, T, f + 1)
  BY BelowOne
<1>2. TellsBelow(d, u \o <<b>>, T \cup {<<g, q>>}, g + 1)
  BY <1>0, <1>1, BelowOne
<1>3. u \o <<b>> = w \o <<a, b>>
  <2>1. PICK X : w \in Seq(X) /\ <<a>> \in Seq(X) /\ <<b>> \in Seq(X)
    BY DEF TellsBelow, Tells, Section
  <2>2. (w \o <<a>>) \o <<b>> = w \o <<a, b>>
    BY ONLY <2>1, JoinTwo
  <2> QED
    BY ONLY <1>1, <2>2
<1>4. T \cup {<<g, q>>} = S \cup {<<f, p>>, <<g, q>>}
  BY ONLY <1>1
<1> QED
  BY ONLY <1>2, <1>3, <1>4

LEMMA BelowThree ==
  ASSUME ProtoAssumption, NEW d \in Nat, NEW w, NEW S, NEW n, TellsBelow(d, w, S, n),
         NEW a, NEW f, NEW p, Section(d, <<a>>, f, p), n <= f,
         NEW b, NEW g, NEW q, Section(d, <<b>>, g, q), f < g,
         NEW c, NEW h, NEW r, Section(d, <<c>>, h, r), g < h
  PROVE  TellsBelow(d, w \o <<a, b, c>>, S \cup {<<f, p>>, <<g, q>>, <<h, r>>}, h + 1)
<1>0. g \in Nat /\ h \in Nat /\ g + 1 <= h
  BY DEF Section
<1>1. PICK u, T : u = w \o <<a, b>> /\ T = S \cup {<<f, p>>, <<g, q>>} /\ TellsBelow(d, u, T, g + 1)
  BY BelowTwo
<1>2. TellsBelow(d, u \o <<c>>, T \cup {<<h, r>>}, h + 1)
  BY <1>0, <1>1, BelowOne
<1>3. u \o <<c>> = w \o <<a, b, c>>
  <2>1. PICK X : /\ w \in Seq(X) /\ <<a>> \in Seq(X) /\ <<b>> \in Seq(X) /\ <<c>> \in Seq(X)
    BY DEF TellsBelow, Tells, Section
  <2>2. (w \o <<a>>) \o <<b>> = w \o <<a, b>>
    BY ONLY <2>1, JoinTwo
  <2>3. ((w \o <<a>>) \o <<b>>) \o <<c>> = w \o <<a, b, c>>
    BY ONLY <2>1, JoinThree
  <2> QED
    BY ONLY <1>1, <2>2, <2>3
<1>4. T \cup {<<h, r>>} = S \cup {<<f, p>>, <<g, q>>, <<h, r>>}
  BY ONLY <1>1
<1> QED
  BY ONLY <1>2, <1>3, <1>4

LEMMA BelowFour ==
  ASSUME ProtoAssumption, NEW d \in Nat, NEW w, NEW S, NEW n, TellsBelow(d, w, S, n),
         NEW a, NEW f, NEW p, Section(d, <<a>>, f, p), n <= f,
         NEW b, NEW g, NEW q, Section(d, <<b>>, g, q), f < g,
         NEW c, NEW h, NEW r, Section(d, <<c>>, h, r), g < h,
         NEW e, NEW k, NEW t, Section(d, <<e>>, k, t), h < k
  PROVE  TellsBelow(d, w \o <<a, b, c, e>>, S \cup {<<f, p>>, <<g, q>>, <<h, r>>, <<k, t>>}, k + 1)
<1>0. h \in Nat /\ k \in Nat /\ h + 1 <= k
  BY DEF Section
<1>1. PICK u, T : u = w \o <<a, b, c>> /\ T = S \cup {<<f, p>>, <<g, q>>, <<h, r>>} /\ TellsBelow(d, u, T, h + 1)
  <2>1. TellsBelow(d, w \o <<a, b, c>>, S \cup {<<f, p>>, <<g, q>>, <<h, r>>}, h + 1)
    BY BelowThree
  <2> QED
    BY ONLY <2>1
<1>2. TellsBelow(d, u \o <<e>>, T \cup {<<k, t>>}, k + 1)
  BY <1>0, <1>1, BelowOne
<1>3. u \o <<e>> = w \o <<a, b, c, e>>
  <2>1. PICK X : /\ w \in Seq(X) /\ <<a>> \in Seq(X) /\ <<b>> \in Seq(X) /\ <<c>> \in Seq(X) /\ <<e>> \in Seq(X)
    BY DEF TellsBelow, Tells, Section
  <2>2. ((w \o <<a>>) \o <<b>>) \o <<c>> = w \o <<a, b, c>>
    BY ONLY <2>1, JoinThree
  <2>3. /\ a \in X /\ b \in X /\ c \in X /\ e \in X
        /\ (w \o <<a, b, c>>) \o <<e>> = w \o <<a, b, c, e>>
    <3>1. a \in X /\ b \in X /\ c \in X /\ e \in X
      BY ONLY <2>1, Adding
    <3> QED
      BY ONLY <2>1, <3>1
  <2> QED
    BY ONLY <1>1, <2>2, <2>3
<1>4. T \cup {<<k, t>>} = S \cup {<<f, p>>, <<g, q>>, <<h, r>>, <<k, t>>}
  BY ONLY <1>1
<1> QED
  BY ONLY <1>2, <1>3, <1>4

\* Four sections in any order, of different numbers, tell all four.
LEMMA TellsFour ==
  ASSUME ProtoAssumption, NEW d \in Nat,
         NEW a, NEW f, NEW p, Section(d, <<a>>, f, p),
         NEW b, NEW g, NEW q, Section(d, <<b>>, g, q),
         NEW c, NEW h, NEW r, Section(d, <<c>>, h, r),
         NEW e, NEW k, NEW t, Section(d, <<e>>, k, t),
         g # f, h # f, h # g, k # f, k # g, k # h
  PROVE  Tells(d, <<a, b, c, e>>, {<<f, p>>, <<g, q>>, <<h, r>>, <<k, t>>})
<1>1. PICK R : R = {<<f, p>>, <<g, q>>} /\ Tells(d, <<a>> \o <<b>>, R)
  <2>1. Tells(d, <<a>> \o <<b>>, {<<f, p>>, <<g, q>>})
    BY TellsTwo
  <2> QED
    BY ONLY <2>1
<1>2. PICK S : S = R \cup {<<h, r>>} /\ Tells(d, (<<a>> \o <<b>>) \o <<c>>, S)
  <2>1. \A x \in R : x[1] # h
    BY ONLY <1>1, h # f, h # g
  <2>2. Tells(d, (<<a>> \o <<b>>) \o <<c>>, R \cup {<<h, r>>})
    BY <1>1, <2>1, TellsMore
  <2> QED
    BY ONLY <2>2
<1>3. PICK T : T = S \cup {<<k, t>>} /\ Tells(d, ((<<a>> \o <<b>>) \o <<c>>) \o <<e>>, T)
  <2>1. \A x \in S : x[1] # k
    BY ONLY <1>1, <1>2, k # f, k # g, k # h
  <2>2. Tells(d, ((<<a>> \o <<b>>) \o <<c>>) \o <<e>>, S \cup {<<k, t>>})
    BY <1>2, <2>1, TellsMore
  <2> QED
    BY ONLY <2>2
<1>4. T = {<<f, p>>, <<g, q>>, <<h, r>>, <<k, t>>}
  BY ONLY <1>1, <1>2, <1>3
<1>5. ((<<a>> \o <<b>>) \o <<c>>) \o <<e>> = <<a, b, c, e>>
  <2>1. PICK X : <<a>> \in Seq(X) /\ <<b>> \in Seq(X) /\ <<c>> \in Seq(X) /\ <<e>> \in Seq(X)
    BY DEF Section
  <2>2. <<>> \in Seq(X) /\ <<>> \o <<a>> = <<a>>
    BY ONLY <2>1
  <2>3. (((<<>> \o <<a>>) \o <<b>>) \o <<c>>) \o <<e>> = <<>> \o <<a, b, c, e>> /\ <<a, b, c, e>> \in Seq(X)
    BY ONLY <2>1, <2>2, JoinFour
  <2>4. <<>> \o <<a, b, c, e>> = <<a, b, c, e>>
    BY ONLY <2>3
  <2> QED
    BY ONLY <2>2, <2>3, <2>4
<1> QED
  BY ONLY <1>3, <1>4, <1>5

\* An exemplar is read as it is, and is there.
ExemplarTold(d, ex) ==
  /\ EncodeExemplar(ex) \in Seq(Writes[d]) /\ Allocating[d][EncodeExemplar(ex)] \in Text \ {<<>>}
  /\ ReadExemplar(FieldsOf(d, EncodeExemplar(ex))) = ex

LEMMA ExemplarTells ==
  ASSUME ProtoAssumption, NEW d \in Nat, NEW ex \in Exemplar
  PROVE  ExemplarTold(d, ex)
<1>1. PICK n \in U64, u \in U64, s \in Text, z \in Text, g \in Nat :
        /\ ex.time = n /\ ex.span_id = s /\ ex.trace_id = z
        /\ ex = [time |-> n, kind |-> ex.kind, value |-> ex.value, span_id |-> s, trace_id |-> z]
        /\ \/ ex.kind = "double" /\ g = 3 /\ u = ex.value
           \/ ex.kind = "int" /\ g = 6 /\ u = AsU64(ex.value) /\ ex.value = AsI64(u)
  <2>1. PICK n \in U64, s \in Text, z \in Text :
          /\ ex.time = n /\ ex.span_id = s /\ ex.trace_id = z
          /\ ex = [time |-> n, kind |-> ex.kind, value |-> ex.value, span_id |-> s, trace_id |-> z]
    BY DEF Exemplar, ExemplarOf, Id
  <2>2. CASE ex.kind = "double"
    <3>1. ex.value \in U64
      BY <2>2 DEF Exemplar, ExemplarOf
    <3>2. 3 \in Nat
      OBVIOUS
    <3> QED
      BY ONLY <2>1, <2>2, <3>1, <3>2
  <2>3. CASE ex.kind = "int"
    <3>1. ex.value \in I64
      BY <2>3 DEF Exemplar, ExemplarOf
    <3>2. AsU64(ex.value) \in U64 /\ AsI64(AsU64(ex.value)) = ex.value
      BY <3>1, SignedReads
    <3>3. 6 \in Nat
      OBVIOUS
    <3> QED
      BY ONLY <2>1, <2>3, <3>2, <3>3
  <2> QED
    BY <2>2, <2>3 DEF Exemplar, ExemplarOf
<1>0. PICK i \in Nat, j \in Nat, k \in Nat :
        /\ i = 2 /\ j = 4 /\ k = 5 /\ i # 0 /\ j # 0 /\ k # 0 /\ g # 0
        /\ g # i /\ j # i /\ j # g /\ k # i /\ k # g /\ k # j
  <2>1. g = 3 \/ g = 6
    BY ONLY <1>1
  <2> QED
    BY ONLY <2>1
<1>2. PICK a, b, c, e : /\ a = Bytes(EncodeFixed64Field(i, n)) /\ b = Bytes(EncodeFixed64FieldAlways(g, u))
                        /\ c = Bytes(EncodeBytesField(j, s)) /\ e = Bytes(EncodeBytesField(k, z))
  OBVIOUS
<1>3. PICK p, q, r, t : /\ p = FixedFields(i, n) /\ q = <<FixedRecord(g, u)>>
                        /\ r = BytesFields(j, s) /\ t = BytesFields(k, z)
  OBVIOUS
<1>4. PICK w : w = EncodeExemplar(ex) /\ w = <<a, b, c, e>>
  <2>1. b = Bytes(IF ex.kind = "double" THEN EncodeFixed64FieldAlways(3, ex.value)
                  ELSE EncodeFixed64FieldAlways(6, AsU64(ex.value)))
    BY ONLY <1>1, <1>2
  <2>2. EncodeExemplar(ex) = <<a, b, c, e>>
    BY ONLY <1>0, <1>1, <1>2, <2>1 DEF EncodeExemplar
  <2> QED
    BY ONLY <2>2
<1>5. /\ Section(d, <<a>>, i, p) /\ Section(d, <<b>>, g, q)
      /\ Section(d, <<c>>, j, r) /\ Section(d, <<e>>, k, t)
  <2>1. i # 0 /\ j # 0 /\ k # 0 /\ g # 0
    BY ONLY <1>0
  <2>2. /\ Section(d, <<Bytes(EncodeFixed64Field(i, n))>>, i, FixedFields(i, n))
        /\ Section(d, <<Bytes(EncodeFixed64FieldAlways(g, u))>>, g, <<FixedRecord(g, u)>>)
        /\ Section(d, <<Bytes(EncodeBytesField(j, s))>>, j, BytesFields(j, s))
        /\ Section(d, <<Bytes(EncodeBytesField(k, z))>>, k, BytesFields(k, z))
    BY <2>1, FieldSections
  <2> QED
    BY ONLY <1>2, <1>3, <2>2
<1>9. PICK S : S = {<<i, p>>, <<g, q>>, <<j, r>>, <<k, t>>} /\ Tells(d, w, S)
  <2>1. g # i /\ j # i /\ j # g /\ k # i /\ k # g /\ k # j
    BY ONLY <1>0
  <2>2. Tells(d, <<a, b, c, e>>, {<<i, p>>, <<g, q>>, <<j, r>>, <<k, t>>})
    BY ONLY <1>5, <2>1, TellsFour, ProtoAssumption, d \in Nat
  <2> QED
    BY ONLY <1>4, <2>2
<1>10. /\ <<i, FixedFields(i, n)>> \in S /\ <<g, <<FixedRecord(g, u)>>>> \in S
       /\ <<j, BytesFields(j, s)>> \in S /\ <<k, BytesFields(k, z)>> \in S
  BY ONLY <1>3, <1>9
<1>11. PICK fields : fields = FieldsOf(d, w)
  OBVIOUS
<1>12. ReadFixed(fields, i) = n /\ ReadFixed(fields, g) = u /\ ReadBytes(fields, j) = s /\ ReadBytes(fields, k) = z
  <2>1. Tells(d, w, S)
    BY ONLY <1>9
  <2>2. ReadFixed(FieldsOf(d, w), i) = n
    BY <1>10, <2>1, TellsFixed
  <2>3. ReadFixed(FieldsOf(d, w), g) = u
    BY <1>10, <2>1, TellsFixedAlways
  <2>4. ReadBytes(FieldsOf(d, w), j) = s
    BY <1>10, <2>1, TellsText
  <2>5. ReadBytes(FieldsOf(d, w), k) = z
    BY <1>10, <2>1, TellsText
  <2> QED
    BY ONLY <1>11, <2>2, <2>3, <2>4, <2>5
<1>16. /\ w \in Seq(Writes[d]) /\ Allocating[d][w] \in Text \ {<<>>}
       /\ g = 3 => Has(fields, 3)
       /\ g = 6 => ~Has(fields, 3)
  <2>0. Tells(d, w, S)
    BY ONLY <1>9
  <2>1. /\ w \in Seq(Writes[d]) /\ Allocating[d][w] \in Text
        /\ (Allocating[d][w] # <<>> <=> \E x \in S : x[2] # <<>>)
        /\ \A f \in Nat : (\A x \in S : x[1] # f) => ~Has(FieldsOf(d, w), f)
        /\ \A x \in S : Has(FieldsOf(d, w), x[1]) <=> x[2] # <<>>
    BY ONLY ProtoAssumption, d \in Nat, <2>0, TellsWhether
  <2>2. <<FixedRecord(g, u)>> # <<>>
    OBVIOUS
  <2>3. Allocating[d][w] # <<>> /\ Has(fields, g)
    BY ONLY <1>10, <1>11, <2>1, <2>2
  <2>4. ASSUME g = 6 PROVE ~Has(fields, 3)
    <3>1. \A x \in S : x[1] # 3
      BY ONLY <1>0, <1>9, <2>4
    <3> QED
      BY ONLY <1>11, <2>1, <3>1
  <2> QED
    BY ONLY <2>1, <2>3, <2>4
<1>17. ReadExemplar(fields) = ex
  <2>1. CASE ex.kind = "double"
    BY ONLY <1>0, <1>1, <1>12, <1>16, <2>1 DEF ReadExemplar
  <2>2. CASE ex.kind = "int"
    BY ONLY <1>0, <1>1, <1>12, <1>16, <2>2 DEF ReadExemplar
  <2> QED
    BY ONLY <1>1, <2>1, <2>2
<1> QED
  BY ONLY <1>4, <1>11, <1>16, <1>17 DEF ExemplarTold

\* The exemplars in a field are all read as they are.
ExemplarReader == [t \in Text |-> ReadExemplar(ReadFields[t])]
ExemplarsTold(d, f, items) ==
  \E texts \in Seq(Text) :
    /\ Section(d, Messages(f, EncodeExemplar, items), f, MessageFields(f, texts))
    /\ Each(ReadExemplar, Kept(texts, Full(texts))) = items

LEMMA ExemplarsTell ==
  ASSUME ProtoAssumption, NEW d \in Nat, NEW f \in Nat, f # 0, NEW items \in Seq(Exemplar)
  PROVE  ExemplarsTold(d + 1, f, items)
<1>2. ASSUME NEW i \in DOMAIN items PROVE ExemplarTold(d, items[i])
  <2>1. items[i] \in Exemplar
    OBVIOUS
  <2> QED
    BY <2>1, ExemplarTells
<1>3. PICK bodies : bodies = [i \in DOMAIN items |-> EncodeExemplar(items[i])]
  OBVIOUS
<1>4. Alike(bodies, items) /\ Alike(items, items) /\ \A i \in DOMAIN items : bodies[i] = EncodeExemplar(items[i])
  BY <1>3 DEF Alike
<1>5. PICK m : /\ m = [t \in Text |-> m[t]] /\ \A t \in Text : m[t] = ReadExemplar(ReadFields[t])
  <2>1. ExemplarReader = [t \in Text |-> ExemplarReader[t]] /\ \A t \in Text : ExemplarReader[t] = ReadExemplar(ReadFields[t])
    BY DEF ExemplarReader
  <2> QED
    BY <2>1
<1>6. BodiesMean(d, items, bodies, m, items)
  <2>1. \A i \in DOMAIN items : bodies[i] \in Seq(Writes[d]) /\ m[Allocating[d][bodies[i]]] = items[i]
    BY ONLY <1>2, <1>4, <1>5 DEF ExemplarTold, FieldsOf
  <2> QED
    BY ONLY <1>4, <1>5, <2>1 DEF BodiesMean
<1>7. PICK v : v = Messages(f, EncodeExemplar, items) /\ v = [i \in DOMAIN items |-> Message(f, bodies[i])]
  BY ONLY <1>4 DEF Messages
<1>8. PICK P : P = Saying(d, items, bodies)
  OBVIOUS
<1>9. RepeatedTold(d + 1, v, f, m, items, P)
  BY <1>6, <1>7, <1>8, RepeatedTell
<1>10. PICK texts \in Seq(Text), kept \in Seq(Text) :
          /\ Section(d + 1, v, f, MessageFields(f, texts)) /\ kept = Kept(texts, Full(texts))
          /\ Mapped(m, kept) = Kept(items, P)
  BY ONLY <1>9 DEF RepeatedTold
<1>11. Kept(items, P) = items
  <2>1. DOMAIN items \subseteq P
    BY ONLY <1>2, <1>4, <1>8 DEF ExemplarTold, Saying
  <2> QED
    BY <2>1, KeptAll
<1>12. Each(ReadExemplar, kept) = Mapped(m, kept)
  <2>1. \A i \in DOMAIN kept : kept[i] \in Text
    OBVIOUS
  <2> QED
    BY ONLY <1>5, <2>1 DEF Each, Mapped
<1> QED
  BY ONLY <1>7, <1>10, <1>11, <1>12, texts \in Seq(Text) DEF ExemplarsTold

-----------------------------------------------------------------------------
(***************************************************************************)
(* Packed numbers.                                                         *)
(***************************************************************************)
\* The i-th block of some blocks of k elements.
Block(t, k, i) == SubSeq(t, k * (i - 1) + 1, k * i)
Blocks(t, k, s, n) ==
  /\ Len(t) = k * n
  /\ \A i \in 1..n : \A j \in 1..k : t[k * (i - 1) + j] = s[i][j]

\* An element of a block is an element of the whole.
LEMMA BlockWithin ==
  ASSUME NEW k \in Nat, NEW n \in Nat, NEW i \in 1..n, NEW j \in 1..k
  PROVE  k * (i - 1) + j \in 1..(k * n)
<1>1. PICK e \in Nat, m \in Nat : n = i + e /\ i = m + 1
  <2>1. n = i + (n - i) /\ n - i \in Nat /\ i = (i - 1) + 1 /\ i - 1 \in Nat
    OBVIOUS
  <2> QED
    BY ONLY <2>1
<1>2. k * n = k * m + k + k * e
  BY ONLY <1>1, k \in Nat, e \in Nat, m \in Nat
<1>3. k * m \in Nat /\ k * e \in Nat
  BY ONLY k \in Nat, e \in Nat, m \in Nat
<1>4. PICK u \in Nat, v \in Nat, w \in Nat : u = k * m /\ v = k * e /\ w = k * n
  BY ONLY <1>3, k \in Nat, n \in Nat
<1>5. i - 1 = m
  BY ONLY <1>1, m \in Nat
<1>6. u + j \in 1..w
  BY ONLY <1>2, <1>4, k \in Nat, j \in 1..k, u \in Nat, v \in Nat, w \in Nat
<1> QED
  BY ONLY <1>4, <1>5, <1>6

\* Sequences of one length that are flattened are the blocks of what they give.
LEMMA BlocksAre ==
  ASSUME NEW X, NEW k \in Nat, NEW s \in Seq(Seq(X)), \A i \in DOMAIN s : Len(s[i]) = k
  PROVE  Blocks(FlattenSeq(s), k, s, Len(s))
<1> DEFINE P(n) == Blocks(FlattenSeq(Prefix(s, n)), k, s, n)
           T == {n \in Nat : n <= Len(s) => P(n)}
<1>1. Len(s) \in Nat /\ DOMAIN s = 1..Len(s)
  OBVIOUS
<1>2. 0 \in T
  <2>1. Prefix(s, 0) = <<>> /\ FlattenSeq(<<>>) = <<>>
    BY PrefixIs, FlattenEmpty
  <2>2. Len(<<>>) = k * 0
    OBVIOUS
  <2> QED
    BY ONLY <2>1, <2>2 DEF Blocks
<1>3. ASSUME NEW n \in Nat, n \in T, n + 1 <= Len(s) PROVE P(n + 1)
  <2>1. n < Len(s) /\ n <= Len(s)
    BY <1>1, <1>3
  <2>2. PICK p \in Seq(Seq(X)), x \in Seq(X) :
          p = Prefix(s, n) /\ x = s[n + 1] /\ Prefix(s, n + 1) = Append(p, x) /\ n + 1 \in DOMAIN s
    BY <2>1, PrefixIs
  <2>3. FlattenSeq(Append(p, x)) = FlattenSeq(p) \o x
    BY ONLY FlattenAdds, SeqsConcatenate, x \in Seq(X), p \in Seq(Seq(X))
  <2>4. PICK t \in Seq(X) : t = FlattenSeq(p)
    BY FlattenSeqs
  <2>5. Len(x) = k
    BY <2>2
  <2>6. Len(t) = k * n /\ \A i \in 1..n : \A j \in 1..k : t[k * (i - 1) + j] = s[i][j]
    BY ONLY <1>3, <2>1, <2>2, <2>4 DEF Blocks
  <2>7. PICK m \in Nat : m = k * n
    OBVIOUS
  <2>8. /\ Len(t \o x) = m + k
        /\ \A h \in 1..(m + k) : (t \o x)[h] = IF h <= m THEN t[h] ELSE x[h - m]
    <3>1. /\ Len(t \o x) = Len(t) + Len(x)
          /\ \A h \in 1..(Len(t) + Len(x)) : (t \o x)[h] = IF h <= Len(t) THEN t[h] ELSE x[h - Len(t)]
      BY ONLY JoinParts, t \in Seq(X), x \in Seq(X)
    <3> QED
      BY ONLY <2>5, <2>6, <2>7, <3>1
  <2>9. ASSUME NEW i \in 1..(n + 1), NEW j \in 1..k PROVE (t \o x)[k * (i - 1) + j] = s[i][j]
    <3>1. CASE i \in 1..n
      <4>1. PICK h : h = k * (i - 1) + j /\ h \in 1..m
        BY ONLY <2>7, <3>1, BlockWithin, k \in Nat, n \in Nat, j \in 1..k
      <4>2. h \in 1..(m + k) /\ h <= m
        BY ONLY <4>1, m \in Nat, k \in Nat
      <4> QED
        BY ONLY <2>6, <2>8, <3>1, <4>1, <4>2, j \in 1..k
    <3>2. CASE i = n + 1
      <4>1. i - 1 = n
        BY ONLY <3>2, n \in Nat
      <4>2. k * (i - 1) + j = m + j
        BY ONLY <2>7, <4>1
      <4>3. m + j \in 1..(m + k) /\ ~(m + j <= m) /\ (m + j) - m = j
        BY ONLY m \in Nat, k \in Nat, j \in 1..k
      <4> QED
        BY ONLY <2>2, <2>8, <3>2, <4>2, <4>3
    <3>3. i \in 1..n \/ i = n + 1
      BY ONLY n \in Nat, i \in 1..(n + 1)
    <3> QED
      BY ONLY <3>1, <3>2, <3>3, Zenon
  <2>10. k * (n + 1) = m + k
    BY ONLY <2>7, k \in Nat, n \in Nat
  <2>11. PICK y : y = t \o x
    OBVIOUS
  <2>12. Blocks(y, k, s, n + 1)
    BY ONLY <2>8, <2>9, <2>10, <2>11 DEF Blocks
  <2> QED
    BY ONLY <2>2, <2>3, <2>4, <2>11, <2>12
<1>4. Nat \subseteq T
  <2>1. ASSUME NEW n \in T PROVE n + 1 \in T
    BY <1>3
  <2> QED
    BY ONLY <1>2, <2>1, InductionOverSets
<1>5. P(Len(s))
  BY ONLY <1>1, <1>4
<1>6. Prefix(s, Len(s)) = s
  BY <1>1, PrefixIs
<1> QED
  BY ONLY <1>5, <1>6

\* Blocks of as many elements are found again where they were put.
LEMMA BlockFound ==
  ASSUME NEW X, NEW k \in Nat, NEW s \in Seq(Seq(X)), \A i \in DOMAIN s : Len(s[i]) = k,
         NEW i \in DOMAIN s
  PROVE  Block(FlattenSeq(s), k, i) = s[i]
<1>1. PICK n \in Nat : n = Len(s) /\ i \in 1..n
  <2>1. Len(s) \in Nat /\ DOMAIN s = 1..Len(s)
    BY ONLY s \in Seq(Seq(X))
  <2> QED
    BY ONLY <2>1, i \in DOMAIN s
<1>2. PICK t \in Seq(X) : t = FlattenSeq(s)
  BY FlattenSeqs
<1>3. /\ Len(t) = k * n
      /\ \A h \in 1..n : \A j \in 1..k : t[k * (h - 1) + j] = s[h][j]
  <2>1. Blocks(FlattenSeq(s), k, s, Len(s))
    BY BlocksAre
  <2> QED
    BY ONLY <1>1, <1>2, <2>1 DEF Blocks
<1>4. PICK x \in Seq(X) : x = s[i] /\ Len(x) = k
  OBVIOUS
<1>5. PICK a \in Nat, b \in Nat : a = k * (i - 1) /\ b = k * i /\ b = a + k
  <2>1. PICK m \in Nat : i = m + 1 /\ i - 1 = m
    <3>1. i = (i - 1) + 1 /\ i - 1 \in Nat
      BY ONLY n \in Nat, <1>1
    <3> QED
      BY ONLY <3>1
  <2>2. k * m \in Nat /\ k * (m + 1) = k * m + k /\ k * (m + 1) \in Nat
    BY ONLY k \in Nat, m \in Nat
  <2> QED
    BY ONLY <2>1, <2>2
<1>6. \A j \in 1..k : t[a + j] = x[j]
  BY ONLY <1>1, <1>3, <1>4, <1>5
<1>7. \A j \in 1..k : a + j \in 1..Len(t)
  BY ONLY <1>1, <1>3, <1>5, BlockWithin, k \in Nat, n \in Nat
<1>8. SubSeq(t, a + 1, b) = [j \in 1..k |-> t[a + j]]
  <2>1. PICK y : y = SubSeq(t, a + 1, b)
    OBVIOUS
  <2>0. b = a + k
    BY ONLY <1>5
  <2>2. a + 1 \in Int /\ b \in Int /\ b - (a + 1) + 1 = k /\ (a + 1 <= b <=> 0 < k)
    BY ONLY <2>0, a \in Nat, b \in Nat, k \in Nat
  <2>3. \A j \in (a + 1)..b : t[j] \in X
    <3>1. ASSUME NEW j \in (a + 1)..b PROVE t[j] \in X
      <4>1. j - a \in 1..k /\ a + (j - a) = j
        BY ONLY <2>0, a \in Nat, b \in Nat, k \in Nat, j \in (a + 1)..b
      <4>2. j \in 1..Len(t)
        BY ONLY <1>7, <4>1
      <4> QED
        BY ONLY <4>2, t \in Seq(X)
    <3> QED
      BY ONLY <3>1
  <2>4. /\ y \in Seq(X) /\ Len(y) = IF a + 1 <= b THEN b - (a + 1) + 1 ELSE 0
        /\ \A j \in 1..(b - (a + 1) + 1) : y[j] = t[(a + 1) + j - 1]
    BY ONLY <2>1, <2>2, <2>3, SubSeqProperties
  <2>5. Len(y) = k
    BY ONLY <2>2, <2>4, k \in Nat
  <2>6. \A j \in 1..k : y[j] = t[a + j]
    <3>1. ASSUME NEW j \in 1..k PROVE (a + 1) + j - 1 = a + j
      BY ONLY a \in Nat, k \in Nat, j \in 1..k
    <3> QED
      BY ONLY <2>2, <2>4, <3>1
  <2>7. y = [j \in 1..k |-> y[j]]
    BY ONLY <2>4, <2>5
  <2> QED
    BY ONLY <2>1, <2>6, <2>7
<1>9. x = [j \in 1..k |-> x[j]]
  BY ONLY <1>4, x \in Seq(X)
<1> QED
  BY ONLY <1>2, <1>4, <1>5, <1>6, <1>8, <1>9 DEF Block

\* The bytes of packed numbers.
Packed(numbers) == FlattenSeq([i \in DOMAIN numbers |-> LittleEndian(numbers[i])])

\* Packed numbers are found again, each in its block of bytes.
LEMMA PackedReads ==
  ASSUME ProtoAssumption, NEW numbers \in Seq(U64)
  PROVE  /\ Packed(numbers) \in Text /\ Len(Packed(numbers)) = FixedBytes * Len(numbers)
         /\ Packed(numbers) = <<>> <=> numbers = <<>>
         /\ [i \in 1..(Len(Packed(numbers)) \div FixedBytes) |->
              FromLittleEndian(Block(Packed(numbers), FixedBytes, i))] = numbers
<1>1. PICK q : q = [i \in DOMAIN numbers |-> LittleEndian(numbers[i])]
  OBVIOUS
<1>2. ASSUME NEW i \in DOMAIN numbers
      PROVE  /\ LittleEndian(numbers[i]) \in Text /\ Len(LittleEndian(numbers[i])) = FixedBytes
             /\ FromLittleEndian(LittleEndian(numbers[i])) = numbers[i]
  <2>1. numbers[i] \in U64
    OBVIOUS
  <2>2. numbers[i] \in Nat
    BY <2>1, WordsAre
  <2> QED
    BY <2>1, <2>2, LittleEndianIs, FixedReads
<1>3. DOMAIN q = DOMAIN numbers /\ q = [i \in DOMAIN numbers |-> q[i]] /\ \A i \in DOMAIN numbers : q[i] = LittleEndian(numbers[i])
  BY <1>1
<1>4. q \in Seq(Seq(Byte)) /\ Len(q) = Len(numbers)
  <2>1. \A i \in DOMAIN numbers : q[i] \in Text
    BY ONLY <1>2, <1>3
  <2>2. q \in Seq(Text)
    BY ONLY <1>3, <2>1, numbers \in Seq(U64), MessagesAre
  <2> QED
    BY ONLY <1>3, <2>2, numbers \in Seq(U64) DEF Text
<1>5. PICK k \in Nat : k = FixedBytes /\ k > 0
  BY DEF ProtoAssumption
<1>6. \A i \in DOMAIN q : Len(q[i]) = k
  BY ONLY <1>2, <1>3, <1>5
<1>7. PICK t \in Text : t = FlattenSeq(q)
  BY <1>4, FlattenSeqs DEF Text
<1>8. PICK n \in Nat : n = Len(numbers) /\ DOMAIN numbers = 1..n
  OBVIOUS
<1>9. Len(t) = k * n
  BY ONLY <1>4, <1>5, <1>6, <1>7, <1>8, BlocksAre, k \in Nat DEF Blocks
<1>10. \A i \in 1..n : FromLittleEndian(Block(t, k, i)) = numbers[i]
  <2>1. ASSUME NEW i \in 1..n PROVE Block(t, k, i) = q[i]
    <3>1. i \in DOMAIN q
      BY ONLY <1>3, <1>8
    <3> QED
      BY ONLY <1>4, <1>6, <1>7, <3>1, BlockFound, k \in Nat
  <2> QED
    BY ONLY <1>2, <1>3, <1>8, <2>1
<1>11. Len(t) \div k = n
  <2>1. k * n = k * n + 0 /\ 0 \in 0..(k - 1) /\ k * n \in Int /\ n \in Int
    BY ONLY <1>5, k \in Nat, n \in Nat
  <2> QED
    BY ONLY <1>5, <1>9, <2>1, DivisionBack, k \in Nat, n \in Nat
<1>12. t = <<>> <=> numbers = <<>>
  <2>1. t = <<>> <=> Len(t) = 0
    BY ONLY t \in Text DEF Text
  <2>2. k * n = 0 <=> n = 0
    BY ONLY <1>5, k \in Nat, n \in Nat
  <2>3. numbers = <<>> <=> Len(numbers) = 0
    OBVIOUS
  <2> QED
    BY ONLY <1>8, <1>9, <2>1, <2>2, <2>3
<1>13. [i \in 1..n |-> FromLittleEndian(Block(t, k, i))] = numbers
  <2>1. numbers = [i \in 1..n |-> numbers[i]]
    BY ONLY <1>8, numbers \in Seq(U64)
  <2> QED
    BY ONLY <1>10, <2>1
<1>14. Packed(numbers) = t
  BY ONLY <1>1, <1>7 DEF Packed
<1> QED
  BY ONLY <1>5, <1>8, <1>9, <1>11, <1>12, <1>13, <1>14, t \in Text

\* A packed field is a section with the packed bytes.
LEMMA PackedSection ==
  ASSUME ProtoAssumption, NEW d \in Nat, NEW f \in Nat, f # 0, NEW numbers \in Seq(U64)
  PROVE  Section(d, <<Bytes(EncodePackedFixed64Field(f, numbers))>>, f, BytesFields(f, Packed(numbers)))
<1>1. EncodePackedFixed64Field(f, numbers) = EncodeBytesField(f, Packed(numbers))
  <2>1. Len(Packed(numbers)) = FixedBytes * Len(numbers) /\ (Packed(numbers) = <<>> <=> numbers = <<>>)
    BY PackedReads
  <2> QED
    <3>1. CASE numbers = <<>>
      BY ONLY <2>1, <3>1 DEF EncodePackedFixed64Field, EncodeBytesField
    <3>2. CASE numbers # <<>>
      <4>1. EncodePackedFixed64Field(f, numbers)
              = EncodeTag(f, LengthDelimited) \o EncodeVarint[FixedBytes * Len(numbers)] \o Packed(numbers)
        BY ONLY <3>2 DEF EncodePackedFixed64Field, Packed
      <4>2. Packed(numbers) # <<>>
        BY ONLY <2>1, <3>2
      <4>3. EncodeBytesField(f, Packed(numbers))
              = EncodeTag(f, LengthDelimited) \o EncodeVarint[Len(Packed(numbers))] \o Packed(numbers)
        BY ONLY <4>2 DEF EncodeBytesField
      <4> QED
        BY ONLY <2>1, <4>1, <4>3
    <3> QED
      BY ONLY <3>1, <3>2
<1>2. Packed(numbers) \in Text
  BY PackedReads
<1>3. Section(d, <<Bytes(EncodeBytesField(f, Packed(numbers)))>>, f, BytesFields(f, Packed(numbers)))
  BY <1>2, FieldSections
<1> QED
  BY ONLY <1>1, <1>3

\* Packed numbers that are told are read.
LEMMA TellsPacked ==
  ASSUME ProtoAssumption, NEW d \in Nat, NEW w, NEW S, Tells(d, w, S),
         NEW f, NEW numbers \in Seq(U64), <<f, BytesFields(f, Packed(numbers))>> \in S
  PROVE  ReadPacked(FieldsOf(d, w), f) = numbers
<1>1. Packed(numbers) \in Text
  BY PackedReads
<1>2. ReadMessage(FieldsOf(d, w), f) = Packed(numbers)
  BY <1>1, TellsText
<1>3. [i \in 1..(Len(Packed(numbers)) \div FixedBytes) |->
         FromLittleEndian(Block(Packed(numbers), FixedBytes, i))] = numbers
  BY PackedReads
<1> QED
  BY ONLY <1>2, <1>3 DEF ReadPacked, Block

-----------------------------------------------------------------------------
(***************************************************************************)
(* Spans and log records.                                                  *)
(***************************************************************************)
\* Some messages in a field are all read as what was meant by them.
AllTold(d, v, f, m, values) ==
  \E texts \in Seq(Text) :
    /\ Section(d, v, f, MessageFields(f, texts)) /\ Kept(texts, Full(texts)) \in Seq(Text)
    /\ Mapped(m, Kept(texts, Full(texts))) = values

\* A message for each item is read as what the items mean when none is silent.
LEMMA AllTell ==
  ASSUME ProtoAssumption, NEW d \in Nat, NEW f \in Nat, f # 0, NEW T, NEW items \in Seq(T),
         NEW bodies, NEW m, NEW values, BodiesMean(d, items, bodies, m, values),
         \A i \in DOMAIN items : Allocating[d][bodies[i]] # <<>>,
         NEW v, v = [i \in DOMAIN items |-> Message(f, bodies[i])]
  PROVE  AllTold(d + 1, v, f, m, values)
<1>1. PICK P : P = Saying(d, items, bodies)
  OBVIOUS
<1>2. RepeatedTold(d + 1, v, f, m, values, P)
  BY <1>1, RepeatedTell
<1>3. DOMAIN values = DOMAIN items /\ values = [i \in DOMAIN items |-> values[i]]
  BY ONLY BodiesMean(d, items, bodies, m, values) DEF BodiesMean, Alike
<1>4. DOMAIN values \subseteq P
  BY ONLY <1>1, <1>3, \A i \in DOMAIN items : Allocating[d][bodies[i]] # <<>> DEF Saying
<1>5. PICK V : values \in Seq(V)
  <2>1. PICK V : V = {values[i] : i \in DOMAIN items}
    OBVIOUS
  <2>2. \A i \in DOMAIN items : values[i] \in V
    BY ONLY <2>1
  <2>3. values \in Seq(V)
    BY ONLY <1>3, <2>2, MessagesAre, items \in Seq(T)
  <2> QED
    BY ONLY <2>3
<1>6. Kept(values, P) = values
  BY ONLY <1>4, <1>5, KeptAll
<1> QED
  BY ONLY <1>2, <1>6 DEF RepeatedTold, AllTold

\* A span is read as it was meant.
SpanTold(d, span) ==
  /\ EncodeSpan(span) \in Seq(Writes[d]) /\ Allocating[d][EncodeSpan(span)] \in Text \ {<<>>}
  /\ ReadSpan(FieldsOf(d, EncodeSpan(span))) = MeantItem("traces", span)

\* It is: a span is eight sections, and has bytes since its ids are not empty.
LEMMA SpanTells ==
  ASSUME ProtoAssumption, NEW d \in Nat, NEW span \in SpanData
  PROVE  SpanTold((d + 1) + 1, span)
<1>1. PICK t \in Text, s \in Text, u \in Text, z \in Text, k \in Nat, x \in U64, y \in U64,
           kvs \in Seq(KeyValue), ss \in Seq(SpanStatus) :
        /\ t # <<>>
        /\ span.trace_id = t /\ span.span_id = s /\ span.parent_span_id = u /\ span.name = z
        /\ span.kind = k /\ span.start = x /\ span.end = y
        /\ span.attributes = kvs /\ span.status = ss
        /\ span = [trace_id |-> t, span_id |-> s, parent_span_id |-> u, name |-> z, kind |-> k,
                   start |-> x, end |-> y, attributes |-> kvs, status |-> ss]
  <2>1. span.trace_id \in Text \ {<<>>} /\ span.span_id \in Text /\ span.parent_span_id \in Text
    BY DEF SpanData, Id
  <2>2. span.name \in Text /\ span.kind \in Nat /\ span.start \in U64 /\ span.end \in U64
    BY DEF SpanData
  <2>3. span.attributes \in Seq(KeyValue) /\ span.status \in Seq(SpanStatus)
    BY DEF SpanData
  <2>4. span = [trace_id |-> span.trace_id, span_id |-> span.span_id,
                parent_span_id |-> span.parent_span_id, name |-> span.name, kind |-> span.kind,
                start |-> span.start, end |-> span.end,
                attributes |-> span.attributes, status |-> span.status]
    BY DEF SpanData
  <2> QED
    BY ONLY <2>1, <2>2, <2>3, <2>4
<1>0. MeantItem("traces", span) =
        [trace_id |-> t, span_id |-> s, parent_span_id |-> u, name |-> z, kind |-> k,
         start |-> x, end |-> y, attributes |-> MeantKeyValues(kvs), status |-> MeantStatus(ss)]
  <2>1. PICK a, b : a = MeantKeyValues(kvs) /\ b = MeantStatus(ss)
    OBVIOUS
  <2>2. MeantItem("traces", span) = [span EXCEPT !.attributes = a, !.status = b]
    BY ONLY <1>1, <2>1 DEF MeantItem
  <2>3. PICK r : /\ r = [span EXCEPT !.attributes = a]
                 /\ r = [trace_id |-> t, span_id |-> s, parent_span_id |-> u, name |-> z, kind |-> k,
                         start |-> x, end |-> y, attributes |-> a, status |-> ss]
    <3>1. [span EXCEPT !.attributes = a] =
            [trace_id |-> t, span_id |-> s, parent_span_id |-> u, name |-> z, kind |-> k,
             start |-> x, end |-> y, attributes |-> a, status |-> ss]
      BY ONLY <1>1
    <3> QED
      BY ONLY <3>1
  <2>4. [r EXCEPT !.status = b] =
          [trace_id |-> t, span_id |-> s, parent_span_id |-> u, name |-> z, kind |-> k,
           start |-> x, end |-> y, attributes |-> a, status |-> b]
    <3>1. r = [trace_id |-> t, span_id |-> s, parent_span_id |-> u, name |-> z, kind |-> k,
               start |-> x, end |-> y, attributes |-> a, status |-> ss]
      BY ONLY <2>3
    <3> QED
      BY ONLY <3>1
  <2>5. [span EXCEPT !.attributes = a, !.status = b] = [[span EXCEPT !.attributes = a] EXCEPT !.status = b]
    OBVIOUS
  <2> QED
    BY ONLY <2>1, <2>2, <2>3, <2>4, <2>5
<1>2. PICK e \in Nat : e = (d + 1) + 1
  OBVIOUS
<1>3. PICK n1 \in Nat, n2 \in Nat, n3 \in Nat, n4 \in Nat, n5 \in Nat, n6 \in Nat, n7 \in Nat,
           n8 \in Nat, n9 \in Nat :
        /\ n1 = 1 /\ n2 = 2 /\ n3 = 4 /\ n4 = 5 /\ n5 = 6 /\ n6 = 7 /\ n7 = 8 /\ n8 = 9 /\ n9 = 15
  OBVIOUS
<1>4. /\ n1 # 0 /\ n2 # 0 /\ n3 # 0 /\ n4 # 0 /\ n5 # 0 /\ n6 # 0 /\ n7 # 0 /\ n8 # 0 /\ n9 # 0
      /\ 0 <= n1 /\ n1 < n2 /\ n2 < n3 /\ n3 < n4 /\ n4 + 1 <= n5 /\ n5 < n6 /\ n6 < n7
      /\ n7 + 1 <= n8 /\ n8 + 1 <= n9
  BY ONLY <1>3
<1>5. PICK w1, w2, w3, w4, w5, w6, w7, w8, w9 :
        /\ w1 = Bytes(EncodeBytesField(n1, t)) /\ w2 = Bytes(EncodeBytesField(n2, s))
        /\ w3 = Bytes(EncodeBytesField(n3, u)) /\ w4 = Bytes(EncodeBytesField(n4, z))
        /\ w5 = Bytes(EncodeVarintField(n5, k)) /\ w6 = Bytes(EncodeFixed64Field(n6, x))
        /\ w7 = Bytes(EncodeFixed64Field(n7, y))
        /\ w8 = Messages(n8, EncodeKeyValue, kvs) /\ w9 = Messages(n9, EncodeStatus, ss)
  OBVIOUS
<1>6. PICK p1, p2, p3, p4, p5, p6, p7 :
        /\ p1 = BytesFields(n1, t) /\ p2 = BytesFields(n2, s) /\ p3 = BytesFields(n3, u)
        /\ p4 = BytesFields(n4, z) /\ p5 = VarintFields(n5, k) /\ p6 = FixedFields(n6, x)
        /\ p7 = FixedFields(n7, y)
  OBVIOUS
<1>7. /\ Section(e, <<w1>>, n1, p1) /\ Section(e, <<w2>>, n2, p2) /\ Section(e, <<w3>>, n3, p3)
      /\ Section(e, <<w4>>, n4, p4) /\ Section(e, <<w5>>, n5, p5) /\ Section(e, <<w6>>, n6, p6)
      /\ Section(e, <<w7>>, n7, p7)
  <2>0. n1 # 0 /\ n2 # 0 /\ n3 # 0 /\ n4 # 0 /\ n5 # 0 /\ n6 # 0 /\ n7 # 0
    BY ONLY <1>4
  <2>1. Section(e, <<Bytes(EncodeBytesField(n1, t))>>, n1, BytesFields(n1, t))
    BY <2>0, FieldSections
  <2>2. Section(e, <<Bytes(EncodeBytesField(n2, s))>>, n2, BytesFields(n2, s))
    BY <2>0, FieldSections
  <2>3. Section(e, <<Bytes(EncodeBytesField(n3, u))>>, n3, BytesFields(n3, u))
    BY <2>0, FieldSections
  <2>4. Section(e, <<Bytes(EncodeBytesField(n4, z))>>, n4, BytesFields(n4, z))
    BY <2>0, FieldSections
  <2>5. Section(e, <<Bytes(EncodeVarintField(n5, k))>>, n5, VarintFields(n5, k))
    BY <2>0, FieldSections
  <2>6. Section(e, <<Bytes(EncodeFixed64Field(n6, x))>>, n6, FixedFields(n6, x))
    BY <2>0, FieldSections
  <2>7. Section(e, <<Bytes(EncodeFixed64Field(n7, y))>>, n7, FixedFields(n7, y))
    BY <2>0, FieldSections
  <2> QED
    BY ONLY <1>5, <1>6, <2>1, <2>2, <2>3, <2>4, <2>5, <2>6, <2>7
<1>8. PICK ta \in Seq(Text) : /\ Section(e, w8, n8, MessageFields(n8, ta))
                              /\ Each(ReadKeyValue, Kept(ta, Full(ta))) = MeantKeyValues(kvs)
  <2>0. n8 # 0
    BY ONLY <1>4
  <2>1. KeyValuesTold((d + 1) + 1, n8, kvs)
    BY <2>0, KeyValuesTell
  <2> QED
    BY ONLY <1>2, <1>5, <2>1 DEF KeyValuesTold
<1>9. PICK tb \in Seq(Text) : /\ Section(e, w9, n9, MessageFields(n9, tb))
                              /\ Each(ReadStatus, Kept(tb, Full(tb))) = MeantStatus(ss)
  <2>0. n9 # 0
    BY ONLY <1>4
  <2>1. PICK c \in Nat : c = d + 1
    OBVIOUS
  <2>2. StatusesTold(c + 1, n9, ss)
    BY <2>0, StatusesTell
  <2> QED
    BY ONLY <1>2, <1>5, <2>1, <2>2 DEF StatusesTold
<1>10. PICK v, R : /\ v = <<>> \o <<w1, w2, w3, w4>> /\ TellsBelow(e, v, R, n4 + 1)
                   /\ R = {} \cup {<<n1, p1>>, <<n2, p2>>, <<n3, p3>>, <<n4, p4>>}
  <2>0. 0 <= n1 /\ n1 < n2 /\ n2 < n3 /\ n3 < n4
    BY ONLY <1>4
  <2>1. TellsBelow(e, <<>>, {}, 0)
    BY BelowNothing
  <2>2. TellsBelow(e, <<>> \o <<w1, w2, w3, w4>>, {} \cup {<<n1, p1>>, <<n2, p2>>, <<n3, p3>>, <<n4, p4>>}, n4 + 1)
    BY ONLY <1>7, <2>0, <2>1, BelowFour, ProtoAssumption, e \in Nat
  <2> QED
    BY ONLY <2>2
<1>11. PICK h, Q : /\ h = v \o <<w5, w6, w7>> /\ TellsBelow(e, h, Q, n7 + 1)
                   /\ Q = R \cup {<<n5, p5>>, <<n6, p6>>, <<n7, p7>>}
  <2>0. n4 + 1 <= n5 /\ n5 < n6 /\ n6 < n7
    BY ONLY <1>4
  <2>1. TellsBelow(e, v, R, n4 + 1)
    BY ONLY <1>10
  <2>2. TellsBelow(e, v \o <<w5, w6, w7>>, R \cup {<<n5, p5>>, <<n6, p6>>, <<n7, p7>>}, n7 + 1)
    BY ONLY <1>7, <2>0, <2>1, BelowThree, ProtoAssumption, e \in Nat
  <2> QED
    BY ONLY <2>2
<1>12. h = <<w1, w2, w3, w4, w5, w6, w7>>
  <2>1. PICK X : /\ <<w1>> \in Seq(X) /\ <<w2>> \in Seq(X) /\ <<w3>> \in Seq(X) /\ <<w4>> \in Seq(X)
                 /\ <<w5>> \in Seq(X) /\ <<w6>> \in Seq(X) /\ <<w7>> \in Seq(X)
    BY ONLY <1>7 DEF Section
  <2>2. w1 \in X /\ w2 \in X /\ w3 \in X /\ w4 \in X /\ w5 \in X /\ w6 \in X /\ w7 \in X
    <3>1. ASSUME NEW one, <<one>> \in Seq(X) PROVE one \in X
      <4>1. <<one>>[1] = one /\ 1 \in DOMAIN <<one>>
        OBVIOUS
      <4> QED
        BY ONLY <3>1, <4>1
    <3> QED
      BY ONLY <2>1, <3>1
  <2>3. <<>> \o <<w1, w2, w3, w4, w5, w6, w7>> = (<<>> \o <<w1, w2, w3, w4>>) \o <<w5, w6, w7>>
    BY ONLY <2>2
  <2>4. <<>> \o <<w1, w2, w3, w4, w5, w6, w7>> = <<w1, w2, w3, w4, w5, w6, w7>>
    BY ONLY <2>2
  <2> QED
    BY ONLY <1>10, <1>11, <2>3, <2>4
<1>13. PICK w, S : /\ w = (h \o w8) \o w9 /\ Tells(e, w, S)
                   /\ S = (Q \cup {<<n8, MessageFields(n8, ta)>>}) \cup {<<n9, MessageFields(n9, tb)>>}
  <2>0. n7 + 1 <= n8 /\ n8 + 1 <= n9
    BY ONLY <1>4
  <2>1. TellsBelow(e, h, Q, n7 + 1)
    BY ONLY <1>11
  <2>2. TellsBelow(e, h \o w8, Q \cup {<<n8, MessageFields(n8, ta)>>}, n8 + 1)
    BY ONLY <1>8, <2>0, <2>1, BelowOne, ProtoAssumption, e \in Nat
  <2>3. TellsBelow(e, (h \o w8) \o w9,
                   (Q \cup {<<n8, MessageFields(n8, ta)>>}) \cup {<<n9, MessageFields(n9, tb)>>}, n9 + 1)
    BY ONLY <1>9, <2>0, <2>2, BelowOne, ProtoAssumption, e \in Nat
  <2> QED
    BY ONLY <2>3 DEF TellsBelow
<1>14. w = EncodeSpan(span)
  BY ONLY <1>1, <1>3, <1>5, <1>12, <1>13 DEF EncodeSpan
<1>15. /\ <<n1, BytesFields(n1, t)>> \in S /\ <<n2, BytesFields(n2, s)>> \in S
       /\ <<n3, BytesFields(n3, u)>> \in S /\ <<n4, BytesFields(n4, z)>> \in S
       /\ <<n5, VarintFields(n5, k)>> \in S /\ <<n6, FixedFields(n6, x)>> \in S
       /\ <<n7, FixedFields(n7, y)>> \in S
       /\ <<n8, MessageFields(n8, ta)>> \in S /\ <<n9, MessageFields(n9, tb)>> \in S
  BY ONLY <1>6, <1>10, <1>11, <1>13
<1>16. Tells(e, w, S)
  BY ONLY <1>13
<1>17. PICK fields : fields = FieldsOf(e, w)
  OBVIOUS
<1>18. /\ ReadBytes(fields, n1) = t /\ ReadBytes(fields, n2) = s /\ ReadBytes(fields, n3) = u
       /\ ReadBytes(fields, n4) = z
  <2>1. ReadBytes(FieldsOf(e, w), n1) = t
    <3>1. <<n1, BytesFields(n1, t)>> \in S
      BY ONLY <1>15
    <3> QED
      BY <1>16, <3>1, TellsText
  <2>2. ReadBytes(FieldsOf(e, w), n2) = s
    <3>1. <<n2, BytesFields(n2, s)>> \in S
      BY ONLY <1>15
    <3> QED
      BY <1>16, <3>1, TellsText
  <2>3. ReadBytes(FieldsOf(e, w), n3) = u
    <3>1. <<n3, BytesFields(n3, u)>> \in S
      BY ONLY <1>15
    <3> QED
      BY <1>16, <3>1, TellsText
  <2>4. ReadBytes(FieldsOf(e, w), n4) = z
    <3>1. <<n4, BytesFields(n4, z)>> \in S
      BY ONLY <1>15
    <3> QED
      BY <1>16, <3>1, TellsText
  <2> QED
    BY ONLY <1>17, <2>1, <2>2, <2>3, <2>4
<1>19. ReadNumber(fields, n5) = k
  <2>1. <<n5, VarintFields(n5, k)>> \in S
    BY ONLY <1>15
  <2>2. ReadNumber(FieldsOf(e, w), n5) = k
    BY <1>16, <2>1, TellsNumber
  <2> QED
    BY ONLY <1>17, <2>2
<1>20. ReadFixed(fields, n6) = x /\ ReadFixed(fields, n7) = y
  <2>1. ReadFixed(FieldsOf(e, w), n6) = x
    <3>1. <<n6, FixedFields(n6, x)>> \in S
      BY ONLY <1>15
    <3> QED
      BY <1>16, <3>1, TellsFixed
  <2>2. ReadFixed(FieldsOf(e, w), n7) = y
    <3>1. <<n7, FixedFields(n7, y)>> \in S
      BY ONLY <1>15
    <3> QED
      BY <1>16, <3>1, TellsFixed
  <2> QED
    BY ONLY <1>17, <2>1, <2>2
<1>21. ReadRepeated(fields, n8) = Kept(ta, Full(ta)) /\ ReadRepeated(fields, n9) = Kept(tb, Full(tb))
  BY <1>15, <1>16, <1>17, TellsMessages
<1>22. w \in Seq(Writes[e]) /\ Allocating[e][w] \in Text \ {<<>>}
  <2>1. /\ w \in Seq(Writes[e]) /\ Allocating[e][w] \in Text
        /\ (Allocating[e][w] # <<>> <=> \E part \in S : part[2] # <<>>)
    BY <1>16, TellsWhether
  <2>2. BytesFields(n1, t) # <<>>
    BY ONLY <1>1 DEF BytesFields
  <2> QED
    BY ONLY <1>15, <2>1, <2>2
<1>23. ReadSpan(fields) =
         [trace_id |-> t, span_id |-> s, parent_span_id |-> u, name |-> z, kind |-> k,
          start |-> x, end |-> y, attributes |-> MeantKeyValues(kvs), status |-> MeantStatus(ss)]
  BY ONLY <1>3, <1>8, <1>9, <1>18, <1>19, <1>20, <1>21 DEF ReadSpan
<1>24. ReadSpan(fields) = MeantItem("traces", span)
  BY ONLY <1>0, <1>23
<1> QED
  BY ONLY <1>2, <1>14, <1>17, <1>22, <1>24 DEF SpanTold

\* A log record is read as it was meant.
LogTold(d, log) ==
  /\ EncodeLogRecord(log) \in Seq(Writes[d]) /\ Allocating[d][EncodeLogRecord(log)] \in Text \ {<<>>}
  /\ ReadLogRecord(FieldsOf(d, EncodeLogRecord(log))) = MeantItem("logs", log)

\* It is: a log record is up to seven sections, and has bytes since its ids are not empty.
LEMMA LogTells ==
  ASSUME ProtoAssumption, NEW d \in Nat, NEW log \in LogData
  PROVE  LogTold((d + 1) + 1, log)
<1>1. PICK x \in U64, k \in Nat, z \in Text, v \in AnyValue, kvs \in Seq(KeyValue), t \in Text, s \in Text :
        /\ t # <<>>
        /\ log.time = x /\ log.severity_number = k /\ log.severity_text = z /\ log.body = v
        /\ log.attributes = kvs /\ log.trace_id = t /\ log.span_id = s
        /\ log = [time |-> x, severity_number |-> k, severity_text |-> z, body |-> v,
                  attributes |-> kvs, trace_id |-> t, span_id |-> s]
  <2>1. log.time \in U64 /\ log.severity_number \in Nat /\ log.severity_text \in Text
    BY DEF LogData
  <2>2. log.body \in AnyValue /\ log.attributes \in Seq(KeyValue)
    BY DEF LogData
  <2>3. log.trace_id \in Text \ {<<>>} /\ log.span_id \in Text
    BY DEF LogData, Id
  <2>4. log = [time |-> log.time, severity_number |-> log.severity_number,
               severity_text |-> log.severity_text, body |-> log.body,
               attributes |-> log.attributes, trace_id |-> log.trace_id, span_id |-> log.span_id]
    BY DEF LogData
  <2> QED
    BY ONLY <2>1, <2>2, <2>3, <2>4
<1>2. MeantItem("logs", log) =
        [time |-> x, severity_number |-> k, severity_text |-> z, body |-> MeantValue(v),
         attributes |-> MeantKeyValues(kvs), trace_id |-> t, span_id |-> s]
  <2>1. PICK a, b : a = MeantKeyValues(kvs) /\ b = MeantValue(v)
    OBVIOUS
  <2>2. MeantItem("logs", log) = [log EXCEPT !.attributes = a, !.body = b]
    BY ONLY <1>1, <2>1 DEF MeantItem
  <2>3. PICK r : /\ r = [log EXCEPT !.attributes = a]
                 /\ r = [time |-> x, severity_number |-> k, severity_text |-> z, body |-> v,
                         attributes |-> a, trace_id |-> t, span_id |-> s]
    <3>1. [log EXCEPT !.attributes = a] =
            [time |-> x, severity_number |-> k, severity_text |-> z, body |-> v,
             attributes |-> a, trace_id |-> t, span_id |-> s]
      BY ONLY <1>1
    <3> QED
      BY ONLY <3>1
  <2>4. [r EXCEPT !.body = b] =
          [time |-> x, severity_number |-> k, severity_text |-> z, body |-> b,
           attributes |-> a, trace_id |-> t, span_id |-> s]
    <3>1. r = [time |-> x, severity_number |-> k, severity_text |-> z, body |-> v,
               attributes |-> a, trace_id |-> t, span_id |-> s]
      BY ONLY <2>3
    <3> QED
      BY ONLY <3>1
  <2>5. [log EXCEPT !.attributes = a, !.body = b] = [[log EXCEPT !.attributes = a] EXCEPT !.body = b]
    OBVIOUS
  <2> QED
    BY ONLY <2>1, <2>2, <2>3, <2>4, <2>5
<1>3. PICK c \in Nat, e \in Nat : c = d + 1 /\ e = c + 1
  OBVIOUS
<1>4. PICK n1 \in Nat, n2 \in Nat, n3 \in Nat, n4 \in Nat, n5 \in Nat, n6 \in Nat, n7 \in Nat :
        n1 = 1 /\ n2 = 2 /\ n3 = 3 /\ n4 = 5 /\ n5 = 6 /\ n6 = 9 /\ n7 = 10
  OBVIOUS
<1>5. /\ n1 # 0 /\ n2 # 0 /\ n3 # 0 /\ n4 # 0 /\ n5 # 0 /\ n6 # 0 /\ n7 # 0
      /\ 0 <= n1 /\ n1 < n2 /\ n2 < n3 /\ n3 < n4 /\ n4 + 1 <= n5 /\ n5 + 1 <= n6 /\ n6 < n7
  BY ONLY <1>4
<1>6. PICK body \in Seq(Writes[c]), b \in Text :
        /\ body = <<EncodeAnyValue(v)>> /\ b = Allocating[c][body]
        /\ ReadAnyValue(ReadFields[b]) = MeantValue(v)
  <2>1. ValueTold(c, v)
    BY AnyValueTells
  <2> QED
    BY <2>1 DEF ValueTold, FieldsOf
<1>7. PICK w1, w2, w3, w4, w5, w6, w7 :
        /\ w1 = Bytes(EncodeFixed64Field(n1, x)) /\ w2 = Bytes(EncodeVarintField(n2, k))
        /\ w3 = Bytes(EncodeBytesField(n3, z)) /\ w4 = Message(n4, body)
        /\ w5 = Messages(n5, EncodeKeyValue, kvs)
        /\ w6 = Bytes(EncodeBytesField(n6, t)) /\ w7 = Bytes(EncodeBytesField(n7, s))
  OBVIOUS
<1>8. PICK p1, p2, p3, p4, p6, p7 :
        /\ p1 = FixedFields(n1, x) /\ p2 = VarintFields(n2, k) /\ p3 = BytesFields(n3, z)
        /\ p4 = BytesFields(n4, b) /\ p6 = BytesFields(n6, t) /\ p7 = BytesFields(n7, s)
  OBVIOUS
<1>9. /\ Section(e, <<w1>>, n1, p1) /\ Section(e, <<w2>>, n2, p2) /\ Section(e, <<w3>>, n3, p3)
      /\ Section(e, <<w4>>, n4, p4) /\ Section(e, <<w6>>, n6, p6) /\ Section(e, <<w7>>, n7, p7)
  <2>0. n1 # 0 /\ n2 # 0 /\ n3 # 0 /\ n4 # 0 /\ n6 # 0 /\ n7 # 0
    BY ONLY <1>5
  <2>1. Section(e, <<Bytes(EncodeFixed64Field(n1, x))>>, n1, FixedFields(n1, x))
    BY <2>0, FieldSections
  <2>2. Section(e, <<Bytes(EncodeVarintField(n2, k))>>, n2, VarintFields(n2, k))
    BY <2>0, FieldSections
  <2>3. Section(e, <<Bytes(EncodeBytesField(n3, z))>>, n3, BytesFields(n3, z))
    BY <2>0, FieldSections
  <2>4. Section(c + 1, <<Message(n4, body)>>, n4, BytesFields(n4, Allocating[c][body]))
    BY <2>0, MessageSection
  <2>5. Section(e, <<Bytes(EncodeBytesField(n6, t))>>, n6, BytesFields(n6, t))
    BY <2>0, FieldSections
  <2>6. Section(e, <<Bytes(EncodeBytesField(n7, s))>>, n7, BytesFields(n7, s))
    BY <2>0, FieldSections
  <2> QED
    BY ONLY <1>3, <1>6, <1>7, <1>8, <2>1, <2>2, <2>3, <2>4, <2>5, <2>6
<1>10. PICK ta \in Seq(Text) : /\ Section(e, w5, n5, MessageFields(n5, ta))
                               /\ Each(ReadKeyValue, Kept(ta, Full(ta))) = MeantKeyValues(kvs)
  <2>0. n5 # 0
    BY ONLY <1>5
  <2>1. KeyValuesTold((d + 1) + 1, n5, kvs)
    BY <2>0, KeyValuesTell
  <2> QED
    BY ONLY <1>3, <1>7, <2>1 DEF KeyValuesTold
<1>11. PICK h, R : /\ h = <<>> \o <<w1, w2, w3, w4>> /\ TellsBelow(e, h, R, n4 + 1)
                   /\ R = {} \cup {<<n1, p1>>, <<n2, p2>>, <<n3, p3>>, <<n4, p4>>}
  <2>0. 0 <= n1 /\ n1 < n2 /\ n2 < n3 /\ n3 < n4
    BY ONLY <1>5
  <2>1. TellsBelow(e, <<>>, {}, 0)
    BY BelowNothing
  <2>2. TellsBelow(e, <<>> \o <<w1, w2, w3, w4>>, {} \cup {<<n1, p1>>, <<n2, p2>>, <<n3, p3>>, <<n4, p4>>}, n4 + 1)
    BY ONLY <1>9, <2>0, <2>1, BelowFour, ProtoAssumption, e \in Nat
  <2> QED
    BY ONLY <2>2
<1>12. h = <<w1, w2, w3, w4>>
  <2>1. PICK X : /\ <<w1>> \in Seq(X) /\ <<w2>> \in Seq(X) /\ <<w3>> \in Seq(X) /\ <<w4>> \in Seq(X)
    BY ONLY <1>9 DEF Section
  <2>2. w1 \in X /\ w2 \in X /\ w3 \in X /\ w4 \in X
    BY ONLY <2>1, Adding
  <2> QED
    BY ONLY <1>11, <2>2
<1>13. PICK w, S : /\ w = (h \o w5) \o <<w6, w7>> /\ Tells(e, w, S)
                   /\ S = (R \cup {<<n5, MessageFields(n5, ta)>>}) \cup {<<n6, p6>>, <<n7, p7>>}
  <2>0. n4 + 1 <= n5 /\ n5 + 1 <= n6 /\ n6 < n7
    BY ONLY <1>5
  <2>1. TellsBelow(e, h, R, n4 + 1)
    BY ONLY <1>11
  <2>2. TellsBelow(e, h \o w5, R \cup {<<n5, MessageFields(n5, ta)>>}, n5 + 1)
    BY ONLY <1>10, <2>0, <2>1, BelowOne, ProtoAssumption, e \in Nat
  <2>3. TellsBelow(e, (h \o w5) \o <<w6, w7>>,
                   (R \cup {<<n5, MessageFields(n5, ta)>>}) \cup {<<n6, p6>>, <<n7, p7>>}, n7 + 1)
    BY ONLY <1>9, <2>0, <2>2, BelowTwo, ProtoAssumption, e \in Nat
  <2> QED
    BY ONLY <2>3 DEF TellsBelow
<1>14. w = EncodeLogRecord(log)
  BY ONLY <1>1, <1>4, <1>6, <1>7, <1>12, <1>13 DEF EncodeLogRecord
<1>15. /\ <<n1, FixedFields(n1, x)>> \in S /\ <<n2, VarintFields(n2, k)>> \in S
       /\ <<n3, BytesFields(n3, z)>> \in S /\ <<n4, BytesFields(n4, b)>> \in S
       /\ <<n5, MessageFields(n5, ta)>> \in S
       /\ <<n6, BytesFields(n6, t)>> \in S /\ <<n7, BytesFields(n7, s)>> \in S
  BY ONLY <1>8, <1>11, <1>13
<1>16. Tells(e, w, S)
  BY ONLY <1>13
<1>17. PICK fields : fields = FieldsOf(e, w)
  OBVIOUS
<1>18. /\ ReadBytes(fields, n3) = z /\ ReadMessage(fields, n4) = b
       /\ ReadBytes(fields, n6) = t /\ ReadBytes(fields, n7) = s
  <2>1. ReadBytes(FieldsOf(e, w), n3) = z
    <3>1. <<n3, BytesFields(n3, z)>> \in S
      BY ONLY <1>15
    <3> QED
      BY <1>16, <3>1, TellsText
  <2>2. ReadMessage(FieldsOf(e, w), n4) = b
    <3>1. <<n4, BytesFields(n4, b)>> \in S
      BY ONLY <1>15
    <3> QED
      BY <1>16, <3>1, TellsText
  <2>3. ReadBytes(FieldsOf(e, w), n6) = t
    <3>1. <<n6, BytesFields(n6, t)>> \in S
      BY ONLY <1>15
    <3> QED
      BY <1>16, <3>1, TellsText
  <2>4. ReadBytes(FieldsOf(e, w), n7) = s
    <3>1. <<n7, BytesFields(n7, s)>> \in S
      BY ONLY <1>15
    <3> QED
      BY <1>16, <3>1, TellsText
  <2> QED
    BY ONLY <1>17, <2>1, <2>2, <2>3, <2>4
<1>19. ReadNumber(fields, n2) = k
  <2>1. <<n2, VarintFields(n2, k)>> \in S
    BY ONLY <1>15
  <2>2. ReadNumber(FieldsOf(e, w), n2) = k
    BY <1>16, <2>1, TellsNumber
  <2> QED
    BY ONLY <1>17, <2>2
<1>20. ReadFixed(fields, n1) = x
  <2>1. ReadFixed(FieldsOf(e, w), n1) = x
    <3>1. <<n1, FixedFields(n1, x)>> \in S
      BY ONLY <1>15
    <3> QED
      BY <1>16, <3>1, TellsFixed
  <2> QED
    BY ONLY <1>17, <2>1
<1>21. ReadRepeated(fields, n5) = Kept(ta, Full(ta))
  BY <1>15, <1>16, <1>17, TellsMessages
<1>22. w \in Seq(Writes[e]) /\ Allocating[e][w] \in Text \ {<<>>}
  <2>1. /\ w \in Seq(Writes[e]) /\ Allocating[e][w] \in Text
        /\ (Allocating[e][w] # <<>> <=> \E part \in S : part[2] # <<>>)
    BY <1>16, TellsWhether
  <2>2. BytesFields(n6, t) # <<>>
    BY ONLY <1>1 DEF BytesFields
  <2> QED
    BY ONLY <1>15, <2>1, <2>2
<1>23. ReadLogRecord(fields) =
         [time |-> x, severity_number |-> k, severity_text |-> z, body |-> MeantValue(v),
          attributes |-> MeantKeyValues(kvs), trace_id |-> t, span_id |-> s]
  BY ONLY <1>4, <1>6, <1>10, <1>18, <1>19, <1>20, <1>21 DEF ReadLogRecord
<1>24. ReadLogRecord(fields) = MeantItem("logs", log)
  BY ONLY <1>2, <1>23
<1> QED
  BY ONLY <1>3, <1>14, <1>17, <1>22, <1>24 DEF LogTold

-----------------------------------------------------------------------------
(***************************************************************************)
(* Data points and metrics.                                                *)
(***************************************************************************)
\* The two times at the head of a data point.
LEMMA TimesTell ==
  ASSUME ProtoAssumption, NEW d \in Nat, NEW x \in U64, NEW y \in U64,
         NEW f \in Nat, NEW g \in Nat, f = 2, g = 3
  PROVE  TellsBelow(d, Times(x, y), {<<f, FixedFields(f, x)>>, <<g, FixedFields(g, y)>>}, g + 1)
<1>1. PICK a, b : a = Bytes(EncodeFixed64Field(f, x)) /\ b = Bytes(EncodeFixed64Field(g, y))
  OBVIOUS
<1>2. PICK p, q : p = FixedFields(f, x) /\ q = FixedFields(g, y)
  OBVIOUS
<1>3. Section(d, <<a>>, f, p) /\ Section(d, <<b>>, g, q)
  <2>0. f # 0 /\ g # 0
    BY ONLY f = 2, g = 3
  <2>1. Section(d, <<Bytes(EncodeFixed64Field(f, x))>>, f, FixedFields(f, x))
    BY ONLY <2>0, FieldSections, ProtoAssumption, d \in Nat, f \in Nat, x \in U64
  <2>2. Section(d, <<Bytes(EncodeFixed64Field(g, y))>>, g, FixedFields(g, y))
    BY ONLY <2>0, FieldSections, ProtoAssumption, d \in Nat, g \in Nat, y \in U64
  <2> QED
    BY ONLY <1>1, <1>2, <2>1, <2>2
<1>4. TellsBelow(d, <<>> \o <<a, b>>, {} \cup {<<f, p>>, <<g, q>>}, g + 1)
  <2>0. 0 <= f /\ f < g
    BY ONLY f = 2, g = 3
  <2>1. TellsBelow(d, <<>>, {}, 0)
    BY BelowNothing
  <2> QED
    BY ONLY <1>3, <2>0, <2>1, BelowTwo, ProtoAssumption, d \in Nat
<1>5. <<>> \o <<a, b>> = Times(x, y)
  <2>1. PICK X : <<a>> \in Seq(X) /\ <<b>> \in Seq(X)
    BY ONLY <1>3 DEF Section
  <2>2. a \in X /\ b \in X
    BY ONLY <2>1, Adding
  <2>3. <<>> \o <<a, b>> = <<a, b>>
    BY ONLY <2>2
  <2> QED
    BY ONLY <1>1, <2>3, f = 2, g = 3 DEF Times
<1>6. {} \cup {<<f, p>>, <<g, q>>} = {<<f, FixedFields(f, x)>>, <<g, FixedFields(g, y)>>}
  BY ONLY <1>2
<1> QED
  BY ONLY <1>4, <1>5, <1>6

\* A data point of a counter and one of a gauge are read as they were meant.
NumberMeant(dp, x, y) ==
  [start |-> x, time |-> y, value |-> dp.value, exemplar |-> dp.exemplar, attrs |-> MeantAttrs(dp.attrs)]
NumberTold(d, w, dp, x, y) ==
  /\ w \in Seq(Writes[d]) /\ Allocating[d][w] \in Text \ {<<>>}
  /\ ReadNumberDataPoint(FieldsOf(d, w)) = NumberMeant(dp, x, y)

\* It is: the value of a counter is a signed fixed64 and that of a gauge a double.
LEMMA CounterTells ==
  ASSUME ProtoAssumption, NEW d \in Nat, NEW dp \in DataPoint(I64), NEW x \in U64, NEW y \in U64
  PROVE  NumberTold((d + 1) + 1, EncodeCounterDataPoint(dp, x, y), dp, x, y)
<1>1. PICK u \in U64, exs \in Seq(Exemplar), attrs \in Seq(Pair) :
        u = AsU64(dp.value) /\ AsI64(u) = dp.value /\ dp.exemplar = exs /\ dp.attrs = attrs
  <2>1. dp.value \in I64 /\ dp.exemplar \in Seq(Exemplar) /\ dp.attrs \in Seq(Pair)
    BY DEF DataPoint, Attrs, Pair
  <2>2. AsU64(dp.value) \in U64 /\ AsI64(AsU64(dp.value)) = dp.value
    BY <2>1, SignedReads
  <2> QED
    BY ONLY <2>1, <2>2
<1>2. PICK c \in Nat, e \in Nat : c = d + 1 /\ e = c + 1
  OBVIOUS
<1>3. PICK n1 \in Nat, n2 \in Nat, n3 \in Nat, n4 \in Nat, n5 \in Nat :
        n1 = 2 /\ n2 = 3 /\ n3 = 5 /\ n4 = 6 /\ n5 = 7
  OBVIOUS
<1>4. n3 # 0 /\ n4 # 0 /\ n5 # 0 /\ n2 + 1 <= n3 /\ n3 + 1 <= n4 /\ n4 + 1 <= n5
  BY ONLY <1>3
<1>5. PICK w1, w3, w4, w5 :
        /\ w1 = Times(x, y) /\ w3 = Messages(n3, EncodeExemplar, exs)
        /\ w4 = Bytes(EncodeFixed64FieldAlways(n4, u)) /\ w5 = Messages(n5, EncodeAttrKeyValue, attrs)
  OBVIOUS
<1>6. PICK p1, p2, p4 : p1 = FixedFields(n1, x) /\ p2 = FixedFields(n2, y) /\ p4 = <<FixedRecord(n4, u)>>
  OBVIOUS
<1>7. PICK R : R = {<<n1, p1>>, <<n2, p2>>} /\ TellsBelow(e, w1, R, n2 + 1)
  <2>0. n1 = 2 /\ n2 = 3
    BY ONLY <1>3
  <2>1. TellsBelow(e, Times(x, y), {<<n1, FixedFields(n1, x)>>, <<n2, FixedFields(n2, y)>>}, n2 + 1)
    BY ONLY <2>0, TimesTell, ProtoAssumption, e \in Nat, x \in U64, y \in U64, n1 \in Nat, n2 \in Nat
  <2> QED
    BY ONLY <1>5, <1>6, <2>1
<1>8. PICK ta \in Seq(Text) : /\ Section(e, w3, n3, MessageFields(n3, ta))
                              /\ Each(ReadExemplar, Kept(ta, Full(ta))) = exs
  <2>0. n3 # 0
    BY ONLY <1>4
  <2>1. ExemplarsTold(c + 1, n3, exs)
    BY <2>0, ExemplarsTell
  <2> QED
    BY ONLY <1>2, <1>5, <2>1 DEF ExemplarsTold
<1>9. PICK tb \in Seq(Text) : /\ Section(e, w5, n5, MessageFields(n5, tb))
                              /\ Each(ReadAttr, Kept(tb, Full(tb))) = MeantAttrs(attrs)
  <2>0. n5 # 0
    BY ONLY <1>4
  <2>1. AttrsTold((d + 1) + 1, n5, attrs)
    BY <2>0, AttrsTell
  <2> QED
    BY ONLY <1>2, <1>5, <2>1 DEF AttrsTold
<1>10. Section(e, <<w4>>, n4, p4)
  <2>0. n4 # 0
    BY ONLY <1>4
  <2>1. Section(e, <<Bytes(EncodeFixed64FieldAlways(n4, u))>>, n4, <<FixedRecord(n4, u)>>)
    BY ONLY <2>0, FieldSections, ProtoAssumption, e \in Nat, n4 \in Nat, u \in U64
  <2> QED
    BY ONLY <1>5, <1>6, <2>1
<1>11. PICK w, S : /\ w = ((w1 \o w3) \o <<w4>>) \o w5 /\ Tells(e, w, S)
                   /\ S = ((R \cup {<<n3, MessageFields(n3, ta)>>}) \cup {<<n4, p4>>})
                            \cup {<<n5, MessageFields(n5, tb)>>}
  <2>0. n2 + 1 <= n3 /\ n3 + 1 <= n4 /\ n4 + 1 <= n5
    BY ONLY <1>4
  <2>1. TellsBelow(e, w1, R, n2 + 1)
    BY ONLY <1>7
  <2>2. TellsBelow(e, w1 \o w3, R \cup {<<n3, MessageFields(n3, ta)>>}, n3 + 1)
    BY ONLY <1>8, <2>0, <2>1, BelowOne, ProtoAssumption, e \in Nat
  <2>3. TellsBelow(e, (w1 \o w3) \o <<w4>>,
                   (R \cup {<<n3, MessageFields(n3, ta)>>}) \cup {<<n4, p4>>}, n4 + 1)
    BY ONLY <1>10, <2>0, <2>2, BelowOne, ProtoAssumption, e \in Nat
  <2>4. TellsBelow(e, ((w1 \o w3) \o <<w4>>) \o w5,
                   ((R \cup {<<n3, MessageFields(n3, ta)>>}) \cup {<<n4, p4>>})
                     \cup {<<n5, MessageFields(n5, tb)>>}, n5 + 1)
    BY ONLY <1>9, <2>0, <2>3, BelowOne, ProtoAssumption, e \in Nat
  <2> QED
    BY ONLY <2>4 DEF TellsBelow
<1>12. w = EncodeCounterDataPoint(dp, x, y)
  BY ONLY <1>1, <1>3, <1>5, <1>11 DEF EncodeCounterDataPoint
<1>13. /\ <<n1, FixedFields(n1, x)>> \in S /\ <<n2, FixedFields(n2, y)>> \in S
       /\ <<n3, MessageFields(n3, ta)>> \in S /\ <<n4, <<FixedRecord(n4, u)>>>> \in S
       /\ <<n5, MessageFields(n5, tb)>> \in S
  BY ONLY <1>6, <1>7, <1>11
<1>14. Tells(e, w, S)
  BY ONLY <1>11
<1>15. PICK fields : fields = FieldsOf(e, w)
  OBVIOUS
<1>16. ReadFixed(fields, n1) = x /\ ReadFixed(fields, n2) = y /\ ReadFixed(fields, n4) = u
  <2>1. ReadFixed(FieldsOf(e, w), n1) = x
    BY <1>13, <1>14, TellsFixed
  <2>2. ReadFixed(FieldsOf(e, w), n2) = y
    BY <1>13, <1>14, TellsFixed
  <2>3. ReadFixed(FieldsOf(e, w), n4) = u
    BY <1>13, <1>14, TellsFixedAlways
  <2> QED
    BY ONLY <1>15, <2>1, <2>2, <2>3
<1>17. ReadRepeated(fields, n3) = Kept(ta, Full(ta)) /\ ReadRepeated(fields, n5) = Kept(tb, Full(tb))
  BY <1>13, <1>14, <1>15, TellsMessages
<1>18. w \in Seq(Writes[e]) /\ Allocating[e][w] \in Text \ {<<>>} /\ ~Has(fields, 4)
  <2>1. /\ w \in Seq(Writes[e]) /\ Allocating[e][w] \in Text
        /\ (Allocating[e][w] # <<>> <=> \E part \in S : part[2] # <<>>)
        /\ \A f \in Nat : (\A part \in S : part[1] # f) => ~Has(FieldsOf(e, w), f)
    BY <1>14, TellsWhether
  <2>2. <<FixedRecord(n4, u)>> # <<>>
    OBVIOUS
  <2>3. Allocating[e][w] # <<>>
    BY ONLY <1>13, <2>1, <2>2
  <2>4. \A part \in S : part[1] # 4
    BY ONLY <1>3, <1>7, <1>11
  <2>5. 4 \in Nat
    OBVIOUS
  <2> QED
    BY ONLY <1>15, <2>1, <2>3, <2>4, <2>5
<1>19. ReadNumberDataPoint(fields) = NumberMeant(dp, x, y)
  BY ONLY <1>1, <1>3, <1>8, <1>9, <1>16, <1>17, <1>18 DEF ReadNumberDataPoint, NumberMeant
<1> QED
  BY ONLY <1>2, <1>12, <1>15, <1>18, <1>19 DEF NumberTold

LEMMA GaugeTells ==
  ASSUME ProtoAssumption, NEW d \in Nat, NEW dp \in DataPoint(U64), NEW x \in U64, NEW y \in U64
  PROVE  NumberTold((d + 1) + 1, EncodeGaugeDataPoint(dp, x, y), dp, x, y)
<1>1. PICK u \in U64, exs \in Seq(Exemplar), attrs \in Seq(Pair) :
        u = dp.value /\ dp.exemplar = exs /\ dp.attrs = attrs
  <2>1. dp.value \in U64 /\ dp.exemplar \in Seq(Exemplar) /\ dp.attrs \in Seq(Pair)
    BY DEF DataPoint, Attrs, Pair
  <2> QED
    BY ONLY <2>1
<1>2. PICK c \in Nat, e \in Nat : c = d + 1 /\ e = c + 1
  OBVIOUS
<1>3. PICK n1 \in Nat, n2 \in Nat, n3 \in Nat, n4 \in Nat, n5 \in Nat :
        n1 = 2 /\ n2 = 3 /\ n3 = 4 /\ n4 = 5 /\ n5 = 7
  OBVIOUS
<1>4. n3 # 0 /\ n4 # 0 /\ n5 # 0 /\ n2 + 1 <= n3 /\ n3 + 1 <= n4 /\ n4 + 1 <= n5
  BY ONLY <1>3
<1>5. PICK w1, w3, w4, w5 :
        /\ w1 = Times(x, y) /\ w3 = Bytes(EncodeFixed64FieldAlways(n3, u))
        /\ w4 = Messages(n4, EncodeExemplar, exs) /\ w5 = Messages(n5, EncodeAttrKeyValue, attrs)
  OBVIOUS
<1>6. PICK p1, p2, p3 : p1 = FixedFields(n1, x) /\ p2 = FixedFields(n2, y) /\ p3 = <<FixedRecord(n3, u)>>
  OBVIOUS
<1>7. PICK R : R = {<<n1, p1>>, <<n2, p2>>} /\ TellsBelow(e, w1, R, n2 + 1)
  <2>0. n1 = 2 /\ n2 = 3
    BY ONLY <1>3
  <2>1. TellsBelow(e, Times(x, y), {<<n1, FixedFields(n1, x)>>, <<n2, FixedFields(n2, y)>>}, n2 + 1)
    BY ONLY <2>0, TimesTell, ProtoAssumption, e \in Nat, x \in U64, y \in U64, n1 \in Nat, n2 \in Nat
  <2> QED
    BY ONLY <1>5, <1>6, <2>1
<1>8. PICK ta \in Seq(Text) : /\ Section(e, w4, n4, MessageFields(n4, ta))
                              /\ Each(ReadExemplar, Kept(ta, Full(ta))) = exs
  <2>0. n4 # 0
    BY ONLY <1>4
  <2>1. ExemplarsTold(c + 1, n4, exs)
    BY <2>0, ExemplarsTell
  <2> QED
    BY ONLY <1>2, <1>5, <2>1 DEF ExemplarsTold
<1>9. PICK tb \in Seq(Text) : /\ Section(e, w5, n5, MessageFields(n5, tb))
                              /\ Each(ReadAttr, Kept(tb, Full(tb))) = MeantAttrs(attrs)
  <2>0. n5 # 0
    BY ONLY <1>4
  <2>1. AttrsTold((d + 1) + 1, n5, attrs)
    BY <2>0, AttrsTell
  <2> QED
    BY ONLY <1>2, <1>5, <2>1 DEF AttrsTold
<1>10. Section(e, <<w3>>, n3, p3)
  <2>0. n3 # 0
    BY ONLY <1>4
  <2>1. Section(e, <<Bytes(EncodeFixed64FieldAlways(n3, u))>>, n3, <<FixedRecord(n3, u)>>)
    BY ONLY <2>0, FieldSections, ProtoAssumption, e \in Nat, n3 \in Nat, u \in U64
  <2> QED
    BY ONLY <1>5, <1>6, <2>1
<1>11. PICK w, S : /\ w = ((w1 \o <<w3>>) \o w4) \o w5 /\ Tells(e, w, S)
                   /\ S = ((R \cup {<<n3, p3>>}) \cup {<<n4, MessageFields(n4, ta)>>})
                            \cup {<<n5, MessageFields(n5, tb)>>}
  <2>0. n2 + 1 <= n3 /\ n3 + 1 <= n4 /\ n4 + 1 <= n5
    BY ONLY <1>4
  <2>1. TellsBelow(e, w1, R, n2 + 1)
    BY ONLY <1>7
  <2>2. TellsBelow(e, w1 \o <<w3>>, R \cup {<<n3, p3>>}, n3 + 1)
    BY ONLY <1>10, <2>0, <2>1, BelowOne, ProtoAssumption, e \in Nat
  <2>3. TellsBelow(e, (w1 \o <<w3>>) \o w4,
                   (R \cup {<<n3, p3>>}) \cup {<<n4, MessageFields(n4, ta)>>}, n4 + 1)
    BY ONLY <1>8, <2>0, <2>2, BelowOne, ProtoAssumption, e \in Nat
  <2>4. TellsBelow(e, ((w1 \o <<w3>>) \o w4) \o w5,
                   ((R \cup {<<n3, p3>>}) \cup {<<n4, MessageFields(n4, ta)>>})
                     \cup {<<n5, MessageFields(n5, tb)>>}, n5 + 1)
    BY ONLY <1>9, <2>0, <2>3, BelowOne, ProtoAssumption, e \in Nat
  <2> QED
    BY ONLY <2>4 DEF TellsBelow
<1>12. w = EncodeGaugeDataPoint(dp, x, y)
  BY ONLY <1>1, <1>3, <1>5, <1>11 DEF EncodeGaugeDataPoint
<1>13. /\ <<n1, FixedFields(n1, x)>> \in S /\ <<n2, FixedFields(n2, y)>> \in S
       /\ <<n3, <<FixedRecord(n3, u)>>>> \in S /\ <<n4, MessageFields(n4, ta)>> \in S
       /\ <<n5, MessageFields(n5, tb)>> \in S
  BY ONLY <1>6, <1>7, <1>11
<1>14. Tells(e, w, S)
  BY ONLY <1>11
<1>15. PICK fields : fields = FieldsOf(e, w)
  OBVIOUS
<1>16. ReadFixed(fields, n1) = x /\ ReadFixed(fields, n2) = y /\ ReadFixed(fields, n3) = u
  <2>1. ReadFixed(FieldsOf(e, w), n1) = x
    BY <1>13, <1>14, TellsFixed
  <2>2. ReadFixed(FieldsOf(e, w), n2) = y
    BY <1>13, <1>14, TellsFixed
  <2>3. ReadFixed(FieldsOf(e, w), n3) = u
    BY <1>13, <1>14, TellsFixedAlways
  <2> QED
    BY ONLY <1>15, <2>1, <2>2, <2>3
<1>17. ReadRepeated(fields, n4) = Kept(ta, Full(ta)) /\ ReadRepeated(fields, n5) = Kept(tb, Full(tb))
  BY <1>13, <1>14, <1>15, TellsMessages
<1>18. w \in Seq(Writes[e]) /\ Allocating[e][w] \in Text \ {<<>>} /\ Has(fields, 4)
  <2>1. /\ w \in Seq(Writes[e]) /\ Allocating[e][w] \in Text
        /\ (Allocating[e][w] # <<>> <=> \E part \in S : part[2] # <<>>)
        /\ \A part \in S : Has(FieldsOf(e, w), part[1]) <=> part[2] # <<>>
    BY <1>14, TellsWhether
  <2>2. <<FixedRecord(n3, u)>> # <<>>
    OBVIOUS
  <2>3. Allocating[e][w] # <<>> /\ Has(FieldsOf(e, w), n3)
    BY ONLY <1>13, <2>1, <2>2
  <2> QED
    BY ONLY <1>3, <1>15, <2>1, <2>3
<1>19. ReadNumberDataPoint(fields) = NumberMeant(dp, x, y)
  BY ONLY <1>1, <1>3, <1>8, <1>9, <1>16, <1>17, <1>18 DEF ReadNumberDataPoint, NumberMeant
<1> QED
  BY ONLY <1>2, <1>12, <1>15, <1>18, <1>19 DEF NumberTold

\* A data point of a histogram is read as it was meant.
HistogramMeant(dp, boundaries, x, y) ==
  [start |-> x, time |-> y, count |-> dp.count, sum |-> dp.sum,
   bucket_counts |-> dp.bucket_counts, boundaries |-> boundaries,
   exemplar |-> dp.exemplar, attrs |-> MeantAttrs(dp.attrs), min |-> dp.min, max |-> dp.max]
HistogramTold(d, w, dp, boundaries, x, y) ==
  /\ w \in Seq(Writes[d]) /\ Allocating[d][w] \in Text \ {<<>>}
  /\ ReadHistogramDataPoint(FieldsOf(d, w)) = HistogramMeant(dp, boundaries, x, y)

\* It is: the buckets and their boundaries are packed, and the sum, min and max written.
LEMMA HistogramTells ==
  ASSUME ProtoAssumption, NEW d \in Nat, NEW dp \in HistogramDataPoint, NEW boundaries \in Seq(U64),
         NEW x \in U64, NEW y \in U64
  PROVE  HistogramTold((d + 1) + 1, EncodeHistogramDataPoint(dp, boundaries, x, y), dp, boundaries, x, y)
<1>1. PICK count \in U64, sum \in U64, low \in U64, high \in U64, counts \in Seq(U64),
           exs \in Seq(Exemplar), attrs \in Seq(Pair) :
        /\ dp.count = count /\ dp.sum = sum /\ dp.min = low /\ dp.max = high
        /\ dp.bucket_counts = counts /\ dp.exemplar = exs /\ dp.attrs = attrs
  <2>1. dp.count \in U64 /\ dp.sum \in U64 /\ dp.min \in U64 /\ dp.max \in U64
    BY DEF HistogramDataPoint
  <2>2. dp.bucket_counts \in Seq(U64) /\ dp.exemplar \in Seq(Exemplar)
    BY DEF HistogramDataPoint
  <2>3. dp.attrs \in Seq(Pair)
    BY DEF HistogramDataPoint, Attrs, Pair
  <2> QED
    BY ONLY <2>1, <2>2, <2>3
<1>2. PICK c \in Nat, e \in Nat : c = d + 1 /\ e = c + 1
  OBVIOUS
<1>3. PICK n1 \in Nat, n2 \in Nat, n3 \in Nat, n4 \in Nat, n5 \in Nat, n6 \in Nat, n7 \in Nat,
           n8 \in Nat, n9 \in Nat, n10 \in Nat :
        /\ n1 = 2 /\ n2 = 3 /\ n3 = 4 /\ n4 = 5 /\ n5 = 6 /\ n6 = 7 /\ n7 = 9 /\ n8 = 8
        /\ n9 = 11 /\ n10 = 12
  OBVIOUS
<1>4. /\ n3 # 0 /\ n4 # 0 /\ n5 # 0 /\ n6 # 0 /\ n7 # 0 /\ n8 # 0 /\ n9 # 0 /\ n10 # 0
      /\ n2 + 1 <= n3 /\ n3 < n4 /\ n4 < n5 /\ n5 < n6 /\ n6 + 1 <= n7 /\ n9 < n10
  BY ONLY <1>3
<1>5. PICK w1, w3, w4, w5, w6, w7, w8, w9, w10 :
        /\ w1 = Times(x, y) /\ w3 = Bytes(EncodeFixed64FieldAlways(n3, count))
        /\ w4 = Bytes(EncodeFixed64FieldAlways(n4, sum))
        /\ w5 = Bytes(EncodePackedFixed64Field(n5, counts))
        /\ w6 = Bytes(EncodePackedFixed64Field(n6, boundaries))
        /\ w7 = Messages(n7, EncodeAttrKeyValue, attrs) /\ w8 = Messages(n8, EncodeExemplar, exs)
        /\ w9 = Bytes(EncodeFixed64FieldAlways(n9, low))
        /\ w10 = Bytes(EncodeFixed64FieldAlways(n10, high))
  OBVIOUS
<1>6. PICK p1, p2, p3, p4, p5, p6, p9, p10 :
        /\ p1 = FixedFields(n1, x) /\ p2 = FixedFields(n2, y)
        /\ p3 = <<FixedRecord(n3, count)>> /\ p4 = <<FixedRecord(n4, sum)>>
        /\ p5 = BytesFields(n5, Packed(counts)) /\ p6 = BytesFields(n6, Packed(boundaries))
        /\ p9 = <<FixedRecord(n9, low)>> /\ p10 = <<FixedRecord(n10, high)>>
  OBVIOUS
<1>7. PICK R : R = {<<n1, p1>>, <<n2, p2>>} /\ TellsBelow(e, w1, R, n2 + 1)
  <2>0. n1 = 2 /\ n2 = 3
    BY ONLY <1>3
  <2>1. TellsBelow(e, Times(x, y), {<<n1, FixedFields(n1, x)>>, <<n2, FixedFields(n2, y)>>}, n2 + 1)
    BY ONLY <2>0, TimesTell, ProtoAssumption, e \in Nat, x \in U64, y \in U64, n1 \in Nat, n2 \in Nat
  <2> QED
    BY ONLY <1>5, <1>6, <2>1
<1>8. /\ Section(e, <<w3>>, n3, p3) /\ Section(e, <<w4>>, n4, p4) /\ Section(e, <<w5>>, n5, p5)
      /\ Section(e, <<w6>>, n6, p6) /\ Section(e, <<w9>>, n9, p9) /\ Section(e, <<w10>>, n10, p10)
  <2>0. n3 # 0 /\ n4 # 0 /\ n5 # 0 /\ n6 # 0 /\ n9 # 0 /\ n10 # 0
    BY ONLY <1>4
  <2>1. Section(e, <<Bytes(EncodeFixed64FieldAlways(n3, count))>>, n3, <<FixedRecord(n3, count)>>)
    BY ONLY <2>0, FieldSections, ProtoAssumption, e \in Nat, n3 \in Nat, count \in U64
  <2>2. Section(e, <<Bytes(EncodeFixed64FieldAlways(n4, sum))>>, n4, <<FixedRecord(n4, sum)>>)
    BY ONLY <2>0, FieldSections, ProtoAssumption, e \in Nat, n4 \in Nat, sum \in U64
  <2>3. Section(e, <<Bytes(EncodePackedFixed64Field(n5, counts))>>, n5, BytesFields(n5, Packed(counts)))
    BY ONLY <2>0, PackedSection, ProtoAssumption, e \in Nat, n5 \in Nat, counts \in Seq(U64)
  <2>4. Section(e, <<Bytes(EncodePackedFixed64Field(n6, boundaries))>>, n6, BytesFields(n6, Packed(boundaries)))
    BY ONLY <2>0, PackedSection, ProtoAssumption, e \in Nat, n6 \in Nat, boundaries \in Seq(U64)
  <2>5. Section(e, <<Bytes(EncodeFixed64FieldAlways(n9, low))>>, n9, <<FixedRecord(n9, low)>>)
    BY ONLY <2>0, FieldSections, ProtoAssumption, e \in Nat, n9 \in Nat, low \in U64
  <2>6. Section(e, <<Bytes(EncodeFixed64FieldAlways(n10, high))>>, n10, <<FixedRecord(n10, high)>>)
    BY ONLY <2>0, FieldSections, ProtoAssumption, e \in Nat, n10 \in Nat, high \in U64
  <2> QED
    BY ONLY <1>5, <1>6, <2>1, <2>2, <2>3, <2>4, <2>5, <2>6
<1>9. PICK ta \in Seq(Text) : /\ Section(e, w7, n7, MessageFields(n7, ta))
                              /\ Each(ReadAttr, Kept(ta, Full(ta))) = MeantAttrs(attrs)
  <2>0. n7 # 0
    BY ONLY <1>4
  <2>1. AttrsTold((d + 1) + 1, n7, attrs)
    BY <2>0, AttrsTell
  <2> QED
    BY ONLY <1>2, <1>5, <2>1 DEF AttrsTold
<1>10. PICK tb \in Seq(Text) : /\ Section(e, w8, n8, MessageFields(n8, tb))
                               /\ Each(ReadExemplar, Kept(tb, Full(tb))) = exs
  <2>0. n8 # 0
    BY ONLY <1>4
  <2>1. ExemplarsTold(c + 1, n8, exs)
    BY <2>0, ExemplarsTell
  <2> QED
    BY ONLY <1>2, <1>5, <2>1 DEF ExemplarsTold
<1>11. PICK h, Q : /\ h = (w1 \o <<w3, w4, w5, w6>>) \o w7 /\ Tells(e, h, Q)
                   /\ Q = (R \cup {<<n3, p3>>, <<n4, p4>>, <<n5, p5>>, <<n6, p6>>})
                            \cup {<<n7, MessageFields(n7, ta)>>}
  <2>0. n2 + 1 <= n3 /\ n3 < n4 /\ n4 < n5 /\ n5 < n6 /\ n6 + 1 <= n7
    BY ONLY <1>4
  <2>1. TellsBelow(e, w1, R, n2 + 1)
    BY ONLY <1>7
  <2>2. TellsBelow(e, w1 \o <<w3, w4, w5, w6>>,
                   R \cup {<<n3, p3>>, <<n4, p4>>, <<n5, p5>>, <<n6, p6>>}, n6 + 1)
    BY ONLY <1>8, <2>0, <2>1, BelowFour, ProtoAssumption, e \in Nat
  <2>3. TellsBelow(e, (w1 \o <<w3, w4, w5, w6>>) \o w7,
                   (R \cup {<<n3, p3>>, <<n4, p4>>, <<n5, p5>>, <<n6, p6>>})
                     \cup {<<n7, MessageFields(n7, ta)>>}, n7 + 1)
    BY ONLY <1>9, <2>0, <2>2, BelowOne, ProtoAssumption, e \in Nat
  <2> QED
    BY ONLY <2>3 DEF TellsBelow
<1>12. PICK v, P : /\ v = h \o w8 /\ Tells(e, v, P) /\ P = Q \cup {<<n8, MessageFields(n8, tb)>>}
  <2>1. \A part \in Q : part[1] # n8
    BY ONLY <1>3, <1>7, <1>11
  <2>2. Tells(e, h, Q)
    BY ONLY <1>11
  <2>3. Tells(e, h \o w8, Q \cup {<<n8, MessageFields(n8, tb)>>})
    BY ONLY <1>10, <2>1, <2>2, TellsMore, ProtoAssumption, e \in Nat
  <2> QED
    BY ONLY <2>3
<1>13. PICK w, S : w = v \o <<w9, w10>> /\ Tells(e, w, S) /\ S = P \cup {<<n9, p9>>, <<n10, p10>>}
  <2>0. n9 <= n9 /\ n9 < n10
    BY ONLY <1>3
  <2>1. \A part \in P : part[1] < n9
    <3>1. \A part \in Q : part[1] < n9
      BY ONLY <1>3, <1>7, <1>11
    <3>2. n8 < n9
      BY ONLY <1>3
    <3> QED
      BY ONLY <1>12, <3>1, <3>2
  <2>2. TellsBelow(e, v, P, n9)
    BY ONLY <1>12, <2>1, n9 \in Nat DEF TellsBelow
  <2>3. TellsBelow(e, v \o <<w9, w10>>, P \cup {<<n9, p9>>, <<n10, p10>>}, n10 + 1)
    BY ONLY <1>8, <2>0, <2>2, BelowTwo, ProtoAssumption, e \in Nat
  <2> QED
    BY ONLY <2>3 DEF TellsBelow
<1>14. w = EncodeHistogramDataPoint(dp, boundaries, x, y)
  <2>1. EncodeHistogramDataPoint(dp, boundaries, x, y)
          = (((w1 \o <<w3, w4, w5, w6>>) \o w7) \o w8) \o <<w9, w10>>
    BY ONLY <1>1, <1>3, <1>5 DEF EncodeHistogramDataPoint
  <2> QED
    BY ONLY <1>11, <1>12, <1>13, <2>1
<1>15. /\ <<n1, FixedFields(n1, x)>> \in S /\ <<n2, FixedFields(n2, y)>> \in S
       /\ <<n3, <<FixedRecord(n3, count)>>>> \in S /\ <<n4, <<FixedRecord(n4, sum)>>>> \in S
       /\ <<n5, BytesFields(n5, Packed(counts))>> \in S
       /\ <<n6, BytesFields(n6, Packed(boundaries))>> \in S
       /\ <<n7, MessageFields(n7, ta)>> \in S /\ <<n8, MessageFields(n8, tb)>> \in S
       /\ <<n9, <<FixedRecord(n9, low)>>>> \in S /\ <<n10, <<FixedRecord(n10, high)>>>> \in S
  BY ONLY <1>6, <1>7, <1>11, <1>12, <1>13
<1>16. Tells(e, w, S)
  BY ONLY <1>13
<1>17. PICK fields : fields = FieldsOf(e, w)
  OBVIOUS
<1>18. /\ ReadFixed(fields, n1) = x /\ ReadFixed(fields, n2) = y
       /\ ReadFixed(fields, n3) = count /\ ReadFixed(fields, n4) = sum
       /\ ReadFixed(fields, n9) = low /\ ReadFixed(fields, n10) = high
  <2>1. ReadFixed(FieldsOf(e, w), n1) = x
    <3>1. <<n1, FixedFields(n1, x)>> \in S
      BY ONLY <1>15
    <3> QED
      BY ONLY <1>16, <3>1, TellsFixed, ProtoAssumption, e \in Nat, x \in U64
  <2>2. ReadFixed(FieldsOf(e, w), n2) = y
    <3>1. <<n2, FixedFields(n2, y)>> \in S
      BY ONLY <1>15
    <3> QED
      BY ONLY <1>16, <3>1, TellsFixed, ProtoAssumption, e \in Nat, y \in U64
  <2>3. ReadFixed(FieldsOf(e, w), n3) = count
    <3>1. <<n3, <<FixedRecord(n3, count)>>>> \in S
      BY ONLY <1>15
    <3> QED
      BY ONLY <1>16, <3>1, TellsFixedAlways, ProtoAssumption, e \in Nat, count \in U64
  <2>4. ReadFixed(FieldsOf(e, w), n4) = sum
    <3>1. <<n4, <<FixedRecord(n4, sum)>>>> \in S
      BY ONLY <1>15
    <3> QED
      BY ONLY <1>16, <3>1, TellsFixedAlways, ProtoAssumption, e \in Nat, sum \in U64
  <2>5. ReadFixed(FieldsOf(e, w), n9) = low
    <3>1. <<n9, <<FixedRecord(n9, low)>>>> \in S
      BY ONLY <1>15
    <3> QED
      BY ONLY <1>16, <3>1, TellsFixedAlways, ProtoAssumption, e \in Nat, low \in U64
  <2>6. ReadFixed(FieldsOf(e, w), n10) = high
    <3>1. <<n10, <<FixedRecord(n10, high)>>>> \in S
      BY ONLY <1>15
    <3> QED
      BY ONLY <1>16, <3>1, TellsFixedAlways, ProtoAssumption, e \in Nat, high \in U64
  <2> QED
    BY ONLY <1>17, <2>1, <2>2, <2>3, <2>4, <2>5, <2>6
<1>19. ReadPacked(fields, n5) = counts /\ ReadPacked(fields, n6) = boundaries
  <2>1. ReadPacked(FieldsOf(e, w), n5) = counts
    <3>1. <<n5, BytesFields(n5, Packed(counts))>> \in S
      BY ONLY <1>15
    <3> QED
      BY <1>16, <3>1, TellsPacked
  <2>2. ReadPacked(FieldsOf(e, w), n6) = boundaries
    <3>1. <<n6, BytesFields(n6, Packed(boundaries))>> \in S
      BY ONLY <1>15
    <3> QED
      BY <1>16, <3>1, TellsPacked
  <2> QED
    BY ONLY <1>17, <2>1, <2>2
<1>20. ReadRepeated(fields, n7) = Kept(ta, Full(ta)) /\ ReadRepeated(fields, n8) = Kept(tb, Full(tb))
  <2>1. ReadRepeated(FieldsOf(e, w), n7) = Kept(ta, Full(ta))
    <3>1. <<n7, MessageFields(n7, ta)>> \in S
      BY ONLY <1>15
    <3> QED
      BY <1>16, <3>1, TellsMessages
  <2>2. ReadRepeated(FieldsOf(e, w), n8) = Kept(tb, Full(tb))
    <3>1. <<n8, MessageFields(n8, tb)>> \in S
      BY ONLY <1>15
    <3> QED
      BY <1>16, <3>1, TellsMessages
  <2> QED
    BY ONLY <1>17, <2>1, <2>2
<1>21. w \in Seq(Writes[e]) /\ Allocating[e][w] \in Text \ {<<>>}
  <2>1. /\ w \in Seq(Writes[e]) /\ Allocating[e][w] \in Text
        /\ (Allocating[e][w] # <<>> <=> \E part \in S : part[2] # <<>>)
    BY <1>16, TellsWhether
  <2>2. <<FixedRecord(n3, count)>> # <<>>
    OBVIOUS
  <2> QED
    BY ONLY <1>15, <2>1, <2>2
<1>22. ReadHistogramDataPoint(fields) = HistogramMeant(dp, boundaries, x, y)
  BY ONLY <1>1, <1>3, <1>9, <1>10, <1>18, <1>19, <1>20 DEF ReadHistogramDataPoint, HistogramMeant
<1> QED
  BY ONLY <1>2, <1>14, <1>17, <1>21, <1>22 DEF HistogramTold

\* What is not told is read as a zero, and what is told in a message is there.
LEMMA TellsNoNumber ==
  ASSUME ProtoAssumption, NEW d \in Nat, NEW w, NEW S, Tells(d, w, S),
         NEW f \in Nat, \A x \in S : x[1] # f
  PROVE  ReadNumber(FieldsOf(d, w), f) = 0
<1>1. PICK c : Reads(Allocating[d][w], c) /\ Told(c, S)
  BY DEF Tells
<1>2. c[f] = VarintFields(f, 0)
  BY <1>1 DEF Told, VarintFields
<1>3. 0 \in Nat
  OBVIOUS
<1> QED
  BY <1>1, <1>2, <1>3, ReadsVarint DEF FieldsOf

\* Writes that tell messages that are there have bytes.
LEMMA TellsSome ==
  ASSUME ProtoAssumption, NEW d \in Nat, NEW w, NEW S, Tells(d, w, S),
         NEW f \in Nat, NEW texts \in Seq(Text), <<f, MessageFields(f, texts)>> \in S,
         Kept(texts, Full(texts)) # <<>>
  PROVE  Allocating[d][w] # <<>>
<1>1. ReadRepeated(MessageFields(f, texts), f) = Kept(texts, Full(texts))
  BY MessagesAsk
<1>2. ReadRepeated(<<>>, f) = <<>>
  <2>1. PICK all : all = Occurrences(<<>>, f, LengthDelimited) /\ all = <<>>
    BY NothingOccurs
  <2>2. [i \in DOMAIN all |-> all[i].bytes] = <<>>
    BY ONLY <2>1
  <2> QED
    BY ONLY <2>1, <2>2 DEF ReadRepeated
<1>3. MessageFields(f, texts) # <<>>
  BY ONLY <1>1, <1>2, Kept(texts, Full(texts)) # <<>>
<1>4. Allocating[d][w] # <<>> <=> \E x \in S : x[2] # <<>>
  BY TellsWhether
<1> QED
  BY ONLY <1>3, <1>4, <<f, MessageFields(f, texts)>> \in S

\* The data points of a metric are read as they were meant.
MeantPoints(m) == [i \in DOMAIN m.data_points |-> MeantPoint(m, m.data_points[i])]

NumberReader == [t \in Text |-> ReadNumberDataPoint(ReadFields[t])]
NumbersTold(d, f, v, values) ==
  \E texts \in Seq(Text) :
    /\ Section(d, v, f, MessageFields(f, texts))
    /\ Each(ReadNumberDataPoint, Kept(texts, Full(texts))) = values

HistogramReader == [t \in Text |-> ReadHistogramDataPoint(ReadFields[t])]
HistogramsTold(d, f, v, values) ==
  \E texts \in Seq(Text) :
    /\ Section(d, v, f, MessageFields(f, texts))
    /\ Each(ReadHistogramDataPoint, Kept(texts, Full(texts))) = values

\* The points of a counter, of a gauge and of a histogram are each read by its reader.
LEMMA CounterPointsTell ==
  ASSUME ProtoAssumption, NEW d \in Nat, NEW f \in Nat, f # 0, NEW m \in MetricOf("counter", DataPoint(I64))
  PROVE  NumbersTold(((d + 1) + 1) + 1, f,
             Messages(f, LAMBDA dp : EncodeCounterDataPoint(dp, m.start, m.time), m.data_points), MeantPoints(m))
<1>1. PICK x \in U64, y \in U64, bounds \in Seq(U64), dps \in Seq(DataPoint(I64)) :
        m.start = x /\ m.time = y /\ m.boundaries = bounds /\ m.data_points = dps /\ m.kind = "counter"
  BY DEF MetricOf, OneOrMore
<1>2. PICK e \in Nat : e = (d + 1) + 1
  OBVIOUS
<1>3. ASSUME NEW i \in DOMAIN dps
      PROVE  NumberTold(e, EncodeCounterDataPoint(dps[i], x, y), dps[i], x, y)
  <2>1. dps[i] \in DataPoint(I64)
    BY ONLY dps \in Seq(DataPoint(I64))
  <2>2. NumberTold((d + 1) + 1, EncodeCounterDataPoint(dps[i], x, y), dps[i], x, y)
    BY <2>1, CounterTells
  <2> QED
    BY ONLY <1>2, <2>2
<1>4. PICK bodies, values :
        /\ bodies = [i \in DOMAIN dps |-> EncodeCounterDataPoint(dps[i], x, y)]
        /\ values = MeantPoints(m)
  OBVIOUS
<1>5. Alike(bodies, dps) /\ \A i \in DOMAIN dps : bodies[i] = EncodeCounterDataPoint(dps[i], x, y)
  BY ONLY <1>4 DEF Alike
<1>6. Alike(values, dps) /\ \A i \in DOMAIN dps : values[i] = NumberMeant(dps[i], x, y)
  <2>1. values = [i \in DOMAIN dps |-> MeantPoint(m, dps[i])]
    BY ONLY <1>1, <1>4 DEF MeantPoints
  <2>2. ASSUME NEW i \in DOMAIN dps PROVE MeantPoint(m, dps[i]) = NumberMeant(dps[i], x, y)
    BY ONLY <1>1 DEF MeantPoint, NumberMeant
  <2>3. Alike(values, dps) /\ \A i \in DOMAIN dps : values[i] = MeantPoint(m, dps[i])
    BY ONLY <2>1 DEF Alike
  <2> QED
    BY ONLY <2>2, <2>3
<1>7. PICK k : k = [t \in Text |-> k[t]] /\ \A t \in Text : k[t] = ReadNumberDataPoint(ReadFields[t])
  <2>1. /\ NumberReader = [t \in Text |-> NumberReader[t]]
        /\ \A t \in Text : NumberReader[t] = ReadNumberDataPoint(ReadFields[t])
    BY DEF NumberReader
  <2> QED
    BY <2>1
<1>8. BodiesMean(e, dps, bodies, k, values) /\ \A i \in DOMAIN dps : Allocating[e][bodies[i]] # <<>>
  <2>1. ASSUME NEW i \in DOMAIN dps
        PROVE  /\ bodies[i] \in Seq(Writes[e]) /\ k[Allocating[e][bodies[i]]] = values[i]
               /\ Allocating[e][bodies[i]] # <<>>
    BY ONLY <1>3, <1>5, <1>6, <1>7 DEF NumberTold, FieldsOf
  <2> QED
    BY ONLY <1>5, <1>6, <1>7, <2>1 DEF BodiesMean
<1>9. PICK v : /\ v = Messages(f, LAMBDA dp : EncodeCounterDataPoint(dp, m.start, m.time), m.data_points)
               /\ v = [i \in DOMAIN dps |-> Message(f, bodies[i])]
  <2>1. Messages(f, LAMBDA dp : EncodeCounterDataPoint(dp, m.start, m.time), m.data_points)
          = [i \in DOMAIN dps |-> Message(f, bodies[i])]
    BY ONLY <1>1, <1>5 DEF Messages
  <2> QED
    BY ONLY <2>1
<1>10. AllTold(e + 1, v, f, k, values)
  BY <1>8, <1>9, AllTell
<1>11. PICK texts \in Seq(Text), kept \in Seq(Text) :
          /\ Section(e + 1, v, f, MessageFields(f, texts)) /\ kept = Kept(texts, Full(texts))
          /\ Mapped(k, kept) = values
  BY ONLY <1>10 DEF AllTold
<1>12. Each(ReadNumberDataPoint, kept) = Mapped(k, kept)
  <2>1. \A i \in DOMAIN kept : kept[i] \in Text
    BY ONLY kept \in Seq(Text)
  <2> QED
    BY ONLY <1>7, <2>1 DEF Each, Mapped
<1> QED
  BY ONLY <1>2, <1>4, <1>9, <1>11, <1>12, texts \in Seq(Text) DEF NumbersTold

LEMMA GaugePointsTell ==
  ASSUME ProtoAssumption, NEW d \in Nat, NEW f \in Nat, f # 0, NEW m \in MetricOf("gauge", DataPoint(U64))
  PROVE  NumbersTold(((d + 1) + 1) + 1, f,
             Messages(f, LAMBDA dp : EncodeGaugeDataPoint(dp, m.start, m.time), m.data_points), MeantPoints(m))
<1>1. PICK x \in U64, y \in U64, bounds \in Seq(U64), dps \in Seq(DataPoint(U64)) :
        m.start = x /\ m.time = y /\ m.boundaries = bounds /\ m.data_points = dps /\ m.kind = "gauge"
  BY DEF MetricOf, OneOrMore
<1>2. PICK e \in Nat : e = (d + 1) + 1
  OBVIOUS
<1>3. ASSUME NEW i \in DOMAIN dps
      PROVE  NumberTold(e, EncodeGaugeDataPoint(dps[i], x, y), dps[i], x, y)
  <2>1. dps[i] \in DataPoint(U64)
    BY ONLY dps \in Seq(DataPoint(U64))
  <2>2. NumberTold((d + 1) + 1, EncodeGaugeDataPoint(dps[i], x, y), dps[i], x, y)
    BY <2>1, GaugeTells
  <2> QED
    BY ONLY <1>2, <2>2
<1>4. PICK bodies, values :
        /\ bodies = [i \in DOMAIN dps |-> EncodeGaugeDataPoint(dps[i], x, y)]
        /\ values = MeantPoints(m)
  OBVIOUS
<1>5. Alike(bodies, dps) /\ \A i \in DOMAIN dps : bodies[i] = EncodeGaugeDataPoint(dps[i], x, y)
  BY ONLY <1>4 DEF Alike
<1>6. Alike(values, dps) /\ \A i \in DOMAIN dps : values[i] = NumberMeant(dps[i], x, y)
  <2>1. values = [i \in DOMAIN dps |-> MeantPoint(m, dps[i])]
    BY ONLY <1>1, <1>4 DEF MeantPoints
  <2>2. ASSUME NEW i \in DOMAIN dps PROVE MeantPoint(m, dps[i]) = NumberMeant(dps[i], x, y)
    BY ONLY <1>1 DEF MeantPoint, NumberMeant
  <2>3. Alike(values, dps) /\ \A i \in DOMAIN dps : values[i] = MeantPoint(m, dps[i])
    BY ONLY <2>1 DEF Alike
  <2> QED
    BY ONLY <2>2, <2>3
<1>7. PICK k : k = [t \in Text |-> k[t]] /\ \A t \in Text : k[t] = ReadNumberDataPoint(ReadFields[t])
  <2>1. /\ NumberReader = [t \in Text |-> NumberReader[t]]
        /\ \A t \in Text : NumberReader[t] = ReadNumberDataPoint(ReadFields[t])
    BY DEF NumberReader
  <2> QED
    BY <2>1
<1>8. BodiesMean(e, dps, bodies, k, values) /\ \A i \in DOMAIN dps : Allocating[e][bodies[i]] # <<>>
  <2>1. ASSUME NEW i \in DOMAIN dps
        PROVE  /\ bodies[i] \in Seq(Writes[e]) /\ k[Allocating[e][bodies[i]]] = values[i]
               /\ Allocating[e][bodies[i]] # <<>>
    BY ONLY <1>3, <1>5, <1>6, <1>7 DEF NumberTold, FieldsOf
  <2> QED
    BY ONLY <1>5, <1>6, <1>7, <2>1 DEF BodiesMean
<1>9. PICK v : /\ v = Messages(f, LAMBDA dp : EncodeGaugeDataPoint(dp, m.start, m.time), m.data_points)
               /\ v = [i \in DOMAIN dps |-> Message(f, bodies[i])]
  <2>1. Messages(f, LAMBDA dp : EncodeGaugeDataPoint(dp, m.start, m.time), m.data_points)
          = [i \in DOMAIN dps |-> Message(f, bodies[i])]
    BY ONLY <1>1, <1>5 DEF Messages
  <2> QED
    BY ONLY <2>1
<1>10. AllTold(e + 1, v, f, k, values)
  BY <1>8, <1>9, AllTell
<1>11. PICK texts \in Seq(Text), kept \in Seq(Text) :
          /\ Section(e + 1, v, f, MessageFields(f, texts)) /\ kept = Kept(texts, Full(texts))
          /\ Mapped(k, kept) = values
  BY ONLY <1>10 DEF AllTold
<1>12. Each(ReadNumberDataPoint, kept) = Mapped(k, kept)
  <2>1. \A i \in DOMAIN kept : kept[i] \in Text
    BY ONLY kept \in Seq(Text)
  <2> QED
    BY ONLY <1>7, <2>1 DEF Each, Mapped
<1> QED
  BY ONLY <1>2, <1>4, <1>9, <1>11, <1>12, texts \in Seq(Text) DEF NumbersTold

LEMMA HistogramPointsTell ==
  ASSUME ProtoAssumption, NEW d \in Nat, NEW f \in Nat, f # 0, NEW m \in MetricOf("histogram", HistogramDataPoint)
  PROVE  HistogramsTold(((d + 1) + 1) + 1, f,
             Messages(f, LAMBDA dp : EncodeHistogramDataPoint(dp, m.boundaries, m.start, m.time), m.data_points), MeantPoints(m))
<1>1. PICK x \in U64, y \in U64, bounds \in Seq(U64), dps \in Seq(HistogramDataPoint) :
        m.start = x /\ m.time = y /\ m.boundaries = bounds /\ m.data_points = dps /\ m.kind = "histogram"
  BY DEF MetricOf, OneOrMore
<1>2. PICK e \in Nat : e = (d + 1) + 1
  OBVIOUS
<1>3. ASSUME NEW i \in DOMAIN dps
      PROVE  HistogramTold(e, EncodeHistogramDataPoint(dps[i], bounds, x, y), dps[i], bounds, x, y)
  <2>1. dps[i] \in HistogramDataPoint
    BY ONLY dps \in Seq(HistogramDataPoint)
  <2>2. HistogramTold((d + 1) + 1, EncodeHistogramDataPoint(dps[i], bounds, x, y), dps[i], bounds, x, y)
    BY <2>1, HistogramTells
  <2> QED
    BY ONLY <1>2, <2>2
<1>4. PICK bodies, values :
        /\ bodies = [i \in DOMAIN dps |-> EncodeHistogramDataPoint(dps[i], bounds, x, y)]
        /\ values = MeantPoints(m)
  OBVIOUS
<1>5. Alike(bodies, dps) /\ \A i \in DOMAIN dps : bodies[i] = EncodeHistogramDataPoint(dps[i], bounds, x, y)
  BY ONLY <1>4 DEF Alike
<1>6. Alike(values, dps) /\ \A i \in DOMAIN dps : values[i] = HistogramMeant(dps[i], bounds, x, y)
  <2>1. values = [i \in DOMAIN dps |-> MeantPoint(m, dps[i])]
    BY ONLY <1>1, <1>4 DEF MeantPoints
  <2>2. ASSUME NEW i \in DOMAIN dps PROVE MeantPoint(m, dps[i]) = HistogramMeant(dps[i], bounds, x, y)
    BY ONLY <1>1 DEF MeantPoint, HistogramMeant
  <2>3. Alike(values, dps) /\ \A i \in DOMAIN dps : values[i] = MeantPoint(m, dps[i])
    BY ONLY <2>1 DEF Alike
  <2> QED
    BY ONLY <2>2, <2>3
<1>7. PICK k : k = [t \in Text |-> k[t]] /\ \A t \in Text : k[t] = ReadHistogramDataPoint(ReadFields[t])
  <2>1. /\ HistogramReader = [t \in Text |-> HistogramReader[t]]
        /\ \A t \in Text : HistogramReader[t] = ReadHistogramDataPoint(ReadFields[t])
    BY DEF HistogramReader
  <2> QED
    BY <2>1
<1>8. BodiesMean(e, dps, bodies, k, values) /\ \A i \in DOMAIN dps : Allocating[e][bodies[i]] # <<>>
  <2>1. ASSUME NEW i \in DOMAIN dps
        PROVE  /\ bodies[i] \in Seq(Writes[e]) /\ k[Allocating[e][bodies[i]]] = values[i]
               /\ Allocating[e][bodies[i]] # <<>>
    BY ONLY <1>3, <1>5, <1>6, <1>7 DEF HistogramTold, FieldsOf
  <2> QED
    BY ONLY <1>5, <1>6, <1>7, <2>1 DEF BodiesMean
<1>9. PICK v : /\ v = Messages(f, LAMBDA dp : EncodeHistogramDataPoint(dp, m.boundaries, m.start, m.time), m.data_points)
               /\ v = [i \in DOMAIN dps |-> Message(f, bodies[i])]
  <2>1. Messages(f, LAMBDA dp : EncodeHistogramDataPoint(dp, m.boundaries, m.start, m.time), m.data_points)
          = [i \in DOMAIN dps |-> Message(f, bodies[i])]
    BY ONLY <1>1, <1>5 DEF Messages
  <2> QED
    BY ONLY <2>1
<1>10. AllTold(e + 1, v, f, k, values)
  BY <1>8, <1>9, AllTell
<1>11. PICK texts \in Seq(Text), kept \in Seq(Text) :
          /\ Section(e + 1, v, f, MessageFields(f, texts)) /\ kept = Kept(texts, Full(texts))
          /\ Mapped(k, kept) = values
  BY ONLY <1>10 DEF AllTold
<1>12. Each(ReadHistogramDataPoint, kept) = Mapped(k, kept)
  <2>1. \A i \in DOMAIN kept : kept[i] \in Text
    BY ONLY kept \in Seq(Text)
  <2> QED
    BY ONLY <1>7, <2>1 DEF Each, Mapped
<1> QED
  BY ONLY <1>2, <1>4, <1>9, <1>11, <1>12, texts \in Seq(Text) DEF HistogramsTold

\* What a metric is, is read as it was meant.
BodyTold(d, m, body) ==
  /\ body \in Seq(Writes[d]) /\ Allocating[d][body] \in Text \ {<<>>}
  /\ m.kind # "gauge" => ReadNumber(FieldsOf(d, body), 2) = 2
  /\ m.kind = "gauge" => ReadNumber(FieldsOf(d, body), 2) = 0
  /\ m.kind = "counter" => ReadNumber(FieldsOf(d, body), 3) = 1
  /\ m.kind # "counter" => ReadNumber(FieldsOf(d, body), 3) = 0
  /\ m.kind = "histogram" =>
       Each(ReadHistogramDataPoint, ReadRepeated(FieldsOf(d, body), 1)) = MeantPoints(m)
  /\ m.kind # "histogram" =>
       Each(ReadNumberDataPoint, ReadRepeated(FieldsOf(d, body), 1)) = MeantPoints(m)

\* The data of a counter, of a gauge and of a histogram are told by their sections.
LEMMA CounterBodyTells ==
  ASSUME ProtoAssumption, NEW d \in Nat, NEW m \in MetricOf("counter", DataPoint(I64))
  PROVE  BodyTold(((d + 1) + 1) + 1, m, EncodeSum(m))
<1>1. PICK e \in Nat : e = ((d + 1) + 1) + 1
  OBVIOUS
<1>2. PICK n1 \in Nat, n2 \in Nat, n3 \in Nat, two \in Nat, one \in Nat :
        n1 = 1 /\ n2 = 2 /\ n3 = 3 /\ two = 2 /\ one = 1
  OBVIOUS
<1>3. n1 # 0 /\ n2 # 0 /\ n3 # 0 /\ 0 <= n1 /\ n1 + 1 <= n2 /\ n2 < n3 /\ two # 0
  BY ONLY <1>2
<1>4. PICK v, a, b :
        /\ v = Messages(n1, LAMBDA dp : EncodeCounterDataPoint(dp, m.start, m.time), m.data_points)
        /\ a = Bytes(EncodeVarintField(n2, two)) /\ b = Bytes(EncodeVarintField(n3, one))
  OBVIOUS
<1>5. PICK p, q : p = VarintFields(n2, two) /\ q = VarintFields(n3, one)
  OBVIOUS
<1>6. PICK texts \in Seq(Text) :
        /\ Section(e, v, n1, MessageFields(n1, texts))
        /\ Each(ReadNumberDataPoint, Kept(texts, Full(texts))) = MeantPoints(m)
  <2>0. n1 # 0
    BY ONLY <1>3
  <2>1. NumbersTold(((d + 1) + 1) + 1, n1,
          Messages(n1, LAMBDA dp : EncodeCounterDataPoint(dp, m.start, m.time), m.data_points), MeantPoints(m))
    BY <2>0, CounterPointsTell
  <2>2. NumbersTold(e, n1, v, MeantPoints(m))
    BY ONLY <1>1, <1>4, <2>1
  <2> QED
    BY ONLY <2>2 DEF NumbersTold
<1>7. Section(e, <<a>>, n2, p) /\ Section(e, <<b>>, n3, q)
  <2>0. n2 # 0 /\ n3 # 0
    BY ONLY <1>3
  <2>1. Section(e, <<Bytes(EncodeVarintField(n2, two))>>, n2, VarintFields(n2, two))
    BY ONLY <2>0, FieldSections, ProtoAssumption, e \in Nat, n2 \in Nat, two \in Nat
  <2>2. Section(e, <<Bytes(EncodeVarintField(n3, one))>>, n3, VarintFields(n3, one))
    BY ONLY <2>0, FieldSections, ProtoAssumption, e \in Nat, n3 \in Nat, one \in Nat
  <2> QED
    BY ONLY <1>4, <1>5, <2>1, <2>2
<1>8. PICK w, S : /\ w = (<<>> \o v) \o <<a, b>> /\ Tells(e, w, S)
                  /\ S = ({} \cup {<<n1, MessageFields(n1, texts)>>}) \cup {<<n2, p>>, <<n3, q>>}
  <2>0. 0 <= n1 /\ n1 + 1 <= n2 /\ n2 < n3
    BY ONLY <1>3
  <2>1. TellsBelow(e, <<>>, {}, 0)
    BY BelowNothing
  <2>2. TellsBelow(e, <<>> \o v, {} \cup {<<n1, MessageFields(n1, texts)>>}, n1 + 1)
    BY ONLY <1>6, <2>0, <2>1, BelowOne, ProtoAssumption, e \in Nat
  <2>3. TellsBelow(e, (<<>> \o v) \o <<a, b>>,
                   ({} \cup {<<n1, MessageFields(n1, texts)>>}) \cup {<<n2, p>>, <<n3, q>>}, n3 + 1)
    BY ONLY <1>7, <2>0, <2>2, BelowTwo, ProtoAssumption, e \in Nat
  <2> QED
    BY ONLY <2>3 DEF TellsBelow
<1>9. w = EncodeSum(m)
  <2>1. <<>> \o v = v
    BY ONLY <1>6 DEF Section
  <2>2. v \o <<a, b>> = EncodeSum(m)
    BY ONLY <1>2, <1>4 DEF EncodeSum, Cumulative
  <2> QED
    BY ONLY <1>8, <2>1, <2>2
<1>10. /\ <<n1, MessageFields(n1, texts)>> \in S /\ <<n2, VarintFields(n2, two)>> \in S
       /\ <<n3, VarintFields(n3, one)>> \in S
  BY ONLY <1>5, <1>8
<1>11. Tells(e, w, S)
  BY ONLY <1>8
<1>12. ReadNumber(FieldsOf(e, w), n2) = two /\ ReadNumber(FieldsOf(e, w), n3) = one
  <2>1. ReadNumber(FieldsOf(e, w), n2) = two
    BY <1>10, <1>11, TellsNumber
  <2>2. ReadNumber(FieldsOf(e, w), n3) = one
    BY <1>10, <1>11, TellsNumber
  <2> QED
    BY ONLY <2>1, <2>2
<1>13. ReadRepeated(FieldsOf(e, w), n1) = Kept(texts, Full(texts))
  BY <1>10, <1>11, TellsMessages
<1>14. w \in Seq(Writes[e]) /\ Allocating[e][w] \in Text \ {<<>>}
  <2>1. /\ w \in Seq(Writes[e]) /\ Allocating[e][w] \in Text
        /\ (Allocating[e][w] # <<>> <=> \E part \in S : part[2] # <<>>)
    BY <1>11, TellsWhether
  <2>2. VarintFields(n2, two) # <<>>
    BY ONLY <1>3 DEF VarintFields
  <2> QED
    BY ONLY <1>10, <2>1, <2>2
<1>15. m.kind = "counter"
  BY DEF MetricOf
<1> QED
  BY ONLY <1>1, <1>2, <1>6, <1>9, <1>12, <1>13, <1>14, <1>15 DEF BodyTold

LEMMA GaugeBodyTells ==
  ASSUME ProtoAssumption, NEW d \in Nat, NEW m \in MetricOf("gauge", DataPoint(U64))
  PROVE  BodyTold(((d + 1) + 1) + 1, m, EncodeGaugeMsg(m))
<1>1. PICK e \in Nat : e = ((d + 1) + 1) + 1
  OBVIOUS
<1>2. PICK n1 \in Nat, n2 \in Nat, n3 \in Nat : n1 = 1 /\ n2 = 2 /\ n3 = 3 /\ n1 # 0 /\ n1 # n2 /\ n1 # n3
  OBVIOUS
<1>3. PICK w : w = Messages(n1, LAMBDA dp : EncodeGaugeDataPoint(dp, m.start, m.time), m.data_points)
  OBVIOUS
<1>4. PICK texts \in Seq(Text) :
        /\ Section(e, w, n1, MessageFields(n1, texts))
        /\ Each(ReadNumberDataPoint, Kept(texts, Full(texts))) = MeantPoints(m)
  <2>1. NumbersTold(((d + 1) + 1) + 1, n1,
          Messages(n1, LAMBDA dp : EncodeGaugeDataPoint(dp, m.start, m.time), m.data_points), MeantPoints(m))
    BY <1>2, GaugePointsTell
  <2>2. NumbersTold(e, n1, w, MeantPoints(m))
    BY ONLY <1>1, <1>3, <2>1
  <2> QED
    BY ONLY <2>2 DEF NumbersTold
<1>5. PICK S : S = {<<n1, MessageFields(n1, texts)>>} /\ Tells(e, w, S)
  <2>1. Tells(e, w, {<<n1, MessageFields(n1, texts)>>})
    BY ONLY <1>4, TellsOne, ProtoAssumption, e \in Nat
  <2> QED
    BY ONLY <2>1
<1>6. /\ Tells(e, w, S) /\ <<n1, MessageFields(n1, texts)>> \in S
      /\ \A x \in S : x[1] # n2 /\ x[1] # n3
  BY ONLY <1>2, <1>5
<1>7. ReadNumber(FieldsOf(e, w), n2) = 0 /\ ReadNumber(FieldsOf(e, w), n3) = 0
  BY ONLY <1>6, TellsNoNumber, ProtoAssumption, e \in Nat, n2 \in Nat, n3 \in Nat
<1>8. ReadRepeated(FieldsOf(e, w), n1) = Kept(texts, Full(texts))
  BY <1>6, TellsMessages
<1>9. Kept(texts, Full(texts)) # <<>>
  <2>1. m.data_points \in Seq(DataPoint(U64)) /\ m.data_points # <<>>
    BY DEF MetricOf, OneOrMore
  <2>2. 1 \in DOMAIN m.data_points
    BY ONLY <2>1
  <2>3. 1 \in DOMAIN MeantPoints(m)
    BY ONLY <2>2 DEF MeantPoints
  <2>4. DOMAIN Each(ReadNumberDataPoint, Kept(texts, Full(texts))) = DOMAIN Kept(texts, Full(texts))
    BY DEF Each
  <2>5. 1 \in DOMAIN Kept(texts, Full(texts))
    BY ONLY <1>4, <2>3, <2>4
  <2> QED
    BY ONLY <2>5
<1>10. w \in Seq(Writes[e]) /\ Allocating[e][w] \in Text \ {<<>>}
  <2>1. w \in Seq(Writes[e]) /\ Allocating[e][w] \in Text
    BY <1>6, TellsWhether
  <2>2. Allocating[e][w] # <<>>
    BY ONLY <1>6, <1>9, TellsSome, ProtoAssumption, e \in Nat, n1 \in Nat, texts \in Seq(Text)
  <2> QED
    BY ONLY <2>1, <2>2
<1>11. m.kind = "gauge"
  BY DEF MetricOf
<1>12. w = EncodeGaugeMsg(m)
  BY ONLY <1>2, <1>3 DEF EncodeGaugeMsg
<1> QED
  BY ONLY <1>1, <1>2, <1>4, <1>7, <1>8, <1>10, <1>11, <1>12 DEF BodyTold

LEMMA HistogramBodyTells ==
  ASSUME ProtoAssumption, NEW d \in Nat, NEW m \in MetricOf("histogram", HistogramDataPoint)
  PROVE  BodyTold(((d + 1) + 1) + 1, m, EncodeHistogramMsg(m))
<1>1. PICK e \in Nat : e = ((d + 1) + 1) + 1
  OBVIOUS
<1>2. PICK n1 \in Nat, n2 \in Nat, n3 \in Nat, two \in Nat : n1 = 1 /\ n2 = 2 /\ n3 = 3 /\ two = 2
  OBVIOUS
<1>3. n1 # 0 /\ n2 # 0 /\ n1 # n2 /\ n1 # n3 /\ n2 # n3 /\ two # 0
  BY ONLY <1>2
<1>4. PICK v, a :
        /\ v = Messages(n1, LAMBDA dp : EncodeHistogramDataPoint(dp, m.boundaries, m.start, m.time), m.data_points)
        /\ a = Bytes(EncodeVarintField(n2, two))
  OBVIOUS
<1>5. PICK p : p = VarintFields(n2, two)
  OBVIOUS
<1>6. PICK texts \in Seq(Text) :
        /\ Section(e, v, n1, MessageFields(n1, texts))
        /\ Each(ReadHistogramDataPoint, Kept(texts, Full(texts))) = MeantPoints(m)
  <2>0. n1 # 0
    BY ONLY <1>3
  <2>1. HistogramsTold(((d + 1) + 1) + 1, n1,
          Messages(n1, LAMBDA dp : EncodeHistogramDataPoint(dp, m.boundaries, m.start, m.time), m.data_points),
          MeantPoints(m))
    BY <2>0, HistogramPointsTell
  <2>2. HistogramsTold(e, n1, v, MeantPoints(m))
    BY ONLY <1>1, <1>4, <2>1
  <2> QED
    BY ONLY <2>2 DEF HistogramsTold
<1>7. Section(e, <<a>>, n2, p)
  <2>0. n2 # 0
    BY ONLY <1>3
  <2>1. Section(e, <<Bytes(EncodeVarintField(n2, two))>>, n2, VarintFields(n2, two))
    BY ONLY <2>0, FieldSections, ProtoAssumption, e \in Nat, n2 \in Nat, two \in Nat
  <2> QED
    BY ONLY <1>4, <1>5, <2>1
<1>8. PICK w, S : w = v \o <<a>> /\ Tells(e, w, S) /\ S = {<<n1, MessageFields(n1, texts)>>, <<n2, p>>}
  <2>0. n1 # n2
    BY ONLY <1>3
  <2>1. Tells(e, v \o <<a>>, {<<n1, MessageFields(n1, texts)>>, <<n2, p>>})
    BY ONLY <1>6, <1>7, <2>0, TellsTwo, ProtoAssumption, e \in Nat
  <2> QED
    BY ONLY <2>1
<1>9. w = EncodeHistogramMsg(m)
  BY ONLY <1>2, <1>4, <1>8 DEF EncodeHistogramMsg, Cumulative
<1>10. /\ <<n1, MessageFields(n1, texts)>> \in S /\ <<n2, VarintFields(n2, two)>> \in S
       /\ \A x \in S : x[1] # n3
  BY ONLY <1>3, <1>5, <1>8
<1>11. Tells(e, w, S)
  BY ONLY <1>8
<1>12. ReadNumber(FieldsOf(e, w), n2) = two /\ ReadNumber(FieldsOf(e, w), n3) = 0
  <2>1. ReadNumber(FieldsOf(e, w), n2) = two
    BY <1>10, <1>11, TellsNumber
  <2>2. ReadNumber(FieldsOf(e, w), n3) = 0
    BY ONLY <1>10, <1>11, TellsNoNumber, ProtoAssumption, e \in Nat, n3 \in Nat
  <2> QED
    BY ONLY <2>1, <2>2
<1>13. ReadRepeated(FieldsOf(e, w), n1) = Kept(texts, Full(texts))
  BY <1>10, <1>11, TellsMessages
<1>14. w \in Seq(Writes[e]) /\ Allocating[e][w] \in Text \ {<<>>}
  <2>1. /\ w \in Seq(Writes[e]) /\ Allocating[e][w] \in Text
        /\ (Allocating[e][w] # <<>> <=> \E part \in S : part[2] # <<>>)
    BY <1>11, TellsWhether
  <2>2. VarintFields(n2, two) # <<>>
    BY ONLY <1>3 DEF VarintFields
  <2> QED
    BY ONLY <1>10, <2>1, <2>2
<1>15. m.kind = "histogram"
  BY DEF MetricOf
<1> QED
  BY ONLY <1>1, <1>2, <1>6, <1>9, <1>12, <1>13, <1>14, <1>15 DEF BodyTold

\* A metric is read as it was meant.
MetricTold(d, m) ==
  /\ EncodeMetric(m) \in Seq(Writes[d]) /\ Allocating[d][EncodeMetric(m)] \in Text \ {<<>>}
  /\ ReadMetric(FieldsOf(d, EncodeMetric(m))) = MeantItem("metrics", m)

\* It is: its kind is known from the field that its data are in.
LEMMA MetricTells ==
  ASSUME ProtoAssumption, NEW d \in Nat, NEW m \in MetricSnapshot
  PROVE  MetricTold((((d + 1) + 1) + 1) + 1, m)
<1>1. PICK s \in Text, z \in Text : m.name = s /\ m.description = z
  BY DEF MetricSnapshot, MetricOf
<1>2. PICK c \in Nat, e \in Nat : c = ((d + 1) + 1) + 1 /\ e = c + 1
  OBVIOUS
<1>3. PICK body, g :
        /\ g \in Nat /\ BodyTold(c, m, body) /\ KindOf(m) = Message(g, body)
        /\ \/ m.kind = "counter" /\ g = 7
           \/ m.kind = "gauge" /\ g = 5
           \/ m.kind = "histogram" /\ g = 9
  <2>1. CASE m \in MetricOf("counter", DataPoint(I64))
    <3>1. m.kind = "counter"
      BY ONLY <2>1 DEF MetricOf
    <3>2. BodyTold(c, m, EncodeSum(m))
      BY <1>2, <2>1, CounterBodyTells
    <3>3. KindOf(m) = Message(7, EncodeSum(m)) /\ 7 \in Nat
      BY ONLY <3>1 DEF KindOf
    <3> QED
      BY ONLY <3>1, <3>2, <3>3
  <2>2. CASE m \in MetricOf("gauge", DataPoint(U64))
    <3>1. m.kind = "gauge"
      BY ONLY <2>2 DEF MetricOf
    <3>2. BodyTold(c, m, EncodeGaugeMsg(m))
      BY <1>2, <2>2, GaugeBodyTells
    <3>3. KindOf(m) = Message(5, EncodeGaugeMsg(m)) /\ 5 \in Nat
      BY ONLY <3>1 DEF KindOf
    <3> QED
      BY ONLY <3>1, <3>2, <3>3
  <2>3. CASE m \in MetricOf("histogram", HistogramDataPoint)
    <3>1. m.kind = "histogram"
      BY ONLY <2>3 DEF MetricOf
    <3>2. BodyTold(c, m, EncodeHistogramMsg(m))
      BY <1>2, <2>3, HistogramBodyTells
    <3>3. KindOf(m) = Message(9, EncodeHistogramMsg(m)) /\ 9 \in Nat
      BY ONLY <3>1 DEF KindOf
    <3> QED
      BY ONLY <3>1, <3>2, <3>3
  <2> QED
    BY ONLY <2>1, <2>2, <2>3, m \in MetricSnapshot DEF MetricSnapshot
<1>4. PICK n1 \in Nat, n2 \in Nat : n1 = 1 /\ n2 = 2 /\ n1 # 0 /\ n2 # 0 /\ g # 0 /\ n1 # n2 /\ n2 < g /\ 0 <= n1 /\ n1 < n2
  <2>1. g = 7 \/ g = 5 \/ g = 9
    BY ONLY <1>3
  <2> QED
    BY ONLY <2>1
<1>5. PICK b, data :
        /\ b \in Text /\ b = Allocating[c][body] /\ b # <<>> /\ body \in Seq(Writes[c]) /\ data = ReadFields[b]
        /\ data = FieldsOf(c, body)
  BY ONLY <1>3 DEF BodyTold, FieldsOf
<1>6. PICK w1, w2, w3 : /\ w1 = Bytes(EncodeBytesField(n1, s)) /\ w2 = Bytes(EncodeBytesField(n2, z))
                        /\ w3 = Message(g, body)
  OBVIOUS
<1>7. PICK p1, p2, p3 : p1 = BytesFields(n1, s) /\ p2 = BytesFields(n2, z) /\ p3 = BytesFields(g, b)
  OBVIOUS
<1>8. Section(e, <<w1>>, n1, p1) /\ Section(e, <<w2>>, n2, p2) /\ Section(e, <<w3>>, g, p3)
  <2>0. n1 # 0 /\ n2 # 0 /\ g # 0
    BY ONLY <1>4
  <2>1. Section(e, <<Bytes(EncodeBytesField(n1, s))>>, n1, BytesFields(n1, s))
    BY ONLY <2>0, FieldSections, ProtoAssumption, e \in Nat, n1 \in Nat, s \in Text
  <2>2. Section(e, <<Bytes(EncodeBytesField(n2, z))>>, n2, BytesFields(n2, z))
    BY ONLY <2>0, FieldSections, ProtoAssumption, e \in Nat, n2 \in Nat, z \in Text
  <2>3. body \in Seq(Writes[c]) /\ g \in Nat
    BY ONLY <1>3, <1>5
  <2>4. Section(c + 1, <<Message(g, body)>>, g, BytesFields(g, Allocating[c][body]))
    BY ONLY <2>0, <2>3, MessageSection, ProtoAssumption, c \in Nat
  <2> QED
    BY ONLY <1>2, <1>5, <1>6, <1>7, <2>1, <2>2, <2>4
<1>9. PICK w, S : /\ w = <<>> \o <<w1, w2, w3>> /\ Tells(e, w, S)
                  /\ S = {} \cup {<<n1, p1>>, <<n2, p2>>, <<g, p3>>}
  <2>0. 0 <= n1 /\ n1 < n2 /\ n2 < g
    BY ONLY <1>4
  <2>1. TellsBelow(e, <<>>, {}, 0)
    BY BelowNothing
  <2>2. TellsBelow(e, <<>> \o <<w1, w2, w3>>, {} \cup {<<n1, p1>>, <<n2, p2>>, <<g, p3>>}, g + 1)
    BY ONLY <1>8, <2>0, <2>1, BelowThree, ProtoAssumption, e \in Nat
  <2> QED
    BY ONLY <2>2 DEF TellsBelow
<1>10. w = EncodeMetric(m)
  <2>1. PICK X : <<w1>> \in Seq(X) /\ <<w2>> \in Seq(X) /\ <<w3>> \in Seq(X)
    BY ONLY <1>8 DEF Section
  <2>2. w1 \in X /\ w2 \in X /\ w3 \in X
    BY ONLY <2>1, Adding
  <2>3. <<>> \o <<w1, w2, w3>> = <<w1, w2, w3>>
    BY ONLY <2>2
  <2>4. EncodeMetric(m) = <<Bytes(EncodeBytesField(1, m.name)), Bytes(EncodeBytesField(2, m.description)), KindOf(m)>>
    BY DEF EncodeMetric, KindOf
  <2> QED
    BY ONLY <1>1, <1>3, <1>4, <1>6, <1>9, <2>3, <2>4
<1>11. /\ <<n1, BytesFields(n1, s)>> \in S /\ <<n2, BytesFields(n2, z)>> \in S
       /\ <<g, BytesFields(g, b)>> \in S
  BY ONLY <1>7, <1>9
<1>12. Tells(e, w, S)
  BY ONLY <1>9
<1>13. PICK fields : fields = FieldsOf(e, w)
  OBVIOUS
<1>14. /\ ReadBytes(fields, n1) = s /\ ReadBytes(fields, n2) = z /\ ReadMessage(fields, g) = b
       /\ Has(fields, g)
  <2>1. ReadBytes(FieldsOf(e, w), n1) = s
    BY <1>11, <1>12, TellsText
  <2>2. ReadBytes(FieldsOf(e, w), n2) = z
    BY <1>11, <1>12, TellsText
  <2>3. b \in Text /\ b # <<>>
    BY ONLY <1>5
  <2>4. ReadMessage(FieldsOf(e, w), g) = b /\ (Has(FieldsOf(e, w), g) <=> b # <<>>)
    BY <1>11, <1>12, <2>3, TellsText
  <2> QED
    BY ONLY <1>13, <2>1, <2>2, <2>3, <2>4
<1>15. /\ w \in Seq(Writes[e]) /\ Allocating[e][w] \in Text \ {<<>>}
       /\ (g # 5 => ~Has(fields, 5)) /\ (g # 7 => ~Has(fields, 7)) /\ (g # 9 => ~Has(fields, 9))
  <2>1. /\ w \in Seq(Writes[e]) /\ Allocating[e][w] \in Text
        /\ (Allocating[e][w] # <<>> <=> \E part \in S : part[2] # <<>>)
        /\ \A f \in Nat : (\A part \in S : part[1] # f) => ~Has(FieldsOf(e, w), f)
    BY <1>12, TellsWhether
  <2>2. b # <<>>
    BY ONLY <1>5
  <2>3. BytesFields(g, b) # <<>>
    BY ONLY <2>2 DEF BytesFields
  <2>4. Allocating[e][w] # <<>>
    BY ONLY <1>11, <2>1, <2>3
  <2>5. ASSUME NEW f \in Nat, f # n1, f # n2, f # g PROVE ~Has(fields, f)
    <3>1. \A part \in S : part[1] # f
      BY ONLY <1>9, <2>5
    <3> QED
      BY ONLY <1>13, <2>1, <3>1
  <2>6. /\ 5 \in Nat /\ 5 # n1 /\ 5 # n2 /\ 7 \in Nat /\ 7 # n1 /\ 7 # n2
        /\ 9 \in Nat /\ 9 # n1 /\ 9 # n2
    BY ONLY <1>4
  <2> QED
    BY ONLY <2>1, <2>4, <2>5, <2>6
<1>16. PICK kind, points :
         /\ kind = m.kind /\ points = ReadRepeated(data, 1)
         /\ kind = CASE Has(fields, 7) -> "counter" [] Has(fields, 5) -> "gauge"
                     [] Has(fields, 9) -> "histogram" [] OTHER -> "none"
         /\ g = (CASE kind = "counter" -> 7 [] kind = "gauge" -> 5 [] OTHER -> 9)
  BY ONLY <1>3, <1>14, <1>15
<1>17. ReadMetric(fields) =
         [kind |-> kind, name |-> s, description |-> z,
          cumulative |-> ReadNumber(data, 2) = 2, monotonic |-> ReadNumber(data, 3) = 1,
          data_points |-> IF kind = "histogram" THEN Each(ReadHistogramDataPoint, points)
                          ELSE Each(ReadNumberDataPoint, points)]
  BY ONLY <1>4, <1>5, <1>14, <1>16 DEF ReadMetric
<1>18. /\ (ReadNumber(data, 2) = 2) <=> (kind # "gauge")
       /\ (ReadNumber(data, 3) = 1) <=> (kind = "counter")
       /\ (IF kind = "histogram" THEN Each(ReadHistogramDataPoint, points)
           ELSE Each(ReadNumberDataPoint, points)) = MeantPoints(m)
  BY ONLY <1>3, <1>5, <1>16 DEF BodyTold
<1>19. MeantItem("metrics", m) =
         [kind |-> kind, name |-> s, description |-> z,
          cumulative |-> kind # "gauge", monotonic |-> kind = "counter",
          data_points |-> MeantPoints(m)]
  BY ONLY <1>1, <1>16 DEF MeantItem, MeantPoints
<1>20. ReadMetric(fields) = MeantItem("metrics", m)
  <2>1. (ReadNumber(data, 2) = 2) = (kind # "gauge") /\ (ReadNumber(data, 3) = 1) = (kind = "counter")
    BY ONLY <1>18
  <2> QED
    BY ONLY <1>17, <1>18, <1>19, <2>1
<1> QED
  BY ONLY <1>2, <1>10, <1>13, <1>15, <1>20 DEF MetricTold

-----------------------------------------------------------------------------
(***************************************************************************)
(* Requests.                                                               *)
(***************************************************************************)
\* A span, a log or a metric of a request is read as it was meant.
ReadItem(signal, fields) ==
  CASE signal = "traces" -> ReadSpan(fields) [] signal = "logs" -> ReadLogRecord(fields)
    [] signal = "metrics" -> ReadMetric(fields)
ItemTold(d, signal, item) ==
  /\ EncodeItem(signal, item) \in Seq(Writes[d])
  /\ Allocating[d][EncodeItem(signal, item)] \in Text \ {<<>>}
  /\ ReadItem(signal, FieldsOf(d, EncodeItem(signal, item))) = MeantItem(signal, item)

\* It is, by the lemma of its signal.
LEMMA ItemTells ==
  ASSUME ProtoAssumption, NEW d \in Nat, NEW request \in Request, NEW i \in DOMAIN request.items
  PROVE  ItemTold((((d + 1) + 1) + 1) + 1, request.signal, request.items[i])
<1>1. PICK c \in Nat, e \in Nat : c = (d + 1) + 1 /\ e = (((d + 1) + 1) + 1) + 1 /\ e = (c + 1) + 1
  OBVIOUS
<1>2. PICK item, signal : item = request.items[i] /\ signal = request.signal
  OBVIOUS
<1>3. CASE request \in RequestOf("traces", SpanData)
  <2>1. request.items \in Seq(SpanData) /\ signal = "traces"
    BY ONLY <1>2, <1>3 DEF RequestOf, OneOrMore
  <2>2. item \in SpanData
    BY ONLY <1>2, <2>1, i \in DOMAIN request.items
  <2>3. SpanTold((c + 1) + 1, item)
    BY <2>2, SpanTells
  <2>4. SpanTold(e, item)
    BY ONLY <1>1, <2>3
  <2>5. EncodeItem(signal, item) = EncodeSpan(item)
    BY ONLY <2>1 DEF EncodeItem
  <2>6. ReadItem(signal, FieldsOf(e, EncodeSpan(item))) = ReadSpan(FieldsOf(e, EncodeSpan(item)))
    BY ONLY <2>1 DEF ReadItem
  <2> QED
    BY ONLY <1>1, <1>2, <2>1, <2>4, <2>5, <2>6 DEF SpanTold, ItemTold
<1>4. CASE request \in RequestOf("logs", LogData)
  <2>1. request.items \in Seq(LogData) /\ signal = "logs"
    BY ONLY <1>2, <1>4 DEF RequestOf, OneOrMore
  <2>2. item \in LogData
    BY ONLY <1>2, <2>1, i \in DOMAIN request.items
  <2>3. LogTold((c + 1) + 1, item)
    BY <2>2, LogTells
  <2>4. LogTold(e, item)
    BY ONLY <1>1, <2>3
  <2>5. EncodeItem(signal, item) = EncodeLogRecord(item)
    BY ONLY <2>1 DEF EncodeItem
  <2>6. ReadItem(signal, FieldsOf(e, EncodeLogRecord(item))) = ReadLogRecord(FieldsOf(e, EncodeLogRecord(item)))
    BY ONLY <2>1 DEF ReadItem
  <2> QED
    BY ONLY <1>1, <1>2, <2>1, <2>4, <2>5, <2>6 DEF LogTold, ItemTold
<1>5. CASE request \in RequestOf("metrics", MetricSnapshot)
  <2>1. request.items \in Seq(MetricSnapshot) /\ signal = "metrics"
    BY ONLY <1>2, <1>5 DEF RequestOf, OneOrMore
  <2>2. item \in MetricSnapshot
    BY ONLY <1>2, <2>1, i \in DOMAIN request.items
  <2>3. MetricTold((((d + 1) + 1) + 1) + 1, item)
    BY <2>2, MetricTells
  <2>4. MetricTold(e, item)
    BY ONLY <1>1, <2>3
  <2>5. EncodeItem(signal, item) = EncodeMetric(item)
    BY ONLY <2>1 DEF EncodeItem
  <2>6. ReadItem(signal, FieldsOf(e, EncodeMetric(item))) = ReadMetric(FieldsOf(e, EncodeMetric(item)))
    BY ONLY <2>1 DEF ReadItem
  <2> QED
    BY ONLY <1>1, <1>2, <2>1, <2>4, <2>5, <2>6 DEF MetricTold, ItemTold
<1> QED
  BY ONLY <1>3, <1>4, <1>5, request \in Request DEF Request

\* The items of a request are read as they were meant, and there are some.
MeantItems(request) == [i \in DOMAIN request.items |-> MeantItem(request.signal, request.items[i])]
ReadItems(signal, texts) == [i \in DOMAIN texts |-> ReadItem(signal, ReadFields[texts[i]])]
ItemReader(signal) == [t \in Text |-> ReadItem(signal, ReadFields[t])]
ItemsTold(d, f, request) ==
  \E texts \in Seq(Text) :
    /\ Section(d, Messages(f, LAMBDA item : EncodeItem(request.signal, item), request.items),
               f, MessageFields(f, texts))
    /\ Kept(texts, Full(texts)) \in Seq(Text) \ {<<>>}
    /\ ReadItems(request.signal, Kept(texts, Full(texts))) = MeantItems(request)

\* All of them, since none is silent.
LEMMA ItemsTell ==
  ASSUME ProtoAssumption, NEW d \in Nat, NEW f \in Nat, f # 0, NEW request \in Request
  PROVE  ItemsTold(((((d + 1) + 1) + 1) + 1) + 1, f, request)
<1>1. PICK e \in Nat : e = (((d + 1) + 1) + 1) + 1
  OBVIOUS
<1>2. PICK T, items, signal : items \in Seq(T) /\ request.items = items /\ items # <<>> /\ request.signal = signal
  <2>1. PICK T : request.items \in Seq(T) \ {<<>>}
    BY DEF Request, RequestOf, OneOrMore
  <2> QED
    BY ONLY <2>1
<1>3. ASSUME NEW i \in DOMAIN items PROVE ItemTold(e, signal, items[i])
  <2>1. i \in DOMAIN request.items
    BY ONLY <1>2, i \in DOMAIN items
  <2>2. ItemTold((((d + 1) + 1) + 1) + 1, request.signal, request.items[i])
    BY <2>1, ItemTells
  <2> QED
    BY ONLY <1>1, <1>2, <2>2
<1>4. PICK bodies, values :
        /\ bodies = [i \in DOMAIN items |-> EncodeItem(signal, items[i])]
        /\ values = MeantItems(request)
  OBVIOUS
<1>5. Alike(bodies, items) /\ \A i \in DOMAIN items : bodies[i] = EncodeItem(signal, items[i])
  BY ONLY <1>4 DEF Alike
<1>6. Alike(values, items) /\ \A i \in DOMAIN items : values[i] = MeantItem(signal, items[i])
  BY ONLY <1>2, <1>4 DEF Alike, MeantItems
<1>7. PICK k : k = [t \in Text |-> k[t]] /\ \A t \in Text : k[t] = ReadItem(signal, ReadFields[t])
  <2>1. /\ ItemReader(signal) = [t \in Text |-> ItemReader(signal)[t]]
        /\ \A t \in Text : ItemReader(signal)[t] = ReadItem(signal, ReadFields[t])
    BY DEF ItemReader
  <2> QED
    BY <2>1
<1>8. BodiesMean(e, items, bodies, k, values) /\ \A i \in DOMAIN items : Allocating[e][bodies[i]] # <<>>
  <2>1. ASSUME NEW i \in DOMAIN items
        PROVE  /\ bodies[i] \in Seq(Writes[e]) /\ k[Allocating[e][bodies[i]]] = values[i]
               /\ Allocating[e][bodies[i]] # <<>>
    BY ONLY <1>3, <1>5, <1>6, <1>7 DEF ItemTold, FieldsOf
  <2> QED
    BY ONLY <1>5, <1>6, <1>7, <2>1 DEF BodiesMean
<1>9. PICK v : /\ v = Messages(f, LAMBDA item : EncodeItem(request.signal, item), request.items)
               /\ v = [i \in DOMAIN items |-> Message(f, bodies[i])]
  <2>1. Messages(f, LAMBDA item : EncodeItem(request.signal, item), request.items)
          = [i \in DOMAIN items |-> Message(f, bodies[i])]
    BY ONLY <1>2, <1>5 DEF Messages
  <2> QED
    BY ONLY <2>1
<1>10. AllTold(e + 1, v, f, k, values)
  <2>1. items \in Seq(T)
    BY ONLY <1>2
  <2>2. v = [i \in DOMAIN items |-> Message(f, bodies[i])]
    BY ONLY <1>9
  <2> QED
    BY ONLY <1>8, <2>1, <2>2, AllTell, ProtoAssumption, e \in Nat, f \in Nat, f # 0
<1>11. PICK texts \in Seq(Text), kept \in Seq(Text) :
          /\ Section(e + 1, v, f, MessageFields(f, texts)) /\ kept = Kept(texts, Full(texts))
          /\ Mapped(k, kept) = values
  BY ONLY <1>10 DEF AllTold
<1>12. ReadItems(signal, kept) = Mapped(k, kept)
  <2>1. \A i \in DOMAIN kept : kept[i] \in Text
    BY ONLY kept \in Seq(Text)
  <2> QED
    BY ONLY <1>7, <2>1 DEF ReadItems, Mapped
<1>13. kept # <<>>
  <2>1. 1 \in DOMAIN items
    BY ONLY <1>2
  <2>2. 1 \in DOMAIN Mapped(k, kept)
    BY ONLY <1>6, <1>11, <2>1 DEF Alike
  <2>3. DOMAIN Mapped(k, kept) = DOMAIN kept
    BY DEF Mapped
  <2>4. 1 \in DOMAIN kept
    BY ONLY <2>2, <2>3
  <2> QED
    BY ONLY <2>4
<1> QED
  BY ONLY <1>1, <1>2, <1>4, <1>9, <1>11, <1>12, <1>13, texts \in Seq(Text), kept \in Seq(Text) DEF ItemsTold

\* A resource is read as it was meant.
ResourceTold(d, resource) ==
  /\ EncodeResource(resource) \in Seq(Writes[d]) /\ Allocating[d][EncodeResource(resource)] \in Text
  /\ Each(ReadKeyValue, ReadRepeated(FieldsOf(d, EncodeResource(resource)), 1)) = MeantKeyValues(resource)

\* It is: its attributes, without the silent ones.
LEMMA ResourceTells ==
  ASSUME ProtoAssumption, NEW d \in Nat, NEW kvs \in Seq(KeyValue)
  PROVE  ResourceTold((d + 1) + 1, kvs)
<1>1. PICK e \in Nat : e = (d + 1) + 1
  OBVIOUS
<1>2. PICK n1 \in Nat : n1 = 1 /\ n1 # 0
  OBVIOUS
<1>3. PICK w : w = Messages(n1, EncodeKeyValue, kvs)
  OBVIOUS
<1>4. PICK texts \in Seq(Text) : /\ Section(e, w, n1, MessageFields(n1, texts))
                                 /\ Each(ReadKeyValue, Kept(texts, Full(texts))) = MeantKeyValues(kvs)
  <2>1. KeyValuesTold((d + 1) + 1, n1, kvs)
    BY <1>2, KeyValuesTell
  <2> QED
    BY ONLY <1>1, <1>3, <2>1 DEF KeyValuesTold
<1>5. PICK S : S = {<<n1, MessageFields(n1, texts)>>} /\ Tells(e, w, S)
  <2>1. Tells(e, w, {<<n1, MessageFields(n1, texts)>>})
    BY ONLY <1>4, TellsOne, ProtoAssumption, e \in Nat
  <2> QED
    BY ONLY <2>1
<1>6. Tells(e, w, S) /\ <<n1, MessageFields(n1, texts)>> \in S
  BY ONLY <1>5
<1>7. ReadRepeated(FieldsOf(e, w), n1) = Kept(texts, Full(texts))
  BY <1>6, TellsMessages
<1>8. w \in Seq(Writes[e]) /\ Allocating[e][w] \in Text
  BY <1>6, TellsWhether
<1>9. w = EncodeResource(kvs)
  BY ONLY <1>2, <1>3 DEF EncodeResource
<1> QED
  BY ONLY <1>1, <1>2, <1>4, <1>7, <1>8, <1>9 DEF ResourceTold

\* A scope is read as it is.
ScopeTold(d, scope) ==
  /\ EncodeScope(scope) \in Seq(Writes[d]) /\ Allocating[d][EncodeScope(scope)] \in Text
  /\ ReadBytes(FieldsOf(d, EncodeScope(scope)), 1) = scope.name
  /\ ReadBytes(FieldsOf(d, EncodeScope(scope)), 2) = scope.version

\* It is: its name and its version, either of which may be left out.
LEMMA ScopeTells ==
  ASSUME ProtoAssumption, NEW e \in Nat, NEW scope \in [name : Text, version : Text]
  PROVE  ScopeTold(e, scope)
<1>1. PICK s \in Text, z \in Text : scope.name = s /\ scope.version = z
  OBVIOUS
<1>2. PICK n1 \in Nat, n2 \in Nat : n1 = 1 /\ n2 = 2 /\ n1 # 0 /\ n2 # 0 /\ n1 # n2
  OBVIOUS
<1>3. n1 # 0 /\ n2 # 0 /\ n1 # n2
  BY ONLY <1>2
<1>4. PICK a, b, p, q : /\ a = <<Bytes(EncodeBytesField(n1, s))>> /\ b = <<Bytes(EncodeBytesField(n2, z))>>
                        /\ p = BytesFields(n1, s) /\ q = BytesFields(n2, z)
  OBVIOUS
<1>5. Section(e, a, n1, p) /\ Section(e, b, n2, q)
  <2>1. Section(e, <<Bytes(EncodeBytesField(n1, s))>>, n1, BytesFields(n1, s))
    BY ONLY <1>3, FieldSections, ProtoAssumption, e \in Nat, n1 \in Nat, s \in Text
  <2>2. Section(e, <<Bytes(EncodeBytesField(n2, z))>>, n2, BytesFields(n2, z))
    BY ONLY <1>3, FieldSections, ProtoAssumption, e \in Nat, n2 \in Nat, z \in Text
  <2> QED
    BY ONLY <1>4, <2>1, <2>2
<1>6. PICK w, S : w = a \o b /\ Tells(e, w, S) /\ S = {<<n1, p>>, <<n2, q>>}
  <2>1. Tells(e, a \o b, {<<n1, p>>, <<n2, q>>})
    BY ONLY <1>3, <1>5, TellsTwo, ProtoAssumption, e \in Nat
  <2> QED
    BY ONLY <2>1
<1>7. w = EncodeScope(scope)
  <2>1. EncodeScope(scope) = a \o b
    BY <1>1, <1>2, <1>4 DEF EncodeScope
  <2> QED
    BY ONLY <1>6, <2>1
<1>8. <<n1, BytesFields(n1, s)>> \in S /\ <<n2, BytesFields(n2, z)>> \in S
  BY ONLY <1>4, <1>6
<1>9. Tells(e, w, S)
  BY ONLY <1>6
<1>10. ReadBytes(FieldsOf(e, w), n1) = s /\ ReadBytes(FieldsOf(e, w), n2) = z
  BY <1>8, <1>9, TellsText
<1>11. w \in Seq(Writes[e]) /\ Allocating[e][w] \in Text
  BY <1>9, TellsWhether
<1> QED
  BY ONLY <1>1, <1>2, <1>7, <1>10, <1>11 DEF ScopeTold

\* The items of a request, under their scope.
EncodeScoped(request) ==
  <<Message(1, EncodeScope(request.scope))>>
    \o Messages(2, LAMBDA item : EncodeItem(request.signal, item), request.items)
ScopedTold(d, request) ==
  /\ EncodeScoped(request) \in Seq(Writes[d])
  /\ Allocating[d][EncodeScoped(request)] \in Text \ {<<>>}
  /\ LET fields == FieldsOf(d, EncodeScoped(request))
         scope == ReadFields[ReadMessage(fields, 1)]
     IN  /\ ReadBytes(scope, 1) = request.scope.name /\ ReadBytes(scope, 2) = request.scope.version
         /\ ReadItems(request.signal, ReadRepeated(fields, 2)) = MeantItems(request)

\* They are read with the name and the version of their scope.
LEMMA ScopedTells ==
  ASSUME ProtoAssumption, NEW d \in Nat, NEW request \in Request
  PROVE  ScopedTold(((((d + 1) + 1) + 1) + 1) + 1, request)
<1>1. PICK c \in Nat, e \in Nat : c = (((d + 1) + 1) + 1) + 1 /\ e = c + 1 /\ e = ((((d + 1) + 1) + 1) + 1) + 1
  OBVIOUS
<1>2. PICK n1 \in Nat, n2 \in Nat : n1 = 1 /\ n2 = 2 /\ n1 # 0 /\ n2 # 0 /\ n1 # n2
  OBVIOUS
<1>3. n1 # 0 /\ n2 # 0 /\ n1 # n2
  BY ONLY <1>2
<1>4. PICK scope, body : /\ scope = request.scope /\ scope \in [name : Text, version : Text]
                         /\ body = EncodeScope(scope)
  BY DEF Request, RequestOf
<1>5. ScopeTold(c, scope)
  BY <1>4, ScopeTells
<1>6. PICK b \in Text : b = Allocating[c][body] /\ body \in Seq(Writes[c])
  BY ONLY <1>4, <1>5 DEF ScopeTold
<1>7. ReadBytes(ReadFields[b], 1) = scope.name /\ ReadBytes(ReadFields[b], 2) = scope.version
  BY ONLY <1>4, <1>5, <1>6 DEF ScopeTold, FieldsOf
<1>8. PICK a, v, p : /\ a = <<Message(n1, body)>> /\ p = BytesFields(n1, b)
                     /\ v = Messages(n2, LAMBDA item : EncodeItem(request.signal, item), request.items)
  OBVIOUS
<1>9. Section(e, a, n1, p)
  <2>1. body \in Seq(Writes[c])
    BY ONLY <1>6
  <2>2. Section(c + 1, <<Message(n1, body)>>, n1, BytesFields(n1, Allocating[c][body]))
    BY ONLY <1>3, <2>1, MessageSection, ProtoAssumption, c \in Nat, n1 \in Nat
  <2> QED
    BY ONLY <1>1, <1>6, <1>8, <2>2
<1>10. PICK texts \in Seq(Text) :
         /\ Section(e, v, n2, MessageFields(n2, texts)) /\ Kept(texts, Full(texts)) \in Seq(Text) \ {<<>>}
         /\ ReadItems(request.signal, Kept(texts, Full(texts))) = MeantItems(request)
  <2>1. ItemsTold(((((d + 1) + 1) + 1) + 1) + 1, n2, request)
    BY <1>3, ItemsTell
  <2> QED
    BY ONLY <1>1, <1>8, <2>1 DEF ItemsTold
<1>11. PICK w, S : w = a \o v /\ Tells(e, w, S) /\ S = {<<n1, p>>, <<n2, MessageFields(n2, texts)>>}
  <2>1. Tells(e, a \o v, {<<n1, p>>, <<n2, MessageFields(n2, texts)>>})
    BY ONLY <1>3, <1>9, <1>10, TellsTwo, ProtoAssumption, e \in Nat
  <2> QED
    BY ONLY <2>1
<1>12. w = EncodeScoped(request)
  BY ONLY <1>2, <1>4, <1>8, <1>11 DEF EncodeScoped
<1>13. <<n1, BytesFields(n1, b)>> \in S /\ <<n2, MessageFields(n2, texts)>> \in S
  BY ONLY <1>8, <1>11
<1>14. Tells(e, w, S)
  BY ONLY <1>11
<1>15. ReadMessage(FieldsOf(e, w), n1) = b
  BY ONLY <1>13, <1>14, TellsText, ProtoAssumption, e \in Nat, b \in Text
<1>16. ReadRepeated(FieldsOf(e, w), n2) = Kept(texts, Full(texts))
  BY ONLY <1>13, <1>14, TellsMessages, ProtoAssumption, e \in Nat, texts \in Seq(Text)
<1>17. w \in Seq(Writes[e]) /\ Allocating[e][w] \in Text
  BY ONLY <1>14, TellsWhether, ProtoAssumption, e \in Nat
<1>18. Allocating[e][w] # <<>>
  <2>1. Kept(texts, Full(texts)) # <<>>
    BY ONLY <1>10
  <2> QED
    BY ONLY <1>13, <1>14, <2>1, TellsSome, ProtoAssumption, e \in Nat, n2 \in Nat, texts \in Seq(Text)
<1> QED
  BY ONLY <1>1, <1>2, <1>4, <1>7, <1>10, <1>12, <1>15, <1>16, <1>17, <1>18 DEF ScopedTold

\* The body of a request is read as what was meant by the request.
RequestBody(request) ==
  <<Message(1, EncodeResource(request.resource)), Message(2, EncodeScoped(request))>>
RequestTold(d, request) ==
  /\ RequestBody(request) \in Seq(Writes[d]) /\ Allocating[d][RequestBody(request)] \in Text \ {<<>>}
  /\ ReadResourceItems(request.signal, FieldsOf(d, RequestBody(request))) = Meant(request)

\* It is: the resource, and the scope with its items.
LEMMA RequestTells ==
  ASSUME ProtoAssumption, NEW d \in Nat, NEW request \in Request
  PROVE  RequestTold((((((d + 1) + 1) + 1) + 1) + 1) + 1, request)
<1>1. PICK a \in Nat, c \in Nat, e \in Nat :
        /\ a = ((d + 1) + 1) + 1 /\ c = ((((d + 1) + 1) + 1) + 1) + 1 /\ c = (a + 1) + 1
        /\ e = c + 1 /\ e = (((((d + 1) + 1) + 1) + 1) + 1) + 1
  OBVIOUS
<1>2. PICK n1 \in Nat, n2 \in Nat : n1 = 1 /\ n2 = 2 /\ n1 # 0 /\ n2 # 0 /\ n1 # n2
  OBVIOUS
<1>3. n1 # 0 /\ n2 # 0 /\ n1 # n2
  BY ONLY <1>2
<1>4. PICK kvs, r, s : /\ kvs = request.resource /\ kvs \in Seq(KeyValue)
                       /\ r = EncodeResource(kvs) /\ s = EncodeScoped(request)
  BY DEF Request, RequestOf
<1>5. PICK x \in Text : /\ r \in Seq(Writes[c]) /\ x = Allocating[c][r]
                        /\ Each(ReadKeyValue, ReadRepeated(ReadFields[x], 1)) = MeantKeyValues(kvs)
  <2>1. ResourceTold((a + 1) + 1, kvs)
    BY <1>4, ResourceTells
  <2> QED
    BY ONLY <1>1, <1>4, <2>1 DEF ResourceTold, FieldsOf
<1>6. PICK y, fields, scope :
        /\ y \in Text /\ s \in Seq(Writes[c]) /\ y = Allocating[c][s] /\ y # <<>>
        /\ fields = ReadFields[y] /\ scope = ReadFields[ReadMessage(fields, 1)]
        /\ ReadBytes(scope, 1) = request.scope.name /\ ReadBytes(scope, 2) = request.scope.version
        /\ ReadItems(request.signal, ReadRepeated(fields, 2)) = MeantItems(request)
  <2>1. ScopedTold(((((d + 1) + 1) + 1) + 1) + 1, request)
    BY ScopedTells
  <2> QED
    BY ONLY <1>1, <1>4, <2>1 DEF ScopedTold, FieldsOf
<1>7. PICK v, u, p, q : /\ v = <<Message(n1, r)>> /\ u = <<Message(n2, s)>>
                        /\ p = BytesFields(n1, x) /\ q = BytesFields(n2, y)
  OBVIOUS
<1>8. Section(e, v, n1, p) /\ Section(e, u, n2, q)
  <2>1. r \in Seq(Writes[c]) /\ s \in Seq(Writes[c])
    BY ONLY <1>5, <1>6
  <2>2. Section(c + 1, <<Message(n1, r)>>, n1, BytesFields(n1, Allocating[c][r]))
    BY ONLY <1>3, <2>1, MessageSection, ProtoAssumption, c \in Nat, n1 \in Nat
  <2>3. Section(c + 1, <<Message(n2, s)>>, n2, BytesFields(n2, Allocating[c][s]))
    BY ONLY <1>3, <2>1, MessageSection, ProtoAssumption, c \in Nat, n2 \in Nat
  <2> QED
    BY ONLY <1>1, <1>5, <1>6, <1>7, <2>2, <2>3
<1>9. PICK w, S : w = v \o u /\ Tells(e, w, S) /\ S = {<<n1, p>>, <<n2, q>>}
  <2>1. Tells(e, v \o u, {<<n1, p>>, <<n2, q>>})
    BY ONLY <1>3, <1>8, TellsTwo, ProtoAssumption, e \in Nat
  <2> QED
    BY ONLY <2>1
<1>10. w = RequestBody(request)
  <2>1. RequestBody(request) = v \o u
    BY <1>2, <1>4, <1>7 DEF RequestBody
  <2> QED
    BY ONLY <1>9, <2>1
<1>11. <<n1, BytesFields(n1, x)>> \in S /\ <<n2, BytesFields(n2, y)>> \in S
  BY ONLY <1>7, <1>9
<1>12. Tells(e, w, S)
  BY ONLY <1>9
<1>13. ReadMessage(FieldsOf(e, w), n1) = x
  BY ONLY <1>11, <1>12, TellsText, ProtoAssumption, e \in Nat, x \in Text
<1>14. ReadMessage(FieldsOf(e, w), n2) = y
  <2>1. y \in Text
    BY ONLY <1>6
  <2> QED
    BY ONLY <1>11, <1>12, <2>1, TellsText, ProtoAssumption, e \in Nat
<1>15. w \in Seq(Writes[e]) /\ Allocating[e][w] \in Text \ {<<>>}
  <2>1. /\ w \in Seq(Writes[e]) /\ Allocating[e][w] \in Text
        /\ (Allocating[e][w] # <<>> <=> \E part \in S : part[2] # <<>>)
    BY ONLY <1>12, TellsWhether, ProtoAssumption, e \in Nat
  <2>2. BytesFields(n2, y) # <<>>
    BY ONLY <1>6 DEF BytesFields
  <2> QED
    BY ONLY <1>11, <2>1, <2>2
<1>17. ReadResourceItems(request.signal, FieldsOf(e, w)) =
         [resource |-> MeantKeyValues(kvs),
          scope |-> [name |-> request.scope.name, version |-> request.scope.version],
          items |-> MeantItems(request)]
  <2> DEFINE all == FieldsOf(e, w)
  <2>1. ReadMessage(all, 1) = x /\ ReadMessage(all, 2) = y
    BY ONLY <1>2, <1>13, <1>14
  <2>2. ReadFields[ReadMessage(all, 2)] = fields
    BY ONLY <1>6, <2>1
  <2>3. ReadItems(request.signal, ReadRepeated(ReadFields[ReadMessage(all, 2)], 2)) = MeantItems(request)
    BY ONLY <1>6, <2>2
  <2>4. ReadFields[ReadMessage(ReadFields[ReadMessage(all, 2)], 1)] = scope
    BY ONLY <1>6, <2>2
  <2>5. Each(ReadKeyValue, ReadRepeated(ReadFields[ReadMessage(all, 1)], 1)) = MeantKeyValues(kvs)
    BY ONLY <1>5, <2>1
  <2>6. ReadResourceItems(request.signal, all) =
          [resource |-> Each(ReadKeyValue, ReadRepeated(ReadFields[ReadMessage(all, 1)], 1)),
           scope |-> [name |-> ReadBytes(scope, 1), version |-> ReadBytes(scope, 2)],
           items |-> ReadItems(request.signal, ReadRepeated(ReadFields[ReadMessage(all, 2)], 2))]
    BY ONLY <2>4 DEF ReadResourceItems, ReadItems, ReadItem, Each
  <2> QED
    BY ONLY <1>6, <2>3, <2>5, <2>6
<1>18. Meant(request) = [resource |-> MeantKeyValues(kvs), scope |-> request.scope, items |-> MeantItems(request)]
  BY ONLY <1>4 DEF Meant, MeantItems
<1>19. request.scope = [name |-> request.scope.name, version |-> request.scope.version]
  <2>1. request.scope \in [name : Text, version : Text]
    BY DEF Request, RequestOf
  <2> QED
    BY ONLY <2>1
<1> QED
  BY ONLY <1>1, <1>10, <1>15, <1>17, <1>18, <1>19 DEF RequestTold

\* A function on the elements of a sequence that gets one more element.
MapsMore(m, s, x) == Mapped(m, Append(s, x)) = Append(Mapped(m, s), m[x])

LEMMA MappedAdds ==
  ASSUME NEW S, NEW T, NEW m \in [S -> T], NEW s \in Seq(S), NEW x \in S
  PROVE  Mapped(m, s) \in Seq(T) /\ MapsMore(m, s, x)
<1>0. \A y \in S : m[y] \in T
  OBVIOUS
<1>1. PICK n \in Nat : n = Len(s) /\ DOMAIN s = 1..n
  OBVIOUS
<1>2. /\ Append(s, x) \in Seq(S) /\ DOMAIN Append(s, x) = 1..(n + 1) /\ Append(s, x)[n + 1] = x
      /\ \A i \in 1..n : Append(s, x)[i] = s[i]
  BY <1>1
<1>3. Mapped(m, s) = [i \in 1..n |-> m[s[i]]]
  BY <1>1 DEF Mapped
<1>4. \A i \in 1..n : s[i] \in S
  BY <1>1
<1>5. Mapped(m, s) \in Seq(T)
  BY ONLY <1>0, <1>3, <1>4, n \in Nat
<1>6. Mapped(m, Append(s, x)) = [i \in 1..(n + 1) |-> m[Append(s, x)[i]]]
  BY <1>2 DEF Mapped
<1>7. PICK p \in Seq(T) : p = Mapped(m, s)
  BY <1>5
<1>8. Len(p) = n /\ \A i \in 1..n : p[i] = m[s[i]]
  BY <1>3, <1>7
<1>9. Mapped(m, Append(s, x)) = Append(p, m[x])
  <2>1. PICK y \in T : y = m[x]
    OBVIOUS
  <2>2. Append(p, y) = [i \in 1..(n + 1) |-> IF i = n + 1 THEN y ELSE p[i]]
    BY ONLY p \in Seq(T), y \in T, n \in Nat, <1>8, Appending
  <2>3. ASSUME NEW i \in 1..(n + 1)
        PROVE  m[Append(s, x)[i]] = IF i = n + 1 THEN y ELSE p[i]
    <3>1. i = n + 1 \/ (i \in 1..n /\ i # n + 1)
      OBVIOUS
    <3> QED
      BY <1>2, <1>8, <2>1, <3>1
  <2> QED
    BY <1>6, <2>1, <2>2, <2>3
<1> QED
  BY ONLY <1>5, <1>7, <1>9 DEF MapsMore

\* One text more is one field more.
LEMMA MessageFieldsAdd ==
  ASSUME ProtoAssumption, NEW f \in Nat, NEW texts \in Seq(Text), NEW t \in Text
  PROVE  /\ MessageFields(f, Append(texts, t)) = MessageFields(f, texts) \o BytesFields(f, t)
         /\ MessageFields(f, <<>>) = <<>>
<1>1. PICK m : m = [y \in Text |-> BytesFields(f, y)]
  OBVIOUS
<1>2. \A y \in Text : m[y] = BytesFields(f, y)
  BY ONLY <1>1
<1>3. \A y \in Text : m[y] \in Seq(Field)
  <2>1. ASSUME NEW y \in Text PROVE BytesFields(f, y) \in Seq(Field)
    <3>1. BytesRecord(f, y) \in Field
      <4>1. 0 \in Nat
        OBVIOUS
      <4> QED
        BY <4>1, RecordsAre
    <3> QED
      BY <3>1 DEF BytesFields
  <2> QED
    BY ONLY <1>2, <2>1
<1>4. PICK p : p = Mapped(m, texts) /\ p \in Seq(Seq(Field)) /\ Mapped(m, Append(texts, t)) = Append(p, m[t])
  <2>1. PICK S, T : S = Text /\ T = Seq(Field)
    OBVIOUS
  <2>2. m \in [S -> T] /\ texts \in Seq(S) /\ t \in S
    BY ONLY <1>1, <1>3, <2>1, texts \in Seq(Text), t \in Text
  <2>3. Mapped(m, texts) \in Seq(T) /\ MapsMore(m, texts, t)
    BY <2>2, MappedAdds
  <2> QED
    BY ONLY <2>1, <2>3 DEF MapsMore
<1>5. \A s \in Seq(Text) : MessageFields(f, s) = FlattenSeq(Mapped(m, s))
  <2>1. ASSUME NEW s \in Seq(Text)
        PROVE  Mapped(m, s) = [i \in DOMAIN s |-> BytesFields(f, s[i])]
    <3>1. \A i \in DOMAIN s : s[i] \in Text
      BY ONLY s \in Seq(Text)
    <3> QED
      BY ONLY <1>2, <3>1 DEF Mapped
  <2> QED
    BY ONLY <2>1 DEF MessageFields
<1>6. FlattenSeq(Append(p, m[t])) = FlattenSeq(p) \o m[t]
  <2>1. PICK x \in Seq(Field) : x = m[t]
    BY ONLY <1>3, t \in Text
  <2>2. p \in Seq(Seq(Field))
    BY ONLY <1>4
  <2>3. FlattenSeq(Append(p, x)) = FlattenSeq(p) \o x
    BY ONLY <2>2, FlattenAdds, SeqsConcatenate, x \in Seq(Field)
  <2> QED
    BY ONLY <2>1, <2>3
<1>7. Append(texts, t) \in Seq(Text)
  OBVIOUS
<1>8. MessageFields(f, <<>>) = <<>>
  <2>1. [i \in DOMAIN <<>> |-> BytesFields(f, <<>>[i])] = <<>>
    OBVIOUS
  <2> QED
    BY ONLY <2>1, FlattenEmpty DEF MessageFields
<1> QED
  BY ONLY <1>2, <1>4, <1>5, <1>6, <1>7, <1>8, texts \in Seq(Text), t \in Text

\* The bytes of a request are one field with its body, which is read as the request.
RequestBytes(request) == Allocating[6][RequestBody(request)]
RequestWritten(request) ==
  /\ RequestBytes(request) \in Text \ {<<>>}
  /\ ReadResourceItems(request.signal, ReadFields[RequestBytes(request)]) = Meant(request)
  /\ Allocating[Depth][EncodeExportRequest(request)] # <<>>
  /\ ReadsAs(Allocating[Depth][EncodeExportRequest(request)], BytesFields(1, RequestBytes(request)))

\* Writing a request gives one field whose bytes are read as the request.
LEMMA RequestsWrite ==
  ASSUME ProtoAssumption, NEW request \in Request
  PROVE  RequestWritten(request)
<1>1. PICK d \in Nat, n \in Nat : d = 0 /\ n = 1 /\ n # 0
  OBVIOUS
<1>2. PICK e \in Nat : /\ e = (((((d + 1) + 1) + 1) + 1) + 1) + 1 /\ e = 6 /\ e + 1 = Depth
  BY <1>1 DEF Depth
<1>3. RequestTold(e, request)
  <2>1. RequestTold((((((d + 1) + 1) + 1) + 1) + 1) + 1, request)
    BY ONLY RequestTells, ProtoAssumption, d \in Nat, request \in Request
  <2> QED
    BY ONLY <1>2, <2>1
<1>4. PICK body, b : /\ body = RequestBody(request) /\ b = Allocating[e][body]
                     /\ b = RequestBytes(request)
  BY ONLY <1>2 DEF RequestBytes
<1>5. body \in Seq(Writes[e]) /\ b \in Text \ {<<>>}
  BY ONLY <1>3, <1>4 DEF RequestTold
<1>6. ReadResourceItems(request.signal, ReadFields[b]) = Meant(request)
  BY ONLY <1>3, <1>4 DEF RequestTold, FieldsOf
<1>7. PICK w : w = <<Message(n, body)>> /\ w = EncodeExportRequest(request)
  BY ONLY <1>1, <1>4 DEF EncodeExportRequest, RequestBody, EncodeScoped
<1>8. Section(e + 1, w, n, BytesFields(n, b))
  <2>1. n # 0
    BY ONLY <1>1
  <2>2. body \in Seq(Writes[e])
    BY ONLY <1>5
  <2>3. Section(e + 1, <<Message(n, body)>>, n, BytesFields(n, Allocating[e][body]))
    BY ONLY <2>1, <2>2, MessageSection, ProtoAssumption, e \in Nat, n \in Nat
  <2> QED
    BY ONLY <1>4, <1>7, <2>3
<1>9. ReadsAs(Allocating[e + 1][w], BytesFields(n, b))
  BY ONLY <1>8 DEF Section
<1>10. Allocating[e + 1][w] # <<>>
  <2>1. ASSUME Allocating[e + 1][w] = <<>> PROVE FALSE
    <3>1. ReadsAs(<<>>, BytesFields(n, b))
      BY ONLY <1>9, <2>1
    <3>2. ReadFields[<<>>] = BytesFields(n, b) /\ <<>> \in Text
      BY ONLY <3>1, ReadsBack, ProtoAssumption
    <3>3. ReadFields[<<>>] = <<>>
      BY ONLY <3>2, FieldsAre, ProtoAssumption
    <3>4. BytesFields(n, b) = <<BytesRecord(n, b)>>
      BY ONLY <1>5 DEF BytesFields
    <3>5. <<BytesRecord(n, b)>> # <<>>
      OBVIOUS
    <3> QED
      BY ONLY <3>2, <3>3, <3>4, <3>5
  <2> QED
    BY ONLY <2>1
<1> QED
  BY ONLY <1>1, <1>2, <1>4, <1>5, <1>6, <1>7, <1>9, <1>10 DEF RequestWritten

\* The bodies of some requests.
BodyTexts(done) == [i \in DOMAIN done |-> RequestBytes(done[i])]

\* One request more is one body more.
LEMMA BodyTextsAre ==
  ASSUME ProtoAssumption, NEW done \in Seq(Request), NEW request \in Request
  PROVE  /\ BodyTexts(done) \in Seq(Text)
         /\ BodyTexts(Append(done, request)) = Append(BodyTexts(done), RequestBytes(request))
         /\ BodyTexts(<<>>) = <<>>
<1>1. PICK m : m = [r \in Request |-> RequestBytes(r)]
  OBVIOUS
<1>2. \A r \in Request : m[r] = RequestBytes(r)
  BY ONLY <1>1
<1>3. \A r \in Request : m[r] \in Text
  <2>1. ASSUME NEW r \in Request PROVE RequestBytes(r) \in Text
    BY RequestsWrite DEF RequestWritten
  <2> QED
    BY ONLY <1>2, <2>1
<1>4. /\ Mapped(m, done) \in Seq(Text) /\ Mapped(m, Append(done, request)) = Append(Mapped(m, done), m[request])
  <2>1. PICK S, T : S = Request /\ T = Text
    OBVIOUS
  <2>2. m \in [S -> T] /\ done \in Seq(S) /\ request \in S
    BY ONLY <1>1, <1>3, <2>1, done \in Seq(Request), request \in Request
  <2>3. Mapped(m, done) \in Seq(T) /\ MapsMore(m, done, request)
    BY <2>2, MappedAdds
  <2> QED
    BY ONLY <2>1, <2>3 DEF MapsMore
<1>5. \A s \in Seq(Request) : BodyTexts(s) = Mapped(m, s)
  <2>1. ASSUME NEW s \in Seq(Request) PROVE BodyTexts(s) = Mapped(m, s)
    <3>1. \A i \in DOMAIN s : s[i] \in Request
      BY ONLY s \in Seq(Request)
    <3> QED
      BY ONLY <1>2, <3>1 DEF BodyTexts, Mapped
  <2> QED
    BY ONLY <2>1
<1>6. Append(done, request) \in Seq(Request)
  OBVIOUS
<1>7. BodyTexts(<<>>) = <<>>
  BY DEF BodyTexts
<1> QED
  BY ONLY <1>2, <1>4, <1>5, <1>6, <1>7, done \in Seq(Request), request \in Request

-----------------------------------------------------------------------------
(***************************************************************************)
(* The payload. PayloadInv says of every state what RoundTrip says of      *)
(* those between two requests.                                             *)
(***************************************************************************)
\* Some bytes are read as some requests, each a field of its own.
PayloadReads(p, done) == ReadsAs(p, MessageFields(1, BodyTexts(done)))

\* No bytes are no requests, and one request more is read as the requests and that one.
LEMMA PayloadNone == ASSUME ProtoAssumption PROVE PayloadReads(<<>>, <<>>)
<1>1. ReadsAs(<<>>, <<>>)
  BY ReadsNothing
<1>2. BodyTexts(<<>>) = <<>>
  BY DEF BodyTexts
<1>3. MessageFields(1, <<>>) = <<>>
  <2>1. [i \in DOMAIN <<>> |-> BytesFields(1, <<>>[i])] = <<>>
    OBVIOUS
  <2> QED
    BY ONLY <2>1, FlattenEmpty DEF MessageFields
<1> QED
  BY ONLY <1>1, <1>2, <1>3 DEF PayloadReads

LEMMA PayloadMore ==
  ASSUME ProtoAssumption, NEW done \in Seq(Request), NEW request \in Request,
         NEW p, PayloadReads(p, done)
  PROVE  PayloadReads(p \o Allocating[Depth][EncodeExportRequest(request)], Append(done, request))
<1>1. PICK f \in Nat : f = 1
  OBVIOUS
<1>2. PICK texts \in Seq(Text), t \in Text :
        /\ texts = BodyTexts(done) /\ t = RequestBytes(request)
        /\ BodyTexts(Append(done, request)) = Append(texts, t)
  <2>1. RequestBytes(request) \in Text
    BY RequestsWrite DEF RequestWritten
  <2>2. BodyTexts(done) \in Seq(Text)
    BY BodyTextsAre
  <2>3. BodyTexts(Append(done, request)) = Append(BodyTexts(done), RequestBytes(request))
    BY BodyTextsAre
  <2> QED
    BY ONLY <2>1, <2>2, <2>3
<1>3. MessageFields(f, Append(texts, t)) = MessageFields(f, texts) \o BytesFields(f, t)
  BY MessageFieldsAdd
<1>4. PICK b : b = Allocating[Depth][EncodeExportRequest(request)] /\ ReadsAs(b, BytesFields(f, t))
  <2>1. RequestWritten(request)
    BY RequestsWrite
  <2> QED
    BY ONLY <1>1, <1>2, <2>1 DEF RequestWritten
<1>5. ReadsAs(p, MessageFields(f, texts))
  BY ONLY <1>1, <1>2, PayloadReads(p, done) DEF PayloadReads
<1>6. ReadsAs(p \o b, MessageFields(f, texts) \o BytesFields(f, t))
  BY ONLY <1>4, <1>5, ReadsBoth, ProtoAssumption
<1> QED
  BY ONLY <1>1, <1>2, <1>3, <1>4, <1>6 DEF PayloadReads

\* What is read is what was meant by each of the requests.
LEMMA PayloadMeans ==
  ASSUME ProtoAssumption, NEW done \in Seq(Request), NEW p, PayloadReads(p, done),
         NEW signal, \A i \in DOMAIN done : done[i].signal = signal
  PROVE  ReadPayload(signal, p) = [i \in DOMAIN done |-> Meant(done[i])]
<1>1. PICK f \in Nat : f = 1
  OBVIOUS
<1>2. ASSUME NEW i \in DOMAIN done PROVE RequestWritten(done[i])
  <2>1. done[i] \in Request
    OBVIOUS
  <2> QED
    BY <2>1, RequestsWrite
<1>3. PICK texts : texts = BodyTexts(done)
  OBVIOUS
<1>4. DOMAIN texts = DOMAIN done /\ texts = [i \in DOMAIN done |-> texts[i]]
      /\ \A i \in DOMAIN done : texts[i] = RequestBytes(done[i])
  BY ONLY <1>3 DEF BodyTexts
<1>5. \A i \in DOMAIN done : texts[i] \in Text /\ texts[i] # <<>>
  BY ONLY <1>2, <1>4 DEF RequestWritten
<1>6. texts \in Seq(Text)
  <2>1. \A i \in DOMAIN done : texts[i] \in Text
    BY ONLY <1>5
  <2> QED
    BY ONLY <1>4, <2>1, MessagesAre, done \in Seq(Request)
<1>7. ReadFields[p] = MessageFields(f, texts)
  <2>1. ReadsAs(p, MessageFields(f, texts))
    BY ONLY <1>1, <1>3, PayloadReads(p, done) DEF PayloadReads
  <2> QED
    BY ONLY <2>1, ReadsBack, ProtoAssumption
<1>8. ReadRepeated(ReadFields[p], f) = texts
  <2>1. ReadRepeated(MessageFields(f, texts), f) = Kept(texts, Full(texts))
    BY ONLY <1>6, MessagesAsk, ProtoAssumption, f \in Nat
  <2>2. \A i \in DOMAIN texts : texts[i] # <<>>
    BY ONLY <1>4, <1>5
  <2>3. Kept(texts, Full(texts)) = texts
    BY ONLY <1>6, <2>2, KeptTexts
  <2> QED
    BY ONLY <1>7, <2>1, <2>3
<1>9. \A i \in DOMAIN done : ReadResourceItems(signal, ReadFields[texts[i]]) = Meant(done[i])
  BY ONLY <1>2, <1>4, \A i \in DOMAIN done : done[i].signal = signal DEF RequestWritten
<1>10. ReadPayload(signal, p) = [i \in DOMAIN texts |-> ReadResourceItems(signal, ReadFields[texts[i]])]
  BY ONLY <1>1, <1>8 DEF ReadPayload, Each
<1> QED
  BY ONLY <1>4, <1>9, <1>10

\* Between the requests the payload is all of the batch, and while one is
\* written all of it but that one, and no request is of another signal.
OneSignal == \A i \in DOMAIN batch : batch[i].signal = Head(batch).signal
Whole ==
  \/ Idle /\ buf = <<>> /\ PayloadReads(payload, batch)
  \/ Progress /\ batch # <<>> /\ PayloadReads(payload, Front(batch))
PayloadInv == NInv /\ OneSignal /\ Whole

\* The front of a sequence is all of it but the last.
LEMMA FrontIs ==
  ASSUME NEW S, NEW q \in Seq(S), NEW n \in Nat, Len(q) = n + 1
  PROVE  Front(q) = [i \in 1..n |-> q[i]]
<1>1. Len(q) - 1 = n /\ DOMAIN q = 1..Len(q) /\ Len(q) > 0 /\ Len(q) \in Nat
  OBVIOUS
<1> QED
  BY <1>1 DEF Front

\* The batch is the requests before the last one, and that one.
LEMMA BatchIs ==
  ASSUME EncodingAssumption, NInv
  PROVE  /\ batch \in Seq(Request)
         /\ batch # <<>> => /\ Front(batch) \in Seq(Request) /\ Last(batch) \in Request
                            /\ batch = Append(Front(batch), Last(batch))
<1>1. batch \in Seq(Request)
  BY DEF EncodingAssumption, NInv, Typed
<1>2. ASSUME batch # <<>>
      PROVE  /\ Front(batch) \in Seq(Request) /\ Last(batch) \in Request
             /\ batch = Append(Front(batch), Last(batch))
  <2>1. PICK q \in Seq(Request) : q = batch /\ q # <<>>
    BY <1>1, <1>2
  <2>2. Len(q) \in Nat /\ Len(q) > 0 /\ DOMAIN q = 1..Len(q) /\ q[Len(q)] \in Request
    BY ONLY <2>1, q \in Seq(Request)
  <2>3. PICK x \in Request, n \in Nat : x = q[Len(q)] /\ Len(q) = n + 1 /\ x = Last(q)
    <3>1. Len(q) - 1 \in Nat /\ Len(q) = (Len(q) - 1) + 1
      BY ONLY <2>2
    <3> QED
      BY ONLY <2>2, <3>1 DEF Last
  <2>4. PICK r : r = Front(q) /\ r = [i \in 1..n |-> q[i]]
    <3>1. Front(q) = [i \in 1..n |-> q[i]]
      BY <2>3, FrontIs
    <3> QED
      BY ONLY <3>1
  <2>5. r \in Seq(Request) /\ Len(r) = n
    <3>1. \A i \in 1..n : q[i] \in Request
      BY ONLY <2>3, n \in Nat, q \in Seq(Request)
    <3> QED
      BY ONLY <2>4, <3>1, n \in Nat
  <2>6. Append(r, x) = [i \in 1..(n + 1) |-> IF i = n + 1 THEN x ELSE r[i]]
    BY ONLY <2>5, Appending, r \in Seq(Request), x \in Request, n \in Nat
  <2>7. q = [i \in 1..(n + 1) |-> q[i]]
    BY ONLY <2>3, q \in Seq(Request)
  <2>8. \A i \in 1..(n + 1) : q[i] = IF i = n + 1 THEN x ELSE r[i]
    <3>1. ASSUME NEW i \in 1..(n + 1), i # n + 1 PROVE q[i] = r[i]
      <4>1. i \in 1..n
        BY ONLY <3>1, n \in Nat
      <4> QED
        BY ONLY <2>4, <4>1
    <3> QED
      BY ONLY <2>3, <3>1
  <2>9. q = Append(r, x)
    BY ONLY <2>6, <2>7, <2>8
  <2> QED
    BY ONLY <2>1, <2>3, <2>4, <2>5, <2>9
<1> QED
  BY <1>1, <1>2

\* Starting a request leaves what is before it as it was.
LEMMA PayloadBegin ==
  ASSUME ProtoAssumption, EncodingAssumption, PayloadInv, NEW request \in Requests, Begin(request)
  PROVE  OneSignal' /\ Whole'
<1>1. /\ Idle /\ buf = <<>> /\ batch' = Append(batch, request) /\ payload' = payload
      /\ batch # <<>> => request.signal = Head(batch).signal
      /\ todo' = EncodeExportRequest(request)
  BY DEF Begin
<1>2. batch \in Seq(Request) /\ request \in Request
  BY BatchIs DEF PayloadInv, EncodingAssumption
<1>3. PICK n \in Nat : n = Len(batch) /\ DOMAIN batch = 1..n
  BY <1>2
<1>4. /\ batch' \in Seq(Request) /\ DOMAIN batch' = 1..(n + 1) /\ batch'[n + 1] = request
      /\ \A i \in 1..n : batch'[i] = batch[i]
      /\ Head(batch') = batch'[1] /\ (batch # <<>> => Head(batch) = batch[1] /\ n > 0)
      /\ (batch = <<>> => n = 0)
  BY <1>1, <1>2, <1>3
<1>5. OneSignal'
  <2>1. ASSUME NEW i \in 1..(n + 1) PROVE batch'[i].signal = batch'[1].signal
    <3>1. CASE batch = <<>>
      BY <1>4, <3>1
    <3>2. CASE batch # <<>>
      <4>1. batch'[1] = batch[1] /\ request.signal = batch[1].signal
        BY <1>1, <1>4, <3>2
      <4>2. CASE i = n + 1
        BY <1>4, <4>1, <4>2
      <4>3. CASE i \in 1..n
        <5>1. batch[i].signal = batch[1].signal
          BY <1>3, <1>4, <3>2, <4>3 DEF PayloadInv, OneSignal
        <5> QED
          BY <1>4, <4>1, <4>3, <5>1
      <4>4. i = n + 1 \/ i \in 1..n
        OBVIOUS
      <4> QED
        BY ONLY <4>2, <4>3, <4>4
    <3> QED
      BY ONLY <3>1, <3>2
  <2> QED
    BY <1>4, <2>1 DEF OneSignal
<1>6. Front(batch') = batch /\ batch' # <<>>
  <2>1. PICK q \in Seq(Request) : q = batch'
    BY <1>4
  <2>2. Len(q) = n + 1 /\ q # <<>>
    BY <1>4, <2>1
  <2>3. Front(q) = [i \in 1..n |-> q[i]]
    BY <2>2, FrontIs
  <2>4. batch = [i \in 1..n |-> batch[i]]
    BY ONLY <1>2, <1>3
  <2> QED
    BY ONLY <1>4, <2>1, <2>2, <2>3, <2>4
<1>7. Progress'
  BY ProgressBegin DEF PayloadInv
<1>8. PayloadReads(payload, batch)
  <2>1. CASE Progress
    <3>1. buf = Allocating[Depth][EncodeExportRequest(Last(batch))]
      BY <1>1, <2>1, WholeWritten DEF PayloadInv
    <3>2. CASE batch # <<>>
      <4>1. RequestWritten(Last(batch))
        BY <3>2, BatchIs, RequestsWrite DEF PayloadInv
      <4> QED
        BY ONLY <1>1, <3>1, <4>1 DEF RequestWritten
    <3> QED
      BY <1>1, <3>2 DEF PayloadInv, Whole
  <2> QED
    BY <2>1 DEF PayloadInv, Whole
<1> QED
  BY <1>1, <1>5, <1>6, <1>7, <1>8 DEF Whole

\* Concatenating a request that is written makes it part of what is read.
LEMMA PayloadConcatenate ==
  ASSUME ProtoAssumption, EncodingAssumption, PayloadInv, Concatenate
  PROVE  OneSignal' /\ Whole'
<1>1. /\ Idle /\ buf # <<>> /\ payload' = payload \o buf /\ buf' = <<>> /\ Idle' /\ batch' = batch
  BY DEF Concatenate, Idle
<1>2. Progress /\ batch # <<>> /\ PayloadReads(payload, Front(batch))
  BY <1>1 DEF PayloadInv, Whole
<1>3. buf = Allocating[Depth][EncodeExportRequest(Last(batch))]
  BY <1>1, <1>2, WholeWritten DEF PayloadInv
<1>4. /\ Front(batch) \in Seq(Request) /\ Last(batch) \in Request
      /\ batch = Append(Front(batch), Last(batch))
  BY <1>2, BatchIs DEF PayloadInv
<1>5. PICK q \in Seq(Request), x \in Request : q = Front(batch) /\ x = Last(batch)
  BY <1>4
<1>6. PayloadReads(payload \o Allocating[Depth][EncodeExportRequest(x)], Append(q, x))
  <2>1. PayloadReads(payload, q)
    BY ONLY <1>2, <1>5
  <2> QED
    BY ONLY <2>1, PayloadMore, ProtoAssumption, q \in Seq(Request), x \in Request
<1>7. PayloadReads(payload', batch')
  BY ONLY <1>1, <1>3, <1>4, <1>5, <1>6
<1>8. OneSignal'
  BY <1>1 DEF PayloadInv, OneSignal
<1> QED
  BY <1>1, <1>7, <1>8 DEF Whole

\* Between the requests the payload is read as the batch, and while one is written as
\* the batch without it, whatever is written next.
THEOREM PayloadInvariance == Spec => []PayloadInv
<1>1. Init => PayloadInv
  <2> SUFFICES ASSUME Init PROVE PayloadInv
    OBVIOUS
  <2>1. NInv
    BY NestInit, ProtoAssumption, EncodingAssumption
  <2>2. PayloadReads(payload, batch) /\ Idle /\ buf = <<>>
    BY PayloadNone, ProtoAssumption DEF Init, Idle
  <2>3. OneSignal
    BY DEF Init, OneSignal
  <2> QED
    BY <2>1, <2>2, <2>3 DEF PayloadInv, Whole
<1>2. PayloadInv /\ [Next]_vars => PayloadInv'
  <2> SUFFICES ASSUME PayloadInv, [Next]_vars PROVE PayloadInv'
    OBVIOUS
  <2> USE ProtoAssumption, EncodingAssumption
  <2>1. NInv /\ NInv'
    BY NestStep DEF PayloadInv
  <2>2. ASSUME NEW request \in Requests, Begin(request) PROVE OneSignal' /\ Whole'
    BY <2>2, PayloadBegin
  <2>3. ASSUME WriteBytes \/ OpenMessage \/ CloseMessage
        PROVE  Progress /\ batch # <<>> /\ PayloadReads(payload, Front(batch))
    BY <2>3 DEF PayloadInv, Whole, Idle, WriteBytes, OpenMessage, CloseMessage
  <2>4. ASSUME WriteBytes \/ OpenMessage \/ CloseMessage PROVE Progress'
    BY <2>1, <2>3, <2>4, ProgressWriteBytes, ProgressOpen, ProgressClose
  <2>5. ASSUME WriteBytes \/ OpenMessage \/ CloseMessage PROVE batch' = batch /\ payload' = payload
    BY <2>5 DEF WriteBytes, OpenMessage, CloseMessage
  <2>6. ASSUME WriteBytes \/ OpenMessage \/ CloseMessage PROVE OneSignal' /\ Whole'
    BY <2>3, <2>4, <2>5, <2>6 DEF PayloadInv, OneSignal, Whole
  <2>7. CASE Concatenate
    BY <2>1, <2>7, PayloadConcatenate DEF PayloadInv
  <2>8. CASE Terminated \/ UNCHANGED vars
    <3>1. buf' = buf /\ todo' = todo /\ open' = open /\ batch' = batch /\ payload' = payload
      BY <2>8 DEF Terminated, vars
    <3>2. Progress => Progress'
      BY <3>1 DEF Progress
    <3> QED
      BY <2>1, <3>1, <3>2 DEF PayloadInv, OneSignal, Whole, Idle
  <2> QED
    BY <2>1, <2>2, <2>6, <2>7, <2>8 DEF PayloadInv, Next
<1> QED
  BY <1>1, <1>2, PTL DEF Spec

\* Whatever the lengths of the messages, a collector reads from the concatenated
\* requests exactly what was put in them.
THEOREM RoundTripHolds == Spec => []RoundTrip
<1>1. PayloadInv => RoundTrip
  <2> SUFFICES ASSUME PayloadInv, Idle, buf = <<>>, batch # <<>>
               PROVE  ReadPayload(Head(batch).signal, payload) = [i \in DOMAIN batch |-> Meant(batch[i])]
    BY DEF RoundTrip
  <2> USE ProtoAssumption, EncodingAssumption
  <2>1. batch \in Seq(Request) /\ Last(batch) \in Request
    BY BatchIs DEF PayloadInv
  <2>2. ~Progress
    <3>1. ASSUME Progress PROVE FALSE
      <4>1. buf = Allocating[Depth][EncodeExportRequest(Last(batch))]
        BY <3>1, WholeWritten DEF PayloadInv
      <4>2. RequestWritten(Last(batch))
        BY <2>1, RequestsWrite
      <4> QED
        BY <4>1, <4>2 DEF RequestWritten
    <3> QED
      BY <3>1
  <2>3. PayloadReads(payload, batch)
    BY <2>2 DEF PayloadInv, Whole
  <2>4. \A i \in DOMAIN batch : batch[i].signal = Head(batch).signal
    BY DEF PayloadInv, OneSignal
  <2> QED
    BY ONLY <2>1, <2>3, <2>4, PayloadMeans, ProtoAssumption
<1> QED
  BY <1>1, PayloadInvariance, PTL

=============================================================================
