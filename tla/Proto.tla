-------------------------------- MODULE Proto --------------------------------
(***************************************************************************)
(* The protobuf primitives of src/proto.rs, and the reader of the wire     *)
(* format that a collector has (external).                                 *)
(*                                                                         *)
(* The code's varints have groups of seven bits.  Here a group is a digit  *)
(* to Base and a byte a number below 2 * Base, so that short messages have *)
(* lengths and tags of several groups; an f64 is the number of its bits.   *)
(***************************************************************************)
EXTENDS Integers, Sequences, SequencesExt

CONSTANTS
  Base,       \* the values of a group of a varint: 128
  FixedBytes, \* the bytes of a u64: 8
  MaxLenBytes \* MAX_LEN_BYTES, the room reserved for a length: 5

ASSUME ProtoAssumption ==
  /\ Base \in Nat \ {0, 1} /\ FixedBytes \in Nat \ {0} /\ MaxLenBytes \in Nat \ {0}

\* The values of a byte, of a string or an array, of a u64 and of an i64.
Byte == 0..(2 * Base - 1)
Text == Seq(Byte)
BytePower[k \in Nat] == IF k >= 1 THEN 2 * Base * BytePower[k - 1] ELSE 1
Words == BytePower[FixedBytes]
U64 == 0..(Words - 1)
I64 == -(Words \div 2)..(Words \div 2 - 1)

\* The u64 that `as u64` makes of an i64.
AsU64(n) == n % Words

Varint == 0
Fixed64 == 1
LengthDelimited == 2

(***************************************************************************)
(* Writing.                                                                *)
(***************************************************************************)

EncodeVarint[n \in Nat] ==
  IF n >= Base THEN <<Base + (n % Base)>> \o EncodeVarint[n \div Base] ELSE <<n>>

EncodeTag(field, wire) == EncodeVarint[8 * field + wire]

\* u64::to_le_bytes
LittleEndian(n) == [i \in 1..FixedBytes |-> (n \div BytePower[i - 1]) % (2 * Base)]

\* The variants that write a zero are for fields of a oneof, where it is a value.
EncodeVarintFieldAlways(field, n) == EncodeTag(field, Varint) \o EncodeVarint[n]
EncodeVarintField(field, n) == IF n = 0 THEN <<>> ELSE EncodeVarintFieldAlways(field, n)

EncodeFixed64FieldAlways(field, n) == EncodeTag(field, Fixed64) \o LittleEndian(n)
EncodeFixed64Field(field, n) == IF n = 0 THEN <<>> ELSE EncodeFixed64FieldAlways(field, n)

\* A string, an array of bytes and a nested message are written alike.
EncodeBytesField(field, bytes) ==
  IF bytes = <<>> THEN <<>>
  ELSE EncodeTag(field, LengthDelimited) \o EncodeVarint[Len(bytes)] \o bytes

\* Packed u64s, and f64s by their bits.
EncodePackedFixed64Field(field, numbers) ==
  IF numbers = <<>> THEN <<>>
  ELSE EncodeTag(field, LengthDelimited) \o EncodeVarint[FixedBytes * Len(numbers)]
         \o FlattenSeq([i \in DOMAIN numbers |-> LittleEndian(numbers[i])])

\* The length of a message's tag, counted group by group.
TagGroups[n \in Nat] == IF n >= Base THEN 1 + TagGroups[n \div Base] ELSE 1
VarintTagLen(field) == TagGroups[8 * field + LengthDelimited]

(***************************************************************************)
(* Reading.                                                                *)
(***************************************************************************)

\* A varint at the head of some bytes, and what follows it.
ReadVarint[bytes \in Text] ==
  IF bytes = <<>> THEN [value |-> 0, rest |-> <<>>]
  ELSE IF Head(bytes) < Base THEN [value |-> Head(bytes), rest |-> Tail(bytes)]
  ELSE LET more == ReadVarint[Tail(bytes)]
       IN  [value |-> Head(bytes) - Base + Base * more.value, rest |-> more.rest]

Malformed == [field |-> 0, wire |-> Varint, value |-> 0, bytes |-> <<>>]

\* The field at the head of a message, and what follows it.
ReadField(bytes) ==
  LET tag == ReadVarint[bytes]
      number == ReadVarint[tag.rest]
      field == tag.value \div 8
      wire == tag.value % 8
      Found(value, text, rest) ==
        [first |-> [field |-> field, wire |-> wire, value |-> value, bytes |-> text], rest |-> rest]
      Delimited(rest, n) == Found(0, SubSeq(rest, 1, n), SubSeq(rest, n + 1, Len(rest)))
  IN  CASE field # 0 /\ wire = Varint -> Found(number.value, <<>>, number.rest)
        [] field # 0 /\ wire = Fixed64 /\ FixedBytes <= Len(tag.rest) -> Delimited(tag.rest, FixedBytes)
        [] field # 0 /\ wire = LengthDelimited /\ number.value <= Len(number.rest) ->
             Delimited(number.rest, number.value)
        [] OTHER -> [first |-> Malformed, rest |-> <<>>]

\* The fields of a message in their order.
ReadFields[bytes \in Text] ==
  IF bytes = <<>> THEN <<>>
  ELSE LET found == ReadField(bytes) IN <<found.first>> \o ReadFields[found.rest]

\* The elements of s at some of its positions, in their order.
Kept(s, positions) ==
  FlattenSeq([i \in DOMAIN s |-> IF i \in positions THEN <<s[i]>> ELSE <<>>])

\* What a reader makes of a field: every occurrence of a repeated one, the last
\* of a scalar or its default, all of a message merged.
Occurrences(fields, f, wire) ==
  Kept(fields, {i \in DOMAIN fields : fields[i].field = f /\ fields[i].wire = wire})
Has(fields, f) == \E i \in DOMAIN fields : fields[i].field = f

ReadRepeated(fields, f) ==
  LET all == Occurrences(fields, f, LengthDelimited) IN [i \in DOMAIN all |-> all[i].bytes]
ReadMessage(fields, f) == FlattenSeq(ReadRepeated(fields, f))
ReadBytes(fields, f) ==
  LET all == ReadRepeated(fields, f) IN IF all = <<>> THEN <<>> ELSE Last(all)
ReadNumber(fields, f) ==
  LET all == Occurrences(fields, f, Varint) IN IF all = <<>> THEN 0 ELSE Last(all).value

FromLittleEndian(bytes) ==
  FoldFunction(+, 0, [i \in DOMAIN bytes |-> bytes[i] * BytePower[i - 1]])
ReadFixed(fields, f) ==
  LET all == Occurrences(fields, f, Fixed64)
  IN  IF all = <<>> THEN 0 ELSE FromLittleEndian(Last(all).bytes)
ReadPacked(fields, f) ==
  LET bytes == ReadMessage(fields, f)
  IN  [i \in 1..(Len(bytes) \div FixedBytes) |->
         FromLittleEndian(SubSeq(bytes, FixedBytes * (i - 1) + 1, FixedBytes * i))]

AsI64(n) == IF n >= Words \div 2 THEN n - Words ELSE n

=============================================================================
