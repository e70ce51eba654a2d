------------------------- MODULE OtlpEncodingProofs -------------------------
(***************************************************************************)
(* Theorems about OtlpEncoding, for requests of any size and any base:     *)
(* messages nest, no write disturbs what the messages around it have       *)
(* written, and a request that is written in place has the bytes that it   *)
(* has with a buffer for each of its messages.  Then lemmas about the      *)
(* reader of Proto, for OtlpReaderProofs: it finds again what each         *)
(* primitive wrote, whatever follows it.                                   *)
(***************************************************************************)
EXTENDS OtlpEncoding, Induction, TLAPS

-----------------------------------------------------------------------------
(***************************************************************************)
(* Numbers.                                                                *)
(***************************************************************************)
LEMMA Smaller ==
  ASSUME ProtoAssumption, NEW n \in Nat, n >= Base
  PROVE  n \div Base \in Nat /\ n \div Base < n
  BY DEF ProtoAssumption

LEMMA DigitIs ==
  ASSUME ProtoAssumption, NEW n \in Int
  PROVE  /\ n % Base \in 0..(Base - 1) /\ n % (2 * Base) \in Byte
         /\ Base + (n % Base) \in Byte /\ (n < Base /\ n \in Nat => n \in Byte)
<1>1. Base \in Nat /\ Base > 1 /\ 2 * Base \in Nat /\ 2 * Base > 0
  BY DEF ProtoAssumption
<1>2. n % Base \in 0..(Base - 1)
  BY <1>1
<1>3. n % (2 * Base) \in 0..(2 * Base - 1)
  BY <1>1
<1> QED
  BY <1>1, <1>2, <1>3 DEF Byte

LEMMA Prefixed ==
  ASSUME NEW b \in Byte, NEW s \in Text
  PROVE  <<b>> \o s \in Text
<1>1. <<b>> \in Seq(Byte)
  OBVIOUS
<1> QED
  BY <1>1 DEF Text

\* One unfolding of the recursive functions.
LEMMA BytePowerIs ==
  ASSUME ProtoAssumption
  PROVE  /\ BytePower \in [Nat -> Nat \ {0}]
         /\ \A n \in Nat : BytePower[n] = IF n >= 1 THEN 2 * Base * BytePower[n - 1] ELSE 1
<1> DEFINE S == Nat \ {0}
           first == [n \in Nat |-> 1]
           step == [x \in Nat \X S |-> 2 * Base * x[2]]
           prev == [n \in Nat |-> IF n >= 1 THEN n - 1 ELSE 0]
<1>1. first \in [Nat -> S] /\ prev \in [Nat -> Nat] /\ Falls(prev, 1)
  BY DEF Falls
<1>2. step \in [Nat \X S -> S]
  BY DEF ProtoAssumption
<1>3. PICK f \in [Nat -> S] : MadeBy(f, 1, first, step, prev)
  <2> HIDE DEF S, first, step, prev
  <2>1. 1 \in Nat
    OBVIOUS
  <2> QED
    BY ONLY <2>1, <1>1, <1>2, Recursion
<1>4. \A n \in Nat : f[n] = IF n >= 1 THEN 2 * Base * f[n - 1] ELSE 1
  <2> SUFFICES ASSUME NEW n \in Nat PROVE f[n] = IF n >= 1 THEN 2 * Base * f[n - 1] ELSE 1
    OBVIOUS
  <2>1. n >= 1 => step[<<n, f[prev[n]]>>] = 2 * Base * f[n - 1]
    OBVIOUS
  <2>2. first[n] = 1
    OBVIOUS
  <2> QED
    BY <1>3, <2>1, <2>2 DEF MadeBy
<1>5. f = [n \in Nat |-> IF n >= 1 THEN 2 * Base * f[n - 1] ELSE 1]
  BY <1>4
<1>6. BytePower = [n \in Nat |-> IF n >= 1 THEN 2 * Base * BytePower[n - 1] ELSE 1]
  BY <1>5, Zenon DEF BytePower
<1>7. \A n \in Nat : BytePower[n] \in S
  <2> DEFINE P == {n \in Nat : BytePower[n] \in S}
  <2>1. 0 \in P
    BY <1>6
  <2>2. ASSUME NEW n \in Nat, n \in P PROVE n + 1 \in P
    <3>1. BytePower[n + 1] = 2 * Base * BytePower[n] /\ BytePower[n] \in S
      BY <1>6, <2>2
    <3>2. 2 * Base * BytePower[n] \in S
      BY <3>1 DEF ProtoAssumption
    <3> QED
      BY <3>1, <3>2
  <2>3. Nat \subseteq P
    <3> HIDE DEF P
    <3> QED
      BY <2>1, <2>2, InductionOverSets
  <2> QED
    BY <2>3
<1> QED
  BY <1>6, <1>7

LEMMA EncodeVarintIs ==
  ASSUME ProtoAssumption
  PROVE  /\ EncodeVarint \in [Nat -> Text]
         /\ \A n \in Nat : EncodeVarint[n] =
              IF n >= Base THEN <<Base + (n % Base)>> \o EncodeVarint[n \div Base] ELSE <<n>>
<1> DEFINE first == [n \in Nat |-> IF n >= Base THEN <<>> ELSE <<n>>]
           step == [x \in Nat \X Text |-> <<Base + (x[1] % Base)>> \o x[2]]
           prev == [n \in Nat |-> IF n >= Base THEN n \div Base ELSE 0]
<1>1. prev \in [Nat -> Nat] /\ Falls(prev, Base)
  BY Smaller DEF Falls
<1>2. first \in [Nat -> Text]
  BY DigitIs DEF Text
<1>3. step \in [Nat \X Text -> Text]
  <2>1. ASSUME NEW n \in Nat, NEW s \in Text PROVE <<Base + (n % Base)>> \o s \in Text
    <3>1. n \in Int
      OBVIOUS
    <3>2. Base + (n % Base) \in Byte
      BY <3>1, DigitIs
    <3> QED
      BY <3>2, Prefixed
  <2> QED
    BY <2>1
<1>4. PICK f \in [Nat -> Text] : MadeBy(f, Base, first, step, prev)
  <2> HIDE DEF first, step, prev
  <2>1. Base \in Nat
    BY DEF ProtoAssumption
  <2> QED
    BY ONLY <1>1, <1>2, <1>3, <2>1, Recursion
<1>5. ASSUME NEW n \in Nat
      PROVE  f[n] = IF n >= Base THEN <<Base + (n % Base)>> \o f[n \div Base] ELSE <<n>>
  <2>1. n >= Base => step[<<n, f[prev[n]]>>] = <<Base + (n % Base)>> \o f[n \div Base]
    BY Smaller
  <2>2. n < Base => first[n] = <<n>>
    BY DEF ProtoAssumption
  <2> QED
    BY <1>4, <2>1, <2>2 DEF ProtoAssumption, MadeBy
<1>6. f = [n \in Nat |-> IF n >= Base THEN <<Base + (n % Base)>> \o f[n \div Base] ELSE <<n>>]
  BY <1>5
<1>7. EncodeVarint = [n \in Nat |-> IF n >= Base THEN <<Base + (n % Base)>> \o EncodeVarint[n \div Base] ELSE <<n>>]
  BY <1>6, Zenon DEF EncodeVarint
<1>8. ASSUME NEW n \in Nat, EncodeVarint[n] \notin Text PROVE FALSE
  <2> DEFINE T == {m \in Nat : EncodeVarint[m] \notin Text}
  <2>1. T \subseteq Nat /\ T # {}
    BY <1>8
  <2>2. PICK m \in T : \A k \in T : m <= k
    <3> HIDE DEF T
    <3> QED
      BY <2>1, Least
  <2> HIDE DEF T
  <2>5. m \in Nat /\ EncodeVarint[m] \notin Text
    BY DEF T
  <2>6. \A k \in Nat : k < m => EncodeVarint[k] \in Text
    BY <2>2, <2>5 DEF T
  <2>3. CASE m >= Base
    <3>1. m \div Base \in Nat /\ m \div Base < m
      BY <2>3, <2>5, Smaller
    <3>2. EncodeVarint[m \div Base] \in Text
      BY <3>1, <2>6
    <3>4. Base + (m % Base) \in Byte
      BY <2>5, DigitIs
    <3>3. EncodeVarint[m] = <<Base + (m % Base)>> \o EncodeVarint[m \div Base]
      BY <1>7, <2>3, <2>5
    <3> QED
      BY <2>5, <3>2, <3>3, <3>4, Prefixed
  <2>4. CASE ~(m >= Base)
    <3>1. EncodeVarint[m] = <<m>> /\ m \in Byte
      BY <1>7, <2>4, <2>5, DigitIs DEF ProtoAssumption
    <3> QED
      BY <2>5, <3>1 DEF Text
  <2> QED
    BY <2>3, <2>4
<1> QED
  BY <1>7, <1>8

LEMMA TagGroupsIs ==
  ASSUME ProtoAssumption
  PROVE  \A n \in Nat : TagGroups[n] = IF n >= Base THEN 1 + TagGroups[n \div Base] ELSE 1
<1> DEFINE first == [n \in Nat |-> 1]
           step == [x \in Nat \X Nat |-> 1 + x[2]]
           prev == [n \in Nat |-> IF n >= Base THEN n \div Base ELSE 0]
<1>1. prev \in [Nat -> Nat] /\ Falls(prev, Base)
  BY Smaller DEF Falls
<1>2. first \in [Nat -> Nat] /\ step \in [Nat \X Nat -> Nat]
  OBVIOUS
<1>3. PICK f \in [Nat -> Nat] : MadeBy(f, Base, first, step, prev)
  <2> HIDE DEF first, step, prev
  <2>1. Base \in Nat
    BY DEF ProtoAssumption
  <2> QED
    BY ONLY <1>1, <1>2, <2>1, Recursion
<1>4. ASSUME NEW n \in Nat
      PROVE  f[n] = IF n >= Base THEN 1 + f[n \div Base] ELSE 1
  <2>1. n >= Base => step[<<n, f[prev[n]]>>] = 1 + f[n \div Base]
    BY Smaller
  <2>2. first[n] = 1
    OBVIOUS
  <2> QED
    BY <1>3, <2>1, <2>2 DEF MadeBy
<1>5. f = [n \in Nat |-> IF n >= Base THEN 1 + f[n \div Base] ELSE 1]
  BY <1>4
<1>6. TagGroups = [n \in Nat |-> IF n >= Base THEN 1 + TagGroups[n \div Base] ELSE 1]
  BY <1>5, Zenon DEF TagGroups
<1> QED
  BY <1>6

\* The length that varint_tag_len counts is the one that encode_varint writes.
LEMMA GroupsCount ==
  ASSUME ProtoAssumption, NEW n \in Nat
  PROVE  Len(EncodeVarint[n]) = TagGroups[n] /\ Len(EncodeVarint[n]) > 0
<1> DEFINE T == {k \in Nat : ~(Len(EncodeVarint[k]) = TagGroups[k] /\ Len(EncodeVarint[k]) > 0)}
<1> SUFFICES ASSUME T # {} PROVE FALSE
  OBVIOUS
<1>1. PICK m \in T : \A k \in T : m <= k
  <2>1. T \subseteq Nat
    OBVIOUS
  <2> HIDE DEF T
  <2> QED
    BY <2>1, Least
<1> HIDE DEF T
<1>2. m \in Nat /\ ~(Len(EncodeVarint[m]) = TagGroups[m] /\ Len(EncodeVarint[m]) > 0)
  BY <1>1 DEF T
<1>3. \A k \in Nat : k < m => Len(EncodeVarint[k]) = TagGroups[k] /\ Len(EncodeVarint[k]) > 0
  BY <1>1, <1>2 DEF T
<1>4. CASE m >= Base
  <2>1. m \div Base \in Nat /\ m \div Base < m
    BY <1>2, <1>4, Smaller
  <2>2. PICK s \in Text : s = EncodeVarint[m \div Base]
    BY <2>1, EncodeVarintIs
  <2>3. Len(s) = TagGroups[m \div Base] /\ Len(s) > 0 /\ Len(s) \in Nat
    BY <1>3, <2>1, <2>2 DEF Text
  <2>4. EncodeVarint[m] = <<Base + (m % Base)>> \o s /\ Base + (m % Base) \in Byte
    BY <1>2, <1>4, <2>2, EncodeVarintIs, DigitIs
  <2>5. Len(EncodeVarint[m]) = 1 + Len(s)
    BY <2>2, <2>4 DEF Text
  <2>6. TagGroups[m] = 1 + TagGroups[m \div Base]
    BY <1>2, <1>4, TagGroupsIs
  <2> QED
    BY <1>2, <2>3, <2>5, <2>6
<1>5. CASE ~(m >= Base)
  <2>1. EncodeVarint[m] = <<m>> /\ TagGroups[m] = 1
    BY <1>2, <1>5, EncodeVarintIs, TagGroupsIs
  <2> QED
    BY <1>2, <2>1
<1> QED
  BY <1>4, <1>5

LEMMA TagIs ==
  ASSUME ProtoAssumption, NEW field \in Nat
  PROVE  /\ EncodeTag(field, LengthDelimited) \in Text
         /\ Len(EncodeTag(field, LengthDelimited)) = VarintTagLen(field)
         /\ VarintTagLen(field) \in Nat \ {0}
<1>1. 8 * field + 2 \in Nat
  OBVIOUS
<1>2. EncodeVarint[8 * field + 2] \in Text
  BY <1>1, EncodeVarintIs
<1>3. Len(EncodeVarint[8 * field + 2]) = TagGroups[8 * field + 2] /\ Len(EncodeVarint[8 * field + 2]) > 0
  BY <1>1, GroupsCount
<1> QED
  BY <1>2, <1>3 DEF EncodeTag, VarintTagLen, LengthDelimited, Text

-----------------------------------------------------------------------------
(***************************************************************************)
(* What the writers write.                                                 *)
(***************************************************************************)
LEMMA TagText ==
  ASSUME ProtoAssumption, NEW field \in Nat, NEW wire \in Nat
  PROVE  EncodeTag(field, wire) \in Text
  BY EncodeVarintIs DEF EncodeTag

LEMMA JoinedText == ASSUME NEW a \in Text, NEW b \in Text PROVE a \o b \in Text
  BY DEF Text

LEMMA JoinIs ==
  ASSUME NEW a \in Text, NEW b \in Text
  PROVE  /\ a \o b \in Text /\ Len(a) \in Nat /\ Len(b) \in Nat /\ Len(a \o b) = Len(a) + Len(b)
  BY DEF Text

LEMMA JoinAssociates ==
  ASSUME NEW a \in Text, NEW b \in Text, NEW c \in Text
  PROVE  Associates(a, b, c)
  BY SeqsAssociate DEF Text

LEMMA LittleEndianIs == ASSUME ProtoAssumption, NEW n \in Nat PROVE LittleEndian(n) \in Text
<1>1. FixedBytes \in Nat
  BY DEF ProtoAssumption
<1>2. ASSUME NEW i \in 1..FixedBytes PROVE (n \div BytePower[i - 1]) % (2 * Base) \in Byte
  <2>1. BytePower[i - 1] \in Nat \ {0}
    BY BytePowerIs
  <2>2. n \div BytePower[i - 1] \in Int
    BY <2>1
  <2> QED
    BY <2>2, DigitIs
<1> QED
  BY <1>1, <1>2 DEF LittleEndian, Text

LEMMA NumbersAreText ==
  ASSUME ProtoAssumption, NEW field \in Nat, NEW n \in Nat
  PROVE  /\ EncodeVarintFieldAlways(field, n) \in Text /\ EncodeVarintField(field, n) \in Text
         /\ EncodeFixed64FieldAlways(field, n) \in Text /\ EncodeFixed64Field(field, n) \in Text
<1>1. <<>> \in Text
  BY DEF Text
<1>2. EncodeTag(field, 0) \in Text /\ EncodeTag(field, 1) \in Text
  BY TagText
<1>3. EncodeVarint[n] \in Text /\ LittleEndian(n) \in Text
  BY EncodeVarintIs, LittleEndianIs
<1> QED
  BY <1>1, <1>2, <1>3, JoinedText
     DEF EncodeVarintFieldAlways, EncodeVarintField, EncodeFixed64FieldAlways, EncodeFixed64Field,
         Varint, Fixed64

LEMMA BytesAreText ==
  ASSUME ProtoAssumption, NEW field \in Nat, NEW s \in Text
  PROVE  EncodeBytesField(field, s) \in Text
<1>1. <<>> \in Text /\ Len(s) \in Nat
  BY DEF Text
<1>2. EncodeTag(field, 2) \in Text /\ EncodeVarint[Len(s)] \in Text
  BY <1>1, TagText, EncodeVarintIs
<1> QED
  BY <1>1, <1>2, JoinedText DEF EncodeBytesField, LengthDelimited

LEMMA WordsAre ==
  ASSUME ProtoAssumption
  PROVE  U64 \subseteq Nat /\ I64 \subseteq Int /\ \A n \in Int : AsU64(n) \in Nat
<1>1. Words \in Nat \ {0}
  BY BytePowerIs DEF Words, ProtoAssumption
<1> QED
  BY <1>1 DEF U64, I64, AsU64

-----------------------------------------------------------------------------
(***************************************************************************)
(* What a sequence of writes is written to with a buffer for each message. *)
(***************************************************************************)
\* Writes with messages of these in them.
Nested(W) == Plain \cup [field : Nat \ {0}, bytes : {<<>>}, body : Seq(W)]

LEMMA WritesIs ==
  Writes[0] = Plain /\ \A d \in Nat : Writes[d + 1] = Nested(Writes[d])
<1> DEFINE Upto(n, f) == \A k \in 0..n : f[k] = IF k = 0 THEN Plain ELSE Nested(f[k - 1])
           Made == {n \in Nat : \E f : Upto(n, f)}
<1>1. ASSUME NEW n \in Nat, NEW f, NEW g, Upto(n, f), Upto(n + 1, g) PROVE f[n] = g[n]
  <2> DEFINE Same == {k \in Nat : k <= n => f[k] = g[k]}
  <2>1. 0 \in Same
    BY <1>1
  <2>2. ASSUME NEW k \in Nat, k \in Same PROVE k + 1 \in Same
    <3>1. CASE k + 1 <= n
      <4>1. f[k] = g[k] /\ f[k + 1] = Nested(f[k]) /\ g[k + 1] = Nested(g[k])
        BY <1>1, <2>2, <3>1
      <4> QED
        BY <4>1
    <3> QED
      BY <3>1
  <2>3. Nat \subseteq Same
    <3> HIDE DEF Same
    <3> QED
      BY <2>1, <2>2, InductionOverSets
  <2> QED
    BY <2>3
<1>2. \A n \in Nat : \E f : Upto(n, f)
  <2>1. 0 \in Made
    <3>1. Upto(0, [k \in 0..0 |-> Plain])
      OBVIOUS
    <3> HIDE DEF Upto
    <3> QED
      BY <3>1
  <2>2. ASSUME NEW n \in Nat, n \in Made PROVE n + 1 \in Made
    <3>1. PICK f : Upto(n, f)
      BY <2>2
    <3> DEFINE g == [k \in 0..(n + 1) |-> IF k <= n THEN f[k] ELSE Nested(f[n])]
    <3>2. \A k \in 0..n : g[k] = f[k]
      OBVIOUS
    <3>3. g[n + 1] = Nested(g[n])
      OBVIOUS
    <3> HIDE DEF g
    <3>4. Upto(n + 1, g)
      <4> SUFFICES ASSUME NEW k \in 0..(n + 1)
                   PROVE  g[k] = IF k = 0 THEN Plain ELSE Nested(g[k - 1])
        OBVIOUS
      <4>1. CASE k = n + 1
        BY <3>3, <4>1
      <4>2. CASE k # n + 1
        <5>1. k \in 0..n /\ (k # 0 => k - 1 \in 0..n)
          BY <4>2
        <5> QED
          BY <3>1, <3>2, <5>1
      <4> QED
        BY <4>1, <4>2
    <3> HIDE DEF Upto
    <3> QED
      BY <3>4
  <2> HIDE DEF Upto
  <2>3. Nat \subseteq Made
    <3> HIDE DEF Made
    <3> QED
      BY <2>1, <2>2, InductionOverSets
  <2> QED
    BY <2>3
<1> DEFINE G == [n \in Nat |-> CHOOSE f : Upto(n, f)]
           h == [n \in Nat |-> G[n][n]]
<1>3. \A n \in Nat : Upto(n, G[n])
  <2> HIDE DEF Upto
  <2> QED
    BY <1>2
<1> HIDE DEF G
<1>4. ASSUME NEW n \in Nat PROVE h[n] = IF n = 0 THEN Plain ELSE Nested(h[n - 1])
  <2>1. G[n][n] = IF n = 0 THEN Plain ELSE Nested(G[n][n - 1])
    BY <1>3
  <2>2. CASE n # 0
    <3>1. PICK m \in Nat : n = m + 1
      <4>1. n - 1 \in Nat /\ n = (n - 1) + 1
        BY <2>2
      <4> QED
        BY <4>1
    <3>2. Upto(m, G[m]) /\ Upto(m + 1, G[n])
      BY <1>3, <3>1
    <3> HIDE DEF Upto
    <3>3. G[m][m] = G[n][m]
      BY <1>1, <3>2
    <3> QED
      BY <2>1, <2>2, <3>1, <3>3
  <2> QED
    BY <2>1, <2>2
<1> HIDE DEF h
<1>5. h = [n \in Nat |-> IF n = 0 THEN Plain ELSE Nested(h[n - 1])]
  <2>1. h = [n \in Nat |-> h[n]]
    BY DEF h
  <2> QED
    BY <2>1, <1>4
<1>6. h = [n \in Nat |-> IF n = 0 THEN Plain
                         ELSE Plain \cup [field : Nat \ {0}, bytes : {<<>>}, body : Seq(h[n - 1])]]
  BY <1>5, Zenon DEF Nested
<1>7. Writes = [n \in Nat |-> IF n = 0 THEN Plain
                              ELSE Plain \cup [field : Nat \ {0}, bytes : {<<>>}, body : Seq(Writes[n - 1])]]
  BY <1>6, Zenon DEF Writes
<1>8. Writes = [n \in Nat |-> IF n = 0 THEN Plain ELSE Nested(Writes[n - 1])]
  BY <1>7, Zenon DEF Nested
<1> HIDE DEF Writes
<1>9. ASSUME NEW d \in Nat PROVE Writes[d + 1] = Nested(Writes[d])
  <2>1. d + 1 \in Nat /\ d + 1 # 0 /\ (d + 1) - 1 = d
    OBVIOUS
  <2> QED
    BY <1>8, <2>1
<1> QED
  BY <1>8, <1>9

\* The bytes of a write at a depth, with inner for the bodies of messages, and
\* those of all writes.
Piece(x, inner) == IF x.field = 0 THEN x.bytes ELSE EncodeBytesField(x.field, inner[x.body])
Pieces(writes, inner) == [i \in DOMAIN writes |-> Piece(writes[i], inner)]
Joined(d, inner) == [writes \in Seq(Writes[d]) |-> FlattenSeq(Pieces(writes, inner))]

LEMMA PlainIs ==
  ASSUME NEW x \in Writes[0]
  PROVE  x.field = 0
  BY WritesIs DEF Plain

\* Without messages it does not matter what their bodies would be.
LEMMA JoinedPlain == ASSUME NEW a, NEW b PROVE Joined(0, a) = Joined(0, b)
<1>1. ASSUME NEW writes \in Seq(Writes[0]) PROVE Pieces(writes, a) = Pieces(writes, b)
  <2>1. ASSUME NEW i \in DOMAIN writes PROVE Piece(writes[i], a) = Piece(writes[i], b)
    <3>1. writes[i] \in Writes[0]
      OBVIOUS
    <3> QED
      BY <3>1, PlainIs DEF Piece
  <2> QED
    BY <2>1 DEF Pieces
<1> QED
  BY <1>1 DEF Joined

LEMMA AllocatingIs ==
  \A d \in Nat : Allocating[d] = Joined(d, Allocating[d - 1])
<1> DEFINE Upto(n, f) == \A k \in 0..n : f[k] = IF k = 0 THEN Joined(0, <<>>) ELSE Joined(k, f[k - 1])
           Made == {n \in Nat : \E f : Upto(n, f)}
<1>1. ASSUME NEW n \in Nat, NEW f, NEW g, Upto(n, f), Upto(n + 1, g) PROVE f[n] = g[n]
  <2> DEFINE Same == {k \in Nat : k <= n => f[k] = g[k]}
  <2>1. 0 \in Same
    BY <1>1
  <2>2. ASSUME NEW k \in Nat, k \in Same PROVE k + 1 \in Same
    <3>1. CASE k + 1 <= n
      <4>1. f[k] = g[k] /\ f[k + 1] = Joined(k + 1, f[k]) /\ g[k + 1] = Joined(k + 1, g[k])
        BY <1>1, <2>2, <3>1
      <4> QED
        BY <4>1
    <3> QED
      BY <3>1
  <2>3. Nat \subseteq Same
    <3> HIDE DEF Same
    <3> QED
      BY <2>1, <2>2, InductionOverSets
  <2> QED
    BY <2>3
<1>2. \A n \in Nat : \E f : Upto(n, f)
  <2>1. 0 \in Made
    <3>1. Upto(0, [k \in 0..0 |-> Joined(0, <<>>)])
      OBVIOUS
    <3> HIDE DEF Upto
    <3> QED
      BY <3>1
  <2>2. ASSUME NEW n \in Nat, n \in Made PROVE n + 1 \in Made
    <3>1. PICK f : Upto(n, f)
      BY <2>2
    <3> DEFINE g == [k \in 0..(n + 1) |-> IF k <= n THEN f[k] ELSE Joined(n + 1, f[n])]
    <3>2. \A k \in 0..n : g[k] = f[k]
      OBVIOUS
    <3>3. g[n + 1] = Joined(n + 1, g[n])
      OBVIOUS
    <3> HIDE DEF g
    <3>4. Upto(n + 1, g)
      <4> SUFFICES ASSUME NEW k \in 0..(n + 1)
                   PROVE  g[k] = IF k = 0 THEN Joined(0, <<>>) ELSE Joined(k, g[k - 1])
        OBVIOUS
      <4>1. CASE k = n + 1
        BY <3>3, <4>1
      <4>2. CASE k # n + 1
        <5>1. k \in 0..n /\ (k # 0 => k - 1 \in 0..n)
          BY <4>2
        <5> QED
          BY <3>1, <3>2, <5>1
      <4> QED
        BY <4>1, <4>2
    <3> HIDE DEF Upto
    <3> QED
      BY <3>4
  <2> HIDE DEF Upto
  <2>3. Nat \subseteq Made
    <3> HIDE DEF Made
    <3> QED
      BY <2>1, <2>2, InductionOverSets
  <2> QED
    BY <2>3
<1> DEFINE G == [n \in Nat |-> CHOOSE f : Upto(n, f)]
           h == [n \in Nat |-> G[n][n]]
<1>3. \A n \in Nat : Upto(n, G[n])
  <2> HIDE DEF Upto
  <2> QED
    BY <1>2
<1> HIDE DEF G
<1>4. ASSUME NEW n \in Nat PROVE h[n] = IF n = 0 THEN Joined(0, <<>>) ELSE Joined(n, h[n - 1])
  <2>1. G[n][n] = IF n = 0 THEN Joined(0, <<>>) ELSE Joined(n, G[n][n - 1])
    BY <1>3
  <2>2. CASE n # 0
    <3>1. PICK m \in Nat : n = m + 1
      <4>1. n - 1 \in Nat /\ n = (n - 1) + 1
        BY <2>2
      <4> QED
        BY <4>1
    <3>2. Upto(m, G[m]) /\ Upto(m + 1, G[n])
      BY <1>3, <3>1
    <3> HIDE DEF Upto
    <3>3. G[m][m] = G[n][m]
      BY <1>1, <3>2
    <3> QED
      BY <2>1, <2>2, <3>1, <3>3
  <2> QED
    BY <2>1, <2>2
<1> HIDE DEF h
<1>5. h = [n \in Nat |-> Joined(n, h[n - 1])]
  <2>1. h = [n \in Nat |-> h[n]]
    BY DEF h
  <2>2. ASSUME NEW n \in Nat PROVE h[n] = Joined(n, h[n - 1])
    BY <1>4, JoinedPlain
  <2> QED
    BY <2>1, <2>2
<1>6. h = [n \in Nat |->
            [writes \in Seq(Writes[n]) |->
               FlattenSeq([i \in DOMAIN writes |->
                 IF writes[i].field = 0 THEN writes[i].bytes
                 ELSE EncodeBytesField(writes[i].field, h[n - 1][writes[i].body])])]]
  BY <1>5, Zenon DEF Joined, Pieces, Piece
<1>7. Allocating = [n \in Nat |->
            [writes \in Seq(Writes[n]) |->
               FlattenSeq([i \in DOMAIN writes |->
                 IF writes[i].field = 0 THEN writes[i].bytes
                 ELSE EncodeBytesField(writes[i].field, Allocating[n - 1][writes[i].body])])]]
  BY <1>6, Zenon DEF Allocating
<1>8. Allocating = [n \in Nat |-> Joined(n, Allocating[n - 1])]
  BY <1>7, Zenon DEF Joined, Pieces, Piece
<1> HIDE DEF Allocating
<1> QED
  BY <1>8

LEMMA BodyIs ==
  ASSUME NEW d \in Nat, NEW x \in Writes[d]
  PROVE  \/ x.field = 0 /\ x.bytes \in Text
         \/ /\ x.field \in Nat \ {0} /\ d > 0 /\ d - 1 \in Nat /\ x.body \in Seq(Writes[d - 1])
<1>1. CASE d = 0
  BY <1>1, WritesIs DEF Plain
<1>2. CASE d > 0
  <2>1. PICK e \in Nat : d = e + 1 /\ e = d - 1
    <3>1. d - 1 \in Nat /\ d = (d - 1) + 1
      BY <1>2
    <3> QED
      BY <3>1
  <2>2. x \in Nested(Writes[e])
    BY <2>1, WritesIs
  <2> QED
    BY <1>2, <2>1, <2>2 DEF Nested, Plain
<1> QED
  BY <1>1, <1>2

LEMMA TextConcatenates == Concatenates(Text) /\ <<>> \in Text
  BY DEF Concatenates, Text

LEMMA PiecesText ==
  ASSUME ProtoAssumption, NEW d \in Nat,
         d > 0 => \A w \in Seq(Writes[d - 1]) : Allocating[d - 1][w] \in Text
  PROVE  \A x \in Writes[d] : Piece(x, Allocating[d - 1]) \in Text
<1> SUFFICES ASSUME NEW x \in Writes[d] PROVE Piece(x, Allocating[d - 1]) \in Text
  OBVIOUS
<1>1. CASE x.field = 0 /\ x.bytes \in Text
  BY <1>1 DEF Piece
<1>2. CASE x.field \in Nat \ {0} /\ d > 0 /\ d - 1 \in Nat /\ x.body \in Seq(Writes[d - 1])
  <2>1. Allocating[d - 1][x.body] \in Text /\ x.field \in Nat /\ x.field # 0
    BY <1>2
  <2>2. EncodeBytesField(x.field, Allocating[d - 1][x.body]) \in Text
    BY <2>1, BytesAreText
  <2> QED
    BY <2>1, <2>2 DEF Piece
<1> QED
  BY <1>1, <1>2, BodyIs

LEMMA Appending ==
  ASSUME NEW T, NEW p \in Seq(T), NEW y \in T, NEW n \in Nat, Len(p) = n
  PROVE  Append(p, y) = [i \in 1..(n + 1) |-> IF i = n + 1 THEN y ELSE p[i]]
<1> DEFINE q == Append(p, y)
<1> DEFINE r == [i \in 1..(n + 1) |-> IF i = n + 1 THEN y ELSE p[i]]
<1>1. q \in Seq(T) /\ Len(q) = n + 1 /\ q[n + 1] = y
  OBVIOUS
<1>2. \A i \in 1..n : q[i] = p[i] /\ p[i] \in T
  OBVIOUS
<1>3. r \in Seq(T) /\ Len(r) = n + 1
  <2>1. r \in [1..(n + 1) -> T]
    BY <1>2
  <2>2. n + 1 \in Nat
    OBVIOUS
  <2> HIDE DEF r
  <2> QED
    BY <2>1, <2>2
<1>4. \A i \in 1..(n + 1) : q[i] = r[i]
  BY <1>1, <1>2
<1> HIDE DEF q, r
<1>5. q = r
  BY <1>1, <1>3, <1>4
<1> QED
  BY <1>5 DEF q, r

LEMMA PiecesAre ==
  ASSUME NEW d, NEW inner, NEW T, \A x \in Writes[d] : Piece(x, inner) \in T,
         NEW w \in Seq(Writes[d]), NEW x \in Writes[d]
  PROVE  /\ Pieces(w, inner) \in Seq(T)
         /\ Pieces(Append(w, x), inner) = Append(Pieces(w, inner), Piece(x, inner))
         /\ Pieces(<<>>, inner) = <<>>
<1> PICK W : W = Writes[d]
  OBVIOUS
<1>1. PICK n \in Nat : n = Len(w) /\ DOMAIN w = 1..n
  OBVIOUS
<1>2. /\ Append(w, x) \in Seq(W) /\ DOMAIN Append(w, x) = 1..(n + 1) /\ Append(w, x)[n + 1] = x
      /\ \A i \in 1..n : Append(w, x)[i] = w[i]
  BY <1>1
<1>3. Pieces(w, inner) = [i \in 1..n |-> Piece(w[i], inner)]
  BY <1>1 DEF Pieces
<1>4. \A i \in 1..n : w[i] \in Writes[d]
  BY <1>1
<1>5. Pieces(w, inner) \in Seq(T)
  BY <1>3, <1>4
<1>6. Pieces(Append(w, x), inner) = [i \in 1..(n + 1) |-> Piece(Append(w, x)[i], inner)]
  BY <1>2 DEF Pieces
<1>7. PICK p \in Seq(T) : p = Pieces(w, inner)
  BY <1>5
<1>8. Len(p) = n /\ \A i \in 1..n : p[i] = Piece(w[i], inner)
  BY <1>3, <1>7
<1>9. Pieces(Append(w, x), inner) = Append(p, Piece(x, inner))
  <2>1. PICK y \in T : y = Piece(x, inner)
    OBVIOUS
  <2>2. Append(p, y) = [i \in 1..(n + 1) |-> IF i = n + 1 THEN y ELSE p[i]]
    BY ONLY p \in Seq(T), y \in T, n \in Nat, <1>8, Appending
  <2>3. ASSUME NEW i \in 1..(n + 1)
        PROVE  Piece(Append(w, x)[i], inner) = IF i = n + 1 THEN y ELSE p[i]
    <3>1. i = n + 1 \/ (i \in 1..n /\ i # n + 1)
      OBVIOUS
    <3> QED
      BY <1>2, <1>8, <2>1, <3>1
  <2> QED
    BY <1>6, <2>1, <2>2, <2>3
<1>10. Pieces(<<>>, inner) = <<>>
  BY DEF Pieces
<1> QED
  BY <1>5, <1>7, <1>9, <1>10

\* What a message is written to: nothing for no writes, and write after write.
LEMMA AllocatingText ==
  ASSUME ProtoAssumption
  PROVE  \A d \in Nat : \A w \in Seq(Writes[d]) : Allocating[d][w] \in Text
<1> DEFINE P == {d \in Nat : \A w \in Seq(Writes[d]) : Allocating[d][w] \in Text}
<1>1. ASSUME NEW d \in Nat, d > 0 => d - 1 \in P PROVE d \in P
  <2>1. \A x \in Writes[d] : Piece(x, Allocating[d - 1]) \in Text
    BY <1>1, PiecesText
  <2>2. ASSUME NEW w \in Seq(Writes[d]) PROVE Allocating[d][w] \in Text
    <3>1. Allocating[d][w] = FlattenSeq(Pieces(w, Allocating[d - 1]))
      BY AllocatingIs DEF Joined
    <3>2. Pieces(w, Allocating[d - 1]) \in Seq(Text)
      <4>1. \A i \in DOMAIN w : Piece(w[i], Allocating[d - 1]) \in Text
        BY <2>1
      <4> HIDE DEF P
      <4> QED
        BY <4>1 DEF Pieces
    <3> QED
      BY <3>1, <3>2, FlattenText, TextConcatenates
  <2> QED
    BY <2>2
<1>2. 0 \in P
  BY <1>1
<1>3. ASSUME NEW n \in Nat, n \in P PROVE n + 1 \in P
  <2>1. (n + 1) - 1 \in P /\ n + 1 \in Nat
    BY <1>3
  <2> HIDE DEF P
  <2> QED
    BY <1>1, <2>1
<1>4. Nat \subseteq P
  <2> HIDE DEF P
  <2> QED
    BY <1>2, <1>3, InductionOverSets
<1> QED
  BY <1>4

LEMMA AllocatingAdds ==
  ASSUME ProtoAssumption, NEW d \in Nat, NEW w \in Seq(Writes[d]), NEW x \in Writes[d]
  PROVE  /\ Allocating[d][<<>>] = <<>>
         /\ Allocating[d][Append(w, x)] = Allocating[d][w] \o Piece(x, Allocating[d - 1])
         /\ Piece(x, Allocating[d - 1]) \in Text
<1>1. \A y \in Writes[d] : Piece(y, Allocating[d - 1]) \in Text
  BY AllocatingText, PiecesText
<1> PICK inner : inner = Allocating[d - 1]
  OBVIOUS
<1>2. PICK p \in Seq(Text) : p = Pieces(w, inner)
  BY <1>1, PiecesAre
<1>3. Pieces(Append(w, x), inner) = Append(p, Piece(x, inner)) /\ Pieces(<<>>, inner) = <<>>
  <2>1. \A y \in Writes[d] : Piece(y, inner) \in Text
    BY <1>1
  <2>2. /\ Pieces(Append(w, x), inner) = Append(Pieces(w, inner), Piece(x, inner))
        /\ Pieces(<<>>, inner) = <<>>
    BY ONLY <2>1, w \in Seq(Writes[d]), x \in Writes[d], PiecesAre
  <2> QED
    BY <1>2, <2>2
<1>4. \A v \in Seq(Writes[d]) : Allocating[d][v] = FlattenSeq(Pieces(v, inner))
  BY AllocatingIs DEF Joined
<1>5. Append(w, x) \in Seq(Writes[d]) /\ <<>> \in Seq(Writes[d])
  OBVIOUS
<1>6. FlattenSeq(Append(p, Piece(x, inner))) = FlattenSeq(p) \o Piece(x, inner)
  <2>1. Piece(x, inner) \in Text /\ Piece(x, inner) \in Seq(Byte)
    BY <1>1 DEF Text
  <2> QED
    BY <1>2, <2>1, FlattenAdds, TextConcatenates
<1> QED
  BY <1>1, <1>2, <1>3, <1>4, <1>5, <1>6, FlattenEmpty

-----------------------------------------------------------------------------
(***************************************************************************)
(* The writes of the encoders, message in message.                         *)
(***************************************************************************)
LEMMA Nesting ==
  ASSUME NEW W, NEW V, W \subseteq V
  PROVE  Plain \subseteq Nested(W) /\ Nested(W) \subseteq Nested(V) /\ Seq(W) \subseteq Seq(V)
<1>1. Seq(W) \subseteq Seq(V)
  OBVIOUS
<1> QED
  BY <1>1 DEF Nested

LEMMA BytesAre ==
  ASSUME NEW s \in Text, NEW W
  PROVE  Bytes(s) \in Plain /\ Bytes(s) \in Nested(W)
<1>1. <<>> \in {<<>>}
  OBVIOUS
<1> QED
  BY <1>1 DEF Bytes, Plain, Nested

LEMMA MessageIs ==
  ASSUME NEW W, NEW f \in Nat, f # 0, NEW body \in Seq(W)
  PROVE  Message(f, body) \in Nested(W)
  BY DEF Message, Nested

LEMMA SingleIs == ASSUME NEW W, NEW x \in W PROVE <<x>> \in Seq(W)
  OBVIOUS

LEMMA PairIs == ASSUME NEW W, NEW x \in W, NEW y \in W PROVE <<x, y>> \in Seq(W)
  OBVIOUS

LEMMA JoinedIs == ASSUME NEW W, NEW a \in Seq(W), NEW b \in Seq(W) PROVE a \o b \in Seq(W)
  OBVIOUS

LEMMA MessagesAre ==
  ASSUME NEW T, NEW items \in Seq(T), NEW V, NEW q, DOMAIN q = DOMAIN items,
         q = [i \in DOMAIN items |-> q[i]], \A i \in DOMAIN items : q[i] \in V
  PROVE  q \in Seq(V)
<1>1. PICK n \in Nat : n = Len(items) /\ DOMAIN items = 1..n
  OBVIOUS
<1>2. q \in [1..n -> V]
  BY <1>1
<1> QED
  BY <1>2

\* The depths of messages.
W0 == Plain
W1 == Nested(W0)
W2 == Nested(W1)
W3 == Nested(W2)
W4 == Nested(W3)
W5 == Nested(W4)
W6 == Nested(W5)

LEMMA Depths ==
  /\ W0 \subseteq W1 /\ W1 \subseteq W2 /\ W2 \subseteq W3 /\ W3 \subseteq W4
  /\ Writes[7] = Nested(W6)
<1>1. W0 \subseteq W1
  BY Nesting DEF W0, W1
<1>2. W1 \subseteq W2
  BY <1>1, Nesting DEF W1, W2
<1>3. W2 \subseteq W3
  BY <1>2, Nesting DEF W2, W3
<1>4. W3 \subseteq W4
  BY <1>3, Nesting DEF W3, W4
<1>5. Writes[7] = Nested(W6)
  <2>1. /\ Writes[0] = Plain /\ Writes[1] = Nested(Writes[0]) /\ Writes[2] = Nested(Writes[1])
        /\ Writes[3] = Nested(Writes[2]) /\ Writes[4] = Nested(Writes[3])
        /\ Writes[5] = Nested(Writes[4]) /\ Writes[6] = Nested(Writes[5])
        /\ Writes[7] = Nested(Writes[6])
    <3>1. /\ Writes[0 + 1] = Nested(Writes[0]) /\ Writes[1 + 1] = Nested(Writes[1])
          /\ Writes[2 + 1] = Nested(Writes[2]) /\ Writes[3 + 1] = Nested(Writes[3])
          /\ Writes[4 + 1] = Nested(Writes[4]) /\ Writes[5 + 1] = Nested(Writes[5])
          /\ Writes[6 + 1] = Nested(Writes[6]) /\ Writes[0] = Plain
      BY WritesIs
    <3> QED
      BY <3>1
  <2> QED
    BY ONLY <2>1 DEF W0, W1, W2, W3, W4, W5, W6
<1> QED
  BY <1>1, <1>2, <1>3, <1>4, <1>5

LEMMA AnyValueIs ==
  ASSUME ProtoAssumption, NEW v \in AnyValue
  PROVE  EncodeAnyValue(v) \in Plain
<1> USE DEF ProtoAssumption
<1>1. CASE v \in [kind : {"string", "bytes"}, value : Text]
  <2>1. EncodeBytesField(1, v.value) \in Text /\ EncodeBytesField(7, v.value) \in Text
    BY <1>1, BytesAreText
  <2> QED
    BY <1>1, <2>1, BytesAre DEF EncodeAnyValue
<1>2. CASE v \in [kind : {"int"}, value : I64]
  <2>1. AsU64(v.value) \in Nat
    BY <1>2, WordsAre
  <2>2. EncodeVarintFieldAlways(3, AsU64(v.value)) \in Text
    BY <2>1, NumbersAreText
  <2> QED
    BY <1>2, <2>2, BytesAre DEF EncodeAnyValue
<1>3. CASE v \in [kind : {"bool"}, value : {0, 1}]
  <2>1. EncodeVarintFieldAlways(2, v.value) \in Text
    BY <1>3, NumbersAreText
  <2> QED
    BY <1>3, <2>1, BytesAre DEF EncodeAnyValue
<1>4. CASE v \in [kind : {"double"}, value : U64]
  <2>1. v.value \in Nat
    BY <1>4, WordsAre
  <2>2. EncodeFixed64FieldAlways(4, v.value) \in Text
    BY <2>1, NumbersAreText
  <2> QED
    BY <1>4, <2>2, BytesAre DEF EncodeAnyValue
<1> QED
  BY <1>1, <1>2, <1>3, <1>4 DEF AnyValue

LEMMA KeyValueIs ==
  ASSUME ProtoAssumption, NEW kv \in KeyValue
  PROVE  EncodeKeyValue(kv) \in Seq(W1)
<1>1. kv.key \in Text /\ kv.value \in AnyValue
  BY DEF KeyValue
<1>2. EncodeAnyValue(kv.value) \in W0
  BY <1>1, AnyValueIs DEF W0
<1>3. Message(2, <<EncodeAnyValue(kv.value)>>) \in W1
  <2>1. PICK body \in Seq(W0) : body = <<EncodeAnyValue(kv.value)>>
    BY <1>2, SingleIs
  <2>2. Message(2, body) \in W1
    BY MessageIs DEF W1
  <2> QED
    BY <2>1, <2>2
<1>4. Bytes(EncodeBytesField(1, kv.key)) \in W1
  BY <1>1, BytesAreText, BytesAre DEF W1
<1> QED
  BY <1>3, <1>4 DEF EncodeKeyValue

\* Attributes are messages of one depth more.
LEMMA KeyValuesAre ==
  ASSUME ProtoAssumption, NEW kvs \in Seq(KeyValue), NEW f \in Nat, f # 0
  PROVE  Messages(f, EncodeKeyValue, kvs) \in Seq(W2)
<1>1. ASSUME NEW i \in DOMAIN kvs PROVE Message(f, EncodeKeyValue(kvs[i])) \in W2
  <2>1. kvs[i] \in KeyValue
    OBVIOUS
  <2>2. EncodeKeyValue(kvs[i]) \in Seq(W1)
    BY <2>1, KeyValueIs
  <2> QED
    BY <2>2, MessageIs DEF W2
<1>2. PICK q : q = [i \in DOMAIN kvs |-> Message(f, EncodeKeyValue(kvs[i]))]
  OBVIOUS
<1>3. DOMAIN q = DOMAIN kvs /\ q = [i \in DOMAIN kvs |-> q[i]] /\ \A i \in DOMAIN kvs : q[i] \in W2
  BY <1>1, <1>2
<1>4. q \in Seq(W2)
  BY ONLY <1>3, kvs \in Seq(KeyValue), MessagesAre
<1> QED
  BY <1>2, <1>4 DEF Messages

LEMMA StatusIs ==
  ASSUME ProtoAssumption, NEW s \in SpanStatus
  PROVE  EncodeStatus(s) \in Seq(W0)
<1>1. s.message \in Text /\ s.code \in Nat
  BY DEF SpanStatus
<1>2. /\ Bytes(EncodeBytesField(2, s.message)) \in W0
      /\ Bytes(EncodeVarintField(3, s.code)) \in W0
  BY <1>1, BytesAreText, NumbersAreText, BytesAre DEF W0
<1> QED
  BY <1>2 DEF EncodeStatus

LEMMA StatusesAre ==
  ASSUME ProtoAssumption, NEW ss \in Seq(SpanStatus), NEW f \in Nat, f # 0
  PROVE  Messages(f, EncodeStatus, ss) \in Seq(W1)
<1>1. ASSUME NEW i \in DOMAIN ss PROVE Message(f, EncodeStatus(ss[i])) \in W1
  <2>1. ss[i] \in SpanStatus
    OBVIOUS
  <2>2. EncodeStatus(ss[i]) \in Seq(W0)
    BY <2>1, StatusIs
  <2> QED
    BY <2>2, MessageIs DEF W1
<1>2. PICK q : q = [i \in DOMAIN ss |-> Message(f, EncodeStatus(ss[i]))]
  OBVIOUS
<1>3. DOMAIN q = DOMAIN ss /\ q = [i \in DOMAIN ss |-> q[i]] /\ \A i \in DOMAIN ss : q[i] \in W1
  BY <1>1, <1>2
<1>4. q \in Seq(W1)
  BY ONLY <1>3, ss \in Seq(SpanStatus), MessagesAre
<1> QED
  BY <1>2, <1>4 DEF Messages

LEMMA SpanIs ==
  ASSUME ProtoAssumption, NEW span \in SpanData
  PROVE  EncodeSpan(span) \in Seq(W4)
<1>1. /\ span.trace_id \in Text /\ span.span_id \in Text /\ span.parent_span_id \in Text
      /\ span.name \in Text /\ span.kind \in Nat /\ span.start \in Nat /\ span.end \in Nat
      /\ span.attributes \in Seq(KeyValue) /\ span.status \in Seq(SpanStatus)
  <2>1. /\ span.trace_id \in Text /\ span.span_id \in Text /\ span.parent_span_id \in Text
        /\ span.name \in Text
    BY DEF SpanData, Id, OneOrMore
  <2>2. span.kind \in Nat /\ span.start \in U64 /\ span.end \in U64
    BY DEF SpanData
  <2>3. span.attributes \in Seq(KeyValue) /\ span.status \in Seq(SpanStatus)
    BY DEF SpanData
  <2> QED
    BY <2>1, <2>2, <2>3, WordsAre
<1>2. /\ Bytes(EncodeBytesField(1, span.trace_id)) \in W4
      /\ Bytes(EncodeBytesField(2, span.span_id)) \in W4
      /\ Bytes(EncodeBytesField(4, span.parent_span_id)) \in W4
      /\ Bytes(EncodeBytesField(5, span.name)) \in W4
  BY <1>1, BytesAreText, BytesAre DEF W4
<1>3. /\ Bytes(EncodeVarintField(6, span.kind)) \in W4
      /\ Bytes(EncodeFixed64Field(7, span.start)) \in W4
      /\ Bytes(EncodeFixed64Field(8, span.end)) \in W4
  BY <1>1, NumbersAreText, BytesAre DEF W4
<1>4. PICK a \in Seq(W4) : a = Messages(9, EncodeKeyValue, span.attributes)
  <2>1. Messages(9, EncodeKeyValue, span.attributes) \in Seq(W2)
    BY <1>1, KeyValuesAre
  <2> QED
    BY <2>1, Depths
<1>5. PICK b \in Seq(W4) : b = Messages(15, EncodeStatus, span.status)
  <2>1. Messages(15, EncodeStatus, span.status) \in Seq(W1)
    BY <1>1, StatusesAre
  <2> QED
    BY <2>1, Depths
<1> QED
  BY <1>2, <1>3, <1>4, <1>5 DEF EncodeSpan

LEMMA LogRecordIs ==
  ASSUME ProtoAssumption, NEW log \in LogData
  PROVE  EncodeLogRecord(log) \in Seq(W4)
<1>1. /\ log.time \in Nat /\ log.severity_number \in Nat /\ log.severity_text \in Text
      /\ log.body \in AnyValue /\ log.attributes \in Seq(KeyValue)
      /\ log.trace_id \in Text /\ log.span_id \in Text
  <2>1. log.severity_number \in {1, 5, 9, 13, 17, 21}
    BY DEF LogData
  <2>2. log.severity_number \in Nat
    BY ONLY <2>1
  <2> QED
    BY <2>2, WordsAre DEF LogData, Id, OneOrMore
<1>2. /\ Bytes(EncodeBytesField(3, log.severity_text)) \in W4
      /\ Bytes(EncodeBytesField(9, log.trace_id)) \in W4
      /\ Bytes(EncodeBytesField(10, log.span_id)) \in W4
  BY <1>1, BytesAreText, BytesAre DEF W4
<1>3. /\ Bytes(EncodeFixed64Field(1, log.time)) \in W4
      /\ Bytes(EncodeVarintField(2, log.severity_number)) \in W4
  BY <1>1, NumbersAreText, BytesAre DEF W4
<1>4. PICK a \in Seq(W4) : a = Messages(6, EncodeKeyValue, log.attributes)
  <2>1. Messages(6, EncodeKeyValue, log.attributes) \in Seq(W2)
    BY <1>1, KeyValuesAre
  <2> QED
    BY <2>1, Depths
<1>5. Message(5, <<EncodeAnyValue(log.body)>>) \in W4
  <2>1. EncodeAnyValue(log.body) \in W0
    BY <1>1, AnyValueIs DEF W0
  <2>2. PICK body \in Seq(W0) : body = <<EncodeAnyValue(log.body)>>
    BY <2>1, SingleIs
  <2>3. Message(5, body) \in W1
    BY MessageIs DEF W1
  <2> QED
    BY <2>2, <2>3, Depths
<1> QED
  BY <1>2, <1>3, <1>4, <1>5 DEF EncodeLogRecord

Pair == [key : Text, value : Text]

LEMMA AttrIs ==
  ASSUME ProtoAssumption, NEW attr \in Pair
  PROVE  EncodeAttrKeyValue(attr) \in Seq(W1)
<1>1. attr.key \in Text /\ attr.value \in Text
  BY DEF Pair
<1>2. Bytes(EncodeBytesField(1, attr.key)) \in W1
  BY <1>1, BytesAreText, BytesAre DEF W1
<1>3. Bytes(EncodeBytesField(1, attr.value)) \in W0
  BY <1>1, BytesAreText, BytesAre DEF W0
<1>4. PICK body \in Seq(W0) : body = <<Bytes(EncodeBytesField(1, attr.value))>>
  BY <1>3, SingleIs
<1>5. Message(2, body) \in W1
  BY MessageIs DEF W1
<1> QED
  BY <1>2, <1>4, <1>5 DEF EncodeAttrKeyValue

LEMMA AttrsAre ==
  ASSUME ProtoAssumption, NEW items \in Seq(Pair), NEW f \in Nat, f # 0
  PROVE  Messages(f, EncodeAttrKeyValue, items) \in Seq(W2)
<1>1. ASSUME NEW i \in DOMAIN items PROVE Message(f, EncodeAttrKeyValue(items[i])) \in W2
  <2>1. items[i] \in Pair
    OBVIOUS
  <2>2. EncodeAttrKeyValue(items[i]) \in Seq(W1)
    BY <2>1, AttrIs
  <2> QED
    BY <2>2, MessageIs DEF W2
<1>2. PICK q : q = [i \in DOMAIN items |-> Message(f, EncodeAttrKeyValue(items[i]))]
  OBVIOUS
<1>3. DOMAIN q = DOMAIN items /\ q = [i \in DOMAIN items |-> q[i]] /\ \A i \in DOMAIN items : q[i] \in W2
  BY <1>1, <1>2
<1>4. q \in Seq(W2)
  BY ONLY <1>3, items \in Seq(Pair), MessagesAre
<1> QED
  BY <1>2, <1>4 DEF Messages

LEMMA ExemplarIs ==
  ASSUME ProtoAssumption, NEW ex \in Exemplar
  PROVE  EncodeExemplar(ex) \in Seq(W0)
<1>1. /\ ex.time \in U64 /\ ex.span_id \in Text /\ ex.trace_id \in Text
      /\ (ex.kind = "double" /\ ex.value \in U64) \/ (ex.kind = "int" /\ ex.value \in I64)
  BY DEF Exemplar, ExemplarOf, Id, OneOrMore
<1>2. ex.time \in Nat /\ (ex.kind = "double" => ex.value \in Nat) /\ (ex.kind # "double" => AsU64(ex.value) \in Nat)
  BY <1>1, WordsAre
<1>3. /\ Bytes(EncodeBytesField(4, ex.span_id)) \in W0
      /\ Bytes(EncodeBytesField(5, ex.trace_id)) \in W0
      /\ Bytes(EncodeFixed64Field(2, ex.time)) \in W0
  BY <1>1, <1>2, BytesAreText, NumbersAreText, BytesAre DEF W0
<1>4. PICK v \in W0 : v = Bytes(IF ex.kind = "double" THEN EncodeFixed64FieldAlways(3, ex.value)
                                ELSE EncodeFixed64FieldAlways(6, AsU64(ex.value)))
  <2>1. (IF ex.kind = "double" THEN EncodeFixed64FieldAlways(3, ex.value)
         ELSE EncodeFixed64FieldAlways(6, AsU64(ex.value))) \in Text
    BY <1>2, NumbersAreText
  <2> QED
    BY <2>1, BytesAre DEF W0
<1> QED
  BY <1>3, <1>4 DEF EncodeExemplar

LEMMA ExemplarsAre ==
  ASSUME ProtoAssumption, NEW items \in Seq(Exemplar), NEW f \in Nat, f # 0
  PROVE  Messages(f, EncodeExemplar, items) \in Seq(W1)
<1>1. ASSUME NEW i \in DOMAIN items PROVE Message(f, EncodeExemplar(items[i])) \in W1
  <2>1. items[i] \in Exemplar
    OBVIOUS
  <2>2. EncodeExemplar(items[i]) \in Seq(W0)
    BY <2>1, ExemplarIs
  <2> QED
    BY <2>2, MessageIs DEF W1
<1>2. PICK q : q = [i \in DOMAIN items |-> Message(f, EncodeExemplar(items[i]))]
  OBVIOUS
<1>3. DOMAIN q = DOMAIN items /\ q = [i \in DOMAIN items |-> q[i]] /\ \A i \in DOMAIN items : q[i] \in W1
  BY <1>1, <1>2
<1>4. q \in Seq(W1)
  BY ONLY <1>3, items \in Seq(Exemplar), MessagesAre
<1> QED
  BY <1>2, <1>4 DEF Messages

LEMMA TimesAre ==
  ASSUME ProtoAssumption, NEW start \in Nat, NEW time \in Nat
  PROVE  Times(start, time) \in Seq(W2)
<1>1. Bytes(EncodeFixed64Field(2, start)) \in W2 /\ Bytes(EncodeFixed64Field(3, time)) \in W2
  BY NumbersAreText, BytesAre DEF W2
<1> QED
  BY <1>1 DEF Times

\* The parts of a data point.
LEMMA PartsAre ==
  ASSUME ProtoAssumption, NEW exemplars \in Seq(Exemplar), NEW attrs \in Seq(Pair),
         NEW f \in Nat, f # 0
  PROVE  /\ Messages(f, EncodeExemplar, exemplars) \in Seq(W2)
         /\ Messages(f, EncodeAttrKeyValue, attrs) \in Seq(W2)
<1>1. Messages(f, EncodeExemplar, exemplars) \in Seq(W1)
  BY ExemplarsAre
<1>2. Seq(W1) \subseteq Seq(W2)
  BY Depths
<1> QED
  BY <1>1, <1>2, AttrsAre

LEMMA CounterDataPointIs ==
  ASSUME ProtoAssumption, NEW dp \in DataPoint(I64), NEW start \in Nat, NEW time \in Nat
  PROVE  EncodeCounterDataPoint(dp, start, time) \in Seq(W2)
<1>1. dp.attrs \in Seq(Pair) /\ dp.value \in I64 /\ dp.exemplar \in Seq(Exemplar)
  BY DEF DataPoint, Attrs, Pair
<1>2. PICK t \in Seq(W2) : t = Times(start, time)
  BY TimesAre
<1>3. PICK e \in Seq(W2) : e = Messages(5, EncodeExemplar, dp.exemplar)
  BY <1>1, PartsAre
<1>4. PICK a \in Seq(W2) : a = Messages(7, EncodeAttrKeyValue, dp.attrs)
  BY <1>1, PartsAre
<1>5. PICK v \in W2 : v = Bytes(EncodeFixed64FieldAlways(6, AsU64(dp.value)))
  <2>1. AsU64(dp.value) \in Nat
    BY <1>1, WordsAre
  <2> QED
    BY <2>1, NumbersAreText, BytesAre DEF W2
<1> QED
  BY <1>2, <1>3, <1>4, <1>5 DEF EncodeCounterDataPoint

LEMMA GaugeDataPointIs ==
  ASSUME ProtoAssumption, NEW dp \in DataPoint(U64), NEW start \in Nat, NEW time \in Nat
  PROVE  EncodeGaugeDataPoint(dp, start, time) \in Seq(W2)
<1>1. dp.attrs \in Seq(Pair) /\ dp.value \in U64 /\ dp.exemplar \in Seq(Exemplar)
  BY DEF DataPoint, Attrs, Pair
<1>2. PICK t \in Seq(W2) : t = Times(start, time)
  BY TimesAre
<1>3. PICK e \in Seq(W2) : e = Messages(5, EncodeExemplar, dp.exemplar)
  BY <1>1, PartsAre
<1>4. PICK a \in Seq(W2) : a = Messages(7, EncodeAttrKeyValue, dp.attrs)
  BY <1>1, PartsAre
<1>5. PICK v \in W2 : v = Bytes(EncodeFixed64FieldAlways(4, dp.value))
  <2>1. dp.value \in Nat
    BY <1>1, WordsAre
  <2> QED
    BY <2>1, NumbersAreText, BytesAre DEF W2
<1> QED
  BY <1>2, <1>3, <1>4, <1>5 DEF EncodeGaugeDataPoint

LEMMA PackedIs ==
  ASSUME ProtoAssumption, NEW f \in Nat, NEW numbers \in Seq(U64)
  PROVE  EncodePackedFixed64Field(f, numbers) \in Text
<1>1. PICK q : q = [i \in DOMAIN numbers |-> LittleEndian(numbers[i])]
  OBVIOUS
<1>2. ASSUME NEW i \in DOMAIN numbers PROVE LittleEndian(numbers[i]) \in Text
  <2>1. numbers[i] \in U64
    OBVIOUS
  <2>2. numbers[i] \in Nat
    BY <2>1, WordsAre
  <2> QED
    BY <2>2, LittleEndianIs
<1>3. DOMAIN q = DOMAIN numbers /\ q = [i \in DOMAIN numbers |-> q[i]] /\ \A i \in DOMAIN numbers : q[i] \in Text
  BY <1>1, <1>2
<1>4. q \in Seq(Text)
  BY ONLY <1>3, numbers \in Seq(U64), MessagesAre
<1>5. PICK flat \in Text : flat = FlattenSeq(q)
  BY <1>4, FlattenText, TextConcatenates
<1>6. FixedBytes * Len(numbers) \in Nat
  BY DEF ProtoAssumption
<1>7. EncodeTag(f, 2) \in Text /\ EncodeVarint[FixedBytes * Len(numbers)] \in Text
  BY <1>6, TagText, EncodeVarintIs
<1>8. EncodePackedFixed64Field(f, numbers)
        = IF numbers = <<>> THEN <<>>
          ELSE EncodeTag(f, 2) \o EncodeVarint[FixedBytes * Len(numbers)] \o flat
  BY <1>1, <1>5 DEF EncodePackedFixed64Field, LengthDelimited
<1> QED
  BY <1>7, <1>8, JoinedText, TextConcatenates

LEMMA HistogramDataPointIs ==
  ASSUME ProtoAssumption, NEW dp \in HistogramDataPoint, NEW boundaries \in Seq(U64),
         NEW start \in Nat, NEW time \in Nat
  PROVE  EncodeHistogramDataPoint(dp, boundaries, start, time) \in Seq(W2)
<1>1. /\ dp.attrs \in Seq(Pair) /\ dp.exemplar \in Seq(Exemplar) /\ dp.bucket_counts \in Seq(U64)
      /\ dp.sum \in U64 /\ dp.count \in U64 /\ dp.min \in U64 /\ dp.max \in U64
  <2>1. dp.attrs \in Seq(Pair) /\ dp.exemplar \in Seq(Exemplar) /\ dp.bucket_counts \in Seq(U64)
    BY DEF HistogramDataPoint, Attrs, Pair
  <2>2. dp.sum \in U64 /\ dp.count \in U64 /\ dp.min \in U64 /\ dp.max \in U64
    BY DEF HistogramDataPoint
  <2> QED
    BY <2>1, <2>2
<1>2. dp.sum \in Nat /\ dp.count \in Nat /\ dp.min \in Nat /\ dp.max \in Nat
  BY <1>1, WordsAre
<1>3. PICK t \in Seq(W2) : t = Times(start, time)
  BY TimesAre
<1>4. PICK e \in Seq(W2) : e = Messages(8, EncodeExemplar, dp.exemplar)
  BY <1>1, PartsAre
<1>5. PICK a \in Seq(W2) : a = Messages(9, EncodeAttrKeyValue, dp.attrs)
  BY <1>1, PartsAre
<1>6. PICK c \in W2 : c = Bytes(EncodePackedFixed64Field(6, dp.bucket_counts))
  BY <1>1, PackedIs, BytesAre DEF W2
<1>7. PICK b \in W2 : b = Bytes(EncodePackedFixed64Field(7, boundaries))
  BY PackedIs, BytesAre DEF W2
<1>8. PICK n \in W2, s \in W2, l \in W2, g \in W2 :
        /\ n = Bytes(EncodeFixed64FieldAlways(4, dp.count))
        /\ s = Bytes(EncodeFixed64FieldAlways(5, dp.sum))
        /\ l = Bytes(EncodeFixed64FieldAlways(11, dp.min))
        /\ g = Bytes(EncodeFixed64FieldAlways(12, dp.max))
  BY <1>2, NumbersAreText, BytesAre DEF W2
<1>9. EncodeHistogramDataPoint(dp, boundaries, start, time) = t \o <<n, s, c, b>> \o a \o e \o <<l, g>>
  BY <1>3, <1>4, <1>5, <1>6, <1>7, <1>8 DEF EncodeHistogramDataPoint
<1>10. <<n, s, c, b>> \in Seq(W2) /\ <<l, g>> \in Seq(W2)
  OBVIOUS
<1> QED
  BY <1>9, <1>10

LEMMA CounterDataPointsAre ==
  ASSUME ProtoAssumption, NEW items \in Seq(DataPoint(I64)), NEW start \in Nat, NEW time \in Nat
  PROVE  Messages(1, LAMBDA dp : EncodeCounterDataPoint(dp, start, time), items) \in Seq(W3)
<1>1. ASSUME NEW i \in DOMAIN items PROVE Message(1, EncodeCounterDataPoint(items[i], start, time)) \in W3
  <2>1. items[i] \in DataPoint(I64)
    OBVIOUS
  <2>2. EncodeCounterDataPoint(items[i], start, time) \in Seq(W2)
    BY <2>1, CounterDataPointIs
  <2> QED
    BY <2>2, MessageIs DEF W3
<1>2. PICK q : q = [i \in DOMAIN items |-> Message(1, EncodeCounterDataPoint(items[i], start, time))]
  OBVIOUS
<1>3. DOMAIN q = DOMAIN items /\ q = [i \in DOMAIN items |-> q[i]] /\ \A i \in DOMAIN items : q[i] \in W3
  BY <1>1, <1>2
<1>4. q \in Seq(W3)
  BY ONLY <1>3, items \in Seq(DataPoint(I64)), MessagesAre
<1> QED
  BY <1>2, <1>4 DEF Messages

LEMMA GaugeDataPointsAre ==
  ASSUME ProtoAssumption, NEW items \in Seq(DataPoint(U64)), NEW start \in Nat, NEW time \in Nat
  PROVE  Messages(1, LAMBDA dp : EncodeGaugeDataPoint(dp, start, time), items) \in Seq(W3)
<1>1. ASSUME NEW i \in DOMAIN items PROVE Message(1, EncodeGaugeDataPoint(items[i], start, time)) \in W3
  <2>1. items[i] \in DataPoint(U64)
    OBVIOUS
  <2>2. EncodeGaugeDataPoint(items[i], start, time) \in Seq(W2)
    BY <2>1, GaugeDataPointIs
  <2> QED
    BY <2>2, MessageIs DEF W3
<1>2. PICK q : q = [i \in DOMAIN items |-> Message(1, EncodeGaugeDataPoint(items[i], start, time))]
  OBVIOUS
<1>3. DOMAIN q = DOMAIN items /\ q = [i \in DOMAIN items |-> q[i]] /\ \A i \in DOMAIN items : q[i] \in W3
  BY <1>1, <1>2
<1>4. q \in Seq(W3)
  BY ONLY <1>3, items \in Seq(DataPoint(U64)), MessagesAre
<1> QED
  BY <1>2, <1>4 DEF Messages

LEMMA HistogramDataPointsAre ==
  ASSUME ProtoAssumption, NEW items \in Seq(HistogramDataPoint), NEW boundaries \in Seq(U64),
         NEW start \in Nat, NEW time \in Nat
  PROVE  Messages(1, LAMBDA dp : EncodeHistogramDataPoint(dp, boundaries, start, time), items) \in Seq(W3)
<1>1. ASSUME NEW i \in DOMAIN items PROVE Message(1, EncodeHistogramDataPoint(items[i], boundaries, start, time)) \in W3
  <2>1. items[i] \in HistogramDataPoint
    OBVIOUS
  <2>2. EncodeHistogramDataPoint(items[i], boundaries, start, time) \in Seq(W2)
    BY <2>1, HistogramDataPointIs
  <2> QED
    BY <2>2, MessageIs DEF W3
<1>2. PICK q : q = [i \in DOMAIN items |-> Message(1, EncodeHistogramDataPoint(items[i], boundaries, start, time))]
  OBVIOUS
<1>3. DOMAIN q = DOMAIN items /\ q = [i \in DOMAIN items |-> q[i]] /\ \A i \in DOMAIN items : q[i] \in W3
  BY <1>1, <1>2
<1>4. q \in Seq(W3)
  BY ONLY <1>3, items \in Seq(HistogramDataPoint), MessagesAre
<1> QED
  BY <1>2, <1>4 DEF Messages

\* What a metric is, the last field of it.
KindOf(m) ==
  CASE m.kind = "counter" -> Message(7, EncodeSum(m))
    [] m.kind = "gauge" -> Message(5, EncodeGaugeMsg(m))
    [] m.kind = "histogram" -> Message(9, EncodeHistogramMsg(m))

LEMMA MetricIs ==
  ASSUME ProtoAssumption, NEW m \in MetricSnapshot
  PROVE  EncodeMetric(m) \in Seq(W4)
<1>1. /\ m.name \in Text /\ m.description \in Text /\ m.boundaries \in Seq(U64)
      /\ m.start \in U64 /\ m.time \in U64
      /\ \/ m.kind = "counter" /\ m.data_points \in Seq(DataPoint(I64))
         \/ m.kind = "gauge" /\ m.data_points \in Seq(DataPoint(U64))
         \/ m.kind = "histogram" /\ m.data_points \in Seq(HistogramDataPoint)
  BY DEF MetricSnapshot, MetricOf, Id, OneOrMore
<1>2. m.start \in Nat /\ m.time \in Nat
  BY <1>1, WordsAre
<1>3. Cumulative \in W3 /\ Bytes(EncodeVarintField(3, 1)) \in W3
  BY NumbersAreText, BytesAre DEF W3, Cumulative
<1>4. ASSUME m.kind = "counter", m.data_points \in Seq(DataPoint(I64)) PROVE KindOf(m) \in W4
  <2>1. PICK p \in Seq(W3) :
          p = Messages(1, LAMBDA dp : EncodeCounterDataPoint(dp, m.start, m.time), m.data_points)
    BY <1>2, <1>4, CounterDataPointsAre
  <2>2. PICK body \in Seq(W3) : body = EncodeSum(m)
    BY <1>3, <2>1, PairIs, JoinedIs DEF EncodeSum
  <2>3. Message(7, body) \in W4
    BY MessageIs DEF W4
  <2> QED
    BY <1>4, <2>2, <2>3 DEF KindOf
<1>5. ASSUME m.kind = "gauge", m.data_points \in Seq(DataPoint(U64)) PROVE KindOf(m) \in W4
  <2>1. PICK body \in Seq(W3) : body = EncodeGaugeMsg(m)
    BY <1>2, <1>5, GaugeDataPointsAre DEF EncodeGaugeMsg
  <2>2. Message(5, body) \in W4
    BY MessageIs DEF W4
  <2> QED
    BY <1>5, <2>1, <2>2 DEF KindOf
<1>6. ASSUME m.kind = "histogram", m.data_points \in Seq(HistogramDataPoint) PROVE KindOf(m) \in W4
  <2>1. PICK p \in Seq(W3) :
          p = Messages(1, LAMBDA dp : EncodeHistogramDataPoint(dp, m.boundaries, m.start, m.time), m.data_points)
    BY <1>1, <1>2, <1>6, HistogramDataPointsAre
  <2>2. PICK body \in Seq(W3) : body = EncodeHistogramMsg(m)
    BY <1>3, <2>1, SingleIs, JoinedIs DEF EncodeHistogramMsg
  <2>3. Message(9, body) \in W4
    BY MessageIs DEF W4
  <2> QED
    BY <1>6, <2>2, <2>3 DEF KindOf
<1>7. KindOf(m) \in W4
  BY <1>1, <1>4, <1>5, <1>6
<1>8. Bytes(EncodeBytesField(1, m.name)) \in W4 /\ Bytes(EncodeBytesField(2, m.description)) \in W4
  BY <1>1, BytesAreText, BytesAre DEF W4
<1>9. EncodeMetric(m) = <<Bytes(EncodeBytesField(1, m.name)), Bytes(EncodeBytesField(2, m.description)), KindOf(m)>>
  BY DEF EncodeMetric, KindOf
<1> QED
  BY <1>7, <1>8, <1>9

LEMMA ItemIs ==
  ASSUME ProtoAssumption, NEW r \in Request, NEW item, item \in Range(r.items)
  PROVE  EncodeItem(r.signal, item) \in Seq(W4)
<1>1. CASE r \in RequestOf("traces", SpanData)
  <2>1. item \in SpanData /\ r.signal = "traces"
    BY <1>1 DEF RequestOf, Range, Id, OneOrMore
  <2> QED
    BY <2>1, SpanIs DEF EncodeItem
<1>2. CASE r \in RequestOf("logs", LogData)
  <2>1. item \in LogData /\ r.signal = "logs"
    BY <1>2 DEF RequestOf, Range, Id, OneOrMore
  <2> QED
    BY <2>1, LogRecordIs DEF EncodeItem
<1>3. CASE r \in RequestOf("metrics", MetricSnapshot)
  <2>1. item \in MetricSnapshot /\ r.signal = "metrics"
    BY <1>3 DEF RequestOf, Range, Id, OneOrMore
  <2> QED
    BY <2>1, MetricIs DEF EncodeItem
<1> QED
  BY <1>1, <1>2, <1>3 DEF Request

LEMMA ItemsAre ==
  ASSUME ProtoAssumption, NEW r \in Request
  PROVE  Messages(2, LAMBDA item : EncodeItem(r.signal, item), r.items) \in Seq(W5)
<1>1. PICK T : r.items \in Seq(T)
  BY DEF Request, RequestOf, Id, OneOrMore
<1>2. ASSUME NEW i \in DOMAIN r.items PROVE Message(2, EncodeItem(r.signal, r.items[i])) \in W5
  <2>1. r.items[i] \in Range(r.items)
    BY DEF Range
  <2>2. EncodeItem(r.signal, r.items[i]) \in Seq(W4)
    BY <2>1, ItemIs
  <2> QED
    BY <2>2, MessageIs DEF W5
<1>3. PICK q : q = [i \in DOMAIN r.items |-> Message(2, EncodeItem(r.signal, r.items[i]))]
  OBVIOUS
<1>4. DOMAIN q = DOMAIN r.items /\ q = [i \in DOMAIN r.items |-> q[i]] /\ \A i \in DOMAIN r.items : q[i] \in W5
  BY <1>2, <1>3
<1>5. q \in Seq(W5)
  BY ONLY <1>1, <1>4, MessagesAre
<1> QED
  BY <1>3, <1>5 DEF Messages

\* A request is written with messages of seven depths.
LEMMA RequestIs ==
  ASSUME ProtoAssumption, NEW r \in Request
  PROVE  EncodeExportRequest(r) \in Seq(Writes[Depth])
<1>1. /\ r.resource \in Seq(KeyValue) /\ r.scope \in [name : Text, version : Text]
  BY DEF Request, RequestOf
<1>2. PICK resource \in Seq(W2) : resource = EncodeResource(r.resource)
  BY <1>1, KeyValuesAre DEF EncodeResource
<1>3. PICK scope \in Seq(W0) : scope = EncodeScope(r.scope)
  <2>1. r.scope.name \in Text /\ r.scope.version \in Text
    BY <1>1
  <2>2. /\ Bytes(EncodeBytesField(1, r.scope.name)) \in W0
        /\ Bytes(EncodeBytesField(2, r.scope.version)) \in W0
    BY <2>1, BytesAreText, BytesAre DEF W0
  <2> QED
    BY <2>2, PairIs DEF EncodeScope
<1>4. PICK items \in Seq(W5) :
        items = Messages(2, LAMBDA item : EncodeItem(r.signal, item), r.items)
  BY ItemsAre
<1>5. W1 \subseteq W5 /\ W3 \subseteq W6
  <2>1. W1 \subseteq W4 /\ W2 \subseteq W5 /\ W4 \subseteq W5
    <3>1. W1 \subseteq W4 /\ W3 \subseteq W4
      BY Depths
    <3>2. Nested(W1) \subseteq Nested(W4) /\ Nested(W3) \subseteq Nested(W4)
      BY <3>1, Nesting
    <3> QED
      BY <3>1, <3>2 DEF W2, W4, W5
  <2>2. Nested(W2) \subseteq Nested(W5)
    BY <2>1, Nesting
  <2> QED
    BY <2>1, <2>2 DEF W3, W6
<1>6. PICK m1 \in W6 : m1 = Message(1, resource)
  <2>1. Message(1, resource) \in W3
    BY MessageIs DEF W3
  <2> QED
    BY <1>5, <2>1
<1>7. PICK m2 \in W5 : m2 = Message(1, scope)
  <2>1. Message(1, scope) \in W1
    BY MessageIs DEF W1
  <2> QED
    BY <1>5, <2>1
<1>8. PICK scoped \in Seq(W5) : scoped = <<m2>> \o items
  BY SingleIs, JoinedIs
<1>9. PICK m3 \in W6 : m3 = Message(2, scoped)
  BY MessageIs DEF W6
<1>10. PICK both \in Seq(W6) : both = <<m1, m3>>
  BY PairIs
<1>11. PICK m \in Writes[7] : m = Message(1, both)
  BY MessageIs, Depths
<1>12. EncodeExportRequest(r) = <<m>>
  BY <1>2, <1>3, <1>4, <1>6, <1>7, <1>8, <1>9, <1>10, <1>11 DEF EncodeExportRequest
<1> QED
  BY <1>12, SingleIs DEF Depth

\* Cutting and joining.
LEMMA Keeping ==
  ASSUME NEW a \in Text, NEW b \in Text, NEW n \in 0..Len(a)
  PROVE  /\ Len(a) \in Nat /\ Len(b) \in Nat /\ a \o b \in Text /\ Len(a \o b) = Len(a) + Len(b)
         /\ SubSeq(a \o b, 1, n) = SubSeq(a, 1, n)
         /\ SubSeq(a, 1, n) \in Text /\ Len(SubSeq(a, 1, n)) = n
  BY DEF Text

LEMMA CuttingTwice ==
  ASSUME NEW a \in Text, NEW m \in 0..Len(a), NEW n \in 0..m
  PROVE  SubSeq(SubSeq(a, 1, m), 1, n) = SubSeq(a, 1, n)
<1>1. m \in Nat /\ n \in Nat /\ m <= Len(a) /\ n <= m /\ Len(a) \in Nat
  BY DEF Text
<1>2. PICK s \in Text : s = SubSeq(a, 1, m)
  BY Keeping
<1>3. Len(s) = m /\ \A i \in 1..m : s[i] = a[i]
  BY <1>1, <1>2 DEF Text
<1>4. SubSeq(s, 1, n) = [i \in 1..n |-> s[i]] /\ SubSeq(a, 1, n) = [i \in 1..n |-> a[i]]
  BY <1>1, <1>3 DEF Text
<1> QED
  BY <1>1, <1>2, <1>3, <1>4

LEMMA Splitting ==
  ASSUME NEW a \in Text, NEW b \in Text
  PROVE  /\ SubSeq(a \o b, 1, Len(a)) = a
         /\ SubSeq(a \o b, Len(a) + 1, Len(a \o b)) = b
<1>1. Len(a) \in Nat /\ Len(b) \in Nat /\ Len(a \o b) = Len(a) + Len(b) /\ a \o b \in Text
  BY DEF Text
<1>2. SubSeq(a \o b, 1, Len(a)) = a
  BY <1>1 DEF Text
<1>3. SubSeq(a \o b, Len(a) + 1, Len(a \o b)) = b
  BY <1>1 DEF Text
<1> QED
  BY <1>2, <1>3

LEMMA TailText ==
  ASSUME NEW a \in Text, NEW n \in 0..Len(a)
  PROVE  SubSeq(a, n + 1, Len(a)) \in Text /\ Len(SubSeq(a, n + 1, Len(a))) = Len(a) - n
  BY DEF Text

Room == [i \in 1..MaxLenBytes |-> 0]

LEMMA RoomIs == ASSUME ProtoAssumption PROVE Room \in Text /\ Len(Room) = MaxLenBytes
  BY DEF ProtoAssumption, Room, Text, Byte

\* The last of the open messages.
LEMMA Stack ==
  ASSUME NEW S, NEW q \in Seq(S), NEW x \in S
  PROVE  /\ Append(q, x) \in Seq(S) /\ Len(Append(q, x)) = Len(q) + 1
         /\ Append(q, x)[Len(q) + 1] = x /\ \A i \in 1..Len(q) : Append(q, x)[i] = q[i]
         /\ Last(Append(q, x)) = x
         /\ q # <<>> => /\ Last(q) = q[Len(q)] /\ Front(q) \in Seq(S)
                        /\ Len(Front(q)) = Len(q) - 1 /\ Len(q) > 0
                        /\ \A i \in 1..(Len(q) - 1) : Front(q)[i] = q[i]
  BY DEF Last, Front

-----------------------------------------------------------------------------
(***************************************************************************)
(* The open messages nest.                                                 *)
(***************************************************************************)

\* What is still to be written is of the depth that is left.
Typed ==
  /\ buf \in Text /\ batch \in Seq(Requests) /\ Len(batch) <= MaxBatch
  /\ Len(open) <= Depth /\ todo \in Seq(Writes[Depth - Len(open)])
  /\ \E S : open \in Seq(S)
  /\ \A i \in DOMAIN open :
       /\ open[i].field \in Nat /\ open[i].field # 0 /\ open[i].start \in Nat
       /\ open[i].tag_end = open[i].start + VarintTagLen(open[i].field)
       /\ open[i].rest \in Seq(Writes[Depth - i + 1])

Nests ==
  \A i \in DOMAIN open :
    /\ open[i].tag_end + MaxLenBytes <= Len(buf)
    /\ \A j \in DOMAIN open : i < j => open[i].tag_end + MaxLenBytes <= open[j].start

NInv == Typed /\ Nests

LEMMA OpenIs ==
  ASSUME NInv
  PROVE  /\ Len(open) \in Nat /\ DOMAIN open = 1..Len(open) /\ Depth - Len(open) \in Nat
         /\ Len(buf) \in Nat
<1>1. Len(open) \in Nat /\ DOMAIN open = 1..Len(open)
  BY DEF NInv, Typed
<1>2. Len(buf) \in Nat
  BY DEF NInv, Typed, Text
<1> QED
  BY <1>1, <1>2 DEF NInv, Typed, Depth

LEMMA FrameIs ==
  ASSUME ProtoAssumption, NInv
  PROVE  \A i \in DOMAIN open :
           /\ open[i].start \in Nat /\ open[i].tag_end \in Nat /\ open[i].start < open[i].tag_end
           /\ open[i].tag_end - VarintTagLen(open[i].field) = open[i].start
           /\ MaxLenBytes \in Nat /\ open[i].tag_end + MaxLenBytes <= Len(buf)
           /\ open[i].start <= Len(buf) /\ Len(buf) \in Nat
<1> SUFFICES ASSUME NEW i \in DOMAIN open
             PROVE  /\ open[i].start \in Nat /\ open[i].tag_end \in Nat /\ open[i].start < open[i].tag_end
                    /\ open[i].tag_end - VarintTagLen(open[i].field) = open[i].start
                    /\ MaxLenBytes \in Nat /\ open[i].tag_end + MaxLenBytes <= Len(buf)
                    /\ open[i].start <= Len(buf) /\ Len(buf) \in Nat
  OBVIOUS
<1>1. /\ open[i].field \in Nat /\ open[i].start \in Nat
      /\ open[i].tag_end = open[i].start + VarintTagLen(open[i].field)
      /\ open[i].tag_end + MaxLenBytes <= Len(buf) /\ Len(buf) \in Nat
  BY OpenIs DEF NInv, Typed, Nests
<1>2. PICK n \in Nat \ {0} : n = VarintTagLen(open[i].field)
  BY <1>1, TagIs
<1>3. MaxLenBytes \in Nat
  BY DEF ProtoAssumption
<1> QED
  BY <1>1, <1>2, <1>3

LEMMA NestInit == ASSUME ProtoAssumption, EncodingAssumption, Init PROVE NInv
<1> USE DEF Init
<1>1. DOMAIN open = {} /\ Len(open) = 0 /\ open \in Seq({})
  OBVIOUS
<1>2. buf \in Text
  BY DEF Text
<1>3. batch \in Seq(Requests) /\ Len(batch) <= MaxBatch
  BY DEF EncodingAssumption
<1>4. todo \in Seq(Writes[Depth - Len(open)])
  OBVIOUS
<1> QED
  BY <1>1, <1>2, <1>3, <1>4 DEF NInv, Typed, Nests, Depth

LEMMA NestBegin ==
  ASSUME ProtoAssumption, EncodingAssumption, NInv, NEW request \in Requests, Begin(request)
  PROVE  NInv'
<1>1. /\ open = <<>> /\ open' = open /\ buf' = buf /\ todo' = EncodeExportRequest(request)
      /\ batch' = Append(batch, request) /\ Len(batch) < MaxBatch
  BY DEF Begin, Idle
<1>2. batch \in Seq(Requests) /\ MaxBatch \in Nat
  BY DEF NInv, Typed, EncodingAssumption
<1>3. batch' \in Seq(Requests) /\ Len(batch') <= MaxBatch
  BY <1>1, <1>2
<1>4. todo' \in Seq(Writes[Depth])
  BY <1>1, RequestIs DEF EncodingAssumption
<1>5. DOMAIN open' = {} /\ Len(open') = 0 /\ Depth - Len(open') = Depth /\ Len(open') <= Depth
      /\ open' \in Seq({})
  BY <1>1 DEF Depth
<1>6. buf' \in Text
  BY <1>1 DEF NInv, Typed
<1>7. todo' \in Seq(Writes[Depth - Len(open')])
  BY <1>4, <1>5
<1> QED
  BY <1>3, <1>5, <1>6, <1>7 DEF NInv, Typed, Nests

LEMMA NestConcatenate ==
  ASSUME ProtoAssumption, EncodingAssumption, NInv, Concatenate
  PROVE  NInv'
<1>1. open = <<>> /\ open' = open /\ buf' = <<>> /\ todo' = todo /\ batch' = batch
  BY DEF Concatenate, Idle
<1>2. DOMAIN open' = {}
  BY <1>1
<1>3. buf' \in Text
  BY <1>1 DEF Text
<1> QED
  BY <1>1, <1>2, <1>3 DEF NInv, Typed, Nests

\* What comes next is of the depth that is left, and so is what it opens.
LEMMA NextWrite ==
  ASSUME NInv, todo # <<>>
  PROVE  /\ Head(todo) \in Writes[Depth - Len(open)]
         /\ Tail(todo) \in Seq(Writes[Depth - Len(open)])
         /\ todo = <<Head(todo)>> \o Tail(todo)
         /\ Head(todo).field = 0 => Head(todo).bytes \in Text
         /\ Head(todo).field # 0 =>
              /\ Head(todo).field \in Nat /\ Depth - Len(open) > 0 /\ (Depth - Len(open)) - 1 \in Nat
              /\ Head(todo).body \in Seq(Writes[(Depth - Len(open)) - 1])
<1>1. PICK d \in Nat : d = Depth - Len(open)
  BY OpenIs
<1>2. todo \in Seq(Writes[d])
  BY <1>1 DEF NInv, Typed
<1>3. Head(todo) \in Writes[d] /\ Tail(todo) \in Seq(Writes[d]) /\ todo = <<Head(todo)>> \o Tail(todo)
  BY <1>2
<1>4. \/ Head(todo).field = 0 /\ Head(todo).bytes \in Text
      \/ /\ Head(todo).field \in Nat \ {0} /\ d > 0 /\ d - 1 \in Nat
         /\ Head(todo).body \in Seq(Writes[d - 1])
  BY <1>3, BodyIs
<1> QED
  BY <1>1, <1>3, <1>4

LEMMA NestWriteBytes ==
  ASSUME ProtoAssumption, EncodingAssumption, NInv, WriteBytes
  PROVE  NInv'
<1>1. /\ todo # <<>> /\ Head(todo).field = 0 /\ buf' = buf \o Head(todo).bytes
      /\ todo' = Tail(todo) /\ open' = open /\ batch' = batch
  BY DEF WriteBytes
<1>2. PICK bytes \in Text : bytes = Head(todo).bytes
  BY <1>1, NextWrite
<1>3. buf \in Text
  BY DEF NInv, Typed
<1>4. buf' \in Text /\ Len(buf') \in Nat /\ Len(buf') >= Len(buf) /\ Len(buf) \in Nat
  <2>1. buf' = buf \o bytes
    BY <1>1, <1>2
  <2>2. 0 \in 0..Len(buf)
    BY OpenIs
  <2>3. buf \o bytes \in Text /\ Len(buf \o bytes) = Len(buf) + Len(bytes) /\ Len(bytes) \in Nat /\ Len(buf) \in Nat
    BY <1>3, <2>2, Keeping
  <2> QED
    BY <2>1, <2>3
<1>5. todo' \in Seq(Writes[Depth - Len(open')])
  BY <1>1, NextWrite
<1>6. Typed'
  BY <1>1, <1>4, <1>5 DEF NInv, Typed
<1>7. \A i \in DOMAIN open : open[i].tag_end + MaxLenBytes \in Nat
  BY FrameIs DEF ProtoAssumption
<1>8. Nests'
  BY <1>1, <1>4, <1>7 DEF NInv, Nests
<1> QED
  BY <1>6, <1>8 DEF NInv

\* What OpenMessage pushes.
Pushed == [field |-> Head(todo).field, start |-> Len(buf),
           tag_end |-> Len(buf \o EncodeTag(Head(todo).field, LengthDelimited)), rest |-> Tail(todo)]

LEMMA OpenWrites ==
  ASSUME ProtoAssumption, NInv, OpenMessage
  PROVE  /\ buf' = buf \o (EncodeTag(Head(todo).field, LengthDelimited) \o Room)
         /\ EncodeTag(Head(todo).field, LengthDelimited) \o Room \in Text
         /\ Len(buf') = Len(buf) + VarintTagLen(Head(todo).field) + MaxLenBytes
         /\ buf' \in Text /\ Len(buf') \in Nat /\ Len(buf') >= Len(buf) /\ Len(buf) \in Nat
         /\ open' = Append(open, Pushed) /\ todo' = Head(todo).body /\ batch' = batch
         /\ Pushed.tag_end = Len(buf) + VarintTagLen(Head(todo).field)
         /\ VarintTagLen(Head(todo).field) \in Nat \ {0} /\ MaxLenBytes \in Nat
<1>1. /\ todo # <<>> /\ Head(todo).field # 0
      /\ buf' = (buf \o EncodeTag(Head(todo).field, LengthDelimited)) \o Room
      /\ open' = Append(open, Pushed) /\ todo' = Head(todo).body /\ batch' = batch
  BY DEF OpenMessage, Pushed, Room
<1>2. Head(todo).field \in Nat
  BY <1>1, NextWrite
<1>3. PICK tag \in Text : /\ tag = EncodeTag(Head(todo).field, LengthDelimited)
                          /\ Len(tag) = VarintTagLen(Head(todo).field) /\ Len(tag) \in Nat \ {0}
  BY <1>2, TagIs
<1>4. PICK room \in Text : room = Room /\ Len(room) = MaxLenBytes /\ MaxLenBytes \in Nat
  BY RoomIs DEF ProtoAssumption
<1>5. PICK b \in Text : b = buf /\ Len(b) \in Nat
  BY OpenIs DEF NInv, Typed
<1>6. PICK tail \in Text, both \in Text, all \in Text :
        /\ tail = tag \o room /\ both = b \o tag /\ all = both \o room
  <2>1. tag \o room \in Text /\ b \o tag \in Text
    BY ONLY b \in Text, tag \in Text, room \in Text, JoinedText
  <2>2. PICK both \in Text : both = b \o tag
    BY ONLY <2>1
  <2>3. both \o room \in Text
    BY ONLY both \in Text, room \in Text, JoinedText
  <2> QED
    BY ONLY <2>1, <2>2, <2>3
<1>7. all = b \o tail
  <2>1. Associates(b, tag, room)
    BY ONLY b \in Text, tag \in Text, room \in Text, JoinAssociates
  <2> QED
    BY ONLY <1>6, <2>1 DEF Associates
<1>8. Len(both) = Len(b) + Len(tag) /\ Len(all) = Len(b) + Len(tag) + Len(room)
  <2>1. Len(b \o tag) = Len(b) + Len(tag) /\ Len(b) \in Nat /\ Len(tag) \in Nat
    BY ONLY b \in Text, tag \in Text, JoinIs
  <2>2. Len(both \o room) = Len(both) + Len(room) /\ Len(room) \in Nat
    BY ONLY both \in Text, room \in Text, JoinIs
  <2> QED
    BY ONLY <1>6, <2>1, <2>2
<1>9. Pushed.tag_end = Len(b) + Len(tag)
  BY <1>3, <1>5, <1>6, <1>8 DEF Pushed
<1>10. buf' = all
  BY ONLY <1>1, <1>3, <1>4, <1>5, <1>6
<1>11. buf' = buf \o tail /\ tail = EncodeTag(Head(todo).field, LengthDelimited) \o Room
  BY ONLY <1>3, <1>4, <1>5, <1>6, <1>7, <1>10
<1>12. /\ Len(buf') = Len(buf) + VarintTagLen(Head(todo).field) + MaxLenBytes
       /\ Len(buf') >= Len(buf) /\ Len(buf) \in Nat /\ Len(buf') \in Nat
  BY ONLY <1>3, <1>4, <1>5, <1>8, <1>10
<1>13. Pushed.tag_end = Len(buf) + VarintTagLen(Head(todo).field)
  BY ONLY <1>3, <1>5, <1>9
<1> QED
  BY ONLY <1>1, <1>3, <1>4, <1>6, <1>10, <1>11, <1>12, <1>13

LEMMA NestOpen ==
  ASSUME ProtoAssumption, EncodingAssumption, NInv, OpenMessage
  PROVE  NInv'
<1>1. todo # <<>> /\ Head(todo).field # 0
  BY DEF OpenMessage
<1>2. PICK D \in Nat : D = Len(open) /\ DOMAIN open = 1..D /\ Depth - D \in Nat
  BY OpenIs
<1>3. PICK S : open \in Seq(S)
  BY DEF NInv, Typed
<1>4. PICK T : T = S \cup {Pushed}
  OBVIOUS
<1>5. open \in Seq(T) /\ Pushed \in T
  BY <1>3, <1>4
<1>6. /\ open' \in Seq(T) /\ Len(open') = D + 1 /\ DOMAIN open' = 1..(D + 1)
      /\ open'[D + 1] = Pushed /\ \A i \in 1..D : open'[i] = open[i]
  <2>1. open' = Append(open, Pushed)
    BY OpenWrites
  <2> QED
    BY <1>2, <1>5, <2>1, Stack
<1>7. Len(open') <= Depth /\ todo' \in Seq(Writes[Depth - Len(open')])
  <2>1. /\ Depth - D > 0 /\ (Depth - D) - 1 \in Nat
        /\ Head(todo).body \in Seq(Writes[(Depth - D) - 1])
    BY <1>1, <1>2, NextWrite
  <2>2. (Depth - D) - 1 = Depth - (D + 1) /\ D + 1 <= Depth
    BY <1>2, <2>1 DEF Depth
  <2> QED
    BY <1>6, <2>1, <2>2, OpenWrites
<1>8. ASSUME NEW i \in 1..(D + 1)
      PROVE  /\ open'[i].field \in Nat /\ open'[i].field # 0 /\ open'[i].start \in Nat
             /\ open'[i].tag_end = open'[i].start + VarintTagLen(open'[i].field)
             /\ open'[i].rest \in Seq(Writes[Depth - i + 1])
  <2>1. CASE i = D + 1
    <3>1. Pushed.rest \in Seq(Writes[Depth - D]) /\ Pushed.field \in Nat /\ Pushed.field # 0
      BY <1>1, <1>2, NextWrite DEF Pushed
    <3>2. Pushed.start \in Nat /\ Pushed.tag_end = Pushed.start + VarintTagLen(Pushed.field)
      BY OpenWrites DEF Pushed
    <3>3. Depth - i + 1 = Depth - D
      BY <2>1, <1>2 DEF Depth
    <3> QED
      BY <1>6, <2>1, <3>1, <3>2, <3>3
  <2>2. CASE i # D + 1
    <3>1. i \in 1..D
      BY <2>2
    <3> QED
      BY <1>2, <1>6, <3>1 DEF NInv, Typed
  <2> QED
    BY <2>1, <2>2
<1>9. Typed'
  <2>1. buf' \in Text /\ batch' = batch
    BY OpenWrites
  <2> QED
    BY <1>6, <1>7, <1>8, <2>1 DEF NInv, Typed
<1>10. Nests'
  <2>1. /\ Len(buf') = Len(buf) + VarintTagLen(Head(todo).field) + MaxLenBytes
        /\ Pushed.tag_end = Len(buf) + VarintTagLen(Head(todo).field) /\ Pushed.start = Len(buf)
        /\ Len(buf') \in Nat /\ Len(buf') >= Len(buf) /\ Len(buf) \in Nat
    BY OpenWrites DEF Pushed
  <2>2. \A i \in 1..D : open[i].tag_end + MaxLenBytes <= Len(buf) /\ open[i].tag_end + MaxLenBytes \in Nat
    BY <1>2, FrameIs DEF ProtoAssumption
  <2>3. ASSUME NEW i \in 1..(D + 1)
        PROVE  open'[i].tag_end + MaxLenBytes <= Len(buf')
    <3>1. CASE i = D + 1
      BY <1>6, <2>1, <3>1
    <3>2. CASE i # D + 1
      <4>1. i \in 1..D
        BY <3>2
      <4> QED
        BY <1>6, <2>1, <2>2, <4>1
    <3> QED
      BY <3>1, <3>2
  <2>4. ASSUME NEW i \in 1..(D + 1), NEW j \in 1..(D + 1), i < j
        PROVE  open'[i].tag_end + MaxLenBytes <= open'[j].start
    <3>1. i \in 1..D
      BY <2>4
    <3>2. CASE j = D + 1
      BY <1>6, <2>1, <2>2, <3>1, <3>2
    <3>3. CASE j # D + 1
      <4>1. j \in 1..D
        BY <3>3
      <4> QED
        BY <1>2, <1>6, <2>4, <3>1, <4>1 DEF NInv, Nests
    <3> QED
      BY <3>2, <3>3
  <2> QED
    BY <1>6, <2>3, <2>4 DEF Nests
<1> QED
  BY <1>9, <1>10 DEF NInv

\* What CloseMessage leaves: everything before the message, and perhaps more.
LEMMA CloseWrites ==
  ASSUME ProtoAssumption, NInv, CloseMessage
  PROVE  LET m == open[Len(open)]
             body == SubSeq(buf, m.tag_end + MaxLenBytes + 1, Len(buf))
         IN  /\ todo = <<>> /\ open # <<>> /\ Len(open) \in DOMAIN open
             /\ body \in Text
             /\ body = <<>> => buf' = SubSeq(buf, 1, m.start)
             /\ body # <<>> => buf' = SubSeq(buf, 1, m.tag_end) \o (EncodeVarint[Len(body)] \o body)
             /\ EncodeVarint[Len(body)] \o body \in Text
             /\ m.start \in 0..Len(buf) /\ m.tag_end \in 0..Len(buf) /\ m.start \in 0..m.tag_end
             /\ todo' = m.rest /\ open' = Front(open) /\ batch' = batch
<1>1. PICK S : open \in Seq(S)
  BY DEF NInv, Typed
<1>2. /\ todo = <<>> /\ open # <<>> /\ open' = Front(open) /\ batch' = batch
      /\ Last(open) = open[Len(open)] /\ Len(open) \in DOMAIN open
  BY <1>1 DEF CloseMessage, Last
<1>3. PICK m : m = open[Len(open)]
  OBVIOUS
<1>4. PICK body : body = SubSeq(buf, m.tag_end + MaxLenBytes + 1, Len(buf))
  OBVIOUS
<1>5. /\ buf' = IF body = <<>> THEN SubSeq(buf, 1, m.tag_end - VarintTagLen(m.field))
                ELSE SubSeq(buf, 1, m.tag_end) \o EncodeVarint[Len(body)] \o body
      /\ todo' = m.rest
  BY <1>2, <1>3, <1>4 DEF CloseMessage
<1>6. /\ m.start \in Nat /\ m.tag_end \in Nat /\ m.start < m.tag_end
      /\ m.tag_end - VarintTagLen(m.field) = m.start
      /\ MaxLenBytes \in Nat /\ m.tag_end + MaxLenBytes <= Len(buf) /\ Len(buf) \in Nat
  BY <1>2, <1>3, FrameIs
<1>7. PICK b \in Text : b = buf
  BY DEF NInv, Typed
<1>8. body \in Text
  <2>1. m.tag_end + MaxLenBytes \in 0..Len(b)
    BY <1>6, <1>7
  <2> QED
    BY <1>4, <1>7, <2>1, TailText
<1>9. m.tag_end \in 0..Len(b) /\ m.start \in 0..Len(b) /\ m.start \in 0..m.tag_end
  BY <1>6, <1>7
<1>10. PICK h \in Text : h = SubSeq(b, 1, m.tag_end)
  BY <1>9, Keeping
<1>11. PICK v \in Text : v = EncodeVarint[Len(body)]
  <2>1. Len(body) \in Nat
    BY <1>8 DEF Text
  <2> QED
    BY <2>1, EncodeVarintIs
<1>12. h \o v \o body = h \o (v \o body) /\ v \o body \in Text
  BY <1>8 DEF Text
<1> QED
  BY <1>2, <1>3, <1>4, <1>5, <1>6, <1>7, <1>8, <1>9, <1>10, <1>11, <1>12

LEMMA CloseKeeps ==
  ASSUME ProtoAssumption, NInv, CloseMessage, NEW n \in 0..open[Len(open)].start
  PROVE  /\ buf' \in Text /\ Len(buf') \in Nat /\ Len(buf') >= n
         /\ SubSeq(buf', 1, n) = SubSeq(buf, 1, n)
<1>1. PICK m : m = open[Len(open)]
  OBVIOUS
<1>2. PICK body \in Text : body = SubSeq(buf, m.tag_end + MaxLenBytes + 1, Len(buf))
  BY <1>1, CloseWrites
<1>3. /\ body = <<>> => buf' = SubSeq(buf, 1, m.start)
      /\ body # <<>> => buf' = SubSeq(buf, 1, m.tag_end) \o (EncodeVarint[Len(body)] \o body)
      /\ EncodeVarint[Len(body)] \o body \in Text
      /\ m.start \in 0..Len(buf) /\ m.tag_end \in 0..Len(buf) /\ m.start \in 0..m.tag_end
  BY <1>1, <1>2, CloseWrites
<1>4. PICK b \in Text : b = buf /\ Len(b) \in Nat
  BY OpenIs DEF NInv, Typed
<1>5. n \in 0..m.start /\ n \in 0..m.tag_end /\ n \in Nat /\ n <= m.start /\ m.start \in Nat
  BY <1>1, <1>3, <1>4
<1>6. CASE body = <<>>
  <2>1. /\ SubSeq(b, 1, m.start) \in Text /\ Len(SubSeq(b, 1, m.start)) = m.start
        /\ SubSeq(SubSeq(b, 1, m.start), 1, n) = SubSeq(b, 1, n)
    BY <1>3, <1>4, <1>5, Keeping, CuttingTwice
  <2> QED
    BY <1>3, <1>4, <1>5, <1>6, <2>1
<1>7. CASE body # <<>>
  <2>1. PICK h \in Text : h = SubSeq(b, 1, m.tag_end) /\ Len(h) = m.tag_end
    BY <1>3, <1>4, Keeping
  <2>2. SubSeq(h, 1, n) = SubSeq(b, 1, n)
    BY <1>3, <1>4, <1>5, <2>1, CuttingTwice
  <2>3. PICK r \in Text : r = EncodeVarint[Len(body)] \o body
    BY <1>3
  <2>4. n \in 0..Len(h)
    BY <1>5, <2>1
  <2>5. /\ h \o r \in Text /\ Len(h \o r) = Len(h) + Len(r) /\ Len(h) \in Nat /\ Len(r) \in Nat
        /\ SubSeq(h \o r, 1, n) = SubSeq(h, 1, n)
    BY <2>4, Keeping
  <2>6. buf' = h \o r
    BY <1>3, <1>4, <1>7, <2>1, <2>3
  <2> QED
    BY <1>4, <2>2, <2>4, <2>5, <2>6
<1> QED
  BY <1>6, <1>7

LEMMA NestClose ==
  ASSUME ProtoAssumption, EncodingAssumption, NInv, CloseMessage
  PROVE  NInv'
<1>1. PICK D \in Nat : D = Len(open) /\ DOMAIN open = 1..D /\ Depth - D \in Nat
  BY OpenIs
<1>2. PICK S : open \in Seq(S)
  BY DEF NInv, Typed
<1>3. /\ open # <<>> /\ D \in 1..D /\ todo' = open[D].rest /\ open' = Front(open) /\ batch' = batch
  BY <1>1, CloseWrites
<1>4. /\ open' \in Seq(S) /\ Len(open') = D - 1 /\ DOMAIN open' = 1..(D - 1) /\ D - 1 \in Nat
      /\ \A i \in 1..(D - 1) : open'[i] = open[i] /\ i \in 1..D /\ i < D
  BY <1>1, <1>2, <1>3, Stack
<1>5. buf' \in Text /\ Len(buf') \in Nat /\ Len(buf') >= open[D].start
  <2>1. open[D].start \in 0..open[D].start
    BY <1>1, <1>3, FrameIs
  <2> QED
    BY <1>1, <2>1, CloseKeeps
<1>6. todo' \in Seq(Writes[Depth - Len(open')]) /\ Len(open') <= Depth
  <2>1. open[D].rest \in Seq(Writes[Depth - D + 1])
    BY <1>1, <1>3 DEF NInv, Typed
  <2>2. Depth - (D - 1) = Depth - D + 1 /\ D - 1 <= Depth
    BY <1>1 DEF Depth
  <2> QED
    BY <1>3, <1>4, <2>1, <2>2
<1>7. Typed'
  BY <1>1, <1>3, <1>4, <1>5, <1>6 DEF NInv, Typed
<1>8. Nests'
  <2>1. ASSUME NEW i \in 1..(D - 1)
        PROVE  /\ open'[i].tag_end + MaxLenBytes <= Len(buf')
               /\ \A j \in 1..(D - 1) : i < j => open'[i].tag_end + MaxLenBytes <= open'[j].start
    <3>1. open[i].tag_end + MaxLenBytes <= open[D].start
      BY <1>1, <1>3, <1>4 DEF NInv, Nests
    <3>2. open[i].tag_end + MaxLenBytes \in Nat /\ open[D].start \in Nat
      <4>1. i \in DOMAIN open /\ D \in DOMAIN open
        BY <1>1, <1>3, <1>4
      <4>2. open[i].tag_end \in Nat /\ MaxLenBytes \in Nat /\ open[D].start \in Nat
        BY <4>1, FrameIs
      <4> QED
        BY <4>2
    <3>3. open'[i].tag_end + MaxLenBytes <= Len(buf')
      BY <1>4, <1>5, <3>1, <3>2
    <3>4. \A j \in 1..(D - 1) : i < j => open'[i].tag_end + MaxLenBytes <= open'[j].start
      BY <1>1, <1>4 DEF NInv, Nests
    <3> QED
      BY <3>3, <3>4
  <2> QED
    BY <1>4, <2>1 DEF Nests
<1> QED
  BY <1>7, <1>8 DEF NInv

LEMMA NestStep ==
  ASSUME ProtoAssumption, EncodingAssumption, NInv, [Next]_vars
  PROVE  NInv'
<1>1. CASE \E request \in Requests : Begin(request)
  BY <1>1, NestBegin
<1>2. CASE WriteBytes
  BY <1>2, NestWriteBytes
<1>3. CASE OpenMessage
  BY <1>3, NestOpen
<1>4. CASE CloseMessage
  BY <1>4, NestClose
<1>5. CASE Concatenate
  BY <1>5, NestConcatenate
<1>6. CASE Terminated \/ UNCHANGED vars
  <2>1. buf' = buf /\ todo' = todo /\ open' = open /\ batch' = batch
    BY <1>6 DEF Terminated, vars
  <2> QED
    BY <2>1 DEF NInv, Typed, Nests
<1> QED
  BY <1>1, <1>2, <1>3, <1>4, <1>5, <1>6 DEF Next

\* The open messages nest in the buffer and in the writes that are left, each at its
\* level, whatever is written next.
THEOREM NestInvariance == Spec => []NInv
<1>1. Init => NInv
  BY NestInit, ProtoAssumption, EncodingAssumption
<1>2. NInv /\ [Next]_vars => NInv'
  BY NestStep, ProtoAssumption, EncodingAssumption
<1> QED
  BY <1>1, <1>2, PTL DEF Spec

\* The open messages nest in the buffer, each with its tag and its room.
THEOREM MessagesNest == Spec => []TypeOK
<1>1. NInv => TypeOK
  <2> SUFFICES ASSUME NInv PROVE TypeOK
    OBVIOUS
  <2>1. \A i \in DOMAIN buf : buf[i] \in 0..(2 * Base - 1)
    <3>1. \A i \in DOMAIN buf : buf[i] \in Byte
      BY DEF NInv, Typed, Text
    <3> QED
      BY <3>1 DEF Byte
  <2>2. Len(batch) <= MaxBatch
    BY DEF NInv, Typed
  <2>3. ASSUME NEW i \in DOMAIN open
        PROVE  /\ open[i].start < open[i].tag_end
               /\ open[i].tag_end + MaxLenBytes <= IF i = Len(open) THEN Len(buf) ELSE open[i + 1].start
    <3>1. open[i].start < open[i].tag_end /\ open[i].tag_end + MaxLenBytes <= Len(buf)
      BY FrameIs, ProtoAssumption
    <3>2. i # Len(open) => i + 1 \in DOMAIN open /\ i < i + 1
      BY OpenIs
    <3> QED
      BY <3>1, <3>2 DEF NInv, Nests
  <2> QED
    BY <2>1, <2>2, <2>3 DEF TypeOK
<1> QED
  BY <1>1, NestInvariance, PTL

\* No write changes what was there when an open message began.
THEOREM OuterBytes == Spec => OuterBytesKept
<1>1. ASSUME NInv, [Next]_vars
      PROVE  [\A i \in DOMAIN open :
                LET before == open[i].start
                IN  Len(buf') >= before /\ SubSeq(buf', 1, before) = SubSeq(buf, 1, before)]_vars
  <2> SUFFICES ASSUME Next, NEW i \in DOMAIN open
               PROVE  /\ Len(buf') >= open[i].start
                      /\ SubSeq(buf', 1, open[i].start) = SubSeq(buf, 1, open[i].start)
    BY <1>1
  <2>1. PICK n \in Nat : n = open[i].start /\ n <= Len(buf) /\ Len(buf) \in Nat /\ n \in 0..Len(buf)
    BY <1>1, FrameIs, ProtoAssumption
  <2>2. open # <<>> /\ i \in 1..Len(open) /\ Len(open) \in Nat
    BY <1>1, OpenIs
  <2>3. buf \in Text
    BY <1>1 DEF NInv, Typed
  <2>4. ASSUME NEW s \in Text, buf' = buf \o s
        PROVE  Len(buf') >= n /\ SubSeq(buf', 1, n) = SubSeq(buf, 1, n)
    BY <2>1, <2>3, <2>4, Keeping
  <2>5. CASE WriteBytes
    <3>1. buf' = buf \o Head(todo).bytes /\ Head(todo).bytes \in Text
      BY <1>1, <2>5, NextWrite DEF WriteBytes
    <3> QED
      BY <2>1, <2>4, <3>1
  <2>6. CASE OpenMessage
    <3>1. /\ buf' = buf \o (EncodeTag(Head(todo).field, LengthDelimited) \o Room)
          /\ EncodeTag(Head(todo).field, LengthDelimited) \o Room \in Text
      BY <1>1, <2>6, OpenWrites, ProtoAssumption
    <3> QED
      BY <2>1, <2>4, <3>1
  <2>7. CASE CloseMessage
    <3>1. n \in 0..open[Len(open)].start
      <4>1. CASE i = Len(open)
        BY <2>1, <4>1
      <4>2. CASE i # Len(open)
        <5>1. Len(open) \in DOMAIN open /\ i < Len(open)
          BY <2>2, <4>2
        <5>2. open[i].tag_end + MaxLenBytes <= open[Len(open)].start
          BY <1>1, <5>1 DEF NInv, Nests
        <5>3. /\ open[i].start < open[i].tag_end /\ open[i].tag_end \in Nat /\ MaxLenBytes \in Nat
          BY <1>1, FrameIs, ProtoAssumption
        <5>4. open[Len(open)].start \in Nat
          BY <1>1, <5>1, FrameIs, ProtoAssumption
        <5> QED
          BY <2>1, <5>2, <5>3, <5>4
      <4> QED
        BY <4>1, <4>2
    <3>2. Len(buf') >= n /\ SubSeq(buf', 1, n) = SubSeq(buf, 1, n)
      BY <1>1, <2>7, <3>1, CloseKeeps, ProtoAssumption
    <3> QED
      BY <2>1, <3>2
  <2>8. CASE Terminated
    BY <2>1, <2>8 DEF Terminated, vars
  <2>9. CASE (\E request \in Requests : Begin(request)) \/ Concatenate
    BY <2>2, <2>9 DEF Begin, Concatenate, Idle
  <2> QED
    BY <2>5, <2>6, <2>7, <2>8, <2>9 DEF Next
<1> QED
  BY <1>1, NestInvariance, PTL DEF Spec, OuterBytesKept

-----------------------------------------------------------------------------
(***************************************************************************)
(* What is written so far.  Level 0 is the request and level k the body of *)
(* the k-th open message.  done[k] are the writes that level k has made,   *)
(* whole[k] those it makes in all, and base[k] the bytes before its own.   *)
(***************************************************************************)
Written(k, done) == Allocating[Depth - k][done[k]]

\* The bytes of level k and its place: it begins at base[k].
Based(n, frames, bytes, done, base) ==
  /\ base[0] = <<>>
  /\ bytes = base[n] \o Written(n, done)
  /\ \A k \in 1..n :
       /\ frames[k].start = Len(base[k - 1] \o Written(k - 1, done))
       /\ base[k] = (base[k - 1] \o Written(k - 1, done))
                      \o (EncodeTag(frames[k].field, LengthDelimited) \o Room)

\* What a level makes in all is what it has made, the message that is open in it
\* and the rest.
Planned(n, frames, next, request, done, whole) ==
  /\ whole[0] = request
  /\ whole[n] = done[n] \o next
  /\ \A k \in 1..n :
       whole[k - 1] = Append(done[k - 1], Message(frames[k].field, whole[k])) \o frames[k].rest

Made(n, done, whole, base) ==
  \A k \in 0..n : /\ done[k] \in Seq(Writes[Depth - k]) /\ whole[k] \in Seq(Writes[Depth - k])
                  /\ base[k] \in Text

Progress ==
  \E done, whole, base :
    /\ Made(Len(open), done, whole, base)
    /\ Based(Len(open), open, buf, done, base)
    /\ Planned(Len(open), open, todo, EncodeExportRequest(Last(batch)), done, whole)

EInv == NInv /\ ((Idle /\ buf = <<>>) \/ Progress)

LEMMA AllocatingTyped ==
  ASSUME ProtoAssumption, NEW d \in Nat, NEW w \in Seq(Writes[d])
  PROVE  Allocating[d][w] \in Text
  BY AllocatingText

LEMMA AllocatingEmpty ==
  ASSUME NEW d \in Nat
  PROVE  Allocating[d][<<>>] = <<>>
<1>1. <<>> \in Seq(Writes[d])
  OBVIOUS
<1>2. Allocating[d][<<>>] = FlattenSeq(Pieces(<<>>, Allocating[d - 1]))
  BY <1>1, AllocatingIs DEF Joined
<1>3. Pieces(<<>>, Allocating[d - 1]) = <<>>
  BY DEF Pieces
<1> QED
  BY <1>2, <1>3, FlattenEmpty

LEMMA LastIs == ASSUME NEW S, NEW q \in Seq(S), NEW x \in S PROVE Last(Append(q, x)) = x
  BY Stack

LEMMA AppendHead ==
  ASSUME NEW W, NEW w \in Seq(W), NEW q \in Seq(W), q # <<>>
  PROVE  w \o q = Append(w, Head(q)) \o Tail(q)
  OBVIOUS

LEMMA LevelsOpen ==
  ASSUME NInv
  PROVE  \E n \in Nat : /\ n = Len(open) /\ n <= Depth /\ Depth \in Nat
                        /\ \A k \in 0..n : k \in Nat /\ Depth - k \in Nat
                        /\ \A k \in 1..n : k \in 0..n /\ k - 1 \in 0..n /\ k - 1 # n
                        /\ 0 \in 0..n /\ n \in 0..n
  BY OpenIs DEF NInv, Typed, Depth

\* A request that is written has the bytes that it has with a buffer for each message.
LEMMA WholeWritten ==
  ASSUME ProtoAssumption, NInv, Progress, Idle
  PROVE  buf = Allocating[Depth][EncodeExportRequest(Last(batch))]
<1>1. Len(open) = 0 /\ todo = <<>>
  BY DEF Idle
<1>2. PICK done, whole, base :
        /\ Made(0, done, whole, base) /\ Based(0, open, buf, done, base)
        /\ Planned(0, open, <<>>, EncodeExportRequest(Last(batch)), done, whole)
  BY <1>1 DEF Progress
<1>3. Depth - 0 = Depth /\ Depth \in Nat
  BY DEF Depth
<1>4. done[0] \in Seq(Writes[Depth])
  BY <1>2, <1>3 DEF Made
<1>5. done[0] = EncodeExportRequest(Last(batch))
  BY <1>2, <1>4 DEF Planned
<1>6. PICK b \in Text : b = Allocating[Depth][done[0]]
  BY <1>3, <1>4, AllocatingTyped
<1>7. buf = <<>> \o b
  BY <1>2, <1>3, <1>6 DEF Based, Written
<1>8. <<>> \o b = b
  BY DEF Text
<1> QED
  BY <1>5, <1>6, <1>7, <1>8

\* A write of bytes, or of a message that is done, is one more of its level.
AddsBytes(d, w, x) ==
  /\ Append(w, x) \in Seq(Writes[d]) /\ Allocating[d][w] \in Text /\ x.bytes \in Text
  /\ Allocating[d][Append(w, x)] = Allocating[d][w] \o x.bytes

LEMMA OneMoreBytes ==
  ASSUME ProtoAssumption, NEW d \in Nat, NEW w \in Seq(Writes[d]), NEW x \in Writes[d], x.field = 0
  PROVE  AddsBytes(d, w, x)
<1>1. Append(w, x) \in Seq(Writes[d])
  OBVIOUS
<1>2. Allocating[d][w] \in Text
  BY AllocatingTyped
<1>3. x.bytes \in Text
  BY BodyIs
<1>4. Piece(x, Allocating[d - 1]) = x.bytes
  BY DEF Piece
<1>5. Allocating[d][Append(w, x)] = Allocating[d][w] \o Piece(x, Allocating[d - 1])
  BY AllocatingAdds
<1> QED
  BY <1>1, <1>2, <1>3, <1>4, <1>5 DEF AddsBytes

LEMMA OneMoreMessage ==
  ASSUME ProtoAssumption, NEW d \in Nat, NEW w \in Seq(Writes[d + 1]), NEW x \in Writes[d + 1],
         x.field # 0
  PROVE  /\ Append(w, x) \in Seq(Writes[d + 1])
         /\ Allocating[d + 1][Append(w, x)] =
              Allocating[d + 1][w] \o EncodeBytesField(x.field, Allocating[d][x.body])
<1>1. PICK e \in Nat : e = d + 1 /\ e - 1 = d
  <2>1. d + 1 \in Nat /\ (d + 1) - 1 = d
    OBVIOUS
  <2> QED
    BY <2>1
<1>2. w \in Seq(Writes[e]) /\ x \in Writes[e]
  BY <1>1
<1>3. Allocating[e][Append(w, x)] = Allocating[e][w] \o Piece(x, Allocating[e - 1])
  BY <1>2, AllocatingAdds
<1>4. Piece(x, Allocating[e - 1]) = EncodeBytesField(x.field, Allocating[d][x.body])
  BY <1>1 DEF Piece
<1>5. Append(w, x) \in Seq(Writes[d + 1])
  OBVIOUS
<1> QED
  BY <1>1, <1>3, <1>4, <1>5

LEMMA ProgressBegin ==
  ASSUME ProtoAssumption, EncodingAssumption, NInv, NEW request \in Requests, Begin(request)
  PROVE  Progress'
<1>1. /\ open = <<>> /\ open' = open /\ buf = <<>> /\ buf' = buf /\ todo' = EncodeExportRequest(request)
      /\ batch' = Append(batch, request)
  BY DEF Begin, Idle
<1>2. PICK w \in Seq(Writes[Depth]) : w = EncodeExportRequest(request)
  BY RequestIs DEF EncodingAssumption
<1>3. Last(batch') = request
  <2>1. batch \in Seq(Requests)
    BY DEF NInv, Typed
  <2> QED
    BY <1>1, <2>1, LastIs
<1>4. Len(open') = 0 /\ Depth - 0 = Depth /\ Depth \in Nat
  BY <1>1 DEF Depth
<1> DEFINE done == [k \in {0} |-> <<>>]
           whole == [k \in {0} |-> w]
<1>5. done[0] = <<>> /\ whole[0] = w
  OBVIOUS
<1> HIDE DEF done, whole
<1>6. Made(0, done, whole, done)
  <2>1. <<>> \in Seq(Writes[Depth]) /\ <<>> \in Text
    BY DEF Text
  <2>2. done[0] \in Seq(Writes[Depth - 0]) /\ whole[0] \in Seq(Writes[Depth - 0]) /\ done[0] \in Text
    BY <1>4, <1>5, <2>1
  <2>3. \A k \in 0..0 : k = 0
    OBVIOUS
  <2> QED
    BY <2>2, <2>3 DEF Made
<1>7. Based(0, open', buf', done, done)
  <2>1. Allocating[Depth][<<>>] = <<>>
    BY <1>4, AllocatingEmpty
  <2>2. <<>> \o <<>> = <<>>
    OBVIOUS
  <2> QED
    BY <1>1, <1>4, <1>5, <2>1, <2>2 DEF Based, Written
<1>8. Planned(0, open', todo', EncodeExportRequest(Last(batch')), done, whole)
  <2>1. <<>> \o w = w
    OBVIOUS
  <2> QED
    BY <1>1, <1>2, <1>3, <1>4, <1>5, <2>1 DEF Planned
<1> QED
  BY <1>4, <1>6, <1>7, <1>8 DEF Progress

LEMMA MessageBack ==
  ASSUME NEW d \in Nat, NEW x \in Writes[d], x.field # 0
  PROVE  x = Message(x.field, x.body)
<1>1. d # 0
  BY PlainIs
<1>2. PICK e \in Nat : d = e + 1
  <2>1. d - 1 \in Nat /\ d = (d - 1) + 1
    BY <1>1
  <2> QED
    BY <2>1
<1>3. x \in Nested(Writes[e])
  BY <1>2, WritesIs
<1> QED
  BY <1>3 DEF Nested, Plain, Message

LEMMA ProgressWriteBytes ==
  ASSUME ProtoAssumption, NInv, Progress, WriteBytes
  PROVE  Progress'
<1>1. /\ todo # <<>> /\ Head(todo).field = 0 /\ buf' = buf \o Head(todo).bytes
      /\ todo' = Tail(todo) /\ open' = open /\ batch' = batch
  BY DEF WriteBytes
<1>2. PICK D \in Nat : /\ D = Len(open) /\ Depth - D \in Nat /\ D \in 0..D
                       /\ \A k \in 1..D : k - 1 \in 0..D /\ k - 1 # D
  BY LevelsOpen
<1>3. PICK request : request = EncodeExportRequest(Last(batch))
  OBVIOUS
<1>4. PICK done, whole, base :
        /\ Made(D, done, whole, base) /\ Based(D, open, buf, done, base)
        /\ Planned(D, open, todo, request, done, whole)
  BY <1>2, <1>3 DEF Progress
<1>5. PICK x \in Writes[Depth - D] : x = Head(todo) /\ x.field = 0
  BY <1>1, <1>2, NextWrite
<1>6. PICK w \in Seq(Writes[Depth - D]) : w = done[D]
  BY <1>2, <1>4 DEF Made
<1> DEFINE after == [k \in 0..D |-> IF k = D THEN Append(w, x) ELSE done[k]]
<1>7. after[D] = Append(w, x) /\ \A k \in 0..D : k # D => after[k] = done[k]
  BY <1>2
<1> HIDE DEF after
<1>8. /\ Append(w, x) \in Seq(Writes[Depth - D]) /\ Allocating[Depth - D][w] \in Text
      /\ x.bytes \in Text
      /\ Allocating[Depth - D][Append(w, x)] = Allocating[Depth - D][w] \o x.bytes
  <2>1. PICK d \in Nat : d = Depth - D
    BY <1>2
  <2>2. w \in Seq(Writes[d]) /\ x \in Writes[d]
    BY <2>1
  <2>3. AddsBytes(d, w, x)
    BY <1>5, <2>2, OneMoreBytes
  <2> QED
    BY <2>1, <2>3 DEF AddsBytes
<1>9. Made(D, after, whole, base)
  <2>1. \A k \in 0..D : after[k] \in Seq(Writes[Depth - k])
    BY <1>4, <1>7, <1>8 DEF Made
  <2> QED
    BY <1>4, <2>1 DEF Made
<1>10. \A k \in 1..D : after[k - 1] = done[k - 1]
  BY <1>2, <1>7
<1>11. Based(D, open', buf', after, base)
  <2>1. PICK a \in Text : a = base[D]
    BY <1>2, <1>4 DEF Made
  <2>2. PICK b \in Text : b = Allocating[Depth - D][w]
    BY <1>8
  <2>3. PICK t \in Text : t = x.bytes
    BY <1>8
  <2>4. buf = a \o b
    BY <1>4, <1>6, <2>1, <2>2 DEF Based, Written
  <2>5. (a \o b) \o t = a \o (b \o t)
    <3>1. Associates(a, b, t)
      BY JoinAssociates
    <3> QED
      BY <3>1 DEF Associates
  <2>6. buf' = base[D] \o Written(D, after)
    BY <1>1, <1>5, <1>7, <1>8, <2>1, <2>2, <2>3, <2>4, <2>5 DEF Written
  <2>7. \A k \in 1..D : Written(k - 1, after) = Written(k - 1, done)
    BY <1>10 DEF Written
  <2> QED
    BY <1>1, <1>4, <2>6, <2>7 DEF Based
<1>12. Planned(D, open', todo', request, after, whole)
  <2>1. PICK W : W = Writes[Depth - D]
    OBVIOUS
  <2>2. PICK q \in Seq(W) : q = todo
    BY <1>2, <2>1 DEF NInv, Typed
  <2>3. w \o q = Append(w, Head(q)) \o Tail(q)
    BY <1>1, <2>1, <2>2, AppendHead
  <2>4. whole[D] = after[D] \o todo'
    BY <1>1, <1>4, <1>5, <1>6, <1>7, <2>2, <2>3 DEF Planned
  <2>5. whole[0] = request
    BY <1>4 DEF Planned
  <2>6. \A k \in 1..D :
          whole[k - 1] = Append(after[k - 1], Message(open[k].field, whole[k])) \o open[k].rest
    BY <1>4, <1>10 DEF Planned
  <2> QED
    BY <1>1, <2>4, <2>5, <2>6 DEF Planned
<1>13. D = Len(open') /\ request = EncodeExportRequest(Last(batch'))
  BY <1>1, <1>2, <1>3
<1> QED
  BY <1>9, <1>11, <1>12, <1>13 DEF Progress

LEMMA ProgressOpen ==
  ASSUME ProtoAssumption, NInv, NInv', Progress, OpenMessage
  PROVE  Progress'
<1>1. /\ todo # <<>> /\ Head(todo).field # 0
      /\ buf' = buf \o (EncodeTag(Head(todo).field, LengthDelimited) \o Room)
      /\ open' = Append(open, Pushed) /\ todo' = Head(todo).body /\ batch' = batch /\ buf' \in Text
  BY OpenWrites DEF OpenMessage
<1>2. PICK D \in Nat : /\ D = Len(open) /\ Depth - D \in Nat /\ D \in 0..D /\ 0 \in 0..D
                       /\ \A k \in 1..D : k \in 0..D /\ k - 1 \in 0..D
  BY LevelsOpen
<1>3. PICK request : request = EncodeExportRequest(Last(batch))
  OBVIOUS
<1>4. PICK done, whole, base :
        /\ Made(D, done, whole, base) /\ Based(D, open, buf, done, base)
        /\ Planned(D, open, todo, request, done, whole)
  BY <1>2, <1>3 DEF Progress
<1>5. /\ Len(open') = D + 1 /\ open'[D + 1] = Pushed /\ \A i \in 1..D : open'[i] = open[i]
  <2>1. PICK S : open \in Seq(S)
    BY DEF NInv, Typed
  <2>2. PICK T : T = S \cup {Pushed}
    OBVIOUS
  <2>3. open \in Seq(T) /\ Pushed \in T
    BY <2>1, <2>2
  <2> QED
    BY <1>1, <1>2, <2>3, Stack
<1>6. Depth - (D + 1) \in Nat /\ (Depth - D) - 1 = Depth - (D + 1)
  <2>1. Len(open') <= Depth
    BY DEF NInv, Typed
  <2> QED
    BY <1>2, <1>5, <2>1 DEF Depth
<1>7. PICK x \in Writes[Depth - D] : /\ x = Head(todo) /\ x.field # 0
                                     /\ x.body \in Seq(Writes[Depth - (D + 1)])
  BY <1>1, <1>2, <1>6, NextWrite
<1> DEFINE done1 == [k \in 0..(D + 1) |-> IF k = D + 1 THEN <<>> ELSE done[k]]
           whole1 == [k \in 0..(D + 1) |-> IF k = D + 1 THEN x.body ELSE whole[k]]
           base1 == [k \in 0..(D + 1) |-> IF k = D + 1 THEN buf' ELSE base[k]]
<1>8. /\ done1[D + 1] = <<>> /\ whole1[D + 1] = x.body /\ base1[D + 1] = buf'
      /\ \A k \in 0..D : done1[k] = done[k] /\ whole1[k] = whole[k] /\ base1[k] = base[k]
  BY <1>2
<1> HIDE DEF done1, whole1, base1
<1>9. /\ \A k \in 0..(D + 1) : k = D + 1 \/ k \in 0..D
      /\ \A k \in 1..(D + 1) : k - 1 \in 0..D /\ (k = D + 1 \/ k \in 1..D)
  BY <1>2
<1>10. Made(D + 1, done1, whole1, base1)
  <2>1. ASSUME NEW k \in 0..(D + 1)
        PROVE  /\ done1[k] \in Seq(Writes[Depth - k]) /\ whole1[k] \in Seq(Writes[Depth - k])
               /\ base1[k] \in Text
    <3>1. CASE k = D + 1
      <4>1. <<>> \in Seq(Writes[Depth - (D + 1)])
        OBVIOUS
      <4> QED
        BY <1>1, <1>7, <1>8, <3>1, <4>1
    <3>2. CASE k \in 0..D
      BY <1>4, <1>8, <3>2 DEF Made
    <3> QED
      BY <1>9, <3>1, <3>2
  <2> QED
    BY <2>1 DEF Made
<1>11. \A k \in 1..(D + 1) :
         base1[k - 1] = base[k - 1] /\ done1[k - 1] = done[k - 1] /\ whole1[k - 1] = whole[k - 1]
  BY <1>8, <1>9
<1>12. Based(D + 1, open', buf', done1, base1)
  <2>1. Allocating[Depth - (D + 1)][<<>>] = <<>> /\ buf' \o <<>> = buf'
    BY <1>1, <1>6, AllocatingEmpty DEF Text
  <2>2. buf' = base1[D + 1] \o Written(D + 1, done1)
    BY <1>8, <2>1 DEF Written
  <2>3. base1[0] = <<>>
    BY <1>2, <1>4, <1>8 DEF Based
  <2>4. \A k \in 1..(D + 1) : Written(k - 1, done1) = Written(k - 1, done)
    BY <1>11 DEF Written
  <2>5. ASSUME NEW k \in 1..(D + 1)
        PROVE  /\ open'[k].start = Len(base1[k - 1] \o Written(k - 1, done1))
               /\ base1[k] = (base1[k - 1] \o Written(k - 1, done1))
                               \o (EncodeTag(open'[k].field, LengthDelimited) \o Room)
    <3>1. CASE k = D + 1
      <4>1. buf = base[D] \o Written(D, done)
        BY <1>4 DEF Based
      <4>2. open'[k].start = Len(buf) /\ open'[k].field = Head(todo).field
        BY <1>5, <3>1 DEF Pushed
      <4>3. k - 1 = D
        BY <1>2, <3>1
      <4>4. base1[k - 1] \o Written(k - 1, done1) = buf
        BY <1>11, <2>4, <4>1, <4>3
      <4> QED
        BY <1>1, <1>8, <3>1, <4>2, <4>4
    <3>2. CASE k \in 1..D
      <4>1. /\ open[k].start = Len(base[k - 1] \o Written(k - 1, done))
            /\ base[k] = (base[k - 1] \o Written(k - 1, done))
                           \o (EncodeTag(open[k].field, LengthDelimited) \o Room)
        BY <1>4, <3>2 DEF Based
      <4>2. base1[k] = base[k] /\ open'[k] = open[k]
        BY <1>2, <1>5, <1>8, <3>2
      <4> QED
        BY <1>11, <2>4, <4>1, <4>2
    <3> QED
      BY <1>9, <3>1, <3>2
  <2> QED
    BY <2>2, <2>3, <2>5 DEF Based
<1>13. Planned(D + 1, open', todo', request, done1, whole1)
  <2>1. whole1[0] = request
    BY <1>2, <1>4, <1>8 DEF Planned
  <2>2. whole1[D + 1] = done1[D + 1] \o todo'
    <3>1. <<>> \o x.body = x.body
      BY <1>7
    <3> QED
      BY <1>1, <1>7, <1>8, <3>1
  <2>3. ASSUME NEW k \in 1..(D + 1)
        PROVE  whole1[k - 1] = Append(done1[k - 1], Message(open'[k].field, whole1[k])) \o open'[k].rest
    <3>1. CASE k = D + 1
      <4>1. x = Message(open'[k].field, whole1[k]) /\ open'[k].rest = Tail(todo)
        <5>1. x = Message(x.field, x.body)
          BY <1>2, <1>7, MessageBack
        <5> QED
          BY <1>5, <1>7, <1>8, <3>1, <5>1 DEF Pushed
      <4>2. PICK W : W = Writes[Depth - D]
        OBVIOUS
      <4>3. PICK w \in Seq(W) : w = done[D]
        BY <1>2, <1>4, <4>2 DEF Made
      <4>4. PICK q \in Seq(W) : q = todo
        BY <1>2, <4>2 DEF NInv, Typed
      <4>5. w \o q = Append(w, Head(q)) \o Tail(q)
        BY <1>1, <4>3, <4>4, AppendHead
      <4>6. whole[D] = w \o q
        BY <1>4, <4>3, <4>4 DEF Planned
      <4>7. k - 1 = D
        BY <1>2, <3>1
      <4>8. whole1[k - 1] = whole[D] /\ done1[k - 1] = w
        BY <1>11, <4>3, <4>7
      <4> QED
        BY <1>7, <4>1, <4>4, <4>5, <4>6, <4>8
    <3>2. CASE k \in 1..D
      <4>1. whole[k - 1] = Append(done[k - 1], Message(open[k].field, whole[k])) \o open[k].rest
        BY <1>4, <3>2 DEF Planned
      <4>2. whole1[k] = whole[k] /\ open'[k] = open[k]
        BY <1>2, <1>5, <1>8, <3>2
      <4> QED
        BY <1>11, <4>1, <4>2
    <3> QED
      BY <1>9, <3>1, <3>2
  <2> QED
    BY <2>1, <2>2, <2>3 DEF Planned
<1>14. Len(open') = D + 1 /\ request = EncodeExportRequest(Last(batch'))
  BY <1>1, <1>3, <1>5
<1> QED
  BY <1>10, <1>12, <1>13, <1>14 DEF Progress

\* What CloseMessage cuts out of b, the bytes before the message and after its
\* tag and room, up to n: its body, what was there before it, and the same with
\* the field written behind it.
Restores(b, n, before, f, body) ==
  /\ SubSeq(b, n + MaxLenBytes + 1, Len(b)) = body
  /\ SubSeq(b, 1, Len(before)) = before
  /\ body # <<>> =>
       SubSeq(b, 1, n) \o (EncodeVarint[Len(body)] \o body) = before \o EncodeBytesField(f, body)

LEMMA Patched ==
  ASSUME ProtoAssumption, NEW before \in Text, NEW f \in Nat, NEW body \in Text
  PROVE  Restores((before \o (EncodeTag(f, LengthDelimited) \o Room)) \o body,
                  Len(before) + VarintTagLen(f), before, f, body)
<1>1. PICK tag \in Text : /\ tag = EncodeTag(f, LengthDelimited) /\ Len(tag) = VarintTagLen(f)
                          /\ Len(tag) \in Nat
  BY TagIs
<1>2. PICK room \in Text : room = Room /\ Len(room) = MaxLenBytes /\ Len(room) \in Nat
  BY RoomIs DEF ProtoAssumption
<1>3. PICK h \in Text : h = before \o tag /\ Len(h) = Len(before) + Len(tag)
  BY JoinIs
<1>4. PICK tagged \in Text : tagged = tag \o room
  BY JoinIs
<1>5. PICK roomy \in Text : roomy = room \o body
  BY JoinIs
<1>6. PICK g \in Text : g = before \o tagged
  BY JoinIs
<1>7. PICK r \in Text : r = tag \o roomy
  BY JoinIs
<1>8. PICK b \in Text : b = g \o body
  BY JoinIs
<1>9. PICK n \in Nat : n = Len(before) + VarintTagLen(f) /\ n = Len(h)
  <2>1. Len(before) \in Nat
    BY JoinIs
  <2> QED
    BY <1>1, <1>3, <2>1
<1>10. g = h \o room /\ Len(g) = n + MaxLenBytes
  <2>1. (before \o tag) \o room = before \o (tag \o room)
    <3>1. Associates(before, tag, room)
      BY JoinAssociates
    <3> QED
      BY <3>1 DEF Associates
  <2>2. Len(h \o room) = Len(h) + Len(room)
    BY JoinIs
  <2> QED
    BY <1>2, <1>3, <1>4, <1>6, <1>9, <2>1, <2>2
<1>11. b = h \o roomy
  <2>1. (h \o room) \o body = h \o (room \o body)
    <3>1. Associates(h, room, body)
      BY JoinAssociates
    <3> QED
      BY <3>1 DEF Associates
  <2> QED
    BY <1>5, <1>8, <1>10, <2>1
<1>12. b = before \o r
  <2>1. (before \o tag) \o roomy = before \o (tag \o roomy)
    <3>1. Associates(before, tag, roomy)
      BY JoinAssociates
    <3> QED
      BY <3>1 DEF Associates
  <2> QED
    BY <1>3, <1>7, <1>11, <2>1
<1>13. SubSeq(b, n + MaxLenBytes + 1, Len(b)) = body
  <2>1. SubSeq(g \o body, Len(g) + 1, Len(g \o body)) = body
    BY Splitting
  <2> QED
    BY <1>8, <1>10, <2>1
<1>14. SubSeq(b, 1, Len(before)) = before
  BY <1>12, Splitting
<1>15. SubSeq(b, 1, n) = h
  BY <1>9, <1>11, Splitting
<1>16. ASSUME body # <<>>
       PROVE  h \o (EncodeVarint[Len(body)] \o body) = before \o EncodeBytesField(f, body)
  <2>1. PICK v \in Text : v = EncodeVarint[Len(body)]
    <3>1. Len(body) \in Nat
      BY JoinIs
    <3> QED
      BY <3>1, EncodeVarintIs
  <2>2. EncodeBytesField(f, body) = (tag \o v) \o body
    BY <1>1, <1>16, <2>1 DEF EncodeBytesField
  <2>3. PICK vb \in Text : vb = v \o body
    BY JoinIs
  <2>4. (tag \o v) \o body = tag \o vb /\ (before \o tag) \o vb = before \o (tag \o vb)
    <3>1. (tag \o v) \o body = tag \o (v \o body)
      <4>1. Associates(tag, v, body)
        BY JoinAssociates
      <4> QED
        BY <4>1 DEF Associates
    <3>2. (before \o tag) \o vb = before \o (tag \o vb)
      <4>1. Associates(before, tag, vb)
        BY JoinAssociates
      <4> QED
        BY <4>1 DEF Associates
    <3> QED
      BY <2>3, <3>1, <3>2
  <2> QED
    BY <1>3, <2>1, <2>2, <2>3, <2>4
<1>17. b = (before \o (EncodeTag(f, LengthDelimited) \o Room)) \o body
  BY <1>1, <1>2, <1>4, <1>6, <1>8
<1> QED
  BY <1>9, <1>13, <1>14, <1>15, <1>16, <1>17 DEF Restores

LEMMA ProgressClose ==
  ASSUME ProtoAssumption, NInv, Progress, CloseMessage
  PROVE  Progress'
<1>1. PICK D \in Nat : /\ D = Len(open) /\ Depth - D \in Nat /\ D \in 0..D /\ D <= Depth /\ Depth \in Nat
                       /\ DOMAIN open = 1..D
  BY LevelsOpen, OpenIs
<1>2. PICK m : m = open[D]
  OBVIOUS
<1>3. PICK body \in Text : body = SubSeq(buf, m.tag_end + MaxLenBytes + 1, Len(buf))
  BY <1>1, <1>2, CloseWrites
<1>4. /\ todo = <<>> /\ open # <<>> /\ D \in 1..D
      /\ body = <<>> => buf' = SubSeq(buf, 1, m.start)
      /\ body # <<>> => buf' = SubSeq(buf, 1, m.tag_end) \o (EncodeVarint[Len(body)] \o body)
      /\ todo' = m.rest /\ open' = Front(open) /\ batch' = batch
  BY <1>1, <1>2, <1>3, CloseWrites
<1>5. PICK request : request = EncodeExportRequest(Last(batch))
  OBVIOUS
<1>6. PICK done, whole, base :
        /\ Made(D, done, whole, base) /\ Based(D, open, buf, done, base)
        /\ Planned(D, open, <<>>, request, done, whole)
  BY <1>1, <1>4, <1>5 DEF Progress
<1>7. PICK C \in Nat : /\ D = C + 1 /\ C = D - 1 /\ C \in 0..C /\ C \in 0..D
                       /\ \A k \in 0..C : k \in 0..D
                       /\ \A k \in 1..C : k \in 1..D /\ k - 1 \in 0..C /\ k \in 0..C /\ k - 1 # C
                       /\ 0 \in 0..C
  <2>1. D - 1 \in Nat /\ D = (D - 1) + 1
    BY <1>4
  <2> QED
    BY <2>1
<1>8. /\ Len(open') = C /\ \A i \in 1..C : open'[i] = open[i]
  <2>1. PICK S : open \in Seq(S)
    BY DEF NInv, Typed
  <2> QED
    BY <1>1, <1>4, <1>7, <2>1, Stack
<1>9. PICK d \in Nat : d = Depth - D /\ d + 1 = Depth - C /\ Depth - C \in Nat
  BY <1>1, <1>7 DEF Depth
<1>10. PICK v \in Seq(Writes[d]) : v = done[D] /\ v = whole[D]
  <2>1. PICK W : W = Writes[d]
    OBVIOUS
  <2>2. PICK v \in Seq(W) : v = done[D]
    BY <1>1, <1>6, <1>9, <2>1 DEF Made
  <2>3. whole[D] = v \o <<>> /\ v \o <<>> = v
    BY <1>6, <2>2 DEF Planned
  <2> QED
    BY <2>1, <2>2, <2>3
<1>11. PICK w \in Seq(Writes[d + 1]) : w = done[C]
  BY <1>6, <1>7, <1>9 DEF Made
<1>12. m.field \in Nat /\ m.field # 0 /\ m.tag_end = m.start + VarintTagLen(m.field)
  BY <1>1, <1>2, <1>4 DEF NInv, Typed
<1>13. PICK x \in Writes[d + 1] : x = Message(m.field, v) /\ x.field = m.field /\ x.body = v
  <2>1. Message(m.field, v) \in Nested(Writes[d])
    BY <1>12, MessageIs
  <2>2. Message(m.field, v).field = m.field /\ Message(m.field, v).body = v
    BY DEF Message
  <2> QED
    BY <2>1, <2>2, WritesIs
<1>14. PICK inner \in Text : inner = Allocating[d][v]
  BY AllocatingTyped
<1>15. PICK outer \in Text : outer = Allocating[d + 1][w]
  BY AllocatingTyped
<1>16. /\ Append(w, x) \in Seq(Writes[d + 1])
       /\ Allocating[d + 1][Append(w, x)] = outer \o EncodeBytesField(m.field, inner)
  <2>1. /\ Append(w, x) \in Seq(Writes[d + 1])
        /\ Allocating[d + 1][Append(w, x)] =
             Allocating[d + 1][w] \o EncodeBytesField(x.field, Allocating[d][x.body])
    BY <1>12, <1>13, OneMoreMessage
  <2> QED
    BY <1>13, <1>14, <1>15, <2>1
<1>17. PICK before \in Text : before = base[C] \o outer
  <2>1. base[C] \in Text
    BY <1>6, <1>7 DEF Made
  <2> QED
    BY <2>1, JoinedText
<1>18. /\ m.start = Len(before)
       /\ buf = (before \o (EncodeTag(m.field, LengthDelimited) \o Room)) \o inner
  <2>1. Written(C, done) = outer /\ Written(D, done) = inner
    BY <1>9, <1>10, <1>11, <1>14, <1>15 DEF Written
  <2>2. /\ open[D].start = Len(base[D - 1] \o Written(D - 1, done))
        /\ base[D] = (base[D - 1] \o Written(D - 1, done))
                       \o (EncodeTag(open[D].field, LengthDelimited) \o Room)
        /\ buf = base[D] \o Written(D, done)
    BY <1>4, <1>6 DEF Based
  <2> QED
    BY <1>2, <1>7, <1>17, <2>1, <2>2
<1>19. /\ body = inner /\ SubSeq(buf, 1, m.start) = before
       /\ inner # <<>> => SubSeq(buf, 1, m.tag_end) \o (EncodeVarint[Len(inner)] \o inner)
                            = before \o EncodeBytesField(m.field, inner)
  <2>1. Restores((before \o (EncodeTag(m.field, LengthDelimited) \o Room)) \o inner,
                 Len(before) + VarintTagLen(m.field), before, m.field, inner)
    BY <1>12, Patched
  <2>2. Restores(buf, m.tag_end, before, m.field, inner)
    BY <1>12, <1>18, <2>1
  <2> QED
    BY <1>3, <1>18, <2>2 DEF Restores
<1>20. buf' = base[C] \o Allocating[d + 1][Append(w, x)]
  <2>1. PICK b \in Text : b = base[C]
    BY <1>6, <1>7 DEF Made
  <2>2. PICK e \in Text : e = EncodeBytesField(m.field, inner)
    BY <1>12, BytesAreText
  <2>3. (b \o outer) \o e = b \o (outer \o e)
    <3>1. Associates(b, outer, e)
      BY JoinAssociates
    <3> QED
      BY <3>1 DEF Associates
  <2>6. before \o <<>> = before
    BY DEF Text
  <2>4. inner = <<>> => e = <<>>
    BY <2>2 DEF EncodeBytesField
  <2>5. buf' = before \o e
    BY <1>4, <1>19, <2>2, <2>4, <2>6
  <2> QED
    BY <1>16, <1>17, <2>1, <2>2, <2>3, <2>5
<1> DEFINE after == [k \in 0..C |-> IF k = C THEN Append(w, x) ELSE done[k]]
<1>21. after[C] = Append(w, x) /\ \A k \in 0..C : k # C => after[k] = done[k]
  BY <1>7
<1> HIDE DEF after
<1>22. Made(C, after, whole, base)
  <2>1. \A k \in 0..C : after[k] \in Seq(Writes[Depth - k])
    BY <1>6, <1>7, <1>9, <1>16, <1>21 DEF Made
  <2> QED
    BY <1>6, <1>7, <2>1 DEF Made
<1>23. \A k \in 1..C : after[k - 1] = done[k - 1]
  BY <1>7, <1>21
<1>24. Based(C, open', buf', after, base)
  <2>1. buf' = base[C] \o Written(C, after)
    BY <1>9, <1>20, <1>21 DEF Written
  <2>2. \A k \in 1..C : Written(k - 1, after) = Written(k - 1, done)
    BY <1>23 DEF Written
  <2> QED
    BY <1>6, <1>7, <1>8, <2>1, <2>2 DEF Based
<1>25. Planned(C, open', todo', request, after, whole)
  <2>1. whole[C] = after[C] \o todo'
    <3>1. whole[D - 1] = Append(done[D - 1], Message(open[D].field, whole[D])) \o open[D].rest
      BY <1>4, <1>6 DEF Planned
    <3> QED
      BY <1>2, <1>4, <1>7, <1>10, <1>11, <1>13, <1>21, <3>1
  <2>2. whole[0] = request
    BY <1>6 DEF Planned
  <2>3. \A k \in 1..C :
          whole[k - 1] = Append(after[k - 1], Message(open'[k].field, whole[k])) \o open'[k].rest
    BY <1>6, <1>7, <1>8, <1>23 DEF Planned
  <2> QED
    BY <2>1, <2>2, <2>3 DEF Planned
<1>26. Len(open') = C /\ request = EncodeExportRequest(Last(batch'))
  BY <1>4, <1>5, <1>8
<1> QED
  BY <1>22, <1>24, <1>25, <1>26 DEF Progress

\* What is in the buffer is what the levels have written, each behind the tag and
\* the room of the message around it, and each has the rest of its writes to do.
THEOREM InPlaceInvariance == Spec => []EInv
<1>1. Init => EInv
  BY NestInit, ProtoAssumption, EncodingAssumption DEF EInv, Init, Idle
<1>2. EInv /\ [Next]_vars => EInv'
  <2> SUFFICES ASSUME EInv, [Next]_vars PROVE EInv'
    OBVIOUS
  <2> USE ProtoAssumption, EncodingAssumption
  <2>1. NInv /\ NInv'
    BY NestStep DEF EInv
  <2>2. Progress \/ (Idle /\ buf = <<>>)
    BY DEF EInv
  <2>3. ASSUME NEW request \in Requests, Begin(request) PROVE Progress'
    BY <2>1, <2>3, ProgressBegin
  <2>4. ASSUME WriteBytes \/ OpenMessage \/ CloseMessage PROVE Progress
    BY <2>2, <2>4 DEF Idle, WriteBytes, OpenMessage, CloseMessage
  <2>5. CASE WriteBytes
    BY <2>1, <2>4, <2>5, ProgressWriteBytes DEF EInv
  <2>6. CASE OpenMessage
    BY <2>1, <2>4, <2>6, ProgressOpen DEF EInv
  <2>7. CASE CloseMessage
    BY <2>1, <2>4, <2>7, ProgressClose DEF EInv
  <2>8. CASE Concatenate
    BY <2>1, <2>8 DEF EInv, Concatenate, Idle
  <2>9. CASE Terminated \/ UNCHANGED vars
    BY <2>1, <2>2, <2>9 DEF EInv, Terminated, vars, Idle, Progress
  <2> QED
    BY <2>1, <2>3, <2>5, <2>6, <2>7, <2>8, <2>9 DEF EInv, Next
<1> QED
  BY <1>1, <1>2, PTL DEF Spec

\* A request that is written in place has the bytes that it has with a buffer
\* for each of its messages.
THEOREM InPlace == Spec => []InPlaceMatchesAllocating
<1>1. EInv => InPlaceMatchesAllocating
  BY WholeWritten, ProtoAssumption DEF EInv, InPlaceMatchesAllocating
<1> QED
  BY <1>1, InPlaceInvariance, PTL

-----------------------------------------------------------------------------
(***************************************************************************)
(* Sequences of which some elements are kept.                              *)
(***************************************************************************)
\* Kept flattens a sequence of the elements that are kept and of nothing for the others.
Picks(s, positions) == [i \in DOMAIN s |-> IF i \in positions THEN <<s[i]>> ELSE <<>>]

LEMMA PicksAre ==
  ASSUME NEW X, NEW s \in Seq(X), NEW positions
  PROVE  /\ Picks(s, positions) \in Seq(Seq(X)) /\ DOMAIN Picks(s, positions) = DOMAIN s
         /\ Kept(s, positions) = FlattenSeq(Picks(s, positions)) /\ Kept(s, positions) \in Seq(X)
<1>1. \A i \in DOMAIN s : (IF i \in positions THEN <<s[i]>> ELSE <<>>) \in Seq(X)
  <2>1. ASSUME NEW i \in DOMAIN s PROVE <<s[i]>> \in Seq(X) /\ <<>> \in Seq(X)
    <3>1. s[i] \in X
      OBVIOUS
    <3> QED
      BY ONLY <3>1
  <2> QED
    BY ONLY <2>1
<1>2. Len(s) \in Nat /\ DOMAIN s = 1..Len(s)
  OBVIOUS
<1>3. Picks(s, positions) \in Seq(Seq(X)) /\ DOMAIN Picks(s, positions) = DOMAIN s
  BY ONLY <1>1, <1>2 DEF Picks
<1>4. Kept(s, positions) = FlattenSeq(Picks(s, positions))
  BY Zenon DEF Kept, Picks
<1> QED
  BY ONLY <1>3, <1>4, FlattenSeqs

\* A function on the elements of a sequence, and on those that are kept.
Mapped(m, s) == [i \in DOMAIN s |-> m[s[i]]]

MapsKept(m, s, positions) == Mapped(m, Kept(s, positions)) = Kept(Mapped(m, s), positions)

\* Keeping some positions and then mapping is mapping and then keeping them.
LEMMA KeptMaps ==
  ASSUME NEW X, NEW Y, NEW s \in Seq(X), NEW positions
  PROVE  \A m \in [X -> Y] : MapsKept(m, s, positions)
<1> SUFFICES ASSUME NEW m \in [X -> Y]
             PROVE  Mapped(m, Kept(s, positions)) = Kept(Mapped(m, s), positions)
  BY DEF MapsKept
<1> DEFINE R == {x \in Seq(X) \X Seq(Y) : x[2] = Mapped(m, x[1])}
           p == Picks(s, positions)
           q == Picks(Mapped(m, s), positions)
<1>0. \A t \in Seq(X) :
        Mapped(m, t) \in Seq(Y) /\ DOMAIN Mapped(m, t) = DOMAIN t /\ Len(Mapped(m, t)) = Len(t)
  <2> HIDE DEF R, p, q
  <2> SUFFICES ASSUME NEW t \in Seq(X)
               PROVE  Mapped(m, t) \in Seq(Y) /\ DOMAIN Mapped(m, t) = DOMAIN t /\ Len(Mapped(m, t)) = Len(t)
    OBVIOUS
  <2>1. Len(t) \in Nat /\ DOMAIN t = 1..Len(t) /\ \A i \in DOMAIN t : m[t[i]] \in Y
    OBVIOUS
  <2> QED
    BY ONLY <2>1 DEF Mapped
<1>1. JoinClosed(R)
  <2>1. <<<<>>, <<>>>> \in R
    BY DEF Mapped
  <2>2. ASSUME NEW a \in Seq(X), NEW x \in Seq(X)
        PROVE  Mapped(m, a \o x) = Mapped(m, a) \o Mapped(m, x)
    <3>1. /\ Len(a) \in Nat /\ Len(x) \in Nat /\ DOMAIN a = 1..Len(a) /\ DOMAIN x = 1..Len(x)
          /\ DOMAIN (a \o x) = 1..(Len(a) + Len(x)) /\ a \o x \in Seq(X)
      OBVIOUS
    <3>2. /\ Mapped(m, a) \in Seq(Y) /\ Mapped(m, x) \in Seq(Y) /\ Len(Mapped(m, a)) = Len(a)
          /\ Len(Mapped(m, x)) = Len(x)
      BY <1>0
    <3>3. /\ \A i \in 1..(Len(a) + Len(x)) :
               (a \o x)[i] = IF i <= Len(a) THEN a[i] ELSE x[i - Len(a)]
      OBVIOUS
    <3>4. /\ DOMAIN (Mapped(m, a) \o Mapped(m, x)) = 1..(Len(a) + Len(x))
          /\ Mapped(m, a) \o Mapped(m, x) = [i \in 1..(Len(a) + Len(x)) |-> (Mapped(m, a) \o Mapped(m, x))[i]]
      <4>1. PICK u \in Seq(Y), v \in Seq(Y) : u = Mapped(m, a) /\ v = Mapped(m, x)
        BY ONLY <3>2
      <4>2. DOMAIN (u \o v) = 1..(Len(u) + Len(v)) /\ u \o v = [i \in 1..(Len(u) + Len(v)) |-> (u \o v)[i]]
        BY ONLY JoinParts, u \in Seq(Y), v \in Seq(Y)
      <4> QED
        BY ONLY <3>2, <4>1, <4>2
    <3>5. \A i \in 1..(Len(a) + Len(x)) : (Mapped(m, a) \o Mapped(m, x))[i] =
              IF i <= Len(a) THEN Mapped(m, a)[i] ELSE Mapped(m, x)[i - Len(a)]
      BY ONLY <3>1, <3>2
    <3>6. \A i \in 1..(Len(a) + Len(x)) : (Mapped(m, a) \o Mapped(m, x))[i] = m[(a \o x)[i]]
      <4> SUFFICES ASSUME NEW i \in 1..(Len(a) + Len(x))
                   PROVE  (Mapped(m, a) \o Mapped(m, x))[i] = m[(a \o x)[i]]
        OBVIOUS
      <4>1. CASE i <= Len(a)
        <5>1. i \in DOMAIN a
          BY ONLY <3>1, <4>1, i \in 1..(Len(a) + Len(x))
        <5>2. Mapped(m, a)[i] = m[a[i]]
          BY ONLY <5>1 DEF Mapped
        <5> QED
          BY ONLY <3>3, <3>5, <4>1, <5>2, i \in 1..(Len(a) + Len(x))
      <4>2. CASE ~(i <= Len(a))
        <5>1. i - Len(a) \in DOMAIN x
          BY ONLY <3>1, <4>2, i \in 1..(Len(a) + Len(x))
        <5>2. Mapped(m, x)[i - Len(a)] = m[x[i - Len(a)]]
          BY ONLY <5>1 DEF Mapped
        <5> QED
          BY ONLY <3>3, <3>5, <4>2, <5>2, i \in 1..(Len(a) + Len(x))
      <4> QED
        BY ONLY <4>1, <4>2
    <3> QED
      BY ONLY <3>1, <3>4, <3>6 DEF Mapped
  <2>3. ASSUME NEW a, NEW b, NEW x, NEW y, <<a, b>> \in R, <<x, y>> \in R
        PROVE  <<a \o x, b \o y>> \in R
    <3>1. a \in Seq(X) /\ x \in Seq(X) /\ b = Mapped(m, a) /\ y = Mapped(m, x) /\ b \in Seq(Y) /\ y \in Seq(Y)
      BY <2>3
    <3>2. a \o x \in Seq(X) /\ b \o y \in Seq(Y) /\ b \o y = Mapped(m, a \o x)
      <4>1. a \o x \in Seq(X) /\ b \o y \in Seq(Y)
        BY ONLY <3>1
      <4>2. b \o y = Mapped(m, a \o x)
        BY ONLY <3>1, <2>2
      <4> QED
        BY ONLY <4>1, <4>2
    <3> QED
      BY <3>2
  <2> HIDE DEF R
  <2> QED
    BY ONLY <2>1, <2>3 DEF JoinClosed
<1>2. Mapped(m, s) \in Seq(Y) /\ DOMAIN Mapped(m, s) = DOMAIN s
  BY <1>0
<1>3. /\ p \in Seq(Seq(X)) /\ q \in Seq(Seq(Y)) /\ DOMAIN p = DOMAIN s /\ DOMAIN q = DOMAIN s
      /\ Kept(s, positions) = FlattenSeq(p) /\ Kept(Mapped(m, s), positions) = FlattenSeq(q)
  BY ONLY <1>2, PicksAre, s \in Seq(X)
<1>4. ASSUME NEW i \in DOMAIN s PROVE <<p[i], q[i]>> \in R
  <2>1. s[i] \in X /\ m[s[i]] \in Y /\ Mapped(m, s)[i] = m[s[i]]
    BY DEF Mapped
  <2>2. CASE i \in positions
    <3>1. p[i] = <<s[i]>> /\ q[i] = <<m[s[i]]>>
      BY ONLY <1>2, <2>1, <2>2, i \in DOMAIN s DEF Picks
    <3>2. <<s[i]>> \in Seq(X) /\ <<m[s[i]]>> \in Seq(Y) /\ <<m[s[i]]>> = Mapped(m, <<s[i]>>)
      BY ONLY <2>1 DEF Mapped
    <3> QED
      BY ONLY <3>1, <3>2
  <2>3. CASE i \notin positions
    <3>1. p[i] = <<>> /\ q[i] = <<>>
      BY ONLY <1>2, <2>1, <2>3, i \in DOMAIN s DEF Picks
    <3>2. <<>> \in Seq(X) /\ <<>> \in Seq(Y) /\ <<>> = Mapped(m, <<>>)
      BY DEF Mapped
    <3> QED
      BY ONLY <3>1, <3>2
  <2> QED
    BY ONLY <2>2, <2>3
<1>5. Related(p, q, R)
  BY ONLY <1>3, <1>4 DEF Related
<1>6. <<FlattenSeq(p), FlattenSeq(q)>> \in R
  <2> HIDE DEF p, q, R
  <2> QED
    BY ONLY <1>1, <1>3, <1>5, FlattenPairs
<1> QED
  BY ONLY <1>3, <1>6

\* What is kept of a whole sequence, of nothing, and of a sequence of one.
LEMMA KeptAll ==
  ASSUME NEW X, NEW s \in Seq(X), NEW positions, DOMAIN s \subseteq positions
  PROVE  Kept(s, positions) = s
<1> DEFINE P(n) == FlattenSeq(Prefix(Picks(s, positions), n)) = Prefix(s, n)
           T == {n \in Nat : n <= Len(s) => P(n)}
<1>1. /\ Picks(s, positions) \in Seq(Seq(X)) /\ Kept(s, positions) = FlattenSeq(Picks(s, positions))
      /\ DOMAIN Picks(s, positions) = DOMAIN s
  BY PicksAre
<1>2. Len(Picks(s, positions)) = Len(s) /\ Len(s) \in Nat
  BY <1>1
<1>3. 0 \in T
  BY <1>1, PrefixIs, FlattenEmpty
<1>4. ASSUME NEW n \in Nat, n \in T, n + 1 <= Len(s) PROVE P(n + 1)
  <2>1. n < Len(s) /\ n < Len(Picks(s, positions)) /\ n <= Len(s)
    BY <1>2, <1>4
  <2>2. /\ Prefix(s, n) \in Seq(X) /\ n + 1 \in DOMAIN s /\ s[n + 1] \in X
        /\ Prefix(s, n + 1) = Append(Prefix(s, n), s[n + 1])
    BY <2>1, PrefixIs
  <2>3. /\ Prefix(Picks(s, positions), n) \in Seq(Seq(X)) /\ Picks(s, positions)[n + 1] \in Seq(X)
        /\ Prefix(Picks(s, positions), n + 1) = Append(Prefix(Picks(s, positions), n), Picks(s, positions)[n + 1])
    BY <1>1, <2>1, PrefixIs
  <2>4. Picks(s, positions)[n + 1] = <<s[n + 1]>>
    BY <2>2 DEF Picks
  <2>5. FlattenSeq(Prefix(Picks(s, positions), n + 1)) = FlattenSeq(Prefix(Picks(s, positions), n)) \o <<s[n + 1]>>
    BY ONLY <2>3, <2>4, FlattenAdds, SeqsConcatenate
  <2>6. P(n)
    BY <1>4, <2>1
  <2>7. Prefix(s, n) \o <<s[n + 1]>> = Append(Prefix(s, n), s[n + 1])
    BY ONLY <2>2
  <2> QED
    BY ONLY <2>2, <2>5, <2>6, <2>7
<1>5. Nat \subseteq T
  <2>1. \A n \in Nat : n \in T => n + 1 \in T
    <3>1. ASSUME NEW n \in Nat, n \in T, n + 1 <= Len(s) PROVE P(n + 1)
      <4> HIDE DEF P, T
      <4> QED
        BY ONLY <1>4, <3>1
    <3> HIDE DEF P
    <3> QED
      BY <3>1
  <2> HIDE DEF T
  <2> QED
    BY ONLY <1>3, <2>1, InductionOverSets
<1>6. P(Len(s)) /\ Prefix(s, Len(s)) = s /\ Prefix(Picks(s, positions), Len(s)) = Picks(s, positions)
  BY <1>1, <1>2, <1>5, PrefixIs
<1> QED
  BY ONLY <1>1, <1>6

\* Nothing is kept when no position is.
LEMMA KeptNone ==
  ASSUME NEW X, NEW s \in Seq(X), NEW positions, \A i \in DOMAIN s : i \notin positions
  PROVE  Kept(s, positions) = <<>>
<1> DEFINE R == {<<<<>>, <<>>>>}
           p == Picks(s, positions)
<1>1. JoinClosed(R)
  BY DEF JoinClosed
<1>2. p \in Seq(Seq(X)) /\ DOMAIN p = DOMAIN s /\ Kept(s, positions) = FlattenSeq(p)
  BY PicksAre
<1>3. Related(p, p, R)
  <2>1. ASSUME NEW i \in DOMAIN s PROVE p[i] = <<>>
    BY DEF Picks
  <2> QED
    BY ONLY <1>2, <2>1 DEF Related
<1>4. <<FlattenSeq(p), FlattenSeq(p)>> \in R
  <2> HIDE DEF p, R
  <2> QED
    BY ONLY <1>1, <1>2, <1>3, FlattenPairs
<1> QED
  BY ONLY <1>2, <1>4

\* The elements that are in a set are those of the parts, in their order.
Those(s, Q) == Kept(s, {i \in DOMAIN s : s[i] \in Q})

\* Those of two joined sequences are those of the first and then those of the second.
LEMMA ThoseJoin ==
  ASSUME NEW X, NEW a \in Seq(X), NEW b \in Seq(X), NEW Q
  PROVE  Those(a \o b, Q) = Those(a, Q) \o Those(b, Q)
<1> DEFINE In(s) == {i \in DOMAIN s : s[i] \in Q}
<1>1. /\ Picks(a, In(a)) \in Seq(Seq(X)) /\ Kept(a, In(a)) = FlattenSeq(Picks(a, In(a)))
      /\ Picks(b, In(b)) \in Seq(Seq(X)) /\ Kept(b, In(b)) = FlattenSeq(Picks(b, In(b)))
  BY PicksAre
<1>2. a \o b \in Seq(X) /\ Kept(a \o b, In(a \o b)) = FlattenSeq(Picks(a \o b, In(a \o b)))
  <2>1. a \o b \in Seq(X)
    OBVIOUS
  <2> QED
    BY ONLY <2>1, PicksAre
<1>3. Picks(a \o b, In(a \o b)) = Picks(a, In(a)) \o Picks(b, In(b))
  <2>1. PICK c \in Seq(X) : c = a \o b
    BY <1>2
  <2>2. /\ Len(a) \in Nat /\ Len(b) \in Nat /\ DOMAIN a = 1..Len(a) /\ DOMAIN b = 1..Len(b)
        /\ DOMAIN c = 1..(Len(a) + Len(b))
        /\ \A i \in 1..(Len(a) + Len(b)) : c[i] = IF i <= Len(a) THEN a[i] ELSE b[i - Len(a)]
    BY <2>1
  <2>3. PICK p \in Seq(Seq(X)), q \in Seq(Seq(X)) : p = Picks(a, In(a)) /\ q = Picks(b, In(b))
    BY <1>1
  <2>4. /\ DOMAIN p = 1..Len(a) /\ \A i \in 1..Len(a) : p[i] = IF a[i] \in Q THEN <<a[i]>> ELSE <<>>
    BY ONLY <2>2, <2>3 DEF Picks
  <2>5. /\ DOMAIN q = 1..Len(b) /\ \A i \in 1..Len(b) : q[i] = IF b[i] \in Q THEN <<b[i]>> ELSE <<>>
    BY ONLY <2>2, <2>3 DEF Picks
  <2>6. Len(p) = Len(a) /\ Len(q) = Len(b)
    BY ONLY <2>2, <2>4, <2>5, p \in Seq(Seq(X)), q \in Seq(Seq(X))
  <2>7. /\ DOMAIN (p \o q) = 1..(Len(a) + Len(b)) /\ p \o q \in Seq(Seq(X))
        /\ \A i \in 1..(Len(a) + Len(b)) : (p \o q)[i] = IF i <= Len(a) THEN p[i] ELSE q[i - Len(a)]
        /\ p \o q = [i \in 1..(Len(a) + Len(b)) |-> (p \o q)[i]]
    <3>1. /\ p \o q \in Seq(Seq(X)) /\ DOMAIN (p \o q) = 1..(Len(p) + Len(q))
          /\ \A i \in 1..(Len(p) + Len(q)) : (p \o q)[i] = IF i <= Len(p) THEN p[i] ELSE q[i - Len(p)]
          /\ p \o q = [i \in 1..(Len(p) + Len(q)) |-> (p \o q)[i]]
      BY ONLY JoinParts, p \in Seq(Seq(X)), q \in Seq(Seq(X))
    <3> QED
      BY ONLY <2>6, <3>1
  <2>8. \A i \in 1..(Len(a) + Len(b)) : (p \o q)[i] = IF c[i] \in Q THEN <<c[i]>> ELSE <<>>
    <3> SUFFICES ASSUME NEW i \in 1..(Len(a) + Len(b))
                 PROVE  (p \o q)[i] = IF c[i] \in Q THEN <<c[i]>> ELSE <<>>
      OBVIOUS
    <3>1. CASE i <= Len(a)
      <4>1. i \in 1..Len(a)
        BY ONLY <2>2, <3>1, i \in 1..(Len(a) + Len(b))
      <4> QED
        BY ONLY <2>2, <2>4, <2>7, <3>1, <4>1, i \in 1..(Len(a) + Len(b))
    <3>2. CASE ~(i <= Len(a))
      <4>1. i - Len(a) \in 1..Len(b)
        BY ONLY <2>2, <3>2, i \in 1..(Len(a) + Len(b))
      <4> QED
        BY ONLY <2>2, <2>5, <2>7, <3>2, <4>1, i \in 1..(Len(a) + Len(b))
    <3> QED
      BY ONLY <3>1, <3>2
  <2>9. Picks(c, In(c)) = [i \in 1..(Len(a) + Len(b)) |-> IF c[i] \in Q THEN <<c[i]>> ELSE <<>>]
    BY ONLY <2>2 DEF Picks
  <2> QED
    BY ONLY <2>1, <2>3, <2>7, <2>8, <2>9
<1>4. FlattenSeq(Picks(a, In(a)) \o Picks(b, In(b))) = FlattenSeq(Picks(a, In(a))) \o FlattenSeq(Picks(b, In(b)))
  <2> HIDE DEF In
  <2> QED
    BY ONLY <1>1, FlattenJoins
<1> QED
  BY ONLY <1>1, <1>2, <1>3, <1>4 DEF Those

\* All are kept when all are in the set, and none when none is.
LEMMA ThoseAll ==
  ASSUME NEW X, NEW s \in Seq(X), NEW Q, \A i \in DOMAIN s : s[i] \in Q
  PROVE  Those(s, Q) = s
<1>1. DOMAIN s \subseteq {i \in DOMAIN s : s[i] \in Q}
  OBVIOUS
<1> QED
  BY ONLY <1>1, s \in Seq(X), KeptAll DEF Those

LEMMA ThoseNone ==
  ASSUME NEW X, NEW s \in Seq(X), NEW Q, \A i \in DOMAIN s : s[i] \notin Q
  PROVE  Those(s, Q) = <<>>
<1>1. \A i \in DOMAIN s : i \notin {j \in DOMAIN s : s[j] \in Q}
  OBVIOUS
<1> QED
  BY ONLY <1>1, s \in Seq(X), KeptNone DEF Those

-----------------------------------------------------------------------------
(***************************************************************************)
(* Varints. The reader is a function that the module declares by recursion *)
(* over a text; that there is such a function is shown first, and then     *)
(* what it gives for what EncodeVarint wrote.                              *)
(***************************************************************************)
\* A number is its quotient and its remainder, and no other quotient and remainder are.
LEMMA DivisionIs ==
  ASSUME NEW n \in Nat, NEW b \in Nat, b > 0
  PROVE  n % b \in 0..(b - 1) /\ n \div b \in Nat /\ n = b * (n \div b) + (n % b)
  OBVIOUS

LEMMA DivisionBack ==
  ASSUME NEW n \in Int, NEW b \in Nat, b > 0, NEW q \in Int, NEW r \in 0..(b - 1), n = b * q + r
  PROVE  n \div b = q /\ n % b = r
  OBVIOUS

\* What a varint is read as.
Read == [value : Nat, rest : Text]

\* A text that is not empty is a byte and a shorter text.
LEMMA HeadTail ==
  ASSUME NEW b \in Text, b # <<>>
  PROVE  /\ Head(b) \in Byte /\ Tail(b) \in Text /\ Len(Tail(b)) < Len(b)
         /\ Len(b) \in Nat /\ Len(Tail(b)) \in Nat
  BY DEF Text

\* The reader of varints is a function on texts: its recursion shortens the text.
LEMMA ReadVarintIs ==
  ASSUME ProtoAssumption
  PROVE  /\ ReadVarint \in [Text -> Read]
         /\ \A b \in Text : ReadVarint[b] =
              IF b = <<>> THEN [value |-> 0, rest |-> <<>>]
              ELSE IF Head(b) < Base THEN [value |-> Head(b), rest |-> Tail(b)]
              ELSE [value |-> Head(b) - Base + Base * ReadVarint[Tail(b)].value,
                    rest |-> ReadVarint[Tail(b)].rest]
<1> DEFINE first == [value |-> 0, rest |-> <<>>]
           ReadOn(b, r) == IF Head(b) < Base THEN [value |-> Head(b), rest |-> Tail(b)]
                         ELSE [value |-> Head(b) - Base + Base * r.value, rest |-> r.rest]
           step == [x \in Text \X Read |-> IF x[1] # <<>> THEN ReadOn(x[1], x[2]) ELSE first]
           prev == [b \in Text |-> IF b # <<>> THEN Tail(b) ELSE <<>>]
<1>1. first \in Read /\ <<>> \in Text /\ Base \in Nat /\ Base > 1
  BY DEF Read, Text, ProtoAssumption
<1>2. ASSUME NEW b \in Text, b # <<>>, NEW r \in Read PROVE ReadOn(b, r) \in Read
  <2>1. Head(b) \in Nat /\ Tail(b) \in Text /\ r.value \in Nat /\ r.rest \in Text
    BY <1>1, <1>2, HeadTail DEF Byte, Read
  <2>2. Base * r.value \in Nat
    BY ONLY <1>1, <2>1
  <2>3. ~(Head(b) < Base) => Head(b) - Base + Base * r.value \in Nat
    BY ONLY <1>1, <2>1, <2>2
  <2> QED
    BY ONLY <2>1, <2>3 DEF Read
<1>3. step \in [Text \X Read -> Read]
  <2> HIDE DEF Made, first
  <2> QED
    BY <1>1, <1>2
<1>4. prev \in [Text -> Text] /\ Shortens(prev, Byte)
  <2>1. \A b \in Text : (IF b # <<>> THEN Tail(b) ELSE <<>>) \in Text
    BY <1>1, HeadTail
  <2>2. prev \in [Text -> Text]
    BY ONLY <2>1
  <2>3. \A b \in Text : b # <<>> => Len(prev[b]) < Len(b)
    BY HeadTail
  <2> HIDE DEF prev
  <2> QED
    BY ONLY <2>2, <2>3 DEF Shortens, Text
<1>5. PICK f \in [Text -> Read] : MadeFrom(f, Byte, first, step, prev)
  <2> HIDE DEF first, step, prev
  <2> QED
    BY ONLY <1>1, <1>3, <1>4, SeqRecursion DEF Text
<1> DEFINE Def(g, b) == IF b = <<>> THEN [value |-> 0, rest |-> <<>>]
                        ELSE IF Head(b) < Base THEN [value |-> Head(b), rest |-> Tail(b)]
                        ELSE [value |-> Head(b) - Base + Base * g[Tail(b)].value,
                              rest |-> g[Tail(b)].rest]
<1>6. ASSUME NEW b \in Text PROVE f[b] = Def(f, b)
  <2>1. f[b] = IF b # <<>> THEN step[<<b, f[prev[b]]>>] ELSE first
    <3> HIDE DEF first, step, prev
    <3> QED
      BY <1>5 DEF MadeFrom, Text
  <2>2. CASE b = <<>>
    BY ONLY <2>1, <2>2
  <2>3. CASE b # <<>>
    <3>1. prev[b] = Tail(b) /\ f[Tail(b)] \in Read
      BY <2>3, HeadTail
    <3>2. step[<<b, f[Tail(b)]>>] = ReadOn(b, f[Tail(b)])
      <4> HIDE DEF Made
      <4> QED
        BY <2>3, <3>1
    <3> QED
      BY ONLY <2>1, <2>3, <3>1, <3>2
  <2> QED
    BY ONLY <2>2, <2>3
<1>7. f = [b \in Text |-> Def(f, b)]
  <2> HIDE DEF Def
  <2> QED
    BY ONLY <1>6, f \in [Text -> Read]
<1>8. ReadVarint = [b \in Text |-> Def(ReadVarint, b)]
  BY <1>7, Zenon DEF ReadVarint
<1>9. ReadVarint \in [Text -> Read]
  <2> DEFINE T == {n \in Nat : \A b \in Text : Len(b) <= n => ReadVarint[b] \in Read}
  <2> HIDE DEF Def
  <2>0. \A b \in Text : ReadVarint[b] = Def(ReadVarint, b)
    BY ONLY <1>8
  <2>1. ASSUME NEW b \in Text, b # <<>> => ReadVarint[Tail(b)] \in Read PROVE ReadVarint[b] \in Read
    <3>1. CASE b = <<>>
      <4>1. Def(ReadVarint, b) = first
        BY <3>1 DEF Def
      <4> QED
        BY ONLY <1>1, <2>0, <4>1, b \in Text
    <3>2. CASE b # <<>>
      <4>1. Def(ReadVarint, b) = ReadOn(b, ReadVarint[Tail(b)])
        BY <3>2 DEF Def
      <4>2. ReadOn(b, ReadVarint[Tail(b)]) \in Read
        <5> HIDE DEF Made
        <5> QED
          BY <1>2, <2>1, <3>2
      <4> HIDE DEF Made
      <4> QED
        BY ONLY <2>0, <4>1, <4>2, b \in Text
    <3> QED
      BY ONLY <3>1, <3>2
  <2>2. 0 \in T
    <3>1. ASSUME NEW b \in Text, Len(b) <= 0 PROVE b = <<>>
      BY <3>1 DEF Text
    <3> QED
      BY <2>1, <3>1
  <2>3. ASSUME NEW n \in Nat, n \in T PROVE n + 1 \in T
    <3>1. ASSUME NEW b \in Text, Len(b) <= n + 1 PROVE ReadVarint[b] \in Read
      <4>1. b # <<>> => Tail(b) \in Text /\ Len(Tail(b)) <= n
        BY <3>1, HeadTail
      <4> QED
        BY <2>1, <2>3, <4>1
    <3> QED
      BY <3>1
  <2>4. Nat \subseteq T
    <3> HIDE DEF T
    <3> QED
      BY ONLY <2>2, <2>3, InductionOverSets
  <2>5. \A b \in Text : Len(b) \in Nat /\ Len(b) <= Len(b)
    BY DEF Text
  <2>6. \A b \in Text : ReadVarint[b] \in Read
    BY ONLY <2>4, <2>5
  <2> QED
    BY ONLY <1>8, <2>6
<1> QED
  BY ONLY <1>8, <1>9

\* A varint is read back as the number it was written for, and no byte more is read.
ReadsNumber(n, rest) == ReadVarint[EncodeVarint[n] \o rest] = [value |-> n, rest |-> rest]

\* Every number is read back, by induction over the numbers.
LEMMA VarintReads ==
  ASSUME ProtoAssumption, NEW number \in Nat, NEW rest \in Text
  PROVE  ReadsNumber(number, rest)
<1> DEFINE T == {k \in Nat : ~ReadsNumber(k, rest)}
<1> SUFFICES ASSUME number \in T PROVE FALSE
  OBVIOUS
<1>1. PICK n \in T : \A k \in T : n <= k
  <2>1. T \subseteq Nat /\ T # {}
    OBVIOUS
  <2> HIDE DEF T
  <2> QED
    BY <2>1, Least
<1>2. n \in Nat /\ ~ReadsNumber(n, rest) /\ \A k \in Nat : k < n => ReadsNumber(k, rest)
  BY <1>1
<1>0. Base \in Nat /\ Base > 1
  BY DEF ProtoAssumption
<1>3. CASE n >= Base
  <2>1. PICK q \in Nat, r \in 0..(Base - 1) : q = n \div Base /\ r = n % Base /\ q < n /\ n = Base * q + r
    <3>1. n % Base \in 0..(Base - 1) /\ n \div Base \in Nat /\ n = Base * (n \div Base) + (n % Base)
      <4>1. Base > 0 /\ Base \in Nat /\ n \in Nat
        BY <1>0, <1>2
      <4> QED
        BY ONLY <4>1, DivisionIs
    <3>2. n \div Base < n
      BY <1>2, <1>3, Smaller
    <3>3. PICK q, r : q = n \div Base /\ r = n % Base
      OBVIOUS
    <3>4. q \in Nat /\ r \in 0..(Base - 1) /\ q < n /\ n = Base * q + r
      BY ONLY <3>1, <3>2, <3>3
    <3> QED
      BY ONLY <3>3, <3>4
  <2>2. PICK e \in Text : e = EncodeVarint[q]
    BY EncodeVarintIs
  <2>3. EncodeVarint[n] = <<Base + r>> \o e /\ Base + r \in Byte
    <3>1. EncodeVarint[n] = <<Base + (n % Base)>> \o EncodeVarint[n \div Base]
      BY <1>2, <1>3, EncodeVarintIs
    <3>2. n \in Int
      BY <1>2
    <3>3. Base + (n % Base) \in Byte
      BY <3>2, DigitIs
    <3> QED
      BY ONLY <2>1, <2>2, <3>1, <3>3
  <2>4. PICK b \in Text : b = (<<Base + r>> \o e) \o rest
    <3>1. <<Base + r>> \o e \in Text
      BY <2>3, Prefixed
    <3> QED
      BY <3>1, JoinedText
  <2>5. b # <<>> /\ Head(b) = Base + r /\ Tail(b) = e \o rest
    <3>1. PICK t \in Text : t = e \o rest
      BY JoinedText
    <3>2. (<<Base + r>> \o e) \o rest = <<Base + r>> \o (e \o rest)
      BY ONLY <2>3, e \in Text, rest \in Text DEF Text
    <3>3. b = <<Base + r>> \o t
      BY ONLY <2>4, <3>1, <3>2
    <3>4. b # <<>> /\ Head(b) = Base + r /\ Tail(b) = t
      BY ONLY <2>3, <3>3, t \in Text DEF Text
    <3> QED
      BY ONLY <3>1, <3>4
  <2>6. ReadVarint[e \o rest] = [value |-> q, rest |-> rest]
    BY <1>2, <2>1, <2>2 DEF ReadsNumber
  <2>7. ReadVarint[b] = [value |-> Head(b) - Base + Base * ReadVarint[Tail(b)].value,
                         rest |-> ReadVarint[Tail(b)].rest]
    <3>1. ~(Head(b) < Base)
      BY ONLY <1>0, <2>5, r \in 0..(Base - 1)
    <3> QED
      BY <2>5, <3>1, ReadVarintIs
  <2>8. Head(b) - Base + Base * q = n
    <3>1. PICK m \in Nat : m = Base * q
      BY <1>0
    <3> QED
      BY ONLY <1>0, <2>1, <2>5, <3>1, r \in 0..(Base - 1)
  <2>9. ReadVarint[b] = [value |-> n, rest |-> rest]
    <3>1. PICK r1 : r1 = ReadVarint[e \o rest]
      OBVIOUS
    <3>2. r1.value = q /\ r1.rest = rest
      BY ONLY <2>6, <3>1
    <3>3. ReadVarint[b] = [value |-> Head(b) - Base + Base * r1.value, rest |-> r1.rest]
      BY ONLY <2>5, <2>7, <3>1
    <3> QED
      BY ONLY <2>8, <3>2, <3>3
  <2> QED
    BY <1>2, <2>2, <2>3, <2>4, <2>9 DEF ReadsNumber
<1>4. CASE ~(n >= Base)
  <2>1. EncodeVarint[n] = <<n>> /\ n \in Byte
    <3>1. n \in Int /\ n \in Nat /\ n < Base
      BY <1>0, <1>2, <1>4
    <3>2. n \in Byte
      BY <3>1, DigitIs
    <3>3. EncodeVarint[n] = <<n>>
      BY <1>4, <3>1, EncodeVarintIs
    <3> QED
      BY ONLY <3>2, <3>3
  <2>2. PICK b \in Text : b = <<n>> \o rest
    BY <2>1, Prefixed
  <2>3. b # <<>> /\ Head(b) = n /\ Tail(b) = rest
    BY <2>1, <2>2 DEF Text
  <2>4. ReadVarint[b] = [value |-> n, rest |-> rest]
    <3>1. n < Base
      BY <1>0, <1>2, <1>4
    <3>2. ReadVarint[b] = [value |-> Head(b), rest |-> Tail(b)]
      BY <2>3, <3>1, ReadVarintIs
    <3> QED
      BY ONLY <2>3, <3>2
  <2> QED
    BY <1>2, <2>1, <2>2, <2>4 DEF ReadsNumber
<1> QED
  BY <1>3, <1>4

-----------------------------------------------------------------------------
(***************************************************************************)
(* Fixed numbers: a u64 is the sum of its bytes, and an i64 that of its    *)
(* two's complement.                                                       *)
(***************************************************************************)
\* Dividing by p and the quotient by b, as the loop over bytes does, loses nothing.
Redivides(n, p, b) == p * (n \div p) = p * ((n \div p) % b) + (b * p) * (n \div (b * p))

LEMMA DividesTwice ==
  ASSUME NEW n \in Nat, NEW p \in Nat, p > 0, NEW b \in Nat, b > 0
  PROVE  Redivides(n, p, b)
<1>1. PICK q \in Nat, r \in 0..(p - 1) : q = n \div p /\ n = p * q + r
  <2>1. PICK q, r : q = n \div p /\ r = n % p
    OBVIOUS
  <2>2. r \in 0..(p - 1) /\ q \in Nat /\ n = p * q + r
    BY ONLY <2>1, DivisionIs, n \in Nat, p \in Nat, p > 0
  <2> QED
    BY ONLY <2>1, <2>2
<1>2. PICK t \in Nat, d \in 0..(b - 1) : t = q \div b /\ d = q % b /\ q = b * t + d
  <2>1. PICK t, d : t = q \div b /\ d = q % b
    OBVIOUS
  <2>2. d \in 0..(b - 1) /\ t \in Nat /\ q = b * t + d
    BY ONLY <2>1, DivisionIs, q \in Nat, b \in Nat, b > 0
  <2> QED
    BY ONLY <2>1, <2>2
<1>3. PICK m \in Nat : m = b * p
  OBVIOUS
<1>4. PICK u \in Nat : u = p * d
  OBVIOUS
<1>5. u <= m - p
  <2>1. PICK e \in Nat : e = (b - 1) - d
    OBVIOUS
  <2>2. p * e \in Nat /\ p * (b - 1) = p * d + p * e
    <3>1. b - 1 = d + e
      BY ONLY <2>1, e \in Nat, d \in 0..(b - 1), b \in Nat
    <3>2. p * (d + e) = p * d + p * e
      BY ONLY p \in Nat, d \in 0..(b - 1), e \in Nat
    <3> QED
      BY ONLY <3>1, <3>2, p \in Nat, e \in Nat
  <2>3. p * (b - 1) = m - p
    BY ONLY <1>3, p \in Nat, b \in Nat
  <2> QED
    BY ONLY <1>4, <2>2, <2>3, u \in Nat, m \in Nat, p \in Nat
<1>6. p * q = m * t + u
  <2>1. p * (b * t + d) = (b * p) * t + p * d
    BY ONLY p \in Nat, b \in Nat, t \in Nat, d \in 0..(b - 1)
  <2> QED
    BY ONLY <1>2, <1>3, <1>4, <2>1
<1>7. PICK v \in 0..(m - 1) : v = u + r
  BY ONLY <1>5, u \in Nat, m \in Nat, p \in Nat, r \in 0..(p - 1)
<1>8. n = m * t + v
  <2>1. PICK w \in Nat : w = m * t
    OBVIOUS
  <2> QED
    BY ONLY <1>1, <1>6, <1>7, <2>1, u \in Nat, r \in 0..(p - 1), p \in Nat
<1>9. n \div m = t
  <2>1. m > 0
    BY ONLY <1>7, m \in Nat
  <2>2. n \in Int /\ t \in Int
    OBVIOUS
  <2> QED
    BY ONLY <1>8, <2>1, <2>2, DivisionBack, m \in Nat, v \in 0..(m - 1)
<1> QED
  <2>1. p * q = u + m * t
    BY ONLY <1>6, u \in Nat, m \in Nat, t \in Nat
  <2> QED
    BY ONLY <1>1, <1>2, <1>3, <1>4, <1>9, <2>1 DEF Redivides

\* There is at least one u64.
LEMMA WordsIs == ASSUME ProtoAssumption PROVE Words \in Nat /\ Words > 0
  BY BytePowerIs DEF Words, ProtoAssumption

\* The bytes of a u64 are those of a number, least significant first.
Digit(n, i) == (n \div BytePower[i - 1]) % (2 * Base)
Digits(n, k) == [i \in 1..k |-> Digit(n, i) * BytePower[i - 1]]
Splits(n, k) == n = Total(Digits(n, k)) + BytePower[k] * (n \div BytePower[k])

\* A number is the sum of its first k digits and of what is left of it.
LEMMA DigitsSum ==
  ASSUME ProtoAssumption, NEW n \in Nat, NEW k \in Nat
  PROVE  Splits(n, k) /\ Total(Digits(n, k)) \in Int
<1> DEFINE T == {j \in Nat : Splits(n, j) /\ Total(Digits(n, j)) \in Int}
<1>0. Base \in Nat /\ Base > 1 /\ 2 * Base \in Nat /\ 2 * Base > 0
  BY DEF ProtoAssumption
<1>1. 0 \in T
  <2>1. DOMAIN Digits(n, 0) = {}
    BY DEF Digits
  <2>2. Total(Digits(n, 0)) = 0
    BY <2>1, TotalEmpty
  <2>3. BytePower[0] = 1
    BY BytePowerIs
  <2>4. n = 0 + 1 * (n \div 1)
    OBVIOUS
  <2> QED
    BY ONLY <2>2, <2>3, <2>4 DEF Splits
<1>2. ASSUME NEW j \in Nat, j \in T PROVE j + 1 \in T
  <2>1. PICK p \in Nat : p = BytePower[j] /\ p > 0
    BY BytePowerIs
  <2>2. BytePower[j + 1] = (2 * Base) * p /\ (2 * Base) * p \in Nat
    <3>1. j + 1 \in Nat /\ j + 1 >= 1 /\ (j + 1) - 1 = j
      OBVIOUS
    <3>2. BytePower[j + 1] = 2 * Base * BytePower[j]
      BY ONLY <3>1, BytePowerIs, ProtoAssumption
    <3> QED
      BY ONLY <1>0, <2>1, <3>2, p \in Nat
  <2>3. p * (n \div p) = p * ((n \div p) % (2 * Base)) + ((2 * Base) * p) * (n \div ((2 * Base) * p))
    <3>1. PICK b \in Nat : b = 2 * Base /\ b > 0
      BY <1>0
    <3>2. Redivides(n, p, b)
      BY ONLY <2>1, <3>1, DividesTwice, n \in Nat, p \in Nat, b \in Nat
    <3> QED
      BY ONLY <3>1, <3>2 DEF Redivides
  <2>4. \A i \in 1..(j + 1) : Digit(n, i) * BytePower[i - 1] \in Int
    <3>1. ASSUME NEW i \in 1..(j + 1) PROVE Digit(n, i) * BytePower[i - 1] \in Int
      <4>1. PICK x \in Nat : x = BytePower[i - 1] /\ x > 0
        BY BytePowerIs
      <4>2. n \div x \in Nat
        BY ONLY <4>1, n \in Nat, x \in Nat, DivisionIs
      <4>3. (n \div x) % (2 * Base) \in Int
        BY ONLY <1>0, <4>2, DivisionIs
      <4> QED
        BY ONLY <4>1, <4>3, x \in Nat DEF Digit
    <3> QED
      BY ONLY <3>1
  <2>5. PICK v, u : v = Digits(n, j) /\ u = Digits(n, j + 1)
    OBVIOUS
  <2>6. /\ DOMAIN v = 1..j /\ DOMAIN u = 1..(j + 1) /\ 1..(j + 1) = 1..j \cup {j + 1}
        /\ j + 1 \notin 1..j /\ IsFiniteSet(1..j)
        /\ \A x \in 1..j : u[x] = v[x]
        /\ \A x \in 1..(j + 1) : u[x] \in Int
    <3>1. DOMAIN v = 1..j /\ DOMAIN u = 1..(j + 1) /\ 1..(j + 1) = 1..j \cup {j + 1} /\ j + 1 \notin 1..j
      BY <2>5 DEF Digits
    <3>2. IsFiniteSet(1..j)
      BY FS_Interval
    <3>3. \A x \in 1..j : u[x] = v[x]
      BY ONLY <2>5, j \in Nat DEF Digits
    <3>4. \A x \in 1..(j + 1) : u[x] \in Int
      BY ONLY <2>4, <2>5 DEF Digits
    <3> QED
      BY ONLY <3>1, <3>2, <3>3, <3>4
  <2>7. Total(v) \in Int /\ Total(u) = u[j + 1] + Total(v)
    <3>1. Agree(DOMAIN v, v, u) /\ Integral(DOMAIN u, u)
      BY ONLY <2>6 DEF Agree, Integral
    <3> QED
      BY ONLY <2>6, <3>1, TotalAdds
  <2>8. u[j + 1] = ((n \div p) % (2 * Base)) * p
    <3>1. j + 1 \in 1..(j + 1) /\ (j + 1) - 1 = j
      OBVIOUS
    <3> QED
      BY ONLY <2>1, <2>5, <3>1 DEF Digits, Digit
  <2>9. PICK d \in Nat : d = (n \div p) % (2 * Base)
    <3>1. n \div p \in Nat
      BY ONLY <2>1, n \in Nat, p \in Nat, DivisionIs
    <3>2. (n \div p) % (2 * Base) \in 0..(2 * Base - 1)
      BY ONLY <1>0, <3>1, DivisionIs
    <3> QED
      BY ONLY <1>0, <3>2
  <2>10. PICK w \in Nat : w = p * d
    OBVIOUS
  <2>11. u[j + 1] = w /\ w \in Int
    BY ONLY <2>8, <2>9, <2>10, p \in Nat, d \in Nat, w \in Nat
  <2>12. n = Total(v) + p * (n \div p)
    <3>1. Splits(n, j)
      BY <1>2
    <3> QED
      BY ONLY <2>1, <2>5, <3>1 DEF Splits
  <2>13. PICK z \in Int : z = ((2 * Base) * p) * (n \div ((2 * Base) * p))
    <3>1. (2 * Base) * p > 0
      BY ONLY <1>0, <2>1, p \in Nat
    <3>2. PICK m \in Nat : m = (2 * Base) * p /\ m > 0
      BY ONLY <2>2, <3>1
    <3>3. n \div m \in Nat
      BY ONLY <3>2, n \in Nat, m \in Nat, DivisionIs
    <3>4. m * (n \div m) \in Int
      BY ONLY <3>3, m \in Nat
    <3> QED
      BY ONLY <3>2, <3>4
  <2>14. n = (w + Total(v)) + z
    <3>1. PICK y : y = p * (n \div p)
      OBVIOUS
    <3>2. y = w + z /\ n = Total(v) + y
      BY ONLY <2>3, <2>9, <2>10, <2>12, <2>13, <3>1
    <3> QED
      BY ONLY <2>7, <3>2, w \in Nat, z \in Int
  <2>15. Total(u) = w + Total(v) /\ Total(u) \in Int
    BY ONLY <2>7, <2>11
  <2>16. Splits(n, j + 1)
    BY ONLY <2>2, <2>5, <2>13, <2>14, <2>15 DEF Splits
  <2> QED
    BY ONLY <2>5, <2>15, <2>16, j \in Nat
<1>3. Nat \subseteq T
  <2> HIDE DEF T
  <2> QED
    BY ONLY <1>1, <1>2, InductionOverSets
<1> QED
  BY ONLY <1>3, k \in Nat

\* The bytes of a u64 are as many as it has and add up to it.
LEMMA FixedReads ==
  ASSUME ProtoAssumption, NEW n \in U64
  PROVE  FromLittleEndian(LittleEndian(n)) = n /\ Len(LittleEndian(n)) = FixedBytes
<1>1. FixedBytes \in Nat /\ Words \in Nat /\ Words > 0 /\ n \in Nat /\ n < Words
  BY WordsIs DEF ProtoAssumption, U64
<1>2. n \div Words = 0
  <2>1. n = Words * 0 + n /\ n \in 0..(Words - 1) /\ n \in Int /\ 0 \in Int
    BY ONLY <1>1
  <2> QED
    BY ONLY <1>1, <2>1, DivisionBack
<1>3. Splits(n, FixedBytes) /\ Total(Digits(n, FixedBytes)) \in Int
  BY <1>1, DigitsSum
<1>4. n = Total(Digits(n, FixedBytes))
  <2>1. n = Total(Digits(n, FixedBytes)) + Words * (n \div Words)
    BY ONLY <1>3 DEF Splits, Words
  <2> QED
    BY ONLY <1>1, <1>2, <1>3, <2>1
<1>5. LittleEndian(n) = [i \in 1..FixedBytes |-> Digit(n, i)] /\ DOMAIN LittleEndian(n) = 1..FixedBytes
  BY DEF LittleEndian, Digit
<1>6. [i \in DOMAIN LittleEndian(n) |-> LittleEndian(n)[i] * BytePower[i - 1]] = Digits(n, FixedBytes)
  BY ONLY <1>5 DEF Digits
<1>7. Len(LittleEndian(n)) = FixedBytes
  <2>1. LittleEndian(n) \in Text
    BY <1>1, LittleEndianIs
  <2> QED
    BY <1>1, <1>5, <2>1 DEF Text
<1> QED
  BY ONLY <1>4, <1>6, <1>7 DEF FromLittleEndian, Total

\* An i64 is read back from the u64 that it was written as.
LEMMA SignedReads ==
  ASSUME ProtoAssumption, NEW n \in I64
  PROVE  AsI64(AsU64(n)) = n /\ AsU64(n) \in U64
<1>1. Words \in Nat /\ Words > 0
  BY WordsIs
<1>2. PICK w \in Nat, h \in Nat : w = Words /\ w > 0 /\ h = Words \div 2 /\ h + h <= w /\ w <= h + h + 1
  BY <1>1
<1>3. n \in Int /\ -h <= n /\ n < h
  BY <1>2 DEF I64
<1>4. CASE n >= 0
  <2>1. n = w * 0 + n /\ n \in 0..(w - 1) /\ 0 \in Int
    BY ONLY <1>2, <1>3, <1>4
  <2>2. n % w = n
    BY ONLY <1>2, <1>3, <2>1, DivisionBack
  <2> QED
    BY ONLY <1>2, <1>3, <1>4, <2>1, <2>2 DEF AsI64, AsU64, U64
<1>5. CASE n < 0
  <2>1. PICK r \in 0..(w - 1) : r = n + w
    BY ONLY <1>2, <1>3, <1>5
  <2>2. n = w * (-1) + r /\ -1 \in Int
    BY ONLY <1>2, <1>3, <2>1
  <2>3. n % w = r
    BY ONLY <1>2, <1>3, <2>1, <2>2, DivisionBack
  <2>4. r >= h /\ r - w = n
    BY ONLY <1>2, <1>3, <2>1
  <2> QED
    BY ONLY <1>2, <2>1, <2>3, <2>4 DEF AsI64, AsU64, U64
<1> QED
  BY ONLY <1>3, <1>4, <1>5

-----------------------------------------------------------------------------
(***************************************************************************)
(* The fields of a text.                                                   *)
(***************************************************************************)
\* A field as the reader finds it: number, wire type, and a number or some bytes.
Field == [field : Nat, wire : Nat, value : Nat, bytes : Text]

\* Reading a varint leaves less of the text.
LEMMA VarintShortens ==
  ASSUME ProtoAssumption, NEW bytes \in Text
  PROVE  /\ ReadVarint[bytes].value \in Nat /\ ReadVarint[bytes].rest \in Text
         /\ Len(ReadVarint[bytes].rest) <= Len(bytes)
         /\ bytes # <<>> => Len(ReadVarint[bytes].rest) < Len(bytes)
<1> DEFINE P(b) == /\ Len(ReadVarint[b].rest) <= Len(b)
                   /\ b # <<>> => Len(ReadVarint[b].rest) < Len(b)
           T == {n \in Nat : \A b \in Text : Len(b) <= n => P(b)}
<1>1. \A b \in Text : ReadVarint[b].value \in Nat /\ ReadVarint[b].rest \in Text
  BY ReadVarintIs DEF Read
<1>2. \A b \in Text : Len(b) \in Nat /\ (b # <<>> => Len(b) > 0)
  BY DEF Text
<1>3. ASSUME NEW b \in Text, b # <<>> => P(Tail(b)) PROVE P(b)
  <2>1. CASE b = <<>>
    <3>1. ReadVarint[b].rest = <<>>
      BY <2>1, ReadVarintIs
    <3> QED
      BY ONLY <1>2, <2>1, <3>1, b \in Text
  <2>2. CASE b # <<>>
    <3>1. Tail(b) \in Text /\ Len(Tail(b)) < Len(b)
      BY <2>2, HeadTail
    <3>2. ReadVarint[b].rest = Tail(b) \/ ReadVarint[b].rest = ReadVarint[Tail(b)].rest
      BY <2>2, ReadVarintIs
    <3>3. Len(ReadVarint[Tail(b)].rest) <= Len(Tail(b)) /\ Len(ReadVarint[Tail(b)].rest) \in Nat /\ Len(Tail(b)) \in Nat
      BY ONLY <1>1, <1>2, <1>3, <2>2, <3>1
    <3>4. Len(ReadVarint[b].rest) < Len(b) /\ Len(b) \in Nat
      BY ONLY <1>2, <3>1, <3>2, <3>3, b \in Text
    <3> QED
      BY ONLY <3>1, <3>3, <3>4, <1>1, <1>2, b \in Text
  <2> QED
    BY ONLY <2>1, <2>2
<1>4. 0 \in T
  <2>1. ASSUME NEW b \in Text, Len(b) <= 0 PROVE b = <<>>
    BY ONLY <1>2, <2>1
  <2> HIDE DEF P
  <2> QED
    BY <1>3, <2>1
<1>5. ASSUME NEW n \in Nat, n \in T PROVE n + 1 \in T
  <2>1. ASSUME NEW b \in Text, Len(b) <= n + 1 PROVE P(b)
    <3>1. b # <<>> => Tail(b) \in Text /\ Len(Tail(b)) <= n
      BY <2>1, HeadTail
    <3> HIDE DEF P
    <3> QED
      BY <1>3, <1>5, <3>1
  <2> HIDE DEF P
  <2> QED
    BY <2>1
<1>6. Nat \subseteq T
  <2> HIDE DEF T
  <2> QED
    BY ONLY <1>4, <1>5, InductionOverSets
<1>7. P(bytes)
  <2>1. Len(bytes) <= Len(bytes)
    BY <1>2
  <2> HIDE DEF P
  <2> QED
    BY ONLY <1>2, <1>6, <2>1, bytes \in Text
<1> QED
  BY <1>1, <1>7

\* What the rest of some bytes is after the first of them.
Found(b, found) ==
  /\ found.first \in Field /\ found.rest \in Text
  /\ b # <<>> => Len(found.rest) < Len(b)

\* Reading a field, well formed or not, leaves less of the text.
LEMMA ReadFieldIs ==
  ASSUME ProtoAssumption, NEW b \in Text
  PROVE  Found(b, ReadField(b))
<1>1. PICK t \in Text, v \in Nat : /\ v = ReadVarint[b].value /\ t = ReadVarint[b].rest
                                   /\ Len(t) <= Len(b) /\ (b # <<>> => Len(t) < Len(b))
  BY VarintShortens
<1>2. PICK u \in Text, n \in Nat : /\ n = ReadVarint[t].value /\ u = ReadVarint[t].rest /\ Len(u) <= Len(t)
  BY VarintShortens
<1>3. Len(b) \in Nat /\ Len(t) \in Nat /\ Len(u) \in Nat /\ <<>> \in Text /\ Len(<<>>) = 0
  BY DEF Text
<1>4. v \div 8 \in Nat /\ v % 8 \in Nat /\ FixedBytes \in Nat
  BY DEF ProtoAssumption
<1>5. ASSUME NEW s \in Text, NEW k \in Nat, k <= Len(s), Len(s) <= Len(t)
      PROVE  Found(b, [first |-> [field |-> v \div 8, wire |-> v % 8, value |-> 0, bytes |-> SubSeq(s, 1, k)],
                       rest |-> SubSeq(s, k + 1, Len(s))])
  <2>1. Len(s) \in Nat
    BY DEF Text
  <2>2. k \in 0..Len(s)
    BY ONLY <1>5, <2>1, k \in Nat
  <2>3. SubSeq(s, 1, k) \in Text
    BY <2>2, <1>3, Keeping
  <2>4. SubSeq(s, k + 1, Len(s)) \in Text /\ Len(SubSeq(s, k + 1, Len(s))) = Len(s) - k
    BY <2>2, TailText
  <2>5. b # <<>> => Len(SubSeq(s, k + 1, Len(s))) < Len(b)
    BY ONLY <1>1, <1>3, <1>5, <2>1, <2>4, k \in Nat
  <2>6. 0 \in Nat
    OBVIOUS
  <2> QED
    BY ONLY <1>4, <2>3, <2>4, <2>5, <2>6 DEF Found, Field
<1>6. Found(b, [first |-> [field |-> v \div 8, wire |-> v % 8, value |-> n, bytes |-> <<>>], rest |-> u])
  <2>1. b # <<>> => Len(u) < Len(b)
    BY ONLY <1>1, <1>2, <1>3
  <2> QED
    BY ONLY <1>3, <1>4, <2>1, n \in Nat, u \in Text DEF Found, Field
<1>7. Found(b, [first |-> Malformed, rest |-> <<>>])
  <2>1. b # <<>> => Len(b) > 0
    BY DEF Text
  <2> QED
    BY ONLY <1>3, <2>1 DEF Found, Field, Malformed, Varint
<1>8. ReadField(b) =
        CASE v \div 8 # 0 /\ v % 8 = 0 ->
               [first |-> [field |-> v \div 8, wire |-> v % 8, value |-> n, bytes |-> <<>>], rest |-> u]
          [] v \div 8 # 0 /\ v % 8 = 1 /\ FixedBytes <= Len(t) ->
               [first |-> [field |-> v \div 8, wire |-> v % 8, value |-> 0, bytes |-> SubSeq(t, 1, FixedBytes)],
                rest |-> SubSeq(t, FixedBytes + 1, Len(t))]
          [] v \div 8 # 0 /\ v % 8 = 2 /\ n <= Len(u) ->
               [first |-> [field |-> v \div 8, wire |-> v % 8, value |-> 0, bytes |-> SubSeq(u, 1, n)],
                rest |-> SubSeq(u, n + 1, Len(u))]
          [] OTHER -> [first |-> Malformed, rest |-> <<>>]
  BY ONLY <1>1, <1>2 DEF ReadField, Varint, Fixed64, LengthDelimited
<1>9. /\ FixedBytes <= Len(t) =>
           Found(b, [first |-> [field |-> v \div 8, wire |-> v % 8, value |-> 0, bytes |-> SubSeq(t, 1, FixedBytes)],
                     rest |-> SubSeq(t, FixedBytes + 1, Len(t))])
      /\ n <= Len(u) =>
           Found(b, [first |-> [field |-> v \div 8, wire |-> v % 8, value |-> 0, bytes |-> SubSeq(u, 1, n)],
                     rest |-> SubSeq(u, n + 1, Len(u))])
  <2>1. Len(t) <= Len(t)
    BY <1>3
  <2> QED
    BY ONLY <1>2, <1>4, <1>5, <2>1, n \in Nat, t \in Text, u \in Text
<1>10. CASE v \div 8 # 0 /\ v % 8 = 0
  BY ONLY <1>6, <1>8, <1>10
<1>11. CASE v \div 8 # 0 /\ v % 8 = 1 /\ FixedBytes <= Len(t)
  BY ONLY <1>9, <1>8, <1>11
<1>12. CASE v \div 8 # 0 /\ v % 8 = 2 /\ n <= Len(u)
  BY ONLY <1>9, <1>8, <1>12
<1>13. CASE /\ ~(v \div 8 # 0 /\ v % 8 = 0) /\ ~(v \div 8 # 0 /\ v % 8 = 1 /\ FixedBytes <= Len(t))
            /\ ~(v \div 8 # 0 /\ v % 8 = 2 /\ n <= Len(u))
  BY ONLY <1>7, <1>8, <1>13
<1> QED
  BY ONLY <1>10, <1>11, <1>12, <1>13

\* The reader of fields is a function on texts: its recursion shortens the text.
LEMMA ReadFieldsIs ==
  ASSUME ProtoAssumption
  PROVE  /\ ReadFields \in [Text -> Seq(Field)]
         /\ \A b \in Text : ReadFields[b] =
              IF b = <<>> THEN <<>> ELSE <<ReadField(b).first>> \o ReadFields[ReadField(b).rest]
<1> DEFINE first == <<>>
           step == [x \in Text \X Seq(Field) |-> <<ReadField(x[1]).first>> \o x[2]]
           prev == [b \in Text |-> ReadField(b).rest]
           Def(g, b) == IF b = <<>> THEN <<>> ELSE <<ReadField(b).first>> \o g[ReadField(b).rest]
<1>1. \A b \in Text : /\ ReadField(b).first \in Field /\ ReadField(b).rest \in Text
                      /\ b # <<>> => Len(ReadField(b).rest) < Len(b)
  BY ReadFieldIs DEF Found
<1>0. ASSUME NEW x \in Field, NEW s \in Seq(Field) PROVE <<x>> \o s \in Seq(Field)
  OBVIOUS
<1>2. first \in Seq(Field) /\ step \in [Text \X Seq(Field) -> Seq(Field)]
  <2>1. \A x \in Text \X Seq(Field) : x[1] \in Text /\ x[2] \in Seq(Field)
    OBVIOUS
  <2>2. \A x \in Text \X Seq(Field) : <<ReadField(x[1]).first>> \o x[2] \in Seq(Field)
    BY ONLY <1>0, <1>1, <2>1
  <2> QED
    BY ONLY <2>2
<1>3. prev \in [Text -> Text] /\ Shortens(prev, Byte)
  <2>1. prev \in [Text -> Text]
    BY ONLY <1>1
  <2>2. \A b \in Text : b # <<>> => Len(prev[b]) < Len(b)
    BY ONLY <1>1
  <2> HIDE DEF prev
  <2> QED
    BY ONLY <2>1, <2>2 DEF Shortens, Text
<1>4. PICK f \in [Text -> Seq(Field)] : MadeFrom(f, Byte, first, step, prev)
  <2> HIDE DEF first, step, prev
  <2> QED
    BY ONLY <1>2, <1>3, SeqRecursion DEF Text
<1>5. ASSUME NEW b \in Text PROVE f[b] = Def(f, b)
  <2>1. f[b] = IF b # <<>> THEN step[<<b, f[prev[b]]>>] ELSE first
    <3> HIDE DEF first, step, prev
    <3> QED
      BY <1>4 DEF MadeFrom, Text
  <2>2. prev[b] = ReadField(b).rest /\ f[ReadField(b).rest] \in Seq(Field)
    BY <1>1
  <2>3. step[<<b, f[ReadField(b).rest]>>] = <<ReadField(b).first>> \o f[ReadField(b).rest]
    BY ONLY <2>2, b \in Text
  <2> QED
    BY ONLY <2>1, <2>2, <2>3
<1>6. f = [b \in Text |-> Def(f, b)]
  <2> HIDE DEF Def
  <2> QED
    BY ONLY <1>5, f \in [Text -> Seq(Field)]
<1>7. ReadFields = [b \in Text |-> Def(ReadFields, b)]
  BY <1>6, Zenon DEF ReadFields
<1>8. \A b \in Text : ReadFields[b] = Def(ReadFields, b)
  BY ONLY <1>7
<1>9. ReadFields \in [Text -> Seq(Field)]
  <2> DEFINE T == {n \in Nat : \A b \in Text : Len(b) <= n => ReadFields[b] \in Seq(Field)}
  <2>0. \A b \in Text : Len(b) \in Nat /\ Len(b) <= Len(b) /\ (Len(b) <= 0 => b = <<>>)
    BY DEF Text
  <2>1. ASSUME NEW b \in Text, b # <<>> => ReadFields[ReadField(b).rest] \in Seq(Field)
        PROVE  ReadFields[b] \in Seq(Field)
    <3>1. CASE b = <<>>
      <4>1. Def(ReadFields, b) = <<>>
        BY ONLY <3>1
      <4>2. ReadFields[b] = Def(ReadFields, b)
        BY ONLY <1>8, b \in Text
      <4>3. <<>> \in Seq(Field)
        OBVIOUS
      <4> QED
        BY ONLY <4>1, <4>2, <4>3
    <3>2. CASE b # <<>>
      <4>1. <<ReadField(b).first>> \o ReadFields[ReadField(b).rest] \in Seq(Field)
        BY ONLY <1>0, <1>1, <2>1, <3>2
      <4> QED
        BY ONLY <1>8, <3>2, <4>1, b \in Text
    <3> QED
      BY ONLY <3>1, <3>2
  <2>2. 0 \in T
    BY ONLY <2>0, <2>1
  <2>3. ASSUME NEW n \in Nat, n \in T PROVE n + 1 \in T
    <3>1. ASSUME NEW b \in Text, Len(b) <= n + 1 PROVE ReadFields[b] \in Seq(Field)
      <4>1. b # <<>> => ReadField(b).rest \in Text /\ Len(ReadField(b).rest) <= n
        BY ONLY <1>1, <2>0, <3>1, n \in Nat
      <4>2. \A c \in Text : Len(c) <= n => ReadFields[c] \in Seq(Field)
        BY ONLY <2>3
      <4>3. b # <<>> => ReadFields[ReadField(b).rest] \in Seq(Field)
        BY ONLY <4>1, <4>2
      <4> QED
        BY ONLY <2>1, <4>3, b \in Text
    <3> QED
      BY <3>1
  <2>4. Nat \subseteq T
    <3> HIDE DEF T
    <3> QED
      BY ONLY <2>2, <2>3, InductionOverSets
  <2>5. \A b \in Text : ReadFields[b] \in Seq(Field)
    BY ONLY <2>0, <2>4
  <2> HIDE DEF Def
  <2> QED
    BY ONLY <1>7, <2>5
<1> QED
  BY ONLY <1>8, <1>9

-----------------------------------------------------------------------------
(***************************************************************************)
(* What the primitives write, whatever follows it. A field that is written *)
(* is read as one record, and what is behind it is read as if it were      *)
(* alone.                                                                  *)
(***************************************************************************)
\* Some bytes are the fields fs, whatever follows them.
ReadsAs(b, fs) ==
  /\ b \in Text /\ fs \in Seq(Field)
  /\ \A rest \in Text : ReadFields[b \o rest] = fs \o ReadFields[rest]

\* A text is a sequence of fields, and one that has none is empty.
LEMMA FieldsAre ==
  ASSUME ProtoAssumption, NEW b \in Text
  PROVE  /\ ReadFields[b] \in Seq(Field) /\ ReadFields[<<>>] = <<>>
         /\ ReadFields[b] = <<>> => b = <<>>
<1>1. ReadFields[b] \in Seq(Field)
  BY ReadFieldsIs
<1>2. ReadFields[<<>>] = <<>>
  <2>1. <<>> \in Text
    BY DEF Text
  <2> QED
    BY <2>1, ReadFieldsIs
<1>3. ASSUME b # <<>> PROVE ReadFields[b] # <<>>
  <2>1. PICK x \in Field, s \in Seq(Field) : x = ReadField(b).first /\ s = ReadFields[ReadField(b).rest]
    BY ReadFieldIs, ReadFieldsIs DEF Found
  <2>2. ReadFields[b] = <<x>> \o s
    BY <1>3, <2>1, ReadFieldsIs
  <2>3. <<x>> \o s # <<>>
    OBVIOUS
  <2> QED
    BY ONLY <2>2, <2>3
<1> QED
  BY ONLY <1>1, <1>2, <1>3

\* No bytes are no fields.
LEMMA ReadsNothing == ASSUME ProtoAssumption PROVE ReadsAs(<<>>, <<>>)
<1>1. <<>> \in Text /\ <<>> \in Seq(Field)
  BY DEF Text
<1>2. ASSUME NEW rest \in Text PROVE ReadFields[<<>> \o rest] = <<>> \o ReadFields[rest]
  <2>1. <<>> \o rest = rest
    BY DEF Text
  <2>2. PICK s \in Seq(Field) : s = ReadFields[rest]
    BY FieldsAre
  <2>3. <<>> \o s = s
    OBVIOUS
  <2> QED
    BY ONLY <2>1, <2>2, <2>3
<1> QED
  BY ONLY <1>1, <1>2 DEF ReadsAs

\* Bytes that are joined are the fields of the first and then those of the second.
LEMMA ReadsBoth ==
  ASSUME ProtoAssumption, NEW a, NEW b, NEW fs, NEW gs, ReadsAs(a, fs), ReadsAs(b, gs)
  PROVE  ReadsAs(a \o b, fs \o gs)
<1>1. a \in Text /\ b \in Text /\ fs \in Seq(Field) /\ gs \in Seq(Field)
  BY DEF ReadsAs
<1>2. a \o b \in Text /\ fs \o gs \in Seq(Field)
  BY <1>1 DEF Text
<1>3. ASSUME NEW rest \in Text PROVE ReadFields[(a \o b) \o rest] = (fs \o gs) \o ReadFields[rest]
  <2>0. (a \o b) \o rest = a \o (b \o rest)
    BY ONLY <1>1, rest \in Text, JoinAssociates DEF Associates
  <2>1. b \o rest \in Text
    BY ONLY <1>1, rest \in Text, JoinedText
  <2>2. ReadFields[a \o (b \o rest)] = fs \o ReadFields[b \o rest]
    BY <2>1 DEF ReadsAs
  <2>3. ReadFields[b \o rest] = gs \o ReadFields[rest]
    BY DEF ReadsAs
  <2>4. PICK s \in Seq(Field) : s = ReadFields[rest]
    BY FieldsAre
  <2>5. (fs \o gs) \o s = fs \o (gs \o s)
    BY ONLY <1>1, s \in Seq(Field)
  <2> QED
    BY ONLY <2>0, <2>2, <2>3, <2>4, <2>5
<1> QED
  BY ONLY <1>2, <1>3 DEF ReadsAs

\* The reader finds the fields when nothing follows.
LEMMA ReadsBack ==
  ASSUME ProtoAssumption, NEW b, NEW fs, ReadsAs(b, fs)
  PROVE  ReadFields[b] = fs /\ b \in Text /\ fs \in Seq(Field)
<1>1. b \in Text /\ fs \in Seq(Field) /\ <<>> \in Text
  BY DEF ReadsAs, Text
<1>2. ReadFields[b \o <<>>] = fs \o ReadFields[<<>>]
  BY <1>1 DEF ReadsAs
<1>3. b \o <<>> = b /\ fs \o <<>> = fs
  BY <1>1 DEF Text
<1>4. ReadFields[<<>>] = <<>>
  BY <1>1, FieldsAre
<1> QED
  BY ONLY <1>1, <1>2, <1>3, <1>4

\* The field that some bytes are, whatever follows them.
AtHead(b, r) == \A rest \in Text : ReadField(b \o rest) = [first |-> r, rest |-> rest]

\* Bytes at whose head is a field that takes them all are that field.
LEMMA HeadReads ==
  ASSUME ProtoAssumption, NEW b \in Text, b # <<>>, NEW r \in Field, AtHead(b, r)
  PROVE  ReadsAs(b, <<r>>)
<1>1. <<r>> \in Seq(Field)
  OBVIOUS
<1>2. ASSUME NEW rest \in Text PROVE ReadFields[b \o rest] = <<r>> \o ReadFields[rest]
  <2>1. b \o rest \in Text /\ b \o rest # <<>>
    BY DEF Text
  <2>2. PICK found : found = ReadField(b \o rest)
    OBVIOUS
  <2>3. found.first = r /\ found.rest = rest
    BY ONLY <2>2, AtHead(b, r), rest \in Text DEF AtHead
  <2>4. ReadFields[b \o rest] = <<found.first>> \o ReadFields[found.rest]
    BY <2>1, <2>2, ReadFieldsIs
  <2> QED
    BY ONLY <2>3, <2>4
<1> QED
  BY ONLY <1>1, <1>2, b \in Text DEF ReadsAs

\* The tag at the head of some bytes.
Tagged(b, f, wire, rest) ==
  /\ ReadVarint[b].value \div 8 = f /\ ReadVarint[b].value % 8 = wire
  /\ ReadVarint[b].rest = rest

\* The number and the wire type are read back from the tag that was written for them.
LEMMA TagReads ==
  ASSUME ProtoAssumption, NEW f \in Nat, NEW wire \in 0..2, NEW rest \in Text
  PROVE  Tagged(EncodeTag(f, wire) \o rest, f, wire, rest)
<1>1. 8 * f + wire \in Nat
  OBVIOUS
<1>2. ReadVarint[EncodeTag(f, wire) \o rest] = [value |-> 8 * f + wire, rest |-> rest]
  BY <1>1, VarintReads DEF ReadsNumber, EncodeTag
<1>3. (8 * f + wire) \div 8 = f /\ (8 * f + wire) % 8 = wire
  OBVIOUS
<1> QED
  BY ONLY <1>2, <1>3 DEF Tagged

\* The field of a varint, and that of some bytes of a length, behind a tag.
LEMMA FieldBehindTag ==
  ASSUME NEW b, NEW f \in Nat \ {0}, NEW wire \in 0..2, NEW rest, Tagged(b, f, wire, rest)
  PROVE  /\ wire = 0 => ReadField(b) =
              [first |-> [field |-> f, wire |-> 0, value |-> ReadVarint[rest].value, bytes |-> <<>>],
               rest |-> ReadVarint[rest].rest]
         /\ wire = 1 /\ FixedBytes <= Len(rest) => ReadField(b) =
              [first |-> [field |-> f, wire |-> 1, value |-> 0, bytes |-> SubSeq(rest, 1, FixedBytes)],
               rest |-> SubSeq(rest, FixedBytes + 1, Len(rest))]
         /\ wire = 2 /\ ReadVarint[rest].value <= Len(ReadVarint[rest].rest) => ReadField(b) =
              [first |-> [field |-> f, wire |-> 2, value |-> 0,
                          bytes |-> SubSeq(ReadVarint[rest].rest, 1, ReadVarint[rest].value)],
               rest |-> SubSeq(ReadVarint[rest].rest, ReadVarint[rest].value + 1, Len(ReadVarint[rest].rest))]
<1>1. PICK d, w : d = ReadVarint[b].value \div 8 /\ w = ReadVarint[b].value % 8
  OBVIOUS
<1>2. PICK n, u : n = ReadVarint[rest].value /\ u = ReadVarint[rest].rest
  OBVIOUS
<1>3. d = f /\ w = wire /\ ReadVarint[b].rest = rest /\ f # 0
  BY ONLY <1>1, Tagged(b, f, wire, rest), f \in Nat \ {0} DEF Tagged
<1>4. ReadField(b) =
        CASE d # 0 /\ w = 0 ->
               [first |-> [field |-> d, wire |-> w, value |-> n, bytes |-> <<>>], rest |-> u]
          [] d # 0 /\ w = 1 /\ FixedBytes <= Len(rest) ->
               [first |-> [field |-> d, wire |-> w, value |-> 0, bytes |-> SubSeq(rest, 1, FixedBytes)],
                rest |-> SubSeq(rest, FixedBytes + 1, Len(rest))]
          [] d # 0 /\ w = 2 /\ n <= Len(u) ->
               [first |-> [field |-> d, wire |-> w, value |-> 0, bytes |-> SubSeq(u, 1, n)],
                rest |-> SubSeq(u, n + 1, Len(u))]
          [] OTHER -> [first |-> Malformed, rest |-> <<>>]
  BY ONLY <1>1, <1>2, <1>3 DEF ReadField, Varint, Fixed64, LengthDelimited
<1>5. wire = 0 => ReadField(b) = [first |-> [field |-> d, wire |-> w, value |-> n, bytes |-> <<>>], rest |-> u]
  BY ONLY <1>3, <1>4
<1>6. wire = 1 /\ FixedBytes <= Len(rest) => ReadField(b) =
        [first |-> [field |-> d, wire |-> w, value |-> 0, bytes |-> SubSeq(rest, 1, FixedBytes)],
         rest |-> SubSeq(rest, FixedBytes + 1, Len(rest))]
  BY ONLY <1>3, <1>4
<1>7. wire = 2 /\ n <= Len(u) => ReadField(b) =
        [first |-> [field |-> d, wire |-> w, value |-> 0, bytes |-> SubSeq(u, 1, n)],
         rest |-> SubSeq(u, n + 1, Len(u))]
  BY ONLY <1>3, <1>4
<1>8. /\ wire = 0 => ReadField(b) =
           [first |-> [field |-> f, wire |-> 0, value |-> ReadVarint[rest].value, bytes |-> <<>>],
            rest |-> ReadVarint[rest].rest]
  BY ONLY <1>2, <1>3, <1>5
<1>9. wire = 1 /\ FixedBytes <= Len(rest) => ReadField(b) =
        [first |-> [field |-> f, wire |-> 1, value |-> 0, bytes |-> SubSeq(rest, 1, FixedBytes)],
         rest |-> SubSeq(rest, FixedBytes + 1, Len(rest))]
  BY ONLY <1>3, <1>6
<1>10. wire = 2 /\ ReadVarint[rest].value <= Len(ReadVarint[rest].rest) => ReadField(b) =
         [first |-> [field |-> f, wire |-> 2, value |-> 0,
                     bytes |-> SubSeq(ReadVarint[rest].rest, 1, ReadVarint[rest].value)],
          rest |-> SubSeq(ReadVarint[rest].rest, ReadVarint[rest].value + 1, Len(ReadVarint[rest].rest))]
  BY ONLY <1>2, <1>3, <1>7
<1> QED
  BY ONLY <1>8, <1>9, <1>10

\* A tag has bytes.
LEMMA TagNotEmpty ==
  ASSUME ProtoAssumption, NEW f \in Nat, NEW wire \in 0..2, NEW b \in Text
  PROVE  EncodeTag(f, wire) \o b # <<>> /\ EncodeTag(f, wire) \in Text
<1>1. 8 * f + wire \in Nat
  OBVIOUS
<1>2. Len(EncodeTag(f, wire)) > 0 /\ EncodeTag(f, wire) \in Text
  BY <1>1, GroupsCount, EncodeVarintIs DEF EncodeTag
<1> QED
  BY <1>2 DEF Text

\* The fields that the primitives write, as the reader finds them.
VarintRecord(f, n) == [field |-> f, wire |-> Varint, value |-> n, bytes |-> <<>>]
FixedRecord(f, n) == [field |-> f, wire |-> Fixed64, value |-> 0, bytes |-> LittleEndian(n)]
BytesRecord(f, s) == [field |-> f, wire |-> LengthDelimited, value |-> 0, bytes |-> s]

LEMMA RecordsAre ==
  ASSUME ProtoAssumption, NEW f \in Nat, NEW n \in Nat, NEW s \in Text
  PROVE  VarintRecord(f, n) \in Field /\ FixedRecord(f, n) \in Field /\ BytesRecord(f, s) \in Field
<1>1. <<>> \in Text
  BY DEF Text
<1>2. LittleEndian(n) \in Text
  BY LittleEndianIs
<1>3. 0 \in Nat /\ 1 \in Nat /\ 2 \in Nat
  OBVIOUS
<1> QED
  BY ONLY <1>1, <1>2, <1>3, f \in Nat, n \in Nat, s \in Text
     DEF VarintRecord, FixedRecord, BytesRecord, Field, Varint, Fixed64, LengthDelimited

\* What each primitive writes is one field: a varint, a fixed64, some bytes of a length.
LEMMA VarintFieldReads ==
  ASSUME ProtoAssumption, NEW f \in Nat, f # 0, NEW n \in Nat
  PROVE  ReadsAs(EncodeVarintFieldAlways(f, n), <<VarintRecord(f, n)>>)
<1>1. PICK e \in Text : e = EncodeVarint[n]
  BY EncodeVarintIs
<1>2. PICK t \in Text : t = EncodeTag(f, 0) /\ t \o e # <<>>
  BY TagNotEmpty
<1>3. EncodeVarintFieldAlways(f, n) = t \o e /\ t \o e \in Text
  BY <1>1, <1>2, JoinedText DEF EncodeVarintFieldAlways, Varint
<1>4. ASSUME NEW rest \in Text
      PROVE  ReadField((t \o e) \o rest) = [first |-> VarintRecord(f, n), rest |-> rest]
  <2>1. PICK b \in Text : b = (t \o e) \o rest
    BY <1>3, JoinedText
  <2>2. b = t \o (e \o rest) /\ e \o rest \in Text
    BY <2>1, JoinAssociates, JoinedText DEF Associates
  <2>3. Tagged(b, f, 0, e \o rest)
    <3>1. 0 \in 0..2
      OBVIOUS
    <3>2. Tagged(EncodeTag(f, 0) \o (e \o rest), f, 0, e \o rest)
      BY ONLY <2>2, <3>1, TagReads, ProtoAssumption, f \in Nat
    <3> QED
      BY ONLY <1>2, <2>2, <3>2
  <2>4. ReadVarint[e \o rest] = [value |-> n, rest |-> rest]
    <3>1. ReadsNumber(n, rest)
      BY VarintReads
    <3> QED
      BY ONLY <1>1, <3>1 DEF ReadsNumber
  <2>5. ReadField(b) = [first |-> [field |-> f, wire |-> 0, value |-> n, bytes |-> <<>>], rest |-> rest]
    <3>1. ReadField(b) =
            [first |-> [field |-> f, wire |-> 0, value |-> ReadVarint[e \o rest].value, bytes |-> <<>>],
             rest |-> ReadVarint[e \o rest].rest]
      BY <2>3, FieldBehindTag
    <3> QED
      BY ONLY <2>4, <3>1
  <2> QED
    BY ONLY <2>1, <2>5 DEF VarintRecord, Varint
<1>5. VarintRecord(f, n) \in Field
  <2>1. <<>> \in Text
    BY DEF Text
  <2> QED
    BY <2>1, RecordsAre
<1>6. AtHead(t \o e, VarintRecord(f, n))
  BY ONLY <1>4 DEF AtHead
<1> QED
  BY <1>2, <1>3, <1>5, <1>6, HeadReads

LEMMA FixedFieldReads ==
  ASSUME ProtoAssumption, NEW f \in Nat, f # 0, NEW n \in U64
  PROVE  ReadsAs(EncodeFixed64FieldAlways(f, n), <<FixedRecord(f, n)>>)
<1>0. n \in Nat
  BY WordsAre
<1>1. PICK e \in Text : e = LittleEndian(n) /\ Len(e) = FixedBytes
  BY <1>0, LittleEndianIs, FixedReads
<1>2. PICK t \in Text : t = EncodeTag(f, 1) /\ t \o e # <<>>
  BY TagNotEmpty
<1>3. EncodeFixed64FieldAlways(f, n) = t \o e /\ t \o e \in Text
  BY <1>1, <1>2, JoinedText DEF EncodeFixed64FieldAlways, Fixed64
<1>4. ASSUME NEW rest \in Text
      PROVE  ReadField((t \o e) \o rest) = [first |-> FixedRecord(f, n), rest |-> rest]
  <2>1. PICK b \in Text : b = (t \o e) \o rest
    BY <1>3, JoinedText
  <2>2. b = t \o (e \o rest) /\ e \o rest \in Text
    <3>1. (t \o e) \o rest = t \o (e \o rest)
      BY ONLY t \in Text, e \in Text, rest \in Text, JoinAssociates DEF Associates
    <3>2. e \o rest \in Text
      BY ONLY e \in Text, rest \in Text, JoinedText
    <3> QED
      BY ONLY <2>1, <3>1, <3>2
  <2>3. Tagged(b, f, 1, e \o rest)
    <3>1. 1 \in 0..2
      OBVIOUS
    <3>2. Tagged(EncodeTag(f, 1) \o (e \o rest), f, 1, e \o rest)
      BY ONLY <2>2, <3>1, TagReads, ProtoAssumption, f \in Nat
    <3> QED
      BY ONLY <1>2, <2>2, <3>2
  <2>4. SubSeq(e \o rest, 1, FixedBytes) = e /\ SubSeq(e \o rest, FixedBytes + 1, Len(e \o rest)) = rest
    BY <1>1, Splitting
  <2>5. FixedBytes <= Len(e \o rest)
    BY <1>1, JoinIs
  <2>6. ReadField(b) = [first |-> [field |-> f, wire |-> 1, value |-> 0, bytes |-> e], rest |-> rest]
    <3>1. PICK r : r = e \o rest
      OBVIOUS
    <3>2. Tagged(b, f, 1, r) /\ FixedBytes <= Len(r) /\ f \in Nat \ {0} /\ 1 \in 0..2
      BY <2>3, <2>5, <3>1
    <3>3. ReadField(b) =
            [first |-> [field |-> f, wire |-> 1, value |-> 0, bytes |-> SubSeq(r, 1, FixedBytes)],
             rest |-> SubSeq(r, FixedBytes + 1, Len(r))]
      BY <3>2, FieldBehindTag
    <3> QED
      BY ONLY <2>4, <3>1, <3>3
  <2> QED
    BY ONLY <1>1, <2>1, <2>6 DEF FixedRecord, Fixed64
<1>5. FixedRecord(f, n) \in Field
  <2>1. <<>> \in Text
    BY DEF Text
  <2> QED
    BY <1>0, <2>1, RecordsAre
<1>6. AtHead(t \o e, FixedRecord(f, n))
  BY ONLY <1>4 DEF AtHead
<1> QED
  BY <1>2, <1>3, <1>5, <1>6, HeadReads

LEMMA DelimitedReads ==
  ASSUME ProtoAssumption, NEW f \in Nat, f # 0, NEW s \in Text
  PROVE  ReadsAs(EncodeTag(f, LengthDelimited) \o (EncodeVarint[Len(s)] \o s), <<BytesRecord(f, s)>>)
<1>0. Len(s) \in Nat
  BY DEF Text
<1>1. PICK e \in Text : e = EncodeVarint[Len(s)]
  BY <1>0, EncodeVarintIs
<1>2. e \o s \in Text
  BY JoinedText
<1>3. PICK t \in Text : t = EncodeTag(f, 2) /\ t \o (e \o s) # <<>>
  BY <1>2, TagNotEmpty
<1>4. t \o (e \o s) \in Text
  BY <1>2, JoinedText
<1>5. ASSUME NEW rest \in Text
      PROVE  ReadField((t \o (e \o s)) \o rest) = [first |-> BytesRecord(f, s), rest |-> rest]
  <2>1. PICK b \in Text : b = (t \o (e \o s)) \o rest
    BY <1>4, JoinedText
  <2>2. s \o rest \in Text /\ e \o (s \o rest) \in Text
    BY JoinedText
  <2>3. b = t \o (e \o (s \o rest))
    <3>1. (t \o (e \o s)) \o rest = t \o ((e \o s) \o rest)
      <4>1. PICK es \in Text : es = e \o s
        BY <1>2
      <4>2. (t \o es) \o rest = t \o (es \o rest)
        <5>1. Associates(t, es, rest)
          BY ONLY t \in Text, es \in Text, rest \in Text, JoinAssociates
        <5> QED
          BY ONLY <5>1 DEF Associates
      <4> QED
        BY ONLY <4>1, <4>2
    <3>2. (e \o s) \o rest = e \o (s \o rest)
      BY ONLY e \in Text, s \in Text, rest \in Text, JoinAssociates DEF Associates
    <3> QED
      BY ONLY <2>1, <3>1, <3>2
  <2>4. Tagged(b, f, 2, e \o (s \o rest))
    <3>1. 2 \in 0..2
      OBVIOUS
    <3>2. Tagged(EncodeTag(f, 2) \o (e \o (s \o rest)), f, 2, e \o (s \o rest))
      BY ONLY <2>2, <3>1, TagReads, ProtoAssumption, f \in Nat
    <3> QED
      BY ONLY <1>3, <2>3, <3>2
  <2>5. ReadVarint[e \o (s \o rest)] = [value |-> Len(s), rest |-> s \o rest]
    <3>1. ReadsNumber(Len(s), s \o rest)
      BY <1>0, <2>2, VarintReads
    <3> QED
      BY ONLY <1>1, <3>1 DEF ReadsNumber
  <2>6. SubSeq(s \o rest, 1, Len(s)) = s /\ SubSeq(s \o rest, Len(s) + 1, Len(s \o rest)) = rest
    BY Splitting
  <2>7. Len(s) <= Len(s \o rest)
    BY JoinIs
  <2>8. ReadField(b) = [first |-> [field |-> f, wire |-> 2, value |-> 0, bytes |-> s], rest |-> rest]
    <3>1. PICK r, u, n : r = e \o (s \o rest) /\ u = ReadVarint[r].rest /\ n = ReadVarint[r].value
      OBVIOUS
    <3>2. u = s \o rest /\ n = Len(s)
      BY ONLY <2>5, <3>1
    <3>3. Tagged(b, f, 2, r) /\ ReadVarint[r].value <= Len(ReadVarint[r].rest)
      BY ONLY <2>4, <2>7, <3>1, <3>2
    <3>4. ReadField(b) =
            [first |-> [field |-> f, wire |-> 2, value |-> 0,
                        bytes |-> SubSeq(ReadVarint[r].rest, 1, ReadVarint[r].value)],
             rest |-> SubSeq(ReadVarint[r].rest, ReadVarint[r].value + 1, Len(ReadVarint[r].rest))]
      <4>1. f \in Nat \ {0}
        OBVIOUS
      <4>2. PICK k \in 0..2 : k = 2
        OBVIOUS
      <4>3. Tagged(b, f, k, r) /\ k = 2 /\ ReadVarint[r].value <= Len(ReadVarint[r].rest)
        BY ONLY <3>3, <4>2
      <4> QED
        BY ONLY <4>1, <4>3, FieldBehindTag
    <3> QED
      BY ONLY <2>6, <3>1, <3>2, <3>4
  <2> QED
    BY ONLY <2>1, <2>8 DEF BytesRecord, LengthDelimited
<1>6. BytesRecord(f, s) \in Field
  <2>1. 0 \in Nat
    OBVIOUS
  <2> QED
    BY <2>1, RecordsAre
<1>7. AtHead(t \o (e \o s), BytesRecord(f, s))
  BY ONLY <1>5 DEF AtHead
<1>8. ReadsAs(t \o (e \o s), <<BytesRecord(f, s)>>)
  BY <1>3, <1>4, <1>6, <1>7, HeadReads
<1> QED
  BY ONLY <1>1, <1>3, <1>8 DEF LengthDelimited

\* A field with the default value is left out by the primitives that may leave it out.
BytesFields(f, s) == IF s = <<>> THEN <<>> ELSE <<BytesRecord(f, s)>>
VarintFields(f, n) == IF n = 0 THEN <<>> ELSE <<VarintRecord(f, n)>>
FixedFields(f, n) == IF n = 0 THEN <<>> ELSE <<FixedRecord(f, n)>>

\* What the primitives that may leave a field out write is that field or none.
LEMMA WritersRead ==
  ASSUME ProtoAssumption, NEW f \in Nat, f # 0, NEW s \in Text, NEW n \in Nat, NEW m \in U64
  PROVE  /\ ReadsAs(EncodeBytesField(f, s), BytesFields(f, s))
         /\ ReadsAs(EncodeVarintField(f, n), VarintFields(f, n))
         /\ ReadsAs(EncodeFixed64Field(f, m), FixedFields(f, m))
<1>0. ReadsAs(<<>>, <<>>)
  BY ReadsNothing
<1>1. ReadsAs(EncodeBytesField(f, s), BytesFields(f, s))
  <2>1. CASE s = <<>>
    BY ONLY <1>0, <2>1 DEF EncodeBytesField, BytesFields
  <2>2. CASE s # <<>>
    <3>1. EncodeBytesField(f, s) = (EncodeTag(f, LengthDelimited) \o EncodeVarint[Len(s)]) \o s
      BY ONLY <2>2 DEF EncodeBytesField
    <3>2. EncodeTag(f, LengthDelimited) \in Text /\ EncodeVarint[Len(s)] \in Text
      <4>1. Len(s) \in Nat /\ LengthDelimited \in Nat
        BY DEF Text, LengthDelimited
      <4> QED
        BY <4>1, TagText, EncodeVarintIs
    <3>3. EncodeBytesField(f, s) = EncodeTag(f, LengthDelimited) \o (EncodeVarint[Len(s)] \o s)
      BY <3>1, <3>2, JoinAssociates DEF Associates
    <3>4. BytesFields(f, s) = <<BytesRecord(f, s)>>
      BY ONLY <2>2 DEF BytesFields
    <3>5. ReadsAs(EncodeTag(f, LengthDelimited) \o (EncodeVarint[Len(s)] \o s), <<BytesRecord(f, s)>>)
      BY DelimitedReads
    <3> QED
      BY ONLY <3>3, <3>4, <3>5
  <2> QED
    BY ONLY <2>1, <2>2
<1>2. ReadsAs(EncodeVarintField(f, n), VarintFields(f, n))
  <2>1. ReadsAs(EncodeVarintFieldAlways(f, n), <<VarintRecord(f, n)>>)
    BY VarintFieldReads
  <2> QED
    BY ONLY <1>0, <2>1 DEF EncodeVarintField, VarintFields
<1>3. ReadsAs(EncodeFixed64Field(f, m), FixedFields(f, m))
  <2>1. ReadsAs(EncodeFixed64FieldAlways(f, m), <<FixedRecord(f, m)>>)
    BY FixedFieldReads
  <2> QED
    BY ONLY <1>0, <2>1 DEF EncodeFixed64Field, FixedFields
<1> QED
  BY ONLY <1>1, <1>2, <1>3

-----------------------------------------------------------------------------
(***************************************************************************)
(* What a reader asks of the fields of a message. It asks for each number  *)
(* on its own; so a message is known from its fields sorted by number.     *)
(***************************************************************************)
\* The occurrences of a number with a wire type are the fields that have both.
Matching(f, wire) == {r \in Field : r.field = f /\ r.wire = wire}

LEMMA OccurrencesAre ==
  ASSUME NEW fs \in Seq(Field), NEW f, NEW wire
  PROVE  /\ Occurrences(fs, f, wire) = Those(fs, Matching(f, wire))
         /\ Occurrences(fs, f, wire) \in Seq(Field)
<1>1. \A i \in DOMAIN fs : fs[i] \in Field
  OBVIOUS
<1>2. {i \in DOMAIN fs : fs[i].field = f /\ fs[i].wire = wire} = {i \in DOMAIN fs : fs[i] \in Matching(f, wire)}
  BY ONLY <1>1 DEF Matching
<1>3. Occurrences(fs, f, wire) = Those(fs, Matching(f, wire))
  BY ONLY <1>2 DEF Occurrences, Those
<1>4. Kept(fs, {i \in DOMAIN fs : fs[i] \in Matching(f, wire)}) \in Seq(Field)
  BY PicksAre
<1> QED
  BY ONLY <1>3, <1>4 DEF Those

\* The occurrences in fields that are joined are those in both parts.
OccurJoined(fs, gs, f, wire) ==
  Occurrences(fs \o gs, f, wire) = Occurrences(fs, f, wire) \o Occurrences(gs, f, wire)

LEMMA OccurrencesJoin ==
  ASSUME NEW fs \in Seq(Field), NEW gs \in Seq(Field), NEW f, NEW wire
  PROVE  OccurJoined(fs, gs, f, wire)
<1>1. fs \o gs \in Seq(Field)
  OBVIOUS
<1>2. Those(fs \o gs, Matching(f, wire)) = Those(fs, Matching(f, wire)) \o Those(gs, Matching(f, wire))
  BY ThoseJoin
<1>3. /\ Occurrences(fs \o gs, f, wire) = Those(fs \o gs, Matching(f, wire))
      /\ Occurrences(fs, f, wire) = Those(fs, Matching(f, wire))
      /\ Occurrences(gs, f, wire) = Those(gs, Matching(f, wire))
  BY ONLY <1>1, OccurrencesAre, fs \in Seq(Field), gs \in Seq(Field)
<1> QED
  BY ONLY <1>2, <1>3 DEF OccurJoined

\* A number occurs in joined fields if it does in one of the parts.
LEMMA HasJoin ==
  ASSUME NEW fs \in Seq(Field), NEW gs \in Seq(Field), NEW f
  PROVE  Has(fs \o gs, f) <=> (Has(fs, f) \/ Has(gs, f))
<1>1. /\ DOMAIN (fs \o gs) = 1..(Len(fs) + Len(gs)) /\ Len(fs) \in Nat /\ Len(gs) \in Nat
      /\ DOMAIN fs = 1..Len(fs) /\ DOMAIN gs = 1..Len(gs)
      /\ \A i \in 1..(Len(fs) + Len(gs)) : (fs \o gs)[i] = IF i <= Len(fs) THEN fs[i] ELSE gs[i - Len(fs)]
  BY JoinParts
<1>2. ASSUME NEW i \in DOMAIN (fs \o gs), (fs \o gs)[i].field = f PROVE Has(fs, f) \/ Has(gs, f)
  <2>1. CASE i <= Len(fs)
    <3>1. i \in DOMAIN fs /\ fs[i].field = f
      BY ONLY <1>1, <1>2, <2>1
    <3> QED
      BY ONLY <3>1 DEF Has
  <2>2. CASE ~(i <= Len(fs))
    <3>1. i - Len(fs) \in DOMAIN gs /\ gs[i - Len(fs)].field = f
      BY ONLY <1>1, <1>2, <2>2
    <3> QED
      BY ONLY <3>1 DEF Has
  <2> QED
    BY ONLY <2>1, <2>2
<1>3. ASSUME NEW i \in DOMAIN fs, fs[i].field = f PROVE Has(fs \o gs, f)
  <2>1. i \in DOMAIN (fs \o gs) /\ (fs \o gs)[i] = fs[i]
    BY ONLY <1>1, i \in DOMAIN fs
  <2> QED
    BY ONLY <1>3, <2>1 DEF Has
<1>4. ASSUME NEW i \in DOMAIN gs, gs[i].field = f PROVE Has(fs \o gs, f)
  <2>1. PICK j \in DOMAIN (fs \o gs) : j = i + Len(fs) /\ ~(j <= Len(fs)) /\ j - Len(fs) = i
    BY ONLY <1>1, i \in DOMAIN gs
  <2>2. (fs \o gs)[j] = gs[i]
    BY ONLY <1>1, <2>1
  <2> QED
    BY ONLY <1>4, <2>2, j \in DOMAIN (fs \o gs) DEF Has
<1> QED
  BY ONLY <1>2, <1>3, <1>4 DEF Has

\* Fields of one number.
Numbered(fs, f) == fs \in Seq(Field) /\ \A i \in DOMAIN fs : fs[i].field = f

\* Fields of one number hold no occurrence of another.
LEMMA NumberedIs ==
  ASSUME NEW f \in Nat, NEW g \in Nat, g # f, NEW fs, Numbered(fs, f)
  PROVE  /\ \A wire \in 0..2 : Occurrences(fs, g, wire) = <<>>
         /\ ~Has(fs, g) /\ (Has(fs, f) <=> fs # <<>>)
<1>1. fs \in Seq(Field) /\ \A i \in DOMAIN fs : fs[i].field = f
  BY DEF Numbered
<1>2. ASSUME NEW wire \in 0..2 PROVE Occurrences(fs, g, wire) = <<>>
  <2>1. \A i \in DOMAIN fs : fs[i] \notin Matching(g, wire)
    BY ONLY <1>1, g # f DEF Matching
  <2>2. Those(fs, Matching(g, wire)) = <<>>
    BY ONLY <1>1, <2>1, ThoseNone
  <2> QED
    BY ONLY <1>1, <2>2, OccurrencesAre
<1>3. ~Has(fs, g)
  BY ONLY <1>1, g # f DEF Has
<1>4. Has(fs, f) <=> fs # <<>>
  <2>1. fs # <<>> => 1 \in DOMAIN fs
    BY ONLY <1>1
  <2>2. fs = <<>> => DOMAIN fs = {}
    OBVIOUS
  <2> QED
    BY ONLY <1>1, <2>1, <2>2 DEF Has
<1> QED
  BY ONLY <1>2, <1>3, <1>4

\* Nothing occurs in no fields.
LEMMA NothingOccurs ==
  /\ \A f, wire : Occurrences(<<>>, f, wire) = <<>>
  /\ \A f : ~Has(<<>>, f) /\ Numbered(<<>>, f)
<1>1. <<>> \in Seq(Field)
  OBVIOUS
<1>2. ASSUME NEW f, NEW wire PROVE Occurrences(<<>>, f, wire) = <<>>
  <2>0. \A i \in DOMAIN <<>> : <<>>[i] \notin Matching(f, wire)
    OBVIOUS
  <2>1. Those(<<>>, Matching(f, wire)) = <<>>
    BY ONLY <1>1, <2>0, ThoseNone
  <2> QED
    BY ONLY <1>1, <2>1, OccurrencesAre
<1>3. \A f : ~Has(<<>>, f) /\ Numbered(<<>>, f)
  BY <1>1 DEF Has, Numbered
<1> QED
  BY ONLY <1>2, <1>3

\* The fields fs are, for each number, the fields of c.
Sorted(fs, c) ==
  /\ c \in [Nat -> Seq(Field)]
  /\ \A f \in Nat : /\ Numbered(c[f], f) /\ (Has(fs, f) <=> c[f] # <<>>)
                    /\ \A wire \in 0..2 : Occurrences(fs, f, wire) = Occurrences(c[f], f, wire)
  /\ fs # <<>> => \E f \in Nat : c[f] # <<>>

\* No fields are sorted, and sorted fields stay so with those of one more number.
NoFields == [f \in Nat |-> <<>>]

LEMMA SortedNothing == Sorted(<<>>, NoFields)
<1>1. NoFields \in [Nat -> Seq(Field)] /\ \A f \in Nat : NoFields[f] = <<>>
  BY DEF NoFields
<1> HIDE DEF NoFields
<1> QED
  BY ONLY <1>1, NothingOccurs DEF Sorted

LEMMA SortedMore ==
  ASSUME NEW fs \in Seq(Field), NEW c, Sorted(fs, c), NEW f \in Nat, c[f] = <<>>,
         NEW p, Numbered(p, f)
  PROVE  Sorted(fs \o p, [c EXCEPT ![f] = p])
<1>1. p \in Seq(Field) /\ c \in [Nat -> Seq(Field)]
  BY DEF Numbered, Sorted
<1>2. PICK k \in [Nat -> Seq(Field)] : /\ k = [c EXCEPT ![f] = p] /\ k[f] = p
                                       /\ \A g \in Nat : g # f => k[g] = c[g]
  <2>1. PICK k : k = [c EXCEPT ![f] = p]
    OBVIOUS
  <2>2. k \in [Nat -> Seq(Field)]
    BY ONLY <1>1, <2>1, f \in Nat
  <2>3. k[f] = p /\ \A g \in Nat : g # f => k[g] = c[g]
    BY ONLY <1>1, <2>1, f \in Nat
  <2> QED
    BY ONLY <2>1, <2>2, <2>3
<1>3. ASSUME NEW g \in Nat
      PROVE  /\ Numbered(k[g], g) /\ (Has(fs \o p, g) <=> k[g] # <<>>)
             /\ \A wire \in 0..2 : Occurrences(fs \o p, g, wire) = Occurrences(k[g], g, wire)
  <2>0. /\ Numbered(c[g], g) /\ (Has(fs, g) <=> c[g] # <<>>)
        /\ \A wire \in 0..2 : Occurrences(fs, g, wire) = Occurrences(c[g], g, wire)
    BY ONLY Sorted(fs, c), g \in Nat DEF Sorted
  <2>1. Has(fs \o p, g) <=> (Has(fs, g) \/ Has(p, g))
    BY <1>1, HasJoin
  <2>2. ASSUME NEW wire \in 0..2
        PROVE  /\ Occurrences(fs \o p, g, wire) = Occurrences(fs, g, wire) \o Occurrences(p, g, wire)
               /\ Occurrences(fs, g, wire) \in Seq(Field) /\ Occurrences(p, g, wire) \in Seq(Field)
    <3>1. Occurrences(fs \o p, g, wire) = Occurrences(fs, g, wire) \o Occurrences(p, g, wire)
      <4>1. OccurJoined(fs, p, g, wire)
        BY ONLY <1>1, OccurrencesJoin, fs \in Seq(Field)
      <4> QED
        BY ONLY <4>1 DEF OccurJoined
    <3>2. Occurrences(fs, g, wire) \in Seq(Field)
      BY ONLY OccurrencesAre, fs \in Seq(Field)
    <3>3. Occurrences(p, g, wire) \in Seq(Field)
      BY ONLY <1>1, OccurrencesAre
    <3> QED
      BY ONLY <3>1, <3>2, <3>3
  <2>3. CASE g = f
    <3>1. Has(p, f) <=> p # <<>>
      <4>1. f + 1 \in Nat /\ f + 1 # f
        OBVIOUS
      <4> QED
        BY ONLY <4>1, NumberedIs, Numbered(p, f), f \in Nat
    <3>2. ~Has(fs, g)
      BY ONLY <2>0, <2>3, c[f] = <<>>
    <3>3. ASSUME NEW wire \in 0..2 PROVE Occurrences(fs \o p, g, wire) = Occurrences(p, g, wire)
      <4>1. Occurrences(fs, g, wire) = <<>>
        BY ONLY <2>0, <2>3, c[f] = <<>>, NothingOccurs, wire \in 0..2
      <4>2. PICK o \in Seq(Field) : o = Occurrences(p, g, wire)
        BY <2>2
      <4>3. <<>> \o o = o
        OBVIOUS
      <4> QED
        BY ONLY <2>2, <4>1, <4>2, <4>3, wire \in 0..2
    <3> QED
      BY ONLY <1>2, <2>1, <2>3, <3>1, <3>2, <3>3, Numbered(p, f)
  <2>4. CASE g # f
    <3>1. (\A wire \in 0..2 : Occurrences(p, g, wire) = <<>>) /\ ~Has(p, g)
      BY ONLY <2>4, NumberedIs, Numbered(p, f), f \in Nat, g \in Nat
    <3>2. ASSUME NEW wire \in 0..2 PROVE Occurrences(fs \o p, g, wire) = Occurrences(fs, g, wire)
      <4>2. PICK o \in Seq(Field) : o = Occurrences(fs, g, wire)
        BY <2>2
      <4>3. o \o <<>> = o
        OBVIOUS
      <4> QED
        BY ONLY <2>2, <3>1, <4>2, <4>3, wire \in 0..2
    <3>3. k[g] = c[g]
      BY ONLY <1>2, <2>4, g \in Nat
    <3> QED
      BY ONLY <2>0, <2>1, <3>1, <3>2, <3>3
  <2> QED
    BY ONLY <2>3, <2>4
<1>4. ASSUME fs \o p # <<>> PROVE \E g \in Nat : k[g] # <<>>
  <2>1. CASE p # <<>>
    BY ONLY <1>2, <2>1, f \in Nat
  <2>2. CASE p = <<>>
    <3>1. fs \o <<>> = fs
      OBVIOUS
    <3>2. PICK g \in Nat : c[g] # <<>>
      BY ONLY <1>4, <2>2, <3>1, Sorted(fs, c) DEF Sorted
    <3>3. g # f
      BY ONLY <3>2, c[f] = <<>>
    <3> QED
      BY ONLY <1>2, <3>2, <3>3, g \in Nat
  <2> QED
    BY ONLY <2>1, <2>2
<1>5. Sorted(fs \o p, k)
  BY ONLY <1>3, <1>4, k \in [Nat -> Seq(Field)] DEF Sorted
<1> QED
  BY ONLY <1>2, <1>5

\* What is read from a message that has the fields of c.
Asks(fs, gs, f) ==
  /\ ReadBytes(fs, f) = ReadBytes(gs, f) /\ ReadNumber(fs, f) = ReadNumber(gs, f)
  /\ ReadFixed(fs, f) = ReadFixed(gs, f) /\ ReadRepeated(fs, f) = ReadRepeated(gs, f)
  /\ ReadMessage(fs, f) = ReadMessage(gs, f) /\ ReadPacked(fs, f) = ReadPacked(gs, f)

\* Every question of the reader about a number is answered by its own fields.
LEMMA SortedAsks ==
  ASSUME NEW fs, NEW c, Sorted(fs, c), NEW f \in Nat
  PROVE  Asks(fs, c[f], f)
<1>1. /\ Occurrences(fs, f, 0) = Occurrences(c[f], f, 0) /\ Occurrences(fs, f, 1) = Occurrences(c[f], f, 1)
      /\ Occurrences(fs, f, 2) = Occurrences(c[f], f, 2)
  BY DEF Sorted
<1>2. ReadRepeated(fs, f) = ReadRepeated(c[f], f)
  BY ONLY <1>1 DEF ReadRepeated, LengthDelimited
<1>3. ReadMessage(fs, f) = ReadMessage(c[f], f) /\ ReadBytes(fs, f) = ReadBytes(c[f], f)
  BY ONLY <1>2, Zenon DEF ReadMessage, ReadBytes
<1>4. ReadNumber(fs, f) = ReadNumber(c[f], f)
  BY ONLY <1>1 DEF ReadNumber, Varint
<1>5. ReadFixed(fs, f) = ReadFixed(c[f], f)
  BY ONLY <1>1 DEF ReadFixed, Fixed64
<1>6. ReadPacked(fs, f) = ReadPacked(c[f], f)
  BY ONLY <1>3 DEF ReadPacked
<1> QED
  BY ONLY <1>2, <1>3, <1>4, <1>5, <1>6 DEF Asks

\* One field is every occurrence of itself.
LEMMA OneOccurs ==
  ASSUME NEW r \in Field
  PROVE  /\ Occurrences(<<r>>, r.field, r.wire) = <<r>> /\ Numbered(<<r>>, r.field)
         /\ Last(<<r>>) = r
<1>1. <<r>> \in Seq(Field) /\ \A i \in DOMAIN <<r>> : <<r>>[i] = r
  OBVIOUS
<1>2. r \in Matching(r.field, r.wire)
  BY DEF Matching
<1>3. Those(<<r>>, Matching(r.field, r.wire)) = <<r>>
  BY ONLY <1>1, <1>2, ThoseAll
<1>4. Occurrences(<<r>>, r.field, r.wire) = <<r>>
  BY ONLY <1>1, <1>3, OccurrencesAre
<1> QED
  BY <1>1, <1>4 DEF Numbered, Last

\* A number is read from its field, and zero from a field that was left out.
LEMMA NumbersAsk ==
  ASSUME ProtoAssumption, NEW f \in Nat, NEW n \in Nat, NEW m \in U64
  PROVE  /\ ReadNumber(<<VarintRecord(f, n)>>, f) = n /\ ReadNumber(VarintFields(f, n), f) = n
         /\ Numbered(<<VarintRecord(f, n)>>, f) /\ Numbered(VarintFields(f, n), f)
         /\ ReadFixed(<<FixedRecord(f, m)>>, f) = m /\ ReadFixed(FixedFields(f, m), f) = m
         /\ Numbered(<<FixedRecord(f, m)>>, f) /\ Numbered(FixedFields(f, m), f)
<1>1. m \in Nat /\ <<>> \in Text
  BY WordsAre DEF Text
<1>2. PICK v \in Field : /\ v = VarintRecord(f, n) /\ v.field = f /\ v.wire = Varint /\ v.value = n
  BY <1>1, RecordsAre DEF VarintRecord
<1>3. PICK x \in Field : /\ x = FixedRecord(f, m) /\ x.field = f /\ x.wire = Fixed64
                         /\ x.bytes = LittleEndian(m)
  BY <1>1, RecordsAre DEF FixedRecord
<1>4. /\ Occurrences(<<v>>, f, Varint) = <<v>> /\ Numbered(<<v>>, f) /\ Last(<<v>>) = v
      /\ Occurrences(<<x>>, f, Fixed64) = <<x>> /\ Numbered(<<x>>, f) /\ Last(<<x>>) = x
  BY ONLY <1>2, <1>3, OneOccurs, v \in Field, x \in Field
<1>5. <<v>> # <<>> /\ <<x>> # <<>>
  OBVIOUS
<1>6. ReadNumber(<<v>>, f) = n
  BY ONLY <1>2, <1>4, <1>5 DEF ReadNumber
<1>7. ReadFixed(<<x>>, f) = m
  <2>1. FromLittleEndian(LittleEndian(m)) = m
    BY FixedReads
  <2> QED
    BY ONLY <1>3, <1>4, <1>5, <2>1 DEF ReadFixed
<1>8. ReadNumber(<<>>, f) = 0 /\ ReadFixed(<<>>, f) = 0 /\ Numbered(<<>>, f)
  BY ONLY NothingOccurs DEF ReadNumber, ReadFixed
<1>9. ReadNumber(VarintFields(f, n), f) = n /\ Numbered(VarintFields(f, n), f)
  BY ONLY <1>2, <1>4, <1>6, <1>8 DEF VarintFields
<1>10. ReadFixed(FixedFields(f, m), f) = m /\ Numbered(FixedFields(f, m), f)
  BY ONLY <1>3, <1>4, <1>7, <1>8 DEF FixedFields
<1> QED
  BY ONLY <1>2, <1>3, <1>4, <1>6, <1>7, <1>9, <1>10

\* Some bytes are read from their field, and none from a field that was left out.
LEMMA BytesAsk ==
  ASSUME ProtoAssumption, NEW f \in Nat, NEW s \in Text
  PROVE  /\ ReadBytes(BytesFields(f, s), f) = s /\ ReadMessage(BytesFields(f, s), f) = s
         /\ Numbered(BytesFields(f, s), f) /\ (BytesFields(f, s) = <<>> <=> s = <<>>)
<1>1. CASE s = <<>>
  <2>1. BytesFields(f, s) = <<>>
    BY ONLY <1>1 DEF BytesFields
  <2>2. Occurrences(<<>>, f, LengthDelimited) = <<>> /\ Numbered(<<>>, f)
    BY ONLY NothingOccurs
  <2>3. ReadRepeated(<<>>, f) = <<>>
    BY ONLY <2>2 DEF ReadRepeated
  <2>4. ReadBytes(<<>>, f) = <<>> /\ ReadMessage(<<>>, f) = <<>>
    BY ONLY <2>3, FlattenEmpty DEF ReadBytes, ReadMessage
  <2> QED
    BY ONLY <1>1, <2>1, <2>2, <2>4
<1>2. CASE s # <<>>
  <2>1. 0 \in Nat
    OBVIOUS
  <2>2. PICK r \in Field : r = BytesRecord(f, s) /\ r.field = f /\ r.wire = LengthDelimited /\ r.bytes = s
    BY <2>1, RecordsAre DEF BytesRecord
  <2>3. BytesFields(f, s) = <<r>> /\ <<r>> # <<>>
    <3>1. <<r>> # <<>>
      OBVIOUS
    <3> QED
      BY ONLY <1>2, <2>2, <3>1 DEF BytesFields
  <2>4. Occurrences(<<r>>, f, LengthDelimited) = <<r>> /\ Numbered(<<r>>, f)
    BY ONLY <2>2, OneOccurs, r \in Field
  <2>5. ReadRepeated(<<r>>, f) = <<s>>
    <3>1. [i \in DOMAIN <<r>> |-> <<r>>[i].bytes] = <<r.bytes>>
      OBVIOUS
    <3> QED
      BY ONLY <2>2, <2>4, <3>1 DEF ReadRepeated
  <2>6. <<s>> # <<>> /\ Last(<<s>>) = s
    BY DEF Last
  <2>7. FlattenSeq(<<s>>) = s
    BY FlattenSingle DEF Text
  <2>8. ReadBytes(<<r>>, f) = s /\ ReadMessage(<<r>>, f) = s
    BY ONLY <2>5, <2>6, <2>7 DEF ReadBytes, ReadMessage
  <2> QED
    BY ONLY <1>2, <2>3, <2>4, <2>8
<1> QED
  BY ONLY <1>1, <1>2

-----------------------------------------------------------------------------
(***************************************************************************)
(* What is read from bytes whose fields are known number by number.        *)
(***************************************************************************)
\* Some bytes are fields that are those of c, number by number.
Reads(b, c) == ReadsAs(b, ReadFields[b]) /\ Sorted(ReadFields[b], c)

\* No bytes are read, and what was read and a section more is read.
LEMMA ReadsNone == ASSUME ProtoAssumption PROVE Reads(<<>>, NoFields)
<1>1. ReadsAs(<<>>, <<>>)
  BY ReadsNothing
<1>2. ReadFields[<<>>] = <<>>
  BY <1>1, ReadsBack
<1> QED
  BY ONLY <1>1, <1>2, SortedNothing DEF Reads

LEMMA ReadsMore ==
  ASSUME ProtoAssumption, NEW b, NEW c, Reads(b, c), NEW t, NEW p, ReadsAs(t, p),
         NEW f \in Nat, Numbered(p, f), c[f] = <<>>
  PROVE  Reads(b \o t, [c EXCEPT ![f] = p])
<1>1. ReadsAs(b, ReadFields[b]) /\ Sorted(ReadFields[b], c)
  BY DEF Reads
<1>2. ReadsAs(b \o t, ReadFields[b] \o p)
  BY <1>1, ReadsBoth
<1>3. ReadFields[b \o t] = ReadFields[b] \o p
  BY <1>2, ReadsBack
<1>4. ReadFields[b] \in Seq(Field)
  BY <1>1, ReadsBack
<1>5. Sorted(ReadFields[b] \o p, [c EXCEPT ![f] = p])
  BY <1>1, <1>4, SortedMore
<1> QED
  BY ONLY <1>2, <1>3, <1>5 DEF Reads

\* Bytes that were read are empty if they have the fields of no number.
LEMMA ReadsEmpty ==
  ASSUME ProtoAssumption, NEW b, NEW c, Reads(b, c)
  PROVE  /\ b \in Text /\ (b # <<>> <=> \E f \in Nat : c[f] # <<>>)
         /\ \A f \in Nat : Has(ReadFields[b], f) <=> c[f] # <<>>
<1>1. b \in Text /\ Sorted(ReadFields[b], c)
  BY DEF Reads, ReadsAs
<1>2. \A f \in Nat : Has(ReadFields[b], f) <=> c[f] # <<>>
  BY ONLY <1>1 DEF Sorted
<1>3. ReadFields[b] # <<>> => \E f \in Nat : c[f] # <<>>
  BY ONLY <1>1 DEF Sorted
<1>4. b # <<>> => ReadFields[b] # <<>>
  BY <1>1, FieldsAre
<1>5. ASSUME NEW f \in Nat, c[f] # <<>> PROVE b # <<>>
  <2>1. Has(ReadFields[b], f)
    BY ONLY <1>2, <1>5
  <2>2. ~Has(<<>>, f)
    BY ONLY NothingOccurs
  <2>3. ReadFields[<<>>] = <<>>
    BY <1>1, FieldsAre
  <2> QED
    BY ONLY <2>1, <2>2, <2>3
<1> QED
  BY ONLY <1>1, <1>2, <1>3, <1>4, <1>5

\* A collector that has read some bytes knows what was in one of their fields.
LEMMA ReadsText ==
  ASSUME ProtoAssumption, NEW b, NEW c, Reads(b, c), NEW f \in Nat, NEW s \in Text,
         c[f] = BytesFields(f, s)
  PROVE  /\ ReadBytes(ReadFields[b], f) = s /\ ReadMessage(ReadFields[b], f) = s
         /\ (Has(ReadFields[b], f) <=> s # <<>>)
<1>1. Asks(ReadFields[b], c[f], f)
  BY SortedAsks DEF Reads
<1>2. /\ ReadBytes(BytesFields(f, s), f) = s /\ ReadMessage(BytesFields(f, s), f) = s
      /\ (BytesFields(f, s) = <<>> <=> s = <<>>)
  BY BytesAsk
<1>3. Has(ReadFields[b], f) <=> c[f] # <<>>
  BY ReadsEmpty
<1> QED
  BY ONLY <1>1, <1>2, <1>3, c[f] = BytesFields(f, s) DEF Asks

\* A number, or a fixed64, is known from the bytes it was written in.
LEMMA ReadsVarint ==
  ASSUME ProtoAssumption, NEW b, NEW c, Reads(b, c), NEW f \in Nat, NEW n \in Nat,
         c[f] = VarintFields(f, n) \/ c[f] = <<VarintRecord(f, n)>>
  PROVE  ReadNumber(ReadFields[b], f) = n
<1>1. Asks(ReadFields[b], c[f], f)
  BY SortedAsks DEF Reads
<1>2. ReadNumber(<<VarintRecord(f, n)>>, f) = n /\ ReadNumber(VarintFields(f, n), f) = n
  <2>1. 0 \in U64
    BY WordsIs DEF U64
  <2> QED
    BY <2>1, NumbersAsk
<1> QED
  BY ONLY <1>1, <1>2, c[f] = VarintFields(f, n) \/ c[f] = <<VarintRecord(f, n)>> DEF Asks

LEMMA ReadsFixed ==
  ASSUME ProtoAssumption, NEW b, NEW c, Reads(b, c), NEW f \in Nat, NEW n \in U64,
         c[f] = FixedFields(f, n) \/ c[f] = <<FixedRecord(f, n)>>
  PROVE  ReadFixed(ReadFields[b], f) = n
<1>1. Asks(ReadFields[b], c[f], f)
  BY SortedAsks DEF Reads
<1>2. ReadFixed(<<FixedRecord(f, n)>>, f) = n /\ ReadFixed(FixedFields(f, n), f) = n
  <2>1. 0 \in Nat
    OBVIOUS
  <2> QED
    BY <2>1, NumbersAsk
<1> QED
  BY ONLY <1>1, <1>2, c[f] = FixedFields(f, n) \/ c[f] = <<FixedRecord(f, n)>> DEF Asks

\* The fields of repeated messages: those of the empty ones are not there.
Full(texts) == {i \in DOMAIN texts : texts[i] # <<>>}
MessageFields(f, texts) == FlattenSeq([i \in DOMAIN texts |-> BytesFields(f, texts[i])])

\* A reader finds the messages of a repeated field that are not empty, in their order.
LEMMA MessagesAsk ==
  ASSUME ProtoAssumption, NEW f \in Nat, NEW texts \in Seq(Text)
  PROVE  /\ Numbered(MessageFields(f, texts), f)
         /\ ReadRepeated(MessageFields(f, texts), f) = Kept(texts, Full(texts))
<1> DEFINE X == Matching(f, LengthDelimited)
           P == Full(texts)
           m == [r \in X |-> r.bytes]
<1>1. PICK records : records = [i \in DOMAIN texts |-> BytesRecord(f, texts[i])]
  OBVIOUS
<1>2. Len(texts) \in Nat /\ DOMAIN texts = 1..Len(texts) /\ \A i \in DOMAIN texts : texts[i] \in Text
  OBVIOUS
<1>3. \A i \in DOMAIN texts : BytesRecord(f, texts[i]) \in X /\ BytesRecord(f, texts[i]).bytes = texts[i]
  <2>1. ASSUME NEW s \in Text PROVE BytesRecord(f, s) \in X /\ BytesRecord(f, s).bytes = s
    <3>1. 0 \in Nat
      OBVIOUS
    <3>2. BytesRecord(f, s) \in Field
      BY <3>1, RecordsAre
    <3> QED
      BY <3>2 DEF BytesRecord, Matching
  <2> QED
    BY ONLY <1>2, <2>1
<1>4. records \in Seq(X) /\ DOMAIN records = DOMAIN texts
  <2> HIDE DEF X
  <2> QED
    BY ONLY <1>1, <1>2, <1>3
<1>5. m \in [X -> Text] /\ X \subseteq Field
  BY DEF Matching, Field
<1>6. Mapped(m, records) = texts
  <2>1. \A i \in DOMAIN texts : m[records[i]] = texts[i]
    BY ONLY <1>1, <1>3
  <2>2. texts = [i \in DOMAIN texts |-> texts[i]]
    BY ONLY <1>2, texts \in Seq(Text)
  <2> HIDE DEF m, X
  <2> QED
    BY ONLY <1>4, <2>1, <2>2 DEF Mapped
<1>7. Kept(records, P) = FlattenSeq(Picks(records, P)) /\ Kept(records, P) \in Seq(X)
  <2> HIDE DEF X, P
  <2> QED
    BY ONLY <1>4, PicksAre
<1>8. Picks(records, P) = [i \in DOMAIN texts |-> BytesFields(f, texts[i])]
  <2>1. ASSUME NEW i \in DOMAIN texts
        PROVE  (IF i \in P THEN <<records[i]>> ELSE <<>>) = BytesFields(f, texts[i])
    <3>1. i \in P <=> texts[i] # <<>>
      BY DEF Full
    <3>2. records[i] = BytesRecord(f, texts[i])
      BY ONLY <1>1, i \in DOMAIN texts
    <3> HIDE DEF P
    <3> QED
      BY ONLY <3>1, <3>2 DEF BytesFields
  <2> HIDE DEF P
  <2> QED
    BY ONLY <1>4, <2>1 DEF Picks
<1>9. PICK all \in Seq(X) : all = MessageFields(f, texts) /\ all = Kept(records, P)
  <2> HIDE DEF X, P
  <2> QED
    BY ONLY <1>7, <1>8 DEF MessageFields
<1>10. all \in Seq(Field) /\ \A i \in DOMAIN all : all[i] \in X
  <2>1. \A i \in DOMAIN all : all[i] \in X
    BY ONLY all \in Seq(X)
  <2>2. Len(all) \in Nat /\ DOMAIN all = 1..Len(all) /\ all = [i \in 1..Len(all) |-> all[i]]
    BY ONLY all \in Seq(X)
  <2>3. \A i \in 1..Len(all) : all[i] \in Field
    BY ONLY <1>5, <2>1, <2>2
  <2>4. all \in Seq(Field)
    BY ONLY <2>2, <2>3
  <2> QED
    BY ONLY <2>1, <2>4
<1>11. Occurrences(all, f, LengthDelimited) = all
  <2>1. Those(all, X) = all
    BY ONLY <1>10, ThoseAll
  <2> QED
    BY ONLY <1>10, <2>1, OccurrencesAre
<1>12. ReadRepeated(all, f) = Mapped(m, all)
  <2>1. \A i \in DOMAIN all : m[all[i]] = all[i].bytes
    BY <1>10
  <2> HIDE DEF m
  <2> QED
    BY ONLY <1>11, <2>1 DEF ReadRepeated, Mapped
<1>13. Mapped(m, Kept(records, P)) = Kept(Mapped(m, records), P)
  <2>1. \A k \in [X -> Text] : MapsKept(k, records, P)
    <3> HIDE DEF m, P, X
    <3> QED
      BY ONLY <1>4, KeptMaps
  <2> HIDE DEF m, P, X
  <2> QED
    BY ONLY <1>5, <2>1 DEF MapsKept
<1>14. Numbered(all, f)
  BY ONLY <1>10 DEF Numbered, Matching
<1> QED
  BY ONLY <1>6, <1>9, <1>12, <1>13, <1>14

\* Messages that are each written to a field are read as that repeated field.
LEMMA MessagesRead ==
  ASSUME ProtoAssumption, NEW f \in Nat, f # 0, NEW texts \in Seq(Text)
  PROVE  ReadsAs(FlattenSeq([i \in DOMAIN texts |-> EncodeBytesField(f, texts[i])]), MessageFields(f, texts))
<1> DEFINE R == {x \in Text \X Seq(Field) : ReadsAs(x[1], x[2])}
<1>1. JoinClosed(R)
  <2>1. <<<<>>, <<>>>> \in R
    <3>1. ReadsAs(<<>>, <<>>)
      BY ReadsNothing
    <3>2. <<>> \in Text /\ <<>> \in Seq(Field)
      BY DEF Text
    <3> QED
      BY ONLY <3>1, <3>2
  <2>2. ASSUME NEW a, NEW b, NEW x, NEW y, <<a, b>> \in R, <<x, y>> \in R
        PROVE  <<a \o x, b \o y>> \in R
    <3>1. ReadsAs(a, b) /\ ReadsAs(x, y)
      BY ONLY <2>2
    <3>2. ReadsAs(a \o x, b \o y)
      BY <3>1, ReadsBoth
    <3>3. a \o x \in Text /\ b \o y \in Seq(Field)
      BY ONLY <3>2 DEF ReadsAs
    <3> QED
      BY ONLY <3>2, <3>3
  <2> HIDE DEF R
  <2> QED
    BY ONLY <2>1, <2>2 DEF JoinClosed
<1>2. PICK s, t : /\ s = [i \in DOMAIN texts |-> EncodeBytesField(f, texts[i])]
                  /\ t = [i \in DOMAIN texts |-> BytesFields(f, texts[i])]
  OBVIOUS
<1>3. ASSUME NEW i \in DOMAIN texts
      PROVE  /\ EncodeBytesField(f, texts[i]) \in Text /\ BytesFields(f, texts[i]) \in Seq(Field)
             /\ <<EncodeBytesField(f, texts[i]), BytesFields(f, texts[i])>> \in R
  <2>1. ReadsAs(EncodeBytesField(f, texts[i]), BytesFields(f, texts[i]))
    <3>1. 0 \in Nat /\ 0 \in U64 /\ texts[i] \in Text
      BY WordsIs DEF U64
    <3> QED
      BY <3>1, WritersRead
  <2>2. EncodeBytesField(f, texts[i]) \in Text /\ BytesFields(f, texts[i]) \in Seq(Field)
    BY ONLY <2>1 DEF ReadsAs
  <2> QED
    BY ONLY <2>1, <2>2
<1>4. Len(texts) \in Nat /\ DOMAIN texts = 1..Len(texts)
  OBVIOUS
<1>5. s \in Seq(Text) /\ t \in Seq(Seq(Field)) /\ Related(s, t, R)
  <2> HIDE DEF R
  <2>0. DOMAIN s = DOMAIN texts /\ s = [i \in DOMAIN texts |-> s[i]] /\ DOMAIN t = DOMAIN texts /\ t = [i \in DOMAIN texts |-> t[i]]
    BY ONLY <1>2
  <2>1. s \in Seq(Text)
    <3>1. \A i \in DOMAIN texts : s[i] \in Text
      BY ONLY <1>2, <1>3
    <3> QED
      BY ONLY <2>0, <3>1, MessagesAre, texts \in Seq(Text)
  <2>2. t \in Seq(Seq(Field))
    <3>1. \A i \in DOMAIN texts : t[i] \in Seq(Field)
      BY ONLY <1>2, <1>3
    <3> QED
      BY ONLY <2>0, <3>1, MessagesAre, texts \in Seq(Text)
  <2>3. Related(s, t, R)
    BY ONLY <1>2, <1>3 DEF Related
  <2> QED
    BY ONLY <2>1, <2>2, <2>3
<1>6. <<FlattenSeq(s), FlattenSeq(t)>> \in R
  <2>1. s \in Seq(Seq(Byte))
    BY <1>5 DEF Text
  <2> HIDE DEF R
  <2> QED
    BY ONLY <1>1, <1>5, <2>1, FlattenPairs
<1>7. ReadsAs(FlattenSeq(s), FlattenSeq(t))
  BY ONLY <1>6
<1> QED
  BY ONLY <1>2, <1>7 DEF MessageFields

=============================================================================
