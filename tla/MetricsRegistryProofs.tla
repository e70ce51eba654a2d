----------------------- MODULE MetricsRegistryProofs -----------------------
(***************************************************************************)
(* Theorems about MetricsRegistry, for every value of its constants:       *)
(* counters, gauges and histograms alike, any number of threads, any       *)
(* limit and any hash.                                                     *)
(***************************************************************************)
EXTENDS MetricsRegistry, Induction, TLAPS, FiniteSetTheorems, SequenceTheorems

(***************************************************************************)
(* Sequences of which only the length and the elements matter.             *)
(***************************************************************************)
IsSeq(s) == s \in Seq(Range(s))

LEMMA SeqShape ==
  ASSUME NEW s, IsSeq(s)
  PROVE  /\ Len(s) \in Nat /\ DOMAIN s = 1..Len(s)
         /\ s = [i \in 1..Len(s) |-> s[i]]
  BY LenProperties DEF IsSeq

LEMMA ShapeSeq ==
  ASSUME NEW n \in Nat, NEW s, s = [i \in 1..n |-> s[i]]
  PROVE  IsSeq(s) /\ Len(s) = n /\ DOMAIN s = 1..n
  <1>1. DOMAIN s = 1..n
    OBVIOUS
  <1>2. s \in [1..n -> Range(s)]
    BY <1>1 DEF Range
  <1>3. s \in Seq(Range(s))
    BY <1>2
  <1> QED BY <1>1, <1>3, LenProperties DEF IsSeq

LEMMA SeqUpdate ==
  ASSUME NEW s, IsSeq(s), NEW i \in DOMAIN s, NEW x, NEW u, u = [s EXCEPT ![i] = x]
  PROVE  /\ IsSeq(u) /\ Len(u) = Len(s) /\ DOMAIN u = DOMAIN s
         /\ u[i] = x /\ \A j \in DOMAIN s : j # i => u[j] = s[j]
  <1>1. Len(s) \in Nat /\ DOMAIN s = 1..Len(s)
    BY SeqShape
  <1>2. DOMAIN u = 1..Len(s) /\ u = [j \in 1..Len(s) |-> u[j]]
    BY <1>1
  <1> QED BY <1>1, <1>2, ShapeSeq

LEMMA SeqAppend ==
  ASSUME NEW s, IsSeq(s), NEW x, NEW u, u = Append(s, x)
  PROVE  /\ IsSeq(u) /\ Len(u) = Len(s) + 1 /\ DOMAIN u = DOMAIN s \cup {Len(s) + 1}
         /\ u[Len(s) + 1] = x /\ \A j \in DOMAIN s : u[j] = s[j]
         /\ Len(s) + 1 \notin DOMAIN s
  <1> DEFINE S == Range(s) \cup {x}
  <1>1. Len(s) \in Nat /\ DOMAIN s = 1..Len(s)
    BY SeqShape
  <1>2. s \in Seq(S) /\ x \in S
    BY DEF IsSeq
  <1> HIDE DEF S
  <1>3. /\ u \in Seq(S) /\ Len(u) = Len(s) + 1
        /\ \A j \in 1..Len(s) : u[j] = s[j]
        /\ u[Len(s) + 1] = x
    BY <1>2, AppendProperties
  <1>4. DOMAIN u = 1..(Len(s) + 1) /\ u = [j \in 1..(Len(s) + 1) |-> u[j]]
    BY <1>1, <1>3, LenProperties
  <1>5. IsSeq(u)
    BY <1>1, <1>4, ShapeSeq
  <1>6. DOMAIN u = DOMAIN s \cup {Len(s) + 1} /\ Len(s) + 1 \notin DOMAIN s
    BY <1>1, <1>4
  <1> QED BY <1>1, <1>3, <1>5, <1>6

(***************************************************************************)
(* The inductive invariant.  Its shapes say which fields the records have  *)
(* and that a map of data points is finite; nothing is said of the points. *)
(***************************************************************************)
InstrumentFields == {"kind", "bounds", "data", "holder", "poisoned", "warned"}
ThreadFields == {"pc", "metric", "handle", "measurement"}
MeasurementFields == {"attrs", "value", "exemplar", "entry", "refused"}

InstrumentShape ==
  /\ IsSeq(instruments)
  /\ \A i \in DOMAIN instruments :
       /\ DOMAIN instruments[i] = InstrumentFields
       /\ IsFiniteSet(DOMAIN instruments[i].data)

ThreadShape ==
  /\ DOMAIN threads = Threads
  /\ \A t \in Threads :
       /\ DOMAIN threads[t] = ThreadFields
       /\ DOMAIN threads[t].measurement = MeasurementFields
       /\ threads[t].pc = "create" => threads[t].metric \in Metrics
       /\ threads[t].pc \in {"locking", "locked"} => threads[t].measurement.attrs \in AttrSets

CollectorShape == DOMAIN collector = {"at", "left"}

\* Every measurement that was started is recorded, under way, or dropped.
InFlight == {t \in Threads : threads[t].pc \in {"locking", "locked"}}
CountShape ==
  /\ IsSeq(recorded) /\ started \in Nat
  /\ Cardinality(InFlight) + Len(recorded) <= started

\* What a thread decided of the limit when it took the mutex still holds.
HeldCheck ==
  \A t \in Threads :
    threads[t].pc = "locked" => threads[t].measurement.refused = Refused(t)

RInv ==
  /\ InstrumentShape /\ ThreadShape /\ CollectorShape /\ CountShape
  /\ TypeOK /\ OneHolder /\ CardinalityLimit /\ HeldCheck

LEMMA InFlightFinite == IsFiniteSet(InFlight) /\ Cardinality(InFlight) \in Nat
  BY RegistryAssumption, FS_Subset, FS_CardinalityType DEF InFlight

LEMMA InitRInv == Init => RInv
  <1> SUFFICES ASSUME Init PROVE RInv
    OBVIOUS
  <1>1. IsSeq(<<>>) /\ Len(<<>>) = 0 /\ DOMAIN <<>> = {}
    BY DEF IsSeq, Range
  <1>2. InstrumentShape /\ OneHolder /\ CardinalityLimit /\ HeldCheck
    BY <1>1 DEF Init, InstrumentShape, OneHolder, CardinalityLimit, HeldCheck, Idle
  <1>3. ThreadShape /\ CollectorShape
    BY DEF Init, ThreadShape, CollectorShape, Idle, Rest, NoMeasurement, ThreadFields, MeasurementFields
  <1>4. InFlight = {}
    BY DEF Init, InFlight, Idle
  <1>5. CountShape
    BY <1>1, <1>4, FS_EmptySet DEF Init, CountShape
  <1>6. TypeOK
    BY <1>1, RegistryAssumption DEF Init, TypeOK, Idle, Rest, Range
  <1> QED BY <1>2, <1>3, <1>5, <1>6 DEF RInv

-----------------------------------------------------------------------------
(***************************************************************************)
(* What the parts of the invariant need of a step.                         *)
(***************************************************************************)

\* A step that leaves the instruments alone, or an instrument's domain of points.
LEMMA InstrumentsKept ==
  ASSUME RInv, UNCHANGED instruments
  PROVE  InstrumentShape' /\ CardinalityLimit'
  BY DEF RInv, InstrumentShape, CardinalityLimit

\* The number of measurements under way follows the thread that steps.
LEMMA InFlightSame ==
  ASSUME InFlight' = InFlight, RInv, UNCHANGED <<recorded, started>>
  PROVE  CountShape'
  BY DEF RInv, CountShape

LEMMA InFlightEnters ==
  ASSUME RInv, NEW t \in Threads, InFlight' = InFlight \cup {t}, t \notin InFlight,
         started' = started + 1, UNCHANGED recorded
  PROVE  CountShape'
  <1>1. Cardinality(InFlight') = Cardinality(InFlight) + 1
    BY InFlightFinite, FS_AddElement
  <1>2. Cardinality(InFlight) \in Nat /\ Len(recorded) \in Nat
    BY InFlightFinite, SeqShape DEF RInv, CountShape
  <1> QED BY <1>1, <1>2 DEF RInv, CountShape

LEMMA InFlightLeaves ==
  ASSUME RInv, NEW t \in InFlight, InFlight' = InFlight \ {t}, UNCHANGED started,
         \/ UNCHANGED recorded
         \/ \E x : recorded' = Append(recorded, x)
  PROVE  CountShape' /\ Len(recorded') <= started
  <1>1. Cardinality(InFlight') = Cardinality(InFlight) - 1
    BY InFlightFinite, FS_RemoveElement
  <1>2. Cardinality(InFlight) \in Nat /\ Cardinality(InFlight') \in Nat
    <2>1. IsFiniteSet(InFlight')
      BY InFlightFinite, FS_RemoveElement
    <2> QED BY <2>1, InFlightFinite, FS_CardinalityType
  <1>3. /\ IsSeq(recorded) /\ Len(recorded) \in Nat
        /\ started \in Nat /\ Cardinality(InFlight) + Len(recorded) <= started
    BY SeqShape DEF RInv, CountShape
  <1>4. IsSeq(recorded') /\ Len(recorded') \in {Len(recorded), Len(recorded) + 1}
    BY <1>3, SeqAppend
  <1> QED BY <1>1, <1>2, <1>3, <1>4 DEF CountShape

\* A thread in the critical section stays, with the sets of its instrument.
LEMMA CheckKept ==
  ASSUME RInv,
         \A u \in Threads : threads'[u].pc = "locked" =>
           threads'[u] = threads[u] /\ DOMAIN Mine(u)'.data = DOMAIN Mine(u).data
  PROVE  HeldCheck'
  BY DEF RInv, HeldCheck, Refused, Known, Key

\* A thread that holds no mutex steps to a place where it holds none.
LEMMA ThreadMoves ==
  ASSUME RInv, NEW t \in Threads, threads[t].pc # "locked",
         DOMAIN threads' = Threads, \A u \in Threads : u # t => threads'[u] = threads[u],
         threads'[t].pc # "locked", UNCHANGED instruments
  PROVE  OneHolder' /\ HeldCheck'
  <1>1. OneHolder'
    BY DEF RInv, OneHolder, TypeOK, Mine
  <1> QED BY <1>1, CheckKept DEF Mine

-----------------------------------------------------------------------------
(***************************************************************************)
(* One lemma for each action.                                              *)
(***************************************************************************)
LEMMA LookupStep ==
  ASSUME RInv, NEW t \in Threads, NEW m \in Metrics, Lookup(t, m)
  PROVE  RInv'
  <1> USE DEF RInv
  <1>1. /\ threads[t].pc \in {"idle", "ready"} /\ UNCHANGED <<registryVars, collectVars, recorded, started>>
        /\ DOMAIN threads' = Threads /\ DOMAIN threads'[t] = ThreadFields
        /\ \A u \in Threads : u # t => threads'[u] = threads[u]
        /\ threads'[t].metric = m /\ threads'[t].measurement = threads[t].measurement
        /\ \/ threads'[t].pc = "ready" /\ m \in DOMAIN table /\ threads'[t].handle = table[m]
           \/ threads'[t].pc = "create"
        /\ UNCHANGED overflowChecks
    BY DEF Lookup, ThreadShape, ThreadFields
  <1>2. InstrumentShape' /\ CardinalityLimit'
    BY <1>1, InstrumentsKept DEF registryVars
  <1>3. ThreadShape' /\ CollectorShape'
    BY <1>1 DEF ThreadShape, CollectorShape, collectVars
  <1>4. InFlight' = InFlight
    BY <1>1 DEF InFlight
  <1>5. CountShape'
    BY <1>1, <1>4, InFlightSame
  <1>6. TypeOK'
    BY <1>1 DEF TypeOK, registryVars, collectVars
  <1>7. OneHolder' /\ HeldCheck'
    BY <1>1, ThreadMoves DEF registryVars
  <1> QED BY <1>2, <1>3, <1>5, <1>6, <1>7

LEMMA CreateStep ==
  ASSUME RInv, NEW t \in Threads, NEW bounds \in Boundaries, Create(t, bounds)
  PROVE  RInv'
  <1> USE DEF RInv
  <1> DEFINE m == threads[t].metric
  <1>1. /\ threads[t].pc = "create" /\ m \in Metrics
        /\ UNCHANGED <<overflowChecks, collectVars, recorded, started>>
        /\ DOMAIN threads' = Threads /\ DOMAIN threads'[t] = ThreadFields
        /\ \A u \in Threads : u # t => threads'[u] = threads[u]
        /\ threads'[t].metric = m /\ threads'[t].measurement = threads[t].measurement
        /\ threads'[t].pc = "ready" /\ threads'[t].handle = table'[m]
    BY DEF Create, ThreadShape, ThreadFields
  <1>2. ThreadShape' /\ CollectorShape'
    BY <1>1 DEF ThreadShape, CollectorShape, collectVars
  <1>3. InFlight' = InFlight
    BY <1>1 DEF InFlight
  <1>4. CountShape'
    BY <1>1, <1>3, InFlightSame
  <1>5. CASE m \in DOMAIN table
    <2>1. UNCHANGED registryVars
      BY <1>5 DEF Create
    <2>2. InstrumentShape' /\ CardinalityLimit' /\ OneHolder' /\ HeldCheck'
      BY <1>1, <2>1, InstrumentsKept, ThreadMoves DEF registryVars
    <2>3. TypeOK'
      BY <1>1, <1>5, <2>1 DEF TypeOK, registryVars, collectVars
    <2> QED BY <1>2, <1>4, <2>2, <2>3
  <1>6. CASE m \notin DOMAIN table
    <2> DEFINE n == Len(instruments) + 1
               i == New(m, bounds)
    <2>1. /\ instruments' = Append(instruments, i)
          /\ table' = [x \in DOMAIN table \cup {m} |-> IF x = m THEN n ELSE table[x]]
      BY <1>6 DEF Create
    <2>2. /\ DOMAIN i = InstrumentFields /\ i.data = <<>> /\ i.holder = Nobody
          /\ i.kind = m[1] /\ i.warned = FALSE
      BY DEF New, InstrumentFields
    <2> HIDE DEF i
    <2>3. /\ IsSeq(instruments') /\ DOMAIN instruments' = DOMAIN instruments \cup {n}
          /\ instruments'[n] = i /\ \A j \in DOMAIN instruments : instruments'[j] = instruments[j]
          /\ n \notin DOMAIN instruments
      <3>1. IsSeq(instruments) /\ Len(instruments) \in Nat
        BY SeqShape DEF InstrumentShape
      <3> HIDE DEF m, IsSeq
      <3>2. IsSeq(instruments') /\ DOMAIN instruments' = DOMAIN instruments \cup {Len(instruments) + 1}
        BY <2>1, <3>1, SeqAppend
      <3>3. /\ instruments'[Len(instruments) + 1] = i
            /\ \A j \in DOMAIN instruments : instruments'[j] = instruments[j]
            /\ Len(instruments) + 1 \notin DOMAIN instruments
        BY <2>1, <3>1, SeqAppend
      <3> QED BY <3>2, <3>3
    <2>4. DOMAIN <<>> = {} /\ IsFiniteSet({}) /\ Cardinality({}) = 0
      BY FS_EmptySet
    <2>5. InstrumentShape'
      BY <2>2, <2>3, <2>4 DEF InstrumentShape
    <2>6. CardinalityLimit'
      BY <2>2, <2>3, <2>4, RegistryAssumption DEF CardinalityLimit
    <2>7. OneHolder'
      <3>1. ASSUME NEW u \in Threads, threads'[u].pc = "locked"
            PROVE  Mine(u)'.holder = u
        <4>1. u # t /\ threads'[u] = threads[u] /\ threads[u].handle \in DOMAIN instruments
          BY <1>1, <3>1 DEF TypeOK
        <4> QED BY <2>3, <3>1, <4>1 DEF OneHolder, Mine
      <3>2. ASSUME NEW j \in DOMAIN instruments', instruments'[j].holder # Nobody
            PROVE  /\ threads'[instruments'[j].holder].pc = "locked"
                   /\ threads'[instruments'[j].holder].handle = j
        <4>1. j \in DOMAIN instruments /\ instruments'[j] = instruments[j]
          BY <2>2, <2>3, <3>2
        <4>2. instruments[j].holder \in Threads \ {t}
          BY <1>1, <3>2, <4>1 DEF OneHolder, TypeOK
        <4> QED BY <1>1, <3>2, <4>1, <4>2 DEF OneHolder
      <3> QED BY <3>1, <3>2 DEF OneHolder
    <2>8. HeldCheck'
      <3>1. ASSUME NEW u \in Threads, threads'[u].pc = "locked"
            PROVE  threads'[u] = threads[u] /\ DOMAIN Mine(u)'.data = DOMAIN Mine(u).data
        <4>1. threads'[u] = threads[u] /\ threads[u].handle \in DOMAIN instruments
          BY <1>1, <3>1 DEF TypeOK
        <4> QED BY <2>3, <4>1 DEF Mine
      <3> QED BY <3>1, CheckKept
    <2>9. TypeOK'
      <3>1. \A x \in DOMAIN table' : x \in Metrics /\ table'[x] \in DOMAIN instruments'
        BY <1>1, <2>1, <2>3 DEF TypeOK
      <3>2. \A j \in DOMAIN instruments' :
              /\ instruments'[j].kind \in Kinds /\ instruments'[j].holder \in Threads \cup {Nobody}
              /\ DOMAIN instruments'[j].data \subseteq Range(Hash)
        BY <1>1, <2>2, <2>3, <2>4, RegistryAssumption DEF TypeOK
      <3>3. table'[m] = n
        BY <2>1
      <3>4. \A u \in Threads :
              /\ threads'[u].pc \in {"idle", "create", "ready", "locking", "locked", "panicked"}
              /\ threads'[u].pc \in {"ready", "locking", "locked"} =>
                   threads'[u].metric \in Metrics /\ threads'[u].handle \in DOMAIN instruments'
        BY <1>1, <2>3, <3>3 DEF TypeOK
      <3> QED BY <1>1, <2>3, <3>1, <3>2, <3>4 DEF TypeOK, collectVars
    <2> QED BY <1>2, <1>4, <2>5, <2>6, <2>7, <2>8, <2>9
  <1> QED BY <1>5, <1>6

LEMMA CaptureStep ==
  ASSUME RInv, NEW t \in Threads, NEW attrs \in AttrSets, NEW v, NEW exemplar,
         Capture(t, attrs, v, exemplar)
  PROVE  RInv'
  <1> USE DEF RInv
  <1>1. /\ threads[t].pc = "ready" /\ started < MaxMeasurements /\ started' = started + 1
        /\ UNCHANGED <<overflowChecks, registryVars, collectVars, recorded>>
        /\ DOMAIN threads' = Threads /\ DOMAIN threads'[t] = ThreadFields
        /\ \A u \in Threads : u # t => threads'[u] = threads[u]
        /\ threads'[t].metric = threads[t].metric /\ threads'[t].handle = threads[t].handle
        /\ threads'[t].pc = "locking"
        /\ threads'[t].measurement = [attrs |-> attrs, value |-> v, exemplar |-> exemplar, entry |-> <<>>,
                                     refused |-> FALSE]
    BY DEF Capture, ThreadShape, ThreadFields
  <1>2. InstrumentShape' /\ CardinalityLimit' /\ OneHolder' /\ HeldCheck'
    BY <1>1, InstrumentsKept, ThreadMoves DEF registryVars
  <1>3. ThreadShape' /\ CollectorShape'
    BY <1>1 DEF ThreadShape, CollectorShape, collectVars, MeasurementFields
  <1>4. InFlight' = InFlight \cup {t} /\ t \notin InFlight
    BY <1>1 DEF InFlight
  <1>5. CountShape'
    BY <1>1, <1>4, InFlightEnters
  <1>6. TypeOK'
    <2>1. Len(recorded) \in Nat /\ started \in Nat
      BY SeqShape DEF CountShape
    <2> QED BY <1>1, <2>1, RegistryAssumption DEF TypeOK, registryVars, collectVars
  <1> QED BY <1>2, <1>3, <1>5, <1>6

LEMMA LockStep ==
  ASSUME RInv, NEW t \in Threads, Lock(t)
  PROVE  RInv'
  <1> USE DEF RInv
  <1> DEFINE h == threads[t].handle
  <1>1. /\ threads[t].pc = "locking" /\ Mine(t).holder = Nobody /\ h \in DOMAIN instruments
        /\ UNCHANGED <<overflowChecks, table, collectVars, recorded, started>>
    BY DEF Lock, TypeOK
  <1>2. CollectorShape'
    BY <1>1 DEF CollectorShape, collectVars
  <1>3. CASE Mine(t).poisoned
    <2>1. /\ UNCHANGED instruments
          /\ DOMAIN threads' = Threads /\ DOMAIN threads'[t] = ThreadFields
          /\ \A u \in Threads : u # t => threads'[u] = threads[u]
          /\ threads'[t].pc = "panicked" /\ threads'[t].measurement = NoMeasurement
      BY <1>3 DEF Lock, ThreadShape, ThreadFields
    <2>2. InstrumentShape' /\ CardinalityLimit' /\ OneHolder' /\ HeldCheck'
      BY <1>1, <2>1, InstrumentsKept, ThreadMoves
    <2>3. ThreadShape'
      BY <2>1 DEF ThreadShape, NoMeasurement, MeasurementFields
    <2>4. InFlight' = InFlight \ {t} /\ t \in InFlight
      BY <1>1, <2>1 DEF InFlight
    <2>5. CountShape'
      BY <1>1, <2>4, InFlightLeaves
    <2>6. TypeOK'
      BY <1>1, <2>1 DEF TypeOK, collectVars
    <2> QED BY <1>2, <2>2, <2>3, <2>5, <2>6
  <1>4. CASE ~Mine(t).poisoned
    <2>1. /\ DOMAIN threads' = Threads /\ DOMAIN threads'[t] = ThreadFields
          /\ \A u \in Threads : u # t => threads'[u] = threads[u]
          /\ threads'[t].pc = "locked" /\ threads'[t].handle = h
          /\ threads'[t].metric = threads[t].metric
          /\ DOMAIN threads'[t].measurement = MeasurementFields
          /\ threads'[t].measurement.attrs = threads[t].measurement.attrs
          /\ threads'[t].measurement.refused = Refused(t)
      BY <1>4 DEF Lock, Looked, ThreadShape, ThreadFields, MeasurementFields
    <2> DEFINE i == [instruments[h] EXCEPT !.holder = t]
    <2>2. instruments' = [instruments EXCEPT ![h] = i]
      BY <1>4 DEF Lock
    <2>3. /\ DOMAIN i = InstrumentFields /\ i.holder = t /\ i.kind = instruments[h].kind
          /\ i.data = instruments[h].data /\ i.warned = instruments[h].warned
      BY <1>1 DEF InstrumentShape, InstrumentFields
    <2> HIDE DEF i
    <2>4. /\ IsSeq(instruments') /\ DOMAIN instruments' = DOMAIN instruments
          /\ instruments'[h] = i
          /\ \A j \in DOMAIN instruments : j # h => instruments'[j] = instruments[j]
      BY <1>1, <2>2, SeqUpdate DEF InstrumentShape
    <2>5. InstrumentShape' /\ CardinalityLimit'
      BY <1>1, <2>3, <2>4 DEF InstrumentShape, CardinalityLimit
    <2>6. ThreadShape'
      BY <1>1, <2>1 DEF ThreadShape
    <2>7. InFlight' = InFlight
      BY <1>1, <2>1 DEF InFlight
    <2>8. CountShape'
      BY <1>1, <2>7, InFlightSame
    <2>9. TypeOK'
      BY <1>1, <2>1, <2>3, <2>4 DEF TypeOK, collectVars
    <2>10. OneHolder'
      <3>1. ASSUME NEW u \in Threads, threads'[u].pc = "locked"
            PROVE  Mine(u)'.holder = u
        <4>1. CASE u = t
          BY <2>1, <2>3, <2>4, <4>1 DEF Mine
        <4>2. CASE u # t
          <5>1. /\ threads'[u] = threads[u] /\ threads[u].handle \in DOMAIN instruments
                /\ instruments[threads[u].handle].holder = u
            BY <2>1, <3>1, <4>2 DEF TypeOK, OneHolder, Mine
          <5>2. threads[u].handle # h
            BY <1>1, <5>1, RegistryAssumption DEF Mine
          <5> QED BY <2>4, <5>1, <5>2 DEF Mine
        <4> QED BY <4>1, <4>2
      <3>2. ASSUME NEW j \in DOMAIN instruments', instruments'[j].holder # Nobody
            PROVE  /\ threads'[instruments'[j].holder].pc = "locked"
                   /\ threads'[instruments'[j].holder].handle = j
        <4>1. CASE j = h
          BY <2>1, <2>3, <2>4, <4>1
        <4>2. CASE j # h
          <5>1. j \in DOMAIN instruments /\ instruments'[j] = instruments[j]
            BY <2>4, <4>2
          <5>2. /\ instruments[j].holder \in Threads \ {t}
                /\ threads[instruments[j].holder].pc = "locked"
                /\ threads[instruments[j].holder].handle = j
            BY <1>1, <3>2, <5>1 DEF OneHolder, TypeOK
          <5> QED BY <2>1, <5>1, <5>2
        <4> QED BY <4>1, <4>2
      <3> QED BY <3>1, <3>2 DEF OneHolder
    <2>11. HeldCheck'
      <3>1. \A j \in DOMAIN instruments : DOMAIN instruments'[j].data = DOMAIN instruments[j].data
        BY <2>3, <2>4
      <3> SUFFICES ASSUME NEW u \in Threads, threads'[u].pc = "locked"
                   PROVE  threads'[u].measurement.refused = Refused(u)'
        BY DEF HeldCheck
      <3>2. CASE u = t
        <4>1. DOMAIN Mine(t)'.data = DOMAIN Mine(t).data /\ Key(t)' = Key(t)
          BY <1>1, <2>1, <3>1 DEF Mine, Key
        <4>2. Refused(t)' = Refused(t)
          BY <4>1 DEF Refused, Known
        <4> QED BY <2>1, <3>2, <4>2
      <3>3. CASE u # t
        <4>1. threads'[u] = threads[u] /\ threads[u].handle \in DOMAIN instruments
          BY <2>1, <3>3 DEF TypeOK
        <4>2. DOMAIN Mine(u)'.data = DOMAIN Mine(u).data /\ Key(u)' = Key(u)
          BY <3>1, <4>1 DEF Mine, Key
        <4>3. Refused(u)' = Refused(u)
          BY <4>2 DEF Refused, Known
        <4> QED BY <4>1, <4>3 DEF HeldCheck
      <3> QED BY <3>2, <3>3
    <2> QED BY <1>2, <2>5, <2>6, <2>8, <2>9, <2>10, <2>11
  <1> QED BY <1>3, <1>4

\* What every way out of the critical section has in common.
LEMMA ReleaseStep ==
  ASSUME RInv, NEW t \in Threads, threads[t].pc = "locked", NEW pc \in {"ready", "panicked"},
         NEW i, DOMAIN i = InstrumentFields, i.holder = Nobody, i.kind = Mine(t).kind,
         IsFiniteSet(DOMAIN i.data), DOMAIN i.data \subseteq Range(Hash),
         Cardinality(DOMAIN i.data) <= MaxCardinality,
         i.warned => Cardinality(DOMAIN i.data) = MaxCardinality,
         instruments' = [instruments EXCEPT ![threads[t].handle] = i], threads' = Done(t, pc),
         UNCHANGED <<overflowChecks, table, collectVars, started>>,
         UNCHANGED recorded \/ \E x : recorded' = Append(recorded, x)
  PROVE  RInv'
  <1> USE DEF RInv
  <1> DEFINE h == threads[t].handle
  <1>1. h \in DOMAIN instruments
    BY DEF TypeOK
  <1>2. /\ DOMAIN threads' = Threads /\ DOMAIN threads'[t] = ThreadFields
        /\ \A u \in Threads : u # t => threads'[u] = threads[u]
        /\ threads'[t].pc = pc /\ threads'[t].handle = h /\ threads'[t].metric = threads[t].metric
        /\ threads'[t].measurement = NoMeasurement
    BY DEF Done, ThreadShape, ThreadFields
  <1>3. /\ IsSeq(instruments') /\ DOMAIN instruments' = DOMAIN instruments
        /\ instruments'[h] = i
        /\ \A j \in DOMAIN instruments : j # h => instruments'[j] = instruments[j]
    BY <1>1, SeqUpdate DEF InstrumentShape
  <1>4. InstrumentShape' /\ CardinalityLimit'
    BY <1>3 DEF InstrumentShape, CardinalityLimit
  <1>5. ThreadShape' /\ CollectorShape'
    BY <1>2 DEF ThreadShape, CollectorShape, collectVars, NoMeasurement, MeasurementFields
  <1>6. InFlight' = InFlight \ {t} /\ t \in InFlight
    BY <1>2 DEF InFlight
  <1>7. CountShape' /\ Len(recorded') <= started
    BY <1>6, InFlightLeaves
  <1>8. TypeOK'
    BY <1>1, <1>2, <1>3, <1>7 DEF TypeOK, collectVars, Mine
  <1>9. OneHolder'
    <2>1. ASSUME NEW u \in Threads, threads'[u].pc = "locked"
          PROVE  Mine(u)'.holder = u
      <3>1. /\ u # t /\ threads'[u] = threads[u] /\ threads[u].handle \in DOMAIN instruments
            /\ instruments[threads[u].handle].holder = u
        BY <1>2, <2>1 DEF TypeOK, OneHolder, Mine
      <3>2. threads[u].handle # h
        BY <3>1 DEF OneHolder, Mine
      <3> QED BY <1>3, <3>1, <3>2 DEF Mine
    <2>2. ASSUME NEW j \in DOMAIN instruments', instruments'[j].holder # Nobody
          PROVE  /\ threads'[instruments'[j].holder].pc = "locked"
                 /\ threads'[instruments'[j].holder].handle = j
      <3>1. j \in DOMAIN instruments /\ j # h /\ instruments'[j] = instruments[j]
        BY <1>3, <2>2
      <3>2. /\ instruments[j].holder \in Threads
            /\ threads[instruments[j].holder].pc = "locked"
            /\ threads[instruments[j].holder].handle = j
        BY <2>2, <3>1 DEF OneHolder, TypeOK
      <3> QED BY <1>2, <3>1, <3>2
    <2> QED BY <2>1, <2>2 DEF OneHolder
  <1>10. HeldCheck'
    <2>1. ASSUME NEW u \in Threads, threads'[u].pc = "locked"
          PROVE  threads'[u] = threads[u] /\ DOMAIN Mine(u)'.data = DOMAIN Mine(u).data
      <3>1. /\ u # t /\ threads'[u] = threads[u] /\ threads[u].handle \in DOMAIN instruments
            /\ instruments[threads[u].handle].holder = u
        BY <1>2, <2>1 DEF TypeOK, OneHolder, Mine
      <3>2. threads[u].handle # h
        BY <3>1 DEF OneHolder, Mine
      <3> QED BY <1>3, <3>1, <3>2 DEF Mine
    <2> QED BY <2>1, CheckKept
  <1> QED BY <1>4, <1>5, <1>7, <1>8, <1>9, <1>10

\* The instrument a locked thread uses.
LEMMA MineShape ==
  ASSUME RInv, NEW t \in Threads, threads[t].pc = "locked"
  PROVE  /\ threads[t].handle \in DOMAIN instruments
         /\ DOMAIN Mine(t) = InstrumentFields /\ Mine(t).kind \in Kinds
         /\ IsFiniteSet(DOMAIN Mine(t).data) /\ DOMAIN Mine(t).data \subseteq Range(Hash)
         /\ Cardinality(DOMAIN Mine(t).data) \in Nat
         /\ Cardinality(DOMAIN Mine(t).data) <= MaxCardinality
         /\ Mine(t).warned => Cardinality(DOMAIN Mine(t).data) = MaxCardinality
         /\ Key(t) \in Range(Hash)
  <1>1. threads[t].handle \in DOMAIN instruments
    BY DEF RInv, TypeOK
  <1>2. Key(t) \in Range(Hash)
    BY RegistryAssumption DEF RInv, ThreadShape, Key, Range
  <1> QED BY <1>1, <1>2, FS_CardinalityType DEF RInv, InstrumentShape, TypeOK, CardinalityLimit, Mine

LEMMA RefuseStep ==
  ASSUME RInv, NEW t \in Threads, Refuse(t)
  PROVE  RInv'
  <1> DEFINE i == [[Mine(t) EXCEPT !.warned = TRUE] EXCEPT !.holder = Nobody]
  <1>1. threads[t].pc = "locked" /\ Refused(t)
    BY DEF Refuse, RInv, HeldCheck
  <1>2. /\ DOMAIN i = InstrumentFields /\ i.holder = Nobody /\ i.kind = Mine(t).kind
        /\ i.data = Mine(t).data
    BY <1>1, MineShape DEF InstrumentFields
  <1>3. instruments' = [instruments EXCEPT ![threads[t].handle] = i]
    BY DEF Refuse, Unlocked
  <1> HIDE DEF i
  <1>4. Cardinality(DOMAIN Mine(t).data) = MaxCardinality
    BY <1>1, MineShape, RegistryAssumption DEF Refused
  <1>5. /\ threads' = Done(t, "ready")
        /\ UNCHANGED <<overflowChecks, table, collectVars, recorded, started>>
    BY DEF Refuse
  <1>6. /\ IsFiniteSet(DOMAIN i.data) /\ DOMAIN i.data \subseteq Range(Hash)
        /\ Cardinality(DOMAIN i.data) <= MaxCardinality
        /\ i.warned => Cardinality(DOMAIN i.data) = MaxCardinality
    BY <1>1, <1>2, <1>4, MineShape
  <1> QED BY <1>1, <1>2, <1>3, <1>5, <1>6, ReleaseStep

LEMMA PanicStep ==
  ASSUME RInv, NEW t \in Threads, Panic(t)
  PROVE  RInv'
  <1> DEFINE i == [[Mine(t) EXCEPT !.poisoned = TRUE] EXCEPT !.holder = Nobody]
  <1>1. threads[t].pc = "locked"
    BY DEF Panic
  <1>2. /\ DOMAIN i = InstrumentFields /\ i.holder = Nobody /\ i.kind = Mine(t).kind
        /\ i.data = Mine(t).data /\ i.warned = Mine(t).warned
    BY <1>1, MineShape DEF InstrumentFields
  <1>3. instruments' = [instruments EXCEPT ![threads[t].handle] = i]
    BY DEF Panic, Unlocked
  <1> HIDE DEF i
  <1>4. /\ threads' = Done(t, "panicked")
        /\ UNCHANGED <<overflowChecks, table, collectVars, recorded, started>>
    BY DEF Panic
  <1>5. /\ IsFiniteSet(DOMAIN i.data) /\ DOMAIN i.data \subseteq Range(Hash)
        /\ Cardinality(DOMAIN i.data) <= MaxCardinality
        /\ i.warned => Cardinality(DOMAIN i.data) = MaxCardinality
    BY <1>1, <1>2, MineShape
  <1> QED BY <1>1, <1>2, <1>3, <1>4, <1>5, ReleaseStep

LEMMA RecordStep ==
  ASSUME RInv, NEW t \in Threads, Record(t)
  PROVE  RInv'
  <1> DEFINE K == DOMAIN Mine(t).data
  <1>1. threads[t].pc = "locked" /\ ~Refused(t)
    BY DEF Record, RInv, HeldCheck
  <1>2. PICK new :
          instruments' = Unlocked(t, [Mine(t) EXCEPT !.data =
            [k \in DOMAIN @ \cup {Key(t)} |-> IF k = Key(t) THEN new ELSE @[k]]])
    BY DEF Record
  <1> DEFINE data == [k \in K \cup {Key(t)} |-> IF k = Key(t) THEN new ELSE Mine(t).data[k]]
             i == [[Mine(t) EXCEPT !.data = data] EXCEPT !.holder = Nobody]
  <1>3. instruments' = [instruments EXCEPT ![threads[t].handle] = i]
    <2>1. "data" \in DOMAIN Mine(t)
      BY <1>1, MineShape DEF InstrumentFields
    <2> QED BY <1>2, <2>1 DEF Unlocked
  <1>4. DOMAIN data = K \cup {Key(t)}
    OBVIOUS
  <1> HIDE DEF data
  <1>5. /\ DOMAIN i = InstrumentFields /\ i.holder = Nobody /\ i.kind = Mine(t).kind
        /\ i.data = data /\ i.warned = Mine(t).warned
    BY <1>1, MineShape DEF InstrumentFields
  <1> HIDE DEF i
  <1>6. threads' = Done(t, "ready") /\ UNCHANGED <<overflowChecks, table, collectVars, started>>
    BY DEF Record
  <1>7. \E x : recorded' = Append(recorded, x)
    BY DEF Record
  <1>8. /\ IsFiniteSet(DOMAIN i.data) /\ DOMAIN i.data \subseteq Range(Hash)
        /\ Cardinality(DOMAIN i.data) <= MaxCardinality
        /\ i.warned => Cardinality(DOMAIN i.data) = MaxCardinality
    <2>1. /\ IsFiniteSet(K) /\ K \subseteq Range(Hash) /\ Key(t) \in Range(Hash)
          /\ Cardinality(K) \in Nat /\ Cardinality(K) <= MaxCardinality
          /\ Mine(t).warned => Cardinality(K) = MaxCardinality
      BY <1>1, MineShape
    <2>2. CASE Key(t) \in K
      <3>1. DOMAIN i.data = K
        BY <1>4, <1>5, <2>2
      <3> QED BY <1>5, <2>1, <3>1
    <2>3. CASE Key(t) \notin K
      <3>1. Cardinality(K) < MaxCardinality
        BY <1>1, <2>1, <2>3, RegistryAssumption DEF Refused, Known
      <3>2. IsFiniteSet(K \cup {Key(t)}) /\ Cardinality(K \cup {Key(t)}) = Cardinality(K) + 1
        BY <2>1, <2>3, FS_AddElement
      <3> QED BY <1>4, <1>5, <2>1, <3>1, <3>2, RegistryAssumption
    <2> QED BY <2>2, <2>3
  <1> QED BY <1>1, <1>3, <1>5, <1>6, <1>7, <1>8, ReleaseStep

\* The collector changes nothing that the threads or the limit depend on.
LEMMA CollectorStep ==
  ASSUME RInv, UNCHANGED <<overflowChecks, table, threads, recorded, started>>,
         DOMAIN collector' = {"at", "left"}, collector'.at \in Kinds \cup {"idle", "panicked"},
         collector'.left \subseteq DOMAIN instruments,
         \/ UNCHANGED instruments
         \/ \E i \in DOMAIN instruments : \E data :
              /\ DOMAIN data = DOMAIN instruments[i].data
              /\ instruments' = [instruments EXCEPT ![i].data = data]
  PROVE  RInv'
  <1> USE DEF RInv
  <1>1. ThreadShape' /\ CollectorShape'
    BY DEF ThreadShape, CollectorShape
  <1>2. CountShape'
    BY DEF CountShape, InFlight
  <1>3. CASE UNCHANGED instruments
    <2>1. InstrumentShape' /\ CardinalityLimit'
      BY <1>3, InstrumentsKept
    <2>2. TypeOK' /\ OneHolder'
      BY <1>3 DEF TypeOK, OneHolder, Mine
    <2>3. HeldCheck'
      BY <1>3, CheckKept DEF Mine
    <2> QED BY <1>1, <1>2, <2>1, <2>2, <2>3
  <1>4. CASE \E i \in DOMAIN instruments : \E data :
               /\ DOMAIN data = DOMAIN instruments[i].data
               /\ instruments' = [instruments EXCEPT ![i].data = data]
    <2>0. PICK i \in DOMAIN instruments : \E data :
            /\ DOMAIN data = DOMAIN instruments[i].data
            /\ instruments' = [instruments EXCEPT ![i].data = data]
      BY <1>4
    <2>1. PICK data :
            /\ DOMAIN data = DOMAIN instruments[i].data
            /\ instruments' = [instruments EXCEPT ![i].data = data]
      BY <2>0
    <2> DEFINE x == [instruments[i] EXCEPT !.data = data]
    <2>2. instruments' = [instruments EXCEPT ![i] = x]
      BY <2>1
    <2>3. /\ DOMAIN x = InstrumentFields /\ x.kind = instruments[i].kind
          /\ x.holder = instruments[i].holder /\ x.data = data /\ x.warned = instruments[i].warned
      BY DEF InstrumentShape, InstrumentFields
    <2> HIDE DEF x
    <2>4. /\ IsSeq(instruments') /\ DOMAIN instruments' = DOMAIN instruments
          /\ instruments'[i] = x
          /\ \A j \in DOMAIN instruments : j # i => instruments'[j] = instruments[j]
      BY <2>2, SeqUpdate DEF InstrumentShape
    <2>5. InstrumentShape' /\ CardinalityLimit'
      BY <2>1, <2>3, <2>4 DEF InstrumentShape, CardinalityLimit
    <2>6. TypeOK'
      BY <2>1, <2>3, <2>4 DEF TypeOK
    <2>7. \A j \in DOMAIN instruments : instruments'[j].holder = instruments[j].holder
      BY <2>3, <2>4
    <2>8. OneHolder'
      BY <2>4, <2>7 DEF OneHolder, TypeOK, Mine
    <2>9. HeldCheck'
      <3>1. \A u \in Threads : threads[u].pc = "locked" =>
              DOMAIN Mine(u)'.data = DOMAIN Mine(u).data
        BY <2>1, <2>3, <2>4 DEF TypeOK, Mine
      <3> QED BY <3>1, CheckKept
    <2> QED BY <1>1, <1>2, <2>5, <2>6, <2>8, <2>9
  <1> QED BY <1>3, <1>4

\* The instruments in the table are all there.
LEMMA VisitShape ==
  ASSUME RInv, NEW kind \in Kinds
  PROVE  /\ DOMAIN Visit(kind) = {"at", "left"} /\ Visit(kind).at = kind
         /\ Visit(kind).left \subseteq DOMAIN instruments
  BY DEF RInv, TypeOK, Visit

LEMMA CollectBeginStep ==
  ASSUME RInv, CollectBegin
  PROVE  RInv'
  <1>1. /\ UNCHANGED <<overflowChecks, table, threads, recorded, started, instruments>>
        /\ collector' = Visit("counter")
    BY DEF CollectBegin, registryVars
  <1>2. "counter" \in Kinds
    BY DEF Kinds
  <1> QED BY <1>1, <1>2, VisitShape, CollectorStep

LEMMA TakeStep ==
  ASSUME RInv, Take
  PROVE  RInv'
  <1>1. PICK i \in DOMAIN instruments : CollectInstrument(i) \/ CollectPanic(i)
    BY DEF Take
  <1>2. CASE CollectInstrument(i)
    <2> DEFINE data == [key \in DOMAIN instruments[i].data |->
                          [instruments[i].data[key] EXCEPT !.exemplar = None]]
    <2>1. /\ UNCHANGED <<overflowChecks, table, threads, recorded, started>>
          /\ collector' = [collector EXCEPT !.left = @ \ {i}]
      BY <1>2 DEF CollectInstrument
    <2>2. /\ DOMAIN collector' = {"at", "left"} /\ collector'.at \in Kinds \cup {"idle", "panicked"}
          /\ collector'.left \subseteq DOMAIN instruments
      BY <2>1 DEF RInv, CollectorShape, TypeOK
    <2>3. "data" \in DOMAIN instruments[i]
      BY DEF RInv, InstrumentShape, InstrumentFields
    <2>4. instruments' = [instruments EXCEPT ![i].data = data]
      BY <1>2, <2>3 DEF CollectInstrument
    <2>5. DOMAIN data = DOMAIN instruments[i].data
      OBVIOUS
    <2> HIDE DEF data
    <2> QED BY <2>1, <2>2, <2>4, <2>5, CollectorStep
  <1>3. CASE CollectPanic(i)
    <2>1. /\ UNCHANGED <<overflowChecks, table, threads, recorded, started, instruments>>
          /\ collector' = [at |-> "panicked", left |-> {}]
      BY <1>3 DEF CollectPanic, registryVars
    <2> QED BY <2>1, CollectorStep
  <1> QED BY <1>1, <1>2, <1>3

LEMMA CollectNextStep ==
  ASSUME RInv, CollectNext
  PROVE  RInv'
  <1>1. UNCHANGED <<overflowChecks, table, threads, recorded, started, instruments>>
    BY DEF CollectNext, registryVars
  <1>2. CASE NextKind(collector.at) = "idle"
    <2>1. collector' = Rest
      BY <1>2 DEF CollectNext
    <2> QED BY <1>1, <2>1, CollectorStep DEF Rest
  <1>3. CASE NextKind(collector.at) # "idle"
    <2>1. collector' = Visit(NextKind(collector.at)) /\ NextKind(collector.at) \in Kinds
      BY <1>3 DEF CollectNext, NextKind, Kinds
    <2> QED BY <1>1, <2>1, VisitShape, CollectorStep
  <1> QED BY <1>2, <1>3

LEMMA StutterStep ==
  ASSUME RInv, UNCHANGED vars
  PROVE  RInv'
  <1>1. UNCHANGED <<overflowChecks, table, threads, recorded, started, instruments, collector>>
    BY DEF vars, registryVars, collectVars
  <1>2. /\ DOMAIN collector' = {"at", "left"} /\ collector'.at \in Kinds \cup {"idle", "panicked"}
        /\ collector'.left \subseteq DOMAIN instruments
    BY <1>1 DEF RInv, CollectorShape, TypeOK
  <1> QED BY <1>1, <1>2, CollectorStep

LEMMA RInvStep == RInv /\ [Next]_vars => RInv'
  <1> SUFFICES ASSUME RInv, [Next]_vars PROVE RInv'
    OBVIOUS
  <1>1. ASSUME NEW t \in Threads, NEW m \in Metrics, Lookup(t, m) PROVE RInv'
    BY <1>1, LookupStep
  <1>2. ASSUME NEW t \in Threads, NEW bounds \in Boundaries, Create(t, bounds) PROVE RInv'
    BY <1>2, CreateStep
  <1>3. ASSUME NEW t \in Threads, Measure(t) PROVE RInv'
    BY <1>3, CaptureStep DEF Measure
  <1>4. ASSUME NEW t \in Threads, Lock(t) PROVE RInv'
    BY <1>4, LockStep
  <1>5. ASSUME NEW t \in Threads, Leave(t) PROVE RInv'
    BY <1>5, RefuseStep, RecordStep, PanicStep DEF Leave
  <1>6. CASE CollectBegin \/ Take \/ CollectNext
    BY <1>6, CollectBeginStep, TakeStep, CollectNextStep
  <1>7. CASE Terminated \/ UNCHANGED vars
    BY <1>7, StutterStep DEF Terminated
  <1> QED BY <1>1, <1>2, <1>3, <1>4, <1>5, <1>6, <1>7 DEF Next

-----------------------------------------------------------------------------
(***************************************************************************)
(* The theorems.                                                           *)
(***************************************************************************)

\* The invariant holds in every reachable state of the registry.
THEOREM RegistryInvariance == Spec => []RInv
  BY InitRInv, RInvStep, PTL DEF Spec

\* Handles, keys and counts are what they should be: no measurement is recorded
\* that was not started (src/metrics.rs:417-449).
THEOREM RegistryTyping == Spec => []TypeOK
  <1>1. RInv => TypeOK
    BY DEF RInv
  <1> QED BY <1>1, RegistryInvariance, PTL

\* src/metrics.rs:427: no instrument ever has more attribute sets than the limit,
\* whatever threads race for the last place.
THEOREM Limited == Spec => []CardinalityLimit
  <1>1. RInv => CardinalityLimit
    BY DEF RInv
  <1> QED BY <1>1, RegistryInvariance, PTL

-----------------------------------------------------------------------------
(***************************************************************************)
(* Aggregation: one measurement more, added as the code adds it, gives the *)
(* aggregate of all of them.                                               *)
(***************************************************************************)

\* Arithmetic modulo m.
LEMMA DivMod ==
  ASSUME NEW m \in Nat \ {0}, NEW x \in Int
  PROVE  /\ x % m \in Int /\ x \div m \in Int /\ 0 <= x % m /\ x % m < m
         /\ x = (m * (x \div m)) + (x % m)
  OBVIOUS

LEMMA RemainderIsOne ==
  ASSUME NEW m \in Nat \ {0}, NEW r \in Int, NEW s \in Int, NEW j \in Int, NEW k \in Int,
         0 <= r, r < m, 0 <= s, s < m, (m * j) + r = (m * k) + s
  PROVE  r = s
  <1>1. m * (j - k) = s - r /\ j - k \in Int
    OBVIOUS
  <1>2. CASE j - k >= 1
    <2>1. m * (j - k) >= m
      BY <1>2
    <2> QED BY <1>1, <2>1
  <1>3. CASE j - k <= -1
    <2>1. m * (j - k) <= -m
      BY <1>3
    <2> QED BY <1>1, <2>1
  <1>4. CASE j - k = 0
    <2>1. j = k
      BY <1>4
    <2> QED BY <2>1
  <1> QED BY <1>1, <1>2, <1>3, <1>4

LEMMA ModShift ==
  ASSUME NEW m \in Nat \ {0}, NEW x \in Int, NEW k \in Int
  PROVE  (x + (m * k)) % m = x % m
  <1>1. PICK y \in Int : y = x + (m * k)
    OBVIOUS
  <1>2. /\ y % m \in Int /\ y \div m \in Int /\ 0 <= y % m /\ y % m < m
        /\ y = (m * (y \div m)) + (y % m)
    BY DivMod
  <1>3. /\ x % m \in Int /\ x \div m \in Int /\ 0 <= x % m /\ x % m < m
        /\ x = (m * (x \div m)) + (x % m)
    BY DivMod
  <1>4. PICK j \in Int : j = (x \div m) + k
    BY <1>3
  <1>5. m * j = (m * (x \div m)) + (m * k)
    BY <1>3, <1>4
  <1>6. (m * (y \div m)) + (y % m) = (m * j) + (x % m)
    BY <1>1, <1>2, <1>3, <1>5
  <1> QED BY <1>1, <1>2, <1>3, <1>6, RemainderIsOne

\* Some value is recorded: an i64 has at least one.
LEMMA WidthCounts == ASSUME Values # {} PROVE 2 ^ Width \in Nat \ {0}
  <1>1. PICK x \in Values : x \in 0..(2 ^ Width - 1)
    BY RegistryAssumption
  <1>2. 2 ^ Width \in Int
    BY RegistryAssumption
  <1> QED BY ONLY <1>1, <1>2

\* Wrapping moves a number by a multiple of the modulus, and forgets those.
LEMMA WrapShifts ==
  ASSUME 2 ^ Width \in Nat \ {0}, NEW x \in Int
  PROVE  /\ \E k \in Int : AsI64(x) = x + (2 ^ Width * k)
         /\ \A k \in Int : AsI64(x + (2 ^ Width * k)) = AsI64(x)
  <1>1. PICK m \in Nat \ {0} : m = 2 ^ Width
    OBVIOUS
  <1>2. /\ x % m \in Int /\ x \div m \in Int /\ 0 <= x % m /\ x % m < m
        /\ x = (m * (x \div m)) + (x % m)
    BY DivMod
  <1>3. PICK q \in Int : q = x \div m
    BY <1>2
  <1>4. x % m = x + (m * (-q)) /\ (x % m) - m = x + (m * (-q - 1))
    BY <1>2, <1>3
  <1>5. AsI64(x) = x + (m * (-q)) \/ AsI64(x) = x + (m * (-q - 1))
    BY ONLY <1>1, <1>4 DEF AsI64
  <1>6. -q \in Int /\ -q - 1 \in Int
    OBVIOUS
  <1>7. \A k \in Int : (x + (m * k)) % m = x % m
    BY ModShift
  <1>8. \A k \in Int : AsI64(x + (m * k)) = AsI64(x)
    BY ONLY <1>1, <1>7 DEF AsI64
  <1> QED BY ONLY <1>1, <1>5, <1>6, <1>8

LEMMA WrapAdds ==
  ASSUME 2 ^ Width \in Nat \ {0}, NEW x \in Int, NEW y \in Int
  PROVE  /\ AsI64(x + AsI64(y)) = AsI64(x + y)
         /\ AsI64(AsI64(x) + AsI64(y)) = AsI64(x + y)
  <1>1. PICK m \in Nat \ {0} : m = 2 ^ Width
    OBVIOUS
  <1>2. PICK j \in Int : AsI64(x) = x + (m * j)
    BY <1>1, WrapShifts
  <1>3. PICK k \in Int : AsI64(y) = y + (m * k)
    BY <1>1, WrapShifts
  <1>4. PICK z \in Int : z = x + y
    OBVIOUS
  <1>5. \A l \in Int : AsI64(z + (m * l)) = AsI64(z)
    BY <1>1, WrapShifts
  <1>6. PICK l \in Int : l = j + k
    OBVIOUS
  <1>7. x + AsI64(y) = z + (m * k) /\ AsI64(x) + AsI64(y) = z + (m * l)
    <2>1. m * l = (m * j) + (m * k)
      BY <1>6
    <2> QED BY ONLY <1>2, <1>3, <1>4, <2>1, m \in Nat, x \in Int, y \in Int, j \in Int, k \in Int, l \in Int
  <1> QED BY ONLY <1>4, <1>5, <1>7, k \in Int, l \in Int

\* Boundaries that rise.
InOrder(bounds) ==
  /\ bounds \in Seq(Int)
  /\ \A b, c \in DOMAIN bounds : b < c => bounds[b] < bounds[c]

\* The bucket that is counted up is the one that the value is inside.
LEMMA BucketInside ==
  ASSUME NEW bounds, InOrder(bounds), NEW x \in Int
  PROVE  /\ Bucket(bounds, x) \in 1..(Len(bounds) + 1)
         /\ \A b \in 1..(Len(bounds) + 1) : Inside(bounds, b, x) <=> b = Bucket(bounds, x)
  <1>1. PICK n \in Nat : n = Len(bounds) /\ DOMAIN bounds = 1..n
    BY DEF InOrder
  <1>2. PICK P : P = {b \in DOMAIN bounds : bounds[b] <= x}
    OBVIOUS
  <1>3. \A b \in 1..n : bounds[b] \in Int
    BY <1>1 DEF InOrder
  <1>4. \A b, c \in 1..n : b < c => bounds[b] < bounds[c]
    BY <1>1 DEF InOrder
  <1>5. P \subseteq 1..n /\ IsFiniteSet(P) /\ \A b \in 1..n : b \in P <=> bounds[b] <= x
    <2>1. IsFiniteSet(1..n) /\ P \subseteq 1..n
      BY <1>1, <1>2, FS_Interval
    <2> QED BY <1>1, <1>2, <2>1, FS_Subset
  <1>6. PICK m \in 0..n : P = 1..m
    <2>1. CASE P = {}
      <3>1. P = 1..0 /\ 0 \in 0..n
        BY <2>1
      <3> QED BY <3>1
    <2>2. CASE P # {}
      <3>1. P \subseteq Int
        BY <1>5
      <3>2. PICK m \in P : \A b \in P : b <= m
        BY <1>5, <2>2, <3>1, Greatest
      <3>3. ASSUME NEW b \in 1..m PROVE b \in P
        <4>1. b \in 1..n /\ m \in 1..n /\ bounds[m] <= x
          BY <1>5, <3>2
        <4>2. b < m => bounds[b] < bounds[m]
          BY ONLY <1>4, <4>1
        <4>3. bounds[b] \in Int /\ bounds[m] \in Int
          BY <1>3, <4>1
        <4>4. bounds[b] <= x
          <5>1. CASE b = m
            BY ONLY <4>1, <5>1
          <5>2. CASE b # m
            <6>1. b < m
              BY ONLY <4>1, <5>2, b \in 1..m
            <6> QED BY ONLY <4>1, <4>2, <4>3, <6>1, x \in Int
          <5> QED BY <5>1, <5>2
        <4> QED BY <1>5, <4>1, <4>4
      <3>4. ASSUME NEW b \in P PROVE b \in 1..m
        BY <1>5, <3>2
      <3>5. P = 1..m
        BY ONLY <3>3, <3>4
      <3>6. m \in 0..n
        BY <1>5
      <3> QED BY <3>5, <3>6
    <2> QED BY <2>1, <2>2
  <1>7. Cardinality(P) = m
    <2>1. Cardinality(1..m) = IF 1 > m THEN 0 ELSE m - 1 + 1
      BY <1>6, FS_Interval
    <2> QED BY ONLY <1>6, <2>1, m \in 0..n, n \in Nat
  <1>8. Bucket(bounds, x) = 1 + m
    BY <1>2, <1>7 DEF Bucket
  <1>9. ASSUME NEW b \in 1..(n + 1)
        PROVE  Inside(bounds, b, x) <=> b = 1 + m
    <2>1. b # 1 => (bounds[b - 1] <= x <=> b - 1 <= m)
      <3> SUFFICES ASSUME b # 1 PROVE bounds[b - 1] <= x <=> b - 1 <= m
        OBVIOUS
      <3>1. b - 1 \in 1..n
        OBVIOUS
      <3> QED BY ONLY <1>5, <1>6, <3>1, m \in 0..n, n \in Nat
    <2>2. b # n + 1 => (x < bounds[b] <=> b > m)
      <3> SUFFICES ASSUME b # n + 1 PROVE x < bounds[b] <=> b > m
        OBVIOUS
      <3>1. b \in 1..n
        OBVIOUS
      <3>2. bounds[b] \in Int
        BY <1>3, <3>1
      <3> QED BY ONLY <1>5, <1>6, <3>1, <3>2, m \in 0..n, n \in Nat, x \in Int
    <2>3. Inside(bounds, b, x) <=> (b = 1 \/ b - 1 <= m) /\ (b = n + 1 \/ b > m)
      BY ONLY <1>1, <2>1, <2>2 DEF Inside
    <2> QED BY ONLY <2>3, m \in 0..n, n \in Nat, b \in 1..(n + 1)
  <1> QED BY <1>1, <1>8, <1>9

\* What an aggregate is, kind by kind.
LEMMA AggregateOf ==
  ASSUME NEW bounds, NEW v
  PROVE  /\ Aggregate("counter", bounds, v) = AsI64(Total(v))
         /\ Aggregate("gauge", bounds, v) = v[Max(DOMAIN v)]
         /\ Aggregate("histogram", bounds, v) =
              [buckets |-> [b \in 1..(Len(bounds) + 1) |->
                              Cardinality({j \in DOMAIN v : Inside(bounds, b, v[j])})],
               sum |-> Total(v), count |-> Cardinality(DOMAIN v),
               min |-> Min(Range(v)), max |-> Max(Range(v))]
  BY Zenon DEF Aggregate, Total

\* u has one value more than v, of a later measurement.
Extends(v, u, n) ==
  /\ IsFiniteSet(DOMAIN v) /\ DOMAIN v \subseteq Nat /\ \A j \in DOMAIN v : v[j] \in Nat
  /\ n \in Nat /\ (\A j \in DOMAIN v : j < n) /\ u[n] \in Nat
  /\ DOMAIN u = DOMAIN v \cup {n} /\ \A j \in DOMAIN v : u[j] = v[j]

LEMMA ExtendsTotal ==
  ASSUME NEW v, NEW u, NEW n, Extends(v, u, n)
  PROVE  /\ Total(v) \in Int /\ Total(u) = Total(v) + u[n]
         /\ n \notin DOMAIN v /\ Cardinality(DOMAIN v) \in Nat
         /\ Cardinality(DOMAIN u) = Cardinality(DOMAIN v) + 1
         /\ DOMAIN v = {} => Total(v) = 0 /\ Cardinality(DOMAIN v) = 0
         /\ DOMAIN v # {} => Cardinality(DOMAIN v) # 0
  <1>1. n \notin DOMAIN v
    BY DEF Extends
  <1>2. Agree(DOMAIN v, v, u)
    BY DEF Extends, Agree
  <1>3. Integral(DOMAIN u, u)
    BY DEF Extends, Integral
  <1>4. Total(v) \in Int /\ Total(u) = u[n] + Total(v)
    BY <1>1, <1>2, <1>3, TotalAdds DEF Extends
  <1>5. Cardinality(DOMAIN v) \in Nat /\ Cardinality(DOMAIN u) = Cardinality(DOMAIN v) + 1
    BY <1>1, FS_AddElement, FS_CardinalityType DEF Extends
  <1>6. DOMAIN v = {} <=> Cardinality(DOMAIN v) = 0
    BY FS_EmptySet DEF Extends
  <1>7. u[n] \in Int
    BY DEF Extends
  <1> QED BY <1>1, <1>4, <1>5, <1>6, <1>7, TotalEmpty

LEMMA ExtendsRange ==
  ASSUME NEW v, NEW u, NEW n, Extends(v, u, n)
  PROVE  /\ Range(u) = Range(v) \cup {u[n]} /\ Range(v) \subseteq Nat /\ IsFiniteSet(Range(v))
         /\ DOMAIN v # {} => Range(v) # {}
  <1>1. Range(u) = Range(v) \cup {u[n]} /\ Range(v) \subseteq Nat
    BY DEF Extends, Range
  <1>2. Range(v) = {v[j] : j \in DOMAIN v}
    BY DEF Range
  <1>3. IsFiniteSet(Range(v))
    <2>1. PICK f : f = [j \in DOMAIN v |-> v[j]]
      OBVIOUS
    <2>2. f \in Surjection(DOMAIN v, Range(v))
      BY <1>2, <2>1 DEF Surjection
    <2> QED BY <2>2, FS_Surjection DEF Extends
  <1> QED BY <1>1, <1>2, <1>3

\* The state of an entry before it holds anything, and after.
StateOf(kind, bounds, v) == IF DOMAIN v = {} THEN Empty(kind, bounds) ELSE Aggregate(kind, bounds, v)

LEMMA HistogramAdds ==
  ASSUME NEW bounds, InOrder(bounds), NEW v, NEW u, NEW n, Extends(v, u, n)
  PROVE  Aggregate("histogram", bounds, u) =
           Added("histogram", bounds, StateOf("histogram", bounds, v), u[n])
  <1> DEFINE Counts(w) == [b \in 1..(Len(bounds) + 1) |->
                             Cardinality({j \in DOMAIN w : Inside(bounds, b, w[j])})]
  <1>0. u[n] \in Nat
    BY DEF Extends
  <1>1. PICK x \in Nat : x = u[n]
    BY <1>0
  <1>2. PICK k : k = Bucket(bounds, x)
    OBVIOUS
  <1>3. /\ k \in 1..(Len(bounds) + 1)
        /\ \A b \in 1..(Len(bounds) + 1) : Inside(bounds, b, x) <=> b = k
    BY <1>2, BucketInside
  <1>4. PICK s : s = StateOf("histogram", bounds, v)
    OBVIOUS
  <1>5. PICK c : c = Counts(v)
    OBVIOUS
  <1>6. DOMAIN c = 1..(Len(bounds) + 1) /\ \A b \in DOMAIN c : c[b] \in Nat
    <2>1. \A b \in DOMAIN c : c[b] = Cardinality({j \in DOMAIN v : Inside(bounds, b, v[j])})
      BY <1>5
    <2>2. \A b : IsFiniteSet({j \in DOMAIN v : Inside(bounds, b, v[j])})
      BY FS_Subset DEF Extends
    <2> QED BY <1>5, <2>1, <2>2, FS_CardinalityType
  <1>7. Counts(u) = [c EXCEPT ![k] = @ + 1]
    <2>1. ASSUME NEW b \in 1..(Len(bounds) + 1)
          PROVE  Counts(u)[b] = IF b = k THEN c[b] + 1 ELSE c[b]
      <3>1. PICK J : J = {j \in DOMAIN v : Inside(bounds, b, v[j])}
        OBVIOUS
      <3>2. PICK K : K = {j \in DOMAIN u : Inside(bounds, b, u[j])}
        OBVIOUS
      <3>3. IsFiniteSet(J) /\ n \notin J /\ c[b] = Cardinality(J) /\ Counts(u)[b] = Cardinality(K)
        <4>1. IsFiniteSet(J) /\ n \notin J
          BY <3>1, FS_Subset DEF Extends
        <4> QED BY <1>5, <3>1, <3>2, <4>1
      <3>4. K = IF b = k THEN J \cup {n} ELSE J
        <4>1. DOMAIN u = DOMAIN v \cup {n} /\ (\A j \in DOMAIN v : u[j] = v[j]) /\ n \notin DOMAIN v
          BY ExtendsTotal DEF Extends
        <4>2. Inside(bounds, b, u[n]) <=> b = k
          BY <1>1, <1>3
        <4> QED BY ONLY <3>1, <3>2, <4>1, <4>2
      <3>5. Cardinality(K) = IF b = k THEN Cardinality(J) + 1 ELSE Cardinality(J)
        BY <3>3, <3>4, FS_AddElement
      <3> QED BY ONLY <3>3, <3>5
    <2>2. PICK d : d = Counts(u)
      OBVIOUS
    <2>3. d = [b \in 1..(Len(bounds) + 1) |-> d[b]]
      BY <2>2
    <2>4. \A b \in 1..(Len(bounds) + 1) : d[b] = IF b = k THEN c[b] + 1 ELSE c[b]
      BY <2>1, <2>2
    <2>5. c = [b \in 1..(Len(bounds) + 1) |-> c[b]]
      BY <1>5
    <2>6. d = [c EXCEPT ![k] = @ + 1]
      BY ONLY <1>3, <2>3, <2>4, <2>5
    <2> QED BY <2>2, <2>6
  <1>8. Aggregate("histogram", bounds, u) =
          [buckets |-> Counts(u), sum |-> Total(u), count |-> Cardinality(DOMAIN u),
           min |-> Min(Range(u)), max |-> Max(Range(u))]
    BY AggregateOf
  <1>9. Added("histogram", bounds, s, x) =
          [buckets |-> [s.buckets EXCEPT ![k] = @ + 1], sum |-> s.sum + x, count |-> s.count + 1,
           min |-> IF s.count = 0 \/ x < s.min THEN x ELSE s.min,
           max |-> IF s.count = 0 \/ x > s.max THEN x ELSE s.max]
    BY <1>2 DEF Added
  <1>10. s.buckets = c /\ s.sum = Total(v) /\ s.count = Cardinality(DOMAIN v)
    <2>1. CASE DOMAIN v = {}
      <3>1. s = [buckets |-> [b \in 1..(Len(bounds) + 1) |-> 0], sum |-> 0, count |-> 0,
                 min |-> None, max |-> None]
        BY <1>4, <2>1 DEF StateOf, Empty
      <3>2. \A b \in DOMAIN c : c[b] = 0
        <4>1. \A b : {j \in DOMAIN v : Inside(bounds, b, v[j])} = {}
          BY <2>1
        <4> QED BY <1>5, <4>1, FS_EmptySet
      <3>3. c = [b \in 1..(Len(bounds) + 1) |-> 0]
        <4>1. c = [b \in 1..(Len(bounds) + 1) |-> c[b]]
          BY <1>5
        <4> QED BY ONLY <1>6, <3>2, <4>1
      <3> QED BY <2>1, <3>1, <3>3, ExtendsTotal
    <2>2. CASE DOMAIN v # {}
      <3>1. s = [buckets |-> c, sum |-> Total(v), count |-> Cardinality(DOMAIN v),
                 min |-> Min(Range(v)), max |-> Max(Range(v))]
        BY <1>4, <1>5, <2>2, AggregateOf DEF StateOf
      <3> QED BY ONLY <3>1
    <2> QED BY <2>1, <2>2
  <1>11. /\ Min(Range(u)) = IF s.count = 0 \/ x < s.min THEN x ELSE s.min
         /\ Max(Range(u)) = IF s.count = 0 \/ x > s.max THEN x ELSE s.max
    <2>1. CASE DOMAIN v = {}
      <3>1. Range(u) = {x}
        <4>1. Range(u) = Range(v) \cup {x}
          BY <1>1, ExtendsRange
        <4>2. Range(v) = {}
          BY ONLY <2>1 DEF Range
        <4> QED BY ONLY <4>1, <4>2
      <3>2. Min({x}) = x /\ Max({x}) = x
        <4>1. {x} # {} /\ {x} \subseteq Nat /\ {x} \subseteq Int /\ IsFiniteSet({x})
          BY FS_Singleton
        <4>2. Min({x}) \in {x} /\ Max({x}) \in {x}
          BY ONLY <4>1, MinLeast, MaxGreatest
        <4> QED BY <4>2
      <3>3. s.count = 0
        BY <1>10, <2>1, ExtendsTotal
      <3> QED BY ONLY <3>1, <3>2, <3>3
    <2>2. CASE DOMAIN v # {}
      <3>1. s.count # 0 /\ s.min = Min(Range(v)) /\ s.max = Max(Range(v))
        BY <1>4, <1>10, <2>2, ExtendsTotal, AggregateOf DEF StateOf
      <3>2. Range(u) = Range(v) \cup {x} /\ Range(v) # {} /\ Range(v) \subseteq Nat /\ IsFiniteSet(Range(v))
        BY <1>1, <2>2, ExtendsRange
      <3>3. /\ Min(Range(v) \cup {x}) = IF x < Min(Range(v)) THEN x ELSE Min(Range(v))
            /\ Max(Range(v) \cup {x}) = IF x > Max(Range(v)) THEN x ELSE Max(Range(v))
        BY <3>2, MinAdds, MaxAdds
      <3> QED BY ONLY <3>1, <3>2, <3>3
    <2> QED BY <2>1, <2>2
  <1> HIDE DEF Counts
  <1> QED BY <1>1, <1>4, <1>7, <1>8, <1>9, <1>10, <1>11, ExtendsTotal

LEMMA AggregateAdds ==
  ASSUME NEW kind \in Kinds, NEW bounds, InOrder(bounds), Values # {},
         NEW v, NEW u, NEW n, Extends(v, u, n)
  PROVE  Aggregate(kind, bounds, u) = Added(kind, bounds, StateOf(kind, bounds, v), u[n])
  <1>1. CASE kind = "counter"
    <2>1. PICK x \in Int : x = u[n]
      BY DEF Extends
    <2>2. PICK y \in Int : y = Total(v)
      BY ExtendsTotal
    <2>3. Aggregate(kind, bounds, u) = AsI64(y + x)
      BY <1>1, <2>1, <2>2, AggregateOf, ExtendsTotal
    <2>4. StateOf(kind, bounds, v) = IF DOMAIN v = {} THEN y ELSE AsI64(y)
      BY <1>1, <2>2, AggregateOf, ExtendsTotal DEF StateOf, Empty
    <2>5. 2 ^ Width \in Nat \ {0}
      BY WidthCounts
    <2>6. AsI64(y + AsI64(x)) = AsI64(y + x) /\ AsI64(AsI64(y) + AsI64(x)) = AsI64(y + x)
      BY <2>5, WrapAdds
    <2> QED BY <1>1, <2>1, <2>3, <2>4, <2>6 DEF Added
  <1>2. CASE kind = "gauge"
    <2>1. Max(DOMAIN u) = n
      <3>1. DOMAIN u \in SUBSET Nat /\ n \in DOMAIN u /\ \A y \in DOMAIN u : y <= n
        BY DEF Extends
      <3> QED BY ONLY <3>1, MaxIs
    <2> QED BY <1>2, <2>1, AggregateOf DEF Added
  <1>3. CASE kind = "histogram"
    BY <1>3, HistogramAdds
  <1> QED BY <1>1, <1>2, <1>3 DEF Kinds

\* The boundaries of an instrument rise.
LEMMA SortedInOrder ==
  ASSUME NEW bounds \in Seq(Int)
  PROVE  InOrder(Sorted(bounds))
  <1>1. PICK R : R = Range(bounds)
    OBVIOUS
  <1>2. IsFiniteSet(R) /\ R \subseteq Int
    <2>1. PICK n \in Nat : n = Len(bounds) /\ DOMAIN bounds = 1..n
      OBVIOUS
    <2>2. bounds \in Surjection(1..n, R)
      BY <1>1, <2>1 DEF Surjection, Range
    <2>3. R \subseteq Int
      BY <1>1 DEF Range
    <2> QED BY <2>1, <2>2, <2>3, FS_Interval, FS_Surjection
  <1>3. PICK n \in Nat : n = Cardinality(R)
    BY <1>2, FS_CardinalityType
  <1>4. \E s \in [1..n -> R] : \A b, c \in 1..n : b < c => s[b] < s[c]
    BY <1>2, <1>3, RisingExists
  <1>5. Sorted(bounds) = CHOOSE s \in [1..n -> R] : \A b, c \in 1..n : b < c => s[b] < s[c]
    BY <1>1, <1>3 DEF Sorted
  <1>6. PICK s : s = Sorted(bounds)
    OBVIOUS
  <1>7. s \in [1..n -> R] /\ \A b, c \in 1..n : b < c => s[b] < s[c]
    BY <1>4, <1>5, <1>6, Zenon
  <1>8. DOMAIN s = 1..n /\ s \in Seq(Int)
    <2>1. s \in [1..n -> Int]
      BY ONLY <1>2, <1>7
    <2> QED BY ONLY <2>1, n \in Nat
  <1> QED BY <1>6, <1>7, <1>8 DEF InOrder

-----------------------------------------------------------------------------
(***************************************************************************)
(* What was measured.  The inductive invariant of the properties of the    *)
(* data relates an entry, the exemplar in it and the points of a snapshot  *)
(* to the places, among those recorded, of the measurements they hold.     *)
(***************************************************************************)
Places(rec, m, key, n) == {j \in 1..n : rec[j].metric = m /\ Hash[rec[j].attrs] = key}
ValuesAt(rec, m, key, n) == [j \in Places(rec, m, key, n) |-> rec[j].value]

EntryFields == {"attrs", "exemplar", "state"}

\* The table is one to one with the instruments, each of its metric's kind.
Handles ==
  /\ \A m, x \in DOMAIN table : table[m] = table[x] => m = x
  /\ \A i \in DOMAIN instruments : \E m \in DOMAIN table : table[m] = i
  /\ \A m \in DOMAIN table : instruments[table[m]].kind = m[1]
  /\ \A i \in DOMAIN instruments : InOrder(instruments[i].bounds)

\* A thread's handle is its metric's, and the entry it has read is still there.
ThreadOk(t) ==
  /\ threads[t].pc \in {"ready", "locking", "locked"} =>
       threads[t].metric \in DOMAIN table /\ threads[t].handle = table[threads[t].metric]
  /\ threads[t].pc \in {"locking", "locked"} =>
       threads[t].measurement.value \in Values /\ threads[t].measurement.exemplar \in BOOLEAN
  /\ threads[t].pc = "locked" => threads[t].measurement.entry = Entry(t)

Recorded ==
  \A j \in DOMAIN recorded :
    /\ recorded[j].metric \in DOMAIN table
    /\ recorded[j].attrs \in AttrSets /\ recorded[j].value \in Values

\* An entry is there if anything was recorded for it, and holds all of that.
EntryWhole(ins, rec, m, key) ==
  LET v == ValuesAt(rec, m, key, Len(rec)) IN
  IF key \in DOMAIN ins.data
    THEN /\ DOMAIN ins.data[key] = EntryFields /\ DOMAIN v # {}
         /\ ins.data[key].state = Aggregate(m[1], ins.bounds, v)
    ELSE DOMAIN v = {}

Entries ==
  \A m \in DOMAIN table, key \in Range(Hash) :
    EntryWhole(instruments[table[m]], recorded, m, key)

\* An exemplar in an entry belongs to it and was not reported.
FreshIn(e, rec, rep, m, key) ==
  e # None => e \in Places(rec, m, key, Len(rec)) /\ rec[e].exemplar /\ e \notin rep

Fresh ==
  /\ reported \subseteq DOMAIN recorded
  /\ \A m \in DOMAIN table : \A key \in DOMAIN instruments[table[m]].data :
       FreshIn(instruments[table[m]].data[key].exemplar, recorded, reported, m, key)

\* A data point holds all that was recorded for it up to a moment.
PointWhole(p, point, ins, tab, rec) ==
  /\ point.upTo \in 0..Len(rec)
  /\ \E m \in DOMAIN tab :
       /\ tab[m] = p[1]
       /\ point.state = Aggregate(m[1], ins[p[1]].bounds, ValuesAt(rec, m, p[2], point.upTo))

\* The instruments of these kinds, and of this one, are in the snapshot.
Visited(at, left, kind, i) ==
  \/ at = "gauge" /\ kind = "counter"
  \/ at = "histogram" /\ kind \in {"counter", "gauge"}
  \/ at = kind /\ i \notin left

Slot(tab, r) == <<tab[r.metric], Hash[r.attrs]>>

Collecting ==
  /\ DOMAIN since = {"this", "last"}
  /\ since.this \in 0..Len(recorded) /\ since.last \in 0..Len(recorded)
  /\ collector.at \notin Kinds => snapshot = <<>> /\ collector.left = {}
  /\ \A p \in DOMAIN snapshot : PointWhole(p, snapshot[p], instruments, table, recorded)
  /\ \A p \in DOMAIN snapshot : since.this <= snapshot[p].upTo
  /\ collector.at \in Kinds =>
       \A j \in 1..since.this :
         Visited(collector.at, collector.left, recorded[j].metric[1], table[recorded[j].metric])
           => Slot(table, recorded[j]) \in DOMAIN snapshot
  /\ \A p \in DOMAIN last : PointWhole(p, last[p], instruments, table, recorded)
  /\ \A j \in 1..since.last :
       /\ Slot(table, recorded[j]) \in DOMAIN last
       /\ j <= last[Slot(table, recorded[j])].upTo

DInv ==
  /\ Handles /\ (\A t \in Threads : ThreadOk(t))
  /\ Recorded /\ Entries /\ Fresh /\ Collecting

LEMMA InitDInv == Init => DInv
  <1> SUFFICES ASSUME Init PROVE DInv
    OBVIOUS
  <1>1. DOMAIN <<>> = {} /\ Len(<<>>) = 0
    OBVIOUS
  <1>2. /\ DOMAIN instruments = {} /\ DOMAIN table = {} /\ DOMAIN recorded = {}
        /\ reported = {} /\ DOMAIN snapshot = {} /\ DOMAIN last = {}
    BY <1>1 DEF Init
  <1>3. Handles /\ Recorded /\ Entries /\ Fresh
    BY <1>2 DEF Handles, Recorded, Entries, Fresh
  <1>4. \A t \in Threads : ThreadOk(t)
    BY DEF Init, Idle, ThreadOk
  <1>5. Collecting
    <2>1. collector.at \notin Kinds /\ snapshot = <<>> /\ collector.left = {} /\ since.this = 0 /\ since.last = 0
          /\ DOMAIN since = {"this", "last"} /\ recorded = <<>>
      BY DEF Init, Rest, Kinds
    <2> QED BY <1>1, <1>2, <2>1 DEF Collecting
  <1> QED BY <1>3, <1>4, <1>5 DEF DInv

\* What was recorded stays, at its place.
LEMMA PlacesKept ==
  ASSUME NEW rec, IsSeq(rec), NEW new, new = rec \/ \E r : new = Append(rec, r),
         NEW m, NEW key, NEW n \in 0..Len(rec)
  PROVE  /\ Places(new, m, key, n) = Places(rec, m, key, n)
         /\ ValuesAt(new, m, key, n) = ValuesAt(rec, m, key, n)
  <1>1. Len(rec) \in Nat /\ DOMAIN rec = 1..Len(rec)
    BY SeqShape
  <1>2. \A j \in 1..n : new[j] = rec[j]
    BY <1>1, SeqAppend
  <1>3. Places(new, m, key, n) = Places(rec, m, key, n)
    BY <1>2 DEF Places
  <1>4. \A j \in Places(rec, m, key, n) : new[j] = rec[j]
    BY <1>2 DEF Places
  <1> QED BY ONLY <1>3, <1>4 DEF ValuesAt

Appended(rec, r, new) == IsSeq(rec) /\ new = Append(rec, r)

LEMMA PlacesAdded ==
  ASSUME NEW rec, NEW r, NEW new, Appended(rec, r, new), NEW m, NEW key
  PROVE  /\ r.metric = m /\ Hash[r.attrs] = key =>
              Places(new, m, key, Len(new)) = Places(rec, m, key, Len(rec)) \cup {Len(new)}
         /\ r.metric # m \/ Hash[r.attrs] # key =>
              Places(new, m, key, Len(new)) = Places(rec, m, key, Len(rec))
         /\ Len(new) = Len(rec) + 1 /\ new[Len(new)] = r
  <1>1. PICK n \in Nat : n = Len(rec) /\ DOMAIN rec = 1..n
    BY SeqShape DEF Appended
  <1>2. Len(new) = n + 1 /\ new[n + 1] = r /\ \A j \in 1..n : new[j] = rec[j]
    BY <1>1, SeqAppend DEF Appended
  <1>3. 1..(n + 1) = 1..n \cup {n + 1} /\ n + 1 \notin 1..n
    OBVIOUS
  <1>4. /\ r.metric = m /\ Hash[r.attrs] = key =>
             Places(new, m, key, n + 1) = Places(rec, m, key, n) \cup {n + 1}
        /\ r.metric # m \/ Hash[r.attrs] # key =>
             Places(new, m, key, n + 1) = Places(rec, m, key, n)
    BY ONLY <1>2, <1>3 DEF Places
  <1> QED BY <1>1, <1>2, <1>4

\* An entry nothing happens to, and one that a measurement is added to.
LEMMA EntryKept ==
  ASSUME NEW ins, NEW jns, NEW rec, NEW new, NEW m, NEW key, EntryWhole(ins, rec, m, key),
         ValuesAt(new, m, key, Len(new)) = ValuesAt(rec, m, key, Len(rec)),
         jns.bounds = ins.bounds, key \in DOMAIN jns.data <=> key \in DOMAIN ins.data,
         key \in DOMAIN ins.data =>
           /\ DOMAIN jns.data[key] = DOMAIN ins.data[key]
           /\ jns.data[key].state = ins.data[key].state
  PROVE  EntryWhole(jns, new, m, key)
  BY DEF EntryWhole

\* The state that Record adds to.
StateIn(ins, kind, key) ==
  IF key \in DOMAIN ins.data THEN ins.data[key].state ELSE Empty(kind, ins.bounds)

LEMMA EntryAdded ==
  ASSUME NEW ins, NEW jns, NEW rec, NEW r, NEW new, Appended(rec, r, new),
         \A j \in DOMAIN rec : rec[j].value \in Values,
         NEW m, m[1] \in Kinds, NEW key, NEW state,
         r.metric = m, Hash[r.attrs] = key, r.value \in Values,
         EntryWhole(ins, rec, m, key), InOrder(ins.bounds),
         state = StateIn(ins, m[1], key),
         jns.bounds = ins.bounds, key \in DOMAIN jns.data, DOMAIN jns.data[key] = EntryFields,
         jns.data[key].state = Added(m[1], ins.bounds, state, r.value)
  PROVE  EntryWhole(jns, new, m, key)
  <1>1. PICK n \in Nat : n = Len(rec) /\ DOMAIN rec = 1..n
    BY SeqShape DEF Appended
  <1>2. PICK v : v = ValuesAt(rec, m, key, n)
    OBVIOUS
  <1>3. PICK u : u = ValuesAt(new, m, key, n + 1)
    OBVIOUS
  <1>4. Len(new) = n + 1 /\ new[n + 1] = r /\ \A j \in 1..n : new[j] = rec[j]
    BY <1>1, SeqAppend DEF Appended
  <1>5. Places(new, m, key, n + 1) = Places(rec, m, key, n) \cup {n + 1}
    <2>1. Places(new, m, key, Len(new)) = Places(rec, m, key, Len(rec)) \cup {Len(new)}
      BY PlacesAdded
    <2> QED BY <1>1, <1>4, <2>1
  <1>6. DOMAIN v = Places(rec, m, key, n) /\ DOMAIN u = DOMAIN v \cup {n + 1}
    BY <1>2, <1>3, <1>5 DEF ValuesAt
  <1>7. DOMAIN v \subseteq 1..n
    BY <1>6 DEF Places
  <1>8. \A j \in DOMAIN v : v[j] = rec[j].value /\ u[j] = rec[j].value
    BY <1>2, <1>3, <1>4, <1>6, <1>7 DEF ValuesAt
  <1>9. u[n + 1] = r.value
    BY <1>3, <1>4, <1>6 DEF ValuesAt
  <1>10. Values \subseteq Nat
    BY RegistryAssumption
  <1>11. Extends(v, u, n + 1)
    <2>1. IsFiniteSet(DOMAIN v)
      <3>1. IsFiniteSet(1..n)
        BY FS_Interval
      <3> QED BY <1>7, <3>1, FS_Subset
    <2>2. /\ DOMAIN v \subseteq Nat /\ n + 1 \in Nat /\ \A j \in DOMAIN v : j < n + 1
      BY ONLY <1>7, n \in Nat
    <2>3. /\ u[n + 1] \in Nat
          /\ \A j \in DOMAIN v : v[j] \in Nat /\ u[j] = v[j]
      BY <1>1, <1>7, <1>8, <1>9, <1>10
    <2> QED BY <1>6, <2>1, <2>2, <2>3 DEF Extends
  <1>12. state = StateOf(m[1], ins.bounds, v)
    BY <1>1, <1>2 DEF EntryWhole, StateOf, StateIn
  <1>13. Aggregate(m[1], ins.bounds, u) = Added(m[1], ins.bounds, state, r.value)
    <2>1. Values # {}
      OBVIOUS
    <2>2. Aggregate(m[1], ins.bounds, u) =
            Added(m[1], ins.bounds, StateOf(m[1], ins.bounds, v), u[n + 1])
      BY <1>11, <2>1, AggregateAdds
    <2> QED BY <1>9, <1>12, <2>2
  <1>14. ValuesAt(new, m, key, Len(new)) = u /\ DOMAIN u # {}
    BY <1>3, <1>4, <1>6
  <1> QED BY <1>13, <1>14 DEF EntryWhole

\* What every step keeps.
Grows ==
  /\ \A m \in DOMAIN table : m \in DOMAIN table' /\ table'[m] = table[m]
  /\ \A i \in DOMAIN instruments :
       i \in DOMAIN instruments' /\ instruments'[i].bounds = instruments[i].bounds
  /\ recorded' = recorded \/ \E r : recorded' = Append(recorded, r)

\* What a step keeps that only locks, warns or poisons.
DataKept ==
  /\ UNCHANGED <<table, recorded>> /\ DOMAIN instruments' = DOMAIN instruments
  /\ \A i \in DOMAIN instruments :
       /\ instruments'[i].kind = instruments[i].kind
       /\ instruments'[i].bounds = instruments[i].bounds
       /\ instruments'[i].data = instruments[i].data

LEMMA DataKeptGrows ==
  ASSUME DataKept
  PROVE  Grows
  BY DEF DataKept, Grows

LEMMA RegistryKept ==
  ASSUME RInv, DInv, DataKept, UNCHANGED reported
  PROVE  Handles' /\ Recorded' /\ Entries' /\ Fresh'
  <1>1. \A m \in DOMAIN table : table[m] \in DOMAIN instruments
    BY DEF RInv, TypeOK
  <1>2. Handles'
    <2> USE DEF DataKept, DInv, Handles
    <2>1. (\A m, x \in DOMAIN table : table[m] = table[x] => m = x)'
      OBVIOUS
    <2>2. (\A i \in DOMAIN instruments : \E m \in DOMAIN table : table[m] = i)'
      OBVIOUS
    <2>3. (\A m \in DOMAIN table : instruments[table[m]].kind = m[1])'
      BY <1>1
    <2>4. (\A i \in DOMAIN instruments : InOrder(instruments[i].bounds))'
      OBVIOUS
    <2> QED BY <2>1, <2>2, <2>3, <2>4
  <1>3. Recorded'
    BY DEF DataKept, DInv, Recorded
  <1>4. Entries'
    <2> SUFFICES ASSUME NEW m \in DOMAIN table, NEW key \in Range(Hash)
                 PROVE  EntryWhole(instruments'[table[m]], recorded, m, key)
      BY DEF DataKept, Entries
    <2>1. EntryWhole(instruments[table[m]], recorded, m, key)
      BY DEF DInv, Entries
    <2> QED BY <1>1, <2>1, EntryKept DEF DataKept
  <1>5. Fresh'
    BY <1>1 DEF DataKept, DInv, Fresh
  <1> QED BY <1>2, <1>3, <1>4, <1>5

\* A thread that does not step; no other touches what it has locked.
LEMMA ThreadKept ==
  ASSUME RInv, Grows, NEW t \in Threads, ThreadOk(t), threads'[t] = threads[t],
         threads[t].pc = "locked" =>
           /\ instruments'[threads[t].handle].data = instruments[threads[t].handle].data
           /\ instruments'[threads[t].handle].kind = instruments[threads[t].handle].kind
  PROVE  ThreadOk(t)'
  <1>1. ASSUME threads[t].pc = "locked" PROVE Entry(t)' = Entry(t)
    <2>1. threads[t].handle \in DOMAIN instruments
      BY <1>1 DEF RInv, TypeOK
    <2> QED BY <1>1, <2>1 DEF Grows, Entry, Known, Key, Mine
  <1> QED BY <1>1 DEF Grows, ThreadOk

\* The points of a snapshot stay what they are while the registry grows.
LEMMA PointKept ==
  ASSUME RInv, Grows, NEW p, NEW point, PointWhole(p, point, instruments, table, recorded)
  PROVE  PointWhole(p, point, instruments', table', recorded')
  <1>1. PICK m \in DOMAIN table :
          /\ table[m] = p[1]
          /\ point.state = Aggregate(m[1], instruments[p[1]].bounds,
                                     ValuesAt(recorded, m, p[2], point.upTo))
    BY DEF PointWhole
  <1>2. table'[m] = p[1] /\ m \in DOMAIN table' /\ instruments'[p[1]].bounds = instruments[p[1]].bounds
    BY <1>1 DEF Grows, RInv, TypeOK
  <1>3. point.upTo \in 0..Len(recorded) /\ IsSeq(recorded)
    BY DEF PointWhole, RInv, CountShape
  <1>4. ValuesAt(recorded', m, p[2], point.upTo) = ValuesAt(recorded, m, p[2], point.upTo)
    BY <1>3, PlacesKept DEF Grows
  <1>5. point.upTo \in 0..Len(recorded')
    <2>1. Len(recorded) \in Nat /\ Len(recorded') \in {Len(recorded), Len(recorded) + 1}
      BY <1>3, SeqShape, SeqAppend DEF Grows
    <2> QED BY ONLY <1>3, <2>1
  <1> QED BY <1>1, <1>2, <1>4, <1>5 DEF PointWhole

\* So does the slot of what was recorded.
LEMMA SlotKept ==
  ASSUME RInv, DInv, Grows, NEW j \in DOMAIN recorded
  PROVE  /\ recorded'[j] = recorded[j] /\ recorded[j].metric \in DOMAIN table
         /\ table'[recorded[j].metric] = table[recorded[j].metric]
         /\ Slot(table', recorded'[j]) = Slot(table, recorded[j])
         /\ j \in DOMAIN recorded'
  <1>1. recorded'[j] = recorded[j] /\ j \in DOMAIN recorded'
    BY SeqAppend DEF RInv, CountShape, Grows
  <1>2. recorded[j].metric \in DOMAIN table
    BY DEF DInv, Recorded
  <1> QED BY <1>1, <1>2 DEF Grows, Slot

LEMMA LengthGrows ==
  ASSUME RInv, Grows
  PROVE  /\ Len(recorded) \in Nat /\ Len(recorded') \in Nat /\ Len(recorded) <= Len(recorded')
         /\ DOMAIN recorded = 1..Len(recorded)
  <1>1. Len(recorded) \in Nat /\ DOMAIN recorded = 1..Len(recorded) /\ IsSeq(recorded)
    BY SeqShape DEF RInv, CountShape
  <1>2. Len(recorded') \in {Len(recorded), Len(recorded) + 1}
    BY <1>1, SeqAppend DEF Grows
  <1> QED BY ONLY <1>1, <1>2

LEMMA CollectingKept ==
  ASSUME RInv, DInv, Grows, UNCHANGED collectVars
  PROVE  Collecting'
  <1>1. UNCHANGED <<collector, snapshot, last, since>>
    BY DEF collectVars
  <1>2. /\ Len(recorded) \in Nat /\ Len(recorded') \in Nat /\ Len(recorded) <= Len(recorded')
        /\ DOMAIN recorded = 1..Len(recorded)
    BY LengthGrows
  <1>3. Collecting
    BY DEF DInv
  <1>4. (\A p \in DOMAIN snapshot : PointWhole(p, snapshot[p], instruments, table, recorded))'
    BY <1>1, <1>3, PointKept DEF Collecting
  <1>5. (\A p \in DOMAIN last : PointWhole(p, last[p], instruments, table, recorded))'
    BY <1>1, <1>3, PointKept DEF Collecting
  <1>6. since.this \in 0..Len(recorded) /\ since.last \in 0..Len(recorded)
    BY <1>3 DEF Collecting
  <1>7. since'.this \in 0..Len(recorded') /\ since'.last \in 0..Len(recorded')
    BY ONLY <1>1, <1>2, <1>6
  <1>8. 1..since.this \subseteq DOMAIN recorded /\ 1..since.last \subseteq DOMAIN recorded
    BY ONLY <1>2, <1>6
  <1>9. (collector.at \in Kinds =>
           \A j \in 1..since.this :
             Visited(collector.at, collector.left, recorded[j].metric[1], table[recorded[j].metric])
               => Slot(table, recorded[j]) \in DOMAIN snapshot)'
    <2> SUFFICES ASSUME collector.at \in Kinds, NEW j \in 1..since.this,
                        Visited(collector.at, collector.left, recorded'[j].metric[1],
                                table'[recorded'[j].metric])
                 PROVE  Slot(table', recorded'[j]) \in DOMAIN snapshot
      BY <1>1
    <2>1. recorded'[j] = recorded[j] /\ table'[recorded[j].metric] = table[recorded[j].metric]
          /\ Slot(table', recorded'[j]) = Slot(table, recorded[j])
      BY <1>8, SlotKept
    <2> QED BY <1>3, <2>1 DEF Collecting
  <1>10. (\A j \in 1..since.last :
            /\ Slot(table, recorded[j]) \in DOMAIN last
            /\ j <= last[Slot(table, recorded[j])].upTo)'
    <2> SUFFICES ASSUME NEW j \in 1..since.last
                 PROVE  /\ Slot(table', recorded'[j]) \in DOMAIN last
                        /\ j <= last[Slot(table', recorded'[j])].upTo
      BY <1>1
    <2>1. Slot(table', recorded'[j]) = Slot(table, recorded[j])
      BY <1>8, SlotKept
    <2> QED BY <1>3, <2>1 DEF Collecting
  <1>11. (collector.at \notin Kinds => snapshot = <<>> /\ collector.left = {})' /\ DOMAIN since' = {"this", "last"}
         /\ (\A p \in DOMAIN snapshot : since.this <= snapshot[p].upTo)'
    BY <1>1, <1>3 DEF Collecting
  <1> QED BY <1>4, <1>5, <1>7, <1>9, <1>10, <1>11 DEF Collecting

-----------------------------------------------------------------------------
(***************************************************************************)
(* The steps that lock, warn or poison, and nothing more.                  *)
(***************************************************************************)
LEMMA QuietStep ==
  ASSUME RInv, DInv, DataKept, UNCHANGED collectVars, NEW t \in Threads,
         \A u \in Threads : u # t => threads'[u] = threads[u], ThreadOk(t)'
  PROVE  DInv'
  <1>1. Handles' /\ Recorded' /\ Entries' /\ Fresh'
    BY RegistryKept DEF collectVars
  <1>2. Grows
    BY DataKeptGrows
  <1>3. Collecting'
    BY <1>2, CollectingKept
  <1>4. ASSUME NEW u \in Threads PROVE ThreadOk(u)'
    <2>1. threads[u].pc = "locked" => threads[u].handle \in DOMAIN instruments
      BY DEF RInv, TypeOK
    <2> QED BY <1>2, <2>1, ThreadKept DEF DInv, DataKept
  <1> QED BY <1>1, <1>3, <1>4 DEF DInv

\* A thread that holds no mutex steps, and the instruments stay.
LEMMA LookupData ==
  ASSUME RInv, DInv, NEW t \in Threads, NEW m \in Metrics, Lookup(t, m)
  PROVE  DInv'
  <1>1. /\ UNCHANGED <<instruments, table, collectVars, recorded>>
        /\ \A u \in Threads : u # t => threads'[u] = threads[u]
        /\ threads'[t].metric = m
        /\ \/ threads'[t].pc = "ready" /\ m \in DOMAIN table /\ threads'[t].handle = table[m]
           \/ threads'[t].pc = "create"
    BY DEF Lookup, registryVars, RInv, ThreadShape, ThreadFields
  <1>2. DataKept
    BY <1>1 DEF DataKept
  <1>3. ThreadOk(t)'
    BY <1>1 DEF ThreadOk
  <1> QED BY <1>1, <1>2, <1>3, QuietStep

LEMMA CaptureData ==
  ASSUME RInv, DInv, NEW t \in Threads, NEW attrs \in AttrSets, NEW v \in Values,
         NEW exemplar \in BOOLEAN, Capture(t, attrs, v, exemplar)
  PROVE  DInv'
  <1>1. /\ UNCHANGED <<instruments, table, collectVars, recorded>>
        /\ threads[t].pc = "ready"
        /\ \A u \in Threads : u # t => threads'[u] = threads[u]
        /\ threads'[t].metric = threads[t].metric /\ threads'[t].handle = threads[t].handle
        /\ threads'[t].pc = "locking"
        /\ threads'[t].measurement = [attrs |-> attrs, value |-> v, exemplar |-> exemplar, entry |-> <<>>,
                                     refused |-> FALSE]
    BY DEF Capture, registryVars, RInv, ThreadShape, ThreadFields
  <1>2. DataKept
    BY <1>1 DEF DataKept
  <1>3. threads'[t].measurement.value = v /\ threads'[t].measurement.exemplar = exemplar
    BY <1>1
  <1>4. ThreadOk(t)
    BY DEF DInv
  <1>5. ThreadOk(t)'
    BY <1>1, <1>3, <1>4 DEF ThreadOk
  <1> QED BY <1>1, <1>2, <1>5, QuietStep

\* An instrument that keeps its data, in the place of the one it was.
LEMMA UpdateKeeps ==
  ASSUME RInv, NEW h \in DOMAIN instruments, NEW i, i.kind = instruments[h].kind,
         i.bounds = instruments[h].bounds, i.data = instruments[h].data,
         instruments' = [instruments EXCEPT ![h] = i], UNCHANGED <<table, recorded>>
  PROVE  DataKept
  <1>1. /\ DOMAIN instruments' = DOMAIN instruments /\ instruments'[h] = i
        /\ \A j \in DOMAIN instruments : j # h => instruments'[j] = instruments[j]
    BY SeqUpdate DEF RInv, InstrumentShape
  <1> QED BY <1>1 DEF DataKept

LEMMA LockData ==
  ASSUME RInv, DInv, NEW t \in Threads, Lock(t)
  PROVE  DInv'
  <1> DEFINE h == threads[t].handle
  <1>1. /\ threads[t].pc = "locking" /\ h \in DOMAIN instruments
        /\ UNCHANGED <<table, collectVars, recorded>>
    BY DEF Lock, RInv, TypeOK
  <1>2. CASE Mine(t).poisoned
    <2>1. /\ UNCHANGED instruments
          /\ \A u \in Threads : u # t => threads'[u] = threads[u]
          /\ threads'[t].pc = "panicked"
      BY <1>2 DEF Lock, RInv, ThreadShape, ThreadFields
    <2>2. DataKept /\ ThreadOk(t)'
      BY <1>1, <2>1 DEF DataKept, ThreadOk
    <2> QED BY <1>1, <2>1, <2>2, QuietStep
  <1>3. CASE ~Mine(t).poisoned
    <2>1. /\ \A u \in Threads : u # t => threads'[u] = threads[u]
          /\ threads'[t].pc = "locked" /\ threads'[t].handle = h
          /\ threads'[t].metric = threads[t].metric
          /\ threads'[t].measurement.attrs = threads[t].measurement.attrs
          /\ threads'[t].measurement.value = threads[t].measurement.value
          /\ threads'[t].measurement.exemplar = threads[t].measurement.exemplar
          /\ threads'[t].measurement.entry = Entry(t)
      BY <1>3 DEF Lock, Looked, RInv, ThreadShape, ThreadFields, MeasurementFields
    <2> DEFINE i == [instruments[h] EXCEPT !.holder = t]
    <2>2. instruments' = [instruments EXCEPT ![h] = i]
      BY <1>3 DEF Lock
    <2>3. i.kind = instruments[h].kind /\ i.data = instruments[h].data /\ i.bounds = instruments[h].bounds
      BY <1>1 DEF RInv, InstrumentShape, InstrumentFields
    <2> HIDE DEF i
    <2>4. DataKept
      BY <1>1, <2>2, <2>3, UpdateKeeps
    <2>5. Entry(t)' = Entry(t)
      BY <1>1, <2>1, <2>4 DEF DataKept, Entry, Known, Key, Mine
    <2>6. ThreadOk(t)
      BY DEF DInv
    <2>7. ThreadOk(t)'
      BY <1>1, <2>1, <2>5, <2>6 DEF ThreadOk
    <2> QED BY <1>1, <2>1, <2>4, <2>7, QuietStep
  <1> QED BY <1>2, <1>3

\* A way out of the critical section that records nothing.
LEMMA DropData ==
  ASSUME RInv, DInv, NEW t \in Threads, threads[t].pc = "locked", NEW pc \in {"ready", "panicked"},
         NEW i, i.kind = Mine(t).kind, i.bounds = Mine(t).bounds, i.data = Mine(t).data,
         instruments' = [instruments EXCEPT ![threads[t].handle] = i], threads' = Done(t, pc),
         UNCHANGED <<table, collectVars, recorded>>
  PROVE  DInv'
  <1>1. threads[t].handle \in DOMAIN instruments
    BY MineShape
  <1>2. DataKept
    BY <1>1, UpdateKeeps DEF Mine
  <1>3. /\ \A u \in Threads : u # t => threads'[u] = threads[u]
        /\ threads'[t].pc = pc /\ threads'[t].handle = threads[t].handle
        /\ threads'[t].metric = threads[t].metric
    BY DEF Done, RInv, ThreadShape, ThreadFields
  <1>4. ThreadOk(t)
    BY DEF DInv
  <1>5. ThreadOk(t)'
    BY <1>3, <1>4 DEF ThreadOk
  <1> QED BY <1>2, <1>3, <1>5, QuietStep

LEMMA RefuseData ==
  ASSUME RInv, DInv, NEW t \in Threads, Refuse(t)
  PROVE  DInv'
  <1> DEFINE i == [[Mine(t) EXCEPT !.warned = TRUE] EXCEPT !.holder = Nobody]
  <1>1. threads[t].pc = "locked"
    BY DEF Refuse
  <1>2. i.kind = Mine(t).kind /\ i.bounds = Mine(t).bounds /\ i.data = Mine(t).data
    BY <1>1, MineShape DEF InstrumentFields
  <1>3. instruments' = [instruments EXCEPT ![threads[t].handle] = i]
    BY DEF Refuse, Unlocked
  <1> HIDE DEF i
  <1>4. threads' = Done(t, "ready") /\ UNCHANGED <<table, collectVars, recorded>>
    BY DEF Refuse
  <1> QED BY <1>1, <1>2, <1>3, <1>4, DropData

LEMMA PanicData ==
  ASSUME RInv, DInv, NEW t \in Threads, Panic(t)
  PROVE  DInv'
  <1> DEFINE i == [[Mine(t) EXCEPT !.poisoned = TRUE] EXCEPT !.holder = Nobody]
  <1>1. threads[t].pc = "locked"
    BY DEF Panic
  <1>2. i.kind = Mine(t).kind /\ i.bounds = Mine(t).bounds /\ i.data = Mine(t).data
    BY <1>1, MineShape DEF InstrumentFields
  <1>3. instruments' = [instruments EXCEPT ![threads[t].handle] = i]
    BY DEF Panic, Unlocked
  <1> HIDE DEF i
  <1>4. threads' = Done(t, "panicked") /\ UNCHANGED <<table, collectVars, recorded>>
    BY DEF Panic
  <1> QED BY <1>1, <1>2, <1>3, <1>4, DropData

-----------------------------------------------------------------------------
(***************************************************************************)
(* The steps that create an instrument and that record a measurement.      *)
(***************************************************************************)
LEMMA CreateData ==
  ASSUME RInv, DInv, NEW t \in Threads, NEW bounds \in Boundaries, Create(t, bounds)
  PROVE  DInv'
  <1> DEFINE m == threads[t].metric
  <1>1. /\ m \in Metrics /\ UNCHANGED <<collectVars, recorded>>
        /\ \A u \in Threads : u # t => threads'[u] = threads[u]
        /\ threads'[t].metric = m /\ threads'[t].pc = "ready" /\ threads'[t].handle = table'[m]
    BY DEF Create, RInv, ThreadShape, ThreadFields
  <1>2. CASE m \in DOMAIN table
    <2>1. UNCHANGED <<instruments, table>>
      BY <1>2 DEF Create, registryVars
    <2>2. DataKept
      BY <1>1, <2>1 DEF DataKept
    <2>3. ThreadOk(t)'
      BY <1>1, <1>2, <2>1 DEF ThreadOk
    <2> QED BY <1>1, <2>2, <2>3, QuietStep
  <1>3. CASE m \notin DOMAIN table
    <2> DEFINE n == Len(instruments) + 1
               i == New(m, bounds)
    <2>1. /\ instruments' = Append(instruments, i)
          /\ table' = [x \in DOMAIN table \cup {m} |-> IF x = m THEN n ELSE table[x]]
      BY <1>3 DEF Create
    <2>2. i.data = <<>> /\ i.kind = m[1] /\ i.bounds = Sorted(bounds)
      BY DEF New
    <2>3. InOrder(i.bounds)
      BY <2>2, SortedInOrder, RegistryAssumption
    <2> HIDE DEF i
    <2>4. IsSeq(instruments)
      BY DEF RInv, InstrumentShape
    <2> HIDE DEF m
    <2>5. /\ DOMAIN instruments' = DOMAIN instruments \cup {n}
          /\ instruments'[n] = i /\ \A j \in DOMAIN instruments : instruments'[j] = instruments[j]
          /\ n \notin DOMAIN instruments
      BY <2>1, <2>4, SeqAppend
    <2>6. /\ DOMAIN table' = DOMAIN table \cup {m} /\ table'[m] = n
          /\ \A x \in DOMAIN table : table'[x] = table[x] /\ table[x] \in DOMAIN instruments /\ x # m
      BY <1>3, <2>1 DEF RInv, TypeOK
    <2> HIDE DEF n
    <2>7. Grows
      BY <1>1, <2>5, <2>6 DEF Grows
    <2>8. Handles'
      <3>1. Handles
        BY DEF DInv
      <3>2. (\A x, y \in DOMAIN table : table[x] = table[y] => x = y)'
        BY <2>5, <2>6, <3>1 DEF Handles
      <3>3. (\A j \in DOMAIN instruments : \E x \in DOMAIN table : table[x] = j)'
        BY <2>5, <2>6, <3>1 DEF Handles
      <3>4. (\A x \in DOMAIN table : instruments[table[x]].kind = x[1])'
        BY <2>2, <2>5, <2>6, <3>1 DEF Handles
      <3>5. (\A j \in DOMAIN instruments : InOrder(instruments[j].bounds))'
        BY <2>3, <2>5, <3>1 DEF Handles
      <3> QED BY <3>2, <3>3, <3>4, <3>5 DEF Handles
    <2>9. Recorded'
      BY <1>1, <2>6 DEF DInv, Recorded
    <2>10. DOMAIN i.data = {}
      BY <2>2
    <2>11. Entries'
      <3> SUFFICES ASSUME NEW x \in DOMAIN table', NEW key \in Range(Hash)
                   PROVE  EntryWhole(instruments'[table'[x]], recorded, x, key)
        BY <1>1 DEF Entries
      <3>1. CASE x = m
        <4>1. \A j \in DOMAIN recorded : recorded[j].metric # m
          BY <1>3 DEF DInv, Recorded
        <4>2. DOMAIN recorded = 1..Len(recorded)
          BY SeqShape DEF RInv, CountShape
        <4>3. Places(recorded, m, key, Len(recorded)) = {}
          BY <4>1, <4>2 DEF Places
        <4>4. DOMAIN ValuesAt(recorded, m, key, Len(recorded)) = {}
          BY <4>3 DEF ValuesAt
        <4>5. instruments'[table'[x]] = i
          BY <2>5, <2>6, <3>1
        <4> QED BY <2>10, <3>1, <4>4, <4>5 DEF EntryWhole
      <3>2. CASE x # m
        <4>1. x \in DOMAIN table /\ instruments'[table'[x]] = instruments[table[x]]
          BY <2>5, <2>6, <3>2
        <4> QED BY <4>1 DEF DInv, Entries
      <3> QED BY <3>1, <3>2
    <2>12. Fresh'
      <3>1. Fresh /\ UNCHANGED <<reported, recorded>>
        BY <1>1 DEF DInv, collectVars
      <3> SUFFICES ASSUME NEW x \in DOMAIN table', NEW key \in DOMAIN instruments'[table'[x]].data
                   PROVE  FreshIn(instruments'[table'[x]].data[key].exemplar, recorded, reported, x, key)
        BY <3>1 DEF Fresh
      <3>2. x # m
        BY <2>5, <2>6, <2>10
      <3>3. x \in DOMAIN table /\ instruments'[table'[x]] = instruments[table[x]]
        BY <2>5, <2>6, <3>2
      <3> QED BY <3>1, <3>3 DEF Fresh
    <2>13. Collecting'
      BY <1>1, <2>7, CollectingKept
    <2>14. ASSUME NEW u \in Threads PROVE ThreadOk(u)'
      <3>1. CASE u = t
        BY <1>1, <2>6, <3>1 DEF ThreadOk, m
      <3>2. CASE u # t
        <4>1. threads'[u] = threads[u] /\ ThreadOk(u)
          BY <1>1, <3>2 DEF DInv
        <4>2. threads[u].pc = "locked" => threads[u].handle \in DOMAIN instruments
          BY DEF RInv, TypeOK
        <4> QED BY <2>5, <2>7, <4>1, <4>2, ThreadKept
      <3> QED BY <3>1, <3>2
    <2> QED BY <2>8, <2>9, <2>11, <2>12, <2>13, <2>14 DEF DInv
  <1> QED BY <1>2, <1>3

\* What Record(t) does, in parts: the measurement, the entry and the instrument.
LEMMA RecordParts ==
  ASSUME RInv, DInv, NEW t \in Threads, Record(t)
  PROVE  \E r, e :
           /\ recorded' = Append(recorded, r) /\ r.metric = threads[t].metric
           /\ r.attrs = threads[t].measurement.attrs /\ r.value = threads[t].measurement.value
           /\ r.exemplar = threads[t].measurement.exemplar
           /\ DOMAIN e = EntryFields
           /\ e.state = Added(Mine(t).kind, Mine(t).bounds, Entry(t).state, r.value)
           /\ e.exemplar = IF r.exemplar THEN Len(recorded) + 1 ELSE Entry(t).exemplar
           /\ DOMAIN instruments' = DOMAIN instruments
           /\ \A j \in DOMAIN instruments : j # threads[t].handle => instruments'[j] = instruments[j]
           /\ instruments'[threads[t].handle].kind = Mine(t).kind
           /\ instruments'[threads[t].handle].bounds = Mine(t).bounds
           /\ instruments'[threads[t].handle].data =
                [k \in DOMAIN Mine(t).data \cup {Key(t)} |-> IF k = Key(t) THEN e ELSE Mine(t).data[k]]
  <1> DEFINE m == threads[t].measurement
  <1>1. threads[t].pc = "locked"
    BY DEF Record
  <1>2. threads[t].handle \in DOMAIN instruments /\ DOMAIN Mine(t) = InstrumentFields
    BY <1>1, MineShape
  <1>3. m.entry = Entry(t)
    BY <1>1 DEF DInv, ThreadOk
  <1>4. DOMAIN Entry(t) = EntryFields
    <2>1. CASE Known(t)
      <3>1. /\ threads[t].metric \in DOMAIN table /\ threads[t].handle = table[threads[t].metric]
            /\ Key(t) \in Range(Hash)
        BY <1>1, MineShape DEF DInv, ThreadOk
      <3>2. EntryWhole(Mine(t), recorded, threads[t].metric, Key(t))
        BY <3>1 DEF DInv, Entries, Mine
      <3> QED BY <2>1, <3>2 DEF EntryWhole, Entry, Known
    <2>2. CASE ~Known(t)
      BY <2>2 DEF Entry, EntryFields
    <2> QED BY <2>1, <2>2
  <1> DEFINE r == [metric |-> threads[t].metric, attrs |-> m.attrs, value |-> m.value,
                   exemplar |-> m.exemplar]
             e == [m.entry EXCEPT !.state = Added(Mine(t).kind, Mine(t).bounds, @, m.value),
                                  !.exemplar = IF m.exemplar THEN Len(recorded) + 1 ELSE @]
             data == [k \in DOMAIN Mine(t).data \cup {Key(t)} |->
                        IF k = Key(t) THEN e ELSE Mine(t).data[k]]
             i == [[Mine(t) EXCEPT !.data = data] EXCEPT !.holder = Nobody]
  <1>5. recorded' = Append(recorded, r)
    BY DEF Record
  <1>6. instruments' = [instruments EXCEPT ![threads[t].handle] = i]
    <2>1. "data" \in DOMAIN Mine(t)
      BY <1>2 DEF InstrumentFields
    <2> QED BY <2>1 DEF Record, Unlocked
  <1>7. /\ DOMAIN e = EntryFields
        /\ e.state = Added(Mine(t).kind, Mine(t).bounds, Entry(t).state, m.value)
        /\ e.exemplar = IF m.exemplar THEN Len(recorded) + 1 ELSE Entry(t).exemplar
    BY <1>3, <1>4 DEF EntryFields
  <1>8. i.kind = Mine(t).kind /\ i.bounds = Mine(t).bounds /\ i.data = data
    BY <1>2 DEF InstrumentFields
  <1> HIDE DEF i
  <1>9. /\ DOMAIN instruments' = DOMAIN instruments /\ instruments'[threads[t].handle] = i
        /\ \A j \in DOMAIN instruments : j # threads[t].handle => instruments'[j] = instruments[j]
    BY <1>2, <1>6, SeqUpdate DEF RInv, InstrumentShape
  <1> HIDE DEF e
  <1> QED
    <2>1. /\ r.metric = threads[t].metric /\ r.attrs = m.attrs /\ r.value = m.value
          /\ r.exemplar = m.exemplar
      OBVIOUS
    <2>2. instruments'[threads[t].handle].data = data
      BY <1>8, <1>9
    <2> HIDE DEF r
    <2> WITNESS r, e
    <2> QED BY <1>5, <1>7, <1>8, <1>9, <2>1, <2>2

\* A measurement of another metric or set changes no values of this one's.
LEMMA ValuesApart ==
  ASSUME NEW rec, NEW r, NEW new, Appended(rec, r, new), NEW m, NEW key,
         r.metric # m \/ Hash[r.attrs] # key
  PROVE  ValuesAt(new, m, key, Len(new)) = ValuesAt(rec, m, key, Len(rec))
  <1>1. Places(new, m, key, Len(new)) = Places(rec, m, key, Len(rec))
    BY PlacesAdded
  <1>2. \A j \in Places(rec, m, key, Len(rec)) : new[j] = rec[j]
    <2>1. \A j \in 1..Len(rec) : new[j] = rec[j]
      BY SeqShape, SeqAppend DEF Appended
    <2> QED BY <2>1 DEF Places
  <1> QED BY ONLY <1>1, <1>2 DEF ValuesAt

\* An exemplar stays fresh when a measurement is added.
LEMMA FreshKept ==
  ASSUME NEW rec, NEW r, NEW new, Appended(rec, r, new), NEW rep, NEW m, NEW key, NEW e,
         FreshIn(e, rec, rep, m, key)
  PROVE  FreshIn(e, new, rep, m, key)
  <1>1. PICK n \in Nat : n = Len(rec) /\ DOMAIN rec = 1..n
    BY SeqShape DEF Appended
  <1>2. Len(new) = n + 1 /\ \A j \in 1..n : new[j] = rec[j]
    BY <1>1, SeqAppend DEF Appended
  <1> SUFFICES ASSUME e # None
               PROVE  e \in Places(new, m, key, Len(new)) /\ new[e].exemplar /\ e \notin rep
    BY DEF FreshIn
  <1>3. e \in Places(rec, m, key, n) /\ rec[e].exemplar /\ e \notin rep
    BY <1>1 DEF FreshIn
  <1>4. e \in 1..n /\ rec[e].metric = m /\ Hash[rec[e].attrs] = key
    BY <1>3 DEF Places
  <1>5. new[e] = rec[e] /\ e \in 1..(n + 1)
    BY <1>2, <1>4
  <1> QED BY <1>2, <1>3, <1>4, <1>5 DEF Places

LEMMA RecordData ==
  ASSUME RInv, DInv, NEW t \in Threads, Record(t)
  PROVE  DInv'
  <1>1. PICK h, m, key :
          h = threads[t].handle /\ m = threads[t].metric /\ key = Key(t)
    OBVIOUS
  <1>2. PICK ins, jns : ins = Mine(t) /\ jns = instruments'[h]
    OBVIOUS
  <1>3. threads[t].pc = "locked" /\ UNCHANGED <<table, collectVars>> /\ threads' = Done(t, "ready")
    BY DEF Record
  <1>4. PICK r, e :
           /\ recorded' = Append(recorded, r) /\ r.metric = m
           /\ r.attrs = threads[t].measurement.attrs /\ r.value = threads[t].measurement.value
           /\ r.exemplar = threads[t].measurement.exemplar
           /\ DOMAIN e = EntryFields
           /\ e.state = Added(ins.kind, ins.bounds, Entry(t).state, r.value)
           /\ e.exemplar = IF r.exemplar THEN Len(recorded) + 1 ELSE Entry(t).exemplar
           /\ DOMAIN instruments' = DOMAIN instruments
           /\ \A j \in DOMAIN instruments : j # h => instruments'[j] = instruments[j]
           /\ jns.kind = ins.kind /\ jns.bounds = ins.bounds
           /\ jns.data = [k \in DOMAIN ins.data \cup {key} |-> IF k = key THEN e ELSE ins.data[k]]
    <2>1. PICK r, e :
            /\ recorded' = Append(recorded, r) /\ r.metric = threads[t].metric
            /\ r.attrs = threads[t].measurement.attrs /\ r.value = threads[t].measurement.value
            /\ r.exemplar = threads[t].measurement.exemplar
            /\ DOMAIN e = EntryFields
            /\ e.state = Added(Mine(t).kind, Mine(t).bounds, Entry(t).state, r.value)
            /\ e.exemplar = IF r.exemplar THEN Len(recorded) + 1 ELSE Entry(t).exemplar
            /\ DOMAIN instruments' = DOMAIN instruments
            /\ \A j \in DOMAIN instruments : j # threads[t].handle => instruments'[j] = instruments[j]
            /\ instruments'[threads[t].handle].kind = Mine(t).kind
            /\ instruments'[threads[t].handle].bounds = Mine(t).bounds
            /\ instruments'[threads[t].handle].data =
                 [k \in DOMAIN Mine(t).data \cup {Key(t)} |-> IF k = Key(t) THEN e ELSE Mine(t).data[k]]
      BY RecordParts, Zenon
    <2> WITNESS r, e
    <2> QED BY ONLY <1>1, <1>2, <2>1
  <1>5. /\ h \in DOMAIN instruments /\ instruments[h] = ins /\ key \in Range(Hash)
        /\ m \in DOMAIN table /\ table[m] = h /\ m[1] \in Kinds /\ ins.kind = m[1]
        /\ InOrder(ins.bounds)
    <2>1. h \in DOMAIN instruments /\ instruments[h] = ins /\ key \in Range(Hash) /\ ins.kind \in Kinds
      BY <1>1, <1>2, <1>3, MineShape DEF Mine
    <2>2. m \in DOMAIN table /\ table[m] = h
      BY <1>1, <1>3 DEF DInv, ThreadOk
    <2> QED BY <2>1, <2>2 DEF DInv, Handles
  <1>6. r.attrs \in AttrSets /\ r.value \in Values /\ r.exemplar \in BOOLEAN /\ Hash[r.attrs] = key
    <2>1. ThreadOk(t)
      BY DEF DInv
    <2> QED BY <1>1, <1>3, <1>4, <2>1 DEF RInv, ThreadShape, ThreadOk, Key
  <1>7. PICK rec, new : rec = recorded /\ new = recorded'
    OBVIOUS
  <1>8. Appended(rec, r, new) /\ IsSeq(rec)
    BY <1>4, <1>7 DEF Appended, RInv, CountShape
  <1>9. PICK n \in Nat : n = Len(rec) /\ DOMAIN rec = 1..n
    BY <1>8, SeqShape
  <1>10. /\ Len(new) = n + 1 /\ new[n + 1] = r /\ \A j \in 1..n : new[j] = rec[j]
         /\ DOMAIN new = 1..n \cup {n + 1}
    BY <1>8, <1>9, SeqAppend DEF Appended
  <1>11. \A x \in DOMAIN table : table[x] \in DOMAIN instruments /\ (x # m => table[x] # h)
    BY <1>5 DEF RInv, TypeOK, DInv, Handles
  <1>12. \A x \in DOMAIN table : x # m => instruments'[table[x]] = instruments[table[x]]
    BY <1>4, <1>11
  <1>13. instruments'[table[m]] = jns /\ instruments[table[m]] = ins
    BY <1>2, <1>5
  <1>14. Grows
    BY <1>2, <1>3, <1>4, <1>5 DEF Grows
  <1>15. Handles'
    <2>1. Handles
      BY DEF DInv
    <2>2. (\A x, y \in DOMAIN table : table[x] = table[y] => x = y)'
      BY <1>3, <2>1 DEF Handles
    <2>3. (\A j \in DOMAIN instruments : \E x \in DOMAIN table : table[x] = j)'
      BY <1>3, <1>4, <2>1 DEF Handles
    <2>4. (\A x \in DOMAIN table : instruments[table[x]].kind = x[1])'
      BY <1>3, <1>4, <1>5, <1>12, <1>13, <2>1 DEF Handles
    <2>5. (\A j \in DOMAIN instruments : InOrder(instruments[j].bounds))'
      BY <1>2, <1>4, <1>5, <2>1 DEF Handles
    <2> QED BY <2>2, <2>3, <2>4, <2>5 DEF Handles
  <1>16. Recorded'
    <2> SUFFICES ASSUME NEW j \in DOMAIN recorded'
                 PROVE  /\ recorded'[j].metric \in DOMAIN table
                        /\ recorded'[j].attrs \in AttrSets /\ recorded'[j].value \in Values
      BY <1>3 DEF Recorded
    <2>1. CASE j = n + 1
      BY <1>4, <1>5, <1>6, <1>7, <1>10, <2>1
    <2>2. CASE j \in 1..n
      BY <1>7, <1>9, <1>10, <2>2 DEF DInv, Recorded
    <2> QED BY <1>7, <1>10, <2>1, <2>2
  <1>17. Entries'
    <2> SUFFICES ASSUME NEW x \in DOMAIN table, NEW k \in Range(Hash)
                 PROVE  EntryWhole(instruments'[table[x]], new, x, k)
      BY <1>3, <1>7 DEF Entries
    <2>1. EntryWhole(instruments[table[x]], rec, x, k)
      BY <1>7 DEF DInv, Entries
    <2>2. CASE x # m
      <3>1. ValuesAt(new, x, k, Len(new)) = ValuesAt(rec, x, k, Len(rec))
        BY <1>4, <1>8, <2>2, ValuesApart
      <3> QED BY <1>12, <2>1, <2>2, <3>1, EntryKept
    <2>3. CASE x = m /\ k # key
      <3>1. ValuesAt(new, x, k, Len(new)) = ValuesAt(rec, x, k, Len(rec))
        BY <1>6, <1>8, <2>3, ValuesApart
      <3>2. (k \in DOMAIN jns.data <=> k \in DOMAIN ins.data) /\ jns.bounds = ins.bounds
            /\ (k \in DOMAIN ins.data => jns.data[k] = ins.data[k])
        BY <1>4, <2>3
      <3>3. EntryWhole(ins, rec, x, k)
        BY <1>13, <2>1, <2>3
      <3>4. EntryWhole(jns, new, x, k)
        BY <3>1, <3>2, <3>3, EntryKept
      <3> QED BY <1>13, <2>3, <3>4
    <2>4. CASE x = m /\ k = key
      <3>1. EntryWhole(ins, rec, m, key)
        BY <1>13, <2>1, <2>4
      <3>2. PICK state : state = Entry(t).state
        OBVIOUS
      <3>3. state = StateIn(ins, m[1], key)
        BY <1>1, <1>2, <1>5, <3>2 DEF Entry, Known, StateIn
      <3>4. key \in DOMAIN jns.data /\ jns.data[key] = e /\ jns.bounds = ins.bounds
        BY <1>4
      <3>5. DOMAIN jns.data[key] = EntryFields
            /\ jns.data[key].state = Added(m[1], ins.bounds, state, r.value)
        BY <1>4, <1>5, <3>2, <3>4
      <3>6. \A j \in DOMAIN rec : rec[j].value \in Values
        BY <1>7 DEF DInv, Recorded
      <3>7. EntryWhole(jns, new, m, key)
        <4>1. r.metric = m /\ m[1] \in Kinds /\ InOrder(ins.bounds)
          BY <1>4, <1>5
        <4> QED BY ONLY <1>6, <1>8, <3>1, <3>3, <3>4, <3>5, <3>6, <4>1, EntryAdded
      <3> QED BY <1>13, <2>4, <3>7
    <2> QED BY <2>2, <2>3, <2>4
  <1>18. Fresh'
    <2>1. Fresh /\ reported' = reported
      BY <1>3 DEF DInv, collectVars
    <2>2. reported \subseteq 1..n
      BY <1>7, <1>9, <2>1 DEF Fresh
    <2>3. reported' \subseteq DOMAIN recorded'
      BY <1>7, <1>10, <2>1, <2>2
    <2>4. ASSUME NEW x \in DOMAIN table, NEW k \in DOMAIN instruments'[table[x]].data
          PROVE  FreshIn(instruments'[table[x]].data[k].exemplar, new, reported, x, k)
      <3>1. CASE x # m
        BY <1>7, <1>8, <1>12, <2>1, <2>4, <3>1, FreshKept DEF Fresh
      <3>2. CASE x = m /\ k # key
        <4>1. k \in DOMAIN ins.data /\ jns.data[k] = ins.data[k]
          BY <1>4, <1>13, <2>4, <3>2
        <4>2. FreshIn(ins.data[k].exemplar, rec, reported, m, k)
          BY <1>5, <1>7, <1>13, <2>1, <4>1 DEF Fresh
        <4>3. FreshIn(ins.data[k].exemplar, new, reported, m, k)
          BY <1>8, <4>2, FreshKept
        <4> QED BY <1>13, <3>2, <4>1, <4>3
      <3>3. CASE x = m /\ k = key
        <4>1. jns.data[key] = e
          BY <1>4
        <4>2. CASE r.exemplar
          <5>1. e.exemplar = n + 1
            BY <1>4, <1>7, <1>9, <4>2
          <5>2. n + 1 \in Places(new, m, key, Len(new))
            BY <1>4, <1>6, <1>10 DEF Places
          <5>3. FreshIn(n + 1, new, reported, m, key)
            BY <1>10, <2>2, <4>2, <5>2 DEF FreshIn
          <5> QED BY <1>13, <3>3, <4>1, <5>1, <5>3
        <4>3. CASE ~r.exemplar
          <5>1. e.exemplar = IF key \in DOMAIN ins.data THEN ins.data[key].exemplar ELSE None
            BY <1>1, <1>2, <1>4, <4>3 DEF Entry, Known
          <5>2. FreshIn(e.exemplar, rec, reported, m, key)
            BY <1>5, <1>7, <1>13, <2>1, <5>1 DEF Fresh, FreshIn
          <5> QED BY <1>8, <1>13, <3>3, <4>1, <5>2, FreshKept
        <4> QED BY <4>2, <4>3
      <3> QED BY <3>1, <3>2, <3>3
    <2> QED BY <1>3, <1>7, <2>1, <2>3, <2>4 DEF Fresh
  <1>19. Collecting'
    BY <1>3, <1>14, CollectingKept
  <1>20. ASSUME NEW u \in Threads PROVE ThreadOk(u)'
    <2>1. CASE u = t
      <3>1. /\ threads'[t].pc = "ready" /\ threads'[t].metric = m /\ threads'[t].handle = h
        BY <1>1, <1>3 DEF Done, RInv, ThreadShape, ThreadFields
      <3> QED BY <1>3, <1>5, <2>1, <3>1 DEF ThreadOk
    <2>2. CASE u # t
      <3>1. threads'[u] = threads[u] /\ ThreadOk(u)
        BY <1>3, <2>2 DEF Done, DInv, RInv, ThreadShape
      <3>2. threads[u].pc = "locked" =>
              threads[u].handle \in DOMAIN instruments /\ threads[u].handle # h
        BY <1>1, <1>3, <2>2 DEF RInv, TypeOK, OneHolder, Mine
      <3> QED BY <1>4, <1>14, <3>1, <3>2, ThreadKept
    <2> QED BY <2>1, <2>2
  <1> QED BY <1>15, <1>16, <1>17, <1>18, <1>19, <1>20 DEF DInv

-----------------------------------------------------------------------------
(***************************************************************************)
(* The steps of the collector.                                             *)
(***************************************************************************)
LEMMA CollectorData ==
  ASSUME RInv, DInv, UNCHANGED <<instruments, table, threads, recorded, reported>>, Collecting'
  PROVE  DInv'
  <1>1. DataKept
    BY DEF DataKept
  <1>2. Handles' /\ Recorded' /\ Entries' /\ Fresh'
    BY <1>1, RegistryKept
  <1>3. ASSUME NEW t \in Threads PROVE ThreadOk(t)'
    BY <1>1, DataKeptGrows, ThreadKept DEF DInv
  <1> QED BY <1>2, <1>3 DEF DInv

\* What was recorded is in the table, and its instrument among those to visit.
LEMMA VisitAll ==
  ASSUME RInv, DInv, NEW kind \in Kinds, NEW j \in DOMAIN recorded, recorded[j].metric[1] = kind
  PROVE  table[recorded[j].metric] \in Visit(kind).left
  BY DEF DInv, Recorded, Visit

LEMMA CollectBeginData ==
  ASSUME RInv, DInv, CollectBegin
  PROVE  DInv'
  <1>1. /\ UNCHANGED <<instruments, table, threads, recorded, reported, snapshot, last>>
        /\ collector' = Visit("counter") /\ collector.at = "idle"
        /\ since' = [since EXCEPT !.this = Len(recorded)]
    BY DEF CollectBegin, registryVars
  <1>2. Collecting
    BY DEF DInv
  <1>3. snapshot = <<>> /\ DOMAIN snapshot = {}
    BY <1>1, <1>2 DEF Collecting, Kinds
  <1>4. DOMAIN since' = {"this", "last"} /\ since'.this = Len(recorded) /\ since'.last = since.last
    BY <1>1, <1>2 DEF Collecting
  <1>5. Len(recorded) \in Nat /\ DOMAIN recorded = 1..Len(recorded)
    BY SeqShape DEF RInv, CountShape
  <1>6. collector'.at = "counter" /\ "counter" \in Kinds /\ collector'.left = Visit("counter").left
    BY <1>1 DEF Visit, Kinds
  <1>7. ASSUME NEW j \in 1..since'.this
        PROVE  ~Visited(collector'.at, collector'.left, recorded[j].metric[1],
                        table[recorded[j].metric])
    <2>1. j \in DOMAIN recorded
      BY <1>4, <1>5
    <2> QED BY <1>6, <2>1, VisitAll DEF Visited
  <1>8. Collecting'
    <2>1. since'.this \in 0..Len(recorded) /\ since'.last \in 0..Len(recorded)
      BY <1>2, <1>4, <1>5 DEF Collecting
    <2> QED BY <1>1, <1>2, <1>3, <1>4, <1>6, <1>7, <2>1 DEF Collecting
  <1> QED BY <1>1, <1>8, CollectorData

LEMMA CollectPanicData ==
  ASSUME RInv, DInv, NEW i, CollectPanic(i)
  PROVE  DInv'
  <1>1. /\ UNCHANGED <<instruments, table, threads, recorded, reported, last, since>>
        /\ collector' = [at |-> "panicked", left |-> {}] /\ snapshot' = <<>>
    BY DEF CollectPanic, registryVars
  <1>2. collector'.at \notin Kinds /\ collector'.left = {} /\ DOMAIN snapshot' = {}
    BY <1>1 DEF Kinds
  <1>3. Collecting
    BY DEF DInv
  <1>4. Collecting'
    BY <1>1, <1>2, <1>3 DEF Collecting
  <1> QED BY <1>1, <1>4, CollectorData

LEMMA CollectNextData ==
  ASSUME RInv, DInv, CollectNext
  PROVE  DInv'
  <1>1. /\ UNCHANGED <<instruments, table, threads, recorded, reported>>
        /\ collector.at \in Kinds /\ collector.left = {}
    BY DEF CollectNext, registryVars
  <1>2. Collecting
    BY DEF DInv
  <1>3. since.this \in Nat /\ \A j \in 1..since.this : j \in DOMAIN recorded
    <2>1. Len(recorded) \in Nat /\ DOMAIN recorded = 1..Len(recorded)
      BY SeqShape DEF RInv, CountShape
    <2> QED BY <1>2, <2>1 DEF Collecting
  <1>4. ASSUME NEW j \in 1..since.this PROVE recorded[j].metric[1] \in Kinds
    BY <1>3, RegistryAssumption DEF DInv, Recorded, RInv, TypeOK
  <1>5. CASE NextKind(collector.at) = "idle"
    <2>1. /\ collector' = Rest /\ snapshot' = <<>> /\ last' = snapshot
          /\ since' = [since EXCEPT !.last = since.this]
      BY <1>5 DEF CollectNext
    <2>2. collector.at = "histogram"
      BY <1>1, <1>5 DEF NextKind, Kinds
    <2>3. collector'.at \notin Kinds /\ collector'.left = {} /\ DOMAIN snapshot' = {}
      BY <2>1 DEF Rest, Kinds
    <2>4. DOMAIN since' = {"this", "last"} /\ since'.this = since.this /\ since'.last = since.this
      BY <1>2, <2>1 DEF Collecting
    <2>5. ASSUME NEW j \in 1..since.this
          PROVE  /\ Slot(table, recorded[j]) \in DOMAIN snapshot
                 /\ j <= snapshot[Slot(table, recorded[j])].upTo
      <3>1. Visited(collector.at, collector.left, recorded[j].metric[1], table[recorded[j].metric])
        BY <1>1, <1>4, <2>2 DEF Visited, Kinds
      <3>2. Slot(table, recorded[j]) \in DOMAIN snapshot
        BY <1>1, <1>2, <3>1 DEF Collecting
      <3>3. since.this <= snapshot[Slot(table, recorded[j])].upTo
        BY <1>2, <3>2 DEF Collecting
      <3>4. snapshot[Slot(table, recorded[j])].upTo \in 0..Len(recorded)
        BY <1>2, <3>2 DEF Collecting, PointWhole
      <3>5. Len(recorded) \in Nat
        BY SeqShape DEF RInv, CountShape
      <3> QED BY ONLY <1>3, <3>2, <3>3, <3>4, <3>5, j \in 1..since.this
    <2>6. Collecting'
      BY <1>1, <1>2, <2>1, <2>3, <2>4, <2>5 DEF Collecting
    <2> QED BY <1>1, <2>6, CollectorData
  <1>6. CASE NextKind(collector.at) # "idle"
    <2>1. PICK kind \in Kinds : kind = NextKind(collector.at)
      BY <1>6 DEF NextKind, Kinds
    <2>2. /\ collector' = Visit(kind) /\ UNCHANGED <<snapshot, last, since>>
      BY <1>6, <2>1 DEF CollectNext
    <2>3. collector'.at = kind /\ collector'.left = Visit(kind).left
      BY <2>2 DEF Visit
    <2>4. ASSUME NEW j \in 1..since.this,
                 Visited(kind, Visit(kind).left, recorded[j].metric[1], table[recorded[j].metric])
          PROVE  Slot(table, recorded[j]) \in DOMAIN snapshot
      <3>1. recorded[j].metric[1] # kind
        BY <1>3, <2>1, <2>4, VisitAll DEF Visited, Kinds
      <3>2. Visited(collector.at, collector.left, recorded[j].metric[1], table[recorded[j].metric])
        BY <1>1, <2>1, <2>4, <3>1 DEF Visited, NextKind, Kinds
      <3> QED BY <1>1, <1>2, <3>2 DEF Collecting
    <2>5. Collecting'
      BY <1>1, <1>2, <2>1, <2>2, <2>3, <2>4 DEF Collecting
    <2> QED BY <1>1, <2>5, CollectorData
  <1> QED BY <1>5, <1>6

\* What CollectInstrument(i) does to the instrument.
LEMMA CollectParts ==
  ASSUME RInv, NEW i \in DOMAIN instruments, CollectInstrument(i)
  PROVE  /\ DOMAIN instruments' = DOMAIN instruments
         /\ \A j \in DOMAIN instruments : j # i => instruments'[j] = instruments[j]
         /\ instruments'[i].kind = instruments[i].kind
         /\ instruments'[i].bounds = instruments[i].bounds
         /\ instruments'[i].data = [key \in DOMAIN instruments[i].data |->
                                      [instruments[i].data[key] EXCEPT !.exemplar = None]]
  <1> DEFINE data == [key \in DOMAIN instruments[i].data |->
                        [instruments[i].data[key] EXCEPT !.exemplar = None]]
             x == [instruments[i] EXCEPT !.data = data]
  <1>1. DOMAIN instruments[i] = InstrumentFields
    BY DEF RInv, InstrumentShape
  <1>2. instruments' = [instruments EXCEPT ![i] = x]
    <2>1. "data" \in DOMAIN instruments[i]
      BY <1>1 DEF InstrumentFields
    <2> QED BY <2>1 DEF CollectInstrument
  <1>3. x.kind = instruments[i].kind /\ x.bounds = instruments[i].bounds /\ x.data = data
    BY <1>1 DEF InstrumentFields
  <1> HIDE DEF x
  <1>4. /\ DOMAIN instruments' = DOMAIN instruments /\ instruments'[i] = x
        /\ \A j \in DOMAIN instruments : j # i => instruments'[j] = instruments[j]
    BY <1>2, SeqUpdate DEF RInv, InstrumentShape
  <1> QED BY <1>3, <1>4

LEMMA CollectInstrumentData ==
  ASSUME RInv, DInv, NEW i \in DOMAIN instruments, CollectInstrument(i)
  PROVE  DInv'
  <1>1. /\ i \in collector.left /\ instruments[i].holder = Nobody
        /\ snapshot' = WithPoints(i) /\ reported' = reported \cup Exemplars(i)
        /\ collector' = [collector EXCEPT !.left = @ \ {i}]
        /\ UNCHANGED <<table, threads, last, since, recorded>>
    BY DEF CollectInstrument
  <1>2. PICK m \in DOMAIN table : table[m] = i
    BY DEF DInv, Handles
  <1>3. PICK ins, jns : ins = instruments[i] /\ jns = instruments'[i]
    OBVIOUS
  <1>4. /\ DOMAIN instruments' = DOMAIN instruments
        /\ \A j \in DOMAIN instruments : j # i => instruments'[j] = instruments[j]
        /\ jns.kind = ins.kind /\ jns.bounds = ins.bounds
        /\ jns.data = [key \in DOMAIN ins.data |-> [ins.data[key] EXCEPT !.exemplar = None]]
    BY <1>3, CollectParts
  <1>5. \A x \in DOMAIN table : table[x] \in DOMAIN instruments /\ (x # m => table[x] # i)
    BY <1>2 DEF RInv, TypeOK, DInv, Handles
  <1>6. \A x \in DOMAIN table : x # m => instruments'[table[x]] = instruments[table[x]]
    BY <1>4, <1>5
  <1>7. Grows
    BY <1>1, <1>3, <1>4 DEF Grows
  <1>8. DOMAIN ins.data \subseteq Range(Hash)
    BY <1>3 DEF RInv, TypeOK
  <1>9. ASSUME NEW key \in DOMAIN ins.data
        PROVE  /\ DOMAIN ins.data[key] = EntryFields /\ DOMAIN jns.data[key] = EntryFields
               /\ jns.data[key].state = ins.data[key].state /\ jns.data[key].exemplar = None
               /\ ins.data[key].state = Aggregate(m[1], ins.bounds,
                                                  ValuesAt(recorded, m, key, Len(recorded)))
    <2>1. EntryWhole(ins, recorded, m, key)
      BY <1>2, <1>3, <1>8 DEF DInv, Entries
    <2>2. /\ DOMAIN ins.data[key] = EntryFields
          /\ ins.data[key].state = Aggregate(m[1], ins.bounds,
                                             ValuesAt(recorded, m, key, Len(recorded)))
      BY <2>1 DEF EntryWhole
    <2>3. jns.data[key] = [ins.data[key] EXCEPT !.exemplar = None]
      BY <1>4
    <2>4. /\ DOMAIN jns.data[key] = EntryFields /\ jns.data[key].exemplar = None
          /\ jns.data[key].state = ins.data[key].state
      BY ONLY <2>2, <2>3 DEF EntryFields
    <2> QED BY <2>2, <2>4
  <1>10. Handles'
    <2>1. Handles
      BY DEF DInv
    <2>2. (\A x, y \in DOMAIN table : table[x] = table[y] => x = y)'
      BY <1>1, <2>1 DEF Handles
    <2>3. (\A j \in DOMAIN instruments : \E x \in DOMAIN table : table[x] = j)'
      BY <1>1, <1>4, <2>1 DEF Handles
    <2>4. (\A x \in DOMAIN table : instruments[table[x]].kind = x[1])'
      BY <1>1, <1>2, <1>3, <1>4, <1>6, <2>1 DEF Handles
    <2>5. (\A j \in DOMAIN instruments : InOrder(instruments[j].bounds))'
      BY <1>3, <1>4, <2>1 DEF Handles
    <2> QED BY <2>2, <2>3, <2>4, <2>5 DEF Handles
  <1>11. Recorded'
    BY <1>1 DEF DInv, Recorded
  <1>12. Entries'
    <2> SUFFICES ASSUME NEW x \in DOMAIN table, NEW key \in Range(Hash)
                 PROVE  EntryWhole(instruments'[table[x]], recorded, x, key)
      BY <1>1 DEF Entries
    <2>1. EntryWhole(instruments[table[x]], recorded, x, key)
      BY DEF DInv, Entries
    <2>2. CASE x # m
      BY <1>6, <2>1, <2>2
    <2>3. CASE x = m
      <3>1. EntryWhole(ins, recorded, m, key)
        BY <1>2, <1>3, <2>1, <2>3
      <3>2. key \in DOMAIN jns.data <=> key \in DOMAIN ins.data
        BY <1>4
      <3>3. jns.bounds = ins.bounds
        BY <1>4
      <3>4. key \in DOMAIN ins.data =>
              /\ DOMAIN jns.data[key] = DOMAIN ins.data[key]
              /\ jns.data[key].state = ins.data[key].state
        BY <1>9
      <3>5. EntryWhole(jns, recorded, m, key)
        BY ONLY <3>1, <3>2, <3>3, <3>4, EntryKept
      <3> QED BY <1>2, <1>3, <2>3, <3>5
    <2> QED BY <2>2, <2>3
  <1>13. Fresh'
    <2>1. Fresh
      BY DEF DInv
    <2>2. \A e \in Exemplars(i) :
            e \in DOMAIN recorded /\ recorded[e].metric = m
      <3> SUFFICES ASSUME NEW key \in DOMAIN ins.data, ins.data[key].exemplar # None
                   PROVE  /\ ins.data[key].exemplar \in DOMAIN recorded
                          /\ recorded[ins.data[key].exemplar].metric = m
        BY <1>3 DEF Exemplars
      <3>1. FreshIn(ins.data[key].exemplar, recorded, reported, m, key)
        BY <1>2, <1>3, <2>1 DEF Fresh
      <3>2. DOMAIN recorded = 1..Len(recorded)
        BY SeqShape DEF RInv, CountShape
      <3> QED BY <3>1, <3>2 DEF FreshIn, Places
    <2>3. reported' \subseteq DOMAIN recorded'
      BY <1>1, <2>1, <2>2 DEF Fresh
    <2>4. ASSUME NEW x \in DOMAIN table, NEW key \in DOMAIN instruments'[table[x]].data
          PROVE  FreshIn(instruments'[table[x]].data[key].exemplar, recorded, reported', x, key)
      <3>1. CASE x = m
        <4>1. key \in DOMAIN ins.data /\ instruments'[table[x]] = jns
          BY <1>2, <1>3, <1>4, <2>4, <3>1
        <4> QED BY <1>9, <4>1 DEF FreshIn
      <3>2. CASE x # m
        <4>1. PICK e : e = instruments[table[x]].data[key].exemplar
          OBVIOUS
        <4>2. instruments'[table[x]].data[key].exemplar = e /\ key \in DOMAIN instruments[table[x]].data
          BY <1>6, <2>4, <3>2, <4>1
        <4>3. FreshIn(e, recorded, reported, x, key)
          BY <2>1, <4>1, <4>2 DEF Fresh
        <4>4. e # None => recorded[e].metric = x
          BY <4>3 DEF FreshIn, Places
        <4>5. e # None => e \notin Exemplars(i)
          BY <2>2, <3>2, <4>4
        <4>6. FreshIn(e, recorded, reported', x, key)
          BY <1>1, <4>3, <4>5 DEF FreshIn
        <4> QED BY <4>2, <4>6
      <3> QED BY <3>1, <3>2
    <2> QED BY <1>1, <2>3, <2>4 DEF Fresh
  <1>14. ASSUME NEW t \in Threads PROVE ThreadOk(t)'
    <2>1. threads[t].pc = "locked" => threads[t].handle \in DOMAIN instruments /\ threads[t].handle # i
      BY <1>1, RegistryAssumption DEF RInv, TypeOK, OneHolder, Mine
    <2> QED BY <1>1, <1>4, <1>7, <2>1, ThreadKept DEF DInv
  <1>15. Collecting'
    <2>1. Collecting /\ DOMAIN collector = {"at", "left"}
      BY DEF DInv, RInv, CollectorShape
    <2>2. collector'.at = collector.at /\ collector'.left = collector.left \ {i} /\ collector.at \in Kinds
      BY <1>1, <2>1 DEF Collecting
    <2>3. Len(recorded) \in Nat /\ DOMAIN recorded = 1..Len(recorded)
      BY SeqShape DEF RInv, CountShape
    <2>4. since.this \in 0..Len(recorded)
      BY <2>1 DEF Collecting
    <2>5. /\ DOMAIN snapshot' = DOMAIN snapshot \cup {<<i, key>> : key \in DOMAIN ins.data}
          /\ \A p \in DOMAIN snapshot : snapshot'[p] = snapshot[p]
          /\ \A key \in DOMAIN ins.data :
               <<i, key>> \notin DOMAIN snapshot =>
                 /\ snapshot'[<<i, key>>].state = ins.data[key].state
                 /\ snapshot'[<<i, key>>].upTo = Len(recorded)
      <3>1. PICK pts : pts = Points(i)
        OBVIOUS
      <3>2. DOMAIN pts = {<<i, key>> : key \in DOMAIN ins.data}
        <4>1. DOMAIN pts = {i} \X DOMAIN ins.data
          BY <1>3, <3>1 DEF Points
        <4>2. {i} \X DOMAIN ins.data = {<<i, key>> : key \in DOMAIN ins.data}
          OBVIOUS
        <4> QED BY ONLY <4>1, <4>2
      <3>3. \A key \in DOMAIN ins.data :
              pts[<<i, key>>] = [state |-> ins.data[key].state, upTo |-> Len(recorded)]
        BY <1>3, <3>1 DEF Points
      <3>4. snapshot' = [p \in DOMAIN snapshot \cup DOMAIN pts |->
                           IF p \in DOMAIN snapshot THEN snapshot[p] ELSE pts[p]]
        BY <1>1, <3>1 DEF WithPoints
      <3>5. DOMAIN snapshot' = DOMAIN snapshot \cup {<<i, key>> : key \in DOMAIN ins.data}
        BY ONLY <3>2, <3>4
      <3>6. \A p \in DOMAIN snapshot : snapshot'[p] = snapshot[p]
        BY ONLY <3>4
      <3>7. ASSUME NEW key \in DOMAIN ins.data, <<i, key>> \notin DOMAIN snapshot
            PROVE  /\ snapshot'[<<i, key>>].state = ins.data[key].state
                   /\ snapshot'[<<i, key>>].upTo = Len(recorded)
        <4>1. <<i, key>> \in DOMAIN pts
          BY <3>2
        <4>2. snapshot'[<<i, key>>] = pts[<<i, key>>]
          BY ONLY <3>4, <3>7, <4>1
        <4>3. snapshot'[<<i, key>>] = [state |-> ins.data[key].state, upTo |-> Len(recorded)]
          BY <3>3, <4>2
        <4> QED BY ONLY <4>3
      <3> QED BY ONLY <3>5, <3>6, <3>7
    <2>6. ASSUME NEW p \in DOMAIN snapshot'
          PROVE  /\ PointWhole(p, snapshot'[p], instruments', table', recorded')
                 /\ since.this <= snapshot'[p].upTo
      <3>1. CASE p \in DOMAIN snapshot
        <4>1. PointWhole(p, snapshot[p], instruments, table, recorded) /\ since.this <= snapshot[p].upTo
          BY <2>1, <3>1 DEF Collecting
        <4> QED BY <1>7, <2>5, <3>1, <4>1, PointKept
      <3>2. CASE p \notin DOMAIN snapshot
        <4>1. PICK key \in DOMAIN ins.data : p = <<i, key>>
          BY <2>5, <3>2
        <4>2. snapshot'[p].state = ins.data[key].state /\ snapshot'[p].upTo = Len(recorded)
          BY <2>5, <3>2, <4>1
        <4>3. p[1] = i /\ p[2] = key
          BY <4>1
        <4>4. snapshot'[p].state = Aggregate(m[1], instruments[p[1]].bounds,
                                             ValuesAt(recorded, m, p[2], snapshot'[p].upTo))
          BY <1>3, <1>9, <4>2, <4>3
        <4>5. PointWhole(p, snapshot'[p], instruments, table, recorded)
          BY <1>2, <2>3, <4>2, <4>3, <4>4 DEF PointWhole
        <4>6. since.this <= snapshot'[p].upTo
          BY ONLY <2>3, <2>4, <4>2
        <4> QED BY <1>7, <4>5, <4>6, PointKept
      <3> QED BY <3>1, <3>2
    <2>7. ASSUME NEW p \in DOMAIN last
          PROVE  PointWhole(p, last[p], instruments', table', recorded')
      BY <1>7, <2>1, PointKept DEF Collecting
    <2>8. ASSUME NEW j \in 1..since.this,
                 Visited(collector.at, collector.left \ {i}, recorded[j].metric[1],
                         table[recorded[j].metric])
          PROVE  Slot(table, recorded[j]) \in DOMAIN snapshot'
      <3>1. j \in DOMAIN recorded
        BY ONLY <2>3, <2>4, j \in 1..since.this
      <3>2. CASE table[recorded[j].metric] = i
        <4>1. recorded[j].metric = m /\ recorded[j].attrs \in AttrSets
          BY <1>5, <3>1, <3>2 DEF DInv, Recorded
        <4>2. PICK key : key = Hash[recorded[j].attrs]
          OBVIOUS
        <4>3. key \in Range(Hash)
          BY <4>1, <4>2, RegistryAssumption DEF Range
        <4>4. j \in DOMAIN ValuesAt(recorded, m, key, Len(recorded))
          BY <2>3, <3>1, <4>1, <4>2 DEF ValuesAt, Places
        <4>5. EntryWhole(ins, recorded, m, key)
          BY <1>2, <1>3, <4>3 DEF DInv, Entries
        <4>6. key \in DOMAIN ins.data
          BY <4>4, <4>5 DEF EntryWhole
        <4> QED BY <2>5, <3>2, <4>2, <4>6 DEF Slot
      <3>3. CASE table[recorded[j].metric] # i
        <4>1. Visited(collector.at, collector.left, recorded[j].metric[1], table[recorded[j].metric])
          BY <2>8, <3>3 DEF Visited
        <4>2. Slot(table, recorded[j]) \in DOMAIN snapshot
          BY <2>1, <2>2, <4>1 DEF Collecting
        <4> QED BY <2>5, <4>2
      <3> QED BY <3>2, <3>3
    <2> QED BY <1>1, <2>1, <2>2, <2>6, <2>7, <2>8 DEF Collecting
  <1> QED BY <1>10, <1>11, <1>12, <1>13, <1>14, <1>15 DEF DInv

-----------------------------------------------------------------------------
(***************************************************************************)
(* The theorems about the data.                                            *)
(***************************************************************************)
LEMMA DInvStep == RInv /\ DInv /\ [Next]_vars => DInv'
  <1> SUFFICES ASSUME RInv, DInv, [Next]_vars PROVE DInv'
    OBVIOUS
  <1>1. ASSUME NEW t \in Threads, NEW m \in Metrics, Lookup(t, m) PROVE DInv'
    BY <1>1, LookupData
  <1>2. ASSUME NEW t \in Threads, NEW bounds \in Boundaries, Create(t, bounds) PROVE DInv'
    BY <1>2, CreateData
  <1>3. ASSUME NEW t \in Threads, Measure(t) PROVE DInv'
    BY <1>3, CaptureData DEF Measure
  <1>4. ASSUME NEW t \in Threads, Lock(t) PROVE DInv'
    BY <1>4, LockData
  <1>5. ASSUME NEW t \in Threads, Leave(t) PROVE DInv'
    BY <1>5, RefuseData, RecordData, PanicData DEF Leave
  <1>6. ASSUME CollectBegin \/ Take \/ CollectNext PROVE DInv'
    BY <1>6, CollectBeginData, CollectInstrumentData, CollectPanicData, CollectNextData DEF Take
  <1>7. ASSUME Terminated \/ UNCHANGED vars PROVE DInv'
    <2>1. UNCHANGED <<instruments, table, threads, recorded, reported, collectVars>>
      BY <1>7 DEF Terminated, vars, registryVars, collectVars
    <2>2. Collecting'
      BY <2>1, CollectingKept DEF Grows
    <2> QED BY <2>1, <2>2, CollectorData
  <1> QED BY <1>1, <1>2, <1>3, <1>4, <1>5, <1>6, <1>7 DEF Next

\* The invariant of the data holds in every reachable state of the registry.
THEOREM DataInvariance == Spec => [](RInv /\ DInv)
  <1>1. Init => RInv /\ DInv
    BY InitRInv, InitDInv
  <1>2. RInv /\ DInv /\ [Next]_vars => (RInv /\ DInv)'
    BY RInvStep, DInvStep
  <1> QED BY <1>1, <1>2, PTL DEF Spec

\* src/metrics.rs:419-449, 469-499, 530-578: no measurement is lost or counted twice,
\* whoever created the metric and however the threads and collect() interleave.
THEOREM EntriesAggregate == Spec => []NothingLost
  <1>1. RInv /\ DInv => NothingLost
    <2> SUFFICES ASSUME RInv, DInv, NEW j \in DOMAIN recorded,
                        NEW m, m = recorded[j].metric, NEW key, key = Hash[recorded[j].attrs]
                 PROVE  LET i == instruments[table[m]] IN
                          /\ key \in DOMAIN i.data
                          /\ i.data[key].state =
                               Aggregate(i.kind, i.bounds, ValuesOf(m, key, Len(recorded)))
      BY Zenon DEF NothingLost
    <2>1. PICK i : i = instruments[table[m]]
      OBVIOUS
    <2>2. m \in DOMAIN table /\ recorded[j].attrs \in AttrSets /\ i.kind = m[1]
      BY <2>1 DEF DInv, Recorded, Handles
    <2>3. EntryWhole(i, recorded, m, key)
      <3>1. key \in Range(Hash)
        BY <2>2, RegistryAssumption DEF Range
      <3> QED BY <2>1, <2>2, <3>1 DEF DInv, Entries
    <2>4. j \in DOMAIN ValuesAt(recorded, m, key, Len(recorded))
      BY SeqShape DEF RInv, CountShape, ValuesAt, Places
    <2>5. /\ key \in DOMAIN i.data
          /\ i.data[key].state = Aggregate(m[1], i.bounds, ValuesAt(recorded, m, key, Len(recorded)))
      BY <2>3, <2>4 DEF EntryWhole
    <2>6. ValuesAt(recorded, m, key, Len(recorded)) = ValuesOf(m, key, Len(recorded))
      BY DEF ValuesAt, Places, ValuesOf, Of
    <2> QED BY <2>1, <2>2, <2>5, <2>6
  <1> QED BY <1>1, DataInvariance, PTL

\* src/metrics.rs:426-449: what a thread read of the data, and what it decided of the
\* limit, when it took the mutex is still so when it acts on it: no other thread, and
\* no collect(), touches the data of the instrument in between.
THEOREM Exclusion == Spec => []MutualExclusion
  <1>1. RInv /\ DInv => MutualExclusion
    <2> SUFFICES ASSUME RInv, DInv PROVE MutualExclusion
      OBVIOUS
    <2>1. OneHolder
      BY DEF RInv
    <2>2. ASSUME NEW t \in Threads, threads[t].pc = "locked"
          PROVE  /\ threads[t].measurement.entry = Entry(t)
                 /\ threads[t].measurement.refused = Refused(t)
      <3>1. ThreadOk(t) /\ HeldCheck
        BY DEF DInv, RInv
      <3> QED BY <2>2, <3>1 DEF ThreadOk, HeldCheck
    <2> QED BY <2>1, <2>2 DEF MutualExclusion
  <1> QED BY <1>1, DataInvariance, PTL

\* The sets that were ever recorded of a metric are those its instrument has now.
LEMMA SetsAreEntries ==
  ASSUME RInv, DInv, NEW t \in Threads, threads[t].pc = "locked"
  PROVE  RecordedSets(threads[t].metric) = DOMAIN Mine(t).data
  <1> DEFINE m == threads[t].metric
             Held(key) == Places(recorded, m, key, Len(recorded))
  <1>1. m \in DOMAIN table /\ Mine(t) = instruments[table[m]]
    BY DEF DInv, ThreadOk, Mine
  <1>2. DOMAIN Mine(t).data \subseteq Range(Hash)
    BY MineShape
  <1>3. DOMAIN recorded = 1..Len(recorded)
    BY SeqShape DEF RInv, CountShape
  <1>4. \A key \in Range(Hash) : key \in DOMAIN Mine(t).data <=> Held(key) # {}
    <2> SUFFICES ASSUME NEW key \in Range(Hash)
                 PROVE  key \in DOMAIN Mine(t).data <=> Held(key) # {}
      OBVIOUS
    <2>1. EntryWhole(Mine(t), recorded, m, key)
      BY <1>1 DEF DInv, Entries
    <2>2. DOMAIN ValuesAt(recorded, m, key, Len(recorded)) = Held(key)
      BY DEF ValuesAt
    <2> QED BY <2>1, <2>2 DEF EntryWhole
  <1>5. RecordedSets(m) \subseteq Range(Hash)
    <2>1. \A j \in DOMAIN recorded : recorded[j].attrs \in AttrSets
      BY DEF DInv, Recorded
    <2> QED BY <2>1, RegistryAssumption DEF RecordedSets, Range
  <1>6. \A key : key \in RecordedSets(m) <=> Held(key) # {}
    BY <1>3 DEF RecordedSets, Places
  <1> QED BY <1>2, <1>4, <1>5, <1>6

\* src/metrics.rs:427-440: a measurement is dropped exactly if its attribute set was
\* never recorded under the name and MaxCardinality others were, through whatever handle
\* and by whatever thread: no entry is ever removed, and no instrument replaced.
THEOREM Admitted == Spec => RefusedExactly
  <1> DEFINE Dropped(t) == /\ Key(t) \notin RecordedSets(threads[t].metric)
                           /\ Cardinality(RecordedSets(threads[t].metric)) >= MaxCardinality
             A == \A t \in Threads :
                    threads[t].pc = "locked" /\ threads'[t].pc = "ready" =>
                      (recorded' = recorded <=> Dropped(t))
  <1>1. RInv /\ DInv /\ [Next]_vars => [A]_vars
    <2> SUFFICES ASSUME RInv, DInv, Next, NEW t \in Threads,
                        threads[t].pc = "locked", threads'[t].pc = "ready"
                 PROVE  recorded' = recorded <=> Dropped(t)
      OBVIOUS
    <2>1. ThreadShape /\ IsSeq(recorded)
      BY DEF RInv, CountShape
    <2>2. Dropped(t) <=> Refused(t)
      BY SetsAreEntries DEF Refused, Known
    <2>3. threads[t].measurement.refused = Refused(t)
      BY DEF RInv, HeldCheck
    <2> HIDE DEF Dropped
    <2>4. ASSUME NEW u \in Threads, NEW m \in Metrics, Lookup(u, m) PROVE FALSE
      BY <2>1, <2>4 DEF Lookup, ThreadShape
    <2>5. ASSUME NEW u \in Threads, NEW b \in Boundaries, Create(u, b) PROVE FALSE
      BY <2>1, <2>5 DEF Create, ThreadShape
    <2>6. ASSUME NEW u \in Threads, Measure(u) PROVE FALSE
      BY <2>1, <2>6 DEF Measure, Capture, ThreadShape
    <2>7. ASSUME NEW u \in Threads, Lock(u) PROVE FALSE
      BY <2>1, <2>7 DEF Lock, Looked, ThreadShape
    <2>8. ASSUME NEW u \in Threads, Leave(u) PROVE recorded' = recorded <=> Dropped(t)
      <3>1. u = t
        BY <2>1, <2>8 DEF Leave, Refuse, Record, Panic, Done, ThreadShape
      <3>2. ~Panic(t)
        BY <2>1 DEF Panic, Done, ThreadShape, ThreadFields
      <3>3. CASE Refuse(t)
        BY <2>2, <2>3, <3>3 DEF Refuse
      <3>4. CASE Record(t)
        <4>1. \E x : recorded' = Append(recorded, x)
          BY <3>4 DEF Record
        <4>2. Len(recorded') = Len(recorded) + 1 /\ Len(recorded) \in Nat
          BY <2>1, <4>1, SeqAppend, SeqShape
        <4>3. recorded' # recorded
          BY <4>2
        <4>4. ~Refused(t)
          BY <2>3, <3>4 DEF Record
        <4> QED BY <2>2, <4>3, <4>4
      <3> QED BY <2>8, <3>1, <3>2, <3>3, <3>4 DEF Leave
    <2>9. CASE CollectBegin \/ Take \/ CollectNext \/ Terminated
      BY <2>9 DEF CollectBegin, Take, CollectInstrument, CollectPanic, CollectNext, Terminated, vars
    <2> QED BY <2>4, <2>5, <2>6, <2>7, <2>8, <2>9 DEF Next
  <1> QED BY <1>1, DataInvariance, PTL DEF Spec, RefusedExactly

\* src/metrics.rs:253-256: an exemplar is part of the entry it waits in and is
\* reported once at most, although collect() and the threads race for it.
THEOREM ExemplarsOnce == Spec => []ExemplarsFresh
  <1>1. RInv /\ DInv => ExemplarsFresh
    <2> SUFFICES ASSUME RInv, DInv, NEW m \in DOMAIN table,
                        NEW key \in DOMAIN instruments[table[m]].data,
                        NEW e, e = instruments[table[m]].data[key].exemplar, e # None
                 PROVE  /\ e \in Of(m, key, Len(recorded)) /\ recorded[e].exemplar
                        /\ e \notin reported
      BY DEF ExemplarsFresh
    <2>1. FreshIn(e, recorded, reported, m, key)
      BY DEF DInv, Fresh
    <2> QED BY <2>1 DEF FreshIn, Places, Of
  <1> QED BY <1>1, DataInvariance, PTL

\* src/metrics.rs:249-315: a snapshot has everything that was recorded before collect()
\* began, and each of its points is the aggregate of all that was recorded up to the
\* moment its instrument was visited, though no lock is held over the whole of it.
THEOREM SnapshotsWhole == Spec => []SnapshotComplete
  <1>1. RInv /\ DInv => SnapshotComplete
    <2> SUFFICES ASSUME RInv, DInv PROVE SnapshotComplete
      OBVIOUS
    <2>1. Collecting
      BY DEF DInv
    <2>2. ASSUME NEW j \in 1..since.last
          PROVE  \E p \in DOMAIN last :
                   p = <<table[recorded[j].metric], Hash[recorded[j].attrs]>> /\ j <= last[p].upTo
      BY <2>1 DEF Collecting, Slot
    <2>3. ASSUME NEW p \in DOMAIN last
          PROVE  \E m \in DOMAIN table :
                   /\ table[m] = p[1]
                   /\ last[p].state =
                        Aggregate(m[1], instruments[p[1]].bounds, ValuesOf(m, p[2], last[p].upTo))
      <3>1. PICK m \in DOMAIN table :
              /\ table[m] = p[1]
              /\ last[p].state = Aggregate(m[1], instruments[p[1]].bounds,
                                           ValuesAt(recorded, m, p[2], last[p].upTo))
        BY <2>1 DEF Collecting, PointWhole
      <3>2. ValuesAt(recorded, m, p[2], last[p].upTo) = ValuesOf(m, p[2], last[p].upTo)
        BY DEF ValuesAt, Places, ValuesOf, Of
      <3> QED BY <3>1, <3>2
    <2> QED BY <2>2, <2>3 DEF SnapshotComplete
  <1> QED BY <1>1, DataInvariance, PTL

=============================================================================
