--------------------------- MODULE MetricsRegistry ---------------------------
(***************************************************************************)
(* The metrics registry of src/metrics.rs: threads that get or create a    *)
(* counter, a gauge or a histogram by name (a read lock, then a write      *)
(* lock), and record measurements in it under the mutex of the instrument; *)
(* and the aggregation task, which collects a snapshot of them all.        *)
(*                                                                         *)
(* A metric is a kind and a name.  A measurement is named by its place in  *)
(* the order in which the mutexes let them in; it also names the exemplar  *)
(* that was captured for it.  f64 values are integers: NaN and rounding    *)
(* are left out.                                                           *)
(***************************************************************************)
EXTENDS Integers, Sequences, FiniteSets, Functions, FiniteSetsExt, SequencesExt

CONSTANTS
  Threads,         \* the application's threads
  Metrics,         \* the metrics they use: pairs of a kind and a name
  Boundaries,      \* the boundary lists that calls of histogram() pass
  AttrSets,        \* attribute sets
  Hash,            \* attrs_hash_unordered
  Values,          \* the values that are recorded
  MaxCardinality,  \* max_cardinality
  Width,           \* the bits of an i64
  MaxMeasurements, \* bound: measurements started in a behaviour
  MaxCollects      \* bound: calls of collect()

Kinds == {"counter", "gauge", "histogram"}

Nobody == "nobody"
None == 0
NoHandle == 0

ASSUME RegistryAssumption ==
  /\ IsFiniteSet(Threads) /\ Nobody \notin Threads
  /\ \A m \in Metrics : m[1] \in Kinds
  /\ Boundaries # {} /\ Boundaries \subseteq Seq(Int)
  /\ Hash \in [AttrSets -> Nat]
  /\ Values \subseteq 0..(2 ^ Width - 1)
  /\ MaxCardinality \in Nat /\ Width \in Nat \ {0}
  /\ MaxMeasurements \in Nat /\ MaxCollects \in Nat

VARIABLES
  overflowChecks, \* how rolly was built: with or without overflow checks
  instruments,    \* every instrument ever created; a handle is its index
  table,          \* the registry's maps: metric to instrument
  threads,        \* where each thread is, and its locals
  collector,      \* where collect() is: the lock it holds and what is left to visit
  snapshot,       \* the data points the collect in progress has taken
  last,           \* history: the snapshot returned last
  since,          \* history: how many were recorded before this and the last collect()
  reported,       \* history: the exemplars taken by a collect()
  collects,       \* history: how many collects were started
  recorded,       \* history: the measurements recorded, in order
  started         \* history: how many measurements were started

registryVars == <<instruments, table>>
collectVars == <<collector, snapshot, last, since, reported, collects>>
vars == <<overflowChecks, registryVars, threads, collectVars, recorded, started>>

(***************************************************************************)
(* Numbers and aggregation.                                                *)
(***************************************************************************)

\* `as i64`, and what an i64 addition gives without overflow checks.
AsI64(n) == LET r == n % 2 ^ Width IN IF r >= 2 ^ (Width - 1) THEN r - 2 ^ Width ELSE r
Overflows(n) == AsI64(n) # n

\* Boundaries are sorted and deduplicated when the histogram is created.
Sorted(bounds) ==
  LET n == Cardinality(Range(bounds)) IN
  CHOOSE s \in [1..n -> Range(bounds)] : \A b, c \in 1..n : b < c => s[b] < s[c]

\* Mutant: a value on a boundary is counted below it.
BucketBelow(bounds, v) == 1 + Cardinality({b \in DOMAIN bounds : bounds[b] < v})

\* partition_point(|b| b <= value), counting buckets from 1.
Bucket(bounds, v) == 1 + Cardinality({b \in DOMAIN bounds : bounds[b] <= v})

\* A new data point of a kind, and one more measurement in it.
Empty(kind, bounds) ==
  IF kind = "histogram"
    THEN [buckets |-> [b \in 1..(Len(bounds) + 1) |-> 0], sum |-> 0, count |-> 0,
          min |-> None, max |-> None]
    ELSE 0

Added(kind, bounds, state, v) ==
  CASE kind = "counter" -> AsI64(state + AsI64(v))
    [] kind = "gauge" -> v
    [] kind = "histogram" ->
         [buckets |-> [state.buckets EXCEPT ![Bucket(bounds, v)] = @ + 1],
          sum |-> state.sum + v, count |-> state.count + 1,
          min |-> IF state.count = 0 \/ v < state.min THEN v ELSE state.min,
          max |-> IF state.count = 0 \/ v > state.max THEN v ELSE state.max]

(***************************************************************************)
(* State.                                                                  *)
(***************************************************************************)

\* A thread's locals, with and without a measurement under way.
NoMeasurement ==
  [attrs |-> None, value |-> 0, exemplar |-> FALSE, entry |-> <<>>, refused |-> FALSE]
Idle == [pc |-> "idle", metric |-> None, handle |-> NoHandle, measurement |-> NoMeasurement]
Rest == [at |-> "idle", left |-> {}]

Init ==
  /\ overflowChecks \in BOOLEAN
  /\ instruments = <<>> /\ table = <<>>
  /\ threads = [t \in Threads |-> Idle]
  /\ collector = Rest /\ snapshot = <<>> /\ last = <<>>
  /\ since = [this |-> 0, last |-> 0] /\ reported = {} /\ collects = 0
  /\ recorded = <<>> /\ started = 0

\* The collector holds the read lock of one kind's map while it visits it.
Reading(kind) == collector.at = kind

-----------------------------------------------------------------------------
(***************************************************************************)
(* counter(), gauge(), histogram(): get or create.                         *)
(***************************************************************************)

\* The fast path.  Its read lock shuts out nobody who matters: inserting is one
\* step, and the collector only reads.
Lookup(t, m) ==
  /\ threads[t].pc \in {"idle", "ready"}
  /\ threads' = [threads EXCEPT ![t].metric = m,
       ![t].pc = IF m \in DOMAIN table THEN "ready" ELSE "create",
       ![t].handle = IF m \in DOMAIN table THEN table[m] ELSE NoHandle]
  /\ UNCHANGED <<overflowChecks, registryVars, collectVars, recorded, started>>

New(m, bounds) ==
  [kind |-> m[1], bounds |-> Sorted(bounds), data |-> <<>>, holder |-> Nobody,
   poisoned |-> FALSE, warned |-> FALSE]

\* Mutant: the slow path inserts without looking again.
CreateOverwrites(t, bounds) ==
  LET m == threads[t].metric IN
  /\ threads[t].pc = "create" /\ ~Reading(m[1])
  /\ instruments' = Append(instruments, New(m, bounds))
  /\ table' = [x \in DOMAIN table \cup {m} |->
                 IF x = m THEN Len(instruments) + 1 ELSE table[x]]
  /\ threads' = [threads EXCEPT ![t].pc = "ready", ![t].handle = Len(instruments) + 1]
  /\ UNCHANGED <<overflowChecks, collectVars, recorded, started>>

\* Mutant: a metric found by the second look is not returned.
CreateNoHandle(t, bounds) ==
  LET m == threads[t].metric IN
  /\ threads[t].pc = "create" /\ ~Reading(m[1])
  /\ IF m \in DOMAIN table
       THEN UNCHANGED registryVars
       ELSE /\ instruments' = Append(instruments, New(m, bounds))
            /\ table' = [x \in DOMAIN table \cup {m} |->
                           IF x = m THEN Len(instruments) + 1 ELSE table[x]]
  /\ threads' = [threads EXCEPT ![t].pc = "ready", ![t].handle =
                   IF m \in DOMAIN table THEN NoHandle ELSE table'[m]]
  /\ UNCHANGED <<overflowChecks, collectVars, recorded, started>>

\* The slow path: the write lock waits for the collector, and another thread
\* may have created the metric since the fast path missed it.
Create(t, bounds) ==
  LET m == threads[t].metric IN
  /\ threads[t].pc = "create" /\ ~Reading(m[1])
  /\ IF m \in DOMAIN table
       THEN UNCHANGED registryVars
       ELSE /\ instruments' = Append(instruments, New(m, bounds))
            /\ table' = [x \in DOMAIN table \cup {m} |->
                           IF x = m THEN Len(instruments) + 1 ELSE table[x]]
  /\ threads' = [threads EXCEPT ![t].pc = "ready", ![t].handle = table'[m]]
  /\ UNCHANGED <<overflowChecks, collectVars, recorded, started>>

-----------------------------------------------------------------------------
(***************************************************************************)
(* Counter::add, Gauge::set, Histogram::observe.                           *)
(***************************************************************************)

\* The exemplar is captured, and the attributes hashed, before the lock.
Capture(t, attrs, v, exemplar) ==
  /\ threads[t].pc = "ready" /\ started < MaxMeasurements
  /\ started' = started + 1
  /\ threads' = [threads EXCEPT ![t].pc = "locking", ![t].measurement =
                   [attrs |-> attrs, value |-> v, exemplar |-> exemplar, entry |-> <<>>,
                    refused |-> FALSE]]
  /\ UNCHANGED <<overflowChecks, registryVars, collectVars, recorded>>

\* The instrument a thread uses, the key of its attributes, and the entry there.
Mine(t) == instruments[threads[t].handle]
Key(t) == Hash[threads[t].measurement.attrs]
Known(t) == Key(t) \in DOMAIN Mine(t).data
Entry(t) ==
  IF Known(t) THEN Mine(t).data[Key(t)]
  ELSE [attrs |-> threads[t].measurement.attrs, exemplar |-> None,
        state |-> Empty(Mine(t).kind, Mine(t).bounds)]

\* A new attribute set beyond the limit is refused.
Refused(t) == ~Known(t) /\ Cardinality(DOMAIN Mine(t).data) >= MaxCardinality

\* What a thread reads and decides when it has the lock.
Looked(t) ==
  [threads EXCEPT ![t].pc = "locked", ![t].measurement.entry = Entry(t),
                  ![t].measurement.refused = Refused(t)]

\* Mutant: a lock that does not exclude.
LockShared(t) ==
  /\ threads[t].pc = "locking" /\ threads' = Looked(t)
  /\ UNCHANGED <<overflowChecks, registryVars, collectVars, recorded, started>>

\* lock().unwrap(), and the look at the data: the entry is read, and the limit
\* checked.  A poisoned mutex panics the thread.
Lock(t) ==
  /\ threads[t].pc = "locking" /\ Mine(t).holder = Nobody
  /\ IF Mine(t).poisoned
       THEN /\ threads' = [threads EXCEPT ![t].pc = "panicked", ![t].measurement = NoMeasurement]
            /\ UNCHANGED instruments
       ELSE /\ threads' = Looked(t)
            /\ instruments' = [instruments EXCEPT ![threads[t].handle].holder = t]
  /\ UNCHANGED <<overflowChecks, table, collectVars, recorded, started>>

Unlocked(t, i) == [instruments EXCEPT ![threads[t].handle] = [i EXCEPT !.holder = Nobody]]
Done(t, pc) == [threads EXCEPT ![t].pc = pc, ![t].measurement = NoMeasurement]

\* The measurement is dropped, with one warning.
Refuse(t) ==
  /\ threads[t].pc = "locked" /\ threads[t].measurement.refused
  /\ instruments' = Unlocked(t, [Mine(t) EXCEPT !.warned = TRUE])
  /\ threads' = Done(t, "ready")
  /\ UNCHANGED <<overflowChecks, table, collectVars, recorded, started>>

\* Mutant: the addition is checked in every build.
PanicsAlways(t) ==
  /\ Mine(t).kind = "counter"
  /\ Overflows(threads[t].measurement.entry.state + AsI64(threads[t].measurement.value))

Panics(t) ==
  /\ overflowChecks /\ Mine(t).kind = "counter"
  /\ Overflows(threads[t].measurement.entry.state + AsI64(threads[t].measurement.value))

\* `entry.1 += value` and the like; an older exemplar stays if there is no new
\* one.  The lock is released.
Record(t) ==
  /\ threads[t].pc = "locked" /\ ~threads[t].measurement.refused /\ ~Panics(t)
  /\ LET m == threads[t].measurement
         i == Mine(t)
         new == [m.entry EXCEPT !.state = Added(i.kind, i.bounds, @, m.value),
                                !.exemplar = IF m.exemplar THEN Len(recorded) + 1 ELSE @]
     IN  /\ instruments' = Unlocked(t, [i EXCEPT !.data =
              [k \in DOMAIN @ \cup {Key(t)} |-> IF k = Key(t) THEN new ELSE @[k]]])
         /\ recorded' = Append(recorded, [metric |-> threads[t].metric, attrs |-> m.attrs,
                                          value |-> m.value, exemplar |-> m.exemplar])
  /\ threads' = Done(t, "ready")
  /\ UNCHANGED <<overflowChecks, table, collectVars, started>>

\* Mutant: the panicking thread leaves the mutex locked.
PanicKeepsLock(t) ==
  /\ threads[t].pc = "locked" /\ ~threads[t].measurement.refused /\ Panics(t)
  /\ threads' = Done(t, "panicked")
  /\ UNCHANGED <<overflowChecks, registryVars, collectVars, recorded, started>>

\* With overflow checks a counter's sum panics under the lock, which poisons it.
Panic(t) ==
  /\ threads[t].pc = "locked" /\ ~threads[t].measurement.refused /\ Panics(t)
  /\ instruments' = Unlocked(t, [Mine(t) EXCEPT !.poisoned = TRUE])
  /\ threads' = Done(t, "panicked")
  /\ UNCHANGED <<overflowChecks, table, collectVars, recorded, started>>

-----------------------------------------------------------------------------
(***************************************************************************)
(* collect(): counters, then gauges, then histograms.                      *)
(***************************************************************************)

\* Mutant: the histograms are forgotten.
NextKindShort(kind) == CASE kind = "counter" -> "gauge" [] OTHER -> "idle"

NextKind(kind) ==
  CASE kind = "counter" -> "gauge" [] kind = "gauge" -> "histogram" [] OTHER -> "idle"

\* The read lock of a kind's map; its instruments are visited in any order.
Visit(kind) == [at |-> kind, left |-> {table[m] : m \in {x \in DOMAIN table : x[1] = kind}}]

CollectBegin ==
  /\ collector.at = "idle" /\ collects < MaxCollects
  /\ collector' = Visit("counter") /\ collects' = collects + 1
  /\ since' = [since EXCEPT !.this = Len(recorded)]
  /\ UNCHANGED <<overflowChecks, registryVars, threads, snapshot, last, reported, recorded, started>>

\* The data points of an instrument, by entry; `upTo` is history.
Points(i) ==
  [p \in {i} \X DOMAIN instruments[i].data |->
     [state |-> instruments[i].data[p[2]].state, upTo |-> Len(recorded)]]

\* The snapshot with them.
WithPoints(i) ==
  [p \in DOMAIN snapshot \cup DOMAIN Points(i) |->
     IF p \in DOMAIN snapshot THEN snapshot[p] ELSE Points(i)[p]]

Exemplars(i) == {instruments[i].data[key].exemplar : key \in DOMAIN instruments[i].data} \ {None}

\* Mutants: exemplars are cloned and not taken; the mutex is not waited for.
CollectClones(i) ==
  /\ i \in collector.left /\ instruments[i].holder = Nobody /\ ~instruments[i].poisoned
  /\ snapshot' = WithPoints(i) /\ reported' = reported \cup Exemplars(i)
  /\ collector' = [collector EXCEPT !.left = @ \ {i}]
  /\ UNCHANGED <<overflowChecks, registryVars, threads, last, since, collects, recorded, started>>
CollectUnlocked(i) ==
  /\ i \in collector.left /\ ~instruments[i].poisoned
  /\ snapshot' = WithPoints(i) /\ reported' = reported \cup Exemplars(i)
  /\ instruments' = [instruments EXCEPT ![i].data =
                       [key \in DOMAIN @ |-> [@[key] EXCEPT !.exemplar = None]]]
  /\ collector' = [collector EXCEPT !.left = @ \ {i}]
  /\ UNCHANGED <<overflowChecks, table, threads, last, since, collects, recorded, started>>

\* One instrument, under its mutex: its data points are copied and their
\* exemplars taken.
CollectInstrument(i) ==
  /\ i \in collector.left /\ instruments[i].holder = Nobody /\ ~instruments[i].poisoned
  /\ snapshot' = WithPoints(i) /\ reported' = reported \cup Exemplars(i)
  /\ instruments' = [instruments EXCEPT ![i].data =
                       [key \in DOMAIN @ |-> [@[key] EXCEPT !.exemplar = None]]]
  /\ collector' = [collector EXCEPT !.left = @ \ {i}]
  /\ UNCHANGED <<overflowChecks, table, threads, last, since, collects, recorded, started>>

\* A poisoned mutex panics the aggregation task, which nobody starts again.
CollectPanic(i) ==
  /\ i \in collector.left /\ instruments[i].holder = Nobody /\ instruments[i].poisoned
  /\ collector' = [at |-> "panicked", left |-> {}] /\ snapshot' = <<>>
  /\ UNCHANGED <<overflowChecks, registryVars, threads, last, since, reported, collects, recorded,
                 started>>

\* The lock of this kind is released, and that of the next one taken.
CollectNext ==
  /\ collector.at \in Kinds /\ collector.left = {}
  /\ IF NextKind(collector.at) = "idle"
       THEN /\ collector' = Rest /\ snapshot' = <<>> /\ last' = snapshot
            /\ since' = [since EXCEPT !.last = since.this]
       ELSE /\ collector' = Visit(NextKind(collector.at))
            /\ UNCHANGED <<snapshot, last, since>>
  /\ UNCHANGED <<overflowChecks, registryVars, threads, reported, collects, recorded, started>>

-----------------------------------------------------------------------------
Measure(t) ==
  \E attrs \in AttrSets, v \in Values, exemplar \in BOOLEAN : Capture(t, attrs, v, exemplar)

Leave(t) == Refuse(t) \/ Record(t) \/ Panic(t)

Take == \E i \in DOMAIN instruments : CollectInstrument(i) \/ CollectPanic(i)

\* Every thread has panicked, and the collector, or the bound, has stopped it.
Terminated ==
  /\ \A t \in Threads : threads[t].pc = "panicked"
  /\ collector.at = "panicked" \/ (collector.at = "idle" /\ collects = MaxCollects)
  /\ UNCHANGED vars

Next ==
  \/ \E t \in Threads :
       \/ \E m \in Metrics : Lookup(t, m)
       \/ \E bounds \in Boundaries : Create(t, bounds)
       \/ Measure(t) \/ Lock(t) \/ Leave(t)
  \/ CollectBegin \/ Take \/ CollectNext
  \/ Terminated

Spec == Init /\ [][Next]_vars

(***************************************************************************)
(* A thread that holds a mutex goes on, and so does the collector.  std's  *)
(* Mutex has no queue: a thread that waits for one gets it in the end only *)
(* because it is free again and again (strong fairness).                   *)
(***************************************************************************)
Fairness ==
  /\ \A t \in Threads : WF_vars(Leave(t)) /\ SF_vars(Lock(t))
  /\ WF_vars(CollectNext) /\ SF_vars(Take)

FairSpec == Spec /\ Fairness

-----------------------------------------------------------------------------
\* Every handle is an instrument, every key a hash, every index in range.
TypeOK ==
  /\ overflowChecks \in BOOLEAN
  /\ \A m \in DOMAIN table : m \in Metrics /\ table[m] \in DOMAIN instruments
  /\ \A i \in DOMAIN instruments :
       /\ instruments[i].kind \in Kinds /\ instruments[i].holder \in Threads \cup {Nobody}
       /\ DOMAIN instruments[i].data \subseteq Range(Hash)
  /\ \A t \in Threads :
       /\ threads[t].pc \in {"idle", "create", "ready", "locking", "locked", "panicked"}
       /\ threads[t].pc \in {"ready", "locking", "locked"} =>
            threads[t].metric \in Metrics /\ threads[t].handle \in DOMAIN instruments
  /\ collector.at \in Kinds \cup {"idle", "panicked"}
  /\ collector.left \subseteq DOMAIN instruments
  /\ Len(recorded) <= started /\ started <= MaxMeasurements

\* The measurements among the first n that went to an entry of a metric.
Of(m, key, n) ==
  {j \in 1..n : recorded[j].metric = m /\ Hash[recorded[j].attrs] = key}

\* Their values, by their places.
ValuesOf(m, key, n) == [j \in Of(m, key, n) |-> recorded[j].value]

\* A value is from the boundary below a bucket up to the one above it.
Inside(bounds, b, x) ==
  /\ b = 1 \/ bounds[b - 1] <= x
  /\ b = Len(bounds) + 1 \/ x < bounds[b]

\* What an entry must hold after measurements with the values v: a definition
\* of the three kinds that does not go step by step.
Aggregate(kind, bounds, v) ==
  CASE kind = "counter" -> AsI64(FoldFunction(+, 0, v))
    [] kind = "gauge" -> v[Max(DOMAIN v)]
    [] kind = "histogram" ->
         [buckets |-> [b \in 1..(Len(bounds) + 1) |->
                         Cardinality({j \in DOMAIN v : Inside(bounds, b, v[j])})],
          sum |-> FoldFunction(+, 0, v), count |-> Cardinality(DOMAIN v),
          min |-> Min(Range(v)), max |-> Max(Range(v))]

\* No measurement is lost or counted twice, however threads and collector
\* interleave and whoever created the metric: each entry of the registry is
\* the aggregate of all that was recorded for it.
NothingLost ==
  \A j \in DOMAIN recorded :
    LET m == recorded[j].metric
        key == Hash[recorded[j].attrs]
        i == instruments[table[m]]
    IN  /\ key \in DOMAIN i.data
        /\ i.data[key].state = Aggregate(i.kind, i.bounds, ValuesOf(m, key, Len(recorded)))

\* A snapshot holds every measurement that was recorded before collect() began,
\* and each data point is whole: the aggregate of all that was recorded in it
\* up to the moment its instrument was visited.
SnapshotComplete ==
  /\ \A j \in 1..since.last :
       \E p \in DOMAIN last :
         p = <<table[recorded[j].metric], Hash[recorded[j].attrs]>> /\ j <= last[p].upTo
  /\ \A p \in DOMAIN last :
       \E m \in DOMAIN table :
         /\ table[m] = p[1]
         /\ last[p].state =
              Aggregate(m[1], instruments[p[1]].bounds, ValuesOf(m, p[2], last[p].upTo))

\* An exemplar waits in the entry that its measurement is part of, and is
\* reported at most once.
ExemplarsFresh ==
  \A m \in DOMAIN table :
    LET data == instruments[table[m]].data IN
    \A key \in DOMAIN data :
      data[key].exemplar # None =>
        /\ data[key].exemplar \in Of(m, key, Len(recorded))
        /\ recorded[data[key].exemplar].exemplar
        /\ data[key].exemplar \notin reported

\* An instrument keeps at most MaxCardinality attribute sets, and warns only
\* when it is full.
CardinalityLimit ==
  \A i \in DOMAIN instruments :
    /\ Cardinality(DOMAIN instruments[i].data) <= MaxCardinality
    /\ instruments[i].warned => Cardinality(DOMAIN instruments[i].data) = MaxCardinality

\* The limit is applied to all that was ever recorded under a name, whichever
\* handle and thread it came through: a measurement is dropped exactly if its
\* attribute set is not among those recorded before and MaxCardinality others
\* are.  It would not be if an entry was ever removed, if a second instrument
\* took the place of the first, or if what the thread saw under the mutex could
\* change before it acts on it.
RecordedSets(m) == {Hash[recorded[j].attrs] : j \in {k \in DOMAIN recorded : recorded[k].metric = m}}
RefusedExactly ==
  [][\A t \in Threads :
       threads[t].pc = "locked" /\ threads'[t].pc = "ready" =>
         (recorded' = recorded
            <=> /\ Key(t) \notin RecordedSets(threads[t].metric)
                /\ Cardinality(RecordedSets(threads[t].metric)) >= MaxCardinality)]_vars

\* A mutex has one holder, and a thread that panics or finishes lets it go.
OneHolder ==
  /\ \A t \in Threads : threads[t].pc = "locked" => Mine(t).holder = t
  /\ \A i \in DOMAIN instruments :
       instruments[i].holder # Nobody =>
         /\ threads[instruments[i].holder].pc = "locked"
         /\ threads[instruments[i].holder].handle = i

\* What a thread read and decided when it took the mutex is still so when it
\* writes: no other thread has touched the data meanwhile, and neither has
\* collect(), which takes the exemplars out.
MutualExclusion ==
  /\ OneHolder
  /\ \A t \in Threads :
       threads[t].pc = "locked" =>
         /\ threads[t].measurement.entry = Entry(t)
         /\ threads[t].measurement.refused = Refused(t)

\* Every collect() that begins returns a snapshot, unless an overflow poisoned
\* an instrument, and every measurement that begins ends.
CollectEnds ==
  /\ collector.at \in Kinds ~> collector.at \in {"idle", "panicked"}
  /\ [](collector.at = "panicked" => overflowChecks)
MeasurementsEnd ==
  \A t \in Threads :
    threads[t].pc \in {"locking", "locked"} ~> threads[t].pc \in {"ready", "panicked"}

\* src/metrics.rs:411 calls Counter "a monotonic u64 counter".  The code adds
\* `value as i64`: a value of 2^63 or more is negative, and the sum wraps.
CounterMonotonic ==
  \A p \in DOMAIN last \cap DOMAIN snapshot :
    instruments[p[1]].kind = "counter" => last[p].state <= snapshot[p].state

=============================================================================
