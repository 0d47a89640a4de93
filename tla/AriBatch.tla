----------------------------- MODULE AriBatch -----------------------------
(***************************************************************************)
(* The batch builder of the ARI push (packages/sync/src/batch): a set of   *)
(* cells, one value per date of a room type or a rate plan, becomes a      *)
(* sequence of wire entries, cut into chunks.  The channel manager applies *)
(* the entries in order, each over a date range, so a broad entry may be   *)
(* written first and overridden by narrower ones.                          *)
(*                                                                         *)
(* A lane is a room type or a rate plan.  A cell is a pair <<lane, date>>  *)
(* and its value a function from the fields it carries to their values     *)
(* (a room type has one field, its availability).  `cells' is a function   *)
(* from the cells of a batch to their values.                              *)
(*                                                                         *)
(* Dates are the numbers 1..LastDate.  A week has WeekLength days (seven   *)
(* in the code); small instances shorten it so that the weekday encoding,  *)
(* which needs more than a week of dates, is reached.                      *)
(***************************************************************************)
EXTENDS Integers, FiniteSets, Sequences, SequencesExt

CONSTANTS LastDate,     \* the last date of the calendar
          WeekLength,   \* days in a week
          LaneOrder,    \* the lanes, a sequence in the order of their ids
          FieldOrder    \* RESTRICTION_FIELDS: the fields, in order

\* There are dates to number, weeks have days, and lanes and fields are in lists.
ASSUME CalendarIsThere == LastDate \in Nat /\ WeekLength \in Nat \ {0}
ASSUME OrdersAreLists ==
  LaneOrder \in Seq(ToSet(LaneOrder)) /\ FieldOrder \in Seq(ToSet(FieldOrder))

Dates  == 1..LastDate
Lanes  == ToSet(LaneOrder)
Fields == ToSet(FieldOrder)
AllDays == 0..(WeekLength - 1)

weekdayOf(d) == d % WeekLength

\* The dates an entry covers: its range, less the weekdays its filter omits.
expandDates(e) == {d \in e.from..e.to : weekdayOf(d) \in e.days}

Covers(e, c) == e.lane = c[1] /\ c[2] \in expandDates(e)

(***************************************************************************)
(* Encoding one field over one span                                        *)
(***************************************************************************)

\* The maximal intervals of S whose dates, but the last one, are in Joined: those that go
\* on to the next date.
Intervals(S, Joined) ==
  {r \in S \X S :
     /\ r[1] <= r[2]
     /\ \A d \in r[1]..(r[2] - 1) : d + 1 \in S /\ d \in Joined
     /\ r[1] - 1 \in S => r[1] - 1 \notin Joined
     /\ r[2] + 1 \in S => r[2] \notin Joined}

\* The members of T in the order of their numbers `at', which differ (SetToSortSeq in a
\* form to prove about).
Sorted(T, at) ==
  [i \in 1..Cardinality(T) |->
     CHOOSE t \in T : Cardinality({u \in T : at[u] < at[t]}) = i - 1]

ByStart(ranges) == Sorted(ranges, [r \in ranges |-> r[1]])

\* Maximal runs of consecutive days.
contiguousSpans(S) == ByStart(Intervals(S, S))

FieldEntry(r, days, v) == [from |-> r[1], to |-> r[2], days |-> days, value |-> v]

\* The maximal runs of equal values of f, the field's value at each date.
equalRuns(S, f) == Intervals(S, {d \in S : d + 1 \in S /\ f[d] = f[d + 1]})

RunEntries(runs, f) ==
  [i \in 1..Cardinality(runs) |->
     LET r == ByStart(runs)[i] IN FieldEntry(r, AllDays, f[r[1]])]

\* One entry per run.
runLength(S, f) == RunEntries(equalRuns(S, f), f)

\* The values of f on S, in the order in which the dates first show them.
ValuesInOrder(S, f) ==
  LET vs == {f[d] : d \in S}
  IN  Sorted(vs, [v \in vs |-> Min({d \in S : f[d] = v})])

WholeSpan(S) == <<Min(S), Max(S)>>

\* It is tried on more than a week of dates whose value depends on the weekday.
WeekdayPeriodic(S, f) ==
  /\ Cardinality(S) > WeekLength
  /\ \A d, e \in S : weekdayOf(d) = weekdayOf(e) => f[d] = f[e]

weekdayEncoding(S, f) ==
  LET vs == ValuesInOrder(S, f)
  IN  [i \in 1..Len(vs) |->
         FieldEntry(WholeSpan(S), {weekdayOf(d) : d \in {e \in S : f[e] = vs[i]}}, vs[i])]

\* The most frequent value; the one that shows first among equals.
Dominant(S, f) ==
  LET Count(v) == Cardinality({d \in S : f[d] = v})
      vs == ValuesInOrder(S, f)
      i  == CHOOSE i \in DOMAIN vs :
              /\ \A j \in DOMAIN vs : Count(vs[j]) <= Count(vs[i])
              /\ \A j \in 1..(i - 1) : Count(vs[j]) < Count(vs[i])
  IN  vs[i]

\* The dominant value over the whole span, then the exceptions.
baseAndOverride(S, f) ==
  LET v == Dominant(S, f)
  IN  IF \A d \in S : f[d] = v
      THEN runLength(S, f)
      ELSE <<FieldEntry(WholeSpan(S), AllDays, v)>>
             \o RunEntries({r \in equalRuns(S, f) : f[r[1]] # v}, f)

Shorter(es, more) == IF Len(more) < Len(es) THEN more ELSE es

\* The cheapest of the three encodings, the earlier one among equals.
encodeSpan(S, f) ==
  LET best == IF WeekdayPeriodic(S, f)
              THEN Shorter(runLength(S, f), weekdayEncoding(S, f))
              ELSE runLength(S, f)
  IN  Shorter(best, baseAndOverride(S, f))

(***************************************************************************)
(* From cells to chunks of entries                                         *)
(***************************************************************************)

\* The dates of a lane that carry a field.
DatesWith(cells, lane, fld) ==
  {d \in Dates : <<lane, d>> \in DOMAIN cells /\ fld \in DOMAIN cells[<<lane, d>>]}

\* The field entries of one lane, field by field, span by span.
OfSpan(cells, lane, fld, r) ==
  LET S  == r[1]..r[2]
      es == encodeSpan(S, [d \in S |-> cells[<<lane, d>>][fld]])
  IN  [i \in 1..Len(es) |-> [field |-> fld, entry |-> es[i]]]

OfField(cells, lane, fld) ==
  LET spans == contiguousSpans(DatesWith(cells, lane, fld))
  IN  FlattenSeq([i \in 1..Len(spans) |-> OfSpan(cells, lane, fld, spans[i])])

FieldEntries(cells, lane) ==
  FlattenSeq([i \in 1..Len(FieldOrder) |-> OfField(cells, lane, FieldOrder[i])])

\* The merged entries with the range of field entry x, and those its field is in.
SameRange(merged, x) ==
  {i \in DOMAIN merged : /\ merged[i].from = x.entry.from /\ merged[i].to = x.entry.to
                         /\ merged[i].days = x.entry.days}
WithField(merged, x) == {i \in DOMAIN merged : x.field \in DOMAIN merged[i].vals}

\* Mutant of Joins: the order of a field's own entries is not looked at.
JoinsAny(merged, x) == SameRange(merged, x) # {}

\* A field entry joins the latest merged entry of its range, when that comes after
\* every entry the field is already in; otherwise later fields would be overridden.
Joins(merged, x) ==
  /\ SameRange(merged, x) # {}
  /\ \A i \in WithField(merged, x) : i < Max(SameRange(merged, x))

\* Adds one field entry to the merged entries.
MergeOne(lane, merged, x) ==
  LET value == [g \in {x.field} |-> x.entry.value]
  IN  IF Joins(merged, x)
      THEN [merged EXCEPT ![Max(SameRange(merged, x))].vals =
              [g \in DOMAIN @ \cup {x.field} |-> IF g = x.field THEN x.entry.value ELSE @[g]]]
      ELSE Append(merged, [lane |-> lane, from |-> x.entry.from, to |-> x.entry.to,
                           days |-> x.entry.days, vals |-> value])

\* Adds the field entries of a lane one after the other.
MergeAll(lane, xs) ==
  LET merged[n \in 0..Len(xs)] ==
        IF n = 0 THEN <<>> ELSE MergeOne(lane, merged[n - 1], xs[n])
  IN  merged[Len(xs)]

\* The entries of a batch, before chunking: lanes in order.
OfLane(cells, lane) == MergeAll(lane, FieldEntries(cells, lane))

BatchEntries(cells) == FlattenSeq([i \in 1..Len(LaneOrder) |-> OfLane(cells, LaneOrder[i])])

\* Consecutive pieces of at most `size' entries.
chunk(list, size) ==
  [k \in 1..((Len(list) + size - 1) \div size) |->
     SubSeq(list, (k - 1) * size + 1, IF k * size < Len(list) THEN k * size ELSE Len(list))]

\* buildAvailabilityBatch and buildRestrictionBatch: with one field there is
\* nothing to merge, so the first is the second on cells of one field.
buildBatch(cells, maxEntries) == chunk(BatchEntries(cells), maxEntries)

(***************************************************************************)
(* What the channel manager does with the entries                          *)
(***************************************************************************)

\* state maps each cell to the values of its fields.  Entries apply in order
\* and each sets the fields it carries: the last entry that covers a cell and
\* carries a field decides that field.  `taken' are the entries applied.
applyTaken(state, entries, taken) ==
  [c \in DOMAIN state |->
     LET writers(fld) == {i \in taken : Covers(entries[i], c) /\ fld \in DOMAIN entries[i].vals}
         written == {fld \in Fields : writers(fld) # {}}
     IN  [fld \in DOMAIN state[c] \cup written |->
            IF fld \in written THEN entries[Max(writers(fld))].vals[fld] ELSE state[c][fld]]]

applyEntries(state, entries) == applyTaken(state, entries, DOMAIN entries)

NoValues == [fld \in {} |-> 0]

\* A calendar that was never pushed.
Blank == [c \in Lanes \X Dates |-> NoValues]
=============================================================================
