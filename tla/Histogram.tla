----------------------------- MODULE Histogram -----------------------------
(***************************************************************************)
(* The Histogram and Bucket classes (threads/histogram.h, histogram.cc).  *)
(* A Histogram keeps an underflow bucket for data below range_min, an     *)
(* overflow bucket for data at or above range_max, num_buckets buckets of *)
(* bucket_width values in between, and a running sum.  A bucket counts    *)
(* its data in a size_t and keeps their extrema; each count and the sum   *)
(* stop when they overflow.  The kernel's one Histogram,                  *)
(* stats->interPageFaultTimes (stats.cc:23), is built with the bounds the *)
(* -hn/-hw/-hm flags set (system.cc:193-202) and gets a datum in Cleanup. *)
(*                                                                         *)
(* A state is one Histogram object and the data recorded into it since    *)
(* it was built or Reset (a history variable, no code state).  The        *)
(* widths of HistoDatumT (int) and size_t are constants, so that a run    *)
(* can make the wrap-around the overflow checks look for reachable.       *)
(***************************************************************************)
EXTENDS Integers, Sequences, SequencesExt, FiniteSets

CONSTANTS
    NumBuckets,  \* num_buckets
    BucketWidth, \* bucket_width
    RangeMin,    \* range_min
    IntBits,     \* bits of HistoDatumT (int)
    SizeBits,    \* bits of size_t
    Data,        \* the values RecordDatum is called with
    MaxRecords   \* bound: data recorded between two Resets

DatumSpan == 2^IntBits
MaxDatum == DatumSpan \div 2 - 1     \* numeric_limits<HistoDatumT>::max()
MinDatum == -(DatumSpan \div 2)      \* numeric_limits<HistoDatumT>::min()
SizeSpan == 2^SizeBits

\* range_max (histogram.cc:59).
RangeMax == RangeMin + NumBuckets * BucketWidth

ASSUME /\ NumBuckets \in Nat \ {0} /\ BucketWidth \in Nat \ {0}
       /\ IntBits \in Nat \ {0} /\ SizeBits \in Nat \ {0}
       /\ RangeMin \in MinDatum..MaxDatum /\ RangeMax \in MinDatum..MaxDatum
       /\ Data \subseteq MinDatum..MaxDatum /\ MaxRecords \in Nat

BucketIds == 0..NumBuckets-1

\* HistoDatumT and size_t arithmetic as the build does it: two's
\* complement wrap-around (signed overflow is undefined; gcc emits the
\* plain add).
IntAdd(a, b) == ((a + b - MinDatum) % DatumSpan) + MinDatum
SizeAdd(a, b) == (a + b) % SizeSpan

\* The fields of class Bucket (histogram.h:31-46).
Bucket == [overflowed: BOOLEAN, count: 0..SizeSpan-1,
           v_min: MinDatum..MaxDatum, v_max: MinDatum..MaxDatum]

\* Bucket::Reset (histogram.cc:36-43), also run by Bucket::Bucket
\* (histogram.cc:10-13).
BucketReset == [overflowed |-> FALSE, count |-> 0,
                v_min |-> MaxDatum, v_max |-> MinDatum]

\* Mutant: the count is incremented without wrapping at the size_t width.
Deposit_NoWrap(b, datum) ==
    [overflowed |-> b.overflowed, count |-> b.count + 1,
     v_min |-> IF datum < b.v_min THEN datum ELSE b.v_min,
     v_max |-> IF datum > b.v_max THEN datum ELSE b.v_max]

\* Bucket::Deposit (histogram.cc:15-34): count until the count wraps,
\* then stop counting; the extrema are kept either way.
Deposit(b, datum) ==
    [overflowed |-> b.overflowed \/ b.count > SizeAdd(b.count, 1),
     count |-> IF b.overflowed THEN b.count ELSE SizeAdd(b.count, 1),
     v_min |-> IF datum < b.v_min THEN datum ELSE b.v_min,
     v_max |-> IF datum > b.v_max THEN datum ELSE b.v_max]

\* The fields of class Histogram (histogram.h:51-111) that change.
Histo == [under: Bucket, over: Bucket, buckets: [BucketIds -> Bucket],
          sum: MinDatum..MaxDatum, sum_overflowed: BOOLEAN]

\* Histogram::Histogram (histogram.cc:55-66) and Histogram::Reset
\* (histogram.cc:196-207) leave the same object: every bucket reset, the
\* sum 0.
HistoInit == [under |-> BucketReset, over |-> BucketReset,
              buckets |-> [i \in BucketIds |-> BucketReset],
              sum |-> 0, sum_overflowed |-> FALSE]

\* Mutant: a datum equal to range_min goes into the underflow bucket.
Bin_UnderInclusive(h, datum) ==
    IF datum <= RangeMin THEN [h EXCEPT !.under = Deposit(@, datum)]
    ELSE IF datum >= RangeMax THEN [h EXCEPT !.over = Deposit(@, datum)]
    ELSE [h EXCEPT !.buckets[(datum - RangeMin) \div BucketWidth]
                       = Deposit(@, datum)]

\* The first half of Histogram::RecordDatum (histogram.cc:79-93): the
\* bucket the datum belongs to.
Bin(h, datum) ==
    IF datum < RangeMin THEN [h EXCEPT !.under = Deposit(@, datum)]
    ELSE IF datum >= RangeMax THEN [h EXCEPT !.over = Deposit(@, datum)]
    ELSE [h EXCEPT !.buckets[(datum - RangeMin) \div BucketWidth]
                       = Deposit(@, datum)]

\* The second half (histogram.cc:95-103): add to the sum until it is
\* seen to have overflowed, which is when it went down.
AddToSum(h, datum) ==
    IF h.sum_overflowed THEN h
    ELSE [h EXCEPT !.sum = IntAdd(@, datum),
                   !.sum_overflowed = h.sum > IntAdd(h.sum, datum)]

\* Histogram::RecordDatum (histogram.cc:76-104).
Record(h, datum) == AddToSum(Bin(h, datum), datum)

-----------------------------------------------------------------------------
(* The accessors, const members, as operators                              *)

Overflowed == [overflowed |-> TRUE, count |-> 0]

\* One turn of the bucket loop of Histogram::Count (histogram.cc:233-252).
CountStep(acc, b) ==
    IF acc.overflowed THEN acc
    ELSE IF b.overflowed \/ acc.count > SizeAdd(acc.count, b.count)
    THEN Overflowed
    ELSE [acc EXCEPT !.count = SizeAdd(@, b.count)]

\* Histogram::Count (histogram.cc:211-256): the number of data, or
\* overflowed when a bucket or the total did.  The flag is only ever set.
Count(h) ==
    IF h.under.overflowed \/ h.over.overflowed THEN Overflowed
    ELSE IF h.under.count > SizeAdd(h.under.count, h.over.count)
    THEN Overflowed
    ELSE FoldLeft(CountStep,
                  [overflowed |-> FALSE,
                   count |-> SizeAdd(h.under.count, h.over.count)],
                  [i \in 1..NumBuckets |-> h.buckets[i - 1]])

\* Histogram::Sum (histogram.cc:259-263).
Sum(h) == [overflowed |-> h.sum_overflowed, sum |-> h.sum]

\* The buckets in range that have a count, lowest first.
Counted(h) == {i \in BucketIds : h.buckets[i].count > 0}

\* Histogram::Minimum (histogram.cc:265-293): the v_min of the lowest
\* bucket with a count.  After the in-range buckets it tests the underflow
\* bucket a second time; the overflow bucket is never tested.  On false
\* the caller's variable keeps its value m.
Minimum(h, m) ==
    CASE h.under.count > 0 -> [found |-> TRUE, value |-> h.under.v_min]
      [] Counted(h) # {} ->
            [found |-> TRUE, value |-> h.buckets[Min(Counted(h))].v_min]
      [] h.under.count > 0 -> [found |-> TRUE, value |-> h.under.v_min]
      [] OTHER -> [found |-> FALSE, value |-> m]

\* Mutant: the in-range buckets are searched from the lowest up.
Maximum_LowestFirst(h, m) ==
    CASE h.over.count > 0 -> [found |-> TRUE, value |-> h.over.v_max]
      [] Counted(h) # {} ->
            [found |-> TRUE, value |-> h.buckets[Min(Counted(h))].v_max]
      [] h.under.count > 0 -> [found |-> TRUE, value |-> h.under.v_max]
      [] OTHER -> [found |-> FALSE, value |-> m]

\* Histogram::Maximum (histogram.cc:295-323): the v_max of the highest
\* bucket with a count, the overflow bucket first and the underflow
\* bucket last.
Maximum(h, m) ==
    CASE h.over.count > 0 -> [found |-> TRUE, value |-> h.over.v_max]
      [] Counted(h) # {} ->
            [found |-> TRUE, value |-> h.buckets[Max(Counted(h))].v_max]
      [] h.under.count > 0 -> [found |-> TRUE, value |-> h.under.v_max]
      [] OTHER -> [found |-> FALSE, value |-> m]

-----------------------------------------------------------------------------
VARIABLES
    histo,     \* the Histogram object
    recorded   \* history: the data recorded since it was built or Reset

hvars == <<histo, recorded>>

Init == histo = HistoInit /\ recorded = <<>>

RecordDatum ==
    /\ Len(recorded) < MaxRecords
    /\ \E datum \in Data :
          /\ histo' = Record(histo, datum)
          /\ recorded' = Append(recorded, datum)

Reset ==
    /\ histo' = HistoInit
    /\ recorded' = <<>>

Next == RecordDatum \/ Reset

Spec == Init /\ [][Next]_hvars

-----------------------------------------------------------------------------
(* Properties: the object against the data recorded into it               *)

\* The recorded data a bucket's range takes.
InRange(lo, hi) == SelectSeq(recorded, LAMBDA d : lo <= d /\ d < hi)
BucketData(i) == InRange(RangeMin + i * BucketWidth,
                         RangeMin + (i + 1) * BucketWidth)
UnderData == SelectSeq(recorded, LAMBDA d : d < RangeMin)
OverData == SelectSeq(recorded, LAMBDA d : d >= RangeMax)

\* What a bucket holding the data ds must say: overflowed exactly when
\* there were more than size_t counts, else the number of data; the
\* least and greatest datum, or the sentinels of Reset for none.
Describes(b, ds) ==
    /\ b.overflowed <=> Len(ds) >= SizeSpan
    /\ ~b.overflowed => b.count = Len(ds)
    /\ b.v_min = IF ds = <<>> THEN MaxDatum ELSE Min(ToSet(ds))
    /\ b.v_max = IF ds = <<>> THEN MinDatum ELSE Max(ToSet(ds))

TypeOK == histo \in Histo /\ recorded \in Seq(Data)

\* Every datum RecordDatum was given lands in exactly the bucket whose
\* range holds it, so each bucket counts, and keeps the extrema of, the
\* data of its range, and flags its count as overflowed exactly when
\* size_t could not hold it (Bucket::Deposit, Histogram::RecordDatum).
BucketsMatchData ==
    /\ Describes(histo.under, UnderData)
    /\ Describes(histo.over, OverData)
    /\ \A i \in BucketIds : Describes(histo.buckets[i], BucketData(i))

\* The prefix sums of the data, in exact arithmetic.
PrefixSums == [k \in 1..Len(recorded) |->
                  FoldLeft(LAMBDA a, d : a + d, 0, SubSeq(recorded, 1, k))]

\* Count, Sum and Maximum report the recorded data: Count their number,
\* or overflowed exactly when size_t cannot hold it; Sum their sum, or
\* overflowed exactly when a prefix of it left the range of int.  While
\* no bucket count can have wrapped, Maximum reports the greatest datum,
\* and Minimum, when it reports a value, the least.  Data are
\* non-negative, as the kernel's tick deltas are.  (Histogram::Count,
\* Sum, Minimum, Maximum.)
AccessorsMatchData ==
    /\ Count(histo) = IF Len(recorded) < SizeSpan
                      THEN [overflowed |-> FALSE, count |-> Len(recorded)]
                      ELSE Overflowed
    /\ Sum(histo).overflowed <=> \E k \in DOMAIN PrefixSums : PrefixSums[k] > MaxDatum
    /\ ~Sum(histo).overflowed =>
          Sum(histo).sum = IF recorded = <<>> THEN 0 ELSE PrefixSums[Len(recorded)]
    /\ Len(recorded) < SizeSpan =>
          Maximum(histo, MinDatum)
            = IF recorded = <<>> THEN [found |-> FALSE, value |-> MinDatum]
              ELSE [found |-> TRUE, value |-> Max(ToSet(recorded))]
    /\ Len(recorded) < SizeSpan /\ Minimum(histo, MaxDatum).found =>
          Minimum(histo, MaxDatum).value = Min(ToSet(recorded))
=============================================================================
