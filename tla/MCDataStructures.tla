-------------------------- MODULE MCDataStructures --------------------------
(***************************************************************************)
(* The kernel's pure data structures checked in one model: the victim    *)
(* scans of PageVictims over every small page table (VictimCheck), and    *)
(* the Histogram object over every short sequence of RecordDatum and      *)
(* Reset calls (Histogram).  The two share no state; a behaviour checks   *)
(* one of them, chosen in Init, while the other's variables keep a fixed  *)
(* value, so the states are the union of the two models and not their     *)
(* product.                                                                *)
(***************************************************************************)
EXTENDS Integers, Sequences

CONSTANTS
    NumPages, Histories, MaxScans,
    NumBuckets, BucketWidth, RangeMin, IntBits, SizeBits, Data, MaxRecords

VARIABLES
    checking,                             \* "scans" or "histogram"
    pageTable, notMe, loadTime, scans,    \* VictimCheck
    histo, recorded                       \* Histogram

V == INSTANCE VictimCheck
H == INSTANCE Histogram

allvars == <<checking, pageTable, notMe, loadTime, scans, histo, recorded>>

\* The fixed value of the side a behaviour does not check: an empty page
\* table, and a histogram that has recorded nothing.
VIdle ==
    /\ pageTable = [p \in V!Pages |->
                      [valid |-> FALSE, physicalPage |-> p, use |-> FALSE,
                       dirty |-> FALSE, history |-> CHOOSE x \in Histories : TRUE]]
    /\ notMe = -1
    /\ loadTime = [p \in V!Pages |-> p + 1]
    /\ scans = 0
HIdle == histo = H!HistoInit /\ recorded = <<>>

Init ==
    \/ checking = "scans" /\ V!Init /\ HIdle
    \/ checking = "histogram" /\ H!Init /\ VIdle

Next ==
    \/ /\ checking = "scans" /\ V!Next
       /\ UNCHANGED <<checking, histo, recorded>>
    \/ /\ checking = "histogram" /\ H!Next
       /\ UNCHANGED <<checking, pageTable, notMe, loadTime, scans>>

Spec == Init /\ [][Next]_allvars
-----------------------------------------------------------------------------
\* The three scans of AddrSpace pick the victim their policy names when
\* given real load times (VictimCheck!ScansImplementPolicies).
ScansImplementPolicies == V!ScansImplementPolicies

\* With the getTime stub the scans lose only the load-time tie-break
\* (VictimCheck!StubOnlyBreaksTies).
StubOnlyBreaksTies == V!StubOnlyBreaksTies

\* The Histogram holds well-typed buckets whose size_t counts and int
\* sum stay in range (Histogram!TypeOK).
HistoTypeOK == H!TypeOK

\* Bucket::Deposit and the binning of Histogram::RecordDatum keep each
\* bucket's count, overflow flag and extrema true to the data of its
\* range (Histogram!BucketsMatchData).
BucketsMatchData == H!BucketsMatchData

\* Histogram::Count, Sum, Maximum and Minimum report the recorded data,
\* overflow flags included (Histogram!AccessorsMatchData).
AccessorsMatchData == H!AccessorsMatchData
=============================================================================
