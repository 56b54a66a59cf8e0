---------------------------- MODULE PageVictims ----------------------------
(***************************************************************************)
(* The per-process victim scans of AddrSpace (addrspace.cc:860-1049) as     *)
(* the loops they are: one pass over the page table in page order, with    *)
(* the scan's local variables as the accumulator of a left fold.  A page   *)
(* table is a function from page numbers 0..n-1 to entries with at least   *)
(* the fields valid, physicalPage, use, dirty and history; time[p] is what *)
(* pageTable[p].getTime() returns.  In the code getTime is a stub that     *)
(* returns 0 (translate.cc:299-302), which VirtualMemory passes as         *)
(* ZeroTime; VictimCheck passes the load times pagein means to record      *)
(* (memmgr.cc:284).                                                        *)
(***************************************************************************)
EXTENDS Integers, SequencesExt

\* 0xFFFFFFFF, the initial victimTime / time[i] read as unsigned int.  TLC
\* integers stop at 2^31-1, which like 0xFFFFFFFF exceeds every time a
\* scan compares it with (0, or a tick count of a short run).
MaxU32 == 2147483647

\* The value of a victim variable that no iteration assigned.
Uninit == -2

\* The pages in the order the for loops visit them.
PageOrder(pt) == SetToSortSeq(DOMAIN pt, <)

\* The test every scan makes first: a valid page that is not in frame
\* notMe (physicalPage != (unsigned int) notMe; -1 matches no frame).
Scanned(pt, notMe, p) == pt[p].valid /\ pt[p].physicalPage # notMe

\* getTime() of a TranslationEntry whose setTime does nothing.
ZeroTime(pt) == [p \in DOMAIN pt |-> 0]

\* FIFO_Choose_Victim (addrspace.cc:860-896): page 0 is taken outright when
\* scanned, a later page when its time is below victimTime.
FIFOStep(pt, notMe, time, acc, p) ==
    IF Scanned(pt, notMe, p) /\ (p = 0 \/ time[p] < acc.time)
    THEN [victim |-> pt[p].physicalPage, time |-> time[p]]
    ELSE acc
\* Mutant: victimTime starts at 0 instead of 0xFFFFFFFF.
FIFO_Scan_ZeroInit(pt, notMe, time) ==
    FoldLeft(LAMBDA acc, p : FIFOStep(pt, notMe, time, acc, p),
             [victim |-> Uninit, time |-> 0], PageOrder(pt)).victim
FIFO_Scan(pt, notMe, time) ==
    FoldLeft(LAMBDA acc, p : FIFOStep(pt, notMe, time, acc, p),
             [victim |-> Uninit, time |-> MaxU32], PageOrder(pt)).victim

\* LRU_Choose_Victim (addrspace.cc:907-946): a history equal to the
\* victim's wins on a smaller time, a smaller history wins outright.
\* Mutant: the history comparison is inverted (history > victimHist).
LRUStep_Greater(pt, notMe, time, acc, p) ==
    LET take == [victim |-> pt[p].physicalPage, time |-> time[p],
                 hist |-> pt[p].history]
    IN  IF ~Scanned(pt, notMe, p) THEN acc
        ELSE IF pt[p].history = acc.hist
             THEN IF acc.time > time[p] THEN take ELSE acc
        ELSE IF pt[p].history > acc.hist THEN take
        ELSE acc
LRUStep(pt, notMe, time, acc, p) ==
    LET take == [victim |-> pt[p].physicalPage, time |-> time[p],
                 hist |-> pt[p].history]
    IN  IF ~Scanned(pt, notMe, p) THEN acc
        ELSE IF pt[p].history = acc.hist
             THEN IF acc.time > time[p] THEN take ELSE acc
        ELSE IF pt[p].history < acc.hist THEN take
        ELSE acc
LRU_Scan(pt, notMe, time) ==
    FoldLeft(LAMBDA acc, p : LRUStep(pt, notMe, time, acc, p),
             [victim |-> Uninit, time |-> MaxU32, hist |-> 255],
             PageOrder(pt)).victim

\* SC_Choose_Victim (addrspace.cc:989-1049).  choice[c] and time[c] per
\* class c = 2*use + dirty.  A page goes to class 0 or 1 only while its
\* time beats that class's; every other scanned page (a used one, or an
\* unused one whose time does not beat its class) has clearSC() called
\* (translate.cc:267-270) and is filed as class 2 or 3.
SCTake(acc, c, pt, time, p) ==
    [acc EXCEPT !.choice[c] = pt[p].physicalPage, !.time[c] = time[p]]
SCStep(pt, notMe, time, acc, p) ==
    LET e == pt[p]   \* each page is read once, before its own clearSC
        cleared == [acc EXCEPT !.cleared = @ \cup {p}]
    IN  IF ~Scanned(pt, notMe, p) THEN acc
        ELSE IF ~e.use /\ ~e.dirty /\ time[p] < acc.time[0]
             THEN SCTake(acc, 0, pt, time, p)
        ELSE IF ~e.use /\ e.dirty /\ time[p] < acc.time[1]
             THEN SCTake(acc, 1, pt, time, p)
        ELSE IF ~e.dirty /\ time[p] < acc.time[2]
             THEN SCTake(cleared, 2, pt, time, p)
        ELSE IF time[p] < acc.time[3]
             THEN SCTake(cleared, 3, pt, time, p)
        ELSE cleared
\* The result: the first class with a choice, else -1, and the page table
\* with the use bits of the cleared pages reset.
SCResult(pt, acc) ==
    LET found == {c \in 0..3 : acc.choice[c] >= 0}
    IN  [victim |-> IF found = {} THEN -1
                    ELSE acc.choice[CHOOSE c \in found : \A d \in found : c <= d],
         pt |-> [p \in DOMAIN pt |->
                   IF p \in acc.cleared THEN [pt[p] EXCEPT !.use = FALSE]
                   ELSE pt[p]]]
SC_Scan(pt, notMe, time) ==
    SCResult(pt, FoldLeft(LAMBDA acc, p : SCStep(pt, notMe, time, acc, p),
                          [choice |-> [c \in 0..3 |-> -1],
                           time |-> [c \in 0..3 |-> MaxU32], cleared |-> {}],
                          PageOrder(pt)))
=============================================================================
