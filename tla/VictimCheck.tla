---------------------------- MODULE VictimCheck ----------------------------
(***************************************************************************)
(* The victim scans of PageVictims against the selection rules of the     *)
(* page-replacement policies (spec.md section 4.3), over every small page *)
(* table.  A state is one page table, the frame the caller excludes and   *)
(* the load time pagein stamped on each page (memmgr.cc:284,              *)
(* te->setTime(stats->totalTicks)): distinct, since two page-ins never    *)
(* complete in the same tick.  A step is one second-chance scan, whose   *)
(* only effect on the table is the use bits it clears, so the states      *)
(* include the tables repeated scans leave behind.                        *)
(***************************************************************************)
EXTENDS Integers, FiniteSets, PageVictims

CONSTANTS
    NumPages,   \* pages in the table
    Histories,  \* history bytes a page may carry
    MaxScans    \* bound on the second-chance scans run on one table

Pages == 0..NumPages-1

\* Entries as pagein and the reference bits leave them; page p sits in
\* frame p when valid (a frame holds one page of a process).
Entries(p) == [valid: BOOLEAN, physicalPage: {p}, use: BOOLEAN,
               dirty: BOOLEAN, history: Histories]

VARIABLES
    pageTable,  \* the process's page table
    notMe,      \* the frame Choose_Victim must not return, or -1
    loadTime,   \* the load time pagein recorded for each page
    scans       \* second-chance scans run so far (no code state)

vars == <<pageTable, notMe, loadTime, scans>>

Init ==
    /\ pageTable \in {t \in [Pages -> UNION {Entries(p) : p \in Pages}] :
                        \A p \in Pages : t[p].physicalPage = p}
    /\ notMe \in {-1} \cup Pages
    /\ loadTime \in {lt \in [Pages -> 1..NumPages] :
                       \A p, q \in Pages : p # q => lt[p] # lt[q]}
    /\ scans = 0

\* Choose_Victim runs the second-chance scan (memmgr.cc:429); only the
\* use bits it clears stay behind.
SCScan ==
    /\ scans < MaxScans
    /\ scans' = scans + 1
    /\ pageTable' = SC_Scan(pageTable, notMe, ZeroTime(pageTable)).pt
    /\ UNCHANGED <<notMe, loadTime>>

Next == SCScan

Spec == Init /\ [][Next]_vars
-----------------------------------------------------------------------------
(* The policies as spec.md section 4.3 states them                         *)

Eligible == {p \in Pages : Scanned(pageTable, notMe, p)}
Frame(p) == pageTable[p].physicalPage

\* The eligible page whose key, a pair compared lexicographically, is
\* least (keys end in the load time, so they are distinct).
LexLeq(a, b) == a[1] < b[1] \/ (a[1] = b[1] /\ a[2] <= b[2])
Least(key(_)) == CHOOSE p \in Eligible : \A q \in Eligible : LexLeq(key(p), key(q))

SpecFIFO == Frame(Least(LAMBDA p : <<0, loadTime[p]>>))
SpecLRU  == Frame(Least(LAMBDA p : <<pageTable[p].history, loadTime[p]>>))
SCClassOf(e) == 2 * (IF e.use THEN 1 ELSE 0) + (IF e.dirty THEN 1 ELSE 0)
SpecSC   == Frame(Least(LAMBDA p : <<SCClassOf(pageTable[p]), loadTime[p]>>))
\* Every inspected page with its use bit set loses it, nothing else changes.
SpecSCTable == [p \in Pages |-> IF p \in Eligible
                                THEN [pageTable[p] EXCEPT !.use = FALSE]
                                ELSE pageTable[p]]

\* The frames the primary criterion of each policy allows, ties left open.
MinHistoryFrames ==
    {Frame(p) : p \in {q \in Eligible :
        \A o \in Eligible : pageTable[q].history <= pageTable[o].history}}
LowestClassFrames ==
    {Frame(p) : p \in {q \in Eligible :
        \A o \in Eligible : SCClassOf(pageTable[q]) <= SCClassOf(pageTable[o])}}
-----------------------------------------------------------------------------
(* Properties                                                              *)

TypeOK ==
    /\ pageTable \in [Pages -> UNION {Entries(p) : p \in Pages}]
    /\ notMe \in {-1} \cup Pages
    /\ loadTime \in [Pages -> 1..NumPages]
    /\ scans \in 0..MaxScans

\* Were getTime to return the load time pagein records, the three scans
\* of AddrSpace would pick exactly the victim the policy names (the
\* first-page special case of FIFO_Choose_Victim, the equal-history branch
\* of LRU_Choose_Victim and the class fall-through of SC_Choose_Victim
\* included), and the second-chance scan would clear exactly the use bits
\* of the pages it inspects.
ScansImplementPolicies ==
    Eligible # {} =>
        /\ FIFO_Scan(pageTable, notMe, loadTime) = SpecFIFO
        /\ LRU_Scan(pageTable, notMe, loadTime) = SpecLRU
        /\ SC_Scan(pageTable, notMe, loadTime)
               = [victim |-> SpecSC, pt |-> SpecSCTable]

\* With the getTime stub every time reads 0, and the scans still honour
\* each policy's primary criterion: LRU returns a page of least history,
\* second chance a page of the lowest class and clears the same use bits,
\* FIFO some eligible page; only the tie-break by load time is lost.
StubOnlyBreaksTies ==
    Eligible # {} =>
        /\ FIFO_Scan(pageTable, notMe, ZeroTime(pageTable))
               \in {Frame(p) : p \in Eligible}
        /\ LRU_Scan(pageTable, notMe, ZeroTime(pageTable)) \in MinHistoryFrames
        /\ SC_Scan(pageTable, notMe, ZeroTime(pageTable)).victim
               \in LowestClassFrames
        /\ SC_Scan(pageTable, notMe, ZeroTime(pageTable)).pt = SpecSCTable

\* FIFO evicts the page loaded earliest (spec.md section 4.3, and its test
\* "pages loaded at times [5, 2, 9] ... returns the page loaded at time
\* 2"), with getTime as the code has it.
FIFOEvictsOldest ==
    Eligible # {} =>
        FIFO_Scan(pageTable, notMe, ZeroTime(pageTable)) = SpecFIFO
=============================================================================
