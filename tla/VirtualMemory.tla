--------------------------- MODULE VirtualMemory ---------------------------
(***************************************************************************)
(* The demand-paged virtual memory of the Nachos kernel: the per-process   *)
(* page tables (AddrSpace, addrspace.cc), the physical frame table         *)
(* (MemoryManager, memmgr.cc), the swap frame table (SwapManager,          *)
(* swapmgr.cc), address translation (Machine::Translate, translate.cc) and *)
(* the working-set refresh of the timer interrupt (Thread::refreshWss).    *)
(*                                                                         *)
(* The kernel runs on one simulated CPU and none of these routines yields, *)
(* so every kernel entry (a page fault, a memory access, Fork, process     *)
(* destruction, a timer tick) runs to completion before anything else      *)
(* happens.  Each routine is therefore written as an operator from a state *)
(* record to a state record, and a kernel entry composes them the way the  *)
(* C++ code calls them; the entry is one action.  A fatal ASSERT, a NULL   *)
(* dereference or a read of an uninitialised victim stops the machine:    *)
(* the model records why in `halted' and takes no further step.           *)
(***************************************************************************)
EXTENDS Naturals, FiniteSets, Sequences, SequencesExt, PageVictims

CONSTANTS
    Spaces,             \* the AddrSpace objects a run may create
    NoSpace,            \* currentThread has no address space
    NumPages,           \* numPages: pages of the (one) executable image
    NumPhysPages,       \* frames of main memory
    NumSwapPages,       \* frames of the swap file
    Section,            \* Section[p]: what Setup_Load puts at page p
    TextPage,           \* first page of the TEXT section
    Policies,           \* the policies -prp may select at boot
    WsDeltaSize,        \* wsDeltaSize, the working-set window
    ContractionEnabled, \* Thread::wssContractionEnabled
    WSetGarbage,        \* values wSetSize may hold before its first refresh
    HistoryGarbage,     \* values an uninitialised history byte may hold
    WriteVals           \* values user programs store

Pages    == 0..NumPages-1
FrameIds == 0..NumPhysPages-1
SwapIds  == 0..NumSwapPages-1

ASSUME /\ NoSpace \notin Spaces
       /\ NumPages >= 2 /\ NumPhysPages >= 2 /\ NumSwapPages >= 1
       /\ Section \in [Pages -> {"text", "data", "bss", "stack"}]
       /\ Section[NumPages-1] = "stack" /\ Section[TextPage] = "text"
       /\ Policies \subseteq {"DUMB", "FIFO", "LRU", "SECONDCHANCE"}
       /\ WsDeltaSize \in {1, 2, 4, 8}
       /\ WSetGarbage \subseteq Int /\ HistoryGarbage \subseteq 0..255

(* Page contents, abstracted to one value per page: what the executable    *)
(* holds at page p, the zero page, and what programs write.               *)
ExecVal(p) == 100 + p
Values == {0} \cup {ExecVal(p) : p \in Pages} \cup WriteVals

\* A page-table entry (TranslationEntry, translate.h).  File is NULL, the
\* executable or the swap file; offset is kept only for the swap file, as
\* a swap frame number; getTime() is always 0 and setTime does nothing
\* (translate.cc:289-302), so load_time is left out.
Entry == [valid: BOOLEAN, readOnly: BOOLEAN, use: BOOLEAN, dirty: BOOLEAN,
          File: {"none", "exec", "swap"}, offset: SwapIds, zero: BOOLEAN,
          cow: BOOLEAN, physicalPage: FrameIds, history: 0..255]

VARIABLES
    spaceState,   \* AddrSpace object: "unused", "alive" or "dead" (deleted)
    pageTable,    \* pageTable[s][p]
    wSetSize,     \* AddrSpace::wSetSize
    currentSpace, \* currentThread->space
    page_flags,   \* MemoryManager bitmap: frames handed out
    owners,       \* Frames[f].owners, in order
    ownerPage,    \* Frames[f].owners_page_number
    frame_flags,  \* SwapManager bitmap
    swapOwners,   \* SwapManager Frames[n].owners
    swapPage,     \* SwapManager Frames[n].owners_page_number
    mainMemory,   \* contents of each frame
    swapData,     \* contents of each swap frame
    dumbI,        \* the static cursor of Dumb_Choose_Victim
    halted,       \* "no", or why the machine stopped
    pageReplPolicy, \* the global set once by Initialize (system.cc:255-264)
    lastStore     \* history: <<s, p, v>> if the last step ran a store of v
                  \* to page p by process s, else <<>> (no code state)

kvars == <<spaceState, pageTable, wSetSize, currentSpace, page_flags, owners,
           ownerPage, frame_flags, swapOwners, swapPage, mainMemory, swapData,
           dumbI, halted>>
vars == <<kvars, pageReplPolicy, lastStore>>

-----------------------------------------------------------------------------
(* The whole kernel state as one record, so that routines compose.         *)
St == [state |-> spaceState, pt |-> pageTable, wss |-> wSetSize,
       cur |-> currentSpace, pflags |-> page_flags, owners |-> owners,
       opage |-> ownerPage, sflags |-> frame_flags, sowners |-> swapOwners,
       spage |-> swapPage, mem |-> mainMemory, sdata |-> swapData,
       dumbI |-> dumbI, halted |-> halted, ret |-> 0]

\* A run of kernel code ends in r; an abort freezes the machine as it was.
Commit(r) ==
    IF r.halted # "no"
    THEN /\ halted' = r.halted
         /\ UNCHANGED <<spaceState, pageTable, wSetSize, currentSpace,
                        page_flags, owners, ownerPage, frame_flags,
                        swapOwners, swapPage, mainMemory, swapData, dumbI>>
    ELSE /\ spaceState' = r.state /\ wSetSize' = r.wss
         \* the table rebuilt entry by entry, so the state holds plain values
         /\ pageTable' = [s \in Spaces |-> [p \in Pages |-> r.pt[s][p]]]
         /\ currentSpace' = r.cur /\ page_flags' = r.pflags
         /\ owners' = r.owners /\ ownerPage' = r.opage
         /\ frame_flags' = r.sflags /\ swapOwners' = r.sowners
         /\ swapPage' = r.spage /\ mainMemory' = r.mem /\ swapData' = r.sdata
         /\ dumbI' = r.dumbI /\ halted' = "no"

Fail(r, why) == [r EXCEPT !.halted = why]
Ok(r) == r.halted = "no"

-----------------------------------------------------------------------------
(* AddrSpace helpers                                                       *)

\* NumPhysPagesOwned and TooManyFrames (addrspace.cc:822-848)
NumPhysPagesOwned(r, s) == Cardinality({p \in Pages : r.pt[s][p].valid})
TooManyFrames(r, s) == NumPhysPagesOwned(r, s) > r.wss[s]

\* FIFO_Choose_Victim (addrspace.cc:860-896) and LRU_Choose_Victim
\* (addrspace.cc:907-946), run with the getTime stub: every time reads 0,
\* so the first eligible page (of least history, for LRU) wins.  With no
\* eligible page `victim' is returned uninitialised.
VictimOf(r, v) ==
    IF v = Uninit THEN Fail(r, "uninitialised victim") ELSE [r EXCEPT !.ret = v]
FIFO_Choose_Victim(r, s, notMe) ==
    VictimOf(r, FIFO_Scan(r.pt[s], notMe, ZeroTime(r.pt[s])))
LRU_Choose_Victim(r, s, notMe) ==
    VictimOf(r, LRU_Scan(r.pt[s], notMe, ZeroTime(r.pt[s])))

\* SC_Choose_Victim (addrspace.cc:989-1049), the scan of PageVictims with
\* the getTime stub; -1 when no page is eligible.
SC_Choose_Victim(r, s, notMe) ==
    LET res == SC_Scan(r.pt[s], notMe, ZeroTime(r.pt[s]))
    IN  [r EXCEPT !.ret = res.victim, !.pt[s] = res.pt]

-----------------------------------------------------------------------------
(* MemoryManager and SwapManager                                           *)

\* BitMap::Find: the lowest clear bit (then set), or -1.
FindFree(flags, ids) == IF ids \subseteq flags THEN -1 ELSE Min(ids \ flags)

\* get_next_free_page (memmgr.cc:34-59): refuses a process over its
\* working set, else takes the lowest free frame.
Get_next_free_page(r) ==
    LET f == FindFree(r.pflags, FrameIds)
    IN  IF TooManyFrames(r, r.cur) \/ f = -1 THEN [r EXCEPT !.ret = -1]
        ELSE [r EXCEPT !.pflags = @ \cup {f}, !.ret = f]

\* Mutant: the last owner leaves but the bitmap bit stays set.
Release_page_KeepFlag(r, f, s) ==
    CASE Len(r.owners[f]) = 1 -> [r EXCEPT !.owners[f] = <<>>]
      [] Len(r.owners[f]) = 0 -> Fail(r, "release_page: new AddrSpace*[-1]")
      [] s \notin ToSet(r.owners[f]) -> Fail(r, "release_page: owners overflow")
      [] OTHER -> [r EXCEPT !.owners[f] = Remove(@, s)]

\* release_page (memmgr.cc:61-90).  A sole owner frees the frame whoever
\* it is; otherwise the array of n-1 entries receives every other owner
\* (n of them, an overflow, when s is not an owner).
Release_page(r, f, s) ==
    CASE Len(r.owners[f]) = 1 ->
             [r EXCEPT !.pflags = @ \ {f}, !.owners[f] = <<>>]
      [] Len(r.owners[f]) = 0 -> Fail(r, "release_page: new AddrSpace*[-1]")
      [] s \notin ToSet(r.owners[f]) -> Fail(r, "release_page: owners overflow")
      [] OTHER -> [r EXCEPT !.owners[f] = Remove(@, s)]

\* add_frame_owner (memmgr.cc:123-185)
Add_frame_owner(r, f, s, p) ==
    CASE s \in ToSet(r.owners[f]) -> Fail(r, "add_frame_owner: already owner")
      [] r.owners[f] # <<>> /\ r.opage[f] # p ->
             Fail(r, "add_frame_owner: owners_page_number")
      [] OTHER -> [r EXCEPT !.owners[f] = Append(@, s), !.opage[f] = p]

\* SwapManager::release_frame (swapmgr.cc:64-92)
Release_frame(r, n, s) ==
    CASE Len(r.sowners[n]) = 1 ->
             [r EXCEPT !.sflags = @ \ {n}, !.sowners[n] = <<>>]
      [] Len(r.sowners[n]) = 0 -> Fail(r, "release_frame: new AddrSpace*[-1]")
      [] s \notin ToSet(r.sowners[n]) -> Fail(r, "release_frame: owners overflow")
      [] OTHER -> [r EXCEPT !.sowners[n] = Remove(@, s)]

\* SwapManager::add_frame_owner (swapmgr.cc:105-133): no duplicate check.
Swap_add_frame_owner(r, n, s, p) ==
    IF r.sowners[n] # <<>> /\ r.spage[n] # p
    THEN Fail(r, "swap add_frame_owner: owners_page_number")
    ELSE [r EXCEPT !.sowners[n] = Append(@, s), !.spage[n] = p]

\* Dumb_Choose_Victim (memmgr.cc:440-450): step the static cursor by 17
\* until it rests on an owned frame other than notMe.  When every frame is
\* free or notMe the loop never ends.
RECURSIVE DumbScan(_, _, _, _)
DumbScan(ow, i, notMe, k) ==
    LET j == (i + 17) % NumPhysPages
    IN  IF k = 0 THEN -1
        ELSE IF j = notMe \/ ow[j] = <<>> THEN DumbScan(ow, j, notMe, k - 1)
        ELSE j
\* Mutants: the cursor is advanced but never reduced modulo NumPhysPages;
\* the scan forgets the notMe test.
Dumb_NoWrap(r, notMe) ==
    LET j == DumbScan(r.owners, r.dumbI, notMe, NumPhysPages)
    IN  IF j = -1 THEN Fail(r, "Dumb_Choose_Victim loops forever")
        ELSE [r EXCEPT !.dumbI = r.dumbI + 17, !.ret = j]
Dumb_IgnoreNotMe(r, notMe) ==
    LET j == DumbScan(r.owners, r.dumbI, -1, NumPhysPages)
    IN  IF j = -1 THEN Fail(r, "Dumb_Choose_Victim loops forever")
        ELSE [r EXCEPT !.dumbI = j, !.ret = j]
Dumb_Choose_Victim(r, notMe) ==
    LET j == DumbScan(r.owners, r.dumbI, notMe, NumPhysPages)
    IN  IF j = -1 THEN Fail(r, "Dumb_Choose_Victim loops forever")
        ELSE [r EXCEPT !.dumbI = j, !.ret = j]

\* Choose_Victim (memmgr.cc:419-438): the configured policy runs on the
\* current process only when that process is over its working set.
PolicyVictim(r, notMe) ==
    CASE pageReplPolicy = "DUMB" \/ ~TooManyFrames(r, r.cur) -> Dumb_Choose_Victim(r, notMe)
      [] pageReplPolicy = "FIFO" -> FIFO_Choose_Victim(r, r.cur, notMe)
      [] pageReplPolicy = "LRU"  -> LRU_Choose_Victim(r, r.cur, notMe)
      [] OTHER           -> SC_Choose_Victim(r, r.cur, notMe)
CheckVictim(c) ==
    IF Ok(c) /\ c.ret = -1 THEN Fail(c, "Choose_Victim: page == -1") ELSE c
Choose_Victim(r, notMe) == CheckVictim(PolicyVictim(r, notMe))

\* A deleted AddrSpace still listed as an owner is a dangling pointer.
AllAlive(r, os) == \A i \in DOMAIN os : r.state[os[i]] = "alive"

\* Mutant: the contents go to swap only when a swap frame is first taken,
\* so a page dirtied again after a page-in is never written back.
WriteBack_FirstOnly(r, local, victim, n) ==
    IF local.dirty /\ local.File # "swap"
    THEN [r EXCEPT !.sdata[n] = r.mem[victim]] ELSE r

\* pageout writes a dirty frame to swap frame n (memmgr.cc:322, 349-350).
WriteBack(r, local, victim, n) ==
    IF local.dirty THEN [r EXCEPT !.sdata[n] = r.mem[victim]] ELSE r

\* pageout (memmgr.cc:301-409).  Only the first owner's entry is looked at.
Pageout(r, victim) ==
  LET os == r.owners[victim]
      vp == r.opage[victim]
      local == r.pt[os[1]][vp]
      slot == FindFree(r.sflags, SwapIds)
      \* dirty and never swapped: take a swap frame, point every owner at it
      r1 == IF local.dirty /\ local.File # "swap"
            THEN [r EXCEPT !.sflags = @ \cup {slot},
                           !.pt = [s \in Spaces |-> IF s \in ToSet(os)
                                    THEN [r.pt[s] EXCEPT ![vp].File = "swap",
                                            ![vp].offset = slot, ![vp].zero = FALSE]
                                    ELSE r.pt[s]]]
            ELSE IF ~local.dirty /\ local.File # "swap"
            THEN [r EXCEPT !.pt = [s \in Spaces |-> IF s \in ToSet(os)
                                    THEN [r.pt[s] EXCEPT ![vp].cow = FALSE]
                                    ELSE r.pt[s]]]
            ELSE r
      e1 == r1.pt[os[1]][vp]
      r2 == WriteBack(r1, local, victim, e1.offset)
      r3 == IF e1.File = "swap"
            THEN [r2 EXCEPT !.sowners[e1.offset] = os, !.spage[e1.offset] = vp]
            ELSE r2
  IN CASE os = <<>> -> Fail(r, "pageout: owners == NULL")
       [] ~AllAlive(r, os) -> Fail(r, "pageout: deleted owner")
       [] local.dirty /\ local.File # "swap" /\ slot = -1 ->
              Fail(r, "pageout: swap full")
       [] OTHER ->
            [r3 EXCEPT !.pt = [s \in Spaces |-> IF s \in ToSet(os)
                                THEN [r3.pt[s] EXCEPT ![vp].valid = FALSE]
                                ELSE r3.pt[s]],
                       !.owners[victim] = <<>>]

\* The frame handed to pagein or duplicatePage: a free one, or a victim
\* that is paged out first (memmgr.cc:211-219, addrspace.cc:603-607).
EvictVictim(v) == IF ~Ok(v) THEN v ELSE [Pageout(v, v.ret) EXCEPT !.ret = v.ret]
TakeFrame(g, notMe) == IF g.ret >= 0 THEN g ELSE EvictVictim(Choose_Victim(g, notMe))
ObtainFrame(r, notMe) == TakeFrame(Get_next_free_page(r), notMe)

\* Mutant: the owner loop stops one short (i < numOwners - 1).
MarkResident_SkipLast(r, os, p, dest) ==
    [r EXCEPT !.pt = [o \in Spaces |-> IF o \in ToSet(SubSeq(os, 1, Len(os) - 1))
                       THEN [r.pt[o] EXCEPT ![p].valid = TRUE, ![p].use = FALSE,
                               ![p].dirty = FALSE, ![p].physicalPage = dest]
                       ELSE r.pt[o]]]

\* pagein's loop over the frame's owners (memmgr.cc:274-285): each owner's
\* entry for p becomes a valid, clean, unused mapping of dest.
MarkResident(r, os, p, dest) ==
    [r EXCEPT !.pt = [o \in Spaces |-> IF o \in ToSet(os)
                       THEN [r.pt[o] EXCEPT ![p].valid = TRUE, ![p].use = FALSE,
                               ![p].dirty = FALSE, ![p].physicalPage = dest]
                       ELSE r.pt[o]]]

\* pagein (memmgr.cc:197-291): load page p of s into a frame and mark it
\* valid in every owner's table.
\* (LoadFrame is pagein after a frame dest = r1.ret has been obtained.)
LoadFrame(r1, p, s) ==
  LET dest == r1.ret
      local == r1.pt[s][p]
      val == IF local.zero THEN 0
             ELSE IF local.File = "exec" THEN ExecVal(p)
             ELSE r1.sdata[local.offset]
      r2 == IF local.File = "swap"
            THEN [r1 EXCEPT !.owners[dest] = r1.sowners[local.offset],
                            !.opage[dest] = r1.spage[local.offset]]
            ELSE [r1 EXCEPT !.owners[dest] = <<s>>, !.opage[dest] = p,
                            !.pt[s][p].cow = FALSE]
      os == r2.owners[dest]
  IN CASE ~Ok(r1) -> r1
       [] ~local.zero /\ local.File = "none" -> Fail(r1, "pagein: NULL File")
       [] ~AllAlive(r2, os) -> Fail(r1, "pagein: deleted owner")
       [] OTHER -> MarkResident([r2 EXCEPT !.mem[dest] = val], os, p, dest)
Pagein(r, p, s) == LoadFrame(ObtainFrame(r, -1), p, s)

\* Mutant: the private copy forgets its swap frame without release_frame.
DropSwapCopy_NoRelease(r, s, p) ==
    IF r.pt[s][p].File = "swap" THEN [r EXCEPT !.pt[s][p].File = "none"] ELSE r

\* duplicatePage's release of the shared swap copy (addrspace.cc:618-622).
DropSwapCopy(r, s, p) ==
    IF r.pt[s][p].File = "swap"
    THEN [Release_frame(r, r.pt[s][p].offset, s) EXCEPT !.pt[s][p].File = "none"]
    ELSE r

\* Mutant: memcpy with source and destination swapped.
CopyFrame_Swapped(r, dest, old) == [r EXCEPT !.mem[old] = r.mem[dest]]

\* duplicatePage's memcpy of the shared frame (addrspace.cc:613-615).
CopyFrame(r, dest, old) == [r EXCEPT !.mem[dest] = r.mem[old]]

\* duplicatePage (addrspace.cc:596-634): give s a private copy of page p.
\* Its steps, each taking the state the previous one left; a failed step
\* ends the routine.  The last owner of the old frame loses COW, then the
\* entry of s maps the copy.
DupFinish(r4, s, p, old, dest) ==
  LET r5 == IF Len(r4.owners[old]) = 1
            THEN [r4 EXCEPT !.pt[r4.owners[old][1]][r4.opage[old]].cow = FALSE]
            ELSE r4
  IN  IF ~Ok(r4) THEN r4
      ELSE [r5 EXCEPT !.pt[s][p].cow = FALSE, !.pt[s][p].valid = TRUE,
                      !.pt[s][p].physicalPage = dest, !.pt[s][p].use = FALSE]
DupRelease(r3, s, p, old, dest) ==
    IF ~Ok(r3) THEN r3 ELSE DupFinish(DropSwapCopy(r3, s, p), s, p, old, dest)
DupCopy(r2, s, p, old, dest) ==
    IF ~Ok(r2) THEN r2
    ELSE DupRelease(Release_page(CopyFrame(r2, dest, old), old, s), s, p, old, dest)
DupOwn(r1, s, p, old) ==
    IF ~Ok(r1) THEN r1 ELSE DupCopy(Add_frame_owner(r1, r1.ret, s, p), s, p, old, r1.ret)
DuplicatePage(r, s, p) ==
    DupOwn(ObtainFrame(r, r.pt[s][p].physicalPage), s, p, r.pt[s][p].physicalPage)

-----------------------------------------------------------------------------
(* Kernel entries                                                          *)

\* A fresh page table (SetupTable, addrspace.cc:425-455); `new' leaves the
\* history bytes uninitialised and clearRefHistory does nothing.
BlankEntry(h) ==
    [valid |-> FALSE, readOnly |-> FALSE, use |-> FALSE, dirty |-> FALSE,
     File |-> "none", offset |-> 0, zero |-> FALSE, cow |-> FALSE,
     physicalPage |-> 0, history |-> h]

\* Setup_Load's entry for page p (addrspace.cc:643-780): text is read-only
\* and backed by the executable, data is writable and backed by it, bss and
\* the stack are zero-filled.
LoadedEntry(p, h) ==
    [BlankEntry(h) EXCEPT
        !.File = IF Section[p] \in {"text", "data"} THEN "exec" ELSE "none",
        !.readOnly = (Section[p] = "text"),
        !.zero = (Section[p] \in {"bss", "stack"})]

\* AddrSpace::InitSpace(executable) (addrspace.cc:361-394): SetupTable's
\* blank table of NumPages entries, then Setup_Load fills it and pages in
\* the first text page and the last (stack) page (addrspace.cc:784-785).
InitSpace(r, s, hist) ==
    Pagein(Pagein([r EXCEPT !.pt[s] = [p \in Pages |-> LoadedEntry(p, hist[p])]],
                  TextPage, s),
           NumPages - 1, s)

\* StartProcess (progtest.cc:34-36): a new AddrSpace for the first
\* thread, filled by InitSpace.
StartProcess(s, hist, ws) ==
    /\ \A t \in Spaces : spaceState[t] = "unused"
    /\ Commit(InitSpace([St EXCEPT !.state[s] = "alive", !.cur = s, !.wss[s] = ws],
                        s, hist))

\* A page fault: Translate finds the page invalid and ExceptionHandler
\* calls pagein for the current process (translate.cc:204-207,
\* exception.cc:61-78).  The instruction is retried by a later step.
PageFault(p) ==
    /\ currentSpace # NoSpace /\ halted = "no"
    /\ ~pageTable[currentSpace][p].valid
    /\ Commit(Pagein(St, p, currentSpace))

\* Translate (translate.cc:166-256) of a resident page and the access:
\* a write to a copy-on-write page duplicates it first; then use is set,
\* and on a write dirty is set and the value stored.  The page-table path
\* never looks at readOnly.
Access(r1, s, p, writing, v) ==
    IF ~Ok(r1) THEN r1
    ELSE [r1 EXCEPT !.pt[s][p].use = TRUE,
                    !.pt[s][p].dirty = @ \/ writing,
                    !.mem[r1.pt[s][p].physicalPage] = IF writing THEN v ELSE @]
Translate(r, s, p, writing, v) ==
    Access(IF r.pt[s][p].cow /\ writing THEN DuplicatePage(r, s, p) ELSE r,
           s, p, writing, v)

ReadMem(p) ==
    /\ currentSpace # NoSpace /\ halted = "no"
    /\ pageTable[currentSpace][p].valid
    /\ Commit(Translate(St, currentSpace, p, FALSE, 0))

WriteMem(p, v) ==
    /\ currentSpace # NoSpace /\ halted = "no"
    /\ pageTable[currentSpace][p].valid
    /\ Commit(Translate(St, currentSpace, p, TRUE, v))

\* CopyFrom (addrspace.cc:562-593) after CopyPageTable (259-278): the child
\* shares every swapped and every resident page, both copies marked COW.
\* Mutant: only the child's entry is marked copy-on-write.
CopyPage_ChildOnly(r, c, n, i) ==
    LET e == r.pt[n][i]
        r1 == IF e.File = "swap"
              THEN [Swap_add_frame_owner(r, e.offset, n, i) EXCEPT
                      !.pt[n][i].cow = TRUE]
              ELSE r
        r2 == IF e.valid
              THEN [Add_frame_owner(r1, e.physicalPage, n, i) EXCEPT
                      !.pt[n][i].cow = TRUE]
              ELSE r1
    IN  IF ~Ok(r1) THEN r1 ELSE r2
CopyPage(r, c, n, i) ==
    LET e == r.pt[n][i]
        r1 == IF e.File = "swap"
              THEN [Swap_add_frame_owner(r, e.offset, n, i) EXCEPT
                      !.pt[n][i].cow = TRUE, !.pt[c][i].cow = TRUE]
              ELSE r
        r2 == IF e.valid
              THEN [Add_frame_owner(r1, e.physicalPage, n, i) EXCEPT
                      !.pt[n][i].cow = TRUE, !.pt[c][i].cow = TRUE]
              ELSE r1
    IN  IF ~Ok(r1) THEN r1 ELSE r2

RECURSIVE CopyPages(_, _, _, _)
CopyPages(r, c, n, i) ==
    IF i = NumPages \/ ~Ok(r) THEN r
    ELSE CopyPages(CopyPage(r, c, n, i), c, n, i + 1)

\* CopyPageTable (addrspace.cc:259-278) of one entry: every field but the
\* history byte is copied, so that byte keeps what `new' left in it (h);
\* clearSC clears use, and setTime and clearRefHistory do nothing.
CopyPageTable(e, h) == [e EXCEPT !.use = FALSE, !.history = h]

\* System_Fork (systemcall.cc:467-513): a new AddrSpace for the child,
\* filled by CopyFrom from the current process.
Fork(n, hist, ws) ==
    /\ currentSpace # NoSpace /\ halted = "no"
    /\ spaceState[n] = "unused"
    /\ LET c == currentSpace
           r0 == [St EXCEPT !.state[n] = "alive", !.wss[n] = ws,
                  !.pt[n] = [p \in Pages |-> CopyPageTable(pageTable[c][p], hist[p])]]
       IN  Commit(CopyPages(r0, c, n, 0))

\* One iteration of ~AddrSpace (addrspace.cc:471-487).  The COW clean-up
\* reads pageTable->physicalPage, the frame of page 0, for every i.
ReleaseEntry(r, s, i) ==
    LET e == r.pt[s][i]
        r1 == IF e.valid THEN Release_page(r, e.physicalPage, s) ELSE r
        f0 == r1.pt[s][0].physicalPage
        r2 == IF Len(r1.owners[f0]) = 1
              THEN [r1 EXCEPT !.pt[r1.owners[f0][1]][r1.opage[f0]].cow = FALSE]
              ELSE r1
    IN  CASE ~Ok(r1) -> r1
          [] e.File = "swap" -> Release_frame(r2, e.offset, s)
          [] OTHER -> r2

RECURSIVE ReleaseEntries(_, _, _)
ReleaseEntries(r, s, i) ==
    IF i = NumPages \/ ~Ok(r) THEN r
    ELSE ReleaseEntries(ReleaseEntry(r, s, i), s, i + 1)

\* A finished thread is deleted (Thread::~Thread, thread.cc:347) and with
\* it its address space.
DeleteSpace(s) ==
    /\ spaceState[s] = "alive" /\ halted = "no"
    /\ LET r == [ReleaseEntries(St, s, 0) EXCEPT !.state[s] = "dead"]
       IN  Commit(IF r.cur = s THEN [r EXCEPT !.cur = NoSpace] ELSE r)

\* One iteration of ModifySpace's loop over the old table (addrspace.cc:
\* 326-342), run after the new table is in place.  The COW clean-up reads
\* oldPageTable->physicalPage, the frame of old page 0, for every i.
ExecRelease(r, s, old, i) ==
    LET e == old[i]
        f0 == old[0].physicalPage
        r1 == Release_page(r, e.physicalPage, s)
        r2 == IF Ok(r1) /\ Len(r1.owners[f0]) = 1
              THEN [r1 EXCEPT !.pt[r1.owners[f0][1]][r1.opage[f0]].cow = FALSE]
              ELSE r1
        r3 == IF e.valid THEN r2 ELSE r
    IN  IF Ok(r3) /\ e.File = "swap" THEN Release_frame(r3, e.offset, s) ELSE r3

RECURSIVE ExecReleaseAll(_, _, _, _)
ExecReleaseAll(r, s, old, i) ==
    IF i = NumPages \/ ~Ok(r) THEN r
    ELSE ExecReleaseAll(ExecRelease(r, s, old, i), s, old, i + 1)

\* ModifySpace (addrspace.cc:296-345) for the one executable image:
\* SetupTable and Setup_Load build the new table and page in its first
\* text page and its stack page, and only then are the frames and swap
\* frames of the old table released.
ModifySpace(r, s, hist) ==
    ExecReleaseAll(Pagein(Pagein([r EXCEPT !.pt[s] = [p \in Pages |->
                                                        LoadedEntry(p, hist[p])]],
                                 TextPage, s), NumPages - 1, s),
                   s, r.pt[s], 0)

\* System_Exec (systemcall.cc:429-463): the running process replaces its
\* program.  (A file that does not open returns -ENOENT and changes
\* nothing, a stuttering step.)
Exec(hist) ==
    /\ currentSpace # NoSpace /\ halted = "no"
    /\ Commit(ModifySpace(St, currentSpace, hist))

\* The deltaMask test of refreshWss: one of the top WsDeltaSize bits is set.
Referenced(h) == h \div (2 ^ (8 - WsDeltaSize)) # 0

\* The contract step: page out victims while the process is over its
\* working set.
RECURSIVE Contract(_, _, _), ContractStep(_, _, _)
ContractStep(v, s, k) == IF ~Ok(v) THEN v ELSE Contract(Pageout(v, v.ret), s, k - 1)
Contract(r, s, k) ==
    CASE ~Ok(r) \/ ~TooManyFrames(r, s) -> r
      [] k = 0 -> Fail(r, "contraction does not terminate")
      [] OTHER -> ContractStep(Choose_Victim(r, -1), s, k)

\* The timer interrupt refreshes the running thread's working set
\* (system.cc:115-131, Thread::refreshWss thread.cc:172-249): size it from
\* the history bytes, clamped to 4..32, contract if enabled, then shift
\* every history byte right.
RefreshWss ==
    /\ currentSpace # NoSpace /\ halted = "no"
    /\ LET s == currentSpace
           refCount == Cardinality({p \in Pages :
                                      Referenced(pageTable[s][p].history)})
           size == IF refCount < 4 THEN 4
                   ELSE IF refCount > 32 THEN 32 ELSE refCount
           r1 == [St EXCEPT !.wss[s] = size]
           r2 == IF ContractionEnabled THEN Contract(r1, s, NumPhysPages) ELSE r1
       IN  Commit([r2 EXCEPT !.pt[s] = [p \in Pages |->
                  [r2.pt[s][p] EXCEPT !.history = r2.pt[s][p].history \div 2]]])

\* The scheduler runs another process (Scheduler::Run restores its space).
Switch(s) ==
    /\ spaceState[s] = "alive" /\ s # currentSpace /\ halted = "no"
    /\ currentSpace' = s
    /\ UNCHANGED <<spaceState, pageTable, wSetSize, page_flags, owners,
                   ownerPage, frame_flags, swapOwners, swapPage, mainMemory,
                   swapData, dumbI, halted>>

\* Every process has exited: Nachos halts and nothing changes any more.
AllExited ==
    /\ \A s \in Spaces : spaceState[s] # "alive"
    /\ \E s \in Spaces : spaceState[s] = "dead"
    /\ UNCHANGED kvars

-----------------------------------------------------------------------------
Init ==
    /\ spaceState = [s \in Spaces |-> "unused"]
    /\ pageTable = [s \in Spaces |-> [p \in Pages |-> BlankEntry(0)]]
    /\ wSetSize = [s \in Spaces |-> 0]
    /\ currentSpace = NoSpace
    /\ page_flags = {}
    /\ owners = [f \in FrameIds |-> <<>>]
    /\ ownerPage = [f \in FrameIds |-> 0]
    /\ frame_flags = {}
    /\ swapOwners = [n \in SwapIds |-> <<>>]
    /\ swapPage = [n \in SwapIds |-> 0]
    /\ mainMemory = [f \in FrameIds |-> 0]
    /\ swapData = [n \in SwapIds |-> 0]
    /\ dumbI = 87 % NumPhysPages
    /\ halted = "no"
    /\ pageReplPolicy \in Policies
    /\ lastStore = <<>>

\* No store instruction was executed by this step.
NoStore == lastStore' = <<>>

\* Nothing after boot assigns pageReplPolicy.
Next ==
  /\ UNCHANGED pageReplPolicy
  /\ \/ \E s \in Spaces, h \in [Pages -> HistoryGarbage], w \in WSetGarbage :
           StartProcess(s, h, w) /\ NoStore
     \/ \E s \in Spaces, h \in [Pages -> HistoryGarbage], w \in WSetGarbage :
           Fork(s, h, w) /\ NoStore
     \/ \E p \in Pages : PageFault(p) /\ NoStore
     \/ \E p \in Pages : ReadMem(p) /\ NoStore
     \/ \E p \in Pages, v \in WriteVals :
           /\ WriteMem(p, v)
           /\ lastStore' = IF halted' = "no" THEN <<currentSpace, p, v>> ELSE <<>>
     \/ RefreshWss /\ NoStore
     \/ \E s \in Spaces : DeleteSpace(s) /\ NoStore
     \/ \E s \in Spaces : Switch(s) /\ NoStore
     \/ AllExited /\ NoStore

Spec == Init /\ [][Next]_vars

\* The same system where a running program may also call Exec.
ExecNext == Next \/ (UNCHANGED pageReplPolicy /\ \E h \in [Pages -> HistoryGarbage] :
                                                    Exec(h) /\ NoStore)
ExecSpec == Init /\ [][ExecNext]_vars
-----------------------------------------------------------------------------
(* Properties                                                              *)

TypeOK ==
    /\ spaceState \in [Spaces -> {"unused", "alive", "dead"}]
    /\ pageTable \in [Spaces -> [Pages -> Entry]]
    /\ currentSpace \in Spaces \cup {NoSpace}
    /\ page_flags \subseteq FrameIds /\ frame_flags \subseteq SwapIds
    /\ owners \in [FrameIds -> Seq(Spaces)] /\ ownerPage \in [FrameIds -> Pages]
    /\ swapOwners \in [SwapIds -> Seq(Spaces)] /\ swapPage \in [SwapIds -> Pages]
    /\ mainMemory \in [FrameIds -> Values] /\ swapData \in [SwapIds -> Values]
    /\ dumbI \in FrameIds
    /\ pageReplPolicy \in Policies
    /\ lastStore \in {<<>>} \cup (Spaces \X Pages \X WriteVals)

Alive == {s \in Spaces : spaceState[s] = "alive"}

\* The frame records and the page tables describe the same mapping: every
\* listed owner of frame f is a live process whose entry for the frame's
\* page is valid and points at f, no owner is listed twice, and every
\* valid entry is listed as an owner of its frame.  pagein, pageout,
\* duplicatePage, CopyFrom and ~AddrSpace each edit both sides; a slip in
\* any of them shows here.
OwnersMatchPageTables ==
    /\ \A f \in FrameIds :
          /\ Len(owners[f]) = Cardinality(ToSet(owners[f]))
          /\ \A o \in ToSet(owners[f]) :
                /\ o \in Alive
                /\ pageTable[o][ownerPage[f]].valid
                /\ pageTable[o][ownerPage[f]].physicalPage = f
    /\ \A s \in Alive, p \in Pages :
          LET f == pageTable[s][p].physicalPage
          IN  pageTable[s][p].valid => s \in ToSet(owners[f]) /\ ownerPage[f] = p

\* The same for the swap file: a swap frame's owners are live processes
\* whose entry for that page says "in the swap file at this frame", and a
\* page that says so is listed and its swap frame is allocated.
SwapOwnersMatchPageTables ==
    /\ \A n \in SwapIds :
          /\ Len(swapOwners[n]) = Cardinality(ToSet(swapOwners[n]))
          /\ \A o \in ToSet(swapOwners[n]) :
                /\ o \in Alive
                /\ pageTable[o][swapPage[n]].File = "swap"
                /\ pageTable[o][swapPage[n]].offset = n
    /\ \A s \in Alive, p \in Pages :
          LET n == pageTable[s][p].offset
          IN  pageTable[s][p].File = "swap" =>
                 /\ s \in ToSet(swapOwners[n]) /\ swapPage[n] = p
                 /\ n \in frame_flags

\* A frame is marked used in the bitmap exactly when it has owners (spec
\* section 8).  Frames leave the owner records in pageout and
\* release_page; only release_page clears the bit, so a frame that is
\* paged out and not reused at once is lost to the allocator.
FlagsMatchOwners ==
    /\ page_flags = {f \in FrameIds : owners[f] # <<>>}
    /\ frame_flags = {n \in SwapIds : swapOwners[n] # <<>>}

\* A frame or swap frame shared by several processes is copy-on-write for
\* every one of them, so no process can write into a page another one
\* reads.  CopyFrom sets the flags, pagein copies the owner list from the
\* swap frame, duplicatePage and pageout clear flags.
SharedPagesAreCow ==
    /\ \A f \in FrameIds : Len(owners[f]) >= 2 =>
          \A o \in ToSet(owners[f]) : pageTable[o][ownerPage[f]].cow
    /\ \A n \in SwapIds : Len(swapOwners[n]) >= 2 =>
          \A o \in ToSet(swapOwners[n]) : pageTable[o][swapPage[n]].cow

\* Spec section 8: a page marked copy-on-write is shared, its frame (or
\* swap frame) having at least two owners; when a sharer leaves, the last
\* owner's flag is cleared (duplicatePage, ~AddrSpace, ModifySpace).
CowPagesAreShared ==
    \A s \in Alive, p \in Pages :
        LET e == pageTable[s][p]
        IN  /\ e.cow /\ e.valid => Len(owners[e.physicalPage]) >= 2
            /\ e.cow /\ ~e.valid /\ e.File = "swap" =>
                  Len(swapOwners[e.offset]) >= 2

\* The kernel never stops on a failed ASSERT, a NULL File, a dangling
\* owner pointer, an uninitialised victim or an endless victim scan.
NoAbort == halted = "no"

\* What process s reads at page p: its frame if resident, else the swap
\* frame, the zero page or the executable the entry names.
View(s, p) ==
    LET e == pageTable[s][p]
    IN  CASE e.valid          -> mainMemory[e.physicalPage]
          [] e.File = "swap"  -> swapData[e.offset]
          [] e.zero           -> 0
          [] e.File = "exec"  -> ExecVal(p)
          [] OTHER            -> 0

Blank == [p \in Pages |-> 0]

VM == INSTANCE VMemory WITH
        Values <- Values,
        Initial <- [p \in Pages |->
                      IF Section[p] \in {"text", "data"} THEN ExecVal(p) ELSE 0],
        Blank <- Blank,
        lastStore <- lastStore,
        contents <- [s \in Spaces |->
                       IF spaceState[s] = "alive" THEN [p \in Pages |-> View(s, p)]
                       ELSE Blank]

\* Paging is invisible to programs: the kernel implements VMemory, where a
\* page changes only when its own process writes it and a child starts
\* with its parent's pages.  Evictions to swap, page-ins, COW copies,
\* working-set contraction and the exit of a sharer must all preserve
\* what every process reads.
ImplementsVMemory == VM!Spec

\* Spec section 4.4: a write to a read-only page raises ReadOnlyException,
\* so a process always reads its text pages as the executable holds them.
TextIsNeverModified ==
    \A s \in Alive, p \in Pages : Section[p] = "text" => View(s, p) = ExecVal(p)
=============================================================================
