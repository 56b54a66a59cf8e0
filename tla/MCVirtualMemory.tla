-------------------------- MODULE MCVirtualMemory --------------------------
(* Small instances of VirtualMemory for TLC.                              *)
EXTENDS VirtualMemory, TLC

\* Page 0 text, page 1 data, page 2 the stack.
MCSection3 == 0 :> "text" @@ 1 :> "data" @@ 2 :> "stack"

\* Text, two data pages, bss and the stack.
MCSection5 == 0 :> "text" @@ 1 :> "data" @@ 2 :> "data" @@ 3 :> "bss" @@ 4 :> "stack"

\* Page 0 text, page 1 the stack.
MCSection2 == 0 :> "text" @@ 1 :> "stack"

\* Parts of the state no code path reads before overwriting are merged:
\* the contents and page number of a frame or swap frame nobody owns
\* (pagein and pageout read only owned frames, add_frame_owner compares
\* the page number only when there are owners), the offset of an entry
\* not in the swap file (read only when File is the swap file), the dirty
\* bit of an invalid entry (pagein resets it, pageout and Translate read
\* only valid ones), the use bits under a policy other than second chance
\* (only SC_Choose_Victim reads them), and the table and working-set size
\* of an address space that is not alive (Fork overwrites both, a deleted
\* space is never reused).  The history variable lastStore is left out
\* too: no action reads it and whether a step is a VMemory step does not
\* depend on its old value.
MCEntryView(e) ==
    [e EXCEPT !.offset = IF e.File = "swap" THEN @ ELSE 0,
              !.dirty = e.valid /\ @,
              !.use = IF pageReplPolicy = "SECONDCHANCE" THEN @ ELSE FALSE]
MCView ==
    <<spaceState, currentSpace, page_flags, owners, frame_flags, swapOwners,
      dumbI, halted, pageReplPolicy,
      [s \in Spaces |-> IF spaceState[s] = "alive" THEN wSetSize[s] ELSE 0],
      [s \in Spaces |-> IF spaceState[s] = "alive"
                        THEN [p \in Pages |-> MCEntryView(pageTable[s][p])]
                        ELSE <<>>],
      [f \in FrameIds |-> IF owners[f] = <<>> THEN <<>>
                          ELSE <<mainMemory[f], ownerPage[f]>>],
      [n \in SwapIds |-> IF swapOwners[n] = <<>> THEN <<>>
                         ELSE <<swapData[n], swapPage[n]>>]>>

MCSymmetry == Permutations(Spaces)
=============================================================================
