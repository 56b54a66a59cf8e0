------------------------------ MODULE VMemory ------------------------------
(***************************************************************************)
(* What the virtual-memory subsystem promises the user programs: every     *)
(* process has a private array of pages.  A page holds what its executable *)
(* put there (or zeroes) until the process writes it; a fork gives the     *)
(* child a copy of the parent's pages; nothing else (page faults,          *)
(* evictions, copy-on-write copies, working-set refreshes) changes what a  *)
(* process reads.  VirtualMemory is checked to implement this module.      *)
(***************************************************************************)
EXTENDS Naturals

CONSTANTS
    Spaces,       \* the processes (one AddrSpace each)
    Pages,        \* the virtual page numbers of an address space
    Values,       \* the contents a page can hold
    Initial,      \* Initial[p]: what the executable image gives page p
    Blank         \* the contents of a process that does not exist

VARIABLES
    spaceState,   \* spaceState[s] \in {"unused", "alive", "dead"}
    contents,     \* contents[s][p]: what process s reads at page p
    lastStore     \* <<s, p, v>> if the last step was s storing v at p, else <<>>

vars == <<spaceState, contents, lastStore>>

TypeOK ==
    /\ spaceState \in [Spaces -> {"unused", "alive", "dead"}]
    /\ contents \in [Spaces -> [Pages -> Values]]
    /\ lastStore \in {<<>>} \cup (Spaces \X Pages \X Values)

Init ==
    /\ spaceState = [s \in Spaces |-> "unused"]
    /\ contents = [s \in Spaces |-> Blank]
    /\ lastStore = <<>>

\* The first user program is loaded from its executable.
Create(s) ==
    /\ \A t \in Spaces : spaceState[t] = "unused"
    /\ spaceState' = [spaceState EXCEPT ![s] = "alive"]
    /\ contents' = [contents EXCEPT ![s] = Initial]
    /\ lastStore' = <<>>

\* A process stores v at page p.
Write(s, p, v) ==
    /\ spaceState[s] = "alive"
    /\ contents' = [contents EXCEPT ![s][p] = v]
    /\ lastStore' = <<s, p, v>>
    /\ UNCHANGED spaceState

\* Process c forks child n, which starts with a copy of c's memory.
Fork(c, n) ==
    /\ spaceState[c] = "alive"
    /\ spaceState[n] = "unused"
    /\ spaceState' = [spaceState EXCEPT ![n] = "alive"]
    /\ contents' = [contents EXCEPT ![n] = contents[c]]
    /\ lastStore' = <<>>

\* A process runs a new program: its memory is the executable image again.
Exec(s) ==
    /\ spaceState[s] = "alive"
    /\ contents' = [contents EXCEPT ![s] = Initial]
    /\ lastStore' = <<>>
    /\ UNCHANGED spaceState

\* A process exits and its memory is gone.
Exit(s) ==
    /\ spaceState[s] = "alive"
    /\ spaceState' = [spaceState EXCEPT ![s] = "dead"]
    /\ contents' = [contents EXCEPT ![s] = Blank]
    /\ lastStore' = <<>>

\* Anything else the system does (loading, faulting, evicting, copying a
\* page, scheduling) leaves every process's memory as it was.
Internal ==
    /\ lastStore' = <<>>
    /\ UNCHANGED <<spaceState, contents>>

Next ==
    \/ \E s \in Spaces : Create(s) \/ Exec(s) \/ Exit(s)
    \/ \E s \in Spaces, p \in Pages, v \in Values : Write(s, p, v)
    \/ \E c, n \in Spaces : Fork(c, n)
    \/ Internal

Spec == Init /\ [][Next]_vars
=============================================================================
