# TLA+ model of the Nachos kernel: virtual memory and processes

This directory holds TLC-checkable models of the Nachos kernel in
`src/nachos` (EECS 678, project 3). The models cover two parts:
- the demand-paged virtual memory: paging to a swap file, copy-on-write fork, exec, the four page-replacement policies and the working-set refresh;
- the thread and process layer: the scheduler, threads, the ChildExited semaphore, timer preemption, idling, and the Fork, Yield, Nice, Wait, Exit, Halt and GetPPID system calls;
- file descriptors and the console: the per-thread FDTable, the Open, Close, Read, Write, Create and Unlink system calls, the console device's write completion and input poll, and the four console semaphores.

## The system

| Part | Code | State | Operations |
|---|---|---|---|
| Page tables | `userprog/addrspace.cc`, `machine/translate.h` | one `TranslationEntry` per virtual page: valid, readOnly, use, dirty, File (none / executable / swap), offset, zero, cow, physicalPage, history | SetupTable, Setup_Load, CopyPageTable + CopyFrom (fork), duplicatePage (COW copy), ~AddrSpace, ModifySpace (exec), NumPhysPagesOwned, TooManyFrames, FIFO/LRU/SC victim scans |
| Frame table | `userprog/memmgr.cc` | `page_flags` bitmap; per frame the owner list and the owners' page number | get_next_free_page, release_page, add_frame_owner, pagein, pageout, Choose_Victim, Dumb_Choose_Victim |
| Swap table | `userprog/swapmgr.cc` | swap bitmap; per swap frame the owner list and page number | get_next_free_frame, release_frame, add_frame_owner |
| Translation | `machine/translate.cc` | — | Translate (page-table path), ReadMem, WriteMem |
| Page faults | `userprog/exception.cc` | — | PageFaultException → pagein |
| Working set | `threads/thread.cc`, `threads/system.cc` | `wSetSize` per address space, history bytes | refreshWss from the timer: size, contract, shift history |
| Address-space lifetime | `userprog/progtest.cc`, `userprog/systemcall.cc`, `threads/thread.cc` | which address spaces exist | StartProcess, System_Fork, System_Exec (ModifySpace), ~Thread deleting the space |
| Threads and scheduler | `threads/thread.cc`, `threads/scheduler.cc`, `threads/synch.cc`, `threads/list.cc`, `machine/interrupt.cc`, `userprog/systemcall.cc`, `userprog/exception.cc` | per Thread: status, stack (where it resumes), Priority, ParentPtr, Children, ChildList, exit flags, the ChildExited semaphore; the ready list, allThreads, currentThread, threadToBeDestroyed, needResched | Fork, Yield, Nice, Wait, Exit, Halt, GetPPID, timer preemption (OneTick), Idle, Scheduler::Run, Thread::Finish, ThreadRoot, the fatal-exception path |
| Descriptors and console | `threads/thread.cc`, `userprog/systemcall.cc`, `machine/console.cc`, `threads/system.cc`, `machine/interrupt.cc` | per Thread: FDTable (none / console / disk) and the bytes left of its console transfer; the console's busy flag and input buffer, the characters of input left, the semaphores consoleWrite, consoleWriteDone, consoleRead, consoleReadAvail | Open, Close, Read, Write, Create, Unlink, ConsoleWrite, ConsoleRead, PutChar, GetChar, WriteDone, CheckCharAvail (the poll), HandleIfDue |

These parts interact as follows:
- A frame shared after a fork is listed with all its owners in the frame table, and every owner's entry is marked `cow`.
- A store to a COW page calls duplicatePage, which takes a frame and copies the page. It then leaves the shared frame and the shared swap frame, and clears `cow` on the last remaining sharer.
- pagein and pageout update every owner's entry at once.
- pageout writes dirty pages to a swap frame, which inherits the owner list. A page-in from swap restores that owner list.
- Victims are chosen by the configured policy, but only for the current process and only when it is over its working set. Otherwise the global `Dumb` cursor picks the victim.

Nachos runs on one simulated CPU. None of these routines blocks or yields. A
timer interrupt is taken only between user instructions, which is where
refreshWss runs. So every paging kernel entry runs to completion, and the
interleavings that matter are between whole kernel entries of different
processes. The process system calls are different: they sleep on
ChildExited and turn interrupts back on, so a thread can lose the CPU in the
middle of Wait or Exit. `Processes.tla` therefore splits them at those
points (see below).  ConsoleWrite and ConsoleRead do the same: they sleep on
a console semaphore after every character, and the console's interrupt
handlers, which run in whatever thread is current at a tick, wake them.

## Modules

* `VMemory.tla` is the abstract specification: what programs can observe.
  - Every existing process has an array of pages. A page holds its executable contents, or zeroes, until the process stores into it.
  - A fork gives the child a copy of the parent's pages. An exec resets the caller's pages to a fresh image. An exit discards the process's pages.
  - Anything else the kernel does leaves memory unchanged.
  - `lastStore` records which store instruction, if any, the last step executed. A paging step therefore cannot pass as a store.
* `VirtualMemory.tla` is the kernel model.
  - Its variables are the code's state: page tables, `wSetSize`, `currentThread->space`, the two bitmaps and owner records, frame and swap contents, the static Dumb cursor, `pageReplPolicy` and `halted`. `halted` records an ASSERT failure, a NULL dereference, a read of an uninitialised victim or an endless scan.
  - `pageReplPolicy` is the global the `-prp` flag sets at boot (`system.cc:255-264`). `Init` picks it from the constant `Policies` and no step changes it, so one run covers several policies.
  - Each kernel routine is an operator on a record of the whole state (`St`). A kernel entry composes the routines in the order the C++ calls them, and `Commit` makes the result one step. This is how the model keeps a trailing loop or a nested call inside its action.
  - A routine whose later statements use the state an earlier call left is split into stages, and each stage takes that state as its argument. Examples are `LoadFrame`, `DupOwn`/`DupCopy`/`DupRelease`/`DupFinish`, `TakeFrame`/`EvictVictim` and `PolicyVictim`/`CheckVictim`.
  - The actions of `Next` are `StartProcess`, `PageFault`, `ReadMem`, `WriteMem`, `Fork`, `DeleteSpace`, `RefreshWss`, `Switch` and `AllExited`.
  - `ExecSpec` adds `Exec`: System_Exec's call of `ModifySpace`. It builds the new table, pages in the text and stack pages (`Setup_Load`), and only then releases the old table's frames and swap frames, including its page-0 COW clearing. It is kept out of `Spec` because its frame reuse breaks the invariants (finding exec_frame_reuse).
  - The victim scans are those of `PageVictims`, with the `getTime` stub passed as `ZeroTime`.
  - An abort leaves the state as it was and only sets `halted`. After that no further step is taken.
  - Contents are abstracted to one value per page: `ExecVal(p)` for the executable's page p, 0 for zero-fill, and `WriteVals` for stores.
* `PageVictims.tla` holds the three per-process victim scans of AddrSpace (FIFO, LRU, second chance) as pure operators. Each scan is a `FoldLeft` over the pages in order, and the accumulator is the loop's local variables. The page time is an argument, so the same loop can be run with the stub's 0 or with real load times.
* `VictimCheck.tla` checks those scans against the selection rules of spec section 4.3 over every small page table.
  - A state is a table (valid, use, dirty, history), the excluded frame `notMe`, and distinct load times.
  - Its one action, `SCScan`, runs a second-chance scan, so that the tables the use-bit clearing leaves behind are also checked.
  - The reference definitions `SpecFIFO`, `SpecLRU` and `SpecSC` take the eligible page with the lexicographically least key, such as (history, load time).
* `MCVirtualMemory.tla` holds the TLC instances: the section layouts, `MCView` and `MCSymmetry` (see Bounds).
* `Processes.tla` models threads and processes on the one CPU.
  - The variables are the Thread fields and the scheduler's lists, as listed in the table above. `pc` stands for a thread's stack: where it resumes.
  - Kernel code gives up the CPU only in `Interrupt::OneTick`, which runs whenever interrupts are re-enabled, and in `Sleep`. So an action is the current thread's run from one such point to the next. The resume points are `fresh` (ThreadRoot), `user`, `inP` (inside ChildExited->P's loop), `afterP` (System_Wait after the P) and `afterV` (System_Exit after the parent's V).
  - `OneTick(r, cont, tick)` takes a tick as input: whether the timer fires, and which console interrupts (`"write"` completion, `"poll"`) come due, in which order. Time is not modelled; a character takes ConsoleTime ticks against 10 per SetLevel(IntOn), so either may come due at any tick, except that a completion PutChar has just scheduled is not due in the same tick (`NotDueYet`). Every place a tick happens is therefore a preemption point and a place where a console handler may V a semaphore.
  - Kernel routines are factored as the code is: `SetLevel` and `Schedule` of the interrupt layer, `ReadyToRun` with `SetNeedResched`, `NewThread` with `AddToList`, `ForkChild` with `ThreadFork`, `Set_Parent_Ptr` and `Add_Child`, `Reap` with `UnQueue_Child` and `Remove_Child`, `Open` with `Find_next_available_fd` and `SetFD`, `Start` as `ThreadRoot` running `Do_Fork`, `SysHalt` as `Halt` calling `Cleanup`, and the console handlers as `ConsoleReadAvail` and `ConsoleWriteDone`. `TypeOK` checks each thread's fields against `ThreadFields`, the record of class Thread's members.
  - The actions are `SysFork`, `SysYield`, `SysNice`, `SysWait`, `SysHalt`, `SysExit`, `SysGetPPID`, `SysOpen`, `SysClose`, `SysWrite`, `SysRead`, `SysCreate`, `SysUnlink`, `TimerPreempt`, `Start`, `ResumeP`, `WaitDone`, `ExitDone`, the console loop stages `WriteLock`, `WritePut`, `WriteWait`, `ReadLock`, `ReadWait`, `ReadTake`, and `Idle`.
  - The console loops resume at `wLock`, `wPut`, `wDone` (ConsoleWrite at its P(consoleWrite), its loop head, its P(consoleWriteDone)) and `rLock`, `rGet`, `rTake` (ConsoleRead likewise, and after P(consoleReadAvail)).
  - `Idle` is Interrupt::Idle: with no thread ready the clock jumps to the next console interrupt, which is handled before FindNextToRun is tried again. The poll is always pending, so the machine never halts from Idle.
  - A user program is abstracted to at most `MaxSteps` system calls or preemptions, and then it calls Exit. At most `MaxIOCalls` of its calls go to the file system (Open, Close, Read, Write, Create, Unlink). A disk file is read and written at once through the host; Create and Unlink change only host files, so they use up a call and nothing else.
  - A descriptor argument comes from `FdArgs`. `Thread::getFD` checks only `fd < MAX_FD`, so a negative descriptor reads outside FDTable; the model gives that read the outcomes NULL or a wild pointer (`WildFds`).
  - `FaultSpec` adds `Exception`: the handler for an unexpected exception, which calls `Finish` directly.
* `SortedList.tla` is `List::SortedInsert` with the scheduler's ordering (`ThreadOrder`), and the List members the kernel uses on a list as a sequence: `IsEmpty`, `ListAppend`, `ListFirst` and `ListRest` (Remove).
* `Histogram.tla` models `Bucket` and `Histogram` (`histogram.cc`), the class of the kernel's page-fault histogram `stats->interPageFaultTimes`.
  - A state is one Histogram object (`histo`: the underflow, overflow and in-range buckets, `sum` and `sum_overflowed`) and the data recorded since it was built or Reset (`recorded`, a history variable).
  - The actions are `RecordDatum` (binning, `Bucket::Deposit`, then the running sum) and `Reset`.
  - The widths of int and size_t are the constants `IntBits` and `SizeBits`, and the additions wrap as the build does, so the overflow tests of `Deposit`, `RecordDatum` and `Count` see the wrap-around they look for.
  - The const accessors `Count` (a `FoldLeft` over the buckets), `Sum`, `Minimum` and `Maximum` are operators, checked against reference definitions computed from `recorded`.
* `MCDataStructures.tla` checks `VictimCheck` and `Histogram` in one model. A behaviour picks one of them in `Init`; the other's variables keep a fixed value, so the state space is the sum of the two.
* `MCProcesses.tla` holds the TLC instances: three thread addresses, the Nice increments and a VIEW.

The correspondence to the code is listed per definition in `PROJECT.json`
("map").

The model follows these code details exactly:
- **Dumb cursor:** `Dumb_Choose_Victim` keeps its `static int i = 87` and steps it by 17 modulo NumPhysPages. It skips `notMe` and frames with no owners.
- **Stubs:** `setTime` and `clearRefHistory` do nothing, and `getTime` returns 0.
- **Uninitialised values:** `wSetSize` and the history bytes are never initialised, so the model draws them from the constants `WSetGarbage` and `HistoryGarbage`. An uninitialised victim local is the value `Uninit`, and using it is an abort.
- **Working-set refresh:** refreshWss clamps the size to 4..32 and contracts only when `wssContractionEnabled` is set.
- **Priority:** `Thread::Prioritize` adds the increment in 32-bit arithmetic before clamping to 0..40.

## Properties

Virtual memory (`VirtualMemory`):
* `TypeOK`.
* `OwnersMatchPageTables`: frame records and page tables describe the same mapping. The owners are live and distinct, and their entries are valid and point back to the frame. Every valid entry is listed as an owner of its frame.
* `SwapOwnersMatchPageTables`: the same for swap frames. A page backed by swap has its swap frame allocated.
* `FlagsMatchOwners` (spec section 8): a bitmap bit is set exactly when the frame has owners.
* `SharedPagesAreCow`: every owner of a frame or swap frame with two or more owners has `cow` set.
* `CowPagesAreShared` (spec section 8): a `cow` page is really shared.
* `NoAbort`: no ASSERT failure, dangling owner, uninitialised victim or endless victim scan.
  In `global_policies` it is checked with `wSetSize` 1, four swap frames and contraction off. So it does not reach the swap-full ASSERT (`memmgr.cc:331`), an endless Dumb scan (`memmgr.cc:443`) or an abort inside the contraction loop (`thread.cc:234`); the hazard list records these as unchecked.
* `ImplementsVMemory`: the kernel refines `VMemory` under the mapping `View(s, p)`. This is the resident frame, else the swap frame, else zero, else the executable.
* `TextIsNeverModified` (spec section 4.4): stores to read-only pages are refused, so text pages always read as the executable.

Victim scans (`VictimCheck`):
* `ScansImplementPolicies`: given real load times, each scan returns exactly the victim its policy names. Second chance also clears exactly the use bits of the pages it inspects.
* `StubOnlyBreaksTies`: with `getTime` returning 0, LRU still returns a page of least history, and second chance a page of the lowest class. FIFO returns some eligible page.
* `FIFOEvictsOldest`: with the stub, FIFO evicts the page loaded first.

Histogram (`Histogram`, checked through `MCDataStructures`):
* `HistoTypeOK`: every count fits in size_t and the sum and extrema in int.
* `BucketsMatchData`: each bucket counts, and keeps the extrema of, exactly the recorded data of its range. It flags its count as overflowed exactly when size_t cannot hold it.
* `AccessorsMatchData`: `Count` returns the number of data, or overflow exactly when size_t cannot hold it. `Sum` returns the sum, or overflow exactly when a prefix sum left int. While no count can have wrapped, `Maximum` returns the greatest datum, and `Minimum`, when it returns one, the least.

Processes (`Processes`):
* `TypeOK`.
* `SchedulerConsistent`: the ready list holds exactly the READY threads, once each, sorted by priority. allThreads holds exactly the live threads. Only the current thread is RUNNING.
* `ExitProtocol`: `Children` counts the unreaped children. The semaphore value matches ChildList (so Wait's P never finds it empty). ChildList holds only exited, unreaped children.
* `ZombiesAreReclaimable`: every ZOMBIE is `threadToBeDestroyed` or on its parent's ChildList, so something will delete it.
* `ParentOutlivesChild`: an unreaped thread's parent is live.
* `BlockedAreQueued`: no wake-up is lost. A thread is BLOCKED exactly when it is in one semaphore queue, once, and it sits there at that semaphore's P. This covers ChildExited and the four console semaphores, whose V runs in interrupt handlers.
* `ConsoleProtocol`: the console semaphores count what the console code has done. One thread at a time is inside ConsoleWrite's loop and one inside ConsoleRead's. The console is busy, or its completion not yet taken, exactly while the writer waits at P(consoleWriteDone). A character is buffered exactly while consoleReadAvail counts it or the reader that took the count has not yet called GetChar.
* `NoAbort`: no ASSERT fails and no freed or NULL pointer is followed.
* `Termination` (liveness): every run halts.
* `NiceRespectsSign` (action property): a positive increment never lowers Priority, and a negative one never raises it.
* `ReadyInsertIsStable` (action property): ReadyToRun queues a thread behind every thread of equal or lower priority.

## Runs

| Run | cfg | Instance | Checks | Result |
|---|---|---|---|---|
| global_policies | `MCglobal.cfg` | 2 processes, 2 pages (text, stack), 2 frames, 4 swap frames, policy DUMB, FIFO or LRU, `wSetSize` 1 | the seven VM safety properties and the refinement | pass, about 300k states |
| cow_after_exit | `MCcowshared.cfg` | 2 processes, DUMB | CowPagesAreShared | **violated** |
| readonly_text | `MCreadonly.cfg` | 1 process | TextIsNeverModified | **violated** |
| contraction_leak | `MCleak.cfg` | 1 process, 5 pages, 5 frames, contraction on | FlagsMatchOwners | **violated** |
| uninitialised_victim | `MCvictim.cfg` | 2 processes, FIFO, `wSetSize` 0 | NoAbort | **violated** |
| exec_frame_reuse | `MCexec.cfg` | 1 process, 2 frames, `ExecSpec` | OwnersMatchPageTables | **violated** |
| victim_scans | `MCvictims.cfg` (`MCDataStructures`) | every 3-page table, histories 0, 1, 255; every sequence of up to 4 data from {0, 1, 2, 4, 5} into a histogram of 2 buckets of width 2 from 1, 4-bit int, 2-bit size_t | ScansImplementPolicies, StubOnlyBreaksTies, HistoTypeOK, BucketsMatchData, AccessorsMatchData | pass, about 500k states |
| fifo_load_order | `MCfifoorder.cfg` | every 3-page table | FIFOEvictsOldest | **violated** |
| procs | `MCprocs.cfg` | 3 thread addresses, programs of up to 3 calls of which up to 2 go to the file system, one character of input | the ten process properties except NiceRespectsSign | pass, about 530k states |
| orphaned_wait | `MCorphanwait.cfg` | `FaultSpec`, up to 3 calls | Termination | **violated** |
| zombie_leak | `MCzombieleak.cfg` | `FaultSpec` | ZombiesAreReclaimable | **violated** |
| nice_overflow | `MCniceoverflow.cfg` | Nice(INT_MAX) | NiceRespectsSign | **violated** |

The violation runs show the following:
- **cow_after_exit:** ~AddrSpace tests the owner count of `pageTable->physicalPage`, which is page 0's frame, for every i (`addrspace.cc:477`). A child whose parent exits keeps `cow` on a stack page it alone owns. Data is not lost, but the next store copies the page for nothing.
- **readonly_text:** `Translate`'s page-table path has no `readOnly` test (`translate.cc:198-209`). A program can overwrite its text.
- **contraction_leak:** pageout never clears the frame's bitmap bit (`memmgr.cc:405-408`). pagein and duplicatePage reuse the frame at once. The contraction loop of refreshWss does not, so those frames are lost for good.
- **uninitialised_victim:** after fork, a store to a COW page of a process that is over its working set, and whose only resident page is the one being copied, makes FIFO return its uninitialised `victim` (`addrspace.cc:862`).
- **exec_frame_reuse:** ModifySpace pages in the new image before it releases the old table (`addrspace.cc:322`). With memory full, the page-ins evict the old pages through Dumb and reuse their frames. The release loop then frees those same frames, which the new table still maps. The program runs on frames that have no owner and a clear bitmap bit, and the next allocation hands them to someone else.
- **fifo_load_order:** `setTime` is empty and `getTime` returns 0 (`translate.cc:299-302`). FIFO_Choose_Victim therefore evicts the lowest-numbered valid page, not the oldest. TLC finds this in an initial state: page 0 invalid, pages 1 and 2 valid with load times 3 and 2. The scan returns page 1, the newer one, because it comes first.
- **orphaned_wait:** an unexpected exception calls `Finish` directly (`exception.cc:87`). The thread never joins its parent's ChildList and never Vs ChildExited, and its own children keep a dangling parent. The last threads then idle forever instead of halting.
- **zombie_leak:** `threadToBeDestroyed` is one slot, and only the tail of `Scheduler::Run` empties it. A new thread's first run starts in ThreadRoot and skips that tail. If two threads finish with only such a first run between them, the first zombie is overwritten and never deleted (`thread.cc:524`).
- **nice_overflow:** `Priority += p` overflows for Nice(INT_MAX), and the negative result is clamped to 0, the most favoured priority (`thread.cc:85`).

Each property of a passing run is paired with a mutant in `PROJECT.json`. A
mutant is a plausible slip in the code that TLC must catch, for example:
- a pagein owner loop one short;
- memcpy with its arguments swapped;
- FIFO starting `victimTime` at 0;
- LRU comparing histories the wrong way;
- a sorted insert placed before equal priorities;
- a P that never waits, or a V that wakes no one;
- a V that dequeues a waiter but never readies it;
- GetChar leaving the character in the buffer.

### Bounds

- **Processes and pages:** two processes with two pages each are enough for fork, sharing, COW copies, exit of a sharer and eviction of a shared page. Two frames force eviction as soon as both processes have a page resident.
- **Swap frames:** four swap frames (processes × pages) make "swap full" impossible unless a frame is leaked. With two or three, Dumb aborts at `memmgr.cc:331`. That is a bound effect, not a finding.
- **Policies:** DUMB, FIFO and LRU share one run. Second chance is left out of the integration run, because adding it makes the run exceed five minutes. Its scan, including the use-bit clearing, is checked in full by `victim_scans`.
- **Victim tables:** three pages with three history values give every ordering of the classes and histories, equal values included, and every position of `notMe`.
- **Histogram:** the data put a value in the underflow bucket, in each in-range bucket (two values in the first, to test its extrema), and in the overflow bucket. With a 2-bit size_t, four records make a bucket count wrap (four equal data) and make Count's total wrap when the data are spread. With a 4-bit int (maximum 7), 5 + 4 already overflows the sum. Data are non-negative, as the kernel's tick deltas are.
- **Contraction:** the leak needs a process with more than four resident pages, because refreshWss never sets the working set below 4. Hence five pages and five frames.
- **Threads:** three thread addresses allow a parent with two children, or a grandchild. That is enough for the orphan and zombie cases and for reuse of a deleted Thread's address. Three system calls per program are enough for a Fork and a Wait before Exit, or for a Fork and two console transfers that contend. The violation runs need no file system calls (`MaxIOCalls` 0); `zombie_leak` needs four steps. The console makes `procs` large, because a poll may come due at any tick, so `procs` has 3 steps, at most 2 file system calls, transfers of one byte (`IOLens`), the descriptors 1 (console) and 2 (the first Open's), and the single Nice increment 1 (Nice(INT_MAX) is `nice_overflow`'s).
- **VIEW (VM):** it merges state that no code reads before overwriting it: the contents and page number of frames without owners, the swap offset of entries not in swap, the dirty bit of invalid entries, `use` bits under policies other than second chance, and the state of address spaces that are not alive.
- **VIEW (processes):** the fields of a freed Thread are normalised. They are read again only by a use after free, and that stops the machine.
- **SYMMETRY:** address spaces are interchangeable, and `MCSymmetry` permutes them in the VM safety runs. The process runs use no symmetry, because `procs` checks liveness.

### Fairness

`Processes.Spec` assumes weak fairness of `Next`, written out as
`<>[]Busy => []<><<Next>>_vars`. `Busy` means the machine has not stopped and the current
thread is RUNNING, or the machine idles with a console interrupt pending that
changes something (a write in progress, or an empty input buffer the next poll
fills). In that state the action for the current thread's `pc`, or `Idle`, is
enabled, and otherwise no action is. The code justifies this: Machine::Run and the kernel
code it calls never wait for anything but an interrupt, so the CPU keeps
executing the current thread. Nothing stronger is assumed. In particular, no
fairness among threads is assumed, because `Termination` does not need it.
The built-in form `WF_vars(Next)` states the same assumption, because `Next` is enabled exactly when `Busy` holds. TLC's check of it took more than fifteen minutes on `procs`, so the explicit form is kept.
The VM model checks only safety and refinement, so its `Spec` has no fairness.

## Not modelled

* **TLB mode:** this build runs with the page table only.
* **Register state:** InitRegisters, SaveState and RestoreState copy machine registers, which no property tells apart.
* **Second chance in the integration run:** see Bounds.
* **Locks, conditions and SynchList** (`synch.cc:95-235`, `synchlist.cc`): no kernel code calls them, so no run of the kernel reaches them. Reading them shows two defects a model of their own would confirm: `Lock::Release` hands the lock to the first waiter (`synch.cc:147`), whose `Acquire` loop then finds `owner != NULL` and sleeps again with nobody left to wake it; and `Condition::Signal` and `Broadcast` `Acquire` the lock the caller already holds (`synch.cc:209`, 228), so a signalling thread waits on itself. They need runs of their own, which this project does not spend on code the kernel does not use.
* **Histogram output and its one caller:** `Histogram::Write` formats the buckets into a debug file and is left out. The kernel records one datum, in `Cleanup` at halt (`system.cc:411`); the page-fault handler computes the inter-fault time but never records it (`exception.cc:74-76`). Modelling it showed a defect that no run checks: `Histogram::Minimum` tests the underflow bucket a second time where it should test the overflow bucket (`histogram.cc:286`), so when every datum is at or above `range_max` it reports no minimum. `AccessorsMatchData` checks only that a minimum is right when Minimum returns one. The threads test driver `histo_test.cc` calls `Minimum()` and `Maximum()` without the argument the header declares, so it no longer compiles.
* **File contents and the file system:** a disk file is a host file handle; what Open finds, and how many bytes a disk Read or Write moves, is a nondeterministic choice or not tracked. Create and Unlink only touch host files.
* **System calls without kernel state:** Echo (writes to the host's stdout), NameThread (renames the thread) and NachosUserEvent (a data-stream log event), and an unknown call number (returns -1). They change nothing the properties tell apart.
* **Other code:** the debugger stub (`nachos-stub.cc`, including `ForceYield` and `Switch_To`), the user library and test programs, ELF parsing (`ReadHeaders`), the list's pointer manipulation (the scheduler's sorted insert is modelled in `SortedList`), and the MIPS interpreter. The interpreter is abstracted to loads, stores and system calls.
* **Time and the interrupt queue:** simulated time and the pending list ordering of `Interrupt::Schedule` are replaced by the `Ticks` input: any console interrupt may come due at any tick.
* **Refresh counter:** the timer's refresh counter `incrWssRefreshCounter`. The model lets a refresh happen between any two kernel entries, which includes every schedule the counter allows.
* **Composition:** the two halves are checked separately. They meet only at `currentThread->space`, which the VM model's `Switch` and `DeleteSpace` stand for.
