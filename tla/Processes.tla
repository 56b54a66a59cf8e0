---------------------------- MODULE Processes ----------------------------
(***************************************************************************)
(* Nachos threads and user processes: the scheduler (scheduler.cc), the    *)
(* Thread object (thread.cc), the ChildExited semaphore (synch.cc), the    *)
(* interrupt tick that preempts (interrupt.cc, system.cc) and the process  *)
(* system calls Fork, Yield, Nice, Wait and Exit (systemcall.cc), with the *)
(* exception handler that kills a faulting process (exception.cc), and    *)
(* the file-descriptor calls Open, Read, Write and Close with the console *)
(* they reach (console.cc) and its semaphores (system.cc).                *)
(*                                                                         *)
(* One CPU runs one thread at a time.  Kernel code is preempted only in    *)
(* Interrupt::OneTick, which runs whenever interrupts are turned back on   *)
(* and after every user instruction, and a thread gives up the CPU only   *)
(* there or in Sleep.  So an action is the current thread's run from one   *)
(* such point to the next; `pc' says where a thread will resume.  Each     *)
(* routine is an operator from a state record to a state record, as in     *)
(* VirtualMemory.  A user program is abstracted to at most MaxSteps        *)
(* system calls (or preemptions of its computation) before it calls Exit. *)
(***************************************************************************)
EXTENDS Integers, FiniteSets, Sequences, SequencesExt, SortedList

CONSTANTS
    Threads,   \* the addresses a Thread object may be allocated at
    Main,      \* the thread Initialize creates; it runs the first program
    NULL,
    MaxSteps,  \* system calls a program makes before it calls Exit
    NiceIncs,  \* increments programs pass to Nice
    MaxFd,     \* MAX_FD, the size of a FDTable (defs.h:8)
    FdArgs,    \* descriptors programs pass to Read, Write and Close
    IOLens,    \* byte counts programs pass to Read and Write
    InputChars, \* characters on the console's input before its end
    MaxIOCalls  \* Open, Close, Read and Write calls all programs make

ASSUME /\ Main \in Threads /\ NULL \notin Threads
       /\ MaxSteps \in Nat /\ NiceIncs \subseteq Int
       /\ MaxFd \in Nat /\ MaxFd >= 2 /\ FdArgs \subseteq Int
       /\ IOLens \subseteq Nat /\ InputChars \in Nat /\ MaxIOCalls \in Nat

MaxInt == 2147483647
MinInt == -MaxInt - 1

\* ThreadStatus (defs.h:11); "FREE" is an address with no Thread on it.
Status == {"FREE", "JUST_CREATED", "RUNNING", "READY", "BLOCKED", "ZOMBIE"}

\* Where a thread in ConsoleWrite (console.cc:88-108) or ConsoleRead
\* (console.cc:55-74) resumes: at P(consoleWrite), at the loop head before
\* PutChar, at P(consoleWriteDone); at P(consoleRead), at the loop head
\* with P(consoleReadAvail), or after that P before GetChar.
ConsolePCs == {"wLock", "wPut", "wDone", "rLock", "rGet", "rTake"}

\* Where a thread resumes: in ThreadRoot ("fresh", never run), in its
\* program or the system call it is in ("user"), in the loop of
\* ChildExited->P(), in System_Wait after the P, or in System_Exit after
\* the parent's ChildExited->V().
PCs == {"fresh", "user", "inP", "afterP", "afterV"} \cup ConsolePCs

\* The console's four KernelSemaphores (system.cc:71-76); the other
\* semaphores are the ChildExited of each Thread, named by its address.
ConsoleSems == {"consoleRead", "consoleWrite", "readAvail", "writeDone"}
Sems == Threads \cup ConsoleSems

\* A FDTable slot: NULL, or an FDTEntry of type ConsoleFile or DiskFile.
Fds == 0..MaxFd-1
FdKinds == {"none", "console", "disk"}

\* incoming of the Console: FLAG_EOF ("none", nothing buffered), a
\* character, or EOF.
Incoming == {"none", "char", "EOF"}

\* The data members of class Thread (thread.h:93-249) that the model keeps:
\* tstatus, the stack as the point the thread resumes at, Priority,
\* ParentPtr, Children, ChildList, thread_exit_status, hasReachedExit and
\* FDTable.  ChildExited is the semaphore named by the Thread's address.
\* Registers, name, ThreadID, procStats, the pthread handles and space
\* hold nothing the properties tell apart.
ThreadFields ==
    [status: Status, pc: PCs, prio: 0..40, parent: Threads \cup {NULL},
     children: Nat, childList: Seq(Threads), exitStatus: BOOLEAN,
     reachedExit: BOOLEAN, fd: [Fds -> FdKinds]]

VARIABLES
    status,              \* tstatus of the Thread at each address
    pc,                  \* where the thread resumes (its stack)
    priority,            \* Priority
    parent,              \* ParentPtr
    children,            \* Children
    childList,           \* ChildList: exited children not yet waited for
    exitStatus,          \* thread_exit_status
    reachedExit,         \* hasReachedExit
    semValue,            \* ChildExited->value
    semQueue,            \* ChildExited->queue
    steps,               \* system calls left to the thread's program
    readyList,           \* scheduler->readyList
    allThreads,          \* the allThreads list, in creation order
    currentThread,
    threadToBeDestroyed,
    needResched,         \* interrupt->needResched
    halted,              \* "no", "halt", or why the machine stopped
    fdTable,             \* FDTable of each Thread
    ioLeft,              \* bytes ConsoleRead or ConsoleWrite has still to do
    putBusy,             \* console->putBusy
    incoming,            \* console->incoming
    inputLeft,           \* characters the keyboard has still to deliver
    ioCalls,             \* bound: file system calls made so far
    lastNice             \* history: <<inc>> if the last step ran Nice(inc)

pvars == <<status, pc, priority, parent, children, childList, exitStatus,
           reachedExit, semValue, semQueue, steps, readyList, allThreads,
           currentThread, threadToBeDestroyed, needResched, halted,
           fdTable, ioLeft, putBusy, incoming, inputLeft, ioCalls>>
vars == <<pvars, lastNice>>

-----------------------------------------------------------------------------
(* The whole state as one record, so that routines compose.               *)
K == [status |-> status, pc |-> pc, prio |-> priority, parent |-> parent,
      children |-> children, childList |-> childList,
      exitStatus |-> exitStatus, reachedExit |-> reachedExit,
      semValue |-> semValue, semQueue |-> semQueue, steps |-> steps,
      ready |-> readyList, all |-> allThreads, current |-> currentThread,
      toDestroy |-> threadToBeDestroyed, needResched |-> needResched,
      halted |-> halted, fd |-> fdTable, io |-> ioLeft, putBusy |-> putBusy,
      incoming |-> incoming, input |-> inputLeft, ioCalls |-> ioCalls]

\* A run of kernel code ends in r; a failure freezes the machine as it was.
Commit(r) ==
    IF r.halted \notin {"no", "halt"}
    THEN /\ halted' = r.halted
         /\ UNCHANGED <<status, pc, priority, parent, children, childList,
                        exitStatus, reachedExit, semValue, semQueue, steps,
                        readyList, allThreads, currentThread,
                        threadToBeDestroyed, needResched, fdTable, ioLeft,
                        putBusy, incoming, inputLeft, ioCalls>>
    ELSE /\ status' = r.status /\ pc' = r.pc /\ priority' = r.prio
         /\ parent' = r.parent /\ children' = r.children
         /\ childList' = r.childList /\ exitStatus' = r.exitStatus
         /\ reachedExit' = r.reachedExit /\ semValue' = r.semValue
         /\ semQueue' = r.semQueue /\ steps' = r.steps
         /\ readyList' = r.ready /\ allThreads' = r.all
         /\ currentThread' = r.current /\ threadToBeDestroyed' = r.toDestroy
         /\ needResched' = r.needResched /\ halted' = r.halted
         /\ fdTable' = r.fd /\ ioLeft' = r.io /\ putBusy' = r.putBusy
         /\ incoming' = r.incoming /\ inputLeft' = r.input
         /\ ioCalls' = r.ioCalls

Stop(r, why) == [r EXCEPT !.halted = why]

\* Cleanup (system.cc:349-419) deletes the kernel's objects, writes the
\* page-fault histogram if asked to, and exits the simulator: the machine
\* stops.  Interrupt::Halt (interrupt.cc:265-271) calls it.
Cleanup(r) == Stop(r, "halt")
Halt(r) == Cleanup(r)

-----------------------------------------------------------------------------
(* The scheduler                                                           *)

\* Interrupt::setNeedResched (interrupt.cc:58-62): a scheduling decision
\* is due at the next tick.
SetNeedResched(r) == [r EXCEPT !.needResched = TRUE]

\* Mutant: the ready list as a plain FIFO (List::Append).
ReadyToRun_Append(r, t) ==
    [r EXCEPT !.needResched = @ \/ t # r.current,
              !.status[t] = "READY",
              !.ready = Append(@, t)]

\* Scheduler::ReadyToRun (scheduler.cc:63-85): a thread other than the
\* current one asks for a reschedule; the thread goes into the ready list
\* in priority order.
ReadyToRun(r, t) ==
    [(IF t # r.current THEN SetNeedResched(r) ELSE r) EXCEPT
        !.status[t] = "READY", !.ready = SortedInsert(@, t, r.prio)]

\* Scheduler::removeFromList (scheduler.cc:295-321).  Unlinking the only
\* element leaves head NULL and then reads head->next (line 315).
RemoveFromList(r, t) ==
    IF r.all = <<t>> THEN Stop(r, "NULL dereference")
    ELSE [r EXCEPT !.all = RemoveFirst(@, t)]

\* Thread::~Thread (thread.cc:321-357): the Thread, its ChildExited
\* semaphore and its address space are freed and it leaves allThreads.
\* Only the thread itself ever waits on its semaphore, so the wake-up loop
\* of ~KernelSemaphore (synch.cc:38-47) finds the queue empty.
DeleteThread(r, t) ==
    IF t = r.current THEN Stop(r, "ASSERT")
    ELSE RemoveFromList([r EXCEPT !.status[t] = "FREE"], t)

\* The end of Scheduler::Run (scheduler.cc:219-226).  It runs in the thread
\* switched to, after SWITCH returns; a thread that never ran starts in
\* ThreadRoot instead and skips it.
RunTail(r, fresh) ==
    IF fresh \/ r.toDestroy = NULL THEN r
    ELSE [DeleteThread(r, r.toDestroy) EXCEPT !.toDestroy = NULL]

\* Scheduler::Run (scheduler.cc:163-234): nextThread becomes current.
Run(r, next) ==
    RunTail([r EXCEPT !.current = next, !.status[next] = "RUNNING"],
            r.pc[next] = "fresh")

\* Scheduler::FindNextToRun (scheduler.cc:117-146) in the loop of
\* Thread::Sleep or Yield (thread.cc:595-602, 664-667, 686-690).  Nachos
\* halts when the only thread left is a zombie.  With no thread ready the
\* machine idles (action Idle): no thread is RUNNING until an interrupt
\* readies one.
Dispatch(r) ==
    IF Len(r.all) = 1 /\ r.status[Head(r.all)] = "ZOMBIE" THEN Halt(r)
    ELSE IF IsEmpty(r.ready) THEN r
    ELSE Run([r EXCEPT !.ready = ListRest(@)], ListFirst(r.ready, NULL))

\* Thread::Yield (thread.cc:582-605)
Yield(r) == Dispatch(ReadyToRun(r, r.current))

\* Thread::Sleep() and Thread::Sleep(newstatus) (thread.cc:653-692)
Sleep(r, st) == Dispatch([r EXCEPT !.status[r.current] = st])

\* Thread::Finish (thread.cc:515-531)
Finish(r) == Sleep([r EXCEPT !.toDestroy = r.current], "ZOMBIE")

\* Mutant: V that counts but wakes no waiter.
V_NoWake(r, s) == [r EXCEPT !.semValue[s] = @ + 1]

\* Mutant: V takes the first waiter off the queue but never readies it.
VWake_Lost(r, s) ==
    IF r.semQueue[s] = <<>> THEN r ELSE [r EXCEPT !.semQueue[s] = Tail(@)]

\* KernelSemaphore::V (synch.cc:82-93) on semaphore s, the tick of its
\* SetLevel(oldLevel) left to the caller.
VWake(r, s) ==
    IF IsEmpty(r.semQueue[s]) THEN r
    ELSE ReadyToRun([r EXCEPT !.semQueue[s] = ListRest(@)],
                    ListFirst(r.semQueue[s], NULL))
V(r, s) == [VWake(r, s) EXCEPT !.semValue[s] = @ + 1]

\* The console's interrupt handlers (console.cc:30-41, 164-204; system.cc
\* 77-84).  ConsoleFinishWrite: the character is out, Console::WriteDone
\* frees the console and ConsoleWriteDone Vs consoleWriteDone.
\* ConsoleReadPoll, Console::CheckCharAvail: with nothing buffered the
\* next character, or EOF once the input is used up, is buffered and
\* ConsoleReadAvail Vs consoleReadAvail; with something buffered it only
\* schedules the next poll.
ConsoleReadAvail(r) == V(r, "readAvail")
ConsoleWriteDone(r) == V(r, "writeDone")
WriteDone(r) ==
    IF ~r.putBusy THEN r ELSE ConsoleWriteDone([r EXCEPT !.putBusy = FALSE])
CheckCharAvail(r) ==
    IF r.incoming # "none" THEN r
    ELSE ConsoleReadAvail(
             [r EXCEPT !.incoming = IF r.input > 0 THEN "char" ELSE "EOF",
                       !.input = IF r.input > 0 THEN r.input - 1 ELSE 0])
Device(r, d) == IF d = "write" THEN WriteDone(r) ELSE CheckCharAvail(r)

\* The pending device interrupts that come due in one tick, in the order
\* of their times (Interrupt::HandleIfDue, interrupt.cc:312-382).  Time is
\* not modelled: a character takes ConsoleTime ticks to write and the
\* console is polled every ConsoleTime ticks, against 10 ticks per
\* SetLevel(IntOn) and one per user instruction, so either may come due at
\* any tick.  The timer interrupt is a flag of its own.
DevSeqs == {<<>>, <<"write">>, <<"poll">>, <<"write", "poll">>, <<"poll", "write">>}
Ticks == [timer: BOOLEAN, devs: DevSeqs]
HandleDue(r, devs) == FoldLeft(LAMBDA acc, d : Device(acc, d), r, devs)

\* The yield at the end of Interrupt::OneTick (interrupt.cc:189-195).
TickYield(r, yield) ==
    IF yield THEN Yield([r EXCEPT !.needResched = FALSE]) ELSE r

\* Interrupt::OneTick (interrupt.cc:150-196), run by SetLevel(IntOn)
\* (interrupt.cc:104-124) and after every user instruction; the thread
\* then continues at cont.  The due interrupts are handled; if the timer
\* was among them its handler (SchedTimerInterruptHandler, system.cc
\* 114-131) calls YieldOnReturn (interrupt.cc:209-215), and a needResched
\* set by a handler or before also yields.
TickHandled(r, cont, tick) == HandleDue([r EXCEPT !.pc[r.current] = cont], tick.devs)
OneTick(r, cont, tick) ==
    TickYield(TickHandled(r, cont, tick),
              tick.timer \/ TickHandled(r, cont, tick).needResched)

\* Interrupt::SetLevel(IntOn) from IntOff (interrupt.cc:104-124, with
\* ChangeLevel, 86-90): kernel code turning interrupts back on ticks once.
\* Interrupt::Enable (interrupt.cc:133-136) is SetLevel(IntOn).
SetLevel(r, cont, tick) == OneTick(r, cont, tick)

-----------------------------------------------------------------------------
(* Threads, the ChildExited semaphore and the process system calls        *)

\* The FDTable of a new Thread: stdin and stdout are the console.
ConsoleFds == [i \in Fds |-> IF i \in {0, 1} THEN "console" ELSE "none"]

\* Thread::Thread (thread.cc:257-306) at address t: JUST_CREATED, Priority
\* 20, no parent, no children, a ChildExited semaphore of value 0, and
\* registered at the end of allThreads by Scheduler::addToList
\* (scheduler.cc:270-287).
AddToList(r, t) == [r EXCEPT !.all = Append(@, t)]
NewThread(r, t) ==
    AddToList([r EXCEPT !.status[t] = "JUST_CREATED", !.prio[t] = 20,
                        !.parent[t] = NULL, !.children[t] = 0,
                        !.childList[t] = <<>>, !.exitStatus[t] = FALSE,
                        !.reachedExit[t] = FALSE, !.semValue[t] = 0,
                        !.semQueue[t] = <<>>, !.fd[t] = ConsoleFds], t)

\* Thread::Prioritize (thread.cc:84-90): Priority += p on a 32-bit int,
\* then clamped to 0..40.  Priority is never negative, so the sum can only
\* wrap upwards past MaxInt.
Add32(a, b) == IF b > MaxInt - a THEN (b - MaxInt) + a - 1 + MinInt ELSE a + b
Prioritize(r, p) ==
    LET q == Add32(r.prio[r.current], p)
    IN  [r EXCEPT !.prio[r.current] = IF q < 0 THEN 0
                                      ELSE IF q > 40 THEN 40 ELSE q]

\* Mutant: P that does not wait for the value to be positive.
P_NoWait(r, s, at, cont, tick) ==
    SetLevel([r EXCEPT !.semValue[s] = @ - 1], cont, tick)

\* KernelSemaphore::P (synch.cc:59-72) on semaphore s, called at `at':
\* with interrupts off, sleep on the queue while the value is 0 (a woken
\* thread tests again, at `at'), else take one; the tick of
\* SetLevel(oldLevel) then continues the thread at cont.
P(r, s, at, cont, tick) ==
    IF r.semValue[s] = 0
    THEN Sleep([r EXCEPT !.semQueue[s] = ListAppend(@, r.current),
                         !.pc[r.current] = at], "BLOCKED")
    ELSE SetLevel([r EXCEPT !.semValue[s] = @ - 1], cont, tick)

\* The children functions of Thread (thread.cc:100-149): Remove_Child
\* asserts there is a child to remove; Set_Parent_Ptr sets a parent only
\* where there is none.
Add_Child(r, t) == [r EXCEPT !.children[t] = @ + 1]
Remove_Child(r, t) ==
    IF r.children[t] < 1 THEN Stop(r, "ASSERT") ELSE [r EXCEPT !.children[t] = @ - 1]
Queue_Child(r, t, c) == [r EXCEPT !.childList[t] = ListAppend(@, c)]
UnQueue_Child(r, t) == [r EXCEPT !.childList[t] = ListRest(@)]
Set_Parent_Ptr(r, t, p) == IF r.parent[t] # NULL THEN r ELSE [r EXCEPT !.parent[t] = p]

\* System_Wait (systemcall.cc:375-419) up to the P: -ECHILD without
\* children, else wait for one to exit.
WaitStart(r, tick) ==
    IF r.children[r.current] = 0 THEN r ELSE P(r, r.current, "inP", "afterP", tick)

\* System_Wait after the P: take the first exited child off ChildList and
\* forget it; a child already asleep as a ZOMBIE is deleted, one that has
\* not got that far is told to Finish itself.
ReapChild(r, c) ==
    IF r.status[c] = "ZOMBIE" THEN DeleteThread(r, c)
    ELSE [r EXCEPT !.exitStatus[c] = TRUE]
Reap(r) ==
    IF r.childList[r.current] = <<>> THEN Stop(r, "ASSERT")
    ELSE ReapChild(Remove_Child([UnQueue_Child(r, r.current) EXCEPT
                                    !.pc[r.current] = "user"], r.current),
                   ListFirst(r.childList[r.current], NULL))

\* The end of System_Exit (systemcall.cc:351-369).  An orphan finishes.
\* Otherwise the thread queues itself on its parent's ChildList and Vs
\* its ChildExited; the tick of V's SetLevel may switch to the parent.
ExitNotify(r, tick) ==
    IF r.status[r.parent[r.current]] = "FREE" THEN Stop(r, "use after free")
    ELSE SetLevel(V(Queue_Child([r EXCEPT !.exitStatus[r.current] = FALSE],
                               r.parent[r.current], r.current),
                   r.parent[r.current]), "afterV", tick)
ExitTail(r, tick) ==
    IF r.parent[r.current] = NULL THEN Finish(r) ELSE ExitNotify(r, tick)

\* Mutant: Exit that does not wait for its children.
ExitLoop_NoWait(r, tick) == ExitTail(r, tick)

\* The loop of System_Exit (systemcall.cc:342-344): wait for every child.
ExitLoop(r, tick) ==
    IF r.children[r.current] > 0 THEN WaitStart(r, tick)
    ELSE ExitTail(r, tick)

\* Mutant: the two outcomes of thread_exit_status swapped.
ExitEnd_Swapped(r) ==
    IF r.exitStatus[r.current] THEN Sleep(r, "ZOMBIE") ELSE Finish(r)

\* After V in System_Exit (systemcall.cc:361-368): a child its parent has
\* already reaped finishes; otherwise it sleeps as a ZOMBIE until the
\* parent's Wait deletes it.
ExitEnd(r) ==
    IF r.exitStatus[r.current] THEN Finish(r) ELSE Sleep(r, "ZOMBIE")

\* Mutant: Fork without Add_Child.
ForkChild_NoCount(r, c) ==
    [r EXCEPT !.parent[c] = r.current, !.pc[c] = "fresh",
              !.steps[c] = r.steps[r.current]]

\* System_Fork (systemcall.cc:465-514) with the new Thread at address c:
\* its parent is the current thread, Thread::Fork (thread.cc:433-457) gives
\* it a stack that starts in ThreadRoot, the parent counts the child, and
\* ReadyToRun sets needResched, so the tick of SetLevel(oldLevel) yields.
\* The address space CopyFrom builds (modelled in VirtualMemory) never
\* fails.  The child's program is the rest of the parent's.
ThreadFork(r, c) == [r EXCEPT !.pc[c] = "fresh"]
ForkChild(r, c) ==
    Add_Child([ThreadFork(Set_Parent_Ptr(r, c, r.current), c) EXCEPT
                  !.steps[c] = r.steps[r.current]],
              r.current)
Fork(r, c, tick) ==
    SetLevel(ReadyToRun(ForkChild(NewThread(r, c), c), c), "user", tick)


-----------------------------------------------------------------------------
(* File descriptors and the console                                        *)

\* What FDTable[fd] reads as in Thread::getFD (thread.cc:864-871).  The
\* only check is fd < MAX_FD, so a negative fd reads before the array, in
\* userRegisters: undefined behaviour, which reads as NULL or as a wild
\* pointer ("wild"), the choice given as `wild'.
WildFds(fd) == IF fd < 0 THEN {"none", "wild"} ELSE {"none"}
GetFD(r, fd, wild) ==
    IF fd < 0 THEN wild
    ELSE IF fd < MaxFd THEN r.fd[r.current][fd] ELSE "none"

\* System_Open (systemcall.cc:129-156): the lowest free descriptor
\* (Thread::find_next_available_fd, thread.cc:833-840), else -EMFILE; if
\* the file system finds the file (`found'), a DiskFile entry goes there
\* (Thread::setFD, thread.cc:847-857), else -ENOENT.
Find_next_available_fd(r) ==
    LET free == {i \in Fds : r.fd[r.current][i] = "none"}
    IN  IF free = {} THEN -1 ELSE Min(free)
SetFD(r, fd, e) == IF fd < MaxFd THEN [r EXCEPT !.fd[r.current][fd] = e] ELSE r
Open(r, found) ==
    IF Find_next_available_fd(r) = -1 \/ ~found THEN r
    ELSE SetFD(r, Find_next_available_fd(r), "disk")

\* System_Close (systemcall.cc:282-303): -EBADF for a NULL entry, else
\* setFD(fd, NULL) frees it.
Close(r, fd, wild) ==
    CASE GetFD(r, fd, wild) = "wild" -> Stop(r, "wild FDTEntry")
      [] GetFD(r, fd, wild) = "none" -> r
      [] OTHER -> SetFD(r, fd, "none")

\* The loop of ConsoleWrite (console.cc:92-103) at its head: after the last
\* byte V(consoleWrite), whose tick ends the call; else Console::PutChar
\* (console.cc:226-245) asserts the console is free, marks it busy and
\* schedules its completion, whose SetLevel(oldLevel) ticks before the
\* thread goes on to P(consoleWriteDone).  That completion is ConsoleTime
\* ticks away, so it is not due in this tick.
NotDueYet(tick) == [tick EXCEPT !.devs = SelectSeq(@, LAMBDA d : d # "write")]
\* Interrupt::Schedule (interrupt.cc:291-306) of the completion, from
\* kernel code with interrupts on: the pending list gets an interrupt
\* that is not yet due, and SetLevel(oldLevel) ticks.
Schedule(r, cont, tick) == SetLevel(r, cont, NotDueYet(tick))
PutChar(r, tick) ==
    IF r.putBusy THEN Stop(r, "ASSERT")
    ELSE Schedule([r EXCEPT !.putBusy = TRUE, !.io[r.current] = @ - 1],
                  "wDone", tick)
WriteLoop(r, tick) ==
    IF r.io[r.current] = 0 THEN SetLevel(V(r, "consoleWrite"), "user", tick)
    ELSE PutChar(r, tick)

\* The loop of ConsoleRead (console.cc:59-70) at its head: after nbytes
\* V(consoleRead), whose tick ends the call; else P(consoleReadAvail).
ReadEnd(r, tick) == SetLevel(V(r, "consoleRead"), "user", tick)
ReadLoop(r, tick) ==
    IF r.io[r.current] = 0 THEN ReadEnd(r, tick)
    ELSE P(r, "readAvail", "rGet", "rTake", tick)

\* Mutant: GetChar returns the character but leaves it buffered.
Take_KeepBuffer(r, tick) ==
    IF r.incoming = "EOF" THEN ReadEnd(r, tick)
    ELSE ReadLoop([r EXCEPT !.io[r.current] = @ - 1], tick)

\* After P(consoleReadAvail): Console::GetChar (console.cc:212-218) takes
\* the buffered character and empties the buffer; EOF ends the loop, any
\* other value counts as a byte read.
Take(r, tick) ==
    IF r.incoming = "EOF" THEN ReadEnd([r EXCEPT !.incoming = "none"], tick)
    ELSE ReadLoop([r EXCEPT !.incoming = "none", !.io[r.current] = @ - 1], tick)

\* System_Write (systemcall.cc:221-271) and System_Read (systemcall.cc
\* 159-207) of n bytes: -EBADF for a NULL entry; a DiskFile is read or
\* written at once through the host file system; the console is reached
\* through ConsoleWrite and ConsoleRead, which start with P(consoleWrite)
\* and P(consoleRead).  The user buffer is copied without a tick.
Write(r, fd, n, tick, wild) ==
    CASE GetFD(r, fd, wild) = "wild" -> Stop(r, "wild FDTEntry")
      [] GetFD(r, fd, wild) = "console" ->
            P([r EXCEPT !.io[r.current] = n], "consoleWrite", "wLock", "wPut", tick)
      [] OTHER -> r
Read(r, fd, n, tick, wild) ==
    CASE GetFD(r, fd, wild) = "wild" -> Stop(r, "wild FDTEntry")
      [] GetFD(r, fd, wild) = "console" ->
            P([r EXCEPT !.io[r.current] = n], "consoleRead", "rLock", "rGet", tick)
      [] OTHER -> r

-----------------------------------------------------------------------------
(* The specification: Initialize, then the current thread's steps         *)

\* Initialize (system.cc:303-341): the first Thread runs, the console and
\* its semaphores are created and the console polls an input of
\* InputChars characters.
Init ==
    /\ status = [t \in Threads |-> IF t = Main THEN "RUNNING" ELSE "FREE"]
    /\ pc = [t \in Threads |-> IF t = Main THEN "user" ELSE "fresh"]
    /\ priority = [t \in Threads |-> 20]
    /\ parent = [t \in Threads |-> NULL]
    /\ children = [t \in Threads |-> 0]
    /\ childList = [t \in Threads |-> <<>>]
    /\ exitStatus = [t \in Threads |-> FALSE]
    /\ reachedExit = [t \in Threads |-> FALSE]
    /\ semValue = [s \in Sems |-> IF s \in {"consoleRead", "consoleWrite"}
                                 THEN 1 ELSE 0]
    /\ semQueue = [s \in Sems |-> <<>>]
    /\ steps = [t \in Threads |-> IF t = Main THEN MaxSteps ELSE 0]
    /\ readyList = <<>>
    /\ allThreads = <<Main>>
    /\ currentThread = Main
    /\ threadToBeDestroyed = NULL
    /\ needResched = FALSE
    /\ halted = "no"
    /\ fdTable = [t \in Threads |-> ConsoleFds]
    /\ ioLeft = [t \in Threads |-> 0]
    /\ putBusy = FALSE
    /\ incoming = "none"
    /\ inputLeft = InputChars
    /\ ioCalls = 0
    /\ lastNice = <<>>

\* The current thread runs and resumes at `at'.
Resumes(at) ==
    /\ halted = "no"
    /\ status[currentThread] = "RUNNING"
    /\ pc[currentThread] = at

\* The program executes its next instruction.  A needResched left set
\* would be taken at the next tick, but every ReadyToRun of another thread
\* is followed by the tick of a SetLevel(IntOn) that yields at once, so
\* needResched is never set when a program runs.
UserCode == Resumes("user")

\* One of the program's MaxSteps is used up.
Use(r) == [r EXCEPT !.steps[r.current] = @ - 1]

\* The timer interrupt after a user instruction: a time slice ends.
TimerPreempt ==
    /\ UserCode /\ steps[currentThread] > 0
    /\ \E devs \in DevSeqs :
          Commit(OneTick(Use(K), "user", [timer |-> TRUE, devs |-> devs]))
    /\ lastNice' = <<>>

\* SC_Fork through do_system_call (systemcall.cc:28-102).
SysFork ==
    /\ UserCode /\ steps[currentThread] > 0
    /\ \E c \in Threads, tick \in Ticks :
          /\ status[c] = "FREE"
          /\ Commit(Fork(Use(K), c, tick))
    /\ lastNice' = <<>>

\* SC_Yield: System_Yield (systemcall.cc:519-521).
SysYield ==
    /\ UserCode /\ steps[currentThread] > 0
    /\ Commit(Yield(Use(K)))
    /\ lastNice' = <<>>

\* SC_Nice: System_Nice (systemcall.cc:598-603).
SysNice ==
    /\ UserCode /\ steps[currentThread] > 0
    /\ \E inc \in NiceIncs :
          /\ Commit(Prioritize(Use(K), inc))
          /\ lastNice' = <<inc>>

\* SC_Wait: System_Wait (systemcall.cc:375-419) up to its P.
SysWait ==
    /\ UserCode /\ steps[currentThread] > 0
    /\ \E tick \in Ticks : Commit(WaitStart(Use(K), tick))
    /\ lastNice' = <<>>

\* SC_Halt: System_Halt (systemcall.cc:325-327) stops the machine.
SysHalt ==
    /\ UserCode /\ steps[currentThread] > 0
    /\ Commit(Halt(K))
    /\ lastNice' = <<>>

\* Thread::ReachedExit (thread.cc:545-555): the program has called Exit.
ReachedExit(r) == [r EXCEPT !.reachedExit[r.current] = TRUE]

\* SC_Exit: System_Exit (systemcall.cc:333-369) from its start; a program
\* may exit at any point, and must once its steps are used up.
SysExit ==
    /\ UserCode
    /\ \E tick \in Ticks :
          Commit(ExitLoop(ReachedExit(K), tick))
    /\ lastNice' = <<>>

\* An unexpected exception (exception.cc:53-93): no remote debugger is
\* attached, so the handler calls Finish on the faulting thread.
Exception ==
    /\ UserCode
    /\ Commit(Finish(K))
    /\ lastNice' = <<>>

\* Do_Fork (systemcall.cc:572-586), the function a forked thread runs:
\* it restores the registers and enters the program (Machine::Run).
Do_Fork == "user"

\* A new thread's first run, in ThreadRoot (thread.cc:360-388, the
\* pthread build; InterruptEnable, thread.cc:709-719, in the other):
\* interrupt->Enable() ticks, and may yield, before Do_Fork runs.  The
\* thread waits on its schedCond until SWITCH picks it, which is Run here.
ThreadRoot(r, tick) == SetLevel(r, Do_Fork, tick)
Start ==
    /\ Resumes("fresh")
    /\ \E tick \in Ticks : Commit(ThreadRoot(K, tick))
    /\ lastNice' = <<>>

\* A thread woken in the loop of P tests the value again.
ResumeP ==
    /\ Resumes("inP")
    /\ \E tick \in Ticks : Commit(P(K, currentThread, "inP", "afterP", tick))
    /\ lastNice' = <<>>

\* The rest of System_Wait, back in the program or in Exit's loop.
AfterWait(r, tick) ==
    IF r.halted # "no" THEN r
    ELSE IF r.reachedExit[r.current] THEN ExitLoop(r, tick)
    ELSE r
WaitDone ==
    /\ Resumes("afterP")
    /\ \E tick \in Ticks : Commit(AfterWait(Reap(K), tick))
    /\ lastNice' = <<>>

\* The rest of System_Exit after the V.
ExitDone ==
    /\ Resumes("afterV")
    /\ Commit(ExitEnd(K))
    /\ lastNice' = <<>>

\* SC_Open, SC_Close, SC_Read and SC_Write through do_system_call, at
\* most MaxIOCalls of them in all.
IOCall(r) == [Use(r) EXCEPT !.ioCalls = @ + 1]
SysOpen ==
    /\ UserCode /\ steps[currentThread] > 0 /\ ioCalls < MaxIOCalls
    /\ \E found \in BOOLEAN : Commit(Open(IOCall(K), found))
    /\ lastNice' = <<>>

\* SC_GetPPID: System_GetPPID (systemcall.cc:533-541) reads ParentPtr
\* (Thread::Get_Parent_Ptr, thread.cc:128-130) and, unless it is NULL,
\* the parent's id: a read of freed memory if the parent is gone.
GetPPID(r) ==
    IF r.parent[r.current] # NULL /\ r.status[r.parent[r.current]] = "FREE"
    THEN Stop(r, "use after free") ELSE r

SysGetPPID ==
    /\ UserCode /\ steps[currentThread] > 0
    /\ Commit(GetPPID(Use(K)))
    /\ lastNice' = <<>>

\* SC_Create and SC_Unlink: System_Create and System_Unlink (systemcall.cc
\* 106-121, 303-319) change only the host file system.
SysCreate ==
    /\ UserCode /\ steps[currentThread] > 0 /\ ioCalls < MaxIOCalls
    /\ Commit(IOCall(K))
    /\ lastNice' = <<>>

SysUnlink ==
    /\ UserCode /\ steps[currentThread] > 0 /\ ioCalls < MaxIOCalls
    /\ Commit(IOCall(K))
    /\ lastNice' = <<>>

SysClose ==
    /\ UserCode /\ steps[currentThread] > 0 /\ ioCalls < MaxIOCalls
    /\ \E fd \in FdArgs : \E wild \in WildFds(fd) : Commit(Close(IOCall(K), fd, wild))
    /\ lastNice' = <<>>

SysWrite ==
    /\ UserCode /\ steps[currentThread] > 0 /\ ioCalls < MaxIOCalls
    /\ \E fd \in FdArgs, n \in IOLens, tick \in Ticks :
          \E wild \in WildFds(fd) : Commit(Write(IOCall(K), fd, n, tick, wild))
    /\ lastNice' = <<>>

SysRead ==
    /\ UserCode /\ steps[currentThread] > 0 /\ ioCalls < MaxIOCalls
    /\ \E fd \in FdArgs, n \in IOLens, tick \in Ticks :
          \E wild \in WildFds(fd) : Commit(Read(IOCall(K), fd, n, tick, wild))
    /\ lastNice' = <<>>

\* A writer woken in the loop of P(consoleWrite) tests again.
WriteLock ==
    /\ Resumes("wLock")
    /\ \E tick \in Ticks : Commit(P(K, "consoleWrite", "wLock", "wPut", tick))
    /\ lastNice' = <<>>

\* ConsoleWrite at the head of its loop.
WritePut ==
    /\ Resumes("wPut")
    /\ \E tick \in Ticks : Commit(WriteLoop(K, tick))
    /\ lastNice' = <<>>

\* ConsoleWrite at P(consoleWriteDone), first or after a wake-up.
WriteWait ==
    /\ Resumes("wDone")
    /\ \E tick \in Ticks : Commit(P(K, "writeDone", "wDone", "wPut", tick))
    /\ lastNice' = <<>>

\* A reader woken in the loop of P(consoleRead) tests again.
ReadLock ==
    /\ Resumes("rLock")
    /\ \E tick \in Ticks : Commit(P(K, "consoleRead", "rLock", "rGet", tick))
    /\ lastNice' = <<>>

\* ConsoleRead at the head of its loop, or woken in P(consoleReadAvail).
ReadWait ==
    /\ Resumes("rGet")
    /\ \E tick \in Ticks : Commit(ReadLoop(K, tick))
    /\ lastNice' = <<>>

\* ConsoleRead after P(consoleReadAvail), at GetChar.
ReadTake ==
    /\ Resumes("rTake")
    /\ \E tick \in Ticks : Commit(Take(K, tick))
    /\ lastNice' = <<>>

\* Interrupt::Idle (interrupt.cc:228-258) in the loop of Sleep while
\* FindNextToRun finds no thread: the clock jumps to the next pending
\* interrupt, the interrupts then due are handled, and FindNextToRun is
\* tried again.  The console's poll is always pending, so Idle never
\* halts; a step here is one that changes something.
Idle ==
    /\ halted = "no" /\ status[currentThread] # "RUNNING"
    /\ \E devs \in DevSeqs :
          /\ HandleDue(K, devs) # K
          /\ Commit(Dispatch(HandleDue(K, devs)))
    /\ lastNice' = <<>>

Next ==
    \/ SysFork \/ SysYield \/ SysNice \/ SysWait \/ SysHalt \/ SysExit
    \/ SysOpen \/ SysClose \/ SysWrite \/ SysRead \/ SysCreate \/ SysUnlink
    \/ SysGetPPID
    \/ TimerPreempt
    \/ Start \/ ResumeP \/ WaitDone \/ ExitDone
    \/ WriteLock \/ WritePut \/ WriteWait \/ ReadLock \/ ReadWait \/ ReadTake
    \/ Idle

\* The CPU is busy when the machine has not stopped and either the current
\* thread is RUNNING, when the action for its pc is enabled (a program may
\* always Exit, and every resume point has its action), or the machine
\* idles with a console interrupt pending that changes something: a write
\* in progress, or an empty input buffer the next poll fills.  Otherwise
\* no action is enabled.
Busy ==
    /\ halted = "no"
    /\ \/ status[currentThread] = "RUNNING"
       \/ putBusy \/ incoming = "none"

\* Weak fairness of Next, WF_vars(Next) with ENABLED <<Next>>_vars written
\* out as Busy: the CPU never stops executing the current thread while it
\* is busy (Machine::Run and the kernel code it calls never wait for
\* anything but an interrupt), and an idle machine always reaches the next
\* pending interrupt (Interrupt::Idle advances the clock to it).
Fairness == <>[]Busy => []<><<Next>>_vars

\* Programs that make only system calls, and programs that may also fault.
Spec == Init /\ [][Next]_vars /\ Fairness

FaultNext == Next \/ Exception

FaultSpec == Init /\ [][FaultNext]_vars /\ Fairness

-----------------------------------------------------------------------------
(* Properties                                                              *)

Live(t) == status[t] # "FREE"

\* A child whose parent has not yet taken it off ChildList in Wait.
Unreaped(c) == Live(c) /\ ~exitStatus[c]

ThreadAt(t) ==
    [status |-> status[t], pc |-> pc[t], prio |-> priority[t],
     parent |-> parent[t], children |-> children[t],
     childList |-> childList[t], exitStatus |-> exitStatus[t],
     reachedExit |-> reachedExit[t], fd |-> fdTable[t]]

TypeOK ==
    /\ \A f \in ToSet(<<DOMAIN status, DOMAIN pc, DOMAIN priority,
                        DOMAIN parent, DOMAIN children, DOMAIN childList,
                        DOMAIN exitStatus, DOMAIN reachedExit,
                        DOMAIN fdTable>>) : f = Threads
    /\ \A t \in Threads : ThreadAt(t) \in ThreadFields
    /\ semValue \in [Sems -> Nat]
    /\ semQueue \in [Sems -> Seq(Threads)]
    /\ steps \in [Threads -> 0..MaxSteps]
    /\ readyList \in Seq(Threads)
    /\ allThreads \in Seq(Threads)
    /\ currentThread \in Threads
    /\ threadToBeDestroyed \in Threads \cup {NULL}
    /\ needResched \in BOOLEAN
    /\ ioLeft \in [Threads -> Nat]
    /\ putBusy \in BOOLEAN
    /\ incoming \in Incoming
    /\ inputLeft \in 0..InputChars
    /\ ioCalls \in 0..MaxIOCalls
    /\ lastNice \in Seq(NiceIncs)

\* The scheduler's lists agree with the threads' states (ReadyToRun,
\* FindNextToRun, Run, ~Thread): the ready list holds exactly the READY
\* threads, each once, in ThreadOrder; allThreads holds exactly the
\* Threads not yet deleted, each once; and the only RUNNING thread is the
\* current one.
SchedulerConsistent ==
    /\ ToSet(readyList) = {t \in Threads : status[t] = "READY"}
    /\ Len(readyList) = Cardinality(ToSet(readyList))
    /\ \A i \in 1..Len(readyList) - 1 :
          priority[readyList[i]] <= priority[readyList[i + 1]]
    /\ ToSet(allThreads) = {t \in Threads : Live(t)}
    /\ Len(allThreads) = Cardinality(ToSet(allThreads))
    /\ \A t \in Threads : status[t] = "RUNNING" => t = currentThread

\* The Fork/Exit/Wait protocol (System_Fork, System_Exit, System_Wait):
\* a thread's Children counts exactly its unreaped children; every V on
\* its ChildExited not yet consumed by a P is one child waiting on its
\* ChildList, so the P of Wait never finds ChildList empty; and ChildList
\* holds only children that have called Exit and not been reaped.
ExitProtocol ==
    \A t \in Threads : Live(t) =>
        /\ children[t] = Cardinality({c \in Threads : parent[c] = t /\ Unreaped(c)})
        /\ semValue[t] + (IF pc[t] = "afterP" THEN 1 ELSE 0) = Len(childList[t])
        /\ \A i \in 1..Len(childList[t]) :
              LET c == childList[t][i]
              IN  parent[c] = t /\ Unreaped(c) /\ reachedExit[c]

\* Every ZOMBIE is still reclaimable: it is the threadToBeDestroyed the
\* next Scheduler::Run deletes, or it waits on its parent's ChildList for
\* the parent's Wait to delete it.  A zombie that is neither is never
\* deleted, and stays in allThreads, so FindNextToRun never halts.
ZombiesAreReclaimable ==
    \A t \in Threads : status[t] = "ZOMBIE" =>
        \/ t = threadToBeDestroyed
        \/ parent[t] # NULL /\ t \in ToSet(childList[parent[t]])

\* A thread that has not been reaped has a parent that still exists, so
\* System_Exit's Queue_Child and V reach a live Thread.
ParentOutlivesChild ==
    \A t \in Threads :
        Unreaped(t) /\ parent[t] # NULL => Live(parent[t])

\* The P at which a thread waiting on semaphore s tests again.
WaitsAt(s) ==
    CASE s = "consoleWrite" -> "wLock" [] s = "writeDone" -> "wDone"
      [] s = "consoleRead" -> "rLock" [] s = "readAvail" -> "rGet"
      [] OTHER -> "inP"

\* No wake-up is lost: a thread is BLOCKED exactly when it sits in the
\* queue of a semaphore, once, and it waits there in that semaphore's P
\* (KernelSemaphore::P and V, Thread::Sleep, Scheduler::ReadyToRun).  A
\* BLOCKED thread on no queue would never run again.
BlockedAreQueued ==
    /\ \A t \in Threads :
          status[t] = "BLOCKED" <=> \E s \in Sems : t \in ToSet(semQueue[s])
    /\ \A s \in Sems : \A i \in 1..Len(semQueue[s]) :
          /\ pc[semQueue[s][i]] = WaitsAt(s)
          /\ \A j \in 1..Len(semQueue[s]) : semQueue[s][i] = semQueue[s][j] => i = j

\* The console's semaphores count what ConsoleWrite, ConsoleRead and the
\* console's interrupts have done (console.cc, system.cc:71-84): one
\* thread at a time is inside ConsoleWrite's loop and one inside
\* ConsoleRead's; the console is busy, or its completion not yet taken by
\* P(consoleWriteDone), exactly while the writer waits at that P; and a
\* character is buffered exactly while consoleReadAvail counts it or the
\* reader that took the count has not yet called GetChar.
At(where) == {t \in Threads : Live(t) /\ pc[t] \in where}
ConsoleProtocol ==
    /\ semValue["consoleWrite"] + Cardinality(At({"wPut", "wDone"})) = 1
    /\ semValue["consoleRead"] + Cardinality(At({"rGet", "rTake"})) = 1
    /\ (IF putBusy THEN 1 ELSE 0) + semValue["writeDone"]
          = Cardinality(At({"wDone"}))
    /\ (IF incoming # "none" THEN 1 ELSE 0)
          = semValue["readAvail"] + Cardinality(At({"rTake"}))

\* No ASSERT fails and no freed or NULL pointer is followed.
NoAbort == halted \in {"no", "halt"}

\* Every run ends: the last thread's Finish finds itself alone in
\* allThreads and halts the machine (FindNextToRun), or a program calls
\* Halt; it never idles for good with threads left.
Termination == <>(halted # "no")

\* Nice follows the sign of its increment: a positive increment never
\* lowers Priority (so never lets the thread run sooner) and a negative
\* one never raises it (Thread::Prioritize, System_Nice).
NiceRespectsSign ==
    [][lastNice' # <<>> =>
        /\ Head(lastNice') >= 0 => priority'[currentThread] >= priority[currentThread]
        /\ Head(lastNice') <= 0 => priority'[currentThread] <= priority[currentThread]]_vars


\* Scheduler::ReadyToRun queues a thread behind every thread already
\* waiting with equal or lower Priority and ahead of every one with a
\* higher Priority (SortedList::Insert with ThreadOrder): equal priorities
\* are served in FIFO order, so Thread::Yield lets the others run first.
ReadyInsertIsStable ==
    [][\A t, u \in Threads :
         /\ status[t] # "READY" /\ status'[t] = "READY"
         /\ status[u] = "READY" /\ status'[u] = "READY"
         => (priority'[u] <= priority'[t] <=> Before(readyList', u, t))]_vars

=============================================================================
