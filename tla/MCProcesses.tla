--------------------------- MODULE MCProcesses ---------------------------
(***************************************************************************)
(* Processes for TLC: three Thread addresses, programs of a few system     *)
(* calls.  Threads other than Main are interchangeable addresses.          *)
(***************************************************************************)
EXTENDS Processes, TLC

CONSTANTS t1, t2, t3

MCThreads == {t1, t2, t3}

MCNiceIncs == {-1, 1}

\* Nice(INT_MAX), as a program may pass it.
MCNiceHuge == {MaxInt}

\* Descriptors a program may pass: a console descriptor (stdout) and the
\* one Open hands out first.
MCFdArgs == {1, 2}

MCSymmetry == Permutations(MCThreads \ {Main})

\* The contents of a freed Thread are never read again but by a use after
\* free, which stops the machine; states differing only there are the same.
MCView ==
    <<status, [t \in Threads |-> IF Live(t) THEN pc[t] ELSE "fresh"],
      [t \in Threads |-> IF Live(t) THEN priority[t] ELSE 20],
      parent, children, childList, exitStatus, reachedExit, semValue,
      semQueue, [t \in Threads |-> IF Live(t) THEN steps[t] ELSE 0],
      readyList, allThreads, currentThread, threadToBeDestroyed,
      needResched, halted, lastNice,
      [t \in Threads |-> IF Live(t) THEN fdTable[t] ELSE ConsoleFds],
      [t \in Threads |-> IF Live(t) THEN ioLeft[t] ELSE 0],
      putBusy, incoming, inputLeft, ioCalls>>
====
