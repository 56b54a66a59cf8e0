---------------------------- MODULE SortedList ----------------------------
(***************************************************************************)
(* The linked lists of threads/list.cc as sequences.  The scheduler's      *)
(* ready list is a SortedList ordered by ThreadOrder: Insert puts a thread *)
(* before the first element of strictly greater Priority, so threads of    *)
(* equal priority keep the order in which they were inserted.  prio is the *)
(* Priority of every thread.                                               *)
(***************************************************************************)
EXTENDS Integers, Sequences, SequencesExt

\* List::IsEmpty (list.cc:68-71).
IsEmpty(l) == l = <<>>

\* List::Append (list.cc:112-123): a new element after the last, or the
\* only one.
ListAppend(l, item) == Append(l, item)

\* List::Remove() (list.cc:133-158) returns the first item, or NULL (null)
\* from an empty list, and unlinks that first element.
ListFirst(l, null) == IF IsEmpty(l) THEN null ELSE Head(l)
ListRest(l) == IF IsEmpty(l) THEN l ELSE Tail(l)

\* ThreadOrder (scheduler.cc:45-53): t1 goes before t2 iff its Priority is
\* lower.
ThreadOrder(prio, t1, t2) == prio[t1] < prio[t2]

\* The loop of SortedList::Insert (list.cc:287-296): walk to the first
\* element that item goes before and link item in front of it, else link
\* it after the last element.
RECURSIVE InsertScan(_, _, _)

\* Mutant: insert before the first element of equal or greater priority.
InsertScan_BeforeEqual(s, item, prio) ==
    IF s = <<>> THEN <<item>>
    ELSE IF ~ThreadOrder(prio, Head(s), item) THEN <<item>> \o s
    ELSE <<Head(s)>> \o InsertScan(Tail(s), item, prio)

InsertScan(s, item, prio) ==
    IF s = <<>> THEN <<item>>
    ELSE IF ThreadOrder(prio, item, Head(s)) THEN <<item>> \o s
    ELSE <<Head(s)>> \o InsertScan(Tail(s), item, prio)

\* SortedList::Insert (list.cc:277-298): an empty list, the front, or the
\* scan.
SortedInsert(s, item, prio) ==
    IF s = <<>> THEN <<item>>
    ELSE IF ThreadOrder(prio, item, Head(s)) THEN <<item>> \o s
    ELSE <<Head(s)>> \o InsertScan(Tail(s), item, prio)

\* x stands before y in s.
Before(s, x, y) == \E i, j \in 1..Len(s) : s[i] = x /\ s[j] = y /\ i < j

=============================================================================
