----------------------------- MODULE EventStore -----------------------------
(***************************************************************************)
(* The append-only event log of one session (runtime/event_store.py): the  *)
(* list in memory, the JSONL file behind it, and what a process that dies  *)
(* in the middle of a write leaves there.  A line of the file that ends in *)
(* a newline is an event; the bytes after the last newline are a torn      *)
(* tail, which is not one.  Only what the file holds survives the process. *)
(*                                                                         *)
(* A line goes through the buffer of the file object: when the flush       *)
(* raises, append raises too, the event stays in the list, and its bytes   *)
(* stay in the buffer for the next flush.                                  *)
(***************************************************************************)
EXTENDS Naturals, Sequences

CONSTANTS
    Event,      \* the events an append may be given, their seq left out
    MaxLog      \* bound: events in the log

VARIABLES
    file,       \* the complete lines of the JSONL file
    torn,       \* the file ends in bytes without a newline
    mem,        \* EventStore._events
    isOpen,     \* EventStore._file is an open file
    badTail,    \* EventStore._invalid_tail_start is not None
    acked       \* the appends that returned: pairs of a seq and an event

vars == <<file, torn, mem, isOpen, badTail, acked>>

Init ==
    /\ file = <<>>
    /\ torn = FALSE
    /\ mem = <<>>
    /\ isOpen \in BOOLEAN
    /\ badTail = FALSE
    /\ acked = {}

\* open(): load the longest prefix of complete lines.
Open ==
    /\ ~isOpen
    /\ isOpen' = TRUE
    /\ mem' = file
    /\ badTail' = torn
    /\ UNCHANGED <<file, torn, acked>>

\* repair_tail(): truncate the file at the first byte after the prefix.
RepairTail ==
    /\ isOpen
    /\ badTail
    /\ torn' = FALSE
    /\ badTail' = FALSE
    /\ UNCHANGED <<file, mem, isOpen, acked>>

\* What a flush that fails, or a process that dies in it, has written of the
\* lines the list holds and the file does not: some of them, and perhaps a
\* part of the next one.  A tail that was torn by this file object stays torn
\* until its line is complete; one that the load found is truncated first.
PartlyWritten(lines) ==
    \E n \in Len(file) .. Len(lines) :
        /\ file' = SubSeq(lines, 1, n)
        /\ torn' \in IF n = Len(lines) THEN {FALSE}
                     ELSE IF n = Len(file) /\ torn /\ ~badTail THEN {TRUE}
                     ELSE BOOLEAN

\* append(): repair the tail if the load found one, extend the list, write
\* the line and flush it.
AppendEvent(e) ==
    /\ isOpen
    /\ Len(mem) < MaxLog
    /\ mem' = Append(mem, e)
    /\ badTail' = FALSE
    /\ file' = mem'
    /\ torn' = FALSE
    /\ acked' = acked \cup {<<Len(mem'), e>>}
    /\ UNCHANGED isOpen

\* append() whose flush raises: the event is in the list all the same.
AppendFails(e) ==
    /\ isOpen
    /\ Len(mem) < MaxLog
    /\ mem' = Append(mem, e)
    /\ badTail' = FALSE
    /\ PartlyWritten(mem')
    /\ file' # mem'
    /\ UNCHANGED <<isOpen, acked>>

\* flush() and close(): the buffer is written out.  The list of events stays;
\* the next append reopens the file and loads it again.
Flush ==
    /\ isOpen
    /\ file # mem
    /\ file' = mem
    /\ torn' = FALSE
    /\ UNCHANGED <<mem, isOpen, badTail, acked>>

Close ==
    /\ isOpen
    /\ isOpen' = FALSE
    /\ file' = mem
    /\ torn' = (torn /\ file = mem)
    /\ UNCHANGED <<mem, badTail, acked>>

\* The process dies, between two writes or in the middle of one: the list and
\* the buffer are gone.
ForgetMemory ==
    /\ isOpen
    /\ mem' = <<>>
    /\ isOpen' = FALSE
    /\ badTail' = FALSE
    /\ UNCHANGED acked

Crash == ForgetMemory /\ UNCHANGED <<file, torn>>

CrashInAppend(e) ==
    /\ Len(mem) < MaxLog
    /\ PartlyWritten(Append(mem, e))
    /\ ForgetMemory

Next ==
    \/ Open
    \/ RepairTail
    \/ Flush
    \/ Close
    \/ Crash
    \/ \E e \in Event : AppendEvent(e) \/ AppendFails(e) \/ CrashInAppend(e)

Spec == Init /\ [][Next]_vars

-----------------------------------------------------------------------------

\* While the file is open, the list is what the file holds and what its buffer
\* still has to write (event_store.py:79-100, 123-157).
TypeOK ==
    /\ file \in Seq(Event)
    /\ mem \in Seq(Event)
    /\ torn \in BOOLEAN
    /\ isOpen \in BOOLEAN
    /\ badTail \in BOOLEAN
    /\ acked \subseteq (Nat \ {0}) \X Event

\* An append that returned is never undone: whatever flush failed before or
\* after it, wherever the process died, and whatever tail was truncated, the
\* file holds the event as the line its seq names (event_store.py:95-100,
\* 143-157, 163-193).
AckedDurable ==
    \A a \in acked : a[1] <= Len(file) /\ file[a[1]] = a[2]

\* No step of the store removes or changes a line a reader may have loaded:
\* the complete lines only grow (event_store.py:154, 98).
FileOnlyGrows ==
    [][/\ Len(file) <= Len(file')
       /\ SubSeq(file', 1, Len(file)) = file]_vars

-----------------------------------------------------------------------------
(* The inductive invariant of EventStoreProofs.                            *)

\* An open file holds a prefix of the list.
ListExtendsFile ==
    isOpen => /\ Len(file) <= Len(mem)
              /\ \A i \in 1 .. Len(file) : file[i] = mem[i]

StoreInv ==
    /\ TypeOK
    /\ ListExtendsFile
    /\ AckedDurable
=============================================================================
