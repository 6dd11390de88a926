------------------------------- MODULE Asgn2 -------------------------------
(***************************************************************************)
(* The whole asgn2 driver: the port of Asgn2Port and the processes that    *)
(* open the device and read sessions from it.  Readers share sessions, the *)
(* page list, read_offset and fin_reading with the port and each other,    *)
(* and take no lock.                                                       *)
(*                                                                         *)
(* On one CPU a process runs only when no handler and no tasklet does (a   *)
(* scheduled tasklet runs when the interrupt returns), and the kernel does *)
(* not preempt: another process gets the CPU only when the first sleeps,   *)
(* on the wait queue or in copy_to_user, or leaves the kernel.  With SMP   *)
(* everything interleaves.                                                 *)
(***************************************************************************)
EXTENDS Asgn2Port, SequencesExt, FiniteSetsExt

CONSTANTS
  Readers,         \* the processes that use the device
  ReadSizes,       \* the counts they pass to read
  NprocLimits,     \* the arguments they pass to TEM_SET_NPROC
  Signals,         \* can a sleeping reader be interrupted by a signal
  CopyMayFail,     \* can copy_to_user fail
  Manners,         \* what the world around the driver refrains from
  MaxReads         \* bound: how many sessions are taken

\* between:  bytes come only when the last is stored and no call is under way
\* one_page: no byte for a second page comes before the first was read
\* nonempty: no session is empty
\* patient:  no process reads when only part of a session is stored
AllManners == {"between", "one_page", "nonempty", "patient"}

ASSUME ReaderAssumption == /\ IsFiniteSet(Readers)
                           /\ ReadSizes \subseteq Nat /\ NprocLimits \subseteq Nat
                           /\ {Signals, CopyMayFail} \subseteq BOOLEAN
                           /\ Manners \subseteq AllManners /\ MaxReads \in Nat

VARIABLES
  nprocs, max_nprocs, fin_reading,
  read_offset,     \* sessions.read_offset
  reader,          \* each process: where it is in which call, its locals
  got              \* ghost: the bytes each read returns, in the order of head

fileVars == <<nprocs, max_nprocs, fin_reading, read_offset>>
readerVars == <<fileVars, reader, got>>
vars == <<portVars, readerVars>>

Outside == -1      \* a byte read past the end of a page

Closed == [pc |-> "closed", want |-> 0, total |-> 0, count |-> 0, nth |-> 0,
           size_read |-> 0, begin_offset |-> 0, curr |-> NoPage, next |-> NoPage,
           num_pages |-> 0, data_size |-> 0]
Opened == [Closed EXCEPT !.pc = "open"]

InCall(r) == reader[r].pc \notin {"closed", "open", "asleep"}

\* In the kernel and not waiting for the CPU: neither woken, nor asleep on a page
\* fault of copy_to_user.
Running(r) == InCall(r) /\ reader[r].pc \notin {"woken", "copy"}
MayRun(r) ==
  SMP \/ /\ irq.pc = "idle" /\ tasklet.pc = "idle" /\ ~tasklet.sched
         /\ \A s \in Readers \ {r} : ~Running(s)

\* Reader r, at pc, goes on with the record `next`.
Goes(r, pc, next) == /\ MayRun(r) /\ reader[r].pc = pc
                     /\ reader' = [reader EXCEPT ![r] = next]

Init == /\ PortInit
        /\ nprocs = 0 /\ max_nprocs = 1 /\ fin_reading = 0 /\ read_offset = 0
        /\ reader = [r \in Readers |-> Closed] /\ got = <<>>

-----------------------------------------------------------------------------
(* open, release, ioctl.                                                   *)

\* The limit is tested ...  (A process that finds it reached returns EBUSY,
\* one that opens for writing EACCES: nothing changes.  The mutant lets one too
\* many in.)
OpenTestTooMany(r) ==
  /\ nprocs <= max_nprocs
  /\ Goes(r, "closed", [Closed EXCEPT !.pc = "opening"])
  /\ UNCHANGED <<portVars, fileVars, got>>
OpenTest(r) ==
  /\ nprocs < max_nprocs
  /\ Goes(r, "closed", [Closed EXCEPT !.pc = "opening"])
  /\ UNCHANGED <<portVars, fileVars, got>>

\* ... and then the process counted.
OpenEnter(r) ==
  /\ Goes(r, "opening", Opened)
  /\ nprocs' = nprocs + 1 /\ fin_reading' = 0
  /\ UNCHANGED <<portVars, max_nprocs, read_offset, got>>

CloseFile(r) ==
  /\ Goes(r, "open", Closed)
  /\ nprocs' = nprocs - 1
  /\ UNCHANGED <<portVars, max_nprocs, fin_reading, read_offset, got>>

SetNproc(r, n) ==
  /\ Goes(r, "open", reader[r])
  /\ max_nprocs' = n
  /\ UNCHANGED <<portVars, nprocs, fin_reading, read_offset, got>>

-----------------------------------------------------------------------------
(* read.                                                                   *)

\* Unless the session was read to its end, look for one that is complete.
ReadStart(r, n) ==
  /\ fin_reading = 0 /\ Len(got) < MaxReads
  /\ "patient" \in Manners => sessions.count > 0 \/ read_offset = write_offset
  /\ Goes(r, "open", [Opened EXCEPT !.want = n,
            !.pc = IF sessions.count = 0 THEN "offset" ELSE "size"])
  /\ UNCHANGED <<portVars, fileVars, got>>

\* There is none: wait, but only if nothing of an incomplete one is stored.
ReadOffset(r) ==
  /\ Goes(r, "offset", [reader[r] EXCEPT
            !.pc = IF read_offset = write_offset THEN "wait" ELSE "size"])
  /\ UNCHANGED <<portVars, fileVars, got>>

\* wait_event_interruptible: the process is on the queue before it tests the
\* condition, so no wake-up falls in between; woken, it tests again.  (The mutant
\* goes to sleep the first time on what it found before.)
ReadWaitUntested(r) ==
  /\ \/ Goes(r, "wait", [reader[r] EXCEPT !.pc = "asleep"])
     \/ Goes(r, "woken", [reader[r] EXCEPT
              !.pc = IF sessions.count # 0 THEN "size" ELSE "asleep"])
  /\ UNCHANGED <<portVars, fileVars, got>>
ReadWait(r) ==
  /\ \E pc \in {"wait", "woken"} :
       Goes(r, pc, [reader[r] EXCEPT
              !.pc = IF sessions.count # 0 THEN "size" ELSE "asleep"])
  /\ UNCHANGED <<portVars, fileVars, got>>

\* A signal ends the wait, and its result is ignored.
Signal(r) ==
  /\ Signals
  /\ Goes(r, "asleep", [reader[r] EXCEPT !.pc = "size"])
  /\ UNCHANGED <<portVars, fileVars, got>>

ReadSize(r) ==
  /\ Goes(r, "size", [reader[r] EXCEPT !.pc = "head",
                        !.total = sessions.sizes[sessions.head]])
  /\ UNCHANGED <<portVars, fileVars, got>>

\* head moves on: the session is taken.  (The mutant does not wrap it around.)
ReadHeadPast(r) ==
  /\ Goes(r, "head", [reader[r] EXCEPT !.pc = "load", !.nth = Len(got) + 1])
  /\ sessions' = [sessions EXCEPT !.head = sessions.head + 1]
  /\ got' = Append(got, <<>>)
  /\ UNCHANGED <<assembly, cbuf, lock, irq, tasklet, store, ghosts, fileVars>>
ReadHead(r) ==
  /\ Goes(r, "head", [reader[r] EXCEPT !.pc = "load", !.nth = Len(got) + 1])
  /\ sessions' = [sessions EXCEPT !.head = (sessions.head + 1) % MAX_SESSIONS]
  /\ got' = Append(got, <<>>)
  /\ UNCHANGED <<assembly, cbuf, lock, irq, tasklet, store, ghosts, fileVars>>

\* sessions.count--: load ...
ReadLoad(r) ==
  /\ Goes(r, "load", [reader[r] EXCEPT !.pc = "dec", !.count = sessions.count])
  /\ UNCHANGED <<portVars, fileVars, got>>

\* The list of pages, as a pointer sees it: NoPage stands for the list head.
First == IF mem_list = <<>> THEN NoPage ELSE Head(mem_list)
After(f) == IF \E i \in 1..Len(mem_list) - 1 : mem_list[i] = f
            THEN mem_list[(CHOOSE i \in 1..Len(mem_list) - 1 : mem_list[i] = f) + 1]
            ELSE NoPage
GoTo(local, f) == [local EXCEPT !.pc = "copy", !.curr = f, !.next = After(f)]

\* ... and store; the walk along the list begins, fetching one page ahead.
\* (Two mutants: the decrement is forgotten; every read begins where its page does.)
ReadDecForgotten(r) ==
  /\ Goes(r, "dec", GoTo([reader[r] EXCEPT !.count = 0,
                                           !.begin_offset = read_offset], First))
  /\ UNCHANGED <<portVars, fileVars, got>>
ReadDecFromStart(r) ==
  /\ Goes(r, "dec", GoTo([reader[r] EXCEPT !.count = 0, !.begin_offset = 0], First))
  /\ sessions' = [sessions EXCEPT !.count = reader[r].count - 1]
  /\ UNCHANGED <<assembly, cbuf, lock, irq, tasklet, store, ghosts, fileVars, got>>
ReadDec(r) ==
  /\ Goes(r, "dec", GoTo([reader[r] EXCEPT !.count = 0,
                                           !.begin_offset = read_offset], First))
  /\ sessions' = [sessions EXCEPT !.count = reader[r].count - 1]
  /\ UNCHANGED <<assembly, cbuf, lock, irq, tasklet, store, ghosts, fileVars, got>>

\* How many bytes are read from the current page: all that is left of the
\* session when that is less than a page, wherever it begins and however many
\* were asked for.
SizeLeft(r) == reader[r].total - reader[r].size_read
SizeToRead(r) ==
  IF SizeLeft(r) < PAGE_SIZE THEN SizeLeft(r)
  ELSE Min({PAGE_SIZE - reader[r].begin_offset, reader[r].want, reader[r].total})

\* The bytes copy_to_user finds there.
PageBytes(r) ==
  [k \in 1..SizeToRead(r) |->
     LET at == reader[r].begin_offset + k - 1
     IN  IF at < PAGE_SIZE THEN page[reader[r].curr][at] ELSE Outside]

\* Copy them and move read_offset.  At the start of a page (after the last byte
\* of one, or after no byte at all) the page is freed.  (The mutant frees it
\* when the session ends.)
ReadCopyFrees(r) ==
  /\ reader[r].curr # NoPage
  /\ Goes(r, "copy", [reader[r] EXCEPT
            !.pc = IF SizeToRead(r) = SizeLeft(r) THEN "free" ELSE "next",
            !.begin_offset = @ + SizeToRead(r), !.size_read = @ + SizeToRead(r)])
  /\ got' = [got EXCEPT ![reader[r].nth] = @ \o PageBytes(r)]
  /\ fin_reading' = IF SizeLeft(r) < PAGE_SIZE THEN 1 ELSE fin_reading
  /\ read_offset' = (read_offset + SizeToRead(r)) % PAGE_SIZE
  /\ UNCHANGED <<portVars, nprocs, max_nprocs>>
ReadCopy(r) ==
  /\ reader[r].curr # NoPage
  /\ Goes(r, "copy", [reader[r] EXCEPT
            !.pc = IF (read_offset + SizeToRead(r)) % PAGE_SIZE = 0 THEN "free" ELSE "next",
            !.begin_offset = @ + SizeToRead(r), !.size_read = @ + SizeToRead(r)])
  /\ got' = [got EXCEPT ![reader[r].nth] = @ \o PageBytes(r)]
  /\ fin_reading' = IF SizeLeft(r) < PAGE_SIZE THEN 1 ELSE fin_reading
  /\ read_offset' = (read_offset + SizeToRead(r)) % PAGE_SIZE
  /\ UNCHANGED <<portVars, nprocs, max_nprocs>>

\* copy_to_user fails: what was read before is returned, the session is gone.
ReadFault(r) ==
  /\ CopyMayFail /\ reader[r].curr # NoPage /\ SizeToRead(r) > 0
  /\ Goes(r, "copy", Opened)
  /\ fin_reading' = 1
  /\ UNCHANGED <<portVars, nprocs, max_nprocs, read_offset, got>>

\* Free and unlink the page, then num_pages-- and data_size -= PAGE_SIZE, which
\* the tasklet changes under a lock the reader does not take: load ...
ReadFree(r) ==
  /\ Goes(r, "free", [reader[r] EXCEPT !.pc = "uncount",
                        !.num_pages = num_pages, !.data_size = data_size])
  /\ mem_list' = RemoveFirst(mem_list, reader[r].curr)
  /\ UNCHANGED <<assembly, cbuf, sessions, lock, irq, tasklet, page, num_pages,
                 data_size, write_offset, copied, ghosts, fileVars, got>>

\* ... and store.  (The mutant forgets the data.)
ReadUncountPagesOnly(r) ==
  /\ Goes(r, "uncount", [reader[r] EXCEPT !.pc = "next",
                        !.num_pages = 0, !.data_size = 0])
  /\ num_pages' = reader[r].num_pages - 1
  /\ UNCHANGED <<assembly, cbuf, sessions, lock, irq, tasklet, mem_list, page,
                 data_size, write_offset, copied, ghosts, fileVars, got>>
ReadUncount(r) ==
  /\ Goes(r, "uncount", [reader[r] EXCEPT !.pc = "next",
                        !.num_pages = 0, !.data_size = 0])
  /\ num_pages' = reader[r].num_pages - 1
  /\ data_size' = reader[r].data_size - PAGE_SIZE
  /\ UNCHANGED <<assembly, cbuf, sessions, lock, irq, tasklet, mem_list, page,
                 write_offset, copied, ghosts, fileVars, got>>

\* More to read: the next page.
ReadNext(r) ==
  /\ SizeLeft(r) # 0
  /\ Goes(r, "next", GoTo(reader[r], reader[r].next))
  /\ UNCHANGED <<portVars, fileVars, got>>

\* Everything was read, or the list is exhausted: return.
ReadDone(r) ==
  /\ SizeLeft(r) = 0
  /\ Goes(r, "next", Opened)
  /\ fin_reading' = 1
  /\ UNCHANGED <<portVars, nprocs, max_nprocs, read_offset, got>>
ReadListEnd(r) ==
  /\ reader[r].curr = NoPage
  /\ Goes(r, "copy", Opened)
  /\ UNCHANGED <<portVars, fileVars, got>>

-----------------------------------------------------------------------------
(* The driver.                                                             *)

\* The last stage of the tasklet wakes all that sleep.  (The mutant does not.)
WakeNobody == TaskletWake /\ UNCHANGED readerVars
WakeUp ==
  /\ TaskletWake
  /\ reader' = [r \in Readers |-> IF reader[r].pc = "asleep"
                                  THEN [reader[r] EXCEPT !.pc = "woken"]
                                  ELSE reader[r]]
  /\ UNCHANGED <<fileVars, got>>

LastEnd == IF ends = <<>> THEN 0 ELSE Last(ends)
Ends(pins) == toggle = 0 /\ top_full_byte + HalfByte(pins) = 0

\* Bound: a table index that is negative ends the behaviour; in C sizes[-1] is
\* write_offset.
InTable == SessionEnd >= 0

Mannered(pins) ==
  /\ "between" \in Manners => /\ tasklet.pc = "idle" /\ ~tasklet.sched
                              /\ \A r \in Readers : ~InCall(r)
  /\ "one_page" \in Manners => Ends(pins) \/ toggle = 1 \/ write_offset # 0 \/ mem_list = <<>>
  /\ "nonempty" \in Manners => ~Ends(pins) \/ Len(accepted) > LastEnd

Arrives == \E pins \in PinLevels :
             /\ Mannered(pins) /\ InTable
             /\ FirstHalf(pins) \/ \E at \in Arrivals : SecondHalf(pins, at)
             /\ UNCHANGED readerVars
Handler == IrqContinues /\ UNCHANGED readerVars
Copying == tasklet.pc # "wake" /\ TaskletStep /\ UNCHANGED readerVars

ReaderStep(r) ==
  \/ OpenTest(r) \/ OpenEnter(r) \/ CloseFile(r)
  \/ (\E n \in NprocLimits : SetNproc(r, n))
  \/ (\E n \in ReadSizes : ReadStart(r, n))
  \/ ReadOffset(r) \/ ReadWait(r) \/ Signal(r) \/ ReadSize(r) \/ ReadHead(r)
  \/ ReadLoad(r) \/ ReadDec(r) \/ ReadCopy(r) \/ ReadFault(r) \/ ReadFree(r)
  \/ ReadUncount(r) \/ ReadNext(r) \/ ReadDone(r) \/ ReadListEnd(r)

Next == Arrives \/ Handler \/ Copying \/ WakeUp \/ \E r \in Readers : ReaderStep(r)

Spec == Init /\ [][Next]_vars

\* The handler and the tasklet advance whenever they can; nobody has to open,
\* read or close, but a call that was begun goes on.
CallGoesOn(r) == InCall(r) /\ ReaderStep(r)
FairSpec == /\ Spec /\ WF_vars(Handler) /\ WF_vars(Copying \/ WakeUp)
            /\ \A r \in Readers : WF_vars(CallGoesOn(r))

-----------------------------------------------------------------------------
(* Properties.                                                             *)

\* Types; the positions in the table and the page stay inside, as many
\* processes are counted as have the device open, and a read never has more
\* than the session's size (asgn.c:60-61, 81-87, 282).
ReaderTypeOK ==
  /\ sessions.head \in 0..MAX_SESSIONS - 1 /\ sessions.count \in Int
  /\ read_offset \in 0..PAGE_SIZE - 1 /\ fin_reading \in {0, 1}
  /\ nprocs = Cardinality({r \in Readers : reader[r].pc \notin {"closed", "opening"}})
  /\ max_nprocs \in Nat
  /\ \A r \in Readers :
       /\ reader[r].begin_offset \in Nat /\ SizeLeft(r) \in Nat
       /\ {reader[r].curr, reader[r].next} \subseteq Frames \cup {NoPage}
       /\ reader[r].nth \in 0..Len(got)
  /\ got \in Seq(Seq(Byte \cup {Outside}))

\* A read walks only over pages of the list, although it sleeps in copy_to_user while
\* the tasklet adds pages and other processes come: each frees the page it has read, and
\* only the limit of one process keeps that from being a page another is reading
\* (asgn.c:61, 244, 318-340).  Once TEM_SET_NPROC has raised the limit the code does free it.
PagesHeld ==
  max_nprocs <= 1 =>
    \A r \in Readers :
      /\ reader[r].pc \in {"copy", "free"} => reader[r].curr \in ToSet(mem_list) \cup {NoPage}
      /\ reader[r].pc \in {"copy", "free", "uncount", "next"} =>
           reader[r].next \in ToSet(mem_list) \cup {NoPage}

\* The bytes of the k-th session, and whether the k-th read is under way.
Session(k) == SubSeq(accepted, IF k = 1 THEN 1 ELSE ends[k - 1] + 1, ends[k])
UnderWay(k) == \E r \in Readers : reader[r].nth = k

\* Until the session table is full, the k-th read returns the k-th session,
\* whole and nothing else (asgn.c:283, 297-318), also when the session ends where
\* its page ends and the next begins on a new page.
WholeSessions ==
  Len(ends) < MAX_SESSIONS =>
    \A k \in DOMAIN got : ~UnderWay(k) => k <= Len(ends) /\ got[k] = Session(k)

\* What count says of the sessions is true: as many as were ended and not
\* taken.  The handler raises it and readers lower it, without a lock they
\* share (asgn.c:185, 303).
SessionsCounted ==
  (\A r \in Readers : ~InCall(r)) => sessions.count = Len(ends) - Len(got)

\* How many pages were filled or begun, and freed.
Begun == (Len(copied) + PAGE_SIZE - 1) \div PAGE_SIZE
      + (IF tasklet.pc = "store" /\ write_offset = 0 THEN 1 ELSE 0)
Freed == Begun - Len(mem_list)

\* A page is freed only when every byte of it was read: "if read all from first
\* page, remove it" (asgn.c:333).
RemovedWhenRead == Freed * PAGE_SIZE <= Len(FlattenSeq(got))

\* Between the calls the two counters are true: "number of memory pages this module
\* currently holds" and "total data size in this module", which tasklet and reader
\* both change, the reader without the lock (asgn.c:58-59, 137, 148, 337-338).
PagesCounted ==
  (\A r \in Readers : ~InCall(r)) =>
    num_pages = Len(mem_list) /\ data_size = Len(copied) - Freed * PAGE_SIZE

\* A process never sleeps beside a finished session without somebody on the way
\* to wake it, whenever the NUL comes (asgn.c:292-294 with 185, 202, 154).
NoLostWakeup ==
  \A r \in Readers :
    reader[r].pc = "asleep" /\ sessions.count > 0 =>
      tasklet.sched \/ tasklet.pc # "idle" \/ irq.pc = "unlock"

\* A process that sleeps when a session ends comes back with bytes of a session
\* or finds that another took it (asgn.c:294, 359).
SleeperServed ==
  \A r \in Readers : reader[r].pc = "asleep" /\ sessions.count > 0
                       ~> reader[r].pc = "open" \/ sessions.count = 0
=============================================================================
