------------------------------ MODULE RamDisk ------------------------------
(***************************************************************************)
(* The virtual disk of asgn1: a list of pages that grows with writes, is   *)
(* freed by a write-only open, and can be mapped.  It has no lock.  On the *)
(* one CPU of the board, whose kernel does not preempt, calls interleave   *)
(* where one can sleep: when it allocates (GFP_KERNEL) and when it copies  *)
(* from or to a user page that is not present.  A step runs from one such  *)
(* point to the next.                                                      *)
(***************************************************************************)
EXTENDS Integers, Sequences, SequencesExt, FiniteSetsExt

CONSTANTS
  PAGE_SIZE,
  Frames,          \* the physical pages alloc_page can hand out
  NoPage,          \* what the walk along the list finds at its end
  Values,          \* the bytes written
  Junk,            \* what a page contains before anyone wrote to it
  Zero,            \* what copy_from_user leaves where it could not copy
  Procs,           \* the processes; each opens the disk once at a time
  Modes,           \* how they open it, of "r", "w", "rw"
  Payloads,        \* what they write, sequences of Values
  Counts,          \* how much they read
  Offsets,         \* where they seek
  Lengths,         \* how many pages they map
  MapOffsets,      \* from which page of the disk on
  NprocLimits,     \* the arguments they pass to TEM_SET_NPROC
  AllocMayFail,    \* can an allocation fail while there are pages
  CopyMayFail      \* can a user buffer turn out to be invalid

ASSUME SizeAssumption == PAGE_SIZE \in Nat \ {0}
ASSUME ProcAssumption == IsFiniteSet(Procs)
ASSUME FrameAssumption == NoPage \notin Frames /\ IsFiniteSet(Frames)
ASSUME InputAssumption ==
  /\ Modes \subseteq {"r", "w", "rw"} /\ Payloads \subseteq Seq(Values)
  /\ Counts \cup NprocLimits \cup MapOffsets \subseteq Nat
  /\ Offsets \subseteq Int /\ Lengths \subseteq Nat \ {0}
ASSUME FailureAssumption == {AllocMayFail, CopyMayFail} \subseteq BOOLEAN

VARIABLES
  mem_list,        \* the pages, in order
  page,            \* the content of every frame
  num_pages, data_size, nprocs, max_nprocs,
  proc,            \* each process: its open file, its mapping, its call
  file             \* ghost: what the completed calls have made of the disk

vars == <<mem_list, page, num_pages, data_size, nprocs, max_nprocs, proc, file>>

Unknown == "unknown"     \* ghost: a byte nobody wrote

\* data is what a write stores or what a read has found, limit how many bytes
\* the call is to move, done how many it has moved.
Closed == [pc |-> "closed", mode |-> "", f_pos |-> 0, vma |-> <<>>, vm_pgoff |-> 0,
           data |-> <<>>, count |-> 0, limit |-> 0, done |-> 0, begin_offset |-> 0,
           curr |-> NoPage, fault |-> FALSE]

\* The process in user mode, no call under way.
Idle(local) == [Closed EXCEPT !.pc = "open", !.mode = local.mode, !.vma = local.vma,
                              !.vm_pgoff = local.vm_pgoff, !.f_pos = local.f_pos]

Init == /\ mem_list = <<>> /\ num_pages = 0 /\ data_size = 0
        /\ page = [f \in Frames |-> [i \in 0..PAGE_SIZE - 1 |-> Junk]]
        /\ nprocs = 0 /\ max_nprocs = 1
        /\ proc = [p \in Procs |-> Closed] /\ file = <<>>

Goes(p, pc, next) == /\ proc[p].pc = pc
                     /\ proc' = [proc EXCEPT ![p] = next]

\* list_for_each_entry: the page with a number, and the page after one.
PageAt(list, no) == IF no < Len(list) THEN list[no + 1] ELSE NoPage
After(f) == PageAt(mem_list, CHOOSE i \in DOMAIN mem_list : mem_list[i] = f)

-----------------------------------------------------------------------------
(* open, release, ioctl, lseek.                                            *)

\* A write-only open empties the disk.  (A process that finds the limit reached
\* returns EBUSY.)
Open(p, mode) ==
  /\ nprocs < max_nprocs
  /\ Goes(p, "closed", [Closed EXCEPT !.pc = "open", !.mode = mode])
  /\ nprocs' = nprocs + 1
  /\ IF mode = "w" THEN /\ mem_list' = <<>> /\ num_pages' = 0 /\ data_size' = 0
                        /\ file' = <<>>
                   ELSE UNCHANGED <<mem_list, num_pages, data_size, file>>
  /\ UNCHANGED <<page, max_nprocs>>

\* A mapping keeps the file open: it is released after munmap.  (The mutant
\* forgets the process.)
CloseUncounted(p) ==
  /\ proc[p].vma = <<>>
  /\ Goes(p, "open", Closed)
  /\ UNCHANGED <<mem_list, page, num_pages, data_size, nprocs, max_nprocs, file>>
Close(p) ==
  /\ proc[p].vma = <<>>
  /\ Goes(p, "open", Closed)
  /\ nprocs' = nprocs - 1
  /\ UNCHANGED <<mem_list, page, num_pages, data_size, max_nprocs, file>>

SetNproc(p, n) ==
  /\ proc[p].pc = "open"
  /\ max_nprocs' = n
  /\ UNCHANGED <<mem_list, page, num_pages, data_size, nprocs, proc, file>>

\* The end, for SEEK_END and as the limit, is that of the last page.  size_t is
\* narrower than loff_t: the comparison is signed.  (The mutant has no limit.)
BufferSize == num_pages * PAGE_SIZE
SeekFar(p, base, offset) ==
  /\ Goes(p, "open", [Idle(proc[p]) EXCEPT !.f_pos = Max({0, base + offset})])
  /\ UNCHANGED <<mem_list, page, num_pages, data_size, nprocs, max_nprocs, file>>
Seek(p, base, offset) ==
  /\ Goes(p, "open", [Idle(proc[p]) EXCEPT
                        !.f_pos = Max({0, Min({BufferSize, base + offset})})])
  /\ UNCHANGED <<mem_list, page, num_pages, data_size, nprocs, max_nprocs, file>>
SeekAny(p) == \E base \in {0, proc[p].f_pos, BufferSize}, offset \in Offsets :
                Seek(p, base, offset)

-----------------------------------------------------------------------------
(* The walk along the list, common to read and write: from page to page    *)
(* until all is copied or the list ends.                                   *)

InPage(local) == Min({PAGE_SIZE - local.begin_offset, local.limit - local.done})

\* How many of the bytes for this page are copied: all, or fewer when the user
\* buffer is invalid from some point on.  The walk does not end there: on every
\* later page it copies again from that point of the buffer, and nothing comes.
CanCopy(local, n) == \/ n = InPage(local) /\ ~local.fault
                     \/ n = 0 /\ local.fault
                     \/ n < InPage(local) /\ CopyMayFail /\ ~local.fault

\* The first page of the call; the state of the call once n bytes are copied.
OnPage(local, list, pc) ==
  [local EXCEPT !.pc = pc, !.curr = PageAt(list, local.f_pos \div PAGE_SIZE),
                !.begin_offset = local.f_pos % PAGE_SIZE]
Copied(local, n) ==
  [local EXCEPT !.done = @ + n, !.fault = n < InPage(local), !.begin_offset = 0]

\* Bound: a call that has more to copy although its page was freed under it (a
\* write-only open) is not followed: its next link is poisoned.
Linked(local, n) == \/ local.curr \in ToSet(mem_list)
                    \/ local.done + n = local.limit

-----------------------------------------------------------------------------
(* read.                                                                   *)

ReadReturns(p, local) ==
  proc' = [proc EXCEPT ![p] = [Idle(local) EXCEPT
             !.f_pos = local.f_pos + local.done, !.data = local.data,
             !.count = local.count, !.fault = local.fault]]

Read(p, count) ==
  LET local == [Idle(proc[p]) EXCEPT
                  !.count = count,
                  !.limit = Min({count, Max({0, data_size - proc[p].f_pos})})]
      first == OnPage(local, mem_list, "reading")
  IN  /\ proc[p].pc = "open" /\ proc[p].mode \in {"r", "rw"}
      /\ IF proc[p].f_pos > data_size \/ first.curr = NoPage
         THEN ReadReturns(p, local)
         ELSE proc' = [proc EXCEPT ![p] = first]
      /\ UNCHANGED <<mem_list, page, num_pages, data_size, nprocs, max_nprocs, file>>

\* Copy from one page; go on to the next or return.  (The mutant goes on where
\* it began in the first.)
ReadCopySameOffset(p, n) ==
  LET local == proc[p]
      bytes == [i \in 1..n |-> page[local.curr][local.begin_offset + i - 1]]
      next  == [Copied(local, n) EXCEPT !.data = local.data \o bytes,
                                        !.begin_offset = local.begin_offset]
  IN  /\ local.pc = "reading" /\ CanCopy(local, n) /\ Linked(local, n)
      /\ IF next.done = next.limit \/ After(local.curr) = NoPage
         THEN ReadReturns(p, next)
         ELSE proc' = [proc EXCEPT ![p] = [next EXCEPT !.curr = After(local.curr)]]
      /\ UNCHANGED <<mem_list, page, num_pages, data_size, nprocs, max_nprocs, file>>
ReadCopy(p, n) ==
  LET local == proc[p]
      bytes == [i \in 1..n |-> page[local.curr][local.begin_offset + i - 1]]
      next  == [Copied(local, n) EXCEPT !.data = local.data \o bytes]
  IN  /\ local.pc = "reading" /\ CanCopy(local, n) /\ Linked(local, n)
      /\ IF next.done = next.limit \/ After(local.curr) = NoPage
         THEN ReadReturns(p, next)
         ELSE proc' = [proc EXCEPT ![p] = [next EXCEPT !.curr = After(local.curr)]]
      /\ UNCHANGED <<mem_list, page, num_pages, data_size, nprocs, max_nprocs, file>>

-----------------------------------------------------------------------------
(* write.                                                                  *)

\* A copy that is cut short clears what it could not copy, and so does each one
\* after it: as many bytes as are left of the call, on this page from the byte it
\* stopped at and on every later page, past the call's own range too.
Cleared(local, pos) ==
  LET stop == local.f_pos + local.done
      into == IF pos \div PAGE_SIZE = stop \div PAGE_SIZE THEN pos - stop
              ELSE pos % PAGE_SIZE
  IN  local.fault /\ pos >= stop /\ into < local.limit - local.done

\* What the disk contains after a write: the gap before it, if any, is whatever
\* the pages contain.
Written(local) ==
  [i \in 1..Max({Len(file), local.f_pos + local.done}) |->
     IF i > local.f_pos /\ i <= local.f_pos + local.done THEN local.data[i - local.f_pos]
     ELSE IF i <= Len(file) THEN IF Cleared(local, i - 1) THEN Zero ELSE file[i]
     ELSE Unknown]

\* (The mutant lets a write in the middle cut the disk off.)
WriteReturnsShort(p, local) ==
  /\ proc' = [proc EXCEPT ![p] = [Idle(local) EXCEPT !.f_pos = @ + local.done]]
  /\ data_size' = local.f_pos + local.done /\ file' = Written(local)
WriteReturns(p, local) ==
  /\ proc' = [proc EXCEPT ![p] = [Idle(local) EXCEPT !.f_pos = @ + local.done]]
  /\ data_size' = Max({data_size, local.f_pos + local.done}) /\ file' = Written(local)

\* With the pages of `list`, go on to allocate another or to copy.
Prepared(p, local, list, pages) ==
  LET first == OnPage(local, list, "writing") IN
  IF pages * PAGE_SIZE < local.f_pos + local.limit
  THEN /\ proc' = [proc EXCEPT ![p] = [local EXCEPT !.pc = "alloc"]]
       /\ UNCHANGED <<data_size, file>>
  ELSE IF first.curr = NoPage THEN WriteReturns(p, local)
  ELSE /\ proc' = [proc EXCEPT ![p] = first]
       /\ UNCHANGED <<data_size, file>>

Write(p, data) ==
  LET local == [Idle(proc[p]) EXCEPT !.data = data, !.limit = Len(data)]
  IN  /\ proc[p].pc = "open" /\ proc[p].mode \in {"w", "rw"}
      /\ Prepared(p, local, mem_list, num_pages)
      /\ UNCHANGED <<mem_list, page, num_pages, nprocs, max_nprocs>>

Available == Frames \ ToSet(mem_list)

\* kmalloc and alloc_page succeed; the page keeps whatever it contained.  (The
\* mutant adds it to the front: list_add for list_add_tail.)
AllocFront(p, f) ==
  /\ proc[p].pc = "alloc" /\ f \in Available
  /\ mem_list' = <<f>> \o mem_list /\ num_pages' = num_pages + 1
  /\ Prepared(p, proc[p], mem_list', num_pages')
  /\ UNCHANGED <<page, nprocs, max_nprocs>>
Alloc(p, f) ==
  /\ proc[p].pc = "alloc" /\ f \in Available
  /\ mem_list' = Append(mem_list, f) /\ num_pages' = num_pages + 1
  /\ Prepared(p, proc[p], mem_list', num_pages')
  /\ UNCHANGED <<page, nprocs, max_nprocs>>

\* One fails: return 0; the pages added before stay.
AllocFail(p) ==
  /\ AllocMayFail \/ Available = {}
  /\ Goes(p, "alloc", Idle(proc[p]))
  /\ UNCHANGED <<mem_list, page, num_pages, data_size, nprocs, max_nprocs, file>>

\* copy_from_user clears the rest of the range when it cannot copy it all.
WriteCopy(p, n) ==
  LET local == proc[p]
      next  == Copied(local, n)
  IN  /\ local.pc = "writing" /\ CanCopy(local, n) /\ Linked(local, n)
      /\ page' = [page EXCEPT ![local.curr] = [i \in 0..PAGE_SIZE - 1 |->
                    IF i \in local.begin_offset..local.begin_offset + n - 1
                    THEN local.data[local.done + i - local.begin_offset + 1]
                    ELSE IF i \in local.begin_offset + n..local.begin_offset + InPage(local) - 1
                    THEN Zero ELSE @[i]]]
      /\ IF next.done = next.limit \/ After(local.curr) = NoPage
         THEN WriteReturns(p, next)
         ELSE /\ proc' = [proc EXCEPT ![p] = [next EXCEPT !.curr = After(local.curr)]]
              /\ UNCHANGED <<data_size, file>>
      /\ UNCHANGED <<mem_list, num_pages, nprocs, max_nprocs>>

-----------------------------------------------------------------------------
(* mmap.                                                                   *)

\* The offset in bytes is compared with a number of pages; page i of the list
\* goes to page i of the mapping, whatever the offset.
Mmap(p, len, pgoff) ==
  LET offset == pgoff * PAGE_SIZE
  IN  /\ proc[p].mode # "w" /\ proc[p].vma = <<>>
      /\ len * PAGE_SIZE <= BufferSize /\ offset <= num_pages
      /\ Goes(p, "open", [Idle(proc[p]) EXCEPT
           !.vma = [i \in 1..len |->
                      IF i - 1 >= offset THEN PageAt(mem_list, i - 1) ELSE NoPage],
           !.vm_pgoff = pgoff])
      /\ UNCHANGED <<mem_list, page, num_pages, data_size, nprocs, max_nprocs, file>>

Unmap(p) ==
  /\ proc[p].vma # <<>>
  /\ Goes(p, "open", [Idle(proc[p]) EXCEPT !.vma = <<>>, !.vm_pgoff = 0])
  /\ UNCHANGED <<mem_list, page, num_pages, data_size, nprocs, max_nprocs, file>>

\* The process stores through its mapping.
Store(p, i, at, v) ==
  LET pos == (proc[p].vm_pgoff + i - 1) * PAGE_SIZE + at + 1
  IN  /\ proc[p].mode = "rw" /\ proc[p].vma[i] # NoPage
      /\ Goes(p, "open", Idle(proc[p]))
      /\ page' = [page EXCEPT ![proc[p].vma[i]][at] = v]
      /\ file' = IF pos <= Len(file) THEN [file EXCEPT ![pos] = v] ELSE file
      /\ UNCHANGED <<mem_list, num_pages, data_size, nprocs, max_nprocs>>

-----------------------------------------------------------------------------

Call(p) ==
  \/ (\E mode \in Modes : Open(p, mode)) \/ Close(p)
  \/ (\E n \in NprocLimits : SetNproc(p, n)) \/ SeekAny(p)
  \/ (\E n \in Counts : Read(p, n)) \/ (\E data \in Payloads : Write(p, data))
  \/ (\E len \in Lengths, pgoff \in MapOffsets : Mmap(p, len, pgoff)) \/ Unmap(p)
  \/ \E i \in DOMAIN proc[p].vma, at \in 0..PAGE_SIZE - 1, v \in Values :
       Store(p, i, at, v)
Continue(p) ==
  \/ (\E f \in Frames : Alloc(p, f)) \/ AllocFail(p)
  \/ \E n \in 0..PAGE_SIZE : ReadCopy(p, n) \/ WriteCopy(p, n)

Next == \E p \in Procs : Call(p) \/ Continue(p)

Spec == Init /\ [][Next]_vars

-----------------------------------------------------------------------------
(* Properties.                                                             *)

\* Types; a call moves no more bytes than it was asked and stays inside its
\* page, and nprocs counts the open files (asgn1.c:113, 135, 172, 280).
TypeOK ==
  /\ mem_list \in Seq(Frames) /\ num_pages \in Nat /\ data_size \in Nat
  /\ page \in [Frames -> [0..PAGE_SIZE - 1 -> Values \cup {Junk, Zero}]]
  /\ nprocs = Cardinality({p \in Procs : proc[p].pc # "closed"})
  /\ max_nprocs \in Nat /\ file \in Seq(Values \cup {Unknown, Zero})
  /\ \A p \in Procs :
       /\ proc[p].f_pos \in Nat /\ proc[p].done \in 0..proc[p].limit
       /\ proc[p].begin_offset \in 0..PAGE_SIZE - 1
       /\ proc[p].pc \in {"reading", "writing"} => proc[p].curr \in Frames

\* The pages are counted right and hold the data, and no position is past
\* them, although calls change the three one after the other and sleep in
\* between (asgn1.c:53-54, 224, 258-274, 302-306).
DiskFits == /\ num_pages = Len(mem_list) /\ data_size <= BufferSize
            /\ \A p \in Procs : proc[p].f_pos <= BufferSize

\* Every byte of the disk is what was written there last, by write or through a
\* mapping; it has as many as were ever reached since it was emptied; a write
\* whose buffer turns out invalid keeps what it stored and clears the bytes that
\* Cleared names, and no others (asgn1.c:242-311).
FileKept ==
  (\A p \in Procs : proc[p].pc # "writing") =>
    /\ data_size = Len(file)
    /\ \A i \in DOMAIN file :
         file[i] # Unknown =>
           page[PageAt(mem_list, (i - 1) \div PAGE_SIZE)][(i - 1) % PAGE_SIZE] = file[i]

\* A read returned the bytes of the disk at its position, as many as there were
\* and it asked for (asgn1.c:146-201; asgn1/test.sh:4 compares a file with its
\* copy).
ReadsBack ==
  \A p \in Procs : proc[p].pc = "open" =>
    LET begin == proc[p].f_pos - Len(proc[p].data)
    IN  /\ \/ proc[p].fault
           \/ Len(proc[p].data) = Min({proc[p].count, Max({0, Len(file) - begin})})
        /\ \A i \in DOMAIN proc[p].data :
             file[begin + i] \in {Unknown, proc[p].data[i]}

\* A mapping shows the pages of the disk, not pages it no longer has
\* (asgn1.c:387-392; asgn1/mmap_test.c:147).
MapShowsDisk ==
  \A p \in Procs : \A i \in DOMAIN proc[p].vma :
    proc[p].vma[i] # NoPage =>
      PageAt(mem_list, proc[p].vm_pgoff + i - 1) = proc[p].vma[i]
=============================================================================
