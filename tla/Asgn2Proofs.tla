---------------------------- MODULE Asgn2Proofs ----------------------------
(***************************************************************************)
(* Proofs about the readers, for any number of them, every size of the     *)
(* buffer, the session table and a page, with signals, failing copies and  *)
(* a limit that changes.                                                   *)
(*                                                                         *)
(* The types hold on every kernel.  On one CPU no wake-up is lost when     *)
(* allocation succeeds: a tasklet that returns early (asgn.c:134, 142)     *)
(* wakes nobody.  While the limit is one process, a read walks only over   *)
(* pages of the list.  On one CPU, when bytes come between the calls, the  *)
(* count of sessions is true, and when one process at a time has the       *)
(* device so are the counters of pages and data.  When, besides, sessions  *)
(* are not empty and keep to one page, readers wait for a whole session,   *)
(* and nothing fails, a read returns the next session, whole, and a page   *)
(* is given back only when every byte of it was read.                      *)
(***************************************************************************)
EXTENDS Asgn2, Asgn2PortProofs, FiniteSetTheorems, SequenceTheorems

-----------------------------------------------------------------------------
(* Type correctness, on every kernel.  The types of Asgn2Port are too      *)
(* narrow here: a read that no session woke takes one all the same, so     *)
(* count and the numbers readers keep without a lock may fall below zero.  *)

BufferTypes == cbuf \in [head : 0..BUFFER_CAPACITY - 1, count : Int,
                         buffer : [0..BUFFER_CAPACITY - 1 -> Byte]]
TrackerTypes == sessions \in [head : 0..MAX_SESSIONS - 1, count : Int,
                              sizes : [0..MAX_SESSIONS - 1 -> Nat]]
HandlerTypes == irq \in [pc : IrqPc, at : {Nested, Remote}, cbuf_end : Int,
                         session_end : Int, count : Int]
WorkerTypes == tasklet \in [pc : TaskletPc, sched : BOOLEAN, byte : Byte,
                            begin_offset : 0..PAGE_SIZE - 1, curr : Frames \cup {NoPage},
                            count : Int]
PagesTypes == /\ mem_list \in Seq(Frames) /\ {num_pages, data_size} \subseteq Int
              /\ page \in [Frames -> [0..PAGE_SIZE - 1 -> Byte]]
              /\ write_offset \in 0..PAGE_SIZE - 1
PortTypes == /\ AssemblyType /\ BufferTypes /\ TrackerTypes /\ HandlerTypes
             /\ WorkerTypes /\ PagesTypes /\ GhostType

\* A read's locals.
ReaderPc == {"closed", "opening", "open", "offset", "wait", "asleep", "woken",
             "size", "head", "load", "dec", "copy", "free", "uncount", "next"}
Copies == {"copy", "free", "uncount", "next"}
Pointer == Frames \cup {NoPage}
Local == [pc : ReaderPc, want : Nat, total : Nat, count : Int, nth : Nat,
          size_read : Nat, begin_offset : Nat, curr : Pointer, next : Pointer,
          num_pages : Int, data_size : Int]

\* A read never has more than its session, and does not begin past the end of
\* a page unless it has it all.  Before it copies it has nothing.
Measured(local) ==
  /\ local.size_read <= local.total
  /\ local.begin_offset <= PAGE_SIZE \/ local.size_read = local.total
  /\ local.pc \notin Copies => local.size_read = 0 /\ local.begin_offset = 0

Fits(local, reads) == /\ local \in Local /\ Measured(local)
                      /\ local.nth <= Len(reads)

ReadBytes == Seq(Byte \cup {Outside})
Counted(local) == local.pc \notin {"closed", "opening"}
Users == {r \in Readers : Counted(reader[r])}

SharedTypes == /\ max_nprocs \in Nat /\ fin_reading \in {0, 1}
               /\ read_offset \in 0..PAGE_SIZE - 1
ReadTypes == /\ DOMAIN reader = Readers /\ got \in Seq(ReadBytes)
             /\ \A r \in Readers : Fits(reader[r], got)

DriverTypes == PortTypes /\ SharedTypes /\ ReadTypes /\ nprocs = Cardinality(Users)

\* An update at an index outside the array changes nothing.
LEMMA UpdateTyped ==
  ASSUME NEW S, NEW T, NEW f \in [S -> T], NEW x, NEW v, x \in S => v \in T
  PROVE  [f EXCEPT ![x] = v] \in [S -> T]
  OBVIOUS

-----------------------------------------------------------------------------

LEMMA TypesInit == Init => DriverTypes
<1> SUFFICES ASSUME Init PROVE DriverTypes
  OBVIOUS
<1> USE SizeAssumption DEF Init, PortInit
<1>1. BufferTypes /\ TrackerTypes
  BY DEF BufferTypes, TrackerTypes, Byte
<1>2. HandlerTypes /\ WorkerTypes
  BY DEF HandlerTypes, WorkerTypes, IdleIrq, IdleTasklet, IrqPc, TaskletPc, Byte, Nested
<1>3. PagesTypes /\ GhostType /\ AssemblyType
  BY DEF PagesTypes, GhostType, AssemblyType, Byte
<1>4. SharedTypes
  BY DEF SharedTypes
<1>5. ReadTypes
  <2>1. Closed \in Local /\ Measured(Closed) /\ Closed.nth = 0
    BY DEF Closed, Local, Measured, ReaderPc, Copies, Pointer
  <2>2. got \in Seq(ReadBytes) /\ Len(got) = 0
    OBVIOUS
  <2> QED BY <2>1, <2>2 DEF ReadTypes, Fits
<1>6. nprocs = Cardinality(Users)
  <2>1. Users = {}
    BY DEF Users, Counted, Closed
  <2> QED BY <2>1, FS_EmptySet
<1> QED BY <1>1, <1>2, <1>3, <1>4, <1>5, <1>6 DEF DriverTypes, PortTypes

-----------------------------------------------------------------------------
(* The port's steps.                                                       *)

LEMMA TypesArrive ==
  ASSUME PortTypes, Arrives
  PROVE  PortTypes'
<1> USE DEF PortTypes, assembly, store, ghosts
<1>1. PICK pins \in PinLevels : FirstHalf(pins) \/ \E at \in Arrivals : SecondHalf(pins, at)
  BY DEF Arrives
<1>2. HalfByte(pins) \in 0..15
  BY HalfByteRange
<1>3. CASE FirstHalf(pins)
  <2>1. AssemblyType'
    BY <1>2, <1>3 DEF FirstHalf, AssemblyType, Byte
  <2> QED BY <1>3, <2>1 DEF FirstHalf, BufferTypes, TrackerTypes, HandlerTypes,
                            WorkerTypes, PagesTypes, GhostType
<1>4. ASSUME NEW at \in Arrivals, SecondHalf(pins, at)
      PROVE  PortTypes'
  <2>1. AssemblyType'
    BY <1>2, <1>4 DEF SecondHalf, AssemblyType, Byte
  <2>2. HandlerTypes'
    <3>1. CbufEnd \in Int
      BY SizeAssumption DEF CbufEnd, BufferTypes
    <3>2. SessionEnd \in Int
      <4>1. sessions.head + sessions.count \in Int
        BY SizeAssumption DEF TrackerTypes
      <4> QED BY <4>1, SizeAssumption DEF SessionEnd, CMod
    <3>3. at \in {Nested, Remote}
      BY BuildAssumption
    <3> QED BY <1>4, <3>1, <3>2, <3>3 DEF SecondHalf, HandlerTypes, IrqPc
  <2> QED BY <1>4, <2>1, <2>2 DEF SecondHalf, BufferTypes, TrackerTypes,
                                  WorkerTypes, PagesTypes, GhostType
<1> QED BY <1>1, <1>3, <1>4

LEMMA TypesHandler ==
  ASSUME PortTypes, Handler
  PROVE  PortTypes'
<1> USE DEF PortTypes, assembly, store, ghosts
<1>1. CASE IrqLock \/ IrqNul \/ IrqDrop
  <2>1. HandlerTypes'
    <3>1. CASE IrqLock
      BY <3>1 DEF IrqLock, HandlerTypes, IrqPc
    <3>2. CASE IrqNul
      BY <3>2 DEF IrqNul, HandlerTypes, TrackerTypes, IrqPc
    <3>3. CASE IrqDrop
      BY <3>3 DEF IrqDrop, HandlerTypes, IdleIrq, IrqPc, Nested
    <3> QED BY <1>1, <3>1, <3>2, <3>3
  <2> QED BY <1>1, <2>1 DEF IrqLock, IrqNul, IrqDrop, AssemblyType, BufferTypes,
                            TrackerTypes, WorkerTypes, PagesTypes, GhostType
<1>2. CASE IrqCount
  <2>1. HandlerTypes'
    BY <1>2 DEF IrqCount, HandlerTypes, IrqPc
  <2>3. TrackerTypes'
    <3>1. irq.count + 1 \in Int
      BY DEF HandlerTypes
    <3> QED BY <1>2, <3>1 DEF IrqCount, TrackerTypes
  <2>2. GhostType'
    <3>1. Len(accepted) \in Nat
      BY DEF GhostType
    <3> QED BY <1>2, <3>1 DEF IrqCount, GhostType
  <2> QED BY <1>2, <2>1, <2>2, <2>3 DEF IrqCount, AssemblyType, BufferTypes, WorkerTypes,
                                  PagesTypes
<1>3. CASE IrqStore
  <2>1. HandlerTypes'
    BY <1>3 DEF IrqStore, HandlerTypes, IrqPc
  <2>2. BufferTypes'
    <3>1. [cbuf.buffer EXCEPT ![irq.cbuf_end] = top_full_byte]
            \in [0..BUFFER_CAPACITY - 1 -> Byte]
      <4>1. /\ cbuf.buffer \in [0..BUFFER_CAPACITY - 1 -> Byte]
            /\ top_full_byte \in Byte
        BY DEF BufferTypes, AssemblyType
      <4> QED BY <4>1, UpdateTyped
    <3>2. cbuf.count + 1 \in Int
      BY DEF BufferTypes
    <3> QED BY <1>3, <3>1, <3>2 DEF IrqStore, BufferTypes
  <2>3. TrackerTypes'
    <3>1. [sessions.sizes EXCEPT ![irq.session_end] = sessions.sizes[irq.session_end] + 1]
            \in [0..MAX_SESSIONS - 1 -> Nat]
      <4>1. sessions.sizes \in [0..MAX_SESSIONS - 1 -> Nat]
        BY DEF TrackerTypes
      <4>2. irq.session_end \in 0..MAX_SESSIONS - 1
              => sessions.sizes[irq.session_end] + 1 \in Nat
        <5>1. ASSUME NEW sizes \in [0..MAX_SESSIONS - 1 -> Nat],
                     NEW i \in 0..MAX_SESSIONS - 1
              PROVE  sizes[i] + 1 \in Nat
          OBVIOUS
        <5> QED BY <4>1, <5>1
      <4> QED BY <4>1, <4>2, UpdateTyped, ZenonT(30)
    <3> QED BY <1>3, <3>1 DEF IrqStore, TrackerTypes
  <2>4. GhostType'
    BY <1>3 DEF IrqStore, GhostType, AssemblyType
  <2> QED BY <1>3, <2>1, <2>2, <2>3, <2>4 DEF IrqStore, AssemblyType, WorkerTypes, PagesTypes
<1>4. CASE IrqUnlock
  <2>1. HandlerTypes'
    BY <1>4 DEF IrqUnlock, HandlerTypes, IdleIrq, IrqPc, Nested
  <2>2. WorkerTypes'
    BY <1>4 DEF IrqUnlock, WorkerTypes
  <2> QED BY <1>4, <2>1, <2>2 DEF IrqUnlock, AssemblyType, BufferTypes, TrackerTypes,
                            PagesTypes, GhostType
<1> QED BY <1>1, <1>2, <1>3, <1>4 DEF Handler, IrqContinues

LEMMA TypesTasklet ==
  ASSUME PortTypes, TaskletStep
  PROVE  PortTypes'
<1> USE DEF PortTypes, assembly, store, ghosts
<1>1. CASE \/ TaskletStart \/ TaskletLock \/ TaskletTest \/ TaskletUnlock
           \/ TaskletAllocFail \/ TaskletWake
  <2>1. WorkerTypes'
    <3>1. cbuf.count \in Int
      BY DEF BufferTypes
    <3>2. CASE TaskletStart \/ TaskletLock \/ TaskletTest \/ TaskletUnlock
      BY <3>1, <3>2 DEF TaskletStart, TaskletLock, TaskletTest, TaskletUnlock,
                        WorkerTypes, TaskletPc
    <3>3. CASE TaskletAllocFail \/ TaskletWake
      BY <3>3, SizeAssumption
         DEF TaskletAllocFail, TaskletWake, WorkerTypes, TaskletPc, IdleTasklet, Byte
    <3> QED BY <1>1, <3>2, <3>3
  <2> QED BY <1>1, <2>1 DEF TaskletStart, TaskletLock, TaskletTest, TaskletUnlock,
        TaskletAllocFail, TaskletWake, AssemblyType, BufferTypes, TrackerTypes,
        HandlerTypes, PagesTypes, GhostType
<1>2. CASE TaskletTake
  <2>1. /\ cbuf.buffer[cbuf.head] \in Byte
        /\ (cbuf.head + 1) % BUFFER_CAPACITY \in 0..BUFFER_CAPACITY - 1
    <3>1. cbuf.buffer[cbuf.head] \in Byte
      BY SizeAssumption DEF BufferTypes
    <3>2. cbuf.head + 1 \in Int
      BY SizeAssumption DEF BufferTypes
    <3> QED BY <3>1, <3>2, SizeAssumption, ModInRange
  <2>2. BufferTypes'
    BY <1>2, <2>1 DEF TaskletTake, BufferTypes
  <2>3. WorkerTypes'
    BY <1>2, <2>1 DEF TaskletTake, WorkerTypes, TaskletPc
  <2>4. GhostType'
    BY <1>2, <2>1 DEF TaskletTake, GhostType
  <2> QED BY <1>2, <2>2, <2>3, <2>4 DEF TaskletTake, AssemblyType, TrackerTypes,
                                        HandlerTypes, PagesTypes
<1>3. CASE TaskletDec
  <2>1. BufferTypes'
    <3>1. PICK loaded \in {tasklet.count, cbuf.count} :
            cbuf' = [cbuf EXCEPT !.count = loaded - 1]
      BY <1>3 DEF TaskletDec
    <3>2. loaded \in Int
      BY <3>1 DEF WorkerTypes, BufferTypes
    <3> QED BY <3>1, <3>2 DEF BufferTypes
  <2>2. WorkerTypes'
    <3>1. mem_list # <<>> => Head(mem_list) \in Frames
      BY DEF PagesTypes
    <3>2. write_offset \in 0..PAGE_SIZE - 1
      BY DEF PagesTypes
    <3> DEFINE pc == IF write_offset = 0 THEN "alloc" ELSE "store"
               curr == IF write_offset = 0 \/ mem_list = <<>> THEN NoPage
                                                             ELSE Head(mem_list)
               none == 0
    <3>3. pc \in TaskletPc /\ curr \in Frames \cup {NoPage} /\ none \in Int
      BY <3>1 DEF TaskletPc
    <3>4. tasklet' = [tasklet EXCEPT !.pc = pc, !.begin_offset = write_offset,
                                     !.curr = curr, !.count = none]
      BY <1>3 DEF TaskletDec
    <3> HIDE DEF pc, curr, none
    <3> QED BY <3>2, <3>3, <3>4 DEF WorkerTypes
  <2> QED BY <1>3, <2>1, <2>2 DEF TaskletDec, AssemblyType, TrackerTypes, HandlerTypes,
                                  PagesTypes, GhostType
<1>4. ASSUME NEW f \in Frames, TaskletAlloc(f)
      PROVE  PortTypes'
  <2>1. WorkerTypes'
    BY <1>4 DEF TaskletAlloc, WorkerTypes, TaskletPc
  <2>2. PagesTypes'
    BY <1>4 DEF TaskletAlloc, PagesTypes
  <2> QED BY <1>4, <2>1, <2>2 DEF TaskletAlloc, AssemblyType, BufferTypes, TrackerTypes,
                                  HandlerTypes, GhostType
<1>5. CASE TaskletStore
  <2>1. WorkerTypes'
    BY <1>5, SizeAssumption DEF TaskletStore, WorkerTypes, TaskletPc, IdleTasklet, Byte
  <2>2. tasklet.byte \in Byte
    BY DEF WorkerTypes
  <2>3. PagesTypes'
    <3> DEFINE curr == tasklet.curr
               at == tasklet.begin_offset
               one == [page[curr] EXCEPT ![at] = tasklet.byte]
    <3>1. curr \in Frames
      BY <1>5 DEF TaskletStore, WorkerTypes
    <3>2. page[curr] \in [0..PAGE_SIZE - 1 -> Byte]
      BY <3>1 DEF PagesTypes
    <3>3. one \in [0..PAGE_SIZE - 1 -> Byte]
      BY <2>2, <3>2, UpdateTyped
    <3>4. page' = [page EXCEPT ![curr] = one]
      BY <1>5 DEF TaskletStore
    <3>5. page' \in [Frames -> [0..PAGE_SIZE - 1 -> Byte]]
      <4> HIDE DEF one
      <4> QED BY <3>3, <3>4 DEF PagesTypes
    <3>6. write_offset' \in 0..PAGE_SIZE - 1
      <4>1. write_offset + 1 \in Int
        BY DEF PagesTypes
      <4> QED BY <1>5, <4>1, SizeAssumption, ModInRange DEF TaskletStore
    <3>7. mem_list' \in Seq(Frames) /\ {num_pages', data_size'} \subseteq Int
      BY <1>5 DEF TaskletStore, PagesTypes
    <3> QED BY <3>5, <3>6, <3>7 DEF PagesTypes
  <2>4. GhostType'
    BY <1>5, <2>2 DEF TaskletStore, GhostType
  <2> QED BY <1>5, <2>1, <2>3, <2>4 DEF TaskletStore, AssemblyType, BufferTypes,
                                        TrackerTypes, HandlerTypes
<1> QED BY <1>1, <1>2, <1>3, <1>4, <1>5 DEF TaskletStep

-----------------------------------------------------------------------------
(* The readers' steps.                                                     *)

LEMMA LeastOne ==
  ASSUME NEW S, \E x \in S : \A y \in S : x <= y
  PROVE  Min(S) \in S /\ \A y \in S : Min(S) <= y
  BY DEF Min

\* A part of a session that fits a page is read, or what is left of the page.
LEMMA SizeRead ==
  ASSUME ReadTypes, NEW r \in Readers
  PROVE  /\ SizeToRead(r) \in Nat /\ SizeToRead(r) <= SizeLeft(r)
         /\ \/ SizeToRead(r) = SizeLeft(r)
            \/ reader[r].begin_offset + SizeToRead(r) <= PAGE_SIZE
<1>1. /\ reader[r].total \in Nat /\ reader[r].size_read \in Nat
      /\ reader[r].begin_offset \in Nat /\ reader[r].want \in Nat
      /\ reader[r].size_read <= reader[r].total
      /\ reader[r].begin_offset <= PAGE_SIZE \/ reader[r].size_read = reader[r].total
  BY DEF ReadTypes, Fits, Measured, Local
<1>2. SizeLeft(r) \in Nat
  BY <1>1 DEF SizeLeft
<1>3. CASE SizeLeft(r) < PAGE_SIZE
  BY <1>2, <1>3 DEF SizeToRead
<1>4. CASE ~(SizeLeft(r) < PAGE_SIZE)
  <2> DEFINE room == PAGE_SIZE - reader[r].begin_offset
             sizes == {room, reader[r].want, reader[r].total}
             least == Min(sizes)
  <2>1. room \in Nat /\ room <= PAGE_SIZE
    BY <1>1, <1>4, SizeAssumption DEF SizeLeft
  <2>2. least \in Nat /\ least <= room
    <3> HIDE DEF room
    <3>1. \E x \in sizes : \A y \in sizes : x <= y
      BY <1>1, <2>1
    <3>2. sizes \subseteq Nat /\ room \in sizes
      BY <1>1, <2>1
    <3> HIDE DEF sizes
    <3> QED BY <3>1, <3>2, LeastOne
  <2>3. SizeToRead(r) = least
    BY <1>4 DEF SizeToRead
  <2>4. reader[r].begin_offset + room <= PAGE_SIZE
    BY <1>1, SizeAssumption
  <2> HIDE DEF least, room
  <2>5. least <= SizeLeft(r)
    BY <1>2, <1>4, <2>1, <2>2, SizeAssumption
  <2>6. reader[r].begin_offset + least <= PAGE_SIZE
    BY <1>1, <2>1, <2>2, <2>4, SizeAssumption
  <2> QED BY <2>2, <2>3, <2>5, <2>6
<1> QED BY <1>3, <1>4

LEMMA BytesRead ==
  ASSUME PagesTypes, ReadTypes, NEW r \in Readers, reader[r].curr # NoPage
  PROVE  PageBytes(r) \in ReadBytes
<1>1. SizeToRead(r) \in Nat
  BY SizeRead
<1>2. /\ reader[r].curr \in Frames /\ reader[r].begin_offset \in Nat
  BY DEF ReadTypes, Fits, Local, Pointer
<1>3. page[reader[r].curr] \in [0..PAGE_SIZE - 1 -> Byte]
  BY <1>2 DEF PagesTypes
<1> DEFINE Found(k) == LET at == reader[r].begin_offset + k - 1
                       IN  IF at < PAGE_SIZE THEN page[reader[r].curr][at] ELSE Outside
<1>4. ASSUME NEW k \in 1..SizeToRead(r)
      PROVE  Found(k) \in Byte \cup {Outside}
  <2>1. reader[r].begin_offset + k - 1 \in Nat
    BY <1>1, <1>2
  <2>2. CASE reader[r].begin_offset + k - 1 < PAGE_SIZE
    BY <1>3, <2>1, <2>2, SizeAssumption
  <2>3. CASE ~(reader[r].begin_offset + k - 1 < PAGE_SIZE)
    BY <2>3
  <2> QED BY <2>2, <2>3
<1>5. PageBytes(r) = [k \in 1..SizeToRead(r) |-> Found(k)]
  BY DEF PageBytes
<1> HIDE DEF Found
<1> QED BY <1>1, <1>4, <1>5 DEF ReadBytes

\* A step of reader r: what it must show of its own locals.
LEMMA TurnTyped ==
  ASSUME ReadTypes, NEW r \in Readers, NEW pc, NEW next, Goes(r, pc, next),
         got' \in Seq(ReadBytes), Len(got) <= Len(got'), Fits(next, got')
  PROVE  ReadTypes'
<1>1. /\ DOMAIN reader' = Readers /\ reader'[r] = next
      /\ \A s \in Readers \ {r} : reader'[s] = reader[s]
  BY DEF Goes, ReadTypes
<1>2. ASSUME NEW s \in Readers
      PROVE  Fits(reader'[s], got')
  <2>1. CASE s = r
    BY <1>1, <2>1
  <2>2. CASE s # r
    <3>1. reader'[s] = reader[s] /\ Fits(reader[s], got)
      BY <1>1, <2>2 DEF ReadTypes
    <3>2. Len(got) \in Nat /\ Len(got') \in Nat
      BY DEF ReadTypes
    <3>3. reader[s].nth \in Nat
      BY <3>1 DEF Fits, Local
    <3> QED BY <3>1, <3>2, <3>3 DEF Fits
  <2> QED BY <2>1, <2>2
<1> QED BY <1>1, <1>2 DEF ReadTypes

LEMMA TurnCounted ==
  ASSUME ReadTypes, NEW r \in Readers, NEW pc, NEW next, Goes(r, pc, next)
  PROVE  Users' = IF Counted(next) THEN Users \cup {r} ELSE Users \ {r}
  BY DEF Goes, ReadTypes, Users

LEMMA UsersFinite == IsFiniteSet(Users)
  BY ReaderAssumption, FS_Subset DEF Users

\* The same number of users, nothing changed of what readers share but
\* read_offset and fin_reading.
LEMMA TurnKeeps ==
  ASSUME DriverTypes, NEW r \in Readers, NEW pc, NEW next, Goes(r, pc, next),
         got' \in Seq(ReadBytes), Len(got) <= Len(got'), Fits(next, got'),
         PortTypes', SharedTypes', nprocs' = nprocs,
         Counted(next) <=> Counted(reader[r])
  PROVE  DriverTypes'
<1>1. ReadTypes'
  BY TurnTyped DEF DriverTypes
<1>2. Users' = IF Counted(next) THEN Users \cup {r} ELSE Users \ {r}
  BY TurnCounted DEF DriverTypes
<1>3. Users' = Users
  BY <1>2 DEF Users
<1> QED BY <1>1, <1>3 DEF DriverTypes

\* Bytes of a page, or a page counted off: the port's types stay.
LEMMA PortTypesKept ==
  ASSUME PortTypes, UNCHANGED portVars
  PROVE  PortTypes'
  BY DEF PortTypes, portVars, assembly, ghosts, store, AssemblyType, BufferTypes,
         TrackerTypes, HandlerTypes, WorkerTypes, PagesTypes, GhostType

LEMMA FreshLocals ==
  /\ Closed \in Local /\ Measured(Closed) /\ Closed.nth = 0 /\ ~Counted(Closed)
  /\ Opened \in Local /\ Measured(Opened) /\ Opened.nth = 0 /\ Counted(Opened)
  /\ Opened.size_read = 0 /\ Opened.total = 0 /\ Opened.begin_offset = 0
  BY SizeAssumption DEF Closed, Opened, Local, Measured, ReaderPc, Copies, Pointer, Counted

LEMMA TypesOpen ==
  ASSUME DriverTypes, NEW r \in Readers,
         OpenTest(r) \/ OpenEnter(r) \/ CloseFile(r) \/ \E n \in NprocLimits : SetNproc(r, n)
  PROVE  DriverTypes'
<1>1. /\ Closed \in Local /\ Measured(Closed) /\ Closed.nth = 0 /\ ~Counted(Closed)
      /\ Opened \in Local /\ Measured(Opened) /\ Opened.nth = 0 /\ Counted(Opened)
  BY FreshLocals
<1>2. got \in Seq(ReadBytes) /\ Len(got) \in Nat
  BY DEF DriverTypes, ReadTypes
<1>3. Fits(Closed, got) /\ Fits(Opened, got)
  BY <1>1, <1>2 DEF Fits
<1>4. UNCHANGED portVars /\ PortTypes'
  <2>1. UNCHANGED portVars
    BY DEF OpenTest, OpenEnter, CloseFile, SetNproc
  <2> QED BY <2>1, PortTypesKept DEF DriverTypes
<1>5. UNCHANGED got
  BY DEF OpenTest, OpenEnter, CloseFile, SetNproc
<1>6. ReadTypes /\ SharedTypes /\ nprocs = Cardinality(Users)
  BY DEF DriverTypes
<1>7. SharedTypes'
  BY <1>6, ReaderAssumption
     DEF OpenTest, OpenEnter, CloseFile, SetNproc, SharedTypes, fileVars
<1>8. CASE OpenTest(r)
  <2> DEFINE next == [Closed EXCEPT !.pc = "opening"]
  <2>1. next \in Local /\ Measured(next) /\ next.nth = 0 /\ ~Counted(next)
    BY DEF Closed, Local, Measured, ReaderPc, Copies, Pointer, Counted
  <2>2. Goes(r, "closed", next) /\ reader[r].pc = "closed" /\ nprocs' = nprocs
    BY <1>8 DEF OpenTest, Goes, fileVars
  <2>3. Fits(next, got)
    BY <1>2, <2>1 DEF Fits
  <2> HIDE DEF next
  <2> QED BY <1>2, <1>4, <1>5, <1>7, <2>1, <2>2, <2>3, TurnKeeps DEF Counted
<1>9. CASE OpenEnter(r)
  <2>1. Goes(r, "opening", Opened) /\ reader[r].pc = "opening" /\ nprocs' = nprocs + 1
    BY <1>9 DEF OpenEnter, Goes
  <2>2. ReadTypes' /\ Users' = Users \cup {r} /\ r \notin Users
    BY <1>1, <1>2, <1>3, <1>5, <1>6, <2>1, TurnTyped, TurnCounted DEF Users, Counted
  <2>3. nprocs' = Cardinality(Users')
    BY <1>6, <2>1, <2>2, UsersFinite, FS_AddElement
  <2> QED BY <1>4, <1>7, <2>2, <2>3 DEF DriverTypes
<1>10. CASE CloseFile(r)
  <2>1. Goes(r, "open", Closed) /\ reader[r].pc = "open" /\ nprocs' = nprocs - 1
    BY <1>10 DEF CloseFile, Goes
  <2>2. ReadTypes' /\ Users' = Users \ {r} /\ r \in Users
    BY <1>1, <1>2, <1>3, <1>5, <1>6, <2>1, TurnTyped, TurnCounted DEF Users, Counted
  <2>3. nprocs' = Cardinality(Users')
    BY <1>6, <2>1, <2>2, UsersFinite, FS_RemoveElement
  <2> QED BY <1>4, <1>7, <2>2, <2>3 DEF DriverTypes
<1>11. CASE \E n \in NprocLimits : SetNproc(r, n)
  <2>1. Goes(r, "open", reader[r]) /\ nprocs' = nprocs
    BY <1>11 DEF SetNproc
  <2>2. Fits(reader[r], got)
    BY <1>6 DEF ReadTypes
  <2> QED BY <1>2, <1>4, <1>5, <1>7, <2>1, <2>2, TurnKeeps
<1> QED BY <1>8, <1>9, <1>10, <1>11

\* What the steps write to the locals.
LEMMA LocalMoves ==
  ASSUME NEW reads, NEW local, Fits(local, reads), NEW pc \in ReaderPc,
         local.pc \notin Copies \/ pc \in Copies
  PROVE  Fits([local EXCEPT !.pc = pc], reads)
<1>1. local \in Local
  BY DEF Fits
<1>2. [local EXCEPT !.pc = pc] \in Local
  BY <1>1 DEF Local
<1> QED BY <1>1, <1>2 DEF Fits, Measured, Local

LEMMA AfterTyped ==
  ASSUME PagesTypes, NEW f
  PROVE  After(f) \in Pointer
<1>1. CASE \E i \in 1..Len(mem_list) - 1 : mem_list[i] = f
  <2> DEFINE i == CHOOSE i \in 1..Len(mem_list) - 1 : mem_list[i] = f
  <2>1. i \in 1..Len(mem_list) - 1
    BY <1>1
  <2>2. After(f) = mem_list[i + 1]
    BY <1>1 DEF After
  <2> HIDE DEF i
  <2>3. mem_list \in Seq(Frames) /\ i + 1 \in 1..Len(mem_list)
    BY <2>1 DEF PagesTypes
  <2> QED BY <2>2, <2>3 DEF Pointer
<1> QED BY <1>1 DEF After, Pointer

LEMMA LocalGoesTo ==
  ASSUME PagesTypes, NEW reads, NEW local \in Local, local.nth <= Len(reads),
         local.size_read <= local.total,
         local.begin_offset <= PAGE_SIZE \/ local.size_read = local.total,
         NEW f \in Pointer
  PROVE  Fits(GoTo(local, f), reads) /\ Counted(GoTo(local, f))
<1> DEFINE next == After(f)
<1>1. next \in Pointer
  BY AfterTyped
<1>2. GoTo(local, f) = [local EXCEPT !.pc = "copy", !.curr = f, !.next = next]
  BY DEF GoTo
<1> HIDE DEF next
<1>3. GoTo(local, f) \in Local
  BY <1>1, <1>2 DEF Local, ReaderPc
<1> QED BY <1>2, <1>3 DEF Fits, Measured, Local, Copies, Counted

-----------------------------------------------------------------------------

\* Steps that change nothing but the locals.
LEMMA TypesLocal ==
  ASSUME DriverTypes, NEW r \in Readers, NEW pc, NEW next, Goes(r, pc, next),
         UNCHANGED <<portVars, fileVars, got>>, Fits(next, got),
         Counted(next), Counted(reader[r])
  PROVE  DriverTypes'
<1>1. PortTypes'
  BY PortTypesKept DEF DriverTypes
<1>2. SharedTypes' /\ nprocs' = nprocs
  BY DEF DriverTypes, SharedTypes, fileVars
<1>3. got \in Seq(ReadBytes) /\ Len(got) \in Nat
  BY DEF DriverTypes, ReadTypes
<1> QED BY <1>1, <1>2, <1>3, TurnKeeps

\* From the start of read to the copy loop.
LEMMA TypesBegin ==
  ASSUME DriverTypes, NEW r \in Readers,
         \/ \E n \in ReadSizes : ReadStart(r, n)
         \/ ReadOffset(r) \/ ReadWait(r) \/ Signal(r) \/ ReadSize(r) \/ ReadLoad(r)
  PROVE  DriverTypes'
<1>1. Fits(reader[r], got) /\ reader[r] \in Local /\ Measured(reader[r])
  BY DEF DriverTypes, ReadTypes, Fits
<1>2. ASSUME NEW from, NEW pc, Goes(r, from, [reader[r] EXCEPT !.pc = pc]),
             UNCHANGED <<portVars, fileVars, got>>,
             from \notin {"closed", "opening"} \cup Copies,
             pc \in ReaderPc \ {"closed", "opening"}
      PROVE  DriverTypes'
  <2>1. reader[r].pc = from
    BY <1>2 DEF Goes
  <2>2. Fits([reader[r] EXCEPT !.pc = pc], got)
    BY <1>1, <1>2, <2>1, LocalMoves
  <2>3. [reader[r] EXCEPT !.pc = pc].pc = pc
    BY <1>1 DEF Local
  <2>4. Counted([reader[r] EXCEPT !.pc = pc]) /\ Counted(reader[r])
    BY <1>2, <2>1, <2>3 DEF Counted
  <2> QED BY <1>2, <2>2, <2>4, TypesLocal
<1>3. ASSUME NEW n \in ReadSizes, ReadStart(r, n)
      PROVE  DriverTypes'
  <2> DEFINE pc == IF sessions.count = 0 THEN "offset" ELSE "size"
             next == [Opened EXCEPT !.want = n, !.pc = pc]
  <2>1. n \in Nat /\ pc \in {"offset", "size"}
    BY ReaderAssumption
  <2> HIDE DEF pc
  <2>2. next \in Local /\ Measured(next) /\ next.nth = 0 /\ Counted(next)
    <3>1. next \in Local
      BY <2>1, FreshLocals DEF Local, ReaderPc
    <3>2. /\ next.pc = pc /\ next.nth = Opened.nth /\ next.total = Opened.total
          /\ next.size_read = Opened.size_read
          /\ next.begin_offset = Opened.begin_offset
      BY FreshLocals DEF Local
    <3> HIDE DEF next
    <3> QED BY <2>1, <3>1, <3>2, FreshLocals, SizeAssumption DEF Measured, Counted
  <2>3. Len(got) \in Nat
    BY DEF DriverTypes, ReadTypes
  <2>4. Fits(next, got)
    BY <2>2, <2>3 DEF Fits
  <2>5. Goes(r, "open", next) /\ UNCHANGED <<portVars, fileVars, got>>
    BY <1>3 DEF ReadStart, pc
  <2>6. Counted(reader[r])
    BY <2>5 DEF Goes, Counted
  <2> HIDE DEF next
  <2> QED BY <2>2, <2>4, <2>5, <2>6, TypesLocal
<1>4. CASE ReadOffset(r)
  <2>1. PICK pc \in {"wait", "size"} : Goes(r, "offset", [reader[r] EXCEPT !.pc = pc])
    BY <1>4 DEF ReadOffset
  <2> QED BY <1>2, <1>4, <2>1 DEF ReadOffset, ReaderPc, Copies
<1>5. CASE ReadWait(r)
  <2>1. PICK from \in {"wait", "woken"}, pc \in {"size", "asleep"} :
          Goes(r, from, [reader[r] EXCEPT !.pc = pc])
    BY <1>5 DEF ReadWait
  <2> QED BY <1>2, <1>5, <2>1 DEF ReadWait, ReaderPc, Copies
<1>6. CASE Signal(r)
  BY <1>2, <1>6 DEF Signal, ReaderPc, Copies
<1>7. CASE ReadSize(r)
  <2> DEFINE size == sessions.sizes[sessions.head]
             next == [reader[r] EXCEPT !.pc = "head", !.total = size]
  <2>1. size \in Nat
    BY SizeAssumption DEF DriverTypes, PortTypes, TrackerTypes
  <2>2. Goes(r, "size", next) /\ reader[r].pc = "size" /\ UNCHANGED <<portVars, fileVars, got>>
    BY <1>7 DEF ReadSize, Goes
  <2> HIDE DEF size
  <2>3. next \in Local /\ next.pc = "head"
    BY <1>1, <2>1 DEF Local, ReaderPc
  <2>4. /\ next.size_read = reader[r].size_read /\ next.total = size
        /\ next.begin_offset = reader[r].begin_offset /\ next.nth = reader[r].nth
    BY <1>1 DEF Local
  <2>5. Fits(next, got) /\ Counted(next) /\ Counted(reader[r])
    <3> HIDE DEF next
    <3>1. reader[r].size_read = 0 /\ reader[r].begin_offset = 0
      BY <1>1, <2>2 DEF Measured, Copies
    <3> QED BY <1>1, <2>1, <2>2, <2>3, <2>4, <3>1, SizeAssumption
            DEF Fits, Measured, Copies, Counted
  <2> HIDE DEF next
  <2> QED BY <2>2, <2>5, TypesLocal
<1>8. CASE ReadLoad(r)
  <2> DEFINE count == sessions.count
             next == [reader[r] EXCEPT !.pc = "dec", !.count = count]
  <2>1. count \in Int
    BY SizeAssumption DEF DriverTypes, PortTypes, TrackerTypes
  <2>2. Goes(r, "load", next) /\ reader[r].pc = "load" /\ UNCHANGED <<portVars, fileVars, got>>
    BY <1>8 DEF ReadLoad, Goes
  <2> HIDE DEF count
  <2>3. next \in Local /\ next.pc = "dec"
    BY <1>1, <2>1 DEF Local, ReaderPc
  <2>4. Fits(next, got) /\ Counted(next) /\ Counted(reader[r])
    BY <1>1, <2>2, <2>3 DEF Fits, Measured, Copies, Counted, Local
  <2> HIDE DEF next
  <2> QED BY <2>2, <2>4, TypesLocal
<1> QED BY <1>3, <1>4, <1>5, <1>6, <1>7, <1>8

LEMMA UpdateNothing ==
  ASSUME NEW S, NEW T, NEW f \in [S -> T], NEW x, x \notin S, NEW v
  PROVE  [f EXCEPT ![x] = v] = f
  OBVIOUS

\* The session is taken: head moves on, and a place for its bytes is made.
LEMMA TypesHead ==
  ASSUME DriverTypes, NEW r \in Readers, ReadHead(r)
  PROVE  DriverTypes'
<1> USE DEF assembly, store, ghosts, fileVars
<1>1. Fits(reader[r], got) /\ reader[r] \in Local /\ Measured(reader[r])
  BY DEF DriverTypes, ReadTypes, Fits
<1>2. got \in Seq(ReadBytes) /\ Len(got) \in Nat
  BY DEF DriverTypes, ReadTypes
<1>3. /\ got' = Append(got, <<>>) /\ <<>> \in ReadBytes
  BY DEF ReadHead, ReadBytes
<1>4. got' \in Seq(ReadBytes) /\ Len(got') = Len(got) + 1
  BY <1>2, <1>3
<1> DEFINE nth == Len(got) + 1
           next == [reader[r] EXCEPT !.pc = "load", !.nth = nth]
<1>5. Goes(r, "head", next) /\ reader[r].pc = "head"
  BY DEF ReadHead, Goes
<1>6. nth \in Nat /\ nth <= Len(got')
  BY <1>2, <1>4
<1> HIDE DEF nth
<1>7. next \in Local /\ next.pc = "load" /\ next.nth = nth
  BY <1>1, <1>6 DEF Local, ReaderPc
<1>8. Fits(next, got') /\ Counted(next) /\ Counted(reader[r])
  BY <1>1, <1>5, <1>6, <1>7 DEF Fits, Measured, Copies, Counted, Local
<1>9. PortTypes'
  <2>1. (sessions.head + 1) % MAX_SESSIONS \in 0..MAX_SESSIONS - 1
    <3>1. sessions.head + 1 \in Int
      BY SizeAssumption DEF DriverTypes, PortTypes, TrackerTypes
    <3> QED BY <3>1, SizeAssumption, ModInRange
  <2>2. TrackerTypes'
    BY <2>1 DEF ReadHead, DriverTypes, PortTypes, TrackerTypes
  <2> QED BY <2>2 DEF ReadHead, DriverTypes, PortTypes, AssemblyType, BufferTypes,
                      HandlerTypes, WorkerTypes, PagesTypes, GhostType
<1>10. SharedTypes' /\ nprocs' = nprocs
  BY DEF ReadHead, DriverTypes, SharedTypes
<1> HIDE DEF next
<1>11. Len(got) <= Len(got')
  BY <1>2, <1>4
<1> QED BY <1>4, <1>5, <1>8, <1>9, <1>10, <1>11, TurnKeeps

\* The session is counted off, and the walk along the pages begins.
LEMMA TypesDec ==
  ASSUME DriverTypes, NEW r \in Readers, ReadDec(r)
  PROVE  DriverTypes'
<1> USE DEF assembly, store, ghosts, fileVars
<1>1. Fits(reader[r], got) /\ reader[r] \in Local /\ Measured(reader[r])
  BY DEF DriverTypes, ReadTypes, Fits
<1>2. got \in Seq(ReadBytes) /\ Len(got) \in Nat /\ UNCHANGED got
  BY DEF DriverTypes, ReadTypes, ReadDec
<1> DEFINE none == 0
           local == [reader[r] EXCEPT !.count = none, !.begin_offset = read_offset]
<1>3. Goes(r, "dec", GoTo(local, First)) /\ reader[r].pc = "dec"
  BY DEF ReadDec, Goes
<1>4. read_offset \in Nat /\ read_offset <= PAGE_SIZE /\ none \in Int
  BY SizeAssumption DEF DriverTypes, SharedTypes
<1> HIDE DEF none
<1>5. /\ local \in Local /\ local.begin_offset = read_offset
      /\ local.size_read = reader[r].size_read /\ local.total = reader[r].total
      /\ local.nth = reader[r].nth
  BY <1>1, <1>4 DEF Local
<1> HIDE DEF local
<1>6. First \in Pointer
  BY DEF First, DriverTypes, PortTypes, PagesTypes, Pointer
<1> DEFINE next == GoTo(local, First)
<1>8. Fits(next, got') /\ Counted(next) /\ Counted(reader[r])
  <2>1. reader[r].nth <= Len(got') /\ reader[r].size_read <= reader[r].total
    BY <1>1, <1>2 DEF Fits, Measured
  <2> QED BY <1>3, <1>4, <1>5, <1>6, <2>1, LocalGoesTo
          DEF DriverTypes, PortTypes, Counted
<1> HIDE DEF next
<1>9. PortTypes'
  <2>1. TrackerTypes'
    <3>1. reader[r].count - 1 \in Int
      BY <1>1 DEF Local
    <3> QED BY <3>1 DEF ReadDec, DriverTypes, PortTypes, TrackerTypes
  <2> QED BY <2>1 DEF ReadDec, DriverTypes, PortTypes, AssemblyType, BufferTypes,
                      HandlerTypes, WorkerTypes, PagesTypes, GhostType
<1>10. SharedTypes' /\ nprocs' = nprocs
  BY DEF ReadDec, DriverTypes, SharedTypes
<1>11. Goes(r, "dec", next) /\ Len(got) <= Len(got') /\ got' \in Seq(ReadBytes)
  BY <1>2, <1>3 DEF next
<1> QED BY <1>8, <1>9, <1>10, <1>11, TurnKeeps

\* The bytes of a read grow; no read is added.
LEMMA CopyTyped ==
  ASSUME DriverTypes, NEW r \in Readers, ReadCopy(r)
  PROVE  got' \in Seq(ReadBytes) /\ Len(got') = Len(got)
<1> DEFINE nth == reader[r].nth
           longer == got[nth] \o PageBytes(r)
<1>1. got \in Seq(ReadBytes) /\ Len(got) \in Nat
  BY DEF DriverTypes, ReadTypes
<1>2. PageBytes(r) \in ReadBytes
  BY BytesRead DEF ReadCopy, DriverTypes, PortTypes
<1>3. got' = [got EXCEPT ![nth] = longer]
  BY DEF ReadCopy
<1>4. CASE nth \in 1..Len(got)
  <2>1. longer \in ReadBytes
    <3> HIDE DEF nth
    <3> QED BY <1>1, <1>2, <1>4 DEF ReadBytes
  <2> HIDE DEF longer, nth
  <2> QED BY <1>1, <1>3, <1>4, <2>1, ExceptSeq
<1>5. CASE nth \notin 1..Len(got)
  <2>1. got \in [1..Len(got) -> ReadBytes]
    BY <1>1, LenProperties
  <2>2. got' = got
    BY <1>3, <1>5, <2>1, UpdateNothing
  <2> QED BY <1>1, <2>2
<1> QED BY <1>4, <1>5

\* Bytes are copied, as many as are left or as fit.
LEMMA TypesCopy ==
  ASSUME DriverTypes, NEW r \in Readers, ReadCopy(r)
  PROVE  DriverTypes'
<1>1. Fits(reader[r], got) /\ reader[r] \in Local /\ Measured(reader[r])
  BY DEF DriverTypes, ReadTypes, Fits
<1>2. got' \in Seq(ReadBytes) /\ Len(got') = Len(got) /\ Len(got) \in Nat
  BY CopyTyped DEF DriverTypes, ReadTypes
<1> DEFINE n == SizeToRead(r)
           pc == IF (read_offset + n) % PAGE_SIZE = 0 THEN "free" ELSE "next"
           begin == reader[r].begin_offset + n
           size == reader[r].size_read + n
           next == [reader[r] EXCEPT !.pc = pc, !.begin_offset = begin, !.size_read = size]
<1>3. Goes(r, "copy", next) /\ reader[r].pc = "copy"
  BY DEF ReadCopy, Goes
<1>4. n \in Nat /\ n <= SizeLeft(r)
      /\ (n = SizeLeft(r) \/ begin <= PAGE_SIZE)
  BY SizeRead DEF DriverTypes
<1>5. pc \in {"free", "next"}
  OBVIOUS
<1> HIDE DEF pc
<1>6. begin \in Nat /\ size \in Nat /\ size <= reader[r].total
      /\ (begin <= PAGE_SIZE \/ size = reader[r].total)
  <2>1. /\ reader[r].begin_offset \in Nat /\ reader[r].size_read \in Nat
        /\ reader[r].total \in Nat
    BY <1>1 DEF Local
  <2> HIDE DEF n
  <2> QED BY <1>4, <2>1, SizeAssumption DEF SizeLeft
<1> HIDE DEF begin, size
<1>7. /\ next \in Local /\ next.pc = pc /\ next.begin_offset = begin
      /\ next.size_read = size /\ next.total = reader[r].total
      /\ next.nth = reader[r].nth
  BY <1>1, <1>5, <1>6 DEF Local, ReaderPc
<1> HIDE DEF next
<1>8. Fits(next, got') /\ Counted(next) /\ Counted(reader[r])
  BY <1>1, <1>2, <1>3, <1>5, <1>6, <1>7 DEF Fits, Measured, Copies, Counted
<1>9. PortTypes'
  BY PortTypesKept DEF ReadCopy, DriverTypes
<1>10. SharedTypes' /\ nprocs' = nprocs
  <2>1. (read_offset + SizeToRead(r)) % PAGE_SIZE \in 0..PAGE_SIZE - 1
    <3>1. read_offset \in Int
      BY SizeAssumption DEF DriverTypes, SharedTypes
    <3> QED BY <1>4, <3>1, SizeAssumption, ModInRange, SMTT(30)
  <2> QED BY <2>1 DEF ReadCopy, DriverTypes, SharedTypes
<1>11. Len(got) <= Len(got')
  BY <1>2
<1> QED BY <1>2, <1>3, <1>8, <1>9, <1>10, <1>11, TurnKeeps

\* A set of numbers that is not empty has a least one.
LEMMA SmallestOne ==
  ASSUME NEW I \in SUBSET Nat, I # {}
  PROVE  \E x \in I : \A y \in I : x <= y
<1> DEFINE less == OpToRel(<, Nat)
<1>1. IsWellFoundedOn(less, Nat)
  BY NatLessThanWellFounded
<1>2. \A x, y \in Nat : y < x => <<y, x>> \in less
  BY DEF OpToRel
<1> HIDE DEF less
<1>3. PICK x \in I : \A y \in I : <<y, x>> \notin less
  BY <1>1, WFMin
<1>4. ASSUME NEW y \in I
      PROVE  x <= y
  <2>1. x \in Nat /\ y \in Nat /\ ~(y < x)
    BY <1>2, <1>3
  <2> QED BY <2>1
<1> QED BY <1>4

\* The page is unlinked, and counted off.
LEMMA UnlinkTyped ==
  ASSUME NEW S, NEW s \in Seq(S), NEW f
  PROVE  RemoveFirst(s, f) \in Seq(S)
<1>1. CASE \E i \in 1..Len(s) : s[i] = f
  <2> DEFINE I == {i \in 1..Len(s) : s[i] = f}
  <2>1. I # {} /\ I \subseteq 1..Len(s)
    BY <1>1
  <2>2. RemoveFirst(s, f) = RemoveAt(s, Min(I))
    BY <1>1 DEF RemoveFirst, SelectInSeq
  <2>3. \E x \in I : \A y \in I : x <= y
    <3> HIDE DEF I
    <3> QED BY <2>1, SmallestOne
  <2> HIDE DEF I
  <2>4. Min(I) \in 1..Len(s)
    BY <2>1, <2>3, LeastOne
  <2> DEFINE m == Min(I)
  <2> HIDE DEF m
  <2>5. RemoveAt(s, m) \in Seq(S)
    BY <2>4 DEF RemoveAt, m
  <2> QED BY <2>2, <2>5 DEF m
<1>2. CASE ~\E i \in 1..Len(s) : s[i] = f
  BY <1>2 DEF RemoveFirst
<1> QED BY <1>1, <1>2

LEMMA TypesFree ==
  ASSUME DriverTypes, NEW r \in Readers, ReadFree(r) \/ ReadUncount(r)
  PROVE  DriverTypes'
<1> USE DEF assembly, store, ghosts, fileVars
<1>1. Fits(reader[r], got) /\ reader[r] \in Local /\ Measured(reader[r])
  BY DEF DriverTypes, ReadTypes, Fits
<1>2. got \in Seq(ReadBytes) /\ Len(got) \in Nat /\ UNCHANGED got
  BY DEF DriverTypes, ReadTypes, ReadFree, ReadUncount
<1>3. num_pages \in Int /\ data_size \in Int /\ mem_list \in Seq(Frames)
  BY DEF DriverTypes, PortTypes, PagesTypes
<1>4. SharedTypes' /\ nprocs' = nprocs
  BY DEF ReadFree, ReadUncount, DriverTypes, SharedTypes
<1>5. \E pc, next : /\ Goes(r, pc, next) /\ Fits(next, got')
                    /\ Counted(next) /\ Counted(reader[r])
  <2>1. ASSUME NEW from \in {"free", "uncount"}, NEW pc \in {"uncount", "next"},
               NEW pages \in Int, NEW bytes \in Int,
               Goes(r, from, [reader[r] EXCEPT !.pc = pc, !.num_pages = pages,
                                               !.data_size = bytes])
        PROVE  \E pc1, next : /\ Goes(r, pc1, next) /\ Fits(next, got')
                              /\ Counted(next) /\ Counted(reader[r])
    <3> DEFINE next == [reader[r] EXCEPT !.pc = pc, !.num_pages = pages, !.data_size = bytes]
    <3>1. next \in Local /\ next.pc = pc
      BY <1>1, <2>1 DEF Local, ReaderPc
    <3>2. reader[r].pc = from
      BY <2>1 DEF Goes
    <3>3. Fits(next, got') /\ Counted(next) /\ Counted(reader[r])
      BY <1>1, <1>2, <2>1, <3>1, <3>2 DEF Fits, Measured, Copies, Counted, Local
    <3> HIDE DEF next
    <3>4. Goes(r, from, next)
      BY <2>1 DEF next
    <3> QED BY <3>3, <3>4
  <2>2. CASE ReadFree(r)
    <3>1. Goes(r, "free", [reader[r] EXCEPT !.pc = "uncount", !.num_pages = num_pages,
                                            !.data_size = data_size])
      BY <2>2 DEF ReadFree
    <3> QED BY <1>3, <2>1, <3>1
  <2>3. CASE ReadUncount(r)
    <3> DEFINE none == 0
    <3>1. Goes(r, "uncount", [reader[r] EXCEPT !.pc = "next", !.num_pages = none,
                                               !.data_size = none])
      BY <2>3 DEF ReadUncount
    <3>2. none \in Int
      OBVIOUS
    <3> HIDE DEF none
    <3> QED BY <2>1, <3>1, <3>2
  <2> QED BY <2>2, <2>3
<1>6. PortTypes'
  <2>1. PagesTypes'
    <3>1. CASE ReadFree(r)
      <4>1. RemoveFirst(mem_list, reader[r].curr) \in Seq(Frames)
        BY <1>3, UnlinkTyped
      <4> QED BY <3>1, <4>1 DEF ReadFree, DriverTypes, PortTypes, PagesTypes
    <3>2. CASE ReadUncount(r)
      <4>1. reader[r].num_pages - 1 \in Int /\ reader[r].data_size - PAGE_SIZE \in Int
        BY <1>1, SizeAssumption DEF Local
      <4> QED BY <3>2, <4>1 DEF ReadUncount, DriverTypes, PortTypes, PagesTypes
    <3> QED BY <3>1, <3>2
  <2> QED BY <2>1 DEF ReadFree, ReadUncount, DriverTypes, PortTypes, AssemblyType,
                      BufferTypes, TrackerTypes, HandlerTypes, WorkerTypes, GhostType
<1>7. Len(got) <= Len(got') /\ got' \in Seq(ReadBytes)
  BY <1>2
<1> QED BY <1>4, <1>5, <1>6, <1>7, TurnKeeps

\* The next page, or the end of the read.
LEMMA TypesEnd ==
  ASSUME DriverTypes, NEW r \in Readers,
         ReadNext(r) \/ ReadFault(r) \/ ReadDone(r) \/ ReadListEnd(r)
  PROVE  DriverTypes'
<1>1. Fits(reader[r], got) /\ reader[r] \in Local /\ Measured(reader[r])
  BY DEF DriverTypes, ReadTypes, Fits
<1>2. got \in Seq(ReadBytes) /\ Len(got) \in Nat /\ UNCHANGED <<portVars, got>>
  BY DEF DriverTypes, ReadTypes, ReadNext, ReadFault, ReadDone, ReadListEnd
<1>3. Fits(Opened, got) /\ Counted(Opened)
  BY <1>2, FreshLocals DEF Fits
<1>4. CASE ReadNext(r)
  <2>1. Goes(r, "next", GoTo(reader[r], reader[r].next)) /\ reader[r].pc = "next"
        /\ UNCHANGED <<portVars, fileVars, got>>
    BY <1>4 DEF ReadNext, Goes
  <2>2. reader[r].next \in Pointer
    BY <1>1 DEF Local
  <2>3. /\ Fits(GoTo(reader[r], reader[r].next), got)
        /\ Counted(GoTo(reader[r], reader[r].next))
    BY <1>1, <2>2, LocalGoesTo DEF DriverTypes, PortTypes, Fits, Measured
  <2> QED BY <2>1, <2>3, TypesLocal DEF Counted
<1>5. CASE ReadFault(r) \/ ReadDone(r) \/ ReadListEnd(r)
  <2>1. PICK pc \in {"copy", "next"} : Goes(r, pc, Opened)
    BY <1>5 DEF ReadFault, ReadDone, ReadListEnd
  <2>2. reader[r].pc = pc /\ Counted(reader[r])
    BY <2>1 DEF Goes, Counted
  <2>3. SharedTypes' /\ nprocs' = nprocs
    BY <1>5 DEF ReadFault, ReadDone, ReadListEnd, DriverTypes, SharedTypes, fileVars
  <2>4. PortTypes'
    BY <1>2, PortTypesKept DEF DriverTypes
  <2> QED BY <1>2, <1>3, <2>1, <2>2, <2>3, <2>4, TurnKeeps
<1> QED BY <1>4, <1>5

\* The readers change nothing when the port goes on.
LEMMA TypesPort ==
  ASSUME DriverTypes, PortTypes', UNCHANGED readerVars
  PROVE  DriverTypes'
  BY DEF DriverTypes, SharedTypes, ReadTypes, Users, Counted, readerVars, fileVars

LEMMA TypesWakeUp ==
  ASSUME DriverTypes, WakeUp
  PROVE  DriverTypes'
<1>1. PortTypes'
  BY TypesTasklet DEF WakeUp, TaskletStep, DriverTypes
<1>2. SharedTypes' /\ nprocs' = nprocs /\ UNCHANGED got
  BY DEF WakeUp, DriverTypes, SharedTypes, fileVars
<1>3. /\ DOMAIN reader' = Readers
      /\ \A r \in Readers : reader'[r] = IF reader[r].pc = "asleep"
                                         THEN [reader[r] EXCEPT !.pc = "woken"]
                                         ELSE reader[r]
  BY DEF WakeUp
<1>4. ASSUME NEW r \in Readers
      PROVE  Fits(reader'[r], got') /\ (Counted(reader'[r]) <=> Counted(reader[r]))
  <2>1. Fits(reader[r], got) /\ reader[r] \in Local
    BY DEF DriverTypes, ReadTypes, Fits
  <2>2. CASE reader[r].pc = "asleep"
    <3>1. reader'[r] = [reader[r] EXCEPT !.pc = "woken"]
      BY <1>3, <2>2
    <3>2. Fits([reader[r] EXCEPT !.pc = "woken"], got)
      BY <2>1, <2>2, LocalMoves DEF ReaderPc, Copies
    <3>3. reader'[r].pc = "woken"
      BY <2>1, <3>1 DEF Local
    <3> QED BY <1>2, <2>2, <3>1, <3>2, <3>3 DEF Counted
  <2>3. CASE reader[r].pc # "asleep"
    BY <1>2, <1>3, <2>1, <2>3
  <2> QED BY <2>2, <2>3
<1>5. ReadTypes'
  BY <1>2, <1>3, <1>4 DEF DriverTypes, ReadTypes
<1>6. Users' = Users
  BY <1>4 DEF Users
<1> QED BY <1>1, <1>2, <1>5, <1>6 DEF DriverTypes

LEMMA TypesNext == DriverTypes /\ [Next]_vars => DriverTypes'
<1> SUFFICES ASSUME DriverTypes, [Next]_vars PROVE DriverTypes'
  OBVIOUS
<1>1. CASE Arrives \/ Handler \/ Copying
  <2>1. PortTypes'
    BY <1>1, TypesArrive, TypesHandler, TypesTasklet DEF DriverTypes, Copying
  <2>2. UNCHANGED readerVars
    BY <1>1 DEF Arrives, Handler, Copying
  <2> QED BY <2>1, <2>2, TypesPort
<1>2. CASE WakeUp
  BY <1>2, TypesWakeUp
<1>3. ASSUME NEW r \in Readers, ReaderStep(r)
      PROVE  DriverTypes'
  BY <1>3, TypesOpen, TypesBegin, TypesHead, TypesDec, TypesCopy, TypesFree, TypesEnd
     DEF ReaderStep
<1>4. CASE UNCHANGED vars
  BY <1>4, PortTypesKept, TypesPort DEF vars, DriverTypes
<1> QED BY <1>1, <1>2, <1>3, <1>4 DEF Next

LEMMA TypesAlways == Spec => []DriverTypes
<1>1. Init => DriverTypes
  BY TypesInit
<1> QED BY <1>1, TypesNext, PTL DEF Spec

\* On every kernel, whatever the world does: the positions in the session table
\* and the page stay inside, as many processes are counted as have the device
\* open, and a read never has more than its session's size (asgn.c:60-61, 81-87,
\* 244-249, 282-318).
THEOREM TypeCorrectReaders == Spec => []ReaderTypeOK
<1>1. DriverTypes => ReaderTypeOK
  <2> SUFFICES ASSUME DriverTypes PROVE ReaderTypeOK
    OBVIOUS
  <2>1. sessions.head \in 0..MAX_SESSIONS - 1 /\ sessions.count \in Int
    BY DEF DriverTypes, PortTypes, TrackerTypes
  <2>2. nprocs = Cardinality({r \in Readers : reader[r].pc \notin {"closed", "opening"}})
    BY DEF DriverTypes, Users, Counted
  <2>3. ASSUME NEW r \in Readers
        PROVE  /\ reader[r].begin_offset \in Nat /\ SizeLeft(r) \in Nat
               /\ {reader[r].curr, reader[r].next} \subseteq Frames \cup {NoPage}
               /\ reader[r].nth \in 0..Len(got)
    <3>1. Fits(reader[r], got) /\ Len(got) \in Nat
      BY DEF DriverTypes, ReadTypes
    <3> QED BY <3>1 DEF Fits, Measured, Local, Pointer, SizeLeft
  <2>4. got \in Seq(Seq(Byte \cup {Outside}))
    BY DEF DriverTypes, ReadTypes, ReadBytes
  <2> QED BY <2>1, <2>2, <2>3, <2>4 DEF ReaderTypeOK, DriverTypes, SharedTypes
<1> QED BY <1>1, TypesAlways, PTL

\* The types of what the handler and the tasklet use.
LEMMA PortFields ==
  ASSUME DriverTypes
  PROVE  /\ cbuf \in [head : 0..BUFFER_CAPACITY - 1, count : Int,
                      buffer : [0..BUFFER_CAPACITY - 1 -> Byte]]
         /\ sessions \in [head : 0..MAX_SESSIONS - 1, count : Int,
                          sizes : [0..MAX_SESSIONS - 1 -> Nat]]
         /\ irq \in [pc : IrqPc, at : {Nested, Remote}, cbuf_end : Int, session_end : Int,
                     count : Int]
         /\ tasklet \in [pc : TaskletPc, sched : BOOLEAN, byte : Byte,
                         begin_offset : 0..PAGE_SIZE - 1, curr : Frames \cup {NoPage},
                         count : Int]
         /\ cbuf.head \in 0..BUFFER_CAPACITY - 1
         /\ accepted \in Seq(Byte) /\ copied \in Seq(Byte) /\ ends \in Seq(Nat)
         /\ got \in Seq(ReadBytes) /\ mem_list \in Seq(Frames)
         /\ write_offset \in 0..PAGE_SIZE - 1 /\ read_offset \in 0..PAGE_SIZE - 1
         /\ Len(accepted) \in Nat /\ Len(copied) \in Nat /\ Len(ends) \in Nat
         /\ Len(got) \in Nat
<1>1. BufferTypes /\ TrackerTypes /\ HandlerTypes /\ WorkerTypes
  BY DEF DriverTypes, PortTypes
<1>2. cbuf.head \in 0..BUFFER_CAPACITY - 1
  BY <1>1 DEF BufferTypes
<1>3. /\ accepted \in Seq(Byte) /\ copied \in Seq(Byte) /\ ends \in Seq(Nat)
      /\ got \in Seq(ReadBytes) /\ mem_list \in Seq(Frames)
      /\ write_offset \in 0..PAGE_SIZE - 1 /\ read_offset \in 0..PAGE_SIZE - 1
  BY DEF DriverTypes, PortTypes, PagesTypes, GhostType, SharedTypes, ReadTypes
<1>4. /\ Len(accepted) \in Nat /\ Len(copied) \in Nat /\ Len(ends) \in Nat
      /\ Len(got) \in Nat
  BY <1>3
<1> QED
  BY <1>1, <1>2, <1>3, <1>4 DEF BufferTypes, TrackerTypes, HandlerTypes, WorkerTypes

-----------------------------------------------------------------------------
(* No wake-up is lost on one CPU.                                          *)

OneCpu == ~SMP /\ ~AllocMayFail

\* The fields the steps read and write are there.
Shapes == /\ {"pc", "count"} \subseteq DOMAIN irq
          /\ {"pc", "sched"} \subseteq DOMAIN tasklet
          /\ {"count"} \subseteq DOMAIN sessions
          /\ DOMAIN reader = Readers
          /\ \A r \in Readers : {"pc", "count"} \subseteq DOMAIN reader[r]

\* Of the readers one runs at most.
OneRunner == \A r, s \in Readers : Running(r) /\ Running(s) => r = s

\* What a handler or a reader has loaded of count before it stores: the handler
\* the present value, for nobody interrupts it; a reader that value or a lower
\* one, for the handler only adds.
FreshCount == /\ sessions.count \in Int
              /\ irq.pc = "count" => irq.count = sessions.count
LoadedLow == \A r \in Readers :
               reader[r].pc = "dec" => /\ reader[r].count \in Int
                                       /\ reader[r].count <= sessions.count

WakeInv == Shapes /\ OneRunner /\ FreshCount /\ LoadedLow /\ NoLostWakeup

-----------------------------------------------------------------------------

LEMMA WakeInit == Init => WakeInv
<1> SUFFICES ASSUME Init PROVE WakeInv
  OBVIOUS
<1>1. Shapes
  BY DEF Init, PortInit, Shapes, IdleIrq, IdleTasklet, Closed
<1>2. \A r \in Readers : reader[r].pc = "closed"
  BY DEF Init, Closed
<1>3. FreshCount
  BY DEF Init, PortInit, IdleIrq, FreshCount
<1> QED
  BY <1>1, <1>2, <1>3 DEF WakeInv, OneRunner, LoadedLow, NoLostWakeup, Running, InCall

\* Nothing of the readers changes when the port takes a step.
LEMMA ReadersKeep ==
  ASSUME WakeInv, UNCHANGED readerVars
  PROVE  OneRunner'
  BY DEF WakeInv, OneRunner, Running, InCall, readerVars

\* An interrupt arrives.
LEMMA WakeArrives ==
  ASSUME WakeInv, Arrives
  PROVE  WakeInv'
<1> USE DEF WakeInv
<1>1. PICK pins \in PinLevels :
        /\ FirstHalf(pins) \/ \E at \in Arrivals : SecondHalf(pins, at)
        /\ UNCHANGED readerVars
  BY DEF Arrives
<1>2. OneRunner'
  BY <1>1, ReadersKeep
<1>3. UNCHANGED <<sessions, tasklet, reader>>
  BY <1>1 DEF FirstHalf, SecondHalf, readerVars
<1>4. /\ irq.pc = "idle"
      /\ {"pc", "count"} \subseteq DOMAIN irq' /\ irq'.pc \in {"idle", "lock"}
  BY <1>1 DEF FirstHalf, SecondHalf, Shapes
<1>5. Shapes' /\ FreshCount' /\ LoadedLow'
  BY <1>3, <1>4 DEF Shapes, FreshCount, LoadedLow
<1>6. NoLostWakeup'
  BY <1>3, <1>4 DEF NoLostWakeup
<1> QED BY <1>2, <1>5, <1>6

\* The handler goes on.
LEMMA WakeHandler ==
  ASSUME WakeInv, Handler
  PROVE  WakeInv'
<1> USE DEF WakeInv
<1>1. UNCHANGED readerVars /\ UNCHANGED reader
  BY DEF Handler, readerVars
<1>2. OneRunner'
  BY <1>1, ReadersKeep
<1>3. CASE IrqLock \/ IrqNul \/ IrqDrop
  <2>1. UNCHANGED <<sessions, tasklet>>
    BY <1>3 DEF IrqLock, IrqNul, IrqDrop
  <2>2. /\ irq.pc \in {"lock", "body"}
        /\ {"pc", "count"} \subseteq DOMAIN irq'
        /\ irq'.pc = "count" => irq'.count = sessions.count
    <3>1. CASE IrqLock
      BY <3>1 DEF IrqLock, Shapes
    <3>2. CASE IrqNul
      BY <3>2 DEF IrqNul, Shapes
    <3>3. CASE IrqDrop
      BY <3>3 DEF IrqDrop, IdleIrq
    <3> QED BY <1>3, <3>1, <3>2, <3>3
  <2> QED BY <1>1, <1>2, <2>1, <2>2 DEF Shapes, FreshCount, LoadedLow, NoLostWakeup
<1>4. CASE IrqCount
  <2>1. /\ irq'.pc = "unlock" /\ {"pc", "count"} \subseteq DOMAIN irq'
        /\ tasklet' = tasklet
    BY <1>4 DEF IrqCount, Shapes
  <2>2. sessions'.count = sessions.count + 1 /\ {"count"} \subseteq DOMAIN sessions'
    BY <1>4 DEF IrqCount, Shapes, FreshCount
  <2>3. LoadedLow'
    BY <1>1, <2>2 DEF LoadedLow, FreshCount
  <2> QED BY <1>1, <1>2, <2>1, <2>2, <2>3 DEF Shapes, FreshCount, NoLostWakeup
<1>5. CASE IrqStore
  <2>1. /\ irq'.pc = "unlock" /\ {"pc", "count"} \subseteq DOMAIN irq'
        /\ tasklet' = tasklet
    BY <1>5 DEF IrqStore, Shapes
  <2>2. sessions'.count = sessions.count /\ {"count"} \subseteq DOMAIN sessions'
    BY <1>5 DEF IrqStore, Shapes
  <2> QED BY <1>1, <1>2, <2>1, <2>2 DEF Shapes, FreshCount, LoadedLow, NoLostWakeup
<1>6. CASE IrqUnlock
  <2>1. /\ irq'.pc = "idle" /\ {"pc", "count"} \subseteq DOMAIN irq'
        /\ tasklet'.sched /\ {"pc", "sched"} \subseteq DOMAIN tasklet'
        /\ UNCHANGED sessions
    BY <1>6 DEF IrqUnlock, IdleIrq, Shapes
  <2> QED BY <1>1, <1>2, <2>1 DEF Shapes, FreshCount, LoadedLow, NoLostWakeup
<1> QED BY <1>3, <1>4, <1>5, <1>6 DEF Handler, IrqContinues

\* The tasklet copies: until it wakes the readers it is not idle.
LEMMA WakeCopying ==
  ASSUME ~AllocMayFail, WakeInv, Copying
  PROVE  WakeInv'
<1> USE DEF WakeInv
<1>1. UNCHANGED readerVars /\ UNCHANGED reader
  BY DEF Copying, readerVars
<1>2. OneRunner'
  BY <1>1, ReadersKeep
<1>3. UNCHANGED <<sessions, irq>>
  BY DEF Copying, TaskletStep, TaskletStart, TaskletLock, TaskletTest, TaskletTake,
         TaskletDec, TaskletAlloc, TaskletAllocFail, TaskletStore, TaskletUnlock,
         TaskletWake
<1>4. tasklet'.pc # "idle" /\ {"pc", "sched"} \subseteq DOMAIN tasklet'
  <2>1. {"pc", "sched"} \subseteq DOMAIN tasklet
    BY DEF Shapes
  <2>2. CASE TaskletStart
    BY <2>1, <2>2 DEF TaskletStart
  <2>3. CASE TaskletLock \/ TaskletTest \/ TaskletTake
    BY <2>1, <2>3 DEF TaskletLock, TaskletTest, TaskletTake
  <2>4. CASE TaskletDec
    BY <2>1, <2>4 DEF TaskletDec
  <2>5. CASE \E f \in Frames : TaskletAlloc(f)
    BY <2>1, <2>5 DEF TaskletAlloc
  <2>6. CASE TaskletStore
    BY <2>1, <2>6 DEF TaskletStore, IdleTasklet
  <2>7. CASE TaskletUnlock
    BY <2>1, <2>7 DEF TaskletUnlock
  <2> QED
    BY <2>2, <2>3, <2>4, <2>5, <2>6, <2>7
       DEF Copying, TaskletStep, TaskletAllocFail, TaskletWake
<1> QED BY <1>1, <1>2, <1>3, <1>4 DEF Shapes, FreshCount, LoadedLow, NoLostWakeup

\* The tasklet wakes the readers: none is left asleep.
LEMMA WakeWakeUp ==
  ASSUME WakeInv, WakeUp
  PROVE  WakeInv'
<1> USE DEF WakeInv
<1>1. UNCHANGED <<sessions, irq>> /\ {"pc", "sched"} \subseteq DOMAIN tasklet'
  BY DEF WakeUp, TaskletWake, IdleTasklet
<1>2. /\ DOMAIN reader' = Readers
      /\ \A r \in Readers :
           /\ {"pc", "count"} \subseteq DOMAIN reader'[r]
           /\ reader[r].pc = "asleep" => reader'[r].pc = "woken"
           /\ reader[r].pc # "asleep" => reader'[r] = reader[r]
  BY DEF WakeUp, Shapes
<1>3. OneRunner'
  BY <1>2 DEF OneRunner, Running, InCall
<1> QED BY <1>1, <1>2, <1>3 DEF Shapes, FreshCount, LoadedLow, NoLostWakeup

-----------------------------------------------------------------------------

\* A reader takes its turn: alone, between interrupts.  It may lower count or
\* leave it; it may load it, and sleep if there is no session.
LEMMA ReaderTurn ==
  ASSUME ~SMP, WakeInv, NEW r \in Readers, NEW pc, NEW next, Goes(r, pc, next),
         UNCHANGED <<irq, tasklet>>,
         {"pc", "count"} \subseteq DOMAIN next,
         {"count"} \subseteq DOMAIN sessions',
         sessions'.count \in Int, sessions'.count <= sessions.count,
         next.pc = "dec" => next.count \in Int /\ next.count <= sessions'.count,
         next.pc = "asleep" => sessions'.count <= 0
  PROVE  WakeInv'
<1> USE DEF WakeInv
<1>1. /\ irq.pc = "idle"
      /\ \A s \in Readers \ {r} : ~Running(s)
  BY DEF Goes, MayRun
<1>2. /\ DOMAIN reader' = Readers /\ reader'[r] = next
      /\ \A s \in Readers \ {r} : reader'[s] = reader[s]
  BY DEF Goes, Shapes
<1>3. OneRunner'
  BY <1>1, <1>2 DEF OneRunner, Running, InCall
<1>4. LoadedLow'
  <2>1. \A s \in Readers \ {r} : reader[s].pc # "dec"
    BY <1>1 DEF Running, InCall
  <2> QED BY <1>2, <2>1 DEF LoadedLow
<1>5. Shapes' /\ FreshCount'
  BY <1>1, <1>2 DEF Shapes, FreshCount
<1>6. NoLostWakeup'
  BY <1>2 DEF NoLostWakeup, FreshCount
<1> QED BY <1>3, <1>4, <1>5, <1>6

\* Every step of a reader is such a turn.
LEMMA WakeReader ==
  ASSUME ~SMP, WakeInv, NEW r \in Readers, ReaderStep(r)
  PROVE  WakeInv'
<1> DEFINE Shaped(next) == {"pc", "count"} \subseteq DOMAIN next
<1>0. /\ Shaped(reader[r]) /\ Shaped(Closed) /\ Shaped(Opened)
      /\ {"count"} \subseteq DOMAIN sessions /\ sessions.count \in Int
      /\ Closed.pc = "closed" /\ Opened.pc = "open"
  BY DEF WakeInv, Shapes, FreshCount, Opened, Closed
<1>1. ASSUME NEW pc, NEW next, Goes(r, pc, next), Shaped(next),
             UNCHANGED <<sessions, irq, tasklet>>,
             next.pc \notin {"dec", "asleep"}
      PROVE  WakeInv'
  BY <1>0, <1>1, ReaderTurn
<1> HIDE DEF Shaped
<1> USE DEF portVars, store
<1>2. CASE OpenTest(r) \/ OpenEnter(r) \/ CloseFile(r)
  <2>1. Shaped([Closed EXCEPT !.pc = "opening"])
    BY DEF Closed, Shaped
  <2>2. [Closed EXCEPT !.pc = "opening"].pc = "opening"
    BY DEF Closed
  <2>3. CASE OpenTest(r)
    BY <1>1, <2>1, <2>2, <2>3 DEF OpenTest
  <2>4. CASE OpenEnter(r)
    BY <1>0, <1>1, <2>4 DEF OpenEnter
  <2>5. CASE CloseFile(r)
    BY <1>0, <1>1, <2>5 DEF CloseFile
  <2> QED BY <1>2, <2>3, <2>4, <2>5
<1>3. CASE \E n \in NprocLimits : SetNproc(r, n)
  <2>1. Goes(r, "open", reader[r]) /\ reader[r].pc = "open"
    BY <1>3 DEF SetNproc, Goes
  <2>2. UNCHANGED <<sessions, irq, tasklet>>
    BY <1>3 DEF SetNproc
  <2> QED BY <1>0, <1>1, <2>1, <2>2
<1>4. CASE \E n \in ReadSizes : ReadStart(r, n)
  <2>1. PICK n \in ReadSizes : ReadStart(r, n)
    BY <1>4
  <2> DEFINE next == [Opened EXCEPT !.want = n,
                        !.pc = IF sessions.count = 0 THEN "offset" ELSE "size"]
  <2>2. Shaped(next) /\ next.pc \in {"offset", "size"}
    BY DEF Opened, Closed, Shaped
  <2>3. Goes(r, "open", next) /\ UNCHANGED <<sessions, irq, tasklet>>
    BY <2>1 DEF ReadStart
  <2> HIDE DEF next
  <2> QED BY <1>1, <2>2, <2>3
<1>5. CASE ReadOffset(r) \/ Signal(r) \/ ReadUncount(r) \/ ReadSize(r)
  <2>1. PICK pc, next : /\ Goes(r, pc, next) /\ Shaped(next)
                        /\ next.pc \in {"wait", "size", "head", "next"}
    <3>1. CASE ReadOffset(r)
      <4> DEFINE next == [reader[r] EXCEPT
                   !.pc = IF read_offset = write_offset THEN "wait" ELSE "size"]
      <4>1. Shaped(next) /\ next.pc \in {"wait", "size"}
        BY <1>0 DEF Shaped
      <4>2. Goes(r, "offset", next)
        BY <3>1 DEF ReadOffset
      <4> QED BY <4>1, <4>2
    <3>2. CASE Signal(r)
      <4> DEFINE next == [reader[r] EXCEPT !.pc = "size"]
      <4>1. Shaped(next) /\ next.pc = "size"
        BY <1>0 DEF Shaped
      <4>2. Goes(r, "asleep", next)
        BY <3>2 DEF Signal
      <4> QED BY <4>1, <4>2
    <3>3. CASE ReadUncount(r)
      <4> DEFINE next == [reader[r] EXCEPT !.pc = "next", !.num_pages = 0, !.data_size = 0]
      <4>1. Shaped(next) /\ next.pc = "next"
        BY <1>0 DEF Shaped
      <4>2. Goes(r, "uncount", next)
        BY <3>3 DEF ReadUncount
      <4> QED BY <4>1, <4>2
    <3>4. CASE ReadSize(r)
      <4> DEFINE next == [reader[r] EXCEPT !.pc = "head",
                            !.total = sessions.sizes[sessions.head]]
      <4>1. Shaped(next) /\ next.pc = "head"
        BY <1>0 DEF Shaped
      <4>2. Goes(r, "size", next)
        BY <3>4 DEF ReadSize
      <4> QED BY <4>1, <4>2
    <3> QED BY <1>5, <3>1, <3>2, <3>3, <3>4
  <2>2. UNCHANGED <<sessions, irq, tasklet>>
    BY <1>5 DEF ReadOffset, Signal, ReadUncount, ReadSize
  <2> QED BY <1>1, <2>1, <2>2
<1>6. CASE ReadWait(r)
  <2> DEFINE next == [reader[r] EXCEPT
                        !.pc = IF sessions.count # 0 THEN "size" ELSE "asleep"]
  <2>1. PICK pc : Goes(r, pc, next) /\ UNCHANGED <<sessions, irq, tasklet>>
    BY <1>6 DEF ReadWait
  <2>2. /\ Shaped(next) /\ next.pc \in {"size", "asleep"}
        /\ next.pc = "asleep" => sessions.count = 0
    BY <1>0 DEF Shaped
  <2> HIDE DEF next
  <2> QED BY <1>0, <2>1, <2>2, ReaderTurn DEF Shaped
<1>7. CASE ReadHead(r)
  <2> DEFINE next == [reader[r] EXCEPT !.pc = "load", !.nth = Len(got) + 1]
  <2>1. Goes(r, "head", next) /\ UNCHANGED <<irq, tasklet>>
    BY <1>7 DEF ReadHead
  <2>2. Shaped(next) /\ next.pc = "load"
    BY <1>0 DEF Shaped
  <2>3. {"count"} \subseteq DOMAIN sessions' /\ sessions'.count = sessions.count
    BY <1>0, <1>7 DEF ReadHead
  <2> HIDE DEF next
  <2> QED BY <1>0, <2>1, <2>2, <2>3, ReaderTurn DEF Shaped
<1>8. CASE ReadLoad(r)
  <2> DEFINE next == [reader[r] EXCEPT !.pc = "dec", !.count = sessions.count]
  <2>1. Goes(r, "load", next) /\ UNCHANGED <<sessions, irq, tasklet>>
    BY <1>8 DEF ReadLoad
  <2>2. Shaped(next) /\ next.pc = "dec" /\ next.count = sessions.count
    BY <1>0 DEF Shaped
  <2> HIDE DEF next
  <2> QED BY <1>0, <2>1, <2>2, ReaderTurn DEF Shaped
<1>9. CASE ReadDec(r)
  <2> DEFINE local == [reader[r] EXCEPT !.count = 0, !.begin_offset = read_offset]
  <2>1. Goes(r, "dec", GoTo(local, First)) /\ UNCHANGED <<irq, tasklet>>
    BY <1>9 DEF ReadDec
  <2>2. Shaped(local)
    BY <1>0 DEF Shaped
  <2> HIDE DEF local
  <2>3. Shaped(GoTo(local, First)) /\ GoTo(local, First).pc = "copy"
    BY <2>2 DEF GoTo, Shaped
  <2>4. reader[r].pc = "dec" /\ reader[r].count \in Int
        /\ reader[r].count <= sessions.count
    BY <2>1 DEF Goes, WakeInv, LoadedLow
  <2>5. {"count"} \subseteq DOMAIN sessions' /\ sessions'.count = reader[r].count - 1
    BY <1>0, <1>9 DEF ReadDec
  <2> QED BY <1>0, <2>1, <2>3, <2>4, <2>5, ReaderTurn DEF Shaped
<1>10. CASE ReadCopy(r) \/ ReadFree(r)
  <2>1. CASE ReadCopy(r)
    <3> DEFINE next == [reader[r] EXCEPT
            !.pc = IF (read_offset + SizeToRead(r)) % PAGE_SIZE = 0 THEN "free" ELSE "next",
            !.begin_offset = @ + SizeToRead(r), !.size_read = @ + SizeToRead(r)]
    <3>1. Shaped(next) /\ next.pc \in {"free", "next"}
      BY <1>0 DEF Shaped
    <3>2. Goes(r, "copy", next) /\ UNCHANGED <<sessions, irq, tasklet>>
      BY <2>1 DEF ReadCopy
    <3> HIDE DEF next
    <3> QED BY <1>1, <3>1, <3>2
  <2>2. CASE ReadFree(r)
    <3> DEFINE next == [reader[r] EXCEPT !.pc = "uncount",
                          !.num_pages = num_pages, !.data_size = data_size]
    <3>1. Shaped(next) /\ next.pc = "uncount"
      BY <1>0 DEF Shaped
    <3>2. Goes(r, "free", next) /\ UNCHANGED <<sessions, irq, tasklet>>
      BY <2>2 DEF ReadFree
    <3> HIDE DEF next
    <3> QED BY <1>1, <3>1, <3>2
  <2> QED BY <1>10, <2>1, <2>2
<1>11. CASE ReadNext(r)
  <2>1. Goes(r, "next", GoTo(reader[r], reader[r].next))
        /\ UNCHANGED <<sessions, irq, tasklet>>
    BY <1>11 DEF ReadNext
  <2>2. /\ Shaped(GoTo(reader[r], reader[r].next))
        /\ GoTo(reader[r], reader[r].next).pc = "copy"
    BY <1>0 DEF GoTo, Shaped
  <2> QED BY <1>1, <2>1, <2>2
<1>12. CASE ReadFault(r) \/ ReadDone(r) \/ ReadListEnd(r)
  <2>1. \E pc : Goes(r, pc, Opened)
    BY <1>12 DEF ReadFault, ReadDone, ReadListEnd
  <2>2. UNCHANGED <<sessions, irq, tasklet>>
    BY <1>12 DEF ReadFault, ReadDone, ReadListEnd
  <2> QED BY <1>0, <1>1, <2>1, <2>2
<1> QED
  BY <1>2, <1>3, <1>4, <1>5, <1>6, <1>7, <1>8, <1>9, <1>10, <1>11, <1>12
     DEF ReaderStep

-----------------------------------------------------------------------------

LEMMA WakeNext ==
  ASSUME OneCpu, WakeInv, [Next]_vars
  PROVE  WakeInv'
<1>1. CASE UNCHANGED vars
  BY <1>1 DEF vars, portVars, readerVars, WakeInv, Shapes, OneRunner, FreshCount,
              LoadedLow, NoLostWakeup, Running, InCall
<1>2. CASE Next
  BY <1>2, WakeArrives, WakeHandler, WakeCopying, WakeWakeUp, WakeReader
     DEF Next, OneCpu
<1> QED BY <1>1, <1>2

\* No process sleeps beside a finished session unless the tasklet that will wake
\* it is scheduled, runs, or is about to be scheduled by the handler.
THEOREM NoWakeupLost == OneCpu => (Spec => []NoLostWakeup)
<1> SUFFICES ASSUME OneCpu PROVE Spec => []NoLostWakeup
  OBVIOUS
<1>1. Init => WakeInv
  BY WakeInit
<1>2. WakeInv /\ [Next]_vars => WakeInv'
  BY WakeNext
<1>3. WakeInv => NoLostWakeup
  BY DEF WakeInv
<1> QED BY <1>1, <1>2, <1>3, PTL DEF Spec

-----------------------------------------------------------------------------
(* What count says of the sessions, on one CPU, when bytes come between    *)
(* the calls.  A handler or a reader that has begun to change count is not *)
(* disturbed.                                                              *)

Undisturbed == ~SMP /\ "between" \in Manners

\* A reader has taken its session and not yet counted it off.
Counting(r) == reader[r].pc \in {"load", "dec"}

CountInv ==
  /\ irq.pc # "idle" => \A r \in Readers : ~Counting(r)
  /\ irq.pc = "count" => irq.count = sessions.count
  /\ (\A r \in Readers : ~Counting(r)) => sessions.count = Len(ends) - Len(got)
  /\ \A r \in Readers :
       /\ Counting(r) => sessions.count = Len(ends) - Len(got) + 1
       /\ reader[r].pc = "dec" => reader[r].count = sessions.count

LEMMA CountInit == Init => CountInv
  BY DEF Init, PortInit, IdleIrq, Closed, CountInv, Counting

\* The port: bytes come when no call is under way, and only the handler that
\* ends a session changes count.
LEMMA CountPort ==
  ASSUME Undisturbed, DriverTypes, CountInv, Arrives \/ Handler \/ Copying \/ WakeUp
  PROVE  CountInv'
<1> USE DEF assembly, store, ghosts
<1>1. ends \in Seq(Nat) /\ accepted \in Seq(Byte) /\ Len(got) \in Int /\ Len(ends) \in Nat
  BY DEF DriverTypes, PortTypes, GhostType, ReadTypes
<1>2. irq \in [pc : IrqPc, at : {Nested, Remote}, cbuf_end : Int, session_end : Int,
               count : Int]
  BY DEF DriverTypes, PortTypes, HandlerTypes
<1>3. CASE Arrives
  <2>1. \A r \in Readers : ~InCall(r)
    BY <1>3 DEF Arrives, Mannered, Undisturbed
  <2>2. UNCHANGED <<sessions, ends, got, reader>>
    BY <1>3 DEF Arrives, FirstHalf, SecondHalf, readerVars
  <2>3. irq'.pc \in {"idle", "lock"}
    BY <1>2, <1>3 DEF Arrives, FirstHalf, SecondHalf
  <2> QED BY <2>1, <2>2, <2>3 DEF CountInv, Counting, InCall
<1>4. CASE Handler
  <2>1. UNCHANGED <<got, reader>>
    BY <1>4 DEF Handler, readerVars
  <2>2. irq.pc # "idle" /\ \A r \in Readers : ~Counting(r) /\ ~Counting(r)'
    BY <1>4, <2>1 DEF Handler, IrqContinues, IrqLock, IrqNul, IrqCount, IrqDrop,
       IrqStore, IrqUnlock, CountInv, Counting
  <2>3. sessions.count = Len(ends) - Len(got)
    BY <2>2 DEF CountInv
  <2>4. /\ sessions'.count = Len(ends') - Len(got')
        /\ irq'.pc = "count" => irq'.count = sessions'.count
    <3>1. CASE IrqLock \/ IrqNul \/ IrqDrop \/ IrqUnlock
      <4>1. UNCHANGED <<sessions, ends>>
        BY <3>1 DEF IrqLock, IrqNul, IrqDrop, IrqUnlock
      <4>2. irq'.pc = "count" => irq'.count = sessions.count
        <5>1. CASE IrqLock
          BY <1>2, <5>1 DEF IrqLock
        <5>2. CASE IrqNul
          BY <1>2, <5>2 DEF IrqNul
        <5>3. CASE IrqDrop \/ IrqUnlock
          BY <5>3 DEF IrqDrop, IrqUnlock, IdleIrq
        <5> QED BY <3>1, <5>1, <5>2, <5>3
      <4> QED BY <2>1, <2>3, <4>1, <4>2
    <3>2. CASE IrqCount
      <4>1. sessions'.count = irq.count + 1 /\ irq.count = sessions.count
        BY <3>2 DEF IrqCount, CountInv, DriverTypes, PortTypes, TrackerTypes
      <4>2. Len(ends') = Len(ends) + 1
        <5>1. Len(accepted) \in Nat
          BY <1>1
        <5> QED BY <1>1, <3>2, <5>1 DEF IrqCount
      <4>3. irq'.pc = "unlock"
        BY <1>2, <3>2 DEF IrqCount
      <4> QED BY <1>1, <2>1, <2>3, <4>1, <4>2, <4>3
    <3>3. CASE IrqStore
      <4>1. sessions'.count = sessions.count /\ UNCHANGED ends
        BY <3>3 DEF IrqStore, DriverTypes, PortTypes, TrackerTypes
      <4>2. irq'.pc = "unlock"
        BY <1>2, <3>3 DEF IrqStore
      <4> QED BY <2>1, <2>3, <4>1, <4>2
    <3> QED BY <1>4, <3>1, <3>2, <3>3 DEF Handler, IrqContinues
  <2> QED BY <2>1, <2>2, <2>4 DEF CountInv, Counting
<1>5. CASE Copying
  <2>1. UNCHANGED <<sessions, ends, irq, got, reader>>
    BY <1>5 DEF Copying, TaskletStep, TaskletStart, TaskletLock, TaskletTest,
       TaskletTake, TaskletDec, TaskletAlloc, TaskletAllocFail, TaskletStore,
       TaskletUnlock, TaskletWake, readerVars
  <2> QED BY <2>1 DEF CountInv, Counting
<1>6. CASE WakeUp
  <2>1. UNCHANGED <<sessions, ends, irq, got>>
    BY <1>6 DEF WakeUp, TaskletWake
  <2>2. \A r \in Readers : /\ Counting(r)' <=> Counting(r)
                           /\ reader'[r].pc = "dec" => reader'[r] = reader[r]
    <3> SUFFICES ASSUME NEW r \in Readers
                 PROVE  /\ Counting(r)' <=> Counting(r)
                        /\ reader'[r].pc = "dec" => reader'[r] = reader[r]
      OBVIOUS
    <3>1. reader[r] \in Local
      BY DEF DriverTypes, ReadTypes, Fits
    <3>2. CASE reader[r].pc = "asleep"
      <4>1. reader'[r] = [reader[r] EXCEPT !.pc = "woken"]
        BY <1>6, <3>2 DEF WakeUp
      <4>2. reader'[r].pc = "woken"
        BY <3>1, <4>1 DEF Local
      <4> QED BY <3>2, <4>2 DEF Counting
    <3>3. CASE reader[r].pc # "asleep"
      <4>1. reader'[r] = reader[r]
        BY <1>6, <3>3 DEF WakeUp
      <4> QED BY <4>1 DEF Counting
    <3> QED BY <3>2, <3>3
  <2> QED BY <2>1, <2>2 DEF CountInv
<1> QED BY <1>3, <1>4, <1>5, <1>6

\* A reader that takes its turn finds no other one counting, nor a handler.
LEMMA CountTurn ==
  ASSUME Undisturbed, DriverTypes, CountInv, NEW r \in Readers, NEW pc, NEW next,
         Goes(r, pc, next), UNCHANGED <<irq, ends>>,
         next.pc \notin {"load", "dec"} => sessions'.count = Len(ends) - Len(got'),
         next.pc \in {"load", "dec"} => sessions'.count = Len(ends) - Len(got') + 1,
         next.pc = "dec" => next.count = sessions'.count
  PROVE  CountInv'
<1>1. irq.pc = "idle" /\ \A s \in Readers \ {r} : ~Counting(s)
  BY DEF Goes, MayRun, Undisturbed, Running, InCall, Counting
<1>2. reader'[r] = next /\ \A s \in Readers \ {r} : reader'[s] = reader[s]
  BY DEF Goes, DriverTypes, ReadTypes
<1>3. \A s \in Readers \ {r} : ~Counting(s)' /\ reader'[s].pc # "dec"
  BY <1>1, <1>2 DEF Counting
<1>4. Counting(r)' <=> next.pc \in {"load", "dec"}
  BY <1>2 DEF Counting
<1> QED BY <1>1, <1>2, <1>3, <1>4 DEF CountInv

\* Most steps leave count, and what it counts, alone.
LEMMA CountElsewhere ==
  ASSUME Undisturbed, DriverTypes, CountInv, NEW r \in Readers, NEW pc, NEW next,
         Goes(r, pc, next), UNCHANGED <<irq, ends, sessions>>, Len(got') = Len(got),
         pc \notin {"load", "dec"}, next.pc \notin {"load", "dec"}
  PROVE  CountInv'
<1>1. \A s \in Readers : ~Counting(s)
  BY DEF Goes, MayRun, Undisturbed, Running, InCall, Counting
<1>2. sessions'.count = Len(ends) - Len(got')
  BY <1>1 DEF CountInv
<1> QED BY <1>2, CountTurn

LEMMA CountReader ==
  ASSUME Undisturbed, DriverTypes, CountInv, NEW r \in Readers, ReaderStep(r)
  PROVE  CountInv'
<1> USE DEF portVars, store, ghosts
<1>1. reader[r] \in Local /\ Len(got) \in Nat /\ Len(ends) \in Nat /\ got \in Seq(ReadBytes)
  BY DEF DriverTypes, ReadTypes, Fits, PortTypes, GhostType
<1>2. Closed.pc = "closed" /\ Opened.pc = "open"
  BY DEF Closed, Opened
<1>3. CASE OpenTest(r) \/ OpenEnter(r) \/ CloseFile(r) \/ \E n \in NprocLimits : SetNproc(r, n)
  <2>1. PICK pc, next : /\ pc \in {"closed", "opening", "open"} /\ Goes(r, pc, next)
                        /\ next.pc \in {"closed", "opening", "open"}
    <3>1. [Closed EXCEPT !.pc = "opening"].pc = "opening"
      BY DEF Closed
    <3>2. CASE \E n \in NprocLimits : SetNproc(r, n)
      BY <3>2 DEF SetNproc, Goes
    <3> QED BY <1>2, <1>3, <3>1, <3>2 DEF OpenTest, OpenEnter, CloseFile
  <2>2. UNCHANGED <<irq, ends, sessions, got>>
    BY <1>3 DEF OpenTest, OpenEnter, CloseFile, SetNproc
  <2> QED BY <2>1, <2>2, CountElsewhere
<1>4. ASSUME NEW from, NEW pc, NEW next, Goes(r, from, next), next.pc = pc,
             UNCHANGED <<irq, ends, sessions>>, Len(got') = Len(got),
             from \notin {"load", "dec"}, pc \notin {"load", "dec"}
      PROVE  CountInv'
  BY <1>4, CountElsewhere
<1>5. ASSUME NEW n \in ReadSizes, ReadStart(r, n)
      PROVE  CountInv'
  <2> DEFINE next == [Opened EXCEPT !.want = n,
                        !.pc = IF sessions.count = 0 THEN "offset" ELSE "size"]
  <2>1. next.pc \in {"offset", "size"}
    BY DEF Opened, Closed
  <2>2. Goes(r, "open", next) /\ UNCHANGED <<irq, ends, sessions, got>>
    BY <1>5 DEF ReadStart
  <2> HIDE DEF next
  <2> QED BY <1>4, <2>1, <2>2
<1>6. CASE ReadOffset(r) \/ ReadWait(r) \/ Signal(r) \/ ReadSize(r)
  <2>1. UNCHANGED <<irq, ends, sessions, got>>
    BY <1>6 DEF ReadOffset, ReadWait, Signal, ReadSize
  <2>2. PICK from, next : /\ from \in {"offset", "wait", "woken", "asleep", "size"}
                          /\ Goes(r, from, next)
                          /\ next.pc \in {"wait", "size", "asleep", "head"}
    <3>1. CASE ReadOffset(r)
      <4> DEFINE next == [reader[r] EXCEPT
                   !.pc = IF read_offset = write_offset THEN "wait" ELSE "size"]
      <4>1. next.pc \in {"wait", "size"}
        BY <1>1 DEF Local
      <4>2. Goes(r, "offset", next)
        BY <3>1 DEF ReadOffset
      <4> HIDE DEF next
      <4> QED BY <4>1, <4>2
    <3>2. CASE ReadWait(r)
      <4> DEFINE next == [reader[r] EXCEPT
                   !.pc = IF sessions.count # 0 THEN "size" ELSE "asleep"]
      <4>1. next.pc \in {"size", "asleep"}
        BY <1>1 DEF Local
      <4>2. Goes(r, "wait", next) \/ Goes(r, "woken", next)
        BY <3>2 DEF ReadWait
      <4> HIDE DEF next
      <4> QED BY <4>1, <4>2
    <3>3. CASE Signal(r)
      <4> DEFINE next == [reader[r] EXCEPT !.pc = "size"]
      <4>1. next.pc = "size"
        BY <1>1 DEF Local
      <4>2. Goes(r, "asleep", next)
        BY <3>3 DEF Signal
      <4> HIDE DEF next
      <4> QED BY <4>1, <4>2
    <3>4. CASE ReadSize(r)
      <4> DEFINE next == [reader[r] EXCEPT !.pc = "head",
                                           !.total = sessions.sizes[sessions.head]]
      <4>1. next.pc = "head"
        BY <1>1 DEF Local
      <4>2. Goes(r, "size", next)
        BY <3>4 DEF ReadSize
      <4> HIDE DEF next
      <4> QED BY <4>1, <4>2
    <3> QED BY <1>6, <3>1, <3>2, <3>3, <3>4
  <2> QED BY <1>4, <2>1, <2>2
<1>7. CASE ReadHead(r)
  <2> DEFINE next == [reader[r] EXCEPT !.pc = "load", !.nth = Len(got) + 1]
  <2>1. Goes(r, "head", next) /\ UNCHANGED <<irq, ends>>
    BY <1>7 DEF ReadHead
  <2>2. next.pc = "load"
    BY <1>1 DEF Local
  <2>3. sessions'.count = sessions.count
    BY <1>7 DEF ReadHead, DriverTypes, PortTypes, TrackerTypes
  <2>4. Len(got') = Len(got) + 1
    <3>1. <<>> \in ReadBytes
      BY DEF ReadBytes
    <3> QED BY <1>1, <1>7, <3>1 DEF ReadHead
  <2>5. \A s \in Readers : ~Counting(s)
    BY <2>1 DEF Goes, MayRun, Undisturbed, Running, InCall, Counting
  <2>6. sessions'.count = Len(ends) - Len(got') + 1
    BY <1>1, <2>3, <2>4, <2>5 DEF CountInv
  <2> HIDE DEF next
  <2> QED BY <2>1, <2>2, <2>6, CountTurn
<1>8. CASE ReadLoad(r)
  <2> DEFINE next == [reader[r] EXCEPT !.pc = "dec", !.count = sessions.count]
  <2>1. Goes(r, "load", next) /\ UNCHANGED <<irq, ends, sessions, got>>
    BY <1>8 DEF ReadLoad
  <2>2. next.pc = "dec" /\ next.count = sessions.count
    BY <1>1 DEF Local
  <2>3. sessions'.count = Len(ends) - Len(got') + 1
    BY <2>1 DEF Goes, CountInv, Counting
  <2> HIDE DEF next
  <2> QED BY <2>1, <2>2, <2>3, CountTurn
<1>9. CASE ReadDec(r)
  <2> DEFINE next == GoTo([reader[r] EXCEPT !.count = 0, !.begin_offset = read_offset], First)
  <2>1. Goes(r, "dec", next) /\ UNCHANGED <<irq, ends, got>>
    BY <1>9 DEF ReadDec
  <2>2. next.pc = "copy"
    BY <1>1 DEF GoTo, Local
  <2>3. sessions.count = Len(ends) - Len(got) + 1 /\ reader[r].count = sessions.count
    BY <2>1 DEF Goes, CountInv, Counting
  <2>4. sessions'.count = reader[r].count - 1
    BY <1>9 DEF ReadDec, DriverTypes, PortTypes, TrackerTypes
  <2>5. sessions'.count = Len(ends) - Len(got')
    BY <1>1, <2>1, <2>3, <2>4
  <2> HIDE DEF next
  <2> QED BY <2>1, <2>2, <2>5, CountTurn
<1>10. CASE ReadCopy(r)
  <2> DEFINE next == [reader[r] EXCEPT
            !.pc = IF (read_offset + SizeToRead(r)) % PAGE_SIZE = 0 THEN "free" ELSE "next",
            !.begin_offset = @ + SizeToRead(r), !.size_read = @ + SizeToRead(r)]
  <2>1. next.pc \in {"free", "next"}
    BY <1>1 DEF Local
  <2>2. Goes(r, "copy", next) /\ UNCHANGED <<irq, ends, sessions>> /\ Len(got') = Len(got)
    BY <1>10, CopyTyped DEF ReadCopy
  <2> HIDE DEF next
  <2> QED BY <1>4, <2>1, <2>2
<1>11. CASE ReadFree(r) \/ ReadUncount(r)
  <2>1. UNCHANGED <<irq, ends, sessions, got>>
    BY <1>11 DEF ReadFree, ReadUncount
  <2>2. CASE ReadFree(r)
    <3> DEFINE next == [reader[r] EXCEPT !.pc = "uncount",
                          !.num_pages = num_pages, !.data_size = data_size]
    <3>1. next.pc = "uncount" /\ Goes(r, "free", next)
      BY <1>1, <2>2 DEF Local, ReadFree
    <3> HIDE DEF next
    <3> QED BY <1>4, <2>1, <3>1
  <2>3. CASE ReadUncount(r)
    <3> DEFINE next == [reader[r] EXCEPT !.pc = "next", !.num_pages = 0, !.data_size = 0]
    <3>1. next.pc = "next" /\ Goes(r, "uncount", next)
      BY <1>1, <2>3 DEF Local, ReadUncount
    <3> HIDE DEF next
    <3> QED BY <1>4, <2>1, <3>1
  <2> QED BY <1>11, <2>2, <2>3
<1>12. CASE ReadNext(r)
  <2> DEFINE next == GoTo(reader[r], reader[r].next)
  <2>1. next.pc = "copy"
    BY <1>1 DEF GoTo, Local
  <2>2. Goes(r, "next", next) /\ UNCHANGED <<irq, ends, sessions, got>>
    BY <1>12 DEF ReadNext
  <2> HIDE DEF next
  <2> QED BY <1>4, <2>1, <2>2
<1>13. CASE ReadFault(r) \/ ReadDone(r) \/ ReadListEnd(r)
  <2>1. PICK pc \in {"copy", "next"} : Goes(r, pc, Opened)
    BY <1>13 DEF ReadFault, ReadDone, ReadListEnd
  <2>2. UNCHANGED <<irq, ends, sessions, got>>
    BY <1>13 DEF ReadFault, ReadDone, ReadListEnd
  <2> QED BY <1>2, <1>4, <2>1, <2>2
<1> QED
  BY <1>3, <1>5, <1>6, <1>7, <1>8, <1>9, <1>10, <1>11, <1>12, <1>13 DEF ReaderStep

LEMMA CountAlways == Undisturbed => (Spec => []CountInv)
<1> SUFFICES ASSUME Undisturbed PROVE Spec => []CountInv
  OBVIOUS
<1>1. Init => CountInv
  BY CountInit
<1>2. DriverTypes /\ CountInv /\ [Next]_vars => CountInv'
  <2> SUFFICES ASSUME DriverTypes, CountInv, [Next]_vars PROVE CountInv'
    OBVIOUS
  <2>1. CASE UNCHANGED vars
    BY <2>1 DEF vars, portVars, ghosts, readerVars, CountInv, Counting
  <2> QED BY <2>1, CountPort, CountReader DEF Next
<1> QED BY <1>1, <1>2, TypesAlways, PTL DEF Spec

\* On one CPU, when bytes come between the calls, count is the number of sessions
\* that were ended and not taken, however many processes read (asgn.c:185, 303).
THEOREM CountsSessions == Undisturbed => (Spec => []SessionsCounted)
<1>1. CountInv => SessionsCounted
  BY DEF CountInv, SessionsCounted, Counting, InCall
<1> QED BY <1>1, CountAlways, PTL

-----------------------------------------------------------------------------
(* One process at a time has the device: on one CPU nobody moves between   *)
(* another's test of the limit and its increment.                          *)

OneUser == ~SMP /\ NprocLimits \subseteq {0, 1}
Alone == /\ max_nprocs <= 1
         /\ \A r, s \in Readers : reader[r].pc # "closed" /\ reader[s].pc # "closed" => r = s

\* A process that moves is the only one, and finds the port at rest.
LEMMA UserAlone ==
  ASSUME OneUser, DriverTypes, Alone, NEW r \in Readers, ReaderStep(r)
  PROVE  /\ MayRun(r) /\ max_nprocs' <= 1
         /\ \A s \in Readers \ {r} : reader[s].pc = "closed" /\ reader'[s] = reader[s]
<1> USE DEF portVars, store, fileVars
<1>1. \E pc, next : Goes(r, pc, next)
  BY DEF ReaderStep, OpenTest, OpenEnter, CloseFile, SetNproc, ReadStart, ReadOffset,
     ReadWait, Signal, ReadSize, ReadHead, ReadLoad, ReadDec, ReadCopy, ReadFault, ReadFree,
     ReadUncount, ReadNext, ReadDone, ReadListEnd
<1>2. MayRun(r) /\ \A s \in Readers \ {r} : reader'[s] = reader[s]
  BY <1>1 DEF Goes, DriverTypes, ReadTypes
<1>3. \A s \in Readers \ {r} : reader[s].pc = "closed"
  <2>1. CASE reader[r].pc # "closed"
    BY <2>1 DEF Alone
  <2>2. CASE reader[r].pc = "closed"
    <3>1. OpenTest(r)
      BY <2>2 DEF ReaderStep, OpenEnter, CloseFile, SetNproc, ReadStart, ReadOffset,
         ReadWait, Signal, ReadSize, ReadHead, ReadLoad, ReadDec, ReadCopy, ReadFault,
         ReadFree, ReadUncount, ReadNext, ReadDone, ReadListEnd, Goes
    <3>2. Cardinality(Users) < max_nprocs /\ max_nprocs <= 1 /\ max_nprocs \in Nat
      BY <3>1 DEF OpenTest, DriverTypes, SharedTypes, Alone
    <3>3. Users = {}
      BY <3>2, UsersFinite, FS_EmptySet, FS_CardinalityType
    <3>4. ASSUME NEW s \in Readers \ {r} PROVE reader[s].pc = "closed"
      BY <1>2, <3>3 DEF Users, Counted, MayRun, Running, InCall, OneUser
    <3> QED BY <3>4
  <2> QED BY <2>1, <2>2
<1>4. max_nprocs' <= 1
  <2>1. CASE \E n \in NprocLimits : SetNproc(r, n)
    BY <2>1 DEF SetNproc, OneUser
  <2>2. CASE ~\E n \in NprocLimits : SetNproc(r, n)
    <3>1. max_nprocs' = max_nprocs
      BY <2>2 DEF ReaderStep, OpenTest, OpenEnter, CloseFile, ReadStart, ReadOffset,
         ReadWait, Signal, ReadSize, ReadHead, ReadLoad, ReadDec, ReadCopy, ReadFault,
         ReadFree, ReadUncount, ReadNext, ReadDone, ReadListEnd
    <3> QED BY <3>1 DEF Alone
  <2> QED BY <2>1, <2>2
<1> QED BY <1>2, <1>3, <1>4

-----------------------------------------------------------------------------
(* One process at a time, and bytes between its calls: one actor moves at  *)
(* a time, whatever fails.                                                 *)

OneAtATime == Undisturbed /\ NprocLimits \subseteq {0, 1}

\* The handler moves first, then the tasklet it scheduled, then the process.
TaskletDue == tasklet.sched \/ tasklet.pc # "idle"
OneActor == /\ irq.pc # "idle" => ~TaskletDue
            /\ irq.pc # "idle" \/ TaskletDue => \A r \in Readers : ~InCall(r)
            /\ tasklet.pc # "idle" => ~tasklet.sched
TurnsInv == Alone /\ OneActor

LEMMA TurnsInit == Init => TurnsInv
  BY DEF Init, PortInit, IdleIrq, IdleTasklet, Closed, TurnsInv, Alone, OneActor,
         TaskletDue, InCall

\* The port moves while no call is under way.
LEMMA Quiet ==
  ASSUME OneAtATime, OneActor, Arrives \/ Handler \/ Copying \/ WakeUp
  PROVE  \A r \in Readers : reader[r].pc \in {"closed", "open", "asleep"}
<1>1. CASE Arrives
  BY <1>1 DEF Arrives, Mannered, OneAtATime, Undisturbed, InCall
<1>2. CASE Handler
  <2>1. irq.pc # "idle"
    BY <1>2 DEF Handler, IrqContinues, IrqLock, IrqNul, IrqCount, IrqDrop, IrqStore, IrqUnlock
  <2> QED BY <2>1 DEF OneActor, InCall
<1>3. CASE Copying \/ WakeUp
  <2>1. TaskletDue
    BY <1>3 DEF Copying, WakeUp, TaskletStep, TaskletStart, TaskletLock, TaskletTest,
       TaskletTake, TaskletDec, TaskletAlloc, TaskletAllocFail, TaskletStore, TaskletUnlock,
       TaskletWake, TaskletDue
  <2> QED BY <2>1 DEF OneActor, InCall
<1> QED BY <1>1, <1>2, <1>3

\* A process that moves is the only one, and finds the port at rest.
LEMMA MovesAlone ==
  ASSUME OneAtATime, DriverTypes, TurnsInv, NEW r \in Readers, ReaderStep(r)
  PROVE  /\ irq.pc = "idle" /\ ~TaskletDue
         /\ \A s \in Readers \ {r} : reader[s].pc = "closed" /\ reader'[s] = reader[s]
         /\ max_nprocs' <= 1
         /\ UNCHANGED <<assembly, cbuf, lock, irq, tasklet, ghosts, page, write_offset, copied>>
<1> USE DEF portVars, store, fileVars
<1>1. OneUser /\ Alone
  BY DEF OneAtATime, Undisturbed, OneUser, TurnsInv
<1>2. /\ MayRun(r) /\ max_nprocs' <= 1
      /\ \A s \in Readers \ {r} : reader[s].pc = "closed" /\ reader'[s] = reader[s]
  BY <1>1, UserAlone
<1>3. irq.pc = "idle" /\ ~TaskletDue
  BY <1>2 DEF MayRun, OneAtATime, Undisturbed, TaskletDue
<1>4. UNCHANGED <<assembly, cbuf, lock, irq, tasklet, ghosts, page, write_offset, copied>>
  BY DEF ReaderStep, OpenTest, OpenEnter, CloseFile, SetNproc, ReadStart, ReadOffset,
     ReadWait, Signal, ReadSize, ReadHead, ReadLoad, ReadDec, ReadCopy, ReadFault, ReadFree,
     ReadUncount, ReadNext, ReadDone, ReadListEnd
<1> QED BY <1>2, <1>3, <1>4

LEMMA TurnsPort ==
  ASSUME OneAtATime, DriverTypes, TurnsInv, Arrives \/ Handler \/ Copying \/ WakeUp
  PROVE  TurnsInv'
<1> USE DEF TurnsInv
<1>1. \A r \in Readers : reader[r].pc \in {"closed", "open", "asleep"}
  BY Quiet
<1>2. UNCHANGED max_nprocs
  BY DEF Arrives, Handler, Copying, WakeUp, readerVars, fileVars
<1>3. \A r \in Readers : /\ reader[r].pc = "closed" => reader'[r].pc = "closed"
                         /\ ~WakeUp => reader'[r] = reader[r]
  BY DEF Arrives, Handler, Copying, WakeUp, readerVars
<1>4. Alone'
  BY <1>2, <1>3 DEF Alone
<1>5. /\ irq.pc \in IrqPc /\ tasklet.pc \in TaskletPc /\ tasklet.sched \in BOOLEAN
      /\ irq \in [pc : IrqPc, at : {Nested, Remote}, cbuf_end : Int, session_end : Int,
                  count : Int]
      /\ tasklet \in [pc : TaskletPc, sched : BOOLEAN, byte : Byte,
                      begin_offset : 0..PAGE_SIZE - 1, curr : Frames \cup {NoPage},
                      count : Int]
  BY DEF DriverTypes, PortTypes, HandlerTypes, WorkerTypes
<1>6. CASE Arrives
  <2>1. ~TaskletDue /\ UNCHANGED <<tasklet, reader>>
    BY <1>6 DEF Arrives, Mannered, OneAtATime, Undisturbed, TaskletDue, FirstHalf,
       SecondHalf, readerVars
  <2>2. OneActor'
    BY <1>1, <2>1 DEF OneActor, TaskletDue, InCall
  <2> QED BY <1>4, <2>2
<1>7. CASE Handler
  <2>1. irq.pc # "idle" /\ UNCHANGED reader
    BY <1>7 DEF Handler, IrqContinues, IrqLock, IrqNul, IrqCount, IrqDrop, IrqStore,
       IrqUnlock, readerVars
  <2>2. \/ UNCHANGED tasklet
        \/ irq'.pc = "idle" /\ tasklet' = [tasklet EXCEPT !.sched = TRUE]
    BY <1>7 DEF Handler, IrqContinues, IrqLock, IrqNul, IrqCount, IrqDrop, IrqStore,
       IrqUnlock, IdleIrq
  <2>3. tasklet.pc = "idle" /\ ~tasklet.sched /\ tasklet'.pc = "idle"
    BY <1>5, <2>1, <2>2 DEF OneActor, TaskletDue
  <2>4. irq'.pc # "idle" => ~TaskletDue'
    BY <2>2, <2>3 DEF TaskletDue
  <2>5. OneActor'
    BY <1>1, <2>1, <2>3, <2>4 DEF OneActor, InCall
  <2> QED BY <1>4, <2>5
<1>8. CASE Copying
  <2>1. TaskletDue /\ UNCHANGED <<irq, reader>>
    BY <1>8 DEF Copying, TaskletStep, TaskletStart, TaskletLock, TaskletTest,
       TaskletTake, TaskletDec, TaskletAlloc, TaskletAllocFail, TaskletStore, TaskletUnlock,
       TaskletWake, TaskletDue, readerVars
  <2>2. irq.pc = "idle"
    BY <2>1 DEF OneActor
  <2>3. tasklet'.pc # "idle" => ~tasklet'.sched
    <3>1. CASE TaskletStart
      BY <1>5, <3>1 DEF TaskletStart
    <3>2. CASE ~TaskletStart
      <4>1. tasklet.pc # "idle" /\ ~tasklet.sched
        BY <1>8, <3>2 DEF Copying, TaskletStep, TaskletLock, TaskletTest,
           TaskletTake, TaskletDec, TaskletAlloc, TaskletAllocFail, TaskletStore,
           TaskletUnlock, TaskletWake, OneActor
      <4>2. tasklet'.sched = tasklet.sched
        <5>1. CASE TaskletLock \/ TaskletTest \/ TaskletTake \/ TaskletUnlock
          BY <1>5, <5>1 DEF TaskletLock, TaskletTest, TaskletTake, TaskletUnlock
        <5>2. CASE TaskletDec \/ \E f \in Frames : TaskletAlloc(f)
          BY <1>5, <5>2 DEF TaskletDec, TaskletAlloc
        <5>3. CASE TaskletAllocFail \/ TaskletStore \/ TaskletWake
          BY <1>5, <5>3 DEF TaskletAllocFail, TaskletStore, TaskletWake, IdleTasklet
        <5> QED BY <1>8, <3>2, <5>1, <5>2, <5>3 DEF Copying, TaskletStep
      <4> QED BY <4>1, <4>2
    <3> QED BY <3>1, <3>2
  <2>4. OneActor'
    BY <1>1, <2>1, <2>2, <2>3 DEF OneActor, InCall
  <2> QED BY <1>4, <2>4
<1>9. CASE WakeUp
  <2>1. /\ tasklet.pc = "wake" /\ UNCHANGED irq /\ irq.pc = "idle"
        /\ tasklet' = IdleTasklet(tasklet.sched) /\ ~tasklet.sched
    BY <1>9 DEF WakeUp, TaskletWake, OneActor, TaskletDue
  <2>2. ~TaskletDue'
    BY <2>1 DEF IdleTasklet, TaskletDue
  <2>3. OneActor'
    BY <2>1, <2>2 DEF OneActor, TaskletDue
  <2> QED BY <1>4, <2>3
<1> QED BY <1>6, <1>7, <1>8, <1>9

LEMMA TurnsReader ==
  ASSUME OneAtATime, DriverTypes, TurnsInv, NEW r \in Readers, ReaderStep(r)
  PROVE  TurnsInv'
<1>1. /\ irq.pc = "idle" /\ ~TaskletDue /\ UNCHANGED <<irq, tasklet>>
      /\ \A s \in Readers \ {r} : reader'[s].pc = "closed"
      /\ max_nprocs' <= 1
  BY MovesAlone
<1>2. Alone'
  BY <1>1 DEF Alone
<1>3. OneActor'
  BY <1>1 DEF OneActor, TaskletDue
<1> QED BY <1>2, <1>3 DEF TurnsInv

-----------------------------------------------------------------------------
(* The counters of pages and data, with one process at a time, however     *)
(* many pages there are and whatever fails.                                *)

InList(f) == \E i \in 1..Len(mem_list) : mem_list[i] = f
Distinct(s) == \A i, j \in 1..Len(s) : s[i] = s[j] => i = j
Uncounting == IF \E r \in Readers : reader[r].pc = "uncount" THEN 1 ELSE 0

\* Where a read's pointers point, and what it has loaded.
Points(local) ==
  /\ local.pc \in Copies /\ local.next # NoPage => InList(local.next) /\ local.next # local.curr
  /\ local.pc = "copy" /\ local.curr # NoPage => InList(local.curr)
  /\ local.pc = "free" => InList(local.curr)
  /\ local.pc = "uncount" => local.num_pages = num_pages /\ local.data_size = data_size

PagesFilled(q) == Len(copied) = q * PAGE_SIZE + write_offset
CountersTrue == /\ num_pages = Len(mem_list) + Uncounting
                /\ data_size = Len(copied) - (Freed - Uncounting) * PAGE_SIZE
PagesInv ==
  /\ Distinct(mem_list)
  /\ \E q \in Nat : PagesFilled(q)
  /\ tasklet.pc = "alloc" => write_offset = 0
  /\ CountersTrue
  /\ \A r \in Readers : Points(reader[r])

LEMMA Divided ==
  ASSUME NEW n \in Nat \ {0}, NEW q \in Nat, NEW r \in 0..n - 1
  PROVE  (q * n + r) \div n = q
  OBVIOUS

LEMMA BegunIs ==
  ASSUME write_offset \in 0..PAGE_SIZE - 1, NEW q \in Nat, PagesFilled(q)
  PROVE  Begun = q + (IF write_offset # 0 \/ tasklet.pc = "store" THEN 1 ELSE 0)
<1> DEFINE d == (Len(copied) + PAGE_SIZE - 1) \div PAGE_SIZE
<1>1. CASE write_offset = 0
  <2>1. Len(copied) + PAGE_SIZE - 1 = q * PAGE_SIZE + (PAGE_SIZE - 1)
    BY <1>1, SizeAssumption DEF PagesFilled
  <2>2. PAGE_SIZE - 1 \in 0..PAGE_SIZE - 1
    BY SizeAssumption
  <2>3. d = q
    BY <2>1, <2>2, Divided, SizeAssumption
  <2> HIDE DEF d
  <2>4. Begun = d + (IF tasklet.pc = "store" THEN 1 ELSE 0)
    BY <1>1 DEF Begun, d
  <2> QED BY <1>1, <2>3, <2>4
<1>2. CASE write_offset # 0
  <2>1. /\ Len(copied) + PAGE_SIZE - 1 = (q + 1) * PAGE_SIZE + (write_offset - 1)
        /\ q + 1 \in Nat
    BY <1>2, SizeAssumption DEF PagesFilled
  <2>2. write_offset - 1 \in 0..PAGE_SIZE - 1
    BY <1>2, SizeAssumption
  <2>3. d = q + 1
    BY <2>1, <2>2, Divided, SizeAssumption
  <2> HIDE DEF d
  <2>4. Begun = d + 0
    BY <1>2 DEF Begun, d
  <2> QED BY <1>2, <2>3, <2>4
<1> QED BY <1>1, <1>2

\* What the page after a page is.
LEMMA AfterIs ==
  ASSUME mem_list \in Seq(Frames), Distinct(mem_list), NEW f, After(f) # NoPage
  PROVE  InList(After(f)) /\ After(f) # f
<1>1. \E i \in 1..Len(mem_list) - 1 : mem_list[i] = f
  BY DEF After
<1> DEFINE i == CHOOSE i \in 1..Len(mem_list) - 1 : mem_list[i] = f
<1>2. i \in 1..Len(mem_list) - 1 /\ mem_list[i] = f
  BY <1>1
<1>3. After(f) = mem_list[i + 1]
  BY <1>1 DEF After
<1> HIDE DEF i
<1>4. i \in 1..Len(mem_list) /\ i + 1 \in 1..Len(mem_list) /\ i # i + 1
  BY <1>2
<1> QED BY <1>2, <1>3, <1>4 DEF InList, Distinct

LEMMA PointsTo ==
  ASSUME mem_list \in Seq(Frames), Distinct(mem_list), NEW local \in Local, NEW f,
         f # NoPage => InList(f)
  PROVE  Points(GoTo(local, f))
<1> DEFINE after == After(f)
           next == GoTo(local, f)
<1>1. after # NoPage => InList(after) /\ after # f
  BY AfterIs
<1>2. next = [local EXCEPT !.pc = "copy", !.curr = f, !.next = after]
  BY DEF GoTo
<1> HIDE DEF after, next
<1>3. next.pc = "copy" /\ next.curr = f /\ next.next = after
  BY <1>2 DEF Local
<1>4. Points(next)
  BY <1>1, <1>3 DEF Points
<1> QED BY <1>4 DEF next

\* A page that is on the list once is unlinked: the others stay.
LEMMA Unlinked ==
  ASSUME NEW S, NEW s \in Seq(S), Distinct(s), NEW m \in 1..Len(s),
         NEW t, t = RemoveFirst(s, s[m])
  PROVE  /\ t \in Seq(S) /\ Len(t) = Len(s) - 1 /\ Distinct(t)
         /\ \A i \in 1..Len(s) : i # m => \E j \in 1..Len(t) : t[j] = s[i]
<1> DEFINE I == {i \in 1..Len(s) : s[i] = s[m]}
           M == Min(I)
<1>1. I = {m}
  BY DEF Distinct
<1>2. t = RemoveAt(s, M)
  BY DEF RemoveFirst, SelectInSeq
<1> HIDE DEF I
<1>3. M = m
  <2>1. \E x \in I : \A y \in I : x <= y
    BY <1>1
  <2>2. M \in I
    BY <2>1, LeastOne
  <2> QED BY <1>1, <2>2
<1> HIDE DEF M
<1>4. t = SubSeq(s, 1, m - 1) \o SubSeq(s, m + 1, Len(s))
  BY <1>2, <1>3 DEF RemoveAt
<1> DEFINE a == SubSeq(s, 1, m - 1)
           b == SubSeq(s, m + 1, Len(s))
<1>a. a \in Seq(S) /\ Len(a) = m - 1 /\ \A i \in 1..m - 1 : a[i] = s[i]
  OBVIOUS
<1>b. b \in Seq(S) /\ Len(b) = Len(s) - m /\ \A i \in 1..Len(s) - m : b[i] = s[m + i]
  OBVIOUS
<1> HIDE DEF a, b
<1>0. t = a \o b
  BY <1>4 DEF a, b
<1>5. t \in Seq(S) /\ Len(t) = Len(s) - 1
  <2>1. a \in Seq(S) /\ b \in Seq(S)
    BY <1>a, <1>b
  <2>2. a \o b \in Seq(S) /\ Len(a \o b) = Len(a) + Len(b)
    BY <2>1
  <2>3. Len(s) \in Nat /\ m \in 1..Len(s)
    OBVIOUS
  <2> QED BY <1>0, <1>a, <1>b, <2>2, <2>3
<1>6. ASSUME NEW i \in 1..Len(t) PROVE t[i] = IF i < m THEN s[i] ELSE s[i + 1]
  <2>2. CASE i < m
    BY <1>5, <1>a, <1>b, <1>0, <2>2
  <2>3. CASE ~(i < m)
    <3>1. t[i] = b[i - (m - 1)]
      BY <1>5, <1>a, <1>b, <1>0, <2>3
    <3>2. i - (m - 1) \in 1..Len(s) - m /\ m + (i - (m - 1)) = i + 1
      BY <1>5, <2>3
    <3> QED BY <1>b, <2>3, <3>1, <3>2
  <2> QED BY <2>2, <2>3
<1>7. Distinct(t)
  <2> SUFFICES ASSUME NEW i \in 1..Len(t), NEW j \in 1..Len(t), t[i] = t[j] PROVE i = j
    BY DEF Distinct
  <2> DEFINE at(k) == IF k < m THEN k ELSE k + 1
  <2>1. at(i) \in 1..Len(s) /\ at(j) \in 1..Len(s)
    BY <1>5
  <2>2. s[at(i)] = s[at(j)]
    BY <1>6
  <2>3. at(i) = at(j)
    BY <2>1, <2>2 DEF Distinct
  <2> QED BY <2>3
<1>8. ASSUME NEW i \in 1..Len(s), i # m PROVE \E j \in 1..Len(t) : t[j] = s[i]
  <2> DEFINE j == IF i < m THEN i ELSE i - 1
  <2>1. j \in 1..Len(t)
    BY <1>5, <1>8
  <2>2. t[j] = s[i]
    BY <1>6, <1>8, <2>1
  <2> HIDE DEF j
  <2> QED BY <2>1, <2>2
<1> QED BY <1>5, <1>7, <1>8

-----------------------------------------------------------------------------

LEMMA PagesInit == Init => PagesInv
<1> SUFFICES ASSUME Init PROVE PagesInv
  OBVIOUS
<1>1. /\ mem_list = <<>> /\ copied = <<>> /\ write_offset = 0 /\ num_pages = 0
      /\ data_size = 0 /\ tasklet.pc = "idle" /\ \A r \in Readers : reader[r].pc = "closed"
  BY DEF Init, PortInit, IdleTasklet, Closed
<1>2. Distinct(mem_list) /\ \A r \in Readers : Points(reader[r])
  BY <1>1 DEF Distinct, Points, Copies
<1>3. 0 \in Nat /\ PagesFilled(0)
  BY <1>1, SizeAssumption DEF PagesFilled
<1>4. Begun = 0
  BY <1>1, <1>3, BegunIs, SizeAssumption
<1>5. Freed = 0 /\ Uncounting = 0
  <2>1. Len(mem_list) = 0
    BY <1>1
  <2>2. Freed = 0
    BY <1>4, <2>1 DEF Freed
  <2>3. ~\E r \in Readers : reader[r].pc = "uncount"
    BY <1>1
  <2> QED BY <2>2, <2>3 DEF Uncounting
<1>6. CountersTrue
  <2>1. Len(mem_list) = 0 /\ Len(copied) = 0
    BY <1>1
  <2> QED BY <1>1, <1>5, <2>1, SizeAssumption DEF CountersTrue
<1>7. \E q \in Nat : PagesFilled(q)
  BY <1>3
<1>8. tasklet.pc # "alloc"
  BY <1>1
<1> QED BY <1>2, <1>6, <1>7, <1>8, Zenon DEF PagesInv

LEMMA BegunType ==
  ASSUME DriverTypes
  PROVE  Begun \in Int /\ Freed \in Int /\ Uncounting \in {0, 1} /\ Len(mem_list) \in Nat
<1>1. Len(copied) \in Nat /\ Len(mem_list) \in Nat
  BY PortFields
<1> DEFINE d == (Len(copied) + PAGE_SIZE - 1) \div PAGE_SIZE
<1>2. d \in Int
  BY <1>1, SizeAssumption
<1> HIDE DEF d
<1>3. Begun = d + (IF tasklet.pc = "store" /\ write_offset = 0 THEN 1 ELSE 0)
  BY DEF Begun, d
<1>4. Begun \in Int
  BY <1>2, <1>3
<1> QED BY <1>1, <1>4 DEF Freed, Uncounting

\* While no call is under way nobody points anywhere.
LEMMA PagesQuiet ==
  ASSUME OneAtATime, DriverTypes, TurnsInv, Arrives \/ Handler \/ Copying \/ WakeUp
  PROVE  /\ Uncounting = 0 /\ Uncounting' = 0
         /\ \A r \in Readers : Points(reader[r])'
<1>1. \A r \in Readers : reader[r].pc \in {"closed", "open", "asleep"}
  BY Quiet DEF TurnsInv
<1>2. \A r \in Readers : reader'[r].pc \in {"closed", "open", "asleep", "woken"}
  <2>1. CASE WakeUp
    <3>1. \A r \in Readers : reader[r] \in Local
      BY DEF DriverTypes, ReadTypes, Fits
    <3>2. ASSUME NEW r \in Readers
          PROVE  reader'[r].pc \in {"closed", "open", "asleep", "woken"}
      <4>1. CASE reader[r].pc = "asleep"
        <5>1. reader'[r] = [reader[r] EXCEPT !.pc = "woken"]
          BY <2>1, <4>1 DEF WakeUp
        <5>2. reader'[r].pc = "woken"
          BY <3>1, <5>1 DEF Local
        <5> QED BY <5>2
      <4>2. CASE reader[r].pc # "asleep"
        BY <1>1, <2>1, <4>2 DEF WakeUp
      <4> QED BY <4>1, <4>2
    <3> QED BY <3>2
  <2>2. CASE ~WakeUp
    <3>1. reader' = reader
      BY <2>2 DEF Arrives, Handler, Copying, readerVars
    <3> QED BY <1>1, <3>1
  <2> QED BY <2>1, <2>2
<1> QED BY <1>1, <1>2 DEF Uncounting, Points, Copies

\* What keeps the counters true: as many pages more as are counted, and as many bytes.
LEMMA CountersKept ==
  ASSUME OneAtATime, DriverTypes, DriverTypes', TurnsInv, PagesInv,
         Arrives \/ Handler \/ Copying \/ WakeUp,
         Freed' = Freed, num_pages' - num_pages = Len(mem_list') - Len(mem_list),
         data_size' - data_size = Len(copied') - Len(copied)
  PROVE  CountersTrue'
<1>1. /\ Len(mem_list) \in Nat /\ Len(mem_list') \in Nat /\ Freed \in Int
      /\ Len(copied) \in Nat /\ Len(copied') \in Nat
      /\ num_pages \in Int /\ num_pages' \in Int /\ data_size \in Int /\ data_size' \in Int
  <2>1. Len(mem_list) \in Nat /\ Freed \in Int /\ Len(copied) \in Nat
    BY BegunType, PortFields
  <2>2. num_pages \in Int /\ num_pages' \in Int /\ data_size \in Int /\ data_size' \in Int
    BY DEF DriverTypes, PortTypes, PagesTypes
  <2>3. mem_list' \in Seq(Frames) /\ copied' \in Seq(Byte)
    BY DEF DriverTypes, PortTypes, PagesTypes, GhostType
  <2> QED BY <2>1, <2>2, <2>3
<1>2. Uncounting = 0 /\ Uncounting' = 0
  BY PagesQuiet
<1>3. num_pages = Len(mem_list) + 0 /\ data_size = Len(copied) - (Freed - 0) * PAGE_SIZE
  BY <1>2 DEF PagesInv, CountersTrue
<1> DEFINE n == (Freed - 0) * PAGE_SIZE
<1>4. n \in Int
  BY <1>1, SizeAssumption
<1> HIDE DEF n
<1>5. data_size = Len(copied) - n
  BY <1>3 DEF n
<1>6. num_pages' = Len(mem_list') + 0 /\ data_size' = Len(copied') - n
  <2>1. ASSUME NEW a \in Int, NEW b \in Int, NEW c \in Int, NEW d \in Int, NEW e \in Int,
               a - b = c - d, b = d - e
        PROVE  a = c - e
    BY <2>1
  <2> HIDE DEF n
  <2>2. num_pages' = Len(mem_list') - 0
    BY <1>1, <1>3, <2>1, SMTT(30)
  <2>3. data_size' = Len(copied') - n
    BY <1>1, <1>4, <1>5, <2>1, SMTT(30)
  <2> QED BY <1>1, <2>2, <2>3
<1>7. (Freed' - Uncounting') * PAGE_SIZE = n /\ Len(mem_list') + Uncounting' = Len(mem_list') + 0
  BY <1>2 DEF n
<1>8. /\ num_pages' = Len(mem_list') + Uncounting'
      /\ data_size' = Len(copied') - (Freed' - Uncounting') * PAGE_SIZE
  BY <1>6, <1>7, Zenon
<1> QED BY <1>8 DEF CountersTrue

\* A step that leaves the pages alone.
LEMMA PagesElsewhere ==
  ASSUME OneAtATime, DriverTypes, DriverTypes', TurnsInv, PagesInv,
         Arrives \/ Handler \/ Copying \/ WakeUp,
         UNCHANGED <<mem_list, num_pages, data_size, write_offset, copied>>,
         write_offset = 0 => (tasklet'.pc = "store" <=> tasklet.pc = "store"),
         tasklet'.pc = "alloc" => write_offset = 0
  PROVE  PagesInv' /\ Freed' = Freed
<1>1. Begun' = Begun
  BY DEF Begun
<1>2. Freed' = Freed
  BY <1>1 DEF Freed
<1>3. /\ num_pages' - num_pages = Len(mem_list') - Len(mem_list)
      /\ data_size' - data_size = Len(copied') - Len(copied)
  <2>1. /\ num_pages \in Int /\ data_size \in Int
        /\ Len(mem_list) \in Nat /\ Len(copied) \in Nat
    BY PortFields, BegunType DEF DriverTypes, PortTypes, PagesTypes
  <2> QED BY <2>1
<1>4. CountersTrue'
  BY <1>2, <1>3, CountersKept
<1>5. Distinct(mem_list)' /\ \E q \in Nat : PagesFilled(q)'
  BY DEF PagesInv, PagesFilled, Distinct
<1>6. \A r \in Readers : Points(reader[r])'
  BY PagesQuiet
<1> QED BY <1>2, <1>4, <1>5, <1>6 DEF PagesInv

\* The tasklet begins a page.
LEMMA PagesAlloc ==
  ASSUME OneAtATime, DriverTypes, DriverTypes', TurnsInv, PagesInv, Copying,
         NEW f \in Frames, TaskletAlloc(f)
  PROVE  PagesInv' /\ Freed' = Freed
<1>1. /\ tasklet.pc = "alloc" /\ write_offset = 0
      /\ mem_list' = Append(mem_list, f) /\ num_pages' = num_pages + 1
      /\ \A i \in 1..Len(mem_list) : mem_list[i] # f
      /\ UNCHANGED <<data_size, write_offset, copied>>
  BY PortFields, SMTT(30) DEF TaskletAlloc, PagesInv
<1>2. tasklet'.pc = "store"
  BY PortFields DEF TaskletAlloc
<1>3. /\ mem_list \in Seq(Frames) /\ num_pages \in Int /\ data_size \in Int
      /\ Len(mem_list) \in Nat /\ Len(copied) \in Nat
  BY PortFields, BegunType DEF DriverTypes, PortTypes, PagesTypes
<1>4. Len(mem_list') = Len(mem_list) + 1
  BY <1>1, <1>3
<1>5. Begun \in Int /\ Begun' = Begun + 1
  <2> DEFINE d == (Len(copied) + PAGE_SIZE - 1) \div PAGE_SIZE
  <2>1. Begun = d + 0
    BY <1>1 DEF Begun
  <2>2. Begun' = d + 1
    BY <1>1, <1>2 DEF Begun
  <2>3. d \in Int
    BY <1>3, SizeAssumption
  <2> HIDE DEF d
  <2> QED BY <2>1, <2>2, <2>3
<1>6. Freed' = Freed
  BY <1>3, <1>4, <1>5 DEF Freed
<1>7. CountersTrue'
  BY <1>1, <1>3, <1>4, <1>6, CountersKept
<1>8. Distinct(mem_list')
  BY <1>1, <1>3, <1>4 DEF Distinct, PagesInv
<1>9. Distinct(mem_list)' /\ \E q \in Nat : PagesFilled(q)'
  BY <1>1, <1>8 DEF PagesInv, PagesFilled, Distinct
<1>10. \A r \in Readers : Points(reader[r])'
  BY PagesQuiet
<1> QED BY <1>2, <1>6, <1>7, <1>9, <1>10 DEF PagesInv

\* The tasklet stores a byte: a page is begun, or goes on.
LEMMA PagesStore ==
  ASSUME OneAtATime, DriverTypes, DriverTypes', TurnsInv, PagesInv, Copying, TaskletStore
  PROVE  PagesInv' /\ Freed' = Freed
<1>1. /\ tasklet.pc = "store" /\ write_offset' = (write_offset + 1) % PAGE_SIZE
      /\ copied' = Append(copied, tasklet.byte) /\ data_size' = data_size + 1
      /\ UNCHANGED <<mem_list, num_pages>>
  BY DEF TaskletStore
<1>2. tasklet'.pc = "test"
  BY DEF TaskletStore, IdleTasklet
<1>3. /\ num_pages \in Int /\ data_size \in Int /\ Len(mem_list) \in Nat
      /\ Len(copied) \in Nat /\ Len(copied') = Len(copied) + 1
      /\ write_offset \in 0..PAGE_SIZE - 1
  BY <1>1, PortFields, BegunType DEF DriverTypes, PortTypes, PagesTypes
<1>4. PICK q \in Nat : PagesFilled(q)
  BY DEF PagesInv
<1>5. Begun = q + 1
  BY <1>1, <1>3, <1>4, BegunIs
<1>6. Begun' = q + 1 /\ \E p \in Nat : PagesFilled(p)'
  <2> DEFINE d == (Len(copied') + PAGE_SIZE - 1) \div PAGE_SIZE
  <2>1. Begun' = d + 0
    BY <1>2 DEF Begun
  <2>2. d \in Int
    BY <1>3, SizeAssumption
  <2>3. Len(copied') = q * PAGE_SIZE + (write_offset + 1)
    BY <1>3, <1>4, SizeAssumption DEF PagesFilled
  <2>4. Len(copied') + PAGE_SIZE - 1 = (q + 1) * PAGE_SIZE + write_offset
    BY <1>3, <2>3, SizeAssumption
  <2>5. d = q + 1
    <3>1. ((q + 1) * PAGE_SIZE + write_offset) \div PAGE_SIZE = q + 1
      BY <1>3, Divided, SizeAssumption
    <3> QED BY <2>4, <3>1
  <2> HIDE DEF d
  <2>6. Begun' = q + 1
    BY <2>1, <2>5
  <2>7. CASE write_offset + 1 < PAGE_SIZE
    <3>1. write_offset' = write_offset + 1
      <4>1. write_offset + 1 \in 0..2 * PAGE_SIZE - 1
        BY <1>3, SizeAssumption
      <4> QED BY <1>1, <2>7, <4>1, ModOneTurn, SizeAssumption DEF OneTurn
    <3>2. PagesFilled(q)'
      BY <2>3, <3>1 DEF PagesFilled
    <3> QED BY <2>6, <3>2
  <2>8. CASE ~(write_offset + 1 < PAGE_SIZE)
    <3>1. write_offset + 1 = PAGE_SIZE /\ write_offset + 1 \in 0..2 * PAGE_SIZE - 1
      BY <1>3, <2>8, SizeAssumption
    <3>2. write_offset' = 0
      BY <1>1, <3>1, ModOneTurn, SizeAssumption DEF OneTurn
    <3>3. Len(copied') = (q + 1) * PAGE_SIZE + 0
      BY <2>3, <3>1, SizeAssumption
    <3>4. PagesFilled(q + 1)'
      BY <3>2, <3>3 DEF PagesFilled
    <3> QED BY <2>6, <3>4
  <2> QED BY <2>7, <2>8
<1>7. Freed' = Freed
  BY <1>1, <1>5, <1>6 DEF Freed
<1>8. CountersTrue'
  BY <1>1, <1>3, <1>7, CountersKept
<1>9. Distinct(mem_list)'
  BY <1>1 DEF PagesInv, Distinct
<1>10. \A r \in Readers : Points(reader[r])'
  BY PagesQuiet
<1> QED BY <1>2, <1>6, <1>7, <1>8, <1>9, <1>10 DEF PagesInv

LEMMA PagesPort ==
  ASSUME OneAtATime, DriverTypes, DriverTypes', TurnsInv, PagesInv,
         Arrives \/ Handler \/ Copying \/ WakeUp
  PROVE  PagesInv' /\ Freed' = Freed
<1> USE DEF store, ghosts
<1>1. CASE Arrives \/ Handler
  <2>1. UNCHANGED <<mem_list, num_pages, data_size, write_offset, copied>>
    BY <1>1 DEF Arrives, FirstHalf, SecondHalf, Handler, IrqContinues, IrqLock, IrqNul,
       IrqCount, IrqDrop, IrqStore, IrqUnlock
  <2>2. tasklet' = tasklet \/ tasklet' = [tasklet EXCEPT !.sched = TRUE]
    BY <1>1 DEF Arrives, FirstHalf, SecondHalf, Handler, IrqContinues, IrqLock, IrqNul,
       IrqCount, IrqDrop, IrqStore, IrqUnlock
  <2>3. tasklet'.pc = tasklet.pc
    BY <2>2, PortFields
  <2> QED BY <1>1, <2>1, <2>3, PagesElsewhere DEF PagesInv
<1>2. CASE Copying \/ WakeUp
  <2>1. ASSUME UNCHANGED <<mem_list, num_pages, data_size, write_offset, copied>>,
               tasklet.pc # "store", tasklet'.pc \notin {"store", "alloc"}
        PROVE  PagesInv' /\ Freed' = Freed
    BY <1>2, <2>1, PagesElsewhere
  <2>2. CASE TaskletStart \/ TaskletLock \/ TaskletTest \/ TaskletTake
    <3>1. tasklet.pc # "store" /\ tasklet'.pc \notin {"store", "alloc"}
      <4>1. CASE TaskletStart
        BY <4>1, PortFields DEF TaskletStart
      <4>2. CASE TaskletLock
        BY <4>2, PortFields DEF TaskletLock
      <4>3. CASE TaskletTest
        BY <4>3, PortFields DEF TaskletTest
      <4>4. CASE TaskletTake
        <5>1. \E byte : tasklet' = [tasklet EXCEPT !.pc = "dec", !.byte = byte]
          BY <4>4 DEF TaskletTake
        <5> QED BY <4>4, <5>1, PortFields DEF TaskletTake
      <4> QED BY <2>2, <4>1, <4>2, <4>3, <4>4
    <3> QED BY <2>1, <2>2, <3>1 DEF TaskletStart, TaskletLock, TaskletTest, TaskletTake
  <2>3. CASE TaskletAllocFail \/ TaskletUnlock \/ TaskletWake
    <3>1. tasklet.pc # "store" /\ tasklet'.pc \notin {"store", "alloc"}
      <4>1. CASE TaskletUnlock
        BY <4>1, PortFields DEF TaskletUnlock
      <4>2. CASE TaskletAllocFail \/ TaskletWake
        BY <4>2 DEF TaskletAllocFail, TaskletWake, IdleTasklet
      <4> QED BY <2>3, <4>1, <4>2
    <3> QED BY <2>1, <2>3, <3>1 DEF TaskletAllocFail, TaskletUnlock, TaskletWake
  <2>4. CASE TaskletDec
    <3>1. /\ tasklet.pc = "dec"
          /\ UNCHANGED <<mem_list, num_pages, data_size, write_offset, copied>>
      BY <2>4 DEF TaskletDec
    <3>2. tasklet'.pc = IF write_offset = 0 THEN "alloc" ELSE "store"
      BY <2>4, PortFields DEF TaskletDec
    <3> QED BY <1>2, <3>1, <3>2, PagesElsewhere
  <2>5. CASE WakeUp
    BY <2>3, <2>5 DEF WakeUp
  <2>6. CASE Copying
    BY <2>2, <2>3, <2>4, <2>6, PagesAlloc, PagesStore DEF Copying, TaskletStep
  <2> QED BY <1>2, <2>5, <2>6
<1> QED BY <1>1, <1>2

\* A step of a reader that leaves the pages and their counters alone.
LEMMA PagesTurn ==
  ASSUME OneAtATime, DriverTypes, TurnsInv, PagesInv, NEW r \in Readers, ReaderStep(r),
         NEW pc, NEW next, Goes(r, pc, next), pc # "uncount", next.pc # "uncount",
         UNCHANGED <<mem_list, num_pages, data_size>>, Points(next)
  PROVE  PagesInv'
<1>1. /\ \A s \in Readers \ {r} : reader[s].pc = "closed" /\ reader'[s].pc = "closed"
      /\ UNCHANGED <<tasklet, write_offset, copied>>
  BY MovesAlone
<1>2. reader[r].pc = pc /\ reader'[r] = next
  BY DEF Goes, DriverTypes, ReadTypes
<1>3. Begun' = Begun /\ Uncounting = 0 /\ Uncounting' = 0
  BY <1>1, <1>2 DEF Begun, Uncounting
<1>4. CountersTrue'
  BY <1>1, <1>3 DEF PagesInv, CountersTrue, Freed
<1>5. Distinct(mem_list)' /\ \E q \in Nat : PagesFilled(q)'
  BY <1>1 DEF PagesInv, PagesFilled, Distinct
<1>6. \A s \in Readers : Points(reader[s])'
  <2>1. Points(reader[r])'
    BY <1>2 DEF Points, InList
  <2>2. ASSUME NEW s \in Readers \ {r} PROVE Points(reader[s])'
    BY <1>1 DEF Points, Copies
  <2> QED BY <2>1, <2>2
<1>7. tasklet'.pc = "alloc" => write_offset' = 0
  BY <1>1 DEF PagesInv
<1> QED BY <1>4, <1>5, <1>6, <1>7 DEF PagesInv

\* The steps before and after the walk along the pages.
LEMMA PagesAway ==
  ASSUME OneAtATime, DriverTypes, TurnsInv, PagesInv, NEW r \in Readers, ReaderStep(r),
         \/ OpenTest(r) \/ OpenEnter(r) \/ CloseFile(r) \/ \E n \in NprocLimits : SetNproc(r, n)
         \/ \E n \in ReadSizes : ReadStart(r, n)
         \/ ReadOffset(r) \/ ReadWait(r) \/ Signal(r) \/ ReadSize(r) \/ ReadHead(r)
         \/ ReadLoad(r) \/ ReadFault(r) \/ ReadDone(r) \/ ReadListEnd(r)
  PROVE  PagesInv'
<1> USE DEF portVars, store, fileVars
<1>0. UNCHANGED <<mem_list, num_pages, data_size>>
  BY DEF OpenTest, OpenEnter, CloseFile, SetNproc, ReadStart, ReadOffset, ReadWait, Signal,
     ReadSize, ReadHead, ReadLoad, ReadFault, ReadDone, ReadListEnd
<1>1. ASSUME NEW pc, NEW next, Goes(r, pc, next), pc # "uncount", next.pc \notin Copies
      PROVE  PagesInv'
  <2>1. Points(next)
    BY <1>1 DEF Points, Copies
  <2> QED BY <1>0, <1>1, <2>1, PagesTurn DEF Copies
<1>2. reader[r] \in Local /\ Opened.pc = "open" /\ Closed.pc = "closed"
  BY DEF DriverTypes, ReadTypes, Fits, Opened, Closed
<1>3. CASE OpenTest(r)
  <2>1. [Closed EXCEPT !.pc = "opening"].pc = "opening"
    BY DEF Closed
  <2> QED BY <1>1, <1>3, <2>1 DEF OpenTest, Copies
<1>4. CASE OpenEnter(r) \/ CloseFile(r) \/ ReadFault(r) \/ ReadDone(r) \/ ReadListEnd(r)
  BY <1>1, <1>2, <1>4 DEF OpenEnter, CloseFile, ReadFault, ReadDone, ReadListEnd, Copies
<1>5. CASE \E n \in NprocLimits : SetNproc(r, n)
  <2>1. Goes(r, "open", reader[r]) /\ reader[r].pc = "open"
    BY <1>5 DEF SetNproc, Goes
  <2> QED BY <1>1, <2>1 DEF Copies
<1>6. ASSUME NEW n \in ReadSizes, ReadStart(r, n)
      PROVE  PagesInv'
  <2> DEFINE next == [Opened EXCEPT !.want = n,
                        !.pc = IF sessions.count = 0 THEN "offset" ELSE "size"]
  <2>1. Goes(r, "open", next)
    BY <1>6 DEF ReadStart
  <2>2. next.pc \in {"offset", "size"}
    BY DEF Opened, Closed
  <2> HIDE DEF next
  <2> QED BY <1>1, <2>1, <2>2 DEF Copies
<1>7. CASE ReadOffset(r)
  <2> DEFINE next == [reader[r] EXCEPT
               !.pc = IF read_offset = write_offset THEN "wait" ELSE "size"]
  <2>1. Goes(r, "offset", next)
    BY <1>7 DEF ReadOffset
  <2>2. next.pc \in {"wait", "size"}
    BY <1>2 DEF Local
  <2> HIDE DEF next
  <2> QED BY <1>1, <2>1, <2>2 DEF Copies
<1>8. CASE ReadWait(r)
  <2> DEFINE next == [reader[r] EXCEPT
               !.pc = IF sessions.count # 0 THEN "size" ELSE "asleep"]
  <2>1. PICK pc \in {"wait", "woken"} : Goes(r, pc, next)
    BY <1>8 DEF ReadWait
  <2>2. next.pc \in {"size", "asleep"}
    BY <1>2 DEF Local
  <2> HIDE DEF next
  <2> QED BY <1>1, <2>1, <2>2 DEF Copies
<1>9. CASE Signal(r)
  <2> DEFINE next == [reader[r] EXCEPT !.pc = "size"]
  <2>1. Goes(r, "asleep", next)
    BY <1>9 DEF Signal
  <2>2. next.pc = "size"
    BY <1>2 DEF Local
  <2> HIDE DEF next
  <2> QED BY <1>1, <2>1, <2>2 DEF Copies
<1>10. CASE ReadSize(r)
  <2> DEFINE size == sessions.sizes[sessions.head]
             next == [reader[r] EXCEPT !.pc = "head", !.total = size]
  <2>1. Goes(r, "size", next)
    BY <1>10 DEF ReadSize
  <2> HIDE DEF size
  <2>2. next.pc = "head"
    BY <1>2 DEF Local
  <2> HIDE DEF next
  <2> QED BY <1>1, <2>1, <2>2 DEF Copies
<1>11. CASE ReadHead(r)
  <2> DEFINE n == Len(got) + 1
             next == [reader[r] EXCEPT !.pc = "load", !.nth = n]
  <2>1. Goes(r, "head", next)
    BY <1>11 DEF ReadHead
  <2> HIDE DEF n
  <2>2. next.pc = "load"
    BY <1>2 DEF Local
  <2> HIDE DEF next
  <2> QED BY <1>1, <2>1, <2>2 DEF Copies
<1>12. CASE ReadLoad(r)
  <2> DEFINE next == [reader[r] EXCEPT !.pc = "dec", !.count = sessions.count]
  <2>1. Goes(r, "load", next)
    BY <1>12 DEF ReadLoad
  <2>2. next.pc = "dec"
    BY <1>2 DEF Local
  <2> HIDE DEF next
  <2> QED BY <1>1, <2>1, <2>2 DEF Copies
<1> QED
  BY <1>3, <1>4, <1>5, <1>6, <1>7, <1>8, <1>9, <1>10, <1>11, <1>12

\* The walk: it begins with the first page, copies, and goes on with the page it
\* fetched ahead.
LEMMA PagesWalk ==
  ASSUME OneAtATime, DriverTypes, TurnsInv, PagesInv, NEW r \in Readers, ReaderStep(r),
         ReadDec(r) \/ ReadNext(r) \/ ReadCopy(r)
  PROVE  PagesInv'
<1> USE DEF portVars, store, fileVars
<1>0. UNCHANGED <<mem_list, num_pages, data_size>>
  BY DEF ReadDec, ReadNext, ReadCopy
<1>1. /\ reader[r] \in Local /\ Points(reader[r]) /\ read_offset \in Nat
      /\ mem_list \in Seq(Frames) /\ Distinct(mem_list)
  BY PortFields, SizeAssumption DEF PagesInv, DriverTypes, ReadTypes, Fits
<1>2. ASSUME NEW pc, NEW local \in Local, NEW f, f # NoPage => InList(f),
             Goes(r, pc, GoTo(local, f)), pc # "uncount"
      PROVE  PagesInv'
  <2> DEFINE next == GoTo(local, f)
             after == After(f)
  <2>1. next = [local EXCEPT !.pc = "copy", !.curr = f, !.next = after]
    BY DEF GoTo
  <2> HIDE DEF after
  <2>2. next.pc = "copy"
    BY <2>1 DEF Local
  <2>3. Points(next)
    BY <1>1, <1>2, PointsTo
  <2>4. Goes(r, pc, next)
    BY <1>2
  <2> HIDE DEF next
  <2> QED BY <1>0, <1>2, <2>2, <2>3, <2>4, PagesTurn
<1>3. CASE ReadDec(r)
  <2> DEFINE none == 0
             begun == [reader[r] EXCEPT !.count = none, !.begin_offset = read_offset]
  <2>1. Goes(r, "dec", GoTo(begun, First))
    BY <1>3 DEF ReadDec
  <2>2. none \in Int
    OBVIOUS
  <2> HIDE DEF none
  <2>3. begun \in Local
    BY <1>1, <2>2 DEF Local
  <2> HIDE DEF begun
  <2>4. First # NoPage => InList(First)
    <3>1. First # NoPage => mem_list # <<>> /\ First = mem_list[1]
      BY <1>1 DEF First
    <3>2. mem_list # <<>> => 1 \in 1..Len(mem_list)
      BY <1>1
    <3> QED BY <3>1, <3>2 DEF InList
  <2> QED BY <1>2, <2>1, <2>3, <2>4
<1>4. CASE ReadNext(r)
  <2>1. Goes(r, "next", GoTo(reader[r], reader[r].next)) /\ reader[r].pc = "next"
    BY <1>4 DEF ReadNext, Goes
  <2>2. reader[r].next # NoPage => InList(reader[r].next)
    BY <1>1, <2>1 DEF Points, Copies
  <2> QED BY <1>1, <1>2, <2>1, <2>2
<1>5. CASE ReadCopy(r)
  <2> DEFINE pc == IF (read_offset + SizeToRead(r)) % PAGE_SIZE = 0 THEN "free" ELSE "next"
             begin == reader[r].begin_offset + SizeToRead(r)
             size == reader[r].size_read + SizeToRead(r)
             next == [reader[r] EXCEPT !.pc = pc, !.begin_offset = begin, !.size_read = size]
  <2>1. reader[r].pc = "copy" /\ reader[r].curr # NoPage /\ Goes(r, "copy", next)
    BY <1>5 DEF ReadCopy, Goes
  <2>2. pc \in {"free", "next"}
    OBVIOUS
  <2> HIDE DEF pc, begin, size
  <2>3. next.pc = pc /\ next.curr = reader[r].curr /\ next.next = reader[r].next
    BY <1>1 DEF Local
  <2> HIDE DEF next
  <2>4. Points(next)
    BY <1>1, <2>1, <2>2, <2>3 DEF Points, Copies
  <2> QED BY <1>0, <2>1, <2>2, <2>3, <2>4, PagesTurn
<1> QED BY <1>3, <1>4, <1>5

\* A page is given back ...
LEMMA PagesFree ==
  ASSUME OneAtATime, DriverTypes, TurnsInv, PagesInv, NEW r \in Readers, ReaderStep(r),
         ReadFree(r)
  PROVE  /\ PagesInv'
         /\ Freed' = Freed + 1 /\ Len(mem_list') = Len(mem_list) - 1
<1> DEFINE next == [reader[r] EXCEPT !.pc = "uncount",
                      !.num_pages = num_pages, !.data_size = data_size]
<1>1. /\ reader[r].pc = "free" /\ Goes(r, "free", next)
      /\ mem_list' = RemoveFirst(mem_list, reader[r].curr)
      /\ UNCHANGED <<num_pages, data_size>>
  BY DEF ReadFree, Goes
<1>2. /\ \A s \in Readers \ {r} : reader[s].pc = "closed" /\ reader'[s].pc = "closed"
      /\ UNCHANGED <<tasklet, write_offset, copied>>
  BY MovesAlone
<1>3. reader[r] \in Local /\ Points(reader[r]) /\ reader'[r] = next
  BY <1>1 DEF PagesInv, DriverTypes, ReadTypes, Fits, Goes
<1>4. /\ next.pc = "uncount" /\ next.next = reader[r].next /\ next.curr = reader[r].curr
      /\ next.num_pages = num_pages /\ next.data_size = data_size
  BY <1>3 DEF Local
<1> HIDE DEF next
<1>5. PICK m \in 1..Len(mem_list) : mem_list[m] = reader[r].curr
  BY <1>1, <1>3 DEF Points, InList
<1>6. mem_list \in Seq(Frames) /\ Distinct(mem_list) /\ Len(mem_list) \in Nat
  BY PortFields, BegunType DEF PagesInv
<1>7. /\ Len(mem_list') = Len(mem_list) - 1 /\ Distinct(mem_list')
      /\ \A i \in 1..Len(mem_list) :
           i # m => \E j \in 1..Len(mem_list') : mem_list'[j] = mem_list[i]
  BY <1>1, <1>5, <1>6, Unlinked
<1>8. Begun' = Begun /\ Uncounting = 0 /\ Uncounting' = 1
  BY <1>1, <1>2, <1>3, <1>4 DEF Begun, Uncounting
<1>9. Freed' = Freed + 1
  BY <1>6, <1>7, <1>8, BegunType DEF Freed
<1>10. CountersTrue'
  <2>1. num_pages = Len(mem_list) + 0 /\ data_size = Len(copied) - (Freed - 0) * PAGE_SIZE
    BY <1>8 DEF PagesInv, CountersTrue
  <2>2. Freed' - Uncounting' = Freed - 0
    BY <1>8, <1>9, BegunType
  <2>3. data_size' = Len(copied') - (Freed' - Uncounting') * PAGE_SIZE
    BY <1>1, <1>2, <2>1, <2>2, Zenon
  <2>4. num_pages' = Len(mem_list') + Uncounting'
    BY <1>1, <1>6, <1>7, <1>8, <2>1
  <2> QED BY <2>3, <2>4 DEF CountersTrue
<1>11. Points(reader[r])'
  <2>1. reader[r].next # NoPage =>
          /\ \E k \in 1..Len(mem_list') : mem_list'[k] = reader[r].next
          /\ reader[r].next # reader[r].curr
    <3> SUFFICES ASSUME reader[r].next # NoPage
                 PROVE  /\ \E k \in 1..Len(mem_list') : mem_list'[k] = reader[r].next
                        /\ reader[r].next # reader[r].curr
      OBVIOUS
    <3>1. InList(reader[r].next) /\ reader[r].next # reader[r].curr
      BY <1>1, <1>3 DEF Points, Copies
    <3>2. PICK i \in 1..Len(mem_list) : mem_list[i] = reader[r].next
      BY <3>1 DEF InList
    <3>3. i # m
      BY <1>5, <3>1, <3>2
    <3>4. PICK j \in 1..Len(mem_list') : mem_list'[j] = mem_list[i]
      BY <1>7, <3>3
    <3>5. \E k \in 1..Len(mem_list') : mem_list'[k] = reader[r].next
      BY <3>2, <3>4
    <3> QED BY <3>1, <3>5
  <2> QED BY <1>1, <1>3, <1>4, <2>1 DEF Points, InList
<1>12. ASSUME NEW s \in Readers PROVE Points(reader[s])'
  <2>1. CASE s = r
    BY <1>11, <2>1
  <2>2. CASE s # r
    BY <1>2, <2>2 DEF Points, Copies
  <2> QED BY <2>1, <2>2
<1>13. Distinct(mem_list)' /\ \E q \in Nat : PagesFilled(q)'
  BY <1>2, <1>7 DEF PagesInv, PagesFilled, Distinct
<1>14. tasklet'.pc = "alloc" => write_offset' = 0
  BY <1>2 DEF PagesInv
<1> QED BY <1>7, <1>9, <1>10, <1>12, <1>13, <1>14 DEF PagesInv

\* ... and counted off.
LEMMA PagesUncount ==
  ASSUME OneAtATime, DriverTypes, TurnsInv, PagesInv, NEW r \in Readers, ReaderStep(r),
         ReadUncount(r)
  PROVE  PagesInv'
<1> DEFINE none == 0
           next == [reader[r] EXCEPT !.pc = "next", !.num_pages = none, !.data_size = none]
<1>1. /\ reader[r].pc = "uncount" /\ Goes(r, "uncount", next) /\ UNCHANGED mem_list
      /\ num_pages' = reader[r].num_pages - 1
      /\ data_size' = reader[r].data_size - PAGE_SIZE
  BY DEF ReadUncount, Goes
<1> HIDE DEF none
<1>2. /\ \A s \in Readers \ {r} : reader[s].pc = "closed" /\ reader'[s].pc = "closed"
      /\ UNCHANGED <<tasklet, write_offset, copied>>
  BY MovesAlone
<1>3. reader[r] \in Local /\ Points(reader[r]) /\ reader'[r] = next
  BY <1>1 DEF PagesInv, DriverTypes, ReadTypes, Fits, Goes
<1>4. next.pc = "next" /\ next.next = reader[r].next /\ next.curr = reader[r].curr
  BY <1>3 DEF Local
<1> HIDE DEF next
<1>5. reader[r].num_pages = num_pages /\ reader[r].data_size = data_size
  BY <1>1, <1>3 DEF Points
<1>6. Begun' = Begun /\ Uncounting = 1 /\ Uncounting' = 0
  BY <1>1, <1>2, <1>3, <1>4 DEF Begun, Uncounting
<1>7. Freed' = Freed
  BY <1>1, <1>6 DEF Freed
<1>8. /\ Freed \in Int /\ Len(mem_list) \in Nat /\ Len(copied) \in Nat
      /\ num_pages \in Int /\ data_size \in Int
  BY BegunType, PortFields DEF DriverTypes, PortTypes, PagesTypes
<1>9. CountersTrue'
  <2>1. num_pages = Len(mem_list) + 1 /\ data_size = Len(copied) - (Freed - 1) * PAGE_SIZE
    BY <1>6 DEF PagesInv, CountersTrue
  <2>2. num_pages' = Len(mem_list') + 0
    BY <1>1, <1>5, <1>8, <2>1
  <2>3. data_size - PAGE_SIZE = Len(copied) - (Freed - 0) * PAGE_SIZE
    BY <1>8, <2>1, SizeAssumption
  <2>4. data_size' = Len(copied') - (Freed' - 0) * PAGE_SIZE
    BY <1>1, <1>2, <1>5, <1>7, <2>3, Zenon
  <2> QED BY <1>6, <2>2, <2>4 DEF CountersTrue
<1>10. Points(reader[r])'
  BY <1>1, <1>3, <1>4 DEF Points, InList, Copies
<1>11. ASSUME NEW s \in Readers PROVE Points(reader[s])'
  <2>1. CASE s = r
    BY <1>10, <2>1
  <2>2. CASE s # r
    BY <1>2, <2>2 DEF Points, Copies
  <2> QED BY <2>1, <2>2
<1>12. Distinct(mem_list)' /\ \E q \in Nat : PagesFilled(q)'
  BY <1>1, <1>2 DEF PagesInv, PagesFilled, Distinct
<1>13. tasklet'.pc = "alloc" => write_offset' = 0
  BY <1>2 DEF PagesInv
<1> QED BY <1>9, <1>11, <1>12, <1>13 DEF PagesInv

LEMMA PagesReader ==
  ASSUME OneAtATime, DriverTypes, TurnsInv, PagesInv, NEW r \in Readers, ReaderStep(r)
  PROVE  PagesInv'
  BY PagesAway, PagesWalk, PagesFree, PagesUncount DEF ReaderStep

LEMMA PagesNext ==
  ASSUME OneAtATime, DriverTypes, DriverTypes', TurnsInv, PagesInv, [Next]_vars
  PROVE  TurnsInv' /\ PagesInv'
<1>1. CASE UNCHANGED vars
  BY <1>1 DEF vars, portVars, readerVars, fileVars, assembly, store, ghosts, TurnsInv, Alone,
     OneActor, TaskletDue, InCall, PagesInv, Distinct, PagesFilled, CountersTrue, Freed, Begun,
     Uncounting, Points, InList
<1>2. CASE Arrives \/ Handler \/ Copying \/ WakeUp
  BY <1>2, TurnsPort, PagesPort
<1>3. ASSUME NEW r \in Readers, ReaderStep(r) PROVE TurnsInv' /\ PagesInv'
  BY <1>3, TurnsReader, PagesReader
<1> QED BY <1>1, <1>2, <1>3 DEF Next

LEMMA PagesAlways == OneAtATime => (Spec => [](TurnsInv /\ PagesInv))
<1> SUFFICES ASSUME OneAtATime PROVE Spec => [](TurnsInv /\ PagesInv)
  OBVIOUS
<1>1. Init => TurnsInv /\ PagesInv
  BY TurnsInit, PagesInit
<1>2. DriverTypes /\ DriverTypes' /\ (TurnsInv /\ PagesInv) /\ [Next]_vars
        => (TurnsInv /\ PagesInv)'
  BY PagesNext
<1> QED BY <1>1, <1>2, TypesAlways, PTL DEF Spec

\* On one CPU, when bytes come between the calls and one process at a time has the
\* device, both counters are true between the calls, whatever fails and however many
\* pages there are, although the reader takes no lock (asgn.c:137, 148, 337-338).
THEOREM CountsPages == OneAtATime => (Spec => []PagesCounted)
<1> SUFFICES ASSUME OneAtATime PROVE Spec => []PagesCounted
  OBVIOUS
<1>1. DriverTypes /\ PagesInv => PagesCounted
  <2> SUFFICES ASSUME DriverTypes, PagesInv, \A r \in Readers : ~InCall(r)
               PROVE  /\ num_pages = Len(mem_list)
                      /\ data_size = Len(copied) - Freed * PAGE_SIZE
    BY DEF PagesCounted
  <2>1. Uncounting = 0
    BY DEF Uncounting, InCall
  <2>2. Freed \in Int /\ Len(mem_list) \in Nat
    BY BegunType
  <2>3. Freed - 0 = Freed /\ Len(mem_list) + 0 = Len(mem_list)
    BY <2>2
  <2> QED BY <2>1, <2>3 DEF PagesInv, CountersTrue
<1> QED BY <1>1, PagesAlways, TypesAlways, PTL

-----------------------------------------------------------------------------
(* The pages a read walks over, with one process at a time, whenever bytes *)
(* come and whatever fails.                                                *)

OnPages(local) ==
  /\ local.pc \in Copies /\ local.next # NoPage => InList(local.next) /\ local.next # local.curr
  /\ local.pc = "copy" /\ local.curr # NoPage => InList(local.curr)
  /\ local.pc = "free" => InList(local.curr)
HeldInv == Alone /\ Distinct(mem_list) /\ \A r \in Readers : OnPages(reader[r])

\* The tasklet adds pages behind those on the list.
LEMMA HeldPort ==
  ASSUME DriverTypes, HeldInv, Arrives \/ Handler \/ Copying \/ WakeUp
  PROVE  HeldInv'
<1>1. UNCHANGED max_nprocs
  BY DEF Arrives, Handler, Copying, WakeUp, readerVars, fileVars
<1>2. /\ \A r \in Readers : reader'[r].pc # "woken" => reader'[r] = reader[r]
      /\ \A r \in Readers : reader[r].pc = "closed" => reader'[r].pc = "closed"
  <2>1. CASE WakeUp
    <3>1. ASSUME NEW r \in Readers, reader'[r] # reader[r]
          PROVE  reader[r].pc = "asleep" /\ reader'[r] = [reader[r] EXCEPT !.pc = "woken"]
      BY <2>1, <3>1 DEF WakeUp
    <3>2. \A r \in Readers : reader[r] \in Local
      BY DEF DriverTypes, ReadTypes, Fits
    <3> QED BY <3>1, <3>2 DEF Local
  <2>2. CASE Arrives \/ Handler \/ Copying
    BY <2>2 DEF Arrives, Handler, Copying, readerVars
  <2> QED BY <2>1, <2>2
<1>3. Alone'
  BY <1>1, <1>2 DEF HeldInv, Alone
<1>4. /\ mem_list \in Seq(Frames) /\ Distinct(mem_list)
      /\ \/ mem_list' = mem_list
         \/ \E f \in Frames : /\ mem_list' = Append(mem_list, f)
                              /\ \A i \in 1..Len(mem_list) : mem_list[i] # f
  <2>1. mem_list \in Seq(Frames)
    BY PortFields DEF DriverTypes, PortTypes, PagesTypes
  <2>2. CASE \E f \in Frames : TaskletAlloc(f)
    BY <2>1, <2>2 DEF TaskletAlloc, HeldInv
  <2>3. CASE ~\E f \in Frames : TaskletAlloc(f)
    BY <2>1, <2>3 DEF HeldInv, Arrives, Handler, Copying, WakeUp, FirstHalf, SecondHalf,
       IrqContinues, IrqLock, IrqNul, IrqCount, IrqDrop, IrqStore, IrqUnlock, TaskletStep,
       TaskletStart, TaskletLock, TaskletTest, TaskletTake, TaskletDec, TaskletAllocFail,
       TaskletStore, TaskletUnlock, TaskletWake, store
  <2> QED BY <2>2, <2>3
<1>5. Distinct(mem_list')
  BY <1>4 DEF Distinct
<1>6. \A f : InList(f) => InList(f)'
  BY <1>4 DEF InList
<1>7. ASSUME NEW r \in Readers PROVE OnPages(reader[r])'
  <2>1. CASE reader'[r].pc = "woken"
    BY <2>1 DEF OnPages, Copies
  <2>2. CASE reader'[r] = reader[r]
    BY <1>6, <2>2 DEF HeldInv, OnPages
  <2> QED BY <1>2, <2>1, <2>2
<1>8. Distinct(mem_list)'
  BY <1>5 DEF Distinct
<1> QED BY <1>3, <1>7, <1>8 DEF HeldInv

\* The steps before and after the walk.
LEMMA HeldAway ==
  ASSUME DriverTypes, NEW r \in Readers, ReaderStep(r),
         ~ReadDec(r), ~ReadCopy(r), ~ReadNext(r), ~ReadFree(r), ~ReadUncount(r)
  PROVE  mem_list' = mem_list /\ reader'[r].pc \notin Copies
<1> USE DEF portVars, store
<1>1. mem_list' = mem_list
  BY DEF ReaderStep, OpenTest, OpenEnter, CloseFile, SetNproc, ReadStart, ReadOffset, ReadWait,
     Signal, ReadSize, ReadHead, ReadLoad, ReadFault, ReadDone, ReadListEnd
<1>2. reader[r] \in Local /\ DOMAIN reader = Readers
  BY DEF DriverTypes, ReadTypes, Fits
<1>3. CASE \/ OpenTest(r) \/ OpenEnter(r) \/ CloseFile(r)
           \/ \E n \in NprocLimits : SetNproc(r, n)
  BY <1>2, <1>3 DEF OpenTest, OpenEnter, CloseFile, SetNproc, Goes, Opened, Closed, Copies
<1>4. CASE \E n \in ReadSizes : ReadStart(r, n)
  BY <1>2, <1>4 DEF ReadStart, Goes, Opened, Closed, Copies
<1>5. CASE ReadOffset(r) \/ ReadWait(r) \/ Signal(r)
  BY <1>2, <1>5 DEF ReadOffset, ReadWait, Signal, Goes, Local, Copies
<1>6. CASE ReadSize(r) \/ ReadHead(r) \/ ReadLoad(r)
  BY <1>2, <1>6, ZenonT(30) DEF ReadSize, ReadHead, ReadLoad, Goes, Local, Copies
<1>7. CASE ReadFault(r) \/ ReadDone(r) \/ ReadListEnd(r)
  BY <1>2, <1>7 DEF ReadFault, ReadDone, ReadListEnd, Goes, Opened, Closed, Copies
<1> QED BY <1>1, <1>3, <1>4, <1>5, <1>6, <1>7 DEF ReaderStep

\* The walk: a page is fetched ahead while it is on the list, and only the one that
\* was read leaves it.
LEMMA HeldWalk ==
  ASSUME DriverTypes, HeldInv, NEW r \in Readers,
         ReadDec(r) \/ ReadCopy(r) \/ ReadNext(r) \/ ReadFree(r) \/ ReadUncount(r)
  PROVE  Distinct(mem_list)' /\ OnPages(reader[r])'
<1> USE DEF portVars, store
<1>1. /\ reader[r] \in Local /\ OnPages(reader[r]) /\ DOMAIN reader = Readers
      /\ mem_list \in Seq(Frames) /\ Distinct(mem_list) /\ read_offset \in Nat
  BY PortFields, SizeAssumption DEF HeldInv, DriverTypes, ReadTypes, Fits
<1>2. ASSUME NEW local \in Local, NEW f, f # NoPage => InList(f), mem_list' = mem_list,
             reader'[r] = GoTo(local, f)
      PROVE  Distinct(mem_list)' /\ OnPages(reader[r])'
  <2>1. OnPages(GoTo(local, f))
    BY <1>1, <1>2, PointsTo DEF Points, OnPages
  <2> QED BY <1>1, <1>2, <2>1 DEF OnPages, InList, Distinct
<1>3. CASE ReadDec(r)
  <2> DEFINE none == 0
             begun == [reader[r] EXCEPT !.count = none, !.begin_offset = read_offset]
  <2>1. reader'[r] = GoTo(begun, First) /\ mem_list' = mem_list
    BY <1>1, <1>3 DEF ReadDec, Goes
  <2>2. none \in Int
    OBVIOUS
  <2> HIDE DEF none
  <2>3. begun \in Local
    BY <1>1, <2>2 DEF Local
  <2> HIDE DEF begun
  <2>4. First # NoPage => InList(First)
    BY <1>1 DEF First, InList
  <2> QED BY <1>2, <2>1, <2>3, <2>4
<1>4. CASE ReadNext(r)
  <2>1. /\ reader[r].pc = "next" /\ mem_list' = mem_list
        /\ reader'[r] = GoTo(reader[r], reader[r].next)
    BY <1>1, <1>4 DEF ReadNext, Goes
  <2>2. reader[r].next # NoPage => InList(reader[r].next)
    BY <1>1, <2>1 DEF OnPages, Copies
  <2> QED BY <1>1, <1>2, <2>1, <2>2
<1>5. CASE ReadCopy(r)
  <2> DEFINE pc == IF (read_offset + SizeToRead(r)) % PAGE_SIZE = 0 THEN "free" ELSE "next"
             begin == reader[r].begin_offset + SizeToRead(r)
             size == reader[r].size_read + SizeToRead(r)
             next == [reader[r] EXCEPT !.pc = pc, !.begin_offset = begin, !.size_read = size]
  <2>1. reader[r].pc = "copy" /\ reader[r].curr # NoPage /\ Goes(r, "copy", next)
    BY <1>5 DEF ReadCopy, Goes
  <2>2. pc \in {"free", "next"} /\ mem_list' = mem_list /\ reader'[r] = next
    BY <1>1, <1>5, <2>1 DEF ReadCopy, Goes
  <2> HIDE DEF pc, begin, size
  <2>3. next.pc = pc /\ next.curr = reader[r].curr /\ next.next = reader[r].next
    BY <1>1 DEF Local
  <2> HIDE DEF next
  <2> QED BY <1>1, <2>1, <2>2, <2>3 DEF OnPages, Copies, InList, Distinct
<1>6. CASE ReadFree(r)
  <2>1. reader[r].pc = "free" /\ mem_list' = RemoveFirst(mem_list, reader[r].curr)
    BY <1>6 DEF ReadFree, Goes
  <2>2. PICK m \in 1..Len(mem_list) : mem_list[m] = reader[r].curr
    BY <1>1, <2>1 DEF OnPages, InList
  <2>3. /\ Len(mem_list') = Len(mem_list) - 1 /\ Distinct(mem_list')
        /\ \A i \in 1..Len(mem_list) :
             i # m => \E j \in 1..Len(mem_list') : mem_list'[j] = mem_list[i]
    <3>1. mem_list \in Seq(Frames) /\ Distinct(mem_list) /\ Len(mem_list) \in Nat
      BY <1>1
    <3>2. mem_list' = RemoveFirst(mem_list, mem_list[m]) /\ m \in 1..Len(mem_list)
      BY <2>1, <2>2
    <3>3. \A s \in Seq(Frames) : Distinct(s) => \A k \in 1..Len(s) :
            /\ Len(RemoveFirst(s, s[k])) = Len(s) - 1 /\ Distinct(RemoveFirst(s, s[k]))
            /\ \A i \in 1..Len(s) : i # k =>
                 \E j \in 1..Len(RemoveFirst(s, s[k])) : RemoveFirst(s, s[k])[j] = s[i]
      BY Unlinked
    <3> QED BY <3>1, <3>2, <3>3
  <2>4. /\ reader'[r].pc = "uncount" /\ reader'[r].next = reader[r].next
        /\ reader'[r].curr = reader[r].curr
    BY <1>1, <1>6 DEF ReadFree, Goes, Local
  <2>5. reader[r].next # NoPage =>
          /\ \E k \in 1..Len(mem_list') : mem_list'[k] = reader[r].next
          /\ reader[r].next # reader[r].curr
    BY <1>1, <2>1, <2>2, <2>3 DEF OnPages, Copies, InList
  <2> QED BY <2>3, <2>4, <2>5 DEF OnPages, InList, Distinct
<1>7. CASE ReadUncount(r)
  <2> DEFINE none == 0
             next == [reader[r] EXCEPT !.pc = "next", !.num_pages = none, !.data_size = none]
  <2>1. /\ reader[r].pc = "uncount" /\ mem_list' = mem_list /\ reader'[r] = next
    BY <1>1, <1>7 DEF ReadUncount, Goes
  <2> HIDE DEF none
  <2>2. next.pc = "next" /\ next.curr = reader[r].curr /\ next.next = reader[r].next
    BY <1>1 DEF Local
  <2> HIDE DEF next
  <2> QED BY <1>1, <2>1, <2>2 DEF OnPages, Copies, InList, Distinct
<1> QED BY <1>3, <1>4, <1>5, <1>6, <1>7

LEMMA HeldReader ==
  ASSUME OneUser, DriverTypes, HeldInv, NEW r \in Readers, ReaderStep(r)
  PROVE  HeldInv'
<1>1. /\ \A s \in Readers \ {r} : reader'[s].pc = "closed"
      /\ max_nprocs' <= 1
  BY UserAlone DEF HeldInv
<1>2. Alone'
  BY <1>1 DEF Alone
<1>3. Distinct(mem_list)' /\ OnPages(reader[r])'
  <2>1. CASE ReadDec(r) \/ ReadCopy(r) \/ ReadNext(r) \/ ReadFree(r) \/ ReadUncount(r)
    BY <2>1, HeldWalk
  <2>2. CASE ~(ReadDec(r) \/ ReadCopy(r) \/ ReadNext(r) \/ ReadFree(r) \/ ReadUncount(r))
    BY <2>2, HeldAway DEF HeldInv, OnPages, Distinct, Copies
  <2> QED BY <2>1, <2>2
<1>4. ASSUME NEW s \in Readers \ {r} PROVE OnPages(reader[s])'
  BY <1>1 DEF OnPages, Copies
<1> QED BY <1>2, <1>3, <1>4 DEF HeldInv

\* On one CPU, while the limit is one process, a read never walks over a page that was
\* given back, for any number of processes that come in turn, any number of pages, and
\* bytes that come at any time: the tasklet only adds pages behind those there are, and
\* the one page fetched ahead stays on the list (asgn.c:136-137, 244, 304, 333-340).
THEOREM HoldsPages == OneUser => (Spec => []PagesHeld)
<1> SUFFICES ASSUME OneUser PROVE Spec => []PagesHeld
  OBVIOUS
<1>1. Init => HeldInv
  BY DEF Init, PortInit, HeldInv, Alone, Distinct, OnPages, Closed, Copies
<1>2. DriverTypes /\ HeldInv /\ [Next]_vars => HeldInv'
  <2>1. CASE UNCHANGED vars
    BY <2>1 DEF vars, portVars, readerVars, fileVars, store, HeldInv, Alone, Distinct, OnPages, InList
  <2> QED BY <2>1, HeldPort, HeldReader DEF Next
<1>3. DriverTypes /\ HeldInv => PagesHeld
  <2> SUFFICES ASSUME DriverTypes, HeldInv PROVE PagesHeld
    OBVIOUS
  <2>1. \A f : InList(f) => f \in ToSet(mem_list)
    BY DEF InList, ToSet
  <2> QED BY <2>1 DEF HeldInv, OnPages, Copies, PagesHeld
<1> QED BY <1>1, <1>2, <1>3, TypesAlways, PTL DEF Spec

-----------------------------------------------------------------------------
(* Whole sessions, in a world that keeps all manners: one actor moves at a *)
(* time, at most one byte is under way and one page is in use, and what    *)
(* was not read is what is left of that page.                              *)

WellMannered == /\ OneAtATime /\ Manners = AllManners
                /\ ~Signals /\ ~CopyMayFail /\ ~AllocMayFail
                /\ \A n \in ReadSizes : n >= PAGE_SIZE

\* At most one byte is under way: none, one in the buffer, or one in the tasklet's
\* hand.  While there is one there is room for it without a second page.
Room == write_offset # 0 \/ mem_list = <<>>
Nothing == /\ cbuf.count = 0 /\ copied = accepted
           /\ tasklet.pc \notin {"take", "dec", "alloc", "store"}
InBuffer == /\ cbuf.count = 1 /\ accepted = Append(copied, cbuf.buffer[cbuf.head])
            /\ irq.pc = "unlock" \/ tasklet.sched \/ tasklet.pc \in {"lock", "test", "take"}
            /\ tasklet.pc \notin {"dec", "alloc", "store"}
            /\ tasklet.pc = "take" => tasklet.count = 1
            /\ Room
InTheHand == /\ accepted = Append(copied, tasklet.byte)
             /\ \/ tasklet.pc = "dec" /\ cbuf.count = 1 /\ tasklet.count = 1 /\ Room
                \/ /\ tasklet.pc = "alloc" /\ cbuf.count = 0
                   /\ write_offset = 0 /\ mem_list = <<>> /\ tasklet.begin_offset = 0
                \/ /\ tasklet.pc = "store" /\ cbuf.count = 0
                   /\ tasklet.begin_offset = write_offset /\ tasklet.curr = First
PipeInv == /\ Nothing \/ InBuffer \/ InTheHand
           /\ irq.pc \in {"lock", "body", "count"} => Nothing
           /\ irq.pc \in {"lock", "body"} => /\ irq.cbuf_end = cbuf.head
                                             /\ top_full_byte # 0 => Room

\* The table has the sizes of the sessions, the next to read at head, and none is
\* empty: not even the one that the handler is about to end.
EndOf(k) == IF k = 0 THEN 0 ELSE ends[k]
Ending == (irq.pc \in {"lock", "body"} /\ top_full_byte = 0) \/ irq.pc = "count"
TableInv ==
  /\ Len(got) <= Len(ends) /\ sessions.head = Len(got)
  /\ Framed(sessions.sizes, ends, Len(accepted))
  /\ \A k \in 1..Len(ends) : EndOf(k - 1) < ends[k] /\ ends[k] <= Len(accepted)
  /\ irq.pc \in {"lock", "body"} => irq.session_end = Len(ends)
  /\ Ending => EndOf(Len(ends)) < Len(accepted)

\* Where the bytes that were read end, how far the page is filled, and what it has.
Takes == {"load", "dec", "copy"}
Taking == \E r \in Readers : reader[r].pc \in Takes
Freeing == \E r \in Readers : reader[r].pc = "free"
Taken == EndOf(IF Taking THEN Len(got) - 1 ELSE Len(got))
Filled == IF write_offset = 0 /\ tasklet.pc # "store" THEN PAGE_SIZE ELSE write_offset
HasPage ==
  /\ Filled <= Len(copied)
  /\ \A i \in 1..Filled : page[First][i - 1] = copied[Len(copied) - Filled + i]
  /\ Freeing => Filled = PAGE_SIZE /\ read_offset = 0 /\ Taken = Len(copied)
  /\ ~Freeing => read_offset <= Filled /\ Taken = Len(copied) - Filled + read_offset
PageInv == \/ mem_list = <<>> /\ write_offset = 0 /\ read_offset = 0 /\ Taken = Len(copied)
           \/ mem_list # <<>> /\ Len(mem_list) = 1 /\ HasPage

\* What a process knows of the session it reads, which is the last one taken.
SizeOf(k) == ends[k] - EndOf(k - 1)
InSession == Takes \cup {"free", "uncount", "next"}
Knows(local) ==
  /\ local.pc \notin {"closed", "opening", "open"} => local.want >= PAGE_SIZE
  /\ local.pc = "offset" => read_offset = write_offset
  /\ local.pc \in {"size", "head"} => Len(got) < Len(ends)
  /\ local.pc = "head" => local.total = SizeOf(Len(got) + 1)
  /\ local.pc \notin InSession => local.nth = 0
  /\ local.pc \in InSession => /\ local.nth = Len(got) /\ Len(got) # 0
                               /\ local.total = SizeOf(Len(got))
  /\ local.pc \in Takes => local.size_read = 0 /\ got[Len(got)] = <<>>
  /\ local.pc = "copy" => local.begin_offset = read_offset
  /\ local.pc \in {"copy", "free"} => local.curr = First
  /\ local.pc \in InSession \ Takes => local.size_read = local.total
GotInv == \A k \in 1..Len(got) : (Taking /\ k = Len(got)) \/ got[k] = Session(k)
ReadInv == GotInv /\ \A r \in Readers : Knows(reader[r])

Tabled == Len(ends) < MAX_SESSIONS
Stored == Tabled => TableInv /\ PageInv /\ ReadInv
WholeInv == TurnsInv /\ PipeInv /\ Stored

-----------------------------------------------------------------------------
(* The byte under way.                                                     *)

LEMMA PipeInit == Init => PipeInv
  BY DEF Init, PortInit, IdleIrq, IdleTasklet, PipeInv, Nothing

LEMMA PipeArrives ==
  ASSUME OneAtATime, WellMannered,
         DriverTypes, TurnsInv, PipeInv, Arrives
  PROVE  PipeInv'
<1>1. PICK pins \in PinLevels :
        Mannered(pins) /\ (FirstHalf(pins) \/ \E at \in Arrivals : SecondHalf(pins, at))
  BY DEF Arrives
<1>2. irq.pc = "idle" /\ ~TaskletDue
  BY <1>1 DEF Mannered, WellMannered, AllManners, TaskletDue, FirstHalf, SecondHalf
<1>3. Nothing
  BY <1>2 DEF PipeInv, InBuffer, InTheHand, TaskletDue
<1>4. UNCHANGED <<cbuf, tasklet, store, ghosts>>
  BY <1>1 DEF FirstHalf, SecondHalf
<1>5. Nothing'
  BY <1>3, <1>4 DEF Nothing, store, ghosts
<1>6. CASE FirstHalf(pins)
  BY <1>2, <1>5, <1>6 DEF FirstHalf, PipeInv
<1>7. ASSUME NEW at \in Arrivals, SecondHalf(pins, at)
      PROVE  PipeInv'
  <2>1. irq' = [irq EXCEPT !.pc = "lock", !.at = at, !.cbuf_end = CbufEnd,
                           !.session_end = SessionEnd]
    BY <1>7 DEF SecondHalf
  <2>2. irq'.pc = "lock" /\ irq'.cbuf_end = CbufEnd
    BY <2>1, PortFields
  <2>3. CbufEnd = cbuf.head
    <3>0. cbuf.head \in 0..BUFFER_CAPACITY - 1
      BY PortFields
    <3>1. cbuf.head \in 0..2 * BUFFER_CAPACITY - 1 /\ cbuf.head < BUFFER_CAPACITY
      BY <3>0, SizeAssumption
    <3>2. cbuf.head + cbuf.count = cbuf.head
      BY <1>3, <3>1, SizeAssumption DEF Nothing
    <3> QED BY <3>1, <3>2, ModOneTurn, SizeAssumption DEF CbufEnd, OneTurn
  <2>4. top_full_byte' # 0 => Room
    <3>1. toggle = 0 /\ top_full_byte' = top_full_byte + HalfByte(pins)
      BY <1>7 DEF SecondHalf
    <3>2. top_full_byte' # 0 => ~Ends(pins)
      BY <3>1 DEF Ends
    <3>3. "one_page" \in Manners
      BY DEF WellMannered, AllManners
    <3> QED BY <1>1, <3>1, <3>2, <3>3 DEF Mannered, Room
  <2> QED BY <1>4, <1>5, <2>2, <2>3, <2>4 DEF PipeInv, Room, store
<1> QED BY <1>1, <1>6, <1>7

LEMMA PipeHandler ==
  ASSUME OneAtATime, WellMannered,
         DriverTypes, TurnsInv, PipeInv, Handler
  PROVE  PipeInv'
<1> USE DEF assembly, store, ghosts
<1>1. irq.pc # "idle"
  BY DEF Handler, IrqContinues, IrqLock, IrqNul, IrqCount, IrqDrop, IrqStore, IrqUnlock
<1>2. tasklet.pc = "idle" /\ ~tasklet.sched
  BY <1>1 DEF TurnsInv, OneActor, TaskletDue
<1>3. irq \in [pc : IrqPc, at : {Nested, Remote}, cbuf_end : Int, session_end : Int,
               count : Int]
  BY PortFields
<1>4. CASE IrqLock
  <2>1. /\ irq.pc = "lock" /\ irq'.pc = "body" /\ irq'.cbuf_end = irq.cbuf_end
        /\ UNCHANGED <<cbuf, copied, accepted, tasklet, write_offset, mem_list, top_full_byte>>
    BY <1>3, <1>4 DEF IrqLock
  <2> QED BY <2>1 DEF PipeInv, Nothing, Room
<1>5. CASE IrqNul \/ IrqCount \/ IrqDrop
  <2>1. /\ irq.pc \in {"body", "count"} /\ irq'.pc \notin {"lock", "body"}
        /\ UNCHANGED <<cbuf, copied, accepted, tasklet, write_offset, mem_list>>
    <3>1. CASE IrqNul
      BY <1>3, <3>1 DEF IrqNul
    <3>2. CASE IrqCount
      BY <1>3, <3>2 DEF IrqCount
    <3>3. CASE IrqDrop
      BY <1>3, <3>3 DEF IrqDrop, IdleIrq
    <3> QED BY <1>5, <3>1, <3>2, <3>3
  <2> QED BY <2>1 DEF PipeInv, Nothing
<1>6. CASE IrqStore
  <2>1. /\ irq.pc = "body" /\ irq'.pc = "unlock" /\ top_full_byte # 0
        /\ cbuf' = [cbuf EXCEPT !.buffer[irq.cbuf_end] = top_full_byte,
                                !.count = cbuf.count + 1]
        /\ accepted' = Append(accepted, top_full_byte)
        /\ UNCHANGED <<copied, tasklet, write_offset, mem_list>>
    BY <1>3, <1>6 DEF IrqStore
  <2>2. Nothing /\ irq.cbuf_end = cbuf.head /\ Room
    BY <2>1 DEF PipeInv
  <2>3. /\ cbuf'.count = cbuf.count + 1 /\ cbuf'.head = cbuf.head
        /\ cbuf'.buffer[cbuf.head] = top_full_byte
    BY <2>1, <2>2, PortFields
  <2>4. InBuffer'
    BY <1>2, <2>1, <2>2, <2>3 DEF InBuffer, Nothing, Room
  <2> QED BY <2>1, <2>4 DEF PipeInv
<1>7. CASE IrqUnlock
  <2>1. /\ irq'.pc = "idle" /\ tasklet' = [tasklet EXCEPT !.sched = TRUE]
        /\ UNCHANGED <<cbuf, copied, accepted, write_offset, mem_list>>
    BY <1>7 DEF IrqUnlock, IdleIrq
  <2>2. tasklet'.sched /\ tasklet'.pc = "idle"
    BY <1>2, <2>1, PortFields
  <2>3. Nothing \/ InBuffer
    BY <1>2 DEF PipeInv, InTheHand
  <2>4. Nothing' \/ InBuffer'
    BY <2>1, <2>2, <2>3 DEF Nothing, InBuffer, Room
  <2> QED BY <2>1, <2>4 DEF PipeInv
<1> QED BY <1>4, <1>5, <1>6, <1>7 DEF Handler, IrqContinues

LEMMA PipeTasklet ==
  ASSUME OneAtATime, WellMannered,
         DriverTypes, TurnsInv, PipeInv, TaskletStep
  PROVE  PipeInv'
<1> USE DEF assembly, store, ghosts
<1>1. TaskletDue /\ UNCHANGED irq
  BY DEF TaskletStep, TaskletStart, TaskletLock, TaskletTest, TaskletTake, TaskletDec,
     TaskletAlloc, TaskletAllocFail, TaskletStore, TaskletUnlock, TaskletWake, TaskletDue
<1>2. irq.pc = "idle" /\ (tasklet.pc # "idle" => ~tasklet.sched)
  BY <1>1 DEF TurnsInv, OneActor
<1>3. tasklet \in [pc : TaskletPc, sched : BOOLEAN, byte : Byte,
                   begin_offset : 0..PAGE_SIZE - 1, curr : Frames \cup {NoPage},
                   count : Int]
  BY PortFields
<1> SUFFICES Nothing' \/ InBuffer' \/ InTheHand'
  BY <1>1, <1>2 DEF PipeInv
<1>4. CASE TaskletStart \/ TaskletLock
  <2>1. /\ tasklet.pc \in {"idle", "lock"} /\ tasklet'.pc \in {"lock", "test"}
        /\ UNCHANGED <<cbuf, copied, accepted, write_offset, mem_list>>
    <3>1. CASE TaskletStart
      BY <1>3, <3>1 DEF TaskletStart
    <3>2. CASE TaskletLock
      BY <1>3, <3>2 DEF TaskletLock
    <3> QED BY <1>4, <3>1, <3>2
  <2>2. Nothing \/ InBuffer
    BY <2>1 DEF PipeInv, InTheHand
  <2> QED BY <2>1, <2>2 DEF Nothing, InBuffer, Room
<1>5. CASE TaskletTest
  <2>1. /\ tasklet.pc = "test" /\ tasklet'.pc = IF cbuf.count # 0 THEN "take" ELSE "unlock"
        /\ tasklet'.count = cbuf.count
        /\ UNCHANGED <<cbuf, copied, accepted, write_offset, mem_list>>
    BY <1>3, <1>5 DEF TaskletTest
  <2>2. Nothing \/ InBuffer
    BY <2>1 DEF PipeInv, InTheHand
  <2>3. CASE Nothing
    BY <2>1, <2>3 DEF Nothing
  <2>4. CASE InBuffer
    BY <2>1, <2>4 DEF InBuffer, Room
  <2> QED BY <2>2, <2>3, <2>4
<1>6. CASE TaskletTake
  <2>1. /\ tasklet.pc = "take" /\ tasklet'.pc = "dec" /\ tasklet'.count = tasklet.count
        /\ tasklet'.byte = cbuf.buffer[cbuf.head] /\ cbuf'.count = cbuf.count
        /\ UNCHANGED <<copied, accepted, write_offset, mem_list>>
    BY <1>3, <1>6, PortFields DEF TaskletTake
  <2>2. InBuffer
    BY <2>1 DEF PipeInv, Nothing, InTheHand
  <2> QED BY <2>1, <2>2 DEF InBuffer, InTheHand, Room
<1>7. CASE TaskletDec
  <2>1. tasklet.pc = "dec"
    BY <1>7 DEF TaskletDec
  <2>2. /\ accepted = Append(copied, tasklet.byte)
        /\ cbuf.count = 1 /\ tasklet.count = 1 /\ Room
    BY <2>1 DEF PipeInv, Nothing, InBuffer, InTheHand
  <2>3. cbuf'.count = 0
    <3>1. PICK loaded \in {tasklet.count, cbuf.count} :
            cbuf' = [cbuf EXCEPT !.count = loaded - 1]
      BY <1>7 DEF TaskletDec
    <3>2. cbuf'.count = loaded - 1
      BY <3>1, PortFields
    <3> QED BY <2>2, <3>1, <3>2
  <2>4. /\ tasklet'.pc = IF write_offset = 0 THEN "alloc" ELSE "store"
        /\ tasklet'.begin_offset = write_offset /\ tasklet'.byte = tasklet.byte
        /\ tasklet'.curr = IF write_offset = 0 \/ mem_list = <<>> THEN NoPage
                                                                   ELSE Head(mem_list)
        /\ UNCHANGED <<copied, accepted, write_offset, mem_list>>
    BY <1>3, <1>7 DEF TaskletDec
  <2>5. CASE write_offset = 0
    BY <2>2, <2>3, <2>4, <2>5 DEF InTheHand, Room
  <2>6. CASE write_offset # 0
    BY <2>2, <2>3, <2>4, <2>6 DEF InTheHand, First
  <2> QED BY <2>5, <2>6
<1>8. ASSUME NEW f \in Frames, TaskletAlloc(f)
      PROVE  InTheHand'
  <2>1. /\ tasklet.pc = "alloc" /\ tasklet'.pc = "store" /\ tasklet'.curr = f
        /\ tasklet'.byte = tasklet.byte /\ tasklet'.begin_offset = tasklet.begin_offset
        /\ mem_list' = Append(mem_list, f)
        /\ UNCHANGED <<cbuf, copied, accepted, write_offset>>
    BY <1>3, <1>8 DEF TaskletAlloc
  <2>2. InTheHand
    BY <2>1 DEF PipeInv, Nothing, InBuffer
  <2>3. mem_list' # <<>> /\ Head(mem_list') = f
    BY <2>1, <2>2 DEF InTheHand
  <2> QED BY <2>1, <2>2, <2>3 DEF InTheHand, First
<1>9. CASE TaskletStore
  <2>1. /\ tasklet.pc = "store" /\ tasklet'.pc = "test"
        /\ copied' = Append(copied, tasklet.byte) /\ UNCHANGED <<cbuf, accepted>>
    BY <1>3, <1>9 DEF TaskletStore, IdleTasklet
  <2>2. InTheHand
    BY <2>1 DEF PipeInv, Nothing, InBuffer
  <2> QED BY <2>1, <2>2 DEF InTheHand, Nothing
<1>10. CASE TaskletUnlock \/ TaskletWake
  <2>1. /\ tasklet.pc \in {"unlock", "wake"} /\ tasklet'.pc \in {"wake", "idle"}
        /\ UNCHANGED <<cbuf, accepted, copied>>
    <3>1. CASE TaskletUnlock
      BY <1>3, <3>1 DEF TaskletUnlock
    <3>2. CASE TaskletWake
      BY <1>3, <3>2 DEF TaskletWake, IdleTasklet
    <3> QED BY <1>10, <3>1, <3>2
  <2>2. Nothing
    BY <1>2, <2>1 DEF PipeInv, InBuffer, InTheHand
  <2> QED BY <2>1, <2>2 DEF Nothing
<1>11. ~TaskletAllocFail
  BY DEF TaskletAllocFail, WellMannered
<1> QED BY <1>4, <1>5, <1>6, <1>7, <1>8, <1>9, <1>10, <1>11 DEF TaskletStep

\* A process moves only when no byte is under way.
LEMMA PipeReader ==
  ASSUME OneAtATime, WellMannered,
         DriverTypes, TurnsInv, PipeInv, NEW r \in Readers, ReaderStep(r)
  PROVE  PipeInv' /\ Nothing
<1>1. /\ irq.pc = "idle" /\ ~TaskletDue
      /\ UNCHANGED <<cbuf, irq, tasklet, ghosts, copied>>
  BY MovesAlone
<1>2. Nothing
  BY <1>1 DEF PipeInv, InBuffer, InTheHand, TaskletDue
<1>3. Nothing'
  BY <1>1, <1>2 DEF Nothing, ghosts
<1> QED BY <1>1, <1>2, <1>3 DEF PipeInv

-----------------------------------------------------------------------------
(* What the port does to the table, the page and what readers know.        *)

\* A list that goes on as another one begins.
GoesOn(s, t) == Len(s) <= Len(t) /\ \A i \in 1..Len(s) : t[i] = s[i]

LEMMA AppendGoesOn ==
  ASSUME NEW S, NEW s \in Seq(S), NEW x \in S
  PROVE  GoesOn(s, s) /\ GoesOn(s, Append(s, x))
  BY DEF GoesOn

LEMMA PortGrows ==
  ASSUME DriverTypes, Arrives \/ Handler \/ Copying \/ WakeUp
  PROVE  /\ GoesOn(ends, ends') /\ GoesOn(accepted, accepted')
         /\ UNCHANGED <<got, read_offset>>
<1> USE DEF store, ghosts
<1>1. UNCHANGED <<got, read_offset>>
  BY DEF Arrives, Handler, Copying, WakeUp, readerVars, fileVars
<1>2. /\ ends \in Seq(Nat) /\ accepted \in Seq(Byte) /\ Len(accepted) \in Nat
      /\ top_full_byte \in Byte
  BY PortFields DEF DriverTypes, PortTypes, AssemblyType
<1>3. /\ ends' = ends \/ ends' = Append(ends, Len(accepted))
      /\ accepted' = accepted \/ accepted' = Append(accepted, top_full_byte)
  BY DEF Arrives, FirstHalf, SecondHalf, Handler, IrqContinues, IrqLock, IrqNul, IrqCount,
     IrqDrop, IrqStore, IrqUnlock, Copying, WakeUp, TaskletStep, TaskletStart, TaskletLock,
     TaskletTest, TaskletTake, TaskletDec, TaskletAlloc, TaskletAllocFail, TaskletStore,
     TaskletUnlock, TaskletWake
<1> QED BY <1>1, <1>2, <1>3, AppendGoesOn

\* A part of a sequence is known by its length and its elements.
LEMMA PartIs ==
  ASSUME NEW S, NEW s, NEW m \in Int, NEW n \in Int, \A i \in m..n : s[i] \in S,
         NEW u \in Seq(S), Len(u) = IF m <= n THEN n - m + 1 ELSE 0,
         \A i \in 1..n - m + 1 : u[i] = s[m + i - 1]
  PROVE  u = SubSeq(s, m, n)
<1> DEFINE part == SubSeq(s, m, n)
<1>1. /\ part \in Seq(S) /\ Len(part) = IF m <= n THEN n - m + 1 ELSE 0
      /\ \A i \in 1..n - m + 1 : part[i] = s[m + i - 1]
  BY SubSeqProperties, SMTT(30)
<1> HIDE DEF part
<1>2. Len(u) = Len(part) /\ \A i \in 1..Len(u) : u[i] = part[i]
  BY <1>1
<1>3. u = part
  BY <1>1, <1>2, SeqEqual
<1> QED BY <1>3 DEF part

LEMMA PartStays ==
  ASSUME NEW S, NEW s \in Seq(S), NEW t \in Seq(S), GoesOn(s, t),
         NEW m \in Nat \ {0}, NEW n \in Nat, n <= Len(s)
  PROVE  SubSeq(t, m, n) = SubSeq(s, m, n)
<1>1. \A i \in m..n : i \in 1..Len(s) /\ t[i] = s[i] /\ s[i] \in S
  BY DEF GoesOn
<1> DEFINE u == SubSeq(s, m, n)
<1>2. /\ u \in Seq(S) /\ Len(u) = IF m <= n THEN n - m + 1 ELSE 0
      /\ \A i \in 1..n - m + 1 : u[i] = s[m + i - 1]
  <2>1. m \in Int /\ n \in Int /\ \A i \in m..n : s[i] \in S
    BY <1>1
  <2> QED BY <2>1, SubSeqProperties, SMTT(30)
<1> HIDE DEF u
<1>3. ASSUME NEW i \in 1..n - m + 1 PROVE u[i] = t[m + i - 1]
  <2>1. m + i - 1 \in m..n
    OBVIOUS
  <2> QED BY <1>1, <1>2, <2>1
<1>4. u = SubSeq(t, m, n)
  BY <1>1, <1>2, <1>3, PartIs
<1> QED BY <1>4 DEF u

\* So nothing changes of the sessions that were ended.
LEMMA SessionsStay ==
  ASSUME DriverTypes, DriverTypes', TableInv, GoesOn(ends, ends'), GoesOn(accepted, accepted')
  PROVE  /\ \A k \in 0..Len(ends) : EndOf(k)' = EndOf(k)
         /\ \A k \in 1..Len(ends) : Session(k)' = Session(k) /\ SizeOf(k)' = SizeOf(k)
<1>1. /\ ends \in Seq(Nat) /\ ends' \in Seq(Nat) /\ accepted \in Seq(Byte)
      /\ accepted' \in Seq(Byte)
  BY PortFields DEF DriverTypes, PortTypes, GhostType
<1>2. ASSUME NEW k \in 0..Len(ends) PROVE EndOf(k)' = EndOf(k)
  BY <1>1, <1>2 DEF EndOf, GoesOn
<1>3. ASSUME NEW k \in 1..Len(ends)
      PROVE  Session(k)' = Session(k) /\ SizeOf(k)' = SizeOf(k)
  <2>1. /\ k - 1 \in 0..Len(ends) /\ k \in 0..Len(ends)
        /\ ends'[k] = ends[k] /\ ends[k] \in Nat /\ ends[k] <= Len(accepted)
    BY <1>1, SMTT(30) DEF GoesOn, TableInv
  <2>2. EndOf(k - 1)' = EndOf(k - 1)
    BY <1>2, <2>1
  <2>3. SizeOf(k)' = SizeOf(k)
    BY <2>1, <2>2 DEF SizeOf
  <2> DEFINE from == IF k = 1 THEN 1 ELSE ends[k - 1] + 1
             upto == ends[k]
  <2>4. from \in Nat \ {0} /\ from = IF k = 1 THEN 1 ELSE ends'[k - 1] + 1
    <3>1. CASE k = 1
      BY <3>1
    <3>2. CASE k # 1
      <4>1. k - 1 \in 1..Len(ends) /\ k \in Nat /\ Len(ends) \in Nat
        BY <1>1, <3>2
      <4>2. ends[k - 1] \in Nat /\ ends'[k - 1] = ends[k - 1]
        BY <1>1, <4>1, SMTT(30) DEF GoesOn
      <4> QED BY <3>2, <4>2
    <3> QED BY <3>1, <3>2
  <2>5. Session(k) = SubSeq(accepted, from, upto) /\ Session(k)' = SubSeq(accepted', from, upto)
    BY <2>1, <2>4 DEF Session
  <2> HIDE DEF from, upto
  <2>6. upto \in Nat /\ upto <= Len(accepted)
    BY <2>1 DEF upto
  <2>7. SubSeq(accepted', from, upto) = SubSeq(accepted, from, upto)
    <3>1. /\ accepted \in Seq(Byte) /\ accepted' \in Seq(Byte) /\ GoesOn(accepted, accepted')
          /\ from \in Nat \ {0} /\ upto \in Nat /\ upto <= Len(accepted)
      BY <1>1, <2>4, <2>6
    <3> QED BY <3>1, PartStays, Zenon
  <2> QED BY <2>3, <2>5, <2>7
<1> QED BY <1>2, <1>3

LEMMA TableStays ==
  ASSUME TableInv, UNCHANGED <<accepted, ends, got>>,
         sessions'.head = sessions.head, sessions'.sizes = sessions.sizes,
         irq'.pc \in {"lock", "body"} => irq'.session_end = Len(ends),
         Ending' => EndOf(Len(ends)) < Len(accepted)
  PROVE  TableInv'
  BY DEF TableInv, EndOf

LEMMA TableArrives ==
  ASSUME OneAtATime, WellMannered,
         DriverTypes, TurnsInv, CountInv, Tabled, TableInv, Arrives
  PROVE  TableInv'
<1> USE DEF store, ghosts
<1>1. PICK pins \in PinLevels :
        Mannered(pins) /\ (FirstHalf(pins) \/ \E at \in Arrivals : SecondHalf(pins, at))
  BY DEF Arrives
<1>2. UNCHANGED <<sessions, accepted, ends, got>> /\ irq.pc = "idle"
  BY <1>1 DEF Arrives, FirstHalf, SecondHalf, readerVars
<1>3. CASE FirstHalf(pins)
  <2>1. irq'.pc = "idle"
    BY <1>2, <1>3 DEF FirstHalf
  <2> QED BY <1>2, <2>1, TableStays DEF Ending
<1>4. ASSUME NEW at \in Arrivals, SecondHalf(pins, at)
      PROVE  TableInv'
  <2>1. irq'.pc = "lock" /\ irq'.session_end = SessionEnd
    <3>1. irq' = [irq EXCEPT !.pc = "lock", !.at = at, !.cbuf_end = CbufEnd,
                             !.session_end = SessionEnd]
      BY <1>4 DEF SecondHalf
    <3> QED BY <3>1, PortFields
  <2>2. SessionEnd = Len(ends)
    <3>1. \A r \in Readers : ~Counting(r)
      BY Quiet DEF TurnsInv, Counting
    <3>2. sessions.head + sessions.count = Len(ends) /\ Len(ends) \in Nat
      <4>1. sessions.count = Len(ends) - Len(got) /\ sessions.head = Len(got)
        BY <3>1 DEF CountInv, TableInv
      <4>2. Len(ends) \in Nat /\ Len(got) \in Nat
        BY PortFields
      <4> QED BY <4>1, <4>2
    <3>3. Len(ends) \in 0..2 * MAX_SESSIONS - 1 /\ Len(ends) < MAX_SESSIONS
      BY <3>2, SizeAssumption DEF Tabled
    <3>4. Len(ends) % MAX_SESSIONS = Len(ends)
      BY <3>3, ModOneTurn, SizeAssumption DEF OneTurn
    <3> QED BY <3>2, <3>4 DEF SessionEnd, CMod
  <2>3. top_full_byte' = 0 => EndOf(Len(ends)) < Len(accepted)
    <3> SUFFICES ASSUME top_full_byte' = 0 PROVE EndOf(Len(ends)) < Len(accepted)
      OBVIOUS
    <3>1. Ends(pins)
      BY <1>4 DEF SecondHalf, Ends
    <3>2. Len(accepted) > LastEnd
      BY <1>1, <3>1 DEF Mannered, WellMannered, AllManners
    <3>3. LastEnd = EndOf(Len(ends)) /\ EndOf(Len(ends)) \in Nat
      <4>1. ends \in Seq(Nat)
        BY PortFields
      <4>2. CASE ends = <<>>
        BY <4>2 DEF LastEnd, EndOf
      <4>3. CASE ends # <<>>
        <5>1. Len(ends) \in Nat \ {0} /\ ends[Len(ends)] \in Nat
          BY <4>1, <4>3
        <5> QED BY <4>3, <5>1 DEF LastEnd, EndOf, Last
      <4> QED BY <4>2, <4>3
    <3>4. Len(accepted) \in Nat
      BY PortFields
    <3> QED BY <3>2, <3>3, <3>4
  <2> QED BY <1>2, <2>1, <2>2, <2>3, TableStays DEF Ending
<1> QED BY <1>1, <1>3, <1>4

LEMMA TableHandler ==
  ASSUME DriverTypes, Tabled, TableInv, Handler
  PROVE  TableInv'
<1> USE DEF assembly, store, ghosts
<1>1. /\ sessions \in [head : 0..MAX_SESSIONS - 1, count : Int,
                       sizes : [0..MAX_SESSIONS - 1 -> Nat]]
      /\ irq \in [pc : IrqPc, at : {Nested, Remote}, cbuf_end : Int, session_end : Int,
                  count : Int]
      /\ accepted \in Seq(Byte) /\ ends \in Seq(Nat)
      /\ Len(accepted) \in Nat /\ Len(ends) \in Nat /\ Len(got) \in Nat
  BY PortFields
<1>2. UNCHANGED got
  BY DEF Handler, readerVars
<1>3. CASE IrqLock
  <2>1. /\ irq.pc = "lock" /\ irq'.pc = "body" /\ irq'.session_end = irq.session_end
        /\ UNCHANGED <<sessions, accepted, ends, top_full_byte>>
    BY <1>1, <1>3 DEF IrqLock
  <2> QED BY <1>2, <2>1, TableStays DEF TableInv, Ending
<1>4. CASE IrqNul
  <2>1. /\ irq.pc = "body" /\ irq'.pc = "count" /\ top_full_byte = 0
        /\ UNCHANGED <<sessions, accepted, ends>>
    BY <1>1, <1>4 DEF IrqNul
  <2> QED BY <1>2, <2>1, TableStays DEF TableInv, Ending
<1>5. CASE IrqDrop \/ IrqUnlock
  <2>1. irq'.pc = "idle" /\ UNCHANGED <<sessions, accepted, ends>>
    BY <1>5 DEF IrqDrop, IrqUnlock, IdleIrq
  <2> QED BY <1>2, <2>1, TableStays DEF Ending
<1>6. CASE IrqCount
  <2>1. /\ irq.pc = "count" /\ irq'.pc = "unlock" /\ ends' = Append(ends, Len(accepted))
        /\ sessions'.head = sessions.head /\ sessions'.sizes = sessions.sizes
        /\ UNCHANGED accepted
    BY <1>1, <1>6 DEF IrqCount
  <2>2. EndOf(Len(ends)) < Len(accepted)
    BY <2>1 DEF TableInv, Ending
  <2>3. /\ Len(ends') = Len(ends) + 1 /\ ends'[Len(ends) + 1] = Len(accepted)
        /\ \A k \in 1..Len(ends) : ends'[k] = ends[k]
    BY <1>1, <2>1
  <2>4. \A k \in 0..Len(ends) : EndOf(k)' = EndOf(k)
    BY <2>3 DEF EndOf
  <2>5. ASSUME NEW k \in 1..Len(ends')
        PROVE  EndOf(k - 1)' < ends'[k] /\ ends'[k] <= Len(accepted')
    <3>1. k - 1 \in 0..Len(ends)
      BY <1>1, <2>3
    <3>2. CASE k = Len(ends) + 1
      <4>1. /\ k - 1 = Len(ends) /\ Len(ends) \in 0..Len(ends) /\ ends'[k] = Len(accepted)
            /\ Len(accepted') = Len(accepted)
        BY <1>1, <2>1, <2>3, <3>2
      <4>2. EndOf(k - 1)' = EndOf(Len(ends))
        BY <2>4, <4>1
      <4> QED BY <1>1, <2>2, <4>1, <4>2
    <3>3. CASE k \in 1..Len(ends)
      BY <2>1, <2>3, <2>4, <3>1, <3>3 DEF TableInv
    <3> QED BY <1>1, <2>3, <3>2, <3>3
  <2>6. Framed(sessions.sizes, ends', Len(accepted))
    BY <1>1, <2>1, EndFramed DEF TableInv
  <2>7. Len(got') <= Len(ends') /\ sessions'.head = Len(got')
    BY <1>1, <1>2, <2>1, <2>3 DEF TableInv
  <2> QED BY <2>1, <2>5, <2>6, <2>7 DEF TableInv, Ending
<1>7. CASE IrqStore
  <2> DEFINE at == irq.session_end
             sizes == sessions.sizes
             next == [sizes EXCEPT ![at] = sizes[at] + 1]
  <2>1. /\ sessions' = [sessions EXCEPT !.sizes = next]
        /\ accepted' = Append(accepted, top_full_byte) /\ ends' = ends
        /\ irq'.pc = "unlock" /\ irq.pc = "body"
    BY <1>1, <1>7 DEF IrqStore
  <2>2. Len(accepted') = Len(accepted) + 1
    <3>1. top_full_byte \in Byte
      BY DEF DriverTypes, PortTypes, AssemblyType
    <3> QED BY <1>1, <2>1, <3>1
  <2>3. at = Len(ends) /\ Len(ends) < MAX_SESSIONS /\ Framed(sizes, ends, Len(accepted))
    BY <2>1 DEF TableInv, Tabled
  <2>4. at \in 0..MAX_SESSIONS - 1 /\ sizes \in [0..MAX_SESSIONS - 1 -> Nat]
    BY <1>1, <2>3, SizeAssumption
  <2> HIDE DEF at, sizes
  <2>5. Framed(next, ends, Len(accepted) + 1)
    BY <1>1, <2>3, <2>4, ByteFramed
  <2> HIDE DEF next
  <2>6. sessions'.head = sessions.head /\ sessions'.sizes = next
    BY <1>1, <2>1
  <2>7. \A k \in 1..Len(ends) : ends[k] <= Len(accepted')
    <3>1. \A k \in 1..Len(ends) : ends[k] \in Nat /\ ends[k] <= Len(accepted)
      BY <1>1 DEF TableInv
    <3> QED BY <1>1, <2>2, <3>1
  <2>8. \A k \in 1..Len(ends) : EndOf(k - 1)' = EndOf(k - 1)
    BY <2>1 DEF EndOf
  <2> QED BY <1>2, <2>1, <2>2, <2>5, <2>6, <2>7, <2>8 DEF TableInv, Ending
<1> QED BY <1>3, <1>4, <1>5, <1>6, <1>7 DEF Handler, IrqContinues

LEMMA TableTasklet ==
  ASSUME TableInv, Copying \/ WakeUp
  PROVE  TableInv'
<1>1. UNCHANGED <<sessions, accepted, ends, irq, top_full_byte, got>>
  BY DEF Copying, WakeUp, TaskletStep, TaskletStart, TaskletLock, TaskletTest, TaskletTake,
     TaskletDec, TaskletAlloc, TaskletAllocFail, TaskletStore, TaskletUnlock, TaskletWake,
     assembly, ghosts, readerVars
<1> QED BY <1>1, TableStays DEF TableInv, Ending

\* Processes are where they were, or woken.
LEMMA QuietAfter ==
  ASSUME OneAtATime, WellMannered,
         DriverTypes, TurnsInv, Arrives \/ Handler \/ Copying \/ WakeUp
  PROVE  /\ ~Taking /\ ~Freeing /\ ~Taking' /\ ~Freeing'
         /\ \A r \in Readers : \/ reader'[r] = reader[r]
                               \/ /\ reader[r].pc = "asleep"
                                  /\ reader'[r] = [reader[r] EXCEPT !.pc = "woken"]
<1>1. \A r \in Readers : reader[r].pc \in {"closed", "open", "asleep"}
  BY Quiet DEF TurnsInv
<1>2. \A r \in Readers : \/ reader'[r] = reader[r]
                         \/ /\ reader[r].pc = "asleep"
                            /\ reader'[r] = [reader[r] EXCEPT !.pc = "woken"]
  BY DEF Arrives, Handler, Copying, WakeUp, readerVars
<1>3. \A r \in Readers : reader'[r].pc \in {"closed", "open", "asleep", "woken"}
  <2> SUFFICES ASSUME NEW r \in Readers
               PROVE  reader'[r].pc \in {"closed", "open", "asleep", "woken"}
    OBVIOUS
  <2>1. reader[r] \in Local
    BY DEF DriverTypes, ReadTypes, Fits
  <2>2. [reader[r] EXCEPT !.pc = "woken"].pc = "woken"
    BY <2>1 DEF Local
  <2> QED BY <1>1, <1>2, <2>2
<1> QED BY <1>1, <1>2, <1>3 DEF Taking, Takes, Freeing

LEMMA TakenStays ==
  ASSUME OneAtATime, WellMannered,
         DriverTypes, DriverTypes', TurnsInv, TableInv,
         Arrives \/ Handler \/ Copying \/ WakeUp
  PROVE  Taken' = Taken
<1>1. ~Taking /\ ~Taking'
  BY QuietAfter
<1>2. got' = got /\ \A k \in 1..Len(ends) : ends'[k] = ends[k]
  BY PortGrows DEF GoesOn
<1>3. Len(got) \in 0..Len(ends)
  BY PortFields DEF TableInv
<1>4. EndOf(Len(got))' = EndOf(Len(got))
  BY <1>2, <1>3 DEF EndOf
<1> QED BY <1>1, <1>4 DEF Taken

LEMMA PageStays ==
  ASSUME PageInv, Taken' = Taken, Freeing' <=> Freeing, Filled' = Filled,
         UNCHANGED <<mem_list, page, copied, write_offset, read_offset>>
  PROVE  PageInv'
  BY DEF PageInv, HasPage, First

LEMMA PagePort ==
  ASSUME OneAtATime, WellMannered,
         DriverTypes, DriverTypes', TurnsInv, PipeInv, TableInv, PageInv,
         Arrives \/ Handler \/ Copying \/ WakeUp
  PROVE  PageInv'
<1> USE DEF store, ghosts, assembly
<1>1. Taken' = Taken /\ ~Freeing /\ ~Freeing' /\ UNCHANGED read_offset
  BY TakenStays, QuietAfter, PortGrows
<1>2. tasklet \in [pc : TaskletPc, sched : BOOLEAN, byte : Byte,
                   begin_offset : 0..PAGE_SIZE - 1, curr : Frames \cup {NoPage},
                   count : Int]
  BY PortFields
<1>3. ASSUME UNCHANGED <<mem_list, page, copied, write_offset>>,
             tasklet.pc = "store" \/ tasklet'.pc = "store" =>
               tasklet.pc = tasklet'.pc \/ write_offset # 0
      PROVE  PageInv'
  <2>1. Filled' = Filled
    BY <1>3 DEF Filled
  <2> QED BY <1>1, <1>3, <2>1, PageStays
<1>4. CASE Arrives \/ Handler
  <2>1. tasklet' = tasklet \/ tasklet' = [tasklet EXCEPT !.sched = TRUE]
    BY <1>4 DEF Arrives, FirstHalf, SecondHalf, Handler, IrqContinues, IrqLock, IrqNul,
       IrqCount, IrqDrop, IrqStore, IrqUnlock
  <2>2. tasklet'.pc = tasklet.pc
    BY <1>2, <2>1
  <2>3. UNCHANGED <<mem_list, page, copied, write_offset>>
    BY <1>4 DEF Arrives, FirstHalf, SecondHalf, Handler, IrqContinues, IrqLock, IrqNul,
       IrqCount, IrqDrop, IrqStore, IrqUnlock
  <2> QED BY <1>3, <2>2, <2>3
<1>5. CASE \/ TaskletStart \/ TaskletLock \/ TaskletTest \/ TaskletTake
           \/ TaskletUnlock \/ TaskletWake
  <2>1. UNCHANGED <<mem_list, page, copied, write_offset>> /\ tasklet.pc # "store"
    BY <1>5 DEF TaskletStart, TaskletLock, TaskletTest, TaskletTake, TaskletUnlock,
       TaskletWake
  <2>2. tasklet'.pc # "store"
    <3>1. CASE TaskletStart \/ TaskletLock \/ TaskletTest
      BY <1>2, <3>1 DEF TaskletStart, TaskletLock, TaskletTest
    <3>2. CASE TaskletTake \/ TaskletUnlock
      BY <1>2, <3>2 DEF TaskletTake, TaskletUnlock
    <3>3. CASE TaskletWake
      BY <3>3 DEF TaskletWake, IdleTasklet
    <3> QED BY <1>5, <3>1, <3>2, <3>3
  <2> QED BY <1>3, <2>1, <2>2
<1>6. CASE TaskletDec
  <2>1. /\ UNCHANGED <<mem_list, page, copied, write_offset>> /\ tasklet.pc = "dec"
        /\ tasklet'.pc = IF write_offset = 0 THEN "alloc" ELSE "store"
    BY <1>2, <1>6 DEF TaskletDec
  <2> QED BY <1>3, <2>1
<1>7. ASSUME NEW f \in Frames, TaskletAlloc(f)
      PROVE  PageInv'
  <2>1. /\ tasklet.pc = "alloc" /\ tasklet'.pc = "store" /\ mem_list' = Append(mem_list, f)
        /\ UNCHANGED <<page, copied, write_offset>>
    BY <1>2, <1>7 DEF TaskletAlloc
  <2>2. write_offset = 0 /\ mem_list = <<>>
    BY <2>1 DEF PipeInv, Nothing, InBuffer, InTheHand
  <2>3. read_offset = 0 /\ Taken = Len(copied)
    BY <2>2 DEF PageInv
  <2>4. Filled' = 0 /\ mem_list' # <<>> /\ Len(mem_list') = 1
    BY <2>1, <2>2 DEF Filled
  <2>5. HasPage'
    BY <1>1, <2>1, <2>3, <2>4, PortFields DEF HasPage
  <2> QED BY <2>4, <2>5 DEF PageInv
<1>8. CASE TaskletStore
  <2> DEFINE w == write_offset
             f == tasklet.curr
             b == tasklet.byte
  <2>1. /\ tasklet.pc = "store" /\ tasklet'.pc = "test" /\ f # NoPage
        /\ page' = [page EXCEPT ![f][tasklet.begin_offset] = b]
        /\ copied' = Append(copied, b) /\ write_offset' = (w + 1) % PAGE_SIZE
        /\ UNCHANGED mem_list
    BY <1>2, <1>8 DEF TaskletStore, IdleTasklet
  <2>2. tasklet.begin_offset = w /\ f = First
    BY <2>1 DEF PipeInv, Nothing, InBuffer, InTheHand
  <2>3. mem_list # <<>> /\ First' = f /\ f \in Frames
    BY <1>2, <2>1, <2>2 DEF First
  <2>4. /\ Len(mem_list) = 1 /\ HasPage /\ Filled = w
    BY <2>1, <2>3 DEF PageInv, Filled
  <2>5. /\ w \in 0..PAGE_SIZE - 1 /\ Len(copied) \in Nat /\ copied \in Seq(Byte) /\ b \in Byte
        /\ page \in [Frames -> [0..PAGE_SIZE - 1 -> Byte]] /\ read_offset \in Nat
        /\ Taken = Len(copied) - w + read_offset /\ w <= Len(copied) /\ read_offset <= w
    BY <1>1, <1>2, <2>4, PortFields, SizeAssumption, SMTT(30) DEF HasPage, DriverTypes, PortTypes, PagesTypes
  <2>6. Len(copied') = Len(copied) + 1 /\ copied'[Len(copied) + 1] = b
        /\ \A i \in 1..Len(copied) : copied'[i] = copied[i]
    BY <2>1, <2>5
  <2>7. Filled' = w + 1
    <3>0. w + 1 \in 0..2 * PAGE_SIZE - 1 /\ w + 1 <= PAGE_SIZE
      BY <2>5, SizeAssumption
    <3>1. CASE w + 1 < PAGE_SIZE
      <4>1. (w + 1) % PAGE_SIZE = w + 1
        BY <3>0, <3>1, ModOneTurn, SizeAssumption DEF OneTurn
      <4> QED BY <2>1, <2>5, <4>1 DEF Filled
    <3>2. CASE w + 1 = PAGE_SIZE
      <4>1. (w + 1) % PAGE_SIZE = 0
        BY <3>0, <3>2, ModOneTurn, SizeAssumption DEF OneTurn
      <4> QED BY <2>1, <2>5, <3>2, <4>1 DEF Filled
    <3> QED BY <2>5, <3>0, <3>1, <3>2, SizeAssumption
  <2>8. ASSUME NEW i \in 1..Filled'
        PROVE  page'[First'][i - 1] = copied'[Len(copied') - Filled' + i]
    <3>1. page'[f] = [page[f] EXCEPT ![w] = b]
      BY <2>1, <2>2, <2>3, <2>5
    <3>2. Len(copied') - Filled' + i = Len(copied) - w + i /\ i \in 1..w + 1
      BY <2>5, <2>6, <2>7
    <3>3. CASE i = w + 1
      <4>0. i - 1 = w
        BY <2>5, <3>3
      <4>1. page'[f][i - 1] = b
        BY <2>3, <2>5, <3>1, <4>0
      <4>2. Len(copied) - w + i = Len(copied) + 1
        BY <2>5, <3>3
      <4> QED BY <2>3, <2>6, <3>2, <4>1, <4>2
    <3>4. CASE i # w + 1
      <4>1. i \in 1..w /\ i - 1 # w /\ i - 1 \in 0..PAGE_SIZE - 1
        BY <2>5, <3>2, <3>4, SizeAssumption
      <4>2. page'[f][i - 1] = page[f][i - 1]
        BY <2>3, <2>5, <3>1, <4>1
      <4>3. page[f][i - 1] = copied[Len(copied) - w + i]
        BY <2>2, <2>4, <4>1 DEF HasPage
      <4>4. Len(copied) - w + i \in 1..Len(copied)
        BY <2>5, <4>1
      <4> QED BY <2>3, <2>6, <3>2, <4>2, <4>3, <4>4
    <3> QED BY <3>3, <3>4
  <2>9. /\ Filled' <= Len(copied') /\ read_offset' <= Filled'
        /\ Taken' = Len(copied') - Filled' + read_offset'
    BY <1>1, <2>5, <2>6, <2>7
  <2>10. HasPage'
    BY <1>1, <2>8, <2>9 DEF HasPage
  <2> QED BY <2>1, <2>3, <2>4, <2>10 DEF PageInv
<1>9. ~TaskletAllocFail
  BY DEF TaskletAllocFail, WellMannered
<1> QED BY <1>4, <1>5, <1>6, <1>7, <1>8, <1>9 DEF Copying, WakeUp, TaskletStep

LEMMA ReadPort ==
  ASSUME OneAtATime, WellMannered,
         DriverTypes, DriverTypes', TurnsInv, TableInv, ReadInv,
         Arrives \/ Handler \/ Copying \/ WakeUp
  PROVE  ReadInv'
<1>1. /\ ~Taking /\ ~Taking'
      /\ \A r \in Readers : \/ reader'[r] = reader[r]
                            \/ /\ reader[r].pc = "asleep"
                               /\ reader'[r] = [reader[r] EXCEPT !.pc = "woken"]
  BY QuietAfter
<1>2. UNCHANGED got /\ \A k \in 1..Len(ends) : Session(k)' = Session(k)
  BY PortGrows, SessionsStay
<1>3. \A k \in 1..Len(got) : k \in 1..Len(ends)
  BY PortFields DEF TableInv
<1>4. GotInv'
  BY <1>1, <1>2, <1>3 DEF GotInv, ReadInv
<1>5. ASSUME NEW r \in Readers
      PROVE  Knows(reader[r])'
  <2>1. reader[r].pc \in {"closed", "open", "asleep"}
    BY Quiet DEF TurnsInv
  <2>2. reader[r] \in Local /\ Knows(reader[r])
    BY DEF ReadInv, DriverTypes, ReadTypes, Fits
  <2>3. /\ reader[r].nth = 0
        /\ reader[r].pc \notin {"closed", "opening", "open"} => reader[r].want >= PAGE_SIZE
    BY <2>1, <2>2 DEF Knows, InSession, Takes
  <2>4. CASE reader'[r] = reader[r]
    BY <2>1, <2>3, <2>4 DEF Knows, InSession, Takes
  <2>5. CASE /\ reader[r].pc = "asleep"
             /\ reader'[r] = [reader[r] EXCEPT !.pc = "woken"]
    <3>1. /\ reader'[r].pc = "woken" /\ reader'[r].nth = reader[r].nth
          /\ reader'[r].want = reader[r].want
      BY <2>2, <2>5 DEF Local
    <3> QED BY <2>3, <2>5, <3>1 DEF Knows, InSession, Takes
  <2> QED BY <1>1, <2>4, <2>5
<1> QED BY <1>4, <1>5 DEF ReadInv

-----------------------------------------------------------------------------
(* What a reader does to them.                                             *)

\* Who moves is the only one that can be taking a session or freeing a page.
LEMMA OnlyOne ==
  ASSUME OneAtATime, WellMannered,
         DriverTypes, TurnsInv, NEW r \in Readers, ReaderStep(r)
  PROVE  /\ (Taking <=> reader[r].pc \in Takes) /\ (Taking' <=> reader'[r].pc \in Takes)
         /\ (Freeing <=> reader[r].pc = "free") /\ (Freeing' <=> reader'[r].pc = "free")
<1>1. \A s \in Readers \ {r} : reader[s].pc = "closed" /\ reader'[s].pc = "closed"
  BY MovesAlone
<1> QED BY <1>1 DEF Taking, Takes, Freeing

LEMMA ReadTurn ==
  ASSUME OneAtATime, WellMannered,
         DriverTypes, TurnsInv, ReadInv, NEW r \in Readers, ReaderStep(r),
         GotInv', Knows(reader[r])'
  PROVE  ReadInv'
<1>1. \A s \in Readers \ {r} : reader[s].pc = "closed" /\ reader'[s] = reader[s]
  BY MovesAlone
<1>2. ASSUME NEW s \in Readers \ {r} PROVE Knows(reader[s])'
  BY <1>1 DEF ReadInv, Knows, InSession, Takes
<1> QED BY <1>2 DEF ReadInv

\* A step that leaves the table, the pages and what was read alone.
LEMMA ReaderElsewhere ==
  ASSUME OneAtATime, WellMannered,
         DriverTypes, TurnsInv, TableInv, PageInv, ReadInv,
         NEW r \in Readers, ReaderStep(r), NEW pc, NEW next, Goes(r, pc, next), Knows(next),
         sessions'.head = sessions.head, sessions'.sizes = sessions.sizes,
         UNCHANGED <<got, mem_list, read_offset>>,
         pc \in Takes <=> next.pc \in Takes, pc # "free", next.pc # "free"
  PROVE  TableInv' /\ PageInv' /\ ReadInv'
<1>1. /\ irq.pc = "idle" /\ UNCHANGED <<irq, tasklet, ghosts, page, write_offset, copied>>
  BY MovesAlone
<1>2. reader[r].pc = pc /\ reader'[r] = next
  BY DEF Goes, DriverTypes, ReadTypes
<1>3. TableInv'
  BY <1>1, TableStays DEF Ending, ghosts
<1>4. (Taking' <=> Taking) /\ ~Freeing /\ ~Freeing'
  BY <1>2, OnlyOne
<1>5. Taken' = Taken /\ Filled' = Filled
  BY <1>1, <1>4 DEF Taken, Filled, EndOf, ghosts
<1>6. PageInv'
  BY <1>1, <1>4, <1>5, PageStays
<1>7. \A k \in 1..Len(got) : Session(k)' = Session(k)
  BY <1>1 DEF Session, ghosts
<1>8. GotInv'
  BY <1>4, <1>7 DEF GotInv, ReadInv
<1>9. Knows(reader[r])'
  BY <1>1, <1>2 DEF Knows, SizeOf, EndOf, First, ghosts
<1> QED BY <1>3, <1>6, <1>8, <1>9, ReadTurn

\* A session is there if count says so.
LEMMA SessionThere ==
  ASSUME OneAtATime, WellMannered,
         DriverTypes, TurnsInv, CountInv, TableInv, NEW r \in Readers,
         ReaderStep(r), reader[r].pc \notin {"load", "dec"}, sessions.count # 0
  PROVE  Len(got) < Len(ends)
<1>1. \A s \in Readers \ {r} : reader[s].pc = "closed"
  BY MovesAlone
<1>2. sessions.count = Len(ends) - Len(got)
  BY <1>1 DEF CountInv, Counting
<1>3. Len(got) \in Nat /\ Len(ends) \in Nat /\ Len(got) <= Len(ends)
  BY PortFields DEF TableInv
<1> QED BY <1>2, <1>3

\* Opening, closing, and a read until it has taken its session.
LEMMA ReaderBegins ==
  ASSUME OneAtATime, WellMannered,
         DriverTypes, TurnsInv, CountInv, Tabled, TableInv, PageInv, ReadInv,
         NEW r \in Readers, ReaderStep(r),
         \/ OpenTest(r) \/ OpenEnter(r) \/ CloseFile(r) \/ \E n \in NprocLimits : SetNproc(r, n)
         \/ \E n \in ReadSizes : ReadStart(r, n)
         \/ ReadOffset(r) \/ ReadWait(r) \/ ReadSize(r)
  PROVE  TableInv' /\ PageInv' /\ ReadInv'
<1> USE DEF portVars, store, fileVars
<1>0. UNCHANGED <<sessions, got, mem_list, read_offset>>
  BY DEF OpenTest, OpenEnter, CloseFile, SetNproc, ReadStart, ReadOffset, ReadWait, ReadSize
<1>1. ASSUME NEW pc, NEW next, Goes(r, pc, next), Knows(next),
             pc \notin InSession, next.pc \notin InSession
      PROVE  TableInv' /\ PageInv' /\ ReadInv'
  BY <1>0, <1>1, ReaderElsewhere DEF InSession, Takes
<1>2. reader[r] \in Local /\ Knows(reader[r])
  BY DEF ReadInv, DriverTypes, ReadTypes, Fits
<1>3. CASE OpenTest(r)
  <2> DEFINE next == [Closed EXCEPT !.pc = "opening"]
  <2>1. next.pc = "opening" /\ next.nth = 0
    BY DEF Closed
  <2>2. Goes(r, "closed", next)
    BY <1>3 DEF OpenTest
  <2> HIDE DEF next
  <2>3. Knows(next)
    BY <2>1 DEF Knows, InSession, Takes
  <2> QED BY <1>1, <2>1, <2>2, <2>3 DEF InSession, Takes
<1>4. CASE OpenEnter(r)
  <2>1. Opened.pc = "open" /\ Opened.nth = 0
    BY DEF Opened, Closed
  <2>2. Goes(r, "opening", Opened)
    BY <1>4 DEF OpenEnter
  <2>3. Knows(Opened)
    BY <2>1 DEF Knows, InSession, Takes
  <2> QED BY <1>1, <2>1, <2>2, <2>3 DEF InSession, Takes
<1>5. CASE CloseFile(r)
  <2>1. Closed.pc = "closed" /\ Closed.nth = 0
    BY DEF Closed
  <2>2. Goes(r, "open", Closed)
    BY <1>5 DEF CloseFile
  <2>3. Knows(Closed)
    BY <2>1 DEF Knows, InSession, Takes
  <2> QED BY <1>1, <2>1, <2>2, <2>3 DEF InSession, Takes
<1>6. CASE \E n \in NprocLimits : SetNproc(r, n)
  <2>1. Goes(r, "open", reader[r]) /\ reader[r].pc = "open"
    BY <1>6 DEF SetNproc, Goes
  <2> QED BY <1>1, <1>2, <2>1 DEF InSession, Takes
<1>7. ASSUME NEW n \in ReadSizes, ReadStart(r, n)
      PROVE  TableInv' /\ PageInv' /\ ReadInv'
  <2> DEFINE next == [Opened EXCEPT !.want = n,
                        !.pc = IF sessions.count = 0 THEN "offset" ELSE "size"]
  <2>1. /\ next.pc = IF sessions.count = 0 THEN "offset" ELSE "size"
        /\ next.want = n /\ next.nth = 0
    BY DEF Opened, Closed
  <2>2. Goes(r, "open", next) /\ reader[r].pc = "open"
    BY <1>7 DEF ReadStart, Goes
  <2> HIDE DEF next
  <2>3. n >= PAGE_SIZE
    BY DEF WellMannered
  <2>4. sessions.count = 0 => read_offset = write_offset
    <3>1. sessions.count > 0 \/ read_offset = write_offset
      BY <1>7 DEF ReadStart, WellMannered, AllManners
    <3>2. sessions.count \in Int
      BY PortFields
    <3> QED BY <3>1, <3>2
  <2>5. sessions.count # 0 => Len(got) < Len(ends)
    BY <2>2, SessionThere
  <2>6. Knows(next)
    BY <2>1, <2>3, <2>4, <2>5 DEF Knows, InSession, Takes
  <2> QED BY <1>1, <2>1, <2>2, <2>6 DEF InSession, Takes
<1>8. CASE ReadOffset(r)
  <2> DEFINE next == [reader[r] EXCEPT
               !.pc = IF read_offset = write_offset THEN "wait" ELSE "size"]
  <2>1. Goes(r, "offset", next) /\ reader[r].pc = "offset"
    BY <1>8 DEF ReadOffset, Goes
  <2>2. /\ read_offset = write_offset /\ reader[r].want >= PAGE_SIZE
        /\ reader[r].nth = 0
    BY <1>2, <2>1 DEF Knows, InSession, Takes
  <2>3. next.pc = "wait" /\ next.want = reader[r].want /\ next.nth = reader[r].nth
    BY <1>2, <2>2 DEF Local
  <2> HIDE DEF next
  <2>4. Knows(next)
    BY <2>2, <2>3 DEF Knows, InSession, Takes
  <2> QED BY <1>1, <2>1, <2>3, <2>4 DEF InSession, Takes
<1>9. CASE ReadWait(r)
  <2> DEFINE next == [reader[r] EXCEPT
               !.pc = IF sessions.count # 0 THEN "size" ELSE "asleep"]
  <2>1. PICK pc \in {"wait", "woken"} : Goes(r, pc, next) /\ reader[r].pc = pc
    BY <1>9 DEF ReadWait, Goes
  <2>2. reader[r].want >= PAGE_SIZE /\ reader[r].nth = 0
    BY <1>2, <2>1 DEF Knows, InSession, Takes
  <2>3. /\ next.pc = IF sessions.count # 0 THEN "size" ELSE "asleep"
        /\ next.want = reader[r].want /\ next.nth = reader[r].nth
    BY <1>2 DEF Local
  <2> HIDE DEF next
  <2>4. sessions.count # 0 => Len(got) < Len(ends)
    BY <2>1, SessionThere
  <2>5. Knows(next)
    BY <2>2, <2>3, <2>4 DEF Knows, InSession, Takes
  <2> QED BY <1>1, <2>1, <2>3, <2>5 DEF InSession, Takes
<1>10. CASE ReadSize(r)
  <2> DEFINE size == sessions.sizes[sessions.head]
             next == [reader[r] EXCEPT !.pc = "head", !.total = size]
  <2>1. Goes(r, "size", next) /\ reader[r].pc = "size"
    BY <1>10 DEF ReadSize, Goes
  <2>2. reader[r].want >= PAGE_SIZE /\ reader[r].nth = 0 /\ Len(got) < Len(ends)
    BY <1>2, <2>1 DEF Knows, InSession, Takes
  <2>3. size = SizeOf(Len(got) + 1)
    <3>1. Len(got) \in Nat /\ Len(ends) \in Nat
      BY PortFields
    <3>2. Len(got) \in 0..MAX_SESSIONS - 1 /\ sessions.head = Len(got)
      BY <2>2, <3>1, SizeAssumption DEF Tabled, TableInv
    <3>3. size = Upto(ends, Len(accepted), Len(got) + 1) - Upto(ends, Len(accepted), Len(got))
      BY <3>2 DEF TableInv, Framed, Tabled
    <3> HIDE DEF size
    <3> QED BY <2>2, <3>1, <3>3 DEF Upto, SizeOf, EndOf
  <2> HIDE DEF size
  <2>4. /\ next.pc = "head" /\ next.total = size /\ next.want = reader[r].want
        /\ next.nth = reader[r].nth
    BY <1>2 DEF Local
  <2> HIDE DEF next
  <2>5. Knows(next)
    BY <2>2, <2>3, <2>4 DEF Knows, InSession, Takes
  <2> QED BY <1>1, <2>1, <2>4, <2>5 DEF InSession, Takes
<1> QED BY <1>3, <1>4, <1>5, <1>6, <1>7, <1>8, <1>9, <1>10

\* The session is taken: its bytes are not read yet.
LEMMA ReaderHead ==
  ASSUME OneAtATime, WellMannered,
         DriverTypes, TurnsInv, Tabled, TableInv, PageInv, ReadInv,
         NEW r \in Readers, ReaderStep(r), ReadHead(r)
  PROVE  TableInv' /\ PageInv' /\ ReadInv'
<1> USE DEF store, ghosts, fileVars, assembly
<1> DEFINE next == [reader[r] EXCEPT !.pc = "load", !.nth = Len(got) + 1]
<1>1. /\ Goes(r, "head", next) /\ reader[r].pc = "head" /\ got' = Append(got, <<>>)
      /\ sessions' = [sessions EXCEPT !.head = (sessions.head + 1) % MAX_SESSIONS]
      /\ UNCHANGED <<irq, tasklet, accepted, ends, mem_list, page, copied, write_offset,
                     read_offset>>
  BY DEF ReadHead, Goes
<1>2. reader[r] \in Local /\ Measured(reader[r]) /\ Knows(reader[r]) /\ reader'[r] = next
  BY <1>1 DEF ReadInv, DriverTypes, ReadTypes, Fits, Goes
<1>3. /\ next.pc = "load" /\ next.nth = Len(got) + 1 /\ next.total = reader[r].total
      /\ next.want = reader[r].want /\ next.size_read = reader[r].size_read
  BY <1>2 DEF Local
<1> HIDE DEF next
<1>4. /\ reader[r].want >= PAGE_SIZE /\ Len(got) < Len(ends)
      /\ reader[r].total = SizeOf(Len(got) + 1) /\ reader[r].size_read = 0
  BY <1>1, <1>2 DEF Knows, Measured, Copies
<1>5. /\ got \in Seq(ReadBytes) /\ Len(got) \in Nat /\ Len(ends) \in Nat /\ <<>> \in ReadBytes
  BY PortFields DEF ReadBytes
<1>6. /\ Len(got') = Len(got) + 1 /\ got'[Len(got) + 1] = <<>>
      /\ \A k \in 1..Len(got) : got'[k] = got[k]
  BY <1>1, <1>5
<1>7. sessions'.head = Len(got) + 1 /\ sessions'.sizes = sessions.sizes
  <2>1. sessions.head = Len(got)
    BY DEF TableInv
  <2>2. Len(got) + 1 \in 0..2 * MAX_SESSIONS - 1 /\ Len(got) + 1 < MAX_SESSIONS
    BY <1>4, <1>5, SizeAssumption DEF Tabled
  <2>3. (Len(got) + 1) % MAX_SESSIONS = Len(got) + 1
    BY <2>2, ModOneTurn, SizeAssumption DEF OneTurn
  <2> QED BY <1>1, <2>1, <2>3, PortFields
<1>8. irq.pc = "idle"
  BY MovesAlone
<1>9. TableInv'
  BY <1>1, <1>4, <1>5, <1>6, <1>7, <1>8 DEF TableInv, Ending, EndOf
<1>10. ~Taking /\ Taking' /\ ~Freeing /\ ~Freeing'
  BY <1>1, <1>2, <1>3, OnlyOne DEF Takes
<1>11. Taken' = Taken
  BY <1>1, <1>5, <1>6, <1>10 DEF Taken, EndOf
<1>12. PageInv'
  BY <1>1, <1>10, <1>11, PageStays DEF Filled
<1>13. \A k \in 1..Len(got) : Session(k)' = Session(k)
  BY <1>1 DEF Session
<1>14. GotInv'
  BY <1>5, <1>6, <1>10, <1>13 DEF GotInv, ReadInv
<1>15. Knows(reader[r])'
  <2>1. SizeOf(Len(got) + 1) = ends[Len(got) + 1] - EndOf(Len(got))
    BY <1>5 DEF SizeOf
  <2> QED BY <1>1, <1>2, <1>3, <1>4, <1>5, <1>6 DEF Knows, InSession, Takes, SizeOf, EndOf
<1> QED BY <1>9, <1>12, <1>14, <1>15, ReadTurn

\* It is counted off, and the walk along the pages begins; at the end the process returns.
LEMMA ReaderWalks ==
  ASSUME OneAtATime, WellMannered,
         DriverTypes, TurnsInv, TableInv, PageInv, ReadInv,
         NEW r \in Readers, ReaderStep(r),
         ReadLoad(r) \/ ReadDec(r) \/ ReadUncount(r) \/ ReadDone(r)
  PROVE  TableInv' /\ PageInv' /\ ReadInv'
<1> USE DEF portVars, store, ghosts, fileVars
<1>1. reader[r] \in Local /\ Knows(reader[r])
  BY DEF ReadInv, DriverTypes, ReadTypes, Fits
<1>2. CASE ReadLoad(r)
  <2> DEFINE next == [reader[r] EXCEPT !.pc = "dec", !.count = sessions.count]
  <2>1. Goes(r, "load", next) /\ UNCHANGED <<sessions, got, mem_list, read_offset>>
    BY <1>2 DEF ReadLoad
  <2>2. /\ next.pc = "dec" /\ next.nth = reader[r].nth /\ next.total = reader[r].total
        /\ next.want = reader[r].want /\ next.size_read = reader[r].size_read
    BY <1>1 DEF Local
  <2> HIDE DEF next
  <2>3. Knows(next)
    BY <1>1, <2>1, <2>2 DEF Goes, Knows, InSession, Takes
  <2> QED BY <2>1, <2>2, <2>3, ReaderElsewhere DEF Takes
<1>3. CASE ReadDec(r)
  <2> DEFINE none == 0
             begun == [reader[r] EXCEPT !.count = none, !.begin_offset = read_offset]
             after == After(First)
             next == GoTo(begun, First)
  <2>1. Goes(r, "dec", next) /\ UNCHANGED <<got, mem_list, read_offset>>
    BY <1>3 DEF ReadDec
  <2>2. sessions'.head = sessions.head /\ sessions'.sizes = sessions.sizes
    BY <1>3, PortFields DEF ReadDec
  <2>3. /\ begun.nth = reader[r].nth /\ begun.total = reader[r].total
        /\ begun.want = reader[r].want /\ begun.size_read = reader[r].size_read
        /\ begun.begin_offset = read_offset
        /\ DOMAIN begun = {"pc", "want", "total", "count", "nth", "size_read",
                           "begin_offset", "curr", "next", "num_pages", "data_size"}
    BY <1>1 DEF Local
  <2>4. next = [begun EXCEPT !.pc = "copy", !.curr = First, !.next = after]
    BY DEF GoTo
  <2> HIDE DEF begun, after, none
  <2>5. /\ next.pc = "copy" /\ next.nth = begun.nth /\ next.total = begun.total
        /\ next.want = begun.want /\ next.size_read = begun.size_read
        /\ next.begin_offset = begun.begin_offset /\ next.curr = First
    BY <2>3, <2>4
  <2> HIDE DEF next
  <2>6. Knows(next)
    BY <1>1, <2>1, <2>3, <2>5 DEF Goes, Knows, InSession, Takes
  <2> QED BY <2>1, <2>2, <2>5, <2>6, ReaderElsewhere DEF Takes
<1>4. CASE ReadUncount(r)
  <2> DEFINE none == 0
             next == [reader[r] EXCEPT !.pc = "next", !.num_pages = none, !.data_size = none]
  <2>1. Goes(r, "uncount", next) /\ UNCHANGED <<sessions, got, mem_list, read_offset>>
    BY <1>4 DEF ReadUncount
  <2>2. /\ next.pc = "next" /\ next.nth = reader[r].nth /\ next.total = reader[r].total
        /\ next.want = reader[r].want /\ next.size_read = reader[r].size_read
    BY <1>1 DEF Local
  <2> HIDE DEF next
  <2>3. Knows(next)
    BY <1>1, <2>1, <2>2 DEF Goes, Knows, InSession, Takes
  <2> QED BY <2>1, <2>2, <2>3, ReaderElsewhere DEF Takes
<1>5. CASE ReadDone(r)
  <2>1. Goes(r, "next", Opened) /\ UNCHANGED <<sessions, got, mem_list, read_offset>>
    BY <1>5 DEF ReadDone
  <2>2. Opened.pc = "open" /\ Opened.nth = 0
    BY DEF Opened, Closed
  <2>3. Knows(Opened)
    BY <2>2 DEF Knows, InSession, Takes
  <2> QED BY <2>1, <2>2, <2>3, ReaderElsewhere DEF Takes
<1> QED BY <1>2, <1>3, <1>4, <1>5

\* Who copies finds a page, and on it the whole session, which it reads at once.
LEMMA SessionOnPage ==
  ASSUME OneAtATime, WellMannered,
         DriverTypes, TurnsInv, PipeInv, TableInv, PageInv, ReadInv,
         NEW r \in Readers, ReaderStep(r), reader[r].pc = "copy",
         NEW k, k = Len(got), NEW n, n = SizeOf(k)
  PROVE  /\ k \in 1..Len(ends) /\ n \in Nat \ {0} /\ ends[k] = EndOf(k - 1) + n
         /\ EndOf(k - 1) \in Nat
         /\ mem_list # <<>> /\ Len(mem_list) = 1 /\ First \in Frames /\ HasPage
         /\ Filled \in 0..PAGE_SIZE /\ read_offset + n <= Filled
         /\ EndOf(k - 1) = Len(copied) - Filled + read_offset
         /\ copied = accepted
<1>1. reader[r] \in Local /\ Knows(reader[r])
  BY DEF ReadInv, DriverTypes, ReadTypes, Fits
<1>2. copied = accepted /\ tasklet.pc = "idle"
  BY MovesAlone, PipeReader DEF Nothing, TaskletDue
<1>3. Taking /\ ~Freeing
  BY OnlyOne DEF Takes
<1>4. /\ Len(got) \in Nat /\ Len(ends) \in Nat /\ Len(copied) \in Nat /\ ends \in Seq(Nat)
      /\ write_offset \in 0..PAGE_SIZE - 1 /\ read_offset \in 0..PAGE_SIZE - 1
      /\ mem_list \in Seq(Frames)
  BY PortFields
<1>5. k # 0 /\ k <= Len(ends)
  BY <1>1 DEF Knows, InSession, Takes, TableInv
<1>6. k \in 1..Len(ends)
  BY <1>4, <1>5
<1>7. EndOf(k - 1) \in Nat
  <2>1. CASE k - 1 = 0
    BY <2>1 DEF EndOf
  <2>2. CASE k - 1 # 0
    <3>1. k - 1 \in 1..Len(ends)
      BY <1>4, <1>6, <2>2
    <3>2. ends[k - 1] \in Nat
      BY <1>4, <3>1
    <3> QED BY <2>2, <3>2 DEF EndOf
  <2> QED BY <2>1, <2>2
<1>8. ends[k] \in Nat /\ EndOf(k - 1) < ends[k] /\ ends[k] <= Len(copied)
  BY <1>2, <1>4, <1>6 DEF TableInv
<1>9. n \in Nat \ {0} /\ ends[k] = EndOf(k - 1) + n
  BY <1>7, <1>8 DEF SizeOf
<1>10. Taken = EndOf(k - 1)
  BY <1>3 DEF Taken
<1>11. mem_list # <<>> /\ Len(mem_list) = 1 /\ HasPage
  BY <1>4, <1>7, <1>8, <1>10 DEF PageInv
<1>12. First \in Frames
  BY <1>4, <1>11 DEF First
<1>13. Filled \in 0..PAGE_SIZE
  BY <1>4, SizeAssumption DEF Filled
<1>14. Taken = Len(copied) - Filled + read_offset
  BY <1>3, <1>11 DEF HasPage
<1>15. read_offset + n <= Filled
  <2>1. n \in Int /\ Taken \in Int /\ Filled \in Int /\ read_offset \in Int /\ Len(copied) \in Int
    BY <1>4, <1>7, <1>9, <1>10, <1>13
  <2>2. Taken + n <= Len(copied)
    BY <1>8, <1>9, <1>10
  <2> QED BY <1>14, <2>1, <2>2
<1> QED BY <1>2, <1>6, <1>7, <1>9, <1>10, <1>11, <1>12, <1>13, <1>14, <1>15

LEMMA ReadsAtOnce ==
  ASSUME OneAtATime, WellMannered,
         DriverTypes, TurnsInv, PipeInv, TableInv, PageInv, ReadInv,
         NEW r \in Readers, ReaderStep(r), reader[r].pc = "copy"
  PROVE  /\ reader[r].curr = First
         /\ SizeToRead(r) = SizeOf(Len(got)) /\ SizeLeft(r) = SizeOf(Len(got))
         /\ PageBytes(r) \in ReadBytes /\ PageBytes(r) = Session(Len(got))
<1> DEFINE k == Len(got)
           n == SizeOf(k)
<1>1. reader[r] \in Local /\ Knows(reader[r])
  BY DEF ReadInv, DriverTypes, ReadTypes, Fits
<1>2. /\ reader[r].want >= PAGE_SIZE /\ reader[r].total = n /\ reader[r].size_read = 0
      /\ reader[r].begin_offset = read_offset /\ reader[r].curr = First
  BY <1>1 DEF Knows, InSession, Takes
<1>3. /\ k \in 1..Len(ends) /\ n \in Nat \ {0} /\ ends[k] = EndOf(k - 1) + n
      /\ EndOf(k - 1) \in Nat
      /\ mem_list # <<>> /\ First \in Frames /\ HasPage
      /\ Filled \in 0..PAGE_SIZE /\ read_offset + n <= Filled
      /\ EndOf(k - 1) = Len(copied) - Filled + read_offset
      /\ copied = accepted
  BY SessionOnPage
<1>4. read_offset \in 0..PAGE_SIZE - 1 /\ reader[r].want \in Nat /\ Len(copied) \in Nat
      /\ accepted \in Seq(Byte) /\ Len(accepted) \in Nat
  BY <1>1, PortFields DEF Local
<1> HIDE DEF n, k
<1>5. SizeLeft(r) = n
  BY <1>2, <1>3 DEF SizeLeft
<1>6. SizeToRead(r) = n
  <2>1. CASE n < PAGE_SIZE
    BY <1>5, <2>1 DEF SizeToRead
  <2>2. CASE ~(n < PAGE_SIZE)
    <3>1. n = PAGE_SIZE /\ read_offset = 0
      BY <1>3, <1>4, <2>2, SizeAssumption
    <3> DEFINE sizes == {PAGE_SIZE - reader[r].begin_offset, reader[r].want, reader[r].total}
               least == Min(sizes)
    <3>2. sizes = {PAGE_SIZE, reader[r].want}
      BY <1>2, <3>1, SizeAssumption
    <3>3. SizeToRead(r) = least
      BY <1>5, <2>2 DEF SizeToRead
    <3> HIDE DEF sizes
    <3>4. \E x \in sizes : \A y \in sizes : x <= y
      BY <1>2, <1>4, <3>2, SizeAssumption
    <3>5. least \in sizes /\ \A y \in sizes : least <= y
      BY <3>4, LeastOne
    <3> HIDE DEF least
    <3>6. least = PAGE_SIZE
      BY <1>2, <1>4, <3>2, <3>5, SizeAssumption
    <3> QED BY <3>1, <3>3, <3>6
  <2> QED BY <2>1, <2>2
<1>7. reader[r].curr # NoPage /\ PagesTypes /\ ReadTypes
  BY <1>2, <1>3, FrameAssumption DEF DriverTypes, PortTypes
<1>8. PageBytes(r) \in ReadBytes
  BY <1>7, BytesRead
<1>9. Len(PageBytes(r)) = n /\ \A j \in 1..n : PageBytes(r)[j] = accepted[EndOf(k - 1) + j]
  <2> DEFINE Found(j) == LET at == reader[r].begin_offset + j - 1
                         IN  IF at < PAGE_SIZE THEN page[reader[r].curr][at] ELSE Outside
  <2>1. PageBytes(r) = [j \in 1..n |-> Found(j)]
    BY <1>6 DEF PageBytes
  <2>2. ASSUME NEW j \in 1..n
        PROVE  Found(j) = accepted[EndOf(k - 1) + j]
    <3> DEFINE i == read_offset + j
    <3>1. /\ i \in 1..Filled /\ i - 1 < PAGE_SIZE
          /\ reader[r].begin_offset + j - 1 = i - 1
      <4>1. /\ reader[r].begin_offset = read_offset /\ n \in Nat
            /\ Filled \in 0..PAGE_SIZE /\ read_offset + n <= Filled
        BY <1>2, <1>3
      <4>2. read_offset \in Nat /\ j \in 1..n /\ PAGE_SIZE \in Nat
        BY <1>4, SizeAssumption
      <4> QED BY <4>1, <4>2
    <3>2. Found(j) = page[First][i - 1]
      BY <1>2, <3>1
    <3>3. Len(copied) - Filled + i = EndOf(k - 1) + j
      BY <1>3, <1>4
    <3> HIDE DEF i, Found
    <3>4. page[First][i - 1] = copied[Len(copied) - Filled + i]
      BY <1>3, <3>1 DEF HasPage
    <3> QED BY <1>3, <3>2, <3>3, <3>4
  <2> HIDE DEF Found
  <2>3. \A j \in 1..n : PageBytes(r)[j] = accepted[EndOf(k - 1) + j]
    BY <2>1, <2>2
  <2>4. Len(PageBytes(r)) = n
    BY <1>3, <2>1
  <2> QED BY <2>3, <2>4
<1>10. PageBytes(r) = Session(k)
  <2> DEFINE m == EndOf(k - 1) + 1
             S == Byte \cup {Outside}
             u == PageBytes(r)
  <2>1. m \in Int /\ ends[k] \in Int /\ m <= ends[k] /\ ends[k] - m + 1 = n
    BY <1>3, SMTT(30)
  <2>2. ends[k] <= Len(accepted)
    BY <1>3 DEF TableInv
  <2>3. \A i \in m..ends[k] : accepted[i] \in S
    <3> SUFFICES ASSUME NEW i \in m..ends[k] PROVE accepted[i] \in Byte
      OBVIOUS
    <3>1. m >= 1
      BY <1>3
    <3> HIDE DEF m
    <3>2. i \in 1..Len(accepted)
      BY <1>4, <2>1, <2>2, <3>1
    <3> QED BY <1>4, <3>2
  <2>4. u \in Seq(S) /\ Len(u) = IF m <= ends[k] THEN ends[k] - m + 1 ELSE 0
    BY <1>8, <1>9, <2>1 DEF ReadBytes
  <2>5. \A i \in 1..ends[k] - m + 1 : u[i] = accepted[m + i - 1]
    <3> SUFFICES ASSUME NEW i \in 1..n PROVE u[i] = accepted[m + i - 1]
      BY <2>1
    <3>1. m + i - 1 = EndOf(k - 1) + i
      BY <1>3
    <3> QED BY <1>9, <3>1
  <2>6. Session(k) = SubSeq(accepted, m, ends[k])
    <3>1. m = IF k = 1 THEN 1 ELSE ends[k - 1] + 1
      BY <1>3 DEF EndOf
    <3> HIDE DEF m
    <3> QED BY <3>1 DEF Session
  <2> HIDE DEF m, u, S
  <2>7. u = SubSeq(accepted, m, ends[k])
    BY <2>1, <2>3, <2>4, <2>5, PartIs
  <2> QED BY <2>6, <2>7 DEF u
<1> QED BY <1>2, <1>5, <1>6, <1>8, <1>10 DEF n, k

\* The session is copied, and read_offset moves on, to the next page if it ends there.
LEMMA ReaderCopies ==
  ASSUME OneAtATime, WellMannered,
         DriverTypes, DriverTypes', TurnsInv, PipeInv, TableInv, PageInv, ReadInv,
         NEW r \in Readers, ReaderStep(r), ReadCopy(r)
  PROVE  TableInv' /\ PageInv' /\ ReadInv'
<1> USE DEF portVars, store, ghosts
<1> DEFINE k == Len(got)
           n == SizeOf(k)
           moved == (read_offset + SizeToRead(r)) % PAGE_SIZE
           next == [reader[r] EXCEPT
                     !.pc = IF moved = 0 THEN "free" ELSE "next",
                     !.begin_offset = @ + SizeToRead(r), !.size_read = @ + SizeToRead(r)]
<1>1. /\ Goes(r, "copy", next) /\ reader[r].pc = "copy" /\ read_offset' = moved
      /\ got' = [got EXCEPT ![reader[r].nth] = got[reader[r].nth] \o PageBytes(r)]
      /\ UNCHANGED <<sessions, irq, tasklet, accepted, ends, mem_list, page, copied,
                     write_offset>>
  BY DEF ReadCopy, Goes
<1>2. reader[r] \in Local /\ Knows(reader[r]) /\ reader'[r] = next
  BY <1>1 DEF ReadInv, DriverTypes, ReadTypes, Fits, Goes
<1>3. /\ reader[r].want >= PAGE_SIZE /\ reader[r].total = n /\ reader[r].size_read = 0
      /\ reader[r].nth = k /\ reader[r].curr = First /\ got[k] = <<>>
  BY <1>1, <1>2 DEF Knows, InSession, Takes
<1>4. /\ k \in 1..Len(ends) /\ n \in Nat \ {0} /\ ends[k] = EndOf(k - 1) + n
      /\ EndOf(k - 1) \in Nat /\ mem_list # <<>> /\ Len(mem_list) = 1 /\ HasPage
      /\ Filled \in 0..PAGE_SIZE /\ read_offset + n <= Filled
      /\ EndOf(k - 1) = Len(copied) - Filled + read_offset
  BY <1>1, SessionOnPage
<1>5. /\ SizeToRead(r) = n /\ PageBytes(r) \in ReadBytes /\ PageBytes(r) = Session(k)
  BY <1>1, ReadsAtOnce
<1>6. /\ got \in Seq(ReadBytes) /\ k \in Nat /\ k \in 1..Len(got) /\ Len(ends) \in Nat
      /\ read_offset \in 0..PAGE_SIZE - 1 /\ Len(copied) \in Nat
  BY <1>4, PortFields
<1> HIDE DEF n
<1>7. moved = (read_offset + n) % PAGE_SIZE
  BY <1>5
<1>8. /\ next.pc = (IF moved = 0 THEN "free" ELSE "next")
      /\ next.size_read = n /\ next.nth = k /\ next.total = n /\ next.curr = First
      /\ next.want >= PAGE_SIZE
  BY <1>2, <1>3, <1>4, <1>5 DEF Local
<1> HIDE DEF next, moved
<1>9. Len(got') = k /\ got'[k] = Session(k) /\ \A j \in 1..k - 1 : got'[j] = got[j]
  <2>1. got' = [got EXCEPT ![k] = <<>> \o PageBytes(r)]
    BY <1>1, <1>3
  <2>2. <<>> \o PageBytes(r) = PageBytes(r)
    BY <1>5 DEF ReadBytes
  <2>3. got' = [got EXCEPT ![k] = Session(k)] /\ Session(k) \in ReadBytes
    BY <1>5, <2>1, <2>2
  <2> QED BY <1>6, <2>3
<1>10. irq.pc = "idle"
  BY MovesAlone
<1>11. TableInv'
  BY <1>1, <1>9, <1>10 DEF TableInv, Ending, EndOf
<1>12. Taking /\ ~Taking' /\ ~Freeing /\ (Freeing' <=> moved = 0)
  BY <1>1, <1>2, <1>8, OnlyOne DEF Takes
<1>13. Taken' = Len(copied) - Filled + read_offset + n
  <2>1. Taken' = ends[k]
    BY <1>1, <1>4, <1>6, <1>9, <1>12 DEF Taken, EndOf
  <2> QED BY <1>4, <1>6, <2>1
<1>14. Filled' = Filled /\ First' = First
  BY <1>1 DEF Filled, First
<1>15. PageInv'
  <2>1. /\ Filled' <= Len(copied')
        /\ \A i \in 1..Filled' : page'[First'][i - 1] = copied'[Len(copied') - Filled' + i]
    BY <1>1, <1>4, <1>14 DEF HasPage
  <2>2. read_offset + n \in 0..2 * PAGE_SIZE - 1 /\ read_offset + n <= PAGE_SIZE
    BY <1>4, <1>6, SizeAssumption
  <2>3. CASE read_offset + n = PAGE_SIZE
    <3>1. moved = 0
      BY <1>7, <2>2, <2>3, ModOneTurn, SizeAssumption DEF OneTurn
    <3>2. Filled = PAGE_SIZE
      BY <1>4, <2>3, SizeAssumption
    <3>3. Taken' = Len(copied)
      BY <1>4, <1>6, <1>13, <2>3, <3>2, SizeAssumption
    <3>4. Freeing' /\ Filled' = PAGE_SIZE /\ read_offset' = 0 /\ Taken' = Len(copied')
      BY <1>1, <1>12, <1>14, <3>1, <3>2, <3>3
    <3>5. HasPage'
      BY <2>1, <3>4 DEF HasPage
    <3> QED BY <1>1, <1>4, <3>5 DEF PageInv
  <2>4. CASE read_offset + n # PAGE_SIZE
    <3>1. moved = read_offset + n
      BY <1>7, <2>2, <2>4, ModOneTurn, SizeAssumption DEF OneTurn
    <3>2. moved # 0 /\ moved <= Filled
      BY <1>4, <1>6, <3>1, SizeAssumption
    <3>3. Taken' = Len(copied) - Filled + moved
      BY <1>4, <1>6, <1>13, <3>1
    <3>4. HasPage'
      BY <1>1, <1>12, <1>14, <2>1, <3>2, <3>3 DEF HasPage
    <3> QED BY <1>1, <1>4, <3>4 DEF PageInv
  <2> QED BY <2>3, <2>4
<1>16. \A j \in 1..Len(got) : Session(j)' = Session(j)
  BY <1>1 DEF Session
<1>17. GotInv'
  <2> SUFFICES ASSUME NEW j \in 1..Len(got') PROVE got'[j] = Session(j)'
    BY DEF GotInv
  <2>1. CASE j = k
    BY <1>6, <1>9, <1>16, <2>1
  <2>2. CASE j # k
    <3>1. j \in 1..k - 1 /\ j \in 1..Len(got)
      BY <1>6, <1>9, <2>2
    <3>2. got[j] = Session(j)
      BY <1>6, <2>2, <3>1 DEF GotInv, ReadInv
    <3> QED BY <1>9, <1>16, <3>1, <3>2
  <2> QED BY <2>1, <2>2
<1>18. Knows(reader[r])'
  <2>1. SizeOf(k)' = n
    BY <1>1, <1>9 DEF SizeOf, EndOf, n
  <2> QED BY <1>1, <1>2, <1>4, <1>6, <1>8, <1>9, <1>14, <2>1 DEF Knows, InSession, Takes
<1> QED BY <1>11, <1>15, <1>17, <1>18, ReadTurn

\* The page is read to its end, and given back.
LEMMA UnlinkOnly ==
  ASSUME NEW S, NEW s \in Seq(S), Len(s) = 1
  PROVE  RemoveFirst(s, Head(s)) = <<>>
<1> DEFINE I == {i \in 1..Len(s) : s[i] = Head(s)}
<1>1. I = {1}
  OBVIOUS
<1>2. RemoveFirst(s, Head(s)) = RemoveAt(s, Min(I))
  BY <1>1 DEF RemoveFirst, SelectInSeq
<1> HIDE DEF I
<1>3. Min(I) = 1
  <2>1. \E x \in I : \A y \in I : x <= y
    BY <1>1
  <2>2. Min(I) \in I
    BY <2>1, LeastOne
  <2> QED BY <1>1, <2>2
<1>4. RemoveAt(s, 1) = <<>>
  BY DEF RemoveAt
<1> QED BY <1>2, <1>3, <1>4

LEMMA ReaderFrees ==
  ASSUME OneAtATime, WellMannered,
         DriverTypes, TurnsInv, TableInv, PageInv, ReadInv,
         NEW r \in Readers, ReaderStep(r), ReadFree(r)
  PROVE  TableInv' /\ PageInv' /\ ReadInv'
<1> USE DEF ghosts, fileVars
<1> DEFINE next == [reader[r] EXCEPT !.pc = "uncount",
                      !.num_pages = num_pages, !.data_size = data_size]
<1>1. /\ Goes(r, "free", next) /\ reader[r].pc = "free"
      /\ mem_list' = RemoveFirst(mem_list, reader[r].curr)
      /\ UNCHANGED <<sessions, irq, tasklet, accepted, ends, page, copied, write_offset,
                     read_offset, got>>
  BY DEF ReadFree, Goes
<1>2. reader[r] \in Local /\ Knows(reader[r]) /\ reader'[r] = next
  BY <1>1 DEF ReadInv, DriverTypes, ReadTypes, Fits, Goes
<1>3. /\ next.pc = "uncount" /\ next.nth = reader[r].nth /\ next.total = reader[r].total
      /\ next.want = reader[r].want /\ next.size_read = reader[r].size_read
  BY <1>2 DEF Local
<1> HIDE DEF next
<1>4. irq.pc = "idle"
  BY MovesAlone
<1>5. TableInv'
  BY <1>1, <1>4, TableStays DEF Ending
<1>6. Freeing /\ ~Freeing' /\ ~Taking /\ ~Taking'
  BY <1>1, <1>2, <1>3, OnlyOne DEF Takes
<1>7. Taken' = Taken
  BY <1>1, <1>6 DEF Taken, EndOf
<1>8. reader[r].curr = First
  BY <1>1, <1>2 DEF Knows
<1>9. mem_list' = <<>>
  <2>1. CASE mem_list = <<>>
    BY <1>1, <2>1 DEF RemoveFirst
  <2>2. CASE mem_list # <<>>
    <3>1. Len(mem_list) = 1 /\ mem_list \in Seq(Frames) /\ First = Head(mem_list)
      BY <2>2, PortFields DEF PageInv, First
    <3> QED BY <1>1, <1>8, <3>1, UnlinkOnly
  <2> QED BY <2>1, <2>2
<1>10. write_offset = 0 /\ read_offset = 0 /\ Taken = Len(copied)
  <2>1. CASE mem_list = <<>>
    BY <2>1 DEF PageInv
  <2>2. CASE mem_list # <<>>
    <3>1. Filled = PAGE_SIZE /\ read_offset = 0 /\ Taken = Len(copied)
      BY <1>6, <2>2 DEF PageInv, HasPage
    <3>2. write_offset = 0
      <4>1. write_offset \in 0..PAGE_SIZE - 1
        BY PortFields
      <4> QED BY <3>1, <4>1, SizeAssumption DEF Filled
    <3> QED BY <3>1, <3>2
  <2> QED BY <2>1, <2>2
<1>11. PageInv'
  BY <1>1, <1>7, <1>9, <1>10 DEF PageInv
<1>12. \A k \in 1..Len(got) : Session(k)' = Session(k)
  BY <1>1 DEF Session
<1>13. GotInv'
  BY <1>1, <1>6, <1>12 DEF GotInv, ReadInv
<1>14. Knows(reader[r])'
  BY <1>1, <1>2, <1>3 DEF Knows, InSession, Takes, SizeOf, EndOf
<1> QED BY <1>5, <1>11, <1>13, <1>14, ReadTurn

\* No other step of a read happens: nothing fails, nobody signals, a session ends with
\* the page it is on.
LEMMA ReaderStored ==
  ASSUME OneAtATime, WellMannered,
         DriverTypes, DriverTypes', TurnsInv, PipeInv, CountInv, Tabled,
         TableInv, PageInv, ReadInv, NEW r \in Readers, ReaderStep(r)
  PROVE  TableInv' /\ PageInv' /\ ReadInv'
<1>1. ~ReadFault(r) /\ ~Signal(r)
  BY DEF ReadFault, Signal, WellMannered
<1>2. ~ReadListEnd(r)
  <2> SUFFICES ASSUME reader[r].pc = "copy" PROVE reader[r].curr # NoPage
    BY DEF ReadListEnd, Goes
  <2>1. reader[r].curr = First
    BY ReadsAtOnce
  <2>2. First \in Frames
    BY SessionOnPage
  <2> QED BY <2>1, <2>2, FrameAssumption
<1>3. ~ReadNext(r)
  <2> SUFFICES ASSUME reader[r].pc = "next" PROVE SizeLeft(r) = 0
    BY DEF ReadNext, Goes
  <2>1. Knows(reader[r]) /\ reader[r] \in Local
    BY DEF ReadInv, DriverTypes, ReadTypes, Fits
  <2>2. reader[r].size_read = reader[r].total /\ reader[r].total \in Nat
    BY <2>1 DEF Knows, InSession, Takes, Local
  <2> QED BY <2>2 DEF SizeLeft
<1> QED
  BY <1>1, <1>2, <1>3, ReaderBegins, ReaderHead, ReaderWalks, ReaderCopies, ReaderFrees
     DEF ReaderStep

-----------------------------------------------------------------------------

LEMMA StoredInit == Init => Stored
<1> SUFFICES ASSUME Init PROVE Stored
  OBVIOUS
<1>1. /\ ends = <<>> /\ got = <<>> /\ accepted = <<>> /\ copied = <<>> /\ mem_list = <<>>
      /\ sessions = [head |-> 0, count |-> 0, sizes |-> [i \in 0..MAX_SESSIONS - 1 |-> 0]]
      /\ write_offset = 0 /\ read_offset = 0 /\ irq.pc = "idle"
      /\ \A r \in Readers : reader[r].pc = "closed" /\ reader[r].nth = 0
  BY DEF Init, PortInit, IdleIrq, Closed
<1>2. Len(<<>>) = 0
  OBVIOUS
<1>3. Framed([i \in 0..MAX_SESSIONS - 1 |-> 0], <<>>, 0)
  BY <1>2 DEF Framed, Upto
<1>4. TableInv
  BY <1>1, <1>2, <1>3 DEF TableInv, Ending
<1>5. PageInv
  BY <1>1, <1>2 DEF PageInv, Taken, Taking, Takes, EndOf
<1>6. ReadInv
  BY <1>1, <1>2 DEF ReadInv, GotInv, Knows, InSession, Takes
<1> QED BY <1>4, <1>5, <1>6 DEF Stored

LEMMA StoredKept ==
  ASSUME OneAtATime, WellMannered,
         DriverTypes, DriverTypes', CountInv, WholeInv, Next
  PROVE  Stored'
<1> USE DEF WholeInv
<1> SUFFICES ASSUME Tabled' PROVE TableInv' /\ PageInv' /\ ReadInv'
  BY DEF Stored
<1>1. Len(ends) <= Len(ends')
  <2>1. CASE Arrives \/ Handler \/ Copying \/ WakeUp
    BY <2>1, PortGrows DEF GoesOn
  <2>2. ASSUME NEW r \in Readers, ReaderStep(r) PROVE Len(ends) <= Len(ends')
    <3>1. ends' = ends /\ Len(ends) \in Nat
      BY <2>2, MovesAlone, PortFields DEF ghosts
    <3> QED BY <3>1
  <2> QED BY <2>1, <2>2 DEF Next
<1>2. Tabled
  <2>1. Len(ends) \in Nat /\ Len(ends') \in Nat
    BY PortFields DEF DriverTypes, PortTypes, GhostType
  <2> QED BY <1>1, <2>1, SizeAssumption DEF Tabled
<1>3. TableInv /\ PageInv /\ ReadInv
  BY <1>2 DEF Stored
<1>4. CASE Arrives \/ Handler \/ Copying \/ WakeUp
  <2>1. TableInv'
    BY <1>2, <1>3, <1>4, TableArrives, TableHandler, TableTasklet
  <2> QED BY <1>3, <1>4, <2>1, PagePort, ReadPort
<1>5. ASSUME NEW r \in Readers, ReaderStep(r)
      PROVE  TableInv' /\ PageInv' /\ ReadInv'
  BY <1>2, <1>3, <1>5, ReaderStored
<1> QED BY <1>4, <1>5 DEF Next

LEMMA WholeNext ==
  ASSUME OneAtATime, WellMannered,
         DriverTypes, DriverTypes', CountInv, WholeInv, [Next]_vars
  PROVE  WholeInv'
<1>1. CASE UNCHANGED vars
  BY <1>1 DEF vars, portVars, readerVars, fileVars, assembly, store, ghosts, WholeInv,
     TurnsInv, Alone, OneActor, TaskletDue, InCall, PipeInv, Nothing, InBuffer, InTheHand,
     Room, First, Stored, Tabled, TableInv, Ending, EndOf, PageInv, HasPage, Filled, Taken,
     Taking, Freeing, ReadInv, GotInv, Knows, SizeOf, Session
<1>2. CASE Next
  <2>1. CASE Arrives \/ Handler \/ Copying \/ WakeUp
    <3>1. TurnsInv'
      BY <2>1, TurnsPort DEF WholeInv
    <3>2. PipeInv'
      BY <2>1, PipeArrives, PipeHandler, PipeTasklet DEF WholeInv, Copying, WakeUp, TaskletStep
    <3> QED BY <1>2, <3>1, <3>2, StoredKept DEF WholeInv
  <2>2. ASSUME NEW r \in Readers, ReaderStep(r) PROVE WholeInv'
    <3>1. TurnsInv' /\ PipeInv'
      BY <2>2, TurnsReader, PipeReader DEF WholeInv
    <3> QED BY <1>2, <3>1, StoredKept DEF WholeInv
  <2> QED BY <1>2, <2>1, <2>2 DEF Next
<1> QED BY <1>1, <1>2

LEMMA WholeAlways == WellMannered => (Spec => []WholeInv)
<1> SUFFICES ASSUME OneAtATime, WellMannered PROVE Spec => []WholeInv
  BY DEF WellMannered
<1>1. Init => WholeInv
  BY TurnsInit, PipeInit, StoredInit DEF WholeInv
<1>2. DriverTypes /\ DriverTypes' /\ CountInv /\ WholeInv /\ [Next]_vars => WholeInv'
  BY WholeNext
<1>3. Spec => []CountInv
  BY CountAlways DEF WellMannered, OneAtATime
<1> QED BY <1>1, <1>2, <1>3, TypesAlways, PTL DEF Spec

\* In a world that keeps all manners, where nothing fails and nobody signals, a read with
\* room for a page returns the next session, whole and nothing else, until the session
\* table is full: for every size of buffer, table and page, and any number of processes
\* (asgn.c:283, 297-318).
THEOREM ReadsSessions == WellMannered => (Spec => []WholeSessions)
<1> SUFFICES ASSUME OneAtATime, WellMannered PROVE Spec => []WholeSessions
  BY DEF WellMannered
<1>1. DriverTypes /\ WholeInv => WholeSessions
  <2> SUFFICES ASSUME DriverTypes, TableInv, ReadInv, NEW k \in DOMAIN got, ~UnderWay(k)
               PROVE  k <= Len(ends) /\ got[k] = Session(k)
    BY DEF WholeInv, Stored, Tabled, WholeSessions
  <2>1. k \in 1..Len(got) /\ k \in Nat /\ Len(got) \in Nat /\ Len(ends) \in Nat
    BY PortFields, SMTT(30)
  <2>2. k <= Len(ends)
    BY <2>1 DEF TableInv
  <2>3. ~(Taking /\ k = Len(got))
    <3> SUFFICES ASSUME Taking, k = Len(got) PROVE FALSE
      OBVIOUS
    <3>1. PICK r \in Readers : reader[r].pc \in Takes
      BY DEF Taking
    <3>2. reader[r].nth = Len(got)
      BY <3>1 DEF ReadInv, Knows, InSession
    <3> QED BY <3>2 DEF UnderWay
  <2> QED BY <2>1, <2>2, <2>3 DEF ReadInv, GotInv
<1> QED BY <1>1, WholeAlways, TypesAlways, PTL

-----------------------------------------------------------------------------
(* Sequences that are joined, and how long they are together.              *)

\* FlattenSeq joins the sequences from the left.
Joined(g, s, n) == g = [i \in 1..n |-> IF i = 1 THEN s[i] ELSE g[i - 1] \o s[i]]

LEMMA JoinedExists ==
  ASSUME NEW s, NEW n \in Nat
  PROVE  \E g : Joined(g, s, n)
<1> DEFINE N == {m \in Nat : \E g : Joined(g, s, m)}
<1>1. 0 \in N
  <2> DEFINE g == [i \in 1..0 |-> 0]
  <2>1. Joined(g, s, 0)
    BY DEF Joined
  <2> QED BY <2>1
<1>2. ASSUME NEW m \in N PROVE m + 1 \in N
  <2>1. m \in Nat
    OBVIOUS
  <2>2. PICK g : Joined(g, s, m)
    OBVIOUS
  <2> HIDE DEF N
  <2> DEFINE h == [i \in 1..m + 1 |-> IF i = 1 THEN s[i] ELSE g[i - 1] \o s[i]]
  <2>3. \A i \in 1..m : g[i] = IF i = 1 THEN s[i] ELSE g[i - 1] \o s[i]
    BY <2>2 DEF Joined
  <2>4. \A i \in 1..m + 1 : h[i] = IF i = 1 THEN s[i] ELSE g[i - 1] \o s[i]
    OBVIOUS
  <2>6. h = [i \in 1..m + 1 |-> IF i = 1 THEN s[i] ELSE g[i - 1] \o s[i]]
    OBVIOUS
  <2> HIDE DEF h
  <2>5. \A i \in 1..m : h[i] = g[i]
    BY <2>1, <2>3, <2>4
  <2>7. ASSUME NEW i \in 1..m + 1
        PROVE  (IF i = 1 THEN s[i] ELSE g[i - 1] \o s[i])
                 = (IF i = 1 THEN s[i] ELSE h[i - 1] \o s[i])
    <3>1. i # 1 => i - 1 \in 1..m
      BY <2>1
    <3> QED BY <2>5, <3>1
  <2>8. Joined(h, s, m + 1)
    BY <2>6, <2>7, Zenon DEF Joined
  <2> QED BY <2>1, <2>8 DEF N
<1>3. N = Nat
  <2> HIDE DEF N
  <2>1. N \subseteq Nat
    BY DEF N
  <2> QED BY <1>1, <1>2, <2>1, NatInd
<1> QED BY <1>3

\* How long the first i of the sequences are together.
Lengths(L, s) == /\ L[0] = 0
                 /\ \A i \in 1..Len(s) : L[i - 1] \in Nat /\ L[i] = L[i - 1] + Len(s[i])

LEMMA LenJoin ==
  ASSUME NEW S, NEW x \in Seq(S), NEW y \in Seq(S)
  PROVE  Len(x \o y) = Len(x) + Len(y) /\ Len(x) \in Nat /\ Len(y) \in Nat
  OBVIOUS

LEMMA FlatLength ==
  ASSUME NEW S, NEW s \in Seq(Seq(S))
  PROVE  \E L : Lengths(L, s) /\ Len(FlattenSeq(s)) = L[Len(s)]
<1> DEFINE n == Len(s)
<1>0. n \in Nat /\ \A i \in 1..n : s[i] \in Seq(S) /\ Len(s[i]) \in Nat
  OBVIOUS
<1>1. CASE n = 0
  <2> DEFINE L == [i \in {0} |-> 0]
  <2>1. FlattenSeq(s) = s
    BY <1>1 DEF FlattenSeq
  <2>2. Lengths(L, s)
    BY <1>1 DEF Lengths
  <2>3. L[n] = 0
    BY <1>1
  <2> QED BY <1>1, <2>1, <2>2, <2>3
<1>2. CASE n # 0
  <2> DEFINE g == CHOOSE g : Joined(g, s, n)
             L == [i \in 0..n |-> IF i = 0 THEN 0 ELSE Len(g[i])]
             N == {m \in Nat : m + 1 \in 1..n => g[m + 1] \in Seq(S)}
  <2>1. Joined(g, s, n)
    BY <1>0, JoinedExists
  <2>2. FlattenSeq(s) = g[n]
    BY <1>2 DEF FlattenSeq, Joined
  <2> HIDE DEF g
  <2>3. \A i \in 1..n : g[i] = IF i = 1 THEN s[i] ELSE g[i - 1] \o s[i]
    BY <2>1 DEF Joined
  <2> HIDE DEF n
  <2>4. 0 \in N
    BY <1>0, <2>3
  <2>5. ASSUME NEW m \in N PROVE m + 1 \in N
    <3>1. SUFFICES ASSUME m + 1 + 1 \in 1..n PROVE g[m + 1 + 1] \in Seq(S)
      OBVIOUS
    <3>2. m \in Nat /\ m + 1 \in 1..n /\ (m + 1 + 1) - 1 = m + 1 /\ m + 1 + 1 # 1
      BY <1>0, <3>1
    <3>3. g[m + 1] \in Seq(S) /\ s[m + 1 + 1] \in Seq(S)
      BY <1>0, <3>1, <3>2
    <3>4. g[m + 1 + 1] = g[m + 1] \o s[m + 1 + 1]
      BY <2>3, <3>1, <3>2
    <3> QED BY <3>3, <3>4
  <2>6. N = Nat
    <3>1. N \subseteq Nat
      OBVIOUS
    <3> HIDE DEF N
    <3> QED BY <2>4, <2>5, <3>1, NatInd
  <2>7. ASSUME NEW i \in 1..n PROVE g[i] \in Seq(S)
    <3>1. i - 1 \in Nat /\ (i - 1) + 1 = i
      BY <1>0
    <3>2. i - 1 \in N
      BY <2>6, <3>1
    <3> QED BY <3>1, <3>2
  <2>8. ASSUME NEW i \in 1..n PROVE L[i - 1] \in Nat /\ L[i] = L[i - 1] + Len(s[i])
    <3>1. i \in 0..n /\ i - 1 \in 0..n /\ L[i] = Len(g[i])
      BY <1>0
    <3>2. CASE i = 1
      BY <1>0, <2>3, <3>1, <3>2
    <3>3. CASE i # 1
      <4>1. i - 1 \in 1..n /\ L[i - 1] = Len(g[i - 1])
        BY <1>0, <3>3
      <4>2. g[i] = g[i - 1] \o s[i]
        BY <2>3, <3>3
      <4>3. g[i - 1] \in Seq(S) /\ s[i] \in Seq(S)
        BY <1>0, <2>7, <4>1
      <4>4. Len(g[i]) = Len(g[i - 1]) + Len(s[i]) /\ Len(g[i - 1]) \in Nat
        BY <4>2, <4>3, LenJoin
      <4> QED BY <3>1, <4>1, <4>4, Zenon
    <3> QED BY <3>2, <3>3
  <2>9. L[0] = 0 /\ L[n] = Len(g[n])
    BY <1>0, <1>2
  <2> HIDE DEF L
  <2>10. Lengths(L, s) /\ Len(FlattenSeq(s)) = L[n]
    BY <2>2, <2>8, <2>9 DEF Lengths, n
  <2> QED BY <2>10 DEF n
<1> QED BY <1>1, <1>2

\* What place k adds to place i, and to all the places up to i.
Here(k, i, d) == IF i = k THEN d ELSE 0
Since(k, i, d) == IF k <= i THEN d ELSE 0
LenAt(s, i) == IF i <= Len(s) THEN Len(s[i]) ELSE 0

LEMMA SinceMore ==
  ASSUME NEW i \in Nat, NEW k \in Int, NEW d \in Nat
  PROVE  /\ Since(k, i, d) + Here(k, i + 1, d) = Since(k, i + 1, d)
         /\ Since(k, i, d) \in Nat /\ Here(k, i + 1, d) \in Nat
<1>1. CASE k <= i
  BY <1>1 DEF Since, Here
<1>2. CASE k = i + 1
  BY <1>2 DEF Since, Here
<1>3. CASE k > i + 1
  BY <1>3 DEF Since, Here
<1> QED BY <1>1, <1>2, <1>3

LEMMA SumsOfThree ==
  ASSUME NEW a \in Nat, NEW p \in Nat, NEW q \in Nat, NEW v \in Nat
  PROVE  /\ a + v \in Nat
         /\ (a + p) + (v + q) = (a + v) + (p + q)
  OBVIOUS

\* Sequences that are the same up to some place and one longer by d after it.
LEMMA FlatMore ==
  ASSUME NEW S, NEW s \in Seq(Seq(S)), NEW t \in Seq(Seq(S)), NEW k \in 1..Len(t), NEW d \in Nat,
         Len(s) <= Len(t), NEW n \in Nat, n = Len(t),
         \A i \in 1..n : Len(t[i]) = LenAt(s, i)
                                       + Here(k, i, d)
  PROVE  /\ Len(FlattenSeq(s)) \in Nat
         /\ Len(FlattenSeq(t)) = Len(FlattenSeq(s)) + d
<1>1. PICK L : Lengths(L, s) /\ Len(FlattenSeq(s)) = L[Len(s)]
  BY FlatLength
<1>2. PICK M : Lengths(M, t) /\ Len(FlattenSeq(t)) = M[Len(t)]
  BY FlatLength
<1> DEFINE At(i) == IF i <= Len(s) THEN i ELSE Len(s)
           N == {i \in Nat : i <= n => /\ L[At(i)] \in Nat
                                       /\ M[i] = L[At(i)] + Since(k, i, d)}
<1>0. /\ Len(s) \in Nat /\ n \in Nat
      /\ \A i \in 1..n : Len(t[i]) \in Nat
      /\ \A i \in 1..Len(s) : Len(s[i]) \in Nat
  OBVIOUS
<1>3. 0 \in N
  BY <1>0, <1>1, <1>2 DEF Lengths, Since
<1>4. ASSUME NEW i \in N PROVE i + 1 \in N
  <2>1. SUFFICES ASSUME i + 1 <= n
                 PROVE  /\ L[At(i + 1)] \in Nat
                        /\ M[i + 1] = L[At(i + 1)] + Since(k, i + 1, d)
    OBVIOUS
  <2>2. /\ i \in Nat /\ i + 1 \in 1..n /\ (i + 1) - 1 = i
        /\ L[At(i)] \in Nat /\ M[i] = L[At(i)] + Since(k, i, d)
    BY <1>0, <2>1
  <2>3. M[i + 1] = M[i] + Len(t[i + 1])
    BY <1>2, <2>2 DEF Lengths
  <2>4. L[At(i + 1)] = L[At(i)] + LenAt(s, i + 1)
    <3>1. CASE i + 1 <= Len(s)
      <4>1. i + 1 \in 1..Len(s) /\ At(i + 1) = i + 1 /\ At(i) = i
        BY <1>0, <2>2, <3>1
      <4>2. L[i + 1] = L[(i + 1) - 1] + Len(s[i + 1])
        BY <1>1, <4>1 DEF Lengths
      <4>3. L[At(i + 1)] = L[At(i)] + Len(s[i + 1])
        BY <2>2, <4>1, <4>2, Zenon
      <4> QED BY <3>1, <4>3, Zenon DEF LenAt
    <3>2. CASE ~(i + 1 <= Len(s))
      <4>1. At(i + 1) = Len(s) /\ At(i) = Len(s)
        BY <1>0, <2>2, <3>2
      <4>2. L[At(i + 1)] = L[At(i)] /\ L[At(i)] \in Nat
        BY <2>2, <4>1, Zenon
      <4> HIDE DEF At
      <4>3. L[At(i)] + 0 = L[At(i)]
        BY <4>2
      <4> QED BY <3>2, <4>2, <4>3, Zenon DEF LenAt
    <3> QED BY <3>1, <3>2
  <2>5. Len(t[i + 1]) = LenAt(s, i + 1)
                          + Here(k, i + 1, d)
    BY <2>2
  <2>6. i + 1 <= Len(s) => Len(s[i + 1]) \in Nat
    BY <1>0, <2>2
  <2>7. k \in Int /\ Len(s) \in Nat
    OBVIOUS
  <2> DEFINE v == LenAt(s, i + 1)
             p == Since(k, i, d)
             q == Here(k, i + 1, d)
  <2>8. p + q = Since(k, i + 1, d) /\ p \in Nat /\ q \in Nat
    <3>1. i \in Nat /\ k \in Int /\ d \in Nat
      BY <2>2, <2>7
    <3> QED BY <3>1, SinceMore, Zenon
  <2>9. v \in Nat
    <3>1. CASE i + 1 <= Len(s)
      BY <2>6, <3>1, Zenon DEF LenAt
    <3>2. CASE ~(i + 1 <= Len(s))
      BY <3>2 DEF LenAt
    <3> QED BY <3>1, <3>2
  <2>10. /\ L[At(i)] \in Nat /\ M[i] = L[At(i)] + p
         /\ Len(t[i + 1]) = v + q /\ L[At(i + 1)] = L[At(i)] + v
    BY <2>2, <2>4, <2>5, Zenon
  <2> HIDE DEF v, p, q, At, N
  <2>11. /\ L[At(i)] + v \in Nat
         /\ (L[At(i)] + p) + (v + q) = (L[At(i)] + v) + (p + q)
    BY <2>8, <2>9, <2>10, SumsOfThree, SMTT(30)
  <2> QED BY <2>3, <2>8, <2>10, <2>11, Zenon
<1>5. N = Nat
  <2>1. N \subseteq Nat
    OBVIOUS
  <2> HIDE DEF N
  <2> QED BY <1>3, <1>4, <2>1, NatInd
<1>6. n \in N
  <2> HIDE DEF N
  <2> QED BY <1>0, <1>5, Zenon
<1>7. L[At(n)] \in Nat /\ M[n] = L[At(n)] + Since(k, n, d)
  BY <1>0, <1>6
<1>8. At(n) = Len(s) /\ k <= n
  BY <1>0
<1> HIDE DEF At
<1>9. Len(t) = n
  OBVIOUS
<1> QED BY <1>1, <1>2, <1>7, <1>8, <1>9 DEF Since

-----------------------------------------------------------------------------
(* Pages are removed when they were read, also when the session table has  *)
(* wrapped around and a read finds the sizes of several sessions added up. *)

\* Every size that was ended is positive, there is one page at most, and a read that has
\* begun to copy at read_offset copies at least one byte and no second page.
Positive == \A i \in 0..MAX_SESSIONS - 1 : i < Len(ends) => sessions.sizes[i] > 0
Sure(local) ==
  /\ local.pc \notin {"closed", "opening", "open"} => local.want >= PAGE_SIZE
  /\ local.pc \in {"head", "load", "dec"} \cup Copies => local.total > 0
  /\ local.pc \in {"load", "dec"} \cup Copies => local.nth # 0
  /\ local.pc = "copy" /\ local.curr # NoPage =>
       local.size_read = 0 /\ local.begin_offset = read_offset
  /\ local.pc \in Copies => local.next = NoPage

\* The bytes of the pages that were given back, or are about to be, were read, and
\* as many of the page in use as read_offset says.
Leaving == IF Freeing THEN 1 ELSE 0
Enough == Len(FlattenSeq(got)) >= (Freed + Leaving) * PAGE_SIZE + read_offset
EnoughInv == /\ Positive /\ Len(mem_list) <= 1 /\ Enough
             /\ \A r \in Readers : Sure(reader[r])

LEMMA EnoughInit == Init => EnoughInv
<1> SUFFICES ASSUME Init PROVE EnoughInv
  OBVIOUS
<1>1. /\ mem_list = <<>> /\ copied = <<>> /\ write_offset = 0 /\ read_offset = 0
      /\ ends = <<>> /\ got = <<>> /\ tasklet.pc = "idle"
      /\ \A r \in Readers : reader[r].pc = "closed"
  BY DEF Init, PortInit, IdleTasklet, Closed
<1>2. Freed = 0 /\ Leaving = 0
  <2>1. 0 \in Nat /\ PagesFilled(0)
    BY <1>1, SizeAssumption DEF PagesFilled
  <2>2. Begun = 0
    BY <1>1, <2>1, BegunIs, SizeAssumption
  <2>3. Len(mem_list) = 0
    BY <1>1
  <2>4. ~Freeing
    BY <1>1 DEF Freeing
  <2>5. Freed = 0
    BY <2>2, <2>3 DEF Freed
  <2> QED BY <2>4, <2>5 DEF Leaving
<1>3. Len(FlattenSeq(got)) = 0
  <2>1. FlattenSeq(got) = got
    BY <1>1 DEF FlattenSeq
  <2> QED BY <1>1, <2>1
<1>4. (Freed + Leaving) * PAGE_SIZE + read_offset = 0
  BY <1>1, <1>2, SizeAssumption
<1>5. Len(mem_list) <= 1 /\ Len(ends) = 0
  BY <1>1
<1> QED BY <1>1, <1>3, <1>4, <1>5 DEF EnoughInv, Enough, Positive, Sure, Copies

LEMMA PositivePort ==
  ASSUME DriverTypes, Stored, Positive, Arrives \/ Handler \/ Copying \/ WakeUp
  PROVE  Positive'
<1> USE DEF store, ghosts, assembly
<1>1. /\ Len(ends) \in Nat /\ ends \in Seq(Nat) /\ Len(accepted) \in Nat
      /\ sessions \in [head : 0..MAX_SESSIONS - 1, count : Int,
                       sizes : [0..MAX_SESSIONS - 1 -> Nat]]
  BY PortFields
<1>2. CASE ~IrqStore /\ ~IrqCount
  <2>1. UNCHANGED <<sessions, ends>>
    BY <1>2 DEF Arrives, FirstHalf, SecondHalf, Handler, IrqContinues, IrqLock, IrqNul,
       IrqDrop, IrqUnlock, Copying, WakeUp, TaskletStep, TaskletStart, TaskletLock,
       TaskletTest, TaskletTake, TaskletDec, TaskletAlloc, TaskletAllocFail, TaskletStore,
       TaskletUnlock, TaskletWake
  <2> QED BY <2>1 DEF Positive
<1>3. CASE IrqStore
  <2> DEFINE at == irq.session_end
             sizes == sessions.sizes
             more == sizes[at] + 1
             next == [sizes EXCEPT ![at] = more]
  <2>1. sessions' = [sessions EXCEPT !.sizes = next] /\ UNCHANGED ends
    BY <1>3 DEF IrqStore
  <2>2. sizes \in [0..MAX_SESSIONS - 1 -> Nat]
    BY <1>1
  <2>3. sessions'.sizes = next
    BY <1>1, <2>1
  <2> HIDE DEF at
  <2>4. ASSUME NEW i \in 0..MAX_SESSIONS - 1, i < Len(ends)
        PROVE  next[i] > 0
    <3>1. sizes[i] > 0 /\ sizes[i] \in Nat
      BY <2>2, <2>4 DEF Positive
    <3> HIDE DEF sizes
    <3>2. CASE i = at
      <4>1. more > 0
        BY <3>1, <3>2
      <4> HIDE DEF more
      <4>2. next[i] = more
        BY <2>2, <3>2 DEF sizes
      <4> QED BY <4>1, <4>2
    <3>3. CASE i # at
      <4> HIDE DEF more
      <4>1. next[i] = sizes[i]
        BY <2>2, <3>3 DEF sizes
      <4> QED BY <3>1, <4>1
    <3> QED BY <3>2, <3>3
  <2> HIDE DEF next
  <2> QED BY <2>1, <2>3, <2>4 DEF Positive
<1>4. CASE IrqCount
  <2>1. /\ irq.pc = "count" /\ ends' = Append(ends, Len(accepted))
        /\ sessions'.sizes = sessions.sizes
    BY <1>1, <1>4 DEF IrqCount
  <2>2. Len(ends') = Len(ends) + 1
    BY <1>1, <2>1
  <2>3. ASSUME NEW i \in 0..MAX_SESSIONS - 1, i < Len(ends')
        PROVE  sessions.sizes[i] > 0
    <3>1. CASE i < Len(ends)
      BY <3>1 DEF Positive
    <3>2. CASE ~(i < Len(ends))
      <4>1. i = Len(ends) /\ Len(ends) < MAX_SESSIONS
        BY <1>1, <2>2, <2>3, <3>2, SizeAssumption
      <4>2. TableInv
        BY <4>1 DEF Stored, Tabled
      <4>3. EndOf(Len(ends)) < Len(accepted)
        BY <2>1, <4>2 DEF TableInv, Ending
      <4>4. sessions.sizes[i] = Upto(ends, Len(accepted), i + 1) - Upto(ends, Len(accepted), i)
        BY <4>1, <4>2 DEF TableInv, Framed
      <4>5. Upto(ends, Len(accepted), i + 1) = Len(accepted)
        BY <1>1, <4>1 DEF Upto
      <4>6. Upto(ends, Len(accepted), i) = EndOf(Len(ends)) /\ EndOf(Len(ends)) \in Nat
        <5>1. Len(ends) # 0 => ends[Len(ends)] \in Nat
          BY <1>1
        <5> QED BY <1>1, <4>1, <5>1 DEF Upto, EndOf
      <4> QED BY <1>1, <4>3, <4>4, <4>5, <4>6
    <3> QED BY <3>1, <3>2
  <2> QED BY <2>1, <2>3 DEF Positive
<1> QED BY <1>2, <1>3, <1>4

\* No step of the port gives a page back, or begins a second one.
LEMMA EnoughPort ==
  ASSUME OneAtATime, WellMannered, DriverTypes, DriverTypes', WholeInv, PagesInv, EnoughInv,
         Arrives \/ Handler \/ Copying \/ WakeUp
  PROVE  EnoughInv'
<1> USE DEF WholeInv, store, ghosts
<1>1. Positive'
  BY PositivePort DEF EnoughInv
<1>2. /\ ~Freeing /\ ~Freeing'
      /\ \A r \in Readers : \/ reader'[r] = reader[r]
                            \/ /\ reader[r].pc = "asleep"
                               /\ reader'[r] = [reader[r] EXCEPT !.pc = "woken"]
  BY QuietAfter
<1>3. Freed' = Freed /\ UNCHANGED <<got, read_offset>>
  BY PagesPort, PortGrows
<1>4. Enough'
  BY <1>2, <1>3 DEF EnoughInv, Enough, Leaving
<1>5. Len(mem_list') <= 1
  <2>1. CASE \E f \in Frames : TaskletAlloc(f)
    <3>1. tasklet.pc = "alloc" /\ \E f \in Frames : mem_list' = Append(mem_list, f)
      BY <2>1 DEF TaskletAlloc
    <3>2. mem_list = <<>>
      BY <3>1 DEF PipeInv, Nothing, InBuffer, InTheHand
    <3> QED BY <3>1, <3>2
  <2>2. CASE ~\E f \in Frames : TaskletAlloc(f)
    <3>1. UNCHANGED mem_list
      BY <2>2 DEF Arrives, FirstHalf, SecondHalf, Handler, IrqContinues, IrqLock, IrqNul,
         IrqCount, IrqStore, IrqDrop, IrqUnlock, Copying, WakeUp, TaskletStep, TaskletStart,
         TaskletLock, TaskletTest, TaskletTake, TaskletDec, TaskletAllocFail, TaskletStore,
         TaskletUnlock, TaskletWake
    <3> QED BY <3>1 DEF EnoughInv
  <2> QED BY <2>1, <2>2
<1>6. ASSUME NEW r \in Readers PROVE Sure(reader[r])'
  <2>1. reader[r].pc \in {"closed", "open", "asleep"} /\ Sure(reader[r]) /\ reader[r] \in Local
    BY Quiet DEF TurnsInv, EnoughInv, DriverTypes, ReadTypes, Fits
  <2>2. CASE reader'[r] = reader[r]
    BY <2>1, <2>2 DEF Sure, Copies
  <2>3. CASE /\ reader[r].pc = "asleep"
             /\ reader'[r] = [reader[r] EXCEPT !.pc = "woken"]
    <3>1. reader'[r].pc = "woken" /\ reader'[r].want = reader[r].want
      BY <2>1, <2>3 DEF Local
    <3> QED BY <2>1, <2>3, <3>1 DEF Sure, Copies
  <2> QED BY <1>2, <2>2, <2>3
<1> QED BY <1>1, <1>4, <1>5, <1>6 DEF EnoughInv

LEMMA FlatType ==
  ASSUME NEW S, NEW s \in Seq(Seq(S))
  PROVE  Len(FlattenSeq(s)) \in Nat
<1>1. PICK L : Lengths(L, s) /\ Len(FlattenSeq(s)) = L[Len(s)]
  BY FlatLength
<1>2. CASE Len(s) = 0
  BY <1>1, <1>2 DEF Lengths
<1>3. CASE Len(s) # 0
  <2>1. Len(s) \in 1..Len(s) /\ Len(s[Len(s)]) \in Nat
    BY <1>3
  <2>2. L[Len(s) - 1] \in Nat /\ L[Len(s)] = L[Len(s) - 1] + Len(s[Len(s)])
    BY <1>1, <2>1 DEF Lengths
  <2> QED BY <1>1, <2>1, <2>2
<1> QED BY <1>2, <1>3

-----------------------------------------------------------------------------

\* A list of one page at most has no next.
LEMMA AfterNone ==
  ASSUME Len(mem_list) \in Nat, Len(mem_list) <= 1, NEW f
  PROVE  After(f) = NoPage
<1>1. ~\E i \in 1..Len(mem_list) - 1 : mem_list[i] = f
  OBVIOUS
<1> QED BY <1>1 DEF After

\* A reader's step that leaves the sizes, the list and what was read alone.
LEMMA EnoughTurn ==
  ASSUME OneAtATime, WellMannered, DriverTypes, TurnsInv, EnoughInv,
         NEW r \in Readers, ReaderStep(r), NEW pc, NEW next, Goes(r, pc, next), Sure(next),
         pc # "free", next.pc # "free", sessions'.sizes = sessions.sizes,
         UNCHANGED <<got, mem_list, read_offset>>
  PROVE  EnoughInv'
<1>1. /\ \A s \in Readers \ {r} : reader[s].pc = "closed" /\ reader'[s] = reader[s]
      /\ UNCHANGED <<tasklet, ghosts, write_offset, copied>>
  BY MovesAlone
<1>2. reader[r].pc = pc /\ reader'[r] = next
  BY DEF Goes, DriverTypes, ReadTypes
<1>3. Freed' = Freed
  BY <1>1 DEF Freed, Begun
<1>4. Leaving' = Leaving
  <2>1. ~Freeing /\ ~Freeing'
    BY <1>2, OnlyOne
  <2> QED BY <2>1 DEF Leaving
<1>5. Enough'
  BY <1>3, <1>4 DEF EnoughInv, Enough
<1>6. Positive' /\ Len(mem_list') <= 1
  BY <1>1 DEF EnoughInv, Positive, ghosts
<1>7. ASSUME NEW s \in Readers PROVE Sure(reader[s])'
  <2>1. CASE s = r
    BY <1>2, <2>1 DEF Sure
  <2>2. CASE s # r
    BY <1>1, <2>2 DEF Sure, Copies
  <2> QED BY <2>1, <2>2
<1> QED BY <1>5, <1>6, <1>7 DEF EnoughInv

\* The steps before a session is taken, and after it was read.
LEMMA EnoughAway ==
  ASSUME OneAtATime, WellMannered, DriverTypes, WholeInv, EnoughInv,
         NEW r \in Readers, ReaderStep(r),
         \/ OpenTest(r) \/ OpenEnter(r) \/ CloseFile(r) \/ \E n \in NprocLimits : SetNproc(r, n)
         \/ \E n \in ReadSizes : ReadStart(r, n)
         \/ ReadOffset(r) \/ ReadWait(r) \/ ReadSize(r) \/ ReadLoad(r)
         \/ ReadDone(r) \/ ReadListEnd(r)
  PROVE  EnoughInv'
<1> USE DEF portVars, store, fileVars, WholeInv
<1>0. UNCHANGED <<sessions, got, mem_list, read_offset>>
  BY DEF OpenTest, OpenEnter, CloseFile, SetNproc, ReadStart, ReadOffset, ReadWait, ReadSize,
     ReadLoad, ReadDone, ReadListEnd
<1>1. ASSUME NEW pc, NEW next, Goes(r, pc, next), Sure(next), pc # "free", next.pc # "free"
      PROVE  EnoughInv'
  BY <1>0, <1>1, EnoughTurn
<1>2. reader[r] \in Local /\ Sure(reader[r])
  BY DEF EnoughInv, DriverTypes, ReadTypes, Fits
<1>3. CASE OpenTest(r)
  <2> DEFINE next == [Closed EXCEPT !.pc = "opening"]
  <2>1. next.pc = "opening" /\ Goes(r, "closed", next)
    BY <1>3 DEF OpenTest, Closed
  <2> HIDE DEF next
  <2>2. Sure(next)
    BY <2>1 DEF Sure, Copies
  <2> QED BY <1>1, <2>1, <2>2
<1>4. CASE OpenEnter(r) \/ CloseFile(r) \/ ReadDone(r) \/ ReadListEnd(r)
  <2>1. Opened.pc = "open" /\ Closed.pc = "closed"
    BY DEF Opened, Closed
  <2>2. Sure(Opened) /\ Sure(Closed)
    BY <2>1 DEF Sure, Copies
  <2>3. \E pc \in {"opening", "open", "next", "copy"} : Goes(r, pc, Opened) \/ Goes(r, pc, Closed)
    BY <1>4 DEF OpenEnter, CloseFile, ReadDone, ReadListEnd
  <2> QED BY <1>1, <2>1, <2>2, <2>3
<1>5. CASE \E n \in NprocLimits : SetNproc(r, n)
  <2>1. Goes(r, "open", reader[r]) /\ reader[r].pc = "open"
    BY <1>5 DEF SetNproc, Goes
  <2> QED BY <1>1, <1>2, <2>1
<1>6. ASSUME NEW n \in ReadSizes, ReadStart(r, n)
      PROVE  EnoughInv'
  <2> DEFINE next == [Opened EXCEPT !.want = n,
                        !.pc = IF sessions.count = 0 THEN "offset" ELSE "size"]
  <2>1. Goes(r, "open", next)
    BY <1>6 DEF ReadStart
  <2>2. next.pc \in {"offset", "size"} /\ next.want = n
    BY DEF Opened, Closed
  <2> HIDE DEF next
  <2>3. n >= PAGE_SIZE
    BY DEF WellMannered
  <2>4. Sure(next)
    BY <2>2, <2>3 DEF Sure, Copies
  <2> QED BY <1>1, <2>1, <2>2, <2>4
<1>7. CASE ReadOffset(r)
  <2> DEFINE next == [reader[r] EXCEPT
               !.pc = IF read_offset = write_offset THEN "wait" ELSE "size"]
  <2>1. Goes(r, "offset", next) /\ reader[r].pc = "offset"
    BY <1>7 DEF ReadOffset, Goes
  <2>2. next.pc \in {"wait", "size"} /\ next.want = reader[r].want
    BY <1>2 DEF Local
  <2> HIDE DEF next
  <2>3. Sure(next)
    BY <1>2, <2>1, <2>2 DEF Sure, Copies
  <2> QED BY <1>1, <2>1, <2>2, <2>3
<1>8. CASE ReadWait(r)
  <2> DEFINE next == [reader[r] EXCEPT
               !.pc = IF sessions.count # 0 THEN "size" ELSE "asleep"]
  <2>1. PICK pc \in {"wait", "woken"} : Goes(r, pc, next) /\ reader[r].pc = pc
    BY <1>8 DEF ReadWait, Goes
  <2>2. next.pc \in {"size", "asleep"} /\ next.want = reader[r].want
    BY <1>2 DEF Local
  <2> HIDE DEF next
  <2>3. Sure(next)
    BY <1>2, <2>1, <2>2 DEF Sure, Copies
  <2> QED BY <1>1, <2>1, <2>2, <2>3
<1>9. CASE ReadSize(r)
  <2> DEFINE size == sessions.sizes[sessions.head]
             next == [reader[r] EXCEPT !.pc = "head", !.total = size]
  <2>1. Goes(r, "size", next) /\ reader[r].pc = "size"
    BY <1>9 DEF ReadSize, Goes
  <2>2. size > 0
    <3>1. Len(ends) \in Nat /\ Len(got) \in Nat /\ sessions.head \in 0..MAX_SESSIONS - 1
      BY PortFields
    <3>2. sessions.head < Len(ends)
      <4>1. CASE Tabled
        <5>1. TableInv /\ Knows(reader[r])
          BY <4>1 DEF Stored, ReadInv
        <5>2. Len(got) < Len(ends) /\ sessions.head = Len(got)
          BY <2>1, <5>1 DEF Knows, TableInv
        <5> QED BY <5>2
      <4>2. CASE ~Tabled
        BY <3>1, <4>2, SizeAssumption DEF Tabled
      <4> QED BY <4>1, <4>2
    <3> QED BY <3>1, <3>2 DEF EnoughInv, Positive
  <2> HIDE DEF size
  <2>3. next.pc = "head" /\ next.total = size /\ next.want = reader[r].want
    BY <1>2 DEF Local
  <2> HIDE DEF next
  <2>4. Sure(next)
    BY <1>2, <2>1, <2>2, <2>3 DEF Sure, Copies
  <2> QED BY <1>1, <2>1, <2>3, <2>4
<1>10. CASE ReadLoad(r)
  <2> DEFINE next == [reader[r] EXCEPT !.pc = "dec", !.count = sessions.count]
  <2>1. Goes(r, "load", next) /\ reader[r].pc = "load"
    BY <1>10 DEF ReadLoad, Goes
  <2>2. /\ next.pc = "dec" /\ next.nth = reader[r].nth /\ next.total = reader[r].total
        /\ next.want = reader[r].want
    BY <1>2 DEF Local
  <2> HIDE DEF next
  <2>3. Sure(next)
    BY <1>2, <2>1, <2>2 DEF Sure, Copies
  <2> QED BY <1>1, <2>1, <2>2, <2>3
<1> QED BY <1>3, <1>4, <1>5, <1>6, <1>7, <1>8, <1>9, <1>10

\* The walk: it begins at read_offset, and there is no second page to go on to.
LEMMA EnoughWalk ==
  ASSUME OneAtATime, WellMannered, DriverTypes, TurnsInv, EnoughInv,
         NEW r \in Readers, ReaderStep(r), ReadDec(r) \/ ReadNext(r) \/ ReadUncount(r)
  PROVE  EnoughInv'
<1> USE DEF portVars, store, fileVars
<1>1. UNCHANGED <<got, mem_list, read_offset>> /\ sessions'.sizes = sessions.sizes
  <2>1. UNCHANGED <<got, mem_list, read_offset>>
    BY DEF ReadDec, ReadNext, ReadUncount
  <2>2. sessions'.sizes = sessions.sizes
    BY PortFields DEF ReadDec, ReadNext, ReadUncount
  <2> QED BY <2>1, <2>2
<1>2. reader[r] \in Local /\ Sure(reader[r]) /\ Measured(reader[r])
  BY DEF EnoughInv, DriverTypes, ReadTypes, Fits
<1>3. \A f : After(f) = NoPage
  BY AfterNone, BegunType DEF EnoughInv
<1>4. ASSUME NEW pc, pc # "free", NEW local \in Local, NEW f, Goes(r, pc, GoTo(local, f)),
             local.want >= PAGE_SIZE, local.total > 0, local.nth # 0,
             f # NoPage => local.size_read = 0 /\ local.begin_offset = read_offset
      PROVE  EnoughInv'
  <2> DEFINE next == GoTo(local, f)
             after == After(f)
  <2>1. next = [local EXCEPT !.pc = "copy", !.curr = f, !.next = after]
    BY DEF GoTo
  <2>2. after = NoPage
    BY <1>3
  <2> HIDE DEF after
  <2>3. /\ next.pc = "copy" /\ next.curr = f /\ next.next = NoPage
        /\ next.want = local.want /\ next.total = local.total /\ next.nth = local.nth
        /\ next.size_read = local.size_read /\ next.begin_offset = local.begin_offset
    BY <2>1, <2>2 DEF Local
  <2>4. Goes(r, pc, next)
    BY <1>4
  <2> HIDE DEF next
  <2>5. Sure(next)
    BY <1>4, <2>3 DEF Sure, Copies
  <2> QED BY <1>1, <1>4, <2>3, <2>4, <2>5, EnoughTurn
<1>5. CASE ReadDec(r)
  <2> DEFINE none == 0
             begun == [reader[r] EXCEPT !.count = none, !.begin_offset = read_offset]
  <2>1. Goes(r, "dec", GoTo(begun, First)) /\ reader[r].pc = "dec"
    BY <1>5 DEF ReadDec, Goes
  <2>2. read_offset \in Nat /\ none \in Int
    BY PortFields, SizeAssumption
  <2> HIDE DEF none
  <2>3. /\ begun \in Local /\ begun.size_read = reader[r].size_read
        /\ begun.begin_offset = read_offset /\ begun.want = reader[r].want
        /\ begun.total = reader[r].total /\ begun.nth = reader[r].nth
    BY <1>2, <2>2 DEF Local
  <2> HIDE DEF begun
  <2>4. /\ reader[r].size_read = 0 /\ reader[r].want >= PAGE_SIZE
        /\ reader[r].total > 0 /\ reader[r].nth # 0
    BY <1>2, <2>1 DEF Sure, Measured, Copies
  <2> QED BY <1>4, <2>1, <2>3, <2>4
<1>6. CASE ReadNext(r)
  <2>1. Goes(r, "next", GoTo(reader[r], reader[r].next)) /\ reader[r].pc = "next"
    BY <1>6 DEF ReadNext, Goes
  <2>2. /\ reader[r].next = NoPage /\ reader[r].want >= PAGE_SIZE
        /\ reader[r].total > 0 /\ reader[r].nth # 0
    BY <1>2, <2>1 DEF Sure, Copies
  <2> QED BY <1>2, <1>4, <2>1, <2>2
<1>7. CASE ReadUncount(r)
  <2> DEFINE none == 0
             next == [reader[r] EXCEPT !.pc = "next", !.num_pages = none, !.data_size = none]
  <2>1. Goes(r, "uncount", next) /\ reader[r].pc = "uncount"
    BY <1>7 DEF ReadUncount, Goes
  <2> HIDE DEF none
  <2>2. /\ next.pc = "next" /\ next.nth = reader[r].nth /\ next.total = reader[r].total
        /\ next.want = reader[r].want /\ next.next = reader[r].next
    BY <1>2 DEF Local
  <2> HIDE DEF next
  <2>3. Sure(next)
    BY <1>2, <2>1, <2>2 DEF Sure, Copies
  <2> QED BY <1>1, <2>1, <2>2, <2>3, EnoughTurn
<1> QED BY <1>5, <1>6, <1>7

\* What every step of a reader leaves alone.
LEMMA EnoughKeeps ==
  ASSUME OneAtATime, WellMannered, DriverTypes, TurnsInv, EnoughInv,
         NEW r \in Readers, ReaderStep(r), sessions'.sizes = sessions.sizes,
         Len(mem_list') <= 1, Enough', Sure(reader[r])'
  PROVE  EnoughInv'
<1>1. /\ \A s \in Readers \ {r} : reader[s].pc = "closed" /\ reader'[s] = reader[s]
      /\ UNCHANGED ghosts
  BY MovesAlone
<1>2. Positive'
  BY <1>1 DEF EnoughInv, Positive, ghosts
<1>3. ASSUME NEW s \in Readers \ {r} PROVE Sure(reader[s])'
  BY <1>1 DEF Sure, Copies
<1> QED BY <1>2, <1>3 DEF EnoughInv

\* A session is taken, of which nothing is read yet.
LEMMA EnoughHead ==
  ASSUME OneAtATime, WellMannered, DriverTypes, DriverTypes', TurnsInv, EnoughInv,
         NEW r \in Readers, ReaderStep(r), ReadHead(r)
  PROVE  EnoughInv'
<1> USE DEF store, fileVars
<1> DEFINE n == Len(got) + 1
           next == [reader[r] EXCEPT !.pc = "load", !.nth = n]
           S == Byte \cup {Outside}
<1>1. /\ Goes(r, "head", next) /\ reader[r].pc = "head" /\ got' = Append(got, <<>>)
      /\ UNCHANGED <<mem_list, read_offset>> /\ sessions'.sizes = sessions.sizes
  BY PortFields DEF ReadHead, Goes
<1>2. /\ reader[r] \in Local /\ Sure(reader[r]) /\ reader'[r] = next
      /\ got \in Seq(Seq(S)) /\ got' \in Seq(Seq(S)) /\ Len(got) \in Nat /\ n \in Nat
  BY <1>1, PortFields DEF EnoughInv, DriverTypes, ReadTypes, Fits, Goes, ReadBytes
<1>3. n # 0
  BY <1>2
<1>4. Len(got') = n /\ got'[n] = <<>> /\ \A i \in 1..Len(got) : got'[i] = got[i]
  BY <1>1, <1>2
<1>5. \A i \in 1..n : Len(got'[i]) = LenAt(got, i) + Here(1, i, 0)
  <2> SUFFICES ASSUME NEW i \in 1..n PROVE Len(got'[i]) = LenAt(got, i) + Here(1, i, 0)
    OBVIOUS
  <2>1. Here(1, i, 0) = 0
    BY DEF Here
  <2>2. CASE i <= Len(got)
    <3>1. i \in 1..Len(got) /\ got'[i] = got[i] /\ Len(got[i]) \in Nat
      BY <1>2, <1>4, <2>2
    <3>2. LenAt(got, i) = Len(got[i])
      BY <2>2 DEF LenAt
    <3> QED BY <2>1, <3>1, <3>2
  <2>3. CASE ~(i <= Len(got))
    <3>1. i = n /\ LenAt(got, i) = 0
      BY <1>2, <2>3 DEF LenAt
    <3>2. Len(got'[i]) = 0
      BY <1>4, <3>1
    <3> QED BY <2>1, <3>1, <3>2
  <2> QED BY <2>2, <2>3
<1>6. 1 \in 1..Len(got') /\ 0 \in Nat /\ Len(got) <= Len(got')
  BY <1>2, <1>4
<1> HIDE DEF n, S
<1>7. Len(FlattenSeq(got)) \in Nat /\ Len(FlattenSeq(got')) = Len(FlattenSeq(got)) + 0
  <2>1. n = Len(got')
    BY <1>4
  <2> DEFINE d == 0
             k == 1
  <2>2. /\ d \in Nat /\ k \in 1..Len(got')
        /\ \A i \in 1..n : Len(got'[i]) = LenAt(got, i) + Here(k, i, d)
    BY <1>5, <1>6
  <2> HIDE DEF d, k
  <2>3. Len(FlattenSeq(got)) \in Nat /\ Len(FlattenSeq(got')) = Len(FlattenSeq(got)) + d
    <3>1. got \in Seq(Seq(S)) /\ got' \in Seq(Seq(S)) /\ n \in Nat /\ Len(got) <= Len(got')
      BY <1>2, <1>6
    <3> QED BY <2>1, <2>2, <3>1, FlatMore, ZenonT(30)
  <2> QED BY <2>3 DEF d
<1>8. /\ next.pc = "load" /\ next.nth = n /\ next.total = reader[r].total
      /\ next.want = reader[r].want
  BY <1>2 DEF Local
<1> HIDE DEF next
<1>9. Sure(reader[r])'
  BY <1>1, <1>2, <1>3, <1>8 DEF Sure, Copies
<1>10. Leaving' = Leaving /\ Freed' = Freed
  <2>1. ~Freeing /\ ~Freeing'
    BY <1>1, <1>2, <1>8, OnlyOne
  <2>2. UNCHANGED <<mem_list, tasklet, write_offset, copied>>
    BY <1>1, MovesAlone
  <2> QED BY <2>1, <2>2 DEF Leaving, Freed, Begun
<1>11. Enough'
  BY <1>1, <1>7, <1>10 DEF EnoughInv, Enough
<1> QED BY <1>1, <1>9, <1>11, EnoughKeeps DEF EnoughInv

\* At least one byte is copied, and at most what a page has.
LEMMA CopiesSome ==
  ASSUME DriverTypes, NEW r \in Readers, Sure(reader[r]), reader[r].pc = "copy",
         reader[r].curr # NoPage, NEW n, n = SizeToRead(r)
  PROVE  n \in 1..PAGE_SIZE
<1>1. reader[r] \in Local /\ read_offset \in 0..PAGE_SIZE - 1
  BY PortFields DEF DriverTypes, ReadTypes, Fits
<1>2. /\ reader[r].total \in Nat /\ reader[r].want \in Nat /\ reader[r].total > 0
      /\ reader[r].size_read = 0 /\ reader[r].begin_offset = read_offset
      /\ reader[r].want >= PAGE_SIZE
  BY <1>1 DEF Sure, Copies, Local
<1>3. SizeLeft(r) = reader[r].total
  BY <1>2 DEF SizeLeft
<1>4. CASE SizeLeft(r) < PAGE_SIZE
  BY <1>2, <1>3, <1>4, SizeAssumption DEF SizeToRead
<1>5. CASE ~(SizeLeft(r) < PAGE_SIZE)
  <2> DEFINE room == PAGE_SIZE - reader[r].begin_offset
             sizes == {room, reader[r].want, reader[r].total}
             least == Min(sizes)
  <2>1. room \in 1..PAGE_SIZE
    BY <1>1, <1>2, SizeAssumption
  <2>2. n = least
    BY <1>5 DEF SizeToRead
  <2> HIDE DEF room
  <2>3. \A x \in sizes : x \in Nat /\ x > 0
    BY <1>2, <2>1, SizeAssumption
  <2>4. room \in sizes /\ \E x \in sizes : \A y \in sizes : x <= y
    BY <1>2, <2>1, SizeAssumption
  <2> HIDE DEF sizes
  <2>5. least \in sizes /\ least <= room
    BY <2>4, LeastOne
  <2> HIDE DEF least
  <2> QED BY <2>1, <2>2, <2>3, <2>5, SizeAssumption
<1> QED BY <1>4, <1>5

\* What it means to read on: to some place in the page, to its end, or past it.
LEMMA ReadsOn ==
  ASSUME NEW f \in Int, NEW had \in Nat, NEW ro \in 0..PAGE_SIZE - 1, NEW more \in 1..PAGE_SIZE,
         NEW moved, moved = (ro + more) % PAGE_SIZE,
         had >= f * PAGE_SIZE + ro
  PROVE  had + more >= (f + (IF moved = 0 THEN 1 ELSE 0)) * PAGE_SIZE + moved
<1> DEFINE m == f * PAGE_SIZE
<1>1. m \in Int /\ (f + 1) * PAGE_SIZE = m + PAGE_SIZE /\ (f + 0) * PAGE_SIZE = m
  BY SizeAssumption
<1>2. ro + more \in 0..2 * PAGE_SIZE - 1
  BY SizeAssumption
<1>3. moved = IF ro + more < PAGE_SIZE THEN ro + more ELSE (ro + more) - PAGE_SIZE
  BY <1>2, ModOneTurn, SizeAssumption, Zenon DEF OneTurn
<1> HIDE DEF m
<1>4. had >= m + ro
  BY DEF m
<1>5. CASE moved = 0
  BY <1>1, <1>3, <1>4, <1>5, SizeAssumption
<1>6. CASE moved # 0
  BY <1>1, <1>3, <1>4, <1>6, SizeAssumption
<1> QED BY <1>5, <1>6

\* Its page is copied, and given back when read_offset reaches its end.
LEMMA EnoughCopy ==
  ASSUME OneAtATime, WellMannered, DriverTypes, DriverTypes', TurnsInv, EnoughInv,
         NEW r \in Readers, ReaderStep(r), ReadCopy(r)
  PROVE  EnoughInv'
<1> USE DEF portVars, store
<1> DEFINE n == SizeToRead(r)
           moved == (read_offset + n) % PAGE_SIZE
           pc == IF moved = 0 THEN "free" ELSE "next"
           begin == reader[r].begin_offset + n
           size == reader[r].size_read + n
           next == [reader[r] EXCEPT !.pc = pc, !.begin_offset = begin, !.size_read = size]
           k == reader[r].nth
           part == PageBytes(r)
           S == Byte \cup {Outside}
<1>1. /\ Goes(r, "copy", next) /\ reader[r].pc = "copy" /\ reader[r].curr # NoPage
      /\ read_offset' = moved
      /\ got' = [got EXCEPT ![k] = got[k] \o part]
      /\ UNCHANGED <<mem_list, sessions>>
  BY DEF ReadCopy, Goes
<1>2. /\ reader[r] \in Local /\ Sure(reader[r]) /\ reader'[r] = next
      /\ got \in Seq(Seq(S)) /\ got' \in Seq(Seq(S)) /\ Len(got) \in Nat
      /\ k \in Nat /\ k <= Len(got) /\ read_offset \in 0..PAGE_SIZE - 1
  BY <1>1, PortFields DEF EnoughInv, DriverTypes, ReadTypes, Fits, Goes, ReadBytes, Local
<1>3. n \in 1..PAGE_SIZE
  BY <1>1, <1>2, CopiesSome
<1>4. part \in Seq(S) /\ Len(part) = n
  <2>1. part \in Seq(S)
    BY <1>1, BytesRead DEF DriverTypes, PortTypes, ReadBytes
  <2> DEFINE Found(i) == LET at == reader[r].begin_offset + i - 1
                         IN  IF at < PAGE_SIZE THEN page[reader[r].curr][at] ELSE Outside
  <2>2. part = [i \in 1..n |-> Found(i)]
    BY DEF PageBytes
  <2> HIDE DEF Found, part, n
  <2>3. Len(part) = n
    BY <1>3, <2>2
  <2> QED BY <2>1, <2>3
<1>5. /\ next.pc = pc /\ next.nth = k /\ next.total = reader[r].total
      /\ next.want = reader[r].want /\ next.next = reader[r].next
  BY <1>2 DEF Local
<1>6. k # 0 /\ k \in 1..Len(got)
  BY <1>1, <1>2 DEF Sure, Copies
<1> HIDE DEF n, part, S, next, k, moved
<1>7. Len(got') = Len(got) /\ \A i \in 1..Len(got) : got'[i] = IF i = k THEN got[k] \o part ELSE got[i]
  BY <1>1, <1>2, <1>6
<1>8. ASSUME NEW i \in 1..Len(got) PROVE Len(got'[i]) = LenAt(got, i) + Here(k, i, n)
  <2>1. got[i] \in Seq(S) /\ Len(got[i]) \in Nat
    BY <1>2
  <2>2. LenAt(got, i) = Len(got[i])
    BY <1>2 DEF LenAt
  <2>3. CASE i = k
    <3>1. got'[i] = got[i] \o part
      BY <1>7, <2>3
    <3>2. Len(got'[i]) = Len(got[i]) + n
      BY <1>4, <2>1, <3>1, LenJoin
    <3> QED BY <2>2, <2>3, <3>2 DEF Here
  <2>4. CASE i # k
    <3>1. got'[i] = got[i] /\ Here(k, i, n) = 0
      BY <1>7, <2>4 DEF Here
    <3> QED BY <2>1, <2>2, <3>1
  <2> QED BY <2>3, <2>4
<1>9. Len(FlattenSeq(got)) \in Nat /\ Len(FlattenSeq(got')) = Len(FlattenSeq(got)) + n
  <2> DEFINE l == Len(got)
  <2>1. /\ k \in 1..Len(got') /\ n \in Nat /\ Len(got) <= Len(got')
        /\ l \in Nat /\ l = Len(got')
    BY <1>2, <1>3, <1>6, <1>7
  <2>2. \A i \in 1..l : Len(got'[i]) = LenAt(got, i) + Here(k, i, n)
    BY <1>8
  <2> HIDE DEF l
  <2> QED BY <1>2, <2>1, <2>2, FlatMore, ZenonT(30)
<1>10. Sure(reader[r])'
  BY <1>1, <1>2, <1>5, <1>6 DEF Sure, Copies
<1>11. Freed' = Freed
  <2>1. UNCHANGED <<mem_list, tasklet, write_offset, copied>>
    BY <1>1, MovesAlone
  <2> QED BY <2>1 DEF Freed, Begun
<1>12. Leaving = 0 /\ Leaving' = IF moved = 0 THEN 1 ELSE 0
  BY <1>1, <1>2, <1>5, OnlyOne DEF Leaving
<1>13. Len(FlattenSeq(got)) >= Freed * PAGE_SIZE + read_offset
  <2>1. Freed + 0 = Freed
    BY BegunType
  <2> QED BY <1>12, <2>1 DEF EnoughInv, Enough
<1>14. Len(FlattenSeq(got)) + n >= (Freed + (IF moved = 0 THEN 1 ELSE 0)) * PAGE_SIZE + moved
  <2>1. Freed \in Int
    BY BegunType
  <2> QED BY <1>2, <1>3, <1>9, <1>13, <2>1, ReadsOn DEF moved
<1>15. Enough'
  BY <1>1, <1>9, <1>11, <1>12, <1>14, Zenon DEF Enough
<1> QED BY <1>1, <1>10, <1>15, EnoughKeeps DEF EnoughInv

LEMMA EnoughFree ==
  ASSUME OneAtATime, WellMannered, DriverTypes, TurnsInv, PagesInv, EnoughInv,
         NEW r \in Readers, ReaderStep(r), ReadFree(r)
  PROVE  EnoughInv'
<1> USE DEF fileVars
<1> DEFINE next == [reader[r] EXCEPT !.pc = "uncount",
                      !.num_pages = num_pages, !.data_size = data_size]
<1>1. /\ Goes(r, "free", next) /\ reader[r].pc = "free"
      /\ UNCHANGED <<sessions, read_offset, got>>
  BY DEF ReadFree, Goes
<1>2. reader[r] \in Local /\ Sure(reader[r]) /\ reader'[r] = next
  BY <1>1 DEF EnoughInv, DriverTypes, ReadTypes, Fits, Goes
<1>3. /\ next.pc = "uncount" /\ next.nth = reader[r].nth /\ next.total = reader[r].total
      /\ next.want = reader[r].want /\ next.next = reader[r].next
  BY <1>2 DEF Local
<1> HIDE DEF next
<1>4. Freed' = Freed + 1 /\ Len(mem_list') = Len(mem_list) - 1
  BY PagesFree
<1>5. Len(mem_list') <= 1
  BY <1>4, BegunType DEF EnoughInv
<1>6. Leaving = 1 /\ Leaving' = 0
  BY <1>1, <1>2, <1>3, OnlyOne DEF Leaving
<1>7. Freed' + Leaving' = Freed + Leaving
  BY <1>4, <1>6, BegunType
<1>8. Enough'
  BY <1>1, <1>7 DEF EnoughInv, Enough
<1>9. Sure(reader[r])'
  BY <1>1, <1>2, <1>3 DEF Sure, Copies
<1> QED BY <1>1, <1>5, <1>8, <1>9, EnoughKeeps

LEMMA EnoughNext ==
  ASSUME OneAtATime, WellMannered, DriverTypes, DriverTypes', WholeInv, PagesInv, EnoughInv,
         [Next]_vars
  PROVE  EnoughInv'
<1>1. CASE UNCHANGED vars
  BY <1>1 DEF vars, portVars, readerVars, fileVars, store, ghosts, EnoughInv, Positive,
     Enough, Leaving, Freeing, Freed, Begun, Sure
<1>2. CASE Arrives \/ Handler \/ Copying \/ WakeUp
  BY <1>2, EnoughPort
<1>3. ASSUME NEW r \in Readers, ReaderStep(r) PROVE EnoughInv'
  <2>1. ~ReadFault(r) /\ ~Signal(r)
    BY DEF ReadFault, Signal, WellMannered
  <2> QED BY <1>3, <2>1, EnoughAway, EnoughWalk, EnoughHead, EnoughCopy, EnoughFree
             DEF ReaderStep, WholeInv
<1> QED BY <1>1, <1>2, <1>3 DEF Next

\* In a world that keeps all manners, where nothing fails and nobody signals, a page is
\* given back only when every byte of it was read, "if read all from first page, remove
\* it": also when the session table is full, however many processes use the device one
\* after another (asgn.c:329-340).
THEOREM RemovesWhenRead == WellMannered => (Spec => []RemovedWhenRead)
<1> SUFFICES ASSUME OneAtATime, WellMannered PROVE Spec => []RemovedWhenRead
  BY DEF WellMannered
<1>1. Init => EnoughInv
  BY EnoughInit
<1>2. DriverTypes /\ DriverTypes' /\ WholeInv /\ PagesInv /\ EnoughInv /\ [Next]_vars
        => EnoughInv'
  BY EnoughNext
<1>3. DriverTypes /\ EnoughInv => RemovedWhenRead
  <2> SUFFICES ASSUME DriverTypes, Enough PROVE Freed * PAGE_SIZE <= Len(FlattenSeq(got))
    BY DEF EnoughInv, RemovedWhenRead
  <2>1. Freed \in Int /\ Leaving \in {0, 1} /\ read_offset \in 0..PAGE_SIZE - 1
    BY BegunType, PortFields DEF Leaving
  <2>2. Len(FlattenSeq(got)) \in Int
    <3>1. got \in Seq(Seq(Byte \cup {Outside}))
      BY PortFields DEF ReadBytes
    <3> QED BY <3>1, FlatType
  <2>3. (Freed + Leaving) * PAGE_SIZE >= Freed * PAGE_SIZE
    <3>1. CASE Leaving = 0
      BY <2>1, <3>1, SizeAssumption
    <3>2. CASE Leaving = 1
      BY <2>1, <3>2, SizeAssumption
    <3> QED BY <2>1, <3>1, <3>2
  <2> DEFINE m == (Freed + Leaving) * PAGE_SIZE
             f == Freed * PAGE_SIZE
  <2>4. m \in Int /\ f \in Int
    BY <2>1, SizeAssumption
  <2>5. Len(FlattenSeq(got)) >= m + read_offset /\ m >= f
    BY <2>3 DEF Enough
  <2> HIDE DEF m, f
  <2>6. f <= Len(FlattenSeq(got))
    BY <2>1, <2>2, <2>4, <2>5, SizeAssumption
  <2> QED BY <2>6 DEF f
<1>4. OneAtATime
  OBVIOUS
<1> QED BY <1>1, <1>2, <1>3, <1>4, WholeAlways, PagesAlways, TypesAlways, PTL DEF Spec

=============================================================================
